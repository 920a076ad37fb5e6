----------------------------- MODULE MCStreams -----------------------------
(***************************************************************************)
(* What passes through the server, and must come to an end: text and       *)
(* speech of a session (WsSession) with its client (WsAudition), the       *)
(* speech of a child on its way to the server (SubprocessChild), and the   *)
(* calls that take the backends and their locks (Serving).  They share     *)
(* nothing here, so a behaviour is one of one of them, the others staying  *)
(* as they began and no fairness asking anything of them.                  *)
(*                                                                         *)
(* One session of at most three sentences: enough for a sentence being     *)
(* spoken while two wait in the queue behind it, for a text frame that     *)
(* forms several sentences, and for a failure before, between and after    *)
(* sentences.  Its client is any client, or a row of the audition that     *)
(* sends its text in up to three bursts: one before, between and after     *)
(* sentences.                                                              *)
(*                                                                         *)
(* Two subprocess backends that compete for two ports, and one call. Two   *)
(* children are enough for a second backend to be given the port the first *)
(* has picked, and for the reload of a backend that was unloaded or died.  *)
(*                                                                         *)
(* Three calls on a pool of two threads, of backends that lock around each *)
(* inference or not at all: a backend that keeps its lock between chunks   *)
(* stops the others (MCServingStall).  The calls are told apart by their   *)
(* numbers only, so they are numbered by what they ask.                    *)
(***************************************************************************)
EXTENDS WsAudition, SubprocessChild, MCServing, SequencesExt

VARIABLE machine

streamsVars == <<machine, allVars, childVars, servingVars>>

ByWhatIsAsked ==
    LET Rank(r) == CHOOSE k \in DOMAIN SetToSeq(Jobs) : SetToSeq(Jobs)[k] = job[r]
    IN \A q, r \in Requests : q < r => Rank(q) <= Rank(r)

StreamsInit ==
    /\ machine \in {"session", "child", "calls"}
    /\ AuditionInit /\ (machine # "session" => client = "any")
    /\ ChildInit
    /\ ServingInit /\ (IF machine = "calls" THEN ByWhatIsAsked ELSE NothingAsked)

StreamsNext ==
    /\ UNCHANGED machine
    /\ \/ machine = "session" /\ AuditionNext /\ UNCHANGED <<childVars, servingVars>>
       \/ machine = "child"   /\ ChildNext    /\ UNCHANGED <<allVars, servingVars>>
       \/ machine = "calls"   /\ ServingNext  /\ UNCHANGED <<allVars, childVars>>

(* ServingFairness, for the calls that are made.                           *)
CallsFairness ==
    \A r \in Requests : /\ WF_servingVars(machine = "calls" /\ OnLoop(r))
                        /\ WF_servingVars(machine = "calls" /\ InThread(r))

StreamsSpec ==
    /\ StreamsInit /\ [][StreamsNext]_streamsVars
    /\ AuditionFairness /\ ChildFairness /\ CallsFairness

(* Serving.EveryCallIsAnswered: where no stream keeps a lock between its   *)
(* chunks, every call of the server is answered.                           *)
CallsEnd == machine = "calls" => EveryCallIsAnswered
=============================================================================
