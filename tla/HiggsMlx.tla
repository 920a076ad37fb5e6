------------------------------ MODULE HiggsMlx ------------------------------
(***************************************************************************)
(* synthesize of the higgs-mlx backend (backends/higgs_mlx.py), in the     *)
(* child process that serves it.  The shim runs every request in a worker  *)
(* thread of its own; what touches MLX is submitted to an executor with    *)
(* one thread and waited for.  A call first makes sure that the server's   *)
(* reference cache holds its voice, and then generates from that cache.    *)
(*                                                                         *)
(* Abstraction.  A voice reference is a voice_id and a ref_text; the cache *)
(* of the external HiggsAudioServer is the reference it was last prepared  *)
(* for.  Sampling, PCM and the slices of a stream are left out.            *)
(***************************************************************************)
EXTENDS Sequences

CONSTANTS
    Calls,   \* requests to the child
    Voices,  \* voice ids
    Texts,   \* reference transcripts
    Unset    \* None

VARIABLES
    ref,        \* the reference of each call
    pc,         \* where its thread is
    cachedId,   \* _cached_ref_voice_id
    cachedText, \* _cached_ref_text
    prepared,   \* _reference_cache of the HiggsAudioServer
    executor,   \* the jobs submitted to the executor: call and kind
    spoken      \* the reference each call was spoken with

vars == <<ref, pc, cachedId, cachedText, prepared, executor, spoken>>

Refs == [id : Voices, text : Texts]

Init == /\ ref \in [Calls -> Refs]
        /\ pc = [c \in Calls |-> "check"]
        /\ cachedId = Unset /\ cachedText = Unset
        /\ prepared = Unset
        /\ executor = <<>>
        /\ spoken = [c \in Calls |-> Unset]

Goto(c, l) == pc' = [pc EXCEPT ![c] = l]

Submit(c, kind) == executor' = Append(executor, [call |-> c, kind |-> kind])

(* The key is compared: the reference is prepared anew, or it is there.    *)
Check(c) ==
    /\ pc[c] = "check"
    /\ IF cachedId = ref[c].id /\ cachedText = ref[c].text
         THEN Goto(c, "generate") /\ UNCHANGED executor
         ELSE Goto(c, "wait") /\ Submit(c, "prepare")
    /\ UNCHANGED <<ref, cachedId, cachedText, prepared, spoken>>

(* The key is set, after the executor has answered.                        *)
SetId(c) ==
    /\ pc[c] = "set id"
    /\ cachedId' = ref[c].id
    /\ Goto(c, "set text")
    /\ UNCHANGED <<ref, cachedText, prepared, executor, spoken>>

SetText(c) ==
    /\ pc[c] = "set text"
    /\ cachedText' = ref[c].text
    /\ Goto(c, "generate")
    /\ UNCHANGED <<ref, cachedId, prepared, executor, spoken>>

Generate(c) ==
    /\ pc[c] = "generate"
    /\ Submit(c, "generate")
    /\ Goto(c, "wait")
    /\ UNCHANGED <<ref, cachedId, cachedText, prepared, spoken>>

(* The one thread of the executor runs the job that was submitted first.   *)
RunJob ==
    /\ executor # <<>>
    /\ LET c == Head(executor).call IN
       \/ /\ Head(executor).kind = "prepare"
          /\ prepared' = ref[c]
          /\ Goto(c, "set id")
          /\ UNCHANGED spoken
       \/ /\ Head(executor).kind = "generate"
          /\ spoken' = [spoken EXCEPT ![c] = prepared]
          /\ Goto(c, "done")
          /\ UNCHANGED prepared
    /\ executor' = Tail(executor)
    /\ UNCHANGED <<ref, cachedId, cachedText>>

(* A job raises: its call fails, and a failed preparation sets no key.     *)
JobRaises ==
    /\ executor # <<>>
    /\ Goto(Head(executor).call, "failed")
    /\ executor' = Tail(executor)
    /\ UNCHANGED <<ref, cachedId, cachedText, prepared, spoken>>

Next == (\E c \in Calls : Check(c) \/ SetId(c) \/ SetText(c) \/ Generate(c))
        \/ RunJob \/ JobRaises

Spec == Init /\ [][Next]_vars

-----------------------------------------------------------------------------
(* higgs_mlx.py 437-440: the cache is keyed so that no call is spoken with *)
(* stale prefix embeddings: a call is spoken with its own reference.       *)
SpokenInItsVoice == \A c \in Calls : spoken[c] \in {Unset, ref[c]}

=============================================================================
