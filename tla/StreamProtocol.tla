--------------------------- MODULE StreamProtocol ---------------------------
(***************************************************************************)
(* What WS /v1/tts/stream promises its client (server.py 1417-1440 and     *)
(* docs/API_SPEC.md, "Wire protocol"), with no word about how the server   *)
(* keeps the promise: text arrives and forms sentences, and each sentence  *)
(* is spoken, whole and in its turn, as sentence_start, audio,             *)
(* sentence_done.  "complete" is said only when the client has said "end"  *)
(* and every sentence of its text was spoken; "error" is the last frame    *)
(* of a stream that cannot go on; and a client that leaves hears nothing   *)
(* more.                                                                   *)
(***************************************************************************)
EXTENDS Naturals, Sequences

VARIABLES
    wire,      \* the frames the client has received, oldest first
    formed,    \* number of sentences the received text has formed
    pending,   \* text is left over that has not formed a sentence yet
    ended,     \* the server has read the client's {"end": true}
    connected  \* the client has not gone away

vars == <<wire, formed, pending, ended, connected>>

-----------------------------------------------------------------------------
(* Frames.  "idx" is the sentence a frame is about; the audio frame names  *)
(* the sentence it is the audio of, although no field on the wire says so. *)

Events == {"session", "sentence_start", "audio", "sentence_done",
           "complete", "error"}
Frame  == [event : Events, idx : Nat]

SessionFrame     == [event |-> "session", idx |-> 0]
StartFrame(i)    == [event |-> "sentence_start", idx |-> i]
AudioFrame(i)    == [event |-> "audio", idx |-> i]
DoneFrame(i)     == [event |-> "sentence_done", idx |-> i]
CompleteFrame(n) == [event |-> "complete", idx |-> n]
ErrorFrame       == [event |-> "error", idx |-> 0]

Terminal(f) == f.event \in {"complete", "error"}

(* The sentence a client expects next after frame f.                       *)
NextSentence(f) == IF f.event = "session" THEN 0 ELSE f.idx + 1

(* Frame g may come right after frame f.                                   *)
Follows(f, g) ==
    \/ /\ f.event \in {"session", "sentence_done"}
       /\ \/ g = StartFrame(NextSentence(f))
          \/ g = CompleteFrame(NextSentence(f))
          \/ g = ErrorFrame
    \/ f.event = "sentence_start" /\ g \in {AudioFrame(f.idx), ErrorFrame}
    \/ f.event = "audio"          /\ g \in {DoneFrame(f.idx), ErrorFrame}

LastFrame == wire[Len(wire)]

Closed == wire # <<>> /\ Terminal(LastFrame)

-----------------------------------------------------------------------------
Init == /\ wire = <<>>
        /\ formed = 0
        /\ pending = FALSE
        /\ ended = FALSE
        /\ connected = TRUE

(* Text arrives; it may complete sentences, leave a rest, or be the last.  *)
Hear == /\ ~ended
        /\ formed' \in Nat /\ formed' >= formed
        /\ pending' \in BOOLEAN
        /\ (pending /\ ~pending') => formed' > formed
        /\ ended' \in BOOLEAN
        /\ ended' => ~pending'
        /\ UNCHANGED <<wire, connected>>

Say(f) == /\ connected
          /\ wire' = Append(wire, f)
          /\ UNCHANGED <<formed, pending, ended, connected>>

Greet == wire = <<>> /\ Say(SessionFrame)

Refuse == wire = <<>> /\ Say(ErrorFrame)

Speak == /\ wire # <<>>
         /\ \E f \in {StartFrame(NextSentence(LastFrame)),
                      AudioFrame(LastFrame.idx), DoneFrame(LastFrame.idx)} :
                /\ Follows(LastFrame, f)
                /\ f.idx < formed
                /\ Say(f)

Fail == /\ wire # <<>> /\ ~Closed
        /\ Say(ErrorFrame)

Complete == /\ wire # <<>>
            /\ Follows(LastFrame, CompleteFrame(formed))
            /\ ended /\ ~pending
            /\ Say(CompleteFrame(formed))

Leave == /\ connected
         /\ connected' = FALSE
         /\ UNCHANGED <<wire, formed, pending, ended>>

Next == Hear \/ Greet \/ Refuse \/ Speak \/ Fail \/ Complete \/ Leave

Spec == Init /\ [][Next]_vars

-----------------------------------------------------------------------------
(* The stream a client receives is well formed: it opens with "session" or *)
(* with the error that refuses it, and from there every frame is one that  *)
(* may follow the frame before it.  Sentences are therefore whole, in      *)
(* order, none twice and none skipped, and nothing follows the last frame. *)
WireInOrder ==
    /\ wire # <<>> => wire[1] \in {SessionFrame, ErrorFrame}
    /\ \A i \in 1 .. Len(wire) - 1 : Follows(wire[i], wire[i + 1])

=============================================================================
