----------------------------- MODULE WsSession -----------------------------
(***************************************************************************)
(* One session of WS /v1/tts/stream: ws_tts_stream and _handle_ws_session  *)
(* of server.py.  The producer task reads text frames, feeds the           *)
(* SentenceBuffer and queues every sentence it forms; the consumer task    *)
(* takes sentences from the queue, synthesizes each in a worker thread and *)
(* sends its frames; the handler waits for both (asyncio.gather) and ends  *)
(* the stream.                                                             *)
(*                                                                         *)
(* Abstraction.  A sentence is its number.  What a text frame does to the  *)
(* SentenceBuffer is how many sentences it completes and whether text is   *)
(* left over (module SentenceBuffer has the text).  A synthesis returns or *)
(* raises.  An asyncio task runs without interleaving between two awaits   *)
(* that can suspend it, so an action is the code between two of them;      *)
(* Queue.put on an unbounded queue never suspends.  Sending to a client    *)
(* that has gone either raises or is lost.                                 *)
(***************************************************************************)
EXTENDS Naturals, Sequences

CONSTANTS
    MaxSentences,  \* bound on the sentences of one session, for TLC
    NoMore         \* the None sentinel of sentence_queue

ASSUME MaxSentencesAssumption == MaxSentences \in Nat
ASSUME NoMoreAssumption == NoMore \notin Nat

VARIABLES
    phase,      \* "handshake", "running" (gather), "closed"
    connected,  \* the client has not gone away
    gauge,      \* this session's share of metrics.active_ws_connections
    pending,    \* the SentenceBuffer holds text
    ended,      \* end_received
    total,      \* sentence_idx_total
    queue,      \* sentence_queue: sentence numbers and NoMore
    producer,   \* receive_producer: "off", "receive", "exited"
    consumer,   \* synth_consumer: "off", "get", "synth", "done", "exited"
    current,    \* the sentence the consumer took from the queue last
    errors,     \* the keys of error_state
    wire        \* frames the client has received

tasks == <<producer, consumer>>
text  == <<pending, ended, total>>
vars  == <<phase, connected, gauge, pending, ended, total, queue, producer,
           consumer, current, errors, wire>>

Protocol == INSTANCE StreamProtocol WITH formed <- total

-----------------------------------------------------------------------------
Init == /\ phase = "handshake" /\ connected = TRUE /\ gauge = 1
        /\ pending = FALSE /\ ended = FALSE /\ total = 0
        /\ queue = <<>>
        /\ producer = "off" /\ consumer = "off"
        /\ current = 0
        /\ errors = {}
        /\ wire = <<>>

(* A frame sent to a client that is still there reaches it.                *)
Send(f) == wire' = IF connected THEN Append(wire, f) ELSE wire

(* A send can raise only when the client has gone.                         *)
SendMayRaise == ~connected

-----------------------------------------------------------------------------
(* Handshake: the init frame, the voice, the backend.                      *)

(* Voice and backend are there: "session" is sent and both tasks start.    *)
Accept ==
    /\ phase = "handshake"
    /\ phase' = "running"
    /\ Send(Protocol!SessionFrame)
    /\ producer' = "receive" /\ consumer' = "get"
    /\ UNCHANGED <<connected, gauge, text, queue, current, errors>>

(* Faulty variant: the early return counts the session out as well as the  *)
(* finally clause.                                                         *)
RejectCountedTwice ==
    /\ phase = "handshake"
    /\ phase' = "closed" /\ gauge' = gauge - 2
    /\ Send(Protocol!ErrorFrame)
    /\ UNCHANGED <<connected, text, queue, tasks, current, errors>>

(* No "voice", a voice that is not registered, or a backend that           *)
(* _ensure_backend reports as an HTTPException: error frame, then close.   *)
Reject ==
    /\ phase = "handshake"
    /\ phase' = "closed" /\ gauge' = 0
    /\ Send(Protocol!ErrorFrame)
    /\ UNCHANGED <<connected, text, queue, tasks, current, errors>>

(* Faulty variant: an exception skips the decrement.                       *)
AbandonUncounted ==
    /\ phase = "handshake"
    /\ phase' = "closed"
    /\ UNCHANGED <<connected, gauge, text, queue, tasks, current, errors, wire>>

(* Everything else that goes wrong before the tasks start leaves the       *)
(* handler as an exception and runs only the finally of ws_tts_stream: a   *)
(* disconnect (which returns), an init frame that is not JSON, a voice_id  *)
(* or a voice directory Registry.get cannot read, a backend whose load     *)
(* raises anything but HTTPException, a send to a client that has gone.    *)
Abandon ==
    /\ phase = "handshake"
    /\ phase' = "closed" /\ gauge' = 0
    /\ UNCHANGED <<connected, text, queue, tasks, current, errors, wire>>

-----------------------------------------------------------------------------
(* The producer task.                                                      *)

(* Faulty variant: the index is incremented before the sentence is queued. *)
BatchIncrementedFirst(lo, hi) == [i \in 1 .. hi - lo |-> lo + i]

(* Sentences lo .. hi-1, as they are put on the queue.                     *)
Batch(lo, hi) == [i \in 1 .. hi - lo |-> lo + i - 1]

NoMoreIf(b) == IF b THEN <<NoMore>> ELSE <<>>

(* Faulty variant: "end" does not flush the buffer.                        *)
ReceiveTextUnflushed(n, rest, end) ==
    /\ producer = "receive"
    /\ (pending /\ n = 0) => rest
    /\ total + n <= MaxSentences
    /\ total' = total + n
    /\ queue' = queue \o Batch(total, total + n) \o NoMoreIf(end)
    /\ pending' = rest
    /\ ended' = end
    /\ producer' = IF end THEN "exited" ELSE "receive"
    /\ UNCHANGED <<phase, connected, gauge, consumer, current, errors, wire>>

(* A text frame completes n sentences and leaves text (rest) or not; with  *)
(* "end" what is left is flushed as one more sentence and the loop is over *)
(* (the finally clause then queues the sentinel).  Text already pending    *)
(* stays until a sentence takes it along.                                  *)
ReceiveText(n, rest, end) ==
    /\ producer = "receive"
    /\ (pending /\ n = 0) => rest
    /\ LET upTo == IF end /\ rest THEN total + n + 1 ELSE total + n IN
         /\ upTo <= MaxSentences
         /\ total' = upTo
         /\ queue' = queue \o Batch(total, upTo) \o NoMoreIf(end)
    /\ pending' = (rest /\ ~end)
    /\ ended' = end
    /\ producer' = IF end THEN "exited" ELSE "receive"
    /\ UNCHANGED <<phase, connected, gauge, consumer, current, errors, wire>>

(* A frame that is not JSON, or whose "text" is not a string.              *)
ReceiveGarbage ==
    /\ producer = "receive"
    /\ errors' = errors \cup {"producer"}
    /\ queue' = Append(queue, NoMore)
    /\ producer' = "exited"
    /\ UNCHANGED <<phase, connected, gauge, text, consumer, current, wire>>

(* Faulty variant: the sentinel is queued only on the "end" path.          *)
ReceiveDisconnectSilently ==
    /\ producer = "receive"
    /\ ~connected
    /\ producer' = "exited"
    /\ UNCHANGED <<phase, connected, gauge, text, queue, consumer, current,
                   errors, wire>>

(* WebSocketDisconnect: return without a flush; frames the client sent     *)
(* before it left may still be read first.                                 *)
ReceiveDisconnect ==
    /\ producer = "receive"
    /\ ~connected
    /\ queue' = Append(queue, NoMore)
    /\ producer' = "exited"
    /\ UNCHANGED <<phase, connected, gauge, text, consumer, current, errors,
                   wire>>

-----------------------------------------------------------------------------
(* The consumer task.                                                      *)

(* The except clause of synth_consumer.                                    *)
ConsumerFails ==
    /\ errors' = errors \cup {"consumer"}
    /\ consumer' = "exited"
    /\ UNCHANGED wire

(* queue.get, and for a sentence its sentence_start frame.                 *)
TakeSentence ==
    /\ consumer = "get"
    /\ queue # <<>> /\ Head(queue) # NoMore
    /\ queue' = Tail(queue)
    /\ current' = Head(queue)
    /\ \/ /\ Send(Protocol!StartFrame(Head(queue)))
          /\ consumer' = "synth"
          /\ UNCHANGED errors
       \/ SendMayRaise /\ ConsumerFails
    /\ UNCHANGED <<phase, connected, gauge, text, producer>>

TakeSentinel ==
    /\ consumer = "get"
    /\ queue # <<>> /\ Head(queue) = NoMore
    /\ queue' = Tail(queue)
    /\ consumer' = "exited"
    /\ UNCHANGED <<phase, connected, gauge, text, producer, current, errors,
                   wire>>

(* The worker thread returns the audio, and it is sent.                    *)
SpeakSentence ==
    /\ consumer = "synth"
    /\ Send(Protocol!AudioFrame(current))
    /\ consumer' = "done"
    /\ UNCHANGED <<phase, connected, gauge, text, queue, producer, current,
                   errors>>

(* backend.synthesize raises, or the client is gone when the audio or      *)
(* sentence_done is sent.  The task returns; the producer does not notice. *)
SpeakFails ==
    /\ \/ consumer = "synth"
       \/ consumer = "done" /\ SendMayRaise
    /\ ConsumerFails
    /\ UNCHANGED <<phase, connected, gauge, text, queue, producer, current>>

SentenceDone ==
    /\ consumer = "done"
    /\ Send(Protocol!DoneFrame(current))
    /\ consumer' = "get"
    /\ UNCHANGED <<phase, connected, gauge, text, queue, producer, current,
                   errors>>

-----------------------------------------------------------------------------
(* Faulty variant: the handler waits for the producer only.                *)
FinishEarly ==
    /\ phase = "running"
    /\ producer = "exited"
    /\ Send(IF errors # {} THEN Protocol!ErrorFrame
                           ELSE Protocol!CompleteFrame(total))
    /\ phase' = "closed" /\ gauge' = 0
    /\ UNCHANGED <<connected, text, queue, tasks, current, errors>>

(* Faulty variant: only the consumer's error ends the stream as an error.  *)
FinishDespiteProducer ==
    /\ phase = "running"
    /\ producer = "exited" /\ consumer = "exited"
    /\ Send(IF "consumer" \in errors THEN Protocol!ErrorFrame
                                     ELSE Protocol!CompleteFrame(total))
    /\ phase' = "closed" /\ gauge' = 0
    /\ UNCHANGED <<connected, text, queue, tasks, current, errors>>

(* gather returns when both tasks have; the last frame, the close and the  *)
(* finally of ws_tts_stream.  If the last send raises, the outer handler   *)
(* closes all the same.                                                    *)
Finish ==
    /\ phase = "running"
    /\ producer = "exited" /\ consumer = "exited"
    /\ Send(IF errors # {} THEN Protocol!ErrorFrame
                           ELSE Protocol!CompleteFrame(total))
    /\ phase' = "closed" /\ gauge' = 0
    /\ UNCHANGED <<connected, text, queue, tasks, current, errors>>

(* The client goes away.                                                   *)
Disconnect ==
    /\ phase # "closed"
    /\ connected
    /\ connected' = FALSE
    /\ UNCHANGED <<phase, gauge, text, queue, tasks, current, errors, wire>>

Producer == \/ \E n \in 0 .. MaxSentences, rest, end \in BOOLEAN :
                  ReceiveText(n, rest, end)
            \/ ReceiveGarbage
            \/ ReceiveDisconnect

Consumer == TakeSentence \/ TakeSentinel \/ SpeakSentence \/ SpeakFails
            \/ SentenceDone

Next == Accept \/ Reject \/ Abandon \/ Producer \/ Consumer \/ Finish
        \/ Disconnect

Spec == Init /\ [][Next]_vars

(* The event loop runs every task that can run; a worker thread returns or *)
(* raises; a closed connection is noticed by the receive that waits on it. *)
(* Nothing makes the client send.                                          *)
Fairness == /\ WF_vars(Consumer)
            /\ WF_vars(ReceiveDisconnect)
            /\ WF_vars(Finish)
            /\ WF_vars(Abandon /\ ~connected)

FairSpec == Spec /\ Fairness

-----------------------------------------------------------------------------
(* Properties.                                                             *)

TypeOK ==
    /\ phase \in {"handshake", "running", "closed"}
    /\ connected \in BOOLEAN /\ pending \in BOOLEAN /\ ended \in BOOLEAN
    /\ gauge \in 0 .. 1
    /\ total \in Nat /\ current \in Nat
    /\ queue \in Seq(Nat \cup {NoMore})
    /\ producer \in {"off", "receive", "exited"}
    /\ consumer \in {"off", "get", "synth", "done", "exited"}
    /\ errors \subseteq {"producer", "consumer"}
    /\ wire \in Seq(Protocol!Frame)

(* The sentinel is in the queue from the producer's end until the consumer *)
(* has read it; a consumer that failed never reads it.                     *)
SentinelQueued == /\ producer = "exited"
                  /\ consumer = "exited" => "consumer" \in errors

(* The sentences that wait in the queue, and those taken from it.          *)
Waiting == IF SentinelQueued THEN Len(queue) - 1 ELSE Len(queue)
Taken   == total - Waiting

(* The queue holds the sentences that were formed and not taken yet, each  *)
(* once and in order, up to the last one formed, and then, once the        *)
(* producer is through in whatever way, exactly one sentinel: the consumer *)
(* can neither skip a sentence nor wait for a sentinel that never comes.   *)
QueueInOrder ==
    /\ Waiting \in 0 .. total
    /\ \A i \in 1 .. Waiting : queue[i] = Taken + i - 1
    /\ SentinelQueued => queue[Len(queue)] = NoMore

(* The frames the client has received form a stream of the wire protocol.  *)
(* (server.py 1427-1434: which frames there are and in which order.)       *)
WireInOrder == Protocol!WireInOrder

(* "complete" tells the truth: the client had said "end", no text is left  *)
(* in the buffer, no task failed, and the number it gives is that of the   *)
(* sentences formed, all of which were spoken before (by WireInOrder).     *)
CompleteIsTrue ==
    (wire # <<>> /\ Protocol!LastFrame.event = "complete") =>
        /\ ended /\ ~pending /\ errors = {}
        /\ Protocol!LastFrame = Protocol!CompleteFrame(total)
        /\ Taken = total

(* A client that stays is told how its stream ended: "complete" exactly    *)
(* when neither task failed, and "error" otherwise, a malformed text frame *)
(* and a failed synthesis alike.                                           *)
OutcomeIsReported ==
    (phase = "closed" /\ connected /\ producer = "exited") =>
        /\ Protocol!Closed
        /\ (Protocol!LastFrame = Protocol!ErrorFrame) <=> (errors # {})

(* The connections gauge counts a session exactly while its handler runs,  *)
(* whichever of the return statements or exceptions ends it.               *)
GaugeIsBalanced == (gauge = 1) <=> (phase # "closed")

(* Once a synthesis has failed no further sentence is started or spoken:   *)
(* the only frame that may still come is the error.                        *)
SilentAfterFailure ==
    [][ ("consumer" \in errors /\ wire' # wire) =>
            wire' = Append(wire, Protocol!ErrorFrame) ]_vars

(* A session whose client has said "end" or has gone is over eventually:   *)
(* neither task waits for the other for ever.                              *)
SessionEnds == (phase = "running" /\ (ended \/ ~connected)) ~> (phase = "closed")

(* The session implements the wire protocol.                               *)
ImplementsProtocol == Protocol!Spec

=============================================================================
