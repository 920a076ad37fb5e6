-------------------------- MODULE WsSessionProofs --------------------------
(***************************************************************************)
(* Proofs about WsSession, for sessions of any length: the inductive       *)
(* invariant, the safety properties that follow from it, and that the      *)
(* session implements StreamProtocol.  Then the session with its client,   *)
(* WsAudition.                                                             *)
(***************************************************************************)
EXTENDS WsAudition, SequenceTheorems, TLAPS

(* Where each task can be, and what its end says about the session.        *)
ControlInv ==
    /\ (producer = "off") <=> (consumer = "off")
    /\ producer = "off" => /\ phase # "running"
                           /\ total = 0 /\ queue = <<>> /\ errors = {}
                           /\ ~ended /\ ~pending
    /\ phase = "handshake" => producer = "off" /\ wire = <<>>
    /\ (phase = "closed" /\ producer # "off") =>
            producer = "exited" /\ consumer = "exited"
    /\ (consumer = "exited" /\ "consumer" \notin errors) =>
            producer = "exited" /\ queue = <<>>
    /\ ended => producer = "exited" /\ ~pending
    /\ producer = "exited" => ended \/ "producer" \in errors \/ ~connected
    /\ "consumer" \in errors => consumer = "exited"
    /\ "producer" \in errors => producer = "exited"

(* The sentence in hand is the last one taken.                             *)
CurrentInv == consumer \in {"synth", "done"} => current + 1 = Taken

(* While the client is there, the last frame it got tells where the        *)
(* consumer is; and no stream has had its last frame before it is closed.  *)
LastFrameInv ==
    /\ (phase = "running" /\ connected) =>
        /\ wire # <<>>
        /\ \/ /\ \/ consumer = "get"
                 \/ consumer = "exited" /\ "consumer" \notin errors
              /\ Protocol!LastFrame.event \in {"session", "sentence_done"}
              /\ Protocol!NextSentence(Protocol!LastFrame) = Taken
           \/ consumer = "synth" /\ Protocol!LastFrame = Protocol!StartFrame(current)
           \/ consumer = "done"  /\ Protocol!LastFrame = Protocol!AudioFrame(current)
           \/ consumer = "exited" /\ "consumer" \in errors
    /\ phase = "running" => ~ Protocol!Closed

IInv == /\ TypeOK /\ ControlInv /\ QueueInOrder /\ CurrentInv
        /\ LastFrameInv /\ WireInOrder /\ CompleteIsTrue

-----------------------------------------------------------------------------
(* Frames.                                                                 *)

(* Every frame the handler sends is a frame of the protocol.               *)
LEMMA FramesAreFrames ==
    /\ Protocol!SessionFrame \in Protocol!Frame
    /\ Protocol!ErrorFrame \in Protocol!Frame
    /\ \A i \in Nat : /\ Protocol!StartFrame(i) \in Protocol!Frame
                      /\ Protocol!AudioFrame(i) \in Protocol!Frame
                      /\ Protocol!DoneFrame(i) \in Protocol!Frame
                      /\ Protocol!CompleteFrame(i) \in Protocol!Frame
BY DEF Protocol!SessionFrame, Protocol!ErrorFrame, Protocol!StartFrame,
       Protocol!AudioFrame, Protocol!DoneFrame, Protocol!CompleteFrame,
       Protocol!Frame, Protocol!Events

(* A frame that may come next keeps the stream in order and is its last.   *)
LEMMA AppendInOrder ==
    ASSUME wire \in Seq(Protocol!Frame), WireInOrder,
           NEW f \in Protocol!Frame, wire' = Append(wire, f),
           wire = <<>> => f \in {Protocol!SessionFrame, Protocol!ErrorFrame},
           wire # <<>> => Protocol!Follows(Protocol!LastFrame, f)
    PROVE  /\ wire' \in Seq(Protocol!Frame)
           /\ WireInOrder'
           /\ wire' # <<>>
           /\ Protocol!LastFrame' = f
<1>1. /\ wire' \in Seq(Protocol!Frame)
      /\ Len(wire') = Len(wire) + 1
      /\ \A i \in 1 .. Len(wire) : wire'[i] = wire[i]
      /\ wire'[Len(wire) + 1] = f
      /\ Len(wire) \in Nat
  OBVIOUS
<1>2. wire' # <<>> /\ Protocol!LastFrame' = f
  BY <1>1 DEF Protocol!LastFrame
<1>3. wire'[1] \in {Protocol!SessionFrame, Protocol!ErrorFrame}
  <2>1. CASE wire = <<>>
    BY <1>1, <2>1
  <2>2. CASE wire # <<>>
    BY <1>1, <2>2 DEF WireInOrder, Protocol!WireInOrder
  <2> QED BY <2>1, <2>2
<1>4. ASSUME NEW i \in 1 .. Len(wire') - 1
      PROVE  Protocol!Follows(wire'[i], wire'[i + 1])
  <2>1. CASE i = Len(wire)
    <3>1. wire # <<>> /\ wire'[i] = Protocol!LastFrame /\ wire'[i + 1] = f
      BY <1>1, <1>4, <2>1 DEF Protocol!LastFrame
    <3> QED BY <3>1
  <2>2. CASE i # Len(wire)
    <3>1. i \in 1 .. Len(wire) - 1 /\ wire'[i] = wire[i] /\ wire'[i + 1] = wire[i + 1]
      BY <1>1, <1>4, <2>2
    <3> QED BY <3>1 DEF WireInOrder, Protocol!WireInOrder
  <2> QED BY <2>1, <2>2
<1> QED BY <1>1, <1>2, <1>3, <1>4 DEF WireInOrder, Protocol!WireInOrder

-----------------------------------------------------------------------------
(* The queue.                                                              *)

(* A step that leaves queue, total and the sentinel alone keeps the order  *)
(* of the queue and takes nothing from it.                                 *)
LEMMA QueueUntouched ==
    ASSUME QueueInOrder, UNCHANGED <<queue, total>>,
           SentinelQueued' <=> SentinelQueued
    PROVE  QueueInOrder' /\ Taken' = Taken
BY DEF QueueInOrder, Taken, Waiting

(* What the producer puts on the queue extends it in order.                *)
LEMMA QueueExtended ==
    ASSUME TypeOK, QueueInOrder, ~SentinelQueued,
           NEW upTo \in Nat, upTo >= total, NEW last \in BOOLEAN,
           total' = upTo,
           queue' = queue \o Batch(total, upTo) \o NoMoreIf(last),
           SentinelQueued' <=> last
    PROVE  QueueInOrder' /\ Taken' = Taken /\ queue' \in Seq(Nat \cup {NoMore})
<1> DEFINE b == Batch(total, upTo)
<1>1. /\ total \in Nat
      /\ queue \in Seq(Nat \cup {NoMore})
      /\ Len(queue) \in Nat /\ Len(queue) <= total
      /\ \A i \in 1 .. Len(queue) : queue[i] = total - Len(queue) + i - 1
      /\ Waiting = Len(queue)
  BY DEF TypeOK, QueueInOrder, Waiting, Taken
<1>2. /\ b \in Seq(Nat \cup {NoMore})
      /\ Len(b) = upTo - total
      /\ \A i \in 1 .. Len(b) : b[i] = total + i - 1
  BY <1>1 DEF Batch
<1> HIDE DEF b
<1> DEFINE qb == queue \o b
<1>3. /\ qb \in Seq(Nat \cup {NoMore})
      /\ Len(qb) = Len(queue) + (upTo - total)
      /\ \A i \in 1 .. Len(qb) : qb[i] = upTo - Len(qb) + i - 1
  <2>1. qb \in Seq(Nat \cup {NoMore}) /\ Len(qb) = Len(queue) + Len(b)
    BY <1>1, <1>2, ConcatProperties
  <2>2. ASSUME NEW i \in 1 .. Len(qb)
        PROVE  qb[i] = IF i <= Len(queue) THEN queue[i] ELSE b[i - Len(queue)]
    BY <1>1, <1>2, <2>1
  <2>3. ASSUME NEW i \in 1 .. Len(qb)
        PROVE  qb[i] = upTo - Len(qb) + i - 1
    <3>1. CASE i <= Len(queue)
      BY <1>1, <1>2, <2>1, <2>2, <3>1
    <3>2. CASE i > Len(queue)
      <4>1. i - Len(queue) \in 1 .. Len(b)
        BY <1>1, <1>2, <2>1, <3>2
      <4>2. qb[i] = b[i - Len(queue)]
        BY <1>1, <2>2, <3>2
      <4> HIDE DEF qb
      <4> QED BY <1>1, <1>2, <2>1, <4>1, <4>2
    <3> HIDE DEF qb
    <3> QED BY <1>1, <2>1, <3>1, <3>2
  <2> HIDE DEF qb
  <2> QED BY <1>2, <2>1, <2>3
<1>4. queue' = qb \o NoMoreIf(last)
  BY DEF b, qb
<1> HIDE DEF qb
<1>5. CASE last
  <2>1. queue' = Append(qb, NoMore)
    BY <1>3, <1>4, <1>5 DEF NoMoreIf
  <2>2. /\ queue' \in Seq(Nat \cup {NoMore})
        /\ Len(queue') = Len(qb) + 1
        /\ queue'[Len(queue')] = NoMore
        /\ \A i \in 1 .. Len(qb) : queue'[i] = qb[i]
    BY <1>3, <2>1
  <2>3. Len(qb) \in Nat /\ Len(qb) <= upTo /\ total - Len(queue) = upTo - Len(qb)
    BY <1>1, <1>3
  <2>4. Waiting' = Len(queue') - 1
    BY <1>5 DEF Waiting
  <2>5. Waiting' = Len(qb)
    BY <2>2, <2>3, <2>4
  <2>6. Taken' = upTo - Len(qb) /\ Taken' = Taken
    BY <1>1, <2>3, <2>5 DEF Taken
  <2>7. \A i \in 1 .. Waiting' : queue'[i] = Taken' + i - 1
    BY <1>3, <2>2, <2>5, <2>6
  <2>8. Waiting' \in 0 .. total'
    BY <2>3, <2>5
  <2>9. QueueInOrder'
    BY <2>2, <2>7, <2>8 DEF QueueInOrder
  <2> QED BY <2>2, <2>6, <2>9
<1>6. CASE ~last
  <2>1. queue' = qb
    BY <1>3, <1>4, <1>6 DEF NoMoreIf
  <2>2. Waiting' = Len(qb)
    BY <1>6, <2>1 DEF Waiting
  <2> QED BY <1>1, <1>2, <1>3, <1>6, <2>1, <2>2 DEF QueueInOrder, Taken
<1> QED BY <1>5, <1>6

(* Taking the first sentence of the queue takes the next one in order.     *)
LEMMA QueueTaken ==
    ASSUME TypeOK, QueueInOrder, queue # <<>>, Head(queue) # NoMore,
           queue' = Tail(queue), total' = total,
           SentinelQueued' <=> SentinelQueued
    PROVE  /\ QueueInOrder' /\ queue' \in Seq(Nat \cup {NoMore})
           /\ Head(queue) = Taken /\ Taken < total /\ Taken \in Nat
           /\ Taken' = Taken + 1
<1>1. /\ total \in Nat /\ queue \in Seq(Nat \cup {NoMore})
      /\ Len(queue) \in Nat \ {0} /\ Head(queue) = queue[1]
  BY DEF TypeOK
<1>2. /\ Waiting \in 0 .. total
      /\ \A i \in 1 .. Waiting : queue[i] = total - Waiting + i - 1
      /\ Waiting = IF SentinelQueued THEN Len(queue) - 1 ELSE Len(queue)
      /\ SentinelQueued => queue[Len(queue)] = NoMore
  BY DEF QueueInOrder, Waiting, Taken
<1>3. /\ queue' \in Seq(Nat \cup {NoMore})
      /\ Len(queue') = Len(queue) - 1
      /\ \A i \in 1 .. Len(queue) - 1 : queue'[i] = queue[i + 1]
  BY <1>1
<1>4. /\ Waiting \in Nat /\ Waiting # 0 /\ Waiting <= Len(queue)
      /\ Waiting' = Waiting - 1 /\ total - Waiting \in Nat
  <2>1. Waiting \in Nat /\ Waiting <= total /\ total - Waiting \in Nat
    BY <1>1, <1>2
  <2>2. Len(queue) \in Nat /\ Len(queue') = Len(queue) - 1
    BY <1>1, <1>3
  <2>3. CASE SentinelQueued
    <3>1. Waiting = Len(queue) - 1 /\ Waiting' = Len(queue') - 1
      BY <2>3 DEF Waiting
    <3>2. Len(queue) # 1
      BY <1>1, <1>2, <2>3
    <3> HIDE DEF Waiting
    <3> QED BY <1>1, <2>1, <2>2, <3>1, <3>2
  <2>4. CASE ~SentinelQueued
    <3>1. Waiting = Len(queue) /\ Waiting' = Len(queue')
      BY <2>4 DEF Waiting
    <3> QED BY <1>1, <2>1, <2>2, <3>1
  <2> QED BY <2>3, <2>4
<1>5. ASSUME NEW i \in 1 .. Waiting'
      PROVE  queue'[i] = total' - Waiting' + i - 1
  <2>1. /\ i \in Nat /\ i \in 1 .. Len(queue) - 1
        /\ i + 1 \in 1 .. Waiting
    BY <1>1, <1>4, <1>5
  <2>2. queue'[i] = total - Waiting + (i + 1) - 1
    BY <1>2, <1>3, <2>1
  <2>3. total - Waiting + (i + 1) - 1 = total - (Waiting - 1) + i - 1
    BY <1>1, <1>4, <2>1
  <2> QED BY <1>4, <2>2, <2>3
<1>6. SentinelQueued' => queue'[Len(queue')] = NoMore
  BY <1>1, <1>2, <1>3
<1>7. /\ Taken = total - Waiting /\ Taken' = total - (Waiting - 1)
      /\ Head(queue) = total - Waiting
  <2>1. 1 \in 1 .. Waiting
    BY <1>4
  <2>2. Head(queue) = total - Waiting + 1 - 1
    BY <1>1, <1>2, <2>1
  <2> QED BY <1>1, <1>4, <2>2 DEF Taken
<1>8. Waiting' \in 0 .. total' /\ Taken' = total' - Waiting'
  BY <1>1, <1>4, <1>7
<1>9. QueueInOrder'
  BY <1>5, <1>6, <1>8 DEF QueueInOrder
<1> QED BY <1>1, <1>3, <1>4, <1>7, <1>9

-----------------------------------------------------------------------------
(* What a step does to the stream.                                         *)

(* A step that sends nothing leaves the stream as it is.                   *)
LEMMA WireUntouched ==
    ASSUME WireInOrder, UNCHANGED wire
    PROVE  /\ WireInOrder'
           /\ Protocol!LastFrame' = Protocol!LastFrame
           /\ Protocol!Closed' <=> Protocol!Closed
BY DEF WireInOrder, Protocol!WireInOrder, Protocol!LastFrame, Protocol!Closed,
       Protocol!Terminal

(* A frame that is due keeps the stream in order, and only a terminal one  *)
(* closes it.                                                              *)
LEMMA SentInOrder ==
    ASSUME wire \in Seq(Protocol!Frame), WireInOrder, ~Protocol!Closed,
           NEW f \in Protocol!Frame, Send(f),
           connected /\ wire = <<>> => f \in {Protocol!SessionFrame, Protocol!ErrorFrame},
           connected /\ wire # <<>> => Protocol!Follows(Protocol!LastFrame, f)
    PROVE  /\ wire' \in Seq(Protocol!Frame)
           /\ WireInOrder'
           /\ connected => wire' # <<>> /\ Protocol!LastFrame' = f
           /\ Protocol!Closed' => connected /\ Protocol!Terminal(f)
<1>1. CASE connected
  <2>1. wire' = Append(wire, f)
    BY <1>1 DEF Send
  <2>2. /\ wire' \in Seq(Protocol!Frame) /\ WireInOrder'
        /\ wire' # <<>> /\ Protocol!LastFrame' = f
    BY <1>1, <2>1, AppendInOrder
  <2> QED BY <1>1, <2>2 DEF Protocol!Closed, Protocol!Terminal
<1>2. CASE ~connected
  <2>1. wire' = wire
    BY <1>2 DEF Send
  <2> QED BY <1>2, <2>1, WireUntouched
<1> QED BY <1>1, <1>2

(* The error frame may follow any frame but a terminal one.                *)
LEMMA ErrorMayFollow ==
    ASSUME wire \in Seq(Protocol!Frame), wire # <<>>, ~Protocol!Closed
    PROVE  Protocol!Follows(Protocol!LastFrame, Protocol!ErrorFrame)
<1>1. Protocol!LastFrame \in Protocol!Frame
  BY DEF Protocol!LastFrame
<1> QED BY <1>1 DEF Protocol!Closed, Protocol!Terminal, Protocol!Follows,
                    Protocol!Frame, Protocol!Events

(* "complete" has not been said in a stream that a step does not close.    *)
LEMMA NotComplete == ASSUME ~Protocol!Closed' PROVE CompleteIsTrue'
BY DEF CompleteIsTrue, Protocol!Closed, Protocol!Terminal

(* The tasks only run while the handler waits for them.                    *)
LEMMA TasksRun ==
    ASSUME TypeOK, ControlInv,
           producer = "receive" \/ consumer \in {"get", "synth", "done"}
    PROVE  phase = "running"
BY DEF TypeOK, ControlInv

-----------------------------------------------------------------------------
(* The invariant is inductive.                                             *)

LEMMA InitIInv == Init => IInv
<1> SUFFICES ASSUME Init PROVE IInv
  OBVIOUS
<1>1. TypeOK
  <2>1. queue \in Seq(Nat \cup {NoMore}) /\ wire \in Seq(Protocol!Frame)
    BY EmptySeq DEF Init
  <2>2. /\ phase = "handshake" /\ connected = TRUE /\ gauge = 1
        /\ pending = FALSE /\ ended = FALSE /\ total = 0 /\ current = 0
        /\ producer = "off" /\ consumer = "off" /\ errors = {}
    BY DEF Init
  <2>3. connected \in BOOLEAN /\ pending \in BOOLEAN /\ ended \in BOOLEAN
    BY <2>2
  <2>4. gauge \in 0 .. 1 /\ total \in Nat /\ current \in Nat
    BY <2>2
  <2>5. /\ phase \in {"handshake", "running", "closed"}
        /\ producer \in {"off", "receive", "exited"}
        /\ consumer \in {"off", "get", "synth", "done", "exited"}
        /\ errors \subseteq {"producer", "consumer"}
    BY <2>2
  <2> QED BY <2>1, <2>3, <2>4, <2>5 DEF TypeOK
<1>2. ControlInv /\ CurrentInv /\ CompleteIsTrue
  BY DEF Init, ControlInv, CurrentInv, CompleteIsTrue
<1>3. QueueInOrder
  <2>1. ~SentinelQueued /\ Len(queue) = 0 /\ total = 0
    BY DEF Init, SentinelQueued
  <2> QED BY <2>1 DEF QueueInOrder, Waiting
<1>4. WireInOrder
  BY DEF Init, WireInOrder, Protocol!WireInOrder
<1>5. LastFrameInv
  BY DEF Init, LastFrameInv
<1> QED BY <1>1, <1>2, <1>3, <1>4, <1>5 DEF IInv

(* The steps of the handshake.                                             *)
LEMMA HandshakeStep ==
    ASSUME IInv, Accept \/ Reject \/ Abandon
    PROVE  IInv'
<1> USE DEF IInv
<1>1. /\ phase = "handshake" /\ producer = "off" /\ consumer = "off"
      /\ wire = <<>> /\ total = 0 /\ queue = <<>> /\ errors = {}
      /\ ~ended /\ ~pending
  BY DEF Accept, Reject, Abandon, ControlInv
<1>2. ~Protocol!Closed /\ wire \in Seq(Protocol!Frame)
  BY <1>1 DEF Protocol!Closed, TypeOK
<1>3. UNCHANGED <<queue, total, ended, pending, errors, current, connected>>
  BY DEF Accept, Reject, Abandon, text
<1>4. ~SentinelQueued /\ ~SentinelQueued' /\ Taken = 0
  <2>1. ~SentinelQueued /\ ~SentinelQueued'
    BY <1>1 DEF Accept, Reject, Abandon, SentinelQueued, tasks
  <2>2. Waiting = 0
    BY <1>1, <2>1 DEF Waiting
  <2> QED BY <1>1, <2>1, <2>2 DEF Taken
<1>5. QueueInOrder' /\ Taken' = 0
  BY <1>3, <1>4, QueueUntouched
<1>6. CASE Accept
  <2>1. /\ wire' \in Seq(Protocol!Frame) /\ WireInOrder'
        /\ connected => wire' # <<>> /\ Protocol!LastFrame' = Protocol!SessionFrame
        /\ ~Protocol!Closed'
    <3>1. Send(Protocol!SessionFrame) /\ ~Protocol!Terminal(Protocol!SessionFrame)
      BY <1>6 DEF Accept, Protocol!Terminal, Protocol!SessionFrame
    <3> QED BY <1>1, <1>2, <3>1, SentInOrder, FramesAreFrames
  <2>2. TypeOK'
    BY <1>3, <1>6, <2>1 DEF Accept, TypeOK
  <2>3. ControlInv' /\ CurrentInv'
    BY <1>1, <1>3, <1>6 DEF Accept, ControlInv, CurrentInv
  <2>4. LastFrameInv'
    BY <1>3, <1>5, <1>6, <2>1
       DEF Accept, LastFrameInv, Protocol!SessionFrame, Protocol!NextSentence
  <2> QED BY <1>5, <2>1, <2>2, <2>3, <2>4, NotComplete
<1>7. CASE Reject \/ Abandon
  <2>1. wire' \in Seq(Protocol!Frame) /\ WireInOrder' /\ CompleteIsTrue'
    <3>1. CASE Reject
      <4>1. Send(Protocol!ErrorFrame)
        BY <3>1 DEF Reject
      <4>2. /\ wire' \in Seq(Protocol!Frame) /\ WireInOrder'
            /\ connected => Protocol!LastFrame' = Protocol!ErrorFrame
        BY <1>1, <1>2, <4>1, SentInOrder, FramesAreFrames
      <4>3. ~connected => wire' = <<>>
        BY <1>1, <4>1 DEF Send
      <4> QED BY <4>2, <4>3 DEF CompleteIsTrue, Protocol!ErrorFrame
    <3>2. CASE Abandon
      BY <1>2, <3>2, WireUntouched, NotComplete DEF Abandon
    <3> QED BY <1>7, <3>1, <3>2
  <2>2. TypeOK'
    BY <1>3, <1>7, <2>1 DEF Reject, Abandon, TypeOK, tasks
  <2>3. ControlInv' /\ CurrentInv' /\ LastFrameInv'
    BY <1>1, <1>3, <1>7
       DEF Reject, Abandon, ControlInv, CurrentInv, LastFrameInv, tasks
  <2> QED BY <1>5, <2>1, <2>2, <2>3
<1> QED BY <1>6, <1>7

(* The sentinel alone.                                                     *)
LEMMA SentinelAlone ==
    ASSUME TypeOK
    PROVE  Append(queue, NoMore) = queue \o Batch(total, total) \o NoMoreIf(TRUE)
<1>1. Batch(total, total) \in Seq(Nat) /\ Len(Batch(total, total)) = 0
  BY DEF Batch, TypeOK
<1>2. Batch(total, total) = <<>>
  BY <1>1, EmptySeq
<1>3. queue \in Seq(Nat \cup {NoMore}) /\ queue \o <<>> = queue
  BY ConcatEmptySeq DEF TypeOK
<1>4. Append(queue, NoMore) = queue \o <<NoMore>>
  BY <1>3
<1> QED BY <1>2, <1>3, <1>4 DEF NoMoreIf

(* The steps of the producer.                                              *)
LEMMA ProducerStep ==
    ASSUME IInv, Producer
    PROVE  IInv'
<1> USE DEF IInv
<1>1. /\ producer = "receive" /\ phase = "running" /\ ~ended
      /\ "producer" \notin errors /\ consumer # "off"
      /\ consumer = "exited" => "consumer" \in errors
  BY TasksRun DEF Producer, ReceiveText, ReceiveGarbage, ReceiveDisconnect, ControlInv
<1>2. UNCHANGED <<phase, connected, gauge, consumer, current, wire>>
  BY DEF Producer, ReceiveText, ReceiveGarbage, ReceiveDisconnect, text
<1>3. /\ WireInOrder' /\ ~Protocol!Closed' /\ CompleteIsTrue'
      /\ Protocol!LastFrame' = Protocol!LastFrame
  BY <1>1, <1>2, WireUntouched, NotComplete DEF LastFrameInv
<1>4. ~SentinelQueued
  BY <1>1 DEF SentinelQueued
<1>5. ASSUME NEW n \in 0 .. MaxSentences, NEW rest \in BOOLEAN, NEW end \in BOOLEAN,
             ReceiveText(n, rest, end)
      PROVE  IInv'
  <2> DEFINE upTo == IF end /\ rest THEN total + n + 1 ELSE total + n
  <2>1. /\ upTo \in Nat /\ upTo >= total /\ total' = upTo
        /\ queue' = queue \o Batch(total, upTo) \o NoMoreIf(end)
    BY <1>5, MaxSentencesAssumption DEF ReceiveText, TypeOK
  <2>2. /\ producer' = IF end THEN "exited" ELSE "receive"
        /\ ended' = end /\ pending' = (rest /\ ~end) /\ errors' = errors
    BY <1>5 DEF ReceiveText
  <2>3. SentinelQueued' <=> end
    BY <1>1, <1>2, <2>2 DEF SentinelQueued
  <2> HIDE DEF upTo
  <2>4. QueueInOrder' /\ Taken' = Taken /\ queue' \in Seq(Nat \cup {NoMore})
    BY <1>4, <2>1, <2>3, QueueExtended
  <2>5. TypeOK'
    BY <1>2, <2>1, <2>2, <2>4 DEF TypeOK
  <2>6. ControlInv' /\ CurrentInv' /\ LastFrameInv'
    BY <1>1, <1>2, <1>3, <2>2, <2>4 DEF ControlInv, CurrentInv, LastFrameInv
  <2> QED BY <1>3, <2>4, <2>5, <2>6
<1>6. CASE ReceiveGarbage \/ ReceiveDisconnect
  <2>1. /\ queue' = Append(queue, NoMore) /\ producer' = "exited"
        /\ UNCHANGED <<pending, ended, total>>
        /\ \/ errors' = errors \cup {"producer"}
           \/ errors' = errors /\ ~connected
    BY <1>6 DEF ReceiveGarbage, ReceiveDisconnect, text
  <2>2. SentinelQueued'
    BY <1>1, <1>2, <2>1 DEF SentinelQueued
  <2>3. queue' = queue \o Batch(total, total) \o NoMoreIf(TRUE)
    BY <2>1, SentinelAlone
  <2> total \in Nat /\ total >= total
    BY DEF TypeOK
  <2>4. QueueInOrder' /\ Taken' = Taken /\ queue' \in Seq(Nat \cup {NoMore})
    BY <1>4, <2>1, <2>2, <2>3, QueueExtended
  <2>5. TypeOK'
    BY <1>2, <2>1, <2>4 DEF TypeOK
  <2>6. ControlInv' /\ CurrentInv' /\ LastFrameInv'
    BY <1>1, <1>2, <1>3, <2>1, <2>4 DEF ControlInv, CurrentInv, LastFrameInv
  <2> QED BY <1>3, <2>4, <2>5, <2>6
<1> QED BY <1>5, <1>6 DEF Producer

(* The steps of the consumer.                                              *)
LEMMA ConsumerStep ==
    ASSUME IInv, Consumer
    PROVE  IInv'
<1> USE DEF IInv
<1>1. /\ consumer \in {"get", "synth", "done"} /\ phase = "running"
      /\ "consumer" \notin errors /\ producer # "off"
      /\ ~Protocol!Closed
      /\ SentinelQueued <=> producer = "exited"
  <2>1. consumer \in {"get", "synth", "done"}
    BY DEF Consumer, TakeSentence, TakeSentinel, SpeakSentence, SpeakFails, SentenceDone
  <2>2. phase = "running"
    BY <2>1, TasksRun
  <2> QED BY <2>1, <2>2 DEF ControlInv, LastFrameInv, SentinelQueued
<1>2. UNCHANGED <<phase, connected, gauge, text, producer>>
  BY DEF Consumer, TakeSentence, TakeSentinel, SpeakSentence, SpeakFails, SentenceDone
<1>3. UNCHANGED <<phase, connected, gauge, pending, ended, total, producer>>
  BY <1>2 DEF text
<1>4. ASSUME wire' \in Seq(Protocol!Frame), queue' \in Seq(Nat \cup {NoMore}),
             current' \in Nat,
             consumer' \in {"get", "synth", "done", "exited"},
             errors' = errors \/ errors' = errors \cup {"consumer"}
      PROVE  TypeOK'
  BY <1>3, <1>4 DEF TypeOK
<1>5. ASSUME ConsumerFails
      PROVE  /\ consumer' = "exited" /\ errors' = errors \cup {"consumer"}
             /\ SentinelQueued' <=> SentinelQueued
             /\ wire' \in Seq(Protocol!Frame)
             /\ ControlInv' /\ CurrentInv' /\ LastFrameInv'
             /\ WireInOrder' /\ CompleteIsTrue'
  <2>1. /\ consumer' = "exited" /\ errors' = errors \cup {"consumer"}
        /\ wire' = wire
    BY <1>5 DEF ConsumerFails
  <2>2. SentinelQueued' <=> SentinelQueued
    BY <1>1, <1>3, <2>1 DEF SentinelQueued
  <2>3. WireInOrder' /\ ~Protocol!Closed' /\ CompleteIsTrue'
    BY <1>1, <2>1, WireUntouched, NotComplete
  <2>4. ControlInv' /\ CurrentInv' /\ LastFrameInv'
    BY <1>1, <1>3, <2>1, <2>3 DEF ControlInv, CurrentInv, LastFrameInv
  <2> QED BY <2>1, <2>2, <2>3, <2>4 DEF TypeOK
<1>6. CASE TakeSentence
  <2>1. /\ consumer = "get" /\ queue # <<>> /\ Head(queue) # NoMore
        /\ queue' = Tail(queue) /\ current' = Head(queue)
    BY <1>6 DEF TakeSentence
  <2>2. CASE Send(Protocol!StartFrame(Head(queue))) /\ consumer' = "synth" /\ errors' = errors
    <3>1. SentinelQueued' <=> SentinelQueued
      BY <1>1, <1>3, <2>2 DEF SentinelQueued
    <3>2. /\ QueueInOrder' /\ queue' \in Seq(Nat \cup {NoMore})
          /\ Head(queue) = Taken /\ Taken \in Nat /\ Taken' = Taken + 1
      BY <1>3, <2>1, <3>1, QueueTaken
    <3>3. connected => /\ wire # <<>>
                       /\ Protocol!Follows(Protocol!LastFrame, Protocol!StartFrame(Taken))
      BY <1>1, <2>1 DEF LastFrameInv, Protocol!Follows
    <3>4. ~Protocol!Terminal(Protocol!StartFrame(Taken))
      BY DEF Protocol!Terminal, Protocol!StartFrame
    <3>5. /\ wire' \in Seq(Protocol!Frame) /\ WireInOrder'
          /\ connected => wire' # <<>> /\ Protocol!LastFrame' = Protocol!StartFrame(Taken)
          /\ ~Protocol!Closed'
      BY <1>1, <2>2, <3>2, <3>3, <3>4, SentInOrder, FramesAreFrames DEF TypeOK
    <3>6. TypeOK'
      BY <1>4, <2>1, <2>2, <3>2, <3>5
    <3>7. ControlInv' /\ CurrentInv'
      BY <1>1, <1>3, <2>1, <2>2, <3>2 DEF ControlInv, CurrentInv
    <3>8. LastFrameInv'
      BY <1>1, <1>3, <2>1, <2>2, <3>2, <3>5 DEF LastFrameInv
    <3> QED BY <3>2, <3>5, <3>6, <3>7, <3>8, NotComplete
  <2>3. CASE ConsumerFails
    <3>1. QueueInOrder' /\ queue' \in Seq(Nat \cup {NoMore}) /\ current' \in Nat
      BY <1>3, <1>5, <2>1, <2>3, QueueTaken
    <3> QED BY <1>4, <1>5, <2>3, <3>1
  <2> QED BY <1>6, <2>2, <2>3 DEF TakeSentence
<1>7. CASE TakeSentinel
  <2>1. /\ consumer = "get" /\ queue # <<>> /\ Head(queue) = NoMore
        /\ queue' = Tail(queue) /\ consumer' = "exited"
        /\ current' = current /\ errors' = errors /\ wire' = wire
    BY <1>7 DEF TakeSentinel
  <2>2. /\ total \in Nat /\ queue \in Seq(Nat \cup {NoMore})
        /\ Len(queue) \in Nat \ {0} /\ queue[1] = NoMore
    BY <2>1 DEF TypeOK
  <2>3. /\ Waiting \in 0 .. total
        /\ \A i \in 1 .. Waiting : queue[i] = total - Waiting + i - 1
    BY DEF QueueInOrder, Taken
  <2>4. Waiting = 0
    <3>1. SUFFICES ASSUME Waiting # 0 PROVE FALSE
      OBVIOUS
    <3>2. /\ 1 \in 1 .. Waiting
          /\ total - Waiting + 1 - 1 \in Nat
      BY <2>2, <2>3, <3>1
    <3>3. queue[1] \in Nat
      BY <2>3, <3>2
    <3> QED BY <2>2, <3>3, NoMoreAssumption
  <2>5. SentinelQueued /\ Len(queue) = 1
    BY <2>2, <2>4 DEF Waiting
  <2>6. queue' = <<>> /\ queue' \in Seq(Nat \cup {NoMore})
    BY <2>1, <2>2, <2>5, HeadTailProperties, EmptySeq
  <2>7. ~SentinelQueued' /\ producer = "exited"
    BY <1>1, <2>1, <2>5 DEF SentinelQueued
  <2>8. Waiting' = 0
    BY <2>6, <2>7 DEF Waiting
  <2>9. QueueInOrder' /\ Taken' = Taken
    BY <1>3, <2>2, <2>4, <2>7, <2>8 DEF QueueInOrder, Taken
  <2>10. /\ WireInOrder' /\ ~Protocol!Closed' /\ CompleteIsTrue'
         /\ Protocol!LastFrame' = Protocol!LastFrame
    BY <1>1, <2>1, WireUntouched, NotComplete
  <2>11. TypeOK'
    BY <1>4, <2>1, <2>6 DEF TypeOK
  <2>12. ControlInv' /\ CurrentInv'
    BY <1>1, <1>3, <2>1, <2>6, <2>7 DEF ControlInv, CurrentInv
  <2>13. LastFrameInv'
    BY <1>1, <1>3, <2>1, <2>9, <2>10 DEF LastFrameInv
  <2> QED BY <2>9, <2>10, <2>11, <2>12, <2>13
<1>8. CASE SpeakFails
  <2>1. ConsumerFails /\ queue' = queue /\ current' = current
    BY <1>8 DEF SpeakFails
  <2>2. QueueInOrder'
    BY <1>3, <1>5, <2>1, QueueUntouched
  <2>3. TypeOK'
    BY <1>4, <1>5, <2>1 DEF TypeOK
  <2> QED BY <1>5, <2>1, <2>2, <2>3
<1>9. CASE SpeakSentence \/ SentenceDone
  <2> DEFINE f == IF consumer = "synth" THEN Protocol!AudioFrame(current)
                                        ELSE Protocol!DoneFrame(current)
  <2>1. /\ consumer \in {"synth", "done"} /\ Send(f)
        /\ queue' = queue /\ current' = current /\ errors' = errors
        /\ consumer' = IF consumer = "synth" THEN "done" ELSE "get"
    BY <1>9 DEF SpeakSentence, SentenceDone
  <2>2. /\ SentinelQueued' <=> SentinelQueued
        /\ QueueInOrder' /\ Taken' = Taken
    <3>1. SentinelQueued' <=> SentinelQueued
      BY <1>1, <1>3, <2>1 DEF SentinelQueued
    <3> QED BY <1>3, <2>1, <3>1, QueueUntouched
  <2>3. f \in Protocol!Frame /\ ~Protocol!Terminal(f)
    BY FramesAreFrames
       DEF TypeOK, Protocol!Terminal, Protocol!AudioFrame, Protocol!DoneFrame
  <2>4. connected => wire # <<>> /\ Protocol!Follows(Protocol!LastFrame, f)
    BY <1>1, <2>1 DEF LastFrameInv, Protocol!Follows, Protocol!StartFrame, Protocol!AudioFrame
  <2>5. /\ wire' \in Seq(Protocol!Frame) /\ WireInOrder' /\ ~Protocol!Closed'
        /\ connected => wire' # <<>> /\ Protocol!LastFrame' = f
    <3> HIDE DEF f
    <3> QED BY <1>1, <2>1, <2>3, <2>4, SentInOrder DEF TypeOK
  <2>6. TypeOK'
    BY <1>4, <2>1, <2>5 DEF TypeOK
  <2>7. ControlInv' /\ CurrentInv'
    BY <1>1, <1>3, <2>1, <2>2 DEF ControlInv, CurrentInv
  <2>8. LastFrameInv'
    BY <1>1, <1>3, <2>1, <2>2, <2>5
       DEF LastFrameInv, CurrentInv, Protocol!DoneFrame, Protocol!NextSentence
  <2> QED BY <2>2, <2>5, <2>6, <2>7, <2>8, NotComplete
<1> QED BY <1>6, <1>7, <1>8, <1>9 DEF Consumer

(* The end of the session.                                                 *)
LEMMA FinishStep ==
    ASSUME IInv, Finish
    PROVE  IInv'
<1> USE DEF IInv
<1> DEFINE f == IF errors # {} THEN Protocol!ErrorFrame
                               ELSE Protocol!CompleteFrame(total)
<1>1. /\ phase = "running" /\ producer = "exited" /\ consumer = "exited"
      /\ phase' = "closed" /\ gauge' = 0 /\ Send(f)
      /\ UNCHANGED <<connected, pending, ended, total, queue, producer, consumer,
                     current, errors>>
  BY DEF Finish, text, tasks
<1>2. ~Protocol!Closed /\ (connected => wire # <<>>)
  BY <1>1 DEF LastFrameInv
<1>3. f \in Protocol!Frame
  BY FramesAreFrames DEF TypeOK
<1>4. SentinelQueued' <=> SentinelQueued
  BY <1>1 DEF SentinelQueued
<1>5. QueueInOrder' /\ Taken' = Taken
  BY <1>1, <1>4, QueueUntouched
<1>6. errors = {} => Taken = total
  <2>1. SUFFICES ASSUME errors = {} PROVE Taken = total
    OBVIOUS
  <2>2. queue = <<>> /\ ~SentinelQueued
    BY <1>1, <2>1 DEF ControlInv, SentinelQueued
  <2>3. Waiting = 0
    BY <2>2 DEF Waiting
  <2> QED BY <2>3 DEF Taken, TypeOK
<1>7. connected => Protocol!Follows(Protocol!LastFrame, f)
  <2>1. CASE errors # {}
    BY <1>2, <2>1, ErrorMayFollow DEF TypeOK
  <2>2. CASE errors = {}
    BY <1>1, <1>6, <2>2 DEF LastFrameInv, Protocol!Follows
  <2> QED BY <2>1, <2>2
<1>8. /\ wire' \in Seq(Protocol!Frame) /\ WireInOrder'
      /\ connected => wire' # <<>> /\ Protocol!LastFrame' = f
      /\ Protocol!Closed' => connected
  <2> HIDE DEF f
  <2> QED BY <1>1, <1>2, <1>3, <1>7, SentInOrder DEF TypeOK
<1>9. CompleteIsTrue'
  <2>1. CASE connected
    BY <1>1, <1>5, <1>6, <1>8, <2>1
       DEF CompleteIsTrue, ControlInv, Protocol!ErrorFrame, Protocol!CompleteFrame
  <2>2. CASE ~connected
    BY <1>8, <2>2, NotComplete
  <2> QED BY <2>1, <2>2
<1>10. TypeOK'
  BY <1>1, <1>8 DEF TypeOK
<1>11. ControlInv' /\ CurrentInv' /\ LastFrameInv'
  BY <1>1, <1>5 DEF ControlInv, CurrentInv, LastFrameInv
<1> QED BY <1>5, <1>8, <1>9, <1>10, <1>11

(* A step that changes nothing but whether the client is there.            *)
LEMMA QuietStep ==
    ASSUME IInv, Disconnect \/ UNCHANGED vars
    PROVE  IInv'
<1> USE DEF IInv
<1>1. /\ UNCHANGED <<phase, gauge, pending, ended, total, queue, producer,
                     consumer, current, errors, wire>>
      /\ connected' = FALSE \/ connected' = connected
  BY DEF Disconnect, vars, text, tasks
<1>2. /\ WireInOrder' /\ (Protocol!Closed' <=> Protocol!Closed)
      /\ Protocol!LastFrame' = Protocol!LastFrame
  BY <1>1, WireUntouched
<1>3. SentinelQueued' <=> SentinelQueued
  BY <1>1 DEF SentinelQueued
<1>4. QueueInOrder' /\ Taken' = Taken
  BY <1>1, <1>3, QueueUntouched
<1>5. CompleteIsTrue'
  BY <1>1, <1>2, <1>4 DEF CompleteIsTrue
<1>6. TypeOK'
  BY <1>1 DEF TypeOK
<1>7. ControlInv' /\ CurrentInv'
  BY <1>1, <1>4 DEF ControlInv, CurrentInv
<1>8. LastFrameInv'
  BY <1>1, <1>2, <1>4 DEF LastFrameInv
<1> QED BY <1>2, <1>4, <1>5, <1>6, <1>7, <1>8

LEMMA StepIInv == IInv /\ [Next]_vars => IInv'
BY HandshakeStep, ProducerStep, ConsumerStep, FinishStep, QuietStep DEF Next

-----------------------------------------------------------------------------
(* The theorems.                                                           *)

(* The invariant holds of every session, however long.                     *)
THEOREM SessionInvariant == Spec => []IInv
BY InitIInv, StepIInv, PTL DEF Spec

(* Every variable keeps its type, the gauge's share within 0 and 1.        *)
THEOREM TypeCorrect == Spec => []TypeOK
BY SessionInvariant, PTL DEF IInv

(* The queue holds the sentences not yet taken, in order, and exactly one  *)
(* sentinel once receive_producer is through.                              *)
THEOREM QueueIsInOrder == Spec => []QueueInOrder
BY SessionInvariant, PTL DEF IInv

(* The frames the client receives form a stream of the wire protocol.      *)
THEOREM StreamIsInOrder == Spec => []WireInOrder
BY SessionInvariant, PTL DEF IInv

(* "complete" is said only of a session whose every sentence was spoken.   *)
THEOREM CompleteTellsTheTruth == Spec => []CompleteIsTrue
BY SessionInvariant, PTL DEF IInv

(* The gauge counts a session exactly while its handler runs.              *)
THEOREM GaugeBalanced == Spec => []GaugeIsBalanced
<1>1. Init => GaugeIsBalanced
  BY DEF Init, GaugeIsBalanced
<1>2. IInv /\ GaugeIsBalanced /\ [Next]_vars => GaugeIsBalanced'
  <2> SUFFICES ASSUME IInv, GaugeIsBalanced, [Next]_vars
               PROVE  GaugeIsBalanced'
    OBVIOUS
  <2>1. CASE Accept \/ Reject \/ Abandon \/ Finish
    BY <2>1 DEF Accept, Reject, Abandon, Finish, GaugeIsBalanced
  <2>2. CASE UNCHANGED <<phase, gauge>>
    BY <2>2 DEF GaugeIsBalanced
  <2>3. CASE Producer
    BY <2>2, <2>3 DEF Producer, ReceiveText, ReceiveGarbage, ReceiveDisconnect
  <2>4. CASE Consumer
    BY <2>2, <2>4 DEF Consumer, TakeSentence, TakeSentinel, SpeakSentence,
                      SpeakFails, SentenceDone
  <2>5. CASE Disconnect \/ UNCHANGED vars
    BY <2>2, <2>5 DEF Disconnect, vars
  <2> QED BY <2>1, <2>3, <2>4, <2>5 DEF Next
<1> QED BY <1>1, <1>2, SessionInvariant, PTL DEF Spec

(* A client that stays is told how its stream ended.                       *)
THEOREM OutcomeReported == Spec => []OutcomeIsReported
<1>1. Init => OutcomeIsReported
  BY DEF Init, OutcomeIsReported
<1>2. IInv /\ OutcomeIsReported /\ [Next]_vars => OutcomeIsReported'
  <2> SUFFICES ASSUME IInv, OutcomeIsReported, [Next]_vars
               PROVE  OutcomeIsReported'
    OBVIOUS
  <2> USE DEF IInv
  <2>1. CASE Accept \/ Reject \/ Abandon
    BY <2>1 DEF Accept, Reject, Abandon, OutcomeIsReported, ControlInv, tasks
  <2>2. CASE Producer \/ Consumer
    <3>1. phase = "running"
      BY <2>2, TasksRun
         DEF Producer, ReceiveText, ReceiveGarbage, ReceiveDisconnect, Consumer,
             TakeSentence, TakeSentinel, SpeakSentence, SpeakFails, SentenceDone
    <3>2. phase' = phase
      BY <2>2
         DEF Producer, ReceiveText, ReceiveGarbage, ReceiveDisconnect, Consumer,
             TakeSentence, TakeSentinel, SpeakSentence, SpeakFails, SentenceDone
    <3> QED BY <3>1, <3>2 DEF OutcomeIsReported
  <2>3. CASE Finish
    <3> DEFINE f == IF errors # {} THEN Protocol!ErrorFrame
                                   ELSE Protocol!CompleteFrame(total)
    <3>1. Send(f) /\ connected' = connected /\ errors' = errors
      BY <2>3 DEF Finish
    <3>2. SUFFICES ASSUME connected
                   PROVE  /\ Protocol!Closed'
                          /\ Protocol!LastFrame' = Protocol!ErrorFrame <=> errors # {}
      BY <3>1 DEF OutcomeIsReported
    <3>3. wire' # <<>> /\ Protocol!LastFrame' = f
      <4> HIDE DEF f
      <4>1. wire' = Append(wire, f) /\ wire \in Seq(Protocol!Frame)
        BY <3>1, <3>2 DEF Send, TypeOK
      <4> QED BY <4>1 DEF Protocol!LastFrame
    <3> QED BY <3>3 DEF Protocol!Closed, Protocol!Terminal,
                        Protocol!ErrorFrame, Protocol!CompleteFrame
  <2>4. CASE Disconnect \/ UNCHANGED vars
    <3>1. \/ phase' # "closed"
          \/ UNCHANGED <<phase, connected, producer, errors, wire>>
      BY <2>4 DEF Disconnect, vars
    <3> QED BY <3>1, WireUntouched DEF OutcomeIsReported
  <2> QED BY <2>1, <2>2, <2>3, <2>4 DEF Next
<1> QED BY <1>1, <1>2, SessionInvariant, PTL DEF Spec

(* Once a synthesis has failed, only the error frame is still sent.        *)
THEOREM SilenceAfterFailure == Spec => SilentAfterFailure
<1>1. IInv /\ [Next]_vars =>
        ("consumer" \in errors /\ wire' # wire => wire' = Append(wire, Protocol!ErrorFrame))
  <2> SUFFICES ASSUME IInv, Next, "consumer" \in errors, wire' # wire
               PROVE  wire' = Append(wire, Protocol!ErrorFrame)
    BY DEF vars
  <2>1. consumer = "exited" /\ phase # "handshake"
    BY DEF IInv, ControlInv
  <2>2. Finish
    BY <2>1 DEF Next, Accept, Reject, Abandon, Producer, ReceiveText, ReceiveGarbage,
                ReceiveDisconnect, Consumer, TakeSentence, TakeSentinel,
                SpeakSentence, SpeakFails, SentenceDone, Disconnect
  <2> QED BY <2>2 DEF Finish, Send
<1> QED BY <1>1, SessionInvariant, PTL DEF Spec, SilentAfterFailure

-----------------------------------------------------------------------------
(* The session implements the wire protocol: each of its steps is a step   *)
(* of StreamProtocol or leaves what the client and the text show alone.    *)

(* Sending f to a client that is there is saying it.                       *)
LEMMA SendSays ==
    ASSUME NEW f, Send(f), connected, UNCHANGED <<total, pending, ended, connected>>
    PROVE  Protocol!Say(f)
BY DEF Send, Protocol!Say

LEMMA SendUnheard ==
    ASSUME NEW f, Send(f), ~connected, UNCHANGED <<total, pending, ended, connected>>
    PROVE  UNCHANGED Protocol!vars
BY DEF Send, Protocol!vars

(* A frame about a sentence that was formed, at its place, is spoken.      *)
LEMMA SendSpeaks ==
    ASSUME NEW f, Send(f), connected, UNCHANGED <<total, pending, ended, connected>>,
           wire # <<>>, Protocol!Follows(Protocol!LastFrame, f), f.idx < total,
           f \in {Protocol!StartFrame(Protocol!NextSentence(Protocol!LastFrame)),
                  Protocol!AudioFrame(Protocol!LastFrame.idx),
                  Protocol!DoneFrame(Protocol!LastFrame.idx)}
    PROVE  Protocol!Speak
BY SendSays DEF Protocol!Speak

LEMMA TakenIsFormed ==
    ASSUME TypeOK, QueueInOrder, CurrentInv, consumer \in {"synth", "done"}
    PROVE  current < total
<1>1. Waiting \in 0 .. total /\ total \in Nat /\ current \in Nat
  BY DEF TypeOK, QueueInOrder
<1>2. current + 1 = total - Waiting
  BY DEF CurrentInv, Taken
<1> QED BY <1>1, <1>2

LEMMA ConsumerImplements ==
    ASSUME IInv, Consumer
    PROVE  Protocol!Speak \/ UNCHANGED Protocol!vars
<1> USE DEF IInv
<1>1. phase = "running" /\ UNCHANGED <<total, pending, ended, connected>>
  <2>1. consumer \in {"get", "synth", "done"}
    BY DEF Consumer, TakeSentence, TakeSentinel, SpeakSentence, SpeakFails, SentenceDone
  <2> QED BY <2>1, TasksRun
          DEF text, Consumer, TakeSentence, TakeSentinel, SpeakSentence, SpeakFails, SentenceDone
<1>2. CASE wire' = wire
  BY <1>1, <1>2 DEF Protocol!vars
<1>3. CASE ~connected
  BY <1>1, <1>3, SendUnheard
     DEF Consumer, TakeSentence, TakeSentinel, SpeakSentence, SpeakFails,
         SentenceDone, ConsumerFails, Protocol!vars
<1>4. ASSUME connected, wire' # wire
      PROVE  Protocol!Speak
  <2>1. CASE TakeSentence
    <3>1. /\ consumer = "get" /\ queue # <<>> /\ Head(queue) # NoMore
          /\ queue' = Tail(queue) /\ consumer' = "synth" /\ producer' = producer
          /\ Send(Protocol!StartFrame(Head(queue)))
      BY <1>4, <2>1 DEF TakeSentence, ConsumerFails
    <3>2. Head(queue) = Taken /\ Taken < total
      <4>1. SentinelQueued' <=> SentinelQueued
        BY <3>1 DEF SentinelQueued
      <4> QED BY <1>1, <3>1, <4>1, QueueTaken
    <3>3. /\ wire # <<>>
          /\ Protocol!Follows(Protocol!LastFrame, Protocol!StartFrame(Taken))
          /\ Protocol!NextSentence(Protocol!LastFrame) = Taken
      BY <1>1, <1>4, <3>1 DEF LastFrameInv, Protocol!Follows
    <3>4. Protocol!StartFrame(Taken).idx = Taken
      BY DEF Protocol!StartFrame
    <3> QED BY <1>1, <1>4, <3>1, <3>2, <3>3, <3>4, SendSpeaks
  <2>2. CASE SpeakSentence \/ SentenceDone
    <3>1. /\ consumer \in {"synth", "done"} /\ current < total
      BY <2>2, TakenIsFormed DEF SpeakSentence, SentenceDone
    <3>2. /\ wire # <<>>
          /\ Protocol!LastFrame = IF consumer = "synth" THEN Protocol!StartFrame(current)
                                                        ELSE Protocol!AudioFrame(current)
      BY <1>1, <1>4, <3>1 DEF LastFrameInv
    <3>3. CASE SpeakSentence
      <4>1. /\ Send(Protocol!AudioFrame(current)) /\ Protocol!LastFrame.idx = current
            /\ Protocol!Follows(Protocol!LastFrame, Protocol!AudioFrame(current))
            /\ Protocol!AudioFrame(current).idx = current
        BY <3>2, <3>3 DEF SpeakSentence, Protocol!StartFrame, Protocol!AudioFrame, Protocol!Follows
      <4> QED BY <1>1, <1>4, <3>1, <3>2, <4>1, SendSpeaks
    <3>4. CASE SentenceDone
      <4>1. /\ Send(Protocol!DoneFrame(current)) /\ Protocol!LastFrame.idx = current
            /\ Protocol!Follows(Protocol!LastFrame, Protocol!DoneFrame(current))
            /\ Protocol!DoneFrame(current).idx = current
        BY <3>2, <3>4 DEF SentenceDone, Protocol!AudioFrame, Protocol!DoneFrame, Protocol!Follows
      <4> QED BY <1>1, <1>4, <3>1, <3>2, <4>1, SendSpeaks
    <3> QED BY <2>2, <3>3, <3>4
  <2> QED BY <1>4, <2>1, <2>2 DEF Consumer, TakeSentinel, SpeakFails, ConsumerFails
<1> QED BY <1>2, <1>3, <1>4

LEMMA StepImplements ==
    ASSUME IInv, [Next]_vars
    PROVE  [Protocol!Next]_(Protocol!vars)
<1> USE DEF IInv
<1>1. CASE Accept
  <2>1. /\ wire = <<>> /\ Send(Protocol!SessionFrame)
        /\ UNCHANGED <<total, pending, ended, connected>>
    BY <1>1 DEF Accept, ControlInv, text
  <2> QED BY <2>1, SendSays, SendUnheard DEF Protocol!Next, Protocol!Greet
<1>2. CASE Reject
  <2>1. /\ wire = <<>> /\ Send(Protocol!ErrorFrame)
        /\ UNCHANGED <<total, pending, ended, connected>>
    BY <1>2 DEF Reject, ControlInv, text
  <2> QED BY <2>1, SendSays, SendUnheard DEF Protocol!Next, Protocol!Refuse
<1>3. CASE Abandon \/ ReceiveGarbage \/ ReceiveDisconnect \/ UNCHANGED vars
  BY <1>3 DEF Abandon, ReceiveGarbage, ReceiveDisconnect, vars, text, Protocol!vars
<1>4. ASSUME NEW n \in 0 .. MaxSentences, NEW rest \in BOOLEAN, NEW end \in BOOLEAN,
             ReceiveText(n, rest, end)
      PROVE  Protocol!Hear
  <2>1. ~ended
    BY <1>4 DEF ReceiveText, ControlInv
  <2>2. /\ total' = IF end /\ rest THEN total + n + 1 ELSE total + n
        /\ pending' = (rest /\ ~end) /\ ended' = end
        /\ (pending /\ n = 0) => rest
        /\ UNCHANGED <<wire, connected>>
    BY <1>4 DEF ReceiveText
  <2>3. total' \in Nat /\ total' >= total /\ (n # 0 => total' > total)
        /\ (end /\ rest => total' > total)
    BY <2>2, MaxSentencesAssumption DEF TypeOK
  <2>4. (pending /\ ~pending') => total' > total
    BY <2>2, <2>3
  <2>5. pending' \in BOOLEAN /\ ended' \in BOOLEAN /\ (ended' => ~pending')
    BY <2>2
  <2> QED BY <2>1, <2>2, <2>3, <2>4, <2>5 DEF Protocol!Hear
<1>5. CASE Consumer
  BY <1>5, ConsumerImplements DEF Protocol!Next
<1>6. CASE Finish
  <2>1. /\ phase = "running" /\ producer = "exited" /\ consumer = "exited"
        /\ UNCHANGED <<total, pending, ended, connected>>
    BY <1>6 DEF Finish, text
  <2>2. CASE errors # {}
    <3>1. Send(Protocol!ErrorFrame) /\ ~Protocol!Closed /\ (connected => wire # <<>>)
      BY <1>6, <2>1, <2>2 DEF Finish, LastFrameInv
    <3> QED BY <2>1, <3>1, SendSays, SendUnheard DEF Protocol!Next, Protocol!Fail
  <2>3. CASE errors = {}
    <3>1. Send(Protocol!CompleteFrame(total))
      BY <1>6, <2>3 DEF Finish
    <3>2. connected => ended /\ ~pending /\ wire # <<>>
      BY <2>1, <2>3 DEF ControlInv, LastFrameInv
    <3>3. Taken = total
      <4>1. queue = <<>> /\ ~SentinelQueued
        BY <2>1, <2>3 DEF ControlInv, SentinelQueued
      <4>2. Waiting = 0
        BY <4>1 DEF Waiting
      <4> QED BY <4>2 DEF Taken, TypeOK
    <3>4. connected => Protocol!Follows(Protocol!LastFrame, Protocol!CompleteFrame(total))
      BY <2>1, <2>3, <3>3 DEF LastFrameInv, Protocol!Follows
    <3> QED BY <2>1, <3>1, <3>2, <3>4, SendSays, SendUnheard
            DEF Protocol!Next, Protocol!Complete
  <2> QED BY <2>2, <2>3
<1>7. CASE Disconnect
  BY <1>7 DEF Disconnect, text, Protocol!Next, Protocol!Leave
<1> QED BY <1>1, <1>2, <1>3, <1>4, <1>5, <1>6, <1>7 DEF Next, Producer, Protocol!Next

(* The session implements StreamProtocol.                                  *)
THEOREM SessionImplementsProtocol == Spec => ImplementsProtocol
<1>1. Init => Protocol!Init
  BY DEF Init, Protocol!Init
<1>2. IInv /\ [Next]_vars => [Protocol!Next]_(Protocol!vars)
  BY StepImplements
<1> QED BY <1>1, <1>2, SessionInvariant, PTL DEF Spec, ImplementsProtocol, Protocol!Spec

-----------------------------------------------------------------------------
(***************************************************************************)
(* WsAudition, for texts of any length in any number of bursts: whatever   *)
(* the client does is something WsSession allows, so that its theorems     *)
(* hold of the composition; and a row that is reported "ok" has saved the  *)
(* whole speech.                                                           *)
(***************************************************************************)
(* The audio of the first n sentences, and how many of them have been      *)
(* heard once frame f has.                                                 *)
Spoken(n)   == [i \in 1 .. n |-> i - 1]
Expected(f) == CASE f.event = "session"        -> 0
                 [] f.event = "sentence_start" -> f.idx
                 [] OTHER                      -> f.idx + 1

(* What the row has kept is told by the last frame it has received.        *)
RowInv ==
    /\ heard \in 0 .. Len(wire)
    /\ client = "connecting" => heard = 0 /\ pcm = <<>>
    /\ client = "receiving" =>
         /\ heard > 0 /\ ~Protocol!Terminal(wire[heard])
         /\ pcm = Spoken(Expected(wire[heard]))
    /\ client \in {"complete", "ok", "silent"} =>
         /\ heard > 0 /\ wire[heard].event = "complete"
         /\ pcm = Spoken(wire[heard].idx)

-----------------------------------------------------------------------------
(* Every step of the composition is a step of the session, or none.        *)
LEMMA StepIsOfTheSession ==
    ASSUME [AuditionNext]_allVars PROVE [Next]_vars
<1>1. CASE client = "any" /\ Next /\ UNCHANGED clientVars
  BY <1>1
<1>2. CASE client # "any" /\ (Serves \/ Disconnect) /\ UNCHANGED clientVars
  BY <1>2 DEF Serves, Next, Producer
<1>3. CASE ReceiveBurst
  <2>1. PICK n \in 0 .. MaxSentences, rest \in BOOLEAN : ReceiveText(n, rest, LastBurst)
    BY <1>3 DEF ReceiveBurst
  <2>2. LastBurst \in BOOLEAN
    BY DEF LastBurst
  <2> QED BY <2>1, <2>2 DEF Next, Producer
<1>4. CASE Trickle \/ TrickleRaises \/ Greeted \/ Receive \/ ReceiveRaises
  BY <1>4 DEF Trickle, TrickleRaises, Greeted, Receive, ReceiveRaises
<1>5. CASE EndRow
  BY <1>5 DEF EndRow, Next
<1>6. CASE UNCHANGED allVars
  BY <1>6 DEF allVars
<1> QED BY <1>1, <1>2, <1>3, <1>4, <1>5, <1>6 DEF AuditionNext, Row

(* The session with its client is a session: all that is proved of         *)
(* WsSession holds of it.  (server.py 1414-1608 against any client.)       *)
THEOREM AuditionIsASession == AuditionSpec => Spec
<1>1. AuditionInit => Init
  BY DEF AuditionInit
<1>2. [AuditionNext]_allVars => [Next]_vars
  BY StepIsOfTheSession
<1> QED BY <1>1, <1>2, PTL DEF AuditionSpec, Spec

LEMMA AuditionInvariant == AuditionSpec => []IInv
BY AuditionIsASession, SessionInvariant, PTL

-----------------------------------------------------------------------------
(* What the client has received stays as it is.                            *)
LEMMA WireGrows ==
    ASSUME IInv, [Next]_vars
    PROVE  /\ Len(wire) \in Nat /\ Len(wire') \in Nat /\ Len(wire) <= Len(wire')
           /\ \A i \in 1 .. Len(wire) : wire'[i] = wire[i]
<1>1. wire \in Seq(Protocol!Frame) /\ wire' \in Seq(Protocol!Frame)
  BY StepIInv DEF IInv, TypeOK
<1>2. CASE wire' = wire
  BY <1>1, <1>2
<1>3. CASE wire' # wire
  <2>1. [Protocol!Next]_(Protocol!vars)
    BY StepImplements
  <2>2. PICK f : wire' = Append(wire, f)
    BY <1>3, <2>1 DEF Protocol!vars, Protocol!Next, Protocol!Hear, Protocol!Greet,
       Protocol!Refuse, Protocol!Speak, Protocol!Fail, Protocol!Complete,
       Protocol!Leave, Protocol!Say
  <2> QED BY <1>1, <2>2
<1> QED BY <1>2, <1>3

(* A frame that comes after another is the one the row waits for, and      *)
(* nothing comes after "complete".                                         *)
LEMMA NextFrame ==
    ASSUME IInv, heard \in 1 .. Len(wire) - 1
    PROVE  /\ Protocol!Follows(wire[heard], wire[heard + 1])
           /\ wire[heard] \in Protocol!Frame /\ wire[heard + 1] \in Protocol!Frame
           /\ wire[heard].event # "complete"
<1>1. wire \in Seq(Protocol!Frame) /\ Len(wire) \in Nat
  BY DEF IInv, TypeOK
<1>2. wire[heard] \in Protocol!Frame /\ wire[heard + 1] \in Protocol!Frame
  BY <1>1
<1>3. Protocol!Follows(wire[heard], wire[heard + 1])
  BY DEF IInv, WireInOrder, Protocol!WireInOrder
<1> QED BY <1>2, <1>3 DEF Protocol!Follows

LEMMA SpokenGrows ==
    ASSUME NEW n \in Nat
    PROVE  Append(Spoken(n), n) = Spoken(n + 1)
<1>1. Spoken(n) \in Seq(Nat) /\ Len(Spoken(n)) = n
  BY DEF Spoken
<1>2. Spoken(n + 1) \in Seq(Nat) /\ Len(Spoken(n + 1)) = n + 1
  BY DEF Spoken
<1>3. ASSUME NEW i \in 1 .. n + 1
      PROVE  Append(Spoken(n), n)[i] = Spoken(n + 1)[i]
  BY <1>1, <1>2, <1>3 DEF Spoken
<1>4. Append(Spoken(n), n) \in Seq(Nat) /\ Len(Append(Spoken(n), n)) = n + 1
  BY <1>1
<1> QED BY <1>2, <1>3, <1>4, SeqEqual

(* One more frame received: what is kept follows what is expected.         *)
LEMMA ReceiveStep ==
    ASSUME IInv, RowInv, Receive
    PROVE  RowInv'
<1> DEFINE f == wire[heard]
           g == wire[heard + 1]
<1>1. /\ client = "receiving" /\ heard < Len(wire)
      /\ heard' = heard + 1 /\ wire' = wire
      /\ pcm' = IF g.event = "audio" THEN Append(pcm, g.idx) ELSE pcm
      /\ client' = CASE g.event = "complete" -> "complete"
                     [] g.event = "error"    -> "raised"
                     [] OTHER                -> "receiving"
  BY DEF Receive, vars
<1>2. /\ Len(wire) \in Nat /\ heard \in 1 .. Len(wire) - 1
      /\ ~Protocol!Terminal(f) /\ pcm = Spoken(Expected(f))
  BY <1>1 DEF RowInv, IInv, TypeOK
<1>3. Protocol!Follows(f, g) /\ f \in Protocol!Frame /\ g \in Protocol!Frame
  BY <1>2, NextFrame
<1>4. wire'[heard'] = g /\ heard' \in 1 .. Len(wire')
  BY <1>1, <1>2
<1> HIDE DEF f, g
<1>5. CASE g.event = "error"
  BY <1>1, <1>4, <1>5 DEF RowInv
<1>6. CASE g.event = "complete"
  <2>1. g.idx = Expected(f)
    BY <1>2, <1>3, <1>6 DEF Protocol!Follows, Protocol!CompleteFrame, Protocol!StartFrame,
       Protocol!AudioFrame, Protocol!DoneFrame, Protocol!ErrorFrame, Protocol!NextSentence, Expected
  <2>2. client' = "complete" /\ pcm' = pcm
    BY <1>1, <1>6
  <2> QED BY <1>1, <1>2, <1>4, <1>6, <2>1, <2>2 DEF RowInv
<1>7. CASE g.event = "audio"
  <2>1. Expected(f) = g.idx /\ Expected(g) = g.idx + 1 /\ g.idx \in Nat /\ ~Protocol!Terminal(g)
    BY <1>2, <1>3, <1>7 DEF Protocol!Follows, Protocol!CompleteFrame, Protocol!StartFrame,
       Protocol!AudioFrame, Protocol!DoneFrame, Protocol!ErrorFrame, Protocol!NextSentence,
       Expected, Protocol!Terminal, Protocol!Frame
  <2>2. pcm' = Spoken(Expected(g))
    BY <1>1, <1>2, <1>7, <2>1, SpokenGrows
  <2>3. client' = "receiving"
    BY <1>1, <1>7
  <2> QED BY <1>4, <2>1, <2>2, <2>3 DEF RowInv
<1>8. CASE g.event \in {"sentence_start", "sentence_done"}
  <2>1. Expected(g) = Expected(f) /\ ~Protocol!Terminal(g)
    BY <1>2, <1>3, <1>8 DEF Protocol!Follows, Protocol!CompleteFrame, Protocol!StartFrame,
       Protocol!AudioFrame, Protocol!DoneFrame, Protocol!ErrorFrame, Protocol!NextSentence,
       Expected, Protocol!Terminal, Protocol!Frame
  <2>2. client' = "receiving" /\ pcm' = pcm
    BY <1>1, <1>8
  <2> QED BY <1>2, <1>4, <2>1, <2>2 DEF RowInv
<1>9. g.event \in {"sentence_start", "audio", "sentence_done", "complete", "error"}
  BY <1>3 DEF Protocol!Follows, Protocol!CompleteFrame, Protocol!StartFrame,
     Protocol!AudioFrame, Protocol!DoneFrame, Protocol!ErrorFrame
<1> QED BY <1>5, <1>6, <1>7, <1>8, <1>9

(* A step that receives nothing: the wire may grow behind the row's back.  *)
LEMMA RowUnmoved ==
    ASSUME IInv, RowInv, [Next]_vars, UNCHANGED <<heard, pcm>>,
           \/ client' = client
           \/ client' \in {"any", "raised", "failed"}
           \/ client = "complete" /\ client' \in {"ok", "silent"}
    PROVE  RowInv'
<1>1. /\ Len(wire) \in Nat /\ Len(wire') \in Nat /\ Len(wire) <= Len(wire')
      /\ heard > 0 => wire'[heard] = wire[heard]
  BY WireGrows DEF RowInv
<1> QED BY <1>1 DEF RowInv

LEMMA GreetedStep ==
    ASSUME IInv, RowInv, Greeted
    PROVE  RowInv'
<1>1. /\ heard = 0 /\ pcm = <<>> /\ heard' = 1 /\ pcm' = pcm /\ wire' = wire
      /\ Len(wire) \in Nat /\ Len(wire) > 0
      /\ client' \in {"receiving", "raised"}
      /\ client' = "receiving" => wire[1].event = "session"
  BY DEF Greeted, RowInv, vars, IInv, TypeOK
<1>2. <<>> = Spoken(0)
  BY DEF Spoken
<1>3. client' = "receiving" => /\ Expected(wire'[heard']) = 0
                               /\ ~Protocol!Terminal(wire'[heard'])
  BY <1>1 DEF Expected, Protocol!Terminal
<1> QED BY <1>1, <1>2, <1>3 DEF RowInv

LEMMA RowStep ==
    ASSUME IInv, RowInv, [AuditionNext]_allVars
    PROVE  RowInv'
<1>1. [Next]_vars
  BY StepIsOfTheSession
<1>2. CASE Receive
  BY <1>2, ReceiveStep
<1>3. CASE Greeted
  BY <1>3, GreetedStep
<1>4. CASE EndRow
  <2>1. /\ UNCHANGED <<heard, pcm>>
        /\ \/ client' = "failed"
           \/ client = "complete" /\ client' \in {"ok", "silent"}
    BY <1>4 DEF EndRow
  <2> QED BY <1>1, <2>1, RowUnmoved
<1>5. CASE ReceiveRaises
  BY <1>1, <1>5, RowUnmoved DEF ReceiveRaises
<1>6. CASE Trickle \/ TrickleRaises \/ ReceiveBurst
  BY <1>1, <1>6, RowUnmoved DEF Trickle, TrickleRaises, ReceiveBurst
<1>7. CASE UNCHANGED clientVars
  BY <1>1, <1>7, RowUnmoved DEF clientVars
<1> QED BY <1>2, <1>3, <1>4, <1>5, <1>6, <1>7 DEF AuditionNext, Row, allVars

(* The inductive invariant of the composition.                             *)
LEMMA RowInvariant == AuditionSpec => []RowInv
<1>1. AuditionInit => RowInv
  BY DEF AuditionInit, Init, RowInv
<1> QED BY <1>1, RowStep, AuditionInvariant, PTL DEF AuditionSpec

(* A row that is reported "ok" has saved the whole text as speech, every   *)
(* sentence once and in order.  (_stream_one_row of                        *)
(* asgard_ws_audition.py with the session of server.py.)                   *)
THEOREM RowSavesTheSpeech == AuditionSpec => []RowIsTheSpeech
<1>1. ASSUME IInv, RowInv, client \in {"ok", "silent"}
      PROVE  /\ ended /\ ~pending
             /\ pcm = [i \in 1 .. total |-> i - 1]
  <2>1. /\ Len(wire) \in Nat /\ heard \in 1 .. Len(wire)
        /\ wire[heard].event = "complete" /\ pcm = Spoken(wire[heard].idx)
    BY <1>1 DEF RowInv, IInv, TypeOK
  <2>2. heard = Len(wire)
    BY <1>1, <2>1, NextFrame
  <2>3. wire # <<>> /\ Protocol!LastFrame = wire[heard]
    BY <2>1, <2>2 DEF Protocol!LastFrame
  <2>4. ended /\ ~pending /\ wire[heard] = Protocol!CompleteFrame(total)
    BY <1>1, <2>1, <2>3 DEF IInv, CompleteIsTrue
  <2>5. wire[heard].idx = total
    BY <2>4 DEF Protocol!CompleteFrame
  <2> QED BY <2>1, <2>4, <2>5 DEF Spoken
<1>2. IInv /\ RowInv => RowIsTheSpeech
  BY <1>1 DEF RowIsTheSpeech
<1> QED BY <1>2, AuditionInvariant, RowInvariant, PTL
=============================================================================
