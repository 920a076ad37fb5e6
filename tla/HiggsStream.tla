---------------------------- MODULE HiggsStream ----------------------------
(***************************************************************************)
(* _HiggsInProcess.synthesize_stream of backends/higgs.py, in the child of *)
(* the higgs backend: a worker thread runs the model's generate, which     *)
(* puts one column of codes per step into a queue; the generator takes     *)
(* them, decodes all it has each time enough is new, and gives out the     *)
(* samples it has not given yet.                                           *)
(*                                                                         *)
(* Abstraction.  The delay pattern spreads a frame over Pad + 1 columns,   *)
(* so n columns hold n - Pad frames, of which the first is the BOS mark    *)
(* and the last the EOS mark.  Sound is counted in frames, numbered from   *)
(* 1: the BOS mark is frame 0, and in a generation of `speech` frames the  *)
(* EOS mark is frame speech + 1.                                           *)
(***************************************************************************)
EXTENDS Integers, Sequences

CONSTANTS
    Pad,         \* delay_pad
    FirstChunk,  \* STREAM_FIRST_CHUNK_FRAMES
    Chunk,       \* STREAM_CHUNK_FRAMES
    Speeches     \* how many frames the model may speak

ASSUME HiggsAssumption ==
    /\ Pad \in Nat /\ Speeches \subseteq Nat
    /\ FirstChunk \in Nat \ {0} /\ Chunk \in Nat \ {0}

VARIABLES
    speech,   \* the frames the model will speak
    worker,   \* where the thread of generate is
    put,      \* the columns it has put
    failed,   \* worker_exc is not empty
    queue,    \* the streamer's queue
    cols,     \* the columns taken out of it
    yielded,  \* yielded_samples, in frames
    first,    \* first_chunk_done
    taker,    \* where the generator is
    played    \* the frames it has given out

higgsVars == <<speech, worker, put, failed, queue, cols, yielded, first, taker, played>>

Sentinel == "stop"   \* _STOP

HiggsInit ==
    /\ speech \in Speeches
    /\ worker = "generate" /\ put = 0 /\ failed = FALSE
    /\ queue = <<>> /\ cols = 0 /\ yielded = 0 /\ first = FALSE
    /\ taker = "next" /\ played = <<>>

(* Columns of a whole generation: its frames, the two marks, the delay.    *)
Columns == speech + 2 + Pad

Monus(a, b) == IF a < b THEN 0 ELSE a - b

Frames(from, to) == [i \in 1 .. Monus(to + 1, from) |-> from + i - 1]

-----------------------------------------------------------------------------
(* The worker thread.                                                      *)

(* streamer.put, by a step of generate; text tokens are dropped.           *)
PutColumn ==
    /\ worker = "generate" /\ put < Columns
    /\ put' = put + 1
    /\ queue' = Append(queue, "column")
    /\ UNCHANGED <<speech, worker, failed, cols, yielded, first, taker, played>>

(* generate comes to its end, at EOS or at max_new_tokens, and calls end.  *)
(* In the second case the last of its frames stands where EOS would.  One  *)
(* that ends before its first whole frame is left out.                     *)
End ==
    /\ worker = "generate" /\ put > Pad
    /\ worker' = "ended"
    /\ queue' = Append(queue, Sentinel)
    /\ speech' = IF put = Columns THEN speech ELSE Monus(put, Pad + 2)
    /\ UNCHANGED <<put, failed, cols, yielded, first, taker, played>>

(* Faulty variant: what generate raises is not recorded.                   *)
RaiseSwallowed ==
    /\ worker = "generate"
    /\ worker' = "raised"
    /\ UNCHANGED <<speech, put, failed, queue, cols, yielded, first, taker, played>>

(* generate raises: the failure is recorded,                               *)
Raise ==
    /\ worker = "generate"
    /\ worker' = "raised"
    /\ failed' = TRUE
    /\ UNCHANGED <<speech, put, queue, cols, yielded, first, taker, played>>

(* and then the consumer is woken.                                         *)
Unblock ==
    /\ worker = "raised"
    /\ worker' = "crashed"
    /\ queue' = Append(queue, Sentinel)
    /\ UNCHANGED <<speech, put, failed, cols, yielded, first, taker, played>>

-----------------------------------------------------------------------------
(* The generator.                                                          *)

(* The last frame that n columns decode to.                                *)
Decoded(n, strip) == Monus(n, Pad + 1 + (IF strip THEN 1 ELSE 0))

Enough(n) ==
    Monus(n, Pad + 1) - yielded >= (IF first THEN Chunk ELSE FirstChunk)

(* _generate_audio, the batch call, for n columns: both marks stripped.    *)
Batch(n) == Frames(1, Monus(n, Pad + 2))

(* Faulty variant: what is given out is counted by the threshold.          *)
TakeCounted ==
    /\ taker = "next" /\ queue # <<>> /\ Head(queue) # Sentinel
    /\ queue' = Tail(queue)
    /\ cols' = cols + 1
    /\ IF Enough(cols') /\ Decoded(cols', FALSE) > yielded
         THEN /\ played' = played \o Frames(yielded + 1, Decoded(cols', FALSE))
              /\ yielded' = yielded + Chunk
              /\ first' = TRUE /\ taker' = "yielded"
         ELSE UNCHANGED <<played, yielded, first, taker>>
    /\ UNCHANGED <<speech, worker, put, failed>>

(* A column is taken; enough of them are decoded, without the strip of the *)
(* EOS mark, and what is new is given out.                                 *)
Take ==
    /\ taker = "next" /\ queue # <<>> /\ Head(queue) # Sentinel
    /\ queue' = Tail(queue)
    /\ cols' = cols + 1
    /\ IF Enough(cols') /\ Decoded(cols', FALSE) > yielded
         THEN /\ played' = played \o Frames(yielded + 1, Decoded(cols', FALSE))
              /\ yielded' = Decoded(cols', FALSE)
              /\ first' = TRUE /\ taker' = "yielded"
         ELSE UNCHANGED <<played, yielded, first, taker>>
    /\ UNCHANGED <<speech, worker, put, failed>>

(* The shim's response asks for the next chunk.                            *)
Ask ==
    /\ taker = "yielded"
    /\ taker' = "next"
    /\ UNCHANGED <<speech, worker, put, failed, queue, cols, yielded, first, played>>

(* The end of the queue: a failure is raised; or else the rest is decoded, *)
(* with the strip, and given out.                                          *)
Finish ==
    /\ taker = "next" /\ queue # <<>> /\ Head(queue) = Sentinel
    /\ queue' = Tail(queue)
    /\ IF failed
         THEN /\ taker' = "raised"
              /\ UNCHANGED played
         ELSE /\ taker' = "flushed"
              /\ played' = played \o Frames(yielded + 1, Decoded(cols, TRUE))
    /\ UNCHANGED <<speech, worker, put, failed, cols, yielded, first>>

(* The client has gone: the generator is closed where it waits.            *)
CloseStream ==
    /\ taker = "yielded"
    /\ taker' = "closed"
    /\ UNCHANGED <<speech, worker, put, failed, queue, cols, yielded, first, played>>

(* thread.join: it waits for the worker, but for thirty seconds at most.   *)
Join ==
    /\ taker \in {"flushed", "raised", "closed"}
    /\ taker' = [flushed |-> "done", raised |-> "failed", closed |-> "left"][taker]
    /\ UNCHANGED <<speech, worker, put, failed, queue, cols, yielded, first, played>>

HiggsNext ==
    \/ PutColumn \/ End \/ Raise \/ Unblock
    \/ Take \/ Ask \/ Finish \/ CloseStream \/ Join

HiggsSpec == HiggsInit /\ [][HiggsNext]_higgsVars

-----------------------------------------------------------------------------
(* Properties.                                                             *)

(* The last frame, which is the EOS mark, completes a chunk.               *)
MarkCompletesChunk ==
    \E k \in 0 .. cols : FirstChunk + k * Chunk = Decoded(cols, FALSE)

(* What has been given out are frames 1, 2, 3 and so on, none twice, none  *)
(* left out, and the BOS mark not among them; and at the end of a stream   *)
(* nothing of what the batch call gives is missing.  Nothing follows it    *)
(* but the EOS mark, when this happens to complete a chunk: only the final *)
(* flush strips it, and that comes too late then.                          *)
StreamKeepsTheAudio ==
    /\ played = Frames(1, Len(played))
    /\ taker \in {"flushed", "done"} =>
         played = Batch(cols) \o (IF MarkCompletesChunk THEN <<speech + 1>> ELSE <<>>)

(* higgs.py 714-716: "Final flush with EOS-strip so the assembled stream   *)
(* matches the non-streaming output to within sample rounding": a stream   *)
(* that ends as it should has given what the batch call gives.             *)
StreamMatchesBatch == taker \in {"flushed", "done"} => played = Batch(cols)

(* A failure of generate is raised, never taken for the end of the speech, *)
(* and a generator that waits is always woken.                             *)
FailureIsHeard ==
    /\ taker \in {"flushed", "done"} => worker = "ended"
    /\ worker \in {"ended", "crashed"} /\ taker \in {"next", "yielded"} => queue # <<>>
=============================================================================
