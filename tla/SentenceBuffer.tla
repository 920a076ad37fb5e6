--------------------------- MODULE SentenceBuffer ---------------------------
(***************************************************************************)
(* SentenceBuffer of sentence_buffer.py: text arrives in pieces of any     *)
(* length, such as the tokens of a language model, and every sentence is   *)
(* given out as soon as it is complete.  The producer of a WS session      *)
(* (module WsSession) feeds it and flushes it at the end.                  *)
(***************************************************************************)
EXTENDS Chunking

CONSTANTS
    MaxText,   \* bound on the length of the whole text, for TLC
    MaxPiece,  \* bound on the length of a piece, for TLC
    Limits     \* values of max_chars

ASSUME TextAssumption == MaxText \in Nat /\ MaxPiece \in Nat /\ Limits \subseteq Nat

VARIABLES
    buf,      \* _buf
    text,     \* all that was fed
    given,    \* the sentences given out
    flushed   \* flush has been called

textVars == <<buf, text, given, flushed>>

TextInit == buf = <<>> /\ text = <<>> /\ given = <<>> /\ flushed = FALSE

(* The end of the first match of "[.!?]+\s+", or 0.                        *)
Boundary(s) == IF GapStarts(s) = {} THEN 0 ELSE GapEnd(s, Min(GapStarts(s)))

(* Faulty variant: one sentence at a time, as if "while" were "if".        *)
DrainOnce(s) ==
    IF Boundary(s) = 0
      THEN [out |-> <<>>, rest |-> s]
      ELSE [out |-> <<Strip(SubSeq(s, 1, Boundary(s)))>>,
            rest |-> SubSeq(s, Boundary(s) + 1, Len(s))]

Drained[s \in Seq(Char)] ==
    IF Boundary(s) = 0
      THEN [out |-> <<>>, rest |-> s]
      ELSE LET d == Drained[SubSeq(s, Boundary(s) + 1, Len(s))] IN
           [d EXCEPT !.out = <<Strip(SubSeq(s, 1, Boundary(s)))>> \o @]

(* The loop of feed: the complete sentences, and what is left.             *)
Drain(s) == Drained[s]

(* Faulty variant: each piece is drained by itself.                        *)
FeedPiece(piece) ==
    /\ ~flushed /\ Len(text) + Len(piece) <= MaxText
    /\ text' = text \o piece
    /\ given' = given \o Drain(piece).out
    /\ buf' = Drain(piece).rest
    /\ UNCHANGED flushed

Feed(piece) ==
    /\ ~flushed /\ Len(text) + Len(piece) <= MaxText
    /\ text' = text \o piece
    /\ given' = given \o Drain(buf \o piece).out
    /\ buf' = Drain(buf \o piece).rest
    /\ UNCHANGED flushed

(* What is left is given out too, unless it is blank.                      *)
Flush ==
    /\ ~flushed
    /\ given' = given \o (IF Strip(buf) = <<>> THEN <<>> ELSE <<Strip(buf)>>)
    /\ buf' = <<>> /\ flushed' = TRUE
    /\ UNCHANGED text

Pieces == UNION {[1 .. n -> Char] : n \in 1 .. MaxPiece}

TextNext == (\E piece \in Pieces : Feed(piece)) \/ Flush

TextSpec == TextInit /\ [][TextNext]_textVars

-----------------------------------------------------------------------------
(* Properties.                                                             *)

(* The sentences do not depend on how the text was cut into pieces: in the *)
(* end they are those that chunk_text finds in the whole text at once.     *)
(* (sentence_buffer.py 20-22 calls it the streaming counterpart.)          *)
PiecesDoNotMatter == flushed => given = ChunkText(text, 0)

(* No sentence is held back once the white space after it has come, nor    *)
(* is one given out before: what is given and what is buffered are the     *)
(* sentences of the text so far, and the buffer holds no boundary.         *)
GivenWhenComplete ==
    ~flushed => /\ given \o ChunkText(buf, 0) = ChunkText(text, 0)
                /\ Boundary(buf) = 0
                /\ \A i \in 1 .. Len(given) : Last(given[i]) = Stop

(* A text without its white space.                                         *)
Ink[s \in Seq(Char)] ==
    IF s = <<>> THEN <<>> ELSE
    IF Last(s) = Space THEN Ink[Front(s)] ELSE Append(Ink[Front(s)], Last(s))

(* chunk_text neither loses nor repeats nor reorders a character; every    *)
(* chunk but the last ends with a sentence, and joined by blanks the       *)
(* chunks have the sentences of the text, so no sentence is split or       *)
(* merged; and a chunk is never longer than max_chars unless it is a       *)
(* single sentence.                                                        *)
ChunksKeepTheText ==
    \A max \in Limits :
        LET chunks == ChunkText(text, max) IN
        /\ Ink[Joined[chunks]] = Ink[text]
        /\ chunks # <<>> => Sentences[Joined[chunks]] = Sentences[Strip(text)]
        /\ \A i \in DOMAIN chunks :
             /\ chunks[i] # <<>>
             /\ Len(chunks[i]) <= max \/ Len(Sentences[chunks[i]]) = 1
             /\ i < Len(chunks) => Last(chunks[i]) = Stop
=============================================================================
