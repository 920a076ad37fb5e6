------------------------------ MODULE Chunking ------------------------------
(***************************************************************************)
(* chunk_text of backends/_chunking.py, which every in-process backend     *)
(* calls to split a text into groups of whole sentences.                   *)
(*                                                                         *)
(* Abstraction.  A text is a sequence over an alphabet in which only three *)
(* sorts of character differ: those that end a sentence ([.!?]), white     *)
(* space, and all others.                                                  *)
(***************************************************************************)
EXTENDS Integers, SequencesExt, FiniteSetsExt

Stop  == "."
Space == " "
Char  == {"a", Stop, Space}

(* str.strip()                                                             *)
Strip(s) ==
    LET ink == {i \in 1 .. Len(s) : s[i] # Space} IN
    IF ink = {} THEN <<>> ELSE SubSeq(s, Min(ink), Max(ink))

(* White space that follows a stop ends a sentence: where it begins and    *)
(* where it ends.                                                          *)
GapStarts(s) == {i \in 2 .. Len(s) : s[i] = Space /\ s[i - 1] = Stop}
GapEnd(s, i) == Max({j \in i .. Len(s) : \A k \in i .. j : s[k] = Space})

(* re.split("(?<=[.!?])\s+", s)                                            *)
Sentences[s \in Seq(Char)] ==
    IF GapStarts(s) = {} THEN <<s>> ELSE
    LET gap == Min(GapStarts(s)) IN
    <<SubSeq(s, 1, gap - 1)>> \o Sentences[SubSeq(s, GapEnd(s, gap) + 1, Len(s))]

(* " ".join(ss)                                                            *)
Joined[ss \in Seq(Seq(Char))] ==
    IF ss = <<>> THEN <<>> ELSE
    IF Len(ss) = 1 THEN ss[1] ELSE Joined[Front(ss)] \o <<Space>> \o Last(ss)

(* Faulty variant: the blank that joins two sentences is not counted.      *)
GroupUncounted(g, s, max) ==
    IF g.current # <<>> /\ g.len + Len(s) - 1 > max
      THEN [chunks |-> Append(g.chunks, Joined[g.current]),
            current |-> <<s>>, len |-> Len(s)]
      ELSE [g EXCEPT !.current = Append(@, s), !.len = @ + Len(s)]

(* The body of the loop: a sentence joins the current chunk or begins one. *)
Group(g, s, max) ==
    IF g.current # <<>> /\ g.len + Len(s) + 1 > max
      THEN [chunks |-> Append(g.chunks, Joined[g.current]),
            current |-> <<s>>, len |-> Len(s)]
      ELSE [g EXCEPT !.current = Append(@, s), !.len = @ + Len(s) + 1]

(* The loop over the sentences: group[i] is where it is after i of them.   *)
Grouped(ss, max) ==
    LET group[i \in 0 .. Len(ss)] ==
          IF i = 0 THEN [chunks |-> <<>>, current |-> <<>>, len |-> 0]
                   ELSE Group(group[i - 1], ss[i], max)
    IN  group[Len(ss)]

ChunkText(text, max) ==
    IF Strip(text) = <<>> THEN <<>> ELSE
    LET grouped == Grouped(Sentences[Strip(text)], max)
    IN  Append(grouped.chunks, Joined[grouped.current])
=============================================================================
