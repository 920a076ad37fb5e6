---------------------------- MODULE PiecesProofs ----------------------------
(***************************************************************************)
(* Proofs about the three algorithms that take a speech apart and put it   *)
(* together: SentenceBuffer with chunk_text, the tokens of orpheus and the *)
(* chunks of the higgs stream, for texts, speeches, pieces and bounds of   *)
(* any size.                                                               *)
(*                                                                         *)
(* Their operators are recursive functions.  The library's theorem that a  *)
(* set has an element minimal in a well-founded order, WFMin, gives the    *)
(* induction they need: over numbers, over sequences from their end, over  *)
(* the gaps between sentences and over lists of sentences.  Each comes as  *)
(* a lemma on a set T that holds what is proved of an element.             *)
(***************************************************************************)
EXTENDS SentenceBuffer, OrpheusTokens, HiggsStream,
        SequenceTheorems, FiniteSetTheorems, WellFoundedInduction, TLAPS

-----------------------------------------------------------------------------
(* Induction and recursion.                                                *)

(* Induction over numbers, from the library's theorem on minimal elements. *)
Less == {p \in Nat \X Nat : p[1] < p[2]}

(* Numbers have no infinite descent.                                       *)
LEMMA LessIsWellFounded == IsWellFoundedOn(Less, Nat)
<1>1. Less = OpToRel(<, Nat)
  BY DEF OpToRel, Less
<1> QED BY <1>1, NatLessThanWellFounded

(* A set of numbers has a least one.                                       *)
LEMMA LeastNumber ==
    ASSUME NEW T \in SUBSET Nat, T # {}
    PROVE  \E x \in T : \A y \in T : x <= y
<1>1. \E x \in T : \A y \in T : ~(<<y, x>> \in Less)
  BY LessIsWellFounded, WFMin
<1>2. ASSUME NEW x \in Nat, NEW y \in Nat, ~(<<y, x>> \in Less)
      PROVE  x <= y
  <2>1. <<y, x>> \in Nat \X Nat /\ <<y, x>>[1] = y /\ <<y, x>>[2] = x
    OBVIOUS
  <2>2. ~(y < x)
    BY <2>1, <1>2 DEF Less
  <2> QED BY <2>2
<1> QED BY <1>1, <1>2

(* Induction over the natural numbers, for sets.                           *)
LEMMA Induction ==
    ASSUME NEW S, 0 \in S, \A n \in Nat : n \in S => n + 1 \in S
    PROVE  \A n \in Nat : n \in S
<1>1. SUFFICES ASSUME {n \in Nat : n \notin S} # {} PROVE FALSE
  OBVIOUS
<1>2. PICK m \in {n \in Nat : n \notin S} : \A y \in {n \in Nat : n \notin S} : m <= y
  BY <1>1, LeastNumber
<1>3. m - 1 \in Nat /\ m - 1 \in S
  BY <1>2
<1> QED BY <1>2, <1>3

(* A function may be defined by recursion whose argument decreases.        *)
Decreases(D, size, Stops, rest) ==
    /\ size \in [D -> Nat] /\ rest \in [D -> D]
    /\ \A d \in D : d \notin Stops => size[rest[d]] < size[d]

Recursive(D, X, size, Stops, base, rest, step) ==
    /\ Decreases(D, size, Stops, rest)
    /\ base \in [D -> X] /\ step \in [D \X X -> X]

Solves(f, D, X, Stops, base, rest, step) ==
    /\ f \in [D -> X]
    /\ \A d \in D : f[d] = IF d \in Stops THEN base[d] ELSE step[<<d, f[rest[d]]>>]

(* Such a recursion has a solution: CHOOSE finds a function.               *)
LEMMA Recursion ==
    ASSUME NEW D, NEW X, NEW size, NEW Stops, NEW base, NEW rest, NEW step,
           Recursive(D, X, size, Stops, base, rest, step)
    PROVE  \E f : Solves(f, D, X, Stops, base, rest, step)
<1> USE DEF Decreases, Recursive
<1> DEFINE Value(f, d) == IF d \in Stops THEN base[d] ELSE step[<<d, f[rest[d]]>>]
           Upto(f, n)  == \A d \in D : size[d] < n => f[d] = Value(f, d)
           Reached     == {n \in Nat : \E f \in [D -> X] : Upto(f, n)}
<1>0. ASSUME NEW f \in [D -> X], NEW d \in D PROVE Value(f, d) \in X
  <2>1. rest[d] \in D /\ f[rest[d]] \in X /\ base[d] \in X
    BY <1>0
  <2>2. <<d, f[rest[d]]>> \in D \X X
    BY <2>1
  <2> QED BY <2>1, <2>2
<1>1. \A n \in Nat : n \in Reached
  <2>1. 0 \in Reached
    <3>1. base \in [D -> X] /\ Upto(base, 0)
      OBVIOUS
    <3> QED BY <3>1
  <2>2. ASSUME NEW n \in Nat, n \in Reached PROVE n + 1 \in Reached
    <3>1. PICK f \in [D -> X] : Upto(f, n)
      BY <2>2
    <3> DEFINE g == [d \in D |-> Value(f, d)]
    <3>2. g \in [D -> X]
      BY <1>0
    <3>3. ASSUME NEW d \in D, size[d] < n + 1 PROVE g[d] = Value(g, d)
      <4>1. g[d] = Value(f, d)
        OBVIOUS
      <4>2. CASE d \in Stops
        BY <4>1, <4>2
      <4>3. CASE d \notin Stops
        <5>1. rest[d] \in D /\ size[rest[d]] < n /\ size[rest[d]] \in Nat
          BY <4>3, <3>3
        <5>2. f[rest[d]] = Value(f, rest[d])
          BY <5>1, <3>1
        <5>3. g[rest[d]] = f[rest[d]]
          BY <5>1, <5>2
        <5> QED BY <4>1, <5>3
      <4> QED BY <4>2, <4>3
    <3>4. Upto(g, n + 1)
      BY <3>3
    <3> HIDE DEF g, Upto
    <3> QED BY <3>2, <3>4
  <2> HIDE DEF Reached
  <2> QED BY <2>1, <2>2, Induction
<1>2. ASSUME NEW f \in [D -> X], NEW g \in [D -> X], NEW n \in Nat, Upto(f, n), Upto(g, n)
      PROVE  \A d \in D : size[d] < n => f[d] = g[d]
  <2> DEFINE Same == {k \in Nat : \A d \in D : size[d] < k /\ k <= n => f[d] = g[d]}
  <2>1. 0 \in Same
    OBVIOUS
  <2>2. ASSUME NEW k \in Nat, k \in Same PROVE k + 1 \in Same
    <3>1. SUFFICES ASSUME NEW d \in D, size[d] < k + 1, k + 1 <= n PROVE f[d] = g[d]
      OBVIOUS
    <3>2. size[d] \in Nat /\ size[d] < n
      BY <3>1
    <3>3. f[d] = Value(f, d) /\ g[d] = Value(g, d)
      BY <1>2, <3>2
    <3>4. CASE d \in Stops
      BY <3>3, <3>4
    <3>5. CASE d \notin Stops
      <4>1. rest[d] \in D /\ size[rest[d]] \in Nat /\ size[rest[d]] < k
        BY <3>1, <3>2, <3>5
      <4>2. f[rest[d]] = g[rest[d]]
        BY <4>1, <2>2, <3>1
      <4> QED BY <3>3, <4>2
    <3> QED BY <3>4, <3>5
  <2>3. n \in Same
    <3> HIDE DEF Same
    <3> QED BY <2>1, <2>2, Induction
  <2> QED BY <2>3
<1> DEFINE Stage(n) == CHOOSE f \in [D -> X] : Upto(f, n)
<1>3. ASSUME NEW n \in Nat PROVE Stage(n) \in [D -> X] /\ Upto(Stage(n), n)
  <2>1. \E f \in [D -> X] : Upto(f, n)
    BY <1>1
  <2> HIDE DEF Upto
  <2> QED BY <2>1
<1> DEFINE f == [d \in D |-> Stage(size[d] + 1)[d]]
<1>4. ASSUME NEW d \in D
      PROVE  size[d] + 1 \in Nat /\ Stage(size[d] + 1) \in [D -> X]
             /\ Upto(Stage(size[d] + 1), size[d] + 1)
  <2>1. size[d] + 1 \in Nat
    OBVIOUS
  <2> HIDE DEF Stage, Upto
  <2> QED BY <2>1, <1>3
<1>5. f \in [D -> X]
  <2> HIDE DEF Stage, Upto
  <2>1. \A d \in D : Stage(size[d] + 1)[d] \in X
    BY <1>4
  <2> QED BY <2>1
<1>6. ASSUME NEW d \in D PROVE f[d] = Value(f, d)
  <2> DEFINE h == Stage(size[d] + 1)
  <2>1. h \in [D -> X] /\ Upto(h, size[d] + 1) /\ size[d] \in Nat
    BY <1>4
  <2>2. f[d] = h[d]
    OBVIOUS
  <2>3. h[d] = Value(h, d)
    <3> HIDE DEF h, f
    <3> QED BY <2>1
  <2>4. CASE d \in Stops
    BY <2>2, <2>3, <2>4
  <2>5. CASE d \notin Stops
    <3> DEFINE e == rest[d]
               k == Stage(size[e] + 1)
    <3>1. e \in D /\ size[e] \in Nat /\ size[e] < size[d]
      BY <2>5
    <3>2. k \in [D -> X] /\ Upto(k, size[e] + 1)
      BY <3>1, <1>4
    <3>3. f[e] = k[e]
      BY <3>1
    <3>4. Upto(h, size[e] + 1)
      <4> HIDE DEF h, e
      <4> QED BY <2>1, <3>1
    <3>5. k[e] = h[e]
      <4> HIDE DEF h, k, e, f, Upto
      <4> QED BY <3>1, <3>2, <3>4, <2>1, <1>2
    <3>6. f[e] = h[e]
      BY <3>3, <3>5
    <3> HIDE DEF f, h, k, Stage
    <3> QED BY <2>2, <2>3, <2>5, <3>6
  <2> QED BY <2>4, <2>5
<1>7. \A d \in D : f[d] = Value(f, d)
  BY <1>6
<1> HIDE DEF f
<1> QED BY <1>5, <1>7 DEF Solves

(* Two functions of the same recursion agree. *)
LEMMA Agreement ==
    ASSUME NEW D, NEW size, NEW Stops, NEW rest, NEW f, NEW g,
           Decreases(D, size, Stops, rest),
           \A d \in D : d \in Stops \/ f[rest[d]] = g[rest[d]] => f[d] = g[d]
    PROVE  \A d \in D : f[d] = g[d]
<1> USE DEF Decreases
<1> DEFINE Same == {n \in Nat : \A d \in D : size[d] < n => f[d] = g[d]}
<1>1. 0 \in Same
  OBVIOUS
<1>2. ASSUME NEW n \in Nat, n \in Same PROVE n + 1 \in Same
  <2>1. SUFFICES ASSUME NEW d \in D, size[d] < n + 1 PROVE f[d] = g[d]
    OBVIOUS
  <2>2. CASE d \in Stops
    BY <2>2
  <2>3. CASE d \notin Stops
    <3>1. rest[d] \in D /\ size[rest[d]] \in Nat /\ size[rest[d]] < n
      BY <2>1, <2>3
    <3>2. f[rest[d]] = g[rest[d]]
      BY <3>1, <1>2
    <3> QED BY <3>2
  <2> QED BY <2>2, <2>3
<1>3. \A n \in Nat : n \in Same
  <2> HIDE DEF Same
  <2> QED BY <1>1, <1>2, Induction
<1>4. ASSUME NEW d \in D PROVE f[d] = g[d]
  <2>1. size[d] + 1 \in Nat /\ size[d] < size[d] + 1
    OBVIOUS
  <2> QED BY <2>1, <1>3
<1> QED BY <1>4

(* A loop over the numbers up to n.                                        *)
LoopSolves(f, n, X, initial, step) ==
    /\ f \in [0 .. n -> X]
    /\ f[0] = initial
    /\ \A i \in 1 .. n : f[i] = step[<<i, f[i - 1]>>]

(* A loop has its values.                                                  *)
LEMMA Loop ==
    ASSUME NEW n \in Nat, NEW X, NEW initial \in X, NEW step, step \in [(1 .. n) \X X -> X]
    PROVE  \E f : LoopSolves(f, n, X, initial, step)
<1> DEFINE D == 0 .. n
           size == [i \in D |-> i]
           base == [i \in D |-> initial]
           Stops == {0}
           rest == [i \in D |-> IF i = 0 THEN 0 ELSE i - 1]
           all  == [p \in D \X X |-> IF p[1] = 0 THEN initial ELSE step[p]]
<1>1. Decreases(D, size, Stops, rest) /\ base \in [D -> X]
  BY DEF Decreases
<1>2. all \in [D \X X -> X]
  <2>1. ASSUME NEW p \in D \X X PROVE (IF p[1] = 0 THEN initial ELSE step[p]) \in X
    <3>1. p[1] # 0 => p \in (1 .. n) \X X
      <4>1. p[1] \in D /\ p[2] \in X /\ p = <<p[1], p[2]>>
        OBVIOUS
      <4>2. p[1] # 0 => p[1] \in 1 .. n
        BY <4>1
      <4> QED BY <4>1, <4>2
    <3> QED BY <3>1
  <2> QED BY <2>1
<1>3. PICK f : Solves(f, D, X, Stops, base, rest, all)
  <2> HIDE DEF D, size, base, rest, all, Stops
  <2>1. Recursive(D, X, size, Stops, base, rest, all)
    BY <1>1, <1>2 DEF Recursive
  <2> QED BY <2>1, Recursion
<1>4. f \in [D -> X] /\ \A i \in D : f[i] = IF i \in Stops THEN base[i] ELSE all[<<i, f[rest[i]]>>]
  <2> HIDE DEF D, base, rest, all, Stops
  <2> QED BY <1>3 DEF Solves
<1>5. ASSUME NEW i \in 1 .. n PROVE f[i] = step[<<i, f[i - 1]>>]
  <2>1. i \in D /\ i # 0 /\ i - 1 \in D /\ rest[i] = i - 1
    OBVIOUS
  <2>2. f[i - 1] \in X
    BY <2>1, <1>4
  <2>3. <<i, f[i - 1]>> \in D \X X
    BY <2>1, <2>2
  <2>4. all[<<i, f[i - 1]>>] = step[<<i, f[i - 1]>>]
    BY <2>1, <2>3
  <2>5. f[i] = all[<<i, f[rest[i]]>>]
    BY <2>1, <1>4
  <2> QED BY <2>1, <2>4, <2>5
<1>6. f[0] = initial
  <2>1. 0 \in D /\ 0 \in Stops /\ base[0] = initial
    OBVIOUS
  <2> HIDE DEF D, base, rest, all, Stops
  <2> QED BY <1>4, <2>1
<1> QED BY <1>4, <1>5, <1>6 DEF LoopSolves

-----------------------------------------------------------------------------
(* Sequences, and texts as sequences of characters.                        *)

LEMMA MinIs ==
    ASSUME NEW T \in SUBSET Nat, T # {}
    PROVE  Min(T) \in T /\ \A y \in T : Min(T) <= y
<1>1. \E x \in T : \A y \in T : x <= y
  BY LeastNumber
<1> QED BY <1>1 DEF Min

LEMMA MaxIs ==
    ASSUME NEW n \in Nat, NEW T \in SUBSET (0 .. n), T # {}
    PROVE  Max(T) \in T /\ \A y \in T : Max(T) >= y
<1> DEFINE U == {u \in Nat : u <= n /\ n - u \in T}
<1>1. U \in SUBSET Nat /\ U # {}
  <2>1. PICK x \in T : TRUE
    OBVIOUS
  <2>2. n - x \in U
    BY <2>1
  <2> QED BY <2>2
<1>2. PICK u \in U : \A v \in U : u <= v
  BY <1>1, LeastNumber
<1>3. ASSUME NEW y \in T PROVE n - u >= y
  <2>1. n - y \in U
    OBVIOUS
  <2>2. u <= n - y
    BY <1>2, <2>1
  <2> QED BY <2>2
<1>4. \E x \in T : \A y \in T : x >= y
  BY <1>3
<1> QED BY <1>4 DEF Max

(* A text of white space, and one without any at its ends.                 *)
Blank(s) == \A i \in 1 .. Len(s) : s[i] = Space
Clean(t) == t # <<>> => t[1] # Space /\ t[Len(t)] # Space

(* Facts of sequences of characters. *)
LEMMA TextIs ==
    ASSUME NEW s \in Seq(Char)
    PROVE  /\ Len(s) \in Nat /\ DOMAIN s = 1 .. Len(s)
           /\ \A i \in 1 .. Len(s) : s[i] \in Char
           /\ s = <<>> <=> Len(s) = 0
           /\ s \o <<>> = s /\ <<>> \o s = s
  BY EmptySeq, LenProperties, ConcatEmptySeq

(* A part of a sequence.                                                   *)
LEMMA PartIs ==
    ASSUME NEW S, NEW s \in Seq(S), NEW m \in 1 .. Len(s) + 1, NEW n \in 0 .. Len(s), m <= n + 1
    PROVE  /\ SubSeq(s, m, n) \in Seq(S)
           /\ Len(SubSeq(s, m, n)) = n - m + 1
           /\ \A i \in 1 .. n - m + 1 : SubSeq(s, m, n)[i] = s[m + i - 1]
<1>1. \A i \in m .. n : s[i] \in S
  BY ElementOfSeq
<1>2. m \in Int /\ n \in Int
  OBVIOUS
<1> QED BY <1>1, <1>2, SubSeqProperties

(* A sequence cut at n.                                                    *)
LEMMA CutInTwo ==
    ASSUME NEW S, NEW s \in Seq(S), NEW n \in 0 .. Len(s)
    PROVE  s = SubSeq(s, 1, n) \o SubSeq(s, n + 1, Len(s))
<1>1. Len(s) \in Nat
  BY LenProperties
<1>2. SubSeq(s, 1, n) \o SubSeq(s, n + 1, Len(s)) = SubSeq(s, 1, Len(s))
  <2>1. 1 \in 1 .. Len(s) + 1 /\ n \in 1 - 1 .. Len(s) /\ Len(s) \in n .. Len(s)
    BY <1>1
  <2> QED BY <2>1, ConcatAdjacentSubSeq
<1>3. SubSeq(s, 1, Len(s)) = s
  BY SubSeqFull
<1> QED BY <1>2, <1>3

(* A sequence without its last element.                                    *)
LEMMA FrontIs ==
    ASSUME NEW S, NEW s \in Seq(S), s # <<>>
    PROVE  /\ Front(s) \in Seq(S) /\ Len(Front(s)) = Len(s) - 1 /\ Len(s) \in Nat \ {0}
           /\ Last(s) \in S
           /\ s = Front(s) \o <<Last(s)>> /\ s = Append(Front(s), Last(s))
           /\ \A i \in 1 .. Len(s) - 1 : Front(s)[i] = s[i]
<1>1. Len(s) \in Nat \ {0}
  BY EmptySeq
<1>2. /\ SubSeq(s, 1, Len(s) - 1) \in Seq(S) /\ Len(SubSeq(s, 1, Len(s) - 1)) = Len(s) - 1
      /\ \A i \in 1 .. Len(s) - 1 : SubSeq(s, 1, Len(s) - 1)[i] = s[i]
  <2>1. 1 \in 1 .. Len(s) + 1 /\ Len(s) - 1 \in 0 .. Len(s) /\ 1 <= Len(s) - 1 + 1
    BY <1>1
  <2>2. /\ SubSeq(s, 1, Len(s) - 1) \in Seq(S)
        /\ Len(SubSeq(s, 1, Len(s) - 1)) = Len(s) - 1 - 1 + 1
        /\ \A i \in 1 .. Len(s) - 1 - 1 + 1 : SubSeq(s, 1, Len(s) - 1)[i] = s[1 + i - 1]
    BY <2>1, PartIs
  <2> QED BY <2>2, <1>1
<1>3. s[Len(s)] \in S
  BY <1>1, ElementOfSeq
<1>4. s = SubSeq(s, 1, Len(s) - 1) \o <<s[Len(s)]>>
  <2>1. SubSeq(s, 1, Len(s)) = SubSeq(s, 1, Len(s) - 1) \o <<s[Len(s)]>>
    BY <1>1, SubSeqRecursiveSecond
  <2> QED BY <2>1, SubSeqFull
<1>5. Append(SubSeq(s, 1, Len(s) - 1), s[Len(s)]) = SubSeq(s, 1, Len(s) - 1) \o <<s[Len(s)]>>
  BY <1>2, <1>3, AppendIsConcat
<1> QED BY <1>1, <1>2, <1>3, <1>4, <1>5 DEF Front, Last

LEMMA FrontOfAppend ==
    ASSUME NEW S, NEW s \in Seq(S), NEW e \in S
    PROVE  /\ s \o <<e>> \in Seq(S) /\ s \o <<e>> # <<>> /\ Len(s \o <<e>>) = Len(s) + 1
           /\ Front(s \o <<e>>) = s /\ Last(s \o <<e>>) = e
<1>1. /\ Append(s, e) \in Seq(S) /\ Append(s, e) # <<>> /\ Len(Append(s, e)) = Len(s) + 1
      /\ \A i \in 1 .. Len(s) : Append(s, e)[i] = s[i]
      /\ Append(s, e)[Len(s) + 1] = e
      /\ Append(s, e) = s \o <<e>>
  BY AppendProperties, AppendIsConcat
<1> DEFINE t == Append(s, e)
<1>2. /\ Front(t) \in Seq(S) /\ Len(Front(t)) = Len(t) - 1
      /\ \A i \in 1 .. Len(t) - 1 : Front(t)[i] = t[i]
  BY <1>1, FrontIs
<1>3. Len(s) \in Nat
  BY LenProperties
<1>4. Front(t) = s
  <2>1. Len(Front(t)) = Len(s)
    BY <1>1, <1>2, <1>3
  <2>2. \A i \in 1 .. Len(s) : Front(t)[i] = s[i]
    BY <1>1, <1>2, <1>3
  <2> HIDE DEF t
  <2> QED BY <1>2, <2>1, <2>2, SeqEqual
<1>5. Last(t) = e
  BY <1>1 DEF Last
<1> QED BY <1>1, <1>4, <1>5

(* Induction and recursion over a sequence from its end.                   *)
LEMMA FrontInduction ==
    ASSUME NEW S, NEW T, <<>> \in T,
           \A s \in Seq(S), e \in S : s \in T => s \o <<e>> \in T
    PROVE  \A s \in Seq(S) : s \in T
<1> DEFINE Ok == {n \in Nat : \A s \in Seq(S) : Len(s) = n => s \in T}
<1>1. 0 \in Ok
  BY EmptySeq
<1>2. ASSUME NEW n \in Nat, n \in Ok PROVE n + 1 \in Ok
  <2>1. SUFFICES ASSUME NEW s \in Seq(S), Len(s) = n + 1 PROVE s \in T
    OBVIOUS
  <2>2. s # <<>>
    BY <2>1, EmptySeq
  <2>3. Front(s) \in Seq(S) /\ Len(Front(s)) = n /\ Last(s) \in S /\ s = Front(s) \o <<Last(s)>>
    BY <2>1, <2>2, FrontIs
  <2>4. Front(s) \in T
    BY <1>2, <2>3
  <2> QED BY <2>3, <2>4
<1>3. \A n \in Nat : n \in Ok
  <2> HIDE DEF Ok
  <2> QED BY <1>1, <1>2, Induction
<1> QED BY <1>3, LenProperties

(* The functions that are defined by their value at Front(s).              *)
FrontSolves(f, S, X, initial, step) ==
    /\ f \in [Seq(S) -> X]
    /\ f[<<>>] = initial
    /\ \A s \in Seq(S) : s # <<>> => f[s] = step[<<s, f[Front(s)]>>]

LEMMA FrontRecursion ==
    ASSUME NEW S, NEW X, NEW initial \in X, NEW step, step \in [Seq(S) \X X -> X]
    PROVE  \E f : FrontSolves(f, S, X, initial, step)
<1> DEFINE D == Seq(S)
           size == [s \in D |-> Len(s)]
           Stops == {<<>>}
           base == [s \in D |-> initial]
           rest == [s \in D |-> IF s = <<>> THEN <<>> ELSE Front(s)]
<1>1. size \in [D -> Nat] /\ base \in [D -> X]
  BY LenProperties
<1>2. ASSUME NEW s \in D, s # <<>>
      PROVE  Front(s) \in D /\ rest[s] = Front(s) /\ size[Front(s)] < size[s]
  <2>1. Front(s) \in D /\ Len(Front(s)) = Len(s) - 1 /\ Len(s) \in Nat
    BY <1>2, FrontIs
  <2> QED BY <2>1, <1>2
<1>3. Decreases(D, size, Stops, rest)
  <2>1. <<>> \in D
    BY EmptySeq
  <2>2. \A s \in D : (IF s = <<>> THEN <<>> ELSE Front(s)) \in D
    BY <1>2, <2>1
  <2>3. rest \in [D -> D]
    BY <2>2
  <2>4. \A s \in D : s \notin Stops => size[rest[s]] < size[s]
    BY <1>2
  <2> QED BY <1>1, <2>3, <2>4 DEF Decreases
<1>4. PICK f : Solves(f, D, X, Stops, base, rest, step)
  <2>1. step \in [D \X X -> X]
    OBVIOUS
  <2> HIDE DEF D, size, Stops, base, rest
  <2> QED BY <1>1, <1>3, <2>1, Recursion DEF Recursive
<1>5. /\ f \in [D -> X]
      /\ \A s \in D : f[s] = IF s \in Stops THEN base[s] ELSE step[<<s, f[rest[s]]>>]
  <2> HIDE DEF D, Stops, base, rest
  <2> QED BY <1>4 DEF Solves
<1>6. f[<<>>] = initial
  BY <1>5, EmptySeq
<1>7. ASSUME NEW s \in D, s # <<>> PROVE f[s] = step[<<s, f[Front(s)]>>]
  BY <1>5, <1>7, <1>2
<1> QED BY <1>5, <1>6, <1>7 DEF FrontSolves

(* A text without its white space.                                         *)
LEMMA InkIs ==
    /\ Ink \in [Seq(Char) -> Seq(Char)]
    /\ Ink[<<>>] = <<>>
    /\ \A s \in Seq(Char), c \in Char :
         Ink[s \o <<c>>] = IF c = Space THEN Ink[s] ELSE Ink[s] \o <<c>>
<1> DEFINE D == Seq(Char)
           Made(s, t) == IF Last(s) = Space THEN t ELSE Append(t, Last(s))
           step == [p \in D \X D |-> IF p[1] = <<>> THEN p[2] ELSE Made(p[1], p[2])]
           Body(f, s) == IF s = <<>> THEN <<>> ELSE
                         IF Last(s) = Space THEN f[Front(s)] ELSE Append(f[Front(s)], Last(s))
<1>1. step \in [D \X D -> D]
  <2>1. ASSUME NEW p \in D \X D
        PROVE  (IF p[1] = <<>> THEN p[2] ELSE Made(p[1], p[2])) \in D
    <3>1. p[1] \in D /\ p[2] \in D
      OBVIOUS
    <3>2. p[1] # <<>> => Last(p[1]) \in Char
      BY <3>1, FrontIs
    <3> QED BY <3>1, <3>2, AppendProperties
  <2> HIDE DEF Made
  <2> QED BY <2>1
<1>2. PICK f : FrontSolves(f, Char, D, <<>>, step)
  <2>1. <<>> \in D
    BY EmptySeq
  <2> HIDE DEF step
  <2> QED BY <1>1, <2>1, FrontRecursion
<1>3. f = [s \in D |-> Body(f, s)]
  <2>1. ASSUME NEW s \in D PROVE f[s] = Body(f, s)
    <3>1. CASE s = <<>>
      BY <1>2, <3>1 DEF FrontSolves
    <3>2. CASE s # <<>>
      <4>1. Front(s) \in D
        BY <3>2, FrontIs
      <4>2. f[s] = step[<<s, f[Front(s)]>>] /\ f[Front(s)] \in D
        <5> HIDE DEF step
        <5> QED BY <1>2, <3>2, <4>1 DEF FrontSolves
      <4>3. <<s, f[Front(s)]>> \in D \X D
        BY <4>2
      <4> QED BY <4>2, <4>3, <3>2
    <3> QED BY <3>1, <3>2
  <2>2. f = [s \in D |-> f[s]]
    BY <1>2 DEF FrontSolves
  <2> HIDE DEF D, Body
  <2> QED BY <2>1, <2>2
<1>4. Ink = [s \in D |-> Body(Ink, s)]
  BY <1>3 DEF Ink
<1>5. \A s \in D : Ink[s] = Body(Ink, s)
  <2> HIDE DEF D, Body
  <2> QED BY <1>4
<1>6. Ink[<<>>] = <<>>
  BY <1>5, EmptySeq
<1>7. ASSUME NEW s \in D, NEW c \in Char
      PROVE  Ink[s \o <<c>>] = IF c = Space THEN Ink[s] ELSE Append(Ink[s], c)
  <2>1. /\ s \o <<c>> \in D /\ s \o <<c>> # <<>>
        /\ Front(s \o <<c>>) = s /\ Last(s \o <<c>>) = c
    BY FrontOfAppend
  <2> QED BY <2>1, <1>5
<1>8. \A s \in D : Ink[s] \in D
  <2> DEFINE T == {s \in D : Ink[s] \in D}
  <2>1. <<>> \in T
    BY <1>6, EmptySeq
  <2>2. ASSUME NEW s \in D, NEW c \in Char, s \in T PROVE s \o <<c>> \in T
    <3>1. s \o <<c>> \in D /\ Ink[s] \in D
      BY <2>2, FrontOfAppend
    <3>2. Ink[s \o <<c>>] = Ink[s] \/ Ink[s \o <<c>>] = Append(Ink[s], c)
      BY <1>7
    <3>3. Ink[s \o <<c>>] \in D
      BY <3>1, <3>2, AppendProperties, ZenonT(30)
    <3> QED BY <3>1, <3>3
  <2>3. \A s \in D : s \in T
    <3> HIDE DEF T
    <3> QED BY <2>1, <2>2, FrontInduction
  <2> QED BY <2>3
<1>9. Ink \in [D -> D]
  <2> HIDE DEF D, Body
  <2> QED BY <1>4, <1>8
<1> QED BY <1>6, <1>7, <1>8, <1>9, AppendIsConcat

(* The texts under concatenation.                                          *)
LEMMA Assoc == \A x, y, z \in Seq(Char) : (x \o y) \o z = x \o (y \o z)
  BY ConcatAssociative

LEMMA Closed == \A x, y \in Seq(Char) : x \o y \in Seq(Char)
  BY ConcatProperties

(* Ink is kept by concatenation, and white space has none.                 *)
LEMMA InkConcat ==
    ASSUME NEW a \in Seq(Char)
    PROVE  \A b \in Seq(Char) : Ink[a \o b] = Ink[a] \o Ink[b]
<1> DEFINE T == {b \in Seq(Char) : Ink[a \o b] = Ink[a] \o Ink[b]}
<1>1. <<>> \in T
  <2>1. Ink[a] \in Seq(Char)
    BY InkIs
  <2>2. a \o <<>> = a /\ Ink[a] \o <<>> = Ink[a]
    BY <2>1, ConcatEmptySeq
  <2> QED BY <2>2, InkIs, EmptySeq
<1>2. ASSUME NEW b \in Seq(Char), NEW c \in Char, b \in T PROVE b \o <<c>> \in T
  <2>1. /\ b \o <<c>> \in Seq(Char) /\ a \o b \in Seq(Char) /\ <<c>> \in Seq(Char)
        /\ Ink[a] \in Seq(Char) /\ Ink[b] \in Seq(Char)
    BY InkIs, FrontOfAppend, ConcatProperties
  <2>2. a \o (b \o <<c>>) = (a \o b) \o <<c>>
    BY <2>1, ConcatAssociative
  <2>3. Ink[a \o b] = Ink[a] \o Ink[b]
    BY <1>2
  <2>4. CASE c = Space
    BY <2>1, <2>2, <2>3, <2>4, InkIs
  <2>5. CASE c # Space
    <3>1. Ink[(a \o b) \o <<c>>] = (Ink[a] \o Ink[b]) \o <<c>>
      BY <2>1, <2>3, <2>5, InkIs
    <3>2. Ink[b \o <<c>>] = Ink[b] \o <<c>>
      BY <2>5, InkIs
    <3>3. (Ink[a] \o Ink[b]) \o <<c>> = Ink[a] \o (Ink[b] \o <<c>>)
      <4> DEFINE x == Ink[a]
                 y == Ink[b]
                 d == <<c>>
      <4>1. x \in Seq(Char) /\ y \in Seq(Char) /\ d \in Seq(Char)
        BY <2>1
      <4> HIDE DEF x, y, d
      <4>2. (x \o y) \o d = x \o (y \o d)
        BY <4>1, Assoc
      <4> QED BY <4>2 DEF x, y, d
    <3> QED BY <2>1, <2>2, <3>1, <3>2, <3>3
  <2> QED BY <2>4, <2>5
<1> HIDE DEF T
<1>3. \A b \in Seq(Char) : b \in T
  BY <1>1, <1>2, FrontInduction
<1> QED BY <1>3 DEF T

LEMMA InkOfBlank ==
    \A b \in Seq(Char) : Blank(b) => Ink[b] = <<>>
<1> DEFINE T == {b \in Seq(Char) : Blank(b) => Ink[b] = <<>>}
<1>1. <<>> \in T
  BY InkIs, EmptySeq
<1>2. ASSUME NEW b \in Seq(Char), NEW c \in Char, b \in T PROVE b \o <<c>> \in T
  <2>1. /\ b \o <<c>> \in Seq(Char)
        /\ Len(b) \in Nat
        /\ Len(b \o <<c>>) = Len(b) + 1
        /\ \A i \in 1 .. Len(b) : (b \o <<c>>)[i] = b[i]
        /\ (b \o <<c>>)[Len(b) + 1] = c
    BY FrontOfAppend, AppendProperties, AppendIsConcat, LenProperties
  <2>2. Blank(b \o <<c>>) => Blank(b) /\ c = Space
    BY <2>1 DEF Blank
  <2> QED BY <2>1, <2>2, <1>2, InkIs
<1> HIDE DEF T
<1>3. \A b \in Seq(Char) : b \in T
  BY <1>1, <1>2, FrontInduction
<1> QED BY <1>3 DEF T

(* The sentences or the chunks of a text.                                  *)
Texts == Seq(Seq(Char))

(* What " ".join does with one more part, and that it keeps the ink.       *)
LEMMA JoinedIs ==
    /\ Joined \in [Texts -> Seq(Char)]
    /\ Joined[<<>>] = <<>>
    /\ \A s \in Seq(Char) : Joined[<<s>>] = s
    /\ \A ss \in Texts, s \in Seq(Char) : ss # <<>> =>
         Joined[ss \o <<s>>] = Joined[ss] \o <<Space>> \o s
<1> DEFINE D == Seq(Char)
           Made(ss, t) == t \o <<Space>> \o Last(ss)
           step == [p \in Texts \X D |-> IF p[1] = <<>> THEN <<>> ELSE
                                         IF Len(p[1]) = 1 THEN p[1][1] ELSE Made(p[1], p[2])]
           Body(f, ss) == IF ss = <<>> THEN <<>> ELSE
                          IF Len(ss) = 1 THEN ss[1] ELSE f[Front(ss)] \o <<Space>> \o Last(ss)
<1>0. <<Space>> \in D /\ <<>> \in D /\ <<>> \in Texts
  BY EmptySeq DEF Char, Texts
<1>1. step \in [Texts \X D -> D]
  <2>1. ASSUME NEW p \in Texts \X D
        PROVE  (IF p[1] = <<>> THEN <<>> ELSE
                IF Len(p[1]) = 1 THEN p[1][1] ELSE Made(p[1], p[2])) \in D
    <3>1. p[1] \in Texts /\ p[2] \in D
      OBVIOUS
    <3>2. p[1] # <<>> => Last(p[1]) \in D
      BY <3>1, FrontIs DEF Texts
    <3>3. p[1] # <<>> => Made(p[1], p[2]) \in D
      <4>1. p[2] \o <<Space>> \in D
        BY <3>1, <1>0, ConcatProperties
      <4> QED BY <4>1, <3>2, ConcatProperties
    <3>4. Len(p[1]) = 1 => p[1][1] = Last(p[1]) /\ p[1] # <<>>
      <4>1. Len(p[1]) = 1 => p[1][1] = p[1][Len(p[1])]
        OBVIOUS
      <4>2. p[1] = <<>> => Len(p[1]) # 1
        OBVIOUS
      <4> QED BY <4>1, <4>2 DEF Last
    <3> QED BY <3>1, <3>2, <3>3, <3>4, <1>0
  <2> HIDE DEF Made, D
  <2> QED BY <2>1
<1>2. PICK f : FrontSolves(f, Seq(Char), D, <<>>, step)
  <2> HIDE DEF step
  <2> QED BY <1>1, <1>0, FrontRecursion DEF Texts
<1>3. f = [ss \in Texts |-> Body(f, ss)]
  <2>1. ASSUME NEW ss \in Texts PROVE f[ss] = Body(f, ss)
    <3>1. CASE ss = <<>>
      BY <1>2, <3>1 DEF FrontSolves
    <3>2. CASE ss # <<>>
      <4>1. Front(ss) \in Texts
        BY <3>2, FrontIs DEF Texts
      <4>2. f[ss] = step[<<ss, f[Front(ss)]>>] /\ f[Front(ss)] \in D
        <5> HIDE DEF step
        <5> QED BY <1>2, <3>2, <4>1 DEF FrontSolves, Texts
      <4>3. <<ss, f[Front(ss)]>> \in Texts \X D
        BY <4>2
      <4> QED BY <4>2, <4>3, <3>2
    <3> QED BY <3>1, <3>2
  <2>2. f = [ss \in Texts |-> f[ss]]
    BY <1>2 DEF FrontSolves, Texts
  <2> HIDE DEF Body
  <2> QED BY <2>1, <2>2
<1>4. Joined = [ss \in Texts |-> Body(Joined, ss)]
  BY <1>3 DEF Joined, Texts
<1>5. \A ss \in Texts : Joined[ss] = Body(Joined, ss)
  <2> HIDE DEF Body
  <2> QED BY <1>4
<1>6. Joined[<<>>] = <<>>
  BY <1>5, <1>0
<1>7. ASSUME NEW s \in D PROVE Joined[<<s>>] = s
  <2>1. <<s>> \in Texts /\ Len(<<s>>) = 1 /\ <<s>> # <<>> /\ <<s>>[1] = s
    BY DEF Texts
  <2> QED BY <2>1, <1>5
<1>8. ASSUME NEW ss \in Texts, NEW s \in D, ss # <<>>
      PROVE  Joined[ss \o <<s>>] = Joined[ss] \o <<Space>> \o s
  <2>1. /\ ss \o <<s>> \in Texts /\ ss \o <<s>> # <<>> /\ Len(ss \o <<s>>) = Len(ss) + 1
        /\ Front(ss \o <<s>>) = ss /\ Last(ss \o <<s>>) = s
    BY FrontOfAppend DEF Texts
  <2>2. Len(ss) \in Nat \ {0}
    BY <1>8, EmptySeq DEF Texts
  <2> DEFINE tt == ss \o <<s>>
  <2>3. tt \in Texts /\ tt # <<>> /\ Len(tt) # 1 /\ Front(tt) = ss /\ Last(tt) = s
    BY <2>1, <2>2
  <2> HIDE DEF tt
  <2>4. Joined[tt] = Joined[ss] \o <<Space>> \o s
    BY <2>3, <1>5
  <2> QED BY <2>4 DEF tt
<1>9. \A ss \in Texts : Joined[ss] \in D
  <2> DEFINE T == {ss \in Texts : Joined[ss] \in D}
  <2>1. <<>> \in T
    BY <1>6, <1>0
  <2>2. ASSUME NEW ss \in Texts, NEW s \in D, ss \in T PROVE ss \o <<s>> \in T
    <3>1. ss \o <<s>> \in Texts /\ Joined[ss] \in D
      BY <2>2, FrontOfAppend DEF Texts
    <3>2. CASE ss = <<>>
      <4>1. ss \o <<s>> = <<s>>
        BY <3>2
      <4> QED BY <3>1, <4>1, <1>7
    <3>3. CASE ss # <<>>
      <4>1. Joined[ss] \o <<Space>> \in D
        BY <3>1, <1>0, ConcatProperties
      <4>2. Joined[ss \o <<s>>] \in D
        BY <4>1, <3>3, <1>8, ConcatProperties
      <4> QED BY <3>1, <4>2
    <3> QED BY <3>2, <3>3
  <2>3. \A ss \in Texts : ss \in T
    <3> HIDE DEF T
    <3> QED BY <2>1, <2>2, FrontInduction DEF Texts
  <2> QED BY <2>3
<1>10. Joined \in [Texts -> D]
  <2> HIDE DEF D, Body
  <2> QED BY <1>4, <1>9
<1> QED BY <1>6, <1>7, <1>8, <1>10

(* Two joined lists.                                                       *)
LEMMA JoinedConcat ==
    ASSUME NEW a \in Texts, a # <<>>
    PROVE  \A b \in Texts : b # <<>> =>
             Joined[a \o b] = Joined[a] \o (<<Space>> \o Joined[b])
<1> DEFINE T == {b \in Texts : b # <<>> =>
                   Joined[a \o b] = Joined[a] \o (<<Space>> \o Joined[b])}
<1>1. <<>> \in T
  BY EmptySeq DEF Texts
<1>2. ASSUME NEW b \in Texts, NEW s \in Seq(Char), b \in T PROVE b \o <<s>> \in T
  <2>1. /\ b \o <<s>> \in Texts /\ a \o b \in Texts /\ <<s>> \in Texts
        /\ Joined[a] \in Seq(Char) /\ Joined[b] \in Seq(Char) /\ <<Space>> \in Seq(Char)
    <3>1. b \o <<s>> \in Texts /\ a \o b \in Texts
      BY FrontOfAppend, ConcatProperties DEF Texts
    <3>2. <<s>> \in Texts
      BY DEF Texts
    <3>3. <<Space>> \in Seq(Char)
      BY DEF Char
    <3> QED BY <3>1, <3>2, <3>3, JoinedIs
  <2>2. CASE b = <<>>
    <3>1. b \o <<s>> = <<s>>
      BY <2>2
    <3>2. Joined[a \o <<s>>] = Joined[a] \o <<Space>> \o s
      BY JoinedIs
    <3>3. Joined[<<s>>] = s
      BY JoinedIs
    <3>4. (Joined[a] \o <<Space>>) \o s = Joined[a] \o (<<Space>> \o s)
      <4> DEFINE d == <<Space>>
      <4>1. d \in Seq(Char)
        BY <2>1
      <4> HIDE DEF d
      <4>2. (Joined[a] \o d) \o s = Joined[a] \o (d \o s)
        BY <4>1, <2>1, Assoc
      <4> QED BY <4>2 DEF d
    <3> QED BY <2>1, <3>1, <3>2, <3>3, <3>4
  <2>3. CASE b # <<>>
    <3>1. Joined[a \o b] = Joined[a] \o (<<Space>> \o Joined[b])
      BY <2>3, <1>2
    <3>2. a \o (b \o <<s>>) = (a \o b) \o <<s>>
      BY <2>1, ConcatAssociative DEF Texts
    <3>3. a \o b # <<>>
      BY ConcatEqualIffEmpty DEF Texts
    <3>4. Joined[(a \o b) \o <<s>>] = Joined[a \o b] \o <<Space>> \o s
      BY <2>1, <3>3, JoinedIs
    <3>5. Joined[b \o <<s>>] = Joined[b] \o <<Space>> \o s
      BY <2>3, JoinedIs
    <3> DEFINE x == Joined[a]
               y == Joined[b]
               z == <<Space>>
    <3>6. ((x \o (z \o y)) \o z) \o s = x \o (z \o ((y \o z) \o s))
      <4>1. x \in Seq(Char) /\ y \in Seq(Char) /\ z \in Seq(Char)
        BY <2>1
      <4> HIDE DEF x, y, z
      <4>2. z \o y \in Seq(Char) /\ y \o z \in Seq(Char) /\ z \o s \in Seq(Char)
        BY <4>1, Closed
      <4>3. y \o (z \o s) \in Seq(Char) /\ x \o (z \o y) \in Seq(Char)
        BY <4>1, <4>2, Closed
      <4>4. ((x \o (z \o y)) \o z) \o s = (x \o (z \o y)) \o (z \o s)
        BY <4>1, <4>3, Assoc, SMTT(30)
      <4>5. (x \o (z \o y)) \o (z \o s) = x \o ((z \o y) \o (z \o s))
        <5> DEFINE p == z \o y
                   q == z \o s
        <5>1. p \in Seq(Char) /\ q \in Seq(Char)
          BY <4>2
        <5> HIDE DEF p, q
        <5>2. (x \o p) \o q = x \o (p \o q)
          BY <4>1, <5>1, Assoc, SMTT(30)
        <5> QED BY <5>2 DEF p, q
      <4>6. (z \o y) \o (z \o s) = z \o (y \o (z \o s))
        BY <4>1, <4>2, Assoc
      <4>7. y \o (z \o s) = (y \o z) \o s
        BY <4>1, Assoc
      <4> QED BY <4>4, <4>5, <4>6, <4>7
    <3> QED BY <2>1, <3>1, <3>2, <3>4, <3>5, <3>6
  <2> QED BY <2>2, <2>3
<1> HIDE DEF T
<1>3. \A b \in Texts : b \in T
  BY <1>1, <1>2, FrontInduction DEF Texts
<1> QED BY <1>3 DEF T

(* The characters of a concatenation.                                      *)
LEMMA ConcatIs ==
    ASSUME NEW a \in Seq(Char), NEW b \in Seq(Char)
    PROVE  /\ a \o b \in Seq(Char) /\ Len(a \o b) = Len(a) + Len(b)
           /\ Len(a) \in Nat /\ Len(b) \in Nat
           /\ \A i \in 1 .. Len(a) : (a \o b)[i] = a[i]
           /\ \A i \in 1 .. Len(b) : (a \o b)[Len(a) + i] = b[i]
<1>1. Len(a) \in Nat /\ Len(b) \in Nat
  BY LenProperties
<1>2. /\ a \o b \in Seq(Char) /\ Len(a \o b) = Len(a) + Len(b)
      /\ \A i \in 1 .. Len(a) + Len(b) :
           (a \o b)[i] = IF i <= Len(a) THEN a[i] ELSE b[i - Len(a)]
  BY ConcatProperties
<1>3. \A i \in 1 .. Len(a) : i \in 1 .. Len(a) + Len(b) /\ i <= Len(a)
  BY <1>1
<1>4. \A i \in 1 .. Len(b) : /\ Len(a) + i \in 1 .. Len(a) + Len(b) /\ ~(Len(a) + i <= Len(a))
                             /\ Len(a) + i - Len(a) = i
  BY <1>1
<1> QED BY <1>1, <1>2, <1>3, <1>4

(* Three parts of a text.                                                  *)
LEMMA ThreeParts ==
    ASSUME NEW a \in Seq(Char), NEW t \in Seq(Char), NEW b \in Seq(Char), NEW s, s = a \o (t \o b)
    PROVE  /\ s \in Seq(Char) /\ Len(s) = Len(a) + Len(t) + Len(b)
           /\ Len(a) \in Nat /\ Len(t) \in Nat /\ Len(b) \in Nat
           /\ \A i \in 1 .. Len(a) : s[i] = a[i]
           /\ \A i \in 1 .. Len(t) : s[Len(a) + i] = t[i]
           /\ \A i \in 1 .. Len(b) : s[Len(a) + Len(t) + i] = b[i]
           /\ SubSeq(s, 1, Len(a)) = a
           /\ SubSeq(s, Len(a) + 1, Len(a) + Len(t)) = t
           /\ SubSeq(s, Len(a) + Len(t) + 1, Len(s)) = b
           /\ SubSeq(s, 1, Len(a) + Len(t)) = a \o t
<1> DEFINE u == t \o b
<1>1. /\ u \in Seq(Char) /\ Len(u) = Len(t) + Len(b) /\ Len(t) \in Nat /\ Len(b) \in Nat
      /\ \A i \in 1 .. Len(t) : u[i] = t[i]
      /\ \A i \in 1 .. Len(b) : u[Len(t) + i] = b[i]
  BY ConcatIs
<1>2. s = a \o u
  OBVIOUS
<1> HIDE DEF u
<1>3. /\ s \in Seq(Char) /\ Len(s) = Len(a) + Len(u) /\ Len(a) \in Nat
      /\ \A i \in 1 .. Len(a) : s[i] = a[i]
      /\ \A i \in 1 .. Len(u) : s[Len(a) + i] = u[i]
  <2>1. u \in Seq(Char)
    BY <1>1
  <2>2. /\ a \o u \in Seq(Char) /\ Len(a \o u) = Len(a) + Len(u) /\ Len(a) \in Nat
        /\ \A i \in 1 .. Len(a) : (a \o u)[i] = a[i]
        /\ \A i \in 1 .. Len(u) : (a \o u)[Len(a) + i] = u[i]
    BY <2>1, ConcatIs
  <2> QED BY <2>2, <1>2
<1>4. \A i \in 1 .. Len(t) : s[Len(a) + i] = t[i]
  BY <1>1, <1>3
<1>5. \A i \in 1 .. Len(b) : s[Len(a) + Len(t) + i] = b[i]
  <2>1. ASSUME NEW i \in 1 .. Len(b) PROVE s[Len(a) + Len(t) + i] = b[i]
    <3>1. Len(t) + i \in 1 .. Len(u) /\ Len(a) + (Len(t) + i) = Len(a) + Len(t) + i
      BY <1>1, <1>3
    <3>2. s[Len(a) + (Len(t) + i)] = u[Len(t) + i]
      BY <1>3, <3>1
    <3> QED BY <3>1, <3>2, <1>1
  <2> QED BY <2>1
<1>6. SubSeq(s, 1, Len(a)) = a
  <2> DEFINE x == SubSeq(s, 1, Len(a))
  <2>1. 1 \in 1 .. Len(s) + 1 /\ Len(a) \in 0 .. Len(s) /\ 1 <= Len(a) + 1
    BY <1>1, <1>3
  <2>2. x \in Seq(Char) /\ Len(x) = Len(a) - 1 + 1 /\ \A i \in 1 .. Len(a) - 1 + 1 : x[i] = s[1 + i - 1]
    BY <2>1, <1>3, PartIs
  <2>3. Len(x) = Len(a) /\ \A i \in 1 .. Len(x) : x[i] = a[i]
    BY <2>2, <1>3
  <2> HIDE DEF x
  <2>4. x = a
    BY <2>2, <2>3, SeqEqual
  <2> QED BY <2>4 DEF x
<1>7. SubSeq(s, Len(a) + 1, Len(a) + Len(t)) = t
  <2> DEFINE m == Len(a) + 1
             n == Len(a) + Len(t)
             x == SubSeq(s, m, n)
  <2>1. m \in 1 .. Len(s) + 1 /\ n \in 0 .. Len(s) /\ m <= n + 1
    BY <1>1, <1>3
  <2> HIDE DEF m, n
  <2>2. x \in Seq(Char) /\ Len(x) = n - m + 1 /\ \A i \in 1 .. n - m + 1 : x[i] = s[m + i - 1]
    BY <2>1, <1>3, PartIs, SMTT(30)
  <2> HIDE DEF x
  <2>3. Len(x) = Len(t) /\ \A i \in 1 .. Len(x) : x[i] = t[i]
    <3>1. n - m + 1 = Len(t) /\ \A i \in 1 .. Len(t) : m + i - 1 = Len(a) + i
      BY <1>1, <1>3 DEF m, n
    <3> QED BY <3>1, <2>2, <1>4
  <2>4. x = t
    BY <2>2, <2>3, SeqEqual
  <2> QED BY <2>4 DEF x, m, n
<1>8. SubSeq(s, Len(a) + Len(t) + 1, Len(s)) = b
  <2> DEFINE m == Len(a) + Len(t) + 1
             n == Len(s)
             x == SubSeq(s, m, n)
  <2>1. m \in 1 .. Len(s) + 1 /\ n \in 0 .. Len(s) /\ m <= n + 1
    BY <1>1, <1>3
  <2> HIDE DEF m, n
  <2>2. x \in Seq(Char) /\ Len(x) = n - m + 1 /\ \A i \in 1 .. n - m + 1 : x[i] = s[m + i - 1]
    BY <2>1, <1>3, PartIs, SMTT(30)
  <2> HIDE DEF x
  <2>3. Len(x) = Len(b) /\ \A i \in 1 .. Len(x) : x[i] = b[i]
    <3>1. n - m + 1 = Len(b) /\ \A i \in 1 .. Len(b) : m + i - 1 = Len(a) + Len(t) + i
      BY <1>1, <1>3 DEF m, n
    <3> QED BY <3>1, <2>2, <1>5
  <2>4. x = b
    BY <2>2, <2>3, SeqEqual
  <2> QED BY <2>4 DEF x, m, n
<1>9. SubSeq(s, 1, Len(a) + Len(t)) = a \o t
  <2>1. 1 \in 1 .. Len(s) + 1 /\ Len(a) \in 1 - 1 .. Len(s) /\ Len(a) + Len(t) \in Len(a) .. Len(s)
    BY <1>1, <1>3
  <2>2. SubSeq(s, 1, Len(a)) \o SubSeq(s, Len(a) + 1, Len(a) + Len(t)) = SubSeq(s, 1, Len(a) + Len(t))
    BY <1>3, <2>1, ConcatAdjacentSubSeq
  <2> QED BY <2>2, <1>6, <1>7
<1>10. Len(s) = Len(a) + Len(t) + Len(b)
  BY <1>1, <1>3
<1> QED BY <1>1, <1>3, <1>4, <1>5, <1>6, <1>7, <1>8, <1>9, <1>10

(* str.strip leaves nothing of white space.                                *)
LEMMA StripOfBlank ==
    ASSUME NEW s \in Seq(Char), Blank(s) PROVE Strip(s) = <<>>
BY DEF Strip, Blank

(* str.strip: the text from its first to its last ink.                     *)
LEMMA StripIs ==
    ASSUME NEW a \in Seq(Char), NEW t \in Seq(Char), NEW b \in Seq(Char),
           Blank(a), Blank(b), Clean(t), t # <<>>
    PROVE  Strip(a \o (t \o b)) = t
<1> DEFINE s == a \o (t \o b)
           ink == {i \in 1 .. Len(s) : s[i] # Space}
           start == Len(a) + 1
           last == Len(a) + Len(t)
<1>1. /\ s \in Seq(Char) /\ Len(s) = Len(a) + Len(t) + Len(b)
      /\ Len(a) \in Nat /\ Len(t) \in Nat /\ Len(b) \in Nat
      /\ \A i \in 1 .. Len(a) : s[i] = a[i]
      /\ \A i \in 1 .. Len(t) : s[Len(a) + i] = t[i]
      /\ \A i \in 1 .. Len(b) : s[Len(a) + Len(t) + i] = b[i]
      /\ SubSeq(s, Len(a) + 1, Len(a) + Len(t)) = t
  BY ThreeParts
<1>2. Len(t) > 0 /\ t[1] # Space /\ t[Len(t)] # Space
  BY <1>1, EmptySeq DEF Clean
<1> HIDE DEF s
<1>3. start \in ink /\ last \in ink
  BY <1>1, <1>2
<1>4. ASSUME NEW i \in ink PROVE start <= i /\ i <= last
  <2>1. i \in 1 .. Len(s) /\ s[i] # Space
    OBVIOUS
  <2>2. ~(i <= Len(a))
    BY <2>1, <1>1 DEF Blank
  <2>3. ~(i > Len(a) + Len(t))
    <3>1. SUFFICES ASSUME i > Len(a) + Len(t) PROVE FALSE
      OBVIOUS
    <3>2. i - (Len(a) + Len(t)) \in 1 .. Len(b) /\ Len(a) + Len(t) + (i - (Len(a) + Len(t))) = i
      BY <3>1, <2>1, <1>1
    <3>3. s[i] = b[i - (Len(a) + Len(t))]
      BY <3>2, <1>1
    <3> QED BY <3>2, <3>3, <2>1 DEF Blank
  <2> QED BY <2>1, <2>2, <2>3, <1>1
<1>5. ink \in SUBSET Nat /\ ink \in SUBSET (0 .. Len(s)) /\ ink # {} /\ Len(s) \in Nat
  BY <1>1, <1>3
<1> HIDE DEF ink
<1>6. Min(ink) = start
  <2>1. Min(ink) \in ink /\ Min(ink) <= start
    BY <1>3, <1>5, MinIs
  <2>2. start <= Min(ink) /\ Min(ink) \in Nat
    BY <2>1, <1>4, <1>5
  <2> QED BY <2>1, <2>2, <1>1
<1>7. Max(ink) = last
  <2>1. Max(ink) \in ink /\ Max(ink) >= last
    BY <1>3, <1>5, MaxIs
  <2>2. Max(ink) <= last /\ Max(ink) \in Nat
    BY <2>1, <1>4, <1>5
  <2>3. last \in Nat
    BY <1>1
  <2> HIDE DEF last
  <2> QED BY <2>1, <2>2, <2>3
<1>8. Strip(s) = SubSeq(s, Min(ink), Max(ink))
  BY <1>5 DEF Strip, ink
<1> QED BY <1>1, <1>6, <1>7, <1>8 DEF s

(* A text is blank, or white space around what strip leaves.               *)
LEMMA StripSplits ==
    ASSUME NEW s \in Seq(Char), ~Blank(s)
    PROVE  \E a, b \in Seq(Char) :
             /\ Blank(a) /\ Blank(b) /\ s = a \o (Strip(s) \o b)
             /\ Strip(s) \in Seq(Char) /\ Strip(s) # <<>> /\ Clean(Strip(s))
<1> DEFINE ink == {i \in 1 .. Len(s) : s[i] # Space}
           m == Min(ink)
           n == Max(ink)
<1>1. Len(s) \in Nat
  BY LenProperties
<1>2. ink \in SUBSET Nat /\ ink \in SUBSET (0 .. Len(s)) /\ ink # {}
  BY <1>1 DEF Blank
<1>3. Strip(s) = SubSeq(s, m, n)
  BY <1>2 DEF Strip
<1>4. m \in ink /\ n \in ink /\ \A i \in ink : m <= i /\ i <= n
  <2> HIDE DEF ink
  <2>1. m \in ink /\ \A i \in ink : m <= i
    BY <1>2, MinIs
  <2>2. n \in ink /\ \A i \in ink : n >= i
    BY <1>1, <1>2, MaxIs
  <2>3. \A i \in ink : n >= i => i <= n
    BY <1>2, <2>2
  <2> QED BY <2>1, <2>2, <2>3
<1>5. m \in 1 .. Len(s) /\ n \in 1 .. Len(s) /\ m <= n /\ s[m] # Space /\ s[n] # Space
  BY <1>4
<1>6. \A i \in 1 .. Len(s) : i < m \/ i > n => s[i] = Space
  <2>1. \A i \in 1 .. Len(s) : i \notin ink => s[i] = Space
    OBVIOUS
  <2>2. \A i \in 1 .. Len(s) : i < m \/ i > n => i \notin ink
    BY <1>4, <1>5
  <2> QED BY <2>1, <2>2
<1> HIDE DEF m, n, ink
<1> DEFINE a == SubSeq(s, 1, m - 1)
           t == SubSeq(s, m, n)
           b == SubSeq(s, n + 1, Len(s))
<1>7. a \in Seq(Char) /\ Len(a) = m - 1 /\ \A i \in 1 .. m - 1 : a[i] = s[i]
  <2>1. 1 \in 1 .. Len(s) + 1 /\ m - 1 \in 0 .. Len(s) /\ 1 <= m - 1 + 1
    BY <1>1, <1>5
  <2>2. a \in Seq(Char) /\ Len(a) = m - 1 - 1 + 1 /\ \A i \in 1 .. m - 1 - 1 + 1 : a[i] = s[1 + i - 1]
    BY <2>1, PartIs
  <2> HIDE DEF a
  <2> QED BY <2>2, <1>5
<1>8. t \in Seq(Char) /\ Len(t) = n - m + 1 /\ \A i \in 1 .. n - m + 1 : t[i] = s[m + i - 1]
  <2>1. m \in 1 .. Len(s) + 1 /\ n \in 0 .. Len(s) /\ m <= n + 1
    BY <1>1, <1>5
  <2> QED BY <2>1, PartIs
<1>9. b \in Seq(Char) /\ Len(b) = Len(s) - n /\ \A i \in 1 .. Len(s) - n : b[i] = s[n + i]
  <2>1. n + 1 \in 1 .. Len(s) + 1 /\ Len(s) \in 0 .. Len(s) /\ n + 1 <= Len(s) + 1
    BY <1>1, <1>5
  <2>2. b \in Seq(Char) /\ Len(b) = Len(s) - (n + 1) + 1 /\ \A i \in 1 .. Len(s) - (n + 1) + 1 : b[i] = s[n + 1 + i - 1]
    BY <2>1, PartIs
  <2> HIDE DEF b
  <2>3. Len(s) - (n + 1) + 1 = Len(s) - n /\ \A i \in 1 .. Len(s) - n : n + 1 + i - 1 = n + i
    BY <1>1, <1>5
  <2> QED BY <2>2, <2>3
<1>10. s = a \o (t \o b)
  <2>1. s = a \o SubSeq(s, m - 1 + 1, Len(s))
    <3>1. m - 1 \in 0 .. Len(s)
      BY <1>1, <1>5
    <3> QED BY <3>1, CutInTwo
  <2>2. t \o b = SubSeq(s, m, Len(s))
    <3>1. m \in 1 .. Len(s) + 1 /\ n \in m - 1 .. Len(s) /\ Len(s) \in n .. Len(s)
      BY <1>1, <1>5
    <3> QED BY <3>1, ConcatAdjacentSubSeq
  <2>3. m - 1 + 1 = m
    BY <1>5
  <2> HIDE DEF a, t, b
  <2> QED BY <2>1, <2>2, <2>3
<1> HIDE DEF a, b
<1>11. Blank(a)
  <2>1. \A i \in 1 .. m - 1 : i \in 1 .. Len(s) /\ i < m
    BY <1>1, <1>5
  <2> QED BY <2>1, <1>6, <1>7 DEF Blank
<1>12. Blank(b)
  <2>1. \A i \in 1 .. Len(s) - n : n + i \in 1 .. Len(s) /\ n + i > n
    BY <1>1, <1>5
  <2> QED BY <2>1, <1>6, <1>9 DEF Blank
<1>13. t # <<>> /\ Clean(t)
  <2> HIDE DEF t
  <2>1. Len(t) \in Nat \ {0} /\ Len(t) = n - m + 1 /\ m + 1 - 1 = m /\ m + Len(t) - 1 = n
    BY <1>1, <1>5, <1>8
  <2>2. t[1] = s[m] /\ t[Len(t)] = s[n]
    BY <2>1, <1>8
  <2>3. t # <<>>
    BY <2>1, EmptySeq
  <2> QED BY <2>2, <2>3, <1>5 DEF Clean
<1> QED BY <1>3, <1>7, <1>8, <1>9, <1>10, <1>11, <1>12, <1>13

-----------------------------------------------------------------------------
(* The gaps between sentences, and the split at them.                      *)

(* A sentence that ends with its last character, and a gap.                *)
Ended(p)  == p \in Seq(Char) /\ p # <<>> /\ GapStarts(p) = {} /\ p[Len(p)] = Stop
Gap(b)    == b \in Seq(Char) /\ b # <<>> /\ Blank(b)
Begins(u) == u \in Seq(Char) /\ (u = <<>> \/ u[1] # Space)
Cut(s, p, b, u) == Ended(p) /\ Gap(b) /\ Begins(u) /\ s = p \o (b \o u)

(* The gaps of a text: the white space after a full stop.                  *)
LEMMA GapsAre ==
    ASSUME NEW s \in Seq(Char)
    PROVE  /\ GapStarts(s) \in SUBSET (2 .. Len(s)) /\ GapStarts(s) \in SUBSET Nat
           /\ GapStarts(s) # {} => /\ Min(GapStarts(s)) \in GapStarts(s)
                                   /\ \A i \in GapStarts(s) : Min(GapStarts(s)) <= i
<1>1. Len(s) \in Nat
  BY LenProperties
<1>2. GapStarts(s) \in SUBSET (2 .. Len(s)) /\ GapStarts(s) \in SUBSET Nat
  BY <1>1 DEF GapStarts
<1> QED BY <1>2, MinIs

(* Where the gap that begins at i ends.                                    *)
LEMMA GapEndIs ==
    ASSUME NEW s \in Seq(Char), NEW i \in 1 .. Len(s), s[i] = Space
    PROVE  /\ GapEnd(s, i) \in i .. Len(s)
           /\ \A k \in i .. GapEnd(s, i) : s[k] = Space
           /\ GapEnd(s, i) < Len(s) => s[GapEnd(s, i) + 1] # Space
<1> DEFINE T == {j \in i .. Len(s) : \A k \in i .. j : s[k] = Space}
           e == Max(T)
<1>1. Len(s) \in Nat
  BY LenProperties
<1>2. i \in T /\ T \in SUBSET (0 .. Len(s))
  BY <1>1
<1>3. e \in T /\ \A y \in T : e >= y
  <2> HIDE DEF T
  <2> QED BY <1>1, <1>2, MaxIs
<1>4. e \in i .. Len(s) /\ \A k \in i .. e : s[k] = Space
  BY <1>3
<1>5. e < Len(s) => s[e + 1] # Space
  <2>1. SUFFICES ASSUME e < Len(s), s[e + 1] = Space PROVE FALSE
    OBVIOUS
  <2> HIDE DEF e
  <2>2. e + 1 \in i .. Len(s) /\ \A k \in i .. e + 1 : k \in i .. e \/ k = e + 1
    BY <2>1, <1>1, <1>4
  <2>3. e + 1 \in T
    BY <2>1, <2>2, <1>4
  <2> HIDE DEF T
  <2>4. e >= e + 1
    BY <2>3, <1>3
  <2> QED BY <2>4, <1>4
<1> QED BY <1>4, <1>5 DEF GapEnd

(* The first gap of a text, given its parts.                               *)
LEMMA FirstGap ==
    ASSUME NEW s, NEW p, NEW b, NEW u, Cut(s, p, b, u)
    PROVE  /\ s \in Seq(Char) /\ GapStarts(s) # {}
           /\ Min(GapStarts(s)) = Len(p) + 1
           /\ GapEnd(s, Len(p) + 1) = Len(p) + Len(b)
           /\ SubSeq(s, 1, Min(GapStarts(s)) - 1) = p
           /\ SubSeq(s, GapEnd(s, Min(GapStarts(s))) + 1, Len(s)) = u
           /\ SubSeq(s, 1, GapEnd(s, Min(GapStarts(s)))) = p \o b
           /\ Boundary(s) = Len(p) + Len(b)
           /\ Len(p) \in Nat \ {0} /\ Len(b) \in Nat \ {0} /\ Len(u) \in Nat /\ Len(u) < Len(s)
<1>0. /\ Ended(p) /\ Gap(b) /\ Begins(u) /\ s = p \o (b \o u)
      /\ p \in Seq(Char) /\ b \in Seq(Char) /\ u \in Seq(Char)
  BY DEF Cut, Ended, Gap, Begins
<1>1. /\ s \in Seq(Char) /\ Len(s) = Len(p) + Len(b) + Len(u)
      /\ Len(p) \in Nat /\ Len(b) \in Nat /\ Len(u) \in Nat
      /\ \A i \in 1 .. Len(p) : s[i] = p[i]
      /\ \A i \in 1 .. Len(b) : s[Len(p) + i] = b[i]
      /\ \A i \in 1 .. Len(u) : s[Len(p) + Len(b) + i] = u[i]
      /\ SubSeq(s, 1, Len(p)) = p
      /\ SubSeq(s, Len(p) + Len(b) + 1, Len(s)) = u
      /\ SubSeq(s, 1, Len(p) + Len(b)) = p \o b
  BY <1>0, ThreeParts
<1>2. Len(p) \in Nat \ {0} /\ Len(b) \in Nat \ {0}
  BY <1>0, <1>1, EmptySeq DEF Ended, Gap
<1> DEFINE g == Len(p) + 1
           e == Len(p) + Len(b)
<1>3. s[g] = Space /\ s[g - 1] = Stop
  <2>1. 1 \in 1 .. Len(b) /\ Len(p) \in 1 .. Len(p) /\ g - 1 = Len(p)
    BY <1>2
  <2>2. s[Len(p) + 1] = b[1] /\ s[Len(p)] = p[Len(p)]
    BY <2>1, <1>1
  <2>3. b[1] = Space /\ p[Len(p)] = Stop
    BY <2>1, <1>0 DEF Gap, Blank, Ended
  <2> QED BY <2>1, <2>2, <2>3
<1>4. g \in GapStarts(s)
  <2>1. g \in 2 .. Len(s)
    BY <1>1, <1>2
  <2> QED BY <2>1, <1>3 DEF GapStarts
<1>5. ASSUME NEW i \in GapStarts(s) PROVE g <= i
  <2>0. i \in Nat /\ g \in Nat
    <3>1. s \in Seq(Char) /\ g \in Nat
      BY <1>1
    <3>2. GapStarts(s) \in SUBSET Nat
      BY <3>1, GapsAre
    <3> QED BY <3>1, <3>2
  <2>1. SUFFICES ASSUME i < g PROVE FALSE
    <3> HIDE DEF g
    <3> QED BY <2>0
  <2>2. i \in 2 .. Len(s) /\ s[i] = Space /\ s[i - 1] = Stop
    BY DEF GapStarts
  <2>3. i \in 2 .. Len(p) /\ i \in 1 .. Len(p) /\ i - 1 \in 1 .. Len(p)
    BY <2>1, <2>2, <1>1
  <2>4. p[i] = Space /\ p[i - 1] = Stop
    BY <2>2, <2>3, <1>1
  <2>5. i \in GapStarts(p)
    BY <2>3, <2>4 DEF GapStarts
  <2> QED BY <2>5, <1>0 DEF Ended
<1>6. Min(GapStarts(s)) = g
  <2>1. Min(GapStarts(s)) \in GapStarts(s) /\ Min(GapStarts(s)) <= g /\ GapStarts(s) \in SUBSET Nat
    BY <1>1, <1>4, GapsAre
  <2>2. g <= Min(GapStarts(s)) /\ Min(GapStarts(s)) \in Nat
    BY <2>1, <1>5
  <2> QED BY <2>1, <2>2, <1>2
<1>7. /\ GapEnd(s, g) \in g .. Len(s)
      /\ \A k \in g .. GapEnd(s, g) : s[k] = Space
      /\ GapEnd(s, g) < Len(s) => s[GapEnd(s, g) + 1] # Space
  <2>1. g \in 1 .. Len(s)
    BY <1>1, <1>2
  <2> HIDE DEF g
  <2> QED BY <2>1, <1>1, <1>3, GapEndIs
<1>8. GapEnd(s, g) = e
  <2> DEFINE x == GapEnd(s, g)
  <2>0. x \in g .. Len(s) /\ e \in g .. Len(s) /\ e \in Nat
    BY <1>1, <1>2, <1>7
  <2>1. ASSUME x < e PROVE FALSE
    <3>0. x \in Nat /\ Len(p) + 1 <= x /\ x < Len(p) + Len(b)
      <4> HIDE DEF x
      <4> QED BY <2>0, <2>1, <1>1
    <3>1. x - Len(p) + 1 \in 1 .. Len(b) /\ Len(p) + (x - Len(p) + 1) = x + 1 /\ x < Len(s)
      <4> HIDE DEF x
      <4> QED BY <3>0, <1>1
    <3>2. s[x + 1] = b[x - Len(p) + 1]
      BY <3>1, <1>1
    <3>3. b[x - Len(p) + 1] = Space
      BY <3>1, <1>0 DEF Gap, Blank
    <3> QED BY <3>1, <3>2, <3>3, <1>7
  <2>2. ASSUME e < x PROVE FALSE
    <3>1. e + 1 \in g .. x /\ 1 \in 1 .. Len(u) /\ Len(p) + Len(b) + 1 = e + 1
      BY <2>0, <2>2, <1>1, <1>2
    <3>2. s[e + 1] = u[1] /\ s[e + 1] = Space
      BY <3>1, <1>1, <1>7
    <3>3. u # <<>>
      BY <3>1
    <3> QED BY <3>2, <3>3, <1>0 DEF Begins
  <2> HIDE DEF x, e
  <2> QED BY <2>0, <2>1, <2>2 DEF x
<1>9. GapStarts(s) # {} /\ Boundary(s) = e
  BY <1>4, <1>6, <1>8 DEF Boundary
<1>10. g - 1 = Len(p) /\ Len(u) < Len(s)
  BY <1>1, <1>2
<1> QED BY <1>1, <1>2, <1>6, <1>8, <1>9, <1>10

(* The first sentence of a text, and what follows its gap.                 *)
FirstOf(s) == SubSeq(s, 1, Min(GapStarts(s)) - 1)
RestOf(s)  == SubSeq(s, GapEnd(s, Min(GapStarts(s))) + 1, Len(s))

(* The first gap cuts a text in three.                                     *)
LEMMA GapParts ==
    ASSUME NEW s, NEW p, NEW b, NEW u, Cut(s, p, b, u)
    PROVE  /\ s \in Seq(Char) /\ GapStarts(s) # {}
           /\ FirstOf(s) = p /\ RestOf(s) = u
           /\ Boundary(s) # 0 /\ SubSeq(s, 1, Boundary(s)) = p \o b
           /\ SubSeq(s, Boundary(s) + 1, Len(s)) = u
           /\ Len(u) \in Nat /\ Len(s) \in Nat /\ Len(u) < Len(s)
<1> DEFINE g == Min(GapStarts(s))
           e == GapEnd(s, g)
<1>1. /\ s \in Seq(Char) /\ GapStarts(s) # {}
      /\ SubSeq(s, 1, g - 1) = p /\ SubSeq(s, e + 1, Len(s)) = u /\ SubSeq(s, 1, e) = p \o b
      /\ Len(u) \in Nat /\ Len(u) < Len(s)
  BY FirstGap
<1>2. Boundary(s) = Len(p) + Len(b) /\ Len(p) \in Nat \ {0} /\ Len(b) \in Nat \ {0}
  BY FirstGap
<1>3. Boundary(s) # 0
  BY <1>2
<1>4. Boundary(s) = e
  BY <1>1 DEF Boundary
<1>5. FirstOf(s) = p /\ RestOf(s) = u
  BY <1>1 DEF FirstOf, RestOf
<1> HIDE DEF e, g
<1> QED BY <1>1, <1>3, <1>4, <1>5, LenProperties

(* A text with a gap is a sentence, a gap and a rest.                      *)
LEMMA SplitAtGap ==
    ASSUME NEW s \in Seq(Char), GapStarts(s) # {}
    PROVE  \E p, b, u \in Seq(Char) : Cut(s, p, b, u)
<1> DEFINE g == Min(GapStarts(s))
           e == GapEnd(s, g)
           p == SubSeq(s, 1, g - 1)
           b == SubSeq(s, g, e)
           u == SubSeq(s, e + 1, Len(s))
<1>0. Len(s) \in Nat
  BY LenProperties
<1>1. g \in GapStarts(s) /\ \A i \in GapStarts(s) : g <= i
  BY GapsAre
<1>2. g \in 2 .. Len(s) /\ s[g] = Space /\ s[g - 1] = Stop
  BY <1>1 DEF GapStarts
<1>3. /\ e \in g .. Len(s)
      /\ \A k \in g .. e : s[k] = Space
      /\ e < Len(s) => s[e + 1] # Space
  <2>1. g \in 1 .. Len(s)
    BY <1>0, <1>2
  <2> HIDE DEF g
  <2> QED BY <2>1, <1>2, GapEndIs
<1> HIDE DEF g, e
<1>4. p \in Seq(Char) /\ Len(p) = g - 1 /\ \A i \in 1 .. g - 1 : p[i] = s[i]
  <2>1. 1 \in 1 .. Len(s) + 1 /\ g - 1 \in 0 .. Len(s) /\ 1 <= g - 1 + 1
    BY <1>0, <1>2
  <2>2. p \in Seq(Char) /\ Len(p) = g - 1 - 1 + 1 /\ \A i \in 1 .. g - 1 - 1 + 1 : p[i] = s[1 + i - 1]
    BY <2>1, PartIs
  <2> HIDE DEF p
  <2> QED BY <2>2, <1>2
<1>5. b \in Seq(Char) /\ Len(b) = e - g + 1 /\ \A i \in 1 .. e - g + 1 : b[i] = s[g + i - 1]
  <2>1. g \in 1 .. Len(s) + 1 /\ e \in 0 .. Len(s) /\ g <= e + 1
    BY <1>0, <1>2, <1>3
  <2> QED BY <2>1, PartIs
<1>6. u \in Seq(Char) /\ Len(u) = Len(s) - e /\ \A i \in 1 .. Len(s) - e : u[i] = s[e + i]
  <2>1. e + 1 \in 1 .. Len(s) + 1 /\ Len(s) \in 0 .. Len(s) /\ e + 1 <= Len(s) + 1
    BY <1>0, <1>2, <1>3
  <2>2. /\ u \in Seq(Char) /\ Len(u) = Len(s) - (e + 1) + 1
        /\ \A i \in 1 .. Len(s) - (e + 1) + 1 : u[i] = s[e + 1 + i - 1]
    BY <2>1, PartIs
  <2> HIDE DEF u
  <2>3. Len(s) - (e + 1) + 1 = Len(s) - e /\ \A i \in 1 .. Len(s) - e : e + 1 + i - 1 = e + i
    BY <1>0, <1>2, <1>3
  <2> QED BY <2>2, <2>3
<1>7. s = p \o (b \o u)
  <2>1. s = p \o SubSeq(s, g - 1 + 1, Len(s))
    <3>1. g - 1 \in 0 .. Len(s)
      BY <1>0, <1>2
    <3> QED BY <3>1, CutInTwo
  <2>2. b \o u = SubSeq(s, g, Len(s))
    <3>1. g \in 1 .. Len(s) + 1 /\ e \in g - 1 .. Len(s) /\ Len(s) \in e .. Len(s)
      BY <1>0, <1>2, <1>3
    <3> QED BY <3>1, ConcatAdjacentSubSeq
  <2>3. g - 1 + 1 = g
    BY <1>2
  <2> HIDE DEF p, b, u
  <2> QED BY <2>1, <2>2, <2>3
<1> HIDE DEF p, b, u
<1>8. Ended(p)
  <2>1. Len(p) \in Nat \ {0} /\ p[Len(p)] = Stop
    BY <1>2, <1>4
  <2>2. ASSUME NEW i \in GapStarts(p) PROVE FALSE
    <3>1. i \in 2 .. Len(p) /\ p[i] = Space /\ p[i - 1] = Stop
      BY DEF GapStarts
    <3>2. /\ i \in 1 .. g - 1 /\ i - 1 \in 1 .. g - 1 /\ i \in 2 .. Len(s)
          /\ ~(g <= i)
      BY <3>1, <1>0, <1>2, <1>4
    <3>3. s[i] = Space /\ s[i - 1] = Stop
      BY <3>1, <3>2, <1>4
    <3>4. i \in GapStarts(s)
      BY <3>2, <3>3 DEF GapStarts
    <3> QED BY <3>2, <3>4, <1>1
  <2>3. p # <<>>
    BY <2>1, <1>4, EmptySeq
  <2> QED BY <2>1, <2>2, <2>3, <1>4 DEF Ended
<1>9. Gap(b)
  <2>1. Len(b) \in Nat \ {0} /\ \A i \in 1 .. Len(b) : g + i - 1 \in g .. e
    BY <1>2, <1>3, <1>5
  <2>2. b # <<>>
    BY <2>1, <1>5, EmptySeq
  <2>3. Blank(b)
    BY <2>1, <1>3, <1>5 DEF Blank
  <2> QED BY <2>2, <2>3, <1>5 DEF Gap
<1>10. Begins(u)
  <2>1. CASE e = Len(s)
    <3>1. Len(u) = 0
      BY <2>1, <1>0, <1>6
    <3> QED BY <3>1, <1>6, EmptySeq DEF Begins
  <2>2. CASE e # Len(s)
    <3>1. e < Len(s) /\ 1 \in 1 .. Len(s) - e
      BY <2>2, <1>0, <1>2, <1>3
    <3> QED BY <3>1, <1>3, <1>6 DEF Begins
  <2> QED BY <2>1, <2>2
<1> QED BY <1>4, <1>5, <1>6, <1>7, <1>8, <1>9, <1>10 DEF Cut

(* _boundary_end finds nothing just when there is no gap.                  *)
LEMMA BoundaryIs ==
    ASSUME NEW s \in Seq(Char)
    PROVE  Boundary(s) = 0 <=> GapStarts(s) = {}
<1>1. CASE GapStarts(s) = {}
  BY <1>1 DEF Boundary
<1>2. CASE GapStarts(s) # {}
  <2>1. PICK p, b, u \in Seq(Char) : Cut(s, p, b, u)
    BY <1>2, SplitAtGap
  <2>2. Boundary(s) = Len(p) + Len(b) /\ Len(p) \in Nat \ {0} /\ Len(b) \in Nat \ {0}
    BY <2>1, FirstGap
  <2> QED BY <2>2, <1>2
<1> QED BY <1>1, <1>2

(* Induction over the gaps of a text.                                      *)
LEMMA GapInduction ==
    ASSUME NEW T,
           \A s \in Seq(Char) : GapStarts(s) = {} => s \in T,
           \A s, p, b, u \in Seq(Char) : Cut(s, p, b, u) /\ u \in T => s \in T
    PROVE  \A s \in Seq(Char) : s \in T
<1> DEFINE Ok == {n \in Nat : \A s \in Seq(Char) : Len(s) < n => s \in T}
<1>1. 0 \in Ok
  BY LenProperties
<1>2. ASSUME NEW n \in Nat, n \in Ok PROVE n + 1 \in Ok
  <2>1. SUFFICES ASSUME NEW s \in Seq(Char), Len(s) < n + 1 PROVE s \in T
    OBVIOUS
  <2>2. CASE GapStarts(s) = {}
    BY <2>2
  <2>3. CASE GapStarts(s) # {}
    <3>1. PICK p, b, u \in Seq(Char) : Cut(s, p, b, u)
      BY <2>3, SplitAtGap
    <3>2. Len(u) \in Nat /\ Len(u) < Len(s) /\ Len(s) \in Nat
      BY <3>1, FirstGap, LenProperties
    <3>3. u \in T
      BY <3>2, <2>1, <1>2
    <3> QED BY <3>1, <3>3
  <2> QED BY <2>2, <2>3
<1>3. \A n \in Nat : n \in Ok
  <2> HIDE DEF Ok
  <2> QED BY <1>1, <1>2, Induction
<1>4. ASSUME NEW s \in Seq(Char) PROVE s \in T
  <2>1. Len(s) + 1 \in Nat /\ Len(s) < Len(s) + 1
    BY LenProperties
  <2> QED BY <2>1, <1>3
<1> QED BY <1>4

(* Recursion over the gaps of a text.                                      *)
Gapless    == {s \in Seq(Char) : GapStarts(s) = {}}
TextLength == [s \in Seq(Char) |-> Len(s)]
TextRest   == [s \in Seq(Char) |-> IF s \in Gapless THEN s ELSE RestOf(s)]

(* What follows the first gap is shorter than the text.                    *)
LEMMA GapsDecrease == Decreases(Seq(Char), TextLength, Gapless, TextRest)
<1>1. TextLength \in [Seq(Char) -> Nat]
  BY LenProperties DEF TextLength
<1>2. ASSUME NEW s \in Seq(Char), s \notin Gapless
      PROVE  RestOf(s) \in Seq(Char) /\ Len(RestOf(s)) < Len(s)
  <2>1. PICK p, b, u \in Seq(Char) : Cut(s, p, b, u)
    BY <1>2, SplitAtGap DEF Gapless
  <2>2. RestOf(s) = u /\ Len(u) < Len(s)
    BY <2>1, GapParts
  <2> QED BY <2>2
<1>3. TextRest \in [Seq(Char) -> Seq(Char)]
  BY <1>2 DEF TextRest
<1>4. \A s \in Seq(Char) : s \notin Gapless => TextLength[TextRest[s]] < TextLength[s]
  BY <1>2 DEF TextRest, TextLength
<1> QED BY <1>1, <1>3, <1>4 DEF Decreases

(* _SENTENCE_BOUNDARY.split: a text without a gap is one sentence; else    *)
(* the first and those of the rest.                                        *)
LEMMA SentencesIs ==
    /\ Sentences \in [Seq(Char) -> Texts]
    /\ \A s \in Seq(Char) : GapStarts(s) = {} => Sentences[s] = <<s>>
    /\ \A s, p, b, u \in Seq(Char) : Cut(s, p, b, u) => Sentences[s] = <<p>> \o Sentences[u]
<1> DEFINE D == Seq(Char)
           base == [s \in D |-> <<s>>]
           step == [q \in D \X Texts |-> IF q[1] \in Gapless THEN <<>> ELSE <<FirstOf(q[1])>> \o q[2]]
           Body(f, s) == IF GapStarts(s) = {} THEN <<s>> ELSE
                         <<FirstOf(s)>> \o f[RestOf(s)]
<1>1. base \in [D -> Texts]
  BY DEF Texts
<1>2. ASSUME NEW s \in D, s \notin Gapless PROVE FirstOf(s) \in D /\ <<FirstOf(s)>> \in Texts
  <2>1. PICK p, b, u \in Seq(Char) : Cut(s, p, b, u)
    BY <1>2, SplitAtGap DEF Gapless
  <2>2. FirstOf(s) = p
    BY <2>1, GapParts
  <2> QED BY <2>2 DEF Texts
<1>3. step \in [D \X Texts -> Texts]
  <2>1. ASSUME NEW q \in D \X Texts
        PROVE  (IF q[1] \in Gapless THEN <<>> ELSE <<FirstOf(q[1])>> \o q[2]) \in Texts
    <3>1. q[1] \in D /\ q[2] \in Texts
      OBVIOUS
    <3> HIDE DEF D
    <3>2. CASE q[1] \in Gapless
      BY <3>2, EmptySeq DEF Texts
    <3>3. CASE q[1] \notin Gapless
      <4>1. <<FirstOf(q[1])>> \in Texts
        BY <3>1, <3>3, <1>2
      <4> DEFINE x == <<FirstOf(q[1])>>
      <4> HIDE DEF x
      <4>2. x \o q[2] \in Texts
        BY <3>1, <4>1, ConcatProperties DEF Texts, x
      <4> QED BY <4>2, <3>3 DEF x
    <3> QED BY <3>2, <3>3
  <2> HIDE DEF D
  <2> QED BY <2>1
<1>4. PICK f : Solves(f, D, Texts, Gapless, base, TextRest, step)
  <2>1. Recursive(D, Texts, TextLength, Gapless, base, TextRest, step)
    <3> HIDE DEF base, step
    <3> QED BY <1>1, <1>3, GapsDecrease DEF Recursive
  <2> HIDE DEF base, step, D
  <2> QED BY <2>1, Recursion
<1>5. f \in [D -> Texts] /\ \A s \in D : f[s] = IF s \in Gapless THEN base[s] ELSE step[<<s, f[TextRest[s]]>>]
  <2> HIDE DEF base, step, D
  <2> QED BY <1>4 DEF Solves
<1>6. ASSUME NEW s \in D PROVE f[s] = Body(f, s)
  <2>1. CASE GapStarts(s) = {}
    <3>1. s \in Gapless /\ base[s] = <<s>>
      BY <2>1 DEF Gapless
    <3> HIDE DEF base, step
    <3> QED BY <1>5, <2>1, <3>1
  <2>2. CASE GapStarts(s) # {}
    <3>1. s \notin Gapless
      BY <2>2 DEF Gapless
    <3>2. TextRest[s] = RestOf(s) /\ TextRest[s] \in D
      BY <3>1, GapsDecrease DEF TextRest, Decreases
    <3>3. f[RestOf(s)] \in Texts /\ f[s] = step[<<s, f[RestOf(s)]>>]
      <4> HIDE DEF base, step
      <4> QED BY <1>5, <3>1, <3>2
    <3> DEFINE q == <<s, f[RestOf(s)]>>
    <3>4. q \in D \X Texts /\ q[1] = s /\ q[2] = f[RestOf(s)]
      BY <3>3
    <3> HIDE DEF q
    <3>5. step[q] = <<FirstOf(s)>> \o f[RestOf(s)]
      BY <3>1, <3>4
    <3> QED BY <3>3, <3>5, <2>2 DEF q
  <2> HIDE DEF Body
  <2> QED BY <2>1, <2>2
<1>7. f = [s \in D |-> Body(f, s)]
  <2>1. f = [s \in D |-> f[s]]
    BY <1>5
  <2> HIDE DEF D, Body
  <2> QED BY <2>1, <1>6
<1>8. Sentences = [s \in D |-> Body(Sentences, s)]
  <2>1. Sentences = CHOOSE h : h = [s \in D |-> Body(h, s)]
    BY DEF Sentences, FirstOf, RestOf
  <2> HIDE DEF D, Body
  <2> QED BY <1>7, <2>1
<1>9. \A s \in D : Sentences[s] = Body(Sentences, s)
  <2> HIDE DEF D, Body
  <2> QED BY <1>8
<1>10. \A s \in D : Sentences[s] \in Texts
  <2>1. \A s \in D : Sentences[s] = f[s]
    <3>1. ASSUME NEW s \in D, s \in Gapless \/ Sentences[TextRest[s]] = f[TextRest[s]]
          PROVE  Sentences[s] = f[s]
      <4>1. Sentences[s] = Body(Sentences, s) /\ f[s] = Body(f, s)
        <5> HIDE DEF Body
        <5> QED BY <1>9, <1>6
      <4>2. CASE s \in Gapless
        BY <4>1, <4>2 DEF Gapless
      <4>3. CASE s \notin Gapless
        <5>1. TextRest[s] = RestOf(s)
          BY <4>3 DEF TextRest
        <5> QED BY <4>1, <4>3, <3>1, <5>1
      <4> QED BY <4>2, <4>3
    <3> HIDE DEF D
    <3> QED BY <3>1, Agreement, GapsDecrease DEF D
  <2> QED BY <2>1, <1>5
<1>11. Sentences \in [D -> Texts]
  <2> HIDE DEF D, Body
  <2> QED BY <1>8, <1>10
<1>12. ASSUME NEW s \in D, GapStarts(s) = {} PROVE Sentences[s] = <<s>>
  BY <1>9, <1>12
<1>13. ASSUME NEW s \in D, NEW p \in D, NEW b \in D, NEW u \in D, Cut(s, p, b, u)
       PROVE  Sentences[s] = <<p>> \o Sentences[u]
  <2>1. GapStarts(s) # {} /\ FirstOf(s) = p /\ RestOf(s) = u
    BY <1>13, GapParts
  <2> QED BY <2>1, <1>9
<1> QED BY <1>11, <1>12, <1>13

(* The loop of feed.                                                       *)
Drains == [out : Texts, rest : Seq(Char)]
HeadOf(s) == SubSeq(s, 1, Boundary(s))

LEMMA StripType == ASSUME NEW s \in Seq(Char) PROVE Strip(s) \in Seq(Char)
<1>1. CASE Blank(s)
  BY <1>1, StripOfBlank, EmptySeq
<1>2. CASE ~Blank(s)
  BY <1>2, StripSplits
<1> QED BY <1>1, <1>2

LEMMA HeadIs ==
    ASSUME NEW s \in Seq(Char), Boundary(s) # 0
    PROVE  Strip(HeadOf(s)) \in Seq(Char)
<1>1. PICK p, b, u \in Seq(Char) : Cut(s, p, b, u)
  BY BoundaryIs, SplitAtGap
<1>2. HeadOf(s) = p \o b
  BY <1>1, GapParts DEF HeadOf
<1> QED BY <1>2, StripType, Closed

(* Drained gives the first sentence, stripped, and goes on with the rest.  *)
LEMMA DrainedIs ==
    /\ Drained \in [Seq(Char) -> Drains]
    /\ \A s \in Seq(Char) : GapStarts(s) = {} => Drained[s].out = <<>> /\ Drained[s].rest = s
    /\ \A s, p, b, u \in Seq(Char) : Cut(s, p, b, u) =>
         Drained[s].out = <<Strip(p \o b)>> \o Drained[u].out /\ Drained[s].rest = Drained[u].rest
<1> DEFINE D == Seq(Char)
           More(s, d) == [d EXCEPT !.out = <<Strip(HeadOf(s))>> \o @]
           Nothing(s) == [out |-> <<>>, rest |-> s]
           base == [s \in D |-> Nothing(s)]
           step == [q \in D \X Drains |-> IF q[1] \in Gapless THEN q[2] ELSE More(q[1], q[2])]
           Body(f, s) == IF Boundary(s) = 0 THEN Nothing(s)
                         ELSE LET d == f[SubSeq(s, Boundary(s) + 1, Len(s))] IN
                              [d EXCEPT !.out = <<Strip(SubSeq(s, 1, Boundary(s)))>> \o @]
<1>1. base \in [D -> Drains]
  <2>1. \A s \in D : Nothing(s) \in Drains
    BY EmptySeq DEF Drains, Texts
  <2> HIDE DEF Nothing
  <2> QED BY <2>1
<1>2. ASSUME NEW s \in D, Boundary(s) # 0, NEW d \in Drains
      PROVE  /\ More(s, d) \in Drains
             /\ More(s, d).out = <<Strip(HeadOf(s))>> \o d.out /\ More(s, d).rest = d.rest
  <2> DEFINE x == <<Strip(HeadOf(s))>>
  <2>1. x \in Texts
    BY <1>2, HeadIs DEF Texts
  <2> HIDE DEF x
  <2>2. d.out \in Texts /\ d.rest \in Seq(Char) /\ d = [out |-> d.out, rest |-> d.rest]
    BY DEF Drains
  <2>3. x \o d.out \in Texts
    BY <2>1, <2>2, ConcatProperties DEF Texts
  <2> DEFINE y == x \o d.out
  <2>4. y \in Texts /\ More(s, d) = [d EXCEPT !.out = y]
    BY <2>3 DEF x
  <2> HIDE DEF y, More
  <2>5. [d EXCEPT !.out = y] \in Drains /\ [d EXCEPT !.out = y].out = y /\ [d EXCEPT !.out = y].rest = d.rest
    BY <2>4 DEF Drains
  <2> QED BY <2>4, <2>5 DEF x, y
<1>3. \A s \in D : Boundary(s) = 0 <=> s \in Gapless
  BY BoundaryIs DEF Gapless
<1>4. step \in [D \X Drains -> Drains]
  <2>1. ASSUME NEW q \in D \X Drains
        PROVE  (IF q[1] \in Gapless THEN q[2] ELSE More(q[1], q[2])) \in Drains
    <3>1. q[1] \in D /\ q[2] \in Drains
      OBVIOUS
    <3> HIDE DEF More, D
    <3> QED BY <3>1, <1>2, <1>3
  <2> HIDE DEF More, D
  <2> QED BY <2>1
<1>5. PICK f : Solves(f, D, Drains, Gapless, base, TextRest, step)
  <2>1. Recursive(D, Drains, TextLength, Gapless, base, TextRest, step)
    <3> HIDE DEF base, step
    <3> QED BY <1>1, <1>4, GapsDecrease DEF Recursive
  <2> HIDE DEF base, step, D
  <2> QED BY <2>1, Recursion
<1>6. f \in [D -> Drains] /\ \A s \in D : f[s] = IF s \in Gapless THEN base[s] ELSE step[<<s, f[TextRest[s]]>>]
  <2> HIDE DEF base, step, D
  <2> QED BY <1>5 DEF Solves
<1>7. ASSUME NEW s \in D, s \notin Gapless
      PROVE  TextRest[s] \in D /\ SubSeq(s, Boundary(s) + 1, Len(s)) = TextRest[s] /\ Boundary(s) # 0
  <2>1. PICK p, b, u \in Seq(Char) : Cut(s, p, b, u)
    BY <1>7, SplitAtGap DEF Gapless
  <2>2. SubSeq(s, Boundary(s) + 1, Len(s)) = u /\ RestOf(s) = u /\ Boundary(s) # 0
    BY <2>1, GapParts
  <2>3. TextRest[s] = RestOf(s)
    BY <1>7 DEF TextRest
  <2> QED BY <2>2, <2>3
<1>8. ASSUME NEW s \in D PROVE f[s] = Body(f, s)
  <2>1. CASE s \in Gapless
    <3>1. Boundary(s) = 0 /\ base[s] = Nothing(s)
      BY <2>1, <1>3
    <3> HIDE DEF base, step, Nothing
    <3> QED BY <1>6, <2>1, <3>1
  <2>2. CASE s \notin Gapless
    <3>1. f[TextRest[s]] \in Drains /\ f[s] = step[<<s, f[TextRest[s]]>>]
      <4> HIDE DEF base, step
      <4> QED BY <1>6, <1>7, <2>2
    <3> DEFINE q == <<s, f[TextRest[s]]>>
    <3>2. q \in D \X Drains /\ q[1] = s /\ q[2] = f[TextRest[s]]
      BY <3>1
    <3> HIDE DEF q, More
    <3>3. step[q] = More(s, f[TextRest[s]])
      BY <2>2, <3>2
    <3>4. f[s] = More(s, f[TextRest[s]])
      BY <3>1, <3>3 DEF q
    <3>5. Body(f, s) = More(s, f[TextRest[s]])
      BY <2>2, <1>7 DEF More, HeadOf
    <3> HIDE DEF Body
    <3> QED BY <3>4, <3>5
  <2> HIDE DEF Body
  <2> QED BY <2>1, <2>2
<1>9. f = [s \in D |-> Body(f, s)]
  <2>1. f = [s \in D |-> f[s]]
    BY <1>6
  <2> HIDE DEF D, Body
  <2> QED BY <2>1, <1>8
<1>10. Drained = [s \in D |-> Body(Drained, s)]
  <2>1. Drained = CHOOSE h : h = [s \in D |-> Body(h, s)]
    BY DEF Drained
  <2> HIDE DEF D, Body
  <2> QED BY <1>9, <2>1
<1>11. ASSUME NEW s \in D
       PROVE  /\ s \in Gapless => Drained[s] = Nothing(s)
              /\ s \notin Gapless => Drained[s] = More(s, Drained[TextRest[s]])
  <2>1. Drained[s] = Body(Drained, s)
    <3> HIDE DEF D, Body
    <3> QED BY <1>10
  <2>2. CASE s \in Gapless
    BY <2>1, <2>2, <1>3
  <2>3. CASE s \notin Gapless
    <3>1. Body(Drained, s) = More(s, Drained[TextRest[s]])
      BY <2>3, <1>7 DEF More, HeadOf
    <3> HIDE DEF Body, More
    <3> QED BY <2>1, <2>3, <3>1
  <2> HIDE DEF More, Nothing
  <2> QED BY <2>2, <2>3
<1>12. \A s \in D : Drained[s] \in Drains
  <2>1. \A s \in D : Drained[s] = f[s]
    <3>1. ASSUME NEW s \in D, s \in Gapless \/ Drained[TextRest[s]] = f[TextRest[s]]
          PROVE  Drained[s] = f[s]
      <4>1. f[s] = Body(f, s)
        <5> HIDE DEF Body
        <5> QED BY <1>8
      <4>2. CASE s \in Gapless
        <5>1. f[s] = Nothing(s)
          BY <4>1, <4>2, <1>3
        <5> HIDE DEF Nothing
        <5> QED BY <5>1, <4>2, <1>11
      <4>3. CASE s \notin Gapless
        <5>1. f[s] = More(s, f[TextRest[s]])
          BY <4>1, <4>3, <1>7 DEF HeadOf
        <5> HIDE DEF More
        <5> QED BY <5>1, <4>3, <3>1, <1>11
      <4> QED BY <4>2, <4>3
    <3> HIDE DEF D
    <3> QED BY <3>1, Agreement, GapsDecrease DEF D
  <2> QED BY <2>1, <1>6
<1>13. Drained \in [D -> Drains]
  <2> HIDE DEF D, Body
  <2> QED BY <1>10, <1>12
<1>14. ASSUME NEW s \in D, GapStarts(s) = {} PROVE Drained[s].out = <<>> /\ Drained[s].rest = s
  <2>1. s \in Gapless
    BY <1>14 DEF Gapless
  <2>2. Drained[s] = Nothing(s)
    <3> HIDE DEF Nothing, More
    <3> QED BY <2>1, <1>11
  <2> QED BY <2>2
<1>15. ASSUME NEW s \in D, NEW p \in D, NEW b \in D, NEW u \in D, Cut(s, p, b, u)
       PROVE  Drained[s].out = <<Strip(p \o b)>> \o Drained[u].out /\ Drained[s].rest = Drained[u].rest
  <2>1. /\ GapStarts(s) # {} /\ RestOf(s) = u /\ Boundary(s) # 0
        /\ SubSeq(s, 1, Boundary(s)) = p \o b
    BY <1>15, GapParts
  <2>2. s \notin Gapless /\ TextRest[s] = u /\ HeadOf(s) = p \o b
    BY <2>1 DEF Gapless, TextRest, HeadOf
  <2>3. Drained[s] = More(s, Drained[u])
    <3> HIDE DEF More
    <3> QED BY <2>2, <1>11
  <2>4. Drained[u] \in Drains
    BY <1>12
  <2>5. More(s, Drained[u]).out = <<Strip(HeadOf(s))>> \o Drained[u].out /\ More(s, Drained[u]).rest = Drained[u].rest
    BY <2>1, <2>4, <1>2
  <2> HIDE DEF More
  <2> QED BY <2>2, <2>3, <2>5
<1> QED BY <1>13, <1>14, <1>15

(* A sentence by itself, and the sentences of a stripped text.             *)
Sentence(s) == s \in Seq(Char) /\ s # <<>> /\ s[1] # Space /\ GapStarts(s) = {}
Proper(ss)  == /\ ss \in Texts /\ ss # <<>>
               /\ \A i \in 1 .. Len(ss) : Sentence(ss[i]) /\ (i < Len(ss) => Last(ss[i]) = Stop)

(* A sentence that ends is no white space.                                 *)
LEMMA EndedIs ==
    ASSUME NEW p, Sentence(p), Last(p) = Stop PROVE Ended(p)
  BY DEF Sentence, Ended, Last

LEMMA BlankGap == <<Space>> \in Seq(Char) /\ Gap(<<Space>>) /\ Ink[<<Space>>] = <<>>
<1>1. <<Space>> \in Seq(Char) /\ <<Space>> # <<>> /\ Len(<<Space>>) = 1 /\ <<Space>>[1] = Space
  BY DEF Char
<1>2. Blank(<<Space>>)
  BY <1>1 DEF Blank
<1> QED BY <1>1, <1>2, InkOfBlank DEF Gap

LEMMA OneIs ==
    ASSUME NEW S, NEW e \in S
    PROVE  <<e>> \in Seq(S) /\ <<e>> # <<>> /\ Len(<<e>>) = 1 /\ <<e>>[1] = e
  OBVIOUS

(* A sentence before others.                                               *)
LEMMA ConsIs ==
    ASSUME NEW e \in Seq(Char), NEW tt \in Texts
    PROVE  /\ <<e>> \o tt \in Texts /\ <<e>> \o tt # <<>> /\ Len(<<e>> \o tt) = Len(tt) + 1
           /\ Len(tt) \in Nat /\ (<<e>> \o tt)[1] = e
           /\ \A i \in 1 .. Len(tt) : (<<e>> \o tt)[i + 1] = tt[i]
<1> DEFINE x == <<e>>
<1>1. x \in Texts /\ Len(x) = 1 /\ x[1] = e /\ x # <<>>
  BY OneIs DEF Texts
<1> HIDE DEF x
<1>2. Len(tt) \in Nat
  BY LenProperties DEF Texts
<1>3. /\ x \o tt \in Texts /\ Len(x \o tt) = Len(x) + Len(tt)
      /\ \A i \in 1 .. Len(x) + Len(tt) :
           (x \o tt)[i] = IF i <= Len(x) THEN x[i] ELSE tt[i - Len(x)]
  BY <1>1, ConcatProperties DEF Texts
<1>4. (x \o tt)[1] = e
  BY <1>1, <1>2, <1>3
<1>5. \A i \in 1 .. Len(tt) : (x \o tt)[i + 1] = tt[i]
  <2>1. ASSUME NEW i \in 1 .. Len(tt) PROVE (x \o tt)[i + 1] = tt[i]
    <3>1. i + 1 \in 1 .. Len(x) + Len(tt) /\ ~(i + 1 <= Len(x)) /\ i + 1 - Len(x) = i
      BY <1>1, <1>2
    <3> QED BY <3>1, <1>3
  <2> QED BY <2>1
<1>6. x \o tt # <<>>
  BY <1>1, ConcatEqualIffEmpty DEF Texts
<1>7. Len(x \o tt) = Len(tt) + 1
  BY <1>1, <1>2, <1>3
<1> QED BY <1>2, <1>3, <1>4, <1>5, <1>6, <1>7 DEF x

LEMMA ProperCons ==
    ASSUME NEW p, Sentence(p), Last(p) = Stop, NEW tt, Proper(tt)
    PROVE  Proper(<<p>> \o tt)
<1> DEFINE ss == <<p>> \o tt
<1>1. p \in Seq(Char) /\ tt \in Texts
  BY DEF Sentence, Proper
<1>2. /\ ss \in Texts /\ ss # <<>> /\ Len(ss) = Len(tt) + 1
      /\ Len(tt) \in Nat /\ ss[1] = p
      /\ \A i \in 1 .. Len(tt) : ss[i + 1] = tt[i]
  BY <1>1, ConsIs
<1> HIDE DEF ss
<1>3. ASSUME NEW i \in 1 .. Len(ss)
      PROVE  Sentence(ss[i]) /\ (i < Len(ss) => Last(ss[i]) = Stop)
  <2>1. CASE i = 1
    BY <2>1, <1>2
  <2>2. CASE i # 1
    <3>1. i - 1 \in 1 .. Len(tt) /\ ss[(i - 1) + 1] = tt[i - 1] /\ (i - 1) + 1 = i
      BY <2>2, <1>2
    <3>2. i < Len(ss) => i - 1 < Len(tt)
      BY <1>2
    <3> QED BY <3>1, <3>2 DEF Proper
  <2> QED BY <2>1, <2>2
<1> QED BY <1>2, <1>3 DEF Proper, ss

LEMMA ProperOne ==
    ASSUME NEW p, Sentence(p) PROVE Proper(<<p>>)
<1>1. p \in Seq(Char)
  BY DEF Sentence
<1>2. <<p>> \in Texts /\ <<p>> # <<>> /\ Len(<<p>>) = 1 /\ <<p>>[1] = p
  BY <1>1, OneIs DEF Texts
<1> QED BY <1>2 DEF Proper

LEMMA FirstAlone ==
    ASSUME NEW ss \in Texts, 1 <= Len(ss)
    PROVE  SubSeq(ss, 1, 1) = <<ss[1]>>
<1> DEFINE x == SubSeq(ss, 1, 1)
<1>0. Len(ss) \in Nat
  BY LenProperties DEF Texts
<1>1. 1 \in 1 .. Len(ss) + 1 /\ 1 \in 0 .. Len(ss) /\ 1 <= 1 + 1
  BY <1>0
<1>2. /\ x \in Seq(Seq(Char)) /\ Len(x) = 1 - 1 + 1
      /\ \A i \in 1 .. 1 - 1 + 1 : x[i] = ss[1 + i - 1]
  BY <1>1, PartIs DEF Texts
<1> HIDE DEF x
<1>3. Len(x) = 1 /\ x[1] = ss[1]
  BY <1>2
<1>4. x = <<ss[1]>>
  BY <1>2, <1>3
<1> QED BY <1>4 DEF x

LEMMA ProperSplits ==
    ASSUME NEW ss, Proper(ss), Len(ss) # 1
    PROVE  \E p, tt : /\ Sentence(p) /\ Last(p) = Stop /\ Proper(tt)
                      /\ ss = <<p>> \o tt /\ Len(tt) < Len(ss)
<1> DEFINE p == ss[1]
           tt == SubSeq(ss, 2, Len(ss))
<1>1. ss \in Texts /\ Len(ss) \in Nat /\ 1 < Len(ss)
  <2>1. ss \in Texts /\ Len(ss) \in Nat /\ Len(ss) # 0
    BY LenProperties, EmptySeq DEF Proper, Texts
  <2>2. \A n \in Nat : n # 0 /\ n # 1 => 1 < n
    OBVIOUS
  <2> QED BY <2>1, <2>2, Zenon
<1>2. Sentence(p) /\ Last(p) = Stop /\ p \in Seq(Char)
  <2>1. 1 \in 1 .. Len(ss) /\ 1 < Len(ss)
    BY <1>1
  <2>2. Sentence(p) /\ Last(p) = Stop
    BY <2>1 DEF Proper
  <2> QED BY <2>2 DEF Sentence
<1>3. ss = <<p>> \o tt
  <2>1. ss = SubSeq(ss, 1, 1) \o SubSeq(ss, 1 + 1, Len(ss))
    <3>1. 1 \in 0 .. Len(ss)
      BY <1>1
    <3> QED BY <3>1, <1>1, CutInTwo DEF Texts
  <2>2. SubSeq(ss, 1, 1) = <<p>>
    BY <1>1, FirstAlone
  <2> QED BY <2>1, <2>2
<1>4. tt \in Texts /\ Len(tt) = Len(ss) - 1 /\ \A i \in 1 .. Len(ss) - 1 : tt[i] = ss[i + 1]
  <2>1. 2 \in 1 .. Len(ss) + 1 /\ Len(ss) \in 0 .. Len(ss) /\ 2 <= Len(ss) + 1
    BY <1>1
  <2>2. /\ tt \in Texts /\ Len(tt) = Len(ss) - 2 + 1
        /\ \A i \in 1 .. Len(ss) - 2 + 1 : tt[i] = ss[2 + i - 1]
    BY <1>1, <2>1, PartIs DEF Texts
  <2> HIDE DEF tt
  <2>3. Len(ss) - 2 + 1 = Len(ss) - 1 /\ \A i \in 1 .. Len(ss) - 1 : 2 + i - 1 = i + 1
    BY <1>1
  <2> QED BY <2>2, <2>3
<1> HIDE DEF tt, p
<1>5. Proper(tt)
  <2>1. tt # <<>>
    BY <1>1, <1>4, EmptySeq
  <2>2. ASSUME NEW i \in 1 .. Len(tt)
        PROVE  Sentence(tt[i]) /\ (i < Len(tt) => Last(tt[i]) = Stop)
    <3>1. tt[i] = ss[i + 1] /\ i + 1 \in 1 .. Len(ss) /\ (i < Len(tt) => i + 1 < Len(ss))
      BY <1>1, <1>4
    <3> QED BY <3>1 DEF Proper
  <2> QED BY <2>1, <2>2, <1>4 DEF Proper
<1>6. Len(tt) < Len(ss)
  BY <1>1, <1>4
<1> QED BY <1>2, <1>3, <1>5, <1>6

(* Induction over sentences.                                               *)
LEMMA ProperInduction ==
    ASSUME NEW T, \A p : Sentence(p) => <<p>> \in T,
           \A p, tt : /\ Sentence(p) /\ Last(p) = Stop /\ Proper(tt) /\ tt \in T => <<p>> \o tt \in T
    PROVE  \A ss : Proper(ss) => ss \in T
<1> DEFINE Ok == {n \in Nat : \A ss \in Texts : Proper(ss) /\ Len(ss) < n => ss \in T}
<1>0. \A ss \in Texts : Len(ss) \in Nat
  BY LenProperties DEF Texts
<1>1. 0 \in Ok
  BY <1>0
<1>2. ASSUME NEW n \in Nat, n \in Ok PROVE n + 1 \in Ok
  <2>1. SUFFICES ASSUME NEW ss \in Texts, Proper(ss), Len(ss) < n + 1 PROVE ss \in T
    OBVIOUS
  <2>2. CASE Len(ss) = 1
    <3>1. ss = <<ss[1]>>
      BY <2>2 DEF Texts
    <3>2. Sentence(ss[1])
      BY <2>1, <2>2 DEF Proper
    <3> QED BY <3>1, <3>2
  <2>3. CASE Len(ss) # 1
    <3>1. PICK p, tt : /\ Sentence(p) /\ Last(p) = Stop /\ Proper(tt)
                       /\ ss = <<p>> \o tt /\ Len(tt) < Len(ss)
      BY <2>1, <2>3, ProperSplits
    <3>2. tt \in Texts /\ Len(tt) \in Nat /\ Len(ss) \in Nat
      BY <3>1, <1>0 DEF Proper
    <3>3. Len(tt) < n
      BY <3>1, <3>2, <2>1
    <3>4. tt \in T
      BY <3>1, <3>2, <3>3, <1>2
    <3> QED BY <3>1, <3>4
  <2> QED BY <2>2, <2>3
<1>3. \A n \in Nat : n \in Ok
  <2> HIDE DEF Ok
  <2> QED BY <1>1, <1>2, Induction
<1>4. ASSUME NEW ss, Proper(ss) PROVE ss \in T
  <2>1. ss \in Texts /\ Len(ss) + 1 \in Nat /\ Len(ss) < Len(ss) + 1
    BY <1>4, <1>0 DEF Proper
  <2> QED BY <2>1, <1>3, <1>4
<1> QED BY <1>4

(* Joined by blanks, sentences are found again.                            *)
LEMMA JoinedProper ==
    ASSUME NEW ss, Proper(ss)
    PROVE  /\ Joined[ss] \in Seq(Char) /\ Joined[ss] # <<>> /\ Joined[ss][1] # Space
           /\ Sentences[Joined[ss]] = ss
<1> DEFINE Fine(tt) == /\ Joined[tt] \in Seq(Char) /\ Joined[tt] # <<>> /\ Joined[tt][1] # Space
                       /\ Sentences[Joined[tt]] = tt
           T == {tt \in Texts : Fine(tt)}
<1>1. ASSUME NEW p, Sentence(p) PROVE <<p>> \in T
  <2>1. p \in Seq(Char) /\ <<p>> \in Texts
    BY <1>1, OneIs DEF Sentence, Texts
  <2>2. Joined[<<p>>] = p
    BY <2>1, JoinedIs
  <2>3. Sentences[p] = <<p>>
    BY <1>1, SentencesIs DEF Sentence
  <2>4. Fine(<<p>>)
    BY <1>1, <2>1, <2>2, <2>3 DEF Sentence
  <2> HIDE DEF Fine
  <2> QED BY <2>1, <2>4
<1>2. ASSUME NEW p, NEW tt, Sentence(p), Last(p) = Stop, Proper(tt), tt \in T
      PROVE  <<p>> \o tt \in T
  <2> DEFINE j == Joined[tt]
             x == p \o (<<Space>> \o j)
  <2>1. /\ p \in Seq(Char) /\ <<p>> \in Texts /\ <<p>> # <<>> /\ tt \in Texts /\ tt # <<>>
        /\ Joined[<<p>>] = p /\ p # <<>> /\ p[1] # Space
    BY <1>2, OneIs, JoinedIs DEF Sentence, Proper, Texts
  <2>2. Joined[<<p>> \o tt] = x
    BY <2>1, JoinedConcat
  <2>3. j \in Seq(Char) /\ j # <<>> /\ j[1] # Space /\ Sentences[j] = tt
    BY <1>2
  <2> HIDE DEF j
  <2>4. Cut(x, p, <<Space>>, j)
    BY <1>2, <2>3, EndedIs, BlankGap DEF Cut, Begins
  <2> DEFINE y == <<Space>> \o j
  <2>5. y \in Seq(Char)
    BY <2>3, BlankGap, Closed
  <2> HIDE DEF y
  <2>6. /\ p \o y \in Seq(Char) /\ Len(p \o y) = Len(p) + Len(y) /\ Len(p) \in Nat /\ Len(y) \in Nat
        /\ \A i \in 1 .. Len(p) : (p \o y)[i] = p[i]
    BY <2>1, <2>5, ConcatIs
  <2>7. Len(p) # 0
    BY <2>1, EmptySeq
  <2>8. x \in Seq(Char) /\ x # <<>> /\ x[1] # Space
    <3>1. 1 \in 1 .. Len(p) /\ Len(p \o y) # 0
      BY <2>6, <2>7
    <3>2. p \o y # <<>>
      BY <3>1, EmptySeq
    <3> QED BY <3>1, <3>2, <2>1, <2>6 DEF y
  <2> HIDE DEF x
  <2>9. Sentences[x] = <<p>> \o tt
    BY <2>1, <2>3, <2>4, <2>8, BlankGap, SentencesIs, ZenonT(30)
  <2>10. <<p>> \o tt \in Texts
    BY <2>1, ConsIs
  <2> QED BY <2>2, <2>8, <2>9, <2>10
<1> HIDE DEF Fine
<1>3. ss \in T
  <2> HIDE DEF T
  <2> QED BY <1>1, <1>2, ProperInduction
<1> QED BY <1>3 DEF Fine

(* The sentences of a stripped text are sentences, with all its ink.       *)
LEMMA SentencesProper ==
    ASSUME NEW t \in Seq(Char), t # <<>>, Clean(t)
    PROVE  Proper(Sentences[t]) /\ Ink[Joined[Sentences[t]]] = Ink[t]
<1> DEFINE Fine(s) == Proper(Sentences[s]) /\ Ink[Joined[Sentences[s]]] = Ink[s]
           T == {s \in Seq(Char) : s # <<>> /\ Clean(s) => Fine(s)}
<1>1. ASSUME NEW s \in Seq(Char), GapStarts(s) = {} PROVE s \in T
  <2>1. SUFFICES ASSUME s # <<>>, Clean(s) PROVE Fine(s)
    OBVIOUS
  <2>2. Sentences[s] = <<s>> /\ Sentence(s)
    BY <1>1, <2>1, SentencesIs DEF Sentence, Clean
  <2>3. Joined[<<s>>] = s
    BY JoinedIs
  <2> QED BY <2>2, <2>3, ProperOne
<1>2. ASSUME NEW s \in Seq(Char), NEW p \in Seq(Char), NEW b \in Seq(Char), NEW u \in Seq(Char),
             Cut(s, p, b, u), u \in T
      PROVE  s \in T
  <2>1. SUFFICES ASSUME s # <<>>, Clean(s) PROVE Fine(s)
    OBVIOUS
  <2>2. /\ Ended(p) /\ Gap(b) /\ Begins(u) /\ s = p \o (b \o u)
    BY <1>2 DEF Cut
  <2>3. /\ Len(s) = Len(p) + Len(b) + Len(u)
        /\ Len(p) \in Nat /\ Len(b) \in Nat /\ Len(u) \in Nat
        /\ \A i \in 1 .. Len(p) : s[i] = p[i]
        /\ \A i \in 1 .. Len(b) : s[Len(p) + i] = b[i]
        /\ \A i \in 1 .. Len(u) : s[Len(p) + Len(b) + i] = u[i]
    BY <2>2, ThreeParts
  <2>4. Len(p) # 0 /\ Len(b) # 0
    BY <2>2, EmptySeq DEF Ended, Gap
  <2>5. s[1] # Space /\ s[Len(s)] # Space
    BY <2>1 DEF Clean
  <2>6. Sentence(p) /\ Last(p) = Stop
    <3>1. 1 \in 1 .. Len(p)
      BY <2>3, <2>4
    <3>2. p[1] # Space
      BY <3>1, <2>3, <2>5
    <3> QED BY <3>2, <2>2 DEF Sentence, Ended, Last
  <2>7. u # <<>>
    <3>1. SUFFICES ASSUME Len(u) = 0 PROVE FALSE
      BY EmptySeq
    <3>2. Len(b) \in 1 .. Len(b) /\ Len(s) = Len(p) + Len(b)
      BY <3>1, <2>3, <2>4
    <3>3. s[Len(s)] = b[Len(b)] /\ b[Len(b)] = Space
      BY <3>2, <2>2, <2>3 DEF Gap, Blank
    <3> QED BY <3>3, <2>5
  <2>8. Clean(u)
    <3>1. Len(u) \in 1 .. Len(u) /\ Len(p) + Len(b) + Len(u) = Len(s)
      BY <2>3, <2>7, EmptySeq
    <3>2. u[Len(u)] # Space
      BY <3>1, <2>3, <2>5
    <3> QED BY <3>2, <2>2, <2>7 DEF Clean, Begins
  <2> DEFINE tt == Sentences[u]
  <2>9. Proper(tt) /\ Ink[Joined[tt]] = Ink[u] /\ tt \in Texts /\ tt # <<>> /\ Joined[tt] \in Seq(Char)
    BY <1>2, <2>7, <2>8, JoinedIs DEF Proper
  <2>10. Sentences[s] = <<p>> \o tt
    BY <1>2, SentencesIs
  <2> HIDE DEF tt
  <2>11. Proper(<<p>> \o tt)
    BY <2>6, <2>9, ProperCons
  <2>12. Joined[<<p>> \o tt] = p \o (<<Space>> \o Joined[tt])
    <3>1. <<p>> \in Texts /\ <<p>> # <<>> /\ Joined[<<p>>] = p
      BY OneIs, JoinedIs DEF Texts
    <3> QED BY <3>1, <2>9, JoinedConcat
  <2>13. Ink[p \o (<<Space>> \o Joined[tt])] = Ink[p] \o Ink[u]
    <3>1. <<Space>> \o Joined[tt] \in Seq(Char)
      BY <2>9, BlankGap, Closed
    <3>2. Ink[p \o (<<Space>> \o Joined[tt])] = Ink[p] \o Ink[<<Space>> \o Joined[tt]]
      BY <3>1, InkConcat
    <3>3. Ink[<<Space>> \o Joined[tt]] = Ink[<<Space>>] \o Ink[Joined[tt]]
      BY <2>9, BlankGap, InkConcat
    <3>4. <<>> \o Ink[u] = Ink[u]
      BY InkIs, ConcatEmptySeq
    <3> QED BY <3>2, <3>3, <3>4, <2>9, BlankGap
  <2>14. Ink[s] = Ink[p] \o Ink[u]
    <3>1. b \o u \in Seq(Char) /\ Ink[b] = <<>>
      BY <2>2, Closed, InkOfBlank DEF Gap
    <3>2. Ink[p \o (b \o u)] = Ink[p] \o Ink[b \o u] /\ Ink[b \o u] = Ink[b] \o Ink[u]
      BY <3>1, InkConcat
    <3>3. <<>> \o Ink[u] = Ink[u]
      BY InkIs, ConcatEmptySeq
    <3> QED BY <3>1, <3>2, <3>3, <2>2
  <2> QED BY <2>10, <2>11, <2>12, <2>13, <2>14
<1> HIDE DEF Fine
<1>3. t \in T
  <2> HIDE DEF T
  <2> QED BY <1>1, <1>2, GapInduction
<1> QED BY <1>3 DEF Fine

-----------------------------------------------------------------------------
(* chunk_text.                                                             *)

(* The loop of chunk_text over the sentences.                              *)
Groups == [chunks : Texts, current : Texts, len : Nat]

LEMMA AppendText ==
    ASSUME NEW ss \in Texts, NEW s \in Seq(Char)
    PROVE  /\ Append(ss, s) = ss \o <<s>> /\ Append(ss, s) \in Texts /\ Append(ss, s) # <<>>
           /\ Len(Append(ss, s)) = Len(ss) + 1 /\ Len(ss) \in Nat
           /\ \A i \in 1 .. Len(ss) : Append(ss, s)[i] = ss[i]
           /\ Append(ss, s)[Len(ss) + 1] = s
  BY AppendProperties, AppendIsConcat, LenProperties DEF Texts

(* What one step of the loop does.                                         *)
Starts(g, s, max) == g.current # <<>> /\ g.len + Len(s) + 1 > max

LEMMA GroupIs ==
    ASSUME NEW g \in Groups, NEW s \in Seq(Char), NEW max
    PROVE  /\ Group(g, s, max) \in Groups
           /\ Starts(g, s, max) =>
                /\ Group(g, s, max).chunks = g.chunks \o <<Joined[g.current]>>
                /\ Group(g, s, max).current = <<s>>
                /\ Group(g, s, max).len = Len(s)
           /\ ~Starts(g, s, max) =>
                /\ Group(g, s, max).chunks = g.chunks
                /\ Group(g, s, max).current = g.current \o <<s>>
                /\ Group(g, s, max).len = g.len + Len(s) + 1
<1>1. /\ g.chunks \in Texts /\ g.current \in Texts /\ g.len \in Nat /\ Len(s) \in Nat
      /\ Joined[g.current] \in Seq(Char) /\ <<s>> \in Texts
  BY LenProperties, JoinedIs, OneIs DEF Groups, Texts
<1> DEFINE x == Append(g.chunks, Joined[g.current])
           y == Append(g.current, s)
           n == g.len + Len(s) + 1
<1>2. /\ x \in Texts /\ x = g.chunks \o <<Joined[g.current]>>
      /\ y \in Texts /\ y = g.current \o <<s>> /\ n \in Nat
  <2>1. x \in Texts /\ x = g.chunks \o <<Joined[g.current]>>
    BY <1>1, AppendText
  <2>2. y \in Texts /\ y = g.current \o <<s>>
    BY <1>1, AppendText
  <2>3. n \in Nat
    BY <1>1
  <2> HIDE DEF x, y, n
  <2> QED BY <2>1, <2>2, <2>3
<1>3. Starts(g, s, max) => Group(g, s, max) = [chunks |-> x, current |-> <<s>>, len |-> Len(s)]
  BY DEF Group, Starts
<1>4. ~Starts(g, s, max) => Group(g, s, max) = [g EXCEPT !.current = y, !.len = n]
  BY DEF Group, Starts
<1> HIDE DEF x, y, n
<1>5. CASE Starts(g, s, max)
  <2> DEFINE r == [chunks |-> x, current |-> <<s>>, len |-> Len(s)]
  <2>1. r \in Groups
    BY <1>1, <1>2 DEF Groups
  <2>2. r.chunks = x /\ r.current = <<s>> /\ r.len = Len(s)
    OBVIOUS
  <2> HIDE DEF r
  <2>3. Group(g, s, max) = r
    BY <1>3, <1>5 DEF r
  <2> QED BY <2>1, <2>2, <2>3, <1>2, <1>5
<1>6. CASE ~Starts(g, s, max)
  <2>1. /\ [g EXCEPT !.current = y, !.len = n] \in Groups
        /\ [g EXCEPT !.current = y, !.len = n].chunks = g.chunks
        /\ [g EXCEPT !.current = y, !.len = n].current = y
        /\ [g EXCEPT !.current = y, !.len = n].len = n
    BY <1>2 DEF Groups
  <2> QED BY <2>1, <1>2, <1>4, <1>6 DEF n
<1> QED BY <1>5, <1>6

NoGroup == [chunks |-> <<>>, current |-> <<>>, len |-> 0]

GroupLoop(f, ss, max) ==
    /\ f \in [0 .. Len(ss) -> Groups] /\ f[0] = NoGroup
    /\ \A i \in 1 .. Len(ss) : f[i] = Group(f[i - 1], ss[i], max)

(* Grouped is the loop's value after the last sentence.                    *)
LEMMA GroupedIs ==
    ASSUME NEW ss \in Texts, NEW max
    PROVE  \E f : GroupLoop(f, ss, max) /\ Grouped(ss, max) = f[Len(ss)]
<1> DEFINE n == Len(ss)
           step == [q \in (1 .. n) \X Groups |-> Group(q[2], ss[q[1]], max)]
           Body(f, i) == IF i = 0 THEN [chunks |-> <<>>, current |-> <<>>, len |-> 0]
                                  ELSE Group(f[i - 1], ss[i], max)
<1>1. n \in Nat /\ \A i \in 1 .. n : ss[i] \in Seq(Char)
  BY LenProperties, ElementOfSeq DEF Texts
<1>2. NoGroup \in Groups
  BY EmptySeq DEF NoGroup, Groups, Texts
<1>3. step \in [(1 .. n) \X Groups -> Groups]
  <2>1. ASSUME NEW q \in (1 .. n) \X Groups PROVE Group(q[2], ss[q[1]], max) \in Groups
    <3>1. q[1] \in 1 .. n /\ q[2] \in Groups
      OBVIOUS
    <3> HIDE DEF n
    <3>2. ss[q[1]] \in Seq(Char)
      BY <3>1, <1>1
    <3> QED BY <3>1, <3>2, GroupIs
  <2> HIDE DEF n
  <2> QED BY <2>1
<1> HIDE DEF n
<1>4. PICK f : LoopSolves(f, n, Groups, NoGroup, step)
  <2> HIDE DEF step
  <2> QED BY <1>1, <1>2, <1>3, Loop
<1>5. /\ f \in [0 .. n -> Groups] /\ f[0] = NoGroup
      /\ \A i \in 1 .. n : f[i] = step[<<i, f[i - 1]>>]
  <2> HIDE DEF step
  <2> QED BY <1>4 DEF LoopSolves
<1>6. ASSUME NEW i \in 1 .. n PROVE f[i] = Group(f[i - 1], ss[i], max)
  <2>1. i - 1 \in 0 .. n
    BY <1>1
  <2> DEFINE q == <<i, f[i - 1]>>
  <2>2. q \in (1 .. n) \X Groups /\ q[1] = i /\ q[2] = f[i - 1]
    BY <2>1, <1>5
  <2>3. f[i] = step[q]
    <3> HIDE DEF step
    <3> QED BY <1>5
  <2> HIDE DEF q
  <2> QED BY <2>2, <2>3
<1>7. f = [i \in 0 .. n |-> Body(f, i)]
  <2>1. ASSUME NEW i \in 0 .. n PROVE f[i] = Body(f, i)
    <3>1. CASE i = 0
      BY <3>1, <1>5 DEF NoGroup
    <3>2. CASE i # 0
      BY <3>2, <1>1, <1>6
    <3> QED BY <3>1, <3>2
  <2>2. f = [i \in 0 .. n |-> f[i]]
    BY <1>5
  <2> HIDE DEF Body
  <2> QED BY <2>1, <2>2
<1> DEFINE h == CHOOSE h : h = [i \in 0 .. n |-> Body(h, i)]
<1>8. Grouped(ss, max) = h[n]
  BY DEF Grouped, n
<1>9. h = [i \in 0 .. n |-> Body(h, i)]
  <2> HIDE DEF Body
  <2> QED BY <1>7
<1> HIDE DEF h
<1>10. \A i \in 0 .. n : h[i] = Body(h, i)
  <2> HIDE DEF Body
  <2> QED BY <1>9
<1>11. h[0] = NoGroup
  BY <1>1, <1>10 DEF NoGroup
<1>12. ASSUME NEW i \in 1 .. n PROVE h[i] = Group(h[i - 1], ss[i], max)
  <2>1. i \in 0 .. n /\ i # 0
    BY <1>1
  <2> QED BY <2>1, <1>10
<1>13. \A i \in 0 .. n : h[i] \in Groups
  <2> DEFINE Ok == {k \in Nat : k <= n => h[k] \in Groups}
  <2>1. 0 \in Ok
    BY <1>2, <1>11
  <2>2. ASSUME NEW k \in Nat, k \in Ok PROVE k + 1 \in Ok
    <3>1. SUFFICES ASSUME k + 1 <= n PROVE h[k + 1] \in Groups
      OBVIOUS
    <3>2. k + 1 \in 1 .. n /\ (k + 1) - 1 = k /\ h[k] \in Groups
      BY <3>1, <2>2, <1>1
    <3>3. h[k + 1] = Group(h[k], ss[k + 1], max)
      BY <3>2, <1>12
    <3> QED BY <3>2, <3>3, <1>1, GroupIs, ZenonT(30)
  <2>3. \A k \in Nat : k \in Ok
    <3> HIDE DEF Ok
    <3> QED BY <2>1, <2>2, Induction
  <2> QED BY <2>3, <1>1
<1>14. h \in [0 .. n -> Groups]
  <2> HIDE DEF Body
  <2> QED BY <1>9, <1>13
<1> QED BY <1>8, <1>11, <1>12, <1>14 DEF GroupLoop, n

(* What a chunk is: the loop keeps it, whatever max_chars.                 *)
Fit(c, max) == /\ c \in Seq(Char) /\ c # <<>> /\ c[1] # Space
               /\ Len(c) <= max \/ GapStarts(c) = {}

GroupInv(g, ss, max, i) ==
    /\ g \in Groups /\ g.current # <<>>
    /\ Joined[g.chunks \o <<Joined[g.current]>>] = Joined[SubSeq(ss, 1, i)]
    /\ Len(Joined[g.current]) <= g.len
    /\ Fit(Joined[g.current], max)
    /\ Last(Joined[g.current]) = Last(ss[i])
    /\ \A k \in 1 .. Len(g.chunks) : Fit(g.chunks[k], max) /\ Last(g.chunks[k]) = Stop

(* A sentence joined to others.                                            *)
LEMMA JoinOne ==
    ASSUME NEW ss \in Texts, ss # <<>>, NEW s \in Seq(Char), s # <<>>
    PROVE  /\ ss \o <<s>> \in Texts /\ ss \o <<s>> # <<>>
           /\ Joined[ss] \in Seq(Char) /\ Joined[ss \o <<s>>] \in Seq(Char)
           /\ Joined[ss \o <<s>>] = Joined[ss] \o (<<Space>> \o s)
           /\ Len(Joined[ss \o <<s>>]) = Len(Joined[ss]) + 1 + Len(s)
           /\ Last(Joined[ss \o <<s>>]) = Last(s)
           /\ Joined[ss \o <<s>>] # <<>>
           /\ Joined[ss] # <<>> => Joined[ss \o <<s>>][1] = Joined[ss][1]
<1> DEFINE a == Joined[ss]
           d == <<Space>>
           x == Joined[ss \o <<s>>]
<1>1. /\ ss \o <<s>> \in Texts /\ ss \o <<s>> # <<>> /\ a \in Seq(Char) /\ x \in Seq(Char)
      /\ x = a \o d \o s
  <2>1. ss \o <<s>> \in Texts /\ ss \o <<s>> # <<>>
    BY AppendText
  <2>2. a \in Seq(Char) /\ x \in Seq(Char)
    BY <2>1, JoinedIs
  <2>3. x = a \o d \o s
    BY JoinedIs
  <2> HIDE DEF a, d, x
  <2> QED BY <2>1, <2>2, <2>3
<1>2. d \in Seq(Char) /\ Len(d) = 1
  BY BlankGap
<1> HIDE DEF a, d, x
<1>3. x = a \o (d \o s)
  BY <1>1, <1>2, Assoc
<1>4. /\ Len(x) = Len(a) + Len(d) + Len(s)
      /\ Len(a) \in Nat /\ Len(s) \in Nat
      /\ \A i \in 1 .. Len(a) : x[i] = a[i]
      /\ \A i \in 1 .. Len(s) : x[Len(a) + Len(d) + i] = s[i]
  <2>1. a \in Seq(Char) /\ d \in Seq(Char) /\ x = a \o (d \o s)
    BY <1>1, <1>2, <1>3
  <2> QED BY <2>1, ThreeParts
<1>5. Len(s) \in 1 .. Len(s) /\ Len(x) # 0
  BY <1>2, <1>4, EmptySeq
<1>6. Last(x) = Last(s)
  <2>1. x[Len(a) + Len(d) + Len(s)] = s[Len(s)]
    BY <1>4, <1>5
  <2> QED BY <2>1, <1>4 DEF Last
<1>7. a # <<>> => x[1] = a[1]
  <2>1. a # <<>> => 1 \in 1 .. Len(a)
    BY <1>1, <1>4, EmptySeq
  <2> QED BY <2>1, <1>4
<1>8. x # <<>>
  BY <1>1, <1>5, EmptySeq
<1>9. Len(x) = Len(a) + 1 + Len(s)
  BY <1>2, <1>4
<1> QED BY <1>1, <1>3, <1>6, <1>7, <1>8, <1>9 DEF a, d, x

(* The first sentences of a text.                                          *)
LEMMA PrefixIs ==
    ASSUME NEW ss \in Texts, NEW i \in Nat, i < Len(ss)
    PROVE  /\ SubSeq(ss, 1, i) \in Texts /\ Len(SubSeq(ss, 1, i)) = i
           /\ ss[i + 1] \in Seq(Char)
           /\ SubSeq(ss, 1, i + 1) = SubSeq(ss, 1, i) \o <<ss[i + 1]>>
<1>0. ss \in Seq(Seq(Char)) /\ Len(ss) \in Nat
  BY LenProperties DEF Texts
<1>1. 1 \in 1 .. Len(ss) + 1 /\ i \in 0 .. Len(ss) /\ 1 <= i + 1
  BY <1>0
<1>2. SubSeq(ss, 1, i) \in Seq(Seq(Char)) /\ Len(SubSeq(ss, 1, i)) = i - 1 + 1
  BY <1>0, <1>1, PartIs
<1>3. i + 1 \in 1 .. Len(ss) /\ i - 1 + 1 = i
  BY <1>0
<1>4. ss[i + 1] \in Seq(Char)
  BY <1>0, <1>3, ElementOfSeq
<1>5. SubSeq(ss, 1, i + 1) = SubSeq(ss, 1, i) \o <<ss[i + 1]>>
  <2> DEFINE m == i + 1
  <2>1. m \in 1 .. Len(ss) /\ m - 1 = i
    BY <1>3
  <2> HIDE DEF m
  <2>2. SubSeq(ss, 1, m) = SubSeq(ss, 1, m - 1) \o <<ss[m]>>
    BY <1>0, <2>1, SubSeqRecursiveSecond
  <2> QED BY <2>1, <2>2 DEF m
<1> QED BY <1>2, <1>3, <1>4, <1>5 DEF Texts

LEMMA FitSentence ==
    ASSUME NEW s, Sentence(s), NEW max PROVE Fit(s, max)
  BY DEF Sentence, Fit

(* The first sentence, and one more, keep what a chunk is.                 *)
LEMMA GroupFirst ==
    ASSUME NEW ss, Proper(ss), NEW max \in Nat
    PROVE  GroupInv(Group(NoGroup, ss[1], max), ss, max, 1)
<1> DEFINE s == ss[1]
           g == Group(NoGroup, s, max)
<1>1. ss \in Texts /\ Len(ss) \in Nat /\ Len(ss) # 0
  BY LenProperties, EmptySeq DEF Proper, Texts
<1>2. Sentence(s) /\ s \in Seq(Char) /\ Len(s) \in Nat
  <2>1. 1 \in 1 .. Len(ss)
    BY <1>1
  <2>2. Sentence(s)
    BY <2>1 DEF Proper
  <2> QED BY <2>2, LenProperties DEF Sentence
<1>3. NoGroup \in Groups /\ NoGroup.chunks = <<>> /\ NoGroup.current = <<>> /\ NoGroup.len = 0
  BY EmptySeq DEF NoGroup, Groups, Texts
<1>4. ~Starts(NoGroup, s, max)
  BY <1>3 DEF Starts
<1>5. <<s>> \in Texts /\ <<s>> # <<>> /\ Joined[<<s>>] = s
  BY <1>2, OneIs, JoinedIs DEF Texts
<1>6. g \in Groups /\ g.chunks = <<>> /\ g.current = <<>> \o <<s>> /\ g.len = 0 + Len(s) + 1
  <2> HIDE DEF s
  <2>1. /\ g \in Groups /\ g.chunks = NoGroup.chunks
        /\ g.current = NoGroup.current \o <<s>> /\ g.len = NoGroup.len + Len(s) + 1
    BY <1>2, <1>3, <1>4, GroupIs
  <2> HIDE DEF g
  <2> QED BY <2>1, <1>3
<1>7. <<>> \o <<s>> = <<s>>
  BY <1>5, ConcatEmptySeq DEF Texts
<1>8. SubSeq(ss, 1, 1) = <<s>>
  <2>1. 1 <= Len(ss)
    BY <1>1
  <2> QED BY <1>1, <2>1, FirstAlone
<1> HIDE DEF g, s
<1>9. Fit(s, max)
  BY <1>2, FitSentence
<1>10. g.current = <<s>> /\ Joined[g.current] = s
  BY <1>5, <1>6, <1>7
<1>11. Len(s) <= g.len
  BY <1>2, <1>6
<1>12. Joined[g.chunks \o <<Joined[g.current]>>] = Joined[SubSeq(ss, 1, 1)]
  BY <1>6, <1>7, <1>8, <1>10
<1>13. \A k \in 1 .. Len(g.chunks) : Fit(g.chunks[k], max) /\ Last(g.chunks[k]) = Stop
  BY <1>6, EmptySeq
<1> QED BY <1>5, <1>6, <1>9, <1>10, <1>11, <1>12, <1>13 DEF GroupInv, g, s

LEMMA GroupStep ==
    ASSUME NEW ss, Proper(ss), NEW max \in Nat, NEW i \in Nat \ {0}, i < Len(ss),
           NEW g, GroupInv(g, ss, max, i)
    PROVE  GroupInv(Group(g, ss[i + 1], max), ss, max, i + 1)
<1> DEFINE s == ss[i + 1]
           a == SubSeq(ss, 1, i)
           j == Joined[g.current]
           h == Group(g, s, max)
           d == <<Space>> \o s
<1>1. ss \in Texts /\ Len(ss) \in Nat
  BY LenProperties DEF Proper, Texts
<1>2. /\ a \in Texts /\ a # <<>> /\ s \in Seq(Char)
      /\ SubSeq(ss, 1, i + 1) = a \o <<s>>
  <2>1. a \in Texts /\ Len(a) = i /\ s \in Seq(Char) /\ SubSeq(ss, 1, i + 1) = a \o <<s>>
    BY <1>1, PrefixIs
  <2> HIDE DEF a
  <2>2. a # <<>>
    BY <2>1, EmptySeq
  <2> QED BY <2>1, <2>2
<1>3. Sentence(s) /\ Last(ss[i]) = Stop
  <2>1. i + 1 \in 1 .. Len(ss) /\ i \in 1 .. Len(ss)
    BY <1>1
  <2> QED BY <2>1 DEF Proper
<1> HIDE DEF a, s
<1>4. s # <<>> /\ Len(s) \in Nat
  BY <1>2, <1>3, LenProperties DEF Sentence
<1>5. /\ g \in Groups /\ g.current # <<>> /\ Joined[g.chunks \o <<j>>] = Joined[a]
      /\ Len(j) <= g.len /\ Fit(j, max) /\ Last(j) = Last(ss[i])
      /\ \A k \in 1 .. Len(g.chunks) : Fit(g.chunks[k], max) /\ Last(g.chunks[k]) = Stop
  BY DEF GroupInv, a
<1>6. /\ g.chunks \in Texts /\ g.current \in Texts /\ g.len \in Nat
      /\ j \in Seq(Char) /\ Len(j) \in Nat /\ j # <<>> /\ j[1] # Space
  <2>1. g.chunks \in Texts /\ g.current \in Texts /\ g.len \in Nat
    BY <1>5 DEF Groups
  <2>2. j \in Seq(Char) /\ j # <<>> /\ j[1] # Space
    BY <1>5 DEF Fit
  <2> HIDE DEF j
  <2> QED BY <2>1, <2>2, LenProperties
<1>7. Joined[SubSeq(ss, 1, i + 1)] = Joined[a] \o d /\ Joined[a] \in Seq(Char)
  BY <1>2, <1>4, JoinOne
<1>8. /\ h \in Groups
      /\ Starts(g, s, max) =>
           h.chunks = g.chunks \o <<j>> /\ h.current = <<s>> /\ h.len = Len(s)
      /\ ~Starts(g, s, max) =>
           h.chunks = g.chunks /\ h.current = g.current \o <<s>> /\ h.len = g.len + Len(s) + 1
  BY <1>2, <1>5, GroupIs
<1>9. /\ <<s>> \in Texts /\ <<s>> # <<>> /\ Joined[<<s>>] = s
      /\ <<j>> \in Texts /\ <<j>> # <<>> /\ Joined[<<j>>] = j
  BY <1>2, <1>6, OneIs, JoinedIs DEF Texts
<1>10. d \in Seq(Char)
  BY <1>2, BlankGap, Closed
<1> HIDE DEF j, h, d
<1>11. CASE Starts(g, s, max)
  <2> DEFINE c == g.chunks \o <<j>>
  <2>1. /\ c \in Texts /\ c # <<>> /\ Len(c) = Len(g.chunks) + 1 /\ Len(g.chunks) \in Nat
        /\ \A k \in 1 .. Len(g.chunks) : c[k] = g.chunks[k]
        /\ c[Len(g.chunks) + 1] = j
    <3> DEFINE x == Append(g.chunks, j)
    <3>1. /\ x = c /\ x \in Texts /\ x # <<>> /\ Len(x) = Len(g.chunks) + 1 /\ Len(g.chunks) \in Nat
          /\ \A k \in 1 .. Len(g.chunks) : x[k] = g.chunks[k]
          /\ x[Len(g.chunks) + 1] = j
      BY <1>6, AppendText
    <3> HIDE DEF x, c
    <3> QED BY <3>1
  <2> HIDE DEF c
  <2>2. h.chunks = c /\ h.current = <<s>> /\ h.len = Len(s) /\ Joined[h.current] = s
    BY <1>8, <1>9, <1>11 DEF c
  <2>3. Joined[c \o <<s>>] = Joined[c] \o d /\ Joined[c] = Joined[a]
    BY <2>1, <1>2, <1>4, <1>5, JoinOne DEF d, c
  <2>4. Joined[h.chunks \o <<Joined[h.current]>>] = Joined[SubSeq(ss, 1, i + 1)]
    BY <2>2, <2>3, <1>7
  <2>5. ASSUME NEW k \in 1 .. Len(h.chunks)
        PROVE  Fit(h.chunks[k], max) /\ Last(h.chunks[k]) = Stop
    <3>1. CASE k = Len(g.chunks) + 1
      <4>1. h.chunks[k] = j
        BY <3>1, <2>1, <2>2
      <4> QED BY <4>1, <1>3, <1>5 DEF j
    <3>2. CASE k # Len(g.chunks) + 1
      <4>1. k \in 1 .. Len(g.chunks)
        BY <3>2, <2>1, <2>2
      <4>2. h.chunks[k] = g.chunks[k]
        BY <4>1, <2>1, <2>2
      <4> QED BY <4>1, <4>2, <1>5
    <3> QED BY <3>1, <3>2
  <2>6. Len(s) <= h.len /\ h.current # <<>> /\ Fit(s, max)
    BY <2>2, <1>3, <1>4, <1>9, FitSentence
  <2> QED BY <1>8, <2>2, <2>4, <2>5, <2>6 DEF GroupInv, h, s
<1>12. CASE ~Starts(g, s, max)
  <2> DEFINE e == Joined[h.current]
  <2>1. h.chunks = g.chunks /\ h.current = g.current \o <<s>> /\ h.len = g.len + Len(s) + 1
    BY <1>8, <1>12
  <2>2. /\ h.current # <<>> /\ e \in Seq(Char) /\ e # <<>>
        /\ e = j \o d /\ Len(e) = Len(j) + 1 + Len(s) /\ Last(e) = Last(s)
        /\ e[1] = j[1]
    <3>1. /\ g.current \in Texts /\ g.current # <<>>
          /\ s \in Seq(Char) /\ s # <<>> /\ Joined[g.current] # <<>>
      BY <1>2, <1>4, <1>5, <1>6 DEF j
    <3> DEFINE y == g.current \o <<s>>
    <3>2. /\ y # <<>> /\ Joined[y] \in Seq(Char) /\ Joined[y] # <<>>
          /\ Joined[y] = Joined[g.current] \o (<<Space>> \o s)
          /\ Len(Joined[y]) = Len(Joined[g.current]) + 1 + Len(s)
          /\ Last(Joined[y]) = Last(s) /\ Joined[y][1] = Joined[g.current][1]
      BY <3>1, JoinOne
    <3>3. h.current = y
      BY <2>1
    <3> HIDE DEF y
    <3> QED BY <3>2, <3>3 DEF j, d
  <2>3. g.len + Len(s) + 1 <= max
    <3>1. ~(g.len + Len(s) + 1 > max)
      BY <1>5, <1>12 DEF Starts
    <3> QED BY <3>1, <1>4, <1>6
  <2> HIDE DEF e
  <2>4. Len(e) <= h.len /\ Len(e) <= max
    <3>1. Len(j) <= g.len
      BY <1>5 DEF j
    <3> QED BY <3>1, <2>1, <2>2, <2>3, <1>4, <1>6
  <2>5. Fit(e, max)
    BY <2>2, <2>4, <1>6 DEF Fit
  <2>6. Joined[g.chunks \o <<e>>] = Joined[a] \o d
    <3>1. CASE g.chunks = <<>>
      <4>1. <<>> \o <<e>> = <<e>> /\ <<>> \o <<j>> = <<j>> /\ Joined[<<e>>] = e
        BY <2>2, <1>9, JoinedIs, OneIs, ConcatEmptySeq
      <4> QED BY <3>1, <4>1, <2>2, <1>5, <1>9 DEF j
    <3>2. CASE g.chunks # <<>>
      <4> DEFINE c == Joined[g.chunks]
                 z == <<Space>>
      <4>1. c \in Seq(Char) /\ z \in Seq(Char)
        BY <1>6, JoinedIs, BlankGap
      <4>2. Joined[g.chunks \o <<e>>] = c \o (z \o e) /\ Joined[g.chunks \o <<j>>] = c \o (z \o j)
        BY <3>2, <1>6, <2>2, JoinOne
      <4> HIDE DEF c, z
      <4>3. z \o j \in Seq(Char) /\ j \o d \in Seq(Char)
        BY <4>1, <1>6, <1>10, Closed
      <4>4. c \o (z \o (j \o d)) = (c \o (z \o j)) \o d
        <5>1. z \o (j \o d) = (z \o j) \o d
          BY <4>1, <1>6, <1>10, Assoc
        <5>2. c \o ((z \o j) \o d) = (c \o (z \o j)) \o d
          BY <4>1, <4>3, <1>10, Assoc
        <5> QED BY <5>1, <5>2
      <4> QED BY <4>2, <4>4, <2>2, <1>5 DEF j
    <3> QED BY <3>1, <3>2
  <2>7. Joined[h.chunks \o <<e>>] = Joined[SubSeq(ss, 1, i + 1)]
    BY <2>1, <2>6, <1>7
  <2>8. \A k \in 1 .. Len(h.chunks) : Fit(h.chunks[k], max) /\ Last(h.chunks[k]) = Stop
    BY <2>1, <1>5
  <2> QED BY <1>8, <2>2, <2>4, <2>5, <2>7, <2>8 DEF GroupInv, e, h, s
<1> QED BY <1>11, <1>12 DEF s

(* chunk_text of a text that is not blank.                                 *)
LEMMA ChunksAre ==
    ASSUME NEW t \in Seq(Char), ~Blank(t), NEW max \in Nat
    PROVE  LET c == ChunkText(t, max) IN
           /\ c \in Texts /\ c # <<>>
           /\ Joined[c] = Joined[Sentences[Strip(t)]]
           /\ \A k \in 1 .. Len(c) : Fit(c[k], max) /\ (k < Len(c) => Last(c[k]) = Stop)
<1> DEFINE ss == Sentences[Strip(t)]
           n == Len(ss)
<1>1. Strip(t) \in Seq(Char) /\ Strip(t) # <<>> /\ Clean(Strip(t))
  BY StripSplits
<1>2. Proper(ss)
  BY <1>1, SentencesProper
<1>3. ss \in Texts /\ n \in Nat /\ n # 0
  <2> HIDE DEF ss
  <2> QED BY <1>2, LenProperties, EmptySeq DEF Proper, Texts
<1> HIDE DEF ss
<1>4. PICK f : GroupLoop(f, ss, max) /\ Grouped(ss, max) = f[n]
  BY <1>3, GroupedIs
<1> DEFINE Ok == {k \in Nat : 1 <= k /\ k <= n => GroupInv(f[k], ss, max, k)}
<1>5. 0 \in Ok
  OBVIOUS
<1>6. ASSUME NEW k \in Nat, k \in Ok PROVE k + 1 \in Ok
  <2>1. SUFFICES ASSUME k + 1 <= n PROVE GroupInv(f[k + 1], ss, max, k + 1)
    OBVIOUS
  <2>2. f[k + 1] = Group(f[k], ss[k + 1], max)
    <3>1. k + 1 \in 1 .. Len(ss) /\ (k + 1) - 1 = k
      BY <2>1, <1>3
    <3>2. f[k + 1] = Group(f[(k + 1) - 1], ss[k + 1], max)
      BY <1>4, <3>1 DEF GroupLoop
    <3> QED BY <3>1, <3>2
  <2>3. CASE k = 0
    <3>1. f[k] = NoGroup /\ k + 1 = 1
      BY <2>3, <1>4 DEF GroupLoop
    <3>2. GroupInv(Group(NoGroup, ss[1], max), ss, max, 1)
      BY <1>2, GroupFirst
    <3> QED BY <2>2, <3>1, <3>2
  <2>4. CASE k # 0
    <3>1. k \in Nat \ {0} /\ k < Len(ss) /\ GroupInv(f[k], ss, max, k)
      <4>1. 1 <= k /\ k <= n /\ k < n
        BY <2>1, <2>4, <1>3
      <4> QED BY <4>1, <1>6, <2>4
    <3> HIDE DEF n, Ok
    <3> QED BY <2>2, <3>1, <1>2, GroupStep
  <2> QED BY <2>3, <2>4
<1>7. GroupInv(f[n], ss, max, n)
  <2>1. \A k \in Nat : k \in Ok
    <3> HIDE DEF Ok
    <3> QED BY <1>5, <1>6, Induction
  <2>2. 1 <= n
    BY <1>3
  <2> QED BY <2>1, <2>2, <1>3
<1> DEFINE g == f[n]
           j == Joined[g.current]
           c == Append(g.chunks, j)
<1>8. ChunkText(t, max) = c
  BY <1>1, <1>4 DEF ChunkText, ss
<1>9. SubSeq(ss, 1, n) = ss
  BY <1>3, SubSeqFull DEF Texts
<1> HIDE DEF g, n
<1>10. /\ g \in Groups /\ Joined[g.chunks \o <<j>>] = Joined[ss] /\ Fit(j, max)
       /\ \A k \in 1 .. Len(g.chunks) : Fit(g.chunks[k], max) /\ Last(g.chunks[k]) = Stop
  BY <1>7, <1>9 DEF GroupInv, g
<1>11. g.chunks \in Texts /\ j \in Seq(Char)
  BY <1>10 DEF Groups, Fit
<1> HIDE DEF j
<1>12. /\ c = g.chunks \o <<j>> /\ c \in Texts /\ c # <<>>
       /\ Len(c) = Len(g.chunks) + 1 /\ Len(g.chunks) \in Nat
       /\ \A k \in 1 .. Len(g.chunks) : c[k] = g.chunks[k]
       /\ c[Len(g.chunks) + 1] = j
  BY <1>11, AppendText
<1> HIDE DEF c
<1>13. ASSUME NEW k \in 1 .. Len(c) PROVE Fit(c[k], max) /\ (k < Len(c) => Last(c[k]) = Stop)
  <2>1. CASE k = Len(g.chunks) + 1
    BY <2>1, <1>10, <1>12 DEF j
  <2>2. CASE k # Len(g.chunks) + 1
    <3>1. k \in 1 .. Len(g.chunks)
      BY <2>2, <1>12, SMTT(30)
    <3> QED BY <3>1, <1>10, <1>12
  <2> QED BY <2>1, <2>2
<1>14. Joined[c] = Joined[ss]
  BY <1>10, <1>12 DEF j
<1> QED BY <1>8, <1>12, <1>13, <1>14 DEF ss

(* White space has no chunks.                                              *)
LEMMA ChunksOfBlank ==
    ASSUME NEW t, Blank(t), NEW max PROVE ChunkText(t, max) = <<>>
  BY DEF ChunkText, Strip, Blank

(* str.strip keeps the ink.                                                *)
LEMMA InkOfStrip ==
    ASSUME NEW t \in Seq(Char), ~Blank(t) PROVE Ink[Strip(t)] = Ink[t]
<1>1. PICK a, b \in Seq(Char) : /\ Blank(a) /\ Blank(b) /\ t = a \o (Strip(t) \o b)
                                /\ Strip(t) \in Seq(Char)
  BY StripSplits
<1> DEFINE u == Strip(t)
<1>2. u \in Seq(Char) /\ t = a \o (u \o b)
  BY <1>1
<1> HIDE DEF u
<1>3. Ink[a \o (u \o b)] = Ink[a] \o (Ink[u] \o Ink[b])
  <2>1. u \o b \in Seq(Char)
    BY <1>2, Closed
  <2> QED BY <2>1, <1>2, InkConcat, ZenonT(30)
<1>4. Ink[a] = <<>> /\ Ink[b] = <<>> /\ Ink[u] \in Seq(Char)
  BY <1>1, <1>2, InkOfBlank, InkIs
<1>5. <<>> \o (Ink[u] \o <<>>) = Ink[u]
  <2>1. Ink[u] \o <<>> = Ink[u] /\ <<>> \o Ink[u] = Ink[u]
    BY <1>4, ConcatEmptySeq
  <2> QED BY <2>1
<1> QED BY <1>2, <1>3, <1>4, <1>5 DEF u

(* chunk_text keeps the text, whatever its bound.                          *)
LEMMA ChunksKeep ==
    ASSUME NEW t \in Seq(Char), NEW max \in Nat
    PROVE  LET chunks == ChunkText(t, max) IN
           /\ Ink[Joined[chunks]] = Ink[t]
           /\ chunks # <<>> => Sentences[Joined[chunks]] = Sentences[Strip(t)]
           /\ \A i \in DOMAIN chunks :
                /\ chunks[i] # <<>>
                /\ Len(chunks[i]) <= max \/ Len(Sentences[chunks[i]]) = 1
                /\ i < Len(chunks) => Last(chunks[i]) = Stop
<1>1. CASE Blank(t)
  <2>1. ChunkText(t, max) = <<>>
    BY <1>1, ChunksOfBlank
  <2>2. Ink[Joined[<<>>]] = Ink[t]
    BY <1>1, JoinedIs, InkIs, InkOfBlank
  <2>3. DOMAIN <<>> = {}
    OBVIOUS
  <2> QED BY <2>1, <2>2, <2>3
<1>2. CASE ~Blank(t)
  <2> DEFINE c == ChunkText(t, max)
             ss == Sentences[Strip(t)]
  <2>1. /\ c \in Texts /\ c # <<>> /\ Joined[c] = Joined[ss]
        /\ \A k \in 1 .. Len(c) : Fit(c[k], max) /\ (k < Len(c) => Last(c[k]) = Stop)
    BY <1>2, ChunksAre
  <2>2. Strip(t) \in Seq(Char) /\ Strip(t) # <<>> /\ Clean(Strip(t))
    BY <1>2, StripSplits
  <2>3. Proper(ss) /\ Ink[Joined[ss]] = Ink[Strip(t)]
    BY <2>2, SentencesProper
  <2>4. Ink[Joined[c]] = Ink[t]
    BY <2>1, <2>3, <1>2, InkOfStrip
  <2> HIDE DEF c, ss
  <2>5. Sentences[Joined[c]] = ss
    BY <2>1, <2>3, JoinedProper
  <2>6. DOMAIN c = 1 .. Len(c)
    BY <2>1 DEF Texts
  <2>7. ASSUME NEW i \in 1 .. Len(c)
        PROVE  c[i] # <<>> /\ (Len(c[i]) <= max \/ Len(Sentences[c[i]]) = 1)
    <3>1. Fit(c[i], max)
      BY <2>1
    <3>2. c[i] \in Seq(Char)
      BY <3>1 DEF Fit
    <3>3. GapStarts(c[i]) = {} => Len(Sentences[c[i]]) = 1
      <4> DEFINE x == c[i]
      <4> HIDE DEF x
      <4>1. x \in Seq(Char) /\ GapStarts(x) = {} => Sentences[x] = <<x>> /\ Len(<<x>>) = 1
        BY SentencesIs
      <4> QED BY <4>1, <3>2 DEF x
    <3> QED BY <3>1, <3>3 DEF Fit
  <2> QED BY <2>1, <2>4, <2>5, <2>6, <2>7 DEF c, ss
<1> QED BY <1>1, <1>2

-----------------------------------------------------------------------------
(* The sentences of a whole text.                                          *)
Said(s) == IF Blank(s) THEN <<>> ELSE Sentences[Strip(s)]

LEMMA SaidType == ASSUME NEW s \in Seq(Char) PROVE Said(s) \in Texts
<1>1. Strip(s) \in Seq(Char)
  BY StripType
<1> QED BY <1>1, SentencesIs, EmptySeq DEF Said, Texts

(* With max_chars 0 every chunk is one sentence.                           *)
LEMMA ChunksAreSaid ==
    ASSUME NEW t \in Seq(Char) PROVE ChunkText(t, 0) = Said(t)
<1>1. CASE Blank(t)
  BY <1>1, ChunksOfBlank DEF Said
<1>2. CASE ~Blank(t)
  <2> DEFINE c == ChunkText(t, 0)
             ss == Sentences[Strip(t)]
  <2>1. /\ c \in Texts /\ c # <<>> /\ Joined[c] = Joined[ss]
        /\ \A k \in 1 .. Len(c) : Fit(c[k], 0) /\ (k < Len(c) => Last(c[k]) = Stop)
    BY <1>2, ChunksAre
  <2>2. Proper(ss)
    BY <1>2, StripSplits, SentencesProper
  <2> HIDE DEF c, ss
  <2>3. ASSUME NEW k \in 1 .. Len(c) PROVE Sentence(c[k])
    <3> DEFINE x == c[k]
    <3>1. Fit(x, 0)
      BY <2>1
    <3> HIDE DEF x
    <3>2. x \in Seq(Char) /\ x # <<>> /\ x[1] # Space /\ (Len(x) <= 0 \/ GapStarts(x) = {})
      BY <3>1 DEF Fit
    <3>3. Len(x) \in Nat /\ Len(x) # 0
      BY <3>2, EmptySeq
    <3>4. Sentence(x)
      BY <3>2, <3>3 DEF Sentence
    <3> QED BY <3>4 DEF x
  <2>4. Proper(c)
    BY <2>1, <2>3 DEF Proper
  <2>5. c = ss
    BY <2>1, <2>2, <2>4, JoinedProper
  <2> QED BY <2>5, <1>2 DEF Said, c, ss
<1> QED BY <1>1, <1>2

(* White space before a text.                                              *)
LEMMA BlankConcat ==
    ASSUME NEW a \in Seq(Char), NEW b \in Seq(Char), Blank(a), Blank(b)
    PROVE  a \o b \in Seq(Char) /\ Blank(a \o b)
<1> DEFINE x == a \o b
<1>1. /\ x \in Seq(Char) /\ Len(x) = Len(a) + Len(b) /\ Len(a) \in Nat /\ Len(b) \in Nat
      /\ \A i \in 1 .. Len(a) : x[i] = a[i]
      /\ \A i \in 1 .. Len(b) : x[Len(a) + i] = b[i]
  BY ConcatIs
<1> HIDE DEF x
<1>2. ASSUME NEW i \in 1 .. Len(x) PROVE x[i] = Space
  <2>1. CASE i <= Len(a)
    <3>1. i \in 1 .. Len(a)
      BY <2>1, <1>1
    <3> QED BY <3>1, <1>1 DEF Blank
  <2>2. CASE ~(i <= Len(a))
    <3>1. i - Len(a) \in 1 .. Len(b) /\ Len(a) + (i - Len(a)) = i
      BY <2>2, <1>1
    <3>2. x[Len(a) + (i - Len(a))] = b[i - Len(a)] /\ b[i - Len(a)] = Space
      BY <3>1, <1>1 DEF Blank
    <3> QED BY <3>1, <3>2
  <2> QED BY <2>1, <2>2
<1> QED BY <1>1, <1>2 DEF Blank, x

(* A part of a text without a gap has none.                                *)
LEMMA GaplessPart ==
    ASSUME NEW a \in Seq(Char), NEW t \in Seq(Char), NEW b \in Seq(Char),
           NEW s, s = a \o (t \o b), GapStarts(s) = {}
    PROVE  GapStarts(t) = {}
<1>1. SUFFICES ASSUME NEW i \in GapStarts(t) PROVE FALSE
  OBVIOUS
<1>2. /\ Len(s) = Len(a) + Len(t) + Len(b)
      /\ Len(a) \in Nat /\ Len(t) \in Nat /\ Len(b) \in Nat
      /\ \A k \in 1 .. Len(t) : s[Len(a) + k] = t[k]
  BY ThreeParts
<1>3. i \in 2 .. Len(t) /\ t[i] = Space /\ t[i - 1] = Stop
  BY DEF GapStarts
<1>4. /\ i \in 1 .. Len(t) /\ i - 1 \in 1 .. Len(t) /\ Len(a) + (i - 1) = Len(a) + i - 1
      /\ Len(a) + i \in 2 .. Len(s)
  BY <1>2, <1>3
<1>5. s[Len(a) + i] = Space /\ s[Len(a) + (i - 1)] = Stop
  BY <1>2, <1>3, <1>4
<1>6. Len(a) + i \in GapStarts(s)
  BY <1>4, <1>5 DEF GapStarts
<1> QED BY <1>6

(* A sentence that ends, without the white space before it.                *)
LEMMA EndedStrips ==
    ASSUME NEW q, Ended(q)
    PROVE  \E a, p : /\ a \in Seq(Char) /\ Blank(a) /\ q = a \o p
                     /\ Sentence(p) /\ Last(p) = Stop /\ Clean(p)
<1>1. q \in Seq(Char) /\ Len(q) \in Nat /\ Len(q) # 0 /\ q[Len(q)] = Stop /\ GapStarts(q) = {}
  BY EmptySeq DEF Ended
<1>2. ~Blank(q)
  <2>1. Len(q) \in 1 .. Len(q) /\ Stop # Space
    BY <1>1 DEF Stop, Space
  <2> QED BY <2>1, <1>1 DEF Blank
<1> DEFINE p == Strip(q)
<1>3. PICK a, b \in Seq(Char) : /\ Blank(a) /\ Blank(b) /\ q = a \o (p \o b)
                                /\ p \in Seq(Char) /\ p # <<>> /\ Clean(p)
  BY <1>1, <1>2, StripSplits
<1> HIDE DEF p
<1>4. /\ Len(q) = Len(a) + Len(p) + Len(b)
      /\ Len(a) \in Nat /\ Len(p) \in Nat /\ Len(b) \in Nat
      /\ \A i \in 1 .. Len(p) : q[Len(a) + i] = p[i]
      /\ \A i \in 1 .. Len(b) : q[Len(a) + Len(p) + i] = b[i]
  BY <1>3, ThreeParts
<1>5. Len(b) = 0
  <2>1. SUFFICES ASSUME Len(b) # 0 PROVE FALSE
    OBVIOUS
  <2>2. Len(b) \in 1 .. Len(b)
    BY <2>1, <1>4
  <2>3. q[Len(q)] = b[Len(b)] /\ b[Len(b)] = Space
    BY <2>2, <1>3, <1>4 DEF Blank
  <2> QED BY <2>3, <1>1 DEF Stop, Space
<1>6. b = <<>> /\ p \o b = p
  <2>1. b = <<>>
    BY <1>5, EmptySeq
  <2> QED BY <2>1, <1>3, ConcatEmptySeq
<1>7. Sentence(p)
  <2>1. GapStarts(p) = {}
    BY <1>1, <1>3, GaplessPart
  <2> QED BY <2>1, <1>3 DEF Sentence, Clean
<1>8. Last(p) = Stop
  <2>1. Len(p) # 0
    BY <1>3, EmptySeq
  <2>2. Len(p) \in 1 .. Len(p) /\ Len(a) + Len(p) = Len(q)
    BY <2>1, <1>4, <1>5
  <2>3. p[Len(p)] = q[Len(q)]
    BY <2>2, <1>4
  <2> QED BY <2>3, <1>1 DEF Last
<1> QED BY <1>3, <1>6, <1>7, <1>8

(* Five texts in a row.                                                    *)
Regrouped(p, b, c, t, d) == p \o (b \o (c \o (t \o d))) = (p \o ((b \o c) \o t)) \o d

LEMMA Regroup ==
    ASSUME NEW p \in Seq(Char), NEW b \in Seq(Char), NEW c \in Seq(Char),
           NEW t \in Seq(Char), NEW d \in Seq(Char)
    PROVE  Regrouped(p, b, c, t, d)
<1> DEFINE e == b \o c
           f == e \o t
           g == t \o d
<1>1. e \in Seq(Char) /\ f \in Seq(Char) /\ g \in Seq(Char)
  BY Closed
<1>2. e \o g = b \o (c \o g)
  <2>1. g \in Seq(Char)
    BY <1>1
  <2> HIDE DEF g
  <2> QED BY <2>1, Assoc, SMTT(30)
<1>3. f \o d = e \o g
  <2>1. e \in Seq(Char)
    BY <1>1
  <2> HIDE DEF e
  <2> QED BY <2>1, Assoc
<1>4. (p \o f) \o d = p \o (f \o d)
  <2>1. f \in Seq(Char)
    BY <1>1
  <2> HIDE DEF f
  <2> QED BY <2>1, Assoc, SMTT(30)
<1> HIDE DEF e, f, g
<1>5. p \o (b \o (c \o g)) = (p \o f) \o d
  BY <1>2, <1>3, <1>4, Zenon
<1> QED BY <1>5 DEF e, f, g, Regrouped

(* A complete sentence at the head of a text is its first, whatever        *)
(* follows.                                                                *)
Complete(h, p) ==
    \E a, b \in Seq(Char) : Blank(a) /\ Gap(b) /\ h = a \o (p \o b)

LEMMA CompleteIsSaid ==
    ASSUME NEW p, Sentence(p), Last(p) = Stop, Clean(p), NEW h, Complete(h, p),
           NEW x \in Seq(Char)
    PROVE  /\ h \in Seq(Char) /\ Strip(h) = p
           /\ Said(h \o x) = <<p>> \o Said(x)
<1>0. p \in Seq(Char) /\ p # <<>> /\ Len(p) \in Nat /\ Len(p) # 0 /\ GapStarts(p) = {}
  BY EmptySeq DEF Sentence
<1>1. PICK a, b \in Seq(Char) : Blank(a) /\ Gap(b) /\ h = a \o (p \o b)
  BY DEF Complete
<1>2. b \in Seq(Char) /\ Blank(b) /\ p \o b \in Seq(Char) /\ h \in Seq(Char)
  <2>1. b \in Seq(Char) /\ Blank(b)
    BY <1>1 DEF Gap
  <2>2. p \o b \in Seq(Char)
    BY <2>1, <1>0, Closed
  <2> QED BY <2>1, <2>2, <1>1, Closed
<1>3. Strip(h) = p
  BY <1>0, <1>1, <1>2, StripIs
<1>4. h \o x = a \o (p \o (b \o x))
  <2>1. h \o x = a \o ((p \o b) \o x)
    BY <1>1, <1>2, Assoc
  <2>2. (p \o b) \o x = p \o (b \o x)
    BY <1>0, <1>2, Assoc, SMTT(30)
  <2> QED BY <2>1, <2>2
<1>5. h \o x \in Seq(Char)
  BY <1>2, Closed
<1>6. \A s \in Seq(Char) : Strip(s) # <<>> => Said(s) = Sentences[Strip(s)]
  BY StripOfBlank DEF Said
<1>7. CASE Blank(x)
  <2>1. b \o x \in Seq(Char) /\ Blank(b \o x)
    BY <1>2, <1>7, BlankConcat
  <2>2. Strip(h \o x) = p
    BY <2>1, <1>0, <1>1, <1>4, StripIs
  <2>3. Said(h \o x) = <<p>>
    BY <2>2, <1>0, <1>5, <1>6, SentencesIs
  <2>4. Said(x) = <<>>
    BY <1>7 DEF Said
  <2>5. <<p>> \o <<>> = <<p>>
    BY <1>0, OneIs, ConcatEmptySeq
  <2> QED BY <1>2, <1>3, <2>3, <2>4, <2>5
<1>8. CASE ~Blank(x)
  <2> DEFINE t == Strip(x)
  <2>1. PICK c, d \in Seq(Char) : /\ Blank(c) /\ Blank(d) /\ x = c \o (t \o d)
                                  /\ t \in Seq(Char) /\ t # <<>> /\ Clean(t)
    BY <1>8, StripSplits
  <2>2. Said(x) = Sentences[t]
    BY <1>8 DEF Said
  <2> HIDE DEF t
  <2> DEFINE e == b \o c
             m == p \o (e \o t)
  <2>3. e \in Seq(Char) /\ Blank(e) /\ e # <<>>
    <3>1. e \in Seq(Char) /\ Blank(e)
      BY <2>1, <1>2, BlankConcat
    <3>2. b # <<>>
      BY <1>1 DEF Gap
    <3> QED BY <3>1, <3>2, <1>2, <2>1, ConcatEqualIffEmpty
  <2>4. h \o x = a \o (m \o d)
    <3>1. t \in Seq(Char) /\ c \in Seq(Char) /\ d \in Seq(Char)
      BY <2>1
    <3>2. p \in Seq(Char) /\ b \in Seq(Char)
      BY <1>0, <1>2
    <3>3. Regrouped(p, b, c, t, d)
      BY <3>1, <3>2, Regroup
    <3>4. p \o (b \o (c \o (t \o d))) = m \o d
      BY <3>3 DEF Regrouped
    <3> HIDE DEF m
    <3> QED BY <3>4, <2>1, <1>4
  <2> HIDE DEF e
  <2>5. /\ m \in Seq(Char) /\ Len(m) = Len(p) + Len(e) + Len(t) /\ Len(e) \in Nat /\ Len(t) \in Nat
        /\ \A i \in 1 .. Len(p) : m[i] = p[i]
        /\ \A i \in 1 .. Len(t) : m[Len(p) + Len(e) + i] = t[i]
    BY <2>1, <2>3, <1>0, ThreeParts
  <2>6. Cut(m, p, e, t)
    BY <2>1, <2>3, EndedIs DEF Cut, Gap, Begins, Clean
  <2> HIDE DEF m
  <2>7. m # <<>> /\ Clean(m)
    <3>1. Len(t) # 0
      BY <2>1, EmptySeq
    <3>2. 1 \in 1 .. Len(p) /\ Len(t) \in 1 .. Len(t) /\ Len(m) # 0 /\ Len(m) = Len(p) + Len(e) + Len(t)
      BY <3>1, <1>0, <2>5
    <3>3. m[1] = p[1] /\ m[Len(m)] = t[Len(t)]
      BY <3>2, <2>5
    <3>4. p[1] # Space /\ t[Len(t)] # Space
      BY <2>1 DEF Clean, Sentence
    <3>5. m # <<>>
      BY <3>2, <2>5, EmptySeq
    <3> QED BY <3>3, <3>4, <3>5 DEF Clean
  <2>8. Strip(h \o x) = m
    BY <2>1, <2>4, <2>5, <2>7, <1>1, StripIs
  <2>9. Said(h \o x) = Sentences[m]
    BY <2>7, <2>8, <1>5, <1>6
  <2>10. Sentences[m] = <<p>> \o Sentences[t]
    BY <2>1, <2>3, <2>5, <2>6, <1>0, SentencesIs
  <2> QED BY <1>2, <1>3, <2>2, <2>9, <2>10
<1> QED BY <1>7, <1>8

-----------------------------------------------------------------------------
(* What was fed so far leads to the sentences that were given out.         *)

(* The text h gives the sentences ss, whatever follows.                    *)
Leads(h, ss) == /\ h \in Seq(Char) /\ ss \in Texts
                /\ \A x \in Seq(Char) : Said(h \o x) = ss \o Said(x)
AllEnded(ss) == \A i \in 1 .. Len(ss) : Last(ss[i]) = Stop

Associates(x, y, z) == (x \o y) \o z = x \o (y \o z)

LEMMA AssocAt == \A x, y, z \in Seq(Char) : Associates(x, y, z)
  BY Assoc DEF Associates

LEMMA AssocTexts == \A x, y, z \in Texts : (x \o y) \o z = x \o (y \o z)
  BY ConcatAssociative DEF Texts

(* No text leads to no sentences, and two that lead may follow each other. *)
LEMMA LeadsNothing == Leads(<<>>, <<>>)
<1>1. <<>> \in Seq(Char) /\ <<>> \in Texts
  BY EmptySeq DEF Texts
<1>2. ASSUME NEW x \in Seq(Char) PROVE Said(<<>> \o x) = <<>> \o Said(x)
  <2>1. <<>> \o x = x
    BY ConcatEmptySeq
  <2>2. Said(x) \in Texts
    BY SaidType
  <2>3. <<>> \o Said(x) = Said(x)
    BY <2>2, ConcatEmptySeq DEF Texts
  <2> QED BY <2>1, <2>3
<1> QED BY <1>1, <1>2 DEF Leads

LEMMA LeadsOn ==
    ASSUME NEW h, NEW ss, Leads(h, ss), NEW k, NEW tt, Leads(k, tt)
    PROVE  Leads(h \o k, ss \o tt)
<1>1. h \in Seq(Char) /\ k \in Seq(Char) /\ h \o k \in Seq(Char)
  <2>1. h \in Seq(Char) /\ k \in Seq(Char)
    BY DEF Leads
  <2> QED BY <2>1, Closed
<1>2. ss \in Texts /\ tt \in Texts /\ ss \o tt \in Texts
  <2>1. ss \in Texts /\ tt \in Texts
    BY DEF Leads
  <2> QED BY <2>1, ConcatProperties DEF Texts
<1>3. ASSUME NEW x \in Seq(Char) PROVE Said((h \o k) \o x) = (ss \o tt) \o Said(x)
  <2> DEFINE y == k \o x
  <2>1. (h \o k) \o x = h \o y
    BY <1>1, Assoc
  <2>2. y \in Seq(Char)
    BY <1>1, Closed
  <2>3. Said(y) = tt \o Said(x)
    BY DEF Leads
  <2> HIDE DEF y
  <2>4. Said(h \o y) = ss \o Said(y)
    BY <2>2 DEF Leads
  <2> DEFINE z == Said(x)
  <2>5. z \in Texts
    BY SaidType
  <2> HIDE DEF z
  <2>6. (ss \o tt) \o z = ss \o (tt \o z)
    <3>1. ss \in Texts /\ tt \in Texts
      BY <1>2
    <3> QED BY <3>1, <2>5, AssocTexts
  <2> QED BY <2>1, <2>3, <2>4, <2>6 DEF z
<1> QED BY <1>1, <1>2, <1>3 DEF Leads

LEMMA AllEndedOn ==
    ASSUME NEW ss \in Texts, NEW tt \in Texts, AllEnded(ss), AllEnded(tt)
    PROVE  AllEnded(ss \o tt)
<1>1. /\ Len(ss) \in Nat /\ Len(tt) \in Nat /\ Len(ss \o tt) = Len(ss) + Len(tt)
      /\ \A i \in 1 .. Len(ss) + Len(tt) :
           (ss \o tt)[i] = IF i <= Len(ss) THEN ss[i] ELSE tt[i - Len(ss)]
  BY ConcatProperties, LenProperties DEF Texts
<1> DEFINE uu == ss \o tt
<1>2. /\ Len(uu) = Len(ss) + Len(tt)
      /\ \A i \in 1 .. Len(uu) : uu[i] = IF i <= Len(ss) THEN ss[i] ELSE tt[i - Len(ss)]
  BY <1>1
<1> HIDE DEF uu
<1>3. ASSUME NEW i \in 1 .. Len(uu) PROVE Last(uu[i]) = Stop
  <2>1. CASE i <= Len(ss)
    <3>1. i \in 1 .. Len(ss)
      BY <2>1, <1>1
    <3> QED BY <3>1, <2>1, <1>2 DEF AllEnded
  <2>2. CASE ~(i <= Len(ss))
    <3>1. i - Len(ss) \in 1 .. Len(tt)
      BY <2>2, <1>1, <1>2
    <3> QED BY <3>1, <2>2, <1>2 DEF AllEnded
  <2> QED BY <2>1, <2>2
<1> QED BY <1>3 DEF AllEnded, uu

(* A complete sentence leads to itself.                                    *)
LEMMA LeadsSentence ==
    ASSUME NEW q, Ended(q), NEW b, Gap(b)
    PROVE  /\ Leads(q \o b, <<Strip(q \o b)>>) /\ AllEnded(<<Strip(q \o b)>>)
<1>1. PICK a, p : /\ a \in Seq(Char) /\ Blank(a) /\ q = a \o p
                  /\ Sentence(p) /\ Last(p) = Stop /\ Clean(p)
  BY EndedStrips
<1> DEFINE h == q \o b
<1>2. p \in Seq(Char) /\ b \in Seq(Char)
  BY <1>1 DEF Sentence, Gap
<1>3. Complete(h, p)
  <2>1. (a \o p) \o b = a \o (p \o b)
    BY <1>2, Assoc
  <2> QED BY <2>1, <1>1, <1>2 DEF Complete
<1> HIDE DEF h
<1>4. \A x \in Seq(Char) : h \in Seq(Char) /\ Strip(h) = p /\ Said(h \o x) = <<p>> \o Said(x)
  BY <1>1, <1>3, CompleteIsSaid
<1>5. h \in Seq(Char) /\ Strip(h) = p
  BY <1>2, <1>4
<1>6. <<p>> \in Texts /\ Len(<<p>>) = 1 /\ <<p>>[1] = p
  BY <1>2, OneIs DEF Texts
<1>7. AllEnded(<<p>>)
  BY <1>1, <1>6 DEF AllEnded
<1>8. Leads(h, <<p>>)
  BY <1>4, <1>5, <1>6 DEF Leads
<1> QED BY <1>5, <1>7, <1>8 DEF h

(* What the loop of feed gives out, and what it leaves.                    *)
DrainsTo(s, h, d) ==
    /\ d \in Drains /\ GapStarts(d.rest) = {} /\ s = h \o d.rest
    /\ Leads(h, d.out) /\ AllEnded(d.out)

LEMMA DrainIs ==
    ASSUME NEW s \in Seq(Char) PROVE \E h : DrainsTo(s, h, Drained[s])
<1> DEFINE T == {t \in Seq(Char) : \E h : DrainsTo(t, h, Drained[t])}
<1>0. \A t \in Seq(Char) : Drained[t] \in Drains
  BY DrainedIs
<1>1. ASSUME NEW t \in Seq(Char), GapStarts(t) = {} PROVE t \in T
  <2>1. Drained[t].out = <<>> /\ Drained[t].rest = t
    BY <1>1, DrainedIs
  <2>2. <<>> \o t = t
    BY ConcatEmptySeq
  <2>3. AllEnded(<<>>)
    BY DEF AllEnded
  <2>4. DrainsTo(t, <<>>, Drained[t])
    BY <1>0, <1>1, <2>1, <2>2, <2>3, LeadsNothing DEF DrainsTo
  <2> QED BY <2>4
<1>2. ASSUME NEW t \in Seq(Char), NEW q \in Seq(Char), NEW b \in Seq(Char), NEW u \in Seq(Char),
             Cut(t, q, b, u), u \in T
      PROVE  t \in T
  <2> DEFINE d == Drained[u]
             e == Drained[t]
             k == q \o b
             p == Strip(k)
  <2>1. PICK h : DrainsTo(u, h, d)
    BY <1>2
  <2>2. e.out = <<p>> \o d.out /\ e.rest = d.rest
    BY <1>2, DrainedIs
  <2>3. e \in Drains /\ d \in Drains
    BY <1>0
  <2>4. Leads(k, <<p>>) /\ AllEnded(<<p>>)
    BY <1>2, LeadsSentence DEF Cut
  <2>5. t = k \o u
    <3>1. t = q \o (b \o u)
      BY <1>2 DEF Cut
    <3> QED BY <3>1, Assoc, SMTT(30)
  <2> HIDE DEF d, e, k, p
  <2>6. /\ GapStarts(d.rest) = {} /\ u = h \o d.rest /\ Leads(h, d.out) /\ AllEnded(d.out)
        /\ d.rest \in Seq(Char) /\ d.out \in Texts /\ h \in Seq(Char)
    BY <2>1, <2>3 DEF DrainsTo, Drains, Leads
  <2>7. k \in Seq(Char) /\ <<p>> \in Texts
    BY <2>4 DEF Leads
  <2>8. Leads(k \o h, e.out)
    BY <2>2, <2>4, <2>6, LeadsOn
  <2>9. AllEnded(e.out)
    <3> DEFINE x == <<p>>
    <3>1. x \in Texts /\ AllEnded(x)
      BY <2>4, <2>7
    <3> HIDE DEF x
    <3>2. AllEnded(x \o d.out)
      BY <3>1, <2>6, AllEndedOn
    <3> QED BY <3>2, <2>2 DEF x
  <2>10. t = (k \o h) \o e.rest
    <3> DEFINE r == d.rest
    <3>1. r \in Seq(Char) /\ u = h \o r /\ e.rest = r
      BY <2>2, <2>6
    <3> HIDE DEF r
    <3>2. k \in Seq(Char) /\ h \in Seq(Char) /\ r \in Seq(Char)
      BY <3>1, <2>6, <2>7
    <3>3. Associates(k, h, r)
      BY <3>2, AssocAt
    <3> QED BY <3>1, <3>3, <2>5 DEF Associates
  <2>11. DrainsTo(t, k \o h, e)
    BY <2>2, <2>3, <2>6, <2>8, <2>9, <2>10 DEF DrainsTo
  <2> QED BY <2>11 DEF e
<1>3. s \in T
  <2> HIDE DEF T
  <2> QED BY <1>1, <1>2, GapInduction
<1> QED BY <1>3

-----------------------------------------------------------------------------
(* The buffer.                                                             *)
TextInv ==
    /\ text \in Seq(Char)
    /\ flushed \in BOOLEAN
    /\ ~flushed => /\ buf \in Seq(Char) /\ GapStarts(buf) = {}
                   /\ given \in Texts /\ AllEnded(given)
                   /\ \E h : Leads(h, given) /\ text = h \o buf
    /\ flushed => given = Said(text)

(* Nothing was fed.                                                        *)
LEMMA TextInitInv == TextInit => TextInv
<1>1. SUFFICES ASSUME TextInit PROVE TextInv
  OBVIOUS
<1>2. buf = <<>> /\ text = <<>> /\ given = <<>> /\ flushed = FALSE
  BY <1>1 DEF TextInit
<1>3. <<>> \in Seq(Char) /\ <<>> \in Texts /\ <<>> \o <<>> = <<>>
  BY EmptySeq, ConcatEmptySeq DEF Texts
<1>4. GapStarts(<<>>) = {} /\ AllEnded(<<>>)
  BY DEF GapStarts, AllEnded
<1>5. \E h : Leads(h, given) /\ text = h \o buf
  BY <1>2, <1>3, LeadsNothing
<1> QED BY <1>2, <1>3, <1>4, <1>5 DEF TextInv

LEMMA PieceIs ==
    ASSUME NEW piece \in Pieces PROVE piece \in Seq(Char)
<1>1. PICK n \in 1 .. MaxPiece : piece \in [1 .. n -> Char]
  BY DEF Pieces
<1>2. n \in Nat
  BY TextAssumption
<1> QED BY <1>1, <1>2, SeqDef

(* A piece: the sentences that are complete are given out.                 *)
LEMMA TextFeed ==
    ASSUME TextInv, NEW piece \in Pieces, Feed(piece) PROVE TextInv'
<1>1. /\ ~flushed /\ flushed' = flushed /\ text' = text \o piece
      /\ given' = given \o Drained[buf \o piece].out
      /\ buf' = Drained[buf \o piece].rest
  BY DEF Feed, Drain
<1>2. /\ text \in Seq(Char) /\ buf \in Seq(Char) /\ given \in Texts /\ AllEnded(given)
  BY <1>1 DEF TextInv
<1>3. PICK h : Leads(h, given) /\ text = h \o buf
  BY <1>1 DEF TextInv
<1> DEFINE s == buf \o piece
           d == Drained[s]
<1>4. piece \in Seq(Char)
  BY PieceIs
<1>5. s \in Seq(Char)
  BY <1>2, <1>4, Closed
<1>6. PICK k : DrainsTo(s, k, d)
  <2> HIDE DEF s
  <2> QED BY <1>5, DrainIs
<1>7. given' = given \o d.out /\ buf' = d.rest
  BY <1>1
<1> HIDE DEF d
<1>8. /\ d.out \in Texts /\ d.rest \in Seq(Char) /\ GapStarts(d.rest) = {} /\ s = k \o d.rest
      /\ Leads(k, d.out) /\ AllEnded(d.out) /\ h \in Seq(Char) /\ k \in Seq(Char)
  BY <1>3, <1>6 DEF DrainsTo, Drains, Leads
<1>9. Leads(h \o k, given') /\ AllEnded(given')
  BY <1>2, <1>3, <1>7, <1>8, LeadsOn, AllEndedOn
<1>10. text' = (h \o k) \o buf'
  <2>1. (h \o buf) \o piece = h \o s
    BY <1>2, <1>4, <1>8, Assoc, ZenonT(30)
  <2> HIDE DEF s
  <2> DEFINE r == d.rest
  <2>2. r \in Seq(Char) /\ s = k \o r /\ buf' = r
    BY <1>7, <1>8
  <2> HIDE DEF r
  <2>3. (h \o k) \o r = h \o (k \o r)
    BY <2>2, <1>8, Assoc
  <2> QED BY <2>1, <2>2, <2>3, <1>1, <1>3
<1>11. text' \in Seq(Char) /\ given' \in Texts
  <2>1. text \o piece \in Seq(Char)
    BY <1>2, <1>4, Closed
  <2> QED BY <2>1, <1>1, <1>9 DEF Leads
<1>12. \E g : Leads(g, given') /\ text' = g \o buf'
  BY <1>9, <1>10
<1> QED BY <1>1, <1>7, <1>8, <1>9, <1>11, <1>12 DEF TextInv

(* What is left, without a boundary, is one sentence or none.              *)
LEMMA LeftIsSaid ==
    ASSUME NEW s \in Seq(Char), GapStarts(s) = {}
    PROVE  Said(s) = IF Strip(s) = <<>> THEN <<>> ELSE <<Strip(s)>>
<1>1. CASE Blank(s)
  BY <1>1, StripOfBlank DEF Said
<1>2. CASE ~Blank(s)
  <2> DEFINE t == Strip(s)
  <2>1. PICK a, b \in Seq(Char) : s = a \o (t \o b) /\ t \in Seq(Char) /\ t # <<>>
    BY <1>2, StripSplits
  <2>2. Said(s) = Sentences[t]
    BY <1>2 DEF Said
  <2> HIDE DEF t
  <2>3. GapStarts(t) = {}
    BY <2>1, GaplessPart
  <2>4. Sentences[t] = <<t>>
    BY <2>1, <2>3, SentencesIs
  <2> QED BY <2>1, <2>2, <2>4 DEF t
<1> QED BY <1>1, <1>2

(* The end: what is left is given out.                                     *)
LEMMA TextFlush ==
    ASSUME TextInv, Flush PROVE TextInv'
<1>1. /\ ~flushed /\ flushed' = TRUE /\ text' = text
      /\ given' = given \o (IF Strip(buf) = <<>> THEN <<>> ELSE <<Strip(buf)>>)
  BY DEF Flush
<1>2. text \in Seq(Char) /\ buf \in Seq(Char) /\ GapStarts(buf) = {}
  BY <1>1 DEF TextInv
<1>3. PICK h : Leads(h, given) /\ text = h \o buf
  BY <1>1 DEF TextInv
<1>4. Said(text) = given \o Said(buf)
  BY <1>2, <1>3 DEF Leads
<1>5. given' = Said(text')
  BY <1>1, <1>2, <1>4, LeftIsSaid
<1> QED BY <1>1, <1>2, <1>5 DEF TextInv

LEMMA TextStep == TextInv /\ [TextNext]_textVars => TextInv'
<1>1. SUFFICES ASSUME TextInv, [TextNext]_textVars PROVE TextInv'
  OBVIOUS
<1>2. ASSUME NEW piece \in Pieces, Feed(piece) PROVE TextInv'
  BY <1>1, <1>2, TextFeed
<1>3. CASE Flush
  BY <1>1, <1>3, TextFlush
<1>4. CASE UNCHANGED textVars
  BY <1>1, <1>4 DEF TextInv, textVars
<1> QED BY <1>1, <1>2, <1>3, <1>4 DEF TextNext

(* Whatever the pieces were, what was given out are the first sentences of *)
(* the text, and the buffer holds the rest, without a boundary.            *)
(* (SentenceBuffer of sentence_buffer.py.)                                 *)
THEOREM TextInvariant == TextSpec => []TextInv
<1>1. TextInit => TextInv
  BY TextInitInv
<1>2. TextInv /\ [TextNext]_textVars => TextInv'
  BY TextStep
<1> QED BY <1>1, <1>2, PTL DEF TextSpec

(* In the end the sentences are those that chunk_text finds in the whole   *)
(* text, for texts and pieces of any length.                               *)
THEOREM PieceByPiece == TextSpec => []PiecesDoNotMatter
<1>1. TextInv => PiecesDoNotMatter
  BY ChunksAreSaid DEF TextInv, PiecesDoNotMatter
<1> QED BY <1>1, TextInvariant, PTL

(* A sentence is given out when the white space after it has come, and not *)
(* before. (feed of sentence_buffer.py.)                                   *)
THEOREM SentencesAreNotHeldBack == TextSpec => []GivenWhenComplete
<1>1. TextInv => GivenWhenComplete
  <2>1. SUFFICES ASSUME TextInv, ~flushed
                 PROVE  /\ given \o ChunkText(buf, 0) = ChunkText(text, 0)
                        /\ Boundary(buf) = 0
                        /\ \A i \in 1 .. Len(given) : Last(given[i]) = Stop
    BY DEF GivenWhenComplete
  <2>2. text \in Seq(Char) /\ buf \in Seq(Char) /\ GapStarts(buf) = {} /\ AllEnded(given)
    BY <2>1 DEF TextInv
  <2>3. PICK h : Leads(h, given) /\ text = h \o buf
    BY <2>1 DEF TextInv
  <2>4. Said(text) = given \o Said(buf)
    BY <2>2, <2>3 DEF Leads
  <2>5. ChunkText(buf, 0) = Said(buf) /\ ChunkText(text, 0) = Said(text)
    BY <2>2, ChunksAreSaid
  <2>6. Boundary(buf) = 0
    BY <2>2, BoundaryIs
  <2> QED BY <2>2, <2>4, <2>5, <2>6 DEF AllEnded
<1> QED BY <1>1, TextInvariant, PTL

(* chunk_text keeps the text, splits or merges no sentence and exceeds     *)
(* max_chars with single sentences only. (chunk_text of chunking.py.)      *)
THEOREM ChunksAreTheText == TextSpec => []ChunksKeepTheText
<1>1. TextInv => ChunksKeepTheText
  <2>1. SUFFICES ASSUME TextInv, NEW max \in Limits
                 PROVE  LET chunks == ChunkText(text, max) IN
                        /\ Ink[Joined[chunks]] = Ink[text]
                        /\ chunks # <<>> => Sentences[Joined[chunks]] = Sentences[Strip(text)]
                        /\ \A i \in DOMAIN chunks :
                             /\ chunks[i] # <<>>
                             /\ Len(chunks[i]) <= max \/ Len(Sentences[chunks[i]]) = 1
                             /\ i < Len(chunks) => Last(chunks[i]) = Stop
    BY DEF ChunksKeepTheText
  <2>2. text \in Seq(Char)
    BY <2>1 DEF TextInv
  <2>3. max \in Nat
    BY TextAssumption
  <2> QED BY <2>2, <2>3, ChunksKeep
<1> QED BY <1>1, TextInvariant, PTL

-----------------------------------------------------------------------------
(* The tokens of orpheus.                                                  *)

(* Places and slots: seven to a frame.                                     *)
LEMMA DivSlots ==
    ASSUME NEW j \in Nat, NEW k \in 0 .. 6
    PROVE  (7 * j + k) \div 7 = j /\ (7 * j + k) % 7 = k
  OBVIOUS

LEMMA SlotsOf ==
    ASSUME NEW i \in Nat
    PROVE  /\ i \div 7 \in Nat /\ i % 7 \in 0 .. 6 /\ i = 7 * (i \div 7) + (i % 7)
  OBVIOUS

(* The codes of n frames.                                                  *)
LEMMA CodesAre ==
    ASSUME NEW n \in Nat
    PROVE  /\ Codes(n)[1] = [i \in 1 .. n |-> i - 1]
           /\ Codes(n)[2] = [i \in 1 .. 2 * n |-> i - 1]
           /\ Codes(n)[3] = [i \in 1 .. 4 * n |-> i - 1]
           /\ Len(Codes(n)[1]) = n
<1>1. <<1, 2, 4>>[1] = 1 /\ <<1, 2, 4>>[2] = 2 /\ <<1, 2, 4>>[3] = 4 /\ 1 * n = n
  OBVIOUS
<1>2. \A stream \in 1 .. 3 : Codes(n)[stream] = [i \in 1 .. <<1, 2, 4>>[stream] * n |-> i - 1]
  BY DEF Codes
<1>3. Codes(n)[1] = [i \in 1 .. n |-> i - 1]
  BY <1>1, <1>2
<1>4. Codes(n)[2] = [i \in 1 .. 2 * n |-> i - 1]
  BY <1>1, <1>2
<1>5. Codes(n)[3] = [i \in 1 .. 4 * n |-> i - 1]
  BY <1>1, <1>2
<1>6. Len([i \in 1 .. n |-> i - 1]) = n
  OBVIOUS
<1> QED BY <1>3, <1>4, <1>5, <1>6

(* The value that slot k of frame j of a speech has.                       *)
Value(j, k) == <<j, 2 * j, 4 * j, 4 * j + 1, 2 * j + 1, 4 * j + 2, 4 * j + 3>>[k]

LEMMA ValueIs ==
    ASSUME NEW j
    PROVE  /\ Value(j, 1) = j /\ Value(j, 2) = 2 * j /\ Value(j, 3) = 4 * j
           /\ Value(j, 4) = 4 * j + 1 /\ Value(j, 5) = 2 * j + 1
           /\ Value(j, 6) = 4 * j + 2 /\ Value(j, 7) = 4 * j + 3
  BY DEF Value

LEMMA SlotCases ==
    ASSUME NEW k \in 1 .. 7
    PROVE  k = 1 \/ k = 2 \/ k = 3 \/ k = 4 \/ k = 5 \/ k = 6 \/ k = 7
  OBVIOUS

LEMMA ValueRange ==
    ASSUME NEW n \in 1 .. MaxFrames, NEW j \in 0 .. n - 1, NEW k \in 1 .. 7
    PROVE  /\ Size \in Nat /\ Value(j, k) \in Nat /\ Value(j, k) < Size
           /\ SlotValues(Codes(n), j)[k] = Value(j, k)
<1>1. MaxFrames \in Nat /\ Size \in Nat /\ Size = 4 * MaxFrames /\ j \in Nat /\ j + 1 <= MaxFrames
  BY OrpheusAssumption DEF Size
<1>2. /\ j + 1 \in 1 .. n /\ 2 * j + 1 \in 1 .. 2 * n /\ 2 * j + 2 \in 1 .. 2 * n
      /\ 4 * j + 1 \in 1 .. 4 * n /\ 4 * j + 2 \in 1 .. 4 * n /\ 4 * j + 3 \in 1 .. 4 * n
      /\ 4 * j + 4 \in 1 .. 4 * n
  BY <1>1
<1>3. n \in Nat
  BY <1>1
<1> DEFINE c == Codes(n)
<1>4. /\ c[1][j + 1] = j
      /\ c[2][2 * j + 1] = 2 * j /\ c[2][2 * j + 2] = 2 * j + 1
      /\ c[3][4 * j + 1] = 4 * j /\ c[3][4 * j + 2] = 4 * j + 1
      /\ c[3][4 * j + 3] = 4 * j + 2 /\ c[3][4 * j + 4] = 4 * j + 3
  <2>1. /\ c[1] = [i \in 1 .. n |-> i - 1] /\ c[2] = [i \in 1 .. 2 * n |-> i - 1]
        /\ c[3] = [i \in 1 .. 4 * n |-> i - 1]
    BY <1>3, CodesAre
  <2> HIDE DEF c
  <2> QED BY <2>1, <1>1, <1>2
<1> HIDE DEF c
<1>5. SlotValues(c, j) = <<j, 2 * j, 4 * j, 4 * j + 1, 2 * j + 1, 4 * j + 2, 4 * j + 3>>
  BY <1>4 DEF SlotValues
<1>6. SlotValues(c, j)[k] = Value(j, k)
  BY <1>5 DEF Value
<1>7. Value(j, k) \in Nat /\ Value(j, k) < Size
  <2>1. /\ j < Size /\ 2 * j < Size /\ 4 * j < Size /\ 4 * j + 1 < Size
        /\ 2 * j + 1 < Size /\ 4 * j + 2 < Size /\ 4 * j + 3 < Size
    BY <1>1
  <2> QED BY <1>1, <2>1, ValueIs, SlotCases
<1> QED BY <1>1, <1>6, <1>7 DEF c

(* The tokens of a speech of n frames.                                     *)
SpeechToken(j, k) == Offset + (k - 1) * Size + Value(j, k)

LEMMA SpeechIs ==
    ASSUME NEW n \in 1 .. MaxFrames
    PROVE  /\ InterleaveCodes(Codes(n)) \in Seq(Nat) /\ Len(InterleaveCodes(Codes(n))) = 7 * n
           /\ \A j \in 0 .. n - 1, k \in 1 .. 7 :
                /\ 7 * j + k \in 1 .. 7 * n
                /\ InterleaveCodes(Codes(n))[7 * j + k] = SpeechToken(j, k)
           /\ \A i \in 1 .. 7 * n : IsAudio(InterleaveCodes(Codes(n))[i])
<1>0. n \in Nat /\ MaxFrames \in Nat
  BY OrpheusAssumption
<1> DEFINE s == InterleaveCodes(Codes(n))
           At(i) == LET slot == (i - 1) % Slots IN
                    Token(slot, SlotValues(Codes(n), (i - 1) \div Slots)[slot + 1])
<1>1. s = [i \in 1 .. 7 * n |-> At(i)]
  BY <1>0, CodesAre DEF InterleaveCodes, Slots
<1>2. ASSUME NEW j \in 0 .. n - 1, NEW k \in 1 .. 7
      PROVE  /\ 7 * j + k \in 1 .. 7 * n
             /\ s[7 * j + k] = SpeechToken(j, k)
  <2>1. 7 * j + k \in 1 .. 7 * n
    BY <1>0
  <2>2. j \in Nat /\ k - 1 \in 0 .. 6 /\ (7 * j + k) - 1 = 7 * j + (k - 1) /\ (k - 1) + 1 = k
    BY <1>0
  <2>3. ((7 * j + k) - 1) \div 7 = j /\ ((7 * j + k) - 1) % 7 = k - 1
    BY <2>2, DivSlots
  <2>4. SlotValues(Codes(n), j)[k] = Value(j, k)
    BY ValueRange
  <2>5. At(7 * j + k) = Token(k - 1, Value(j, k))
    BY <2>2, <2>3, <2>4 DEF Slots
  <2> HIDE DEF s, At
  <2> QED BY <2>1, <2>5, <1>1 DEF Token, SpeechToken
<1> HIDE DEF s
<1>3. ASSUME NEW j \in 0 .. n - 1, NEW k \in 1 .. 7
      PROVE  SpeechToken(j, k) \in Nat /\ IsAudio(SpeechToken(j, k))
  <2>1. Size \in Nat /\ Value(j, k) \in Nat /\ Value(j, k) < Size
    BY ValueRange
  <2>2. (k - 1) * Size \in Nat /\ (k - 1) * Size + Size <= 7 * Size
    BY <2>1, SlotCases
  <2>3. SpeechToken(j, k) = 10 + (k - 1) * Size + Value(j, k)
    BY DEF SpeechToken, Offset
  <2> DEFINE m == (k - 1) * Size
  <2> HIDE DEF m
  <2>4. SpeechToken(j, k) \in Nat /\ 10 <= SpeechToken(j, k) /\ SpeechToken(j, k) < 10 + 7 * Size
    BY <2>1, <2>2, <2>3 DEF m
  <2> QED BY <2>4 DEF IsAudio, Offset, Slots
<1>4. ASSUME NEW i \in 1 .. 7 * n PROVE s[i] \in Nat /\ IsAudio(s[i])
  <2> DEFINE j == (i - 1) \div 7
             k == ((i - 1) % 7) + 1
  <2>1. i - 1 \in Nat
    OBVIOUS
  <2>2. j \in Nat /\ (i - 1) % 7 \in 0 .. 6 /\ i - 1 = 7 * j + ((i - 1) % 7)
    BY <2>1, SlotsOf
  <2> HIDE DEF j
  <2>3. j \in 0 .. n - 1 /\ k \in 1 .. 7 /\ i = 7 * j + k
    BY <2>2, <1>0
  <2> HIDE DEF k
  <2> QED BY <2>3, <1>2, <1>3
<1>5. s \in Seq(Nat) /\ Len(s) = 7 * n
  <2>1. 7 * n \in Nat /\ s = [i \in 1 .. 7 * n |-> s[i]]
    BY <1>0, <1>1
  <2>2. s \in [1 .. 7 * n -> Nat]
    BY <2>1, <1>4
  <2> QED BY <2>1, <2>2, SeqDef, LenProperties
<1> QED BY <1>2, <1>4, <1>5 DEF s

(* The tokens that are codes.                                              *)
LEMMA AudioIs ==
    /\ Audio \in [Seq(Nat) -> Seq(Nat)]
    /\ Audio[<<>>] = <<>>
    /\ \A s \in Seq(Nat), c \in Nat :
         Audio[s \o <<c>>] = IF IsAudio(c) THEN Audio[s] \o <<c>> ELSE Audio[s]
<1> DEFINE D == Seq(Nat)
           Made(s, t) == IF IsAudio(Last(s)) THEN Append(t, Last(s)) ELSE t
           step == [p \in D \X D |-> IF p[1] = <<>> THEN p[2] ELSE Made(p[1], p[2])]
           Body(f, s) == IF s = <<>> THEN <<>> ELSE
                         IF IsAudio(Last(s)) THEN Append(f[Front(s)], Last(s)) ELSE f[Front(s)]
<1>1. step \in [D \X D -> D]
  <2>1. ASSUME NEW p \in D \X D
        PROVE  (IF p[1] = <<>> THEN p[2] ELSE Made(p[1], p[2])) \in D
    <3>1. p[1] \in D /\ p[2] \in D
      OBVIOUS
    <3>2. p[1] # <<>> => Last(p[1]) \in Nat
      BY <3>1, FrontIs
    <3> QED BY <3>1, <3>2, AppendProperties
  <2> HIDE DEF Made
  <2> QED BY <2>1
<1>2. PICK f : FrontSolves(f, Nat, D, <<>>, step)
  <2>1. <<>> \in D
    BY EmptySeq
  <2> HIDE DEF step
  <2> QED BY <1>1, <2>1, FrontRecursion
<1>3. f = [s \in D |-> Body(f, s)]
  <2>1. ASSUME NEW s \in D PROVE f[s] = Body(f, s)
    <3>1. CASE s = <<>>
      BY <1>2, <3>1 DEF FrontSolves
    <3>2. CASE s # <<>>
      <4>1. Front(s) \in D
        BY <3>2, FrontIs
      <4>2. f[s] = step[<<s, f[Front(s)]>>] /\ f[Front(s)] \in D
        <5> HIDE DEF step
        <5> QED BY <1>2, <3>2, <4>1 DEF FrontSolves
      <4>3. <<s, f[Front(s)]>> \in D \X D
        BY <4>2
      <4> QED BY <4>2, <4>3, <3>2
    <3> QED BY <3>1, <3>2
  <2>2. f = [s \in D |-> f[s]]
    BY <1>2 DEF FrontSolves
  <2> HIDE DEF D, Body
  <2> QED BY <2>1, <2>2
<1>4. Audio = [s \in D |-> Body(Audio, s)]
  BY <1>3 DEF Audio
<1>5. \A s \in D : Audio[s] = Body(Audio, s)
  <2> HIDE DEF D, Body
  <2> QED BY <1>4
<1>6. Audio[<<>>] = <<>>
  BY <1>5, EmptySeq
<1>7. ASSUME NEW s \in D, NEW c \in Nat
      PROVE  Audio[s \o <<c>>] = IF IsAudio(c) THEN Append(Audio[s], c) ELSE Audio[s]
  <2>1. /\ s \o <<c>> \in D /\ s \o <<c>> # <<>>
        /\ Front(s \o <<c>>) = s /\ Last(s \o <<c>>) = c
    BY FrontOfAppend
  <2> QED BY <2>1, <1>5
<1>8. \A s \in D : Audio[s] \in D
  <2> DEFINE T == {s \in D : Audio[s] \in D}
  <2>1. <<>> \in T
    BY <1>6, EmptySeq
  <2>2. ASSUME NEW s \in D, NEW c \in Nat, s \in T PROVE s \o <<c>> \in T
    <3>1. s \o <<c>> \in D /\ Audio[s] \in D
      BY <2>2, FrontOfAppend
    <3>2. Audio[s \o <<c>>] = Audio[s] \/ Audio[s \o <<c>>] = Append(Audio[s], c)
      BY <1>7
    <3>3. Audio[s \o <<c>>] \in D
      BY <3>1, <3>2, AppendProperties, ZenonT(30)
    <3> QED BY <3>1, <3>3
  <2>3. \A s \in D : s \in T
    <3> HIDE DEF T
    <3> QED BY <2>1, <2>2, FrontInduction
  <2> QED BY <2>3
<1>9. Audio \in [D -> D]
  <2> HIDE DEF D, Body
  <2> QED BY <1>4, <1>8
<1> QED BY <1>6, <1>7, <1>8, <1>9, AppendIsConcat

(* What was said of a speech of n frames: the first m - 1 of its tokens,   *)
(* then some of those up to the token before nx, k of which are missing.   *)
Place(pos, audio, n, m, k) ==
    \A q \in 1 .. Len(audio) :
        /\ audio[q] = InterleaveCodes(Codes(n))[pos[q]]
        /\ q < m => pos[q] = q
        /\ q >= m => q < pos[q] /\ pos[q] <= q + k

Told(audio, n, m, nx, k) ==
    /\ n \in 1 .. MaxFrames /\ m \in Nat \ {0} /\ k \in Nat
    /\ nx \in 1 .. 7 * n + 1 /\ m + k <= nx
    /\ audio \in Seq(Nat) /\ Len(audio) = nx - 1 - k
    /\ \E pos \in [1 .. Len(audio) -> 1 .. nx - 1] : Place(pos, audio, n, m, k)

(* The values of frame j of what was said.                                 *)
LEMMA FrameIs ==
    ASSUME NEW audio \in Seq(Nat), NEW j \in Nat \ {0}, 7 * j <= Len(audio), NEW slot \in 1 .. 7
    PROVE  /\ 7 * (j - 1) + slot \in 1 .. Len(audio)
           /\ Values(Frame(audio, j))[slot] = audio[7 * (j - 1) + slot] - 10 - (slot - 1) * Size
<1>0. Len(audio) \in Nat
  BY LenProperties
<1> DEFINE a == (j - 1) * 7 + 1
           b == j * 7
           f == SubSeq(audio, a, b)
<1>1. a \in 1 .. Len(audio) + 1 /\ b \in 0 .. Len(audio) /\ a <= b + 1
  BY <1>0
<1>2. slot \in 1 .. b - a + 1 /\ a + slot - 1 = 7 * (j - 1) + slot
  OBVIOUS
<1> HIDE DEF a, b
<1>3. f[slot] = audio[a + slot - 1]
  BY <1>1, <1>2, PartIs
<1>4. Frame(audio, j) = f
  BY DEF Frame, Slots, a, b
<1> HIDE DEF f
<1>5. Values(Frame(audio, j))[slot] = f[slot] - 10 - (slot - 1) * Size
  BY <1>4 DEF Values, Slots, Offset
<1>6. 7 * (j - 1) + slot \in 1 .. Len(audio)
  BY <1>0
<1> QED BY <1>2, <1>3, <1>5, <1>6

(* A frame before the first token that is missing is the frame of the      *)
(* speech.                                                                 *)
LEMMA FrameOfSpeech ==
    ASSUME NEW audio, NEW n, NEW m, NEW nx, NEW k, Told(audio, n, m, nx, k),
           NEW j \in Nat \ {0}, 7 * j <= Len(audio), 7 * j < m
    PROVE  /\ j <= n /\ WholeFrame(Values(Frame(audio, j)))
           /\ \A slot \in 1 .. 7 : Values(Frame(audio, j))[slot] = Value(j - 1, slot)
<1>1. /\ n \in 1 .. MaxFrames /\ m \in Nat /\ k \in Nat /\ nx \in 1 .. 7 * n + 1 /\ m + k <= nx
      /\ audio \in Seq(Nat) /\ Len(audio) = nx - 1 - k
  BY DEF Told
<1>2. PICK pos \in [1 .. Len(audio) -> 1 .. nx - 1] : Place(pos, audio, n, m, k)
  BY DEF Told
<1>3. j <= n /\ j - 1 \in 0 .. n - 1 /\ n \in Nat
  <2>1. n \in Nat
    BY <1>1, OrpheusAssumption
  <2>2. 7 * j <= 7 * n
    BY <1>1, <2>1
  <2> QED BY <2>1, <2>2
<1>4. ASSUME NEW slot \in 1 .. 7
      PROVE  /\ Values(Frame(audio, j))[slot] = Value(j - 1, slot)
             /\ Value(j - 1, slot) \in 0 .. Size - 1
  <2> DEFINE q == 7 * (j - 1) + slot
  <2>1. q \in 1 .. Len(audio) /\ Values(Frame(audio, j))[slot] = audio[q] - 10 - (slot - 1) * Size
    BY <1>1, FrameIs
  <2>2. q < m
    BY <1>1
  <2>3. InterleaveCodes(Codes(n))[q] = SpeechToken(j - 1, slot)
    BY <1>1, <1>3, SpeechIs
  <2> HIDE DEF q
  <2>4. audio[q] = SpeechToken(j - 1, slot)
    BY <2>1, <2>2, <2>3, <1>2 DEF Place
  <2>5. Size \in Nat /\ Value(j - 1, slot) \in Nat /\ Value(j - 1, slot) < Size
    BY <1>1, <1>3, ValueRange
  <2> DEFINE x == (slot - 1) * Size
             v == Value(j - 1, slot)
  <2>6. x \in Int /\ v \in Nat /\ audio[q] = 10 + x + v
    BY <2>4, <2>5 DEF SpeechToken, Offset
  <2> HIDE DEF x, v
  <2>7. audio[q] - 10 - x = v
    BY <2>6
  <2>8. v \in 0 .. Size - 1
    BY <2>5 DEF v
  <2> QED BY <2>1, <2>7, <2>8 DEF x, v
<1>5. WholeFrame(Values(Frame(audio, j)))
  BY <1>4 DEF WholeFrame, Slots
<1> QED BY <1>3, <1>4, <1>5

(* A later frame has a token that is not of its slot: its last.            *)
LEMMA BrokenFrame ==
    ASSUME NEW audio, NEW n, NEW m, NEW nx, NEW k, Told(audio, n, m, nx, k), k < 7,
           NEW j \in Nat \ {0}, 7 * j <= Len(audio), ~(7 * j < m)
    PROVE  ~WholeFrame(Values(Frame(audio, j)))
<1>1. /\ n \in 1 .. MaxFrames /\ m \in Nat /\ k \in Nat /\ nx \in 1 .. 7 * n + 1 /\ m + k <= nx
      /\ audio \in Seq(Nat) /\ Len(audio) = nx - 1 - k
  BY DEF Told
<1>2. PICK pos \in [1 .. Len(audio) -> 1 .. nx - 1] : Place(pos, audio, n, m, k)
  BY DEF Told
<1> DEFINE q == 7 * j
           v == Values(Frame(audio, j))[7]
<1>3. q \in 1 .. Len(audio) /\ v = audio[q] - 10 - 6 * Size
  <2>1. 7 \in 1 .. 7 /\ 7 * (j - 1) + 7 = q /\ 7 - 1 = 6
    OBVIOUS
  <2>2. 7 * (j - 1) + 7 \in 1 .. Len(audio) /\ v = audio[7 * (j - 1) + 7] - 10 - (7 - 1) * Size
    BY <1>1, <2>1, FrameIs
  <2> HIDE DEF v
  <2> QED BY <2>1, <2>2
<1>4. /\ audio[q] = InterleaveCodes(Codes(n))[pos[q]]
      /\ q < pos[q] /\ pos[q] <= q + k /\ pos[q] \in 1 .. nx - 1
  <2>1. q >= m
    BY <1>1
  <2> HIDE DEF q
  <2> QED BY <2>1, <1>2, <1>3 DEF Place
<1> DEFINE d == pos[q] - q
<1>5. d \in 1 .. 6 /\ pos[q] = 7 * j + d /\ 7 * j + d <= 7 * n /\ n \in Nat
  <2> DEFINE r == pos[q]
  <2>1. n \in Nat /\ r \in Nat /\ r <= 7 * n
    <3>1. n \in Nat
      BY <1>1, OrpheusAssumption
    <3>2. r \in 1 .. nx - 1
      BY <1>4
    <3> HIDE DEF r
    <3> QED BY <3>1, <3>2, <1>1
  <2>2. q \in Nat /\ q < r /\ r <= q + k /\ k \in 0 .. 6
    <3>1. q \in Nat
      OBVIOUS
    <3>2. q < r /\ r <= q + k
      BY <1>4
    <3>3. k \in 0 .. 6
      BY <1>1
    <3> HIDE DEF q, r
    <3> QED BY <3>1, <3>2, <3>3
  <2> HIDE DEF r
  <2>3. r - q \in 1 .. 6 /\ r = q + (r - q) /\ q + (r - q) <= 7 * n
    <3> HIDE DEF q
    <3> QED BY <2>1, <2>2
  <2> HIDE DEF v
  <2> QED BY <2>1, <2>3 DEF r
<1> HIDE DEF d
<1>6. j \in 0 .. n - 1 /\ d \in 1 .. 7
  BY <1>5
<1>7. audio[q] = SpeechToken(j, d)
  <2>1. InterleaveCodes(Codes(n))[7 * j + d] = SpeechToken(j, d)
    BY <1>1, <1>6, SpeechIs
  <2> QED BY <2>1, <1>4, <1>5
<1>8. Size \in Nat /\ Value(j, d) \in Nat /\ Value(j, d) < Size
  BY <1>1, <1>6, ValueRange
<1>9. (d - 1) * Size \in Nat /\ (d - 1) * Size + Size <= 6 * Size
  BY <1>5, <1>8, SlotCases
<1> DEFINE x == (d - 1) * Size
           u == Value(j, d)
           y == 6 * Size
           w == audio[q]
<1>10. /\ x \in Nat /\ u \in Nat /\ y \in Nat /\ Size \in Nat /\ x + Size <= y /\ u < Size
       /\ w = 10 + x + u /\ v = w - 10 - y
  BY <1>3, <1>7, <1>8, <1>9 DEF SpeechToken, Offset
<1> HIDE DEF x, u, y, w, v
<1>11. v < 0 /\ v \in Int
  BY <1>10
<1>12. v \notin 0 .. Size - 1
  BY <1>11
<1> QED BY <1>12 DEF WholeFrame, Slots, v

(* A stream of n codes.                                                    *)
Numbers(n) == [i \in 1 .. n |-> i - 1]

LEMMA NumbersAre ==
    ASSUME NEW n \in Nat
    PROVE  /\ Numbers(n) \in Seq(Nat) /\ Len(Numbers(n)) = n
           /\ \A i \in 1 .. n : Numbers(n)[i] = i - 1
<1>1. Numbers(n) \in [1 .. n -> Nat]
  BY DEF Numbers
<1>2. Numbers(n) \in Seq(Nat) /\ Len(Numbers(n)) = n
  BY <1>1, SeqDef, LenProperties
<1> QED BY <1>2 DEF Numbers

LEMMA NumbersOn ==
    ASSUME NEW n \in Nat
    PROVE  /\ Numbers(n) \o <<n>> = Numbers(n + 1)
           /\ Numbers(n) \o <<n, n + 1>> = Numbers(n + 2)
           /\ Numbers(n) \o <<n, n + 1, n + 2, n + 3>> = Numbers(n + 4)
<1> DEFINE s == Numbers(n)
<1>0. s \in Seq(Nat) /\ Len(s) = n /\ \A i \in 1 .. n : s[i] = i - 1
  BY NumbersAre
<1> HIDE DEF s
<1>1. ASSUME NEW k \in Nat, NEW t \in Seq(Nat), Len(t) = k,
             \A i \in 1 .. k : t[i] = n + i - 1
      PROVE  s \o t = Numbers(n + k)
  <2>1. /\ s \o t \in Seq(Nat) /\ Len(s \o t) = n + k
        /\ \A i \in 1 .. n + k : (s \o t)[i] = IF i <= n THEN s[i] ELSE t[i - n]
    BY <1>0, <1>1, ConcatProperties
  <2>2. Numbers(n + k) \in Seq(Nat) /\ Len(Numbers(n + k)) = n + k
        /\ \A i \in 1 .. n + k : Numbers(n + k)[i] = i - 1
    BY NumbersAre
  <2>3. ASSUME NEW i \in 1 .. n + k PROVE (s \o t)[i] = Numbers(n + k)[i]
    <3>1. CASE i <= n
      BY <3>1, <2>1, <2>2, <1>0
    <3>2. CASE ~(i <= n)
      <4>1. i - n \in 1 .. k /\ n + (i - n) - 1 = i - 1
        BY <3>2
      <4>2. t[i - n] = i - 1
        BY <4>1, <1>1
      <4> QED BY <4>2, <3>2, <2>1, <2>2
    <3> QED BY <3>1, <3>2
  <2> QED BY <2>1, <2>2, <2>3, SeqEqual
<1>2. s \o <<n>> = Numbers(n + 1)
  <2> DEFINE t == <<n>>
  <2>1. t \in Seq(Nat) /\ Len(t) = 1 /\ \A i \in 1 .. 1 : t[i] = n + i - 1
    OBVIOUS
  <2> HIDE DEF t
  <2>2. s \o t = Numbers(n + 1)
    BY <2>1, <1>1
  <2> QED BY <2>2 DEF t
<1>3. s \o <<n, n + 1>> = Numbers(n + 2)
  <2> DEFINE t == <<n, n + 1>>
  <2>1. t \in Seq(Nat) /\ Len(t) = 2 /\ \A i \in 1 .. 2 : t[i] = n + i - 1
    OBVIOUS
  <2> HIDE DEF t
  <2>2. s \o t = Numbers(n + 2)
    BY <2>1, <1>1
  <2> QED BY <2>2 DEF t
<1>4. s \o <<n, n + 1, n + 2, n + 3>> = Numbers(n + 4)
  <2> DEFINE t == <<n, n + 1, n + 2, n + 3>>
  <2>1. t \in Seq(Nat) /\ Len(t) = 4 /\ \A i \in 1 .. 4 : t[i] = n + i - 1
    OBVIOUS
  <2> HIDE DEF t
  <2>2. s \o t = Numbers(n + 4)
    BY <2>1, <1>1
  <2> QED BY <2>2 DEF t
<1> QED BY <1>2, <1>3, <1>4 DEF s

LEMMA CodesByNumbers ==
    ASSUME NEW n \in Nat
    PROVE  Codes(n) = <<Numbers(n), Numbers(2 * n), Numbers(4 * n)>>
<1>1. \A stream \in 1 .. 3 : Codes(n)[stream] = <<Numbers(n), Numbers(2 * n), Numbers(4 * n)>>[stream]
  BY CodesAre DEF Numbers
<1>2. Codes(n) = [stream \in 1 .. 3 |-> Codes(n)[stream]]
  BY DEF Codes
<1> DEFINE c == Codes(n)
           d == <<Numbers(n), Numbers(2 * n), Numbers(4 * n)>>
<1>3. d = [stream \in 1 .. 3 |-> d[stream]]
  <2> DEFINE x == Numbers(n)
             y == Numbers(2 * n)
             z == Numbers(4 * n)
  <2> HIDE DEF x, y, z
  <2>1. <<x, y, z>> = [stream \in 1 .. 3 |-> <<x, y, z>>[stream]]
    OBVIOUS
  <2> QED BY <2>1 DEF x, y, z
<1> HIDE DEF c, d
<1>4. c = d
  BY <1>1, <1>2, <1>3 DEF c, d
<1> QED BY <1>4 DEF c, d

(* A frame of the speech gives the streams their next codes.               *)
LEMMA ScatterIs ==
    ASSUME NEW j \in Nat \ {0}, NEW v, \A slot \in 1 .. 7 : v[slot] = Value(j - 1, slot)
    PROVE  Scatter(Codes(j - 1), v) = Codes(j)
<1> DEFINE i == j - 1
           a == Numbers(i)
           b == Numbers(2 * i)
           c == Numbers(4 * i)
<1>1. i \in Nat /\ j = i + 1 /\ 2 * i \in Nat /\ 4 * i \in Nat
      /\ 2 * i + 2 = 2 * j /\ 4 * i + 4 = 4 * j
  OBVIOUS
<1>2. Codes(i) = <<a, b, c>>
  BY <1>1, CodesByNumbers
<1>3. Codes(i)[1] = a /\ Codes(i)[2] = b /\ Codes(i)[3] = c
  <2> HIDE DEF a, b, c, i
  <2> QED BY <1>2
<1> HIDE DEF i
<1>4. /\ v[1] = i /\ v[2] = 2 * i /\ v[3] = 4 * i /\ v[4] = 4 * i + 1
      /\ v[5] = 2 * i + 1 /\ v[6] = 4 * i + 2 /\ v[7] = 4 * i + 3
  <2>1. /\ v[1] = Value(i, 1) /\ v[2] = Value(i, 2) /\ v[3] = Value(i, 3) /\ v[4] = Value(i, 4)
        /\ v[5] = Value(i, 5) /\ v[6] = Value(i, 6) /\ v[7] = Value(i, 7)
    BY DEF i
  <2> QED BY <2>1, ValueIs
<1>5. /\ a \o <<v[1]>> = Numbers(j)
      /\ b \o <<v[2], v[5]>> = Numbers(2 * j)
      /\ c \o <<v[3], v[4], v[6], v[7]>> = Numbers(4 * j)
  <2>1. a \o <<i>> = Numbers(i + 1)
    BY <1>1, NumbersOn
  <2>2. b \o <<2 * i, 2 * i + 1>> = Numbers(2 * i + 2)
    BY <1>1, NumbersOn
  <2>3. c \o <<4 * i, 4 * i + 1, 4 * i + 2, 4 * i + 3>> = Numbers(4 * i + 4)
    BY <1>1, NumbersOn
  <2> HIDE DEF a, b, c
  <2> QED BY <2>1, <2>2, <2>3, <1>1, <1>4
<1>6. Scatter(Codes(i), v) = <<Numbers(j), Numbers(2 * j), Numbers(4 * j)>>
  <2> HIDE DEF a, b, c
  <2> QED BY <1>3, <1>5 DEF Scatter
<1>7. Codes(j) = <<Numbers(j), Numbers(2 * j), Numbers(4 * j)>>
  BY CodesByNumbers
<1> QED BY <1>6, <1>7 DEF i

LEMMA NoCodes == Codes(0) = Silent
<1>1. Numbers(0) = <<>>
  <2>1. 0 \in Nat
    OBVIOUS
  <2>2. Numbers(0) \in Seq(Nat) /\ Len(Numbers(0)) = 0
    BY <2>1, NumbersAre
  <2> QED BY <2>2, EmptySeq
<1>2. 0 \in Nat /\ 2 * 0 = 0 /\ 4 * 0 = 0
  OBVIOUS
<1>3. Codes(0) = <<Numbers(0), Numbers(2 * 0), Numbers(4 * 0)>>
  BY <1>2, CodesByNumbers
<1> QED BY <1>1, <1>2, <1>3 DEF Silent

(* With fewer than seven tokens missing, the loop gives the frames before  *)
(* the first of them, and no other.                                        *)
LEMMA ScatteredIs ==
    ASSUME NEW audio, NEW n, NEW m, NEW nx, NEW k, Told(audio, n, m, nx, k), k < 7
    PROVE  Scattered(audio) = Codes((m - 1) \div 7)
<1> DEFINE L == Len(audio) \div 7
           U == (m - 1) \div 7
           Body(h, j) == IF j = 0 THEN Silent ELSE
                         IF WholeFrame(Values(Frame(audio, j)))
                           THEN Scatter(h[j - 1], Values(Frame(audio, j)))
                           ELSE h[j - 1]
           To(j) == IF j <= U THEN j ELSE U
           f == [j \in 0 .. L |-> Codes(To(j))]
<1>1. /\ n \in 1 .. MaxFrames /\ m \in Nat \ {0} /\ k \in Nat /\ nx \in 1 .. 7 * n + 1 /\ m + k <= nx
      /\ audio \in Seq(Nat) /\ Len(audio) = nx - 1 - k /\ Len(audio) \in Nat
  BY LenProperties DEF Told
<1>2. /\ m - 1 \in Nat /\ m - 1 <= Len(audio)
  <2> DEFINE len == Len(audio)
  <2> HIDE DEF len
  <2>1. len = nx - 1 - k /\ nx \in Int
    BY <1>1 DEF len
  <2>2. m - 1 \in Nat /\ m - 1 <= len
    BY <2>1, <1>1
  <2> QED BY <2>2 DEF len
<1>3. /\ U \in Nat /\ 7 * U <= m - 1 /\ m - 1 < 7 * U + 7
      /\ L \in Nat /\ 7 * L <= Len(audio) /\ Len(audio) < 7 * L + 7
  <2>1. /\ U \in Nat /\ (m - 1) % 7 \in 0 .. 6 /\ m - 1 = 7 * U + ((m - 1) % 7)
    BY <1>2, SlotsOf
  <2>2. /\ L \in Nat /\ Len(audio) % 7 \in 0 .. 6 /\ Len(audio) = 7 * L + (Len(audio) % 7)
    BY <1>1, SlotsOf
  <2> HIDE DEF U, L
  <2> QED BY <2>1, <2>2, <1>1, <1>2
<1> HIDE DEF U, L
<1>4. U <= L
  BY <1>2, <1>3, <1>1
<1>5. ASSUME NEW j \in 1 .. L
      PROVE  /\ j \in Nat \ {0} /\ 7 * j <= Len(audio)
             /\ 7 * j < m <=> j <= U
  BY <1>1, <1>2, <1>3
<1>6. ASSUME NEW j \in 1 .. L, NEW h, h[j - 1] = Codes(To(j - 1))
      PROVE  Body(h, j) = Codes(To(j))
  <2>1. j # 0 /\ j \in Nat \ {0} /\ 7 * j <= Len(audio)
    BY <1>5
  <2>2. CASE j <= U
    <3>1. To(j) = j /\ To(j - 1) = j - 1
      BY <2>2, <1>3
    <3>2. 7 * j < m
      BY <2>2, <1>5
    <3>3. /\ WholeFrame(Values(Frame(audio, j)))
          /\ \A slot \in 1 .. 7 : Values(Frame(audio, j))[slot] = Value(j - 1, slot)
      BY <2>1, <3>2, FrameOfSpeech
    <3>4. Scatter(Codes(j - 1), Values(Frame(audio, j))) = Codes(j)
      BY <2>1, <3>3, ScatterIs
    <3>5. h[j - 1] = Codes(j - 1)
      BY <3>1, <1>6
    <3> HIDE DEF To
    <3> QED BY <2>1, <3>1, <3>3, <3>4, <3>5
  <2>3. CASE ~(j <= U)
    <3>1. To(j) = U /\ To(j - 1) = U
      BY <2>3, <1>3, <1>5
    <3>2. ~(7 * j < m)
      BY <2>3, <1>5
    <3>3. ~WholeFrame(Values(Frame(audio, j)))
      BY <2>1, <3>2, BrokenFrame
    <3> HIDE DEF To
    <3> QED BY <2>1, <3>1, <3>3, <1>6
  <2> QED BY <2>2, <2>3
<1>7. To(0) = 0 /\ To(L) = U
  BY <1>3, <1>4
<1>8. f = [j \in 0 .. L |-> Body(f, j)]
  <2>1. ASSUME NEW j \in 0 .. L PROVE Codes(To(j)) = Body(f, j)
    <3>1. CASE j = 0
      BY <3>1, <1>7, NoCodes
    <3>2. CASE j # 0
      <4>1. j \in 1 .. L /\ j - 1 \in 0 .. L
        BY <3>2, <1>3
      <4>2. f[j - 1] = Codes(To(j - 1))
        BY <4>1
      <4> HIDE DEF f, Body, To
      <4> QED BY <4>1, <4>2, <1>6
    <3> QED BY <3>1, <3>2
  <2> HIDE DEF To, Body
  <2> QED BY <2>1
<1> DEFINE h == CHOOSE h : h = [j \in 0 .. L |-> Body(h, j)]
<1>9. Scattered(audio) = h[L]
  BY DEF Scattered, L, Slots
<1>10. h = [j \in 0 .. L |-> Body(h, j)]
  <2> HIDE DEF Body, f
  <2> QED BY <1>8
<1> HIDE DEF h
<1>11. \A j \in 0 .. L : h[j] = Body(h, j)
  <2> HIDE DEF Body
  <2> QED BY <1>10
<1>12. \A j \in Nat : j <= L => h[j] = Codes(To(j))
  <2> DEFINE Ok == {j \in Nat : j <= L => h[j] = Codes(To(j))}
  <2>1. 0 \in Ok
    <3>1. 0 \in 0 .. L
      BY <1>3
    <3>2. h[0] = Silent
      BY <3>1, <1>11
    <3> QED BY <3>2, <1>7, NoCodes
  <2>2. ASSUME NEW j \in Nat, j \in Ok PROVE j + 1 \in Ok
    <3>1. SUFFICES ASSUME j + 1 <= L PROVE h[j + 1] = Codes(To(j + 1))
      OBVIOUS
    <3>2. j + 1 \in 1 .. L /\ j + 1 \in 0 .. L /\ (j + 1) - 1 = j /\ j <= L
      BY <3>1, <1>3
    <3>3. h[j] = Codes(To(j))
      BY <2>2, <3>2
    <3>4. h[j + 1] = Body(h, j + 1)
      BY <3>2, <1>11
    <3> HIDE DEF Body, To
    <3>5. h[(j + 1) - 1] = Codes(To((j + 1) - 1))
      BY <3>2, <3>3
    <3> QED BY <3>2, <3>4, <3>5, <1>6
  <2> HIDE DEF Ok
  <2>3. \A j \in Nat : j \in Ok
    BY <2>1, <2>2, Induction
  <2> QED BY <2>3 DEF Ok
<1>13. h[L] = Codes(U)
  BY <1>3, <1>7, <1>12
<1> QED BY <1>9, <1>13 DEF U

(* The place of the first token that was left out, or of the next one.     *)
FirstLost(T, nx) == IF T = {} THEN nx ELSE Min(T)

LEMMA LostIs ==
    ASSUME NEW nx \in Nat \ {0}, NEW T \in SUBSET (1 .. nx - 1)
    PROVE  /\ IsFiniteSet(T) /\ Cardinality(T) \in Nat
           /\ FirstLost(T, nx) \in Nat \ {0} /\ FirstLost(T, nx) + Cardinality(T) <= nx
           /\ T = {} <=> Cardinality(T) = 0
           /\ T = {} => FirstLost(T, nx) = nx
<1>1. CASE T = {}
  <2>1. IsFiniteSet(T) /\ Cardinality(T) = 0
    BY <1>1, FS_EmptySet
  <2> QED BY <1>1, <2>1 DEF FirstLost
<1>2. CASE T # {}
  <2> DEFINE m == Min(T)
  <2>1. m \in T /\ \A y \in T : m <= y
    <3>1. T \in SUBSET Nat
      OBVIOUS
    <3> QED BY <3>1, <1>2, MinIs
  <2> HIDE DEF m
  <2>2. m \in 1 .. nx - 1 /\ T \in SUBSET (m .. nx - 1)
    BY <2>1
  <2>3. IsFiniteSet(m .. nx - 1) /\ Cardinality(m .. nx - 1) = nx - m
    <3>1. m \in Int /\ nx - 1 \in Int /\ ~(m > nx - 1) /\ (nx - 1) - m + 1 = nx - m
      BY <2>2
    <3> QED BY <3>1, FS_Interval
  <2>4. IsFiniteSet(T) /\ Cardinality(T) <= nx - m
    BY <2>2, <2>3, FS_Subset
  <2>5. Cardinality(T) \in Nat
    BY <2>4, FS_CardinalityType
  <2>6. Cardinality(T) # 0
    BY <1>2, <2>4, FS_EmptySet
  <2>7. FirstLost(T, nx) = m
    BY <1>2 DEF FirstLost, m
  <2> DEFINE c == Cardinality(T)
  <2>8. m \in Nat \ {0} /\ m + c <= nx
    <3>1. c \in Nat /\ c <= nx - m
      BY <2>4, <2>5
    <3> HIDE DEF c
    <3> QED BY <3>1, <2>2
  <2> QED BY <1>2, <2>4, <2>5, <2>6, <2>7, <2>8
<1> QED BY <1>1, <1>2

LEMMA OneLost ==
    ASSUME NEW nx \in Nat \ {0}, NEW T \in SUBSET (1 .. nx - 1)
    PROVE  /\ FirstLost(T \cup {nx}, nx + 1) = FirstLost(T, nx)
           /\ Cardinality(T \cup {nx}) = Cardinality(T) + 1
<1> DEFINE U == T \cup {nx}
<1>1. U \in SUBSET Nat /\ U # {} /\ nx \in U /\ nx \notin T
  OBVIOUS
<1>2. Min(U) \in U /\ \A y \in U : Min(U) <= y
  BY <1>1, MinIs
<1>3. FirstLost(U, nx + 1) = Min(U)
  BY <1>1 DEF FirstLost
<1>4. Cardinality(U) = Cardinality(T) + 1
  <2>1. IsFiniteSet(T)
    BY LostIs
  <2> QED BY <2>1, <1>1, FS_AddElement
<1>5. Min(U) = FirstLost(T, nx)
  <2>1. CASE T = {}
    BY <2>1, <1>2 DEF FirstLost
  <2>2. CASE T # {}
    <3> DEFINE m == Min(T)
               u == Min(U)
    <3>1. m \in T /\ \A y \in T : m <= y
      <4>1. T \in SUBSET Nat
        OBVIOUS
      <4> QED BY <4>1, <2>2, MinIs
    <3>2. u \in U /\ \A y \in U : u <= y
      BY <1>2
    <3> HIDE DEF m, u
    <3>3. m < nx /\ m \in Nat /\ u <= m /\ u \in Nat
      BY <3>1, <3>2
    <3>4. u # nx
      BY <3>3
    <3>5. u \in T
      BY <3>2, <3>4
    <3>6. m <= u
      BY <3>1, <3>5
    <3>7. u = m
      BY <3>3, <3>6
    <3> QED BY <3>7, <2>2 DEF FirstLost, m, u
  <2> QED BY <2>1, <2>2
<1> HIDE DEF U
<1>6. FirstLost(U, nx + 1) = FirstLost(T, nx)
  BY <1>3, <1>5
<1> QED BY <1>4, <1>6 DEF U

(* Nothing was said; one token more was left out; one more was said.       *)
LEMMA ToldNothing ==
    ASSUME NEW n \in 1 .. MaxFrames
    PROVE  Told(<<>>, n, 1, 1, 0)
<1>1. n \in Nat
  BY OrpheusAssumption
<1>2. <<>> \in Seq(Nat) /\ Len(<<>>) = 0
  BY EmptySeq
<1> DEFINE pos == [q \in 1 .. Len(<<>>) |-> 1]
<1>3. pos \in [1 .. Len(<<>>) -> 1 .. 1 - 1]
  BY <1>2
<1>4. Place(pos, <<>>, n, 1, 0)
  BY <1>2 DEF Place
<1> HIDE DEF pos
<1> DEFINE none == <<>>
<1>5. none \in Seq(Nat) /\ Len(none) = 0
      /\ \E p \in [1 .. Len(none) -> 1 .. 1 - 1] : Place(p, none, n, 1, 0)
  BY <1>2, <1>3, <1>4
<1> HIDE DEF none
<1>6. /\ 1 \in Nat \ {0} /\ 0 \in Nat /\ 1 \in 1 .. 7 * n + 1 /\ 1 + 0 <= 1 /\ 0 = 1 - 1 - 0
  BY <1>1
<1>7. Told(none, n, 1, 1, 0)
  BY <1>5, <1>6 DEF Told
<1> QED BY <1>7 DEF none

LEMMA ToldLess ==
    ASSUME NEW audio, NEW n, NEW m, NEW nx, NEW k, Told(audio, n, m, nx, k), nx <= 7 * n
    PROVE  Told(audio, n, m, nx + 1, k + 1)
<1>1. /\ n \in 1 .. MaxFrames /\ m \in Nat \ {0} /\ k \in Nat /\ nx \in 1 .. 7 * n + 1 /\ m + k <= nx
      /\ audio \in Seq(Nat) /\ Len(audio) = nx - 1 - k /\ Len(audio) \in Nat /\ n \in Nat
  BY LenProperties, OrpheusAssumption DEF Told
<1>2. PICK pos \in [1 .. Len(audio) -> 1 .. nx - 1] : Place(pos, audio, n, m, k)
  BY DEF Told
<1>3. nx + 1 \in 1 .. 7 * n + 1 /\ m + (k + 1) <= nx + 1 /\ k + 1 \in Nat
      /\ nx - 1 - k = (nx + 1) - 1 - (k + 1)
  BY <1>1
<1>4. pos \in [1 .. Len(audio) -> 1 .. (nx + 1) - 1]
  <2>1. \A q \in 1 .. Len(audio) : pos[q] \in 1 .. (nx + 1) - 1
    BY <1>1, <1>2
  <2> QED BY <2>1, <1>2
<1>5. Place(pos, audio, n, m, k + 1)
  <2> SUFFICES ASSUME NEW q \in 1 .. Len(audio)
               PROVE  /\ audio[q] = InterleaveCodes(Codes(n))[pos[q]]
                      /\ q < m => pos[q] = q
                      /\ q >= m => q < pos[q] /\ pos[q] <= q + (k + 1)
    BY DEF Place
  <2> DEFINE r == pos[q]
  <2>1. /\ audio[q] = InterleaveCodes(Codes(n))[r]
        /\ q < m => r = q
        /\ q >= m => q < r /\ r <= q + k
    BY <1>2 DEF Place
  <2>2. r \in Int /\ q \in Int /\ k \in Int
    BY <1>1, <1>2
  <2> HIDE DEF r
  <2>3. q >= m => r <= q + (k + 1)
    BY <2>1, <2>2
  <2> QED BY <2>1, <2>3 DEF r
<1> QED BY <1>1, <1>3, <1>4, <1>5 DEF Told

LEMMA ToldMore ==
    ASSUME NEW audio, NEW n, NEW m, NEW nx, NEW k, Told(audio, n, m, nx, k), nx <= 7 * n,
           k = 0 => m = nx, NEW w, w = (IF k = 0 THEN nx + 1 ELSE m),
           NEW token, token = InterleaveCodes(Codes(n))[nx]
    PROVE  Told(audio \o <<token>>, n, w, nx + 1, k)
<1>1. /\ n \in 1 .. MaxFrames /\ m \in Nat \ {0} /\ k \in Nat /\ nx \in 1 .. 7 * n + 1 /\ m + k <= nx
      /\ audio \in Seq(Nat) /\ Len(audio) = nx - 1 - k /\ Len(audio) \in Nat /\ n \in Nat
  BY LenProperties, OrpheusAssumption DEF Told
<1>2. PICK pos \in [1 .. Len(audio) -> 1 .. nx - 1] : Place(pos, audio, n, m, k)
  BY DEF Told
<1>3. /\ nx + 1 \in 1 .. 7 * n + 1 /\ w + k <= nx + 1 /\ w \in Nat \ {0}
      /\ nx - 1 - k + 1 = (nx + 1) - 1 - k /\ (nx + 1) - 1 = nx
  BY <1>1
<1>4. token \in Nat
  <2>1. InterleaveCodes(Codes(n)) \in Seq(Nat) /\ Len(InterleaveCodes(Codes(n))) = 7 * n
    BY <1>1, SpeechIs
  <2>2. nx \in 1 .. 7 * n
    BY <1>1
  <2> QED BY <2>1, <2>2, ElementOfSeq
<1> DEFINE t == audio \o <<token>>
           l == Len(audio)
           new == [q \in 1 .. l + 1 |-> IF q <= l THEN pos[q] ELSE nx]
<1>5. /\ t \in Seq(Nat) /\ Len(t) = l + 1
      /\ \A q \in 1 .. l : t[q] = audio[q]
      /\ t[l + 1] = token
  BY <1>1, <1>4, AppendProperties, AppendIsConcat
<1>6. Len(t) = (nx + 1) - 1 - k
  <2> HIDE DEF t
  <2> QED BY <1>1, <1>3, <1>5
<1>7. l \in Nat /\ l + 1 = nx - k
  <2>1. l = nx - 1 - k /\ l \in Nat
    BY <1>1
  <2> HIDE DEF l
  <2> QED BY <2>1, <1>1
<1>8. new \in [1 .. Len(t) -> 1 .. (nx + 1) - 1]
  <2>1. \A q \in 1 .. l : pos[q] \in 1 .. nx - 1
    BY <1>2
  <2> HIDE DEF l
  <2>2. \A q \in 1 .. l + 1 : (IF q <= l THEN pos[q] ELSE nx) \in 1 .. nx
    BY <2>1, <1>1, <1>7
  <2> HIDE DEF t
  <2> QED BY <2>2, <1>3, <1>5
<1> HIDE DEF t
<1>9. Place(new, t, n, w, k)
  <2> SUFFICES ASSUME NEW q \in 1 .. l + 1
               PROVE  /\ t[q] = InterleaveCodes(Codes(n))[new[q]]
                      /\ q < w => new[q] = q
                      /\ q >= w => q < new[q] /\ new[q] <= q + k
    BY <1>5 DEF Place
  <2>1. CASE q <= l
    <3>1. q \in 1 .. l /\ new[q] = pos[q] /\ t[q] = audio[q]
      BY <2>1, <1>5, <1>7
    <3> DEFINE r == pos[q]
    <3>2. /\ audio[q] = InterleaveCodes(Codes(n))[r]
          /\ q < m => r = q
          /\ q >= m => q < r /\ r <= q + k
      BY <3>1, <1>2 DEF Place
    <3> HIDE DEF r, new, l
    <3>3. k = 0 => q < m
      BY <3>1, <1>1, <1>7
    <3>4. (q < w <=> q < m) /\ (q >= w <=> q >= m)
      BY <3>1, <3>3, <1>1, <1>7
    <3>5. new[q] = r
      BY <3>1 DEF r
    <3> QED BY <3>1, <3>2, <3>4, <3>5
  <2>2. CASE ~(q <= l)
    <3>1. q = l + 1
      BY <2>2, <1>7
    <3>2. new[q] = nx
      BY <3>1, <2>2
    <3>3. t[q] = token
      BY <3>1, <1>5
    <3> HIDE DEF new, l
    <3>4. q = nx - k
      BY <3>1, <1>7
    <3>5. (q < w => nx = q) /\ (q >= w => q < nx /\ nx <= q + k)
      BY <3>4, <1>1
    <3> QED BY <3>2, <3>3, <3>5
  <2> QED BY <2>1, <2>2
<1> HIDE DEF new
<1>10. Told(t, n, w, nx + 1, k)
  BY <1>1, <1>3, <1>5, <1>6, <1>8, <1>9 DEF Told
<1> QED BY <1>10 DEF t

(* After the prompt comes what was said of the speech.                     *)
Telling(n, start, said) ==
    /\ meant = Codes(n)
    /\ output = start \o said /\ Len(start) = prompt
    /\ Told(Audio[said], n, FirstLost(lost, next), next, Cardinality(lost))

(* The inductive invariant.                                                *)
OrpheusInv ==
    /\ next \in Nat \ {0} /\ lost \in SUBSET (1 .. next - 1)
    /\ \E n \in 1 .. MaxFrames, start, said \in Seq(Nat) : Telling(n, start, said)
    /\ HeardIsTheSpeech

(* A prompt is a sequence of tokens.                                       *)
LEMMA PromptIs ==
    ASSUME NEW s \in Seq(Nat)
    PROVE  Prompt(s) \in Seq(Nat)
<1>1. <<1, 0>> \in Seq(Nat) /\ <<2, 3, 4, 5>> \in Seq(Nat)
  OBVIOUS
<1>2. Prompt(s) = <<1, 0>> \o <<2, 3, 4, 5>> \o s \o <<1, 0>> \o <<2, 3, 4, 5>>
  BY DEF Prompt, HUMAN, TEXT, ENDTEXT
<1> DEFINE a == <<1, 0>>
           b == <<2, 3, 4, 5>>
<1> HIDE DEF a, b
<1>3. a \o b \in Seq(Nat)
  BY <1>1, ConcatProperties DEF a, b
<1>4. a \o b \o s \in Seq(Nat)
  BY <1>3, ConcatProperties
<1>5. a \o b \o s \o a \in Seq(Nat)
  BY <1>1, <1>4, ConcatProperties DEF a
<1>6. a \o b \o s \o a \o b \in Seq(Nat)
  BY <1>1, <1>5, ConcatProperties DEF b
<1> QED BY <1>2, <1>6 DEF a, b

LEMMA OrpheusStart == OrpheusInit => OrpheusInv
<1> SUFFICES ASSUME OrpheusInit PROVE OrpheusInv
  OBVIOUS
<1>1. PICK n \in 1 .. MaxFrames, ref \in 1 .. MaxFrames :
        /\ meant = Codes(n)
        /\ output = Prompt(InterleaveCodes(Codes(ref)))
        /\ prompt = Len(Prompt(InterleaveCodes(Codes(ref))))
  BY DEF OrpheusInit
<1>2. next = 1 /\ lost = {} /\ done = FALSE
  BY DEF OrpheusInit
<1> DEFINE start == Prompt(InterleaveCodes(Codes(ref)))
<1>3. start \in Seq(Nat)
  <2>1. InterleaveCodes(Codes(ref)) \in Seq(Nat)
    BY SpeechIs
  <2> QED BY <2>1, PromptIs
<1>4. <<>> \in Seq(Nat) /\ start \o <<>> = start
  BY <1>3, EmptySeq, ConcatEmptySeq
<1>5. Told(Audio[<<>>], n, FirstLost(lost, next), next, Cardinality(lost))
  <2>1. FirstLost(lost, next) = 1 /\ Cardinality(lost) = 0
    BY <1>2, FS_EmptySet DEF FirstLost
  <2>2. Told(<<>>, n, 1, 1, 0)
    BY ToldNothing
  <2> QED BY <1>2, <2>1, <2>2, AudioIs
<1>6. output = start \o <<>> /\ Len(start) = prompt
  BY <1>1, <1>4
<1> HIDE DEF start
<1>7. Telling(n, start, <<>>)
  BY <1>1, <1>5, <1>6 DEF Telling
<1>8. next \in Nat \ {0} /\ lost \in SUBSET (1 .. next - 1) /\ HeardIsTheSpeech
  BY <1>2 DEF HeardIsTheSpeech
<1> QED BY <1>3, <1>4, <1>7, <1>8 DEF OrpheusInv

(* What a token adds to what was said.                                     *)
LEMMA SayIs ==
    ASSUME NEW start \in Seq(Nat), NEW said \in Seq(Nat), output = start \o said,
           NEW token \in Nat, Say(token)
    PROVE  /\ said \o <<token>> \in Seq(Nat)
           /\ output' = start \o (said \o <<token>>)
           /\ Audio[said \o <<token>>] =
                IF IsAudio(token) THEN Audio[said] \o <<token>> ELSE Audio[said]
<1> DEFINE one == <<token>>
<1>1. one \in Seq(Nat) /\ said \o one \in Seq(Nat)
  BY FrontOfAppend
<1>2. start \o said \in Seq(Nat)
  BY ConcatProperties
<1>3. Append(start \o said, token) = (start \o said) \o one
  BY <1>2, AppendIsConcat
<1>4. (start \o said) \o one = start \o (said \o one)
  <2> HIDE DEF one
  <2> QED BY <1>1, ConcatAssociative
<1> QED BY <1>1, <1>3, <1>4, AudioIs DEF Say

(* The next token of the speech.                                           *)
LEMMA SpokenIs ==
    ASSUME NEW n \in 1 .. MaxFrames, meant = Codes(n), next \in Nat \ {0}, next <= Len(Spoken)
    PROVE  /\ next <= 7 * n /\ Spoken[next] = InterleaveCodes(Codes(n))[next]
           /\ Spoken[next] \in Nat /\ IsAudio(Spoken[next])
<1>1. /\ Spoken = InterleaveCodes(Codes(n)) /\ Spoken \in Seq(Nat) /\ Len(Spoken) = 7 * n
      /\ \A i \in 1 .. 7 * n : IsAudio(Spoken[i])
  BY SpeechIs DEF Spoken
<1>2. next \in 1 .. 7 * n
  <2>1. n \in Nat
    BY OrpheusAssumption
  <2> QED BY <2>1, <1>1
<1> QED BY <1>1, <1>2, ElementOfSeq

(* Each action keeps the invariant.                                        *)
LEMMA SpeakKeeps ==
    ASSUME OrpheusInv, Speak
    PROVE  OrpheusInv'
<1>1. /\ ~done /\ next <= Len(Spoken) /\ Say(Spoken[next])
      /\ next' = next + 1 /\ lost' = lost /\ strays' = strays
      /\ meant' = meant /\ prompt' = prompt /\ done' = done
  BY DEF Speak, Say
<1>2. next \in Nat \ {0} /\ lost \in SUBSET (1 .. next - 1)
  BY DEF OrpheusInv
<1>3. PICK n \in 1 .. MaxFrames, start \in Seq(Nat), said \in Seq(Nat) : Telling(n, start, said)
  BY DEF OrpheusInv
<1>t. PICK token : token = Spoken[next]
  OBVIOUS
<1> DEFINE more == said \o <<token>>
           m == FirstLost(lost, next)
           k == Cardinality(lost)
<1>4. /\ meant = Codes(n) /\ output = start \o said /\ Len(start) = prompt
      /\ Told(Audio[said], n, m, next, k)
  BY <1>3 DEF Telling
<1>5. /\ next <= 7 * n /\ token = InterleaveCodes(Codes(n))[next]
      /\ token \in Nat /\ IsAudio(token)
  BY <1>1, <1>2, <1>4, <1>t, SpokenIs
<1>7. k = 0 => m = next
  <2>1. (lost = {} <=> k = 0) /\ (lost = {} => m = next)
    BY <1>2, LostIs
  <2> HIDE DEF m, k
  <2> QED BY <2>1
<1>8. FirstLost(lost, next + 1) = IF k = 0 THEN next + 1 ELSE m
  <2>1. lost = {} <=> k = 0
    BY <1>2, LostIs
  <2> HIDE DEF k
  <2> QED BY <2>1 DEF FirstLost
<1>9. more \in Seq(Nat) /\ output' = start \o more /\ Audio[more] = Audio[said] \o <<token>>
  BY <1>1, <1>4, <1>5, <1>t, SayIs, ZenonT(30)
<1> HIDE DEF more, m, k
<1>10. Told(Audio[said] \o <<token>>, n, FirstLost(lost, next + 1), next + 1, k)
  BY <1>4, <1>5, <1>7, <1>8, ToldMore
<1>11. Told(Audio[more], n, FirstLost(lost', next'), next', Cardinality(lost'))
  BY <1>1, <1>9, <1>10 DEF k
<1>12. Telling(n, start, more)'
  BY <1>1, <1>4, <1>9, <1>11 DEF Telling
<1>13. next' \in Nat \ {0} /\ lost' \in SUBSET (1 .. next' - 1)
  BY <1>1, <1>2
<1>14. HeardIsTheSpeech'
  BY <1>1 DEF HeardIsTheSpeech
<1> QED BY <1>9, <1>12, <1>13, <1>14 DEF OrpheusInv

LEMMA StrayKeeps ==
    ASSUME OrpheusInv, Stray
    PROVE  OrpheusInv'
<1>1. PICK token \in {TEXT, Offset + Slots * Size} : Say(token)
  BY DEF Stray
<1>2. /\ ~done /\ next' = next /\ lost' = lost
      /\ meant' = meant /\ prompt' = prompt /\ done' = done
  BY <1>1 DEF Stray, Say
<1>3. next \in Nat \ {0} /\ lost \in SUBSET (1 .. next - 1)
  BY DEF OrpheusInv
<1>4. PICK n \in 1 .. MaxFrames, start \in Seq(Nat), said \in Seq(Nat) : Telling(n, start, said)
  BY DEF OrpheusInv
<1>5. token \in Nat /\ ~IsAudio(token)
  <2>1. Size \in Nat
    BY OrpheusAssumption DEF Size
  <2> HIDE DEF Size
  <2> QED BY <2>1 DEF IsAudio, TEXT, Offset, Slots
<1> DEFINE more == said \o <<token>>
<1>6. /\ meant = Codes(n) /\ output = start \o said /\ Len(start) = prompt
      /\ Told(Audio[said], n, FirstLost(lost, next), next, Cardinality(lost))
  BY <1>4 DEF Telling
<1>7. more \in Seq(Nat) /\ output' = start \o more /\ Audio[more] = Audio[said]
  BY <1>1, <1>5, <1>6, SayIs
<1> HIDE DEF more
<1>8. Telling(n, start, more)'
  BY <1>2, <1>6, <1>7 DEF Telling
<1>9. HeardIsTheSpeech'
  BY <1>2 DEF HeardIsTheSpeech
<1> QED BY <1>2, <1>3, <1>7, <1>8, <1>9 DEF OrpheusInv

LEMMA LoseKeeps ==
    ASSUME OrpheusInv, Lose
    PROVE  OrpheusInv'
<1>1. /\ ~done /\ next <= Len(Spoken) /\ lost' = lost \cup {next} /\ next' = next + 1
      /\ meant' = meant /\ output' = output /\ prompt' = prompt /\ done' = done
  BY DEF Lose
<1>2. next \in Nat \ {0} /\ lost \in SUBSET (1 .. next - 1)
  BY DEF OrpheusInv
<1>3. PICK n \in 1 .. MaxFrames, start \in Seq(Nat), said \in Seq(Nat) : Telling(n, start, said)
  BY DEF OrpheusInv
<1>4. /\ meant = Codes(n) /\ output = start \o said /\ Len(start) = prompt
      /\ Told(Audio[said], n, FirstLost(lost, next), next, Cardinality(lost))
  BY <1>3 DEF Telling
<1>5. next <= 7 * n
  BY <1>1, <1>2, <1>4, SpokenIs
<1>6. Told(Audio[said], n, FirstLost(lost, next), next + 1, Cardinality(lost) + 1)
  BY <1>4, <1>5, ToldLess
<1>7. /\ FirstLost(lost', next') = FirstLost(lost, next)
      /\ Cardinality(lost') = Cardinality(lost) + 1
  BY <1>1, <1>2, OneLost
<1>8. Telling(n, start, said)'
  BY <1>1, <1>4, <1>6, <1>7 DEF Telling
<1>9. next' \in Nat \ {0} /\ lost' \in SUBSET (1 .. next' - 1)
  BY <1>1, <1>2
<1>10. HeardIsTheSpeech'
  BY <1>1 DEF HeardIsTheSpeech
<1> QED BY <1>8, <1>9, <1>10 DEF OrpheusInv

(* The continuation is what follows the prompt.                            *)
LEMMA Continuation ==
    ASSUME NEW start \in Seq(Nat), NEW more \in Seq(Nat)
    PROVE  SubSeq(start \o more, Len(start) + 1, Len(start \o more)) = more
<1> DEFINE s == start \o more
           n == Len(start)
<1>1. /\ s \in Seq(Nat) /\ Len(s) = n + Len(more) /\ n \in Nat /\ Len(more) \in Nat
      /\ \A i \in 1 .. n + Len(more) : s[i] = IF i <= n THEN start[i] ELSE more[i - n]
  BY ConcatProperties, LenProperties
<1> HIDE DEF s, n
<1>2. n + 1 \in 1 .. Len(s) + 1 /\ Len(s) \in 0 .. Len(s) /\ n + 1 <= Len(s) + 1
      /\ Len(s) - (n + 1) + 1 = Len(more)
  BY <1>1
<1>3. /\ SubSeq(s, n + 1, Len(s)) \in Seq(Nat)
      /\ Len(SubSeq(s, n + 1, Len(s))) = Len(more)
      /\ \A i \in 1 .. Len(more) : SubSeq(s, n + 1, Len(s))[i] = s[(n + 1) + i - 1]
  <2> DEFINE t == SubSeq(s, n + 1, Len(s))
  <2>1. /\ t \in Seq(Nat) /\ Len(t) = Len(s) - (n + 1) + 1
        /\ \A i \in 1 .. Len(s) - (n + 1) + 1 : t[i] = s[(n + 1) + i - 1]
    BY <1>1, <1>2, PartIs
  <2> HIDE DEF t
  <2> QED BY <2>1, <1>2 DEF t
<1> DEFINE t == SubSeq(s, n + 1, Len(s))
<1> HIDE DEF t
<1>4. t \in Seq(Nat) /\ Len(t) = Len(more) /\ \A i \in 1 .. Len(more) : t[i] = s[(n + 1) + i - 1]
  BY <1>3 DEF t
<1>5. ASSUME NEW i \in 1 .. Len(more) PROVE t[i] = more[i]
  <2>1. (n + 1) + i - 1 = n + i /\ n + i \in 1 .. n + Len(more) /\ ~(n + i <= n) /\ (n + i) - n = i
    <3> DEFINE l == Len(more)
    <3>1. n \in Nat /\ l \in Nat /\ i \in 1 .. l
      BY <1>1
    <3> HIDE DEF l
    <3>2. n + i \in 1 .. n + l
      BY <3>1
    <3> QED BY <3>1, <3>2 DEF l
  <2> QED BY <2>1, <1>1, <1>4
<1>6. t = more
  BY <1>4, <1>5, SeqEqual
<1> QED BY <1>6 DEF t, s, n

LEMMA ReturnKeeps ==
    ASSUME OrpheusInv, Return
    PROVE  OrpheusInv'
<1>1. PICK end \in {<<>>, <<STOPPED>>} :
        /\ output' = output \o end
        /\ heard' = Decode(SubSeq(output', prompt + 1, Len(output')))
  BY DEF Return
<1>2. /\ meant' = meant /\ prompt' = prompt /\ next' = next /\ lost' = lost
  BY DEF Return
<1>3. next \in Nat \ {0} /\ lost \in SUBSET (1 .. next - 1)
  BY DEF OrpheusInv
<1>4. PICK n \in 1 .. MaxFrames, start \in Seq(Nat), said \in Seq(Nat) : Telling(n, start, said)
  BY DEF OrpheusInv
<1> DEFINE m == FirstLost(lost, next)
           k == Cardinality(lost)
           more == said \o end
<1>5. /\ meant = Codes(n) /\ output = start \o said /\ Len(start) = prompt
      /\ Told(Audio[said], n, m, next, k)
  BY <1>4 DEF Telling
<1>6. end \in Seq(Nat) /\ more \in Seq(Nat) /\ Audio[more] = Audio[said]
  <2>1. CASE end = <<>>
    BY <2>1, EmptySeq, ConcatEmptySeq
  <2>2. CASE end = <<STOPPED>>
    <3>1. 6 \in Nat /\ ~IsAudio(6)
      BY DEF IsAudio, Offset
    <3>2. <<6>> \in Seq(Nat) /\ said \o <<6>> \in Seq(Nat) /\ Audio[said \o <<6>>] = Audio[said]
      BY <3>1, AudioIs, FrontOfAppend
    <3> QED BY <2>2, <3>2 DEF STOPPED
  <2> QED BY <2>1, <2>2
<1>7. output' = start \o more
  <2>1. output' = (start \o said) \o end
    BY <1>1, <1>5
  <2>2. (start \o said) \o end = start \o (said \o end)
    BY <1>6, ConcatAssociative
  <2> QED BY <2>1, <2>2
<1> HIDE DEF m, k, more
<1>8. heard' = Scattered(Audio[said])
  <2>1. SubSeq(output', prompt + 1, Len(output')) = more
    BY <1>5, <1>6, <1>7, Continuation
  <2> QED BY <2>1, <1>1, <1>6 DEF Decode
<1>9. k < 7 => heard' = Codes((m - 1) \div 7)
  BY <1>5, <1>8, ScatteredIs
<1>10. Unharmed' = (m - 1) \div 7
  <2>1. Unharmed' = (FirstLost(lost', next') - 1) \div 7
    BY DEF Unharmed, FirstLost, Slots
  <2> QED BY <2>1, <1>2 DEF m
<1>11. HeardIsTheSpeech'
  BY <1>2, <1>9, <1>10 DEF HeardIsTheSpeech, Slots, k
<1>12. Telling(n, start, more)'
  BY <1>2, <1>5, <1>6, <1>7 DEF Telling, m, k
<1> QED BY <1>2, <1>3, <1>6, <1>11, <1>12 DEF OrpheusInv

LEMMA OrpheusStep == OrpheusInv /\ [OrpheusNext]_orpheusVars => OrpheusInv'
<1> SUFFICES ASSUME OrpheusInv, [OrpheusNext]_orpheusVars PROVE OrpheusInv'
  OBVIOUS
<1>1. CASE Speak
  BY <1>1, SpeakKeeps
<1>2. CASE Stray
  BY <1>2, StrayKeeps
<1>3. CASE Lose
  BY <1>3, LoseKeeps
<1>4. CASE Return
  BY <1>4, ReturnKeeps
<1>5. CASE UNCHANGED orpheusVars
  <2>1. /\ meant' = meant /\ output' = output /\ prompt' = prompt /\ next' = next
        /\ lost' = lost /\ done' = done /\ heard' = heard
    BY <1>5 DEF orpheusVars
  <2>2. Unharmed' = Unharmed
    BY <2>1 DEF Unharmed
  <2>3. HeardIsTheSpeech'
    BY <2>1, <2>2 DEF OrpheusInv, HeardIsTheSpeech
  <2>4. \A n, start, said : Telling(n, start, said) => Telling(n, start, said)'
    BY <2>1 DEF Telling
  <2> QED BY <2>1, <2>3, <2>4 DEF OrpheusInv
<1> QED BY <1>1, <1>2, <1>3, <1>4, <1>5 DEF OrpheusNext

(* What follows the prompt are tokens of the speech in their order, among  *)
(* others that are no codes; as many are missing as were left out, and     *)
(* none before the first of those. (generate, as backends/orpheus.py uses  *)
(* it.)                                                                    *)
THEOREM OrpheusInvariant == OrpheusSpec => []OrpheusInv
<1> QED BY OrpheusStart, OrpheusStep, PTL DEF OrpheusSpec

(* What SNAC is given are the frames of the speech before the first token  *)
(* that is missing, for speeches and references of any length.             *)
(* (_decode_audio_tokens of backends/orpheus.py.)                          *)
THEOREM SpeechIsHeard == OrpheusSpec => []HeardIsTheSpeech
<1>1. OrpheusInv => HeardIsTheSpeech
  BY DEF OrpheusInv
<1> QED BY <1>1, OrpheusInvariant, PTL

-----------------------------------------------------------------------------
(* The higgs stream.                                                       *)

HiggsTypeOK ==
    /\ speech \in Nat /\ put \in Nat /\ cols \in Nat /\ yielded \in Nat
    /\ worker \in {"generate", "ended", "raised", "crashed"}
    /\ taker \in {"next", "yielded", "flushed", "raised", "closed", "done", "failed", "left"}
    /\ failed \in BOOLEAN /\ first \in BOOLEAN
    /\ queue \in Seq({"column", Sentinel})
    /\ played \in Seq(Nat)

Over    == taker \in {"flushed", "raised", "done", "failed"}
Stopped == worker \in {"ended", "crashed"}

(* The queue holds the columns that are put and not taken, and then, once *)
(* the worker is through and until it is read, the sentinel.               *)
QueueInv ==
    /\ \A i \in 1 .. Len(queue) : queue[i] = Sentinel <=> Stopped /\ i = Len(queue)
    /\ Over => Stopped /\ queue = <<>>
    /\ Stopped /\ ~Over => queue # <<>>
    /\ put = cols + Len(queue) - (IF Stopped /\ ~Over THEN 1 ELSE 0)
    /\ failed <=> worker \in {"raised", "crashed"}
    /\ taker \in {"flushed", "done"} => worker = "ended"

(* A generation ends with all its columns, or with the first whole frame.  *)
EndInv == worker = "ended" => put = speech + Pad + 2 \/ (put = Pad + 1 /\ speech = 0)

(* The frames of n columns, with and without the one in the mark's place.  *)
WholeFrames(n) == Decoded(n, FALSE)
Kept(n)  == Decoded(n, TRUE)

Threshold == IF first THEN Chunk ELSE FirstChunk
Run(n)    == [i \in 1 .. n |-> i]

(* What is given out ends with a chunk, and less than a chunk is left.     *)
ChunkInv ==
    /\ ~first => yielded = 0
    /\ first => \E k \in Nat : yielded = FirstChunk + k * Chunk
    /\ yielded <= WholeFrames(cols)
    /\ WholeFrames(cols) < yielded + Threshold

SoundInv ==
    /\ \E n \in Nat : played = Run(n)
    /\ taker \notin {"flushed", "done"} => played = Run(yielded)
    /\ taker \in {"flushed", "done"} =>
         played = Run(Kept(cols))
                   \o (IF MarkCompletesChunk THEN <<speech + 1>> ELSE <<>>)

HiggsInv == HiggsTypeOK /\ QueueInv /\ EndInv /\ ChunkInv /\ SoundInv

-----------------------------------------------------------------------------
(* Arithmetic and runs of frames.                                          *)

LEMMA DecodedIs ==
    ASSUME NEW n \in Nat
    PROVE  /\ WholeFrames(n) = IF n < Pad + 1 THEN 0 ELSE n - Pad - 1
           /\ Kept(n)  = IF n < Pad + 2 THEN 0 ELSE n - Pad - 2
           /\ WholeFrames(n) \in Nat /\ Kept(n) \in Nat
           /\ WholeFrames(n + 1) \in {WholeFrames(n), WholeFrames(n) + 1}
BY HiggsAssumption DEF WholeFrames, Kept, Decoded, Monus

LEMMA TimesGrows ==
    ASSUME NEW a \in Nat, NEW b \in Nat, a <= b, NEW c \in Nat
    PROVE  a * c <= b * c
<1>1. b * c = a * c + (b - a) * c
  OBVIOUS
<1>2. (b - a) * c \in Nat
  OBVIOUS
<1>3. a * c \in Nat /\ b * c \in Nat
  OBVIOUS
<1> QED BY <1>1, <1>2, <1>3

LEMMA FramesIs ==
    ASSUME NEW a \in Nat, NEW b \in Nat
    PROVE  /\ Frames(a + 1, b) \in Seq(Nat)
           /\ Len(Frames(a + 1, b)) = IF b < a THEN 0 ELSE b - a
           /\ \A i \in 1 .. Len(Frames(a + 1, b)) : Frames(a + 1, b)[i] = a + i
<1> DEFINE l == IF b < a THEN 0 ELSE b - a
<1>1. l \in Nat /\ Frames(a + 1, b) = [i \in 1 .. l |-> a + i]
  BY DEF Frames, Monus
<1> HIDE DEF l
<1>2. [i \in 1 .. l |-> a + i] \in Seq(Nat) /\ Len([i \in 1 .. l |-> a + i]) = l
  BY <1>1
<1> QED BY <1>1, <1>2 DEF l

LEMMA RunIs ==
    ASSUME NEW n \in Nat
    PROVE  /\ Run(n) \in Seq(Nat) /\ Len(Run(n)) = n
           /\ \A i \in 1 .. n : Run(n)[i] = i
           /\ Frames(1, n) = Run(n)
BY DEF Run, Frames, Monus

(* Frames that begin where a run ends make it longer.                      *)
LEMMA RunGrows ==
    ASSUME NEW a \in Nat, NEW b \in Nat
    PROVE  Run(a) \o Frames(a + 1, b) = Run(IF b < a THEN a ELSE b)
<1> DEFINE n == IF b < a THEN a ELSE b
           s == Run(a)
           t == Frames(a + 1, b)
           r == Run(n)
<1>1. n \in Nat
  OBVIOUS
<1>2. /\ s \in Seq(Nat) /\ Len(s) = a /\ \A i \in 1 .. a : s[i] = i
      /\ r \in Seq(Nat) /\ Len(r) = n /\ \A i \in 1 .. n : r[i] = i
  BY <1>1, RunIs
<1>3. /\ t \in Seq(Nat) /\ Len(t) = n - a
      /\ \A i \in 1 .. Len(t) : t[i] = a + i
  <2>1. (IF b < a THEN 0 ELSE b - a) = n - a
    OBVIOUS
  <2> HIDE DEF n
  <2> QED BY <2>1, FramesIs
<1> HIDE DEF s, t, r, n
<1>4. /\ s \o t \in Seq(Nat) /\ Len(s \o t) = n
      /\ \A i \in 1 .. n : (s \o t)[i] = i
  BY <1>1, <1>2, <1>3, SMTT(30)
<1>5. s \o t = r
  BY <1>2, <1>4, SeqEqual
<1> QED BY <1>5 DEF s, t, r, n

-----------------------------------------------------------------------------
LEMMA HiggsInitInv == HiggsInit => HiggsInv
<1> SUFFICES ASSUME HiggsInit PROVE HiggsInv
  OBVIOUS
<1>1. HiggsTypeOK /\ QueueInv /\ EndInv
  <2>1. /\ worker = "generate" /\ taker = "next" /\ failed = FALSE /\ first = FALSE
        /\ put = 0 /\ cols = 0 /\ yielded = 0 /\ queue = <<>> /\ played = <<>>
        /\ speech \in Nat
    BY HiggsAssumption DEF HiggsInit
  <2>2. queue \in Seq({"column", Sentinel}) /\ Len(queue) = 0 /\ played \in Seq(Nat)
    BY <2>1
  <2>3. HiggsTypeOK
    BY <2>1, <2>2 DEF HiggsTypeOK
  <2>4. ~Stopped /\ ~Over
    BY <2>1 DEF Stopped, Over
  <2>5. QueueInv
    BY <2>1, <2>2, <2>4 DEF QueueInv
  <2>6. EndInv
    BY <2>1 DEF EndInv
  <2> QED BY <2>3, <2>5, <2>6
<1>2. ChunkInv
  BY HiggsAssumption, DecodedIs DEF HiggsInit, ChunkInv, Threshold
<1>3. SoundInv
  <2>1. taker = "next" /\ played = <<>> /\ yielded = 0
    BY DEF HiggsInit
  <2>2. played = Run(0)
    BY <2>1 DEF Run
  <2> QED BY <2>1, <2>2 DEF SoundInv
<1> QED BY <1>1, <1>2, <1>3 DEF HiggsInv

(* The worker touches neither what is given out nor what is taken.         *)
LEMMA WorkerStep ==
    ASSUME HiggsInv, PutColumn \/ End \/ Raise \/ Unblock
    PROVE  HiggsInv'
<1>1. UNCHANGED <<cols, yielded, first, taker, played>>
  BY DEF PutColumn, End, Raise, Unblock
<1>2. ~Stopped /\ ~Over
  BY DEF HiggsInv, QueueInv, Stopped, PutColumn, End, Raise, Unblock
<1>3. HiggsTypeOK'
  <2>1. queue' \in Seq({"column", Sentinel})
    <3>1. queue \in Seq({"column", Sentinel})
      BY DEF HiggsInv, HiggsTypeOK
    <3>2. \/ queue' = queue \/ queue' = Append(queue, "column")
          \/ queue' = Append(queue, Sentinel)
      BY DEF PutColumn, End, Raise, Unblock
    <3> QED BY <3>1, <3>2
  <2>2. /\ put' \in Nat /\ failed' \in BOOLEAN
        /\ worker' \in {"generate", "ended", "raised", "crashed"}
    <3>1. put' = put \/ put' = put + 1
      BY DEF PutColumn, End, Raise, Unblock
    <3>2. (failed' = failed \/ failed' = TRUE) /\ put \in Nat /\ failed \in BOOLEAN
      BY DEF PutColumn, End, Raise, Unblock, HiggsInv, HiggsTypeOK
    <3>3. worker' \in {"generate", "ended", "raised", "crashed"}
      BY DEF PutColumn, End, Raise, Unblock
    <3>4. put' \in Nat
      BY <3>1, <3>2
    <3>5. failed' \in BOOLEAN
      BY <3>2
    <3> QED BY <3>3, <3>4, <3>5
  <2>3. Monus(put, Pad + 2) \in Nat
    BY HiggsAssumption DEF HiggsInv, HiggsTypeOK, Monus
  <2>4. speech' \in Nat
    BY <2>3 DEF HiggsInv, HiggsTypeOK, PutColumn, End, Raise, Unblock
  <2> QED BY <1>1, <2>1, <2>2, <2>4 DEF HiggsInv, HiggsTypeOK
<1>4. QueueInv'
  <2>1. queue \in Seq({"column", Sentinel}) /\ \A i \in 1 .. Len(queue) : queue[i] # Sentinel
    BY <1>2 DEF HiggsInv, HiggsTypeOK, QueueInv
  <2>2. ~Over'
    BY <1>1, <1>2 DEF Over
  <2>3. /\ put = cols + Len(queue) /\ put \in Nat /\ cols \in Nat /\ Len(queue) \in Nat
        /\ failed <=> worker \in {"raised", "crashed"}
    BY <1>2 DEF HiggsInv, QueueInv, HiggsTypeOK
  <2>4. taker' \notin {"flushed", "done"}
    BY <2>2 DEF Over
  <2>5. CASE PutColumn
    <3>1. /\ queue' = Append(queue, "column") /\ ~Stopped' /\ put' = put + 1
          /\ worker' = worker /\ failed' = failed
      BY <1>2, <2>5 DEF PutColumn, Stopped
    <3>2. Len(queue') = Len(queue) + 1 /\ \A i \in 1 .. Len(queue') : queue'[i] # Sentinel
      BY <2>1, <3>1 DEF Sentinel
    <3> QED BY <1>1, <2>2, <2>3, <2>4, <3>1, <3>2 DEF QueueInv
  <2>6. CASE End \/ Unblock
    <3>1. /\ queue' = Append(queue, Sentinel) /\ Stopped' /\ put' = put
          /\ (failed' <=> worker' \in {"raised", "crashed"})
      BY <2>3, <2>6 DEF End, Unblock, Stopped
    <3>2. /\ Len(queue') = Len(queue) + 1 /\ queue' # <<>>
          /\ \A i \in 1 .. Len(queue') : queue'[i] = Sentinel <=> i = Len(queue')
      BY <2>1, <3>1
    <3> QED BY <1>1, <2>2, <2>3, <2>4, <3>1, <3>2 DEF QueueInv
  <2>7. CASE Raise
    <3>1. /\ queue' = queue /\ ~Stopped' /\ put' = put
          /\ (failed' <=> worker' \in {"raised", "crashed"})
      BY <2>7 DEF Raise, Stopped
    <3> QED BY <1>1, <2>1, <2>2, <2>3, <2>4, <3>1 DEF QueueInv
  <2> QED BY <2>5, <2>6, <2>7
<1>5. EndInv'
  <2>1. CASE End
    BY <2>1, HiggsAssumption DEF End, EndInv, Columns, Monus, HiggsInv, HiggsTypeOK
  <2>2. CASE ~End
    BY <2>2 DEF PutColumn, Raise, Unblock, EndInv
  <2> QED BY <2>1, <2>2
<1>6. ChunkInv' /\ SoundInv'
  <2>1. taker \notin {"flushed", "done"}
    BY <1>2 DEF Over
  <2>2. ChunkInv'
    BY <1>1 DEF HiggsInv, ChunkInv, Threshold
  <2> QED BY <1>1, <2>1, <2>2 DEF HiggsInv, SoundInv
<1> QED BY <1>3, <1>4, <1>5, <1>6 DEF HiggsInv

(* A column is taken: chunks end where they should, and what is given out  *)
(* follows what was.                                                       *)
LEMMA TakeStep ==
    ASSUME HiggsInv, Take
    PROVE  HiggsInv'
<1>1. /\ taker = "next" /\ queue # <<>> /\ Head(queue) # Sentinel
      /\ queue' = Tail(queue) /\ cols' = cols + 1
      /\ UNCHANGED <<speech, worker, put, failed>>
      /\ taker' \in {"next", "yielded"}
  BY DEF Take
<1>2. /\ cols \in Nat /\ yielded \in Nat /\ queue \in Seq({"column", Sentinel})
      /\ played = Run(yielded) /\ played \in Seq(Nat) /\ ~Over /\ ~Over'
      /\ cols' \in Nat
  BY <1>1 DEF HiggsInv, HiggsTypeOK, SoundInv, Over
<1>3. /\ WholeFrames(cols') \in {WholeFrames(cols), WholeFrames(cols) + 1}
      /\ WholeFrames(cols) \in Nat /\ WholeFrames(cols') \in Nat
      /\ Monus(cols', Pad + 1) = WholeFrames(cols')
  BY <1>1, <1>2, DecodedIs, HiggsAssumption, SMTT(30) DEF WholeFrames, Decoded, Monus
<1>4. QueueInv' /\ EndInv'
  <2>1. /\ queue' \in Seq({"column", Sentinel}) /\ Len(queue') = Len(queue) - 1
        /\ \A i \in 1 .. Len(queue') : queue'[i] = queue[i + 1]
        /\ Len(queue) \in Nat /\ Len(queue) > 0 /\ queue[1] # Sentinel
    BY <1>1, <1>2
  <2>2. Stopped' <=> Stopped
    BY <1>1 DEF Stopped
  <2>3. /\ \A i \in 1 .. Len(queue) : queue[i] = Sentinel <=> Stopped /\ i = Len(queue)
        /\ put = cols + Len(queue) - (IF Stopped /\ ~Over THEN 1 ELSE 0)
        /\ failed <=> worker \in {"raised", "crashed"}
        /\ EndInv
    BY DEF HiggsInv, QueueInv
  <2>4. Stopped => Len(queue) > 1
    BY <2>1, <2>3
  <2>5. \A i \in 1 .. Len(queue') : queue'[i] = Sentinel <=> Stopped' /\ i = Len(queue')
    BY <2>1, <2>2, <2>3
  <2>6. Stopped' /\ ~Over' => queue' # <<>>
    BY <2>1, <2>2, <2>4
  <2>7. put' = cols' + Len(queue') - (IF Stopped' /\ ~Over' THEN 1 ELSE 0)
    <3>1. put \in Nat /\ put' = put /\ (Stopped' /\ ~Over' <=> Stopped /\ ~Over)
      BY <1>1, <1>2, <2>2 DEF HiggsInv, HiggsTypeOK
    <3>2. CASE Stopped
      <4>1. put = cols + Len(queue) - 1
        BY <1>2, <2>3, <3>2
      <4>2. put' = cols' + Len(queue') - 1
        BY <1>1, <1>2, <2>1, <3>1, <4>1
      <4> QED BY <1>2, <3>1, <3>2, <4>2
    <3>3. CASE ~Stopped
      <4>1. put = cols + Len(queue)
        BY <1>2, <2>1, <2>3, <3>3
      <4>2. put' = cols' + Len(queue')
        BY <1>1, <1>2, <2>1, <3>1, <4>1
      <4>3. cols' + Len(queue') \in Nat
        BY <3>1, <4>2
      <4> QED BY <1>2, <3>1, <3>3, <4>2, <4>3
    <3> QED BY <3>2, <3>3
  <2> QED BY <1>1, <1>2, <2>3, <2>5, <2>6, <2>7 DEF QueueInv, EndInv
<1>5. CASE ~(Enough(cols') /\ WholeFrames(cols') > yielded)
  <2>1. UNCHANGED <<played, yielded, first, taker>>
    BY <1>5 DEF Take, WholeFrames
  <2>2. WholeFrames(cols') < yielded + Threshold
    <3>1. Threshold \in Nat \ {0}
      BY HiggsAssumption DEF Threshold
    <3>2. CASE ~Enough(cols')
      BY <1>2, <1>3, <3>1, <3>2 DEF Enough, Threshold
    <3>3. CASE ~(WholeFrames(cols') > yielded)
      BY <1>2, <1>3, <3>1, <3>3
    <3> QED BY <1>5, <3>2, <3>3
  <2>3. ChunkInv'
    BY <1>2, <1>3, <2>1, <2>2 DEF HiggsInv, ChunkInv, Threshold
  <2>4. SoundInv'
    BY <1>1, <1>2, <2>1 DEF SoundInv
  <2>5. HiggsTypeOK'
    BY <1>1, <1>2, <2>1 DEF HiggsInv, HiggsTypeOK
  <2> QED BY <1>4, <2>3, <2>4, <2>5 DEF HiggsInv
<1>6. CASE Enough(cols') /\ WholeFrames(cols') > yielded
  <2>1. /\ played' = played \o Frames(yielded + 1, WholeFrames(cols'))
        /\ yielded' = WholeFrames(cols')
        /\ first' = TRUE /\ taker' = "yielded"
    BY <1>6 DEF Take, WholeFrames
  <2>2. played' = Run(yielded')
    <3>1. Run(yielded) \o Frames(yielded + 1, WholeFrames(cols'))
            = Run(IF WholeFrames(cols') < yielded THEN yielded ELSE WholeFrames(cols'))
      BY <1>2, <1>3, RunGrows
    <3>2. ~(WholeFrames(cols') < yielded)
      BY <1>2, <1>3, <1>6
    <3> QED BY <1>2, <2>1, <3>1, <3>2
  <2>3. yielded' = yielded + Threshold
    <3>1. WholeFrames(cols') - yielded >= Threshold
      BY <1>3, <1>6 DEF Enough, Threshold
    <3>2. WholeFrames(cols) < yielded + Threshold /\ Threshold \in Nat
      BY HiggsAssumption DEF HiggsInv, ChunkInv, Threshold
    <3> QED BY <1>2, <1>3, <2>1, <3>1, <3>2
  <2>4. \E k \in Nat : yielded' = FirstChunk + k * Chunk
    <3>1. CASE ~first
      <4>1. yielded' = FirstChunk + 0 * Chunk
        BY <2>3, <3>1, HiggsAssumption DEF HiggsInv, ChunkInv, Threshold
      <4> QED BY <4>1
    <3>2. CASE first
      <4>1. PICK k \in Nat : yielded = FirstChunk + k * Chunk
        BY <3>2 DEF HiggsInv, ChunkInv
      <4>2. (k + 1) * Chunk = k * Chunk + Chunk /\ k * Chunk \in Nat
        BY HiggsAssumption
      <4>3. yielded' = yielded + Chunk
        BY <2>3, <3>2 DEF Threshold
      <4>4. yielded' = FirstChunk + (k + 1) * Chunk /\ k + 1 \in Nat
        BY <4>1, <4>2, <4>3, HiggsAssumption
      <4> QED BY <4>4
    <3> QED BY <3>1, <3>2
  <2>5. ChunkInv'
    BY <1>3, <2>1, <2>4, HiggsAssumption DEF ChunkInv, Threshold
  <2>6. HiggsTypeOK'
    <3>1. yielded' \in Nat /\ played' \in Seq(Nat)
      BY <1>3, <2>1, <2>2, RunIs
    <3>2. queue' \in Seq({"column", Sentinel})
      BY <1>1, <1>2
    <3> QED BY <1>1, <1>2, <2>1, <3>1, <3>2 DEF HiggsInv, HiggsTypeOK
  <2>7. SoundInv'
    <3>1. yielded' \in Nat
      BY <1>3, <2>1
    <3> QED BY <2>1, <2>2, <3>1 DEF SoundInv
  <2> QED BY <1>4, <2>5, <2>6, <2>7 DEF HiggsInv
<1> QED BY <1>5, <1>6

(* The end of the queue: the columns are all taken, so that the rest can   *)
(* be told from whether a chunk has just ended.                            *)
LEMMA ChunkEnds ==
    ASSUME ChunkInv, HiggsTypeOK
    PROVE  MarkCompletesChunk <=> (yielded = WholeFrames(cols) /\ yielded > 0)
<1> DEFINE w == WholeFrames(cols)
<1>1. w \in Nat /\ w <= cols /\ cols \in Nat /\ yielded \in Nat /\ w = Decoded(cols, FALSE)
  <2>1. cols \in Nat /\ yielded \in Nat
    BY DEF HiggsTypeOK
  <2>2. w = IF cols < Pad + 1 THEN 0 ELSE cols - Pad - 1
    BY <2>1, DecodedIs
  <2>3. w = Decoded(cols, FALSE)
    BY DEF WholeFrames
  <2>4. w \in Nat /\ w <= cols
    BY <2>1, <2>2, HiggsAssumption
  <2> QED BY <2>1, <2>3, <2>4
<1>2. yielded <= w /\ w < yielded + Threshold
  BY DEF ChunkInv
<1> HIDE DEF w
<1>3. FirstChunk \in Nat \ {0} /\ Chunk \in Nat \ {0}
  BY HiggsAssumption
<1>4. MarkCompletesChunk <=> \E k \in 0 .. cols : FirstChunk + k * Chunk = w
  BY <1>1 DEF MarkCompletesChunk
<1>5. ASSUME yielded = w, yielded > 0
      PROVE  \E k \in 0 .. cols : FirstChunk + k * Chunk = w
  <2>1. PICK k \in Nat : yielded = FirstChunk + k * Chunk
    BY <1>5 DEF ChunkInv
  <2>2. k <= k * Chunk
    <3>1. k * Chunk = k + k * (Chunk - 1)
      BY <1>3
    <3>2. k * (Chunk - 1) \in Nat
      BY <1>3
    <3> HIDE DEF w
    <3> QED BY <1>3, <3>1, <3>2
  <2>3. k * Chunk \in Nat
    BY <1>3
  <2>4. k \in 0 .. cols
    <3> DEFINE x == k * Chunk
    <3>1. k \in Nat /\ x \in Nat /\ k <= x /\ w = FirstChunk + x
      BY <1>5, <2>1, <2>2, <2>3
    <3> HIDE DEF x
    <3>2. w \in Nat /\ w <= cols /\ cols \in Nat
      BY <1>1
    <3>3. k <= cols
      BY <1>3, <3>1, <3>2
    <3> QED BY <3>1, <3>2, <3>3
  <2> QED BY <1>5, <2>1, <2>4
<1>6. ASSUME NEW k \in 0 .. cols, FirstChunk + k * Chunk = w
      PROVE  yielded = w /\ yielded > 0
  <2>1. k \in Nat /\ k * Chunk \in Nat
    BY <1>1, <1>3
  <2>2. CASE ~first
    BY <1>2, <1>3, <1>6, <2>1, <2>2 DEF ChunkInv, Threshold
  <2>3. CASE first
    <3>1. PICK j \in Nat : yielded = FirstChunk + j * Chunk
      BY <2>3 DEF ChunkInv
    <3>2. j * Chunk \in Nat /\ (j + 1) * Chunk = j * Chunk + Chunk
      BY <1>3
    <3>3. k <= j
      <4>1. ASSUME k > j PROVE FALSE
        <5>1. (j + 1) * Chunk <= k * Chunk
          BY <1>3, <2>1, <4>1, TimesGrows
        <5>2. w < FirstChunk + j * Chunk + Chunk
          BY <1>2, <2>3, <3>1 DEF Threshold
        <5> DEFINE x == k * Chunk
                   y == j * Chunk
        <5>3. x \in Nat /\ y \in Nat /\ y + Chunk <= x /\ w = FirstChunk + x
          BY <1>6, <2>1, <3>2, <5>1
        <5>4. w < FirstChunk + y + Chunk
          BY <5>2
        <5> HIDE DEF x, y
        <5> QED BY <1>3, <5>3, <5>4
      <4> QED BY <2>1, <4>1
    <3>4. k * Chunk <= j * Chunk
      BY <1>3, <2>1, <3>3, TimesGrows
    <3> DEFINE x == k * Chunk
               y == j * Chunk
    <3>5. x \in Nat /\ y \in Nat /\ x <= y /\ w = FirstChunk + x /\ yielded = FirstChunk + y
      BY <1>6, <2>1, <3>1, <3>2, <3>4
    <3> HIDE DEF x, y
    <3>6. w <= yielded
      BY <1>3, <3>5
    <3>7. yielded > 0
      BY <1>3, <3>5
    <3>8. yielded <= w /\ w \in Nat /\ yielded \in Nat
      BY <1>1, <1>2
    <3>9. yielded = w
      BY <3>6, <3>8
    <3> QED BY <3>7, <3>9
  <2> QED BY <2>2, <2>3
<1> QED BY <1>4, <1>5, <1>6 DEF w

LEMMA FinishStep ==
    ASSUME HiggsInv, Finish
    PROVE  HiggsInv'
<1>1. /\ taker = "next" /\ queue # <<>> /\ Head(queue) = Sentinel
      /\ queue' = Tail(queue)
      /\ UNCHANGED <<speech, worker, put, failed, cols, yielded, first>>
      /\ taker' \in {"raised", "flushed"} /\ Over' /\ ~Over
      /\ taker' = "flushed" <=> ~failed
  BY DEF Finish, Over
<1>2. /\ cols \in Nat /\ yielded \in Nat /\ queue \in Seq({"column", Sentinel})
      /\ speech \in Nat /\ put \in Nat
      /\ played = Run(yielded) /\ played \in Seq(Nat)
  BY <1>1 DEF HiggsInv, HiggsTypeOK, SoundInv
<1>3. Stopped /\ Len(queue) = 1 /\ queue' = <<>> /\ put = cols
  <2>1. Len(queue) \in Nat /\ Len(queue) > 0 /\ queue[1] = Sentinel
    BY <1>1, <1>2
  <2>2. Stopped /\ 1 = Len(queue)
    <3>1. \A i \in 1 .. Len(queue) : queue[i] = Sentinel <=> Stopped /\ i = Len(queue)
      BY DEF HiggsInv, QueueInv
    <3>2. 1 \in 1 .. Len(queue)
      BY <2>1
    <3> QED BY <2>1, <3>1, <3>2
  <2>3. put = cols + 1 - 1
    BY <1>1, <2>2 DEF HiggsInv, QueueInv
  <2> QED BY <1>1, <1>2, <2>2, <2>3
<1>4. QueueInv'
  <2>1. Stopped' /\ Len(queue') = 0 /\ put' = cols' + Len(queue')
    <3>1. Stopped'
      BY <1>1, <1>3 DEF Stopped
    <3>2. Len(queue') = 0
      BY <1>3
    <3>3. put' = cols' /\ cols' \in Nat
      BY <1>1, <1>2, <1>3
    <3>4. ASSUME NEW c \in Nat, NEW l, l = 0 PROVE c = c + l
      BY <3>4
    <3>5. put' = cols' + Len(queue')
      BY ONLY <3>2, <3>3, <3>4
    <3> QED BY <3>1, <3>2, <3>5
  <2>2. failed <=> worker \in {"raised", "crashed"}
    BY DEF HiggsInv, QueueInv
  <2>3. taker' \in {"flushed", "done"} => worker' = "ended"
    BY <1>1, <1>3, <2>2 DEF Stopped
  <2> QED BY <1>1, <1>3, <2>1, <2>2, <2>3 DEF QueueInv
<1>5. EndInv' /\ ChunkInv'
  BY <1>1 DEF HiggsInv, EndInv, ChunkInv, Threshold
<1>6. CASE failed
  <2>1. played' = played /\ taker' = "raised"
    BY <1>6 DEF Finish
  <2>2. HiggsTypeOK'
    BY <1>1, <1>2, <1>3, <2>1 DEF HiggsInv, HiggsTypeOK
  <2> QED BY <1>1, <1>2, <1>4, <1>5, <2>1, <2>2 DEF HiggsInv, SoundInv
<1>7. CASE ~failed
  <2>1. /\ taker' = "flushed" /\ worker = "ended"
        /\ played' = played \o Frames(yielded + 1, Kept(cols))
    BY <1>3, <1>7 DEF Finish, Kept, HiggsInv, QueueInv, Stopped
  <2>2. cols = speech + Pad + 2 \/ (cols = Pad + 1 /\ speech = 0)
    BY <1>3, <2>1 DEF HiggsInv, EndInv
  <2>3. /\ Kept(cols) = speech
        /\ WholeFrames(cols) = IF cols = Pad + 1 THEN 0 ELSE speech + 1
    <3>1. /\ WholeFrames(cols) = IF cols < Pad + 1 THEN 0 ELSE cols - Pad - 1
          /\ Kept(cols) = IF cols < Pad + 2 THEN 0 ELSE cols - Pad - 2
      BY <1>2, DecodedIs
    <3>2. CASE cols = speech + Pad + 2
      BY <1>2, <3>1, <3>2, HiggsAssumption
    <3>3. CASE cols = Pad + 1 /\ speech = 0
      BY <1>2, <3>1, <3>3, HiggsAssumption
    <3> QED BY <2>2, <3>2, <3>3
  <2>4. yielded <= WholeFrames(cols)
    BY DEF HiggsInv, ChunkInv
  <2>5. played' = Run(IF speech < yielded THEN yielded ELSE speech)
    BY <1>2, <2>1, <2>3, RunGrows
  <2>6. MarkCompletesChunk <=> speech < yielded
    <3>1. MarkCompletesChunk <=> (yielded = WholeFrames(cols) /\ yielded > 0)
      BY ChunkEnds DEF HiggsInv
    <3> QED BY <1>2, <2>2, <2>3, <2>4, <3>1, HiggsAssumption
  <2>7. MarkCompletesChunk => yielded = speech + 1
    BY <1>2, <2>2, <2>3, <2>4, <2>6, HiggsAssumption
  <2>8. Run(speech) \o <<speech + 1>> = Run(speech + 1)
    <3> DEFINE n == speech + 1
    <3>1. n \in Nat /\ n - speech = 1 /\ ~(n < speech) /\ n = speech + 1
      BY <1>2
    <3> HIDE DEF n
    <3>2. /\ Frames(speech + 1, n) \in Seq(Nat)
          /\ Len(Frames(speech + 1, n)) = 1
          /\ \A i \in 1 .. 1 : Frames(speech + 1, n)[i] = speech + i
      <4> DEFINE f == Frames(speech + 1, n)
      <4>1. speech \in Nat /\ n \in Nat
        BY <1>2, <3>1
      <4>2. /\ f \in Seq(Nat)
            /\ Len(f) = IF n < speech THEN 0 ELSE n - speech
            /\ \A i \in 1 .. Len(f) : f[i] = speech + i
        BY ONLY <4>1, FramesIs
      <4> HIDE DEF f
      <4>3. Len(f) = 1
        BY <3>1, <4>2
      <4> QED BY <4>2, <4>3 DEF f
    <3>3. Frames(speech + 1, n) = <<n>>
      BY <3>1, <3>2
    <3>4. Run(speech) \o Frames(speech + 1, n) = Run(n)
      BY <1>2, <3>1, RunGrows
    <3> QED BY <3>3, <3>4 DEF n
  <2>9. played' = Run(Kept(cols)) \o (IF MarkCompletesChunk THEN <<speech + 1>> ELSE <<>>)
    <3>1. CASE MarkCompletesChunk
      BY <1>2, <2>3, <2>5, <2>6, <2>7, <2>8, <3>1
    <3>2. CASE ~MarkCompletesChunk
      <4>1. Run(speech) \in Seq(Nat)
        BY <1>2, RunIs
      <4>2. Run(speech) \o <<>> = Run(speech)
        BY <4>1
      <4> QED BY <1>2, <2>3, <2>5, <2>6, <3>2, <4>2
    <3> QED BY <3>1, <3>2
  <2>10. MarkCompletesChunk' <=> MarkCompletesChunk
    BY <1>1 DEF MarkCompletesChunk
  <2>11. Kept(cols)' = Kept(cols)
    BY <1>1 DEF Kept, Decoded, Monus
  <2>12. SoundInv'
    <3>1. \E n \in Nat : played' = Run(n)
      BY <1>2, <2>5
    <3> QED BY <1>1, <2>1, <2>9, <2>10, <2>11, <3>1 DEF SoundInv
  <2>13. HiggsTypeOK'
    <3>1. played' \in Seq(Nat)
      BY <1>2, <2>5, RunIs
    <3> QED BY <1>1, <1>2, <1>3, <3>1 DEF HiggsInv, HiggsTypeOK
  <2> QED BY <1>4, <1>5, <2>12, <2>13 DEF HiggsInv
<1> QED BY <1>6, <1>7

(* The generator goes on, is closed, or waits for the thread.              *)
LEMMA QuietStep ==
    ASSUME HiggsInv, Ask \/ CloseStream \/ Join \/ UNCHANGED higgsVars
    PROVE  HiggsInv'
<1>1. UNCHANGED <<speech, worker, put, failed, queue, cols, yielded, first, played>>
  BY DEF Ask, CloseStream, Join, higgsVars
<1>2. /\ taker' \in {"next", "yielded", "flushed", "raised", "closed", "done", "failed", "left"}
      /\ taker' \in {"flushed", "done"} <=> taker \in {"flushed", "done"}
      /\ Over' <=> Over
  BY DEF Ask, CloseStream, Join, higgsVars, HiggsInv, HiggsTypeOK, Over
<1>3. HiggsTypeOK'
  BY <1>1, <1>2 DEF HiggsInv, HiggsTypeOK
<1>4. Stopped' <=> Stopped
  BY <1>1 DEF Stopped
<1>5. QueueInv'
  BY <1>1, <1>2, <1>4 DEF HiggsInv, QueueInv
<1>6. EndInv' /\ ChunkInv'
  BY <1>1 DEF HiggsInv, EndInv, ChunkInv, Threshold
<1>7. (MarkCompletesChunk' <=> MarkCompletesChunk) /\ Kept(cols)' = Kept(cols)
  BY <1>1 DEF MarkCompletesChunk, Kept, Decoded, Monus
<1>8. SoundInv'
  BY <1>1, <1>2, <1>7 DEF HiggsInv, SoundInv
<1> QED BY <1>3, <1>5, <1>6, <1>8 DEF HiggsInv

LEMMA HiggsStep == HiggsInv /\ [HiggsNext]_higgsVars => HiggsInv'
BY WorkerStep, TakeStep, FinishStep, QuietStep DEF HiggsNext

(* The inductive invariant of the stream: queue, columns and chunks agree. *)
THEOREM HiggsInvariant == HiggsSpec => []HiggsInv
BY HiggsInitInv, HiggsStep, PTL DEF HiggsSpec

(* What is given out are frames 1, 2, 3 and so on, and in the end those of *)
(* the batch call, the EOS mark aside when it completes a chunk.           *)
(* (synthesize_stream against synthesize of backends/higgs.py.)            *)
THEOREM StreamsKeepTheAudio == HiggsSpec => []StreamKeepsTheAudio
<1>1. ASSUME HiggsInv PROVE StreamKeepsTheAudio
  <2>1. speech \in Nat /\ cols \in Nat /\ yielded \in Nat
    BY <1>1 DEF HiggsInv, HiggsTypeOK
  <2>2. Kept(cols) \in Nat /\ Batch(cols) = Run(Kept(cols))
    <3>1. Kept(cols) \in Nat /\ Kept(cols) = Monus(cols, Pad + 2)
      BY <2>1, DecodedIs, HiggsAssumption DEF Kept, Decoded
    <3> QED BY <3>1, RunIs DEF Batch
  <2>3. CASE taker \notin {"flushed", "done"}
    <3>1. played = Run(yielded)
      BY <1>1, <2>3 DEF HiggsInv, SoundInv
    <3>2. Len(played) = yielded /\ Frames(1, yielded) = Run(yielded)
      BY <2>1, <3>1, RunIs
    <3> QED BY <2>3, <3>1, <3>2 DEF StreamKeepsTheAudio
  <2>4. CASE taker \in {"flushed", "done"}
    <3>1. played = Batch(cols) \o (IF MarkCompletesChunk THEN <<speech + 1>> ELSE <<>>)
      BY <1>1, <2>2, <2>4 DEF HiggsInv, SoundInv
    <3>2. played = Frames(1, Len(played))
      <4>1. PICK n \in Nat : played = Run(n)
        BY <1>1 DEF HiggsInv, SoundInv
      <4>2. Len(played) = n
        BY <4>1, RunIs
      <4> QED BY <4>1, <4>2, RunIs
    <3> QED BY <3>1, <3>2 DEF StreamKeepsTheAudio
  <2> QED BY <2>3, <2>4
<1> QED BY <1>1, HiggsInvariant, PTL

(* A failing generate is raised by the stream, and nobody waits for ever.  *)
THEOREM FailuresAreHeard == HiggsSpec => []FailureIsHeard
<1>1. HiggsInv => FailureIsHeard
  BY DEF HiggsInv, QueueInv, FailureIsHeard, Stopped, Over
<1> QED BY <1>1, HiggsInvariant, PTL
=============================================================================
