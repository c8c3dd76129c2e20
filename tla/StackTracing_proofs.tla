------------------------- MODULE StackTracing_proofs -------------------------
(***************************************************************************)
(* Proofs about StackTracing: a disciplined program's stack is never       *)
(* reported damaged, and its trace is its stack.                           *)
(*                                                                         *)
(* The argument is that each call or allocation that is outstanding can be *)
(* undone exactly.  The inductive invariant keeps, as a witness, a history *)
(* of traces and stack pointers: one from before each group, each of which *)
(* became the next by the tracing of that group.  What a RET4 or an ADDSP  *)
(* makes of the trace is then the entry of the history from before the     *)
(* latest group.  Under it lie the sums of sequences, which are recursive, *)
(* and the search of StackFrame::pop for the cells that hold a size.       *)
(***************************************************************************)
EXTENDS StackTracing, SequenceTheorems, WellFoundedInduction, TLAPS

-----------------------------------------------------------------------------
(* Sums of sequences, by induction on their length.                        *)

\* A set that holds 0 and the successor of each of its numbers holds all.
LEMMA Induction ==
    ASSUME NEW S, 0 \in S, \A n \in Nat : n \in S => n + 1 \in S
    PROVE  Nat \subseteq S
<1> DEFINE T == Nat \ S
           R == OpToRel(<, Nat)
<1>1. SUFFICES ASSUME T # {} PROVE FALSE
  OBVIOUS
<1>2. IsWellFoundedOn(R, Nat)
  BY NatLessThanWellFounded
<1>3. PICK x \in T : \A y \in T : ~(<<y, x>> \in R)
  <2>1. T \subseteq Nat
    OBVIOUS
  <2> HIDE DEF T, R
  <2>2. QED
    BY <1>1, <1>2, <2>1, WFMin
<1>4. x \in Nat /\ x \notin S
  OBVIOUS
<1>5. \A y \in T : ~(y < x)
  BY <1>3, <1>4 DEF OpToRel
<1>6. x # 0
  BY <1>4
<1>7. x - 1 \in Nat /\ x - 1 < x
  BY <1>4, <1>6
<1>8. x - 1 \in S
  BY <1>5, <1>7
<1>9. (x - 1) + 1 \in S
  BY <1>7, <1>8
<1>10. QED
  BY <1>4, <1>9

\* f holds the sums of the first elements of s, up to the first n.
IsSumUpTo(n, f, s) == f[0] = 0 /\ \A k \in 1..n : f[k] = f[k - 1] + s[k]
IsSum(f, s) == IsSumUpTo(Len(s), f, s)

\* The function that Total defines exists: one sum for each length.
LEMMA PrefixSums ==
  ASSUME NEW s \in Seq(Nat)
  PROVE  \E f \in [0..Len(s) -> Nat] : IsSum(f, s) /\ Total(s) = f[Len(s)]
<1> DEFINE Upto(f, k) == f[0] = 0 /\ \A j \in 1..k : f[j] = f[j - 1] + s[j]
           P(k) == k =< Len(s) => \E f \in [0..k -> Nat] : Upto(f, k)
           D == {k \in Nat : P(k)}
<1>1. 0 \in D
  <2> DEFINE f == [i \in 0..0 |-> 0]
  <2>1. f \in [0..0 -> Nat] /\ f[0] = 0
    OBVIOUS
  <2> HIDE DEF f
  <2>2. Upto(f, 0)
    BY <2>1
  <2>3. QED
    BY <2>1, <2>2
<1>2. ASSUME NEW k \in Nat, k \in D PROVE k + 1 \in D
  <2>0. P(k)
    BY <1>2
  <2> SUFFICES P(k + 1)
    <3> HIDE DEF P
    <3>1. QED
      OBVIOUS
  <2> SUFFICES ASSUME k + 1 =< Len(s) PROVE \E f \in [0..k + 1 -> Nat] : Upto(f, k + 1)
    OBVIOUS
  <2>1. PICK f \in [0..k -> Nat] : Upto(f, k)
    <3>1. k =< Len(s)
      OBVIOUS
    <3>2. QED
      BY <2>0, <3>1
  <2> DEFINE g == [j \in 0..k + 1 |-> IF j = k + 1 THEN f[k] + s[k + 1] ELSE f[j]]
  <2>2. s[k + 1] \in Nat
    OBVIOUS
  <2>3. g \in [0..k + 1 -> Nat]
    BY <2>2
  <2>4. ASSUME NEW j \in 1..k + 1 PROVE g[j] = g[j - 1] + s[j]
    <3>1. CASE j = k + 1
      BY <3>1
    <3>2. CASE j # k + 1
      <4>1. j \in 1..k /\ j \in 0..k + 1 /\ j - 1 \in 0..k + 1 /\ j - 1 # k + 1
        BY <3>2
      <4>2. QED
        BY <2>1, <3>2, <4>1
    <3>3. QED
      BY <3>1, <3>2
  <2>5. g[0] = 0
    BY <2>1
  <2>6. QED
    BY <2>3, <2>4, <2>5
<1>3. Nat \subseteq D
  <2> HIDE DEF D
  <2>1. QED
    BY <1>1, <1>2, Induction
<1>4. PICK f \in [0..Len(s) -> Nat] : Upto(f, Len(s))
  BY <1>3
<1>5. f = [k \in 0..Len(s) |-> IF k = 0 THEN 0 ELSE f[k - 1] + s[k]]
  <2>1. ASSUME NEW k \in 0..Len(s) PROVE f[k] = IF k = 0 THEN 0 ELSE f[k - 1] + s[k]
    BY <1>4
  <2>2. QED
    BY <2>1
<1> DEFINE g == CHOOSE h : h = [k \in 0..Len(s) |-> IF k = 0 THEN 0 ELSE h[k - 1] + s[k]]
<1>6. g = [k \in 0..Len(s) |-> IF k = 0 THEN 0 ELSE g[k - 1] + s[k]]
  BY <1>5
<1>7. Total(s) = g[Len(s)]
  BY DEF Total
<1> HIDE DEF g
<1>8. IsSum(g, s)
  <2>1. g[0] = 0
    <3>1. 0 \in 0..Len(s)
      OBVIOUS
    <3>2. QED
      BY <1>6, <3>1
  <2>2. ASSUME NEW k \in 1..Len(s) PROVE g[k] = g[k - 1] + s[k]
    <3>1. k \in 0..Len(s) /\ k # 0
      OBVIOUS
    <3>2. QED
      BY <1>6, <3>1
  <2>3. QED
    BY <2>1, <2>2 DEF IsSum, IsSumUpTo
<1>9. g \in [0..Len(s) -> Nat]
  <2> DEFINE E == {k \in Nat : k =< Len(s) => g[k] \in Nat}
  <2>1. 0 \in E
    BY <1>8 DEF IsSum, IsSumUpTo
  <2>2. ASSUME NEW k \in Nat, k \in E PROVE k + 1 \in E
    <3> SUFFICES ASSUME k + 1 =< Len(s) PROVE g[k + 1] \in Nat
      OBVIOUS
    <3>1. k + 1 \in 1..Len(s) /\ g[k] \in Nat /\ (k + 1) - 1 = k
      BY <2>2
    <3>2. g[k + 1] = g[k] + s[k + 1]
      BY <1>8, <3>1 DEF IsSum, IsSumUpTo
    <3>3. QED
      BY <3>1, <3>2
  <2>3. Nat \subseteq E
    <3> HIDE DEF E
    <3>1. QED
      BY <2>1, <2>2, Induction
  <2>4. \A k \in 0..Len(s) : g[k] \in Nat
    BY <2>3
  <2>5. QED
    BY <1>6, <2>4
<1>10. QED
  BY <1>7, <1>8, <1>9

\* There is one such function.
LEMMA SumsAgree ==
  ASSUME NEW n \in Nat, NEW f, NEW g, NEW s, IsSumUpTo(n, f, s), IsSumUpTo(n, g, s)
  PROVE  \A k \in 0..n : f[k] = g[k]
<1> DEFINE P(k) == k =< n => f[k] = g[k]
           D == {k \in Nat : P(k)}
<1>1. 0 \in D
  BY DEF IsSumUpTo
<1>2. ASSUME NEW k \in Nat, k \in D PROVE k + 1 \in D
  <2>1. P(k)
    BY <1>2
  <2>2. P(k + 1)
    <3> SUFFICES ASSUME k + 1 =< n PROVE f[k + 1] = g[k + 1]
      OBVIOUS
    <3>1. k + 1 \in 1..n /\ (k + 1) - 1 = k
      OBVIOUS
    <3>2. f[k] = g[k]
      BY <2>1, <3>1
    <3>3. f[k + 1] = f[k] + s[k + 1] /\ g[k + 1] = g[k] + s[k + 1]
      BY <3>1 DEF IsSumUpTo
    <3>4. QED
      BY <3>2, <3>3
  <2> HIDE DEF P
  <2>3. QED
    BY <2>2
<1>3. Nat \subseteq D
  <2> HIDE DEF D
  <2>1. QED
    BY <1>1, <1>2, Induction
<1>4. QED
  BY <1>3

LEMMA TotalType == ASSUME NEW s \in Seq(Nat) PROVE Total(s) \in Nat
<1>1. PICK f \in [0..Len(s) -> Nat] : IsSum(f, s) /\ Total(s) = f[Len(s)]
  BY PrefixSums
<1>2. Len(s) \in 0..Len(s)
  OBVIOUS
<1>3. QED
  BY <1>1, <1>2

LEMMA TotalEmpty == Total(<<>>) = 0
<1>1. <<>> \in Seq(Nat) /\ Len(<<>>) = 0
  OBVIOUS
<1>2. PICK f \in [0..Len(<<>>) -> Nat] : IsSum(f, <<>>) /\ Total(<<>>) = f[Len(<<>>)]
  BY <1>1, PrefixSums
<1>3. QED
  BY <1>1, <1>2 DEF IsSum, IsSumUpTo

\* A set of sequences that holds the empty one, and with a sequence every
\* sequence one longer, holds all.
LEMMA SequenceInduction ==
  ASSUME NEW S, NEW E, <<>> \in E,
         \A s \in Seq(S), e \in S : s \in E => Append(s, e) \in E
  PROVE  Seq(S) \subseteq E
<1> DEFINE P(n) == \A s \in Seq(S) : Len(s) = n => s \in E
           D == {n \in Nat : P(n)}
<1>1. 0 \in D
  <2>1. \A s \in Seq(S) : Len(s) = 0 => s = <<>>
    BY EmptySeq
  <2>2. QED
    BY <2>1
<1>2. ASSUME NEW n \in Nat, n \in D PROVE n + 1 \in D
  <2>1. P(n)
    BY <1>2
  <2>2. ASSUME NEW s \in Seq(S), Len(s) = n + 1 PROVE s \in E
    <3>1. s # <<>>
      BY <2>2, EmptySeq
    <3>2. PICK r \in Seq(S), e \in S : s = Append(r, e)
      BY <3>1, SequenceEmptyOrAppend
    <3>3. Len(s) = Len(r) + 1 /\ Len(r) \in Nat
      BY <3>2, AppendProperties, LenProperties
    <3>4. Len(r) = n
      BY <2>2, <3>3
    <3>5. QED
      BY <2>1, <3>2, <3>4
  <2>3. P(n + 1)
    BY <2>2
  <2> HIDE DEF P
  <2>4. QED
    BY <2>3
<1>3. Nat \subseteq D
  <2> HIDE DEF D
  <2>1. QED
    BY <1>1, <1>2, Induction
<1>4. \A s \in Seq(S) : Len(s) \in Nat
  BY LenProperties
<1>5. QED
  BY <1>3, <1>4

\* The last number is added last.
LEMMA TotalAppend ==
  ASSUME NEW s \in Seq(Nat), NEW e \in Nat
  PROVE  Total(Append(s, e)) = Total(s) + e
<1> DEFINE n == Len(s)
           w == Append(s, e)
<1>1. n \in Nat
  BY LenProperties
<1>2. w \in Seq(Nat) /\ Len(w) = n + 1 /\ (\A k \in 1..n : w[k] = s[k]) /\ w[n + 1] = e
  BY AppendProperties
<1>3. PICK f \in [0..n -> Nat] : IsSum(f, s) /\ Total(s) = f[n]
  BY PrefixSums
<1> HIDE DEF w, n
<1>4. PICK g \in [0..Len(w) -> Nat] : IsSum(g, w) /\ Total(w) = g[Len(w)]
  BY <1>2, PrefixSums
<1>5. \A k \in 0..n : f[k] = g[k]
  <2>1. IsSumUpTo(n, f, s)
    BY <1>3 DEF IsSum, n
  <2>2. g[0] = 0 /\ \A k \in 1..n + 1 : g[k] = g[k - 1] + w[k]
    BY <1>2, <1>4 DEF IsSum, IsSumUpTo
  <2>3. \A k \in 1..n : g[k] = g[k - 1] + s[k]
    BY <1>1, <1>2, <2>2
  <2>4. IsSumUpTo(n, g, s)
    BY <2>2, <2>3 DEF IsSumUpTo
  <2>5. QED
    BY <1>1, <2>1, <2>4, SumsAgree
<1>6. g[n + 1] = g[n] + w[n + 1]
  <2>1. n + 1 \in 1..Len(w) /\ (n + 1) - 1 = n
    BY <1>1, <1>2
  <2>2. QED
    BY <1>4, <2>1 DEF IsSum, IsSumUpTo
<1>7. f[n] = g[n]
  BY <1>1, <1>5
<1>8. QED
  BY <1>2, <1>3, <1>4, <1>6, <1>7 DEF w

LEMMA TotalOne == ASSUME NEW n \in Nat PROVE Total(<<n>>) = n
<1>1. <<n>> = Append(<<>>, n) /\ <<>> \in Seq(Nat)
  OBVIOUS
<1>2. Total(<<n>>) = Total(<<>>) + n
  BY <1>1, TotalAppend
<1>3. 0 + n = n
  OBVIOUS
<1>4. QED
  BY <1>2, <1>3, TotalEmpty

LEMMA AppendConcat ==
  ASSUME NEW S, NEW s \in Seq(S), NEW t \in Seq(S), NEW e \in S
  PROVE  s \o Append(t, e) = Append(s \o t, e)
<1>1. <<e>> \in Seq(S) /\ s \o t \in Seq(S)
  BY ConcatProperties
<1>2. Append(t, e) = t \o <<e>> /\ Append(s \o t, e) = (s \o t) \o <<e>>
  BY <1>1, AppendIsConcat
<1>3. QED
  BY <1>1, <1>2, ConcatAssociative

LEMMA TotalConcat ==
  ASSUME NEW s \in Seq(Nat), NEW t \in Seq(Nat)
  PROVE  Total(s \o t) = Total(s) + Total(t)
<1> DEFINE E == {u \in Seq(Nat) : Total(s \o u) = Total(s) + Total(u)}
<1>1. <<>> \in E
  <2>1. s \o <<>> = s /\ <<>> \in Seq(Nat)
    BY ConcatEmptySeq, EmptySeq
  <2>2. Total(s) + 0 = Total(s)
    BY TotalType
  <2>3. QED
    BY <2>1, <2>2, TotalEmpty
<1>2. ASSUME NEW u \in Seq(Nat), NEW e \in Nat, u \in E PROVE Append(u, e) \in E
  <2>1. Total(s \o u) = Total(s) + Total(u)
    BY <1>2
  <2>2. s \o u \in Seq(Nat) /\ Append(u, e) \in Seq(Nat)
    BY ConcatProperties, AppendProperties
  <2>3. Total(s \o Append(u, e)) = Total(s \o u) + e
    <3>1. s \o Append(u, e) = Append(s \o u, e)
      BY AppendConcat
    <3>2. QED
      BY <2>2, <3>1, TotalAppend
  <2>4. Total(Append(u, e)) = Total(u) + e
    BY TotalAppend
  <2>5. Total(s) \in Nat /\ Total(u) \in Nat
    BY TotalType
  <2>6. (Total(s) + Total(u)) + e = Total(s) + (Total(u) + e)
    BY <2>5
  <2>7. QED
    BY <2>1, <2>2, <2>3, <2>4, <2>6
<1>3. Seq(Nat) \subseteq E
  <2> HIDE DEF E
  <2>1. QED
    BY <1>1, <1>2, SequenceInduction
<1>4. QED
  BY <1>3

LEMMA TotalPositive ==
  ASSUME NEW s \in Seq(Nat \ {0}), s # <<>>
  PROVE  Total(s) \in Nat \ {0}
<1>1. PICK r \in Seq(Nat \ {0}), e \in Nat \ {0} : s = Append(r, e)
  BY SequenceEmptyOrAppend
<1>2. r \in Seq(Nat) /\ e \in Nat
  BY <1>1, SeqMonotonic
<1>3. Total(s) = Total(r) + e /\ Total(r) \in Nat
  BY <1>1, <1>2, TotalAppend, TotalType
<1>4. QED
  BY <1>1, <1>3

-----------------------------------------------------------------------------
(* The bytes of a frame.                                                   *)

LEMMA NumbersOf ==
  ASSUME NEW F \in Seq(Cell)
  PROVE  /\ [i \in DOMAIN F |-> F[i].bytes] \in Seq(Nat \ {0})
         /\ [i \in DOMAIN F |-> F[i].bytes] \in Seq(Nat)
         /\ Len([i \in DOMAIN F |-> F[i].bytes]) = Len(F)
<1>1. \A i \in 1..Len(F) : F[i].bytes \in Nat \ {0}
  <2>1. \A i \in 1..Len(F) : F[i] \in Cell
    BY ElementOfSeq
  <2>2. QED
    BY <2>1 DEF Cell
<1>2. DOMAIN F = 1..Len(F) /\ Len(F) \in Nat
  BY LenProperties
<1>3. QED
  BY <1>1, <1>2

LEMMA BytesType == ASSUME NEW F \in Seq(Cell) PROVE Bytes(F) \in Nat
BY NumbersOf, TotalType DEF Bytes

LEMMA BytesEmpty == Bytes(<<>>) = 0
<1>1. [i \in DOMAIN <<>> |-> <<>>[i].bytes] = <<>>
  OBVIOUS
<1>2. QED
  BY <1>1, TotalEmpty DEF Bytes

LEMMA BytesPositive ==
  ASSUME NEW F \in Seq(Cell), F # <<>>
  PROVE  Bytes(F) \in Nat \ {0}
<1> DEFINE w == [i \in DOMAIN F |-> F[i].bytes]
<1>1. Len(F) \in Nat \ {0}
  BY EmptySeq
<1>2. w \in Seq(Nat \ {0}) /\ Len(w) = Len(F)
  BY NumbersOf
<1> HIDE DEF w
<1>3. w # <<>>
  BY <1>1, <1>2, EmptySeq
<1>4. Total(w) \in Nat \ {0}
  BY <1>2, <1>3, TotalPositive
<1>5. QED
  BY <1>4 DEF w, Bytes

LEMMA BytesConcat ==
  ASSUME NEW F \in Seq(Cell), NEW G \in Seq(Cell)
  PROVE  Bytes(F \o G) = Bytes(F) + Bytes(G)
<1> DEFINE H == F \o G
           f == [i \in DOMAIN F |-> F[i].bytes]
           g == [i \in DOMAIN G |-> G[i].bytes]
           h == [i \in DOMAIN H |-> H[i].bytes]
<1>1. H \in Seq(Cell) /\ Len(H) = Len(F) + Len(G)
      /\ \A i \in 1..Len(F) + Len(G) : H[i] = IF i =< Len(F) THEN F[i] ELSE G[i - Len(F)]
  BY ConcatProperties
<1>2. f \in Seq(Nat) /\ Len(f) = Len(F) /\ g \in Seq(Nat) /\ Len(g) = Len(G)
  BY NumbersOf
<1>3. /\ DOMAIN F = 1..Len(F) /\ DOMAIN G = 1..Len(G) /\ DOMAIN H = 1..Len(H)
      /\ Len(F) \in Nat /\ Len(G) \in Nat
  BY <1>1, LenProperties
<1> HIDE DEF H
<1>4. h \in Seq(Nat) /\ Len(h) = Len(H)
  BY <1>1, NumbersOf
<1>5. /\ \A i \in 1..Len(F) : f[i] = F[i].bytes
      /\ \A i \in 1..Len(G) : g[i] = G[i].bytes
      /\ \A i \in 1..Len(H) : h[i] = H[i].bytes
  BY <1>3
<1> HIDE DEF f, g, h
<1>6. f \o g \in Seq(Nat) /\ Len(f \o g) = Len(F) + Len(G)
      /\ \A i \in 1..Len(F) + Len(G) : (f \o g)[i] = IF i =< Len(F) THEN f[i] ELSE g[i - Len(F)]
  <2>1. f \o g \in Seq(Nat) /\ Len(f \o g) = Len(f) + Len(g)
        /\ \A i \in 1..Len(f) + Len(g) : (f \o g)[i] = IF i =< Len(f) THEN f[i] ELSE g[i - Len(f)]
    BY <1>2, ConcatProperties
  <2>2. Len(f) = Len(F) /\ Len(g) = Len(G)
    BY <1>2
  <2>3. QED
    BY <2>1, <2>2
<1>7. \A i \in 1..Len(h) : h[i] = (f \o g)[i]
  <2> SUFFICES ASSUME NEW i \in 1..Len(F) + Len(G) PROVE h[i] = (f \o g)[i]
    BY <1>1, <1>4
  <2>1. CASE i =< Len(F)
    <3>1. i \in 1..Len(F)
      BY <1>3, <2>1
    <3>2. h[i] = F[i].bytes /\ (f \o g)[i] = F[i].bytes
      BY <1>1, <1>5, <1>6, <2>1, <3>1
    <3>3. QED
      BY <3>2
  <2>2. CASE ~(i =< Len(F))
    <3>1. i - Len(F) \in 1..Len(G)
      BY <1>3, <2>2
    <3>2. h[i] = G[i - Len(F)].bytes /\ (f \o g)[i] = G[i - Len(F)].bytes
      BY <1>1, <1>5, <1>6, <2>2, <3>1
    <3>3. QED
      BY <3>2
  <2>3. QED
    BY <2>1, <2>2
<1>8. h = f \o g
  BY <1>1, <1>4, <1>6, <1>7, SeqEqual
<1>9. QED
  BY <1>2, <1>8, TotalConcat DEF Bytes, f, g, h, H

-----------------------------------------------------------------------------
(* What a frame's pop makes of the cells that were pushed last.            *)

LEMMA TopOfConcat ==
  ASSUME NEW F \in Seq(Cell), NEW c \in Seq(Cell), c # <<>>
  PROVE  /\ \A k \in 0..Len(c) - 1 : Bytes(TopCells(F \o c, k)) < Bytes(c)
         /\ TopCells(F \o c, Len(c)) = c
<1>1. Len(F) \in Nat /\ Len(c) \in Nat \ {0} /\ Len(F \o c) = Len(F) + Len(c)
      /\ F \o c \in Seq(Cell)
  BY EmptySeq, LenProperties, ConcatProperties
<1> DEFINE l == Len(F)
           m == Len(c)
<1>2. \A j \in 1..m : SubSeq(F \o c, l + j, l + m) = SubSeq(c, j, m)
  <2> SUFFICES ASSUME NEW j \in 1..m PROVE SubSeq(F \o c, l + j, l + m) = SubSeq(c, j, m)
    OBVIOUS
  <2>1. l + j \in Len(F) + 1..Len(F) + Len(c) /\ l + m \in Len(F) + 1..Len(F) + Len(c)
    BY <1>1
  <2>2. SubSeq(F \o c, l + j, l + m) = SubSeq(c, (l + j) - Len(F), (l + m) - Len(F))
    BY <2>1, SubSeqOfConcat2
  <2>3. (l + j) - Len(F) = j /\ (l + m) - Len(F) = m
    BY <1>1
  <2>4. QED
    BY <2>2, <2>3
<1>3. TopCells(F \o c, m) = c
  <2>1. Len(F \o c) - m + 1 = l + 1 /\ Len(F \o c) = l + m /\ 1 \in 1..m
    BY <1>1
  <2>2. TopCells(F \o c, m) = SubSeq(c, 1, m)
    BY <1>2, <2>1 DEF TopCells
  <2>3. QED
    BY <2>2, SubSeqFull
<1>4. ASSUME NEW k \in 0..m - 1 PROVE Bytes(TopCells(F \o c, k)) < Bytes(c)
  <2>1. CASE k = 0
    <3>1. TopCells(F \o c, k) = <<>>
      <4>1. Len(F \o c) - k + 1 \in Int /\ Len(F \o c) \in Int /\ Len(F \o c) < Len(F \o c) - k + 1
        BY <1>1, <2>1
      <4>2. QED
        BY <4>1, SubSeqEmpty DEF TopCells
    <3>2. QED
      BY <3>1, BytesEmpty, BytesPositive
  <2>2. CASE k # 0
    <3> DEFINE j == m - k
               d == SubSeq(c, 1, j)
               e == SubSeq(c, j + 1, m)
    <3>1. j \in 1..m /\ j + 1 \in 1..m
      BY <1>1, <2>2
    <3>2. TopCells(F \o c, k) = e
      <4>1. Len(F \o c) - k + 1 = l + (j + 1) /\ Len(F \o c) = l + m
        BY <1>1
      <4>2. QED
        BY <1>2, <3>1, <4>1 DEF TopCells
    <3>3. d \o e = c
      <4>1. 1 \in 1..Len(c) + 1 /\ j \in (1 - 1)..Len(c) /\ Len(c) \in j..Len(c)
        BY <1>1, <3>1
      <4>2. d \o e = SubSeq(c, 1, Len(c))
        BY <4>1, ConcatAdjacentSubSeq
      <4>3. QED
        BY <4>2, SubSeqFull
    <3>4. d \in Seq(Cell) /\ d # <<>>
      <4>1. \A i \in 1..j : c[i] \in Cell
        <5>1. \A i \in 1..j : i \in 1..Len(c)
          BY <1>1, <3>1
        <5>2. QED
          BY <5>1, ElementOfSeq
      <4>2. 1 \in Int /\ j \in Int /\ 1 =< j /\ j - 1 + 1 = j
        BY <3>1
      <4>3. d \in Seq(Cell) /\ Len(d) = j
        BY <4>1, <4>2, SubSeqProperties
      <4>4. Len(<<>>) = 0 /\ j # 0
        BY <3>1
      <4>5. QED
        BY <4>3, <4>4
    <3>5. e \in Seq(Cell)
      <4>1. \A i \in j + 1..m : c[i] \in Cell
        <5>1. \A i \in j + 1..m : i \in 1..Len(c)
          BY <1>1, <3>1
        <5>2. QED
          BY <5>1, ElementOfSeq
      <4>2. j + 1 \in Int /\ m \in Int
        BY <1>1, <3>1
      <4>3. QED
        BY <4>1, <4>2, SubSeqProperties
    <3> HIDE DEF d, e, m, l
    <3>6. Bytes(c) = Bytes(d) + Bytes(e)
      BY <3>3, <3>4, <3>5, BytesConcat
    <3>7. Bytes(d) \in Nat \ {0} /\ Bytes(e) \in Nat
      BY <3>4, <3>5, BytesPositive, BytesType
    <3>8. QED
      BY <3>2, <3>6, <3>7
  <2>3. QED
    BY <2>1, <2>2
<1>5. QED
  BY <1>3, <1>4

\* StackFrame::pop, asked for as many bytes as were pushed last, takes the
\* cells that were pushed and reports success.
THEOREM FramePopUndoes ==
  ASSUME NEW F \in Seq(Cell), NEW c \in Seq(Cell), c # <<>>
  PROVE  FramePop(F \o c, Bytes(c)) = [frame |-> F, ok |-> TRUE]
<1>1. Len(F) \in Nat /\ Len(c) \in Nat \ {0} /\ Len(F \o c) = Len(F) + Len(c)
  BY EmptySeq, LenProperties, ConcatProperties
<1> DEFINE enough == {k \in 0..Len(F \o c) : Bytes(TopCells(F \o c, k)) >= Bytes(c)}
<1>2. Bytes(c) \in Nat
  BY BytesType
<1>3. Len(c) \in enough
  <2>1. Bytes(TopCells(F \o c, Len(c))) >= Bytes(c)
    BY <1>2, TopOfConcat
  <2>2. QED
    BY <1>1, <2>1
<1>4. ASSUME NEW k \in enough PROVE Len(c) =< k
  <2>1. k \in 0..Len(F \o c) /\ Bytes(TopCells(F \o c, k)) >= Bytes(c)
    OBVIOUS
  <2>2. SUFFICES ASSUME k < Len(c) PROVE FALSE
    BY <1>1, <2>1
  <2>3. k \in 0..Len(c) - 1
    BY <1>1, <2>1, <2>2
  <2>4. Bytes(TopCells(F \o c, k)) < Bytes(c)
    BY <2>3, TopOfConcat
  <2>5. TopCells(F \o c, k) \in Seq(Cell)
    <3>1. F \o c \in Seq(Cell)
      BY ConcatProperties
    <3>2. \A i \in Len(F \o c) - k + 1..Len(F \o c) : (F \o c)[i] \in Cell
      <4>1. \A i \in Len(F \o c) - k + 1..Len(F \o c) : i \in 1..Len(F \o c)
        BY <1>1, <2>1
      <4>2. QED
        BY <3>1, <4>1, ElementOfSeq
    <3>3. Len(F \o c) - k + 1 \in Int /\ Len(F \o c) \in Int
      BY <1>1, <2>1
    <3>4. QED
      BY <3>2, <3>3, SubSeqProperties DEF TopCells
  <2>6. Bytes(TopCells(F \o c, k)) \in Nat
    BY <2>5, BytesType
  <2>7. QED
    BY <1>2, <2>1, <2>4, <2>6
<1>5. CellsToPop(F \o c, Bytes(c)) = Len(c)
  <2>1. enough # {}
    BY <1>3
  <2>2. CellsToPop(F \o c, Bytes(c)) = CHOOSE k \in enough : \A j \in enough : k =< j
    BY <2>1 DEF CellsToPop
  <2>3. \A k \in enough : k \in Nat
    BY <1>1
  <2> HIDE DEF enough
  <2>4. \A k \in enough : (\A j \in enough : k =< j) => k = Len(c)
    BY <1>1, <1>3, <1>4, <2>3
  <2>5. QED
    BY <1>3, <1>4, <2>2, <2>4
<1>6. SubSeq(F \o c, 1, Len(F)) = F
  <2>1. CASE F = <<>>
    <3>1. Len(F) = 0
      BY <2>1, EmptySeq
    <3>2. QED
      BY <2>1, <3>1, SubSeqEmpty
  <2>2. CASE F # <<>>
    <3>1. 1 \in 1..Len(F) /\ Len(F) \in 1..Len(F)
      BY <1>1, <2>2, EmptySeq
    <3>2. SubSeq(F \o c, 1, Len(F)) = SubSeq(F, 1, Len(F))
      BY <3>1, SubSeqOfConcat1
    <3>3. QED
      BY <3>2, SubSeqFull
  <2>3. QED
    BY <2>1, <2>2
<1>7. Len(F \o c) - Len(c) = Len(F)
  BY <1>1
<1>8. (Bytes(TopCells(F \o c, Len(c))) = Bytes(c)) = TRUE
  BY TopOfConcat
<1>9. QED
  BY <1>5, <1>6, <1>7, <1>8 DEF FramePop

-----------------------------------------------------------------------------
(* The cells of a list of tags.                                            *)

LEMMA CellsOfTags ==
  ASSUME NEW start \in Int, NEW tags \in Seq({1, 2}), tags # <<>>
  PROVE  /\ CellsBelow(start, tags) \in Seq(Cell)
         /\ CellsBelow(start, tags) # <<>>
         /\ Bytes(CellsBelow(start, tags)) = Total(tags)
         /\ \A i \in DOMAIN CellsBelow(start, tags) :
               /\ start - Total(tags) =< CellsBelow(start, tags)[i].addr
               /\ CellsBelow(start, tags)[i].addr < start
<1> DEFINE n == Len(tags)
           c == CellsBelow(start, tags)
<1>1. n \in Nat \ {0} /\ \A i \in 1..n : tags[i] \in {1, 2}
  BY EmptySeq, ElementOfSeq
<1>2. \A i \in 1..n : c[i] = [addr |-> start - Total(SubSeq(tags, 1, i)), bytes |-> tags[i], tag |-> "symbol"]
  BY DEF CellsBelow
<1>a. ASSUME NEW i \in 1..n
      PROVE  /\ c[i].addr = start - Total(SubSeq(tags, 1, i)) /\ c[i].bytes = tags[i]
             /\ start - Total(SubSeq(tags, 1, i)) \in Int /\ tags[i] \in {1, 2} => c[i] \in Cell
  <2> DEFINE x == start - Total(SubSeq(tags, 1, i))
             y == tags[i]
             z == c[i]
  <2>1. z = [addr |-> x, bytes |-> y, tag |-> "symbol"]
    BY <1>2
  <2> HIDE DEF x, y, z
  <2>2. z.addr = x /\ z.bytes = y /\ (x \in Int /\ y \in {1, 2} => z \in Cell)
    BY <2>1 DEF Cell
  <2>3. QED
    BY <2>2 DEF x, y, z
<1>3. tags \in Seq(Nat)
  BY SeqMonotonic
<1>4. ASSUME NEW i \in 1..n
      PROVE  Total(SubSeq(tags, 1, i)) \in Nat \ {0} /\ Total(SubSeq(tags, 1, i)) =< Total(tags)
  <2> DEFINE r == SubSeq(tags, 1, i)
             q == SubSeq(tags, i + 1, n)
  <2>1. r \o q = tags
    <3>1. 1 \in 1..Len(tags) + 1 /\ i \in (1 - 1)..Len(tags) /\ Len(tags) \in i..Len(tags)
      BY <1>1
    <3>2. r \o q = SubSeq(tags, 1, Len(tags))
      BY <3>1, ConcatAdjacentSubSeq
    <3>3. QED
      BY <3>2, SubSeqFull
  <2>2. r \in Seq(Nat \ {0}) /\ Len(r) = i
    <3>1. \A j \in 1..i : tags[j] \in Nat \ {0}
      BY <1>1
    <3>2. 1 \in Int /\ i \in Int /\ 1 =< i /\ i - 1 + 1 = i
      BY <1>1
    <3>3. QED
      BY <3>1, <3>2, SubSeqProperties
  <2>3. q \in Seq(Nat)
    <3>1. \A j \in i + 1..n : tags[j] \in Nat
      BY <1>1
    <3>2. i + 1 \in Int /\ n \in Int
      BY <1>1
    <3>3. QED
      BY <3>1, <3>2, SubSeqProperties
  <2> HIDE DEF r, q, n
  <2>4. r # <<>> /\ r \in Seq(Nat)
    BY <1>1, <2>2, EmptySeq, SeqMonotonic
  <2>5. Total(tags) = Total(r) + Total(q)
    BY <2>1, <2>3, <2>4, TotalConcat
  <2>6. Total(r) \in Nat \ {0} /\ Total(q) \in Nat
    BY <2>2, <2>3, <2>4, TotalPositive, TotalType
  <2>7. Total(r) =< Total(tags)
    BY <2>5, <2>6
  <2>8. QED
    BY <2>6, <2>7 DEF r
<1>5. Total(tags) \in Nat
  BY <1>3, TotalType
<1>6. \A i \in 1..n : c[i] \in Cell
  <2> SUFFICES ASSUME NEW i \in 1..n PROVE c[i] \in Cell
    OBVIOUS
  <2>1. start - Total(SubSeq(tags, 1, i)) \in Int
    BY <1>4
  <2>2. tags[i] \in {1, 2}
    BY <1>1
  <2> HIDE DEF c
  <2>3. QED
    BY <1>a, <2>1, <2>2
<1>7. c \in Seq(Cell) /\ Len(c) = n /\ DOMAIN c = 1..n
  <2>1. DOMAIN c = 1..n /\ c = [i \in 1..n |-> c[i]]
    BY DEF CellsBelow
  <2> HIDE DEF c
  <2>2. c \in [1..n -> Cell]
    BY <1>6, <2>1
  <2>3. c \in Seq(Cell)
    BY <1>1, <2>2
  <2>4. QED
    BY <1>1, <2>1, <2>3, LenProperties
<1>8. c # <<>>
  <2> HIDE DEF c
  <2>1. QED
    BY <1>1, <1>7, EmptySeq
<1>9. Bytes(c) = Total(tags)
  <2>1. \A i \in 1..n : c[i].bytes = tags[i]
    BY <1>a
  <2>2. tags = [i \in 1..n |-> tags[i]]
    BY LenProperties
  <2> HIDE DEF c
  <2>3. [i \in DOMAIN c |-> c[i].bytes] = tags
    BY <1>7, <2>1, <2>2
  <2>4. QED
    BY <2>3 DEF Bytes
<1>10. \A i \in 1..n : start - Total(tags) =< c[i].addr /\ c[i].addr < start
  <2> SUFFICES ASSUME NEW i \in 1..n
      PROVE start - Total(tags) =< c[i].addr /\ c[i].addr < start
    OBVIOUS
  <2>1. c[i].addr = start - Total(SubSeq(tags, 1, i))
    BY <1>a
  <2> HIDE DEF c
  <2>2. QED
    BY <1>4, <1>5, <2>1
<1>11. QED
  BY <1>7, <1>8, <1>9, <1>10

-----------------------------------------------------------------------------
(* What each allocation adds to the trace, and how it is undone.           *)

CellsOf(t) == ToSet(t.nextFrame) \cup UNION {ToSet(t.callStack[i]) : i \in DOMAIN t.callStack}

LEMMA FrontAndLast ==
  ASSUME NEW S, NEW s \in Seq(S), NEW e \in S
  PROVE  Front(Append(s, e)) = s /\ Last(Append(s, e)) = e
<1> DEFINE w == Append(s, e)
<1>1. w \in Seq(S) /\ Len(w) = Len(s) + 1 /\ w[Len(s) + 1] = e
      /\ \A i \in 1..Len(s) : w[i] = s[i]
  BY AppendProperties
<1>2. Len(s) \in Nat
  BY LenProperties
<1> HIDE DEF w
<1>3. Len(w) - 1 = Len(s)
  BY <1>1, <1>2
<1>4. SubSeq(w, 1, Len(s)) = s
  <2> DEFINE n == Len(s)
             r == SubSeq(w, 1, n)
  <2>1. \A i \in 1..n : w[i] \in S
    <3>1. \A i \in 1..n : i \in 1..Len(w)
      BY <1>1, <1>2
    <3>2. QED
      BY <1>1, <3>1, ElementOfSeq
  <2>2. 1 \in Int /\ n \in Int /\ n - 1 + 1 = n
    BY <1>2
  <2>3. r \in Seq(S) /\ Len(r) = (IF 1 =< n THEN n - 1 + 1 ELSE 0)
        /\ \A i \in 1..n - 1 + 1 : r[i] = w[1 + i - 1]
    BY <2>1, <2>2, SubSeqProperties
  <2> HIDE DEF r
  <2>4. Len(r) = Len(s)
    BY <1>2, <2>3
  <2>5. \A i \in 1..Len(r) : r[i] = s[i]
    <3> SUFFICES ASSUME NEW i \in 1..Len(s) PROVE r[i] = s[i]
      BY <2>4
    <3>1. 1 + i - 1 = i /\ i \in 1..n - 1 + 1
      BY <1>2
    <3>2. r[i] = w[i]
      BY <2>3, <3>1
    <3>3. QED
      BY <1>1, <3>2
  <2>6. r = s
    BY <2>3, <2>4, <2>5, SeqEqual
  <2>7. QED
    BY <2>6 DEF r
<1>5. QED
  BY <1>1, <1>3, <1>4 DEF Front, Last, w

\* The cells of a trace, one by one.
LEMMA CellOf ==
  ASSUME NEW t \in Trace, NEW x
  PROVE  x \in CellsOf(t) <=> \/ x \in ToSet(t.nextFrame)
                              \/ \E i \in 1..Len(t.callStack) : x \in ToSet(t.callStack[i])
<1>1. DOMAIN t.callStack = 1..Len(t.callStack)
  BY LenProperties DEF Trace
<1>2. QED
  BY <1>1 DEF CellsOf

LEMMA ToSetConcat ==
  ASSUME NEW S, NEW F \in Seq(S), NEW c \in Seq(S)
  PROVE  ToSet(F \o c) = ToSet(F) \cup ToSet(c)
<1>1. \A u \in Seq(S) : ToSet(u) = Range(u)
  BY DEF ToSet, Range
<1>2. F \o c \in Seq(S)
  BY ConcatProperties
<1>3. ToSet(F \o c) = Range(F \o c) /\ ToSet(F) = Range(F) /\ ToSet(c) = Range(c)
  BY <1>1, <1>2
<1>4. Range(F \o c) = Range(F) \cup Range(c)
  BY RangeConcatenation
<1>5. QED
  BY <1>3, <1>4

LEMMA ToSetAppend ==
  ASSUME NEW S, NEW F \in Seq(S), NEW e \in S
  PROVE  ToSet(Append(F, e)) = ToSet(F) \cup {e}
<1>1. Append(F, e) = F \o <<e>> /\ <<e>> \in Seq(S)
  BY AppendIsConcat
<1>2. ToSet(<<e>>) = {e}
  <2>1. DOMAIN <<e>> = {1} /\ <<e>>[1] = e
    OBVIOUS
  <2>2. QED
    BY <2>1 DEF ToSet
<1>3. QED
  BY <1>1, <1>2, ToSetConcat

LEMMA AddressIsCell == ASSUME NEW a \in Int PROVE ReturnAddress(a) \in Cell
BY DEF ReturnAddress, Cell

LEMMA AddressBytes == ASSUME NEW a \in Int PROVE Bytes(<<ReturnAddress(a)>>) = 2
<1>1. <<ReturnAddress(a)>>[1].bytes = 2 /\ DOMAIN <<ReturnAddress(a)>> = 1..1
  BY DEF ReturnAddress
<1>2. [i \in DOMAIN <<ReturnAddress(a)>> |-> <<ReturnAddress(a)>>[i].bytes] = <<2>>
  BY <1>1
<1>3. QED
  BY <1>2, TotalOne DEF Bytes

\* A call puts its return address on top of the parameters pushed before it.
LEMMA CallTraced ==
  ASSUME NEW t \in Trace, NEW a \in Int
  PROVE  /\ Call(t, a) \in Trace
         /\ CellsOf(Call(t, a)) = CellsOf(t) \cup {ReturnAddress(a)}
         /\ Ret(Call(t, a)) = [trace |-> t, ok |-> TRUE]
<1> DEFINE ra == ReturnAddress(a)
           top == Append(t.nextFrame, ra)
           b == Call(t, a)
<1>1. t.callStack \in Seq(Seq(Cell)) /\ t.nextFrame \in Seq(Cell) /\ ra \in Cell
  BY AddressIsCell DEF Trace
<1>2. top \in Seq(Cell)
  BY <1>1, AppendProperties
<1>3. b = [callStack |-> Append(t.callStack, top), nextFrame |-> <<>>]
  BY DEF Call
<1> HIDE DEF ra, top, b
<1>4. Append(t.callStack, top) \in Seq(Seq(Cell)) /\ Append(t.callStack, top) # <<>>
  BY <1>1, <1>2, AppendProperties
<1>5. b \in Trace /\ b.callStack = Append(t.callStack, top) /\ b.nextFrame = <<>>
  <2>1. <<>> \in Seq(Cell)
    OBVIOUS
  <2>2. QED
    BY <1>3, <1>4, <2>1 DEF Trace
<1>6. CellsOf(b) = CellsOf(t) \cup {ra}
  <2>1. ToSet(top) = ToSet(t.nextFrame) \cup {ra}
    BY <1>1, ToSetAppend DEF top
  <2>2. ToSet(<<>>) = {}
    BY DEF ToSet
  <2> DEFINE n == Len(t.callStack)
  <2>3. n \in Nat /\ Len(b.callStack) = n + 1 /\ b.callStack[n + 1] = top
        /\ \A i \in 1..n : b.callStack[i] = t.callStack[i]
    BY <1>1, <1>2, <1>5, AppendProperties, LenProperties
  <2> HIDE DEF n
  <2>4. \A i \in 1..n + 1 : i \in 1..n \/ i = n + 1
    BY <2>3
  <2>5. \A i \in 1..n : i \in 1..n + 1
    BY <2>3
  <2>6. n + 1 \in 1..n + 1
    BY <2>3
  <2>7. ASSUME NEW x PROVE x \in CellsOf(b) <=> x \in CellsOf(t) \cup {ra}
    <3>1. x \in CellsOf(b) <=> \E i \in 1..n + 1 : x \in ToSet(b.callStack[i])
      BY <1>5, <2>2, <2>3, CellOf
    <3>2. x \in CellsOf(b) <=> x \in ToSet(top) \/ \E i \in 1..n : x \in ToSet(t.callStack[i])
      BY <2>3, <2>4, <2>5, <2>6, <3>1
    <3>3. x \in CellsOf(t) <=> x \in ToSet(t.nextFrame) \/ \E i \in 1..n : x \in ToSet(t.callStack[i])
      BY CellOf DEF n
    <3>4. QED
      BY <2>1, <3>2, <3>3
  <2>8. QED
    BY <2>7
<1>7. Ret(b) = [trace |-> t, ok |-> TRUE]
  <2>1. Front(b.callStack) = t.callStack /\ Last(b.callStack) = top
    BY <1>1, <1>2, <1>5, FrontAndLast
  <2>2. FramePop(top, 2) = [frame |-> t.nextFrame, ok |-> TRUE]
    <3>1. top = t.nextFrame \o <<ra>> /\ <<ra>> \in Seq(Cell) /\ <<ra>> # <<>>
      BY <1>1, AppendIsConcat DEF top
    <3>2. Bytes(<<ra>>) = 2
      BY AddressBytes DEF ra
    <3>3. FramePop(t.nextFrame \o <<ra>>, Bytes(<<ra>>)) = [frame |-> t.nextFrame, ok |-> TRUE]
      BY <1>1, <3>1, FramePopUndoes
    <3>4. QED
      BY <3>1, <3>2, <3>3
  <2>3. t = [callStack |-> t.callStack, nextFrame |-> t.nextFrame]
    BY DEF Trace
  <2>4. b.callStack # <<>>
    BY <1>4, <1>5
  <2> DEFINE popped == FramePop(Last(b.callStack), 2)
  <2>5. Ret(b) = [trace |-> [callStack |-> Front(b.callStack), nextFrame |-> popped.frame], ok |-> popped.ok]
    BY <2>4 DEF Ret
  <2>6. popped = [frame |-> t.nextFrame, ok |-> TRUE]
    BY <2>1, <2>2
  <2> HIDE DEF popped
  <2>7. popped.frame = t.nextFrame /\ popped.ok = TRUE
    BY <2>6
  <2>8. QED
    BY <2>1, <2>3, <2>5, <2>7
<1>8. QED
  BY <1>5, <1>6, <1>7 DEF b, ra

\* Parameters go to the next frame.
LEMMA ParamsTraced ==
  ASSUME NEW t \in Trace, NEW c \in Seq(Cell)
  PROVE  /\ PushParams(t, c) = [callStack |-> t.callStack, nextFrame |-> t.nextFrame \o c]
         /\ PushParams(t, c) \in Trace
         /\ CellsOf(PushParams(t, c)) = CellsOf(t) \cup ToSet(c)
<1> DEFINE b == PushParams(t, c)
<1>1. t.callStack \in Seq(Seq(Cell)) /\ t.nextFrame \in Seq(Cell)
  BY DEF Trace
<1>2. t.nextFrame \o c \in Seq(Cell) /\ ToSet(t.nextFrame \o c) = ToSet(t.nextFrame) \cup ToSet(c)
  BY <1>1, ConcatProperties, ToSetConcat
<1>3. b = [callStack |-> t.callStack, nextFrame |-> t.nextFrame \o c]
  <2> DEFINE x == t.nextFrame \o c
  <2>1. b = [t EXCEPT !.nextFrame = x]
    BY DEF PushParams
  <2>2. t = [callStack |-> t.callStack, nextFrame |-> t.nextFrame]
    BY DEF Trace
  <2> HIDE DEF x, b
  <2>3. b = [callStack |-> t.callStack, nextFrame |-> x]
    BY <2>1, <2>2
  <2>4. QED
    BY <2>3 DEF x
<1> HIDE DEF b
<1>4. b \in Trace /\ b.callStack = t.callStack /\ b.nextFrame = t.nextFrame \o c
  BY <1>1, <1>2, <1>3 DEF Trace
<1>5. CellsOf(b) = CellsOf(t) \cup ToSet(c)
  BY <1>2, <1>4 DEF CellsOf
<1>6. QED
  BY <1>3, <1>4, <1>5 DEF b

\* A trace by its two parts.
LEMMA TraceParts ==
  ASSUME NEW t \in Trace
  PROVE  /\ t = [callStack |-> t.callStack, nextFrame |-> t.nextFrame]
         /\ t.callStack \in Seq(Seq(Cell)) /\ t.nextFrame \in Seq(Cell)
         /\ \A s : [t EXCEPT !.callStack = s] = [callStack |-> s, nextFrame |-> t.nextFrame]
BY DEF Trace

\* The first locals of a program without calls get a frame of their own.
LEMMA FirstLocalsTraced ==
  ASSUME NEW t \in Trace, NEW c \in Seq(Cell), c # <<>>, t.callStack = <<>>
  PROVE  /\ PushLocals(t, c) = [callStack |-> <<c>>, nextFrame |-> t.nextFrame]
         /\ PushLocals(t, c) \in Trace
         /\ CellsOf(PushLocals(t, c)) = CellsOf(t) \cup ToSet(c)
         /\ PopLocals(PushLocals(t, c), Bytes(c)).ok = TRUE
         /\ PopLocals(PushLocals(t, c), Bytes(c)).trace = [callStack |-> << <<>> >>, nextFrame |-> t.nextFrame]
<1> DEFINE b == PushLocals(t, c)
<1>1. b = [callStack |-> <<c>>, nextFrame |-> t.nextFrame]
  BY TraceParts DEF PushLocals
<1> HIDE DEF b
<1>2. <<c>> \in Seq(Seq(Cell)) /\ <<c>> # <<>> /\ Len(<<c>>) = 1 /\ DOMAIN <<c>> = {1} /\ <<c>>[1] = c
  OBVIOUS
<1>3. b.callStack = <<c>> /\ b.nextFrame = t.nextFrame /\ b \in Trace
  BY <1>1, <1>2, TraceParts DEF Trace
<1>4. CellsOf(b) = CellsOf(t) \cup ToSet(c)
  <2>1. DOMAIN <<>> = {}
    OBVIOUS
  <2>2. CellsOf(t) = ToSet(t.nextFrame)
    BY <2>1 DEF CellsOf
  <2>3. CellsOf(b) = ToSet(t.nextFrame) \cup ToSet(c)
    BY <1>2, <1>3 DEF CellsOf
  <2>4. QED
    BY <2>2, <2>3
<1> DEFINE popped == FramePop(Last(b.callStack), Bytes(c))
<1>5. popped = [frame |-> <<>>, ok |-> TRUE]
  <2>1. <<>> \in Seq(Cell) /\ <<>> \o c = c /\ Last(b.callStack) = c
    BY <1>2, <1>3, ConcatEmptySeq DEF Last
  <2>2. FramePop(<<>> \o c, Bytes(c)) = [frame |-> <<>>, ok |-> TRUE]
    BY <2>1, FramePopUndoes
  <2>3. QED
    BY <2>1, <2>2
<1>6. PopLocals(b, Bytes(c)) = [trace |-> [b EXCEPT !.callStack[Len(b.callStack)] = popped.frame], ok |-> popped.ok]
  BY <1>2, <1>3 DEF PopLocals
<1> HIDE DEF popped
<1>7. popped.frame = <<>> /\ popped.ok = TRUE
  BY <1>5
<1>8. [b EXCEPT !.callStack[Len(b.callStack)] = <<>>] = [callStack |-> << <<>> >>, nextFrame |-> t.nextFrame]
  <2>1. [<<c>> EXCEPT ![1] = <<>>] = << <<>> >>
    OBVIOUS
  <2>2. [b EXCEPT !.callStack[Len(b.callStack)] = <<>>] = [b EXCEPT !.callStack = [b.callStack EXCEPT ![Len(b.callStack)] = <<>>]]
    BY <1>1
  <2>3. [b.callStack EXCEPT ![Len(b.callStack)] = <<>>] = << <<>> >>
    BY <1>2, <1>3, <2>1
  <2>4. QED
    BY <1>3, <2>2, <2>3, TraceParts
<1>9. QED
  BY <1>1, <1>3, <1>4, <1>6, <1>7, <1>8 DEF b

\* Later locals go on top of the frame of the call.
LEMMA LocalsTraced ==
  ASSUME NEW t \in Trace, NEW c \in Seq(Cell), c # <<>>, t.callStack # <<>>
  PROVE  /\ PushLocals(t, c) \in Trace
         /\ PushLocals(t, c).nextFrame = t.nextFrame
         /\ PushLocals(t, c).callStack # <<>>
         /\ CellsOf(PushLocals(t, c)) = CellsOf(t) \cup ToSet(c)
         /\ PopLocals(PushLocals(t, c), Bytes(c)).ok = TRUE
         /\ PopLocals(PushLocals(t, c), Bytes(c)).trace = t
<1> DEFINE S == t.callStack
           n == Len(S)
           F == S[n]
           G == F \o c
           R == [S EXCEPT ![n] = G]
           b == PushLocals(t, c)
<1>1. S \in Seq(Seq(Cell)) /\ n \in Nat \ {0} /\ n \in 1..n
  BY TraceParts, EmptySeq
<1>2. F \in Seq(Cell)
  BY <1>1, ElementOfSeq
<1>3. G \in Seq(Cell) /\ ToSet(G) = ToSet(F) \cup ToSet(c)
  BY <1>2, ConcatProperties, ToSetConcat
<1>4. b = [callStack |-> R, nextFrame |-> t.nextFrame]
  <2>1. b = [t EXCEPT !.callStack = R]
    BY DEF PushLocals, Trace
  <2>2. QED
    BY <2>1, TraceParts
<1> HIDE DEF b, G, F
<1>5. /\ R \in Seq(Seq(Cell)) /\ Len(R) = n /\ R[n] = G
      /\ \A j \in 1..n : R[j] = IF j = n THEN G ELSE S[j]
  BY <1>1, <1>3, ExceptSeq
<1> HIDE DEF R
<1>6. b.callStack = R /\ b.nextFrame = t.nextFrame /\ b \in Trace /\ R # <<>>
  <2>1. b.callStack = R /\ b.nextFrame = t.nextFrame /\ b \in Trace
    BY <1>4, <1>5, TraceParts DEF Trace
  <2>2. R # <<>>
    BY <1>1, <1>5, EmptySeq
  <2>3. QED
    BY <2>1, <2>2
<1>7. CellsOf(b) = CellsOf(t) \cup ToSet(c)
  <2>1. ASSUME NEW x PROVE x \in CellsOf(b) <=> x \in CellsOf(t) \cup ToSet(c)
    <3>1. x \in CellsOf(b) <=> x \in ToSet(t.nextFrame) \/ \E i \in 1..n : x \in ToSet(R[i])
      BY <1>5, <1>6, CellOf
    <3>2. x \in CellsOf(t) <=> x \in ToSet(t.nextFrame) \/ \E i \in 1..n : x \in ToSet(S[i])
      BY CellOf
    <3>3. \A i \in 1..n : x \in ToSet(R[i]) <=> x \in ToSet(S[i]) \/ (i = n /\ x \in ToSet(c))
      <4> SUFFICES ASSUME NEW i \in 1..n
          PROVE x \in ToSet(R[i]) <=> x \in ToSet(S[i]) \/ (i = n /\ x \in ToSet(c))
        OBVIOUS
      <4>1. CASE i = n
        BY <1>3, <1>5, <4>1 DEF F
      <4>2. CASE i # n
        BY <1>5, <4>2
      <4>3. QED
        BY <4>1, <4>2
    <3>4. QED
      BY <1>1, <3>1, <3>2, <3>3
  <2>2. QED
    BY <2>1
<1> DEFINE popped == FramePop(Last(b.callStack), Bytes(c))
<1>8. popped = [frame |-> F, ok |-> TRUE]
  <2>1. Last(b.callStack) = F \o c
    BY <1>5, <1>6 DEF Last, G
  <2>2. FramePop(F \o c, Bytes(c)) = [frame |-> F, ok |-> TRUE]
    BY <1>2, FramePopUndoes
  <2>3. QED
    BY <2>1, <2>2
<1>9. PopLocals(b, Bytes(c)) = [trace |-> [b EXCEPT !.callStack[Len(b.callStack)] = popped.frame], ok |-> popped.ok]
  BY <1>6 DEF PopLocals
<1> HIDE DEF popped
<1>10. popped.frame = F /\ popped.ok = TRUE
  BY <1>8
<1>11. [b EXCEPT !.callStack[Len(b.callStack)] = F] = t
  <2>1. [b EXCEPT !.callStack[Len(b.callStack)] = F] = [b EXCEPT !.callStack = [b.callStack EXCEPT ![Len(b.callStack)] = F]]
    BY <1>6 DEF Trace
  <2>2. [R EXCEPT ![n] = F] = S
    <3> DEFINE Q == [R EXCEPT ![n] = F]
    <3>1. Q \in Seq(Seq(Cell)) /\ Len(Q) = n /\ \A j \in 1..n : Q[j] = IF j = n THEN F ELSE R[j]
      BY <1>1, <1>2, <1>5, ExceptSeq
    <3> HIDE DEF Q
    <3>2. \A j \in 1..n : Q[j] = S[j]
      BY <1>5, <3>1 DEF F
    <3>3. Q = S
      BY <1>1, <3>1, <3>2, SeqEqual
    <3>4. QED
      BY <3>3 DEF Q
  <2>3. [b EXCEPT !.callStack[Len(b.callStack)] = F] = [callStack |-> S, nextFrame |-> t.nextFrame]
    BY <1>5, <1>6, <2>1, <2>2, TraceParts
  <2>4. QED
    BY <2>3, TraceParts
<1>12. QED
  BY <1>6, <1>7, <1>9, <1>10, <1>11 DEF b

-----------------------------------------------------------------------------
(* Removing the parameters of the next frame.                              *)

\* The loop of ADDSP, for the size of the next frame, takes the whole frame in
\* its first turn, and nothing in the turns that remain.
THEOREM ParamsUndone ==
  ASSUME NEW t \in Trace, t.nextFrame # <<>>, NEW acts \in Seq(Action)
  PROVE  /\ TopOfStack(t) = t.nextFrame
         /\ PopFrames(t, acts, Bytes(t.nextFrame)) =
              [trace |-> [callStack |-> t.callStack, nextFrame |-> <<>>], size |-> 0,
               success |-> TRUE, actions |-> acts, undefined |-> FALSE]
<1> DEFINE c == t.nextFrame
           z == Bytes(c)
           turns == Len(t.callStack) + 2
           base == [trace |-> t, size |-> z, success |-> TRUE,
                    actions |-> Append(acts, "params"), undefined |-> FALSE]
           done == [callStack |-> t.callStack, nextFrame |-> <<>>]
           final == [trace |-> done, size |-> 0,
                     success |-> TRUE, actions |-> acts, undefined |-> FALSE]
<1>1. c \in Seq(Cell) /\ t.callStack \in Seq(Seq(Cell))
  BY TraceParts
<1>2. z \in Nat \ {0}
  BY <1>1, BytesPositive
<1>3. turns \in Nat /\ turns >= 2
  BY <1>1, LenProperties
<1>4. TopOfStack(t) = c
  BY <1>2 DEF TopOfStack
<1>5. PopTurn(base) = final
  <2>1. PopParams(t, z) = [trace |-> done, ok |-> TRUE]
    <3> DEFINE next == FramePop(c, z)
    <3>1. next = [frame |-> <<>>, ok |-> TRUE]
      <4>1. <<>> \in Seq(Cell) /\ <<>> \o c = c
        BY <1>1, ConcatEmptySeq
      <4>2. FramePop(<<>> \o c, Bytes(c)) = [frame |-> <<>>, ok |-> TRUE]
        BY <1>1, <4>1, FramePopUndoes
      <4>3. QED
        BY <4>1, <4>2
    <3>2. PopParams(t, z) = [trace |-> [t EXCEPT !.nextFrame = next.frame], ok |-> next.ok]
      BY <1>2 DEF PopParams
    <3> HIDE DEF next
    <3>3. next.frame = <<>> /\ next.ok = TRUE
      BY <3>1
    <3>4. [t EXCEPT !.nextFrame = <<>>] = done
      BY TraceParts
    <3>5. QED
      BY <3>2, <3>3, <3>4
  <2> DEFINE popped == PopParams(t, z)
             rest == Append(acts, "params")
  <2>2. popped.trace = done /\ popped.ok = TRUE
    BY <2>1
  <2>3. rest # <<>> /\ Front(rest) = acts
    <3>1. "params" \in Action
      BY DEF Action
    <3>2. QED
      BY <3>1, AppendProperties, FrontAndLast
  <2>4. (rest = <<>>) = FALSE
    BY <2>3
  <2>5. (z - z) % 65536 = 0
    BY <1>2
  <2>6. /\ base.trace = t /\ base.size = z /\ base.success = TRUE
        /\ base.actions = rest /\ base.undefined = FALSE
    OBVIOUS
  <2> HIDE DEF base, popped, rest, done
  <2>7. ~(base.size = 0 \/ ~base.success \/ base.undefined)
    BY <1>2, <2>6
  <2>8. PopTurn(base) = [trace |-> PopParams(base.trace, Bytes(TopOfStack(base.trace))).trace,
                         size |-> (base.size - Bytes(TopOfStack(base.trace))) % 65536,
                         success |-> PopParams(base.trace, Bytes(TopOfStack(base.trace))).ok,
                         actions |-> IF base.actions = <<>> THEN <<>> ELSE Front(base.actions),
                         undefined |-> base.actions = <<>>]
    BY <2>7 DEF PopTurn
  <2>9. Bytes(TopOfStack(base.trace)) = z
    BY <1>4, <2>6
  <2>10. PopParams(base.trace, Bytes(TopOfStack(base.trace))) = popped
    BY <2>6, <2>9 DEF popped
  <2>11. (base.actions = <<>>) = FALSE
    BY <2>4, <2>6
  <2> DEFINE p == PopParams(base.trace, Bytes(TopOfStack(base.trace)))
             q == (base.size - Bytes(TopOfStack(base.trace))) % 65536
             r == IF base.actions = <<>> THEN <<>> ELSE Front(base.actions)
             u == base.actions = <<>>
  <2>12. p.trace = done /\ p.ok = TRUE
    BY <2>2, <2>10
  <2>13. q = 0
    BY <2>5, <2>6, <2>9
  <2>14. r = acts
    BY <2>3, <2>6
  <2>15. u = FALSE
    BY <2>11
  <2> HIDE DEF p, q, r, u
  <2>16. PopTurn(base) = [trace |-> p.trace, size |-> q, success |-> p.ok, actions |-> r, undefined |-> u]
    BY <2>8 DEF p, q, r, u
  <2>17. QED
    BY <2>12, <2>13, <2>14, <2>15, <2>16
<1>6. PopTurn(final) = final
  BY DEF PopTurn
<1> HIDE DEF base, final, turns
<1> DEFINE Rule(h) == h = [n \in 0..turns |-> IF n = 0 THEN base ELSE PopTurn(h[n - 1])]
           w == [n \in 0..turns |-> IF n = 0 THEN base ELSE final]
           g == CHOOSE h : Rule(h)
<1>7. Rule(w)
  <2>1. ASSUME NEW n \in 0..turns
        PROVE (IF n = 0 THEN base ELSE final) = (IF n = 0 THEN base ELSE PopTurn(w[n - 1]))
    <3>1. CASE n = 0
      BY <3>1
    <3>2. CASE n = 1
      <4>1. w[n - 1] = base
        BY <1>3, <3>2
      <4> HIDE DEF w
      <4>2. QED
        BY <1>5, <3>2, <4>1
    <3>3. CASE n # 0 /\ n # 1
      <4>1. n - 1 \in 0..turns /\ n - 1 # 0
        BY <1>3, <3>3
      <4>2. w[n - 1] = final
        BY <4>1
      <4> HIDE DEF w
      <4>3. QED
        BY <1>6, <3>3, <4>2
    <3>4. QED
      BY <3>1, <3>2, <3>3
  <2>2. QED
    BY <2>1
<1>8. g = [n \in 0..turns |-> IF n = 0 THEN base ELSE PopTurn(g[n - 1])]
  <2> HIDE DEF Rule
  <2>1. Rule(g)
    BY <1>7
  <2>2. QED
    BY <2>1 DEF Rule
<1>9. PopFrames(t, acts, z) = g[turns]
  BY DEF PopFrames, turns, base
<1> HIDE DEF g
<1> DEFINE D == {n \in Nat : n + 1 =< turns => g[n + 1] = final}
<1>10. 0 \in D
  <2>1. 0 \in 0..turns /\ 1 \in 0..turns
    BY <1>3
  <2>2. g[0] = base /\ g[1] = PopTurn(g[0])
    BY <1>8, <2>1
  <2>3. QED
    BY <1>5, <2>2
<1>11. ASSUME NEW n \in Nat, n \in D PROVE n + 1 \in D
  <2> SUFFICES ASSUME (n + 1) + 1 =< turns PROVE g[(n + 1) + 1] = final
    OBVIOUS
  <2>1. (n + 1) + 1 \in 0..turns /\ (n + 1) + 1 # 0 /\ ((n + 1) + 1) - 1 = n + 1 /\ n + 1 =< turns
    BY <1>3
  <2>2. g[n + 1] = final
    BY <1>11, <2>1
  <2>3. g[(n + 1) + 1] = PopTurn(g[n + 1])
    BY <1>8, <2>1
  <2>4. QED
    BY <1>6, <2>2, <2>3
<1>12. Nat \subseteq D
  <2> HIDE DEF D
  <2>1. QED
    BY <1>10, <1>11, Induction
<1>13. g[turns] = final
  <2>1. turns - 1 \in Nat /\ (turns - 1) + 1 = turns /\ turns =< turns
    BY <1>3
  <2>2. turns - 1 \in D
    BY <1>12, <2>1
  <2>3. QED
    BY <2>1, <2>2
<1>14. QED
  BY <1>4, <1>9, <1>13 DEF final

-----------------------------------------------------------------------------
(* The inductive invariant: the history of a disciplined program.          *)

Group == [kind : Action, bytes : Nat]
Snapshot == [trace : Trace, sp : Int]
Kinds(gs) == [i \in 1..Len(gs) |-> gs[i].kind]

\* Group g took the trace and the stack pointer from a to b, with cells c.
Allocates(a, b, g, c) ==
    /\ Bytes(c) = g.bytes
    /\ b.sp = a.sp - g.bytes
    /\ \A i \in DOMAIN c : b.sp =< c[i].addr /\ c[i].addr < a.sp
    /\ \/ /\ g.kind = "call" /\ c = <<ReturnAddress(b.sp)>>
          /\ b.trace = Call(a.trace, b.sp)
       \/ /\ g.kind = "locals" /\ a.trace.nextFrame = <<>>
          /\ b.trace = PushLocals(a.trace, c)
       \/ /\ g.kind = "params" /\ a.trace.nextFrame = <<>>
          /\ b.trace = PushParams(a.trace, c)

Allocated(a, b, g) == \E c \in Seq(Cell) : c # <<>> /\ Allocates(a, b, g, c)

\* A stack without groups may have kept the frame of its first locals, empty.
Bottom(t) == t.nextFrame = <<>> /\ (t.callStack = <<>> \/ t.callStack = << <<>> >>)

\* All cells of the trace are on the stack.
Above(h) == \A x \in CellsOf(h.trace) : h.sp =< x.addr

\* hist holds the trace and the stack pointer from before each group on.
History(hist, gs, t, p) ==
    /\ hist \in Seq(Snapshot) /\ Len(hist) = Len(gs) + 1
    /\ Bottom(hist[1].trace)
    /\ \A i \in 1..Len(gs) : Allocated(hist[i], hist[i + 1], gs[i])
    /\ \A i \in 1..Len(hist) : Above(hist[i])
    /\ hist[Len(hist)] = [trace |-> t, sp |-> p]

Matches ==
    /\ stackIntact = TRUE /\ undefined = FALSE
    /\ groups \in Seq(Group)
    /\ actions = Kinds(groups)
    /\ cells = CellsOf(trace)
    /\ \E hist : History(hist, groups, trace, sp)

\* As long as the program is disciplined its trace, its stack pointer and the
\* actions are those of its groups.
IInv == tagged /\ disciplined => Matches

-----------------------------------------------------------------------------

LEMMA KindsAppend ==
  ASSUME NEW gs \in Seq(Group), NEW g \in Group
  PROVE  /\ Kinds(gs) \in Seq(Action)
         /\ Kinds(Append(gs, g)) = Append(Kinds(gs), g.kind)
         /\ Front(Kinds(Append(gs, g))) = Kinds(gs) /\ Last(Kinds(Append(gs, g))) = g.kind
         /\ Kinds(Append(gs, g)) # <<>>
<1> DEFINE n == Len(gs)
           w == Append(gs, g)
           k == Kinds(gs)
           l == Kinds(w)
<1>1. n \in Nat /\ w \in Seq(Group) /\ Len(w) = n + 1 /\ w[n + 1] = g
      /\ (\A i \in 1..n : w[i] = gs[i]) /\ g.kind \in Action
  BY AppendProperties, LenProperties DEF Group
<1>2. \A u \in Seq(Group) : Kinds(u) \in Seq(Action) /\ Len(Kinds(u)) = Len(u)
                            /\ \A i \in 1..Len(u) : Kinds(u)[i] = u[i].kind
  <2> SUFFICES ASSUME NEW u \in Seq(Group)
      PROVE Kinds(u) \in Seq(Action) /\ Len(Kinds(u)) = Len(u)
            /\ \A i \in 1..Len(u) : Kinds(u)[i] = u[i].kind
    OBVIOUS
  <2>1. \A i \in 1..Len(u) : u[i].kind \in Action
    <3>1. \A i \in 1..Len(u) : u[i] \in Group
      BY ElementOfSeq
    <3>2. QED
      BY <3>1 DEF Group
  <2>2. Len(u) \in Nat
    BY LenProperties
  <2>3. QED
    BY <2>1, <2>2 DEF Kinds
<1> HIDE DEF w, k, l
<1>3. k \in Seq(Action) /\ Len(k) = n /\ l \in Seq(Action) /\ Len(l) = n + 1
      /\ (\A i \in 1..n : k[i] = gs[i].kind) /\ (\A i \in 1..n + 1 : l[i] = w[i].kind)
  BY <1>1, <1>2 DEF k, l
<1> DEFINE m == Append(k, g.kind)
<1>4. m \in Seq(Action) /\ Len(m) = n + 1 /\ m[n + 1] = g.kind /\ (\A i \in 1..n : m[i] = k[i]) /\ m # <<>>
  BY <1>1, <1>3, AppendProperties
<1> HIDE DEF m, n
<1>5. \A i \in 1..n + 1 : l[i] = m[i]
  <2> SUFFICES ASSUME NEW i \in 1..n + 1 PROVE l[i] = m[i]
    OBVIOUS
  <2>1. CASE i = n + 1
    BY <1>1, <1>3, <1>4, <2>1
  <2>2. CASE i # n + 1
    <3>1. i \in 1..n
      BY <1>1, <2>2
    <3>2. QED
      BY <1>1, <1>3, <1>4, <3>1
  <2>3. QED
    BY <2>1, <2>2
<1>6. l = m
  BY <1>3, <1>4, <1>5, SeqEqual
<1>7. Front(m) = k /\ Last(m) = g.kind
  BY <1>1, <1>3, FrontAndLast DEF m
<1>8. QED
  BY <1>3, <1>4, <1>6, <1>7 DEF k, l, m, w

\* An allocation adds its cells, all below the stack pointer so far.
LEMMA AllocatedAdds ==
  ASSUME NEW a \in Snapshot, NEW b \in Snapshot, NEW g \in Group, NEW c \in Seq(Cell), c # <<>>,
         Allocates(a, b, g, c), Above(a)
  PROVE  /\ CellsOf(b.trace) = CellsOf(a.trace) \cup ToSet(c)
         /\ Above(b)
         /\ CellsOf(a.trace) = {x \in CellsOf(b.trace) : x.addr >= a.sp}
<1>1. a.trace \in Trace /\ a.sp \in Int /\ b.trace \in Trace /\ b.sp \in Int /\ g.bytes \in Nat
  BY DEF Snapshot, Group
<1>2. CellsOf(b.trace) = CellsOf(a.trace) \cup ToSet(c)
  <2>1. CASE c = <<ReturnAddress(b.sp)>> /\ b.trace = Call(a.trace, b.sp)
    <3>1. CellsOf(b.trace) = CellsOf(a.trace) \cup {ReturnAddress(b.sp)}
      BY <1>1, <2>1, CallTraced
    <3>2. ToSet(c) = {ReturnAddress(b.sp)}
      <4> DEFINE r == ReturnAddress(b.sp)
      <4> HIDE DEF r
      <4>1. c = <<r>>
        BY <2>1 DEF r
      <4>2. DOMAIN c = {1} /\ c[1] = r
        BY <4>1
      <4>3. QED
        BY <4>2 DEF ToSet, r
    <3>3. QED
      BY <3>1, <3>2
  <2>2. CASE b.trace = PushLocals(a.trace, c)
    <3> DEFINE u == a.trace
    <3> HIDE DEF u
    <3>1. u \in Trace
      BY <1>1 DEF u
    <3>2. CellsOf(PushLocals(u, c)) = CellsOf(u) \cup ToSet(c)
      <4>1. CASE u.callStack = <<>>
        BY <3>1, <4>1, FirstLocalsTraced
      <4>2. CASE u.callStack # <<>>
        BY <3>1, <4>2, LocalsTraced
      <4>3. QED
        BY <4>1, <4>2
    <3>3. QED
      BY <2>2, <3>2 DEF u
  <2>3. CASE b.trace = PushParams(a.trace, c)
    BY <1>1, <2>3, ParamsTraced
  <2>4. QED
    BY <2>1, <2>2, <2>3 DEF Allocates
<1>3. \A x \in ToSet(c) : b.sp =< x.addr /\ x.addr < a.sp
  BY DEF Allocates, ToSet
<1>4. b.sp =< a.sp
  BY <1>1 DEF Allocates
<1>5. \A t \in Trace : \A x \in CellsOf(t) : x.addr \in Int
  <2> SUFFICES ASSUME NEW t \in Trace, NEW x \in CellsOf(t) PROVE x.addr \in Int
    OBVIOUS
  <2>1. \A u \in Seq(Cell) : \A y \in ToSet(u) : y.addr \in Int
    <3>1. \A u \in Seq(Cell) : \A i \in DOMAIN u : u[i] \in Cell
      BY ElementOfSeq, LenProperties
    <3>2. QED
      BY <3>1 DEF ToSet, Cell
  <2>2. t.nextFrame \in Seq(Cell) /\ \A i \in 1..Len(t.callStack) : t.callStack[i] \in Seq(Cell)
    BY TraceParts, ElementOfSeq
  <2>3. QED
    BY <2>1, <2>2, CellOf
<1>6. Above(b)
  <2> SUFFICES ASSUME NEW x \in CellsOf(b.trace) PROVE b.sp =< x.addr
    BY DEF Above
  <2>1. x.addr \in Int
    BY <1>1, <1>5
  <2>2. CASE x \in CellsOf(a.trace)
    BY <1>1, <1>4, <2>1, <2>2 DEF Above
  <2>3. CASE x \in ToSet(c)
    BY <1>3, <2>3
  <2>4. QED
    BY <1>2, <2>2, <2>3
<1>7. CellsOf(a.trace) = {x \in CellsOf(b.trace) : x.addr >= a.sp}
  <2>1. ASSUME NEW x \in CellsOf(b.trace)
        PROVE x \in CellsOf(a.trace) <=> x.addr >= a.sp
    <3>1. x.addr \in Int
      BY <1>1, <1>5
    <3>2. x \in CellsOf(a.trace) => x.addr >= a.sp
      BY <1>1, <3>1 DEF Above
    <3>3. x \in ToSet(c) => ~(x.addr >= a.sp)
      BY <1>1, <1>3, <3>1
    <3>4. QED
      BY <1>2, <3>2, <3>3
  <2>2. QED
    BY <1>2, <2>1
<1>8. QED
  BY <1>2, <1>6, <1>7

LEMMA HistoryGrows ==
  ASSUME NEW hist, NEW gs \in Seq(Group), NEW t, NEW p, History(hist, gs, t, p),
         NEW b \in Snapshot, NEW g \in Group, Allocated([trace |-> t, sp |-> p], b, g), Above(b)
  PROVE  History(Append(hist, b), Append(gs, g), b.trace, b.sp)
<1> DEFINE n == Len(gs)
           h == Append(hist, b)
           w == Append(gs, g)
<1>1. n \in Nat /\ Len(w) = n + 1 /\ w[n + 1] = g /\ \A i \in 1..n : w[i] = gs[i]
  BY AppendProperties, LenProperties
<1>2. hist \in Seq(Snapshot) /\ Len(hist) = n + 1
  BY DEF History
<1>3. h \in Seq(Snapshot) /\ Len(h) = (n + 1) + 1 /\ h[(n + 1) + 1] = b
      /\ \A i \in 1..n + 1 : h[i] = hist[i]
  BY <1>2, AppendProperties
<1> HIDE DEF h, w, n
<1>4. Bottom(h[1].trace)
  <2>1. 1 \in 1..n + 1
    BY <1>1
  <2>2. QED
    BY <1>3, <2>1 DEF History
<1>5. ASSUME NEW i \in 1..n + 1 PROVE Allocated(h[i], h[i + 1], w[i])
  <2>1. CASE i = n + 1
    <3>1. h[i] = [trace |-> t, sp |-> p]
      BY <1>2, <1>3, <2>1 DEF History
    <3>2. h[i + 1] = b /\ w[i] = g
      BY <1>1, <1>3, <2>1
    <3>3. QED
      BY <3>1, <3>2
  <2>2. CASE i # n + 1
    <3>1. i \in 1..n /\ i + 1 \in 1..n + 1
      BY <1>1, <2>2
    <3>2. Allocated(hist[i], hist[i + 1], gs[i])
      BY <3>1 DEF History, n
    <3>3. h[i] = hist[i] /\ h[i + 1] = hist[i + 1] /\ w[i] = gs[i]
      BY <1>1, <1>3, <3>1
    <3>4. QED
      BY <3>2, <3>3
  <2>3. QED
    BY <2>1, <2>2
<1>6. ASSUME NEW i \in 1..Len(h) PROVE Above(h[i])
  <2>1. CASE i = (n + 1) + 1
    BY <1>3, <2>1
  <2>2. CASE i # (n + 1) + 1
    <3>1. i \in 1..n + 1
      BY <1>1, <1>3, <2>2
    <3>2. QED
      BY <1>2, <1>3, <3>1 DEF History
  <2>3. QED
    BY <2>1, <2>2
<1>7. h[Len(h)] = [trace |-> b.trace, sp |-> b.sp]
  BY <1>3 DEF Snapshot
<1>8. QED
  BY <1>1, <1>3, <1>4, <1>5, <1>6, <1>7 DEF History, h, w

LEMMA HistoryShrinks ==
  ASSUME NEW hist, NEW gs \in Seq(Group), NEW g \in Group, NEW t, NEW p,
         History(hist, Append(gs, g), t, p)
  PROVE  \E a \in Snapshot :
            /\ Allocated(a, [trace |-> t, sp |-> p], g)
            /\ Above(a)
            /\ History(Front(hist), gs, a.trace, a.sp)
            /\ a.trace.nextFrame = <<>> /\ a.trace.callStack = <<>> => gs = <<>>
<1> DEFINE n == Len(gs)
           w == Append(gs, g)
<1>1. n \in Nat /\ Len(w) = n + 1 /\ w[n + 1] = g /\ \A i \in 1..n : w[i] = gs[i]
  BY AppendProperties, LenProperties
<1>2. hist \in Seq(Snapshot) /\ Len(hist) = (n + 1) + 1
  BY <1>1 DEF History
<1>3. PICK h \in Seq(Snapshot), b \in Snapshot : hist = Append(h, b)
  <2>1. hist # <<>>
    <3>1. Len(<<>>) = 0
      OBVIOUS
    <3>2. QED
      BY <1>1, <1>2, <3>1
  <2>2. QED
    BY <1>2, <2>1, SequenceEmptyOrAppend
<1>4. Len(h) = n + 1 /\ hist[(n + 1) + 1] = b /\ (\A i \in 1..n + 1 : hist[i] = h[i]) /\ Front(hist) = h
  <2>1. Len(hist) = Len(h) + 1 /\ Len(h) \in Nat /\ hist[Len(h) + 1] = b /\ (\A i \in 1..Len(h) : hist[i] = h[i])
    BY <1>3, AppendProperties, LenProperties
  <2>2. Len(h) = n + 1
    BY <1>1, <1>2, <2>1
  <2>3. Front(hist) = h
    BY <1>3, FrontAndLast
  <2>4. QED
    BY <2>1, <2>2, <2>3
<1> DEFINE a == h[n + 1]
<1>5. a \in Snapshot
  <2>1. n + 1 \in 1..Len(h)
    BY <1>1, <1>4
  <2>2. QED
    BY <1>3, <2>1, ElementOfSeq
<1> HIDE DEF w, n
<1>6. \A i \in 1..n + 1 : Allocated(hist[i], hist[i + 1], w[i])
  BY <1>1 DEF History, w
<1>7. Allocated(a, [trace |-> t, sp |-> p], g)
  <2>1. n + 1 \in 1..n + 1
    BY <1>1
  <2>2. Allocated(hist[n + 1], hist[(n + 1) + 1], w[n + 1])
    BY <1>6, <2>1
  <2>3. hist[(n + 1) + 1] = [trace |-> t, sp |-> p]
    BY <1>2 DEF History
  <2>4. QED
    BY <1>1, <1>4, <2>1, <2>2, <2>3
<1>8. \A i \in 1..n + 1 : Above(h[i])
  <2>1. \A i \in 1..n + 1 : i \in 1..Len(hist)
    BY <1>1, <1>2
  <2>2. QED
    BY <1>4, <2>1 DEF History
<1>9. ASSUME NEW i \in 1..n PROVE Allocated(h[i], h[i + 1], gs[i])
  <2>1. i \in 1..n + 1 /\ i + 1 \in 1..n + 1
    BY <1>1
  <2>2. QED
    BY <1>1, <1>4, <1>6, <2>1
<1>10. History(h, gs, a.trace, a.sp)
  <2>1. h[1] = hist[1] /\ n + 1 \in 1..n + 1
    BY <1>1, <1>4
  <2>2. Bottom(h[1].trace)
    BY <2>1 DEF History
  <2>3. a = [trace |-> a.trace, sp |-> a.sp]
    BY <1>5 DEF Snapshot
  <2>4. QED
    BY <1>3, <1>4, <1>8, <1>9, <2>2, <2>3 DEF History, n
<1>11. ASSUME a.trace.nextFrame = <<>>, a.trace.callStack = <<>> PROVE gs = <<>>
  <2> SUFFICES ASSUME gs # <<>> PROVE FALSE
    OBVIOUS
  <2>1. n \in 1..n /\ n \in 1..n + 1
    BY <1>1, EmptySeq DEF n
  <2>2. Allocated(h[n], a, gs[n])
    BY <1>9, <2>1
  <2>3. h[n] \in Snapshot /\ h[n].trace \in Trace
    <3>1. h[n] \in Snapshot
      BY <1>3, <1>4, <2>1, ElementOfSeq
    <3>2. QED
      BY <3>1 DEF Snapshot
  <2>4. PICK c \in Seq(Cell) : c # <<>> /\ Allocates(h[n], a, gs[n], c)
    BY <2>2 DEF Allocated
  <2>5. a.sp \in Int
    BY <1>5 DEF Snapshot
  <2> DEFINE u == h[n].trace
             v == a.trace
             q == a.sp
  <2> HIDE DEF u, v, q
  <2>a. u \in Trace /\ q \in Int /\ v.nextFrame = <<>> /\ v.callStack = <<>>
    BY <1>11, <2>3, <2>5 DEF u, v, q
  <2>6. v # Call(u, q)
    <3> DEFINE top == Append(u.nextFrame, ReturnAddress(q))
    <3>1. u.callStack \in Seq(Seq(Cell)) /\ top \in Seq(Cell)
      BY <2>a, TraceParts, AddressIsCell, AppendProperties
    <3> HIDE DEF top
    <3>2. Append(u.callStack, top) # <<>>
      <4> DEFINE F == u.callStack
                 S == Seq(Cell)
      <4>1. F \in Seq(S) /\ top \in S
        BY <3>1
      <4> HIDE DEF F, S
      <4>2. Append(F, top) # <<>>
        BY <4>1, AppendProperties
      <4>3. QED
        BY <4>2 DEF F
    <3>3. Call(u, q).callStack = Append(u.callStack, top)
      BY DEF Call, top
    <3>4. QED
      BY <2>a, <3>2, <3>3
  <2>7. v # PushLocals(u, c)
    <3>1. CASE u.callStack = <<>>
      <4>1. PushLocals(u, c) = [callStack |-> <<c>>, nextFrame |-> u.nextFrame]
        BY <2>a, <2>4, <3>1, FirstLocalsTraced
      <4>2. <<c>> # <<>>
        OBVIOUS
      <4>3. PushLocals(u, c).callStack = <<c>>
        BY <4>1
      <4>4. QED
        BY <2>a, <4>2, <4>3
    <3>2. CASE u.callStack # <<>>
      BY <2>a, <2>4, <3>2, LocalsTraced
    <3>3. QED
      BY <3>1, <3>2
  <2>8. ASSUME u.nextFrame = <<>> PROVE v # PushParams(u, c)
    <3>1. PushParams(u, c) = [callStack |-> u.callStack, nextFrame |-> u.nextFrame \o c]
      BY <2>a, ParamsTraced
    <3>2. <<>> \o c = c
      BY ConcatEmptySeq
    <3>3. QED
      BY <2>a, <2>4, <2>8, <3>1, <3>2
  <2>9. QED
    BY <2>4, <2>6, <2>7, <2>8 DEF Allocates, u, v, q
<1>12. QED
  BY <1>4, <1>5, <1>7, <1>8, <1>10, <1>11, <1>1

LEMMA HistoryNow ==
  ASSUME NEW hist, NEW gs \in Seq(Group), NEW t, NEW p, History(hist, gs, t, p)
  PROVE  t \in Trace /\ p \in Int /\ [trace |-> t, sp |-> p] \in Snapshot
         /\ Above([trace |-> t, sp |-> p])
<1>1. Len(hist) \in 1..Len(hist) /\ hist \in Seq(Snapshot)
  <2>1. Len(gs) \in Nat
    BY LenProperties
  <2>2. QED
    BY <2>1 DEF History
<1>2. hist[Len(hist)] \in Snapshot /\ Above(hist[Len(hist)])
  BY <1>1, ElementOfSeq DEF History
<1>3. hist[Len(hist)] = [trace |-> t, sp |-> p]
  BY DEF History
<1>4. [trace |-> t, sp |-> p] \in Snapshot /\ Above([trace |-> t, sp |-> p])
  BY <1>2, <1>3
<1>5. QED
  BY <1>4 DEF Snapshot

\* Unless the latest group is one of parameters, none wait in the next frame.
LEMMA NextFrameIsEmpty ==
  ASSUME NEW hist, NEW gs \in Seq(Group), NEW t, NEW p, History(hist, gs, t, p),
         gs # <<>> => Last(gs).kind # "params"
  PROVE  t.nextFrame = <<>>
<1>1. CASE gs = <<>>
  <2>1. Len(hist) = 1 /\ hist[Len(hist)] = [trace |-> t, sp |-> p] /\ Bottom(hist[1].trace)
    <3>1. Len(<<>>) + 1 = 1
      OBVIOUS
    <3>2. QED
      BY <1>1, <3>1 DEF History
  <2>2. Bottom(t)
    BY <2>1
  <2>3. QED
    BY <2>2 DEF Bottom
<1>2. CASE gs # <<>>
  <2>1. PICK r \in Seq(Group), g \in Group : gs = Append(r, g)
    BY <1>2, SequenceEmptyOrAppend
  <2>2. g.kind # "params"
    <3>1. Last(gs) = g
      BY <2>1, FrontAndLast
    <3>2. QED
      BY <1>2, <3>1
  <2>3. History(hist, Append(r, g), t, p)
    BY <2>1
  <2>4. PICK a \in Snapshot : Allocated(a, [trace |-> t, sp |-> p], g)
    BY <2>3, HistoryShrinks
  <2>5. PICK c \in Seq(Cell) : c # <<>> /\ Allocates(a, [trace |-> t, sp |-> p], g, c)
    BY <2>4 DEF Allocated
  <2>6. t \in Trace /\ p \in Int
    BY HistoryNow
  <2> DEFINE u == a.trace
  <2>7. u \in Trace
    BY DEF Snapshot
  <2>8. \/ t = Call(u, p)
        \/ u.nextFrame = <<>> /\ t = PushLocals(u, c)
    BY <2>2, <2>5 DEF Allocates
  <2> HIDE DEF u
  <2>9. CASE t = Call(u, p)
    <3>1. Call(u, p).nextFrame = <<>>
      BY DEF Call
    <3>2. QED
      BY <2>9, <3>1
  <2>10. CASE u.nextFrame = <<>> /\ t = PushLocals(u, c)
    <3>1. CASE u.callStack = <<>>
      <4>1. PushLocals(u, c) = [callStack |-> <<c>>, nextFrame |-> u.nextFrame]
        BY <2>5, <2>7, <3>1, FirstLocalsTraced
      <4>2. PushLocals(u, c).nextFrame = u.nextFrame
        BY <4>1
      <4>3. QED
        BY <2>10, <4>2
    <3>2. CASE u.callStack # <<>>
      BY <2>5, <2>7, <2>10, <3>2, LocalsTraced
    <3>3. QED
      BY <3>1, <3>2
  <2>11. QED
    BY <2>8, <2>9, <2>10
<1>3. QED
  BY <1>1, <1>2

\* An allocation that is traced keeps the history.
LEMMA GroupAdded ==
  ASSUME NEW hist, NEW gs \in Seq(Group), NEW t, NEW p, History(hist, gs, t, p),
         NEW g \in Group, NEW c \in Seq(Cell), c # <<>>, NEW u \in Trace, NEW q \in Int,
         Allocates([trace |-> t, sp |-> p], [trace |-> u, sp |-> q], g, c)
  PROVE  /\ \E h : History(h, Append(gs, g), u, q)
         /\ CellsOf(u) = CellsOf(t) \cup ToSet(c)
<1> DEFINE a == [trace |-> t, sp |-> p]
           b == [trace |-> u, sp |-> q]
<1>1. a \in Snapshot /\ Above(a) /\ b \in Snapshot
  BY HistoryNow DEF Snapshot
<1>2. Allocates(a, b, g, c)
  OBVIOUS
<1>3. a.trace = t /\ b.trace = u /\ b.sp = q
  OBVIOUS
<1> HIDE DEF b
<1>4. CellsOf(b.trace) = CellsOf(a.trace) \cup ToSet(c) /\ Above(b)
  <2> HIDE DEF a
  <2>1. QED
    BY <1>1, <1>2, AllocatedAdds
<1>5. Allocated([trace |-> t, sp |-> p], b, g)
  BY <1>2 DEF Allocated
<1>6. History(Append(hist, b), Append(gs, g), b.trace, b.sp)
  BY <1>1, <1>4, <1>5, HistoryGrows
<1>7. QED
  BY <1>3, <1>4, <1>6

\* The trace and the stack pointer from before group g, and the cells it added.
Precedes(u, q, c, gs, g, t, p) ==
    /\ c # <<>> /\ Bytes(c) = g.bytes /\ p = q - g.bytes
    /\ CellsOf(u) = {x \in CellsOf(t) : x.addr >= q}
    /\ \E h : History(h, gs, u, q)
    /\ \/ g.kind = "call" /\ t = Call(u, p)
       \/ /\ g.kind = "locals" /\ u.nextFrame = <<>> /\ t = PushLocals(u, c)
          /\ u.callStack = <<>> => gs = <<>>
       \/ g.kind = "params" /\ u.nextFrame = <<>> /\ t = PushParams(u, c)

\* To undo a group is to go back to the trace and the stack pointer from
\* before it, and leaves the cells at or above that stack pointer.
LEMMA GroupRemoved ==
  ASSUME NEW hist, NEW gs \in Seq(Group), NEW g \in Group, NEW t, NEW p,
         History(hist, Append(gs, g), t, p)
  PROVE  \E u \in Trace, q \in Int, c \in Seq(Cell) : Precedes(u, q, c, gs, g, t, p)
<1>1. PICK a \in Snapshot :
         /\ Allocated(a, [trace |-> t, sp |-> p], g)
         /\ Above(a)
         /\ History(Front(hist), gs, a.trace, a.sp)
         /\ a.trace.nextFrame = <<>> /\ a.trace.callStack = <<>> => gs = <<>>
  BY HistoryShrinks
<1> DEFINE b == [trace |-> t, sp |-> p]
           u == a.trace
           q == a.sp
<1>2. PICK c \in Seq(Cell) : c # <<>> /\ Allocates(a, b, g, c)
  BY <1>1 DEF Allocated
<1>3. Append(gs, g) \in Seq(Group)
  BY AppendProperties
<1>4. b \in Snapshot /\ b.trace = t /\ b.sp = p
  BY <1>3, HistoryNow
<1>5. u \in Trace /\ q \in Int
  BY DEF Snapshot
<1> HIDE DEF b
<1>6. CellsOf(u) = {x \in CellsOf(t) : x.addr >= q}
  BY <1>1, <1>2, <1>4, AllocatedAdds
<1>7. Bytes(c) = g.bytes /\ p = q - g.bytes
  BY <1>2, <1>4 DEF Allocates
<1>8. \/ g.kind = "call" /\ t = Call(u, p)
      \/ g.kind = "locals" /\ u.nextFrame = <<>> /\ t = PushLocals(u, c)
      \/ g.kind = "params" /\ u.nextFrame = <<>> /\ t = PushParams(u, c)
  BY <1>2, <1>4 DEF Allocates
<1>9. \E h : History(h, gs, u, q)
  BY <1>1
<1>10. u.nextFrame = <<>> /\ u.callStack = <<>> => gs = <<>>
  BY <1>1
<1> HIDE DEF u, q
<1>11. Precedes(u, q, c, gs, g, t, p)
  BY <1>2, <1>6, <1>7, <1>8, <1>9, <1>10 DEF Precedes
<1>12. QED
  BY <1>5, <1>11

\* A history of nothing.
LEMMA NothingOutstanding ==
  ASSUME NEW t \in Trace, NEW p \in Int, Bottom(t)
  PROVE  History(<< [trace |-> t, sp |-> p] >>, <<>>, t, p) /\ CellsOf(t) = {}
<1> DEFINE a == [trace |-> t, sp |-> p]
<1>1. a \in Snapshot /\ a.trace = t
  BY DEF Snapshot
<1>2. CellsOf(t) = {}
  <2>1. ToSet(<<>>) = {}
    BY DEF ToSet
  <2>2. DOMAIN <<>> = {} /\ DOMAIN << <<>> >> = {1} /\ << <<>> >>[1] = <<>>
    OBVIOUS
  <2>3. CASE t.callStack = <<>>
    BY <2>1, <2>2, <2>3 DEF Bottom, CellsOf
  <2>4. CASE t.callStack = << <<>> >>
    <3>1. {ToSet(t.callStack[i]) : i \in DOMAIN t.callStack} = {{}}
      BY <2>1, <2>2, <2>4
    <3>2. QED
      BY <2>1, <3>1 DEF Bottom, CellsOf
  <2>5. QED
    BY <2>3, <2>4 DEF Bottom
<1>3. Above(a)
  BY <1>1, <1>2 DEF Above
<1> HIDE DEF a
<1>4. <<a>> \in Seq(Snapshot) /\ Len(<<a>>) = 1 /\ <<a>>[1] = a /\ Len(<<>>) = 0
  BY <1>1
<1>5. QED
  BY <1>1, <1>2, <1>3, <1>4 DEF History, a

-----------------------------------------------------------------------------
(* The steps.                                                              *)

LEMMA Start ==
  /\ \E h : History(h, <<>>, EmptyTrace, 0)
  /\ CellsOf(EmptyTrace) = {}
  /\ <<>> \in Seq(Group) /\ Kinds(<<>>) = <<>>
<1>1. EmptyTrace \in Trace /\ Bottom(EmptyTrace) /\ 0 \in Int
  <2>1. EmptyTrace.callStack = <<>> /\ EmptyTrace.nextFrame = <<>>
    BY DEF EmptyTrace
  <2>2. EmptyTrace \in Trace
    BY DEF EmptyTrace, Trace
  <2>3. QED
    BY <2>1, <2>2 DEF Bottom
<1>2. (\E h : History(h, <<>>, EmptyTrace, 0)) /\ CellsOf(EmptyTrace) = {}
  BY <1>1, NothingOutstanding
<1>3. <<>> \in Seq(Group) /\ Kinds(<<>>) = <<>>
  BY DEF Kinds
<1>4. QED
  BY <1>2, <1>3

LEMMA CallStep == ASSUME IInv, CallInstr PROVE IInv'
<1> DEFINE g == [kind |-> "call", bytes |-> 2]
           q == sp - 2
           ra == ReturnAddress(q)
           c == <<ra>>
           u == Call(trace, q)
<1>1. Matches
  BY DEF IInv, CallInstr, Followed
<1>2. PICK h : History(h, groups, trace, sp)
  BY <1>1 DEF Matches
<1>3. groups \in Seq(Group) /\ trace \in Trace /\ sp \in Int
  BY <1>1, <1>2, HistoryNow DEF Matches
<1>4. g \in Group /\ g.kind = "call" /\ g.bytes = 2
  BY DEF Group, Action
<1>5. q \in Int
  BY <1>3
<1>6. ra \in Cell /\ c \in Seq(Cell) /\ c # <<>> /\ DOMAIN c = {1} /\ c[1] = ra /\ ra.addr = q
  <2>1. ra \in Cell /\ ra.addr = q
    BY <1>5, AddressIsCell DEF ReturnAddress
  <2> HIDE DEF ra
  <2>2. QED
    BY <2>1
<1>7. u \in Trace
  BY <1>3, <1>5, CallTraced
<1>8. Bytes(c) = 2
  BY <1>5, AddressBytes
<1>9. ToSet(c) = {ra}
  BY <1>6 DEF ToSet
<1>10. Allocates([trace |-> trace, sp |-> sp], [trace |-> u, sp |-> q], g, c)
  <2> HIDE DEF u, g
  <2>1. Bytes(c) = g.bytes /\ q = sp - g.bytes
    BY <1>4, <1>8
  <2>2. \A i \in DOMAIN c : q =< c[i].addr /\ c[i].addr < sp
    BY <1>3, <1>5, <1>6
  <2>3. g.kind = "call" /\ c = <<ReturnAddress(q)>> /\ u = Call(trace, q)
    BY <1>4 DEF u
  <2> HIDE DEF c, q
  <2>4. QED
    BY <2>1, <2>2, <2>3 DEF Allocates
<1>11. /\ trace' = u /\ actions' = Append(actions, "call") /\ sp' = q
       /\ cells' = cells \cup ToSet(c) /\ groups' = Append(groups, g)
       /\ stackIntact' = stackIntact /\ undefined' = undefined
  BY DEF CallInstr, Grow
<1> HIDE DEF g, q, c, u
<1>12. (\E k : History(k, Append(groups, g), u, q)) /\ CellsOf(u) = CellsOf(trace) \cup ToSet(c)
  BY <1>2, <1>3, <1>4, <1>5, <1>6, <1>7, <1>10, GroupAdded
<1>13. Append(groups, g) \in Seq(Group) /\ Kinds(Append(groups, g)) = Append(Kinds(groups), "call")
  BY <1>3, <1>4, KindsAppend, AppendProperties
<1>14. Matches'
  BY <1>1, <1>11, <1>12, <1>13 DEF Matches
<1>15. QED
  BY <1>14 DEF IInv

LEMMA InstructionOperands ==
  \A tags \in TagLists, operand \in Operands : tags \in Seq({1, 2}) /\ operand \in Nat
BY TracingAssumption

\* Without tags, with tags that do not add up, or after parameters that no
\* call has taken, the program is not disciplined any more.
LEMMA SubSpStep ==
  ASSUME IInv, NEW tags \in TagLists, NEW operand \in Operands, SubSp(tags, operand)
  PROVE  IInv'
<1> SUFFICES ASSUME tagged', disciplined' PROVE Matches'
  BY DEF IInv
<1>1. Matches /\ tags # <<>> /\ Total(tags) = operand /\ (groups # <<>> => Last(groups).kind # "params")
  BY DEF IInv, SubSp, Followed
<1>2. PICK h : History(h, groups, trace, sp)
  BY <1>1 DEF Matches
<1>3. groups \in Seq(Group) /\ trace \in Trace /\ sp \in Int
  BY <1>1, <1>2, HistoryNow DEF Matches
<1> DEFINE kind == IF firstLineAfterCall THEN "locals" ELSE "params"
           g == [kind |-> kind, bytes |-> operand]
           q == sp - operand
           c == CellsBelow(sp, tags)
           u == IF kind = "locals" THEN PushLocals(trace, c) ELSE PushParams(trace, c)
<1>4. tags \in Seq({1, 2}) /\ operand \in Nat
  BY InstructionOperands
<1>5. trace.nextFrame = <<>>
  BY <1>1, <1>2, <1>3, NextFrameIsEmpty
<1>6. kind \in {"locals", "params"}
  OBVIOUS
<1>7. /\ trace' = u /\ actions' = Append(actions, kind) /\ sp' = q
      /\ cells' = cells \cup ToSet(c) /\ groups' = Append(groups, g)
      /\ stackIntact' = stackIntact /\ undefined' = undefined
  <2> HIDE DEF kind, c
  <2>1. QED
    BY <1>1, <1>6 DEF SubSp, Grow, kind, c
<1> HIDE DEF kind, c
<1>8. c \in Seq(Cell) /\ c # <<>> /\ Bytes(c) = operand
      /\ \A i \in DOMAIN c : sp - operand =< c[i].addr /\ c[i].addr < sp
  BY <1>1, <1>3, <1>4, CellsOfTags DEF c
<1>9. g \in Group /\ g.kind = kind /\ g.bytes = operand
  BY <1>4, <1>6 DEF Group, Action
<1>10. q \in Int
  BY <1>3, <1>4
<1>11. u \in Trace
  <2>1. PushParams(trace, c) \in Trace
    BY <1>3, <1>8, ParamsTraced
  <2>2. PushLocals(trace, c) \in Trace
    <3>1. CASE trace.callStack = <<>>
      BY <1>3, <1>8, <3>1, FirstLocalsTraced
    <3>2. CASE trace.callStack # <<>>
      BY <1>3, <1>8, <3>2, LocalsTraced
    <3>3. QED
      BY <3>1, <3>2
  <2>3. QED
    BY <2>1, <2>2
<1>12. Allocates([trace |-> trace, sp |-> sp], [trace |-> u, sp |-> q], g, c)
  <2>1. \/ g.kind = "locals" /\ trace.nextFrame = <<>> /\ u = PushLocals(trace, c)
        \/ g.kind = "params" /\ trace.nextFrame = <<>> /\ u = PushParams(trace, c)
    BY <1>5, <1>6, <1>9
  <2>2. \A i \in DOMAIN c : q =< c[i].addr /\ c[i].addr < sp
    BY <1>8
  <2>3. Bytes(c) = g.bytes /\ q = sp - g.bytes
    BY <1>8, <1>9
  <2> HIDE DEF u, g, q
  <2>4. QED
    BY <2>1, <2>2, <2>3 DEF Allocates
<1> HIDE DEF u, g, q
<1>13. (\E k : History(k, Append(groups, g), u, q)) /\ CellsOf(u) = CellsOf(trace) \cup ToSet(c)
  BY <1>2, <1>3, <1>8, <1>9, <1>10, <1>11, <1>12, GroupAdded
<1>14. Append(groups, g) \in Seq(Group) /\ Kinds(Append(groups, g)) = Append(Kinds(groups), kind)
  BY <1>3, <1>9, KindsAppend, AppendProperties
<1>15. QED
  BY <1>1, <1>7, <1>13, <1>14 DEF Matches

\* A return undoes the latest call, or the program is not disciplined any more.
LEMMA RetStep == ASSUME IInv, RetInstr PROVE IInv'
<1> SUFFICES ASSUME tagged', disciplined' PROVE Matches'
  BY DEF IInv
<1>1. Matches /\ groups # <<>> /\ Last(groups).kind \in {"call"} /\ Last(groups).bytes = 2
      /\ sp' = sp + 2 /\ cells' = {x \in cells : x.addr >= sp'} /\ groups' = Front(groups)
      /\ undefined' = undefined
  BY DEF IInv, RetInstr, Followed, Shrink
<1>2. PICK gs \in Seq(Group), g \in Group : groups = Append(gs, g)
  BY <1>1, SequenceEmptyOrAppend DEF Matches
<1>3. Front(groups) = gs /\ Last(groups) = g
  BY <1>2, FrontAndLast
<1>4. actions # <<>> /\ Front(actions) = Kinds(gs) /\ Last(actions) = "call"
  BY <1>1, <1>2, <1>3, KindsAppend DEF Matches
<1>5. PICK h : History(h, Append(gs, g), trace, sp)
  BY <1>1, <1>2 DEF Matches
<1>6. PICK u \in Trace, q \in Int, c \in Seq(Cell) : Precedes(u, q, c, gs, g, trace, sp)
  BY <1>5, GroupRemoved
<1>7. g.kind = "call" /\ g.bytes = 2
  BY <1>1, <1>3
<1>8. sp \in Int
  BY <1>1, <1>2, <1>5, HistoryNow DEF Matches
<1>9. sp' = q
  BY <1>1, <1>6, <1>7, <1>8 DEF Precedes
<1>10. Ret(trace) = [trace |-> u, ok |-> TRUE]
  BY <1>6, <1>7, <1>8, CallTraced DEF Precedes
<1>11. trace' = u /\ stackIntact' = TRUE /\ actions' = Front(actions)
  <2> DEFINE r == Ret(trace)
  <2>1. r.trace = u /\ r.ok = TRUE
    BY <1>10
  <2> HIDE DEF r
  <2>2. trace' = r.trace /\ stackIntact' = r.ok /\ actions' = Front(actions)
    BY <1>4 DEF RetInstr, r
  <2>3. QED
    BY <2>1, <2>2
<1>12. cells' = CellsOf(u)
  BY <1>1, <1>6, <1>9 DEF Matches, Precedes
<1>13. QED
  BY <1>1, <1>3, <1>4, <1>6, <1>9, <1>11, <1>12 DEF Matches, Precedes

\* An ADDSP undoes the latest allocation, or the program is not disciplined
\* any more.
LEMMA AddSpStep ==
  ASSUME IInv, NEW tags \in TagLists, NEW operand \in Operands, AddSp(tags, operand)
  PROVE  IInv'
<1> SUFFICES ASSUME tagged', disciplined' PROVE Matches'
  BY DEF IInv
<1>1. Matches /\ tags # <<>> /\ Total(tags) = operand
      /\ groups # <<>> /\ Last(groups).kind \in {"locals", "params"} /\ Last(groups).bytes = operand
      /\ sp' = sp + operand /\ cells' = {x \in cells : x.addr >= sp'} /\ groups' = Front(groups)
  BY DEF IInv, AddSp, Followed, Shrink
<1>2. PICK gs \in Seq(Group), g \in Group : groups = Append(gs, g)
  BY <1>1, SequenceEmptyOrAppend DEF Matches
<1>3. Front(groups) = gs /\ Last(groups) = g /\ g.bytes = operand
  BY <1>1, <1>2, FrontAndLast
<1>4. actions # <<>> /\ Front(actions) = Kinds(gs) /\ Last(actions) = g.kind /\ Kinds(gs) \in Seq(Action)
  BY <1>1, <1>2, KindsAppend DEF Matches
<1>5. PICK h : History(h, Append(gs, g), trace, sp)
  BY <1>1, <1>2 DEF Matches
<1>6. PICK u \in Trace, q \in Int, c \in Seq(Cell) : Precedes(u, q, c, gs, g, trace, sp)
  BY <1>5, GroupRemoved
<1>7. sp \in Int /\ trace \in Trace /\ operand \in Nat
  BY <1>1, <1>2, <1>5, HistoryNow, InstructionOperands DEF Matches
<1>8. sp' = q /\ c # <<>> /\ Bytes(c) = operand
  BY <1>1, <1>3, <1>6, <1>7 DEF Precedes
<1>9. cells' = CellsOf(u)
  BY <1>1, <1>6, <1>8 DEF Matches, Precedes
<1>10. \E k : History(k, gs, u, q)
  BY <1>6 DEF Precedes
<1>11. groups' = gs
  BY <1>1, <1>3
<1>12. CASE g.kind = "locals"
  <2>1. u.nextFrame = <<>> /\ trace = PushLocals(u, c) /\ (u.callStack = <<>> => gs = <<>>)
    BY <1>6, <1>12 DEF Precedes
  <2> DEFINE r == PopLocals(trace, operand)
  <2>2. trace' = r.trace /\ stackIntact' = r.ok /\ actions' = Front(actions) /\ undefined' = undefined
    BY <1>1, <1>4, <1>12 DEF AddSp
  <2>3. r = PopLocals(PushLocals(u, c), Bytes(c))
    BY <1>8, <2>1
  <2> HIDE DEF r
  <2>4. CASE u.callStack = <<>>
    <3> DEFINE v == [callStack |-> << <<>> >>, nextFrame |-> <<>>]
    <3>1. r.ok = TRUE /\ r.trace = v
      BY <1>8, <2>1, <2>3, <2>4, FirstLocalsTraced
    <3>2. v \in Trace /\ Bottom(v) /\ Bottom(u)
      <4>1. v \in Trace
        BY DEF Trace
      <4>2. QED
        BY <2>1, <2>4, <4>1 DEF Bottom
    <3> HIDE DEF v
    <3>3. gs = <<>>
      BY <2>1, <2>4
    <3>4. (\E k : History(k, gs, v, q)) /\ CellsOf(v) = CellsOf(u)
      BY <3>2, <3>3, NothingOutstanding
    <3>5. QED
      BY <1>1, <1>4, <1>8, <1>9, <1>11, <2>2, <3>1, <3>4 DEF Matches
  <2>5. CASE u.callStack # <<>>
    <3>1. r.ok = TRUE /\ r.trace = u
      BY <1>8, <2>3, <2>5, LocalsTraced
    <3>2. QED
      BY <1>1, <1>4, <1>8, <1>9, <1>10, <1>11, <2>2, <3>1 DEF Matches
  <2>6. QED
    BY <2>4, <2>5
<1>13. CASE g.kind = "params"
  <2>1. u.nextFrame = <<>> /\ trace = PushParams(u, c)
    BY <1>6, <1>13 DEF Precedes
  <2>2. trace = [callStack |-> u.callStack, nextFrame |-> c]
    <3>1. PushParams(u, c) = [callStack |-> u.callStack, nextFrame |-> u.nextFrame \o c]
      BY ParamsTraced
    <3>2. <<>> \o c = c
      BY ConcatEmptySeq
    <3>3. QED
      BY <2>1, <3>1, <3>2
  <2>3. trace.nextFrame = c /\ trace.callStack = u.callStack
    BY <2>2
  <2>4. u = [callStack |-> trace.callStack, nextFrame |-> <<>>]
    BY <2>1, <2>3, TraceParts
  <2> DEFINE acts == Front(actions)
             all == PopFrames(trace, acts, operand)
  <2>5. acts \in Seq(Action)
    BY <1>4
  <2>6. TopOfStack(trace) = c
    BY <1>7, <1>8, <2>3, <2>5, ParamsUndone
  <2>7. all = [trace |-> u, size |-> 0, success |-> TRUE, actions |-> acts, undefined |-> FALSE]
    <3>1. PopFrames(trace, acts, Bytes(trace.nextFrame)) =
              [trace |-> [callStack |-> trace.callStack, nextFrame |-> <<>>], size |-> 0,
               success |-> TRUE, actions |-> acts, undefined |-> FALSE]
      BY <1>7, <1>8, <2>3, <2>5, ParamsUndone
    <3>2. QED
      BY <1>8, <2>3, <2>4, <3>1
  <2>8. AddSpParams(acts, operand)
    BY <1>1, <1>4, <1>13 DEF AddSp
  <2> HIDE DEF all, acts
  <2>9. all.trace = u /\ all.success = TRUE /\ all.actions = acts /\ all.undefined = FALSE
    BY <2>7
  <2>10. ~(Bytes(TopOfStack(trace)) > operand) /\ Bytes(TopOfStack(trace)) =< operand
    BY <1>7, <1>8, <2>6
  <2>11. trace' = all.trace /\ actions' = all.actions /\ undefined' = all.undefined /\ stackIntact' = all.success
    BY <2>8, <2>10 DEF AddSpParams, all
  <2>12. actions' = Kinds(gs)
    BY <1>4, <2>9, <2>11 DEF acts
  <2>13. QED
    BY <1>8, <1>9, <1>10, <1>11, <2>9, <2>11, <2>12 DEF Matches
<1>14. QED
  BY <1>1, <1>3, <1>12, <1>13

LEMMA NextStep == ASSUME IInv, [Next]_vars PROVE IInv'
<1>1. CASE CallInstr
  BY <1>1, CallStep
<1>2. CASE RetInstr
  BY <1>2, RetStep
<1>3. ASSUME NEW tags \in TagLists, NEW operand \in Operands, SubSp(tags, operand) PROVE IInv'
  BY <1>3, SubSpStep
<1>4. ASSUME NEW tags \in TagLists, NEW operand \in Operands, AddSp(tags, operand) PROVE IInv'
  BY <1>4, AddSpStep
<1>5. CASE Branch
  BY <1>5 DEF Branch, IInv, Matches, machineVars, history
<1>6. CASE Other
  BY <1>6 DEF Other, IInv, Matches, machineVars, history
<1>7. CASE Reset
  <2>1. /\ trace' = EmptyTrace /\ sp' = 0 /\ groups' = <<>> /\ actions' = <<>> /\ cells' = {}
        /\ stackIntact' = TRUE /\ undefined' = FALSE
    BY <1>7 DEF Reset
  <2>2. Matches'
    BY <2>1, Start DEF Matches
  <2>3. QED
    BY <2>2 DEF IInv
<1>8. CASE UNCHANGED vars
  BY <1>8 DEF vars, traceVars, machineVars, history, IInv, Matches
<1>9. QED
  BY <1>1, <1>2, <1>3, <1>4, <1>5, <1>6, <1>7, <1>8 DEF Next

LEMMA InvariantHolds == Spec => []IInv
<1>1. Init => IInv
  BY Start DEF Init, IInv, Matches
<1>2. QED
  BY <1>1, NextStep, PTL DEF Spec

-----------------------------------------------------------------------------

\* A program whose SUBSP and ADDSP carry trace tags and which undoes its calls
\* and allocations in their order, each with one instruction, is never told
\* by InterfaceISACPU that its stack is not intact, and nothing is ever taken
\* from an action stack that is empty.
THEOREM DisciplineSuffices == Spec => []DisciplinedIsIntact
<1>1. IInv => DisciplinedIsIntact
  BY DEF IInv, Matches, DisciplinedIsIntact, Tracing
<1>2. QED
  BY <1>1, InvariantHolds, PTL

\* After any number of calls, allocations and their undoing, in a program that
\* is disciplined, the frames that calculateStackChangeEnd keeps hold the cells
\* that are on the machine's stack, at their addresses, and no others.
THEOREM TraceIsTheStack == Spec => []DisciplinedTraceMatches
<1>1. IInv => DisciplinedTraceMatches
  BY DEF IInv, Matches, DisciplinedTraceMatches, TracedCells, CellsOf
<1>2. QED
  BY <1>1, InvariantHolds, PTL

=============================================================================
