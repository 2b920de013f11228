--------------------------- MODULE ReadBackProofs ---------------------------
(***************************************************************************)
(* Proofs about what is stored and read back.  HistoryReader: which lines  *)
(* of the file a client is given, for every kind of record, every length   *)
(* of a line, every size of a page and any number of reads.  Timestamps:   *)
(* which timestamps are read and what is written for them, for every one   *)
(* its digits can spell.                                                   *)
(***************************************************************************)
EXTENDS HistoryReader, Timestamps, SequenceTheorems, WellFoundedInduction, TLAPS

-----------------------------------------------------------------------------
(* Induction and recursion.                                                *)

LEMMA LeastNatural ==
  ASSUME NEW T \in SUBSET Nat, T # {}
  PROVE  \E x \in T : \A y \in T : x <= y
<1>1. IsWellFoundedOn(OpToRel(<, Nat), Nat)
  BY NatLessThanWellFounded
<1>2. PICK x \in T : \A y \in T : ~(<<y, x>> \in OpToRel(<, Nat))
  BY <1>1, WFMin
<1>3. \A y \in T : ~(y < x)
  BY <1>2 DEF OpToRel
<1> QED  BY <1>3

(* A set that holds 0, and with a number below n the next one, holds them  *)
(* all up to n.                                                            *)
LEMMA UpTo ==
  ASSUME NEW n \in Nat, NEW T, 0 \in T,
         \A i \in 0 .. n : i < n /\ i \in T => i + 1 \in T
  PROVE  \A i \in 0 .. n : i \in T
<1> DEFINE bad == {i \in Nat : i <= n /\ i \notin T}
<1>1. SUFFICES ASSUME bad # {} PROVE FALSE
  <2>1. \A i \in 0 .. n : i \in Nat /\ i <= n
    OBVIOUS
  <2> QED  BY <2>1
<1>2. bad \in SUBSET Nat
  OBVIOUS
<1>3. PICK m \in bad : \A y \in bad : m <= y
  BY <1>1, <1>2, LeastNatural
<1>4. m \in Nat /\ m <= n /\ m \notin T
  BY <1>3
<1>5. m # 0
  BY <1>4
<1>6. m - 1 \in 0 .. n /\ m - 1 < n /\ m - 1 \in Nat /\ m - 1 <= n /\ ~(m <= m - 1)
  BY <1>4, <1>5
<1>7. m - 1 \in T
  BY <1>3, <1>6
<1>8. (m - 1) + 1 = m
  BY <1>4
<1>9. (m - 1) + 1 \in T
  BY <1>6, <1>7
<1> QED  BY <1>4, <1>8, <1>9

(* What a step makes of a value, n times in a row, is a function.          *)
Iterates(f, m, a, step) == f[0] = a /\ \A i \in 1 .. m : f[i] = step[i][f[i - 1]]
LEMMA IteratesExists ==
  ASSUME NEW n \in Nat, NEW S, NEW a \in S, NEW step \in [1 .. n -> [S -> S]]
  PROVE  \E f \in [0 .. n -> S] : Iterates(f, n, a, step)
<1> DEFINE T == {m \in 0 .. n : \E f \in [0 .. m -> S] : Iterates(f, m, a, step)}
<1>1. 0 \in T
  <2> DEFINE f0 == [i \in 0 .. 0 |-> a]
  <2>1. f0 \in [0 .. 0 -> S] /\ f0[0] = a
    OBVIOUS
  <2>2. \A i \in 1 .. 0 : FALSE
    OBVIOUS
  <2>3. Iterates(f0, 0, a, step)
    BY <2>1, <2>2 DEF Iterates
  <2> QED  BY <2>1, <2>3
<1>2. ASSUME NEW m \in 0 .. n, m < n, m \in T PROVE m + 1 \in T
  <2>1. PICK f \in [0 .. m -> S] : Iterates(f, m, a, step)
    BY <1>2
  <2> DEFINE b == step[m + 1][f[m]]
             g == [i \in 0 .. m + 1 |-> IF i = m + 1 THEN b ELSE f[i]]
  <2>2. b \in S
    <3>1. m + 1 \in 1 .. n /\ m \in 0 .. m
      BY <1>2
    <3> QED  BY <3>1
  <2> HIDE DEF b
  <2>3. \A i \in 0 .. m + 1 : i # m + 1 => i \in 0 .. m
    OBVIOUS
  <2>4. g \in [0 .. m + 1 -> S]
    BY <2>2, <2>3
  <2>5. g[0] = a
    BY <2>1 DEF Iterates
  <2>6. ASSUME NEW i \in 1 .. m + 1 PROVE g[i] = step[i][g[i - 1]]
    <3>1. i - 1 \in 0 .. m + 1 /\ i - 1 # m + 1 /\ g[i - 1] = f[i - 1]
      OBVIOUS
    <3>2. CASE i = m + 1
      <4>1. g[i] = b /\ i - 1 = m
        BY <3>2
      <4> QED  BY <3>1, <3>2, <4>1 DEF b
    <3>3. CASE i # m + 1
      <4>1. i \in 1 .. m /\ g[i] = f[i]
        BY <3>3
      <4> QED  BY <2>1, <3>1, <4>1 DEF Iterates
    <3> QED  BY <3>2, <3>3
  <2>7. Iterates(g, m + 1, a, step)
    BY <2>5, <2>6 DEF Iterates
  <2>8. m + 1 \in 0 .. n
    BY <1>2
  <2> QED  BY <2>4, <2>7, <2>8
<1>3. \A i \in 0 .. n : i \in T
  <2> HIDE DEF T
  <2> QED  BY <1>1, <1>2, UpTo
<1> QED  BY <1>3

-----------------------------------------------------------------------------
(* Sequences.                                                              *)

LEMMA AppendFacts ==
  ASSUME NEW S, NEW s \in Seq(S), NEW x \in S
  PROVE  /\ Append(s, x) \in Seq(S) /\ Len(Append(s, x)) = Len(s) + 1
         /\ Append(s, x)[Len(s) + 1] = x /\ Len(s) \in Nat
         /\ \A k \in 1 .. Len(s) : Append(s, x)[k] = s[k]
OBVIOUS

LEMMA SeqIsFunction ==
  ASSUME NEW S, NEW s \in Seq(S), NEW n, n = Len(s)
  PROVE  s = [i \in 1 .. n |-> s[i]]
<1>1. s \in [1 .. n -> S]
  BY LenProperties
<1> QED  BY <1>1

LEMMA ConcatFacts ==
  ASSUME NEW S, NEW s \in Seq(S), NEW t \in Seq(S)
  PROVE  /\ s \o t \in Seq(S) /\ Len(s \o t) = Len(s) + Len(t)
         /\ Len(s) \in Nat /\ Len(t) \in Nat
         /\ \A k \in 1 .. Len(s) : (s \o t)[k] = s[k]
         /\ \A i \in 1 .. Len(t) : (s \o t)[Len(s) + i] = t[i]
<1>1. PICK m \in Nat, n \in Nat, q \in Seq(S) : m = Len(s) /\ n = Len(t) /\ q = s \o t
  <2>1. Len(s) \in Nat /\ Len(t) \in Nat
    BY LenProperties
  <2>2. s \o t \in Seq(S)
    BY ConcatProperties
  <2> QED  BY <2>1, <2>2, Zenon
<1>2. /\ q \in Seq(S) /\ Len(q) = m + n
      /\ \A i \in 1 .. m + n : q[i] = IF i <= m THEN s[i] ELSE t[i - m]
  BY <1>1, ConcatProperties, Zenon
<1>3. \A k \in 1 .. m : k \in 1 .. m + n /\ k <= m
  OBVIOUS
<1>4. \A k \in 1 .. m : q[k] = s[k]
  BY <1>2, <1>3, Zenon
<1>5. \A i \in 1 .. n : m + i \in 1 .. m + n /\ ~(m + i <= m) /\ (m + i) - m = i
  OBVIOUS
<1>6. \A i \in 1 .. n : q[m + i] = t[i]
  BY <1>2, <1>5
<1> QED  BY <1>1, <1>2, <1>4, <1>6, Zenon

(* FlattenSeq joins sequences one after the other.                         *)
Joins(f, ss) == f = [i \in 1 .. Len(ss) |-> IF i = 1 THEN ss[i] ELSE f[i - 1] \o ss[i]]
LEMMA FlattenJoins ==
  ASSUME NEW S, NEW ss \in Seq(Seq(S)), Len(ss) # 0
  PROVE  \E f \in [1 .. Len(ss) -> Seq(S)] : Joins(f, ss) /\ FlattenSeq(ss) = f[Len(ss)]
<1>1. PICK n \in Nat : n = Len(ss)
  BY LenProperties
<1>2. \A i \in 1 .. n : ss[i] \in Seq(S)
  BY <1>1
<1> DEFINE step == [i \in 1 .. n |-> [x \in Seq(S) |-> x \o ss[i]]]
<1>3. step \in [1 .. n -> [Seq(S) -> Seq(S)]]
  BY <1>2, ConcatProperties
<1>4. <<>> \in Seq(S)
  OBVIOUS
<1>5. PICK f \in [0 .. n -> Seq(S)] : Iterates(f, n, <<>>, step)
  <2> HIDE DEF step
  <2> QED  BY <1>3, <1>4, IteratesExists
<1> DEFINE g == [i \in 1 .. n |-> f[i]]
<1>6. ASSUME NEW i \in 1 .. n
      PROVE  g[i] = IF i = 1 THEN ss[i] ELSE g[i - 1] \o ss[i]
  <2>1. i - 1 \in 0 .. n /\ f[i - 1] \in Seq(S)
    OBVIOUS
  <2>2. f[i] = step[i][f[i - 1]]
    BY <1>5 DEF Iterates
  <2>3. f[i] = f[i - 1] \o ss[i]
    BY <2>1, <2>2
  <2>4. CASE i = 1
    <3>1. f[i - 1] = <<>>
      BY <1>5, <2>4 DEF Iterates
    <3>2. <<>> \o ss[i] = ss[i]
      BY <1>2, ConcatEmptySeq
    <3> QED  BY <2>3, <2>4, <3>1, <3>2
  <2>5. CASE i # 1
    <3>1. i - 1 \in 1 .. n
      BY <2>5
    <3> QED  BY <2>3, <2>5, <3>1
  <2> QED  BY <2>4, <2>5
<1>7. g \in [1 .. n -> Seq(S)] /\ g = [i \in 1 .. n |-> g[i]]
  OBVIOUS
<1> HIDE DEF g
<1>8. Joins(g, ss)
  BY <1>1, <1>6, <1>7 DEF Joins
<1> DEFINE h == CHOOSE h : Joins(h, ss)
<1>9. Joins(h, ss)
  BY <1>8
<1>10. FlattenSeq(ss) = h[Len(ss)]
  BY DEF FlattenSeq, Joins
<1> HIDE DEF h
<1> DEFINE T == {0} \union {i \in 1 .. n : h[i] = g[i]}
<1>11. ASSUME NEW i \in 0 .. n, i < n, i \in T PROVE i + 1 \in T
  <2>1. i + 1 \in 1 .. n /\ (i + 1) - 1 = i
    BY <1>11
  <2>2. /\ h[i + 1] = IF i + 1 = 1 THEN ss[i + 1] ELSE h[i] \o ss[i + 1]
        /\ g[i + 1] = IF i + 1 = 1 THEN ss[i + 1] ELSE g[i] \o ss[i + 1]
    BY <1>1, <1>8, <1>9, <2>1 DEF Joins
  <2>3. i # 0 => h[i] = g[i]
    BY <1>11
  <2>4. h[i + 1] = g[i + 1]
    BY <2>2, <2>3
  <2> QED  BY <2>1, <2>4
<1>12. n \in T
  <2>1. 0 \in T
    OBVIOUS
  <2> HIDE DEF T
  <2>2. \A i \in 0 .. n : i \in T
    BY <1>11, <2>1, UpTo
  <2>3. n \in 0 .. n
    OBVIOUS
  <2> QED  BY <2>2, <2>3
<1>13. h[n] = g[n]
  BY <1>1, <1>12
<1> QED  BY <1>1, <1>7, <1>8, <1>10, <1>13

LEMMA FlattenAppend ==
  ASSUME NEW S, NEW ss \in Seq(Seq(S)), NEW x \in Seq(S)
  PROVE  /\ FlattenSeq(ss) \in Seq(S)
         /\ FlattenSeq(Append(ss, x)) = FlattenSeq(ss) \o x
<1>1. PICK n \in Nat : n = Len(ss)
  BY LenProperties
<1>2. PICK tt \in Seq(Seq(S)) : /\ tt = Append(ss, x) /\ Len(tt) = n + 1 /\ tt[n + 1] = x
                                /\ \A k \in 1 .. n : tt[k] = ss[k]
  <2>1. PICK R : R = Seq(S) /\ ss \in Seq(R) /\ x \in R
    OBVIOUS
  <2>2. /\ Append(ss, x) \in Seq(R) /\ Len(Append(ss, x)) = Len(ss) + 1
        /\ Append(ss, x)[Len(ss) + 1] = x
        /\ \A k \in 1 .. Len(ss) : Append(ss, x)[k] = ss[k]
    BY <2>1, AppendFacts
  <2> QED  BY <1>1, <2>1, <2>2
<1>3. PICK f \in [1 .. n + 1 -> Seq(S)] : Joins(f, tt) /\ FlattenSeq(tt) = f[n + 1]
  <2>1. Len(tt) # 0
    BY <1>2
  <2>2. PICK f \in [1 .. Len(tt) -> Seq(S)] : Joins(f, tt) /\ FlattenSeq(tt) = f[Len(tt)]
    BY <2>1, FlattenJoins
  <2> QED  BY <1>2, <2>2
<1>4. f = [i \in 1 .. n + 1 |-> IF i = 1 THEN tt[i] ELSE f[i - 1] \o tt[i]]
  BY <1>2, <1>3 DEF Joins
<1>5. CASE n = 0
  <2>1. FlattenSeq(ss) = <<>>
    <3>1. ss = <<>>
      BY <1>1, <1>5, EmptySeq
    <3>2. FlattenSeq(ss) = ss
      BY <1>1, <1>5 DEF FlattenSeq
    <3> QED  BY <3>1, <3>2
  <2>2. f[1] = x
    BY <1>2, <1>4, <1>5
  <2>3. <<>> \o x = x
    BY ConcatEmptySeq
  <2> QED  BY <1>2, <1>3, <1>5, <2>1, <2>2, <2>3
<1>6. CASE n # 0
  <2>1. PICK g \in [1 .. n -> Seq(S)] : Joins(g, ss) /\ FlattenSeq(ss) = g[n]
    BY <1>1, <1>6, FlattenJoins
  <2>2. g = [i \in 1 .. n |-> IF i = 1 THEN ss[i] ELSE g[i - 1] \o ss[i]]
    BY <1>1, <2>1 DEF Joins
  <2> DEFINE T == {0} \union {i \in 1 .. n : f[i] = g[i]}
  <2>3. ASSUME NEW i \in 0 .. n, i < n, i \in T PROVE i + 1 \in T
    <3>1. i + 1 \in 1 .. n /\ i + 1 \in 1 .. n + 1 /\ (i + 1) - 1 = i
      BY <2>3
    <3>2. /\ f[i + 1] = IF i + 1 = 1 THEN tt[i + 1] ELSE f[i] \o tt[i + 1]
          /\ g[i + 1] = IF i + 1 = 1 THEN ss[i + 1] ELSE g[i] \o ss[i + 1]
      BY <1>4, <2>2, <3>1
    <3>3. tt[i + 1] = ss[i + 1] /\ (i # 0 => f[i] = g[i])
      BY <1>2, <2>3, <3>1
    <3>4. f[i + 1] = g[i + 1]
      BY <3>2, <3>3
    <3> QED  BY <3>1, <3>4
  <2>4. n \in T
    <3>1. 0 \in T
      OBVIOUS
    <3> HIDE DEF T
    <3>2. \A i \in 0 .. n : i \in T
      BY <2>3, <3>1, UpTo
    <3>3. n \in 0 .. n
      OBVIOUS
    <3> QED  BY <3>2, <3>3
  <2>5. f[n] = g[n]
    BY <1>6, <2>4
  <2>6. n + 1 \in 1 .. n + 1 /\ n + 1 # 1 /\ (n + 1) - 1 = n
    BY <1>6
  <2>7. f[n + 1] = f[n] \o x
    BY <1>2, <1>4, <2>6
  <2>8. g[n] \in Seq(S)
    BY <1>6
  <2> QED  BY <1>2, <1>3, <2>1, <2>5, <2>7, <2>8
<1> QED  BY <1>5, <1>6

-----------------------------------------------------------------------------
(* Lines and sizes.                                                        *)

Cell == [k : Kinds, i : Nat]
LineSeq(s) == [i \in DOMAIN s |-> Line(s[i])]

LEMMA LineFacts ==
  ASSUME NEW k \in Kinds
  PROVE  /\ LineLen[k] \in Nat /\ LineLen[k] >= 1 /\ EncSize[k] \in Nat /\ EncSize[k] >= 1
         /\ Line(k) \in Seq(Cell) /\ Len(Line(k)) = LineLen[k]
         /\ \A i \in 1 .. LineLen[k] : Line(k)[i] = [k |-> k, i |-> i]
<1>1. LineLen[k] \in Nat /\ LineLen[k] >= 1 /\ EncSize[k] \in Nat /\ EncSize[k] >= 1
  BY HistoryAssumption
<1>2. PICK n \in Nat : n = LineLen[k]
  BY <1>1
<1>3. \A i \in 1 .. n : [k |-> k, i |-> i] \in Cell
  BY DEF Cell
<1>4. Line(k) = [i \in 1 .. n |-> [k |-> k, i |-> i]]
  BY <1>2 DEF Line
<1>5. Line(k) \in [1 .. n -> Cell]
  BY <1>3, <1>4
<1>6. Line(k) \in Seq(Cell)
  BY <1>5
<1>7. DOMAIN Line(k) = 1 .. n
  BY <1>4
<1>8. Len(Line(k)) = n
  BY <1>6, <1>7, LenProperties
<1>9. \A i \in 1 .. n : Line(k)[i] = [k |-> k, i |-> i]
  BY <1>4
<1> QED  BY <1>1, <1>2, <1>6, <1>8, <1>9

LEMMA LineSeqFacts ==
  ASSUME NEW s \in Seq(Kinds)
  PROVE  /\ LineSeq(s) \in Seq(Seq(Cell)) /\ Lines(s) = FlattenSeq(LineSeq(s))
         /\ Len(LineSeq(s)) = Len(s)
         /\ \A k \in Kinds : LineSeq(Append(s, k)) = Append(LineSeq(s), Line(k))
<1>1. PICK n \in Nat : n = Len(s) /\ DOMAIN s = 1 .. n /\ \A i \in 1 .. n : s[i] \in Kinds
  BY LenProperties
<1>2. PICK R : R = Seq(Cell)
  OBVIOUS
<1>3. \A k \in Kinds : Line(k) \in R
  BY <1>2, LineFacts
<1>4. LineSeq(s) \in [1 .. n -> R]
  BY <1>1, <1>3 DEF LineSeq
<1>5. LineSeq(s) \in Seq(R) /\ Len(LineSeq(s)) = n
  <2>1. LineSeq(s) \in Seq(R)
    BY <1>4
  <2>2. DOMAIN LineSeq(s) = 1 .. n
    BY <1>4
  <2> QED  BY <2>1, <2>2, LenProperties
<1>6. ASSUME NEW k \in Kinds PROVE LineSeq(Append(s, k)) = Append(LineSeq(s), Line(k))
  <2>1. PICK t \in Seq(Kinds) : /\ t = Append(s, k) /\ Len(t) = n + 1 /\ t[n + 1] = k
                                /\ \A i \in 1 .. n : t[i] = s[i]
    <3>1. /\ Append(s, k) \in Seq(Kinds) /\ Len(Append(s, k)) = Len(s) + 1
          /\ Append(s, k)[Len(s) + 1] = k
          /\ \A i \in 1 .. Len(s) : Append(s, k)[i] = s[i]
      BY AppendFacts
    <3> QED  BY <1>1, <3>1
  <2>2. DOMAIN t = 1 .. n + 1
    BY <2>1
  <2>3. LineSeq(t) = [i \in 1 .. n + 1 |-> Line(t[i])]
    BY <2>2 DEF LineSeq
  <2>4. PICK u \in Seq(R) : u = LineSeq(s) /\ Len(u) = n /\ \A i \in 1 .. n : u[i] = Line(s[i])
    BY <1>1, <1>5 DEF LineSeq
  <2>5. PICK l \in R : l = Line(k)
    BY <1>3
  <2>6. PICK v \in Seq(R) : /\ v = Append(u, l) /\ Len(v) = n + 1 /\ v[n + 1] = l
                            /\ \A i \in 1 .. n : v[i] = u[i]
    <3>1. /\ Append(u, l) \in Seq(R) /\ Len(Append(u, l)) = Len(u) + 1
          /\ Append(u, l)[Len(u) + 1] = l
          /\ \A i \in 1 .. Len(u) : Append(u, l)[i] = u[i]
      BY AppendFacts
    <3> QED  BY <2>4, <3>1
  <2>7. v = [i \in 1 .. n + 1 |-> v[i]]
    BY <2>6, SeqIsFunction
  <2>8. ASSUME NEW i \in 1 .. n + 1 PROVE v[i] = Line(t[i])
    <3>1. CASE i = n + 1
      BY <2>1, <2>5, <2>6, <3>1
    <3>2. CASE i # n + 1
      <4>1. i \in 1 .. n
        BY <3>2
      <4> QED  BY <2>1, <2>4, <2>6, <4>1
    <3> QED  BY <3>1, <3>2
  <2>9. v = LineSeq(t)
    BY <2>3, <2>7, <2>8, Zenon
  <2> QED  BY <2>1, <2>4, <2>5, <2>6, <2>9
<1> QED  BY <1>1, <1>2, <1>5, <1>6 DEF Lines, LineSeq

LEMMA LinesAppend ==
  ASSUME NEW s \in Seq(Kinds), NEW k \in Kinds
  PROVE  /\ Lines(s) \in Seq(Cell)
         /\ Lines(Append(s, k)) = Lines(s) \o Line(k)
<1>1. Append(s, k) \in Seq(Kinds)
  BY AppendFacts
<1>2. Lines(Append(s, k)) = FlattenSeq(LineSeq(Append(s, k)))
  BY <1>1, LineSeqFacts
<1>3. PICK u \in Seq(Seq(Cell)) : u = LineSeq(s)
  BY LineSeqFacts
<1>4. PICK l \in Seq(Cell) : l = Line(k)
  BY LineFacts
<1>5. LineSeq(Append(s, k)) = Append(u, l)
  BY <1>3, <1>4, LineSeqFacts
<1>6. FlattenSeq(u) \in Seq(Cell) /\ FlattenSeq(Append(u, l)) = FlattenSeq(u) \o l
  BY FlattenAppend
<1>7. Lines(s) = FlattenSeq(u)
  BY <1>3, LineSeqFacts
<1> QED  BY <1>2, <1>4, <1>5, <1>6, <1>7

LEMMA LinesEmpty == Lines(<<>>) = <<>>
<1>1. <<>> \in Seq(Kinds)
  OBVIOUS
<1>2. LineSeq(<<>>) \in Seq(Seq(Cell)) /\ Lines(<<>>) = FlattenSeq(LineSeq(<<>>))
      /\ Len(LineSeq(<<>>)) = 0
  BY <1>1, LineSeqFacts
<1>3. PICK u \in Seq(Seq(Cell)) : u = LineSeq(<<>>) /\ Len(u) = 0
  BY <1>2
<1>4. u = <<>>
  BY <1>3, EmptySeq
<1>5. FlattenSeq(u) = u
  BY <1>3 DEF FlattenSeq
<1> QED  BY <1>2, <1>3, <1>4, <1>5

(* SizeOf is the sum of the encoded sizes.                                 *)
Totals(f, s) == f = [i \in 0 .. Len(s) |-> IF i = 0 THEN 0 ELSE f[i - 1] + EncSize[s[i]]]
LEMMA SizeIsTotal ==
  ASSUME NEW s \in Seq(Kinds)
  PROVE  \E f \in [0 .. Len(s) -> Nat] : Totals(f, s) /\ SizeOf(s) = f[Len(s)]
<1>1. PICK n \in Nat : n = Len(s) /\ \A i \in 1 .. n : s[i] \in Kinds
  BY LenProperties
<1>2. \A i \in 1 .. n : EncSize[s[i]] \in Nat
  BY <1>1, HistoryAssumption
<1> DEFINE step == [i \in 1 .. n |-> [x \in Nat |-> x + EncSize[s[i]]]]
<1>3. step \in [1 .. n -> [Nat -> Nat]]
  BY <1>2
<1>4. PICK f \in [0 .. n -> Nat] : Iterates(f, n, 0, step)
  <2> HIDE DEF step
  <2> QED  BY <1>3, IteratesExists
<1>5. ASSUME NEW i \in 0 .. n
      PROVE  f[i] = IF i = 0 THEN 0 ELSE f[i - 1] + EncSize[s[i]]
  <2>1. CASE i = 0
    BY <1>4, <2>1 DEF Iterates
  <2>2. CASE i # 0
    <3>1. i \in 1 .. n /\ i - 1 \in 0 .. n
      BY <2>2
    <3>2. f[i] = step[i][f[i - 1]]
      BY <1>4, <3>1 DEF Iterates
    <3> QED  BY <2>2, <3>1, <3>2
  <2> QED  BY <2>1, <2>2
<1>6. f = [i \in 0 .. n |-> f[i]]
  OBVIOUS
<1>7. Totals(f, s)
  BY <1>1, <1>5, <1>6 DEF Totals
<1> DEFINE h == CHOOSE h : Totals(h, s)
<1>8. Totals(h, s)
  BY <1>7
<1>9. SizeOf(s) = h[Len(s)]
  BY DEF SizeOf, Totals
<1> HIDE DEF h
<1> DEFINE T == {i \in 0 .. n : h[i] = f[i]}
<1>10. h = [i \in 0 .. n |-> IF i = 0 THEN 0 ELSE h[i - 1] + EncSize[s[i]]]
  BY <1>1, <1>8 DEF Totals
<1>11. 0 \in T
  BY <1>5, <1>10
<1>12. ASSUME NEW i \in 0 .. n, i < n, i \in T PROVE i + 1 \in T
  <2>1. i + 1 \in 0 .. n /\ i + 1 # 0 /\ (i + 1) - 1 = i
    BY <1>12
  <2>2. h[i + 1] = h[i] + EncSize[s[i + 1]] /\ f[i + 1] = f[i] + EncSize[s[i + 1]]
    BY <1>5, <1>10, <2>1
  <2>3. h[i] = f[i]
    BY <1>12
  <2> QED  BY <2>1, <2>2, <2>3
<1>13. h[n] = f[n]
  <2> HIDE DEF T
  <2>1. \A i \in 0 .. n : i \in T
    BY <1>11, <1>12, UpTo
  <2>2. n \in 0 .. n
    OBVIOUS
  <2> QED  BY <2>1, <2>2 DEF T
<1> QED  BY <1>1, <1>7, <1>9, <1>13

LEMMA SizeAppend ==
  ASSUME NEW s \in Seq(Kinds), NEW k \in Kinds
  PROVE  SizeOf(s) \in Nat /\ SizeOf(Append(s, k)) = SizeOf(s) + EncSize[k]
<1>1. PICK n \in Nat : n = Len(s)
  BY LenProperties
<1>2. PICK t \in Seq(Kinds) : /\ t = Append(s, k) /\ Len(t) = n + 1 /\ t[n + 1] = k
                              /\ \A i \in 1 .. n : t[i] = s[i]
  <2>1. /\ Append(s, k) \in Seq(Kinds) /\ Len(Append(s, k)) = Len(s) + 1
        /\ Append(s, k)[Len(s) + 1] = k
        /\ \A i \in 1 .. Len(s) : Append(s, k)[i] = s[i]
    BY AppendFacts
  <2> QED  BY <1>1, <2>1
<1>3. PICK f \in [0 .. n -> Nat] : Totals(f, s) /\ SizeOf(s) = f[n]
  BY <1>1, SizeIsTotal
<1>4. PICK g \in [0 .. n + 1 -> Nat] : Totals(g, t) /\ SizeOf(t) = g[n + 1]
  <2>1. PICK g \in [0 .. Len(t) -> Nat] : Totals(g, t) /\ SizeOf(t) = g[Len(t)]
    BY SizeIsTotal
  <2> QED  BY <1>2, <2>1
<1>5. /\ f = [i \in 0 .. n |-> IF i = 0 THEN 0 ELSE f[i - 1] + EncSize[s[i]]]
      /\ g = [i \in 0 .. n + 1 |-> IF i = 0 THEN 0 ELSE g[i - 1] + EncSize[t[i]]]
  BY <1>1, <1>2, <1>3, <1>4 DEF Totals
<1> DEFINE T == {i \in 0 .. n : f[i] = g[i]}
<1>6. 0 \in T
  BY <1>5
<1>7. ASSUME NEW i \in 0 .. n, i < n, i \in T PROVE i + 1 \in T
  <2>1. i + 1 \in 0 .. n /\ i + 1 \in 0 .. n + 1 /\ i + 1 \in 1 .. n /\ (i + 1) - 1 = i
        /\ i + 1 # 0
    BY <1>7
  <2>2. f[i + 1] = f[i] + EncSize[s[i + 1]] /\ g[i + 1] = g[i] + EncSize[t[i + 1]]
    BY <1>5, <2>1
  <2>3. t[i + 1] = s[i + 1] /\ f[i] = g[i]
    BY <1>2, <1>7, <2>1
  <2> QED  BY <2>1, <2>2, <2>3
<1>8. f[n] = g[n]
  <2> HIDE DEF T
  <2>1. \A i \in 0 .. n : i \in T
    BY <1>6, <1>7, UpTo
  <2>2. n \in 0 .. n
    OBVIOUS
  <2> QED  BY <2>1, <2>2 DEF T
<1>9. g[n + 1] = g[n] + EncSize[k]
  <2>1. n + 1 \in 0 .. n + 1 /\ n + 1 # 0 /\ (n + 1) - 1 = n
    OBVIOUS
  <2> QED  BY <1>2, <1>5, <2>1
<1>10. f[n] \in Nat
  OBVIOUS
<1> QED  BY <1>2, <1>3, <1>4, <1>8, <1>9, <1>10

LEMMA SizeEmpty == SizeOf(<<>>) = 0
<1>1. <<>> \in Seq(Kinds) /\ Len(<<>>) = 0
  OBVIOUS
<1>2. PICK f \in [0 .. 0 -> Nat] : Totals(f, <<>>) /\ SizeOf(<<>>) = f[0]
  BY <1>1, SizeIsTotal
<1> QED  BY <1>1, <1>2 DEF Totals

-----------------------------------------------------------------------------
(* The loop of readHistoryLocked.                                          *)

Outcomes == {"page", "break", "record_too_large", "corrupt"}
States == [offset : 0 .. Len(file), records : Seq(Kinds), used : Nat,
           outcome : Outcomes]

(* A stored line of kind k begins after offset o.                          *)
LineAt(o, k) ==
  /\ o + LineLen[k] <= Len(file)
  /\ \A j \in 1 .. LineLen[k] : file[o + j] = [k |-> k, i |-> j]

(* ReadBytes returns at least one cell and at most its section.            *)
LEMMA ReadLineFacts ==
  ASSUME NEW o \in Nat, NEW n \in Nat, n >= 1
  PROVE  /\ ReadLine(o, n) \in 1 .. n
         /\ \A m \in Newlines(o, n) :
              (\A j \in Newlines(o, n) : m <= j) => ReadLine(o, n) = m
<1> DEFINE N == Newlines(o, n)
<1>1. N \in SUBSET Nat /\ N \in SUBSET (1 .. n)
  BY DEF Newlines
<1> HIDE DEF N
<1>2. CASE N = {}
  <2>1. ReadLine(o, n) = n
    BY <1>2 DEF ReadLine, N
  <2> QED  BY <1>2, <2>1 DEF N
<1>3. CASE N # {}
  <2>1. PICK x \in N : \A y \in N : x <= y
    BY <1>1, <1>3, LeastNatural
  <2>2. Min(N) \in N /\ \A y \in N : Min(N) <= y
    BY <2>1 DEF Min
  <2>3. ReadLine(o, n) = Min(N)
    BY <1>3 DEF ReadLine, N
  <2>4. ASSUME NEW m \in N, \A j \in N : m <= j PROVE Min(N) = m
    <3>1. Min(N) <= m /\ m <= Min(N) /\ m \in Nat /\ Min(N) \in Nat
      BY <1>1, <2>2, <2>4
    <3> QED  BY <3>1
  <2> QED  BY <1>1, <2>2, <2>3, <2>4 DEF N
<1> QED  BY <1>2, <1>3

(* What one turn of the loop does: it stops, or takes the whole line that  *)
(* begins at the offset.                                                   *)
Taken(p, k) == [offset |-> p.offset + LineLen[k], records |-> Append(p.records, k),
                used |-> p.used + EncSize[k], outcome |-> p.outcome]
LEMMA TurnFacts ==
  ASSUME Len(file) \in Nat, NEW p \in States, p.offset < Len(file), NEW mb \in Nat
  PROVE  \/ \E w \in Outcomes \ {"page"} :
              Turn(p, mb) = Stop(p, w) /\ (w = "break" => p.records # <<>>)
         \/ \E k \in Kinds : /\ LineAt(p.offset, k) /\ p.used + EncSize[k] <= mb
                             /\ Turn(p, mb) = Taken(p, k)
<1> DEFINE lim == LineLimit(p)
           n == ReadLine(p.offset, lim)
           whole == {k \in Kinds : Decodes(p.offset, n, k)}
<1>0. p.offset \in Nat /\ p.used \in Nat
  BY DEF States
<1>1. lim \in Nat /\ lim >= 1 /\ p.offset + lim <= Len(file)
  BY <1>0, HistoryAssumption DEF LineLimit, MinOf
<1> HIDE DEF lim
<1>2. n \in 1 .. lim
  BY <1>0, <1>1, ReadLineFacts
<1>3. Turn(p, mb) = CASE TooLong(n) -> Stop(p, "record_too_large")
       [] ~TooLong(n) /\ whole = {} -> Stop(p, "corrupt")
       [] OTHER ->
            LET k == CHOOSE k \in whole : TRUE
            IN IF p.used + EncSize[k] > mb
               THEN BudgetBreak(p)
               ELSE [p EXCEPT !.records = Append(@, k),
                              !.used = @ + EncSize[k],
                              !.offset = @ + Advance(k, n)]
  BY DEF Turn, lim
<1> HIDE DEF n
<1>4. CASE TooLong(n)
  <2>1. Turn(p, mb) = Stop(p, "record_too_large")
    BY <1>3, <1>4
  <2> QED  BY <2>1 DEF Outcomes
<1>5. CASE ~TooLong(n) /\ whole = {}
  <2>1. Turn(p, mb) = Stop(p, "corrupt")
    BY <1>3, <1>5
  <2> QED  BY <2>1 DEF Outcomes
<1>6. CASE ~TooLong(n) /\ whole # {}
  <2> DEFINE k == CHOOSE k \in whole : TRUE
  <2>1. k \in whole
    BY <1>6
  <2>2. k \in Kinds /\ Decodes(p.offset, n, k)
    BY <2>1
  <2>3. Turn(p, mb) = IF p.used + EncSize[k] > mb
               THEN BudgetBreak(p)
               ELSE [p EXCEPT !.records = Append(@, k),
                              !.used = @ + EncSize[k],
                              !.offset = @ + Advance(k, n)]
    BY <1>3, <1>6
  <2> HIDE DEF k, whole
  <2>4. CASE p.used + EncSize[k] > mb
    <3>1. Turn(p, mb) = Stop(p, IF p.records = <<>> THEN "record_too_large" ELSE "break")
      BY <2>3, <2>4 DEF BudgetBreak
    <3> QED  BY <3>1 DEF Outcomes
  <2>5. CASE ~(p.used + EncSize[k] > mb)
    <3>1. n = LineLen[k]
      BY <2>2 DEF Decodes
    <3>2. LineAt(p.offset, k)
      BY <1>0, <1>1, <1>2, <2>2, <3>1 DEF LineAt, Decodes
    <3>3. EncSize[k] \in Nat
      BY <2>2, HistoryAssumption
    <3>4. p.used + EncSize[k] <= mb
      BY <1>0, <2>5, <3>3
    <3>5. Turn(p, mb) = [p EXCEPT !.records = Append(@, k),
                              !.used = @ + EncSize[k],
                              !.offset = @ + n]
      BY <2>3, <2>5 DEF Advance
    <3>6. Turn(p, mb) = Taken(p, k)
      BY <3>1, <3>5 DEF Taken, States
    <3> QED  BY <2>2, <3>2, <3>4, <3>6
  <2> QED  BY <2>4, <2>5
<1> QED  BY <1>4, <1>5, <1>6

(* The lines of these records are the first o cells of the file.           *)
Prefix(s, o) ==
  /\ s \in Seq(Kinds) /\ o \in Nat /\ Len(Lines(s)) = o
  /\ \A j \in 1 .. o : Lines(s)[j] = file[j]

LEMMA PrefixGrows ==
  ASSUME NEW s, NEW o \in Nat, NEW k \in Kinds, Prefix(s, o), LineAt(o, k)
  PROVE  /\ Prefix(Append(s, k), o + LineLen[k])
         /\ IsNewline(file[o + LineLen[k]])
<1>0. s \in Seq(Kinds) /\ Append(s, k) \in Seq(Kinds)
  BY AppendFacts DEF Prefix
<1>1. PICK n \in Nat : n = LineLen[k] /\ n >= 1
  BY LineFacts
<1>2. PICK a \in Seq(Cell), l \in Seq(Cell) : a = Lines(s) /\ l = Line(k)
  BY <1>0, LinesAppend, LineFacts
<1>3. /\ Len(a) = o /\ (\A j \in 1 .. o : a[j] = file[j])
      /\ Len(l) = n /\ (\A i \in 1 .. n : l[i] = [k |-> k, i |-> i])
      /\ \A i \in 1 .. n : file[o + i] = [k |-> k, i |-> i]
  BY <1>1, <1>2, LineFacts DEF Prefix, LineAt
<1>4. PICK c : c = a \o l /\ Len(c) = o + n /\ (\A j \in 1 .. o : c[j] = a[j])
               /\ \A i \in 1 .. n : c[o + i] = l[i]
  <2>1. /\ Len(a \o l) = Len(a) + Len(l)
        /\ \A j \in 1 .. Len(a) : (a \o l)[j] = a[j]
        /\ \A i \in 1 .. Len(l) : (a \o l)[Len(a) + i] = l[i]
    BY ConcatFacts
  <2> QED  BY <1>3, <2>1
<1>5. Lines(Append(s, k)) = c
  BY <1>0, <1>2, <1>4, LinesAppend
<1>6. ASSUME NEW j \in 1 .. o + n PROVE c[j] = file[j]
  <2>1. CASE j <= o
    <3>1. j \in 1 .. o
      BY <2>1
    <3> QED  BY <1>3, <1>4, <3>1
  <2>2. CASE ~(j <= o)
    <3>1. j - o \in 1 .. n /\ o + (j - o) = j
      BY <2>2
    <3>2. c[o + (j - o)] = l[j - o] /\ l[j - o] = file[o + (j - o)]
      BY <1>3, <1>4, <3>1
    <3> QED  BY <3>1, <3>2
  <2> QED  BY <2>1, <2>2
<1>7. Prefix(Append(s, k), o + n)
  BY <1>0, <1>4, <1>5, <1>6 DEF Prefix
<1>8. IsNewline(file[o + n])
  <2>1. n \in 1 .. n
    BY <1>1
  <2>2. file[o + n] = [k |-> k, i |-> n]
    BY <1>3, <2>1
  <2> QED  BY <1>1, <2>2 DEF IsNewline
<1> QED  BY <1>1, <1>7, <1>8

LEMMA ConcatAppend ==
  ASSUME NEW S, NEW b \in Seq(S), NEW r \in Seq(S), NEW k \in S
  PROVE  b \o Append(r, k) = Append(b \o r, k)
<1>1. PICK m \in Nat, n \in Nat : m = Len(b) /\ n = Len(r)
  BY LenProperties
<1>2. PICK t \in Seq(S) : /\ t = Append(r, k) /\ Len(t) = n + 1 /\ t[n + 1] = k
                          /\ \A i \in 1 .. n : t[i] = r[i]
  <2>1. /\ Append(r, k) \in Seq(S) /\ Len(Append(r, k)) = Len(r) + 1
        /\ Append(r, k)[Len(r) + 1] = k
        /\ \A i \in 1 .. Len(r) : Append(r, k)[i] = r[i]
    BY AppendFacts
  <2> QED  BY <1>1, <2>1
<1>3. PICK u \in Seq(S) : /\ u = b \o t /\ Len(u) = m + (n + 1)
                          /\ (\A i \in 1 .. m : u[i] = b[i])
                          /\ \A i \in 1 .. n + 1 : u[m + i] = t[i]
  <2>1. /\ b \o t \in Seq(S) /\ Len(b \o t) = Len(b) + Len(t)
        /\ \A i \in 1 .. Len(b) : (b \o t)[i] = b[i]
        /\ \A i \in 1 .. Len(t) : (b \o t)[Len(b) + i] = t[i]
    BY ConcatFacts
  <2>2. /\ b \o t \in Seq(S) /\ Len(b \o t) = m + (n + 1)
        /\ \A i \in 1 .. m : (b \o t)[i] = b[i]
        /\ \A i \in 1 .. n + 1 : (b \o t)[m + i] = t[i]
    BY <1>1, <1>2, <2>1, Zenon
  <2> QED  BY <2>2
<1>4. PICK c \in Seq(S) : /\ c = b \o r /\ Len(c) = m + n
                          /\ (\A i \in 1 .. m : c[i] = b[i])
                          /\ \A i \in 1 .. n : c[m + i] = r[i]
  <2>1. /\ b \o r \in Seq(S) /\ Len(b \o r) = Len(b) + Len(r)
        /\ \A i \in 1 .. Len(b) : (b \o r)[i] = b[i]
        /\ \A i \in 1 .. Len(r) : (b \o r)[Len(b) + i] = r[i]
    BY ConcatFacts
  <2> QED  BY <1>1, <2>1
<1>5. PICK v \in Seq(S) : /\ v = Append(c, k) /\ Len(v) = (m + n) + 1
                          /\ v[(m + n) + 1] = k
                          /\ \A i \in 1 .. m + n : v[i] = c[i]
  <2>1. /\ Append(c, k) \in Seq(S) /\ Len(Append(c, k)) = Len(c) + 1
        /\ Append(c, k)[Len(c) + 1] = k
        /\ \A i \in 1 .. Len(c) : Append(c, k)[i] = c[i]
    BY AppendFacts
  <2> QED  BY <1>4, <2>1
<1>6. PICK q \in Nat : q = (m + n) + 1 /\ q = m + (n + 1)
  OBVIOUS
<1>7. ASSUME NEW i \in 1 .. q PROVE u[i] = v[i]
  <2>1. CASE i <= m
    <3>1. i \in 1 .. m /\ i \in 1 .. m + n
      BY <2>1
    <3> QED  BY <1>3, <1>4, <1>5, <3>1
  <2>2. CASE i > m /\ i <= m + n
    <3>1. i - m \in 1 .. n /\ i - m \in 1 .. n + 1 /\ m + (i - m) = i /\ i \in 1 .. m + n
      BY <2>2
    <3>2. u[m + (i - m)] = t[i - m] /\ t[i - m] = r[i - m] /\ c[m + (i - m)] = r[i - m]
      BY <1>2, <1>3, <1>4, <3>1
    <3> QED  BY <1>5, <3>1, <3>2
  <2>3. CASE i > m + n
    <3>1. i = (m + n) + 1 /\ n + 1 \in 1 .. n + 1 /\ i = m + (n + 1)
      BY <1>6, <2>3
    <3>2. u[m + (n + 1)] = k
      BY <1>2, <1>3, <3>1
    <3> QED  BY <1>5, <3>1, <3>2
  <2> QED  BY <2>1, <2>2, <2>3
<1>8. u = [i \in 1 .. q |-> u[i]] /\ v = [i \in 1 .. q |-> v[i]]
  BY <1>3, <1>5, <1>6, SeqIsFunction
<1>9. u = v
  BY <1>7, <1>8, Zenon
<1> QED  BY <1>2, <1>3, <1>4, <1>5, <1>9

(* The invariant of the loop after i turns, on a page that starts at o:    *)
(* it holds at most i records, within the byte budget; it moved past       *)
(* whole lines, if it moved; it is short of i records only at the end of   *)
(* the file or when the budget broke the loop, on a page with records; and *)
(* when the records b end at o, b and the page end at the page's offset.   *)
LoopKeeps(p, i, o, mb) ==
  /\ p \in States /\ Len(p.records) <= i
  /\ p.used = SizeOf(p.records) /\ p.used <= mb
  /\ p.outcome = "page" => p.offset = Len(file) \/ Len(p.records) = i
  /\ p.outcome = "break" => p.records # <<>>
  /\ p.records = <<>> => p.offset = o
  /\ p.records # <<>> => o < p.offset /\ IsNewline(file[p.offset])
LoopReads(p, b, o) == Prefix(b, o) => Prefix(b \o p.records, p.offset)

LEMMA TurnKeeps ==
  ASSUME Len(file) \in Nat, NEW mb \in Nat, NEW i \in Nat, NEW o \in 0 .. Len(file),
         NEW p \in States, LoopKeeps(p, i, o, mb), p.outcome = "page",
         p.offset < Len(file), NEW b \in Seq(Kinds), LoopReads(p, b, o)
  PROVE  LoopKeeps(Turn(p, mb), i + 1, o, mb) /\ LoopReads(Turn(p, mb), b, o)
<1>0. /\ p.offset \in Nat /\ p.used \in Nat /\ p.records \in Seq(Kinds)
      /\ p.outcome \in Outcomes /\ Len(p.records) \in Nat
  BY LenProperties DEF States
<1>1. CASE \E w \in Outcomes \ {"page"} :
             Turn(p, mb) = Stop(p, w) /\ (w = "break" => p.records # <<>>)
  <2>1. PICK w \in Outcomes \ {"page"} :
               Turn(p, mb) = Stop(p, w) /\ (w = "break" => p.records # <<>>)
    BY <1>1
  <2>2. PICK q : q = Turn(p, mb)
    OBVIOUS
  <2>3. /\ q \in States /\ q.records = p.records /\ q.used = p.used
        /\ q.offset = p.offset /\ q.outcome = w
    BY <2>1, <2>2 DEF States, Stop
  <2>4. Len(q.records) <= i + 1
    BY <1>0, <2>3 DEF LoopKeeps
  <2>5. LoopKeeps(q, i + 1, o, mb)
    BY <2>1, <2>3, <2>4 DEF LoopKeeps
  <2>6. LoopReads(q, b, o)
    BY <2>3 DEF LoopReads
  <2> QED  BY <2>2, <2>5, <2>6
<1>2. CASE \E k \in Kinds : /\ LineAt(p.offset, k) /\ p.used + EncSize[k] <= mb
                            /\ Turn(p, mb) = Taken(p, k)
  <2>1. PICK k \in Kinds : /\ LineAt(p.offset, k) /\ p.used + EncSize[k] <= mb
                           /\ Turn(p, mb) = Taken(p, k)
    BY <1>2
  <2>2. PICK n \in Nat, e \in Nat : n = LineLen[k] /\ n >= 1 /\ e = EncSize[k]
    BY LineFacts
  <2>3. PICK q : q = Turn(p, mb)
    OBVIOUS
  <2>4. PICK t \in Seq(Kinds) : /\ t = Append(p.records, k)
                                /\ Len(t) = Len(p.records) + 1
    <3>1. PICK r \in Seq(Kinds) : r = p.records
      BY <1>0
    <3>2. Append(r, k) \in Seq(Kinds) /\ Len(Append(r, k)) = Len(r) + 1
      BY AppendFacts
    <3> QED  BY <3>1, <3>2
  <2>5. t # <<>>
    BY <1>0, <2>4
  <2>6. q = [offset |-> p.offset + n, records |-> t, used |-> p.used + e,
             outcome |-> "page"]
    BY <2>1, <2>2, <2>3, <2>4 DEF Taken
  <2>7. p.offset + n \in 0 .. Len(file)
    BY <1>0, <2>1, <2>2 DEF LineAt
  <2>8. q \in States
    BY <1>0, <2>6, <2>7 DEF States, Outcomes
  <2>9. SizeOf(t) = p.used + e
    BY <1>0, <2>2, <2>4, SizeAppend DEF LoopKeeps
  <2>10. Len(t) = i + 1
    BY <1>0, <2>4 DEF LoopKeeps
  <2>11. o < p.offset + n
    <3>1. o <= p.offset
      BY <1>0 DEF LoopKeeps
    <3> QED  BY <1>0, <2>2, <3>1
  <2>12. IsNewline(file[p.offset + n])
    <3>1. n \in 1 .. n
      BY <2>2
    <3>2. file[p.offset + n] = [k |-> k, i |-> n]
      BY <2>1, <2>2, <3>1 DEF LineAt
    <3> QED  BY <2>2, <3>2 DEF IsNewline
  <2>13. /\ q.records = t /\ q.used = p.used + e /\ q.offset = p.offset + n
         /\ q.outcome = "page"
    BY <2>6
  <2>14. LoopKeeps(q, i + 1, o, mb)
    BY <2>1, <2>2, <2>5, <2>8, <2>9, <2>10, <2>11, <2>12, <2>13 DEF LoopKeeps
  <2>15. LoopReads(q, b, o)
    <3>1. SUFFICES ASSUME Prefix(b, o) PROVE Prefix(b \o t, p.offset + n)
      BY <2>13 DEF LoopReads
    <3>2. PICK s : s = b \o p.records /\ Prefix(s, p.offset)
      BY <3>1 DEF LoopReads
    <3>3. Prefix(Append(s, k), p.offset + n)
      BY <1>0, <2>1, <2>2, <3>2, PrefixGrows
    <3>4. b \o t = Append(s, k)
      <4>1. PICK r \in Seq(Kinds) : r = p.records
        BY <1>0
      <4>2. b \o Append(r, k) = Append(b \o r, k)
        BY ConcatAppend
      <4> QED  BY <2>4, <3>2, <4>1, <4>2
    <3> QED  BY <3>3, <3>4
  <2> QED  BY <2>3, <2>14, <2>15
<1> QED  BY <1>1, <1>2, TurnFacts

LEMMA TurnTyped ==
  ASSUME Len(file) \in Nat, NEW mb \in Nat, NEW p \in States, p.offset < Len(file)
  PROVE  Turn(p, mb) \in States
<1>0. p.offset \in Nat /\ p.used \in Nat /\ p.records \in Seq(Kinds) /\ p.outcome \in Outcomes
  BY DEF States
<1>1. CASE \E w \in Outcomes \ {"page"} :
             Turn(p, mb) = Stop(p, w) /\ (w = "break" => p.records # <<>>)
  BY <1>1 DEF States, Stop
<1>2. CASE \E k \in Kinds : /\ LineAt(p.offset, k) /\ p.used + EncSize[k] <= mb
                            /\ Turn(p, mb) = Taken(p, k)
  <2>1. PICK k \in Kinds : LineAt(p.offset, k) /\ Turn(p, mb) = Taken(p, k)
    BY <1>2
  <2>2. LineLen[k] \in Nat /\ EncSize[k] \in Nat
    BY LineFacts
  <2>3. Append(p.records, k) \in Seq(Kinds)
    BY <1>0, AppendFacts
  <2>4. p.offset + LineLen[k] \in 0 .. Len(file) /\ p.used + EncSize[k] \in Nat
    BY <1>0, <2>1, <2>2 DEF LineAt
  <2> QED  BY <1>0, <2>1, <2>3, <2>4 DEF Taken, States
<1> QED  BY <1>1, <1>2, TurnFacts

(* What the loop returns after at most mr turns.                           *)
StartAt(o) == [offset |-> o, records |-> <<>>, used |-> 0, outcome |-> "page"]
Turns(f, o, mr, mb) ==
  f = [i \in 0 .. mr |->
        IF i = 0 THEN StartAt(o)
        ELSE LET p == f[i - 1]
             IN IF p.outcome = "page" /\ p.offset < Len(file)
                THEN Turn(p, mb) ELSE p]
LEMMA ScanFacts ==
  ASSUME Len(file) \in Nat, NEW mr \in Nat, NEW mb \in Nat, NEW o \in 0 .. Len(file),
         NEW b \in Seq(Kinds)
  PROVE  /\ LoopKeeps(Scan(o, mr, mb), mr, o, mb)
         /\ LoopReads(Scan(o, mr, mb), b, o)
<1> DEFINE step == [i \in 1 .. mr |-> [p \in States |->
                     IF p.outcome = "page" /\ p.offset < Len(file)
                     THEN Turn(p, mb) ELSE p]]
<1>1. step \in [1 .. mr -> [States -> States]]
  BY TurnTyped
<1>2. StartAt(o) \in States
  BY DEF StartAt, States, Outcomes
<1>3. PICK f \in [0 .. mr -> States] : Iterates(f, mr, StartAt(o), step)
  <2> HIDE DEF step
  <2> QED  BY <1>1, <1>2, IteratesExists
<1>4. ASSUME NEW i \in 0 .. mr
      PROVE  f[i] = IF i = 0 THEN StartAt(o)
                    ELSE LET p == f[i - 1]
                         IN IF p.outcome = "page" /\ p.offset < Len(file)
                            THEN Turn(p, mb) ELSE p
  <2>1. CASE i = 0
    BY <1>3, <2>1 DEF Iterates
  <2>2. CASE i # 0
    <3>1. i \in 1 .. mr /\ i - 1 \in 0 .. mr /\ f[i - 1] \in States
      BY <2>2
    <3>2. f[i] = step[i][f[i - 1]]
      BY <1>3, <3>1 DEF Iterates
    <3> QED  BY <2>2, <3>1, <3>2
  <2> QED  BY <2>1, <2>2
<1> HIDE DEF step
<1>5. f = [i \in 0 .. mr |-> f[i]]
  OBVIOUS
<1>6. Turns(f, o, mr, mb)
  BY <1>4, <1>5, Zenon DEF Turns
<1> DEFINE h == CHOOSE h : Turns(h, o, mr, mb)
<1>7. Turns(h, o, mr, mb)
  BY <1>6
<1>8. Scan(o, mr, mb) = h[mr]
  BY DEF Scan, Turns, StartAt
<1> HIDE DEF h
<1>9. h[0] = StartAt(o)
  BY <1>7 DEF Turns
<1>10. ASSUME NEW i \in 1 .. mr
       PROVE  h[i] = IF h[i - 1].outcome = "page" /\ h[i - 1].offset < Len(file)
                     THEN Turn(h[i - 1], mb) ELSE h[i - 1]
  <2>1. i \in 0 .. mr /\ i # 0
    OBVIOUS
  <2> QED  BY <1>7, <2>1 DEF Turns
<1> DEFINE T == {i \in 0 .. mr : LoopKeeps(h[i], i, o, mb) /\ LoopReads(h[i], b, o)}
<1>11. 0 \in T
  <2>1. PICK p : p = h[0] /\ p = StartAt(o)
    BY <1>9
  <2>2. p.records = <<>> /\ p.used = 0 /\ p.offset = o /\ p.outcome = "page"
    BY <2>1 DEF StartAt
  <2>3. LoopKeeps(p, 0, o, mb)
    BY <1>2, <2>1, <2>2, SizeEmpty DEF LoopKeeps
  <2>4. b \o <<>> = b
    BY ConcatEmptySeq
  <2>5. LoopReads(p, b, o)
    BY <2>2, <2>4 DEF LoopReads
  <2>6. LoopKeeps(h[0], 0, o, mb) /\ LoopReads(h[0], b, o)
    BY <2>1, <2>3, <2>5, Zenon
  <2>7. 0 \in 0 .. mr
    OBVIOUS
  <2> QED  BY <2>6, <2>7, Zenon
<1>12. ASSUME NEW i \in 0 .. mr, i < mr, i \in T PROVE i + 1 \in T
  <2>1. i + 1 \in 1 .. mr /\ i + 1 \in 0 .. mr /\ (i + 1) - 1 = i /\ i \in Nat
    BY <1>12
  <2>2. PICK p : p = h[i] /\ LoopKeeps(p, i, o, mb) /\ LoopReads(p, b, o)
    BY <1>12
  <2>3. PICK q : q = h[i + 1] /\ q = IF p.outcome = "page" /\ p.offset < Len(file)
                                     THEN Turn(p, mb) ELSE p
    BY <1>10, <2>1, <2>2
  <2>4. p \in States /\ p.offset \in Nat /\ p.offset <= Len(file) /\ Len(p.records) \in Nat
    BY <2>2, LenProperties DEF LoopKeeps, States
  <2>5. LoopKeeps(q, i + 1, o, mb) /\ LoopReads(q, b, o)
    <3>1. CASE p.outcome = "page" /\ p.offset < Len(file)
      <4>1. q = Turn(p, mb)
        BY <2>3, <3>1
      <4>2. LoopKeeps(Turn(p, mb), i + 1, o, mb) /\ LoopReads(Turn(p, mb), b, o)
        BY <2>1, <2>2, <2>4, <3>1, TurnKeeps
      <4> QED  BY <4>1, <4>2
    <3>2. CASE ~(p.outcome = "page" /\ p.offset < Len(file))
      <4>1. q = p
        BY <2>3, <3>2
      <4>2. p.outcome = "page" => p.offset = Len(file)
        BY <2>4, <3>2
      <4>3. Len(p.records) <= i + 1
        BY <2>1, <2>2, <2>4 DEF LoopKeeps
      <4>4. LoopKeeps(p, i + 1, o, mb)
        BY <2>2, <4>2, <4>3 DEF LoopKeeps
      <4> QED  BY <2>2, <4>1, <4>4
    <3> QED  BY <3>1, <3>2
  <2>6. LoopKeeps(h[i + 1], i + 1, o, mb) /\ LoopReads(h[i + 1], b, o)
    BY <2>3, <2>5, Zenon
  <2> QED  BY <2>1, <2>6, Zenon
<1>13. mr \in T
  <2> HIDE DEF T
  <2>1. \A i \in 0 .. mr : i \in T
    BY <1>11, <1>12, UpTo
  <2>2. mr \in 0 .. mr
    OBVIOUS
  <2> QED  BY <2>1, <2>2
<1> QED  BY <1>8, <1>13

-----------------------------------------------------------------------------
(* What a read answers.                                                    *)

(* Cursors in their shape, the ones nobody handed out included.            *)
AnyCursor == [epoch : Int, offset : Int]

(* A page of the scan from a cursor: it stopped at the end, at the record  *)
(* limit or at the byte budget.                                            *)
PageFrom(at, l, p) ==
  \E scan \in States :
    /\ l.maxRecords \in Nat \ {0} /\ l.maxBytes \in Nat \ {0}
    /\ at = Empty \/ at.epoch = opens
    /\ at.offset \in 0 .. Len(file)
    /\ LoopKeeps(scan, l.maxRecords, at.offset, l.maxBytes)
    /\ \A b \in Seq(Kinds) : LoopReads(scan, b, at.offset)
    /\ scan.outcome \in {"page", "break"}
    /\ p = [outcome |-> "page", records |-> scan.records,
            next |-> [epoch |-> opens, offset |-> scan.offset],
            atEnd |-> scan.offset = Len(file)]

LEMMA ReadAnswers ==
  ASSUME TypeOK, NEW at \in AnyCursor, NEW l \in Limits,
         NEW p \in readHistoryLocked(Request(at, l))
  PROVE  \/ \E w : w # "page" /\ p = Refusal(w, at)
         \/ ValidLimits(l) /\ PageFrom(at, l, p)
<1> DEFINE r == Request(at, l)
<1>0. r.cursor = at /\ r.maxRecords = l.maxRecords /\ r.maxBytes = l.maxBytes
  BY DEF Request
<1>1. ValidLimits(r) <=> ValidLimits(l)
  BY <1>0 DEF ValidLimits
<1>2. Len(file) \in Nat
  BY LenProperties DEF TypeOK
<1> HIDE DEF r
<1>3. p \in (IF ~ValidLimits(r) THEN {Refusal("invalid_request", at)}
        ELSE IF ~NamesThisInstance(r) THEN {Refusal("gap", at)}
        ELSE {Refusal("unavailable", at)} \union
          (IF ~open THEN {}
           ELSE IF InPlace(at.offset) THEN {PageAt(r)}
           ELSE {Refusal("gap", at)}))
  BY <1>0 DEF readHistoryLocked, r
<1>4. CASE p \in {Refusal("invalid_request", at), Refusal("gap", at), Refusal("unavailable", at)}
  BY <1>4
<1>5. CASE ValidLimits(r) /\ NamesThisInstance(r) /\ InPlace(at.offset) /\ p = PageAt(r)
  <2> DEFINE scan == Scan(at.offset, l.maxRecords, l.maxBytes)
  <2>1. l.maxRecords \in Nat \ {0} /\ l.maxBytes \in Nat \ {0}
    BY <1>1, <1>5, HistoryAssumption DEF ValidLimits
  <2>2. EpochAfter(r) = opens
    BY <1>5 DEF EpochAfter
  <2>3. at = Empty \/ (at.epoch = opens /\ at.offset >= 0)
    BY <1>0, <1>5, <2>2 DEF NamesThisInstance
  <2>4. at.offset \in Int /\ at.offset >= 0 /\ at.offset <= Len(file)
    BY <1>5, <2>3 DEF InPlace, Empty, AnyCursor
  <2>5. at.offset \in 0 .. Len(file)
    BY <1>2, <2>4
  <2>6. /\ LoopKeeps(scan, l.maxRecords, at.offset, l.maxBytes)
        /\ \A b \in Seq(Kinds) : LoopReads(scan, b, at.offset)
    <3>1. <<>> \in Seq(Kinds)
      OBVIOUS
    <3>2. PICK mr \in Nat, mb \in Nat, o \in 0 .. Len(file) :
            mr = l.maxRecords /\ mb = l.maxBytes /\ o = at.offset
      BY <2>1, <2>5
    <3>3. \A b \in Seq(Kinds) : /\ LoopKeeps(Scan(o, mr, mb), mr, o, mb)
                                /\ LoopReads(Scan(o, mr, mb), b, o)
      BY <1>2, ScanFacts
    <3> QED  BY <3>1, <3>2, <3>3
  <2>7. PageAt(r) = IF scan.outcome \in {"record_too_large", "corrupt"}
                    THEN Refusal(scan.outcome, at)
                    ELSE [outcome |-> "page", records |-> scan.records,
                          next |-> [epoch |-> opens, offset |-> scan.offset],
                          atEnd |-> scan.offset = Len(file)]
    BY <1>0, <2>2 DEF PageAt
  <2>8. scan \in States /\ scan.outcome \in Outcomes
    BY <2>6 DEF LoopKeeps, States
  <2> HIDE DEF scan
  <2>9. CASE scan.outcome \in {"record_too_large", "corrupt"}
    BY <1>5, <2>7, <2>9
  <2>10. CASE scan.outcome \in {"page", "break"}
    <3>1. p = [outcome |-> "page", records |-> scan.records,
               next |-> [epoch |-> opens, offset |-> scan.offset],
               atEnd |-> scan.offset = Len(file)]
      BY <1>5, <2>7, <2>10
    <3>2. PageFrom(at, l, p)
      BY <2>1, <2>3, <2>5, <2>6, <2>8, <2>10, <3>1, Zenon DEF PageFrom
    <3> QED  BY <1>1, <1>5, <3>2
  <2> QED  BY <2>8, <2>9, <2>10 DEF Outcomes
<1> QED  BY <1>3, <1>4, <1>5

-----------------------------------------------------------------------------
(* What the client knows between two reads: its records are the lines up   *)
(* to its continuation, which stands where a line begins.                  *)

Knows ==
  cursor.epoch = opens =>
    /\ cursor.offset <= Len(file) /\ Prefix(seen, cursor.offset)
    /\ cursor.offset > 0 => IsNewline(file[cursor.offset])
ClientKnows == TypeOK /\ from = 0 /\ Knows

(* Whatever is appended leaves the cells before it alone.                  *)
LEMMA AppendKeeps ==
  ASSUME ClientKnows, NEW t \in Seq(Cells), Len(file) + Len(t) <= MaxCells,
         file' = file \o t,
         UNCHANGED <<replaced, open, opens, historyEpoch, clientVars>>
  PROVE  ClientKnows'
<1>1. PICK m \in Nat, n \in Nat, c \in Seq(Cells) :
        /\ m = Len(file) /\ n = Len(t) /\ c = file \o t /\ Len(c) = m + n
        /\ \A j \in 1 .. m : c[j] = file[j]
  <2>1. file \in Seq(Cells)
    BY DEF ClientKnows, TypeOK
  <2>2. /\ file \o t \in Seq(Cells) /\ Len(file \o t) = Len(file) + Len(t)
        /\ Len(file) \in Nat /\ Len(t) \in Nat
        /\ \A k \in 1 .. Len(file) : (file \o t)[k] = file[k]
    BY <2>1, ConcatFacts
  <2> QED  BY <2>2, Zenon
<1>2. file' = c
  BY <1>1
<1>3. /\ replaced' = replaced /\ open' = open /\ opens' = opens
      /\ historyEpoch' = historyEpoch /\ cursor' = cursor /\ from' = from /\ seen' = seen
  BY DEF clientVars
<1>4. TypeOK'
  <2>1. m + n <= MaxCells
    BY <1>1
  <2> QED  BY <1>1, <1>2, <1>3, <2>1 DEF ClientKnows, TypeOK
<1>5. ASSUME cursor.epoch = opens
      PROVE  /\ cursor.offset <= Len(c) /\ Prefix(seen, cursor.offset)'
             /\ cursor.offset > 0 => IsNewline(c[cursor.offset])
  <2>1. PICK o \in Nat : o = cursor.offset
    BY DEF ClientKnows, TypeOK, Cursor
  <2>2. o <= m /\ Prefix(seen, o) /\ (o > 0 => IsNewline(file[o]))
    BY <1>1, <1>5, <2>1 DEF ClientKnows, Knows
  <2>3. \A j \in 1 .. o : c[j] = file[j]
    BY <1>1, <2>2
  <2>4. \A j \in 1 .. o : Lines(seen)[j] = c[j]
    BY <2>2, <2>3 DEF Prefix
  <2>5. Prefix(seen, cursor.offset)'
    BY <1>2, <1>3, <2>1, <2>2, <2>4 DEF Prefix, Lines, Line
  <2>6. o > 0 => IsNewline(c[o])
    <3>1. SUFFICES ASSUME o > 0 PROVE IsNewline(c[o])
      OBVIOUS
    <3>2. o \in 1 .. o
      BY <3>1
    <3> QED  BY <2>2, <2>3, <3>1, <3>2
  <2> QED  BY <1>1, <2>1, <2>2, <2>5, <2>6
<1>6. Knows'
  BY <1>2, <1>3, <1>5 DEF Knows, IsNewline
<1> QED  BY <1>3, <1>4, <1>6 DEF ClientKnows

(* The cells of a line, or the first n of them, that fit in the file.      *)
LEMMA FirstCells ==
  ASSUME NEW k \in Kinds, NEW n \in 0 .. LineLen[k], n <= MaxCells
  PROVE  /\ SubSeq(Line(k), 1, n) \in Seq(Cells) /\ Len(SubSeq(Line(k), 1, n)) = n
         /\ n = LineLen[k] => Line(k) \in Seq(Cells) /\ Len(Line(k)) = n
<1>1. LineLen[k] \in Nat /\ MaxCells \in Nat /\ n \in Nat
  BY LineFacts, HistoryAssumption
<1>2. \A i \in 1 .. LineLen[k] : Line(k)[i] = [k |-> k, i |-> i]
  BY LineFacts
<1>3. \A i \in 1 .. n : i \in 1 .. LineLen[k] /\ i \in 1 .. MaxCells
  BY <1>1
<1>4. \A i \in 1 .. n : Line(k)[i] \in Cells
  <2>1. \A i \in 1 .. MaxCells : [k |-> k, i |-> i] \in Cells
    BY DEF Cells
  <2> QED  BY <1>2, <1>3, <2>1, Zenon
<1>5. /\ SubSeq(Line(k), 1, n) \in Seq(Cells)
      /\ Len(SubSeq(Line(k), 1, n)) = IF 1 <= n THEN n - 1 + 1 ELSE 0
  BY <1>1, <1>4, SubSeqProperties
<1>6. (IF 1 <= n THEN n - 1 + 1 ELSE 0) = n
  BY <1>1
<1>7. ASSUME n = LineLen[k] PROVE Line(k) \in Seq(Cells) /\ Len(Line(k)) = n
  <2>1. Line(k) = [i \in 1 .. n |-> [k |-> k, i |-> i]]
    BY <1>7 DEF Line
  <2>2. Line(k) \in [1 .. n -> Cells]
    BY <1>3, <2>1 DEF Cells
  <2>3. Line(k) \in Seq(Cells)
    BY <1>1, <2>2
  <2> QED  BY <1>7, <2>3, LineFacts
<1> QED  BY <1>5, <1>6, <1>7

LEMMA ReadKeeps ==
  ASSUME ClientKnows, NEW at \in {Empty, cursor}, NEW l \in Limits, Read(at, l)
  PROVE  ClientKnows'
<1>0. TypeOK
  BY DEF ClientKnows
<1>1. at \in AnyCursor /\ at \in Cursor /\ at.epoch <= opens
  BY <1>0, HistoryAssumption DEF TypeOK, Cursor, AnyCursor, Empty
<1>2. /\ file' = file /\ replaced' = replaced /\ open' = open /\ opens' = opens
      /\ historyEpoch' = EpochAfter(Request(at, l))
  BY DEF Read, fileVars
<1>3. historyEpoch' \in {0, opens}
  BY <1>0, <1>2 DEF EpochAfter, TypeOK
<1>4. PICK p \in readHistoryLocked(Request(at, l)) :
          /\ cursor' = p.next
          /\ IF at = Empty THEN from' = 0 /\ seen' = p.records
                           ELSE from' = from /\ seen' = seen \o p.records
  BY DEF Read
<1>5. opens \in 1 .. MaxOpens /\ Len(file) \in Nat /\ Len(file) <= MaxCells
      /\ seen \in Seq(Kinds) /\ from = 0 /\ MaxCells \in Nat /\ MaxOpens \in Nat
  BY <1>0, LenProperties, HistoryAssumption DEF TypeOK, ClientKnows
<1>6. from' = 0
  BY <1>4, <1>5
<1>7. CASE \E w : w # "page" /\ p = Refusal(w, at)
  <2>1. p.next = at /\ p.records = <<>>
    BY <1>7 DEF Refusal
  <2>2. CASE at = Empty
    <3>1. seen' = <<>> /\ cursor' = Empty
      BY <1>4, <2>1, <2>2
    <3>2. cursor'.epoch # opens' /\ cursor' \in Cursor /\ cursor'.epoch <= opens'
      BY <1>1, <1>2, <1>5, <2>2, <3>1 DEF Empty
    <3>3. seen' \in Seq(Kinds)
      BY <3>1
    <3> QED  BY <1>0, <1>2, <1>3, <1>5, <1>6, <3>2, <3>3 DEF ClientKnows, Knows, TypeOK
  <2>3. CASE at # Empty
    <3>1. seen \o <<>> = seen
      BY <1>5, ConcatEmptySeq
    <3>2. seen' = seen /\ cursor' = cursor
      BY <1>4, <2>1, <2>3, <3>1
    <3>3. TypeOK'
      BY <1>0, <1>2, <1>3, <1>5, <1>6, <3>2 DEF TypeOK
    <3>4. Knows'
      BY <1>2, <3>2 DEF ClientKnows, Knows, Prefix, IsNewline, Lines, Line
    <3> QED  BY <1>6, <3>3, <3>4 DEF ClientKnows
  <2> QED  BY <2>2, <2>3
<1>8. CASE PageFrom(at, l, p)
  <2>1. PICK scan \in States :
          /\ at = Empty \/ at.epoch = opens
          /\ at.offset \in 0 .. Len(file)
          /\ LoopKeeps(scan, l.maxRecords, at.offset, l.maxBytes)
          /\ \A b \in Seq(Kinds) : LoopReads(scan, b, at.offset)
          /\ p = [outcome |-> "page", records |-> scan.records,
                  next |-> [epoch |-> opens, offset |-> scan.offset],
                  atEnd |-> scan.offset = Len(file)]
    BY <1>8 DEF PageFrom
  <2>2. cursor' = [epoch |-> opens, offset |-> scan.offset] /\ p.records = scan.records
    BY <1>4, <2>1
  <2>3. PICK rs \in Seq(Kinds), o \in 0 .. Len(file) : rs = scan.records /\ o = scan.offset
    BY DEF States
  <2>4. PICK b \in Seq(Kinds) : Prefix(b, at.offset) /\ seen' = b \o rs
    <3>1. CASE at = Empty
      <4>1. <<>> \in Seq(Kinds) /\ Len(<<>>) = 0
        OBVIOUS
      <4>2. Prefix(<<>>, 0)
        BY <4>1, LinesEmpty DEF Prefix
      <4>3. at.offset = 0
        BY <3>1 DEF Empty
      <4>4. <<>> \o rs = rs
        BY ConcatEmptySeq
      <4>5. seen' = rs
        BY <1>4, <2>2, <2>3, <3>1
      <4> QED  BY <4>1, <4>2, <4>3, <4>4, <4>5
    <3>2. CASE at # Empty
      <4>1. at = cursor /\ cursor.epoch = opens
        BY <2>1, <3>2
      <4>2. Prefix(seen, at.offset)
        BY <4>1 DEF ClientKnows, Knows
      <4>3. seen' = seen \o rs
        BY <1>4, <2>2, <2>3, <3>2
      <4> QED  BY <1>5, <4>2, <4>3
    <3> QED  BY <3>1, <3>2
  <2>5. Prefix(b \o rs, o)
    BY <2>1, <2>3, <2>4 DEF LoopReads
  <2>6. b \o rs \in Seq(Kinds)
    BY ConcatProperties
  <2>7. cursor' \in Cursor /\ cursor'.epoch = opens /\ cursor'.offset = o
    <3>1. o \in 0 .. MaxCells /\ opens \in 0 .. MaxOpens
      BY <1>5
    <3> QED  BY <2>2, <2>3, <3>1 DEF Cursor
  <2>8. o > 0 => IsNewline(file[o])
    <3>1. CASE rs = <<>>
      <4>1. o = at.offset
        BY <2>1, <2>3, <3>1 DEF LoopKeeps
      <4>2. CASE at = Empty
        BY <4>1, <4>2 DEF Empty
      <4>3. CASE at # Empty
        <5>1. at = cursor /\ cursor.epoch = opens
          BY <2>1, <4>3
        <5> QED  BY <4>1, <5>1 DEF ClientKnows, Knows
      <4> QED  BY <4>2, <4>3
    <3>2. CASE rs # <<>>
      BY <2>1, <2>3, <3>2 DEF LoopKeeps
    <3> QED  BY <3>1, <3>2
  <2>9. seen' \in Seq(Kinds)
    BY <2>4, <2>6
  <2>10. TypeOK'
    BY <1>0, <1>2, <1>3, <1>5, <1>6, <2>7, <2>9 DEF TypeOK
  <2>11. Prefix(seen, cursor.offset)'
    <3>1. Prefix(b \o rs, o) /\ seen' = b \o rs /\ cursor'.offset = o
      BY <2>4, <2>5, <2>7
    <3> QED  BY <1>2, <3>1 DEF Prefix, Lines, Line
  <2>12. Knows'
    BY <1>2, <2>3, <2>7, <2>8, <2>11 DEF Knows, IsNewline
  <2> QED  BY <1>6, <2>10, <2>12 DEF ClientKnows
<1> QED  BY <1>0, <1>1, <1>7, <1>8, ReadAnswers

LEMMA ClientKnowsInit == Init => ClientKnows
<1> SUFFICES ASSUME Init PROVE ClientKnows
  OBVIOUS
<1>1. /\ file = <<>> /\ replaced = FALSE /\ open = TRUE /\ opens = 1
      /\ historyEpoch = 0 /\ cursor = [epoch |-> 0, offset |-> 0] /\ from = 0 /\ seen = <<>>
  BY DEF Init, Empty
<1>2. <<>> \in Seq(Cells) /\ Len(<<>>) = 0 /\ <<>> \in Seq(Kinds)
  OBVIOUS
<1>3. 0 \in 0 .. MaxCells /\ 0 \in 0 .. MaxOpens /\ 1 \in 1 .. MaxOpens /\ 0 <= MaxCells
  BY HistoryAssumption
<1>4. TypeOK
  <2>1. cursor \in Cursor /\ cursor.epoch = 0
    BY <1>1, <1>3 DEF Cursor
  <2>2. cursor.epoch <= opens
    BY <1>1, <2>1
  <2>3. file \in Seq(Cells) /\ Len(file) <= MaxCells /\ seen \in Seq(Kinds)
    BY <1>1, <1>2, <1>3
  <2> QED  BY <1>1, <1>3, <2>1, <2>2, <2>3 DEF TypeOK
<1> QED  BY <1>1, <1>4 DEF ClientKnows, Knows

LEMMA ClientKnowsNext == ClientKnows /\ [Next]_vars => ClientKnows'
<1> SUFFICES ASSUME ClientKnows, [Next]_vars PROVE ClientKnows'
  OBVIOUS
<1>0. TypeOK /\ Len(file) \in Nat /\ MaxCells \in Nat /\ MaxOpens \in Nat
  BY LenProperties, HistoryAssumption DEF ClientKnows, TypeOK
<1>1. ASSUME NEW k \in OwnKinds, NEW n \in 1 .. LineLen[k], Write(k, n) PROVE ClientKnows'
  <2>1. k \in Kinds /\ LineLen[k] \in Nat
    BY LineFacts, HistoryAssumption
  <2>2. n \in 0 .. LineLen[k] /\ n <= MaxCells /\ Len(file) + n <= MaxCells
    BY <1>0, <1>1, <2>1 DEF Write
  <2>3. PICK t \in Seq(Cells) : t = SubSeq(Line(k), 1, n) /\ Len(t) = n
    BY <2>1, <2>2, FirstCells
  <2>4. file' = file \o t /\ UNCHANGED <<replaced, open, opens, historyEpoch, clientVars>>
    BY <1>1, <2>3 DEF Write
  <2> QED  BY <2>2, <2>3, <2>4, AppendKeeps
<1>2. ASSUME NEW k \in Kinds, ExternalAppend(k) PROVE ClientKnows'
  <2>1. LineLen[k] \in Nat
    BY LineFacts
  <2>2. LineLen[k] \in 0 .. LineLen[k] /\ LineLen[k] <= MaxCells
        /\ Len(file) + LineLen[k] <= MaxCells
    BY <1>0, <1>2, <2>1 DEF ExternalAppend
  <2>3. PICK t \in Seq(Cells) : t = Line(k) /\ Len(t) = LineLen[k]
    BY <2>2, FirstCells
  <2>4. file' = file \o t /\ UNCHANGED <<replaced, open, opens, historyEpoch, clientVars>>
    BY <1>2, <2>3 DEF ExternalAppend
  <2> QED  BY <2>2, <2>3, <2>4, AppendKeeps
<1>3. ASSUME Close \/ Replace \/ UNCHANGED vars PROVE ClientKnows'
  <2>1. /\ file' = file /\ opens' = opens /\ historyEpoch' = historyEpoch
        /\ cursor' = cursor /\ from' = from /\ seen' = seen
        /\ replaced' \in BOOLEAN /\ open' \in BOOLEAN
    BY <1>0, <1>3 DEF Close, Replace, vars, fileVars, clientVars, TypeOK
  <2>2. TypeOK'
    BY <1>0, <2>1 DEF TypeOK
  <2>3. Knows'
    BY <2>1 DEF ClientKnows, Knows, Prefix, IsNewline, Lines, Line
  <2> QED  BY <2>1, <2>2, <2>3 DEF ClientKnows
<1>4. ASSUME NEW first \in {<<>>} \union {Line(k) : k \in OwnKinds}, Reopen(first)
      PROVE  ClientKnows'
  <2>1. first \in Seq(Cells) /\ Len(first) <= MaxCells
    <3>1. Len(first) <= MaxCells
      BY <1>4 DEF Reopen
    <3>2. CASE first = <<>>
      BY <3>1, <3>2
    <3>3. CASE first # <<>>
      <4>1. PICK k \in OwnKinds : first = Line(k)
        BY <3>3
      <4>2. k \in Kinds /\ LineLen[k] \in Nat /\ Len(Line(k)) = LineLen[k]
        BY LineFacts, HistoryAssumption
      <4>3. LineLen[k] \in 0 .. LineLen[k] /\ LineLen[k] <= MaxCells
        BY <3>1, <4>1, <4>2
      <4> QED  BY <3>1, <4>1, <4>2, <4>3, FirstCells
    <3> QED  BY <3>2, <3>3
  <2>2. /\ file' \in Seq(Cells) /\ Len(file') <= MaxCells /\ replaced' = FALSE
        /\ open' = TRUE /\ opens' = opens + 1 /\ historyEpoch' = 0
        /\ cursor' = cursor /\ from' = from /\ seen' = seen
    BY <1>0, <1>4, <2>1 DEF Reopen, clientVars, TypeOK
  <2>3. opens' \in 1 .. MaxOpens /\ cursor.epoch \in Nat /\ cursor.epoch <= opens
        /\ opens \in Nat
    BY <1>0, <1>4, <2>2 DEF Reopen, TypeOK, Cursor
  <2>4. cursor.epoch <= opens' /\ cursor.epoch # opens'
    BY <2>2, <2>3
  <2>5. TypeOK'
    BY <1>0, <2>2, <2>3, <2>4 DEF TypeOK
  <2> QED  BY <2>2, <2>4, <2>5 DEF ClientKnows, Knows
<1>5. ASSUME NEW at \in {Empty, cursor}, NEW l \in Limits, Read(at, l) PROVE ClientKnows'
  BY <1>5, ReadKeeps
<1> QED  BY <1>1, <1>2, <1>3, <1>4, <1>5 DEF Next

-----------------------------------------------------------------------------
(* HistoryReader.                                                          *)

THEOREM ClientKnowsInvariant == Spec => []ClientKnows
<1> QED  BY ClientKnowsInit, ClientKnowsNext, PTL DEF Spec

LEMMA FrontFacts ==
  ASSUME NEW S, NEW s, NEW n \in Nat, \A i \in 1 .. n : s[i] \in S
  PROVE  /\ SubSeq(s, 1, n) \in Seq(S) /\ Len(SubSeq(s, 1, n)) = n
         /\ \A i \in 1 .. n : SubSeq(s, 1, n)[i] = s[i]
<1>1. SubSeq(s, 1, n) \in Seq(S)
  BY SubSeqProperties
<1>2. Len(SubSeq(s, 1, n)) = n
  BY SubSeqProperties
<1>3. \A i \in 1 .. n : SubSeq(s, 1, n)[i] = s[i]
  OBVIOUS
<1> QED  BY <1>1, <1>2, <1>3

LEMMA PrefixIsSubSeq ==
  ASSUME NEW s, NEW o, file \in Seq(Cells), Prefix(s, o), o <= Len(file)
  PROVE  Lines(s) = SubSeq(file, 1, o)
<1>1. s \in Seq(Kinds) /\ o \in Nat /\ Len(file) \in Nat
  BY LenProperties DEF Prefix
<1>2. PICK a \in Seq(Cell) : a = Lines(s)
  <2>1. CASE Kinds = {}
    <3>1. s = <<>>
      <4>1. Len(s) \in Nat /\ \A i \in 1 .. Len(s) : s[i] \in Kinds
        BY <1>1, LenProperties
      <4>2. Len(s) = 0
        BY <2>1, <4>1
      <4> QED  BY <1>1, <4>2, EmptySeq
    <3>2. <<>> \in Seq(Cell)
      OBVIOUS
    <3> QED  BY <3>1, <3>2, LinesEmpty
  <2>2. CASE Kinds # {}
    BY <1>1, <2>2, LinesAppend
  <2> QED  BY <2>1, <2>2
<1>3. Len(a) = o /\ \A j \in 1 .. o : a[j] = file[j]
  BY <1>2 DEF Prefix
<1>4. \A j \in 1 .. o : a[j] \in Cell
  BY <1>3
<1>5. \A j \in 1 .. o : file[j] \in Cell
  BY <1>3, <1>4
<1>6. PICK c \in Seq(Cell) : c = SubSeq(file, 1, o)
  BY <1>1, <1>5, FrontFacts
<1>7. Len(c) = o /\ \A i \in 1 .. o : c[i] = file[i]
  BY <1>1, <1>5, <1>6, FrontFacts
<1>8. a = c
  <2>1. \A i \in 1 .. Len(a) : a[i] = c[i]
    BY <1>3, <1>7
  <2> QED  BY <1>3, <1>7, <2>1, SeqEqual
<1> QED  BY <1>2, <1>6, <1>8

(* readHistoryLocked and its continuations: whatever is appended, torn,    *)
(* refused, retried or reopened, the client has been given exactly the     *)
(* lines stored between where it began and its continuation, in order.     *)
THEOREM ReadsExactlyInvariant == Spec => []ReadsExactly
<1>1. ASSUME ClientKnows PROVE ReadsExactly
  <2>1. TypeOK /\ from = 0 /\ Knows
    BY <1>1 DEF ClientKnows
  <2>2. ASSUME cursor.epoch = opens
        PROVE  Lines(seen) = SubSeq(file, from + 1, cursor.offset)
    <3>1. /\ Prefix(seen, cursor.offset) /\ cursor.offset <= Len(file)
          /\ file \in Seq(Cells)
      BY <2>1, <2>2 DEF Knows, TypeOK
    <3>2. Lines(seen) = SubSeq(file, 1, cursor.offset)
      BY <3>1, PrefixIsSubSeq
    <3>3. from + 1 = 1
      BY <2>1
    <3> QED  BY <3>2, <3>3
  <2> QED  BY <2>1, <2>2 DEF ReadsExactly
<1> QED  BY <1>1, ClientKnowsInvariant, PTL

(* validateHistoryPage accepts every answer of readHistoryLocked, to every *)
(* request and from every cursor, also one nobody handed out.              *)
THEOREM ClientAcceptsInvariant == Spec => []ClientAccepts
<1>1. ASSUME ClientKnows PROVE ClientAccepts
  <2>0. TypeOK /\ opens \in Nat /\ opens >= 1 /\ MaxCells \in Nat
    BY <1>1, HistoryAssumption DEF ClientKnows, TypeOK
  <2>1. SUFFICES ASSUME NEW at \in {Empty, cursor} \union
                          [epoch : {opens}, offset : -1 .. MaxCells + 1],
                        NEW l \in Limits,
                        NEW p \in readHistoryLocked(Request(at, l))
                 PROVE  validateHistoryPage(p, Request(at, l))
    BY DEF ClientAccepts
  <2>2. at \in AnyCursor
    <3>1. Empty \in AnyCursor
      BY DEF Empty, AnyCursor
    <3>2. cursor \in AnyCursor
      BY <2>0, HistoryAssumption DEF TypeOK, Cursor, AnyCursor
    <3>3. \A c \in [epoch : {opens}, offset : -1 .. MaxCells + 1] : c \in AnyCursor
      BY <2>0 DEF AnyCursor
    <3> QED  BY <3>1, <3>2, <3>3
  <2>3. PICK r : /\ r = Request(at, l) /\ r.cursor = at
                 /\ r.maxRecords = l.maxRecords /\ r.maxBytes = l.maxBytes
    BY DEF Request
  <2>4. ValidLimits(r) <=> ValidLimits(l)
    BY <2>3 DEF ValidLimits
  <2>5. CASE \E w : w # "page" /\ p = Refusal(w, at)
    <3>1. p.outcome # "page" /\ p.records = <<>> /\ p.next = at /\ p.atEnd = FALSE
      BY <2>5 DEF Refusal
    <3> QED  BY <2>3, <3>1 DEF validateHistoryPage
  <2>6. CASE ValidLimits(l) /\ PageFrom(at, l, p)
    <3>1. PICK scan \in States :
            /\ l.maxRecords \in Nat \ {0} /\ l.maxBytes \in Nat \ {0}
            /\ at.offset \in 0 .. Len(file)
            /\ LoopKeeps(scan, l.maxRecords, at.offset, l.maxBytes)
            /\ scan.outcome \in {"page", "break"}
            /\ p = [outcome |-> "page", records |-> scan.records,
                    next |-> [epoch |-> opens, offset |-> scan.offset],
                    atEnd |-> scan.offset = Len(file)]
      BY <2>6 DEF PageFrom
    <3>2. /\ p.outcome = "page" /\ p.records = scan.records /\ p.next.epoch = opens
          /\ p.next.offset = scan.offset /\ p.atEnd = (scan.offset = Len(file))
      BY <3>1
    <3>3. PICK rs \in Seq(Kinds) : rs = scan.records
      BY DEF States
    <3>4. Len(rs) <= l.maxRecords /\ SizeOf(rs) <= l.maxBytes
      BY <3>1, <3>3 DEF LoopKeeps
    <3>5. p.next # Empty
      BY <2>0, <3>2 DEF Empty
    <3>6. rs # <<>> => p.next # at
      <4>1. rs # <<>> => at.offset < scan.offset
        BY <3>1, <3>3 DEF LoopKeeps
      <4>2. at.offset \in Int
        BY <2>2 DEF AnyCursor
      <4> QED  BY <3>2, <4>1, <4>2
    <3>7. scan.offset # Len(file) => rs # <<>>
      <4>1. SUFFICES ASSUME scan.offset # Len(file), rs = <<>> PROVE FALSE
        OBVIOUS
      <4>2. scan.outcome = "page" /\ Len(rs) = l.maxRecords
        BY <3>1, <3>3, <4>1 DEF LoopKeeps
      <4>3. Len(rs) = 0
        BY <4>1
      <4> QED  BY <3>1, <4>2, <4>3
    <3> QED  BY <2>3, <2>4, <2>6, <3>2, <3>3, <3>4, <3>5, <3>6, <3>7 DEF validateHistoryPage
  <2> QED  BY <2>0, <2>2, <2>5, <2>6, ReadAnswers
<1> QED  BY <1>1, ClientKnowsInvariant, PTL

(* The loop with one turn, where there is more to read.                    *)
LEMMA ScanOne ==
  ASSUME NEW o, NEW mb, o < Len(file)
  PROVE  Scan(o, 1, mb) = Turn(StartAt(o), mb)
<1> DEFINE f == [i \in 0 .. 1 |-> IF i = 0 THEN StartAt(o) ELSE Turn(StartAt(o), mb)]
           h == CHOOSE h : Turns(h, o, 1, mb)
<1>1. StartAt(o).outcome = "page" /\ StartAt(o).offset = o
  BY DEF StartAt
<1>2. f[0] = StartAt(o) /\ f[1] = Turn(StartAt(o), mb)
  OBVIOUS
<1>3. ASSUME NEW i \in 0 .. 1
      PROVE  f[i] = IF i = 0 THEN StartAt(o)
                    ELSE LET p == f[i - 1]
                         IN IF p.outcome = "page" /\ p.offset < Len(file)
                            THEN Turn(p, mb) ELSE p
  <2>1. CASE i = 0
    BY <1>2, <2>1
  <2>2. CASE i = 1
    <3>1. i - 1 = 0 /\ i # 0
      BY <2>2
    <3>2. f[i - 1] = StartAt(o)
      BY <1>2, <3>1
    <3> QED  BY <1>1, <1>2, <2>2, <3>1, <3>2
  <2> QED  BY <2>1, <2>2
<1>4. f = [i \in 0 .. 1 |-> f[i]]
  OBVIOUS
<1> HIDE DEF f
<1>5. Turns(f, o, 1, mb)
  BY <1>3, <1>4, Zenon DEF Turns
<1>6. Turns(h, o, 1, mb)
  BY <1>5
<1>7. Scan(o, 1, mb) = h[1]
  BY DEF Scan, Turns, StartAt
<1> HIDE DEF h
<1>8. h[0] = StartAt(o)
  BY <1>6 DEF Turns
<1>9. h[1] = IF h[0].outcome = "page" /\ h[0].offset < Len(file) THEN Turn(h[0], mb) ELSE h[0]
  BY <1>6 DEF Turns
<1> QED  BY <1>1, <1>7, <1>8, <1>9

(* A turn that stands before a stored line within the limits takes it.     *)
LEMMA TurnTakes ==
  ASSUME Len(file) \in Nat, NEW o \in Nat, NEW k \in Kinds, NEW mb \in Nat,
         LineAt(o, k), LineLen[k] <= MaxPageBytes, EncSize[k] <= mb
  PROVE  Turn(StartAt(o), mb) = Taken(StartAt(o), k)
<1> DEFINE p == StartAt(o)
           lim == LineLimit(p)
           n == ReadLine(p.offset, lim)
           whole == {c \in Kinds : Decodes(p.offset, n, c)}
<1>0. p.offset = o /\ p.records = <<>> /\ p.used = 0 /\ p.outcome = "page"
  BY DEF StartAt
<1>1. PICK len \in Nat, e \in Nat : len = LineLen[k] /\ len >= 1 /\ e = EncSize[k]
  BY LineFacts
<1>2. MaxPageBytes \in Nat
  BY HistoryAssumption
<1>3. lim \in Nat /\ lim >= len
  BY <1>0, <1>1, <1>2 DEF LineLimit, MinOf, LineAt
<1>4. \A j \in 1 .. len : file[o + j] = [k |-> k, i |-> j]
  BY <1>1 DEF LineAt
<1>5. Turn(p, mb) = CASE TooLong(n) -> Stop(p, "record_too_large")
       [] ~TooLong(n) /\ whole = {} -> Stop(p, "corrupt")
       [] OTHER ->
            LET c == CHOOSE c \in whole : TRUE
            IN IF p.used + EncSize[c] > mb
               THEN BudgetBreak(p)
               ELSE [p EXCEPT !.records = Append(@, c),
                              !.used = @ + EncSize[c],
                              !.offset = @ + Advance(c, n)]
  BY DEF Turn
<1> HIDE DEF lim, p
<1>6. \A j \in 1 .. len : IsNewline(file[o + j]) <=> j = len
  <2>1. ASSUME NEW j \in 1 .. len PROVE IsNewline(file[o + j]) <=> j = len
    <3>1. file[o + j] = [k |-> k, i |-> j]
      BY <1>4
    <3>2. file[o + j].i = j /\ file[o + j].k = k
      BY <3>1
    <3> QED  BY <1>1, <3>2 DEF IsNewline
  <2> QED  BY <2>1
<1>7. n = len
  <2>1. len \in 1 .. lim /\ len \in 1 .. len
    BY <1>1, <1>3
  <2>2. len \in Newlines(o, lim)
    BY <1>6, <2>1 DEF Newlines
  <2>3. ASSUME NEW j \in Newlines(o, lim) PROVE len <= j
    <3>1. j \in 1 .. lim /\ IsNewline(file[o + j])
      BY DEF Newlines
    <3>2. j < len => j \in 1 .. len
      BY <1>1, <3>1
    <3> QED  BY <1>1, <1>6, <3>1, <3>2
  <2>4. lim >= 1
    BY <1>1, <1>3
  <2>5. ReadLine(o, lim) = len
    BY <1>3, <2>2, <2>3, <2>4, ReadLineFacts
  <2> QED  BY <1>0, <2>5
<1> HIDE DEF n
<1>8. ~TooLong(n)
  BY <1>1, <1>2, <1>7 DEF TooLong
<1>9. k \in whole
  BY <1>0, <1>1, <1>4, <1>7 DEF Decodes
<1>10. ASSUME NEW c \in whole PROVE c = k
  <2>1. 1 \in 1 .. n /\ 1 \in 1 .. len
    BY <1>1, <1>7
  <2>2. file[o + 1] = [k |-> c, i |-> 1]
    BY <1>0, <2>1 DEF Decodes
  <2>3. file[o + 1] = [k |-> k, i |-> 1]
    BY <1>4, <2>1
  <2>4. file[o + 1].k = c /\ file[o + 1].k = k
    BY <2>2, <2>3
  <2> QED  BY <2>4
<1> DEFINE c == CHOOSE c \in whole : TRUE
<1>11. c = k
  BY <1>9, <1>10
<1>12. whole # {}
  BY <1>9
<1>13. Turn(p, mb) = IF p.used + EncSize[c] > mb
               THEN BudgetBreak(p)
               ELSE [p EXCEPT !.records = Append(@, c),
                              !.used = @ + EncSize[c],
                              !.offset = @ + Advance(c, n)]
  BY <1>5, <1>8, <1>12
<1> HIDE DEF c, whole
<1>14. ~(p.used + EncSize[c] > mb)
  BY <1>0, <1>1, <1>11
<1>15. Turn(p, mb) = [p EXCEPT !.records = Append(@, k), !.used = @ + EncSize[k],
                               !.offset = @ + LineLen[k]]
  BY <1>1, <1>7, <1>11, <1>13, <1>14 DEF Advance
<1>16. p = [offset |-> o, records |-> <<>>, used |-> 0, outcome |-> "page"]
  BY DEF p, StartAt
<1>17. Turn(p, mb) = Taken(p, k)
  BY <1>15, <1>16 DEF Taken
<1> QED  BY <1>17 DEF p

(* A client that asks for one record at a time is never held back by a     *)
(* record that fits the largest page: its continuation stands where the    *)
(* record's line begins.                                                   *)
THEOREM OneByOneAdvancesInvariant == Spec => []OneByOneAdvances
<1>1. ASSUME ClientKnows PROVE OneByOneAdvances
  <2>0. /\ TypeOK /\ opens \in Nat /\ opens >= 1 /\ Len(file) \in Nat
        /\ MaxPageBytes \in Nat \ {0} /\ MaxPageRecords \in Nat \ {0}
        /\ cursor.offset \in Nat
    BY <1>1, LenProperties, HistoryAssumption DEF ClientKnows, TypeOK, Cursor
  <2> DEFINE r == [cursor |-> cursor, maxRecords |-> 1, maxBytes |-> MaxPageBytes]
  <2>1. SUFFICES ASSUME NEW k \in Kinds, open, ~replaced, cursor.epoch = opens,
                        cursor.offset + LineLen[k] <= Len(file),
                        Decodes(cursor.offset, LineLen[k], k),
                        LineLen[k] <= MaxPageBytes, EncSize[k] <= MaxPageBytes
                 PROVE  \E p \in readHistoryLocked(r) : p.outcome = "page" /\ p.records = <<k>>
    BY DEF OneByOneAdvances
  <2>2. PICK o \in Nat : o = cursor.offset
    BY <2>0
  <2>3. r.cursor = cursor /\ r.maxRecords = 1 /\ r.maxBytes = MaxPageBytes
    OBVIOUS
  <2> HIDE DEF r
  <2>4. ValidLimits(r)
    BY <2>0, <2>3 DEF ValidLimits
  <2>5. EpochAfter(r) = opens
    BY <2>4 DEF EpochAfter
  <2>6. NamesThisInstance(r)
    BY <2>0, <2>1, <2>3, <2>5 DEF NamesThisInstance
  <2>7. InPlace(o)
    BY <1>1, <2>1, <2>2 DEF ClientKnows, Knows, InPlace
  <2>8. LineAt(o, k) /\ o < Len(file)
    <3>1. LineLen[k] \in Nat /\ LineLen[k] >= 1
      BY LineFacts
    <3>2. o < Len(file)
      BY <2>0, <2>1, <2>2, <3>1
    <3> QED  BY <2>1, <2>2, <3>2 DEF LineAt, Decodes
  <2>9. Scan(o, 1, MaxPageBytes) = Taken(StartAt(o), k)
    BY <2>0, <2>1, <2>8, ScanOne, TurnTakes
  <2>10. PICK scan : scan = Scan(o, 1, MaxPageBytes) /\ scan.outcome = "page"
                     /\ scan.records = Append(<<>>, k)
    BY <2>9 DEF Taken, StartAt
  <2>11. PICK p : p = PageAt(r)
    OBVIOUS
  <2>12. p = [outcome |-> "page", records |-> scan.records,
              next |-> [epoch |-> EpochAfter(r), offset |-> scan.offset],
              atEnd |-> scan.offset = Len(file)]
    BY <2>2, <2>3, <2>10, <2>11 DEF PageAt
  <2>13. p.outcome = "page" /\ p.records = Append(<<>>, k)
    BY <2>10, <2>12
  <2>14. Append(<<>>, k) = <<k>>
    OBVIOUS
  <2>15. p \in readHistoryLocked(r)
    BY <2>1, <2>2, <2>3, <2>4, <2>6, <2>7, <2>11 DEF readHistoryLocked
  <2> QED  BY <2>13, <2>14, <2>15
<1> QED  BY <1>1, ClientKnowsInvariant, PTL

-----------------------------------------------------------------------------
(* Timestamps: the carrying of minutes, days, months and years against the *)
(* number of the day.                                                      *)

(* The days before a year.                                                 *)
YearStart(y) == 365 * y + ((y + 3) \div 4) - ((y + 99) \div 100) + ((y + 399) \div 400)
Leap(y) == IF LeapYear(y) THEN 1 ELSE 0

LEMMA NextYear ==
  ASSUME NEW y \in Int
  PROVE  YearStart(y + 1) = YearStart(y) + 365 + Leap(y)
<1> DEFINE a == (y + 3) \div 4
           b == (y + 99) \div 100
           c == (y + 399) \div 400
           i == IF y % 4 = 0 THEN 1 ELSE 0
           j == IF y % 100 = 0 THEN 1 ELSE 0
           k == IF y % 400 = 0 THEN 1 ELSE 0
<1>1. ((y + 1) + 3) \div 4 = a + i
  OBVIOUS
<1>2. ((y + 1) + 99) \div 100 = b + j
  OBVIOUS
<1>3. ((y + 1) + 399) \div 400 = c + k
  OBVIOUS
<1>4. y % 400 = 0 => y % 100 = 0
  OBVIOUS
<1>5. y % 100 = 0 => y % 4 = 0
  OBVIOUS
<1>6. Leap(y) = i - j + k
  BY <1>4, <1>5 DEF Leap, LeapYear
<1>7. a \in Int /\ b \in Int /\ c \in Int /\ i \in Int /\ j \in Int /\ k \in Int
  OBVIOUS
<1>8. YearStart(y) = 365 * y + a - b + c
  BY DEF YearStart
<1>9. YearStart(y + 1) = 365 * (y + 1) + (((y + 1) + 3) \div 4) - (((y + 1) + 99) \div 100)
                         + (((y + 1) + 399) \div 400)
  BY DEF YearStart
<1> HIDE DEF a, b, c, i, j, k
<1>10. YearStart(y + 1) = 365 * (y + 1) + (a + i) - (b + j) + (c + k)
  BY <1>1, <1>2, <1>3, <1>9
<1> QED  BY <1>6, <1>7, <1>8, <1>10

LEMMA YearTypes ==
  ASSUME NEW y \in Int
  PROVE  YearStart(y) \in Int /\ Leap(y) \in Int /\ Leap(y) >= 0 /\ Leap(y) <= 1
BY DEF YearStart, Leap

LEMMA MonthDays ==
  ASSUME NEW y \in Int, NEW m \in 1 .. 12
  PROVE  /\ timestampDays(y, m) \in 28 .. 31
         /\ DaysBefore(m) \in 0 .. 334 /\ DaysBefore(m + 1) \in 0 .. 365
         /\ timestampDays(y, m) = DaysBefore(m + 1) - DaysBefore(m)
                                  + (IF m = 2 THEN Leap(y) ELSE 0)
<1>1. Leap(y) \in 0 .. 1
  BY DEF Leap
<1>2. LeapYear(y) <=> y % 4 = 0 /\ (y % 100 # 0 \/ y % 400 = 0)
  BY DEF LeapYear
<1>3. timestampDays(y, m) = CASE m = 2 -> 28 + Leap(y) [] m \in {4, 6, 9, 11} -> 30 [] OTHER -> 31
  BY <1>2 DEF timestampDays, Leap
<1> QED  BY <1>1, <1>3 DEF DaysBefore

LEMMA DayNumberIs ==
  ASSUME NEW y \in Int, NEW m \in 1 .. 12, NEW d \in Int
  PROVE  DayNumber(y, m, d) = YearStart(y) + DaysBefore(m) + (IF m > 2 THEN Leap(y) ELSE 0)
                              + d - 1
BY DEF DayNumber, YearStart, Leap

(* The ranges as predicates, so that a lemma applies without arithmetic.   *)
Dated(y, m, d) == y \in Int /\ m \in 1 .. 12 /\ d \in Int /\ d >= 1 /\ d <= timestampDays(y, m)
Nearby(y)      == y >= -1 /\ y <= 10000
FourDigits(y)  == y \in 0 .. 9999
OneDay(over)   == over \in {-1, 0, 1}

(* A day up or down, carried, is the day before or after.                  *)
LEMMA CarryFacts ==
  ASSUME NEW y, NEW m, NEW d, Dated(y, m, d), FourDigits(y), NEW over, OneDay(over)
  PROVE  \E y2, m2, d2 :
           /\ CarryUp(CarryDown(Date(y, m, d + over))) = Date(y2, m2, d2)
           /\ Dated(y2, m2, d2) /\ Nearby(y2)
           /\ DayNumber(y2, m2, d2) = DayNumber(y, m, d) + over
<1>0. /\ y \in Int /\ y >= 0 /\ y <= 9999 /\ m \in 1 .. 12
      /\ d \in Int /\ d >= 1 /\ d <= timestampDays(y, m) /\ over \in {-1, 0, 1}
  BY DEF Dated, FourDigits, OneDay
<1>1. \A y2 \in Int, m2 \in 1 .. 12, d2 \in Int :
         y2 >= y - 1 /\ y2 <= y + 1 /\ d2 >= 1 /\ d2 <= timestampDays(y2, m2)
         => Dated(y2, m2, d2) /\ Nearby(y2)
  BY <1>0 DEF Dated, Nearby
<1>2. PICK days \in 28 .. 31 : days = timestampDays(y, m)
  BY <1>0, MonthDays
<1>3. PICK s \in Int : s = YearStart(y)
  BY <1>0, YearTypes
<1>4. PICK l \in 0 .. 1 : l = Leap(y)
  <2>1. Leap(y) \in 0 .. 1
    BY DEF Leap
  <2> QED  BY <2>1
<1>5. PICK a \in 0 .. 334, b \in 0 .. 365 : a = DaysBefore(m) /\ b = DaysBefore(m + 1)
  <2>1. DaysBefore(m) \in 0 .. 334 /\ DaysBefore(m + 1) \in 0 .. 365
    BY <1>0, MonthDays
  <2> QED  BY <2>1
<1>6. PICK c : c = Date(y, m, d + over) /\ c.y = y /\ c.m = m /\ c.d = d + over
  <2>1. PICK c : c = Date(y, m, d + over)
    OBVIOUS
  <2>2. c.y = y /\ c.m = m /\ c.d = d + over
    BY <2>1 DEF Date
  <2> QED  BY <2>1, <2>2
<1>7. DayNumber(y, m, d) = s + a + (IF m > 2 THEN l ELSE 0) + d - 1
  BY <1>0, <1>3, <1>4, <1>5, DayNumberIs
<1>8. days = b - a + (IF m = 2 THEN l ELSE 0)
  BY <1>0, <1>2, <1>4, <1>5, MonthDays
<1>9. CASE over = -1 /\ d = 1
  <2>1. c.d = 0
    BY <1>0, <1>6, <1>9
  <2>2. CASE m = 1
    <3>0. 12 \in 1 .. 12 /\ y - 1 \in Int /\ 31 \in Int /\ (y - 1) + 1 = y /\ y - 1 >= y - 1 /\ y - 1 <= y + 1
      BY <1>0
    <3>1. timestampDays(y - 1, 12) = 31
      BY DEF timestampDays
    <3>2. CarryDown(c) = Date(y - 1, 12, 31)
      BY <1>6, <2>1, <2>2, <3>1 DEF CarryDown
    <3>3. CarryUp(CarryDown(c)) = Date(y - 1, 12, 31)
      BY <3>1, <3>2 DEF CarryUp, Date
    <3>4. PICK s1 \in Int, l1 \in Int : s1 = YearStart(y - 1) /\ l1 = Leap(y - 1)
      BY <3>0, YearTypes
    <3>5. DayNumber(y - 1, 12, 31) = s1 + DaysBefore(12) + (IF 12 > 2 THEN l1 ELSE 0) + 31 - 1
      BY <3>0, <3>4, DayNumberIs
    <3>6. DaysBefore(12) = 334 /\ (m = 1 => DaysBefore(m) = 0)
      BY DEF DaysBefore
    <3>7. YearStart((y - 1) + 1) = s1 + 365 + l1
      BY <3>0, <3>4, NextYear
    <3>8. s = s1 + 365 + l1
      BY <1>3, <3>0, <3>7
    <3>9. DayNumber(y - 1, 12, 31) = DayNumber(y, m, d) + over
      BY <1>0, <1>5, <1>7, <1>9, <2>2, <3>4, <3>5, <3>6, <3>8
    <3>10. 31 >= 1 /\ 31 <= timestampDays(y - 1, 12)
      BY <3>1
    <3> QED  BY <1>0, <1>1, <1>6, <3>0, <3>3, <3>9, <3>10
  <2>3. CASE m # 1
    <3>0. m - 1 \in 1 .. 12 /\ (m - 1) + 1 = m /\ y >= y - 1 /\ y <= y + 1
      BY <1>0, <2>3
    <3>1. PICK prev \in 28 .. 31 : prev = timestampDays(y, m - 1)
      BY <1>0, <3>0, MonthDays
    <3>2. CarryDown(c) = Date(y, m - 1, prev)
      BY <1>6, <2>1, <2>3, <3>1 DEF CarryDown
    <3>3. CarryUp(CarryDown(c)) = Date(y, m - 1, prev)
      BY <3>1, <3>2 DEF CarryUp, Date
    <3>4. PICK a1 \in 0 .. 334 : a1 = DaysBefore(m - 1)
      BY <1>0, <3>0, MonthDays
    <3>5. DayNumber(y, m - 1, prev) = s + a1 + (IF m - 1 > 2 THEN l ELSE 0) + prev - 1
      BY <1>0, <1>3, <1>4, <3>0, <3>4, DayNumberIs
    <3>6. prev = DaysBefore((m - 1) + 1) - a1 + (IF m - 1 = 2 THEN l ELSE 0)
      BY <1>0, <1>4, <3>0, <3>1, <3>4, MonthDays
    <3>7. prev = a - a1 + (IF m - 1 = 2 THEN l ELSE 0)
      BY <1>5, <3>0, <3>6
    <3>8. DayNumber(y, m - 1, prev) = DayNumber(y, m, d) + over
      BY <1>0, <1>7, <1>9, <2>3, <3>5, <3>7
    <3>9. prev >= 1 /\ prev <= timestampDays(y, m - 1) /\ prev \in Int
      BY <3>1
    <3> QED  BY <1>0, <1>1, <1>6, <3>0, <3>3, <3>8, <3>9
  <2> QED  BY <2>2, <2>3
<1>10. CASE over = 1 /\ d = days
  <2>1. c.d = days + 1 /\ CarryDown(c) = c /\ c.d > timestampDays(c.y, c.m)
    BY <1>0, <1>2, <1>6, <1>10 DEF CarryDown
  <2>2. CarryUp(c) = Date(IF m = 12 THEN y + 1 ELSE y, IF m = 12 THEN 1 ELSE m + 1, 1)
    BY <1>0, <1>6, <2>1 DEF CarryUp
  <2>3. CASE m = 12
    <3>1. CarryUp(CarryDown(c)) = Date(y + 1, 1, 1)
      BY <2>1, <2>2, <2>3
    <3>2. /\ y + 1 \in Int /\ 1 \in 1 .. 12 /\ 1 \in Int /\ 1 >= 1
          /\ y + 1 >= y - 1 /\ y + 1 <= y + 1
      BY <1>0
    <3>3. PICK s1 \in Int, l1 \in Int : s1 = YearStart(y + 1) /\ l1 = Leap(y + 1)
      BY <3>2, YearTypes
    <3>4. DayNumber(y + 1, 1, 1) = s1 + DaysBefore(1) + (IF 1 > 2 THEN l1 ELSE 0) + 1 - 1
      BY <3>2, <3>3, DayNumberIs
    <3>5. DaysBefore(1) = 0 /\ (m = 12 => DaysBefore(m + 1) = 365)
      BY DEF DaysBefore
    <3>6. s1 = s + 365 + l
      BY <1>0, <1>3, <1>4, <3>3, NextYear
    <3>7. DayNumber(y + 1, 1, 1) = DayNumber(y, m, d) + over
      BY <1>0, <1>5, <1>7, <1>8, <1>10, <2>3, <3>3, <3>4, <3>5, <3>6
    <3>8. timestampDays(y + 1, 1) \in 28 .. 31
      BY <1>0, <3>2, MonthDays
    <3>9. 1 <= timestampDays(y + 1, 1)
      BY <3>8
    <3> QED  BY <1>0, <1>1, <1>6, <3>1, <3>2, <3>7, <3>9
  <2>4. CASE m # 12
    <3>1. CarryUp(CarryDown(c)) = Date(y, m + 1, 1)
      BY <2>1, <2>2, <2>4
    <3>2. m + 1 \in 1 .. 12 /\ 1 \in Int /\ 1 >= 1 /\ y >= y - 1 /\ y <= y + 1
      BY <1>0, <2>4
    <3>3. DayNumber(y, m + 1, 1) = s + b + (IF m + 1 > 2 THEN l ELSE 0) + 1 - 1
      BY <1>0, <1>3, <1>4, <1>5, <3>2, DayNumberIs
    <3>4. DayNumber(y, m + 1, 1) = DayNumber(y, m, d) + over
      BY <1>0, <1>7, <1>8, <1>10, <2>4, <3>3
    <3>5. timestampDays(y, m + 1) \in 28 .. 31
      BY <1>0, <3>2, MonthDays
    <3>6. 1 <= timestampDays(y, m + 1)
      BY <3>5
    <3> QED  BY <1>0, <1>1, <1>6, <3>1, <3>2, <3>4, <3>6
  <2> QED  BY <2>3, <2>4
<1>11. CASE ~(over = -1 /\ d = 1) /\ ~(over = 1 /\ d = days)
  <2>1. d + over >= 1 /\ d + over <= days /\ d + over \in Int
        /\ y >= y - 1 /\ y <= y + 1
    BY <1>0, <1>2, <1>11
  <2>2. CarryDown(c) = c
    BY <1>0, <1>6, <2>1 DEF CarryDown
  <2>3. ~(c.d > timestampDays(c.y, c.m))
    BY <1>0, <1>2, <1>6, <2>1
  <2>4. CarryUp(CarryDown(c)) = Date(y, m, d + over)
    BY <1>6, <2>2, <2>3 DEF CarryUp
  <2>5. DayNumber(y, m, d + over) = s + a + (IF m > 2 THEN l ELSE 0) + (d + over) - 1
    BY <1>0, <1>3, <1>4, <1>5, <2>1, DayNumberIs
  <2>6. DayNumber(y, m, d + over) = DayNumber(y, m, d) + over
    BY <1>0, <1>7, <2>5
  <2> QED  BY <1>0, <1>1, <1>2, <1>6, <2>1, <2>4, <2>6
<1> QED  BY <1>0, <1>9, <1>10, <1>11

(* The days of a year lie between its start and the next one's.            *)
LEMMA DayInYear ==
  ASSUME NEW y \in Int, NEW m \in 1 .. 12, NEW d \in Int, d >= 1,
         d <= timestampDays(y, m)
  PROVE  /\ DayNumber(y, m, d) \in Int
         /\ YearStart(y) <= DayNumber(y, m, d) /\ DayNumber(y, m, d) < YearStart(y + 1)
<1>1. PICK s \in Int, l \in Int : s = YearStart(y) /\ l = Leap(y) /\ l >= 0 /\ l <= 1
  BY YearTypes
<1>2. DaysBefore(m) \in 0 .. 334 /\ DaysBefore(m + 1) \in 0 .. 365
  BY MonthDays
<1>3. PICK a \in Int, b \in Int : a = DaysBefore(m) /\ b = DaysBefore(m + 1) /\ a >= 0 /\ b <= 365
  <2>1. /\ DaysBefore(m) \in Int /\ DaysBefore(m + 1) \in Int
        /\ DaysBefore(m) >= 0 /\ DaysBefore(m + 1) <= 365
    BY <1>2
  <2> QED  BY <2>1
<1>4. timestampDays(y, m) = b - a + (IF m = 2 THEN l ELSE 0)
  BY <1>1, <1>3, MonthDays
<1>5. DayNumber(y, m, d) = s + a + (IF m > 2 THEN l ELSE 0) + d - 1
  BY <1>1, <1>3, DayNumberIs
<1>6. YearStart(y + 1) = s + 365 + l
  BY <1>1, NextYear
<1> QED  BY <1>1, <1>3, <1>4, <1>5, <1>6

(* The calendar of four digits is the years 0 to 9999.                     *)
LEMMA InCalendar ==
  ASSUME NEW y, NEW m, NEW d, Dated(y, m, d), Nearby(y)
  PROVE  DayNumber(y, m, d) \in 0 .. DayNumber(9999, 12, 31) <=> FourDigits(y)
<1>0. /\ y \in Int /\ y >= -1 /\ y <= 10000 /\ m \in 1 .. 12
      /\ d \in Int /\ d >= 1 /\ d <= timestampDays(y, m)
  BY DEF Dated, Nearby
<1>1. DayNumber(9999, 12, 31) = YearStart(10000) - 1
  BY DEF DayNumber, YearStart, DaysBefore, LeapYear
<1>2. YearStart(0) = 0 /\ YearStart(10000) \in Int
  BY DEF YearStart
<1>3. PICK n \in Int : n = DayNumber(y, m, d) /\ YearStart(y) <= n /\ n < YearStart(y + 1)
  BY <1>0, DayInYear
<1>4. CASE y = -1
  <2>1. y + 1 = 0
    BY <1>4
  <2>2. n < 0
    BY <1>2, <1>3, <2>1
  <2> QED  BY <1>3, <1>4, <2>2 DEF FourDigits
<1>5. CASE y = 10000
  <2>1. n >= YearStart(10000)
    BY <1>2, <1>3, <1>5
  <2> QED  BY <1>1, <1>2, <1>3, <1>5, <2>1 DEF FourDigits
<1>6. CASE y \in 0 .. 9999
  <2>1. y \in 0 .. 10000 /\ y + 1 \in 0 .. 10000
    BY <1>6
  <2>2. YearStart(y) >= 0 /\ YearStart(y + 1) <= YearStart(10000)
    BY <2>1 DEF YearStart
  <2>3. YearStart(y) \in Int /\ YearStart(y + 1) \in Int
    BY <2>1, YearTypes
  <2>4. n >= 0 /\ n <= YearStart(10000) - 1
    BY <1>2, <1>3, <2>2, <2>3
  <2> QED  BY <1>1, <1>2, <1>3, <1>6, <2>4 DEF FourDigits
<1> QED  BY <1>0, <1>4, <1>5, <1>6

(* What the digits of a timestamp can spell; Z has no offset.              *)
AnyTime ==
  {t \in [spelled : BOOLEAN, y : 0 .. 9999, m : 0 .. 99, d : 0 .. 99,
          h : 0 .. 99, mi : 0 .. 99, s : 0 .. 99, frac : Seq(0 .. 9),
          zone : {"Z", "+", "-"}, oh : 0 .. 99, om : 0 .. 99]
   : t.zone = "Z" => t.oh = 0 /\ t.om = 0}

TwoDigits(x)    == x \in 0 .. 99
Clock(h, mi, s) == h \in 0 .. 23 /\ mi \in 0 .. 59 /\ s \in 0 .. 59
Offset(oh, om)  == oh \in 0 .. 23 /\ om \in 0 .. 59
Minute(x)       == x \in 0 .. 1439
Near(total)     == total \in Int /\ total > -1440 /\ total < 2880
Whole(x)        == x \div 1440
Rest(x)         == x % 1440

(* The parts of normalizedTimestamp and Instant.                           *)
Over(total)     == CASE total < 0 -> -1 [] total >= 1440 -> 1 [] OTHER -> 0
MinuteOf(total) == total - Over(total) * 1440
Carried(t)      == CarryUp(CarryDown(Date(t.y, t.m, t.d + Over(UTCMinutes(t)))))
RefMinutes(t) ==
  LET sign == CASE t.zone = "+" -> -1 [] t.zone = "-" -> 1 [] OTHER -> 0
  IN (t.h + sign * t.oh) * 60 + t.mi + sign * t.om
Micros(frac) == [k \in 1 .. 6 |-> IF k <= Len(frac) THEN frac[k] ELSE 0]
Utc(y, m, d, minute, s, frac) ==
  [spelled |-> TRUE, y |-> y, m |-> m, d |-> d,
   h |-> minute \div 60, mi |-> minute % 60, s |-> s, frac |-> Micros(frac),
   zone |-> "Z", oh |-> 0, om |-> 0]

LEMMA InstantIs ==
  ASSUME NEW t
  PROVE  Instant(t) = <<DayNumber(t.y, t.m, t.d) + Whole(RefMinutes(t)), Rest(RefMinutes(t)),
                        t.s, Micros(t.frac)>>
BY DEF Instant, Whole, Rest, RefMinutes, Micros

LEMMA NormalForm ==
  ASSUME NEW t, lexicalTimestamp(t), InRange(t)
  PROVE  normalizedTimestamp(t)
           = IF FourDigits(Carried(t).y)
             THEN Utc(Carried(t).y, Carried(t).m, Carried(t).d, MinuteOf(UTCMinutes(t)),
                      t.s, t.frac)
             ELSE NoTime
<1> DEFINE c == Carried(t)
           minute == MinuteOf(UTCMinutes(t))
           utc == [spelled |-> TRUE, y |-> c.y, m |-> c.m, d |-> c.d,
                   h |-> minute \div 60, mi |-> minute % 60, s |-> t.s,
                   frac |-> Micros(t.frac), zone |-> "Z", oh |-> 0, om |-> 0]
<1>1. normalizedTimestamp(t) = IF ~FourDigits(c.y) THEN NoTime ELSE utc
  BY DEF normalizedTimestamp, Micros, Over, MinuteOf, Carried, FourDigits
<1>2. utc = Utc(c.y, c.m, c.d, minute, t.s, t.frac)
  BY DEF Utc
<1> HIDE DEF utc
<1> QED  BY <1>1, <1>2

(* The fields of a timestamp in range.                                     *)
LEMMA DigitsDated ==
  ASSUME NEW y, NEW m, NEW d, FourDigits(y), m \in 1 .. 12, TwoDigits(d), d >= 1,
         d <= timestampDays(y, m)
  PROVE  Dated(y, m, d)
BY DEF FourDigits, TwoDigits, Dated

LEMMA DigitsClock ==
  ASSUME NEW h, NEW mi, NEW s, TwoDigits(h), TwoDigits(mi), TwoDigits(s),
         h <= 23, mi <= 59, s <= 59
  PROVE  Clock(h, mi, s)
BY DEF TwoDigits, Clock

LEMMA DigitsOffset ==
  ASSUME NEW oh, NEW om, TwoDigits(oh), TwoDigits(om), oh <= 23, om <= 59
  PROVE  Offset(oh, om)
BY DEF TwoDigits, Offset

LEMMA AnyTimeFields ==
  ASSUME NEW t \in AnyTime
  PROVE  /\ FourDigits(t.y) /\ TwoDigits(t.d)
         /\ TwoDigits(t.h) /\ TwoDigits(t.mi) /\ TwoDigits(t.s)
         /\ TwoDigits(t.oh) /\ TwoDigits(t.om)
         /\ t.zone \in {"Z", "+", "-"} /\ (t.zone = "Z" => t.oh = 0 /\ t.om = 0)
         /\ t.frac \in Seq(0 .. 9)
BY DEF AnyTime, FourDigits, TwoDigits

LEMMA RangeFacts ==
  ASSUME NEW t \in AnyTime, InRange(t)
  PROVE  Dated(t.y, t.m, t.d) /\ Clock(t.h, t.mi, t.s) /\ Offset(t.oh, t.om)
<1>1. /\ t.m \in 1 .. 12 /\ t.d >= 1 /\ t.d <= timestampDays(t.y, t.m)
      /\ t.h <= 23 /\ t.mi <= 59 /\ t.s <= 59
      /\ t.zone # "Z" => t.oh <= 23 /\ t.om <= 59
  BY DEF InRange
<1>2. t.oh <= 23 /\ t.om <= 59
  <2>1. CASE t.zone = "Z"
    <3>1. t.oh = 0 /\ t.om = 0
      BY <2>1, AnyTimeFields
    <3> QED  BY <3>1
  <2> QED  BY <1>1, <2>1
<1>3. Dated(t.y, t.m, t.d)
  BY <1>1, AnyTimeFields, DigitsDated
<1>4. Clock(t.h, t.mi, t.s)
  BY <1>1, AnyTimeFields, DigitsClock
<1>5. Offset(t.oh, t.om)
  BY <1>2, AnyTimeFields, DigitsOffset
<1> QED  BY <1>3, <1>4, <1>5

(* The minute in UTC, as the code carries it and as the reference divides. *)
LEMMA OverFacts ==
  ASSUME NEW total, Near(total)
  PROVE  /\ OneDay(Over(total)) /\ Minute(MinuteOf(total))
         /\ Whole(total) = Over(total) /\ Rest(total) = MinuteOf(total)
<1>0. total \in Int /\ total > -1440 /\ total < 2880
  BY DEF Near
<1>1. CASE total < 0
  <2>1. Over(total) = -1
    BY <1>0, <1>1 DEF Over
  <2> QED  BY <1>0, <1>1, <2>1 DEF OneDay, Minute, MinuteOf, Whole, Rest
<1>2. CASE total >= 1440
  <2>1. Over(total) = 1
    BY <1>0, <1>2 DEF Over
  <2> QED  BY <1>0, <1>2, <2>1 DEF OneDay, Minute, MinuteOf, Whole, Rest
<1>3. CASE ~(total < 0) /\ ~(total >= 1440)
  <2>1. Over(total) = 0
    BY <1>3 DEF Over
  <2> QED  BY <1>0, <1>3, <2>1 DEF OneDay, Minute, MinuteOf, Whole, Rest
<1> QED  BY <1>1, <1>2, <1>3

LEMMA MinuteInDay ==
  ASSUME NEW x, Minute(x)
  PROVE  Near(x) /\ Over(x) = 0 /\ MinuteOf(x) = x
<1>1. x \in 0 .. 1439
  BY DEF Minute
<1>2. Near(x)
  BY <1>1 DEF Near
<1>3. ~(x < 0) /\ ~(x >= 1440)
  BY <1>1
<1>4. Over(x) = 0
  BY <1>3 DEF Over
<1> QED  BY <1>1, <1>2, <1>4 DEF MinuteOf

LEMMA MinuteFacts ==
  ASSUME NEW t, Clock(t.h, t.mi, t.s), Offset(t.oh, t.om), t.zone \in {"Z", "+", "-"}
  PROVE  Near(UTCMinutes(t)) /\ RefMinutes(t) = UTCMinutes(t)
<1>0. PICK h \in 0 .. 23, mi \in 0 .. 59, oh \in 0 .. 23, om \in 0 .. 59 :
        h = t.h /\ mi = t.mi /\ oh = t.oh /\ om = t.om
  BY DEF Clock, Offset
<1> DEFINE sign == CASE t.zone = "+" -> -1 [] t.zone = "-" -> 1 [] OTHER -> 0
<1>00. RefMinutes(t) = (t.h + sign * t.oh) * 60 + t.mi + sign * t.om
  BY DEF RefMinutes
<1>1. CASE t.zone = "+"
  <2>1. sign = -1
    BY <1>1
  <2>2. UTCMinutes(t) = (h * 60 + mi) - (oh * 60 + om)
    BY <1>0, <1>1 DEF UTCMinutes
  <2> HIDE DEF sign
  <2>3. RefMinutes(t) = (h + -1 * oh) * 60 + mi + -1 * om
    BY <1>0, <1>00, <2>1
  <2>4. (h + -1 * oh) * 60 + mi + -1 * om = (h * 60 + mi) - (oh * 60 + om)
    OBVIOUS
  <2>5. Near((h * 60 + mi) - (oh * 60 + om))
    BY DEF Near
  <2> QED  BY <2>2, <2>3, <2>4, <2>5
<1>2. CASE t.zone = "-"
  <2>1. sign = 1
    BY <1>2
  <2>2. UTCMinutes(t) = (h * 60 + mi) + (oh * 60 + om)
    BY <1>0, <1>2 DEF UTCMinutes
  <2> HIDE DEF sign
  <2>3. RefMinutes(t) = (h + 1 * oh) * 60 + mi + 1 * om
    BY <1>0, <1>00, <2>1
  <2>4. (h + 1 * oh) * 60 + mi + 1 * om = (h * 60 + mi) + (oh * 60 + om)
    OBVIOUS
  <2>5. Near((h * 60 + mi) + (oh * 60 + om))
    BY DEF Near
  <2> QED  BY <2>2, <2>3, <2>4, <2>5
<1>3. CASE t.zone = "Z"
  <2>1. sign = 0
    BY <1>3
  <2>2. UTCMinutes(t) = h * 60 + mi
    BY <1>0, <1>3 DEF UTCMinutes
  <2> HIDE DEF sign
  <2>3. RefMinutes(t) = (h + 0 * oh) * 60 + mi + 0 * om
    BY <1>0, <1>00, <2>1
  <2>4. (h + 0 * oh) * 60 + mi + 0 * om = h * 60 + mi
    OBVIOUS
  <2>5. Near(h * 60 + mi)
    BY DEF Near
  <2> QED  BY <2>2, <2>3, <2>4, <2>5
<1> QED  BY <1>1, <1>2, <1>3

LEMMA DateFields ==
  ASSUME NEW y, NEW m, NEW d
  PROVE  Date(y, m, d).y = y /\ Date(y, m, d).m = m /\ Date(y, m, d).d = d
BY DEF Date

(* A timestamp in range, its carried date and its minute in UTC.           *)
LEMMA NormalIs ==
  ASSUME NEW t \in AnyTime, lexicalTimestamp(t), InRange(t)
  PROVE  \E y, m, d, minute :
           /\ Dated(y, m, d) /\ Nearby(y) /\ Minute(minute)
           /\ normalizedTimestamp(t) = IF FourDigits(y)
                                       THEN Utc(y, m, d, minute, t.s, t.frac) ELSE NoTime
           /\ Instant(t) = <<DayNumber(y, m, d), minute, t.s, Micros(t.frac)>>
<1>1. PICK total : total = UTCMinutes(t)
  OBVIOUS
<1>2. /\ Dated(t.y, t.m, t.d) /\ FourDigits(t.y)
      /\ Clock(t.h, t.mi, t.s) /\ Offset(t.oh, t.om) /\ t.zone \in {"Z", "+", "-"}
  BY RangeFacts, AnyTimeFields
<1>3. Near(total) /\ RefMinutes(t) = total
  BY <1>1, <1>2, MinuteFacts
<1>4. PICK over, minute : over = Over(total) /\ minute = MinuteOf(total)
  OBVIOUS
<1>5. OneDay(over) /\ Minute(minute) /\ Whole(total) = over /\ Rest(total) = minute
  BY <1>3, <1>4, OverFacts
<1>6. PICK y, m, d :
           /\ CarryUp(CarryDown(Date(t.y, t.m, t.d + over))) = Date(y, m, d)
           /\ Dated(y, m, d) /\ Nearby(y)
           /\ DayNumber(y, m, d) = DayNumber(t.y, t.m, t.d) + over
  BY <1>2, <1>5, CarryFacts
<1>7. Instant(t) = <<DayNumber(y, m, d), minute, t.s, Micros(t.frac)>>
  BY <1>3, <1>5, <1>6, InstantIs
<1>8. Carried(t) = Date(y, m, d)
  BY <1>1, <1>4, <1>6 DEF Carried
<1>9. Carried(t).y = y /\ Carried(t).m = m /\ Carried(t).d = d
  BY <1>8, DateFields
<1>10. normalizedTimestamp(t) = IF FourDigits(y)
                                THEN Utc(y, m, d, minute, t.s, t.frac) ELSE NoTime
  BY <1>1, <1>4, <1>9, NormalForm
<1> QED  BY <1>5, <1>6, <1>7, <1>10

LEMMA MicrosFacts ==
  ASSUME NEW frac \in Seq(0 .. 9)
  PROVE  Len(Micros(frac)) = 6 /\ Micros(Micros(frac)) = Micros(frac)
<1>1. PICK f \in Seq(0 .. 9) : f = Micros(frac) /\ Len(f) = 6
  <2>1. Len(frac) \in Nat /\ \A k \in 1 .. Len(frac) : frac[k] \in 0 .. 9
    OBVIOUS
  <2>2. \A k \in 1 .. 6 : (IF k <= Len(frac) THEN frac[k] ELSE 0) \in 0 .. 9
    BY <2>1
  <2>3. Micros(frac) \in [1 .. 6 -> 0 .. 9]
    BY <2>2 DEF Micros
  <2>4. Micros(frac) \in Seq(0 .. 9)
    <3>1. PICK n \in Nat : n = 6
      OBVIOUS
    <3>2. Micros(frac) \in [1 .. n -> 0 .. 9]
      BY <2>3, <3>1
    <3> QED  BY <3>2
  <2>5. DOMAIN Micros(frac) = 1 .. 6
    BY <2>3
  <2>6. Len(Micros(frac)) = 6
    BY <2>4, <2>5
  <2> QED  BY <2>4, <2>6
<1>2. Micros(f) = f
  <2>1. f \in [1 .. 6 -> 0 .. 9]
    <3>1. f \in [1 .. Len(f) -> 0 .. 9]
      OBVIOUS
    <3> QED  BY <1>1, <3>1
  <2>2. f = [k \in 1 .. 6 |-> f[k]]
    BY <2>1
  <2>3. Micros(f) = [k \in 1 .. 6 |-> IF k <= 6 THEN f[k] ELSE 0]
    BY <1>1 DEF Micros
  <2> QED  BY <2>2, <2>3
<1> QED  BY <1>1, <1>2

(* A timestamp the writer emits is its own normal form.                    *)
LEMMA UtcIsNormal ==
  ASSUME NEW y, NEW m, NEW d, Dated(y, m, d), FourDigits(y), NEW minute, Minute(minute),
         NEW h, NEW mi, NEW s, Clock(h, mi, s), NEW frac \in Seq(0 .. 9)
  PROVE  LET u == Utc(y, m, d, minute, s, frac)
         IN /\ u # NoTime /\ normalizedTimestamp(u) = u
            /\ Instant(u) = <<DayNumber(y, m, d), minute, s, Micros(frac)>>
<1>1. PICK u : u = Utc(y, m, d, minute, s, frac)
  OBVIOUS
<1>2. /\ u.spelled = TRUE /\ u.y = y /\ u.m = m /\ u.d = d /\ u.h = minute \div 60
      /\ u.mi = minute % 60 /\ u.s = s /\ u.frac = Micros(frac) /\ u.zone = "Z"
      /\ u.oh = 0 /\ u.om = 0
  BY <1>1 DEF Utc
<1>3. u # NoTime
  <2>1. NoTime.spelled = FALSE
    BY DEF NoTime
  <2> QED  BY <1>2, <2>1
<1>4. PICK x \in 0 .. 1439 : x = minute
  BY DEF Minute
<1>5. x \div 60 \in 0 .. 23 /\ x % 60 \in 0 .. 59 /\ (x \div 60) * 60 + (x % 60) = x
  OBVIOUS
<1>6. s \in 0 .. 59
  BY DEF Clock
<1>7. Clock(u.h, u.mi, u.s) /\ Offset(u.oh, u.om)
  BY <1>2, <1>4, <1>5, <1>6 DEF Clock, Offset
<1>8. lexicalTimestamp(u)
  <2>1. Len(u.frac) = 6
    BY <1>2, MicrosFacts
  <2>2. Len(u.frac) <= 9
    BY <2>1
  <2> QED  BY <1>2, <2>2 DEF lexicalTimestamp
<1>9. InRange(u)
  <2>1. m \in 1 .. 12 /\ d >= 1 /\ d <= timestampDays(y, m)
    BY DEF Dated
  <2>2. x \div 60 <= 23 /\ x % 60 <= 59 /\ s <= 59
    BY <1>5, <1>6
  <2> QED  BY <1>2, <1>4, <2>1, <2>2 DEF InRange
<1>10. UTCMinutes(u) = minute
  BY <1>2, <1>4, <1>5 DEF UTCMinutes
<1>11. Over(minute) = 0 /\ MinuteOf(minute) = minute /\ Near(minute)
  BY MinuteInDay
<1>12. Carried(u) = Date(y, m, d)
  <2>1. PICK days \in 28 .. 31 : days = timestampDays(y, m)
    BY MonthDays DEF Dated
  <2>2. PICK c : c = Date(y, m, d) /\ c.y = y /\ c.m = m /\ c.d = d
    BY DateFields
  <2>3. d \in Int /\ d >= 1 /\ d <= days /\ d + 0 = d
    BY <2>1 DEF Dated
  <2>4. CarryDown(c) = c
    BY <2>2, <2>3 DEF CarryDown
  <2>5. CarryUp(c) = c
    BY <2>1, <2>2, <2>3 DEF CarryUp
  <2> QED  BY <1>2, <1>10, <1>11, <2>2, <2>3, <2>4, <2>5 DEF Carried
<1>13. Carried(u).y = y /\ Carried(u).m = m /\ Carried(u).d = d
  BY <1>12, DateFields
<1>14. normalizedTimestamp(u) = Utc(y, m, d, minute, s, Micros(frac))
  BY <1>2, <1>8, <1>9, <1>10, <1>11, <1>13, NormalForm
<1>15. normalizedTimestamp(u) = u
  <2>1. Utc(y, m, d, minute, s, Micros(frac)) = Utc(y, m, d, minute, s, frac)
    BY MicrosFacts DEF Utc
  <2> QED  BY <1>1, <1>14, <2>1
<1>16. Instant(u) = <<DayNumber(y, m, d), minute, s, Micros(frac)>>
  <2>1. u.zone \in {"Z", "+", "-"}
    BY <1>2
  <2>2. RefMinutes(u) = minute
    BY <1>7, <1>10, <2>1, MinuteFacts
  <2>3. Whole(minute) = 0 /\ Rest(minute) = minute
    BY <1>11, OverFacts
  <2>4. DayNumber(y, m, d) + 0 = DayNumber(y, m, d)
    BY DayInYear DEF Dated
  <2> QED  BY <1>2, <2>2, <2>3, <2>4, InstantIs, MicrosFacts
<1> QED  BY <1>1, <1>3, <1>15, <1>16

(* The reference asks for the same ranges.                                 *)
LastDay(y, m) == DaysBefore(m + 1) - DaysBefore(m) + (IF m = 2 /\ LeapYear(y) THEN 1 ELSE 0)
LEMMA LastDayIs ==
  ASSUME NEW y, FourDigits(y), NEW m \in 1 .. 12
  PROVE  timestampDays(y, m) = LastDay(y, m) /\ LastDay(y, m) \in Int
<1>1. y \in Int
  BY DEF FourDigits
<1>2. timestampDays(y, m) = DaysBefore(m + 1) - DaysBefore(m) + (IF m = 2 THEN Leap(y) ELSE 0)
  BY <1>1, MonthDays
<1>3. timestampDays(y, m) \in 28 .. 31
  BY <1>1, MonthDays
<1>4. timestampDays(y, m) = LastDay(y, m)
  BY <1>2 DEF Leap, LastDay
<1> QED  BY <1>3, <1>4

LEMMA ClockRanges ==
  ASSUME NEW h, NEW mi, NEW s, Clock(h, mi, s)
  PROVE  h <= 23 /\ mi <= 59 /\ s <= 59
BY DEF Clock

LEMMA OffsetRanges ==
  ASSUME NEW oh, NEW om, Offset(oh, om)
  PROVE  oh <= 23 /\ om <= 59
BY DEF Offset

Calendar == 0 .. DayNumber(9999, 12, 31)
LEMMA ValidIs ==
  ASSUME NEW t
  PROVE  ValidTime(t) <=> /\ lexicalTimestamp(t) /\ t.m \in 1 .. 12
                          /\ Clock(t.h, t.mi, t.s) /\ Offset(t.oh, t.om)
                          /\ t.d \in 1 .. LastDay(t.y, t.m) /\ Instant(t)[1] \in Calendar
BY DEF ValidTime, lexicalTimestamp, Clock, Offset, LastDay, Calendar

LEMMA Days ==
  ASSUME NEW n \in Int, NEW d, TwoDigits(d)
  PROVE  d \in 1 .. n <=> d >= 1 /\ d <= n
BY DEF TwoDigits

LEMMA ValidIsInRange ==
  ASSUME NEW t \in AnyTime
  PROVE  ValidTime(t) <=> lexicalTimestamp(t) /\ InRange(t) /\ Instant(t)[1] \in Calendar
<1>1. ASSUME t.m \in 1 .. 12
      PROVE  t.d \in 1 .. LastDay(t.y, t.m) <=> t.d >= 1 /\ t.d <= timestampDays(t.y, t.m)
  <2>1. PICK n : n = LastDay(t.y, t.m)
    OBVIOUS
  <2>2. n \in Int /\ timestampDays(t.y, t.m) = n
    BY <1>1, <2>1, AnyTimeFields, LastDayIs
  <2> QED  BY <2>1, <2>2, AnyTimeFields, Days
<1>2. ASSUME ValidTime(t) PROVE InRange(t)
  <2>1. t.m \in 1 .. 12 /\ t.d >= 1 /\ t.d <= timestampDays(t.y, t.m)
    BY <1>1, <1>2, ValidIs
  <2>2. t.h <= 23 /\ t.mi <= 59 /\ t.s <= 59
    BY <1>2, ValidIs, ClockRanges
  <2>3. t.oh <= 23 /\ t.om <= 59
    BY <1>2, ValidIs, OffsetRanges
  <2> QED  BY <2>1, <2>2, <2>3 DEF InRange
<1>3. ASSUME InRange(t)
      PROVE  /\ t.m \in 1 .. 12 /\ Clock(t.h, t.mi, t.s) /\ Offset(t.oh, t.om)
             /\ t.d \in 1 .. LastDay(t.y, t.m)
  <2>1. t.m \in 1 .. 12 /\ t.d >= 1 /\ t.d <= timestampDays(t.y, t.m)
    BY <1>3 DEF InRange
  <2> QED  BY <1>1, <1>3, <2>1, RangeFacts
<1> QED  BY <1>2, <1>3, ValidIs

(* normalizedTimestamp and WideTimestamp, for every timestamp its digits   *)
(* can spell: the reader accepts exactly the instants of the years 0 to    *)
(* 9999 in UTC; what the writer emits is the same instant to the           *)
(* microsecond; and writing it again changes nothing.                      *)
THEOREM NormalizedTimestamps ==
  ASSUME NEW t \in AnyTime
  PROVE  /\ WideTimestamp(t) <=> ValidTime(t)
         /\ WideTimestamp(t) => /\ MicrosTimestamp(normalizedTimestamp(t))
                                /\ Instant(normalizedTimestamp(t)) = Instant(t)
<1>1. CASE ~(lexicalTimestamp(t) /\ InRange(t))
  <2>1. normalizedTimestamp(t) = NoTime
    BY <1>1 DEF normalizedTimestamp
  <2>2. ~ValidTime(t)
    BY <1>1, ValidIsInRange
  <2> QED  BY <2>1, <2>2 DEF WideTimestamp
<1>2. CASE lexicalTimestamp(t) /\ InRange(t)
  <2>1. PICK y, m, d, minute :
           /\ Dated(y, m, d) /\ Nearby(y) /\ Minute(minute)
           /\ normalizedTimestamp(t) = IF FourDigits(y)
                                       THEN Utc(y, m, d, minute, t.s, t.frac) ELSE NoTime
           /\ Instant(t) = <<DayNumber(y, m, d), minute, t.s, Micros(t.frac)>>
    BY <1>2, NormalIs
  <2>2. Instant(t)[1] = DayNumber(y, m, d)
    BY <2>1
  <2>3. DayNumber(y, m, d) \in Calendar <=> FourDigits(y)
    BY <2>1, InCalendar DEF Calendar
  <2>4. ValidTime(t) <=> FourDigits(y)
    BY <1>2, <2>2, <2>3, ValidIsInRange
  <2>5. CASE FourDigits(y)
    <3>1. PICK u : u = Utc(y, m, d, minute, t.s, t.frac)
      OBVIOUS
    <3>2. /\ u # NoTime /\ normalizedTimestamp(u) = u
          /\ Instant(u) = <<DayNumber(y, m, d), minute, t.s, Micros(t.frac)>>
      <4>1. PICK h, mi, s, f : h = t.h /\ mi = t.mi /\ s = t.s /\ f = t.frac
        OBVIOUS
      <4>2. Clock(h, mi, s) /\ f \in Seq(0 .. 9)
        BY <1>2, <4>1, RangeFacts, AnyTimeFields
      <4>3. LET v == Utc(y, m, d, minute, s, f)
            IN /\ v # NoTime /\ normalizedTimestamp(v) = v
               /\ Instant(v) = <<DayNumber(y, m, d), minute, s, Micros(f)>>
        BY <2>1, <2>5, <4>2, UtcIsNormal
      <4> QED  BY <3>1, <4>1, <4>3
    <3>3. normalizedTimestamp(t) = u
      BY <2>1, <2>5, <3>1
    <3>4. WideTimestamp(t) /\ MicrosTimestamp(u)
      BY <3>2, <3>3 DEF WideTimestamp, MicrosTimestamp
    <3>5. Instant(u) = Instant(t)
      BY <2>1, <3>2
    <3> QED  BY <2>4, <2>5, <3>3, <3>4, <3>5
  <2>6. CASE ~FourDigits(y)
    <3>1. normalizedTimestamp(t) = NoTime
      BY <2>1, <2>6
    <3> QED  BY <2>4, <2>6, <3>1 DEF WideTimestamp
  <2> QED  BY <2>5, <2>6
<1> QED  BY <1>1, <1>2
=============================================================================
