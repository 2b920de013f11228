-------------------------- MODULE FramedCallProofs --------------------------
(***************************************************************************)
(* Proofs about FramedCall: for any calls, scripts and answers, any word   *)
(* size and limit on nesting, and whatever the walk over opaque values,    *)
(* skipValue, accepts.                                                     *)
(***************************************************************************)
EXTENDS FramedCall, SequenceTheorems, FiniteSetTheorems, WellFoundedInduction, TLAPS

-----------------------------------------------------------------------------
(* Induction and recursion.                                                *)

LEMMA LeastNatural ==
  ASSUME NEW T \in SUBSET Nat, T # {}
  PROVE  \E x \in T : \A y \in T : x <= y
<1>1. IsWellFoundedOn(OpToRel(<, Nat), Nat)
  BY NatLessThanWellFounded
<1>2. PICK x \in T : \A y \in T : ~(<<y, x>> \in OpToRel(<, Nat))
  BY <1>1, WFMin
<1>3. \A y \in T : ~(y < x)
  BY <1>2 DEF OpToRel
<1> QED  BY <1>3

(* A set that holds 0, and with a number below n the next one, holds them  *)
(* all up to n.                                                            *)
LEMMA UpTo ==
  ASSUME NEW n \in Nat, NEW T, 0 \in T,
         \A i \in 0 .. n : i < n /\ i \in T => i + 1 \in T
  PROVE  \A i \in 0 .. n : i \in T
<1> DEFINE bad == {i \in Nat : i <= n /\ i \notin T}
<1>1. SUFFICES ASSUME bad # {} PROVE FALSE
  <2>1. \A i \in 0 .. n : i \in Nat /\ i <= n
    OBVIOUS
  <2> QED  BY <2>1
<1>2. bad \in SUBSET Nat
  OBVIOUS
<1>3. PICK m \in bad : \A y \in bad : m <= y
  BY <1>1, <1>2, LeastNatural
<1>4. m \in Nat /\ m <= n /\ m \notin T
  BY <1>3
<1>5. m # 0
  BY <1>4
<1>6. m - 1 \in 0 .. n /\ m - 1 < n /\ m - 1 \in Nat /\ m - 1 <= n /\ ~(m <= m - 1)
  BY <1>4, <1>5
<1>7. m - 1 \in T
  BY <1>3, <1>6
<1>8. (m - 1) + 1 = m
  BY <1>4
<1>9. (m - 1) + 1 \in T
  BY <1>6, <1>7
<1> QED  BY <1>4, <1>8, <1>9

(* What a step makes of a value, n times in a row, is a function.          *)
Iterates(f, m, a, step) == f[0] = a /\ \A i \in 1 .. m : f[i] = step[i][f[i - 1]]
LEMMA IteratesExists ==
  ASSUME NEW n \in Nat, NEW S, NEW a \in S, NEW step \in [1 .. n -> [S -> S]]
  PROVE  \E f \in [0 .. n -> S] : Iterates(f, n, a, step)
<1> DEFINE T == {m \in 0 .. n : \E f \in [0 .. m -> S] : Iterates(f, m, a, step)}
<1>1. 0 \in T
  <2> DEFINE f0 == [i \in 0 .. 0 |-> a]
  <2>1. f0 \in [0 .. 0 -> S] /\ f0[0] = a
    OBVIOUS
  <2>2. \A i \in 1 .. 0 : FALSE
    OBVIOUS
  <2>3. Iterates(f0, 0, a, step)
    BY <2>1, <2>2 DEF Iterates
  <2> QED  BY <2>1, <2>3
<1>2. ASSUME NEW m \in 0 .. n, m < n, m \in T PROVE m + 1 \in T
  <2>1. PICK f \in [0 .. m -> S] : Iterates(f, m, a, step)
    BY <1>2
  <2> DEFINE b == step[m + 1][f[m]]
             g == [i \in 0 .. m + 1 |-> IF i = m + 1 THEN b ELSE f[i]]
  <2>2. b \in S
    <3>1. m + 1 \in 1 .. n /\ m \in 0 .. m
      BY <1>2
    <3> QED  BY <3>1
  <2> HIDE DEF b
  <2>3. \A i \in 0 .. m + 1 : i # m + 1 => i \in 0 .. m
    OBVIOUS
  <2>4. g \in [0 .. m + 1 -> S]
    BY <2>2, <2>3
  <2>5. g[0] = a
    BY <2>1 DEF Iterates
  <2>6. ASSUME NEW i \in 1 .. m + 1 PROVE g[i] = step[i][g[i - 1]]
    <3>1. i - 1 \in 0 .. m + 1 /\ i - 1 # m + 1 /\ g[i - 1] = f[i - 1]
      OBVIOUS
    <3>2. CASE i = m + 1
      <4>1. g[i] = b /\ i - 1 = m
        BY <3>2
      <4> QED  BY <3>1, <3>2, <4>1 DEF b
    <3>3. CASE i # m + 1
      <4>1. i \in 1 .. m /\ g[i] = f[i]
        BY <3>3
      <4> QED  BY <2>1, <3>1, <4>1 DEF Iterates
    <3> QED  BY <3>2, <3>3
  <2>7. Iterates(g, m + 1, a, step)
    BY <2>5, <2>6 DEF Iterates
  <2>8. m + 1 \in 0 .. n
    BY <1>2
  <2> QED  BY <2>4, <2>7, <2>8
<1>3. \A i \in 0 .. n : i \in T
  <2> HIDE DEF T
  <2> QED  BY <1>1, <1>2, UpTo
<1> QED  BY <1>3

-----------------------------------------------------------------------------
(* Sequences.                                                              *)

LEMMA AppendFacts ==
  ASSUME NEW S, NEW s \in Seq(S), NEW x \in S
  PROVE  /\ Append(s, x) \in Seq(S) /\ Len(Append(s, x)) = Len(s) + 1
         /\ Append(s, x)[Len(s) + 1] = x /\ Len(s) \in Nat
         /\ \A k \in 1 .. Len(s) : Append(s, x)[k] = s[k]
OBVIOUS


LEMMA ConcatFacts ==
  ASSUME NEW S, NEW s \in Seq(S), NEW t \in Seq(S)
  PROVE  /\ s \o t \in Seq(S) /\ Len(s \o t) = Len(s) + Len(t)
         /\ Len(s) \in Nat /\ Len(t) \in Nat
         /\ \A k \in 1 .. Len(s) : (s \o t)[k] = s[k]
         /\ \A i \in 1 .. Len(t) : (s \o t)[Len(s) + i] = t[i]
<1>1. PICK m \in Nat, n \in Nat, q \in Seq(S) : m = Len(s) /\ n = Len(t) /\ q = s \o t
  <2>1. Len(s) \in Nat /\ Len(t) \in Nat
    BY LenProperties
  <2>2. s \o t \in Seq(S)
    BY ConcatProperties
  <2> QED  BY <2>1, <2>2, Zenon
<1>2. /\ q \in Seq(S) /\ Len(q) = m + n
      /\ \A i \in 1 .. m + n : q[i] = IF i <= m THEN s[i] ELSE t[i - m]
  BY <1>1, ConcatProperties, Zenon
<1>3. \A k \in 1 .. m : k \in 1 .. m + n /\ k <= m
  OBVIOUS
<1>4. \A k \in 1 .. m : q[k] = s[k]
  BY <1>2, <1>3, Zenon
<1>5. \A i \in 1 .. n : m + i \in 1 .. m + n /\ ~(m + i <= m) /\ (m + i) - m = i
  OBVIOUS
<1>6. \A i \in 1 .. n : q[m + i] = t[i]
  BY <1>2, <1>5
<1> QED  BY <1>1, <1>2, <1>4, <1>6, Zenon

(* FlattenSeq joins sequences one after the other.                         *)
JoinsUp(f, ss) == f = [i \in 1 .. Len(ss) |-> IF i = 1 THEN ss[i] ELSE f[i - 1] \o ss[i]]
LEMMA FlattenJoins ==
  ASSUME NEW S, NEW ss \in Seq(Seq(S)), Len(ss) # 0
  PROVE  \E f \in [1 .. Len(ss) -> Seq(S)] : JoinsUp(f, ss) /\ FlattenSeq(ss) = f[Len(ss)]
<1>1. PICK n \in Nat : n = Len(ss)
  BY LenProperties
<1>2. \A i \in 1 .. n : ss[i] \in Seq(S)
  BY <1>1
<1> DEFINE step == [i \in 1 .. n |-> [x \in Seq(S) |-> x \o ss[i]]]
<1>3. step \in [1 .. n -> [Seq(S) -> Seq(S)]]
  BY <1>2, ConcatProperties
<1>4. <<>> \in Seq(S)
  OBVIOUS
<1>5. PICK f \in [0 .. n -> Seq(S)] : Iterates(f, n, <<>>, step)
  <2> HIDE DEF step
  <2> QED  BY <1>3, <1>4, IteratesExists
<1> DEFINE g == [i \in 1 .. n |-> f[i]]
<1>6. ASSUME NEW i \in 1 .. n
      PROVE  g[i] = IF i = 1 THEN ss[i] ELSE g[i - 1] \o ss[i]
  <2>1. i - 1 \in 0 .. n /\ f[i - 1] \in Seq(S)
    OBVIOUS
  <2>2. f[i] = step[i][f[i - 1]]
    BY <1>5 DEF Iterates
  <2>3. f[i] = f[i - 1] \o ss[i]
    BY <2>1, <2>2
  <2>4. CASE i = 1
    <3>1. f[i - 1] = <<>>
      BY <1>5, <2>4 DEF Iterates
    <3>2. <<>> \o ss[i] = ss[i]
      BY <1>2, ConcatEmptySeq
    <3> QED  BY <2>3, <2>4, <3>1, <3>2
  <2>5. CASE i # 1
    <3>1. i - 1 \in 1 .. n
      BY <2>5
    <3> QED  BY <2>3, <2>5, <3>1
  <2> QED  BY <2>4, <2>5
<1>7. g \in [1 .. n -> Seq(S)] /\ g = [i \in 1 .. n |-> g[i]]
  OBVIOUS
<1> HIDE DEF g
<1>8. JoinsUp(g, ss)
  BY <1>1, <1>6, <1>7 DEF JoinsUp
<1> DEFINE h == CHOOSE h : JoinsUp(h, ss)
<1>9. JoinsUp(h, ss)
  BY <1>8
<1>10. FlattenSeq(ss) = h[Len(ss)]
  BY DEF FlattenSeq, JoinsUp
<1> HIDE DEF h
<1> DEFINE T == {0} \union {i \in 1 .. n : h[i] = g[i]}
<1>11. ASSUME NEW i \in 0 .. n, i < n, i \in T PROVE i + 1 \in T
  <2>1. i + 1 \in 1 .. n /\ (i + 1) - 1 = i
    BY <1>11
  <2>2. /\ h[i + 1] = IF i + 1 = 1 THEN ss[i + 1] ELSE h[i] \o ss[i + 1]
        /\ g[i + 1] = IF i + 1 = 1 THEN ss[i + 1] ELSE g[i] \o ss[i + 1]
    BY <1>1, <1>8, <1>9, <2>1 DEF JoinsUp
  <2>3. i # 0 => h[i] = g[i]
    BY <1>11
  <2>4. h[i + 1] = g[i + 1]
    BY <2>2, <2>3
  <2> QED  BY <2>1, <2>4
<1>12. n \in T
  <2>1. 0 \in T
    OBVIOUS
  <2> HIDE DEF T
  <2>2. \A i \in 0 .. n : i \in T
    BY <1>11, <2>1, UpTo
  <2>3. n \in 0 .. n
    OBVIOUS
  <2> QED  BY <2>2, <2>3
<1>13. h[n] = g[n]
  BY <1>1, <1>12
<1> QED  BY <1>1, <1>7, <1>8, <1>10, <1>13

-----------------------------------------------------------------------------
(* All the values, or the first refusal.                                   *)

LEMMA OkFacts ==
  ASSUME NEW v, NEW r, r = Ok(v)
  PROVE  r.word = "" /\ r.value = v
BY DEF Ok

LEMMA RefuseFacts ==
  ASSUME NEW w, NEW r, r = Refuse(w)
  PROVE  r.word = w
BY DEF Refuse

LEMMA NotRefused ==
  ASSUME NEW w, w # "", NEW r, r.word = ""
  PROVE  r # Refuse(w)
BY RefuseFacts, Zenon

LEMMA RangeFacts ==
  ASSUME NEW a, NEW i \in 1 .. a
  PROVE  i \in Nat /\ i >= 1 /\ \A j \in Nat : j < i /\ j >= 1 => j \in 1 .. i - 1
OBVIOUS

LEMMA NatsDiffer ==
  ASSUME NEW i \in Nat, NEW j \in Nat, i # j
  PROVE  i < j \/ j < i
OBVIOUS

LEMMA FirstOfIn ==
  ASSUME NEW S \in SUBSET Nat, S # {}
  PROVE  FirstOf(S) \in S
BY LeastNatural DEF FirstOf

LEMMA ResultsFacts ==
  ASSUME NEW rs, DOMAIN rs \in SUBSET Nat, NEW r, r = Results(rs), r.word = ""
  PROVE  /\ \A i \in DOMAIN rs : rs[i].word = ""
         /\ r.value = [i \in DOMAIN rs |-> rs[i].value]
<1> DEFINE refused == {i \in DOMAIN rs : rs[i].word # ""}
<1>1. refused = {}
  <2>1. SUFFICES ASSUME refused # {} PROVE FALSE
    OBVIOUS
  <2>2. FirstOf(refused) \in refused
    BY <2>1, FirstOfIn
  <2>3. r = Refuse(rs[FirstOf(refused)].word)
    BY <2>1 DEF Results
  <2>4. PICK w : w = rs[FirstOf(refused)].word
    OBVIOUS
  <2>5. w # ""
    BY <2>2, <2>4
  <2>6. r = Refuse(w)
    BY <2>3, <2>4
  <2> QED  BY <2>5, <2>6, RefuseFacts, Zenon
<1>2. PICK vs : vs = [i \in DOMAIN rs |-> rs[i].value]
  OBVIOUS
<1>3. r = Ok(vs)
  BY <1>1, <1>2 DEF Results
<1>4. r.value = vs
  BY <1>3, OkFacts, Zenon
<1>5. \A i \in DOMAIN rs : rs[i].word = ""
  BY <1>1
<1> QED  BY <1>2, <1>4, <1>5

LEMMA ResultsGood ==
  ASSUME NEW rs, \A i \in DOMAIN rs : rs[i].word = ""
  PROVE  Results(rs) = Ok([i \in DOMAIN rs |-> rs[i].value])
BY DEF Results

-----------------------------------------------------------------------------
(* A structure that was read: each required member stands in the document, *)
(* once, and was read by its own type.                                     *)

LEMMA Singleton ==
  ASSUME NEW n, NEW i \in 1 .. n, NEW T, T = {i}
  PROVE  Max(T) = i
<1>1. i \in Nat
  BY RangeFacts
<1> QED  BY <1>1 DEF Max

(* DecodeMember lets a member of the table stand only once.                *)
Sole(members, i) == \A j \in 1 .. i - 1 : members[j].key # members[i].key
Once(table, members, rs) ==
  \A i \in 1 .. Len(members) :
    rs[i].word = "" /\ members[i].key \in DOMAIN table.fields
      => Sole(members, i)

LEMMA LastIsOnly ==
  ASSUME NEW table, NEW members, NEW rs, Once(table, members, rs),
         \A j \in 1 .. Len(members) : rs[j].word = "",
         NEW i \in 1 .. Len(members), members[i].key \in DOMAIN table.fields
  PROVE  Max({j \in 1 .. Len(members) : members[j].key = members[i].key}) = i
<1> DEFINE T == {j \in 1 .. Len(members) : members[j].key = members[i].key}
<1>1. ASSUME NEW j \in 1 .. Len(members), members[j].key = members[i].key, j # i
      PROVE  FALSE
  <2>1. PICK n : n = Len(members)
    OBVIOUS
  <2>4. i \in 1 .. n /\ j \in 1 .. n
    BY <2>1
  <2>5. i \in Nat /\ j \in Nat /\ i >= 1 /\ j >= 1
    BY <2>4, RangeFacts
  <2>2. CASE j < i
    <3>1. j \in 1 .. i - 1
      BY <2>2, <2>4, <2>5, RangeFacts
    <3> QED  BY <1>1, <3>1, Zenon DEF Once, Sole
  <2>3. CASE i < j
    <3>1. i \in 1 .. j - 1
      BY <2>3, <2>4, <2>5, RangeFacts
    <3> QED  BY <1>1, <3>1, Zenon DEF Once, Sole
  <2>6. i < j \/ j < i
    BY <1>1, <2>5, NatsDiffer, Zenon
  <2> QED  BY <2>2, <2>3, <2>6
<1>2. T = {i}
  BY <1>1
<1> HIDE DEF T
<1>3. Max(T) = i
  BY <1>2, Singleton
<1> QED  BY <1>3 DEF T

LEMMA EnterFacts ==
  ASSUME NEW x, NEW kinds, NEW depth, NEW r, NEW out,
         out = Enter(x, kinds, depth, r), out.word = ""
  PROVE  x.k \in kinds /\ out = r
<1>1. CASE x.k \notin kinds
  <2>1. out = Refuse("wrong_type")
    BY <1>1 DEF Enter
  <2> QED  BY <2>1, NotRefused, Zenon
<1>2. CASE x.k \in kinds /\ depth + 1 > DepthLimit
  <2>1. out = Refuse("depth_exceeded")
    BY <1>2 DEF Enter
  <2> QED  BY <2>1, NotRefused, Zenon
<1>3. CASE x.k \in kinds /\ ~(depth + 1 > DepthLimit)
  BY <1>3 DEF Enter
<1> QED  BY <1>1, <1>2, <1>3

Completed(type, table, r, out) ==
  /\ r.word = "" /\ table.required \subseteq DOMAIN r.value
  /\ Unreadable(type, out.value) = ""
  /\ \A f \in DOMAIN table.fields \intersect DOMAIN r.value : out.value[f] = r.value[f]
LEMMA CompleteFacts ==
  ASSUME NEW type, NEW table, NEW r, NEW out,
         out = Complete(type, table, r), out.word = ""
  PROVE  Completed(type, table, r, out)
<1> USE DEF Completed
<1>1. CASE r.word # ""
  BY <1>1 DEF Complete
<1>2. CASE r.word = "" /\ ~(table.required \subseteq DOMAIN r.value)
  <2>1. out = Refuse("missing_field")
    BY <1>2 DEF Complete
  <2> QED  BY <2>1, NotRefused, Zenon
<1>3. CASE r.word = "" /\ table.required \subseteq DOMAIN r.value
  <2>1. PICK v : v = [f \in DOMAIN table.fields |->
                  IF f \in DOMAIN r.value THEN r.value[f] ELSE Zero(table.fields[f])]
    OBVIOUS
  <2>2. out = Judge(type, v)
    BY <1>3, <2>1 DEF Complete
  <2>3. PICK u : u = Unreadable(type, v)
    OBVIOUS
  <2>4. out = IF u # "" THEN Refuse(u) ELSE Ok(v)
    BY <2>2, <2>3 DEF Judge
  <2>5. u = "" /\ out = Ok(v)
    BY <2>4, RefuseFacts
  <2>6. out.value = v
    BY <2>5, OkFacts
  <2> QED  BY <1>3, <2>1, <2>3, <2>5, <2>6
<1> QED  BY <1>1, <1>2, <1>3

LEMMA CloseFacts ==
  ASSUME NEW x, NEW r, NEW out, out = Close(x, r), out.word = ""
  PROVE  out = r
<1>1. CASE r.word = "" /\ x.k = "cut"
  <2>1. out = Refuse("malformed")
    BY <1>1 DEF Close
  <2> QED  BY <2>1, NotRefused, Zenon
<1>2. CASE ~(r.word = "" /\ x.k = "cut")
  BY <1>2 DEF Close
<1> QED  BY <1>1, <1>2

Keys(members) == {members[i].key : i \in 1 .. Len(members)}
LastAt(members, k) == Max({i \in 1 .. Len(members) : members[i].key = k})
Collected(members, r, out) ==
  r.word = "" /\ out.value = [k \in Keys(members) |-> r.value[LastAt(members, k)]]
LEMMA CollectFacts ==
  ASSUME NEW members, NEW r, NEW out, out = Collect(members, r), out.word = ""
  PROVE  Collected(members, r, out)
<1>1. CASE r.word # ""
  BY <1>1 DEF Collect
<1>2. CASE r.word = ""
  <2>1. PICK v : v = [k \in Keys(members) |-> r.value[LastAt(members, k)]]
    OBVIOUS
  <2>2. out = Ok(v)
    BY <1>2, <2>1 DEF Collect, Keys, LastAt
  <2>3. out.value = v
    BY <2>2, OkFacts
  <2> QED  BY <1>2, <2>1, <2>3 DEF Collected
<1> QED  BY <1>1, <1>2

(* The members of a structure, for the readings rs of its members.         *)
ReadBy(type, table, x, depth, rs) ==
  Enter(x, Objects, depth, Complete(type, table, Collect(x.v, Close(x, Results(rs)))))

StructRead(type, table, x, rs, out) ==
  /\ Unreadable(type, out.value) = ""
  /\ \A k \in table.required \intersect DOMAIN table.fields :
       \E i \in 1 .. Len(x.v) :
         x.v[i].key = k /\ rs[i].word = "" /\ out.value[k] = rs[i].value
LEMMA StructFacts ==
  ASSUME NEW type, NEW table, NEW x, NEW depth, NEW rs,
         DOMAIN rs = 1 .. Len(x.v), Once(table, x.v, rs),
         NEW out, out = ReadBy(type, table, x, depth, rs), out.word = ""
  PROVE  StructRead(type, table, x, rs, out)
<1>1. PICK r1 : r1 = Results(rs)
  OBVIOUS
<1>2. PICK r2 : r2 = Close(x, r1)
  OBVIOUS
<1>3. PICK r3 : r3 = Collect(x.v, r2)
  OBVIOUS
<1>4. PICK r4 : r4 = Complete(type, table, r3)
  OBVIOUS
<1>5. out = Enter(x, Objects, depth, r4)
  BY <1>1, <1>2, <1>3, <1>4, Zenon DEF ReadBy
<1>6. out = r4
  BY <1>5, EnterFacts, Zenon
<1>7. /\ r3.word = "" /\ table.required \subseteq DOMAIN r3.value
      /\ Unreadable(type, out.value) = ""
      /\ \A f \in DOMAIN table.fields \intersect DOMAIN r3.value : out.value[f] = r3.value[f]
  <2>1. out = Complete(type, table, r3)
    BY <1>4, <1>6
  <2>2. Completed(type, table, r3, out)
    BY <2>1, CompleteFacts, Zenon
  <2> QED  BY <2>2 DEF Completed
<1>8. r2.word = "" /\ r3.value = [k \in Keys(x.v) |-> r2.value[LastAt(x.v, k)]]
  <2>1. r3.word = ""
    BY <1>7
  <2>2. Collected(x.v, r2, r3)
    BY <1>3, <2>1, CollectFacts, Zenon
  <2> QED  BY <2>2, Zenon DEF Collected
<1>9. r2 = r1
  BY <1>2, <1>8, CloseFacts, Zenon
<1>10. DOMAIN rs \in SUBSET Nat
  <2>1. PICK n : n = Len(x.v)
    OBVIOUS
  <2>2. DOMAIN rs = 1 .. n
    BY <2>1
  <2> QED  BY <2>2, RangeFacts, Zenon
<1>11. r1.word = ""
  BY <1>8, <1>9
<1>12. /\ \A i \in DOMAIN rs : rs[i].word = ""
       /\ r1.value = [i \in DOMAIN rs |-> rs[i].value]
  BY <1>1, <1>10, <1>11, ResultsFacts, Zenon
<1>13. ASSUME NEW k \in table.required \intersect DOMAIN table.fields
       PROVE  \E i \in 1 .. Len(x.v) :
                x.v[i].key = k /\ rs[i].word = "" /\ out.value[k] = rs[i].value
  <2>1. k \in DOMAIN r3.value
    BY <1>7
  <2>2. PICK i \in 1 .. Len(x.v) : x.v[i].key = k
    <3>1. DOMAIN r3.value = Keys(x.v)
      BY <1>8, Zenon
    <3> QED  BY <2>1, <3>1 DEF Keys
  <2>3. LastAt(x.v, k) = i
    <3>1. \A j \in 1 .. Len(x.v) : rs[j].word = ""
      BY <1>12
    <3>2. x.v[i].key \in DOMAIN table.fields
      BY <1>13, <2>2
    <3>3. LastAt(x.v, x.v[i].key) = i
      BY <3>1, <3>2, LastIsOnly, Zenon DEF LastAt
    <3> QED  BY <2>2, <3>3, Zenon
  <2>4. r3.value[k] = r2.value[i]
    <3>1. r3.value[k] = r2.value[LastAt(x.v, k)]
      BY <1>8, <2>1, Zenon
    <3> QED  BY <2>2, <2>3, <3>1, Zenon
  <2>5. r1.value[i] = rs[i].value
    BY <1>12, Zenon
  <2>6. out.value[k] = r3.value[k]
    BY <1>7, <2>1, Zenon
  <2>7. rs[i].word = ""
    BY <1>12, Zenon
  <2> QED  BY <1>9, <2>2, <2>4, <2>5, <2>6, <2>7, Zenon
<1> QED  BY <1>7, <1>13, Zenon DEF StructRead

-----------------------------------------------------------------------------
(* DecodeMember, for what r the decoder makes of the member's value.       *)

MemberBy(table, members, i, depth, r) ==
  LET m == members[i]
  IN Keyed(m,
       IF m.key \notin DOMAIN table.fields
       THEN IF table.open THEN Skipped(m.value, skipValue(m.value, depth))
            ELSE Refuse("unknown_field")
       ELSE IF \E j \in 1 .. i - 1 : members[j].key = m.key
            THEN Refuse("duplicate_field")
            ELSE r)

MemberRead(out, table, members, i, depth, r) ==
  /\ out = MemberBy(table, members, i, depth, r) /\ out.word = ""
  /\ members[i].key \in DOMAIN table.fields

LEMMA MemberFacts ==
  ASSUME NEW table, NEW members, NEW i, NEW depth, NEW r, NEW out,
         MemberRead(out, table, members, i, depth, r)
  PROVE  out = r /\ Sole(members, i)
<1> USE DEF MemberRead
<1>1. CASE members[i].key \in Broken
  <2>1. out = Refuse("bad_string")
    BY <1>1 DEF MemberBy, Keyed
  <2> QED  BY <2>1, NotRefused, Zenon
<1>2. CASE members[i].key \notin Broken
  <2>1. CASE \E j \in 1 .. i - 1 : members[j].key = members[i].key
    <3>1. out = Refuse("duplicate_field")
      BY <1>2, <2>1 DEF MemberBy, Keyed
    <3> QED  BY <3>1, NotRefused, Zenon
  <2>2. CASE ~\E j \in 1 .. i - 1 : members[j].key = members[i].key
    <3>1. out = r
      BY <1>2, <2>2 DEF MemberBy, Keyed
    <3> QED  BY <2>2, <3>1, Zenon DEF Sole
  <2> QED  BY <2>1, <2>2
<1> QED  BY <1>1, <1>2

(* The readings of the members of a record and of a call's structures.     *)
RecordMembers(x, depth) ==
  [i \in 1 .. Len(x.v) |->
     MemberBy(decodeRecord, x.v, i, depth + 1,
       DecodeInRecord(decodeRecord.fields[x.v[i].key], x.v[i].value, depth + 1))]
CallMembers(table, x, depth) ==
  [i \in 1 .. Len(x.v) |->
     MemberBy(table, x.v, i, depth + 1,
       DecodeInCall(table.fields[x.v[i].key], x.v[i].value, depth + 1))]

LEMMA ReadRecordIs ==
  ASSUME NEW x, NEW depth
  PROVE  ReadRecord(x, depth)
           = ReadBy("Record", decodeRecord, x, depth, RecordMembers(x, depth))
<1>1. Decoder["Record"] = decodeRecord
  BY DEF Decoder
<1> QED  BY <1>1, Zenon DEF ReadRecord, DecodeStruct, DecodeMember, ReadBy,
                            RecordMembers, MemberBy

LEMMA DecodeIs ==
  ASSUME NEW type, NEW x, NEW depth
  PROVE  Decode(type, x, depth)
           = ReadBy(type, Decoder[type], x, depth, CallMembers(Decoder[type], x, depth))
BY Zenon DEF Decode, DecodeStruct, DecodeMember, ReadBy, CallMembers, MemberBy

RecordRead(x, depth, rs) ==
  /\ DOMAIN rs = 1 .. Len(x.v) /\ Once(decodeRecord, x.v, rs)
  /\ \A i \in 1 .. Len(x.v) :
       rs[i].word = "" /\ x.v[i].key \in DOMAIN decodeRecord.fields
         => rs[i] = DecodeInRecord(decodeRecord.fields[x.v[i].key], x.v[i].value, depth + 1)
LEMMA RecordMembersFacts ==
  ASSUME NEW x, NEW depth, NEW rs, rs = RecordMembers(x, depth)
  PROVE  RecordRead(x, depth, rs)
<1>1. DOMAIN rs = 1 .. Len(x.v)
  BY Zenon DEF RecordMembers
<1>2. ASSUME NEW i \in 1 .. Len(x.v), rs[i].word = "",
             x.v[i].key \in DOMAIN decodeRecord.fields
      PROVE  /\ rs[i] = DecodeInRecord(decodeRecord.fields[x.v[i].key], x.v[i].value, depth + 1)
             /\ Sole(x.v, i)
  <2>1. PICK r : r = DecodeInRecord(decodeRecord.fields[x.v[i].key], x.v[i].value, depth + 1)
    OBVIOUS
  <2>2. rs[i] = MemberBy(decodeRecord, x.v, i, depth + 1, r)
    BY <2>1, Zenon DEF RecordMembers
  <2>3. MemberRead(rs[i], decodeRecord, x.v, i, depth + 1, r)
    BY <1>2, <2>2, Zenon DEF MemberRead
  <2>4. rs[i] = r /\ Sole(x.v, i)
    BY <2>3, MemberFacts, Zenon
  <2> QED  BY <2>1, <2>4, Zenon
<1> QED  BY <1>1, <1>2, Zenon DEF Once, RecordRead

CallRead(table, x, depth, rs) ==
  /\ DOMAIN rs = 1 .. Len(x.v) /\ Once(table, x.v, rs)
  /\ \A i \in 1 .. Len(x.v) :
       rs[i].word = "" /\ x.v[i].key \in DOMAIN table.fields
         => rs[i] = DecodeInCall(table.fields[x.v[i].key], x.v[i].value, depth + 1)
LEMMA CallMembersFacts ==
  ASSUME NEW table, NEW x, NEW depth, NEW rs, rs = CallMembers(table, x, depth)
  PROVE  CallRead(table, x, depth, rs)
<1>1. DOMAIN rs = 1 .. Len(x.v)
  BY Zenon DEF CallMembers
<1>2. ASSUME NEW i \in 1 .. Len(x.v), rs[i].word = "",
             x.v[i].key \in DOMAIN table.fields
      PROVE  /\ rs[i] = DecodeInCall(table.fields[x.v[i].key], x.v[i].value, depth + 1)
             /\ Sole(x.v, i)
  <2>1. PICK r : r = DecodeInCall(table.fields[x.v[i].key], x.v[i].value, depth + 1)
    OBVIOUS
  <2>2. rs[i] = MemberBy(table, x.v, i, depth + 1, r)
    BY <2>1, Zenon DEF CallMembers
  <2>3. MemberRead(rs[i], table, x.v, i, depth + 1, r)
    BY <1>2, <2>2, Zenon DEF MemberRead
  <2>4. rs[i] = r /\ Sole(x.v, i)
    BY <2>3, MemberFacts, Zenon
  <2> QED  BY <2>1, <2>4, Zenon
<1> QED  BY <1>1, <1>2, Zenon DEF Once, CallRead

(* A member that a call's structure requires was read by its type.         *)
Requires(table, k, type) ==
  k \in table.required \intersect DOMAIN table.fields /\ table.fields[k] = type
MemberIsRead(type, x, depth, k, out) ==
  \E i \in 1 .. Len(x.v) : \E r :
    /\ x.v[i].key = k /\ r = DecodeInCall(type, x.v[i].value, depth + 1)
    /\ r.word = "" /\ out.value[k] = r.value
LEMMA CallMemberRead ==
  ASSUME NEW type, NEW table, table = Decoder[type],
         NEW x, NEW depth, NEW out, out = Decode(type, x, depth), out.word = "",
         NEW k, NEW of, Requires(table, k, of)
  PROVE  MemberIsRead(of, x, depth, k, out)
<1>2. PICK rs : rs = CallMembers(table, x, depth)
  OBVIOUS
<1>3. out = ReadBy(type, table, x, depth, rs)
  BY <1>2, DecodeIs, Zenon
<1>4. /\ DOMAIN rs = 1 .. Len(x.v) /\ Once(table, x.v, rs)
      /\ \A i \in 1 .. Len(x.v) :
           rs[i].word = "" /\ x.v[i].key \in DOMAIN table.fields
             => rs[i] = DecodeInCall(table.fields[x.v[i].key], x.v[i].value, depth + 1)
  <2>1. CallRead(table, x, depth, rs)
    BY <1>2, CallMembersFacts, Zenon
  <2> QED  BY <2>1, Zenon DEF CallRead
<1>5. /\ k \in table.required \intersect DOMAIN table.fields /\ k \in DOMAIN table.fields
      /\ table.fields[k] = of
  BY Zenon DEF Requires
<1>6. PICK i \in 1 .. Len(x.v) :
        x.v[i].key = k /\ rs[i].word = "" /\ out.value[k] = rs[i].value
  <2>1. StructRead(type, table, x, rs, out)
    BY <1>3, <1>4, StructFacts, Zenon
  <2> QED  BY <1>5, <2>1, Zenon DEF StructRead
<1>7. rs[i] = DecodeInCall(of, x.v[i].value, depth + 1)
  BY <1>4, <1>5, <1>6, Zenon
<1> QED  BY <1>6, <1>7, Zenon DEF MemberIsRead

(* What a reader of records lets through, a writer of records can write.   *)
Writable(v) == v.schema = 1 /\ WideTimestamp(v.time)

LEMMA TimeRead ==
  ASSUME NEW x, NEW depth, NEW r, r = DecodeInRecord("time", x, depth), r.word = ""
  PROVE  WideTimestamp(r.value)
<1>1. r = OfKind(x, "time", timestamp(x))
  BY DEF DecodeInRecord, DecodeLeaf
<1>2. r = timestamp(x)
  <2>1. CASE x.k = "time"
    BY <1>1, <2>1 DEF OfKind
  <2>2. CASE x.k # "time"
    <3>1. r = Refuse("wrong_type")
      BY <1>1, <2>2 DEF OfKind
    <3> QED  BY <3>1, NotRefused, Zenon
  <2> QED  BY <2>1, <2>2
<1>3. CASE WideTimestamp(x.v)
  <2>1. r = Ok(x.v)
    BY <1>2, <1>3 DEF timestamp
  <2>2. r.value = x.v
    BY <2>1, OkFacts, Zenon
  <2> QED  BY <1>3, <2>2, Zenon
<1>4. CASE ~WideTimestamp(x.v)
  <2>1. r = Refuse("bad_timestamp")
    BY <1>2, <1>4 DEF timestamp
  <2> QED  BY <2>1, NotRefused, Zenon
<1> QED  BY <1>3, <1>4

LEMMA ReadIsWritable ==
  ASSUME NEW x, NEW depth, NEW out, out = ReadRecord(x, depth), out.word = ""
  PROVE  Writable(out.value)
<1>1. PICK rs : rs = RecordMembers(x, depth)
  OBVIOUS
<1>2. out = ReadBy("Record", decodeRecord, x, depth, rs)
  BY <1>1, ReadRecordIs, Zenon
<1>3. /\ DOMAIN rs = 1 .. Len(x.v) /\ Once(decodeRecord, x.v, rs)
      /\ \A i \in 1 .. Len(x.v) :
           rs[i].word = "" /\ x.v[i].key \in DOMAIN decodeRecord.fields
             => rs[i] = DecodeInRecord(decodeRecord.fields[x.v[i].key], x.v[i].value, depth + 1)
  <2>1. RecordRead(x, depth, rs)
    BY <1>1, RecordMembersFacts, Zenon
  <2> QED  BY <2>1, Zenon DEF RecordRead
<1>4. /\ Unreadable("Record", out.value) = ""
      /\ \A k \in decodeRecord.required \intersect DOMAIN decodeRecord.fields :
           \E i \in 1 .. Len(x.v) :
             x.v[i].key = k /\ rs[i].word = "" /\ out.value[k] = rs[i].value
  <2>1. StructRead("Record", decodeRecord, x, rs, out)
    BY <1>2, <1>3, StructFacts, Zenon
  <2> QED  BY <2>1, Zenon DEF StructRead
<1>5. out.value.schema = 1
  <2>1. PICK v : v = out.value
    OBVIOUS
  <2>2. Unreadable("Record", v) = ""
    BY <1>4, <2>1, Zenon
  <2>3. v.schema = 1
    BY <2>2 DEF Unreadable
  <2> QED  BY <2>1, <2>3, Zenon
<1>6. /\ "time" \in decodeRecord.required \intersect DOMAIN decodeRecord.fields
      /\ decodeRecord.fields["time"] = "time"
  BY DEF decodeRecord
<1>7. PICK i \in 1 .. Len(x.v) :
        x.v[i].key = "time" /\ rs[i].word = "" /\ out.value["time"] = rs[i].value
  BY <1>4, <1>6, Zenon
<1>8. rs[i] = DecodeInRecord("time", x.v[i].value, depth + 1)
  BY <1>3, <1>6, <1>7, Zenon
<1>9. WideTimestamp(rs[i].value)
  BY <1>7, <1>8, TimeRead, Zenon
<1>10. WideTimestamp(out.value["time"])
  BY <1>7, <1>9, Zenon
<1> QED  BY <1>5, <1>10, Zenon DEF Writable

-----------------------------------------------------------------------------
(* Writing.  The members that are written are members of the table.        *)

Omits(f, v) == Len(f) = 3 /\ IsEmpty(f[2], v[f[1]])
WrittenUpTo(g, fields, v) ==
  g = [i \in 0 .. Len(fields) |->
         IF i = 0 THEN <<>>
         ELSE IF Omits(fields[i], v) THEN g[i - 1] ELSE Append(g[i - 1], fields[i])]

LEMMA WrittenFacts ==
  ASSUME NEW S, NEW fields \in Seq(S), NEW v
  PROVE  Written(fields, v) \in Seq(S)
<1>1. PICK n \in Nat : n = Len(fields) /\ \A i \in 1 .. n : fields[i] \in S
  BY LenProperties
<1> DEFINE step == [i \in 1 .. n |-> [q \in Seq(S) |->
                      IF Omits(fields[i], v) THEN q ELSE Append(q, fields[i])]]
<1>2. step \in [1 .. n -> [Seq(S) -> Seq(S)]]
  <2>1. ASSUME NEW i \in 1 .. n, NEW q \in Seq(S)
        PROVE  (IF Omits(fields[i], v) THEN q ELSE Append(q, fields[i])) \in Seq(S)
    BY <1>1, AppendFacts
  <2> QED  BY <2>1
<1>3. <<>> \in Seq(S)
  OBVIOUS
<1>4. PICK g \in [0 .. n -> Seq(S)] : Iterates(g, n, <<>>, step)
  <2> HIDE DEF step
  <2> QED  BY <1>2, <1>3, IteratesExists
<1>5. ASSUME NEW i \in 0 .. n
      PROVE  g[i] = IF i = 0 THEN <<>>
                    ELSE IF Omits(fields[i], v) THEN g[i - 1] ELSE Append(g[i - 1], fields[i])
  <2>1. CASE i = 0
    BY <1>4, <2>1 DEF Iterates
  <2>2. CASE i # 0
    <3>1. i \in 1 .. n /\ i - 1 \in 0 .. n
      BY <2>2
    <3>2. g[i] = step[i][g[i - 1]]
      BY <1>4, <3>1 DEF Iterates
    <3>3. g[i - 1] \in Seq(S)
      BY <3>1
    <3> QED  BY <2>2, <3>1, <3>2, <3>3
  <2> QED  BY <2>1, <2>2
<1>6. g = [i \in 0 .. n |-> g[i]]
  OBVIOUS
<1>7. WrittenUpTo(g, fields, v)
  BY <1>1, <1>5, <1>6 DEF WrittenUpTo
<1> DEFINE h == CHOOSE h : WrittenUpTo(h, fields, v)
<1>8. WrittenUpTo(h, fields, v)
  BY <1>7
<1>9. Written(fields, v) = h[Len(fields)]
  BY DEF Written, WrittenUpTo, Omits
<1> HIDE DEF h
<1> DEFINE T == {i \in 0 .. n : h[i] = g[i]}
<1>10. h = [i \in 0 .. n |-> IF i = 0 THEN <<>>
                ELSE IF Omits(fields[i], v) THEN h[i - 1] ELSE Append(h[i - 1], fields[i])]
  BY <1>1, <1>8 DEF WrittenUpTo
<1>11. 0 \in T
  BY <1>5, <1>10
<1>12. ASSUME NEW i \in 0 .. n, i < n, i \in T PROVE i + 1 \in T
  <2>1. i + 1 \in 0 .. n /\ i + 1 # 0 /\ (i + 1) - 1 = i
    BY <1>12
  <2>2. /\ h[i + 1] = IF Omits(fields[i + 1], v) THEN h[i] ELSE Append(h[i], fields[i + 1])
        /\ g[i + 1] = IF Omits(fields[i + 1], v) THEN g[i] ELSE Append(g[i], fields[i + 1])
    BY <1>5, <1>10, <2>1
  <2>3. h[i] = g[i]
    BY <1>12
  <2> QED  BY <2>1, <2>2, <2>3
<1>13. h[n] = g[n]
  <2> HIDE DEF T
  <2>1. \A i \in 0 .. n : i \in T
    BY <1>11, <1>12, UpTo
  <2>2. n \in 0 .. n
    OBVIOUS
  <2> QED  BY <2>1, <2>2 DEF T
<1>14. g[n] \in Seq(S)
  OBVIOUS
<1> QED  BY <1>1, <1>9, <1>13, <1>14

(* Every leaf can be written but a time that is none.                      *)
LEMMA LeafWritten ==
  ASSUME NEW type, NEW v, type = "time" => WideTimestamp(v)
  PROVE  \E u : EncodeLeaf(type, v) = Ok(u)
<1>1. CASE type = "time"
  BY <1>1 DEF EncodeLeaf, writeTimestamp
<1>2. CASE type # "time"
  <2>1. PICK e : e = EncodeLeaf(type, v)
    OBVIOUS
  <2>2. \/ e = Ok(Value("name", v)) \/ e = Ok(Value("text", esc(v)))
        \/ e = Ok(Value("bool", v)) \/ e = Ok(v) \/ e = Ok(strmap(v))
        \/ e = Ok(Value("num", num(v)))
    BY <1>2, <2>1 DEF EncodeLeaf
  <2> QED  BY <2>1, <2>2, Zenon
<1> QED  BY <1>1, <1>2

LEMMA MemberWritten ==
  ASSUME NEW f, NEW r, r.word = ""
  PROVE  MemberOf(f, r) = Ok(Member(f[1], r.value))
BY DEF MemberOf

(* A structure, for the texts rs of its members.                           *)
WriteBy(type, v, rs) ==
  IF Unwritable(type, v) # "" THEN Refuse(Unwritable(type, v)) ELSE As("object", Results(rs))

AllOk(rs) == \A i \in DOMAIN rs : rs[i].word = ""
Values(rs) == [i \in DOMAIN rs |-> rs[i].value]

LEMMA ResultsOk ==
  ASSUME NEW rs, AllOk(rs)
  PROVE  Results(rs) = Ok(Values(rs))
BY ResultsGood, Zenon DEF AllOk, Values

LEMMA AsOk ==
  ASSUME NEW kind, NEW rs, AllOk(rs)
  PROVE  As(kind, Results(rs)) = Ok(Value(kind, Values(rs)))
<1>1. PICK r : r = Results(rs)
  OBVIOUS
<1>2. r.word = "" /\ r.value = Values(rs)
  <2>1. r = Ok(Values(rs))
    BY <1>1, ResultsOk, Zenon
  <2> QED  BY <2>1, OkFacts, Zenon
<1>3. As(kind, r) = Ok(Value(kind, r.value))
  BY <1>2 DEF As
<1> QED  BY <1>1, <1>2, <1>3, Zenon

LEMMA StructWritten ==
  ASSUME NEW type, NEW v, NEW rs, Unwritable(type, v) = "", AllOk(rs)
  PROVE  WriteBy(type, v, rs) = Ok(Value("object", Values(rs)))
BY AsOk, Zenon DEF WriteBy

AttestationTexts(v) ==
  [i \in 1 .. Len(Written(encAttestation, v)) |->
     MemberOf(Written(encAttestation, v)[i],
       EncodeLeaf(Written(encAttestation, v)[i][2], v[Written(encAttestation, v)[i][1]]))]
RecordTexts(v) ==
  [i \in 1 .. Len(Written(encRecord, v)) |->
     MemberOf(Written(encRecord, v)[i],
       EncodeInRecord(Written(encRecord, v)[i][2], v[Written(encRecord, v)[i][1]]))]
FrameTexts(v) ==
  [i \in 1 .. Len(Written(encServiceFrame, v)) |->
     MemberOf(Written(encServiceFrame, v)[i],
       EncodeInCall(Written(encServiceFrame, v)[i][2], v[Written(encServiceFrame, v)[i][1]]))]

LEMMA EncodersAre ==
  ASSUME NEW v
  PROVE  /\ EncodeAttestation(v) = WriteBy("Attestation", v, AttestationTexts(v))
         /\ EncodeRecord(v) = WriteBy("Record", v, RecordTexts(v))
         /\ Encode("Frame", v) = WriteBy("Frame", v, FrameTexts(v))
<1>1. /\ Encoder["Attestation"] = encAttestation /\ Encoder["Record"] = encRecord
      /\ Encoder["Frame"] = encServiceFrame
  BY DEF Encoder
<1>2. EncodeAttestation(v) = WriteBy("Attestation", v, AttestationTexts(v))
  BY <1>1, Zenon DEF EncodeAttestation, EncodeStruct, WriteBy, AttestationTexts
<1>3. EncodeRecord(v) = WriteBy("Record", v, RecordTexts(v))
  BY <1>1, Zenon DEF EncodeRecord, EncodeStruct, WriteBy, RecordTexts
<1>4. Encode("Frame", v) = WriteBy("Frame", v, FrameTexts(v))
  BY <1>1, Zenon DEF Encode, EncodeStruct, WriteBy, FrameTexts
<1> QED  BY <1>2, <1>3, <1>4

(* The tables.                                                             *)
Table(fields) == {fields[j] : j \in 1 .. Len(fields)}
LEMMA AttestationTable ==
  /\ encAttestation \in Seq(Table(encAttestation))
  /\ \A f \in Table(encAttestation) : f[2] # "time"
BY DEF Table, encAttestation
LEMMA RecordTable ==
  /\ encRecord \in Seq(Table(encRecord))
  /\ \A f \in Table(encRecord) : f[2] = "time" => f[1] = "time"
BY DEF Table, encRecord
LEMMA FrameTable ==
  /\ encServiceFrame \in Seq(Table(encServiceFrame))
  /\ \A f \in Table(encServiceFrame) :
       /\ f[2] \notin {"Record", "Page", "time"}
       /\ f[1] = "service" => f[2] = "name"
BY DEF Table, encServiceFrame

LEMMA TextOk ==
  ASSUME NEW f, NEW r, \E u : r = Ok(u)
  PROVE  MemberOf(f, r).word = ""
<1>1. r.word = ""
  BY OkFacts, Zenon
<1>2. MemberOf(f, r) = Ok(Member(f[1], r.value))
  BY <1>1, MemberWritten, Zenon
<1> QED  BY <1>2, OkFacts, Zenon

LEMMA WrittenIn ==
  ASSUME NEW fields, fields \in Seq(Table(fields)), NEW v,
         NEW i \in 1 .. Len(Written(fields, v))
  PROVE  Written(fields, v)[i] \in Table(fields)
<1>1. PICK S, w : S = Table(fields) /\ w = Written(fields, v)
  OBVIOUS
<1>2. w \in Seq(S) /\ i \in 1 .. Len(w)
  BY <1>1, WrittenFacts, Zenon
<1>3. w[i] \in S
  BY <1>2
<1> QED  BY <1>1, <1>3, Zenon

LEMMA AttestationWritten ==
  ASSUME NEW v
  PROVE  \E u : EncodeAttestation(v) = Ok(u)
<1>1. ASSUME NEW i \in 1 .. Len(Written(encAttestation, v))
      PROVE  AttestationTexts(v)[i].word = ""
  <2>1. PICK f : f = Written(encAttestation, v)[i]
    OBVIOUS
  <2>2. f[2] # "time"
    BY <2>1, AttestationTable, WrittenIn, Zenon
  <2>3. \E u : EncodeLeaf(f[2], v[f[1]]) = Ok(u)
    BY <2>2, LeafWritten, Zenon
  <2>4. AttestationTexts(v)[i] = MemberOf(f, EncodeLeaf(f[2], v[f[1]]))
    BY <2>1, Zenon DEF AttestationTexts
  <2> QED  BY <2>3, <2>4, TextOk, Zenon
<1>2. AllOk(AttestationTexts(v))
  <2>1. DOMAIN AttestationTexts(v) = 1 .. Len(Written(encAttestation, v))
    BY Zenon DEF AttestationTexts
  <2> QED  BY <1>1, <2>1, Zenon DEF AllOk
<1>3. Unwritable("Attestation", v) = ""
  BY DEF Unwritable
<1>4. EncodeAttestation(v) = WriteBy("Attestation", v, AttestationTexts(v))
  BY EncodersAre, Zenon
<1>5. WriteBy("Attestation", v, AttestationTexts(v)) = Ok(Value("object", Values(AttestationTexts(v))))
  BY <1>2, <1>3, StructWritten, Zenon
<1> QED  BY <1>4, <1>5, Zenon

LEMMA ChainWritten ==
  ASSUME NEW v
  PROVE  \E u : EncodeInRecord("Attestations", v) = Ok(u)
<1> DEFINE rs == [i \in 1 .. Len(v) |-> EncodeAttestation(v[i])]
<1>1. EncodeInRecord("Attestations", v) = As("list", Results(rs))
  BY DEF EncodeInRecord, encList
<1>2. AllOk(rs)
  <2>1. ASSUME NEW i \in 1 .. Len(v) PROVE EncodeAttestation(v[i]).word = ""
    <3>1. PICK u : EncodeAttestation(v[i]) = Ok(u)
      BY AttestationWritten, Zenon
    <3> QED  BY <3>1, OkFacts, Zenon
  <2> QED  BY <2>1, Zenon DEF AllOk
<1> HIDE DEF rs
<1> QED  BY <1>1, <1>2, AsOk, Zenon

LEMMA RecordWritten ==
  ASSUME NEW v, Writable(v)
  PROVE  \E u : EncodeRecord(v) = Ok(u)
<1>1. ASSUME NEW i \in 1 .. Len(Written(encRecord, v))
      PROVE  RecordTexts(v)[i].word = ""
  <2>1. PICK f : f = Written(encRecord, v)[i]
    OBVIOUS
  <2>2. f[2] = "time" => f[1] = "time"
    BY <2>1, RecordTable, WrittenIn, Zenon
  <2>3. f[2] = "time" => WideTimestamp(v[f[1]])
    BY <2>2, Zenon DEF Writable
  <2>4. \E u : EncodeInRecord(f[2], v[f[1]]) = Ok(u)
    <3>1. CASE f[2] = "Attestations"
      BY <3>1, ChainWritten, Zenon
    <3>2. CASE f[2] # "Attestations"
      <4>1. EncodeInRecord(f[2], v[f[1]]) = EncodeLeaf(f[2], v[f[1]])
        BY <3>2 DEF EncodeInRecord
      <4> QED  BY <2>3, <4>1, LeafWritten, Zenon
    <3> QED  BY <3>1, <3>2
  <2>5. RecordTexts(v)[i] = MemberOf(f, EncodeInRecord(f[2], v[f[1]]))
    BY <2>1, Zenon DEF RecordTexts
  <2> QED  BY <2>4, <2>5, TextOk, Zenon
<1>2. AllOk(RecordTexts(v))
  <2>1. DOMAIN RecordTexts(v) = 1 .. Len(Written(encRecord, v))
    BY Zenon DEF RecordTexts
  <2> QED  BY <1>1, <2>1, Zenon DEF AllOk
<1>3. Unwritable("Record", v) = ""
  BY DEF Unwritable, Writable
<1>4. EncodeRecord(v) = WriteBy("Record", v, RecordTexts(v))
  BY EncodersAre, Zenon
<1>5. WriteBy("Record", v, RecordTexts(v)) = Ok(Value("object", Values(RecordTexts(v))))
  BY <1>2, <1>3, StructWritten, Zenon
<1> QED  BY <1>4, <1>5, Zenon

-----------------------------------------------------------------------------
(* A frame that the generated client made is routed where it was meant to. *)

LEMMA FrameMembers ==
  ASSUME NEW v
  PROVE  /\ Encode("Frame", v).value = Value("object", Values(FrameTexts(v)))
         /\ DOMAIN Values(FrameTexts(v)) = 1 .. Len(Written(encServiceFrame, v))
         /\ \A i \in 1 .. Len(Written(encServiceFrame, v)) :
              Values(FrameTexts(v))[i].key = "service"
                => Values(FrameTexts(v))[i].value = Value("name", v["service"])
<1> DEFINE w == Written(encServiceFrame, v)
           r(i) == EncodeInCall(w[i][2], v[w[i][1]])
<1>1. ASSUME NEW i \in 1 .. Len(w)
      PROVE  /\ FrameTexts(v)[i] = Ok(Member(w[i][1], r(i).value))
             /\ w[i][1] = "service" => r(i).value = Value("name", v["service"])
  <2>1. PICK f : f = w[i]
    OBVIOUS
  <2>2. f[2] \notin {"Record", "Page", "time"} /\ (f[1] = "service" => f[2] = "name")
    BY <2>1, FrameTable, WrittenIn, Zenon
  <2>3. PICK e : e = EncodeInCall(f[2], v[f[1]])
    OBVIOUS
  <2>4. e = EncodeLeaf(f[2], v[f[1]])
    BY <2>2, <2>3 DEF EncodeInCall
  <2>5. e.word = ""
    <3>1. PICK u : e = Ok(u)
      BY <2>2, <2>4, LeafWritten, Zenon
    <3> QED  BY <3>1, OkFacts, Zenon
  <2>6. FrameTexts(v)[i] = MemberOf(f, e)
    BY <2>1, <2>3, Zenon DEF FrameTexts
  <2>7. FrameTexts(v)[i] = Ok(Member(f[1], e.value))
    BY <2>5, <2>6, MemberWritten, Zenon
  <2>8. ASSUME f[1] = "service" PROVE e.value = Value("name", v["service"])
    <3>1. e = EncodeLeaf("name", v["service"])
      BY <2>2, <2>4, <2>8, Zenon
    <3>2. e = Ok(Value("name", v["service"]))
      BY <3>1 DEF EncodeLeaf
    <3> QED  BY <3>2, OkFacts, Zenon
  <2> QED  BY <2>1, <2>3, <2>7, <2>8, Zenon
<1>2. DOMAIN FrameTexts(v) = 1 .. Len(w)
  BY Zenon DEF FrameTexts
<1>3. AllOk(FrameTexts(v))
  <2>1. ASSUME NEW i \in 1 .. Len(w) PROVE FrameTexts(v)[i].word = ""
    <3>1. PICK u : FrameTexts(v)[i] = Ok(u)
      BY <1>1, Zenon
    <3> QED  BY <3>1, OkFacts, Zenon
  <2> QED  BY <1>2, <2>1, Zenon DEF AllOk
<1>4. Unwritable("Frame", v) = ""
  BY DEF Unwritable
<1>5. Encode("Frame", v) = Ok(Value("object", Values(FrameTexts(v))))
  <2>1. Encode("Frame", v) = WriteBy("Frame", v, FrameTexts(v))
    BY EncodersAre, Zenon
  <2>2. WriteBy("Frame", v, FrameTexts(v)) = Ok(Value("object", Values(FrameTexts(v))))
    BY <1>3, <1>4, StructWritten, Zenon
  <2> QED  BY <2>1, <2>2, Zenon
<1>6. Encode("Frame", v).value = Value("object", Values(FrameTexts(v)))
  BY <1>5, OkFacts, Zenon
<1>7. DOMAIN Values(FrameTexts(v)) = 1 .. Len(w)
  BY <1>2, Zenon DEF Values
<1>8. ASSUME NEW i \in 1 .. Len(w), Values(FrameTexts(v))[i].key = "service"
      PROVE  Values(FrameTexts(v))[i].value = Value("name", v["service"])
  <2>1. PICK m : m = Member(w[i][1], r(i).value)
    OBVIOUS
  <2>2. FrameTexts(v)[i].value = m
    BY <1>1, <2>1, OkFacts, Zenon
  <2>3. Values(FrameTexts(v))[i] = m
    BY <1>2, <2>2, Zenon DEF Values
  <2>4. m.key = w[i][1] /\ m.value = r(i).value
    BY <2>1 DEF Member
  <2> QED  BY <1>1, <1>8, <2>3, <2>4, Zenon
<1> QED  BY <1>6, <1>7, <1>8, Zenon

LEMMA LenIs ==
  ASSUME NEW n \in Nat, NEW rs, DOMAIN rs = 1 .. n
  PROVE  Len(Values(rs)) = n
BY DEF Values

LEMMA NameRead ==
  ASSUME NEW n, NEW depth, NEW r, r = DecodeInCall("name", Value("name", n), depth), r.word = ""
  PROVE  r.value = n
<1>1. PICK x : x = Value("name", n)
  OBVIOUS
<1>2. x.k = "name" /\ x.v = n
  BY <1>1 DEF Value
<1>3. r = DecodeInCall("name", x, depth)
  BY <1>1
<1>4. r = name(x)
  BY <1>2, <1>3 DEF DecodeInCall, DecodeLeaf, OfKind
<1>5. CASE n \in Broken
  <2>1. r = Refuse("bad_string")
    BY <1>2, <1>4, <1>5 DEF name
  <2> QED  BY <2>1, NotRefused, Zenon
<1>6. CASE n \notin Broken
  <2>1. r = Ok(n)
    BY <1>2, <1>4, <1>6 DEF name
  <2> QED  BY <2>1, OkFacts, Zenon
<1> QED  BY <1>5, <1>6

(* A document without anything behind it, and of the version the reader    *)
(* knows, is what the decoder makes of its tree.                           *)
LEMMA ReadFacts ==
  ASSUME NEW type, NEW doc, NEW depth, NEW r, r = Read(type, doc, depth), r.word = ""
  PROVE  r = Decode(type, doc.tree, depth)
<1>1. PICK d : d = Decode(type, doc.tree, depth)
  OBVIOUS
<1>2. r = IF d.word = "" /\ doc.more THEN Refuse("trailing_bytes") ELSE d
  BY <1>1 DEF Read, Ended
<1>3. CASE d.word = "" /\ doc.more
  <2>1. r = Refuse("trailing_bytes")
    BY <1>2, <1>3
  <2> QED  BY <2>1, NotRefused, Zenon
<1> QED  BY <1>1, <1>2, <1>3

LEMMA PayloadFacts ==
  ASSUME NEW doc, NEW r, r = servicePayload(doc), r.word = ""
  PROVE  r = Decode("Frame", doc.tree, 0)
<1>1. PICK d : d = Read("Frame", doc, 0)
  OBVIOUS
<1>2. r = IF d.word = "" /\ d.value.version # 1 THEN Refuse("unknown_version") ELSE d
  BY <1>1 DEF servicePayload, Versioned
<1>3. CASE d.word = "" /\ d.value.version # 1
  <2>1. r = Refuse("unknown_version")
    BY <1>2, <1>3
  <2> QED  BY <2>1, NotRefused, Zenon
<1>4. CASE ~(d.word = "" /\ d.value.version # 1)
  <2>1. r = d
    BY <1>2, <1>4
  <2> QED  BY <1>1, <2>1, ReadFacts, Zenon
<1> QED  BY <1>3, <1>4

LEMMA FrameRouted ==
  ASSUME NEW op, NEW a, NEW r, r = servicePayload(Frame(op, a)), r.word = ""
  PROVE  r.value["service"] = Route[op][1]
<1>1. PICK v : v = [version |-> 1, service |-> Route[op][1], method |-> Route[op][2],
                    arguments |-> a]
  OBVIOUS
<1>2. v["service"] = Route[op][1]
  BY <1>1
<1>3. PICK x : x = Encode("Frame", v).value
  OBVIOUS
<1>4. PICK doc : doc = Document(x)
  OBVIOUS
<1>5. Frame(op, a) = doc
  BY <1>1, <1>3, <1>4, Zenon DEF Frame
<1>6. doc.tree = x
  BY <1>4 DEF Document
<1>7. r = Decode("Frame", x, 0)
  BY <1>5, <1>6, PayloadFacts, Zenon
<1>8. /\ x = Value("object", Values(FrameTexts(v)))
      /\ \A i \in 1 .. Len(Written(encServiceFrame, v)) :
           Values(FrameTexts(v))[i].key = "service"
             => Values(FrameTexts(v))[i].value = Value("name", v["service"])
  BY <1>3, FrameMembers, Zenon
<1>9. x.v = Values(FrameTexts(v))
  BY <1>8 DEF Value
<1>10. Len(x.v) = Len(Written(encServiceFrame, v))
  <2>1. PICK w, S : w = Written(encServiceFrame, v) /\ S = Table(encServiceFrame)
    OBVIOUS
  <2>2. w \in Seq(S)
    BY <2>1, FrameTable, WrittenFacts, Zenon
  <2>3. Len(w) \in Nat
    BY <2>2, LenProperties
  <2>4. DOMAIN FrameTexts(v) = 1 .. Len(w)
    BY <2>1, Zenon DEF FrameTexts
  <2>5. Len(Values(FrameTexts(v))) = Len(w)
    BY <2>3, <2>4, LenIs, Zenon
  <2> QED  BY <1>9, <2>1, <2>5, Zenon
<1>11. MemberIsRead("name", x, 0, "service", r)
  <2>1. PICK table : table = decodeServiceFrame
    OBVIOUS
  <2>2. table = Decoder["Frame"]
    BY <2>1 DEF Decoder
  <2>3. Requires(table, "service", "name")
    BY <2>1 DEF Requires, decodeServiceFrame
  <2> QED  BY <1>7, <2>2, <2>3, CallMemberRead, Zenon
<1>12. PICK i, q :
         /\ i \in 1 .. Len(x.v) /\ x.v[i].key = "service"
         /\ q = DecodeInCall("name", x.v[i].value, 0 + 1)
         /\ q.word = "" /\ r.value["service"] = q.value
  BY <1>11, Zenon DEF MemberIsRead
<1>13. x.v[i].value = Value("name", v["service"])
  BY <1>8, <1>9, <1>10, <1>12, Zenon
<1>14. q.value = v["service"]
  BY <1>12, <1>13, NameRead, Zenon
<1> QED  BY <1>2, <1>12, <1>14, Zenon

LEMMA PreparesFacts ==
  ASSUME NEW op, NEW a, NEW p, p = Prepares(op, a), p.word = ""
  PROVE  \E b : p.value = Frame(op, b)
<1>1. PICK r : r = Encode(Route[op][3], a)
  OBVIOUS
<1>2. p = Wrapped(op, r)
  BY <1>1, Zenon DEF Prepares
<1>3. CASE r.word # ""
  <2>1. p = r
    BY <1>2, <1>3, Zenon DEF Wrapped
  <2> QED  BY <1>3, <2>1, Zenon
<1>4. CASE r.word = ""
  <2>1. PICK f, q : f = Frame(op, r.value) /\ q = servicePayload(f)
    OBVIOUS
  <2>2. p = Checked(f, q)
    BY <1>2, <1>4, <2>1, Zenon DEF Wrapped, Sendable
  <2>3. CASE q.word = ""
    <3>1. p = Ok(f)
      BY <2>2, <2>3, Zenon DEF Checked
    <3> QED  BY <2>1, <3>1, OkFacts, Zenon
  <2>4. CASE q.word # ""
    <3>1. p = Refuse(q.word)
      BY <2>2, <2>4, Zenon DEF Checked
    <3> QED  BY <2>4, <3>1, RefuseFacts, Zenon
  <2> QED  BY <2>3, <2>4
<1> QED  BY <1>3, <1>4

LEMMA ArgumentsWritable ==
  ASSUME NEW doc, NEW r, r = Read("WriteArguments", doc, 1), r.word = ""
  PROVE  Writable(r.value["record"])
<1>1. PICK x : x = doc.tree
  OBVIOUS
<1>2. r = Decode("WriteArguments", x, 1)
  BY <1>1, ReadFacts, Zenon
<1>3. MemberIsRead("Record", x, 1, "record", r)
  <2>1. PICK table : table = decodeSinkWriteArguments
    OBVIOUS
  <2>2. table = Decoder["WriteArguments"]
    BY <2>1 DEF Decoder
  <2>3. Requires(table, "record", "Record")
    BY <2>1 DEF Requires, decodeSinkWriteArguments
  <2> QED  BY <1>2, <2>2, <2>3, CallMemberRead, Zenon
<1>4. PICK i, q :
        /\ i \in 1 .. Len(x.v) /\ q = DecodeInCall("Record", x.v[i].value, 1 + 1)
        /\ q.word = "" /\ r.value["record"] = q.value
  BY <1>3, Zenon DEF MemberIsRead
<1>5. q = ReadRecord(x.v[i].value, 1 + 1)
  BY <1>4 DEF DecodeInCall
<1>6. Writable(q.value)
  BY <1>4, <1>5, ReadIsWritable, Zenon
<1> QED  BY <1>4, <1>6, Zenon

LEMMA RouteFacts ==
  /\ DOMAIN Route = {"write", "read", "observe"}
  /\ \A op \in DOMAIN Route : RouteOf(Route[op][1]) = op
  /\ Route["write"][3] = "WriteArguments"
  /\ \A s : RouteOf(s) \in DOMAIN Route
BY DEF Route, RouteOf, Sink, Reader, Observer

LEMMA ErrorFacts ==
  ASSUME NEW kind, NEW word, NEW e, e = Error(kind, word)
  PROVE  e.kind = kind
BY DEF Error

(* What a worker goes on with is what its frame was routed to, and the     *)
(* record of a write can be written again.                                 *)
LEMMA DispatchFacts ==
  ASSUME NEW p, NEW d, d = Dispatched(p), d.kind \in DOMAIN Route
  PROVE  /\ p.word = "" /\ d.kind = RouteOf(p.value["service"])
         /\ d.kind = "write" => Writable(d.args["record"])
<1>1. p.word = "" /\ d = Dispatches(p.value)
  <2>1. CASE p.word # ""
    <3>1. d = Error("envelope", p.word)
      BY <2>1, Zenon DEF Dispatched
    <3>2. d.kind = "envelope"
      BY <3>1, ErrorFacts, Zenon
    <3> QED  BY <3>2, RouteFacts, Zenon
  <2>2. CASE p.word = ""
    BY <2>2, Zenon DEF Dispatched
  <2> QED  BY <2>1, <2>2
<1>2. PICK v, op : v = p.value /\ op = RouteOf(v["service"])
  OBVIOUS
<1>3. PICK r : r = Read(Route[op][3], Document(v.arguments), 1)
  OBVIOUS
<1>4. \/ d = Error("dispatch", "unknown_service") \/ d = Error("dispatch", "unknown_method")
      \/ d = Typed(op, r)
  BY <1>1, <1>2, <1>3, Zenon DEF Dispatches
<1>5. d = Typed(op, r)
  <2>1. CASE d = Error("dispatch", "unknown_service") \/ d = Error("dispatch", "unknown_method")
    <3>1. d.kind = "dispatch"
      BY <2>1, ErrorFacts, Zenon
    <3> QED  BY <3>1, RouteFacts, Zenon
  <2> QED  BY <1>4, <2>1
<1>6. r.word = "" /\ d = [kind |-> op, args |-> r.value]
  <2>1. CASE r.word # ""
    <3>1. d = Error("refused", r.word)
      BY <1>5, <2>1, Zenon DEF Typed
    <3>2. d.kind = "refused"
      BY <3>1, ErrorFacts, Zenon
    <3> QED  BY <3>2, RouteFacts, Zenon
  <2>2. CASE r.word = ""
    BY <1>5, <2>2, Zenon DEF Typed
  <2> QED  BY <2>1, <2>2
<1>7. d.kind = op /\ d.args = r.value
  <2>1. PICK a : a = r.value
    OBVIOUS
  <2>2. d = [kind |-> op, args |-> a]
    BY <1>6, <2>1, Zenon
  <2>3. d.kind = op /\ d.args = a
    BY <2>2
  <2> QED  BY <2>1, <2>3, Zenon
<1>8. ASSUME op = "write" PROVE Writable(r.value["record"])
  <2>1. r = Read("WriteArguments", Document(v.arguments), 1)
    BY <1>3, <1>8, RouteFacts, Zenon
  <2> QED  BY <1>6, <2>1, ArgumentsWritable, Zenon
<1> QED  BY <1>1, <1>2, <1>7, <1>8, Zenon

-----------------------------------------------------------------------------
(* Every answer is one.                                                    *)

LEMMA AnswerFacts ==
  /\ \A kind, word : kind # "none" => Error(kind, word) # None
  /\ \A p : Page(p) # None
  /\ Done # None
<1>1. ASSUME NEW kind, NEW word, kind # "none" PROVE Error(kind, word) # None
  BY <1>1 DEF Error, None
<1>2. ASSUME NEW p PROVE Page(p) # None
  BY DEF Page, None
<1>3. Done # None
  BY DEF Done, None
<1> QED  BY <1>1, <1>2, <1>3, Zenon

LEMMA ResponseAnswers ==
  ASSUME NEW r, NEW op
  PROVE  Response(r, op) # None
<1>1. CASE r.word # ""
  BY <1>1, AnswerFacts, Zenon DEF Response
<1>2. CASE r.word = "" /\ ~Matches(r.value, op)
  BY <1>2, AnswerFacts, Zenon DEF Response
<1>3. CASE r.word = "" /\ Matches(r.value, op) /\ r.value.ok
  <2>1. Response(r, op) = [kind |-> "payload", tree |-> r.value.payload]
    BY <1>3, Zenon DEF Response
  <2>2. PICK t : t = r.value.payload
    OBVIOUS
  <2>3. [kind |-> "payload", tree |-> t] # None
    BY DEF None
  <2> QED  BY <2>1, <2>2, <2>3, Zenon
<1>4. CASE r.word = "" /\ Matches(r.value, op) /\ ~r.value.ok
  <2>1. PICK e : e = Read("Error", Document(r.value.payload), 1)
    OBVIOUS
  <2>2. Response(r, op) = ResponseError(e)
    BY <1>4, <2>1, Zenon DEF Response
  <2>3. ResponseError(e) # None
    BY AnswerFacts, Zenon DEF ResponseError
  <2> QED  BY <2>2, <2>3, Zenon
<1> QED  BY <1>1, <1>2, <1>3, <1>4, Zenon

LEMMA UnderstandsAnswers ==
  ASSUME NEW doc, NEW r
  PROVE  Understands(doc, r) # None
<1>1. PICK e : e = serviceResponse(doc, r.op)
  OBVIOUS
<1>2. e # None
  BY <1>1, ResponseAnswers, Zenon DEF serviceResponse
<1>3. PICK d : d = Read(ResultType(r.op), Document(e.tree), 1)
  OBVIOUS
<1>4. Understands(doc, r) = IF e.kind # "payload" THEN e ELSE Validated(d, r)
  BY <1>1, <1>3, Zenon DEF Understands, Understood
<1>5. Validated(d, r) # None
  BY AnswerFacts, Zenon DEF Validated
<1> QED  BY <1>2, <1>4, <1>5, Zenon

-----------------------------------------------------------------------------
(* The inductive invariant.  A frame of this codec is the one its request  *)
(* prepares, so it is routed to the worker of that operation; and a worker *)
(* at its second encoding holds a record that can be written.              *)

Shape ==
  /\ pc \in [Calls -> {"start", "sent", "returned"}]
  /\ host \in [Calls -> {"idle", "reply", "replied", "done"} \union DOMAIN Route]
  /\ crashed = FALSE /\ mixed \in BOOLEAN
  /\ DOMAIN result = Calls /\ DOMAIN frame = Calls /\ DOMAIN args = Calls
Prepared(c) ==
  \E p \in {Prepares(request[c].op, request[c].args)} : p.word = "" /\ frame[c] = p.value
CallInv(c) ==
  /\ request[c].op \in Operations
  /\ frame[c] = None => host[c] \in {"idle", "done"} /\ args[c] = None
  /\ host[c] \in DOMAIN Route /\ request[c].op # "foreign" => host[c] = request[c].op
  /\ result[c] # None <=> pc[c] = "returned" /\ request[c].op # "idle"
  /\ pc[c] = "start" => frame[c] = None
  /\ request[c].op = "idle" => pc[c] = "returned" /\ frame[c] = None
  /\ frame[c] # None /\ request[c].op # "foreign" => Prepared(c)
  /\ host[c] = "write" => Writable(args[c].record)
HostInv == Shape /\ \A c \in Calls : CallInv(c)

LEMMA HostInvImplies == HostInv => HostSurvives
BY DEF HostInv, Shape, CallInv, HostSurvives, TypeOK

LEMMA HostInvInit == Init => HostInv
<1> SUFFICES ASSUME Init PROVE HostInv
  OBVIOUS
<1>1. Shape
  BY DEF Init, Shape
<1>2. ASSUME NEW c \in Calls PROVE CallInv(c)
  <2>1. request[c].op \in Operations
    BY CallAssumption DEF Init
  <2>2. /\ frame[c] = None /\ host[c] = "idle" /\ args[c] = None /\ result[c] = None
        /\ pc[c] = IF request[c].op = "idle" THEN "returned" ELSE "start"
    BY DEF Init
  <2>3. "idle" \notin DOMAIN Route
    BY RouteFacts
  <2> QED  BY <2>1, <2>2, <2>3 DEF CallInv
<1> QED  BY <1>1, <1>2 DEF HostInv

(* A call that a step does not touch.                                      *)
Same(d) ==
  /\ request'[d] = request[d] /\ pc'[d] = pc[d] /\ result'[d] = result[d]
  /\ frame'[d] = frame[d] /\ host'[d] = host[d] /\ args'[d] = args[d]
LEMMA Elsewhere ==
  ASSUME NEW d, CallInv(d), Same(d)
  PROVE  CallInv(d)'
<1>1. Prepared(d) => Prepared(d)'
  BY DEF Prepared, Same
<1> QED  BY <1>1 DEF CallInv, Same

(* A call that is told its answer, or whose worker ends or only answers.   *)
LEMMA ToldKeeps ==
  ASSUME NEW c \in Calls, NEW e, e # None, HostInv, pc[c] \in {"start", "sent"},
         Return(c, e), UNCHANGED <<request, frame, hostVars, crashed>>, mixed' \in BOOLEAN
  PROVE  HostInv'
<1>1. Shape'
  BY DEF HostInv, Shape, Return, hostVars
<1>2. ASSUME NEW d \in Calls, d # c PROVE CallInv(d)'
  <2>1. Same(d)
    BY <1>2 DEF Same, Return, hostVars, HostInv, Shape
  <2> QED  BY <2>1, Elsewhere DEF HostInv
<1>3. CallInv(c)'
  <2>1. pc'[c] = "returned" /\ result'[c] = e
    BY DEF Return, HostInv, Shape
  <2>2. /\ request' = request /\ frame'[c] = frame[c] /\ host'[c] = host[c]
        /\ args'[c] = args[c]
    BY DEF hostVars
  <2>3. Prepared(c) => Prepared(c)'
    BY <2>2 DEF Prepared
  <2>4. CallInv(c)
    BY DEF HostInv
  <2>5. request[c].op # "idle"
    BY <2>4 DEF CallInv
  <2> QED  BY <2>1, <2>2, <2>3, <2>4, <2>5 DEF CallInv
<1> QED  BY <1>1, <1>2, <1>3 DEF HostInv

LEMMA WorkerKeeps ==
  ASSUME NEW c \in Calls, NEW h \in {"reply", "replied", "done"}, HostInv,
         h # "done" => frame[c] # None,
         host' = [host EXCEPT ![c] = h], crashed' = FALSE,
         UNCHANGED <<request, callerVars, args, mixed>>
  PROVE  HostInv'
<1>1. Shape'
  BY DEF HostInv, Shape, callerVars
<1>2. ASSUME NEW d \in Calls, d # c PROVE CallInv(d)'
  <2>1. Same(d)
    BY <1>2 DEF Same, callerVars, HostInv, Shape
  <2> QED  BY <2>1, Elsewhere DEF HostInv
<1>3. CallInv(c)'
  <2>1. host'[c] = h
    BY DEF HostInv, Shape
  <2>2. /\ request' = request /\ frame'[c] = frame[c] /\ pc'[c] = pc[c]
        /\ args'[c] = args[c] /\ result'[c] = result[c]
    BY DEF callerVars
  <2>3. Prepared(c) => Prepared(c)'
    BY <2>2 DEF Prepared
  <2>4. CallInv(c)
    BY DEF HostInv
  <2>5. h \notin DOMAIN Route /\ h # "write"
    BY RouteFacts
  <2> QED  BY <2>1, <2>2, <2>3, <2>4, <2>5 DEF CallInv
<1> QED  BY <1>1, <1>2, <1>3 DEF HostInv

(* A frame on its way.                                                     *)
LEMMA SentKeeps ==
  ASSUME NEW c \in Calls, NEW f, HostInv, pc[c] = "start",
         pc' = [pc EXCEPT ![c] = "sent"], frame' = [frame EXCEPT ![c] = f],
         UNCHANGED <<request, result, hostVars, crashed, mixed>>,
         request[c].op # "foreign"
           => \E p \in {Prepares(request[c].op, request[c].args)} : p.word = "" /\ f = p.value
  PROVE  HostInv'
<1>1. Shape'
  BY DEF HostInv, Shape, hostVars
<1>2. ASSUME NEW d \in Calls, d # c PROVE CallInv(d)'
  <2>1. Same(d)
    BY <1>2 DEF Same, hostVars, HostInv, Shape
  <2> QED  BY <2>1, Elsewhere DEF HostInv
<1>3. CallInv(c)'
  <2>1. pc'[c] = "sent" /\ frame'[c] = f
    BY DEF HostInv, Shape
  <2>2. /\ request' = request /\ host'[c] = host[c] /\ args'[c] = args[c]
        /\ result'[c] = result[c]
    BY DEF hostVars
  <2>3. request[c].op # "foreign" => Prepared(c)'
    BY <2>1, <2>2 DEF Prepared
  <2>4. CallInv(c)
    BY DEF HostInv
  <2>5. /\ host[c] \in {"idle", "done"} /\ args[c] = None /\ request[c].op # "idle"
        /\ result[c] = None
    BY <2>4 DEF CallInv
  <2>6. host[c] \notin DOMAIN Route
    BY <2>5, RouteFacts
  <2> QED  BY <2>1, <2>2, <2>3, <2>4, <2>5, <2>6 DEF CallInv
<1> QED  BY <1>1, <1>2, <1>3 DEF HostInv

LEMMA AcceptKeeps ==
  ASSUME NEW c \in Calls, HostInv, HostAccepts(c)
  PROVE  HostInv'
<1>1. PICK p, d : /\ p = servicePayload(frame[c]) /\ d = Dispatched(p)
                  /\ d.kind \in DOMAIN Route
                  /\ host' = [host EXCEPT ![c] = d.kind]
                  /\ args' = [args EXCEPT ![c] = d.args]
  BY DEF HostAccepts
<1>2. frame[c] # None /\ UNCHANGED <<request, callerVars, crashed, mixed>>
  BY DEF HostAccepts, Unreceived
<1>3. /\ p.word = "" /\ d.kind = RouteOf(p.value["service"])
      /\ d.kind = "write" => Writable(d.args["record"])
  BY <1>1, DispatchFacts, Zenon
<1>4. Shape'
  BY <1>1, <1>2 DEF HostInv, Shape, callerVars
<1>5. ASSUME NEW e \in Calls, e # c PROVE CallInv(e)'
  <2>1. Same(e)
    BY <1>1, <1>2, <1>5 DEF Same, callerVars, HostInv, Shape
  <2> QED  BY <2>1, Elsewhere DEF HostInv
<1>6. CallInv(c)
  BY DEF HostInv
<1>7. ASSUME request[c].op # "foreign" PROVE d.kind = request[c].op
  <2>1. request[c].op \in DOMAIN Route
    BY <1>2, <1>6, <1>7, RouteFacts DEF CallInv, Operations
  <2>2. PICK op, a : op = request[c].op /\ a = request[c].args
    OBVIOUS
  <2>3. PICK q : q = Prepares(op, a) /\ q.word = "" /\ frame[c] = q.value
    BY <1>2, <1>6, <1>7, <2>2 DEF CallInv, Prepared
  <2>4. PICK b : frame[c] = Frame(op, b)
    BY <2>3, PreparesFacts, Zenon
  <2>5. p = servicePayload(Frame(op, b))
    BY <1>1, <2>4, Zenon
  <2>6. p.value["service"] = Route[op][1]
    BY <1>3, <2>5, FrameRouted, Zenon
  <2>7. RouteOf(Route[op][1]) = op
    BY <2>1, <2>2, RouteFacts, Zenon
  <2> QED  BY <1>3, <2>2, <2>6, <2>7, Zenon
<1>8. CallInv(c)'
  <2>1. host'[c] = d.kind /\ args'[c] = d.args
    BY <1>1 DEF HostInv, Shape
  <2>2. /\ request' = request /\ frame'[c] = frame[c] /\ pc'[c] = pc[c]
        /\ result'[c] = result[c]
    BY <1>2 DEF callerVars
  <2>3. Prepared(c) => Prepared(c)'
    BY <2>2 DEF Prepared
  <2> QED  BY <1>2, <1>3, <1>6, <1>7, <2>1, <2>2, <2>3 DEF CallInv
<1> QED  BY <1>4, <1>5, <1>8 DEF HostInv

(* The second encoding, which no recover protects, does not panic.         *)
LEMMA ReceiverKeeps ==
  ASSUME NEW c \in Calls, HostInv, ReceiverWrites(c)
  PROVE  HostInv'
<1>1. PICK text : text = EncodeRecord(args[c].record) /\ crashed' = (text.word # "")
  BY DEF ReceiverWrites
<1>2. Writable(args[c].record)
  BY DEF HostInv, CallInv, ReceiverWrites
<1>3. text.word = ""
  <2>1. PICK w : w = args[c].record
    OBVIOUS
  <2>2. PICK u : EncodeRecord(w) = Ok(u)
    BY <1>2, <2>1, RecordWritten, Zenon
  <2>3. text = Ok(u)
    BY <1>1, <2>1, <2>2, Zenon
  <2> QED  BY <2>3, OkFacts, Zenon
<1>4. crashed' = FALSE
  BY <1>1, <1>3
<1>5. host' = [host EXCEPT ![c] = "done"] /\ UNCHANGED <<request, callerVars, args, mixed>>
  BY DEF ReceiverWrites, Ends
<1> QED  BY <1>4, <1>5, WorkerKeeps

LEMMA RepliesKeeps ==
  ASSUME NEW c \in Calls, NEW v, NEW outcome, HostInv, frame[c] # None,
         Replies(c, v, outcome), UNCHANGED <<request, callerVars, args, crashed, mixed>>
  PROVE  HostInv'
<1>1. PICK h \in {"reply", "done"} : host' = [host EXCEPT ![c] = h]
  BY DEF Replies, Ends
<1>2. crashed' = FALSE
  BY DEF HostInv, Shape
<1> QED  BY <1>1, <1>2, WorkerKeeps

LEMMA HostInvNext == HostInv /\ [Next]_vars => HostInv'
<1> SUFFICES ASSUME HostInv, [Next]_vars PROVE HostInv'
  OBVIOUS
<1>0. crashed = FALSE /\ mixed \in BOOLEAN
  BY DEF HostInv, Shape
<1>1. CASE UNCHANGED vars
  <2>1. Shape'
    BY <1>1 DEF HostInv, Shape, vars, callerVars, hostVars
  <2>2. ASSUME NEW d \in Calls PROVE CallInv(d)'
    <3>1. Same(d)
      BY <1>1 DEF Same, vars, callerVars, hostVars
    <3> QED  BY <3>1, Elsewhere DEF HostInv
  <2> QED  BY <2>1, <2>2 DEF HostInv
<1>2. ASSUME NEW c \in Calls, ContextDone(c) PROVE HostInv'
  <2>1. PICK e : e = Error("context", "")
    OBVIOUS
  <2>2. e # None
    BY <2>1, AnswerFacts, Zenon
  <2> QED  BY <1>0, <1>2, <2>1, <2>2, ToldKeeps DEF ContextDone
<1>3. ASSUME NEW c \in Calls, Refuses(c) PROVE HostInv'
  <2>1. PICK e : Return(c, e) /\ e # None
    <3>1. CASE WaitRefused(request[c])
      <4>1. Return(c, Error("argument", "wait_ms"))
        BY <1>3, <3>1, Zenon DEF Refuses
      <4>2. Error("argument", "wait_ms") # None
        BY AnswerFacts, Zenon
      <4> QED  BY <4>1, <4>2, Zenon
    <3>2. CASE ~WaitRefused(request[c])
      <4>1. PICK w : Return(c, Error("refused", w))
        BY <1>3, <3>2, Zenon DEF Refuses
      <4>2. Error("refused", w) # None
        BY AnswerFacts, Zenon
      <4> QED  BY <4>1, <4>2, Zenon
    <3> QED  BY <3>1, <3>2
  <2>3. pc[c] = "start" /\ UNCHANGED <<request, frame, hostVars, crashed, mixed>>
    BY <1>3 DEF Refuses
  <2> QED  BY <1>0, <2>1, <2>3, ToldKeeps
<1>4. ASSUME NEW c \in Calls, Sends(c) PROVE HostInv'
  BY <1>4, SentKeeps DEF Sends
<1>5. ASSUME NEW c \in Calls, ForeignSends(c) PROVE HostInv'
  BY <1>5, SentKeeps DEF ForeignSends
<1>6. ASSUME NEW c \in Calls, WriteReturns(c) PROVE HostInv'
  <2>1. Done # None
    BY AnswerFacts, Zenon
  <2> QED  BY <1>0, <1>6, <2>1, ToldKeeps DEF WriteReturns
<1>7. ASSUME NEW c \in Calls, TransportFails(c) PROVE HostInv'
  <2>1. Error("transport", "") # None
    BY AnswerFacts, Zenon
  <2> QED  BY <1>0, <1>7, <2>1, ToldKeeps DEF TransportFails
<1>8. ASSUME NEW c \in Calls, NEW d \in Calls, Receives(c, d) PROVE HostInv'
  <2>1. Understands(reply[d], request[c]) # None
    BY UnderstandsAnswers, Zenon
  <2>2. mixed' \in BOOLEAN
    BY <1>8 DEF Receives
  <2> QED  BY <1>8, <2>1, <2>2, ToldKeeps DEF Receives
<1>9. ASSUME NEW c \in Calls, HostRefuses(c) PROVE HostInv'
  <2>1. frame[c] # None /\ UNCHANGED <<request, callerVars, args, crashed, mixed>>
    BY <1>9 DEF HostRefuses, Unreceived
  <2>2. Ends(c) \/ \E v, outcome : Replies(c, v, outcome)
    BY <1>9, Zenon DEF HostRefuses
  <2>3. CASE Ends(c)
    BY <1>0, <2>1, <2>3, WorkerKeeps DEF Ends
  <2>4. CASE \E v, outcome : Replies(c, v, outcome)
    BY <2>1, <2>4, RepliesKeeps
  <2> QED  BY <2>2, <2>3, <2>4
<1>10. ASSUME NEW c \in Calls, HostAccepts(c) PROVE HostInv'
  BY <1>10, AcceptKeeps
<1>11. ASSUME NEW c \in Calls, FrameLost(c) PROVE HostInv'
  BY <1>0, <1>11, WorkerKeeps DEF FrameLost, Ends
<1>12. ASSUME NEW c \in Calls, PeerRefused(c) PROVE HostInv'
  BY <1>0, <1>12, WorkerKeeps DEF PeerRefused, Ends
<1>13. ASSUME NEW c \in Calls, ReceiverWrites(c) PROVE HostInv'
  BY <1>13, ReceiverKeeps
<1>14. ASSUME NEW c \in Calls, NEW a \in Answers, Invokes(c, a) PROVE HostInv'
  <2>1. frame[c] # None
    <3>1. host[c] \in {"read", "observe"} /\ CallInv(c)
      BY <1>14 DEF Invokes, HostInv
    <3> QED  BY <3>1 DEF CallInv
  <2>2. /\ \E v, outcome : Replies(c, v, outcome)
        /\ UNCHANGED <<request, callerVars, args, crashed, mixed>>
    BY <1>14, Zenon DEF Invokes
  <2> QED  BY <2>1, <2>2, RepliesKeeps
<1>15. ASSUME NEW c \in Calls, ReplySent(c) PROVE HostInv'
  <2>1. frame[c] # None
    BY <1>15 DEF ReplySent, HostInv, CallInv
  <2> QED  BY <1>0, <1>15, <2>1, WorkerKeeps DEF ReplySent
<1>16. ASSUME NEW c \in Calls, ReplyLost(c) PROVE HostInv'
  BY <1>0, <1>16, WorkerKeeps DEF ReplyLost, Ends
<1> QED
  BY <1>1, <1>2, <1>3, <1>4, <1>5, <1>6, <1>7, <1>8, <1>9, <1>10, <1>11, <1>12,
     <1>13, <1>14, <1>15, <1>16, Zenon DEF Next, Caller, Worker

(* No frame of any peer brings the host down: in every behaviour, what the *)
(* dispatcher accepts the receiver can encode again, and a worker handles  *)
(* what its caller asked for.                                              *)
THEOREM HostSurvivesInvariant == Spec => []HostSurvives
<1>1. Spec => []HostInv
  BY HostInvInit, HostInvNext, PTL DEF Spec
<1> QED  BY <1>1, HostInvImplies, PTL

-----------------------------------------------------------------------------
(* Strings.                                                                *)

(* What the pieces of a text make is a function of where they begin: each  *)
(* piece ends behind its own beginning.                                    *)
Ahead(ps, N) ==
  \A i \in 1 .. N : ps[i].word # "" \/ ps[i].next = 0 \/ ps[i].next \in i + 1 .. N
Joins(ps, a, N, f) == f = [i \in a .. N |-> Join(ps[i], f)]

LEMMA JoinSame ==
  ASSUME NEW p, NEW f, NEW g,
         p.word = "" /\ p.next # 0 => f[p.next] = g[p.next]
  PROVE  Join(p, f) = Join(p, g)
BY DEF Join

LEMMA JoinExists ==
  ASSUME NEW N \in Nat, NEW ps, Ahead(ps, N)
  PROVE  \E f : Joins(ps, 1, N, f)
<1> DEFINE T == {m \in 0 .. N : \E f : Joins(ps, N - m + 1, N, f)}
<1>1. 0 \in T
  <2> DEFINE f0 == [i \in N + 1 .. N |-> 0]
  <2>1. N - 0 + 1 = N + 1 /\ 0 \in 0 .. N
    OBVIOUS
  <2>2. \A i \in N + 1 .. N : FALSE
    OBVIOUS
  <2>3. f0 = [i \in N + 1 .. N |-> Join(ps[i], f0)]
    BY <2>2
  <2> QED  BY <2>1, <2>3 DEF Joins
<1>2. ASSUME NEW m \in 0 .. N, m < N, m \in T PROVE m + 1 \in T
  <2>1. PICK a \in 1 .. N : a = N - m
    BY <1>2
  <2>2. N - m + 1 = a + 1 /\ N - (m + 1) + 1 = a /\ m + 1 \in 0 .. N
    BY <1>2, <2>1
  <2>3. PICK f : Joins(ps, a + 1, N, f)
    BY <1>2, <2>2
  <2> DEFINE g == [i \in a .. N |-> IF i = a THEN Join(ps[a], f) ELSE f[i]]
  <2>4. \A i \in a + 1 .. N : i \in a .. N /\ i # a /\ g[i] = f[i]
    BY <2>1
  <2>5. ASSUME NEW i \in a .. N PROVE g[i] = Join(ps[i], g)
    <3>1. i \in 1 .. N
      BY <2>1
    <3>2. PICK p : p = ps[i]
      OBVIOUS
    <3>3. p.word = "" /\ p.next # 0 => p.next \in a + 1 .. N
      <4>1. p.word # "" \/ p.next = 0 \/ p.next \in i + 1 .. N
        BY <3>1, <3>2 DEF Ahead
      <4>2. \A q \in i + 1 .. N : q \in a + 1 .. N
        BY <2>1, <3>1
      <4> QED  BY <4>1, <4>2
    <3>4. Join(p, f) = Join(p, g)
      <4> HIDE DEF g
      <4> QED  BY <2>4, <3>3, JoinSame
    <3>5. g[i] = Join(p, f)
      <4>1. CASE i = a
        BY <3>2, <4>1
      <4>2. CASE i # a
        <5>1. i \in a + 1 .. N
          BY <2>1, <4>2
        <5>2. f[i] = Join(ps[i], f)
          BY <2>3, <5>1 DEF Joins
        <5> QED  BY <2>4, <3>2, <5>1, <5>2
      <4> QED  BY <4>1, <4>2
    <3> QED  BY <3>2, <3>4, <3>5
  <2>6. Joins(ps, a, N, g)
    <3>1. g = [i \in a .. N |-> g[i]]
      OBVIOUS
    <3> HIDE DEF g
    <3> QED  BY <2>5, <3>1 DEF Joins
  <2> QED  BY <2>2, <2>6
<1>3. \A i \in 0 .. N : i \in T
  <2> HIDE DEF T
  <2> QED  BY <1>1, <1>2, UpTo
<1>4. N \in T /\ N - N + 1 = 1
  BY <1>3
<1> QED  BY <1>4

(* Where the piece of a text that begins at i ends.                        *)
LEMMA EscapedWord == ASSUME NEW o, NEW n, NEW e, e = Escaped(o, n) PROVE e.word = ""
BY DEF Escaped
LEMMA EscapedOut == ASSUME NEW o, NEW n, NEW e, e = Escaped(o, n) PROVE e.out = o
BY DEF Escaped
LEMMA EscapedNext == ASSUME NEW o, NEW n, NEW e, e = Escaped(o, n) PROVE e.next = n
BY DEF Escaped

LEMMA UnicodeEnds ==
  ASSUME NEW u, NEW lo, NEW i, NEW e, e = Unicode(u, lo, i), e.word = ""
  PROVE  e.next = i + 6 \/ e.next = i + 12
<1>0. PICK n1, n2 : n1 = i + 6 /\ n2 = i + 12
  OBVIOUS
<1>1. CASE u < 0 \/ u \in Low
  <2>1. e = Refuse("bad_string")
    BY <1>1, Zenon DEF Unicode
  <2> QED  BY <2>1, NotRefused, Zenon
<1>2. CASE ~(u < 0 \/ u \in Low) /\ u \notin High
  <2>1. PICK o : o = appendRune(u)
    OBVIOUS
  <2>2. e = Escaped(o, n1)
    BY <1>0, <1>2, <2>1, Zenon DEF Unicode
  <2>3. e.next = n1
    BY <2>2, EscapedNext
  <2> QED  BY <1>0, <2>3, Zenon
<1>3. CASE ~(u < 0 \/ u \in Low) /\ u \in High /\ lo \notin Low
  <2>1. e = Refuse("bad_string")
    BY <1>3, Zenon DEF Unicode
  <2> QED  BY <2>1, NotRefused, Zenon
<1>4. CASE ~(u < 0 \/ u \in Low) /\ u \in High /\ lo \in Low
  <2>1. PICK o : o = appendRune(Paired(u, lo))
    OBVIOUS
  <2>2. e = Escaped(o, n2)
    BY <1>0, <1>4, <2>1, Zenon DEF Unicode
  <2>3. e.next = n2
    BY <2>2, EscapedNext
  <2> QED  BY <1>0, <2>3, Zenon
<1> QED  BY <1>1, <1>2, <1>3, <1>4, Zenon

LEMMA EscapeEnds ==
  ASSUME NEW b, NEW i, NEW e, e = escape(b, i), e.word = ""
  PROVE  e.next = i + 2 \/ e.next = i + 6 \/ e.next = i + 12
<1>0. PICK m, o, u, lo, n0 :
                         /\ m = StandsFor(b[i + 1]) /\ o = SetToSeq(m) /\ n0 = i + 2
                         /\ u = hex4(b, i + 2) /\ lo = LowHalf(b, i + 6)
  OBVIOUS
<1>1. CASE i >= Len(b)
  <2>1. e = Refuse("malformed")
    BY <1>1, Zenon DEF escape
  <2> QED  BY <2>1, NotRefused, Zenon
<1>2. CASE ~(i >= Len(b)) /\ m # {}
  <2>1. e = Escaped(o, n0)
    BY <1>0, <1>2 DEF escape, LetterOrUnicode
  <2>2. e.next = n0
    BY <2>1, EscapedNext
  <2> QED  BY <1>0, <2>2, Zenon
<1>3. CASE ~(i >= Len(b)) /\ m = {} /\ b[i + 1] # 117
  <2>1. e = Refuse("bad_string")
    BY <1>0, <1>3 DEF escape, LetterOrUnicode
  <2> QED  BY <2>1, NotRefused, Zenon
<1>4. CASE ~(i >= Len(b)) /\ m = {} /\ b[i + 1] = 117
  <2>1. e = Unicode(u, lo, i)
    BY <1>0, <1>4 DEF escape, LetterOrUnicode
  <2> QED  BY <2>1, UnicodeEnds, Zenon
<1> QED  BY <1>1, <1>2, <1>3, <1>4, Zenon

LEMMA PieceEnds ==
  ASSUME NEW t, Len(t) \in Nat, NEW i \in Nat, i >= 1, NEW p, p = Piece(t, i)
  PROVE  p.word # "" \/ p.next = 0 \/ p.next \in i + 1 .. Len(t) + 12
<1>1. SUFFICES ASSUME p.word = "" PROVE p.next = 0 \/ p.next \in i + 1 .. Len(t) + 12
  OBVIOUS
<1>2. CASE i > Len(t)
  <2>1. p = Refuse("malformed")
    BY <1>2, Zenon DEF Piece
  <2> QED  BY <1>1, <2>1, NotRefused, Zenon
<1>3. CASE ~(i > Len(t)) /\ t[i] < 32
  <2>0. t[i] # Backslash /\ t[i] # Quote
    BY <1>3 DEF Backslash, Quote
  <2>1. p = Refuse("bad_string")
    BY <1>3, <2>0, Zenon DEF Piece
  <2> QED  BY <1>1, <2>1, NotRefused, Zenon
<1>4. CASE ~(i > Len(t)) /\ ~(t[i] < 32) /\ t[i] = Backslash
  <2>1. p = escape(t, i)
    BY <1>4 DEF Piece, Backslash, Quote
  <2>2. p.next = i + 2 \/ p.next = i + 6 \/ p.next = i + 12
    BY <1>1, <2>1, EscapeEnds, Zenon
  <2> QED  BY <1>4, <2>2
<1>5. CASE ~(i > Len(t)) /\ ~(t[i] < 32) /\ t[i] # Backslash /\ t[i] = Quote
  <2>1. p = (IF i < Len(t) THEN Refuse("malformed") ELSE Escaped(<<>>, 0))
    BY <1>5 DEF Piece
  <2>2. CASE i < Len(t)
    <3>1. p = Refuse("malformed")
      BY <2>1, <2>2, Zenon
    <3> QED  BY <1>1, <3>1, NotRefused, Zenon
  <2>3. CASE ~(i < Len(t))
    <3>1. p = Escaped(<<>>, 0)
      BY <2>1, <2>3, Zenon
    <3>2. p.next = 0
      BY <3>1, EscapedNext
    <3> QED  BY <3>2
  <2> QED  BY <2>2, <2>3
<1>6. CASE ~(i > Len(t)) /\ ~(t[i] < 32) /\ t[i] # Backslash /\ t[i] # Quote
  <2>1. PICK o, n : o = <<t[i]>> /\ n = i + 1
    OBVIOUS
  <2>2. p = Escaped(o, n)
    BY <1>6, <2>1 DEF Piece
  <2>3. p.next = n
    BY <2>2, EscapedNext
  <2> QED  BY <1>6, <2>1, <2>3
<1> QED  BY <1>2, <1>3, <1>4, <1>5, <1>6, Zenon

(* The reading of the text of one byte, wherever it stands.                *)
Byte == 0 .. 255

LEMMA EscByteFacts ==
  ASSUME NEW c \in Byte
  PROVE  /\ escByte(c) \in Seq(Byte) /\ Len(escByte(c)) \in {1, 2, 6}
         /\ c \in DOMAIN Letter => escByte(c) = <<92, Letter[c]>> /\ Len(escByte(c)) = 2
         /\ c \notin DOMAIN Letter /\ c < 32
              => escByte(c) = <<92, 117, 48, 48, HexDigit(c \div 16), HexDigit(c % 16)>>
                 /\ Len(escByte(c)) = 6
         /\ c \notin DOMAIN Letter /\ ~(c < 32) => escByte(c) = <<c>> /\ Len(escByte(c)) = 1
<1>1. CASE c \in DOMAIN Letter
  <2>1. escByte(c) = <<92, Letter[c]>> /\ Letter[c] \in Byte
    BY <1>1 DEF escByte, Letter, Byte, Backslash
  <2> QED  BY <1>1, <2>1 DEF Byte
<1>2. CASE c \notin DOMAIN Letter /\ c < 32
  <2>1. escByte(c) = <<92, 117, 48, 48, HexDigit(c \div 16), HexDigit(c % 16)>>
    BY <1>2 DEF escByte, Backslash
  <2>2. HexDigit(c \div 16) \in Byte /\ HexDigit(c % 16) \in Byte
    BY <1>2 DEF HexDigit, Byte
  <2> QED  BY <1>2, <2>1, <2>2 DEF Byte
<1>3. CASE c \notin DOMAIN Letter /\ ~(c < 32)
  <2>1. escByte(c) = <<c>>
    BY <1>3 DEF escByte
  <2> QED  BY <1>3, <2>1
<1> QED  BY <1>1, <1>2, <1>3

LEMMA LetterBack ==
  ASSUME NEW c \in DOMAIN Letter
  PROVE  StandsFor(Letter[c]) = {c}
BY DEF StandsFor, Letter

LEMMA NoLetter == StandsFor(117) = {}
BY DEF StandsFor, Letter

LEMMA OneSeq ==
  ASSUME NEW c
  PROVE  SetToSeq({c}) = <<c>>
<1>1. Cardinality({c}) = 1
  BY FS_Singleton
<1>2. SetToSeq({c}) = CHOOSE f \in [1 .. 1 -> {c}] : IsInjective(f)
  BY <1>1 DEF SetToSeq
<1>3. \A f \in [1 .. 1 -> {c}] : f = <<c>>
  OBVIOUS
<1>4. <<c>> \in [1 .. 1 -> {c}] /\ IsInjective(<<c>>)
  BY DEF IsInjective
<1> QED  BY <1>2, <1>3, <1>4

LEMMA HexBack ==
  ASSUME NEW n \in 0 .. 15
  PROVE  HexValue(HexDigit(n)) = n
<1>1. CASE n < 10
  BY <1>1 DEF HexValue, HexDigit
<1>2. CASE ~(n < 10)
  BY <1>2 DEF HexValue, HexDigit
<1> QED  BY <1>1, <1>2

LEMMA ControlBack ==
  ASSUME NEW c \in 0 .. 31, NEW b, NEW i \in Nat, i + 3 <= Len(b), Len(b) \in Nat,
         b[i] = 48, b[i + 1] = 48,
         b[i + 2] = HexDigit(c \div 16), b[i + 3] = HexDigit(c % 16)
  PROVE  hex4(b, i) = c
<1>1. c \div 16 \in 0 .. 15 /\ c % 16 \in 0 .. 15 /\ (c \div 16) * 16 + (c % 16) = c
  OBVIOUS
<1>2. /\ HexValue(b[i]) = 0 /\ HexValue(b[i + 1]) = 0
      /\ HexValue(b[i + 2]) = c \div 16 /\ HexValue(b[i + 3]) = c % 16
  <2>1. HexValue(48) = 0
    BY DEF HexValue
  <2> QED  BY <1>1, <2>1, HexBack
<1>3. ~(i + 3 > Len(b))
  OBVIOUS
<1>4. \A k \in i .. i + 3 : ~(HexValue(b[k]) < 0)
  <2>1. \A k \in i .. i + 3 : k = i \/ k = i + 1 \/ k = i + 2 \/ k = i + 3
    OBVIOUS
  <2> QED  BY <1>1, <1>2, <2>1
<1> QED  BY <1>1, <1>2, <1>3, <1>4 DEF hex4

LEMMA ControlStands ==
  ASSUME NEW c \in 0 .. 31, NEW lo, NEW i
  PROVE  Unicode(c, lo, i) = Escaped(<<c>>, i + 6)
<1>1. ~(c < 0 \/ c \in Low) /\ c \notin High
  BY DEF Low, High
<1>2. appendRune(c) = <<c>>
  BY DEF appendRune
<1> QED  BY <1>1, <1>2, Zenon DEF Unicode

Holds(t, at0, e) == \A j \in 1 .. Len(e) : t[at0 + j] = e[j]
LEMMA PieceBack ==
  ASSUME NEW c \in Byte, NEW t \in Seq(Byte), NEW a \in Nat, NEW n, n = Len(escByte(c)),
         a + n < Len(t), Holds(t, a, escByte(c))
  PROVE  Piece(t, a + 1) = Escaped(<<c>>, (a + n) + 1)
<1>1. PICK i \in Nat, m \in Nat : i = a + 1 /\ m = Len(t)
  <2>1. Len(t) \in Nat /\ a + 1 \in Nat
    BY LenProperties
  <2> QED  BY <2>1
<1>2. CASE c \in DOMAIN Letter
  <2>1. escByte(c) = <<92, Letter[c]>> /\ n = 2
    BY <1>2, EscByteFacts
  <2>2. t[i] = 92 /\ t[i + 1] = Letter[c] /\ ~(i > m) /\ ~(i >= m) /\ (a + n) + 1 = i + 2
    BY <1>1, <2>1 DEF Holds
  <2>3. Piece(t, i) = escape(t, i)
    <3>1. ~(t[i] < 32) /\ t[i] # Quote /\ t[i] = Backslash
      BY <2>2 DEF Quote, Backslash
    <3> QED  BY <1>1, <2>2, <3>1, Zenon DEF Piece
  <2>4. escape(t, i) = LetterOrUnicode(t, i, {c})
    <3>1. StandsFor(t[i + 1]) = {c}
      BY <1>2, <2>2, LetterBack
    <3> QED  BY <1>1, <2>2, <3>1, Zenon DEF escape
  <2>5. LetterOrUnicode(t, i, {c}) = Escaped(<<c>>, i + 2)
    <3>1. {c} # {}
      OBVIOUS
    <3> QED  BY <3>1, OneSeq, Zenon DEF LetterOrUnicode
  <2> QED  BY <1>1, <2>2, <2>3, <2>4, <2>5, Zenon
<1>3. CASE c \notin DOMAIN Letter /\ c < 32
  <2>1. escByte(c) = <<92, 117, 48, 48, HexDigit(c \div 16), HexDigit(c % 16)>> /\ n = 6
    BY <1>3, EscByteFacts
  <2>2. /\ t[i] = 92 /\ t[i + 1] = 117 /\ ~(i > m) /\ ~(i >= m) /\ (a + n) + 1 = i + 6
        /\ t[i + 2] = 48 /\ t[(i + 2) + 1] = 48 /\ t[(i + 2) + 2] = HexDigit(c \div 16)
        /\ t[(i + 2) + 3] = HexDigit(c % 16)
    BY <1>1, <2>1 DEF Holds
  <2>3. Piece(t, i) = escape(t, i)
    <3>1. ~(t[i] < 32) /\ t[i] # Quote /\ t[i] = Backslash
      BY <2>2 DEF Quote, Backslash
    <3> QED  BY <1>1, <2>2, <3>1, Zenon DEF Piece
  <2>4. escape(t, i) = LetterOrUnicode(t, i, {})
    <3>1. StandsFor(t[i + 1]) = {}
      BY <2>2, NoLetter
    <3> QED  BY <1>1, <2>2, <3>1, Zenon DEF escape
  <2>5. PICK lo : LetterOrUnicode(t, i, {}) = Unicode(c, lo, i)
    <3>1. hex4(t, i + 2) = c
      <4>1. PICK k \in Nat : k = i + 2
        BY <1>1
      <4>2. c \in 0 .. 31 /\ k + 3 <= Len(t) /\ Len(t) \in Nat
        BY <1>1, <1>3, <2>1, <4>1 DEF Byte
      <4>3. /\ t[k] = 48 /\ t[k + 1] = 48 /\ t[k + 2] = HexDigit(c \div 16)
            /\ t[k + 3] = HexDigit(c % 16)
        BY <2>2, <4>1
      <4>4. hex4(t, k) = c
        BY <4>2, <4>3, ControlBack
      <4> QED  BY <4>1, <4>4
    <3>2. PICK u : u = t[i + 1] /\ u = 117
      BY <2>2
    <3> QED  BY <3>1, <3>2, Zenon DEF LetterOrUnicode
  <2>6. Unicode(c, lo, i) = Escaped(<<c>>, i + 6)
    <3>1. c \in 0 .. 31
      BY <1>3 DEF Byte
    <3> QED  BY <3>1, ControlStands
  <2> QED  BY <1>1, <2>2, <2>3, <2>4, <2>5, <2>6, Zenon
<1>4. CASE c \notin DOMAIN Letter /\ ~(c < 32)
  <2>1. escByte(c) = <<c>> /\ n = 1
    BY <1>4, EscByteFacts
  <2>2. t[i] = c /\ ~(i > m) /\ (a + n) + 1 = i + 1
    BY <1>1, <2>1 DEF Holds
  <2>3. ~(t[i] < 32) /\ t[i] # Quote /\ t[i] # Backslash
    BY <1>4, <2>2 DEF Letter, Quote, Backslash
  <2>4. Piece(t, i) = Escaped(<<t[i]>>, i + 1)
    BY <1>1, <2>2, <2>3, Zenon DEF Piece
  <2> QED  BY <1>1, <2>2, <2>4, Zenon
<1> QED  BY <1>2, <1>3, <1>4

LEMMA QuoteEnds ==
  ASSUME NEW t, NEW i, i = Len(t), i \in Nat, t[i] = Quote
  PROVE  Piece(t, i) = Escaped(<<>>, 0)
<1>1. ~(i > Len(t)) /\ ~(i < Len(t))
  OBVIOUS
<1>2. ~(t[i] < 32) /\ t[i] # Backslash
  BY DEF Quote, Backslash
<1> QED  BY <1>1, <1>2, Zenon DEF Piece

(* Sequences joined one after the other: where each of them stands.        *)
JoinedUp(g, ss) == g[0] = <<>> /\ \A i \in 1 .. Len(ss) : g[i] = g[i - 1] \o ss[i]
LEMMA FlattenIs ==
  ASSUME NEW S, NEW ss \in Seq(Seq(S))
  PROVE  \E g \in [0 .. Len(ss) -> Seq(S)] : JoinedUp(g, ss) /\ FlattenSeq(ss) = g[Len(ss)]
<1>1. PICK n \in Nat : n = Len(ss)
  BY LenProperties
<1>2. CASE n = 0
  <2> DEFINE g == [i \in 0 .. 0 |-> <<>>]
  <2>1. FlattenSeq(ss) = <<>>
    <3>1. ss = <<>>
      BY <1>1, <1>2, EmptySeq
    <3>2. FlattenSeq(ss) = ss
      BY <1>1, <1>2 DEF FlattenSeq
    <3> QED  BY <3>1, <3>2
  <2>2. g \in [0 .. 0 -> Seq(S)] /\ g[0] = <<>>
    OBVIOUS
  <2>3. \A i \in 1 .. 0 : FALSE
    OBVIOUS
  <2> HIDE DEF g
  <2> QED  BY <1>1, <1>2, <2>1, <2>2, <2>3 DEF JoinedUp
<1>3. CASE n # 0
  <2>1. PICK f \in [1 .. n -> Seq(S)] : JoinsUp(f, ss) /\ FlattenSeq(ss) = f[n]
    BY <1>1, <1>3, FlattenJoins
  <2>2. \A i \in 1 .. n : f[i] = IF i = 1 THEN ss[i] ELSE f[i - 1] \o ss[i]
    BY <1>1, <2>1 DEF JoinsUp
  <2> DEFINE g == [i \in 0 .. n |-> IF i = 0 THEN <<>> ELSE f[i]]
  <2>3. ASSUME NEW i \in 0 .. n PROVE g[i] \in Seq(S)
    <3>1. CASE i = 0
      BY <3>1
    <3>2. CASE i # 0
      <4>1. i \in 1 .. n
        BY <3>2
      <4> QED  BY <3>2, <4>1
    <3> QED  BY <3>1, <3>2
  <2>4. g[0] = <<>> /\ g[n] = f[n] /\ g \in [0 .. n -> Seq(S)]
    BY <1>3, <2>3
  <2>5. ASSUME NEW i \in 1 .. n PROVE g[i] = g[i - 1] \o ss[i]
    <3>1. g[i] = f[i] /\ i - 1 \in 0 .. n /\ ss[i] \in Seq(S)
      BY <1>1
    <3>2. CASE i = 1
      <4>1. g[i - 1] = <<>>
        BY <2>4, <3>2
      <4>2. <<>> \o ss[i] = ss[i]
        BY <3>1, ConcatEmptySeq
      <4> QED  BY <2>2, <3>1, <3>2, <4>1, <4>2
    <3>3. CASE i # 1
      <4>1. g[i - 1] = f[i - 1]
        BY <3>1, <3>3
      <4> QED  BY <2>2, <3>1, <3>3, <4>1
    <3> QED  BY <3>2, <3>3
  <2> HIDE DEF g
  <2> QED  BY <1>1, <2>1, <2>4, <2>5 DEF JoinedUp
<1> QED  BY <1>2, <1>3

Begins(p, q) == Len(p) <= Len(q) /\ \A j \in 1 .. Len(p) : q[j] = p[j]
LEMMA JoinedStands ==
  ASSUME NEW S, NEW ss \in Seq(Seq(S)), NEW n \in Nat, n = Len(ss),
         NEW g \in [0 .. n -> Seq(S)], JoinedUp(g, ss), NEW k \in 0 .. n
  PROVE  Begins(g[k], g[n])
<1> DEFINE Q(i) == /\ i + k <= n => /\ Len(g[k]) <= Len(g[k + i])
                                    /\ \A j \in 1 .. Len(g[k]) : g[k + i][j] = g[k][j]
           T == {i \in 0 .. n : Q(i)}
<1>1. 0 \in T
  <2>1. k + 0 = k /\ g[k] \in Seq(S) /\ 0 \in 0 .. n
    OBVIOUS
  <2>2. Len(g[k]) \in Nat
    BY <2>1, LenProperties
  <2> QED  BY <2>1, <2>2
<1>2. ASSUME NEW i \in 0 .. n, i < n, i \in T PROVE i + 1 \in T
  <2>1. SUFFICES ASSUME (i + 1) + k <= n PROVE Q(i + 1)
    BY <1>2
  <2>2. PICK a \in 0 .. n, b \in 1 .. n : a = k + i /\ b = k + (i + 1) /\ b - 1 = a /\ i + k <= n
    BY <2>1
  <2>3. g[b] = g[a] \o ss[b] /\ ss[b] \in Seq(S) /\ g[a] \in Seq(S) /\ g[k] \in Seq(S)
    <3>1. ss[b] \in Seq(S)
      BY <2>2, ElementOfSeq
    <3>2. g[a] \in Seq(S) /\ g[k] \in Seq(S)
      BY <2>2
    <3>3. g[b] = g[b - 1] \o ss[b]
      BY <2>2, Zenon DEF JoinedUp
    <3> QED  BY <2>2, <3>1, <3>2, <3>3
  <2>4. /\ Len(g[b]) = Len(g[a]) + Len(ss[b]) /\ Len(g[a]) \in Nat /\ Len(ss[b]) \in Nat
        /\ \A j \in 1 .. Len(g[a]) : g[b][j] = g[a][j]
    BY <2>3, ConcatFacts
  <2>5. Len(g[k]) <= Len(g[a]) /\ \A j \in 1 .. Len(g[k]) : g[a][j] = g[k][j]
    BY <1>2, <2>2
  <2>6. Len(g[k]) \in Nat
    BY <2>3, LenProperties
  <2>7. Len(g[k]) <= Len(g[b]) /\ \A j \in 1 .. Len(g[k]) : j \in 1 .. Len(g[a])
    BY <2>4, <2>5, <2>6
  <2>8. \A j \in 1 .. Len(g[k]) : g[b][j] = g[k][j]
    BY <2>4, <2>5, <2>7
  <2> QED  BY <2>2, <2>7, <2>8
<1>3. n - k \in T
  <2> HIDE DEF T
  <2>1. \A i \in 0 .. n : i \in T
    BY <1>1, <1>2, UpTo
  <2> QED  BY <2>1
<1>4. k + (n - k) = n /\ (n - k) + k <= n
  OBVIOUS
<1>5. Q(n - k)
  BY <1>3
<1> QED  BY <1>4, <1>5 DEF Begins

LEMMA SuffixFacts ==
  ASSUME NEW S, NEW s \in Seq(S), NEW n \in Nat, n = Len(s)
  PROVE  /\ SubSeq(s, n + 1, n) = <<>> /\ SubSeq(s, 1, n) = s
         /\ \A k \in 1 .. n : <<s[k]>> \o SubSeq(s, k + 1, n) = SubSeq(s, k, n)
<1>1. s \in [1 .. n -> S]
  BY LenProperties
<1>2. SubSeq(s, n + 1, n) = <<>>
  OBVIOUS
<1>3. SubSeq(s, 1, n) = s
  BY <1>1
<1>4. ASSUME NEW k \in 1 .. n PROVE <<s[k]>> \o SubSeq(s, k + 1, n) = SubSeq(s, k, n)
  <2>1. s[k] \in S /\ <<s[k]>> \in Seq(S) /\ Len(<<s[k]>>) = 1
    BY <1>1
  <2>2. PICK u, v, m : /\ u = SubSeq(s, k + 1, n) /\ v = SubSeq(s, k, n) /\ m = n - k
                       /\ m \in Nat
    <3>1. n - k \in Nat
      OBVIOUS
    <3> QED  BY <3>1
  <2>3. u = [i \in 1 .. m |-> s[i + k]] /\ u \in Seq(S) /\ Len(u) = m
    <3>1. u = [i \in 1 .. (n - (k + 1) + 1) |-> s[i + (k + 1) - 1]]
      BY <2>2
    <3>2. \A i \in 1 .. m : i + (k + 1) - 1 = i + k /\ i + k \in 1 .. n
      BY <2>2
    <3>3. n - (k + 1) + 1 = m
      BY <2>2
    <3>4. u = [i \in 1 .. m |-> s[i + k]]
      BY <3>1, <3>2, <3>3
    <3>5. \A i \in 1 .. m : s[i + k] \in S
      BY <1>1, <3>2
    <3> QED  BY <2>2, <3>4, <3>5
  <2>4. v = [i \in 1 .. m + 1 |-> s[i + k - 1]]
    <3>1. v = [i \in 1 .. (n - k + 1) |-> s[i + k - 1]]
      BY <2>2
    <3>2. n - k + 1 = m + 1
      BY <2>2
    <3> QED  BY <3>1, <3>2
  <2>5. PICK q, w : q = <<s[k]>> /\ w = q \o u
    OBVIOUS
  <2>6. /\ w \in Seq(S) /\ Len(w) = 1 + m
        /\ \A i \in 1 .. 1 : w[i] = q[i]
        /\ \A i \in 1 .. m : w[1 + i] = u[i]
    <3>0. q \in Seq(S) /\ u \in Seq(S)
      BY <2>1, <2>3, <2>5
    <3>1. Len(q) = 1 /\ Len(u) = m
      BY <2>1, <2>3, <2>5
    <3>2. /\ q \o u \in Seq(S) /\ Len(q \o u) = Len(q) + Len(u)
          /\ \A i \in 1 .. Len(q) : (q \o u)[i] = q[i]
          /\ \A i \in 1 .. Len(u) : (q \o u)[Len(q) + i] = u[i]
      BY <3>0, ConcatFacts
    <3> QED  BY <2>5, <3>0, <3>1, <3>2
  <2>7. w = [i \in 1 .. m + 1 |-> w[i]]
    <3>1. w \in [1 .. Len(w) -> S]
      BY <2>6, LenProperties
    <3>2. 1 + m = m + 1
      BY <2>2
    <3> QED  BY <2>6, <3>1, <3>2
  <2>8. ASSUME NEW i \in 1 .. m + 1 PROVE w[i] = s[i + k - 1]
    <3>1. CASE i = 1
      <4>1. w[1] = s[k]
        BY <2>5, <2>6
      <4> QED  BY <3>1, <4>1
    <3>2. CASE i # 1
      <4>1. PICK j \in 1 .. m : i = 1 + j
        <5>1. i - 1 \in 1 .. m /\ i = 1 + (i - 1)
          BY <2>2, <3>2
        <5> QED  BY <5>1
      <4>2. w[1 + j] = s[j + k]
        BY <2>3, <2>6
      <4>3. j + k = i + k - 1
        BY <4>1
      <4> QED  BY <4>1, <4>2, <4>3
    <3> QED  BY <3>1, <3>2
  <2> QED  BY <2>2, <2>4, <2>5, <2>7, <2>8
<1> QED  BY <1>2, <1>3, <1>4

ReadsFrom(t, f) == f = [i \in 1 .. Len(t) + 12 |-> Join(Piece(t, i), f)]
LEMMA StrIs ==
  ASSUME NEW t, Len(t) \in Nat
  PROVE  \E f : ReadsFrom(t, f) /\ str(t) = Unbroken(f[1])
<1>1. PICK N \in Nat : N = Len(t) + 12
  OBVIOUS
<1> DEFINE ps == [i \in 1 .. N |-> Piece(t, i)]
<1>2. Ahead(ps, N)
  <2>1. ASSUME NEW i \in 1 .. N
        PROVE  ps[i].word # "" \/ ps[i].next = 0 \/ ps[i].next \in i + 1 .. N
    <3>1. PICK p : p = Piece(t, i)
      OBVIOUS
    <3>2. i \in Nat /\ i >= 1
      OBVIOUS
    <3>3. p.word # "" \/ p.next = 0 \/ p.next \in i + 1 .. N
      BY <1>1, <3>1, <3>2, PieceEnds, Zenon
    <3>4. ps[i] = p
      BY <3>1
    <3> QED  BY <3>3, <3>4, Zenon
  <2> HIDE DEF ps
  <2> QED  BY <2>1, Zenon DEF Ahead
<1>3. PICK f : Joins(ps, 1, N, f)
  <2> HIDE DEF ps
  <2> QED  BY <1>2, JoinExists, Zenon
<1>4. ReadsFrom(t, f)
  BY <1>1, <1>3, Zenon DEF Joins, ReadsFrom
<1> DEFINE h == CHOOSE h : ReadsFrom(t, h)
<1>5. ReadsFrom(t, h)
  BY <1>4, Zenon
<1>6. str(t) = Unbroken(h[1])
  BY Zenon DEF str, ReadsFrom
<1> HIDE DEF h
<1> QED  BY <1>5, <1>6, Zenon

LEMMA JoinLast ==
  ASSUME NEW p, p = Escaped(<<>>, 0), NEW f
  PROVE  Join(p, f) = Ok(<<>>)
<1>1. p.word = "" /\ p.next = 0
  BY EscapedWord, EscapedNext
<1> QED  BY <1>1, Zenon DEF Join

LEMMA JoinNext ==
  ASSUME NEW p, NEW o, NEW n, n # 0, p = Escaped(o, n), NEW f, NEW v, f[n] = Ok(v)
  PROVE  Join(p, f) = Ok(o \o v)
<1>1. p.word = ""
  BY EscapedWord
<1>2. p.next = n
  BY EscapedNext
<1>3. p.out = o
  BY EscapedOut
<1>4. PICK r : r = f[n]
  OBVIOUS
<1>5. r.word = "" /\ r.value = v
  BY <1>4, OkFacts
<1>6. Before(o, r) = Ok(o \o v)
  BY <1>5, Zenon DEF Before
<1> QED  BY <1>1, <1>2, <1>3, <1>4, <1>6, Zenon DEF Join

LEMMA WrittenReadsBack ==
  ASSUME NEW s \in Seq(Byte)
  PROVE  str(esc(s)) = Unbroken(Ok(s))
<1>1. PICK n \in Nat : n = Len(s) /\ DOMAIN s = 1 .. n /\ \A k \in 1 .. n : s[k] \in Byte
  BY LenProperties
<1> DEFINE ss == [i \in DOMAIN s |-> escByte(s[i])]
<1>2. ss \in Seq(Seq(Byte)) /\ Len(ss) = n /\ \A k \in 1 .. n : ss[k] = escByte(s[k])
  <2>1. \A k \in 1 .. n : escByte(s[k]) \in Seq(Byte)
    BY <1>1, EscByteFacts
  <2>2. ss = [k \in 1 .. n |-> escByte(s[k])]
    BY <1>1
  <2> QED  BY <2>1, <2>2
<1>3. PICK g \in [0 .. n -> Seq(Byte)] : JoinedUp(g, ss) /\ FlattenSeq(ss) = g[n]
  <2> HIDE DEF ss
  <2> QED  BY <1>2, FlattenIs
<1>4. PICK t : t = Append(g[n], Quote)
  OBVIOUS
<1>5. esc(s) = t
  BY <1>3, <1>4 DEF esc
<1> HIDE DEF ss
<1>6. PICK z \in Nat : z = Len(g[n])
  BY LenProperties
<1>7. /\ t \in Seq(Byte) /\ Len(t) = z + 1 /\ t[z + 1] = Quote
      /\ \A j \in 1 .. z : t[j] = g[n][j]
  <2>1. g[n] \in Seq(Byte) /\ Quote \in Byte
    BY DEF Quote, Byte
  <2> QED  BY <1>4, <1>6, <2>1, AppendFacts
<1>8. PICK f : ReadsFrom(t, f) /\ str(t) = Unbroken(f[1])
  <2>1. Len(t) \in Nat
    BY <1>7
  <2> QED  BY <2>1, StrIs, Zenon
<1>9. \A i \in 1 .. (z + 1) + 12 : f[i] = Join(Piece(t, i), f)
  BY <1>7, <1>8 DEF ReadsFrom
<1> DEFINE T == {m \in 0 .. n : f[Len(g[n - m]) + 1] = Ok(SubSeq(s, (n - m) + 1, n))}
<1>10. 0 \in T
  <2>1. Piece(t, z + 1) = Escaped(<<>>, 0)
    <3>1. PICK i : i = z + 1
      OBVIOUS
    <3>2. i = Len(t) /\ i \in Nat /\ t[i] = Quote
      BY <1>7, <3>1
    <3>3. Piece(t, i) = Escaped(<<>>, 0)
      BY <3>2, QuoteEnds, Zenon
    <3> QED  BY <3>1, <3>3, Zenon
  <2>2. f[z + 1] = Ok(<<>>)
    <3>1. f[z + 1] = Join(Piece(t, z + 1), f)
      BY <1>9
    <3> QED  BY <2>1, <3>1, JoinLast
  <2>3. SubSeq(s, n + 1, n) = <<>>
    BY <1>1, SuffixFacts
  <2>4. n - 0 = n /\ 0 \in 0 .. n
    OBVIOUS
  <2> QED  BY <1>6, <2>2, <2>3, <2>4
<1>11. ASSUME NEW m \in 0 .. n, m < n, m \in T PROVE m + 1 \in T
  <2>1. PICK k \in 1 .. n, l \in 0 .. n : k = n - m /\ l = n - (m + 1) /\ l + 1 = k /\ k - 1 = l
    BY <1>11
  <2>2. k \in 0 .. n /\ m + 1 \in 0 .. n
    BY <1>11
  <2>3. PICK a \in Nat : a = Len(g[l])
    BY LenProperties
  <2>4. PICK c \in Byte : c = s[k] /\ ss[k] = escByte(c)
    BY <1>1, <1>2
  <2>5. PICK w \in Nat : w = Len(escByte(c)) /\ w \in {1, 2, 6} /\ escByte(c) \in Seq(Byte)
    BY EscByteFacts
  <2>6. g[k] = g[l] \o escByte(c) /\ g[l] \in Seq(Byte)
    <3>1. g[k] = g[k - 1] \o ss[k]
      BY <1>2, <1>3, Zenon DEF JoinedUp
    <3> QED  BY <2>1, <2>4, <3>1
  <2>7. Len(g[k]) = a + w /\ \A j \in 1 .. w : g[k][a + j] = escByte(c)[j]
    BY <2>3, <2>5, <2>6, ConcatFacts
  <2>8. a + w <= z /\ \A j \in 1 .. a + w : g[n][j] = g[k][j]
    <3>1. Begins(g[k], g[n])
      <4>1. n = Len(ss) /\ ss \in Seq(Seq(Byte)) /\ JoinedUp(g, ss)
        BY <1>2, <1>3
      <4> QED  BY <2>2, <4>1, JoinedStands, Zenon
    <3> QED  BY <1>6, <2>7, <3>1 DEF Begins
  <2>9. Holds(t, a, escByte(c))
    <3>1. ASSUME NEW j \in 1 .. w PROVE t[a + j] = escByte(c)[j]
      <4>1. a + j \in 1 .. a + w /\ a + j \in 1 .. z
        BY <2>8
      <4> QED  BY <1>7, <2>7, <2>8, <4>1
    <3> QED  BY <2>5, <3>1 DEF Holds
  <2>10. Piece(t, a + 1) = Escaped(<<c>>, (a + w) + 1)
    <3>1. a + w < Len(t)
      BY <1>7, <2>8
    <3>2. t \in Seq(Byte) /\ w = Len(escByte(c))
      BY <1>7, <2>5
    <3> QED  BY <2>9, <3>1, <3>2, PieceBack
  <2>11. PICK v : v = SubSeq(s, k + 1, n)
    OBVIOUS
  <2>12. f[(a + w) + 1] = Ok(v)
    <3>1. f[Len(g[n - m]) + 1] = Ok(SubSeq(s, (n - m) + 1, n))
      BY <1>11
    <3> QED  BY <2>1, <2>7, <2>11, <3>1
  <2>13. f[a + 1] = Ok(<<c>> \o v)
    <3>1. PICK o, x : o = <<c>> /\ x = (a + w) + 1
      OBVIOUS
    <3>2. x # 0
      BY <3>1
    <3>3. f[a + 1] = Join(Piece(t, a + 1), f)
      <4>1. a + 1 \in 1 .. (z + 1) + 12
        BY <2>8
      <4> QED  BY <1>9, <4>1, Zenon
    <3>4. PICK p : p = Piece(t, a + 1)
      OBVIOUS
    <3>5. p = Escaped(o, x) /\ f[x] = Ok(v)
      BY <2>10, <2>12, <3>1, <3>4, Zenon
    <3>6. Join(p, f) = Ok(o \o v)
      BY <3>2, <3>5, JoinNext
    <3> QED  BY <3>1, <3>3, <3>4, <3>6, Zenon
  <2>14. <<c>> \o v = SubSeq(s, k, n)
    BY <1>1, <2>4, <2>11, SuffixFacts
  <2>15. f[Len(g[n - (m + 1)]) + 1] = Ok(SubSeq(s, (n - (m + 1)) + 1, n))
    <3>1. n - (m + 1) = l /\ (n - (m + 1)) + 1 = k
      BY <2>1
    <3>2. f[Len(g[l]) + 1] = Ok(SubSeq(s, k, n))
      BY <2>3, <2>13, <2>14, Zenon
    <3> QED  BY <3>1, <3>2, Zenon
  <2> QED  BY <2>2, <2>15
<1>12. n \in T
  <2> HIDE DEF T
  <2>1. \A i \in 0 .. n : i \in T
    BY <1>10, <1>11, UpTo
  <2>2. n \in 0 .. n
    OBVIOUS
  <2> QED  BY <2>1, <2>2
<1>13. f[1] = Ok(s)
  <2>1. n - n = 0 /\ g[0] = <<>>
    BY <1>3 DEF JoinedUp
  <2>2. f[Len(g[n - n]) + 1] = Ok(SubSeq(s, (n - n) + 1, n))
    BY <1>12
  <2>3. Len(g[n - n]) + 1 = 1 /\ (n - n) + 1 = 1
    BY <2>1
  <2>4. SubSeq(s, 1, n) = s
    BY <1>1, SuffixFacts
  <2> QED  BY <2>2, <2>3, <2>4, Zenon
<1> QED  BY <1>5, <1>8, <1>13, Zenon

(* What esc writes of any bytes, str reads as those bytes, whatever        *)
(* escapes they took, if they are UTF-8, and refuses as bad_string if they *)
(* are not: no string is stored as another one than was written.           *)
THEOREM StringsReadBack ==
  ASSUME NEW s \in Seq(Byte)
  PROVE  str(esc(s)) = IF validUTF8(s) THEN Ok(s) ELSE Refuse("bad_string")
<1>1. PICK r : r = Ok(s)
  OBVIOUS
<1>2. r.word = "" /\ r.value = s
  BY <1>1, OkFacts
<1>3. Unbroken(r) = IF validUTF8(s) THEN r ELSE Refuse("bad_string")
  BY <1>2, Zenon DEF Unbroken
<1> QED  BY <1>1, <1>3, WrittenReadsBack, Zenon

=============================================================================
