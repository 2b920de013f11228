----------------------- MODULE LocalForwardingProofs -----------------------
(***************************************************************************)
(* Proofs about LocalForwarding: for every number of records and dials.    *)
(***************************************************************************)
EXTENDS LocalForwarding, SequenceTheorems, FiniteSetTheorems, TLAPS

-----------------------------------------------------------------------------
(* The inductive invariant.                                                *)

Cell == [r : Records, i : 1 .. 3]

SinkType ==
  /\ records \in 0 .. MaxRecords /\ dials \in 0 .. MaxDials
  /\ conn \in 0 .. dials /\ hung \in SUBSET (1 .. dials)
  /\ conn \notin hung
  /\ owed \in SUBSET (1 .. records) /\ fallback \in Seq(1 .. records)
WireType ==
  /\ pipe \in [Conns -> Seq(Cell)] /\ out \in [Conns -> Seq(Records)]
  /\ sent \in [Conns -> Seq(1 .. records)]
ServerType ==
  /\ server \in {"up", "closed", "down"} /\ listening \in BOOLEAN
  /\ tracked \in SUBSET Conns /\ cut \in SUBSET Conns
  /\ handler \in [Conns -> HandlerPCs]
  /\ closing \in {"no", "conns", "wait", "done"}

(* Serve holds one connection at most; the WaitGroup counts the handlers.  *)
Active == {c \in Conns : handler[c] \in {"reading", "leaving"}}
HeldInv == held = {} \/ \E c \in Conns : held = {c} /\ handler[c] = "accepted"
CountInv == wg = Cardinality(Active)

(* What a connection the sink has not made looks like.                     *)
UnusedInv ==
  \A c \in Conns : c > dials =>
    /\ pipe[c] = <<>> /\ sent[c] = <<>> /\ out[c] = <<>> /\ handler[c] = "none"

(* Out has a prefix of what was sent.  While the handler may still read,   *)
(* the pipe holds three cells of each of the others, in order: only the    *)
(* last record may lack its newline, or be followed by a single cell of a  *)
(* torn one, and then the client has hung up.                              *)
Prefixed(c) ==
  /\ Len(out[c]) <= Len(sent[c])
  /\ \A k \in 1 .. Len(out[c]) : out[c][k] = sent[c][k]
Undelivered(c) == Len(sent[c]) - Len(out[c])
FramesOf(p, s, o, torn) ==
  LET u == Len(s) - o
  IN /\ Len(p) - 3 * u \in -1 .. 1
     /\ Len(p) # 3 * u => torn
     /\ \A j \in 1 .. u, i \in 1 .. 3 :
          3 * (j - 1) + i <= Len(p) =>
            p[3 * (j - 1) + i] = [r |-> s[o + j], i |-> i]
     /\ Len(p) = 3 * u + 1 => p[Len(p)].i = 1
Framed(c) == FramesOf(pipe[c], sent[c], Len(out[c]), c \in hung)
MayRead(c) == handler[c] \in {"none", "backlog", "accepted", "reading"}
PipeInv == \A c \in Conns : Prefixed(c) /\ (MayRead(c) => Framed(c))

(* A record was sent, given to the fallback, or both if it ended its       *)
(* connection.                                                             *)
Given == owed \union ToSet(fallback)
FateInv ==
  /\ \A x \in (1 .. records) \ Given : \E c \in Conns : x \in ToSet(sent[c])
  /\ \A x \in Given, c \in Conns :
       x \in ToSet(sent[c]) => c \in hung /\ x = sent[c][Len(sent[c])]

IInv ==
  /\ SinkType /\ WireType /\ ServerType /\ HeldInv /\ CountInv
  /\ UnusedInv /\ PipeInv /\ FateInv

-----------------------------------------------------------------------------
(* Lines, and what they decode to.                                         *)

LEMMA SmallSetToSeq ==
  /\ SetToSeq({}) = <<>>
  /\ \A x : SetToSeq({x}) = <<x>>
<1>1. Cardinality({}) = 0 /\ \A x : Cardinality({x}) = 1
  BY FS_EmptySet, FS_Singleton
<1>2. SetToSeq({}) = <<>>
  <2>1. \A f \in [1 .. 0 -> {}] : f = <<>>
    OBVIOUS
  <2>2. <<>> \in [1 .. 0 -> {}] /\ IsInjective(<<>>)
    BY DEF IsInjective
  <2> QED  BY <1>1, <2>1, <2>2 DEF SetToSeq
<1>3. ASSUME NEW x PROVE SetToSeq({x}) = <<x>>
  <2>1. \A f \in [1 .. 1 -> {x}] : f = <<x>>
    OBVIOUS
  <2>2. <<x>> \in [1 .. 1 -> {x}] /\ IsInjective(<<x>>)
    BY DEF IsInjective
  <2> QED  BY <1>1, <2>1, <2>2 DEF SetToSeq
<1> QED  BY <1>2, <1>3

(* What the provers need to hear about sequences.                          *)
LEMMA SeqFacts ==
  ASSUME NEW S, NEW T, S \subseteq T, NEW s \in Seq(S)
  PROVE  /\ s \in Seq(T) /\ Len(s) \in Nat
         /\ \A k \in 1 .. Len(s) : s[k] \in S
         /\ \A x \in T : /\ Append(s, x) \in Seq(T) /\ s \o <<x>> = Append(s, x)
                         /\ Len(Append(s, x)) = Len(s) + 1
                         /\ Append(s, x)[Len(s) + 1] = x
                         /\ \A k \in 1 .. Len(s) : Append(s, x)[k] = s[k]
<1>1. s \in Seq(T) /\ Len(s) \in Nat /\ \A k \in 1 .. Len(s) : s[k] \in S
  OBVIOUS
<1>2. ASSUME NEW x \in T
      PROVE  /\ Append(s, x) \in Seq(T) /\ s \o <<x>> = Append(s, x)
             /\ Len(Append(s, x)) = Len(s) + 1
             /\ Append(s, x)[Len(s) + 1] = x
             /\ \A k \in 1 .. Len(s) : Append(s, x)[k] = s[k]
  BY <1>1
<1> QED  BY <1>1, <1>2

LEMMA SeqWiden ==
  ASSUME NEW S, NEW T, S \in SUBSET T, NEW s \in Seq(S)
  PROVE  s \in Seq(T)
BY SeqFacts

(* A body with or without its newline is its record; less is nothing.      *)
LEMMA DecodedLines ==
  /\ \A x \in Records, n \in 2 .. 3 : Decoded(Cells(x, n)) = {x}
  /\ \A s \in Seq(Cell) : Len(s) <= 1 => Decoded(s) = {}
<1>1. ASSUME NEW x \in Records, NEW n \in 2 .. 3, NEW y \in Records,
             NEW m \in 2 .. 3, Cells(x, n) = Cells(y, m)
      PROVE  x = y
  <2>1. Cells(x, n)[1] = [r |-> x, i |-> 1] /\ Cells(y, m)[1] = [r |-> y, i |-> 1]
    BY DEF Cells
  <2>2. [r |-> x, i |-> 1].r = [r |-> y, i |-> 1].r
    BY <1>1, <2>1
  <2> QED  BY <2>2
<1>2. ASSUME NEW x \in Records, NEW n \in 2 .. 3 PROVE Decoded(Cells(x, n)) = {x}
  <2>1. 2 \in 2 .. 3 /\ 3 \in 2 .. 3 /\ (n = 2 \/ n = 3)
    OBVIOUS
  <2> QED  BY <1>1, <2>1 DEF Decoded
<1>3. ASSUME NEW s \in Seq(Cell), Len(s) <= 1 PROVE Decoded(s) = {}
  <2>1. \A x \in Records : DOMAIN Cells(x, 3) = 1 .. 3 /\ DOMAIN Cells(x, 2) = 1 .. 2
    BY DEF Cells
  <2>2. DOMAIN s = 1 .. Len(s) /\ 2 \notin DOMAIN s
    BY <1>3
  <2>3. 2 \in 1 .. 3 /\ 2 \in 1 .. 2
    OBVIOUS
  <2>4. \A x \in Records : s # Cells(x, 3) /\ s # Cells(x, 2)
    BY <2>1, <2>2, <2>3
  <2> QED  BY <2>4 DEF Decoded
<1> QED  BY <1>2, <1>3

(* The first cells of a pipe are those of the first record not delivered.  *)
LEMMA FirstCells ==
  ASSUME WireType, NEW c \in Conns, Prefixed(c), Framed(c)
  PROVE  /\ Undelivered(c) \in Nat /\ Len(pipe[c]) \in Nat /\ pipe[c] \in Seq(Cell)
         /\ Len(pipe[c]) > 1 => Undelivered(c) > 0
         /\ Undelivered(c) = 0 => \A k \in 1 .. Len(pipe[c]) : pipe[c][k].i = 1
         /\ Undelivered(c) > 0 =>
              /\ Len(pipe[c]) > 1
              /\ \A k \in 1 .. 3 : k <= Len(pipe[c]) =>
                   pipe[c][k] = [r |-> sent[c][Len(out[c]) + 1], i |-> k]
<1>1. /\ pipe[c] \in Seq(Cell) /\ Len(pipe[c]) \in Nat
      /\ Len(sent[c]) \in Nat /\ Len(out[c]) \in Nat
  BY DEF WireType
<1>2. Undelivered(c) \in Nat
  BY <1>1 DEF Prefixed, Undelivered
<1>3. Len(pipe[c]) - 3 * Undelivered(c) \in -1 .. 1
  BY DEF Framed, FramesOf, Undelivered
<1>4. /\ Len(pipe[c]) > 1 => Undelivered(c) > 0
      /\ Undelivered(c) > 0 => Len(pipe[c]) > 1
      /\ Undelivered(c) = 0 => Len(pipe[c]) \in 0 .. 1
  <2>1. \A a \in Nat, u \in Nat : a - 3 * u \in -1 .. 1 =>
          (a > 1 => u > 0) /\ (u > 0 => a > 1) /\ (u = 0 => a \in 0 .. 1)
    OBVIOUS
  <2> QED  BY <1>1, <1>2, <1>3, <2>1
<1>5. ASSUME Undelivered(c) = 0, NEW k \in 1 .. Len(pipe[c])
      PROVE  pipe[c][k].i = 1
  <2>1. k = 1 /\ Len(pipe[c]) = 1
    BY <1>4, <1>5
  <2>2. Len(pipe[c]) = 3 * Undelivered(c) + 1 => pipe[c][Len(pipe[c])].i = 1
    BY DEF Framed, FramesOf, Undelivered
  <2>3. 3 * Undelivered(c) + 1 = 1
    BY <1>5
  <2> QED  BY <2>1, <2>2, <2>3
<1>6. ASSUME Undelivered(c) > 0, NEW k \in 1 .. 3, k <= Len(pipe[c])
      PROVE  pipe[c][k] = [r |-> sent[c][Len(out[c]) + 1], i |-> k]
  <2>1. 1 \in 1 .. Undelivered(c) /\ 3 * (1 - 1) + k = k
    BY <1>2, <1>6
  <2>2. \A j \in 1 .. Undelivered(c), i \in 1 .. 3 :
          3 * (j - 1) + i <= Len(pipe[c]) =>
            pipe[c][3 * (j - 1) + i] = [r |-> sent[c][Len(out[c]) + j], i |-> i]
    BY DEF Framed, FramesOf, Undelivered
  <2>3. 3 * (1 - 1) + k <= Len(pipe[c]) =>
            pipe[c][3 * (1 - 1) + k] = [r |-> sent[c][Len(out[c]) + 1], i |-> k]
    BY <2>1, <2>2
  <2> QED  BY <1>6, <2>1, <2>3
<1> QED  BY <1>1, <1>2, <1>4, <1>5, <1>6

(* The line a handler reads is the first record not delivered.             *)
LEMMA FirstLine ==
  ASSUME WireType, NEW c \in Conns, Prefixed(c), Framed(c), Newlines(c) # {}
  PROVE  /\ Undelivered(c) > 0 /\ Len(pipe[c]) > 2 /\ Min(Newlines(c)) = 3
         /\ SubSeq(pipe[c], 1, 3) = Cells(sent[c][Len(out[c]) + 1], 3)
<1> DEFINE x == sent[c][Len(out[c]) + 1]
           p == pipe[c]
<1>1. p \in Seq(Cell) /\ Len(p) \in Nat /\ DOMAIN p = 1 .. Len(p)
  <2>1. p \in Seq(Cell)
    BY DEF WireType
  <2> HIDE DEF p
  <2> QED  BY <2>1
<1>2. Newlines(c) = {k \in 1 .. Len(p) : p[k].i = 3}
  BY <1>1 DEF Newlines
<1>3. Undelivered(c) > 0
  <2>1. Undelivered(c) = 0 => \A k \in 1 .. Len(p) : p[k].i = 1
    BY FirstCells
  <2>2. Undelivered(c) # 0
    BY <1>2, <2>1
  <2>3. Undelivered(c) \in Nat
    BY FirstCells
  <2> QED  BY <2>2, <2>3
<1>4. \A k \in 1 .. 3 : k <= Len(p) => p[k] = [r |-> x, i |-> k]
  BY <1>3, FirstCells
<1>5. \A k \in Newlines(c) : k >= 3 /\ k <= Len(p)
  <2> SUFFICES ASSUME NEW k \in Newlines(c) PROVE k >= 3 /\ k <= Len(p)
    OBVIOUS
  <2>1. k \in 1 .. Len(p) /\ p[k].i = 3
    BY <1>2
  <2>2. ASSUME k < 3 PROVE FALSE
    <3>1. k \in 1 .. 3 /\ k <= Len(p)
      BY <1>1, <2>1, <2>2
    <3>2. p[k] = [r |-> x, i |-> k]
      BY <1>4, <3>1
    <3>3. p[k].i = k
      BY <3>2
    <3> QED  BY <2>1, <2>2, <3>3
  <2> QED  BY <1>1, <2>1, <2>2
<1>6. Len(p) > 2
  <2>1. PICK k : k \in Newlines(c)
    OBVIOUS
  <2>2. k \in 1 .. Len(p) /\ k >= 3
    BY <1>2, <1>5, <2>1
  <2> QED  BY <1>1, <2>2
<1>7. 3 \in Newlines(c)
  <2>1. p[3] = [r |-> x, i |-> 3]
    BY <1>1, <1>4, <1>6
  <2>2. 3 \in 1 .. Len(p) /\ p[3].i = 3
    BY <1>1, <1>6, <2>1
  <2> QED  BY <1>2, <2>2
<1>8. Min(Newlines(c)) = 3
  <2>1. \A k \in Newlines(c) : k \in Int /\ k >= 3
    BY <1>2, <1>5
  <2>2. 3 \in Newlines(c) /\ \A y \in Newlines(c) : 3 <= y
    BY <1>7, <2>1
  <2>3. \A k \in Newlines(c) : (\A y \in Newlines(c) : k <= y) => k = 3
    BY <1>7, <2>1
  <2> QED  BY <2>2, <2>3 DEF Min
<1>9. SubSeq(p, 1, 3) = Cells(x, 3)
  <2>1. SubSeq(p, 1, 3) = [k \in 1 .. 3 |-> p[k]]
    BY <1>1, <1>6
  <2>2. \A k \in 1 .. 3 : p[k] = [r |-> x, i |-> k]
    BY <1>1, <1>4, <1>6
  <2> HIDE DEF p, x
  <2> QED  BY <2>1, <2>2 DEF Cells
<1> QED  BY <1>3, <1>6, <1>8, <1>9

(* What the end of a stream leaves to deliver is nothing, or the first     *)
(* record not delivered.                                                   *)
LEMMA RestLine ==
  ASSUME WireType, NEW c \in Conns, Prefixed(c), Framed(c),
         NEW n \in 0 .. Len(pipe[c]), Newlines(c) \intersect 1 .. n = {}
  PROVE  LET line == SetToSeq(Decoded(SubSeq(pipe[c], 1, n)))
         IN \/ line = <<>>
            \/ Undelivered(c) > 0 /\ line = <<sent[c][Len(out[c]) + 1]>>
<1> DEFINE x == sent[c][Len(out[c]) + 1]
           p == pipe[c]
<1>1. p \in Seq(Cell) /\ Len(p) \in Nat /\ DOMAIN p = 1 .. Len(p)
  <2>1. p \in Seq(Cell)
    BY DEF WireType
  <2> HIDE DEF p
  <2> QED  BY <2>1
<1>2. SubSeq(p, 1, n) = [k \in 1 .. n |-> p[k]] /\ SubSeq(p, 1, n) \in Seq(Cell)
      /\ Len(SubSeq(p, 1, n)) = n
  BY <1>1
<1>3. CASE n <= 1
  <2>1. Decoded(SubSeq(p, 1, n)) = {}
    BY <1>2, <1>3, DecodedLines
  <2> QED  BY <2>1, SmallSetToSeq
<1>4. CASE n > 1
  <2>1. Undelivered(c) > 0
    <3>1. Len(p) > 1
      BY <1>1, <1>4
    <3> QED  BY <3>1, FirstCells
  <2>2. \A k \in 1 .. 3 : k <= Len(p) => p[k] = [r |-> x, i |-> k]
    BY <2>1, FirstCells
  <2>3. n = 2
    <3> SUFFICES ASSUME n # 2 PROVE FALSE
      OBVIOUS
    <3>1. 3 \in 1 .. n /\ 3 \in 1 .. Len(p)
      BY <1>1, <1>4
    <3>2. p[3] = [r |-> x, i |-> 3]
      BY <1>1, <2>2, <3>1
    <3>3. p[3].i = 3
      BY <3>2
    <3>4. 3 \in Newlines(c)
      BY <1>1, <3>1, <3>3 DEF Newlines
    <3> QED  BY <3>1, <3>4
  <2>4. \A k \in 1 .. 2 : p[k] = [r |-> x, i |-> k]
    BY <1>1, <2>2, <2>3
  <2>5. SubSeq(p, 1, n) = Cells(x, 2)
    <3> HIDE DEF p, x
    <3> QED  BY <1>2, <2>3, <2>4 DEF Cells
  <2>6. x \in Records
    <3>1. pipe[c][1] \in Cell /\ pipe[c][1] = [r |-> x, i |-> 1]
      BY <1>1, <1>4, <2>4
    <3>2. [r |-> x, i |-> 1].r \in Records
      BY <3>1 DEF Cell
    <3> QED  BY <3>2
  <2>7. Decoded(SubSeq(p, 1, n)) = {x}
    <3>1. 2 \in 2 .. 3
      OBVIOUS
    <3>2. Decoded(Cells(x, 2)) = {x}
      BY <2>6, <3>1, DecodedLines
    <3> QED  BY <2>5, <3>2
  <2> QED  BY <2>1, <2>7, SmallSetToSeq
<1> QED  BY <1>3, <1>4

-----------------------------------------------------------------------------
(* The steps of the server.                                                *)

LEMMA ActiveFinite == IsFiniteSet(Active) /\ Cardinality(Active) \in Nat
<1>1. IsFiniteSet(Conns)
  BY ForwardingAssumption, FS_Interval DEF Conns
<1>2. Active \in SUBSET Conns
  BY DEF Active
<1>3. IsFiniteSet(Active)
  BY <1>1, <1>2, FS_Subset
<1> QED  BY <1>3, FS_CardinalityType

(* A step that neither reads nor writes, and starts no handler that could  *)
(* not have read before.                                                   *)
LEMMA QuietStep ==
  ASSUME IInv, UNCHANGED <<sinkVars, wireVars, out>>,
         ServerType', HeldInv', CountInv',
         \A c \in Conns : MayRead(c)' => MayRead(c),
         \A c \in Conns : handler[c] = "none" => handler'[c] = "none"
  PROVE  IInv'
<1>1. /\ records' = records /\ dials' = dials /\ conn' = conn /\ owed' = owed
      /\ fallback' = fallback /\ pipe' = pipe /\ hung' = hung /\ sent' = sent
      /\ out' = out
  BY DEF sinkVars, wireVars
<1>2. SinkType' /\ WireType'
  BY <1>1 DEF IInv, SinkType, WireType
<1>3. UnusedInv'
  BY <1>1 DEF IInv, UnusedInv
<1>4. PipeInv'
  <2>1. \A c \in Conns : Prefixed(c)' = Prefixed(c) /\ Framed(c)' = Framed(c)
    BY <1>1 DEF Prefixed, Framed, Undelivered
  <2> QED  BY <2>1 DEF IInv, PipeInv
<1>5. FateInv'
  BY <1>1 DEF IInv, FateInv, Given
<1> QED  BY <1>2, <1>3, <1>4, <1>5 DEF IInv

LEMMA ServeStep ==
  ASSUME IInv, Serve
  PROVE  IInv'
<1>0. ServerType /\ HeldInv /\ CountInv /\ handler \in [Conns -> HandlerPCs]
  BY DEF IInv, ServerType
<1>1. CASE \E c \in Conns : Accept(c)
  <2>1. PICK c \in Conns : Accept(c)
    BY <1>1
  <2>2. /\ held' = {c} /\ handler' = [handler EXCEPT ![c] = "accepted"]
        /\ handler[c] = "backlog"
        /\ UNCHANGED <<sinkVars, wireVars, server, listening, tracked, cut, wg,
                       closing, out>>
    BY <2>1 DEF Accept
  <2>3. ServerType'
    BY <1>0, <2>2 DEF ServerType, HandlerPCs
  <2>4. HeldInv'
    BY <1>0, <2>2 DEF HeldInv
  <2>5. Active' = Active
    BY <1>0, <2>2 DEF Active
  <2>6. CountInv'
    BY <1>0, <2>2, <2>5 DEF CountInv
  <2>7. /\ \A d \in Conns : MayRead(d)' => MayRead(d)
        /\ \A d \in Conns : handler[d] = "none" => handler'[d] = "none"
    BY <1>0, <2>2 DEF MayRead
  <2> QED  BY <2>2, <2>3, <2>4, <2>6, <2>7, QuietStep
<1>2. CASE Track
  <2>1. /\ tracked' = tracked \union held
        /\ UNCHANGED <<sinkVars, wireVars, server, listening, held, cut, handler,
                       wg, closing, out>>
    BY <1>2 DEF Track
  <2>2. held \in SUBSET Conns
    BY <1>0 DEF HeldInv
  <2>3. ServerType'
    BY <1>0, <2>1, <2>2 DEF ServerType
  <2>4. HeldInv'
    BY <1>0, <2>1 DEF HeldInv
  <2>5. Active' = Active
    BY <2>1 DEF Active
  <2>6. CountInv'
    BY <1>0, <2>1, <2>5 DEF CountInv
  <2>7. /\ \A d \in Conns : MayRead(d)' => MayRead(d)
        /\ \A d \in Conns : handler[d] = "none" => handler'[d] = "none"
    BY <2>1 DEF MayRead
  <2> QED  BY <2>1, <2>3, <2>4, <2>6, <2>7, QuietStep
<1>3. CASE Start
  <2>1. /\ held # {} /\ wg' = wg + 1 /\ held' = {}
        /\ handler' = [c \in Conns |-> IF c \in held THEN "reading" ELSE handler[c]]
        /\ UNCHANGED <<sinkVars, wireVars, server, listening, tracked, cut,
                       closing, out>>
    BY <1>3 DEF Start, CountsHandler
  <2>2. PICK c \in Conns : held = {c} /\ handler[c] = "accepted"
    BY <1>0, <2>1 DEF HeldInv
  <2>3. handler'[c] = "reading" /\ \A d \in Conns : d # c => handler'[d] = handler[d]
    BY <2>1, <2>2
  <2>4. ServerType'
    BY <1>0, <2>1 DEF ServerType, HandlerPCs
  <2>5. HeldInv'
    BY <2>1 DEF HeldInv
  <2>6. Active' = Active \union {c} /\ c \notin Active
    BY <2>2, <2>3 DEF Active
  <2>7. CountInv'
    <3>1. Cardinality(Active \union {c}) = Cardinality(Active) + 1
      BY <2>6, ActiveFinite, FS_AddElement
    <3> QED  BY <1>0, <2>1, <2>6, <3>1 DEF CountInv
  <2>8. /\ \A d \in Conns : MayRead(d)' => MayRead(d)
        /\ \A d \in Conns : handler[d] = "none" => handler'[d] = "none"
    BY <2>2, <2>3 DEF MayRead
  <2> QED  BY <2>1, <2>4, <2>5, <2>7, <2>8, QuietStep
<1> QED  BY <1>1, <1>2, <1>3 DEF Serve

LEMMA LeaveStep ==
  ASSUME IInv, NEW c \in Conns, HandlerLeaves(c)
  PROVE  IInv'
<1>0. ServerType /\ HeldInv /\ CountInv /\ handler \in [Conns -> HandlerPCs]
  BY DEF IInv, ServerType
<1>1. /\ handler[c] = "leaving" /\ handler' = [handler EXCEPT ![c] = "done"]
      /\ cut' = cut \union {c} /\ tracked' = tracked \ {c} /\ wg' = wg - 1
      /\ UNCHANGED <<sinkVars, wireVars, server, listening, held, closing, out>>
  BY DEF HandlerLeaves
<1>2. ServerType'
  BY <1>0, <1>1 DEF ServerType, HandlerPCs
<1>3. HeldInv'
  BY <1>0, <1>1 DEF HeldInv
<1>4. Active' = Active \ {c} /\ c \in Active
  BY <1>0, <1>1 DEF Active
<1>5. CountInv'
  <2>1. Cardinality(Active \ {c}) = Cardinality(Active) - 1
    BY <1>4, ActiveFinite, FS_RemoveElement
  <2> QED  BY <1>0, <1>1, <1>4, <2>1 DEF CountInv
<1>6. /\ \A d \in Conns : MayRead(d)' => MayRead(d)
      /\ \A d \in Conns : handler[d] = "none" => handler'[d] = "none"
  BY <1>0, <1>1 DEF MayRead
<1> QED  BY <1>1, <1>2, <1>3, <1>5, <1>6, QuietStep

LEMMA ControlStep ==
  ASSUME IInv, CloseListener \/ Close \/ Crash \/ Listen
  PROVE  IInv'
<1>0. ServerType /\ HeldInv /\ CountInv /\ handler \in [Conns -> HandlerPCs]
      /\ SinkType
  BY DEF IInv, ServerType
<1>1. CASE CloseListener
  <2>1. /\ closing' = "conns" /\ server' = "closed" /\ listening' = FALSE
        /\ cut' = cut \union Backlog
        /\ handler' = [c \in Conns |-> IF c \in Backlog THEN "killed" ELSE handler[c]]
        /\ UNCHANGED <<sinkVars, wireVars, held, tracked, wg, out>>
    BY <1>1 DEF CloseListener
  <2>2. \A c \in Conns : handler'[c] = IF handler[c] = "backlog" THEN "killed"
                                        ELSE handler[c]
    BY <2>1 DEF Backlog
  <2>3. ServerType'
    BY <1>0, <2>1 DEF ServerType, HandlerPCs, Backlog
  <2>4. HeldInv'
    BY <1>0, <2>1, <2>2 DEF HeldInv
  <2>5. Active' = Active
    BY <2>2 DEF Active
  <2>6. CountInv'
    BY <1>0, <2>1, <2>5 DEF CountInv
  <2>7. /\ \A d \in Conns : MayRead(d)' => MayRead(d)
        /\ \A d \in Conns : handler[d] = "none" => handler'[d] = "none"
    BY <2>2 DEF MayRead
  <2> QED  BY <2>1, <2>3, <2>4, <2>6, <2>7, QuietStep
<1>2. CASE Close \/ Listen
  <2>1. /\ UNCHANGED <<sinkVars, wireVars, held, tracked, handler, wg, out>>
        /\ cut' = cut \/ cut' = cut \union tracked
        /\ closing' \in {"no", "conns", "wait", "done"}
        /\ server' \in {"up", "closed", "down"} /\ listening' \in BOOLEAN
    BY <1>0, <1>2 DEF Close, CloseConns, CloseReturns, Listen, ClosesTracked,
                      ServerType
  <2>2. ServerType'
    BY <1>0, <2>1 DEF ServerType
  <2>3. HeldInv' /\ Active' = Active
    BY <1>0, <2>1 DEF HeldInv, Active
  <2>4. CountInv'
    BY <1>0, <2>1, <2>3 DEF CountInv
  <2>5. /\ \A d \in Conns : MayRead(d)' => MayRead(d)
        /\ \A d \in Conns : handler[d] = "none" => handler'[d] = "none"
    BY <2>1 DEF MayRead
  <2> QED  BY <2>1, <2>2, <2>3, <2>4, <2>5, QuietStep
<1>3. CASE Crash
  <2>1. /\ server' = "down" /\ listening' = FALSE
        /\ held' = {} /\ tracked' = {} /\ wg' = 0 /\ cut' = 1 .. dials
        /\ handler' = [c \in Conns |-> IF handler[c] \in {"none", "done"}
                                       THEN handler[c] ELSE "killed"]
        /\ UNCHANGED <<sinkVars, wireVars, closing, out>>
    BY <1>3 DEF Crash
  <2>2. \A c \in Conns : \/ handler'[c] = "killed" /\ handler[c] # "none"
                         \/ handler'[c] = handler[c] /\ handler[c] \in {"none", "done"}
    BY <2>1
  <2>3. 1 .. dials \in SUBSET Conns
    BY <1>0, ForwardingAssumption DEF SinkType, Conns
  <2>4. ServerType'
    BY <1>0, <2>1, <2>3 DEF ServerType, HandlerPCs
  <2>5. HeldInv'
    BY <2>1 DEF HeldInv
  <2>6. Active' = {}
    BY <2>2 DEF Active
  <2>7. CountInv'
    BY <2>1, <2>6, FS_EmptySet DEF CountInv
  <2>8. /\ \A d \in Conns : MayRead(d)' => MayRead(d)
        /\ \A d \in Conns : handler[d] = "none" => handler'[d] = "none"
    BY <2>2 DEF MayRead
  <2> QED  BY <2>1, <2>4, <2>5, <2>7, <2>8, QuietStep
<1> QED  BY <1>1, <1>2, <1>3

-----------------------------------------------------------------------------
(* Cells that come and go.                                                 *)

(* Taking the first line off.                                              *)
LEMMA FramesAdvance ==
  ASSUME NEW p \in Seq(Cell), NEW s \in Seq(Records), NEW o \in Nat, NEW torn,
         FramesOf(p, s, o, torn), Len(p) > 2, o < Len(s)
  PROVE  FramesOf(SubSeq(p, 4, Len(p)), s, o + 1, torn)
<1>1. PICK n \in Nat : n = Len(p)
  OBVIOUS
<1>2. PICK u \in Nat : u = Len(s) - o /\ u > 0
  OBVIOUS
<1>3. PICK q \in Seq(Cell) : /\ q = SubSeq(p, 4, n) /\ Len(q) = n - 3
                             /\ \A k \in 1 .. n - 3 : q[k] = p[k + 3]
  <2> DEFINE q == SubSeq(p, 4, n)
  <2>1. 4 \in 1 .. n + 1 /\ n \in 4 - 1 .. Len(p) /\ n - 4 + 1 = n - 3
    BY <1>1
  <2>2. q \in Seq(Cell) /\ Len(q) = n - 3
    BY <1>1, <2>1, SubSeqProperties
  <2>3. \A k \in 1 .. n - 3 : q[k] = p[k + 3]
    <3> SUFFICES ASSUME NEW k \in 1 .. n - 3 PROVE q[k] = p[k + 3]
      OBVIOUS
    <3>1. q[k] = p[4 + k - 1]
      BY <1>1, <2>1, SubSeqProperties
    <3>2. 4 + k - 1 = k + 3
      OBVIOUS
    <3> QED  BY <3>1, <3>2
  <2> QED  BY <2>2, <2>3
<1>4. Len(s) - (o + 1) = u - 1
  BY <1>2
<1>5. /\ n - 3 * u \in -1 .. 1 /\ (n # 3 * u => torn)
      /\ \A j \in 1 .. u, i \in 1 .. 3 :
           3 * (j - 1) + i <= n => p[3 * (j - 1) + i] = [r |-> s[o + j], i |-> i]
      /\ n = 3 * u + 1 => p[n].i = 1
  BY <1>1, <1>2 DEF FramesOf
<1>6. (n - 3) - 3 * (u - 1) \in -1 .. 1 /\ (n - 3 # 3 * (u - 1) => torn)
  BY <1>5
<1>7. ASSUME NEW j \in 1 .. u - 1, NEW i \in 1 .. 3, 3 * (j - 1) + i <= n - 3
      PROVE  q[3 * (j - 1) + i] = [r |-> s[o + 1 + j], i |-> i]
  <2>1. PICK l \in 1 .. u : l = j + 1
    BY <1>2
  <2>2. p[3 * (l - 1) + i] = [r |-> s[o + l], i |-> i]
    <3>1. 3 * (l - 1) + i <= n
      BY <1>7, <2>1
    <3> QED  BY <1>5, <3>1
  <2>3. 3 * (j - 1) + i \in 1 .. n - 3 /\ 3 * (j - 1) + i + 3 = 3 * (l - 1) + i
    BY <1>7, <2>1
  <2>4. q[3 * (j - 1) + i] = p[3 * (j - 1) + i + 3]
    BY <1>3, <2>3
  <2>5. o + l = o + 1 + j
    BY <2>1
  <2> QED  BY <2>2, <2>3, <2>4, <2>5
<1>8. ASSUME n - 3 = 3 * (u - 1) + 1 PROVE q[n - 3].i = 1
  <2>1. n = 3 * u + 1 /\ n - 3 \in 1 .. n - 3 /\ n - 3 + 3 = n
    BY <1>2, <1>8
  <2> QED  BY <1>3, <1>5, <2>1
<1>9. FramesOf(q, s, o + 1, torn)
  BY <1>3, <1>4, <1>6, <1>7, <1>8 DEF FramesOf
<1> QED  BY <1>1, <1>3, <1>9

-----------------------------------------------------------------------------
(* The steps of a handler that reads.                                      *)

(* A step on one connection that leaves what the sink did alone.           *)
LEMMA ReadStep ==
  ASSUME IInv, NEW c \in Conns, UNCHANGED <<sinkVars, hung, sent>>,
         handler[c] = "reading",
         pipe' \in [Conns -> Seq(Cell)], out' \in [Conns -> Seq(Records)],
         ServerType', HeldInv', CountInv', Prefixed(c)', MayRead(c)' => Framed(c)',
         \A d \in Conns : d # c => /\ pipe'[d] = pipe[d] /\ out'[d] = out[d]
                                  /\ handler'[d] = handler[d]
  PROVE  IInv'
<1>1. /\ records' = records /\ dials' = dials /\ conn' = conn /\ owed' = owed
      /\ fallback' = fallback /\ hung' = hung /\ sent' = sent
  BY DEF sinkVars
<1>2. SinkType' /\ WireType'
  BY <1>1 DEF IInv, SinkType, WireType
<1>3. UnusedInv'
  BY <1>1 DEF IInv, UnusedInv
<1>4. PipeInv'
  <2>1. ASSUME NEW d \in Conns, d # c
        PROVE  /\ Prefixed(d)' = Prefixed(d) /\ Framed(d)' = Framed(d)
               /\ MayRead(d)' = MayRead(d)
    <3>1. pipe'[d] = pipe[d] /\ out'[d] = out[d] /\ handler'[d] = handler[d]
      BY <2>1
    <3>2. Prefixed(d)' = Prefixed(d)
      BY <1>1, <3>1 DEF Prefixed
    <3>3. Framed(d)' = Framed(d)
      BY <1>1, <3>1 DEF Framed
    <3> QED  BY <3>1, <3>2, <3>3 DEF MayRead
  <2> QED  BY <2>1 DEF IInv, PipeInv
<1>5. FateInv'
  BY <1>1 DEF IInv, FateInv, Given
<1> QED  BY <1>2, <1>3, <1>4, <1>5 DEF IInv

(* The first record not delivered is one.                                  *)
LEMMA NextRecord ==
  ASSUME IInv, NEW c \in Conns, Undelivered(c) > 0
  PROVE  /\ Len(out[c]) + 1 \in 1 .. Len(sent[c])
         /\ sent[c][Len(out[c]) + 1] \in Records
<1>1. /\ sent[c] \in Seq(1 .. records) /\ Len(sent[c]) \in Nat
      /\ Len(out[c]) \in Nat
  BY DEF IInv, WireType
<1>2. Len(out[c]) + 1 \in 1 .. Len(sent[c])
  <2>1. \A s, o \in Nat : s - o > 0 => o + 1 \in 1 .. s
    OBVIOUS
  <2> QED  BY <1>1, <2>1 DEF Undelivered
<1>3. sent[c][Len(out[c]) + 1] \in 1 .. records
  BY <1>1, <1>2, SeqFacts
<1>4. 1 .. records \in SUBSET Records
  BY ForwardingAssumption DEF IInv, SinkType, Records
<1> QED  BY <1>2, <1>3, <1>4

(* Delivering the first record not delivered.                              *)
LEMMA DeliverNext ==
  ASSUME IInv, NEW c \in Conns, Undelivered(c) > 0, sent' = sent,
         out' = [out EXCEPT ![c] = @ \o <<sent[c][Len(out[c]) + 1]>>]
  PROVE  /\ out' \in [Conns -> Seq(Records)]
         /\ \A d \in Conns : d # c => out'[d] = out[d]
         /\ Len(out'[c]) = Len(out[c]) + 1
         /\ Prefixed(c)'
<1>1. PICK x \in Records : x = sent[c][Len(out[c]) + 1]
  BY NextRecord
<1>2. PICK o \in Nat : o = Len(out[c]) /\ o + 1 \in 1 .. Len(sent[c])
  <2>1. Len(out[c]) \in Nat
    BY DEF IInv, WireType
  <2> QED  BY <2>1, NextRecord
<1>3. out[c] \in Seq(Records) /\ out \in [Conns -> Seq(Records)]
  BY DEF IInv, WireType
<1>4. PICK q \in Seq(Records) : /\ q = out[c] \o <<x>> /\ Len(q) = o + 1
                                /\ q[o + 1] = x
                                /\ \A k \in 1 .. o : q[k] = out[c][k]
  <2>1. /\ Append(out[c], x) \in Seq(Records) /\ out[c] \o <<x>> = Append(out[c], x)
        /\ Len(Append(out[c], x)) = Len(out[c]) + 1
        /\ Append(out[c], x)[Len(out[c]) + 1] = x
        /\ \A k \in 1 .. Len(out[c]) : Append(out[c], x)[k] = out[c][k]
    BY <1>3, SeqFacts
  <2> QED  BY <1>2, <2>1
<1>5. /\ out'[c] = q /\ \A d \in Conns : d # c => out'[d] = out[d]
      /\ out' \in [Conns -> Seq(Records)]
  BY <1>1, <1>3, <1>4
<1>6. Prefixed(c)'
  <2>1. Len(out'[c]) = o + 1 /\ o + 1 <= Len(sent[c])
    <3>1. Len(sent[c]) \in Nat
      BY DEF IInv, WireType
    <3> QED  BY <1>2, <1>4, <1>5, <3>1
  <2>2. ASSUME NEW k \in 1 .. o + 1 PROVE out'[c][k] = sent[c][k]
    <3>1. CASE k = o + 1
      BY <1>1, <1>2, <1>4, <1>5, <3>1
    <3>2. CASE k # o + 1
      <4>1. k \in 1 .. o
        BY <3>2
      <4>2. \A l \in 1 .. o : out[c][l] = sent[c][l]
        BY <1>2 DEF IInv, PipeInv, Prefixed
      <4> QED  BY <1>4, <1>5, <4>1, <4>2
    <3> QED  BY <3>1, <3>2
  <2> QED  BY <2>1, <2>2 DEF Prefixed
<1> QED  BY <1>2, <1>4, <1>5, <1>6

LEMMA LineStep ==
  ASSUME IInv, NEW c \in Conns, HandleLine(c)
  PROVE  IInv'
<1> DEFINE x == sent[c][Len(out[c]) + 1]
<1>0. WireType /\ ServerType /\ HeldInv /\ CountInv
  BY DEF IInv
<1>1. /\ handler[c] = "reading" /\ Newlines(c) # {}
      /\ Deliver(c, SubSeq(pipe[c], 1, Min(Newlines(c))))
      /\ pipe' = [pipe EXCEPT ![c] = SubSeq(@, Min(Newlines(c)) + 1, Len(@))]
      /\ UNCHANGED <<sinkVars, hung, sent, serverVars>>
  BY DEF HandleLine
<1>2. Prefixed(c) /\ Framed(c)
  BY <1>1 DEF IInv, PipeInv, MayRead
<1>3. /\ Undelivered(c) > 0 /\ Len(pipe[c]) > 2 /\ Min(Newlines(c)) = 3
      /\ SubSeq(pipe[c], 1, 3) = Cells(x, 3)
  BY <1>0, <1>1, <1>2, FirstLine
<1>4. x \in Records /\ Len(out[c]) + 1 \in 1 .. Len(sent[c])
  BY <1>3, NextRecord
<1>5. out' = [out EXCEPT ![c] = @ \o <<x>>]
  <2>1. 3 \in 2 .. 3
    OBVIOUS
  <2>2. Decoded(Cells(x, 3)) = {x}
    BY <1>4, <2>1, DecodedLines
  <2>3. SetToSeq(Decoded(SubSeq(pipe[c], 1, Min(Newlines(c))))) = <<x>>
    BY <1>3, <2>2, SmallSetToSeq
  <2> QED  BY <1>1, <2>3 DEF Deliver
<1>6. /\ out' \in [Conns -> Seq(Records)]
      /\ \A d \in Conns : d # c => out'[d] = out[d]
      /\ Len(out'[c]) = Len(out[c]) + 1
      /\ Prefixed(c)'
  BY <1>1, <1>3, <1>5, DeliverNext
<1>7. /\ pipe \in [Conns -> Seq(Cell)] /\ pipe[c] \in Seq(Cell)
      /\ sent[c] \in Seq(Records) /\ Len(out[c]) \in Nat
  <2>1. sent[c] \in Seq(1 .. records) /\ 1 .. records \in SUBSET Records
    BY ForwardingAssumption DEF IInv, WireType, SinkType, Records
  <2>2. sent[c] \in Seq(Records)
    BY <2>1, SeqFacts
  <2> QED  BY <1>0, <2>2 DEF WireType
<1>8. SubSeq(pipe[c], 4, Len(pipe[c])) \in Seq(Cell)
  BY <1>7, <1>3, SubSeqProperties
<1>9. /\ pipe' \in [Conns -> Seq(Cell)]
      /\ pipe'[c] = SubSeq(pipe[c], 4, Len(pipe[c]))
      /\ \A d \in Conns : d # c => pipe'[d] = pipe[d]
  <2>1. pipe' = [pipe EXCEPT ![c] = SubSeq(pipe[c], 4, Len(pipe[c]))]
    BY <1>1, <1>3
  <2> QED  BY <1>7, <1>8, <2>1
<1>10. Framed(c)'
  <2>1. FramesOf(pipe[c], sent[c], Len(out[c]), c \in hung)
    BY <1>2 DEF Framed
  <2>2. Len(out[c]) < Len(sent[c])
    BY <1>4, <1>7
  <2>3. FramesOf(SubSeq(pipe[c], 4, Len(pipe[c])), sent[c], Len(out[c]) + 1, c \in hung)
    BY <1>3, <1>7, <2>1, <2>2, FramesAdvance
  <2>4. sent' = sent /\ hung' = hung
    BY <1>1
  <2> QED  BY <1>6, <1>9, <2>3, <2>4 DEF Framed
<1>11. ServerType' /\ HeldInv' /\ CountInv' /\ handler' = handler
  <2>1. /\ server' = server /\ listening' = listening /\ held' = held
        /\ tracked' = tracked /\ cut' = cut /\ handler' = handler /\ wg' = wg
        /\ closing' = closing
    BY <1>1 DEF serverVars
  <2>2. Active' = Active
    BY <2>1 DEF Active
  <2> QED  BY <1>0, <2>1, <2>2 DEF ServerType, HeldInv, CountInv
<1> QED  BY <1>1, <1>6, <1>9, <1>10, <1>11, ReadStep

(* The handler reads the end of the stream.                                *)
LEMMA EndStep ==
  ASSUME IInv, NEW c \in Conns, NEW n \in 0 .. Len(pipe[c]), HandleEnd(c, n)
  PROVE  IInv'
<1> DEFINE line == SetToSeq(Decoded(SubSeq(pipe[c], 1, n)))
<1>0. WireType /\ ServerType /\ HeldInv /\ CountInv
      /\ handler \in [Conns -> HandlerPCs]
  BY DEF IInv, ServerType
<1>1. /\ handler[c] = "reading" /\ Newlines(c) \intersect 1 .. n = {}
      /\ out' = [out EXCEPT ![c] = @ \o line]
      /\ pipe' = [pipe EXCEPT ![c] = <<>>]
      /\ handler' = [handler EXCEPT ![c] = "leaving"]
      /\ UNCHANGED <<sinkVars, hung, sent, server, listening, held, tracked,
                     cut, wg, closing>>
  BY DEF HandleEnd, RestDelivered, Deliver
<1>2. Prefixed(c) /\ Framed(c)
  BY <1>1 DEF IInv, PipeInv, MayRead
<1>3. \/ line = <<>>
      \/ Undelivered(c) > 0 /\ line = <<sent[c][Len(out[c]) + 1]>>
  BY <1>0, <1>1, <1>2, RestLine
<1> HIDE DEF line
<1>4. /\ out' \in [Conns -> Seq(Records)]
      /\ \A d \in Conns : d # c => out'[d] = out[d]
      /\ Prefixed(c)'
  <2>1. CASE line = <<>>
    <3>1. out \in [Conns -> Seq(Records)] /\ out[c] \o <<>> = out[c]
      BY <1>0 DEF WireType
    <3>2. out' = out /\ sent' = sent
      BY <1>1, <2>1, <3>1
    <3> QED  BY <1>2, <3>1, <3>2 DEF Prefixed
  <2>2. CASE Undelivered(c) > 0 /\ line = <<sent[c][Len(out[c]) + 1]>>
    BY <1>1, <2>2, DeliverNext
  <2> QED  BY <1>3, <2>1, <2>2
<1>5. /\ pipe' \in [Conns -> Seq(Cell)]
      /\ \A d \in Conns : d # c => pipe'[d] = pipe[d]
  BY <1>0, <1>1 DEF WireType
<1>6. handler'[c] = "leaving" /\ \A d \in Conns : d # c => handler'[d] = handler[d]
  BY <1>0, <1>1
<1>7. ServerType'
  BY <1>0, <1>1 DEF ServerType, HandlerPCs
<1>8. HeldInv'
  BY <1>0, <1>1, <1>6 DEF HeldInv
<1>9. Active' = Active
  BY <1>1, <1>6 DEF Active
<1>10. CountInv'
  BY <1>0, <1>1, <1>9 DEF CountInv
<1>11. ~MayRead(c)'
  BY <1>6 DEF MayRead
<1> QED  BY <1>1, <1>4, <1>5, <1>6, <1>7, <1>8, <1>10, <1>11, ReadStep

-----------------------------------------------------------------------------
(* The steps of the sink.                                                  *)

LEMMA RecordsSoFar ==
  ASSUME SinkType
  PROVE  records \in Nat /\ 1 .. records \in SUBSET Records
BY ForwardingAssumption DEF SinkType, Records

LEMMA ToSetAppend ==
  ASSUME NEW S, NEW s \in Seq(S), NEW x \in S
  PROVE  /\ ToSet(Append(s, x)) = ToSet(s) \union {x}
         /\ Append(s, x)[Len(Append(s, x))] = x
         /\ ToSet(s) \in SUBSET S
<1>1. PICK n \in Nat : n = Len(s)
  OBVIOUS
<1>2. PICK q \in Seq(S) : /\ q = Append(s, x) /\ Len(q) = n + 1 /\ q[n + 1] = x
                          /\ \A k \in 1 .. n : q[k] = s[k]
  <2>1. /\ Append(s, x) \in Seq(S) /\ Len(Append(s, x)) = Len(s) + 1
        /\ Append(s, x)[Len(s) + 1] = x
        /\ \A k \in 1 .. Len(s) : Append(s, x)[k] = s[k]
    BY SeqFacts
  <2> QED  BY <1>1, <2>1
<1>3. DOMAIN s = 1 .. n /\ DOMAIN q = 1 .. n + 1
  BY <1>1, <1>2
<1>4. \A k \in 1 .. n + 1 : k \in 1 .. n \/ k = n + 1
  OBVIOUS
<1>5. \A k \in 1 .. n : k \in 1 .. n + 1
  OBVIOUS
<1>6. n + 1 \in 1 .. n + 1
  OBVIOUS
<1>7. ToSet(q) = ToSet(s) \union {x}
  BY <1>2, <1>3, <1>4, <1>5, <1>6 DEF ToSet
<1>8. ToSet(s) \in SUBSET S
  BY <1>1, <1>3 DEF ToSet
<1> QED  BY <1>2, <1>7, <1>8

(* The cells of one record: n of them, in order.                           *)
LEMMA CellsFacts ==
  ASSUME NEW x \in Records, NEW n \in 0 .. 3
  PROVE  /\ Cells(x, n) \in Seq(Cell) /\ Len(Cells(x, n)) = n
         /\ \A i \in 1 .. n : Cells(x, n)[i] = [r |-> x, i |-> i]
<1>1. \A i \in 1 .. n : [r |-> x, i |-> i] \in Cell
  BY DEF Cell
<1>2. \A i \in 1 .. n : Cells(x, n)[i] = [r |-> x, i |-> i]
  BY DEF Cells
<1>3. Cells(x, n) \in [1 .. n -> Cell]
  BY <1>1 DEF Cells
<1>4. n \in Nat
  OBVIOUS
<1>5. Cells(x, n) \in Seq(Cell)
  BY <1>3, <1>4
<1>6. DOMAIN Cells(x, n) = 1 .. n
  BY DEF Cells
<1>7. Len(Cells(x, n)) = n
  BY <1>4, <1>5, <1>6, LenProperties
<1> QED  BY <1>2, <1>5, <1>7

(* A sequence, and what is appended to it.                                 *)
LEMMA ConcatFacts ==
  ASSUME NEW S, NEW s \in Seq(S), NEW t \in Seq(S)
  PROVE  /\ s \o t \in Seq(S) /\ Len(s \o t) = Len(s) + Len(t)
         /\ \A k \in 1 .. Len(s) : (s \o t)[k] = s[k]
         /\ \A i \in 1 .. Len(t) : (s \o t)[Len(s) + i] = t[i]
<1>1. PICK m \in Nat, n \in Nat, q \in Seq(S) : m = Len(s) /\ n = Len(t) /\ q = s \o t
  <2>1. Len(s) \in Nat /\ Len(t) \in Nat
    BY LenProperties
  <2>2. s \o t \in Seq(S)
    BY ConcatProperties
  <2> QED  BY <2>1, <2>2, Zenon
<1>2. /\ q \in Seq(S) /\ Len(q) = m + n
      /\ \A i \in 1 .. m + n : q[i] = IF i <= m THEN s[i] ELSE t[i - m]
  BY <1>1, ConcatProperties, Zenon
<1>3. \A k \in 1 .. m : k \in 1 .. m + n /\ k <= m
  OBVIOUS
<1>4. \A k \in 1 .. m : q[k] = s[k]
  BY <1>2, <1>3, Zenon
<1>5. \A i \in 1 .. n : m + i \in 1 .. m + n /\ ~(m + i <= m) /\ (m + i) - m = i
  OBVIOUS
<1>6. \A i \in 1 .. n : q[m + i] = t[i]
  BY <1>2, <1>5
<1> QED  BY <1>1, <1>2, <1>4, <1>6, Zenon

(* n cells more, all three or the last of a connection.                    *)
LEMMA FramesExtend ==
  ASSUME NEW p \in Seq(Cell), NEW s \in Seq(Records), NEW o \in Nat, o <= Len(s),
         FramesOf(p, s, o, FALSE), NEW x \in Records, NEW n \in 0 .. 3,
         NEW torn, n # 3 => torn
  PROVE  FramesOf(p \o Cells(x, n), IF Whole(n) THEN Append(s, x) ELSE s, o, torn)
<1>1. PICK u \in Nat : u = Len(s) - o
  OBVIOUS
<1>2. /\ Len(p) = 3 * u
      /\ \A j \in 1 .. u, i \in 1 .. 3 :
           3 * (j - 1) + i <= Len(p) => p[3 * (j - 1) + i] = [r |-> s[o + j], i |-> i]
  BY <1>1 DEF FramesOf
<1>3. Cells(x, n) \in Seq(Cell) /\ Len(Cells(x, n)) = n
      /\ \A i \in 1 .. n : Cells(x, n)[i] = [r |-> x, i |-> i]
  BY CellsFacts
<1>4. PICK q \in Seq(Cell) : /\ q = p \o Cells(x, n) /\ Len(q) = 3 * u + n
                             /\ \A k \in 1 .. 3 * u : q[k] = p[k]
                             /\ \A i \in 1 .. n : q[3 * u + i] = [r |-> x, i |-> i]
  <2>1. PICK t \in Seq(Cell) : /\ t = Cells(x, n) /\ Len(t) = n
                               /\ \A i \in 1 .. n : t[i] = [r |-> x, i |-> i]
    BY <1>3
  <2>2. PICK m \in Nat : m = 3 * u /\ m = Len(p)
    BY <1>2
  <2>3. /\ p \o t \in Seq(Cell) /\ Len(p \o t) = m + n
        /\ \A k \in 1 .. m : (p \o t)[k] = p[k]
        /\ \A i \in 1 .. n : (p \o t)[m + i] = t[i]
    <3>1. /\ p \o t \in Seq(Cell) /\ Len(p \o t) = Len(p) + Len(t)
          /\ \A k \in 1 .. Len(p) : (p \o t)[k] = p[k]
          /\ \A i \in 1 .. Len(t) : (p \o t)[Len(p) + i] = t[i]
      BY ConcatFacts
    <3>2. Len(p) = m /\ Len(t) = n
      BY <2>1, <2>2, Zenon
    <3> QED  BY <3>1, <3>2, Zenon
  <2>4. PICK q \in Seq(Cell) : q = p \o t
    BY <2>3
  <2>5. Len(q) = 3 * u + n
    BY <2>2, <2>3, <2>4
  <2>6. \A k \in 1 .. 3 * u : q[k] = p[k]
    BY <2>2, <2>3, <2>4
  <2>7. \A i \in 1 .. n : q[3 * u + i] = [r |-> x, i |-> i]
    <3>1. \A i \in 1 .. n : q[m + i] = t[i]
      BY <2>3, <2>4
    <3>2. \A i \in 1 .. n : q[m + i] = [r |-> x, i |-> i]
      BY <2>1, <3>1
    <3> QED  BY <2>2, <3>2
  <2>8. q = p \o Cells(x, n)
    BY <2>1, <2>4
  <2> QED  BY <2>5, <2>6, <2>7, <2>8
<1>5. ASSUME NEW j \in 1 .. u, NEW i \in 1 .. 3
      PROVE  q[3 * (j - 1) + i] = [r |-> s[o + j], i |-> i]
  <2>1. 3 * (j - 1) + i \in 1 .. 3 * u
    OBVIOUS
  <2>2. p[3 * (j - 1) + i] = [r |-> s[o + j], i |-> i]
    <3>1. 3 * (j - 1) + i <= Len(p)
      BY <1>2, <2>1
    <3> QED  BY <1>2, <3>1
  <2> QED  BY <1>4, <2>1, <2>2
<1>6. CASE n \in 0 .. 1
  <2>1. ~Whole(n)
    BY <1>6 DEF Whole
  <2>2. Len(q) - 3 * u \in -1 .. 1
    BY <1>4, <1>6
  <2>3. torn
    BY <1>6
  <2>4. ASSUME Len(q) = 3 * u + 1 PROVE q[Len(q)].i = 1
    <3>1. n = 1 /\ 1 \in 1 .. n
      BY <1>4, <2>4
    <3>2. q[3 * u + 1] = [r |-> x, i |-> 1]
      BY <1>4, <3>1
    <3> QED  BY <2>4, <3>2
  <2>5. FramesOf(q, s, o, torn)
    BY <1>1, <1>5, <2>2, <2>3, <2>4 DEF FramesOf
  <2> QED  BY <1>4, <2>1, <2>5
<1>7. CASE n \in 2 .. 3
  <2>1. Whole(n)
    BY <1>7 DEF Whole
  <2>2. PICK m \in Nat : m = Len(s) /\ m = o + u
    BY <1>1
  <2>3. PICK t \in Seq(Records) : /\ t = Append(s, x) /\ Len(t) = m + 1
                                  /\ t[m + 1] = x
                                  /\ \A k \in 1 .. m : t[k] = s[k]
    <3>1. /\ Append(s, x) \in Seq(Records) /\ Len(Append(s, x)) = Len(s) + 1
          /\ Append(s, x)[Len(s) + 1] = x
          /\ \A k \in 1 .. Len(s) : Append(s, x)[k] = s[k]
      BY SeqFacts
    <3> QED  BY <2>2, <3>1
  <2>4. Len(t) - o = u + 1
    BY <2>2, <2>3
  <2>5. Len(q) - 3 * (u + 1) \in -1 .. 1 /\ (Len(q) # 3 * (u + 1) => torn)
        /\ Len(q) # 3 * (u + 1) + 1
    BY <1>4, <1>7
  <2>6. ASSUME NEW j \in 1 .. u + 1, NEW i \in 1 .. 3, 3 * (j - 1) + i <= Len(q)
        PROVE  q[3 * (j - 1) + i] = [r |-> t[o + j], i |-> i]
    <3>1. CASE j = u + 1
      <4>1. 3 * (j - 1) + i = 3 * u + i /\ i \in 1 .. n /\ o + j = m + 1
        BY <1>4, <2>2, <2>6, <3>1
      <4> QED  BY <1>4, <2>3, <4>1
    <3>2. CASE j # u + 1
      <4>1. j \in 1 .. u /\ o + j \in 1 .. m
        BY <2>2, <3>2
      <4> QED  BY <1>5, <2>3, <4>1
    <3> QED  BY <3>1, <3>2
  <2>7. FramesOf(q, t, o, torn)
    BY <2>4, <2>5, <2>6 DEF FramesOf
  <2> QED  BY <1>4, <2>1, <2>3, <2>7
<1> QED  BY <1>6, <1>7


(* A step that puts nothing on a connection.                               *)
LEMMA StillStep ==
  ASSUME IInv, UNCHANGED <<dials, pipe, sent, serverVars, out>>, SinkType', FateInv',
         hung \subseteq hung', records' \in {records, records + 1}
  PROVE  IInv'
<1>1. /\ dials' = dials /\ pipe' = pipe /\ sent' = sent /\ out' = out
      /\ server' = server /\ listening' = listening /\ held' = held
      /\ tracked' = tracked /\ cut' = cut /\ handler' = handler /\ wg' = wg
      /\ closing' = closing
  BY DEF serverVars
<1>2. Active' = Active
  BY <1>1 DEF Active
<1>3. ServerType' /\ HeldInv' /\ CountInv' /\ UnusedInv'
  BY <1>1, <1>2 DEF IInv, ServerType, HeldInv, CountInv, UnusedInv
<1>4. WireType'
  <2>1. 1 .. records \in SUBSET (1 .. records')
    BY RecordsSoFar DEF IInv
  <2>2. ASSUME NEW c \in Conns PROVE sent[c] \in Seq(1 .. records')
    <3>1. sent[c] \in Seq(1 .. records)
      BY DEF IInv, WireType
    <3> QED  BY <2>1, <3>1, SeqFacts
  <2>3. sent \in [Conns -> Seq(1 .. records')]
    BY <2>2 DEF IInv, WireType
  <2> QED  BY <1>1, <2>3 DEF IInv, WireType
<1>5. PipeInv'
  <2> SUFFICES ASSUME NEW c \in Conns
               PROVE  Prefixed(c)' /\ (MayRead(c)' => Framed(c)')
    BY DEF PipeInv
  <2>1. Prefixed(c) /\ (MayRead(c) => Framed(c))
    BY DEF IInv, PipeInv
  <2>2. Prefixed(c)' /\ MayRead(c)' = MayRead(c)
    BY <1>1, <2>1 DEF Prefixed, MayRead
  <2>3. ASSUME Framed(c) PROVE Framed(c)'
    <3>1. FramesOf(pipe[c], sent[c], Len(out[c]), c \in hung)
      BY <2>3 DEF Framed
    <3>2. FramesOf(pipe[c], sent[c], Len(out[c]), c \in hung')
      BY <3>1 DEF FramesOf
    <3> QED  BY <1>1, <3>2 DEF Framed
  <2> QED  BY <2>1, <2>2, <2>3
<1> QED  BY <1>3, <1>4, <1>5 DEF IInv

(* The record of a Write that begins is new.                               *)
LEMMA NewIsNew ==
  ASSUME IInv
  PROVE  /\ records + 1 \notin Given
         /\ \A c \in Conns : records + 1 \notin ToSet(sent[c])
<1>1. records \in Nat /\ records + 1 \notin 1 .. records
  BY RecordsSoFar DEF IInv
<1>2. \A t \in Seq(1 .. records) : ToSet(t) \in SUBSET (1 .. records)
  <2> SUFFICES ASSUME NEW t \in Seq(1 .. records), NEW k \in DOMAIN t
               PROVE  t[k] \in 1 .. records
    BY DEF ToSet
  <2>1. k \in 1 .. Len(t)
    OBVIOUS
  <2> QED  BY <2>1, SeqFacts
<1>3. \A c \in Conns : sent[c] \in Seq(1 .. records)
  BY DEF IInv, WireType
<1>4. fallback \in Seq(1 .. records) /\ owed \in SUBSET (1 .. records)
  BY DEF IInv, SinkType
<1> QED  BY <1>1, <1>2, <1>3, <1>4 DEF Given

LEMMA UnreachedStep ==
  ASSUME IInv, WriteUnreached
  PROVE  IInv'
<1>1. /\ conn = 0 /\ records < MaxRecords /\ records' = records + 1
      /\ owed' = owed \union {records + 1}
      /\ UNCHANGED <<dials, conn, fallback, wireVars, serverVars, out>>
  BY DEF WriteUnreached, NewRecord, OweFailedDial
<1>2. dials' = dials /\ conn' = conn /\ fallback' = fallback /\ hung' = hung
      /\ sent' = sent /\ pipe' = pipe
  BY <1>1 DEF wireVars
<1>3. SinkType /\ records \in Nat /\ MaxRecords \in Nat
  BY RecordsSoFar, ForwardingAssumption DEF IInv
<1>4. 1 .. records \in SUBSET (1 .. records + 1) /\ records + 1 \in 1 .. records + 1
  BY <1>3
<1>5. SinkType'
  <2>1. fallback \in Seq(1 .. records + 1)
    BY <1>3, <1>4, SeqFacts DEF SinkType
  <2>2. records + 1 \in 0 .. MaxRecords
    BY <1>1, <1>3
  <2>3. owed \union {records + 1} \in SUBSET (1 .. records + 1)
    BY <1>3, <1>4 DEF SinkType
  <2> QED  BY <1>1, <1>2, <1>3, <2>1, <2>2, <2>3 DEF SinkType
<1>6. Given' = Given \union {records + 1}
  BY <1>1, <1>2 DEF Given
<1>7. FateInv'
  <2>1. \A y \in 1 .. records + 1 : y \in 1 .. records \/ y = records + 1
    BY <1>3
  <2>2. \A y \in (1 .. records + 1) \ Given' : \E c \in Conns : y \in ToSet(sent[c])
    BY <1>6, <2>1 DEF IInv, FateInv
  <2>3. \A y \in Given', c \in Conns :
          y \in ToSet(sent[c]) => c \in hung /\ y = sent[c][Len(sent[c])]
    BY <1>6, NewIsNew DEF IInv, FateInv
  <2> QED  BY <1>1, <1>2, <2>2, <2>3 DEF FateInv
<1> QED  BY <1>1, <1>2, <1>5, <1>7, StillStep

LEMMA FallbackStep ==
  ASSUME IInv, NEW x \in Records, WriteFallback(x)
  PROVE  IInv'
<1>1. /\ x \in owed /\ owed' = owed \ {x} /\ fallback' = Append(fallback, x)
      /\ UNCHANGED <<records, dials, conn, wireVars, serverVars, out>>
  BY DEF WriteFallback
<1>2. dials' = dials /\ conn' = conn /\ records' = records /\ hung' = hung
      /\ sent' = sent /\ pipe' = pipe
  BY <1>1 DEF wireVars
<1>3. SinkType /\ fallback \in Seq(1 .. records) /\ x \in 1 .. records
  BY <1>1 DEF IInv, SinkType
<1>4. Append(fallback, x) \in Seq(1 .. records)
      /\ ToSet(Append(fallback, x)) = ToSet(fallback) \union {x}
  <2>1. Append(fallback, x) \in Seq(1 .. records)
    BY <1>3, SeqFacts
  <2>2. ToSet(Append(fallback, x)) = ToSet(fallback) \union {x}
    <3>1. PICK S : fallback \in Seq(S) /\ x \in S
      BY <1>3
    <3> QED  BY <3>1, ToSetAppend
  <2> QED  BY <2>1, <2>2
<1>5. SinkType'
  BY <1>1, <1>2, <1>3, <1>4 DEF SinkType
<1>6. Given' = Given
  BY <1>1, <1>4 DEF Given
<1>7. FateInv'
  BY <1>2, <1>6 DEF IInv, FateInv
<1> QED  BY <1>1, <1>2, <1>5, <1>7, StillStep

LEMMA SinkCloseStep ==
  ASSUME IInv, SinkClose
  PROVE  IInv'
<1>1. /\ conn # 0 /\ conn' = 0 /\ hung' = hung \union {conn}
      /\ UNCHANGED <<records, dials, owed, fallback, pipe, sent, serverVars, out>>
  BY DEF SinkClose
<1>2. SinkType'
  <2>1. SinkType /\ dials \in Nat
    BY ForwardingAssumption DEF IInv, SinkType
  <2>2. conn \in 1 .. dials /\ 0 \in 0 .. dials /\ 0 \notin 1 .. dials
    BY <1>1, <2>1 DEF SinkType
  <2>3. hung' \in SUBSET (1 .. dials)
    BY <1>1, <2>1, <2>2 DEF SinkType
  <2>4. conn' \in 0 .. dials /\ conn' \notin hung'
    BY <1>1, <2>2, <2>3
  <2> QED  BY <1>1, <2>1, <2>3, <2>4 DEF SinkType
<1>3. FateInv'
  BY <1>1 DEF IInv, FateInv, Given
<1> QED  BY <1>1, <1>2, <1>3, StillStep

(* The record of a Write goes out on connection c: n cells of it.          *)
LEMMA SendStep ==
  ASSUME IInv, NEW c \in Conns, NEW n \in 0 .. 3, c \notin hung,
         records < MaxRecords, records' = records + 1,
         Transmit(c, records + 1, n),
         hung' = IF n = 3 THEN hung ELSE hung \union {c},
         owed' = IF n = 3 THEN owed ELSE owed \union {records + 1},
         conn' = IF n = 3 THEN c ELSE 0,
         UNCHANGED <<fallback, out>>,
         dials' \in 0 .. MaxDials, dials <= dials', c <= dials',
         ServerType', HeldInv', CountInv', MayRead(c)' => MayRead(c),
         \A d \in Conns : d # c => handler'[d] = handler[d]
  PROVE  IInv'
<1> DEFINE t == IF Whole(n) THEN Append(sent[c], records + 1) ELSE sent[c]
<1>1. /\ SinkType /\ WireType /\ PipeInv /\ FateInv /\ UnusedInv
      /\ records \in Nat /\ MaxRecords \in Nat /\ MaxDials \in Nat /\ dials \in Nat
      /\ dials' \in Nat
  BY RecordsSoFar, ForwardingAssumption DEF IInv, SinkType
<1>2. /\ 1 .. records \in SUBSET (1 .. records + 1) /\ records + 1 \in 1 .. records + 1
      /\ 1 .. records \in SUBSET Records /\ records + 1 \in Records
      /\ records + 1 \in 0 .. MaxRecords
      /\ \A y \in 1 .. records + 1 : y \in 1 .. records \/ y = records + 1
  BY <1>1 DEF Records
<1>3. c \in 1 .. dials' /\ 1 .. dials \in SUBSET (1 .. dials')
  BY <1>1 DEF Conns
<1>4. SinkType'
  <2>1. fallback \in Seq(1 .. records + 1)
    BY <1>1, <1>2, SeqFacts DEF SinkType
  <2>2. owed' \in SUBSET (1 .. records + 1)
    BY <1>1, <1>2 DEF SinkType
  <2>3. hung' \in SUBSET (1 .. dials')
    BY <1>1, <1>3 DEF SinkType
  <2>4. conn' \in 0 .. dials' /\ conn' \notin hung'
    <3>1. CASE n = 3
      BY <1>1, <1>3, <3>1
    <3>2. CASE n # 3
      <4>1. 0 \notin 1 .. dials' /\ 0 \in 0 .. dials'
        BY <1>1
      <4> QED  BY <2>3, <3>2, <4>1
    <3> QED  BY <3>1, <3>2
  <2> QED  BY <1>2, <2>1, <2>2, <2>3, <2>4 DEF SinkType
<1>5. /\ pipe' = [pipe EXCEPT ![c] = @ \o Cells(records + 1, n)]
      /\ sent' = [sent EXCEPT ![c] = t]
  <2>1. sent = [sent EXCEPT ![c] = sent[c]]
    BY <1>1 DEF WireType
  <2> QED  BY <2>1 DEF Transmit
<1>6. /\ pipe[c] \in Seq(Cell) /\ sent[c] \in Seq(1 .. records)
      /\ sent[c] \in Seq(1 .. records + 1) /\ sent[c] \in Seq(Records)
      /\ t \in Seq(1 .. records + 1) /\ Len(out[c]) \in Nat
  <2>1. pipe[c] \in Seq(Cell) /\ sent[c] \in Seq(1 .. records) /\ Len(out[c]) \in Nat
    BY <1>1 DEF WireType
  <2>2. sent[c] \in Seq(1 .. records + 1) /\ sent[c] \in Seq(Records)
    <3>1. PICK S : S = 1 .. records /\ sent[c] \in Seq(S)
      BY <2>1
    <3>2. S \in SUBSET (1 .. records + 1)
      BY <1>2, <3>1
    <3>3. S \in SUBSET Records
      BY <1>2, <3>1
    <3>4. sent[c] \in Seq(1 .. records + 1)
      BY <3>1, <3>2, SeqWiden
    <3>5. sent[c] \in Seq(Records)
      BY <3>1, <3>3, SeqWiden
    <3> QED  BY <3>4, <3>5
  <2>3. Append(sent[c], records + 1) \in Seq(1 .. records + 1)
    BY <1>2, <2>2, SeqFacts
  <2> QED  BY <2>1, <2>2, <2>3
<1>7. pipe[c] \o Cells(records + 1, n) \in Seq(Cell)
  <2>1. \A x \in Records : Cells(x, n) \in Seq(Cell)
    BY CellsFacts
  <2>2. Cells(records + 1, n) \in Seq(Cell)
    BY <1>2, <2>1
  <2> QED  BY <1>6, <2>2
<1> HIDE DEF t
<1>8. /\ pipe'[c] = pipe[c] \o Cells(records + 1, n) /\ sent'[c] = t
      /\ \A d \in Conns : d # c => pipe'[d] = pipe[d] /\ sent'[d] = sent[d]
  BY <1>1, <1>5 DEF WireType
<1>9. WireType'
  <2>1. ASSUME NEW d \in Conns PROVE sent'[d] \in Seq(1 .. records + 1)
    <3>1. sent[d] \in Seq(1 .. records)
      BY <1>1 DEF WireType
    <3>2. sent[d] \in Seq(1 .. records + 1)
      <4>1. PICK S : S = 1 .. records /\ sent[d] \in Seq(S)
        BY <3>1
      <4>2. S \in SUBSET (1 .. records + 1)
        BY <1>2, <4>1
      <4> QED  BY <4>1, <4>2, SeqWiden
    <3> QED  BY <1>6, <1>8, <3>2
  <2>2. sent' \in [Conns -> Seq(1 .. records + 1)]
    BY <1>1, <1>5, <2>1 DEF WireType
  <2>3. pipe' \in [Conns -> Seq(Cell)]
    BY <1>1, <1>5, <1>7 DEF WireType
  <2> QED  BY <1>1, <2>2, <2>3 DEF WireType
<1>10. UnusedInv'
  <2> SUFFICES ASSUME NEW d \in Conns, d > dials'
               PROVE  /\ pipe'[d] = <<>> /\ sent'[d] = <<>> /\ out'[d] = <<>>
                      /\ handler'[d] = "none"
    BY DEF UnusedInv
  <2>1. d # c /\ d > dials
    BY <1>1 DEF Conns
  <2> QED  BY <1>1, <1>8, <2>1 DEF UnusedInv
<1>11. Prefixed(c)'
  <2>1. Prefixed(c)
    BY <1>1 DEF PipeInv
  <2>2. /\ Len(sent[c]) \in Nat
        /\ \/ t = sent[c]
           \/ /\ Len(t) = Len(sent[c]) + 1
              /\ \A k \in 1 .. Len(sent[c]) : t[k] = sent[c][k]
    BY <1>2, <1>6, SeqFacts DEF t
  <2>3. Len(out[c]) <= Len(t) /\ \A k \in 1 .. Len(out[c]) : out[c][k] = t[k]
    <3>1. CASE t = sent[c]
      BY <2>1, <3>1 DEF Prefixed
    <3>2. CASE /\ Len(t) = Len(sent[c]) + 1
               /\ \A k \in 1 .. Len(sent[c]) : t[k] = sent[c][k]
      <4>1. Len(out[c]) <= Len(sent[c])
        BY <2>1 DEF Prefixed
      <4>2. \A k \in 1 .. Len(out[c]) : k \in 1 .. Len(sent[c])
        BY <1>6, <2>2, <4>1
      <4>3. Len(out[c]) <= Len(t)
        BY <1>6, <2>2, <3>2, <4>1
      <4> QED  BY <2>1, <3>2, <4>2, <4>3 DEF Prefixed
    <3> QED  BY <2>2, <3>1, <3>2
  <2> QED  BY <1>8, <2>3 DEF Prefixed
<1>12. ASSUME MayRead(c)' PROVE Framed(c)'
  <2>1. Framed(c) /\ Prefixed(c)
    BY <1>1, <1>12 DEF PipeInv
  <2>2. FramesOf(pipe[c], sent[c], Len(out[c]), FALSE)
    <3>1. (c \in hung) = FALSE
      OBVIOUS
    <3> QED  BY <2>1, <3>1 DEF Framed
  <2>3. Len(out[c]) <= Len(sent[c])
    BY <2>1 DEF Prefixed
  <2>4. n # 3 => c \in hung'
    OBVIOUS
  <2>5. FramesOf(pipe[c] \o Cells(records + 1, n), t, Len(out[c]), c \in hung')
    BY <1>2, <1>6, <2>2, <2>3, <2>4, FramesExtend DEF t
  <2> QED  BY <1>8, <2>5 DEF Framed
<1>13. PipeInv'
  <2>1. ASSUME NEW d \in Conns, d # c
        PROVE  /\ Prefixed(d)' = Prefixed(d) /\ Framed(d)' = Framed(d)
               /\ MayRead(d)' = MayRead(d)
    <3>1. /\ pipe'[d] = pipe[d] /\ sent'[d] = sent[d] /\ out'[d] = out[d]
          /\ handler'[d] = handler[d] /\ (d \in hung') = (d \in hung)
      BY <1>8, <2>1
    <3> QED  BY <3>1 DEF Prefixed, Framed, MayRead
  <2> QED  BY <1>1, <1>11, <1>12, <2>1 DEF PipeInv
<1>14. /\ ToSet(t) = IF Whole(n) THEN ToSet(sent[c]) \union {records + 1}
                      ELSE ToSet(sent[c])
       /\ Whole(n) => t[Len(t)] = records + 1
  <2>1. LET a == Append(sent[c], records + 1)
        IN ToSet(a) = ToSet(sent[c]) \union {records + 1} /\ a[Len(a)] = records + 1
    BY <1>2, <1>6, ToSetAppend
  <2> QED  BY <2>1 DEF t
<1>15. Given' = IF n = 3 THEN Given ELSE Given \union {records + 1}
  BY DEF Given
<1>16. Whole(3)
  BY DEF Whole
<1>17. FateInv'
  <2>1. ASSUME NEW y \in (1 .. records + 1) \ Given'
        PROVE  \E d \in Conns : y \in ToSet(sent'[d])
    <3>1. CASE y = records + 1
      <4>1. n = 3
        BY <1>15, <2>1, <3>1
      <4> QED  BY <1>8, <1>14, <1>16, <3>1, <4>1
    <3>2. CASE y \in 1 .. records
      <4>1. PICK d \in Conns : y \in ToSet(sent[d])
        BY <1>1, <1>15, <3>2 DEF FateInv
      <4> QED  BY <1>8, <1>14, <4>1
    <3> QED  BY <1>2, <3>1, <3>2
  <2>2. ASSUME NEW y \in Given', NEW d \in Conns, y \in ToSet(sent'[d])
        PROVE  d \in hung' /\ y = sent'[d][Len(sent'[d])]
    <3>1. CASE y \in Given
      <4>1. y # records + 1
        BY <3>1, NewIsNew
      <4>2. y \in ToSet(sent[d])
        BY <1>8, <1>14, <2>2, <4>1
      <4>3. d \in hung /\ y = sent[d][Len(sent[d])]
        BY <1>1, <3>1, <4>2 DEF FateInv
      <4> QED  BY <1>8, <4>3
    <3>2. CASE y = records + 1 /\ n # 3
      <4>1. d = c /\ Whole(n)
        BY <1>8, <1>14, <2>2, <3>2, NewIsNew
      <4> QED  BY <1>8, <1>14, <3>2, <4>1
    <3> QED  BY <1>15, <2>2, <3>1, <3>2
  <2> QED  BY <2>1, <2>2 DEF FateInv
<1> QED  BY <1>4, <1>9, <1>10, <1>13, <1>17 DEF IInv

(* Write sends on the connection it has or on the one it made.             *)
LEMMA SendCells ==
  ASSUME IInv, NEW c \in Conns, Send(c)
  PROVE  \E n \in 0 .. 3 :
           /\ Transmit(c, records + 1, n)
           /\ hung' = IF n = 3 THEN hung ELSE hung \union {c}
           /\ owed' = IF n = 3 THEN owed ELSE owed \union {records + 1}
           /\ conn' = IF n = 3 THEN c ELSE 0
<1>1. CASE SendWhole(c)
  <2>1. /\ Transmit(c, records + 1, 3) /\ hung' = hung /\ owed' = owed /\ conn' = c
        /\ 3 \in 0 .. 3
    BY <1>1 DEF SendWhole
  <2> QED  BY <2>1
<1>2. CASE \E n \in 0 .. 2 : FailDropsConn(c, n)
  <2>1. PICK n \in 0 .. 2 : FailDropsConn(c, n)
    BY <1>2
  <2>2. /\ Transmit(c, records + 1, n) /\ hung' = hung \union {c}
        /\ owed' = owed \union {records + 1} /\ conn' = 0
    BY <2>1 DEF FailDropsConn
  <2>3. n \in 0 .. 3 /\ n # 3
    OBVIOUS
  <2> QED  BY <2>2, <2>3
<1> QED  BY <1>1, <1>2 DEF Send

LEMMA ConnectedStep ==
  ASSUME IInv, WriteConnected
  PROVE  IInv'
<1>1. /\ conn # 0 /\ records < MaxRecords /\ records' = records + 1 /\ Send(conn)
      /\ UNCHANGED <<dials, fallback, serverVars, out>>
  BY DEF WriteConnected, NewRecord
<1>2. PICK c : c = conn
  OBVIOUS
<1>3. /\ c \in Conns /\ c \notin hung /\ dials' \in 0 .. MaxDials /\ dials <= dials'
      /\ c <= dials'
  BY <1>1, <1>2, ForwardingAssumption DEF IInv, SinkType, Conns
<1>4. PICK n \in 0 .. 3 :
        /\ Transmit(c, records + 1, n)
        /\ hung' = IF n = 3 THEN hung ELSE hung \union {c}
        /\ owed' = IF n = 3 THEN owed ELSE owed \union {records + 1}
        /\ conn' = IF n = 3 THEN c ELSE 0
  BY <1>1, <1>2, <1>3, SendCells
<1>5. /\ server' = server /\ listening' = listening /\ held' = held
      /\ tracked' = tracked /\ cut' = cut /\ handler' = handler /\ wg' = wg
      /\ closing' = closing
  BY <1>1 DEF serverVars
<1>6. Active' = Active /\ MayRead(c)' = MayRead(c)
  BY <1>5 DEF Active, MayRead
<1>7. ServerType' /\ HeldInv' /\ CountInv'
  BY <1>5, <1>6 DEF IInv, ServerType, HeldInv, CountInv
<1> QED  BY <1>1, <1>3, <1>4, <1>5, <1>6, <1>7, SendStep

LEMMA DialsStep ==
  ASSUME IInv, WriteDials
  PROVE  IInv'
<1>1. /\ records < MaxRecords /\ records' = records + 1
      /\ dials < MaxDials /\ dials' = dials + 1 /\ Send(dials + 1)
      /\ handler' = [handler EXCEPT ![dials + 1] = "backlog"]
      /\ UNCHANGED <<fallback, server, listening, held, tracked, cut, wg,
                     closing, out>>
  BY DEF WriteDials, NewRecord
<1>2. PICK c : c = dials + 1
  OBVIOUS
<1>3. /\ c \in Conns /\ c \notin hung /\ dials' \in 0 .. MaxDials /\ dials <= dials'
      /\ c <= dials' /\ c > dials
  BY <1>1, <1>2, ForwardingAssumption DEF IInv, SinkType, Conns
<1>4. PICK n \in 0 .. 3 :
        /\ Transmit(c, records + 1, n)
        /\ hung' = IF n = 3 THEN hung ELSE hung \union {c}
        /\ owed' = IF n = 3 THEN owed ELSE owed \union {records + 1}
        /\ conn' = IF n = 3 THEN c ELSE 0
  BY <1>1, <1>2, <1>3, SendCells
<1>5. handler \in [Conns -> HandlerPCs] /\ handler[c] = "none"
  BY <1>3 DEF IInv, ServerType, UnusedInv
<1>6. handler'[c] = "backlog" /\ \A d \in Conns : d # c => handler'[d] = handler[d]
  BY <1>1, <1>2, <1>3, <1>5
<1>7. Active' = Active
  BY <1>5, <1>6 DEF Active
<1>8. MayRead(c)
  BY <1>5 DEF MayRead
<1>9. ServerType'
  BY <1>1, <1>2, <1>3 DEF IInv, ServerType, HandlerPCs
<1>10. HeldInv'
  BY <1>1, <1>5, <1>6 DEF IInv, HeldInv
<1>11. CountInv'
  BY <1>1, <1>7 DEF IInv, CountInv
<1> QED  BY <1>1, <1>3, <1>4, <1>6, <1>8, <1>9, <1>10, <1>11, SendStep

-----------------------------------------------------------------------------
(* The invariant and what it is for.                                       *)

LEMMA InitIInv == Init => IInv
<1> SUFFICES ASSUME Init PROVE IInv
  OBVIOUS
<1>1. /\ records = 0 /\ dials = 0 /\ conn = 0 /\ owed = {} /\ fallback = <<>>
      /\ pipe = [c \in Conns |-> <<>>] /\ hung = {}
      /\ sent = [c \in Conns |-> <<>>]
      /\ server = "up" /\ listening = TRUE /\ held = {} /\ tracked = {}
      /\ cut = {} /\ handler = [c \in Conns |-> "none"] /\ wg = 0
      /\ closing = "no" /\ out = [c \in Conns |-> <<>>]
  BY DEF Init
<1>2. SinkType
  BY <1>1, ForwardingAssumption DEF SinkType
<1>3. WireType
  BY <1>1 DEF WireType
<1>4. ServerType
  BY <1>1 DEF ServerType, HandlerPCs
<1>5. HeldInv
  BY <1>1 DEF HeldInv
<1>6. Active = {}
  BY <1>1 DEF Active
<1>7. CountInv
  BY <1>1, <1>6, FS_EmptySet DEF CountInv
<1>8. UnusedInv
  BY <1>1 DEF UnusedInv
<1>9. PipeInv
  <2> SUFFICES ASSUME NEW c \in Conns PROVE Prefixed(c) /\ Framed(c)
    BY DEF PipeInv
  <2>1. pipe[c] = <<>> /\ sent[c] = <<>> /\ out[c] = <<>>
    BY <1>1
  <2>2. Prefixed(c)
    BY <2>1 DEF Prefixed
  <2>3. FramesOf(<<>>, <<>>, 0, c \in hung)
    BY DEF FramesOf
  <2> QED  BY <2>1, <2>2, <2>3 DEF Framed
<1>10. FateInv
  <2>1. ToSet(<<>>) = {}
    BY DEF ToSet
  <2>2. Given = {} /\ 1 .. records = {}
    BY <1>1, <2>1 DEF Given
  <2> QED  BY <2>2 DEF FateInv
<1> QED  BY <1>2, <1>3, <1>4, <1>5, <1>7, <1>8, <1>9, <1>10 DEF IInv

LEMMA NextIInv == IInv /\ [Next]_vars => IInv'
<1> SUFFICES ASSUME IInv, [Next]_vars PROVE IInv'
  OBVIOUS
<1>1. CASE Sink
  BY <1>1, ConnectedStep, DialsStep, UnreachedStep, SinkCloseStep, FallbackStep
     DEF Sink
<1>2. CASE Serve
  BY <1>2, ServeStep
<1>3. CASE \E c \in Conns : Handle(c)
  BY <1>3, LineStep, EndStep, LeaveStep DEF Handle
<1>4. CASE CloseListener \/ Close \/ Crash \/ Listen
  BY <1>4, ControlStep
<1>5. CASE UNCHANGED vars
  <2>1. UNCHANGED <<dials, pipe, sent, serverVars, out>> /\ UNCHANGED sinkVars
        /\ UNCHANGED wireVars
    BY <1>5 DEF vars, wireVars, sinkVars
  <2>2. /\ records' = records /\ dials' = dials /\ conn' = conn /\ owed' = owed
        /\ fallback' = fallback /\ hung' = hung /\ sent' = sent
    BY <2>1 DEF sinkVars, wireVars
  <2>3. SinkType' /\ FateInv'
    BY <2>2 DEF IInv, SinkType, FateInv, Given
  <2> QED  BY <2>1, <2>2, <2>3, StillStep
<1> QED  BY <1>1, <1>2, <1>3, <1>4, <1>5 DEF Next

LEMMA IInvInOrder == IInv => InOrderOrFallback
<1> SUFFICES ASSUME IInv PROVE InOrderOrFallback
  OBVIOUS
<1>1. records \in Nat /\ 1 .. records \in SUBSET Records
  BY RecordsSoFar DEF IInv
<1>2. \A t \in Seq(1 .. records) : t \in Seq(Records)
  BY <1>1, SeqWiden
<1>3. TypeOK
  <2>1. fallback \in Seq(Records) /\ sent \in [Conns -> Seq(Records)]
    BY <1>2 DEF IInv, SinkType, WireType
  <2>2. wg \in Nat
    BY ActiveFinite DEF IInv, CountInv
  <2>3. held \subseteq Conns
    BY DEF IInv, HeldInv
  <2>4. /\ records \in 0 .. MaxRecords /\ dials \in 0 .. MaxDials
        /\ conn \in 0 .. dials /\ owed \subseteq 1 .. records
        /\ hung \subseteq 1 .. dials
    BY DEF IInv, SinkType
  <2>5. /\ pipe \in [Conns -> Seq([r : Records, i : 1 .. 3])]
        /\ out \in [Conns -> Seq(Records)]
    BY DEF IInv, WireType, Cell
  <2>6. /\ server \in {"up", "closed", "down"} /\ listening \in BOOLEAN
        /\ tracked \subseteq Conns /\ cut \subseteq Conns
        /\ handler \in [Conns -> HandlerPCs]
        /\ closing \in {"no", "conns", "wait", "done"}
    BY DEF IInv, ServerType
  <2> QED  BY <2>1, <2>2, <2>3, <2>4, <2>5, <2>6 DEF TypeOK
<1>4. ASSUME NEW c \in Conns PROVE IsPrefix(out[c], sent[c])
  <2>1. /\ out[c] \in Seq(Records) /\ sent[c] \in Seq(Records) /\ Len(out[c]) \in Nat
        /\ Len(sent[c]) \in Nat
    BY <1>2 DEF IInv, WireType
  <2>2. /\ Len(out[c]) <= Len(sent[c])
        /\ \A k \in 1 .. Len(out[c]) : out[c][k] = sent[c][k]
    BY DEF IInv, PipeInv, Prefixed
  <2>3. PICK o \in Seq(Records), t \in Seq(Records), n \in Nat :
          /\ o = out[c] /\ t = sent[c] /\ n = Len(o) /\ n <= Len(t)
          /\ \A k \in 1 .. n : o[k] = t[k]
    BY <2>1, <2>2
  <2>4. /\ SubSeq(t, 1, n) \in Seq(Records) /\ Len(SubSeq(t, 1, n)) = n
        /\ \A k \in 1 .. n : SubSeq(t, 1, n)[k] = t[k]
    BY <2>3
  <2>5. o = SubSeq(t, 1, n)
    BY <2>3, <2>4, SeqEqual
  <2>6. Len(out[c]) <= Len(sent[c]) /\ out[c] = SubSeq(sent[c], 1, Len(out[c]))
    BY <2>2, <2>3, <2>5
  <2> QED  BY <2>6 DEF IsPrefix
<1>5. \A t : Last(t) = t[Len(t)]
  BY DEF Last
<1> QED  BY <1>3, <1>4, <1>5 DEF IInv, FateInv, Given, InOrderOrFallback

(* What reaches Out from a connection is a prefix of what was sent whole   *)
(* on it, through torn writes, hangups, crashes and Close; and a Write     *)
(* that returned put its record on a connection or gave it to the          *)
(* fallback, and both only if it ended its connection (go/service.go).     *)
THEOREM InOrderInvariant == Safety => []InOrderOrFallback
<1>1. Safety => []IInv
  BY InitIInv, NextIInv, PTL DEF Safety
<1> QED  BY <1>1, IInvInOrder, PTL
============================================================================
