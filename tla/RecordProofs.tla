--------------------------- MODULE RecordProofs ---------------------------
(***************************************************************************)
(* Proofs about what becomes of a record before it is stored.  LineShrink: *)
(* for every cap, every message and every size of the fields and of the    *)
(* marks.  SlogGroups: for any names, any loggers, and any number and      *)
(* depth of handlers.                                                      *)
(***************************************************************************)
EXTENDS LineShrink, SlogGroups, SequenceTheorems, WellFoundedInduction, TLAPS

-----------------------------------------------------------------------------
(* Numbers, sequences and costs.                                           *)

(* A nonempty set of naturals has a least element.                         *)
LEMMA LeastNatural ==
  ASSUME NEW T \in SUBSET Nat, T # {}
  PROVE  \E x \in T : \A y \in T : x <= y
<1>1. IsWellFoundedOn(OpToRel(<, Nat), Nat)
  BY NatLessThanWellFounded
<1>2. PICK x \in T : \A y \in T : ~(<<y, x>> \in OpToRel(<, Nat))
  BY <1>1, WFMin
<1>3. \A y \in T : ~(y < x)
  BY <1>2 DEF OpToRel
<1> QED  BY <1>3

(* The greatest element of a nonempty set of bounded positions.            *)
LEMMA GreatestPosition ==
  ASSUME NEW n \in Int, NEW S \in SUBSET (1 .. n), S # {}
  PROVE  Max(S) \in S
<1> DEFINE T == {b \in Nat : \A y \in S : y <= b}
<1>0. PICK e \in S : e \in 1 .. n
  OBVIOUS
<1>1. n \in T
  BY <1>0
<1>2. T \in SUBSET Nat /\ T # {}
  BY <1>1
<1>3. PICK b \in T : \A c \in T : b <= c
  BY <1>2, LeastNatural
<1>4. b \in S
  <2>1. SUFFICES ASSUME b \notin S PROVE FALSE
    OBVIOUS
  <2>2. \A y \in S : y \in Int /\ 1 <= y /\ y <= b /\ y # b
    BY <2>1
  <2>3. b \in Nat /\ b >= 1
    BY <2>2, <1>0
  <2>4. b - 1 \in T
    BY <2>2, <2>3
  <2> QED  BY <1>3, <2>3, <2>4
<1>5. b \in S /\ \A y \in S : b >= y
  BY <1>4
<1> QED  BY <1>5 DEF Max

(* Appending to short tuples.                                              *)
LEMMA AppendPairs ==
  ASSUME NEW a, NEW b, NEW c
  PROVE  Append(<<a>>, b) = <<a, b>> /\ Append(<<a, b>>, c) = <<a, b, c>>
<1> DEFINE S == {a, b, c}
<1>1. <<a>> \in Seq(S) /\ <<a, b>> \in Seq(S) /\ <<a, b, c>> \in Seq(S)
  OBVIOUS
<1>2. a \in S /\ b \in S /\ c \in S
  OBVIOUS
<1> HIDE DEF S
<1>3. Append(<<a>>, b) = <<a, b>>
  <2>1. /\ Append(<<a>>, b) \in Seq(S) /\ Len(Append(<<a>>, b)) = 2
        /\ Append(<<a>>, b)[1] = a /\ Append(<<a>>, b)[2] = b
    BY <1>1, <1>2
  <2>2. \A i \in 1 .. 2 : Append(<<a>>, b)[i] = <<a, b>>[i]
    BY <2>1
  <2> QED  BY <1>1, <2>1, <2>2, SeqEqual
<1>4. Append(<<a, b>>, c) = <<a, b, c>>
  <2>1. /\ Append(<<a, b>>, c) \in Seq(S) /\ Len(Append(<<a, b>>, c)) = 3
        /\ Append(<<a, b>>, c)[1] = a /\ Append(<<a, b>>, c)[2] = b
        /\ Append(<<a, b>>, c)[3] = c
    BY <1>1, <1>2
  <2>2. \A i \in 1 .. 3 : Append(<<a, b>>, c)[i] = <<a, b, c>>[i]
    BY <2>1
  <2> QED  BY <1>1, <2>1, <2>2, SeqEqual
<1> QED  BY <1>3, <1>4

(* An empty message costs nothing.                                         *)
LEMMA EmptyCost == Cost(<<>>) = 0
<1> DEFINE it == [s \in SUBSET {} |-> 0]
<1>1. DOMAIN <<>> = {}
  OBVIOUS
<1> QED  BY <1>1 DEF Cost, FoldSeq, FoldFunction, FoldFunctionOnSet, MapThenFoldSet

(* cut returns a proper prefix of a message that is not empty, which ends  *)
(* where a character starts unless it is empty.                            *)
LEMMA CutPrefix ==
  ASSUME NEW s \in Seq(Bytes), s # <<>>, NEW n \in Nat
  PROVE  \E k \in 0 .. Len(s) - 1 :
           /\ cut(s, n) = SubSeq(s, 1, k)
           /\ k > 0 => s[k + 1].start
<1> DEFINE top == IF n >= Len(s) THEN Len(s) - 1 ELSE n
           starts == {k \in 1 .. top : s[k + 1].start}
           k0 == IF starts = {} THEN 0 ELSE Max(starts)
<1>1. Len(s) \in Nat /\ Len(s) > 0
  OBVIOUS
<1>2. top \in 0 .. Len(s) - 1
  BY <1>1
<1>3. starts # {} => Max(starts) \in starts
  <2>1. starts \in SUBSET (1 .. top)
    OBVIOUS
  <2>2. top \in Int
    BY <1>2
  <2> QED  BY <2>1, <2>2, GreatestPosition
<1>4. k0 \in 0 .. Len(s) - 1 /\ (k0 > 0 => s[k0 + 1].start)
  BY <1>1, <1>2, <1>3
<1>5. cut(s, n) = SubSeq(s, 1, k0)
  BY DEF cut
<1> QED  BY <1>4, <1>5

-----------------------------------------------------------------------------
(* The ladder.  MkR is the marked record, and each step is taken if there  *)
(* is something to shed and the frame gets narrower.                       *)

MkR == Marked(r)
JobR == WithoutJob(MkR)
JobTaken == MkR.job > 0 /\ narrows(JobR, MkR)
AfterJob == IF JobTaken THEN JobR ELSE MkR
JobLadder == IF JobTaken THEN <<MkR, JobR>> ELSE <<MkR>>
HopsR == WithoutHops(AfterJob)
HopsTaken == AfterJob.hops > 0 /\ narrows(HopsR, AfterJob)
Ladder == IF HopsTaken THEN Append(JobLadder, HopsR) ELSE JobLadder

GivenInv == r \in Fields /\ r.marks = {} /\ max \in Int

(* A record without its message, and the size of what is left.             *)
LEMMA BareSize ==
  ASSUME NEW x \in Fields
  PROVE  /\ frame(x) \in Int /\ frame(Bare(x)) = frame(x)
         /\ Size(Bare(x)) = frame(x)
<1>1. \A m \in Marks : MarkSize[m] \in Nat
  BY ShrinkAssumption
<1>2. MarksCost(x.marks) \in Nat
  BY <1>1 DEF MarksCost, MarkCost, Marks
<1>3. frame(x) \in Int
  BY <1>2, ShrinkAssumption DEF frame, Fields
<1>4. /\ Bare(x).attrs = x.attrs /\ Bare(x).job = x.job
      /\ Bare(x).hops = x.hops /\ Bare(x).marks = x.marks
      /\ Bare(x).msg = <<>>
  BY DEF Bare, Fields
<1>5. frame(Bare(x)) = frame(x)
  BY <1>4 DEF frame
<1> QED  BY <1>3, <1>4, <1>5, EmptyCost DEF Size

(* The marked record, and what a step does to a record.                    *)
LEMMA MarkedFields ==
  ASSUME GivenInv
  PROVE  /\ MkR \in Fields /\ MkR.msg = r.msg /\ MkR.attrs = 0
         /\ MkR.job = r.job /\ MkR.hops = r.hops
         /\ "job" \notin MkR.marks /\ "hops" \notin MkR.marks
         /\ "truncated" \in MkR.marks
         /\ r.attrs # 0 => "attrs" \in MkR.marks
<1> DEFINE ms == {"truncated"} \union IF r.attrs > 0 THEN {"attrs"} ELSE {}
<1>1. r \in Fields /\ r.attrs \in Nat
  BY DEF GivenInv, Fields
<1>2. MkR = [r EXCEPT !.attrs = 0, !.marks = ms]
  BY DEF MkR, Marked
<1>3. /\ ms \in SUBSET Marks /\ "job" \notin ms /\ "hops" \notin ms
      /\ "truncated" \in ms /\ (r.attrs # 0 => "attrs" \in ms)
  BY <1>1 DEF Marks
<1> HIDE DEF ms
<1>4. /\ MkR \in Fields /\ MkR.msg = r.msg /\ MkR.attrs = 0
      /\ MkR.job = r.job /\ MkR.hops = r.hops /\ MkR.marks = ms
  BY <1>1, <1>2, <1>3 DEF Fields
<1> QED  BY <1>3, <1>4

LEMMA StepFields ==
  ASSUME NEW x \in Fields
  PROVE  /\ WithoutJob(x) \in Fields /\ WithoutJob(x).msg = x.msg
         /\ WithoutJob(x).attrs = x.attrs /\ WithoutJob(x).job = 0
         /\ WithoutJob(x).hops = x.hops
         /\ WithoutJob(x).marks = x.marks \union {"job"}
         /\ WithoutHops(x) \in Fields /\ WithoutHops(x).msg = x.msg
         /\ WithoutHops(x).attrs = x.attrs /\ WithoutHops(x).job = x.job
         /\ WithoutHops(x).hops = 0
         /\ WithoutHops(x).marks = x.marks \union {"hops"}
BY DEF WithoutJob, WithoutHops, Fields, Marks

(* Shedding a field trades its size for the size of its mark.              *)
LEMMA StepFrame ==
  ASSUME NEW x \in Fields
  PROVE  /\ "job" \notin x.marks =>
              frame(WithoutJob(x)) = frame(x) - x.job + MarkSize["job"]
         /\ "hops" \notin x.marks =>
              frame(WithoutHops(x)) = frame(x) - x.hops + MarkSize["hops"]
<1>1. \A m \in Marks : MarkSize[m] \in Nat
  BY ShrinkAssumption
<1>2. \A m \in Marks : MarkCost(m, x.marks) \in Nat
  BY <1>1 DEF MarkCost
<1>3. x.attrs \in Nat /\ x.job \in Nat /\ x.hops \in Nat /\ BaseSize \in Nat
  BY ShrinkAssumption DEF Fields
<1>4. "job" \notin x.marks =>
        MarksCost(x.marks \union {"job"}) = MarksCost(x.marks) + MarkSize["job"]
  BY <1>1, <1>2 DEF MarksCost, MarkCost, Marks
<1>5. "hops" \notin x.marks =>
        MarksCost(x.marks \union {"hops"}) = MarksCost(x.marks) + MarkSize["hops"]
  BY <1>1, <1>2 DEF MarksCost, MarkCost, Marks
<1>6. MarksCost(x.marks) \in Nat /\ MarkSize["job"] \in Nat
      /\ MarkSize["hops"] \in Nat
  BY <1>1, <1>2 DEF MarksCost, Marks
<1>7. ASSUME "job" \notin x.marks
      PROVE  frame(WithoutJob(x)) = frame(x) - x.job + MarkSize["job"]
  <2> DEFINE y == WithoutJob(x)
  <2>1. /\ y.attrs = x.attrs /\ y.job = 0 /\ y.hops = x.hops
        /\ y.marks = x.marks \union {"job"}
    BY StepFields
  <2>2. MarksCost(y.marks) = MarksCost(x.marks) + MarkSize["job"]
    BY <1>4, <1>7, <2>1
  <2> QED  BY <1>3, <1>6, <2>1, <2>2 DEF frame
<1>8. ASSUME "hops" \notin x.marks
      PROVE  frame(WithoutHops(x)) = frame(x) - x.hops + MarkSize["hops"]
  <2> DEFINE y == WithoutHops(x)
  <2>1. /\ y.attrs = x.attrs /\ y.job = x.job /\ y.hops = 0
        /\ y.marks = x.marks \union {"hops"}
    BY StepFields
  <2>2. MarksCost(y.marks) = MarksCost(x.marks) + MarkSize["hops"]
    BY <1>5, <1>8, <2>1
  <2> QED  BY <1>3, <1>6, <2>1, <2>2 DEF frame
<1> QED  BY <1>7, <1>8

-----------------------------------------------------------------------------
(* The inductive invariant.                                                *)

TypeInv ==
  /\ over \in Fields /\ stages \in Seq(Fields) /\ rung \in 0 .. Len(stages)
  /\ pc \in {"encode", "job", "hops", "climb", "shrink", "done"}
  /\ result \in {"none", "line", "refused"}
  /\ pc = "done" <=> result # "none"

(* The ladder is built first, in order, and then climbed.                  *)
LadderInv ==
  /\ pc = "encode" => over = r /\ rung = 0 /\ stages = <<>>
  /\ pc = "job" => over = MkR /\ rung = 0 /\ stages = <<MkR>>
  /\ pc = "hops" => over = AfterJob /\ rung = 0 /\ stages = JobLadder
  /\ pc \in {"climb", "shrink"} => stages = Ladder
  /\ pc = "shrink" => rung > 0
  /\ pc = "done" => \/ over = r /\ rung = 0 /\ result = "line" /\ stages = <<>>
                    \/ rung > 0 /\ stages = Ladder
  /\ result = "refused" => rung = Len(stages)

(* Of a rung only the message is given up.                                 *)
RungInv ==
  rung > 0 => /\ over.attrs = stages[rung].attrs /\ over.job = stages[rung].job
              /\ over.hops = stages[rung].hops /\ over.marks = stages[rung].marks

(* The message is cut where a character starts.                            *)
CutOf(m, s) ==
  \E k \in 0 .. Len(s) : /\ m = SubSeq(s, 1, k)
                         /\ k \in 1 .. Len(s) - 1 => s[k + 1].start
MsgInv == CutOf(over.msg, r.msg)

(* The rungs left behind do not fit, not even without a message.           *)
Behind(i) == i < rung \/ (i = rung /\ (pc = "climb" \/ result = "refused"))
FailInv ==
  \A i \in 1 .. Len(stages) : Behind(i) => frame(stages[i]) > max

FitInv == result = "line" => Size(over) <= max

IInv == GivenInv /\ TypeInv /\ LadderInv /\ RungInv /\ MsgInv /\ FailInv /\ FitInv

(* The names on a record of what it lost.                                  *)
Named(x) ==
  /\ x.attrs # r.attrs => "attrs" \in x.marks
  /\ x.job # r.job => "job" \in x.marks
  /\ x.hops # r.hops => "hops" \in x.marks
  /\ "truncated" \in x.marks
Whole(x) == x \in Fields /\ x.msg = r.msg /\ Named(x)

LEMMA RungsWhole ==
  ASSUME GivenInv
  PROVE  Whole(MkR) /\ Whole(JobR) /\ Whole(AfterJob) /\ Whole(HopsR)
<1>1. Whole(MkR)
  <2>1. r.attrs # MkR.attrs => "attrs" \in MkR.marks
    BY MarkedFields
  <2> QED  BY <2>1, MarkedFields DEF Whole, Named
<1>2. Whole(JobR)
  <2>1. MkR \in Fields
    BY <1>1 DEF Whole
  <2> QED  BY <1>1, <2>1, StepFields DEF Whole, Named, JobR
<1>3. Whole(AfterJob)
  BY <1>1, <1>2 DEF AfterJob
<1>4. Whole(HopsR)
  <2>1. AfterJob \in Fields
    BY <1>3 DEF Whole
  <2> QED  BY <1>3, <2>1, StepFields DEF Whole, Named, HopsR
<1> QED  BY <1>1, <1>2, <1>3, <1>4

(* The four ladders.                                                       *)
LEMMA Ladders ==
  \/ ~JobTaken /\ ~HopsTaken /\ JobLadder = <<MkR>> /\ Ladder = <<MkR>>
  \/ JobTaken /\ ~HopsTaken /\ JobLadder = <<MkR, JobR>> /\ Ladder = <<MkR, JobR>>
  \/ ~JobTaken /\ HopsTaken /\ JobLadder = <<MkR>> /\ Ladder = <<MkR, HopsR>>
  \/ JobTaken /\ HopsTaken /\ JobLadder = <<MkR, JobR>>
     /\ Ladder = <<MkR, JobR, HopsR>>
<1>1. Append(<<MkR>>, HopsR) = <<MkR, HopsR>>
  BY AppendPairs
<1>2. Append(<<MkR, JobR>>, HopsR) = <<MkR, JobR, HopsR>>
  BY AppendPairs
<1> QED  BY <1>1, <1>2 DEF JobLadder, Ladder

LEMMA LadderFacts ==
  ASSUME GivenInv
  PROVE  /\ Ladder \in Seq(Fields) /\ Len(Ladder) \in 1 .. 3
         /\ JobLadder \in Seq(Fields)
         /\ \A i \in 1 .. Len(Ladder) : Whole(Ladder[i])
         /\ \A i \in 1 .. Len(Ladder) - 1 : frame(Ladder[i + 1]) < frame(Ladder[i])
<1>1. Whole(MkR) /\ Whole(JobR) /\ Whole(HopsR)
  BY RungsWhole
<1>2. MkR \in Fields /\ JobR \in Fields /\ HopsR \in Fields
  BY <1>1 DEF Whole
<1>3. JobTaken => frame(JobR) < frame(MkR) /\ AfterJob = JobR
  BY DEF JobTaken, narrows, AfterJob
<1>4. HopsTaken => frame(HopsR) < frame(AfterJob)
  BY DEF HopsTaken, narrows
<1>5. ~JobTaken => AfterJob = MkR
  BY DEF AfterJob
<1>6. CASE ~JobTaken /\ ~HopsTaken /\ JobLadder = <<MkR>> /\ Ladder = <<MkR>>
  BY <1>1, <1>2, <1>6
<1>7. CASE JobTaken /\ ~HopsTaken /\ JobLadder = <<MkR, JobR>>
           /\ Ladder = <<MkR, JobR>>
  <2>1. Len(Ladder) = 2 /\ Ladder[1] = MkR /\ Ladder[2] = JobR
    BY <1>7
  <2> QED  BY <1>1, <1>2, <1>3, <1>7, <2>1
<1>8. CASE ~JobTaken /\ HopsTaken /\ JobLadder = <<MkR>> /\ Ladder = <<MkR, HopsR>>
  <2>1. Len(Ladder) = 2 /\ Ladder[1] = MkR /\ Ladder[2] = HopsR
    BY <1>8
  <2> QED  BY <1>1, <1>2, <1>4, <1>5, <1>8, <2>1
<1>9. CASE JobTaken /\ HopsTaken /\ JobLadder = <<MkR, JobR>>
           /\ Ladder = <<MkR, JobR, HopsR>>
  <2>1. Len(Ladder) = 3 /\ Ladder[1] = MkR /\ Ladder[2] = JobR /\ Ladder[3] = HopsR
    BY <1>9
  <2> QED  BY <1>1, <1>2, <1>3, <1>4, <1>9, <2>1
<1> QED  BY <1>6, <1>7, <1>8, <1>9, Ladders

(* The ladder depends on the record Write was given only.                  *)
LEMMA SameLadder ==
  ASSUME r' = r
  PROVE  /\ MkR' = MkR /\ AfterJob' = AfterJob /\ JobLadder' = JobLadder
         /\ Ladder' = Ladder
<1>1. MkR' = MkR
  BY DEF MkR
<1>2. JobR' = JobR
  BY <1>1 DEF JobR
<1>3. JobTaken' = JobTaken
  BY <1>1, <1>2 DEF JobTaken
<1>4. AfterJob' = AfterJob /\ JobLadder' = JobLadder
  BY <1>1, <1>2, <1>3 DEF AfterJob, JobLadder
<1>5. HopsR' = HopsR
  BY <1>4 DEF HopsR
<1>6. HopsTaken' = HopsTaken
  BY <1>4, <1>5 DEF HopsTaken
<1> QED  BY <1>1, <1>4, <1>5, <1>6 DEF Ladder

(* A whole message is cut at its end, and a cut of a cut is a cut.         *)
LEMMA WholeCut ==
  ASSUME NEW s \in Seq(Bytes)
  PROVE  CutOf(s, s)
<1>1. SubSeq(s, 1, Len(s)) = s
  BY SubSeqFull
<1>2. Len(s) \in 0 .. Len(s) /\ Len(s) \notin 1 .. Len(s) - 1
  OBVIOUS
<1> QED  BY <1>1, <1>2 DEF CutOf

LEMMA CutAgain ==
  ASSUME NEW s \in Seq(Bytes), NEW m \in Seq(Bytes), CutOf(m, s), m # <<>>,
         NEW n \in Nat
  PROVE  /\ cut(m, n) \in Seq(Bytes) /\ CutOf(cut(m, n), s)
         /\ Len(cut(m, n)) < Len(m)
<1>1. PICK k \in 0 .. Len(s) : m = SubSeq(s, 1, k)
  BY DEF CutOf
<1>2. PICK j \in 0 .. Len(m) - 1 : /\ cut(m, n) = SubSeq(m, 1, j)
                                   /\ j > 0 => m[j + 1].start
  BY CutPrefix
<1>3. Len(m) = k /\ \A i \in 1 .. k : m[i] = s[i]
  BY <1>1
<1>4. j \in 0 .. Len(s) /\ j < k
  BY <1>2, <1>3
<1>5. SubSeq(m, 1, j) = SubSeq(s, 1, j)
  <2>1. SubSeq(m, 1, j) \in Seq(Bytes) /\ SubSeq(s, 1, j) \in Seq(Bytes)
    BY <1>3, <1>4, SubSeqProperties
  <2>2. Len(SubSeq(m, 1, j)) = j /\ Len(SubSeq(s, 1, j)) = j
    BY <1>3, <1>4, SubSeqProperties
  <2>3. \A i \in 1 .. j : SubSeq(m, 1, j)[i] = SubSeq(s, 1, j)[i]
    BY <1>3, <1>4
  <2> QED  BY <2>1, <2>2, <2>3, SeqEqual
<1>6. j \in 1 .. Len(s) - 1 => s[j + 1].start
  BY <1>2, <1>3, <1>4
<1>7. cut(m, n) \in Seq(Bytes) /\ Len(cut(m, n)) = j
  BY <1>2, <1>3, <1>4
<1> QED  BY <1>2, <1>3, <1>4, <1>5, <1>6, <1>7 DEF CutOf

LEMMA ShrinkInit == Init => IInv
<1> SUFFICES ASSUME Init PROVE IInv
  OBVIOUS
<1>1. r \in Fields /\ r.marks = {}
  <2>1. Messages \subseteq Seq(Bytes) /\ FieldSizes \subseteq Nat
    BY ShrinkAssumption
  <2>2. /\ r = [msg |-> r.msg, attrs |-> r.attrs, job |-> r.job,
                hops |-> r.hops, marks |-> r.marks]
        /\ r.msg \in Messages /\ r.attrs \in FieldSizes /\ r.job \in FieldSizes
        /\ r.hops \in FieldSizes /\ r.marks \in {{}}
    BY DEF Init
  <2> QED  BY <2>1, <2>2 DEF Fields
<1>2. max \in Int
  BY ShrinkAssumption DEF Init, Cap
<1>3. TypeInv
  BY <1>1 DEF Init, TypeInv
<1>4. LadderInv /\ RungInv /\ FailInv /\ FitInv
  BY DEF Init, LadderInv, RungInv, FailInv, FitInv
<1>5. MsgInv
  <2>1. r.msg \in Seq(Bytes) /\ over = r
    BY <1>1 DEF Fields, Init
  <2> QED  BY <2>1, WholeCut DEF MsgInv
<1> QED  BY <1>1, <1>2, <1>3, <1>4, <1>5 DEF IInv, GivenInv

(* Narrowing leaves the message alone, and cannot fail yet.                *)
LEMMA BuildStep ==
  ASSUME IInv, Mark \/ ShedJob \/ ShedHops
  PROVE  IInv'
<1> USE DEF IInv
<1>0. r' = r /\ max' = max /\ rung' = rung /\ result' = result
  BY DEF Mark, ShedJob, ShedHops
<1>1. GivenInv'
  BY <1>0 DEF GivenInv
<1>2. /\ MkR' = MkR /\ AfterJob' = AfterJob /\ JobLadder' = JobLadder
      /\ Ladder' = Ladder
  BY <1>0, SameLadder
<1>3. rung = 0 /\ rung' = 0 /\ result = "none"
  BY <1>0 DEF Mark, ShedJob, ShedHops, LadderInv, TypeInv
<1>4. /\ MkR \in Fields /\ AfterJob \in Fields /\ HopsR \in Fields /\ r \in Fields
      /\ MkR.msg = r.msg /\ AfterJob.msg = r.msg /\ HopsR.msg = r.msg
  BY RungsWhole DEF Whole, GivenInv
<1>5. Ladder \in Seq(Fields) /\ JobLadder \in Seq(Fields)
  BY LadderFacts
<1>6. ASSUME over' \in Fields, over'.msg = r.msg, stages' \in Seq(Fields),
             pc' \in {"job", "hops", "climb"}, LadderInv'
      PROVE  IInv'
  <2>1. Len(stages') \in Nat
    BY <1>6
  <2>2. TypeInv'
    BY <1>0, <1>3, <1>6, <2>1 DEF TypeInv
  <2>3. RungInv' /\ FailInv' /\ FitInv'
    BY <1>0, <1>3, <2>1 DEF RungInv, FailInv, FitInv, Behind
  <2>4. MsgInv'
    <3>1. over'.msg = r'.msg /\ r'.msg \in Seq(Bytes)
      BY <1>0, <1>4, <1>6 DEF Fields
    <3>2. CutOf(over'.msg, r'.msg)
      BY <3>1, WholeCut
    <3> QED  BY <3>2 DEF MsgInv
  <2> QED  BY <1>1, <1>6, <2>2, <2>3, <2>4
<1>7. CASE Mark
  <2>1. pc' = "job" /\ over' = MkR /\ stages' = <<MkR>>
    BY <1>7 DEF Mark, MkR
  <2>2. LadderInv'
    BY <1>0, <1>2, <1>3, <2>1 DEF LadderInv
  <2>3. stages' \in Seq(Fields)
    BY <1>4, <2>1
  <2> QED  BY <1>4, <1>6, <2>1, <2>2, <2>3
<1>8. CASE ShedJob
  <2>1. pc = "job" /\ pc' = "hops" /\ over = MkR /\ stages = <<MkR>>
    BY <1>8 DEF ShedJob, LadderInv
  <2>2. over' = AfterJob /\ stages' = JobLadder
    BY <1>8, <2>1, AppendPairs
       DEF ShedJob, Shed, AfterJob, JobLadder, JobTaken, JobR
  <2>3. LadderInv'
    BY <1>0, <1>2, <1>3, <2>1, <2>2 DEF LadderInv
  <2> QED  BY <1>4, <1>5, <1>6, <2>1, <2>2, <2>3
<1>9. CASE ShedHops
  <2>1. pc = "hops" /\ pc' = "climb" /\ over = AfterJob /\ stages = JobLadder
    BY <1>9 DEF ShedHops, LadderInv
  <2>2. /\ stages' = Ladder
        /\ over' = IF HopsTaken THEN HopsR ELSE AfterJob
    BY <1>9, <2>1 DEF ShedHops, Shed, Ladder, HopsTaken, HopsR
  <2>3. LadderInv'
    BY <1>0, <1>2, <1>3, <2>1, <2>2 DEF LadderInv
  <2>4. over' \in Fields /\ over'.msg = r.msg
    BY <1>4, <2>2
  <2> QED  BY <1>5, <1>6, <2>1, <2>2, <2>3, <2>4
<1> QED  BY <1>7, <1>8, <1>9

(* Climbing and narrowing the message.                                     *)
LEMMA ClimbStep ==
  ASSUME IInv, Climb
  PROVE  IInv'
<1> USE DEF IInv
<1>0. /\ r' = r /\ max' = max /\ stages' = stages /\ result' = result
      /\ pc = "climb" /\ rung < Len(stages) /\ rung' = rung + 1
      /\ over' = stages[rung + 1] /\ pc' = "shrink" /\ result = "none"
  BY DEF Climb, TypeInv
<1>1. GivenInv'
  BY <1>0 DEF GivenInv
<1>2. stages \in Seq(Fields) /\ rung \in 0 .. Len(stages) /\ Len(stages) \in Nat
  BY DEF TypeInv
<1>3. rung + 1 \in 1 .. Len(stages)
  BY <1>0, <1>2
<1>4. stages = Ladder /\ Ladder' = Ladder
  BY <1>0, SameLadder DEF LadderInv
<1>5. Whole(over')
  BY <1>0, <1>3, <1>4, LadderFacts
<1>6. over' \in Fields /\ over'.msg = r.msg
  BY <1>5 DEF Whole
<1>7. TypeInv'
  BY <1>0, <1>2, <1>3, <1>6 DEF TypeInv
<1>8. LadderInv'
  BY <1>0, <1>3, <1>4 DEF LadderInv
<1>9. RungInv' /\ FitInv'
  BY <1>0, <1>2 DEF RungInv, FitInv
<1>10. FailInv'
  <2> SUFFICES ASSUME NEW i \in 1 .. Len(stages'), Behind(i)'
               PROVE  frame(stages'[i]) > max'
    BY DEF FailInv
  <2>1. i < rung + 1 /\ i \in 1 .. Len(stages)
    BY <1>0, <1>2 DEF Behind
  <2>2. Behind(i)
    BY <1>0, <1>2, <2>1 DEF Behind
  <2> QED  BY <1>0, <2>1, <2>2 DEF FailInv
<1>11. MsgInv'
  <2>1. over'.msg = r'.msg /\ r'.msg \in Seq(Bytes)
    BY <1>0, <1>6 DEF GivenInv, Fields
  <2>2. CutOf(over'.msg, r'.msg)
    BY <2>1, WholeCut
  <2> QED  BY <2>2 DEF MsgInv
<1> QED  BY <1>1, <1>7, <1>8, <1>9, <1>10, <1>11

(* Halving the message, which the rung still holds.                        *)
LEMMA HalveStep ==
  ASSUME IInv, Halve
  PROVE  IInv' /\ Len(over'.msg) < Len(over.msg) /\ frame(over') = frame(over)
<1> USE DEF IInv
<1> DEFINE m == cut(over.msg, Len(over.msg) \div 2)
<1>0. /\ r' = r /\ max' = max /\ stages' = stages /\ result' = result
      /\ rung' = rung /\ pc = "shrink" /\ pc' = pc /\ result = "none"
      /\ over' = [over EXCEPT !.msg = m] /\ over.msg # <<>>
  BY DEF Halve, TypeInv
<1>1. over \in Fields /\ r \in Fields
  BY DEF TypeInv, GivenInv
<1>2. over.msg \in Seq(Bytes) /\ r.msg \in Seq(Bytes)
  BY <1>1 DEF Fields
<1>3. Len(over.msg) \div 2 \in Nat
  <2>1. \A n \in Nat : n \div 2 \in Nat
    OBVIOUS
  <2>2. Len(over.msg) \in Nat
    BY <1>2
  <2> QED  BY <2>1, <2>2
<1>4. m \in Seq(Bytes) /\ CutOf(m, r.msg) /\ Len(m) < Len(over.msg)
  BY <1>0, <1>2, <1>3, CutAgain DEF MsgInv
<1> HIDE DEF m
<1>5. /\ over' \in Fields /\ over'.msg = m /\ over'.attrs = over.attrs
      /\ over'.job = over.job /\ over'.hops = over.hops
      /\ over'.marks = over.marks
  BY <1>0, <1>1, <1>4 DEF Fields
<1>6. GivenInv'
  BY <1>0 DEF GivenInv
<1>7. TypeInv'
  BY <1>0, <1>5 DEF TypeInv
<1>8. LadderInv'
  BY <1>0, SameLadder DEF LadderInv
<1>9. RungInv' /\ FitInv'
  BY <1>0, <1>5 DEF RungInv, FitInv
<1>10. FailInv'
  BY <1>0 DEF FailInv, Behind
<1>11. MsgInv'
  BY <1>0, <1>4, <1>5 DEF MsgInv
<1>12. frame(over') = frame(over)
  BY <1>5 DEF frame
<1> QED  BY <1>4, <1>5, <1>6, <1>7, <1>8, <1>9, <1>10, <1>11, <1>12

(* A line that is left without a message and does not fit shows that its   *)
(* rung does not either.                                                   *)
LEMMA ShrinkFailsStep ==
  ASSUME IInv, ShrinkFails
  PROVE  IInv'
<1> USE DEF IInv
<1>0. /\ r' = r /\ max' = max /\ stages' = stages /\ result' = result
      /\ rung' = rung /\ over' = over /\ pc = "shrink" /\ pc' = "climb"
      /\ ~Fits(over) /\ over.msg = <<>> /\ result = "none"
  BY DEF ShrinkFails, TypeInv
<1>1. over \in Fields /\ stages \in Seq(Fields) /\ rung \in 1 .. Len(stages)
      /\ max \in Int
  BY <1>0 DEF TypeInv, LadderInv, GivenInv
<1>2. frame(over) = frame(stages[rung])
  BY <1>1 DEF RungInv, frame
<1>3. Size(over) = frame(over) /\ frame(over) \in Int
  BY <1>0, <1>1, EmptyCost, BareSize DEF Size
<1>4. frame(stages[rung]) > max
  BY <1>0, <1>1, <1>2, <1>3 DEF Fits
<1>5. GivenInv' /\ TypeInv'
  BY <1>0 DEF GivenInv, TypeInv
<1>6. LadderInv'
  BY <1>0, SameLadder DEF LadderInv
<1>7. RungInv' /\ FitInv' /\ MsgInv'
  BY <1>0 DEF RungInv, FitInv, MsgInv
<1>8. FailInv'
  BY <1>0, <1>1, <1>4 DEF FailInv, Behind
<1> QED  BY <1>5, <1>6, <1>7, <1>8

(* The steps that end Write.                                               *)
LEMMA FinishStep ==
  ASSUME IInv, EncodeFits \/ ErrLineCap \/ ShrinkFits
  PROVE  IInv'
<1> USE DEF IInv
<1>0. /\ r' = r /\ max' = max /\ stages' = stages /\ rung' = rung /\ over' = over
      /\ pc' = "done" /\ result' \in {"line", "refused"} /\ result = "none"
  BY DEF EncodeFits, ErrLineCap, ShrinkFits, Finish, TypeInv
<1>1. GivenInv' /\ TypeInv' /\ RungInv' /\ MsgInv'
  BY <1>0 DEF GivenInv, TypeInv, RungInv, MsgInv
<1>2. Ladder' = Ladder /\ Len(Ladder) \in 1 .. 3
  BY <1>0, SameLadder, LadderFacts
<1>3. CASE EncodeFits
  <2>1. result' = "line" /\ over = r /\ rung = 0 /\ stages = <<>> /\ Size(r) <= max
    BY <1>3 DEF EncodeFits, Finish, LadderInv
  <2>2. LadderInv' /\ FitInv'
    BY <1>0, <2>1 DEF LadderInv, FitInv
  <2>3. FailInv'
    BY <1>0, <2>1 DEF FailInv, Behind
  <2> QED  BY <1>1, <2>2, <2>3
<1>4. CASE ErrLineCap
  <2>1. result' = "refused" /\ pc = "climb" /\ rung = Len(stages) /\ stages = Ladder
    BY <1>4 DEF ErrLineCap, Finish, LadderInv
  <2>2. LadderInv' /\ FitInv'
    BY <1>0, <1>2, <2>1 DEF LadderInv, FitInv
  <2>3. FailInv'
    BY <1>0, <2>1 DEF FailInv, Behind
  <2> QED  BY <1>1, <2>2, <2>3
<1>5. CASE ShrinkFits
  <2>1. result' = "line" /\ pc = "shrink" /\ rung > 0 /\ stages = Ladder
        /\ Size(over) <= max
    BY <1>5 DEF ShrinkFits, Finish, LadderInv, Fits
  <2>2. LadderInv' /\ FitInv'
    BY <1>0, <1>2, <2>1 DEF LadderInv, FitInv
  <2>3. FailInv'
    BY <1>0, <2>1 DEF FailInv, Behind
  <2> QED  BY <1>1, <2>2, <2>3
<1> QED  BY <1>3, <1>4, <1>5

LEMMA ShrinkNext == IInv /\ [Next]_vars => IInv'
<1> SUFFICES ASSUME IInv, [Next]_vars PROVE IInv'
  OBVIOUS
<1>1. CASE Next
  BY <1>1, BuildStep, ClimbStep, HalveStep, ShrinkFailsStep, FinishStep DEF Next
<1>2. CASE UNCHANGED vars
  <2>1. /\ r' = r /\ max' = max /\ stages' = stages /\ rung' = rung
        /\ over' = over /\ pc' = pc /\ result' = result
    BY <1>2 DEF vars
  <2>2. GivenInv' /\ TypeInv' /\ RungInv' /\ MsgInv' /\ FailInv' /\ FitInv'
    BY <2>1 DEF IInv, GivenInv, TypeInv, RungInv, MsgInv, FailInv, Behind, FitInv
  <2>3. LadderInv'
    BY <2>1, SameLadder DEF IInv, LadderInv
  <2> QED  BY <2>2, <2>3 DEF IInv
<1> QED  BY <1>1, <1>2

LEMMA ShrinkInvariant == Spec => []IInv
<1>1. Init => IInv
  BY ShrinkInit
<1>2. IInv /\ [Next]_vars => IInv'
  BY ShrinkNext
<1> QED  BY <1>1, <1>2, PTL DEF Spec

-----------------------------------------------------------------------------
(* The theorems.                                                           *)

(* Write never splits a character and never loses a field in silence: in   *)
(* every state the message is a prefix of the caller's that ends where a   *)
(* character starts, and a line that is written bears the mark of          *)
(* everything it has lost.                                                 *)
THEOREM LossIsNamedInvariant == Spec => []LossIsNamed
<1>1. IInv => LossIsNamed
  <2> SUFFICES ASSUME IInv PROVE LossIsNamed
    OBVIOUS
  <2> USE DEF IInv
  <2>1. /\ r \in Fields /\ over \in Fields /\ max \in Int
        /\ r.msg \in Seq(Bytes) /\ over.msg \in Seq(Bytes)
    BY DEF GivenInv, TypeInv, Fields
  <2>2. TypeOK
    <3>1. Len(Ladder) \in 1 .. 3
      BY LadderFacts
    <3>2. Len(JobLadder) \in 1 .. 2
      BY Ladders
    <3>3. \/ stages = <<>> \/ stages = <<MkR>>
          \/ stages = JobLadder \/ stages = Ladder
      BY DEF LadderInv, TypeInv
    <3>4. Len(stages) <= 3
      <4>1. Len(<<>>) = 0 /\ Len(<<MkR>>) = 1
        OBVIOUS
      <4>2. \A n : n \in 1 .. 3 \/ n \in 1 .. 2 \/ n = 0 \/ n = 1 => n <= 3
        OBVIOUS
      <4> QED  BY <3>1, <3>2, <3>3, <4>1, <4>2, Zenon
    <3> QED  BY <2>1, <3>4 DEF TypeOK, TypeInv
  <2>3. PICK k \in 0 .. Len(r.msg) :
          /\ over.msg = SubSeq(r.msg, 1, k)
          /\ k \in 1 .. Len(r.msg) - 1 => r.msg[k + 1].start
    BY DEF MsgInv, CutOf
  <2>4. Len(over.msg) = k
    BY <2>1, <2>3
  <2>5. IsPrefix(over.msg, r.msg)
    <3>1. SubSeq(over.msg, 1, Len(over.msg)) = over.msg
      BY <2>1, SubSeqFull
    <3>2. Len(over.msg) <= Len(r.msg)
      BY <2>1, <2>3, <2>4
    <3> QED  BY <2>3, <2>4, <3>1, <3>2 DEF IsPrefix
  <2>6. Len(over.msg) \in 1 .. Len(r.msg) - 1 => r.msg[Len(over.msg) + 1].start
    BY <2>3, <2>4
  <2>7. ASSUME result = "line"
        PROVE  /\ over.attrs # r.attrs => "attrs" \in over.marks
               /\ over.job # r.job => "job" \in over.marks
               /\ over.hops # r.hops => "hops" \in over.marks
               /\ over.msg # r.msg => "truncated" \in over.marks
    <3>1. CASE over = r
      BY <3>1
    <3>2. CASE over # r
      <4>1. rung \in 1 .. Len(stages) /\ stages = Ladder
        BY <2>7, <3>2 DEF LadderInv, TypeInv
      <4>2. Named(stages[rung])
        BY <4>1, LadderFacts DEF Whole
      <4> QED  BY <4>1, <4>2 DEF RungInv, Named
    <3> QED  BY <3>1, <3>2
  <2> QED  BY <2>2, <2>5, <2>6, <2>7 DEF LossIsNamed
<1> QED  BY <1>1, ShrinkInvariant, PTL

(* The frames of the four lines that keep the marks.                       *)
LEMMA ShrinkFrames ==
  ASSUME GivenInv
  PROVE  \E jm \in Nat, hm \in Nat :
           /\ r.job \in Nat /\ r.hops \in Nat /\ frame(MkR) \in Int
           /\ frame(JobR) = frame(MkR) - r.job + jm
           /\ frame(WithoutHops(MkR)) = frame(MkR) - r.hops + hm
           /\ frame(WithoutHops(JobR)) = frame(JobR) - r.hops + hm
<1>1. MarkSize["job"] \in Nat /\ MarkSize["hops"] \in Nat
  BY ShrinkAssumption DEF Marks
<1>2. r.job \in Nat /\ r.hops \in Nat
  BY DEF GivenInv, Fields
<1>3. MkR \in Fields /\ JobR \in Fields
  BY RungsWhole DEF Whole
<1>4. frame(MkR) \in Int
  BY <1>3, BareSize
<1>5. frame(JobR) = frame(MkR) - r.job + MarkSize["job"]
  BY <1>3, MarkedFields, StepFrame DEF JobR
<1>6. frame(WithoutHops(MkR)) = frame(MkR) - r.hops + MarkSize["hops"]
  BY <1>3, MarkedFields, StepFrame
<1>7. "hops" \notin JobR.marks /\ JobR.hops = r.hops
  BY <1>3, MarkedFields, StepFields DEF JobR
<1>8. frame(WithoutHops(JobR)) = frame(JobR) - r.hops + MarkSize["hops"]
  BY <1>3, <1>7, StepFrame
<1> QED  BY <1>1, <1>2, <1>4, <1>5, <1>6, <1>8

LEMMA ShrinkSizes ==
  ASSUME GivenInv, NEW x \in Shrinks
  PROVE  \E y \in {MkR, JobR, WithoutHops(MkR), WithoutHops(JobR)} :
           Size(x) = frame(y) /\ x.hops = y.hops
<1>1. MkR \in Fields /\ JobR \in Fields
  BY RungsWhole DEF Whole
<1>2. WithoutHops(MkR) \in Fields /\ WithoutHops(JobR) \in Fields
  BY <1>1, StepFields
<1>3. PICK y \in {MkR, JobR, WithoutHops(MkR), WithoutHops(JobR)} : x = Bare(y)
  BY DEF Shrinks, MkR, JobR
<1>4. y \in Fields
  BY <1>1, <1>2, <1>3
<1>5. Bare(y).hops = y.hops
  BY <1>4 DEF Bare, Fields
<1> QED  BY <1>3, <1>4, <1>5, BareSize

(* A step that was not taken would not have helped.                        *)
LEMMA StepsNotTaken ==
  ASSUME GivenInv
  PROVE  /\ ~JobTaken => frame(JobR) >= frame(MkR)
         /\ ~HopsTaken => frame(HopsR) >= frame(AfterJob)
         /\ HopsTaken => r.hops > 0
<1>1. PICK jm \in Nat, hm \in Nat :
           /\ r.job \in Nat /\ r.hops \in Nat /\ frame(MkR) \in Int
           /\ frame(JobR) = frame(MkR) - r.job + jm
           /\ frame(WithoutHops(MkR)) = frame(MkR) - r.hops + hm
           /\ frame(WithoutHops(JobR)) = frame(JobR) - r.hops + hm
  BY ShrinkFrames
<1>2. MkR.job = r.job /\ MkR.hops = r.hops /\ MkR \in Fields
  BY MarkedFields
<1>3. JobR.hops = r.hops
  BY <1>2, StepFields DEF JobR
<1>4. AfterJob.hops = r.hops
  BY <1>2, <1>3 DEF AfterJob
<1>5. /\ AfterJob = MkR \/ AfterJob = JobR
      /\ frame(HopsR) = frame(AfterJob) - r.hops + hm
      /\ frame(AfterJob) \in Int
  BY <1>1 DEF AfterJob, HopsR
<1>6. ~JobTaken => frame(JobR) >= frame(MkR)
  BY <1>1, <1>2 DEF JobTaken, narrows
<1>7. ~HopsTaken => frame(HopsR) >= frame(AfterJob)
  BY <1>1, <1>4, <1>5 DEF HopsTaken, narrows
<1>8. HopsTaken => r.hops > 0
  BY <1>4 DEF HopsTaken
<1> QED  BY <1>6, <1>7, <1>8

(* Write keeps the evidence: a line that is written fits the cap, gives up *)
(* the identity only if no line that keeps it fits, and the write is       *)
(* refused only if no line fits at all.                                    *)
THEOREM EvidenceKeptInvariant == Spec => []EvidenceKept
<1>1. IInv => EvidenceKept
  <2> SUFFICES ASSUME IInv PROVE EvidenceKept
    OBVIOUS
  <2> USE DEF IInv
  <2>0. PICK jm \in Nat, hm \in Nat :
           /\ r.job \in Nat /\ r.hops \in Nat /\ frame(MkR) \in Int
           /\ frame(JobR) = frame(MkR) - r.job + jm
           /\ frame(WithoutHops(MkR)) = frame(MkR) - r.hops + hm
           /\ frame(WithoutHops(JobR)) = frame(JobR) - r.hops + hm
    BY ShrinkFrames
  <2>1. /\ ~JobTaken => frame(JobR) >= frame(MkR) /\ AfterJob = MkR
        /\ ~HopsTaken => frame(HopsR) >= frame(AfterJob)
        /\ HopsTaken => r.hops > 0
        /\ JobTaken => frame(JobR) < frame(MkR) /\ AfterJob = JobR
        /\ HopsR = WithoutHops(AfterJob)
    BY StepsNotTaken DEF AfterJob, JobTaken, narrows, HopsR
  <2>2. result = "line" => Size(over) <= max
    BY DEF FitInv
  <2>3. max \in Int /\ Len(stages) \in Nat
    BY DEF GivenInv, TypeInv
  <2>4. ASSUME result = "line", over.hops # r.hops, NEW x \in Shrinks,
               x.hops = r.hops
        PROVE  Size(x) > max
    <3>1. rung \in 1 .. Len(Ladder) /\ stages = Ladder
      BY <2>3, <2>4 DEF LadderInv, TypeInv
    <3>2. Ladder[rung].hops # r.hops
      BY <2>4, <3>1 DEF RungInv
    <3>3. MkR.hops = r.hops /\ JobR.hops = r.hops /\ MkR \in Fields
          /\ JobR \in Fields
      BY MarkedFields, StepFields DEF JobR
    <3>4. /\ HopsTaken
          /\ \/ ~JobTaken /\ Ladder = <<MkR, HopsR>> /\ rung = 2
             \/ JobTaken /\ Ladder = <<MkR, JobR, HopsR>> /\ rung = 3
      <4>1. CASE ~HopsTaken
        <5>1. Ladder = <<MkR>> \/ Ladder = <<MkR, JobR>>
          BY <4>1, Ladders
        <5>2. Ladder[rung] = MkR \/ Ladder[rung] = JobR
          BY <3>1, <5>1
        <5> QED  BY <3>2, <3>3, <5>2
      <4>2. CASE HopsTaken
        <5>1. \/ ~JobTaken /\ Ladder = <<MkR, HopsR>>
              \/ JobTaken /\ Ladder = <<MkR, JobR, HopsR>>
          BY <4>2, Ladders
        <5>2. CASE ~JobTaken /\ Ladder = <<MkR, HopsR>>
          <6>1. rung \in 1 .. 2 /\ Ladder[1] = MkR
            BY <3>1, <5>2
          <6> QED  BY <3>2, <3>3, <4>2, <5>2, <6>1
        <5>3. CASE JobTaken /\ Ladder = <<MkR, JobR, HopsR>>
          <6>1. rung \in 1 .. 3 /\ Ladder[1] = MkR /\ Ladder[2] = JobR
            BY <3>1, <5>3
          <6> QED  BY <3>2, <3>3, <4>2, <5>3, <6>1
        <5> QED  BY <5>1, <5>2, <5>3
      <4> QED  BY <4>1, <4>2
    <3>5. frame(MkR) > max /\ (JobTaken => frame(JobR) > max)
      <4>1. \A i \in 1 .. Len(Ladder) : i < rung => frame(Ladder[i]) > max
        BY <3>1 DEF FailInv, Behind
      <4> QED  BY <3>4, <4>1
    <3>6. frame(JobR) > max
      BY <2>0, <2>1, <2>3, <3>5
    <3>7. WithoutHops(MkR).hops = 0 /\ WithoutHops(JobR).hops = 0
      BY <3>3, StepFields
    <3>8. PICK y \in {MkR, JobR, WithoutHops(MkR), WithoutHops(JobR)} :
             Size(x) = frame(y) /\ x.hops = y.hops
      BY ShrinkSizes
    <3>9. y = MkR \/ y = JobR
      BY <2>1, <2>4, <3>4, <3>7, <3>8
    <3> QED  BY <3>5, <3>6, <3>8, <3>9
  <2>5. ASSUME result = "refused", NEW x \in Shrinks
        PROVE  Size(x) > max
    <3>1. stages = Ladder /\ rung = Len(Ladder) /\ rung \in Nat
      BY <2>3, <2>5 DEF LadderInv, TypeInv
    <3>2. \A i \in 1 .. Len(Ladder) : frame(Ladder[i]) > max
      BY <2>5, <3>1 DEF FailInv, Behind
    <3>3. /\ frame(MkR) > max /\ (JobTaken => frame(JobR) > max)
          /\ HopsTaken => frame(HopsR) > max
      <4>1. CASE ~JobTaken /\ ~HopsTaken /\ Ladder = <<MkR>>
        BY <3>2, <4>1
      <4>2. CASE JobTaken /\ ~HopsTaken /\ Ladder = <<MkR, JobR>>
        BY <3>2, <4>2
      <4>3. CASE ~JobTaken /\ HopsTaken /\ Ladder = <<MkR, HopsR>>
        BY <3>2, <4>3
      <4>4. CASE JobTaken /\ HopsTaken /\ Ladder = <<MkR, JobR, HopsR>>
        BY <3>2, <4>4
      <4> QED  BY <4>1, <4>2, <4>3, <4>4, Ladders
    <3>4. PICK y \in {MkR, JobR, WithoutHops(MkR), WithoutHops(JobR)} :
             Size(x) = frame(y)
      BY ShrinkSizes
    <3>5. frame(JobR) > max
      BY <2>0, <2>1, <2>3, <3>3
    <3>6. frame(HopsR) > max
      BY <2>0, <2>1, <2>3, <3>3, <3>5
    <3>7. frame(WithoutHops(MkR)) > max
      BY <2>0, <2>1, <2>3, <3>6
    <3>8. frame(WithoutHops(JobR)) > max
      BY <2>0, <2>1, <2>3, <3>6
    <3> QED  BY <3>3, <3>4, <3>5, <3>7, <3>8
  <2> QED  BY <2>2, <2>4, <2>5 DEF EvidenceKept
<1> QED  BY <1>1, ShrinkInvariant, PTL

(* The search for a line descends: a step that changes the record halves   *)
(* the message on the same frame, or goes to a narrower frame.  This is    *)
(* why the loops of shrunk and of Write end.                               *)
THEOREM LadderDescent == Spec => Descends
<1> DEFINE A == rung > 0 /\ over' # over =>
       \/ frame(over') < frame(over)
       \/ frame(over') = frame(over) /\ Len(over'.msg) < Len(over.msg)
<1>1. ASSUME IInv, [Next]_vars PROVE [A]_vars
  <2> USE DEF IInv
  <2>1. CASE Climb
    <3>1. /\ rung < Len(stages) /\ over' = stages[rung + 1] /\ stages = Ladder
          /\ rung \in Nat
      BY <1>1, <2>1 DEF Climb, LadderInv, TypeInv
    <3>2. ASSUME rung > 0 PROVE frame(over') < frame(over)
      <4>1. rung \in 1 .. Len(Ladder) - 1
        BY <3>1, <3>2, <1>1, LadderFacts
      <4>2. frame(Ladder[rung + 1]) < frame(Ladder[rung])
        BY <1>1, <4>1, LadderFacts
      <4>3. frame(over) = frame(Ladder[rung])
        BY <1>1, <3>1, <3>2 DEF RungInv, frame
      <4> QED  BY <3>1, <4>2, <4>3
    <3> QED  BY <3>2
  <2>2. CASE Halve
    BY <1>1, <2>2, HalveStep
  <2>3. CASE Mark \/ ShedJob \/ ShedHops
    BY <1>1, <2>3 DEF Mark, ShedJob, ShedHops, LadderInv
  <2>4. CASE EncodeFits \/ ErrLineCap \/ ShrinkFits \/ ShrinkFails
    BY <2>4 DEF EncodeFits, ErrLineCap, ShrinkFits, ShrinkFails
  <2> QED  BY <1>1, <2>1, <2>2, <2>3, <2>4 DEF Next
<1> QED  BY <1>1, ShrinkInvariant, PTL DEF Spec, Descends
-----------------------------------------------------------------------------
(* The inductive invariant.                                                *)

Word == Names \union Keys \union {NoName}
Handler == [groups : Slices, asked : Seq(Names),
            attrs : SUBSET Seq(Word), given : SUBSET Seq(Word)]

GroupsTypeInv ==
  /\ heap \in Seq(Seq(Word))
  /\ handlers \in Seq(Handler)
  /\ putPC \in [Loggers -> {"idle", "append", "read", "logged"}]
  /\ using \in [Loggers -> 1 .. Len(handlers)]
  /\ name \in [Loggers -> Word]
  /\ view \in [Loggers -> Slices]
  /\ keys \in [Loggers -> Seq(Seq(Word))]

(* The array of a handler's slice holds the groups it was asked for.  It   *)
(* has room only from three groups on: WithGroup's append made it larger   *)
(* than it had to be, and clone makes it exactly as large.                 *)
Holds(hp, s, a) ==
  /\ s.len = Len(a)
  /\ s.arr = 0 => s.len = 0
  /\ s.arr # 0 => /\ s.arr \in 1 .. Len(hp) /\ s.len > 0
                  /\ s.len <= Len(hp[s.arr])
                  /\ s.len < Len(hp[s.arr]) => s.len >= 3
                  /\ \A i \in 1 .. Len(a) : hp[s.arr][i] = a[i]
HandlersInv ==
  \A h \in 1 .. Len(handlers) : Holds(heap, handlers[h].groups, handlers[h].asked)

(* The attributes a handler was given are named as they were then.         *)
AttrsInv == \A h \in 1 .. Len(handlers) : handlers[h].attrs = handlers[h].given

(* No two handlers have the same array: WithGroup and WithAttrs clone.     *)
OwnInv ==
  \A g, h \in 1 .. Len(handlers) :
    handlers[g].groups.arr = handlers[h].groups.arr =>
      g = h \/ handlers[g].groups.arr = 0

(* Another goroutine logs through the same handler, which has spare room.  *)
Contended(l) ==
  /\ Len(handlers[using[l]].asked) >= 3
  /\ \E m \in Loggers \ {l} : using[m] = using[l] /\ putPC[m] # "idle"

(* The slice put made holds the handler's groups and the key of the group, *)
(* unless it is in the handler's own array and another goroutine is there. *)
InArray(hp, s) ==
  \/ s.arr = 0 /\ s.len = 0
  \/ s.arr \in 1 .. Len(hp) /\ s.len <= Len(hp[s.arr])
Reads(hp, s, a) ==
  /\ s.len = Len(a) + 1
  /\ \A i \in 1 .. Len(a) : hp[s.arr][i] = a[i]
Own(l) == view[l].arr = handlers[using[l]].groups.arr
Private(l) == \A h \in 1 .. Len(handlers) : handlers[h].groups.arr # view[l].arr
ViewsInv ==
  \A l \in Loggers :
    /\ InArray(heap, view[l])
    /\ putPC[l] = "read" =>
         /\ Reads(heap, view[l], handlers[using[l]].asked)
         /\ Own(l) \/ Private(l)
         /\ heap[view[l].arr][view[l].len] = name[l] \/ Contended(l)

KeysInv ==
  \A l \in Loggers : \A i \in 1 .. Len(keys[l]) :
    keys[l][i] = Append(handlers[using[l]].asked, name[l]) \/ Contended(l)

GroupsInv ==
  GroupsTypeInv /\ HandlersInv /\ AttrsInv /\ OwnInv /\ ViewsInv /\ KeysInv

-----------------------------------------------------------------------------
(* Slices and the heap.                                                    *)

LEMMA GrownFacts ==
  ASSUME NEW n \in Nat
  PROVE  Grown(n) \in Nat /\ n + 1 <= Grown(n) /\ (Grown(n) > n + 1 => n >= 2)
BY DEF Grown

LEMMA AppendFacts ==
  ASSUME NEW S, NEW s \in Seq(S), NEW x \in S
  PROVE  /\ Append(s, x) \in Seq(S) /\ Len(Append(s, x)) = Len(s) + 1
         /\ Append(s, x)[Len(s) + 1] = x
         /\ \A k \in 1 .. Len(s) : Append(s, x)[k] = s[k]
OBVIOUS

LEMMA ElementFacts ==
  ASSUME NEW S, NEW s \in Seq(S), NEW j \in 1 .. Len(s)
  PROVE  /\ s[j] \in S
         /\ \A x \in S : /\ [s EXCEPT ![j] = x] \in Seq(S)
                         /\ Len([s EXCEPT ![j] = x]) = Len(s)
                         /\ [s EXCEPT ![j] = x][j] = x
                         /\ \A k \in 1 .. Len(s) : k # j => [s EXCEPT ![j] = x][k] = s[k]
OBVIOUS

(* A handler's slice, its groups, and where its array is.                  *)
LEMMA SliceOf ==
  ASSUME GroupsTypeInv, HandlersInv, NEW h \in 1 .. Len(handlers)
  PROVE  LET s == handlers[h].groups
             a == handlers[h].asked
         IN /\ s \in Slices /\ s.arr \in Nat /\ s.len \in Nat /\ a \in Seq(Names)
            /\ Len(a) \in Nat /\ s.len = Len(a) /\ Holds(heap, s, a)
            /\ InArray(heap, s) /\ s.arr <= Len(heap) /\ Len(heap) \in Nat
            /\ handlers[h] \in Handler
<1> DEFINE s == handlers[h].groups
           a == handlers[h].asked
<1>1. handlers[h] \in Handler
  BY ElementFacts DEF GroupsTypeInv
<1>2. s \in Slices /\ a \in Seq(Names)
  BY <1>1 DEF Handler
<1>3. s.arr \in Nat /\ s.len \in Nat /\ Len(a) \in Nat /\ Len(heap) \in Nat
  BY <1>2 DEF Slices, GroupsTypeInv
<1>4. Holds(heap, s, a)
  BY DEF HandlersInv
<1> HIDE DEF s, a
<1>5. s.len = Len(a) /\ s.arr <= Len(heap)
  BY <1>3, <1>4 DEF Holds
<1>6. InArray(heap, s)
  <2>1. CASE s.arr = 0
    BY <1>4, <2>1 DEF Holds, InArray
  <2>2. CASE s.arr # 0
    BY <1>4, <2>2 DEF Holds, InArray
  <2> QED  BY <2>1, <2>2
<1> QED  BY <1>1, <1>2, <1>3, <1>4, <1>5, <1>6 DEF s, a

(* What a handler's slice holds is the groups it was asked for.            *)
LEMMA ContentIsAsked ==
  ASSUME GroupsTypeInv, HandlersInv, NEW h \in 1 .. Len(handlers)
  PROVE  Content(handlers[h].groups) = handlers[h].asked
<1>1. PICK s \in Slices, a \in Seq(Names) :
        /\ s = handlers[h].groups /\ a = handlers[h].asked
        /\ s.len = Len(a) /\ Holds(heap, s, a)
  BY SliceOf
<1>2. \A i \in 1 .. Len(a) : heap[s.arr][i] = a[i]
  <2> SUFFICES ASSUME NEW i \in 1 .. Len(a) PROVE heap[s.arr][i] = a[i]
    OBVIOUS
  <2>1. Len(a) # 0
    OBVIOUS
  <2> QED  BY <1>1, <2>1 DEF Holds
<1>3. Content(s) = [i \in 1 .. Len(a) |-> a[i]]
  BY <1>1, <1>2 DEF Content
<1>4. [i \in 1 .. Len(a) |-> a[i]] = a
  OBVIOUS
<1> QED  BY <1>1, <1>3, <1>4

(* append with a copy leaves every array alone and makes one more.         *)
LEMMA CopiedFacts ==
  ASSUME heap \in Seq(Seq(Word)), NEW s \in Slices, NEW x \in Word, InArray(heap, s)
  PROVE  LET q == Copied(s, x)
             n == Len(heap) + 1
         IN /\ q \in Seq(Seq(Word)) /\ Len(q) = n
            /\ \A k \in 1 .. Len(heap) : q[k] = heap[k]
            /\ Len(q[n]) = Grown(s.len) /\ q[n][s.len + 1] = x
            /\ \A i \in 1 .. s.len : q[n][i] = heap[s.arr][i]
<1> DEFINE new == [i \in 1 .. Grown(s.len) |->
                     IF i <= s.len THEN heap[s.arr][i]
                     ELSE IF i = s.len + 1 THEN x ELSE NoName]
<1>1. s.len \in Nat /\ s.arr \in Nat /\ Len(heap) \in Nat
  BY DEF Slices
<1>2. Grown(s.len) \in Nat /\ s.len + 1 <= Grown(s.len)
  BY <1>1, GrownFacts
<1>3. \A i \in 1 .. s.len : heap[s.arr][i] \in Word
  <2> SUFFICES ASSUME NEW i \in 1 .. s.len PROVE heap[s.arr][i] \in Word
    OBVIOUS
  <2>1. s.arr \in 1 .. Len(heap) /\ s.len <= Len(heap[s.arr])
    BY <1>1 DEF InArray
  <2>2. heap[s.arr] \in Seq(Word)
    BY <2>1
  <2>3. i \in 1 .. Len(heap[s.arr])
    BY <1>1, <2>1, <2>2
  <2> QED  BY <2>2, <2>3
<1>4. NoName \in Word
  BY DEF Word
<1>5. \A i \in 1 .. Grown(s.len) : i <= s.len => i \in 1 .. s.len
  BY <1>1
<1>6. new \in [1 .. Grown(s.len) -> Word]
  BY <1>3, <1>4, <1>5
<1>7. new \in Seq(Word) /\ Len(new) = Grown(s.len)
  <2> HIDE DEF new
  <2> QED  BY <1>2, <1>6
<1>8. new[s.len + 1] = x /\ \A i \in 1 .. s.len : new[i] = heap[s.arr][i]
  <2>1. s.len + 1 \in 1 .. Grown(s.len) /\ ~(s.len + 1 <= s.len)
    BY <1>1, <1>2
  <2>2. \A i \in 1 .. s.len : i \in 1 .. Grown(s.len) /\ i <= s.len
    BY <1>1, <1>2
  <2> QED  BY <2>1, <2>2
<1>9. Copied(s, x) = Append(heap, new)
  BY DEF Copied
<1> HIDE DEF new
<1>10. /\ Append(heap, new) \in Seq(Seq(Word)) /\ Len(Append(heap, new)) = Len(heap) + 1
       /\ Append(heap, new)[Len(heap) + 1] = new
       /\ \A k \in 1 .. Len(heap) : Append(heap, new)[k] = heap[k]
  BY <1>7, AppendFacts
<1> QED  BY <1>7, <1>8, <1>9, <1>10

(* append in place changes one element behind the end of the slice.        *)
LEMMA InPlaceFacts ==
  ASSUME heap \in Seq(Seq(Word)), NEW s \in Slices, NEW x \in Word,
         s.arr \in 1 .. Len(heap), s.len < Len(heap[s.arr])
  PROVE  LET q == InPlace(s, x)
         IN /\ q \in Seq(Seq(Word)) /\ Len(q) = Len(heap)
            /\ \A k \in 1 .. Len(heap) : Len(q[k]) = Len(heap[k])
            /\ \A k \in 1 .. Len(heap) : k # s.arr => q[k] = heap[k]
            /\ q[s.arr][s.len + 1] = x
            /\ \A i \in 1 .. s.len : q[s.arr][i] = heap[s.arr][i]
<1>1. s.len \in Nat /\ Len(heap) \in Nat /\ heap[s.arr] \in Seq(Word)
      /\ Len(heap[s.arr]) \in Nat
  BY DEF Slices
<1>2. PICK b \in Seq(Word) : b = heap[s.arr]
  BY <1>1
<1>3. PICK j \in 1 .. Len(b) : j = s.len + 1
  BY <1>1, <1>2
<1>4. PICK c \in Seq(Word) : /\ c = [b EXCEPT ![j] = x] /\ Len(c) = Len(b) /\ c[j] = x
                             /\ \A i \in 1 .. Len(b) : i # j => c[i] = b[i]
  <2> DEFINE c == [b EXCEPT ![j] = x]
  <2>1. c \in Seq(Word) /\ Len(c) = Len(b) /\ c[j] = x
        /\ \A i \in 1 .. Len(b) : i # j => c[i] = b[i]
    BY ElementFacts
  <2> QED  BY <2>1
<1>5. InPlace(s, x) = [heap EXCEPT ![s.arr] = c]
  BY <1>2, <1>3, <1>4 DEF InPlace
<1>6. PICK q \in Seq(Seq(Word)) : /\ q = [heap EXCEPT ![s.arr] = c]
                                  /\ Len(q) = Len(heap) /\ q[s.arr] = c
                                  /\ \A k \in 1 .. Len(heap) : k # s.arr => q[k] = heap[k]
  <2>1. PICK m \in 1 .. Len(heap) : m = s.arr
    OBVIOUS
  <2>2. /\ [heap EXCEPT ![m] = c] \in Seq(Seq(Word))
        /\ Len([heap EXCEPT ![m] = c]) = Len(heap) /\ [heap EXCEPT ![m] = c][m] = c
        /\ \A k \in 1 .. Len(heap) : k # m => [heap EXCEPT ![m] = c][k] = heap[k]
    BY <2>1
  <2> QED  BY <2>1, <2>2
<1>7. \A i \in 1 .. s.len : i \in 1 .. Len(b) /\ i # j
  BY <1>1, <1>2, <1>3
<1>8. q[s.arr][s.len + 1] = x /\ \A i \in 1 .. s.len : q[s.arr][i] = heap[s.arr][i]
  BY <1>2, <1>3, <1>4, <1>6, <1>7
<1>9. \A k \in 1 .. Len(heap) : Len(q[k]) = Len(heap[k])
  BY <1>2, <1>4, <1>6
<1> QED  BY <1>5, <1>6, <1>8, <1>9

-----------------------------------------------------------------------------
(* The steps.                                                              *)

(* Who is contending goes on contending: a Handle that began stays with    *)
(* its handler, and a handler with its groups.                             *)
LEMMA ContendedStays ==
  ASSUME NEW l \in Loggers, Contended(l), using'[l] = using[l],
         handlers'[using[l]].asked = handlers[using[l]].asked,
         \A m \in Loggers : putPC[m] # "idle" => using'[m] = using[m] /\ putPC'[m] # "idle"
  PROVE  Contended(l)'
<1>1. PICK m \in Loggers \ {l} : using[m] = using[l] /\ putPC[m] # "idle"
  BY DEF Contended
<1>2. using'[m] = using'[l] /\ putPC'[m] # "idle"
  BY <1>1
<1>3. Len(handlers'[using'[l]].asked) >= 3
  BY DEF Contended
<1> QED  BY <1>2, <1>3 DEF Contended

(* A slice in an array that is as it was holds and reads what it did.      *)
LEMMA SameArray ==
  ASSUME NEW hp, NEW hq, NEW s \in Slices, NEW a, Len(hp) \in Nat, Len(hq) \in Nat,
         Len(hp) <= Len(hq), \A k \in 1 .. Len(hp) : hq[k] = hp[k]
  PROVE  /\ Holds(hp, s, a) => Holds(hq, s, a)
         /\ InArray(hp, s) => InArray(hq, s)
<1>1. s.arr \in Nat /\ s.len \in Nat
  BY DEF Slices
<1>2. \A k \in 1 .. Len(hp) : k \in 1 .. Len(hq)
  OBVIOUS
<1>3. Holds(hp, s, a) => Holds(hq, s, a)
  BY <1>1, <1>2 DEF Holds
<1>4. InArray(hp, s) => InArray(hq, s)
  BY <1>1, <1>2 DEF InArray
<1> QED  BY <1>3, <1>4

(* A handler is made: its slice has an array of its own or none, and every *)
(* other array is as it was.                                               *)
LEMMA NewHandlerStep ==
  ASSUME GroupsInv, NEW new \in Handler,
         handlers' = Append(handlers, new),
         UNCHANGED <<putPC, using, name, view, keys>>,
         heap' \in Seq(Seq(Word)), Len(heap) <= Len(heap'),
         \A k \in 1 .. Len(heap) : heap'[k] = heap[k],
         Holds(heap', new.groups, new.asked), new.attrs = new.given,
         new.groups.arr = 0 \/ new.groups.arr > Len(heap)
  PROVE  GroupsInv'
<1>0. GroupsTypeInv /\ HandlersInv /\ AttrsInv /\ OwnInv /\ ViewsInv /\ KeysInv
  BY DEF GroupsInv
<1>1. /\ handlers' = Append(handlers, new)
      /\ UNCHANGED <<putPC, using, name, view, keys>>
  OBVIOUS
<1>2. PICK n \in Nat : n = Len(handlers)
  BY <1>0 DEF GroupsTypeInv
<1>3. PICK z \in Nat : z = Len(heap)
  BY <1>0 DEF GroupsTypeInv
<1>7. new.groups \in Slices /\ new.groups.arr \in Nat
  BY DEF Handler, Slices
<1>8. /\ handlers' \in Seq(Handler)
      /\ Len(handlers') = n + 1 /\ handlers'[n + 1] = new
      /\ \A g \in 1 .. n : handlers'[g] = handlers[g]
  BY <1>0, <1>1, <1>2, AppendFacts DEF GroupsTypeInv
<1>9. \A g \in 1 .. n + 1 : g \in 1 .. n \/ g = n + 1
  OBVIOUS
<1>9a. /\ Len(heap) \in Nat /\ Len(heap') \in Nat /\ Len(heap) <= Len(heap')
       /\ \A k \in 1 .. Len(heap) : heap'[k] = heap[k]
  BY <1>0 DEF GroupsTypeInv
<1>10. \A g \in 1 .. n : handlers[g].groups.arr \in Nat /\ handlers[g].groups.arr <= z
                         /\ handlers[g].groups \in Slices
  BY <1>0, <1>2, <1>3, SliceOf
<1>11. GroupsTypeInv'
  <2>1. 1 .. n \in SUBSET (1 .. n + 1)
    OBVIOUS
  <2>2. using \in [Loggers -> 1 .. n]
    BY <1>0, <1>2 DEF GroupsTypeInv
  <2>3. using \in [Loggers -> 1 .. n + 1]
    BY <2>1, <2>2
  <2> QED  BY <1>0, <1>1, <1>8, <2>3 DEF GroupsTypeInv
<1>12. HandlersInv'
  <2> SUFFICES ASSUME NEW g \in 1 .. n + 1
               PROVE  Holds(heap', handlers'[g].groups, handlers'[g].asked)
    BY <1>8 DEF HandlersInv
  <2>1. CASE g \in 1 .. n
    <3>1. Holds(heap, handlers[g].groups, handlers[g].asked)
      BY <1>0, <1>2, <2>1 DEF HandlersInv
    <3>2. handlers[g].groups \in Slices
      BY <1>10, <2>1
    <3>3. Holds(heap', handlers[g].groups, handlers[g].asked)
      BY <1>9a, <3>1, <3>2, SameArray
    <3> QED  BY <1>8, <2>1, <3>3
  <2>2. CASE g = n + 1
    BY <1>8, <2>2
  <2> QED  BY <1>9, <2>1, <2>2
<1>12a. AttrsInv'
  BY <1>0, <1>2, <1>8, <1>9 DEF AttrsInv
<1>13. OwnInv'
  <2> SUFFICES ASSUME NEW g \in 1 .. n + 1, NEW d \in 1 .. n + 1,
                      handlers'[g].groups.arr = handlers'[d].groups.arr
               PROVE  g = d \/ handlers'[g].groups.arr = 0
    BY <1>8 DEF OwnInv
  <2>1. CASE g \in 1 .. n /\ d \in 1 .. n
    <3>1. /\ handlers'[g].groups.arr = handlers[g].groups.arr
          /\ handlers'[d].groups.arr = handlers[d].groups.arr
      BY <1>8, <2>1, Zenon
    <3>2. handlers[g].groups.arr = handlers[d].groups.arr
      BY <3>1, Zenon
    <3>3. g = d \/ handlers[g].groups.arr = 0
      BY <1>0, <1>2, <2>1, <3>2, Zenon DEF OwnInv
    <3> QED  BY <3>1, <3>3, Zenon
  <2>2. ASSUME NEW k \in 1 .. n PROVE handlers'[k].groups.arr <= z
    <3>1. handlers'[k].groups.arr = handlers[k].groups.arr
      BY <1>8, Zenon
    <3>2. handlers[k].groups.arr <= z
      BY <1>10, Zenon
    <3> QED  BY <3>1, <3>2, Zenon
  <2>3. /\ handlers'[n + 1].groups.arr = new.groups.arr
        /\ new.groups.arr = 0 \/ new.groups.arr > z
    BY <1>3, <1>8
  <2>4. \A k \in 1 .. n : handlers'[k].groups.arr \in Nat
    <3> SUFFICES ASSUME NEW k \in 1 .. n PROVE handlers'[k].groups.arr \in Nat
      OBVIOUS
    <3>1. handlers'[k].groups.arr = handlers[k].groups.arr
      BY <1>8, Zenon
    <3>2. handlers[k].groups.arr \in Nat
      BY <1>10, Zenon
    <3> QED  BY <3>1, <3>2, Zenon
  <2>5. ASSUME NEW k \in 1 .. n,
               \/ handlers'[k].groups.arr = new.groups.arr
               \/ new.groups.arr = handlers'[k].groups.arr
        PROVE  new.groups.arr = 0
    BY <1>3, <1>7, <2>2, <2>3, <2>4, <2>5
  <2>6. CASE g \in 1 .. n /\ d = n + 1
    <3>1. handlers'[g].groups.arr = new.groups.arr
      BY <2>3, <2>6, Zenon
    <3> QED  BY <2>5, <2>6, <3>1, Zenon
  <2>7. CASE g = n + 1 /\ d \in 1 .. n
    <3>1. handlers'[d].groups.arr = new.groups.arr
      BY <2>3, <2>7, Zenon
    <3>2. handlers'[g].groups.arr = new.groups.arr
      BY <2>3, <2>7, Zenon
    <3> QED  BY <2>5, <2>7, <3>1, <3>2, Zenon
  <2> QED  BY <1>9, <2>1, <2>6, <2>7, Zenon
<1>14. ASSUME NEW l \in Loggers
       PROVE  /\ using[l] \in 1 .. n /\ handlers'[using[l]] = handlers[using[l]]
              /\ Contended(l) => Contended(l)'
  <2>1. using[l] \in 1 .. n
    BY <1>0, <1>2 DEF GroupsTypeInv
  <2>2. handlers'[using[l]] = handlers[using[l]]
    BY <1>8, <2>1
  <2> QED  BY <1>1, <2>1, <2>2, ContendedStays
<1>15. ViewsInv'
  <2> SUFFICES ASSUME NEW l \in Loggers
               PROVE  /\ InArray(heap', view[l])
                      /\ putPC[l] = "read" =>
                           /\ Reads(heap', view[l], handlers[using[l]].asked)
                           /\ (Own(l) \/ Private(l))'
                           /\ \/ heap'[view[l].arr][view[l].len] = name[l]
                              \/ Contended(l)'
    BY <1>1, <1>14 DEF ViewsInv
  <2>1. view[l] \in Slices /\ InArray(heap, view[l]) /\ view[l].arr \in Nat
    BY <1>0 DEF GroupsTypeInv, ViewsInv, Slices
  <2>2. InArray(heap', view[l])
    BY <1>9a, <2>1, SameArray
  <2>3. ASSUME putPC[l] = "read"
        PROVE  /\ Reads(heap', view[l], handlers[using[l]].asked)
               /\ (Own(l) \/ Private(l))'
               /\ \/ heap'[view[l].arr][view[l].len] = name[l]
                  \/ Contended(l)'
    <3>1. /\ Reads(heap, view[l], handlers[using[l]].asked)
          /\ Own(l) \/ Private(l)
          /\ heap[view[l].arr][view[l].len] = name[l] \/ Contended(l)
      BY <1>0, <2>3 DEF ViewsInv
    <3>2. view[l].len > 0
      <4>1. Len(handlers[using[l]].asked) \in Nat
        BY <1>0, <1>2, <1>14, SliceOf
      <4> QED  BY <3>1, <4>1 DEF Reads
    <3>3. /\ heap'[view[l].arr] = heap[view[l].arr]
          /\ Reads(heap', view[l], handlers[using[l]].asked)
      <4>1. view[l].arr \in 1 .. Len(heap)
        BY <2>1, <3>2 DEF InArray
      <4>2. heap'[view[l].arr] = heap[view[l].arr]
        BY <1>9a, <4>1
      <4> QED  BY <3>1, <4>2 DEF Reads
    <3>4. view[l].arr # new.groups.arr
      BY <1>3, <1>7, <2>1, <3>2 DEF InArray
    <3>5. Own(l) => Own(l)'
      BY <1>1, <1>14 DEF Own
    <3>6. Private(l) => Private(l)'
      BY <1>1, <1>2, <1>7, <1>8, <1>9, <3>4 DEF Private
    <3> QED  BY <1>14, <3>1, <3>3, <3>5, <3>6
  <2> QED  BY <2>2, <2>3
<1>16. KeysInv'
  BY <1>0, <1>1, <1>14 DEF KeysInv
<1> QED  BY <1>11, <1>12, <1>12a, <1>13, <1>15, <1>16 DEF GroupsInv

LEMMA WithGroupStep ==
  ASSUME GroupsInv, NEW h \in DOMAIN handlers, NEW x \in Names, WithGroup(h, x)
  PROVE  GroupsInv'
<1> DEFINE s == handlers[h].groups
           a == handlers[h].asked
           t == [arr |-> Len(heap) + 1, len |-> s.len + 1]
           new == [groups |-> t, asked |-> Append(a, x),
                   attrs |-> handlers[h].attrs, given |-> handlers[h].given]
<1>0. /\ GroupsTypeInv /\ HandlersInv /\ AttrsInv
      /\ h \in 1 .. Len(handlers) /\ x \in Word
      /\ heap \in Seq(Seq(Word)) /\ handlers[h].attrs = handlers[h].given
  <2>1. GroupsTypeInv /\ HandlersInv /\ AttrsInv /\ x \in Word
    BY DEF GroupsInv, Word
  <2>2. h \in 1 .. Len(handlers) /\ heap \in Seq(Seq(Word))
    BY <2>1 DEF GroupsTypeInv
  <2> QED  BY <2>1, <2>2 DEF AttrsInv
<1>1. /\ heap' = Copied(s, x) /\ handlers' = Append(handlers, new)
      /\ UNCHANGED <<putPC, using, name, view, keys>>
  BY DEF WithGroup, WithGroupCloned
<1>3. PICK z \in Nat : z = Len(heap)
  BY <1>0
<1>4. /\ s \in Slices /\ s.arr \in Nat /\ s.len \in Nat /\ a \in Seq(Names)
      /\ s.len = Len(a) /\ InArray(heap, s) /\ Holds(heap, s, a)
      /\ handlers[h] \in Handler
  BY <1>0, SliceOf
<1>4a. /\ handlers[h].attrs \in SUBSET Seq(Word)
       /\ handlers[h].given \in SUBSET Seq(Word)
  BY <1>4 DEF Handler
<1> HIDE DEF s, a
<1>5. /\ heap' \in Seq(Seq(Word)) /\ Len(heap') = z + 1
      /\ \A k \in 1 .. z : heap'[k] = heap[k]
      /\ Len(heap'[z + 1]) = Grown(s.len) /\ heap'[z + 1][s.len + 1] = x
      /\ \A i \in 1 .. s.len : heap'[z + 1][i] = heap[s.arr][i]
  BY <1>0, <1>1, <1>3, <1>4, CopiedFacts
<1>6. /\ Append(a, x) \in Seq(Names) /\ Len(Append(a, x)) = s.len + 1
      /\ Append(a, x)[s.len + 1] = x
      /\ \A i \in 1 .. s.len : Append(a, x)[i] = a[i]
  BY <1>4, AppendFacts
<1>7. t \in Slices /\ t.arr = z + 1 /\ t.len = s.len + 1
  BY <1>3, <1>4 DEF Slices
<1> HIDE DEF t
<1>8. new \in Handler /\ new.groups = t /\ new.asked = Append(a, x)
      /\ new.attrs = new.given
  BY <1>0, <1>4a, <1>6, <1>7 DEF Handler
<1>9. Holds(heap', t, Append(a, x))
  <2>1. t.arr # 0 /\ t.arr \in 1 .. Len(heap') /\ t.len > 0
        /\ t.len = Len(Append(a, x))
    BY <1>4, <1>5, <1>6, <1>7
  <2>2. Grown(s.len) \in Nat /\ s.len + 1 <= Grown(s.len)
        /\ (Grown(s.len) > s.len + 1 => s.len >= 2)
    BY <1>4, GrownFacts
  <2>3. t.len <= Len(heap'[t.arr]) /\ (t.len < Len(heap'[t.arr]) => t.len >= 3)
    BY <1>4, <1>5, <1>7, <2>2
  <2>4. ASSUME NEW i \in 1 .. s.len + 1 PROVE heap'[z + 1][i] = Append(a, x)[i]
    <3>1. CASE i = s.len + 1
      BY <1>5, <1>6, <3>1
    <3>2. CASE i # s.len + 1
      <4>1. i \in 1 .. s.len
        BY <1>4, <3>2
      <4>2. s.arr # 0
        BY <1>4, <4>1 DEF Holds
      <4>3. heap[s.arr][i] = a[i]
        BY <1>4, <4>1, <4>2 DEF Holds
      <4> QED  BY <1>5, <1>6, <4>1, <4>3
    <3> QED  BY <3>1, <3>2
  <2>5. \A i \in 1 .. Len(Append(a, x)) : heap'[t.arr][i] = Append(a, x)[i]
    BY <1>6, <1>7, <2>4
  <2> QED  BY <2>1, <2>3, <2>5 DEF Holds
<1> HIDE DEF new
<1>10. /\ heap' \in Seq(Seq(Word)) /\ Len(heap) <= Len(heap')
       /\ \A k \in 1 .. Len(heap) : heap'[k] = heap[k]
       /\ new.groups.arr > Len(heap)
  BY <1>3, <1>5, <1>7, <1>8
<1>11. Holds(heap', new.groups, new.asked) /\ new.attrs = new.given /\ new \in Handler
  BY <1>8, <1>9, Zenon
<1> QED  BY <1>1, <1>10, <1>11, NewHandlerStep

LEMMA WithAttrsStep ==
  ASSUME GroupsInv, NEW h \in DOMAIN handlers, NEW x \in Keys, WithAttrs(h, x)
  PROVE  GroupsInv'
<1> DEFINE s == handlers[h].groups
           a == handlers[h].asked
           t == CloneOf(s)
           new == [groups |-> t, asked |-> a,
                   attrs |-> handlers[h].attrs \union {Append(Content(s), x)},
                   given |-> handlers[h].given \union {Append(a, x)}]
<1>0. /\ GroupsTypeInv /\ HandlersInv /\ AttrsInv
      /\ h \in 1 .. Len(handlers) /\ x \in Word
      /\ heap \in Seq(Seq(Word)) /\ handlers[h].attrs = handlers[h].given
  <2>1. GroupsTypeInv /\ HandlersInv /\ AttrsInv /\ x \in Word
    BY DEF GroupsInv, Word
  <2>2. h \in 1 .. Len(handlers) /\ heap \in Seq(Seq(Word))
    BY <2>1 DEF GroupsTypeInv
  <2> QED  BY <2>1, <2>2 DEF AttrsInv
<1>1. /\ heap' = Cloned(s) /\ handlers' = Append(handlers, new)
      /\ UNCHANGED <<putPC, using, name, view, keys>>
  BY DEF WithAttrs
<1>2. Content(s) = a
  BY <1>0, ContentIsAsked
<1>3. PICK z \in Nat : z = Len(heap)
  BY <1>0
<1>4. /\ s \in Slices /\ s.arr \in Nat /\ s.len \in Nat /\ a \in Seq(Names)
      /\ s.len = Len(a) /\ handlers[h] \in Handler
  BY <1>0, SliceOf
<1>5. /\ handlers[h].attrs \in SUBSET Seq(Word)
      /\ handlers[h].given \in SUBSET Seq(Word)
  BY <1>4 DEF Handler
<1> HIDE DEF s, a
<1>6. a \in Seq(Word) /\ Append(a, x) \in Seq(Word)
  <2>1. PICK q \in Seq(Names) : q = a
    BY <1>4
  <2>2. q \in Seq(Word)
    BY DEF Word
  <2> QED  BY <1>0, <2>1, <2>2, AppendFacts
<1>7. t \in Slices /\ t.len = s.len /\ t.arr = (IF s.len = 0 THEN 0 ELSE z + 1)
  BY <1>3, <1>4 DEF CloneOf, Nil, Slices
<1>8. /\ heap' \in Seq(Seq(Word)) /\ z <= Len(heap')
      /\ \A k \in 1 .. z : heap'[k] = heap[k]
      /\ s.len # 0 => Len(heap') = z + 1 /\ heap'[z + 1] = a
  <2>1. CASE s.len = 0
    BY <1>0, <1>1, <1>3, <2>1 DEF Cloned
  <2>2. CASE s.len # 0
    <3>1. heap' = Append(heap, a)
      BY <1>1, <1>2, <2>2 DEF Cloned
    <3> QED  BY <1>0, <1>3, <1>6, <3>1, AppendFacts
  <2> QED  BY <2>1, <2>2
<1> HIDE DEF t
<1>9. Holds(heap', t, a)
  <2>1. CASE s.len = 0
    BY <1>4, <1>7, <2>1 DEF Holds
  <2>2. CASE s.len # 0
    <3>1. t.arr = z + 1 /\ t.arr # 0 /\ t.len > 0 /\ t.len = Len(a)
          /\ t.arr \in 1 .. Len(heap') /\ heap'[t.arr] = a
      BY <1>4, <1>7, <1>8, <2>2
    <3> QED  BY <1>4, <1>7, <3>1 DEF Holds
  <2> QED  BY <2>1, <2>2
<1>10. new \in Handler /\ new.groups = t /\ new.asked = a /\ new.attrs = new.given
  BY <1>0, <1>2, <1>4, <1>5, <1>6, <1>7 DEF Handler
<1>11. t.arr = 0 \/ t.arr > z
  BY <1>7
<1> HIDE DEF new
<1> QED  BY <1>1, <1>3, <1>8, <1>9, <1>10, <1>11, NewHandlerStep

LEMMA HandleStep ==
  ASSUME GroupsInv, NEW l \in Loggers, NEW h \in DOMAIN handlers, NEW x \in Keys,
         Handle(l, h, x)
  PROVE  GroupsInv'
<1>0. GroupsTypeInv /\ HandlersInv /\ AttrsInv /\ OwnInv /\ ViewsInv /\ KeysInv
      /\ x \in Word
  BY DEF GroupsInv, Word
<1>1. /\ putPC[l] = "idle" /\ putPC' = [putPC EXCEPT ![l] = "append"]
      /\ using' = [using EXCEPT ![l] = h] /\ name' = [name EXCEPT ![l] = x]
      /\ keys' = [keys EXCEPT ![l] = <<>>] /\ UNCHANGED <<heap, handlers, view>>
  BY DEF Handle
<1>2. h \in 1 .. Len(handlers)
  <2>1. PICK R : handlers \in Seq(R)
    BY <1>0 DEF GroupsTypeInv
  <2> QED  BY <2>1
<1>3. GroupsTypeInv'
  <2>1. <<>> \in Seq(Seq(Word))
    OBVIOUS
  <2> QED  BY <1>0, <1>1, <1>2, <2>1 DEF GroupsTypeInv
<1>4. HandlersInv' /\ AttrsInv' /\ OwnInv'
  BY <1>0, <1>1 DEF HandlersInv, AttrsInv, OwnInv
<1>5. /\ putPC'[l] = "append" /\ keys'[l] = <<>>
      /\ \A m \in Loggers : m # l => /\ putPC'[m] = putPC[m] /\ using'[m] = using[m]
                                    /\ name'[m] = name[m] /\ keys'[m] = keys[m]
  BY <1>0, <1>1 DEF GroupsTypeInv
<1>6. ASSUME NEW m \in Loggers, m # l
      PROVE  (Contended(m) => Contended(m)') /\ (Own(m) => Own(m)')
             /\ (Private(m) => Private(m)')
  <2>1. Contended(m) => Contended(m)'
    BY <1>1, <1>5, <1>6, ContendedStays
  <2> QED  BY <1>1, <1>5, <1>6, <2>1 DEF Own, Private
<1>7. ViewsInv'
  <2> SUFFICES ASSUME NEW m \in Loggers
               PROVE  /\ InArray(heap, view[m])
                      /\ putPC'[m] = "read" =>
                           /\ Reads(heap, view[m], handlers[using'[m]].asked)
                           /\ (Own(m) \/ Private(m))'
                           /\ \/ heap[view[m].arr][view[m].len] = name'[m]
                              \/ Contended(m)'
    BY <1>1 DEF ViewsInv
  <2>1. CASE m = l
    BY <1>0, <1>5, <2>1 DEF ViewsInv
  <2>2. CASE m # l
    BY <1>0, <1>5, <1>6, <2>2 DEF ViewsInv
  <2> QED  BY <2>1, <2>2
<1>8. KeysInv'
  <2> SUFFICES ASSUME NEW m \in Loggers, NEW i \in 1 .. Len(keys'[m])
               PROVE  \/ keys'[m][i] = Append(handlers[using'[m]].asked, name'[m])
                      \/ Contended(m)'
    BY <1>1 DEF KeysInv
  <2>1. m # l
    BY <1>5
  <2> QED  BY <1>0, <1>5, <1>6, <2>1 DEF KeysInv
<1> QED  BY <1>3, <1>4, <1>7, <1>8 DEF GroupsInv

(* The slice that put made, as a sequence.                                 *)
LEMMA KeyIsContent ==
  ASSUME GroupsInv, NEW l \in Loggers, putPC[l] = "read"
  PROVE  /\ Key(l) \in Seq(Word)
         /\ Key(l) = Append(handlers[using[l]].asked, name[l]) \/ Contended(l)
<1> DEFINE a == handlers[using[l]].asked
<1>1. /\ view[l] \in Slices /\ view[l].len \in Nat /\ view[l].arr \in Nat
      /\ heap \in Seq(Seq(Word)) /\ name[l] \in Word
  BY DEF GroupsInv, GroupsTypeInv, Slices
<1>2. a \in Seq(Names) /\ Len(a) \in Nat
  <2>1. using[l] \in 1 .. Len(handlers)
    BY DEF GroupsInv, GroupsTypeInv
  <2> QED  BY <2>1, SliceOf DEF GroupsInv
<1>3. /\ InArray(heap, view[l]) /\ view[l].len = Len(a) + 1
      /\ \A i \in 1 .. Len(a) : heap[view[l].arr][i] = a[i]
      /\ heap[view[l].arr][view[l].len] = name[l] \/ Contended(l)
  BY DEF GroupsInv, ViewsInv, Reads
<1>4. PICK n \in Nat : n = Len(a) /\ view[l].len = n + 1
  BY <1>2, <1>3
<1>5. PICK b \in Seq(Word) : b = heap[view[l].arr] /\ n + 1 <= Len(b)
  <2>1. view[l].arr \in 1 .. Len(heap) /\ n + 1 <= Len(heap[view[l].arr])
    BY <1>3, <1>4 DEF InArray
  <2>2. heap[view[l].arr] \in Seq(Word)
    BY <1>1, <2>1, ElementFacts
  <2> QED  BY <2>1, <2>2
<1>6. Key(l) = [i \in 1 .. n + 1 |-> b[i]]
  BY <1>4, <1>5 DEF Key, Content
<1>7. \A i \in 1 .. n + 1 : b[i] \in Word
  <2>1. \A i \in 1 .. n + 1 : i \in 1 .. Len(b)
    BY <1>5
  <2> QED  BY <1>5, <2>1, ElementFacts
<1>8. Key(l) \in Seq(Word) /\ Len(Key(l)) = n + 1
      /\ \A i \in 1 .. n + 1 : Key(l)[i] = b[i]
  BY <1>6, <1>7
<1>9. ASSUME heap[view[l].arr][view[l].len] = name[l]
      PROVE  Key(l) = Append(a, name[l])
  <2>1. a \in Seq(Word)
    <3>1. PICK t \in Seq(Names) : t = a
      BY <1>2
    <3>2. t \in Seq(Word)
      BY DEF Word
    <3> QED  BY <3>1, <3>2
  <2> HIDE DEF a
  <2>2. /\ Append(a, name[l]) \in Seq(Word) /\ Len(Append(a, name[l])) = n + 1
        /\ Append(a, name[l])[n + 1] = name[l]
        /\ \A i \in 1 .. n : Append(a, name[l])[i] = a[i]
    BY <1>1, <1>4, <2>1, AppendFacts
  <2>3. b[n + 1] = name[l] /\ \A i \in 1 .. n : b[i] = a[i]
    BY <1>3, <1>4, <1>5, <1>9 DEF a
  <2>4. \A i \in 1 .. n + 1 : i \in 1 .. n \/ i = n + 1
    OBVIOUS
  <2>5. \A i \in 1 .. n + 1 : Key(l)[i] = Append(a, name[l])[i]
    BY <1>8, <2>2, <2>3, <2>4
  <2> QED  BY <1>8, <2>2, <2>5, SeqEqual
<1> QED  BY <1>3, <1>8, <1>9

LEMMA KeyStep ==
  ASSUME GroupsInv, NEW l \in Loggers, PutKey(l)
  PROVE  GroupsInv'
<1>0. GroupsTypeInv /\ HandlersInv /\ AttrsInv /\ OwnInv /\ ViewsInv /\ KeysInv
  BY DEF GroupsInv
<1>1. /\ putPC[l] = "read" /\ keys' = [keys EXCEPT ![l] = Append(keys[l], Key(l))]
      /\ putPC' = [putPC EXCEPT ![l] = IF Len(keys[l]) = 0 THEN "append" ELSE "logged"]
      /\ UNCHANGED <<heap, handlers, using, name, view>>
  BY DEF PutKey
<1>2. /\ Key(l) \in Seq(Word)
      /\ Key(l) = Append(handlers[using[l]].asked, name[l]) \/ Contended(l)
  BY <1>1, KeyIsContent
<1>3. keys[l] \in Seq(Seq(Word)) /\ Len(keys[l]) \in Nat
  BY <1>0 DEF GroupsTypeInv
<1>4. /\ Append(keys[l], Key(l)) \in Seq(Seq(Word))
      /\ Len(Append(keys[l], Key(l))) = Len(keys[l]) + 1
      /\ Append(keys[l], Key(l))[Len(keys[l]) + 1] = Key(l)
      /\ \A i \in 1 .. Len(keys[l]) : Append(keys[l], Key(l))[i] = keys[l][i]
  BY <1>2, <1>3, AppendFacts
<1>5. GroupsTypeInv'
  BY <1>0, <1>1, <1>4 DEF GroupsTypeInv
<1>6. HandlersInv' /\ AttrsInv' /\ OwnInv'
  BY <1>0, <1>1 DEF HandlersInv, AttrsInv, OwnInv
<1>7. /\ putPC'[l] \in {"append", "logged"} /\ keys'[l] = Append(keys[l], Key(l))
      /\ \A m \in Loggers : m # l => putPC'[m] = putPC[m] /\ keys'[m] = keys[m]
  BY <1>0, <1>1 DEF GroupsTypeInv
<1>8. ASSUME NEW m \in Loggers
      PROVE  (Contended(m) => Contended(m)') /\ (Own(m) => Own(m)')
             /\ (Private(m) => Private(m)')
  <2>1. Contended(m) => Contended(m)'
    BY <1>1, <1>7, ContendedStays
  <2> QED  BY <1>1, <2>1 DEF Own, Private
<1>9. ViewsInv'
  <2> SUFFICES ASSUME NEW m \in Loggers
               PROVE  /\ InArray(heap, view[m])
                      /\ putPC'[m] = "read" =>
                           /\ Reads(heap, view[m], handlers[using[m]].asked)
                           /\ (Own(m) \/ Private(m))'
                           /\ \/ heap[view[m].arr][view[m].len] = name[m]
                              \/ Contended(m)'
    BY <1>1 DEF ViewsInv
  <2> QED  BY <1>0, <1>7, <1>8 DEF ViewsInv
<1>10. KeysInv'
  <2> SUFFICES ASSUME NEW m \in Loggers, NEW i \in 1 .. Len(keys'[m])
               PROVE  \/ keys'[m][i] = Append(handlers[using[m]].asked, name[m])
                      \/ Contended(m)'
    BY <1>1 DEF KeysInv
  <2>1. CASE m # l
    BY <1>0, <1>7, <1>8, <2>1 DEF KeysInv
  <2>2. CASE m = l
    <3>1. i \in 1 .. Len(keys[l]) \/ i = Len(keys[l]) + 1
      BY <1>3, <1>4, <1>7, <2>2
    <3>2. \/ keys'[l][i] = Append(handlers[using[l]].asked, name[l])
          \/ Contended(l)
      BY <1>0, <1>2, <1>4, <1>7, <2>2, <3>1 DEF KeysInv
    <3> QED  BY <1>8, <2>2, <3>2
  <2> QED  BY <2>1, <2>2
<1> QED  BY <1>5, <1>6, <1>9, <1>10 DEF GroupsInv

(* What an append of put has to leave for the others to find.              *)
LEMMA AppendFrame ==
  ASSUME GroupsInv, NEW l \in Loggers, putPC[l] = "append", NEW t \in Slices,
         putPC' = [putPC EXCEPT ![l] = "read"], view' = [view EXCEPT ![l] = t],
         UNCHANGED <<handlers, using, name, keys>>,
         heap' \in Seq(Seq(Word)), HandlersInv',
         InArray(heap', t), Reads(heap', t, handlers[using[l]].asked),
         \/ t.arr = handlers[using[l]].groups.arr
         \/ \A h \in 1 .. Len(handlers) : handlers[h].groups.arr # t.arr,
         heap'[t.arr][t.len] = name[l],
         \A m \in Loggers : m # l =>
           /\ InArray(heap', view[m])
           /\ putPC[m] = "read" =>
                /\ Reads(heap', view[m], handlers[using[m]].asked)
                /\ \/ heap'[view[m].arr][view[m].len] = heap[view[m].arr][view[m].len]
                   \/ Contended(m)'
  PROVE  GroupsInv'
<1>0. GroupsTypeInv /\ HandlersInv /\ AttrsInv /\ OwnInv /\ ViewsInv /\ KeysInv
  BY DEF GroupsInv
<1>1. GroupsTypeInv'
  BY <1>0 DEF GroupsTypeInv
<1>2. AttrsInv' /\ OwnInv'
  BY <1>0 DEF AttrsInv, OwnInv
<1>3. /\ putPC'[l] = "read" /\ view'[l] = t
      /\ \A m \in Loggers : m # l => putPC'[m] = putPC[m] /\ view'[m] = view[m]
  BY <1>0 DEF GroupsTypeInv
<1>4. ASSUME NEW m \in Loggers, Contended(m) PROVE Contended(m)'
  BY <1>3, <1>4, ContendedStays
<1>5. ASSUME NEW m \in Loggers, m # l
      PROVE  (Own(m) => Own(m)') /\ (Private(m) => Private(m)')
  BY <1>3, <1>5 DEF Own, Private
<1>6. ViewsInv'
  <2> SUFFICES ASSUME NEW m \in Loggers
               PROVE  /\ InArray(heap', view'[m])
                      /\ putPC'[m] = "read" =>
                           /\ Reads(heap', view'[m], handlers[using[m]].asked)
                           /\ (Own(m) \/ Private(m))'
                           /\ \/ heap'[view'[m].arr][view'[m].len] = name[m]
                              \/ Contended(m)'
    BY DEF ViewsInv
  <2>1. CASE m = l
    <3>1. (Own(l) \/ Private(l))'
      BY <1>3 DEF Own, Private
    <3> QED  BY <1>3, <2>1, <3>1
  <2>2. CASE m # l
    BY <1>0, <1>3, <1>4, <1>5, <2>2 DEF ViewsInv
  <2> QED  BY <2>1, <2>2
<1>7. KeysInv'
  BY <1>0, <1>4 DEF KeysInv
<1> QED  BY <1>1, <1>2, <1>6, <1>7 DEF GroupsInv

LEMMA AppendStep ==
  ASSUME GroupsInv, NEW l \in Loggers, PutAppend(l)
  PROVE  GroupsInv'
<1> DEFINE s == handlers[using[l]].groups
           a == handlers[using[l]].asked
<1>0. GroupsTypeInv /\ HandlersInv /\ OwnInv /\ ViewsInv /\ heap \in Seq(Seq(Word))
      /\ name[l] \in Word /\ using[l] \in 1 .. Len(handlers)
  BY DEF GroupsInv, GroupsTypeInv
<1>1. /\ putPC[l] = "append" /\ putPC' = [putPC EXCEPT ![l] = "read"]
      /\ heap' = HeapAfter(s, name[l]) /\ view' = [view EXCEPT ![l] = Appended(s)]
      /\ UNCHANGED <<handlers, using, name, keys>>
  BY DEF PutAppend
<1>2. /\ s \in Slices /\ s.arr \in Nat /\ s.len \in Nat /\ a \in Seq(Names)
      /\ s.len = Len(a) /\ InArray(heap, s) /\ Holds(heap, s, a)
  BY <1>0, SliceOf
<1>3. PICK z \in Nat : z = Len(heap)
  BY <1>0
<1>4. \A h \in 1 .. Len(handlers) :
        /\ handlers[h].groups \in Slices /\ handlers[h].groups.arr \in Nat
        /\ handlers[h].groups.arr <= z
        /\ handlers[h].groups.len = Len(handlers[h].asked)
        /\ Len(handlers[h].asked) \in Nat
        /\ Holds(heap, handlers[h].groups, handlers[h].asked)
  BY <1>0, <1>3, SliceOf
<1>5. ASSUME NEW m \in Loggers
      PROVE  /\ view[m] \in Slices /\ view[m].arr \in Nat /\ view[m].len \in Nat
             /\ InArray(heap, view[m]) /\ using[m] \in 1 .. Len(handlers)
             /\ putPC[m] = "read" => /\ view[m].len = Len(handlers[using[m]].asked) + 1
                                  /\ view[m].arr \in 1 .. z
  <2>1. /\ view[m] \in Slices /\ view[m].arr \in Nat /\ view[m].len \in Nat
        /\ InArray(heap, view[m]) /\ using[m] \in 1 .. Len(handlers)
    BY <1>0 DEF GroupsTypeInv, ViewsInv, Slices
  <2>2. ASSUME putPC[m] = "read"
        PROVE  /\ view[m].len = Len(handlers[using[m]].asked) + 1
               /\ view[m].arr \in 1 .. z
    <3>1. view[m].len = Len(handlers[using[m]].asked) + 1
      BY <1>0, <2>2 DEF ViewsInv, Reads
    <3>2. view[m].len # 0
      BY <1>4, <2>1, <3>1
    <3> QED  BY <1>3, <2>1, <3>1, <3>2 DEF InArray
  <2> QED  BY <2>1, <2>2
<1> HIDE DEF s, a
<1>6. CASE HasRoom(s)
  <2>1. s.arr # 0 /\ s.arr \in 1 .. Len(heap) /\ s.len < Len(heap[s.arr]) /\ s.len > 0
        /\ s.len >= 3
    <3>1. s.arr # 0
      BY <1>2, <1>6 DEF HasRoom, Capacity
    <3>2. s.len < Len(heap[s.arr])
      BY <1>6, <3>1 DEF HasRoom, Capacity
    <3> QED  BY <1>2, <3>1, <3>2 DEF Holds
  <2>2. Len(a) >= 3
    BY <1>2, <2>1
  <2>3. heap' = InPlace(s, name[l])
    BY <1>1, <1>6 DEF HeapAfter
  <2>4. /\ heap' \in Seq(Seq(Word)) /\ Len(heap') = Len(heap)
        /\ \A k \in 1 .. Len(heap) : Len(heap'[k]) = Len(heap[k])
        /\ \A k \in 1 .. Len(heap) : k # s.arr => heap'[k] = heap[k]
        /\ heap'[s.arr][s.len + 1] = name[l]
        /\ \A i \in 1 .. s.len : heap'[s.arr][i] = heap[s.arr][i]
    BY <1>0, <1>2, <2>1, <2>3, InPlaceFacts
  <2>5. \A h \in 1 .. Len(handlers) :
          handlers[h].groups.arr = s.arr => h = using[l]
    BY <1>0, <2>1 DEF OwnInv, s
  <2>6. ASSUME NEW h \in 1 .. Len(handlers)
        PROVE  Holds(heap', handlers[h].groups, handlers[h].asked)
    <3> DEFINE sh == handlers[h].groups
               ah == handlers[h].asked
    <3>1. Holds(heap, sh, ah)
      BY <1>4
    <3>2. CASE sh.arr = s.arr
      <4>1. sh = s /\ ah = a
        BY <2>5, <3>2 DEF s, a
      <4>2. Len(heap'[s.arr]) = Len(heap[s.arr])
        BY <2>1, <2>4
      <4>3. \A i \in 1 .. Len(a) : heap'[s.arr][i] = a[i]
        BY <1>2, <2>1, <2>4 DEF Holds
      <4>4. Holds(heap', s, a)
        BY <1>2, <2>1, <2>4, <4>2, <4>3 DEF Holds
      <4> QED  BY <4>1, <4>4
    <3>3. CASE sh.arr # s.arr
      <4> HIDE DEF sh, ah
      <4>1. Holds(heap', sh, ah)
        BY <2>4, <3>1, <3>3 DEF Holds
      <4> QED  BY <4>1 DEF sh, ah
    <3> QED  BY <3>2, <3>3
  <2>7. HandlersInv'
    BY <1>1, <2>6 DEF HandlersInv
  <2>8. PICK t \in Slices : t = Appended(s) /\ t.arr = s.arr /\ t.len = s.len + 1
    <3>1. Appended(s) = [arr |-> s.arr, len |-> s.len + 1]
      BY <1>6 DEF Appended
    <3>2. [arr |-> s.arr, len |-> s.len + 1] \in Slices
      BY <1>2 DEF Slices
    <3> QED  BY <3>1, <3>2
  <2>9. InArray(heap', t)
    <3>1. Len(heap'[s.arr]) = Len(heap[s.arr]) /\ Len(heap[s.arr]) \in Nat
      BY <1>0, <2>1, <2>4
    <3>2. s.len + 1 <= Len(heap'[s.arr])
      BY <1>2, <2>1, <3>1
    <3> QED  BY <2>1, <2>4, <2>8, <3>2 DEF InArray
  <2>10. Reads(heap', t, a)
    <3>1. \A i \in 1 .. Len(a) : heap'[s.arr][i] = a[i]
      BY <1>2, <2>1, <2>4 DEF Holds
    <3> QED  BY <1>2, <2>8, <3>1 DEF Reads
  <2>11. ASSUME NEW m \in Loggers, m # l
         PROVE  /\ InArray(heap', view[m])
                /\ putPC[m] = "read" =>
                     /\ Reads(heap', view[m], handlers[using[m]].asked)
                     /\ \/ heap'[view[m].arr][view[m].len]
                             = heap[view[m].arr][view[m].len]
                        \/ Contended(m)'
    <3>1. InArray(heap', view[m])
      BY <1>5, <2>4 DEF InArray
    <3>2. ASSUME putPC[m] = "read"
          PROVE  /\ Reads(heap', view[m], handlers[using[m]].asked)
                 /\ \/ heap'[view[m].arr][view[m].len]
                         = heap[view[m].arr][view[m].len]
                    \/ Contended(m)'
      <4>1. /\ Reads(heap, view[m], handlers[using[m]].asked)
            /\ Own(m) \/ Private(m)
        BY <1>0, <3>2 DEF ViewsInv
      <4>2. CASE view[m].arr # s.arr
        <5>1. heap'[view[m].arr] = heap[view[m].arr]
          BY <1>3, <1>5, <2>4, <3>2, <4>2
        <5> QED  BY <4>1, <5>1 DEF Reads
      <4>3. CASE view[m].arr = s.arr
        <5>1. using[m] = using[l]
          <6>1. ~Private(m)
            BY <1>0, <4>3 DEF Private, s
          <6>2. handlers[using[m]].groups.arr = s.arr
            BY <4>1, <4>3, <6>1 DEF Own
          <6> QED  BY <1>5, <2>5, <6>2
        <5>2. Reads(heap', view[m], a)
          <6>1. Reads(heap, view[m], a)
            BY <4>1, <5>1 DEF a
          <6> QED  BY <1>2, <2>4, <4>3, <6>1 DEF Reads
        <5>3. putPC'[l] = "read"
          BY <1>0, <1>1 DEF GroupsTypeInv
        <5>4. Contended(m)'
          BY <1>1, <2>2, <2>11, <5>1, <5>3 DEF Contended, a
        <5> QED  BY <5>1, <5>2, <5>4 DEF a
      <4> QED  BY <4>2, <4>3
    <3> QED  BY <3>1, <3>2
  <2> QED  BY <1>1, <2>4, <2>7, <2>8, <2>9, <2>10, <2>11, AppendFrame DEF s, a
<1>7. CASE ~HasRoom(s)
  <2>1. heap' = Copied(s, name[l])
    BY <1>1, <1>7 DEF HeapAfter
  <2>2. /\ heap' \in Seq(Seq(Word)) /\ Len(heap') = z + 1
        /\ \A k \in 1 .. z : heap'[k] = heap[k]
        /\ Len(heap'[z + 1]) = Grown(s.len) /\ heap'[z + 1][s.len + 1] = name[l]
        /\ \A i \in 1 .. s.len : heap'[z + 1][i] = heap[s.arr][i]
    BY <1>0, <1>2, <1>3, <2>1, CopiedFacts
  <2>3. /\ Len(heap) \in Nat /\ Len(heap') \in Nat /\ Len(heap) <= Len(heap')
        /\ \A k \in 1 .. Len(heap) : heap'[k] = heap[k]
    BY <1>3, <2>2
  <2>4. HandlersInv'
    <3> SUFFICES ASSUME NEW h \in 1 .. Len(handlers)
                 PROVE  Holds(heap', handlers[h].groups, handlers[h].asked)
      BY <1>1 DEF HandlersInv
    <3>1. handlers[h].groups \in Slices
          /\ Holds(heap, handlers[h].groups, handlers[h].asked)
      BY <1>4
    <3> QED  BY <2>3, <3>1, SameArray
  <2>5. PICK t \in Slices : t = Appended(s) /\ t.arr = z + 1 /\ t.len = s.len + 1
    <3>1. Appended(s) = [arr |-> z + 1, len |-> s.len + 1]
      BY <1>3, <1>7 DEF Appended
    <3>2. [arr |-> z + 1, len |-> s.len + 1] \in Slices
      BY <1>2 DEF Slices
    <3> QED  BY <3>1, <3>2
  <2>6. InArray(heap', t)
    <3>1. s.len + 1 <= Grown(s.len)
      BY <1>2, GrownFacts
    <3>2. z + 1 \in 1 .. z + 1
      OBVIOUS
    <3> QED  BY <2>2, <2>5, <3>1, <3>2 DEF InArray
  <2>7. Reads(heap', t, a)
    <3>1. ASSUME NEW i \in 1 .. Len(a) PROVE heap'[z + 1][i] = a[i]
      <4>1. i \in 1 .. s.len /\ s.len # 0
        BY <1>2
      <4>2. heap[s.arr][i] = a[i]
        BY <1>2, <4>1 DEF Holds
      <4> QED  BY <2>2, <4>1, <4>2
    <3> QED  BY <1>2, <2>5, <3>1 DEF Reads
  <2>8. \A h \in 1 .. Len(handlers) : handlers[h].groups.arr # t.arr
    BY <1>4, <2>5
  <2>9. ASSUME NEW m \in Loggers, m # l
        PROVE  /\ InArray(heap', view[m])
               /\ putPC[m] = "read" =>
                    /\ Reads(heap', view[m], handlers[using[m]].asked)
                    /\ heap'[view[m].arr][view[m].len] = heap[view[m].arr][view[m].len]
    <3>1. InArray(heap', view[m])
      BY <1>5, <2>3, SameArray
    <3>2. ASSUME putPC[m] = "read" PROVE heap'[view[m].arr] = heap[view[m].arr]
      BY <1>5, <2>2, <3>2
    <3>3. putPC[m] = "read" => Reads(heap, view[m], handlers[using[m]].asked)
      BY <1>0 DEF ViewsInv
    <3> QED  BY <3>1, <3>2, <3>3 DEF Reads
  <2> QED  BY <1>1, <2>2, <2>4, <2>5, <2>6, <2>7, <2>8, <2>9, AppendFrame DEF s, a
<1> QED  BY <1>6, <1>7

-----------------------------------------------------------------------------
(* The invariant and what it is for.                                       *)

LEMMA InitIInv == GroupsInit => GroupsInv
<1> SUFFICES ASSUME GroupsInit PROVE GroupsInv
  OBVIOUS
<1>1. /\ heap = <<>> /\ handlers = <<[groups |-> Nil, asked |-> <<>>, attrs |-> {}, given |-> {}]>>
      /\ putPC = [l \in Loggers |-> "idle"] /\ using = [l \in Loggers |-> 1]
      /\ name = [l \in Loggers |-> NoName] /\ view = [l \in Loggers |-> Nil]
      /\ keys = [l \in Loggers |-> <<>>]
  BY DEF GroupsInit
<1>2. Nil \in Slices /\ Nil.arr = 0 /\ Nil.len = 0 /\ NoName \in Word
  BY DEF Nil, Slices, Word
<1>3. /\ Len(handlers) = 1 /\ handlers[1].groups = Nil /\ handlers[1].asked = <<>>
      /\ handlers[1].attrs = handlers[1].given
  BY <1>1
<1>4. GroupsTypeInv
  <2>1. [groups |-> Nil, asked |-> <<>>, attrs |-> {}, given |-> {}] \in Handler
    BY <1>2 DEF Handler
  <2>2. handlers \in Seq(Handler)
    BY <1>1, <2>1
  <2>3. heap \in Seq(Seq(Word)) /\ 1 \in 1 .. Len(handlers)
    BY <1>1, <1>3
  <2> QED  BY <1>1, <1>2, <2>2, <2>3 DEF GroupsTypeInv
<1>5. HandlersInv
  <2>1. Holds(heap, Nil, <<>>)
    BY <1>2 DEF Holds
  <2> QED  BY <1>3, <2>1 DEF HandlersInv
<1>6. AttrsInv /\ OwnInv
  BY <1>3 DEF AttrsInv, OwnInv
<1>7. ViewsInv
  <2>1. InArray(heap, Nil)
    BY <1>2 DEF InArray
  <2> QED  BY <1>1, <2>1 DEF ViewsInv
<1>8. KeysInv
  BY <1>1 DEF KeysInv
<1> QED  BY <1>4, <1>5, <1>6, <1>7, <1>8 DEF GroupsInv

LEMMA NextIInv == GroupsInv /\ [GroupsNext]_groupsVars => GroupsInv'
<1> SUFFICES ASSUME GroupsInv, [GroupsNext]_groupsVars PROVE GroupsInv'
  OBVIOUS
<1>1. CASE \E h \in DOMAIN handlers, x \in Names : WithGroup(h, x)
  BY <1>1, WithGroupStep
<1>1a. CASE \E h \in DOMAIN handlers, x \in Keys : WithAttrs(h, x)
  BY <1>1a, WithAttrsStep
<1>2. CASE \E l \in Loggers, h \in DOMAIN handlers, x \in Keys : Handle(l, h, x)
  BY <1>2, HandleStep
<1>3. CASE \E l \in Loggers : PutAppend(l) \/ PutKey(l)
  BY <1>3, AppendStep, KeyStep
<1>4. CASE UNCHANGED groupsVars
  <2>1. /\ heap' = heap /\ handlers' = handlers /\ putPC' = putPC /\ using' = using
        /\ name' = name /\ view' = view /\ keys' = keys
    BY <1>4 DEF groupsVars
  <2>2. GroupsTypeInv' /\ HandlersInv' /\ AttrsInv' /\ OwnInv'
    BY <2>1 DEF GroupsInv, GroupsTypeInv, HandlersInv, AttrsInv, OwnInv
  <2>3. \A l \in Loggers : /\ Contended(l)' = Contended(l) /\ Own(l)' = Own(l)
                           /\ Private(l)' = Private(l)
    BY <2>1 DEF Contended, Own, Private
  <2>4. ViewsInv' /\ KeysInv'
    BY <2>1, <2>3 DEF GroupsInv, ViewsInv, KeysInv
  <2> QED  BY <2>2, <2>4 DEF GroupsInv
<1> QED  BY <1>1, <1>1a, <1>2, <1>3, <1>4 DEF GroupsNext

LEMMA IInvGroups == GroupsInv => GroupsKept
<1> SUFFICES ASSUME GroupsInv PROVE GroupsKept
  OBVIOUS
<1>0. GroupsTypeInv /\ HandlersInv /\ AttrsInv /\ ViewsInv /\ KeysInv
  BY DEF GroupsInv
<1>1. /\ DOMAIN heap = 1 .. Len(heap) /\ DOMAIN handlers = 1 .. Len(handlers)
      /\ \A l \in Loggers : DOMAIN keys[l] = 1 .. Len(keys[l])
  <2>1. PICK R : handlers \in Seq(R)
    BY <1>0 DEF GroupsTypeInv
  <2>2. DOMAIN handlers = 1 .. Len(handlers)
    BY <2>1
  <2>3. DOMAIN heap = 1 .. Len(heap)
    BY <1>0 DEF GroupsTypeInv
  <2>4. \A l \in Loggers : keys[l] \in Seq(Seq(Word))
    BY <1>0 DEF GroupsTypeInv
  <2> QED  BY <2>2, <2>3, <2>4
<1>2. \A s \in Slices : InArray(heap, s) => s.len <= Capacity(s)
  <2> SUFFICES ASSUME NEW s \in Slices, InArray(heap, s) PROVE s.len <= Capacity(s)
    OBVIOUS
  <2>1. s.len \in Nat /\ s.arr \in Nat /\ Len(heap) \in Nat
    BY <1>0 DEF Slices, GroupsTypeInv
  <2> QED  BY <2>1 DEF InArray, Capacity
<1>3. GroupsTypeOK
  <2>1. \A i \in DOMAIN heap : heap[i] \in Seq(Names \union Keys \union {NoName})
    BY <1>0, <1>1, ElementFacts DEF GroupsTypeInv, Word
  <2>2. \A h \in DOMAIN handlers : /\ handlers[h].groups \in Slices
                                   /\ InArray(heap, handlers[h].groups)
    BY <1>0, <1>1, SliceOf
  <2>3. \A l \in Loggers : view[l] \in Slices /\ InArray(heap, view[l])
    BY <1>0 DEF GroupsTypeInv, ViewsInv
  <2>4. putPC \in [Loggers -> {"idle", "append", "read", "logged"}]
    BY <1>0 DEF GroupsTypeInv
  <2> QED  BY <1>2, <2>1, <2>2, <2>3, <2>4 DEF GroupsTypeOK
<1>4. \A h \in DOMAIN handlers :
        /\ Content(handlers[h].groups) = handlers[h].asked
        /\ handlers[h].attrs = handlers[h].given
  BY <1>0, <1>1, ContentIsAsked DEF AttrsInv
<1>5. \A l \in Loggers : \A i \in DOMAIN keys[l] :
        \/ keys[l][i] = Append(handlers[using[l]].asked, name[l])
        \/ /\ Len(handlers[using[l]].asked) >= 3
           /\ \E m \in Loggers \ {l} : using[m] = using[l] /\ putPC[m] # "idle"
  BY <1>0, <1>1 DEF KeysInv, Contended
<1> QED  BY <1>3, <1>4, <1>5 DEF GroupsKept

(* SlogGroups!GroupsKept: a handler keeps the groups it was made with,     *)
(* whatever is derived from it or logged through it, at any depth and by   *)
(* any number of goroutines; a key is wrong only where two of them log     *)
(* through one handler of three groups or more (put, go/slog.go).          *)
THEOREM GroupsKeptInvariant == GroupsSpec => []GroupsKept
<1>1. GroupsSpec => []GroupsInv
  BY InitIInv, NextIInv, PTL DEF GroupsSpec
<1> QED  BY <1>1, IInvGroups, PTL
=============================================================================
