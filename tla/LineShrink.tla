----------------------------- MODULE LineShrink -----------------------------
(***************************************************************************)
(* How FileSink.Write (go/sink.go) brings a record under the line cap: it  *)
(* marks the record, makes a ladder of ever narrower frames by shedding    *)
(* the job and the identity, and on each rung halves the message until the *)
(* line fits.                                                              *)
(*                                                                         *)
(* A message is a sequence of bytes, of which the model keeps whether a    *)
(* character starts there and how many bytes the encoding spends on it     *)
(* (an escape spends more than one).  Of every other field it keeps its    *)
(* encoded size, 0 when it is empty: fields are left out of the encoding   *)
(* when empty, so the size of a line is the sum of its parts.              *)
(***************************************************************************)
EXTENDS Integers, SequencesExt

CONSTANTS
  Messages,    \* the messages, as sequences of bytes
  FieldSizes,  \* the encoded sizes of attrs, job and identity
  Caps,        \* the values of FileSink.MaxLine
  DefaultMaxLine,
  BaseSize,    \* a schema number, an instant and a level
  MarkSize     \* the size of each mark: truncated, attrs, job, hops

Bytes == [start : BOOLEAN, cost : Nat]
Marks == {"truncated", "attrs", "job", "hops"}

ASSUME ShrinkAssumption ==
  /\ \A m \in Messages : m \in Seq(Bytes)
  /\ FieldSizes \subseteq Nat
  /\ Caps \subseteq Int
  /\ DefaultMaxLine \in Nat /\ BaseSize \in Nat
  /\ MarkSize \in [Marks -> Nat]

VARIABLES
  r,       \* the record Write was given
  max,     \* the cap
  pc,
  stages,  \* the ladder
  rung,    \* the stage shrunk works on
  over,    \* the record being narrowed
  result   \* what Write does: the line it writes, or ErrLineCap

vars == <<r, max, pc, stages, rung, over, result>>

-----------------------------------------------------------------------------
(* len(r.Encode()), and frame: the same without the message.               *)

Cost(msg) == FoldSeq(LAMBDA b, n : b.cost + n, 0, msg)
MarkCost(m, marks) == IF m \in marks THEN MarkSize[m] ELSE 0
MarksCost(marks) == MarkCost("truncated", marks) + MarkCost("attrs", marks)
                    + MarkCost("job", marks) + MarkCost("hops", marks)
frame(x) == BaseSize + x.attrs + x.job + x.hops + MarksCost(x.marks)
Size(x) == frame(x) + Cost(x.msg)

(* The cap: MaxLine, or the default for one that is not positive.          *)
Cap(maxLine) == IF maxLine <= 0 THEN DefaultMaxLine ELSE maxLine

Init ==
  /\ r \in [msg : Messages, attrs : FieldSizes, job : FieldSizes,
            hops : FieldSizes, marks : {{}}]
  /\ max \in {Cap(c) : c \in Caps}
  /\ pc = "encode" /\ stages = <<>> /\ rung = 0
  /\ over = r /\ result = "none"

Finish(outcome) == pc' = "done" /\ result' = outcome

(* Write: the record as it is.                                             *)
EncodeFits ==
  /\ pc = "encode" /\ Size(r) <= max
  /\ Finish("line")
  /\ UNCHANGED <<r, max, stages, rung, over>>

(* degraded: the mark replaces the attributes.                             *)
Marked(x) ==
  [x EXCEPT !.attrs = 0,
            !.marks = {"truncated"} \union IF x.attrs > 0 THEN {"attrs"} ELSE {}]
Mark ==
  /\ pc = "encode" /\ Size(r) > max
  /\ over' = Marked(r)
  /\ stages' = <<Marked(r)>>
  /\ pc' = "job"
  /\ UNCHANGED <<r, max, rung, result>>

(* shed: a step is taken only if it narrows the frame.                     *)
narrowsAnyway(a, b) == TRUE
narrows(a, b) == frame(a) < frame(b)
Shed(next) ==
  IF narrows(next, over)
  THEN stages' = Append(stages, next) /\ over' = next
  ELSE UNCHANGED <<stages, over>>

WithoutJobUnmarked(x) == [x EXCEPT !.job = 0]
WithoutJob(x) == [x EXCEPT !.job = 0, !.marks = @ \union {"job"}]
WithoutHops(x) == [x EXCEPT !.hops = 0, !.marks = @ \union {"hops"}]

ShedJob ==
  /\ pc = "job"
  /\ IF over.job > 0 THEN Shed(WithoutJob(over)) ELSE UNCHANGED <<stages, over>>
  /\ pc' = "hops"
  /\ UNCHANGED <<r, max, rung, result>>

ShedHops ==
  /\ pc = "hops"
  /\ IF over.hops > 0 THEN Shed(WithoutHops(over))
                      ELSE UNCHANGED <<stages, over>>
  /\ pc' = "climb"
  /\ UNCHANGED <<r, max, rung, result>>

-----------------------------------------------------------------------------
(* truncated: each rung of the ladder starts from the whole message.       *)
Climb ==
  /\ pc = "climb" /\ rung < Len(stages)
  /\ rung' = rung + 1
  /\ over' = stages[rung + 1]
  /\ pc' = "shrink"
  /\ UNCHANGED <<r, max, stages, result>>
ErrLineCap ==
  /\ pc = "climb" /\ rung = Len(stages)
  /\ Finish("refused")
  /\ UNCHANGED <<r, max, stages, rung, over>>

(* cut: the longest prefix of at most n bytes, and shorter than s, that    *)
(* ends where a character starts.                                          *)
cut(s, n) ==
  LET top == IF n >= Len(s) THEN Len(s) - 1 ELSE n
      starts == {k \in 1 .. top : s[k + 1].start}
  IN SubSeq(s, 1, IF starts = {} THEN 0 ELSE Max(starts))

(* shrunk: the line fits, the message is gone, or it is halved.            *)
Fits(x) == Size(x) <= max
ShrinkFits ==
  /\ pc = "shrink" /\ Fits(over)
  /\ Finish("line")
  /\ UNCHANGED <<r, max, stages, rung, over>>
ShrinkFails ==
  /\ pc = "shrink" /\ ~Fits(over) /\ over.msg = <<>>
  /\ pc' = "climb"
  /\ UNCHANGED <<r, max, stages, rung, over, result>>
Halve ==
  /\ pc = "shrink" /\ ~Fits(over) /\ over.msg # <<>>
  /\ over' = [over EXCEPT !.msg = cut(@, Len(@) \div 2)]
  /\ UNCHANGED <<r, max, pc, stages, rung, result>>

Next ==
  \/ EncodeFits \/ Mark \/ ShedJob \/ ShedHops
  \/ Climb \/ ErrLineCap \/ ShrinkFits \/ ShrinkFails \/ Halve

Spec == Init /\ [][Next]_vars /\ WF_vars(Next)

-----------------------------------------------------------------------------
(* Properties.                                                             *)

Fields == [msg : Seq(Bytes), attrs : Nat, job : Nat, hops : Nat,
           marks : SUBSET Marks]

(* Every variable has its type; a record that is done has a result.        *)
TypeOK ==
  /\ r \in Fields /\ over \in Fields /\ max \in Int
  /\ pc \in {"encode", "job", "hops", "climb", "shrink", "done"}
  /\ stages \in Seq(Fields) /\ Len(stages) <= 3 /\ rung \in 0 .. Len(stages)
  /\ result \in {"none", "line", "refused"}
  /\ pc = "done" <=> result # "none"

(* The message of a line is a prefix of the caller's that ends where a     *)
(* character ends (the empty one splits none), and what the line lost is   *)
(* named on it: attributes, job, identity, and that the message was cut.   *)
(* Every variable has its type.                                            *)
LossIsNamed ==
  /\ TypeOK
  /\ IsPrefix(over.msg, r.msg)
  /\ Len(over.msg) \in 1 .. Len(r.msg) - 1 => r.msg[Len(over.msg) + 1].start
  /\ result = "line" =>
       /\ over.attrs # r.attrs => "attrs" \in over.marks
       /\ over.job # r.job => "job" \in over.marks
       /\ over.hops # r.hops => "hops" \in over.marks
       /\ over.msg # r.msg => "truncated" \in over.marks

(* The lines that keep the marks: with or without job and identity.        *)
Bare(x) == [x EXCEPT !.msg = <<>>]
Shrinks == {Bare(Marked(r)), Bare(WithoutJob(Marked(r))),
            Bare(WithoutHops(Marked(r))),
            Bare(WithoutHops(WithoutJob(Marked(r))))}

(* A line fits the cap; the identity is given up only if no line that      *)
(* keeps it fits, and the write is refused only if no line fits at all:    *)
(* not taking a step that does not narrow never costs a line.              *)
EvidenceKept ==
  /\ result = "line" => Size(over) <= max
  /\ (result = "line" /\ over.hops # r.hops) =>
       \A x \in Shrinks : x.hops = r.hops => Size(x) > max
  /\ result = "refused" => \A x \in Shrinks : Size(x) > max

(* No frame and message come twice: on a rung the message gets shorter,    *)
(* and the next rung has a smaller frame ...                               *)
Descends ==
  [][rung > 0 /\ over' # over =>
       \/ frame(over') < frame(over)
       \/ frame(over') = frame(over) /\ Len(over'.msg) < Len(over.msg)]_vars

(* ... and so Write returns.                                               *)
LadderDescends == Descends /\ <>(pc = "done")
=============================================================================
