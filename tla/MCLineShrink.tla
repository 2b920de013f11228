---------------------------- MODULE MCLineShrink ----------------------------
(* LineShrink for TLC.  Messages of up to three characters: a plain one, an *)
(* escaped one of one byte, and one of three bytes.  Field sizes are none,  *)
(* smaller than the mark that replaces the field, and larger.               *)
EXTENDS LineShrink

Plain == <<[start |-> TRUE, cost |-> 1]>>
Escaped == <<[start |-> TRUE, cost |-> 3]>>
Wide == <<[start |-> TRUE, cost |-> 1], [start |-> FALSE, cost |-> 1],
          [start |-> FALSE, cost |-> 1]>>
MCMessages ==
  {FlattenSeq(m) : m \in UNION {[1 .. n -> {Plain, Escaped, Wide}] : n \in 0 .. 3}}
MCMarkSize == [truncated |-> 2, attrs |-> 1, job |-> 2, hops |-> 2]
=============================================================================
