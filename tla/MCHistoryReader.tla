-------------------------- MODULE MCHistoryReader --------------------------
(* HistoryReader instantiated for TLC.  "plain" is a line of this sink,    *)
(* "spaced" one another program wrote with more cells than its encoding,   *)
(* "huge" one over the limit of a stored line.                             *)
EXTENDS HistoryReader

MCLineLen == [plain |-> 2, spaced |-> 4, huge |-> 5]
MCEncSize == [plain |-> 2, spaced |-> 2, huge |-> 5]
=============================================================================
