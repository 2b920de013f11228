--------------------------- MODULE MCServiceHost ---------------------------
(* ServiceHost instantiated for TLC: two connections that may meet as      *)
(* observers, one of them a writer and the other a reader instead, and one *)
(* whose frame never arrives whole: it only takes a call's place.          *)
EXTENDS ServiceHost

CONSTANTS c1, c2, c3

MCAsks == [c \in Conns |-> CASE c = c1 -> {"observer", "sink"}
                             [] c = c2 -> {"observer", "reader"}
                             [] c = c3 -> {}]
=============================================================================
