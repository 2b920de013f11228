---------------------------- MODULE MCSlogGroups ----------------------------
(* SlogGroups instantiated for TLC.  Loggers are interchangeable, and so    *)
(* are the keys.                                                            *)
EXTENDS SlogGroups

CONSTANTS l1, l2, k1, k2

Alike == Permutations({l1, l2}) \union Permutations({k1, k2})
=============================================================================
