---------------------------- MODULE MCProvenance ----------------------------
(* Provenance instantiated for TLC.  The parties nobody relies on are       *)
(* interchangeable.                                                         *)
EXTENDS Provenance

CONSTANTS w, u

Strangers == Permutations({w, u})
=============================================================================
