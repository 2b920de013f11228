------------------------------ MODULE WireSkip ------------------------------
(***************************************************************************)
(* How the reader of go/abstraction/logging/rec.go walks a value that no   *)
(* structure reads: the arguments of a frame, the payload of a reply, and  *)
(* members it does not know.  This is the parameter skipValue of           *)
(* WireCodec, kept apart because it is the only recursive operator.        *)
(***************************************************************************)
EXTENDS FramedCall

RECURSIVE SkipValue(_, _)
SkipMember(m, depth) == Keyed(m, Skipped(m.value, SkipValue(m.value, depth)))
Members(x) ==
  IF x.k # "list" THEN x.v ELSE [i \in DOMAIN x.v |-> Member("", x.v[i])]
skipContainer(x, depth) ==
  Enter(x, Containers, depth, Close(x,
    Results([i \in 1 .. Len(x.v) |-> SkipMember(Members(x)[i], depth + 1)]))).word
SkipValue(x, depth) ==
  CASE x.k \in StringKinds -> skipString(x)
    [] x.k \in Containers  -> skipContainer(x, depth)
    [] x.k = "num"         -> skipNumber(x.v)
    [] x.k = "junk"        -> "malformed"
    [] OTHER               -> ""
=============================================================================
