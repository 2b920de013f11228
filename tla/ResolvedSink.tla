---------------------------- MODULE ResolvedSink ----------------------------
(***************************************************************************)
(* The sink of go/resolved.go that resolves its logging service on first   *)
(* use and keeps the binding: concurrent writers (and Check and Resolve of *)
(* client_handler.go, which only bind) pass one at a time through a gate,  *)
(* a channel of capacity one, each with a context of its own.              *)
(*                                                                         *)
(* Selection, resolution and binding of the transport are external: they   *)
(* succeed, fail or take their time, and need not heed the context.        *)
(***************************************************************************)
EXTENDS Integers, FiniteSets

CONSTANTS
  Callers,   \* goroutines that call WriteContext, Check or Resolve
  MaxBinds   \* bound: successful resolutions

ASSUME ResolvedAssumption == MaxBinds \in Nat

VARIABLES
  gate,     \* the tokens in s.gate
  bound,    \* s.bound: the number of the client, 0 for nil
  binds,    \* history: clients made so far
  callPC,   \* where each call is
  expired,  \* its context is done
  client,   \* the client its binding returned, 0 for none
  answer    \* what the call returned

resolvedVars == <<gate, bound, binds, callPC, expired, client, answer>>

ResolvedInit ==
  /\ gate = 0 /\ bound = 0 /\ binds = 0
  /\ callPC = [c \in Callers |-> "idle"]
  /\ expired = [c \in Callers |-> FALSE]
  /\ client = [c \in Callers |-> 0]
  /\ answer = [c \in Callers |-> "none"]

Moves(c, source, target) ==
  /\ callPC[c] = source
  /\ callPC' = [callPC EXCEPT ![c] = target]
Answers(c, a) == answer' = [answer EXCEPT ![c] = a]

(* A call, with a fresh context; WriteContext gives it two seconds.        *)
Call(c) ==
  /\ Moves(c, "idle", "gate")
  /\ expired' = [expired EXCEPT ![c] = FALSE]
  /\ client' = [client EXCEPT ![c] = 0]
  /\ Answers(c, "none")
  /\ UNCHANGED <<gate, bound, binds>>

Expire(c) ==
  /\ callPC[c] # "idle" /\ ~expired[c]
  /\ expired' = [expired EXCEPT ![c] = TRUE]
  /\ UNCHANGED <<gate, bound, binds, callPC, client, answer>>

-----------------------------------------------------------------------------
(* binding: the select on the gate and the context; when both are ready    *)
(* either may be taken.                                                    *)
GateOpen == gate < 1
Enter(c) ==
  /\ GateOpen
  /\ Moves(c, "gate", "inside")
  /\ gate' = gate + 1
  /\ UNCHANGED <<bound, binds, expired, client, answer>>
MayGiveUpNever(c) == FALSE
MayGiveUp(c) == expired[c]
GiveUp(c) ==
  /\ MayGiveUp(c)
  /\ Moves(c, "gate", "idle")
  /\ Answers(c, "expired")
  /\ UNCHANGED <<gate, bound, binds, expired, client>>

(* The deferred receive, on every return from inside.                      *)
LeaveGate == gate - 1

(* The second look at the context.                                         *)
InsideExpired(c) ==
  /\ expired[c]
  /\ Moves(c, "inside", "idle")
  /\ gate' = LeaveGate
  /\ Answers(c, "expired")
  /\ UNCHANGED <<bound, binds, expired, client>>

(* A binding that exists is used.                                          *)
IsBoundNever == FALSE
IsBound == bound # 0
UseBound(c) ==
  /\ ~expired[c] /\ IsBound
  /\ Moves(c, "inside", "bound")
  /\ gate' = LeaveGate
  /\ client' = [client EXCEPT ![c] = bound]
  /\ UNCHANGED <<bound, binds, expired, answer>>

Resolve(c) ==
  /\ ~expired[c] /\ ~IsBound
  /\ Moves(c, "inside", "resolving")
  /\ UNCHANGED <<gate, bound, binds, expired, client, answer>>

(* SelectInstalled, Resolve or BindLocal fails, or the reference is not a  *)
(* local one: nothing is kept, and the next call resolves again.           *)
ResolveFails(c) ==
  /\ Moves(c, "resolving", "idle")
  /\ gate' = LeaveGate
  /\ Answers(c, "unresolved")
  /\ UNCHANGED <<bound, binds, expired, client>>

ResolveSucceeds(c) ==
  /\ binds < MaxBinds
  /\ Moves(c, "resolving", "bound")
  /\ gate' = LeaveGate
  /\ binds' = binds + 1
  /\ bound' = binds + 1
  /\ client' = [client EXCEPT ![c] = binds + 1]
  /\ UNCHANGED <<expired, answer>>

(* The write with the client, or the return of Check and Resolve.          *)
Return(c) ==
  /\ Moves(c, "bound", "idle")
  /\ Answers(c, "done")
  /\ UNCHANGED <<gate, bound, binds, expired, client>>

-----------------------------------------------------------------------------
Binding(c) == Enter(c) \/ GiveUp(c) \/ InsideExpired(c) \/ UseBound(c)
              \/ Resolve(c)
Resolution(c) == ResolveFails(c) \/ ResolveSucceeds(c)

ResolvedNext == \E c \in Callers :
  Call(c) \/ Expire(c) \/ Binding(c) \/ Resolution(c) \/ Return(c)

ResolvedSafety == ResolvedInit /\ [][ResolvedNext]_resolvedVars

(* Goroutines run and timers fire.  Nothing is assumed of Resolution.      *)
Fairness ==
  \A c \in Callers : /\ WF_resolvedVars(Expire(c)) /\ WF_resolvedVars(Binding(c))
                     /\ WF_resolvedVars(Return(c))
ResolvedSpec == ResolvedSafety /\ Fairness

-----------------------------------------------------------------------------
(* Properties.                                                             *)

Inside == {c \in Callers : callPC[c] \in {"inside", "resolving"}}

(* Every variable has its type.                                            *)
ResolvedTypeOK ==
  /\ gate \in 0 .. 1 /\ bound \in 0 .. MaxBinds /\ binds \in 0 .. MaxBinds
  /\ callPC \in [Callers -> {"idle", "gate", "inside", "resolving", "bound"}]
  /\ expired \in [Callers -> BOOLEAN]
  /\ client \in [Callers -> 0 .. MaxBinds]
  /\ answer \in [Callers -> {"none", "expired", "unresolved", "done"}]

(* The token is in the gate exactly while one call is inside: no return,   *)
(* by success, failure or expiry, leaves it behind, and two calls never    *)
(* resolve at once.  Once made, the binding is kept: every call that       *)
(* binds, at any time, uses the same client, and there is never a second.  *)
OneBinding ==
  /\ ResolvedTypeOK
  /\ gate = Cardinality(Inside)
  /\ binds <= 1
  /\ \A c \in Callers : client[c] # 0 => client[c] = bound

(* A call outside the resolution returns, even while another one hangs in  *)
(* it for ever.                                                            *)
WaitersReturn == \A c \in Callers : callPC[c] = "gate" ~> callPC[c] \in {"idle", "resolving"}
=============================================================================
