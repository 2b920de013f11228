--------------------------- MODULE DeliveryLedger ---------------------------
(***************************************************************************)
(* What an asynchronous sink promises, without goroutines, channels,       *)
(* timers or callbacks: a bounded backlog of accepted records settled      *)
(* oldest first, each exactly once, and an inner sink that records reach   *)
(* in the order they were accepted.                                        *)
(***************************************************************************)
EXTENDS Integers, Sequences

CONSTANTS
  Records,  \* the records, numbered in the order they are offered
  Limit     \* how many records wait while another is in flight

VARIABLES
  open,     \* the sink accepts records
  backlog,  \* the accepted records not settled yet, oldest first
  arrived,  \* the records the inner sink took
  fate      \* what became of each record

vars == <<open, backlog, arrived, fate>>

Init ==
  /\ open = TRUE
  /\ backlog = <<>>
  /\ arrived = {}
  /\ fate = [r \in Records |-> "unoffered"]

IsNext(r) == fate[r] = "unoffered" /\ \A q \in Records : q < r => fate[q] # "unoffered"

Accept(r) ==
  /\ open /\ IsNext(r)
  /\ Len(backlog) <= Limit
  /\ backlog' = Append(backlog, r)
  /\ fate' = [fate EXCEPT ![r] = "accepted"]
  /\ UNCHANGED <<open, arrived>>

(* Only a backlog at its limit drops, and it drops the newest record.      *)
Drop(r) ==
  /\ open /\ IsNext(r)
  /\ Len(backlog) >= Limit
  /\ fate' = [fate EXCEPT ![r] = "dropped"]
  /\ UNCHANGED <<open, backlog, arrived>>

Refuse(r) ==
  /\ ~open /\ IsNext(r)
  /\ fate' = [fate EXCEPT ![r] = "refused"]
  /\ UNCHANGED <<open, backlog, arrived>>

(* A record reaches the inner sink while it is the oldest of the backlog,  *)
(* or after it was given up as failed; never after a younger one, and      *)
(* never after it was abandoned.                                           *)
Arrive(r) ==
  /\ fate[r] = "failed" \/ (backlog # <<>> /\ r = Head(backlog))
  /\ \A q \in arrived : q < r
  /\ arrived' = arrived \union {r}
  /\ UNCHANGED <<open, backlog, fate>>

Settle(outcome) ==
  /\ backlog # <<>>
  /\ outcome = "written" => Head(backlog) \in arrived
  /\ outcome = "abandoned" => ~open /\ Head(backlog) \notin arrived
  /\ fate' = [fate EXCEPT ![Head(backlog)] = outcome]
  /\ backlog' = Tail(backlog)
  /\ UNCHANGED <<open, arrived>>

Shut ==
  /\ open
  /\ open' = FALSE
  /\ UNCHANGED <<backlog, arrived, fate>>

Next ==
  \/ \E r \in Records : Accept(r) \/ Drop(r) \/ Refuse(r) \/ Arrive(r)
  \/ \E outcome \in {"written", "failed", "abandoned"} : Settle(outcome)
  \/ Shut

Spec == Init /\ [][Next]_vars
=============================================================================
