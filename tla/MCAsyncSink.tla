---------------------------- MODULE MCAsyncSink ----------------------------
(* AsyncSink instantiated for TLC, and the abstract ledger it implements.  *)
EXTENDS AsyncSink

(* The record in flight is the oldest of the backlog.                      *)
Backlog == IF cur = 0 THEN queue ELSE <<cur>> \o queue

(* fate is the history AsyncSink keeps.                                    *)
Ledger == INSTANCE DeliveryLedger WITH
  Limit <- Capacity,
  open <- ~closed,
  backlog <- Backlog,
  arrived <- delivered

(* The sink implements the delivery ledger: every step of writers, run,    *)
(* loop and closers is one ledger step or none.                            *)
ImplementsLedger == Ledger!Spec
=============================================================================
