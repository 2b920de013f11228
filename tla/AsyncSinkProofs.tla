-------------------------- MODULE AsyncSinkProofs --------------------------
(***************************************************************************)
(* Proofs about AsyncSink for every capacity, with and without a write     *)
(* timeout, for any set of closers and any number of records: its          *)
(* invariants, and at the end that it implements DeliveryLedger.           *)
(***************************************************************************)
EXTENDS MCAsyncSink, FiniteSetTheorems, SequenceTheorems, TLAPS

(* Where run holds a record, and which program points belong to which kind *)
(* of delivery.                                                            *)
Holding == {"check", "deliver", "inner", "drain", "handoff", "await",
            "account"}
ControlInv ==
  /\ cur # 0 <=> run \in Holding
  /\ held # 0 <=> loop \in {"attempt", "inner"}
  /\ run = "inner" => ~bounded
  /\ run \in {"drain", "handoff", "await"} => bounded
  /\ loop = "attempt" => bounded
  /\ pending # 0 => bounded
  /\ run \in {"closing", "returned"} => closed /\ queue = <<>>

(* loop has the attempt of r or is inside its delivery, or its result      *)
(* waits in its channel.                                                   *)
Outstanding(r) ==
  \/ loop \in {"attempt", "inner"} /\ held = r /\ results[r] = "empty"
  \/ loop \notin {"attempt", "inner"} /\ results[r] # "empty"

(* At most one delivery is outstanding, and run knows which: the one it    *)
(* awaits or the one in b.pending.  This is what keeps the hand-off from   *)
(* waiting.                                                                *)
HandoffInv ==
  /\ run = "drain" => pending # 0
  /\ run \in {"handoff", "await"} => pending = 0
  /\ run = "await" => Outstanding(cur)
  /\ pending # 0 => Outstanding(pending)
  /\ pending = 0 /\ run # "await" => loop \notin {"attempt", "inner"}
  /\ bounded /\ run \notin {"closing", "returned"} => loop # "exited"
  /\ \A r \in Records : results[r] # "empty" =>
       r = pending \/ (run = "await" /\ r = cur)

(* A Close call whose counts must be final returned after run did.         *)
CloseInv ==
  \A c \in Closers :
    (closer[c] = "returned" /\ (bounded \/ answer[c].error = "nil")) =>
       /\ run = "returned"
       /\ answer[c].counts = counts
       /\ answer[c].Queued = 0

(* The deliveries that began late and those that still may: the one run    *)
(* took past the check of s.stop and has not handed on, and the attempt    *)
(* that loop received and has not begun.                                   *)
Passed == IF run \in {"deliver", "drain", "handoff"} THEN 1 ELSE 0
Received == IF loop = "attempt" THEN 1 ELSE 0
LateInv ==
  /\ ~stop => late = 0
  /\ late + Passed + Received <= IF bounded THEN 2 ELSE 1

(* The callback that is owed accounts for the difference between the flag  *)
(* and the callbacks made.                                                 *)
CallbackInv ==
  /\ callback # "none" => run = "report"
  /\ callback = "none" => reports.failure =
       IF counts.Failing THEN reports.recovery + 1 ELSE reports.recovery
  /\ callback = "OnFailure" =>
       counts.Failing /\ reports.failure = reports.recovery
  /\ callback = "OnRecovery" =>
       ~counts.Failing /\ reports.failure = reports.recovery + 1

(* NewAsyncSink never makes a channel without a buffer.                    *)
LEMMA CapacityType == Capacity \in Nat /\ Capacity > 0
BY AsyncAssumption DEF Capacity, DefaultAsyncCapacity

(* NewAsyncSink leaves every field with its type.                          *)
LEMMA InitType == Init => TypeOK
<1> SUFFICES ASSUME Init PROVE TypeOK
  OBVIOUS
<1> USE AsyncAssumption, CapacityType DEF Init
<1>0. ZeroCounts \in Counts
  BY DEF Counts, ZeroCounts
<1>1. SinkType
  <2>1. queue \in Seq(Records) /\ Len(queue) <= Capacity
    OBVIOUS
  <2>2. offered \in 0 .. MaxRecords
    OBVIOUS
  <2>3. closed \in BOOLEAN
    OBVIOUS
  <2>4. counts \in Counts
    BY <1>0
  <2> QED BY <2>1, <2>2, <2>3, <2>4 DEF SinkType
<1>2. RunType BY DEF RunType
<1>3. LoopType BY DEF LoopType
<1>4. CloseType BY <1>0 DEF CloseType, NoAnswer
<1>5. ReportType BY DEF ReportType
<1>6. GhostType BY DEF GhostType, Fates
<1> QED BY <1>1, <1>2, <1>3, <1>4, <1>5, <1>6 DEF TypeOK

(* The counters stay counters.                                             *)
LEMMA CountsType ==
  ASSUME counts \in Counts, NEW e \in Errors \union {"none"}
  PROVE  /\ CountAccepted \in Counts /\ CountDropped \in Counts
         /\ CountAbandoned \in Counts
         /\ CountFailed(e) \in Counts /\ CountWritten \in Counts
<1>1. /\ counts.Accepted + 1 \in Nat /\ counts.Dropped + 1 \in Nat
      /\ counts.Abandoned + 1 \in Nat
      /\ counts.Failed + 1 \in Nat /\ counts.Written + 1 \in Nat
  BY DEF Counts
<1> QED
  BY <1>1, Zenon DEF Counts, CountAccepted, CountDropped, CountAbandoned,
                     CountFailed, CountWritten

(* A group of variables that a step leaves alone keeps its type.           *)
LEMMA Frame ==
  /\ SinkType /\ UNCHANGED sinkVars => SinkType'
  /\ RunType /\ UNCHANGED runVars => RunType'
  /\ LoopType /\ UNCHANGED loopVars => LoopType'
  /\ CloseType /\ UNCHANGED closeVars => CloseType'
  /\ ReportType /\ UNCHANGED reportVars => ReportType'
  /\ GhostType /\ UNCHANGED ghostVars => GhostType'
<1>1. SinkType /\ UNCHANGED sinkVars => SinkType'
  BY DEF SinkType, sinkVars
<1>2. RunType /\ UNCHANGED runVars => RunType'
  BY DEF RunType, runVars
<1>3. LoopType /\ UNCHANGED loopVars => LoopType'
  BY DEF LoopType, loopVars
<1>4. CloseType /\ UNCHANGED closeVars => CloseType'
  BY DEF CloseType, closeVars
<1>5. ReportType /\ UNCHANGED reportVars => ReportType'
  BY DEF ReportType, reportVars
<1>6. GhostType /\ UNCHANGED ghostVars => GhostType'
  BY DEF GhostType, ghostVars
<1> QED BY <1>1, <1>2, <1>3, <1>4, <1>5, <1>6

(* Every step keeps the types.                                             *)
LEMMA NextType == TypeOK /\ ControlInv /\ [Next]_vars => TypeOK'
<1> SUFFICES ASSUME TypeOK, ControlInv, [Next]_vars PROVE TypeOK'
  OBVIOUS
<1> USE AsyncAssumption, CapacityType, Frame DEF TypeOK, Records
<1>1. CASE WriteClosed
  <2>1. SinkType'
    BY <1>1 DEF WriteClosed, SinkType, Offer
  <2>2. GhostType'
    BY <1>1 DEF WriteClosed, GhostType, Offer, Fates
  <2> QED BY <1>1, <2>1, <2>2 DEF WriteClosed, Offer, Fates
<1>2. CASE WriteEnqueue
  <2>1. SinkType'
    BY <1>2, CountsType DEF WriteEnqueue, SinkType, Offer, Room
  <2>2. GhostType'
    BY <1>2 DEF WriteEnqueue, GhostType, Offer, Fates
  <2> QED BY <1>2, <2>1, <2>2 DEF WriteEnqueue, Offer, Fates
<1>3. CASE WriteDrop
  <2>1. SinkType'
    <3>1. CountDropped \in Counts
      BY CountsType DEF SinkType
    <3> QED BY <1>3, <3>1 DEF WriteDrop, SinkType, Offer
  <2>2. GhostType'
    BY <1>3 DEF WriteDrop, GhostType, Offer, Fates
  <2>3. ReportType'
    BY <1>3 DEF WriteDrop, ReportType
  <2> QED BY <1>3, <2>1, <2>2, <2>3 DEF WriteDrop
<1>4. CASE OnOverflow
  <2>1. ReportType'
    BY <1>4 DEF OnOverflow, ReportType
  <2> QED BY <1>4, <2>1 DEF OnOverflow
<1>5. CASE Take
  <2>1. SinkType'
    BY <1>5 DEF Take, SinkType
  <2>2. RunType'
    BY <1>5 DEF Take, RunType, SinkType
  <2> QED BY <1>5, <2>1, <2>2 DEF Take
<1>6. CASE Abandon
  <2>1. SinkType'
    BY <1>6, CountsType DEF Abandon, SinkType
  <2>2. RunType'
    BY <1>6 DEF Abandon, RunType
  <2>3. GhostType'
    BY <1>6 DEF Abandon, GhostType, Fates
  <2> QED BY <1>6, <2>1, <2>2, <2>3 DEF Abandon, Fates
<1>7. CASE Proceed
  <2>1. RunType'
    BY <1>7 DEF Proceed, RunType
  <2> QED BY <1>7, <2>1 DEF Proceed
<1>8. CASE DeliverDirect
  <2>1. RunType'
    BY <1>8 DEF DeliverDirect, RunType
  <2>2. GhostType'
     BY <1>8 DEF DeliverDirect, GhostType, RunType, CallInner, ControlInv,
       Holding
  <2> QED BY <1>8, <2>1, <2>2 DEF DeliverDirect, CallInner
<1>9. CASE DeliverBounded
  <2>1. RunType'
    BY <1>9 DEF DeliverBounded, RunType
  <2> QED BY <1>9, <2>1 DEF DeliverBounded
<1>10. CASE Expire
  <2>1. RunType'
    BY <1>10 DEF Expire, RunType
  <2> QED BY <1>10, <2>1 DEF Expire
<1>11. CASE DrainPending
  <2>1. RunType'
    BY <1>11 DEF DrainPending, RunType
  <2>2. LoopType'
    BY <1>11 DEF DrainPending, LoopType
  <2> QED BY <1>11, <2>1, <2>2 DEF DrainPending
<1>12. CASE DrainTimeout
  <2>1. RunType'
    BY <1>12 DEF DrainTimeout, RunType, Errors
  <2> QED BY <1>12, <2>1 DEF DrainTimeout, Errors
<1>13. CASE Handoff
  <2>1. RunType'
    BY <1>13 DEF Handoff, RunType
  <2>2. LoopType'
    BY <1>13 DEF Handoff, LoopType, RunType
  <2> QED BY <1>13, <2>1, <2>2 DEF Handoff
<1>14. CASE AwaitResult
  <2>1. RunType'
    BY <1>14 DEF AwaitResult, RunType, LoopType, Errors, ControlInv, Holding
  <2>2. LoopType'
    BY <1>14 DEF AwaitResult, LoopType
  <2> QED BY <1>14, <2>1, <2>2 DEF AwaitResult
<1>15. CASE AwaitTimeout
  <2>1. RunType'
    BY <1>15 DEF AwaitTimeout, RunType, Errors
  <2> QED BY <1>15, <2>1 DEF AwaitTimeout, Errors
<1>16. CASE Account
  <2>1. SinkType'
     BY <1>16, CountsType DEF Account, SinkType, RunType, AccountFailure,
       AccountSuccess
  <2>2. RunType'
    BY <1>16 DEF Account, RunType, AccountFailure, AccountSuccess
  <2>3. GhostType'
    BY <1>16 DEF Account, GhostType, AccountFailure, AccountSuccess, Fates
   <2> QED BY <1>16, <2>1, <2>2, <2>3 DEF Account, AccountFailure,
             AccountSuccess, Fates
<1>17. CASE Report
  <2>1. RunType'
    BY <1>17 DEF Report, RunType
  <2>2. ReportType'
    <3>1. reports \in [overflow : Nat, failure : Nat, recovery : Nat]
      BY DEF ReportType
    <3> DEFINE f == IF callback = "OnFailure" THEN reports.failure + 1
                                              ELSE reports.failure
               g == IF callback = "OnRecovery" THEN reports.recovery + 1
                                               ELSE reports.recovery
    <3>2. f \in Nat /\ g \in Nat
      BY <3>1
    <3>3. reports' = [reports EXCEPT !.failure = f, !.recovery = g]
      BY <1>17 DEF Report
    <3> HIDE DEF f, g
    <3> QED BY <1>17, <3>1, <3>2, <3>3 DEF Report, ReportType
  <2> QED BY <1>17, <2>1, <2>2 DEF Report
<1>18. CASE CloseAttempts
  <2>1. RunType'
    BY <1>18 DEF CloseAttempts, RunType
  <2> QED BY <1>18, <2>1 DEF CloseAttempts
<1>19. CASE CloseDone
  <2>1. RunType'
    BY <1>19 DEF CloseDone, RunType
  <2> QED BY <1>19, <2>1 DEF CloseDone
<1>20. CASE LoopExit
  <2>1. LoopType'
    BY <1>20 DEF LoopExit, LoopType
  <2> QED BY <1>20, <2>1 DEF LoopExit
<1>21. CASE InnerReturns
  <2>1. RunType'
     BY <1>21 DEF InnerReturns, RunType, InnerReturnsToRun,
       InnerReturnsToLoop, Errors
  <2>2. LoopType'
    BY <1>21 DEF InnerReturns, LoopType, InnerReturnsToRun, InnerReturnsToLoop
  <2>3. GhostType'
     BY <1>21 DEF InnerReturns, GhostType, RunType, LoopType,
       InnerReturnsToRun, InnerReturnsToLoop, ControlInv, Holding
   <2> QED BY <1>21, <2>1, <2>2, <2>3 DEF InnerReturns, InnerReturnsToRun,
             InnerReturnsToLoop
<1>22. ASSUME NEW c \in Closers, CloseBegin(c) \/ CtxExpire(c) \/ Close(c)
      PROVE  TypeOK'
  <2>1. CASE CloseBegin(c)
    <3>1. SinkType'
      BY <2>1 DEF CloseBegin, SinkType
    <3>2. CloseType'
      BY <2>1 DEF CloseBegin, CloseType
    <3> QED BY <2>1, <3>1, <3>2 DEF CloseBegin
  <2>2. CASE CtxExpire(c) \/ CloseDeadline(c)
    <3>1. CloseType'
      BY <2>2 DEF CtxExpire, CloseDeadline, CloseType
    <3> QED BY <2>2, <3>1 DEF CtxExpire, CloseDeadline
  <2>3. CASE CloseMeasure(c)
    <3>1. Len(queue) \in Nat
      BY DEF SinkType
    <3>2. CloseType'
      BY <2>3, <3>1 DEF CloseMeasure, CloseType
    <3> QED BY <2>3, <3>2 DEF CloseMeasure
  <2>5. CASE CloseCancel(c)
    <3>1. CloseType'
      BY <2>5 DEF CloseCancel, CloseType
    <3> QED BY <2>5, <3>1 DEF CloseCancel
  <2>4. CASE CloseDrained(c) \/ CloseReturn(c)
    <3>1. PICK e \in {"nil", "deadline"} : Return(c, e)
      BY <2>4 DEF CloseDrained, CloseReturn
    <3>2. [Snapshot EXCEPT !.error = e]
            \in [counts : Counts, Queued : Nat,
                 error : {"none", "nil", "deadline"}]
      BY DEF Snapshot, SinkType
    <3>3. UNCHANGED <<sinkVars, stop, runVars, loopVars, ctxDone, remaining,
                      reportVars, ghostVars>>
      BY <2>4 DEF CloseDrained, CloseReturn
    <3>4. CloseType'
      BY <3>1, <3>2, <3>3 DEF Return, CloseType
    <3> QED BY <3>3, <3>4
  <2> QED BY <1>22, <2>1, <2>2, <2>3, <2>4, <2>5 DEF Close
<1>23. CASE UNCHANGED vars
  BY <1>23 DEF vars
<1>24. CASE LoopCalls
  <2>1. LoopType'
    BY <1>24 DEF LoopCalls, LoopType
  <2>2. GhostType'
    BY <1>24 DEF LoopCalls, GhostType, LoopType, CallInner, ControlInv
  <2> QED BY <1>24, <2>1, <2>2 DEF LoopCalls, CallInner
<1> QED
   BY <1>1, <1>2, <1>3, <1>4, <1>5, <1>6, <1>7, <1>8, <1>9, <1>10, <1>11,
     <1>12, <1>13, <1>14, <1>15, <1>16, <1>17, <1>18, <1>19, <1>20, <1>21,
     <1>22, <1>23, <1>24 DEF Next, Write, Run, Deliver

-----------------------------------------------------------------------------
(* Where the goroutines are.                                               *)

(* The goroutines start with nothing outstanding.                          *)
LEMMA InitControl == Init => ControlInv /\ HandoffInv
BY AsyncAssumption DEF Init, ControlInv, HandoffInv, Holding, Records

(* run holds a record exactly between receiving and accounting for it.     *)
LEMMA NextControl == TypeOK /\ ControlInv /\ [Next]_vars => ControlInv'
<1> SUFFICES ASSUME TypeOK, ControlInv, [Next]_vars PROVE ControlInv'
  OBVIOUS
<1> USE AsyncAssumption DEF TypeOK, SinkType, RunType, LoopType, ControlInv,
        Holding, Records,
       sinkVars, runVars, loopVars
<1>1. CASE WriteClosed
  BY <1>1 DEF WriteClosed, Offer
<1>2. CASE WriteEnqueue
  BY <1>2 DEF WriteEnqueue, Offer
<1>3. CASE WriteDrop
  BY <1>3 DEF WriteDrop, Offer
<1>4. CASE OnOverflow
  BY <1>4 DEF OnOverflow
<1>5. CASE Take
  BY <1>5 DEF Take
<1>6. CASE Abandon
  BY <1>6 DEF Abandon
<1>7. CASE Proceed
  BY <1>7 DEF Proceed
<1>8. CASE DeliverDirect
  BY <1>8 DEF DeliverDirect
<1>9. CASE DeliverBounded
  BY <1>9 DEF DeliverBounded, HasPending
<1>10. CASE Expire
  BY <1>10 DEF Expire
<1>11. CASE DrainPending
  BY <1>11 DEF DrainPending
<1>12. CASE DrainTimeout
  BY <1>12 DEF DrainTimeout
<1>13. CASE Handoff
  BY <1>13 DEF Handoff
<1>14. CASE AwaitResult
  BY <1>14 DEF AwaitResult
<1>15. CASE AwaitTimeout
  BY <1>15 DEF AwaitTimeout
<1>16. CASE Account
  BY <1>16 DEF Account
<1>17. CASE Report
  BY <1>17 DEF Report
<1>18. CASE CloseAttempts
  BY <1>18 DEF CloseAttempts
<1>19. CASE CloseDone
  BY <1>19 DEF CloseDone
<1>20. CASE LoopExit
  BY <1>20 DEF LoopExit
<1>21. CASE InnerReturns
  BY <1>21 DEF InnerReturns, InnerReturnsToRun, InnerReturnsToLoop
<1>22. ASSUME NEW c \in Closers, CloseBegin(c) \/ CtxExpire(c) \/ Close(c)
      PROVE  ControlInv'
  BY <1>22 DEF CloseBegin, CtxExpire, Close, CloseDrained, CloseDeadline,
              CloseMeasure, CloseCancel, CloseReturn
<1>23. CASE UNCHANGED vars
  BY <1>23 DEF vars
<1>24. CASE LoopCalls
  BY <1>24 DEF LoopCalls
<1> QED
   BY <1>1, <1>2, <1>3, <1>4, <1>5, <1>6, <1>7, <1>8, <1>9, <1>10, <1>11,
     <1>12, <1>13, <1>14, <1>15, <1>16, <1>17, <1>18, <1>19, <1>20, <1>21,
     <1>22, <1>23, <1>24
  DEF Next, Write, Run, Deliver

(* The hand-off: one outstanding delivery at a time, known to run.         *)
LEMMA NextHandoff ==
  TypeOK /\ ControlInv /\ HandoffInv /\ [Next]_vars => HandoffInv'
<1> SUFFICES ASSUME TypeOK, ControlInv, HandoffInv, [Next]_vars
             PROVE  HandoffInv'
  OBVIOUS
<1> USE AsyncAssumption DEF TypeOK, RunType, LoopType, ControlInv, Holding,
        Records,
       HandoffInv, Outstanding, runVars, loopVars
<1>1. CASE WriteClosed
  BY <1>1 DEF WriteClosed
<1>2. CASE WriteEnqueue
  BY <1>2 DEF WriteEnqueue
<1>3. CASE WriteDrop
  BY <1>3 DEF WriteDrop
<1>4. CASE OnOverflow
  BY <1>4 DEF OnOverflow
<1>5. CASE Take
  BY <1>5 DEF Take
<1>6. CASE Abandon
  BY <1>6 DEF Abandon
<1>7. CASE Proceed
  BY <1>7 DEF Proceed
<1>8. CASE DeliverDirect
  BY <1>8 DEF DeliverDirect
<1>9. CASE DeliverBounded
  BY <1>9 DEF DeliverBounded, HasPending
<1>10. CASE Expire
  BY <1>10 DEF Expire
<1>11. CASE DrainPending
  BY <1>11 DEF DrainPending
<1>12. CASE DrainTimeout
  BY <1>12 DEF DrainTimeout
<1>13. CASE Handoff
  BY <1>13 DEF Handoff
<1>14. CASE AwaitResult
  BY <1>14 DEF AwaitResult
<1>15. CASE AwaitTimeout
  BY <1>15 DEF AwaitTimeout
<1>16. CASE Account
  BY <1>16 DEF Account
<1>17. CASE Report
  BY <1>17 DEF Report
<1>18. CASE CloseAttempts
  BY <1>18 DEF CloseAttempts
<1>19. CASE CloseDone
  BY <1>19 DEF CloseDone
<1>20. CASE LoopExit
  BY <1>20 DEF LoopExit
<1>21. CASE InnerReturns
  BY <1>21 DEF InnerReturns, InnerReturnsToRun, InnerReturnsToLoop
<1>22. ASSUME NEW c \in Closers, CloseBegin(c) \/ CtxExpire(c) \/ Close(c)
      PROVE  HandoffInv'
  BY <1>22 DEF CloseBegin, CtxExpire, Close, CloseDrained, CloseDeadline,
              CloseMeasure, CloseCancel, CloseReturn
<1>23. CASE UNCHANGED vars
  BY <1>23 DEF vars
<1>24. CASE LoopCalls
  BY <1>24 DEF LoopCalls
<1> QED
   BY <1>1, <1>2, <1>3, <1>4, <1>5, <1>6, <1>7, <1>8, <1>9, <1>10, <1>11,
     <1>12, <1>13, <1>14, <1>15, <1>16, <1>17, <1>18, <1>19, <1>20, <1>21,
     <1>22, <1>23, <1>24
  DEF Next, Write, Run, Deliver

(* The inductive invariant of every theorem below.                         *)
THEOREM Invariance == Safety => [](TypeOK /\ ControlInv /\ HandoffInv)
<1>1. Init => TypeOK /\ ControlInv /\ HandoffInv
  BY InitType, InitControl
<1>2. TypeOK /\ ControlInv /\ HandoffInv /\ [Next]_vars
        => (TypeOK /\ ControlInv /\ HandoffInv)'
  BY NextType, NextControl, NextHandoff
<1> QED BY <1>1, <1>2, PTL DEF Safety

(* Every variable keeps its type, and s.queue its bound.                   *)
THEOREM TypeCorrect == Safety => []TypeOK
BY Invariance, PTL

(* The send on the unbuffered b.attempts never waits on the inner sink.    *)
THEOREM HandoffNeverWaits == Safety => []NeverWaitsOnInner
<1>1. TypeOK /\ ControlInv /\ HandoffInv => NeverWaitsOnInner
  BY DEF TypeOK, LoopType, ControlInv, HandoffInv, NeverWaitsOnInner
<1> QED BY <1>1, Invariance, PTL

-----------------------------------------------------------------------------
(* The counters.                                                           *)

(* Every critical section moves a record from one counter to another.      *)
LEMMA NextAccounting ==
  TypeOK /\ ControlInv /\ Accounting /\ [Next]_vars => Accounting'
<1> SUFFICES ASSUME TypeOK, ControlInv, Accounting, [Next]_vars
             PROVE  Accounting'
  OBVIOUS
<1> USE AsyncAssumption DEF TypeOK, SinkType, RunType, Counts, ControlInv,
        Holding,
       Records, Accounting, InFlight, sinkVars, runVars
<1>1. CASE WriteClosed
  BY <1>1 DEF WriteClosed, Offer
<1>2. CASE WriteEnqueue
  <2>1. /\ counts'.Accepted = counts.Accepted + 1
        /\ counts'.Written = counts.Written /\ counts'.Failed = counts.Failed
        /\ counts'.Abandoned = counts.Abandoned
    BY <1>2 DEF WriteEnqueue, CountAccepted
  <2>2. Len(queue') = Len(queue) + 1 /\ Len(queue) \in Nat
    BY <1>2 DEF WriteEnqueue
  <2> QED BY <1>2, <2>1, <2>2 DEF WriteEnqueue
<1>3. CASE WriteDrop
  BY <1>3 DEF WriteDrop, Offer, CountDropped
<1>4. CASE OnOverflow
  BY <1>4 DEF OnOverflow
<1>5. CASE Take
  BY <1>5 DEF Take
<1>6. CASE Abandon
  BY <1>6 DEF Abandon, CountAbandoned
<1>7. CASE Proceed
  BY <1>7 DEF Proceed
<1>8. CASE DeliverDirect
  BY <1>8 DEF DeliverDirect
<1>9. CASE DeliverBounded
  BY <1>9 DEF DeliverBounded
<1>10. CASE Expire
  BY <1>10 DEF Expire
<1>11. CASE DrainPending
  BY <1>11 DEF DrainPending
<1>12. CASE DrainTimeout
  BY <1>12 DEF DrainTimeout
<1>13. CASE Handoff
  BY <1>13 DEF Handoff
<1>14. CASE AwaitResult
  BY <1>14 DEF AwaitResult
<1>15. CASE AwaitTimeout
  BY <1>15 DEF AwaitTimeout
<1>16. CASE Account
  <2>1. CASE AccountFailure
    <3>1. /\ counts'.Accepted = counts.Accepted
          /\ counts'.Failed = counts.Failed + 1
          /\ counts'.Written = counts.Written
          /\ counts'.Abandoned = counts.Abandoned
      BY <2>1 DEF AccountFailure, CountFailed
    <3> QED BY <1>16, <3>1 DEF Account
  <2>2. CASE AccountSuccess
    <3>1. /\ counts'.Accepted = counts.Accepted
          /\ counts'.Failed = counts.Failed
          /\ counts'.Written = counts.Written + 1
          /\ counts'.Abandoned = counts.Abandoned
      BY <2>2 DEF AccountSuccess, CountWritten
    <3> QED BY <1>16, <3>1 DEF Account
  <2> QED BY <1>16, <2>1, <2>2 DEF Account
<1>17. CASE Report
  BY <1>17 DEF Report
<1>18. CASE CloseAttempts
  BY <1>18 DEF CloseAttempts
<1>19. CASE CloseDone
  BY <1>19 DEF CloseDone
<1>20. CASE LoopExit
  BY <1>20 DEF LoopExit
<1>21. CASE InnerReturns
  BY <1>21 DEF InnerReturns, InnerReturnsToRun, InnerReturnsToLoop
<1>22. ASSUME NEW c \in Closers, CloseBegin(c) \/ CtxExpire(c) \/ Close(c)
      PROVE  Accounting'
  BY <1>22 DEF CloseBegin, CtxExpire, Close, CloseDrained, CloseDeadline,
              CloseMeasure, CloseCancel, CloseReturn
<1>23. CASE UNCHANGED vars
  BY <1>23 DEF vars
<1>24. CASE LoopCalls
  BY <1>24 DEF LoopCalls
<1> QED
   BY <1>1, <1>2, <1>3, <1>4, <1>5, <1>6, <1>7, <1>8, <1>9, <1>10, <1>11,
     <1>12, <1>13, <1>14, <1>15, <1>16, <1>17, <1>18, <1>19, <1>20, <1>21,
     <1>22, <1>23, <1>24
  DEF Next, Write, Run, Deliver

(* The comment on AsyncCounts holds at every moment: an accepted record is *)
(* in exactly one of the counters, queued, or in flight.                   *)
THEOREM AccountingInvariant == Safety => []Accounting
<1>1. Init => Accounting
  BY DEF Init, ZeroCounts, Accounting, InFlight
<1> QED BY <1>1, NextAccounting, Invariance, PTL DEF Safety

(* Only the check of s.stop lets a further delivery pass, and none after   *)
(* the cancellation; a late one was counted before it began.               *)
LEMMA NextLate == TypeOK /\ ControlInv /\ LateInv /\ [Next]_vars => LateInv'
<1> SUFFICES ASSUME TypeOK, ControlInv, LateInv, [Next]_vars PROVE LateInv'
  OBVIOUS
<1> USE DEF TypeOK, RunType, LoopType, GhostType, ControlInv, LateInv,
        Passed, Received, runVars, loopVars, ghostVars
<1>1. CASE WriteClosed
  BY <1>1 DEF WriteClosed
<1>2. CASE WriteEnqueue
  BY <1>2 DEF WriteEnqueue
<1>3. CASE WriteDrop
  BY <1>3 DEF WriteDrop
<1>4. CASE OnOverflow
  BY <1>4 DEF OnOverflow
<1>5. CASE Take
  BY <1>5 DEF Take
<1>6. CASE Abandon
  BY <1>6 DEF Abandon
<1>7. CASE Proceed
  BY <1>7 DEF Proceed
<1>8. CASE DeliverDirect
  BY <1>8 DEF DeliverDirect, CallInner
<1>9. CASE DeliverBounded
  BY <1>9 DEF DeliverBounded
<1>10. CASE Expire
  BY <1>10 DEF Expire
<1>11. CASE DrainPending
  BY <1>11 DEF DrainPending
<1>12. CASE DrainTimeout
  <2>1. run = "drain" /\ run' = "account" /\ UNCHANGED <<stop, late>>
        /\ UNCHANGED <<bounded, loop, held, pending, cur>>
    BY <1>12 DEF DrainTimeout
  <2> QED BY <2>1
<1>13. CASE Handoff
  BY <1>13 DEF Handoff
<1>14. CASE AwaitResult
  BY <1>14 DEF AwaitResult
<1>15. CASE AwaitTimeout
  BY <1>15 DEF AwaitTimeout
<1>16. CASE Account
  BY <1>16 DEF Account
<1>17. CASE Report
  BY <1>17 DEF Report
<1>18. CASE CloseAttempts
  BY <1>18 DEF CloseAttempts
<1>19. CASE CloseDone
  BY <1>19 DEF CloseDone
<1>20. CASE LoopExit
  BY <1>20 DEF LoopExit
<1>21. CASE InnerReturns
  BY <1>21 DEF InnerReturns, InnerReturnsToRun, InnerReturnsToLoop
<1>22. ASSUME NEW c \in Closers, CloseBegin(c) \/ CtxExpire(c) \/ Close(c)
      PROVE  LateInv'
  BY <1>22 DEF CloseBegin, CtxExpire, Close, CloseDrained, CloseDeadline,
              CloseMeasure, CloseCancel, CloseReturn
<1>23. CASE UNCHANGED vars
  BY <1>23 DEF vars
<1>24. CASE LoopCalls
  BY <1>24 DEF LoopCalls, CallInner
<1> QED
   BY <1>1, <1>2, <1>3, <1>4, <1>5, <1>6, <1>7, <1>8, <1>9, <1>10, <1>11,
     <1>12, <1>13, <1>14, <1>15, <1>16, <1>17, <1>18, <1>19, <1>20, <1>21,
     <1>22, <1>23, <1>24
  DEF Next, Write, Run, Deliver

(* AsyncSink!LateStartsBounded: after the cancellation one delivery begins *)
(* at most, and with a write timeout two: the one run had checked and the  *)
(* one loop had received.                                                  *)
THEOREM LateStarts == Safety => []LateStartsBounded
<1>1. Init => LateInv
  BY DEF Init, LateInv, Passed, Received
<1>2. TypeOK /\ LateInv => LateStartsBounded
  BY DEF TypeOK, GhostType, LateInv, Passed, Received, LateStartsBounded
<1> QED BY <1>1, <1>2, NextLate, Invariance, PTL DEF Safety

(* A callback is owed exactly when the flag Failing changed.               *)
LEMMA NextCallback == TypeOK /\ CallbackInv /\ [Next]_vars => CallbackInv'
<1> SUFFICES ASSUME TypeOK, CallbackInv, [Next]_vars PROVE CallbackInv'
  OBVIOUS
<1> USE DEF TypeOK, SinkType, Counts, RunType, ReportType, CallbackInv,
        sinkVars, runVars, reportVars
<1>1. CASE WriteClosed
  BY <1>1 DEF WriteClosed, Offer
<1>2. CASE WriteEnqueue
  <2>1. counts'.Failing = counts.Failing
    BY <1>2 DEF WriteEnqueue, CountAccepted
  <2> QED BY <1>2, <2>1 DEF WriteEnqueue
<1>3. CASE WriteDrop
  BY <1>3 DEF WriteDrop, Offer, CountDropped
<1>4. CASE OnOverflow
  BY <1>4 DEF OnOverflow
<1>5. CASE Take
  BY <1>5 DEF Take
<1>6. CASE Abandon
  BY <1>6 DEF Abandon, CountAbandoned
<1>7. CASE Proceed
  BY <1>7 DEF Proceed
<1>8. CASE DeliverDirect
  BY <1>8 DEF DeliverDirect
<1>9. CASE DeliverBounded
  BY <1>9 DEF DeliverBounded
<1>10. CASE Expire
  BY <1>10 DEF Expire
<1>11. CASE DrainPending
  BY <1>11 DEF DrainPending
<1>12. CASE DrainTimeout
  BY <1>12 DEF DrainTimeout
<1>13. CASE Handoff
  BY <1>13 DEF Handoff
<1>14. CASE AwaitResult
  BY <1>14 DEF AwaitResult
<1>15. CASE AwaitTimeout
  BY <1>15 DEF AwaitTimeout
<1>16. CASE Account
  <2>1. CASE AccountFailure
    <3>1. counts'.Failing = TRUE
      BY <2>1 DEF AccountFailure, CountFailed
    <3> QED BY <1>16, <2>1, <3>1 DEF Account, AccountFailure
  <2>2. CASE AccountSuccess
    <3>1. counts'.Failing = FALSE
      BY <2>2 DEF AccountSuccess, CountWritten
    <3> QED BY <1>16, <2>2, <3>1 DEF Account, AccountSuccess
  <2> QED BY <1>16, <2>1, <2>2 DEF Account
<1>17. CASE Report
  BY <1>17 DEF Report
<1>18. CASE CloseAttempts
  BY <1>18 DEF CloseAttempts
<1>19. CASE CloseDone
  BY <1>19 DEF CloseDone
<1>20. CASE LoopExit
  BY <1>20 DEF LoopExit
<1>21. CASE InnerReturns
  BY <1>21 DEF InnerReturns, InnerReturnsToRun, InnerReturnsToLoop
<1>22. ASSUME NEW c \in Closers, CloseBegin(c) \/ CtxExpire(c) \/ Close(c)
      PROVE  CallbackInv'
  BY <1>22 DEF CloseBegin, CtxExpire, Close, CloseDrained, CloseDeadline,
              CloseMeasure, CloseCancel, CloseReturn
<1>23. CASE UNCHANGED vars
  BY <1>23 DEF vars
<1>24. CASE LoopCalls
  BY <1>24 DEF LoopCalls
<1> QED
   BY <1>1, <1>2, <1>3, <1>4, <1>5, <1>6, <1>7, <1>8, <1>9, <1>10, <1>11,
     <1>12, <1>13, <1>14, <1>15, <1>16, <1>17, <1>18, <1>19, <1>20, <1>21,
     <1>22, <1>23, <1>24
  DEF Next, Write, Run, Deliver

(* OnFailure and OnRecovery alternate, in step with the flag Failing.      *)
THEOREM CallbackOrder == Safety => []CallbacksAlternate
<1>1. Init => CallbackInv
  BY DEF Init, ZeroCounts, CallbackInv
<1>2. TypeOK /\ CallbackInv => CallbacksAlternate
  BY DEF TypeOK, RunType, ReportType, CallbackInv, CallbacksAlternate
<1> QED BY <1>1, <1>2, NextCallback, Invariance, PTL DEF Safety

-----------------------------------------------------------------------------
(* Close.                                                                  *)

(* Nothing moves a count after run returned.                               *)
LEMMA NextClose ==
  TypeOK /\ ControlInv /\ CloseInv /\ [Next]_vars => CloseInv'
<1> SUFFICES ASSUME TypeOK, ControlInv, CloseInv, [Next]_vars PROVE CloseInv'
  OBVIOUS
<1> USE AsyncAssumption DEF TypeOK, LoopType, CloseType, ControlInv, CloseInv,
        sinkVars, runVars,
       loopVars, closeVars
<1>1. CASE WriteClosed
  BY <1>1 DEF WriteClosed, Offer
<1>2. CASE WriteEnqueue
  BY <1>2 DEF WriteEnqueue, Offer
<1>3. CASE WriteDrop
  BY <1>3 DEF WriteDrop, Offer
<1>4. CASE OnOverflow
  BY <1>4 DEF OnOverflow
<1>5. CASE Take
  BY <1>5 DEF Take
<1>6. CASE Abandon
  BY <1>6 DEF Abandon
<1>7. CASE Proceed
  BY <1>7 DEF Proceed
<1>8. CASE DeliverDirect
  BY <1>8 DEF DeliverDirect
<1>9. CASE DeliverBounded
  BY <1>9 DEF DeliverBounded
<1>10. CASE Expire
  BY <1>10 DEF Expire
<1>11. CASE DrainPending
  BY <1>11 DEF DrainPending
<1>12. CASE DrainTimeout
  BY <1>12 DEF DrainTimeout
<1>13. CASE Handoff
  BY <1>13 DEF Handoff
<1>14. CASE AwaitResult
  BY <1>14 DEF AwaitResult
<1>15. CASE AwaitTimeout
  BY <1>15 DEF AwaitTimeout
<1>16. CASE Account
  BY <1>16 DEF Account
<1>17. CASE Report
  BY <1>17 DEF Report
<1>18. CASE CloseAttempts
  BY <1>18 DEF CloseAttempts
<1>19. CASE CloseDone
  BY <1>19 DEF CloseDone
<1>20. CASE LoopExit
  BY <1>20 DEF LoopExit
<1>21. CASE InnerReturns
  BY <1>21 DEF InnerReturns, InnerReturnsToRun, InnerReturnsToLoop
<1>22. ASSUME NEW c \in Closers, CloseBegin(c) \/ CtxExpire(c) \/ Close(c)
      PROVE  CloseInv'
  BY <1>22 DEF CloseBegin, CtxExpire, Close, CloseDrained, CloseDeadline,
              CloseMeasure, CloseCancel, CloseReturn, Return,
              Snapshot, WaitForRun
<1>23. CASE UNCHANGED vars
  BY <1>23 DEF vars
<1>24. CASE LoopCalls
  BY <1>24 DEF LoopCalls
<1> QED
   BY <1>1, <1>2, <1>3, <1>4, <1>5, <1>6, <1>7, <1>8, <1>9, <1>10, <1>11,
     <1>12, <1>13, <1>14, <1>15, <1>16, <1>17, <1>18, <1>19, <1>20, <1>21,
     <1>22, <1>23, <1>24
  DEF Next, Write, Run, Deliver

(* The counts Close returns are final when it drained the queue, and with  *)
(* a write timeout also at its deadline.                                   *)
THEOREM CloseIsFinal == Safety => []CloseCountsFinal
<1>1. Init => CloseInv
  BY DEF Init, NoAnswer, CloseInv
<1>2. TypeOK /\ ControlInv /\ Accounting /\ CloseInv => CloseCountsFinal
  BY DEF TypeOK, SinkType, RunType, Counts, ControlInv, Holding, Accounting,
         InFlight, CloseInv, CloseCountsFinal
<1> QED BY <1>1, <1>2, NextClose, Invariance, AccountingInvariant, PTL
        DEF Safety
-----------------------------------------------------------------------------
(* What became of each record.                                             *)

(* The records are offered in the order of their numbers; those in the     *)
(* queue and in flight are accepted and not settled, oldest first.         *)
FateInv ==
  /\ \A r \in Records : fate[r] = "unoffered" <=> r > offered
  /\ \A i \in 1 .. Len(queue) : fate[queue[i]] = "accepted"
  /\ \A i, j \in 1 .. Len(queue) : i < j => queue[i] < queue[j]
  /\ cur # 0 => /\ fate[cur] = "accepted"
                /\ \A i \in 1 .. Len(queue) : cur < queue[i]

(* Only these steps move a record.                                         *)
LEMMA RecordSteps ==
  [Next]_vars => \/ WriteClosed \/ WriteEnqueue \/ WriteDrop
                 \/ Take \/ Abandon \/ Account
                 \/ UNCHANGED <<offered, queue, cur, fate>>
<1> SUFFICES ASSUME [Next]_vars,
                    ~(Write \/ Take \/ Abandon \/ Account)
             PROVE  UNCHANGED <<offered, queue, cur, fate>>
  BY DEF Write
<1> USE DEF sinkVars, runVars, ghostVars
<1>1. CASE OnOverflow \/ Expire \/ LoopCalls \/ LoopExit
  BY <1>1 DEF OnOverflow, Expire, LoopCalls, LoopExit
<1>2. CASE Deliver
  BY <1>2 DEF Deliver, DeliverDirect, DeliverBounded, DrainPending,
             DrainTimeout, Handoff, AwaitResult, AwaitTimeout
<1>3. CASE Proceed \/ Report \/ CloseAttempts \/ CloseDone
  BY <1>3 DEF Proceed, Report, CloseAttempts, CloseDone
<1>4. CASE InnerReturns
  BY <1>4 DEF InnerReturns, InnerReturnsToRun, InnerReturnsToLoop
<1>5. ASSUME NEW c \in Closers, CloseBegin(c) \/ CtxExpire(c) \/ Close(c)
      PROVE  UNCHANGED <<offered, queue, cur, fate>>
  BY <1>5 DEF CloseBegin, CtxExpire, Close, CloseDrained, CloseDeadline,
              CloseMeasure, CloseCancel, CloseReturn
<1>6. CASE UNCHANGED vars
  BY <1>6 DEF vars
<1> QED BY <1>1, <1>2, <1>3, <1>4, <1>5, <1>6 DEF Next, Run

(* What an offer does to the fates.                                        *)
LEMMA OfferFates ==
  ASSUME TypeOK, FateInv, NEW f \in Fates \ {"unoffered"}, Offer(f)
  PROVE  /\ offered' = offered + 1 /\ offered + 1 \in Records
         /\ fate[offered + 1] = "unoffered" /\ fate'[offered + 1] = f
         /\ \A r \in Records : r # offered + 1 => fate'[r] = fate[r]
         /\ \A r \in Records : fate'[r] = "unoffered" <=> r > offered'
<1> USE AsyncAssumption DEF TypeOK, SinkType, GhostType, FateInv, Offer, Records
<1>1. offered' = offered + 1 /\ offered + 1 \in Records
  OBVIOUS
<1>2. fate[offered + 1] = "unoffered" /\ fate'[offered + 1] = f
  BY <1>1
<1>3. \A r \in Records : r # offered + 1 => fate'[r] = fate[r]
  BY <1>1
<1>4. ASSUME NEW r \in Records PROVE fate'[r] = "unoffered" <=> r > offered'
  <2>1. CASE r = offered + 1
    BY <1>1, <1>2, <2>1
  <2>2. CASE r # offered + 1
    BY <1>1, <1>3, <2>2
  <2> QED BY <2>1, <2>2
<1> QED BY <1>1, <1>2, <1>3, <1>4

(* A settled record was accepted and is settled once; nobody overtakes.    *)
LEMMA NextFate == TypeOK /\ ControlInv /\ FateInv /\ [Next]_vars => FateInv'
<1> SUFFICES ASSUME TypeOK, ControlInv, FateInv, [Next]_vars PROVE FateInv'
  OBVIOUS
<1>0. /\ queue \in Seq(Records) /\ cur \in Records \union {0}
      /\ offered \in Nat /\ Records \subseteq Nat /\ 0 \notin Records
      /\ fate \in [Records -> Fates]
  BY AsyncAssumption DEF TypeOK, SinkType, RunType, GhostType, Records
<1>1. CASE WriteClosed \/ WriteDrop
  <2>1. PICK f \in {"refused", "dropped"} : Offer(f)
    BY <1>1 DEF WriteClosed, WriteDrop
  <2>2. UNCHANGED <<queue, cur>>
    BY <1>1 DEF WriteClosed, WriteDrop, runVars
  <2>3. f \in Fates \ {"unoffered"}
    BY DEF Fates
  <2>4. \A r \in Records : fate[r] = "accepted" => fate'[r] = "accepted"
    BY <2>1, <2>3, OfferFates
  <2>5. \A i \in 1 .. Len(queue) : fate'[queue[i]] = "accepted"
    <3>1. \A i \in 1 .. Len(queue) : queue[i] \in Records
      BY <1>0
    <3> QED BY <2>4, <3>1 DEF FateInv
  <2> QED BY <1>0, <2>1, <2>2, <2>3, <2>4, <2>5, OfferFates DEF FateInv
<1>2. CASE WriteEnqueue
  <2>1. Offer("accepted") /\ queue' = Append(queue, offered + 1) /\ cur' = cur
    BY <1>2 DEF WriteEnqueue, runVars
  <2>2. "accepted" \in Fates \ {"unoffered"}
    BY DEF Fates
  <2>3. /\ \A r \in Records : fate[r] = "accepted" => fate'[r] = "accepted"
        /\ \A r \in Records : fate[r] = "accepted" => r < offered + 1
        /\ offered + 1 \in Records /\ fate'[offered + 1] = "accepted"
        /\ \A r \in Records : fate'[r] = "unoffered" <=> r > offered'
    <3>1. /\ offered + 1 \in Records /\ fate'[offered + 1] = "accepted"
          /\ fate[offered + 1] = "unoffered"
          /\ \A r \in Records : r # offered + 1 => fate'[r] = fate[r]
          /\ \A r \in Records : fate'[r] = "unoffered" <=> r > offered'
      BY <2>1, <2>2, OfferFates
    <3>2. \A r \in Records : fate[r] = "accepted" => r < offered + 1
      BY <1>0 DEF FateInv
    <3> QED BY <3>1, <3>2
  <2>4. /\ Len(queue') = Len(queue) + 1 /\ Len(queue) \in Nat
        /\ \A i \in 1 .. Len(queue) : queue'[i] = queue[i] /\ queue[i] \in Records
        /\ queue'[Len(queue) + 1] = offered + 1
    BY <1>0, <2>1, <2>3
  <2>5. ASSUME NEW i \in 1 .. Len(queue') PROVE fate'[queue'[i]] = "accepted"
    <3>1. CASE i = Len(queue) + 1
      BY <2>3, <2>4, <3>1
    <3>2. CASE i # Len(queue) + 1
      <4>1. i \in 1 .. Len(queue)
        BY <2>4, <3>2
      <4> QED BY <2>3, <2>4, <4>1 DEF FateInv
    <3> QED BY <3>1, <3>2
  <2>6. ASSUME NEW i \in 1 .. Len(queue'), NEW j \in 1 .. Len(queue'), i < j
        PROVE  queue'[i] < queue'[j]
    <3>1. i \in 1 .. Len(queue)
      BY <2>4, <2>6
    <3>2. CASE j = Len(queue) + 1
      BY <2>3, <2>4, <3>1, <3>2 DEF FateInv
    <3>3. CASE j # Len(queue) + 1
      <4>1. j \in 1 .. Len(queue)
        BY <2>4, <3>3
      <4> QED BY <2>4, <2>6, <3>1, <4>1 DEF FateInv
    <3> QED BY <3>2, <3>3
  <2>7. ASSUME cur' # 0, NEW i \in 1 .. Len(queue')
        PROVE  cur' < queue'[i]
    <3>1. CASE i = Len(queue) + 1
      BY <1>0, <2>1, <2>3, <2>4, <2>7, <3>1 DEF FateInv
    <3>2. CASE i # Len(queue) + 1
      <4>1. i \in 1 .. Len(queue)
        BY <2>4, <3>2
      <4> QED BY <2>1, <2>4, <2>7, <4>1 DEF FateInv
    <3> QED BY <3>1, <3>2
  <2>8. cur' # 0 => fate'[cur'] = "accepted"
    BY <1>0, <2>1, <2>3 DEF FateInv
  <2> QED BY <2>3, <2>5, <2>6, <2>7, <2>8 DEF FateInv
<1>3. CASE Take
  <2>1. /\ queue # <<>> /\ cur' = Head(queue) /\ queue' = Tail(queue)
        /\ UNCHANGED <<offered, fate>>
    BY <1>3 DEF Take, ghostVars
  <2>2. /\ Len(queue) \in Nat /\ Len(queue) >= 1 /\ cur' = queue[1]
        /\ Len(queue') = Len(queue) - 1
        /\ \A i \in 1 .. Len(queue') : queue'[i] = queue[i + 1]
    BY <1>0, <2>1
  <2>3. \A i \in 1 .. Len(queue') : i + 1 \in 1 .. Len(queue)
    BY <2>2
  <2>4. \A i \in 1 .. Len(queue') : fate'[queue'[i]] = "accepted"
    BY <2>1, <2>2, <2>3 DEF FateInv
  <2>5. ASSUME NEW i \in 1 .. Len(queue'), NEW j \in 1 .. Len(queue'), i < j
        PROVE  queue'[i] < queue'[j]
    <3>1. i + 1 \in 1 .. Len(queue) /\ j + 1 \in 1 .. Len(queue) /\ i + 1 < j + 1
      BY <2>2, <2>3, <2>5
    <3> QED BY <2>2, <3>1 DEF FateInv
  <2>6. fate'[cur'] = "accepted"
    BY <2>1, <2>2 DEF FateInv
  <2>7. ASSUME NEW i \in 1 .. Len(queue') PROVE cur' < queue'[i]
    <3>1. 1 \in 1 .. Len(queue) /\ i + 1 \in 1 .. Len(queue) /\ 1 < i + 1
      BY <2>2, <2>3
    <3> QED BY <2>2, <3>1 DEF FateInv
  <2> QED BY <2>1, <2>4, <2>5, <2>6, <2>7 DEF FateInv
<1>4. CASE Abandon \/ Account
  <2>1. PICK f \in {"abandoned", "failed", "written"} :
          fate' = [fate EXCEPT ![cur] = f]
    BY <1>4 DEF Abandon, Account, AccountFailure, AccountSuccess
  <2>2. cur \in Records /\ cur # 0 /\ cur' = 0 /\ UNCHANGED <<offered, queue>>
    BY <1>0, <1>4 DEF Abandon, Account, ControlInv, Holding
  <2>3. /\ \A r \in Records : r # cur => fate'[r] = fate[r]
        /\ fate'[cur] # "unoffered" /\ fate[cur] # "unoffered"
    BY <1>0, <2>1, <2>2 DEF FateInv
  <2>4. \A i \in 1 .. Len(queue) : queue[i] \in Records /\ queue[i] # cur
    BY <1>0, <2>2 DEF FateInv
  <2>5. \A r \in Records : fate'[r] = "unoffered" <=> r > offered'
    BY <2>2, <2>3 DEF FateInv
  <2>6. \A i \in 1 .. Len(queue') : fate'[queue'[i]] = "accepted"
    BY <2>2, <2>3, <2>4 DEF FateInv
  <2> QED BY <2>2, <2>5, <2>6 DEF FateInv
<1>5. CASE UNCHANGED <<offered, queue, cur, fate>>
  BY <1>5 DEF FateInv
<1> QED BY <1>1, <1>2, <1>3, <1>4, <1>5, RecordSteps

(* Every record keeps one fate, and the queue the order of the offers.     *)
LEMMA FateInvariance == Safety => []FateInv
<1>1. Init => FateInv
  BY AsyncAssumption DEF Init, FateInv, Records
<1> QED BY <1>1, NextFate, Invariance, PTL DEF Safety

-----------------------------------------------------------------------------
(* OnOverflow.                                                             *)

(* The dropped records that begin a run of drops.                          *)
DropStarts == {r \in Records :
                 fate[r] = "dropped" /\ (r = 1 \/ fate[r - 1] # "dropped")}

(* While the sink accepts records, the flag Overflowing says whether the   *)
(* last record offered was dropped.                                        *)
OverflowInv ==
  /\ ~closed => (counts.Overflowing <=> offered # 0 /\ fate[offered] = "dropped")
  /\ reports.overflow + overflows = Cardinality(DropStarts)

(* A step that drops nothing begins no run.                                *)
LEMMA SameDrops ==
  ASSUME \A r \in Records : fate'[r] = "dropped" <=> fate[r] = "dropped"
  PROVE  DropStarts' = DropStarts
<1>1. \A r \in Records : r = 1 \/ r - 1 \in Records
  BY AsyncAssumption DEF Records
<1> QED BY <1>1 DEF DropStarts

(* A writer owes OnOverflow exactly when its drop begins a run.            *)
LEMMA NextOverflow ==
  TypeOK /\ ControlInv /\ FateInv /\ OverflowInv /\ [Next]_vars => OverflowInv'
<1> SUFFICES ASSUME TypeOK, ControlInv, FateInv, OverflowInv, [Next]_vars
             PROVE  OverflowInv'
  OBVIOUS
<1>0. /\ offered \in Nat /\ fate \in [Records -> Fates]
      /\ cur \in Records \union {0} /\ counts \in Counts
      /\ overflows \in Nat /\ reports.overflow \in Nat
      /\ reports \in [overflow : Nat, failure : Nat, recovery : Nat]
      /\ \A r \in Records : r \in Nat /\ r # 0
  BY AsyncAssumption DEF TypeOK, SinkType, RunType, GhostType, ReportType, Records
<1>1. CASE WriteClosed
  <2>1. Offer("refused") /\ "refused" \in Fates \ {"unoffered"}
    BY <1>1 DEF WriteClosed, Fates
  <2>2. \A r \in Records : fate'[r] = "dropped" <=> fate[r] = "dropped"
    BY <2>1, OfferFates
  <2>3. DropStarts' = DropStarts
    BY <2>2, SameDrops
  <2>4. closed' /\ UNCHANGED <<reports, overflows>>
    BY <1>1 DEF WriteClosed, reportVars
  <2> QED BY <2>3, <2>4 DEF OverflowInv
<1>2. CASE WriteEnqueue
  <2>1. Offer("accepted") /\ "accepted" \in Fates \ {"unoffered"}
    BY <1>2 DEF WriteEnqueue, Fates
  <2>2. \A r \in Records : fate'[r] = "dropped" <=> fate[r] = "dropped"
    BY <2>1, OfferFates
  <2>3. DropStarts' = DropStarts
    BY <2>2, SameDrops
  <2>4. fate'[offered'] = "accepted"
    BY <2>1, OfferFates
  <2>5. counts'.Overflowing = FALSE
    BY <1>0, <1>2 DEF WriteEnqueue, CountAccepted, Counts
  <2>6. UNCHANGED <<reports, overflows>>
    BY <1>2 DEF WriteEnqueue, reportVars
  <2> QED BY <2>3, <2>4, <2>5, <2>6 DEF OverflowInv
<1>3. CASE WriteDrop
  <2>1. Offer("dropped") /\ "dropped" \in Fates \ {"unoffered"}
    BY <1>3 DEF WriteDrop, Fates
  <2>2. /\ offered' = offered + 1 /\ offered + 1 \in Records
        /\ fate[offered + 1] = "unoffered" /\ fate'[offered + 1] = "dropped"
        /\ \A r \in Records : r # offered + 1 => fate'[r] = fate[r]
    BY <2>1, OfferFates
  <2>3. counts'.Overflowing = TRUE
    BY <1>0, <1>3 DEF WriteDrop, CountDropped, Counts
  <2>4. counts.Overflowing <=> offered # 0 /\ fate[offered] = "dropped"
    BY <1>3 DEF WriteDrop, OverflowInv
  <2>5. IsFiniteSet(DropStarts)
    <3>1. IsFiniteSet(Records) /\ DropStarts \subseteq Records
      BY AsyncAssumption, FS_Interval DEF Records, DropStarts
    <3> QED BY <3>1, FS_Subset
  <2>6. offered + 1 \notin DropStarts
    BY <2>2 DEF DropStarts
  <2>8. \A r \in Records : r > offered + 1 => fate'[r] # "dropped"
    BY <1>0, <2>2 DEF FateInv
  <2>9. \A r \in Records \ {offered + 1} : r \in DropStarts' <=> r \in DropStarts
    <3> SUFFICES ASSUME NEW r \in Records, r # offered + 1
                 PROVE  r \in DropStarts' <=> r \in DropStarts
      OBVIOUS
    <3>1. CASE r > offered + 1
      BY <2>2, <2>8, <3>1 DEF DropStarts
    <3>2. CASE r < offered + 1
      <4>1. r = 1 \/ (r - 1 \in Records /\ r - 1 # offered + 1)
        <5>1. r = 1 \/ r - 1 \in Records
          BY AsyncAssumption DEF Records
        <5>2. r \in Nat /\ offered \in Nat
          BY <1>0
        <5>3. r - 1 # offered + 1
          BY <3>2, <5>2
        <5> QED BY <5>1, <5>3
      <4> QED BY <2>2, <4>1 DEF DropStarts
    <3> QED BY <1>0, <3>1, <3>2
  <2>10. offered + 1 \in DropStarts' <=> ~counts.Overflowing
    <3>1. offered # 0 => offered \in Records /\ fate'[offered] = fate[offered]
      <4>1. offered # 0 => offered \in Records /\ offered # offered + 1
        BY <1>0, <2>2, AsyncAssumption DEF Records
      <4> QED BY <2>2, <4>1
    <3>2. offered + 1 \in DropStarts' <=> (offered = 0 \/ fate'[offered] # "dropped")
      BY <1>0, <2>2 DEF DropStarts
    <3> QED BY <2>4, <3>1, <3>2
  <2>11. DropStarts \subseteq Records /\ DropStarts' \subseteq Records
    BY DEF DropStarts
  <2>12. CASE counts.Overflowing
    <3>1. DropStarts' = DropStarts
      BY <2>6, <2>9, <2>10, <2>11, <2>12
    <3>2. reports' = reports /\ overflows' = overflows
      BY <1>3, <2>12 DEF WriteDrop
    <3>3. offered' # 0 /\ fate'[offered'] = "dropped"
      BY <1>0, <2>2
    <3> QED BY <2>3, <3>1, <3>2, <3>3 DEF OverflowInv
  <2>13. CASE ~counts.Overflowing
    <3>1. DropStarts' = DropStarts \union {offered + 1}
      BY <2>2, <2>6, <2>9, <2>10, <2>11, <2>13
    <3>2. Cardinality(DropStarts') = Cardinality(DropStarts) + 1
      BY <2>5, <2>6, <3>1, FS_AddElement
    <3>3. reports' = reports /\ overflows' = overflows + 1
      BY <1>3, <2>13 DEF WriteDrop
    <3> QED BY <1>0, <2>2, <2>3, <3>2, <3>3 DEF OverflowInv
  <2> QED BY <2>12, <2>13
<1>4. CASE Abandon \/ Account
  <2>1. PICK f \in {"abandoned", "failed", "written"} :
          fate' = [fate EXCEPT ![cur] = f]
    BY <1>4 DEF Abandon, Account, AccountFailure, AccountSuccess
  <2>2. cur \in Records /\ fate[cur] = "accepted"
        /\ UNCHANGED <<offered, closed, reports, overflows>>
    BY <1>0, <1>4 DEF Abandon, Account, ControlInv, Holding, FateInv, reportVars
  <2>3. \A r \in Records : fate'[r] = "dropped" <=> fate[r] = "dropped"
    BY <1>0, <2>1, <2>2
  <2>4. offered # 0 => offered \in Records
    BY AsyncAssumption DEF TypeOK, SinkType, Records
  <2>5. counts'.Overflowing = counts.Overflowing
    BY <1>0, <1>4 DEF Abandon, Account, AccountFailure, AccountSuccess, Counts,
                      CountAbandoned, CountFailed, CountWritten
  <2>6. DropStarts' = DropStarts
    BY <2>3, SameDrops
  <2> QED BY <2>2, <2>3, <2>4, <2>5, <2>6 DEF OverflowInv
<1>5. CASE UNCHANGED <<offered, fate, counts, overflows, reports>> /\ (closed => closed')
  BY <1>5 DEF OverflowInv, DropStarts
<1>6. CASE OnOverflow
  <2>1. /\ reports'.overflow = reports.overflow + 1
        /\ overflows' = overflows - 1
    BY <1>0, <1>6 DEF OnOverflow
  <2>2. UNCHANGED <<offered, fate, counts, closed>> /\ DropStarts' = DropStarts
    BY <1>6 DEF OnOverflow, sinkVars, ghostVars, DropStarts
  <2> QED BY <1>0, <2>1, <2>2 DEF OverflowInv
<1>7. CASE Report
  <2>1. reports'.overflow = reports.overflow
    BY <1>0, <1>7 DEF Report
  <2>2. UNCHANGED <<offered, fate, counts, closed, overflows>>
        /\ DropStarts' = DropStarts
    BY <1>7 DEF Report, sinkVars, ghostVars, DropStarts
  <2> QED BY <2>1, <2>2 DEF OverflowInv
<1> USE DEF sinkVars, runVars, ghostVars, reportVars
<1>8. CASE Deliver
  BY <1>5, <1>8 DEF Deliver, DeliverDirect, DeliverBounded, DrainPending,
             DrainTimeout, Handoff, AwaitResult, AwaitTimeout
<1>9. CASE \/ Take \/ Proceed \/ CloseAttempts \/ CloseDone \/ Expire
           \/ LoopCalls \/ LoopExit
  BY <1>5, <1>9 DEF Take, Proceed, CloseAttempts, CloseDone, Expire,
                    LoopCalls, LoopExit
<1>10. CASE InnerReturns
  BY <1>5, <1>10 DEF InnerReturns, InnerReturnsToRun, InnerReturnsToLoop
<1>11. ASSUME NEW c \in Closers, CloseBegin(c) \/ CtxExpire(c) \/ Close(c)
      PROVE  OverflowInv'
  BY <1>5, <1>11 DEF CloseBegin, CtxExpire, Close, CloseDrained, CloseDeadline,
              CloseMeasure, CloseCancel, CloseReturn
<1>12. CASE UNCHANGED vars
  BY <1>5, <1>12 DEF vars
<1> QED BY <1>1, <1>2, <1>3, <1>4, <1>6, <1>7, <1>8, <1>9, <1>10, <1>11, <1>12
        DEF Next, Write, Run

(* AsyncSink!OverflowOncePerRun: OnOverflow runs once per run of drops.    *)
THEOREM OverflowReportedOnce == Safety => []OverflowOncePerRun
<1>1. Init => OverflowInv
  <2> SUFFICES ASSUME Init PROVE OverflowInv
    OBVIOUS
  <2>1. DropStarts = {}
    BY DEF Init, DropStarts
  <2> QED BY <2>1, FS_EmptySet DEF Init, ZeroCounts, OverflowInv
<1>2. OverflowInv => OverflowOncePerRun
  BY DEF OverflowInv, OverflowOncePerRun, DropRuns, DropStarts
<1> QED BY <1>1, <1>2, NextOverflow, FateInvariance, Invariance, PTL DEF Safety

-----------------------------------------------------------------------------
(* The number Close reports.                                               *)

Checking == IF run = "check" THEN 1 ELSE 0

(* Nothing is abandoned before the first cancellation, and until then the  *)
(* queue only gets shorter than Close measured it; after it, what is still *)
(* queued or about to be checked is yet to be abandoned, and no more.      *)
NumberInv ==
  /\ ~stop => counts.Abandoned = 0
  /\ \A c \in Closers : closer[c] # "idle" => closed
  /\ \A c \in Closers : closer[c] = "cancel" => Len(queue) <= remaining[c]
  /\ stop => \E c \in Closers :
       /\ closer[c] \in {"wait", "returned"}
       /\ counts.Abandoned + Len(queue) + Checking <= remaining[c] + 1

(* A step of the sink or of run that keeps the closers keeps the bound     *)
(* when it adds nothing to what may still be abandoned.                    *)
LEMMA NumberShrinks ==
  ASSUME NumberInv, UNCHANGED <<closer, remaining, stop>>, closed => closed',
         Len(queue) \in Nat, Len(queue') \in Nat, Len(queue') <= Len(queue),
         counts.Abandoned \in Nat, counts'.Abandoned \in Nat,
         remaining \in [Closers -> Nat],
         counts'.Abandoned + Len(queue') + Checking'
           <= counts.Abandoned + Len(queue) + Checking,
         ~stop => counts'.Abandoned = 0
  PROVE  NumberInv'
<1>0. Checking \in Nat /\ Checking' \in Nat
  BY DEF Checking
<1>1. \A c \in Closers : closer'[c] # "idle" => closed'
  BY DEF NumberInv
<1>2. \A c \in Closers : closer'[c] = "cancel" => Len(queue') <= remaining'[c]
  BY DEF NumberInv
<1>3. ASSUME stop'
      PROVE  \E c \in Closers :
               /\ closer'[c] \in {"wait", "returned"}
               /\ counts'.Abandoned + Len(queue') + Checking' <= remaining'[c] + 1
  <2>1. PICK c \in Closers :
               /\ closer[c] \in {"wait", "returned"}
               /\ counts.Abandoned + Len(queue) + Checking <= remaining[c] + 1
    BY <1>3 DEF NumberInv
  <2>2. remaining[c] \in Nat
    OBVIOUS
  <2>3. counts'.Abandoned + Len(queue') + Checking' <= remaining[c] + 1
    BY <1>0, <2>1, <2>2
  <2> QED BY <2>1, <2>3
<1> QED BY <1>1, <1>2, <1>3 DEF NumberInv

(* run abandons only what Close measured, and the record it held then.     *)
LEMMA NextNumber == TypeOK /\ NumberInv /\ [Next]_vars => NumberInv'
<1> SUFFICES ASSUME TypeOK, NumberInv, [Next]_vars PROVE NumberInv'
  OBVIOUS
<1> USE DEF sinkVars, runVars, closeVars
<1>0. /\ Len(queue) \in Nat /\ queue \in Seq(Records)
      /\ counts \in Counts /\ counts.Abandoned \in Nat
      /\ remaining \in [Closers -> Nat]
      /\ closer \in [Closers -> {"idle", "select", "measure", "cancel", "wait",
                                 "returned"}]
  BY DEF TypeOK, SinkType, CloseType, Counts
<1>1. ASSUME UNCHANGED <<closer, remaining, stop, closed, queue>>,
             counts'.Abandoned = counts.Abandoned, Checking' <= Checking
      PROVE  NumberInv'
  <2>1. Checking \in Nat /\ Checking' \in Nat
    BY DEF Checking
  <2>2. counts'.Abandoned + Len(queue') + Checking'
           <= counts.Abandoned + Len(queue) + Checking
    BY <1>0, <1>1, <2>1
  <2> QED BY <1>0, <1>1, <2>2, NumberShrinks DEF NumberInv
<1>2. CASE WriteClosed \/ WriteDrop
  <2>1. counts'.Abandoned = counts.Abandoned
    BY <1>0, <1>2 DEF WriteClosed, WriteDrop, CountDropped, Counts
  <2>2. Checking' = Checking /\ Checking \in Nat
    BY <1>2 DEF WriteClosed, WriteDrop, Checking
  <2> QED BY <1>1, <1>2, <2>1, <2>2 DEF WriteClosed, WriteDrop
<1>3. CASE WriteEnqueue
  <2>1. \A c \in Closers : closer[c] = "idle"
    BY <1>3 DEF WriteEnqueue, NumberInv
  <2>2. ~stop
    BY <2>1 DEF NumberInv
  <2>3. counts'.Abandoned = counts.Abandoned
    BY <1>0, <1>3 DEF WriteEnqueue, CountAccepted, Counts
  <2>4. UNCHANGED <<closer, remaining, stop, closed>>
    BY <1>3 DEF WriteEnqueue
  <2> QED BY <2>1, <2>2, <2>3, <2>4 DEF NumberInv
<1>4. CASE Take
  <2>1. Len(queue') \in Nat /\ Len(queue') = Len(queue) - 1
    BY <1>0, <1>4 DEF Take
  <2>2. Checking = 0 /\ Checking' = 1
    BY <1>4 DEF Take, Checking
  <2>3. UNCHANGED <<closer, remaining, stop, closed, counts>>
    BY <1>4 DEF Take
  <2>4. /\ Len(queue') <= Len(queue)
        /\ counts'.Abandoned + Len(queue') + Checking'
             <= counts.Abandoned + Len(queue) + Checking
    BY <1>0, <2>1, <2>2, <2>3
  <2> QED BY <1>0, <2>1, <2>3, <2>4, NumberShrinks DEF NumberInv
<1>5. CASE Abandon
  <2>1. counts'.Abandoned = counts.Abandoned + 1
    BY <1>0, <1>5 DEF Abandon, CountAbandoned, Counts
  <2>2. Checking = 1 /\ Checking' = 0
    BY <1>5 DEF Abandon, Checking
  <2>3. UNCHANGED <<closer, remaining, stop, closed, queue>> /\ stop
    BY <1>5 DEF Abandon
  <2>4. counts'.Abandoned + Len(queue') + Checking'
          <= counts.Abandoned + Len(queue) + Checking
    BY <1>0, <2>1, <2>2, <2>3
  <2> QED BY <1>0, <2>1, <2>3, <2>4, NumberShrinks
<1>6. CASE Account
  <2>1. counts'.Abandoned = counts.Abandoned
    BY <1>0, <1>6 DEF Account, AccountFailure, AccountSuccess, CountFailed,
                      CountWritten, Counts
  <2>2. Checking' = 0 /\ Checking = 0
    BY <1>6 DEF Account, Checking
  <2> QED BY <1>1, <1>6, <2>1, <2>2 DEF Account
<1>7. ASSUME UNCHANGED <<closer, remaining, stop, closed, queue, counts>>,
             run' # "check" \/ run' = run
      PROVE  NumberInv'
  <2>1. Checking' <= Checking
    BY <1>7 DEF Checking
  <2> QED BY <1>1, <1>7, <2>1
<1>8. CASE Deliver
  BY <1>7, <1>8 DEF Deliver, DeliverDirect, DeliverBounded, DrainPending,
             DrainTimeout, Handoff, AwaitResult, AwaitTimeout, HasPending
<1>9. CASE Proceed \/ Report \/ CloseAttempts \/ CloseDone
  BY <1>7, <1>9 DEF Proceed, Report, CloseAttempts, CloseDone
<1>10. CASE OnOverflow \/ Expire \/ LoopCalls \/ LoopExit
  BY <1>7, <1>10 DEF OnOverflow, Expire, LoopCalls, LoopExit
<1>11. CASE InnerReturns
  BY <1>7, <1>11 DEF InnerReturns, InnerReturnsToRun, InnerReturnsToLoop
<1>12. ASSUME NEW c \in Closers, CloseBegin(c) \/ CtxExpire(c) \/ Close(c)
       PROVE  NumberInv'
  <2>0. UNCHANGED <<queue, counts, run>> /\ Checking' = Checking
        /\ Checking \in 0 .. 1
    BY <1>12 DEF CloseBegin, CtxExpire, Close, CloseDrained, CloseDeadline,
              CloseMeasure, CloseCancel, CloseReturn, Checking
  <2>1. CASE CtxExpire(c)
    BY <1>7, <2>1 DEF CtxExpire
  <2>2. ASSUME UNCHANGED <<remaining, stop>>, closed => closed',
               NEW l \in {"select", "measure", "returned"},
               closer' = [closer EXCEPT ![c] = l], l # "idle" => closed',
               closer[c] # "cancel", closer[c] = "wait" => l = "returned",
               closer[c] # "returned"
        PROVE  NumberInv'
    <3>1. \A d \in Closers : closer'[d] # "idle" => closed'
      BY <1>0, <2>2 DEF NumberInv
    <3>2. \A d \in Closers : closer'[d] = "cancel" => closer[d] = "cancel"
      BY <1>0, <2>2
    <3>3. \A d \in Closers : closer[d] \in {"wait", "returned"}
                            => closer'[d] \in {"wait", "returned"}
      BY <1>0, <2>2
    <3> QED BY <2>0, <2>2, <3>1, <3>2, <3>3 DEF NumberInv
  <2>3. CASE CloseBegin(c)
    BY <2>2, <2>3 DEF CloseBegin
  <2>4. CASE CloseDrained(c) \/ CloseReturn(c)
    BY <2>2, <2>4 DEF CloseDrained, CloseReturn, Return, NumberInv
  <2>5. CASE CloseDeadline(c)
    BY <2>2, <2>5 DEF CloseDeadline, NumberInv
  <2>6. CASE CloseMeasure(c)
    <3>1. \A d \in Closers :
            /\ closer'[d] # "idle" => closed'
            /\ closer'[d] = "cancel" => Len(queue) <= remaining'[d]
            /\ closer[d] \in {"wait", "returned"} =>
                 closer'[d] = closer[d] /\ remaining'[d] = remaining[d]
      BY <1>0, <2>6 DEF CloseMeasure, NumberInv
    <3>2. stop' = stop
      BY <2>6 DEF CloseMeasure
    <3> QED BY <2>0, <3>1, <3>2 DEF NumberInv
  <2>7. CASE CloseCancel(c)
    <3>1. \A d \in Closers :
            /\ closer'[d] # "idle" => closed'
            /\ closer'[d] = "cancel" => closer[d] = "cancel"
            /\ closer[d] \in {"wait", "returned"} => closer'[d] = closer[d]
      BY <1>0, <2>7 DEF CloseCancel, NumberInv
    <3>2. stop' /\ remaining' = remaining /\ closer'[c] = "wait"
      BY <1>0, <2>7 DEF CloseCancel
    <3>3. CASE stop
      BY <2>0, <3>1, <3>2, <3>3 DEF NumberInv
    <3>4. CASE ~stop
      <4>1. counts.Abandoned = 0 /\ Len(queue) <= remaining[c]
        BY <2>7, <3>4 DEF CloseCancel, NumberInv
      <4>2. remaining[c] \in Nat
        BY <1>0
      <4>3. counts.Abandoned + Len(queue) + Checking <= remaining[c] + 1
        BY <1>0, <2>0, <4>1, <4>2
      <4> QED BY <2>0, <3>1, <3>2, <4>3 DEF NumberInv
    <3> QED BY <3>3, <3>4
  <2> QED BY <1>12, <2>1, <2>3, <2>4, <2>5, <2>6, <2>7 DEF Close
<1>13. CASE UNCHANGED vars
  BY <1>7, <1>13 DEF vars
<1> QED BY <1>2, <1>3, <1>4, <1>5, <1>6, <1>8, <1>9, <1>10, <1>11, <1>12, <1>13
        DEF Next, Write, Run

(* The bound holds of every reachable state.                               *)
LEMMA NumberInvariance == Safety => []NumberInv
<1>1. Init => NumberInv
  BY DEF Init, ZeroCounts, NumberInv
<1> QED BY <1>1, NextNumber, Invariance, PTL DEF Safety

(* AsyncSink!CloseNumberWithinOne: of the Close calls that got to cancel,  *)
(* one reports a number at most one short of the records abandoned.        *)
THEOREM CloseNumberBound == Safety => []CloseNumberWithinOne
<1>1. TypeOK /\ NumberInv => CloseNumberWithinOne
  <2> SUFFICES ASSUME TypeOK, NumberInv, stop PROVE CloseNumberWithinOne
    BY DEF CloseNumberWithinOne
  <2>1. PICK c \in Closers :
               /\ closer[c] \in {"wait", "returned"}
               /\ counts.Abandoned + Len(queue) + Checking <= remaining[c] + 1
    BY DEF NumberInv
  <2>2. /\ counts.Abandoned \in Nat /\ Len(queue) \in Nat /\ Checking \in Nat
        /\ remaining[c] \in Nat
    BY DEF TypeOK, SinkType, CloseType, Counts, Checking
  <2>3. counts.Abandoned <= remaining[c] + 1
    BY <2>1, <2>2
  <2> QED BY <2>1, <2>3 DEF CloseNumberWithinOne
<1> QED BY <1>1, NumberInvariance, Invariance, PTL

-----------------------------------------------------------------------------
(* AsyncSink implements DeliveryLedger.                                    *)


(* What the inner sink took is older than everything it may still take:    *)
(* the record loop holds, then the one run holds, then the queue.          *)
OrderInv ==
  /\ \A q \in delivered : q <= offered /\ \A i \in 1 .. Len(queue) : q < queue[i]
  /\ cur # 0 => \A q \in delivered : q <= cur
  /\ held # 0 => /\ held <= offered
                 /\ \A q \in delivered : q < held
                 /\ \A i \in 1 .. Len(queue) : held < queue[i]
                 /\ cur # 0 => held <= cur

(* A delivery that run takes for a success reached the inner sink.         *)
SuccessInv ==
  /\ cur \in delivered => run \in {"await", "account"}
  /\ run = "account" /\ err = "nil" => cur \in delivered
  /\ \A r \in Records : results[r] = "nil" => r \in delivered

(* A delivery run gave up on is settled as failed.                         *)
PendingInv ==
  pending # 0 => \/ fate[pending] = "failed"
                 \/ run = "account" /\ pending = cur /\ err # "nil"

ArrivalInv == OrderInv /\ SuccessInv /\ PendingInv

Base == TypeOK /\ ControlInv /\ HandoffInv /\ FateInv /\ NumberInv

(* What loop holds is what run awaits or gave up on.                       *)
LEMMA HeldIsKnown ==
  ASSUME Base, ArrivalInv, held # 0
  PROVE  \/ run = "await" /\ held = cur
         \/ held = pending /\ pending # 0
BY DEF Base, TypeOK, RunType, LoopType, ControlInv, HandoffInv, Outstanding

(* The order of the records, by the steps that move one.                   *)
LEMMA NextOrder == Base /\ ArrivalInv /\ [Next]_vars => OrderInv'
<1> SUFFICES ASSUME Base, ArrivalInv, [Next]_vars PROVE OrderInv'
  OBVIOUS
<1>0. /\ queue \in Seq(Records) /\ cur \in Records \union {0}
      /\ held \in Records \union {0} /\ delivered \subseteq Records
      /\ offered \in Nat /\ Records \subseteq Nat /\ 0 \notin Records
      /\ \A i \in 1 .. Len(queue) : queue[i] \in Records
      /\ Len(queue) \in Nat
  BY AsyncAssumption DEF Base, TypeOK, SinkType, RunType, LoopType, GhostType,
                         Records
<1> USE DEF sinkVars, runVars, loopVars, ghostVars
<1>1. CASE WriteClosed \/ WriteDrop
  <2>1. offered' = offered + 1 /\ UNCHANGED <<queue, cur, held, delivered>>
    BY <1>1 DEF WriteClosed, WriteDrop, Offer
  <2>2. \A q \in Records : q <= offered => q <= offered + 1
    BY <1>0
  <2> QED BY <1>0, <2>1, <2>2 DEF ArrivalInv, OrderInv
<1>2. CASE WriteEnqueue
  <2>1. /\ offered' = offered + 1 /\ queue' = Append(queue, offered + 1)
        /\ UNCHANGED <<cur, held, delivered>>
    BY <1>2 DEF WriteEnqueue, Offer
  <2>2. /\ Len(queue') = Len(queue) + 1
        /\ \A i \in 1 .. Len(queue) : queue'[i] = queue[i]
        /\ queue'[Len(queue) + 1] = offered + 1
    BY <1>0, <2>1
  <2>3. \A q \in Records : q <= offered =>
          q <= offered + 1 /\ q < offered + 1
    BY <1>0
  <2>4. ASSUME NEW i \in 1 .. Len(queue'), NEW q \in Records, q <= offered,
               \A j \in 1 .. Len(queue) : q < queue[j]
        PROVE  q < queue'[i]
    <3>1. CASE i = Len(queue) + 1
      BY <2>2, <2>3, <2>4, <3>1
    <3>2. CASE i # Len(queue) + 1
      <4>1. i \in 1 .. Len(queue)
        BY <1>0, <2>2, <3>2
      <4> QED BY <2>2, <2>4, <4>1
    <3> QED BY <3>1, <3>2
  <2>5. \A q \in delivered : q <= offered' /\ \A i \in 1 .. Len(queue') : q < queue'[i]
    BY <1>0, <2>1, <2>3, <2>4 DEF ArrivalInv, OrderInv
  <2>6. held # 0 => /\ held <= offered'
                    /\ \A i \in 1 .. Len(queue') : held < queue'[i]
    BY <1>0, <2>1, <2>3, <2>4 DEF ArrivalInv, OrderInv
  <2> QED BY <2>1, <2>5, <2>6 DEF ArrivalInv, OrderInv
<1>3. CASE Take
  <2>1. /\ queue # <<>> /\ cur' = Head(queue) /\ queue' = Tail(queue)
        /\ UNCHANGED <<offered, held, delivered>>
    BY <1>3 DEF Take
  <2>2. /\ Len(queue) >= 1 /\ cur' = queue[1]
        /\ Len(queue') = Len(queue) - 1
        /\ \A i \in 1 .. Len(queue') : queue'[i] = queue[i + 1]
    BY <1>0, <2>1
  <2>3. /\ 1 \in 1 .. Len(queue)
        /\ \A i \in 1 .. Len(queue') : i + 1 \in 1 .. Len(queue)
    BY <1>0, <2>2
  <2>4. ASSUME NEW q \in Records, \A i \in 1 .. Len(queue) : q < queue[i]
        PROVE  q <= cur' /\ \A i \in 1 .. Len(queue') : q < queue'[i]
    <3>1. q < queue[1] /\ queue[1] \in Nat /\ q \in Nat
      BY <1>0, <2>3, <2>4
    <3> QED BY <2>2, <2>3, <2>4, <3>1
  <2> QED BY <1>0, <2>1, <2>4 DEF ArrivalInv, OrderInv
<1>4. CASE Abandon \/ Account
  <2>1. cur' = 0 /\ UNCHANGED <<offered, queue, held, delivered>>
    BY <1>4 DEF Abandon, Account
  <2> QED BY <2>1 DEF ArrivalInv, OrderInv
<1>5. CASE Handoff
  <2>1. held' = cur /\ UNCHANGED <<offered, queue, cur, delivered>> /\ run = "handoff"
    BY <1>5 DEF Handoff
  <2>2. cur # 0 /\ cur \in Records /\ cur \notin delivered
    BY <1>0, <2>1 DEF Base, ControlInv, Holding, ArrivalInv, SuccessInv
  <2>3. cur <= offered /\ \A i \in 1 .. Len(queue) : cur < queue[i]
    BY <1>0, <2>2 DEF Base, FateInv
  <2>4. \A q \in delivered : q < cur
    <3>1. \A q \in delivered : q <= cur /\ q # cur /\ q \in Nat /\ cur \in Nat
      BY <1>0, <2>2 DEF ArrivalInv, OrderInv
    <3> QED BY <3>1
  <2>5. cur <= cur
    BY <1>0
  <2> QED BY <2>1, <2>3, <2>4, <2>5 DEF ArrivalInv, OrderInv
<1>6. ASSUME NEW e \in {"nil", "inner"}, InnerReturnsToRun(e) PROVE OrderInv'
  <2>1. /\ run = "inner" /\ UNCHANGED <<offered, queue, cur, held>>
        /\ delivered' \subseteq delivered \union {cur}
    BY <1>6 DEF InnerReturnsToRun
  <2>2. cur # 0 /\ cur \in Records
    BY <1>0, <2>1 DEF Base, ControlInv, Holding
  <2>3. cur <= offered /\ (\A i \in 1 .. Len(queue) : cur < queue[i]) /\ cur <= cur
    BY <1>0, <2>2 DEF Base, FateInv
  <2>4. held = 0
    BY <2>1, HeldIsKnown DEF Base, ControlInv
  <2> QED BY <2>1, <2>3, <2>4 DEF ArrivalInv, OrderInv
<1>7. ASSUME NEW e \in {"nil", "inner"}, InnerReturnsToLoop(e) PROVE OrderInv'
  <2>1. /\ loop = "inner" /\ UNCHANGED <<offered, queue, cur>> /\ held' = 0
        /\ delivered' \subseteq delivered \union {held}
    BY <1>7 DEF InnerReturnsToLoop
  <2>2. held # 0
    BY <2>1 DEF Base, ControlInv
  <2> QED BY <2>1, <2>2 DEF ArrivalInv, OrderInv
<1>8. CASE UNCHANGED <<offered, queue, cur, held, delivered>>
  BY <1>8 DEF ArrivalInv, OrderInv
<1>9. CASE Deliver
  BY <1>5, <1>8, <1>9 DEF Deliver, DeliverDirect, DeliverBounded, DrainPending,
             DrainTimeout, AwaitResult, AwaitTimeout
<1>10. CASE Proceed \/ Report \/ CloseAttempts \/ CloseDone
  BY <1>8, <1>10 DEF Proceed, Report, CloseAttempts, CloseDone
<1>11. CASE OnOverflow \/ Expire \/ LoopCalls \/ LoopExit
  BY <1>8, <1>11 DEF OnOverflow, Expire, LoopCalls, LoopExit
<1>12. ASSUME NEW c \in Closers, CloseBegin(c) \/ CtxExpire(c) \/ Close(c)
       PROVE  OrderInv'
  BY <1>8, <1>12 DEF CloseBegin, CtxExpire, Close, CloseDrained, CloseDeadline,
              CloseMeasure, CloseCancel, CloseReturn
<1>13. CASE UNCHANGED vars
  BY <1>8, <1>13 DEF vars
<1> QED BY <1>1, <1>2, <1>3, <1>4, <1>6, <1>7, <1>9, <1>10, <1>11, <1>12, <1>13
        DEF Next, Write, Run, InnerReturns

(* What reached the inner sink, and how run learns of it.                  *)
LEMMA NextSuccess == Base /\ ArrivalInv /\ [Next]_vars => SuccessInv'
<1> SUFFICES ASSUME Base, ArrivalInv, [Next]_vars PROVE SuccessInv'
  OBVIOUS
<1>0. /\ queue \in Seq(Records) /\ cur \in Records \union {0}
      /\ held \in Records \union {0} /\ delivered \subseteq Records
      /\ pending \in Records \union {0}
      /\ Records \subseteq Nat /\ 0 \notin Records
      /\ results \in [Records -> {"empty", "nil", "inner"}]
  BY AsyncAssumption DEF Base, TypeOK, SinkType, RunType, LoopType, GhostType,
                         Records
<1> USE DEF sinkVars, runVars, loopVars, ghostVars
<1>1. ASSUME UNCHANGED <<cur, delivered, results, err>>,
             run' = run \/ (run \notin {"await", "account"} /\ run' # "account")
      PROVE  SuccessInv'
  BY <1>1 DEF ArrivalInv, SuccessInv
<1>2. CASE WriteClosed \/ WriteEnqueue \/ WriteDrop
  BY <1>1, <1>2 DEF WriteClosed, WriteEnqueue, WriteDrop
<1>3. CASE Take
  <2>1. /\ queue # <<>> /\ cur' = Head(queue) /\ run' = "check"
        /\ UNCHANGED <<delivered, results>>
    BY <1>3 DEF Take
  <2>2. 1 \in 1 .. Len(queue) /\ cur' = queue[1] /\ queue[1] \in Records
    BY <1>0, <2>1
  <2>3. cur' \notin delivered
    <3>1. ASSUME cur' \in delivered PROVE FALSE
      <4>1. cur' \in Nat /\ cur' < cur'
        BY <1>0, <2>2, <3>1 DEF ArrivalInv, OrderInv
      <4> QED BY <4>1
    <3> QED BY <3>1
  <2> QED BY <2>1, <2>3 DEF ArrivalInv, SuccessInv
<1>4. CASE Abandon \/ Account
  <2>1. cur' = 0 /\ run' \in {"range", "report"} /\ UNCHANGED <<delivered, results>>
    BY <1>4 DEF Abandon, Account
  <2> QED BY <1>0, <2>1 DEF ArrivalInv, SuccessInv
<1>5. CASE DrainPending
  <2>1. /\ run' = "handoff" /\ run = "drain" /\ UNCHANGED <<cur, delivered>>
        /\ results' = [results EXCEPT ![pending] = "empty"]
    BY <1>5 DEF DrainPending
  <2>2. \A r \in Records : results'[r] = "nil" => results[r] = "nil"
    BY <1>0, <2>1
  <2> QED BY <2>1, <2>2 DEF ArrivalInv, SuccessInv
<1>6. CASE DrainTimeout \/ AwaitTimeout
  <2>1. /\ run' = "account" /\ err' # "nil" /\ UNCHANGED <<cur, delivered, results>>
    BY <1>6 DEF DrainTimeout, AwaitTimeout
  <2> QED BY <2>1 DEF ArrivalInv, SuccessInv
<1>7. CASE AwaitResult
  <2>1. /\ run = "await" /\ run' = "account" /\ err' = results[cur]
        /\ results' = [results EXCEPT ![cur] = "empty"]
        /\ UNCHANGED <<cur, delivered>>
    BY <1>7 DEF AwaitResult
  <2>2. \A r \in Records : results'[r] = "nil" => results[r] = "nil"
    BY <1>0, <2>1
  <2>3. cur \in Records
    BY <1>0, <2>1 DEF Base, ControlInv, Holding
  <2> QED BY <2>1, <2>2, <2>3 DEF ArrivalInv, SuccessInv
<1>8. ASSUME NEW e \in {"nil", "inner"}, InnerReturnsToRun(e) PROVE SuccessInv'
  <2>1. /\ run' = "account" /\ err' = e /\ UNCHANGED <<cur, results>>
        /\ delivered' = IF e = "nil" THEN delivered \union {cur} ELSE delivered
    BY <1>8 DEF InnerReturnsToRun
  <2> QED BY <2>1 DEF ArrivalInv, SuccessInv
<1>9. ASSUME NEW e \in {"nil", "inner"}, InnerReturnsToLoop(e) PROVE SuccessInv'
  <2>1. /\ loop = "inner" /\ results' = [results EXCEPT ![held] = e]
        /\ UNCHANGED <<cur, run, err>>
        /\ delivered' = IF e = "nil" THEN delivered \union {held} ELSE delivered
    BY <1>9 DEF InnerReturnsToLoop
  <2>2. held # 0 /\ held \in Records
    BY <1>0, <2>1 DEF Base, ControlInv
  <2>3. held = cur => run \in {"await", "account"}
    BY <2>2, HeldIsKnown DEF Base, FateInv, ArrivalInv, PendingInv
  <2>4. \A r \in Records : results'[r] = "nil" => r \in delivered'
    BY <1>0, <2>1, <2>2 DEF ArrivalInv, SuccessInv
  <2> QED BY <2>1, <2>3, <2>4 DEF ArrivalInv, SuccessInv
<1>10. CASE DeliverDirect \/ DeliverBounded \/ Handoff
  BY <1>1, <1>10 DEF DeliverDirect, DeliverBounded, Handoff, HasPending
<1>11. CASE Proceed \/ Report \/ CloseAttempts \/ CloseDone
  BY <1>1, <1>11 DEF Proceed, Report, CloseAttempts, CloseDone
<1>12. CASE OnOverflow \/ Expire \/ LoopCalls \/ LoopExit
  BY <1>1, <1>12 DEF OnOverflow, Expire, LoopCalls, LoopExit
<1>13. ASSUME NEW c \in Closers, CloseBegin(c) \/ CtxExpire(c) \/ Close(c)
       PROVE  SuccessInv'
  BY <1>1, <1>13 DEF CloseBegin, CtxExpire, Close, CloseDrained, CloseDeadline,
              CloseMeasure, CloseCancel, CloseReturn
<1>14. CASE UNCHANGED vars
  BY <1>1, <1>14 DEF vars
<1> QED BY <1>2, <1>3, <1>4, <1>5, <1>6, <1>7, <1>8, <1>9, <1>10, <1>11, <1>12,
           <1>13, <1>14 DEF Next, Write, Run, Deliver, InnerReturns

(* run gives up on a delivery only as a failure.                           *)
LEMMA NextPending == Base /\ ArrivalInv /\ [Next]_vars => PendingInv'
<1> SUFFICES ASSUME Base, ArrivalInv, [Next]_vars PROVE PendingInv'
  OBVIOUS
<1>0. /\ cur \in Records \union {0} /\ pending \in Records \union {0}
      /\ fate \in [Records -> Fates] /\ 0 \notin Records
  BY AsyncAssumption DEF Base, TypeOK, RunType, GhostType, Records
<1> USE DEF sinkVars, runVars, loopVars, ghostVars
<1>1. ASSUME UNCHANGED <<pending, fate, cur>>,
             run = "account" => UNCHANGED <<run, err>>
      PROVE  PendingInv'
  BY <1>1 DEF ArrivalInv, PendingInv
<1>2. CASE WriteClosed \/ WriteEnqueue \/ WriteDrop
  <2>1. PICK f \in Fates \ {"unoffered"} : Offer(f)
    BY <1>2 DEF WriteClosed, WriteEnqueue, WriteDrop, Fates
  <2>2. UNCHANGED <<pending, cur, run, err>>
    BY <1>2 DEF WriteClosed, WriteEnqueue, WriteDrop
  <2>3. \A r \in Records : fate[r] = "failed" => fate'[r] = "failed"
    BY <2>1, OfferFates DEF Base
  <2> QED BY <1>0, <2>2, <2>3 DEF ArrivalInv, PendingInv
<1>3. CASE Take
  BY <1>3 DEF Take, ArrivalInv, PendingInv
<1>4. CASE Abandon
  <2>1. /\ run = "check" /\ fate' = [fate EXCEPT ![cur] = "abandoned"]
        /\ pending' = pending
    BY <1>4 DEF Abandon
  <2>2. cur \in Records /\ fate[cur] = "accepted"
    BY <1>0, <2>1 DEF Base, ControlInv, Holding, FateInv
  <2>3. pending # 0 => pending # cur
    BY <2>1, <2>2 DEF ArrivalInv, PendingInv
  <2> QED BY <1>0, <2>1, <2>3 DEF ArrivalInv, PendingInv
<1>5. CASE Account
  <2>1. cur \in Records /\ fate[cur] = "accepted" /\ pending' = pending
    BY <1>0, <1>5 DEF Account, Base, ControlInv, Holding, FateInv
  <2>2. CASE AccountFailure
    <3>1. fate' = [fate EXCEPT ![cur] = "failed"]
      BY <2>2 DEF AccountFailure
    <3> QED BY <1>0, <2>1, <3>1 DEF ArrivalInv, PendingInv
  <2>3. CASE AccountSuccess
    <3>1. fate' = [fate EXCEPT ![cur] = "written"] /\ err = "nil"
      BY <2>3 DEF AccountSuccess
    <3>2. pending # 0 => pending # cur /\ fate[pending] = "failed"
      BY <2>1, <3>1 DEF ArrivalInv, PendingInv
    <3> QED BY <1>0, <2>1, <3>1, <3>2 DEF PendingInv
  <2> QED BY <1>5, <2>2, <2>3 DEF Account
<1>6. CASE DrainPending
  BY <1>6 DEF DrainPending, PendingInv
<1>7. CASE AwaitTimeout
  BY <1>7 DEF AwaitTimeout, PendingInv
<1>8. CASE DrainTimeout \/ AwaitResult
  BY <1>1, <1>8 DEF DrainTimeout, AwaitResult
<1>9. CASE InnerReturns
  BY <1>1, <1>9 DEF InnerReturns, InnerReturnsToRun, InnerReturnsToLoop
<1>10. CASE DeliverDirect \/ DeliverBounded \/ Handoff
  BY <1>1, <1>10 DEF DeliverDirect, DeliverBounded, Handoff
<1>11. CASE Proceed \/ Report \/ CloseAttempts \/ CloseDone
  BY <1>1, <1>11 DEF Proceed, Report, CloseAttempts, CloseDone
<1>12. CASE OnOverflow \/ Expire \/ LoopCalls \/ LoopExit
  BY <1>1, <1>12 DEF OnOverflow, Expire, LoopCalls, LoopExit
<1>13. ASSUME NEW c \in Closers, CloseBegin(c) \/ CtxExpire(c) \/ Close(c)
       PROVE  PendingInv'
  BY <1>1, <1>13 DEF CloseBegin, CtxExpire, Close, CloseDrained, CloseDeadline,
              CloseMeasure, CloseCancel, CloseReturn
<1>14. CASE UNCHANGED vars
  BY <1>1, <1>14 DEF vars
<1> QED BY <1>2, <1>3, <1>4, <1>5, <1>6, <1>7, <1>8, <1>9, <1>10, <1>11, <1>12,
           <1>13, <1>14 DEF Next, Write, Run, Deliver

(* The order of arrival holds of every reachable state.                    *)
LEMMA ArrivalInvariance == Safety => [](Base /\ ArrivalInv)
<1>1. Init => ArrivalInv
  BY AsyncAssumption DEF Init, ArrivalInv, OrderInv, SuccessInv, PendingInv
<1>2. Base /\ ArrivalInv /\ [Next]_vars => ArrivalInv'
  BY NextOrder, NextSuccess, NextPending DEF ArrivalInv
<1>3. Safety => []Base
  BY Invariance, FateInvariance, NumberInvariance, PTL DEF Base
<1> QED BY <1>1, <1>2, <1>3, PTL DEF Safety

-----------------------------------------------------------------------------
(* The ledger.                                                             *)

(* The record in flight leads the backlog.                                 *)
LEMMA BacklogShape ==
  ASSUME TypeOK
  PROVE  /\ cur = 0 => Backlog = queue
         /\ cur # 0 => /\ Backlog # <<>> /\ Head(Backlog) = cur
                       /\ Tail(Backlog) = queue
                       /\ Len(Backlog) = Len(queue) + 1
<1>1. queue \in Seq(Records) /\ cur \in Records \union {0}
  BY DEF TypeOK, SinkType, RunType
<1>2. ASSUME cur # 0
      PROVE  /\ Backlog # <<>> /\ Head(Backlog) = cur
             /\ Tail(Backlog) = queue /\ Len(Backlog) = Len(queue) + 1
  <2>1. Backlog = <<cur>> \o queue /\ <<cur>> \in Seq(Records)
    BY <1>1, <1>2 DEF Backlog
  <2>2. /\ Backlog \in Seq(Records) /\ Len(Backlog) = Len(queue) + 1
        /\ \A i \in 1 .. Len(queue) + 1 :
             Backlog[i] = IF i <= 1 THEN cur ELSE queue[i - 1]
    BY <1>1, <2>1, ConcatProperties
  <2>3. Len(queue) \in Nat /\ Backlog # <<>>
    BY <1>1, <2>2
  <2>4. Head(Backlog) = cur
    BY <2>2, <2>3
  <2>5. /\ Tail(Backlog) \in Seq(Records) /\ Len(Tail(Backlog)) = Len(queue)
        /\ \A i \in 1 .. Len(queue) : Tail(Backlog)[i] = queue[i]
    BY <2>2, <2>3
  <2> QED BY <1>1, <2>2, <2>3, <2>4, <2>5, SeqEqual
<1> QED BY <1>2 DEF Backlog

(* The initial sink is an empty, open ledger.                              *)
LEMMA InitLedger == Init => Ledger!Init
BY DEF Init, Ledger!Init, Backlog

(* An offered record is the ledger's next one.                             *)
LEMMA OfferIsNext ==
  ASSUME Base, NEW f \in Fates \ {"unoffered"}, Offer(f)
  PROVE  /\ offered + 1 \in Records /\ Ledger!IsNext(offered + 1)
         /\ fate' = [fate EXCEPT ![offered + 1] = f]
<1>1. offered + 1 \in Records /\ fate[offered + 1] = "unoffered"
  BY OfferFates DEF Base
<1>2. \A q \in Records : q < offered + 1 => fate[q] # "unoffered"
  BY AsyncAssumption DEF Base, FateInv, TypeOK, SinkType, Records
<1> QED BY <1>1, <1>2 DEF Offer, Ledger!IsNext

(* A write is one ledger step.                                             *)
LEMMA WriteStep == Base /\ Write => Ledger!Next
<1> SUFFICES ASSUME Base, Write PROVE Ledger!Next
  OBVIOUS
<1>0. /\ queue \in Seq(Records) /\ Len(queue) \in Nat
      /\ cur \in Records \union {0} /\ Capacity \in Nat /\ TypeOK
  BY CapacityType DEF Base, TypeOK, SinkType, RunType
<1>1. Len(Backlog) \in Len(queue) .. Len(queue) + 1
  BY <1>0, BacklogShape
<1> USE DEF sinkVars, runVars, ghostVars
<1>2. CASE WriteClosed
  <2>1. Offer("refused") /\ "refused" \in Fates \ {"unoffered"}
    BY <1>2 DEF WriteClosed, Fates
  <2>2. closed /\ UNCHANGED <<closed, queue, cur, delivered>>
    BY <1>2 DEF WriteClosed
  <2>3. Backlog' = Backlog
    BY <2>2 DEF Backlog
  <2>4. Ledger!Refuse(offered + 1)
    BY <2>1, <2>2, <2>3, OfferIsNext DEF Ledger!Refuse
  <2> QED BY <2>1, <2>4, OfferIsNext DEF Ledger!Next
<1>3. CASE WriteDrop
  <2>1. Offer("dropped") /\ "dropped" \in Fates \ {"unoffered"}
    BY <1>3 DEF WriteDrop, Fates
  <2>2. ~closed /\ ~Room /\ UNCHANGED <<closed, queue, cur, delivered>>
    BY <1>3 DEF WriteDrop
  <2>3. Backlog' = Backlog
    BY <2>2 DEF Backlog
  <2>4. Len(Backlog) >= Capacity
    BY <1>0, <1>1, <2>2 DEF Room
  <2>5. Ledger!Drop(offered + 1)
    BY <2>1, <2>2, <2>3, <2>4, OfferIsNext DEF Ledger!Drop
  <2> QED BY <2>1, <2>5, OfferIsNext DEF Ledger!Next
<1>4. CASE WriteEnqueue
  <2>1. Offer("accepted") /\ "accepted" \in Fates \ {"unoffered"}
    BY <1>4 DEF WriteEnqueue, Fates
  <2>2. /\ ~closed /\ Room /\ UNCHANGED <<closed, cur, delivered>>
        /\ queue' = Append(queue, offered + 1)
    BY <1>4 DEF WriteEnqueue
  <2>3. offered + 1 \in Records
    BY <2>1, OfferIsNext
  <2>4. Backlog' = Append(Backlog, offered + 1)
    <3>1. CASE cur = 0
      BY <2>2, <3>1 DEF Backlog
    <3>2. CASE cur # 0
      <4>1. <<cur>> \in Seq(Records) /\ <<offered + 1>> \in Seq(Records)
        BY <1>0, <2>3, <3>2
      <4>2. queue' = queue \o <<offered + 1>>
        BY <1>0, <2>2, <2>3, AppendIsConcat
      <4>3. Backlog' = <<cur>> \o (queue \o <<offered + 1>>)
        BY <2>2, <3>2, <4>2 DEF Backlog
      <4>4. Backlog' = (<<cur>> \o queue) \o <<offered + 1>>
        BY <1>0, <4>1, <4>3, ConcatAssociative
      <4>5. <<cur>> \o queue \in Seq(Records)
        BY <1>0, <4>1, ConcatProperties
      <4>6. Append(<<cur>> \o queue, offered + 1)
              = (<<cur>> \o queue) \o <<offered + 1>>
        BY <2>3, <4>5, AppendIsConcat
      <4> QED BY <3>2, <4>4, <4>6 DEF Backlog
    <3> QED BY <3>1, <3>2
  <2>5. Len(Backlog) <= Capacity
    BY <1>0, <1>1, <2>2 DEF Room
  <2>6. Ledger!Accept(offered + 1)
    BY <2>1, <2>2, <2>4, <2>5, OfferIsNext DEF Ledger!Accept
  <2> QED BY <2>3, <2>6 DEF Ledger!Next
<1> QED BY <1>2, <1>3, <1>4 DEF Write

(* Receiving a record from the queue changes nothing in the ledger.        *)
LEMMA TakeStep == Base /\ Take => UNCHANGED Ledger!vars
<1> SUFFICES ASSUME Base, Take PROVE UNCHANGED Ledger!vars
  OBVIOUS
<1>1. /\ queue \in Seq(Records) /\ queue # <<>> /\ cur = 0 /\ TypeOK
      /\ cur' = Head(queue) /\ queue' = Tail(queue) /\ 0 \notin Records
      /\ UNCHANGED <<closed, delivered, fate>>
  BY AsyncAssumption
     DEF Base, TypeOK, SinkType, RunType, ControlInv, Holding, Take, Records,
         ghostVars
<1>2. /\ Len(queue) \in Nat /\ 1 \in 1 .. Len(queue) /\ Len(queue) \in 1 .. Len(queue)
      /\ Head(queue) = queue[1] /\ queue[1] \in Records
  BY <1>1
<1>3. queue = <<queue[1]>> \o SubSeq(queue, 1 + 1, Len(queue))
  BY <1>1, <1>2, SubSeqFull, SubSeqRecursiveFirst
<1>4. Tail(queue) = SubSeq(queue, 2, Len(queue))
  BY <1>1, TailIsSubSeq
<1>5. Backlog' = <<queue[1]>> \o Tail(queue) /\ Backlog = queue
  BY <1>1, <1>2 DEF Backlog
<1>6. 1 + 1 = 2
  OBVIOUS
<1>7. Backlog' = Backlog
  BY <1>3, <1>4, <1>5, <1>6
<1> QED BY <1>1, <1>7 DEF Ledger!vars

(* run settles the oldest record of the backlog.                           *)
LEMMA SettleStep == Base /\ ArrivalInv /\ (Abandon \/ Account) => Ledger!Next
<1> SUFFICES ASSUME Base, ArrivalInv, Abandon \/ Account PROVE Ledger!Next
  OBVIOUS
<1>1. /\ cur # 0 /\ TypeOK /\ cur' = 0
      /\ UNCHANGED <<queue, closed, delivered>>
  BY DEF Base, ControlInv, Holding, Abandon, Account, sinkVars
<1>2. Backlog # <<>> /\ Head(Backlog) = cur /\ Tail(Backlog) = queue
  BY <1>1, BacklogShape
<1>3. Backlog' = Tail(Backlog)
  BY <1>1, <1>2 DEF Backlog
<1>4. CASE Abandon
  <2>1. stop /\ run = "check" /\ fate' = [fate EXCEPT ![cur] = "abandoned"]
    BY <1>4 DEF Abandon
  <2>2. closed
    BY <2>1 DEF Base, NumberInv
  <2>3. cur \notin delivered
    BY <2>1 DEF ArrivalInv, SuccessInv
  <2>4. Ledger!Settle("abandoned")
    BY <1>1, <1>2, <1>3, <2>1, <2>2, <2>3 DEF Ledger!Settle
  <2> QED BY <2>4 DEF Ledger!Next
<1>5. CASE Account
  <2>1. CASE AccountFailure
    <3>1. Ledger!Settle("failed")
      BY <1>1, <1>2, <1>3, <2>1 DEF AccountFailure, Ledger!Settle
    <3> QED BY <3>1 DEF Ledger!Next
  <2>2. CASE AccountSuccess
    <3>1. cur \in delivered
      BY <1>5, <2>2 DEF Account, AccountSuccess, ArrivalInv, SuccessInv
    <3>2. Ledger!Settle("written")
      BY <1>1, <1>2, <1>3, <2>2, <3>1 DEF AccountSuccess, Ledger!Settle
    <3> QED BY <3>2 DEF Ledger!Next
  <2> QED BY <1>5, <2>1, <2>2 DEF Account
<1> QED BY <1>4, <1>5

(* A success of the inner sink is an arrival in order.                     *)
LEMMA ArriveStep ==
  Base /\ ArrivalInv /\ InnerReturns => Ledger!Next \/ UNCHANGED Ledger!vars
<1> SUFFICES ASSUME Base, ArrivalInv, InnerReturns
             PROVE  Ledger!Next \/ UNCHANGED Ledger!vars
  OBVIOUS
<1> USE DEF sinkVars, runVars, ghostVars
<1>0. /\ cur \in Records \union {0} /\ held \in Records \union {0} /\ TypeOK
      /\ delivered \subseteq Records /\ Records \subseteq Nat
  BY AsyncAssumption DEF Base, TypeOK, RunType, LoopType, GhostType, Records
<1>1. UNCHANGED <<queue, cur, closed, fate, Backlog>>
  BY DEF InnerReturns, InnerReturnsToRun, InnerReturnsToLoop, Backlog
<1>2. CASE delivered' = delivered
  BY <1>1, <1>2 DEF Ledger!vars
<1>3. CASE run = "inner" /\ delivered' = delivered \union {cur}
  <2>1. cur # 0 /\ cur \in Records /\ cur \notin delivered
    BY <1>0, <1>3 DEF Base, ControlInv, Holding, ArrivalInv, SuccessInv
  <2>2. \A q \in delivered : q < cur
    <3>1. \A q \in delivered : q <= cur /\ q # cur /\ q \in Nat /\ cur \in Nat
      BY <1>0, <2>1 DEF ArrivalInv, OrderInv
    <3> QED BY <3>1
  <2>3. Backlog # <<>> /\ Head(Backlog) = cur
    BY <1>0, <2>1, BacklogShape
  <2>4. Ledger!Arrive(cur)
    BY <1>1, <1>3, <2>2, <2>3 DEF Ledger!Arrive
  <2> QED BY <2>1, <2>4 DEF Ledger!Next
<1>4. CASE loop = "inner" /\ delivered' = delivered \union {held}
  <2>1. held # 0 /\ held \in Records
    BY <1>0, <1>4 DEF Base, ControlInv
  <2>2. \A q \in delivered : q < held
    BY <2>1 DEF ArrivalInv, OrderInv
  <2>3. fate[held] = "failed" \/ (cur # 0 /\ held = cur)
    BY <2>1, HeldIsKnown DEF ArrivalInv, PendingInv
  <2>4. fate[held] = "failed" \/ (Backlog # <<>> /\ held = Head(Backlog))
    BY <1>0, <2>3, BacklogShape
  <2>5. Ledger!Arrive(held)
    BY <1>1, <1>4, <2>2, <2>4 DEF Ledger!Arrive
  <2> QED BY <2>1, <2>5 DEF Ledger!Next
<1> QED BY <1>2, <1>3, <1>4 DEF InnerReturns, InnerReturnsToRun,
                               InnerReturnsToLoop

(* Every step of the sink is a ledger step or none.                        *)
LEMMA LedgerStep ==
  Base /\ ArrivalInv /\ [Next]_vars => [Ledger!Next]_(Ledger!vars)
<1> SUFFICES ASSUME Base, ArrivalInv, [Next]_vars
             PROVE  Ledger!Next \/ UNCHANGED Ledger!vars
  OBVIOUS
<1> USE DEF sinkVars, runVars, ghostVars
<1>1. ASSUME UNCHANGED <<queue, cur, closed, delivered, fate>>
      PROVE  UNCHANGED Ledger!vars
  BY <1>1 DEF Ledger!vars, Backlog
<1>2. CASE Deliver
  BY <1>1, <1>2 DEF Deliver, DeliverDirect, DeliverBounded, DrainPending,
             DrainTimeout, Handoff, AwaitResult, AwaitTimeout
<1>3. CASE Proceed \/ Report \/ CloseAttempts \/ CloseDone
  BY <1>1, <1>3 DEF Proceed, Report, CloseAttempts, CloseDone
<1>4. CASE OnOverflow \/ Expire \/ LoopCalls \/ LoopExit
  BY <1>1, <1>4 DEF OnOverflow, Expire, LoopCalls, LoopExit
<1>5. ASSUME NEW c \in Closers, CloseBegin(c)
      PROVE  Ledger!Next \/ UNCHANGED Ledger!vars
  <2>1. closed' = TRUE /\ UNCHANGED <<queue, cur, delivered, fate, Backlog>>
    BY <1>5 DEF CloseBegin, Backlog
  <2>2. closed \in BOOLEAN
    BY DEF Base, TypeOK, SinkType
  <2>3. CASE closed
    BY <2>1, <2>2, <2>3 DEF Ledger!vars
  <2>4. CASE ~closed
    <3>1. Ledger!Shut
      BY <2>1, <2>4 DEF Ledger!Shut
    <3> QED BY <3>1 DEF Ledger!Next
  <2> QED BY <2>3, <2>4
<1>6. ASSUME NEW c \in Closers, CtxExpire(c) \/ Close(c)
      PROVE  UNCHANGED Ledger!vars
  BY <1>1, <1>6 DEF CtxExpire, Close, CloseDrained, CloseDeadline,
              CloseMeasure, CloseCancel, CloseReturn
<1>7. CASE UNCHANGED vars
  BY <1>1, <1>7 DEF vars
<1> QED BY <1>2, <1>3, <1>4, <1>5, <1>6, <1>7, WriteStep, TakeStep, SettleStep,
           ArriveStep DEF Next, Run

(* MCAsyncSink!ImplementsLedger: whatever writers, run, loop, the inner    *)
(* sink and closers do, every accepted record is settled exactly once,     *)
(* oldest first, only a full backlog drops, and records reach the inner    *)
(* sink in the order of their acceptance.                                  *)
THEOREM LedgerRefinement == Safety => ImplementsLedger
BY InitLedger, ArrivalInvariance, LedgerStep, PTL
   DEF Safety, ImplementsLedger, Ledger!Spec
=============================================================================
