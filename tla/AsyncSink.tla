----------------------------- MODULE AsyncSink -----------------------------
(***************************************************************************)
(* The asynchronous sink of go/async.go: writers enqueue records without   *)
(* blocking, one goroutine (run) delivers them to an inner sink in order,  *)
(* and Close drains the queue until its caller's deadline.  With a write   *)
(* timeout the deliveries happen on a second goroutine                     *)
(* (boundedDelivery.loop), so that run can give up on one and go on.       *)
(*                                                                         *)
(* Every critical section under AsyncSink.mu is one step, and so is every  *)
(* channel operation.  A record is the number of the Write call that       *)
(* offered it.  The inner sink is external: it may succeed, fail or never  *)
(* return, whatever its context says.                                      *)
(***************************************************************************)
EXTENDS Integers, Sequences, FiniteSets

CONSTANTS
  OptCapacity,  \* AsyncOptions.Capacity
  Closers,      \* the goroutines that call Close
  MaxRecords    \* bound: the number of Write calls

ASSUME AsyncAssumption ==
  /\ OptCapacity \in Int
  /\ MaxRecords \in Nat

DefaultAsyncCapacity == 1024

(* NewAsyncSink replaces a capacity that is not positive.                  *)
Capacity == IF OptCapacity <= 0 THEN DefaultAsyncCapacity ELSE OptCapacity

Records == 1 .. MaxRecords

VARIABLES
  offered,   \* Write calls so far; the last one offered record number offered
  queue,     \* the records buffered in the channel s.queue
  closed,    \* s.closed, and the channel s.queue is closed
  counts,    \* s.counts without Queued, which is the length of the queue
  stop,      \* the context s.stop is cancelled
  run,       \* where the goroutine run is
  cur,       \* the record run took from the queue, 0 when it holds none
  err,       \* what the delivery of cur returned
  expired,   \* the timer of cur's delivery context fired
  pending,   \* b.pending: the record whose timed-out result is awaited, or 0
  results,   \* what each attempt's result channel holds
  bounded,   \* s.opts.WriteTimeout > 0
  loop,      \* where the goroutine loop is
  held,      \* the record loop is delivering
  callback,  \* the transition callback run owes, "none" when it owes none
  overflows, \* writers that owe an OnOverflow callback
  reports,   \* how often each callback ran
  closer,    \* where each Close call is
  ctxDone,   \* whether the context of each Close call is done
  remaining, \* len(s.queue) as each Close call read it at its deadline
  answer,    \* what each Close call returned: counts and error
  started,   \* history: the records the inner sink was called with, in order
  late,      \* history: inner calls that began after the cancellation
  delivered, \* history: the records the inner sink reported success for
  fate       \* history: what became of each record

sinkVars   == <<offered, queue, closed, counts>>
runVars    == <<run, cur, err, expired, pending, callback>>
loopVars   == <<bounded, loop, held, results>>
closeVars  == <<closer, ctxDone, remaining, answer>>
reportVars == <<overflows, reports>>
ghostVars  == <<started, late, delivered, fate>>
vars == <<sinkVars, stop, runVars, loopVars, closeVars, reportVars, ghostVars>>

ZeroCounts == [Accepted |-> 0, Dropped |-> 0, Written |-> 0, Failed |-> 0,
               Abandoned |-> 0, Overflowing |-> FALSE, Failing |-> FALSE,
               LastError |-> "none"]

(* snapshotLocked: the counts and the length of the queue.                 *)
Snapshot == [counts |-> counts, Queued |-> Len(queue), error |-> "none"]

NoAnswer == [counts |-> ZeroCounts, Queued |-> 0, error |-> "none"]

Init ==
  /\ offered = 0
  /\ queue = <<>>
  /\ closed = FALSE
  /\ counts = ZeroCounts
  /\ stop = FALSE
  /\ run = "range" /\ cur = 0 /\ err = "none" /\ expired = FALSE
  /\ pending = 0
  /\ callback = "none"
  /\ bounded \in BOOLEAN
  /\ loop = IF bounded THEN "recv" ELSE "exited"
  /\ held = 0
  /\ results = [r \in Records |-> "empty"]
  /\ overflows = 0
  /\ reports = [overflow |-> 0, failure |-> 0, recovery |-> 0]
  /\ closer = [c \in Closers |-> "idle"]
  /\ ctxDone = [c \in Closers |-> FALSE]
  /\ remaining = [c \in Closers |-> 0]
  /\ answer = [c \in Closers |-> NoAnswer]
  /\ started = <<>> /\ late = 0 /\ delivered = {}
  /\ fate = [r \in Records |-> "unoffered"]

-----------------------------------------------------------------------------
(* Write: one critical section, then the callback outside the lock.        *)

Offer(f) ==
  /\ offered < MaxRecords
  /\ offered' = offered + 1
  /\ fate' = [fate EXCEPT ![offered + 1] = f]

(* The send case of the select is ready.                                   *)
RoomOffByOne == Len(queue) <= Capacity
Room == Len(queue) < Capacity

(* What an accepted and a dropped record do to the counts.                 *)
CountAcceptedStillOverflowing == [counts EXCEPT !.Accepted = @ + 1]
CountAccepted == [counts EXCEPT !.Accepted = @ + 1, !.Overflowing = FALSE]
CountDropped == [counts EXCEPT !.Dropped = @ + 1, !.Overflowing = TRUE]

(* Write after Close began: ErrSinkClosed, and no counter moves.           *)
WriteClosed ==
  /\ closed
  /\ Offer("refused")
  /\ UNCHANGED <<queue, closed, counts, stop, runVars, loopVars, closeVars,
                 reportVars, started, late, delivered>>

(* The select's send case: there is room in the channel.                   *)
WriteEnqueue ==
  /\ ~closed
  /\ Room
  /\ Offer("accepted")
  /\ queue' = Append(queue, offered + 1)
  /\ counts' = CountAccepted
  /\ UNCHANGED <<closed, stop, runVars, loopVars, closeVars, reportVars,
                 started, late, delivered>>

(* The select's default case: ErrQueueFull.  The first drop of a run of    *)
(* drops leaves this writer with an OnOverflow call to make.               *)
WriteDrop ==
  /\ ~closed
  /\ ~Room
  /\ Offer("dropped")
  /\ counts' = CountDropped
  /\ overflows' = IF counts.Overflowing THEN overflows ELSE overflows + 1
  /\ UNCHANGED <<queue, closed, stop, runVars, loopVars, closeVars, reports,
                 started, late, delivered>>

OnOverflow ==
  /\ overflows > 0
  /\ overflows' = overflows - 1
  /\ reports' = [reports EXCEPT !.overflow = @ + 1]
  /\ UNCHANGED <<sinkVars, stop, runVars, loopVars, closeVars, ghostVars>>

-----------------------------------------------------------------------------
(* run: the delivery goroutine.                                            *)

(* The range over the queue receives the oldest record.                    *)
Take ==
  /\ run = "range"
  /\ queue # <<>>
  /\ cur' = Head(queue)
  /\ queue' = Tail(queue)
  /\ run' = "check"
  /\ UNCHANGED <<offered, closed, counts, stop, err, expired, pending,
                 callback, loopVars, closeVars, reportVars, ghostVars>>

CountNothing == counts
CountAbandoned == [counts EXCEPT !.Abandoned = @ + 1]

(* s.stop.Err(): a cancelled sink abandons the record it took.             *)
Abandon ==
  /\ run = "check"
  /\ stop
  /\ counts' = CountAbandoned
  /\ fate' = [fate EXCEPT ![cur] = "abandoned"]
  /\ cur' = 0
  /\ run' = "range"
  /\ UNCHANGED <<offered, queue, closed, stop, err, expired, pending,
                 callback, loopVars, closeVars, reportVars, started, late,
                 delivered>>

ProceedWhateverStop ==
  /\ run = "check"
  /\ run' = "deliver"
  /\ UNCHANGED <<sinkVars, stop, cur, err, expired, pending, callback,
                 loopVars, closeVars, reportVars, ghostVars>>
Proceed ==
  /\ run = "check"
  /\ ~stop
  /\ run' = "deliver"
  /\ UNCHANGED <<sinkVars, stop, cur, err, expired, pending, callback,
                 loopVars, closeVars, reportVars, ghostVars>>

(* The inner sink is called with r.                                        *)
CallInner(r) ==
  /\ started' = Append(started, r)
  /\ late' = IF stop THEN late + 1 ELSE late

(* Without a write timeout run calls the inner sink itself.                *)
DeliverDirect ==
  /\ run = "deliver"
  /\ ~bounded
  /\ CallInner(cur)
  /\ run' = "inner"
  /\ UNCHANGED <<sinkVars, stop, cur, err, expired, pending, callback,
                 loopVars, closeVars, reportVars, delivered, fate>>

(* b.pending != nil: an earlier delivery has not returned yet.             *)
NoPending == FALSE
HasPending == pending # 0

(* With one, boundedDelivery.deliver starts the record's timer, and waits  *)
(* first for an earlier delivery that timed out and has not returned.      *)
DeliverBounded ==
  /\ run = "deliver"
  /\ bounded
  /\ expired' = FALSE
  /\ run' = IF HasPending THEN "drain" ELSE "handoff"
  /\ UNCHANGED <<sinkVars, stop, cur, err, pending, callback, loopVars,
                 closeVars, reportVars, ghostVars>>

(* ctx.Done(): the delivery context derives from s.stop.                   *)
DoneOnlyByStop == stop
Done == stop \/ expired

(* The timer of the delivery context fires.                                *)
Expire ==
  /\ run \in {"drain", "handoff", "await"}
  /\ ~expired
  /\ expired' = TRUE
  /\ UNCHANGED <<sinkVars, stop, run, cur, err, pending, callback, loopVars,
                 closeVars, reportVars, ghostVars>>

DrainPendingAsOwn ==
  /\ run = "drain"
  /\ results[pending] # "empty"
  /\ err' = results[pending]
  /\ results' = [results EXCEPT ![pending] = "empty"]
  /\ pending' = 0
  /\ run' = "account"
  /\ UNCHANGED <<sinkVars, stop, cur, expired, callback, loop,
                 held, bounded, closeVars, reportVars, ghostVars>>
DrainPending ==
  /\ run = "drain"
  /\ results[pending] # "empty"
  /\ results' = [results EXCEPT ![pending] = "empty"]
  /\ pending' = 0
  /\ run' = "handoff"
  /\ UNCHANGED <<sinkVars, stop, cur, err, expired, callback, loop,
                 held, bounded, closeVars, reportVars, ghostVars>>

DrainTimeout ==
  /\ run = "drain"
  /\ Done
  /\ err' = IF stop THEN "stopped" ELSE "earlier delivery"
  /\ run' = "account"
  /\ UNCHANGED <<sinkVars, stop, cur, expired, pending, callback, loopVars,
                 closeVars, reportVars, ghostVars>>

(* b.attempts <- a: the channel has no buffer, so loop must receive.       *)
Handoff ==
  /\ run = "handoff"
  /\ loop = "recv"
  /\ run' = "await"
  /\ loop' = "attempt"
  /\ held' = cur
  /\ UNCHANGED <<sinkVars, stop, cur, err, expired, pending, callback,
                 bounded, results, closeVars, reportVars, ghostVars>>

(* loop calls the inner sink with the attempt it received, in its own time *)
(* and whatever has become of run, the timer or the stop context since.    *)
LoopCalls ==
  /\ loop = "attempt"
  /\ loop' = "inner"
  /\ CallInner(held)
  /\ UNCHANGED <<sinkVars, stop, runVars, bounded, held, results, closeVars,
                 reportVars, delivered, fate>>

AwaitResult ==
  /\ run = "await"
  /\ results[cur] # "empty"
  /\ err' = results[cur]
  /\ results' = [results EXCEPT ![cur] = "empty"]
  /\ run' = "account"
  /\ UNCHANGED <<sinkVars, stop, cur, expired, pending, callback, loop,
                 held, bounded, closeVars, reportVars, ghostVars>>

AwaitTimeout ==
  /\ run = "await"
  /\ Done
  /\ pending' = cur
  /\ err' = IF stop THEN "stopped" ELSE "timeout"
  /\ run' = "account"
  /\ UNCHANGED <<sinkVars, stop, cur, expired, callback, loopVars, closeVars,
                 reportVars, ghostVars>>

(* The critical section after a delivery: one counter, the failing flag    *)
(* and the callback a change of it calls for.                              *)
CountFailed(e) == [counts EXCEPT !.Failed = @ + 1, !.Failing = TRUE,
                                 !.LastError = e]
CountWrittenStillFailing == [counts EXCEPT !.Written = @ + 1]
CountWritten == [counts EXCEPT !.Written = @ + 1, !.Failing = FALSE]

AccountFailure ==
  /\ err # "nil"
  /\ counts' = CountFailed(err)
  /\ callback' = IF counts.Failing THEN "none" ELSE "OnFailure"
  /\ fate' = [fate EXCEPT ![cur] = "failed"]

AccountSuccess ==
  /\ err = "nil"
  /\ counts' = CountWritten
  /\ callback' = IF counts.Failing THEN "OnRecovery" ELSE "none"
  /\ fate' = [fate EXCEPT ![cur] = "written"]

Account ==
  /\ run = "account"
  /\ AccountFailure \/ AccountSuccess
  /\ run' = "report"
  /\ cur' = 0
  /\ err' = "none"
  /\ UNCHANGED <<offered, queue, closed, stop, expired, pending, loopVars,
                 closeVars, reportVars, started, late, delivered>>

(* The callback runs on this goroutine, outside the lock.                  *)
Report ==
  /\ run = "report"
  /\ reports' = [reports EXCEPT
                   !.failure = IF callback = "OnFailure" THEN @ + 1 ELSE @,
                   !.recovery = IF callback = "OnRecovery" THEN @ + 1 ELSE @]
  /\ callback' = "none"
  /\ run' = "range"
  /\ UNCHANGED <<sinkVars, stop, cur, err, expired, pending, loopVars,
                 closeVars, overflows, ghostVars>>

(* The queue is closed and empty: the deferred close of b.attempts, then   *)
(* the deferred close of s.done.                                           *)
CloseAttempts ==
  /\ run = "range"
  /\ closed /\ queue = <<>>
  /\ run' = "closing"
  /\ UNCHANGED <<sinkVars, stop, cur, err, expired, pending, callback,
                 loopVars, closeVars, reportVars, ghostVars>>

CloseDone ==
  /\ run = "closing"
  /\ run' = "returned"
  /\ UNCHANGED <<sinkVars, stop, cur, err, expired, pending, callback,
                 loopVars, closeVars, reportVars, ghostVars>>

-----------------------------------------------------------------------------
(* The inner sink returns, to run or to loop; e is its error.  loop puts   *)
(* it into the attempt's own buffered channel and receives again.          *)

InnerReturnsToRun(e) ==
  /\ run = "inner"
  /\ err' = e
  /\ run' = "account"
  /\ delivered' = IF e = "nil" THEN delivered \union {cur} ELSE delivered
  /\ UNCHANGED <<sinkVars, stop, cur, expired, pending, callback, loopVars,
                 closeVars, reportVars, started, late, fate>>

InnerReturnsToLoop(e) ==
  /\ loop = "inner"
  /\ results' = [results EXCEPT ![held] = e]
  /\ loop' = "recv"
  /\ held' = 0
  /\ delivered' = IF e = "nil" THEN delivered \union {held} ELSE delivered
  /\ UNCHANGED <<sinkVars, stop, runVars, bounded, closeVars, reportVars,
                 started, late, fate>>

LoopExit ==
  /\ loop = "recv"
  /\ run \in {"closing", "returned"}
  /\ loop' = "exited"
  /\ UNCHANGED <<sinkVars, stop, runVars, bounded, held, results, closeVars,
                 reportVars, ghostVars>>

-----------------------------------------------------------------------------
(* Close.                                                                  *)

CloseBegin(c) ==
  /\ closer[c] = "idle"
  /\ closed' = TRUE
  /\ closer' = [closer EXCEPT ![c] = "select"]
  /\ UNCHANGED <<offered, queue, counts, stop, runVars, loopVars, ctxDone,
                 remaining, answer, reportVars, ghostVars>>

(* The deadline of the caller's context.                                   *)
CtxExpire(c) ==
  /\ closer[c] = "select"
  /\ ~ctxDone[c]
  /\ ctxDone' = [ctxDone EXCEPT ![c] = TRUE]
  /\ UNCHANGED <<sinkVars, stop, runVars, loopVars, closer, remaining,
                 answer, reportVars, ghostVars>>

Return(c, e) ==
  /\ closer' = [closer EXCEPT ![c] = "returned"]
  /\ answer' = [answer EXCEPT ![c] = [Snapshot EXCEPT !.error = e]]

CloseDrained(c) ==
  /\ closer[c] = "select"
  /\ run = "returned"
  /\ Return(c, "nil")
  /\ UNCHANGED <<sinkVars, stop, runVars, loopVars, ctxDone, remaining,
                 reportVars, ghostVars>>

CloseDeadlineCancels(c) ==
  /\ closer[c] = "select"
  /\ ctxDone[c]
  /\ stop' = TRUE
  /\ closer' = [closer EXCEPT ![c] = "measure"]
  /\ UNCHANGED <<sinkVars, runVars, loopVars, ctxDone, remaining, answer,
                 reportVars, ghostVars>>
CloseDeadline(c) ==
  /\ closer[c] = "select"
  /\ ctxDone[c]
  /\ closer' = [closer EXCEPT ![c] = "measure"]
  /\ UNCHANGED <<sinkVars, stop, runVars, loopVars, ctxDone, remaining,
                 answer, reportVars, ghostVars>>

CloseMeasure(c) ==
  /\ closer[c] = "measure"
  /\ remaining' = [remaining EXCEPT ![c] = Len(queue)]
  /\ closer' = [closer EXCEPT ![c] = "cancel"]
  /\ UNCHANGED <<sinkVars, stop, runVars, loopVars, ctxDone, answer,
                 reportVars, ghostVars>>

CloseCancel(c) ==
  /\ closer[c] = "cancel"
  /\ stop' = TRUE
  /\ closer' = [closer EXCEPT ![c] = "wait"]
  /\ UNCHANGED <<sinkVars, runVars, loopVars, ctxDone, remaining, answer,
                 reportVars, ghostVars>>

(* Only a sink with a write timeout waits for run to end.                  *)
WaitForNobody == TRUE
WaitForRun == bounded => run = "returned"

CloseReturn(c) ==
  /\ closer[c] = "wait"
  /\ WaitForRun
  /\ Return(c, "deadline")
  /\ UNCHANGED <<sinkVars, stop, runVars, loopVars, ctxDone, remaining,
                 reportVars, ghostVars>>

-----------------------------------------------------------------------------
Write == WriteClosed \/ WriteEnqueue \/ WriteDrop

Deliver == \/ DeliverDirect \/ DeliverBounded
           \/ DrainPending \/ DrainTimeout
           \/ Handoff \/ AwaitResult \/ AwaitTimeout

Run == \/ Take \/ Abandon \/ Proceed \/ Deliver \/ Account \/ Report
       \/ CloseAttempts \/ CloseDone

InnerReturns == \E e \in {"nil", "inner"} :
                  InnerReturnsToRun(e) \/ InnerReturnsToLoop(e)

Close(c) == \/ CloseDrained(c) \/ CloseDeadline(c) \/ CloseMeasure(c)
            \/ CloseCancel(c) \/ CloseReturn(c)

Next ==
  \/ Write \/ OnOverflow
  \/ Run \/ Expire \/ LoopCalls \/ InnerReturns \/ LoopExit
  \/ \E c \in Closers : CloseBegin(c) \/ CtxExpire(c) \/ Close(c)

(* The scheduler runs every goroutine that can run, timers fire, and a     *)
(* caller that closes does so with a deadline.  Nothing is assumed of the  *)
(* inner sink, nor that anybody writes or closes.                          *)
Fairness ==
  /\ WF_vars(Run) /\ WF_vars(Expire)
  /\ WF_vars(LoopCalls) /\ WF_vars(LoopExit) /\ WF_vars(OnOverflow)
  /\ \A c \in Closers : WF_vars(CtxExpire(c)) /\ WF_vars(Close(c))

Safety == Init /\ [][Next]_vars
Spec == Safety /\ Fairness

-----------------------------------------------------------------------------
(* Properties.                                                             *)

Fates == {"unoffered", "refused", "accepted", "dropped", "abandoned",
          "failed", "written"}
Errors == {"nil", "inner", "stopped", "timeout", "earlier delivery"}
Counts == [Accepted : Nat, Dropped : Nat, Written : Nat, Failed : Nat,
           Abandoned : Nat, Overflowing : BOOLEAN, Failing : BOOLEAN,
           LastError : Errors \union {"none"}]

SinkType ==
  /\ offered \in 0 .. MaxRecords
  /\ queue \in Seq(Records) /\ Len(queue) <= Capacity
  /\ closed \in BOOLEAN
  /\ counts \in Counts
RunType ==
  /\ run \in {"range", "check", "deliver", "inner", "drain", "handoff",
              "await", "account", "report", "closing", "returned"}
  /\ cur \in Records \union {0} /\ pending \in Records \union {0}
  /\ err \in Errors \union {"none"}
  /\ expired \in BOOLEAN
  /\ callback \in {"none", "OnFailure", "OnRecovery"}
LoopType ==
  /\ bounded \in BOOLEAN
  /\ loop \in {"recv", "attempt", "inner", "exited"}
  /\ held \in Records \union {0}
  /\ results \in [Records -> {"empty", "nil", "inner"}]
CloseType ==
  /\ closer \in [Closers -> {"idle", "select", "measure", "cancel", "wait",
                            "returned"}]
  /\ ctxDone \in [Closers -> BOOLEAN]
  /\ remaining \in [Closers -> Nat]
  /\ answer \in [Closers -> [counts : Counts, Queued : Nat,
                             error : {"none", "nil", "deadline"}]]
ReportType ==
  /\ overflows \in Nat
  /\ reports \in [overflow : Nat, failure : Nat, recovery : Nat]
GhostType ==
  /\ started \in Seq(Records)
  /\ late \in Nat
  /\ delivered \in SUBSET Records
  /\ fate \in [Records -> Fates]

(* Every variable has its type; the buffer of s.queue never holds more     *)
(* than make(chan Record, opts.Capacity) gave it.                          *)
TypeOK ==
  /\ SinkType /\ RunType /\ LoopType /\ CloseType /\ ReportType /\ GhostType
  /\ stop \in BOOLEAN

InFlight == IF cur = 0 THEN 0 ELSE 1

(* The comment on AsyncCounts: every accepted record is exactly one of     *)
(* Written, Failed or Abandoned, or still Queued, or the one in flight,    *)
(* at every moment between two critical sections.                          *)
Accounting ==
  counts.Accepted = counts.Written + counts.Failed + counts.Abandoned
                    + Len(queue) + InFlight

(* What Close returns is final when it drained the queue, and with a write *)
(* timeout also at its deadline: no count moves afterwards, and every      *)
(* accepted record is accounted for.                                       *)
CloseCountsFinal ==
  \A c \in Closers :
    (closer[c] = "returned" /\ (bounded \/ answer[c].error = "nil")) =>
       /\ answer[c].counts = counts
       /\ answer[c].Queued = 0
       /\ counts.Accepted = counts.Written + counts.Failed + counts.Abandoned

(* boundedDelivery.deliver sends on the unbuffered b.attempts with no way  *)
(* out; the send never waits on the inner sink, because loop is receiving. *)
NeverWaitsOnInner == run = "handoff" => loop = "recv"

(* OnFailure runs once per run of failures and OnRecovery on the first     *)
(* success after it: they alternate, and between two deliveries the flag   *)
(* Failing says which one ran last.                                        *)
CallbacksAlternate ==
  /\ reports.failure - reports.recovery \in {0, 1}
  /\ callback = "none" =>
       (counts.Failing <=> reports.failure = reports.recovery + 1)

(* OnOverflow runs once per run of drops: the calls made and owed are as   *)
(* many as the dropped records that follow one that was not dropped.       *)
DropRuns == Cardinality({r \in Records :
              fate[r] = "dropped" /\ (r = 1 \/ fate[r - 1] # "dropped")})
OverflowOncePerRun == reports.overflow + overflows = DropRuns

(* After Close cancels, the delivery whose check of s.stop came first may  *)
(* still begin, and with a write timeout also the attempt that loop had    *)
(* received before it and not yet begun; every later record is abandoned.  *)
LateStartsBounded == late <= IF bounded THEN 2 ELSE 1

(* Close reads the number it reports before it cancels, and run holds at   *)
(* most one more record: of the Close calls that got to cancel, one        *)
(* reports a number at most one short of the records abandoned.            *)
CloseNumberWithinOne ==
  stop => \E c \in Closers :
            /\ closer[c] \in {"wait", "returned"}
            /\ counts.Abandoned <= remaining[c] + 1

(* Close returns: at its deadline at the latest, whatever the inner sink   *)
(* does, with or without a write timeout.                                  *)
CloseReturns ==
  \A c \in Closers : closer[c] # "idle" ~> closer[c] = "returned"

(* With a write timeout every accepted record ends as Written, Failed or   *)
(* Abandoned even if the inner sink never returns and nobody closes.       *)
AcceptedSettles ==
  \A r \in Records : (bounded /\ fate[r] = "accepted") ~> fate[r] # "accepted"
=============================================================================
