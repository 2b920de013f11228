-------------------------- MODULE HistoryObserver --------------------------
(***************************************************************************)
(* Long-polling in go/history.go: observers that find no record past their *)
(* cursor wait for a channel that every write of the sink (go/sink.go)     *)
(* closes and replaces, for a timer, or for their context, in a bounded    *)
(* number of slots, and then read once more.                               *)
(*                                                                         *)
(* Of the file only its size is kept, in writes, and of a cursor its       *)
(* position: a page is empty and at the end exactly when the two agree.    *)
(* What a page holds is HistoryReader's subject.  Every critical section   *)
(* under FileSink.mu is one step.                                          *)
(***************************************************************************)
EXTENDS Integers, FiniteSets

CONSTANTS
  Clients,            \* the callers of ObserveContext
  MaxHistoryWaiters,  \* 32 in the code
  MaxSize             \* bound: the writes to the file

ASSUME ObserverAssumption ==
  /\ IsFiniteSet(Clients)
  /\ MaxHistoryWaiters \in Nat
  /\ MaxSize \in Nat

VARIABLES
  size,           \* the writes, whole or torn, that reached the file
  open,           \* s.f is open
  historyChanged, \* the channel the next write closes, 0 for nil
  closedChans,    \* the channels that were closed
  historyWaiters,
  historyClosed,
  panicked,       \* history: a channel was closed twice
  own,            \* history: the writes of this sink among size
  pc,             \* where each observation is
  pos,            \* its cursor
  changed,        \* the channel it captured
  mark            \* history: own when it captured the channel

sinkVars == <<size, open, historyChanged, closedChans, historyClosed,
              panicked, own>>
vars == <<sinkVars, historyWaiters, pc, pos, changed, mark>>

Init ==
  /\ size = 0 /\ open = TRUE
  /\ historyChanged = 0 /\ closedChans = {} /\ historyClosed = FALSE
  /\ panicked = FALSE /\ own = 0
  /\ historyWaiters = 0
  /\ pc = [c \in Clients |-> "idle"]
  /\ pos = [c \in Clients |-> 0]
  /\ changed = [c \in Clients |-> 0]
  /\ mark = [c \in Clients |-> 0]

-----------------------------------------------------------------------------
(* The sink.                                                               *)

(* close(s.historyChanged), which panics if it is closed already.          *)
CloseChannel ==
  /\ closedChans' = closedChans \union {historyChanged}
  /\ panicked' = (panicked \/ historyChanged \in closedChans)

(* What f.Write put into the file: nothing, a part of the line with an     *)
(* error, or the line.                                                     *)
Extents == {"none", "part", "line"}

(* n > 0 && s.historyChanged != nil.                                       *)
NotifiesWholeLines(n) == n = "line" /\ historyChanged # 0
Notifies(n) == n # "none" /\ historyChanged # 0

(* The tail of FileSink.Write under the lock.  A closed file takes none.   *)
Write(n) ==
  /\ open \/ n = "none"
  /\ n # "none" => size < MaxSize
  /\ size' = IF n = "none" THEN size ELSE size + 1
  /\ own' = IF n = "none" THEN own ELSE own + 1
  /\ IF Notifies(n)
     THEN CloseChannel /\ historyChanged' = historyChanged + 1
     ELSE UNCHANGED <<historyChanged, closedChans, panicked>>
  /\ UNCHANGED <<open, historyWaiters, historyClosed, pc, pos, changed, mark>>

(* Another process appends; nobody is notified.                            *)
ExternalAppend ==
  /\ size < MaxSize
  /\ size' = size + 1
  /\ UNCHANGED <<open, historyChanged, closedChans, historyClosed, panicked,
                 own, historyWaiters, pc, pos, changed, mark>>

(* FileSink.Close, any number of times.  It does not replace the channel.  *)
ClosesQuietly == FALSE
ClosesChannel == ~historyClosed /\ historyChanged # 0

Close ==
  /\ historyClosed' = TRUE
  /\ open' = FALSE
  /\ IF ClosesChannel THEN CloseChannel
                      ELSE UNCHANGED <<closedChans, panicked>>
  /\ UNCHANGED <<size, historyChanged, own, historyWaiters, pc, pos, changed,
                 mark>>

-----------------------------------------------------------------------------
(* ObserveContext.                                                         *)

(* The channel, made if there is none, and the one this call captures.     *)
Channel == IF historyChanged = 0 THEN 1 ELSE historyChanged

(* The cursors a read at p can lead to: a page moves towards the end of    *)
(* an open file, a refusal leaves the cursor alone.                        *)
Leads(p) == {p} \union (IF open THEN p .. size ELSE {})

(* The read finds the end of the file at the cursor.                       *)
FindsEnd(c) == open /\ pos[c] = size

(* The critical section that captures the channel and reads, and ends in   *)
(* an answer: a page with records, a refusal, or waitMS = 0.  The client   *)
(* reads from its cursor or starts again.                                  *)
ObserveAnswers(c) ==
  /\ pc[c] = "idle"
  /\ historyChanged' = Channel
  /\ \E p \in Leads(pos[c]) \union Leads(0) : pos' = [pos EXCEPT ![c] = p]
  /\ UNCHANGED <<size, open, closedChans, historyClosed, panicked, own,
                 historyWaiters, pc, changed, mark>>

Full == historyWaiters >= MaxHistoryWaiters

(* Nothing to read and no slot: unavailable.                               *)
ObserveRefused(c) ==
  /\ pc[c] = "idle"
  /\ FindsEnd(c) /\ Full
  /\ historyChanged' = Channel
  /\ UNCHANGED <<size, open, closedChans, historyClosed, panicked, own,
                 historyWaiters, pc, pos, changed, mark>>

(* Nothing to read and a free slot.                                        *)
ObserveWaits(c) ==
  /\ pc[c] = "idle"
  /\ FindsEnd(c) /\ ~Full
  /\ historyChanged' = Channel
  /\ historyWaiters' = historyWaiters + 1
  /\ pc' = [pc EXCEPT ![c] = "waiting"]
  /\ changed' = [changed EXCEPT ![c] = Channel]
  /\ mark' = [mark EXCEPT ![c] = own]
  /\ UNCHANGED <<size, open, closedChans, historyClosed, panicked, own, pos>>

Move(c, source, target) ==
  /\ pc[c] = source
  /\ pc' = [pc EXCEPT ![c] = target]

(* The select: the channel, the timer or the context.                      *)
WakeChanged(c) ==
  /\ changed[c] \in closedChans
  /\ Move(c, "waiting", "reread")
  /\ UNCHANGED <<sinkVars, historyWaiters, pos, changed, mark>>

WakeTimerOnNews(c) ==
  /\ pos[c] < size
  /\ Move(c, "waiting", "reread")
  /\ UNCHANGED <<sinkVars, historyWaiters, pos, changed, mark>>
WakeTimer(c) ==
  /\ Move(c, "waiting", "reread")
  /\ UNCHANGED <<sinkVars, historyWaiters, pos, changed, mark>>

(* ctx.Done in the select, or ctx.Err after it: no page.                   *)
Cancel(c) ==
  /\ Move(c, "waiting", "release") \/ Move(c, "reread", "release")
  /\ UNCHANGED <<sinkVars, historyWaiters, pos, changed, mark>>

(* The second read.                                                        *)
Reread(c) ==
  /\ Move(c, "reread", "release")
  /\ \E p \in Leads(pos[c]) : pos' = [pos EXCEPT ![c] = p]
  /\ UNCHANGED <<sinkVars, historyWaiters, changed, mark>>

(* The deferred release of the slot.                                       *)
ReleaseKeepsSlot(c) == historyWaiters
ReleaseSlot(c) == historyWaiters - 1
Release(c) ==
  /\ Move(c, "release", "idle")
  /\ historyWaiters' = ReleaseSlot(c)
  /\ changed' = [changed EXCEPT ![c] = 0]
  /\ mark' = [mark EXCEPT ![c] = 0]
  /\ UNCHANGED <<sinkVars, pos>>

-----------------------------------------------------------------------------
Observe(c) == ObserveAnswers(c) \/ ObserveRefused(c) \/ ObserveWaits(c)
Wait(c) == WakeChanged(c) \/ WakeTimer(c) \/ Cancel(c)

Next ==
  \/ \E n \in Extents : Write(n)
  \/ ExternalAppend \/ Close
  \/ \E c \in Clients : Observe(c) \/ Wait(c) \/ Reread(c) \/ Release(c)

Safety == Init /\ [][Next]_vars

(* Every goroutine that can run does; nobody has to write, close or        *)
(* cancel.  Prompt leaves out the timer.                                   *)
Prompt == \A c \in Clients : /\ WF_vars(WakeChanged(c)) /\ WF_vars(Reread(c))
                             /\ WF_vars(Release(c))
Timers == \A c \in Clients : WF_vars(WakeTimer(c))
Spec == Safety /\ Prompt

-----------------------------------------------------------------------------
(* Properties.                                                             *)

(* Every variable has its type.                                            *)
TypeOK ==
  /\ size \in 0 .. MaxSize /\ own \in 0 .. size
  /\ open \in BOOLEAN /\ historyClosed \in BOOLEAN /\ panicked \in BOOLEAN
  /\ historyChanged \in Nat /\ closedChans \subseteq 1 .. historyChanged
  /\ historyWaiters \in 0 .. MaxHistoryWaiters
  /\ pc \in [Clients -> {"idle", "waiting", "reread", "release"}]
  /\ pos \in [Clients -> 0 .. MaxSize]
  /\ changed \in [Clients -> 0 .. historyChanged]
  /\ mark \in [Clients -> 0 .. MaxSize]

(* historyWaiters counts exactly the observations that hold a slot, on     *)
(* every way out of the wait: notification, timer and cancellation; it     *)
(* stays within its limit, and every variable has its type.  And the       *)
(* channel is never closed twice, whatever the order of failed writes,     *)
(* writes after Close and repeated Close: no panic.                        *)
WaitersCounted ==
  /\ TypeOK /\ ~panicked
  /\ historyWaiters = Cardinality({c \in Clients : pc[c] # "idle"})

(* Channel capture and read share the writer's mutex.  An observation      *)
(* still waiting on an open channel has missed no write of the sink, torn  *)
(* ones included, and the sink was not closed under it; one whose channel  *)
(* was closed has something to read, or the sink was closed.               *)
WakeupsExact ==
  \A c \in Clients : pc[c] = "waiting" =>
    IF changed[c] \in closedChans
    THEN pos[c] < size \/ ~open
    ELSE open /\ mark[c] = own

(* A write or Close wakes every observation waiting before it, without     *)
(* the help of its timer.                                                  *)
NotifiedEnds ==
  \A c \in Clients :
    (pc[c] = "waiting" /\ (mark[c] # own \/ ~open)) ~> pc[c] = "idle"

(* With its timer every observation ends, without any write, close or      *)
(* cancellation.                                                           *)
ObservationEnds ==
  Timers => \A c \in Clients : pc[c] # "idle" ~> pc[c] = "idle"
=============================================================================
