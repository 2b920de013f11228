--------------------------- MODULE WaitersProofs ---------------------------
(***************************************************************************)
(* Proofs about the two components whose calls wait for one another:       *)
(* HistoryObserver, for any finite set of clients, any number of slots and *)
(* of writes, and ResolvedSink, for any set of callers, finite or not, and *)
(* any number of resolutions.                                              *)
(***************************************************************************)
EXTENDS HistoryObserver, ResolvedSink, FiniteSetTheorems, TLAPS

-----------------------------------------------------------------------------
(* HistoryObserver.                                                        *)

Slots == {c \in Clients : pc[c] # "idle"}
SlotsInv == historyWaiters = Cardinality(Slots)

(* Every channel but the current one is closed, and the current one only   *)
(* by Close, after which nothing is written: so none is closed twice.      *)
ChannelInv ==
  /\ ~panicked
  /\ open <=> ~historyClosed
  /\ 1 .. historyChanged - 1 \subseteq closedChans
  /\ historyChanged \in closedChans => historyClosed

(* An observation waits at or before the end of the file, on a channel     *)
(* that exists; while that one is open, it is the current one.             *)
WaitOf(c) ==
  /\ pos[c] <= size
  /\ pc[c] = "waiting" =>
       /\ changed[c] \in 1 .. historyChanged
       /\ changed[c] \in closedChans => pos[c] < size \/ ~open
       /\ changed[c] \notin closedChans => open /\ mark[c] = own

WaitInv == \A c \in Clients : WaitOf(c)

IInv == TypeOK /\ SlotsInv /\ ChannelInv /\ WaitInv

(* The channel an observation makes or finds.                              *)
LEMMA ChannelType == TypeOK => Channel \in Nat /\ Channel >= 1
                                /\ Channel >= historyChanged
BY DEF TypeOK, Channel

(* The channels made so far, with one more or none.                        *)
LEMMA ChannelsGrow ==
  ASSUME NEW n \in Nat, NEW m \in Nat, n <= m, NEW S, S \subseteq 1 .. n
  PROVE  S \subseteq 1 .. m /\ (n >= 1 => S \union {n} \subseteq 1 .. m)
OBVIOUS

(* A sink step moves no slot.                                              *)
LEMMA NextSlots == IInv /\ [Next]_vars => SlotsInv'
<1> SUFFICES ASSUME IInv, [Next]_vars PROVE SlotsInv'
  OBVIOUS
<1> USE DEF IInv, TypeOK, SlotsInv
<1>0. IsFiniteSet(Slots)
  BY ObserverAssumption, FS_Subset DEF Slots
<1>1. ASSUME UNCHANGED <<pc, historyWaiters>> PROVE SlotsInv'
  BY <1>1 DEF Slots
<1>2. ASSUME NEW c \in Clients, ObserveWaits(c) PROVE SlotsInv'
  <2>1. Slots' = Slots \union {c} /\ c \notin Slots
    BY <1>2 DEF ObserveWaits, Slots
  <2> QED BY <1>0, <1>2, <2>1, FS_AddElement DEF ObserveWaits
<1>3. ASSUME NEW c \in Clients, Wait(c) \/ Reread(c) PROVE SlotsInv'
  <2>1. Slots' = Slots
    BY <1>3 DEF Wait, WakeChanged, WakeTimer, Cancel, Reread, Move, Slots
  <2>2. historyWaiters' = historyWaiters
    BY <1>3 DEF Wait, WakeChanged, WakeTimer, Cancel, Reread
  <2> QED BY <2>1, <2>2
<1>4. ASSUME NEW c \in Clients, Release(c) PROVE SlotsInv'
  <2>1. Slots' = Slots \ {c} /\ c \in Slots
    BY <1>4 DEF Release, Move, Slots
  <2> QED BY <1>0, <1>4, <2>1, FS_RemoveElement DEF Release, ReleaseSlot
<1>5. ASSUME NEW n \in Extents, Write(n) PROVE SlotsInv'
  BY <1>1, <1>5 DEF Write
<1>6. CASE ExternalAppend \/ Close
  BY <1>1, <1>6 DEF ExternalAppend, Close
<1>7. ASSUME NEW c \in Clients, ObserveAnswers(c) \/ ObserveRefused(c)
      PROVE  SlotsInv'
  BY <1>1, <1>7 DEF ObserveAnswers, ObserveRefused
<1>8. CASE UNCHANGED vars
  BY <1>1, <1>8 DEF vars
<1> QED BY <1>2, <1>3, <1>4, <1>5, <1>6, <1>7, <1>8 DEF Next, Observe

(* Every step keeps the types.                                             *)
LEMMA NextType == IInv /\ [Next]_vars => TypeOK'
<1> SUFFICES ASSUME IInv, [Next]_vars PROVE TypeOK'
  OBVIOUS
<1> USE ObserverAssumption DEF IInv, TypeOK, sinkVars
<1>1. ASSUME NEW n \in Extents, Write(n) PROVE TypeOK'
  <2>1. CASE Notifies(n)
    <3>1. historyChanged' = historyChanged + 1 /\ historyChanged >= 1
      BY <1>1, <2>1 DEF Write, Notifies
    <3>2. closedChans' \subseteq 1 .. historyChanged'
      <4>1. closedChans' = closedChans \union {historyChanged}
        BY <1>1, <2>1 DEF Write, CloseChannel
      <4> QED BY <3>1, <4>1, ChannelsGrow
    <3>3. panicked' \in BOOLEAN
      BY <1>1, <2>1 DEF Write, CloseChannel
    <3>4. size' \in 0 .. MaxSize /\ own' \in 0 .. size'
      BY <1>1 DEF Write
    <3>5. changed' \in [Clients -> 0 .. historyChanged']
      BY <1>1, <3>1 DEF Write
    <3> QED BY <1>1, <3>1, <3>2, <3>3, <3>4, <3>5 DEF Write
  <2>2. CASE ~Notifies(n)
    <3>1. size' \in 0 .. MaxSize /\ own' \in 0 .. size'
      BY <1>1 DEF Write
    <3> QED BY <1>1, <2>2, <3>1 DEF Write
  <2> QED BY <2>1, <2>2
<1>2. CASE ExternalAppend
  BY <1>2 DEF ExternalAppend
<1>3. CASE Close
  <2>1. closedChans' \subseteq 1 .. historyChanged'
    <3>1. CASE ClosesChannel
      <4>1. closedChans' = closedChans \union {historyChanged}
            /\ historyChanged' = historyChanged /\ historyChanged >= 1
        BY <1>3, <3>1 DEF Close, ClosesChannel, CloseChannel
      <4> QED BY <4>1, ChannelsGrow
    <3>2. CASE ~ClosesChannel
      BY <1>3, <3>2 DEF Close
    <3> QED BY <3>1, <3>2
  <2>2. panicked' \in BOOLEAN
    BY <1>3 DEF Close, CloseChannel
  <2> QED BY <1>3, <2>1, <2>2 DEF Close
<1>4. ASSUME NEW c \in Clients, Observe(c) PROVE TypeOK'
  <2>1. historyChanged' \in Nat /\ historyChanged' >= historyChanged
        /\ historyChanged' = Channel
    BY <1>4, ChannelType DEF Observe, ObserveAnswers, ObserveRefused,
                             ObserveWaits
  <2>2. closedChans' \subseteq 1 .. historyChanged'
    <3>1. closedChans' = closedChans
      BY <1>4 DEF Observe, ObserveAnswers, ObserveRefused, ObserveWaits
    <3> QED BY <2>1, <3>1, ChannelsGrow
  <2>3. changed' \in [Clients -> 0 .. historyChanged']
    <3>1. changed \in [Clients -> 0 .. historyChanged']
      BY <2>1
    <3>2. CASE changed' = changed
      BY <3>1, <3>2
    <3>3. CASE changed' = [changed EXCEPT ![c] = Channel]
      BY <2>1, <3>1, <3>3
    <3> QED BY <1>4, <3>2, <3>3 DEF Observe, ObserveAnswers, ObserveRefused,
                                    ObserveWaits
  <2>4. pos' \in [Clients -> 0 .. MaxSize]
    <3>1. Leads(pos[c]) \union Leads(0) \subseteq 0 .. MaxSize
      BY DEF Leads
    <3> QED BY <1>4, <3>1 DEF Observe, ObserveAnswers, ObserveRefused,
                              ObserveWaits
  <2>5. historyWaiters' \in 0 .. MaxHistoryWaiters
    BY <1>4 DEF Observe, ObserveAnswers, ObserveRefused, ObserveWaits, Full
  <2>6. mark' \in [Clients -> 0 .. MaxSize]
    BY <1>4 DEF Observe, ObserveAnswers, ObserveRefused, ObserveWaits
  <2>7. pc' \in [Clients -> {"idle", "waiting", "reread", "release"}]
    BY <1>4 DEF Observe, ObserveAnswers, ObserveRefused, ObserveWaits
  <2>8. UNCHANGED <<size, open, historyClosed, panicked, own>>
    BY <1>4 DEF Observe, ObserveAnswers, ObserveRefused, ObserveWaits
  <2> QED BY <2>1, <2>2, <2>3, <2>4, <2>5, <2>6, <2>7, <2>8
<1>5. ASSUME NEW c \in Clients, Wait(c) PROVE TypeOK'
  BY <1>5 DEF Wait, WakeChanged, WakeTimer, Cancel, Move
<1>6. ASSUME NEW c \in Clients, Reread(c) PROVE TypeOK'
  <2>1. Leads(pos[c]) \subseteq 0 .. MaxSize
    BY DEF Leads
  <2> QED BY <1>6, <2>1 DEF Reread, Move
<1>7. ASSUME NEW c \in Clients, Release(c) PROVE TypeOK'
  <2>1. historyWaiters > 0
    <3>1. IsFiniteSet(Slots) /\ c \in Slots
      BY <1>7, FS_Subset DEF Release, Move, Slots
    <3>2. Cardinality(Slots) # 0
      BY <3>1, FS_EmptySet
    <3> QED BY <3>2 DEF SlotsInv
  <2> QED BY <1>7, <2>1 DEF Release, ReleaseSlot, Move
<1>8. CASE UNCHANGED vars
  BY <1>8 DEF vars
<1> QED BY <1>1, <1>2, <1>3, <1>4, <1>5, <1>6, <1>7, <1>8 DEF Next

(* A channel is closed by the step that replaces it, or by the first       *)
(* Close.                                                                  *)
LEMMA NextChannel == IInv /\ [Next]_vars => ChannelInv'
<1> SUFFICES ASSUME IInv, [Next]_vars PROVE ChannelInv'
  OBVIOUS
<1> USE DEF IInv, TypeOK, ChannelInv, sinkVars
<1>1. ASSUME NEW n \in Extents, Write(n) PROVE ChannelInv'
  <2>1. CASE Notifies(n)
    <3>1. open /\ ~historyClosed /\ historyChanged \notin closedChans
      BY <1>1, <2>1 DEF Write, Notifies
    <3>2. /\ historyChanged' = historyChanged + 1
          /\ closedChans' = closedChans \union {historyChanged}
          /\ panicked' = FALSE
      BY <1>1, <2>1, <3>1 DEF Write, CloseChannel
    <3>3. 1 .. historyChanged' - 1 \subseteq closedChans'
      BY <3>2
    <3>4. historyChanged' \notin closedChans'
      BY <3>2
    <3> QED BY <1>1, <3>1, <3>2, <3>3, <3>4 DEF Write
  <2>2. CASE ~Notifies(n)
    BY <1>1, <2>2 DEF Write
  <2> QED BY <2>1, <2>2
<1>2. CASE ExternalAppend
  BY <1>2 DEF ExternalAppend
<1>3. CASE Close
  <2>1. panicked' = FALSE
    BY <1>3 DEF Close, ClosesChannel, CloseChannel
  <2>2. 1 .. historyChanged - 1 \subseteq closedChans'
    BY <1>3 DEF Close, CloseChannel
  <2> QED BY <1>3, <2>1, <2>2 DEF Close
<1>4. ASSUME NEW c \in Clients, Observe(c) PROVE ChannelInv'
  <2>1. historyChanged' = Channel /\ UNCHANGED <<closedChans, panicked, open,
                                                 historyClosed>>
    BY <1>4 DEF Observe, ObserveAnswers, ObserveRefused, ObserveWaits
  <2>2. CASE historyChanged = 0
    BY <2>1, <2>2 DEF Channel
  <2>3. CASE historyChanged # 0
    BY <2>1, <2>3 DEF Channel
  <2> QED BY <2>2, <2>3
<1>5. ASSUME NEW c \in Clients, Wait(c) \/ Reread(c) \/ Release(c)
      PROVE  ChannelInv'
  BY <1>5 DEF Wait, WakeChanged, WakeTimer, Cancel, Reread, Release
<1>6. CASE UNCHANGED vars
  BY <1>6 DEF vars
<1> QED BY <1>1, <1>2, <1>3, <1>4, <1>5, <1>6 DEF Next

(* A write, torn or whole, and Close reach whoever waits on the current    *)
(* channel, and nobody waits on another open one.                          *)
LEMMA NextWait == IInv /\ [Next]_vars => WaitInv'
<1> SUFFICES ASSUME IInv, [Next]_vars, NEW d \in Clients PROVE WaitOf(d)'
  BY DEF WaitInv
<1> USE DEF IInv, TypeOK, sinkVars
<1>0. WaitOf(d)
  BY DEF WaitInv
<1>1. pc[d] = "waiting" /\ changed[d] \notin closedChans
        => changed[d] = historyChanged
  BY <1>0 DEF WaitOf, ChannelInv
<1>2. ASSUME NEW n \in Extents, Write(n) PROVE WaitOf(d)'
  <2>1. size' \in Nat /\ size' >= size /\ pos' = pos /\ pc' = pc /\ changed' = changed
        /\ open' = open /\ mark' = mark
    BY <1>2 DEF Write
  <2>2. CASE Notifies(n)
    <3>1. /\ size' = size + 1 /\ historyChanged' = historyChanged + 1
          /\ closedChans' = closedChans \union {historyChanged}
      BY <1>2, <2>2 DEF Write, Notifies, CloseChannel
    <3>2. pc[d] = "waiting" => changed[d] \in closedChans'
      BY <1>1, <3>1
    <3> QED BY <1>0, <2>1, <3>1, <3>2 DEF WaitOf
  <2>3. CASE ~Notifies(n) /\ n # "none"
    <3>1. historyChanged = 0 /\ historyChanged' = 0
      BY <1>2, <2>3 DEF Write, Notifies
    <3>2. pc[d] # "waiting"
      BY <1>0, <3>1 DEF WaitOf
    <3> QED BY <1>0, <2>1, <3>2 DEF WaitOf
  <2>4. CASE n = "none"
    <3>1. UNCHANGED <<own, historyChanged, closedChans, size>>
      BY <1>2, <2>4 DEF Write, Notifies
    <3> QED BY <1>0, <2>1, <3>1 DEF WaitOf
  <2> QED BY <2>2, <2>3, <2>4
<1>3. CASE ExternalAppend
  BY <1>0, <1>3 DEF ExternalAppend, WaitOf
<1>4. CASE Close
  <2>1. /\ UNCHANGED <<size, historyChanged, own, pc, pos, changed, mark>>
        /\ open' = FALSE /\ closedChans \subseteq closedChans'
    BY <1>4 DEF Close, CloseChannel
  <2>2. pc[d] = "waiting" => changed[d] \in closedChans'
    <3>1. CASE changed[d] \in closedChans
      BY <2>1, <3>1
    <3>2. CASE pc[d] = "waiting" /\ changed[d] \notin closedChans
      <4>1. ClosesChannel
        BY <1>0, <1>1, <3>2 DEF WaitOf, ChannelInv, ClosesChannel
      <4> QED BY <1>1, <1>4, <3>2, <4>1 DEF Close, CloseChannel
    <3> QED BY <3>1, <3>2
  <2> QED BY <1>0, <2>1, <2>2 DEF WaitOf
<1>5. ASSUME NEW c \in Clients, Observe(c) PROVE WaitOf(d)'
  <2>1. /\ UNCHANGED <<size, open, closedChans, own>>
        /\ historyChanged' = Channel /\ Channel \in Nat
        /\ Channel >= 1 /\ Channel >= historyChanged
    BY <1>5, ChannelType DEF Observe, ObserveAnswers, ObserveRefused,
                             ObserveWaits
  <2>2. CASE ObserveWaits(c)
    <3>1. CASE c = d
      <4>1. pos'[d] = size /\ open /\ changed'[d] = Channel /\ mark'[d] = own
        BY <2>2, <3>1 DEF ObserveWaits, FindsEnd
      <4>2. Channel \notin closedChans
        BY <4>1 DEF ChannelInv, Channel
      <4> QED BY <2>1, <4>1, <4>2 DEF WaitOf
    <3>2. CASE c # d
      <4>1. pos'[d] = pos[d] /\ pc'[d] = pc[d] /\ changed'[d] = changed[d]
            /\ mark'[d] = mark[d]
        BY <2>2, <3>2 DEF ObserveWaits
      <4> QED BY <1>0, <2>1, <4>1 DEF WaitOf
    <3> QED BY <3>1, <3>2
  <2>3. CASE ObserveAnswers(c) \/ ObserveRefused(c)
    <3>1. pc' = pc /\ changed' = changed /\ mark' = mark
      BY <2>3 DEF ObserveAnswers, ObserveRefused
    <3>2. pos'[d] <= size
      <4>1. \A p \in Leads(pos[c]) \union Leads(0) : p <= size
        BY DEF Leads, WaitInv, WaitOf
      <4> QED BY <1>0, <2>3, <4>1 DEF ObserveAnswers, ObserveRefused, WaitOf
    <3>3. pc[d] = "waiting" => pos'[d] = pos[d]
      BY <2>3 DEF ObserveAnswers, ObserveRefused
    <3> QED BY <1>0, <2>1, <3>1, <3>2, <3>3 DEF WaitOf
  <2> QED BY <1>5, <2>2, <2>3 DEF Observe
<1>6. ASSUME NEW c \in Clients, Wait(c) PROVE WaitOf(d)'
  <2>1. pc'[d] = "waiting" => pc[d] = "waiting"
    BY <1>6 DEF Wait, WakeChanged, WakeTimer, Cancel, Move
  <2>2. UNCHANGED <<size, open, historyChanged, closedChans, own, pos, changed,
                    mark>>
    BY <1>6 DEF Wait, WakeChanged, WakeTimer, Cancel
  <2> QED BY <1>0, <2>1, <2>2 DEF WaitOf
<1>7. ASSUME NEW c \in Clients, Reread(c) PROVE WaitOf(d)'
  <2>1. \A p \in Leads(pos[c]) : p <= size
    BY DEF Leads, WaitInv, WaitOf
  <2>2. pos'[d] <= size
    BY <1>0, <1>7, <2>1 DEF Reread, WaitOf
  <2>3. pc'[d] = "waiting" => pc[d] = "waiting" /\ pos'[d] = pos[d]
    BY <1>7 DEF Reread, Move
  <2> QED BY <1>0, <1>7, <2>2, <2>3 DEF Reread, WaitOf
<1>8. ASSUME NEW c \in Clients, Release(c) PROVE WaitOf(d)'
  <2>1. pc'[d] = "waiting" =>
          pc[d] = "waiting" /\ changed'[d] = changed[d] /\ mark'[d] = mark[d]
    BY <1>8 DEF Release, Move
  <2> QED BY <1>0, <1>8, <2>1 DEF Release, WaitOf
<1>9. CASE UNCHANGED vars
  BY <1>0, <1>9 DEF vars, WaitOf
<1> QED BY <1>2, <1>3, <1>4, <1>5, <1>6, <1>7, <1>8, <1>9 DEF Next

(* The strengthened invariant holds of every reachable state.              *)
LEMMA Inductive == Safety => []IInv
<1>1. Init => IInv
  <2> SUFFICES ASSUME Init PROVE IInv
    OBVIOUS
  <2> USE ObserverAssumption DEF Init
  <2>1. TypeOK
    <3>1. pos \in [Clients -> 0 .. MaxSize] /\ mark \in [Clients -> 0 .. MaxSize]
      OBVIOUS
    <3>2. changed \in [Clients -> 0 .. historyChanged]
      OBVIOUS
    <3>3. pc \in [Clients -> {"idle", "waiting", "reread", "release"}]
      OBVIOUS
    <3>4. /\ size \in 0 .. MaxSize /\ own \in 0 .. size
          /\ historyChanged \in Nat /\ historyWaiters \in 0 .. MaxHistoryWaiters
      OBVIOUS
    <3>5. closedChans \subseteq 1 .. historyChanged
      OBVIOUS
    <3>6. open \in BOOLEAN /\ historyClosed \in BOOLEAN /\ panicked \in BOOLEAN
      OBVIOUS
    <3> QED BY <3>1, <3>2, <3>3, <3>4, <3>5, <3>6, Zenon DEF TypeOK
  <2>2. SlotsInv
    <3>1. Slots = {}
      BY DEF Slots
    <3> QED BY <3>1, FS_EmptySet DEF SlotsInv
  <2>3. ChannelInv
    <3>1. 1 .. historyChanged - 1 \subseteq closedChans
      BY SMT
    <3> QED BY <3>1 DEF ChannelInv
  <2>4. WaitInv
    BY DEF WaitInv, WaitOf
  <2> QED BY <2>1, <2>2, <2>3, <2>4 DEF IInv
<1>2. IInv /\ [Next]_vars => IInv'
  BY NextType, NextSlots, NextChannel, NextWait DEF IInv
<1> QED BY <1>1, <1>2, PTL DEF Safety

(* HistoryObserver!WaitersCounted: the slot counter of ObserveContext is   *)
(* exact on every way out of a wait, within its limit, and no channel is   *)
(* closed twice, for any number of observers and slots.                    *)
THEOREM WaitersCountedInvariant == Safety => []WaitersCounted
<1>1. IInv => WaitersCounted
  BY DEF IInv, SlotsInv, Slots, ChannelInv, WaitersCounted
<1> QED BY <1>1, Inductive, PTL

(* HistoryObserver!WakeupsExact: an observer still waiting on an open      *)
(* channel has missed no write of the sink and no Close; one whose channel *)
(* was closed has something to read or a closed sink.                      *)
THEOREM WakeupsExactInvariant == Safety => []WakeupsExact
<1>1. IInv => WakeupsExact
  BY DEF IInv, WaitInv, WaitOf, WakeupsExact
<1> QED BY <1>1, Inductive, PTL

-----------------------------------------------------------------------------
(* ResolvedSink.                                                           *)

(* The gate is mutual exclusion: no token and nobody inside, or one token  *)
(* and the one call that put it there.                                     *)
GateInv ==
  \/ gate = 0 /\ Inside = {}
  \/ gate = 1 /\ \E c \in Callers : Inside = {c}

(* A call resolves only while there is no binding, and it is inside, so    *)
(* the first binding is the last one.                                      *)
BindingInv ==
  /\ bound = binds /\ binds <= 1
  /\ \A c \in Callers : callPC[c] = "resolving" => bound = 0
  /\ \A c \in Callers : client[c] \in {0, bound}

ResolvedInv == ResolvedTypeOK /\ GateInv /\ BindingInv

(* Every step keeps the types: the gate is never read when it is empty.    *)
LEMMA ResolvedNextType ==
  ASSUME ResolvedInv, [ResolvedNext]_resolvedVars
  PROVE  ResolvedTypeOK'
<1> USE DEF ResolvedInv, ResolvedTypeOK, Moves, Answers
<1>1. ASSUME NEW c \in Callers, Call(c) \/ Expire(c) PROVE ResolvedTypeOK'
  <2>1. expired' \in [Callers -> BOOLEAN]
    BY <1>1 DEF Call, Expire
  <2>2. callPC' \in [Callers -> {"idle", "gate", "inside", "resolving", "bound"}]
    BY <1>1 DEF Call, Expire
  <2> QED BY ResolvedAssumption, <1>1, <2>1, <2>2 DEF Call, Expire
<1>2. ASSUME NEW c \in Callers, Enter(c) \/ GiveUp(c) PROVE ResolvedTypeOK'
  BY <1>2 DEF Enter, GateOpen, GiveUp
<1>3. ASSUME NEW c \in Callers, callPC[c] \in {"inside", "resolving"}
      PROVE  LeaveGate \in 0 .. 1
  <2>1. c \in Inside
    BY <1>3 DEF Inside
  <2> QED BY <2>1 DEF GateInv, LeaveGate
<1>4. ASSUME NEW c \in Callers, InsideExpired(c) \/ UseBound(c) \/ Resolve(c)
      PROVE  ResolvedTypeOK'
  BY <1>3, <1>4 DEF InsideExpired, UseBound, Resolve
<1>5. ASSUME NEW c \in Callers, ResolveFails(c) \/ ResolveSucceeds(c)
      PROVE  ResolvedTypeOK'
  BY ResolvedAssumption, <1>3, <1>5 DEF ResolveFails, ResolveSucceeds
<1>6. ASSUME NEW c \in Callers, Return(c) PROVE ResolvedTypeOK'
  BY <1>6 DEF Return
<1>7. CASE UNCHANGED resolvedVars
  BY <1>7 DEF resolvedVars
<1> QED BY <1>1, <1>2, <1>4, <1>5, <1>6, <1>7 DEF ResolvedNext, Binding, Resolution

(* A call that enters finds nobody inside, and the one that leaves was the *)
(* only one.                                                               *)
LEMMA ResolvedNextGate ==
  ASSUME ResolvedInv, [ResolvedNext]_resolvedVars
  PROVE  GateInv'
<1> USE DEF ResolvedInv, ResolvedTypeOK, Moves, GateInv, Inside
<1>1. ASSUME NEW c \in Callers, Call(c) \/ Expire(c) \/ GiveUp(c) \/ Return(c)
      PROVE  GateInv'
  <2>1. Inside' = Inside /\ gate' = gate
    BY <1>1 DEF Call, Expire, GiveUp, Return
  <2> QED BY <2>1
<1>2. ASSUME NEW c \in Callers, Enter(c) PROVE GateInv'
  <2>1. gate = 0 /\ Inside = {}
    BY <1>2 DEF Enter, GateOpen
  <2>2. Inside' = {c}
    BY <1>2, <2>1 DEF Enter
  <2> QED BY <1>2, <2>1, <2>2 DEF Enter
<1>3. ASSUME NEW c \in Callers, Resolve(c) PROVE GateInv'
  <2>1. Inside' = Inside /\ gate' = gate
    BY <1>3 DEF Resolve
  <2> QED BY <2>1
<1>4. ASSUME NEW c \in Callers,
             InsideExpired(c) \/ UseBound(c) \/ ResolveFails(c) \/ ResolveSucceeds(c)
      PROVE  GateInv'
  <2>1. c \in Inside
    BY <1>4 DEF InsideExpired, UseBound, ResolveFails, ResolveSucceeds
  <2>2. gate = 1 /\ Inside = {c}
    BY <2>1
  <2>3. gate' = 0
    BY <1>4, <2>2 DEF InsideExpired, UseBound, ResolveFails, ResolveSucceeds,
                      LeaveGate
  <2>4. Inside' = {}
    BY <1>4, <2>2 DEF InsideExpired, UseBound, ResolveFails, ResolveSucceeds
  <2> QED BY <2>3, <2>4
<1>5. CASE UNCHANGED resolvedVars
  BY <1>5 DEF resolvedVars
<1> QED BY <1>1, <1>2, <1>3, <1>4, <1>5 DEF ResolvedNext, Binding, Resolution

(* Only a call that saw no binding makes one, and nobody else made one     *)
(* while it was inside.                                                    *)
LEMMA ResolvedNextBinding ==
  ASSUME ResolvedInv, [ResolvedNext]_resolvedVars
  PROVE  BindingInv'
<1> USE DEF ResolvedInv, ResolvedTypeOK, Moves, BindingInv
<1>1. ASSUME NEW c \in Callers,
             Call(c) \/ Expire(c) \/ GiveUp(c) \/ Return(c) \/ Enter(c)
      PROVE  BindingInv'
  BY <1>1 DEF Call, Expire, GiveUp, Return, Enter
<1>2. ASSUME NEW c \in Callers,
             InsideExpired(c) \/ UseBound(c) \/ Resolve(c) \/ ResolveFails(c)
      PROVE  BindingInv'
  BY <1>2 DEF InsideExpired, UseBound, Resolve, ResolveFails, IsBound
<1>3. ASSUME NEW c \in Callers, ResolveSucceeds(c) PROVE BindingInv'
  <2>1. bound = 0 /\ binds = 0
    BY <1>3 DEF ResolveSucceeds
  <2>2. bound' = 1 /\ binds' = 1
    BY <1>3, <2>1 DEF ResolveSucceeds
  <2>3. \A d \in Callers : callPC'[d] # "resolving"
    <3>1. c \in Inside
      BY <1>3 DEF ResolveSucceeds, Inside
    <3>2. \A d \in Callers : d # c => callPC[d] # "resolving"
      BY <3>1 DEF GateInv, Inside
    <3> QED BY <1>3, <3>2 DEF ResolveSucceeds
  <2>4. \A d \in Callers : client'[d] \in {0, 1}
    BY <1>3, <2>1 DEF ResolveSucceeds
  <2> QED BY <2>2, <2>3, <2>4
<1>4. CASE UNCHANGED resolvedVars
  BY <1>4 DEF resolvedVars
<1> QED BY <1>1, <1>2, <1>3, <1>4 DEF ResolvedNext, Binding, Resolution

(* However many goroutines call at once, and whichever of them expire or   *)
(* fail: one call at a time is inside, every return takes its token out,   *)
(* and the service is bound once, for everybody.                           *)
THEOREM OneBindingInvariant == ResolvedSafety => []OneBinding
<1>1. ResolvedInit => ResolvedInv
  BY ResolvedAssumption DEF ResolvedInit, ResolvedInv, ResolvedTypeOK, GateInv, Inside, BindingInv
<1>2. ResolvedInv /\ [ResolvedNext]_resolvedVars => ResolvedInv'
  BY ResolvedNextType, ResolvedNextGate, ResolvedNextBinding DEF ResolvedInv
<1>3. ResolvedInv => OneBinding
  <2> SUFFICES ASSUME ResolvedInv PROVE OneBinding
    OBVIOUS
  <2>1. gate = Cardinality(Inside)
    BY FS_EmptySet, FS_Singleton DEF ResolvedInv, GateInv
  <2> QED BY <2>1 DEF ResolvedInv, BindingInv, OneBinding
<1> QED BY <1>1, <1>2, <1>3, PTL DEF ResolvedSafety
=============================================================================
