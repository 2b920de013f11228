------------------------- MODULE ServiceHostProofs -------------------------
(***************************************************************************)
(* Proofs about ServiceHost for any finite set of connections, whatever    *)
(* they ask for, and any limits.                                           *)
(***************************************************************************)
EXTENDS ServiceHost, FiniteSetTheorems, TLAPS

(* The types by the part of the host they belong to.                       *)
HostType ==
  /\ serve \in ServePCs /\ held \subseteq Conns
  /\ result \in {"none", "nil", "error"} /\ stopped \in 0 .. 1
  /\ ctx \in BOOLEAN /\ hostCtx \in BOOLEAN /\ listener \in BOOLEAN
  /\ broke \in BOOLEAN /\ once \in {"new", "cancelled", "closed"}
  /\ history \in BOOLEAN /\ permitted \in BOOLEAN
  /\ sink \in BOOLEAN /\ misuse \in BOOLEAN
CountType ==
  /\ calls \in 0 .. MaxCalls /\ observers \in 0 .. MaxObservers
  /\ workers \in Nat
ConnType ==
  /\ pc \in [Conns -> ConnPCs]
  /\ kind \in [Conns -> {"none", "sink", "reader", "observer"}]
  /\ policy \in [Conns -> BOOLEAN] /\ slot \in [Conns -> BOOLEAN]
  /\ unread \in [Conns -> BOOLEAN]
  /\ answer \in [Conns -> {"none", "page", "refusal"}]

(* Who holds which token.                                                  *)
Calling == {c \in Active : pc[c] # "released"}
Watching == {c \in Conns : slot[c]}
CountInv ==
  /\ workers = Cardinality(Active)
  /\ calls = Cardinality(Calling)
  /\ observers = Cardinality(Watching)
  /\ \A c \in Conns : slot[c] => pc[c] \in {"observing", "recheck"}

(* The accept loop holds one connection between Accept and the select.     *)
HeldInv ==
  /\ \A c \in Conns : c \in held <=> pc[c] = "held"
  /\ serve = "admit" => \E c \in Conns : held = {c}
  /\ serve # "admit" => held = {}

(* How far the shutdown got, and what is over by then.                     *)
StopInv ==
  /\ stopped = IF serve \in {"drain", "returned"} THEN 1 ELSE 0
  /\ stopped = 1 => once = "closed"
  /\ once = "closed" <=> ~listener
  /\ once # "new" <=> hostCtx
  /\ serve = "returned" => workers = 0
  /\ ~sink => serve = "returned"
  /\ ~misuse
  /\ serve = "failed" => hostCtx \/ broke
  /\ result = "error" => broke

(* A page read against the policy belongs to a worker whose policy refuses *)
(* and goes on refusing.                                                   *)
PageOf(c) ==
  /\ unread[c] => /\ pc[c] \in {"recheck", "reply", "finish"}
                  /\ policy[c] /\ ~permitted
  /\ answer[c] # "none" => pc[c] \in {"reply", "finish"}
  /\ answer[c] = "page" => ~unread[c]
PageInv == \A c \in Conns : PageOf(c)

IInv == /\ HostType /\ CountType /\ ConnType
        /\ CountInv /\ HeldInv /\ StopInv /\ PageInv

(* The program points at which a worker holds a call's token.              *)
Working == {"receive", "write", "authorize", "read", "enter", "observing",
            "recheck", "reply", "finish"}

-----------------------------------------------------------------------------
(* What a worker's step is.                                                *)

(* The steps of a worker between its admission and its release.            *)
Busy(c) == Answers(c) \/ \E k \in Asks[c] : Receive(c, k)

(* A busy worker moves itself and leaves the host alone.                   *)
LEMMA BusyMoves ==
  ASSUME IInv, NEW c \in Conns, Busy(c)
  PROVE  /\ pc[c] \in Working
         /\ \E t \in Working : pc' = [pc EXCEPT ![c] = t]
         /\ UNCHANGED <<workerVars, calls, workers, sink>>
<1> USE DEF Working, Move
<1>1. CASE \E k \in Asks[c] : Receive(c, k)
  BY <1>1 DEF Receive, sinkVars
<1>2. CASE Fail(c)
  BY <1>2 DEF Fail, sinkVars
<1>3. CASE Unauthorized(c) \/ BadRequest(c)
  BY <1>3 DEF Unauthorized, BadRequest, Refuses, sinkVars
<1>4. CASE Write(c) \/ Read(c) \/ Observe(c)
  BY <1>4 DEF Write, Read, Observe
<1>5. CASE Authorize(c) \/ Enter(c) \/ EnterUnwaiting(c) \/ Recheck(c) \/ Reply(c)
  BY <1>5 DEF Authorize, Enter, EnterUnwaiting, Recheck, Reply, sinkVars
<1> QED BY <1>1, <1>2, <1>3, <1>4, <1>5 DEF Busy, Answers

(* What a busy worker does with the observer tokens.                       *)
LEMMA BusyTokens ==
  ASSUME IInv, NEW c \in Conns, Busy(c)
  PROVE  \/ /\ UNCHANGED <<observers, slot>>
            /\ ~slot[c] \/ pc'[c] = "recheck"
         \/ ReturnsToken(c)
         \/ Enter(c)
<1> USE DEF IInv, ConnType, CountInv, Move, connVars
<1>1. CASE \E k \in Asks[c] : Receive(c, k)
  BY <1>1 DEF Receive
<1>2. CASE Fail(c)
  BY <1>2 DEF Fail
<1>3. CASE Unauthorized(c) \/ BadRequest(c)
  BY <1>3 DEF Unauthorized, BadRequest, Refuses
<1>4. CASE Write(c) \/ Read(c) \/ Observe(c)
  BY <1>4 DEF Write, Read, Observe
<1>5. CASE Authorize(c) \/ EnterUnwaiting(c) \/ Recheck(c) \/ Reply(c)
  BY <1>5 DEF Authorize, EnterUnwaiting, Recheck, Reply
<1> QED BY <1>1, <1>2, <1>3, <1>4, <1>5 DEF Busy, Answers

(* Every step is one of the host, the accept loop's two moves of a         *)
(* connection among them, or one of a worker.                              *)
HostStep == UNCHANGED <<calls, observers, workers, pc, connVars>>

LEMMA Steps ==
  [Next]_vars => \/ HostStep
                 \/ \E c \in Conns : Accept(c)
                 \/ Admit \/ TurnAway
                 \/ \E c \in Conns : Busy(c) \/ Finish(c) \/ Done(c)
<1> SUFFICES ASSUME [Next]_vars,
                    ~(\E c \in Conns : Accept(c)), ~Admit, ~TurnAway,
                    ~(\E c \in Conns : Worker(c))
             PROVE  HostStep
  BY DEF Worker, Busy
<1> USE DEF HostStep
<1>1. CASE CloseListener \/ UserClose \/ CancelContext \/ AfterFunc
  BY <1>1 DEF CloseListener, UserClose, CancelContext, AfterFunc
<1>2. CASE ServeBegins \/ AcceptBreaks \/ SinkClose \/ EnableHistoryPolicy \/ Revoke
  BY <1>2 DEF ServeBegins, AcceptBreaks, SinkClose, EnableHistoryPolicy, Revoke
<1>3. CASE AcceptClosed \/ ServeFails \/ DeferredClose \/ OnStopped \/ ServeReturns
  BY <1>3 DEF AcceptClosed, ServeFails, DeferredClose, OnStopped, ServeReturns
<1>4. CASE UNCHANGED vars
  BY <1>4 DEF vars
<1> QED BY <1>1, <1>2, <1>3, <1>4 DEF Next, Loop

-----------------------------------------------------------------------------
(* The tokens.                                                             *)

(* Every set of token holders is finite.                                   *)
LEMMA Finite == IsFiniteSet(Active) /\ IsFiniteSet(Calling) /\ IsFiniteSet(Watching)
<1>1. Active \subseteq Conns /\ Calling \subseteq Conns /\ Watching \subseteq Conns
  BY DEF Active, Calling, Watching
<1> QED BY <1>1, HostAssumption, FS_Subset

(* A worker that moves between two points of its work holds what it held.  *)
LEMMA SameHolders ==
  ASSUME ConnType, NEW c \in Conns, NEW t \in Working, pc[c] \in Working,
         pc' = [pc EXCEPT ![c] = t]
  PROVE  Active' = Active /\ Calling' = Calling
BY DEF ConnType, Working, Active, Calling

(* No step leaks a token or returns one twice.                             *)
LEMMA NextCount == IInv /\ [Next]_vars => CountInv'
<1> SUFFICES ASSUME IInv, [Next]_vars PROVE CountInv'
  OBVIOUS
<1> USE DEF IInv
<1>1. CASE HostStep
  BY <1>1 DEF HostStep, connVars, CountInv, Active, Calling, Watching
<1>2. ASSUME NEW c \in Conns, Accept(c) PROVE CountInv'
  <2>1. /\ pc[c] = "backlog" /\ pc' = [pc EXCEPT ![c] = "held"]
        /\ UNCHANGED <<calls, observers, workers, slot>>
    BY <1>2 DEF Accept, connVars
  <2>2. Active' = Active /\ Calling' = Calling /\ Watching' = Watching
    BY <2>1 DEF ConnType, Active, Calling, Watching
  <2>3. \A d \in Conns : slot'[d] => pc'[d] \in {"observing", "recheck"}
    BY <2>1 DEF ConnType, CountInv
  <2> QED BY <2>1, <2>2, <2>3 DEF CountInv
<1>3. CASE TurnAway
  <2>1. /\ pc' = [c \in Conns |-> IF c \in held THEN "refused" ELSE pc[c]]
        /\ UNCHANGED <<calls, observers, workers, slot>>
    BY <1>3 DEF TurnAway, connVars
  <2>2. Active' = Active /\ Calling' = Calling /\ Watching' = Watching
    BY <2>1 DEF ConnType, HeldInv, Active, Calling, Watching
  <2>3. \A d \in Conns : slot'[d] => pc'[d] \in {"observing", "recheck"}
    BY <2>1 DEF ConnType, CountInv, HeldInv
  <2> QED BY <2>1, <2>2, <2>3 DEF CountInv
<1>4. CASE Admit
  <2>1. /\ pc' = [c \in Conns |-> IF c \in held THEN "receive" ELSE pc[c]]
        /\ workers' = workers + 1 /\ calls' = calls + 1 /\ serve = "admit"
        /\ UNCHANGED <<observers, slot>>
    BY <1>4 DEF Admit, StartWorker, TakesToken, ServeMove, connVars
  <2>2. PICK h \in Conns : held = {h}
    BY <2>1 DEF HeldInv
  <2>3. /\ Active' = Active \union {h} /\ h \notin Active
        /\ Calling' = Calling \union {h} /\ h \notin Calling
        /\ Watching' = Watching
    BY <2>1, <2>2 DEF ConnType, HeldInv, Active, Calling, Watching
  <2>4. \A d \in Conns : slot'[d] => pc'[d] \in {"observing", "recheck"}
    BY <2>1 DEF ConnType, CountInv, HeldInv
  <2>5. /\ Cardinality(Active') = Cardinality(Active) + 1
        /\ Cardinality(Calling') = Cardinality(Calling) + 1
    BY <2>3, Finite, FS_AddElement
  <2> QED BY <2>1, <2>3, <2>4, <2>5 DEF CountInv
<1>5. ASSUME NEW c \in Conns, Busy(c) PROVE CountInv'
  <2>1. PICK t \in Working : pc' = [pc EXCEPT ![c] = t]
    BY <1>5, BusyMoves
  <2>2. pc[c] \in Working /\ UNCHANGED <<calls, workers>>
    BY <1>5, BusyMoves
  <2>3. Active' = Active /\ Calling' = Calling
    BY <2>1, <2>2, SameHolders
  <2>4. /\ observers' = Cardinality(Watching')
        /\ \A d \in Conns : slot'[d] => pc'[d] \in {"observing", "recheck"}
    <3>1. CASE /\ UNCHANGED <<observers, slot>>
               /\ ~slot[c] \/ pc'[c] = "recheck"
      <4>1. Watching' = Watching
        BY <3>1 DEF Watching
      <4>2. \A d \in Conns : slot'[d] => pc'[d] \in {"observing", "recheck"}
        BY <2>1, <3>1 DEF ConnType, CountInv
      <4> QED BY <3>1, <4>1, <4>2 DEF CountInv
    <3>2. CASE ReturnsToken(c)
      <4>0. \A d \in Conns : slot'[d] => pc'[d] \in {"observing", "recheck"}
        BY <2>1, <3>2 DEF ReturnsToken, ConnType, CountInv
      <4>1. CASE slot[c]
        <5>1. Watching' = Watching \ {c} /\ c \in Watching
          BY <3>2, <4>1 DEF ReturnsToken, ConnType, Watching
        <5>2. Cardinality(Watching') = Cardinality(Watching) - 1
          BY <5>1, Finite, FS_RemoveElement
        <5> QED BY <3>2, <4>0, <4>1, <5>2 DEF ReturnsToken, CountInv
      <4>2. CASE ~slot[c]
        <5>1. Watching' = Watching
          BY <3>2, <4>2 DEF ReturnsToken, ConnType, Watching
        <5> QED BY <3>2, <4>0, <4>2, <5>1 DEF ReturnsToken, CountInv
      <4> QED BY <4>1, <4>2
    <3>3. CASE Enter(c)
      <4>1. /\ pc[c] = "enter" /\ pc' = [pc EXCEPT ![c] = "observing"]
            /\ observers' = observers + 1 /\ slot' = [slot EXCEPT ![c] = TRUE]
        BY <3>3 DEF Enter, Move
      <4>2. Watching' = Watching \union {c} /\ c \notin Watching
        BY <4>1 DEF ConnType, CountInv, Watching
      <4>3. Cardinality(Watching') = Cardinality(Watching) + 1
        BY <4>2, Finite, FS_AddElement
      <4>4. \A d \in Conns : slot'[d] => pc'[d] \in {"observing", "recheck"}
        BY <4>1 DEF ConnType, CountInv
      <4> QED BY <4>1, <4>3, <4>4 DEF CountInv
    <3> QED BY <1>5, <3>1, <3>2, <3>3, BusyTokens
  <2> QED BY <2>2, <2>3, <2>4 DEF CountInv
<1>6. ASSUME NEW c \in Conns, Finish(c) PROVE CountInv'
  <2>1. /\ pc[c] = "finish" /\ pc' = [pc EXCEPT ![c] = "released"]
        /\ calls' = calls - 1 /\ UNCHANGED <<workers, observers, slot>>
    BY <1>6 DEF Finish, Move
  <2>2. /\ Active' = Active /\ Calling' = Calling \ {c} /\ c \in Calling
        /\ Watching' = Watching
    BY <2>1 DEF ConnType, Active, Calling, Watching
  <2>3. Cardinality(Calling') = Cardinality(Calling) - 1
    BY <2>2, Finite, FS_RemoveElement
  <2>4. \A d \in Conns : slot'[d] => pc'[d] \in {"observing", "recheck"}
    BY <2>1 DEF ConnType, CountInv
  <2> QED BY <2>1, <2>2, <2>3, <2>4 DEF CountInv
<1>7. ASSUME NEW c \in Conns, Done(c) PROVE CountInv'
  <2>1. /\ pc[c] = "released" /\ pc' = [pc EXCEPT ![c] = "done"]
        /\ workers' = workers - 1 /\ UNCHANGED <<calls, observers, slot>>
    BY <1>7 DEF Done, Move, connVars
  <2>2. /\ Active' = Active \ {c} /\ c \in Active /\ Calling' = Calling
        /\ Watching' = Watching
    BY <2>1 DEF ConnType, Active, Calling, Watching
  <2>3. Cardinality(Active') = Cardinality(Active) - 1
    BY <2>2, Finite, FS_RemoveElement
  <2>4. \A d \in Conns : slot'[d] => pc'[d] \in {"observing", "recheck"}
    BY <2>1 DEF ConnType, CountInv
  <2> QED BY <2>1, <2>2, <2>3, <2>4 DEF CountInv
<1> QED BY <1>1, <1>2, <1>3, <1>4, <1>5, <1>6, <1>7, Steps

-----------------------------------------------------------------------------
(* Types.                                                                  *)

(* A connection's step keeps the types of what it changes.                 *)
LEMMA NextConnType == IInv /\ [Next]_vars => ConnType'
<1> SUFFICES ASSUME IInv, [Next]_vars PROVE ConnType'
  OBVIOUS
<1> USE DEF IInv
<1>1. CASE HostStep
  BY <1>1 DEF HostStep, connVars, ConnType
<1>2. ASSUME NEW c \in Conns, Accept(c) PROVE ConnType'
  BY <1>2 DEF Accept, connVars, ConnType, ConnPCs
<1>3. CASE Admit \/ TurnAway
  <2>1. pc' \in [Conns -> ConnPCs]
    BY <1>3 DEF Admit, TurnAway, ConnType, ConnPCs
  <2> QED BY <1>3, <2>1 DEF Admit, TurnAway, connVars, ConnType
<1>4. ASSUME NEW c \in Conns, Busy(c) PROVE ConnType'
  <2>1. pc' \in [Conns -> ConnPCs]
    BY <1>4, BusyMoves DEF ConnType, ConnPCs, Working
  <2>2. slot' \in [Conns -> BOOLEAN]
    BY <1>4, BusyTokens DEF ConnType, ReturnsToken, Enter
  <2> USE DEF connVars
  <2>3. kind' \in [Conns -> {"none", "sink", "reader", "observer"}]
        /\ policy' \in [Conns -> BOOLEAN]
    <3>1. CASE UNCHANGED <<kind, policy>>
      BY <3>1 DEF ConnType
    <3>2. ASSUME NEW k \in Asks[c], Receive(c, k)
          PROVE  kind' \in [Conns -> {"none", "sink", "reader", "observer"}]
                 /\ policy' \in [Conns -> BOOLEAN]
      <4>1. k \in {"sink", "reader", "observer"} /\ history \in BOOLEAN
        BY HostAssumption DEF HostType
      <4> QED BY <3>2, <4>1 DEF Receive, ConnType
    <3> QED
      BY <1>4, <3>1, <3>2
      DEF Busy, Answers, Fail, Unauthorized, BadRequest, Refuses, Write, Read,
          Observe, Authorize, Enter, EnterUnwaiting, Recheck, Reply
  <2>4. unread' \in [Conns -> BOOLEAN]
    <3>1. CASE UNCHANGED unread
      BY <3>1 DEF ConnType
    <3>2. CASE Observe(c)
      <4>1. Refused(c) \in BOOLEAN
        BY DEF Refused
      <4> QED BY <3>2, <4>1 DEF Observe, ConnType
    <3> QED
      BY <1>4, <3>1, <3>2
      DEF Busy, Answers, Receive, Fail, Unauthorized, BadRequest, Refuses, Write,
          Read, Authorize, Enter, EnterUnwaiting, Recheck, Reply
  <2>5. answer' \in [Conns -> {"none", "page", "refusal"}]
    BY <1>4
    DEF Busy, Answers, Receive, Fail, Unauthorized, BadRequest, Refuses, Write,
        Read, Observe, Authorize, Enter, EnterUnwaiting, Recheck, Reply, Answer,
        ConnType
  <2> QED BY <2>1, <2>2, <2>3, <2>4, <2>5 DEF ConnType
<1>5. ASSUME NEW c \in Conns, Finish(c) \/ Done(c) PROVE ConnType'
  <2>1. pc' \in [Conns -> ConnPCs]
    BY <1>5 DEF Finish, Done, Move, ConnType, ConnPCs
  <2>2. policy' \in [Conns -> BOOLEAN] /\ unread' \in [Conns -> BOOLEAN]
        /\ slot' \in [Conns -> BOOLEAN]
    BY <1>5 DEF Finish, Done, connVars, ConnType
  <2>3. /\ kind' \in [Conns -> {"none", "sink", "reader", "observer"}]
        /\ answer' \in [Conns -> {"none", "page", "refusal"}]
    BY <1>5 DEF Finish, Done, connVars, ConnType
  <2> QED BY <2>1, <2>2, <2>3 DEF ConnType
<1> QED BY <1>1, <1>2, <1>3, <1>4, <1>5, Steps

(* The tokens stay within their limits.                                    *)
LEMMA NextCountType == IInv /\ [Next]_vars => CountType'
<1> SUFFICES ASSUME IInv, [Next]_vars PROVE CountType'
  OBVIOUS
<1> USE HostAssumption DEF IInv, CountType
<1>0. workers' \in Nat
  <2>1. IsFiniteSet(Active)'
    <3>1. Active' \subseteq Conns
      BY DEF Active
    <3> QED BY <3>1, FS_Subset
  <2> QED BY <2>1, FS_CardinalityType, NextCount DEF CountInv
<1>1. CASE HostStep
  BY <1>1 DEF HostStep
<1>2. ASSUME NEW c \in Conns, Accept(c) PROVE CountType'
  BY <1>2 DEF Accept
<1>3. CASE Admit \/ TurnAway
  BY <1>0, <1>3 DEF Admit, TurnAway, Overloaded, TakesToken
<1>4. ASSUME NEW c \in Conns, Busy(c) PROVE CountType'
  <2>1. calls' = calls
    BY <1>4, BusyMoves
  <2>2. observers' \in 0 .. MaxObservers
    BY <1>4, BusyTokens DEF ReturnsToken, Enter
  <2> QED BY <1>0, <2>1, <2>2
<1>5. ASSUME NEW c \in Conns, Finish(c) \/ Done(c) PROVE CountType'
  BY <1>0, <1>5 DEF Finish, Done
<1> QED BY <1>1, <1>2, <1>3, <1>4, <1>5, Steps

(* The steps of the host that are not a worker's.                          *)
LEMMA NextHostType == IInv /\ [Next]_vars => HostType'
<1> SUFFICES ASSUME IInv, [Next]_vars PROVE HostType'
  OBVIOUS
<1> USE DEF IInv, HostType, ServePCs, serveVars, closeVars, policyVars, sinkVars
<1>1. CASE CloseListener \/ UserClose \/ CancelContext \/ AfterFunc
  <2>1. CASE CloseListener
    BY <2>1 DEF CloseListener
  <2>2. CASE UserClose
    BY <2>2 DEF UserClose, CloseBegins
  <2>3. CASE CancelContext
    BY <2>3 DEF CancelContext
  <2>4. CASE AfterFunc
    BY <2>4 DEF AfterFunc, CloseBegins
  <2> QED  BY <1>1, <2>1, <2>2, <2>3, <2>4
<1>2. CASE ServeBegins \/ AcceptBreaks
  <2>1. CASE ServeBegins
    BY <2>1 DEF ServeBegins, ServeMove
  <2>2. CASE AcceptBreaks
    BY <2>2 DEF AcceptBreaks, ServeMove
  <2> QED  BY <1>2, <2>1, <2>2
<1>3. CASE AcceptClosed \/ ServeFails \/ DeferredClose \/ ServeReturns
  <2>1. CASE AcceptClosed
    BY <2>1 DEF AcceptClosed, ServeMove
  <2>2. CASE ServeFails
    BY <2>2 DEF ServeFails, ServeMove
  <2>3. CASE DeferredClose
    BY <2>3 DEF DeferredClose, CloseBegins, ServeMove
  <2>4. CASE ServeReturns
    BY <2>4 DEF ServeReturns, ServeMove
  <2> QED  BY <1>3, <2>1, <2>2, <2>3, <2>4
<1>4. CASE OnStopped
  BY <1>4 DEF OnStopped, ServeMove, StopInv
<1>5. ASSUME NEW c \in Conns, Accept(c) PROVE HostType'
  BY <1>5 DEF Accept, ServeMove
<1>6. CASE Admit \/ TurnAway
  BY <1>6 DEF Admit, TurnAway, ServeMove
<1>7. ASSUME NEW c \in Conns, Worker(c) PROVE HostType'
  <2>1. UNCHANGED <<workerVars, sink>>
    BY <1>7, BusyMoves DEF Worker, Busy, Finish, Done
  <2>2. misuse' \in BOOLEAN
    <3>1. CASE misuse' = misuse
      BY <3>1
    <3>2. CASE Use
      BY <3>2 DEF Use
    <3> QED
      BY <1>7, <3>1, <3>2
      DEF Worker, Answers, Receive, Fail, Unauthorized, BadRequest, Refuses,
          Write, Read, Observe, Authorize, Enter, EnterUnwaiting, Recheck, Reply,
          Finish, Done
  <2> QED BY <2>1, <2>2 DEF workerVars
<1>8. CASE UNCHANGED vars
  BY <1>8 DEF vars
<1>9. CASE SinkClose \/ EnableHistoryPolicy \/ Revoke
  BY <1>9 DEF SinkClose, EnableHistoryPolicy, Revoke
<1> QED BY <1>1, <1>2, <1>3, <1>4, <1>5, <1>6, <1>7, <1>8, <1>9 DEF Next, Loop

-----------------------------------------------------------------------------
(* The accept loop, the shutdown and the pages.                            *)

(* Only the accept loop moves a connection in or out of its hands.         *)
LEMMA NextHeld == IInv /\ [Next]_vars => HeldInv'
<1> SUFFICES ASSUME IInv, [Next]_vars PROVE HeldInv'
  OBVIOUS
<1> USE DEF IInv, HeldInv, ConnType, HostType, serveVars
<1>1. CASE CloseListener \/ UserClose \/ CancelContext \/ AfterFunc
  BY <1>1 DEF CloseListener, UserClose, CancelContext, AfterFunc
<1>2. CASE ServeBegins \/ AcceptBreaks \/ SinkClose \/ EnableHistoryPolicy \/ Revoke
  BY <1>2 DEF ServeBegins, AcceptBreaks, SinkClose, EnableHistoryPolicy, Revoke,
             ServeMove
<1>3. CASE AcceptClosed \/ ServeFails \/ DeferredClose \/ OnStopped \/ ServeReturns
  BY <1>3 DEF AcceptClosed, ServeFails, DeferredClose, OnStopped, ServeReturns,
             ServeMove
<1>4. ASSUME NEW c \in Conns, Accept(c) PROVE HeldInv'
  BY <1>4 DEF Accept, ServeMove
<1>5. CASE Admit \/ TurnAway
  BY <1>5 DEF Admit, TurnAway, ServeMove
<1>6. ASSUME NEW c \in Conns, Worker(c) PROVE HeldInv'
  <2>1. UNCHANGED <<serve, held>>
    BY <1>6, BusyMoves DEF Worker, Busy, Finish, Done, workerVars
  <2>2. \A d \in Conns : pc'[d] = "held" <=> pc[d] = "held"
    <3>1. CASE Busy(c)
      BY <3>1, BusyMoves DEF Working
    <3>2. CASE Finish(c) \/ Done(c)
      BY <3>2 DEF Finish, Done, Move
    <3> QED BY <1>6, <3>1, <3>2 DEF Worker, Busy
  <2> QED BY <2>1, <2>2
<1>7. CASE UNCHANGED vars
  BY <1>7 DEF vars
<1> QED BY <1>1, <1>2, <1>3, <1>4, <1>5, <1>6, <1>7 DEF Next, Loop

(* Serve returns after the last worker, and OnStopped runs after Close.    *)
LEMMA NextStop == IInv /\ [Next]_vars => StopInv'
<1> SUFFICES ASSUME IInv, [Next]_vars PROVE StopInv'
  OBVIOUS
<1> USE DEF IInv, HostType, ServePCs, CountType, StopInv, serveVars, closeVars,
            policyVars, sinkVars
<1>1. CASE CloseListener
  BY <1>1 DEF CloseListener
<1>2. CASE UserClose \/ AfterFunc \/ DeferredClose
  BY <1>2 DEF UserClose, AfterFunc, DeferredClose, CloseBegins
<1>3. CASE CancelContext \/ SinkClose \/ EnableHistoryPolicy \/ Revoke
  BY <1>3 DEF CancelContext, SinkClose, EnableHistoryPolicy, Revoke
<1>4. CASE ServeBegins \/ AcceptBreaks \/ AcceptClosed
  BY <1>4 DEF ServeBegins, AcceptBreaks, AcceptClosed, ServeMove
<1>5. CASE ServeFails
  BY <1>5 DEF ServeFails, ServeMove, StoppedOnPurpose
<1>6. CASE OnStopped
  BY <1>6 DEF OnStopped, ServeMove, CloseReturns
<1>7. CASE ServeReturns
  BY <1>7 DEF ServeReturns, ServeMove, Drained
<1>8. ASSUME NEW c \in Conns, Accept(c) PROVE StopInv'
  BY <1>8 DEF Accept, ServeMove
<1>9. CASE Admit \/ TurnAway
  BY <1>9 DEF Admit, TurnAway, ServeMove
<1>10. ASSUME NEW c \in Conns, Busy(c) PROVE StopInv'
  <2>1. UNCHANGED <<workerVars, workers, sink>>
    BY <1>10, BusyMoves
  <2>2. c \in Active
    BY <1>10, BusyMoves DEF Active, Working
  <2>3. workers # 0
    BY <2>2, Finite, FS_EmptySet DEF CountInv
  <2>4. sink
    BY <2>3
  <2>5. misuse' = misuse
    BY <1>10, <2>4
    DEF Busy, Answers, Receive, Fail, Unauthorized, BadRequest, Refuses, Write,
        Read, Observe, Authorize, Enter, EnterUnwaiting, Recheck, Reply, Use
  <2> QED BY <2>1, <2>5 DEF workerVars
<1>11. ASSUME NEW c \in Conns, Finish(c) PROVE StopInv'
  BY <1>11 DEF Finish, workerVars
<1>12. ASSUME NEW c \in Conns, Done(c) PROVE StopInv'
  <2>1. c \in Active
    BY <1>12 DEF Done, Move, Active
  <2>2. workers # 0
    BY <2>1, Finite, FS_EmptySet DEF CountInv
  <2> QED BY <1>12, <2>2 DEF Done, workerVars
<1>13. CASE UNCHANGED vars
  BY <1>13 DEF vars
<1> QED BY <1>1, <1>2, <1>3, <1>4, <1>5, <1>6, <1>7, <1>8, <1>9, <1>10, <1>11,
           <1>12, <1>13 DEF Next, Loop, Worker, Busy

(* A refusal stays one: the policy a worker captured is fixed, and what is *)
(* revoked is not granted again.                                           *)
LEMMA NextPage == IInv /\ [Next]_vars => PageInv'
<1> SUFFICES ASSUME IInv, [Next]_vars, NEW d \in Conns PROVE PageOf(d)'
  BY DEF PageInv
<1> USE DEF IInv, ConnType, HostType, connVars, policyVars
<1>0. PageOf(d)
  BY DEF PageInv
<1>1. CASE HostStep
  <2>1. ~permitted => ~permitted'
    <3>1. CASE CloseListener \/ UserClose \/ CancelContext \/ AfterFunc
      BY <3>1 DEF CloseListener, UserClose, CancelContext, AfterFunc
    <3>2. CASE ServeBegins \/ AcceptBreaks \/ SinkClose \/ EnableHistoryPolicy
               \/ Revoke
      BY <3>2 DEF ServeBegins, AcceptBreaks, SinkClose, EnableHistoryPolicy,
                 Revoke
    <3>3. CASE AcceptClosed \/ ServeFails \/ DeferredClose \/ OnStopped
               \/ ServeReturns
      BY <3>3 DEF AcceptClosed, ServeFails, DeferredClose, OnStopped,
                 ServeReturns
    <3>4. ASSUME NEW c \in Conns, Accept(c) PROVE permitted' = permitted
      BY <3>4 DEF Accept
    <3>5. CASE Admit \/ TurnAway
      BY <3>5 DEF Admit, TurnAway
    <3>6. ASSUME NEW c \in Conns, Worker(c) PROVE permitted' = permitted
      BY <3>6, BusyMoves DEF Worker, Busy, Finish, Done, workerVars
    <3>7. CASE UNCHANGED vars
      BY <3>7 DEF vars
    <3> QED BY <3>1, <3>2, <3>3, <3>4, <3>5, <3>6, <3>7 DEF Next, Loop
  <2> QED BY <1>0, <1>1, <2>1 DEF HostStep, PageOf
<1>2. ASSUME NEW c \in Conns, Accept(c) PROVE PageOf(d)'
  BY <1>0, <1>2 DEF Accept, PageOf
<1>3. CASE Admit \/ TurnAway
  BY <1>0, <1>3 DEF Admit, TurnAway, PageOf, HeldInv
<1>4. ASSUME NEW c \in Conns, Worker(c), c # d PROVE PageOf(d)'
  <2>1. permitted' = permitted
    BY <1>4, BusyMoves DEF Worker, Busy, Finish, Done, workerVars
  <2>2. pc'[d] = pc[d]
    BY <1>4, BusyMoves DEF Worker, Busy, Finish, Done, Move
  <2>3. policy'[d] = policy[d] /\ unread'[d] = unread[d]
    BY <1>4
    DEF Worker, Answers, Receive, Fail, Unauthorized, BadRequest, Refuses,
        Write, Read, Observe, Authorize, Enter, EnterUnwaiting, Recheck, Reply,
        Finish, Done
  <2>4. answer'[d] = answer[d]
    BY <1>4
    DEF Worker, Answers, Receive, Fail, Unauthorized, BadRequest, Refuses,
        Write, Read, Observe, Authorize, Enter, EnterUnwaiting, Recheck, Reply,
        Finish, Done, Answer
  <2> QED BY <1>0, <2>1, <2>2, <2>3, <2>4 DEF PageOf
<1>5. CASE Busy(d)
  <2> USE DEF PageOf, Move
  <2>0. permitted' = permitted
    BY <1>5, BusyMoves DEF workerVars
  <2>1. CASE \E k \in Asks[d] : Receive(d, k)
    BY <1>0, <2>0, <2>1 DEF Receive
  <2>2. CASE Fail(d)
    BY <1>0, <2>0, <2>2 DEF Fail
  <2>3. CASE Unauthorized(d) \/ BadRequest(d)
    BY <1>0, <2>0, <2>3 DEF Unauthorized, BadRequest, Refuses, Answer
  <2>4. CASE Write(d) \/ Authorize(d) \/ EnterUnwaiting(d) \/ Reply(d)
    BY <1>0, <2>0, <2>4 DEF Write, Authorize, EnterUnwaiting, Reply
  <2>5. CASE Read(d)
    BY <1>0, <2>0, <2>5 DEF Read, Answer
  <2>6. CASE Enter(d)
    BY <1>0, <2>0, <2>6 DEF Enter
  <2>7. CASE Observe(d)
    <3>1. unread'[d] = Refused(d)
      BY <2>7 DEF Observe
    <3> QED BY <1>0, <2>0, <2>7, <3>1 DEF Observe, Refused
  <2>8. CASE Recheck(d)
    <3>1. ~unread[d]
      BY <1>0, <2>8 DEF Recheck, Rechecks, Authorizes
    <3> QED BY <1>0, <2>0, <2>8, <3>1 DEF Recheck, Answer
  <2> QED BY <1>5, <2>1, <2>2, <2>3, <2>4, <2>5, <2>6, <2>7, <2>8
          DEF Busy, Answers
<1>6. CASE Finish(d) \/ Done(d)
  BY <1>0, <1>6 DEF Finish, Done, Move, PageOf, workerVars
<1> QED BY <1>1, <1>2, <1>3, <1>4, <1>5, <1>6, Steps DEF Worker, Busy

-----------------------------------------------------------------------------
(* The strengthened invariant holds of every reachable state.              *)
LEMMA Inductive == Safety => []IInv
<1>1. Init => IInv
  <2> SUFFICES ASSUME Init PROVE IInv
    OBVIOUS
  <2> USE HostAssumption DEF Init
  <2>1. HostType
    <3>1. /\ serve \in ServePCs /\ held \subseteq Conns /\ stopped \in 0 .. 1
          /\ result \in {"none", "nil", "error"}
          /\ once \in {"new", "cancelled", "closed"}
      BY DEF ServePCs
    <3> QED BY <3>1, Zenon DEF HostType
  <2>2. CountType
    BY DEF CountType
  <2>3. ConnType
    BY DEF ConnType, ConnPCs
  <2>4. CountInv
    <3>1. Active = {} /\ Calling = {} /\ Watching = {}
      BY DEF Active, Calling, Watching
    <3> QED BY <3>1, FS_EmptySet DEF CountInv
  <2>5. HeldInv /\ StopInv /\ PageInv
    BY DEF HeldInv, StopInv, PageInv, PageOf
  <2> QED BY <2>1, <2>2, <2>3, <2>4, <2>5 DEF IInv
<1>2. IInv /\ [Next]_vars => IInv'
  BY NextHostType, NextCountType, NextConnType, NextCount, NextHeld, NextStop,
     NextPage DEF IInv
<1> QED BY <1>1, <1>2, PTL DEF Safety

(* ServiceHost!SlotsExact: the tokens of calls and observers and the       *)
(* WaitGroup count exactly the workers that hold them.                     *)
THEOREM SlotsExactInvariant == Safety => []SlotsExact
<1>1. IInv => SlotsExact
  <2> SUFFICES ASSUME IInv PROVE SlotsExact
    OBVIOUS
  <2>1. TypeOK
    BY Zenon DEF IInv, HostType, CountType, ConnType, TypeOK
  <2> QED BY <2>1 DEF IInv, CountInv, Calling, Watching, SlotsExact
<1> QED BY <1>1, Inductive, PTL

(* ServiceHost!ShutdownIsOrdered: OnStopped runs on a closed listener, the *)
(* provider is not used after its Close, and Serve returns an error only   *)
(* for a listener that failed by itself.                                   *)
THEOREM ShutdownOrder == Safety => []ShutdownIsOrdered
<1>1. IInv => ShutdownIsOrdered
  BY DEF IInv, HostType, StopInv, ShutdownIsOrdered
<1> QED BY <1>1, Inductive, PTL

(* ServiceHost!PagesAreAuthorized: no observation gets a page that was     *)
(* read after the policy withdrew its permission.                          *)
THEOREM PagesAuthorizedInvariant == Safety => []PagesAreAuthorized
<1>1. IInv => PagesAreAuthorized
  BY DEF IInv, PageInv, PageOf, PagesAreAuthorized
<1> QED BY <1>1, Inductive, PTL
=============================================================================
