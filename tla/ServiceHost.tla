---------------------------- MODULE ServiceHost ----------------------------
(***************************************************************************)
(* The logging host of go/service/service.go and the process around it     *)
(* (serve.go): an accept loop that admits connections into a bounded       *)
(* number of workers, each of which handles one write, history read or     *)
(* observation; a Close that several goroutines may call; and a shutdown   *)
(* that stops admission, says so, and drains the workers.                  *)
(*                                                                         *)
(* Channel operations, critical sections, callbacks and calls into the     *)
(* provider or the identity library (external) are one step each.  What a  *)
(* page holds is HistoryReader's subject, how an observation waits is      *)
(* HistoryObserver's.                                                      *)
(***************************************************************************)
EXTENDS Integers, FiniteSets

CONSTANTS
  Conns,        \* the connections clients make
  Asks,         \* the interfaces each connection may ask for
  MaxCalls,     \* 64 in the code
  MaxObservers  \* 32 in the code

ASSUME HostAssumption ==
  /\ IsFiniteSet(Conns)
  /\ Asks \in [Conns -> SUBSET {"sink", "reader", "observer"}]
  /\ MaxCalls \in Nat /\ MaxObservers \in Nat

VARIABLES
  serve,      \* where the goroutine in Serve is
  held,       \* the connection the accept loop holds, none when empty
  result,     \* what Serve returns
  ctx,        \* Serve's context is cancelled
  hostCtx,    \* h.ctx is cancelled
  once,       \* how far closeOnce got
  listener,   \* h.listener is open
  broke,      \* history: Accept failed on an open listener
  stopped,    \* how often OnStopped was called
  history,    \* h.history: a policy is configured
  permitted,  \* what the policy answers for the account's programs
  sink,       \* the provider is open
  misuse,     \* history: the provider was used after its Close
  calls,      \* the tokens in h.calls
  observers,  \* the tokens in h.observers
  workers,    \* the count of the WaitGroup
  pc,         \* where each connection is
  kind,       \* the service it asked for
  policy,     \* the policy its worker captured
  slot,       \* its worker holds an observer token
  unread,     \* history: its page was read when the policy refused it
  answer      \* what its worker replies

serveVars  == <<serve, held, result, stopped>>
closeVars  == <<ctx, hostCtx, once, listener, broke>>
policyVars == <<history, permitted>>
sinkVars   == <<sink, misuse>>
connVars   == <<kind, policy, slot, unread, answer>>
vars == <<serveVars, closeVars, policyVars, sinkVars, calls, observers,
          workers, pc, connVars>>

(* serve.go opens the provider and listens; a policy may come before Serve.*)
Init ==
  /\ serve = "before" /\ held = {} /\ result = "none" /\ stopped = 0
  /\ ctx = FALSE /\ hostCtx = FALSE /\ once = "new" /\ listener = TRUE
  /\ broke = FALSE
  /\ history = FALSE /\ permitted = TRUE
  /\ sink = TRUE /\ misuse = FALSE
  /\ calls = 0 /\ observers = 0 /\ workers = 0
  /\ pc = [c \in Conns |-> "backlog"]
  /\ kind = [c \in Conns |-> "none"]
  /\ policy = [c \in Conns |-> FALSE]
  /\ slot = [c \in Conns |-> FALSE]
  /\ unread = [c \in Conns |-> FALSE]
  /\ answer = [c \in Conns |-> "none"]

-----------------------------------------------------------------------------
(* Close: the body of closeOnce cancels, then closes the listener.  Later  *)
(* callers wait in Do until the first one is through.                      *)

CloseBegins ==
  /\ once = "new"
  /\ once' = "cancelled"
  /\ hostCtx' = TRUE
  /\ UNCHANGED <<ctx, listener, broke>>

CloseListener ==
  /\ once = "cancelled"
  /\ once' = "closed"
  /\ listener' = FALSE
  /\ UNCHANGED <<serveVars, ctx, hostCtx, broke, policyVars, sinkVars, calls,
                 observers, workers, pc, connVars>>

(* Close by another goroutine of the program.                              *)
UserClose ==
  /\ CloseBegins
  /\ UNCHANGED <<serveVars, policyVars, sinkVars, calls, observers, workers,
                 pc, connVars>>

Serving == serve \notin {"before", "returned"}

(* Serve's context is cancelled; its AfterFunc closes the host.  (Once     *)
(* Serve has returned nobody looks at the context.)                        *)
CancelContext ==
  /\ ~ctx /\ serve # "returned"
  /\ ctx' = TRUE
  /\ UNCHANGED <<serveVars, hostCtx, once, listener, broke, policyVars,
                 sinkVars, calls, observers, workers, pc, connVars>>
ContextIgnored == FALSE
ContextCloses == ctx /\ Serving
AfterFunc ==
  /\ ContextCloses
  /\ CloseBegins
  /\ UNCHANGED <<serveVars, policyVars, sinkVars, calls, observers, workers,
                 pc, connVars>>

-----------------------------------------------------------------------------
(* Serve.                                                                  *)

ServeMove(source, target) ==
  /\ serve = source
  /\ serve' = target

ServeBegins ==
  /\ ServeMove("before", "accept")
  /\ UNCHANGED <<held, result, stopped, closeVars, policyVars, sinkVars,
                 calls, observers, workers, pc, connVars>>

Accept(c) ==
  /\ listener /\ pc[c] = "backlog"
  /\ ServeMove("accept", "admit")
  /\ held' = {c}
  /\ pc' = [pc EXCEPT ![c] = "held"]
  /\ UNCHANGED <<result, stopped, closeVars, policyVars, sinkVars, calls,
                 observers, workers, connVars>>

(* Accept fails because the listener is closed, or of its own accord.      *)
AcceptClosed ==
  /\ ~listener
  /\ ServeMove("accept", "failed")
  /\ UNCHANGED <<held, result, stopped, closeVars, policyVars, sinkVars,
                 calls, observers, workers, pc, connVars>>
AcceptBreaks ==
  /\ listener
  /\ ServeMove("accept", "failed")
  /\ broke' = TRUE
  /\ UNCHANGED <<held, result, stopped, ctx, hostCtx, once, listener,
                 policyVars, sinkVars, calls, observers, workers, pc, connVars>>

(* The select: a token, or the connection is closed.                       *)
Overloaded == calls >= MaxCalls
TakesToken == calls' = calls + 1
StartWorker == workers' = workers + 1
Admit ==
  /\ ~Overloaded
  /\ ServeMove("admit", "accept")
  /\ TakesToken
  /\ StartWorker
  /\ pc' = [c \in Conns |-> IF c \in held THEN "receive" ELSE pc[c]]
  /\ held' = {}
  /\ UNCHANGED <<result, stopped, closeVars, policyVars, sinkVars, observers,
                 connVars>>
TurnAway ==
  /\ Overloaded
  /\ ServeMove("admit", "accept")
  /\ pc' = [c \in Conns |-> IF c \in held THEN "refused" ELSE pc[c]]
  /\ held' = {}
  /\ UNCHANGED <<result, stopped, closeVars, policyVars, sinkVars, calls,
                 observers, workers, connVars>>

(* The return value: an error only if nobody stopped the host.             *)
StoppedOnPurpose == hostCtx \/ ctx
ServeFails ==
  /\ ServeMove("failed", "close")
  /\ result' = IF StoppedOnPurpose THEN "nil" ELSE "error"
  /\ UNCHANGED <<held, stopped, closeVars, policyVars, sinkVars, calls,
                 observers, workers, pc, connVars>>

(* The deferred calls, last first: Close, OnStopped, workers.Wait, stop.   *)
DeferredClose ==
  /\ serve = "close"
  /\ CloseBegins
  /\ UNCHANGED <<serveVars, policyVars, sinkVars, calls, observers, workers,
                 pc, connVars>>
CloseReturnsAtOnce == once # "new"
CloseReturns == once = "closed"
OnStopped ==
  /\ CloseReturns
  /\ ServeMove("close", "drain")
  /\ stopped' = stopped + 1
  /\ UNCHANGED <<held, result, closeVars, policyVars, sinkVars, calls,
                 observers, workers, pc, connVars>>
Drained == workers = 0
ServeReturns ==
  /\ Drained
  /\ ServeMove("drain", "returned")
  /\ UNCHANGED <<held, result, stopped, closeVars, policyVars, sinkVars,
                 calls, observers, workers, pc, connVars>>

(* serve.go closes the provider when Serve has returned.                   *)
SinkClose ==
  /\ serve = "returned" /\ sink
  /\ sink' = FALSE
  /\ UNCHANGED <<serveVars, closeVars, policyVars, misuse, calls, observers,
                 workers, pc, connVars>>

-----------------------------------------------------------------------------
(* EnableHistoryPolicy: h.serving is FALSE for ever, nothing sets it.      *)
EnableHistoryPolicy ==
  /\ ~hostCtx
  /\ history' = TRUE
  /\ UNCHANGED <<serveVars, closeVars, permitted, sinkVars, calls, observers,
                 workers, pc, connVars>>

(* The policy is the program's: it may withdraw its permission.            *)
Revoke ==
  /\ history /\ permitted
  /\ permitted' = FALSE
  /\ UNCHANGED <<serveVars, closeVars, history, sinkVars, calls, observers,
                 workers, pc, connVars>>

-----------------------------------------------------------------------------
(* A worker.  Every failure ends in the deferred calls at "finish"; an     *)
(* error is reported to OnError, which changes nothing here.               *)

Move(c, source, target) ==
  /\ pc[c] = source
  /\ pc' = [pc EXCEPT ![c] = target]
workerVars == <<serveVars, closeVars, policyVars>>

(* The deferred return of the observer token, if the worker holds one.     *)
KeepsToken(c) ==
  /\ slot' = [slot EXCEPT ![c] = FALSE]
  /\ UNCHANGED observers
ReturnsToken(c) ==
  /\ slot[c] => observers > 0
  /\ observers' = IF slot[c] THEN observers - 1 ELSE observers
  /\ slot' = [slot EXCEPT ![c] = FALSE]

Fail(c) ==
  /\ pc[c] \in {"receive", "write", "observing", "reply"}
  /\ pc' = [pc EXCEPT ![c] = "finish"]
  /\ ReturnsToken(c)
  /\ UNCHANGED <<workerVars, sinkVars, calls, workers, kind, policy, unread,
                 answer>>

(* ReceiveFramed, the policy of the moment, and the service of the frame.  *)
Receive(c, k) ==
  /\ Move(c, "receive", IF k = "sink" THEN "write" ELSE "authorize")
  /\ kind' = [kind EXCEPT ![c] = k]
  /\ policy' = [policy EXCEPT ![c] = history]
  /\ UNCHANGED <<workerVars, sinkVars, calls, observers, workers, slot,
                 unread, answer>>

Use == misuse' = (misuse \/ ~sink)

(* receiver.Write hands the attested record to the provider.               *)
Write(c) ==
  /\ Move(c, "write", "finish")
  /\ Use
  /\ UNCHANGED <<workerVars, sink, calls, observers, workers, connVars>>

(* authorizeHistory: the policy the worker captured, whose answer does not *)
(* count once the request's context is done.  It may always refuse, for    *)
(* want of the caller's identity, for an account that is not the host's,   *)
(* or without the policy's decision (Refuses).                             *)
Refused(c) == policy[c] /\ ~permitted
Authorizes(c) == policy[c] => permitted /\ ~hostCtx

Answer(c, a) == answer' = [answer EXCEPT ![c] = a]
Refuses(c, source) ==
  /\ Move(c, source, "reply")
  /\ Answer(c, "refusal")
  /\ ReturnsToken(c)
  /\ UNCHANGED <<workerVars, sinkVars, calls, workers, kind, policy, unread>>

Authorize(c) ==
  /\ Authorizes(c)
  /\ Move(c, "authorize", IF kind[c] = "reader" THEN "read" ELSE "enter")
  /\ UNCHANGED <<workerVars, sinkVars, calls, observers, workers, connVars>>

(* receiver.Read.  Limits out of range and a provider without history are  *)
(* refusals, as they are in Observe.                                       *)
Read(c) ==
  /\ Move(c, "read", "reply")
  /\ Use
  /\ Answer(c, "page")
  /\ UNCHANGED <<workerVars, sink, calls, observers, workers, kind, policy,
                 slot, unread>>

(* receiver.Observe: a token for one that waits, none for waitMS = 0.      *)
Enter(c) ==
  /\ observers < MaxObservers
  /\ Move(c, "enter", "observing")
  /\ observers' = observers + 1
  /\ slot' = [slot EXCEPT ![c] = TRUE]
  /\ UNCHANGED <<workerVars, sinkVars, calls, workers, kind, policy, unread,
                 answer>>
EnterUnwaiting(c) ==
  /\ Move(c, "enter", "observing")
  /\ UNCHANGED <<workerVars, sinkVars, calls, observers, workers, connVars>>

(* ObserveContext returns a page.                                          *)
Observe(c) ==
  /\ Move(c, "observing", "recheck")
  /\ Use
  /\ unread' = [unread EXCEPT ![c] = Refused(c)]
  /\ UNCHANGED <<workerVars, sink, calls, observers, workers, kind, policy,
                 slot, answer>>

(* The second authorizeHistory; the token goes back as Observe returns.    *)
RechecksNothing(c) == TRUE
Rechecks(c) == Authorizes(c)
Recheck(c) ==
  /\ Rechecks(c)
  /\ Move(c, "recheck", "reply")
  /\ Answer(c, "page")
  /\ ReturnsToken(c)
  /\ UNCHANGED <<workerVars, sinkVars, calls, workers, kind, policy, unread>>

Reply(c) ==
  /\ Move(c, "reply", "finish")
  /\ UNCHANGED <<workerVars, sinkVars, calls, observers, workers, connVars>>

(* The deferred calls: the receive that takes the token out again, then    *)
(* workers.Done.  The receiver is gone.                                    *)
Finish(c) ==
  /\ calls > 0
  /\ Move(c, "finish", "released")
  /\ calls' = calls - 1
  /\ kind' = [kind EXCEPT ![c] = "none"]
  /\ policy' = [policy EXCEPT ![c] = FALSE]
  /\ unread' = [unread EXCEPT ![c] = FALSE]
  /\ answer' = [answer EXCEPT ![c] = "none"]
  /\ UNCHANGED <<workerVars, sinkVars, observers, workers, slot>>
Done(c) ==
  /\ Move(c, "released", "done")
  /\ workers' = workers - 1
  /\ UNCHANGED <<workerVars, sinkVars, calls, observers, connVars>>

-----------------------------------------------------------------------------
Unauthorized(c) == Refuses(c, "authorize") \/ Refuses(c, "recheck")
BadRequest(c) == Refuses(c, "read") \/ Refuses(c, "enter")
Answers(c) ==
  \/ Fail(c) \/ Unauthorized(c) \/ BadRequest(c)
  \/ Write(c) \/ Authorize(c) \/ Read(c)
  \/ Enter(c) \/ EnterUnwaiting(c) \/ Observe(c) \/ Recheck(c) \/ Reply(c)
Worker(c) ==
  \/ \E k \in Asks[c] : Receive(c, k)
  \/ Answers(c) \/ Finish(c) \/ Done(c)

Loop ==
  \/ \E c \in Conns : Accept(c)
  \/ AcceptClosed \/ Admit \/ TurnAway \/ ServeFails
  \/ DeferredClose \/ OnStopped \/ ServeReturns

Next ==
  \/ CloseListener \/ UserClose \/ CancelContext \/ AfterFunc
  \/ ServeBegins \/ Loop \/ AcceptBreaks \/ SinkClose
  \/ EnableHistoryPolicy \/ Revoke
  \/ \E c \in Conns : Worker(c)

Safety == Init /\ [][Next]_vars

(* Goroutines that can run do.  Nobody has to connect, close, cancel or    *)
(* configure anything, and the listener need not break; the provider and   *)
(* the identity library return (an observation has a timer, a request a    *)
(* context of 35 seconds).                                                 *)
Fairness ==
  /\ WF_vars(CloseListener) /\ WF_vars(AfterFunc) /\ WF_vars(Loop)
  /\ \A c \in Conns : WF_vars(Worker(c))
Spec == Safety /\ Fairness

-----------------------------------------------------------------------------
(* Properties.                                                             *)

ServePCs == {"before", "accept", "admit", "failed", "close", "drain",
             "returned"}
ConnPCs == {"backlog", "held", "refused", "receive", "write", "authorize",
            "read", "enter", "observing", "recheck", "reply", "finish",
            "released", "done"}

(* Every variable has its type.                                            *)
TypeOK ==
  /\ serve \in ServePCs /\ held \subseteq Conns
  /\ result \in {"none", "nil", "error"} /\ stopped \in 0 .. 1
  /\ ctx \in BOOLEAN /\ hostCtx \in BOOLEAN /\ listener \in BOOLEAN
  /\ broke \in BOOLEAN /\ once \in {"new", "cancelled", "closed"}
  /\ history \in BOOLEAN /\ permitted \in BOOLEAN
  /\ sink \in BOOLEAN /\ misuse \in BOOLEAN
  /\ calls \in 0 .. MaxCalls /\ observers \in 0 .. MaxObservers
  /\ workers \in Nat
  /\ pc \in [Conns -> ConnPCs] /\ kind \in [Conns -> {"none", "sink", "reader", "observer"}]
  /\ policy \in [Conns -> BOOLEAN] /\ slot \in [Conns -> BOOLEAN]
  /\ unread \in [Conns -> BOOLEAN]
  /\ answer \in [Conns -> {"none", "page", "refusal"}]

(* The tokens and the WaitGroup count exactly the workers that hold them:  *)
(* no way out of a worker leaks a token or returns one twice, they keep    *)
(* their limits, and every variable has its type.                          *)
Active == {c \in Conns : pc[c] \notin {"backlog", "held", "refused", "done"}}
SlotsExact ==
  /\ TypeOK
  /\ workers = Cardinality(Active)
  /\ calls = Cardinality({c \in Active : pc[c] # "released"})
  /\ observers = Cardinality({c \in Conns : slot[c]})
  /\ \A c \in Conns : slot[c] => pc[c] \in {"observing", "recheck"}

(* Shutdown keeps its order.  When OnStopped is called the listener is     *)
(* closed, also when another goroutine is in the middle of Close: whoever  *)
(* withdraws the service withdraws one that no client can reach any more.  *)
(* Nobody uses the provider after serve.go closed it: Serve returns to it  *)
(* only when the last worker is done.  And Serve returns an error only for *)
(* a listener that failed by itself, never for a Close or a cancellation,  *)
(* however they interleave with Accept.                                    *)
ShutdownIsOrdered ==
  (stopped > 0 => ~listener) /\ ~misuse /\ (result = "error" => broke)

(* An observation gets no page that was read after the policy withdrew its *)
(* permission, however long it waited for it.                              *)
PagesAreAuthorized == \A c \in Conns : answer[c] = "page" => ~unread[c]

(* A host that is closed or cancelled while serving stops, drained.        *)
ServeEnds ==
  (Serving /\ (ctx \/ hostCtx)) ~> (serve = "returned" /\ Active = {})
=============================================================================
