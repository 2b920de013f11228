-------------------------- MODULE LocalForwarding --------------------------
(***************************************************************************)
(* The socket path of go/service.go: a ServiceSink that sends records over *)
(* a unix socket and falls back to another sink, and the Server that       *)
(* accepts its connections, reads newline-framed records from each         *)
(* (linereader.go) and hands them on.                                      *)
(*                                                                         *)
(* A record is the number of its Write call.  On the wire it is three      *)
(* cells: two of body and a newline, so a write that fails may leave       *)
(* nothing, half a body, or a body without its newline behind.  send holds *)
(* ServiceSink.mu throughout and is one step.  What Accept adds to a       *)
(* record is not modelled here.                                            *)
(***************************************************************************)
EXTENDS Integers, SequencesExt

CONSTANTS
  MaxRecords,  \* bound: the Write calls
  MaxDials     \* bound: the connections the sink makes

ASSUME ForwardingAssumption == MaxRecords \in Nat /\ MaxDials \in Nat

VARIABLES
  records,    \* Write calls so far
  dials,      \* connections made so far, which number them
  conn,       \* s.conn, 0 for nil
  owed,       \* failed records whose Fallback.Write is still to come
  fallback,   \* the records the fallback was given
  pipe,       \* what the server has not read of each connection
  hung,       \* the connections the client closed
  sent,       \* history: the records whose body is whole on each connection
  server,     \* the server process: it runs, it closed, or it is down
  listening,  \* its listener is open
  held,       \* the connection Serve accepted and has not handed over
  tracked,    \* s.conns
  cut,        \* the connections whose server end is closed
  handler,    \* where the handler of each connection is
  wg,         \* the count of the WaitGroup
  closing,    \* where Server.Close is
  out         \* history: what each handler handed to Out

sinkVars   == <<records, dials, conn, owed, fallback>>
wireVars   == <<pipe, hung, sent>>
serverVars == <<server, listening, held, tracked, cut, handler, wg, closing>>
vars == <<sinkVars, wireVars, serverVars, out>>

Conns == 1 .. MaxDials
Records == 1 .. MaxRecords

Init ==
  /\ records = 0 /\ dials = 0 /\ conn = 0
  /\ owed = {} /\ fallback = <<>>
  /\ pipe = [c \in Conns |-> <<>>] /\ hung = {}
  /\ sent = [c \in Conns |-> <<>>]
  /\ server = "up" /\ listening = TRUE /\ held = {} /\ tracked = {}
  /\ cut = {} /\ handler = [c \in Conns |-> "none"] /\ wg = 0
  /\ closing = "no"
  /\ out = [c \in Conns |-> <<>>]

-----------------------------------------------------------------------------
(* ServiceSink.                                                            *)

(* The first n cells of a record's line.                                   *)
Cells(r, n) == [i \in 1 .. n |-> [r |-> r, i |-> i]]
Whole(n) == n >= 2

(* n cells of record r go into connection c.                               *)
Transmit(c, r, n) ==
  /\ pipe' = [pipe EXCEPT ![c] = @ \o Cells(r, n)]
  /\ sent' = IF Whole(n) THEN [sent EXCEPT ![c] = Append(@, r)] ELSE sent

NewRecord == records < MaxRecords /\ records' = records + 1

(* send on connection c: the line goes through, or the write fails after n *)
(* cells, which closes the connection and leaves the record to Fallback.   *)
SendWhole(c) ==
  /\ c \notin cut
  /\ Transmit(c, records + 1, 3)
  /\ conn' = c
  /\ UNCHANGED <<owed, hung>>

FailKeepsConn(c, n) ==
  /\ n > 0 => c \notin cut
  /\ Transmit(c, records + 1, n)
  /\ conn' = c /\ UNCHANGED hung
  /\ owed' = owed \union {records + 1}
FailDropsConn(c, n) ==
  /\ n > 0 => c \notin cut
  /\ Transmit(c, records + 1, n)
  /\ conn' = 0 /\ hung' = hung \union {c}
  /\ owed' = owed \union {records + 1}

Send(c) == SendWhole(c) \/ \E n \in 0 .. 2 : FailDropsConn(c, n)

(* Write with a connection, on a new one, and without any: the dial fails  *)
(* when nobody listens, and may time out in any case.                      *)
WriteConnected ==
  /\ conn # 0 /\ NewRecord
  /\ Send(conn)
  /\ UNCHANGED <<dials, fallback, serverVars, out>>

WriteDials ==
  /\ conn = 0 /\ NewRecord
  /\ listening /\ dials < MaxDials
  /\ dials' = dials + 1
  /\ Send(dials + 1)
  /\ handler' = [handler EXCEPT ![dials + 1] = "backlog"]
  /\ UNCHANGED <<fallback, server, listening, held,
                 tracked, cut, wg, closing, out>>

OweFailedDial == owed' = owed \union {records + 1}
WriteUnreached ==
  /\ conn = 0 /\ NewRecord
  /\ OweFailedDial
  /\ UNCHANGED <<dials, conn, fallback, wireVars, serverVars, out>>

(* Fallback.Write, outside the lock.                                       *)
WriteFallback(r) ==
  /\ r \in owed
  /\ owed' = owed \ {r}
  /\ fallback' = Append(fallback, r)
  /\ UNCHANGED <<records, dials, conn, wireVars,
                 serverVars, out>>

SinkClose ==
  /\ conn # 0
  /\ conn' = 0
  /\ hung' = hung \union {conn}
  /\ UNCHANGED <<records, dials, owed, fallback, pipe,
                 sent, serverVars, out>>

-----------------------------------------------------------------------------
(* Server.Serve: accept, ask who it is, track, start a handler.            *)

Accept(c) ==
  /\ listening /\ held = {}
  /\ handler[c] = "backlog"
  /\ held' = {c}
  /\ handler' = [handler EXCEPT ![c] = "accepted"]
  /\ UNCHANGED <<sinkVars, wireVars, server, listening, tracked, cut, wg,
                 closing, out>>

Track ==
  /\ held # {} /\ ~(held \subseteq tracked)
  /\ tracked' = tracked \union held
  /\ UNCHANGED <<sinkVars, wireVars, server, listening, held, cut, handler,
                 wg, closing, out>>

CountsHandler == wg' = wg + 1
Start ==
  /\ held # {} /\ held \subseteq tracked
  /\ CountsHandler
  /\ handler' = [c \in Conns |-> IF c \in held THEN "reading" ELSE handler[c]]
  /\ held' = {}
  /\ UNCHANGED <<sinkVars, wireVars, server, listening, tracked, cut, closing,
                 out>>

(* handle: a line that decodes goes to Out, another is skipped.            *)
Decoded(line) ==
  {r \in Records : line = Cells(r, 3) \/ line = Cells(r, 2)}
Deliver(c, line) ==
  out' = [out EXCEPT ![c] = @ \o SetToSeq(Decoded(line))]

Newlines(c) == {i \in DOMAIN pipe[c] : pipe[c][i].i = 3}

HandleLine(c) ==
  /\ handler[c] = "reading" /\ Newlines(c) # {}
  /\ LET n == Min(Newlines(c))
     IN /\ Deliver(c, SubSeq(pipe[c], 1, n))
        /\ pipe' = [pipe EXCEPT ![c] = SubSeq(@, n + 1, Len(@))]
  /\ UNCHANGED <<sinkVars, hung, sent, serverVars>>

(* The end of the stream, with what was left before it: ReadBytes returns  *)
(* an unterminated line first.  A connection the server closed ends where  *)
(* its buffer ends.                                                        *)
RestDiscarded(c, n) == UNCHANGED out
RestDelivered(c, n) == Deliver(c, SubSeq(pipe[c], 1, n))
Ended(c) == c \in hung /\ Newlines(c) = {}
HandleEnd(c, n) ==
  /\ handler[c] = "reading"
  /\ c \in cut \/ (Ended(c) /\ n = Len(pipe[c]))
  /\ Newlines(c) \intersect 1 .. n = {}
  /\ RestDelivered(c, n)
  /\ pipe' = [pipe EXCEPT ![c] = <<>>]
  /\ handler' = [handler EXCEPT ![c] = "leaving"]
  /\ UNCHANGED <<sinkVars, hung, sent, server, listening, held, tracked, cut,
                 wg, closing>>

(* The deferred calls of the handler: c.Close, track(c, false), wg.Done.   *)
HandlerLeaves(c) ==
  /\ handler[c] = "leaving"
  /\ handler' = [handler EXCEPT ![c] = "done"]
  /\ cut' = cut \union {c}
  /\ tracked' = tracked \ {c}
  /\ wg' = wg - 1
  /\ UNCHANGED <<sinkVars, wireVars, server, listening, held, closing, out>>

-----------------------------------------------------------------------------
(* Server.Close, and the death and restart of the process.                 *)

(* What waits in the backlog is reset with the listener.                   *)
Backlog == {c \in Conns : handler[c] = "backlog"}

CloseListener ==
  /\ server = "up" /\ closing = "no"
  /\ closing' = "conns" /\ server' = "closed"
  /\ listening' = FALSE
  /\ cut' = cut \union Backlog
  /\ handler' = [c \in Conns |-> IF c \in Backlog THEN "killed" ELSE handler[c]]
  /\ UNCHANGED <<sinkVars, wireVars, held, tracked, wg, out>>

ClosesNone == {}
ClosesTracked == tracked
CloseConns ==
  /\ closing = "conns"
  /\ closing' = "wait"
  /\ cut' = cut \union ClosesTracked
  /\ UNCHANGED <<sinkVars, wireVars, server, listening, held, tracked,
                 handler, wg, out>>

CloseReturns ==
  /\ closing = "wait" /\ wg = 0
  /\ closing' = "done"
  /\ UNCHANGED <<sinkVars, wireVars, server, listening, held, tracked, cut,
                 handler, wg, out>>

Crash ==
  /\ server = "up"
  /\ server' = "down" /\ listening' = FALSE
  /\ held' = {} /\ tracked' = {} /\ wg' = 0
  /\ cut' = 1 .. dials
  /\ handler' = [c \in Conns |-> IF handler[c] \in {"none", "done"}
                                 THEN handler[c] ELSE "killed"]
  /\ UNCHANGED <<sinkVars, wireVars, closing, out>>

(* Listen removes the stale socket of a killed process.                    *)
Listen ==
  /\ server = "down"
  /\ server' = "up" /\ listening' = TRUE
  /\ UNCHANGED <<sinkVars, wireVars, held, tracked, cut, handler, wg, closing,
                 out>>

-----------------------------------------------------------------------------
Sink ==
  \/ WriteConnected \/ WriteDials \/ WriteUnreached \/ SinkClose
  \/ \E r \in Records : WriteFallback(r)
Serve == (\E c \in Conns : Accept(c)) \/ Track \/ Start
Handle(c) ==
  HandleLine(c) \/ (\E n \in 0 .. Len(pipe[c]) : HandleEnd(c, n))
                \/ HandlerLeaves(c)
Close == CloseConns \/ CloseReturns

Next ==
  \/ Sink \/ Serve \/ (\E c \in Conns : Handle(c))
  \/ CloseListener \/ Close \/ Crash \/ Listen

Safety == Init /\ [][Next]_vars

(* The server's goroutines run and a Close that began goes on; nobody has  *)
(* to write, to hang up, to begin a Close or to die.                       *)
Fairness ==
  /\ WF_vars(Serve) /\ WF_vars(Close)
  /\ \A c \in Conns : WF_vars(Handle(c))
Spec == Safety /\ Fairness

-----------------------------------------------------------------------------
(* Properties.                                                             *)

HandlerPCs == {"none", "backlog", "accepted", "reading", "leaving", "done",
               "killed"}

(* Every variable has its type.                                            *)
TypeOK ==
  /\ records \in 0 .. MaxRecords /\ dials \in 0 .. MaxDials
  /\ conn \in 0 .. dials
  /\ owed \subseteq 1 .. records /\ fallback \in Seq(Records)
  /\ pipe \in [Conns -> Seq([r : Records, i : 1 .. 3])]
  /\ hung \subseteq 1 .. dials /\ sent \in [Conns -> Seq(Records)]
  /\ server \in {"up", "closed", "down"} /\ listening \in BOOLEAN
  /\ held \subseteq Conns /\ tracked \subseteq Conns /\ cut \subseteq Conns
  /\ handler \in [Conns -> HandlerPCs] /\ wg \in Nat
  /\ closing \in {"no", "conns", "wait", "done"}
  /\ out \in [Conns -> Seq(Records)]

(* What reaches Out from a connection is what was sent whole on it, in     *)
(* order and without a gap: a torn line never swallows the next record.    *)
(* And every Write that returned put its record on a connection or gave it *)
(* to the fallback, whatever state the service was in, and did both only   *)
(* if the record ended its connection without a newline.  Every variable   *)
(* has its type, and the WaitGroup never goes below zero.                  *)
InOrderOrFallback ==
  LET given == owed \union ToSet(fallback)
  IN /\ TypeOK /\ \A c \in Conns : IsPrefix(out[c], sent[c])
     /\ \A r \in (1 .. records) \ given : \E c \in Conns : r \in ToSet(sent[c])
     /\ \A r \in given, c \in Conns :
          r \in ToSet(sent[c]) => c \in hung /\ r = Last(sent[c])

(* Unless the service stops or dies under it, a record sent whole arrives, *)
(* also the last one of a connection that broke before its newline.        *)
SubmittedArrives ==
  \A c \in Conns, r \in Records :
    r \in ToSet(sent[c]) ~>
      \/ r \in ToSet(out[c])
      \/ server = "closed" \/ handler[c] = "killed"

(* Server.Close returns although no client hangs up, if no connection was  *)
(* between Accept and its handler when the listener was closed.            *)
CloseEndsOnceTracked == (closing = "conns" /\ held = {}) ~> closing = "done"

-----------------------------------------------------------------------------
(* What a comment says and the code does not do.                             *)

(* "Close stops listening and closes every connection it accepted", so     *)
(* that it need not wait for a client to hang up: Close returns.           *)
CloseEnds == closing = "conns" ~> closing = "done"
=============================================================================
