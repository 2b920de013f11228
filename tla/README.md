# Verification of abstraction-logging

TLA+ models of the Go implementation in `go/`, the TLC configurations that check
them on small instances, and TLAPS proofs of safety properties of all ten
specifications for every instance. Line numbers are those of the sources the models
were written from; `PROJECT.json` maps every definition to its lines.

## 1. The system

A program logs a *record* (message, level, instant, attributes, job, identity
chain). A *sink* takes records. Sinks write to a file, put a queue in front of
another sink, or pass the record to a service; a service stamps the record with
what the platform says about its peer and hands it to its own sink. Stored
records can be read back in bounded pages, and a reader may wait for new ones.

| Component | State | Operations | Interacts with |
|---|---|---|---|
| Asynchronous sink, `go/async.go` | queue, counters, closed flag, stop context, `pending` attempt | `Write`, `Counts`, `Close`; goroutines `run` and `boundedDelivery.loop` | calls any inner sink; reports through three callbacks |
| File sink, writing, `go/sink.go` | file, line cap | `Write`, `Close`; the ladder `degraded`/`shrunk`/`cut` | other processes append to the same file |
| File sink, history, `go/history.go` | file, epoch, cursor handed to clients | `Read`, `ReadContext` | shares `FileSink.mu` with `Write` |
| File sink, observation, `go/history.go` | wake-up channel, waiter count | `ObserveContext`, notification by `Write` and `Close` | timers, contexts |
| Framed host, `go/service/` | two token channels, WaitGroup, closeOnce, policy, listener | `Serve`, `Close`, `EnableHistoryPolicy`, one worker per connection | provider (a file sink), identity library, transport |
| Socket sink and server, `go/service.go`, `go/linereader.go` | connection, tracked connections, WaitGroup | `ServiceSink.Write`, `Server.Serve`, `handle`, `Close` | a fallback sink; `Accept` of provenance |
| Provenance, `go/identity.go`, `Server.Accept` | identity chain, bindings, anchor | `Accept`, `Bind`, `Assess`, `Author`, `Relay`, `Disputed` | every service on a record's way |
| Resolved sink, `go/resolved.go`, `go/client_handler.go` | gate, retained binding | `WriteContext`, `Check`, `Resolve` | selection and transport libraries |
| slog handler, `go/slog.go` | slices of group names | `WithGroup`, `WithAttrs`, `Handle` | a sink |
| Clients, `go/client/` | none | `WriteContext`, `LogContext`, `ReadContext`, `ObserveContext`, `validateHistoryPage` | generated clients, transport |
| Generated codec, `go/abstraction/logging/rec.go` | none (reader position and depth during a call) | encoders and decoders of eleven structures, generated clients, dispatchers | peers in five languages; the host's worker |

What is hard in it:

* **Interleavings.** Writers, the delivery goroutine, the goroutine that may be
  stuck in the inner sink and Close all meet in the asynchronous sink; observers
  meet writes; the accept loop meets Close; resolvers meet each other at a gate;
  two `Handle` calls meet in one backing array.
* **Failure.** An inner sink that never returns; a write that stops in the middle
  of a line; a server that dies between accepting and reading; a listener that
  breaks; a service that cannot attest its peer.
* **Ordering and time.** A delivery that times out and whose result comes later; a
  Close whose deadline passes between two reads of the state; authorisation
  decided before a wait of thirty seconds; deferred calls in reverse order.
* **Limits.** The queue, the waiter slots, the two kinds of token, the page
  budgets, the line cap, the nesting depth.
* **Edges of values.** An integer at the end of its word, an offset that carries a
  date over the end of a year, half a surrogate pair, a character cut in two; and
  one frame that sender and receiver check in different ways.

`PROJECT.json` lists each of these as a hazard at its line, with the properties
that watch it.

### What makes each component correct

* *Asynchronous sink*: no record is lost or counted twice; delivery is in order;
  Close returns whatever the inner sink does, with counts that stay true.
* *Line shrinking*: a stored line fits the cap, ends at a character, and says what
  it lost; identity goes last.
* *History*: a client that follows continuations sees the stored lines exactly
  once, in order; refusals do not move it.
* *Observation*: no lost wake-up, no leaked slot, no channel closed twice.
* *Host*: tokens are exact, shutdown is ordered, no page on a withdrawn right.
* *Forwarding*: a torn line never damages another record; nothing vanishes between
  connection and fallback.
* *Provenance*: trust comes only from services the assessor relies on.
* *Resolved sink*: one binding for ever; nobody hangs behind another's resolution.
* *slog handler*: a key carries its own groups.
* *Codec and dispatch*: what is stored is what was written; what cannot be written
  faithfully is refused before it is sent, and nothing else; no frame brings the
  host down; an answer is the one its handler gave.

## 2. Modules and how they correspond to the code

One module per component. An action is one critical section, one channel
operation or one call into something external, so every interleaving the Go
scheduler can produce between them is a behaviour of the model. Variables keep
the names of the fields they stand for; variables commented *history* are not in
the code and only record what happened, for the properties. Operators that stand
immediately before a definition and carry a similar name (`RoomOffByOne` before
`Room`) are wrong variants of it; no specification uses them. They are what each property is
tried against, to show that it can fail.

**`AsyncSink`** (`go/async.go`). `queue`, `closed`, `counts`, `stop` and `pending`
are the fields; `run` and `loop` say where the two goroutines are; `closer[c]`
where each Close is. `bounded` is whether `WriteTimeout` is positive, chosen in
`Init`. `Write` is `WriteClosed`, `WriteEnqueue` or `WriteDrop` (one critical
section each) and later `OnOverflow`. `run` goes `Take`, `Abandon` or `Proceed`,
the delivery, `Account`, `Report`. With a timeout the delivery is
`DeliverBounded`, `DrainPending`/`DrainTimeout`, `Handoff`,
`AwaitResult`/`AwaitTimeout`; `Handoff` is the rendezvous on `attempts` and nothing
else, and `LoopCalls` is `loop`'s call of the inner sink some time after it. Close is `CloseBegin`, then `CloseDrained`, or
`CloseDeadline`, `CloseMeasure`, `CloseCancel`, `CloseReturn`: the length of the
queue is read in one critical section and the cancellation comes after it, as in
the code. The inner sink is external and may succeed, fail or hang.
**`DeliveryLedger`** is the promise without goroutines: a bounded backlog settled
oldest first, each record exactly once, arrivals in order. **`MCAsyncSink`** gives
the refinement mapping.

**`HistoryReader`** (`go/history.go`, `go/sink.go`, `go/client`). The file is a
sequence of cells, so that an offset can fall inside a line and a write can stop
in one. `readHistoryLocked` is the set of answers to a request: checks of limits,
file identity and cursor, then one page with its record and byte budgets. Torn
writes, appends by other processes, replacement of the file, Close and reopening
are actions. `validateHistoryPage` is the client's own check.

**`HistoryObserver`** (`go/history.go`, `go/sink.go`). Of the file it keeps the
size, of a cursor the position. Channels are numbered; closing an already closed
one sets `panicked`.

**`ServiceHost`** (`go/service/service.go`, `serve.go`). `serve` is the goroutine
in `Serve`, `pc[c]` the worker of each connection; `once` makes the critical
section of `closeOnce` visible, so that a second Close waits for the first.
`serve.go`, which closes the provider after `Serve` returns, is `SinkClose`.

**`LocalForwarding`** (`go/service.go`, `go/linereader.go`). Three cells per
record: a failed write leaves none, one or both body cells behind, without the
newline. The server may close, crash and listen again.

**`LineShrink`** (`go/sink.go`). A message is a sequence of bytes with "a character
starts here" and an encoding cost; other fields are sizes. **`MCLineShrink`**
gives plain, escaped and wide characters.

**`Provenance`** (`go/identity.go`, `Server.Accept`, the ladder of `go/sink.go` as far
as it touches a chain). Services run this code: `Accept` and `AcceptUnattested` are
what one does to a record, `Shrink` what its file sink may do. A party the assessor
relies on (an authorised relay, the owner of a held key) hands on what it got. Any
other party may, in `Submit` and `Rewrite`, hand on a chain cut short, with a claim,
a genuine-looking or a forged stamp of its own on top, with a subject replaced, or
another content under the chain; it cannot make a MAC under a key that is not its
own. A MAC is a free constructor over key and bound content. **`MCProvenance`** makes
the parties nobody relies on interchangeable.

**`ResolvedSink`** (`go/resolved.go`, `go/client_handler.go`) and **`SlogGroups`**
(`go/slog.go`), the latter with Go's slice semantics: an array, a length, a
capacity that grows as `append` grows it, which is Go's exactly for up to sixteen
strings. `WithGroup` and `WithAttrs` both clone; the clone has no room, the array
`WithGroup` appends into may have. `WithAttrs` is given one attribute that is a group,
and the new handler keeps the key it made. **`MCSlogGroups`** makes loggers, and keys,
interchangeable. The names of `ResolvedSink` and
`SlogGroups` carry the prefixes `Resolved` and `Groups` because one proof module
extends each together with another component.

**`WireText`, `Timestamps`, `WireCodec`, `WireSkip`** (`go/abstraction/logging/rec.go`). The
leaves first: a string is its bytes, with the escapes, the surrogate pairs and the
UTF-8 test of the reader; an integer is its digits and an accumulator that wraps;
a timestamp is its numbers, with the carries of `normalizedTimestamp`, beside the
reference definition of the instant it means (`ValidTime`, `Instant`: day numbers,
no carries). The
encoders and decoders are generated from one pattern, so the pattern is written
once (`EncodeStruct`, `DecodeStruct`) and each structure is a
table that carries the name of its function (`encRecord`, `decodeRecord`).
Structures hold one another to a fixed depth, and there is an operator for each
level (`EncodeAttestation`, `EncodeRecord`, `EncodePage`, `Encode`). Only the walk
over a value that nobody reads by type, `skipValue`, nests without a bound: it is a
parameter of `WireCodec`, defined recursively in `WireSkip`, so that the rest of
the codec can be proved about. A
document is a tree; white space and the order of members are left out. Strings
other than the message are opaque, valid or not UTF-8.

**`FramedCall`** (`go/client`, the clients and dispatchers of `rec.go`, the worker of
`go/service/service.go`, `DecodeRecord`). `pc` and `result` are the caller, `host`
the worker of the call's connection. `Refuses`/`Sends` are the generated client up
to the transport, which may fail, lose a reply or hand over another call's
(`TransportFails`, `ReplyLost`, `Receives(c, d)`). `HostRefuses`/`HostAccepts` are
routing and dispatch, `ReceiverWrites` is `receiver.Write` with its second
encoding and `Accept`, `Invokes` is `invokeRead`/`invokeObserve` with every way a
provider may answer or panic. `encoding/json` and the instant type of another
repository are external; on a text of the generated writer they read what the
generated reader reads. **`MCFramedCall`** holds the values: every one-byte message
and the edges of UTF-8, dates at every kind of month and year end under offsets of
both signs, numerals around the ends of the word, one to three escapes in every
combination, nesting up to and past the limit, envelopes with one thing wrong.

The components meet at narrow interfaces, and each model takes the other side as
nondeterministic: the inner sink of `AsyncSink` is any sink; the observation of
`ServiceHost` returns some page or refusal, which `HistoryReader` and
`HistoryObserver` detail; `LocalForwarding` hands a record on, and `Provenance`
says what `Accept` does to it. `FramedCall` composes client, codec, dispatcher and
worker of one call, and leaves tokens and shutdown to `ServiceHost`.

The module `XProofs` holds the theorems about `X`, with the inductive invariant
they need; `WaitersProofs` those about `HistoryObserver` and `ResolvedSink`,
`ReadBackProofs` those about `HistoryReader` and `Timestamps`, `RecordProofs` those
about `LineShrink` and `SlogGroups`. Section 4 describes them.

## 3. Runs

| Run | Question | Bounds | Distinct states |
|---|---|---|---|
| `async_sink` | counts, hand-off, callbacks, refinement, termination of Close | capacity 1, one Close, four writes, with and without write timeout | 332 843 |
| `history_reader` | pages against the stored lines | two opens, seven cells, three kinds of line, pages of two records or four bytes | 145 016 |
| `history_observer` | waiting and waking | three observers, two slots, two writes | 13 244 |
| `host` | admission, shutdown, authorisation | three connections, two call tokens, one observer token | 482 385 |
| `forward` | socket sink and server | three records, two connections | 123 554 |
| `forward_close` | "closes every connection it accepted" | one record, one connection | violated |
| `line_shrink` | the ladder | all messages of up to three characters, all field sizes of {0, 1, 4}, nine caps | 89 335 |
| `provenance` | the identity chain | four parties, three services, one shrink or other content, one submission | 1 923 048 |
| `resolved` | the gate | three callers, two resolutions | 2 221 |
| `slog_groups` | keys and groups | two loggers, five handlers, four groups, one `WithAttrs` | 6 996 267 |
| `slog_keys` | keys are the attribute's own | four handlers, three groups | violated |
| `framed_call` | codec, dispatch and replies, end to end | 2 813 scripts of one or two calls, words of 18 bits, depth 9 | 61 327 |

Why the bounds are enough. Four records against one slot: one in flight and timed
out, one waiting for it, one queued, one dropped, and Close in the middle of any
of it. Seven cells hold a torn line joined to another writer's line and still a
line behind them; a spaced line is longer in the file than its encoding. Three
observers on two slots: one is refused. Two call tokens and three connections:
one is turned away while two workers run; one observer token is contended by two
observers. Two connections are needed for a torn line, a reconnect and a record
that follows. Three nested groups are where Go's append first leaves spare
capacity (1, 2, 4). Five handlers of up to four groups put two siblings behind one
with room in its array: without the clone both would write the same element, and
the first would lose its last group. One shrink or change of content is enough to
break a binding; three services put a relay, a keyed one and a stranger in every
order, and one submission anywhere on the way forges, cuts or alters what is there.
Words of 18 bits keep the proportions of 64: the largest
value ends in a digit that makes `max \div 10` times ten fall short of it, one more
digit wraps an unguarded accumulator, and half a word is still a range of its own
for the version. Depth 9 is two levels above the deepest record of a page
(frame, result, page, list, record, chain, hop), so that the limit is met only by
what a peer adds. One deviation from an ordinary call at a time is enough, since
members are read independently; the pairs of calls are there for mixed-up replies.
Deadlock checking is off where a program may just stop (everything closed, or the
bound on records reached), on for `ResolvedSink`, whose callers always may
call again.

What the properties say, one line each (the modules state them in full):

* `TypeOK` of `AsyncSink`: types, and the queue within its capacity. The type
  invariants of the other modules are conjuncts of `ReadsExactly`,
  `WaitersCounted`, `SlotsExact`, `InOrderOrFallback`, `LossIsNamed`,
  `VouchedByTheTrusted`, `OneBinding`, `GroupsKept` and `HostSurvives`.
* `Accounting`: accepted = written + failed + abandoned + queued + in flight.
* `CloseCountsFinal`: counts returned by a drained Close, or any Close with a
  write timeout, never move again.
* `NeverWaitsOnInner`: the send on the unbuffered attempts channel finds its
  receiver ready.
* `CallbacksAlternate`, `OverflowOncePerRun`: every transition is told once.
* `LateStartsBounded`: at most one delivery begins after the cancellation, with a
  write timeout at most two: a record that `loop` had received before and whose
  delivery timed out, and the next one, which `run` had taken past its check.
* `CloseNumberWithinOne`: the number in `ErrCloseDeadline` may be short by the one
  record `run` holds, never by more.
* `ImplementsLedger`: every step is a ledger step or none.
* `CloseReturns`, `AcceptedSettles`: termination with an inner sink that hangs.
* `ReadsExactly`, `ClientAccepts`, `OneByOneAdvances`: pages are the stored lines;
  the client's validation never rejects a page; asking for one record at a time
  gets past every record that fits.
* `WaitersCounted`, `WakeupsExact`, `NotifiedEnds`, `ObservationEnds`: slots,
  no channel closed twice, wake-ups, with and without timers.
* `SlotsExact`, `ShutdownIsOrdered`, `PagesAreAuthorized`, `ServeEnds`: tokens, the
  order of shutdown and the error of `Serve`, the recheck after waiting, and that a
  stopped host returns drained.
* `InOrderOrFallback`, `SubmittedArrives`, `CloseEndsOnceTracked`: the stream of a
  connection, nothing forgotten, duplicates only where a connection ended without
  a newline, arrival, and Close.
* `LossIsNamed`, `EvidenceKept`, `LadderDescends`: whole characters and named
  losses, nothing given up that fits, termination.
* `VouchedByTheTrusted`, `AuthorIsTheWriter`, `BoundExactly`: where trust comes from,
  whatever was submitted; whom the author found is; what a binding still verifies.
* `OneBinding`, `WaitersReturn`; `GroupsKept`.
* `StoredAsWritten`: message, integers, chain, attributes and instant reach the
  provider unchanged through three encodings, and the service only adds.
* `RefusesExactly`, `SentIsAccepted`: a client refuses exactly what has no faithful
  text, and what it lets through the dispatcher never refuses for its form, nor
  the client the reply.
* `ForeignReadExactly`: another implementation's spelling is read as it is meant, or
  refused where it means nothing. The meaning is a reference definition: UTF-8 by
  byte ranges, instants by day numbers, integers without a word size.
* `HostSurvives`: what a reader accepts, the unprotected second encoding can write.
* `AnswerIsTheHandlers`: a page is the provider's own, a failure has a code, another
  service's reply is never taken.

### Fairness

Weak fairness on goroutines that can run (the Go scheduler is fair), on timers
and on context deadlines that the code sets or its documentation asks callers to
set. None on: writers, a caller that closes or cancels, the inner sink, the
resolution of a service, a client that hangs up, a process that dies.
`HistoryObserver`'s `Spec` leaves out the timers as well, so that `NotifiedEnds`
shows the notification at work; `ObservationEnds` adds them as a hypothesis. In
`ServiceHost` workers are fair throughout: an observation has a timer of at most
thirty seconds and a request a context of thirty-five. That a cancelled host also
wakes its waiting observers before their timers is therefore not what `ServeEnds`
shows; `NotifiedEnds` shows it of a sink that is closed. A right that was withdrawn
stays withdrawn in that model, and of the two ways to read only the one that waits
is checked again after it. `FramedCall` states safety
only: a write has no answer and a transport may lose anything.

## 4. Proofs

Checked with tlapm. All theorems are about the specification without fairness, for
every value of the constants; an invariant found for a proof was first checked
with TLC on the instance of the component's run.

| Module | Theorem | States |
|---|---|---|
| `AsyncSinkProofs` | `TypeCorrect` | `[]TypeOK` |
| | `AccountingInvariant` | `[]Accounting` |
| | `HandoffNeverWaits` | `[]NeverWaitsOnInner` |
| | `CloseIsFinal` | `[]CloseCountsFinal` |
| | `LateStarts` | `[]LateStartsBounded` |
| | `CallbackOrder` | `[]CallbacksAlternate` |
| | `OverflowReportedOnce` | `[]OverflowOncePerRun` |
| | `CloseNumberBound` | `[]CloseNumberWithinOne` |
| | `LedgerRefinement` | `ImplementsLedger` |
| `WaitersProofs` | `WaitersCountedInvariant` | `[]WaitersCounted` |
| | `WakeupsExactInvariant` | `[]WakeupsExact` |
| | `OneBindingInvariant` | `[]OneBinding` |
| `ReadBackProofs` | `ClientKnowsInvariant` | `[]ClientKnows`, the inductive invariant of `HistoryReader` |
| | `ReadsExactlyInvariant` | `[]ReadsExactly` |
| | `ClientAcceptsInvariant` | `[]ClientAccepts` |
| | `OneByOneAdvancesInvariant` | `[]OneByOneAdvances` |
| | `NormalizedTimestamps` | a timestamp is accepted exactly when it is a date of the calendar in range, and its normal form is the same instant |
| `ServiceHostProofs` | `SlotsExactInvariant` | `[]SlotsExact` |
| | `ShutdownOrder` | `[]ShutdownIsOrdered` |
| | `PagesAuthorizedInvariant` | `[]PagesAreAuthorized` |
| `LocalForwardingProofs` | `InOrderInvariant` | `[]InOrderOrFallback` |
| `RecordProofs` | `LossIsNamedInvariant` | `[]LossIsNamed` |
| | `EvidenceKeptInvariant` | `[]EvidenceKept` |
| | `LadderDescent` | `Descends`, the first half of `LadderDescends` |
| | `GroupsKeptInvariant` | `[]GroupsKept` |
| `ProvenanceProofs` | `AuthorIsTheWriterInvariant` | `[]AuthorIsTheWriter` |
| | `BoundExactlyInvariant` | `[]BoundExactly` |
| | `VouchedByTheTrustedInvariant` | `[]VouchedByTheTrusted` |
| `FramedCallProofs` | `HostSurvivesInvariant` | `[]HostSurvives` |
| | `StringsReadBack` | what `esc` writes of any bytes `str` reads as those bytes, or refuses if they are not UTF-8 |

What is assumed is the named `ASSUME` of each component and nothing else: limits
and bounds are integers or naturals (`AsyncAssumption`, `ForwardingAssumption`,
`ResolvedAssumption`, `GroupsAssumption`), the clients of `HistoryObserver` and the
connections of `ServiceHost` are finite sets (`ObserverAssumption`,
`HostAssumption`: their counters count them), messages are sequences of bytes and
sizes naturals (`ShrinkAssumption`), a line has at least one
byte in the file and one encoded, and page limits are positive
(`HistoryAssumption`), relays and key holders are parties
(`ProvenanceAssumption`), every call of `FramedCall` is one of its five operations
(`CallAssumption`), a word has more than four bits and the limit on nesting is a
natural (`WordAssumption`, `DepthAssumption`). Of `skipValue` nothing is assumed:
it may accept or refuse whatever it likes. The sets of closers, callers, loggers,
calls and parties may be infinite. None of the properties is inductive by itself.

**`AsyncSink`.** `Invariance` proves `TypeOK /\ ControlInv /\ HandoffInv` together,
and every other theorem adds a conjunct to it:

* `ControlInv`: `run` holds a record exactly at the program points between
  receiving and accounting for it, the bounded points are reached only with a
  timeout, and past the end of the range the queue is closed and empty. The type
  of `counts` and `fate` depends on it (`cur` is a record when it is accounted
  for), and so does `Accounting` (in flight is 1 exactly there).
* `HandoffInv`: at most one delivery is outstanding, in the loop or as a result
  not yet received, and `run` knows which: the one it awaits or the one in
  `pending`. At the hand-off `pending` is 0, so the loop is receiving. This is the
  reason the send needs no way out, and the property a change to `deliver` would
  most easily break.
* `LateInv`: the deliveries that began after the cancellation, the record `run` took
  past its check and has not handed on, and the one `loop` received and has not
  begun are together at most two, at most one without a write timeout; after the
  cancellation the check of `s.stop` adds none.
* `CallbackInv`: the callback `run` owes is the difference between the flag
  `Failing` and the callbacks made.
* `CloseInv`: a Close whose counts must be final returned after `run` did, and
  after that no action changes a count: with the queue closed a write is refused.
  With `Accounting` and `ControlInv` this gives `CloseCountsFinal`.
* `NumberInv`: until the cancellation the queue only gets shorter than Close
  measured it; after it, what is queued or about to be checked is what may still be
  abandoned. This gives `CloseNumberWithinOne`.

`LedgerRefinement` maps the backlog of the ledger to the record `run` holds
followed by the queue (`Backlog` of `MCAsyncSink`), and shows for each action that
it is one ledger step or none. `ArrivalInv` carries it: what the inner sink took is
older than everything it may still take, a delivery taken for a success reached
it, and one that was given up on is settled as failed.

**`HistoryObserver`.** Every channel but the current one is closed, and the current
one only by Close, after which nothing is written (`ChannelInv`): so none is closed
twice. An observation on an open channel waits on the current one and has the mark
of the last write (`WaitInv`): so no wake-up is lost. Slots are the observations
that are not idle (`SlotsInv`).

**`HistoryReader`.** The invariant is `ClientKnows`: a continuation that belongs to
the open instance of the file stands at its start or behind a newline, and the
lines the client has seen are exactly those of the bytes before it. It holds over
torn writes and lines of other writers because a cursor is handed out only behind
a complete line and the file only grows; a replaced file is another instance. Its
step is the loop of `readHistoryLocked`: `TurnKeeps` is one turn (the offset behind
the lines taken, both budgets kept, every line of the page the next one stored) and
`ScanFacts` the loop. What the recursive functions and the folds of the library
compute is unfolded at an appended element by a least counterexample
(`LeastNatural`, from `WFMin`), after the iterates are shown to exist.
`ReadAnswers` says what every answer is, and the three properties follow from it:
the page is the next stored lines (`ReadsExactly`), it is within its budgets and
moves on, so the client's check lets it through (`ClientAccepts`), and one record at
a time gets past every record that fits (`OneByOneAdvances`).

**`Timestamps`.** `NormalizedTimestamps` relates the carries of the generated code,
which move a time of day by its offset over the ends of days, months and years, to
day numbers: one day down or up is the preceding or following day number, also at
the end of February and of a year, and then the instant in minutes is the same. A
time the code refuses is one whose date does not exist or whose normal form leaves
the years 0 to 9999. It is a theorem about every date, hour and offset, where the
run takes those at the ends of months and years.

**`ServiceHost`.** Who holds which token, as sets (`CountInv`); the one connection
the accept loop holds (`HeldInv`); how far the shutdown got and what is over by
then (`StopInv`), which is what makes `SinkClose` come after the last use; and that
a page read against the policy belongs to a worker whose policy goes on refusing
(`PageInv`).

**`LocalForwarding`.** `PipeInv` says what is in a pipe as long as its handler may
still read: three cells for each record sent whole and not delivered, in order;
only the last record may lack its newline, or be followed by one cell of a torn
one, and only if the client hung up. From it `FirstLine` and `RestLine` show that
the line a handler reads, and what the end of a stream leaves it, are the next
record sent or nothing; `FramesAdvance` and `FramesExtend` that reading a line and
writing one keep the shape. That a failed write drops its connection is the
premise without which a second record would run into the torn one. `FateInv` says
where each record went. `CountInv` gives that the WaitGroup is the number of
handlers, hence never negative, also across a crash.

**`LineShrink`.** The ladder is built first, in order, and then climbed
(`LadderInv`); the record at hand has the fields and the marks of its rung
(`RungInv`), which name what it lost; its message is a prefix that ends at a
character (`MsgInv`); and the rungs left behind do not fit even without a message
(`FailInv`). For `EvidenceKept` the lines that are not on the ladder matter too: a
step is left out when its mark is no shorter than what it drops, and
`StepsNotTaken` shows that such a line is no smaller than one that was tried.

**`Provenance`.** What every service took and passed on is remembered, and the
invariant says where the chain at hand can come from. What a service stamped ends
with its stamp, about the party it had the record from, bound to what it saw if it
has a key (`ServedInv`). A MAC anywhere in a chain is bogus or one its owner made
(`MacInv`): this is the only thing assumed of forgers, and it survives cutting,
altering and extending a chain. A relay holds what a service passed to it, perhaps
shrunk (`HandedInv`). An anchor is the holder's own last hop (`AnchorInv`), and a
record with at most one hop is in the hands of a party it may have come from
(`OriginInv`). `VouchedByTheTrusted` needs what the recursive walk of `Assess`
computes: the walk is shown to exist and to give each hop the standing that
`Standing` gives it from the one above; trust is then followed up the chain to the
anchor or the binding it comes from. No bound of the model, on services, on
submissions or on the size of forged chains, is used.

**`ResolvedSink`.** No token and nobody inside, or one token and the call that put
it there (`GateInv`); a call resolves only while there is no binding, and it is
inside (`BindingInv`).

**`SlogGroups`.** The array of a handler's slice was made by the append of
`WithGroup` or by a clone and belongs to that handler alone (`HandlersInv`,
`OwnInv`); a clone has no room and append leaves some only from three groups on.
The attributes a handler was given are named by its groups as they were
(`AttrsInv`). A slice made by `put` is in an array of its own or in the handler's;
the element behind the handler's groups is its own key unless another goroutine
logs through the same handler (`ViewsInv`). `NewHandlerStep` is what the two ways
of making a handler have in common.

**`FramedCall`.** The panic that would bring the host down is in the second
encoding of a record, outside any recover: a schema other than 1, or a time that
has no text. `HostInv` says that a worker about to write holds a record the writer
can write (`Writable`), and that the frame of a call is one its client prepared
(`CallInv`). `ReadIsWritable` is the reader's side: a record it accepts went through
`Judge` and through `timestamp`, whatever else the document held and in whatever
order its members came (`StructFacts`: a field of an accepted structure is what the
decoder made of a member with its name, or the zero value). `RecordWritten` is the
writer's side: with those two, no member of the record and no hop of its chain is
refused. That the worker handles what its caller asked, the other half of
`HostSurvives`, needs that a service's name written into a frame is the name read
from it (`FrameRouted`).

`StringsReadBack` is about the text of strings, for bytes of any number. `PieceBack`
says that the text of one byte, wherever it stands, is one piece for the reader and
stands for that byte: unchanged, after a backslash, or as four hexadecimal digits.
The texts of the bytes follow each other (`FlattenIs`), so reading from the closing
quote backwards gives back each rest of the string (`WrittenReadsBack`). That the
reader's recursion is defined at all rests on `PieceEnds`: every piece ends behind
its beginning, also in a text that is none of the encoder's.

Only model-checked:

* All liveness: the prover has no support for fairness and ENABLED. Of
  `LadderDescends` the descent is proved, its consequence that the ladder ends is
  not.
* `StoredAsWritten`, `RefusesExactly`, `SentIsAccepted`, `ForeignReadExactly` and
  `AnswerIsTheHandlers`: they need what the text of every integer, map and list
  means and, but for the first, what the recursive walk over opaque values accepts,
  which the proofs take as a parameter. Of the leaves the strings and the timestamps
  are proved.

## 5. Where the text and the code disagree

With a run that shows it:

* `forward_close`: `Server.Close` "closes every connection it accepted"
  (`go/service.go:178`). A connection between `Accept` (149) and `track` (154) is
  missed, and Close then waits for its client to hang up.
* `slog_keys`: `put` appends to the shared handler's slice (`go/slog.go:153`); from
  three groups on, two concurrent `Handle` calls write the same element.

Met while modelling, without a run of their own:

* A stamp is bound so that a reader "can verify the stamp wherever the record went
  afterwards" (`go/service.go:119`), and "independently of the path the record takes
  afterwards" (`go/identity.go:250`). A later service that cannot attest its peer
  sets an attribute (`go/service.go:227`), which every earlier binding covers
  (`go/identity.go:295`), so none of them verifies any more; a file sink that shrinks
  the record ends them too. `BoundExactly` says what does hold: a binding verifies
  exactly if the content is the one that was bound, and both cases are among its
  behaviours.
* `EnableHistoryPolicy` is to be refused once `Serve` runs
  (`go/service/service.go:163`, 167), but nothing sets `h.serving`; `ServiceHost`
  therefore lets a policy come into force while serving.
* `go/async.go:58` says every record handed to `Write` is Dropped or Accepted; a
  record offered after Close (101) is neither.
* `go/async.go:142` says Close returns the number of abandoned records; the number
  (163) is the length of the queue before the cancellation. The record `run` took
  and abandons is not in it, and records delivered in between are.
  `CloseNumberWithinOne` gives the bound that does hold.
* `CONTRACT.md:448` names an oversized *first* record as a refusal; a stored line
  over the page limit refuses a page also when it comes later (`go/history.go:80`).
  `OneByOneAdvances` shows the way round it.
* `go/service.go:71` announces one reconnect before the fallback; the code falls
  back at once and the next record reconnects.
* `CONTRACT.md:144` says the only size refused is a cap below a schema number, an
  instant, a level and the shrink mark; the line at the bottom of the ladder also
  carries the marks that name what was dropped (`go/sink.go:143`), and a job or
  identity whose mark is no shorter stays (149), so a cap a little above that is
  refused too. `EvidenceKept` gives the exact condition.
* A service that cannot attest its peer appends no hop (`go/service.go:232`), so in
  such a record positions in the chain (`go/identity.go:193`, 217) no longer say
  who attested whom. If it is an authorised relay, the next service's stamp about it
  lends trust to whatever it passed on, a stamp that a stranger submitted included:
  the exception `Relayed` of `VouchedByTheTrusted` and `AuthorIsTheWriter`. And a
  service that gets a record unstamped, cannot attest its peer, or has its file sink
  drop the chain (`go/sink.go:167`), is itself the party the next stamp at hop 1
  is about: `AuthorIsTheWriter` counts it among those the record came from.
* `go/service.go:210` says of `Accept` that nothing is rewritten; for a record
  without an identity it sets `logging.writer_claim` (224), and replaces the value
  of a writer that had set that attribute itself. `StoredAsWritten` names it as the
  one attribute whose value may change.

## 6. Not modelled

* Level names (`go/record.go`): a table without state.
* `MultiSink`, `DiscardSink`, the choice of a destination from the environment: no
  state and no concurrency.
* Peer credentials and account separation: one system call each; their result is
  a nondeterministic input.
* The generated code in the four other languages: the same tables, written by a
  generator kept elsewhere; `FramedCall` meets them as peers with other spellings.
  Of `rec.go`: indentation, the order of keys and members, the helpers for lists of
  strings and maps of raw values, which no structure uses, and the `WriteFrame` of
  the two exchange dispatchers, which nothing calls.
* The C++ client header and the replay driver: a thin wrapper and a development
  tool.
* In `Provenance`, several records at a time: a stamp copied from another record is
  an `asserted` hop like a forged one, and its MAC is over another content.
* In `SlogGroups`, levels, clock and rendering of values; in `ServiceHost`, the
  flags and files `serve.go` reads.

## 7. Plan

Order of work, most important behaviour first; all of it is done.

1. `AsyncSink`, its ledger, its refinement and its proofs.
2. `HistoryReader` and the client's validation.
3. `HistoryObserver`.
4. `ServiceHost`.
5. `LocalForwarding` and `LineShrink`.
6. `Provenance`.
7. `ResolvedSink` and `SlogGroups`.
8. `WireText`, `Timestamps`, `WireCodec` and `FramedCall`: a call end to end.
9. Proofs of the safety properties of all components, of the refinement of
   `DeliveryLedger`, of the normal form of timestamps and of the text of strings.

Left:

* `FramedCall`: that a written record reads back as itself, which is what
  `StoredAsWritten` rests on: strings do, integers, chains and attributes are left.
* The Python `ServiceHandler` (`py/abstraction/logging/handler.py`): its lock, its
  two counters and the callbacks outside the lock.
* Composition of `ServiceHost` with `HistoryObserver`: an abstract observation
  that the detailed one implements, so that the host's drain rests on it.
