----------------------------- MODULE FramedCall -----------------------------
(***************************************************************************)
(* A call through the logging service, end to end: the clients of          *)
(* go/client, the generated clients and dispatchers of rec.go, and the     *)
(* worker of go/service/service.go that routes a frame to a dispatcher and *)
(* the answer back.  Every call has a connection of its own.  The          *)
(* transport and the peer's identity belong to the identity library: the   *)
(* transport may fail at any moment, lose a reply, give up waiting, or     *)
(* hand a caller the reply of another call.                                *)
(*                                                                         *)
(* Slots, shutdown and authorization are ServiceHost's subject, what a     *)
(* page holds is HistoryReader's.                                          *)
(***************************************************************************)
EXTENDS WireCodec, FiniteSets

CONSTANTS
  Calls,    \* the calls of one behaviour
  Scripts,  \* what each of them asks for
  Answers   \* what the provider's Read and Observe may do

Operations == {"write", "read", "observe", "foreign", "idle"}
ASSUME CallAssumption == \A s \in Scripts : \A c \in Calls : s[c].op \in Operations

VARIABLES
  request,  \* what each call asks for
  pc,       \* where its caller is
  result,   \* what its caller was told
  frame,    \* the document it sent
  host,     \* where its worker is
  refusal,  \* history: the word with which the dispatcher refused it
  args,     \* the arguments the dispatcher read
  gave,     \* history: what the provider did
  reply,    \* the document the dispatcher answered with
  stored,   \* the record the provider was given
  crashed,  \* the host's process panicked
  mixed     \* history: a caller was handed another call's reply

callerVars == <<pc, result, frame>>
hostVars == <<host, refusal, args, gave, reply, stored>>
vars == <<request, callerVars, hostVars, crashed, mixed>>

None == [kind |-> "none"]

(* What a caller is told.                                                  *)
Done == [kind |-> "nil"]
Page(p) == [kind |-> "page", page |-> p]
Error(kind, word) == [kind |-> kind, word |-> word]

Init ==
  /\ request \in Scripts
  /\ pc = [c \in Calls |-> IF request[c].op = "idle" THEN "returned" ELSE "start"]
  /\ result = [c \in Calls |-> None]
  /\ frame = [c \in Calls |-> None]
  /\ host = [c \in Calls |-> "idle"]
  /\ refusal = [c \in Calls |-> ""]
  /\ args = [c \in Calls |-> None]
  /\ gave = [c \in Calls |-> None]
  /\ reply = [c \in Calls |-> None]
  /\ stored = [c \in Calls |-> None]
  /\ crashed = FALSE /\ mixed = FALSE

-----------------------------------------------------------------------------
(* The caller.                                                             *)

Sink == "abstraction.logging/sink@1"
Reader == "abstraction.logging/reader@1"
Observer == "abstraction.logging/observer@1"

(* The service, method and argument type of each operation.                *)
Route == [write   |-> <<Sink, "Write", "WriteArguments">>,
          read    |-> <<Reader, "Read", "ReadArguments">>,
          observe |-> <<Observer, "Observe", "ObserveArguments">>]

Versioned(r) ==
  IF r.word = "" /\ r.value.version # 1 THEN Refuse("unknown_version") ELSE r
servicePayload(doc) == Versioned(Read("Frame", doc, 0))

(* The generated clients: encode (a panic is a refusal), wrap, and check   *)
(* the frame before the transport sees it.                                 *)
Frame(op, arguments) ==
  Document(Encode("Frame", [version |-> 1, service |-> Route[op][1],
                            method |-> Route[op][2],
                            arguments |-> arguments]).value)
Checked(doc, r) == IF r.word = "" THEN Ok(doc) ELSE Refuse(r.word)
Sendable(doc) == Checked(doc, servicePayload(doc))
Wrapped(op, r) == IF r.word # "" THEN r ELSE Sendable(Frame(op, r.value))
PreparesUnchecked(op, a) == Ok(Frame(op, Encode(Route[op][3], a).value))
Prepares(op, a) == Wrapped(op, Encode(Route[op][3], a))

Return(c, answer) ==
  /\ pc' = [pc EXCEPT ![c] = "returned"]
  /\ result' = [result EXCEPT ![c] = answer]

(* WriteContext, ReadContext, ObserveContext: a context that is done.      *)
ContextDone(c) ==
  /\ pc[c] = "start" /\ request[c].op # "foreign"
  /\ Return(c, Error("context", ""))
  /\ UNCHANGED <<request, frame, hostVars, crashed, mixed>>

WaitRefused(r) == r.op = "observe" /\ r.args.wait_ms \notin 0 .. 30000

Refuses(c) ==
  /\ pc[c] = "start" /\ request[c].op # "foreign"
  /\ IF WaitRefused(request[c]) THEN Return(c, Error("argument", "wait_ms"))
     ELSE \E r \in {Prepares(request[c].op, request[c].args)} :
            r.word # "" /\ Return(c, Error("refused", r.word))
  /\ UNCHANGED <<request, frame, hostVars, crashed, mixed>>

Sends(c) ==
  /\ pc[c] = "start" /\ request[c].op # "foreign" /\ ~WaitRefused(request[c])
  /\ \E r \in {Prepares(request[c].op, request[c].args)} :
       /\ r.word = ""
       /\ pc' = [pc EXCEPT ![c] = "sent"]
       /\ frame' = [frame EXCEPT ![c] = r.value]
  /\ UNCHANGED <<request, result, hostVars, crashed, mixed>>

(* The record LogContext builds for an application.                        *)
Unattributed(by) ==
  [by |-> by, verified |-> FALSE, hop |-> 0, program |-> "", host |-> "",
   user |-> "", exe |-> "", uid |-> -1, gid |-> -1, pid |-> -1, key |-> "",
   mac |-> ""]
LogContext(now, level, message, attributes) ==
  [schema |-> 1, time |-> now, level |-> level, msg |-> message,
   identity |-> <<Unattributed("self")>>, job |-> "", attrs |-> attributes]

(* Another implementation of the protocol, with a spelling of its own.     *)
ForeignSends(c) ==
  /\ pc[c] = "start" /\ request[c].op = "foreign"
  /\ pc' = [pc EXCEPT ![c] = "sent"]
  /\ frame' = [frame EXCEPT ![c] = request[c].doc]
  /\ UNCHANGED <<request, result, hostVars, crashed, mixed>>

(* A one-way WriteFrame returns when the frame is handed over; success is  *)
(* no receipt.  Any call may end by a transport error or a timeout, whose  *)
(* frame may have arrived all the same.                                    *)
WriteReturns(c) ==
  /\ pc[c] = "sent" /\ request[c].op = "write"
  /\ Return(c, Done)
  /\ UNCHANGED <<request, frame, hostVars, crashed, mixed>>
TransportFails(c) ==
  /\ pc[c] = "sent"
  /\ Return(c, Error("transport", ""))
  /\ UNCHANGED <<request, frame, hostVars, crashed, mixed>>

(* serviceResponse: the payload, the service's error, or a refusal.        *)
ResponseError(r) ==
  IF r.word # "" THEN Error("refused", r.word)
  ELSE IF r.value.code = "" THEN Error("refused", "invalid_error")
  ELSE Error("service", r.value.code)
MatchesAny(v, op) == TRUE
Matches(v, op) == v.service = Route[op][1] /\ v.method = Route[op][2]
Response(r, op) ==
  IF r.word # "" THEN Error("refused", r.word)
  ELSE IF ~Matches(r.value, op) THEN Error("mismatched", "")
  ELSE IF r.value.ok THEN [kind |-> "payload", tree |-> r.value.payload]
  ELSE ResponseError(Read("Error", Document(r.value.payload), 1))
serviceResponse(doc, op) == Response(Versioned(Read("Reply", doc, 0)), op)

(* validateHistoryPage of the client package.  Of a record's size only its *)
(* message counts here.                                                    *)
ValidLimits(a) == a.max_records \in 1 .. 256 /\ a.max_bytes \in 1 .. 65536
SizeOf(records) ==
  FoldLeft(LAMBDA n, r : n + Len(esc(r.msg)), 0, records)
validateHistoryPage(p, a) ==
  IF p.outcome = "page"
  THEN /\ ValidLimits(a)
       /\ Len(p.records) <= a.max_records /\ SizeOf(p.records) <= a.max_bytes
       /\ p.next # ""
       /\ p.records # <<>> => p.next # a.cursor
       /\ ~p.at_end => p.records # <<>>
  ELSE p.records = <<>> /\ p.next = a.cursor /\ ~p.at_end

ResultType(op) == IF op = "read" THEN "ReadResult" ELSE "ObserveResult"
Validated(decoded, r) ==
  IF decoded.word # "" THEN Error("refused", decoded.word)
  ELSE IF validateHistoryPage(decoded.value.value, r.args) THEN Page(decoded.value.value)
  ELSE Error("invalid", "")
Understood(response, r) ==
  IF response.kind # "payload" THEN response
  ELSE Validated(Read(ResultType(r.op), Document(response.tree), 1), r)
Understands(doc, r) == Understood(serviceResponse(doc, r.op), r)

Receives(c, d) ==
  /\ pc[c] = "sent" /\ request[c].op \in {"read", "observe"}
  /\ host[d] = "replied"
  /\ Return(c, Understands(reply[d], request[c]))
  /\ mixed' = (mixed \/ c # d)
  /\ UNCHANGED <<request, frame, hostVars, crashed>>

-----------------------------------------------------------------------------
(* The host's worker.                                                      *)

(* serviceReply: the error as a code, and a frame that its own reader      *)
(* accepts, or no frame at all.                                            *)
ErrorOf(err) ==
  CASE err.kind = "service"  -> [code |-> IF err.word = "" THEN "handler_error" ELSE err.word,
                                 message |-> err.message]
    [] err.kind \in {"dispatch", "refused"} -> [code |-> err.word, message |-> ""]
    [] OTHER -> [code |-> "handler_error", message |-> "handler failed"]
Answerable(doc) == Checked(doc, Read("Reply", doc, 0))
serviceReply(v, outcome) ==
  LET ok == outcome.kind = "payload"
  IN Answerable(Document(Encode("Reply",
       [version |-> 1, service |-> v.service, method |-> v.method, ok |-> ok,
        payload |-> IF ok THEN outcome.tree
                    ELSE Encode("Error", ErrorOf(outcome)).value]).value))

Ends(c) == host' = [host EXCEPT ![c] = "done"]
Replies(c, v, outcome) ==
  \E r \in {serviceReply(v, outcome)} :
    IF r.word # "" THEN Ends(c) /\ UNCHANGED reply
    ELSE /\ host' = [host EXCEPT ![c] = "reply"]
         /\ reply' = [reply EXCEPT ![c] = r.value]

(* ServiceName routes; a name it does not know goes to the sink.           *)
RouteOf(service) == CASE service = Reader -> "read" [] service = Observer -> "observe"
                      [] OTHER -> "write"
Typed(op, r) ==
  IF r.word # "" THEN Error("refused", r.word) ELSE [kind |-> op, args |-> r.value]
Dispatches(v) ==
  LET op == RouteOf(v.service)
  IN IF v.service # Route[op][1] THEN Error("dispatch", "unknown_service")
     ELSE IF v.method # Route[op][2] THEN Error("dispatch", "unknown_method")
     ELSE Typed(op, Read(Route[op][3], Document(v.arguments), 1))
Dispatched(r) == IF r.word # "" THEN Error("envelope", r.word) ELSE Dispatches(r.value)

Unreceived(c) == ~crashed /\ host[c] = "idle" /\ frame[c] # None

(* The frame, or its arguments, are refused; only an exchange is answered. *)
HostRefuses(c) ==
  /\ Unreceived(c)
  /\ \E r \in {servicePayload(frame[c])} : \E d \in {Dispatched(r)} :
       /\ d.kind \in {"envelope", "dispatch", "refused"}
       /\ refusal' = [refusal EXCEPT ![c] = d.word]
       /\ IF d.kind = "envelope" \/ RouteOf(r.value.service) = "write"
          THEN Ends(c) /\ UNCHANGED reply
          ELSE Replies(c, r.value, d)
  /\ UNCHANGED <<request, callerVars, args, gave, stored, crashed, mixed>>

HostAccepts(c) ==
  /\ Unreceived(c)
  /\ \E d \in {Dispatched(servicePayload(frame[c]))} :
       /\ d.kind \in DOMAIN Route
       /\ host' = [host EXCEPT ![c] = d.kind]
       /\ args' = [args EXCEPT ![c] = d.args]
  /\ UNCHANGED <<request, callerVars, refusal, gave, reply, stored, crashed, mixed>>

(* The frame never reaches a worker that reads it.                         *)
FrameLost(c) ==
  /\ Unreceived(c)
  /\ Ends(c)
  /\ UNCHANGED <<request, callerVars, refusal, args, gave, reply,
                 stored, crashed, mixed>>

(* receiver.Write: the peer's identity may be refused; the record is       *)
(* encoded once more, outside any recover, read by the provider's own      *)
(* codec (DecodeRecord), and given the observed peer as its last hop.      *)
PeerRefused(c) ==
  /\ ~crashed /\ host[c] = "write"
  /\ Ends(c)
  /\ UNCHANGED <<request, callerVars, refusal, args, gave, reply,
                 stored, crashed, mixed>>
DecodeRecord(text) == ReadRecord(text, 0)
Peer == [Unattributed("identity/linux") EXCEPT
           !.verified = TRUE, !.exe = "path", !.uid = 7, !.gid = 7, !.pid = 9]
Accept(record) ==
  LET silent == record.identity = <<>>
      chain  == IF silent THEN <<Unattributed("unclaimed")>> ELSE record.identity
      added  == IF silent THEN "logging.writer_claim" :> "absent" ELSE <<>>
  IN [record EXCEPT !.identity = Append(chain, [Peer EXCEPT !.hop = Len(chain)]),
                    !.attrs = added @@ @]
Received(text) == IF text.word # "" THEN text ELSE DecodeRecord(text.value)
ReceiverWrites(c) ==
  /\ ~crashed /\ host[c] = "write"
  /\ Ends(c)
  /\ \E text \in {EncodeRecord(args[c].record)} :
       \E record \in {Received(text)} :
         /\ crashed' = (text.word # "")
         /\ stored' = IF record.word # "" THEN stored
                      ELSE [stored EXCEPT ![c] = Accept(record.value)]
  /\ UNCHANGED <<request, callerVars, refusal, args, gave, reply, mixed>>

(* invokeRead and invokeObserve: every panic is recovered, and a page that *)
(* cannot be written or read back is an invalid result.                    *)
Invalid == [kind |-> "service", word |-> "invalid_result", message |-> ""]
Failed == [kind |-> "service", word |-> "handler_error", message |-> "handler failed"]
Payload(tree, r) == IF r.word # "" THEN Invalid ELSE [kind |-> "payload", tree |-> tree]
Encoded(op, r) ==
  IF r.word # "" THEN Invalid
  ELSE Payload(r.value, Read(ResultType(op), Document(r.value), 1))
Encodes(op, page) == Encoded(op, Encode(ResultType(op), [value |-> page]))
Outcome(op, a) ==
  CASE a.kind = "page"    -> Encodes(op, a.page)
    [] a.kind = "refusal panic" -> Invalid
    [] a.kind = "panic"   -> Failed
    [] OTHER -> a
Invokes(c, a) ==
  /\ ~crashed /\ host[c] \in {"read", "observe"}
  /\ gave' = [gave EXCEPT ![c] = a]
  /\ Replies(c, servicePayload(frame[c]).value, Outcome(host[c], a))
  /\ UNCHANGED <<request, callerVars, refusal, args, stored, crashed, mixed>>

(* call.Reply, to a caller that may have gone.                             *)
ReplySent(c) ==
  /\ ~crashed /\ host[c] = "reply"
  /\ host' = [host EXCEPT ![c] = "replied"]
  /\ UNCHANGED <<request, callerVars, refusal, args, gave, reply,
                 stored, crashed, mixed>>
ReplyLost(c) ==
  /\ ~crashed /\ host[c] = "reply"
  /\ Ends(c)
  /\ UNCHANGED <<request, callerVars, refusal, args, gave, reply,
                 stored, crashed, mixed>>

Caller(c) ==
  \/ ContextDone(c) \/ Refuses(c) \/ Sends(c) \/ ForeignSends(c)
  \/ WriteReturns(c) \/ TransportFails(c) \/ \E d \in Calls : Receives(c, d)
Worker(c) ==
  \/ HostRefuses(c) \/ HostAccepts(c) \/ FrameLost(c)
  \/ PeerRefused(c) \/ ReceiverWrites(c)
  \/ \E a \in Answers : Invokes(c, a)
  \/ ReplySent(c) \/ ReplyLost(c)
Next == \E c \in Calls : Caller(c) \/ Worker(c)
Spec == Init /\ [][Next]_vars

-----------------------------------------------------------------------------
(* Reference definitions, independent of the algorithms above.             *)

(* The well-formed UTF-8 sequences, byte range by byte range.              *)
Trail == 128 .. 191
Utf8Forms == <<
  <<0 .. 127>>, <<194 .. 223, Trail>>,
  <<{224}, 160 .. 191, Trail>>, <<225 .. 236, Trail, Trail>>,
  <<{237}, 128 .. 159, Trail>>, <<238 .. 239, Trail, Trail>>,
  <<{240}, 144 .. 191, Trail, Trail>>, <<241 .. 243, Trail, Trail, Trail>>,
  <<{244}, 128 .. 143, Trail, Trail>> >>
WellFormed(b) ==
  LET from[i \in 1 .. Len(b) + 1] ==
        \/ i > Len(b)
        \/ \E f \in DOMAIN Utf8Forms :
             LET p == Utf8Forms[f]
             IN /\ i + Len(p) <= Len(b) + 1
                /\ \A k \in DOMAIN p : b[i + k - 1] \in p[k]
                /\ from[i + Len(p)]
  IN from[1]

(* What has a faithful text: every string is UTF-8, the time is an instant *)
(* of the years 0 to 9999, schema and outcome are known ones.              *)
Names(r) == {r.job} \union DOMAIN r.attrs \union {r.attrs[k] : k \in DOMAIN r.attrs}
  \union UNION {{a.by, a.program, a.host, a.user, a.exe, a.key, a.mac}
                : a \in ToSet(r.identity)}
FaithfulRecord(r) ==
  /\ r.schema = 1 /\ WellFormed(r.msg) /\ ValidTime(r.time)
  /\ Names(r) \intersect Broken = {}
FaithfulPage(p) ==
  /\ p.outcome \in PageOutcomeNames /\ p.next \notin Broken
  /\ \A r \in ToSet(p.records) : FaithfulRecord(r)
FaithfulRequest(r) ==
  IF r.op = "write" THEN FaithfulRecord(r.args.record)
  ELSE r.args.cursor \notin Broken

(* r is the record w, its time written the writer's way.                   *)
SameRecord(r, w) ==
  /\ r = [w EXCEPT !.time = r.time]
  /\ MicrosTimestamp(r.time) /\ Instant(r.time) = Instant(w.time)

-----------------------------------------------------------------------------
(* Properties.                                                             *)

(* What a client of this codec writes is what the provider stores, through *)
(* three encodings and readings: every byte of the message, every integer, *)
(* the chain and the attributes it submitted, and the same instant to the  *)
(* microsecond, in UTC.  The service adds its own observation as the last  *)
(* hop, and hop 0 and a mark only for a writer that said nothing; the mark *)
(* is the only attribute whose submitted value it may replace.             *)
StoredAsWritten ==
  \A c \in Calls :
    request[c].op = "write" /\ stored[c] # None =>
      LET w == request[c].args.record
          r == stored[c]
          n == Len(w.identity)
      IN /\ SameRecord([r EXCEPT !.identity = SubSeq(@, 1, n), !.attrs = w.attrs], w)
         /\ Len(r.identity) = Max({n, 1}) + 1
         /\ Last(r.identity) = [Peer EXCEPT !.hop = Max({n, 1})]
         /\ n = 0 => r.identity[1].by = "unclaimed"
         /\ r.attrs = IF n = 0 THEN "logging.writer_claim" :> "absent" @@ w.attrs
                      ELSE w.attrs

(* The client refuses, before anything is sent, exactly the calls that     *)
(* have no faithful text: what cannot be represented is never sent, and    *)
(* nothing that can be is refused.                                         *)
RefusesExactly ==
  \A c \in Calls :
    request[c].op \notin {"foreign", "idle"}
      => /\ frame[c] # None => FaithfulRequest(request[c])
         /\ result[c].kind = "refused" => ~FaithfulRequest(request[c])

(* Two checks of one frame agree.  The client walks its own arguments as   *)
(* an opaque value, the dispatcher reads them by type, one level deeper,   *)
(* and the same holds for a page on its way back: what one side let        *)
(* through the other never refuses for its form.                           *)
SentIsAccepted ==
  \A c \in Calls :
    request[c].op # "foreign"
      => refusal[c] = "" /\ (frame[c] # None => result[c].kind # "refused")

(* A frame that another implementation spelled is read as it is meant: its *)
(* strings, escapes, integers, times, unknown members and nesting give the *)
(* record of the reference reading, or a refusal where that has none.      *)
ForeignReadExactly ==
  \A c \in Calls :
    request[c].op = "foreign"
      => /\ args[c] # None => args[c] = request[c].meant
         /\ refusal[c] # "" => request[c].meant = None

(* Every variable has its type; a worker handles what its caller asked.    *)
TypeOK ==
  /\ pc \in [Calls -> {"start", "sent", "returned"}]
  /\ host \in [Calls -> {"idle", "reply", "replied", "done"} \union DOMAIN Route]
  /\ crashed \in BOOLEAN /\ mixed \in BOOLEAN
  /\ \A c \in Calls :
       /\ frame[c] = None => host[c] \in {"idle", "done"} /\ args[c] = None
       /\ host[c] \in DOMAIN Route /\ request[c].op # "foreign"
            => host[c] = request[c].op
       /\ result[c] # None <=> pc[c] = "returned" /\ request[c].op # "idle"

(* No frame of any peer brings the host down: what the dispatcher accepts  *)
(* the receiver can encode again, where no recover would catch the panic.  *)
(* Every variable has its type.                                            *)
HostSurvives == TypeOK /\ ~crashed

(* A history call answers with what its own handler returned, or says that *)
(* it failed: a page is the provider's page for the same method, and for   *)
(* this call unless the transport mixed up replies; a page without a       *)
(* faithful text and a panic become an error with a code; another          *)
(* service's reply is never taken; and no answer at all is made only of an *)
(* error whose words are not UTF-8.                                        *)
AnswerIsTheHandlers ==
  \A c \in Calls :
    LET a == result[c]
        sources == {d \in Calls : request[d].op = request[c].op /\ (mixed \/ d = c)}
    IN /\ a.kind = "page" =>
            \E d \in sources :
              /\ gave[d].kind = "page" /\ Len(gave[d].page.records) = Len(a.page.records)
              /\ a.page = [gave[d].page EXCEPT !.records = a.page.records]
              /\ \A i \in DOMAIN a.page.records :
                   SameRecord(a.page.records[i], gave[d].page.records[i])
       /\ a.kind = "service" =>
            /\ a.word # ""
            /\ \E d \in sources : /\ gave[d] # None
                                  /\ gave[d].kind = "page" => ~FaithfulPage(gave[d].page)
       /\ a.kind = "mismatched" => mixed
       /\ gave[c] # None /\ host[c] = "done" /\ reply[c] = None =>
            gave[c].kind = "service" /\ {gave[c].word, gave[c].message} \intersect Broken # {}
=============================================================================
