--------------------------- MODULE HistoryReader ---------------------------
(***************************************************************************)
(* The file of go/sink.go and the bounded reads of go/history.go: one      *)
(* append-only file that this sink and other processes append lines to,    *)
(* and a client that reads it page by page behind cursors.                 *)
(*                                                                         *)
(* The file is a sequence of cells.  A line of kind k is the cells         *)
(* [k, 1] .. [k, LineLen[k]], the last of which is its newline, so an      *)
(* offset can fall inside a line and a write can stop in the middle of     *)
(* one.  Writes and reads of one sink exclude each other (FileSink.mu).    *)
(***************************************************************************)
EXTENDS Integers, SequencesExt

CONSTANTS
  Kinds,           \* the kinds of record
  LineLen,         \* the cells of a stored line of each kind
  EncSize,         \* the bytes of each kind encoded again for a page
  OwnKinds,        \* the kinds the sink's own line cap lets through
  MaxPageRecords,  \* 256 in the code
  MaxPageBytes,    \* 65536 in the code: a page, and a stored line
  MaxCells,        \* bound: the length of the file
  MaxOpens         \* bound: the times the sink is opened

ASSUME HistoryAssumption ==
  /\ \A k \in Kinds : LineLen[k] \in Nat \ {0} /\ EncSize[k] \in Nat \ {0}
  /\ OwnKinds \subseteq Kinds
  /\ MaxPageRecords \in Nat \ {0} /\ MaxPageBytes \in Nat \ {0}
  /\ MaxCells \in Nat /\ MaxOpens \in Nat \ {0}

VARIABLES
  file,          \* the cells of the file s.f is open on
  replaced,      \* s.path names another file now
  open,          \* s.f is open
  opens,         \* the instances of the sink so far, which name the epochs
  historyEpoch,  \* 0 until the first read makes it
  cursor,        \* the client's last continuation
  from,          \* history: the offset the client started from
  seen           \* history: the records it was given since

fileVars   == <<file, replaced, open, opens>>
clientVars == <<cursor, from, seen>>
vars == <<fileVars, historyEpoch, clientVars>>

Empty == [epoch |-> 0, offset |-> 0]   \* the empty cursor

(* OpenFileSink: the file is created or opened for appending.              *)
Init ==
  /\ file = <<>> /\ replaced = FALSE
  /\ open = TRUE /\ opens = 1 /\ historyEpoch = 0
  /\ cursor = Empty /\ from = 0 /\ seen = <<>>

-----------------------------------------------------------------------------
(* readHistoryLocked.                                                      *)

Refusal(outcome, at) ==
  [outcome |-> outcome, records |-> <<>>, next |-> at, atEnd |-> FALSE]

Line(k) == [i \in 1 .. LineLen[k] |-> [k |-> k, i |-> i]]
IsNewline(cell) == cell.i = LineLen[cell.k]

(* ReadBytes('\n') on the section of n cells after offset: the length of   *)
(* the line, or n when there is no newline in it.                          *)
Newlines(offset, n) == {j \in 1 .. n : IsNewline(file[offset + j])}
ReadLine(offset, n) ==
  IF Newlines(offset, n) = {} THEN n ELSE Min(Newlines(offset, n))

(* wire.Decode accepts exactly the line that encodes one record.           *)
Decodes(offset, n, k) ==
  n = LineLen[k] /\ \A j \in 1 .. n : file[offset + j] = [k |-> k, i |-> j]

(* One turn of the loop on p, the page so far: it stops with an outcome,   *)
(* breaks on the byte budget, or takes one more record.                    *)
MinOf(a, b) == IF a < b THEN a ELSE b
LineLimit(p) == MinOf(Len(file) - p.offset, MaxPageBytes + 1)
Stop(p, outcome) == [p EXCEPT !.outcome = outcome]
AdvanceByEncoding(k, n) == EncSize[k]
Advance(k, n) == n
BudgetBreakAlways(p) == Stop(p, "break")
BudgetBreak(p) ==
  Stop(p, IF p.records = <<>> THEN "record_too_large" ELSE "break")
TooLongAtLimit(n) == n >= MaxPageBytes
TooLong(n) == n > MaxPageBytes
Turn(p, maxBytes) ==
  LET n == ReadLine(p.offset, LineLimit(p))
      whole == {k \in Kinds : Decodes(p.offset, n, k)}
  IN CASE TooLong(n) -> Stop(p, "record_too_large")
       [] ~TooLong(n) /\ whole = {} -> Stop(p, "corrupt")
       [] OTHER ->
            LET k == CHOOSE k \in whole : TRUE
            IN IF p.used + EncSize[k] > maxBytes
               THEN BudgetBreak(p)
               ELSE [p EXCEPT !.records = Append(@, k),
                              !.used = @ + EncSize[k],
                              !.offset = @ + Advance(k, n)]

(* The loop, bounded by maxRecords turns.                                  *)
Scan(offset, maxRecords, maxBytes) ==
  LET start == [offset |-> offset, records |-> <<>>, used |-> 0,
                outcome |-> "page"]
      after[i \in 0 .. maxRecords] ==
        IF i = 0 THEN start
        ELSE LET p == after[i - 1]
             IN IF p.outcome = "page" /\ p.offset < Len(file)
                THEN Turn(p, maxBytes) ELSE p
  IN after[maxRecords]

ValidLimits(r) ==
  /\ r.maxRecords \in 1 .. MaxPageRecords
  /\ r.maxBytes \in 1 .. MaxPageBytes

(* A read with valid limits makes the epoch of this instance; the          *)
(* crypto/rand of the required Go version returns no error.                *)
EpochAfter(r) == IF ValidLimits(r) THEN opens ELSE historyEpoch

(* The cursor parses and names this instance.                              *)
NamesThisInstance(r) ==
  r.cursor = Empty \/ (r.cursor.epoch = EpochAfter(r) /\ r.cursor.offset >= 0)

(* os.SameFile, the size of the file, and the newline before the offset.   *)
InPlace(offset) ==
  /\ ~replaced
  /\ offset <= Len(file)
  /\ offset > 0 => IsNewline(file[offset])

(* What a read returns when the file system answers.                       *)
PageAt(r) ==
  LET scan == Scan(r.cursor.offset, r.maxRecords, r.maxBytes)
  IN IF scan.outcome \in {"record_too_large", "corrupt"}
     THEN Refusal(scan.outcome, r.cursor)
     ELSE [outcome |-> "page", records |-> scan.records,
           next |-> [epoch |-> EpochAfter(r), offset |-> scan.offset],
           atEnd |-> scan.offset = Len(file)]

(* The pages a read may return: after the limits and the cursor pass, the  *)
(* file system may refuse to open or stat the file, and it does once the   *)
(* sink closed it.                                                         *)
readHistoryLocked(r) ==
  IF ~ValidLimits(r) THEN {Refusal("invalid_request", r.cursor)}
  ELSE IF ~NamesThisInstance(r) THEN {Refusal("gap", r.cursor)}
  ELSE {Refusal("unavailable", r.cursor)} \union
       (IF ~open THEN {}
        ELSE IF InPlace(r.cursor.offset) THEN {PageAt(r)}
        ELSE {Refusal("gap", r.cursor)})

-----------------------------------------------------------------------------
(* What happens to the file.                                               *)

(* FileSink.Write, which puts n cells of its line into the file: all of    *)
(* them, or fewer when the file system fails in the middle.                *)
Write(k, n) ==
  /\ open
  /\ Len(file) + n <= MaxCells
  /\ file' = file \o SubSeq(Line(k), 1, n)
  /\ UNCHANGED <<replaced, open, opens, historyEpoch, clientVars>>

(* Another process appends a whole line.                                   *)
ExternalAppend(k) ==
  /\ Len(file) + LineLen[k] <= MaxCells
  /\ file' = file \o Line(k)
  /\ UNCHANGED <<replaced, open, opens, historyEpoch, clientVars>>

(* The path is given to another file; s.f stays on the old one.            *)
Replace ==
  /\ ~replaced
  /\ replaced' = TRUE
  /\ UNCHANGED <<file, open, opens, historyEpoch, clientVars>>

Close ==
  /\ open
  /\ open' = FALSE
  /\ UNCHANGED <<file, replaced, opens, historyEpoch, clientVars>>

(* OpenFileSink again, on the file the path names now.                     *)
Reopen(first) ==
  /\ ~open /\ opens < MaxOpens
  /\ Len(first) <= MaxCells
  /\ file' = IF replaced THEN first ELSE file
  /\ replaced' = FALSE
  /\ open' = TRUE
  /\ opens' = opens + 1
  /\ historyEpoch' = 0
  /\ UNCHANGED clientVars

-----------------------------------------------------------------------------
(* FileSink.Read.  The client starts from the empty cursor or goes on from *)
(* its last continuation; a refusal leaves it where it was.                *)

Limits == [maxRecords : 0 .. MaxPageRecords + 1, maxBytes : 0 .. MaxPageBytes + 1]
Request(at, l) ==
  [cursor |-> at, maxRecords |-> l.maxRecords, maxBytes |-> l.maxBytes]

Read(at, l) ==
  LET r == Request(at, l)
  IN /\ historyEpoch' = EpochAfter(r)
     /\ \E p \in readHistoryLocked(r) :
          /\ cursor' = p.next
          /\ IF at = Empty THEN from' = 0 /\ seen' = p.records
                           ELSE from' = from /\ seen' = seen \o p.records
     /\ UNCHANGED fileVars

Next ==
  \/ \E k \in OwnKinds : \E n \in 1 .. LineLen[k] : Write(k, n)
  \/ \E k \in Kinds : ExternalAppend(k)
  \/ Close \/ Replace
  \/ \E first \in {<<>>} \union {Line(k) : k \in OwnKinds} : Reopen(first)
  \/ \E at \in {Empty, cursor}, l \in Limits : Read(at, l)

Spec == Init /\ [][Next]_vars

-----------------------------------------------------------------------------
(* Properties.                                                             *)

Cells == [k : Kinds, i : 1 .. MaxCells]
Cursor == [epoch : 0 .. MaxOpens, offset : 0 .. MaxCells]

(* Every variable has its type: a continuation names an instance that      *)
(* exists, and an offset in its file.                                      *)
TypeOK ==
  /\ file \in Seq(Cells) /\ Len(file) <= MaxCells
  /\ replaced \in BOOLEAN /\ open \in BOOLEAN
  /\ opens \in 1 .. MaxOpens /\ historyEpoch \in {0, opens}
  /\ cursor \in Cursor /\ cursor.epoch <= opens
  /\ from \in 0 .. MaxCells /\ seen \in Seq(Kinds)

(* The cells of the lines of these records, one after the other.           *)
Lines(records) == FlattenSeq([i \in DOMAIN records |-> Line(records[i])])

(* A client that follows continuations gets every stored line between its  *)
(* first cursor and its last one, in append order, none twice and none     *)
(* skipped, whatever was appended, torn, refused or retried meanwhile.     *)
(* Every variable has its type.                                            *)
ReadsExactly ==
  /\ TypeOK
  /\ cursor.epoch = opens =>
       Lines(seen) = SubSeq(file, from + 1, cursor.offset)

(* validateHistoryPage of the client package.                              *)
SizeOf(records) ==
  LET total[i \in 0 .. Len(records)] ==
        IF i = 0 THEN 0 ELSE total[i - 1] + EncSize[records[i]]
  IN total[Len(records)]
validateHistoryPage(p, r) ==
  IF p.outcome = "page"
  THEN /\ ValidLimits(r)
       /\ Len(p.records) <= r.maxRecords /\ SizeOf(p.records) <= r.maxBytes
       /\ p.next # Empty
       /\ p.records # <<>> => p.next # r.cursor
       /\ ~p.atEnd => p.records # <<>>
  ELSE p.records = <<>> /\ p.next = r.cursor /\ ~p.atEnd

(* The client accepts every answer to every request, also for cursors that *)
(* nobody handed out: pages stay within the limits and move on unless they *)
(* are at the end, refusals change nothing.                                *)
ClientAccepts ==
  \A at \in {Empty, cursor} \union
           [epoch : {opens}, offset : -1 .. MaxCells + 1], l \in Limits :
    LET r == Request(at, l)
    IN \A p \in readHistoryLocked(r) : validateHistoryPage(p, r)

(* A client that asks for one record at a time, with the largest budget,   *)
(* gets past every stored record that fits it: its continuation always     *)
(* stands where a line begins, and no later line holds the record back.    *)
OneByOneAdvances ==
  \A k \in Kinds :
    LET r == [cursor |-> cursor, maxRecords |-> 1, maxBytes |-> MaxPageBytes]
        off == cursor.offset
    IN ( /\ open /\ ~replaced /\ cursor.epoch = opens
         /\ off + LineLen[k] <= Len(file) /\ Decodes(off, LineLen[k], k)
         /\ LineLen[k] <= MaxPageBytes /\ EncSize[k] <= MaxPageBytes )
       => \E p \in readHistoryLocked(r) :
            p.outcome = "page" /\ p.records = <<k>>
=============================================================================
