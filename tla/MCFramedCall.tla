---------------------------- MODULE MCFramedCall ----------------------------
(* FramedCall instantiated for TLC: the values at which its reading and    *)
(* writing change their mind, one deviation from an ordinary call at a     *)
(* time, and pairs of ordinary calls side by side.                         *)
EXTENDS WireSkip

Bad == "not UTF-8"
Noon == [spelled |-> TRUE, y |-> 2024, m |-> 5, d |-> 6, h |-> 12, mi |-> 30,
         s |-> 15, frac |-> <<1, 2, 3, 4, 5, 6>>, zone |-> "Z", oh |-> 0, om |-> 0]
Plain == LogContext(Noon, 4, <<104, 105>>, [k |-> "v"])
Full == [Plain.identity[1] EXCEPT !.program = "p", !.host = "h", !.user = "u",
           !.exe = "e", !.key = "k", !.mac = "m", !.verified = TRUE, !.uid = 7]

(* Messages: control bytes, quotes, and the edges of UTF-8.                *)
Edges == {65, 128, 143, 144, 159, 160, 191, 193, 194, 224, 237, 240, 244, 245}
Messages ==
  {<<>>} \union [1 .. 1 -> 0 .. 255]
  \union [1 .. 2 -> Edges \union {9, 34, 92}]
  \union {<<a, b, 128>> : a \in {224, 225, 237, 239}, b \in Edges}
  \union {<<a, b, c, d>> : a \in {240, 241, 244, 245}, b \in Edges, c \in {128, 65}, d \in {191, 34}}

(* Times: the ends of months, years and the calendar, offsets both ways.   *)
Dates == {<<0, 1, 1>>, <<1900, 2, 28>>, <<1900, 2, 29>>, <<1900, 3, 1>>,
          <<2000, 2, 29>>, <<2000, 3, 1>>, <<2023, 2, 29>>, <<2023, 4, 30>>,
          <<2023, 4, 31>>, <<2023, 12, 31>>, <<2024, 1, 1>>, <<2024, 2, 28>>,
          <<2024, 3, 1>>, <<2024, 0, 5>>, <<2024, 13, 5>>, <<2024, 7, 0>>,
          <<9999, 12, 31>>}
Clocks == {<<0, 0>>, <<0, 1>>, <<12, 0>>, <<23, 59>>, <<24, 0>>, <<1, 60>>}
Zones == {<<"Z", 0, 0>>, <<"+", 0, 1>>, <<"-", 0, 1>>, <<"+", 23, 59>>,
          <<"-", 23, 59>>, <<"+", 24, 0>>, <<"-", 0, 60>>}
Times ==
  {[Noon EXCEPT !.y = d[1], !.m = d[2], !.d = d[3], !.h = t[1], !.mi = t[2],
                !.frac = <<>>, !.zone = z[1], !.oh = z[2], !.om = z[3]]
     : d \in Dates, t \in Clocks, z \in Zones}
  \union {[Noon EXCEPT !.s = x] : x \in {0, 59, 60}}
  \union {[Noon EXCEPT !.frac = [k \in 1 .. n |-> 9]] : n \in {1, 5, 7, 9, 10}}
  \union {[Noon EXCEPT !.spelled = FALSE]}

Records ==
  {[Plain EXCEPT !.msg = x] : x \in Messages}
  \union {[Plain EXCEPT !.time = x] : x \in Times}
  \union {[Plain EXCEPT !.schema = x] : x \in {0, 1, 2}}
  \union {[Plain EXCEPT !.level = x] : x \in {-WordMax - 1, -1, 0, 9, 10, WordMax}}
  \union {[Plain EXCEPT !.identity = x]
            : x \in {<<>>, <<Full, Full>>, <<[Full EXCEPT !.by = ""]>>,
                     <<Full, [Full EXCEPT !.mac = Bad]>>}}
  \union {[Plain EXCEPT !.job = x] : x \in {"j", Bad}}
  \union {[Plain EXCEPT !.attrs = x]
            : x \in {<<>>, [k |-> Bad], [k |-> "", l |-> "w"], Bad :> "v"}}
  \union {[Plain EXCEPT !.identity = <<>>, !.attrs = "logging.writer_claim" :> "mine"]}

Write(r) == [op |-> "write", args |-> [record |-> r]]
ReadAt(cursor) == [op |-> "read", args |-> [cursor |-> cursor, max_records |-> 1,
                                            max_bytes |-> 10]]
ObserveAt(cursor, wait) ==
  [op |-> "observe", args |-> [cursor |-> cursor, max_records |-> 1,
                               max_bytes |-> 10, wait_ms |-> wait]]

(* Frames another implementation may send, each with what it means: one    *)
(* member of the plain record is spelled its own way, or added.            *)
Object(members) == Value("object", members)
Envelope(version, service, method, arguments) ==
  Object(<<Member("version", Value("num", version)),
           Member("service", Value("name", service)),
           Member("method", Value("name", method)),
           Member("arguments", arguments)>>)
Carries(record) ==
  Document(Envelope(num(1), Sink, "Write", Object(<<Member("record", record)>>)))
Respelled(members, key, value) ==
  Object([i \in DOMAIN members |->
    IF members[i].key = key THEN Member(key, value) ELSE members[i]])
Added(members, key, value) == Object(members \o <<Member(key, value)>>)
Foreign(doc, meant) == [op |-> "foreign", doc |-> doc, meant |-> meant]
Means(record) == [record |-> record]

(* Escapes, each with the UTF-16 units it stands for; none for a bad one.  *)
U(a, b, c, d) == <<92, 117, a, b, c, d>>
Escapes == [
  a      |-> [text |-> <<97>>, units |-> <<97>>],
  slash  |-> [text |-> <<92, 47>>, units |-> <<47>>],
  tab    |-> [text |-> <<92, 116>>, units |-> <<9>>],
  quote  |-> [text |-> <<92, 34>>, units |-> <<34>>],
  nul    |-> [text |-> U(48, 48, 48, 48), units |-> <<0>>],
  eacute |-> [text |-> U(48, 48, 69, 57), units |-> <<233>>],
  last   |-> [text |-> U(102, 70, 102, 102), units |-> <<65535>>],
  high   |-> [text |-> U(68, 56, 51, 68), units |-> <<55357>>],
  top    |-> [text |-> U(100, 98, 102, 102), units |-> <<56319>>],
  low    |-> [text |-> U(100, 101, 48, 48), units |-> <<56832>>],
  x      |-> [text |-> <<92, 120>>, units |-> <<>>],
  short  |-> [text |-> <<92, 117, 49, 50, 103>>, units |-> <<>>],
  bare   |-> [text |-> <<10>>, units |-> <<>>],
  end    |-> [text |-> <<34>>, units |-> <<>>] ]
Spellings == [1 .. 1 -> DOMAIN Escapes] \union [1 .. 2 -> DOMAIN Escapes]
  \union [1 .. 3 -> {"a", "high", "top", "low"}]
Units(w) == FlattenSeq([i \in DOMAIN w |-> Escapes[w[i]].units])
Meaningful(w) ==
  LET u == Units(w)
  IN /\ \A i \in DOMAIN w : Escapes[w[i]].units # <<>>
     /\ \A i \in DOMAIN u :
          /\ u[i] \in High => i < Len(u) /\ u[i + 1] \in Low
          /\ u[i] \in Low => i > 1 /\ u[i - 1] \in High
Utf8Of(u) == FlattenSeq([i \in DOMAIN u |->
  CASE u[i] \in Low  -> <<>>
    [] u[i] \in High ->
         LET cp == 65536 + (u[i] - 55296) * 1024 + (u[i + 1] - 56320)
         IN <<240 + (cp \div 262144), 128 + ((cp \div 4096) % 64),
              128 + ((cp \div 64) % 64), 128 + (cp % 64)>>
    [] u[i] < 128  -> <<u[i]>>
    [] u[i] < 2048 -> <<192 + (u[i] \div 64), 128 + (u[i] % 64)>>
    [] OTHER -> <<224 + (u[i] \div 4096), 128 + ((u[i] \div 64) % 64), 128 + (u[i] % 64)>>])
SpelledText(w) == FlattenSeq([i \in DOMAIN w |-> Escapes[w[i]].text]) \o <<34>>

(* Numerals around the ends of the word, and other shapes of a number.     *)
Numerals ==
  LET near == {num(n) : n \in {0, 1, 10, 1000} \union WordMax - 12 .. WordMax + 12}
      long == {t \o <<d>> : t \in near, d \in {48, 57}}
  IN near \union long \union {<<45>> \o t : t \in near \union long} \union {<<48>> \o t : t \in near}
     \union {<<45>>, <<49, 46, 53>>, <<49, 101, 50>>, <<49, 46>>, <<49, 101>>}
NumberOf(t) ==
  LET neg == t[1] = 45
      s   == IF neg THEN Tail(t) ELSE t
      n   == FoldLeft(LAMBDA v, d : v * 10 + d - 48, 0, s)
  IN IF \/ s = <<>> \/ \E i \in DOMAIN s : s[i] \notin 48 .. 57
        \/ (s[1] = 48 /\ (neg \/ Len(s) > 1))
     THEN {} ELSE {IF neg THEN -n ELSE n} \intersect -WordMax - 1 .. WordMax

Nested[n \in 0 .. DepthLimit] ==
  IF n = 0 THEN Value("num", <<55>>)
  ELSE IF n % 2 = 0 THEN Value("list", <<Nested[n - 1]>>)
  ELSE Object(<<Member("x", Nested[n - 1])>>)

Spelled(set, members, key, F(_), Meant(_)) ==
  {Foreign(Carries(Respelled(members, key, F(x))), Meant(x)) : x \in set}
(* The members of the plain record, written by this codec, and changed.    *)
ForeignRecords(members) ==
  Spelled(Spellings, members, "msg", LAMBDA w : Value("text", SpelledText(w)),
          LAMBDA w : IF Meaningful(w)
                     THEN Means([Plain EXCEPT !.msg = Utf8Of(Units(w))]) ELSE None)
  \union Spelled(Numerals, members, "level", LAMBDA t : Value("num", t),
          LAMBDA t : IF NumberOf(t) # {}
                     THEN Means([Plain EXCEPT !.level = CHOOSE n \in NumberOf(t) : TRUE])
                     ELSE None)
  \union Spelled(Times, members, "time", LAMBDA t : Value("time", t),
          LAMBDA t : IF ValidTime(t) THEN Means([Plain EXCEPT !.time = t]) ELSE None)
  \union {Foreign(Carries(Added(members, "extra", Nested[n])),
                  IF 3 + n <= DepthLimit THEN Means(Plain) ELSE None) : n \in 0 .. DepthLimit}
  \union {Foreign(Carries(Added(members, k, v)), None)
            : k \in {"schema", Bad}, v \in {Value("num", num(1))}}
  \union {Foreign(Carries(Added(members, "extra", v)), None)
            : v \in {Value("junk", <<>>), Value("name", Bad), Value("cut", <<>>)}}
  \union {Foreign(Carries(Respelled(members, k, v)), None)
            : k \in {"level", "attrs", "identity"},
              v \in {Value("bool", TRUE), Value("cut", <<>>)}}
  \union {Foreign(Carries(Respelled(members, "attrs",
            Object(<<Member("k", Value("name", "old")), Member("k", Value("name", "v"))>>))),
            Means(Plain))}
ForeignFrames(record, parts) ==
  {Foreign(d, None) : d \in
     {[Carries(record) EXCEPT !.more = TRUE],
      Document(Value("cut", parts)),
      Document(Object(parts \o <<Member("extra", NoValue)>>)),
      Document(Envelope(num(2), Sink, "Write", parts[4].value)),
      Document(Envelope(num(1), "other@1", "Write", parts[4].value)),
      Document(Envelope(num(1), Sink, "Read", parts[4].value)),
      Document(Envelope(num(1), Reader, "Write", parts[4].value)),
      Document(Envelope(num(1), Reader, "Read", parts[4].value)),
      Document(Envelope(num(1), Observer, "Observe", NoValue))}
     \union {Document(Object(SelectSeq(parts, LAMBDA m : m.key # k)))
                : k \in {"version", "arguments"}}}
Foreigners(record) ==
  ForeignRecords(record.v) \union ForeignFrames(record, Carries(record).tree.v)

(* What the provider does.                                                 *)
SomePage(records, next, end) ==
  [outcome |-> "page", records |-> records, next |-> next, at_end |-> end]
Refusing(outcome, next) ==
  [outcome |-> outcome, records |-> <<>>, next |-> next, at_end |-> FALSE]
MCAnswers ==
  {[kind |-> "page", page |-> p] : p \in {
     SomePage(<<Plain>>, "c2", TRUE), SomePage(<<>>, "c1", TRUE),
     SomePage(<<[Plain EXCEPT !.time.zone = "+", !.time.oh = 23]>>, "c2", FALSE),
     SomePage(<<[Plain EXCEPT !.msg = <<128>>]>>, "c2", TRUE),
     SomePage(<<[Plain EXCEPT !.schema = 2]>>, "c2", TRUE),
     SomePage(<<Plain, Plain>>, "c2", TRUE), SomePage(<<Plain>>, "c1", TRUE),
     SomePage(<<>>, Bad, TRUE), Refusing("gap", "c1"), Refusing("nonsense", "c1")}}
  \union {[kind |-> "service", word |-> w, message |-> m]
            : w \in {"", "wrong_user"}, m \in {"no", Bad}}
  \union {[kind |-> k] : k \in {"other", "panic", "refusal panic"}}

Alone(r) == <<r, [op |-> "idle"]>>
MCScripts ==
  {Alone(Write(r)) : r \in Records}
  \union {Alone(r) : r \in Foreigners(EncodeRecord(Plain).value)}
  \union {Alone(ReadAt(Bad)), Alone(ObserveAt(Bad, 1)),
          Alone(ObserveAt("c1", -1)), Alone(ObserveAt("c1", 30001)),
          Alone([ReadAt("c1") EXCEPT !.args.max_records = 0])}
  \union {<<a, b>> : a \in {ReadAt("c1"), Write(Plain)},
                     b \in {ReadAt("c1"), ObserveAt("c1", 30000)}}
=============================================================================
