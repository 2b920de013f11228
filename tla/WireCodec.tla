----------------------------- MODULE WireCodec ------------------------------
(***************************************************************************)
(* The generated codec of go/abstraction/logging/rec.go.  Every structure  *)
(* has an encoder and a decoder that were generated from one pattern; here *)
(* the pattern is written once (EncodeStruct, DecodeStruct) and each       *)
(* structure is a table: the members its encoder writes, and the members,  *)
(* the required ones and the verdict of its decoder.  Structures hold one  *)
(* another to a fixed depth, so an operator for each level suffices.  Only *)
(* the walk over a value that nobody reads is recursive; it is a parameter *)
(* here and defined in WireSkip.                                           *)
(*                                                                         *)
(* A JSON value is a tree: [k |-> kind, v |-> content].  Strings come in   *)
(* three kinds: "text", whose spelling is modelled (WireText), "time"      *)
(* (Timestamps), and "name", an opaque string, of which those in Broken    *)
(* are not UTF-8; a string stands only in members of its own kind.  White  *)
(* space, key order and member order carry nothing.                        *)
(***************************************************************************)
EXTENDS WireText, Timestamps, TLC

CONSTANTS
  DepthLimit,      \* 64 in the code
  Broken,          \* names that are not UTF-8
  skipValue(_, _)  \* the walk over a value that nobody reads: WireSkip

ASSUME DepthAssumption == DepthLimit \in Nat

(* Trees.  An object that is not closed is the text of a cut message.      *)
Value(kind, content) == [k |-> kind, v |-> content]
Member(key, value) == [key |-> key, value |-> value]
StringKinds == {"text", "time", "name"}
Containers == {"object", "list", "cut"}
NoValue == Value("null", <<>>)

PageOutcomeNames == {"page", "gap", "unavailable", "invalid_request",
                     "record_too_large", "corrupt", "unsupported"}

-----------------------------------------------------------------------------
(* The encoders: <<member, type>> in order; the third component marks the  *)
(* members that are left out when empty.                                   *)

encAttestation == <<
  <<"by", "name">>, <<"verified", "bool">>, <<"hop", "int">>,
  <<"program", "name", "omit">>, <<"host", "name", "omit">>,
  <<"user", "name", "omit">>, <<"exe", "name", "omit">>,
  <<"uid", "int">>, <<"gid", "int">>, <<"pid", "int">>,
  <<"key", "name", "omit">>, <<"mac", "name", "omit">> >>
encRecord == <<
  <<"schema", "int">>, <<"time", "time">>, <<"level", "int">>,
  <<"msg", "text">>, <<"identity", "Attestations", "omit">>,
  <<"job", "name", "omit">>, <<"attrs", "strmap", "omit">> >>
encPage == << <<"outcome", "name">>, <<"records", "Records">>,
              <<"next", "name">>, <<"at_end", "bool">> >>
encSinkWriteArguments == << <<"record", "Record">> >>
encReadArguments == << <<"cursor", "name">>, <<"max_records", "int">>,
                       <<"max_bytes", "int">> >>
encObserveArguments == << <<"cursor", "name">>, <<"max_records", "int">>,
                          <<"max_bytes", "int">>, <<"wait_ms", "int">> >>
encServiceFrame == << <<"version", "int32">>, <<"service", "name">>,
                      <<"method", "name">>, <<"arguments", "raw">> >>
encServiceReply == << <<"version", "int32">>, <<"service", "name">>,
                      <<"method", "name">>, <<"ok", "bool">>,
                      <<"payload", "raw">> >>
encServiceError == << <<"code", "name">>, <<"message", "name">> >>
encReadResult == << <<"value", "Page">> >>
encObserveResult == << <<"value", "Page">> >>

Encoder == [
  Attestation |-> encAttestation, Record |-> encRecord, Page |-> encPage,
  WriteArguments |-> encSinkWriteArguments,
  ReadArguments |-> encReadArguments,
  ObserveArguments |-> encObserveArguments,
  Frame |-> encServiceFrame, Reply |-> encServiceReply,
  Error |-> encServiceError,
  ReadResult |-> encReadResult, ObserveResult |-> encObserveResult]

(* What a structure must be to be written: the panic of its encoder.       *)
Unwritable(type, v) ==
  CASE type = "Record" /\ v.schema # 1 -> "bad_schema"
    [] type = "Page" /\ v.outcome \notin PageOutcomeNames -> "bad_enum"
    [] OTHER -> ""

(* All the values, or the first refusal.                                   *)
FirstOf(S) == CHOOSE i \in S : \A j \in S : i <= j
Results(rs) ==
  LET refused == {i \in DOMAIN rs : rs[i].word # ""}
  IN IF refused # {} THEN Refuse(rs[FirstOf(refused)].word)
     ELSE Ok([i \in DOMAIN rs |-> rs[i].value])
As(kind, r) == IF r.word = "" THEN Ok(Value(kind, r.value)) ELSE r

writeTimestamp(t) ==
  IF WideTimestamp(t) THEN Ok(Value("time", normalizedTimestamp(t)))
  ELSE Refuse("bad_timestamp")
strmap(m) ==
  LET keys == SetToSeq(DOMAIN m)
  IN Value("object", [i \in DOMAIN keys |-> Member(keys[i], Value("name", m[keys[i]]))])

IsEmpty(type, x) == IF type = "name" THEN x = "" ELSE DOMAIN x = {}
WrittenUnlessEmpty(fields, v) ==
  SelectSeq(fields, LAMBDA f : f[2] \in {"name", "text"} => ~IsEmpty(f[2], v[f[1]]))
Written(fields, v) ==
  LET upTo[i \in 0 .. Len(fields)] ==
        IF i = 0 THEN <<>>
        ELSE LET f == fields[i]
             IN IF Len(f) = 3 /\ IsEmpty(f[2], v[f[1]]) THEN upTo[i - 1]
                ELSE Append(upTo[i - 1], f)
  IN upTo[Len(fields)]

EncodeLeaf(type, v) ==
  CASE type = "name"  -> Ok(Value("name", v))
    [] type = "text"  -> Ok(Value("text", esc(v)))
    [] type = "time"  -> writeTimestamp(v)
    [] type = "bool"  -> Ok(Value("bool", v))
    [] type = "raw"   -> Ok(v)
    [] type = "strmap" -> Ok(strmap(v))
    [] OTHER -> Ok(Value("num", num(v)))

(* A structure and a list, by the encoder of what they hold.               *)
MemberOf(f, r) == IF r.word = "" THEN Ok(Member(f[1], r.value)) ELSE r
EncodeStruct(type, v, Enc(_, _)) ==
  LET fields == Written(Encoder[type], v)
  IN IF Unwritable(type, v) # "" THEN Refuse(Unwritable(type, v))
     ELSE As("object", Results([i \in 1 .. Len(fields) |->
            MemberOf(fields[i], Enc(fields[i][2], v[fields[i][1]]))]))
encList(v, Enc(_)) == As("list", Results([i \in 1 .. Len(v) |-> Enc(v[i])]))

EncodeAttestation(v) == EncodeStruct("Attestation", v, EncodeLeaf)
EncodeInRecord(type, v) ==
  IF type = "Attestations" THEN encList(v, EncodeAttestation) ELSE EncodeLeaf(type, v)
EncodeRecord(v) == EncodeStruct("Record", v, EncodeInRecord)
EncodeInPage(type, v) ==
  IF type = "Records" THEN encList(v, EncodeRecord) ELSE EncodeLeaf(type, v)
EncodePage(v) == EncodeStruct("Page", v, EncodeInPage)
EncodeInCall(type, v) ==
  CASE type = "Record" -> EncodeRecord(v)
    [] type = "Page"   -> EncodePage(v)
    [] OTHER           -> EncodeLeaf(type, v)
Encode(type, v) == EncodeStruct(type, v, EncodeInCall)

-----------------------------------------------------------------------------
(* The decoders: the type of each member, the members that must be there,  *)
(* and whether a member it does not know is skipped or refused.            *)

decodeAttestation ==
  [fields |-> [by |-> "name", verified |-> "bool", hop |-> "int",
               program |-> "name", host |-> "name", user |-> "name",
               exe |-> "name", uid |-> "int", gid |-> "int", pid |-> "int",
               key |-> "name", mac |-> "name"],
   required |-> {"by", "verified", "hop", "uid", "gid", "pid"}, open |-> TRUE]
decodeRecord ==
  [fields |-> [schema |-> "int", time |-> "time", level |-> "int",
               msg |-> "text", identity |-> "Attestations", job |-> "name",
               attrs |-> "strmap"],
   required |-> {"schema", "time", "level", "msg"}, open |-> TRUE]
decodePage ==
  [fields |-> [outcome |-> "name", records |-> "Records", next |-> "name",
               at_end |-> "bool"],
   required |-> {"outcome", "records", "next", "at_end"}, open |-> FALSE]
decodeSinkWriteArguments ==
  [fields |-> [record |-> "Record"], required |-> {"record"}, open |-> FALSE]
decodeReadArguments ==
  [fields |-> [cursor |-> "name", max_records |-> "int", max_bytes |-> "int"],
   required |-> {"cursor", "max_records", "max_bytes"}, open |-> FALSE]
decodeObserveArguments ==
  [fields |-> [cursor |-> "name", max_records |-> "int", max_bytes |-> "int",
               wait_ms |-> "int"],
   required |-> {"cursor", "max_records", "max_bytes", "wait_ms"},
   open |-> FALSE]
decodeServiceFrame ==
  [fields |-> [version |-> "int32", service |-> "name", method |-> "name",
               arguments |-> "raw"],
   required |-> {"version", "service", "method", "arguments"}, open |-> FALSE]
decodeServiceReply ==
  [fields |-> [version |-> "int32", service |-> "name", method |-> "name",
               ok |-> "bool", payload |-> "raw"],
   required |-> {"version", "service", "method", "ok", "payload"},
   open |-> FALSE]
decodeServiceError ==
  [fields |-> [code |-> "name", message |-> "name"],
   required |-> {"code", "message"}, open |-> FALSE]
decodeReadResult ==
  [fields |-> [value |-> "Page"], required |-> {"value"}, open |-> FALSE]
decodeObserveResult ==
  [fields |-> [value |-> "Page"], required |-> {"value"}, open |-> FALSE]

Decoder == [
  Attestation |-> decodeAttestation, Record |-> decodeRecord,
  Page |-> decodePage, WriteArguments |-> decodeSinkWriteArguments,
  ReadArguments |-> decodeReadArguments,
  ObserveArguments |-> decodeObserveArguments,
  Frame |-> decodeServiceFrame, Reply |-> decodeServiceReply,
  Error |-> decodeServiceError,
  ReadResult |-> decodeReadResult, ObserveResult |-> decodeObserveResult]

(* The verdict on a structure that was read to its end.                    *)
Unreadable(type, v) ==
  CASE type = "Record" /\ v.schema # 1 -> "bad_schema"
    [] type = "Page" /\ v.outcome \notin PageOutcomeNames -> "bad_enum"
    [] OTHER -> ""

Zero(type) == CASE type = "name" -> "" [] type \in {"int", "int32"} -> 0
                [] type = "bool" -> FALSE [] OTHER -> <<>>

(* Strings.                                                                *)
name(x) == IF x.v \in Broken THEN Refuse("bad_string") ELSE Ok(x.v)
timestampLexical(x) ==
  IF lexicalTimestamp(x.v) THEN Ok(x.v) ELSE Refuse("bad_timestamp")
timestamp(x) ==
  IF WideTimestamp(x.v) THEN Ok(x.v) ELSE Refuse("bad_timestamp")
skipString(x) ==
  CASE x.k = "text" -> str(x.v).word [] x.k = "name" -> name(x).word
    [] OTHER -> ""

Skipped(x, word) == IF word = "" THEN Ok(x) ELSE Refuse(word)

OfKind(x, kind, r) == IF x.k = kind THEN r ELSE Refuse("wrong_type")

(* enter, the key of a member, and what stands at the end: a cut object is *)
(* malformed, and of equal keys the last one counts.  Members are read in  *)
(* order, so the first refusal is the one that is reported.                *)
Enter(x, kinds, depth, r) ==
  IF x.k \notin kinds THEN Refuse("wrong_type")
  ELSE IF depth + 1 > DepthLimit THEN Refuse("depth_exceeded")
  ELSE r
Keyed(m, r) == IF m.key \in Broken THEN Refuse("bad_string") ELSE r
Close(x, r) == IF r.word = "" /\ x.k = "cut" THEN Refuse("malformed") ELSE r
Collect(members, r) ==
  LET last(k) == Max({i \in 1 .. Len(members) : members[i].key = k})
  IN IF r.word # "" THEN r
     ELSE Ok([k \in {members[i].key : i \in 1 .. Len(members)} |-> r.value[last(k)]])
Objects == {"object", "cut"}

(* The members of a structure: those of its table count, and only once.    *)
DecodeMember(table, members, i, depth, Dec(_, _, _)) ==
  LET m == members[i]
  IN Keyed(m,
       IF m.key \notin DOMAIN table.fields
       THEN IF table.open THEN Skipped(m.value, skipValue(m.value, depth))
            ELSE Refuse("unknown_field")
       ELSE IF \E j \in 1 .. i - 1 : members[j].key = m.key
            THEN Refuse("duplicate_field")
            ELSE Dec(table.fields[m.key], m.value, depth))
Judge(type, v) ==
  IF Unreadable(type, v) # "" THEN Refuse(Unreadable(type, v)) ELSE Ok(v)
Complete(type, table, r) ==
  IF r.word # "" THEN r
  ELSE IF ~(table.required \subseteq DOMAIN r.value) THEN Refuse("missing_field")
  ELSE Judge(type, [f \in DOMAIN table.fields |->
         IF f \in DOMAIN r.value THEN r.value[f] ELSE Zero(table.fields[f])])
DecodeStruct(type, x, depth, Dec(_, _, _)) ==
  LET table == Decoder[type]
  IN Enter(x, Objects, depth, Complete(type, table, Collect(x.v, Close(x,
       Results([i \in 1 .. Len(x.v) |->
         DecodeMember(table, x.v, i, depth + 1, Dec)])))))
decodeList(x, depth, Dec(_, _)) ==
  Enter(x, {"list"}, depth,
        Results([i \in 1 .. Len(x.v) |-> Dec(x.v[i], depth + 1)]))

strMap(x, depth) ==
  Enter(x, Objects, depth, Collect(x.v, Close(x,
    Results([i \in 1 .. Len(x.v) |->
      Keyed(x.v[i], OfKind(x.v[i].value, "name", name(x.v[i].value)))]))))

Largest(type) == IF type = "int" THEN WordMax ELSE 2^(WordBits \div 2 - 1) - 1
DecodeLeaf(type, x, depth) ==
  CASE type = "name" -> OfKind(x, "name", name(x))
    [] type = "text" -> OfKind(x, "text", str(x.v))
    [] type = "time" -> OfKind(x, "time", timestamp(x))
    [] type = "bool" -> OfKind(x, "bool", Ok(x.v))
    [] type = "raw"  -> Skipped(x, skipValue(x, depth))
    [] type = "strmap" -> strMap(x, depth)
    [] OTHER -> OfKind(x, "num", integer(x.v, -Largest(type) - 1, Largest(type)))

DecodeAttestation(x, depth) == DecodeStruct("Attestation", x, depth, DecodeLeaf)
DecodeInRecord(type, x, depth) ==
  IF type = "Attestations" THEN decodeList(x, depth, DecodeAttestation)
  ELSE DecodeLeaf(type, x, depth)
ReadRecord(x, depth) == DecodeStruct("Record", x, depth, DecodeInRecord)
DecodeInPage(type, x, depth) ==
  IF type = "Records" THEN decodeList(x, depth, ReadRecord) ELSE DecodeLeaf(type, x, depth)
ReadPage(x, depth) == DecodeStruct("Page", x, depth, DecodeInPage)
DecodeInCall(type, x, depth) ==
  CASE type = "Record" -> ReadRecord(x, depth)
    [] type = "Page"   -> ReadPage(x, depth)
    [] OTHER           -> DecodeLeaf(type, x, depth)
Decode(type, x, depth) == DecodeStruct(type, x, depth, DecodeInCall)

(* A whole document: a value, and whether anything stands behind it.       *)
Document(x) == [tree |-> x, more |-> FALSE]
Ended(doc, r) ==
  IF r.word = "" /\ doc.more THEN Refuse("trailing_bytes") ELSE r
Read(type, doc, depth) == Ended(doc, Decode(type, doc.tree, depth))
=============================================================================
