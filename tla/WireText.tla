------------------------------ MODULE WireText ------------------------------
(***************************************************************************)
(* The leaves of the wire text of go/abstraction/logging/rec.go: how a     *)
(* string and an integer are written, and how the reader reads a spelling  *)
(* that any peer may have chosen.  A string is the sequence of its bytes;  *)
(* its text is what stands after the opening quote, the closing quote      *)
(* included.  A reading is a value or the word of a refusal.               *)
(***************************************************************************)
EXTENDS Integers, Sequences, SequencesExt

CONSTANT WordBits  \* 64 in the code

ASSUME WordAssumption == WordBits \in Nat /\ WordBits > 4

Ok(v) == [word |-> "", value |-> v]
Refuse(word) == [word |-> word, value |-> <<>>]

Quote == 34
Backslash == 92

-----------------------------------------------------------------------------
(* Writing.                                                                *)

(* The escapes of one letter, from the byte to the letter.                 *)
Letter == [c \in {34, 92, 8, 12, 10, 13, 9} |->
  CASE c = 8 -> 98 [] c = 12 -> 102 [] c = 10 -> 110 [] c = 13 -> 114
    [] c = 9 -> 116 [] OTHER -> c]
HexDigit(n) == IF n < 10 THEN 48 + n ELSE 87 + n

escByte(c) ==
  IF c \in DOMAIN Letter THEN <<Backslash, Letter[c]>>
  ELSE IF c < 32 THEN <<Backslash, 117, 48, 48, HexDigit(c \div 16), HexDigit(c % 16)>>
  ELSE <<c>>

esc(s) == Append(FlattenSeq([i \in DOMAIN s |-> escByte(s[i])]), Quote)

Decimal[u \in Nat] ==
  IF u < 10 THEN <<48 + u>> ELSE Append(Decimal[u \div 10], 48 + (u % 10))
num(n) == IF n < 0 THEN <<45>> \o Decimal[-n] ELSE Decimal[n]

-----------------------------------------------------------------------------
(* Reading a string.                                                       *)

appendRune(cp) ==
  LET tail(k) == 128 + ((cp \div 64^k) % 64)
  IN IF cp < 128 THEN <<cp>>
     ELSE IF cp < 2048 THEN <<192 + (cp \div 64), tail(0)>>
     ELSE IF cp < 65536 THEN <<224 + (cp \div 4096), tail(1), tail(0)>>
     ELSE <<240 + (cp \div 262144), tail(2), tail(1), tail(0)>>

Surrogates == 55296 .. 57343
High == 55296 .. 56319
Low == 56320 .. 57343

(* The length a leading byte announces, 0 for none, and its own bits.      *)
Lead(c) ==
  CASE c < 128       -> [n |-> 1, bits |-> c]
    [] c \div 32 = 6  -> [n |-> 2, bits |-> c % 32]
    [] c \div 16 = 14 -> [n |-> 3, bits |-> c % 16]
    [] c \div 8 = 30  -> [n |-> 4, bits |-> c % 8]
    [] OTHER         -> [n |-> 0, bits |-> 0]
Lowest == <<0, 128, 2048, 65536>>

(* One character at i, for its leading byte; it is no longer than it need  *)
(* be, and no half of a surrogate pair.                                    *)
CodePoint(b, i, l) ==
  FoldLeft(LAMBDA v, c : v * 64 + (c % 64), l.bits, SubSeq(b, i + 1, i + l.n - 1))
Scalar(cp, n) == cp >= Lowest[n] /\ cp <= 1114111 /\ cp \notin Surrogates
Character(b, i, l) ==
  /\ l.n > 0 /\ i + l.n <= Len(b) + 1
  /\ \A k \in 1 .. l.n - 1 : b[i + k] \div 64 = 2
  /\ Scalar(CodePoint(b, i, l), l.n)
validUTF8(b) ==
  LET from[i \in 1 .. Len(b) + 1] ==
        i > Len(b) \/ (Character(b, i, Lead(b[i])) /\ from[i + Lead(b[i]).n])
  IN from[1]

HexValue(c) ==
  CASE c \in 48 .. 57  -> c - 48
    [] c \in 97 .. 102 -> c - 87
    [] c \in 65 .. 70  -> c - 55
    [] OTHER           -> -1

(* Four hex digits from i on, -1 for anything else.                        *)
hex4(b, i) ==
  IF i + 3 > Len(b) \/ \E k \in i .. i + 3 : HexValue(b[k]) < 0 THEN -1
  ELSE HexValue(b[i]) * 4096 + HexValue(b[i + 1]) * 256
       + HexValue(b[i + 2]) * 16 + HexValue(b[i + 3])

(* The escape that begins at i: the bytes it stands for and where it ends. *)
Escaped(out, next) == [word |-> "", out |-> out, next |-> next]
StandsFor(letter) ==
  {c \in DOMAIN Letter : Letter[c] = letter} \union ({letter} \intersect {47})
LowHalf(b, i) ==
  IF i + 1 <= Len(b) /\ b[i] = Backslash /\ b[i + 1] = 117 THEN hex4(b, i + 2) ELSE -1
Paired(high, low) == 65536 + (high - 55296) * 1024 + (low - 56320)
Unicode(u, lo, i) ==
  IF u < 0 \/ u \in Low THEN Refuse("bad_string")
  ELSE IF u \notin High THEN Escaped(appendRune(u), i + 6)
  ELSE IF lo \notin Low THEN Refuse("bad_string")
  ELSE Escaped(appendRune(Paired(u, lo)), i + 12)
LetterOrUnicode(b, i, meant) ==
  IF meant # {} THEN Escaped(SetToSeq(meant), i + 2)
  ELSE IF b[i + 1] # 117 THEN Refuse("bad_string")
  ELSE Unicode(hex4(b, i + 2), LowHalf(b, i + 6), i)
escape(b, i) ==
  IF i >= Len(b) THEN Refuse("malformed") ELSE LetterOrUnicode(b, i, StandsFor(b[i + 1]))

(* The bytes up to the closing quote, which must be UTF-8.  Text behind    *)
(* that quote is not a member of anything.                                 *)
Piece(t, i) ==
  IF i > Len(t) THEN Refuse("malformed")
  ELSE CASE t[i] < 32           -> Refuse("bad_string")
         [] t[i] = Backslash    -> escape(t, i)
         [] t[i] = Quote        -> IF i < Len(t) THEN Refuse("malformed") ELSE Escaped(<<>>, 0)
         [] OTHER               -> Escaped(<<t[i]>>, i + 1)
Before(out, r) == IF r.word = "" THEN Ok(out \o r.value) ELSE r
Join(piece, rest) ==
  IF piece.word # "" THEN Refuse(piece.word)
  ELSE IF piece.next = 0 THEN Ok(<<>>)
  ELSE Before(piece.out, rest[piece.next])
Unbroken(r) == IF r.word = "" /\ ~validUTF8(r.value) THEN Refuse("bad_string") ELSE r
str(t) ==
  LET from[i \in 1 .. Len(t) + 12] == Join(Piece(t, i), from)
  IN Unbroken(from[1])

-----------------------------------------------------------------------------
(* Reading an integer in a word of WordBits bits.  The accumulator is      *)
(* unsigned and wraps; -1 stands for the refusal before a digit too many.  *)

WordMax == 2^(WordBits - 1) - 1
Digits == 48 .. 57

NextDigitWraps(u, d) == (u * 10 + (d - 48)) % 2^WordBits
NextDigit(u, d) ==
  IF u < 0 \/ u > WordMax \div 10 THEN -1
  ELSE (u * 10 + (d - 48)) % 2^WordBits

(* Where the digits that begin at i end.                                    *)
at(t, i) == IF i <= Len(t) THEN t[i] ELSE 0
Run(t, i) == CHOOSE j \in i .. Len(t) + 1 :
  at(t, j) \notin Digits /\ \A k \in i .. j - 1 : t[k] \in Digits
(* A leading zero stands alone.                                            *)
Whole(t, i) == IF at(t, i) = 48 THEN i + 1 ELSE Run(t, i)

Accumulated(t, i, end) ==
  LET u[j \in i - 1 .. end - 1] == IF j < i THEN 0 ELSE NextDigit(u[j - 1], t[j])
  IN u[end - 1]
InBounds(v, min, max) == v \in -WordMax - 1 .. WordMax /\ v >= min /\ v <= max
Converted(u, v, min, max) ==
  IF u < 0 \/ ~InBounds(v, min, max) THEN Refuse("number_spelling") ELSE Ok(v)
Signed(neg, u, min, max) ==
  IF neg /\ u = 0 THEN Refuse("number_spelling")
  ELSE Converted(u, IF neg THEN -u ELSE u, min, max)
Numeral(t, neg, i, end, min, max) ==
  IF end = i THEN Refuse("malformed")
  ELSE IF end <= Len(t) THEN Refuse("number_spelling")
  ELSE Signed(neg, Accumulated(t, i, end), min, max)
integer(t, min, max) ==
  IF t[1] = 45 THEN Numeral(t, TRUE, 2, Whole(t, 2), min, max)
  ELSE IF t[1] \in Digits THEN Numeral(t, FALSE, 1, Whole(t, 1), min, max)
  ELSE Refuse("wrong_type")

(* A number in an opaque value is walked, never converted.                 *)
skipNumber(t) ==
  LET i    == IF t[1] = 45 THEN 2 ELSE 1
      a    == Whole(t, i)
      b    == IF at(t, a) = 46 THEN Run(t, a + 1) ELSE a
      sign == IF at(t, b + 1) \in {43, 45} THEN 1 ELSE 0
      exp  == at(t, b) \in {69, 101}
      c    == IF exp THEN Run(t, b + 1 + sign) ELSE b
  IN IF a = i \/ b = a + 1 \/ (exp /\ c = b + 1 + sign) THEN "number_spelling"
     ELSE IF c <= Len(t) THEN "malformed" ELSE ""
=============================================================================
