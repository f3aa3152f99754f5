------------------------------ MODULE CliCodec ------------------------------
(***************************************************************************)
(* The conversions between values and the text of command lines: encoder,  *)
(* backslash_escape_decoder and the base64 functions.  A scalar is its     *)
(* type and data: the bytes of a string or binary, 0 or 1, an integer.  A  *)
(* real is kept as its text, which std::stod rejects without digits and    *)
(* out of its range.                                                       *)
(***************************************************************************)
EXTENDS CliScanner

CONSTANTS IntMax,      \* the largest int, which is what std::stoi converts to
          IntegerMax,  \* the largest integer_t
          RealOrder    \* the reals have the decimal exponents -RealOrder..RealOrder

ASSUME RangeAssumption ==
  /\ IntMax \in Nat /\ IntegerMax \in Nat /\ IntMax <= IntegerMax
  /\ RealOrder \in Nat

Scalar(type, data) == [type |-> type, data |-> data]
Boolean(b) == Scalar("boolean", <<IF b THEN 1 ELSE 0>>)
Invalid == Scalar("invalid", <<>>)

\* The table escape_characters.
Escapes == {<<7, 97>>, <<8, 98>>, <<12, 102>>, <<10, 110>>, <<13, 114>>, <<9, 116>>, <<11, 118>>,
            <<92, 92>>, <<39, 39>>, <<34, 34>>, <<63, 63>>}
HexDigits == Digits \union (65..70) \union (97..102)
HexValue(c) == IF c \in Digits THEN c - 48 ELSE IF c \in 65..70 THEN c - 55 ELSE c - 87
HexChar(n) == IF n < 10 THEN n + 48 ELSE n + 87

\* backslash_escape_decoder on what is between the quotes: the bytes, or Invalid
\* if it throws parse_error.
Unescape(s) ==
  LET Step(d, c) ==
        LET Bad == [d EXCEPT !.state = "bad"]
            Out(b) == [state |-> "none", hex |-> 0, out |-> Append(d.out, b)]
        IN CASE d.state = "none" /\ c = Backslash -> [d EXCEPT !.state = "backslash"]
             [] d.state = "none" /\ c \in 32..127 \ {Backslash} -> Out(c)
             [] d.state = "backslash" /\ c \in {88, 120} -> [d EXCEPT !.state = "hex_digit1"]
             [] d.state = "backslash" /\ (\E e \in Escapes : e[2] = c) ->
                  Out((CHOOSE e \in Escapes : e[2] = c)[1])
             [] d.state = "hex_digit1" /\ c \in HexDigits ->
                  [d EXCEPT !.state = "hex_digit2", !.hex = HexValue(c)]
             [] d.state = "hex_digit2" /\ c \in HexDigits -> Out(16 * d.hex + HexValue(c))
             [] OTHER -> Bad
      end == FoldLeft(Step, [state |-> "none", hex |-> 0, out |-> <<>>], s)
  IN IF end.state = "none" THEN Scalar("string", end.out) ELSE Invalid

\* Mutant: a byte below 16 is written with one digit.
EscapedNarrow(b) ==
  IF \E e \in Escapes : e[1] = b THEN <<Backslash, (CHOOSE e \in Escapes : e[1] = b)[2]>>
  ELSE IF b \in 32..127 THEN <<b>>
  ELSE <<Backslash, 120>> \o (IF b < 16 THEN <<>> ELSE <<HexChar(b \div 16)>>) \o <<HexChar(b % 16)>>

\* The body of the loop in encoder::operator()(const string_t&).
Escaped(b) ==
  IF \E e \in Escapes : e[1] = b THEN <<Backslash, (CHOOSE e \in Escapes : e[1] = b)[2]>>
  ELSE IF b \in 32..127 THEN <<b>>
  ELSE <<Backslash, 120, HexChar(b \div 16), HexChar(b % 16)>>

Sixes == [n \in 0..63 |-> IF n < 26 THEN n + 65 ELSE IF n < 52 THEN n + 71
                          ELSE IF n < 62 THEN n - 4 ELSE IF n = 62 THEN 43 ELSE 47]

\* base64_encode: six bits each, padded to groups of four.
Base64Encode(bin) ==
  LET Byte(i) == IF i <= Len(bin) THEN bin[i] ELSE 0
      Bits(k) == LET i == 3 * (k \div 4) IN   \* of the k-th character, from 0
                 CASE k % 4 = 0 -> Byte(i + 1) \div 4
                   [] k % 4 = 1 -> (Byte(i + 1) % 4) * 16 + Byte(i + 2) \div 16
                   [] k % 4 = 2 -> (Byte(i + 2) % 16) * 4 + Byte(i + 3) \div 64
                   [] k % 4 = 3 -> Byte(i + 3) % 64
      padding == (3 - (Len(bin) % 3)) % 3
      digits == (4 * (Len(bin) + padding)) \div 3 - padding
  IN [k \in 1..digits |-> Sixes[Bits(k - 1)]] \o [k \in 1..padding |-> Equal]

\* base64decode: padding is read as zeros and removed from the end.
Base64Decode(s) ==
  LET Six(i) == IF s[i] = Equal THEN 0 ELSE CHOOSE n \in 0..63 : Sixes[n] = s[i]
      padding == Cardinality({i \in DOMAIN s : s[i] = Equal})
      Byte(i) == LET k == 4 * (i \div 3) IN   \* the i-th byte, from 0
                 CASE i % 3 = 0 -> Six(k + 1) * 4 + Six(k + 2) \div 16
                   [] i % 3 = 1 -> (Six(k + 2) % 16) * 16 + Six(k + 3) \div 4
                   [] i % 3 = 2 -> (Six(k + 3) % 4) * 64 + Six(k + 4)
  IN [i \in 1..((3 * Len(s)) \div 4 - padding) |-> Byte(i - 1)]

\* What base64decode is defined for: whole groups, not of padding alone.
IsBase64(s) ==
  /\ Len(s) % 4 = 0
  /\ 4 * Cardinality({i \in DOMAIN s : s[i] = Equal}) <= 3 * Len(s)

\* The number that s is, or one beyond limit.
Decimal(s, limit) ==
  LET Add(n, c) == IF n > limit THEN n ELSE 10 * n + c - 48
      magnitude == FoldLeft(Add, 0, Unsigned(s))
  IN IF s[1] = Minus THEN -magnitude ELSE magnitude

\* std::stoi: out_of_range beyond an int.
IntegerOf(s) ==
  LET n == Decimal(s, IntMax) IN
  IF n \in (-IntMax - 1)..IntMax THEN Scalar("integer", <<n>>) ELSE Invalid

\* std::stod: invalid_argument if no digit precedes the exponent, out_of_range if
\* the number is too great or, unless it is zero, too small.
RealOf(s) ==
  LET e == SelectInSeq(s, LAMBDA c : c \in Exponents)
      mantissa == Unsigned(IF e = 0 THEN s ELSE Before(s, e))
      digits == SelectSeq(mantissa, LAMBDA c : c \in Digits)
      first == SelectInSeq(digits, LAMBDA c : c # 48)
      point == SelectInSeq(mantissa, LAMBDA c : c = Dot)
      exponent == IF e = 0 THEN 0 ELSE Decimal(After(s, e), RealOrder + Len(s))
      InRange == first # 0 => point - 1 - first + exponent \in (-RealOrder)..RealOrder
  IN IF digits # <<>> /\ InRange THEN Scalar("real", s) ELSE Invalid

\* The decimal representation or, in hexadecimal mode, that of the two's
\* complement.
IntegerText(n, base) ==
  LET Text[m \in 0..(2 * IntegerMax + 1)] ==
        IF m < base THEN <<HexChar(m)>> ELSE Append(Text[m \div base], HexChar(m % base))
  IN IF base = 16 THEN Text[n % (2 * (IntegerMax + 1))]
     ELSE IF n < 0 THEN <<Minus>> \o Text[-n] ELSE Text[n]

\* encoder::operator() of a scalar, with the base of the stream; reals are left
\* out.
ScalarText(v, base) ==
  CASE v.type = "boolean" -> IF v = Boolean(TRUE) THEN <<Hash, 116>> ELSE <<Hash, 102>>
    [] v.type = "integer" -> IntegerText(v.data[1], base)
    [] v.type = "string" -> FoldLeft(LAMBDA t, b : t \o Escaped(b), <<Quote>>, v.data) \o <<Quote>>
    [] v.type = "binary" -> <<Ampersand>> \o Base64Encode(v.data)

\* std::hex, which is written before an escaped byte, stays in force.
ScalarBase(v, base) ==
  IF v.type = "string" /\ \E i \in DOMAIN v.data : Len(Escaped(v.data[i])) = 4 THEN 16 ELSE base

\* encoder::operator() of sequences and tuples, from the i-th item.
ItemsText(items) ==
  LET Add(t, v) == [text |-> (IF t.text = <<>> THEN <<>> ELSE Append(t.text, Comma))
                               \o ScalarText(v, t.base),
                    base |-> ScalarBase(v, t.base)]
  IN FoldLeft(Add, [text |-> <<>>, base |-> 10], items).text

\* encoder::operator() of a value.
Encode(v) ==
  CASE v.kind = "scalar" -> ScalarText(v.items[1], 10)
    [] v.kind = "sequence" -> <<91>> \o ItemsText(v.items) \o <<93>>
    [] v.kind = "tuple" -> <<123>> \o ItemsText(v.items) \o <<125>>
=============================================================================
