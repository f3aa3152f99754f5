----------------------------- MODULE ScgiValues -----------------------------
(***************************************************************************)
(* The encoding of values in SCGI replies (js_value_encoder) and their     *)
(* decoding from the bodies of PUT requests (handle_put_request).          *)
(*                                                                         *)
(* A body is a record with a tag: "word" for the text of a boolean,       *)
(* "number" for that of a number, given in halves and with whether it is   *)
(* printed with an exponent, "octets" for a sequence of octets, and        *)
(* "fields" for the elements of a tuple, which no PUT takes.  The octets   *)
(* are those of the scaled widths of Conversion; Space, Colon and the      *)
(* digits from Zero are among them.                                        *)
(***************************************************************************)
EXTENDS Conversion

CONSTANTS Space,       \* any octet that is_space() accepts, CR and LF included
          Colon,
          Zero,        \* the octet of the digit 0, followed by those of the others
          Base,        \* the number of digits there are
          WireBits,    \* of an integer in a sequence: int32_t
          RealOctets,  \* of a real in a sequence
          MaxPlain     \* reals from here on are printed with an exponent, in halves

ASSUME AlphabetAssumption ==
  /\ {Space, Colon} \union Zero..(Zero + Base - 1) \subseteq 0..(2 ^ OctetBits - 1)
  /\ Space \notin {Colon} \union Zero..(Zero + Base - 1)
  /\ Colon \notin Zero..(Zero + Base - 1)
  /\ Base >= 2
  /\ WireBits < IntegerBits

Wire == [kind |-> "integral", signed |-> TRUE, bits |-> WireBits]

\* The octets of a real: an injective code in place of IEEE 754.
NaNCode == 2 ^ (OctetBits * RealOctets - 1) - 1
ASSUME CodeAssumption == RealMax < NaNCode
RealCode(r) == Octets(IF r = NaN THEN NaNCode ELSE r, RealOctets)
RealFromCode(s) ==
  LET n == ValueOf([kind |-> "integral", signed |-> TRUE, bits |-> OctetBits * RealOctets], s)
  IN IF n = NaNCode THEN NaN ELSE n

-----------------------------------------------------------------------------
(* js_value_encoder *)

\* Mutant: the size counts the line end.
BencodedWithLineEnd(s) == <<Zero + Len(s) + 2, Colon>> \o s \o <<Space, Space>>

\* Bencode of a string of less than Base octets, followed by CR LF.
Bencoded(s) == <<Zero + Len(s), Colon>> \o s \o <<Space, Space>>

\* sequence_element_encoder: an integer is cut to its low octets.
ElementOctets(s) ==
  CASE s.tag = "boolean" -> <<IF s.val THEN 1 ELSE 0>>
    [] s.tag = "integer" -> Octets(s.val, SizeOf(Wire))
    [] s.tag = "real"    -> RealCode(s.val)
    [] s.tag \in {"string", "binary"} -> Bencoded(s.val)

Encode(g) ==
  CASE g.tag = "boolean" -> [tag |-> "word", val |-> g.val]
    [] g.tag = "integer" -> [tag |-> "number", val |-> 2 * g.val, exponent |-> FALSE]
    [] g.tag = "real" ->
         [tag |-> "number", val |-> g.val, exponent |-> g.val # NaN /\ Magnitude(g.val) >= MaxPlain]
    [] g.tag \in {"string", "binary"} -> [tag |-> "octets", val |-> g.val]
    [] g.tag = "sequence" ->
         [tag |-> "octets", val |-> FlattenSeq([j \in DOMAIN g.val |-> ElementOctets(g.val[j])])]
    [] g.tag = "tuple" -> [tag |-> "fields", val |-> [j \in DOMAIN g.val |-> g.val[j].val]]

-----------------------------------------------------------------------------
(* handle_put_request *)

not_implemented_error == Failed("not_implemented")

\* boost::algorithm::trim_if with is_space.
Trim(s) ==
  LET kept == {j \in DOMAIN s : s[j] # Space}
      first == CHOOSE j \in kept : \A k \in kept : j <= k
      end == CHOOSE j \in kept : \A k \in kept : j >= k
  IN IF kept = {} THEN <<>> ELSE SubSeq(s, first, end)

\* boost::lexical_cast of the first word of the body, to integer_t and to real_t.
IntegerFromText(body) ==
  IF body.tag = "number" /\ body.val # NaN /\ ~body.exponent
       /\ body.val % 2 = 0 /\ body.val \div 2 \in Lowest(Integer)..Highest(Integer)
    THEN Good([tag |-> "integer", val |-> body.val \div 2]) ELSE invalid_value_error
RealFromText(body) ==
  IF body.tag = "number"
    THEN Good([tag |-> "real", val |-> IF body.val = NaN THEN NaN ELSE Rounded(body.val, RealDigits)])
    ELSE invalid_value_error

\* char is signed: the upper half of the octets is negative.
BooleanElements(s) ==
  [j \in DOMAIN s |-> [tag |-> "boolean", val |-> s[j] \in 1..(2 ^ (OctetBits - 1) - 1)]]

\* The body as an array of integer_t, wider than the elements of a reply.
IntegerElements(s) ==
  LET elems == ElementsOf(Integer, s)
  IN [j \in DOMAIN elems |-> [tag |-> "integer", val |-> elems[j]]]

RealElements(s) ==
  [j \in 1..(Len(s) \div RealOctets) |->
     [tag |-> "real", val |-> RealFromCode(SubSeq(s, (j - 1) * RealOctets + 1, j * RealOctets))]]

\* bencode_string_parser on s from position i: the length, a colon and as many
\* octets; next is behind them.
Bencode(s, i) ==
  LET digits == {j \in i..Len(s) : \A k \in i..j : s[k] \in Zero..(Zero + Base - 1)}
      colon == i + Cardinality(digits)
      length == FoldLeft(LAMBDA n, digit : Base * n + digit - Zero, 0, SubSeq(s, i, colon - 1))
  IN IF digits # {} /\ colon <= Len(s) /\ s[colon] = Colon /\ colon + length <= Len(s)
       THEN [good |-> TRUE, data |-> SubSeq(s, colon + 1, colon + length), next |-> colon + length + 1]
       ELSE [good |-> FALSE]

\* The loop over bencoded strings: two octets are skipped behind each but the
\* last.  With a single octet left the iterator leaves the body, which is
\* undefined behaviour; no action takes that result.
StringElements(s) ==
  LET rest[i \in 1..(Len(s) + 2)] ==
        IF i = Len(s) + 1 THEN Good(<<>>)
        ELSE IF i = Len(s) + 2 THEN Failed("undefined")
        ELSE LET parsed == Bencode(s, i) IN
             IF ~parsed.good THEN invalid_value_error
             ELSE LET behind == rest[IF parsed.next > Len(s) THEN parsed.next ELSE parsed.next + 2]
                  IN IF behind.ok
                       THEN Good(<<[tag |-> "string", val |-> parsed.data]>> \o behind.val)
                       ELSE behind
  IN rest[1]

\* The value of a PUT request with a body and a content type.
Decode(content_type, body) ==
  LET s == IF body.tag = "octets" THEN Trim(body.val) ELSE <<>>
      WholeElements(size) == Len(s) % size = 0
      Sequence(elems) == Good([tag |-> "sequence", val |-> elems])
  IN CASE content_type = "boolean" ->
            IF body.tag = "word" THEN Good([tag |-> "boolean", val |-> body.val]) ELSE invalid_value_error
       [] content_type = "integer" -> IntegerFromText(body)
       [] content_type = "real"    -> RealFromText(body)
       [] content_type = "string"  -> Good([tag |-> "string", val |-> s])
       [] content_type = "boolean_seq" -> Sequence(BooleanElements(s))
       [] content_type = "integer_seq" ->
            IF WholeElements(SizeOf(Integer)) THEN Sequence(IntegerElements(s)) ELSE invalid_value_error
       [] content_type = "real_seq" ->
            IF WholeElements(RealOctets) THEN Sequence(RealElements(s)) ELSE invalid_value_error
       [] content_type = "string_seq" -> Tagged("sequence", StringElements(s))
       [] content_type = "tuple" -> not_implemented_error
       [] OTHER -> wrong_type_error
=============================================================================
