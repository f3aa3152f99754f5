---------------------------- MODULE MCApplication ----------------------------
(***************************************************************************)
(* Application for TLC: every kind of type, at widths that keep their      *)
(* order, and inputs around the bounds of each.                            *)
(***************************************************************************)
EXTENDS Application

Integral(signed, bits, overflow) ==
  [kind |-> "integral", signed |-> signed, bits |-> bits, overflow |-> overflow]

Boolean == [kind |-> "bool"]
UInt16 == Integral(FALSE, 2, "lowest")
Int32 == Integral(TRUE, 3, "lowest")
Float == [kind |-> "floating", digits |-> 2, max |-> 96]
String == [kind |-> "string", binary |-> FALSE]
Array(T, binary) == [kind |-> "array", of |-> T, size |-> 2, binary |-> binary]
Container(T, binary) == [kind |-> "container", of |-> T, binary |-> binary]

MCTypes ==
  {Boolean, UInt16, Int32, Float, Real, String} \union
  {Integral(signed, IntegerBits, overflow) : signed \in BOOLEAN, overflow \in {"lowest", "max"}} \union
  {[kind |-> "string", binary |-> TRUE], [kind |-> "chars", binary |-> FALSE]} \union
  {Container(T, FALSE) : T \in {Boolean, Int32, Float, Real, String}} \union
  {Array(Real, FALSE), Array(Int32, TRUE), Container(Int32, TRUE)} \union
  {[kind |-> "tuple", of |-> <<Boolean, Int32, Float, String>>]}

Tag(tag, S) == {[tag |-> tag, val |-> v] : v \in S}

\* 2 is a space, 3 a colon, 4 to 6 are digits.
Strings == {<<>>, <<7>>, <<5, 3>>, <<7, 2>>}

MCScalars ==
  Tag("boolean", BOOLEAN) \union
  Tag("integer", {-32, -5, -4, -1, 0, 2, 3, 4, 5, 16, 17, 31}) \union
  Tag("real", {-66, -64, -9, -8, 0, 1, 4, 6, 7, 8, 14, 62, 64, 96, 120, 126, 128, 240, 256, NaN}) \union
  Tag("string", Strings) \union
  Tag("binary", {<<>>, <<7>>, <<2, 6>>, <<0, 1, 7>>})

Few == Tag("integer", {-4, 5}) \union Tag("real", {1, 4, NaN}) \union
       Tag("boolean", BOOLEAN) \union Tag("string", {<<>>, <<5, 3>>, <<7, 2>>})

MCInputs ==
  MCScalars \union
  Tag("sequence", {<<>>} \union {<<s>> : s \in Few} \union
    {p \in Few \X Few : p[1].tag \in {p[2].tag, "integer"}}) \union
  Tag("tuple", {<<b, i, r, s>> : b \in Tag("boolean", BOOLEAN), i \in Tag("integer", {2, 5}),
                                 r \in Tag("real", {1, 7}), s \in Tag("string", {<<7>>})})

MCBodies ==
  {Encode(g) : g \in MCInputs} \union
  {[tag |-> "octets", val |-> s] : s \in UNION {[1..n -> {0, 2, 5, 7}] : n \in 1..2}} \union
  {[tag |-> "octets", val |-> s] : s \in {<<5, 3, 7, 2, 2, 4, 3>>, <<6, 3, 7>>, <<5, 4, 3>>, <<5, 3, 7, 7>>}}

MCContentTypes ==
  {"boolean", "integer", "real", "string", "boolean_seq", "integer_seq", "real_seq",
   "string_seq", "tuple", "none"}
=============================================================================
