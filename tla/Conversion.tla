----------------------------- MODULE Conversion -----------------------------
(***************************************************************************)
(* Conversion between the value of a parameter, of a C++ type, and the     *)
(* generic value that clients exchange: scalar_conversion_helper and       *)
(* conversion_helper.                                                      *)
(*                                                                         *)
(* Widths are scaled: integer_t has IntegerBits bits and real_t            *)
(* RealDigits binary digits, and what matters is that there are fewer of   *)
(* the latter.  A number of a floating point type is given in halves, so   *)
(* that 1 stands for 0.5; NaN is a value of its own and an infinity a      *)
(* number beyond the largest one.  Memory is counted in octets.            *)
(***************************************************************************)
EXTENDS FiniteSets, Integers, SequencesExt

CONSTANTS IntegerBits,  \* of integer_t, long long
          RealDigits,   \* of real_t, double
          RealMax,      \* the largest real_t, in halves
          OctetBits,    \* of an octet
          NaN

ASSUME WidthsAssumption ==
  /\ {IntegerBits, RealDigits, RealMax, OctetBits} \subseteq Nat \ {0}
  /\ RealDigits < IntegerBits - 1
  /\ NaN \notin Int

(***************************************************************************)
(* Types: [kind |-> "bool"], "integral" with signed, bits and overflow,    *)
(* "floating" with digits and max, "string" with binary (the encoding      *)
(* hint), "chars" (a C string), "array" with of, size and binary,           *)
(* "container" with of and binary, and "tuple" with of, a sequence.  The   *)
(* field overflow is what a cast of a number out of range yields, which    *)
(* the language leaves undefined: "lowest" on x86, "max" on ARM.           *)
(***************************************************************************)
Integer == [kind |-> "integral", signed |-> TRUE, bits |-> IntegerBits]
Real == [kind |-> "floating", digits |-> RealDigits, max |-> RealMax]

Lowest(T) == IF T.signed THEN -(2 ^ (T.bits - 1)) ELSE 0
Highest(T) == IF T.signed THEN 2 ^ (T.bits - 1) - 1 ELSE 2 ^ T.bits - 1

\* The alternative of scalar_t that holds values of type T.
ScalarTag(T) ==
  CASE T.kind = "bool"     -> "boolean"
    [] T.kind = "integral" -> "integer"
    [] T.kind = "floating" -> "real"
    [] T.kind \in {"string", "chars"} -> IF T.binary THEN "binary" ELSE "string"
    [] OTHER -> "binary"

\* The types that need no other one and can be written: what is integral is as
\* wide as integer_t or fits into a real_t.
IsElementType(T) ==
  \/ T.kind \in {"bool", "string"}
  \/ /\ T.kind = "integral" /\ T.signed \in BOOLEAN /\ T.bits \in Nat \ {0}
     /\ T.bits <= RealDigits \/ T.bits = IntegerBits
  \/ T.kind = "floating" /\ T.digits \in Nat \ {0}

\* Integral values that fill their octets, which are those that binary arrays
\* and containers are modelled for.
IsMemoryType(T) == IsElementType(T) /\ T.kind = "integral" /\ T.bits % OctetBits = 0

\* The types of parameters; a C string is no element of another type.
IsType(T) ==
  \/ IsElementType(T) \/ T.kind = "chars"
  \/ /\ T.kind \in {"array", "container"}
     /\ T.kind = "array" => T.size \in Nat
     /\ \/ T.binary = FALSE /\ IsElementType(T.of)
        \/ T.binary = TRUE /\ IsMemoryType(T.of)
  \/ /\ T.kind = "tuple" /\ Len(T.of) \in Nat /\ DOMAIN T.of = 1..Len(T.of)
     /\ \A j \in DOMAIN T.of : IsElementType(T.of[j])

Good(v) == [ok |-> TRUE, val |-> v]
Failed(error) == [ok |-> FALSE, error |-> error]
wrong_type_error == Failed("wrong_type")
invalid_value_error == Failed("invalid_value")

-----------------------------------------------------------------------------
(* Numbers *)

Magnitude(n) == IF n < 0 THEN -n ELSE n

\* n rounded to d binary digits, to nearest, ties to even.
Rounded(n, d) ==
  LET m == Magnitude(n)
      e == CHOOSE k \in 0..m : m < 2 ^ (d + k) /\ \A j \in 0..(k - 1) : m >= 2 ^ (d + j)
      unit == 2 ^ e
      quotient == m \div unit
      rest == 2 * (m % unit)
      up == rest > unit \/ (rest = unit /\ quotient % 2 = 1)
      result == unit * (IF up THEN quotient + 1 ELSE quotient)
  IN IF n < 0 THEN -result ELSE result

\* convert_lossless_to_floating_point.
LosslessToFloatingPoint(T, i) ==
  LET limit == 2 ^ T.digits
  IN IF i > limit \/ i < -limit THEN invalid_value_error ELSE Good(2 * i)

\* Mutant: the fraction is cut off.
TruncateToIntegral(T, r) ==
  IF r = NaN \/ (r \div 2) \notin Lowest(T)..Highest(T) THEN invalid_value_error
  ELSE Good(r \div 2)

\* convert_lossless_to_integral: lowest and max are compared as real_t, where
\* the largest 64-bit number is rounded up to one that does not fit.
LosslessToIntegral(T, r) ==
  CASE r = NaN -> invalid_value_error
    [] r # NaN /\ (r % 2 # 0 \/ r < Rounded(2 * Lowest(T), RealDigits)
                            \/ r > Rounded(2 * Highest(T), RealDigits)) -> invalid_value_error
    [] OTHER -> IF r \div 2 \in Lowest(T)..Highest(T) THEN Good(r \div 2)
                ELSE Good(IF T.overflow = "max" THEN Highest(T) ELSE Lowest(T))

\* convert_lossless_integer.
LosslessInteger(T, i) ==
  IF i \in Lowest(T)..Highest(T) THEN Good(i) ELSE invalid_value_error

\* convert_floating_point_with_range_checking: NaN passes, an infinity does not.
WithRangeChecking(T, r) ==
  CASE r = NaN -> Good(NaN)
    [] r # NaN /\ Magnitude(r) > T.max -> invalid_value_error
    [] OTHER -> Good(Rounded(r, T.digits))

-----------------------------------------------------------------------------
(* Scalars: records [tag, val] *)

IntegralFromScalar(T, s) ==
  CASE s.tag = "real"    -> LosslessToIntegral(T, s.val)
    [] s.tag = "integer" -> LosslessInteger(T, s.val)
    [] OTHER             -> wrong_type_error

FloatingFromScalar(T, s) ==
  CASE s.tag = "integer" -> LosslessToFloatingPoint(T, s.val)
    [] s.tag = "real"    -> WithRangeChecking(T, s.val)
    [] OTHER             -> wrong_type_error

StringFromScalar(T, s) ==
  IF s.tag = "string" \/ (T.binary /\ s.tag = "binary") THEN Good(s.val) ELSE wrong_type_error

\* sizeof(T) in octets, and the octets of a sequence of integral values, in
\* little-endian order.
SizeOf(T) == (T.bits + OctetBits - 1) \div OctetBits
Octets(n, k) == [j \in 1..k |-> (n \div 2 ^ (OctetBits * (j - 1))) % 2 ^ OctetBits]
Memory(T, elems) ==
  [j \in 1..(Len(elems) * SizeOf(T)) |->
     Octets(elems[((j - 1) \div SizeOf(T)) + 1], SizeOf(T))[((j - 1) % SizeOf(T)) + 1]]

\* The integral values that octets in memory stand for.
Unsigned(s) ==
  LET from[j \in 1..(Len(s) + 1)] == IF j = Len(s) + 1 THEN 0 ELSE s[j] + 2 ^ OctetBits * from[j + 1]
  IN from[1]
ValueOf(T, s) ==
  LET u == Unsigned(s) % 2 ^ T.bits IN IF T.signed /\ u > Highest(T) THEN u - 2 ^ T.bits ELSE u
ElementsOf(T, s) ==
  [j \in 1..(Len(s) \div SizeOf(T)) |-> ValueOf(T, SubSeq(s, (j - 1) * SizeOf(T) + 1, j * SizeOf(T)))]

\* std::array<> with binary encoding: the size must be that of the array.
ArrayFromScalar(T, s) ==
  CASE s.tag # "binary"                       -> wrong_type_error
    [] Len(s.val) # T.size * SizeOf(T.of) -> invalid_value_error
    [] OTHER                                  -> Good(ElementsOf(T.of, s.val))

\* Other containers: the size must be a multiple of that of an element.
ContainerFromScalar(T, s) ==
  CASE s.tag # "binary"                  -> wrong_type_error
    [] Len(s.val) % SizeOf(T.of) # 0 -> invalid_value_error
    [] OTHER                             -> Good(ElementsOf(T.of, s.val))

\* scalar_conversion_helper::from_generic.
FromScalar(T, s) ==
  CASE T.kind = "bool"      -> IF s.tag = "boolean" THEN Good(s.val) ELSE wrong_type_error
    [] T.kind = "integral"  -> IntegralFromScalar(T, s)
    [] T.kind = "floating"  -> FloatingFromScalar(T, s)
    [] T.kind = "string"    -> StringFromScalar(T, s)
    [] T.kind = "array"     -> ArrayFromScalar(T, s)
    [] T.kind = "container" -> ContainerFromScalar(T, s)

\* scalar_conversion_helper::to_generic.
ToScalar(T, v) ==
  LET converted == CASE T.kind = "integral" -> LosslessInteger(Integer, v)
                     [] T.kind = "floating" -> WithRangeChecking(Real, v)
                     [] T.kind \in {"array", "container"} -> Good(Memory(T.of, v))
                     [] OTHER -> Good(v)
  IN IF converted.ok THEN Good([tag |-> ScalarTag(T), val |-> converted.val]) ELSE converted

-----------------------------------------------------------------------------
(* Values: a scalar, or [tag |-> "sequence" or "tuple", val |-> a sequence of scalars] *)

Scalars == {"boolean", "integer", "real", "string", "binary"}
IsScalar(s) ==
  /\ s.tag \in Scalars
  /\ s.tag = "integer" => s.val \in Int
  /\ s.tag = "real" => s.val \in Int \union {NaN}
  /\ s.tag \in {"string", "binary"} => s.val \in Seq(0..(2 ^ OctetBits - 1))
IsGeneric(g) ==
  \/ IsScalar(g)
  \/ /\ g.tag \in {"sequence", "tuple"} /\ Len(g.val) \in Nat /\ DOMAIN g.val = 1..Len(g.val)
     /\ \A j \in DOMAIN g.val : IsScalar(g.val[j])
IsSequence(T) == T.kind \in {"array", "container"} /\ ~T.binary

\* The results of an element-wise conversion: all of them, or the first error.
AllGood(results) ==
  LET bad == {j \in DOMAIN results : ~results[j].ok}
  IN IF bad = {} THEN Good([j \in DOMAIN results |-> results[j].val])
     ELSE results[CHOOSE j \in bad : \A k \in bad : j <= k]

\* std::array<> and SequenceContainers; only the former has a size to check.
SequenceFromGeneric(T, g) ==
  CASE g.tag # "sequence" -> wrong_type_error
    [] g.tag = "sequence" /\ T.kind = "array" /\ Len(g.val) # T.size -> invalid_value_error
    [] OTHER -> AllGood([j \in DOMAIN g.val |-> FromScalar(T.of, g.val[j])])

\* std::tuple<>: elements in excess are ignored; that of a tuple with too few
\* of them is undefined behaviour, and no result here.
TupleFromGeneric(T, g) ==
  IF g.tag # "tuple" THEN wrong_type_error
  ELSE AllGood([j \in DOMAIN T.of |-> FromScalar(T.of[j], g.val[j])])

\* conversion_helper::from_generic.
FromGeneric(T, g) ==
  CASE IsSequence(T)       -> SequenceFromGeneric(T, g)
    [] T.kind = "tuple" -> TupleFromGeneric(T, g)
    [] OTHER -> IF g.tag \in Scalars THEN FromScalar(T, g) ELSE wrong_type_error

Tagged(tag, result) == IF result.ok THEN Good([tag |-> tag, val |-> result.val]) ELSE result

\* conversion_helper::to_generic.
ToGeneric(T, v) ==
  CASE IsSequence(T)       -> Tagged("sequence", AllGood([j \in DOMAIN v |-> ToScalar(T.of, v[j])]))
    [] T.kind = "tuple" -> Tagged("tuple", AllGood([j \in DOMAIN v |-> ToScalar(T.of[j], v[j])]))
    [] OTHER -> ToScalar(T, v)
=============================================================================
