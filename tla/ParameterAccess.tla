--------------------------- MODULE ParameterAccess ---------------------------
(***************************************************************************)
(* A parameter whose value managed_readwrite_parameter keeps, and clients  *)
(* that read and write it: by generic values, as the command line does, or *)
(* by GET and PUT requests.  Rights are those of AccessControl and left    *)
(* out here.  Every action is the handler of one request.                  *)
(***************************************************************************)
EXTENDS ScgiValues

CONSTANTS Types,   \* the C++ types a parameter may have
          Inputs,  \* generic values that clients send
          Bodies,  \* bodies of PUT requests
          ContentTypes

ASSUME TypesAssumption == \A T \in Types : IsType(T)
ASSUME InputsAssumption == \A g \in Inputs : IsGeneric(g)

VARIABLES type,   \* T, never changes
          value,  \* value_
          reply   \* "ok" or the error that the last request was answered with

accessVars == <<type, value, reply>>

\* The value T() that a parameter starts with.
ScalarDefault(T) ==
  CASE T.kind = "bool" -> FALSE
    [] T.kind \in {"integral", "floating"} -> 0
    [] OTHER -> <<>>
Default(T) ==
  CASE T.kind = "array" -> [j \in 1..T.size |-> ScalarDefault(T.of)]
    [] T.kind = "tuple" -> [j \in DOMAIN T.of |-> ScalarDefault(T.of[j])]
    [] OTHER -> ScalarDefault(T)

AccessInit ==
  /\ type \in Types
  /\ value = Default(type)
  /\ reply = "ok"

\* Mutant: a value that cannot be converted leaves a fresh one.
AssignsDefault(g) ==
  LET converted == FromGeneric(type, g) IN
  IF ~converted.ok THEN value' = Default(type) /\ reply' = converted.error
  ELSE value' = converted.val /\ reply' = "ok"

\* generic_value(g) and value(v): an equal value ends the call, another one is
\* stored and emitted; emit() converts it back, which may throw.
Assign(g) ==
  LET converted == FromGeneric(type, g)
      emitted == ToGeneric(type, converted.val)
  IN IF ~converted.ok THEN value' = value /\ reply' = converted.error
     ELSE /\ value' = converted.val
          /\ reply' = IF converted.val = value \/ emitted.ok THEN "ok" ELSE emitted.error

\* Clients may write parameters unless there is no conversion to the type.  A
\* tuple with too few elements is read behind its end: none is sent.
MayBeSet(g) ==
  /\ type.kind # "chars"
  /\ type.kind = "tuple" /\ g.tag = "tuple" => Len(g.val) >= Len(type.of)

\* A client of the command line sets the parameter.
Set(g) ==
  /\ MayBeSet(g)
  /\ Assign(g)
  /\ UNCHANGED type

\* What the bodies of PUT requests are decoded to.
Decoded ==
  {Decode(content_type, body) : content_type \in ContentTypes, body \in Bodies} \ {Failed("undefined")}

\* A PUT request.
Put(decoded) ==
  /\ UNCHANGED type
  /\ IF decoded.ok THEN MayBeSet(decoded.val) /\ Assign(decoded.val)
     ELSE reply' = decoded.error /\ UNCHANGED value

\* A GET request, or a get of the command line.
Get ==
  LET read == ToGeneric(type, value) IN
  /\ reply' = IF read.ok THEN "ok" ELSE read.error
  /\ UNCHANGED <<type, value>>

AccessNext ==
  \/ \E g \in Inputs : Set(g)
  \/ \E decoded \in Decoded : Put(decoded)
  \/ Get

-----------------------------------------------------------------------------
(* Properties *)

\* The scalar v of type T is the one that s holds.  A cast of the least number
\* beyond a 64-bit type is let through, since the largest one was rounded up.
IsScalarOf(T, v, s) ==
  CASE T.kind = "integral" ->
         \/ 2 * v = IF s.tag = "real" THEN s.val ELSE 2 * s.val
         \/ T.bits = IntegerBits /\ s.tag = "real" /\ s.val = 2 * (Highest(T) + 1)
    [] T.kind = "floating" -> IF s.tag = "integer" THEN v = 2 * s.val
                              ELSE v = s.val \/ v = Rounded(s.val, T.digits)
    [] T.kind \in {"array", "container"} -> Memory(T.of, v) = s.val
    [] OTHER -> v = s.val

\* The value v of type T is the one that g holds.
Denotes(T, v, g) ==
  CASE IsSequence(T) -> Len(v) = Len(g.val) /\ \A j \in DOMAIN v : IsScalarOf(T.of, v[j], g.val[j])
    [] T.kind = "tuple" -> \A j \in DOMAIN v : IsScalarOf(T.of[j], v[j], g.val[j])
    [] OTHER -> IsScalarOf(T, v, g)

\* "throw invalid_value_error if conversion is not lossless" (conversion.h): a
\* value that is accepted is stored as it was sent, whichever types meet; only
\* reals are rounded to the digits of their type.
AcceptedIsExact ==
  \A g \in Inputs : MayBeSet(g) =>
    LET converted == FromGeneric(type, g) IN converted.ok => Denotes(type, converted.val, g)

\* A request that is refused leaves the value alone, except where the new
\* value cannot be read: then it was stored before emit() threw.
RefusedChangesNothing ==
  [][reply' # "ok" => value' = value \/ ~ToGeneric(type, value').ok]_accessVars

\* The content type of values of type T; binary values have none of their own.
ContentTypeOf(T) ==
  IF IsSequence(T) THEN ScalarTag(T.of) \o "_seq"
  ELSE IF ScalarTag(T) = "binary" THEN "string" ELSE ScalarTag(T)

\* What a PUT can carry: no tuples, integer sequences and contiguous memory,
\* and no octets at an end of the body that trimming would take for spaces.
CarriedByPut(T, body) ==
  /\ T.kind \notin {"tuple", "chars"}
  /\ T.kind \in {"array", "container"} => ~T.binary /\ T.of.kind # "integral"
  /\ body.tag = "octets" =>
       Trim(body.val) = IF ContentTypeOf(T) = "string_seq" /\ body.val # <<>>
                          THEN SubSeq(body.val, 1, Len(body.val) - 2)
                          ELSE body.val

\* The body that a GET returns is accepted by a PUT and restores the value.
GetPutKeepsValue ==
  LET read == ToGeneric(type, value)
      body == Encode(read.val)
      decoded == Decode(ContentTypeOf(type), body)
  IN type.kind # "tuple" /\ read.ok => (CarriedByPut(type, body) =>
       decoded.ok /\ FromGeneric(type, decoded.val) = Good(value))
=============================================================================
