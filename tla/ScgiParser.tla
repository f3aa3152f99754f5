----------------------------- MODULE ScgiParser -----------------------------
(***************************************************************************)
(* decof::scgi::request_parser, a byte-driven automaton, and a declarative *)
(* definition of the requests it should accept.                            *)
(*                                                                         *)
(* A byte is a number.  The names and values of the headers that the       *)
(* parser looks at are bytes of their own: CONTENT_LENGTH is one byte      *)
(* here, so that the lengths in a request stay small.  CONTENT_TYPE is     *)
(* left out; REMOTE_ADDR and REMOTE_PORT are one header.                   *)
(***************************************************************************)
EXTENDS Naturals, SequencesExt

\* The largest number of type size_t.
CONSTANT SizeMax
ASSUME SizeAssumption == SizeMax \in Nat \ {0}

Digit == 0..9
Colon == 10
Comma == 11
Nul == 12
Space == 13
Letter == 14
Plus == 15
Minus == 16
ContentLength == 20
Scgi == 21
RequestMethod == 22
RequestUri == 23
Remote == 24

\* The values of REQUEST_METHOD that the parser knows.
Method == [b \in 30..32 |-> CASE b = 30 -> "get" [] b = 31 -> "put" [] b = 32 -> "post"]
KnownMethod(v) == Len(v) = 1 /\ v[1] \in DOMAIN Method

Byte == Digit \union 10..16 \union 20..24 \union 30..33

\* The number that a string of digits stands for.
Number(s) ==
  LET value[i \in 0..Len(s)] == IF i = 0 THEN 0 ELSE 10 * value[i - 1] + s[i]
  IN value[Len(s)]

IsNumber(s) == s # <<>> /\ ToSet(s) \subseteq Digit

\* A string of digits that boost::lexical_cast takes for a size_t.
IsLength(s) == IsNumber(s) /\ Number(s) <= SizeMax

\* boost::lexical_cast<size_t>, as the header CONTENT_LENGTH uses it: a sign may
\* be in front of the digits, and with a minus the number wraps around.
Unsigned(v) == IF v # <<>> /\ v[1] \in {Plus, Minus} THEN Tail(v) ELSE v
IsSize(v) == IsLength(Unsigned(v))
Size(v) ==
  LET n == Number(Unsigned(v)) IN IF v[1] = Minus /\ n > 0 THEN SizeMax + 1 - n ELSE n

\* The parser as reset leaves it; result is that of the last byte.
ResetParser ==
  [state |-> "netstring_length", lengthString |-> <<>>, length |-> 0, count |-> 0,
   header |-> <<>>, value |-> <<>>, headers |-> {}, method |-> "undefined", uri |-> <<>>,
   contentLength |-> 0, body |-> <<>>, result |-> "indeterminate"]

Bad(p) == [p EXCEPT !.result = "bad"]

-----------------------------------------------------------------------------
(* consume, one operator per state; count is already incremented *)

ConsumeLength(p, b) ==
  IF b \in Digit THEN [p EXCEPT !.lengthString = Append(@, b)]
  ELSE IF b = Colon /\ p.lengthString # <<>> /\ Number(p.lengthString) <= SizeMax
    THEN [p EXCEPT !.length = Number(p.lengthString), !.count = 0, !.state = "header_start"]
  ELSE Bad(p)

\* The states header_start and header_name; the latter is never entered.
ConsumeName(p, b) ==
  IF b = Comma
    THEN IF p.length # p.count - 1 THEN Bad(p)
         ELSE IF p.contentLength > 0 THEN [p EXCEPT !.state = "body_range"]
         ELSE [p EXCEPT !.result = "good"]
  ELSE IF p.count >= p.length \/ (b = Nul /\ p.header = <<>>) THEN Bad(p)
  ELSE IF b = Nul THEN [p EXCEPT !.state = "header_value"]
  ELSE [p EXCEPT !.header = Append(@, b)]

\* Mutant: that the second header is SCGI is not checked.
EndHeaderUnchecked(p) ==
  IF p.headers = {} /\ (p.header # <<ContentLength>> \/ ~IsSize(p.value)) THEN Bad(p)
  ELSE [p EXCEPT
    !.contentLength = IF p.headers = {} THEN Size(p.value) ELSE @,
    !.method = IF p.header = <<RequestMethod>> /\ KnownMethod(p.value) THEN Method[p.value[1]] ELSE @,
    !.uri = IF p.header = <<RequestUri>> THEN p.value ELSE @,
    !.headers = @ \union {p.header},
    !.header = <<>>, !.value = <<>>, !.state = "header_start"]

\* The end of a header's value: the first header has to be CONTENT_LENGTH, the
\* second SCGI.
EndHeader(p) ==
  IF \/ p.headers = {} /\ (p.header # <<ContentLength>> \/ ~IsSize(p.value))
     \/ Cardinality(p.headers) = 1 /\ (p.header # <<Scgi>> \/ p.value # <<1>>)
    THEN Bad(p)
  ELSE [p EXCEPT
    !.contentLength = IF p.headers = {} THEN Size(p.value) ELSE @,
    !.method = IF p.header = <<RequestMethod>> /\ KnownMethod(p.value) THEN Method[p.value[1]] ELSE @,
    !.uri = IF p.header = <<RequestUri>> THEN p.value ELSE @,
    !.headers = @ \union {p.header},
    !.header = <<>>, !.value = <<>>, !.state = "header_start"]

ConsumeValue(p, b) ==
  IF p.count > p.length THEN Bad(p)
  ELSE IF b = Nul THEN EndHeader(p)
  ELSE [p EXCEPT !.value = Append(@, b)]

\* The guard lets one byte more than the body pass.
ConsumeBody(p, b) ==
  IF Len(p.body) > p.contentLength THEN Bad(p)
  ELSE [p EXCEPT !.body = Append(@, b),
                 !.result = IF Len(p.body) + 1 = p.contentLength THEN "good" ELSE @]

Consume(parser, b) ==
  LET p == [parser EXCEPT !.count = @ + 1, !.result = "indeterminate"] IN
  CASE p.state = "netstring_length" -> ConsumeLength(p, b)
    [] p.state = "header_start" -> ConsumeName(p, b)
    [] p.state = "header_value" -> ConsumeValue(p, b)
    [] p.state = "body_range" -> ConsumeBody(p, b)

\* The parser behind each byte of a chunk: parse stops at the first bad byte,
\* but goes on after a complete request.
Parsed(parser, chunk) ==
  LET after[n \in 0..Len(chunk)] ==
        IF n = 0 THEN parser
        ELSE LET p == after[n - 1] IN IF p.result = "bad" THEN p ELSE Consume(p, chunk[n])
  IN after

\* Mutant: each chunk of input is parsed from the start.
ParseAfresh(parser, chunk) == Parsed(ResetParser, chunk)[Len(chunk)]

\* parse, on a chunk that is not empty: the result is that of its last byte.
Parse(parser, chunk) == Parsed([parser EXCEPT !.result = "indeterminate"], chunk)[Len(chunk)]

-----------------------------------------------------------------------------
(* Reference: a request is a netstring of header fields, followed by a body. *)
(* A length is what lexical_cast takes for one, a signed one included.       *)

\* Where the fields of c end, each with a NUL.
Nuls(c) == {i \in DOMAIN c : c[i] = Nul}
Ends(c) ==
  [k \in 1..Cardinality(Nuls(c)) |->
     CHOOSE i \in Nuls(c) : Cardinality({j \in Nuls(c) : j <= i}) = k]

Fields(c) ==
  [k \in DOMAIN Ends(c) |-> SubSeq(c, IF k = 1 THEN 1 ELSE Ends(c)[k - 1] + 1, Ends(c)[k] - 1)]

\* Names and values alternate.
HeadersOf(f) == [i \in 1..(Len(f) \div 2) |-> [name |-> f[2 * i - 1], value |-> f[2 * i]]]

\* CONTENT_LENGTH is the first name and SCGI the second.
HeadersAllowed(h) ==
  /\ \A i \in DOMAIN h : h[i].name # <<>> /\ Comma \notin ToSet(h[i].name)
  /\ h # <<>> => h[1].name = <<ContentLength>> /\ IsSize(h[1].value)
  /\ Len(h) > 1 => h[2] = [name |-> <<Scgi>>, value |-> <<1>>]

\* A block without any header is accepted, too.
IsHeaderBlock(c) ==
  /\ c # <<>> => Last(c) = Nul
  /\ Len(Fields(c)) % 2 = 0
  /\ HeadersAllowed(HeadersOf(Fields(c)))

\* What the headers h say of the size of the body, the URI and the method: the
\* last header of a name counts, of those with a method the last one known.
BodySize(h) == IF h = <<>> THEN 0 ELSE Size(h[1].value)
UriOf(h) ==
  LET at == {i \in DOMAIN h : h[i].name = <<RequestUri>>} IN
  IF at = {} THEN <<>> ELSE h[Max(at)].value
MethodOf(h) ==
  LET at == {i \in DOMAIN h : h[i].name = <<RequestMethod>> /\ KnownMethod(h[i].value)} IN
  IF at = {} THEN "undefined" ELSE Method[h[Max(at)].value[1]]

\* The netstring in front of s, as a pair of its content and of what follows
\* its comma; the empty set if there is none.
Netstrings(s) ==
  LET comma(i) == i + Number(SubSeq(s, 1, i - 1)) + 1 IN
  {<<SubSeq(s, i + 1, comma(i) - 1), SubSeq(s, comma(i) + 1, Len(s))>> :
     i \in {i \in DOMAIN s : /\ s[i] = Colon
                            /\ IsLength(SubSeq(s, 1, i - 1))
                            /\ comma(i) \in DOMAIN s
                            /\ s[comma(i)] = Comma}}

\* s is one complete request.
WellFormed(s) ==
  \E n \in Netstrings(s) : IsHeaderBlock(n[1]) /\ Len(n[2]) = BodySize(HeadersOf(Fields(n[1])))

\* What a complete request asks for.
RequestOf(s) ==
  LET n == CHOOSE n \in Netstrings(s) : TRUE
      h == HeadersOf(Fields(n[1])) IN
  [method |-> MethodOf(h), uri |-> UriOf(h), body |-> n[2],
   remote |-> \E i \in DOMAIN h : h[i].name = <<Remote>>]
=============================================================================
