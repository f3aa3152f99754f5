----------------------------- MODULE CliParser ------------------------------
(***************************************************************************)
(* The parser of the values in command lines: the LALR(1) automaton that   *)
(* bisonc++ has generated from grammar.bisonc++, run by parser::parse(),   *)
(* and what clisrv_context takes from it.  Semantic values have a tag: a   *)
(* scalar, or a sequence of them.                                          *)
(***************************************************************************)
EXTENDS CliCodec

CONSTANTS Texts,    \* what may follow the URI of a command
          Samples   \* values whose encodings are among Texts
VARIABLES text,       \* what d_scanner reads
          lexemes,    \* what lex() returns one by one
          next,       \* the one it returns next
          matched,    \* the scalar that the text in d_matched stands for
          stack,      \* d_stateStack__ and d_valueStack__ up to d_stackIdx__
          token,      \* d_token__
          nextToken,  \* d_nextToken__
          val,        \* d_val__
          nextVal,    \* d_nextVal__
          result,     \* result_
          outcome,    \* how parse() has ended
          taken       \* process_request() has taken the result
vars == <<text, lexemes, next, matched, stack, token, nextToken, val, nextVal, result, outcome, taken>>

\* ReservedTokens, and the tokens of the nonterminals.
Undetermined == -2
Eof == -1
expression == 268
scalar == 269
opt_series == 270
series == 271
sequence == 272
tuple == 273

\* s_productionInfo.
Productions ==
  LET P(lhs, size) == [lhs |-> lhs, size |-> size] IN
  <<P(expression, 1), P(expression, 1), P(expression, 1), P(scalar, 1), P(scalar, 1),
    P(scalar, 1), P(scalar, 1), P(scalar, 1), P(opt_series, 0), P(opt_series, 1),
    P(series, 1), P(series, 3), P(sequence, 3), P(tuple, 3)>>

Accept == 0
Error == 100

\* s_0 to s_19 but for their first and last elements: tokens, and where each leads.
Table ==
  LET scalars == {<<t, t - 252>> : t \in ScalarTokens}
      items == scalars \union {<<scalar, 14>>, <<series, 13>>}
  IN [s \in 0..19 |->
       CASE s = 0 -> scalars \union {<<expression, 1>>, <<scalar, 2>>, <<sequence, 3>>, <<tuple, 4>>,
                                     <<91, 10>>, <<123, 11>>}
         [] s = 1 -> {<<Eof, Accept>>}
         [] s = 10 -> items \union {<<opt_series, 12>>}
         [] s = 11 -> items \union {<<opt_series, 15>>}
         [] s = 12 -> {<<93, 16>>}
         [] s = 13 -> {<<Comma, 17>>}
         [] s = 15 -> {<<125, 18>>}
         [] s = 17 -> scalars \union {<<scalar, 19>>}
         [] OTHER -> {}]

\* Mutant: an empty series is reduced where a bracket is missing.
DefaultEmptySeries ==
  [s \in 0..19 |->
     CASE s \in 2..9 -> -(s - 1) [] s \in 10..12 -> -9 [] s = 13 -> -10 [] s = 14 -> -11
       [] s = 16 -> -13 [] s = 18 -> -14 [] s = 19 -> -12 [] OTHER -> Error]

\* The actions of their last elements.
Default ==
  [s \in 0..19 |->
     CASE s \in 2..9 -> -(s - 1)
       [] s \in {10, 11} -> -9
       [] s = 13 -> -10
       [] s = 14 -> -11
       [] s = 16 -> -13
       [] s = 18 -> -14
       [] s = 19 -> -12
       [] OTHER -> Error]

\* Mutant: a token is read ahead in every state.
AlwaysRequiring == 0..19

\* States of type REQ_TOKEN or REQ_DEF.
RequiringToken == {0, 1, 10, 11, 12, 13, 15, 17}

\* SType holds nothing, or a Semantic of a tag: SCL with one scalar, SEQ with a
\* sequence of them.
Null == [tag |-> "null", data |-> <<>>]
Semantic_(tag, data) == [tag |-> tag, data |-> data]

\* SType::operator= replaces the Semantic by one of the tag of what is assigned,
\* for a scalar or for a sequence.
Scl(v) == Semantic_("SCL", <<v>>)
Seq_(vs) == Semantic_("SEQ", vs)

\* SType::get of a sequence: an empty one replaces anything else.
GetSeq(v) == IF v.tag = "SEQ" THEN v ELSE Seq_(<<>>)

Value(kind, items) == [kind |-> kind, items |-> items]

\* parserBase::top__
State == Last(stack).state

\* parser::lookup.
Action ==
  LET found == {e \in Table[State] : e[1] = token}
  IN IF found = {} THEN Default[State] ELSE (CHOOSE e \in found : TRUE)[2]
Ready == outcome = "parsing" /\ (State \in RequiringToken => token # Undetermined)

\* d_vsp__[i], whose data() checks neither for null nor for the tag.
Vsp(i) == stack[Len(stack) + i].value

\* The scalars of productions 4 to 8.
ScalarOf(t, s) ==
  CASE t = BOOLEAN_ -> Boolean(s = <<Hash, 116>>)
    [] t = INTEGER -> IntegerOf(s)
    [] t = REAL -> RealOf(s)
    [] t = STRING_ -> Unescape(SubSeq(s, 2, Len(s) - 1))
    [] t = BINARY -> Scalar("binary", Base64Decode(Tail(s)))

\* What lex() returns one by one, up to a value that ends the input, each with
\* the scalar it stands for.
Lexemes(t) ==
  LET lexed == Lexed(t)
      ends == {i \in DOMAIN lexed : lexed[i].token <= 0} \union {Len(lexed) + 1}
      ScalarOrNone(l) == IF l.token \in ScalarTokens THEN ScalarOf(l.token, l.matched) ELSE Invalid
  IN [i \in 1..(Min(ends) - 1) |-> [token |-> lexed[i].token, scalar |-> ScalarOrNone(lexed[i])]]

\* Scalars that have a value.
Items == [type : {"boolean", "integer", "real", "string", "binary"}, data : Seq(Int)]

\* A text is a sequence of bytes.  What lex() returns are finitely many tokens of
\* TokenOf, and a conversion gives a scalar or none.
ASSUME TextsAssumption ==
  \A t \in Texts :
    /\ t \in Seq(0..255)
    /\ Lexemes(t) \in Seq(Range(Lexemes(t)))
    /\ \A i \in 1..Len(Lexemes(t)) :
         Lexemes(t)[i].token \in 1..BINARY /\ Lexemes(t)[i].scalar \in Items \union {Invalid}

\* A conversion throws, which parser::exceptionHandler__ makes a parse_error.
Throws(p) == p \in 4..8 /\ matched = Invalid

\* Mutant: an empty series leaves $$ alone.
SemanticNoEmpty(p) ==
  CASE p \in 4..8 -> Scl(matched)
    [] p = 10 -> Vsp(0)
    [] p = 11 -> Seq_(Vsp(0).data)
    [] p = 12 -> Seq_(Vsp(-2).data \o Vsp(0).data)
    [] p \in {13, 14} -> Seq_(Vsp(-1).data)
    [] OTHER -> val

\* What parser::executeAction leaves in d_val__.
Semantic(p) ==
  CASE p \in 4..8 -> Scl(matched)
    [] p = 9 -> GetSeq(val)
    [] p = 10 -> Vsp(0)
    [] p = 11 -> Seq_(Vsp(0).data)
    [] p = 12 -> Seq_(Vsp(-2).data \o Vsp(0).data)
    [] p \in {13, 14} -> Seq_(Vsp(-1).data)
    [] OTHER -> Vsp(0)

Init ==
  /\ text \in Texts /\ lexemes = Lexemes(text) /\ next = 1 /\ matched = Invalid
  /\ stack = <<[state |-> 0, value |-> Null]>>
  /\ token = Undetermined /\ nextToken = Undetermined
  /\ val = Null /\ nextVal = Null
  /\ result = Value("scalar", <<Boolean(FALSE)>>)
  /\ outcome = "parsing" /\ taken = FALSE

\* parserBase::popToken__
PopToken == token' = nextToken /\ val' = nextVal /\ nextToken' = Undetermined /\ nextVal' = Null

\* parser::nextToken
NextToken ==
  /\ outcome = "parsing" /\ State \in RequiringToken /\ token = Undetermined
  /\ IF nextToken # Undetermined THEN PopToken /\ UNCHANGED <<next, matched>>
     ELSE /\ UNCHANGED <<nextToken, val, nextVal>>
          /\ IF next > Len(lexemes)
             THEN token' = Eof /\ matched' = Invalid /\ UNCHANGED next
             ELSE token' = lexemes[next].token /\ matched' = lexemes[next].scalar /\ next' = next + 1
  /\ UNCHANGED <<text, lexemes, stack, result, outcome, taken>>

\* A positive action: parserBase::push__
Shift ==
  /\ Ready /\ Action > 0 /\ Action # Error
  /\ stack' = Append(stack, [state |-> Action, value |-> val])
  /\ PopToken
  /\ UNCHANGED <<text, lexemes, next, matched, result, outcome, taken>>

\* parser::executeAction and parserBase::reduce__, for which there is enough on the
\* stack (StackIsTyped).
Reduce ==
  /\ Ready /\ Action < 0
  /\ LET p == -Action
     IN IF Throws(p)
        THEN outcome' = "threw" /\ UNCHANGED <<stack, token, nextToken, val, nextVal, result>>
        ELSE /\ IF token = Undetermined THEN UNCHANGED <<nextToken, nextVal>>
                ELSE nextToken' = token /\ nextVal' = val
             /\ val' = Semantic(p)
             /\ result' = (CASE p = 1 -> Value("scalar", Vsp(0).data)
                             [] p = 2 -> Value("sequence", Vsp(0).data)
                             [] p = 3 -> Value("tuple", Vsp(0).data)
                             [] OTHER -> result)
             /\ token' = Productions[p].lhs
             /\ stack' = SubSeq(stack, 1, Len(stack) - Productions[p].size)
             /\ UNCHANGED outcome
  /\ UNCHANGED <<text, lexemes, next, matched, taken>>

\* parse() returns 0.
Accepted ==
  /\ Ready /\ Action = Accept
  /\ outcome' = "accepted"
  /\ UNCHANGED <<text, lexemes, next, matched, stack, token, nextToken, val, nextVal, result, taken>>

\* parser::errorRecovery: no state is of type ERR_ITEM, so that all are popped
\* and parse() returns 1.
Unexpected ==
  /\ Ready /\ Action = Error
  /\ outcome' = "aborted" /\ stack' = <<stack[1]>>
  /\ UNCHANGED <<text, lexemes, next, matched, token, nextToken, val, nextVal, result, taken>>

\* clisrv_context::process_request does not look at what parse() returns.
TakeResult ==
  /\ outcome \in {"accepted", "aborted"} /\ ~taken
  /\ taken' = TRUE
  /\ UNCHANGED <<text, lexemes, next, matched, stack, token, nextToken, val, nextVal, result, outcome>>

\* A turn of the loop in parse(), and what follows it.
Next == NextToken \/ Shift \/ Reduce \/ Accepted \/ Unexpected \/ TakeResult

Spec == Init /\ [][Next]_vars

\* parse() goes on until it returns.
FairSpec == Spec /\ WF_vars(Next)

-----------------------------------------------------------------------------
(* Properties *)

AllTokens == {Undetermined, Eof} \union 1..tuple
IsSemantic(v) == v.tag \in {"null", "SCL", "SEQ"} /\ v.data \in Seq(Items)

\* Everything has its type.
TypeOK ==
  /\ \A i \in DOMAIN lexemes : lexemes[i].token \in AllTokens
  /\ matched \in Items \union {Invalid}
  /\ \A i \in DOMAIN stack : stack[i].state \in 0..19 /\ IsSemantic(stack[i].value)
  /\ stack # <<>> /\ token \in AllTokens /\ nextToken \in AllTokens
  /\ IsSemantic(val) /\ IsSemantic(nextVal)
  /\ result.kind \in {"scalar", "sequence", "tuple"} /\ result.items \in Seq(Items)
  /\ outcome \in {"parsing", "accepted", "aborted", "threw"} /\ taken \in BOOLEAN

\* A reduction finds its elements on the stack, and those whose data() it takes,
\* which checks neither for a null pointer nor for the tag, hold a value of
\* that tag.
StackIsTyped ==
  LET takes == [p \in 1..14 |->
                  CASE p \in {1, 11} -> {<<0, "SCL">>}
                    [] p \in {2, 3, 10} -> {<<0, "SEQ">>}
                    [] p = 12 -> {<<-2, "SEQ">>, <<0, "SCL">>}
                    [] p \in {13, 14} -> {<<-1, "SEQ">>}
                    [] OTHER -> {}]
  IN Ready /\ Action < 0 =>
       /\ Len(stack) > Productions[-Action].size
       /\ \A t \in takes[-Action] : Vsp(t[1]).tag = t[2]

\* The automaton of the scanner takes the longest match of the rules it has been
\* generated from, and of those that have it the first.
ScannerFollowsRules ==
  Len(stack) = 1 /\ token = Undetermined =>
    \A p \in DOMAIN text : LET input == SubSeq(text, p, Len(text)) IN
      Match(Trace(input)) = Longest(input)

\* The rules of grammar.bisonc++.
IsSeries(ls) ==
  /\ Len(ls) % 2 = 1
  /\ \A i \in DOMAIN ls : IF i % 2 = 1 THEN ls[i].token \in ScalarTokens ELSE ls[i].token = Comma
IsEnclosed(ls, open, close) ==
  /\ Len(ls) > 1 /\ ls[1].token = open /\ Last(ls).token = close
  /\ Len(ls) = 2 \/ IsSeries(Tail(Front(ls)))
IsExpression(ls) ==
  \/ Len(ls) = 1 /\ ls[1].token \in ScalarTokens
  \/ IsEnclosed(ls, 91, 93)
  \/ IsEnclosed(ls, 123, 125)

\* The value that an expression stands for: the scalars between brackets are
\* every other lexeme.
ValueOf(ls) ==
  LET items == [i \in 1..((Len(ls) - 1) \div 2) |-> ls[2 * i].scalar]
  IN CASE ls[1].token = 91 -> Value("sequence", items)
       [] ls[1].token = 123 -> Value("tuple", items)
       [] OTHER -> Value("scalar", <<ls[1].scalar>>)

\* The parser accepts the expressions of the grammar and nothing else, with the
\* value they stand for: each scalar is converted from its own text although
\* the scanner goes on.  It throws only for a scalar that has no value.
ExpressionsAreAccepted ==
  outcome # "parsing" =>
    CASE outcome = "accepted" -> IsExpression(lexemes) /\ result = ValueOf(lexemes)
      [] outcome = "aborted" -> ~IsExpression(lexemes)
      [] outcome = "threw" ->
           \E i \in DOMAIN lexemes :
             lexemes[i].token \in ScalarTokens /\ lexemes[i].scalar = Invalid

\* The encodings of values, as a reply to get has them and a set may send them,
\* behind the blank that follows the URI.
Encodings == [v \in Samples |-> <<32>> \o Encode(v)]

\* What the encoder writes, the parser reads back as the same value, with all
\* its bytes.
EncodedIsReadBack ==
  outcome # "parsing" =>
    \A v \in Samples : text = Encodings[v] => outcome = "accepted" /\ result = v

\* Parsing ends, and the request gets its value or an error, whatever the text.
ParsingEnds == <>(taken \/ outcome = "threw")
=============================================================================
