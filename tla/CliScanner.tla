----------------------------- MODULE CliScanner -----------------------------
(***************************************************************************)
(* The scanner of the values in command lines: the automaton that flexc++  *)
(* has generated from the rules of scanner.flexc++, and those rules.       *)
(* Characters are bytes.  A newline ends the line that is scanned, so that *)
(* a text has none.                                                        *)
(***************************************************************************)
EXTENDS Integers, SequencesExt, FiniteSetsExt

Quote == 34
Hash == 35
Ampersand == 38
Comma == 44
Minus == 45
Dot == 46
Equal == 61
Backslash == 92

Blanks == {9, 32}
Digits == 48..57
Base64 == {43, 47} \union Digits \union (65..90) \union (97..122)
Exponents == {69, 101}
Truths == {102, 116}

\* The characters of column 0 of the automaton are accepted nowhere.
Scanned == 9..255

\* The rules of scanner.flexc++ in their order.
BooleanRule == 0
IntegerRule == 1
RealRule == 2
StringRule == 3
BinaryRule == 4
BlankRule == 5
CharRule == 6
NoRule == -1

\* scannerBase::s_dfa__, s_ranges__: where each class of characters leads.
Moves ==
  LET special == Blanks \union Digits \union {Quote, Hash, Ampersand, Minus, Dot}
      inString == {<<{Quote}, 10>>, <<{Backslash}, 11>>, <<Scanned \ {Quote, Backslash}, 9>>}
      number == {<<{Dot}, 7>>, <<Digits, 8>>}
  IN [s \in 0..15 |->
       CASE s = 0 -> {<<Blanks, 1>>, <<Scanned \ special, 2>>, <<{Quote}, 3>>, <<{Hash}, 4>>,
                      <<{Ampersand}, 5>>, <<{Minus}, 6>>} \union number
         [] s = 1 -> {<<Blanks, 1>>}
         [] s \in {3, 9} -> inString
         [] s = 4 -> {<<Truths, 12>>}
         [] s = 5 -> {<<Base64 \union {Equal}, 5>>}
         [] s \in {6, 8} -> number
         [] s = 7 -> {<<Digits, 7>>, <<Exponents, 13>>}
         [] s = 11 -> {<<Scanned, 9>>}
         [] s = 13 -> {<<{Minus}, 14>>, <<Digits, 15>>}
         [] s \in {14, 15} -> {<<Digits, 15>>}
         [] OTHER -> {}]

\* No next state.
Dead == -1

\* The last but one column of s_dfa__: the rule matched in a state.
FinalRule ==
  [s \in {Dead} \union 0..15 |->
     CASE s = 1 -> BlankRule
       [] s \in {2, 3, 4, 6} -> CharRule
       [] s = 5 -> BinaryRule
       [] s \in {7, 15} -> RealRule
       [] s = 8 -> IntegerRule
       [] s = 10 -> StringRule
       [] s = 12 -> BooleanRule
       [] OTHER -> NoRule]

AtEof == -1

\* The ith character that scannerBase::Input::get returns; input is what is in
\* d_deque and behind it in the stream.
Get(input, i) == IF i > Len(input) THEN AtEof ELSE input[i]

\* scannerBase::actionType__, continue__; the column of AT_EOF leads nowhere.
NextState(s, c) ==
  LET moves == IF s = Dead THEN {} ELSE {m \in Moves[s] : c \in m[1]} IN
  IF moves = {} THEN Dead ELSE (CHOOSE m \in moves : TRUE)[2]

\* The states that the automaton goes through.
Trace(input) ==
  LET State[i \in 0..(Len(input) + 1)] == IF i = 0 THEN 0 ELSE NextState(State[i - 1], Get(input, i))
  IN State

\* How many characters are read until there is no continuation, the last of them
\* maybe AT_EOF.
Reads(trace) == Min({i \in DOMAIN trace : trace[i] = Dead})

\* Mutant: only the state that the automaton stops in counts.
MatchAtTheEnd(trace) ==
  LET stop == Reads(trace) - 1
  IN IF FinalRule[trace[stop]] = NoRule THEN [rule |-> NoRule, length |-> 0]
     ELSE [rule |-> FinalRule[trace[stop]], length |-> stop]

\* scannerBase::updateFinals__: the last final state that the automaton has been in.
Match(trace) ==
  LET final == {i \in DOMAIN trace : FinalRule[trace[i]] # NoRule}
  IN IF final = {} THEN [rule |-> NoRule, length |-> 0]
     ELSE [rule |-> FinalRule[trace[Max(final)]], length |-> Max(final)]

\* scannerBase::Input::reRead of a string: a byte beyond 127 is negative as a char
\* and not less than 0x100 as a size_t, and is not put back.
ReRead(s) == SelectSeq(s, LAMBDA c : c <= 127)

\* scannerBase::matched__: what is matched by the first of them, and the input
\* when the character that did not fit and the tail have been put back.
Matched(input, length) == SubSeq(input, 1, length)
Unmatched(input, length, reads) ==
  ReRead(SubSeq(input, length + 1, reads - 1)) \o SubSeq(input, reads, Len(input))

BOOLEAN_ == 257
INTEGER == 258
REAL == 259
STRING_ == 260
BINARY == 261
ScalarTokens == BOOLEAN_..BINARY

\* scanner::executeAction__; matched()[0] is a signed character.
TokenOf(rule, c) ==
  CASE rule = CharRule -> IF c > 127 THEN c - 256 ELSE c
    [] rule = BooleanRule -> BOOLEAN_
    [] rule = IntegerRule -> INTEGER
    [] rule = RealRule -> REAL
    [] rule = StringRule -> STRING_
    [] rule = BinaryRule -> BINARY

\* scannerBase::echoCh__, echoFirst__: a first character that fits no rule is gone
\* from the input, what has been read behind it is put back.
Echoed(input, reads) == Unmatched(input, 1, Max({2, reads}))

\* A turn of the loop in scanner::lex__: the token, if there is one to be returned,
\* what it matches, and the input that is left.  Blanks have no action that
\* returns.
NoToken == 0
Turn(input) ==
  LET trace == Trace(input)
      match == Match(trace)
  IN IF match.rule = NoRule
     THEN [token |-> NoToken, matched |-> <<>>, rest |-> Echoed(input, Reads(trace))]
     ELSE [token |-> IF match.rule = BlankRule THEN NoToken ELSE TokenOf(match.rule, input[1]),
           matched |-> Matched(input, match.length),
           rest |-> Unmatched(input, match.length, Reads(trace))]

\* What scanner::lex returns one by one, up to 0 at the end of the input.
Lexed(text) ==
  LET Loop == FoldLeft(
        LAMBDA s, i :
          IF s.rest = <<>> THEN s
          ELSE LET t == Turn(s.rest) IN
               [rest |-> t.rest,
                lexed |-> IF t.token = NoToken THEN s.lexed
                          ELSE Append(s.lexed, [token |-> t.token, matched |-> t.matched])],
        [rest |-> text, lexed |-> <<>>], text)
  IN Loop.lexed

-----------------------------------------------------------------------------
(* The rules as regular expressions *)

AllIn(s, chars) == \A i \in DOMAIN s : s[i] \in chars
Unsigned(s) == IF s # <<>> /\ s[1] = Minus THEN Tail(s) ELSE s
After(s, n) == SubSeq(s, n + 1, Len(s))
Before(s, n) == SubSeq(s, 1, n - 1)

IsInteger(s) == Unsigned(s) # <<>> /\ AllIn(Unsigned(s), Digits)
IsExponent(s) == s # <<>> /\ s[1] \in Exponents /\ IsInteger(Tail(s))
IsReal(s) ==
  \E i \in DOMAIN s :
    /\ s[i] = Dot /\ AllIn(Unsigned(Before(s, i)), Digits)
    /\ \E j \in i..Len(s) :
         AllIn(SubSeq(s, i + 1, j), Digits) /\ (j = Len(s) \/ IsExponent(After(s, j)))

\* A backslash takes the next character with it, unless another has taken that.
FollowsBackslash(s) ==
  LET Escaped[i \in DOMAIN s] == i > 1 /\ s[i - 1] = Backslash /\ ~Escaped[i - 1]
  IN Escaped
IsString(s) ==
  /\ Len(s) > 1 /\ s[1] = Quote /\ s[Len(s)] = Quote /\ ~FollowsBackslash(s)[Len(s)]
  /\ \A i \in 2..(Len(s) - 1) : s[i] \in Scanned /\ (s[i] = Quote => FollowsBackslash(s)[i])

\* The language of a rule.
Fits(rule, s) ==
  CASE rule = BooleanRule -> s \in {<<Hash, c>> : c \in Truths}
    [] rule = IntegerRule -> IsInteger(s)
    [] rule = RealRule -> IsReal(s)
    [] rule = StringRule -> IsString(s)
    [] rule = BinaryRule -> s[1] = Ampersand /\ AllIn(Tail(s), Base64 \union {Equal})
    [] rule = BlankRule -> AllIn(s, Blanks)
    [] rule = CharRule -> Len(s) = 1 /\ s[1] \in Scanned

\* The longest match, by the first of the rules that have it.
Longest(input) ==
  LET Rules(n) == {r \in BooleanRule..CharRule : Fits(r, SubSeq(input, 1, n))}
      lengths == {n \in DOMAIN input : Rules(n) # {}}
  IN IF lengths = {} THEN [rule |-> NoRule, length |-> 0]
     ELSE [rule |-> Min(Rules(Max(lengths))), length |-> Max(lengths)]
=============================================================================
