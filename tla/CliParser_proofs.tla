-------------------------- MODULE CliParser_proofs --------------------------
(***************************************************************************)
(* Proofs about CliParser for every text, of any length: the automaton     *)
(* takes no more from its stack than there is, and no value by the wrong   *)
(* tag; it accepts the expressions of the grammar with their values; and   *)
(* the automaton of the scanner takes the longest match of the rules.      *)
(***************************************************************************)
EXTENDS CliParser, Lists, FiniteSets, SequenceTheorems, FiniteSetTheorems, WellFoundedInduction, TLAPS

-----------------------------------------------------------------------------
(* Positions and sequences *)

IsList(s) == s \in Seq(Members(s))

LEMMA SequenceFacts ==
  ASSUME NEW S, NEW s \in Seq(S)
  PROVE  IsList(s)
<1>1. DOMAIN s = 1..Len(s) /\ Len(s) \in Nat /\ s = [i \in 1..Len(s) |-> s[i]]
  BY LenProperties
<1>2. \A i \in 1..Len(s) : s[i] \in Members(s)
  BY <1>1 DEF Members
<1>3. [i \in 1..Len(s) |-> s[i]] \in Seq(Members(s))
  BY <1>1, <1>2, IsASeq
<1> QED
  BY <1>1, <1>3 DEF IsList

LEMMA OneReply ==
  ASSUME NEW x
  PROVE  IsList(<<x>>) /\ <<x>> # <<>> /\ Len(<<x>>) = 1 /\ <<x>>[1] = x
<1>1. <<x>> \in Seq({x})
  OBVIOUS
<1> QED
  BY <1>1, SequenceFacts

-----------------------------------------------------------------------------
(* The tables of the automaton *)

\* The tokens of the nonterminals, and those of them that stand for sequences.
SequenceTokens == {opt_series, series, sequence, tuple}
Nonterminals == {expression, scalar} \union SequenceTokens

\* The states that are entered with a scalar, and with a sequence.
ScalarStates == {2, 14, 19}
SequenceStates == {3, 4, 12, 13, 15}

\* The states from which a state is entered.
Predecessors(a) ==
  CASE a \in {1, 2, 3, 4, 10, 11} -> {0}
    [] a \in 5..9 -> {0, 10, 11, 17}
    [] a = 12 -> {10}
    [] a \in {13, 14} -> {10, 11}
    [] a = 15 -> {11}
    [] a = 16 -> {12}
    [] a = 17 -> {13}
    [] a = 18 -> {15}
    [] a = 19 -> {17}

LEMMA Tokens ==
  /\ expression = 268 /\ scalar = 269 /\ opt_series = 270 /\ series = 271 /\ sequence = 272 /\ tuple = 273
  /\ Eof = -1 /\ Undetermined = -2 /\ Comma = 44 /\ Accept = 0 /\ Error = 100
  /\ ScalarTokens = 257..261 /\ BINARY = 261
BY DEF expression, scalar, opt_series, series, sequence, tuple, Eof, Undetermined, Comma, Accept, Error,
       ScalarTokens, BINARY, BOOLEAN_

\* The rows of Table.
LEMMA Rows ==
  LET scalars == {<<t, t - 252>> : t \in ScalarTokens}
      items == scalars \union {<<scalar, 14>>, <<series, 13>>}
  IN /\ Table[0] = scalars \union {<<expression, 1>>, <<scalar, 2>>, <<sequence, 3>>, <<tuple, 4>>,
                                  <<91, 10>>, <<123, 11>>}
     /\ Table[1] = {<<Eof, Accept>>}
     /\ Table[10] = items \union {<<opt_series, 12>>}
     /\ Table[11] = items \union {<<opt_series, 15>>}
     /\ Table[12] = {<<93, 16>>}
     /\ Table[13] = {<<Comma, 17>>}
     /\ Table[15] = {<<125, 18>>}
     /\ Table[17] = scalars \union {<<scalar, 19>>}
     /\ \A s \in 0..19 : s \notin {0, 1, 10, 11, 12, 13, 15, 17} => Table[s] = {}
<1> DEFINE scalars == {<<t, t - 252>> : t \in ScalarTokens}
<1> HIDE DEF scalars
<1> QED
  BY DEF Table, scalars

\* What is entered from where, and with which token.
TokenLeads(s, t, a) ==
  /\ a \in 0..19
  /\ a # Accept => s \in Predecessors(a)
  /\ a \in ScalarStates => t = scalar
  /\ a \in SequenceStates => t \in SequenceTokens

LEMMA TableFacts ==
  ASSUME NEW s \in 0..19, NEW e \in Table[s]
  PROVE  TokenLeads(s, e[1], e[2])
<1>1. ASSUME NEW t \in ScalarTokens, NEW r \in {0, 10, 11, 17}
      PROVE  TokenLeads(r, t, t - 252)
  <2>1. t - 252 \in 5..9
    BY Tokens
  <2>2. r \in Predecessors(t - 252)
    BY <2>1 DEF Predecessors
  <2> QED
    BY <2>1, <2>2 DEF TokenLeads, ScalarStates, SequenceStates
<1>2. /\ TokenLeads(0, expression, 1) /\ TokenLeads(0, scalar, 2) /\ TokenLeads(0, sequence, 3)
      /\ TokenLeads(0, tuple, 4) /\ TokenLeads(0, 91, 10) /\ TokenLeads(0, 123, 11)
      /\ TokenLeads(1, Eof, Accept)
      /\ TokenLeads(10, scalar, 14) /\ TokenLeads(10, series, 13) /\ TokenLeads(10, opt_series, 12)
      /\ TokenLeads(11, scalar, 14) /\ TokenLeads(11, series, 13) /\ TokenLeads(11, opt_series, 15)
      /\ TokenLeads(12, 93, 16) /\ TokenLeads(13, Comma, 17) /\ TokenLeads(15, 125, 18)
      /\ TokenLeads(17, scalar, 19)
  BY Tokens DEF TokenLeads, Predecessors, ScalarStates, SequenceStates, SequenceTokens
<1> QED
  BY <1>1, <1>2, Rows

-----------------------------------------------------------------------------
(* The invariant *)

\* An element has a value of the tag that its state was entered with.
Typed(a, v) ==
  /\ a \in ScalarStates => v.tag = "SCL"
  /\ a \in SequenceStates => v.tag = "SEQ"

\* The stack is a path through the automaton from state 0.
IsPath(s) ==
  /\ IsList(s) /\ Len(s) \in Nat /\ Len(s) >= 1
  /\ s[1].state = 0
  /\ \A i \in 1..Len(s) : s[i].state \in 0..19 /\ Typed(s[i].state, s[i].value)
  /\ \A i \in 1..Len(s) : i > 1 => s[i].state # 0 /\ s[i - 1].state \in Predecessors(s[i].state)

\* What the scanner returns.
Terminals == {Undetermined, Eof} \union 1..BINARY

LexemesOK ==
  /\ Len(lexemes) \in Nat /\ next \in Nat /\ next >= 1
  /\ \A i \in 1..Len(lexemes) : lexemes[i].token \in 1..BINARY

\* A nonterminal that has been reduced to is one the state that it has uncovered
\* goes on with, and only one is pending at a time.
TokensOK ==
  /\ token \in Terminals \union Nonterminals /\ nextToken \in Terminals
  /\ token = scalar => val.tag = "SCL"
  /\ token \in SequenceTokens => val.tag = "SEQ"
  /\ token \in Nonterminals => \E e \in Table[State] : e[1] = token

IInv == LexemesOK /\ (outcome = "parsing" => IsPath(stack) /\ TokensOK)

-----------------------------------------------------------------------------
(* Reductions *)

\* The state in which a production is reduced.
Handles(p, s) ==
  /\ p \in 1..14
  /\ p \in 1..8 => s = p + 1
  /\ p = 9 => s \in {10, 11}
  /\ p = 10 => s = 13
  /\ p = 11 => s = 14
  /\ p = 12 => s = 19
  /\ p = 13 => s = 16
  /\ p = 14 => s = 18

LEMMA Defaults ==
  ASSUME NEW s \in 0..19, Default[s] # Error
  PROVE  \E p \in 1..14 : Default[s] = -p /\ Handles(p, s)
<1>1. CASE s \in 2..9
  <2>1. s - 1 \in 1..8 /\ s = (s - 1) + 1 /\ s - 1 \in 1..14
    BY <1>1
  <2>2. Default[s] = -(s - 1)
    BY <1>1 DEF Default
  <2>3. Handles(s - 1, s)
    BY <2>1 DEF Handles
  <2> QED
    BY <2>1, <2>2, <2>3
<1>2. CASE s \in {10, 11, 13, 14, 16, 18, 19}
  <2>1. /\ s \in {10, 11} => Default[s] = -9 /\ Handles(9, s)
        /\ s = 13 => Default[s] = -10 /\ Handles(10, s)
        /\ s = 14 => Default[s] = -11 /\ Handles(11, s)
        /\ s = 16 => Default[s] = -13 /\ Handles(13, s)
        /\ s = 18 => Default[s] = -14 /\ Handles(14, s)
        /\ s = 19 => Default[s] = -12 /\ Handles(12, s)
    BY DEF Default, Handles
  <2>2. 9 \in 1..14 /\ 10 \in 1..14 /\ 11 \in 1..14 /\ 12 \in 1..14 /\ 13 \in 1..14 /\ 14 \in 1..14
    OBVIOUS
  <2> QED
    BY <1>2, <2>1, <2>2
<1>3. CASE s \notin 2..9 /\ s \notin {10, 11, 13, 14, 16, 18, 19}
  BY <1>3 DEF Default
<1> QED
  BY <1>1, <1>2, <1>3

\* The parts of a production.
LEMMA Parts ==
  /\ \A p \in 1..8 : Productions[p].size = 1
  /\ \A p \in 1..3 : Productions[p].lhs = expression
  /\ \A p \in 4..8 : Productions[p].lhs = scalar
  /\ Productions[9].size = 0 /\ Productions[9].lhs = opt_series
  /\ Productions[10].size = 1 /\ Productions[10].lhs = opt_series
  /\ Productions[11].size = 1 /\ Productions[11].lhs = series
  /\ Productions[12].size = 3 /\ Productions[12].lhs = series
  /\ Productions[13].size = 3 /\ Productions[13].lhs = sequence
  /\ Productions[14].size = 3 /\ Productions[14].lhs = tuple
BY DEF Productions

\* What the parser looks up.
LEMMA Lookup ==
  ASSUME State \in 0..19
  PROVE  /\ (\E e \in Table[State] : e[1] = token) =>
              \E e \in Table[State] : e[1] = token /\ Action = e[2]
         /\ ~(\E e \in Table[State] : e[1] = token) => Action = Default[State]
<1> DEFINE found == {e \in Table[State] : e[1] = token}
           first == CHOOSE e \in found : TRUE
<1>1. Action = IF found = {} THEN Default[State] ELSE first[2]
  BY DEF Action
<1>2. found # {} => first \in found
  OBVIOUS
<1> HIDE DEF first
<1> QED
  BY <1>1, <1>2

-----------------------------------------------------------------------------
(* Paths *)

\* The state that is on top, and what may be below it.
LEMMA PathTop ==
  ASSUME NEW s, IsPath(s)
  PROVE  /\ Last(s) = s[Len(s)] /\ Last(s).state \in 0..19 /\ Len(s) \in 1..Len(s)
         /\ \A i \in 1..Len(s) : s[i].state # 0 => i > 1 /\ s[i - 1].state \in Predecessors(s[i].state)
         /\ \A i \in 1..Len(s) : i > 1 => i - 1 \in 1..Len(s)
<1>1. Last(s) = s[Len(s)]
  BY DEF Last
<1>2. Len(s) \in 1..Len(s) /\ 1 \in 1..Len(s)
  BY DEF IsPath
<1>3. \A i \in 1..Len(s) : s[i].state # 0 => i > 1
  BY DEF IsPath
<1> QED
  BY <1>1, <1>2, <1>3 DEF IsPath

\* push__
LEMMA Pushed ==
  ASSUME NEW s, IsPath(s), NEW a \in 1..19, NEW v,
         Last(s).state \in Predecessors(a), Typed(a, v)
  PROVE  IsPath(Append(s, [state |-> a, value |-> v]))
<1> DEFINE x == [state |-> a, value |-> v]
           S == Members(s) \union {x}
           n == Len(s)
           t == Append(s, x)
<1>1. s \in Seq(S) /\ x \in S
  <2>1. s \in Seq(Members(s))
    BY DEF IsPath, IsList
  <2> QED
    BY <2>1, SeqMonotonic
<1>2. x.state = a /\ x.value = v
  OBVIOUS
<1> HIDE DEF x, S
<1>3. /\ t \in Seq(S) /\ Len(t) = n + 1 /\ t[n + 1] = x
      /\ \A i \in 1..n : t[i] = s[i]
  BY <1>1, AppendProperties
<1> HIDE DEF t
<1>4. IsList(t)
  BY <1>3, SequenceFacts
<1>5. n \in Nat /\ n >= 1 /\ Last(s) = s[n] /\ 1 \in 1..n
  BY PathTop DEF IsPath
<1> HIDE DEF n
<1>6. t[1].state = 0
  BY <1>3, <1>5 DEF IsPath, n
<1>7. ASSUME NEW i \in 1..(n + 1)
      PROVE  /\ t[i].state \in 0..19 /\ Typed(t[i].state, t[i].value)
             /\ i > 1 => t[i].state # 0 /\ t[i - 1].state \in Predecessors(t[i].state)
  <2>1. CASE i \in 1..n
    <3>1. t[i] = s[i] /\ (i > 1 => t[i - 1] = s[i - 1])
      BY <2>1, <1>3, <1>5
    <3>2. /\ s[i].state \in 0..19 /\ Typed(s[i].state, s[i].value)
          /\ i > 1 => s[i].state # 0 /\ s[i - 1].state \in Predecessors(s[i].state)
      BY <2>1 DEF IsPath, n
    <3> QED
      BY <3>1, <3>2
  <2>2. CASE i = n + 1
    <3>1. t[i] = x /\ t[i - 1] = s[n]
      <4>1. i - 1 = n /\ n \in 1..n
        BY <2>2, <1>5
      <4> QED
        BY <4>1, <2>2, <1>3
    <3>2. a \in 0..19 /\ a # 0
      OBVIOUS
    <3> QED
      BY <3>1, <3>2, <1>2, <1>5
  <2> QED
    BY <2>1, <2>2, <1>5
<1> QED
  <2>1. Len(t) = n + 1 /\ n + 1 \in Nat /\ n + 1 >= 1
    BY <1>3, <1>5
  <2>2. IsPath(t)
    BY <1>4, <1>6, <1>7, <2>1 DEF IsPath
  <2> QED
    BY <2>2 DEF t, x

\* pop__
LEMMA Popped ==
  ASSUME NEW s, IsPath(s), NEW m \in 1..Len(s)
  PROVE  IsPath(SubSeq(s, 1, m)) /\ Last(SubSeq(s, 1, m)) = s[m]
<1> DEFINE S == Members(s)
           t == SubSeq(s, 1, m)
<1>1. s \in Seq(S) /\ DOMAIN s = 1..Len(s) /\ Len(s) \in Nat
  BY LenProperties DEF IsPath, IsList
<1>2. m \in Nat /\ m >= 1 /\ m <= Len(s)
  BY <1>1
<1>3. \A i \in 1..m : s[i] \in S
  BY <1>1, <1>2 DEF Members
<1> HIDE DEF S
<1>4. /\ t \in Seq(S) /\ Len(t) = m /\ \A i \in 1..m : t[i] = s[i]
  <2>1. /\ t \in Seq(S)
        /\ Len(t) = IF 1 <= m THEN m - 1 + 1 ELSE 0
        /\ \A i \in 1..(m - 1 + 1) : t[i] = s[1 + i - 1]
    BY <1>2, <1>3, SubSeqProperties
  <2> HIDE DEF t
  <2>2. m - 1 + 1 = m /\ \A i \in 1..m : 1 + i - 1 = i
    BY <1>2
  <2> QED
    BY <2>1, <2>2, <1>2
<1> HIDE DEF t
<1>5. IsList(t)
  BY <1>4, SequenceFacts
<1>6. ASSUME NEW i \in 1..m
      PROVE  /\ t[i].state \in 0..19 /\ Typed(t[i].state, t[i].value)
             /\ i > 1 => t[i].state # 0 /\ t[i - 1].state \in Predecessors(t[i].state)
  <2>1. i \in 1..Len(s) /\ (i > 1 => i - 1 \in 1..m)
    BY <1>1, <1>2
  <2>2. t[i] = s[i] /\ (i > 1 => t[i - 1] = s[i - 1])
    BY <2>1, <1>4
  <2> QED
    BY <2>1, <2>2 DEF IsPath
<1>7. t[1].state = 0
  <2>1. 1 \in 1..m
    BY <1>2
  <2> QED
    BY <2>1, <1>4 DEF IsPath
<1>8. IsPath(t)
  BY <1>2, <1>4, <1>5, <1>6, <1>7 DEF IsPath
<1>9. Last(t) = s[m]
  BY <1>2, <1>4 DEF Last
<1> QED
  BY <1>8, <1>9 DEF t

-----------------------------------------------------------------------------
(* What a reduction finds *)

Leads(s, t) == \E e \in Table[s] : e[1] = t

LEMMA Leading ==
  /\ Leads(0, expression) /\ Leads(0, sequence) /\ Leads(0, tuple)
  /\ \A s \in {0, 10, 11, 17} : Leads(s, scalar)
  /\ \A s \in {10, 11} : Leads(s, series) /\ Leads(s, opt_series)
<1>1. /\ <<expression, 1>> \in Table[0] /\ <<sequence, 3>> \in Table[0] /\ <<tuple, 4>> \in Table[0]
      /\ <<scalar, 2>> \in Table[0] /\ <<scalar, 14>> \in Table[10] /\ <<scalar, 14>> \in Table[11]
      /\ <<scalar, 19>> \in Table[17]
      /\ <<series, 13>> \in Table[10] /\ <<series, 13>> \in Table[11]
      /\ <<opt_series, 12>> \in Table[10] /\ <<opt_series, 15>> \in Table[11]
  BY Rows
<1>2. \A x, y : <<x, y>>[1] = x
  OBVIOUS
<1> QED
  BY <1>1, <1>2 DEF Leads

\* One, two and three elements below the top.
LEMMA Below ==
  ASSUME NEW s, IsPath(s), NEW n, n = Len(s)
  PROVE  /\ n \in Nat /\ n >= 1 /\ Last(s) = s[n]
         /\ s[n].state # 0 => n > 1 /\ s[n - 1].state \in Predecessors(s[n].state)
         /\ n > 1 /\ s[n - 1].state # 0 => n > 2 /\ s[n - 2].state \in Predecessors(s[n - 1].state)
         /\ n > 2 /\ s[n - 2].state # 0 => n > 3 /\ s[n - 3].state \in Predecessors(s[n - 2].state)
         /\ Typed(s[n].state, s[n].value)
         /\ n > 1 => Typed(s[n - 1].state, s[n - 1].value)
         /\ n > 2 => Typed(s[n - 2].state, s[n - 2].value)
<1>1. n \in Nat /\ n >= 1 /\ Last(s) = s[n]
  BY PathTop DEF IsPath
<1>2. \A i \in 1..n : s[i].state # 0 => i > 1 /\ s[i - 1].state \in Predecessors(s[i].state)
  BY PathTop
<1>3. \A i \in 1..n : Typed(s[i].state, s[i].value)
  BY DEF IsPath
<1>4. /\ n \in 1..n /\ (n > 1 => n - 1 \in 1..n) /\ (n > 2 => n - 2 \in 1..n)
      /\ (n - 1) - 1 = n - 2 /\ (n - 2) - 1 = n - 3
      /\ (n - 1 > 1 => n > 2) /\ (n - 2 > 1 => n > 3)
  BY <1>1
<1> HIDE DEF IsPath
<1>5. s[n].state # 0 => n > 1 /\ s[n - 1].state \in Predecessors(s[n].state)
  BY <1>2, <1>4
<1>6. n > 1 /\ s[n - 1].state # 0 => n > 2 /\ s[n - 2].state \in Predecessors(s[n - 1].state)
  BY <1>2, <1>4
<1>7. n > 2 /\ s[n - 2].state # 0 => n > 3 /\ s[n - 3].state \in Predecessors(s[n - 2].state)
  BY <1>2, <1>4
<1> QED
  BY <1>1, <1>3, <1>4, <1>5, <1>6, <1>7

LEMMA Uncovered ==
  ASSUME NEW s, IsPath(s), NEW p \in 1..14, Handles(p, Last(s).state), NEW n, n = Len(s)
  PROVE  /\ Productions[p].size \in 0..3 /\ n > Productions[p].size
         /\ Leads(s[n - Productions[p].size].state, Productions[p].lhs)
         /\ p \in {1, 11, 12} => s[n].value.tag = "SCL"
         /\ p \in {2, 3, 10} => s[n].value.tag = "SEQ"
         /\ p = 12 => s[n - 2].value.tag = "SEQ"
         /\ p \in {13, 14} => s[n - 1].value.tag = "SEQ"
<1> DEFINE a == s[n].state
           b == s[n - 1].state
           c == s[n - 2].state
           d == s[n - 3].state
<1>1. /\ n \in Nat /\ n >= 1 /\ Last(s) = s[n]
      /\ a # 0 => n > 1 /\ b \in Predecessors(a)
      /\ n > 1 /\ b # 0 => n > 2 /\ c \in Predecessors(b)
      /\ n > 2 /\ c # 0 => n > 3 /\ d \in Predecessors(c)
      /\ Typed(a, s[n].value)
      /\ n > 1 => Typed(b, s[n - 1].value)
      /\ n > 2 => Typed(c, s[n - 2].value)
  BY Below
<1>2. Handles(p, a)
  BY <1>1
<1>3. n - 0 = n
  BY <1>1
<1> HIDE DEF a, b, c, d
<1>4. CASE p \in 1..8
  <2>1. a = p + 1
    BY <1>2, <1>4 DEF Handles
  <2>2. n > 1 /\ b \in Predecessors(a)
    BY <1>1, <2>1
  <2>3. Productions[p].size = 1
    BY <1>4, Parts
  <2>4. CASE p \in 1..3
    <3>1. a \in {2, 3, 4}
      BY <2>1, <2>4
    <3>2. Predecessors(a) = {0}
      BY <3>1, SMTT(30) DEF Predecessors
    <3>3. Leads(b, expression)
      BY <2>2, <3>2, Leading
    <3>4. p = 1 => s[n].value.tag = "SCL"
      BY <2>1, <1>1 DEF Typed, ScalarStates
    <3>5. p \in {2, 3} => s[n].value.tag = "SEQ"
      BY <2>1, <1>1 DEF Typed, SequenceStates
    <3> QED
      BY <2>2, <2>3, <2>4, <3>3, <3>4, <3>5, Parts, SMTT(30) DEF b
  <2>5. CASE p \in 4..8
    <3>1. a \in 5..9
      BY <2>1, <2>5
    <3>2. Predecessors(a) = {0, 10, 11, 17}
      BY <3>1, SMTT(30) DEF Predecessors
    <3>3. Leads(b, scalar)
      BY <2>2, <3>2, Leading
    <3> QED
      BY <2>2, <2>3, <2>5, <3>3, Parts, SMTT(60) DEF b
  <2> QED
    BY <1>4, <2>4, <2>5
<1>5. CASE p = 9
  <2>1. a \in {10, 11}
    BY <1>2, <1>5 DEF Handles
  <2> QED
    BY <2>1, <1>1, <1>3, <1>5, Parts, Leading DEF a
<1>6. CASE p = 10
  <2>1. a = 13
    BY <1>2, <1>6 DEF Handles
  <2>2. b \in {10, 11} /\ n > 1
    BY <2>1, <1>1 DEF Predecessors
  <2>3. s[n].value.tag = "SEQ"
    BY <2>1, <1>1 DEF Typed, SequenceStates
  <2> QED
    BY <1>6, <2>2, <2>3, Parts, Leading, SMTT(30) DEF b
<1>7. CASE p = 11
  <2>1. a = 14
    BY <1>2, <1>7 DEF Handles
  <2>2. b \in {10, 11} /\ n > 1
    BY <2>1, <1>1 DEF Predecessors
  <2>3. s[n].value.tag = "SCL"
    BY <2>1, <1>1 DEF Typed, ScalarStates
  <2> QED
    BY <1>7, <2>2, <2>3, Parts, Leading, SMTT(30) DEF b
<1>8. CASE p = 12
  <2>1. a = 19
    BY <1>2, <1>8 DEF Handles
  <2>2. b = 17 /\ n > 1
    BY <2>1, <1>1 DEF Predecessors
  <2>3. c = 13 /\ n > 2
    BY <2>2, <1>1 DEF Predecessors
  <2>4. d \in {10, 11} /\ n > 3
    BY <2>3, <1>1 DEF Predecessors
  <2>5. s[n].value.tag = "SCL"
    BY <2>1, <1>1 DEF Typed, ScalarStates
  <2>6. s[n - 2].value.tag = "SEQ"
    BY <2>3, <1>1 DEF Typed, SequenceStates
  <2> QED
    BY <1>8, <2>4, <2>5, <2>6, Parts, Leading, SMTT(30) DEF d
<1>9. CASE p = 13
  <2>1. a = 16
    BY <1>2, <1>9 DEF Handles
  <2>2. b = 12 /\ n > 1
    BY <2>1, <1>1 DEF Predecessors
  <2>3. c = 10 /\ n > 2
    BY <2>2, <1>1 DEF Predecessors
  <2>4. d = 0 /\ n > 3
    BY <2>3, <1>1 DEF Predecessors
  <2>5. s[n - 1].value.tag = "SEQ"
    BY <2>2, <1>1 DEF Typed, SequenceStates
  <2> QED
    BY <1>9, <2>4, <2>5, Parts, Leading, SMTT(30) DEF d
<1>10. CASE p = 14
  <2>1. a = 18
    BY <1>2, <1>10 DEF Handles
  <2>2. b = 15 /\ n > 1
    BY <2>1, <1>1 DEF Predecessors
  <2>3. c = 11 /\ n > 2
    BY <2>2, <1>1 DEF Predecessors
  <2>4. d = 0 /\ n > 3
    BY <2>3, <1>1 DEF Predecessors
  <2>5. s[n - 1].value.tag = "SEQ"
    BY <2>2, <1>1 DEF Typed, SequenceStates
  <2> QED
    BY <1>10, <2>4, <2>5, Parts, Leading, SMTT(30) DEF d
<1> QED
  <2>1. p \in 1..8 \/ p \in {9, 10, 11, 12, 13, 14}
    OBVIOUS
  <2> QED
    BY <2>1, <1>4, <1>5, <1>6, <1>7, <1>8, <1>9, <1>10

-----------------------------------------------------------------------------
(* The steps of the parser *)

\* With a nonterminal pending there is no reduction; what is shifted belongs to
\* the state that is entered.
LEMMA Actions ==
  ASSUME IsPath(stack), TokensOK
  PROVE  /\ Action < 0 => \E p \in 1..14 : Action = -p /\ Handles(p, State) /\ token \notin Nonterminals
         /\ Action > 0 /\ Action # Error =>
              Action \in 1..19 /\ State \in Predecessors(Action) /\ Typed(Action, val)
<1>1. State \in 0..19
  BY PathTop DEF State
<1>2. CASE Leads(State, token)
  <2>1. PICK e \in Table[State] : e[1] = token /\ Action = e[2]
    BY <1>1, <1>2, Lookup DEF Leads
  <2>2. TokenLeads(State, token, Action)
    BY <1>1, <2>1, TableFacts
  <2>3. Action \in 0..19 /\ (Action # 0 => State \in Predecessors(Action))
    BY <2>2, Tokens DEF TokenLeads
  <2>4. Typed(Action, val)
    BY <2>2 DEF TokenLeads, Typed, TokensOK
  <2> QED
    BY <2>3, <2>4
<1>3. CASE ~Leads(State, token)
  <2>1. Action = Default[State]
    BY <1>1, <1>3, Lookup DEF Leads
  <2>2. token \notin Nonterminals
    BY <1>3 DEF Leads, TokensOK
  <2>3. CASE Default[State] # Error
    <3>1. PICK p \in 1..14 : Default[State] = -p /\ Handles(p, State)
      BY <1>1, <2>3, Defaults
    <3>2. ~(-p > 0)
      OBVIOUS
    <3> QED
      BY <2>1, <2>2, <3>1, <3>2
  <2>4. CASE Default[State] = Error
    BY <2>1, <2>4, Tokens
  <2> QED
    BY <2>3, <2>4
<1> QED
  BY <1>2, <1>3

LEMMA InitOK == Init => IInv
<1> SUFFICES ASSUME Init PROVE IInv
  OBVIOUS
<1>1. LexemesOK
  BY TextsAssumption DEF LexemesOK, Init
<1>2. IsPath(stack)
  <2> DEFINE x == [state |-> 0, value |-> Null]
  <2>1. IsList(<<x>>) /\ Len(<<x>>) = 1 /\ <<x>>[1] = x
    BY OneReply
  <2>2. x.state = 0
    OBVIOUS
  <2>3. 0 \notin ScalarStates /\ 0 \notin SequenceStates
    BY DEF ScalarStates, SequenceStates
  <2>4. stack = <<x>>
    BY DEF Init
  <2> HIDE DEF x
  <2>5. \A i \in 1..1 : i = 1
    OBVIOUS
  <2> QED
    BY <2>1, <2>2, <2>3, <2>4, <2>5 DEF IsPath, Typed
<1>3. TokensOK
  <2>1. Undetermined \in Terminals /\ Undetermined \notin Nonterminals
    BY Tokens DEF Terminals, Nonterminals, SequenceTokens
  <2> QED
    BY <2>1 DEF Init, TokensOK, Nonterminals
<1> QED
  BY <1>1, <1>2, <1>3 DEF IInv

\* What the scanner returns is no nonterminal.
LEMMA TerminalsApart == Terminals \intersect Nonterminals = {}
BY Tokens DEF Terminals, Nonterminals, SequenceTokens

LEMMA NextTokenStep == IInv /\ NextToken => IInv'
<1> SUFFICES ASSUME IInv, NextToken PROVE IInv'
  OBVIOUS
<1>1. /\ outcome = "parsing" /\ outcome' = outcome /\ stack' = stack /\ lexemes' = lexemes
      /\ IsPath(stack) /\ TokensOK /\ LexemesOK
  BY DEF NextToken, IInv
<1>2. CASE nextToken # Undetermined
  <2>1. token' = nextToken /\ nextToken' = Undetermined /\ next' = next
    BY <1>2 DEF NextToken, PopToken
  <2>2. token' \in Terminals /\ nextToken' \in Terminals
    BY <1>1, <2>1 DEF TokensOK, Terminals
  <2>3. token' \notin Nonterminals
    BY <2>2, TerminalsApart
  <2>4. TokensOK'
    BY <2>2, <2>3 DEF TokensOK, Nonterminals
  <2>5. LexemesOK'
    BY <1>1, <2>1 DEF LexemesOK
  <2> QED
    BY <1>1, <2>4, <2>5 DEF IInv
<1>3. CASE nextToken = Undetermined
  <2>1. nextToken' = nextToken
    BY <1>3 DEF NextToken
  <2>2. token' \in Terminals /\ next' \in Nat /\ next' >= 1
    <3>1. CASE next > Len(lexemes)
      BY <1>1, <1>3, <3>1 DEF NextToken, Terminals, LexemesOK
    <3>2. CASE ~(next > Len(lexemes))
      <4>1. next \in 1..Len(lexemes)
        BY <1>1, <3>2 DEF LexemesOK
      <4>2. token' = lexemes[next].token /\ next' = next + 1
        BY <1>3, <3>2 DEF NextToken
      <4>3. token' \in 1..BINARY
        BY <1>1, <4>1, <4>2 DEF LexemesOK
      <4> QED
        BY <1>1, <4>2, <4>3 DEF Terminals, LexemesOK
    <3> QED
      BY <3>1, <3>2
  <2>3. token' \notin Nonterminals
    BY <2>2, TerminalsApart
  <2>4. TokensOK'
    BY <1>1, <2>1, <2>2, <2>3 DEF TokensOK, Nonterminals
  <2>5. LexemesOK'
    BY <1>1, <2>2 DEF LexemesOK
  <2> QED
    BY <1>1, <2>4, <2>5 DEF IInv
<1> QED
  BY <1>2, <1>3

LEMMA ShiftStep == IInv /\ Shift => IInv'
<1> SUFFICES ASSUME IInv, Shift PROVE IInv'
  OBVIOUS
<1>1. /\ outcome = "parsing" /\ outcome' = outcome /\ lexemes' = lexemes /\ next' = next
      /\ IsPath(stack) /\ TokensOK /\ LexemesOK
  BY DEF Shift, Ready, IInv
<1>2. Action \in 1..19 /\ State \in Predecessors(Action) /\ Typed(Action, val)
  BY <1>1, Actions DEF Shift
<1>3. IsPath(stack')
  <2>1. stack' = Append(stack, [state |-> Action, value |-> val])
    BY DEF Shift
  <2>2. Last(stack).state \in Predecessors(Action)
    BY <1>2 DEF State
  <2> QED
    BY <1>1, <1>2, <2>1, <2>2, Pushed
<1>4. token' \in Terminals /\ nextToken' \in Terminals
  BY <1>1 DEF Shift, PopToken, TokensOK, Terminals
<1>5. token' \notin Nonterminals
  BY <1>4, TerminalsApart
<1>6. TokensOK'
  BY <1>4, <1>5 DEF TokensOK, Nonterminals
<1>7. LexemesOK'
  BY <1>1 DEF LexemesOK
<1> QED
  BY <1>1, <1>3, <1>6, <1>7 DEF IInv

\* What a reduction makes has the tag of the token that it makes.
LEMMA Made ==
  ASSUME IsPath(stack), NEW p \in 1..14, Handles(p, State)
  PROVE  /\ Productions[p].lhs \in Nonterminals
         /\ Productions[p].lhs = scalar => Semantic(p).tag = "SCL"
         /\ Productions[p].lhs \in SequenceTokens => Semantic(p).tag = "SEQ"
<1>1. \A v : Scl(v).tag = "SCL" /\ Seq_(v).tag = "SEQ"
  BY DEF Scl, Seq_, Semantic_
<1>2. GetSeq(val).tag = "SEQ"
  BY <1>1 DEF GetSeq
<1>3. CASE p \in 1..3
  <2>1. Productions[p].lhs = expression
    BY <1>3, Parts
  <2> QED
    BY <2>1, Tokens DEF Nonterminals, SequenceTokens
<1>4. CASE p \in 4..8
  <2>1. Productions[p].lhs = scalar /\ Semantic(p) = Scl(matched)
    BY <1>4, Parts DEF Semantic
  <2> QED
    BY <1>1, <2>1, Tokens DEF Nonterminals, SequenceTokens
<1>5. CASE p = 10
  <2>1. stack[Len(stack)].value.tag = "SEQ"
    BY <1>5, Uncovered DEF State
  <2>2. Len(stack) + 0 = Len(stack)
    BY DEF IsPath
  <2>3. Semantic(p) = Vsp(0) /\ Vsp(0).tag = "SEQ"
    BY <1>5, <2>1, <2>2 DEF Semantic, Vsp
  <2> QED
    BY <1>5, <2>3, Parts, Tokens DEF Nonterminals, SequenceTokens
<1>6. CASE p = 9
  <2>1. Semantic(p) = GetSeq(val)
    BY <1>6 DEF Semantic
  <2> QED
    BY <1>2, <1>6, <2>1, Parts, Tokens DEF Nonterminals, SequenceTokens
<1>7. CASE p \in 11..14
  <2>1. \E v : Semantic(p) = Seq_(v)
    BY <1>7 DEF Semantic
  <2>2. Semantic(p).tag = "SEQ"
    BY <1>1, <2>1
  <2>3. Productions[p].lhs \in SequenceTokens
    BY <1>7, Parts DEF SequenceTokens
  <2> QED
    BY <2>2, <2>3, Tokens DEF Nonterminals, SequenceTokens
<1> QED
  BY <1>3, <1>4, <1>5, <1>6, <1>7

LEMMA ReduceStep == IInv /\ Reduce => IInv'
<1> SUFFICES ASSUME IInv, Reduce PROVE IInv'
  OBVIOUS
<1>1. /\ outcome = "parsing" /\ lexemes' = lexemes /\ next' = next
      /\ IsPath(stack) /\ TokensOK /\ LexemesOK
  BY DEF Reduce, Ready, IInv
<1>2. LexemesOK'
  BY <1>1 DEF LexemesOK
<1>3. PICK p \in 1..14 : Action = -p /\ Handles(p, State) /\ token \notin Nonterminals
  BY <1>1, Actions DEF Reduce
<1>4. -Action = p
  BY <1>3
<1>5. CASE Throws(p)
  <2>1. outcome' = "threw"
    BY <1>4, <1>5 DEF Reduce
  <2> QED
    BY <1>2, <2>1 DEF IInv
<1>6. CASE ~Throws(p)
  <2> DEFINE n == Len(stack)
             m == n - Productions[p].size
  <2>1. /\ token = Undetermined => nextToken' = nextToken
        /\ token # Undetermined => nextToken' = token
        /\ val' = Semantic(p) /\ token' = Productions[p].lhs
        /\ stack' = SubSeq(stack, 1, m) /\ outcome' = outcome
    BY <1>4, <1>6 DEF Reduce
  <2>2. Productions[p].size \in 0..3 /\ n > Productions[p].size /\ Leads(stack[m].state, Productions[p].lhs)
    BY <1>1, <1>3, Uncovered DEF State
  <2>3. m \in 1..Len(stack)
    <3>1. n \in Nat
      BY <1>1 DEF IsPath
    <3> QED
      BY <2>2, <3>1
  <2> HIDE DEF m
  <2>4. IsPath(stack') /\ Last(stack') = stack[m]
    BY <1>1, <2>1, <2>3, Popped
  <2>5. State' = stack[m].state
    BY <2>4 DEF State
  <2>6. token' \in Nonterminals /\ (\E e \in Table[State'] : e[1] = token')
    BY <1>1, <1>3, <2>1, <2>2, <2>5, Made DEF Leads
  <2>7. nextToken' \in Terminals
    BY <1>1, <1>3, <2>1 DEF TokensOK
  <2>8. /\ token' = scalar => val'.tag = "SCL"
        /\ token' \in SequenceTokens => val'.tag = "SEQ"
    BY <1>1, <1>3, <2>1, Made
  <2>9. TokensOK'
    BY <2>6, <2>7, <2>8 DEF TokensOK
  <2> QED
    BY <1>2, <2>4, <2>9 DEF IInv
<1> QED
  BY <1>5, <1>6

LEMMA StepOK == IInv /\ [Next]_vars => IInv'
<1> SUFFICES ASSUME IInv, [Next]_vars PROVE IInv'
  OBVIOUS
<1>1. CASE NextToken
  BY <1>1, NextTokenStep
<1>2. CASE Shift
  BY <1>2, ShiftStep
<1>3. CASE Reduce
  BY <1>3, ReduceStep
<1>4. CASE Accepted \/ Unexpected \/ TakeResult
  <2>1. lexemes' = lexemes /\ next' = next /\ outcome' # "parsing"
    BY <1>4 DEF Accepted, Unexpected, TakeResult
  <2> QED
    BY <2>1 DEF IInv, LexemesOK
<1>5. CASE UNCHANGED vars
  BY <1>5 DEF vars, IInv, LexemesOK, TokensOK, State
<1> QED
  BY <1>1, <1>2, <1>3, <1>4, <1>5 DEF Next

\* executeAction() finds on the stack all the elements of a production, and
\* calls data() of each only where the value is of the tag that it asks for: the
\* unchecked accesses of the generated parser are sound for a text of any length.
THEOREM StackStaysTyped == Spec => []StackIsTyped
<1>1. IInv => StackIsTyped
  <2> SUFFICES ASSUME IInv, outcome = "parsing", Action < 0 PROVE StackIsTyped
    BY DEF StackIsTyped, Ready
  <2> DEFINE n == Len(stack)
  <2>1. IsPath(stack) /\ TokensOK
    BY DEF IInv
  <2>2. PICK p \in 1..14 : Action = -p /\ Handles(p, State)
    BY <2>1, Actions
  <2>3. -Action = p
    BY <2>2
  <2>4. n \in Nat /\ n + 0 = n /\ n + (-1) = n - 1 /\ n + (-2) = n - 2
    BY <2>1 DEF IsPath
  <2>5. /\ n > Productions[p].size
        /\ p \in {1, 11, 12} => stack[n].value.tag = "SCL"
        /\ p \in {2, 3, 10} => stack[n].value.tag = "SEQ"
        /\ p = 12 => stack[n - 2].value.tag = "SEQ"
        /\ p \in {13, 14} => stack[n - 1].value.tag = "SEQ"
    BY <2>1, <2>2, Uncovered, SMTT(60) DEF State
  <2>6. /\ p \in {1, 11, 12} => Vsp(0).tag = "SCL"
        /\ p \in {2, 3, 10} => Vsp(0).tag = "SEQ"
        /\ p = 12 => Vsp(-2).tag = "SEQ"
        /\ p \in {13, 14} => Vsp(-1).tag = "SEQ"
    BY <2>4, <2>5 DEF Vsp
  <2> HIDE DEF n
  <2> QED
    BY <2>3, <2>5, <2>6 DEF StackIsTyped, n
<1> QED
  BY InitOK, StepOK, <1>1, PTL DEF Spec

-----------------------------------------------------------------------------
(* What the stack stands for *)

\* The lexemes from a to b, a excluded, are scalars d and commas.
SeriesOf(ls, d, a, b) ==
  \E k \in Nat :
    /\ k >= 1 /\ b = a + 2 * k - 1
    /\ \A j \in 1..k : ls[a + 2 * j - 1].token \in ScalarTokens
    /\ \A j \in 1..(k - 1) : ls[a + 2 * j].token = Comma
    /\ d = [j \in 1..k |-> ls[a + 2 * j - 1].scalar]
OptSeriesOf(ls, d, a, b) == (a = b /\ d = <<>>) \/ SeriesOf(ls, d, a, b)
EnclosedOf(ls, open, close, d, a, b) ==
  /\ a + 2 <= b /\ ls[a + 1].token = open /\ ls[b].token = close
  /\ OptSeriesOf(ls, d, a + 1, b - 1)
ScalarFrom(ls, d, a, b) == b = a + 1 /\ ls[b].token \in ScalarTokens /\ d = <<ls[b].scalar>>

\* A symbol of the grammar, with the value d, stands for the lexemes from a to b.
Derives(ls, x, d, a, b) ==
  /\ x \in 1..BINARY => b = a + 1 /\ ls[b].token = x
  /\ x = scalar => ScalarFrom(ls, d, a, b)
  /\ x = series => SeriesOf(ls, d, a, b)
  /\ x = opt_series => OptSeriesOf(ls, d, a, b)
  /\ x = sequence => EnclosedOf(ls, 91, 93, d, a, b)
  /\ x = tuple => EnclosedOf(ls, 123, 125, d, a, b)

\* The first m lexemes are an expression of the value r.
ExpressionOf(ls, r, m) ==
  \/ ScalarFrom(ls, r.items, 0, m) /\ r = Value("scalar", r.items)
  \/ EnclosedOf(ls, 91, 93, r.items, 0, m) /\ r = Value("sequence", r.items)
  \/ EnclosedOf(ls, 123, 125, r.items, 0, m) /\ r = Value("tuple", r.items)

\* The symbol that leads to a state.
Symbol(a) ==
  CASE a = 1 -> expression
    [] a \in ScalarStates -> scalar
    [] a = 3 -> sequence
    [] a = 4 -> tuple
    [] a \in 5..9 -> a + 252
    [] a = 10 -> 91
    [] a = 11 -> 123
    [] a \in {12, 15} -> opt_series
    [] a = 13 -> series
    [] a = 16 -> 93
    [] a = 17 -> Comma
    [] a = 18 -> 125

\* The token that is read and not shifted yet, and the number of those shifted.
Ahead == IF token \in Nonterminals THEN nextToken ELSE token
Shifted == IF Ahead > 0 THEN next - 2 ELSE next - 1

\* One lexeme is read ahead at most, and d_matched is the text of the last one.
ReadOK ==
  /\ IsList(lexemes) /\ next <= Len(lexemes) + 1
  /\ token \in Terminals => nextToken = Undetermined /\ val = Null
  /\ nextVal = Null
  /\ Ahead = Eof => next = Len(lexemes) + 1
  /\ Ahead > 0 => next > 1 /\ Ahead = lexemes[next - 1].token
  /\ Ahead # Eof /\ next > 1 => matched = lexemes[next - 1].scalar
  /\ State \in 5..9 => token = Undetermined

\* The elements of the stack stand for the lexemes up to e of each of them, and the
\* nonterminal that is pending for the rest of what was shifted.
Ends(e) ==
  /\ e \in [Nat -> Nat] /\ e[1] = 0
  /\ \A i \in 1..Len(stack) : i > 1 =>
       Derives(lexemes, Symbol(stack[i].state), stack[i].value.data, e[i - 1], e[i])
  /\ IF token \in Nonterminals THEN Derives(lexemes, token, val.data, e[Len(stack)], Shifted)
     ELSE e[Len(stack)] = Shifted
StackDerives == \E e : Ends(e)

ResultOK == token = expression \/ State = 1 => ExpressionOf(lexemes, result, Shifted)

\* A series is reduced for a token that does not go on with it.
ClosesOK ==
  token = opt_series \/ State \in {12, 15} =>
    Ahead # Undetermined /\ Ahead \notin IF Shifted = 1 THEN ScalarTokens ELSE {Comma}

GrammarInv ==
  /\ IInv /\ ExpressionsAreAccepted
  /\ outcome = "parsing" => ReadOK /\ StackDerives /\ ResultOK /\ ClosesOK

-----------------------------------------------------------------------------
(* What the automaton does in its states *)

LEMMA TableSymbols ==
  ASSUME NEW s \in 0..19, NEW e \in Table[s]
  PROVE  \/ e[2] = Accept /\ s = 1 /\ e[1] = Eof
         \/ e[2] \in 1..19 /\ e[1] = Symbol(e[2])
<1>1. ASSUME NEW t \in ScalarTokens
      PROVE  t - 252 \in 1..19 /\ t = Symbol(t - 252)
  <2> DEFINE a == t - 252
  <2>1. a \in 5..9 /\ a + 252 = t
    BY Tokens
  <2> HIDE DEF a
  <2>2. Symbol(a) = a + 252
    BY <2>1 DEF Symbol, ScalarStates
  <2> QED
    BY <2>1, <2>2 DEF a
<1>2. /\ Symbol(1) = expression /\ Symbol(2) = scalar /\ Symbol(14) = scalar /\ Symbol(19) = scalar
      /\ Symbol(3) = sequence /\ Symbol(4) = tuple /\ Symbol(10) = 91 /\ Symbol(11) = 123
      /\ Symbol(12) = opt_series /\ Symbol(15) = opt_series /\ Symbol(13) = series
      /\ Symbol(16) = 93 /\ Symbol(17) = Comma /\ Symbol(18) = 125
  BY DEF Symbol, ScalarStates
<1> DEFINE OK(x, y) == y \in 1..19 /\ x = Symbol(y)
<1>3. \A t \in ScalarTokens : OK(t, t - 252)
  BY <1>1
<1>4. /\ OK(expression, 1) /\ OK(scalar, 2) /\ OK(sequence, 3) /\ OK(tuple, 4) /\ OK(91, 10) /\ OK(123, 11)
      /\ OK(scalar, 14) /\ OK(series, 13) /\ OK(opt_series, 12) /\ OK(opt_series, 15)
      /\ OK(93, 16) /\ OK(Comma, 17) /\ OK(125, 18) /\ OK(scalar, 19)
  BY <1>2
<1> HIDE DEF OK
<1>5. \/ e[2] = Accept /\ s = 1 /\ e[1] = Eof
      \/ OK(e[1], e[2])
  BY <1>3, <1>4, Rows
<1> QED
  BY <1>5 DEF OK

\* The tokens that are in a row.
LEMMA InRow ==
  ASSUME NEW s \in 0..19, NEW t, ~Leads(s, t)
  PROVE  /\ s \in {0, 10, 11, 17} => t \notin ScalarTokens
         /\ s = 0 => t # 91 /\ t # 123
         /\ s = 1 => t # Eof
         /\ s = 12 => t # 93
         /\ s = 13 => t # Comma
         /\ s = 15 => t # 125
<1>1. ASSUME NEW r \in {0, 10, 11, 17}, NEW x \in ScalarTokens
      PROVE  Leads(r, x)
  <2> DEFINE e == <<x, x - 252>>
  <2>1. e \in Table[r]
    BY Rows
  <2>2. e[1] = x
    OBVIOUS
  <2> HIDE DEF e
  <2> QED
    BY <2>1, <2>2 DEF Leads
<1>2. /\ Leads(0, 91) /\ Leads(0, 123) /\ Leads(1, Eof)
      /\ Leads(12, 93) /\ Leads(13, Comma) /\ Leads(15, 125)
  <2>1. /\ <<91, 10>> \in Table[0] /\ <<123, 11>> \in Table[0] /\ <<Eof, Accept>> \in Table[1]
        /\ <<93, 16>> \in Table[12] /\ <<Comma, 17>> \in Table[13] /\ <<125, 18>> \in Table[15]
    BY Rows
  <2>2. \A x, y : <<x, y>>[1] = x
    OBVIOUS
  <2> QED
    BY <2>1, <2>2 DEF Leads
<1> QED
  BY <1>1, <1>2

LEMMA NoLeads ==
  ASSUME NEW s \in 5..9, NEW t
  PROVE  ~Leads(s, t)
<1>1. Table[s] = {}
  BY Rows
<1> QED
  BY <1>1 DEF Leads

LEMMA ActionsFor ==
  ASSUME IsPath(stack), TokensOK
  PROVE  /\ Action > 0 /\ Action # Error => token = Symbol(Action)
         /\ Action < 0 => ~Leads(State, token)
         /\ Action = Accept => State = 1 /\ token = Eof
         /\ Action = Error => State \in {0, 1, 12, 15, 17} /\ ~Leads(State, token) /\ token \in Terminals
<1>1. State \in 0..19
  BY PathTop DEF State
<1>2. CASE Leads(State, token)
  <2>1. PICK e \in Table[State] : e[1] = token /\ Action = e[2]
    BY <1>1, <1>2, Lookup DEF Leads
  <2>2. \/ Action = Accept /\ State = 1 /\ token = Eof
        \/ Action \in 1..19 /\ token = Symbol(Action)
    BY <1>1, <2>1, TableSymbols
  <2> QED
    BY <2>2, Tokens
<1>3. CASE ~Leads(State, token)
  <2>1. Action = Default[State]
    BY <1>1, <1>3, Lookup DEF Leads
  <2>2. token \in Terminals
    BY <1>3 DEF Leads, TokensOK
  <2>3. CASE Default[State] # Error
    <3>1. PICK p \in 1..14 : Default[State] = -p
      BY <1>1, <2>3, Defaults
    <3>2. Action < 0 /\ ~(Action > 0) /\ Action # Error /\ Action # Accept
      BY <2>1, <3>1, Tokens
    <3> QED
      BY <1>3, <3>2
  <2>4. CASE Default[State] = Error
    <3>1. State \in {0, 1, 12, 15, 17}
      BY <1>1, <2>4, Tokens DEF Default
    <3>2. Action = 100
      BY <2>1, <2>4, Tokens
    <3> QED
      BY <1>3, <2>2, <3>1, <3>2, Tokens
  <2> QED
    BY <2>3, <2>4
<1> QED
  BY <1>2, <1>3

-----------------------------------------------------------------------------
(* Reading *)

\* nextToken() reads a lexeme ahead and shifts none.
LEMMA ReadNext ==
  ASSUME IInv, ReadOK, NextToken
  PROVE  /\ ReadOK' /\ Shifted' = Shifted
         /\ token = Undetermined /\ token \notin Nonterminals /\ token' \notin Nonterminals
<1>1. /\ token = Undetermined /\ State \in RequiringToken /\ stack' = stack /\ lexemes' = lexemes
      /\ LexemesOK /\ TokensOK
  BY DEF NextToken, IInv
<1>2. Undetermined \in Terminals /\ token \notin Nonterminals
  BY <1>1, TerminalsApart DEF Terminals
<1>3. nextToken = Undetermined /\ val = Null /\ nextVal = Null
  BY <1>1, <1>2 DEF ReadOK
<1>4. nextToken' = nextToken /\ val' = val /\ nextVal' = nextVal
  BY <1>3 DEF NextToken
<1>5. Ahead = Undetermined /\ Shifted = next - 1
  BY <1>1, <1>2, Tokens DEF Ahead, Shifted
<1>6. State' = State /\ State \notin 5..9
  BY <1>1 DEF State, RequiringToken
<1>7. CASE next > Len(lexemes)
  <2>1. token' = Eof /\ next' = next
    BY <1>3, <1>7 DEF NextToken
  <2>2. token' \in Terminals /\ token' \notin Nonterminals
    BY <2>1, TerminalsApart DEF Terminals
  <2>3. Ahead' = Eof
    BY <2>1, <2>2 DEF Ahead
  <2>4. next = Len(lexemes) + 1
    BY <1>1, <1>7 DEF ReadOK, LexemesOK
  <2>5. ReadOK'
    BY <1>1, <1>3, <1>4, <1>6, <2>1, <2>3, <2>4, Tokens DEF ReadOK
  <2>6. Shifted' = Shifted
    BY <1>5, <2>1, <2>3, Tokens DEF Shifted
  <2> QED
    BY <1>1, <1>2, <2>2, <2>5, <2>6
<1>8. CASE ~(next > Len(lexemes))
  <2>1. token' = lexemes[next].token /\ matched' = lexemes[next].scalar /\ next' = next + 1
    BY <1>3, <1>8 DEF NextToken
  <2>2. next \in 1..Len(lexemes) /\ next \in Nat
    BY <1>1, <1>8 DEF LexemesOK
  <2>3. token' \in 1..BINARY
    BY <1>1, <2>1, <2>2 DEF LexemesOK
  <2>4. token' \in Terminals /\ token' \notin Nonterminals
    BY <2>3, TerminalsApart DEF Terminals
  <2>5. Ahead' = token' /\ Ahead' > 0 /\ Ahead' # Eof
    BY <2>3, <2>4, Tokens DEF Ahead
  <2>6. next' - 1 = next /\ next' > 1 /\ next' <= Len(lexemes) + 1
    BY <1>1, <2>1, <2>2 DEF LexemesOK
  <2>7. ReadOK'
    BY <1>1, <1>3, <1>4, <1>6, <2>1, <2>4, <2>5, <2>6 DEF ReadOK
  <2>8. Shifted' = Shifted
    BY <1>5, <2>1, <2>2, <2>5 DEF Shifted
  <2> QED
    BY <1>1, <1>2, <2>4, <2>7, <2>8
<1> QED
  BY <1>7, <1>8

\* push__() of a nonterminal leaves the lexeme that is read ahead, and of any
\* other token shifts it.
LEMMA ReadShift ==
  ASSUME IInv, ReadOK, Shift
  PROVE  /\ ReadOK' /\ token' \notin Nonterminals
         /\ token \in Nonterminals => Shifted' = Shifted /\ Ahead' = Ahead
         /\ token \notin Nonterminals =>
              /\ token \in 1..BINARY /\ Shifted' = Shifted + 1
              /\ lexemes[Shifted'].token = token
<1>1. /\ token' = nextToken /\ nextToken' = Undetermined /\ val' = nextVal /\ nextVal' = Null
      /\ lexemes' = lexemes /\ next' = next /\ matched' = matched
      /\ stack' = Append(stack, [state |-> Action, value |-> val])
      /\ IsPath(stack) /\ LexemesOK /\ TokensOK
  BY DEF Shift, PopToken, Ready, IInv
<1>2. nextToken \in Terminals /\ token' \notin Nonterminals /\ token \in Terminals \union Nonterminals
  BY <1>1, TerminalsApart DEF TokensOK
<1>3. token = Symbol(Action) /\ Action \in 1..19
  BY <1>1, Actions, ActionsFor DEF Shift
<1>4. State' = Action
  <2> DEFINE x == [state |-> Action, value |-> val]
  <2>1. stack \in Seq(Members(stack)) /\ x.state = Action
    BY <1>1 DEF IsPath, IsList
  <2>2. stack \in Seq(Members(stack) \union {x})
    BY <2>1, SeqMonotonic
  <2> HIDE DEF x
  <2>3. Len(stack') = Len(stack) + 1 /\ stack'[Len(stack) + 1] = x
    BY <1>1, <2>2, AppendProperties DEF x
  <2> QED
    BY <2>1, <2>3 DEF State, Last
<1>5. Ahead' = nextToken
  BY <1>1, <1>2 DEF Ahead
<1>6. CASE token \in Nonterminals
  <2>1. Ahead' = Ahead
    BY <1>5, <1>6 DEF Ahead
  <2>2. Action \notin 5..9
    <3>1. ASSUME Action \in 5..9 PROVE Symbol(Action) = Action + 252
      BY <3>1 DEF Symbol, ScalarStates
    <3>2. \A x \in Nonterminals : x \notin 257..261
      BY Tokens DEF Nonterminals, SequenceTokens
    <3> QED
      BY <1>3, <1>6, <3>1, <3>2
  <2>3. ReadOK'
    BY <1>1, <1>4, <2>1, <2>2 DEF ReadOK
  <2> QED
    BY <1>1, <1>2, <1>6, <2>1, <2>3 DEF Shifted
<1>7. CASE token \notin Nonterminals
  <2>1. token \in Terminals /\ Ahead = token /\ nextToken = Undetermined
    BY <1>2, <1>7 DEF Ahead, ReadOK
  <2>2. token # Undetermined /\ token # Eof
    <3>1. Symbol(Action) \in Nat
      <4>1. /\ Symbol(1) = expression /\ Symbol(2) = scalar /\ Symbol(14) = scalar /\ Symbol(19) = scalar
            /\ Symbol(3) = sequence /\ Symbol(4) = tuple /\ Symbol(10) = 91 /\ Symbol(11) = 123
            /\ Symbol(12) = opt_series /\ Symbol(15) = opt_series /\ Symbol(13) = series
            /\ Symbol(16) = 93 /\ Symbol(17) = Comma /\ Symbol(18) = 125
        BY DEF Symbol, ScalarStates
      <4>2. \A a \in 5..9 : Symbol(a) = a + 252 /\ a + 252 \in Nat
        BY DEF Symbol, ScalarStates
      <4> QED
        BY <1>3, <4>1, <4>2, Tokens
    <3> QED
      BY <1>3, <3>1, Tokens
  <2>3. token \in 1..BINARY
    BY <2>1, <2>2 DEF Terminals
  <2>4. Ahead > 0 /\ Ahead # Eof
    BY <2>1, <2>3, Tokens
  <2>5. next > 1 /\ token = lexemes[next - 1].token /\ matched = lexemes[next - 1].scalar
    BY <2>1, <2>4 DEF ReadOK
  <2>6. Ahead' = Undetermined
    BY <1>5, <2>1
  <2>7. Shifted = next - 2 /\ Shifted' = next - 1
    BY <1>1, <2>4, <2>6, Tokens DEF Shifted
  <2>8. ReadOK'
    BY <1>1, <1>2, <2>1, <2>5, <2>6, Tokens DEF ReadOK
  <2>9. Shifted' = Shifted + 1
    BY <1>1, <2>7 DEF LexemesOK
  <2> QED
    BY <1>2, <1>7, <2>3, <2>5, <2>7, <2>8, <2>9
<1> QED
  BY <1>6, <1>7

\* A reduction neither reads nor shifts.
LEMMA ReadReduce ==
  ASSUME IInv, ReadOK, Reduce, outcome' = "parsing"
  PROVE  ReadOK' /\ Shifted' = Shifted /\ Ahead' = Ahead
<1>1. IsPath(stack) /\ LexemesOK /\ TokensOK /\ lexemes' = lexemes /\ next' = next /\ matched' = matched
  BY DEF Reduce, Ready, IInv
<1>2. PICK p \in 1..14 : Action = -p /\ Handles(p, State) /\ token \notin Nonterminals
  BY <1>1, Actions DEF Reduce
<1>3. -Action = p
  BY <1>2
<1>4. ~Throws(p)
  BY <1>3 DEF Reduce
<1>5. /\ token = Undetermined => nextToken' = nextToken /\ nextVal' = nextVal
      /\ token # Undetermined => nextToken' = token /\ nextVal' = val
      /\ token' = Productions[p].lhs
  BY <1>3, <1>4 DEF Reduce
<1>6. token \in Terminals /\ nextToken = Undetermined /\ val = Null /\ nextVal = Null
  BY <1>1, <1>2 DEF TokensOK, ReadOK
<1>7. token' \in Nonterminals /\ IInv'
  BY <1>1, <1>2, <1>5, Made, ReduceStep
<1>8. Ahead' = token /\ Ahead = token
  BY <1>2, <1>5, <1>6, <1>7 DEF Ahead
<1>9. State' \notin 5..9
  <2>1. Leads(State', token')
    BY <1>7 DEF IInv, TokensOK, Leads
  <2> QED
    BY <2>1, NoLeads
<1>10. token' \notin Terminals
  BY <1>7, TerminalsApart
<1>11. ReadOK'
  BY <1>1, <1>5, <1>6, <1>8, <1>9, <1>10 DEF ReadOK
<1> QED
  BY <1>1, <1>8, <1>11 DEF Shifted

-----------------------------------------------------------------------------
(* Productions *)

LEMMA SeriesStarts ==
  ASSUME NEW ls, NEW d, NEW a \in Nat, NEW b, ScalarFrom(ls, d, a, b)
  PROVE  SeriesOf(ls, d, a, b)
<1> DEFINE D == [j \in 1..1 |-> ls[a + 2 * j - 1].scalar]
<1>1. b = a + 1 /\ ls[b].token \in ScalarTokens /\ d = <<ls[b].scalar>>
  BY DEF ScalarFrom
<1>2. a + 2 * 1 - 1 = b /\ b = a + 2 * 1 - 1 /\ 1 \in Nat /\ 1 >= 1
  BY <1>1
<1>3. \A j \in 1..1 : a + 2 * j - 1 = b
  BY <1>1
<1>4. D = <<ls[b].scalar>>
  BY <1>3
<1>5. \A j \in 1..1 : ls[a + 2 * j - 1].token \in ScalarTokens
  BY <1>1, <1>3
<1>6. \A j \in 1..(1 - 1) : ls[a + 2 * j].token = Comma
  OBVIOUS
<1> QED
  BY <1>1, <1>2, <1>4, <1>5, <1>6 DEF SeriesOf

LEMMA SeriesGrows ==
  ASSUME NEW ls, NEW d, NEW x, NEW a \in Nat, NEW b \in Nat,
         SeriesOf(ls, d, a, b), ls[b + 1].token = Comma, ScalarFrom(ls, x, b + 1, b + 2)
  PROVE  SeriesOf(ls, d \o x, a, b + 2)
<1>1. PICK k \in Nat :
        /\ k >= 1 /\ b = a + 2 * k - 1
        /\ \A j \in 1..k : ls[a + 2 * j - 1].token \in ScalarTokens
        /\ \A j \in 1..(k - 1) : ls[a + 2 * j].token = Comma
        /\ d = [j \in 1..k |-> ls[a + 2 * j - 1].scalar]
  BY DEF SeriesOf
<1> DEFINE v(j) == ls[a + 2 * j - 1].scalar
           D == [j \in 1..(k + 1) |-> v(j)]
           S == {v(j) : j \in 1..(k + 1)}
<1>2. x = <<v(k + 1)>> /\ ls[b + 2].token \in ScalarTokens /\ a + 2 * (k + 1) - 1 = b + 2
  <2>1. a + 2 * (k + 1) - 1 = b + 2
    BY <1>1
  <2> QED
    BY <2>1 DEF ScalarFrom
<1>3. d = [j \in 1..k |-> v(j)]
  BY <1>1
<1>4. \A j \in 1..(k + 1) : v(j) \in S
  OBVIOUS
<1>5. \A j \in 1..k : j \in 1..(k + 1)
  BY <1>1
<1>6. k + 1 \in Nat /\ k + 1 >= 1 /\ k + 1 \in 1..(k + 1)
  BY <1>1
<1> HIDE DEF S, v
<1>7. d \in Seq(S) /\ Len(d) = k
  <2>1. \A j \in 1..k : v(j) \in S
    BY <1>4, <1>5
  <2>2. [j \in 1..k |-> v(j)] \in Seq(S)
    BY <2>1, IsASeq
  <2> QED
    BY <1>3, <2>2
<1>8. D \in Seq(S) /\ Len(D) = k + 1
  BY <1>4, <1>6, IsASeq
<1>9. x \in Seq(S) /\ Len(x) = 1 /\ x[1] = v(k + 1)
  BY <1>2, <1>4, <1>6
<1> DEFINE c == d \o x
<1>10. /\ c \in Seq(S) /\ Len(c) = k + 1
       /\ \A j \in 1..(k + 1) : c[j] = IF j <= k THEN d[j] ELSE x[j - k]
  <2>1. d \in Seq(S) /\ x \in Seq(S)
    BY <1>7, <1>9
  <2>2. /\ c \in Seq(S) /\ Len(c) = Len(d) + Len(x)
        /\ \A i \in 1..(Len(d) + Len(x)) : c[i] = IF i <= Len(d) THEN d[i] ELSE x[i - Len(d)]
    BY <2>1, ConcatProperties
  <2> HIDE DEF c
  <2> QED
    BY <2>2, <1>7, <1>9
<1>11. \A j \in 1..(k + 1) : c[j] = D[j]
  <2> SUFFICES ASSUME NEW j \in 1..(k + 1) PROVE c[j] = v(j)
    OBVIOUS
  <2> HIDE DEF c
  <2>1. CASE j <= k
    BY <1>3, <1>10, <2>1
  <2>2. CASE ~(j <= k)
    <3>1. j = k + 1 /\ j - k = 1
      BY <2>2
    <3> QED
      BY <1>9, <1>10, <2>2, <3>1
  <2> QED
    BY <2>1, <2>2
<1> HIDE DEF c, D
<1>12. c = D
  BY <1>8, <1>10, <1>11, SeqEqual
<1>13. \A j \in 1..(k + 1) : ls[a + 2 * j - 1].token \in ScalarTokens
  <2> SUFFICES ASSUME NEW j \in 1..(k + 1) PROVE ls[a + 2 * j - 1].token \in ScalarTokens
    OBVIOUS
  <2>1. j \in 1..k \/ a + 2 * j - 1 = b + 2
    BY <1>1
  <2> QED
    BY <1>1, <1>2, <2>1
<1>14. \A j \in 1..(k + 1 - 1) : ls[a + 2 * j].token = Comma
  <2> SUFFICES ASSUME NEW j \in 1..(k + 1 - 1) PROVE ls[a + 2 * j].token = Comma
    OBVIOUS
  <2>1. j \in 1..(k - 1) \/ a + 2 * j = b + 1
    BY <1>1
  <2> QED
    BY <1>1, <2>1
<1>15. d \o x = [j \in 1..(k + 1) |-> ls[a + 2 * j - 1].scalar]
  BY <1>12 DEF c, D, v
<1> DEFINE K == k + 1
<1>16. /\ K \in Nat /\ K >= 1 /\ b + 2 = a + 2 * K - 1
       /\ \A j \in 1..K : ls[a + 2 * j - 1].token \in ScalarTokens
       /\ \A j \in 1..(K - 1) : ls[a + 2 * j].token = Comma
       /\ d \o x = [j \in 1..K |-> ls[a + 2 * j - 1].scalar]
  <2>1. K \in Nat /\ K >= 1 /\ b + 2 = a + 2 * K - 1
    BY <1>2, <1>6
  <2>2. \A j \in 1..K : ls[a + 2 * j - 1].token \in ScalarTokens
    BY <1>13
  <2>3. \A j \in 1..(K - 1) : ls[a + 2 * j].token = Comma
    BY <1>14
  <2>4. d \o x = [j \in 1..K |-> ls[a + 2 * j - 1].scalar]
    BY <1>15
  <2> HIDE DEF K
  <2> QED
    BY <2>1, <2>2, <2>3, <2>4
<1> HIDE DEF K
<1> QED
  BY <1>16 DEF SeriesOf

LEMMA Symbols ==
  /\ Symbol(1) = expression /\ Symbol(2) = scalar /\ Symbol(14) = scalar /\ Symbol(19) = scalar
  /\ Symbol(3) = sequence /\ Symbol(4) = tuple /\ Symbol(10) = 91 /\ Symbol(11) = 123
  /\ Symbol(12) = opt_series /\ Symbol(15) = opt_series /\ Symbol(13) = series
  /\ Symbol(16) = 93 /\ Symbol(17) = Comma /\ Symbol(18) = 125
  /\ \A a \in 5..9 : Symbol(a) = a + 252 /\ a + 252 \in ScalarTokens
BY Tokens DEF Symbol, ScalarStates

\* The elements are those of a path: a bracket is the first lexeme, and what is above
\* it begins behind it.
LEMMA Bracket ==
  ASSUME IsPath(stack), NEW e, Ends(e), NEW i \in 1..Len(stack), stack[i].state \in {10, 11}
  PROVE  i = 2 /\ e[2] = 1 /\ lexemes[1].token = Symbol(stack[i].state)
<1>1. i > 1 /\ i - 1 \in 1..Len(stack) /\ stack[i - 1].state = 0
  <2>1. i > 1 /\ stack[i - 1].state \in Predecessors(stack[i].state) /\ i - 1 \in 1..Len(stack)
    BY PathTop
  <2>2. Predecessors(10) = {0} /\ Predecessors(11) = {0}
    BY DEF Predecessors
  <2>3. Predecessors(stack[i].state) = {0}
    BY <2>2
  <2> QED
    BY <2>1, <2>3
<1>2. i - 1 = 1
  BY <1>1 DEF IsPath
<1>3. i = 2
  BY <1>2
<1>4. e[1] = 0 /\ Derives(lexemes, Symbol(stack[2].state), stack[2].value.data, e[1], e[2])
  <2>1. 2 > 1 /\ 2 - 1 = 1 /\ 2 \in 1..Len(stack)
    BY <1>3
  <2> QED
    BY <2>1 DEF Ends
<1>5. Symbol(stack[2].state) \in 1..BINARY
  <2>1. Symbol(10) \in 1..BINARY /\ Symbol(11) \in 1..BINARY
    BY Tokens, Symbols
  <2> QED
    BY <1>3, <2>1
<1> QED
  BY <1>3, <1>4, <1>5 DEF Derives

\* What is one, two and three elements below the top, and what they stand for.
LEMMA TopDerives ==
  ASSUME IsPath(stack), NEW e, Ends(e), NEW n, n = Len(stack)
  PROVE  /\ n > 1 => Derives(lexemes, Symbol(stack[n].state), stack[n].value.data, e[n - 1], e[n])
         /\ n > 2 => Derives(lexemes, Symbol(stack[n - 1].state), stack[n - 1].value.data, e[n - 2], e[n - 1])
         /\ n > 3 => Derives(lexemes, Symbol(stack[n - 2].state), stack[n - 2].value.data, e[n - 3], e[n - 2])
<1>1. n \in Nat /\ n >= 1
  BY DEF IsPath
<1>2. \A i \in 1..n : i > 1 =>
        Derives(lexemes, Symbol(stack[i].state), stack[i].value.data, e[i - 1], e[i])
  BY DEF Ends
<1>3. /\ n \in 1..n /\ (n > 2 => n - 1 \in 1..n /\ n - 1 > 1) /\ (n > 3 => n - 2 \in 1..n /\ n - 2 > 1)
      /\ (n - 1) - 1 = n - 2 /\ (n - 2) - 1 = n - 3
  BY <1>1
<1>4. n > 1 => Derives(lexemes, Symbol(stack[n].state), stack[n].value.data, e[n - 1], e[n])
  BY <1>2, <1>3
<1>5. n > 2 => Derives(lexemes, Symbol(stack[n - 1].state), stack[n - 1].value.data, e[n - 2], e[n - 1])
  BY <1>2, <1>3
<1>6. n > 3 => Derives(lexemes, Symbol(stack[n - 2].state), stack[n - 2].value.data, e[n - 3], e[n - 2])
  BY <1>2, <1>3
<1> QED
  BY <1>4, <1>5, <1>6

\* What the symbols derive, one by one.
LEMMA OfTerminal ==
  ASSUME NEW ls, NEW d, NEW a, NEW b, NEW t \in 1..BINARY
  PROVE  Derives(ls, t, d, a, b) <=> b = a + 1 /\ ls[b].token = t
<1>1. t \notin {scalar, series, opt_series, sequence, tuple}
  BY Tokens
<1> QED
  BY <1>1 DEF Derives

LEMMA OfScalar ==
  ASSUME NEW ls, NEW d, NEW a, NEW b
  PROVE  Derives(ls, scalar, d, a, b) <=> ScalarFrom(ls, d, a, b)
<1>1. scalar \notin 1..BINARY /\ scalar \notin {series, opt_series, sequence, tuple}
  BY Tokens
<1> QED
  BY <1>1 DEF Derives

LEMMA OfSeries ==
  ASSUME NEW ls, NEW d, NEW a, NEW b
  PROVE  Derives(ls, series, d, a, b) <=> SeriesOf(ls, d, a, b)
<1>1. series \notin 1..BINARY /\ series \notin {scalar, opt_series, sequence, tuple}
  BY Tokens
<1> QED
  BY <1>1 DEF Derives

LEMMA OfOptSeries ==
  ASSUME NEW ls, NEW d, NEW a, NEW b
  PROVE  Derives(ls, opt_series, d, a, b) <=> OptSeriesOf(ls, d, a, b)
<1>1. opt_series \notin 1..BINARY /\ opt_series \notin {scalar, series, sequence, tuple}
  BY Tokens
<1> QED
  BY <1>1 DEF Derives

LEMMA OfSequence ==
  ASSUME NEW ls, NEW d, NEW a, NEW b
  PROVE  Derives(ls, sequence, d, a, b) <=> EnclosedOf(ls, 91, 93, d, a, b)
<1>1. sequence \notin 1..BINARY /\ sequence \notin {scalar, series, opt_series, tuple}
  BY Tokens
<1> QED
  BY <1>1 DEF Derives

LEMMA OfTuple ==
  ASSUME NEW ls, NEW d, NEW a, NEW b
  PROVE  Derives(ls, tuple, d, a, b) <=> EnclosedOf(ls, 123, 125, d, a, b)
<1>1. tuple \notin 1..BINARY /\ tuple \notin {scalar, series, opt_series, sequence}
  BY Tokens
<1> QED
  BY <1>1 DEF Derives

LEMMA OfExpression ==
  ASSUME NEW ls, NEW d, NEW a, NEW b
  PROVE  Derives(ls, expression, d, a, b)
<1>1. expression \notin 1..BINARY /\ expression \notin {scalar, series, opt_series, sequence, tuple}
  BY Tokens
<1> QED
  BY <1>1 DEF Derives

\* A production of a series, and one of a sequence or a tuple.
LEMMA SeriesFrom ==
  ASSUME NEW ls, NEW d, NEW x, NEW y, NEW a \in Nat, NEW b \in Nat, NEW c, NEW f,
         Derives(ls, series, d, a, b), Derives(ls, Comma, x, b, c), Derives(ls, scalar, y, c, f)
  PROVE  Derives(ls, series, d \o y, a, f)
<1>1. SeriesOf(ls, d, a, b) /\ ScalarFrom(ls, y, c, f)
  BY OfSeries, OfScalar
<1>2. c = b + 1 /\ ls[c].token = Comma
  <2>1. Comma \in 1..BINARY
    BY Tokens
  <2> QED
    BY <2>1, OfTerminal
<1>3. f = c + 1
  BY <1>1 DEF ScalarFrom
<1>4. f = b + 2
  BY <1>2, <1>3
<1>5. ls[b + 1].token = Comma /\ ScalarFrom(ls, y, b + 1, b + 2)
  BY <1>1, <1>2, <1>4
<1>6. SeriesOf(ls, d \o y, a, b + 2)
  BY <1>1, <1>5, SeriesGrows
<1> QED
  BY <1>4, <1>6, OfSeries

LEMMA EnclosedFrom ==
  ASSUME NEW ls, NEW d, NEW x, NEW y, NEW open \in 1..BINARY, NEW close \in 1..BINARY,
         NEW a \in Nat, NEW b \in Nat, NEW c \in Nat, NEW f,
         Derives(ls, open, x, a, b), Derives(ls, opt_series, d, b, c), Derives(ls, close, y, c, f)
  PROVE  EnclosedOf(ls, open, close, d, a, f)
<1>1. b = a + 1 /\ ls[b].token = open /\ f = c + 1 /\ ls[f].token = close
  BY OfTerminal
<1>2. OptSeriesOf(ls, d, b, c)
  BY OfOptSeries
<1>3. b <= c
  <2>1. CASE b = c
    BY <2>1
  <2>2. CASE SeriesOf(ls, d, b, c)
    <3>1. PICK k \in Nat : k >= 1 /\ c = b + 2 * k - 1
      BY <2>2 DEF SeriesOf
    <3> QED
      BY <3>1
  <2> QED
    BY <1>2, <2>1, <2>2 DEF OptSeriesOf
<1>4. a + 2 <= f /\ a + 1 = b /\ f - 1 = c
  BY <1>1, <1>3
<1> QED
  BY <1>1, <1>2, <1>4 DEF EnclosedOf

\* The states on top of the stack when a production is reduced.
LEMMA OnTop ==
  ASSUME NEW s, IsPath(s), NEW n, n = Len(s)
  PROVE  /\ n \in Nat /\ n >= 1 /\ Last(s) = s[n]
         /\ s[n].state \in {2, 3, 4} => n = 2
         /\ s[n].state \in 5..9 \union {10, 11, 14} => n > 1
         /\ s[n].state = 13 => n > 2 /\ s[n - 1].state \in {10, 11}
         /\ s[n].state = 19 => n > 3 /\ s[n - 1].state = 17 /\ s[n - 2].state = 13
         /\ s[n].state = 16 => n > 3 /\ s[n - 1].state = 12 /\ s[n - 2].state = 10
         /\ s[n].state = 18 => n > 3 /\ s[n - 1].state = 15 /\ s[n - 2].state = 11
<1> DEFINE a == s[n].state
           b == s[n - 1].state
           c == s[n - 2].state
           d == s[n - 3].state
<1>1. /\ n \in Nat /\ n >= 1 /\ Last(s) = s[n]
      /\ a # 0 => n > 1 /\ b \in Predecessors(a)
      /\ n > 1 /\ b # 0 => n > 2 /\ c \in Predecessors(b)
      /\ n > 2 /\ c # 0 => n > 3 /\ d \in Predecessors(c)
  BY Below
<1>2. n > 1 /\ b = 0 => n = 2
  <2> SUFFICES ASSUME n > 1, b = 0 PROVE n = 2
    OBVIOUS
  <2>1. n - 1 \in 1..n /\ ~(n - 1 > 1)
    BY <1>1 DEF IsPath
  <2> QED
    BY <1>1, <2>1
<1> HIDE DEF a, b, c, d
<1>3. /\ \A x \in {2, 3, 4, 10, 11} : Predecessors(x) = {0}
      /\ \A x \in {13, 14} : Predecessors(x) = {10, 11}
      /\ Predecessors(12) = {10} /\ Predecessors(15) = {11} /\ Predecessors(16) = {12}
      /\ Predecessors(17) = {13} /\ Predecessors(18) = {15} /\ Predecessors(19) = {17}
  BY DEF Predecessors
<1>4. a \in {2, 3, 4} => n = 2
  BY <1>1, <1>2, <1>3
<1>5. a \in 5..9 \union {10, 11, 14} => n > 1
  BY <1>1
<1>6. a = 13 => n > 2 /\ b \in {10, 11}
  BY <1>1, <1>3
<1>7. a = 19 => n > 3 /\ b = 17 /\ c = 13
  BY <1>1, <1>3
<1>8. a = 16 => n > 3 /\ b = 12 /\ c = 10
  BY <1>1, <1>3
<1>9. a = 18 => n > 3 /\ b = 15 /\ c = 11
  BY <1>1, <1>3
<1> QED
  BY <1>1, <1>4, <1>5, <1>6, <1>7, <1>8, <1>9 DEF a, b, c

\* A reduction of p is due, with n elements on the stack.
Reducing(e, p, n) ==
  /\ IInv /\ outcome = "parsing" /\ ReadOK /\ Ends(e)
  /\ Handles(p, State) /\ token \notin Nonterminals /\ n = Len(stack)

LEMMA Elements ==
  ASSUME NEW e, NEW p, NEW n, Reducing(e, p, n)
  PROVE  /\ n \in Nat /\ n >= 1 /\ Handles(p, stack[n].state)
         /\ Vsp(0) = stack[n].value /\ Vsp(-1) = stack[n - 1].value /\ Vsp(-2) = stack[n - 2].value
         /\ e[n] = Shifted /\ e[n] \in Nat
         /\ n > 1 => /\ e[n - 1] \in Nat
                     /\ Derives(lexemes, Symbol(stack[n].state), stack[n].value.data, e[n - 1], e[n])
         /\ n > 2 => /\ e[n - 2] \in Nat
                     /\ Derives(lexemes, Symbol(stack[n - 1].state), stack[n - 1].value.data, e[n - 2], e[n - 1])
         /\ n > 3 => /\ e[n - 3] \in Nat
                     /\ Derives(lexemes, Symbol(stack[n - 2].state), stack[n - 2].value.data, e[n - 3], e[n - 2])
<1>1. IsPath(stack) /\ Ends(e) /\ n = Len(stack) /\ Handles(p, State) /\ token \notin Nonterminals
  BY DEF Reducing, IInv
<1>2. n \in Nat /\ n >= 1 /\ State = stack[n].state
  BY <1>1, OnTop DEF State
<1>3. Vsp(0) = stack[n].value /\ Vsp(-1) = stack[n - 1].value /\ Vsp(-2) = stack[n - 2].value
  <2>1. n + 0 = n /\ n + (-1) = n - 1 /\ n + (-2) = n - 2
    BY <1>2
  <2> QED
    BY <1>1, <2>1 DEF Vsp
<1>4. e \in [Nat -> Nat] /\ e[n] = Shifted
  BY <1>1 DEF Ends
<1>5. e[n] \in Nat /\ (n > 1 => e[n - 1] \in Nat) /\ (n > 2 => e[n - 2] \in Nat) /\ (n > 3 => e[n - 3] \in Nat)
  <2>1. (n > 1 => n - 1 \in Nat) /\ (n > 2 => n - 2 \in Nat) /\ (n > 3 => n - 3 \in Nat)
    BY <1>2
  <2> QED
    BY <1>2, <1>4, <2>1
<1>6. /\ n > 1 => Derives(lexemes, Symbol(stack[n].state), stack[n].value.data, e[n - 1], e[n])
      /\ n > 2 => Derives(lexemes, Symbol(stack[n - 1].state), stack[n - 1].value.data, e[n - 2], e[n - 1])
      /\ n > 3 => Derives(lexemes, Symbol(stack[n - 2].state), stack[n - 2].value.data, e[n - 3], e[n - 2])
  BY <1>1, TopDerives
<1>7. Handles(p, stack[n].state)
  BY <1>1, <1>2
<1> QED
  BY <1>2, <1>3, <1>4, <1>5, <1>6, <1>7

LEMMA DataOf ==
  \A v : Scl(v).data = <<v>> /\ Seq_(v).data = v
BY DEF Scl, Seq_, Semantic_

\* scalar: BOOLEAN, INTEGER, REAL, STRING or BINARY
LEMMA ScalarReduced ==
  ASSUME NEW e, NEW p \in 4..8, NEW n, Reducing(e, p, n)
  PROVE  Derives(lexemes, scalar, Semantic(p).data, e[n - 1], Shifted)
<1> DEFINE a == stack[n].state
           e0 == e[n]
           e1 == e[n - 1]
<1>1. n \in Nat /\ n > 1 /\ a \in 5..9
  <2>1. Handles(p, a) /\ n \in Nat
    BY Elements
  <2>2. a = p + 1
    BY <2>1 DEF Handles
  <2>3. a \in 5..9
    BY <2>2
  <2>4. IsPath(stack) /\ n = Len(stack)
    BY DEF Reducing, IInv
  <2> HIDE DEF a
  <2>5. a \in 5..9 \union {10, 11, 14}
    BY <2>3
  <2>6. n > 1
    BY <2>4, <2>5, OnTop DEF a
  <2> QED
    BY <2>1, <2>3, <2>6
<1>2. /\ e0 = Shifted /\ e0 \in Nat /\ e1 \in Nat
      /\ Derives(lexemes, Symbol(a), stack[n].value.data, e1, e0)
  BY <1>1, Elements
<1>3. ReadOK /\ next \in Nat /\ a = State
  <2>1. IsPath(stack) /\ n = Len(stack) /\ ReadOK /\ next \in Nat
    BY DEF Reducing, IInv, LexemesOK
  <2> QED
    BY <2>1, OnTop DEF State
<1> HIDE DEF a, e0, e1
<1>4. Symbol(a) \in ScalarTokens /\ Symbol(a) \in 1..BINARY
  BY <1>1, Symbols, Tokens
<1>5. e0 = e1 + 1 /\ lexemes[e0].token \in ScalarTokens
  BY <1>2, <1>4, OfTerminal
<1>6. token = Undetermined
  BY <1>1, <1>3 DEF ReadOK
<1>7. Ahead = Undetermined
  BY <1>6 DEF Ahead, Reducing
<1>8. e0 = next - 1
  BY <1>2, <1>7, Tokens DEF Shifted
<1>9. next > 1 /\ Ahead # Eof
  BY <1>2, <1>3, <1>5, <1>7, <1>8, Tokens
<1>10. matched = lexemes[e0].scalar
  BY <1>3, <1>8, <1>9 DEF ReadOK
<1>11. Semantic(p) = Scl(matched)
  BY DEF Semantic
<1>12. Semantic(p).data = <<lexemes[e0].scalar>>
  BY <1>10, <1>11, DataOf
<1>13. ScalarFrom(lexemes, Semantic(p).data, e1, e0)
  BY <1>5, <1>12 DEF ScalarFrom
<1>14. Derives(lexemes, scalar, Semantic(p).data, e1, e0)
  BY <1>13, OfScalar
<1> QED
  BY <1>2, <1>14 DEF e1

\* opt_series: // empty
LEMMA EmptyReduced ==
  ASSUME NEW e, NEW n, Reducing(e, 9, n)
  PROVE  Derives(lexemes, opt_series, Semantic(9).data, e[n], Shifted)
<1>1. ReadOK /\ token \in Terminals
  BY DEF Reducing, IInv, TokensOK
<1>2. val = Null
  BY <1>1 DEF ReadOK
<1>3. Semantic(9) = GetSeq(val)
  BY DEF Semantic
<1>4. Semantic(9) = Seq_(<<>>)
  BY <1>2, <1>3 DEF GetSeq, Null
<1>5. Semantic(9).data = <<>>
  BY <1>4, DataOf
<1>6. e[n] = Shifted
  BY Elements
<1>7. OptSeriesOf(lexemes, Semantic(9).data, e[n], Shifted)
  BY <1>5, <1>6 DEF OptSeriesOf
<1> QED
  BY <1>7, OfOptSeries

\* opt_series: series
LEMMA SeriesReduced ==
  ASSUME NEW e, NEW n, Reducing(e, 10, n)
  PROVE  Derives(lexemes, opt_series, Semantic(10).data, e[n - 1], Shifted)
<1>1. stack[n].state = 13 /\ n > 1
  <2>1. Handles(10, stack[n].state) /\ n \in Nat
    BY Elements
  <2>2. stack[n].state = 13
    BY <2>1 DEF Handles
  <2>3. IsPath(stack) /\ n = Len(stack)
    BY DEF Reducing, IInv
  <2>4. n > 2
    BY <2>2, <2>3, OnTop
  <2> QED
    BY <2>1, <2>2, <2>4
<1>2. e[n] = Shifted /\ Derives(lexemes, series, stack[n].value.data, e[n - 1], e[n])
  BY <1>1, Elements, Symbols
<1>3. OptSeriesOf(lexemes, stack[n].value.data, e[n - 1], Shifted)
  BY <1>2, OfSeries DEF OptSeriesOf
<1>4. Semantic(10) = stack[n].value
  <2>1. Semantic(10) = Vsp(0)
    BY DEF Semantic
  <2> QED
    BY <2>1, Elements
<1> QED
  BY <1>3, <1>4, OfOptSeries

\* series: scalar
LEMMA FirstReduced ==
  ASSUME NEW e, NEW n, Reducing(e, 11, n)
  PROVE  Derives(lexemes, series, Semantic(11).data, e[n - 1], Shifted)
<1>1. stack[n].state = 14 /\ n > 1
  <2>1. Handles(11, stack[n].state) /\ n \in Nat
    BY Elements
  <2>2. stack[n].state = 14
    BY <2>1 DEF Handles
  <2>3. IsPath(stack) /\ n = Len(stack) /\ stack[n].state \in 5..9 \union {10, 11, 14}
    BY <2>2 DEF Reducing, IInv
  <2>4. n > 1
    BY <2>3, OnTop
  <2> QED
    BY <2>2, <2>4
<1>2. e[n] = Shifted /\ e[n - 1] \in Nat /\ Derives(lexemes, scalar, stack[n].value.data, e[n - 1], e[n])
  BY <1>1, Elements, Symbols
<1>3. ScalarFrom(lexemes, stack[n].value.data, e[n - 1], Shifted)
  BY <1>2, OfScalar
<1>4. SeriesOf(lexemes, stack[n].value.data, e[n - 1], Shifted)
  BY <1>2, <1>3, SeriesStarts
<1>5. Semantic(11).data = stack[n].value.data
  <2>1. Semantic(11) = Seq_(Vsp(0).data)
    BY DEF Semantic
  <2> QED
    BY <2>1, Elements, DataOf
<1> QED
  BY <1>4, <1>5, OfSeries

\* series: series ',' scalar
LEMMA NextReduced ==
  ASSUME NEW e, NEW n, Reducing(e, 12, n)
  PROVE  Derives(lexemes, series, Semantic(12).data, e[n - 3], Shifted)
<1> DEFINE A == stack[n]
           B == stack[n - 1]
           C == stack[n - 2]
<1>1. A.state = 19 /\ B.state = 17 /\ C.state = 13 /\ n > 1 /\ n > 2 /\ n > 3
  <2>1. Handles(12, A.state) /\ n \in Nat
    BY Elements
  <2>2. A.state = 19
    BY <2>1 DEF Handles
  <2>3. IsPath(stack) /\ n = Len(stack)
    BY DEF Reducing, IInv
  <2>4. n > 3 /\ B.state = 17 /\ C.state = 13
    BY <2>2, <2>3, OnTop
  <2> HIDE DEF A, B, C
  <2> QED
    BY <2>1, <2>2, <2>4
<1>2. /\ e[n] = Shifted /\ e[n - 2] \in Nat /\ e[n - 3] \in Nat
      /\ Derives(lexemes, Symbol(A.state), A.value.data, e[n - 1], e[n])
      /\ Derives(lexemes, Symbol(B.state), B.value.data, e[n - 2], e[n - 1])
      /\ Derives(lexemes, Symbol(C.state), C.value.data, e[n - 3], e[n - 2])
  BY <1>1, Elements
<1>3. Semantic(12).data = C.value.data \o A.value.data
  <2>1. Semantic(12) = Seq_(Vsp(-2).data \o Vsp(0).data)
    BY DEF Semantic
  <2>2. Vsp(-2) = C.value /\ Vsp(0) = A.value
    BY Elements
  <2> QED
    BY <2>1, <2>2, DataOf
<1> HIDE DEF A, B, C
<1>4. /\ Derives(lexemes, scalar, A.value.data, e[n - 1], Shifted)
      /\ Derives(lexemes, Comma, B.value.data, e[n - 2], e[n - 1])
      /\ Derives(lexemes, series, C.value.data, e[n - 3], e[n - 2])
  BY <1>1, <1>2, Symbols
<1>5. Derives(lexemes, series, C.value.data \o A.value.data, e[n - 3], Shifted)
  BY <1>2, <1>4, SeriesFrom
<1> QED
  BY <1>3, <1>5

\* sequence: '[' opt_series ']', and tuple: '{' opt_series '}'
LEMMA EnclosedReduced ==
  ASSUME NEW e, NEW n, NEW p \in {13, 14}, Reducing(e, p, n)
  PROVE  Derives(lexemes, Productions[p].lhs, Semantic(p).data, e[n - 3], Shifted)
<1> DEFINE A == stack[n]
           B == stack[n - 1]
           C == stack[n - 2]
           open == IF p = 13 THEN 91 ELSE 123
           close == IF p = 13 THEN 93 ELSE 125
<1>1. /\ Symbol(A.state) = close /\ Symbol(B.state) = opt_series /\ Symbol(C.state) = open
      /\ n > 1 /\ n > 2 /\ n > 3
  <2>1. Handles(p, A.state) /\ n \in Nat
    BY Elements
  <2>2. IsPath(stack) /\ n = Len(stack)
    BY DEF Reducing, IInv
  <2>3. CASE p = 13
    <3>1. A.state = 16
      BY <2>1, <2>3 DEF Handles
    <3>2. n > 3 /\ B.state = 12 /\ C.state = 10
      BY <2>2, <3>1, OnTop
    <3> HIDE DEF A, B, C
    <3> QED
      BY <2>1, <2>3, <3>1, <3>2, Symbols
  <2>4. CASE p = 14
    <3>1. A.state = 18
      BY <2>1, <2>4 DEF Handles
    <3>2. n > 3 /\ B.state = 15 /\ C.state = 11
      BY <2>2, <3>1, OnTop
    <3> HIDE DEF A, B, C
    <3> QED
      BY <2>1, <2>4, <3>1, <3>2, Symbols
  <2> QED
    BY <2>3, <2>4
<1>2. /\ e[n] = Shifted /\ e[n - 1] \in Nat /\ e[n - 2] \in Nat /\ e[n - 3] \in Nat
      /\ Derives(lexemes, Symbol(A.state), A.value.data, e[n - 1], e[n])
      /\ Derives(lexemes, Symbol(B.state), B.value.data, e[n - 2], e[n - 1])
      /\ Derives(lexemes, Symbol(C.state), C.value.data, e[n - 3], e[n - 2])
  <2> HIDE DEF open, close
  <2> QED
    BY <1>1, Elements
<1>3. Semantic(p).data = B.value.data
  <2>1. Semantic(p) = Seq_(Vsp(-1).data)
    BY DEF Semantic
  <2>2. Vsp(-1) = B.value
    BY Elements
  <2> QED
    BY <2>1, <2>2, DataOf
<1>4. open \in 1..BINARY /\ close \in 1..BINARY
  BY Tokens
<1> HIDE DEF A, B, C, open, close
<1>5. /\ Derives(lexemes, close, A.value.data, e[n - 1], Shifted)
      /\ Derives(lexemes, opt_series, B.value.data, e[n - 2], e[n - 1])
      /\ Derives(lexemes, open, C.value.data, e[n - 3], e[n - 2])
  BY <1>1, <1>2
<1>6. EnclosedOf(lexemes, open, close, Semantic(p).data, e[n - 3], Shifted)
  BY <1>2, <1>3, <1>4, <1>5, EnclosedFrom
<1>7. CASE p = 13
  <2>1. Productions[p].lhs = sequence
    BY <1>7, Parts
  <2>2. open = 91 /\ close = 93
    BY <1>7 DEF open, close
  <2> QED
    BY <1>6, <2>1, <2>2, OfSequence
<1>8. CASE p = 14
  <2>1. Productions[p].lhs = tuple
    BY <1>8, Parts
  <2>2. open = 123 /\ close = 125
    BY <1>8 DEF open, close
  <2> QED
    BY <1>6, <2>1, <2>2, OfTuple
<1> QED
  BY <1>7, <1>8

\* A reduction makes a symbol that derives what the elements of its production
\* did, with the value that executeAction() gives it.
LEMMA Reduced ==
  ASSUME NEW e, NEW p, NEW n, Reducing(e, p, n)
  PROVE  Derives(lexemes, Productions[p].lhs, Semantic(p).data, e[n - Productions[p].size], Shifted)
<1>1. Handles(p, State) /\ n \in Nat
  BY Elements DEF Reducing
<1>2. p \in 1..14
  BY <1>1 DEF Handles
<1>3. n - 0 = n
  BY <1>1
<1>4. CASE p \in 1..3
  <2>1. Productions[p].lhs = expression
    BY <1>4, Parts
  <2> QED
    BY <2>1, OfExpression
<1>5. CASE p \in 4..8
  <2>1. Productions[p].lhs = scalar /\ Productions[p].size = 1
    BY <1>5, Parts
  <2> QED
    BY <1>5, <2>1, ScalarReduced
<1>6. CASE p = 9
  BY <1>3, <1>6, Parts, EmptyReduced
<1>7. CASE p = 10
  BY <1>7, Parts, SeriesReduced
<1>8. CASE p = 11
  BY <1>8, Parts, FirstReduced
<1>9. CASE p = 12
  BY <1>9, Parts, NextReduced
<1>10. CASE p \in {13, 14}
  <2>1. Productions[p].size = 3
    BY <1>10, Parts
  <2> QED
    BY <1>10, <2>1, EnclosedReduced
<1> QED
  <2>1. p \in 1..3 \/ p \in 4..8 \/ p \in {9, 10, 11, 12, 13, 14}
    BY <1>2
  <2> QED
    BY <2>1, <1>4, <1>5, <1>6, <1>7, <1>8, <1>9, <1>10

-----------------------------------------------------------------------------
(* What the steps of the parser build *)

LEMMA ShiftedInRange ==
  ASSUME LexemesOK, ReadOK
  PROVE  Shifted \in Nat /\ Shifted <= Len(lexemes)
<1>1. next \in Nat /\ next >= 1 /\ Len(lexemes) \in Nat /\ next <= Len(lexemes) + 1
      /\ (Ahead > 0 => next > 1)
  BY DEF LexemesOK, ReadOK
<1> QED
  BY <1>1 DEF Shifted

LEMMA GrammarInit == Init => GrammarInv
<1> SUFFICES ASSUME Init PROVE GrammarInv
  OBVIOUS
<1>1. IInv
  BY InitOK
<1>2. Undetermined \in Terminals /\ Undetermined \notin Nonterminals
  BY TerminalsApart DEF Terminals
<1>3. /\ token = Undetermined /\ nextToken = Undetermined /\ val = Null /\ nextVal = Null
      /\ next = 1 /\ outcome = "parsing" /\ matched = Invalid
  BY DEF Init
<1>4. Ahead = Undetermined /\ Shifted = 0
  <2>1. Ahead = Undetermined
    BY <1>2, <1>3 DEF Ahead
  <2> QED
    BY <1>3, <2>1, Tokens DEF Shifted
<1>5. IsList(lexemes) /\ Len(lexemes) \in Nat
  <2>1. lexemes \in Seq(Range(lexemes))
    BY TextsAssumption DEF Init
  <2> QED
    BY <2>1, SequenceFacts, LenProperties
<1>6. Len(stack) = 1 /\ State = 0
  <2> DEFINE x == [state |-> 0, value |-> Null]
  <2>1. Len(<<x>>) = 1 /\ <<x>>[1] = x /\ x.state = 0
    BY OneReply
  <2>2. stack = <<x>>
    BY DEF Init
  <2> HIDE DEF x
  <2> QED
    BY <2>1, <2>2 DEF State, Last
<1>7. ReadOK
  BY <1>3, <1>4, <1>5, <1>6, Tokens DEF ReadOK
<1>8. StackDerives
  <2> DEFINE e == [i \in Nat |-> 0]
  <2>1. e \in [Nat -> Nat] /\ e[1] = 0
    OBVIOUS
  <2>2. \A i \in 1..Len(stack) : ~(i > 1)
    BY <1>6
  <2> HIDE DEF e
  <2>3. Ends(e)
    BY <1>2, <1>3, <1>4, <1>6, <2>1, <2>2 DEF Ends
  <2> QED
    BY <2>3 DEF StackDerives
<1>9. ResultOK /\ ClosesOK
  BY <1>3, <1>6, Tokens DEF ResultOK, ClosesOK
<1>10. ExpressionsAreAccepted
  BY <1>3 DEF ExpressionsAreAccepted
<1> QED
  BY <1>1, <1>7, <1>8, <1>9, <1>10 DEF GrammarInv

LEMMA GrammarNextToken == GrammarInv /\ NextToken => GrammarInv'
<1> SUFFICES ASSUME GrammarInv, NextToken PROVE GrammarInv'
  OBVIOUS
<1>1. /\ outcome = "parsing" /\ outcome' = outcome /\ stack' = stack /\ lexemes' = lexemes /\ result' = result
      /\ IInv /\ ReadOK /\ StackDerives /\ ResultOK /\ ClosesOK
  BY DEF NextToken, GrammarInv
<1>2. /\ ReadOK' /\ Shifted' = Shifted
      /\ token = Undetermined /\ token \notin Nonterminals /\ token' \notin Nonterminals
  BY <1>1, ReadNext
<1>3. IInv' /\ ExpressionsAreAccepted'
  BY <1>1, NextTokenStep DEF ExpressionsAreAccepted
<1>4. State' = State
  BY <1>1 DEF State
<1>5. StackDerives'
  <2>1. PICK e : Ends(e)
    BY <1>1 DEF StackDerives
  <2>2. Ends(e)'
    BY <1>1, <1>2, <2>1 DEF Ends
  <2> QED
    BY <2>2 DEF StackDerives
<1>6. token' # expression /\ token' # opt_series
  BY <1>2 DEF Nonterminals, SequenceTokens
<1>7. ResultOK'
  BY <1>1, <1>2, <1>4, <1>6 DEF ResultOK
<1>8. State \notin {12, 15}
  <2>1. Ahead = Undetermined
    BY <1>2 DEF Ahead
  <2> QED
    BY <1>1, <2>1 DEF ClosesOK
<1>9. ClosesOK'
  BY <1>4, <1>6, <1>8 DEF ClosesOK
<1> QED
  BY <1>1, <1>2, <1>3, <1>5, <1>7, <1>9 DEF GrammarInv

LEMMA GrammarShift == GrammarInv /\ Shift => GrammarInv'
<1> SUFFICES ASSUME GrammarInv, Shift PROVE GrammarInv'
  OBVIOUS
<1> DEFINE n == Len(stack)
           x == [state |-> Action, value |-> val]
<1>1. /\ outcome = "parsing" /\ outcome' = outcome /\ lexemes' = lexemes /\ result' = result
      /\ stack' = Append(stack, x)
      /\ IInv /\ ReadOK /\ StackDerives /\ ResultOK /\ ClosesOK
  BY DEF Shift, Ready, GrammarInv
<1>2. /\ ReadOK' /\ token' \notin Nonterminals
      /\ token \in Nonterminals => Shifted' = Shifted /\ Ahead' = Ahead
      /\ token \notin Nonterminals =>
           /\ token \in 1..BINARY /\ Shifted' = Shifted + 1
           /\ lexemes[Shifted'].token = token
  BY <1>1, ReadShift
<1>3. IInv' /\ ExpressionsAreAccepted'
  BY <1>1, ShiftStep DEF ExpressionsAreAccepted
<1>4. token = Symbol(Action) /\ Action \in 1..19 /\ IsPath(stack) /\ LexemesOK /\ IsPath(stack')
  BY <1>1, <1>3, Actions, ActionsFor DEF Shift, IInv
<1>5. /\ n \in Nat /\ n >= 1 /\ Len(stack') = n + 1 /\ stack'[n + 1] = x
      /\ \A i \in 1..n : stack'[i] = stack[i]
  <2>1. stack \in Seq(Members(stack)) /\ n \in Nat /\ n >= 1
    BY <1>4 DEF IsPath, IsList
  <2> HIDE DEF x
  <2>2. stack \in Seq(Members(stack) \union {x})
    BY <2>1, SeqMonotonic
  <2> QED
    BY <1>1, <2>1, <2>2, AppendProperties
<1>6. State' = Action
  <2>1. Last(stack') = stack'[n + 1]
    BY <1>5 DEF Last
  <2>2. x.state = Action
    OBVIOUS
  <2> HIDE DEF x
  <2> QED
    BY <1>5, <2>1, <2>2 DEF State
<1>7. Shifted' \in Nat
  <2>1. Shifted \in Nat
    BY <1>4, <1>1, ShiftedInRange
  <2> QED
    BY <1>2, <2>1
<1>8. StackDerives'
  <2>1. PICK e : Ends(e)
    BY <1>1 DEF StackDerives
  <2>0. PICK s \in Nat : s = Shifted'
    BY <1>7
  <2>2. e \in [Nat -> Nat] /\ e[1] = 0
    BY <2>1 DEF Ends
  <2>3. PICK f : f \in [Nat -> Nat] /\ f[n + 1] = s /\ \A i \in 1..n : f[i] = e[i]
    <3> DEFINE g == [e EXCEPT ![n + 1] = s]
    <3>1. g \in [Nat -> Nat] /\ g[n + 1] = s /\ \A i \in 1..n : g[i] = e[i]
      BY <1>5, <2>2, SMTT(60)
    <3> HIDE DEF g
    <3> QED
      BY <3>1
  <2>4. Derives(lexemes, token, val.data, e[n], s)
    <3>1. CASE token \in Nonterminals
      BY <1>2, <2>0, <2>1, <3>1 DEF Ends
    <3>2. CASE token \notin Nonterminals
      <4>1. e[n] = Shifted
        BY <2>1, <3>2 DEF Ends
      <4>2. s = e[n] + 1 /\ lexemes[s].token = token /\ token \in 1..BINARY
        BY <1>2, <2>0, <3>2, <4>1
      <4> QED
        BY <4>2, OfTerminal
    <3> QED
      BY <3>1, <3>2
  <2>5. x.state = Action /\ x.value = val
    OBVIOUS
  <2>6. ASSUME NEW i \in 1..(n + 1), i > 1
        PROVE  Derives(lexemes, Symbol(stack'[i].state), stack'[i].value.data, f[i - 1], f[i])
    <3> HIDE DEF x, n
    <3>1. CASE i \in 1..n
      <4>1. i - 1 \in 1..n /\ stack'[i] = stack[i] /\ f[i] = e[i] /\ f[i - 1] = e[i - 1]
        <5>1. i - 1 \in 1..n
          BY <1>5, <2>6, <3>1
        <5> QED
          BY <1>5, <2>3, <3>1, <5>1
      <4>2. Derives(lexemes, Symbol(stack[i].state), stack[i].value.data, e[i - 1], e[i])
        BY <2>1, <2>6, <3>1 DEF Ends, n
      <4> QED
        BY <4>1, <4>2
    <3>2. CASE i = n + 1
      <4>1. i - 1 = n /\ n \in 1..n
        BY <1>5, <3>2
      <4>2. f[i - 1] = e[n] /\ f[i] = s /\ stack'[i] = x
        BY <1>5, <2>3, <3>2, <4>1
      <4> QED
        BY <1>4, <2>4, <2>5, <4>2
    <3> QED
      BY <1>5, <3>1, <3>2
  <2>7. f[1] = 0
    BY <1>5, <2>2, <2>3
  <2>8. Ends(f)'
    BY <1>1, <1>2, <1>5, <2>0, <2>3, <2>6, <2>7 DEF Ends
  <2> QED
    BY <2>8 DEF StackDerives
<1>9. token' # expression /\ token' # opt_series
  BY <1>2 DEF Nonterminals, SequenceTokens
<1>10. ResultOK'
  <2>1. SUFFICES ASSUME State' = 1 PROVE ExpressionOf(lexemes, result, Shifted')
    BY <1>1, <1>9 DEF ResultOK
  <2>2. token = expression /\ token \in Nonterminals
    BY <1>4, <1>6, <2>1, Symbols DEF Nonterminals
  <2> QED
    BY <1>1, <1>2, <2>2 DEF ResultOK
<1>11. ClosesOK'
  <2>1. CASE State' \in {12, 15}
    <3>1. token = opt_series /\ token \in Nonterminals
      <4>1. Symbol(12) = opt_series /\ Symbol(15) = opt_series
        BY Symbols
      <4> QED
        BY <1>4, <1>6, <2>1, <4>1 DEF Nonterminals, SequenceTokens
    <3> QED
      BY <1>1, <1>2, <3>1 DEF ClosesOK
  <2>2. CASE State' \notin {12, 15}
    BY <1>9, <2>2 DEF ClosesOK
  <2> QED
    BY <2>1, <2>2
<1> QED
  BY <1>1, <1>2, <1>3, <1>8, <1>10, <1>11 DEF GrammarInv

-----------------------------------------------------------------------------
(* A reduction *)

\* A conversion throws for the lexeme that was shifted last.
LEMMA NoValue ==
  ASSUME NEW e, NEW p \in 4..8, NEW n, Reducing(e, p, n), matched = Invalid
  PROVE  \E i \in DOMAIN lexemes : lexemes[i].token \in ScalarTokens /\ lexemes[i].scalar = Invalid
<1>1. ScalarFrom(lexemes, Semantic(p).data, e[n - 1], Shifted)
  BY ScalarReduced, OfScalar
<1>2. Semantic(p).data = <<matched>>
  <2>1. Semantic(p) = Scl(matched)
    BY DEF Semantic
  <2> QED
    BY <2>1, DataOf
<1>3. Shifted = e[n - 1] + 1 /\ lexemes[Shifted].token \in ScalarTokens /\ lexemes[Shifted].scalar = Invalid
  BY <1>1, <1>2 DEF ScalarFrom
<1>4. e[n - 1] \in Nat
  <2>1. n - 1 \in Nat
    BY Elements
  <2> QED
    BY <2>1 DEF Reducing, Ends
<1>5. LexemesOK /\ ReadOK
  BY DEF Reducing, IInv
<1>6. DOMAIN lexemes = 1..Len(lexemes)
  BY <1>5, LenProperties DEF ReadOK, IsList
<1>7. Shifted \in DOMAIN lexemes
  <2>1. Shifted \in Nat /\ Shifted <= Len(lexemes) /\ Len(lexemes) \in Nat
    BY <1>5, ShiftedInRange DEF LexemesOK
  <2> QED
    BY <1>3, <1>4, <1>6, <2>1
<1> QED
  BY <1>3, <1>7

\* expression: scalar, sequence or tuple
LEMMA ExpressionReduced ==
  ASSUME NEW e, NEW p \in 1..3, NEW n, Reducing(e, p, n),
         NEW r, r = Value(CASE p = 1 -> "scalar" [] p = 2 -> "sequence" [] p = 3 -> "tuple", Vsp(0).data)
  PROVE  ExpressionOf(lexemes, r, Shifted)
<1> DEFINE A == stack[n]
<1>1. /\ n = 2 /\ A.state = p + 1 /\ IsPath(stack) /\ Ends(e) /\ n = Len(stack)
  <2>1. Handles(p, A.state)
    BY Elements
  <2>2. A.state = p + 1 /\ A.state \in {2, 3, 4}
    BY <2>1 DEF Handles
  <2>3. IsPath(stack) /\ n = Len(stack) /\ Ends(e)
    BY DEF Reducing, IInv
  <2> HIDE DEF A
  <2>4. n = 2
    BY <2>2, <2>3, OnTop DEF A
  <2> QED
    BY <2>2, <2>3, <2>4
<1>2. Derives(lexemes, Symbol(A.state), A.value.data, 0, Shifted)
  <2>1. n > 1 /\ n - 1 = 1 /\ e[1] = 0
    BY <1>1 DEF Ends
  <2>2. Derives(lexemes, Symbol(A.state), A.value.data, e[n - 1], e[n]) /\ e[n] = Shifted
    BY <2>1, Elements
  <2> HIDE DEF A
  <2> QED
    BY <2>1, <2>2
<1>3. Vsp(0).data = A.value.data
  BY Elements
<1> DEFINE d == A.value.data
<1> HIDE DEF d
<1>4. CASE p = 1
  <2>1. r = Value("scalar", d) /\ Symbol(A.state) = scalar
    BY <1>1, <1>3, <1>4, Symbols DEF d
  <2>2. ScalarFrom(lexemes, d, 0, Shifted)
    BY <1>2, <2>1, OfScalar DEF d
  <2>3. r.items = d
    BY <2>1 DEF Value
  <2> QED
    BY <2>1, <2>2, <2>3 DEF ExpressionOf
<1>5. CASE p = 2
  <2>1. r = Value("sequence", d) /\ Symbol(A.state) = sequence
    BY <1>1, <1>3, <1>5, Symbols DEF d
  <2>2. EnclosedOf(lexemes, 91, 93, d, 0, Shifted)
    BY <1>2, <2>1, OfSequence DEF d
  <2>3. r.items = d
    BY <2>1 DEF Value
  <2> QED
    BY <2>1, <2>2, <2>3 DEF ExpressionOf
<1>6. CASE p = 3
  <2>1. r = Value("tuple", d) /\ Symbol(A.state) = tuple
    BY <1>1, <1>3, <1>6, Symbols DEF d
  <2>2. EnclosedOf(lexemes, 123, 125, d, 0, Shifted)
    BY <1>2, <2>1, OfTuple DEF d
  <2>3. r.items = d
    BY <2>1 DEF Value
  <2> QED
    BY <2>1, <2>2, <2>3 DEF ExpressionOf
<1> QED
  BY <1>4, <1>5, <1>6

\* A series ends where the next token does not go on with it: a scalar behind
\* the bracket, or else a comma.
LEMMA SeriesEnds ==
  ASSUME NEW e, NEW p \in {9, 10}, NEW n, Reducing(e, p, n), ~Leads(State, token)
  PROVE  token \notin IF Shifted = 1 THEN ScalarTokens ELSE {Comma}
<1>1. IsPath(stack) /\ Ends(e) /\ n = Len(stack) /\ Handles(p, State) /\ State = stack[n].state /\ n \in Nat
  <2>1. IsPath(stack) /\ Ends(e) /\ n = Len(stack) /\ Handles(p, State)
    BY DEF Reducing, IInv
  <2> QED
    BY <2>1, OnTop DEF State
<1>2. CASE p = 9
  <2>1. State \in {10, 11}
    BY <1>1, <1>2 DEF Handles
  <2>2. token \notin ScalarTokens
    BY <2>1, InRow
  <2>3. n \in 1..Len(stack)
    BY <1>1 DEF IsPath
  <2>4. n = 2 /\ e[2] = 1
    BY <1>1, <2>1, <2>3, Bracket
  <2>5. Shifted = 1
    BY <2>4, Elements
  <2> QED
    BY <2>2, <2>5
<1>3. CASE p = 10
  <2>1. State = 13
    BY <1>1, <1>3 DEF Handles
  <2>2. token # Comma
    BY <2>1, InRow
  <2>3. n > 2 /\ stack[n - 1].state \in {10, 11}
    <3>1. stack[n].state = 13 /\ IsPath(stack) /\ n = Len(stack)
      BY <1>1, <2>1
    <3> QED
      BY <3>1, OnTop
  <2>4. n - 1 \in 1..Len(stack) /\ n > 1
    BY <1>1, <2>3
  <2>5. n - 1 = 2 /\ e[2] = 1
    BY <1>1, <2>3, <2>4, Bracket
  <2>6. Derives(lexemes, series, stack[n].value.data, 1, Shifted)
    <3>1. /\ Derives(lexemes, Symbol(stack[n].state), stack[n].value.data, e[n - 1], e[n])
          /\ e[n] = Shifted
      BY <2>4, Elements
    <3>2. Symbol(stack[n].state) = series /\ e[n - 1] = 1
      BY <1>1, <2>1, <2>5, Symbols
    <3> QED
      BY <3>1, <3>2
  <2>7. PICK k \in Nat : k >= 1 /\ Shifted = 1 + 2 * k - 1
    BY <2>6, OfSeries DEF SeriesOf
  <2>8. Shifted # 1
    BY <2>7
  <2> QED
    BY <2>2, <2>8
<1> QED
  BY <1>2, <1>3

LEMMA Kept ==
  ASSUME NEW s, IsPath(s), NEW m \in 1..Len(s)
  PROVE  Len(SubSeq(s, 1, m)) = m /\ \A i \in 1..m : SubSeq(s, 1, m)[i] = s[i]
<1>1. s \in Seq(Members(s)) /\ Len(s) \in Nat
  BY DEF IsPath, IsList
<1>2. \A i \in 1..m : 1 + i - 1 = i
  BY <1>1
<1>3. 1 \in 1..(Len(s) + 1) /\ m \in 0..Len(s) /\ m - 1 + 1 = m /\ ~(m < 1)
  BY <1>1
<1> QED
  BY <1>1, <1>2, <1>3, SubSeqProperties

LEMMA LeftHandSides ==
  ASSUME NEW p \in 1..14
  PROVE  /\ Productions[p].lhs = expression => p \in 1..3
         /\ Productions[p].lhs = opt_series => p \in {9, 10}
<1>1. expression = 268 /\ scalar = 269 /\ opt_series = 270 /\ series = 271 /\ sequence = 272 /\ tuple = 273
  BY Tokens
<1>2. CASE p \in 1..3
  BY <1>1, <1>2, Parts
<1>3. CASE p \in 4..8
  BY <1>1, <1>3, Parts
<1>4. CASE p \in {9, 10, 11, 12, 13, 14}
  BY <1>1, <1>4, Parts
<1> QED
  BY <1>2, <1>3, <1>4

LEMMA GrammarReduce == GrammarInv /\ Reduce => GrammarInv'
<1> SUFFICES ASSUME GrammarInv, Reduce PROVE GrammarInv'
  OBVIOUS
<1> DEFINE n == Len(stack)
<1>1. /\ outcome = "parsing" /\ lexemes' = lexemes /\ Ready /\ Action < 0
      /\ IInv /\ ReadOK /\ StackDerives /\ ResultOK /\ ClosesOK
      /\ IsPath(stack) /\ TokensOK
  BY DEF Reduce, Ready, GrammarInv, IInv
<1>2. IInv'
  BY <1>1, ReduceStep
<1>3. PICK p \in 1..14 : Action = -p /\ Handles(p, State) /\ token \notin Nonterminals
  BY <1>1, Actions
<1>4. -Action = p /\ ~Leads(State, token)
  BY <1>1, <1>3, ActionsFor
<1>5. PICK e : Ends(e)
  BY <1>1 DEF StackDerives
<1>6. Reducing(e, p, n)
  BY <1>1, <1>3, <1>5 DEF Reducing
<1> HIDE DEF n
<1>7. CASE Throws(p)
  <2>1. outcome' = "threw"
    BY <1>4, <1>7 DEF Reduce
  <2>2. \E i \in DOMAIN lexemes : lexemes[i].token \in ScalarTokens /\ lexemes[i].scalar = Invalid
    BY <1>6, <1>7, NoValue DEF Throws
  <2>3. ExpressionsAreAccepted'
    BY <1>1, <2>1, <2>2 DEF ExpressionsAreAccepted
  <2> QED
    BY <1>2, <2>1, <2>3 DEF GrammarInv
<1>8. CASE ~Throws(p)
  <2> DEFINE m == n - Productions[p].size
  <2>1. /\ val' = Semantic(p) /\ token' = Productions[p].lhs
        /\ stack' = SubSeq(stack, 1, m) /\ outcome' = outcome
        /\ p \in 1..3 => result' = Value(CASE p = 1 -> "scalar" [] p = 2 -> "sequence" [] p = 3 -> "tuple", Vsp(0).data)
        /\ p \notin 1..3 => result' = result
    BY <1>4, <1>8 DEF Reduce, n
  <2>2. ReadOK' /\ Shifted' = Shifted /\ Ahead' = Ahead
    BY <1>1, <2>1, ReadReduce
  <2>3. m \in 1..Len(stack) /\ n \in Nat
    <3>1. Productions[p].size \in 0..3 /\ n > Productions[p].size
      BY <1>1, <1>3, Uncovered DEF State, n
    <3>2. n \in Nat /\ n = Len(stack)
      BY <1>1 DEF IsPath, n
    <3> QED
      BY <3>1, <3>2
  <2> HIDE DEF m
  <2>4. Len(stack') = m /\ (\A i \in 1..m : stack'[i] = stack[i]) /\ \A i \in 1..m : i \in 1..Len(stack)
    <3>1. Len(stack) \in Nat
      BY <1>1 DEF IsPath
    <3> QED
      BY <1>1, <2>1, <2>3, <3>1, Kept
  <2>5. token' \in Nonterminals /\ Leads(State', token') /\ State' \in 0..19
    <3>1. token' \in Nonterminals
      BY <1>1, <1>3, <2>1, Made
    <3>2. IsPath(stack') /\ TokensOK'
      BY <1>1, <1>2, <2>1 DEF IInv
    <3> QED
      BY <3>1, <3>2, PathTop DEF TokensOK, Leads, State
  <2>6. Derives(lexemes, token', val'.data, e[m], Shifted)
    BY <1>6, <2>1, Reduced DEF m
  <2>7. StackDerives'
    <3>1. e \in [Nat -> Nat] /\ e[1] = 0
      BY <1>5 DEF Ends
    <3>2. \A i \in 1..m : i > 1 =>
            Derives(lexemes, Symbol(stack[i].state), stack[i].value.data, e[i - 1], e[i])
      BY <1>5, <2>4 DEF Ends
    <3>3. Ends(e)'
      BY <1>1, <2>2, <2>4, <2>5, <2>6, <3>1, <3>2 DEF Ends
    <3> QED
      BY <3>3 DEF StackDerives
  <2>8. State' \notin {1, 12, 15}
    <3>1. \A x \in Nonterminals : ~Leads(1, x) /\ ~Leads(12, x) /\ ~Leads(15, x)
      BY Rows, Tokens DEF Leads, Nonterminals, SequenceTokens
    <3> QED
      BY <2>5, <3>1
  <2>9. ResultOK'
    <3> SUFFICES ASSUME token' = expression PROVE ExpressionOf(lexemes, result', Shifted)
      BY <1>1, <2>2, <2>8 DEF ResultOK
    <3>1. p \in 1..3
      BY <2>1, LeftHandSides
    <3> QED
      BY <1>6, <2>1, <3>1, ExpressionReduced
  <2>10. ClosesOK'
    <3> SUFFICES ASSUME token' = opt_series
                 PROVE  Ahead # Undetermined /\ Ahead \notin IF Shifted = 1 THEN ScalarTokens ELSE {Comma}
      BY <2>2, <2>8 DEF ClosesOK
    <3>1. p \in {9, 10}
      BY <2>1, LeftHandSides
    <3>2. Ahead = token
      BY <1>3 DEF Ahead
    <3>3. State \in RequiringToken
      BY <1>3, <3>1 DEF Handles, RequiringToken
    <3>4. token # Undetermined
      BY <1>1, <3>3 DEF Ready
    <3>5. token \notin IF Shifted = 1 THEN ScalarTokens ELSE {Comma}
      BY <1>4, <1>6, <3>1, SeriesEnds
    <3> QED
      BY <3>2, <3>4, <3>5
  <2>11. ExpressionsAreAccepted'
    BY <1>1, <2>1 DEF ExpressionsAreAccepted
  <2> QED
    BY <1>2, <2>2, <2>7, <2>9, <2>10, <2>11 DEF GrammarInv
<1> QED
  BY <1>7, <1>8

-----------------------------------------------------------------------------
(* Expressions *)

\* The lexemes between two brackets are scalars and commas in turn.
Bracketed(ls, open, close, m) ==
  /\ m >= 2 /\ ls[1].token = open /\ ls[m].token = close
  /\ m = 2 \/ m % 2 = 1
  /\ \A i \in 2..(m - 1) : IF i % 2 = 0 THEN ls[i].token \in ScalarTokens ELSE ls[i].token = Comma

LEMMA Parity ==
  /\ \A i \in Nat : i % 2 = 0 \/ i % 2 = 1
  /\ \A i \in Nat : i % 2 = 0 => (i + 1) % 2 = 1 /\ (i + 2) % 2 = 0
  /\ \A i \in Nat : i % 2 = 1 => (i + 1) % 2 = 0 /\ (i + 2) % 2 = 1
  /\ \A k \in Nat : (2 * k) % 2 = 0 /\ (2 * k + 1) % 2 = 1 /\ (2 * k) \div 2 = k
  /\ \A i \in Nat : i % 2 = 0 => \E k \in Nat : i = 2 * k
  /\ \A i \in Nat : i % 2 = 1 => \E k \in Nat : i = 2 * k + 1
<1>1. \A i \in Nat : i % 2 = 0 \/ i % 2 = 1
  OBVIOUS
<1>2. \A i \in Nat : i % 2 = 0 => (i + 1) % 2 = 1 /\ (i + 2) % 2 = 0
  OBVIOUS
<1>3. \A i \in Nat : i % 2 = 1 => (i + 1) % 2 = 0 /\ (i + 2) % 2 = 1
  OBVIOUS
<1>4. \A k \in Nat : (2 * k) % 2 = 0 /\ (2 * k + 1) % 2 = 1 /\ (2 * k) \div 2 = k
  OBVIOUS
<1>5. \A i \in Nat : i % 2 = 0 => i = 2 * (i \div 2) /\ i \div 2 \in Nat
  OBVIOUS
<1>6. \A i \in Nat : i % 2 = 1 => i = 2 * (i \div 2) + 1 /\ i \div 2 \in Nat
  OBVIOUS
<1>7. \A i \in Nat : i % 2 = 0 => \E k \in Nat : i = 2 * k
  BY <1>5
<1>8. \A i \in Nat : i % 2 = 1 => \E k \in Nat : i = 2 * k + 1
  BY <1>6
<1> QED
  BY <1>1, <1>2, <1>3, <1>4, <1>7, <1>8

\* What is between the first element of a sequence and the last.
LEMMA Inner ==
  ASSUME NEW ls, IsList(ls), NEW m, m = Len(ls), m >= 2
  PROVE  /\ m \in Nat /\ Last(ls) = ls[m]
         /\ Len(Tail(Front(ls))) = m - 2
         /\ \A i \in 1..(m - 2) : Tail(Front(ls))[i] = ls[i + 1]
         /\ DOMAIN Tail(Front(ls)) = 1..(m - 2)
<1> DEFINE S == Members(ls)
           f == SubSeq(ls, 1, m - 1)
<1>1. ls \in Seq(S) /\ m \in Nat
  BY DEF IsList
<1>2. Front(ls) = f /\ Last(ls) = ls[m]
  BY DEF Front, Last
<1>3. f \in Seq(S) /\ Len(f) = m - 1 /\ \A i \in 1..(m - 1) : f[i] = ls[i]
  <2>1. \A i \in 1..(m - 1) : ls[i] \in S
    BY <1>1
  <2>2. m - 1 \in Int /\ 1 \in Int /\ 1 <= m - 1 /\ m - 1 - 1 + 1 = m - 1
    BY <1>1
  <2> HIDE DEF S
  <2>3. /\ f \in Seq(S)
        /\ Len(f) = IF 1 <= m - 1 THEN m - 1 - 1 + 1 ELSE 0
        /\ \A i \in 1..(m - 1 - 1 + 1) : f[i] = ls[1 + i - 1]
    BY <2>1, <2>2, SubSeqProperties
  <2> HIDE DEF f
  <2>4. \A i \in 1..(m - 1) : 1 + i - 1 = i
    BY <1>1
  <2> QED
    BY <2>2, <2>3, <2>4
<1> HIDE DEF S, f
<1>4. f # <<>>
  BY <1>1, <1>3
<1>5. Tail(f) \in Seq(S) /\ Len(Tail(f)) = m - 2 /\ \A i \in 1..(m - 2) : Tail(f)[i] = f[i + 1]
  <2>1. /\ Tail(f) \in Seq(S) /\ Len(Tail(f)) = Len(f) - 1
        /\ \A i \in 1..Len(Tail(f)) : Tail(f)[i] = f[i + 1]
    BY <1>3, <1>4, HeadTailProperties
  <2>2. m - 1 - 1 = m - 2
    BY <1>1
  <2> QED
    BY <1>3, <2>1, <2>2
<1>6. \A i \in 1..(m - 2) : i + 1 \in 1..(m - 1)
  BY <1>1
<1>7. DOMAIN Tail(f) = 1..(m - 2)
  BY <1>5, LenProperties
<1> QED
  BY <1>1, <1>2, <1>3, <1>5, <1>6, <1>7

LEMMA EnclosedIsBracketed ==
  ASSUME NEW ls, IsList(ls), NEW m, m = Len(ls), NEW open, NEW close
  PROVE  IsEnclosed(ls, open, close) <=> Bracketed(ls, open, close, m)
<1>1. m \in Nat
  BY DEF IsList
<1>2. CASE ~(m >= 2)
  BY <1>1, <1>2 DEF IsEnclosed, Bracketed
<1>3. CASE m >= 2
  <2> DEFINE t == Tail(Front(ls))
             Inside == \A i \in 2..(m - 1) :
                         IF i % 2 = 0 THEN ls[i].token \in ScalarTokens ELSE ls[i].token = Comma
             Within == \A i \in 1..(m - 2) :
                         IF i % 2 = 1 THEN t[i].token \in ScalarTokens ELSE t[i].token = Comma
  <2>1. Last(ls) = ls[m] /\ Len(t) = m - 2 /\ DOMAIN t = 1..(m - 2) /\ \A i \in 1..(m - 2) : t[i] = ls[i + 1]
    BY <1>3, Inner
  <2> HIDE DEF t
  <2>2. IsSeries(t) <=> (m - 2) % 2 = 1 /\ Within
    BY <2>1 DEF IsSeries
  <2>3. ASSUME Within PROVE Inside
    <3> SUFFICES ASSUME NEW i \in 2..(m - 1)
                 PROVE  IF i % 2 = 0 THEN ls[i].token \in ScalarTokens ELSE ls[i].token = Comma
      OBVIOUS
    <3>1. i - 1 \in 1..(m - 2) /\ (i - 1) + 1 = i /\ i - 1 \in Nat
      BY <1>1
    <3>2. (i - 1) % 2 = 1 <=> i % 2 = 0
      BY <3>1, Parity
    <3>3. IF (i - 1) % 2 = 1 THEN t[i - 1].token \in ScalarTokens ELSE t[i - 1].token = Comma
      BY <2>3, <3>1
    <3>4. t[i - 1] = ls[i]
      BY <2>1, <3>1
    <3> QED
      BY <3>2, <3>3, <3>4
  <2>4. ASSUME Inside PROVE Within
    <3> SUFFICES ASSUME NEW i \in 1..(m - 2)
                 PROVE  IF i % 2 = 1 THEN t[i].token \in ScalarTokens ELSE t[i].token = Comma
      OBVIOUS
    <3>1. i + 1 \in 2..(m - 1) /\ i \in Nat
      BY <1>1
    <3>2. (i + 1) % 2 = 0 <=> i % 2 = 1
      BY <3>1, Parity
    <3>3. IF (i + 1) % 2 = 0 THEN ls[i + 1].token \in ScalarTokens ELSE ls[i + 1].token = Comma
      BY <2>4, <3>1
    <3>4. t[i] = ls[i + 1]
      BY <2>1
    <3> QED
      BY <3>2, <3>3, <3>4
  <2>5. m - 2 \in Nat /\ ((m - 2) % 2 = 1 <=> m % 2 = 1)
    <3>1. m - 2 \in Nat /\ (m - 2) + 2 = m
      BY <1>1, <1>3
    <3> QED
      BY <3>1, Parity
  <2>6. m = 2 => Inside
    OBVIOUS
  <2>7. m > 1 <=> m >= 2
    BY <1>1
  <2> HIDE DEF Inside, Within
  <2>8. (m = 2 \/ IsSeries(t)) <=> (m = 2 \/ m % 2 = 1) /\ Inside
    BY <2>2, <2>3, <2>4, <2>5, <2>6
  <2> QED
    BY <1>3, <2>1, <2>7, <2>8 DEF IsEnclosed, Bracketed, Inside, t
<1> QED
  BY <1>2, <1>3

\* A series behind the first lexeme ends with a scalar at an even position.
LEMMA SeriesBehind ==
  ASSUME NEW ls, NEW d, NEW b, SeriesOf(ls, d, 1, b)
  PROVE  /\ b \in Nat /\ b >= 2 /\ b % 2 = 0 /\ ls[b].token \in ScalarTokens
         /\ \A i \in 2..b : IF i % 2 = 0 THEN ls[i].token \in ScalarTokens ELSE ls[i].token = Comma
         /\ d = [i \in 1..(b \div 2) |-> ls[2 * i].scalar]
<1>1. PICK k \in Nat :
        /\ k >= 1 /\ b = 1 + 2 * k - 1
        /\ \A j \in 1..k : ls[1 + 2 * j - 1].token \in ScalarTokens
        /\ \A j \in 1..(k - 1) : ls[1 + 2 * j].token = Comma
        /\ d = [j \in 1..k |-> ls[1 + 2 * j - 1].scalar]
  BY DEF SeriesOf
<1>2. b = 2 * k /\ b \in Nat /\ b >= 2 /\ k \in 1..k
  BY <1>1
<1>3. b % 2 = 0 /\ b \div 2 = k
  BY <1>2, Parity
<1>4. \A j \in 1..k : 1 + 2 * j - 1 = 2 * j
  BY <1>1
<1>5. \A j \in 1..k : ls[2 * j].token \in ScalarTokens
  BY <1>1, <1>4
<1>6. d = [j \in 1..k |-> ls[2 * j].scalar]
  BY <1>1, <1>4
<1>7. ls[b].token \in ScalarTokens
  BY <1>2, <1>5
<1>8. ASSUME NEW i \in 2..b
      PROVE  IF i % 2 = 0 THEN ls[i].token \in ScalarTokens ELSE ls[i].token = Comma
  <2>1. i \in Nat
    BY <1>2
  <2>2. CASE i % 2 = 0
    <3>1. PICK j \in Nat : i = 2 * j
      BY <2>1, <2>2, Parity
    <3>2. j \in 1..k
      BY <1>2, <3>1
    <3> QED
      BY <1>5, <2>2, <3>1, <3>2
  <2>3. CASE i % 2 = 1
    <3>1. PICK j \in Nat : i = 2 * j + 1
      BY <2>1, <2>3, Parity
    <3>2. j \in 1..(k - 1) /\ i = 1 + 2 * j
      BY <1>2, <3>1
    <3> QED
      BY <1>1, <2>3, <3>2
  <2> QED
    BY <2>1, <2>2, <2>3, Parity
<1> QED
  BY <1>2, <1>3, <1>6, <1>7, <1>8

\* The scalars between brackets.
ItemsOf(ls, m) == [i \in 1..((m - 1) \div 2) |-> ls[2 * i].scalar]

LEMMA EnclosedHasValue ==
  ASSUME NEW ls, NEW open, NEW close, NEW d, NEW m \in Nat, EnclosedOf(ls, open, close, d, 0, m)
  PROVE  /\ Bracketed(ls, open, close, m)
         /\ d = ItemsOf(ls, m)
<1>1. /\ m >= 2 /\ ls[1].token = open /\ ls[m].token = close
      /\ (1 = m - 1 /\ d = <<>>) \/ SeriesOf(ls, d, 1, m - 1)
  BY DEF EnclosedOf, OptSeriesOf
<1>2. CASE 1 = m - 1 /\ d = <<>>
  <2>1. m = 2 /\ (m - 1) \div 2 = 0
    BY <1>2
  <2>2. \A i \in 2..(m - 1) : FALSE
    BY <2>1
  <2>3. [i \in 1..0 |-> ls[2 * i].scalar] = <<>>
    OBVIOUS
  <2> QED
    BY <1>1, <1>2, <2>1, <2>2, <2>3 DEF Bracketed, ItemsOf
<1>3. CASE SeriesOf(ls, d, 1, m - 1)
  <2> DEFINE b == m - 1
  <2>1. /\ b \in Nat /\ b % 2 = 0
        /\ \A i \in 2..b : IF i % 2 = 0 THEN ls[i].token \in ScalarTokens ELSE ls[i].token = Comma
        /\ d = [i \in 1..(b \div 2) |-> ls[2 * i].scalar]
    BY <1>3, SeriesBehind
  <2>2. m % 2 = 1
    <3>1. b + 1 = m
      OBVIOUS
    <3> HIDE DEF b
    <3> QED
      BY <2>1, <3>1, Parity
  <2> QED
    BY <1>1, <2>1, <2>2 DEF Bracketed, ItemsOf
<1> QED
  BY <1>1, <1>2, <1>3

\* What the symbols derive is an expression of the grammar, with its value.
LEMMA ExpressionHasValue ==
  ASSUME NEW ls, IsList(ls), NEW r, ExpressionOf(ls, r, Len(ls))
  PROVE  IsExpression(ls) /\ r = ValueOf(ls)
<1> DEFINE m == Len(ls)
<1>1. m \in Nat
  BY DEF IsList
<1>2. CASE ScalarFrom(ls, r.items, 0, m) /\ r = Value("scalar", r.items)
  <2>1. m = 1 /\ ls[1].token \in ScalarTokens /\ r.items = <<ls[1].scalar>>
    BY <1>2 DEF ScalarFrom
  <2>2. ls[1].token # 91 /\ ls[1].token # 123
    BY <2>1, Tokens
  <2> QED
    BY <1>2, <2>1, <2>2 DEF IsExpression, ValueOf
<1>3. CASE EnclosedOf(ls, 91, 93, r.items, 0, m) /\ r = Value("sequence", r.items)
  <2>1. Bracketed(ls, 91, 93, m) /\ r.items = ItemsOf(ls, m)
    BY <1>1, <1>3, EnclosedHasValue
  <2>2. IsEnclosed(ls, 91, 93)
    BY <2>1, EnclosedIsBracketed
  <2>3. IsExpression(ls)
    BY <2>2 DEF IsExpression
  <2>4. ls[1].token = 91
    BY <2>1 DEF Bracketed
  <2>5. ValueOf(ls) = Value("sequence", ItemsOf(ls, m))
    BY <2>4 DEF ValueOf, ItemsOf
  <2> HIDE DEF m
  <2> QED
    BY <1>3, <2>1, <2>3, <2>5
<1>4. CASE EnclosedOf(ls, 123, 125, r.items, 0, m) /\ r = Value("tuple", r.items)
  <2>1. Bracketed(ls, 123, 125, m) /\ r.items = ItemsOf(ls, m)
    BY <1>1, <1>4, EnclosedHasValue
  <2>2. IsEnclosed(ls, 123, 125)
    BY <2>1, EnclosedIsBracketed
  <2>3. IsExpression(ls)
    BY <2>2 DEF IsExpression
  <2>4. ls[1].token = 123 /\ ls[1].token # 91
    BY <2>1 DEF Bracketed
  <2>5. ValueOf(ls) = Value("tuple", ItemsOf(ls, m))
    BY <2>4 DEF ValueOf, ItemsOf
  <2> HIDE DEF m
  <2> QED
    BY <1>4, <2>1, <2>3, <2>5
<1> QED
  BY <1>2, <1>3, <1>4 DEF ExpressionOf

LEMMA ExpressionShape ==
  ASSUME NEW ls, IsList(ls), IsExpression(ls), NEW m, m = Len(ls)
  PROVE  \/ m = 1 /\ ls[1].token \in ScalarTokens
         \/ Bracketed(ls, 91, 93, m)
         \/ Bracketed(ls, 123, 125, m)
BY EnclosedIsBracketed DEF IsExpression

-----------------------------------------------------------------------------
(* The end of parse() *)

\* The token t follows the first m lexemes.
Follows(ls, m, t) ==
  /\ m \in Nat /\ m <= Len(ls)
  /\ IF m = Len(ls) THEN t = Eof ELSE t = ls[m + 1].token

LEMMA ReadAhead ==
  ASSUME LexemesOK, ReadOK, token \in Terminals, token # Undetermined
  PROVE  Follows(lexemes, Shifted, token) /\ token = Ahead
<1>1. token = Ahead
  BY TerminalsApart DEF Ahead
<1>2. Shifted \in Nat /\ Shifted <= Len(lexemes)
  BY ShiftedInRange
<1>3. Len(lexemes) \in Nat /\ next \in Nat
  BY DEF LexemesOK
<1>4. CASE token = Eof
  <2>1. Shifted = Len(lexemes)
    BY <1>1, <1>3, <1>4, Tokens DEF ReadOK, Shifted
  <2> QED
    BY <1>1, <1>2, <1>4, <2>1 DEF Follows
<1>5. CASE token # Eof
  <2>1. token > 0
    BY <1>5, Tokens DEF Terminals
  <2>2. Shifted = next - 2 /\ next <= Len(lexemes) + 1 /\ token = lexemes[next - 1].token
    BY <1>1, <2>1 DEF ReadOK, Shifted
  <2>3. Shifted # Len(lexemes) /\ Shifted + 1 = next - 1
    BY <1>2, <1>3, <2>2
  <2> QED
    BY <1>1, <1>2, <2>2, <2>3 DEF Follows
<1> QED
  BY <1>4, <1>5

\* No expression begins like another one.
LEMMA NothingFollows ==
  ASSUME NEW ls, IsList(ls), NEW r, NEW m, ExpressionOf(ls, r, m), NEW t, Follows(ls, m, t), t # Eof
  PROVE  ~IsExpression(ls)
<1> SUFFICES ASSUME IsExpression(ls) PROVE FALSE
  OBVIOUS
<1> DEFINE n == Len(ls)
<1>1. n \in Nat /\ m \in Nat /\ m < n
  BY DEF IsList, Follows
<1>2. Bracketed(ls, 91, 93, n) \/ Bracketed(ls, 123, 125, n)
  <2>1. m >= 1
    BY <1>1 DEF ExpressionOf, ScalarFrom, EnclosedOf
  <2>2. n # 1
    BY <1>1, <2>1, SMTT(30)
  <2> QED
    BY <2>2, ExpressionShape
<1>3. ls[1].token \in {91, 123} /\ \A i \in 2..(n - 1) : ls[i].token \in ScalarTokens \union {Comma}
  BY <1>2 DEF Bracketed
<1> HIDE DEF n
<1>4. CASE ScalarFrom(ls, r.items, 0, m)
  <2>1. m = 1 /\ ls[1].token \in ScalarTokens
    BY <1>4 DEF ScalarFrom
  <2> QED
    BY <1>3, <2>1, Tokens
<1>5. CASE EnclosedOf(ls, 91, 93, r.items, 0, m) \/ EnclosedOf(ls, 123, 125, r.items, 0, m)
  <2>1. m >= 2 /\ ls[m].token \in {93, 125}
    BY <1>5 DEF EnclosedOf
  <2>2. m \in 2..(n - 1)
    BY <1>1, <2>1
  <2> QED
    BY <1>3, <2>1, <2>2, Tokens
<1> QED
  BY <1>4, <1>5 DEF ExpressionOf

\* What starts with a bracket is an expression only if its own bracket ends it.
LEMMA OpenIsClosed ==
  ASSUME NEW ls, IsList(ls), NEW open, NEW close, (open = 91 /\ close = 93) \/ (open = 123 /\ close = 125),
         ls[1].token = open, IsExpression(ls)
  PROVE  Bracketed(ls, open, close, Len(ls))
<1> DEFINE n == Len(ls)
<1>1. open \notin ScalarTokens
  BY Tokens
<1>2. Bracketed(ls, 91, 93, n) \/ Bracketed(ls, 123, 125, n)
  BY <1>1, ExpressionShape
<1>3. Bracketed(ls, 91, 93, n) => ls[1].token = 91
  BY DEF Bracketed
<1>4. Bracketed(ls, 123, 125, n) => ls[1].token = 123
  BY DEF Bracketed
<1> HIDE DEF n
<1> QED
  BY <1>2, <1>3, <1>4 DEF n

\* A bracket is missing behind a series.
LEMMA NotClosed ==
  ASSUME NEW ls, IsList(ls), NEW open, NEW close, (open = 91 /\ close = 93) \/ (open = 123 /\ close = 125),
         ls[1].token = open, NEW m, NEW d, OptSeriesOf(ls, d, 1, m),
         NEW t, Follows(ls, m, t), t # close, t \notin IF m = 1 THEN ScalarTokens ELSE {Comma}
  PROVE  ~IsExpression(ls)
<1> SUFFICES ASSUME IsExpression(ls) PROVE FALSE
  OBVIOUS
<1> DEFINE n == Len(ls)
<1>1. n \in Nat /\ m \in Nat /\ m <= n
  BY DEF IsList, Follows
<1>2. /\ n >= 2 /\ ls[n].token = close
      /\ \A i \in 2..(n - 1) : IF i % 2 = 0 THEN ls[i].token \in ScalarTokens ELSE ls[i].token = Comma
  <2>1. Bracketed(ls, open, close, n)
    BY OpenIsClosed
  <2> QED
    BY <2>1 DEF Bracketed
<1>3. IF m = n THEN t = Eof ELSE t = ls[m + 1].token
  BY DEF Follows
<1>4. close \notin ScalarTokens
  BY Tokens
<1> HIDE DEF n
<1>5. m = 1 \/ (m >= 2 /\ m % 2 = 0 /\ ls[m].token \in ScalarTokens)
  <2>1. CASE SeriesOf(ls, d, 1, m)
    BY <2>1, SeriesBehind
  <2>2. 1 = m \/ SeriesOf(ls, d, 1, m)
    BY DEF OptSeriesOf
  <2> QED
    BY <2>1, <2>2
<1>6. m # n
  BY <1>2, <1>4, <1>5
<1>7. m + 1 # n /\ t = ls[m + 1].token
  BY <1>2, <1>3, <1>6
<1>8. m + 1 \in 2..(n - 1)
  BY <1>1, <1>5, <1>6, <1>7
<1>9. CASE m = 1
  <2>1. (m + 1) % 2 = 0
    BY <1>9
  <2> QED
    BY <1>2, <1>7, <1>8, <1>9, <2>1
<1>10. CASE m >= 2 /\ m % 2 = 0
  <2>1. (m + 1) % 2 = 1
    BY <1>1, <1>10, Parity
  <2>2. ls[m + 1].token = Comma /\ m # 1
    BY <1>2, <1>8, <1>10, <2>1
  <2> QED
    BY <1>7, <2>2
<1> QED
  BY <1>5, <1>9, <1>10

\* A scalar is missing behind a comma.
LEMMA NotContinued ==
  ASSUME NEW ls, IsList(ls), NEW open, NEW close, (open = 91 /\ close = 93) \/ (open = 123 /\ close = 125),
         ls[1].token = open, NEW m, NEW d, SeriesOf(ls, d, 1, m - 1), ls[m].token = Comma,
         NEW t, Follows(ls, m, t), t \notin ScalarTokens
  PROVE  ~IsExpression(ls)
<1> SUFFICES ASSUME IsExpression(ls) PROVE FALSE
  OBVIOUS
<1> DEFINE n == Len(ls)
           b == m - 1
<1>1. n \in Nat /\ m \in Nat /\ m <= n
  BY DEF IsList, Follows
<1>2. /\ n >= 2 /\ ls[n].token = close /\ (n = 2 \/ n % 2 = 1)
      /\ \A i \in 2..(n - 1) : IF i % 2 = 0 THEN ls[i].token \in ScalarTokens ELSE ls[i].token = Comma
  <2>1. Bracketed(ls, open, close, n)
    BY OpenIsClosed, ZenonT(60)
  <2> QED
    BY <2>1 DEF Bracketed
<1>3. IF m = n THEN t = Eof ELSE t = ls[m + 1].token
  BY DEF Follows
<1>4. close # Comma
  BY Tokens
<1> HIDE DEF n
<1>5. b \in Nat /\ b >= 2 /\ b % 2 = 0 /\ b + 2 = m + 1
  BY <1>1, SeriesBehind
<1> HIDE DEF b
<1>6. (m + 1) % 2 = 0 /\ m >= 2
  <2>1. (b + 2) % 2 = 0 /\ b + 2 >= 4
    BY <1>5, Parity
  <2> QED
    BY <1>1, <1>5, <2>1
<1>7. m # n
  BY <1>2, <1>4
<1>8. m + 1 # n
  <2> SUFFICES ASSUME m + 1 = n PROVE FALSE
    OBVIOUS
  <2>1. n % 2 = 0 /\ n # 2
    BY <1>1, <1>6
  <2> QED
    BY <1>2, <2>1
<1>9. m + 1 \in 2..(n - 1)
  BY <1>1, <1>6, <1>7, <1>8
<1>10. ls[m + 1].token \in ScalarTokens
  BY <1>2, <1>6, <1>9
<1> QED
  BY <1>3, <1>7, <1>10

\* What is on the stack where no action is left.
LEMMA OnTopOfError ==
  ASSUME NEW s, IsPath(s), NEW n, n = Len(s)
  PROVE  /\ s[n].state = 0 => n = 1
         /\ s[n].state = 12 => n > 1 /\ n - 1 \in 1..n /\ s[n - 1].state = 10
         /\ s[n].state = 15 => n > 1 /\ n - 1 \in 1..n /\ s[n - 1].state = 11
         /\ s[n].state = 17 => /\ n > 2 /\ n - 1 \in 1..n /\ s[n - 1].state = 13
                               /\ n - 2 \in 1..n /\ s[n - 2].state \in {10, 11}
<1> DEFINE a == s[n].state
           b == s[n - 1].state
           c == s[n - 2].state
<1>1. /\ n \in Nat /\ n >= 1
      /\ a # 0 => n > 1 /\ b \in Predecessors(a)
      /\ n > 1 /\ b # 0 => n > 2 /\ c \in Predecessors(b)
  BY Below
<1>2. a = 0 => n = 1
  <2>1. n \in 1..n /\ (n > 1 => a # 0)
    BY <1>1 DEF IsPath
  <2> QED
    BY <1>1, <2>1
<1> HIDE DEF a, b, c
<1>3. /\ Predecessors(12) = {10} /\ Predecessors(15) = {11} /\ Predecessors(17) = {13}
      /\ Predecessors(13) = {10, 11}
  BY DEF Predecessors
<1>4. (n > 1 => n - 1 \in 1..n) /\ (n > 2 => n - 2 \in 1..n)
  BY <1>1
<1>5. a = 12 => n > 1 /\ b = 10
  BY <1>1, <1>3
<1>6. a = 15 => n > 1 /\ b = 11
  BY <1>1, <1>3
<1>7. a = 17 => n > 2 /\ b = 13 /\ c \in {10, 11}
  BY <1>1, <1>3
<1>8. n > 2 => n > 1
  BY <1>1
<1> QED
  BY <1>2, <1>4, <1>5, <1>6, <1>7, <1>8 DEF a, b, c

LEMMA NoExpression ==
  ASSUME GrammarInv, Ready, Action = Error
  PROVE  ~IsExpression(lexemes)
<1> DEFINE n == Len(stack)
           m == Shifted
<1>1. /\ IsPath(stack) /\ TokensOK /\ LexemesOK /\ ReadOK /\ StackDerives /\ ResultOK /\ ClosesOK
      /\ IsList(lexemes)
  BY DEF GrammarInv, IInv, Ready, ReadOK
<1>2. State \in {0, 1, 12, 15, 17} /\ ~Leads(State, token) /\ token \in Terminals
  BY <1>1, ActionsFor
<1>3. State \in 0..19 /\ token # Undetermined /\ State = stack[n].state /\ n \in Nat /\ n >= 1
  <2>1. State \in RequiringToken
    BY <1>2 DEF RequiringToken
  <2>2. State = stack[n].state
    BY DEF State, Last
  <2> QED
    BY <1>1, <1>2, <2>1, <2>2 DEF Ready, IsPath
<1>4. Follows(lexemes, m, token) /\ token = Ahead
  BY <1>1, <1>2, <1>3, ReadAhead
<1>5. PICK e : Ends(e)
  BY <1>1 DEF StackDerives
<1>6. e[n] = m
  BY <1>2, <1>5, TerminalsApart DEF Ends
<1>7. /\ n > 1 => Derives(lexemes, Symbol(stack[n].state), stack[n].value.data, e[n - 1], e[n])
      /\ n > 2 => Derives(lexemes, Symbol(stack[n - 1].state), stack[n - 1].value.data, e[n - 2], e[n - 1])
  BY <1>1, <1>5, TopDerives
<1> HIDE DEF n, m
<1>8. n = Len(stack) /\ m = Shifted
  BY DEF n, m
<1>9. CASE State = 0
  <2>1. m = 0
    <3>1. n = 1
      BY <1>1, <1>3, <1>8, <1>9, OnTopOfError
    <3> QED
      BY <1>5, <1>6, <3>1 DEF Ends
  <2>2. token \notin ScalarTokens /\ token # 91 /\ token # 123
    BY <1>2, <1>9, InRow
  <2>3. Len(lexemes) # 0 => lexemes[1].token = token
    BY <1>4, <2>1 DEF Follows
  <2>4. IsExpression(lexemes) => /\ Len(lexemes) # 0
                                 /\ lexemes[1].token \in ScalarTokens \union {91, 123}
    <3>1. SUFFICES ASSUME IsExpression(lexemes)
                   PROVE  Len(lexemes) # 0 /\ lexemes[1].token \in ScalarTokens \union {91, 123}
      OBVIOUS
    <3>2. \/ Len(lexemes) = 1 /\ lexemes[1].token \in ScalarTokens
          \/ Bracketed(lexemes, 91, 93, Len(lexemes))
          \/ Bracketed(lexemes, 123, 125, Len(lexemes))
      BY <1>1, <3>1, ExpressionShape
    <3> QED
      BY <3>2 DEF Bracketed
  <2> QED
    BY <2>2, <2>3, <2>4
<1>10. CASE State = 1
  <2>1. token # Eof
    BY <1>2, <1>10, InRow
  <2>2. ExpressionOf(lexemes, result, m)
    BY <1>1, <1>8, <1>10 DEF ResultOK
  <2> QED
    BY <1>1, <1>4, <2>1, <2>2, NothingFollows
<1>11. CASE State \in {12, 15}
  <2> DEFINE open == IF State = 12 THEN 91 ELSE 123
             close == IF State = 12 THEN 93 ELSE 125
             d == stack[n].value.data
  <2>1. n > 1 /\ n - 1 \in 1..n /\ stack[n - 1].state = (IF State = 12 THEN 10 ELSE 11)
    BY <1>1, <1>3, <1>8, <1>11, OnTopOfError
  <2>2. e[n - 1] = 1 /\ lexemes[1].token = open
    <3>1. n - 1 = 2 /\ e[2] = 1 /\ lexemes[1].token = Symbol(stack[n - 1].state)
      BY <1>1, <1>5, <1>8, <2>1, Bracket
    <3> QED
      BY <2>1, <3>1, Symbols
  <2>3. OptSeriesOf(lexemes, d, 1, m)
    <3>1. Symbol(stack[n].state) = opt_series
      BY <1>3, <1>11, Symbols
    <3> HIDE DEF d
    <3>2. Derives(lexemes, opt_series, d, 1, m)
      BY <1>6, <1>7, <2>1, <2>2, <3>1 DEF d
    <3> QED
      BY <3>2, OfOptSeries
  <2>4. token # close
    BY <1>2, <1>11, InRow
  <2>5. token \notin IF m = 1 THEN ScalarTokens ELSE {Comma}
    BY <1>1, <1>4, <1>8, <1>11 DEF ClosesOK
  <2>6. (open = 91 /\ close = 93) \/ (open = 123 /\ close = 125)
    OBVIOUS
  <2> HIDE DEF open, close, d
  <2> QED
    BY <1>1, <1>4, <2>2, <2>3, <2>4, <2>5, <2>6, NotClosed
<1>12. CASE State = 17
  <2> DEFINE open == lexemes[1].token
             close == IF open = 91 THEN 93 ELSE 125
             d == stack[n - 1].value.data
  <2>1. n > 1 /\ n > 2 /\ n - 2 \in 1..n /\ stack[n - 1].state = 13 /\ stack[n - 2].state \in {10, 11}
    BY <1>1, <1>3, <1>8, <1>12, OnTopOfError, SMTT(30)
  <2>2. e[n - 2] = 1 /\ open \in {91, 123}
    <3>1. n - 2 = 2 /\ e[2] = 1 /\ lexemes[1].token = Symbol(stack[n - 2].state)
      BY <1>1, <1>5, <1>8, <2>1, Bracket
    <3> QED
      BY <2>1, <3>1, Symbols
  <2>3. lexemes[m].token = Comma /\ m = e[n - 1] + 1
    <3>1. Symbol(stack[n].state) = Comma /\ Comma \in 1..BINARY
      BY <1>3, <1>12, Symbols, Tokens
    <3>2. Derives(lexemes, Comma, stack[n].value.data, e[n - 1], m)
      BY <1>6, <1>7, <2>1, <3>1
    <3> QED
      BY <3>1, <3>2, OfTerminal
  <2>4. SeriesOf(lexemes, d, 1, m - 1)
    <3>1. Symbol(stack[n - 1].state) = series
      BY <2>1, Symbols
    <3> HIDE DEF d
    <3>2. Derives(lexemes, series, d, 1, e[n - 1])
      BY <1>7, <2>1, <2>2, <3>1 DEF d
    <3>3. SeriesOf(lexemes, d, 1, e[n - 1])
      BY <3>2, OfSeries
    <3>4. e[n - 1] \in Nat
      <4>1. n - 1 \in Nat
        BY <1>3
      <4>2. e \in [Nat -> Nat]
        BY <1>5 DEF Ends
      <4> QED
        BY <4>1, <4>2
    <3>5. m - 1 = e[n - 1]
      BY <2>3, <3>4
    <3> QED
      BY <3>3, <3>5
  <2>5. token \notin ScalarTokens
    BY <1>2, <1>12, InRow
  <2>6. (open = 91 /\ close = 93) \/ (open = 123 /\ close = 125)
    BY <2>2
  <2>7. lexemes[1].token = open
    OBVIOUS
  <2> HIDE DEF open, close, d
  <2> QED
    BY <1>1, <1>4, <2>3, <2>4, <2>5, <2>6, <2>7, NotContinued
<1> QED
  BY <1>2, <1>9, <1>10, <1>11, <1>12

LEMMA AnExpression ==
  ASSUME GrammarInv, Ready, Action = Accept
  PROVE  IsExpression(lexemes) /\ result = ValueOf(lexemes)
<1>1. IsPath(stack) /\ TokensOK /\ LexemesOK /\ ReadOK /\ ResultOK /\ IsList(lexemes)
  BY DEF GrammarInv, IInv, Ready, ReadOK
<1>2. State = 1 /\ token = Eof
  BY <1>1, ActionsFor
<1>3. token \in Terminals /\ token # Undetermined
  BY <1>2, Tokens DEF Terminals
<1>4. Ahead = Eof
  BY <1>1, <1>2, <1>3, ReadAhead
<1>5. Shifted = Len(lexemes)
  BY <1>1, <1>4, Tokens DEF ReadOK, Shifted, LexemesOK
<1>6. ExpressionOf(lexemes, result, Len(lexemes))
  BY <1>1, <1>2, <1>5 DEF ResultOK
<1> QED
  BY <1>1, <1>6, ExpressionHasValue

LEMMA GrammarStep == GrammarInv /\ [Next]_vars => GrammarInv'
<1> SUFFICES ASSUME GrammarInv, [Next]_vars PROVE GrammarInv'
  OBVIOUS
<1>1. CASE NextToken
  BY <1>1, GrammarNextToken
<1>2. CASE Shift
  BY <1>2, GrammarShift
<1>3. CASE Reduce
  BY <1>3, GrammarReduce
<1>4. IInv'
  BY StepOK DEF GrammarInv
<1>5. CASE Accepted
  <2>1. outcome' = "accepted" /\ lexemes' = lexemes /\ result' = result /\ Ready /\ Action = Accept
    BY <1>5 DEF Accepted
  <2>2. IsExpression(lexemes) /\ result = ValueOf(lexemes)
    BY <2>1, AnExpression
  <2>3. ExpressionsAreAccepted'
    BY <2>1, <2>2 DEF ExpressionsAreAccepted
  <2> QED
    BY <1>4, <2>1, <2>3 DEF GrammarInv
<1>6. CASE Unexpected
  <2>1. outcome' = "aborted" /\ lexemes' = lexemes /\ Ready /\ Action = Error
    BY <1>6 DEF Unexpected
  <2>2. ~IsExpression(lexemes)
    BY <2>1, NoExpression
  <2>3. ExpressionsAreAccepted'
    BY <2>1, <2>2 DEF ExpressionsAreAccepted
  <2> QED
    BY <1>4, <2>1, <2>3 DEF GrammarInv
<1>7. CASE TakeResult
  <2>1. outcome' = outcome /\ outcome # "parsing" /\ lexemes' = lexemes /\ result' = result
    BY <1>7 DEF TakeResult
  <2>2. ExpressionsAreAccepted'
    BY <2>1 DEF GrammarInv, ExpressionsAreAccepted
  <2> QED
    BY <1>4, <2>1, <2>2 DEF GrammarInv
<1>8. CASE UNCHANGED vars
  <2>1. /\ outcome' = outcome /\ lexemes' = lexemes /\ result' = result /\ next' = next /\ matched' = matched
        /\ stack' = stack /\ token' = token /\ nextToken' = nextToken /\ val' = val /\ nextVal' = nextVal
    BY <1>8 DEF vars
  <2>2. State' = State /\ Ahead' = Ahead
    BY <2>1 DEF State, Ahead
  <2>3. Shifted' = Shifted
    BY <2>1, <2>2 DEF Shifted
  <2>4. ExpressionsAreAccepted' <=> ExpressionsAreAccepted
    BY <2>1 DEF ExpressionsAreAccepted
  <2>5. (ReadOK' <=> ReadOK) /\ (ResultOK' <=> ResultOK) /\ (ClosesOK' <=> ClosesOK)
    BY <2>1, <2>2, <2>3 DEF ReadOK, ResultOK, ClosesOK
  <2>6. StackDerives' <=> StackDerives
    BY <2>1, <2>3 DEF StackDerives, Ends
  <2> QED
    BY <1>4, <2>1, <2>4, <2>5, <2>6 DEF GrammarInv
<1> QED
  BY <1>1, <1>2, <1>3, <1>5, <1>6, <1>7, <1>8 DEF Next

\* parse() accepts exactly the expressions of the grammar, whatever the text and
\* however long, and gives the value that is written there, all elements in
\* their order and each converted from its own text, although the scanner has
\* often gone on to the next one; it throws only for a scalar that has no value.
THEOREM ParserAcceptsExpressions == Spec => []ExpressionsAreAccepted
<1>1. GrammarInv => ExpressionsAreAccepted
  BY DEF GrammarInv
<1> QED
  BY GrammarInit, GrammarStep, <1>1, PTL DEF Spec

-----------------------------------------------------------------------------
(* Types *)

\* What the lexemes give, and what the state holds in between.
TypeInv ==
  /\ IInv /\ TypeOK
  /\ \A i \in 1..Len(lexemes) : lexemes[i].scalar \in Items \union {Invalid}
  /\ DOMAIN lexemes = 1..Len(lexemes)

LEMMA Semantics ==
  /\ IsSemantic(Null)
  /\ \A v \in Items : IsSemantic(Scl(v))
  /\ \A v \in Seq(Items) : IsSemantic(Seq_(v))
  /\ \A v : IsSemantic(v) => IsSemantic(GetSeq(v))
<1>1. IsSemantic(Null)
  BY DEF Null, IsSemantic
<1>2. \A v \in Items : IsSemantic(Scl(v))
  <2> SUFFICES ASSUME NEW v \in Items PROVE IsSemantic(Scl(v))
    OBVIOUS
  <2>1. <<v>> \in Seq(Items)
    OBVIOUS
  <2>2. Scl(v).tag = "SCL" /\ Scl(v).data = <<v>>
    BY DEF Scl, Semantic_
  <2> QED
    BY <2>1, <2>2 DEF IsSemantic
<1>3. \A v \in Seq(Items) : IsSemantic(Seq_(v))
  <2> SUFFICES ASSUME NEW v \in Seq(Items) PROVE IsSemantic(Seq_(v))
    OBVIOUS
  <2>1. Seq_(v).tag = "SEQ" /\ Seq_(v).data = v
    BY DEF Seq_, Semantic_
  <2> QED
    BY <2>1 DEF IsSemantic
<1>4. <<>> \in Seq(Items)
  OBVIOUS
<1>5. \A v : IsSemantic(v) => IsSemantic(GetSeq(v))
  BY <1>3, <1>4 DEF GetSeq
<1> QED
  BY <1>1, <1>2, <1>3, <1>5

LEMMA TypeInit == Init => TypeInv
<1> SUFFICES ASSUME Init PROVE TypeInv
  OBVIOUS
<1>1. IInv
  BY InitOK
<1>2. /\ lexemes \in Seq(Range(lexemes))
      /\ \A i \in 1..Len(lexemes) :
           lexemes[i].token \in 1..BINARY /\ lexemes[i].scalar \in Items \union {Invalid}
  <2>1. text \in Texts /\ lexemes = Lexemes(text)
    BY DEF Init
  <2> QED
    BY <2>1, TextsAssumption
<1>3. DOMAIN lexemes = 1..Len(lexemes)
  BY <1>2, LenProperties
<1>4. Len(stack) = 1 /\ DOMAIN stack = 1..1 /\ stack[1].state = 0 /\ stack[1].value = Null /\ stack # <<>>
  <2> DEFINE x == [state |-> 0, value |-> Null]
  <2>1. IsList(<<x>>) /\ Len(<<x>>) = 1 /\ <<x>>[1] = x /\ x.state = 0 /\ x.value = Null /\ <<x>> # <<>>
    BY OneReply
  <2>2. stack = <<x>>
    BY DEF Init
  <2> HIDE DEF x
  <2>3. DOMAIN stack = 1..Len(stack)
    BY <2>1, <2>2, LenProperties DEF IsList
  <2> QED
    BY <2>1, <2>2, <2>3
<1>5. result.kind = "scalar" /\ result.items \in Seq(Items)
  <2>1. Boolean(FALSE) \in Items
    <3> DEFINE d == << 0 >>
    <3>1. d \in Seq(Int)
      OBVIOUS
    <3>2. Boolean(FALSE) = [type |-> "boolean", data |-> d]
      BY DEF Boolean, Scalar
    <3> HIDE DEF d
    <3>3. [type |-> "boolean", data |-> d] \in Items
      BY <3>1 DEF Items
    <3> QED
      BY <3>2, <3>3
  <2>2. \A b \in Items : <<b>> \in Seq(Items)
    OBVIOUS
  <2>3. result.kind = "scalar" /\ result.items = <<Boolean(FALSE)>>
    BY DEF Init, Value
  <2> QED
    BY <2>1, <2>2, <2>3
<1>6. /\ token = Undetermined /\ nextToken = Undetermined /\ val = Null /\ nextVal = Null
      /\ outcome = "parsing" /\ taken = FALSE /\ matched = Invalid
  BY DEF Init
<1>7. TypeOK
  <2>1. 0 \in 0..19 /\ 1..BINARY \subseteq AllTokens /\ Undetermined \in AllTokens
    BY Tokens DEF AllTokens
  <2>2. \A i \in DOMAIN lexemes : lexemes[i].token \in AllTokens
    BY <1>2, <1>3, <2>1
  <2>3. \A i \in DOMAIN stack : stack[i].state \in 0..19 /\ IsSemantic(stack[i].value)
    <3>1. \A i \in DOMAIN stack : i = 1
      BY <1>4
    <3> QED
      BY <1>4, <2>1, <3>1, Semantics
  <2>4. IsSemantic(val) /\ IsSemantic(nextVal)
    BY <1>6, Semantics
  <2> QED
    BY <1>4, <1>5, <1>6, <2>1, <2>2, <2>3, <2>4 DEF TypeOK
<1> QED
  BY <1>1, <1>2, <1>3, <1>7 DEF TypeInv

LEMMA PoppedTypes ==
  ASSUME TypeInv, PopToken
  PROVE  token' \in AllTokens /\ nextToken' \in AllTokens /\ IsSemantic(val') /\ IsSemantic(nextVal')
<1>1. Undetermined \in AllTokens
  BY DEF AllTokens
<1>2. nextToken \in AllTokens /\ IsSemantic(nextVal)
  BY DEF TypeInv, TypeOK
<1> QED
  BY <1>1, <1>2, Semantics DEF PopToken

LEMMA TypeNextToken == TypeInv /\ NextToken => TypeInv'
<1> SUFFICES ASSUME TypeInv, NextToken PROVE TypeInv'
  OBVIOUS
<1>1. /\ lexemes' = lexemes /\ stack' = stack /\ result' = result /\ outcome' = outcome /\ taken' = taken
      /\ IInv' /\ TypeOK /\ LexemesOK
  BY NextTokenStep DEF NextToken, TypeInv, IInv
<1>2. Eof \in AllTokens /\ 1..BINARY \subseteq AllTokens
  BY Tokens DEF AllTokens
<1>3. /\ token' \in AllTokens /\ nextToken' \in AllTokens /\ IsSemantic(val') /\ IsSemantic(nextVal)'
      /\ matched' \in Items \union {Invalid}
  <2>1. CASE nextToken # Undetermined
    <3>1. PopToken /\ matched' = matched
      BY <2>1 DEF NextToken
    <3> QED
      BY <1>1, <3>1, PoppedTypes DEF TypeOK
  <2>2. CASE nextToken = Undetermined
    <3>1. nextToken' = nextToken /\ val' = val /\ nextVal' = nextVal
      BY <2>2 DEF NextToken
    <3>2. CASE next > Len(lexemes)
      <4>1. token' = Eof /\ matched' = Invalid
        BY <2>2, <3>2 DEF NextToken
      <4> QED
        BY <1>1, <1>2, <3>1, <4>1 DEF TypeOK
    <3>3. CASE ~(next > Len(lexemes))
      <4>1. token' = lexemes[next].token /\ matched' = lexemes[next].scalar
        BY <2>2, <3>3 DEF NextToken
      <4>2. next \in 1..Len(lexemes)
        BY <1>1, <3>3 DEF LexemesOK
      <4>3. token' \in AllTokens /\ matched' \in Items \union {Invalid}
        BY <1>1, <1>2, <4>1, <4>2 DEF LexemesOK, TypeInv
      <4> QED
        BY <1>1, <3>1, <4>3 DEF TypeOK
    <3> QED
      BY <3>2, <3>3
  <2> QED
    BY <2>1, <2>2
<1>4. TypeOK'
  BY <1>1, <1>3 DEF TypeOK
<1> QED
  BY <1>1, <1>4 DEF TypeInv

LEMMA TypeShift == TypeInv /\ Shift => TypeInv'
<1> SUFFICES ASSUME TypeInv, Shift PROVE TypeInv'
  OBVIOUS
<1> DEFINE x == [state |-> Action, value |-> val]
<1>1. /\ lexemes' = lexemes /\ result' = result /\ outcome' = outcome /\ taken' = taken /\ matched' = matched
      /\ stack' = Append(stack, x) /\ outcome = "parsing" /\ PopToken
      /\ IInv' /\ TypeOK /\ IsPath(stack) /\ TokensOK
  BY ShiftStep DEF Shift, Ready, TypeInv, IInv
<1>2. Action \in 1..19
  BY <1>1, Actions DEF Shift
<1>3. x.state \in 0..19 /\ IsSemantic(x.value)
  <2>1. IsSemantic(val)
    BY <1>1 DEF TypeOK
  <2> QED
    BY <1>2, <2>1
<1>4. /\ Len(stack) \in Nat /\ DOMAIN stack = 1..Len(stack) /\ DOMAIN stack' = 1..(Len(stack) + 1)
      /\ stack'[Len(stack) + 1] = x /\ \A i \in 1..Len(stack) : stack'[i] = stack[i]
      /\ stack' # <<>>
  <2>1. stack \in Seq(Members(stack)) /\ DOMAIN stack = 1..Len(stack) /\ Len(stack) \in Nat
    BY <1>1, LenProperties DEF IsPath, IsList
  <2> HIDE DEF x
  <2>2. stack \in Seq(Members(stack) \union {x})
    BY <2>1, SeqMonotonic
  <2>3. /\ stack' \in Seq(Members(stack) \union {x}) /\ Len(stack') = Len(stack) + 1
        /\ stack'[Len(stack) + 1] = x /\ \A i \in 1..Len(stack) : stack'[i] = stack[i]
    BY <1>1, <2>1, <2>2, AppendProperties
  <2>4. DOMAIN stack' = 1..Len(stack')
    BY <2>3, LenProperties
  <2>5. stack' # <<>>
    BY <2>1, <2>3
  <2> QED
    BY <2>1, <2>3, <2>4, <2>5
<1> HIDE DEF x
<1>5. \A i \in DOMAIN stack' : stack'[i].state \in 0..19 /\ IsSemantic(stack'[i].value)
  <2> SUFFICES ASSUME NEW i \in 1..(Len(stack) + 1)
               PROVE  stack'[i].state \in 0..19 /\ IsSemantic(stack'[i].value)
    BY <1>4
  <2>1. CASE i \in 1..Len(stack)
    BY <1>1, <1>4, <2>1 DEF TypeOK
  <2>2. CASE i = Len(stack) + 1
    BY <1>3, <1>4, <2>2
  <2> QED
    BY <1>4, <2>1, <2>2
<1>6. TypeOK'
  BY <1>1, <1>4, <1>5, PoppedTypes DEF TypeOK
<1> QED
  BY <1>1, <1>6 DEF TypeInv

LEMMA TypeReduce == TypeInv /\ Reduce => TypeInv'
<1> SUFFICES ASSUME TypeInv, Reduce PROVE TypeInv'
  OBVIOUS
<1> DEFINE n == Len(stack)
<1>1. /\ lexemes' = lexemes /\ taken' = taken /\ matched' = matched /\ outcome = "parsing"
      /\ IInv' /\ TypeOK /\ IsPath(stack) /\ TokensOK
  BY ReduceStep DEF Reduce, Ready, TypeInv, IInv
<1>2. PICK p \in 1..14 : Action = -p /\ Handles(p, State) /\ token \notin Nonterminals
  BY <1>1, Actions DEF Reduce
<1>3. -Action = p
  BY <1>2
<1>4. CASE Throws(p)
  <2>1. /\ outcome' = "threw" /\ stack' = stack /\ token' = token /\ nextToken' = nextToken
        /\ val' = val /\ nextVal' = nextVal /\ result' = result
    BY <1>3, <1>4 DEF Reduce
  <2>2. TypeOK'
    BY <1>1, <2>1 DEF TypeOK
  <2> QED
    BY <1>1, <2>2 DEF TypeInv
<1>5. CASE ~Throws(p)
  <2> DEFINE m == n - Productions[p].size
  <2>1. /\ token = Undetermined => nextToken' = nextToken /\ nextVal' = nextVal
        /\ token # Undetermined => nextToken' = token /\ nextVal' = val
        /\ val' = Semantic(p) /\ token' = Productions[p].lhs
        /\ stack' = SubSeq(stack, 1, m) /\ outcome' = outcome
        /\ p \in 1..3 => result' = Value(CASE p = 1 -> "scalar" [] p = 2 -> "sequence" [] p = 3 -> "tuple", Vsp(0).data)
        /\ p \notin 1..3 => result' = result
    BY <1>3, <1>5 DEF Reduce
  <2>2. Productions[p].size \in 0..3 /\ n > Productions[p].size /\ n \in Nat
    BY <1>1, <1>2, Uncovered DEF State, IsPath
  <2>3. m \in 1..Len(stack) /\ \A i \in 1..m : i \in 1..n
    BY <2>2
  <2>4. DOMAIN stack = 1..n
    BY <1>1, LenProperties DEF IsPath, IsList
  <2>5. \A i \in 1..n : IsSemantic(stack[i].value) /\ stack[i].value.data \in Seq(Items)
    BY <1>1, <2>4 DEF TypeOK, IsSemantic
  <2> HIDE DEF m
  <2>6. stack' # <<>> /\ \A i \in DOMAIN stack' : stack'[i].state \in 0..19 /\ IsSemantic(stack'[i].value)
    <3>1. Len(stack') = m /\ \A i \in 1..m : stack'[i] = stack[i]
      BY <1>1, <2>1, <2>3, Kept
    <3>2. DOMAIN stack' = 1..m /\ stack' # <<>>
      <4>1. IsPath(stack')
        BY <1>1, <2>1 DEF IInv
      <4>2. stack' \in Seq(Members(stack')) /\ Len(stack') >= 1
        BY <4>1 DEF IsPath, IsList
      <4> QED
        BY <3>1, <4>2, LenProperties
    <3> QED
      BY <1>1, <2>3, <2>4, <3>1, <3>2 DEF TypeOK
  <2>7. /\ n >= 1 => Vsp(0).data \in Seq(Items) /\ IsSemantic(Vsp(0))
        /\ n > 1 => Vsp(-1).data \in Seq(Items)
        /\ n > 2 => Vsp(-2).data \in Seq(Items)
    <3>1. /\ n + 0 = n /\ n + (-1) = n - 1 /\ n + (-2) = n - 2
          /\ (n >= 1 => n \in 1..n) /\ (n > 1 => n - 1 \in 1..n) /\ (n > 2 => n - 2 \in 1..n)
      BY <2>2
    <3> QED
      BY <2>5, <3>1 DEF Vsp
  <2> HIDE DEF n
  <2>8. IsSemantic(Semantic(p))
    <3>1. CASE p \in 1..3 \/ p = 10
      <4>1. Semantic(p) = Vsp(0)
        BY <3>1 DEF Semantic
      <4> QED
        BY <2>2, <2>7, <4>1
    <3>2. CASE p \in 4..8
      <4>1. Semantic(p) = Scl(matched)
        BY <3>2 DEF Semantic
      <4>2. matched \in Items
        BY <1>1, <1>5, <3>2 DEF TypeOK, Throws
      <4> QED
        BY <4>1, <4>2, Semantics
    <3>3. CASE p = 9
      <4>1. Semantic(p) = GetSeq(val) /\ IsSemantic(val)
        BY <1>1, <3>3 DEF Semantic, TypeOK
      <4> QED
        BY <4>1, Semantics
    <3>4. CASE p = 11
      <4>1. Semantic(p) = Seq_(Vsp(0).data)
        BY <3>4 DEF Semantic
      <4> QED
        BY <2>2, <2>7, <4>1, Semantics
    <3>5. CASE p = 12
      <4>1. Semantic(p) = Seq_(Vsp(-2).data \o Vsp(0).data)
        BY <3>5 DEF Semantic
      <4>2. Productions[p].size = 3
        BY <3>5, Parts
      <4>3. Vsp(-2).data \in Seq(Items) /\ Vsp(0).data \in Seq(Items)
        BY <2>2, <2>7, <4>2
      <4>4. Vsp(-2).data \o Vsp(0).data \in Seq(Items)
        BY <4>3, ConcatProperties
      <4> QED
        BY <4>1, <4>4, Semantics
    <3>6. CASE p \in {13, 14}
      <4>1. Semantic(p) = Seq_(Vsp(-1).data)
        BY <3>6 DEF Semantic
      <4>2. Productions[p].size = 3
        BY <3>6, Parts
      <4> QED
        BY <2>2, <2>7, <4>1, <4>2, Semantics
    <3> QED
      BY <3>1, <3>2, <3>3, <3>4, <3>5, <3>6
  <2>9. token' \in AllTokens
    <3>1. Productions[p].lhs \in Nonterminals
      BY <1>1, <1>2, Made
    <3>2. Nonterminals \subseteq AllTokens
      BY Tokens DEF Nonterminals, SequenceTokens, AllTokens
    <3> QED
      BY <2>1, <3>1, <3>2
  <2>10. result'.kind \in {"scalar", "sequence", "tuple"} /\ result'.items \in Seq(Items)
    <3>1. CASE p \in 1..3
      <4>1. /\ result'.kind = (CASE p = 1 -> "scalar" [] p = 2 -> "sequence" [] p = 3 -> "tuple")
            /\ result'.items = Vsp(0).data
        BY <2>1, <3>1 DEF Value
      <4> QED
        BY <2>2, <2>7, <3>1, <4>1
    <3>2. CASE p \notin 1..3
      BY <1>1, <2>1, <3>2 DEF TypeOK
    <3> QED
      BY <3>1, <3>2
  <2>11. nextToken' \in AllTokens /\ IsSemantic(nextVal')
    BY <1>1, <2>1 DEF TypeOK
  <2>12. TypeOK'
    BY <1>1, <2>1, <2>6, <2>8, <2>9, <2>10, <2>11 DEF TypeOK
  <2> QED
    BY <1>1, <2>12 DEF TypeInv
<1> QED
  BY <1>4, <1>5

\* Everything has its type in every state, for any texts: semantic values are of
\* the three kinds of Semantic with scalars that have a value, also in an element
\* that is left on the stack when parse() has given up.
THEOREM TypeCorrect == Spec => []TypeOK
<1>1. TypeInv => TypeOK
  BY DEF TypeInv
<1>2. TypeInv /\ [Next]_vars => TypeInv'
  <2> SUFFICES ASSUME TypeInv, [Next]_vars PROVE TypeInv'
    OBVIOUS
  <2>1. CASE NextToken
    BY <2>1, TypeNextToken
  <2>2. CASE Shift
    BY <2>2, TypeShift
  <2>3. CASE Reduce
    BY <2>3, TypeReduce
  <2>4. IInv' /\ TypeOK
    BY StepOK DEF TypeInv
  <2>5. CASE Unexpected
    <3>1. /\ lexemes' = lexemes /\ matched' = matched /\ token' = token /\ nextToken' = nextToken
          /\ val' = val /\ nextVal' = nextVal /\ result' = result /\ taken' = taken
          /\ outcome' = "aborted" /\ stack' = <<stack[1]>> /\ outcome = "parsing"
      BY <2>5 DEF Unexpected, Ready
    <3>2. IsPath(stack)
      BY <3>1 DEF TypeInv, IInv
    <3>3. 1 \in DOMAIN stack
      <4>1. DOMAIN stack = 1..Len(stack) /\ Len(stack) \in Nat /\ Len(stack) >= 1
        BY <3>2, LenProperties DEF IsPath, IsList
      <4> QED
        BY <4>1
    <3> DEFINE x == stack[1]
    <3>4. x.state \in 0..19 /\ IsSemantic(x.value)
      BY <2>4, <3>3 DEF TypeOK
    <3> HIDE DEF x
    <3>5. stack' = <<x>>
      BY <3>1 DEF x
    <3>6. stack' # <<>> /\ stack'[1] = x /\ DOMAIN stack' = 1..1
      <4>1. IsList(<<x>>) /\ Len(<<x>>) = 1 /\ <<x>>[1] = x /\ <<x>> # <<>>
        BY OneReply
      <4>2. DOMAIN stack' = 1..Len(stack')
        BY <3>5, <4>1, LenProperties DEF IsList
      <4> QED
        BY <3>5, <4>1, <4>2
    <3>7. \A i \in DOMAIN stack' : stack'[i].state \in 0..19 /\ IsSemantic(stack'[i].value)
      <4>1. \A i \in DOMAIN stack' : i = 1
        BY <3>6
      <4> QED
        BY <3>4, <3>6, <4>1
    <3>8. TypeOK'
      BY <2>4, <3>1, <3>6, <3>7 DEF TypeOK
    <3> QED
      BY <2>4, <3>1, <3>8 DEF TypeInv
  <2>6. CASE Accepted \/ TakeResult \/ UNCHANGED vars
    <3>1. /\ lexemes' = lexemes /\ matched' = matched /\ token' = token /\ nextToken' = nextToken
          /\ val' = val /\ nextVal' = nextVal /\ result' = result /\ stack' = stack
          /\ outcome' \in {outcome, "accepted"} /\ taken' \in {taken, TRUE}
      BY <2>6 DEF Accepted, TakeResult, vars
    <3>2. outcome' \in {"parsing", "accepted", "aborted", "threw"} /\ taken' \in BOOLEAN
      BY <2>4, <3>1 DEF TypeOK
    <3>3. TypeOK'
      BY <2>4, <3>1, <3>2 DEF TypeOK
    <3> QED
      BY <2>4, <3>1, <3>3 DEF TypeInv
  <2> QED
    BY <2>1, <2>2, <2>3, <2>5, <2>6 DEF Next
<1> QED
  BY TypeInit, <1>1, <1>2, PTL DEF Spec

-----------------------------------------------------------------------------
(* Functions that are defined by recursion on a number *)

\* A non-empty set of naturals has a least element.
LEMMA LeastExists ==
  ASSUME NEW S \in SUBSET Nat, S # {}
  PROVE  \E m \in S : \A k \in S : m <= k
<1> DEFINE R == OpToRel(<, Nat)
<1>1. IsWellFoundedOn(R, Nat)
  BY NatLessThanWellFounded
<1>2. \A a, b \in Nat : a < b => <<a, b>> \in R
  BY DEF OpToRel
<1> HIDE DEF R
<1>3. PICK m \in S : \A k \in S : ~ (<<k, m>> \in R)
  BY <1>1, WFMin
<1>4. ASSUME NEW k \in S PROVE m <= k
  <2>1. k \in Nat /\ m \in Nat
    OBVIOUS
  <2>2. ~(k < m)
    BY <1>2, <1>3, <2>1
  <2> QED
    BY <2>1, <2>2
<1> QED
  BY <1>4

\* The automaton starts in state 0 and takes one character after the other.
LEMMA TraceFacts ==
  ASSUME NEW S, NEW x \in Seq(S), NEW n, n = Len(x)
  PROVE  /\ n \in Nat /\ DOMAIN Trace(x) = 0..(n + 1) /\ Trace(x)[0] = 0
         /\ \A i \in 1..(n + 1) : Trace(x)[i] = NextState(Trace(x)[i - 1], Get(x, i))
<1> DEFINE To(k, i, g) == IF i = 0 THEN 0 ELSE NextState(g[i - 1], Get(x, i))
           IsRun(k, g) == g = [i \in 0..k |-> To(k, i, g)]
           P(k) == \E g : IsRun(k, g)
           bad == {k \in Nat : ~P(k)}
<1>1. n \in Nat
  OBVIOUS
<1>2. P(0)
  <2> DEFINE g == [i \in 0..0 |-> 0]
  <2>1. g = [i \in 0..0 |-> To(0, i, g)]
    OBVIOUS
  <2> HIDE DEF g
  <2> QED
    BY <2>1
<1>3. ASSUME NEW k \in Nat, P(k) PROVE P(k + 1)
  <2>1. PICK g : IsRun(k, g)
    BY <1>3
  <2> DEFINE v == NextState(g[k], Get(x, k + 1))
             h == [i \in 0..(k + 1) |-> IF i = k + 1 THEN v ELSE g[i]]
  <2>2. ASSUME NEW i \in 0..(k + 1)
        PROVE  h[i] = To(k + 1, i, h)
    <3>1. \A j \in 0..k : g[j] = To(k, j, g)
      BY <2>1
    <3>2. CASE i = k + 1
      <4>1. h[i] = v /\ i # 0 /\ i - 1 = k /\ h[k] = g[k]
        BY <3>2
      <4> QED
        BY <4>1, <3>2
    <3>3. CASE i \in 0..k
      <4>1. h[i] = g[i] /\ i # k + 1
        BY <3>3
      <4>2. i # 0 => i - 1 \in 0..k /\ i - 1 # k + 1 /\ h[i - 1] = g[i - 1]
        BY <3>3
      <4> HIDE DEF h
      <4> QED
        BY <4>1, <4>2, <3>1, <3>3
    <3> QED
      BY <3>2, <3>3
  <2>3. h = [i \in 0..(k + 1) |-> To(k + 1, i, h)]
    BY <2>2
  <2> HIDE DEF h
  <2>4. IsRun(k + 1, h)
    BY <2>3
  <2> QED
    BY <2>4
<1>4. bad = {}
  <2> SUFFICES ASSUME bad # {} PROVE FALSE
    OBVIOUS
  <2> HIDE DEF P
  <2>1. PICK m \in bad : \A k \in bad : m <= k
    BY LeastExists
  <2>2. m # 0 /\ m - 1 \in Nat /\ ~(m <= m - 1) /\ (m - 1) + 1 = m
    BY <1>2
  <2>3. P(m - 1)
    BY <2>1, <2>2
  <2> QED
    BY <1>3, <2>2, <2>3
<1>5. PICK g : IsRun(n + 1, g)
  <2>1. n + 1 \in Nat
    BY <1>1
  <2> HIDE DEF P
  <2>2. P(n + 1)
    BY <1>4, <2>1
  <2> QED
    BY <2>2 DEF P
<1> DEFINE w == CHOOSE f : IsRun(n + 1, f)
<1>6. IsRun(n + 1, w) /\ Trace(x) = w
  BY <1>5 DEF Trace
<1> HIDE DEF w
<1>7. DOMAIN w = 0..(n + 1) /\ \A i \in 0..(n + 1) : w[i] = To(n + 1, i, w)
  BY <1>6
<1> HIDE DEF IsRun
<1>8. 0 \in 0..(n + 1) /\ w[0] = 0
  BY <1>1, <1>7
<1>9. \A i \in 1..(n + 1) : w[i] = NextState(w[i - 1], Get(x, i))
  <2>1. \A i \in 1..(n + 1) : i \in 0..(n + 1) /\ i # 0
    BY <1>1
  <2> QED
    BY <1>7, <2>1
<1> QED
  BY <1>1, <1>6, <1>7, <1>8, <1>9

\* A character is escaped by a backslash before it that is not.
LEMMA EscapeFacts ==
  ASSUME NEW S, NEW x \in Seq(S), NEW n, n = Len(x)
  PROVE  \A i \in 1..n : FollowsBackslash(x)[i] <=> i > 1 /\ x[i - 1] = Backslash /\ ~FollowsBackslash(x)[i - 1]
<1> DEFINE Step(i, b) == i > 1 /\ x[i - 1] = Backslash /\ ~b
           IsRun(k, g) == g = [i \in 1..k |-> Step(i, g[i - 1])]
           P(k) == \E g : IsRun(k, g)
           bad == {k \in Nat : ~P(k)}
<1>1. n \in Nat /\ DOMAIN x = 1..n
  BY LenProperties
<1>0. \A f : IsRun(n, f) <=> f = [i \in DOMAIN x |-> i > 1 /\ x[i - 1] = Backslash /\ ~f[i - 1]]
  BY <1>1
<1> HIDE DEF Step
<1>2. P(0)
  <2> DEFINE g == [i \in 1..0 |-> 0]
  <2>1. g = [i \in 1..0 |-> Step(i, g[i - 1])]
    OBVIOUS
  <2> HIDE DEF g
  <2> QED
    BY <2>1
<1>3. ASSUME NEW k \in Nat, P(k) PROVE P(k + 1)
  <2>1. PICK g : IsRun(k, g)
    BY <1>3
  <2> DEFINE v == Step(k + 1, g[k])
             h == [i \in 1..(k + 1) |-> IF i = k + 1 THEN v ELSE g[i]]
  <2> HIDE DEF v
  <2>0. DOMAIN g = 1..k /\ \A j \in 1..k : g[j] = Step(j, g[j - 1])
    BY <2>1
  <2>1a. DOMAIN h = 1..(k + 1) /\ h[k + 1] = v /\ \A j \in 1..k : h[j] = g[j]
    OBVIOUS
  <2> HIDE DEF h
  <2>2. ASSUME NEW i \in 1..(k + 1)
        PROVE  h[i] = Step(i, h[i - 1])
    <3>1. CASE i = k + 1 /\ k # 0
      <4>1. i - 1 = k /\ h[k] = g[k]
        BY <2>1a, <3>1
      <4> QED
        BY <2>1a, <3>1, <4>1 DEF v
    <3>2. CASE i \in 2..k
      <4>1. i \in 1..k /\ i - 1 \in 1..k
        BY <3>2
      <4>2. h[i] = g[i] /\ h[i - 1] = g[i - 1]
        BY <2>1a, <4>1
      <4> QED
        BY <2>0, <4>1, <4>2
    <3>3. CASE i = 1
      <4>1. \A b, c : Step(1, b) = Step(1, c)
        <5>1. \A b : Step(1, b) = FALSE
          BY DEF Step
        <5> QED
          BY <5>1
      <4>2. h[1] = Step(1, g[0])
        <5>1. CASE k = 0
          BY <2>1a, <5>1 DEF v
        <5>2. CASE k # 0
          <6>1. 1 \in 1..k /\ 1 - 1 = 0
            BY <5>2
          <6> QED
            BY <2>0, <2>1a, <6>1
        <5> QED
          BY <5>1, <5>2
      <4> QED
        BY <3>3, <4>1, <4>2
    <3> QED
      BY <3>1, <3>2, <3>3
  <2>3. h = [i \in 1..(k + 1) |-> Step(i, h[i - 1])]
    <3>1. h = [i \in 1..(k + 1) |-> h[i]]
      BY <2>1a DEF h
    <3> QED
      BY <2>2, <3>1
  <2>4. IsRun(k + 1, h)
    BY <2>3
  <2> QED
    BY <2>4
<1>4. bad = {}
  <2> SUFFICES ASSUME bad # {} PROVE FALSE
    OBVIOUS
  <2> HIDE DEF P
  <2>1. PICK m \in bad : \A k \in bad : m <= k
    BY LeastExists
  <2>2. m # 0 /\ m - 1 \in Nat /\ ~(m <= m - 1) /\ (m - 1) + 1 = m
    BY <1>2
  <2>3. P(m - 1)
    BY <2>1, <2>2
  <2> QED
    BY <1>3, <2>2, <2>3
<1>5. \E g : IsRun(n, g)
  <2> HIDE DEF P
  <2>1. P(n)
    BY <1>1, <1>4
  <2> QED
    BY <2>1 DEF P
<1> DEFINE w == CHOOSE f : IsRun(n, f)
<1>6. IsRun(n, w)
  BY <1>5
<1>7. FollowsBackslash(x) = w
  <2> DEFINE C(f) == f = [i \in DOMAIN x |-> i > 1 /\ x[i - 1] = Backslash /\ ~f[i - 1]]
  <2>1. FollowsBackslash(x) = CHOOSE f : C(f)
    BY DEF FollowsBackslash
  <2>2. \A f : IsRun(n, f) <=> C(f)
    BY <1>0
  <2> HIDE DEF C, IsRun
  <2> QED
    BY <2>1, <2>2
<1> HIDE DEF w
<1>8. \A i \in 1..n : w[i] = Step(i, w[i - 1])
  BY <1>6
<1> HIDE DEF IsRun
<1>9. ASSUME NEW i \in 1..n
      PROVE  w[i] <=> i > 1 /\ x[i - 1] = Backslash /\ ~w[i - 1]
  <2>1. w[i] = Step(i, w[i - 1])
    BY <1>8
  <2>2. Step(i, w[i - 1]) <=> i > 1 /\ x[i - 1] = Backslash /\ ~w[i - 1]
    BY DEF Step
  <2> QED
    BY <2>1, <2>2, Zenon
<1> QED
  BY <1>7, <1>9, Zenon

-----------------------------------------------------------------------------
(* The automaton of the scanner and its languages *)

LEMMA OneMove ==
  ASSUME NEW s \in 0..15, NEW c, NEW m \in Moves[s], c \in m[1],
         \A k \in Moves[s] : c \in k[1] => k[2] = m[2]
  PROVE  NextState(s, c) = m[2]
<1> DEFINE moves == {k \in Moves[s] : c \in k[1]}
<1>1. s # Dead
  BY DEF Dead
<1>2. m \in moves /\ \A k \in moves : k[2] = m[2]
  OBVIOUS
<1>3. moves # {} /\ NextState(s, c) = (CHOOSE k \in moves : TRUE)[2]
  BY <1>1, <1>2 DEF NextState
<1> HIDE DEF moves
<1>4. (CHOOSE k \in moves : TRUE) \in moves
  BY <1>2
<1> QED
  BY <1>2, <1>3, <1>4

LEMMA NoMove ==
  ASSUME NEW s \in 0..15, NEW c, \A k \in Moves[s] : c \notin k[1]
  PROVE  NextState(s, c) = Dead
<1>1. {k \in Moves[s] : c \in k[1]} = {}
  OBVIOUS
<1>2. s # Dead
  BY DEF Dead
<1> QED
  BY <1>1, <1>2, Zenon DEF NextState

\* The moves of the automaton, each class of characters with its state.
Special == Blanks \union Digits \union {Quote, Hash, Ampersand, Minus, Dot}
InStringOrEnd(c) ==
  IF c = Quote THEN 10 ELSE IF c = Backslash THEN 11 ELSE IF c \in Scanned THEN 9 ELSE Dead
InNumber(c) == IF c = Dot THEN 7 ELSE IF c \in Digits THEN 8 ELSE Dead
AtStart(c) ==
  IF c \in Blanks THEN 1 ELSE IF c = Quote THEN 3 ELSE IF c = Hash THEN 4
  ELSE IF c = Ampersand THEN 5 ELSE IF c = Minus THEN 6 ELSE IF c = Dot THEN 7
  ELSE IF c \in Digits THEN 8 ELSE IF c \in Scanned THEN 2 ELSE Dead

LEMMA MovesFrom ==
  /\ Moves[0] = {<<Blanks, 1>>, <<Scanned \ Special, 2>>, <<{Quote}, 3>>, <<{Hash}, 4>>,
                 <<{Ampersand}, 5>>, <<{Minus}, 6>>, <<{Dot}, 7>>, <<Digits, 8>>}
  /\ Moves[1] = {<<Blanks, 1>>}
  /\ \A s \in {3, 9} :
       Moves[s] = {<<{Quote}, 10>>, <<{Backslash}, 11>>, <<Scanned \ {Quote, Backslash}, 9>>}
  /\ Moves[4] = {<<Truths, 12>>}
  /\ Moves[5] = {<<Base64 \union {Equal}, 5>>}
  /\ \A s \in {6, 8} : Moves[s] = {<<{Dot}, 7>>, <<Digits, 8>>}
  /\ Moves[7] = {<<Digits, 7>>, <<Exponents, 13>>}
  /\ Moves[11] = {<<Scanned, 9>>}
  /\ Moves[13] = {<<{Minus}, 14>>, <<Digits, 15>>}
  /\ \A s \in {14, 15} : Moves[s] = {<<Digits, 15>>}
  /\ \A s \in {2, 10, 12} : Moves[s] = {}
<1>0. \A s \in {0, 1, 2, 3, 4, 5, 6, 7, 8, 9, 10, 11, 12, 13, 14, 15} : s \in 0..15
  OBVIOUS
<1>1. Moves[0] = {<<Blanks, 1>>, <<Scanned \ Special, 2>>, <<{Quote}, 3>>, <<{Hash}, 4>>,
                  <<{Ampersand}, 5>>, <<{Minus}, 6>>} \union {<<{Dot}, 7>>, <<Digits, 8>>}
  BY <1>0 DEF Moves, Special
<1>2. Moves[1] = {<<Blanks, 1>>}
  BY <1>0 DEF Moves
<1>3. \A s \in {3, 9} :
        Moves[s] = {<<{Quote}, 10>>, <<{Backslash}, 11>>, <<Scanned \ {Quote, Backslash}, 9>>}
  BY <1>0 DEF Moves
<1>4. Moves[4] = {<<Truths, 12>>} /\ Moves[5] = {<<Base64 \union {Equal}, 5>>}
  BY <1>0 DEF Moves
<1>5. \A s \in {6, 8} : Moves[s] = {<<{Dot}, 7>>, <<Digits, 8>>}
  BY <1>0 DEF Moves
<1>6. Moves[7] = {<<Digits, 7>>, <<Exponents, 13>>} /\ Moves[11] = {<<Scanned, 9>>}
  BY <1>0 DEF Moves
<1>7. Moves[13] = {<<{Minus}, 14>>, <<Digits, 15>>} /\ \A s \in {14, 15} : Moves[s] = {<<Digits, 15>>}
  BY <1>0 DEF Moves
<1>8. \A s \in {2, 10, 12} : Moves[s] = {}
  BY <1>0 DEF Moves
<1> QED
  BY <1>1, <1>2, <1>3, <1>4, <1>5, <1>6, <1>7, <1>8

\* A character that fits one class of characters, and all that fit lead to t.
LeadsTo(s, c, P, t) ==
  <<P, t>> \in Moves[s] /\ c \in P /\ \A k \in Moves[s] : c \in k[1] => k[2] = t

LEMMA MoveOf ==
  ASSUME NEW s \in 0..15, NEW c, NEW P, NEW t, LeadsTo(s, c, P, t)
  PROVE  NextState(s, c) = t
<1> DEFINE m == <<P, t>>
<1>1. m \in Moves[s] /\ m[1] = P /\ m[2] = t /\ \A k \in Moves[s] : c \in k[1] => k[2] = t
  BY DEF LeadsTo
<1>2. c \in P
  BY DEF LeadsTo
<1> HIDE DEF m
<1> QED
  BY <1>1, <1>2, OneMove

\* The first character.
LEMMA FromStart ==
  ASSUME NEW c \in Int
  PROVE  NextState(0, c) = AtStart(c)
<1> USE DEF Blanks, Digits, Base64, Exponents, Truths, Scanned, Special,
             Quote, Hash, Ampersand, Minus, Dot, Equal, Backslash
<1>0. 0 \in 0..15
  OBVIOUS
<1>1. Moves[0] = {<<Blanks, 1>>, <<(Scanned \ Special), 2>>, <<{Quote}, 3>>, <<{Hash}, 4>>,
               <<{Ampersand}, 5>>, <<{Minus}, 6>>, <<{Dot}, 7>>, <<Digits, 8>>}
  BY MovesFrom
<1>2. CASE c \in Blanks
  <2>1. LeadsTo(0, c, Blanks, 1)
    BY <1>1, <1>2 DEF LeadsTo
  <2>2. NextState(0, c) = 1
    BY <1>0, <2>1, MoveOf
  <2> QED
    BY <1>2, <2>2 DEF AtStart
<1>3. CASE c \in Scanned \ Special
  <2>1. LeadsTo(0, c, (Scanned \ Special), 2)
    BY <1>1, <1>3 DEF LeadsTo
  <2>2. NextState(0, c) = 2
    BY <1>0, <2>1, MoveOf
  <2> QED
    BY <1>3, <2>2 DEF AtStart
<1>4. CASE c = Quote
  <2>1. LeadsTo(0, c, {Quote}, 3)
    BY <1>1, <1>4 DEF LeadsTo
  <2>2. NextState(0, c) = 3
    BY <1>0, <2>1, MoveOf
  <2> QED
    BY <1>4, <2>2 DEF AtStart
<1>5. CASE c = Hash
  <2>1. LeadsTo(0, c, {Hash}, 4)
    BY <1>1, <1>5 DEF LeadsTo
  <2>2. NextState(0, c) = 4
    BY <1>0, <2>1, MoveOf
  <2> QED
    BY <1>5, <2>2 DEF AtStart
<1>6. CASE c = Ampersand
  <2>1. LeadsTo(0, c, {Ampersand}, 5)
    BY <1>1, <1>6 DEF LeadsTo
  <2>2. NextState(0, c) = 5
    BY <1>0, <2>1, MoveOf
  <2> QED
    BY <1>6, <2>2 DEF AtStart
<1>7. CASE c = Minus
  <2>1. LeadsTo(0, c, {Minus}, 6)
    BY <1>1, <1>7 DEF LeadsTo
  <2>2. NextState(0, c) = 6
    BY <1>0, <2>1, MoveOf
  <2> QED
    BY <1>7, <2>2 DEF AtStart
<1>8. CASE c = Dot
  <2>1. LeadsTo(0, c, {Dot}, 7)
    BY <1>1, <1>8 DEF LeadsTo
  <2>2. NextState(0, c) = 7
    BY <1>0, <2>1, MoveOf
  <2> QED
    BY <1>8, <2>2 DEF AtStart
<1>9. CASE c \in Digits
  <2>1. LeadsTo(0, c, Digits, 8)
    BY <1>1, <1>9 DEF LeadsTo
  <2>2. NextState(0, c) = 8
    BY <1>0, <2>1, MoveOf
  <2> QED
    BY <1>9, <2>2 DEF AtStart
<1>10. CASE ~(c \in Blanks) /\ ~(c \in Scanned \ Special) /\ ~(c = Quote) /\ ~(c = Hash)
            /\ ~(c = Ampersand) /\ ~(c = Minus) /\ ~(c = Dot) /\ ~(c \in Digits)
  <2>1. \A k \in Moves[0] : c \notin k[1]
    BY <1>1, <1>10
  <2>2. NextState(0, c) = Dead
    BY <1>0, <2>1, NoMove
  <2> QED
    BY <1>10, <2>2 DEF AtStart
<1> QED
  BY <1>2, <1>3, <1>4, <1>5, <1>6, <1>7, <1>8, <1>9, <1>10

\* In a string, behind what is not an escaping backslash.
LEMMA FromString ==
  ASSUME NEW s \in {3, 9}, NEW c \in Int
  PROVE  NextState(s, c) = InStringOrEnd(c)
<1> USE DEF Blanks, Digits, Base64, Exponents, Truths, Scanned, Special,
             Quote, Hash, Ampersand, Minus, Dot, Equal, Backslash
<1>0. s \in 0..15
  OBVIOUS
<1>1. Moves[s] = {<<{Quote}, 10>>, <<{Backslash}, 11>>, <<(Scanned \ {Quote, Backslash}), 9>>}
  BY MovesFrom
<1>2. CASE c = Quote
  <2>1. LeadsTo(s, c, {Quote}, 10)
    BY <1>1, <1>2 DEF LeadsTo
  <2>2. NextState(s, c) = 10
    BY <1>0, <2>1, MoveOf
  <2> QED
    BY <1>2, <2>2 DEF InStringOrEnd
<1>3. CASE c = Backslash
  <2>1. LeadsTo(s, c, {Backslash}, 11)
    BY <1>1, <1>3 DEF LeadsTo
  <2>2. NextState(s, c) = 11
    BY <1>0, <2>1, MoveOf
  <2> QED
    BY <1>3, <2>2 DEF InStringOrEnd
<1>4. CASE c \in Scanned \ {Quote, Backslash}
  <2>1. LeadsTo(s, c, (Scanned \ {Quote, Backslash}), 9)
    BY <1>1, <1>4 DEF LeadsTo
  <2>2. NextState(s, c) = 9
    BY <1>0, <2>1, MoveOf
  <2> QED
    BY <1>4, <2>2 DEF InStringOrEnd
<1>5. CASE ~(c = Quote) /\ ~(c = Backslash) /\ ~(c \in Scanned \ {Quote, Backslash})
  <2>1. \A k \in Moves[s] : c \notin k[1]
    BY <1>1, <1>5
  <2>2. NextState(s, c) = Dead
    BY <1>0, <2>1, NoMove
  <2> QED
    BY <1>5, <2>2 DEF InStringOrEnd
<1> QED
  BY <1>2, <1>3, <1>4, <1>5

\* In an integer or behind its sign.
LEMMA FromInteger ==
  ASSUME NEW s \in {6, 8}, NEW c \in Int
  PROVE  NextState(s, c) = InNumber(c)
<1> USE DEF Blanks, Digits, Base64, Exponents, Truths, Scanned, Special,
             Quote, Hash, Ampersand, Minus, Dot, Equal, Backslash
<1>0. s \in 0..15
  OBVIOUS
<1>1. Moves[s] = {<<{Dot}, 7>>, <<Digits, 8>>}
  BY MovesFrom
<1>2. CASE c = Dot
  <2>1. LeadsTo(s, c, {Dot}, 7)
    BY <1>1, <1>2 DEF LeadsTo
  <2>2. NextState(s, c) = 7
    BY <1>0, <2>1, MoveOf
  <2> QED
    BY <1>2, <2>2 DEF InNumber
<1>3. CASE c \in Digits
  <2>1. LeadsTo(s, c, Digits, 8)
    BY <1>1, <1>3 DEF LeadsTo
  <2>2. NextState(s, c) = 8
    BY <1>0, <2>1, MoveOf
  <2> QED
    BY <1>3, <2>2 DEF InNumber
<1>4. CASE ~(c = Dot) /\ ~(c \in Digits)
  <2>1. \A k \in Moves[s] : c \notin k[1]
    BY <1>1, <1>4
  <2>2. NextState(s, c) = Dead
    BY <1>0, <2>1, NoMove
  <2> QED
    BY <1>4, <2>2 DEF InNumber
<1> QED
  BY <1>2, <1>3, <1>4

\* Behind the point of a real.
LEMMA FromFraction ==
  ASSUME NEW c \in Int
  PROVE  NextState(7, c) = IF c \in Digits THEN 7 ELSE IF c \in Exponents THEN 13 ELSE Dead
<1> USE DEF Blanks, Digits, Base64, Exponents, Truths, Scanned, Special,
             Quote, Hash, Ampersand, Minus, Dot, Equal, Backslash
<1>0. 7 \in 0..15
  OBVIOUS
<1>1. Moves[7] = {<<Digits, 7>>, <<Exponents, 13>>}
  BY MovesFrom
<1>2. CASE c \in Digits
  <2>1. LeadsTo(7, c, Digits, 7)
    BY <1>1, <1>2 DEF LeadsTo
  <2>2. NextState(7, c) = 7
    BY <1>0, <2>1, MoveOf
  <2> QED
    BY <1>2, <2>2
<1>3. CASE c \in Exponents
  <2>1. LeadsTo(7, c, Exponents, 13)
    BY <1>1, <1>3 DEF LeadsTo
  <2>2. NextState(7, c) = 13
    BY <1>0, <2>1, MoveOf
  <2> QED
    BY <1>3, <2>2
<1>4. CASE ~(c \in Digits) /\ ~(c \in Exponents)
  <2>1. \A k \in Moves[7] : c \notin k[1]
    BY <1>1, <1>4
  <2>2. NextState(7, c) = Dead
    BY <1>0, <2>1, NoMove
  <2> QED
    BY <1>4, <2>2
<1> QED
  BY <1>2, <1>3, <1>4

\* Behind the letter of an exponent.
LEMMA FromExponent ==
  ASSUME NEW c \in Int
  PROVE  NextState(13, c) = IF c = Minus THEN 14 ELSE IF c \in Digits THEN 15 ELSE Dead
<1> USE DEF Blanks, Digits, Base64, Exponents, Truths, Scanned, Special,
             Quote, Hash, Ampersand, Minus, Dot, Equal, Backslash
<1>0. 13 \in 0..15
  OBVIOUS
<1>1. Moves[13] = {<<{Minus}, 14>>, <<Digits, 15>>}
  BY MovesFrom
<1>2. CASE c = Minus
  <2>1. LeadsTo(13, c, {Minus}, 14)
    BY <1>1, <1>2 DEF LeadsTo
  <2>2. NextState(13, c) = 14
    BY <1>0, <2>1, MoveOf
  <2> QED
    BY <1>2, <2>2
<1>3. CASE c \in Digits
  <2>1. LeadsTo(13, c, Digits, 15)
    BY <1>1, <1>3 DEF LeadsTo
  <2>2. NextState(13, c) = 15
    BY <1>0, <2>1, MoveOf
  <2> QED
    BY <1>3, <2>2
<1>4. CASE ~(c = Minus) /\ ~(c \in Digits)
  <2>1. \A k \in Moves[13] : c \notin k[1]
    BY <1>1, <1>4
  <2>2. NextState(13, c) = Dead
    BY <1>0, <2>1, NoMove
  <2> QED
    BY <1>4, <2>2
<1> QED
  BY <1>2, <1>3, <1>4

\* In an exponent.
LEMMA FromDigits ==
  ASSUME NEW s \in {14, 15}, NEW c \in Int
  PROVE  NextState(s, c) = IF c \in Digits THEN 15 ELSE Dead
<1> USE DEF Blanks, Digits, Base64, Exponents, Truths, Scanned, Special,
             Quote, Hash, Ampersand, Minus, Dot, Equal, Backslash
<1>0. s \in 0..15
  OBVIOUS
<1>1. Moves[s] = {<<Digits, 15>>}
  BY MovesFrom
<1>2. CASE c \in Digits
  <2>1. LeadsTo(s, c, Digits, 15)
    BY <1>1, <1>2 DEF LeadsTo
  <2>2. NextState(s, c) = 15
    BY <1>0, <2>1, MoveOf
  <2> QED
    BY <1>2, <2>2
<1>3. CASE ~(c \in Digits)
  <2>1. \A k \in Moves[s] : c \notin k[1]
    BY <1>1, <1>3
  <2>2. NextState(s, c) = Dead
    BY <1>0, <2>1, NoMove
  <2> QED
    BY <1>3, <2>2
<1> QED
  BY <1>2, <1>3

\* In blanks.
LEMMA FromBlanks ==
  ASSUME NEW c \in Int
  PROVE  NextState(1, c) = IF c \in Blanks THEN 1 ELSE Dead
<1> USE DEF Blanks, Digits, Base64, Exponents, Truths, Scanned, Special,
             Quote, Hash, Ampersand, Minus, Dot, Equal, Backslash
<1>0. 1 \in 0..15
  OBVIOUS
<1>1. Moves[1] = {<<Blanks, 1>>}
  BY MovesFrom
<1>2. CASE c \in Blanks
  <2>1. LeadsTo(1, c, Blanks, 1)
    BY <1>1, <1>2 DEF LeadsTo
  <2>2. NextState(1, c) = 1
    BY <1>0, <2>1, MoveOf
  <2> QED
    BY <1>2, <2>2
<1>3. CASE ~(c \in Blanks)
  <2>1. \A k \in Moves[1] : c \notin k[1]
    BY <1>1, <1>3
  <2>2. NextState(1, c) = Dead
    BY <1>0, <2>1, NoMove
  <2> QED
    BY <1>3, <2>2
<1> QED
  BY <1>2, <1>3

\* Behind a hash.
LEMMA FromHash ==
  ASSUME NEW c \in Int
  PROVE  NextState(4, c) = IF c \in Truths THEN 12 ELSE Dead
<1> USE DEF Blanks, Digits, Base64, Exponents, Truths, Scanned, Special,
             Quote, Hash, Ampersand, Minus, Dot, Equal, Backslash
<1>0. 4 \in 0..15
  OBVIOUS
<1>1. Moves[4] = {<<Truths, 12>>}
  BY MovesFrom
<1>2. CASE c \in Truths
  <2>1. LeadsTo(4, c, Truths, 12)
    BY <1>1, <1>2 DEF LeadsTo
  <2>2. NextState(4, c) = 12
    BY <1>0, <2>1, MoveOf
  <2> QED
    BY <1>2, <2>2
<1>3. CASE ~(c \in Truths)
  <2>1. \A k \in Moves[4] : c \notin k[1]
    BY <1>1, <1>3
  <2>2. NextState(4, c) = Dead
    BY <1>0, <2>1, NoMove
  <2> QED
    BY <1>3, <2>2
<1> QED
  BY <1>2, <1>3

\* In a binary.
LEMMA FromBinary ==
  ASSUME NEW c \in Int
  PROVE  NextState(5, c) = IF c \in Base64 \union {Equal} THEN 5 ELSE Dead
<1> USE DEF Blanks, Digits, Base64, Exponents, Truths, Scanned, Special,
             Quote, Hash, Ampersand, Minus, Dot, Equal, Backslash
<1>0. 5 \in 0..15
  OBVIOUS
<1>1. Moves[5] = {<<(Base64 \union {Equal}), 5>>}
  BY MovesFrom
<1>2. CASE c \in Base64 \union {Equal}
  <2>1. LeadsTo(5, c, (Base64 \union {Equal}), 5)
    BY <1>1, <1>2 DEF LeadsTo
  <2>2. NextState(5, c) = 5
    BY <1>0, <2>1, MoveOf
  <2> QED
    BY <1>2, <2>2
<1>3. CASE ~(c \in Base64 \union {Equal})
  <2>1. \A k \in Moves[5] : c \notin k[1]
    BY <1>1, <1>3
  <2>2. NextState(5, c) = Dead
    BY <1>0, <2>1, NoMove
  <2> QED
    BY <1>3, <2>2
<1> QED
  BY <1>2, <1>3

\* Behind a backslash that escapes.
LEMMA FromBackslash ==
  ASSUME NEW c \in Int
  PROVE  NextState(11, c) = IF c \in Scanned THEN 9 ELSE Dead
<1> USE DEF Blanks, Digits, Base64, Exponents, Truths, Scanned, Special,
             Quote, Hash, Ampersand, Minus, Dot, Equal, Backslash
<1>0. 11 \in 0..15
  OBVIOUS
<1>1. Moves[11] = {<<Scanned, 9>>}
  BY MovesFrom
<1>2. CASE c \in Scanned
  <2>1. LeadsTo(11, c, Scanned, 9)
    BY <1>1, <1>2 DEF LeadsTo
  <2>2. NextState(11, c) = 9
    BY <1>0, <2>1, MoveOf
  <2> QED
    BY <1>2, <2>2
<1>3. CASE ~(c \in Scanned)
  <2>1. \A k \in Moves[11] : c \notin k[1]
    BY <1>1, <1>3
  <2>2. NextState(11, c) = Dead
    BY <1>0, <2>1, NoMove
  <2> QED
    BY <1>3, <2>2
<1> QED
  BY <1>2, <1>3

\* Where nothing follows.
LEMMA FromEnd ==
  ASSUME NEW s \in {Dead, 2, 10, 12}, NEW c
  PROVE  NextState(s, c) = Dead
<1>1. CASE s = Dead
  BY <1>1, Zenon DEF NextState
<1>2. CASE s \in {2, 10, 12}
  <2>1. s \in 0..15 /\ Moves[s] = {}
    BY <1>2, MovesFrom
  <2> QED
    BY <2>1, NoMove
<1> QED
  BY <1>1, <1>2

\* The languages of the states, for the first n characters of an input.
AllFrom(x, a, n, chars) == \A i \in a..n : x[i] \in chars
Sign(x, a) == IF x[a] = Minus THEN 1 ELSE 0
\* Digits from a to n, behind a sign maybe.
Number(x, a, n) == a + Sign(x, a) <= n /\ AllFrom(x, a + Sign(x, a), n, Digits)
\* Digits, a point at i, digits.
Pointed(x, n, i) ==
  /\ i \in 1..n /\ x[i] = Dot
  /\ AllFrom(x, 1 + Sign(x, 1), i - 1, Digits) /\ AllFrom(x, i + 1, n, Digits)
Fixed(x, n) == \E i \in 1..n : Pointed(x, n, i)
ToExponent(x, n) == n > 1 /\ Fixed(x, n - 1) /\ x[n] \in Exponents
ToSign(x, n) == n > 1 /\ ToExponent(x, n - 1) /\ x[n] = Minus
Scientific(x, n) == \E k \in 1..n : ToExponent(x, k) /\ Number(x, k + 1, n)
Taken(x, i) == FollowsBackslash(x)[i]
\* A string that is not closed, and one where a backslash is the last character.
Unclosed(x, n) ==
  /\ n > 0 /\ x[1] = Quote
  /\ \A i \in 2..n : x[i] \in Scanned /\ (x[i] = Quote => Taken(x, i))
Pending(x, n) == x[n] = Backslash /\ ~Taken(x, n)
Closed(x, n) == n > 1 /\ Unclosed(x, n - 1) /\ x[n] = Quote /\ ~Pending(x, n - 1)
Bytes(x, n) == n > 0 /\ x[1] = Ampersand /\ AllFrom(x, 2, n, Base64 \union {Equal})
Blank(x, n) == n > 0 /\ AllFrom(x, 1, n, Blanks)
Truth(x, n) == n = 2 /\ x[1] = Hash /\ x[2] \in Truths
One(x, n, chars) == n = 1 /\ x[1] \in chars

\* What characters go on with a language.
LEMMA BlankGoesOn ==
  ASSUME NEW x, NEW n \in Nat
  PROVE  Blank(x, n + 1) <=> x[n + 1] \in Blanks /\ (n = 0 \/ Blank(x, n))
<1>1. 1..(n + 1) = (1..n) \union {n + 1}
  OBVIOUS
<1> QED
  BY <1>1 DEF Blank, AllFrom

LEMMA BytesGoOn ==
  ASSUME NEW x, NEW n \in Nat
  PROVE  Bytes(x, n + 1) <=> \/ n = 0 /\ x[1] = Ampersand
                             \/ Bytes(x, n) /\ x[n + 1] \in Base64 \union {Equal}
<1>1. n > 0 => 2..(n + 1) = (2..n) \union {n + 1}
  OBVIOUS
<1>2. n = 0 => 2..(n + 1) = {}
  OBVIOUS
<1> HIDE DEF Base64
<1> QED
  BY <1>1, <1>2 DEF Bytes, AllFrom

LEMMA NumberGoesOn ==
  ASSUME NEW x, NEW a \in Nat, NEW n \in Nat, n >= a
  PROVE  Number(x, a, n + 1) <=> x[n + 1] \in Digits /\ ((n = a /\ x[a] = Minus) \/ Number(x, a, n))
<1> DEFINE b == a + Sign(x, a)
<1>1. b \in Nat /\ b \in a..(a + 1) /\ (x[a] = Minus <=> b = a + 1)
  BY DEF Sign
<1>2. b <= n => b..(n + 1) = (b..n) \union {n + 1}
  BY <1>1
<1>3. b = n + 1 => b..(n + 1) = {n + 1} /\ n = a
  BY <1>1
<1>4. Number(x, a, n) <=> b <= n /\ AllFrom(x, b, n, Digits)
  BY DEF Number
<1>5. Number(x, a, n + 1) <=> b <= n + 1 /\ AllFrom(x, b, n + 1, Digits)
  BY DEF Number
<1> HIDE DEF b
<1> QED
  BY <1>1, <1>2, <1>3, <1>4, <1>5 DEF AllFrom

LEMMA NumberBegins ==
  ASSUME NEW x, NEW a \in Nat
  PROVE  Number(x, a, a) <=> x[a] \in Digits
<1>1. Minus \notin Digits
  BY DEF Minus, Digits
<1>2. a..a = {a}
  OBVIOUS
<1> QED
  BY <1>1, <1>2 DEF Number, AllFrom, Sign

LEMMA PointedGoesOn ==
  ASSUME NEW x, NEW n \in Nat, NEW i \in 1..n
  PROVE  Pointed(x, n + 1, i) <=> x[n + 1] \in Digits /\ Pointed(x, n, i)
<1>1. (i + 1)..(n + 1) = ((i + 1)..n) \union {n + 1}
  OBVIOUS
<1>2. i \in 1..(n + 1)
  OBVIOUS
<1>3. AllFrom(x, i + 1, n + 1, Digits) <=> x[n + 1] \in Digits /\ AllFrom(x, i + 1, n, Digits)
  BY <1>1 DEF AllFrom
<1> QED
  BY <1>2, <1>3 DEF Pointed

LEMMA PointGoesOn ==
  ASSUME NEW x, NEW n \in Nat
  PROVE  Pointed(x, n + 1, n + 1) <=>
           /\ x[n + 1] = Dot
           /\ \/ n = 0
              \/ n = 1 /\ x[1] = Minus
              \/ Number(x, 1, n)
<1>1. n + 1 \in 1..(n + 1) /\ (n + 1) - 1 = n /\ (n + 1 + 1)..(n + 1) = {}
  OBVIOUS
<1>2. Pointed(x, n + 1, n + 1) <=> x[n + 1] = Dot /\ AllFrom(x, 1 + Sign(x, 1), n, Digits)
  BY <1>1 DEF Pointed, AllFrom
<1> DEFINE b == 1 + Sign(x, 1)
<1>3. b \in 1..2 /\ (b = 2 <=> x[1] = Minus)
  BY DEF Sign
<1>4. Number(x, 1, n) <=> b <= n /\ AllFrom(x, b, n, Digits)
  BY DEF Number
<1> HIDE DEF b
<1>5. n < b => AllFrom(x, b, n, Digits)
  BY <1>3 DEF AllFrom
<1>6. n < b <=> n = 0 \/ (n = 1 /\ x[1] = Minus)
  BY <1>3
<1>7. AllFrom(x, b, n, Digits) <=> n = 0 \/ (n = 1 /\ x[1] = Minus) \/ Number(x, 1, n)
  BY <1>3, <1>4, <1>5, <1>6
<1> QED
  BY <1>2, <1>7 DEF b

LEMMA FixedGoesOn ==
  ASSUME NEW x, NEW n \in Nat
  PROVE  Fixed(x, n + 1) <=>
           \/ x[n + 1] = Dot /\ (n = 0 \/ (n = 1 /\ x[1] = Minus) \/ Number(x, 1, n))
           \/ x[n + 1] \in Digits /\ Fixed(x, n)
<1>1. \A i \in 1..(n + 1) : i = n + 1 \/ i \in 1..n
  OBVIOUS
<1>2. n + 1 \in 1..(n + 1) /\ \A i \in 1..n : i \in 1..(n + 1)
  OBVIOUS
<1>3. Fixed(x, n + 1) <=> Pointed(x, n + 1, n + 1) \/ \E i \in 1..n : Pointed(x, n + 1, i)
  BY <1>1, <1>2 DEF Fixed
<1>4. \A i \in 1..n : Pointed(x, n + 1, i) <=> x[n + 1] \in Digits /\ Pointed(x, n, i)
  BY PointedGoesOn
<1>5. (\E i \in 1..n : Pointed(x, n + 1, i)) <=> x[n + 1] \in Digits /\ Fixed(x, n)
  BY <1>4 DEF Fixed
<1> QED
  BY <1>3, <1>5, PointGoesOn

LEMMA ExponentGoesOn ==
  ASSUME NEW x, NEW n \in Nat
  PROVE  /\ ToExponent(x, n + 1) <=> Fixed(x, n) /\ x[n + 1] \in Exponents
         /\ ToSign(x, n + 1) <=> ToExponent(x, n) /\ x[n + 1] = Minus
<1>1. (n + 1) - 1 = n /\ (n + 1 > 1 <=> n # 0)
  OBVIOUS
<1>2. ~Fixed(x, 0)
  BY DEF Fixed
<1>3. ~ToExponent(x, 0)
  BY DEF ToExponent
<1> QED
  BY <1>1, <1>2, <1>3 DEF ToExponent, ToSign

LEMMA ScientificGoesOn ==
  ASSUME NEW x, NEW n \in Nat
  PROVE  Scientific(x, n + 1) <=>
           x[n + 1] \in Digits /\ (ToExponent(x, n) \/ ToSign(x, n) \/ Scientific(x, n))
<1> DEFINE To(k, m) == ToExponent(x, k) /\ Number(x, k + 1, m)
<1>1. \A k \in 1..(n + 1) : k = n + 1 \/ k = n \/ k \in 1..(n - 1)
  OBVIOUS
<1>2. ~Number(x, n + 1 + 1, n + 1)
  BY DEF Number, Sign
<1>3. To(n, n + 1) <=> ToExponent(x, n) /\ x[n + 1] \in Digits
  BY NumberBegins
<1>4. ASSUME NEW k \in 1..(n - 1)
      PROVE  To(k, n + 1) <=> x[n + 1] \in Digits /\ ((n = k + 1 /\ ToSign(x, n)) \/ To(k, n))
  <2>1. k + 1 \in Nat /\ n >= k + 1 /\ (n = k + 1 => n - 1 = k /\ n > 1)
    OBVIOUS
  <2>2. Number(x, k + 1, n + 1)
          <=> x[n + 1] \in Digits /\ ((n = k + 1 /\ x[k + 1] = Minus) \/ Number(x, k + 1, n))
    BY <2>1, NumberGoesOn
  <2>3. n = k + 1 => (ToSign(x, n) <=> ToExponent(x, k) /\ x[k + 1] = Minus)
    BY <2>1 DEF ToSign
  <2> QED
    BY <2>2, <2>3
<1>5. ~To(n, n) /\ ~To(0, n) /\ ~To(0, n + 1)
  BY DEF Number, Sign, ToExponent
<1>6. Scientific(x, n) <=> \E k \in 1..(n - 1) : To(k, n)
  <2>1. \A k \in 1..n : k = n \/ k \in 1..(n - 1)
    OBVIOUS
  <2>2. \A k \in 1..(n - 1) : k \in 1..n
    OBVIOUS
  <2> QED
    BY <1>5, <2>1, <2>2 DEF Scientific
<1>7. Scientific(x, n + 1) <=> To(n, n + 1) \/ \E k \in 1..(n - 1) : To(k, n + 1)
  <2>1. \A k \in 1..(n - 1) : k \in 1..(n + 1)
    OBVIOUS
  <2>2. n = 0 \/ n \in 1..(n + 1)
    OBVIOUS
  <2> QED
    BY <1>1, <1>2, <1>5, <2>1, <2>2 DEF Scientific
<1>8. ToSign(x, n) => n - 1 \in 1..(n - 1) /\ n = (n - 1) + 1
  BY DEF ToSign
<1> HIDE DEF To
<1> QED
  BY <1>3, <1>4, <1>6, <1>7, <1>8

LEMMA UnclosedGoesOn ==
  ASSUME NEW x, NEW n \in Nat, n > 0, Taken(x, n + 1) <=> Pending(x, n)
  PROVE  /\ Unclosed(x, n + 1) <=> /\ Unclosed(x, n) /\ x[n + 1] \in Scanned
                                   /\ x[n + 1] = Quote => Pending(x, n)
         /\ Pending(x, n + 1) <=> x[n + 1] = Backslash /\ ~Pending(x, n)
         /\ Closed(x, n + 1) <=> Unclosed(x, n) /\ x[n + 1] = Quote /\ ~Pending(x, n)
<1>1. 2..(n + 1) = (2..n) \union {n + 1}
  OBVIOUS
<1>2. (n + 1) - 1 = n /\ n + 1 > 1
  OBVIOUS
<1>3. Unclosed(x, n + 1) <=> /\ Unclosed(x, n) /\ x[n + 1] \in Scanned
                             /\ x[n + 1] = Quote => Pending(x, n)
  BY <1>1 DEF Unclosed
<1>4. Pending(x, n + 1) <=> x[n + 1] = Backslash /\ ~Pending(x, n)
  BY DEF Pending
<1>5. Closed(x, n + 1) <=> Unclosed(x, n) /\ x[n + 1] = Quote /\ ~Pending(x, n)
  BY <1>2 DEF Closed
<1> QED
  BY <1>3, <1>4, <1>5

LEMMA UnclosedBegins ==
  ASSUME NEW x
  PROVE  /\ Unclosed(x, 1) <=> x[1] = Quote
         /\ x[1] = Quote => ~Pending(x, 1)
<1>1. 2..1 = {}
  OBVIOUS
<1>2. Quote # Backslash
  BY DEF Quote, Backslash
<1> QED
  BY <1>1, <1>2 DEF Unclosed, Pending

LEMMA TruthGoesOn ==
  ASSUME NEW x, NEW n \in Nat
  PROVE  Truth(x, n + 1) <=> One(x, n, {Hash}) /\ x[n + 1] \in Truths
BY DEF Truth, One

\* How each state of the automaton is reached.
LEMMA Transitions ==
  ASSUME NEW t \in {Dead} \union 0..15, NEW c \in Int, NEW u, u = NextState(t, c)
  PROVE  /\ u \in {Dead} \union 0..15 /\ u # 0
         /\ u = 1 <=> t \in {0, 1} /\ c \in Blanks
         /\ u = 2 <=> t = 0 /\ c \in Scanned \ Special
         /\ u = 3 <=> t = 0 /\ c = Quote
         /\ u = 4 <=> t = 0 /\ c = Hash
         /\ u = 5 <=> (t = 0 /\ c = Ampersand) \/ (t = 5 /\ c \in Base64 \union {Equal})
         /\ u = 6 <=> t = 0 /\ c = Minus
         /\ u = 7 <=> (t \in {0, 6, 8} /\ c = Dot) \/ (t = 7 /\ c \in Digits)
         /\ u = 8 <=> t \in {0, 6, 8} /\ c \in Digits
         /\ u = 9 <=> \/ t = 11 /\ c \in Scanned
                      \/ t \in {3, 9} /\ c \in Scanned \ {Quote, Backslash}
         /\ u = 10 <=> t \in {3, 9} /\ c = Quote
         /\ u = 11 <=> t \in {3, 9} /\ c = Backslash
         /\ u = 12 <=> t = 4 /\ c \in Truths
         /\ u = 13 <=> t = 7 /\ c \in Exponents
         /\ u = 14 <=> t = 13 /\ c = Minus
         /\ u = 15 <=> t \in {13, 14, 15} /\ c \in Digits
<1>0. Dead = -1
  BY DEF Dead
<1>1. CASE t = 0
  <2>1. u = AtStart(c)
    BY <1>1, FromStart
  <2> QED
    BY <1>0, <1>1, <2>1 DEF AtStart, Special, Blanks, Digits, Scanned, Quote, Hash, Ampersand, Minus, Dot
<1>2. CASE t = 1
  BY <1>0, <1>2, FromBlanks
<1>3. CASE t \in {3, 9}
  <2>1. u = InStringOrEnd(c)
    BY <1>3, FromString
  <2> QED
    BY <1>0, <1>3, <2>1 DEF InStringOrEnd, Scanned, Quote, Backslash
<1>4. CASE t = 4
  BY <1>0, <1>4, FromHash
<1>5. CASE t = 5
  BY <1>0, <1>5, FromBinary
<1>6. CASE t \in {6, 8}
  <2>1. u = InNumber(c)
    BY <1>6, FromInteger
  <2> QED
    BY <1>0, <1>6, <2>1 DEF InNumber, Digits, Dot
<1>7. CASE t = 7
  BY <1>0, <1>7, FromFraction DEF Digits, Exponents
<1>8. CASE t = 11
  BY <1>0, <1>8, FromBackslash
<1>9. CASE t = 13
  BY <1>0, <1>9, FromExponent DEF Digits, Minus
<1>10. CASE t \in {14, 15}
  BY <1>0, <1>10, FromDigits
<1>11. CASE t \in {Dead, 2, 10, 12}
  BY <1>0, <1>11, FromEnd
<1> QED
  BY <1>1, <1>2, <1>3, <1>4, <1>5, <1>6, <1>7, <1>8, <1>9, <1>10, <1>11

\* A state tells the language that the first n characters are in.
Describes(x, n, t) ==
  /\ t \in {Dead} \union 0..15
  /\ t = 0 <=> n = 0
  /\ t = 1 <=> Blank(x, n)
  /\ t = 2 <=> One(x, n, Scanned \ Special)
  /\ t = 3 <=> One(x, n, {Quote})
  /\ t = 4 <=> One(x, n, {Hash})
  /\ t = 5 <=> Bytes(x, n)
  /\ t = 6 <=> One(x, n, {Minus})
  /\ t = 7 <=> Fixed(x, n)
  /\ t = 8 <=> n > 0 /\ Number(x, 1, n)
  /\ t = 9 <=> n > 1 /\ Unclosed(x, n) /\ ~Pending(x, n)
  /\ t = 10 <=> Closed(x, n)
  /\ t = 11 <=> n > 1 /\ Unclosed(x, n) /\ Pending(x, n)
  /\ t = 12 <=> Truth(x, n)
  /\ t = 13 <=> ToExponent(x, n)
  /\ t = 14 <=> ToSign(x, n)
  /\ t = 15 <=> Scientific(x, n)

LEMMA DescribesStart ==
  ASSUME NEW x
  PROVE  Describes(x, 0, 0)
<1>1. 1..0 = {}
  OBVIOUS
<1>2. ~Blank(x, 0) /\ ~Bytes(x, 0) /\ ~Fixed(x, 0) /\ ~Closed(x, 0) /\ ~Truth(x, 0)
  BY <1>1 DEF Blank, Bytes, Fixed, Closed, Truth
<1>3. ~ToExponent(x, 0) /\ ~ToSign(x, 0) /\ ~Scientific(x, 0)
  BY <1>1 DEF ToExponent, ToSign, Scientific
<1>4. \A chars : ~One(x, 0, chars)
  BY DEF One
<1> QED
  BY <1>2, <1>3, <1>4 DEF Describes

LEMMA DescribesStep ==
  ASSUME NEW x, NEW n \in Nat, NEW t, Describes(x, n, t), x[n + 1] \in Int,
         n > 0 => (Taken(x, n + 1) <=> Pending(x, n))
  PROVE  Describes(x, n + 1, NextState(t, x[n + 1]))
<1> DEFINE c == x[n + 1]
           u == NextState(t, c)
<1>0. /\ t \in {Dead} \union 0..15 /\ c \in Int /\ u = NextState(t, c)
      /\ n + 1 > 0 /\ n + 1 # 0 /\ (n + 1 = 1 <=> n = 0) /\ (n + 1 > 1 <=> n # 0) /\ (n # 0 <=> n > 0)
  BY DEF Describes
<1> HIDE DEF c, u
<1>1. u \in {Dead} \union 0..15 /\ (u = 0 <=> n + 1 = 0)
  BY <1>0, Transitions
<1>2. u = 1 <=> Blank(x, n + 1)
  <2>1. u = 1 <=> t \in {0, 1} /\ c \in Blanks
    BY <1>0, Transitions
  <2> QED
    BY <2>1, BlankGoesOn DEF Describes, c
<1>3. ASSUME NEW chars PROVE One(x, n + 1, chars) <=> t = 0 /\ c \in chars
  BY <1>0 DEF Describes, One, c
<1>4. u = 2 <=> One(x, n + 1, Scanned \ Special)
  <2>1. u = 2 <=> t = 0 /\ c \in Scanned \ Special
    BY <1>0, Transitions
  <2> QED
    BY <1>3, <2>1, Zenon
<1>5. u = 3 <=> One(x, n + 1, {Quote})
  <2>1. u = 3 <=> t = 0 /\ c \in {Quote}
    BY <1>0, Transitions
  <2> QED
    BY <1>3, <2>1, Zenon
<1>6. u = 4 <=> One(x, n + 1, {Hash})
  <2>1. u = 4 <=> t = 0 /\ c \in {Hash}
    BY <1>0, Transitions
  <2> QED
    BY <1>3, <2>1, Zenon
<1>7. u = 5 <=> Bytes(x, n + 1)
  <2>1. u = 5 <=> (t = 0 /\ c = Ampersand) \/ (t = 5 /\ c \in Base64 \union {Equal})
    BY <1>0, Transitions
  <2>2. n = 0 => (x[1] = Ampersand <=> c = Ampersand)
    BY DEF c
  <2> HIDE DEF Base64
  <2> QED
    BY <2>1, <2>2, BytesGoOn DEF Describes, c
<1>8. u = 6 <=> One(x, n + 1, {Minus})
  <2>1. u = 6 <=> t = 0 /\ c \in {Minus}
    BY <1>0, Transitions
  <2> QED
    BY <1>3, <2>1, Zenon
<1>9. t \in {0, 6, 8} <=> n = 0 \/ (n = 1 /\ x[1] = Minus) \/ (n > 0 /\ Number(x, 1, n))
  BY DEF Describes, One
<1>10. u = 7 <=> Fixed(x, n + 1)
  <2>1. u = 7 <=> (t \in {0, 6, 8} /\ c = Dot) \/ (t = 7 /\ c \in Digits)
    BY <1>0, Transitions
  <2>2. n = 0 => ~Number(x, 1, n)
    BY DEF Number, Sign
  <2>3. t = 7 <=> Fixed(x, n)
    BY DEF Describes
  <2> QED
    BY <1>0, <1>9, <2>1, <2>2, <2>3, FixedGoesOn DEF c
<1>11. u = 8 <=> n + 1 > 0 /\ Number(x, 1, n + 1)
  <2>1. u = 8 <=> t \in {0, 6, 8} /\ c \in Digits
    BY <1>0, Transitions
  <2>2. CASE n = 0
    <3>1. Number(x, 1, 1) <=> x[1] \in Digits
      BY NumberBegins
    <3> QED
      BY <1>9, <2>1, <2>2, <3>1 DEF c
  <2>3. CASE n > 0
    <3>1. Number(x, 1, n + 1) <=> x[n + 1] \in Digits /\ ((n = 1 /\ x[1] = Minus) \/ Number(x, 1, n))
      BY <2>3, NumberGoesOn
    <3> QED
      BY <1>0, <1>9, <2>1, <2>3, <3>1 DEF c
  <2> QED
    BY <2>2, <2>3
<1>12. t \in {3, 9} <=> n > 0 /\ Unclosed(x, n) /\ ~Pending(x, n)
  <2>1. t \in {3, 9} <=> One(x, n, {Quote}) \/ (n > 1 /\ Unclosed(x, n) /\ ~Pending(x, n))
    BY DEF Describes
  <2>2. One(x, n, {Quote}) <=> n = 1 /\ Unclosed(x, 1) /\ ~Pending(x, 1)
    BY UnclosedBegins DEF One
  <2> QED
    BY <2>1, <2>2
<1>13. t = 11 <=> n > 0 /\ Unclosed(x, n) /\ Pending(x, n)
  <2>1. t = 11 <=> n > 1 /\ Unclosed(x, n) /\ Pending(x, n)
    BY DEF Describes
  <2>2. n = 1 => ~(Unclosed(x, n) /\ Pending(x, n))
    BY UnclosedBegins
  <2> QED
    BY <2>1, <2>2
<1>14. n > 0 => /\ Unclosed(x, n + 1) <=> /\ Unclosed(x, n) /\ c \in Scanned
                                          /\ c = Quote => Pending(x, n)
                /\ Pending(x, n + 1) <=> c = Backslash /\ ~Pending(x, n)
                /\ Closed(x, n + 1) <=> Unclosed(x, n) /\ c = Quote /\ ~Pending(x, n)
  BY UnclosedGoesOn DEF c
<1>15. Quote # Backslash /\ Quote \in Scanned /\ Backslash \in Scanned
  BY DEF Quote, Backslash, Scanned
<1>16. u = 9 <=> n + 1 > 1 /\ Unclosed(x, n + 1) /\ ~Pending(x, n + 1)
  <2>1. u = 9 <=> \/ t = 11 /\ c \in Scanned
                  \/ t \in {3, 9} /\ c \in Scanned \ {Quote, Backslash}
    BY <1>0, Transitions
  <2> HIDE DEF Scanned, Quote, Backslash
  <2> QED
    BY <1>0, <1>12, <1>13, <1>14, <1>15, <2>1
<1>17. u = 10 <=> Closed(x, n + 1)
  <2>1. u = 10 <=> t \in {3, 9} /\ c = Quote
    BY <1>0, Transitions
  <2>2. n = 0 => ~Closed(x, n + 1)
    BY DEF Closed
  <2> QED
    BY <1>0, <1>12, <1>14, <2>1, <2>2
<1>18. u = 11 <=> n + 1 > 1 /\ Unclosed(x, n + 1) /\ Pending(x, n + 1)
  <2>1. u = 11 <=> t \in {3, 9} /\ c = Backslash
    BY <1>0, Transitions
  <2> QED
    BY <1>0, <1>12, <1>14, <1>15, <2>1
<1>19. u = 12 <=> Truth(x, n + 1)
  <2>1. u = 12 <=> t = 4 /\ c \in Truths
    BY <1>0, Transitions
  <2> QED
    BY <2>1, TruthGoesOn DEF Describes, c
<1>20. u = 13 <=> ToExponent(x, n + 1)
  <2>1. u = 13 <=> t = 7 /\ c \in Exponents
    BY <1>0, Transitions
  <2> QED
    BY <2>1, ExponentGoesOn DEF Describes, c
<1>21. u = 14 <=> ToSign(x, n + 1)
  <2>1. u = 14 <=> t = 13 /\ c = Minus
    BY <1>0, Transitions
  <2> QED
    BY <2>1, ExponentGoesOn DEF Describes, c
<1>22. u = 15 <=> Scientific(x, n + 1)
  <2>1. u = 15 <=> t \in {13, 14, 15} /\ c \in Digits
    BY <1>0, Transitions
  <2>2. t \in {13, 14, 15} <=> ToExponent(x, n) \/ ToSign(x, n) \/ Scientific(x, n)
    BY DEF Describes
  <2> QED
    BY <2>1, <2>2, ScientificGoesOn DEF c
<1> QED
  BY <1>0, <1>1, <1>2, <1>4, <1>5, <1>6, <1>7, <1>8, <1>10, <1>11, <1>16, <1>17, <1>18, <1>19,
     <1>20, <1>21, <1>22 DEF Describes, c, u

\* The states that the automaton goes through tell what has been read.
LEMMA Described ==
  ASSUME NEW x \in Seq(Int), NEW n, n = Len(x)
  PROVE  /\ n \in Nat /\ DOMAIN Trace(x) = 0..(n + 1)
         /\ \A i \in 0..n : Describes(x, i, Trace(x)[i])
         /\ Trace(x)[n + 1] = Dead
<1>1. /\ n \in Nat /\ DOMAIN Trace(x) = 0..(n + 1) /\ Trace(x)[0] = 0
      /\ \A i \in 1..(n + 1) : Trace(x)[i] = NextState(Trace(x)[i - 1], Get(x, i))
  BY TraceFacts
<1>2. \A i \in 1..n : x[i] \in Int /\ Get(x, i) = x[i]
  BY <1>1, LenProperties DEF Get
<1>3. ASSUME NEW i \in 0..(n - 1), i > 0
      PROVE  Taken(x, i + 1) <=> Pending(x, i)
  <2>1. i + 1 \in 1..n /\ i + 1 > 1 /\ (i + 1) - 1 = i
    BY <1>1, <1>3
  <2>2. FollowsBackslash(x)[i + 1] <=>
          i + 1 > 1 /\ x[(i + 1) - 1] = Backslash /\ ~FollowsBackslash(x)[(i + 1) - 1]
    BY <2>1, EscapeFacts
  <2> QED
    BY <2>1, <2>2 DEF Taken, Pending
<1> DEFINE T == Trace(x)
           bad == {i \in 0..n : ~Describes(x, i, T[i])}
<1> HIDE DEF T
<1>4. ASSUME NEW i \in 0..(n - 1), Describes(x, i, T[i])
      PROVE  Describes(x, i + 1, T[i + 1])
  <2>1. i + 1 \in 1..n /\ i + 1 \in 1..(n + 1) /\ (i + 1) - 1 = i /\ i \in Nat
    BY <1>1
  <2>2. T[i + 1] = NextState(T[i], x[i + 1]) /\ x[i + 1] \in Int
    BY <1>1, <1>2, <2>1 DEF T
  <2> QED
    BY <1>3, <1>4, <2>1, <2>2, DescribesStep
<1>5. bad = {}
  <2> SUFFICES ASSUME bad # {} PROVE FALSE
    OBVIOUS
  <2>1. bad \in SUBSET Nat
    BY <1>1
  <2>2. PICK m \in bad : \A k \in bad : m <= k
    BY <2>1, LeastExists
  <2>3. m # 0
    BY <1>1, DescribesStart DEF T
  <2>4. m - 1 \in 0..(n - 1) /\ m - 1 \in 0..n /\ ~(m <= m - 1) /\ (m - 1) + 1 = m
    BY <2>3
  <2>5. Describes(x, m - 1, T[m - 1])
    BY <2>2, <2>4
  <2>6. Describes(x, m, T[m])
    BY <1>4, <2>4, <2>5
  <2> QED
    BY <2>6
<1>6. T[n + 1] = Dead
  <2>1. n + 1 \in 1..(n + 1) /\ (n + 1) - 1 = n /\ n \in 0..n
    BY <1>1
  <2>2. Get(x, n + 1) = AtEof
    BY <1>1 DEF Get
  <2>3. T[n + 1] = NextState(T[n], AtEof)
    BY <1>1, <2>1, <2>2 DEF T
  <2>4. T[n] \in {Dead} \union 0..15
    BY <1>5, <2>1 DEF Describes
  <2> DEFINE t == T[n]
             c == AtEof
             u == NextState(t, c)
  <2>5. t \in {Dead} \union 0..15 /\ c \in Int /\ u = NextState(t, c)
    BY <2>4 DEF AtEof
  <2>6. /\ c \notin Scanned /\ c \notin Blanks /\ c \notin Digits /\ c \notin Truths
        /\ c \notin Exponents /\ c \notin Base64 \union {Equal}
    BY DEF AtEof, Scanned, Blanks, Digits, Base64, Truths, Exponents, Equal
  <2>7. c # Quote /\ c # Backslash /\ c # Hash /\ c # Ampersand /\ c # Minus /\ c # Dot
    BY DEF AtEof, Quote, Backslash, Hash, Ampersand, Minus, Dot
  <2> HIDE DEF t, c, u
  <2>8. u \in {Dead} \union 0..15 /\ u # 0
    BY <2>5, Transitions, SMTT(30)
  <2>9. u # 1
    BY <2>5, <2>6, <2>7, Transitions, SMTT(30)
  <2>10. u # 2
    BY <2>5, <2>6, <2>7, Transitions, SMTT(30)
  <2>11. u # 3
    BY <2>5, <2>6, <2>7, Transitions, SMTT(30)
  <2>12. u # 4
    BY <2>5, <2>6, <2>7, Transitions, SMTT(30)
  <2>13. u # 5
    BY <2>5, <2>6, <2>7, Transitions, SMTT(30)
  <2>14. u # 6
    BY <2>5, <2>6, <2>7, Transitions, SMTT(30)
  <2>15. u # 7
    BY <2>5, <2>6, <2>7, Transitions, SMTT(30)
  <2>16. u # 8
    BY <2>5, <2>6, <2>7, Transitions, SMTT(30)
  <2>17. u # 9
    BY <2>5, <2>6, <2>7, Transitions, SMTT(30)
  <2>18. u # 10
    BY <2>5, <2>6, <2>7, Transitions, SMTT(30)
  <2>19. u # 11
    BY <2>5, <2>6, <2>7, Transitions, SMTT(30)
  <2>20. u # 12
    BY <2>5, <2>6, <2>7, Transitions, SMTT(30)
  <2>21. u # 13
    BY <2>5, <2>6, <2>7, Transitions, SMTT(30)
  <2>22. u # 14
    BY <2>5, <2>6, <2>7, Transitions, SMTT(30)
  <2>23. u # 15
    BY <2>5, <2>6, <2>7, Transitions, SMTT(30)
  <2>24. u = Dead
    BY <2>8, <2>9, <2>10, <2>11, <2>12, <2>13, <2>14, <2>15, <2>16, <2>17, <2>18, <2>19,
       <2>20, <2>21, <2>22, <2>23
  <2> QED
    BY <2>3, <2>24 DEF t, c, u
<1> QED
  BY <1>1, <1>5, <1>6 DEF T

-----------------------------------------------------------------------------
(* The rules and the languages *)

\* s is what an input has from a to n.
IsPart(s, x, a, n) ==
  /\ a \in Nat /\ a > 0 /\ n \in Nat /\ n >= a - 1
  /\ s \in Seq(Int) /\ Len(s) = n - a + 1
  /\ \A i \in 1..(n - a + 1) : s[i] = x[a + i - 1]

LEMMA PrefixIsPart ==
  ASSUME NEW x \in Seq(Int), NEW n \in 0..Len(x)
  PROVE  IsPart(SubSeq(x, 1, n), x, 1, n)
<1>1. Len(x) \in Nat /\ \A i \in 1..n : x[i] \in Int
  BY LenProperties
<1>2. n \in Nat /\ 1 \in Int /\ n \in Int
  BY <1>1
<1>3. SubSeq(x, 1, n) \in Seq(Int) /\ Len(SubSeq(x, 1, n)) = n
      /\ \A i \in 1..(n - 1 + 1) : SubSeq(x, 1, n)[i] = x[1 + i - 1]
  BY <1>1, <1>2, SubSeqProperties
<1> QED
  BY <1>2, <1>3 DEF IsPart

LEMMA PartOfPart ==
  ASSUME NEW x, NEW s, NEW a, NEW n, IsPart(s, x, a, n),
         NEW c \in Nat, c > 0, NEW d \in Nat, d <= Len(s), c <= d + 1
  PROVE  IsPart(SubSeq(s, c, d), x, a + c - 1, a + d - 1)
<1> DEFINE t == SubSeq(s, c, d)
<1>1. /\ a \in Nat /\ a > 0 /\ n \in Nat /\ n >= a - 1 /\ s \in Seq(Int) /\ Len(s) = n - a + 1
      /\ \A i \in 1..(n - a + 1) : s[i] = x[a + i - 1]
  BY DEF IsPart
<1>2. \A i \in c..d : s[i] \in Int
  BY <1>1, LenProperties
<1>3. t \in Seq(Int) /\ Len(t) = d - c + 1 /\ \A i \in 1..(d - c + 1) : t[i] = s[c + i - 1]
  BY <1>2, SubSeqProperties
<1> HIDE DEF t
<1>4. (a + d - 1) - (a + c - 1) + 1 = d - c + 1
  BY <1>1
<1>5. ASSUME NEW i \in 1..(d - c + 1) PROVE t[i] = x[(a + c - 1) + i - 1]
  <2>1. c + i - 1 \in 1..(n - a + 1) /\ a + (c + i - 1) - 1 = (a + c - 1) + i - 1
    BY <1>1
  <2> QED
    BY <1>1, <1>3, <2>1
<1>6. a + c - 1 \in Nat /\ a + c - 1 > 0 /\ a + d - 1 \in Nat /\ a + d - 1 >= (a + c - 1) - 1
  BY <1>1
<1>7. IsPart(t, x, a + c - 1, a + d - 1)
  BY <1>3, <1>4, <1>5, <1>6 DEF IsPart
<1> QED
  BY <1>7 DEF t

LEMMA TailIsPart ==
  ASSUME NEW x, NEW s, NEW a, NEW n, IsPart(s, x, a, n), s # <<>>
  PROVE  IsPart(Tail(s), x, a + 1, n)
<1>1. /\ a \in Nat /\ a > 0 /\ n \in Nat /\ n >= a - 1 /\ s \in Seq(Int) /\ Len(s) = n - a + 1
      /\ \A i \in 1..(n - a + 1) : s[i] = x[a + i - 1]
  BY DEF IsPart
<1>2. Tail(s) \in Seq(Int) /\ Len(Tail(s)) = Len(s) - 1 /\ \A i \in 1..Len(Tail(s)) : Tail(s)[i] = s[i + 1]
  BY <1>1, HeadTailProperties
<1>3. Len(s) # 0
  BY <1>1, EmptySeq
<1>4. n - (a + 1) + 1 = Len(s) - 1 /\ Len(s) > 0 /\ n >= a
  BY <1>1, <1>3
<1> DEFINE t == Tail(s)
<1>5. t \in Seq(Int) /\ Len(t) = n - a /\ \A i \in 1..(n - a) : t[i] = s[i + 1]
  BY <1>1, <1>2, <1>4
<1> HIDE DEF t
<1>6. ASSUME NEW i \in 1..(n - a) PROVE t[i] = x[(a + 1) + i - 1]
  <2>1. i + 1 \in 1..(n - a + 1) /\ a + (i + 1) - 1 = (a + 1) + i - 1
    BY <1>1
  <2> QED
    BY <1>1, <1>5, <2>1
<1>7. n - (a + 1) + 1 = n - a /\ a + 1 \in Nat /\ a + 1 > 0 /\ n >= (a + 1) - 1
  BY <1>1, <1>4
<1>8. IsPart(t, x, a + 1, n)
  BY <1>1, <1>5, <1>6, <1>7 DEF IsPart
<1> QED
  BY <1>8 DEF t

LEMMA PartFacts ==
  ASSUME NEW x, NEW s, NEW a, NEW n, IsPart(s, x, a, n)
  PROVE  /\ s = <<>> <=> n = a - 1
         /\ s # <<>> => s[1] = x[a]
         /\ \A chars : AllIn(s, chars) <=> AllFrom(x, a, n, chars)
<1>1. /\ a \in Nat /\ a > 0 /\ n \in Nat /\ n >= a - 1 /\ s \in Seq(Int) /\ Len(s) = n - a + 1
      /\ \A i \in 1..(n - a + 1) : s[i] = x[a + i - 1]
  BY DEF IsPart
<1>2. s = <<>> <=> Len(s) = 0
  BY <1>1, EmptySeq
<1>3. s = <<>> <=> n = a - 1
  BY <1>1, <1>2
<1>4. s # <<>> => s[1] = x[a]
  <2>1. s # <<>> => 1 \in 1..(n - a + 1) /\ a + 1 - 1 = a
    BY <1>1, <1>3
  <2> QED
    BY <1>1, <2>1
<1>5. DOMAIN s = 1..(n - a + 1)
  BY <1>1, LenProperties
<1>6. ASSUME NEW chars PROVE AllIn(s, chars) <=> AllFrom(x, a, n, chars)
  <2>1. \A i \in 1..(n - a + 1) : a + i - 1 \in a..n
    BY <1>1
  <2>2. \A k \in a..n : k - a + 1 \in 1..(n - a + 1) /\ a + (k - a + 1) - 1 = k
    BY <1>1
  <2> QED
    BY <1>1, <1>5, <2>1, <2>2, ZenonT(30) DEF AllIn, AllFrom
<1> QED
  BY <1>3, <1>4, <1>6

LEMMA UnsignedPart ==
  ASSUME NEW x, NEW s, NEW a, NEW n, IsPart(s, x, a, n), NEW chars
  PROVE  /\ Unsigned(s) # <<>> <=> a + Sign(x, a) <= n
         /\ AllIn(Unsigned(s), chars) <=> AllFrom(x, a + Sign(x, a), n, chars)
<1>0. a \in Nat /\ n \in Nat /\ n >= a - 1 /\ a > 0
  BY DEF IsPart
<1>1. (s = <<>> <=> n = a - 1) /\ (s # <<>> => s[1] = x[a]) /\ (AllIn(s, chars) <=> AllFrom(x, a, n, chars))
  BY PartFacts
<1>2. CASE s # <<>> /\ x[a] = Minus
  <2>1. Unsigned(s) = Tail(s) /\ Sign(x, a) = 1
    BY <1>1, <1>2 DEF Unsigned, Sign
  <2>2. IsPart(Tail(s), x, a + 1, n)
    BY <1>2, TailIsPart
  <2> DEFINE t == Tail(s)
  <2>3. (t = <<>> <=> n = (a + 1) - 1) /\ (AllIn(t, chars) <=> AllFrom(x, a + 1, n, chars))
    BY <2>2, PartFacts, ZenonT(60)
  <2> HIDE DEF t
  <2>4. t # <<>> <=> a + 1 <= n
    BY <1>0, <1>1, <1>2, <2>3
  <2> QED
    BY <2>1, <2>3, <2>4 DEF t
<1>3. CASE s # <<>> /\ x[a] # Minus
  <2>1. Unsigned(s) = s /\ Sign(x, a) = 0
    BY <1>1, <1>3 DEF Unsigned, Sign
  <2>2. a + 0 = a /\ a <= n
    BY <1>0, <1>1, <1>3
  <2> QED
    BY <1>1, <1>3, <2>1, <2>2
<1>4. CASE s = <<>>
  <2>1. Unsigned(s) = s /\ Sign(x, a) \in {0, 1} /\ n = a - 1
    BY <1>1, <1>4 DEF Unsigned, Sign
  <2>2. ~(a + Sign(x, a) <= n) /\ AllFrom(x, a + Sign(x, a), n, chars) /\ AllFrom(x, a, n, chars)
    BY <1>0, <2>1 DEF AllFrom
  <2> QED
    BY <1>1, <1>4, <2>1, <2>2
<1> QED
  BY <1>2, <1>3, <1>4

LEMMA IntegerPart ==
  ASSUME NEW x, NEW s, NEW a, NEW n, IsPart(s, x, a, n)
  PROVE  IsInteger(s) <=> Number(x, a, n)
BY UnsignedPart DEF IsInteger, Number

LEMMA ExponentPart ==
  ASSUME NEW x, NEW s, NEW a, NEW n, IsPart(s, x, a, n)
  PROVE  IsExponent(s) <=> a <= n /\ x[a] \in Exponents /\ Number(x, a + 1, n)
<1>1. (s = <<>> <=> n = a - 1) /\ (s # <<>> => s[1] = x[a]) /\ a \in Nat /\ n \in Nat /\ n >= a - 1
  BY PartFacts DEF IsPart
<1>2. s # <<>> <=> a <= n
  BY <1>1
<1>3. s # <<>> => (IsInteger(Tail(s)) <=> Number(x, a + 1, n))
  BY TailIsPart, IntegerPart
<1> QED
  BY <1>1, <1>2, <1>3 DEF IsExponent

\* Where a real has its point and the end of its fraction.
LEMMA RealPart ==
  ASSUME NEW x, NEW s, NEW n, IsPart(s, x, 1, n), NEW i \in 1..n, NEW j \in i..n
  PROVE  /\ s[i] = Dot /\ AllIn(Unsigned(Before(s, i)), Digits) /\ AllIn(SubSeq(s, i + 1, j), Digits)
              <=> Pointed(x, j, i)
         /\ IsExponent(After(s, j)) <=> j < n /\ x[j + 1] \in Exponents /\ Number(x, j + 2, n)
<1>1. /\ n \in Nat /\ Len(s) = n /\ s[i] = x[i] /\ i \in Nat /\ j \in Nat /\ i \in 1..j
  BY DEF IsPart
<1>2. IsPart(Before(s, i), x, 1, i - 1)
  <2>1. IsPart(SubSeq(s, 1, i - 1), x, 1 + 1 - 1, 1 + (i - 1) - 1)
    BY <1>1, PartOfPart
  <2>2. 1 + 1 - 1 = 1 /\ 1 + (i - 1) - 1 = i - 1
    BY <1>1
  <2> QED
    BY <2>1, <2>2 DEF Before
<1>3. AllIn(Unsigned(Before(s, i)), Digits) <=> AllFrom(x, 1 + Sign(x, 1), i - 1, Digits)
  BY <1>2, UnsignedPart
<1>4. IsPart(SubSeq(s, i + 1, j), x, i + 1, j)
  <2>1. IsPart(SubSeq(s, i + 1, j), x, 1 + (i + 1) - 1, 1 + j - 1)
    BY <1>1, PartOfPart
  <2>2. 1 + (i + 1) - 1 = i + 1 /\ 1 + j - 1 = j
    BY <1>1
  <2> QED
    BY <2>1, <2>2
<1>5. AllIn(SubSeq(s, i + 1, j), Digits) <=> AllFrom(x, i + 1, j, Digits)
  BY <1>4, PartFacts
<1>6. IsPart(After(s, j), x, j + 1, n)
  <2>1. IsPart(SubSeq(s, j + 1, n), x, 1 + (j + 1) - 1, 1 + n - 1)
    BY <1>1, PartOfPart
  <2>2. 1 + (j + 1) - 1 = j + 1 /\ 1 + n - 1 = n
    BY <1>1
  <2> QED
    BY <1>1, <2>1, <2>2 DEF After
<1>7. IsExponent(After(s, j)) <=> j < n /\ x[j + 1] \in Exponents /\ Number(x, j + 2, n)
  <2>1. j + 1 <= n <=> j < n
    BY <1>1
  <2>2. (j + 1) + 1 = j + 2
    BY <1>1
  <2> QED
    BY <1>6, <2>1, <2>2, ExponentPart
<1> QED
  BY <1>1, <1>3, <1>5, <1>7 DEF Pointed

LEMMA RealFits ==
  ASSUME NEW x, NEW s, NEW n, IsPart(s, x, 1, n)
  PROVE  IsReal(s) <=> Fixed(x, n) \/ Scientific(x, n)
<1>1. n \in Nat /\ Len(s) = n /\ DOMAIN s = 1..n
  <2>1. n \in Nat /\ Len(s) = n - 1 + 1 /\ s \in Seq(Int)
    BY DEF IsPart
  <2> QED
    BY <2>1, LenProperties
<1> DEFINE Raised(j) == x[j + 1] \in Exponents /\ Number(x, j + 2, n)
<1>2. IsReal(s) <=> \E i \in 1..n : \E j \in i..n : Pointed(x, j, i) /\ (j = n \/ (j < n /\ Raised(j)))
  <2> DEFINE A(i) == s[i] = Dot /\ AllIn(Unsigned(Before(s, i)), Digits)
             B(i, j) == AllIn(SubSeq(s, i + 1, j), Digits)
             C(j) == IsExponent(After(s, j))
             D(i, j) == Pointed(x, j, i)
             F(j) == j < n /\ Raised(j)
  <2>1. \A i \in 1..n : \A j \in i..n : (A(i) /\ B(i, j) <=> D(i, j)) /\ (C(j) <=> F(j))
    BY RealPart
  <2>2. IsReal(s) <=> \E i \in 1..n : A(i) /\ \E j \in i..n : B(i, j) /\ (j = n \/ C(j))
    BY <1>1 DEF IsReal
  <2> HIDE DEF A, B, C, D, F
  <2>3. IsReal(s) <=> \E i \in 1..n : \E j \in i..n : D(i, j) /\ (j = n \/ F(j))
    BY <2>1, <2>2
  <2> QED
    BY <2>3 DEF D, F
<1>3. \A i, j : Pointed(x, j, i) => i \in 1..j
  BY DEF Pointed
<1>4. Fixed(x, n) <=> \E i \in 1..n : \E j \in i..n : Pointed(x, j, i) /\ j = n
  <2>1. \A i \in 1..n : n \in i..n
    BY <1>1
  <2> QED
    BY <2>1 DEF Fixed
<1>5. Scientific(x, n) <=> \E j \in 1..(n - 1) : Fixed(x, j) /\ Raised(j)
  <2>1. ASSUME NEW k \in 1..n, k > 1
        PROVE  ToExponent(x, k) /\ Number(x, k + 1, n) <=> Fixed(x, k - 1) /\ Raised(k - 1)
    <3>1. (k - 1) + 1 = k /\ (k - 1) + 2 = k + 1
      BY <1>1
    <3> QED
      BY <2>1, <3>1 DEF ToExponent
  <2>2. \A k : ToExponent(x, k) => k > 1
    BY DEF ToExponent
  <2>3. \A j \in 1..(n - 1) : j + 1 \in 1..n /\ j + 1 > 1 /\ (j + 1) - 1 = j
    BY <1>1
  <2>4. \A k \in 1..n : k > 1 => k - 1 \in 1..(n - 1)
    BY <1>1
  <2> HIDE DEF Raised
  <2> QED
    BY <2>1, <2>2, <2>3, <2>4 DEF Scientific
<1>6. (\E j \in 1..(n - 1) : Fixed(x, j) /\ Raised(j))
        <=> \E i \in 1..n : \E j \in i..n : Pointed(x, j, i) /\ j < n /\ Raised(j)
  <2> HIDE DEF Raised
  <2>1. \A i \in 1..n : \A j \in i..n : j < n => j \in 1..(n - 1) /\ i \in 1..j
    BY <1>1
  <2>2. \A j \in 1..(n - 1) : \A i \in 1..j : i \in 1..n /\ j \in i..n /\ j < n
    BY <1>1
  <2> QED
    BY <2>1, <2>2 DEF Fixed
<1> HIDE DEF Raised
<1> QED
  BY <1>2, <1>4, <1>5, <1>6

\* Which characters of a string are escaped is told by those before them.
LEMMA PrefixEscapes ==
  ASSUME NEW x \in Seq(Int), NEW n \in 0..Len(x), NEW s, s = SubSeq(x, 1, n)
  PROVE  \A i \in 1..n : Taken(s, i) <=> Taken(x, i)
<1>1. Len(x) \in Nat /\ n \in Nat
  BY LenProperties
<1>2. IsPart(s, x, 1, n)
  BY PrefixIsPart
<1>3. s \in Seq(Int) /\ Len(s) = n /\ \A i \in 1..n : s[i] = x[i]
  <2>1. n - 1 + 1 = n /\ \A i \in 1..n : 1 + i - 1 = i
    BY <1>1
  <2> QED
    BY <1>2, <2>1 DEF IsPart
<1>4. \A i \in 1..n : FollowsBackslash(s)[i] <=> i > 1 /\ s[i - 1] = Backslash /\ ~FollowsBackslash(s)[i - 1]
  BY <1>3, EscapeFacts
<1>5. \A i \in 1..n : i \in 1..Len(x)
  BY <1>1
<1>6. \A i \in 1..n : FollowsBackslash(x)[i] <=> i > 1 /\ x[i - 1] = Backslash /\ ~FollowsBackslash(x)[i - 1]
  BY <1>5, EscapeFacts
<1> DEFINE bad == {i \in 1..n : ~(Taken(s, i) <=> Taken(x, i))}
<1>7. bad = {}
  <2> SUFFICES ASSUME bad # {} PROVE FALSE
    OBVIOUS
  <2>1. bad \in SUBSET Nat
    BY <1>1
  <2>2. PICK m \in bad : \A k \in bad : m <= k
    BY <2>1, LeastExists
  <2>3. m \in 1..n /\ ~(m <= m - 1)
    BY <1>1
  <2>4. m > 1 => m - 1 \in 1..n
    BY <1>1, <2>3
  <2>5. m > 1 => s[m - 1] = x[m - 1] /\ (Taken(s, m - 1) <=> Taken(x, m - 1))
    BY <1>3, <2>2, <2>3, <2>4
  <2>6. Taken(s, m) <=> m > 1 /\ s[m - 1] = Backslash /\ ~Taken(s, m - 1)
    BY <1>4, <2>3 DEF Taken
  <2>7. Taken(x, m) <=> m > 1 /\ x[m - 1] = Backslash /\ ~Taken(x, m - 1)
    BY <1>6, <2>3 DEF Taken
  <2>8. Taken(s, m) <=> Taken(x, m)
    BY <2>5, <2>6, <2>7
  <2> QED
    BY <2>8
<1> QED
  BY <1>7

LEMMA StringFits ==
  ASSUME NEW x \in Seq(Int), NEW n \in 1..Len(x), NEW s, s = SubSeq(x, 1, n)
  PROVE  IsString(s) <=> Closed(x, n)
<1>1. Len(x) \in Nat /\ n \in Nat /\ n \in 0..Len(x) /\ n > 0
  BY LenProperties
<1>2. IsPart(s, x, 1, n)
  BY <1>1, PrefixIsPart
<1>3. s \in Seq(Int) /\ Len(s) = n /\ \A i \in 1..n : s[i] = x[i]
  <2>1. n - 1 + 1 = n /\ \A i \in 1..n : 1 + i - 1 = i
    BY <1>1
  <2> QED
    BY <1>2, <2>1 DEF IsPart
<1>4. \A i \in 1..n : FollowsBackslash(s)[i] <=> Taken(x, i)
  BY <1>1, PrefixEscapes DEF Taken
<1>5. n > 1 => (Taken(x, n) <=> Pending(x, n - 1))
  <2>1. FollowsBackslash(x)[n] <=> n > 1 /\ x[n - 1] = Backslash /\ ~FollowsBackslash(x)[n - 1]
    BY EscapeFacts
  <2> QED
    BY <2>1 DEF Taken, Pending
<1>6. \A i \in 2..(n - 1) : i \in 1..n
  BY <1>1
<1>7. 1 \in 1..n /\ n \in 1..n
  BY <1>1
<1> DEFINE Middle == \A i \in 2..(n - 1) : x[i] \in Scanned /\ (x[i] = Quote => Taken(x, i))
<1>8. (\A i \in 2..(n - 1) : s[i] \in Scanned /\ (s[i] = Quote => FollowsBackslash(s)[i])) <=> Middle
  BY <1>3, <1>4, <1>6
<1>9. IsString(s) <=> n > 1 /\ x[1] = Quote /\ x[n] = Quote /\ ~Taken(x, n) /\ Middle
  <2> HIDE DEF Middle
  <2> QED
    BY <1>3, <1>4, <1>7, <1>8 DEF IsString
<1>10. n > 1 => (Unclosed(x, n - 1) <=> x[1] = Quote /\ Middle)
  <2>1. n > 1 => n - 1 > 0
    BY <1>1
  <2> QED
    BY <2>1 DEF Unclosed
<1> HIDE DEF Middle
<1> QED
  BY <1>5, <1>9, <1>10 DEF Closed

Pairs(h, C) == {<<h, c>> : c \in C}

LEMMA PairsOf ==
  ASSUME NEW s \in Seq(Int), NEW h, NEW C
  PROVE  s \in Pairs(h, C) <=> Len(s) = 2 /\ s[1] = h /\ s[2] \in C
<1>1. ASSUME NEW c \in C, s = <<h, c>> PROVE Len(s) = 2 /\ s[1] = h /\ s[2] \in C
  BY <1>1
<1>2. ASSUME Len(s) = 2, s[1] = h, s[2] \in C PROVE s = <<h, s[2]>>
  <2> DEFINE t == <<h, s[2]>>
  <2>1. t \in Seq({h, s[2]}) /\ Len(t) = 2 /\ t[1] = h /\ t[2] = s[2]
    OBVIOUS
  <2> HIDE DEF t
  <2>2. \A i \in 1..2 : i = 1 \/ i = 2
    OBVIOUS
  <2>3. s = [i \in 1..2 |-> s[i]] /\ t = [i \in 1..2 |-> t[i]]
    BY <1>2, <2>1, LenProperties
  <2>4. \A i \in 1..2 : s[i] = t[i]
    BY <1>2, <2>1, <2>2
  <2>5. s = t
    BY <2>3, <2>4
  <2> QED
    BY <2>5 DEF t
<1> QED
  BY <1>1, <1>2 DEF Pairs

\* The rules of scanner.flexc++, on the first n characters, and the languages of
\* the automaton.
LEMMA RulesFit ==
  ASSUME NEW x \in Seq(Int), NEW n \in 1..Len(x), NEW s, s = SubSeq(x, 1, n)
  PROVE  /\ Fits(BooleanRule, s) <=> Truth(x, n)
         /\ Fits(IntegerRule, s) <=> Number(x, 1, n)
         /\ Fits(RealRule, s) <=> Fixed(x, n) \/ Scientific(x, n)
         /\ Fits(StringRule, s) <=> Closed(x, n)
         /\ Fits(BinaryRule, s) <=> Bytes(x, n)
         /\ Fits(BlankRule, s) <=> Blank(x, n)
         /\ Fits(CharRule, s) <=> One(x, n, Scanned)
<1> USE DEF BooleanRule, IntegerRule, RealRule, StringRule, BinaryRule, BlankRule, CharRule
<1>1. n \in Nat /\ n > 0 /\ n \in 0..Len(x)
  BY LenProperties
<1>2. IsPart(s, x, 1, n)
  BY <1>1, PrefixIsPart
<1>3. s \in Seq(Int) /\ Len(s) = n /\ \A i \in 1..n : s[i] = x[i]
  <2>1. n - 1 + 1 = n /\ \A i \in 1..n : 1 + i - 1 = i
    BY <1>1
  <2> QED
    BY <1>2, <2>1 DEF IsPart
<1>4. s # <<>> /\ s[1] = x[1]
  <2>1. n # 1 - 1
    BY <1>1
  <2> QED
    BY <1>2, <2>1, PartFacts, SMTT(30)
<1>5. Fits(BooleanRule, s) <=> Truth(x, n)
  <2>1. Fits(BooleanRule, s) <=> s \in Pairs(Hash, Truths)
    BY DEF Fits, Pairs
  <2>2. s \in Pairs(Hash, Truths) <=> Len(s) = 2 /\ s[1] = Hash /\ s[2] \in Truths
    BY <1>3, PairsOf
  <2>3. n = 2 => s[2] = x[2]
    BY <1>3
  <2> QED
    BY <1>3, <1>4, <2>1, <2>2, <2>3 DEF Truth
<1>6. Fits(IntegerRule, s) <=> Number(x, 1, n)
  BY <1>2, IntegerPart DEF Fits
<1>7. Fits(RealRule, s) <=> Fixed(x, n) \/ Scientific(x, n)
  BY <1>2, RealFits DEF Fits
<1>8. Fits(StringRule, s) <=> Closed(x, n)
  <2>1. Fits(StringRule, s) <=> IsString(s)
    BY DEF Fits
  <2> QED
    BY <2>1, StringFits
<1>9. Fits(BinaryRule, s) <=> Bytes(x, n)
  <2>1. IsPart(Tail(s), x, 1 + 1, n)
    BY <1>2, <1>4, TailIsPart
  <2>2. AllIn(Tail(s), Base64 \union {Equal}) <=> AllFrom(x, 2, n, Base64 \union {Equal})
    BY <2>1, PartFacts
  <2>3. Fits(BinaryRule, s) <=> s[1] = Ampersand /\ AllIn(Tail(s), Base64 \union {Equal})
    BY DEF Fits
  <2> QED
    BY <1>1, <1>4, <2>2, <2>3 DEF Bytes
<1>10. Fits(BlankRule, s) <=> Blank(x, n)
  <2>1. AllIn(s, Blanks) <=> AllFrom(x, 1, n, Blanks)
    BY <1>2, PartFacts
  <2> QED
    BY <1>1, <2>1 DEF Fits, Blank
<1>11. Fits(CharRule, s) <=> One(x, n, Scanned)
  BY <1>3, <1>4, SMTT(60) DEF Fits, One
<1> QED
  BY <1>5, <1>6, <1>7, <1>8, <1>9, <1>10, <1>11

LEMMA FinalRules ==
  ASSUME NEW t \in {Dead} \union 0..15
  PROVE  /\ FinalRule[t] = BooleanRule <=> t = 12
         /\ FinalRule[t] = IntegerRule <=> t = 8
         /\ FinalRule[t] = RealRule <=> t \in {7, 15}
         /\ FinalRule[t] = StringRule <=> t = 10
         /\ FinalRule[t] = BinaryRule <=> t = 5
         /\ FinalRule[t] = BlankRule <=> t = 1
         /\ FinalRule[t] = CharRule <=> t \in {2, 3, 4, 6}
         /\ FinalRule[t] \in {NoRule} \union 0..6
<1> USE DEF BooleanRule, IntegerRule, RealRule, StringRule, BinaryRule, BlankRule, CharRule, NoRule, Dead
<1> DEFINE f == FinalRule[t]
<1>1. f = CASE t = 1 -> BlankRule
            [] t \in {2, 3, 4, 6} -> CharRule
            [] t = 5 -> BinaryRule
            [] t \in {7, 15} -> RealRule
            [] t = 8 -> IntegerRule
            [] t = 10 -> StringRule
            [] t = 12 -> BooleanRule
            [] OTHER -> NoRule
  BY DEF FinalRule
<1> HIDE DEF f
<1>2. /\ t = 1 => f = 5
      /\ t \in {2, 3, 4, 6} => f = 6
      /\ t = 5 => f = 4
      /\ t \in {7, 15} => f = 2
      /\ t = 8 => f = 1
      /\ t = 10 => f = 3
      /\ t = 12 => f = 0
      /\ t \notin {1, 2, 3, 4, 5, 6, 7, 8, 10, 12, 15} => f = -1
  BY <1>1
<1>3. t \in {1, 2, 3, 4, 5, 6, 7, 8, 10, 12, 15} \/ t \notin {1, 2, 3, 4, 5, 6, 7, 8, 10, 12, 15}
  OBVIOUS
<1>4. /\ f = BooleanRule <=> t = 12
      /\ f = IntegerRule <=> t = 8
      /\ f = RealRule <=> t \in {7, 15}
      /\ f = StringRule <=> t = 10
      /\ f = BinaryRule <=> t = 5
      /\ f = BlankRule <=> t = 1
      /\ f = CharRule <=> t \in {2, 3, 4, 6}
      /\ f \in {NoRule} \union 0..6
  BY <1>2, <1>3
<1> QED
  BY <1>4 DEF f

\* A first character is alone in a language.
LEMMA FirstCharacter ==
  ASSUME NEW x, NEW t, Describes(x, 1, t)
  PROVE  /\ x[1] \in Scanned => t \in 1..8
         /\ t \in {2, 3, 4, 6} => x[1] \in Scanned
<1>1. /\ t = 1 <=> Blank(x, 1)
      /\ t = 2 <=> One(x, 1, Scanned \ Special)
      /\ t = 3 <=> One(x, 1, {Quote})
      /\ t = 4 <=> One(x, 1, {Hash})
      /\ t = 5 <=> Bytes(x, 1)
      /\ t = 6 <=> One(x, 1, {Minus})
      /\ t = 7 <=> Fixed(x, 1)
      /\ t = 8 <=> Number(x, 1, 1)
  BY DEF Describes
<1>2. (x[1] \in Blanks => t = 1) /\ (x[1] = Ampersand => t = 5) /\ (x[1] \in Digits => t = 8)
  <2>1. Blank(x, 0 + 1) <=> x[0 + 1] \in Blanks /\ (0 = 0 \/ Blank(x, 0))
    BY BlankGoesOn
  <2>2. Bytes(x, 0 + 1) <=> (0 = 0 /\ x[1] = Ampersand) \/ (Bytes(x, 0) /\ x[0 + 1] \in Base64 \union {Equal})
    BY BytesGoOn
  <2>3. Number(x, 1, 1) <=> x[1] \in Digits
    BY NumberBegins
  <2> QED
    BY <1>1, <2>1, <2>2, <2>3
<1>3. x[1] = Dot => t = 7
  <2>1. Fixed(x, 0 + 1) <=>
          \/ x[0 + 1] = Dot /\ (0 = 0 \/ (0 = 1 /\ x[1] = Minus) \/ Number(x, 1, 0))
          \/ x[0 + 1] \in Digits /\ Fixed(x, 0)
    BY FixedGoesOn
  <2> QED
    BY <1>1, <2>1
<1>4. /\ x[1] \in Scanned \ Special => t = 2
      /\ x[1] = Quote => t = 3
      /\ x[1] = Hash => t = 4
      /\ x[1] = Minus => t = 6
  BY <1>1 DEF One
<1>5. x[1] \in Scanned =>
        \/ x[1] \in Scanned \ Special
        \/ x[1] \in Blanks
        \/ x[1] \in Digits
        \/ x[1] = Quote
        \/ x[1] = Hash
        \/ x[1] = Ampersand
        \/ x[1] = Minus
        \/ x[1] = Dot
  BY DEF Special
<1>6. x[1] \in Scanned => t \in 1..8
  <2> HIDE DEF Scanned, Special
  <2> QED
    BY <1>2, <1>3, <1>4, <1>5
<1>7. t \in {2, 3, 4, 6} => x[1] \in Scanned
  <2>1. Quote \in Scanned /\ Hash \in Scanned /\ Minus \in Scanned
    BY DEF Quote, Hash, Minus, Scanned
  <2> QED
    BY <1>1, <2>1 DEF One
<1> QED
  BY <1>6, <1>7

\* The rules that the first n characters fit, and the first of them.
FittingRules(x, n) == {r \in BooleanRule..CharRule : Fits(r, SubSeq(x, 1, n))}

LEMMA RuleOfState ==
  ASSUME NEW x \in Seq(Int), NEW n \in 1..Len(x), NEW t, Describes(x, n, t)
  PROVE  /\ FittingRules(x, n) # {} <=> FinalRule[t] # NoRule
         /\ FittingRules(x, n) # {} => Min(FittingRules(x, n)) = FinalRule[t]
<1> DEFINE s == SubSeq(x, 1, n)
           f == FinalRule[t]
           fits(r) == Fits(r, s)
           R == {r \in 0..6 : fits(r)}
<1>1. n \in Nat /\ n > 0 /\ t \in {Dead} \union 0..15
  BY LenProperties DEF Describes
<1>2. /\ fits(0) <=> Truth(x, n)
      /\ fits(1) <=> Number(x, 1, n)
      /\ fits(2) <=> Fixed(x, n) \/ Scientific(x, n)
      /\ fits(3) <=> Closed(x, n)
      /\ fits(4) <=> Bytes(x, n)
      /\ fits(5) <=> Blank(x, n)
      /\ fits(6) <=> One(x, n, Scanned)
  BY RulesFit DEF BooleanRule, IntegerRule, RealRule, StringRule, BinaryRule, BlankRule, CharRule
<1>3. FittingRules(x, n) = R
  BY DEF FittingRules, BooleanRule, CharRule
<1> HIDE DEF fits
<1>4. /\ fits(0) <=> t = 12
      /\ fits(1) <=> t = 8
      /\ fits(2) <=> t \in {7, 15}
      /\ fits(3) <=> t = 10
      /\ fits(4) <=> t = 5
      /\ fits(5) <=> t = 1
  BY <1>1, <1>2 DEF Describes
<1>5. (fits(6) => t \in 1..8) /\ (t \in {2, 3, 4, 6} => fits(6))
  <2>1. t \in {2, 3, 4, 6} => n = 1
    BY DEF Describes, One
  <2>2. n = 1 => (x[1] \in Scanned => t \in 1..8) /\ (t \in {2, 3, 4, 6} => x[1] \in Scanned)
    BY FirstCharacter
  <2>3. fits(6) <=> n = 1 /\ x[1] \in Scanned
    BY <1>2 DEF One
  <2> QED
    BY <2>1, <2>2, <2>3
<1>6. /\ f = 0 <=> t = 12
      /\ f = 1 <=> t = 8
      /\ f = 2 <=> t \in {7, 15}
      /\ f = 3 <=> t = 10
      /\ f = 4 <=> t = 5
      /\ f = 5 <=> t = 1
      /\ f = 6 <=> t \in {2, 3, 4, 6}
      /\ f \in {-1} \union 0..6
  BY <1>1, FinalRules DEF BooleanRule, IntegerRule, RealRule, StringRule, BinaryRule, BlankRule,
     CharRule, NoRule
<1> HIDE DEF f, s
<1>7. f # -1 => f \in R /\ \A r \in R : f <= r
  <2>1. \A r \in 0..6 : r \in {0, 1, 2, 3, 4, 5, 6}
    OBVIOUS
  <2>2. f # -1 => f \in R
    BY <1>4, <1>5, <1>6, SMTT(30)
  <2>3. ASSUME NEW r \in 0..6, fits(r), f # -1 PROVE f <= r
    <3>1. r = 6 \/ r = f
      BY <1>4, <1>6, <2>1, <2>3
    <3> QED
      BY <1>6, <2>3, <3>1
  <2> QED
    BY <2>2, <2>3
<1>8. R # {} => f # -1
  <2>1. ASSUME NEW r \in 0..6, fits(r) PROVE f # -1
    <3>1. r \in {0, 1, 2, 3, 4, 5, 6}
      OBVIOUS
    <3>2. r # 6 => f = r
      BY <1>4, <1>6, <2>1, <3>1
    <3>3. r = 6 => t \in 1..8
      BY <1>5, <2>1
    <3>4. t \in 1..8 => f # -1
      BY <1>6
    <3> QED
      BY <3>2, <3>3, <3>4
  <2> QED
    BY <2>1
<1>9. f # -1 => Min(R) = f
  <2> SUFFICES ASSUME f # -1 PROVE Min(R) = f
    OBVIOUS
  <2>1. f \in R /\ \A r \in R : f <= r
    BY <1>7
  <2>2. \A q, r \in R : q \in Int /\ r \in Int
    OBVIOUS
  <2> HIDE DEF R
  <2>3. \A m \in R : (\A r \in R : m <= r) => m = f
    BY <2>1, <2>2
  <2> QED
    BY <2>1, <2>3 DEF Min
<1> HIDE DEF R
<1>10. NoRule = -1
  BY DEF NoRule
<1>11. (R # {} <=> f # NoRule) /\ (R # {} => Min(R) = f)
  BY <1>7, <1>8, <1>9, <1>10
<1> QED
  BY <1>3, <1>11 DEF f

LEMMA GreatestExists ==
  ASSUME NEW n \in Nat, NEW S \in SUBSET (0..n), S # {}
  PROVE  Max(S) \in S
<1> DEFINE R == {n - k : k \in S}
<1>1. R \in SUBSET Nat /\ R # {}
  <2>1. \A k \in S : k \in 0..n
    OBVIOUS
  <2>2. \A k \in S : n - k \in Nat
    BY <2>1
  <2> QED
    BY <2>2
<1>2. PICK m \in R : \A k \in R : m <= k
  BY <1>1, LeastExists
<1>3. PICK g \in S : m = n - g
  BY <1>2
<1>4. ASSUME NEW k \in S PROVE g >= k
  <2>1. n - k \in R
    OBVIOUS
  <2>2. m <= n - k
    BY <1>2, <2>1
  <2>3. g \in Nat /\ k \in Nat
    OBVIOUS
  <2> QED
    BY <1>3, <2>2, <2>3
<1> QED
  BY <1>4 DEF Max

\* The automaton finds the longest match of the rules, and the first of them.
LEMMA MatchIsLongest ==
  ASSUME NEW x \in Seq(Int)
  PROVE  Match(Trace(x)) = Longest(x)
<1> DEFINE n == Len(x)
           T == Trace(x)
           Final(i) == FinalRule[T[i]] # NoRule
           final == {i \in DOMAIN T : Final(i)}
           lengths == {i \in DOMAIN x : FittingRules(x, i) # {}}
<1>1. /\ n \in Nat /\ DOMAIN T = 0..(n + 1) /\ \A i \in 0..n : Describes(x, i, T[i])
      /\ T[n + 1] = Dead
  BY Described
<1>2. DOMAIN x = 1..n
  BY LenProperties
<1> HIDE DEF n, T
<1>3. \A i \in 1..n : i \in 0..n
  BY <1>1
<1>4. \A i \in 1..n : /\ FittingRules(x, i) # {} <=> Final(i)
                      /\ FittingRules(x, i) # {} => Min(FittingRules(x, i)) = FinalRule[T[i]]
  BY <1>1, <1>3, RuleOfState DEF n
<1>5. ~Final(0) /\ ~Final(n + 1)
  <2>1. \A t \in {Dead, 0} : FinalRule[t] = NoRule
    <3>1. \A t \in {Dead, 0} : t \in {Dead} \union 0..15 /\ t \notin 1..15
      BY DEF Dead
    <3>2. \A t \in {Dead, 0} : FinalRule[t] \in {NoRule} \union 0..6 /\ FinalRule[t] \notin 0..6
      BY <3>1, FinalRules DEF BooleanRule, IntegerRule, RealRule, StringRule, BinaryRule, BlankRule, CharRule
    <3> QED
      BY <3>2
  <2>2. T[0] = 0
    <3>1. 0 \in 0..n
      BY <1>1
    <3> QED
      BY <1>1, <3>1 DEF Describes
  <2> QED
    BY <1>1, <2>1, <2>2
<1>6. final = lengths
  <2>1. \A i \in 0..(n + 1) : i = 0 \/ i = n + 1 \/ i \in 1..n
    BY <1>1
  <2>2. \A i \in 1..n : i \in 0..(n + 1)
    BY <1>1
  <2> HIDE DEF Final
  <2>3. \A i : i \in final <=> i \in 1..n /\ Final(i)
    BY <1>1, <1>5, <2>1, <2>2
  <2>4. \A i : i \in lengths <=> i \in 1..n /\ Final(i)
    BY <1>2, <1>4
  <2> HIDE DEF final, lengths
  <2> QED
    BY <2>3, <2>4
<1>7. Match(T) = IF final = {} THEN [rule |-> NoRule, length |-> 0]
                 ELSE [rule |-> FinalRule[T[Max(final)]], length |-> Max(final)]
  BY DEF Match
<1>8. Longest(x) = IF lengths = {} THEN [rule |-> NoRule, length |-> 0]
                   ELSE [rule |-> Min(FittingRules(x, Max(lengths))), length |-> Max(lengths)]
  BY DEF Longest, FittingRules
<1>9. lengths # {} => Max(lengths) \in 1..n /\ FittingRules(x, Max(lengths)) # {}
  <2>1. lengths \in SUBSET (0..n)
    BY <1>2, <1>3
  <2> HIDE DEF lengths
  <2>2. lengths # {} => Max(lengths) \in lengths
    BY <1>1, <2>1, GreatestExists
  <2> QED
    BY <1>2, <2>2 DEF lengths
<1>10. lengths # {} => Min(FittingRules(x, Max(lengths))) = FinalRule[T[Max(lengths)]]
  BY <1>4, <1>9
<1> HIDE DEF final, lengths
<1> QED
  BY <1>6, <1>7, <1>8, <1>10 DEF T

\* The scanner finds, wherever it goes on in whatever text, the longest match of
\* the rules of scanner.flexc++, and of those that have it the first: the tables
\* of the generated automaton are those of the rules.
THEOREM ScannerFollowsItsRules == Spec => []ScannerFollowsRules
<1>1. text \in Texts => ScannerFollowsRules
  <2> SUFFICES ASSUME text \in Texts, NEW p \in DOMAIN text
               PROVE  Match(Trace(SubSeq(text, p, Len(text)))) = Longest(SubSeq(text, p, Len(text)))
    BY DEF ScannerFollowsRules
  <2>1. text \in Seq(0..255)
    BY TextsAssumption
  <2>2. Len(text) \in Nat /\ DOMAIN text = 1..Len(text) /\ \A i \in 1..Len(text) : text[i] \in Int
    <3>1. Len(text) \in Nat /\ DOMAIN text = 1..Len(text) /\ \A i \in 1..Len(text) : text[i] \in 0..255
      BY <2>1, LenProperties, ElementOfSeq, SMTT(30)
    <3>2. \A c \in 0..255 : c \in Int
      OBVIOUS
    <3> QED
      BY <3>1, <3>2
  <2>3. \A i \in p..Len(text) : text[i] \in Int
    BY <2>2
  <2>4. SubSeq(text, p, Len(text)) \in Seq(Int)
    BY <2>2, <2>3, SubSeqProperties
  <2> QED
    BY <2>4, MatchIsLongest
<1>2. Init => text \in Texts
  BY DEF Init
<1>3. text \in Texts /\ [Next]_vars => (text \in Texts)'
  BY DEF Next, NextToken, Shift, Reduce, Unexpected, Accepted, TakeResult, vars
<1> QED
  BY <1>1, <1>2, <1>3, PTL DEF Spec
=============================================================================
