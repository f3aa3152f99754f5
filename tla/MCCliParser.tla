---------------------------- MODULE MCCliParser -----------------------------
(* CliParser for TLC: all texts of a few lexemes, and encodings of values. *)
EXTENDS CliParser

CONSTANTS MaxLexemes,  \* of all kinds
          MaxItems     \* items, commas and brackets

\* #t #f - 7 12 . e ; brackets and a comma; "\n" "\q" and a single quote; binaries;
\* a blank, a control character, one above 127 and the beginning of a word.
MCLexemes ==
  {<<35, 116>>, <<35, 102>>, <<45>>, <<55>>, <<49, 50>>, <<46>>, <<101>>,
   <<91>>, <<93>>, <<123>>, <<125>>, <<44>>,
   <<34, 92, 110, 34>>, <<34, 92, 113, 34>>, <<34>>, <<38, 65, 81, 61, 61>>,
   <<32>>, <<1>>, <<200>>, <<116>>}

MCScalars ==
  {Boolean(TRUE), Boolean(FALSE), Scalar("integer", <<0>>), Scalar("integer", <<-40>>),
   Scalar("integer", <<IntMax>>), Scalar("integer", <<-IntMax>>),
   Scalar("string", <<>>), Scalar("string", <<92, 34, 10, 63>>),
   Scalar("string", <<0, 1, 31, 32, 97, 127, 128, 255>>),
   Scalar("binary", <<>>), Scalar("binary", <<1>>), Scalar("binary", <<200, 255>>),
   Scalar("binary", <<0, 16, 131, 7>>)}

MCSamples ==
  {Value("scalar", <<v>>) : v \in MCScalars}
    \union {Value(k, s) : k \in {"sequence", "tuple"}, s \in {<<>>} \union {<<v>> : v \in MCScalars}}
    \union {Value("tuple", <<v, w>>) : v \in {x \in MCScalars : ScalarBase(x, 10) = 10}, w \in MCScalars}

\* [ ] { , 7
MCBrackets == {<<91>>, <<93>>, <<123>>, <<44>>, <<55>>}

\* Binaries that are not base64 are left out: base64decode reads past their end.
Decodable(t) ==
  \A p \in DOMAIN t :
    LET l == Turn(SubSeq(t, p, Len(t))) IN l.token = BINARY => IsBase64(Tail(l.matched))

\* ` 7.e6`, ` 70.e5` and ` .07e-4` are in the range of a real if RealOrder is 6,
\* ` 7.e7`, ` 70.e6`, ` .07e-5` and ` 7.e-999` are not; ` -0.e999` is zero.
MCReals ==
  {<<32, 55, 46, 101, 54>>, <<32, 55, 48, 46, 101, 53>>, <<32, 46, 48, 55, 101, 45, 52>>,
   <<32, 55, 46, 101, 55>>, <<32, 55, 48, 46, 101, 54>>, <<32, 46, 48, 55, 101, 45, 53>>,
   <<32, 55, 46, 101, 45, 57, 57, 57>>, <<32, 45, 48, 46, 101, 57, 57, 57>>}

\* A blank follows the URI, and none is at the end of a request.
MCTexts ==
  LET some == UNION {[1..n -> MCLexemes] : n \in 1..MaxLexemes}
                \union UNION {[1..n -> MCBrackets] : n \in 1..MaxItems}
      written == {<<32>> \o FlattenSeq(s) : s \in {x \in some : Last(x) # <<32>>}}
  IN {t \in written : Decodable(t)} \union MCReals \union {<<32>> \o Encode(v) : v \in MCSamples}
=============================================================================
