--------------------------- MODULE MCScgiContext ---------------------------
(* Streams for ScgiContext: requests, and requests with one byte changed. *)
EXTENDS ScgiContext

Header(name, value) == <<name, Nul, value, Nul>>

\* A request as the tests write it, without the netstring's length; size is the
\* value of CONTENT_LENGTH.
HeadersSized(size, method, uri) ==
  <<ContentLength, Nul>> \o size \o <<Nul>> \o Header(Scgi, 1)
    \o Header(RequestMethod, method) \o Header(RequestUri, uri) \o Header(Remote, Letter)
Headers(method, uri, body) == HeadersSized(<<Len(body)>>, method, uri)

Encode(headers, body) ==
  <<Len(headers) \div 10, Len(headers) % 10, Colon>> \o headers \o <<Comma>> \o body

Request(method, body) == Encode(Headers(method, Letter, body), body)

Get == Request(30, <<>>)
Put == Request(31, <<Space, 1, Letter>>)
Post == Request(32, <<>>)

\* One byte of s is replaced or left out, or one is added at the end.
Mutations(s) ==
  {[s EXCEPT ![i] = b] : i \in DOMAIN s, b \in {0, 1, 2, Colon, Comma, Nul, Letter}}
    \union {RemoveAt(s, i) : i \in DOMAIN s}
    \union {Append(s, b) : b \in {1, Space}}

\* The shortest requests, which the parser accepts.
Minimal == {<<0, Colon, Comma>>, Encode(Header(ContentLength, 0) \o Header(Scgi, 1), <<>>)}

\* A header that is repeated, with a method that is not known.
Repeated == {Encode(Headers(30, Letter, <<>>) \o Header(RequestMethod, m), <<>>) : m \in {31, Letter}}

\* Requests of one byte whose size has a sign or is at the limit: with SizeMax
\* 255, -255 is 1, -1 is never reached, and 256 and -256 are not read.
SizedStreams ==
  {Encode(HeadersSized(size, 31, Letter), <<Letter>>) :
     size \in {<<Plus, 1>>, <<Minus, 2, 5, 5>>, <<Minus, 1>>, <<Minus, 0>>, <<2, 5, 6>>,
               <<Minus, 2, 5, 6>>, <<Plus>>, <<Minus>>, <<Plus, Minus, 1>>, <<1, Plus>>}}

\* A netstring whose length exceeds SizeMax.
TooLong == <<2, 5, 6, Colon, ContentLength>>

ChangedStreams == SizedStreams \union {TooLong} \union Minimal \union Repeated \union UNION {Mutations(s) : s \in {Get, Put}} \union {Get, Put, Post}

\* Two requests on one connection.
TwoRequests == {Put \o Get, Get \o Put}
=============================================================================
