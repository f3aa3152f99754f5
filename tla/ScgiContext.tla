---------------------------- MODULE ScgiContext ----------------------------
(***************************************************************************)
(* One decof::scgi::scgi_context: a connection from a web server.  What the *)
(* client sends arrives in chunks of any size; each chunk is parsed by one *)
(* read handler, and a complete request is served and answered before the  *)
(* next read.                                                              *)
(***************************************************************************)
EXTENDS ScgiParser

CONSTANTS Streams,    \* what a client may send, as sequences of bytes
          InbufSize,  \* inbuf_size_, the largest chunk
          MaxReplies  \* bound on the responses of one connection

ASSUME StreamAssumption ==
  /\ InbufSize \in Nat \ {0}
  /\ MaxReplies \in Nat \ {0}
  /\ \A s \in Streams : s \in Seq(Byte) /\ s # <<>>

VARIABLES stream,     \* what the client of this connection sends
          taken,      \* how many bytes of it have been read
          parser,     \* parser_
          operation,  \* the asynchronous operation under way
          open,       \* the socket is open
          peer,       \* the client is there
          served,     \* the calls made on the object dictionary
          replies     \* the status of the responses given

vars == <<stream, taken, parser, operation, open, peer, served, replies>>

\* How a call on the object dictionary, or the conversion of a body, may end.
Outcome == {"none", "access_denied", "invalid_parameter", "runtime", "other"}

\* The catch clauses of read_handler.
Status == [e \in Outcome |->
  CASE e = "none" -> "ok" [] e = "access_denied" -> "unauthorized"
    [] e = "invalid_parameter" -> "not_found" [] e = "runtime" -> "bad_request"
    [] e = "other" -> "internal_server_error"]

Init ==
  /\ stream \in Streams
  /\ taken = 0
  /\ parser = ResetParser
  /\ operation = "read"
  /\ open = TRUE
  /\ peer = TRUE
  /\ served = <<>>
  /\ replies = <<>>

-----------------------------------------------------------------------------

\* boost::algorithm::trim_if on the body.
Trim(s) ==
  LET kept == {i \in DOMAIN s : s[i] # Space} IN
  IF kept = {} THEN <<>> ELSE SubSeq(s, Min(kept), Max(kept))

\* send_response starts the only operation.
SendResponse(status) ==
  /\ replies' = Append(replies, status)
  /\ operation' = "write"

\* A call on the object dictionary for the request p, which ends with e.
Serve(p, body, e) ==
  /\ served' = Append(served, [method |-> p.method, uri |-> p.uri, body |-> body])
  /\ SendResponse(Status[e])

\* A request that fails before the dictionary is called.
Refuse == UNCHANGED served /\ SendResponse("bad_request")

\* handle_put_request trims the body of the parser itself.  A string value
\* moves it out; the other content types leave it.  The conversion may fail.
HandlePut(p) ==
  LET body == Trim(p.body) IN
  \/ Refuse /\ parser' = [p EXCEPT !.body = body]
  \/ \E e \in Outcome, kept \in {body, <<>>} :
       Serve(p, body, e) /\ parser' = [p EXCEPT !.body = kept]

\* handle_get_request and handle_post_request.
HandleGetOrPost(p) == \E e \in Outcome : Serve(p, <<>>, e) /\ parser' = p

\* A complete request: without the address of the client it is refused, and so
\* is one whose method is not known.
HandleRequest(p) ==
  IF <<Remote>> \notin p.headers THEN Refuse /\ parser' = p
  ELSE CASE p.method \in {"get", "post"} -> HandleGetOrPost(p)
         [] p.method = "put" -> HandlePut(p)
         [] p.method = "undefined" -> Refuse /\ parser' = p

\* Mutant: an incomplete request ends the reading.
ReadHandlerOkOnce(n) ==
  /\ operation = "read" /\ open /\ Len(replies) < MaxReplies
  /\ n <= InbufSize /\ taken + n <= Len(stream)
  /\ taken' = taken + n
  /\ LET p == Parse(parser, SubSeq(stream, taken + 1, taken + n)) IN
       CASE p.result = "good" -> HandleRequest(p)
         [] p.result = "bad" -> Refuse /\ parser' = p
         [] p.result = "indeterminate" -> parser' = p /\ operation' = "none" /\ UNCHANGED <<served, replies>>
  /\ UNCHANGED <<stream, open, peer>>

\* n bytes have arrived and read_handler is called.
ReadHandlerOk(n) ==
  /\ operation = "read" /\ open /\ Len(replies) < MaxReplies
  /\ n <= InbufSize /\ taken + n <= Len(stream)
  /\ taken' = taken + n
  /\ LET p == Parse(parser, SubSeq(stream, taken + 1, taken + n)) IN
       CASE p.result = "good" -> HandleRequest(p)
         [] p.result = "bad" -> Refuse /\ parser' = p
         [] p.result = "indeterminate" -> parser' = p /\ UNCHANGED <<operation, served, replies>>
  /\ UNCHANGED <<stream, open, peer>>

\* The response is written: the next read is started.
WriteHandlerOk ==
  /\ operation = "write" /\ open
  /\ operation' = "read"
  /\ UNCHANGED <<stream, taken, parser, open, peer, served, replies>>

\* disconnect, called from either handler with an error: nothing keeps the
\* context any longer.
HandlerError ==
  /\ operation # "none" /\ ~peer
  /\ operation' = "none"
  /\ open' = FALSE
  /\ UNCHANGED <<stream, taken, parser, peer, served, replies>>

PeerGoes ==
  /\ peer
  /\ peer' = FALSE
  /\ UNCHANGED <<stream, taken, parser, operation, open, served, replies>>

ReadAny == \E n \in 1..InbufSize : ReadHandlerOk(n)

Next == ReadAny \/ WriteHandlerOk \/ HandlerError \/ PeerGoes

Spec == Init /\ [][Next]_vars

\* The network delivers what was sent, and finished operations get their
\* handlers called.
FairSpec == Spec /\ WF_vars(ReadAny) /\ WF_vars(WriteHandlerOk)

-----------------------------------------------------------------------------
(* Properties *)

Taken == SubSeq(stream, 1, taken)

\* The types, and the size of the body, which exceeds that of the header by at
\* most the byte that the guard lets pass.
TypeOK ==
  /\ stream \in Streams
  /\ taken \in 0..Len(stream)
  /\ operation \in {"read", "write", "none"}
  /\ open = (operation # "none")
  /\ peer \in BOOLEAN
  /\ parser.state \in {"netstring_length", "header_start", "header_value", "body_range"}
  /\ parser.result \in {"good", "bad", "indeterminate"}
  /\ Len(parser.body) <= parser.contentLength + 1
  /\ \A s \in ToSet(served) : s.method \in {"get", "put", "post"}
  /\ ToSet(replies) \subseteq {Status[e] : e \in Outcome}

\* What is called on the object dictionary for the first request is what the
\* reference reads from the bytes taken so far (a body without the white
\* space around it), and only if these are exactly one complete request,
\* whatever chunks they came in.
FirstServedIsSent ==
  Len(served) = 1 /\ Len(replies) = 1 /\ operation = "write" =>
    /\ WellFormed(Taken)
    /\ served[1] = [method |-> RequestOf(Taken).method,
                    uri |-> RequestOf(Taken).uri,
                    body |-> IF RequestOf(Taken).method = "put" THEN Trim(RequestOf(Taken).body) ELSE <<>>]

\* A complete request is not waited upon, nor refused unless it is a PUT whose
\* body cannot be converted.
CompleteIsServed ==
  operation # "none" /\ Len(replies) <= 1 /\ taken > 0 /\ WellFormed(Taken) =>
    /\ replies # <<>>
    /\ RequestOf(Taken).remote /\ RequestOf(Taken).method \in {"get", "post"} => served # <<>>

\* The end of the connection apart, a client that sends one complete request is
\* answered.
RequestIsAnswered == WellFormed(stream) ~> (replies # <<>> \/ ~peer)

\* "good when a complete request has been parsed" (request_parser.h): what is
\* served is a complete request somewhere in the stream.
OnlyCompleteRequestsAreServed ==
  \A s \in ToSet(served) : \E i \in 1..taken : \E j \in i..taken :
    LET part == SubSeq(stream, i, j) IN
    WellFormed(part) /\ RequestOf(part).method = s.method /\ Trim(RequestOf(part).body) = s.body
=============================================================================
