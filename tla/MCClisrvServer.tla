--------------------------- MODULE MCClisrvServer ---------------------------
(* ClisrvServer for TLC: two clients, a node with a parameter of each kind, one of
   them (ext) without a handler. *)
EXTENDS ClisrvServer, TLC

CONSTANTS root, rw, ro, wo, ev, ext, dev, c1, c2

MCKind ==
  root :> "node" @@ rw :> "managed_readwrite" @@ ro :> "external_readonly" @@ wo :> "writeonly"
    @@ ev :> "event" @@ ext :> "external_readwrite" @@ dev :> "external_readwrite"
MCPosition ==
  root :> 0 @@ rw :> 1 @@ ro :> 2 @@ wo :> 3 @@ ev :> 4 @@ ext :> 5 @@ dev :> 6
MCChildren == [o \in Objects |-> IF o = root THEN {rw, ro, wo, ev} ELSE {}]
MCReadlevel == [o \in Objects |-> CASE o = ro -> 1 [] o \in {wo, ev} -> Forbidden [] OTHER -> Normal]
MCWritelevel == [o \in Objects |-> CASE o = wo -> 1 [] o = ro -> Forbidden [] OTHER -> Normal]
MCInitial == [o \in Objects |-> 0]
MCGreeting == [kind |-> "greeting", data |-> Nothing]

Request(op, o, v) == [op |-> op, object |-> o, value |-> v]
MCRequests ==
  c1 :> {Request("set", rw, 1), Request("set", rw, 4), Request("empty", NoObject, 0),
         Request("signal", ev, 0), Request("change-ul", NoObject, 4), Request("change-ul", NoObject, 9)}
  @@ c2 :> {Request("get", rw, 0), Request("get", root, 0), Request("set", rw, 3), Request("set", wo, 1),
            Request("browse", root, 0), Request("browse", ext, 0), Request("tree", root, 0),
            Request("set", dev, 2), Request("set", dev, 4), Request("set", dev, 5)}
MCMaxRequests == c1 :> 2 @@ c2 :> 1
=============================================================================
