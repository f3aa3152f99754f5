---------------------------- MODULE RequestReply ----------------------------
(***************************************************************************)
(* What the request/response model promises its clients: each is greeted,  *)
(* its requests take effect one by one in the order in which it has sent   *)
(* them, and it gets their replies in that order.  Each takes effect at    *)
(* once, on the state that the requests of all clients before it left.     *)
(***************************************************************************)
EXTENDS AccessControl

CONSTANTS Clients,
          Requests,    \* that each client may send
          Initial,     \* the values of the objects in the beginning
          Userlevel,   \* of a new client
          Greeting
VARIABLES asked,     \* the requests that each client has sent
          served,    \* how many of them have taken effect
          replies,   \* what the server has replied to each
          seen,      \* how many of these replies have come in
          store, level
vars == <<asked, served, replies, seen, store, level>>

Init ==
  /\ asked = [c \in Clients |-> <<>>] /\ served = [c \in Clients |-> 0]
  /\ replies = [c \in Clients |-> <<>>] /\ seen = [c \in Clients |-> 0]
  /\ store = Initial /\ level = [c \in Clients |-> Userlevel]

Greet(c) ==
  /\ replies[c] = <<>>
  /\ replies' = [replies EXCEPT ![c] = <<Greeting>>]
  /\ UNCHANGED <<asked, served, seen, store, level>>

Ask(c, r) ==
  /\ asked' = [asked EXCEPT ![c] = Append(@, r)]
  /\ UNCHANGED <<served, replies, seen, store, level>>

Serve(c) ==
  /\ replies[c] # <<>> /\ served[c] < Len(asked[c])
  /\ LET result == Answer(asked[c][served[c] + 1], store, level[c]) IN
     /\ replies' = [replies EXCEPT ![c] = @ \o result.output]
     /\ store' = result.store /\ level' = [level EXCEPT ![c] = result.level]
  /\ served' = [served EXCEPT ![c] = @ + 1]
  /\ UNCHANGED <<asked, seen>>

See(c) ==
  /\ seen[c] < Len(replies[c])
  /\ seen' = [seen EXCEPT ![c] = @ + 1]
  /\ UNCHANGED <<asked, served, replies, store, level>>

Next == \E c \in Clients : Greet(c) \/ Serve(c) \/ See(c) \/ \E r \in Requests[c] : Ask(c, r)

Spec == Init /\ [][Next]_vars
=============================================================================
