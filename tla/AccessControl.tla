--------------------------- MODULE AccessControl ----------------------------
(***************************************************************************)
(* What a request does with the objects and with the userlevel of the      *)
(* client that makes it: basic_client_context, and the part of             *)
(* clisrv_context::process_request() that follows the parsing of the line. *)
(* A request names its object directly, or none if its URI names none.     *)
(***************************************************************************)
EXTENDS Integers, Sequences

CONSTANTS Objects, NoObject,
          Kind,        \* the class of each object
          Unhandled,   \* those of a handler variant for which no handler is set
          Children,    \* of each object
          Position,    \* of each object in the order in which a visit comes to them
          Readlevel, Writelevel,
          Values,      \* that can be converted to the types of all parameters
          Refused,     \* those that verify() or external_value(v) throws for
          Ignored,     \* those that external_value(v) returns false for
          Untellable,  \* those that to_generic() throws for: unsigned ones beyond integer_t
          BadValue,    \* one of another type
          Granted      \* the userlevels that userlevel_cb_ grants

ASSUME ObjectsAssumption ==
  /\ NoObject \notin Objects
  /\ Kind \in [Objects -> {"node", "event", "writeonly", "managed_readonly", "managed_readwrite",
                          "external_readonly", "external_readwrite"}]
  /\ Unhandled \subseteq {o \in Objects : Kind[o] \notin {"node", "managed_readonly"}}
  /\ Children \in [Objects -> SUBSET Objects] /\ Position \in [Objects -> Nat]
  /\ Readlevel \in [Objects -> Int] /\ Writelevel \in [Objects -> Int]
  /\ Refused \subseteq Values /\ Ignored \subseteq Values \ Refused /\ Untellable \subseteq Values
  /\ BadValue \notin Values /\ Granted \subseteq Int

\* enum userlevel_t
Minimum == 0
Normal == 3
Readonly == 4
Maximum == Readonly
Userlevels == Minimum..Maximum
\* Above all of them.
Forbidden == 2147483647

\* basic_client_context::effective_userlevel
EffectiveUserlevel(level) == IF level = Readonly THEN Normal ELSE level

Is(o, kinds) == o # NoObject /\ Kind[o] \in kinds
\* What has a client_read_interface, a node among them, a client_write_interface and
\* a handler to ask for the value.
Readable == {"node", "managed_readonly", "managed_readwrite", "external_readonly", "external_readwrite"}
Writable == {"managed_readwrite", "external_readwrite", "writeonly"}
External == {"external_readonly", "external_readwrite"}

\* What process_request() makes of a request: the output, none for an empty
\* line, and the state it leaves.
Result(output, store, level) == [output |-> output, store |-> store, level |-> level]
Reply(kind, data) == <<[kind |-> kind, data |-> data]>>
Nothing == [x \in {} |-> x]
ErrorCodes == {"access_denied", "invalid_parameter", "wrong_type", "invalid_value",
               "invalid_userlevel", "not_implemented", "parse_error"}

\* The catch clauses.
Error(code, store, level) == Result(Reply(code, Nothing), store, level)

\* A value is refused by the handler, which a managed parameter does not ask for
\* the value that it has already.
IsRefused(o, v, store) ==
  /\ v \in Refused /\ o \notin Unhandled
  /\ Kind[o] = "managed_readwrite" => v # store[o]

\* A value is dropped without an error, by a writeonly parameter without a handler
\* or by the handler of an external one.
IsIgnored(o, v) ==
  \/ o \in Unhandled /\ Kind[o] = "writeonly"
  \/ v \in Ignored /\ Kind[o] = "external_readwrite"

\* What the setter of a parameter leaves.
Stored(o, v, store) == IF IsIgnored(o, v) THEN store ELSE [store EXCEPT ![o] = v]

\* emit() throws for the value that the setter has stored, whether there are
\* subscribers or not; what is not new to a managed parameter is not emitted.
IsUnreported(o, v, store) ==
  /\ v \in Untellable /\ ~IsIgnored(o, v) /\ Kind[o] # "writeonly"
  /\ Kind[o] = "managed_readwrite" => v # store[o]

\* An external parameter without a handler has no value.
IsMissing(o) == o \in Unhandled /\ Kind[o] \in External

\* The value of a parameter cannot be read.
IsUnreadable(o, store) == IsMissing(o) \/ (Kind[o] # "node" /\ store[o] \in Untellable)

\* The error that reading it ends with.
ErrorOf(o) == IF IsMissing(o) THEN "not_implemented" ELSE "invalid_value"

\* Mutant: the value is stored before it is verified.
SetParameterUnverified(o, v, store, level) ==
  IF level = Readonly THEN Error("access_denied", store, level)
  ELSE IF ~Is(o, Writable) THEN Error("invalid_parameter", store, level)
  ELSE IF level > Writelevel[o] THEN Error("access_denied", store, level)
  ELSE IF v = BadValue THEN Error("wrong_type", store, level)
  ELSE IF IsMissing(o) THEN Error("not_implemented", store, level)
  ELSE IF IsRefused(o, v, store) \/ IsUnreported(o, v, store)
    THEN Error("invalid_value", Stored(o, v, store), level)
  ELSE Result(Reply("ok", Nothing), Stored(o, v, store), level)

\* basic_client_context::set_parameter.  The error of emit() comes after the value
\* has been stored.
SetParameter(o, v, store, level) ==
  IF level = Readonly THEN Error("access_denied", store, level)
  ELSE IF ~Is(o, Writable) THEN Error("invalid_parameter", store, level)
  ELSE IF level > Writelevel[o] THEN Error("access_denied", store, level)
  ELSE IF v = BadValue THEN Error("wrong_type", store, level)
  ELSE IF IsMissing(o) THEN Error("not_implemented", store, level)
  ELSE IF IsRefused(o, v, store) THEN Error("invalid_value", store, level)
  ELSE IF IsUnreported(o, v, store) THEN Error("invalid_value", Stored(o, v, store), level)
  ELSE Result(Reply("ok", Nothing), Stored(o, v, store), level)

\* The value of a node is the names of its children, whoever may read them.
ValueOf(o, store) == IF Kind[o] = "node" THEN Children[o] ELSE store[o]

\* basic_client_context::get_parameter
GetParameter(o, store, level) ==
  IF ~Is(o, Readable) THEN Error("invalid_parameter", store, level)
  ELSE IF EffectiveUserlevel(level) > Readlevel[o] THEN Error("access_denied", store, level)
  ELSE IF IsUnreadable(o, store) THEN Error(ErrorOf(o), store, level)
  ELSE Result(Reply("value", [x \in {o} |-> ValueOf(x, store)]), store, level)

\* handler_event::signal; the value of an event is how often its handler has been
\* called.
Signalled(o, store) == IF o \in Unhandled THEN store ELSE [store EXCEPT ![o] = @ + 1]

\* basic_client_context::signal_event
SignalEvent(o, store, level) ==
  IF level = Readonly THEN Error("access_denied", store, level)
  ELSE IF ~Is(o, {"event"}) THEN Error("invalid_parameter", store, level)
  ELSE IF level > Writelevel[o] THEN Error("access_denied", store, level)
  ELSE Result(Reply("ok", Nothing), Signalled(o, store), level)

\* basic_client_context::browse_object: the readlevel of the object to begin with
\* is not looked at.
Visited(start, level) ==
  LET Below[o \in Objects] ==
        {o} \union UNION {Below[c] : c \in {x \in Children[o] : EffectiveUserlevel(level) <= Readlevel[x]}}
  IN Below[start]

\* What browse_visitor shows: nodes, without a value, and readable parameters.
Shown(o, level) == {x \in Visited(o, level) : Is(x, Readable)}

\* The object of a set that a visit comes to first.
First(S) == CHOOSE x \in S : \A y \in S : Position[x] <= Position[y]

\* The operation browse.  The first parameter that cannot be read ends the visit,
\* and nothing of it is written.
Browse(o, store, level) ==
  LET unreadable == {x \in Shown(o, level) : IsUnreadable(x, store)} IN
  IF o = NoObject THEN Error("invalid_parameter", store, level)
  ELSE IF unreadable # {} THEN Error(ErrorOf(First(unreadable)), store, level)
  ELSE Result(Reply("values", [x \in Shown(o, level) |-> store[x]]), store, level)

\* tree_visitor::write_param: RO is what no userlevel may write.
Access(o) == IF Writelevel[o] = Forbidden THEN "RO" ELSE "RW"

\* What tree_visitor shows of an object, for which it asks for no value.
Entry(x) ==
  CASE Kind[x] = "node" -> "NODE"
    [] Kind[x] = "event" -> "EVENT"
    [] OTHER -> Access(x)

\* The operation tree.
Tree(o, store, level) ==
  IF o = NoObject THEN Error("invalid_parameter", store, level)
  ELSE Result(Reply("tree", [x \in Visited(o, level) |-> Entry(x)]), store, level)

\* exec change-ul
ChangeUserlevel(ul, store, level) ==
  IF ul \notin Granted THEN Error("access_denied", store, level)
  ELSE IF ul \notin Userlevels THEN Error("invalid_userlevel", store, level)
  ELSE Result(Reply("value", [x \in {NoObject} |-> ul]), store, ul)

\* clisrv_context::process_request
Answer(r, store, level) ==
  CASE r.op = "empty" -> Result(<<>>, store, level)
    [] r.op = "change-ul" -> ChangeUserlevel(r.value, store, level)
    [] r.op = "ul" -> Result(Reply("value", [x \in {NoObject} |-> level]), store, level)
    [] r.op = "get" -> GetParameter(r.object, store, level)
    [] r.op = "set" -> SetParameter(r.object, r.value, store, level)
    [] r.op = "signal" -> SignalEvent(r.object, store, level)
    [] r.op = "browse" -> Browse(r.object, store, level)
    [] r.op = "tree" -> Tree(r.object, store, level)
    [] OTHER -> Error("parse_error", store, level)
=============================================================================
