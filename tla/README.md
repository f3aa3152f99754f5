# Formal models of DeCoF2

DeCoF2 is a C++ framework for device control servers: an *object dictionary*
holds a tree of parameters, nodes and events; clients reach it over TCP with a
request/response protocol, a publish/subscribe protocol, or SCGI.  This
directory holds TLA+ models of it, TLC configurations that check them, and
TLAPS proofs.  Paths below are relative to the repository root.

## 1. Inventory

All handlers (reads, writes, accepts, timers, posted work) run on one
`boost::asio` strand, so a handler is never interrupted by another.  What is
concurrent is everything between handlers: the kernel finishing reads and
writes, peers going away, devices changing their values, and the order in
which completed operations are served.  The only other threads are those of an
application, which hand their results to the strand by the executor.

| Component | State | Operations | Interacts with |
|---|---|---|---|
| `update_container` (`src/cli`) | map of pending updates threaded into a list, `front_`, `back_` | `push`, `pop_front`, `empty` | owned by `pubsub_context` |
| `pubsub_context` (`src/cli`) | `pending_updates_`, `outbuf_`, `inbuf_`, `writing_active_`, socket | read/write handlers, `notify`, `preload_writing`, `process_request`, `close` | called by parameter signals; calls `client_context`, connection and request callbacks |
| `client_context` (`src/core`) | `observables_`: URI to scoped connection | `observe`, `unobserve`, `tick`, destruction | parameters, dictionary |
| `basic_client_context` (`src/core`) | `userlevel_` | get, set, signal, browse, user level | objects, dictionary's current context |
| parameters (`include/decof`) | `value_`, signal, `observations_`, `last_value_` | client get/set, server set, `observe`, `unobserve`, `tick`, `value_changed` | dictionary (tick targets), slots of contexts |
| `object_dictionary`, `node`, `object` (`src/core`) | tree, `tick_targets_`, current context | add/remove child, lookups, `register_for_tick`, `tick` | all of the above |
| `asio_tick_context` (`src/asio_tick`) | timer | `preload`, `tick_handler` | dictionary |
| `generic_tcp_server` | acceptor, one socket | `preload`, `accept_handler` | creates contexts |
| `asio_executor` (`src/asio_executor`) | `closed_` | `submit`, `close` | strand |
| `clisrv_context` (`src/cli`) | in/out buffers, socket | request, reply, disconnect | `basic_client_context` |
| SCGI (`src/scgi`) | request parser state, buffers | `consume`, GET/PUT/POST, response | `basic_client_context` |
| value codecs (`src/cli/encoder`, `decoder`, `src/scgi/js_value_encoder`, bencode, `conversion.h`) | none (the stream's format flags) | conversions | contexts, parameters |
| visitors (`tree_visitor`, `browse_visitor`, `xml_visitor`) | output stream | traversal | `browse_object` |

What is hard to test here, per component:

- *queue*: remembered iterators, arbitrary mixes of push and pop, starvation;
- *observation*: several contexts sharing one counter and one "last value",
  contexts that vanish without unsubscribing, a handler that throws half way;
- *connection*: writes that overlap, wake-ups that are lost, updates that are
  dropped or overtaken while a write is under way, a connection that breaks
  with several operations outstanding;
- *access control*: requests refused at any of several places, which must not
  have changed anything by then;
- *object tree*: objects moved or destroyed while others remember them;
- *SCGI*: requests cut into pieces at any byte, requests behind each other;
- *command line*: lines sent ahead, requests that are refused half way, values
  that are printed one way and read another, texts that do not parse;
- *conversions*: widths, signs and precisions that differ between a parameter,
  the generic value and each encoding, and errors after a value is stored;
- *executor*: threads that end while others begin or the executor is closed.

`PROJECT.json` lists these hazards at their source lines, with the properties
that cover them.

## 2. Modules

| Module | Models | Composes |
|---|---|---|
| `UpdateQueue` | what `update_container` promises: a coalescing queue | |
| `UpdateContainer` | `update_container`: map, next pointers, iterators | refines `UpdateQueue` |
| `Lists` | what removing an element leaves of a `std::list` of distinct pointers | used by `Observation`, `ObjectTree` |
| `Observation`, `MCObservation` | contexts x parameters: observe, unobserve, tick, value changes, parameters that go and come back | |
| `PubsubContext` | one publish/subscribe connection with kernel and peer | uses `UpdateQueue` for its queue |
| `ScgiParser` | `request_parser` and a definition of the requests it should accept | |
| `ScgiContext`, `MCScgiContext` | one SCGI connection, fed in chunks | uses `ScgiParser` |
| `ObjectTree` | `object`, `node`, `object_dictionary`: building, moving, destroying, renaming | |
| `ObjectLookup`, `MCObjectLookup` | lookup by URI, and the traversals that describe the tree | extends `ObjectTree` |
| `CliScanner` | the flexc++ automaton and its rules | |
| `CliCodec` | encoder, escape decoder, base64 | extends `CliScanner` |
| `CliParser`, `MCCliParser` | the bisonc++ automaton and its use by `clisrv_context` | extends `CliCodec` |
| `AccessControl` | what a request does: rights, userlevels, handlers, errors | |
| `RequestReply` | what the request/response server promises | uses `AccessControl` |
| `ClisrvServer`, `MCClisrvServer` | `generic_tcp_server` with its `clisrv_context`s | uses `AccessControl`, refines `RequestReply` |
| `Conversion` | `conversion.h`: C++ types to and from generic values | |
| `ScgiValues` | values in bodies of GET and PUT: `js_value_encoder`, bencode, byte order | extends `Conversion` |
| `ParameterAccess` | a managed parameter of any type, read and written by requests | extends `ScgiValues` |
| `Executor` | `asio_executor` and the worker threads of the example | |
| `Application`, `MCApplication` | requests and worker side by side | extends `ParameterAccess`, `Executor` |
| `UpdateContainer_proofs`, `PubsubContext_proofs`, `Observation_proofs`, `ScgiContext_proofs`, `ClisrvServer_proofs`, `CliParser_proofs`, `Application_proofs` | TLAPS proofs | extend the modules they are named after |
| `ObjectTree_proofs` | TLAPS proofs about the tree, lookup and the traversals | extends `ObjectLookup` |

Operators whose comment begins with "Mutant" are variants of the definition that
follows them, with a bug that the code could have had; replacing the definition
by its variant must violate a property, which shows that the property looks at
that code.

### UpdateQueue and UpdateContainer

`UpdateContainer` keeps `updates` (the map, each entry with `value` and `next`),
`front` and `back` (keys or `End`), and `call`, the outcome of the last call.
`push` is three actions, one for each branch of the code (`PushReplace`,
`PushFirst`, `PushBehind`); `pop_front` is `PopFront` and `PopEmpty` (the
exception).  Value and time stamp are assigned and returned together and are one
datum.

Run `update_container` checks the assertions of the code (`IteratorsAgree`),
that the list passes through every entry once (`EveryUpdateIsLinked`), that the
whole implements `UpdateQueue` under the refinement mapping that reads the list
in order (`ImplementsQueue`), and that a queued URI is popped eventually even
if it is pushed again and again (`NoStarvation`, under weak fairness of
`PopFront` alone: the consumer pops whenever it can, nothing is assumed about
the pushes).  Three URIs give a first, a middle and a last entry, so every
shape of list change occurs; two values tell an old value from a new one.

### Observation

The state is, per parameter, `kind`, whether it is `alive`, `value`, `slots` (the
contexts connected to its signal) and for polled ones `last` and `observations`;
per context, `observables` (the keys of its map), `outlived` (those whose
parameter was destroyed since) and `shown` (what its slot was last called with);
and `tickTargets` and `armed`, the list of tick targets and the timer.

`Observe` is the first observation of a URI with everything `observe` does, down
to the report to *all* slots; `ObserveAgain` the second; `ObserveThrows` the one
in which `external_value()` or `emit()` throws after the observation was counted.
`Destroy` is the destructor of a context.  `emit()` converts the value before it
calls any slot; the values in `Untellable` (an unsigned number beyond `integer_t`)
make it throw, so that `SetManaged` and `SetExternal`, which have stored the value
by then, tell nobody (`Emit`), and `notify()` of a polled parameter throws
(`Raises`).  `Tick` visits all targets; `TickThrows(i)` stops at target `i` and
leaves the timer stopped.  `DestroyParameter` destroys the object
behind a URI, with its signal, while contexts keep it in their maps; `CreateParameter` puts a new object under the
URI.  Unsubscribing then acts on the new object, which may never have been
observed.  Requests that are rejected change nothing and have no action, and neither
has an `external_value()` that returns false.

Assumptions: the value of an external readwrite parameter changes only through
the framework (README.md says so for readwrite parameters); siblings have
different names; an external readonly parameter is not destroyed while it is
registered for the tick, since the list keeps a plain pointer and the destructor
does not unregister it.

- `observation` (two contexts, one polled parameter and one of any kind, which is
  chosen in the first state; three values, one of which cannot be reported;
  handlers that throw): connections match the maps
  (`ConnectionsMatch`), an observed parameter is registered for polling exactly
  once and counted at least once per observer, and what is registered exists
  (`ObservedIsPolled`), subscribers of managed and readwrite parameters hold
  the current value whenever it can be reported (`SubscribersAreCurrent`), nobody
  else is told (`OnlySubscribersAreTold`), and a polled value that differs from the
  last polled one is reported (`PolledChangeIsShown`).  Three values are needed so that a
  subscriber may hold one, miss the one that cannot be reported, and be told of
  another.  The timer is fair because `tick_handler` restarts it after every tick; a tick that
  throws does not, and excuses the property.
- `observation_stale` and `observation_leak` show where the code departs from what
  its documents say; see section 5.

`MaxObservations` bounds `observations_`; with two, a leaked observation is met
together with a live one, of the same context or of the other.

### PubsubContext

One connection.  `pending` is the queue (`UpdateQueue`'s `Pushed` is its push),
`outbuf` the output in messages of which the first `inFlight` belong to the
current `async_write`, `write` what the kernel has done with it (`started`,
`sent`, `failed`), `writing` is `writing_active_`.  `reading` says that a read is
outstanding, `lines` how many requests are in `inbuf_`.  The value of a parameter
is its version number, so that "older" and "newer" can be told apart.

`PreloadWriting` is the whole of `preload_writing` and is part of every action
whose handler calls it.  `Sent` and `SendFails` are the kernel's steps,
`WriteHandlerOk` and `WriteHandlerError` the handlers that follow at any later
time.  `Request` is common to the requests: one line is taken and the next read
is started, also after the socket was closed.  A context whose last operation
has ended is destroyed (`Gone`).

An error reply is appended to `outbuf_` even while a write reads from it; the
buffer may be moved under the write, which is undefined behaviour.  `Reject`
therefore may set `garbled`, after which nothing is promised about what the
client receives.

Run `pubsub` checks all of it: writes never overlap (`WriteIsExclusive`), an idle
connection has nothing left to send (`NoIdleBacklog`), buffering is bounded
(`BacklogIsBounded`), the last thing a subscriber receives for a parameter is its
current version (`NoUpdateIsLost`), never an older after a newer one
(`DeliveredInOrder`), no end of a context is missed and none is reported while the
connection is open (`NoEndIsMissed`), and every change reaches the client (`ChangesAreDelivered`) if the peer reads what it
is sent (weak fairness of `Sent`) and finished writes get their handler (weak
fairness of `WriteHandlerOk`; an io_service runs the handlers of completed
operations).  `ChangesAreDelivered` exempts a client that floods the connection
with rejected requests, whose replies can fill the send buffer so that the loop
of `preload_writing` never fetches an update.  `pubsub_end` asks whether an end is
reported only once; see section 5.

Bounds: two parameters and `ul` with a send buffer of two messages leave a
remainder in the queue; one change of each parameter after its subscription is
enough for coalescing; an output of two messages lets an error reply join a
batch; one request per read, since further ones in `inbuf_` are served by the
next read just the same.

### ScgiParser and ScgiContext

`Consume` is `request_parser::consume`, with an operator for each of its states;
`ScgiContext` adds the connection: `taken` bytes of the `stream`
have been read in chunks, `parser` is the parser that lives as long as the
connection, `served` what was asked of the dictionary, `replies` the status of
each response.  `Parsed` is the loop of `parse`, a function that gives the parser
behind each byte of a chunk.  What a dictionary call does is any `Outcome`, mapped to a status
as the catch clauses do.  A byte is a number, and the names of headers that the
parser compares are bytes of their own; that keeps lengths at two digits.
`SizeMax` is the largest `size_t`.  A netstring's length is made of digits only and
may not exceed it (`IsLength`); CONTENT_LENGTH is what `boost::lexical_cast<size_t>`
takes: a sign may precede the digits, and a negative number wraps around (`Size`).

Run `scgi` feeds a GET, a PUT with a body, a POST, the shortest requests and all
streams that differ from them in one byte, requests with a header twice, and requests
whose sizes have signs, wrap around or are at `SizeMax` (255), cut into chunks in
every way.  What is served first is exactly what was sent (`FirstServedIsSent`), a complete request
is served (`CompleteIsServed`), where "complete" is a definition of the format
without states, and a client that sends one and waits gets a response
(`RequestIsAnswered`, under weak fairness of the handlers).  `scgi_second` sends
two requests on one connection; see section 5.

### ObjectTree and ObjectLookup

`Links` are the fields `parent_` and `children_` of all objects.  The code's
helpers that call each other (`RemoveChild`, `Detach`, `AddChild`)
are operators from links to links, and the destructors fold them as the code
nests them (`NodeDestroyed`, `Destroyed`); the actions construct, destroy, move
and rename.  Nothing in the code keeps a node from being put below itself; the
model does, because a tree with a cycle is not a state a server can use.

Run `object_tree` has three nodes, two leaves, and two names below the root, so
that siblings may share a name, subtrees of depth three are moved, and every
object is rebuilt after its destruction: links agree (`ListedByParent`), a URI
finds the object of that qualified name, the first one where siblings share it
(`LookupFindsNamed`), the indented description can be read back to the
tree (`IndentationShowsTree`), and the XML defines each type before it is used
(`XmlDefinesBeforeUse`).  Nodes and leaves are symmetric.  `Browse` is the
recursive traversal of `browse_object` as a function from objects to the list of
what is visited from there, `XmlTypes` the stack that `xml_visitor` pushes types on.

### CliScanner, CliCodec and CliParser

The tables that flexc++ and bisonc++ generated are in the repository and are
modelled as they are: `Moves` and `FinalRule` are the automaton of the scanner,
`Table`, `Default` and `Productions` those of the parser, and `CliParser` runs
them with the semantic actions, one action for each way through the loop of
`parser::parse`.  `Turn` is one turn of the loop of `scanner::lex__`: what the
automaton reads, the longest match in it, and what is put back, from which bytes
above 127 get lost because they are negative as `char`.  `CliCodec` has both
directions of the value syntax.  The first state holds the text and the lexemes
found in it, all later states one step of the parser.

Run `cli_value` takes all texts of up to three lexemes of every kind, all of up
to five brackets, commas and items, and the encodings of sample values.  The
longest match agrees with the rules read as patterns (`ScannerFollowsRules`); the
semantic values have the tag that `data<>()` assumes (`StackIsTyped`), which the
code does not check; a text is accepted exactly if it is an expression of the
grammar (`ExpressionsAreAccepted`); encoded values are read back
(`EncodedIsReadBack`); and parsing ends (`ParsingEnds`, since `parse()` is a loop:
weak fairness of its step).  `IntMax` stands for the greatest int, `IntegerMax` for
the greatest `integer_t`, and `RealOrder` for the decimal exponents of a double, by
which `std::stod` tells a number out of its range; eight texts of reals lie on both
sides of it.  Left out are reals beyond their text and base64 that is not whole
groups.  What becomes of a text that does not parse is in section 5.

### AccessControl, RequestReply and ClisrvServer

`AccessControl` is `basic_client_context` and `process_request` after parsing: each
operation takes the values of the objects and the userlevel of its client and
gives the reply and the new ones.  The checks are made in the order of the code.
Each object has the class of the framework that it is derived from, and
`Unhandled` are those of a handler variant whose handler is not set: an external
parameter then throws, which also ends a browse that meets it, a writeonly one
and an event ignore the request, a managed one accepts every value.  What becomes
of a value that is set depends on four sets: `verify()` or `external_value(v)` throws
for the `Refused`, an external handler returns false for the `Ignored`, which gives
an "ok" and changes nothing, and `to_generic()` throws for the `Untellable`: `emit()`
comes after the store, so that the reply is an error although the value has changed,
and what holds such a value cannot be read.  `Position` is the order in which a
browse meets the objects, the first of which that cannot be read gives the error.
The value of a node is the names of its children.

`ClisrvServer` has, per client, what the client has done (`peer`, `asked`, `seen`)
and the context: the one `operation` it has under way, `consumed` lines of its
input, `outbuf`, `sent`.  `Accept` is `accept_handler` with the constructor and
`preload` of the context; `ReadHandler`, `WriteHandler`, `ReadError` and
`WriteError` are the handlers.  A client may send lines ahead, read late, and
leave at any time.  `AcceptError` throws out of `io_service::run()` and ends the
service, after which nothing is modelled.

`RequestReply` is what clients may rely on: requests of each take effect one by
one in order, at once, on the state that all requests before left.  The
refinement maps consumed lines to served requests and what has been sent or
buffered to replies.  Run `clisrv` checks it (`ImplementsRequestReply`), and that
the connection callback hears of every connection and of its end once
(`EventsMatchConnections`), that a request that is answered with an error has
changed nothing but, if it sets a parameter to a value that `emit()` cannot convert,
that parameter to that value (`ErrorIsContained`), that a client that reads gets all its
replies (`RequestsAreAnswered`) and that the end of a connection is noticed
(`EndIsNoticed`).  Fairness: the io_service runs the handlers of operations that
can end; the clients in `Readers` read.  One client sends up to two of six
requests ahead, the other, which need not read, one of ten; one reply fits into
the connection, so that writes wait.

### Conversion, ScgiValues, ParameterAccess, Executor and Application

`Conversion` has `from_generic` and `to_generic` for every kind of type that
`conversion.h` specialises; a type is a record of what the templates look at (kind,
width, sign, size, hint).  `ScgiValues` has the bodies of GET replies and PUT
requests octet by octet, and texts of numbers by the value they stand for.
`ParameterAccess` is a managed readwrite parameter of one of the `Types`, which the
command line sets (`Set`) and SCGI writes and reads (`Put`, `Get`).

Widths are scaled so that their order stays: the 64-bit integer has 6 bits, the
double 4 digits and a unit of one half (so that there are reals between two
integers, and integers that are rounded), the int of sequences 3 bits on the wire,
an octet 3 bits with the values 2 for a space, 3 for a colon and 4 to 6 for
digits.  Inputs lie on both sides of every bound.

`Executor` counts threads: those that work, those that have seen `closed_` unset in
`submit`, and continuations in the strand; `MaxWork` bounds their sum, and two is
enough for one to end while another begins.  `Close` may come between the test
and the post.

Run `application` has both side by side.  A value that is accepted is the one that
was sent, but for rounding to a floating point type (`AcceptedIsExact`); a refused
one changes nothing, unless it was stored before its report threw
(`RefusedChangesNothing`); the body of a GET, sent by a PUT of its content type,
restores the value, but for what `CarriedByPut` names (`GetPutKeepsValue`); and
work that was started ends in a report or meets a closed executor
(`WorkIsReported`, under weak fairness of the threads and of the strand: the
operating system runs both).

## 3. Proofs

All proofs are for every value of the constants that satisfies the named
assumptions of the modules, which TLC evaluates in the runs.  Most say that sets
that mean different things do not overlap and that bounds are natural numbers.
Four say what a constant stands for:

- `ServerAssumption` (`ClisrvServer`): every object has an initial value, and the
  userlevel a context starts with exists; the constructors see to both.
- `TextsAssumption` (`CliParser`): a text is a sequence of bytes, the scanner makes a
  finite sequence of the tokens of the grammar from it, and the conversion of a scalar gives one or none.
  `scanner::lex` returns no other token, and what it returns is folded over the text,
  as are most conversions, which no proof can unfold for every text.
- `TypesAssumption` (`ParameterAccess`): the type of a parameter is one of those
  `conversion.h` has a specialisation for; any other does not compile.  Binary
  arrays and containers are modelled for integral elements that fill their octets.
- `InputsAssumption` (`ParameterAccess`): what a request carries is a generic value
  (`value_t` of `types.h`), where strings and binaries are made of octets.

The library's induction theorems take an operator as a parameter and cannot be used
here.  Where a proof needs induction on a number, it takes the least
counterexample instead, which `LeastExists` gets from the well-foundedness of the
natural numbers.  Recursive functions are unfolded from their definition (a
`CHOOSE` of a function that satisfies the equation), once it is proved that such a
function exists: over positions of a sequence by the least position up to which
none does; over objects by the least relation that is closed towards the root
(`Recursion`), or by solutions for subtrees that are put together towards the
root (`VisitExists`).

### Queue

The leaves are meant to be small: a leaf that needs more than half a second or so of a
solver names the solver and a limit of its own (`SMTT(30)`, `ZenonT(30)`), so that the
proofs do not depend on how fast, or how busy, the machine is.

`UpdateContainer_proofs` proves that the iterators never dangle (`TypeCorrect`),
that the assertions of the code hold (`AssertionsHold`), and that no entry drops
out of the list (`NothingLost`).  `TypeOK` and `IteratorsAgree` are not inductive:
in a state whose list ends before it has passed every entry, `PopFront` would
leave `front` at `End` with entries in the map.  The inductive invariant adds
that some sequence of all keys threads the list (`EveryUpdateIsLinked`) and that
the map is finite; each push and pop has a lemma that gives the sequence of the
next state.

`IsAQueue` proves the refinement `ImplementsQueue`.  The mapping chooses the
sequence that threads the list; the lemma that there is only one lets each
action name it, and each action of `UpdateContainer` is then the action of
`UpdateQueue` with the same outcome.

### Publish/subscribe connection

`PubsubContext_proofs` proves the types (`TypeCorrect`), that writes never overlap
(`WritesAreExclusive`) and that an idle connection has nothing left to send
(`NothingWaitsIdle`).  The invariant has two parts, which the steps disturb
separately: `OutputOK` about queue, buffer and write, and `ContextOK` about the
rest.  `PreloadWritingFacts` says what `preload_writing` makes of any output, and
the lemma of each handler cites it.  Two more invariants are proved on top of it:
each operation that ended with an error was reported once
(`EndsCounted`), so that no end of a context is missed (`EndsAreNoticed`); and
the queue holds one update per URI while `outbuf` holds no more than `SendBuffer`
updates beside error replies (`BacklogOK`), so that a slow client has a
bounded backlog (`BacklogStaysBounded`).

The rest of the module is about what the client receives.  Buffer and queue are
read as one stream, `outbuf` and behind it what `pending` will be sent as:
`preload_writing` only moves the border between the two, so that it need not be
considered for the order of versions at all.  `VersionsAscend` (no older version is
received after a newer one) follows from an invariant on that stream
(`VersionsOK`): the versions of each parameter ascend in it up to the current one,
and what is still to be received is none older than what was delivered.  `UpdatesArrive` (the last version a
subscriber has received or will receive is the current one) needs besides that
what a finished write has sent is what was delivered (`SentIsDelivered`).

### Observation

`Observation_proofs` proves the type invariant (`TypeCorrect`; in particular
`observations_` never falls below zero, also where a request is an unsubscription
of what was never observed), that connections match the maps
(`ConnectionsAreScoped`), that what is observed is polled (`PollingIsComplete`), that
subscribers hold the current value if it can be reported, also after setters that
failed when they had stored another (`ReportsAreCurrent`), and that nobody else is
told (`ReportsAreSolicited`).  None is inductive by itself.  What unsubscribing does
to a counter is right because a polled parameter is not destroyed while it is
registered, so that no entry of a context outlives it (`CountersOK`), and a
parameter that is created under the URI of another starts without connections
(`ContextsOK`).

### Object tree

`ObjectTree_proofs` proves that no link leads to a destroyed object
(`TypeCorrect`) and that `parent_` and `children_` agree with no object listed twice
(`LinksAgree`).  Both are conjuncts of one predicate on links, which each of the
code's link operations preserves by a lemma of its own; the actions only
compose them.

Two more conjuncts carry the rest: the set of living objects is finite, and no set
of objects is closed under `parent` without a top (`NoCycle`), which moving
preserves because the model keeps a node from being put below itself.  It is
what makes qualified names, traversals and depths well defined.  `LookupCorrect` says that a URI of any length finds the
object that it names in any tree; the recursion of `find_descendant_object`
is followed segment by segment (`WalkFinds`).  `TraversalShowsTree` describes what is visited from
an object as a `Branch`: the object first, each other entry behind its parent, with
nothing less deep between the two, so that the last entry above that is less
indented is the parent.  `XmlIsInOrder` adds what the stack does to the order of visits.

### SCGI connection

`ScgiContext_proofs` is about every stream of bytes, of any length, and every
`SizeMax`.  `Run(s, n)` is the
parser behind the first `n` bytes of `s` if they come in one chunk; `ChunkFacts` says that the
chunks do not matter, since the parser goes on from where it stood.  Its invariant
(`ParserInv`) states in positions of the stream what each field of the parser
means: which netstring it is in, which fields of it are complete, and what the
headers so far say.  There is a lemma for each kind of byte, and one that splitting
into fields (`Ends`, `Fields`) extends with a byte.  From it follow both
directions: a parser that says "good" has read a request of the reference definition
(`GoodIsWellFormed`), and one that has read such a request has said "good" at its
last byte and not before (`WellFormedIsGood`).  The connection's invariant
`FirstRequest` relates the first response to the run of the parser.
`FirstCallIsRequested` and `CompleteIsAnswered` are the two halves for the connection, and
`TypeCorrect` its types.

### Request/response server

`ClisrvServer_proofs` proves the types (`TypeCorrect`), that the connection callback
hears of every connection and its end once (`ConnectionsAreReported`), that an
answer of "error" has changed nothing but what was set before `emit()` threw
(`ErrorsAreContained`), and the refinement
`ImplementsRequestReply` (`KeepsItsPromise`), which has no fairness in it.  The lemmas
about `AccessControl` say what each of its operations answers and leaves alone, for
any objects.  The invariant relates socket, operation and buffers (`ConnectionsOK`):
an operation is under way only on an open socket, and the greeting is written
before anything else.  What has been sent and what is buffered, one behind the
other, are the replies of the abstract server.  A write that ends moves the
border between the two, which is a stutter; a line consumed appends its reply.

### Command line parser

`CliParser_proofs` proves that the generated parser finds on its stack the elements
that a reduction takes off, with the tags that `data<>()` assumes
(`StackStaysTyped`).  `StackIsTyped` looks at the top of the stack only and says
nothing of what lies below it, where the parser arrives after the next reduction.  The
invariant says that the whole stack is a path through the automaton: below each
state lies one of its predecessors, each state has the tag of the symbol
that leads to it, and a nonterminal that was just made always has an entry in
the table of the state below it.  The proof has one lemma per kind of
reduction.

`ParserAcceptsExpressions` proves `ExpressionsAreAccepted`, the soundness and
completeness of the automaton.  The invariant (`GrammarInv`) says what the stack
stands for: there are ends `e` such that the symbol of each element derives the
lexemes between the ends of the element below and its own (`Derives`, `Ends`), with the
value that the element holds; what was shifted ends where the stack does, one lexeme at most
is read ahead, and where a scalar is converted none is (`ReadOK`).  Soundness
follows from what the stack stands for in the state of acceptance.  Completeness needs
more, since default reductions are taken for any token: after an
optional series was reduced, the token read ahead does not go on with it
(`ClosesOK`).  Then each of the five states without a default is left by an error only if
no expression begins with what was shifted and read (`NoExpression`).  `TypeCorrect`
proves the type invariant.

`ScannerFollowsItsRules` proves `ScannerFollowsRules` for texts of any length.  For each
state there is a language, said of the first `n` characters of the input without the
automaton (`Blank`, `Number`, `Fixed`, `Scientific`, `Unclosed`, ...), and a lemma on
which character goes on with it.  `Transitions` reads from the table how each state is
reached, and the two agree, so that the state after `n` characters tells their language
(`Describes`, `Described`).  The rules, read as patterns, are unions of these languages
(`RulesFit`), and the rule that the table has for a state is the first of those that
fit (`RuleOfState`).  A recursive function on positions, such as the states that the
automaton goes through, exists by the least position where it would not.

### Application

`Application_proofs` proves that an accepted value is the one that was sent, but for
rounding to reals, at all widths (`ConversionsAreExact`), and that a refused one
leaves the value alone unless it was stored before `emit()` threw
(`RefusalsAreHarmless`).  The first rests on facts about rounding: digits are cut
off by the quotient with a power of two, a multiple of that power is kept, and
so is the bound of an integer type, which is a power of two itself.  What is known
about powers of two (that they double, grow, and multiply by adding exponents)
comes from the library's theorem on the number of subsets.  Binary arrays and
containers are read from memory and written to it: the octets of an element are
the digits of its value (`Place`, `UnsignedOctets`), which a number below zero
shares with the unsigned one of the same bits (`SameOctets`), and elements
one behind the other keep what was sent (`MemoryOfElements`).

### Model-checked only

- Liveness (`NoStarvation`, `PolledChangeIsShown`, `ChangesAreDelivered`,
  `RequestIsAnswered`, `ParsingEnds`, `RequestsAreAnswered`, `EndIsNoticed`,
  `WorkIsReported`): fairness is made of `ENABLED`, which the prover does not know.
- `EncodedIsReadBack` of `CliParser` and `GetPutKeepsValue` of `ParameterAccess`, which
  speak of what the community modules' folds make of data of any length.

The type invariants of `Observation`, `ScgiContext`, `ClisrvServer` and `CliParser` are
proved and in no run.

## 4. Plan

The modules of section 2 cover what section 1 names, but for section 6.  What is
left to prove is out of the prover's reach (end of section 3).

## 5. Where the code and its documents disagree

`PROJECT.json` lists four findings, each shown by a run that TLC finds violated:

- `observation_stale`: a change that is reported by somebody's subscription and
  undone before the next tick leaves subscribers with the outdated value.
- `observation_leak`: a client that disconnects without unsubscribing leaves the
  parameter polled.
- `scgi_second`: the parser is not reset between two requests of a connection.
- `pubsub_end`: `pubsub_context.cpp:149` reports a disconnection before it looks whether
  the socket is open, so that a read and a write that both fail report it twice.

Others were met while reading and have no run:

- `managed_readwrite_parameter.h:101-103` stores an unsigned value above the largest
  `integer_t` before `emit()` throws for it: the request ends with an error, no
  subscriber is told, and the same request sent again succeeds, since the value is no
  longer new.  The models have this step; `SubscribersAreCurrent` and
  `ErrorIsContained` say what still holds.
- `clisrv_context.cpp:165` ignores what `parse()` returns and takes `result()`: after a
  syntax error that is the default, `#f`, or what had been reduced before the error.
  `TakeResult` in `CliParser` has this step.
- `request_parser.cpp:134` takes one byte behind a complete body and asks for
  more; `request_parser.h:44-45` promises "bad" for invalid data.
- `request_parser.cpp:99-105` keeps the method of an earlier REQUEST_METHOD header when a
  later one is unknown, while the last REQUEST_URI counts.
- `scgi_context.cpp:125` trims the body of a PUT; README.md says that binary data is
  encoded as is.
- README.md:74-83 numbers the userlevels the other way round than `userlevel.h`.
- `client_context.cpp:55` dereferences the null pointer that `client_context.h:56`
  allows.
- `request_parser.cpp:90` takes a CONTENT_LENGTH with a sign: "+3" is 3, and "-1" is the
  largest `size_t`, for which the request waits forever.
- `encoder.cpp:131` leaves `std::hex` in force, in which a negative integer is printed
  as its two's complement; `encoder.cpp:104` prints reals that the
  scanner reads as integers or not at all; `parse.cpp:395` reads integers as `int`.
- `lex.cpp:424` takes characters above 127 for the end of the input, where `char` is
  signed, and `lex.cpp:129-134` loses them when they are put back.
- `client_context.cpp:41` keeps the entry of a parameter that was destroyed: when one
  of that name is created anew, subscribing again only reports its value once.
- Unsubscribing leaves updates of the parameter in `pending_updates_`
  (`pubsub_context.cpp:212`), so that some may follow the reply.
- `conversion.h:65` compares with the largest integer as a real, which is rounded up:
  2^63 passes and is cast, which is undefined.
- Integers in the sequences of a GET have four octets and in those of a PUT eight
  (`js_value_encoder.cpp:45`, `scgi_context.cpp:152`).
- `get` of a node lists all its children, `browse` only those that the readlevel
  shows to the client.
- `basic_client_context.cpp:109` visits the first object of a browse without
  looking at its readlevel.
- The loops in `test_userlevels.cpp:80-95` never run their bodies.

## 6. Not modelled

- Wording and layout of replies, time stamps, status lines and headers of SCGI
  responses, names of types in the descriptions of the tree: nothing in the
  system reads them.
- How reals are printed and read, which the standard library does; the model takes
  a text of a number for the number.
- What is undefined in the code and leads nowhere: the null pointer of an
  unsubscription, tuples that are sent with too few elements, binary data of types
  without a conversion of their own, base64 that is not whole groups, a string
  sequence that ends one octet behind a string, a node below itself, a polled
  parameter destroyed under the tick.
- Parts of the generated scanner and parser that no rule uses: stacked streams, line
  numbers, rules at the beginning of a line, recovery behind an error token.
- The request callbacks, which only observe, and what the application's other
  callbacks do besides throwing or refusing.
- Setting up the example program, and the tests.
