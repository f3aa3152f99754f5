---------------------------- MODULE Observation ----------------------------
(***************************************************************************)
(* Parameter observation: client contexts that observe parameters of the   *)
(* object dictionary, the signal of each parameter, and the tick that      *)
(* polls the externally managed readonly ones.  A parameter stands for its *)
(* URI: the object behind it may be destroyed and another one created      *)
(* under the same URI while contexts still have it in their maps.          *)
(*                                                                         *)
(* Every action is one handler run: they are serialised by a strand.       *)
(* Requests that are rejected (access denied, not an observable object,    *)
(* not subscribed) change nothing and have no action; that unsubscribing   *)
(* an unknown name dereferences a null pointer is left out.                *)
(***************************************************************************)
EXTENDS FiniteSets, Naturals, Sequences, Lists

CONSTANTS Contexts,        \* client contexts
          Params,          \* URIs of parameters
          Kinds,           \* what the parameters may be: functions from Params to Kind
          Values,          \* parameter values
          Untellable,      \* those to_generic() throws for: unsigned ones beyond integer_t
          NoValue,         \* an empty std::optional; nothing reported yet
          Failing,         \* TRUE when external_value() may throw
          MaxObservations  \* bound on observations_

\* managed_readonly or managed_readwrite, external_readwrite, and external_readonly
\* parameters; only the last are polled by the tick.
Kind == {"managed", "external_rw", "external_ro"}

ASSUME KindsAssumption == Kinds \subseteq [Params -> Kind]

ASSUME ValuesAssumption ==
  /\ NoValue \notin Values
  /\ Untellable \subseteq Values

ASSUME SwitchesAssumption ==
  /\ Failing \in BOOLEAN
  /\ MaxObservations \in Nat

VARIABLES kind,          \* the kind of each parameter; never changes
          alive,         \* the parameters that exist
          value,         \* value_ of a parameter, or what external_value() returns
          last,          \* last_value_ of a polled parameter
          observations,  \* observations_ of a polled parameter
          tickTargets,   \* tick_targets_ of the object dictionary
          armed,         \* the tick timer is running
          slots,         \* the contexts connected to the signal of a parameter
          connected,     \* the contexts that exist
          observables,   \* the keys of observables_ of a context
          outlived,      \* the keys whose parameter was destroyed after the entry was made
          shown          \* what the slot was last called with since the entry was made

vars == <<kind, alive, value, last, observations, tickTargets, armed, slots,
          connected, observables, outlived, shown>>

objects == <<kind, alive>>
contexts == <<slots, connected, observables, outlived>>

polling == <<last, observations, tickTargets, armed>>

Polled == {p \in Params : kind[p] = "external_ro"}

Init ==
  /\ kind \in Kinds
  /\ alive = Params
  /\ value \in [Params -> Values]
  /\ last = [p \in Params |-> NoValue]
  /\ observations = [p \in Params |-> 0]
  /\ tickTargets = <<>>
  /\ armed = TRUE
  /\ slots = [p \in Params |-> {}]
  /\ connected = {}
  /\ observables = [c \in Contexts |-> {}]
  /\ outlived = [c \in Contexts |-> {}]
  /\ shown = [c \in Contexts |-> [p \in Params |-> NoValue]]

\* emit() of the value of p can be carried out: it converts the value before it
\* calls any slot, and throws when it cannot.
Tellable(p) == value[p] \notin Untellable

\* The reports after the slots of the contexts in C were called with v for p.
Told(C, p, v) ==
  [c \in Contexts |-> IF c \in C THEN [shown[c] EXCEPT ![p] = v] ELSE shown[c]]

-----------------------------------------------------------------------------
(* client_context::observe and unobserve *)

\* Mutant: every observation registers the parameter.
RegisterAlways(p) ==
  IF p \in Polled
    THEN /\ observations[p] < MaxObservations
         /\ observations' = [observations EXCEPT ![p] = @ + 1]
         /\ tickTargets' = Append(tickTargets, p)
    ELSE UNCHANGED <<observations, tickTargets>>

\* observe() of an external readonly parameter, up to the call of its base class.
RegisterForTick(p) ==
  IF p \in Polled
    THEN /\ observations[p] < MaxObservations
         /\ observations' = [observations EXCEPT ![p] = @ + 1]
         /\ tickTargets' = IF observations[p] = 0 THEN Append(tickTargets, p) ELSE tickTargets
    ELSE UNCHANGED <<observations, tickTargets>>

\* unobserve() of the parameter.
UnregisterForTick(p) ==
  IF p \in Polled
    THEN /\ observations' = [observations EXCEPT ![p] = @ - 1]
         /\ tickTargets' = IF observations[p] = 1
                             THEN Without(tickTargets, p)
                             ELSE tickTargets
    ELSE UNCHANGED <<observations, tickTargets>>

\* A context observes a parameter that is not in its map: the signal reports
\* the current value to every connected slot, the new one included.
Observe(c, p) ==
  /\ c \in connected /\ p \in alive
  /\ p \notin observables[c]
  /\ Tellable(p)
  /\ RegisterForTick(p)
  /\ slots' = [slots EXCEPT ![p] = @ \union {c}]
  /\ observables' = [observables EXCEPT ![c] = @ \union {p}]
  /\ shown' = Told(slots'[p], p, value[p])
  /\ UNCHANGED <<objects, value, last, armed, connected, outlived>>

\* external_value() or the report throws: the connection is undone and no
\* entry is made, but the observation stays counted and registered.
ObserveThrows(c, p) ==
  /\ (Failing /\ kind[p] # "managed") \/ ~Tellable(p)
  /\ c \in connected /\ p \in alive
  /\ p \notin observables[c]
  /\ RegisterForTick(p)
  /\ UNCHANGED <<objects, value, last, armed, contexts, shown>>

\* Observing once more only reports the current value, to this context; an
\* entry that outlived its parameter is not connected to the new one.
ObserveAgain(c, p) ==
  /\ c \in connected /\ p \in alive
  /\ p \in observables[c]
  /\ Tellable(p)
  /\ shown' = Told({c}, p, value[p])
  /\ UNCHANGED <<objects, value, polling, contexts>>

Unobserve(c, p) ==
  /\ c \in connected /\ p \in alive
  /\ p \in observables[c]
  /\ UnregisterForTick(p)
  /\ slots' = [slots EXCEPT ![p] = @ \ {c}]
  /\ observables' = [observables EXCEPT ![c] = @ \ {p}]
  /\ outlived' = [outlived EXCEPT ![c] = @ \ {p}]
  /\ shown' = Told({c}, p, NoValue)
  /\ UNCHANGED <<objects, value, last, armed, connected>>

Connect(c) ==
  /\ c \notin connected
  /\ connected' = connected \union {c}
  /\ UNCHANGED <<objects, value, polling, slots, observables, outlived, shown>>

\* Mutant: the connections survive the context.
DestroyKeepsSlots(c) ==
  /\ c \in connected
  /\ connected' = connected \ {c}
  /\ observables' = [observables EXCEPT ![c] = {}]
  /\ outlived' = [outlived EXCEPT ![c] = {}]
  /\ shown' = [shown EXCEPT ![c] = [p \in Params |-> NoValue]]
  /\ UNCHANGED <<objects, value, polling, slots>>

\* The context is destroyed: observables_ and its scoped connections go, but
\* nothing calls unobserve() of the parameters.
Destroy(c) ==
  /\ c \in connected
  /\ connected' = connected \ {c}
  /\ observables' = [observables EXCEPT ![c] = {}]
  /\ outlived' = [outlived EXCEPT ![c] = {}]
  /\ slots' = [p \in Params |-> slots[p] \ {c}]
  /\ shown' = [shown EXCEPT ![c] = [p \in Params |-> NoValue]]
  /\ UNCHANGED <<objects, value, polling>>

-----------------------------------------------------------------------------
(* Lifetime of the parameters *)

Registered(p) == p \in Members(tickTargets)

\* The application destroys a parameter: its signal goes with its connections,
\* the entries for its URI stay.  tick_targets_ holds a plain pointer and the
\* destructor does not unregister, so that destroying a registered parameter
\* makes the next tick undefined: the application is assumed not to do so.
DestroyParameter(p) ==
  /\ p \in alive /\ ~Registered(p)
  /\ alive' = alive \ {p}
  /\ slots' = [slots EXCEPT ![p] = {}]
  /\ outlived' = [c \in Contexts |-> outlived[c] \union (observables[c] \intersect {p})]
  /\ UNCHANGED <<kind, value, polling, connected, observables, shown>>

\* A parameter of the same kind is created under the URI.
CreateParameter(p, v) ==
  /\ p \notin alive
  /\ alive' = alive \union {p}
  /\ value' = [value EXCEPT ![p] = v]
  /\ last' = [last EXCEPT ![p] = NoValue]
  /\ observations' = [observations EXCEPT ![p] = 0]
  /\ UNCHANGED <<kind, tickTargets, armed, contexts, shown>>

-----------------------------------------------------------------------------
(* Value changes *)

\* emit(v) of p: the slots in C are called, unless converting v throws.
Emit(C, p, v) == shown' = IF v \in Untellable THEN shown ELSE Told(C, p, v)

\* Mutant: the new value is stored but not emitted.
SetManagedSilently(p, v) ==
  /\ kind[p] = "managed" /\ p \in alive
  /\ value[p] # v
  /\ value' = [value EXCEPT ![p] = v]
  /\ UNCHANGED <<objects, polling, contexts, shown>>

\* Mutant: the value is reported to every context.
SetManagedBroadcasts(p, v) ==
  /\ kind[p] = "managed" /\ p \in alive
  /\ value[p] # v
  /\ value' = [value EXCEPT ![p] = v]
  /\ Emit(connected, p, v)
  /\ UNCHANGED <<objects, polling, contexts>>

\* The server (readonly) or a client (readwrite, after verify) sets a managed
\* parameter; an equal value or one that verify rejects changes nothing.  The
\* value is stored before it is emitted: when emit() throws, the caller has an
\* error, the parameter its new value, and no subscriber was told.
SetManaged(p, v) ==
  /\ kind[p] = "managed" /\ p \in alive
  /\ value[p] # v
  /\ value' = [value EXCEPT ![p] = v]
  /\ Emit(slots[p], p, v)
  /\ UNCHANGED <<objects, polling, contexts>>

\* A client sets an external readwrite parameter and external_value(v)
\* accepts, equal or not; again emit() may throw afterwards.  The framework
\* leaves such a value to the clients.
SetExternal(p, v) ==
  /\ kind[p] = "external_rw" /\ p \in alive
  /\ value' = [value EXCEPT ![p] = v]
  /\ Emit(slots[p], p, v)
  /\ UNCHANGED <<objects, polling, contexts>>

\* The value behind a polled parameter changes unnoticed.
DeviceChange(p, v) ==
  /\ p \in Polled /\ p \in alive
  /\ value' = [value EXCEPT ![p] = v]
  /\ UNCHANGED <<objects, polling, contexts, shown>>

\* notify() of p throws: there is a change to report that cannot be reported.
\* last_value_ is assigned after the report and stays.
Raises(p) == last[p] # value[p] /\ ~Tellable(p)

\* notify() of each parameter in P, none of which throws.
NotifyAll(P) ==
  LET changed == {p \in P : last[p] # value[p]} IN
  /\ shown' = [c \in Contexts |-> [p \in Params |->
                 IF p \in changed /\ c \in slots[p] THEN value[p] ELSE shown[c][p]]]
  /\ last' = [p \in Params |-> IF p \in changed THEN value[p] ELSE last[p]]

\* The server signals a change it has learnt of.  When notify() throws, nothing
\* has changed but what the server is told.
ValueChanged(p) ==
  /\ p \in Polled /\ p \in alive
  /\ ~Raises(p)
  /\ NotifyAll({p})
  /\ UNCHANGED <<objects, value, observations, tickTargets, armed, contexts>>

-----------------------------------------------------------------------------
(* asio_tick_context *)

\* Mutant: only the first target is visited.
TickFirstOnly ==
  /\ armed
  /\ \A i \in DOMAIN tickTargets : ~Raises(tickTargets[i])
  /\ NotifyAll({tickTargets[i] : i \in DOMAIN tickTargets \intersect {1}})
  /\ UNCHANGED <<objects, value, observations, tickTargets, armed, contexts>>

\* The timer fires: every target is notified and the timer is started again.
Tick ==
  /\ armed
  /\ \A i \in DOMAIN tickTargets : ~Raises(tickTargets[i])
  /\ NotifyAll(Members(tickTargets))
  /\ UNCHANGED <<objects, value, observations, tickTargets, armed, contexts>>

\* notify() of target i throws, by external_value() or by the report: the targets
\* behind it are not visited and the timer is not started again.
TickThrows(i) ==
  /\ armed
  /\ Failing \/ Raises(tickTargets[i])
  /\ \A j \in 1..(i - 1) : ~Raises(tickTargets[j])
  /\ NotifyAll({tickTargets[j] : j \in 1..(i - 1)})
  /\ armed' = FALSE
  /\ UNCHANGED <<objects, value, observations, tickTargets, contexts>>

TimerFires == Tick \/ \E i \in DOMAIN tickTargets : TickThrows(i)

-----------------------------------------------------------------------------

Client(c) ==
  \/ Connect(c)
  \/ Destroy(c)
  \/ \E p \in Params : Observe(c, p) \/ ObserveThrows(c, p) \/ ObserveAgain(c, p) \/ Unobserve(c, p)

Server(p) ==
  \/ DestroyParameter(p)
  \/ ValueChanged(p)
  \/ \E v \in Values :
       CreateParameter(p, v) \/ SetManaged(p, v) \/ SetExternal(p, v) \/ DeviceChange(p, v)

Next ==
  \/ \E c \in Contexts : Client(c)
  \/ \E p \in Params : Server(p)
  \/ TimerFires

Spec == Init /\ [][Next]_vars

\* The timer fires again and again as long as tick_handler restarts it.
FairSpec == Spec /\ WF_vars(TimerFires)

-----------------------------------------------------------------------------
(* Properties *)

\* The shape of the state; observations_ does not fall below zero.
TypeOK ==
  /\ kind \in Kinds
  /\ alive \in SUBSET Params
  /\ value \in [Params -> Values]
  /\ last \in [Params -> Values \union {NoValue}]
  /\ observations \in [Params -> Nat]
  /\ tickTargets \in Seq(Params)
  /\ armed \in BOOLEAN
  /\ slots \in [Params -> SUBSET Contexts]
  /\ connected \in SUBSET Contexts
  /\ observables \in [Contexts -> SUBSET Params]
  /\ outlived \in [Contexts -> SUBSET Params]
  /\ shown \in [Contexts -> [Params -> Values \union {NoValue}]]

\* A slot is connected to a signal exactly as long as its context lives and
\* has the parameter in its map, unless the parameter was destroyed since: no
\* signal calls into a destroyed context (the slot is bound to a plain this
\* pointer) or into one that unsubscribed, and one that unsubscribed from a
\* parameter that was replaced and subscribed anew is connected again.
ConnectionsMatch ==
  \A c \in Contexts, p \in Params :
    c \in slots[p] <=> c \in connected /\ p \in observables[c] \ outlived[c]

\* A parameter with observers is polled: it is registered, once, and its
\* counter is large enough that losing all but one of them does not
\* unregister it; what is registered exists, so that the tick may call it.
ObservedIsPolled ==
  /\ \A p \in Polled :
       /\ Cardinality(slots[p]) <= observations[p]
       /\ Cardinality({i \in DOMAIN tickTargets : tickTargets[i] = p}) =
            IF observations[p] > 0 THEN 1 ELSE 0
  /\ \A i \in DOMAIN tickTargets : tickTargets[i] \in alive \intersect Polled

\* The last report to every subscriber of a parameter whose changes all pass
\* through the framework is its current value, whenever that can be reported
\* at all.  One that could not is stored nevertheless and subscribers keep the
\* report from before, until a value that can be reported takes its place: then
\* none of them is left behind.
SubscribersAreCurrent ==
  \A p \in Params \ Polled : Tellable(p) => \A c \in slots[p] : shown[c][p] = value[p]

\* A context is told about a parameter only while it has it in its map.
OnlySubscribersAreTold ==
  \A c \in Contexts, p \in Params : shown[c][p] # NoValue => p \in observables[c]

\* A value of a polled parameter that differs from the one last polled is
\* reported to its subscribers, unless it changes again, they leave, or a
\* handler that threw has ended the polling, as one that cannot be reported does.
PolledChangeIsShown ==
  \A c \in Contexts, p \in Params, v \in Values :
    (p \in Polled /\ c \in slots[p] /\ value[p] = v /\ last[p] # v)
      ~> (shown[c][p] = v \/ value[p] # v \/ c \notin slots[p] \/ ~armed)

\* "The notify operation is carried out on value changes" (README.md): a value
\* that stays is reported to every subscriber eventually.
ValueIsShown ==
  \A c \in Contexts, p \in Params, v \in Values :
    (p \in Polled /\ c \in slots[p] /\ value[p] = v)
      ~> (shown[c][p] = v \/ value[p] # v \/ c \notin slots[p])

\* "This function must be called after deletion of the connection"
\* (client_observe_interface.h): observations without a connection are gone.
UnobserveFollowsDisconnect ==
  \A p \in Polled : observations[p] = Cardinality(slots[p])
=============================================================================
