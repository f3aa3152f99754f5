----------------------------- MODULE ObjectTree -----------------------------
(***************************************************************************)
(* The tree of decof::object, node and object_dictionary: objects that are *)
(* constructed, destroyed, renamed and moved by the server, and the        *)
(* lookups and traversals that clients make between these operations.      *)
(*                                                                         *)
(* Nothing in the code keeps a node from being put below itself; like a    *)
(* server that builds a tree, the actions do not (Below), and they leave   *)
(* the dictionary itself at the root.                                      *)
(***************************************************************************)
EXTENDS FiniteSets, Naturals, Sequences, Lists

CONSTANTS Root,      \* the object dictionary
          Nodes,     \* nodes, the object dictionary among them
          Leaves,    \* parameters and events
          Names,     \* names of objects, without separators
          Empty,     \* the empty string
          NoObject   \* nullptr

Objects == Nodes \union Leaves

ASSUME TreeAssumption ==
  /\ Root \in Nodes
  /\ Nodes \intersect Leaves = {}
  /\ NoObject \notin Objects
  /\ Empty \notin Names

VARIABLES alive,     \* the objects that exist
          name,      \* name_
          parent,    \* parent_
          children   \* children_ of the nodes

vars == <<alive, name, parent, children>>

\* The links of the tree, which the operations on it read and change.
Links == [parent |-> parent, children |-> children]

Init ==
  /\ alive = {Root}
  /\ name \in [Objects -> Names]
  /\ \A o, p \in Objects : name[o] = name[p]
  /\ parent = [o \in Objects |-> NoObject]
  /\ children = [n \in Nodes |-> <<>>]

-----------------------------------------------------------------------------
(* Operations on the links *)

\* node::remove_child: what n does not list keeps its parent.
RemoveChild(t, n, o) ==
  IF o \in Members(t.children[n])
    THEN [parent |-> [t.parent EXCEPT ![o] = NoObject],
          children |-> [t.children EXCEPT ![n] = Without(@, o)]]
    ELSE t

\* Taking o from the node it has as its parent, if any.
Detach(t, o) == IF t.parent[o] = NoObject THEN t ELSE RemoveChild(t, t.parent[o], o)

\* Mutant: the child stays with its former parent.
AddChildTwice(t, n, o) ==
  [parent |-> [t.parent EXCEPT ![o] = n], children |-> [t.children EXCEPT ![n] = Append(@, o)]]

\* node::add_child.
AddChild(t, n, o) ==
  LET s == Detach(t, o) IN
  [parent |-> [s.parent EXCEPT ![o] = n], children |-> [s.children EXCEPT ![n] = Append(@, o)]]

\* Mutant: the children keep their parent_.
NodeDestroyedAlone(t, n) ==
  [parent |-> t.parent, children |-> [t.children EXCEPT ![n] = <<>>]]

\* The destructor of node: the children are left without a parent.
NodeDestroyed(t, n) ==
  [parent |-> [o \in Objects |-> IF o \in Members(t.children[n]) THEN NoObject ELSE t.parent[o]],
   children |-> [t.children EXCEPT ![n] = <<>>]]

\* The destructors of node and object: the object leaves its own parent last.
Destroyed(t, o) == Detach(IF o \in Nodes THEN NodeDestroyed(t, o) ELSE t, o)

Become(t) == parent' = t.parent /\ children' = t.children

-----------------------------------------------------------------------------
(* The server's operations *)

\* o is p or below p: it is in every set that holds p and the children of all
\* its members.
Below(o, p) ==
  \A S \in SUBSET alive :
    p \in S /\ (\A x \in alive : parent[x] \in S => x \in S) => o \in S

\* The constructor: parent_ is set before the node lists the object.
Construct(o, p, n) ==
  /\ o \notin alive
  /\ p \in (alive \intersect Nodes) \union {NoObject}
  /\ alive' = alive \union {o}
  /\ name' = [name EXCEPT ![o] = n]
  /\ IF p = NoObject THEN UNCHANGED <<parent, children>>
     ELSE Become(AddChild([Links EXCEPT !.parent[o] = p], p, o))

Destroy(o) ==
  /\ o \in alive \ {Root}
  /\ alive' = alive \ {o}
  /\ Become(Destroyed(Links, o))
  /\ UNCHANGED name

\* object::name(const char*).
Rename(o, n) ==
  /\ o \in alive
  /\ name' = [name EXCEPT ![o] = n]
  /\ UNCHANGED <<alive, parent, children>>

\* node::add_child, also of an object that has a parent, even the same.
Add(n, o) ==
  /\ n \in alive /\ o \in alive \ {Root}
  /\ ~Below(n, o)
  /\ Become(AddChild(Links, n, o))
  /\ UNCHANGED <<alive, name>>

\* node::remove_child, also of an object that n does not list.
RemoveFrom(n, o) ==
  /\ n \in alive /\ o \in alive
  /\ Become(RemoveChild(Links, n, o))
  /\ UNCHANGED <<alive, name>>

\* object::reset_parent(parent).
ResetParent(o, p) ==
  /\ o \in alive \ {Root}
  /\ p \in alive /\ ~Below(p, o)
  /\ Become(AddChild(Detach(Links, o), p, o))
  /\ UNCHANGED <<alive, name>>

\* object::reset_parent().
ResetNoParent(o) ==
  /\ o \in alive
  /\ Become(Detach(Links, o))
  /\ UNCHANGED <<alive, name>>

Next ==
  \/ \E o \in Objects, p \in Nodes \union {NoObject}, n \in Names : Construct(o, p, n)
  \/ \E o \in Objects : Destroy(o) \/ ResetNoParent(o)
  \/ \E o \in Objects, n \in Names : Rename(o, n)
  \/ \E o \in Objects, n \in Nodes : Add(n, o) \/ RemoveFrom(n, o) \/ ResetParent(o, n)

Spec == Init /\ [][Next]_vars

-----------------------------------------------------------------------------
(* Properties *)

\* The shape of the state: no object points to a destroyed one, and what is
\* destroyed is forgotten.
TypeOK ==
  /\ alive \in SUBSET Objects
  /\ name \in [Objects -> Names]
  /\ parent \in [Objects -> (alive \intersect Nodes) \union {NoObject}]
  /\ children \in [Nodes -> Seq(alive)]
  /\ Root \in alive /\ parent[Root] = NoObject
  /\ \A o \in Objects \ alive : parent[o] = NoObject
  /\ \A n \in Nodes \ alive : children[n] = <<>>

\* The two directions of the links agree: a node lists exactly the objects
\* whose parent_ it is, and each of them once, through all constructions,
\* destructions and moves.
ListedByParent ==
  \A n \in Nodes :
    /\ \A o \in Objects : o \in Members(children[n]) <=> parent[o] = n
    /\ \A i, j \in DOMAIN children[n] : children[n][i] = children[n][j] => i = j
=============================================================================
