---------------------------- MODULE ObjectLookup ----------------------------
(***************************************************************************)
(* What clients read from the tree while the server changes it: lookup by  *)
(* URI, and traversal as a text with indentation or as an XML description. *)
(* A URI is the sequence of its segments, which are empty where separators *)
(* follow each other or stand at an end.                                   *)
(***************************************************************************)
EXTENDS ObjectTree, SequencesExt

\* object::fq_name.
FqName[o \in Objects] ==
  IF parent[o] = NoObject THEN <<name[o]>> ELSE Append(FqName[parent[o]], name[o])

\* object::get_object_dictionary is not nullptr: the topmost object is the root.
Attached[o \in Objects] == o = Root \/ (parent[o] # NoObject /\ Attached[parent[o]])

\* Mutant: the last child of a name is taken.
FindChildLast(n, s) ==
  LET at == {i \in DOMAIN children[n] : name[children[n][i]] = s} IN
  IF at = {} THEN NoObject ELSE children[n][Max(at)]

\* node::find_child.
FindChild(n, s) ==
  LET at == {i \in DOMAIN children[n] : name[children[n][i]] = s} IN
  IF at = {} THEN NoObject ELSE children[n][Min(at)]

\* node::find_descendant_object: one more segment is looked up in what the
\* segments before it have led to, if that is a node.
FindDescendant(n, uri) ==
  LET Found[i \in 0..Len(uri)] ==
        IF i = 0 THEN n
        ELSE IF Found[i - 1] \in Nodes THEN FindChild(Found[i - 1], uri[i]) ELSE NoObject
  IN Found[Len(uri)]

\* object_dictionary::find_object; one leading separator is skipped.
FindObject(uri) ==
  LET u == IF uri[1] = Empty /\ Len(uri) > 1 THEN Tail(uri) ELSE uri IN
  IF u[1] # name[Root] THEN NoObject
  ELSE IF Len(u) = 1 THEN Root
  ELSE FindDescendant(Root, Tail(u))

\* Mutant: a child that may not be read hides only itself.
BrowseSkipping(start, hidden) ==
  LET Visit[o \in Objects] ==
        LET this == IF o \in hidden THEN <<>> ELSE <<o>> IN
        IF o \in Leaves THEN this
        ELSE FoldLeft(LAMBDA v, c : v \o Visit[c], this, children[o])
  IN Visit[start]

\* basic_client_context::browse_object, as the objects in the order of their
\* visits; hidden are those whose readlevel denies the client.
Browse(start, hidden) ==
  LET Visit[o \in Objects] ==
        IF o \in Leaves THEN <<o>>
        ELSE LET Visited[i \in 0..Len(children[o])] ==
                   IF i = 0 THEN <<o>>
                   ELSE IF children[o][i] \in hidden THEN Visited[i - 1]
                   ELSE Visited[i - 1] \o Visit[children[o][i]]
             IN Visited[Len(children[o])]
  IN Visit[start]

\* object_visitor::write_indentation.
Indentation(o) == Len(FqName[o]) - 1

\* Mutant: the types are written in the order of the visits.
XmlTypesInOrder(hidden) == SelectSeq(Browse(Root, hidden), LAMBDA o : o \in Nodes)

\* The types that xml_visitor writes when it is destroyed: it takes the nodes it
\* has visited from a stack.
XmlTypes(hidden) ==
  LET v == Browse(Root, hidden)
      Stack[i \in 0..Len(v)] ==
        IF i = 0 THEN <<>> ELSE IF v[i] \in Nodes THEN <<v[i]>> \o Stack[i - 1] ELSE Stack[i - 1]
  IN Stack[Len(v)]

-----------------------------------------------------------------------------
(* Properties *)

\* The URIs of up to three segments, with empty ones at the ends.
Uris ==
  LET paths == UNION {[1..n -> Names] : n \in 1..3} IN
  {<<Empty>>, <<Empty, Empty>>} \union paths
    \union {<<Empty>> \o u : u \in paths} \union {Append(u, Empty) : u \in paths}

\* o, or a node above it, has a sibling of the same name listed before it.
Shadowed[o \in Objects] ==
  /\ parent[o] # NoObject
  /\ LET siblings == children[parent[o]] IN
     \/ Shadowed[parent[o]]
     \/ \E i, j \in DOMAIN siblings : i < j /\ siblings[j] = o /\ name[siblings[i]] = name[o]

\* A URI leads to the object of the dictionary whose qualified name it is,
\* unless a namesake is listed before that object or before a node above it,
\* and to nothing else, whatever has been moved, renamed or destroyed.
LookupFindsNamed ==
  \A u \in Uris :
    LET path == IF u[1] = Empty /\ Len(u) > 1 THEN Tail(u) ELSE u IN
    /\ FindObject(u) \in alive \union {NoObject}
    /\ \A o \in alive :
         FindObject(u) = o <=> Attached[o] /\ FqName[o] = path /\ ~Shadowed[o]

\* Read by its indentation, the text of a traversal is the tree: the parent of
\* an entry is the last one before it with less indentation.  Nothing the client
\* may not read is in it, and nothing that it may read through nodes it may read
\* is missing.
IndentationShowsTree ==
  \A start \in alive, hidden \in SUBSET (alive \ {Root}) :
    LET v == Browse(start, hidden) IN
    /\ IsInjective(v)
    /\ v # <<>> /\ v[1] = start
    /\ \A o \in alive \ {start} :
         Contains(v, o) <=> o \notin hidden /\ parent[o] # NoObject /\ Contains(v, parent[o])
    /\ \A i \in 2..Len(v) :
         LET above == {j \in 1..(i - 1) : Indentation(v[j]) < Indentation(v[i])} IN
         above # {} /\ parent[v[i]] = v[Max(above)]

\* The XML description defines a type before it uses it: the members of a type
\* include the nodes below it, of which those that the client may read are
\* defined further up.
XmlDefinesBeforeUse ==
  \A hidden \in SUBSET (alive \ {Root}) :
    LET t == XmlTypes(hidden) IN
    \A i \in DOMAIN t : \A c \in Members(children[t[i]]) \ hidden :
      c \in Nodes => \E j \in 1..(i - 1) : t[j] = c
=============================================================================
