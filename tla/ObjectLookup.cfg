SPECIFICATION Spec
CONSTANTS
  Root = r
  Nodes = {r, n1, n2, n3}
  Leaves = {l1, l2}
  Names = {a, b}
  Empty = Empty
  NoObject = NoObject
INVARIANTS
  TypeOK
  ListedByParent
  LookupFindsNamed
  IndentationShowsTree
  XmlDefinesBeforeUse
SYMMETRY Symmetry
