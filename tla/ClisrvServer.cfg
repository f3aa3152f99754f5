SPECIFICATION Spec
CONSTANTS
  root = root
  rw = rw
  ro = ro
  wo = wo
  ev = ev
  ext = ext
  dev = dev
  c1 = c1
  c2 = c2
  Objects = {root, rw, ro, wo, ev, ext, dev}
  NoObject = NoObject
  Kind <- MCKind
  Unhandled = {wo, ext}
  Children <- MCChildren
  Position <- MCPosition
  Readlevel <- MCReadlevel
  Writelevel <- MCWritelevel
  Values = {1, 2, 4, 5}
  Refused = {2}
  Ignored = {5}
  Untellable = {4}
  BadValue = 3
  Granted = {0, 1, 4, 9}
  Clients = {c1, c2}
  Requests <- MCRequests
  Initial <- MCInitial
  Userlevel = 3
  Greeting <- MCGreeting
  MaxRequests <- MCMaxRequests
  SocketSize = 1
  Readers = {c1}
INVARIANTS
  EventsMatchConnections
PROPERTIES
  ErrorIsContained
  ImplementsRequestReply
  RequestsAreAnswered
  EndIsNoticed
CHECK_DEADLOCK FALSE
