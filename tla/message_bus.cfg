SPECIFICATION Spec
CONSTANTS
  root = root
  a = a
  a1 = a1
  c = c
  drill = drill
  g1 = g1
  g2 = g2
  g3 = g3
  NoSeat = NoSeat
  Seats = {root, a, a1, c}
  Parent <- MCParent
  Convs <- MCConvs
  Activities = {drill}
  Groups <- MCGroups
  Mentions <- MCMentions
  MaxPosts = 3
  MaxTime = 1
SYMMETRY MCSymmetry
INVARIANTS
  TypeOK
  MessagesStayInTheirCircle
  BroadcastCoversSubtree
PROPERTIES
  BranchInheritsContext
CHECK_DEADLOCK FALSE
