CONSTANTS
  alice = alice  bob = bob  carol = carol  a1 = a1  a2 = a2  b1 = b1  c1 = c1
  Users = {alice, bob, carol}
  Sockets = {a1, b1, c1}
  UserOf <- ThreePeople
  Conversations = {v1}
  Groups <- Everybody
  CallIds = {k1}
  Slots = {h1, h2}
  MaxChanges = 1
  NoCall = NoCall
  NoConversation = NoConversation
SPECIFICATION Spec
INVARIANTS NoCallAfterLeaving
CHECK_DEADLOCK FALSE
