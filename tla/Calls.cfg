CONSTANTS
  alice = alice  bob = bob  carol = carol  a1 = a1  a2 = a2  b1 = b1  c1 = c1
  Users = {alice, bob}
  Sockets = {a1, a2, b1}
  UserOf <- TwoDevices
  Conversations = {v1, v2}
  Groups <- OrAliceAlone
  CallIds = {k1, k2}
  Slots = {h1, h2}
  MaxChanges = 1
  NoCall = NoCall
  NoConversation = NoConversation
SPECIFICATION Spec
INVARIANTS TypeOK OneCallPerConversation OneDevicePerUser ParticipantsConnected NobodyLeftAlone
PROPERTIES EndedStaysEnded
CHECK_DEADLOCK FALSE
SYMMETRY Interchangeable
