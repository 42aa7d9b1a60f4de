SPECIFICATION Spec
CONSTANTS
  photo = photo
  Users = {alice, bob}
  Ids = {m1}
  Bodies = {plain, photo}
  FileCount <- MCFileCount
  Attachments = {a1,a2}
  Slots = {h1, h2}
  Sessions = {s1, s2}
  MaxEnqueues = 1
  MaxFaults = 2
  NoUser = NoUser
  NoId = NoId
  NoBody = NoBody
  NoSlot = NoSlot
  NoSession = NoSession
SYMMETRY Symmetry
INVARIANTS
  TypeOK
  OneAnnouncement
  PostedByItsAuthor
  PostedComplete
PROPERTIES
  LeavesOnlyWhenSafe
  LeaseRespected
  ImplementsExactlyOnce
