SPECIFICATION Spec
CONSTANTS
  photo = photo
  Users = {alice}
  Ids = {m1,m2}
  Bodies = {plain}
  FileCount <- MCFileCount
  Attachments = {a1}
  Slots = {h1}
  Sessions = {s1, s2}
  MaxEnqueues = 2
  MaxFaults = 1
  NoUser = NoUser
  NoId = NoId
  NoBody = NoBody
  NoSlot = NoSlot
  NoSession = NoSession
SYMMETRY Symmetry
PROPERTY PostedInOrder
