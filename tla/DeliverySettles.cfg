SPECIFICATION FairSpec
CONSTANTS
  photo = photo
  Users = {alice}
  Ids = {m1}
  Bodies = {photo}
  FileCount <- MCFileCount
  Attachments = {a1,a2,a3}
  Slots = {h1, h2}
  Sessions = {s1, s2}
  MaxEnqueues = 1
  MaxFaults = 1
  NoUser = NoUser
  NoId = NoId
  NoBody = NoBody
  NoSlot = NoSlot
  NoSession = NoSession
PROPERTY EveryItemSettles
