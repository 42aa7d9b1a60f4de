SPECIFICATION FairSpec
CONSTANTS
  photo = photo
  Users = {alice}
  Ids = {m1}
  Bodies = {plain}
  FileCount <- MCFileCount
  Attachments = {a1}
  Slots = {h1}
  Sessions = {s1}
  MaxEnqueues = 1
  MaxFaults = 1
  NoUser = NoUser
  NoId = NoId
  NoBody = NoBody
  NoSlot = NoSlot
  NoSession = NoSession
PROPERTY NothingSilentlyLost
