CONSTANTS
  ann = ann  phone = phone  laptop = laptop  mine = mine  older = older  q1 = q1  q2 = q2  q3 = q3  q4 = q4
  news = news  wiki = wiki  blog = blog  amy = amy  ben = ben  file1 = file1  file2 = file2  icon1 = icon1  icon2 = icon2
  People = {ann}
  Devices = {phone, laptop}
  PersonOf <- BothOfAnn
  MaxAnnouncing = 1
  Desktops = {mine, older}
  Friends = {amy}
  Newer <- MineFirst
  MaxReports = 2
  MaxPolicies = 1
  Nobody = Nobody
  Requests = {q1, q2, q3, q4}
  Links = {news, wiki, blog}
  Authors = {amy, ben}
  LinkOf <- LinkOfRequest
  AuthorOf <- AuthorOfRequest
  Fetches = {1, 2, 3, 4}
  MaxActive = 2
  MaxPerAuthor = 1
  MaxQueued = 2
  MaxGroup = 1
  NoFetch = 0
  Jobs = {file1, file2, icon1, icon2}
  Attachments = {file1, file2}
  FileOf <- FileOfJob
  Capacity <- OneEach
  MaxWaiting <- OneEach
  Messages = {q1, q2}
  Openers = {phone}
  MaxReadings = 2
  Screens = {phone}
  Other = laptop
  Lists <- UpToTwoConversations
  MaxSessions = 2
  MaxClicks = 2
  MaxPending = 2
  MaxFailures = 1
  MaxOthers = 1
  Contexts = {news, wiki}
  NoContext = NoContext
  MaxWatches = 2
  MaxChanges = 2
  Accounts = {amy, ben}
  NoAccount = NoAccount
  Flows = {phone, laptop}
  NoFlow = NoFlow
  MaxEvents = 2
SPECIFICATION ServicesSpec
INVARIANTS
  ServicesTypeOK
  CountIsExact ConnectedIsOnline ToldTheTruth
  PrivacyHolds
  FetchesAreExact
  LimitersExact FilesAreKnown
  UnreadIsKept
  OneDecisionPerClick
  RoomsSettle
  OneAccount
PROPERTIES
  GoneIsPushable ActivitySettles PreviewsSettle LinesDrain ViewMovesForward StaysSignedIn
CHECK_DEADLOCK FALSE
