SPECIFICATION ServicesSpec
CONSTANTS
  Policy = {p1, p2}
  p1 = p1
  p2 = p2
  Down = Down
  Request = {r1, r2}
  r1 = r1
  r2 = r2
  PendingCap = 1
  DurableCap = 1
  MaxClient = 3
  MaxLogin = 2
  MaxPair = 4
  Process = {"p1", "p2"}
  KeyFile = "key"
  File = {"key", "f"}
  Value = {1, 2}
  Size = 1
  MaxNode = 3
  Core = {"c1", "c2"}
  NoCore = "none"
  Thread = {"t1", "t2"}
  NoThread = "none"
  Content = {"c"}
  MaxSchema = 2
  MaxTx = 2
  MaxRow = 2
  MaxCrash = 1
  Asker = {"r1", "r2"}
  NoAsker = "none"
  Kid = {"k1", "k2"}
  Ttl = {2}
  Cooldown = 1
  Latency = 1
  MaxTime = 3
  MaxChange = 1
  Window = {"main"}
  Relay = {1, 2, 3}
  MaxToken = 3
  Slow = TRUE
  Home = "canvas"
  Storage = {"s1", "s2"}
  Host = {"canvas", "s1", "s2", "other"}
  FileId = {"f1", "f2"}
  NoFileId = "none"
  MaxRedirects = 2
  MaxRequests = 2
  ObservationMax = 5
  Hash = {"h1", "h2"}
  Partial = {"h2"}
  NoHash = "none"
  MaxAttempts = 2
  MaxCall = 4
  Submission = {"r1", "r2"}
  NoSubmission = "none"
  Account = {"a", "b"}
  NoAccount = "none"
  CanvasToken = {"ta", "tb"}
  NoCanvasToken = "none"
  OwnerOf <- Owner
  Course = {"c1"}
  LeaseTime = 1
  MaxClock = 1
  MaxEdit = 1
  MaxWrite = 1
  MaxReview = 1
  MaxRevision = 2
  RightsThread = {"t1", "t2"}
  Scope = {"s1", "s2"}
  NoScope = "none"
  Binding = {1, 2}
  Rival = {{1, 2}}
  Batch = {{1, 2}}
  MaxActive = 1
  MaxFollowup = 1
  PurgeEvery = 2
  MaxGranted = 2
  MaxFlip = 1
  Worker = {"r1", "r2"}
  Purpose = {"mcp", "worker"}
  User = {"a", "b"}
  NoUser = "none"
  MaxFlow = 2
  MaxGeneration = 1
  Materials = 2
  Caller = {"u1", "u2"}
  Layout <- CutOrWhole
  MaxItems = 2
  MaxChars = 3
  MaxItemChars = 2
  MaxWindows = 2
  Lead = 1
  MaxUpdate = 1
  MaxPackage = 2
INVARIANTS
  FamilyIsAChain
  GrantsHold
  StoreIsSound
  OneSessionPerWindow
  AnswersAreHonest
  RightsHold
  ReadyComesLast
  OneAccountOneSession
  KeysAreTrusted
  TokenStaysHome
  SecretsAreWhole
PROPERTIES
  SelectionsHold
