SPECIFICATION ProcessesSpec
CONSTANTS
  Process = {p1, p2, p3}
  p1 = p1
  p2 = p2
  p3 = p3
  NoProcess = NoProcess
  MaxInode = 2
  Windows = FALSE
  Worker = {"r1", "r2"}
  Purpose = {"mcp", "worker"}
  User = {"a", "b"}
  NoUser = "none"
  MaxFlow = 2
  MaxGeneration = 1
  Launch = {"l1", "l2", "l3"}
  NoLaunch = "none"
  Thread = {"t1", "t2"}
  Profile = {"p"}
  ListedCourse = {"c1", "c2", "c3"}
  Term = {"m1", "m2"}
  NoTerm = "none"
  PageSize = 1
  MaxPages = 2
  MaxCourses = 2
  MaxSelected = 2
  Choice <- MCChoice
  Cooldown = 1
  RequestTime = 2
  DiscoveryTime = 3
  MaxTime = 4
  MaxChange = 1
  Caller = {"c1", "c2"}
  NoCaller = "none"
  MaxRequest = 3
INVARIANTS
  LockIsHeld
  OwnerAnswers
  ReadsAreHonest
PROPERTIES
  VerdictsAreFinal
  PosixFilesGoAway
  EndedSessionsExit
  ShellAndCoreAgree
CHECK_DEADLOCK FALSE
