SPECIFICATION FairSpec
CONSTANTS
  m = m
  e = e
  s = s
  t1 = t1
  t2 = t2
  t3 = t3
  NoAgent = NoAgent
  NoTask = NoTask
  NoRoom = NoRoom
  Agents = {m, e}
  Tasks = {t1}
  Startups = {s}
  Rooms = {"hall", "suite"}
  StartupOf <- MCStartupOf
  RoleOf <- MCRoleOf
  ManagerOf <- MCManagerOf
  PeerReviewers = {}
  HomeOf <- MCHomeOf
  RoomChoices = {"suite", NoRoom}
  EnterableBy <- MCEnterableBy
  MaxReviewRounds = 1
  AutoSteal = {}
  AutoRecovery = {}
  MaxAttempts = 1
  Metered = {s}
  Flaky = {e}
  Lossy = {e}
  Wanderers = {m}
  Dissolvable = {s}
  MayRestart = TRUE
  PerTask = FALSE
INVARIANT
  WorkingAgentHasTask
PROPERTIES
  NoIdleStarvation
