SPECIFICATION FairSpec
CONSTANTS
  m = m
  e = e
  s = s
  t1 = t1
  t2 = t2
  t3 = t3
  NoAgent = NoAgent
  NoTask = NoTask
  NoRoom = NoRoom
  Agents = {e}
  Tasks = {t1, t2}
  Startups = {s}
  Rooms = {"hall", "suite"}
  StartupOf <- MCStartupOf
  RoleOf <- MCRoleOf
  ManagerOf <- MCManagerOf
  PeerReviewers = {}
  HomeOf <- MCHomeOf
  RoomChoices = {"suite", "hall"}
  EnterableBy <- MCEnterableBy
  MaxReviewRounds = 1
  AutoSteal = {}
  AutoRecovery = {}
  MaxAttempts = 1
  Metered = {s}
  Flaky = {e}
  Lossy = {e}
  Wanderers = {}
  Dissolvable = {}
  MayRestart = FALSE
  PerTask = TRUE
PROPERTIES
  NoIdleStarvation
