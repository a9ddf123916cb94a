SPECIFICATION Spec
CONSTANTS
  m = m
  e1 = e1
  e2 = e2
  x = x
  s1 = s1
  s2 = s2
  t1 = t1
  t2 = t2
  NoAgent = NoAgent
  NoTask = NoTask
  NoRoom = NoRoom
  Agents <- MCAgents
  Tasks = {t1, t2}
  Startups = {s1, s2}
  Rooms = {"hall"}
  StartupOf <- MCStartupOf
  RoleOf <- MCRoleOf
  ManagerOf <- MCManagerOf
  PeerReviewers = {e1, e2}
  HomeOf <- MCHomeOf
  RoomChoices = {NoRoom}
  EnterableBy <- MCEnterableBy
  MaxReviewRounds = 3
  AutoSteal = {s1}
  AutoRecovery = {s1}
  MaxAttempts = 2
  Metered = {}
  Flaky = {}
  Lossy = {}
  Wanderers = {}
  Dissolvable = {}
  MayRestart = FALSE
  PerTask = FALSE
SYMMETRY Symmetry
INVARIANTS
  TypeOK
  SnapshotHolds
  ProposalsUnassigned
  AssigneeInStartup
  OpenWorkIsFresh
  WorkingAgentHasTask
PROPERTIES
  HandoversKeepRole
  BlockersHold
  CycleSpec
