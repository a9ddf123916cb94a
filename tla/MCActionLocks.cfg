SPECIFICATION FairSpec
CONSTANTS
  s1 = s1
  s2 = s2
  ann = ann
  bob = bob
  env = env
  t1 = t1
  Sessions = {s1, s2}
  Viewers = {s1}
  Operators = {ann, bob}
  Env = env
  Tasks = {t1}
  Roles = {"admin"}
  MaxBacklog = 2
  MaxCrashes = 1
INVARIANTS
  ShowsTheLocks
  BouncesOffACrash
  SomeoneRemains
PROPERTIES
  NoLiveLockSwept
  LocksEnd
