SPECIFICATION Spec
CONSTANTS
  acme = acme
  zeta = zeta
  a1 = a1
  a2 = a2
  i1 = i1
  i2 = i2
  m1 = m1
  m2 = m2
  c1 = c1
  Startups = {acme, zeta}
  Agents = {a1, a2}
  StartupOf <- MCStartupOf
  Ids = {i1, i2}
  Names = {"style"}
  Contents = {m1, m2}
  FileNames = {"logo"}
  Consoles = {c1}
  Authoring = {acme}
  MaxRevisions = 3
  MaxBacklog = 2
INVARIANTS
  TypeOK
  NewestIsLive
  ShowsAttachments
  CacheIsHistory
SYMMETRY Interchangeable
