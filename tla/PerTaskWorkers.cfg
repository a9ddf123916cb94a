SPECIFICATION Spec
CONSTANTS
  a1 = a1
  a2 = a2
  s1 = s1
  s2 = s2
  x1 = x1
  p1 = p1
  p2 = p2
  p3 = p3
  NoAgent = NoAgent
  NoPid = NoPid
  NoStartup = NoStartup
  NoSuite = NoSuite
  Agents = {a1}
  Startups = {s1}
  StartupOf <- MCStartupOf
  Pids = {p1, p2}
  Suites = {x1}
  Backoffs = 1
  ChannelSize = 2
  PerTask = TRUE
  Impatient = {s1}
INVARIANTS
  NoDeadRegistration
