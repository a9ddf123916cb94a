SPECIFICATION Spec
CONSTANTS
  s1 = s1
  s2 = s2
  ann = ann
  bob = bob
  acme = acme
  gc = gc
  Sessions = {s1, s2}
  Operators = {ann, bob}
  Startups = {acme}
  GC = gc
  MaxBacklog = 1
INVARIANTS
  SameList
  NoGhosts
SYMMETRY Interchangeable
