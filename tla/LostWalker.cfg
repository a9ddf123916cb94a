SPECIFICATION Spec
CONSTANTS
  a1 = a1
  a2 = a2
  s1 = s1
  s2 = s2
  suite_1 = suite_1
  suite_3 = suite_3
  lobby = lobby
  NoStartup = NoStartup
  NoRoom = NoRoom
  NoTile = NoTile
  Agents = {a1, a2}
  Startups = {s1, s2}
  StartupOf <- MCStartupOf
  Rooms = {suite_1, lobby, suite_3}
  PublicRooms = {lobby}
  Bounds <- MCBounds
  Doors <- MCDoors
  Home <- MCHome
  Targets <- MCTargets
  NoTurning = FALSE
INVARIANT
  InsideItsRoom
