SPECIFICATION Spec
CONSTANTS
  w1 = w1
  w2 = w2
  Workers = {w1}
  Caps = {0, 20, 40}
  Costs = {0, 3, 16}
  MaxSpend = 44
  ChannelSize = 2
INVARIANTS
  SpendIsReported
  AnnouncedOnce
  NoSilentCrossing
  NoTaskBehindPause
