SPECIFICATION EffectsSpec
CONSTANTS
  Runs = {r1, r2}
  Setups = {s1, s2}
  Preflights = {pf1}
  r1 = r1
  r2 = r2
  s1 = s1
  s2 = s2
  pf1 = pf1
  Failed = Failed
  NoPackage = NoPackage
  NoLock = NoLock
  NoRun = NoRun
  MaxSequence = 2
  MaxFraction = 1
  MaxBatch = 2
SYMMETRY MCSymmetry
INVARIANTS
  MovesOnlyLocked
  BeliefIsTrue
  HistoryIsTrue
PROPERTIES
  NothingStale
  StopWins
