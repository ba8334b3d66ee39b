SPECIFICATION IntervalSpec
CONSTANTS
  Threads = {r1, r2, r3}
  Tasks = {t1, t2, t3}
  Nobody = Nobody
  MiningFails = TRUE
INVARIANTS LockExclusive OneMiner
PROPERTIES RequestsReturn MinerProceeds DropEnds
