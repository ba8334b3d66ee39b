SPECIFICATION IntervalSpec
CONSTANTS
  Threads = {r1, r2}
  Tasks = {t1, t2, t3}
  Nobody = Nobody
  MiningFails = TRUE
INVARIANT MinerIsAlive
