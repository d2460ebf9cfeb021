CONSTANTS
  Threads = {t1, t2, t3}
  max_process = 4
SPECIFICATION FairSpec
CHECK_DEADLOCK FALSE
INVARIANTS TypeOK OneOwner NeverExhausted
PROPERTIES SearchEnds
