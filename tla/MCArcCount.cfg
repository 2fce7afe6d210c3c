SPECIFICATION FairSpec
CONSTANTS
  Threads = {t1, t2, t3}
  Handles = {h1, h2, h3}
  Accesses = {a1, a2}
  Nobody = Nobody
INVARIANTS CountExact FreedLast FreedOnce
PROPERTIES Reclaimed
CHECK_DEADLOCK FALSE
