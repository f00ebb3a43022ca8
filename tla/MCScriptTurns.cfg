CONSTANTS
  Threads = {t1, t2, t3}
  Writers = {t1, t2}
  Slots = {s1, s2}
  NoThread = NoThread
  Contexts = {c1, c2, c3}
  NoContext = NoContext
  Delays = {1}
  MaxTime = 3
SPECIFICATION MCSpec
INVARIANT WriterAlone
INVARIANT ContextsAccounted
PROPERTY WriterGetsIn
PROPERTY EveryoneGetsATurn
\* A null left in a list, by a yield in a nested call, is a crash when its turn comes.
CHECK_DEADLOCK FALSE
