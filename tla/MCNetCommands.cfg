SPECIFICATION FairSpec
CONSTANTS
  Conns = {n1, n2}
  Threads = {t1, t2}
  MaxSeq = 2
  Kinds = {"power", "local", "invalid", "garbled"}
INVARIANTS RunsOnce AnswersFit
PROPERTIES EveryCommandAnswered
CHECK_DEADLOCK FALSE
