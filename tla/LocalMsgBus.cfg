CONSTANTS
  Threads = {t1, t2}
  BusTid = BusTid
  NoTask = NoTask
  MaxMsgs = 3
SPECIFICATION FairSpec
CHECK_DEADLOCK FALSE
INVARIANTS NoLostAnswer AnswerToOwnThread
PROPERTIES BusRefined DestroyReturns
