SPECIFICATION FairSpec
CONSTANTS
  Threads = {t1, t2, t3}
  Values = {a, b}
  MaxSize = 2
  NoValue = none
INVARIANTS TypeOK NeverOverfull NoLostWakeup
PROPERTIES PopsReturnAfterClose ImplementsChannel
