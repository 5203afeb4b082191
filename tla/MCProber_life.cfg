SPECIFICATION FairSpec
CONSTANTS
  Policies = {p1}
  Uids = {u1}
  Configs <- TwoConfigs
  MaxStarts = 2
  Capacity = 1
  CountCap = 2
INVARIANTS TypeOK OneLiveProber VerdictNotOverdue
PROPERTIES ImplementsStore StoppedProbersExit
