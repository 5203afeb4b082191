SPECIFICATION Spec
CONSTANTS
  Policies = {p1}
  Uids = {u1}
  Configs <- OneConfig
  MaxStarts = 2
  Capacity = 1
  CountCap = 2
PROPERTIES StoppedProbersAreSilent
