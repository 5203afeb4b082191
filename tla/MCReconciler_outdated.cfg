SPECIFICATION Spec
SYMMETRY PodSymmetry
CONSTANTS
  Uids = {u1, u2, u3, u4}
  Replicas = 3
  Sec = 1
  ReadinessTracksProbe = FALSE
  Policies = {1}
  Guarded = {1}
  Strategy = "Auto"
  RequireStable = TRUE
  MaxAttempts = 2
  Cooldown = 1
  MaxConcurrent = 1
  SkipPercent = 100
  Lagging = {"policies"}
  Prompt = TRUE
  Latency = 0
  Disturbances = {"regress"}
  Budget = 2
  MaxTime = 0
PROPERTIES MinimumSpacing
