SPECIFICATION FairSpec
CONSTANTS
  Uids = {u1, u2, u3}
  Replicas = 2
  Sec = 2
  ReadinessTracksProbe = TRUE
  Policies = {1}
  Guarded = {1}
  Strategy = "Auto"
  RequireStable = TRUE
  MaxAttempts = 1
  Cooldown = 1
  MaxConcurrent = 1
  SkipPercent = 100
  Lagging = {}
  Prompt = FALSE
  Latency = 0
  Disturbances = {"regress"}
  Budget = 1
  MaxTime = 0

PROPERTIES RegressedReplaced
