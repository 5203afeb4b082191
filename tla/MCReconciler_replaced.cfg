SPECIFICATION FairSpec
CONSTANTS
  Uids = {u1, u2}
  Replicas = 1
  Sec = 1
  ReadinessTracksProbe = FALSE
  Policies = {1}
  Guarded = {1}
  Strategy = "DeletePod"
  RequireStable = TRUE
  MaxAttempts = 1
  Cooldown = 1
  MaxConcurrent = 1
  SkipPercent = 100
  Lagging = {"deployments", "pods"}
  Prompt = FALSE
  Latency = 0
  Disturbances = {"regress", "recover", "stall", "crash"}
  Budget = 2
  MaxTime = 0
PROPERTIES RegressedReplaced
CHECK_DEADLOCK FALSE
