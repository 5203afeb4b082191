SPECIFICATION Spec
CONSTANTS
  Uids = {u1, u2}
  Replicas = 1
  Sec = 2
  ReadinessTracksProbe = FALSE
  Policies = {1}
  Guarded = {1}
  Strategy = "Auto"
  RequireStable = TRUE
  MaxAttempts = 1
  Cooldown = 1
  MaxConcurrent = 1
  SkipPercent = 100
  Lagging = {}
  Prompt = FALSE
  Latency = 4
  Disturbances = {"regress", "badpod"}
  Budget = 2
  MaxTime = 4

PROPERTIES ResetMeansRecovery
