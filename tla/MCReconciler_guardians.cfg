SPECIFICATION FairSpec
CONSTANTS
  Uids = {u1, u2}
  Replicas = 1
  Sec = 1
  ReadinessTracksProbe = FALSE
  Policies = {1, 2}
  Guarded = {1}
  Strategy = "Auto"
  RequireStable = TRUE
  MaxAttempts = 1
  Cooldown = 1
  MaxConcurrent = 1
  SkipPercent = 100
  Lagging = {"policies"}
  Prompt = FALSE
  Latency = 1
  Disturbances = {"createPolicy", "deletePolicy", "retarget", "invalidate", "crash"}
  Budget = 3
  MaxTime = 1
INVARIANTS NoOrphanProbers NeverForgotten
PROPERTIES OneGuardian DeletionCompletes ImplementsLife
CHECK_DEADLOCK FALSE
