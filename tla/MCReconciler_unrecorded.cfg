SPECIFICATION Spec
SYMMETRY PodSymmetry
CONSTANTS
  Uids = {u1, u2, u3}
  Replicas = 2
  Sec = 2
  ReadinessTracksProbe = FALSE
  Policies = {1}
  Guarded = {1}
  Strategy = "Auto"
  RequireStable = TRUE
  MaxAttempts = 1
  Cooldown = 2
  MaxConcurrent = 1
  SkipPercent = 100
  Lagging = {}
  Prompt = TRUE
  Latency = 0
  Disturbances = {"regress", "crash", "writeError"}
  Budget = 3
  MaxTime = 1
INVARIANTS SomeReplicaRuns
