SPECIFICATION MeteredSpec
SYMMETRY PodSymmetry
CONSTANTS
  Uids = {u1, u2, u3, u4}
  Replicas = 3
  Sec = 2
  ReadinessTracksProbe = FALSE
  Policies = {1}
  Guarded = {1}
  Strategy = "Auto"
  RequireStable = TRUE
  MaxAttempts = 1
  Cooldown = 2
  MaxConcurrent = 2
  SkipPercent = 100
  Lagging = {}
  Prompt = TRUE
  Latency = 0
  Disturbances = {"regress", "badpod"}
  Budget = 3
  MaxTime = 4
INVARIANTS SomeReplicaRuns GaugesAgree
PROPERTIES ActionSpacing
