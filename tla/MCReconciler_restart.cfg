SPECIFICATION Spec
SYMMETRY PodSymmetry
CONSTANTS
  Uids = {u1, u2}
  Replicas = 1
  Sec = 1
  ReadinessTracksProbe = FALSE
  Policies = {1}
  Guarded = {1}
  Strategy = "Auto"
  RequireStable = TRUE
  MaxAttempts = 1
  Cooldown = 1
  MaxConcurrent = 1
  SkipPercent = 100
  Lagging = {"policies"}
  Prompt = FALSE
  Latency = 1
  Disturbances = {"regress", "badpod", "deploy", "dryRun", "crash", "writeError"}
  Budget = 2
  MaxTime = 1
INVARIANTS TypeOK
PROPERTIES NoRestartDuringRollout RecordedSpacing
