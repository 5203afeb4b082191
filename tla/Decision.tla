------------------------------ MODULE Decision ------------------------------
(***************************************************************************)
(* The pure decision helpers of internal/controller: logic.go and the      *)
(* policy order of hotswappolicy_controller.go.  Times are clock ticks;    *)
(* durations arrive already multiplied out.                                *)
(***************************************************************************)
EXTENDS Integers

Unset == -1       \* a nil *int32, for which the API admits no negative value
Never == -1       \* a nil *RemediationRecord: no remediation yet

Strategies == {"Auto", "RolloutRestart", "DeletePod"}

\* Mutant: the generation check is forgotten.
DeploymentStableAnyGeneration(d) ==
  /\ d.spec # Unset
  /\ d.replicas = d.spec /\ d.updated = d.spec /\ d.available = d.spec
  /\ d.unavailable = 0

DeploymentStable(d) ==
  /\ d.rev = d.obs
  /\ d.spec # Unset
  /\ d.replicas = d.spec /\ d.updated = d.spec /\ d.available = d.spec
  /\ d.unavailable = 0

EffectiveReplicas(d) == IF d.spec = Unset THEN 1 ELSE d.spec

ChooseStrategy(s, replicas) ==
  IF s \in {"RolloutRestart", "DeletePod"} THEN s
  ELSE IF replicas <= 1 THEN "RolloutRestart" ELSE "DeletePod"

\* Mutant: a single unhealthy replica counts as a systemic failure.
IsSystemicSingle(unhealthy, total, skipPercent) ==
  /\ unhealthy > 0 /\ skipPercent > 0
  /\ unhealthy * 100 >= skipPercent * total

IsSystemic(unhealthy, total, skipPercent) ==
  /\ total >= 2 /\ unhealthy > 0 /\ skipPercent > 0
  /\ unhealthy * 100 >= skipPercent * total

BreakerOpen(attempts, maxAttempts, last, cooldown, now) ==
  /\ attempts >= maxAttempts
  /\ last # Never
  /\ now - last < cooldown

CooldownActive(last, cooldown, now) ==
  /\ last # Never /\ cooldown > 0
  /\ now - last < cooldown

\* lessPolicy: earliest creation wins, ties broken by name.
LessPolicy(a, aCreated, b, bCreated) ==
  IF aCreated # bCreated THEN aCreated < bCreated ELSE a < b

\* metav1.Time is stored in whole seconds of sec ticks.
Truncate(t, sec) == (t \div sec) * sec
=============================================================================
