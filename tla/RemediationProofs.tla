------------------------- MODULE RemediationProofs -------------------------
(***************************************************************************)
(* What remediation does to the cluster and says about it: restarts wait   *)
(* for rollouts, actions are spaced by the cooldown, the gauges agree with *)
(* the status, and some replica always runs, each for every number of      *)
(* pods, replicas and policies and all remediation settings.               *)
(***************************************************************************)
EXTENDS Metrics, ReconcilerSafety, DecisionProofs

(***************************************************************************)
(* Restarts and rollouts.                                                  *)
(*                                                                         *)
(* The stability gate keeps a restart out of a rollout that was under way  *)
(* when the Deployment was read, provided the gate is on and the           *)
(* Deployment is not read from an outdated cache.  The gate trusts a       *)
(* status that may itself be old.  That is enough, because a status for    *)
(* the current generation that counts as many updated pods as pods was     *)
(* written when no older pod was left (Settled), and no older pod comes    *)
(* back.                                                                   *)
(***************************************************************************)
\* No pod of a template before revision r is running.
OlderGone(r) == \A u \in Running : pods[u].rev >= r

Deciding == {"pods", "decide", "act"}

Settled ==
  /\ dep.obs <= dep.rev
  /\ dep.obs = dep.rev /\ dep.replicas = dep.updated => OlderGone(dep.rev)
  /\ cdep = dep
  /\ work.pc \in Deciding => work.dep.rev <= dep.rev
  /\ work.pc \in Deciding /\ DeploymentStable(work.dep) => OlderGone(work.dep.rev)
  /\ work.pc = "act" => DeploymentStable(work.dep)
-----------------------------------------------------------------------------
(***************************************************************************)
(* The steps, seen from the Deployment.                                    *)
(***************************************************************************)

\* A pod that runs ran before, or is made from the current template.
PodsAge ==
  \A u \in Uids : pods'[u].phase = "running" =>
    (pods[u].phase = "running" /\ pods'[u].rev = pods[u].rev) \/ pods'[u].rev = dep.rev

\* A new template, a status report, or something else.
DeploymentMoves ==
  \/ dep'.rev = dep.rev + 1 /\ dep'.obs = dep.obs
  \/ dep' = Observed /\ pods' = pods
  \/ /\ dep'.rev = dep.rev /\ dep'.obs = dep.obs
     /\ dep'.replicas = dep.replicas /\ dep'.updated = dep.updated

CallMoves ==
  \/ work' = work \/ work'.pc \notin Deciding
  \/ work'.pc = "pods" /\ work'.dep = cdep /\ UNCHANGED <<dep, pods>>
  \/ /\ work.pc \in Deciding /\ work'.dep = work.dep
     /\ work'.pc = "act" => work.pc = "act" \/ DeploymentStable(work.dep)

RolloutShape ==
  /\ PodsAge /\ DeploymentMoves /\ CallMoves /\ cdep' = dep'
  /\ dep'.stamp = dep.stamp \/ work.pc = "act"

Same == UNCHANGED <<dep, pods>> => PodsAge /\ DeploymentMoves

LEMMA SameShape == Same
  BY DEF Same, PodsAge, DeploymentMoves

\* A step that leaves the cluster alone, or tells the caches.
LEMMA QuietShape ==
  ASSUME "deployments" \notin Lagging, cdep = dep, UNCHANGED <<dep, pods>>, CallMoves,
         cdep' = cdep \/ cdep' = dep \/ \E Q : Informed(Q)
  PROVE  RolloutShape
<1>1. cdep' = dep'
  BY DEF Informed
<1> QED
  BY <1>1, SameShape DEF Same, RolloutShape

LEMMA ClusterMoves ==
  ASSUME TypeOK, ObserveStatus \/ Stall \/ Deploy \/ (\E u \in Uids : \/ ControllerStep(u) \/ Regress(u)
                   \/ Recover(u) \/ \E b \in BOOLEAN : CreatePod(u, b))
  PROVE  PodsAge /\ DeploymentMoves /\ dep'.stamp = dep.stamp
<1>0. dep \in Deployment /\ pods \in [Uids -> Pod]
  BY DEF TypeOK, ClusterTypeOK
<1>1. CASE ObserveStatus
  <2>1. dep' = Observed /\ pods' = pods
    BY <1>1 DEF ObserveStatus
  <2>2. Observed.stamp = dep.stamp
    BY <1>0 DEF Observed, Deployment
  <2> QED
    BY <2>1, <2>2 DEF PodsAge, DeploymentMoves
<1>2. CASE Stall
  <2>1. dep' = [dep EXCEPT !.stalled = TRUE] /\ pods' = pods
    BY <1>2 DEF Stall
  <2> QED
    BY <1>0, <2>1 DEF PodsAge, DeploymentMoves, Deployment
<1>3. CASE Deploy
  <2>1. dep' = [dep EXCEPT !.rev = @ + 1] /\ pods' = pods
    BY <1>3 DEF Deploy
  <2> QED
    BY <1>0, <2>1 DEF PodsAge, DeploymentMoves, Deployment
<1>4. ASSUME NEW u \in Uids, ControllerStep(u) \/ Regress(u) \/ Recover(u)
      PROVE  PodsAge /\ dep' = dep
  BY <1>0, <1>4 DEF ControllerStep, RetireOld, Terminated, BecomeReady, BecomeUnready, Regress, Recover,
                    PodDeleted, NoPod, PodsAge, Pod
<1>5. ASSUME NEW u \in Uids, NEW b \in BOOLEAN, CreatePod(u, b)
      PROVE  PodsAge /\ dep' = dep
  BY <1>0, <1>5 DEF CreatePod, PodsAge, Pod
<1> QED
  BY <1>1, <1>2, <1>3, <1>4, <1>5 DEF DeploymentMoves

LEMMA BeginRollout ==
  ASSUME TypeOK, "deployments" \notin Lagging, cdep = dep, NEW p \in Policies, Begin(p)
  PROVE  RolloutShape
<1>1. UNCHANGED <<dep, pods, cdep>>
  BY DEF Begin, BeginGone, BeginDeletion, BeginAdoption, BeginInvalid, BeginGuarding, Take, caches, cluster
<1>2. UNCHANGED work \/ \E o, l : l \in {"finalizer", "status", "resolve"} /\ StartWork(p, l, o)
  BY DEF Begin, BeginGone, BeginDeletion, BeginAdoption, BeginInvalid, BeginGuarding
<1>3. CallMoves
  BY <1>2, IdleType DEF StartWork, Work, CallMoves, Deciding
<1> QED
  BY <1>1, <1>3, QuietShape

LEMMA ToStatusMoves ==
  ASSUME TypeOK, NEW o, ToStatus(o, TRUE)
  PROVE  CallMoves
  BY DEF TypeOK, Work, ToStatus, CallMoves, Deciding

LEMMA ReturnMoves ==
  ASSUME NEW again, Return(again)
  PROVE  CallMoves /\ \E Q : Informed(Q)
  BY DEF Return, Idle, NoWork, CallMoves, Deciding

LEMMA ReadsRollout ==
  ASSUME TypeOK, RequireStable = TRUE, "deployments" \notin Lagging, cdep = dep,
         ResolveNotFound \/ ResolveConflict \/ ResolveTarget \/ SyncPods \/ Decide \/ ActDone
  PROVE  RolloutShape
<1>1. UNCHANGED <<dep, pods, cdep>>
  BY DEF ResolveNotFound, ResolveConflict, ResolveTarget, ResolveReads, SyncPods, Decide, ActDone, caches, cluster
<1>2. CASE \E o : ToStatus(o, TRUE)
  BY <1>1, <1>2, ToStatusMoves, QuietShape
<1>3. CASE ResolveTarget
  <2>1. work'.pc = "pods" /\ work'.dep = cdep
    BY <1>3 DEF ResolveTarget, TypeOK, Work
  <2> QED
    BY <1>1, <2>1, QuietShape DEF CallMoves
<1>4. CASE SyncPods
  <2>1. work.pc = "pods" /\ work'.pc = "decide" /\ work'.dep = work.dep
    BY <1>4 DEF SyncPods, TypeOK, Work
  <2> QED
    BY <1>1, <2>1, QuietShape DEF CallMoves, Deciding
<1>5. CASE Decide /\ ~\E o : ToStatus(o, TRUE)
  <2> DEFINE U == sick[work.p] \cap seen'[work.p]
             v == Verdict(work.obj, work.dep, U, Cardinality(probed[work.p]), clock)
  <2>1. /\ work.pc = "decide" /\ v = "Remediate"
        /\ work' = [work EXCEPT !.pc = "act", !.todo = U, !.acted = 0, !.now = clock]
    BY <1>5 DEF Decide
  <2>2. v = "Remediate" => DeploymentStable(work.dep)
    BY DEF Verdict
  <2> HIDE DEF U, v
  <2>3. work'.dep = work.dep
    BY <2>1 DEF TypeOK, Work
  <2>4. CallMoves
    BY <2>1, <2>2, <2>3 DEF CallMoves, Deciding
  <2> QED
    BY <1>1, <2>4, QuietShape
<1> QED
  BY <1>2, <1>3, <1>4, <1>5 DEF ResolveNotFound, ResolveConflict, ActDone

LEMMA ActionsRollout ==
  ASSUME TypeOK, "deployments" \notin Lagging, cdep = dep,
         ActRestart \/ (\E u \in Uids : ActDelete(u))
  PROVE  RolloutShape
<1>0. dep \in Deployment /\ pods \in [Uids -> Pod] /\ work.pc = "act"
  BY DEF TypeOK, ClusterTypeOK, ActRestart, ActDelete
<1>1. CallMoves
  <2>1. CASE Return(TRUE)
    BY <2>1, ReturnMoves
  <2>2. CASE \E o : ToStatus(o, TRUE)
    BY <2>2, ToStatusMoves
  <2>3. CASE \E u \in Uids : \/ work' = [work EXCEPT !.todo = @ \ {u}]
                             \/ work' = [work EXCEPT !.todo = @ \ {u}, !.acted = @ + 1]
    BY <1>0, <2>3 DEF TypeOK, Work, CallMoves, Deciding
  <2> QED
    BY <2>1, <2>2, <2>3 DEF ActRestart, ActDelete
<1>2. cdep' = dep'
  <2>1. UNCHANGED <<cdep, dep>> \/ \E Q : Informed(Q)
    BY DEF ActRestart, ActDelete, Return, caches
  <2> QED
    BY <2>1 DEF Informed
<1>3. CASE ActRestart
  <2>1. pods' = pods /\ (dep' = dep \/ dep' = RestartPatched(dep, work.now))
    BY <1>3 DEF ActRestart
  <2> DEFINE d == [dep EXCEPT !.stamp = work.now \div Sec]
  <2>2. dep' = dep \/ dep' = [d EXCEPT !.rev = @ + 1]
    BY <2>1 DEF RestartPatched
  <2>3. DOMAIN d = DOMAIN dep /\ d.rev = dep.rev /\ d.obs = dep.obs
    BY <1>0 DEF Deployment
  <2> HIDE DEF d
  <2>4. dep' = dep \/ (dep'.rev = dep.rev + 1 /\ dep'.obs = dep.obs)
    BY <1>0, <2>2, <2>3 DEF Deployment
  <2> QED
    BY <1>0, <1>1, <1>2, <2>1, <2>4 DEF RolloutShape, PodsAge, DeploymentMoves
<1>4. ASSUME NEW u \in Uids, ActDelete(u)
      PROVE  RolloutShape
  <2>1. dep' = dep /\ (pods' = pods \/ pods' = PodDeleted(u))
    BY <1>4 DEF ActDelete
  <2>2. PodsAge
    BY <1>0, <2>1 DEF PodDeleted, PodsAge, Pod
  <2> QED
    BY <1>1, <1>2, <2>1, <2>2 DEF RolloutShape, DeploymentMoves
<1> QED
  BY <1>3, <1>4

LEMMA NextRollout ==
  ASSUME RequireStable = TRUE, "deployments" \notin Lagging
  PROVE  TypeOK /\ cdep = dep /\ [Next]_vars => RolloutShape
<1> SUFFICES ASSUME TypeOK, cdep = dep, [Next]_vars PROVE RolloutShape
  OBVIOUS
<1>0. work' = work => CallMoves
  BY DEF CallMoves
<1>1. CASE UpdateFinalizer \/ Finish
  <2>1. UNCHANGED <<dep, pods>> /\ \E again : Return(again)
    BY <1>1 DEF UpdateFinalizer, Finish, WritePolicy, cluster
  <2> QED
    BY <2>1, ReturnMoves, QuietShape
<1>2. CASE Deliver
  <2>1. UNCHANGED <<dep, pods, work>> /\ cdep' \in {cdep, dep}
    BY <1>2 DEF Deliver, DeliverPolicy, DeliverDeployment, DeliverPod, cluster
  <2> QED
    BY <1>0, <2>1, QuietShape
<1>3. CASE (\E p \in Policies, u \in Uids : ProbeVerdict(p, u)) \/ Tick \/ UNCHANGED vars
  <2>1. UNCHANGED <<dep, pods, work, cdep>>
    BY <1>3 DEF ProbeVerdict, Tick, vars, cluster, caches
  <2> QED
    BY <1>0, <2>1, QuietShape
<1>4. CASE Kubernetes \/ Trouble
  <2>1. ObserveStatus \/ Stall \/ Deploy \/ (\E u \in Uids : \/ ControllerStep(u) \/ Regress(u)
                   \/ Recover(u) \/ \E b \in BOOLEAN : CreatePod(u, b))
    BY <1>4 DEF Kubernetes, Trouble
  <2>2. work' = work /\ Informed(pending)
    BY <1>4 DEF Kubernetes, Trouble, controller
  <2>3. cdep' = dep'
    BY <2>2 DEF Informed
  <2> QED
    BY <1>0, <2>1, <2>2, <2>3, ClusterMoves DEF RolloutShape
<1>5. CASE User
  <2>1. UNCHANGED <<dep, pods, work>> /\ Informed(pending)
    BY <1>5 DEF User, cluster
  <2> QED
    BY <1>0, <2>1, QuietShape
<1>6. CASE Crash
  <2>1. UNCHANGED <<dep, pods>> /\ cdep' = dep /\ work'.pc = "idle"
    BY <1>6 DEF Crash, cluster, Idle, NoWork
  <2> QED
    BY <2>1, QuietShape DEF CallMoves, Deciding
<1> QED
  BY <1>1, <1>2, <1>3, <1>4, <1>5, <1>6, BeginRollout, ReadsRollout, ActionsRollout DEF Next, Living, Reconcile
-----------------------------------------------------------------------------
\* Pods that are gone stay gone.
LEMMA OlderStaysGone ==
  ASSUME TypeOK, PodsAge, NEW r \in Nat, OlderGone(r), r <= dep.rev, pods' \in [Uids -> Pod]
  PROVE  \A u \in Uids : pods'[u].phase = "running" => pods'[u].rev >= r
  BY DEF TypeOK, ClusterTypeOK, Deployment, Pod, PodsAge, OlderGone, Running

LEMMA SettledInit == Init => Settled
<1> SUFFICES ASSUME Init PROVE Settled
  OBVIOUS
<1>1. dep.obs = 0 /\ dep.rev = 0 /\ cdep = dep /\ work.pc = "idle"
  BY DEF Init, ClusterInit, Idle, NoWork
<1>2. \A u \in Uids : pods[u].rev = 0
  BY DEF Init, ClusterInit, NoPod
<1> QED
  BY <1>1, <1>2 DEF Settled, OlderGone, Running, Deciding

LEMMA SettledStep ==
  ASSUME TypeOK, TypeOK', Settled, RolloutShape
  PROVE  Settled'
<1>0. /\ dep \in Deployment /\ dep' \in Deployment /\ pods \in [Uids -> Pod] /\ pods' \in [Uids -> Pod]
      /\ dep.rev \in Nat /\ dep'.rev \in Nat /\ dep.obs \in Nat /\ dep'.obs \in Nat
      /\ work.dep.rev \in Nat
  BY DEF TypeOK, ClusterTypeOK, Work, Deployment
<1>1. dep.rev <= dep'.rev /\ dep'.obs <= dep'.rev
  <2>1. dep' = Observed => dep'.rev = dep.rev /\ dep'.obs = dep.rev
    BY <1>0 DEF Observed, Deployment
  <2> QED
    BY <1>0, <2>1 DEF RolloutShape, DeploymentMoves, Settled
<1>2. ASSUME dep'.obs = dep'.rev, dep'.replicas = dep'.updated
      PROVE  \A u \in Uids : pods'[u].phase = "running" => pods'[u].rev >= dep'.rev
  <2>1. CASE dep'.rev = dep.rev + 1 /\ dep'.obs = dep.obs
    BY <1>0, <1>2, <2>1 DEF Settled
  <2>2. CASE dep' = Observed /\ pods' = pods
    <3>1. dep'.rev = dep.rev /\ dep'.replicas = Cardinality(Running) /\ dep'.updated = Cardinality(Current)
      BY <1>0, <2>2 DEF Observed, Deployment
    <3>2. IsFiniteSet(Running) /\ Current \in SUBSET Running
      BY ClusterAssumption, FS_Subset DEF Running, Current
    <3>3. Running = Current
      BY <1>2, <3>1, <3>2, FS_Subset
    <3> QED
      BY <1>0, <2>2, <3>1, <3>3 DEF Running, Current
  <2>3. CASE /\ dep'.rev = dep.rev /\ dep'.obs = dep.obs
             /\ dep'.replicas = dep.replicas /\ dep'.updated = dep.updated
    BY <1>0, <1>2, <2>3, OlderStaysGone DEF Settled, RolloutShape
  <2> QED
    BY <2>1, <2>2, <2>3 DEF RolloutShape, DeploymentMoves
<1>3. ASSUME work'.pc \in Deciding
      PROVE  /\ work'.dep.rev <= dep'.rev
             /\ DeploymentStable(work'.dep) =>
                  \A u \in Uids : pods'[u].phase = "running" => pods'[u].rev >= work'.dep.rev
             /\ work'.pc = "act" => DeploymentStable(work'.dep)
  <2>1. CASE work'.pc = "pods" /\ work'.dep = cdep /\ UNCHANGED <<dep, pods>>
    BY <1>0, <1>3, <2>1 DEF Settled, DeploymentStable, OlderGone, Running
  <2>2. CASE work.pc \in Deciding /\ work'.dep = work.dep
             /\ (work'.pc = "act" => work.pc = "act" \/ DeploymentStable(work.dep))
    BY <1>0, <1>1, <2>2, OlderStaysGone DEF Settled, RolloutShape
  <2>3. CASE work' = work
    BY <1>0, <1>1, <1>3, <2>3, OlderStaysGone DEF Settled, RolloutShape
  <2> QED
    BY <1>3, <2>1, <2>2, <2>3 DEF RolloutShape, CallMoves
<1> QED
  BY <1>1, <1>2, <1>3 DEF Settled, RolloutShape, Deciding, OlderGone, Running, DeploymentStable

(***************************************************************************)
(* With the gate on and the Deployment read up to date, a restart never    *)
(* meets pods older than the template Reconcile decided on: hotswap does   *)
(* not fire again during its own rollout (deploymentStable,                *)
(* rolloutRestart).                                                        *)
(***************************************************************************)
THEOREM RestartsWait ==
  ASSUME RequireStable = TRUE, "deployments" \notin Lagging
  PROVE  Spec => NoRestartDuringRollout
<1>1. TypeOK /\ TypeOK' /\ Settled /\ [Next]_vars => Settled'
  BY NextRollout, SettledStep DEF Settled
<1>2. TypeOK /\ Settled /\ [Next]_vars
        => [dep'.stamp # dep.stamp => \A u \in Running : pods[u].rev >= work.dep.rev]_vars
  <2>1. TypeOK /\ Settled /\ [Next]_vars => RolloutShape
    BY NextRollout DEF Settled
  <2>2. Settled /\ RolloutShape /\ dep'.stamp # dep.stamp => OlderGone(work.dep.rev)
    BY DEF Settled, RolloutShape, Deciding
  <2> QED
    BY <2>1, <2>2 DEF OlderGone
<1> QED
  BY <1>1, <1>2, TypeCorrect, SettledInit, PTL DEF Spec, NoRestartDuringRollout
-----------------------------------------------------------------------------
(***************************************************************************)
(* The record of an action.                                                *)
(*                                                                         *)
(* An action is spaced from the next one only if its record reaches the    *)
(* API server, which it does when the copy it was decided on is up to date *)
(* and nothing comes between the API call and finish: no write fails, the  *)
(* process lives, and nobody edits or deletes a policy, which would make   *)
(* the status update conflict.  Policies that are created, any trouble     *)
(* with the pods and the Deployment, and calls that work on an outdated    *)
(* copy in between are no hindrance: what such a call writes is rejected.  *)
(***************************************************************************)
Recording == Disturbances \cap {"retarget", "invalidate", "dryRun", "deletePolicy", "writeError"} = {}

Undeleted == \A p \in Policies : ~pol[p].deleting

\* t is the second of the decision to act at the time at, or a later one.
Dated(t, at) == t # Never /\ t > at - Sec - Latency

\* The call in progress is for p and on p as it is, so that its write will succeed.
Heeded(p) == work.p = p /\ Unchanged(work)

\* The latest action of p is in its status, or on the way there.
Accounted ==
  \A p \in Policies :
    actedAt[p] # Never =>
      \/ Dated(pol[p].last, actedAt[p])
      \/ Heeded(p) /\ work.pc = "act" /\ work.acted > 0 /\ actedAt[p] <= work.now + Latency
      \/ Heeded(p) /\ work.pc = "status" /\ Dated(work.obj.last, actedAt[p])

\* No action is later than Latency after its decision.
Paced == work.pc = "act" => work.now <= clock /\ clock <= work.now + Latency

\* What is known of the books of a process whose writes succeed.
Books == TypeOK /\ Release /\ Spacing /\ Undeleted /\ Accounted /\ Paced
-----------------------------------------------------------------------------
(***************************************************************************)
(* The steps of such a process, seen from the books.                       *)
(***************************************************************************)
Waits ==
  /\ UNCHANGED <<work, pol, actedAt>>
  /\ clock' = clock \/ (clock' = clock + 1 /\ (work.pc = "act" => clock - work.now < Latency))

Welcomes ==
  /\ UNCHANGED <<work, actedAt, clock>>
  /\ \E p \in Policies : ~pol[p].live /\ ~pol'[p].deleting /\ \A q \in Policies \ {p} : pol'[q] = pol[q]

Prepares ==
  /\ work.pc \notin {"act", "status"} /\ UNCHANGED <<pol, actedAt, clock>>
  /\ work'.pc = "act" => work'.now = clock

Carries ==
  /\ work.pc = "act" /\ UNCHANGED <<pol, clock>> /\ work'.p = work.p /\ work'.base = work.base
  /\ \/ /\ work'.pc = "act" /\ work'.now = work.now
        /\ \/ UNCHANGED actedAt /\ work'.acted = work.acted
           \/ Logged /\ work'.acted > 0
     \/ work'.pc = "status" /\ work'.obj.last = Truncate(work.now, Sec) /\ (UNCHANGED actedAt \/ Logged)

Closes ==
  /\ work.pc \in {"finalizer", "status"} /\ work'.pc = "idle" /\ UNCHANGED <<actedAt, clock>>
  /\ pol' = IF Unchanged(work) THEN [pol EXCEPT ![work.p] = work.obj] ELSE pol

BookShape == Waits \/ Welcomes \/ Prepares \/ Carries \/ Closes

LEMMA NoErrors ==
  ASSUME Recording, NEW k \in {"retarget", "invalidate", "dryRun", "deletePolicy", "writeError"}
  PROVE  ~Spend(k)
  BY DEF Recording, Spend

LEMMA ToStatusCalm ==
  ASSUME TypeOK, NEW o, ToStatus(o, TRUE)
  PROVE  work'.pc = "status" /\ work'.obj = o /\ work'.p = work.p /\ work'.base = work.base
  BY DEF ToStatus, TypeOK, Work

LEMMA PreparesBooks ==
  ASSUME TypeOK, (\E p \in Policies : Begin(p)) \/ ResolveNotFound \/ ResolveConflict \/ ResolveTarget
                   \/ SyncPods \/ Decide
  PROVE  Prepares
<1>1. CASE \E p \in Policies : Begin(p)
  <2>1. work.pc = "idle" /\ UNCHANGED <<pol, actedAt, clock>>
    BY <1>1 DEF Begin, BeginGone, BeginDeletion, BeginAdoption, BeginInvalid, BeginGuarding, Take
  <2>2. UNCHANGED work \/ \E p, o, l : l \in {"finalizer", "status", "resolve"} /\ StartWork(p, l, o)
    BY <1>1 DEF Begin, BeginGone, BeginDeletion, BeginAdoption, BeginInvalid, BeginGuarding
  <2>3. work'.pc # "act"
    BY <2>1, <2>2, IdleType DEF StartWork, Work
  <2> QED
    BY <2>1, <2>3 DEF Prepares
<1>2. CASE ResolveNotFound \/ ResolveConflict \/ ResolveTarget \/ SyncPods \/ Decide
  <2>1. work.pc \in {"resolve", "pods", "decide"} /\ UNCHANGED <<pol, actedAt, clock>>
    BY <1>2 DEF ResolveNotFound, ResolveConflict, ResolveTarget, ResolveReads, SyncPods, Decide
  <2>2. CASE \E o : ToStatus(o, TRUE)
    BY <2>1, <2>2, ToStatusCalm DEF Prepares
  <2>3. CASE ResolveTarget \/ SyncPods
    <3>1. work'.pc \in {"pods", "decide"}
      BY <2>3 DEF ResolveTarget, SyncPods, TypeOK, Work
    <3> QED
      BY <2>1, <3>1 DEF Prepares
  <2>4. CASE \E U : work' = [work EXCEPT !.pc = "act", !.todo = U, !.acted = 0, !.now = clock]
    <3>1. work'.now = clock
      BY <2>4 DEF TypeOK, Work
    <3> QED
      BY <2>1, <3>1 DEF Prepares
  <2> QED
    BY <1>2, <2>2, <2>3, <2>4 DEF ResolveNotFound, ResolveConflict, Decide
<1> QED
  BY <1>1, <1>2

LEMMA CarriesBooks ==
  ASSUME Recording, TypeOK, ActDone \/ ActRestart \/ (\E u \in Uids : ActDelete(u))
  PROVE  Carries
<1>1. work.pc = "act" /\ UNCHANGED <<pol, clock>> /\ work.obj \in Policy /\ work.now \in Nat /\ work.acted \in Nat
  BY DEF ActDone, ActRestart, ActDelete, TypeOK, Work
<1>2. \/ ToStatus(Recorded(work.obj, work.now), TRUE) /\ (UNCHANGED actedAt \/ Logged)
      \/ \E u \in Uids : work' = [work EXCEPT !.todo = @ \ {u}] /\ UNCHANGED actedAt
      \/ \E u \in Uids : work' = [work EXCEPT !.todo = @ \ {u}, !.acted = @ + 1] /\ Logged
  BY NoErrors DEF ActDone, ActRestart, ActDelete
<1>3. CASE ToStatus(Recorded(work.obj, work.now), TRUE) /\ (UNCHANGED actedAt \/ Logged)
  <2>1. /\ work'.pc = "status" /\ work'.obj = Recorded(work.obj, work.now)
        /\ work'.p = work.p /\ work'.base = work.base
    BY <1>3, ToStatusCalm
  <2> QED
    BY <1>1, <1>3, <2>1, RecordedOnly DEF Carries
<1>4. CASE \E u \in Uids : work' = [work EXCEPT !.todo = @ \ {u}] /\ UNCHANGED actedAt
  <2>1. /\ work'.pc = work.pc /\ work'.p = work.p /\ work'.base = work.base
        /\ work'.now = work.now /\ work'.acted = work.acted
    BY <1>4 DEF TypeOK, Work
  <2> QED
    BY <1>1, <1>4, <2>1 DEF Carries
<1>5. CASE \E u \in Uids : work' = [work EXCEPT !.todo = @ \ {u}, !.acted = @ + 1] /\ Logged
  <2>1. /\ work'.pc = work.pc /\ work'.p = work.p /\ work'.base = work.base
        /\ work'.now = work.now /\ work'.acted = work.acted + 1
    BY <1>5 DEF TypeOK, Work
  <2> QED
    BY <1>1, <1>5, <2>1 DEF Carries
<1> QED
  BY <1>2, <1>3, <1>4, <1>5

LEMMA ClosesBooks ==
  ASSUME Recording, TypeOK, Release, Undeleted, UpdateFinalizer \/ Finish
  PROVE  Closes
<1>1. work.pc \in {"finalizer", "status"} /\ UNCHANGED <<actedAt, clock>> /\ work.p \in Policies
  BY DEF UpdateFinalizer, Finish, WritePolicy, TypeOK, Work
<1>2. work' = Idle
  BY DEF UpdateFinalizer, Finish, WritePolicy, Return
<1>3. CASE Unchanged(work)
  <2>1. ~work.obj.deleting
    BY <1>1, <1>3 DEF Unchanged, Undeleted, Release, WorkCopies
  <2>2. \E again : WritePolicy(work.obj, again)
    BY <2>1 DEF UpdateFinalizer, Finish
  <2> QED
    BY <1>1, <1>2, <1>3, <2>2, NoErrors DEF WritePolicy, Closes, Idle, NoWork
<1>4. CASE ~Unchanged(work)
  <2>1. pol' = pol
    BY <1>4 DEF UpdateFinalizer, Finish, WritePolicy
  <2> QED
    BY <1>1, <1>2, <1>4, <2>1 DEF Closes, Idle, NoWork
<1> QED
  BY <1>3, <1>4

\* All that users do is create policies.
LEMMA OnlyCreated ==
  ASSUME Recording, TypeOK, User
  PROVE  \E p \in Policies :
           /\ "createPolicy" \in Disturbances /\ ~pol[p].live
           /\ ~pol'[p].deleting /\ pol'[p].last = Never /\ pol'[p].attempts = 0 /\ pol'[p].cond = "Unknown"
           /\ \A q \in Policies \ {p} : pol'[q] = pol[q]
<1>1. PICK p \in Policies, t \in Targets : CreatePolicy(p, t)
  BY NoErrors DEF User, Edit, DeletePolicy
<1>2. /\ "createPolicy" \in Disturbances /\ ~pol[p].live
      /\ pol' = [pol EXCEPT ![p] = [Gone EXCEPT !.live = TRUE, !.target = t, !.created = clock \div Sec]]
  BY <1>1 DEF CreatePolicy, Spend
<1>3. /\ ~pol'[p].deleting /\ pol'[p].last = Never /\ pol'[p].attempts = 0 /\ pol'[p].cond = "Unknown"
      /\ \A q \in Policies \ {p} : pol'[q] = pol[q]
  BY <1>2 DEF TypeOK, Gone
<1> QED
  BY <1>2, <1>3

LEMMA LivingBooks ==
  ASSUME Recording, TypeOK, Release, Undeleted, Living \/ UNCHANGED vars
  PROVE  BookShape
<1>1. CASE Kubernetes \/ Trouble \/ Deliver \/ UNCHANGED vars \/ \E p \in Policies, u \in Uids : ProbeVerdict(p, u)
  BY <1>1 DEF Kubernetes, Trouble, controller, Deliver, DeliverPolicy, DeliverDeployment, DeliverPod,
              ProbeVerdict, vars, BookShape, Waits
<1>2. CASE Tick
  BY <1>2 DEF Tick, BookShape, Waits
<1>3. CASE User
  <2>1. UNCHANGED <<work, actedAt, clock>>
    BY <1>3 DEF User
  <2> QED
    BY <1>3, <2>1, OnlyCreated DEF BookShape, Welcomes
<1> QED
  BY <1>1, <1>2, <1>3, PreparesBooks, CarriesBooks, ClosesBooks DEF Living, Reconcile, BookShape
-----------------------------------------------------------------------------
\* What is saved is the second of the decision.
LEMMA TruncateDated ==
  ASSUME NEW t \in Nat, NEW at \in Int, at <= t + Latency
  PROVE  Dated(Truncate(t, Sec), at)
<1> DEFINE q == t \div Sec
<1>1. Sec \in Nat /\ Sec > 0 /\ q \in Nat /\ Latency \in Nat
  BY ClusterAssumption, EnvironmentAssumption, TruncateAligned
<1>2. t < q * Sec + Sec
  BY <1>1
<1>3. q * Sec \in Nat
  BY <1>1
<1> QED
  BY <1>1, <1>2, <1>3 DEF Dated, Truncate, Never

\* A record that is spaced from the last one is later than what that one is of.
LEMMA SpacedDated ==
  ASSUME Cooldown > 0, NEW t \in Int, NEW last \in Int, NEW at \in Int,
         Dated(last, at), SpacedFrom(t, last), last >= 0
  PROVE  Dated(t, at)
<1>1. Cooldown * Sec \in Nat /\ Sec \in Nat /\ Cooldown # 0 /\ Latency \in Nat
  BY PolicyAssumption, ClusterAssumption, EnvironmentAssumption
<1> QED
  BY <1>1 DEF Dated, SpacedFrom, Never

LEMMA BooksInit == Init => Books
<1> SUFFICES ASSUME Init PROVE Books
  OBVIOUS
<1>1. /\ \A p \in Policies : actedAt[p] = Never
      /\ \A p \in Policies : ~pol[p].deleting
      /\ work.pc = "idle"
  BY DEF Init, Idle, NoWork, Gone
<1> QED
  BY <1>1, InitType, ReleaseInit, SpacingInit DEF Books, Undeleted, Accounted, Paced

LEMMA PacedStep ==
  ASSUME TypeOK, Paced, BookShape
  PROVE  Paced'
<1>0. clock \in Nat /\ work.now \in Nat /\ Latency \in Nat
  BY EnvironmentAssumption DEF TypeOK, Work
<1> QED
  BY <1>0 DEF BookShape, Waits, Welcomes, Prepares, Carries, Closes, Paced

LEMMA UndeletedStep ==
  ASSUME TypeOK, Release, Undeleted, BookShape
  PROVE  Undeleted'
<1>0. pol \in [Policies -> Policy] /\ work.p \in Policies
  BY DEF TypeOK, Work
<1>1. CASE Closes
  <2>1. Unchanged(work) => ~work.obj.deleting
    BY <1>0, <1>1 DEF Closes, Unchanged, Undeleted, Release, WorkCopies
  <2> QED
    BY <1>0, <1>1, <2>1 DEF Closes, Undeleted
<1> QED
  BY <1>1 DEF BookShape, Waits, Welcomes, Prepares, Carries, Undeleted

LEMMA AccountedStep ==
  ASSUME Cooldown > 0, Books, BookShape
  PROVE  Accounted'
<1> DEFINE Filed(p) == Dated(pol[p].last, actedAt[p])
           Acted(p) == Heeded(p) /\ work.pc = "act" /\ work.acted > 0 /\ actedAt[p] <= work.now + Latency
           Noted(p) == Heeded(p) /\ work.pc = "status" /\ Dated(work.obj.last, actedAt[p])
<1> SUFFICES ASSUME NEW p \in Policies, actedAt'[p] # Never
             PROVE  Filed(p)' \/ Acted(p)' \/ Noted(p)'
  BY DEF Accounted
<1>0. /\ pol \in [Policies -> Policy] /\ work.p \in Policies /\ actedAt \in [Policies -> Int]
      /\ work.now \in Nat /\ clock \in Nat /\ work.acted \in Nat /\ Latency \in Nat
      /\ pol[p].last \in Int /\ work.obj.last \in Int /\ Gone.last = Never
  BY EnvironmentAssumption DEF Books, TypeOK, Work, Policy, Gone
<1>1. actedAt[p] # Never => Filed(p) \/ Acted(p) \/ Noted(p)
  BY DEF Books, Accounted
<1>2. CASE Waits
  BY <1>1, <1>2 DEF Waits, Heeded, Unchanged
<1>3. CASE Welcomes
  <2>1. PICK q \in Policies : ~pol[q].live /\ \A r \in Policies \ {q} : pol'[r] = pol[r]
    BY <1>3 DEF Welcomes
  <2>2. Heeded(p) /\ work.pc # "idle" => p # q
    BY <2>1 DEF Heeded, Unchanged, Books, Release, WorkCopies
  <2>3. Filed(p) => p # q
    BY <1>0, <2>1 DEF Dated, Books, Release, GoneIsGone
  <2>4. p # q => pol'[p] = pol[p]
    BY <2>1
  <2> QED
    BY <1>1, <1>3, <2>2, <2>3, <2>4 DEF Welcomes, Heeded, Unchanged
<1>4. CASE Prepares
  BY <1>1, <1>4 DEF Prepares
<1>5. CASE Carries
  <2>1. pol' = pol /\ Heeded(p)' = Heeded(p) /\ work.pc = "act" /\ clock' = clock
    BY <1>5 DEF Carries, Heeded, Unchanged
  <2>2. CASE actedAt'[p] = actedAt[p] /\ (work'.pc = "act" => work'.acted > 0 \/ work'.acted = work.acted)
    <3>1. Acted(p) => Dated(Truncate(work.now, Sec), actedAt[p])
      BY <1>0, TruncateDated
    <3> QED
      BY <1>0, <1>1, <1>5, <2>1, <2>2, <3>1 DEF Carries
  <2>3. CASE p = work.p /\ Unchanged(work) /\ actedAt'[p] = clock /\ (work'.pc = "act" => work'.acted > 0)
    <3>1. clock <= work.now + Latency /\ Heeded(p)
      BY <1>5, <2>3 DEF Carries, Books, Paced, Heeded
    <3>2. Dated(Truncate(work.now, Sec), clock)
      BY <1>0, <3>1, TruncateDated
    <3> QED
      BY <1>0, <1>5, <2>1, <2>3, <3>1, <3>2 DEF Carries
  <2> QED
    BY <1>0, <1>5, <2>2, <2>3 DEF Carries, Logged
<1>6. CASE Closes
  <2>1. actedAt' = actedAt /\ work.pc # "act"
    BY <1>6 DEF Closes
  <2>2. CASE Heeded(p)
    <3>1. pol'[p].last = work.obj.last /\ pol[p] = work.base
      BY <1>0, <1>6, <2>2 DEF Closes, Heeded, Unchanged
    <3>2. Noted(p) => Filed(p)'
      BY <2>1, <3>1
    <3>3. Filed(p) => Filed(p)'
      <4> SUFFICES ASSUME Filed(p) PROVE Dated(work.obj.last, actedAt[p])
        BY <2>1, <3>1
      <4>1. CASE work.obj.last = pol[p].last
        BY <4>1
      <4>2. CASE SpacedFrom(work.obj.last, pol[p].last)
        <5>1. pol[p].last >= 0
          <6>1. PICK k \in Nat : pol[p].last = k * Sec
            BY DEF Dated, Books, Spacing, Aligned
          <6> QED
            BY <6>1, ClusterAssumption
        <5> QED
          BY <1>0, <4>2, <5>1, SpacedDated
      <4> QED
        BY <1>6, <3>1, <4>1, <4>2 DEF Closes, Books, Spacing
    <3> QED
      BY <1>1, <2>1, <3>2, <3>3
  <2>3. CASE ~Heeded(p)
    <3>1. pol'[p] = pol[p]
      BY <1>0, <1>6, <2>3 DEF Closes, Heeded
    <3> QED
      BY <1>1, <2>1, <2>3, <3>1
  <2> QED
    BY <2>2, <2>3
<1> QED
  BY <1>2, <1>3, <1>4, <1>5, <1>6 DEF BookShape

LEMMA BooksStep ==
  ASSUME Recording, Cooldown > 0, Books, Living \/ UNCHANGED vars
  PROVE  Books'
<1>1. TypeOK /\ [Next]_vars
  BY DEF Books, Next
<1>2. TypeOK' /\ StepShape
  BY <1>1, NextType, NextShape
<1>3. Release' /\ Spacing'
  BY <1>2, ReleaseStep, SpacingStep DEF Books
<1>4. BookShape
  BY LivingBooks DEF Books
<1>5. Paced' /\ Undeleted'
  BY <1>4, PacedStep, UndeletedStep DEF Books
<1> QED
  BY <1>2, <1>3, <1>4, <1>5, AccountedStep DEF Books

\* Without crashes a step of the specification is one of the living process.
LEMMA NoCrash ==
  ASSUME "crash" \notin Disturbances, [Next]_vars
  PROVE  Living \/ UNCHANGED vars
  BY DEF Next, Crash, Spend

(***************************************************************************)
(* While nothing comes between an action and its record, two actions that  *)
(* a policy takes on up-to-date copies are spaced by CooldownSeconds, from *)
(* API call to API call, short of the fraction of a second metav1.Time     *)
(* cuts off and of the time the API calls take (cooldownActive, remediate, *)
(* finish).  The policy cache may lag: calls on outdated copies may come   *)
(* and act in between, and change nothing about it.  So may the caches of  *)
(* the Deployment and the pods, whatever happens to these and however many *)
(* policies there are.                                                     *)
(***************************************************************************)
THEOREM ActionsSpaced ==
  ASSUME Recording, "crash" \notin Disturbances, Cooldown > 0
  PROVE  Spec => ActionSpacing
<1> DEFINE Spaced == Acts /\ Unchanged(work) /\ actedAt[work.p] # Never
                       => clock - actedAt[work.p] > (Cooldown - 1) * Sec - Latency
<1>1. Books /\ [Next]_vars => Books'
  BY NoCrash, BooksStep
<1>2. Books => [Spaced]_vars
  <2> SUFFICES ASSUME Books, Acts, Unchanged(work), actedAt[work.p] # Never
               PROVE  clock - actedAt[work.p] > (Cooldown - 1) * Sec - Latency
    OBVIOUS
  <2>0. /\ work.p \in Policies /\ work.now \in Nat /\ actedAt[work.p] \in Int /\ work.acted = 0
        /\ work.pc = "act" /\ pol[work.p].last \in Int /\ clock \in Nat
    BY EnvironmentAssumption DEF Books, TypeOK, Work, Policy, Acts
  <2>1. Dated(pol[work.p].last, actedAt[work.p])
    BY <2>0 DEF Books, Accounted
  <2>2. SpacedFrom(work.now, pol[work.p].last) /\ work.now <= clock
    BY <2>0 DEF Books, Spacing, Paced, Unchanged
  <2>3. /\ Cooldown \in Nat /\ Sec \in Nat /\ Cooldown * Sec \in Nat /\ Latency \in Nat /\ Cooldown # 0
        /\ (Cooldown - 1) * Sec = Cooldown * Sec - Sec
    BY PolicyAssumption, ClusterAssumption, EnvironmentAssumption
  <2>4. clock - actedAt[work.p] > Cooldown * Sec - Sec - Latency
    BY <2>0, <2>1, <2>2, <2>3 DEF Dated, SpacedFrom
  <2> QED
    BY <2>3, <2>4
<1> QED
  BY <1>1, <1>2, BooksInit, PTL DEF Spec, ActionSpacing
-----------------------------------------------------------------------------
(***************************************************************************)
(* The steps of an undisturbed process, seen from the policies: writes     *)
(* succeed, and no call works on an outdated copy.                         *)
(***************************************************************************)
Undisturbed == Recording /\ "policies" \notin Lagging

\* Every call works on the policy as it is, so that its write will succeed.
InStep ==
  /\ cpol = pol
  /\ work.pc # "idle" => pol[work.p] = work.base
  /\ Undeleted

SameSpec(a, b) == a.live = b.live /\ a.created = b.created /\ a.target = b.target /\ a.deleting = b.deleting
SameRecord(a, b) == a.last = b.last /\ a.attempts = b.attempts
SameCall == work'.p = work.p /\ work'.base = work.base /\ SameSpec(work'.obj, work.obj)

Rests == work' = work /\ UNCHANGED pol

Creates ==
  /\ work' = work /\ "createPolicy" \in Disturbances
  /\ \E p \in Policies :
       /\ ~pol[p].live /\ ~pol'[p].deleting
       /\ pol'[p].last = Never /\ pol'[p].attempts = 0 /\ pol'[p].cond = "Unknown"
       /\ \A q \in Policies \ {p} : pol'[q] = pol[q]

Opens ==
  /\ work.pc = "idle" /\ UNCHANGED pol
  /\ work'.p \in Policies /\ work'.base = pol[work'.p]
  /\ SameRecord(work'.obj, work'.base) /\ SameSpec(work'.obj, work'.base)
  /\ \/ work'.pc \in {"finalizer", "resolve"} /\ work'.obj.cond = work'.base.cond
     \/ work'.pc = "status" /\ work'.obj.cond = "InvalidProbe"

Looks ==
  /\ work.pc \in {"resolve", "pods"} /\ UNCHANGED pol
  /\ SameCall /\ SameRecord(work'.obj, work.obj)
  /\ \/ work'.pc \in {"pods", "decide"} /\ work'.obj.cond = work.obj.cond
     \/ work'.pc = "status" /\ work'.obj.cond \in {"TargetNotFound", "ConflictingPolicy"}
  /\ work.pc = "resolve" /\ work'.pc # "status" => work'.pc = "pods" /\ ~Conflicting(work.p, work.obj)

\* The targets Decide counts as unhealthy.
Regressed == sick[work.p] \cap seen'[work.p]

Judges ==
  /\ work.pc = "decide" /\ UNCHANGED pol /\ SameCall
  /\ work'.obj.last = work.obj.last
  /\ \/ work'.pc = "status" /\ work'.obj.cond = "AllHealthy" /\ work'.obj.attempts = 0
     \/ work'.pc = "status" /\ work'.obj.cond = "RolloutStalled" /\ work'.obj.attempts = work.obj.attempts
     \/ /\ work'.pc = "status" /\ work'.obj.attempts = work.obj.attempts
        /\ work'.obj.cond \in {"Remediating", "SystemicFailure", "CircuitOpen"} /\ Regressed # {}
        /\ work'.obj.cond = "CircuitOpen" => work.obj.attempts >= MaxAttempts
     \/ /\ work'.pc = "act" /\ work'.obj = work.obj /\ work'.acted = 0 /\ work'.now = clock
        /\ work'.todo = Regressed /\ Regressed # {} /\ work'.dep = work.dep
        /\ ~IsSystemic(Cardinality(Regressed), Cardinality(probed[work.p]), SkipPercent)
        /\ RequireStable => DeploymentStable(work.dep)
        /\ SpacedFrom(clock, work.obj.last)

Performs ==
  /\ work.pc = "act" /\ UNCHANGED pol /\ SameCall
  /\ \/ work'.pc = "act" /\ work'.obj = work.obj
     \/ /\ work'.pc = "status" /\ work'.obj.cond = "Remediating"
        /\ work'.obj.attempts = work.obj.attempts + 1

Saves ==
  /\ work.pc \in {"finalizer", "status"} /\ work'.pc = "idle"
  /\ pol' = [pol EXCEPT ![work.p] = work.obj]

CalmShape ==
  /\ cpol' = pol'
  /\ Rests \/ Creates \/ Opens \/ Looks \/ Judges \/ Performs \/ Saves

LEMMA InformedCalm ==
  ASSUME Undisturbed, NEW Q, Informed(Q)
  PROVE  cpol' = pol'
  BY DEF Undisturbed, Informed

\* What setHealthy, setRemediating, setDegraded and remediate's record leave alone.
LEMMA ConditionSet ==
  ASSUME NEW o \in Policy, NEW r
  PROVE  /\ SetHealthy(o).cond = "AllHealthy" /\ SetRemediating(o).cond = "Remediating"
         /\ SetDegraded(o, r).cond = r
         /\ \A c \in {SetHealthy(o), SetRemediating(o), SetDegraded(o, r)} : SameSpec(c, o) /\ SameRecord(c, o)
  BY DEF SetHealthy, SetRemediating, SetDegraded, Policy, SameSpec, SameRecord

LEMMA RecordSet ==
  ASSUME NEW o \in Policy, NEW now \in Nat
  PROVE  LET c == Recorded(o, now)
         IN  /\ SameSpec(c, o) /\ c.cond = "Remediating"
             /\ c.last = Truncate(now, Sec) /\ c.attempts = o.attempts + 1
<1> DEFINE o1 == [o EXCEPT !.attempts = @ + 1]
           o2 == [o1 EXCEPT !.last = Truncate(now, Sec)]
<1>1. o1 \in Policy /\ SameSpec(o1, o) /\ o1.attempts = o.attempts + 1
  BY DEF Policy, SameSpec
<1> HIDE DEF o1
<1>2. /\ o2 \in [live : BOOLEAN, created : Nat, deleting : BOOLEAN, fin : BOOLEAN, target : Targets,
                 valid : BOOLEAN, dry : BOOLEAN, attempts : Nat, last : {Truncate(now, Sec)}, cond : Conditions]
      /\ SameSpec(o2, o1) /\ o2.attempts = o1.attempts /\ o2.last = Truncate(now, Sec)
  BY <1>1 DEF Policy, SameSpec
<1>3. Recorded(o, now) = [o2 EXCEPT !.cond = "Remediating"]
  BY DEF Recorded, SetRemediating, o1
<1> HIDE DEF o2
<1> QED
  BY <1>1, <1>2, <1>3 DEF SameSpec

LEMMA BeginCalm ==
  ASSUME Undisturbed, TypeOK, InStep, NEW p \in Policies, Begin(p)
  PROVE  CalmShape
<1>1. UNCHANGED <<pol, cpol, actedAt>> /\ work.pc = "idle"
  BY DEF Begin, BeginGone, BeginDeletion, BeginAdoption, BeginInvalid, BeginGuarding, Take, caches
<1>2. cpol' = pol' /\ cpol[p] = pol[p] /\ pol[p] \in Policy /\ ~cpol[p].deleting
  BY <1>1 DEF InStep, Undeleted, TypeOK
<1>3. ASSUME NEW o, NEW l, StartWork(p, l, o)
      PROVE  work'.pc = l /\ work'.p = p /\ work'.base = pol[p] /\ work'.obj = o
  BY <1>2, <1>3, IdleType DEF StartWork, Work
<1>4. CASE BeginGone(p)
  BY <1>1, <1>2, <1>4 DEF BeginGone, CalmShape, Rests
<1>5. CASE BeginDeletion(p)
  BY <1>2, <1>5 DEF BeginDeletion
<1>6. CASE BeginAdoption(p)
  <2>1. work'.pc = "finalizer" /\ work'.p = p /\ work'.base = pol[p] /\ work'.obj = [pol[p] EXCEPT !.fin = TRUE]
    BY <1>2, <1>3, <1>6 DEF BeginAdoption
  <2>2. SameRecord(work'.obj, pol[p]) /\ SameSpec(work'.obj, pol[p]) /\ work'.obj.cond = pol[p].cond
    BY <1>2, <2>1 DEF Policy, SameRecord, SameSpec
  <2> QED
    BY <1>1, <1>2, <2>1, <2>2 DEF CalmShape, Opens
<1>7. CASE BeginInvalid(p)
  <2>1. work'.pc = "status" /\ work'.p = p /\ work'.base = pol[p] /\ work'.obj = SetDegraded(pol[p], "InvalidProbe")
    BY <1>2, <1>3, <1>7 DEF BeginInvalid
  <2>2. SameRecord(work'.obj, pol[p]) /\ SameSpec(work'.obj, pol[p]) /\ work'.obj.cond = "InvalidProbe"
    BY <1>2, <2>1, ConditionSet
  <2> QED
    BY <1>1, <1>2, <2>1, <2>2 DEF CalmShape, Opens
<1>8. CASE BeginGuarding(p)
  <2>1. work'.pc = "resolve" /\ work'.p = p /\ work'.base = pol[p] /\ work'.obj = pol[p]
    BY <1>2, <1>3, <1>8 DEF BeginGuarding
  <2> QED
    BY <1>1, <1>2, <2>1 DEF CalmShape, Opens, SameRecord, SameSpec
<1> QED
  BY <1>4, <1>5, <1>6, <1>7, <1>8 DEF Begin

LEMMA LooksCalm ==
  ASSUME TypeOK, InStep, ResolveNotFound \/ ResolveConflict \/ ResolveTarget \/ SyncPods
  PROVE  CalmShape
<1>1. work.pc \in {"resolve", "pods"} /\ UNCHANGED <<pol, cpol, actedAt>> /\ cpol' = pol'
  BY DEF ResolveNotFound, ResolveConflict, ResolveTarget, ResolveReads, SyncPods, caches, InStep
<1>2. work.obj \in Policy
  BY DEF TypeOK, Work
<1>3. CASE ResolveNotFound \/ ResolveConflict
  <2>1. PICK r \in {"TargetNotFound", "ConflictingPolicy"} : ToStatus(SetDegraded(work.obj, r), TRUE)
    BY <1>3 DEF ResolveNotFound, ResolveConflict
  <2>2. work'.pc = "status" /\ work'.obj = SetDegraded(work.obj, r) /\ work'.p = work.p /\ work'.base = work.base
    BY <2>1, ToStatusCalm
  <2>3. SameSpec(work'.obj, work.obj) /\ SameRecord(work'.obj, work.obj) /\ work'.obj.cond = r
    BY <1>2, <2>2, ConditionSet
  <2> QED
    BY <1>1, <2>1, <2>2, <2>3 DEF CalmShape, Looks, SameCall
<1>4. CASE ResolveTarget
  <2>1. /\ work'.pc = "pods" /\ work'.p = work.p /\ work'.base = work.base /\ work'.obj = work.obj
        /\ ~Conflicting(work.p, work.obj)
    BY <1>4 DEF ResolveTarget, TypeOK, Work
  <2> QED
    BY <1>1, <2>1 DEF CalmShape, Looks, SameCall, SameSpec, SameRecord
<1>5. CASE SyncPods
  <2>1. work'.pc = "decide" /\ work'.p = work.p /\ work'.base = work.base /\ work'.obj = work.obj /\ work.pc = "pods"
    BY <1>5 DEF SyncPods, TypeOK, Work
  <2> QED
    BY <1>1, <2>1 DEF CalmShape, Looks, SameCall, SameSpec, SameRecord
<1> QED
  BY <1>3, <1>4, <1>5

LEMMA JudgesCalm ==
  ASSUME TypeOK, InStep, Decide
  PROVE  CalmShape
<1>1. work.pc = "decide" /\ UNCHANGED <<pol, cpol, actedAt>> /\ cpol' = pol'
  BY DEF Decide, caches, InStep
<1>2. work.obj \in Policy /\ clock \in Nat
  BY EnvironmentAssumption DEF TypeOK, Work
<1> DEFINE v == Verdict(work.obj, work.dep, Regressed, Cardinality(probed[work.p]), clock)
           h == [work.obj EXCEPT !.attempts = 0]
<1>3. \/ v \in {"RolloutStalled", "SystemicFailure", "CircuitOpen"} /\ ToStatus(SetDegraded(work.obj, v), TRUE)
      \/ ToStatus(SetHealthy(h), TRUE)
      \/ v \in {"Unstable", "Cooldown"} /\ ToStatus(SetRemediating(work.obj), TRUE)
      \/ v = "Remediate" /\ work' = [work EXCEPT !.pc = "act", !.todo = Regressed, !.acted = 0, !.now = clock]
  BY DEF Decide, Regressed
<1>4. v \notin {"RolloutStalled", "AllHealthy"} => Regressed # {}
  BY DEF Verdict
<1>5. v = "CircuitOpen" => work.obj.attempts >= MaxAttempts
  BY DEF Verdict, BreakerOpen
<1>6. v = "Remediate" => /\ ~IsSystemic(Cardinality(Regressed), Cardinality(probed[work.p]), SkipPercent)
                         /\ RequireStable => DeploymentStable(work.dep)
                         /\ ~CooldownActive(work.obj.last, Cooldown * Sec, clock)
  BY DEF Verdict, CooldownDuration
<1>7. ~CooldownActive(work.obj.last, Cooldown * Sec, clock) => SpacedFrom(clock, work.obj.last)
  <2>1. Cooldown * Sec \in Nat /\ (Cooldown # 0 => Cooldown * Sec > 0)
    BY PolicyAssumption, ClusterAssumption
  <2>2. work.obj.last \in Int
    BY <1>2 DEF Policy
  <2> QED
    BY <1>2, <2>1, <2>2 DEF CooldownActive, SpacedFrom
<1>8. h \in Policy /\ SameSpec(h, work.obj) /\ h.last = work.obj.last /\ h.attempts = 0
  BY <1>2 DEF Policy, SameSpec
<1> HIDE DEF v, h
<1>9. CASE v \in {"RolloutStalled", "SystemicFailure", "CircuitOpen"} /\ ToStatus(SetDegraded(work.obj, v), TRUE)
  <2>1. work'.pc = "status" /\ work'.obj = SetDegraded(work.obj, v) /\ work'.p = work.p /\ work'.base = work.base
    BY <1>9, ToStatusCalm
  <2>2. SameSpec(work'.obj, work.obj) /\ SameRecord(work'.obj, work.obj) /\ work'.obj.cond = v
    BY <1>2, <2>1, ConditionSet
  <2> QED
    BY <1>1, <1>4, <1>5, <1>9, <2>1, <2>2 DEF CalmShape, Judges, SameCall, SameRecord
<1>10. CASE ToStatus(SetHealthy(h), TRUE)
  <2>1. work'.pc = "status" /\ work'.obj = SetHealthy(h) /\ work'.p = work.p /\ work'.base = work.base
    BY <1>10, ToStatusCalm
  <2>2. SameSpec(work'.obj, h) /\ SameRecord(work'.obj, h) /\ work'.obj.cond = "AllHealthy"
    BY <1>8, <2>1, ConditionSet
  <2> QED
    BY <1>1, <1>8, <2>1, <2>2 DEF CalmShape, Judges, SameCall, SameRecord, SameSpec
<1>11. CASE v \in {"Unstable", "Cooldown"} /\ ToStatus(SetRemediating(work.obj), TRUE)
  <2>1. work'.pc = "status" /\ work'.obj = SetRemediating(work.obj) /\ work'.p = work.p /\ work'.base = work.base
    BY <1>11, ToStatusCalm
  <2>2. SameSpec(work'.obj, work.obj) /\ SameRecord(work'.obj, work.obj) /\ work'.obj.cond = "Remediating"
    BY <1>2, <2>1, ConditionSet
  <2> QED
    BY <1>1, <1>4, <1>11, <2>1, <2>2 DEF CalmShape, Judges, SameCall, SameRecord
<1>12. CASE v = "Remediate" /\ work' = [work EXCEPT !.pc = "act", !.todo = Regressed, !.acted = 0, !.now = clock]
  <2>1. /\ work'.pc = "act" /\ work'.p = work.p /\ work'.base = work.base /\ work'.obj = work.obj
        /\ work'.acted = 0 /\ work'.now = clock /\ work'.todo = Regressed /\ work'.dep = work.dep
    BY <1>12 DEF TypeOK, Work
  <2> QED
    BY <1>1, <1>4, <1>6, <1>7, <1>12, <2>1 DEF CalmShape, Judges, SameCall, SameSpec
<1> QED
  BY <1>3, <1>9, <1>10, <1>11, <1>12

LEMMA PerformsCalm ==
  ASSUME Undisturbed, TypeOK, InStep, ActDone \/ ActRestart \/ (\E u \in Uids : ActDelete(u))
  PROVE  CalmShape
<1>1. work.pc = "act" /\ UNCHANGED pol /\ work.obj \in Policy /\ work.now \in Nat
  BY DEF ActDone, ActRestart, ActDelete, TypeOK, Work
<1>2. cpol' = pol'
  <2>1. cpol' = cpol \/ \E Q : Informed(Q)
    BY DEF ActDone, ActRestart, ActDelete, Return, caches
  <2> QED
    BY <1>1, <2>1, InformedCalm DEF InStep
<1>3. \/ ToStatus(Recorded(work.obj, work.now), TRUE)
      \/ \E u \in Uids : \/ work' = [work EXCEPT !.todo = @ \ {u}]
                         \/ work' = [work EXCEPT !.todo = @ \ {u}, !.acted = @ + 1]
  BY NoErrors DEF ActDone, ActRestart, ActDelete, Undisturbed
<1>4. CASE ToStatus(Recorded(work.obj, work.now), TRUE)
  <2>1. work'.pc = "status" /\ work'.obj = Recorded(work.obj, work.now) /\ work'.p = work.p /\ work'.base = work.base
    BY <1>4, ToStatusCalm
  <2> QED
    BY <1>1, <1>2, <1>4, <2>1, RecordSet DEF CalmShape, Performs, SameCall
<1>5. CASE \E u \in Uids : \/ work' = [work EXCEPT !.todo = @ \ {u}]
                           \/ work' = [work EXCEPT !.todo = @ \ {u}, !.acted = @ + 1]
  <2>1. work'.pc = work.pc /\ work'.p = work.p /\ work'.base = work.base /\ work'.obj = work.obj
    BY <1>5 DEF TypeOK, Work
  <2> QED
    BY <1>1, <1>2, <1>5, <2>1 DEF CalmShape, Performs, SameCall, SameSpec
<1> QED
  BY <1>3, <1>4, <1>5

LEMMA SavesCalm ==
  ASSUME Undisturbed, TypeOK, Release, InStep, UpdateFinalizer \/ Finish
  PROVE  CalmShape
<1>1. Closes
  BY ClosesBooks DEF Undisturbed, InStep
<1>2. pol' = [pol EXCEPT ![work.p] = work.obj]
  BY <1>1 DEF Closes, InStep, Unchanged
<1>3. cpol' = pol'
  BY InformedCalm DEF UpdateFinalizer, Finish, WritePolicy, Return
<1> QED
  BY <1>1, <1>2, <1>3 DEF CalmShape, Closes, Saves

LEMMA UserCalm ==
  ASSUME Undisturbed, TypeOK, InStep, User
  PROVE  CalmShape
<1>1. work' = work /\ cpol' = pol'
  BY InformedCalm DEF User
<1> QED
  BY <1>1, OnlyCreated DEF CalmShape, Creates, Undisturbed

LEMMA LivingCalm ==
  ASSUME Undisturbed, TypeOK, Release, InStep, Living \/ UNCHANGED vars
  PROVE  CalmShape
<1>1. CASE Kubernetes \/ Trouble
  BY <1>1, InformedCalm DEF Kubernetes, Trouble, controller, CalmShape, Rests
<1>2. CASE (\E p \in Policies, u \in Uids : ProbeVerdict(p, u)) \/ Tick \/ UNCHANGED vars
  BY <1>2 DEF ProbeVerdict, Tick, vars, caches, InStep, CalmShape, Rests
<1>3. CASE Deliver
  BY <1>3 DEF Deliver, DeliverPolicy, DeliverDeployment, DeliverPod, InStep, CalmShape, Rests
<1> QED
  BY <1>1, <1>2, <1>3, BeginCalm, LooksCalm, JudgesCalm, PerformsCalm, SavesCalm, UserCalm DEF Living, Reconcile

LEMMA InStepNext ==
  ASSUME TypeOK, Release, InStep, CalmShape
  PROVE  InStep'
<1>0. pol \in [Policies -> Policy] /\ work.p \in Policies
  BY DEF TypeOK, Work
<1>1. CASE Rests \/ Looks \/ Judges \/ Performs
  BY <1>1 DEF CalmShape, InStep, Undeleted, Rests, Looks, Judges, Performs, SameCall
<1>2. CASE Creates
  BY <1>0, <1>2 DEF CalmShape, InStep, Undeleted, Creates, Release, WorkCopies
<1>3. CASE Opens
  BY <1>3 DEF CalmShape, InStep, Undeleted, Opens
<1>4. CASE Saves
  <2>1. ~work.obj.deleting
    BY <1>0, <1>4 DEF Saves, InStep, Undeleted, Release, WorkCopies
  <2> QED
    BY <1>0, <1>4, <2>1 DEF CalmShape, InStep, Undeleted, Saves
<1> QED
  BY <1>1, <1>2, <1>3, <1>4 DEF CalmShape

LEMMA InStepInit == Init => InStep
  BY DEF Init, InStep, Undeleted, Idle, NoWork, Gone

\* All that is known of an undisturbed life of the process.
Steady == TypeOK /\ Release /\ Spacing /\ InStep

LEMMA SteadyInit == Init => Steady
  BY InitType, ReleaseInit, SpacingInit, InStepInit DEF Steady

LEMMA SteadyStep ==
  ASSUME Undisturbed, Steady, Living \/ UNCHANGED vars
  PROVE  Steady' /\ CalmShape
<1>1. TypeOK /\ [Next]_vars
  BY DEF Steady, Next
<1>2. TypeOK' /\ StepShape
  BY <1>1, NextType, NextShape
<1>3. Release' /\ Spacing'
  BY <1>2, ReleaseStep, SpacingStep DEF Steady
<1>4. CalmShape
  BY LivingCalm DEF Steady
<1> QED
  BY <1>2, <1>3, <1>4, InStepNext DEF Steady
-----------------------------------------------------------------------------
(***************************************************************************)
(* Gauges and status.                                                      *)
(*                                                                         *)
(* GaugesAgree speaks of an idle worker.  In between the gauges are ahead  *)
(* of the status: from the verdict on, the targets they count are the ones *)
(* of the status that is about to be written.                              *)
(***************************************************************************)
Wanting == {"Remediating", "SystemicFailure", "CircuitOpen"}

GaugeTypes == total \in [Policies -> Nat] /\ healthy \in [Policies -> Nat] /\ circuit \in [Policies -> Nat]

\* The store has verdicts of probed pods only.
StoreSound == \A p \in Policies : sick[p] \subseteq probed[p]

Reporting(p) == work.pc = "status" /\ work.p = p
Striking(p) == work.pc = "act" /\ work.p = p

Metered ==
  /\ \A p \in Policies :
       /\ circuit[p] = 1 => pol[p].attempts >= MaxAttempts
       /\ ~Reporting(p) /\ pol[p].cond = "CircuitOpen" => circuit[p] = 1
       /\ ~Reporting(p) /\ ~Striking(p) /\ pol[p].cond \in Wanting => healthy[p] < total[p]
  /\ work.pc = "act" => healthy[work.p] < total[work.p]
  /\ work.pc = "status" =>
       /\ circuit[work.p] = 1 => work.obj.attempts >= MaxAttempts
       /\ work.obj.cond = "CircuitOpen" => circuit[work.p] = 1
       /\ work.obj.cond \in Wanting => healthy[work.p] < total[work.p]
  /\ work.pc \notin {"idle", "status"} => work.obj.cond = work.base.cond

\* An unhealthy target is missing from the healthy ones.
LEMMA FewerHealthy ==
  ASSUME NEW S \in SUBSET Uids, NEW T \in SUBSET S, T # {}
  PROVE  Cardinality(S \ T) < Cardinality(S)
<1>1. IsFiniteSet(S) /\ S \ T \in SUBSET S /\ S \ T # S
  BY ClusterAssumption, FS_Subset
<1> QED
  BY <1>1, FS_Subset, FS_CardinalityType

LEMMA StoreSoundStep ==
  ASSUME TypeOK, StoreSound, [Next]_vars
  PROVE  StoreSound'
<1>0. work.p \in Policies /\ probed \in [Policies -> SUBSET Uids] /\ sick \in [Policies -> SUBSET Uids]
  BY DEF TypeOK, Work, Store!StoreTypeOK
<1>1. ASSUME NEW p \in Policies, NEW T, Store!Sync(p, T) PROVE StoreSound'
  BY <1>0, <1>1 DEF Store!Sync, StoreSound
<1>2. ASSUME UNCHANGED <<probed, sick>> PROVE StoreSound'
  BY <1>2 DEF StoreSound
<1>3. CASE \E p \in Policies, u \in Uids : ProbeVerdict(p, u)
  BY <1>0, <1>3 DEF ProbeVerdict, Store!Flip, StoreSound
<1>4. CASE Crash
  BY <1>4 DEF Crash, StoreSound
<1>5. CASE \E p \in Policies : Begin(p)
  BY <1>1, <1>2, <1>5 DEF Begin, BeginGone, BeginDeletion, BeginAdoption, BeginInvalid, BeginGuarding, Store!Forget, store
<1>6. CASE ResolveNotFound \/ ResolveConflict \/ ResolveTarget \/ SyncPods
  BY <1>0, <1>1, <1>2, <1>6 DEF ResolveNotFound, ResolveConflict, ResolveTarget, SyncPods, Store!Forget, store
<1>7. CASE Decide
  BY <1>2, <1>7 DEF Decide, Store!SetSeenReady
<1>8. CASE \/ UpdateFinalizer \/ Finish \/ ActDone \/ ActRestart \/ (\E u \in Uids : ActDelete(u))
           \/ Deliver \/ Kubernetes \/ Trouble \/ User \/ Tick \/ UNCHANGED vars
  <2>1. UNCHANGED store
    BY <1>8 DEF UpdateFinalizer, Finish, WritePolicy, ActDone, ActRestart, ActDelete, Deliver, DeliverPolicy,
                DeliverDeployment, DeliverPod, Kubernetes, Trouble, controller, User, Tick, vars
  <2> QED
    BY <1>2, <2>1 DEF store
<1> QED
  BY <1>3, <1>4, <1>5, <1>6, <1>7, <1>8 DEF Next, Living, Reconcile

LEMMA MeteredStep ==
  ASSUME Steady, StoreSound, GaugeTypes, Metered, CalmShape, seen' \in [Policies -> SUBSET Uids],
         IF Decides THEN Measure ELSE UNCHANGED gauges
  PROVE  Metered' /\ GaugeTypes'
<1>0. /\ pol \in [Policies -> Policy] /\ work.p \in Policies /\ MaxAttempts \in Nat /\ MaxAttempts > 0
      /\ work.obj.attempts \in Nat /\ Gone.attempts = 0 /\ Gone.cond = "Unknown"
      /\ probed[work.p] \in SUBSET Uids
  <2>1. pol \in [Policies -> Policy] /\ work.p \in Policies /\ work.obj \in Policy
    BY DEF Steady, TypeOK, Work
  <2>2. work.obj.attempts \in Nat
    BY <2>1 DEF Policy
  <2>3. probed[work.p] \in SUBSET Uids
    BY <2>1 DEF Steady, TypeOK, Store!StoreTypeOK
  <2>4. Gone.attempts = 0 /\ Gone.cond = "Unknown"
    BY DEF Gone
  <2> QED
    BY <2>1, <2>2, <2>3, <2>4, PolicyAssumption
<1>1. ASSUME UNCHANGED gauges PROVE GaugeTypes'
  BY <1>1 DEF gauges, GaugeTypes
<1>2. CASE Rests
  <2>1. UNCHANGED gauges
    BY <1>2 DEF Rests, Decides
  <2> QED
    BY <1>1, <1>2, <2>1 DEF Rests, gauges, Metered, Reporting, Striking
<1>3. CASE Creates
  <2>1. UNCHANGED gauges /\ work' = work
    BY <1>3 DEF Creates, Decides
  <2>2. PICK p \in Policies : /\ ~pol[p].live /\ pol'[p].attempts = 0 /\ pol'[p].cond = "Unknown"
                              /\ \A q \in Policies \ {p} : pol'[q] = pol[q]
    BY <1>3 DEF Creates
  <2>3. circuit[p] # 1
    BY <1>0, <2>2 DEF Steady, Release, GoneIsGone, Metered
  <2>4. "Unknown" # "CircuitOpen" /\ "Unknown" \notin Wanting
    BY DEF Wanting
  <2> QED
    BY <1>1, <2>1, <2>2, <2>3, <2>4 DEF gauges, Metered, Reporting, Striking
<1>4. CASE Opens
  <2>1. UNCHANGED gauges /\ UNCHANGED pol
    BY <1>4 DEF Opens, Decides
  <2>2. "InvalidProbe" # "CircuitOpen" /\ "InvalidProbe" \notin Wanting
    BY DEF Wanting
  <2> QED
    BY <1>1, <1>4, <2>1, <2>2 DEF Opens, SameRecord, gauges, Metered, Reporting, Striking
<1>5. CASE Looks
  <2>1. UNCHANGED gauges /\ UNCHANGED pol
    BY <1>5 DEF Looks, Decides
  <2>2. ~\E r \in {"TargetNotFound", "ConflictingPolicy"} : r = "CircuitOpen" \/ r \in Wanting
    BY DEF Wanting
  <2>3. work.obj.attempts = pol[work.p].attempts
    BY <1>5 DEF Looks, Steady, Spacing, InStep
  <2>4. UNCHANGED <<total, healthy, circuit>> /\ work'.p = work.p /\ work'.base = work.base
    BY <1>5, <2>1 DEF gauges, Looks, SameCall
  <2>5. CASE work'.pc \in {"pods", "decide"} /\ work'.obj.cond = work.obj.cond
    BY <1>1, <1>5, <2>1, <2>4, <2>5 DEF Looks, Metered, Reporting, Striking
  <2>6. CASE work'.pc = "status" /\ work'.obj.cond \in {"TargetNotFound", "ConflictingPolicy"}
    <3>1. work'.obj.attempts = work.obj.attempts /\ work.pc \in {"resolve", "pods"}
      BY <1>5 DEF Looks, SameRecord
    <3> QED
      BY <1>0, <1>1, <2>1, <2>2, <2>3, <2>4, <2>6, <3>1 DEF Metered, Reporting, Striking
  <2> QED
    BY <1>5, <2>5, <2>6 DEF Looks
<1>6. CASE Performs
  <2>1. UNCHANGED gauges /\ UNCHANGED pol
    BY <1>6 DEF Performs, Decides
  <2>2. work.obj.attempts = pol[work.p].attempts /\ "Remediating" # "CircuitOpen"
    BY <1>6 DEF Performs, Steady, Spacing, InStep
  <2> QED
    BY <1>0, <1>1, <1>6, <2>1, <2>2 DEF Performs, SameCall, gauges, Metered, Reporting, Striking
<1>7. CASE Saves
  <2>1. UNCHANGED gauges
    BY <1>7 DEF Saves, Decides
  <2>2. \A p \in Policies : pol'[p] = IF p = work.p THEN work.obj ELSE pol[p]
    BY <1>0, <1>7 DEF Saves
  <2>3. work.pc = "finalizer" => work.obj.attempts = pol[work.p].attempts /\ work.obj.cond = pol[work.p].cond
    BY DEF Steady, Spacing, InStep, Metered
  <2> QED
    BY <1>0, <1>1, <1>7, <2>1, <2>2, <2>3 DEF Saves, gauges, Metered, Reporting, Striking
<1>8. CASE Judges
  <2> DEFINE p == work.p
             reason == IF work'.pc = "status" THEN work'.obj.cond ELSE "Remediate"
  <2>1. /\ total' = [total EXCEPT ![p] = Cardinality(probed[p])]
        /\ healthy' = [healthy EXCEPT ![p] = Cardinality(probed[p] \ sick[p])]
        /\ circuit' = [circuit EXCEPT ![p] = CircuitAfter(reason, @)]
    BY <1>8 DEF Judges, Decides, Measure
  <2>2. Cardinality(probed[p]) \in Nat /\ Cardinality(probed[p] \ sick[p]) \in Nat
    BY <1>0, CountType
  <2>3. Regressed # {} => Cardinality(probed[p] \ sick[p]) < Cardinality(probed[p])
    <3>1. Regressed # {} => sick[p] \in SUBSET probed[p] /\ sick[p] # {}
      BY <1>0 DEF Regressed, StoreSound
    <3> QED
      BY <1>0, <3>1, FewerHealthy
  <2>4. /\ total'[p] = Cardinality(probed[p]) /\ healthy'[p] = Cardinality(probed[p] \ sick[p])
        /\ circuit'[p] = CircuitAfter(reason, circuit[p])
        /\ \A q \in Policies \ {p} : total'[q] = total[q] /\ healthy'[q] = healthy[q] /\ circuit'[q] = circuit[q]
    BY <1>0, <2>1 DEF GaugeTypes
  <2>5. GaugeTypes'
    BY <1>0, <2>1, <2>2 DEF GaugeTypes, CircuitAfter
  <2>6. /\ work'.p = p /\ work'.base = work.base /\ UNCHANGED pol
        /\ work.obj.attempts = pol[p].attempts /\ work.obj.cond = work.base.cond
        /\ pol[p] = work.base
    BY <1>8 DEF Judges, SameCall, Steady, Spacing, InStep, Metered
  <2> HIDE DEF reason
  <2>7. \A q \in Policies \ {p} :
          /\ circuit'[q] = 1 => pol'[q].attempts >= MaxAttempts
          /\ ~Reporting(q)' /\ pol'[q].cond = "CircuitOpen" => circuit'[q] = 1
          /\ ~Reporting(q)' /\ ~Striking(q)' /\ pol'[q].cond \in Wanting => healthy'[q] < total'[q]
    BY <1>8, <2>4, <2>6 DEF Judges, Metered, Reporting, Striking
  <2>8. CASE work'.pc = "status" /\ work'.obj.cond = "AllHealthy" /\ work'.obj.attempts = 0
    <3>1. circuit'[p] = 0 /\ "AllHealthy" \notin Wanting /\ "AllHealthy" # "CircuitOpen"
      BY <2>4, <2>8 DEF CircuitAfter, Wanting, reason
    <3> QED
      BY <2>5, <2>6, <2>7, <2>8, <3>1 DEF Metered, Reporting, Striking
  <2>9. CASE work'.pc = "status" /\ work'.obj.cond = "RolloutStalled" /\ work'.obj.attempts = work.obj.attempts
    <3>1. circuit'[p] = circuit[p] /\ "RolloutStalled" \notin Wanting /\ "RolloutStalled" # "CircuitOpen"
      BY <2>4, <2>9 DEF CircuitAfter, Wanting, reason
    <3> QED
      BY <1>0, <2>5, <2>6, <2>7, <2>9, <3>1 DEF Metered, Reporting, Striking
  <2>10. CASE /\ work'.pc = "status" /\ work'.obj.attempts = work.obj.attempts
              /\ work'.obj.cond \in {"Remediating", "SystemicFailure", "CircuitOpen"} /\ Regressed # {}
              /\ work'.obj.cond = "CircuitOpen" => work.obj.attempts >= MaxAttempts
    <3>1. circuit'[p] = IF work'.obj.cond = "CircuitOpen" THEN 1 ELSE circuit[p]
      BY <2>4, <2>10 DEF CircuitAfter, reason
    <3>2. healthy'[p] < total'[p]
      BY <2>3, <2>4, <2>10
    <3> QED
      BY <1>0, <2>5, <2>6, <2>7, <2>10, <3>1, <3>2 DEF Metered, Reporting, Striking
  <2>11. CASE work'.pc = "act" /\ work'.obj = work.obj /\ Regressed # {}
    <3>1. circuit'[p] = circuit[p]
      BY <2>4, <2>11 DEF CircuitAfter, reason
    <3>2. healthy'[p] < total'[p]
      BY <2>3, <2>4, <2>11
    <3>3. ~Reporting(p) /\ ~Striking(p)
      BY <1>8 DEF Judges, Reporting, Striking
    <3> QED
      BY <1>0, <2>5, <2>6, <2>7, <2>11, <3>1, <3>2, <3>3 DEF Metered, Reporting, Striking
  <2> QED
    BY <1>8, <2>8, <2>9, <2>10, <2>11 DEF Judges
<1> QED
  BY <1>2, <1>3, <1>4, <1>5, <1>6, <1>7, <1>8 DEF CalmShape

(***************************************************************************)
(* While nothing comes between a verdict and its status write, the gauges  *)
(* and the status agree whenever the worker rests (Reconcile, metrics.go): *)
(* hotswap_circuit_open, which two of the verdicts set and the others      *)
(* leave, included.                                                        *)
(***************************************************************************)
THEOREM GaugesRight ==
  ASSUME Undisturbed
  PROVE  MeteredSpec => []GaugesAgree
<1> DEFINE Inv == Steady /\ StoreSound /\ GaugeTypes /\ Metered
<1>1. MeteredInit => Inv
  <2> SUFFICES ASSUME MeteredInit PROVE Inv
    OBVIOUS
  <2>1. Steady /\ Init
    BY SteadyInit DEF MeteredInit
  <2>2. StoreSound
    BY <2>1 DEF Init, Store!StoreInit, StoreSound
  <2>3. GaugeTypes /\ \A p \in Policies : circuit[p] = 0
    BY DEF MeteredInit, GaugeTypes, Unmetered
  <2>4. work.pc = "idle" /\ \A p \in Policies : pol[p].cond = "Unknown"
    BY <2>1 DEF Init, Idle, NoWork, Gone
  <2>5. "Unknown" # "CircuitOpen" /\ "Unknown" \notin Wanting
    BY DEF Wanting
  <2> QED
    BY <2>1, <2>2, <2>3, <2>4, <2>5 DEF Metered
<1>2. Inv /\ [MeteredNext]_meteredVars => Inv'
  <2> SUFFICES ASSUME Inv, [MeteredNext]_meteredVars PROVE Inv'
    OBVIOUS
  <2>1. Living \/ UNCHANGED vars
    BY DEF MeteredNext, meteredVars
  <2>2. Steady' /\ CalmShape
    BY <2>1, SteadyStep
  <2>3. StoreSound'
    BY <2>1, StoreSoundStep DEF Steady, Next
  <2>4. IF Decides THEN Measure ELSE UNCHANGED gauges
    BY DEF MeteredNext, meteredVars, vars, Decides
  <2>5. seen' \in [Policies -> SUBSET Uids]
    BY <2>2 DEF Steady, TypeOK, Store!StoreTypeOK
  <2> QED
    BY <2>2, <2>3, <2>4, <2>5, MeteredStep
<1>3. Inv => GaugesAgree
  BY DEF Metered, GaugesAgree, Reporting, Striking, Wanting
<1> QED
  BY <1>1, <1>2, <1>3, PTL DEF MeteredSpec
-----------------------------------------------------------------------------
(***************************************************************************)
(* The last replica.                                                       *)
(*                                                                         *)
(* A rolling update replaces a pod before it retires one, so restarts      *)
(* never take the last.  Deletions do so only if one decision deletes all  *)
(* that run, which isSystemic rules out, or if a second one is taken       *)
(* before the first shows.  Then the stability gate may still be open and  *)
(* the pods listed may be terminating, and it is the cooldown that holds   *)
(* Reconcile back, as long as the action is in the record of the policy    *)
(* that decides.  So the caches may be behind, but no longer than the      *)
(* cooldown (Prompt), the record must not get lost (Undisturbed), and no   *)
(* policy created in the same second may take over from the one that       *)
(* acted.  A new template of the user's is excluded as well: its rollout   *)
(* may retire the very pod that a decision, taken on the status before it, *)
(* spares.                                                                 *)
(***************************************************************************)
SomePodRuns == Running # {}

KeepsRunning == \A u \in Running : pods'[u].phase = "running"

\* No step but a deletion and RetireOld takes a running pod.
LEMMA PodStepKeeps ==
  ASSUME pods \in [Uids -> Pod], NEW u \in Uids,
         \/ Terminated(u) \/ BecomeReady(u) \/ BecomeUnready(u) \/ Regress(u) \/ Recover(u)
         \/ \E b \in BOOLEAN : CreatePod(u, b)
  PROVE  KeepsRunning
<1>1. pods' = pods \/ pods' = [pods EXCEPT ![u] = pods'[u]]
  BY DEF Terminated, BecomeReady, BecomeUnready, Regress, Recover, CreatePod
<1>2. pods[u].phase = "running" => pods'[u].phase = "running"
  BY DEF Terminated, BecomeReady, BecomeUnready, Regress, Recover, CreatePod, Pod
<1> QED
  BY <1>1, <1>2 DEF KeepsRunning, Running

LEMMA RestartKeepsPods ==
  ASSUME Strategy = "RolloutRestart", TypeOK, [Next]_vars, Running # {}
  PROVE  Running' # {}
<1>0. pods \in [Uids -> Pod] /\ Running \in SUBSET Uids
  BY DEF TypeOK, ClusterTypeOK, Running
<1>1. ASSUME KeepsRunning PROVE Running' # {}
  BY <1>0, <1>1 DEF KeepsRunning, Running
<1>2. ASSUME UNCHANGED pods PROVE Running' # {}
  BY <1>2 DEF Running
<1>3. ASSUME NEW u \in Uids, RetireOld(u) PROVE Running' # {}
  <2>1. IsFiniteSet(Ready \ {u}) /\ Cardinality(Ready \ {u}) >= Replicas /\ Replicas \in Nat /\ Replicas > 0
    <3>1. Ready \ {u} \in SUBSET Uids
      BY DEF Ready, Running
    <3> QED
      BY <1>3, <3>1, ClusterAssumption, FS_Subset DEF RetireOld
  <2>2. Ready \ {u} # {}
    BY <2>1, FS_EmptySet
  <2>3. PICK v \in Ready : v # u
    BY <2>2
  <2>4. v \in Uids /\ pods'[v] = pods[v] /\ pods[v].phase = "running"
    BY <1>0, <1>3, <2>3 DEF RetireOld, PodDeleted, Ready, Running
  <2> QED
    BY <2>4 DEF Running
<1>4. ASSUME NEW u \in Uids, \/ Terminated(u) \/ BecomeReady(u) \/ BecomeUnready(u) \/ Regress(u) \/ Recover(u)
                             \/ \E b \in BOOLEAN : CreatePod(u, b)
      PROVE  KeepsRunning
  BY <1>0, <1>4, PodStepKeeps
<1>5. CASE Kubernetes \/ Trouble
  <2>1. \/ ObserveStatus \/ Stall \/ Deploy
        \/ \E u \in Uids : \/ RetireOld(u) \/ Terminated(u) \/ BecomeReady(u) \/ BecomeUnready(u)
                           \/ Regress(u) \/ Recover(u) \/ \E b \in BOOLEAN : CreatePod(u, b)
    BY <1>5 DEF Kubernetes, Trouble, ControllerStep
  <2> QED
    BY <2>1, <1>1, <1>2, <1>3, <1>4 DEF ObserveStatus, Stall, Deploy
<1>6. ~\E u \in Uids : ActDelete(u)
  BY DEF ActDelete, Acting, ChooseStrategy
<1>7. CASE Reconcile \/ Deliver \/ (\E p \in Policies, u \in Uids : ProbeVerdict(p, u)) \/ User \/ Tick \/ Crash
           \/ UNCHANGED vars
  <2>1. CASE \E p \in Policies : Begin(p)
    BY <2>1, <1>2 DEF Begin, BeginGone, BeginDeletion, BeginAdoption, BeginInvalid, BeginGuarding, Take, cluster
  <2>2. CASE \/ UpdateFinalizer \/ Finish \/ ResolveNotFound \/ ResolveConflict \/ ResolveTarget \/ SyncPods
             \/ Decide \/ ActDone \/ ActRestart
    BY <2>2, <1>2 DEF UpdateFinalizer, Finish, WritePolicy, ResolveNotFound, ResolveConflict, ResolveTarget,
                      ResolveReads, SyncPods, Decide, ActDone, ActRestart, cluster
  <2>3. CASE Deliver \/ (\E p \in Policies, u \in Uids : ProbeVerdict(p, u)) \/ User \/ Tick \/ Crash \/ UNCHANGED vars
    BY <2>3, <1>2 DEF Deliver, DeliverPolicy, DeliverDeployment, DeliverPod, ProbeVerdict, User, Tick, Crash,
                      vars, cluster
  <2> QED
    BY <1>6, <1>7, <2>1, <2>2, <2>3 DEF Reconcile
<1> QED
  BY <1>5, <1>7 DEF Next, Living

LEMMA StartsComplete ==
  ASSUME Init
  PROVE  /\ Cardinality(Running) = Replicas /\ Running # {}
         /\ \A u \in Running : pods[u].rev = dep.rev
<1> DEFINE up == CHOOSE S \in SUBSET Uids : Cardinality(S) = Replicas
<1>1. up \in SUBSET Uids /\ Cardinality(up) = Replicas
  BY ClusterAssumption
<1>2. /\ pods = [u \in Uids |-> IF u \in up THEN [phase |-> "running", rev |-> 0, ready |-> TRUE] ELSE NoPod]
      /\ dep.rev = 0
  BY DEF Init, ClusterInit
<1> HIDE DEF up
<1>3. Running = up /\ \A u \in Running : pods[u].rev = 0
  BY <1>1, <1>2 DEF Running, NoPod
<1>4. Running # {}
  BY <1>1, <1>3, ClusterAssumption, FS_EmptySet
<1> QED
  BY <1>1, <1>2, <1>3, <1>4

(***************************************************************************)
(* Under the RolloutRestart strategy hotswap never takes the last pod,     *)
(* with one replica or more, whatever crashes, stale caches, failed writes *)
(* and users' rollouts do (rolloutRestart).                                *)
(***************************************************************************)
LEMMA RestartsKeepPods ==
  ASSUME Strategy = "RolloutRestart"
  PROVE  Spec => []SomePodRuns
<1>1. Init => SomePodRuns
  BY StartsComplete DEF SomePodRuns
<1>2. TypeOK /\ SomePodRuns /\ [Next]_vars => SomePodRuns'
  BY RestartKeepsPods DEF SomePodRuns
<1> QED
  BY <1>1, <1>2, TypeCorrect, PTL DEF Spec
-----------------------------------------------------------------------------
(***************************************************************************)
(* Deletions.  The policies stay as they are, so that one of them decides, *)
(* the first of those that exist.                                          *)
(***************************************************************************)
Unattended ==
  /\ Undisturbed /\ Disturbances \cap {"createPolicy", "crash", "deploy"} = {}
  /\ Prompt = TRUE /\ RequireStable = TRUE /\ Cooldown > 0 /\ SkipPercent > 0

Leader(p) == p \in Guarded /\ \A q \in Guarded : p <= q

\* Its target, its age and its existence are the ones of the beginning.
Stands(o, p) == o.target = "app" /\ o.created = 0 /\ (o.live <=> p \in Guarded)

Guardians ==
  /\ \A p \in Policies : Stands(pol[p], p)
  /\ work.pc # "idle" => Stands(work.obj, work.p)
  /\ work.pc \in Deciding => Leader(work.p)

LEMMA GuardiansInit == Init => Guardians
<1> SUFFICES ASSUME Init PROVE Guardians
  OBVIOUS
<1>1. work.pc = "idle" /\ \A p \in Policies : pol[p] = IF p \in Guarded THEN [Gone EXCEPT !.live = TRUE] ELSE Gone
  BY DEF Init, Idle, NoWork
<1>2. /\ Gone.target = "app" /\ Gone.created = 0 /\ ~Gone.live
      /\ [Gone EXCEPT !.live = TRUE].target = "app" /\ [Gone EXCEPT !.live = TRUE].created = 0
      /\ [Gone EXCEPT !.live = TRUE].live
  BY DEF Gone
<1> QED
  BY <1>1, <1>2 DEF Guardians, Stands, Deciding

LEMMA GuardiansStep ==
  ASSUME Unattended, Steady, Guardians, CalmShape
  PROVE  Guardians'
<1>0. /\ pol \in [Policies -> Policy] /\ work.p \in Policies /\ ~Creates
      /\ work.pc # "idle" => work.obj.live
      /\ \A a, b : SameSpec(a, b) => (\A p : Stands(b, p) => Stands(a, p))
  BY DEF Steady, TypeOK, Work, Unattended, Creates, Release, WorkCopies, SameSpec, Stands
<1>1. CASE Rests
  BY <1>1 DEF Rests, Guardians
<1>2. CASE Opens
  <2>1. Stands(work'.obj, work'.p)
    BY <1>0, <1>2 DEF Opens, Guardians
  <2>2. UNCHANGED pol /\ work'.pc \notin Deciding
    BY <1>2 DEF Opens, Deciding
  <2> QED
    BY <2>1, <2>2 DEF Guardians
<1>3. CASE Looks \/ Judges \/ Performs
  <2>1. UNCHANGED pol /\ work'.p = work.p /\ work.pc # "idle" /\ Stands(work'.obj, work.p)
    BY <1>0, <1>3 DEF Looks, Judges, Performs, SameCall, Guardians
  <2>2. ASSUME work.pc = "resolve", ~Conflicting(work.p, work.obj) PROVE Leader(work.p)
    <3>1. work.p \in Guarded
      BY <1>0, <2>2 DEF Guardians, Stands
    <3>2. ASSUME NEW q \in Guarded PROVE work.p <= q
      <4>1. q \in Policies /\ q \in Nat /\ work.p \in Nat
        BY <1>0, <3>2, PolicyAssumption
      <4>2. Stands(cpol[q], q) /\ Stands(work.obj, work.p)
        BY <2>1, <4>1 DEF Guardians, Steady, InStep
      <4>3. ~(q # work.p /\ LessPolicy(q, 0, work.p, 0))
        BY <2>2, <3>2, <4>1, <4>2 DEF Conflicting, Stands
      <4> QED
        BY <4>1, <4>3 DEF LessPolicy
    <3> QED
      BY <3>1, <3>2 DEF Leader
  <2>3. work'.pc \in Deciding => Leader(work.p)
    BY <1>3, <2>2 DEF Looks, Judges, Performs, Guardians, Deciding
  <2> QED
    BY <2>1, <2>3 DEF Guardians
<1>4. CASE Saves
  <2>1. work'.pc = "idle" /\ pol' = [pol EXCEPT ![work.p] = work.obj] /\ Stands(work.obj, work.p)
    BY <1>4 DEF Saves, Guardians
  <2> QED
    BY <1>0, <2>1 DEF Guardians, Deciding
<1> QED
  BY <1>0, <1>1, <1>2, <1>3, <1>4 DEF CalmShape
-----------------------------------------------------------------------------
(***************************************************************************)
(* What can be trusted.  A status that looks stable, a pod that is listed  *)
(* and a decision to act are all right, or the leader has acted within     *)
(* this tick.                                                              *)
(***************************************************************************)
JustActed == \E p \in Policies : Leader(p) /\ actedAt[p] = clock

Complete == Cardinality(Running) >= Replicas

Reports(d) == d.spec = Replicas /\ (DeploymentStable(d) => Complete \/ JustActed)

Manned ==
  /\ Reports(dep) /\ Reports(cdep) /\ (work.pc \in Deciding => Reports(work.dep))
  /\ \A u \in Running : pods[u].rev = dep.rev
  /\ \A u \in Uids : cpods[u].phase = "running" => u \in Running \/ JustActed
  /\ work.pc = "decide" => probed[work.p] \subseteq Running \/ JustActed
  /\ work.pc = "act" => work.now = clock /\ Running \ work.todo # {}
  /\ SomePodRuns

\* What a step does to the Deployment, the caches and the call in progress.
DeploymentKept ==
  \/ dep' = dep
  \/ pods' = pods /\ dep' = Observed
  \/ pods' = pods /\ dep' = [dep EXCEPT !.stalled = TRUE]

CachesFollow ==
  /\ cdep' = cdep \/ cdep' = dep'
  /\ \A u \in Uids : cpods'[u] = cpods[u] \/ cpods'[u] = pods'[u]

CallReads ==
  /\ work'.pc \in Deciding =>
       \/ work.pc = "resolve" /\ work'.pc = "pods" /\ work'.dep = cdep
       \/ work.pc \in Deciding /\ work'.dep = work.dep
  /\ work'.pc = "decide" =>
       /\ work'.p = work.p
       /\ \/ work.pc = "decide" /\ UNCHANGED probed
          \/ work.pc = "pods" /\ probed'[work.p] = {u \in Uids : cpods[u].phase = "running"}
  /\ work'.pc = "act" =>
       \/ work.pc = "act" /\ work'.now = work.now /\ work'.todo \subseteq work.todo
       \/ work.pc = "decide"

Deletes ==
  /\ work.pc = "act" /\ work'.pc = "act" /\ work'.now = work.now /\ UNCHANGED <<dep, clock>>
  /\ actedAt' = [actedAt EXCEPT ![work.p] = clock]
  /\ \E u \in work.todo : work'.todo = work.todo \ {u} /\ \A v \in Running \ {u} : pods'[v].phase = "running"

GuardShape ==
  /\ PodsAge /\ DeploymentKept /\ CachesFollow /\ CallReads
  /\ \/ KeepsRunning /\ UNCHANGED <<clock, actedAt>>
     \/ Deletes
     \/ Tick

LEMMA InformedFollow ==
  ASSUME NEW Q, Informed(Q)
  PROVE  CachesFollow
  BY DEF Informed, CachesFollow

LEMMA SilentFollow ==
  ASSUME UNCHANGED <<cdep, cpods>>
  PROVE  CachesFollow
  BY DEF CachesFollow

LEMMA QuietGuard ==
  ASSUME UNCHANGED <<dep, pods, clock, actedAt>>, CachesFollow, CallReads
  PROVE  GuardShape
  BY DEF GuardShape, PodsAge, DeploymentKept, KeepsRunning, Running

LEMMA RestingCall ==
  ASSUME UNCHANGED <<work, probed>> \/ work'.pc \notin Deciding
  PROVE  CallReads
  BY DEF CallReads, Deciding

LEMMA StatusCall ==
  ASSUME TypeOK, NEW o, ToStatus(o, TRUE)
  PROVE  CallReads
  BY ToStatusCalm, RestingCall DEF Deciding

LEMMA BeginGuard ==
  ASSUME TypeOK, NEW p \in Policies, Begin(p)
  PROVE  GuardShape
<1>1. UNCHANGED <<dep, pods, clock, actedAt, cdep, cpods>>
  BY DEF Begin, BeginGone, BeginDeletion, BeginAdoption, BeginInvalid, BeginGuarding, Take, caches, cluster
<1>2. UNCHANGED <<work, probed>> \/ \E o, l : l \in {"finalizer", "status", "resolve"} /\ StartWork(p, l, o)
  BY DEF Begin, BeginGone, BeginDeletion, BeginAdoption, BeginInvalid, BeginGuarding, store
<1>3. UNCHANGED <<work, probed>> \/ work'.pc \notin Deciding
  BY <1>2, IdleType DEF StartWork, Work, Deciding
<1> QED
  BY <1>1, <1>3, RestingCall, SilentFollow, QuietGuard

LEMMA ReadsGuard ==
  ASSUME TypeOK, ResolveNotFound \/ ResolveConflict \/ ResolveTarget \/ SyncPods \/ Decide \/ ActDone
  PROVE  GuardShape
<1>0. UNCHANGED <<dep, pods, clock, actedAt, cdep, cpods>>
  BY DEF ResolveNotFound, ResolveConflict, ResolveTarget, ResolveReads, SyncPods, Decide, ActDone, caches, cluster
<1> SUFFICES CallReads
  BY <1>0, SilentFollow, QuietGuard
<1>1. CASE \E o : ToStatus(o, TRUE)
  BY <1>1, StatusCall
<1>2. CASE ResolveTarget
  <2>1. work.pc = "resolve" /\ work'.pc = "pods" /\ work'.dep = cdep
    BY <1>2 DEF ResolveTarget, ResolveReads, TypeOK, Work
  <2> QED
    BY <2>1 DEF CallReads
<1>3. CASE SyncPods
  <2>1. work.pc = "pods" /\ work'.pc = "decide" /\ work'.dep = work.dep /\ work'.p = work.p /\ work.p \in Policies
    BY <1>3 DEF SyncPods, TypeOK, Work
  <2>2. probed'[work.p] = {u \in Uids : cpods[u].phase = "running"}
    BY <1>3, <2>1 DEF SyncPods, Store!Sync, TypeOK, Store!StoreTypeOK
  <2> QED
    BY <2>1, <2>2 DEF CallReads, Deciding
<1>4. CASE Decide /\ ~\E o : ToStatus(o, TRUE)
  <2>1. work.pc = "decide" /\ \E U : work' = [work EXCEPT !.pc = "act", !.todo = U, !.acted = 0, !.now = clock]
    BY <1>4 DEF Decide
  <2>2. work'.pc = "act" /\ work'.dep = work.dep
    BY <2>1 DEF TypeOK, Work
  <2> QED
    BY <2>1, <2>2 DEF CallReads, Deciding
<1> QED
  BY <1>1, <1>2, <1>3, <1>4 DEF ResolveNotFound, ResolveConflict, ActDone

LEMMA ClusterGuard ==
  ASSUME TypeOK, \A u \in Running : pods[u].rev = dep.rev, "deploy" \notin Disturbances, Kubernetes \/ Trouble
  PROVE  GuardShape
<1>0. pods \in [Uids -> Pod]
  BY DEF TypeOK, ClusterTypeOK
<1>1. UNCHANGED <<work, probed, clock, actedAt>> /\ Informed(pending)
  BY DEF Kubernetes, Trouble, controller, store
<1>2. ObserveStatus \/ Stall \/ \E u \in Uids : \/ Terminated(u) \/ BecomeReady(u) \/ BecomeUnready(u)
           \/ Regress(u) \/ Recover(u) \/ \E b \in BOOLEAN : CreatePod(u, b)
  BY DEF Kubernetes, Trouble, Spend, ControllerStep, RetireOld, Current
<1>3. PodsAge
  BY <1>2, ClusterMoves DEF ControllerStep
<1>4. DeploymentKept
  BY <1>2 DEF ObserveStatus, Stall, Terminated, BecomeReady, BecomeUnready, Regress, Recover, CreatePod, DeploymentKept
<1>5. KeepsRunning
  <2>1. ASSUME pods' = pods PROVE KeepsRunning
    BY <2>1 DEF KeepsRunning, Running
  <2>2. ASSUME NEW u \in Uids, \/ Terminated(u) \/ BecomeReady(u) \/ BecomeUnready(u)
                               \/ Regress(u) \/ Recover(u) \/ \E b \in BOOLEAN : CreatePod(u, b)
        PROVE  KeepsRunning
    BY <1>0, <2>2, PodStepKeeps
  <2> QED
    BY <1>2, <2>1, <2>2 DEF ObserveStatus, Stall
<1> QED
  BY <1>1, <1>3, <1>4, <1>5, InformedFollow, RestingCall DEF GuardShape

LEMMA ActsGuard ==
  ASSUME Unattended, Replicas > 1, Strategy # "RolloutRestart", TypeOK, InStep, Reports(work.dep),
         ActRestart \/ \E u \in Uids : ActDelete(u)
  PROVE  GuardShape
<1>0. /\ pods \in [Uids -> Pod] /\ work.pc = "act" /\ Replicas \in Nat /\ Recording
      /\ work.todo \in SUBSET Uids /\ Unchanged(work)
  BY ClusterAssumption DEF TypeOK, ClusterTypeOK, Work, ActRestart, ActDelete, Unattended, Undisturbed,
                           InStep, Unchanged
<1>1. Acting = "DeletePod"
  BY <1>0, PolicyAssumption DEF Acting, ChooseStrategy, Strategies, EffectiveReplicas, Reports, Unset
<1>2. PICK u \in Uids : ActDelete(u)
  BY <1>1 DEF ActRestart
<1>3. u \in work.todo /\ UNCHANGED <<dep, clock, probed>>
  BY <1>2 DEF ActDelete, store
<1>4. CASE work' = [work EXCEPT !.todo = @ \ {u}] /\ UNCHANGED <<pods, actedAt, caches>>
  <2>1. /\ work'.pc = "act" /\ work'.now = work.now /\ work'.dep = work.dep
        /\ work'.todo \subseteq work.todo
    BY <1>0, <1>4 DEF TypeOK, Work
  <2>2. CallReads
    BY <1>0, <2>1 DEF CallReads, Deciding
  <2> QED
    BY <1>3, <1>4, <2>2, SilentFollow, QuietGuard DEF caches
<1>5. CASE /\ pods' = PodDeleted(u) /\ Logged
           /\ work' = [work EXCEPT !.todo = @ \ {u}, !.acted = @ + 1] /\ Informed(pending)
  <2>1. work'.pc = "act" /\ work'.now = work.now /\ work'.dep = work.dep /\ work'.todo = work.todo \ {u}
    BY <1>0, <1>5 DEF TypeOK, Work
  <2>2. \A v \in Uids \ {u} : pods'[v] = pods[v]
    BY <1>0, <1>5 DEF PodDeleted
  <2>3. PodsAge
    BY <1>0, <1>5 DEF PodDeleted, PodsAge, Pod
  <2>4. Deletes
    BY <1>0, <1>3, <1>5, <2>1, <2>2 DEF Deletes, Logged, Running
  <2>5. CallReads
    BY <1>0, <2>1 DEF CallReads, Deciding
  <2> QED
    BY <1>3, <1>5, <2>3, <2>4, <2>5, InformedFollow DEF GuardShape, DeploymentKept
<1> QED
  BY <1>0, <1>2, <1>4, <1>5, NoErrors DEF ActDelete

LEMMA LivingGuard ==
  ASSUME Unattended, Replicas > 1, Strategy # "RolloutRestart", TypeOK, InStep, Manned, Living \/ UNCHANGED vars
  PROVE  GuardShape
<1>1. CASE UpdateFinalizer \/ Finish
  <2>1. UNCHANGED <<dep, pods, clock, actedAt>> /\ \E again : Return(again)
    BY <1>1 DEF UpdateFinalizer, Finish, WritePolicy, cluster
  <2>2. work'.pc \notin Deciding /\ \E Q : Informed(Q)
    BY <2>1 DEF Return, Idle, NoWork, Deciding
  <2> QED
    BY <2>1, <2>2, InformedFollow, RestingCall, QuietGuard
<1>2. CASE Deliver
  <2>1. UNCHANGED <<dep, pods, clock, actedAt, work, probed>>
    BY <1>2 DEF Deliver, DeliverPolicy, DeliverDeployment, DeliverPod, cluster, store
  <2>2. CachesFollow
    BY <1>2 DEF Deliver, DeliverPolicy, DeliverDeployment, DeliverPod, cluster, CachesFollow, TypeOK
  <2> QED
    BY <2>1, <2>2, RestingCall, QuietGuard
<1>3. CASE (\E p \in Policies, u \in Uids : ProbeVerdict(p, u)) \/ UNCHANGED vars
  <2>1. UNCHANGED <<dep, pods, clock, actedAt, work, probed, cdep, cpods>>
    BY <1>3 DEF ProbeVerdict, Store!Flip, vars, cluster, caches, store
  <2> QED
    BY <2>1, SilentFollow, RestingCall, QuietGuard
<1>4. CASE User
  <2>1. UNCHANGED <<dep, pods, clock, actedAt, work, probed>> /\ Informed(pending)
    BY <1>4 DEF User, cluster, store
  <2> QED
    BY <2>1, InformedFollow, RestingCall, QuietGuard
<1>5. CASE Tick
  <2>1. UNCHANGED <<dep, pods, work, probed, cdep, cpods>>
    BY <1>5 DEF Tick, cluster, caches, store
  <2>2. PodsAge /\ DeploymentKept /\ CachesFollow /\ CallReads
    BY <2>1, SilentFollow, RestingCall DEF PodsAge, DeploymentKept
  <2> QED
    BY <1>5, <2>2 DEF GuardShape
<1>6. CASE Kubernetes \/ Trouble
  BY <1>6, ClusterGuard DEF Manned, Unattended
<1>7. CASE ActRestart \/ \E u \in Uids : ActDelete(u)
  <2>1. Reports(work.dep)
    BY <1>7 DEF ActRestart, ActDelete, Manned, Deciding
  <2> QED
    BY <1>7, <2>1, ActsGuard
<1> QED
  BY <1>1, <1>2, <1>3, <1>4, <1>5, <1>6, <1>7, BeginGuard, ReadsGuard DEF Living, Reconcile
-----------------------------------------------------------------------------
LEMMA MannedInit == Init => Manned
<1> SUFFICES ASSUME Init PROVE Manned
  OBVIOUS
<1>1. Complete
  BY StartsComplete, ClusterAssumption DEF Complete
<1>2. dep.spec = Replicas /\ cdep = dep /\ cpods = pods /\ work.pc = "idle"
  BY DEF Init, ClusterInit, Idle, NoWork
<1> QED
  BY <1>1, <1>2, StartsComplete DEF Manned, Reports, Running, SomePodRuns, Deciding

\* A new status that looks stable counts as many pods as there should be.
LEMMA ObservedReports ==
  ASSUME TypeOK, dep.spec = Replicas, DeploymentStable(Observed)
  PROVE  Complete
<1>1. Observed.replicas = Cardinality(Running) /\ Observed.spec = dep.spec
  BY DEF Observed, TypeOK, ClusterTypeOK, Deployment
<1>2. Cardinality(Running) = Replicas /\ Replicas \in Nat
  BY <1>1, ClusterAssumption DEF DeploymentStable
<1> QED
  BY <1>2 DEF Complete

\* The policy that has just acted does not act again: its record is too young.
LEMMA CoolingDown ==
  ASSUME Unattended, Books, InStep, Guardians, Judges, work'.pc = "act"
  PROVE  ~JustActed
<1> SUFFICES ASSUME NEW p \in Policies, Leader(p), actedAt[p] = clock PROVE FALSE
  BY DEF JustActed
<1>0. /\ work.pc = "decide" /\ work.p \in Policies /\ clock \in Nat
      /\ Sec \in Nat \ {0} /\ Cooldown \in Nat \ {0} /\ Latency = 0
  BY EnvironmentAssumption, ClusterAssumption, PolicyAssumption DEF Judges, Books, TypeOK, Work, Unattended
<1>1. p = work.p
  <2>1. Leader(work.p)
    BY <1>0 DEF Guardians, Deciding
  <2>2. p \in Nat /\ work.p \in Nat
    BY <1>0, PolicyAssumption
  <2> QED
    BY <2>1, <2>2 DEF Leader
<1>2. Dated(pol[p].last, clock) /\ pol[p].last \in Int
  <2>1. actedAt[p] # Never
    BY <1>0 DEF Never
  <2> QED
    BY <1>0, <2>1 DEF Books, Accounted, TypeOK, Policy
<1>3. SpacedFrom(clock, pol[p].last)
  BY <1>0, <1>1 DEF Judges, Books, Spacing, InStep
<1>4. Cooldown * Sec >= Sec /\ Cooldown * Sec \in Nat
  BY <1>0
<1> QED
  BY <1>0, <1>2, <1>3, <1>4 DEF Dated, SpacedFrom

\* A decision to act spares a running pod.
LEMMA OneIsSpared ==
  ASSUME Unattended, Replicas > 1, Steady, Books, StoreSound, Guardians, Manned, Judges, work'.pc = "act",
         seen' \in [Policies -> SUBSET Uids]
  PROVE  work'.now = clock /\ Running \ work'.todo # {}
<1> DEFINE P == probed[work.p]
<1>0. work.p \in Policies /\ P \in SUBSET Uids /\ Regressed \in SUBSET P /\ Replicas \in Nat
  BY ClusterAssumption DEF Steady, TypeOK, Work, Store!StoreTypeOK, StoreSound, Regressed
<1>1. /\ work.pc = "decide" /\ work'.now = clock /\ work'.todo = Regressed /\ DeploymentStable(work.dep)
      /\ ~IsSystemic(Cardinality(Regressed), Cardinality(P), SkipPercent)
  BY DEF Judges, Unattended
<1>2. Complete /\ P \in SUBSET Running
  BY <1>1, CoolingDown DEF Steady, Manned, Reports, Deciding
<1> HIDE DEF P
<1>3. /\ IsFiniteSet(Running) /\ IsFiniteSet(P) /\ Cardinality(P) \in Nat /\ Cardinality(Running) \in Nat
      /\ Cardinality(Running) >= 2
  BY <1>0, <1>2, ClusterAssumption, FS_Subset, FS_CardinalityType DEF Running, Complete
<1>4. CASE Cardinality(P) >= 2
  <2>1. Regressed # P
    BY <1>1, <1>3, <1>4, AllUnhealthyIsSystemic, PolicyAssumption DEF Unattended
  <2> QED
    BY <1>0, <1>1, <1>2, <2>1
<1>5. CASE Cardinality(P) < 2
  <2>1. Running # P
    BY <1>3, <1>5
  <2> QED
    BY <1>0, <1>1, <1>2, <2>1
<1> QED
  BY <1>3, <1>4, <1>5

\* A step after which what was believed still is leaves the rest in order.
LEMMA MannedAgain ==
  ASSUME Steady, Manned, GuardShape, pods' \in [Uids -> Pod],
         dep'.spec = dep.spec, \A u \in Running' : pods'[u].rev = dep'.rev,
         JustActed' \/ (Running \in SUBSET Running' /\ (JustActed => JustActed') /\ (Complete => Complete')),
         work'.pc = "act" => work'.now = clock' /\ Running' \ work'.todo # {},
         Running \in SUBSET Running' \/ SomePodRuns'
  PROVE  Manned'
<1> DEFINE Sure(d) == d.spec = Replicas /\ (DeploymentStable(d) => Complete' \/ JustActed')
<1>1. \A d : Reports(d) => Sure(d)
  BY DEF Reports
<1>2. Sure(dep')
  <2>1. CASE dep' = dep
    BY <1>1, <2>1 DEF Manned
  <2>2. CASE dep' = Observed /\ pods' = pods
    <3>1. DeploymentStable(dep') => Complete
      BY <2>2, ObservedReports DEF Steady, Manned, Reports
    <3>2. Complete => Complete'
      BY <2>2 DEF Complete, Running
    <3> QED
      BY <3>1, <3>2 DEF Manned, Reports
  <2>3. CASE dep' = [dep EXCEPT !.stalled = TRUE]
    <3>1. DeploymentStable(dep') => DeploymentStable(dep)
      BY <2>3 DEF DeploymentStable, Steady, TypeOK, ClusterTypeOK, Deployment
    <3> QED
      BY <1>1, <3>1 DEF Manned, Reports
  <2> QED
    BY <2>1, <2>2, <2>3 DEF GuardShape, DeploymentKept
<1>3. Sure(cdep')
  BY <1>1, <1>2 DEF GuardShape, CachesFollow, Manned
<1>4. work'.pc \in Deciding => Sure(work'.dep)
  BY <1>1 DEF GuardShape, CallReads, Manned
<1>5. \A u \in Uids : cpods'[u].phase = "running" => u \in Running' \/ JustActed'
  <2> SUFFICES ASSUME NEW u \in Uids, cpods'[u].phase = "running", ~JustActed' PROVE u \in Running'
    OBVIOUS
  <2>1. CASE cpods'[u] = cpods[u]
    BY <2>1 DEF Manned
  <2>2. CASE cpods'[u] = pods'[u]
    BY <2>2 DEF Running
  <2> QED
    BY <2>1, <2>2 DEF GuardShape, CachesFollow
<1>6. work'.pc = "decide" => probed'[work'.p] \subseteq Running' \/ JustActed'
  <2> SUFFICES ASSUME work'.pc = "decide", ~JustActed' PROVE probed'[work.p] \subseteq Running' /\ work'.p = work.p
    OBVIOUS
  <2>1. work'.p = work.p /\ Running \subseteq Running' /\ ~JustActed
    BY DEF GuardShape, CallReads
  <2>2. CASE work.pc = "decide" /\ UNCHANGED probed
    BY <2>1, <2>2 DEF Manned
  <2>3. CASE probed'[work.p] = {u \in Uids : cpods[u].phase = "running"}
    BY <2>1, <2>3 DEF Manned
  <2> QED
    BY <2>1, <2>2, <2>3 DEF GuardShape, CallReads
<1>7. SomePodRuns'
  BY DEF Manned, SomePodRuns
<1>8. Reports(dep)' /\ Reports(cdep)' /\ (work'.pc \in Deciding => Reports(work.dep)')
  BY <1>2, <1>3, <1>4 DEF Reports
<1> QED
  BY <1>5, <1>6, <1>7, <1>8 DEF Manned, Deciding

LEMMA MannedStep ==
  ASSUME Unattended, Replicas > 1, Steady, Books, TypeOK', StoreSound, Guardians, Manned, CalmShape, GuardShape
  PROVE  Manned'
<1>0. /\ dep \in Deployment /\ pods \in [Uids -> Pod] /\ pods' \in [Uids -> Pod] /\ work.p \in Policies
      /\ actedAt \in [Policies -> Int] /\ seen' \in [Policies -> SUBSET Uids]
  BY DEF Steady, TypeOK, ClusterTypeOK, Work, Store!StoreTypeOK
<1>1. dep'.rev = dep.rev /\ dep'.spec = dep.spec
  <2>1. Observed.rev = dep.rev /\ Observed.spec = dep.spec
    BY <1>0 DEF Observed, Deployment
  <2>2. [dep EXCEPT !.stalled = TRUE].rev = dep.rev /\ [dep EXCEPT !.stalled = TRUE].spec = dep.spec
    BY <1>0 DEF Deployment
  <2> QED
    BY <2>1, <2>2 DEF GuardShape, DeploymentKept
<1>2. \A u \in Running' : pods'[u].rev = dep'.rev
  BY <1>0, <1>1 DEF GuardShape, PodsAge, Manned, Running
<1>3. CASE Tick
  <2>1. /\ UNCHANGED <<dep, pods, cdep, cpods, work>> /\ work.pc = "idle"
        /\ dep = Observed /\ cdep = dep /\ cpods = pods
    BY <1>3 DEF Tick, Unattended, cluster, caches
  <2>2. DeploymentStable(dep) => Complete
    BY <2>1, ObservedReports DEF Steady, Manned, Reports
  <2>3. Running' = Running /\ (Complete => Complete')
    BY <2>1 DEF Running, Complete
  <2>4. Reports(dep)' /\ Reports(cdep)'
    BY <2>1, <2>2, <2>3 DEF Manned, Reports
  <2>5. \A u \in Uids : cpods'[u].phase = "running" => u \in Running'
    BY <2>1, <2>3 DEF Running
  <2> QED
    BY <1>2, <2>1, <2>3, <2>4, <2>5 DEF Manned, SomePodRuns, Deciding
<1>4. ASSUME (KeepsRunning /\ UNCHANGED <<clock, actedAt>>) \/ Deletes
      PROVE  Manned'
  <2>1. CASE KeepsRunning /\ UNCHANGED <<clock, actedAt>>
    <3>1. Running \in SUBSET Running' /\ (JustActed => JustActed')
      BY <1>0, <2>1 DEF KeepsRunning, Running, JustActed, Leader
    <3>2. Complete => Complete'
      <4>1. IsFiniteSet(Running') /\ IsFiniteSet(Running)
        BY ClusterAssumption, FS_Subset DEF Running
      <4>2. /\ Cardinality(Running) <= Cardinality(Running')
            /\ Cardinality(Running) \in Nat /\ Cardinality(Running') \in Nat /\ Replicas \in Nat
        BY <3>1, <4>1, FS_Subset, FS_CardinalityType, ClusterAssumption
      <4> QED
        BY <4>2 DEF Complete
    <3>3. clock' = clock
      BY <2>1
    <3>4. work'.pc = "act" => work'.now = clock' /\ Running' \ work'.todo # {}
      <4>1. CASE work.pc = "act" /\ work'.now = work.now /\ work'.todo \subseteq work.todo
        BY <3>1, <3>3, <4>1 DEF Manned
      <4>2. CASE work.pc = "decide" /\ work'.pc = "act"
        <5>1. Judges
          BY <4>2 DEF CalmShape, Rests, Creates, Opens, Looks, Performs, Saves
        <5>2. work'.now = clock /\ Running \ work'.todo # {}
          BY <1>0, <4>2, <5>1, OneIsSpared
        <5> QED
          BY <3>1, <3>3, <5>2
      <4> QED
        BY <4>1, <4>2 DEF GuardShape, CallReads
    <3> QED
      BY <1>0, <1>1, <1>2, <2>1, <3>1, <3>2, <3>4, MannedAgain
  <2>2. CASE Deletes
    <3>1. JustActed'
      <4>1. Leader(work.p) /\ clock' = clock
        BY <2>2 DEF Deletes, Guardians, Deciding
      <4> QED
        BY <1>0, <2>2, <4>1 DEF Deletes, JustActed, Leader
    <3>2. PICK u \in work.todo : work'.todo = work.todo \ {u} /\ \A v \in Running \ {u} : pods'[v].phase = "running"
      BY <2>2 DEF Deletes
    <3>3. PICK v \in Running : v \notin work.todo
      BY <2>2 DEF Deletes, Manned
    <3>4. v \in Running' /\ v \notin work'.todo
      BY <3>2, <3>3 DEF Running
    <3>5. work'.pc = "act" /\ work'.now = clock'
      BY <2>2 DEF Deletes, Manned
    <3> QED
      BY <1>0, <1>1, <1>2, <3>1, <3>4, <3>5, MannedAgain DEF SomePodRuns
  <2> QED
    BY <1>4, <2>1, <2>2
<1> QED
  BY <1>3, <1>4 DEF GuardShape

(***************************************************************************)
(* With several replicas some pod is always running (deletePod, isSystemic,*)
(* deploymentStable, cooldownActive), however many pods fail or never come *)
(* up, however many deletions a call may make, and however far behind the  *)
(* Deployment and the pods the caches are within a tick: as long as users  *)
(* leave the policies and the template alone, the stability gate is on,    *)
(* every change shows before the clock moves on, and neither a crash nor a *)
(* failed write comes between an action and its record.                    *)
(***************************************************************************)
THEOREM ReplicasKept ==
  ASSUME Unattended
  PROVE  Spec => []SomeReplicaRuns
<1> DEFINE Inv == Steady /\ Books /\ StoreSound /\ Guardians /\ Manned
<1>1. ASSUME Strategy # "RolloutRestart", Replicas > 1 PROVE Spec => []SomeReplicaRuns
  <2>1. Init => Inv
    BY SteadyInit, BooksInit, GuardiansInit, MannedInit DEF Init, Store!StoreInit, StoreSound
  <2>2. Inv /\ [Next]_vars => Inv'
    <3> SUFFICES ASSUME Inv, [Next]_vars PROVE Inv'
      OBVIOUS
    <3>1. Living \/ UNCHANGED vars
      BY NoCrash DEF Unattended
    <3>2. Steady' /\ CalmShape /\ Books'
      BY <3>1, SteadyStep, BooksStep DEF Unattended, Undisturbed
    <3>3. StoreSound' /\ Guardians'
      BY <3>2, StoreSoundStep, GuardiansStep DEF Steady
    <3>4. GuardShape
      BY <1>1, <3>1, LivingGuard DEF Steady
    <3>5. TypeOK'
      BY <3>2 DEF Steady
    <3> QED
      BY <1>1, <3>2, <3>3, <3>4, <3>5, MannedStep
  <2>3. Inv => SomeReplicaRuns
    BY DEF Manned, SomePodRuns, SomeReplicaRuns
  <2> QED
    BY <2>1, <2>2, <2>3, PTL DEF Spec
<1>2. ASSUME Strategy = "RolloutRestart" PROVE Spec => []SomeReplicaRuns
  <2>1. Spec => []SomePodRuns
    BY <1>2, RestartsKeepPods
  <2>2. SomePodRuns => SomeReplicaRuns
    BY DEF SomePodRuns, SomeReplicaRuns
  <2> QED
    BY <2>1, <2>2, PTL
<1>3. ASSUME ~(Replicas > 1) PROVE Spec => []SomeReplicaRuns
  <2>1. SomeReplicaRuns
    BY <1>3 DEF SomeReplicaRuns
  <2> QED
    BY <2>1, PTL
<1> QED
  BY <1>1, <1>2, <1>3
=============================================================================
