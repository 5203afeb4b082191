----------------------------- MODULE Reconciler -----------------------------
(***************************************************************************)
(* HotSwapPolicyReconciler (internal/controller): one worker that takes    *)
(* policies off the work queue, reads them and their target through        *)
(* informer caches, consults the prober's store, acts on the cluster and   *)
(* writes the policy's status, among users, Kubernetes controllers,        *)
(* crashes and API errors.  A step is one read, one decision or one API    *)
(* call; between two steps everything else may move.                       *)
(*                                                                         *)
(* A write with a resourceVersion succeeds when the copy it was computed   *)
(* from still equals the object.  Writes the model cannot see (probe       *)
(* timestamps) can only add conflicts, which are "writeError" here.        *)
(***************************************************************************)
EXTENDS Cluster, Decision

CONSTANTS
  Policies,       \* names, as numbers: lessPolicy compares them
  Guarded,        \* the policies that exist initially
  Strategy, RequireStable, MaxAttempts, Cooldown, MaxConcurrent, SkipPercent,
                  \* spec.remediation; Cooldown in seconds
  Lagging,        \* the informer caches that may be behind the API server
  Prompt,         \* is every change reported and every call answered within a tick?
  Latency,        \* ticks from the decision to remediate to the last API call for it
  Disturbances,   \* what users, applications and failures may do ...
  Budget,         \* ... and how often altogether
  MaxTime         \* bound on the clock

AllDisturbances == {"regress", "recover", "badpod", "stall", "deploy", "createPolicy", "retarget",
                    "invalidate", "dryRun", "deletePolicy", "crash", "writeError"}

ASSUME PolicyAssumption ==
  /\ Policies \subseteq Nat /\ Policies # {} /\ Guarded \subseteq Policies
  /\ Strategy \in Strategies /\ RequireStable \in BOOLEAN
  /\ MaxAttempts \in Nat \ {0} /\ Cooldown \in Nat /\ MaxConcurrent \in Nat \ {0}
  /\ SkipPercent \in 0..100
ASSUME EnvironmentAssumption ==
  /\ Lagging \subseteq {"policies", "deployments", "pods"} /\ Prompt \in BOOLEAN
  /\ Latency \in Nat /\ (Prompt => Latency = 0)
  /\ Disturbances \subseteq AllDisturbances /\ Budget \in Nat /\ MaxTime \in Nat

VARIABLES
  pol,                  \* pol[p]: the HotSwapPolicy object
  cpol, cdep, cpods,    \* the informer caches
  probed, sick, seen,   \* the prober's store, see ProbeStore
  pending,              \* policies with a work-queue item, ready or delayed
  work,                 \* the Reconcile call in progress
  clock,                \* r.Clock
  budget,               \* disturbances left
  actedAt               \* actedAt[p]: the time of the latest action on the cluster by a call
                        \* for p whose copy of p was up to date

store == <<probed, sick, seen>>
caches == <<cpol, cdep, cpods>>
cluster == <<dep, pods, ok>>
vars == <<cluster, pol, caches, store, pending, work, clock, budget, actedAt>>

Store == INSTANCE ProbeStore

Targets == {"app", "other"}     \* only the Deployment "app" exists
Conditions == {"Unknown", "AllHealthy", "Remediating", "InvalidProbe", "TargetNotFound",
               "ConflictingPolicy", "RolloutStalled", "SystemicFailure", "CircuitOpen"}

\* A policy: the three conditions always move together (setHealthy,
\* setRemediating, setDegraded), so their reason stands for them.
Policy == [live : BOOLEAN, created : Nat, deleting : BOOLEAN, fin : BOOLEAN,
           target : Targets, valid : BOOLEAN, dry : BOOLEAN,
           attempts : Nat, last : Int, cond : Conditions]
Gone == [live |-> FALSE, created |-> 0, deleting |-> FALSE, fin |-> FALSE,
         target |-> "app", valid |-> TRUE, dry |-> FALSE,
         attempts |-> 0, last |-> Never, cond |-> "Unknown"]

PCs == {"idle", "finalizer", "resolve", "pods", "decide", "act", "status"}
Work == [pc : PCs, p : Policies, base : Policy, obj : Policy, dep : Deployment,
         todo : SUBSET Uids, acted : Nat, now : Nat, again : BOOLEAN]

\* A finished call leaves nothing behind but the policy it was for.
NoWork(p) == [pc |-> "idle", p |-> p, base |-> Gone, obj |-> Gone,
              dep |-> [rev |-> 0, obs |-> 0, stamp |-> -1, spec |-> 0, replicas |-> 0, updated |-> 0,
                       available |-> 0, unavailable |-> 0, stalled |-> FALSE],
              todo |-> {}, acted |-> 0, now |-> 0, again |-> FALSE]
Idle == NoWork(CHOOSE p \in Policies : TRUE)

TypeOK ==
  /\ ClusterTypeOK /\ Store!StoreTypeOK
  /\ pol \in [Policies -> Policy]
  /\ cpol \in [Policies -> Policy] /\ cdep \in Deployment /\ cpods \in [Uids -> Pod]
  /\ pending \subseteq Policies
  /\ work \in Work
  /\ clock \in 0..MaxTime /\ budget \in 0..Budget
  /\ actedAt \in [Policies -> Int]

Init ==
  /\ ClusterInit
  /\ Store!StoreInit
  /\ pol = [p \in Policies |-> IF p \in Guarded THEN [Gone EXCEPT !.live = TRUE] ELSE Gone]
  /\ cpol = pol /\ cdep = dep /\ cpods = pods
  /\ pending = Guarded
  /\ work = Idle
  /\ clock = 0
  /\ budget = Budget
  /\ actedAt = [p \in Policies |-> Never]
-----------------------------------------------------------------------------
(***************************************************************************)
(* Watches.  The handlers enqueue: a policy for its own events, and all    *)
(* the policies listed for the Deployment for its events and its pods'.    *)
(***************************************************************************)
Watchers == {q \in Policies : cpol[q].live /\ cpol[q].target = "app"}

\* policiesForDeployment, policiesForPod and For, on what the caches receive.
Enqueue(Q) ==
  pending' = Q \cup {p \in Policies : cpol'[p] # cpol[p]}
               \cup (IF cdep' # cdep \/ cpods' # cpods THEN Watchers ELSE {})

\* The caches that do not lag follow at once; Q is what the step enqueues.
Informed(Q) ==
  /\ cpol' = IF "policies" \in Lagging THEN cpol ELSE pol'
  /\ cdep' = IF "deployments" \in Lagging THEN cdep ELSE dep'
  /\ cpods' = IF "pods" \in Lagging THEN cpods ELSE pods'
  /\ Enqueue(Q)
-----------------------------------------------------------------------------
(***************************************************************************)
(* Status conditions.                                                      *)
(***************************************************************************)
SetHealthy(o) == [o EXCEPT !.cond = "AllHealthy"]
SetRemediating(o) == [o EXCEPT !.cond = "Remediating"]
SetDegraded(o, reason) == [o EXCEPT !.cond = reason]
-----------------------------------------------------------------------------
(***************************************************************************)
(* Reconcile.                                                              *)
(***************************************************************************)
\* Call r.finish(o, ...) next, which needs nothing but o and the copy it is made
\* from; again is whether the result asks for a requeue.
ToStatus(o, again) ==
  work' = [Idle EXCEPT !.pc = "status", !.p = work.p, !.base = work.base, !.obj = o, !.again = again]

\* Reconcile returns; requeue when it asks for it or returns an error.
Return(requeue) ==
  /\ work' = Idle
  /\ Informed(IF requeue THEN pending \cup {work.p} ELSE pending)

\* The worker takes p off the queue and reads it through the cache.
Take(p) ==
  /\ work.pc = "idle" /\ p \in pending
  /\ pending' = pending \ {p}
  /\ UNCHANGED <<cluster, pol, caches, clock, budget, actedAt>>

StartWork(p, pc, o) == work' = [Idle EXCEPT !.pc = pc, !.p = p, !.base = cpol[p], !.obj = o]

\* Not found, or being deleted and already released: nothing to do.
BeginGone(p) ==
  /\ Take(p)
  /\ ~cpol[p].live \/ (cpol[p].deleting /\ ~cpol[p].fin)
  /\ UNCHANGED <<work, store>>

\* Mutant: the finalizer is released although the probers still run.
BeginDeletionStillProbing(p) ==
  /\ Take(p)
  /\ cpol[p].live /\ cpol[p].deleting /\ cpol[p].fin
  /\ StartWork(p, "finalizer", [cpol[p] EXCEPT !.fin = FALSE])
  /\ UNCHANGED store

\* Mutant: the probe is validated before a deletion is handled.
BeginDeletionIfValid(p) ==
  /\ Take(p)
  /\ cpol[p].live /\ cpol[p].deleting /\ cpol[p].fin /\ cpol[p].valid
  /\ StartWork(p, "finalizer", [cpol[p] EXCEPT !.fin = FALSE])
  /\ Store!Forget(p)

\* Being deleted: forget the probers, then release the finalizer.
BeginDeletion(p) ==
  /\ Take(p)
  /\ cpol[p].live /\ cpol[p].deleting /\ cpol[p].fin
  /\ StartWork(p, "finalizer", [cpol[p] EXCEPT !.fin = FALSE])
  /\ Store!Forget(p)

BeginAdoption(p) ==
  /\ Take(p)
  /\ cpol[p].live /\ ~cpol[p].deleting /\ ~cpol[p].fin
  /\ StartWork(p, "finalizer", [cpol[p] EXCEPT !.fin = TRUE])
  /\ UNCHANGED store

\* normalizeProbe fails: report it and wait for an edit.
BeginInvalid(p) ==
  /\ Take(p)
  /\ cpol[p].live /\ ~cpol[p].deleting /\ cpol[p].fin /\ ~cpol[p].valid
  /\ StartWork(p, "status", SetDegraded(cpol[p], "InvalidProbe"))
  /\ UNCHANGED store

\* Mutant: a finalizer that has yet to be added does not keep it from probing.
BeginGuardingUnadopted(p) ==
  /\ Take(p)
  /\ cpol[p].live /\ ~cpol[p].deleting /\ cpol[p].valid
  /\ StartWork(p, "resolve", cpol[p])
  /\ UNCHANGED store

BeginGuarding(p) ==
  /\ Take(p)
  /\ cpol[p].live /\ ~cpol[p].deleting /\ cpol[p].fin /\ cpol[p].valid
  /\ StartWork(p, "resolve", cpol[p])
  /\ UNCHANGED store

Begin(p) == BeginGone(p) \/ BeginDeletion(p) \/ BeginAdoption(p) \/ BeginInvalid(p) \/ BeginGuarding(p)
-----------------------------------------------------------------------------
\* Mutant: the resourceVersion is not sent.
UnchangedAssumed(w) == pol[w.p].live

\* Is the object still the one the copy was read from?
Unchanged(w) == pol[w.p] = w.base

\* An API call may fail, with or without effect, while the budget lasts.
Spend(kind) == kind \in Disturbances /\ budget > 0 /\ budget' = budget - 1

\* A write of the policy with its resourceVersion; requeue is whether
\* Reconcile asks to be called again after it.  An error is returned, which
\* requeues; the object may have been written all the same.
WritePolicy(o, requeue) ==
  LET write == Unchanged(work) /\ pol' = [pol EXCEPT ![work.p] = o]
  IN /\ UNCHANGED <<cluster, store, clock, actedAt>>
     /\ \/ write /\ UNCHANGED budget /\ Return(requeue)
        \/ ~Unchanged(work) /\ UNCHANGED <<pol, budget>> /\ Return(TRUE)
        \/ Spend("writeError") /\ (UNCHANGED pol \/ write) /\ Return(TRUE)

\* r.Update; the API server drops a deleted object with its last finalizer.
UpdateFinalizer ==
  /\ work.pc = "finalizer"
  /\ WritePolicy(IF work.obj.deleting THEN Gone ELSE work.obj, ~work.obj.deleting)

\* finish: r.Status().Update
Finish ==
  /\ work.pc = "status"
  /\ WritePolicy(work.obj, work.again)
-----------------------------------------------------------------------------
(***************************************************************************)
(* Target and conflicts.                                                   *)
(***************************************************************************)
ResolveReads ==
  /\ work.pc = "resolve"
  /\ UNCHANGED <<cluster, pol, caches, pending, clock, budget, actedAt>>

ResolveNotFound ==
  /\ ResolveReads
  /\ work.obj.target # "app"
  /\ Store!Forget(work.p)
  /\ ToStatus(SetDegraded(work.obj, "TargetNotFound"), TRUE)

\* Mutant: the policy created last wins.
ConflictingNewest(p, o) ==
  \E q \in Policies \ {p} :
    cpol[q].live /\ cpol[q].target = o.target /\ LessPolicy(p, o.created, q, cpol[q].created)

\* conflictingPolicy: another listed policy for the same target comes first.
Conflicting(p, o) ==
  \E q \in Policies \ {p} :
    cpol[q].live /\ cpol[q].target = o.target /\ LessPolicy(q, cpol[q].created, p, o.created)

\* Mutant: the loser of a conflict does not ask to be called again.
ResolveConflictForGood ==
  /\ ResolveReads
  /\ work.obj.target = "app" /\ Conflicting(work.p, work.obj)
  /\ Store!Forget(work.p)
  /\ ToStatus(SetDegraded(work.obj, "ConflictingPolicy"), FALSE)

ResolveConflict ==
  /\ ResolveReads
  /\ work.obj.target = "app" /\ Conflicting(work.p, work.obj)
  /\ Store!Forget(work.p)
  /\ ToStatus(SetDegraded(work.obj, "ConflictingPolicy"), TRUE)

ResolveTarget ==
  /\ ResolveReads
  /\ work.obj.target = "app" /\ ~Conflicting(work.p, work.obj)
  /\ work' = [work EXCEPT !.pc = "pods", !.dep = cdep]
  /\ UNCHANGED store

\* List the pods and Sync the ones that are not terminating; todo keeps the
\* ready ones of the list for SetSeenReady.
SyncPods ==
  /\ work.pc = "pods"
  /\ Store!Sync(work.p, {u \in Uids : cpods[u].phase = "running"})
  /\ work' = [work EXCEPT !.pc = "decide", !.todo = {u \in Uids : cpods[u].ready}]
  /\ UNCHANGED <<cluster, pol, caches, pending, clock, budget, actedAt>>
-----------------------------------------------------------------------------
(***************************************************************************)
(* Decision and remediation.                                               *)
(***************************************************************************)

\* Mutant: the seconds are taken for clock ticks.
CooldownUnitless == Cooldown

CooldownDuration == Cooldown * Sec

\* Mutant: the stability gate is forgotten.
VerdictUngated(o, d, U, total, now) ==
  IF d.stalled THEN "RolloutStalled"
  ELSE IF U = {} THEN "AllHealthy"
  ELSE IF IsSystemic(Cardinality(U), total, SkipPercent) THEN "SystemicFailure"
  ELSE IF BreakerOpen(o.attempts, MaxAttempts, o.last, CooldownDuration, now) THEN "CircuitOpen"
  ELSE IF CooldownActive(o.last, CooldownDuration, now) THEN "Cooldown"
  ELSE "Remediate"

\* What Reconcile does with U unhealthy targets out of total, in its order.
Verdict(o, d, U, total, now) ==
  IF d.stalled THEN "RolloutStalled"
  ELSE IF U = {} THEN "AllHealthy"
  ELSE IF IsSystemic(Cardinality(U), total, SkipPercent) THEN "SystemicFailure"
  ELSE IF RequireStable /\ ~DeploymentStable(d) THEN "Unstable"
  ELSE IF BreakerOpen(o.attempts, MaxAttempts, o.last, CooldownDuration, now) THEN "CircuitOpen"
  ELSE IF CooldownActive(o.last, CooldownDuration, now) THEN "Cooldown"
  ELSE "Remediate"

\* SetSeenReady, Snapshot, and everything up to remediate.
Decide ==
  /\ work.pc = "decide"
  /\ Store!SetSeenReady(work.p, work.todo)
  /\ LET p == work.p
         U == sick[p] \cap seen'[p]         \* enforce-after-first-Ready grace
         v == Verdict(work.obj, work.dep, U, Cardinality(probed[p]), clock)
     IN \/ /\ v \in {"RolloutStalled", "SystemicFailure", "CircuitOpen"}
           /\ ToStatus(SetDegraded(work.obj, v), TRUE)
        \/ /\ v = "AllHealthy"
           /\ ToStatus(SetHealthy([work.obj EXCEPT !.attempts = 0]), TRUE)
        \/ /\ v \in {"Unstable", "Cooldown"}
           /\ ToStatus(SetRemediating(work.obj), TRUE)
        \/ /\ v = "Remediate"
           /\ work' = [work EXCEPT !.pc = "act", !.todo = U, !.acted = 0, !.now = clock]
  /\ UNCHANGED <<cluster, pol, caches, pending, clock, budget, actedAt>>

\* Mutant: the attempts left are counted, not the attempts made.
RecordedCountsDown(o, now) ==
  SetRemediating([o EXCEPT !.attempts = @ - 1, !.last = Truncate(now, Sec)])

\* The status remediate leaves in the policy; metav1.Time has whole seconds.
Recorded(o, now) ==
  SetRemediating([o EXCEPT !.attempts = @ + 1, !.last = Truncate(now, Sec)])

Acting == ChooseStrategy(Strategy, EffectiveReplicas(work.dep))

\* remediate is done: everything asked for has been called, or nothing at all
\* in a dry run.
ActDone ==
  /\ work.pc = "act"
  /\ work.obj.dry \/ (Acting = "DeletePod" /\ (work.todo = {} \/ work.acted >= MaxConcurrent))
  /\ ToStatus(Recorded(work.obj, work.now), TRUE)
  /\ UNCHANGED <<cluster, pol, caches, store, pending, clock, budget, actedAt>>

\* The API call of an action, in the books of ActionSpacing.
Logged == actedAt' = IF Unchanged(work) THEN [actedAt EXCEPT ![work.p] = clock] ELSE actedAt

\* rolloutRestart, and remediate's record of it.
ActRestart ==
  /\ work.pc = "act" /\ ~work.obj.dry /\ Acting = "RolloutRestart"
  /\ UNCHANGED <<pods, ok, pol, store, clock>>
  /\ LET patch == dep' = RestartPatched(dep, work.now) /\ Logged
     IN \/ /\ patch /\ UNCHANGED budget
           /\ ToStatus(Recorded(work.obj, work.now), TRUE)
           /\ Informed(pending)
        \/ Spend("writeError") /\ (UNCHANGED <<dep, actedAt>> \/ patch) /\ Return(TRUE)

\* One iteration of the loop over the unhealthy pods: deletePod.
ActDelete(u) ==
  /\ work.pc = "act" /\ ~work.obj.dry /\ Acting = "DeletePod"
  /\ u \in work.todo /\ work.acted < MaxConcurrent
  /\ UNCHANGED <<dep, ok, pol, store, clock>>
  /\ LET delete == pods[u].phase # "none" /\ pods' = PodDeleted(u) /\ Logged
     IN \/ /\ pods[u].phase = "none"                      \* NotFound
           /\ work' = [work EXCEPT !.todo = @ \ {u}]
           /\ UNCHANGED <<pods, actedAt, budget, caches, pending>>
        \/ /\ delete /\ UNCHANGED budget
           /\ work' = [work EXCEPT !.todo = @ \ {u}, !.acted = @ + 1]
           /\ Informed(pending)
        \/ Spend("writeError") /\ (UNCHANGED <<pods, actedAt>> \/ delete) /\ Return(TRUE)

Reconcile ==
  \/ \E p \in Policies : Begin(p)
  \/ UpdateFinalizer \/ Finish
  \/ ResolveNotFound \/ ResolveConflict \/ ResolveTarget
  \/ SyncPods \/ Decide
  \/ ActDone \/ ActRestart \/ \E u \in Uids : ActDelete(u)
-----------------------------------------------------------------------------
(***************************************************************************)
(* Lagging informers catch up; probe verdicts arrive.                      *)
(***************************************************************************)
DeliverPolicy(p) ==
  /\ cpol[p] # pol[p]
  /\ cpol' = [cpol EXCEPT ![p] = pol[p]]
  /\ UNCHANGED <<cluster, pol, cdep, cpods, store, work, clock, budget, actedAt>>
  /\ Enqueue(pending)

DeliverDeployment ==
  /\ cdep # dep
  /\ cdep' = dep
  /\ UNCHANGED <<cluster, pol, cpol, cpods, store, work, clock, budget, actedAt>>
  /\ Enqueue(pending)

\* policiesForPod drops the event when the pod's ReplicaSet is not cached.
DeliverPod(u) ==
  /\ cpods[u] # pods[u]
  /\ cpods' = [cpods EXCEPT ![u] = pods[u]]
  /\ UNCHANGED <<cluster, pol, cpol, cdep, store, work, clock, budget, actedAt>>
  /\ Enqueue(pending) \/ UNCHANGED pending

\* The prober's verdict catches up with the application; the event enqueues.
ProbeVerdict(p, u) ==
  /\ u \in sick[p] <=> u \in ok
  /\ Store!Flip(p, u)
  /\ pending' = pending \cup {p}
  /\ UNCHANGED <<cluster, pol, caches, work, clock, budget, actedAt>>

Deliver == (\E p \in Policies : DeliverPolicy(p)) \/ DeliverDeployment \/ (\E u \in Uids : DeliverPod(u))
-----------------------------------------------------------------------------
(***************************************************************************)
(* Kubernetes, applications, users, failures, time.                        *)
(***************************************************************************)
controller == <<pol, store, work, clock, actedAt>>

\* Nothing refers to the UID any more, so it can stand for a new pod.
Unused(u) ==
  /\ cpods[u].phase = "none" /\ u \notin work.todo
  /\ \A p \in Policies : u \notin probed[p]

Kubernetes ==
  /\ \/ ObserveStatus
     \/ \E u \in Uids : ControllerStep(u) \/ (Unused(u) /\ CreatePod(u, TRUE))
  /\ UNCHANGED <<controller, budget>>
  /\ Informed(pending)

Trouble ==
  /\ \/ Spend("regress") /\ \E u \in Uids : Regress(u)
     \/ Spend("recover") /\ \E u \in Uids : Recover(u)
     \/ Spend("badpod") /\ \E u \in Uids : Unused(u) /\ CreatePod(u, FALSE)
     \/ Spend("stall") /\ Stall
     \/ Spend("deploy") /\ Deploy
  /\ UNCHANGED controller
  /\ Informed(pending)

CreatePolicy(p, t) ==
  /\ Spend("createPolicy") /\ ~pol[p].live
  /\ pol' = [pol EXCEPT ![p] = [Gone EXCEPT !.live = TRUE, !.target = t, !.created = clock \div Sec]]

\* Edits of the specification.
Edit(p) ==
  /\ pol[p].live
  /\ \/ Spend("retarget") /\ \E t \in Targets \ {pol[p].target} : pol' = [pol EXCEPT ![p].target = t]
     \/ Spend("invalidate") /\ pol' = [pol EXCEPT ![p].valid = ~@]
     \/ Spend("dryRun") /\ pol' = [pol EXCEPT ![p].dry = ~@]

DeletePolicy(p) ==
  /\ Spend("deletePolicy") /\ pol[p].live /\ ~pol[p].deleting
  /\ pol' = [pol EXCEPT ![p] = IF @.fin THEN [@ EXCEPT !.deleting = TRUE] ELSE Gone]

User ==
  /\ \E p \in Policies : (\E t \in Targets : CreatePolicy(p, t)) \/ Edit(p) \/ DeletePolicy(p)
  /\ UNCHANGED <<cluster, store, work, clock, actedAt>>
  /\ Informed(pending)

\* The process dies and a new leader starts: the store is empty, the caches
\* are filled, every policy they hold is enqueued.
Crash ==
  /\ Spend("crash")
  /\ probed' = [p \in Policies |-> {}] /\ sick' = probed' /\ seen' = probed'
  /\ cpol' = pol /\ cdep' = dep /\ cpods' = pods
  /\ pending' = {p \in Policies : pol[p].live}
  /\ work' = Idle
  /\ UNCHANGED <<cluster, pol, clock, actedAt>>

Tick ==
  /\ clock < MaxTime
  /\ Prompt => dep = Observed /\ cpol = pol /\ cdep = dep /\ cpods = pods /\ work.pc = "idle"
  /\ work.pc = "act" => clock - work.now < Latency
  /\ clock' = clock + 1
  /\ UNCHANGED <<cluster, pol, caches, store, pending, work, budget, actedAt>>

\* The steps of one life of the process.
Living ==
  \/ Reconcile
  \/ Deliver
  \/ \E p \in Policies, u \in Uids : ProbeVerdict(p, u)
  \/ Kubernetes
  \/ Trouble
  \/ User
  \/ Tick

Next == Living \/ Crash

Spec == Init /\ [][Next]_vars

(***************************************************************************)
(* The worker keeps serving every queued policy, informers deliver, probes *)
(* keep running, and Kubernetes keeps reconciling its Deployment.          *)
(***************************************************************************)
Fairness ==
  /\ \A p \in Policies : SF_vars(Begin(p))
  /\ WF_vars(Reconcile /\ work.pc # "idle")
  /\ WF_vars(Deliver)
  /\ \A p \in Policies, u \in Uids : WF_vars(ProbeVerdict(p, u))
  /\ WF_vars(Kubernetes)

FairSpec == Spec /\ Fairness
-----------------------------------------------------------------------------
(***************************************************************************)
(* Properties.                                                             *)
(***************************************************************************)

(***************************************************************************)
(* Whatever crashes, stale caches, lost answers and concurrent edits do,   *)
(* two remediations recorded in the status of the same policy object are   *)
(* at least CooldownSeconds apart (cooldownActive, finish): a decision     *)
(* taken on an outdated LastRemediation is never written, though it may    *)
(* have been acted upon.                                                   *)
(***************************************************************************)
RecordedSpacing ==
  [][\A p \in Policies :
       pol'[p].attempts > pol[p].attempts /\ pol[p].last # Never
         => pol'[p].last - pol[p].last >= Cooldown * Sec]_vars

(***************************************************************************)
(* The life of a policy is the one PolicyLife allows: no probers before    *)
(* the finalizer is in the API server, no release of it before the probers *)
(* have been forgotten, and none started afterwards, although each of      *)
(* these is decided on a cached copy.                                      *)
(***************************************************************************)
LifeOf(o) ==
  IF ~o.live THEN "absent" ELSE IF o.deleting THEN "ending" ELSE IF o.fin THEN "held" ELSE "new"

Lives == [p \in Policies |-> LifeOf(pol[p])]
Probing == {p \in Policies : probed[p] # {}}

Life == INSTANCE PolicyLife WITH life <- Lives, probing <- Probing

ImplementsLife == Life!Spec

(***************************************************************************)
(* A policy that is gone has no probers left, at every instant: the        *)
(* finalizer is released after Forget, and no later Reconcile working on   *)
(* an outdated copy starts them again.                                     *)
(***************************************************************************)
NoOrphanProbers == \A p \in Policies : ~pol[p].live => probed[p] = {}

(***************************************************************************)
(* The controller never loses sight of a valid policy: it has a queue item *)
(* or a delayed one, is being reconciled, or an event for it is under way. *)
(* Otherwise its pods would be probed with nobody looking at the verdicts. *)
(***************************************************************************)
NeverForgotten ==
  \A p \in Policies :
    pol[p].live /\ pol[p].valid =>
      p \in pending \/ (work.pc # "idle" /\ work.p = p) \/ cpol[p] # pol[p]

(***************************************************************************)
(* Two actions of a policy on the cluster, measured at their API calls,    *)
(* are CooldownSeconds apart, short of the fraction of a second that       *)
(* LastRemediation.Time loses and of Latency: the cooldown is counted from *)
(* the decision, and slow API calls eat into it.  This is about calls      *)
(* whose copy of the policy is up to date (cooldownActive trusts the       *)
(* LastRemediation of a cached copy), and it needs the record of an action *)
(* to be written, with no crash, failed or unanswered call, or edit of the *)
(* policy between the two (remediate, finish).                             *)
(***************************************************************************)
Acts ==    \* the first effect of a remediate call
  work.pc = "act" /\ work.acted = 0 /\ work' # work /\ <<dep, pods>>' # <<dep, pods>>

ActionSpacing ==
  [][Acts /\ Unchanged(work) /\ actedAt[work.p] # Never
       => clock - actedAt[work.p] > (Cooldown - 1) * Sec - Latency]_vars

(***************************************************************************)
(* No action comes sooner than CooldownSeconds after the remediation the   *)
(* status of the policy records (types.go: "CooldownSeconds is the minimum *)
(* spacing between remediations").                                         *)
(***************************************************************************)
MinimumSpacing ==
  [][Acts /\ pol[work.p].last # Never => clock - pol[work.p].last >= Cooldown * Sec]_vars

(***************************************************************************)
(* hotswap does not restart a Deployment that is still replacing the pods  *)
(* of an earlier template, its own last restart above all (types.go:       *)
(* RequireStable keeps hotswap "from re-firing during its own rollout").   *)
(* Only a template that appears between the read of the Deployment and the *)
(* patch, which names no resourceVersion, may be overtaken.                *)
(***************************************************************************)
NoRestartDuringRollout ==
  [][dep'.stamp # dep.stamp => \A u \in Running : pods[u].rev >= work.dep.rev]_vars

(***************************************************************************)
(* With more than one replica some pod is always running: hotswap "never   *)
(* deletes every replica simultaneously" (types.go, MaxConcurrent).  It    *)
(* needs Prompt: a Deployment status slower than the cooldown leaves the   *)
(* stability gate open, for a deletion changes no generation.              *)
(***************************************************************************)
SomeReplicaRuns == Replicas > 1 => Running # {}

(***************************************************************************)
(* Once users leave the policies alone, exactly the first of the policies  *)
(* for the Deployment probes its pods: a loser that was probing stops, and *)
(* the survivor takes over by itself when the winner goes away or is       *)
(* pointed elsewhere, which no watch tells it (conflictingPolicy; only     *)
(* RequeueAfter brings the loser back).                                    *)
(***************************************************************************)
First(p) ==
  \A q \in Policies \ {p} :
    pol[q].live /\ pol[q].target = pol[p].target => LessPolicy(p, pol[p].created, q, pol[q].created)

OneGuardian ==
  <>[](\A p \in Policies :
         pol[p].live /\ pol[p].valid => (probed[p] # {} <=> pol[p].target = "app" /\ First(p)))

(***************************************************************************)
(* A policy marked for deletion does go away: whatever it is pointed at,   *)
(* however broken its probe, and however old the copies Reconcile works    *)
(* on, the finalizer is released in the end, so that no policy stays       *)
(* marked once users leave them alone.                                     *)
(***************************************************************************)
DeletionCompletes == <>[](\A p \in Policies : ~pol[p].deleting)

(***************************************************************************)
(* A guarded pod that was ready and whose application stops answering is   *)
(* replaced, unless it recovers (README: "when a running pod fails a       *)
(* health check, hotswap surges a fresh replacement and retires the old    *)
(* one").  A pod that fails while its policy is cooling down has to wait   *)
(* for the clock, whose progress nothing here assumes.                     *)
(***************************************************************************)
Cooling(p) == CooldownActive(pol[p].last, CooldownDuration, clock)

RegressedReplaced ==
  \A u \in Uids :
    (\E p \in Policies : u \in seen[p] /\ ~Cooling(p)) /\ u \in Running \ ok ~> u \notin Running \ ok

(***************************************************************************)
(* ConsecutiveAttempts goes back to zero only when some target answers its *)
(* probe (types.go: the breaker counts remediations "without recovery").   *)
(***************************************************************************)
ResetMeansRecovery ==
  [][\A p \in Policies :
       pol'[p].live /\ pol'[p].attempts < pol[p].attempts => Running \cap ok # {}]_vars
=============================================================================
