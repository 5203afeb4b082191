# hotswap-operator in TLA+

A verification development for `hotswap-operator`: TLA+ modules of its prober, its
reconciler and the part of Kubernetes they see, TLC configurations that check them on
small instances, and TLAPS proofs of what holds for every instance.

## The system

A `HotSwapPolicy` names a Deployment and an HTTP probe. The operator (one elected
leader) probes the Deployment's pods itself and, when a pod that has been ready stops
answering, replaces it: by a rolling restart (one replica) or by deleting the pod.

| part | state | operations | where the difficulty is |
|---|---|---|---|
| prober `Manager` (`internal/prober/prober.go`) | `policies` (per policy: config, per pod: verdict, counters, `SeenReady`, IP, cancel function), event channel, root context | `Sync`, `SetSeenReady`, `Snapshot`, `Forget`, `Start`; `run`/`probeOnce`/`record` in one goroutine per pod | the probe runs between two critical sections; entries and configurations are replaced under it; a full channel; cancellation |
| HTTP checker (`internal/prober/checker.go`) | none | `Probe` | none: one request |
| reconciler (`hotswappolicy_controller.go`) | none of its own: the policy's status, the informer caches, the prober's store | `Reconcile`, `remediate`, `conflictingPolicy`, `finish`, the watch handlers | stale caches, conflicting or lost writes, a crash between the action and its record, two policies for one Deployment |
| decisions (`logic.go`) | none | `deploymentStable`, `chooseStrategy`, `isSystemic`, `breakerOpen`, `cooldownActive`, `normalizeProbe`, ... | boundaries; what the gates mean together |
| API types (`api/v1alpha1`) | spec and status | defaults and validation in the API server | a zero that is omitted and defaulted again |
| metrics (`internal/metrics`) | gauges, counters | set and incremented by the two above | gauges that outlive what they describe |
| wiring (`cmd/main.go`) | flags, leader lease | builds the manager, starts both | a lost lease ends the process |
| Kubernetes (external) | Deployment, pods, API objects | controllers, kubelet, API server, users | everything is asynchronous |

They interact in five ways: the reconciler calls the prober's methods (under its mutex);
the prober enqueues the policy through a channel when a verdict flips; watches enqueue
policies when the caches receive a policy, a Deployment or a pod; the reconciler reads
through those caches; and it writes to the API server, where a `resourceVersion` guards
the policy's updates but nothing guards the patch of the Deployment or a pod deletion.

What makes each part correct: *prober*: exactly one live goroutine per probed pod, the
verdict is the one the thresholds define, a stopped prober is without effect and ends.
*Reconciler*: actions and recorded remediations are spaced, no restart during a
rollout, some replica always runs, exactly one policy guards a Deployment, a deleted
policy leaves no probers and does go away, no policy is lost, a regressed pod is
replaced.
*Decisions*: the gates have the boundaries the documentation gives them. *Checker and
configuration*: the verdict is the kubelet's for the probe as written. *API*: the settings
in force are the ones the manifest and the documented defaults give. *Metrics*: the gauges
and the status say the same.

`PROJECT.json` lists the parts that are left out (generated code, manifests, tests) and,
under `hazards`, each place of the code that is hard to test with the
property that watches it, or why none does yet.

## Modules

| module | models | proofs |
|---|---|---|
| `ProbeRecord` | `record` and `podEntry`, as operators | |
| `ProbeConfig` | `normalizeProbe` and `HTTPChecker.Probe`, as operators | |
| `Hysteresis` | one pod under one probe as written, its entry next to all its probes met | `HysteresisProofs` |
| `ProbeStore` | what the `Manager` promises the reconciler (`ProbeSource`) | |
| `Prober` (`MCProber`) | the `Manager` with its goroutines, step by critical section | `ProberProofs` |
| `Decision` | the decision helpers of `logic.go` and `lessPolicy` | `DecisionProofs` |
| `Cluster` | a Deployment and its pods (external) | |
| `Reconciler` (`MCReconciler`) | `Reconcile` with caches, queue, users, faults; extends `Cluster` and `Decision`, uses `ProbeStore` | `ReconcilerProofs`, `ReconcilerSafety`, `ReconcilerPolicies`, `RemediationProofs` |
| `PolicyLife` | what the finalizer promises about a policy and its probers; `Reconciler` implements it | `ReconcilerPolicies` |
| `Metrics` (`MCMetrics`) | the gauges, next to the `Reconciler` that sets them (extends it) | `RemediationProofs` |
| `PolicySpec` | `spec.remediation` from the manifest to the settings in force | `PolicySpecProofs` |

**Prober.** `<<p, u, n>>` is the n-th goroutine started for a pod; `starts` tells which of
them the entry's cancel function belongs to. `pc` follows `run` and `probeOnce`:
`spawned` (the goroutine has not locked yet), `delay`, `read` (first critical section),
`probing` (the HTTP request), `emit` (the select on the channel), `wait` (the select on
the ticker). `cancelled` are the goroutines whose context is done: it is a set of its own
because cancelling does not stop a goroutine, it only lets it stop. Counters saturate at
`CountCap`, which is at least every threshold: beyond, values are only compared and
behave alike. A probe answers either way unless the pod had no IP or the context was
done when it was sent.

**ProbeStore and Reconciler.** The reconciler is checked over the abstract store
(`probed`, `sick`, `seen`), and `Prober` is shown to implement that store
(`ImplementsStore`: `sick` is the set of probed pods whose entry is unhealthy). What the
store leaves open (a verdict may flip at any time) covers what the goroutines do, the
stale recording of the finding below included; `Reconciler` restricts it to verdicts that
follow the application.

**Reconciler.** `work` is the `Reconcile` call in progress (one worker), `work.pc` the next
read, decision or API call: `finalizer` (`r.Update`), `resolve` (Deployment and conflicts),
`pods` (list and `Sync`), `decide` (`SetSeenReady`, `Snapshot` and all decisions),
`act` (one patch or one deletion per step), `status` (`finish`). `base` is the copy that
was read, `obj` the copy being changed. `cpol`, `cdep`, `cpods` are the informer caches;
those in `Lagging` follow by their own `Deliver` steps, the others at once. `pending` is
the work queue, ready and delayed items alike: `RequeueAfter` is an item that may be taken
at any time. A write succeeds when the policy still equals `base`; this is more permissive
than a `resourceVersion` when an object changes and changes back, which can only add
behaviours. A write may also fail, with or without effect (`writeError`). The conditions
`Healthy`, `Remediating`, `Degraded` always move together, so `cond` is their reason.
`clock` counts ticks, `Sec` of them a second: `LastRemediation.Time` and the restart
annotation are whole seconds. `Latency` is the number of ticks the API calls of a remediation may
take from its decision (`now`, taken before them) to the last of them; with `Latency` at
`MaxTime` or above nothing is constrained. `actedAt` is kept for one property only: the time of the
latest API call that acted for a policy on an up-to-date copy of it. `Crash` is the end of the process or a lost lease and
the start of the next leader. A step that the code takes without releasing anything others
could see (reading the caches one after the other in `resolve`, `SetSeenReady` then
`Snapshot`) is one step where nothing in between could tell the difference.

**PolicyLife.** A policy is absent, new, held (it has the finalizer) or ending, and somebody
probes for it or not. Probers start only for a held or an ending policy, and an ending one is
released only when nobody probes for it. `ImplementsLife` maps `Reconciler`'s policies and
store to it.

**Metrics.** `Decide` is the step that sets the gauges, before the status write. They
are in memory, so the module follows one life of the process (`Living`). `GaugesAgree`
relates them to the status that is written a step later.

**PolicySpec.** An optional field is a set of at most one value. `Defaulted` is the API server's
defaulting, `Encoded` and `Decoded` the way through the Go struct, with its zero values and
`omitempty`, that `r.Update` takes when it adds the finalizer, and `InForce` the fallbacks of
`Reconcile`. Status updates do not touch the specification.

**ProbeConfig and Hysteresis.** A probe meets a status, a delay, or nothing at all; `Hysteresis`
compares the verdict with the kubelet's documented semantics of the probe as it was written,
defaults included. (`checker.go:45` calls a "non-2xx status" not healthy; the code, its
other comments and the model take 2xx and 3xx.)

**Cluster.** A template revision, the status the Deployment controller last wrote (observed
revision, counts, `ProgressDeadlineExceeded`), pods with phase, revision and readiness, and
the set `ok` of pods whose application answers. Rolling updates surge by one and retire an
old pod when enough others are ready. `ReadinessTracksProbe` says whether the readiness
probe fails with the hotswap probe or is independent of it.

## Runs

| run | instance | shows |
|---|---|---|
| `hysteresis` | thresholds and timeout written as 0..2, up to 6 probes, four shapes of probe, five outcomes per request | defaults, status codes, timeouts and counters give the declarative verdict `VerdictMatchesHistory` |
| `prober_life` | 1 policy, 1 pod started twice, 2 configurations, channel of 1 | one live prober per pod, verdicts not overdue, stopped goroutines end, the store is implemented |
| `prober_stale` | 1 pod started twice | **violation** of `StoppedProbersAreSilent` |
| `reconciler_restart` | 1 replica, 2 UIDs, lagging policy cache, regressions, bad pods, deploys, edits, crashes, lost and conflicting writes | no restart into a rollout, recorded remediations are spaced |
| `reconciler_delete` | 3 replicas, 4 UIDs, two deletions at a time, `Prompt`, gauges | some replica runs, actions are spaced, gauges agree with the status |
| `reconciler_outdated` | 3 replicas, lagging policy cache, two regressions, `Prompt` | **violation** of `MinimumSpacing` |
| `reconciler_guardians` | 2 policies, lagging policy cache, user edits, crashes | one guardian in the end, no policy forgotten, no orphan probers, deletions complete, `PolicyLife` is implemented |
| `reconciler_replaced` | Deployment and pod caches lag, crashes, stalls, recoveries | a regressed pod is replaced |
| `policy_zero` | every combination of settings written or not | **violation** of `SettingsAsDocumented` |
| `reconciler_unready` | readiness follows the probe | **violation** of `RegressedReplaced` |
| `reconciler_unrecorded` | 2 replicas, `Prompt`, crashes and lost answers | **violation** of `SomeReplicaRuns` |
| `reconciler_reset` | a bad replacement | **violation** of `ResetMeansRecovery` |

**Bounds.** `MaxStarts` (goroutines per pod), `Capacity` (event channel), `CountCap`,
`MaxHistory` and `MaxThreshold` in the prober; `Budget` (how many disturbances a behaviour
has), `MaxTime` (the clock) and the sets `Uids` and `Policies` in the reconciler. One pod
started twice has every way an old goroutine can meet a new entry; two policies have every
way to conflict; the UIDs are the replicas plus the one a rollout surges by (a UID is used
again when nothing refers to it any more). Three replicas are the fewest of which two can be
deleted at once and one be left, since the systemic valve stops at all of them. A `Budget`
of two or three admits what a property needs several of: two regressions, or a deletion, a
new creation and a crash. `MaxTime` covers at least one whole cooldown where spacing is
checked and is 0 or 1 where time plays no part; a `Sec` of 2
gives the clock the fraction of a second that `Truncate` cuts off. `reconciler_delete`,
`reconciler_restart`, `reconciler_outdated` and `reconciler_unrecorded` explore the pods up to renaming (`PodSymmetry`), which is sound
for their safety properties: no step and no property tells two UIDs apart. `PolicySpec`
writes one number per field besides a cooldown of 0, which are all its steps tell apart.
The seconds of
`Cooldown` are scaled down to one or two. Behaviours stop when the bounds are used up, so runs
whose instance can really come to rest say `CHECK_DEADLOCK FALSE`.

**Fairness.** Prober: goroutines are scheduled (`WF(GoStep)`), the controller drains the
channel (`WF(Drain)`, until shutdown), and `select` does not neglect `ctx.Done()` for ever
when both cases stay ready, since Go picks among ready cases at random (`SF(WaitDone)`).
Reconciler: the call in progress goes on (API calls return), every queued policy is taken
again and again (`SF` per policy: the work queue is first in, first out, and delayed items
come due), informers deliver, probes run, Kubernetes acts. Users, crashes, regressions,
lost writes and time have no fairness.

Some properties hold under conditions only, and the instances say so:

- `SomeReplicaRuns` needs `Prompt` (each tick waits until the Deployment status, the caches and
  the call in progress are done). Without it the second of two replicas is deleted when the
  cooldown ends before the Deployment's status has changed: a pod deletion does not change
  the generation, so `deploymentStable` goes on trusting the old status, and `isSystemic` is
  off with one target left. It also needs every deletion to be recorded.
- `ActionSpacing` is about actions decided on an up-to-date copy of the policy. The cached copy need
  not be: a `Reconcile` on an outdated `LastRemediation` acts within the cooldown without any
  fault, and only its status write is rejected (`reconciler_outdated`). Dropping the condition
  from either of the two actions violates the property. It also needs
  the first action to be recorded: after a crash, a lost answer, or an edit of the policy
  between the action and the status write, the next call finds no `LastRemediation` of it and acts within
  the cooldown; `reconciler_unrecorded` shows what that can lead to. It measures API calls, not
  decisions, and the spacing is short of the cooldown by up to `Latency` and a fraction of a
  second, because the cooldown is counted from the decision, cut to whole seconds. `reconciler_delete`
  checks it where the caches follow and calls are answered within a tick; that it holds under any lag
  and any `Latency` is the theorem `ActionsSpaced`. The recorded remediations stay spaced in any case
  (`RecordedSpacing`).
- `NoRestartDuringRollout` compares with the template that was read: the patch names no
  `resourceVersion`, so a deploy in between is restarted over.
- `RegressedReplaced` speaks of a pod that fails while its policy is not cooling down, since
  nothing makes the clock advance, and of a readiness probe that is independent of the
  hotswap probe. With a crash in between the pod earns `SeenReady` again because it is still
  ready; a pod that is unready as well does not, and is not replaced even with the gate off.
- `GaugesAgree` likewise needs a process that lives and writes that succeed. It says nothing of
  policies that are gone or have lost a conflict: no series is ever deleted. `hotswap_circuit_open` may also read 1 after its
  window is over, until the next `Reconcile` that finds nothing unhealthy.

## What the violations show

- `prober_stale`: `probeOnce` finds the entry by UID again after the probe. A pod that is
  forgotten and synced again meanwhile has a new entry, and the cancelled prober (whose
  request the cancellation makes fail) writes its result there.
- `reconciler_unready`: `deploymentStable` counts available replicas, so an unhealthy pod
  that is also unready closes the gate by itself and is never replaced.
- `reconciler_unrecorded`: a deletion is carried out but `remediate` gets an error, and returns
  it before anything is recorded. The retry finds one target of two (the terminating pod is
  left out), for which the systemic valve is off, a Deployment status that still looks
  stable, and no cooldown: it deletes the last replica.
- `reconciler_outdated`: a pod is deleted and recorded, and the next `Reconcile`, which the verdict
  on a second pod enqueues, is served the policy from before the status update. It sees no `LastRemediation`, a
  Deployment status that has not changed yet (nor has the generation), and deletes the second pod
  within the same tick. The `resourceVersion` keeps its record out, not its deletion.
- `policy_zero`: adding the finalizer writes the whole object; a `cooldownSeconds` of 0 is
  omitted, and the API server fills in 600. (A block removed later meets the opposite: nothing
  fills it in, and cooldown and valve are off.)
- `reconciler_reset`: a replacement is assumed healthy when it is first listed, so the
  attempts return to 0 although nothing has recovered, and the breaker is never reached.

## Proofs

`ProberProofs` (for any number of policies, pods, configurations, starts and any channel
capacity): `TypeCorrect`; `OneProberPerPod`, by the invariant `Ownership` (the goroutine a
live entry owns is born and not cancelled, every other one is unborn or cancelled or done,
and the numbers started never run ahead); `VerdictsTimely`; and
`ManagerImplementsStore`, the refinement: every step of a goroutine is a stutter of the
store or flips one verdict.

`ReconcilerProofs`: `TypeCorrect`, one lemma per action.

`ReconcilerSafety` and `ReconcilerPolicies` hold for every set of lagging caches
and any amount of trouble. They rest on `StepShape`: seen from the policies, their cached
copies, the probers and the call in progress, every step is one of a few (a call starts from
the cached copy, advances, writes, ends; a user edits; something unrelated).

- `ProbersReleased`: `NoOrphanProbers`. Not inductive, because a `Reconcile` on an old copy
  could `Sync` after the policy is gone. `Release` adds why it does not: a cached copy
  that is live, holds the finalizer and is not being deleted implies that the object
  still holds the finalizer (`CacheHeld`); a call between `resolve` and `pods` works for such an object
  (`WorkHeld`); and while a finalizer is being released no such copy is cached, because
  the release is computed from a copy marked for deletion.
- `RecordsSpaced`: `RecordedSpacing`, for a `Cooldown` above 0. `Spacing` says that what the call is about to write is
  spaced from the copy it read, which the API server compares with the object. That
  cutting a time to whole seconds loses none of the spacing (`TruncateSpaced`) needs that
  recorded times are whole seconds themselves.
- `FinalizerProtocol` (`ReconcilerPolicies`): `ImplementsLife`, the refinement of `PolicyLife`. The
  initial states map to initial states; with `Release`, each shape of a step maps to one
  action of `PolicyLife` or to a stutter, a call that writes being the case that matters: it
  can only write what its copy allows, because the API server compares the copy.
- `PoliciesWatched` (`ReconcilerPolicies`): `NeverForgotten`. Not inductive, because it says nothing
  of the copy a call works on. `Watched` adds why a policy may be out of the queue at all
  (`Quiet`: its cached copy is gone or invalid, or is the last one of an object whose
  finalizer has been released) and that a call whose policy is not queued again meanwhile
  works on the copy that is still cached. `DeletingHeld` is the API server's part: an object is
  marked for deletion only while it has a finalizer.

`RemediationProofs` is about what remediation does to the cluster and says about it, for every
number of pods, replicas and policies and all settings. Its theorems hold under conditions, the
ones listed above under the runs, stated on the constants `Lagging`, `Disturbances`, `Prompt` and
`Cooldown`; the configurations of `reconciler_restart` and `reconciler_delete` satisfy them.

- `RestartsWait`: `NoRestartDuringRollout` with the gate on and a Deployment
  that is not read from an outdated cache (a stale read can open the gate on a rollout). The
  status the gate trusts may itself be old; `Settled` says why it is good enough: a status for
  the current generation that counts as many updated pods as pods was written when no older
  pod was left, pods are only made from the current template, and so none has come back; the
  same holds of the copy a call has read, for its revision.
- `ActionsSpaced`: `ActionSpacing`, for every `Lagging`, every `Latency` and a `Cooldown` above 0, if
  nothing comes between an action and its record (`Recording`: no write fails, nobody edits or
  deletes a policy; and no crash). All caches may lag, policies may be created, pods and
  Deployment may have any trouble. The property relates two actions, of which the second
  knows only the status: `Accounted` says that the latest action on an up-to-date copy is dated in
  the status, or in the record a call holds whose copy is still the object, or is the one such
  a call is carrying out (`Paced` bounds how late). Calls on outdated copies come and go in between;
  what they write is rejected. `Spacing` says that a new record never dates an action earlier
  than the old one did.
- `GaugesRight`: `GaugesAgree`, if `Undisturbed` (`Recording`, and the policy cache is up to date), for
  `MeteredSpec`. `InStep` says that every call then works on the policy as it is. The property speaks of an idle
  worker; `Metered` says what holds while a call is in progress and the gauges are ahead of the
  status. That the count of healthy targets is smaller when one has regressed needs that the
  store has verdicts of probed pods only (`StoreSound`).
- `ReplicasKept`: `SomeReplicaRuns`, if `Unattended`: `Undisturbed`, no crash, no policy created and no
  new template, `Prompt`, the gate on, and a cooldown and a valve above 0. The caches of Deployment and pods may lag within a
  tick, and `MaxConcurrent` and the number of failing pods are unlimited. Under
  `RolloutRestart` no condition is needed at all (`RestartsKeepPods`). Otherwise all of what a call believes may be
  wrong right after a deletion: the status, the list of pods and the copies read before. `Manned`
  says that each of these is right *or the leading policy has acted in this tick*, and in the
  second case `Accounted` and the cooldown keep it from acting again (`CoolingDown`). So a call that
  acts sees the truth, at least `Replicas` pods run, and `isSystemic` or the number of targets leaves one of
  them out of its list (`OneIsSpared`, from `AllUnhealthyIsSystemic`); from then on every deletion takes a pod of
  the list (`Running \ work.todo` is not empty). `Guardians` says that only one policy ever
  decides, the first. Each condition on disturbances and lag is needed: with any one of them dropped (any single kind of
  edit, error or lag it excludes admitted) TLC finds an empty Deployment of two replicas. A
  template rolled out meanwhile retires the pod the decision spares; a policy created in
  the same second takes over from the one that has just acted, whose record it does not share;
  an edit makes the status write conflict, and the record is lost.

`HysteresisProofs`: `VerdictIsRight`, `VerdictMatchesHistory` for all thresholds and histories. The
verdict is not inductive by itself: `Remembers` adds what the counters mean, the length of
the last run of failures or successes up to `CountCap`, bounded by an opposite result or the
beginning of the history. The history is treated as the set of the positions that were answered
(`Up`), so that one more probe adds one element and no induction over sequences is needed.

`PolicySpecProofs`: `SettingsSurvive`: `SettingsKept` for all numbers users may write
(`WrittenNumbers`): every setting a manifest gives is in force, or its documented default, but for the
cooldown of zero of `policy_zero` and a block removed after adoption. No run checks it. `Faithful` is
the block in the API server field by field: missing like the manifest's, or with the documented
value in every field, but for a cooldown of 0 that has been defaulted.

`DecisionProofs`: `BreakerAddsNothing` (the breaker suppresses nothing the cooldown would
not: `maxConsecutiveAttempts` changes what is reported, not what is done),
`AllUnhealthyIsSystemic`, `SystemicIsMonotonic`, `PolicyOrder`.

Assumptions: `ClusterAssumption`, `PolicyAssumption`, `EnvironmentAssumption`,
`ConfigAssumption`, `BoundAssumption`, on the constants only. They admit every value a setting can have in force: `Cooldown` and
`SkipPercent` may be 0, which turns the spacing gates and the systemic valve off (the API admits a
cooldown of 0, and both are 0 when the `remediation` block is removed from an adopted policy, see
`PolicySpec`). `RecordsSpaced`, `ActionsSpaced` and `ReplicasKept` assume a `Cooldown` above 0,
`ReplicasKept` a `SkipPercent` above 0 as well.

The inductive invariants (`Ownership`, `Release`, `Spacing`, `Watched`, `Settled`, `InStep`, `Accounted`, `Paced`,
`Metered`, `Guardians`, `Manned`, `Remembers`, `Faithful`) were checked with TLC on the instances of the runs, and on
smaller ones with more lag and `Latency`, before they were proved.

Only model-checked: liveness (`OneGuardian`, `DeletionCompletes`, `RegressedReplaced`,
`StoppedProbersExit`), which needs fairness and `ENABLED` and is out of the prover's reach. Every safety
property a passing run checks is a theorem as well.

## Not modelled

- Events, log messages, the `Targets` list of the status and the three counters: nothing in the
  program reads them back.
- Paths, schemes, headers and TLS of a probe; probe periods and delays as durations.
- An invalid label selector (the API server admits none), and the fields of a policy that
  only pass through.
- Scaling of the Deployment, and its deletion and creation under the same name. A scale-down
  that races a pod deletion can always empty a Deployment, and nothing is promised about it;
  a target that is missing is covered by a policy pointed elsewhere (`TargetNotFound`).
- Edits of the remediation settings under way, but for `dryRun`: every decision reads them
  from the copy it works on, so the constants stand for one such copy.
- Two leaders at a time: leader election ends a process that has lost its lease.
- Generated deep copies, manifests, build files and tests. `NewManager`'s comment speaks of a
  transition that may be dropped; the send blocks, and `Prober` models that.

## Plan

1. *Done*: `ProbeRecord`, `Hysteresis`, `ProbeStore`, `Prober` and its proofs.
2. *Done*: `Decision`, `Cluster`, `Reconciler`, type correctness, the two safety theorems.
3. *Done*: several deletions at a time, lost answers half way, deletion of invalid policies;
   `ProbeConfig` and the checker; `PolicySpec`; `Metrics`; `PolicyLife` and its refinement;
   `NeverForgotten` and `NoRestartDuringRollout` as theorems.
4. *Done*: `SettingsKept`, `VerdictMatchesHistory`, `ActionSpacing`, `GaugesAgree` and `SomeReplicaRuns` as
   theorems, each with its inductive invariant.
5. Next: the safety half of `OneGuardian` (two policies that both decide never act on the same
   Deployment while the caches are up to date), and `SomeReplicaRuns` for policies created after
   the first second, whose creation time orders them behind the leader.
