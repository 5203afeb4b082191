-------------------------- MODULE ReconcilerProofs --------------------------
(***************************************************************************)
(* What the reconciler guarantees for every number of policies and pods,   *)
(* every remediation setting, every set of lagging caches and every amount *)
(* of trouble: its types.                                                  *)
(***************************************************************************)
EXTENDS Reconciler, FiniteSetTheorems, TLAPS

-----------------------------------------------------------------------------
(***************************************************************************)
(* Types.                                                                  *)
(***************************************************************************)
LEMMA GoneType == Gone \in Policy
  BY DEF Gone, Policy, Targets, Conditions, Never

LEMMA IdleType == Idle \in Work /\ Idle.p \in Policies
<1>1. (CHOOSE p \in Policies : TRUE) \in Policies
  BY PolicyAssumption
<1>2. [rev |-> 0, obs |-> 0, stamp |-> -1, spec |-> 0, replicas |-> 0, updated |-> 0,
       available |-> 0, unavailable |-> 0, stalled |-> FALSE] \in Deployment
  BY DEF Deployment
<1> QED
  BY <1>1, <1>2, GoneType DEF Idle, NoWork, Work, PCs

\* The counts a status reports are natural numbers.
LEMMA CountType ==
  ASSUME NEW S \in SUBSET Uids
  PROVE  Cardinality(S) \in Nat
  BY ClusterAssumption, FS_Subset, FS_CardinalityType

LEMMA ConditionTypes ==
  ASSUME NEW o \in Policy, NEW r \in Conditions
  PROVE  SetHealthy(o) \in Policy /\ SetRemediating(o) \in Policy /\ SetDegraded(o, r) \in Policy
  BY DEF SetHealthy, SetRemediating, SetDegraded, Policy, Conditions

LEMMA InformedType ==
  ASSUME TypeOK, NEW Q \in SUBSET Policies, Informed(Q),
         pol' \in [Policies -> Policy], dep' \in Deployment, pods' \in [Uids -> Pod]
  PROVE  /\ cpol' \in [Policies -> Policy] /\ cdep' \in Deployment /\ cpods' \in [Uids -> Pod]
         /\ pending' \subseteq Policies
  BY DEF TypeOK, Informed, Enqueue, Watchers

LEMMA ReturnType ==
  ASSUME TypeOK, NEW again \in BOOLEAN, Return(again),
         pol' \in [Policies -> Policy], dep' \in Deployment, pods' \in [Uids -> Pod]
  PROVE  /\ cpol' \in [Policies -> Policy] /\ cdep' \in Deployment /\ cpods' \in [Uids -> Pod]
         /\ pending' \subseteq Policies
         /\ work' \in Work
<1>1. work.p \in Policies
  BY DEF TypeOK, Work
<1>2. (IF again THEN pending \cup {work.p} ELSE pending) \in SUBSET Policies
  BY <1>1 DEF TypeOK
<1> QED
  BY <1>2, InformedType, IdleType DEF Return

LEMMA SpendType ==
  ASSUME TypeOK, NEW k, Spend(k)
  PROVE  budget' \in 0..Budget
  BY EnvironmentAssumption DEF Spend, TypeOK

LEMMA StatusType ==
  ASSUME TypeOK, NEW o \in Policy, NEW again \in BOOLEAN, ToStatus(o, again)
  PROVE  work' \in Work
  BY IdleType DEF ToStatus, TypeOK, Work, PCs

LEMMA StoreSyncType ==
  ASSUME Store!StoreTypeOK, NEW p \in Policies, NEW T \in SUBSET Uids, Store!Sync(p, T)
  PROVE  Store!StoreTypeOK'
  BY DEF Store!StoreTypeOK, Store!Sync

LEMMA StoreForgetType ==
  ASSUME Store!StoreTypeOK, NEW p \in Policies, Store!Forget(p)
  PROVE  Store!StoreTypeOK'
  BY DEF Store!StoreTypeOK, Store!Sync, Store!Forget

LEMMA StoreSame ==
  ASSUME Store!StoreTypeOK, UNCHANGED store
  PROVE  Store!StoreTypeOK'
  BY DEF Store!StoreTypeOK, store

LEMMA ClusterSame ==
  ASSUME ClusterTypeOK, UNCHANGED cluster
  PROVE  ClusterTypeOK'
  BY DEF ClusterTypeOK, cluster

LEMMA InitType == Init => TypeOK
<1> SUFFICES ASSUME Init PROVE TypeOK
  OBVIOUS
<1>1. ClusterTypeOK
  <2> DEFINE up == CHOOSE S \in SUBSET Uids : Cardinality(S) = Replicas
  <2>1. pods = [u \in Uids |-> IF u \in up THEN [phase |-> "running", rev |-> 0, ready |-> TRUE] ELSE NoPod]
        /\ ok = up
    BY DEF Init, ClusterInit
  <2>2. up \subseteq Uids
    <3>1. \E S \in SUBSET Uids : Cardinality(S) = Replicas
      BY ClusterAssumption
    <3> QED
      BY <3>1
  <2>3. dep \in Deployment
    BY ClusterAssumption DEF Init, ClusterInit, Deployment
  <2> HIDE DEF up
  <2> QED
    BY <2>1, <2>2, <2>3 DEF ClusterTypeOK, NoPod, Pod, Phases
<1>2. pol \in [Policies -> Policy]
  BY GoneType DEF Init, Policy
<1>3. Store!StoreTypeOK
  BY DEF Init, Store!StoreInit, Store!StoreTypeOK
<1>4. pending \subseteq Policies /\ work \in Work /\ clock \in 0..MaxTime /\ budget \in 0..Budget
      /\ actedAt \in [Policies -> Int]
  BY PolicyAssumption, EnvironmentAssumption, IdleType DEF Init, Never
<1> QED
  BY <1>1, <1>2, <1>3, <1>4 DEF Init, TypeOK, ClusterTypeOK
-----------------------------------------------------------------------------
\* A step that only moves the Reconcile call in progress and the store.
LEMMA WorkStepType ==
  ASSUME TypeOK, work' \in Work, Store!StoreTypeOK', pending' \subseteq Policies,
         UNCHANGED <<cluster, pol, caches, clock, budget, actedAt>>
  PROVE  TypeOK'
<1>1. ClusterTypeOK'
  BY ClusterSame DEF TypeOK
<1> QED
  BY <1>1 DEF TypeOK, caches

LEMMA BeginType ==
  ASSUME TypeOK, NEW p \in Policies, Begin(p)
  PROVE  TypeOK'
<1>1. pending' \subseteq Policies /\ UNCHANGED <<cluster, pol, caches, clock, budget, actedAt>>
  BY DEF Begin, BeginGone, BeginDeletion, BeginAdoption, BeginInvalid, BeginGuarding, Take, TypeOK
<1>2. cpol[p] \in Policy
  BY DEF TypeOK
<1>3. ASSUME NEW o \in Policy, NEW l \in PCs, StartWork(p, l, o)
      PROVE  work' \in Work
  BY <1>2, <1>3, IdleType DEF StartWork, Work
<1>4. /\ [cpol[p] EXCEPT !.fin = FALSE] \in Policy
      /\ [cpol[p] EXCEPT !.fin = TRUE] \in Policy
      /\ SetDegraded(cpol[p], "InvalidProbe") \in Policy
  BY <1>2 DEF Policy, SetDegraded, Conditions
<1>5. work' \in Work
  <2>1. CASE BeginGone(p)
    BY <2>1 DEF BeginGone, TypeOK
  <2>2. CASE BeginDeletion(p)
    BY <2>2, <1>3, <1>4 DEF BeginDeletion, PCs
  <2>3. CASE BeginAdoption(p)
    BY <2>3, <1>3, <1>4 DEF BeginAdoption, PCs
  <2>4. CASE BeginInvalid(p)
    BY <2>4, <1>3, <1>4 DEF BeginInvalid, PCs
  <2>5. CASE BeginGuarding(p)
    BY <2>5, <1>2, <1>3 DEF BeginGuarding, PCs
  <2> QED
    BY <2>1, <2>2, <2>3, <2>4, <2>5 DEF Begin
<1>6. UNCHANGED store \/ Store!Forget(p)
  BY DEF Begin, BeginGone, BeginDeletion, BeginAdoption, BeginInvalid, BeginGuarding
<1>7. Store!StoreTypeOK'
  BY <1>6, StoreSame, StoreForgetType DEF TypeOK
<1> QED
  BY <1>1, <1>5, <1>7, WorkStepType

LEMMA WritePolicyType ==
  ASSUME TypeOK, NEW o \in Policy, NEW again \in BOOLEAN, WritePolicy(o, again)
  PROVE  TypeOK'
<1>1. pol' \in [Policies -> Policy]
  BY DEF WritePolicy, TypeOK
<1>2. UNCHANGED cluster /\ UNCHANGED store /\ UNCHANGED <<clock, actedAt>>
  BY DEF WritePolicy
<1>3. ClusterTypeOK' /\ Store!StoreTypeOK'
  BY <1>2, ClusterSame, StoreSame DEF TypeOK
<1>4. budget' \in 0..Budget
  <2>1. budget' = budget \/ Spend("writeError")
    BY DEF WritePolicy
  <2> QED
    BY <2>1, SpendType DEF TypeOK
<1>5. Return(again) \/ Return(TRUE)
  BY DEF WritePolicy
<1>6. dep' \in Deployment /\ pods' \in [Uids -> Pod]
  BY <1>3 DEF ClusterTypeOK
<1>7. /\ cpol' \in [Policies -> Policy] /\ cdep' \in Deployment /\ cpods' \in [Uids -> Pod]
      /\ pending' \subseteq Policies /\ work' \in Work
  BY <1>1, <1>5, <1>6, ReturnType
<1> QED
  BY <1>1, <1>2, <1>3, <1>4, <1>7 DEF TypeOK

LEMMA ResolveType ==
  ASSUME TypeOK, ResolveNotFound \/ ResolveConflict \/ ResolveTarget
  PROVE  TypeOK'
<1>1. pending' \subseteq Policies /\ UNCHANGED <<cluster, pol, caches, clock, budget, actedAt>>
  BY DEF ResolveNotFound, ResolveConflict, ResolveTarget, ResolveReads, TypeOK
<1>2. work.p \in Policies /\ work.obj \in Policy /\ cdep \in Deployment
  BY DEF TypeOK, Work
<1>3. "TargetNotFound" \in Conditions /\ "ConflictingPolicy" \in Conditions
  BY DEF Conditions
<1>4. work' \in Work
  <2>1. CASE ResolveNotFound
    BY <2>1, <1>2, <1>3, ConditionTypes, StatusType DEF ResolveNotFound
  <2>2. CASE ResolveConflict
    BY <2>2, <1>2, <1>3, ConditionTypes, StatusType DEF ResolveConflict
  <2>3. CASE ResolveTarget
    BY <2>3, <1>2 DEF ResolveTarget, TypeOK, Work, PCs
  <2> QED
    BY <2>1, <2>2, <2>3
<1>5. Store!Forget(work.p) \/ UNCHANGED store
  BY DEF ResolveNotFound, ResolveConflict, ResolveTarget
<1>6. Store!StoreTypeOK'
  BY <1>2, <1>5, StoreSame, StoreForgetType DEF TypeOK
<1> QED
  BY <1>1, <1>4, <1>6, WorkStepType

LEMMA SyncPodsType ==
  ASSUME TypeOK, SyncPods
  PROVE  TypeOK'
<1>1. Store!StoreTypeOK'
  BY StoreSyncType DEF SyncPods, TypeOK, Work
<1>2. work' \in Work
  BY DEF SyncPods, TypeOK, Work, PCs
<1> QED
  BY <1>1, <1>2, WorkStepType DEF SyncPods, TypeOK

LEMMA DecideType ==
  ASSUME TypeOK, Decide
  PROVE  TypeOK'
<1>1. Store!StoreTypeOK'
  BY DEF Decide, TypeOK, Work, Store!StoreTypeOK, Store!SetSeenReady
<1>2. work.obj \in Policy
  BY DEF TypeOK, Work
<1>3. [work.obj EXCEPT !.attempts = 0] \in Policy
  BY <1>2 DEF Policy
<1>4. clock \in Nat
  BY EnvironmentAssumption DEF TypeOK
<1>5. sick[work.p] \cap seen'[work.p] \in SUBSET Uids
  BY <1>1 DEF TypeOK, Work, Store!StoreTypeOK
<1>6. \/ \E v \in {"RolloutStalled", "SystemicFailure", "CircuitOpen"} : ToStatus(SetDegraded(work.obj, v), TRUE)
      \/ ToStatus(SetHealthy([work.obj EXCEPT !.attempts = 0]), TRUE)
      \/ ToStatus(SetRemediating(work.obj), TRUE)
      \/ work' = [work EXCEPT !.pc = "act", !.todo = sick[work.p] \cap seen'[work.p], !.acted = 0, !.now = clock]
  BY DEF Decide
<1>7. ASSUME NEW v \in {"RolloutStalled", "SystemicFailure", "CircuitOpen"}
      PROVE  SetDegraded(work.obj, v) \in Policy
  BY <1>2, <1>7, ConditionTypes DEF Conditions
<1>8. SetHealthy([work.obj EXCEPT !.attempts = 0]) \in Policy /\ SetRemediating(work.obj) \in Policy
  BY <1>2, <1>3, ConditionTypes DEF Conditions
<1>9. work' \in Work
  <2>1. CASE work' = [work EXCEPT !.pc = "act", !.todo = sick[work.p] \cap seen'[work.p], !.acted = 0, !.now = clock]
    BY <2>1, <1>4, <1>5 DEF TypeOK, Work, PCs
  <2> QED
    BY <1>6, <1>7, <1>8, <2>1, StatusType
<1> QED
  BY <1>1, <1>9, WorkStepType DEF Decide, TypeOK

LEMMA RecordedType ==
  ASSUME NEW o \in Policy, NEW now \in Nat
  PROVE  Recorded(o, now) \in Policy
<1>1. Truncate(now, Sec) \in Int
  BY ClusterAssumption DEF Truncate
<1>2. o.attempts + 1 \in Nat
  BY DEF Policy
<1> DEFINE o1 == [o EXCEPT !.attempts = @ + 1]
           o2 == [o1 EXCEPT !.last = Truncate(now, Sec)]
<1>3. o1 \in Policy
  BY <1>2 DEF Policy
<1> HIDE DEF o1
<1>4. o2 \in Policy
  BY <1>1, <1>3 DEF Policy
<1>5. Recorded(o, now) = SetRemediating(o2)
  BY DEF Recorded, o1
<1> HIDE DEF o2
<1> QED
  BY <1>4, <1>5, ConditionTypes DEF Conditions

\* A step that acts on the cluster for the call in progress.
LEMMA ActStepType ==
  ASSUME TypeOK, dep' \in Deployment, pods' \in [Uids -> Pod], ok' = ok,
         work' \in Work, budget' \in 0..Budget,
         cpol' \in [Policies -> Policy], cdep' \in Deployment, cpods' \in [Uids -> Pod],
         pending' \subseteq Policies,
         actedAt' = actedAt \/ Logged,
         UNCHANGED <<pol, store, clock>>
  PROVE  TypeOK'
<1>1. Store!StoreTypeOK'
  BY StoreSame DEF TypeOK
<1>2. actedAt' \in [Policies -> Int]
  BY EnvironmentAssumption DEF TypeOK, Logged
<1> QED
  BY <1>1, <1>2 DEF TypeOK, ClusterTypeOK

LEMMA ActType ==
  ASSUME TypeOK, ActDone \/ ActRestart \/ (\E u \in Uids : ActDelete(u))
  PROVE  TypeOK'
<1>1. work.p \in Policies /\ work.obj \in Policy /\ work.now \in Nat /\ Recorded(work.obj, work.now) \in Policy
  BY RecordedType DEF TypeOK, Work
<1>2. dep \in Deployment /\ pods \in [Uids -> Pod] /\ pol \in [Policies -> Policy]
  BY DEF TypeOK, ClusterTypeOK
<1>3. CASE ActDone
  <2>1. work' \in Work
    BY <1>1, <1>3, StatusType DEF ActDone
  <2>2. Store!StoreTypeOK'
    BY <1>3, StoreSame DEF ActDone, TypeOK
  <2> QED
    BY <1>3, <2>1, <2>2, WorkStepType DEF ActDone, TypeOK
<1>4. CASE ActRestart
  <2>1. dep' = dep \/ dep' = RestartPatched(dep, work.now)
    BY <1>4 DEF ActRestart
  <2>2. RestartPatched(dep, work.now) \in Deployment
    <3>1. work.now \div Sec \in Int
      BY <1>1, ClusterAssumption
    <3> DEFINE d == [dep EXCEPT !.stamp = work.now \div Sec]
    <3>2. d \in Deployment /\ d.rev + 1 \in Nat
      BY <1>2, <3>1 DEF Deployment
    <3>3. RestartPatched(dep, work.now) = dep \/ RestartPatched(dep, work.now) = [d EXCEPT !.rev = @ + 1]
      BY DEF RestartPatched
    <3> HIDE DEF d
    <3>4. [d EXCEPT !.rev = @ + 1] \in Deployment
      BY <3>2 DEF Deployment
    <3> QED
      BY <1>2, <3>3, <3>4
  <2>3. dep' \in Deployment /\ pods' \in [Uids -> Pod] /\ pol' \in [Policies -> Policy]
    BY <1>2, <1>4, <2>1, <2>2 DEF ActRestart
  <2>4. UNCHANGED <<pods, ok, pol, store, clock>>
    BY <1>4 DEF ActRestart
  <2>5. actedAt' = actedAt \/ Logged
    BY <1>4 DEF ActRestart
  <2>6. \/ budget' = budget /\ ToStatus(Recorded(work.obj, work.now), TRUE) /\ Informed(pending)
        \/ Spend("writeError") /\ Return(TRUE)
    BY <1>4 DEF ActRestart
  <2>7. CASE budget' = budget /\ ToStatus(Recorded(work.obj, work.now), TRUE) /\ Informed(pending)
    <3>1. work' \in Work
      BY <1>1, <2>7, StatusType
    <3>2. pending \in SUBSET Policies /\ budget' \in 0..Budget
      BY <2>7 DEF TypeOK
    <3>3. /\ cpol' \in [Policies -> Policy] /\ cdep' \in Deployment /\ cpods' \in [Uids -> Pod]
          /\ pending' \subseteq Policies
      BY <2>3, <2>7, <3>2, InformedType
    <3> QED
      BY <2>3, <2>4, <2>5, <3>1, <3>2, <3>3, ActStepType
  <2>8. CASE Spend("writeError") /\ Return(TRUE)
    <3>1. /\ cpol' \in [Policies -> Policy] /\ cdep' \in Deployment /\ cpods' \in [Uids -> Pod]
          /\ pending' \subseteq Policies /\ work' \in Work
      BY <2>3, <2>8, ReturnType
    <3>2. budget' \in 0..Budget
      BY <2>8, SpendType
    <3> QED
      BY <2>3, <2>4, <2>5, <3>1, <3>2, ActStepType
  <2> QED
    BY <2>6, <2>7, <2>8
<1>5. ASSUME NEW u \in Uids, ActDelete(u)
      PROVE  TypeOK'
  <2>1. pods' = pods \/ pods' = PodDeleted(u)
    BY <1>5 DEF ActDelete
  <2>2. PodDeleted(u) \in [Uids -> Pod]
    BY <1>2 DEF PodDeleted, Pod, Phases
  <2>3. dep' \in Deployment /\ pods' \in [Uids -> Pod] /\ pol' \in [Policies -> Policy]
    BY <1>2, <1>5, <2>1, <2>2 DEF ActDelete
  <2>4. UNCHANGED <<dep, ok, pol, store, clock>>
    BY <1>5 DEF ActDelete
  <2>5. actedAt' = actedAt \/ Logged
    BY <1>5 DEF ActDelete
  <2>6. \/ /\ work' = [work EXCEPT !.todo = @ \ {u}]
           /\ UNCHANGED <<budget, caches, pending>>
        \/ /\ work' = [work EXCEPT !.todo = @ \ {u}, !.acted = @ + 1]
           /\ UNCHANGED budget /\ Informed(pending)
        \/ Spend("writeError") /\ Return(TRUE)
    BY <1>5 DEF ActDelete
  <2>7. CASE work' = [work EXCEPT !.todo = @ \ {u}] /\ UNCHANGED <<budget, caches, pending>>
    <3>1. work' \in Work
      BY <2>7 DEF TypeOK, Work
    <3> QED
      BY <2>3, <2>4, <2>5, <2>7, <3>1, ActStepType DEF TypeOK, caches
  <2>8. CASE /\ work' = [work EXCEPT !.todo = @ \ {u}, !.acted = @ + 1]
             /\ UNCHANGED budget /\ Informed(pending)
    <3>1. work' \in Work
      <4> DEFINE w == [work EXCEPT !.todo = @ \ {u}]
      <4>1. w \in Work /\ w.acted + 1 \in Nat
        BY DEF TypeOK, Work
      <4>2. work' = [w EXCEPT !.acted = @ + 1]
        BY <2>8
      <4> HIDE DEF w
      <4> QED
        BY <4>1, <4>2 DEF Work
    <3>2. pending \in SUBSET Policies /\ budget' \in 0..Budget
      BY <2>8 DEF TypeOK
    <3>3. /\ cpol' \in [Policies -> Policy] /\ cdep' \in Deployment /\ cpods' \in [Uids -> Pod]
          /\ pending' \subseteq Policies
      BY <2>3, <2>8, <3>2, InformedType
    <3> QED
      BY <2>3, <2>4, <2>5, <3>1, <3>2, <3>3, ActStepType
  <2>9. CASE Spend("writeError") /\ Return(TRUE)
    <3>1. /\ cpol' \in [Policies -> Policy] /\ cdep' \in Deployment /\ cpods' \in [Uids -> Pod]
          /\ pending' \subseteq Policies /\ work' \in Work
      BY <2>3, <2>9, ReturnType
    <3>2. budget' \in 0..Budget
      BY <2>9, SpendType
    <3> QED
      BY <2>3, <2>4, <2>5, <3>1, <3>2, ActStepType
  <2> QED
    BY <2>6, <2>7, <2>8, <2>9
<1> QED
  BY <1>3, <1>4, <1>5

LEMMA ReconcileType == TypeOK /\ Reconcile => TypeOK'
<1> SUFFICES ASSUME TypeOK, Reconcile PROVE TypeOK'
  OBVIOUS
<1>1. work.obj \in Policy /\ work.again \in BOOLEAN
  BY DEF TypeOK, Work
<1>2. CASE UpdateFinalizer
  <2>1. (IF work.obj.deleting THEN Gone ELSE work.obj) \in Policy
    BY <1>1, GoneType
  <2>2. (~work.obj.deleting) \in BOOLEAN
    OBVIOUS
  <2> QED
    BY <1>2, <2>1, <2>2, WritePolicyType DEF UpdateFinalizer
<1>3. CASE Finish
  BY <1>1, <1>3, WritePolicyType DEF Finish
<1> QED
  BY <1>2, <1>3, BeginType, ResolveType, SyncPodsType, DecideType, ActType DEF Reconcile
-----------------------------------------------------------------------------
LEMMA DeliverType == TypeOK /\ Deliver => TypeOK'
<1> SUFFICES ASSUME TypeOK, Deliver PROVE TypeOK'
  OBVIOUS
<1>1. UNCHANGED <<cluster, pol, store, work, clock, budget, actedAt>>
  BY DEF Deliver, DeliverPolicy, DeliverDeployment, DeliverPod
<1>2. ClusterTypeOK' /\ Store!StoreTypeOK'
  BY <1>1, ClusterSame, StoreSame DEF TypeOK
<1>3. Enqueue(pending) \/ UNCHANGED pending
  BY DEF Deliver, DeliverPolicy, DeliverDeployment, DeliverPod
<1>4. pending' \subseteq Policies
  BY <1>3 DEF Enqueue, Watchers, TypeOK
<1>5. cpol' \in [Policies -> Policy] /\ cdep' \in Deployment /\ cpods' \in [Uids -> Pod]
  BY DEF Deliver, DeliverPolicy, DeliverDeployment, DeliverPod, TypeOK, ClusterTypeOK
<1> QED
  BY <1>1, <1>2, <1>4, <1>5 DEF TypeOK

LEMMA ProbeVerdictType ==
  ASSUME TypeOK, NEW p \in Policies, NEW u \in Uids, ProbeVerdict(p, u)
  PROVE  TypeOK'
<1>1. Store!StoreTypeOK'
  BY DEF ProbeVerdict, TypeOK, Store!Flip, Store!StoreTypeOK
<1> QED
  BY <1>1, WorkStepType DEF ProbeVerdict, TypeOK

LEMMA ObservedType ==
  ASSUME ClusterTypeOK
  PROVE  Observed \in Deployment
<1>1. Running \in SUBSET Uids /\ Current \in SUBSET Uids /\ Ready \in SUBSET Uids /\ Running \ Ready \in SUBSET Uids
  BY DEF Running, Current, Ready
<1>2. /\ Cardinality(Running) \in Nat /\ Cardinality(Current) \in Nat
      /\ Cardinality(Ready) \in Nat /\ Cardinality(Running \ Ready) \in Nat
  BY <1>1, CountType
<1> DEFINE d1 == [dep EXCEPT !.obs = dep.rev]
           d2 == [d1 EXCEPT !.replicas = Cardinality(Running)]
           d3 == [d2 EXCEPT !.updated = Cardinality(Current)]
           d4 == [d3 EXCEPT !.available = Cardinality(Ready)]
           d5 == [d4 EXCEPT !.unavailable = Cardinality(Running \ Ready)]
           d6(c) == [d5 EXCEPT !.stalled = @ /\ ~c]
<1>3. d1 \in Deployment
  BY DEF ClusterTypeOK, Deployment
<1>4. \E c \in BOOLEAN : Observed = d6(c)
  BY DEF Observed
<1> HIDE DEF d1
<1>5. d2 \in Deployment
  BY <1>2, <1>3 DEF Deployment
<1> HIDE DEF d2
<1>6. d3 \in Deployment
  BY <1>2, <1>5 DEF Deployment
<1> HIDE DEF d3
<1>7. d4 \in Deployment
  BY <1>2, <1>6 DEF Deployment
<1> HIDE DEF d4
<1>8. d5 \in Deployment
  BY <1>2, <1>7 DEF Deployment
<1> HIDE DEF d5
<1>9. \A c \in BOOLEAN : d6(c) \in Deployment
  BY <1>8 DEF Deployment
<1> QED
  BY <1>4, <1>9

\* Every step of the cluster by itself keeps its types.
LEMMA ClusterStepType ==
  ASSUME ClusterTypeOK,
         \/ ObserveStatus \/ Stall \/ Deploy
         \/ \E u \in Uids : \/ ControllerStep(u) \/ Regress(u) \/ Recover(u)
                            \/ \E a \in BOOLEAN : CreatePod(u, a)
  PROVE  ClusterTypeOK'
<1>1. CASE ObserveStatus \/ Stall \/ Deploy
  <2>1. dep' \in Deployment
    <3>1. CASE ObserveStatus
      BY <3>1, ObservedType DEF ObserveStatus
    <3>2. CASE Stall
      BY <3>2 DEF Stall, ClusterTypeOK, Deployment
    <3>3. CASE Deploy
      BY <3>3 DEF Deploy, ClusterTypeOK, Deployment
    <3> QED
      BY <1>1, <3>1, <3>2, <3>3
  <2> QED
    BY <1>1, <2>1 DEF ObserveStatus, Stall, Deploy, ClusterTypeOK
<1>2. ASSUME NEW u \in Uids, ControllerStep(u) \/ Regress(u) \/ Recover(u)
      PROVE  ClusterTypeOK'
  <2>1. UNCHANGED dep /\ ok' \subseteq Uids
    BY <1>2 DEF ControllerStep, RetireOld, Terminated, BecomeReady, BecomeUnready, Regress, Recover, ClusterTypeOK
  <2>2. \/ pods' = PodDeleted(u)
        \/ pods' = [pods EXCEPT ![u] = NoPod]
        \/ \E b \in BOOLEAN : pods' = [pods EXCEPT ![u].ready = b]
        \/ pods' = pods
    BY <1>2 DEF ControllerStep, RetireOld, Terminated, BecomeReady, BecomeUnready, Regress, Recover
  <2>3. pods' \in [Uids -> Pod]
    <3>1. pods \in [Uids -> Pod] /\ pods[u] \in Pod /\ NoPod \in Pod
      BY DEF ClusterTypeOK, NoPod, Pod, Phases
    <3>2. CASE pods' = PodDeleted(u)
      BY <3>1, <3>2 DEF PodDeleted, Pod, Phases
    <3>3. CASE pods' = [pods EXCEPT ![u] = NoPod]
      BY <3>1, <3>3
    <3>4. ASSUME NEW b \in BOOLEAN, pods' = [pods EXCEPT ![u].ready = b]
          PROVE  pods' \in [Uids -> Pod]
      <4>1. [pods[u] EXCEPT !.ready = b] \in Pod
        BY <3>1 DEF Pod
      <4>2. pods' = [pods EXCEPT ![u] = [pods[u] EXCEPT !.ready = b]]
        BY <3>4
      <4> QED
        BY <3>1, <4>1, <4>2
    <3> QED
      BY <2>2, <3>1, <3>2, <3>3, <3>4
  <2> QED
    BY <2>1, <2>3 DEF ClusterTypeOK
<1>3. ASSUME NEW u \in Uids, NEW a \in BOOLEAN, CreatePod(u, a)
      PROVE  ClusterTypeOK'
  <2>1. [phase |-> "running", rev |-> dep.rev, ready |-> FALSE] \in Pod
    BY DEF ClusterTypeOK, Deployment, Pod, Phases
  <2> QED
    BY <1>3, <2>1 DEF CreatePod, ClusterTypeOK
<1> QED
  BY <1>1, <1>2, <1>3

\* A step of the environment that leaves the controller process alone.
LEMMA OutsideType ==
  ASSUME TypeOK, ClusterTypeOK', pol' \in [Policies -> Policy], budget' \in 0..Budget,
         UNCHANGED <<store, work, clock, actedAt>>, Informed(pending)
  PROVE  TypeOK'
<1>1. dep' \in Deployment /\ pods' \in [Uids -> Pod] /\ pending \in SUBSET Policies
  BY DEF ClusterTypeOK, TypeOK
<1>2. /\ cpol' \in [Policies -> Policy] /\ cdep' \in Deployment /\ cpods' \in [Uids -> Pod]
      /\ pending' \subseteq Policies
  BY <1>1, InformedType
<1>3. Store!StoreTypeOK'
  BY StoreSame DEF TypeOK
<1> QED
  BY <1>2, <1>3 DEF TypeOK

LEMMA KubernetesType == TypeOK /\ Kubernetes => TypeOK'
<1> SUFFICES ASSUME TypeOK, Kubernetes PROVE TypeOK'
  OBVIOUS
<1>1. ClusterTypeOK'
  <2>1. ClusterTypeOK
    BY DEF TypeOK
  <2> QED
    BY <2>1, ClusterStepType DEF Kubernetes
<1> QED
  BY <1>1, OutsideType DEF Kubernetes, controller, TypeOK

LEMMA TroubleType == TypeOK /\ Trouble => TypeOK'
<1> SUFFICES ASSUME TypeOK, Trouble PROVE TypeOK'
  OBVIOUS
<1>1. ClusterTypeOK'
  <2>1. ClusterTypeOK
    BY DEF TypeOK
  <2> QED
    BY <2>1, ClusterStepType DEF Trouble
<1>2. \E k : Spend(k)
  BY DEF Trouble
<1>3. budget' \in 0..Budget
  BY <1>2, SpendType
<1> QED
  BY <1>1, <1>3, OutsideType DEF Trouble, controller, TypeOK

LEMMA UserType == TypeOK /\ User => TypeOK'
<1> SUFFICES ASSUME TypeOK, NEW p \in Policies,
                    (\E t \in Targets : CreatePolicy(p, t)) \/ Edit(p) \/ DeletePolicy(p),
                    UNCHANGED <<cluster, store, work, clock, actedAt>>, Informed(pending)
             PROVE  TypeOK'
  BY DEF User
<1>1. ClusterTypeOK'
  BY ClusterSame DEF TypeOK
<1>2. \E k : Spend(k)
  BY DEF CreatePolicy, Edit, DeletePolicy
<1>3. budget' \in 0..Budget
  BY <1>2, SpendType
<1>4. pol' \in [Policies -> Policy]
  <2>1. ASSUME NEW t \in Targets, CreatePolicy(p, t)
        PROVE  pol' \in [Policies -> Policy]
    <3>1. clock \div Sec \in Nat
      BY ClusterAssumption, EnvironmentAssumption DEF TypeOK
    <3> DEFINE o == [Gone EXCEPT !.live = TRUE, !.target = t, !.created = clock \div Sec]
    <3>2. o \in Policy
      BY <3>1, GoneType DEF Gone, Policy
    <3>3. pol' = [pol EXCEPT ![p] = o]
      BY <2>1 DEF CreatePolicy
    <3> HIDE DEF o
    <3> QED
      BY <3>2, <3>3 DEF TypeOK
  <2>2. CASE Edit(p)
    <3>1. pol \in [Policies -> Policy] /\ pol[p] \in Policy
      BY DEF TypeOK
    <3>2. \/ \E t \in Targets : pol' = [pol EXCEPT ![p] = [pol[p] EXCEPT !.target = t]]
          \/ pol' = [pol EXCEPT ![p] = [pol[p] EXCEPT !.valid = ~@]]
          \/ pol' = [pol EXCEPT ![p] = [pol[p] EXCEPT !.dry = ~@]]
      BY <2>2 DEF Edit
    <3>3. /\ \A t \in Targets : [pol[p] EXCEPT !.target = t] \in Policy
          /\ [pol[p] EXCEPT !.valid = ~@] \in Policy
          /\ [pol[p] EXCEPT !.dry = ~@] \in Policy
      BY <3>1 DEF Policy
    <3> QED
      BY <3>1, <3>2, <3>3
  <2>3. CASE DeletePolicy(p)
    <3>1. [pol[p] EXCEPT !.deleting = TRUE] \in Policy
      BY DEF TypeOK, Policy
    <3> QED
      BY <2>3, <3>1, GoneType DEF DeletePolicy, TypeOK
  <2> QED
    BY <2>1, <2>2, <2>3
<1> QED
  BY <1>1, <1>3, <1>4, OutsideType

LEMMA CrashType == TypeOK /\ Crash => TypeOK'
<1> SUFFICES ASSUME TypeOK, Crash PROVE TypeOK'
  OBVIOUS
<1>1. ClusterTypeOK'
  BY ClusterSame DEF Crash, TypeOK
<1>2. Store!StoreTypeOK'
  BY DEF Crash, Store!StoreTypeOK
<1>3. budget' \in 0..Budget
  BY SpendType DEF Crash
<1> QED
  BY <1>1, <1>2, <1>3, IdleType DEF Crash, TypeOK, ClusterTypeOK

LEMMA TickType == TypeOK /\ Tick => TypeOK'
<1> SUFFICES ASSUME TypeOK, Tick PROVE TypeOK'
  OBVIOUS
<1>1. ClusterTypeOK' /\ Store!StoreTypeOK'
  BY ClusterSame, StoreSame DEF Tick, TypeOK
<1>2. clock' \in 0..MaxTime
  BY EnvironmentAssumption DEF Tick, TypeOK
<1> QED
  BY <1>1, <1>2 DEF Tick, TypeOK, caches

LEMMA NextType == TypeOK /\ [Next]_vars => TypeOK'
<1>1. TypeOK /\ UNCHANGED vars => TypeOK'
  BY ClusterSame, StoreSame DEF vars, cluster, caches, store, TypeOK
<1> QED
  BY <1>1, ReconcileType, DeliverType, ProbeVerdictType, KubernetesType, TroubleType,
     UserType, CrashType, TickType DEF Next, Living

(***************************************************************************)
(* Every variable of the reconciler and its environment keeps its type.    *)
(***************************************************************************)
THEOREM TypeCorrect == Spec => []TypeOK
  BY InitType, NextType, PTL DEF Spec
=============================================================================
