-------------------------- MODULE ReconcilerSafety --------------------------
(***************************************************************************)
(* Two guarantees of the reconciler for every number of policies and pods, *)
(* every remediation setting, every set of lagging caches and every amount *)
(* of trouble: a policy that is gone has no probers, and the remediations  *)
(* recorded in a status are spaced by the cooldown.                        *)
(***************************************************************************)
EXTENDS ReconcilerProofs

(***************************************************************************)
(* The release of a deleted policy's probers.                              *)
(*                                                                         *)
(* NoOrphanProbers is not inductive: a Reconcile that works on an outdated *)
(* copy could Sync after the policy is gone.  It does not, because a copy  *)
(* that invites it to (Kept) can only be cached while the object still     *)
(* holds the finalizer: the write that releases the finalizer is computed  *)
(* from a copy marked for deletion, which the cache has by then replaced   *)
(* every older one with, and it is rejected when the object has changed.   *)
(***************************************************************************)
Held(o) == o.live /\ o.fin
Kept(o) == o.live /\ o.fin /\ ~o.deleting
Leaving(o) == o.live /\ o.fin /\ o.deleting

\* A policy that is gone leaves nothing behind.
GoneIsGone == \A p \in Policies : ~pol[p].live => pol[p] = Gone

\* What the call in progress holds: a copy it has not yet changed, with the
\* finalizer, except between adopting or releasing a policy and saying so.
WorkCopies ==
  /\ work.pc # "idle" => work.obj.live /\ work.base.live
  /\ work.pc # "idle" => work.obj.deleting = work.base.deleting
  /\ work.pc \notin {"idle", "finalizer"} => work.obj.fin /\ work.base.fin
  /\ work.pc = "finalizer" => (work.obj.fin <=> ~work.obj.deleting) /\ (work.base.fin <=> work.obj.deleting)

ProbedHeld == \A p \in Policies : probed[p] # {} => Held(pol[p])

\* The cache is behind, but never ahead of what it says about finalizers.
CacheHeld == \A p \in Policies : /\ Kept(cpol[p]) => Held(pol[p])
                                 /\ Leaving(cpol[p]) => ~Kept(pol[p])

WorkHeld ==
  /\ work.pc \in {"resolve", "pods"} => Held(pol[work.p])
  /\ work.pc = "finalizer" /\ work.obj.deleting =>
       probed[work.p] = {} /\ ~Kept(cpol[work.p]) /\ ~Kept(pol[work.p])
  /\ work.pc = "finalizer" /\ ~work.obj.deleting /\ ~pol[work.p].fin => ~Leaving(cpol[work.p])

Release == GoneIsGone /\ WorkCopies /\ ProbedHeld /\ CacheHeld /\ WorkHeld

-----------------------------------------------------------------------------
(***************************************************************************)
(* The steps, seen from the call in progress.                              *)
(***************************************************************************)
\* A cooldown of zero asks for nothing.
SpacedFrom(t, last) == last = Never \/ Cooldown = 0 \/ t - last >= Cooldown * Sec

\* A Reconcile call begins for p, on the cached copy.
Starts(p) ==
  /\ work.pc = "idle" /\ work'.p = p /\ work'.base = cpol[p]
  /\ work'.obj.last = cpol[p].last /\ work'.obj.attempts = cpol[p].attempts
  /\ work'.obj.live /\ cpol[p].live
  /\ work'.obj.deleting = cpol[p].deleting
  /\ \/ cpol[p].fin /\ cpol[p].deleting /\ work'.pc = "finalizer" /\ ~work'.obj.fin /\ probed'[p] = {}
     \/ ~cpol[p].fin /\ ~cpol[p].deleting /\ work'.pc = "finalizer" /\ work'.obj.fin
     \/ cpol[p].fin /\ ~cpol[p].deleting /\ work'.pc \in {"status", "resolve"} /\ work'.obj.fin

\* It goes on, with the same copy; LastRemediation moves only in remediate,
\* which is entered only when the cooldown is over.
Advances ==
  /\ work.pc \in {"resolve", "pods", "decide", "act"}
  /\ work'.pc \in {"pods", "decide", "act", "status"}
  /\ work'.pc = "pods" => work.pc = "resolve"
  /\ work'.p = work.p /\ work'.base = work.base
  /\ work'.obj.live = work.obj.live /\ work'.obj.fin = work.obj.fin
  /\ work'.obj.deleting = work.obj.deleting
  /\ \/ work'.obj.last = work.obj.last /\ work'.obj.attempts = work.obj.attempts
     \/ work'.pc = "status" /\ work'.obj.last = work.obj.last /\ work'.obj.attempts = 0
     \/ work'.pc = "status" /\ work.pc = "act" /\ work'.obj.last = Truncate(work.now, Sec)
  /\ work'.pc = "act" => IF work.pc = "act" THEN work'.now = work.now
                         ELSE work'.now = clock /\ SpacedFrom(clock, work.obj.last)

\* It saves the policy.
Writes == work.pc \in {"finalizer", "status"} /\ work'.pc = "idle"
          /\ pol[work.p] = work.base
          /\ pol' = [pol EXCEPT ![work.p] =
               IF work.pc = "finalizer" /\ work.obj.deleting THEN Gone ELSE work.obj]

\* The user changes the policy p.
Edits(p) ==
  \/ ~pol[p].live /\ pol'[p].live /\ ~pol'[p].fin /\ ~pol'[p].deleting /\ pol'[p].last = Never
  \/ /\ pol[p].live /\ pol'[p].live /\ pol'[p].fin = pol[p].fin
     /\ pol'[p].last = pol[p].last /\ pol'[p].attempts = pol[p].attempts
     /\ pol'[p].deleting = pol[p].deleting \/ (pol'[p].deleting /\ pol[p].fin)
  \/ pol[p].live /\ ~pol[p].fin /\ pol'[p] = Gone

LEMMA StatusAdvances ==
  ASSUME TypeOK, NEW o \in Policy, NEW again \in BOOLEAN, ToStatus(o, again),
         work.pc \in {"resolve", "decide", "act"},
         o.live = work.obj.live, o.fin = work.obj.fin, o.deleting = work.obj.deleting,
         \/ o.last = work.obj.last /\ o.attempts \in {work.obj.attempts, 0}
         \/ work.pc = "act" /\ o.last = Truncate(work.now, Sec)
  PROVE  Advances
<1>1. work'.pc = "status" /\ work'.obj = o /\ work'.p = work.p /\ work'.base = work.base
  BY DEF ToStatus, TypeOK, Work
<1> QED
  BY <1>1 DEF Advances

\* The conditions are all that setHealthy, setRemediating and setDegraded change.
LEMMA ConditionOnly ==
  ASSUME NEW o \in Policy, NEW r
  PROVE  \A c \in {SetHealthy(o), SetRemediating(o), SetDegraded(o, r)} :
              /\ c.live = o.live /\ c.fin = o.fin /\ c.deleting = o.deleting
              /\ c.last = o.last /\ c.attempts = o.attempts
  BY DEF SetHealthy, SetRemediating, SetDegraded, Policy

LEMMA RecordedOnly ==
  ASSUME NEW o \in Policy, NEW now \in Nat
  PROVE  LET c == Recorded(o, now)
         IN  c.live = o.live /\ c.fin = o.fin /\ c.deleting = o.deleting /\ c.last = Truncate(now, Sec)
  BY DEF Recorded, SetRemediating, Policy

LEMMA BeginStarts ==
  ASSUME TypeOK, NEW p \in Policies, Begin(p)
  PROVE  /\ UNCHANGED <<pol, cpol>>
         /\ UNCHANGED work \/ Starts(p)
         /\ \A q \in Policies : probed'[q] = probed[q] \/ probed'[q] = {}
<1>1. UNCHANGED <<pol, cpol>> /\ work.pc = "idle"
  BY DEF Begin, BeginGone, BeginDeletion, BeginAdoption, BeginInvalid, BeginGuarding, Take, caches
<1>2. UNCHANGED store \/ Store!Forget(p)
  BY DEF Begin, BeginGone, BeginDeletion, BeginAdoption, BeginInvalid, BeginGuarding
<1>3. \A q \in Policies : probed'[q] = probed[q] \/ probed'[q] = {}
  BY <1>2 DEF Store!Forget, Store!Sync, store, TypeOK, Store!StoreTypeOK
<1>4. cpol[p] \in Policy
  BY DEF TypeOK
<1>5. ASSUME NEW o, NEW l, StartWork(p, l, o)
      PROVE  work'.pc = l /\ work'.p = p /\ work'.base = cpol[p] /\ work'.obj = o
  BY <1>5, IdleType DEF StartWork, Work
<1>6. CASE BeginGone(p)
  BY <1>1, <1>3, <1>6 DEF BeginGone
<1>7. CASE BeginDeletion(p)
  <2>1. probed'[p] = {}
    BY <1>7 DEF BeginDeletion, Store!Forget, Store!Sync, TypeOK, Store!StoreTypeOK
  <2>2. work'.pc = "finalizer" /\ work'.p = p /\ work'.base = cpol[p] /\ work'.obj = [cpol[p] EXCEPT !.fin = FALSE]
    BY <1>5, <1>7 DEF BeginDeletion
  <2>3. /\ work'.obj.last = cpol[p].last /\ work'.obj.live = cpol[p].live /\ work'.obj.attempts = cpol[p].attempts
        /\ work'.obj.deleting = cpol[p].deleting /\ work'.obj.fin = FALSE
    BY <1>4, <2>2 DEF Policy
  <2> QED
    BY <1>1, <1>3, <1>7, <2>1, <2>2, <2>3 DEF BeginDeletion, Starts
<1>8. CASE BeginAdoption(p)
  <2>2. work'.pc = "finalizer" /\ work'.p = p /\ work'.base = cpol[p] /\ work'.obj = [cpol[p] EXCEPT !.fin = TRUE]
    BY <1>5, <1>8 DEF BeginAdoption
  <2>3. /\ work'.obj.last = cpol[p].last /\ work'.obj.live = cpol[p].live /\ work'.obj.attempts = cpol[p].attempts
        /\ work'.obj.deleting = cpol[p].deleting /\ work'.obj.fin = TRUE
    BY <1>4, <2>2 DEF Policy
  <2> QED
    BY <1>1, <1>3, <1>8, <2>2, <2>3 DEF BeginAdoption, Starts
<1>9. CASE BeginInvalid(p)
  <2>2. work'.pc = "status" /\ work'.p = p /\ work'.base = cpol[p] /\ work'.obj = SetDegraded(cpol[p], "InvalidProbe")
    BY <1>5, <1>9 DEF BeginInvalid
  <2> QED
    BY <1>1, <1>3, <1>4, <1>9, <2>2, ConditionOnly DEF BeginInvalid, Starts
<1>10. CASE BeginGuarding(p)
  <2>2. work'.pc = "resolve" /\ work'.p = p /\ work'.base = cpol[p] /\ work'.obj = cpol[p]
    BY <1>5, <1>10 DEF BeginGuarding
  <2> QED
    BY <1>1, <1>3, <1>10, <2>2 DEF BeginGuarding, Starts
<1> QED
  BY <1>6, <1>7, <1>8, <1>9, <1>10 DEF Begin

\* What every step is, for the policies, their cached copies, the probers and
\* the call in progress.
StepShape ==
  /\ \A p \in Policies : cpol'[p] = cpol[p] \/ cpol'[p] = pol'[p]
  /\ \/ \A p \in Policies : probed'[p] = probed[p] \/ probed'[p] = {}
     \/ work.pc = "pods" /\ pol' = pol /\ \A p \in Policies \ {work.p} : probed'[p] = probed[p]
  /\ \/ (work' = work \/ work'.pc = "idle") /\ pol' = pol
     \/ work' = work /\ probed' = probed
        /\ \E p \in Policies : Edits(p) /\ \A q \in Policies \ {p} : pol'[q] = pol[q]
     \/ Writes /\ probed' = probed
     \/ (\E p \in Policies : Starts(p)) /\ pol' = pol /\ cpol' = cpol
     \/ Advances /\ pol' = pol

LEMMA InformedCache ==
  ASSUME TypeOK, NEW Q, Informed(Q)
  PROVE  \A p \in Policies : cpol'[p] = cpol[p] \/ cpol'[p] = pol'[p]
  BY DEF Informed, TypeOK

LEMMA ResolveShape ==
  ASSUME TypeOK, ResolveNotFound \/ ResolveConflict \/ ResolveTarget
  PROVE  StepShape
<1>1. work.pc = "resolve" /\ UNCHANGED <<pol, cpol>>
  BY DEF ResolveNotFound, ResolveConflict, ResolveTarget, ResolveReads, caches
<1>2. Store!Forget(work.p) \/ UNCHANGED store
  BY DEF ResolveNotFound, ResolveConflict, ResolveTarget
<1>3. \A p \in Policies : probed'[p] = probed[p] \/ probed'[p] = {}
  BY <1>2 DEF Store!Forget, Store!Sync, store, TypeOK, Store!StoreTypeOK
<1>4. work.obj \in Policy
  BY DEF TypeOK, Work
<1>5. CASE ResolveTarget
  <2>1. work'.pc = "pods" /\ work'.p = work.p /\ work'.base = work.base /\ work'.obj = work.obj
    BY <1>5 DEF ResolveTarget, TypeOK, Work
  <2> QED
    BY <1>1, <1>3, <2>1 DEF StepShape, Advances
<1>6. CASE ResolveNotFound \/ ResolveConflict
  <2>1. PICK r \in {"TargetNotFound", "ConflictingPolicy"} : ToStatus(SetDegraded(work.obj, r), TRUE)
    BY <1>6 DEF ResolveNotFound, ResolveConflict
  <2>2. SetDegraded(work.obj, r) \in Policy
    BY <1>4, <2>1, ConditionTypes DEF Conditions
  <2>3. Advances
    BY <1>1, <1>4, <2>1, <2>2, ConditionOnly, StatusAdvances
  <2> QED
    BY <1>1, <1>3, <2>3 DEF StepShape
<1> QED
  BY <1>5, <1>6

LEMMA SyncPodsShape ==
  ASSUME TypeOK, SyncPods
  PROVE  StepShape
<1>1. work.pc = "pods" /\ UNCHANGED <<pol, cpol>>
  BY DEF SyncPods, caches
<1>2. work'.pc = "decide" /\ work'.p = work.p /\ work'.base = work.base /\ work'.obj = work.obj
  BY DEF SyncPods, TypeOK, Work
<1>3. \A p \in Policies : probed'[p] = probed[p] \/ p = work.p
  BY DEF SyncPods, Store!Sync, TypeOK, Store!StoreTypeOK
<1> QED
  BY <1>1, <1>2, <1>3 DEF StepShape, Advances

LEMMA DecideShape ==
  ASSUME TypeOK, Decide
  PROVE  StepShape
<1>1. work.pc = "decide" /\ UNCHANGED <<pol, cpol, probed>>
  BY DEF Decide, caches, Store!SetSeenReady
<1>2. work.obj \in Policy /\ clock \in Nat
  BY EnvironmentAssumption DEF TypeOK, Work
<1> DEFINE U == sick[work.p] \cap seen'[work.p]
           v == Verdict(work.obj, work.dep, U, Cardinality(probed[work.p]), clock)
           healthy == [work.obj EXCEPT !.attempts = 0]
<1>3. \/ \E r \in {"RolloutStalled", "SystemicFailure", "CircuitOpen"} : ToStatus(SetDegraded(work.obj, r), TRUE)
      \/ ToStatus(SetHealthy(healthy), TRUE)
      \/ ToStatus(SetRemediating(work.obj), TRUE)
      \/ v = "Remediate" /\ work' = [work EXCEPT !.pc = "act", !.todo = U, !.acted = 0, !.now = clock]
  BY DEF Decide
<1>4. /\ healthy \in Policy /\ healthy.live = work.obj.live /\ healthy.fin = work.obj.fin
      /\ healthy.deleting = work.obj.deleting /\ healthy.last = work.obj.last /\ healthy.attempts = 0
  BY <1>2 DEF Policy
<1>5. v = "Remediate" => SpacedFrom(clock, work.obj.last)
  <2>1. ~CooldownActive(work.obj.last, Cooldown * Sec, clock) => SpacedFrom(clock, work.obj.last)
    <3>1. Cooldown * Sec \in Nat /\ (Cooldown # 0 => Cooldown * Sec > 0)
      BY PolicyAssumption, ClusterAssumption
    <3>2. work.obj.last \in Int
      BY <1>2 DEF Policy
    <3> QED
      BY <1>2, <3>1, <3>2 DEF CooldownActive, SpacedFrom
  <2>2. v = "Remediate" => ~CooldownActive(work.obj.last, Cooldown * Sec, clock)
    BY DEF Verdict, CooldownDuration
  <2> QED
    BY <2>1, <2>2
<1> HIDE DEF U, v, healthy
<1>6. Advances
  <2>1. ASSUME NEW r \in {"RolloutStalled", "SystemicFailure", "CircuitOpen"}, ToStatus(SetDegraded(work.obj, r), TRUE)
        PROVE  Advances
    <3>1. SetDegraded(work.obj, r) \in Policy
      BY <1>2, <2>1, ConditionTypes DEF Conditions
    <3> QED
      BY <1>1, <1>2, <2>1, <3>1, ConditionOnly, StatusAdvances
  <2>2. CASE ToStatus(SetHealthy(healthy), TRUE)
    <3>1. SetHealthy(healthy) \in Policy
      BY <1>4, ConditionTypes DEF Conditions
    <3> QED
      BY <1>1, <1>4, <2>2, <3>1, ConditionOnly, StatusAdvances
  <2>3. CASE ToStatus(SetRemediating(work.obj), TRUE)
    <3>1. SetRemediating(work.obj) \in Policy
      BY <1>2, ConditionTypes DEF Conditions
    <3> QED
      BY <1>1, <1>2, <2>3, <3>1, ConditionOnly, StatusAdvances
  <2>4. CASE v = "Remediate" /\ work' = [work EXCEPT !.pc = "act", !.todo = U, !.acted = 0, !.now = clock]
    <3>1. /\ work'.pc = "act" /\ work'.p = work.p /\ work'.base = work.base
          /\ work'.obj = work.obj /\ work'.now = clock
      BY <2>4 DEF TypeOK, Work
    <3> QED
      BY <1>1, <1>5, <2>4, <3>1 DEF Advances
  <2> QED
    BY <1>3, <2>1, <2>2, <2>3, <2>4
<1> QED
  BY <1>1, <1>6 DEF StepShape

LEMMA ActShape ==
  ASSUME TypeOK, ActDone \/ ActRestart \/ (\E u \in Uids : ActDelete(u))
  PROVE  StepShape
<1>1. work.pc = "act" /\ UNCHANGED <<pol, probed>>
  BY DEF ActDone, ActRestart, ActDelete, store
<1>2. \A p \in Policies : cpol'[p] = cpol[p] \/ cpol'[p] = pol'[p]
  <2>1. UNCHANGED cpol \/ \E Q : Informed(Q)
    BY DEF ActDone, ActRestart, ActDelete, Return, caches
  <2> QED
    BY <2>1, InformedCache
<1>3. work.obj \in Policy /\ work.now \in Nat /\ Recorded(work.obj, work.now) \in Policy
  BY RecordedType DEF TypeOK, Work
<1>4. \/ ToStatus(Recorded(work.obj, work.now), TRUE)
      \/ work' = Idle
      \/ \E u \in Uids : \/ work' = [work EXCEPT !.todo = @ \ {u}]
                         \/ work' = [work EXCEPT !.todo = @ \ {u}, !.acted = @ + 1]
  BY DEF ActDone, ActRestart, ActDelete, Return
<1>5. CASE ToStatus(Recorded(work.obj, work.now), TRUE)
  <2>1. Advances
    BY <1>1, <1>3, <1>5, RecordedOnly, StatusAdvances
  <2> QED
    BY <1>1, <1>2, <2>1 DEF StepShape
<1>6. CASE work' = Idle
  BY <1>1, <1>2, <1>6 DEF StepShape, Idle, NoWork
<1>7. CASE \E u \in Uids : \/ work' = [work EXCEPT !.todo = @ \ {u}]
                           \/ work' = [work EXCEPT !.todo = @ \ {u}, !.acted = @ + 1]
  <2>1. /\ work'.pc = work.pc /\ work'.p = work.p /\ work'.base = work.base
        /\ work'.obj = work.obj /\ work'.now = work.now
    BY <1>7 DEF TypeOK, Work
  <2>2. Advances
    BY <1>1, <2>1 DEF Advances
  <2> QED
    BY <1>1, <1>2, <2>2 DEF StepShape
<1> QED
  BY <1>4, <1>5, <1>6, <1>7

LEMMA WriteShape ==
  ASSUME TypeOK, UpdateFinalizer \/ Finish
  PROVE  StepShape
<1>1. work.pc \in {"finalizer", "status"} /\ UNCHANGED probed /\ work' = Idle
  BY DEF UpdateFinalizer, Finish, WritePolicy, Return, store
<1>2. \A p \in Policies : cpol'[p] = cpol[p] \/ cpol'[p] = pol'[p]
  <2>1. \E Q : Informed(Q)
    BY DEF UpdateFinalizer, Finish, WritePolicy, Return
  <2> QED
    BY <2>1, InformedCache
<1>3. work'.pc = "idle"
  BY <1>1 DEF Idle, NoWork
<1>4. pol' = pol \/ Writes
  <2>1. CASE UpdateFinalizer
    BY <2>1, <1>3 DEF UpdateFinalizer, WritePolicy, Unchanged, Writes
  <2>2. CASE Finish
    BY <2>2, <1>3 DEF Finish, WritePolicy, Unchanged, Writes
  <2> QED
    BY <2>1, <2>2
<1> QED
  BY <1>1, <1>2, <1>3, <1>4 DEF StepShape

LEMMA UserShape ==
  ASSUME TypeOK, User
  PROVE  StepShape
<1>1. UNCHANGED <<work, probed>>
  BY DEF User, store
<1>2. \A p \in Policies : cpol'[p] = cpol[p] \/ cpol'[p] = pol'[p]
  BY InformedCache DEF User
<1>3. PICK p \in Policies : (\E t \in Targets : CreatePolicy(p, t)) \/ Edit(p) \/ DeletePolicy(p)
  BY DEF User
<1>4. pol[p] \in Policy /\ pol \in [Policies -> Policy]
  BY DEF TypeOK
<1>5. \A q \in Policies \ {p} : pol'[q] = pol[q]
  BY <1>3, <1>4 DEF CreatePolicy, Edit, DeletePolicy
<1>6. Edits(p)
  <2>1. ASSUME NEW t \in Targets, CreatePolicy(p, t)
        PROVE  Edits(p)
    BY <1>4, <2>1 DEF CreatePolicy, Edits, Gone
  <2>2. CASE Edit(p)
    <3>1. \/ \E t \in Targets : pol'[p] = [pol[p] EXCEPT !.target = t]
          \/ pol'[p] = [pol[p] EXCEPT !.valid = ~@]
          \/ pol'[p] = [pol[p] EXCEPT !.dry = ~@]
      BY <1>4, <2>2 DEF Edit
    <3>2. /\ pol'[p].live = pol[p].live /\ pol'[p].fin = pol[p].fin /\ pol'[p].last = pol[p].last
          /\ pol'[p].deleting = pol[p].deleting /\ pol'[p].attempts = pol[p].attempts
      BY <1>4, <3>1 DEF Policy
    <3> QED
      BY <2>2, <3>2 DEF Edit, Edits
  <2>3. CASE DeletePolicy(p)
    <3>1. CASE pol[p].fin
      <4>1. pol'[p] = [pol[p] EXCEPT !.deleting = TRUE]
        BY <1>4, <2>3, <3>1 DEF DeletePolicy
      <4>2. /\ pol'[p].live = pol[p].live /\ pol'[p].fin = pol[p].fin /\ pol'[p].last = pol[p].last
            /\ pol'[p].deleting = TRUE /\ pol'[p].attempts = pol[p].attempts
        BY <1>4, <4>1 DEF Policy
      <4> QED
        BY <2>3, <3>1, <4>2 DEF DeletePolicy, Edits
    <3>2. CASE ~pol[p].fin
      BY <1>4, <2>3, <3>2 DEF DeletePolicy, Edits
    <3> QED
      BY <3>1, <3>2
  <2> QED
    BY <1>3, <2>1, <2>2, <2>3
<1> QED
  BY <1>1, <1>2, <1>5, <1>6 DEF StepShape

LEMMA NextShape == TypeOK /\ [Next]_vars => StepShape
<1> SUFFICES ASSUME TypeOK, [Next]_vars PROVE StepShape
  OBVIOUS
<1>1. CASE \E p \in Policies : Begin(p)
  BY <1>1, BeginStarts DEF StepShape
<1>2. CASE Deliver
  <2>1. UNCHANGED <<pol, work, probed>>
    BY <1>2 DEF Deliver, DeliverPolicy, DeliverDeployment, DeliverPod, store
  <2>2. \A p \in Policies : cpol'[p] = cpol[p] \/ cpol'[p] = pol'[p]
    BY <1>2 DEF Deliver, DeliverPolicy, DeliverDeployment, DeliverPod, TypeOK
  <2> QED
    BY <2>1, <2>2 DEF StepShape
<1>3. CASE \E p \in Policies, u \in Uids : ProbeVerdict(p, u)
  BY <1>3 DEF ProbeVerdict, Store!Flip, caches, StepShape
<1>4. CASE Kubernetes \/ Trouble
  <2>1. UNCHANGED <<pol, work, probed>> /\ Informed(pending)
    BY <1>4 DEF Kubernetes, Trouble, controller, store
  <2> QED
    BY <2>1, InformedCache DEF StepShape
<1>5. CASE Crash
  <2>1. work'.pc = "idle" /\ UNCHANGED pol /\ cpol' = pol
    BY <1>5 DEF Crash, Idle, NoWork
  <2>2. \A p \in Policies : probed'[p] = {}
    BY <1>5 DEF Crash
  <2> QED
    BY <2>1, <2>2 DEF StepShape
<1>6. CASE Tick
  BY <1>6 DEF Tick, caches, store, StepShape
<1>7. CASE UNCHANGED vars
  BY <1>7 DEF vars, caches, store, StepShape
<1> QED
  BY <1>1, <1>2, <1>3, <1>4, <1>5, <1>6, <1>7, WriteShape, ResolveShape, SyncPodsShape,
     DecideShape, ActShape, UserShape DEF Next, Living, Reconcile
-----------------------------------------------------------------------------
LEMMA ReleaseInit == Init => Release
<1> SUFFICES ASSUME Init PROVE Release
  OBVIOUS
<1>1. work.pc = "idle" /\ cpol = pol
  BY DEF Init, Idle, NoWork
<1>2. \A p \in Policies : probed[p] = {}
  BY DEF Init, Store!StoreInit
<1>3. \A p \in Policies : ~pol[p].live => pol[p] = Gone
  BY DEF Init, Gone
<1> QED
  BY <1>1, <1>2, <1>3 DEF Release, GoneIsGone, WorkCopies, ProbedHeld, CacheHeld, WorkHeld, Kept, Held, Leaving

LEMMA ReleaseStep == TypeOK /\ Release /\ StepShape => Release'
<1> SUFFICES ASSUME TypeOK, Release, StepShape PROVE Release'
  OBVIOUS
<1> USE DEF Held, Kept, Leaving
<1>0. /\ pol \in [Policies -> Policy] /\ work.p \in Policies /\ work.obj \in Policy /\ work.base \in Policy
      /\ ~Gone.live /\ ~Gone.fin
  BY DEF TypeOK, Work, Gone
<1>1. CASE (work' = work \/ work'.pc = "idle") /\ pol' = pol
  <2>1. GoneIsGone' /\ WorkCopies'
    BY <1>1 DEF Release, GoneIsGone, WorkCopies
  <2>2. ProbedHeld'
    BY <1>1 DEF Release, ProbedHeld, WorkHeld, StepShape
  <2>3. CacheHeld'
    BY <1>1 DEF Release, CacheHeld, StepShape
  <2>4. WorkHeld'
    BY <1>0, <1>1 DEF Release, WorkHeld, StepShape
  <2> QED
    BY <2>1, <2>2, <2>3, <2>4 DEF Release
<1>2. CASE /\ work' = work /\ probed' = probed
           /\ \E p \in Policies : Edits(p) /\ \A q \in Policies \ {p} : pol'[q] = pol[q]
  <2> PICK p \in Policies : Edits(p) /\ \A q \in Policies \ {p} : pol'[q] = pol[q]
    BY <1>2
  <2>1. GoneIsGone' /\ WorkCopies'
    BY <1>2 DEF Release, GoneIsGone, WorkCopies, Edits
  <2>2. ProbedHeld'
    BY <1>2 DEF Release, ProbedHeld, Edits
  <2>3. ~pol[p].live => ~pol[p].fin
    BY <1>0 DEF Release, GoneIsGone
  <2>4. CacheHeld'
    BY <1>0, <1>2, <2>3 DEF Release, CacheHeld, StepShape, Edits
  <2>5. WorkHeld'
    BY <1>0, <1>2, <2>3 DEF Release, WorkHeld, CacheHeld, StepShape, Edits
  <2> QED
    BY <2>1, <2>2, <2>4, <2>5 DEF Release
<1>3. CASE Writes /\ probed' = probed
  <2>1. WorkCopies' /\ WorkHeld'
    BY <1>3 DEF Writes, WorkCopies, WorkHeld
  <2>2. \A q \in Policies \ {work.p} : pol'[q] = pol[q]
    BY <1>0, <1>3 DEF Writes
  <2>3. CASE work.pc = "finalizer" /\ work.obj.deleting
    <3>1. pol'[work.p] = Gone
      BY <1>0, <1>3, <2>3 DEF Writes
    <3>2. GoneIsGone' /\ ProbedHeld'
      BY <1>0, <1>3, <2>2, <2>3, <3>1 DEF Release, GoneIsGone, ProbedHeld, WorkHeld
    <3>3. CacheHeld'
      BY <1>0, <2>2, <2>3, <3>1 DEF Release, CacheHeld, WorkHeld, StepShape
    <3> QED
      BY <2>1, <3>2, <3>3 DEF Release
  <2>4. CASE work.pc = "finalizer" /\ ~work.obj.deleting
    <3>1. pol'[work.p] = work.obj /\ pol[work.p] = work.base
      BY <1>0, <1>3, <2>4 DEF Writes
    <3>2. work.obj.live /\ work.obj.fin /\ ~pol[work.p].fin
      BY <2>4, <3>1 DEF Release, WorkCopies
    <3>3. GoneIsGone' /\ ProbedHeld'
      BY <1>0, <1>3, <2>2, <3>1, <3>2 DEF Release, GoneIsGone, ProbedHeld
    <3>4. CacheHeld'
      BY <1>0, <2>2, <2>4, <3>1, <3>2 DEF Release, CacheHeld, WorkHeld, StepShape
    <3> QED
      BY <2>1, <3>3, <3>4 DEF Release
  <2>5. CASE work.pc = "status"
    <3>1. pol'[work.p] = work.obj /\ pol[work.p] = work.base
      BY <1>0, <1>3, <2>5 DEF Writes
    <3>2. /\ work.obj.live /\ work.obj.fin /\ pol[work.p].fin
          /\ work.obj.deleting = pol[work.p].deleting /\ pol[work.p].live
      BY <2>5, <3>1 DEF Release, WorkCopies
    <3>3. GoneIsGone' /\ ProbedHeld'
      BY <1>0, <1>3, <2>2, <3>1, <3>2 DEF Release, GoneIsGone, ProbedHeld
    <3>4. CacheHeld'
      BY <1>0, <2>2, <3>1, <3>2 DEF Release, CacheHeld, StepShape
    <3> QED
      BY <2>1, <3>3, <3>4 DEF Release
  <2> QED
    BY <1>3, <2>3, <2>4, <2>5 DEF Writes
<1>4. CASE (\E p \in Policies : Starts(p)) /\ pol' = pol /\ cpol' = cpol
  <2> PICK p \in Policies : Starts(p)
    BY <1>4
  <2>1. GoneIsGone' /\ CacheHeld'
    BY <1>4 DEF Release, GoneIsGone, CacheHeld
  <2>2. WorkCopies'
    BY DEF Starts, WorkCopies
  <2>3. ProbedHeld'
    BY <1>4 DEF Release, ProbedHeld, StepShape, Starts
  <2>4. WorkHeld'
    BY <1>4 DEF Release, CacheHeld, WorkHeld, Starts
  <2> QED
    BY <2>1, <2>2, <2>3, <2>4 DEF Release
<1>5. CASE Advances /\ pol' = pol
  <2>1. GoneIsGone' /\ WorkCopies'
    BY <1>5 DEF Release, GoneIsGone, WorkCopies, Advances
  <2>2. ProbedHeld'
    BY <1>5 DEF Release, ProbedHeld, WorkHeld, StepShape
  <2>3. CacheHeld'
    BY <1>5 DEF Release, CacheHeld, StepShape
  <2>4. WorkHeld'
    BY <1>5 DEF Release, WorkHeld, Advances
  <2> QED
    BY <2>1, <2>2, <2>3, <2>4 DEF Release
<1> QED
  BY <1>1, <1>2, <1>3, <1>4, <1>5 DEF StepShape

(***************************************************************************)
(* A policy that is gone has no probers, whatever was cached when it went: *)
(* Forget precedes the release of the finalizer (handleDeletion) and no    *)
(* later Sync belongs to a policy without one.                             *)
(***************************************************************************)
THEOREM ProbersReleased == Spec => []NoOrphanProbers
<1>1. Release => NoOrphanProbers
  BY DEF Release, ProbedHeld, Held, NoOrphanProbers
<1>2. TypeOK /\ Release /\ [Next]_vars => Release'
  BY NextShape, ReleaseStep
<1> QED
  BY <1>1, <1>2, TypeCorrect, ReleaseInit, PTL DEF Spec
-----------------------------------------------------------------------------
(***************************************************************************)
(* The spacing of recorded remediations.                                   *)
(*                                                                         *)
(* The cooldown is measured from the decision, but the time saved is cut   *)
(* to whole seconds (metav1.Time): the spacing survives because the saved  *)
(* times it is measured from are whole seconds themselves and the cooldown *)
(* is a whole number of them.                                              *)
(***************************************************************************)
Aligned(t) == t = Never \/ \E k \in Nat : t = k * Sec

Spacing ==
  /\ \A p \in Policies : Aligned(pol[p].last) /\ Aligned(cpol[p].last)
  /\ work.pc # "idle" => Aligned(work.base.last) /\ Aligned(work.obj.last)
  /\ work.pc \notin {"idle", "status"} =>
       work.obj.last = work.base.last /\ work.obj.attempts = work.base.attempts
  /\ work.pc = "act" => SpacedFrom(work.now, work.base.last)
  /\ work.pc = "status" =>
       \/ work.obj.last = work.base.last /\ work.obj.attempts \in {work.base.attempts, 0}
       \/ SpacedFrom(work.obj.last, work.base.last)

LEMMA TruncateAligned ==
  ASSUME NEW t \in Nat
  PROVE  Aligned(Truncate(t, Sec)) /\ t \div Sec \in Nat
<1>1. t \div Sec \in Nat
  BY ClusterAssumption
<1> QED
  BY <1>1 DEF Aligned, Truncate

\* Cutting the later time to whole seconds loses none of the spacing.
LEMMA TruncateSpaced ==
  ASSUME NEW t \in Nat, NEW last \in Int, Aligned(last), SpacedFrom(t, last)
  PROVE  SpacedFrom(Truncate(t, Sec), last)
<1>1. CASE last = Never \/ Cooldown = 0
  BY <1>1 DEF SpacedFrom
<1>2. ASSUME NEW k \in Nat, last = k * Sec, last # Never, Cooldown # 0
      PROVE  SpacedFrom(Truncate(t, Sec), last)
  <2> DEFINE q == t \div Sec
             n == Cooldown + k
  <2>1. Sec \in Nat /\ Sec > 0 /\ Cooldown \in Nat /\ q \in Nat /\ n \in Nat
    BY ClusterAssumption, PolicyAssumption, TruncateAligned
  <2>2. t < q * Sec + Sec
    BY <2>1
  <2>3. t >= n * Sec
    <3>1. t - k * Sec >= Cooldown * Sec
      BY <1>2 DEF SpacedFrom
    <3> QED
      BY <2>1, <3>1
  <2> HIDE DEF q, n
  <2>4. q >= n
    <3> SUFFICES ASSUME q + 1 <= n PROVE FALSE
      BY <2>1
    <3>1. (q + 1) * Sec <= n * Sec
      BY <2>1
    <3>2. (q + 1) * Sec = q * Sec + Sec
      BY <2>1
    <3>3. q * Sec \in Nat /\ n * Sec \in Nat
      BY <2>1
    <3> QED
      BY <2>1, <2>2, <2>3, <3>1, <3>2, <3>3
  <2>5. q * Sec >= n * Sec
    BY <2>1, <2>4
  <2>6. q * Sec - k * Sec >= Cooldown * Sec
    <3>1. n * Sec = Cooldown * Sec + k * Sec
      BY <2>1 DEF n
    <3>2. q * Sec \in Nat /\ k * Sec \in Nat /\ Cooldown * Sec \in Nat
      BY <2>1
    <3> QED
      BY <2>5, <3>1, <3>2
  <2> QED
    BY <1>2, <2>6 DEF SpacedFrom, Truncate, q
<1> QED
  BY <1>1, <1>2 DEF Aligned

LEMMA SpacingInit == Init => Spacing
<1> SUFFICES ASSUME Init PROVE Spacing
  OBVIOUS
<1>1. work.pc = "idle" /\ cpol = pol
  BY DEF Init, Idle, NoWork
<1>2. \A p \in Policies : pol[p].last = Never
  BY DEF Init, Gone
<1> QED
  BY <1>1, <1>2 DEF Spacing, Aligned

LEMMA SpacingStep == TypeOK /\ Release /\ Spacing /\ StepShape => Spacing'
<1> SUFFICES ASSUME TypeOK, Release, Spacing, StepShape PROVE Spacing'
  OBVIOUS
<1>0. /\ pol \in [Policies -> Policy] /\ work.p \in Policies /\ work.obj \in Policy /\ work.base \in Policy
      /\ work.now \in Nat /\ Gone.last = Never /\ Aligned(Never) /\ work.base.last \in Int
  BY DEF TypeOK, Work, Gone, Aligned, Policy
<1>1. \A p \in Policies : Aligned(pol'[p].last) => Aligned(cpol'[p].last)
  BY DEF StepShape, Spacing
<1>2. CASE (work' = work \/ work'.pc = "idle") /\ pol' = pol
  BY <1>1, <1>2 DEF Spacing
<1>3. CASE /\ work' = work
           /\ \E p \in Policies : Edits(p) /\ \A q \in Policies \ {p} : pol'[q] = pol[q]
  <2>1. \A q \in Policies : Aligned(pol'[q].last)
    BY <1>0, <1>3 DEF Spacing, Edits
  <2> QED
    BY <1>1, <1>3, <2>1 DEF Spacing
<1>4. CASE Writes
  <2>1. \A q \in Policies : Aligned(pol'[q].last)
    BY <1>0, <1>4 DEF Spacing, Writes
  <2> QED
    BY <1>1, <1>4, <2>1 DEF Spacing, Writes
<1>5. CASE (\E p \in Policies : Starts(p)) /\ pol' = pol /\ cpol' = cpol
  BY <1>5 DEF Spacing, Starts
<1>6. CASE Advances /\ pol' = pol
  <2>1. work.obj.last = work.base.last /\ Aligned(work.base.last)
    BY <1>6 DEF Advances, Spacing
  <2>2. work.pc = "act" => /\ SpacedFrom(Truncate(work.now, Sec), work.base.last)
                           /\ Aligned(Truncate(work.now, Sec))
    BY <1>0, <2>1, TruncateSpaced, TruncateAligned DEF Spacing
  <2> QED
    BY <1>1, <1>6, <2>1, <2>2 DEF Spacing, Advances
<1> QED
  BY <1>2, <1>3, <1>4, <1>5, <1>6 DEF StepShape

(***************************************************************************)
(* Two remediations recorded in the status of a policy are at least        *)
(* CooldownSeconds apart, whatever is stale, lost or restarted: a decision *)
(* taken on an outdated LastRemediation is rejected by the API server when *)
(* finish writes it.  (A cooldown of zero is no cooldown.)                 *)
(***************************************************************************)
THEOREM RecordsSpaced ==
  ASSUME Cooldown > 0
  PROVE  Spec => RecordedSpacing
<1> DEFINE Spaced == \A p \in Policies :
             pol'[p].attempts > pol[p].attempts /\ pol[p].last # Never
               => pol'[p].last - pol[p].last >= Cooldown * Sec
<1>1. TypeOK /\ Release /\ [Next]_vars => Release'
  BY NextShape, ReleaseStep
<1>2. TypeOK /\ Release /\ Spacing /\ [Next]_vars => Spacing'
  BY NextShape, SpacingStep
<1>3. TypeOK /\ Release /\ Spacing /\ [Next]_vars => Spaced
  <2> SUFFICES ASSUME TypeOK, Release, Spacing, StepShape, NEW p \in Policies,
                      pol'[p].attempts > pol[p].attempts, pol[p].last # Never
               PROVE  pol'[p].last - pol[p].last >= Cooldown * Sec
    BY NextShape
  <2>1. /\ pol \in [Policies -> Policy] /\ work.p \in Policies /\ pol[p].attempts \in Nat
        /\ Gone.last = Never /\ Gone.attempts = 0 /\ ~(0 > pol[p].attempts) /\ work.base.attempts \in Nat
    BY DEF TypeOK, Work, Gone, Policy
  <2>2. pol' # pol
    BY <2>1
  <2>3. CASE \E q \in Policies : Edits(q) /\ \A r \in Policies \ {q} : pol'[r] = pol[r]
    BY <2>1, <2>3 DEF Edits, Release, GoneIsGone
  <2>4. CASE Writes
    <3>1. p = work.p /\ pol'[p] = work.obj /\ pol[p] = work.base
      BY <2>1, <2>4 DEF Writes
    <3>2. Cooldown # 0
      BY PolicyAssumption
    <3> QED
      BY <2>1, <2>4, <3>1, <3>2 DEF Writes, Spacing, SpacedFrom
  <2> QED
    BY <2>2, <2>3, <2>4 DEF StepShape
<1>4. TypeOK /\ Release /\ Spacing /\ [Next]_vars => [Spaced]_vars
  BY <1>3
<1> QED
  BY <1>1, <1>2, <1>4, TypeCorrect, ReleaseInit, SpacingInit, PTL DEF Spec, RecordedSpacing
=============================================================================
