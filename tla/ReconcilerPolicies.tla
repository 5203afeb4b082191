------------------------- MODULE ReconcilerPolicies -------------------------
(***************************************************************************)
(* What becomes of a policy in the reconciler's hands, for every number of *)
(* policies and pods, every set of lagging caches and any amount of        *)
(* trouble: its life is the one PolicyLife allows, and no valid policy is  *)
(* ever forgotten by the work queue.                                       *)
(***************************************************************************)
EXTENDS ReconcilerSafety

(***************************************************************************)
(* The finalizer protocol.                                                 *)
(***************************************************************************)
\* One policy moves, the probers stay.
LEMMA OneMoves ==
  ASSUME NEW p \in Policies, probed' = probed, \A q \in Policies \ {p} : pol'[q] = pol[q],
         NEW a, NEW b, LifeOf(pol[p]) = a, LifeOf(pol'[p]) = b
  PROVE  Life!Moves(p, a, b)
<1>1. Lives[p] = a /\ Lives' = [Lives EXCEPT ![p] = b]
  BY DEF Lives
<1>2. Probing' = Probing
  BY DEF Probing
<1> QED
  BY <1>1, <1>2 DEF Life!Moves

\* ... or is the same in everything its life depends on.
LEMMA NoneMoves ==
  ASSUME probed' = probed, \A q \in Policies : LifeOf(pol'[q]) = LifeOf(pol[q])
  PROVE  UNCHANGED <<Lives, Probing>>
  BY DEF Lives, Probing

\* The policies stay, probers start or stop.
LEMMA ProbersMove ==
  ASSUME TypeOK, Release, StepShape, pol' = pol
  PROVE  Life!Next \/ UNCHANGED <<Lives, Probing>>
<1>1. Lives' = Lives
  BY DEF Lives
<1>2. CASE \A p \in Policies : probed'[p] = probed[p] \/ probed'[p] = {}
  <2>1. Probing' \in SUBSET Probing
    BY <1>2 DEF Probing
  <2> QED
    BY <1>1, <2>1 DEF Life!Next, Life!Quit
<1>3. CASE work.pc = "pods" /\ \A p \in Policies \ {work.p} : probed'[p] = probed[p]
  <2>1. work.p \in Policies
    BY DEF TypeOK, Work
  <2>2. Lives[work.p] \in {"held", "ending"}
    BY <1>3, <2>1 DEF Release, WorkHeld, Held, Lives, LifeOf
  <2>3. CASE probed'[work.p] # {}
    <3>1. Probing' = Probing \cup {work.p}
      BY <1>3, <2>1, <2>3 DEF Probing
    <3> QED
      BY <1>1, <2>1, <2>2, <3>1 DEF Life!Next, Life!Probe
  <2>4. CASE probed'[work.p] = {}
    <3>1. Probing' \in SUBSET Probing
      BY <1>3, <2>4 DEF Probing
    <3> QED
      BY <1>1, <3>1 DEF Life!Next, Life!Quit
  <2> QED
    BY <2>3, <2>4
<1> QED
  BY <1>2, <1>3 DEF StepShape

LEMMA EditsLive ==
  ASSUME TypeOK, Release, NEW p \in Policies, probed' = probed,
         Edits(p), \A q \in Policies \ {p} : pol'[q] = pol[q]
  PROVE  Life!Next \/ UNCHANGED <<Lives, Probing>>
<1>1. CASE ~pol[p].live /\ pol'[p].live /\ ~pol'[p].fin /\ ~pol'[p].deleting
  <2>1. Life!Create(p)
    BY <1>1, OneMoves DEF Life!Create, LifeOf
  <2> QED
    BY <2>1 DEF Life!Next
<1>2. CASE /\ pol[p].live /\ pol'[p].live /\ pol'[p].fin = pol[p].fin
           /\ pol'[p].deleting = pol[p].deleting \/ (pol'[p].deleting /\ pol[p].fin)
  <2>1. CASE pol'[p].deleting = pol[p].deleting
    BY <1>2, <2>1, NoneMoves DEF LifeOf
  <2>2. CASE pol'[p].deleting # pol[p].deleting
    <3>1. pol'[p].deleting /\ pol[p].fin /\ ~pol[p].deleting
      <4>1. pol[p].deleting \in BOOLEAN
        BY DEF TypeOK, Policy
      <4> QED
        BY <1>2, <2>2, <4>1
    <3>2. Life!End(p)
      BY <1>2, <3>1, OneMoves DEF Life!End, LifeOf
    <3> QED
      BY <3>2 DEF Life!Next
  <2> QED
    BY <2>1, <2>2
<1>3. CASE pol[p].live /\ ~pol[p].fin /\ pol'[p] = Gone
  <2>1. p \notin Probing /\ LifeOf(pol'[p]) = "absent"
    BY <1>3 DEF Release, ProbedHeld, Held, Probing, LifeOf, Gone
  <2>2. CASE pol[p].deleting
    <3>1. Life!Release(p)
      BY <1>3, <2>1, <2>2, OneMoves DEF Life!Release, LifeOf
    <3> QED
      BY <3>1 DEF Life!Next
  <2>3. CASE ~pol[p].deleting
    <3>1. Life!Drop(p)
      BY <1>3, <2>1, <2>3, OneMoves DEF Life!Drop, LifeOf
    <3> QED
      BY <3>1 DEF Life!Next
  <2> QED
    BY <2>2, <2>3
<1> QED
  BY <1>1, <1>2, <1>3 DEF Edits

LEMMA WritesLive ==
  ASSUME TypeOK, Release, Writes, probed' = probed
  PROVE  Life!Next \/ UNCHANGED <<Lives, Probing>>
<1> DEFINE p == work.p
<1>1. p \in Policies /\ pol \in [Policies -> Policy]
  BY DEF TypeOK, Work
<1>2. \A q \in Policies \ {p} : pol'[q] = pol[q]
  BY <1>1 DEF Writes
<1>3. CASE work.pc = "finalizer" /\ work.obj.deleting
  <2>1. pol'[p] = Gone /\ LifeOf(pol'[p]) = "absent"
    BY <1>1, <1>3 DEF Writes, LifeOf, Gone
  <2>2. LifeOf(pol[p]) = "ending" /\ p \notin Probing
    BY <1>1, <1>3 DEF Writes, Release, WorkCopies, WorkHeld, LifeOf, Probing
  <2>3. Life!Release(p)
    BY <1>1, <1>2, <2>1, <2>2, OneMoves DEF Life!Release
  <2> QED
    BY <1>1, <2>3 DEF Life!Next
<1>4. CASE work.pc = "finalizer" /\ ~work.obj.deleting
  <2>1. pol'[p] = work.obj /\ pol[p] = work.base
    BY <1>1, <1>4 DEF Writes
  <2>2. LifeOf(pol[p]) = "new" /\ LifeOf(pol'[p]) = "held"
    BY <1>4, <2>1 DEF Release, WorkCopies, LifeOf
  <2>3. Life!Adopt(p)
    BY <1>1, <1>2, <2>2, OneMoves DEF Life!Adopt
  <2> QED
    BY <1>1, <2>3 DEF Life!Next
<1>5. CASE work.pc = "status"
  <2>1. pol'[p] = work.obj /\ pol[p] = work.base
    BY <1>1, <1>5 DEF Writes
  <2>2. LifeOf(pol'[p]) = LifeOf(pol[p])
    BY <1>5, <2>1 DEF Release, WorkCopies, LifeOf
  <2> QED
    BY <1>2, <2>2, NoneMoves
<1> QED
  BY <1>3, <1>4, <1>5 DEF Writes

(***************************************************************************)
(* The finalizer protocol of Reconcile keeps the promise of PolicyLife: no *)
(* probers for a policy that is not yet, or no longer, held, whatever      *)
(* copies the calls work on and whichever of their writes are lost.        *)
(***************************************************************************)
THEOREM FinalizerProtocol == Spec => ImplementsLife
<1>1. Init => Life!Init
  <2> SUFFICES ASSUME Init PROVE Life!Init
    OBVIOUS
  <2>1. \A p \in Policies : LifeOf(pol[p]) \in {"absent", "new"}
    BY DEF Init, LifeOf, Gone
  <2>2. Lives \in [Policies -> {"absent", "new"}]
    BY <2>1 DEF Lives
  <2>3. Probing = {}
    BY DEF Init, Store!StoreInit, Probing
  <2> QED
    BY <2>2, <2>3 DEF Life!Init
<1>2. TypeOK /\ Release /\ [Next]_vars => [Life!Next]_<<Lives, Probing>>
  <2> SUFFICES ASSUME TypeOK, Release, StepShape
               PROVE  Life!Next \/ UNCHANGED <<Lives, Probing>>
    BY NextShape
  <2> QED
    BY ProbersMove, EditsLive, WritesLive DEF StepShape
<1>3. TypeOK /\ Release /\ [Next]_vars => Release'
  BY NextShape, ReleaseStep
<1> QED
  BY <1>1, <1>2, <1>3, TypeCorrect, ReleaseInit, PTL DEF Spec, ImplementsLife, Life!Spec
-----------------------------------------------------------------------------
(***************************************************************************)
(* The work queue.                                                         *)
(*                                                                         *)
(* NeverForgotten is not inductive: it says nothing about the copy a call  *)
(* works on, nor about an object that is gone while its cached copy is     *)
(* not.  Watched adds why a policy may be out of the queue at all (Quiet): *)
(* its cached copy is gone or invalid, or it is the last one of an object  *)
(* whose finalizer has been released, which the informer has yet to say.   *)
(* The two calls that end without asking to be called again leave just     *)
(* that, unless the cache has moved under them, and then the queue has an  *)
(* item.                                                                   *)
(***************************************************************************)
Working(p) == work.pc # "idle" /\ work.p = p

Quiet(p) ==
  \/ ~cpol[p].live
  \/ ~cpol[p].valid
  \/ cpol[p].fin /\ ~pol[p].fin

\* The API server marks an object for deletion only while it has a finalizer.
DeletingHeld ==
  \A p \in Policies : /\ pol[p].live /\ pol[p].deleting => pol[p].fin
                      /\ cpol[p].live /\ cpol[p].deleting => cpol[p].fin

Watched ==
  /\ \A p \in Policies : p \notin pending /\ ~Working(p) => Quiet(p)
  /\ work.pc # "idle" /\ work.p \notin pending => cpol[work.p] = work.base
  /\ work.pc = "status" /\ ~work.again => ~work.base.valid
-----------------------------------------------------------------------------
(***************************************************************************)
(* The steps, seen from the queue.                                         *)
(***************************************************************************)

\* Nothing is taken off the queue, and what the caches receive is put on it.
Queues ==
  /\ pending \subseteq pending'
  /\ \A p \in Policies : cpol'[p] # cpol[p] => p \in pending'

\* The worker does nothing meanwhile; finalizers are none of a user's business.
Stays == Queues /\ work' = work /\ \A p \in Policies : pol'[p].fin => pol[p].fin

Takes(p) ==
  /\ work.pc = "idle" /\ pending' = pending \ {p} /\ pol' = pol /\ cpol' = cpol
  /\ \/ work' = work /\ (~cpol[p].live \/ (cpol[p].deleting /\ ~cpol[p].fin))
     \/ /\ work'.pc # "idle" /\ work'.p = p /\ work'.base = cpol[p]
        /\ work'.pc = "status" => ~cpol[p].valid

Proceeds ==
  /\ Queues /\ pol' = pol
  /\ work.pc \notin {"idle", "status"} /\ work'.pc # "idle"
  /\ work'.p = work.p /\ work'.base = work.base
  /\ work'.pc = "status" => work'.again = TRUE

\* A call ends: it comes back, or it has released a finalizer or reported an
\* invalid probe.
Ends ==
  /\ Queues /\ work.pc # "idle" /\ work'.pc = "idle"
  /\ \A q \in Policies \ {work.p} : pol'[q] = pol[q]
  /\ \/ work.p \in pending'
     \/ work.pc = "finalizer" /\ work.obj.deleting /\ pol'[work.p] = Gone
     \/ work.pc = "status" /\ ~work.again

Restarts == cpol' = pol /\ pol' = pol /\ work'.pc = "idle" /\ pending' = {p \in Policies : pol[p].live}

QueueShape == Stays \/ (\E p \in Policies : Takes(p)) \/ Proceeds \/ Ends \/ Restarts

LEMMA InformedQueues ==
  ASSUME NEW Q, pending \subseteq Q, Informed(Q)
  PROVE  Queues
  BY DEF Informed, Enqueue, Queues

LEMMA BeginTakes ==
  ASSUME TypeOK, NEW p \in Policies, Begin(p)
  PROVE  Takes(p)
<1>1. /\ work.pc = "idle" /\ pending' = pending \ {p} /\ UNCHANGED <<pol, cpol>>
  BY DEF Begin, BeginGone, BeginDeletion, BeginAdoption, BeginInvalid, BeginGuarding, Take, caches
<1>2. ASSUME NEW o, NEW l, StartWork(p, l, o)
      PROVE  work'.pc = l /\ work'.p = p /\ work'.base = cpol[p]
  BY <1>2, IdleType DEF StartWork, Work
<1>3. CASE BeginGone(p)
  BY <1>1, <1>3 DEF BeginGone, Takes
<1>4. CASE BeginDeletion(p) \/ BeginAdoption(p) \/ BeginGuarding(p)
  <2>1. \E o : StartWork(p, "finalizer", o) \/ StartWork(p, "resolve", o)
    BY <1>4 DEF BeginDeletion, BeginAdoption, BeginGuarding
  <2> QED
    BY <1>1, <1>2, <2>1 DEF Takes
<1>5. CASE BeginInvalid(p)
  BY <1>1, <1>2, <1>5 DEF BeginInvalid, Takes
<1> QED
  BY <1>3, <1>4, <1>5 DEF Begin

\* A step of a call that neither reports, saves nor ends.
LEMMA StatusProceeds ==
  ASSUME TypeOK, Queues, pol' = pol, work.pc \in {"resolve", "decide", "act"},
         NEW o, ToStatus(o, TRUE)
  PROVE  Proceeds
<1>1. work'.pc = "status" /\ work'.p = work.p /\ work'.base = work.base /\ work'.again = TRUE
  BY DEF ToStatus, TypeOK, Work
<1> QED
  BY <1>1 DEF Proceeds

LEMMA ReadsProceed ==
  ASSUME TypeOK, ResolveNotFound \/ ResolveConflict \/ ResolveTarget \/ SyncPods \/ Decide \/ ActDone
  PROVE  Proceeds
<1>1. Queues /\ pol' = pol
  BY DEF ResolveNotFound, ResolveConflict, ResolveTarget, ResolveReads, SyncPods, Decide, ActDone,
         caches, Queues
<1>2. CASE \E o : ToStatus(o, TRUE)
  <2>1. work.pc \in {"resolve", "decide", "act"}
    <3>1. CASE SyncPods
      BY <1>2, <3>1 DEF SyncPods, ToStatus, TypeOK, Work
    <3>2. CASE ~SyncPods
      BY <3>2 DEF ResolveNotFound, ResolveConflict, ResolveTarget, ResolveReads, Decide, ActDone
    <3> QED
      BY <3>1, <3>2
  <2> QED
    BY <1>1, <1>2, <2>1, StatusProceeds
<1>3. CASE ResolveTarget \/ SyncPods \/ (Decide /\ ~\E o : ToStatus(o, TRUE))
  <2>1. /\ work.pc \in {"resolve", "pods", "decide"} /\ work'.pc \in {"pods", "decide", "act"}
        /\ work'.p = work.p /\ work'.base = work.base
    BY <1>3 DEF ResolveTarget, ResolveReads, SyncPods, Decide, TypeOK, Work
  <2> QED
    BY <1>1, <2>1 DEF Proceeds
<1> QED
  BY <1>2, <1>3 DEF ResolveNotFound, ResolveConflict, ActDone

\* Reconcile returns.
LEMMA ReturnEnds ==
  ASSUME TypeOK, NEW requeue \in BOOLEAN, Return(requeue), work.pc # "idle",
         \A q \in Policies \ {work.p} : pol'[q] = pol[q],
         \/ requeue
         \/ work.pc = "finalizer" /\ work.obj.deleting /\ pol'[work.p] = Gone
         \/ work.pc = "status" /\ ~work.again
  PROVE  Ends
<1> DEFINE Q == IF requeue THEN pending \cup {work.p} ELSE pending
<1>1. pending \subseteq Q /\ Informed(Q) /\ work'.pc = "idle"
  BY DEF Return, Idle, NoWork
<1>2. Queues
  BY <1>1, InformedQueues
<1>3. requeue => work.p \in pending'
  BY <1>1 DEF Informed, Enqueue
<1> QED
  BY <1>1, <1>2, <1>3 DEF Ends

LEMMA ActionsShape ==
  ASSUME TypeOK, ActRestart \/ (\E u \in Uids : ActDelete(u))
  PROVE  Proceeds \/ Ends
<1>1. work.pc = "act" /\ pol' = pol
  BY DEF ActRestart, ActDelete
<1>2. CASE Return(TRUE)
  BY <1>1, <1>2, ReturnEnds
<1>3. CASE ~Return(TRUE)
  <2>1. Queues
    <3>1. UNCHANGED <<cpol, pending>> \/ Informed(pending)
      BY <1>3 DEF ActRestart, ActDelete, caches
    <3> QED
      BY <3>1, InformedQueues DEF Queues
  <2>2. CASE \E o : ToStatus(o, TRUE)
    BY <1>1, <2>1, <2>2, StatusProceeds
  <2>3. CASE \E u \in Uids : \/ work' = [work EXCEPT !.todo = @ \ {u}]
                             \/ work' = [work EXCEPT !.todo = @ \ {u}, !.acted = @ + 1]
    <3>1. work'.pc = "act" /\ work'.p = work.p /\ work'.base = work.base
      BY <1>1, <2>3 DEF TypeOK, Work
    <3> QED
      BY <1>1, <2>1, <3>1 DEF Proceeds
  <2> QED
    BY <1>3, <2>2, <2>3 DEF ActRestart, ActDelete
<1> QED
  BY <1>2, <1>3

LEMMA WritesEnd ==
  ASSUME TypeOK, UpdateFinalizer \/ Finish
  PROVE  Ends
<1>1. work.p \in Policies /\ pol \in [Policies -> Policy] /\ work.obj.deleting \in BOOLEAN /\ work.again \in BOOLEAN
  BY DEF TypeOK, Work, Policy
<1>2. CASE Return(TRUE)
  <2>1. work.pc # "idle" /\ \A q \in Policies \ {work.p} : pol'[q] = pol[q]
    BY <1>1 DEF UpdateFinalizer, Finish, WritePolicy
  <2> QED
    BY <1>2, <2>1, ReturnEnds
<1>3. CASE UpdateFinalizer /\ ~Return(TRUE)
  <2>1. /\ work.pc = "finalizer" /\ Return(~work.obj.deleting)
        /\ pol' = [pol EXCEPT ![work.p] = IF work.obj.deleting THEN Gone ELSE work.obj]
    BY <1>3 DEF UpdateFinalizer, WritePolicy
  <2> QED
    BY <1>1, <2>1, ReturnEnds
<1>4. CASE Finish /\ ~Return(TRUE)
  <2>1. work.pc = "status" /\ Return(work.again) /\ pol' = [pol EXCEPT ![work.p] = work.obj]
    BY <1>4 DEF Finish, WritePolicy
  <2> QED
    BY <1>1, <2>1, ReturnEnds
<1> QED
  BY <1>2, <1>3, <1>4

LEMMA UserStays ==
  ASSUME TypeOK, User
  PROVE  Stays
<1>1. work' = work /\ Queues
  BY InformedQueues DEF User
<1>2. PICK p \in Policies : (\E t \in Targets : CreatePolicy(p, t)) \/ Edit(p) \/ DeletePolicy(p)
  BY DEF User
<1>3. pol[p] \in Policy /\ pol \in [Policies -> Policy]
  BY DEF TypeOK
<1>4. \A q \in Policies \ {p} : pol'[q] = pol[q]
  BY <1>2, <1>3 DEF CreatePolicy, Edit, DeletePolicy
<1>5. pol'[p].fin => pol[p].fin
  <2>1. CASE \E t \in Targets : CreatePolicy(p, t)
    BY <1>3, <2>1 DEF CreatePolicy, Gone
  <2>2. CASE Edit(p)
    <3>1. \/ \E t \in Targets : pol'[p] = [pol[p] EXCEPT !.target = t]
          \/ pol'[p] = [pol[p] EXCEPT !.valid = ~@]
          \/ pol'[p] = [pol[p] EXCEPT !.dry = ~@]
      BY <1>3, <2>2 DEF Edit
    <3> QED
      BY <1>3, <3>1 DEF Policy
  <2>3. CASE DeletePolicy(p)
    BY <1>3, <2>3 DEF DeletePolicy, Gone, Policy
  <2> QED
    BY <1>2, <2>1, <2>2, <2>3
<1> QED
  BY <1>1, <1>4, <1>5 DEF Stays

LEMMA NextQueueShape == TypeOK /\ [Next]_vars => QueueShape
<1> SUFFICES ASSUME TypeOK, [Next]_vars PROVE QueueShape
  OBVIOUS
<1>1. CASE \E p \in Policies : Begin(p)
  BY <1>1, BeginTakes DEF QueueShape
<1>2. CASE Deliver
  BY <1>2 DEF Deliver, DeliverPolicy, DeliverDeployment, DeliverPod, Enqueue, Queues, Stays, QueueShape
<1>3. CASE \E p \in Policies, u \in Uids : ProbeVerdict(p, u)
  BY <1>3 DEF ProbeVerdict, caches, Queues, Stays, QueueShape
<1>4. CASE Kubernetes \/ Trouble
  <2>1. UNCHANGED <<pol, work>> /\ Informed(pending)
    BY <1>4 DEF Kubernetes, Trouble, controller
  <2> QED
    BY <2>1, InformedQueues DEF Stays, QueueShape
<1>5. CASE Crash
  BY <1>5 DEF Crash, Idle, NoWork, Restarts, QueueShape
<1>6. CASE Tick \/ UNCHANGED vars
  BY <1>6 DEF Tick, vars, caches, Queues, Stays, QueueShape
<1> QED
  BY <1>1, <1>2, <1>3, <1>4, <1>5, <1>6, ReadsProceed, ActionsShape, WritesEnd, UserStays
  DEF Next, Living, Reconcile, QueueShape
-----------------------------------------------------------------------------
LEMMA DeletingHeldStep == TypeOK /\ Release /\ DeletingHeld /\ StepShape => DeletingHeld'
<1> SUFFICES ASSUME TypeOK, Release, DeletingHeld, StepShape PROVE DeletingHeld'
  OBVIOUS
<1> DEFINE OK(o) == o.live /\ o.deleting => o.fin
<1>0. pol \in [Policies -> Policy] /\ work.p \in Policies /\ OK(Gone)
  BY DEF TypeOK, Work, Gone
<1>1. \A p \in Policies : OK(pol'[p])
  <2>1. CASE pol' = pol
    BY <2>1 DEF DeletingHeld
  <2>2. CASE \E p \in Policies : Edits(p) /\ \A q \in Policies \ {p} : pol'[q] = pol[q]
    BY <1>0, <2>2 DEF DeletingHeld, Edits
  <2>3. CASE Writes
    <3>1. /\ \A q \in Policies \ {work.p} : pol'[q] = pol[q]
          /\ pol'[work.p] = IF work.pc = "finalizer" /\ work.obj.deleting THEN Gone ELSE work.obj
      BY <1>0, <2>3 DEF Writes
    <3>2. ~(work.pc = "finalizer" /\ work.obj.deleting) => OK(work.obj)
      BY <2>3 DEF Writes, Release, WorkCopies
    <3> QED
      BY <1>0, <3>1, <3>2 DEF DeletingHeld
  <2> QED
    BY <2>1, <2>2, <2>3 DEF StepShape
<1>2. \A p \in Policies : OK(cpol'[p])
  BY <1>1 DEF StepShape, DeletingHeld
<1> QED
  BY <1>1, <1>2 DEF DeletingHeld

LEMMA WatchedStep == TypeOK /\ Release /\ DeletingHeld /\ Watched /\ QueueShape => Watched'
<1> SUFFICES ASSUME TypeOK, Release, DeletingHeld, Watched, QueueShape PROVE Watched'
  OBVIOUS
<1>0. work.p \in Policies
  BY DEF TypeOK, Work
<1>1. CASE Stays
  BY <1>0, <1>1 DEF Stays, Queues, Watched, Working, Quiet
<1>2. ASSUME NEW p \in Policies, Takes(p)
      PROVE  Watched'
  BY <1>0, <1>2 DEF Takes, Watched, Working, Quiet, DeletingHeld
<1>3. CASE Proceeds
  BY <1>0, <1>3 DEF Proceeds, Queues, Watched, Working, Quiet
<1>4. CASE Ends
  <2>1. \A q \in Policies \ {work.p} : q \notin pending' => Quiet(q)'
    BY <1>4 DEF Ends, Queues, Watched, Working, Quiet
  <2>2. ASSUME NEW p \in Policies, p = work.p, p \notin pending'
        PROVE  Quiet(p)'
    <3>1. cpol'[p] = work.base
      BY <1>4, <2>2 DEF Ends, Queues, Watched
    <3>2. CASE work.pc = "finalizer" /\ work.obj.deleting /\ pol'[p] = Gone
      <4>1. work.base.fin /\ ~Gone.fin
        BY <3>2 DEF Release, WorkCopies, Gone
      <4> QED
        BY <3>1, <3>2, <4>1 DEF Quiet
    <3>3. CASE work.pc = "status" /\ ~work.again
      BY <3>1, <3>3 DEF Watched, Quiet
    <3> QED
      BY <1>4, <2>2, <3>2, <3>3 DEF Ends
  <2>3. \A q \in Policies : q \notin pending' => Quiet(q)'
    BY <2>1, <2>2
  <2> QED
    BY <1>4, <2>3 DEF Ends, Watched, Working
<1>5. CASE Restarts
  BY <1>5 DEF Restarts, Watched, Working, Quiet
<1> QED
  BY <1>1, <1>2, <1>3, <1>4, <1>5 DEF QueueShape

(***************************************************************************)
(* The controller never loses sight of a valid policy, whatever crashes,   *)
(* conflicts, lost answers and late events do: only the release of the     *)
(* finalizer and the report of an invalid probe end a Reconcile for good,  *)
(* and a change that overtakes them brings its own queue item.             *)
(***************************************************************************)
THEOREM PoliciesWatched == Spec => []NeverForgotten
<1>1. Init => DeletingHeld /\ Watched
  <2> SUFFICES ASSUME Init PROVE DeletingHeld /\ Watched
    OBVIOUS
  <2>1. work.pc = "idle" /\ cpol = pol /\ pending = Guarded
    BY DEF Init, Idle, NoWork
  <2>2. \A p \in Policies : ~pol[p].deleting /\ (p \notin Guarded => ~pol[p].live)
    BY DEF Init, Gone
  <2> QED
    BY <2>1, <2>2 DEF DeletingHeld, Watched, Quiet
<1>2. TypeOK /\ Release /\ [Next]_vars => Release'
  BY NextShape, ReleaseStep
<1>3. TypeOK /\ Release /\ DeletingHeld /\ [Next]_vars => DeletingHeld'
  BY NextShape, DeletingHeldStep
<1>4. TypeOK /\ Release /\ DeletingHeld /\ Watched /\ [Next]_vars => Watched'
  BY NextQueueShape, WatchedStep
<1>5. Watched => NeverForgotten
  BY DEF Watched, Working, Quiet, NeverForgotten
<1> QED
  BY <1>1, <1>2, <1>3, <1>4, <1>5, TypeCorrect, ReleaseInit, PTL DEF Spec
=============================================================================
