------------------------------- MODULE Prober -------------------------------
(***************************************************************************)
(* The prober Manager (internal/prober/prober.go): the in-memory health    *)
(* store behind one mutex, one probe goroutine per pod entry, and the      *)
(* channel of transition events.  A step is one critical section of m.mu,  *)
(* or one select; the HTTP probe runs between two critical sections.       *)
(*                                                                         *)
(* A goroutine is <<p, u, n>>: the n-th one started for pod u of policy p. *)
(* starts[p][u] is the n of the latest one, so <<p, u, starts[p][u]>> is   *)
(* the goroutine whose CancelFunc the podEntry holds.                      *)
(***************************************************************************)
EXTENDS Integers, Sequences, FiniteSets, ProbeRecord

CONSTANTS Policies,    \* keys of m.policies
          Uids,        \* pod UIDs
          Configs,     \* ProbeConfigs: [success, failure : Int, delay : BOOLEAN]
          MaxStarts,   \* bound on the goroutines started per policy and pod
          Capacity     \* capacity of the event channel (1024 in NewManager)

ASSUME ConfigAssumption ==
  /\ CountCap \in Nat
  /\ Configs # {}
  /\ Configs \subseteq [success : Int, failure : Int, delay : BOOLEAN]
  /\ \A c \in Configs : Success(c) <= CountCap /\ Failure(c) <= CountCap
ASSUME BoundAssumption == MaxStarts \in Nat /\ Capacity \in Nat \ {0}

Gor == Policies \X Uids \X (1..MaxStarts)

VARIABLES
  known,      \* policies with a policyEntry
  cfg,        \* cfg[p]: policyEntry.cfg
  probed,     \* probed[p]: keys of policyEntry.pods
  entry,      \* entry[p][u]: threshold state of a podEntry
  seen,       \* seen[p]: podEntries with SeenReady
  addressed,  \* addressed[p]: podEntries whose PodIP is filled in
  starts,     \* starts[p][u]: goroutines started so far
  pc,         \* pc[g]: where goroutine g is
  cancelled,  \* goroutines whose context is done
  req,        \* req[g]: what probeOnce copied out under the lock
  events,     \* m.events
  stopped     \* m.root is cancelled

storeState == <<known, cfg, probed, entry, seen, addressed>>
vars == <<known, cfg, probed, entry, seen, addressed, starts, pc, cancelled, req, events, stopped>>

PCs == {"unborn", "spawned", "delay", "read", "probing", "emit", "wait", "done"}
Req == [cfg : Configs, answerable : BOOLEAN]
NoReq == [cfg |-> CHOOSE c \in Configs : TRUE, answerable |-> FALSE]

TypeOK ==
  /\ known \subseteq Policies
  /\ cfg \in [Policies -> Configs]
  /\ probed \in [Policies -> SUBSET Uids]
  /\ entry \in [Policies -> [Uids -> Entry]]
  /\ seen \in [Policies -> SUBSET Uids]
  /\ addressed \in [Policies -> SUBSET Uids]
  /\ starts \in [Policies -> [Uids -> 0..MaxStarts]]
  /\ pc \in [Gor -> PCs]
  /\ cancelled \subseteq Gor
  /\ req \in [Gor -> Req]
  /\ events \in Seq(Policies)
  /\ stopped \in BOOLEAN

Init ==
  /\ known = {}
  /\ cfg = [p \in Policies |-> NoReq.cfg]
  /\ probed = [p \in Policies |-> {}]
  /\ entry = [p \in Policies |-> [u \in Uids |-> FreshEntry]]
  /\ seen = [p \in Policies |-> {}]
  /\ addressed = [p \in Policies |-> {}]
  /\ starts = [p \in Policies |-> [u \in Uids |-> 0]]
  /\ pc = [g \in Gor |-> "unborn"]
  /\ cancelled = {}
  /\ req = [g \in Gor |-> NoReq]
  /\ events = <<>>
  /\ stopped = FALSE
-----------------------------------------------------------------------------
(***************************************************************************)
(* The ProbeSource interface, called by the reconciler.                    *)
(***************************************************************************)

\* Mutant: an entry is deleted without calling its CancelFunc.
OwnProbersForgotten(p, U) == {}

\* The goroutines whose CancelFunc is held by the entries of the pods U.
OwnProbers(p, U) ==
  {g \in Gor : g[1] = p /\ g[2] \in U /\ g[3] = starts[p][g[2]]}

\* The goroutines Sync starts for the new pods U of policy p.
NextProbers(p, U) ==
  {g \in Gor : g[1] = p /\ g[2] \in U /\ g[3] = starts[p][g[2]] + 1}

\* Mutant: the record of a pod that left is not deleted, and found again when
\* the pod is listed again.
SyncedEntryKept(p, T) == entry[p]

\* Entries that stay keep their thresholds; entries that are new are fresh.
SyncedEntry(p, T) ==
  [u \in Uids |-> IF u \in probed[p] \cap T THEN entry[p][u] ELSE FreshEntry]

(***************************************************************************)
(* Sync: make the probed pods be T, of which A have an IP.  A context made *)
(* from a cancelled root is born cancelled.                                *)
(***************************************************************************)
Sync(p, c, T, A) ==
  LET gone == probed[p] \ T
      new  == T \ probed[p]
  IN /\ \A u \in new : starts[p][u] < MaxStarts
     /\ known' = known \cup {p}
     /\ cfg' = [cfg EXCEPT ![p] = c]
     /\ probed' = [probed EXCEPT ![p] = T]
     /\ entry' = [entry EXCEPT ![p] = SyncedEntry(p, T)]
     /\ seen' = [seen EXCEPT ![p] = @ \cap T]
     /\ addressed' = [addressed EXCEPT ![p] = A]
     /\ starts' = [starts EXCEPT ![p] = [u \in Uids |-> IF u \in new THEN @[u] + 1 ELSE @[u]]]
     /\ pc' = [g \in Gor |-> IF g \in NextProbers(p, new) THEN "spawned" ELSE pc[g]]
     /\ cancelled' = cancelled \cup OwnProbers(p, gone)
                               \cup (IF stopped THEN NextProbers(p, new) ELSE {})
     /\ UNCHANGED <<req, events, stopped>>

SetSeenReady(p, u) ==
  /\ u \in probed[p]
  /\ seen' = [seen EXCEPT ![p] = @ \cup {u}]
  /\ UNCHANGED <<known, cfg, probed, entry, addressed, starts, pc, cancelled, req, events, stopped>>

Forget(p) ==
  /\ p \in known
  /\ known' = known \ {p}
  /\ probed' = [probed EXCEPT ![p] = {}]
  /\ entry' = [entry EXCEPT ![p] = [u \in Uids |-> FreshEntry]]
  /\ seen' = [seen EXCEPT ![p] = {}]
  /\ addressed' = [addressed EXCEPT ![p] = {}]
  /\ cancelled' = cancelled \cup OwnProbers(p, probed[p])
  /\ UNCHANGED <<cfg, starts, pc, req, events, stopped>>

\* Start, once its context is done: every probe context descends from m.root.
Stop ==
  /\ ~stopped
  /\ stopped' = TRUE
  /\ cancelled' = {g \in Gor : pc[g] # "unborn"}
  /\ UNCHANGED <<known, cfg, probed, entry, seen, addressed, starts, pc, req, events>>
-----------------------------------------------------------------------------
(***************************************************************************)
(* run and probeOnce, one goroutine g.                                     *)
(***************************************************************************)
Goto(g, l) == pc' = [pc EXCEPT ![g] = l]

\* Has the entry that g probes gone, or its whole policy?
Vanished(g) == g[1] \notin known \/ g[2] \notin probed[g[1]]

RunStart(g) ==
  /\ pc[g] = "spawned"
  /\ Goto(g, IF g[1] \notin known THEN "done" ELSE IF cfg[g[1]].delay THEN "delay" ELSE "read")
  /\ UNCHANGED <<storeState, starts, cancelled, req, events, stopped>>

RunDelay(g) ==
  /\ pc[g] = "delay"
  /\ \/ Goto(g, "read")
     \/ g \in cancelled /\ Goto(g, "done")
  /\ UNCHANGED <<storeState, starts, cancelled, req, events, stopped>>

\* First critical section of probeOnce.  A request sent without an IP or with
\* a context that is already done cannot succeed (Checker.Probe).
ProbeRead(g) ==
  /\ pc[g] = "read"
  /\ IF Vanished(g)
     THEN Goto(g, "wait") /\ UNCHANGED req
     ELSE /\ Goto(g, "probing")
          /\ req' = [req EXCEPT ![g] = [cfg |-> cfg[g[1]],
                       answerable |-> g[2] \in addressed[g[1]] /\ g \notin cancelled]]
  /\ UNCHANGED <<storeState, starts, cancelled, events, stopped>>

\* The probe returns ok; second critical section of probeOnce.
ProbeEnd(g, ok) ==
  /\ pc[g] = "probing"
  /\ ok => req[g].answerable
  /\ IF Vanished(g)
     THEN Goto(g, "wait") /\ UNCHANGED entry
     ELSE /\ entry' = [entry EXCEPT ![g[1]][g[2]] = Record(@, req[g].cfg, ok)]
          /\ Goto(g, IF Transitioned(entry[g[1]][g[2]], req[g].cfg, ok) THEN "emit" ELSE "wait")
  /\ req' = [req EXCEPT ![g] = NoReq]
  /\ UNCHANGED <<known, cfg, probed, seen, addressed, starts, cancelled, events, stopped>>

\* Mutant: the send does not give up when the context is done.
EmitBlocking(g) ==
  /\ pc[g] = "emit"
  /\ Len(events) < Capacity /\ events' = Append(events, g[1])
  /\ Goto(g, "wait")
  /\ UNCHANGED <<storeState, starts, cancelled, req, stopped>>

\* The select at the end of probeOnce: send the event or give up.
Emit(g) ==
  /\ pc[g] = "emit"
  /\ \/ Len(events) < Capacity /\ events' = Append(events, g[1])
     \/ g \in cancelled /\ UNCHANGED events
  /\ Goto(g, "wait")
  /\ UNCHANGED <<storeState, starts, cancelled, req, stopped>>

\* The select of run: the ticker fires, or the context is done.
WaitTick(g) ==
  /\ pc[g] = "wait"
  /\ Goto(g, "read")
  /\ UNCHANGED <<storeState, starts, cancelled, req, events, stopped>>

WaitDone(g) ==
  /\ pc[g] = "wait"
  /\ g \in cancelled
  /\ Goto(g, "done")
  /\ UNCHANGED <<storeState, starts, cancelled, req, events, stopped>>

GoStep(g) ==
  \/ RunStart(g)
  \/ RunDelay(g)
  \/ ProbeRead(g)
  \/ \E ok \in BOOLEAN : ProbeEnd(g, ok)
  \/ Emit(g)
  \/ WaitTick(g)
  \/ WaitDone(g)

\* The controller's channel source takes an event (until it is shut down).
Drain ==
  /\ ~stopped
  /\ events # <<>>
  /\ events' = Tail(events)
  /\ UNCHANGED <<storeState, starts, pc, cancelled, req, stopped>>

Next ==
  \/ \E p \in Policies :
       \/ \E c \in Configs, T \in SUBSET Uids : \E A \in SUBSET T :
            addressed[p] \cap T \subseteq A /\ Sync(p, c, T, A)   \* a pod keeps its IP
       \/ \E u \in Uids : SetSeenReady(p, u)
       \/ Forget(p)
  \/ \E g \in Gor : GoStep(g)
  \/ Drain
  \/ Stop

Spec == Init /\ [][Next]_vars

(***************************************************************************)
(* Goroutines are scheduled, the channel is drained, and Go's select does  *)
(* not neglect a ready ctx.Done() for ever (it chooses among the ready     *)
(* cases at random), whence the strong fairness of WaitDone.               *)
(***************************************************************************)
Fairness ==
  /\ \A g \in Gor : WF_vars(GoStep(g)) /\ SF_vars(WaitDone(g))
  /\ WF_vars(Drain)

FairSpec == Spec /\ Fairness
-----------------------------------------------------------------------------
(***************************************************************************)
(* Properties.                                                             *)
(***************************************************************************)
Active(g) == pc[g] \notin {"unborn", "done"} /\ g \notin cancelled

(***************************************************************************)
(* Every probed pod has exactly one goroutine with a live context, and a   *)
(* pod that is not probed (or a stopped Manager) has none: Sync and Forget *)
(* never lose the CancelFunc of a goroutine, start a second one for a pod  *)
(* they already probe, or let a live one run off its loop.                 *)
(***************************************************************************)
OneLiveProber ==
  \A p \in Policies, u \in Uids :
    {g \in Gor : g[1] = p /\ g[2] = u /\ Active(g)} =
      IF u \in probed[p] /\ ~stopped THEN {<<p, u, starts[p][u]>>} ELSE {}

(***************************************************************************)
(* A verdict is never overdue: a pod still called healthy has failed fewer *)
(* probes in a row than some configured failureThreshold, a pod still      *)
(* called unhealthy has passed fewer than some successThreshold (record).  *)
(* Which configuration is left open: record uses the one probeOnce copied  *)
(* before the probe, and Sync may have put another in force since.         *)
(***************************************************************************)
VerdictNotOverdue ==
  \A p \in Policies, u \in Uids :
    IF entry[p][u].healthy
    THEN \E c \in Configs : entry[p][u].fails < Failure(c)
    ELSE \E c \in Configs : entry[p][u].succs < Success(c)

(***************************************************************************)
(* A prober that Sync or Forget has stopped no longer influences any pod's *)
(* health record, though its probe may still be in flight (prober.go:      *)
(* "Probers for pods no longer present are stopped", "Forget stops all     *)
(* probers for a policy").                                                 *)
(***************************************************************************)
StoppedProbersAreSilent ==
  [][\A g \in cancelled : pc[g] = "probing" /\ pc'[g] # "probing" /\ ~stopped => entry' = entry]_vars

(***************************************************************************)
(* Once its context is done a goroutine ends, even when the event channel  *)
(* is full and nobody drains it any more (shutdown).                       *)
(***************************************************************************)
StoppedProbersExit == \A g \in Gor : g \in cancelled ~> pc[g] = "done"

(***************************************************************************)
(* The Manager implements the abstract store the reconciler relies on.     *)
(***************************************************************************)
Sick == [p \in Policies |-> {u \in probed[p] : ~entry[p][u].healthy}]
Store == INSTANCE ProbeStore WITH sick <- Sick
ImplementsStore == Store!StoreSpec
=============================================================================
