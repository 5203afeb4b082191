------------------------------- MODULE Cluster -------------------------------
(***************************************************************************)
(* The part of Kubernetes the operator watches and acts on: one Deployment *)
(* and its pods, with the Deployment controller and the kubelet moving     *)
(* them.  Not code of this repository: modelled from the fields            *)
(* internal/controller reads (deploymentStable, progressDeadlineExceeded,  *)
(* isPodReady, DeletionTimestamp) and the two writes it makes (a template  *)
(* annotation, a pod deletion).                                            *)
(***************************************************************************)
EXTENDS Integers, FiniteSets

CONSTANTS Uids,                 \* pods; a UID names a pod until nothing refers to it
          Replicas,             \* spec.replicas of the Deployment
          Sec,                  \* clock ticks per second
          ReadinessTracksProbe  \* does the readiness probe fail with the hotswap probe?

ASSUME ClusterAssumption ==
  /\ IsFiniteSet(Uids) /\ Replicas \in Nat \ {0}
  /\ \E S \in SUBSET Uids : S # Uids /\ Cardinality(S) = Replicas   \* room for replacements
  /\ Sec \in Nat \ {0} /\ ReadinessTracksProbe \in BOOLEAN

VARIABLES
  dep,    \* the Deployment: template revision, observed revision and status
  pods,   \* pods[u]: the pod object
  ok      \* pods whose application really answers the hotswap probe

Phases == {"none", "running", "terminating"}
Pod == [phase : Phases, rev : Nat, ready : BOOLEAN]
NoPod == [phase |-> "none", rev |-> 0, ready |-> FALSE]
Deployment == [rev : Nat, obs : Nat, stamp : Int, spec : Nat, replicas : Nat,
               updated : Nat, available : Nat, unavailable : Nat, stalled : BOOLEAN]

Running == {u \in Uids : pods[u].phase = "running"}
Current == {u \in Running : pods[u].rev = dep.rev}
Ready   == {u \in Running : pods[u].ready}

ClusterTypeOK ==
  /\ dep \in Deployment
  /\ pods \in [Uids -> Pod]
  /\ ok \subseteq Uids

\* A settled Deployment: Replicas pods of revision 0, ready and answering.
ClusterInit ==
  LET up == CHOOSE S \in SUBSET Uids : Cardinality(S) = Replicas
  IN /\ pods = [u \in Uids |-> IF u \in up THEN [phase |-> "running", rev |-> 0, ready |-> TRUE] ELSE NoPod]
     /\ ok = up
     /\ dep = [rev |-> 0, obs |-> 0, stamp |-> -1, spec |-> Replicas, replicas |-> Replicas,
               updated |-> Replicas, available |-> Replicas, unavailable |-> 0, stalled |-> FALSE]
-----------------------------------------------------------------------------
(***************************************************************************)
(* Effects of the operator's and the user's API calls.                     *)
(***************************************************************************)

\* The merge patch of the restart annotation: a new template revision unless
\* the annotation already has this value (RFC3339, whole seconds).
RestartPatched(d, now) ==
  IF d.stamp = now \div Sec THEN d ELSE [d EXCEPT !.stamp = now \div Sec, !.rev = @ + 1]

\* A graceful deletion; deleting a pod that is terminating changes nothing.
PodDeleted(u) == [pods EXCEPT ![u].phase = IF @ = "running" THEN "terminating" ELSE @]

\* The user rolls out a new template.
Deploy ==
  /\ dep' = [dep EXCEPT !.rev = @ + 1]
  /\ UNCHANGED <<pods, ok>>
-----------------------------------------------------------------------------
(***************************************************************************)
(* Deployment controller, ReplicaSet controller, kubelet, application.     *)
(***************************************************************************)
Observed ==
  LET complete == Cardinality(Current) = Replicas /\ Current = Running /\ Ready = Running
  IN [dep EXCEPT !.obs = dep.rev, !.replicas = Cardinality(Running), !.updated = Cardinality(Current),
                 !.available = Cardinality(Ready), !.unavailable = Cardinality(Running \ Ready),
                 !.stalled = @ /\ ~complete]

ObserveStatus ==
  /\ dep # Observed
  /\ dep' = Observed
  /\ UNCHANGED <<pods, ok>>

\* The rollout of the current template exceeds its progress deadline.
Stall ==
  /\ dep.obs = dep.rev /\ Cardinality(Current \cap Ready) < Replicas /\ ~dep.stalled
  /\ dep' = [dep EXCEPT !.stalled = TRUE]
  /\ UNCHANGED <<pods, ok>>

\* A replacement within the surge of one; u is a fresh UID.
CreatePod(u, answers) ==
  /\ pods[u].phase = "none"
  /\ Cardinality(Current) < Replicas /\ Cardinality(Running) <= Replicas
  /\ pods' = [pods EXCEPT ![u] = [phase |-> "running", rev |-> dep.rev, ready |-> FALSE]]
  /\ ok' = IF answers THEN ok \cup {u} ELSE ok \ {u}
  /\ UNCHANGED dep

\* The rolling update removes a pod of an old revision it can spare.
RetireOld(u) ==
  /\ u \in Running \ Current
  /\ Cardinality(Ready \ {u}) >= Replicas
  /\ pods' = PodDeleted(u)
  /\ UNCHANGED <<dep, ok>>

Terminated(u) ==
  /\ pods[u].phase = "terminating"
  /\ pods' = [pods EXCEPT ![u] = NoPod]
  /\ ok' = ok \ {u}
  /\ UNCHANGED dep

BecomeReady(u) ==
  /\ u \in Running \ Ready
  /\ ReadinessTracksProbe => u \in ok
  /\ pods' = [pods EXCEPT ![u].ready = TRUE]
  /\ UNCHANGED <<dep, ok>>

BecomeUnready(u) ==
  /\ ReadinessTracksProbe
  /\ u \in Ready \ ok
  /\ pods' = [pods EXCEPT ![u].ready = FALSE]
  /\ UNCHANGED <<dep, ok>>

Regress(u) ==
  /\ u \in Running \cap ok
  /\ ok' = ok \ {u}
  /\ UNCHANGED <<dep, pods>>

Recover(u) ==
  /\ u \in Running \ ok
  /\ ok' = ok \cup {u}
  /\ UNCHANGED <<dep, pods>>

\* The steps Kubernetes takes by itself, and keeps taking.
ControllerStep(u) == RetireOld(u) \/ Terminated(u) \/ BecomeReady(u) \/ BecomeUnready(u)
=============================================================================
