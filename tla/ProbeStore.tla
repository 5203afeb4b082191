----------------------------- MODULE ProbeStore -----------------------------
(***************************************************************************)
(* What the prober Manager promises its client, the reconciler, through    *)
(* the ProbeSource interface (hotswappolicy_controller.go): for every      *)
(* policy a set of probed pods, each assumed healthy when it is added and  *)
(* flipping only while it is probed, and a "seen ready" mark that lasts    *)
(* exactly as long as the pod is probed.  No goroutine, no lock, no        *)
(* counter.  Prober implements this specification; Reconciler uses it.     *)
(***************************************************************************)
CONSTANTS Policies, Uids

VARIABLES probed,   \* probed[p]: the pods with an entry under policy p
          sick,     \* sick[p]: those whose verdict is unhealthy
          seen      \* seen[p]: those the reconciler has reported Ready

storeVars == <<probed, sick, seen>>

StoreTypeOK ==
  /\ probed \in [Policies -> SUBSET Uids]
  /\ sick \in [Policies -> SUBSET Uids]
  /\ seen \in [Policies -> SUBSET Uids]

StoreInit ==
  /\ probed = [p \in Policies |-> {}]
  /\ sick = [p \in Policies |-> {}]
  /\ seen = [p \in Policies |-> {}]

\* The probed set becomes T; pods that stay keep their verdict and mark.
Sync(p, T) ==
  /\ probed' = [probed EXCEPT ![p] = T]
  /\ sick' = [sick EXCEPT ![p] = @ \cap T]
  /\ seen' = [seen EXCEPT ![p] = @ \cap T]

\* Marks the pods of R that are probed; the others are ignored.
SetSeenReady(p, R) ==
  /\ seen' = [seen EXCEPT ![p] = @ \cup (R \cap probed[p])]
  /\ UNCHANGED <<probed, sick>>

Forget(p) == Sync(p, {})

\* The verdict of a probed pod flips.
Flip(p, u) ==
  /\ u \in probed[p]
  /\ sick' = [sick EXCEPT ![p] = IF u \in @ THEN @ \ {u} ELSE @ \cup {u}]
  /\ UNCHANGED <<probed, seen>>

StoreNext ==
  \E p \in Policies :
    \/ \E T \in SUBSET Uids : Sync(p, T)
    \/ \E R \in SUBSET Uids : SetSeenReady(p, R)
    \/ Forget(p)
    \/ \E u \in Uids : Flip(p, u)

StoreSpec == StoreInit /\ [][StoreNext]_storeVars
=============================================================================
