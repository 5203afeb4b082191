----------------------------- MODULE PolicyLife -----------------------------
(***************************************************************************)
(* What the finalizer promises about a policy and its probers, seen from   *)
(* outside: the operator takes a policy into its care before it starts to  *)
(* probe for it, and lets a deleted one go only when nothing is left that  *)
(* probes for it.  Reconciler implements it, through caches that lag,      *)
(* conflicting and lost writes and restarts of the process.                *)
(***************************************************************************)
CONSTANT Policies

VARIABLES
  life,      \* life[p]: absent, new (no finalizer), held, or ending (marked for deletion)
  probing    \* the policies somebody probes for

Init ==
  /\ life \in [Policies -> {"absent", "new"}]
  /\ probing = {}

Moves(p, from, to) ==
  /\ life[p] = from
  /\ life' = [life EXCEPT ![p] = to]
  /\ UNCHANGED probing

\* Users.
Create(p) == Moves(p, "absent", "new")
Drop(p) == Moves(p, "new", "absent")
End(p) == Moves(p, "held", "ending")

\* The operator.
Adopt(p) == Moves(p, "new", "held")
Release(p) == p \notin probing /\ Moves(p, "ending", "absent")

\* A call on an old copy may still start probers for a policy that is ending.
Probe(p) ==
  /\ life[p] \in {"held", "ending"}
  /\ probing' = probing \cup {p}
  /\ UNCHANGED life

\* The operator forgets the probers of a policy, or dies with all of them.
Quit ==
  /\ probing' \in SUBSET probing
  /\ UNCHANGED life

Next ==
  \/ \E p \in Policies : Create(p) \/ Drop(p) \/ End(p) \/ Adopt(p) \/ Release(p) \/ Probe(p)
  \/ Quit

Spec == Init /\ [][Next]_<<life, probing>>
=============================================================================
