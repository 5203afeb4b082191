----------------------------- MODULE PolicySpec -----------------------------
(***************************************************************************)
(* The way of spec.remediation from the manifest a user applies, through   *)
(* the API server's defaulting and the operator's own write of the object  *)
(* (adding the finalizer encodes the whole Go struct again, whose tags say *)
(* omitempty), to the settings Reconcile goes by.                          *)
(*                                                                         *)
(* An optional field is a set of at most one value, and so is the          *)
(* remediation block itself.                                               *)
(***************************************************************************)
EXTENDS Integers

CONSTANTS Cooldowns, Percents, Counts   \* the numbers users write

WrittenNumbers ==                        \* validation markers of RemediationSpec
  Cooldowns \subseteq Nat /\ Percents \subseteq 1..100 /\ Counts \subseteq Nat \ {0}

VARIABLES
  live,       \* does the policy exist?
  fin,        \* does it carry the finalizer?
  manifest,   \* the remediation block the user last applied
  block       \* the one in the API server

vars == <<live, fin, manifest, block>>

Optional(S) == {{}} \cup {{v} : v \in S}
The(s) == CHOOSE v \in s : TRUE

RemediationSpec ==
  [strategy : Optional({"Auto", "RolloutRestart", "DeletePod"}), requireStable : Optional(BOOLEAN),
   maxAttempts : Optional(Counts), cooldown : Optional(Cooldowns), maxConcurrent : Optional(Counts),
   skipPercent : Optional(Percents), dryRun : Optional(BOOLEAN)]

\* The kubebuilder default markers, which the CRD carries.
Default == [strategy |-> "Auto", requireStable |-> TRUE, maxAttempts |-> 3, cooldown |-> 600,
            maxConcurrent |-> 1, skipPercent |-> 50, dryRun |-> FALSE]
Fields == DOMAIN Default

\* The Go zero values; a nil *bool is no value.
Zero == [strategy |-> {""}, requireStable |-> {}, maxAttempts |-> {0}, cooldown |-> {0},
         maxConcurrent |-> {0}, skipPercent |-> {0}, dryRun |-> {FALSE}]

\* The API server fills the unset fields of a block, and leaves a missing block alone.
Defaulted(b) == {[f \in Fields |-> IF r[f] = {} THEN {Default[f]} ELSE r[f]] : r \in b}

\* json.Unmarshal into, and json.Marshal of, a RemediationSpec: the struct
\* itself is never omitted, fields with their zero value are.
Decoded(b) == [f \in Fields |-> IF b = {} \/ The(b)[f] = {} THEN Zero[f] ELSE The(b)[f]]

Encoded(d) == {[f \in Fields |-> IF d[f] = Zero[f] THEN {} ELSE d[f]]}

\* What Reconcile and remediate make of the fields.
Positive(v, default) == IF v <= 0 THEN default ELSE v

InForce(b) ==
  LET d == Decoded(b)
  IN [strategy      |-> IF d.strategy = {""} THEN "Auto" ELSE The(d.strategy),   \* chooseStrategy
      requireStable |-> d.requireStable = {} \/ The(d.requireStable),
      maxAttempts   |-> Positive(The(d.maxAttempts), 3),
      cooldown      |-> The(d.cooldown),
      maxConcurrent |-> Positive(The(d.maxConcurrent), 1),
      skipPercent   |-> The(d.skipPercent),
      dryRun        |-> The(d.dryRun)]
-----------------------------------------------------------------------------
Init == live = FALSE /\ fin = FALSE /\ manifest = {} /\ block = {}

\* The user creates the policy, or applies a manifest to it: a block that is no
\* longer in the manifest is removed, one that never was is left as it is.
Apply(m) ==
  /\ live' = TRUE
  /\ manifest' = m
  /\ block' = IF m # {} THEN Defaulted(m) ELSE IF manifest # {} THEN {} ELSE block
  /\ UNCHANGED fin

\* Reconcile: AddFinalizer and r.Update.
AddFinalizer ==
  /\ live /\ ~fin
  /\ fin' = TRUE
  /\ block' = Defaulted(Encoded(Decoded(block)))
  /\ UNCHANGED <<live, manifest>>

\* The user deletes the policy and Reconcile releases the finalizer.
Delete ==
  /\ live
  /\ live' = FALSE /\ fin' = FALSE /\ manifest' = {} /\ block' = {}

Next == (\E m \in Optional(RemediationSpec) : Apply(m)) \/ AddFinalizer \/ Delete

Spec == Init /\ [][Next]_vars
-----------------------------------------------------------------------------
\* What the manifest and the documented defaults say together.
Documented(m) ==
  [f \in Fields |-> IF m = {} \/ The(m)[f] = {} THEN Default[f] ELSE The(The(m)[f])]

(***************************************************************************)
(* The policy is guarded by the settings its manifest and the documented   *)
(* defaults give (types.go, "+kubebuilder:default" and                     *)
(* "+kubebuilder:validation:Minimum=0" of CooldownSeconds).                *)
(***************************************************************************)
SettingsAsDocumented == live /\ fin => InForce(block) = Documented(manifest)

(***************************************************************************)
(* Every setting survives the API server's defaulting and the operator's   *)
(* re-encoding of the object, an explicit requireStable: false and a       *)
(* missing block included, with two exceptions: a cooldown of zero, and    *)
(* the cooldown and the systemic valve of a policy whose block is removed  *)
(* after its finalizer was added, which no write of the operator fills in  *)
(* any more.                                                               *)
(***************************************************************************)
SettingsKept ==
  live /\ fin =>
    \A f \in Fields :
      \/ InForce(block)[f] = Documented(manifest)[f]
      \/ f = "cooldown" /\ Documented(manifest).cooldown = 0
      \/ f \in {"cooldown", "skipPercent"} /\ block = {}
=============================================================================
