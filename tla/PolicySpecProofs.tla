-------------------------- MODULE PolicySpecProofs --------------------------
(***************************************************************************)
(* No setting is lost between the manifest and Reconcile but the two the   *)
(* property names, for all the numbers users may write and any order of    *)
(* applies, finalizer writes and deletions.                                *)
(***************************************************************************)
EXTENDS PolicySpec, TLAPS

(***************************************************************************)
(* SettingsKept says nothing before the finalizer is there and nothing of  *)
(* the block itself, so it is not inductive.  What is: the block in the    *)
(* API server is missing, and then so is the manifest's, or every field of *)
(* it holds the documented value, with the default in the place of a       *)
(* cooldown of zero (omitempty drops it, and the API server fills it in).  *)
(***************************************************************************)
Holds(r, m) ==
  /\ DOMAIN r = Fields
  /\ \A f \in Fields :
       \/ r[f] = {Documented(m)[f]}
       \/ f = "cooldown" /\ Documented(m)[f] = 0 /\ r[f] = {Default[f]}

Faithful ==
  /\ manifest \in Optional(RemediationSpec)
  /\ \/ block = {} /\ manifest = {}
     \/ \E r \in block : block = {r} /\ Holds(r, manifest)
-----------------------------------------------------------------------------
LEMMA TheOne == \A v : The({v}) = v
  BY DEF The

LEMMA FieldNames ==
  Fields = {"strategy", "requireStable", "maxAttempts", "cooldown", "maxConcurrent", "skipPercent", "dryRun"}
  BY DEF Fields, Default

\* The values a field can be documented to have.
Values ==
  [strategy |-> {"Auto", "RolloutRestart", "DeletePod"}, requireStable |-> BOOLEAN,
   maxAttempts |-> Counts \cup {3}, cooldown |-> Cooldowns \cup {600}, maxConcurrent |-> Counts \cup {1},
   skipPercent |-> Percents \cup {50}, dryRun |-> BOOLEAN]

LEMMA WrittenValues ==
  ASSUME NEW r \in RemediationSpec, NEW f \in Fields
  PROVE  r[f] = {} \/ \E v \in Values[f] : r[f] = {v}
  BY FieldNames DEF RemediationSpec, Optional, Values

LEMMA DocumentedValues ==
  ASSUME NEW m \in Optional(RemediationSpec), NEW f \in Fields
  PROVE  Documented(m)[f] \in Values[f]
<1>1. Default[f] \in Values[f]
  <2>1. CASE f = "strategy"
    BY <2>1 DEF Default, Values
  <2>2. CASE f = "requireStable"
    <3>1. Default.requireStable = TRUE /\ Values.requireStable = BOOLEAN
      BY Zenon DEF Default, Values
    <3> QED
      BY <2>2, <3>1
  <2>4. CASE f = "dryRun"
    <3>1. Default.dryRun = FALSE /\ Values.dryRun = BOOLEAN
      BY Zenon DEF Default, Values
    <3> QED
      BY <2>4, <3>1
  <2>3. CASE f \in {"maxAttempts", "cooldown", "maxConcurrent", "skipPercent"}
    BY <2>3 DEF Default, Values
  <2> QED
    BY <2>1, <2>2, <2>3, <2>4, FieldNames
<1>2. CASE m = {}
  BY <1>1, <1>2 DEF Documented
<1>3. ASSUME NEW r \in RemediationSpec, m = {r} PROVE Documented(m)[f] \in Values[f]
  <2>1. The(m) = r
    BY <1>3, TheOne
  <2>2. Documented(m)[f] = IF r[f] = {} THEN Default[f] ELSE The(r[f])
    BY <1>3, <2>1 DEF Documented
  <2>3. CASE r[f] = {}
    BY <1>1, <2>2, <2>3
  <2>4. ASSUME NEW v \in Values[f], r[f] = {v} PROVE Documented(m)[f] \in Values[f]
    BY <2>2, <2>4, TheOne
  <2> QED
    BY <2>3, <2>4, WrittenValues
<1> QED
  BY <1>2, <1>3 DEF Optional

\* Defaulting makes a block of a manifest that holds what is documented for it.
LEMMA DefaultedHolds ==
  ASSUME NEW r \in RemediationSpec
  PROVE  \E s : Defaulted({r}) = {s} /\ Holds(s, {r})
<1> DEFINE s == [f \in Fields |-> IF r[f] = {} THEN {Default[f]} ELSE r[f]]
<1>1. Defaulted({r}) = {s}
  BY DEF Defaulted
<1>2. The({r}) = r
  BY TheOne
<1>3. ASSUME NEW f \in Fields PROVE s[f] = {Documented({r})[f]}
  <2>1. Documented({r})[f] = IF r[f] = {} THEN Default[f] ELSE The(r[f])
    BY <1>2 DEF Documented
  <2>2. CASE r[f] = {}
    BY <2>1, <2>2
  <2>3. ASSUME NEW v, r[f] = {v} PROVE s[f] = {Documented({r})[f]}
    <3>1. Documented({r})[f] = v
      BY <2>1, <2>3, TheOne
    <3> QED
      BY <2>3, <3>1
  <2> QED
    BY <2>2, <2>3, WrittenValues
<1> QED
  BY <1>1, <1>3 DEF Holds

LEMMA ZeroCounts ==
  ASSUME NEW f \in {"maxAttempts", "maxConcurrent", "skipPercent"}
  PROVE  Zero[f] = {0}
<1>1. Zero.maxAttempts = {0} /\ Zero.maxConcurrent = {0} /\ Zero.skipPercent = {0}
  BY Zenon DEF Zero
<1> QED
  BY <1>1

\* The counts are positive.
LEMMA PositiveCounts ==
  ASSUME WrittenNumbers,
         NEW f \in {"maxAttempts", "maxConcurrent", "skipPercent"}, NEW v \in Values[f]
  PROVE  v \in Nat /\ v > 0
<1>1. Values[f] = Counts \cup {3} \/ Values[f] = Counts \cup {1} \/ Values[f] = Percents \cup {50}
  BY DEF Values
<1>2. \A n \in Counts \cup {3} \cup {1} \cup Percents \cup {50} : n \in Nat /\ n > 0
  BY DEF WrittenNumbers
<1> QED
  BY <1>1, <1>2, Zenon

\* Which documented values r.Update drops: FALSE of dryRun, whose default it
\* is, and a cooldown of zero.
LEMMA DroppedByUpdate ==
  ASSUME WrittenNumbers, NEW f \in Fields, NEW v \in Values[f], {v} = Zero[f]
  PROVE  (f = "dryRun" /\ v = Default[f]) \/ (f = "cooldown" /\ v = 0)
<1>1. CASE f = "strategy"
  BY <1>1 DEF Values, Zero
<1>2. CASE f = "requireStable"
  BY <1>2 DEF Values, Zero
<1>3. CASE f \in {"maxAttempts", "maxConcurrent", "skipPercent"}
  <2>1. v = 0
    BY <1>3, ZeroCounts
  <2>2. v > 0
    BY <1>3, PositiveCounts
  <2> QED
    BY <2>1, <2>2
<1>4. CASE f = "cooldown"
  BY <1>4 DEF Zero
<1>5. CASE f = "dryRun"
  BY <1>5 DEF Zero, Default
<1> QED
  BY <1>1, <1>2, <1>3, <1>4, <1>5, FieldNames

LEMMA FaithfulStep ==
  ASSUME WrittenNumbers, Faithful, [Next]_vars
  PROVE  Faithful'
<1>1. ASSUME NEW m \in Optional(RemediationSpec), Apply(m) PROVE Faithful'
  <2>1. CASE m = {}
    BY <1>1, <2>1 DEF Apply, Faithful, Holds
  <2>2. ASSUME NEW r \in RemediationSpec, m = {r} PROVE Faithful'
    <3>1. block' = Defaulted({r}) /\ manifest' = {r}
      BY <1>1, <2>2 DEF Apply
    <3> QED
      BY <1>1, <2>2, <3>1, DefaultedHolds DEF Faithful
  <2> QED
    BY <2>1, <2>2 DEF Optional
<1>2. CASE AddFinalizer
  <2> DEFINE d == Decoded(block)
             e == [f \in Fields |-> IF d[f] = Zero[f] THEN {} ELSE d[f]]
             s == [f \in Fields |-> IF e[f] = {} THEN {Default[f]} ELSE e[f]]
  <2>1. block' = {s} /\ manifest' = manifest
    BY <1>2 DEF AddFinalizer, Defaulted, Encoded
  <2>2. CASE block = {} /\ manifest = {}
    <3>1. \A f \in Fields : s[f] = {Documented(manifest)[f]}
      BY <2>2 DEF Decoded, Documented
    <3> QED
      BY <2>1, <3>1 DEF Faithful, Holds
  <2>3. ASSUME NEW r, block = {r}, Holds(r, manifest) PROVE Faithful'
    <3>1. ASSUME NEW f \in Fields
          PROVE  \/ s[f] = {Documented(manifest)[f]}
                 \/ f = "cooldown" /\ Documented(manifest)[f] = 0 /\ s[f] = {Default[f]}
      <4>1. r[f] # {} /\ The(block) = r
        BY <2>3, TheOne DEF Holds
      <4>2. s[f] = IF r[f] = Zero[f] THEN {Default[f]} ELSE r[f]
        BY <2>3, <4>1 DEF Decoded
      <4> HIDE DEF s
      <4>3. CASE r[f] = {Documented(manifest)[f]}
        BY <4>2, <4>3, DocumentedValues, DroppedByUpdate DEF Faithful
      <4>4. CASE f = "cooldown" /\ Documented(manifest)[f] = 0 /\ r[f] = {Default[f]}
        BY <4>2, <4>4
      <4> QED
        BY <2>3, <4>3, <4>4 DEF Holds
    <3> HIDE DEF s
    <3>2. DOMAIN s = Fields
      BY DEF s
    <3> QED
      BY <2>1, <3>1, <3>2 DEF Faithful, Holds
  <2> QED
    BY <2>2, <2>3 DEF Faithful
<1>3. CASE Delete
  BY <1>3 DEF Delete, Faithful, Optional
<1>4. CASE UNCHANGED vars
  BY <1>4 DEF vars, Faithful, Holds
<1> QED
  BY <1>1, <1>2, <1>3, <1>4 DEF Next

LEMMA FaithfulKeeps ==
  ASSUME WrittenNumbers, Faithful
  PROVE  SettingsKept
<1> SUFFICES ASSUME NEW f \in Fields
             PROVE  \/ InForce(block)[f] = Documented(manifest)[f]
                    \/ f = "cooldown" /\ Documented(manifest).cooldown = 0
                    \/ f \in {"cooldown", "skipPercent"} /\ block = {}
  BY DEF SettingsKept
<1> DEFINE d == Decoded(block)
           doc == Documented(manifest)
\* InForce, field by field.
<1>0. /\ InForce(block).strategy = IF d.strategy = {""} THEN "Auto" ELSE The(d.strategy)
      /\ InForce(block).requireStable = (d.requireStable = {} \/ The(d.requireStable))
      /\ InForce(block).maxAttempts = Positive(The(d.maxAttempts), 3)
      /\ InForce(block).cooldown = The(d.cooldown)
      /\ InForce(block).maxConcurrent = Positive(The(d.maxConcurrent), 1)
      /\ InForce(block).skipPercent = The(d.skipPercent)
      /\ InForce(block).dryRun = The(d.dryRun)
  BY Zenon DEF InForce
<1>1. CASE block = {} /\ manifest = {}
  <2>1. \A g \in Fields : d[g] = Zero[g] /\ doc[g] = Default[g]
    BY <1>1 DEF Decoded, Documented
  <2> HIDE DEF d, doc
  <2>2. CASE f = "strategy"
    <3>1. Zero.strategy = {""} /\ Default.strategy = "Auto"
      BY DEF Zero, Default
    <3> QED
      BY <1>0, <2>1, <2>2, <3>1 DEF doc
  <2>3. CASE f = "requireStable"
    <3>1. Zero.requireStable = {} /\ Default.requireStable = TRUE
      BY Zenon DEF Zero, Default
    <3> QED
      BY <1>0, <2>1, <2>3, <3>1 DEF doc
  <2>4. CASE f \in {"maxAttempts", "maxConcurrent"}
    <3>1. The(d[f]) = 0
      BY <2>1, <2>4, ZeroCounts, TheOne
    <3>2. Default.maxAttempts = 3 /\ Default.maxConcurrent = 1
      BY DEF Default
    <3>3. \A n : Positive(0, n) = n
      BY DEF Positive
    <3>4. CASE f = "maxAttempts"
      BY <1>0, <2>1, <3>1, <3>2, <3>3, <3>4 DEF doc
    <3>5. CASE f = "maxConcurrent"
      BY <1>0, <2>1, <3>1, <3>2, <3>3, <3>5 DEF doc
    <3> QED
      BY <2>4, <3>4, <3>5
  <2>5. CASE f = "dryRun"
    <3>1. Zero.dryRun = {FALSE} /\ Default.dryRun = FALSE
      BY Zenon DEF Zero, Default
    <3>2. The(d.dryRun) = FALSE
      BY <2>1, <2>5, <3>1, TheOne, Zenon
    <3> QED
      BY <1>0, <2>1, <2>5, <3>1, <3>2, Zenon DEF doc
  <2> QED
    BY <1>1, <2>2, <2>3, <2>4, <2>5, FieldNames
<1>2. ASSUME NEW r \in block, block = {r}, Holds(r, manifest)
      PROVE  InForce(block)[f] = doc[f] \/ (f = "cooldown" /\ Documented(manifest).cooldown = 0)
  <2>1. \A g \in Fields : r[g] # {} /\ The(block) = r
    BY <1>2, TheOne DEF Holds
  <2>2. \A g \in Fields : d[g] = r[g]
    BY <1>2, <2>1 DEF Decoded
  <2>3. doc[f] \in Values[f]
    BY DocumentedValues DEF Faithful
  <2>4. CASE d[f] = {doc[f]}
    <3>1. The(d[f]) = doc[f]
      BY <2>4, TheOne
    <3> HIDE DEF d, doc
    <3>2. CASE f = "strategy"
      <4>1. doc[f] # ""
        BY <2>3, <3>2 DEF Values
      <4> QED
        BY <1>0, <2>4, <3>1, <3>2, <4>1
    <3>3. CASE f = "requireStable"
      <4>1. d.requireStable # {} /\ The(d.requireStable) = doc[f] /\ doc[f] \in BOOLEAN
        BY <2>3, <2>4, <3>1, <3>3 DEF Values
      <4> QED
        BY <1>0, <3>3, <4>1
    <3>4. CASE f \in {"maxAttempts", "maxConcurrent"}
      <4>1. doc[f] \in Nat /\ doc[f] > 0
        BY <2>3, <3>4, PositiveCounts
      <4> QED
        <5>1. \A n : Positive(doc[f], n) = doc[f]
          BY <4>1 DEF Positive
        <5> QED
          BY <1>0, <3>1, <3>4, <5>1
    <3>5. CASE f \in {"cooldown", "skipPercent", "dryRun"}
      BY <1>0, <3>1, <3>5
    <3> QED
      BY <3>2, <3>3, <3>4, <3>5, FieldNames
  <2> QED
    BY <1>2, <2>2, <2>4 DEF Holds
<1> QED
  BY <1>1, <1>2 DEF Faithful

(***************************************************************************)
(* Whatever users write, apply again and delete, and whenever Reconcile    *)
(* adds the finalizer, the settings in force are the documented ones: all  *)
(* of them, but for a cooldown of zero and for a block removed after       *)
(* adoption (RemediationSpec's markers and omitempty tags, Reconcile's     *)
(* r.Update).                                                              *)
(***************************************************************************)
THEOREM SettingsSurvive ==
  ASSUME WrittenNumbers
  PROVE  Spec => []SettingsKept
<1>1. Init => Faithful
  BY DEF Init, Faithful, Optional
<1>2. Faithful /\ [Next]_vars => Faithful'
  BY FaithfulStep
<1>3. Faithful => SettingsKept
  BY FaithfulKeeps
<1> QED
  BY <1>1, <1>2, <1>3, PTL DEF Spec
=============================================================================
