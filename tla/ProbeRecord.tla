---------------------------- MODULE ProbeRecord ----------------------------
(***************************************************************************)
(* The per-pod threshold state machine of internal/prober/prober.go: what  *)
(* one probe result does to a podEntry.  Pure operators, shared by         *)
(* Hysteresis (checked against a reference definition) and Prober.         *)
(***************************************************************************)
EXTENDS Integers

CONSTANT CountCap   \* the consecutive counters saturate here (int32 in the code)

\* record treats a non-positive threshold as the kubelet default.
Success(c) == IF c.success <= 0 THEN 1 ELSE c.success
Failure(c) == IF c.failure <= 0 THEN 3 ELSE c.failure

\* Counters are only ever compared with thresholds, so every value from the
\* largest threshold upwards is alike: CountCap stands for all of them.
Bump(n) == IF n < CountCap THEN n + 1 ELSE CountCap

Entry == [healthy : BOOLEAN, fails : 0..CountCap, succs : 0..CountCap]

\* Sync creates a podEntry that is assumed healthy.
FreshEntry == [healthy |-> TRUE, fails |-> 0, succs |-> 0]

\* Mutants of Record: an off-by-one threshold, a counter that survives the
\* opposite result, a success that takes back one failure only.
RecordOneEarly(e, c, ok) ==
  IF ok
  THEN [healthy |-> e.healthy \/ Bump(e.succs) >= Success(c), fails |-> 0, succs |-> Bump(e.succs)]
  ELSE [healthy |-> e.healthy /\ Bump(e.fails) < Failure(c) - 1, fails |-> Bump(e.fails), succs |-> 0]

RecordKeepsCount(e, c, ok) ==
  IF ok
  THEN [healthy |-> e.healthy \/ Bump(e.succs) >= Success(c), fails |-> e.fails, succs |-> Bump(e.succs)]
  ELSE [healthy |-> e.healthy /\ Bump(e.fails) < Failure(c), fails |-> Bump(e.fails), succs |-> 0]

RecordForgivesOne(e, c, ok) ==
  IF ok
  THEN [healthy |-> e.healthy \/ Bump(e.succs) >= Success(c), fails |-> e.fails - 1, succs |-> Bump(e.succs)]
  ELSE [healthy |-> e.healthy /\ Bump(e.fails) < Failure(c), fails |-> Bump(e.fails), succs |-> 0]

\* record: the counter of the result goes up, the other one to zero, and the
\* verdict flips when the counter has reached its threshold.
Record(e, c, ok) ==
  IF ok
  THEN [healthy |-> e.healthy \/ Bump(e.succs) >= Success(c), fails |-> 0, succs |-> Bump(e.succs)]
  ELSE [healthy |-> e.healthy /\ Bump(e.fails) < Failure(c), fails |-> Bump(e.fails), succs |-> 0]

\* The boolean record returns: has the verdict flipped?
Transitioned(e, c, ok) == Record(e, c, ok).healthy # e.healthy
=============================================================================
