-------------------------- MODULE HysteresisProofs --------------------------
(***************************************************************************)
(* Two saturating counters and a flag are enough: the verdict record keeps *)
(* is the declarative one for every threshold, every default and every     *)
(* history of probes, however long.                                        *)
(***************************************************************************)
EXTENDS Hysteresis, TLAPS

(***************************************************************************)
(* The history as the set of the probes that were answered.                *)
(***************************************************************************)
Length == Len(hist)
Up == {k \in 1..Length : Answered(hist[k])}

AllUp(a, lo, hi)   == \A k \in lo..hi : k \in a
AllDown(a, lo, hi) == \A k \in lo..hi : k \notin a

\* Out of n probes: a run of f failures ended at i, and none of s successes since.
Failed(a, n, f, s, i) ==
  /\ AllDown(a, i - f + 1, i)
  /\ \A j \in (i + s)..n : ~AllUp(a, j - s + 1, j)

Unhealthy(a, n, f, s) == \E i \in f..n : Failed(a, n, f, s, i)

(***************************************************************************)
(* The verdict alone is not inductive.  It needs what the counters mean: c *)
(* is the length of the last run of failures (or successes), which is      *)
(* bounded by an opposite result, by the beginning of the history, or not  *)
(* known because the counter has reached its cap.                          *)
(***************************************************************************)
LastDown(a, n, c) ==
  /\ c \in 0..CountCap /\ c <= n
  /\ AllDown(a, n - c + 1, n)
  /\ c < CountCap /\ c < n => n - c \in a

LastUp(a, n, c) ==
  /\ c \in 0..CountCap /\ c <= n
  /\ AllUp(a, n - c + 1, n)
  /\ c < CountCap /\ c < n => n - c \notin a

\* The probe is one a user may write, and cfg is what Reconcile makes of it.
Configured ==
  /\ probe.success \in 0..MaxThreshold /\ probe.failure \in 0..MaxThreshold
  /\ probe.timeout \in 0..MaxThreshold
  /\ cfg = NormalizeProbe(probe)

Remembers ==
  /\ Configured
  /\ hist \in Seq(Meetings)
  /\ entry \in Entry
  /\ LastDown(Up, Length, entry.fails)
  /\ LastUp(Up, Length, entry.succs)
  /\ entry.healthy <=> ~Unhealthy(Up, Length, Failures, Successes)
-----------------------------------------------------------------------------
(***************************************************************************)
(* What one more probe does to the runs.  a is what the first n probes     *)
(* met.                                                                    *)
(***************************************************************************)
LEMMA OneMoreUp ==
  ASSUME NEW n \in Nat, NEW a \in SUBSET (1..n), NEW c, LastUp(a, n, c)
  PROVE  LastUp(a \cup {n + 1}, n + 1, Bump(c)) /\ LastDown(a \cup {n + 1}, n + 1, 0)
  BY BoundAssumption DEF LastUp, LastDown, AllUp, AllDown, Bump

LEMMA OneMoreDown ==
  ASSUME NEW n \in Nat, NEW a \in SUBSET (1..n), NEW c, LastDown(a, n, c)
  PROVE  LastDown(a, n + 1, Bump(c)) /\ LastUp(a, n + 1, 0)
  BY BoundAssumption DEF LastUp, LastDown, AllUp, AllDown, Bump

\* An answer ends the failure exactly when it completes a run of s.
LEMMA VerdictAfterUp ==
  ASSUME NEW n \in Nat, NEW a \in SUBSET (1..n), NEW c, LastUp(a, n, c),
         NEW f \in 1..CountCap, NEW s \in 1..CountCap
  PROVE  Unhealthy(a \cup {n + 1}, n + 1, f, s) <=> Unhealthy(a, n, f, s) /\ Bump(c) < s
<1> DEFINE b == a \cup {n + 1}
<1>0. c \in Nat /\ CountCap \in Nat /\ c <= n
  BY BoundAssumption DEF LastUp
<1>1. ASSUME NEW i \in f..(n + 1), Failed(b, n + 1, f, s, i) PROVE i \in f..n
  BY <1>1 DEF Failed, AllDown
<1>2. ASSUME NEW i \in f..n
      PROVE  /\ AllDown(b, i - f + 1, i) <=> AllDown(a, i - f + 1, i)
             /\ \A j \in (i + s)..n : AllUp(b, j - s + 1, j) <=> AllUp(a, j - s + 1, j)
  BY DEF AllDown, AllUp
<1>3. CASE Bump(c) >= s
  <2>1. AllUp(b, n + 1 - s + 1, n + 1) /\ s <= n + 1
    BY <1>0, <1>3 DEF LastUp, AllUp, Bump
  <2>2. ASSUME NEW i \in f..n, AllDown(b, i - f + 1, i) PROVE n + 1 \in (i + s)..(n + 1)
    <3>1. i \notin b
      BY <2>2 DEF AllDown
    <3>2. i < n + 1 - s + 1
      BY <2>1, <3>1 DEF AllUp
    <3> QED
      BY <3>2
  <2>3. ~Unhealthy(b, n + 1, f, s)
    BY <1>1, <2>1, <2>2 DEF Unhealthy, Failed
  <2>4. ~(Bump(c) < s)
    BY <1>0, <1>3 DEF Bump
  <2> QED
    BY <2>3, <2>4
<1>4. CASE ~(Bump(c) >= s)
  <2>1. Bump(c) = c + 1 /\ c + 1 < s /\ c < CountCap /\ Bump(c) < s
    BY <1>0, <1>4 DEF Bump
  <2>2. ASSUME NEW i \in f..n, n + 1 \in (i + s)..(n + 1) PROVE ~AllUp(b, n + 1 - s + 1, n + 1)
    <3>1. c < n /\ n - c \in (n + 1 - s + 1)..(n + 1) /\ n - c # n + 1
      BY <1>0, <2>1, <2>2
    <3>2. n - c \notin a
      BY <2>1, <3>1 DEF LastUp
    <3> QED
      BY <3>1, <3>2 DEF AllUp
  <2>3. ASSUME NEW i \in f..n PROVE Failed(b, n + 1, f, s, i) <=> Failed(a, n, f, s, i)
    <3>1. Failed(b, n + 1, f, s, i) => Failed(a, n, f, s, i)
      BY <1>2 DEF Failed
    <3>2. \A j \in (i + s)..(n + 1) : j \in (i + s)..n \/ j = n + 1
      OBVIOUS
    <3>3. Failed(a, n, f, s, i) => Failed(b, n + 1, f, s, i)
      BY <1>2, <2>2, <3>2 DEF Failed
    <3> QED
      BY <3>1, <3>3
  <2>4. f..n \subseteq f..(n + 1)
    OBVIOUS
  <2> QED
    BY <1>1, <2>1, <2>3, <2>4 DEF Unhealthy
<1> QED
  BY <1>3, <1>4

\* A failure begins exactly when a run of f is complete.
LEMMA VerdictAfterDown ==
  ASSUME NEW n \in Nat, NEW a \in SUBSET (1..n), NEW c, LastDown(a, n, c),
         NEW f \in 1..CountCap, NEW s \in 1..CountCap
  PROVE  Unhealthy(a, n + 1, f, s) <=> Unhealthy(a, n, f, s) \/ Bump(c) >= f
<1>0. c \in Nat /\ CountCap \in Nat /\ c <= n /\ n + 1 \notin a
  BY BoundAssumption DEF LastDown
<1>1. ASSUME NEW i \in f..n PROVE Failed(a, n + 1, f, s, i) <=> Failed(a, n, f, s, i)
  <2>1. ~AllUp(a, n + 1 - s + 1, n + 1)
    BY <1>0 DEF AllUp
  <2>2. \A j \in (i + s)..(n + 1) : j \in (i + s)..n \/ j = n + 1
    OBVIOUS
  <2>3. (i + s)..n \subseteq (i + s)..(n + 1)
    OBVIOUS
  <2> QED
    BY <2>1, <2>2, <2>3 DEF Failed
<1>2. Failed(a, n + 1, f, s, n + 1) <=> AllDown(a, n + 1 - f + 1, n + 1)
  <2>1. (n + 1 + s)..(n + 1) = {}
    OBVIOUS
  <2> QED
    BY <2>1 DEF Failed
<1>3. f <= n + 1 /\ AllDown(a, n + 1 - f + 1, n + 1) <=> Bump(c) >= f
  <2>1. CASE Bump(c) >= f
    BY <1>0, <2>1 DEF LastDown, AllDown, Bump
  <2>2. CASE ~(Bump(c) >= f) /\ f <= n + 1
    <3>1. c + 1 < f /\ c < CountCap /\ c < n /\ n - c \in (n + 1 - f + 1)..(n + 1)
      BY <1>0, <2>2 DEF Bump
    <3>2. n - c \in a
      BY <3>1 DEF LastDown
    <3> QED
      BY <2>2, <3>1, <3>2 DEF AllDown
  <2> QED
    BY <2>1, <2>2
<1>4. \A i : i \in f..(n + 1) <=> i \in f..n \/ (i = n + 1 /\ f <= n + 1)
  OBVIOUS
<1> QED
  BY <1>1, <1>2, <1>3, <1>4 DEF Unhealthy
-----------------------------------------------------------------------------
(***************************************************************************)
(* The program's side: configuration, checker and record.                  *)
(***************************************************************************)
LEMMA Thresholds ==
  ASSUME Configured
  PROVE  /\ Failures \in 1..CountCap /\ Successes \in 1..CountCap
         /\ Failure(cfg) = Failures /\ Success(cfg) = Successes
<1>1. cfg.failure = Threshold(probe.failure, 3) /\ cfg.success = Threshold(probe.success, 1)
  BY DEF Configured, NormalizeProbe
<1> QED
  BY <1>1, BoundAssumption DEF Configured, Threshold, Failure, Success, Failures, Successes, Written

\* 2xx or 3xx in time is what Probe accepts.
LEMMA ProbeAnswered ==
  ASSUME Configured, NEW m \in Meetings
  PROVE  Probe(m, cfg) <=> Answered(m)
<1>1. cfg.timeout = Seconds(probe.timeout, 1)
  BY DEF Configured, NormalizeProbe
<1>2. m.status \in Nat
  BY DEF Meetings
<1>3. m.status \in 200..399 <=> m.status \div 100 \in {2, 3}
  BY <1>2
<1>4. (IF cfg.timeout <= 0 THEN 1 ELSE cfg.timeout) = Written(probe.timeout, 1)
  BY <1>1, BoundAssumption DEF Configured, Seconds, Written
<1> QED
  BY <1>3, <1>4 DEF Probe, Answered

\* The definition of the property, on the set of the answered probes.
LEMMA VerdictIsUnhealthy ==
  ASSUME Configured, hist \in Seq(Meetings)
  PROVE  (\E i \in Failures..Len(hist) : FailedAt(i)) <=> Unhealthy(Up, Length, Failures, Successes)
<1>0. Len(hist) \in Nat /\ Failures \in Nat /\ Successes \in Nat /\ Failures >= 1 /\ Successes >= 1
  BY Thresholds, BoundAssumption
<1>1. \A k \in 1..Len(hist) : (Answered(hist[k]) = TRUE <=> k \in Up) /\ (Answered(hist[k]) = FALSE <=> k \notin Up)
  BY DEF Up, Length, Answered
<1>2. ASSUME NEW lo \in Int, NEW hi \in Int, lo >= 1, hi <= Len(hist)
      PROVE  (Run(lo, hi, TRUE) <=> AllUp(Up, lo, hi)) /\ (Run(lo, hi, FALSE) <=> AllDown(Up, lo, hi))
  <2>1. lo..hi \subseteq 1..Len(hist)
    BY <1>2
  <2> QED
    BY <1>1, <2>1 DEF Run, AllUp, AllDown
<1>3. ASSUME NEW i \in Failures..Len(hist)
      PROVE  FailedAt(i) <=> Failed(Up, Length, Failures, Successes, i)
  <2>1. Run(i - Failures + 1, i, FALSE) <=> AllDown(Up, i - Failures + 1, i)
    <3>1. i \in Int /\ i - Failures + 1 \in Int /\ i - Failures + 1 >= 1 /\ i <= Len(hist)
      BY <1>0
    <3> QED
      BY <1>2, <3>1, Zenon
  <2>2. ASSUME NEW j \in (i + Successes)..Len(hist)
        PROVE  Run(j - Successes + 1, j, TRUE) <=> AllUp(Up, j - Successes + 1, j)
    <3>1. j \in Int /\ j - Successes + 1 \in Int /\ j - Successes + 1 >= 1 /\ j <= Len(hist)
      BY <1>0
    <3> QED
      BY <1>2, <3>1, Zenon
  <2> QED
    BY <2>1, <2>2 DEF FailedAt, Failed, Length
<1> QED
  BY <1>3 DEF Unhealthy, Length

LEMMA RemembersStep ==
  ASSUME Remembers, NEW m \in Meetings, ProbeResult(m)
  PROVE  Remembers'
<1> DEFINE n == Len(hist)
<1>0. /\ n \in Nat /\ hist \in Seq(Meetings) /\ probe' = probe /\ cfg' = cfg
      /\ hist' = Append(hist, m) /\ Configured
  BY DEF Remembers, ProbeResult
<1>1. /\ Len(hist') = n + 1 /\ hist'[n + 1] = m /\ hist' \in Seq(Meetings)
      /\ \A k \in 1..n : hist'[k] = hist[k]
  BY <1>0
<1>2. Failures' = Failures /\ Successes' = Successes /\ Configured'
  BY <1>0 DEF Failures, Successes, Configured
<1>3. Length = n /\ Length' = n + 1 /\ Up \in SUBSET (1..n)
  BY <1>1 DEF Length, Up
<1>4. Up' = IF Answered(m) THEN Up \cup {n + 1} ELSE Up
  <2>1. \A x : Answered(x)' <=> Answered(x)
    BY <1>0 DEF Answered
  <2>2. \A k \in 1..(n + 1) : k \in 1..n \/ k = n + 1
    BY <1>0
  <2> QED
    BY <1>0, <1>1, <1>3, <2>1, <2>2 DEF Up
<1>5. Failures \in 1..CountCap /\ Successes \in 1..CountCap
      /\ Failure(cfg) = Failures /\ Success(cfg) = Successes
  BY <1>0, Thresholds
<1>6. entry' = Record(entry, cfg, Answered(m))
  <2>1. Probe(m, cfg) = Answered(m)
    BY <1>0, ProbeAnswered DEF Probe, Answered
  <2> QED
    BY <2>1 DEF ProbeResult
<1>7. /\ entry.healthy \in BOOLEAN /\ LastDown(Up, n, entry.fails) /\ LastUp(Up, n, entry.succs)
      /\ entry.healthy <=> ~Unhealthy(Up, n, Failures, Successes)
  BY <1>3 DEF Remembers, Entry
<1> HIDE DEF n
<1>8. CASE Answered(m)
  <2>1. /\ entry'.fails = 0 /\ entry'.succs = Bump(entry.succs)
        /\ entry'.healthy <=> entry.healthy \/ Bump(entry.succs) >= Successes
        /\ entry' = [healthy |-> entry'.healthy, fails |-> entry'.fails, succs |-> entry'.succs]
        /\ entry'.healthy \in BOOLEAN
    BY <1>5, <1>6, <1>7, <1>8 DEF Record
  <2>2. LastUp(Up', n + 1, entry'.succs) /\ LastDown(Up', n + 1, entry'.fails)
    BY <1>0, <1>3, <1>4, <1>7, <1>8, <2>1, OneMoreUp
  <2>3. Unhealthy(Up', n + 1, Failures, Successes)
          <=> Unhealthy(Up, n, Failures, Successes) /\ Bump(entry.succs) < Successes
    BY <1>0, <1>3, <1>4, <1>5, <1>7, <1>8, VerdictAfterUp
  <2>4. Bump(entry.succs) < Successes <=> ~(Bump(entry.succs) >= Successes)
    BY <1>5, <1>7, BoundAssumption DEF Bump, LastUp
  <2>5. entry'.healthy <=> ~Unhealthy(Up', n + 1, Failures, Successes)
    BY <1>7, <2>1, <2>3, <2>4
  <2>6. entry' \in Entry
    BY <2>1, <2>2, Zenon DEF Entry, LastUp, LastDown
  <2> QED
    BY <1>1, <1>2, <1>3, <2>2, <2>5, <2>6 DEF Remembers
<1>9. CASE ~Answered(m)
  <2>1. /\ entry'.succs = 0 /\ entry'.fails = Bump(entry.fails)
        /\ entry'.healthy <=> entry.healthy /\ Bump(entry.fails) < Failures
        /\ entry' = [healthy |-> entry'.healthy, fails |-> entry'.fails, succs |-> entry'.succs]
        /\ entry'.healthy \in BOOLEAN
    BY <1>5, <1>6, <1>7, <1>9 DEF Record
  <2>2. LastUp(Up', n + 1, entry'.succs) /\ LastDown(Up', n + 1, entry'.fails)
    BY <1>0, <1>3, <1>4, <1>7, <1>9, <2>1, OneMoreDown
  <2>3. Unhealthy(Up', n + 1, Failures, Successes)
          <=> Unhealthy(Up, n, Failures, Successes) \/ Bump(entry.fails) >= Failures
    BY <1>0, <1>3, <1>4, <1>5, <1>7, <1>9, VerdictAfterDown
  <2>4. Bump(entry.fails) < Failures <=> ~(Bump(entry.fails) >= Failures)
    BY <1>5, <1>7, BoundAssumption DEF Bump, LastDown
  <2>5. entry'.healthy <=> ~Unhealthy(Up', n + 1, Failures, Successes)
    BY <1>7, <2>1, <2>3, <2>4
  <2>6. entry' \in Entry
    BY <2>1, <2>2, Zenon DEF Entry, LastUp, LastDown
  <2> QED
    BY <1>1, <1>2, <1>3, <2>2, <2>5, <2>6 DEF Remembers
<1> QED
  BY <1>8, <1>9

LEMMA RemembersInit == Init => Remembers
<1> SUFFICES ASSUME Init PROVE Remembers
  OBVIOUS
<1>1. Configured
  BY DEF Init, Configured
<1>2. hist = <<>> /\ Len(hist) = 0 /\ hist \in Seq(Meetings)
  BY DEF Init
<1>3. entry \in Entry /\ entry.fails = 0 /\ entry.succs = 0 /\ entry.healthy
  BY BoundAssumption DEF Init, FreshEntry, Entry
<1>4. Up = {} /\ Length = 0
  BY <1>2 DEF Up, Length
<1>5. ~Unhealthy(Up, Length, Failures, Successes)
  BY <1>1, <1>4, Thresholds, BoundAssumption DEF Unhealthy
<1>6. LastDown(Up, Length, 0) /\ LastUp(Up, Length, 0)
  BY <1>4, BoundAssumption DEF LastDown, LastUp, AllUp, AllDown
<1> QED
  BY <1>1, <1>2, <1>3, <1>5, <1>6 DEF Remembers

(***************************************************************************)
(* A pod is unhealthy exactly when a run of failureThreshold probes        *)
(* without a proper answer in time has not been followed by a run of       *)
(* successThreshold answered ones (normalizeProbe, HTTPChecker.Probe,      *)
(* podEntry.record), for all thresholds and histories of any length.       *)
(***************************************************************************)
THEOREM VerdictIsRight == Spec => []VerdictMatchesHistory
<1>1. Remembers /\ [Next]_vars => Remembers'
  <2> SUFFICES ASSUME Remembers, [Next]_vars PROVE Remembers'
    OBVIOUS
  <2>1. CASE UNCHANGED vars
    BY <2>1 DEF vars, Remembers, Configured, Up, Length, Failures, Successes, Answered, LastUp, LastDown,
                AllUp, AllDown, Unhealthy, Failed
  <2> QED
    BY <2>1, RemembersStep DEF Next
<1>2. Remembers => VerdictMatchesHistory
  BY VerdictIsUnhealthy DEF Remembers, VerdictMatchesHistory
<1> QED
  BY <1>1, <1>2, RemembersInit, PTL DEF Spec
=============================================================================
