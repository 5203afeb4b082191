----------------------------- MODULE Hysteresis -----------------------------
(***************************************************************************)
(* One pod under a fixed hotswapProbe, from the probe as the user wrote it *)
(* to the verdict: the podEntry that record maintains incrementally, next  *)
(* to everything its probes have met so far.                               *)
(***************************************************************************)
EXTENDS Naturals, Sequences, ProbeRecord, ProbeConfig

CONSTANTS MaxThreshold,  \* thresholds and the timeout are written as 0..MaxThreshold
          MaxHistory     \* bound on the number of probes

ASSUME BoundAssumption ==
  /\ MaxThreshold \in Nat /\ MaxHistory \in Nat
  /\ CountCap \in Nat /\ CountCap >= MaxThreshold /\ CountCap >= 3

VARIABLES probe,  \* spec.hotswapProbe
          cfg,    \* the ProbeConfig Reconcile makes of it
          hist,   \* what every probe so far has met, oldest first
          entry   \* the podEntry

vars == <<probe, cfg, hist, entry>>

\* A probe without httpGet, with a named port, with port 0 and a proper one.
Shapes == {<<FALSE, "Int", 80>>, <<TRUE, "String", 80>>, <<TRUE, "Int", 0>>, <<TRUE, "Int", 80>>}

\* A proper answer, a late redirect, an error, no connection, no IP yet.
Meetings == {[ip |-> TRUE, after |-> 0, status |-> 200], [ip |-> TRUE, after |-> 1, status |-> 399],
             [ip |-> TRUE, after |-> 0, status |-> 400], [ip |-> TRUE, after |-> 0, status |-> 0],
             [ip |-> FALSE, after |-> 0, status |-> 200]}

Init ==
  /\ \E s \in Shapes, success, failure, timeout \in 0..MaxThreshold :
       probe = [httpGet |-> s[1], port |-> [type |-> s[2], value |-> s[3]], period |-> 0,
                delay |-> 0, timeout |-> timeout, success |-> success, failure |-> failure]
  /\ cfg = NormalizeProbe(probe)
  /\ hist = <<>>
  /\ entry = FreshEntry

\* probeOnce; an invalid probe is never sent (Reconcile returns before Sync).
ProbeResult(m) ==
  /\ ValidProbe(probe)
  /\ Len(hist) < MaxHistory
  /\ hist' = Append(hist, m)
  /\ entry' = Record(entry, cfg, Probe(m, cfg))
  /\ UNCHANGED <<probe, cfg>>

Next == \E m \in Meetings : ProbeResult(m)

Spec == Init /\ [][Next]_vars
-----------------------------------------------------------------------------
(***************************************************************************)
(* The reference: the kubelet's documented semantics of the probe as it    *)
(* was written (types.go: "successThreshold=1, failureThreshold=3",        *)
(* "timeoutSeconds=1"; checker.go: "any 2xx/3xx response").                *)
(***************************************************************************)
Written(v, default) == IF v = 0 THEN default ELSE v
Failures  == Written(probe.failure, 3)
Successes == Written(probe.success, 1)

Answered(m) == m.ip /\ m.after < Written(probe.timeout, 1) /\ m.status \div 100 \in {2, 3}

\* The probes lo..hi were all answered, or all not.
Run(lo, hi, ok) == \A k \in lo..hi : Answered(hist[k]) = ok

\* A run of Failures ended at i, and no run of Successes has ended since.
FailedAt(i) ==
  /\ Run(i - Failures + 1, i, FALSE)
  /\ \A j \in (i + Successes)..Len(hist) : ~Run(j - Successes + 1, j, TRUE)

(***************************************************************************)
(* The verdict that normalizeProbe, Probe and record arrive at in two      *)
(* counters and a flag is the declarative one: a pod is unhealthy exactly  *)
(* when some run of failureThreshold consecutive probes without an answer  *)
(* in time has not been followed by a run of successThreshold answered     *)
(* ones.  A lost reset, a threshold or default that is off by one, or a    *)
(* counter leaking across a flip would break it.                           *)
(***************************************************************************)
VerdictMatchesHistory ==
  entry.healthy <=> ~\E i \in Failures..Len(hist) : FailedAt(i)
=============================================================================
