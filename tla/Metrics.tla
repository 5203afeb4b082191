------------------------------ MODULE Metrics ------------------------------
(***************************************************************************)
(* The gauges of internal/metrics next to the Reconciler that sets them:   *)
(* the number of targets, of healthy ones, and hotswap_circuit_open.  They *)
(* are set while Reconcile decides, before it is known whether its status  *)
(* write will succeed.  The process keeps them in memory, and this is one  *)
(* life of it.  Counters only ever grow and nothing in the program reads   *)
(* them: left out.                                                         *)
(***************************************************************************)
EXTENDS Reconciler

VARIABLES
  total, healthy,   \* TargetsTotal, TargetsHealthy, per policy
  circuit           \* CircuitOpen

gauges == <<total, healthy, circuit>>
meteredVars == <<vars, gauges>>

\* A series that was never set reads as zero.
Unmetered == [p \in Policies |-> 0]

MeteredInit == Init /\ total = Unmetered /\ healthy = Unmetered /\ circuit = Unmetered

\* Mutant: nothing closes the circuit again.
CircuitAfterLatched(reason, before) == IF reason = "CircuitOpen" THEN 1 ELSE before

\* Set(1) where the breaker is found open, Set(0) where all is healthy; the
\* other verdicts leave the gauge as it is.
CircuitAfter(reason, before) ==
  IF reason = "CircuitOpen" THEN 1 ELSE IF reason = "AllHealthy" THEN 0 ELSE before

\* The part of Decide that is about metrics; a remediation comes to no reason yet.
Measure ==
  LET p == work.p
      reason == IF work'.pc = "status" THEN work'.obj.cond ELSE "Remediate"
  IN /\ total' = [total EXCEPT ![p] = Cardinality(probed[p])]
     /\ healthy' = [healthy EXCEPT ![p] = Cardinality(probed[p] \ sick[p])]
     /\ circuit' = [circuit EXCEPT ![p] = CircuitAfter(reason, @)]

Decides == work.pc = "decide" /\ work'.pc \in {"status", "act"}

MeteredNext == Living /\ IF Decides THEN Measure ELSE UNCHANGED gauges

MeteredSpec == MeteredInit /\ [][MeteredNext]_meteredVars
-----------------------------------------------------------------------------
(***************************************************************************)
(* Alerts and the status of a policy tell the same story while the process *)
(* lives and its writes succeed, although the gauges are set a step before *)
(* the status and hotswap_circuit_open is only ever touched by two of the  *)
(* verdicts (metrics.go: "1 when a hotswap policy's remediation circuit    *)
(* breaker is open"): the gauge never outlasts the attempts it is about, a *)
(* status that blames the breaker has it at 1, and no status asks for a    *)
(* remediation that the target gauges deny.                                *)
(***************************************************************************)
GaugesAgree ==
  \A p \in Policies :
    /\ circuit[p] = 1 => pol[p].attempts >= MaxAttempts
    /\ work.pc = "idle" /\ pol[p].cond = "CircuitOpen" => circuit[p] = 1
    /\ work.pc = "idle" /\ pol[p].cond \in {"Remediating", "SystemicFailure", "CircuitOpen"}
         => healthy[p] < total[p]
=============================================================================
