---------------------------- MODULE ProbeConfig ----------------------------
(***************************************************************************)
(* From the hotswapProbe a user writes to one probe's result:              *)
(* normalizeProbe (internal/controller/logic.go) and HTTPChecker.Probe     *)
(* (internal/prober/checker.go), as operators.  Times are seconds; paths,  *)
(* schemes and headers only say where a request goes and are left out.     *)
(***************************************************************************)
EXTENDS Integers

\* normalizeProbe returns an error unless the probe is an httpGet with a
\* numeric port (an intstr.IntOrString).
ValidProbe(p) == p.httpGet /\ p.port.type = "Int" /\ p.port.value > 0

\* A field that is not set is zero.
Threshold(v, def) == IF v <= 0 THEN def ELSE v

Seconds(v, def) == IF v <= 0 THEN def ELSE v

NormalizeProbe(p) ==
  [period  |-> Seconds(p.period, 10),
   timeout |-> Seconds(p.timeout, 1),
   delay   |-> Seconds(p.delay, 0),
   success |-> Threshold(p.success, 1),
   failure |-> Threshold(p.failure, 3)]

\* HTTPChecker.Probe.  The request meets m: whether the pod has an IP, after
\* how long an answer comes, and its status (0 without a connection); redirects
\* are not followed.
Probe(m, c) ==
  LET timeout == IF c.timeout <= 0 THEN 1 ELSE c.timeout
  IN m.ip /\ m.after < timeout /\ m.status \in 200..399
=============================================================================
