------------------------------ MODULE MCProber ------------------------------
EXTENDS Prober

OneConfig == {[success |-> 2, failure |-> 2, delay |-> FALSE]}

\* Two configurations Sync may swap between: other thresholds, other delay.
TwoConfigs == {[success |-> 1, failure |-> 2, delay |-> TRUE],
               [success |-> 2, failure |-> 1, delay |-> FALSE]}
=============================================================================
