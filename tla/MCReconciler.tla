---------------------------- MODULE MCReconciler ----------------------------
EXTENDS Reconciler, TLC

\* Pods are interchangeable: the safety runs explore them up to renaming.  (Only
\* Init names some, with CHOOSE; the steps and the properties treat them alike.)
PodSymmetry == Permutations(Uids)
=============================================================================
