--------------------------- MODULE DecisionProofs ---------------------------
(***************************************************************************)
(* What the decision helpers promise each other, for all their arguments.  *)
(***************************************************************************)
EXTENDS Decision, TLAPS

(***************************************************************************)
(* The circuit breaker suppresses nothing the cooldown would not suppress  *)
(* (breakerOpen, cooldownActive share the same window): however many       *)
(* attempts have failed, hotswap acts again as soon as the cooldown ends.  *)
(* MaxConsecutiveAttempts changes what is reported, not what is done.      *)
(***************************************************************************)
THEOREM BreakerAddsNothing ==
  ASSUME NEW attempts \in Nat, NEW maxAttempts \in Nat, NEW last \in Int,
         NEW cooldown \in Nat \ {0}, NEW now \in Nat,
         BreakerOpen(attempts, maxAttempts, last, cooldown, now)
  PROVE  CooldownActive(last, cooldown, now)
  BY DEF BreakerOpen, CooldownActive

(***************************************************************************)
(* With two targets or more, all of them unhealthy at once is a systemic   *)
(* failure under every SystemicFailureSkipPercent the API admits           *)
(* (isSystemic): one decision never sets out to replace all of them.       *)
(***************************************************************************)
THEOREM AllUnhealthyIsSystemic ==
  ASSUME NEW total \in Nat, total >= 2, NEW skipPercent \in 1..100
  PROVE  IsSystemic(total, total, skipPercent)
<1>1. skipPercent * total <= 100 * total
  OBVIOUS
<1>2. 100 * total = total * 100
  OBVIOUS
<1> QED
  BY <1>1, <1>2 DEF IsSystemic

(***************************************************************************)
(* The valve is monotonic: when it holds hotswap back it still does with   *)
(* more unhealthy targets, or fewer targets of which as many (but at least *)
(* two) are left.  Only losing all but one target lifts it (isSystemic).   *)
(***************************************************************************)
THEOREM SystemicIsMonotonic ==
  ASSUME NEW n \in Nat, NEW m \in Nat, n <= m,
         NEW total \in Nat, NEW fewer \in Nat, fewer <= total, fewer >= 2,
         NEW skipPercent \in 1..100, IsSystemic(n, total, skipPercent)
  PROVE  IsSystemic(m, fewer, skipPercent)
<1>1. skipPercent * fewer <= skipPercent * total
  OBVIOUS
<1>2. n * 100 >= skipPercent * total /\ n * 100 <= m * 100 /\ m > 0
  BY DEF IsSystemic
<1>3. skipPercent * fewer \in Nat /\ skipPercent * total \in Nat
  OBVIOUS
<1> QED
  BY <1>1, <1>2, <1>3 DEF IsSystemic

(***************************************************************************)
(* lessPolicy is a strict total order on policies with distinct names, so  *)
(* of the policies for a Deployment one and only one finds no conflict.    *)
(***************************************************************************)
THEOREM PolicyOrder ==
  ASSUME NEW a \in Nat, NEW b \in Nat, NEW c \in Nat,
         NEW ta \in Nat, NEW tb \in Nat, NEW tc \in Nat
  PROVE  /\ ~LessPolicy(a, ta, a, ta)
         /\ a # b => (LessPolicy(a, ta, b, tb) <=> ~LessPolicy(b, tb, a, ta))
         /\ LessPolicy(a, ta, b, tb) /\ LessPolicy(b, tb, c, tc) => LessPolicy(a, ta, c, tc)
  BY DEF LessPolicy
=============================================================================
