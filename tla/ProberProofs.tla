---------------------------- MODULE ProberProofs ----------------------------
(***************************************************************************)
(* What the prober Manager guarantees for every number of policies, pods,  *)
(* restarts and configurations: type correctness, one live prober per      *)
(* probed pod, no overdue verdict, and the abstract store.                 *)
(***************************************************************************)
EXTENDS Prober, TLAPS

LEMMA GorFields ==
  ASSUME NEW g \in Gor
  PROVE  /\ g[1] \in Policies /\ g[2] \in Uids
         /\ g[3] \in Nat /\ 1 <= g[3] /\ g[3] <= MaxStarts
         /\ g = <<g[1], g[2], g[3]>>
  BY BoundAssumption DEF Gor

LEMMA GorMember ==
  ASSUME NEW p \in Policies, NEW u \in Uids, NEW n \in 1..MaxStarts
  PROVE  <<p, u, n>> \in Gor
  BY DEF Gor

\* record keeps an entry an entry.
LEMMA RecordType ==
  ASSUME NEW e \in Entry, NEW c \in Configs, NEW good \in BOOLEAN
  PROVE  Record(e, c, good) \in Entry
<1>1. CountCap \in Nat /\ c.success \in Int /\ c.failure \in Int
  BY ConfigAssumption
<1>2. Success(c) \in Int /\ Failure(c) \in Int
  BY <1>1 DEF Success, Failure
<1>3. e.healthy \in BOOLEAN /\ e.fails \in 0..CountCap /\ e.succs \in 0..CountCap
  BY DEF Entry
<1>4. Bump(e.fails) \in 0..CountCap /\ Bump(e.succs) \in 0..CountCap
  BY <1>1, <1>3 DEF Bump
<1>5. (e.healthy \/ Bump(e.succs) >= Success(c)) \in BOOLEAN
  OBVIOUS
<1>6. (e.healthy /\ Bump(e.fails) < Failure(c)) \in BOOLEAN
  OBVIOUS
<1>7. 0 \in 0..CountCap
  BY <1>1
<1> QED
  BY <1>4, <1>5, <1>6, <1>7 DEF Record, Entry

LEMMA AppendType ==
  ASSUME NEW s \in Seq(Policies), NEW p \in Policies
  PROVE  Append(s, p) \in Seq(Policies)
  OBVIOUS

LEMMA FreshEntryType == FreshEntry \in Entry
  BY ConfigAssumption DEF FreshEntry, Entry

LEMMA NoReqType == NoReq \in Req /\ NoReq.cfg \in Configs
  BY ConfigAssumption DEF NoReq, Req
-----------------------------------------------------------------------------
LEMMA InitType == Init => TypeOK
<1> SUFFICES ASSUME Init PROVE TypeOK
  OBVIOUS
<1> USE NoReqType, FreshEntryType, BoundAssumption
<1>1. pc \in [Gor -> PCs]
  BY DEF Init, PCs
<1>2. entry \in [Policies -> [Uids -> Entry]] /\ starts \in [Policies -> [Uids -> 0..MaxStarts]]
  BY DEF Init
<1>3. events \in Seq(Policies)
  BY DEF Init
<1> QED
  BY <1>1, <1>2, <1>3 DEF Init, TypeOK

LEMMA SyncType ==
  ASSUME TypeOK, NEW p \in Policies, NEW c \in Configs, NEW T \in SUBSET Uids, NEW A \in SUBSET T,
         Sync(p, c, T, A)
  PROVE  TypeOK'
<1> USE FreshEntryType, BoundAssumption DEF TypeOK, Sync
<1>1. entry' \in [Policies -> [Uids -> Entry]]
  BY DEF SyncedEntry
<1>2. starts' \in [Policies -> [Uids -> 0..MaxStarts]]
  OBVIOUS
<1>3. pc' \in [Gor -> PCs]
  BY DEF PCs
<1>4. cancelled' \subseteq Gor
  BY DEF OwnProbers, NextProbers
<1>5. probed' \in [Policies -> SUBSET Uids] /\ seen' \in [Policies -> SUBSET Uids]
      /\ addressed' \in [Policies -> SUBSET Uids]
  OBVIOUS
<1> QED
  BY <1>1, <1>2, <1>3, <1>4, <1>5

LEMMA GotoType ==
  ASSUME pc \in [Gor -> PCs], NEW g \in Gor, NEW l \in PCs, Goto(g, l)
  PROVE  pc' \in [Gor -> PCs]
  BY DEF Goto

LEMMA GoStepType ==
  ASSUME TypeOK, NEW g \in Gor, GoStep(g)
  PROVE  TypeOK'
<1> USE GorFields, NoReqType, BoundAssumption
<1>1. CASE RunStart(g)
  BY <1>1 DEF RunStart, TypeOK, Goto, PCs, storeState
<1>2. CASE RunDelay(g)
  BY <1>2 DEF RunDelay, TypeOK, Goto, PCs, storeState
<1>3. CASE ProbeRead(g)
  <2>1. pc' \in [Gor -> PCs]
    BY <1>3 DEF ProbeRead, TypeOK, Goto, PCs
  <2>2. req' \in [Gor -> Req]
    <3> DEFINE r == [cfg |-> cfg[g[1]], answerable |-> g[2] \in addressed[g[1]] /\ g \notin cancelled]
    <3>1. (g[2] \in addressed[g[1]] /\ g \notin cancelled) \in BOOLEAN
      OBVIOUS
    <3>2. cfg[g[1]] \in Configs
      BY DEF TypeOK
    <3>3. r \in Req
      BY <3>1, <3>2 DEF Req
    <3>4. req' = req \/ req' = [req EXCEPT ![g] = r]
      BY <1>3 DEF ProbeRead
    <3> HIDE DEF r
    <3> QED
      BY <3>3, <3>4 DEF TypeOK
  <2> QED
    BY <1>3, <2>1, <2>2 DEF ProbeRead, TypeOK, storeState
<1>4. CASE \E good \in BOOLEAN : ProbeEnd(g, good)
  <2> PICK good \in BOOLEAN : ProbeEnd(g, good)
    BY <1>4
  <2>1. pc' \in [Gor -> PCs]
    <3>1. Goto(g, "wait") \/ Goto(g, "emit")
      BY DEF ProbeEnd
    <3>2. "wait" \in PCs /\ "emit" \in PCs
      BY DEF PCs
    <3> QED
      BY <3>1, <3>2, GotoType DEF TypeOK
  <2>2. req' \in [Gor -> Req]
    BY DEF ProbeEnd, TypeOK
  <2>3. entry' \in [Policies -> [Uids -> Entry]]
    <3>1. req[g].cfg \in Configs /\ entry[g[1]][g[2]] \in Entry
      BY DEF TypeOK, Req
    <3>2. Record(entry[g[1]][g[2]], req[g].cfg, good) \in Entry
      BY <3>1, RecordType
    <3> DEFINE e == Record(entry[g[1]][g[2]], req[g].cfg, good)
    <3>3. entry' = entry \/ entry' = [entry EXCEPT ![g[1]][g[2]] = e]
      BY DEF ProbeEnd
    <3>4. e \in Entry
      BY <3>2
    <3> HIDE DEF e
    <3>5. entry \in [Policies -> [Uids -> Entry]] /\ g[1] \in Policies /\ g[2] \in Uids
      BY DEF TypeOK
    <3> QED
      BY <3>3, <3>4, <3>5
  <2> QED
    BY <2>1, <2>2, <2>3 DEF ProbeEnd, TypeOK
<1>5. CASE Emit(g)
  <2>1. events' \in Seq(Policies)
    <3>1. events' = events \/ events' = Append(events, g[1])
      BY <1>5 DEF Emit
    <3>2. g[1] \in Policies /\ events \in Seq(Policies)
      BY DEF TypeOK
    <3> QED
      BY <3>1, <3>2, AppendType
  <2>2. pc' \in [Gor -> PCs]
    BY <1>5, GotoType DEF Emit, TypeOK, PCs
  <2> QED
    BY <1>5, <2>1, <2>2 DEF Emit, TypeOK, storeState
<1>6. CASE WaitTick(g)
  BY <1>6 DEF WaitTick, TypeOK, Goto, PCs, storeState
<1>7. CASE WaitDone(g)
  BY <1>7 DEF WaitDone, TypeOK, Goto, PCs, storeState
<1> QED
  BY <1>1, <1>2, <1>3, <1>4, <1>5, <1>6, <1>7 DEF GoStep

LEMMA NextType == TypeOK /\ [Next]_vars => TypeOK'
<1> SUFFICES ASSUME TypeOK, [Next]_vars PROVE TypeOK'
  OBVIOUS
<1>1. ASSUME NEW p \in Policies, NEW c \in Configs, NEW T \in SUBSET Uids, NEW A \in SUBSET T,
             Sync(p, c, T, A)
      PROVE  TypeOK'
  BY <1>1, SyncType
<1>2. ASSUME NEW p \in Policies, NEW u \in Uids, SetSeenReady(p, u)
      PROVE  TypeOK'
  BY <1>2 DEF SetSeenReady, TypeOK
<1>3. ASSUME NEW p \in Policies, Forget(p)
      PROVE  TypeOK'
  BY <1>3, FreshEntryType DEF Forget, TypeOK, OwnProbers
<1>4. ASSUME NEW g \in Gor, GoStep(g)
      PROVE  TypeOK'
  BY <1>4, GoStepType
<1>5. CASE Drain
  BY <1>5 DEF Drain, TypeOK, storeState
<1>6. CASE Stop
  BY <1>6 DEF Stop, TypeOK
<1>7. CASE UNCHANGED vars
  BY <1>7 DEF vars, TypeOK
<1> QED
  BY <1>1, <1>2, <1>3, <1>4, <1>5, <1>6, <1>7 DEF Next

(***************************************************************************)
(* Every variable of the Manager keeps its type.                           *)
(***************************************************************************)
THEOREM TypeCorrect == Spec => []TypeOK
  BY InitType, NextType, PTL DEF Spec
-----------------------------------------------------------------------------
(***************************************************************************)
(* The inductive invariant behind OneLiveProber: the goroutine a podEntry  *)
(* can cancel is the latest one started for the pod, and no older one is   *)
(* still live.                                                             *)
(***************************************************************************)
Born == \A g \in Gor : pc[g] = "unborn" <=> starts[g[1]][g[2]] < g[3]

CancelledBorn == \A g \in cancelled : pc[g] # "unborn"

LiveOwned ==
  \A g \in Gor : pc[g] # "unborn" /\ g \notin cancelled =>
    /\ g[3] = starts[g[1]][g[2]]
    /\ g[2] \in probed[g[1]]
    /\ pc[g] # "done"
    /\ ~stopped

ProbedOwned ==
  \A p \in Policies : \A u \in probed[p] :
    /\ p \in known
    /\ starts[p][u] >= 1
    /\ ~stopped => <<p, u, starts[p][u]>> \notin cancelled

Ownership == Born /\ CancelledBorn /\ LiveOwned /\ ProbedOwned

LEMMA InitOwnership == Init => Ownership
  BY GorFields DEF Init, Ownership, Born, CancelledBorn, LiveOwned, ProbedOwned

LEMMA SyncOwnership ==
  ASSUME TypeOK, Ownership,
         NEW p \in Policies, NEW c \in Configs, NEW T \in SUBSET Uids, NEW A \in SUBSET T,
         Sync(p, c, T, A)
  PROVE  Ownership'
<1> DEFINE new == T \ probed[p]
           gone == probed[p] \ T
<1> USE GorFields, BoundAssumption
<1>1. starts' = [starts EXCEPT ![p] = [u \in Uids |-> IF u \in new THEN @[u] + 1 ELSE @[u]]]
  BY DEF Sync
<1>2. \A q \in Policies, u \in Uids :
        starts'[q][u] = IF q = p /\ u \in new THEN starts[q][u] + 1 ELSE starts[q][u]
  BY <1>1 DEF TypeOK
<1>3. \A g \in Gor : pc'[g] = IF g \in NextProbers(p, new) THEN "spawned" ELSE pc[g]
  BY DEF Sync
<1>4. cancelled' = cancelled \cup OwnProbers(p, gone) \cup (IF stopped THEN NextProbers(p, new) ELSE {})
  BY DEF Sync
<1>5. \A q \in Policies : probed'[q] = IF q = p THEN T ELSE probed[q]
  BY DEF Sync, TypeOK
<1>6. stopped' = stopped /\ known' = known \cup {p}
  BY DEF Sync
<1>7. \A q \in Policies, u \in Uids : starts[q][u] \in Nat
  BY DEF TypeOK
<1>8. \A g \in NextProbers(p, new) : g \in Gor /\ pc[g] = "unborn" /\ g \notin cancelled
  BY <1>7 DEF NextProbers, Ownership, Born, CancelledBorn
<1> HIDE DEF new, gone
<1>9. Born'
  BY <1>2, <1>3, <1>7 DEF Ownership, Born, NextProbers
<1>10. CancelledBorn'
  <2>1. \A g \in OwnProbers(p, gone) : g \in Gor /\ pc[g] # "unborn"
    BY <1>7 DEF OwnProbers, Ownership, Born
  <2>2. NextProbers(p, new) \subseteq Gor
    BY DEF NextProbers
  <2> QED
    BY <1>3, <1>4, <2>1, <2>2 DEF Ownership, CancelledBorn, TypeOK
<1>11. LiveOwned'
  <2> SUFFICES ASSUME NEW g \in Gor, pc'[g] # "unborn", g \notin cancelled'
               PROVE  /\ g[3] = starts'[g[1]][g[2]]
                      /\ g[2] \in probed'[g[1]]
                      /\ pc'[g] # "done"
                      /\ ~stopped'
    BY DEF LiveOwned
  <2>1. CASE g \in NextProbers(p, new)
    BY <2>1, <1>2, <1>3, <1>4, <1>5, <1>6 DEF NextProbers, new
  <2>2. CASE g \notin NextProbers(p, new)
    <3>1. pc'[g] = pc[g] /\ g \notin cancelled /\ g \notin OwnProbers(p, gone)
      BY <2>2, <1>3, <1>4
    <3>2. g[3] = starts[g[1]][g[2]] /\ g[2] \in probed[g[1]] /\ pc[g] # "done" /\ ~stopped
      BY <3>1 DEF Ownership, LiveOwned
    <3>3. g[1] = p => g[2] \notin gone /\ g[2] \notin new
      BY <3>1, <3>2 DEF OwnProbers, new
    <3> QED
      BY <3>1, <3>2, <3>3, <1>2, <1>5, <1>6 DEF gone
  <2> QED
    BY <2>1, <2>2
<1>12. ProbedOwned'
  <2> SUFFICES ASSUME NEW q \in Policies, NEW u \in probed'[q]
               PROVE  /\ q \in known'
                      /\ starts'[q][u] >= 1
                      /\ ~stopped' => <<q, u, starts'[q][u]>> \notin cancelled'
    BY DEF ProbedOwned
  <2>1. u \in Uids
    BY <1>5 DEF TypeOK
  <2>2. CASE q = p /\ u \in new
    <3>1. starts'[q][u] = starts[q][u] + 1
      BY <2>1, <2>2, <1>2
    <3>2. starts[q][u] < MaxStarts
      BY <2>2 DEF Sync, new
    <3>3. <<q, u, starts'[q][u]>> \in NextProbers(p, new)
      BY <2>1, <2>2, <3>1, <3>2, <1>7, GorMember DEF NextProbers
    <3>4. <<q, u, starts'[q][u]>> \notin OwnProbers(p, gone)
      BY <2>2, <3>1, <1>7, <2>1 DEF OwnProbers
    <3> QED
      BY <2>1, <2>2, <3>1, <3>3, <3>4, <1>4, <1>6, <1>7, <1>8
  <2>3. CASE ~(q = p /\ u \in new)
    <3>1. starts'[q][u] = starts[q][u] /\ u \in probed[q]
      BY <2>1, <2>3, <1>2, <1>5 DEF new
    <3>2. q \in known /\ starts[q][u] >= 1 /\ (~stopped => <<q, u, starts[q][u]>> \notin cancelled)
      BY <3>1 DEF Ownership, ProbedOwned
    <3>3. <<q, u, starts[q][u]>> \notin OwnProbers(p, gone)
      BY <1>5, <2>3 DEF OwnProbers, gone
    <3> QED
      BY <3>1, <3>2, <3>3, <1>4, <1>6
  <2> QED
    BY <2>2, <2>3
<1> QED
  BY <1>9, <1>10, <1>11, <1>12 DEF Ownership

LEMMA ForgetOwnership ==
  ASSUME TypeOK, Ownership, NEW p \in Policies, Forget(p)
  PROVE  Ownership'
<1> USE GorFields, BoundAssumption
<1>1. cancelled' = cancelled \cup OwnProbers(p, probed[p])
  BY DEF Forget
<1>2. \A q \in Policies : probed'[q] = IF q = p THEN {} ELSE probed[q]
  BY DEF Forget, TypeOK
<1>3. starts' = starts /\ pc' = pc /\ stopped' = stopped /\ known' = known \ {p}
  BY DEF Forget
<1>4. Born'
  BY <1>3 DEF Ownership, Born
<1>5. CancelledBorn'
  <2>1. \A g \in OwnProbers(p, probed[p]) : g \in Gor /\ pc[g] # "unborn"
    BY DEF OwnProbers, Ownership, Born, TypeOK
  <2> QED
    BY <1>1, <1>3, <2>1 DEF Ownership, CancelledBorn, TypeOK
<1>6. LiveOwned'
  BY <1>1, <1>2, <1>3 DEF Ownership, LiveOwned, OwnProbers
<1>7. ProbedOwned'
  BY <1>1, <1>2, <1>3 DEF Ownership, ProbedOwned, OwnProbers
<1> QED
  BY <1>4, <1>5, <1>6, <1>7 DEF Ownership

\* A goroutine that moves from one place of run to another, and ends only
\* when it is not live, keeps the ownership.
LEMMA GotoOwnership ==
  ASSUME TypeOK, Ownership, NEW g \in Gor, NEW l \in PCs,
         pc[g] # "unborn", Goto(g, l), l # "unborn", l = "done" => g \in cancelled,
         UNCHANGED <<known, probed, starts, cancelled, stopped>>
  PROVE  Ownership'
<1>1. \A h \in Gor : pc'[h] = IF h = g THEN l ELSE pc[h]
  BY DEF Goto, TypeOK
<1>2. Born'
  BY <1>1 DEF Ownership, Born
<1>3. CancelledBorn'
  BY <1>1 DEF Ownership, CancelledBorn, TypeOK
<1>4. LiveOwned'
  BY <1>1 DEF Ownership, LiveOwned
<1>5. ProbedOwned'
  BY DEF Ownership, ProbedOwned
<1> QED
  BY <1>2, <1>3, <1>4, <1>5 DEF Ownership

LEMMA GoStepOwnership ==
  ASSUME TypeOK, Ownership, NEW g \in Gor, GoStep(g)
  PROVE  Ownership'
<1>1. CASE RunStart(g)
  <2>1. g \notin cancelled => g[1] \in known
    BY <1>1, GorFields DEF RunStart, Ownership, LiveOwned, ProbedOwned
  <2>2. \/ Goto(g, "done") /\ g[1] \notin known
        \/ Goto(g, "delay")
        \/ Goto(g, "read")
    BY <1>1 DEF RunStart
  <2> QED
    BY <1>1, <2>1, <2>2, GotoOwnership DEF RunStart, PCs, storeState
<1>2. CASE RunDelay(g)
  BY <1>2, GotoOwnership DEF RunDelay, PCs, storeState
<1>3. CASE ProbeRead(g)
  BY <1>3, GotoOwnership DEF ProbeRead, PCs, storeState
<1>4. CASE \E good \in BOOLEAN : ProbeEnd(g, good)
  <2>1. pc[g] = "probing" /\ (Goto(g, "wait") \/ Goto(g, "emit"))
    BY <1>4 DEF ProbeEnd
  <2>2. UNCHANGED <<known, probed, starts, cancelled, stopped>>
    BY <1>4 DEF ProbeEnd
  <2> QED
    BY <2>1, <2>2, GotoOwnership DEF PCs
<1>5. CASE Emit(g)
  BY <1>5, GotoOwnership DEF Emit, PCs, storeState
<1>6. CASE WaitTick(g)
  BY <1>6, GotoOwnership DEF WaitTick, PCs, storeState
<1>7. CASE WaitDone(g)
  BY <1>7, GotoOwnership DEF WaitDone, PCs, storeState
<1> QED
  BY <1>1, <1>2, <1>3, <1>4, <1>5, <1>6, <1>7 DEF GoStep

LEMMA NextOwnership == TypeOK /\ Ownership /\ [Next]_vars => Ownership'
<1> SUFFICES ASSUME TypeOK, Ownership, [Next]_vars PROVE Ownership'
  OBVIOUS
<1>1. ASSUME NEW p \in Policies, NEW c \in Configs, NEW T \in SUBSET Uids, NEW A \in SUBSET T,
             Sync(p, c, T, A)
      PROVE  Ownership'
  BY <1>1, SyncOwnership
<1>2. ASSUME NEW p \in Policies, NEW u \in Uids, SetSeenReady(p, u)
      PROVE  Ownership'
  BY <1>2 DEF SetSeenReady, Ownership, Born, CancelledBorn, LiveOwned, ProbedOwned
<1>3. ASSUME NEW p \in Policies, Forget(p)
      PROVE  Ownership'
  BY <1>3, ForgetOwnership
<1>4. ASSUME NEW g \in Gor, GoStep(g)
      PROVE  Ownership'
  BY <1>4, GoStepOwnership
<1>5. CASE Drain
  BY <1>5 DEF Drain, storeState, Ownership, Born, CancelledBorn, LiveOwned, ProbedOwned
<1>6. CASE Stop
  BY <1>6 DEF Stop, Ownership, Born, CancelledBorn, LiveOwned, ProbedOwned
<1>7. CASE UNCHANGED vars
  BY <1>7 DEF vars, Ownership, Born, CancelledBorn, LiveOwned, ProbedOwned
<1> QED
  BY <1>1, <1>2, <1>3, <1>4, <1>5, <1>6, <1>7 DEF Next

LEMMA OwnershipSuffices == TypeOK /\ Ownership => OneLiveProber
<1> SUFFICES ASSUME TypeOK, Ownership, NEW p \in Policies, NEW u \in Uids
             PROVE  {g \in Gor : g[1] = p /\ g[2] = u /\ Active(g)} =
                      IF u \in probed[p] /\ ~stopped THEN {<<p, u, starts[p][u]>>} ELSE {}
  BY DEF OneLiveProber
<1> DEFINE own == <<p, u, starts[p][u]>>
<1>1. \A g \in Gor : g[1] = p /\ g[2] = u /\ Active(g) => u \in probed[p] /\ ~stopped /\ g = own
  BY GorFields DEF Active, Ownership, LiveOwned
<1>2. u \in probed[p] /\ ~stopped => own \in Gor /\ own[1] = p /\ own[2] = u /\ Active(own)
  <2> SUFFICES ASSUME u \in probed[p], ~stopped
               PROVE  own \in Gor /\ own[1] = p /\ own[2] = u /\ Active(own)
    OBVIOUS
  <2>1. starts[p][u] \in 1..MaxStarts /\ own \notin cancelled
    BY BoundAssumption DEF TypeOK, Ownership, ProbedOwned
  <2>2. own \in Gor /\ own[1] = p /\ own[2] = u /\ own[3] = starts[p][u]
    BY <2>1, GorMember
  <2> HIDE DEF own
  <2>3. pc[own] # "unborn"
    BY <2>1, <2>2 DEF Ownership, Born
  <2>4. pc[own] # "done"
    BY <2>1, <2>2, <2>3 DEF Ownership, LiveOwned
  <2> QED
    BY <2>1, <2>2, <2>3, <2>4 DEF Active
<1> HIDE DEF own
<1>3. CASE u \in probed[p] /\ ~stopped
  BY <1>1, <1>2, <1>3 DEF own
<1>4. CASE ~(u \in probed[p] /\ ~stopped)
  BY <1>1, <1>4
<1> QED
  BY <1>3, <1>4

(***************************************************************************)
(* Every probed pod has exactly one goroutine with a live context, and no  *)
(* other pod has one, however Sync, Forget and Stop interleave with the    *)
(* goroutines they start and cancel.                                       *)
(***************************************************************************)
THEOREM OneProberPerPod == Spec => []OneLiveProber
<1>1. Init => TypeOK /\ Ownership
  BY InitType, InitOwnership
<1>2. TypeOK /\ Ownership /\ [Next]_vars => (TypeOK /\ Ownership)'
  BY NextType, NextOwnership
<1> QED
  BY <1>1, <1>2, OwnershipSuffices, PTL DEF Spec
-----------------------------------------------------------------------------
\* One entry's share of VerdictNotOverdue.
Timely(e) ==
  IF e.healthy
  THEN \E c \in Configs : e.fails < Failure(c)
  ELSE \E c \in Configs : e.succs < Success(c)

LEMMA ThresholdsPositive ==
  ASSUME NEW c \in Configs
  PROVE  Success(c) \in Nat /\ Failure(c) \in Nat /\ Success(c) > 0 /\ Failure(c) > 0
  BY ConfigAssumption DEF Success, Failure

LEMMA FreshTimely == Timely(FreshEntry)
<1>1. PICK c \in Configs : TRUE
  BY ConfigAssumption
<1>2. Failure(c) > 0
  BY ThresholdsPositive
<1> QED
  BY <1>1, <1>2 DEF Timely, FreshEntry

LEMMA RecordTimely ==
  ASSUME NEW e \in Entry, NEW c \in Configs, NEW good \in BOOLEAN
  PROVE  Timely(Record(e, c, good))
<1> USE ThresholdsPositive
<1>1. CASE good
  <2>1. Record(e, c, good) =
          [healthy |-> e.healthy \/ Bump(e.succs) >= Success(c), fails |-> 0, succs |-> Bump(e.succs)]
    BY <1>1 DEF Record
  <2>2. Bump(e.succs) \in Nat
    BY ConfigAssumption DEF Bump, Entry
  <2> DEFINE r == Record(e, c, good)
  <2>3. /\ r.fails = 0 /\ r.succs = Bump(e.succs)
        /\ r.healthy = (e.healthy \/ Bump(e.succs) >= Success(c))
    BY <2>1
  <2> HIDE DEF r
  <2>4. Bump(e.succs) >= Success(c) => r.healthy
    BY <2>3, Zenon
  <2>5. r.fails < Failure(c) /\ (~r.healthy => r.succs < Success(c))
    BY <2>2, <2>3, <2>4
  <2> QED
    BY <2>5 DEF Timely, r
<1>2. CASE ~good
  <2>1. Record(e, c, good) =
          [healthy |-> e.healthy /\ Bump(e.fails) < Failure(c), fails |-> Bump(e.fails), succs |-> 0]
    BY <1>2 DEF Record
  <2>2. Bump(e.fails) \in Nat
    BY ConfigAssumption DEF Bump, Entry
  <2> DEFINE r == Record(e, c, good)
  <2>3. r.fails = Bump(e.fails) /\ r.succs = 0 /\ r.healthy = (e.healthy /\ Bump(e.fails) < Failure(c))
    BY <2>1
  <2>4. r.succs < Success(c) /\ (r.healthy => r.fails < Failure(c))
    BY <2>2, <2>3
  <2> QED
    BY <2>4 DEF Timely
<1> QED
  BY <1>1, <1>2

AllTimely == \A p \in Policies, u \in Uids : Timely(entry[p][u])

LEMMA NextTimely == TypeOK /\ AllTimely /\ [Next]_vars => AllTimely'
<1> SUFFICES ASSUME TypeOK, AllTimely, [Next]_vars PROVE AllTimely'
  OBVIOUS
<1>1. ASSUME NEW p \in Policies, NEW c \in Configs, NEW T \in SUBSET Uids, NEW A \in SUBSET T,
             Sync(p, c, T, A)
      PROVE  AllTimely'
  BY <1>1, FreshTimely DEF Sync, SyncedEntry, TypeOK, AllTimely
<1>2. ASSUME NEW p \in Policies, NEW u \in Uids, SetSeenReady(p, u)
      PROVE  AllTimely'
  BY <1>2 DEF SetSeenReady, AllTimely
<1>3. ASSUME NEW p \in Policies, Forget(p)
      PROVE  AllTimely'
  BY <1>3, FreshTimely DEF Forget, TypeOK, AllTimely
<1>4. ASSUME NEW g \in Gor, GoStep(g)
      PROVE  AllTimely'
  <2>1. CASE \E good \in BOOLEAN : ProbeEnd(g, good)
    <3> PICK good \in BOOLEAN : ProbeEnd(g, good)
      BY <2>1
    <3> DEFINE e == Record(entry[g[1]][g[2]], req[g].cfg, good)
    <3>1. g[1] \in Policies /\ g[2] \in Uids
      BY GorFields
    <3>2. req[g].cfg \in Configs /\ entry[g[1]][g[2]] \in Entry
      BY <3>1 DEF TypeOK, Req
    <3>3. Timely(e)
      BY <3>2, RecordTimely
    <3>4. entry' = entry \/ entry' = [entry EXCEPT ![g[1]][g[2]] = e]
      BY DEF ProbeEnd
    <3> HIDE DEF e
    <3>5. \A p \in Policies, u \in Uids : entry'[p][u] = entry[p][u] \/ entry'[p][u] = e
      <4>1. entry \in [Policies -> [Uids -> Entry]]
        BY DEF TypeOK
      <4> QED
        BY <3>1, <3>4, <4>1
    <3>6. \A p \in Policies, u \in Uids : Timely(entry'[p][u])
      BY <3>3, <3>5 DEF AllTimely
    <3> QED
      BY <3>6 DEF AllTimely, Timely
  <2>2. CASE entry' = entry
    BY <2>2 DEF AllTimely
  <2> QED
    BY <1>4, <2>1, <2>2 DEF GoStep, RunStart, RunDelay, ProbeRead, Emit, WaitTick, WaitDone, storeState
<1>5. CASE Drain \/ Stop \/ UNCHANGED vars
  BY <1>5 DEF Drain, Stop, vars, storeState, AllTimely
<1> QED
  BY <1>1, <1>2, <1>3, <1>4, <1>5 DEF Next

(***************************************************************************)
(* No verdict is overdue with respect to every configuration in use, even  *)
(* when Sync replaces the configuration while a probe is in flight.        *)
(***************************************************************************)
THEOREM VerdictsTimely == Spec => []VerdictNotOverdue
<1>1. Init => AllTimely
  BY FreshTimely DEF Init, AllTimely
<1>2. AllTimely => VerdictNotOverdue
  BY DEF AllTimely, Timely, VerdictNotOverdue
<1> QED
  BY <1>1, <1>2, InitType, NextType, NextTimely, PTL DEF Spec
-----------------------------------------------------------------------------
(***************************************************************************)
(* Refinement: each step of the Manager is a step of ProbeStore or leaves  *)
(* <<probed, Sick, seen>> unchanged.                                       *)
(***************************************************************************)
LEMMA SickUnchanged == UNCHANGED <<probed, entry, seen>> => UNCHANGED <<probed, Sick, seen>>
  BY DEF Sick

LEMMA SyncRefines ==
  ASSUME TypeOK, NEW p \in Policies, NEW c \in Configs, NEW T \in SUBSET Uids, NEW A \in SUBSET T,
         Sync(p, c, T, A)
  PROVE  Store!Sync(p, T)
<1>1. probed' = [probed EXCEPT ![p] = T] /\ seen' = [seen EXCEPT ![p] = @ \cap T]
  BY DEF Sync
<1>2. Sick' = [Sick EXCEPT ![p] = @ \cap T]
  <2>1. \A q \in Policies : q # p => Sick'[q] = Sick[q]
    BY DEF Sync, TypeOK, Sick
  <2>2. Sick'[p] = {u \in T : ~SyncedEntry(p, T)[u].healthy}
    BY DEF Sync, TypeOK, Sick
  <2>3. \A u \in T : ~SyncedEntry(p, T)[u].healthy <=> u \in probed[p] /\ ~entry[p][u].healthy
    BY DEF SyncedEntry, FreshEntry
  <2>4. Sick'[p] = Sick[p] \cap T
    BY <2>2, <2>3 DEF Sick
  <2>5. Sick = [q \in Policies |-> Sick[q]] /\ Sick' = [q \in Policies |-> Sick'[q]]
    BY DEF Sick
  <2> QED
    BY <2>1, <2>4, <2>5
<1> QED
  BY <1>1, <1>2 DEF Store!Sync

LEMMA ForgetRefines ==
  ASSUME TypeOK, NEW p \in Policies, Forget(p)
  PROVE  Store!Forget(p)
<1>1. probed' = [probed EXCEPT ![p] = {}] /\ seen' = [seen EXCEPT ![p] = @ \cap {}]
  BY DEF Forget, TypeOK
<1>2. Sick' = [Sick EXCEPT ![p] = @ \cap {}]
  BY DEF Forget, TypeOK, Sick
<1> QED
  BY <1>1, <1>2 DEF Store!Forget, Store!Sync

LEMMA ProbeEndRefines ==
  ASSUME TypeOK, NEW g \in Gor, NEW good \in BOOLEAN, ProbeEnd(g, good)
  PROVE  Store!Flip(g[1], g[2]) \/ UNCHANGED <<probed, Sick, seen>>
<1> DEFINE p == g[1]
           u == g[2]
           e == Record(entry[p][u], req[g].cfg, good)
<1>1. p \in Policies /\ u \in Uids
  BY GorFields
<1>2. probed' = probed /\ seen' = seen
  BY DEF ProbeEnd
<1>3. CASE Vanished(g)
  BY <1>2, <1>3, SickUnchanged DEF ProbeEnd
<1>4. CASE ~Vanished(g)
  <2>1. u \in probed[p] /\ entry' = [entry EXCEPT ![p][u] = e]
    BY <1>4 DEF ProbeEnd, Vanished
  <2>2. e.healthy \in BOOLEAN /\ entry[p][u].healthy \in BOOLEAN
    BY <1>1, RecordType DEF TypeOK, Req, Entry
  <2> HIDE DEF p, u, e
  <2>3. entry \in [Policies -> [Uids -> Entry]]
    BY DEF TypeOK
  <2>4. \A q \in Policies, v \in Uids :
          entry'[q][v] = IF q = p /\ v = u THEN e ELSE entry[q][v]
    BY <1>1, <2>1, <2>3
  <2>5. \A q \in Policies : Sick'[q] = {v \in probed[q] : ~entry'[q][v].healthy}
    BY <1>2 DEF Sick
  <2>6. probed \in [Policies -> SUBSET Uids]
    BY DEF TypeOK
  <2>7. \A q \in Policies : q # p => Sick'[q] = Sick[q]
    BY <2>4, <2>5, <2>6 DEF Sick
  <2>8. Sick'[p] = IF e.healthy THEN Sick[p] \ {u} ELSE Sick[p] \cup {u}
    <3>1. Sick[p] = {v \in probed[p] : ~entry[p][v].healthy}
      BY <1>1 DEF Sick
    <3>2. CASE e.healthy
      BY <1>1, <2>1, <2>4, <2>5, <2>6, <3>1, <3>2
    <3>3. CASE ~e.healthy
      BY <1>1, <2>1, <2>4, <2>5, <2>6, <3>1, <3>3
    <3> QED
      BY <3>2, <3>3
  <2>9. u \in Sick[p] <=> ~entry[p][u].healthy
    BY <1>1, <2>1 DEF Sick
  <2>10. Sick = [q \in Policies |-> Sick[q]] /\ Sick' = [q \in Policies |-> Sick'[q]]
    BY DEF Sick
  <2>11. CASE e.healthy = entry[p][u].healthy
    <3>1. Sick'[p] = Sick[p]
      BY <2>2, <2>8, <2>9, <2>11
    <3> QED
      BY <1>2, <2>7, <2>10, <3>1
  <2>12. CASE e.healthy # entry[p][u].healthy
    <3>1. Sick'[p] = IF u \in Sick[p] THEN Sick[p] \ {u} ELSE Sick[p] \cup {u}
      BY <2>2, <2>8, <2>9, <2>12
    <3>2. Sick' = [Sick EXCEPT ![p] = IF u \in @ THEN @ \ {u} ELSE @ \cup {u}]
      BY <2>7, <2>10, <3>1
    <3>3. Store!Flip(p, u)
      BY <1>2, <2>1, <3>2 DEF Store!Flip
    <3> QED
      BY <3>3 DEF p, u
  <2> QED
    BY <2>11, <2>12
<1> QED
  BY <1>3, <1>4

(***************************************************************************)
(* The Manager with its lock, goroutines and channel implements the        *)
(* abstract store of verdicts that the reconciler is verified against.     *)
(***************************************************************************)
THEOREM ManagerImplementsStore == Spec => ImplementsStore
<1>1. Init => Store!StoreInit
  BY DEF Init, Store!StoreInit, Sick
<1>2. TypeOK /\ [Next]_vars => [Store!StoreNext]_(Store!storeVars)
  <2> SUFFICES ASSUME TypeOK, [Next]_vars
               PROVE  Store!StoreNext \/ UNCHANGED <<probed, Sick, seen>>
    BY DEF Store!storeVars
  <2>1. ASSUME NEW p \in Policies, NEW c \in Configs, NEW T \in SUBSET Uids, NEW A \in SUBSET T,
               Sync(p, c, T, A)
        PROVE  Store!StoreNext
    BY <2>1, SyncRefines DEF Store!StoreNext
  <2>2. ASSUME NEW p \in Policies, NEW u \in Uids, SetSeenReady(p, u)
        PROVE  Store!StoreNext
    <3>1. {u} \cap probed[p] = {u}
      BY <2>2 DEF SetSeenReady
    <3>2. seen' = [seen EXCEPT ![p] = @ \cup ({u} \cap probed[p])] /\ probed' = probed /\ Sick' = Sick
      BY <2>2, <3>1 DEF SetSeenReady, Sick
    <3>3. Store!SetSeenReady(p, {u})
      BY <3>2 DEF Store!SetSeenReady
    <3> QED
      BY <3>3 DEF Store!StoreNext
  <2>3. ASSUME NEW p \in Policies, Forget(p)
        PROVE  Store!StoreNext
    BY <2>3, ForgetRefines DEF Store!StoreNext
  <2>4. ASSUME NEW g \in Gor, GoStep(g)
        PROVE  Store!StoreNext \/ UNCHANGED <<probed, Sick, seen>>
    <3>1. CASE \E good \in BOOLEAN : ProbeEnd(g, good)
      BY <3>1, ProbeEndRefines, GorFields DEF Store!StoreNext
    <3>2. CASE UNCHANGED <<probed, entry, seen>>
      BY <3>2, SickUnchanged
    <3> QED
      BY <2>4, <3>1, <3>2 DEF GoStep, RunStart, RunDelay, ProbeRead, Emit, WaitTick, WaitDone, storeState
  <2>5. CASE Drain \/ Stop \/ UNCHANGED vars
    <3>1. UNCHANGED <<probed, entry, seen>>
      BY <2>5 DEF Drain, Stop, vars, storeState
    <3> QED
      BY <3>1, SickUnchanged
  <2> QED
    BY <2>1, <2>2, <2>3, <2>4, <2>5 DEF Next
<1> QED
  BY <1>1, <1>2, TypeCorrect, PTL DEF Spec, ImplementsStore, Store!StoreSpec
=============================================================================
