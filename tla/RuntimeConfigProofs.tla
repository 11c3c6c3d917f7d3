-------------------------- MODULE RuntimeConfigProofs --------------------------
(***************************************************************************)
(* The safety properties of RuntimeConfig, for any pools and any tuning.   *)
(* PriorityKept is inductive once it is known that an endpoint with clean  *)
(* answers to its credit has a closed circuit: then a promotion, which     *)
(* takes the first closed circuit, cannot jump over it.                    *)
(***************************************************************************)
EXTENDS RuntimeConfig, TLAPS

\* An endpoint whose last answer was clean is not inside a back-off window.
CleanClosed(h) == \A u \in Urls : h[u].ok > 0 => h[u].left = 0

\* What Sticky asks of a step that leaves health records h.
Earned(h) ==
  active' # active =>
    \/ ep[serverUrl].fails + 1 >= FailuresToOpen /\ h[serverUrl].ok = 0
    \/ active' < active /\ h[pool[active']].ok = ReclaimAfter

Versioned == active' # active => version' = NextVersion

\* PriorityKept of endpoint records h and active index i.
Kept(h, i) == \A j \in 1..(i - 1) : h[pool[j]].ok < ReclaimAfter

IInv == TypeOK /\ PriorityKept /\ CleanClosed(ep)

LEMMA PoolMember ==
  ASSUME TypeOK, NEW i \in 1..Len(pool)
  PROVE  pool[i] \in Urls
  BY PoolAssumption DEF TypeOK

LEMMA VersionType ==
  ASSUME TypeOK
  PROVE  NextVersion \in 0..(VersionPeriod - 1) /\ NextVersion # version
  BY TuningAssumption DEF TypeOK, NextVersion

LEMMA UptoType ==
  ASSUME NEW b \in Nat, NEW n \in 0..b
  PROVE  Upto(n + 1, b) \in 0..b
  BY DEF Upto

LEMMA SwitchType ==
  ASSUME TypeOK, NEW i \in 1..Len(pool), SwitchActive(i)
  PROVE  active' \in 1..Len(pool) /\ version' \in 0..(VersionPeriod - 1)
  BY VersionType DEF SwitchActive, TypeOK

LEMMA InitIInv == Init => IInv
  <1> SUFFICES ASSUME Init PROVE IInv
    OBVIOUS
  <1>1. Fresh \in Health
    BY TuningAssumption DEF Fresh, Health
  <1>2. ep \in [Urls -> Health]
    BY <1>1 DEF Init
  <1>3. active \in 1..Len(pool) /\ version \in 0..(VersionPeriod - 1)
    BY PoolAssumption, TuningAssumption DEF Init
  <1>7. orphan \in BOOLEAN /\ paused \in BOOLEAN /\ served \in BOOLEAN
    BY DEF Init
  <1>8. flips \in 0..MaxFlips /\ edits \in 0..MaxEdits /\ saving \subseteq Pools /\ up \subseteq Urls
    BY TuningAssumption DEF Init
  <1>4. TypeOK
    BY <1>2, <1>3, <1>7, <1>8 DEF Init, TypeOK
  <1>5. PriorityKept
    BY DEF Init, PriorityKept
  <1>6. CleanClosed(ep)
    BY DEF Init, CleanClosed, Fresh
  <1> QED
    BY <1>4, <1>5, <1>6 DEF IInv

\* Reclaiming never leaves a more preferred endpoint that has proved itself.
LEMMA ReclaimKeeps ==
  ASSUME TypeOK, NEW h \in [Urls -> Health], CleanClosed(h), MaybeReclaimHigherPriority(h)
  PROVE  /\ active' \in 1..Len(pool) /\ version' \in 0..(VersionPeriod - 1)
         /\ Kept(h, active') /\ Earned(h) /\ Versioned
  <1>1. ASSUME NEW j \in 1..(active - 1), h[pool[j]].ok >= ReclaimAfter
        PROVE  j \in Reclaimable(h)
    <2>1. pool[j] \in Urls
      BY PoolMember DEF TypeOK
    <2>2. h[pool[j]].ok > 0
      BY <1>1, <2>1, TuningAssumption DEF Health
    <2> QED
      BY <1>1, <2>1, <2>2 DEF Reclaimable, isCircuitOpen, CleanClosed, Health
  <1>2. CASE Reclaimable(h) = {} /\ SwitchActive(active)
    <2>1. \A j \in 1..(active - 1) : h[pool[j]].ok \in Nat
      BY PoolMember DEF TypeOK, Health
    <2> QED
      BY <1>1, <1>2, <2>1, SwitchType, TuningAssumption
      DEF Kept, SwitchActive, TypeOK, Earned, Versioned
  <1>3. CASE \E i \in Reclaimable(h) :
               (\A j \in Reclaimable(h) : i <= j) /\ SwitchActive(i)
    <2>1. PICK i \in Reclaimable(h) :
            (\A j \in Reclaimable(h) : i <= j) /\ SwitchActive(i)
      BY <1>3
    <2>2. i \in 1..(active - 1) /\ i \in 1..Len(pool)
      BY DEF Reclaimable, TypeOK
    <2>3. \A j \in 1..(active - 1) : h[pool[j]].ok \in Nat
      BY PoolMember DEF TypeOK, Health
    <2>4. active' = i
      BY <2>1 DEF SwitchActive
    <2>5. \A j \in 1..(i - 1) : j \in 1..(active - 1) /\ ~(i <= j)
      BY <2>2 DEF TypeOK
    <2>6. Kept(h, i)
      BY <1>1, <2>1, <2>3, <2>5, TuningAssumption DEF Kept
    <2>7. i < active /\ h[pool[i]].ok = ReclaimAfter
      <3>1. h[pool[i]].ok \in 0..ReclaimAfter
        BY <2>2, PoolMember DEF Health
      <3> QED
        BY <2>2, <3>1, TuningAssumption DEF Reclaimable, TypeOK
    <2>8. Versioned
      BY <2>1, <2>4 DEF SwitchActive, Versioned
    <2> QED
      BY <2>1, <2>2, <2>4, <2>6, <2>7, <2>8, SwitchType DEF Earned
  <1> QED
    BY <1>2, <1>3 DEF MaybeReclaimHigherPriority

\* A promotion never jumps over an endpoint that has proved itself.
LEMMA PromoteKeeps ==
  ASSUME TypeOK, NEW h \in [Urls -> Health], CleanClosed(h),
         NEW i \in PromoteTargets(h)
  PROVE  i \in 1..Len(pool) /\ Kept(h, i)
  <1> DEFINE Members == 1..Len(pool)
             Closed == {k \in Members : ~isCircuitOpen(h, pool[k])}
  <1>0. \A j \in Members : pool[j] \in Urls /\ h[pool[j]].ok \in Nat /\ h[pool[j]].left \in Nat
    BY PoolMember DEF Health
  <1>1. CASE Len(pool) = 1
    BY <1>1, TuningAssumption DEF PromoteTargets, TypeOK, Kept
  <1>2. CASE Len(pool) # 1 /\ Closed # {}
    <2>1. i \in Closed /\ \A j \in Closed : i <= j
      BY <1>2 DEF PromoteTargets
    <2>2. ASSUME NEW j \in 1..(i - 1) PROVE h[pool[j]].ok < ReclaimAfter
      <3>1. j \in Members /\ j \notin Closed
        BY <2>1
      <3>2. h[pool[j]].left > 0
        BY <3>1 DEF isCircuitOpen
      <3> QED
        BY <1>0, <3>1, <3>2, TuningAssumption DEF CleanClosed
    <2> QED
      BY <2>1, <2>2 DEF Kept
  <1>3. CASE Len(pool) # 1 /\ Closed = {}
    <2>1. i \in Members
      BY <1>3 DEF PromoteTargets
    <2>2. ASSUME NEW j \in 1..(i - 1) PROVE h[pool[j]].ok < ReclaimAfter
      <3>1. j \in Members /\ j \notin Closed
        BY <2>1, <1>3
      <3>2. h[pool[j]].left > 0
        BY <3>1 DEF isCircuitOpen
      <3> QED
        BY <1>0, <3>1, <3>2, TuningAssumption DEF CleanClosed
    <2> QED
      BY <2>1, <2>2 DEF Kept
  <1> QED
    BY <1>1, <1>2, <1>3

\* What every step that records something leaves true.
Recorded ==
  /\ ep' \in [Urls -> Health] /\ CleanClosed(ep')
  /\ active' \in 1..Len(pool) /\ version' \in 0..(VersionPeriod - 1)
  /\ Kept(ep', active') /\ Earned(ep') /\ Versioned

LEMMA SuccessRecorded ==
  ASSUME TypeOK, NEW h \in [Urls -> Health], CleanClosed(h), NEW u \in Urls,
         RecordSuccess(h, u)
  PROVE  Recorded
  <1> DEFINE rec == [fails |-> 0, ok |-> Upto(h[u].ok + 1, ReclaimAfter),
                     opens |-> 0, left |-> 0, probing |-> h[u].probing]
             g == [h EXCEPT ![u] = rec]
  <1>1. Upto(h[u].ok + 1, ReclaimAfter) \in 0..ReclaimAfter
    BY UptoType, TuningAssumption DEF Health
  <1>2. g \in [Urls -> Health]
    <2>1. rec \in Health
      BY <1>1, TuningAssumption DEF Health
    <2> QED
      BY <2>1
  <1>3. CleanClosed(g)
    BY DEF CleanClosed, Health
  <1>4. ep' = g /\ MaybeReclaimHigherPriority(g)
    BY Zenon DEF RecordSuccess
  <1> HIDE DEF g
  <1> QED
    BY <1>2, <1>3, <1>4, ReclaimKeeps DEF Recorded

LEMMA FailureRecorded ==
  ASSUME IInv, NEW h \in [Urls -> Health], NEW u \in Urls, NEW act \in BOOLEAN,
         CleanClosed(h), Kept(h, active), RecordFailure(h, u, act),
         act => u = serverUrl /\ h = ep
  PROVE  Recorded
  <1> DEFINE opens == Upto(h[u].opens + 1, OpensCap)
             trips == h[u].fails + 1 >= FailuresToOpen
             rec(w) == [fails |-> Upto(h[u].fails + 1, FailuresToOpen), ok |-> 0,
                        opens |-> IF trips THEN opens ELSE h[u].opens,
                        left |-> w, probing |-> h[u].probing]
             g(w) == [h EXCEPT ![u] = rec(w)]
  <1>1. PICK w \in (IF trips THEN BackoffFor(opens) ELSE {h[u].left}) :
          /\ ep' = g(w)
          /\ \E i \in IF trips /\ act THEN PromoteTargets(g(w)) ELSE {active} : SwitchActive(i)
    BY DEF RecordFailure
  <1>2. w \in 0..(MaxBackoff + Jitter)
    BY DEF BackoffFor, Health
  <1>3. opens \in 0..OpensCap /\ Upto(h[u].fails + 1, FailuresToOpen) \in 0..FailuresToOpen
    BY UptoType, TuningAssumption DEF Health
  <1>4. g(w) \in [Urls -> Health]
    <2>1. h[u].opens \in 0..OpensCap /\ h[u].probing \in BOOLEAN
      BY DEF Health
    <2>2. rec(w) \in Health
      BY <1>2, <1>3, <2>1, TuningAssumption DEF Health
    <2> QED
      BY <2>2
  <1>5. CleanClosed(g(w))
    BY DEF CleanClosed, Health
  <1>6. \A v \in Urls : g(w)[v].ok \in {0, h[v].ok}
    BY DEF Health
  <1>10. g(w)[u].ok = 0
    BY DEF Health
  <1>11. trips /\ act => ep[serverUrl].fails + 1 >= FailuresToOpen /\ g(w)[serverUrl].ok = 0
    BY <1>10
  <1> HIDE DEF g, trips, opens
  <1>7. PICK i \in (IF trips /\ act THEN PromoteTargets(g(w)) ELSE {active}) : SwitchActive(i)
    BY <1>1
  <1>8. i \in 1..Len(pool) /\ Kept(g(w), i)
    <2>1. CASE trips /\ act
      BY <2>1, <1>4, <1>5, PromoteKeeps DEF IInv
    <2>2. CASE ~(trips /\ act)
      <3>1. i = active /\ active \in 1..Len(pool)
        BY <2>2 DEF IInv, TypeOK
      <3>2. \A j \in 1..(active - 1) : pool[j] \in Urls
        BY <3>1, PoolMember DEF IInv
      <3> QED
        BY <3>1, <3>2, <1>6, TuningAssumption DEF Kept
    <2> QED
      BY <2>1, <2>2
  <1>9. active' = i /\ version' \in 0..(VersionPeriod - 1)
    BY <1>7, <1>8, SwitchType DEF IInv, SwitchActive
  <1>12. Versioned
    BY <1>7, <1>9 DEF SwitchActive, Versioned
  <1>13. Earned(g(w))
    <2>1. CASE trips /\ act
      BY <2>1, <1>11 DEF Earned
    <2>2. CASE ~(trips /\ act)
      BY <2>2, <1>7, <1>9 DEF Earned
    <2> QED
      BY <2>1, <2>2
  <1> QED
    BY <1>1, <1>4, <1>5, <1>8, <1>9, <1>12, <1>13 DEF Recorded

LEMMA ReportRecorded ==
  ASSUME IInv, NEW u \in Urls, NEW s \in BOOLEAN, ReportOutcome(u, s)
  PROVE  Recorded
  <1>1. TypeOK /\ ep \in [Urls -> Health] /\ CleanClosed(ep) /\ Kept(ep, active)
    BY DEF IInv, TypeOK, PriorityKept, Kept
  <1>2. CASE s /\ RecordSuccess(ep, u)
    BY <1>1, <1>2, SuccessRecorded
  <1>3. CASE ~s /\ RecordFailure(ep, u, u = serverUrl)
    <2>1. (u = serverUrl) \in BOOLEAN
      OBVIOUS
    <2> QED
      BY <1>1, <1>3, <2>1, FailureRecorded
  <1> QED
    BY <1>2, <1>3 DEF ReportOutcome

\* A step that records, and otherwise keeps the pool and the bookkeeping.
LEMMA RecordedIInv ==
  ASSUME IInv, Recorded, UNCHANGED <<up, flips, paused, pool, saving, edits>>,
         orphan' \in BOOLEAN, served' \in BOOLEAN
  PROVE  IInv'
  <1>1. TypeOK'
    BY DEF IInv, TypeOK, Recorded
  <1>2. PriorityKept'
    BY DEF Recorded, Kept, PriorityKept
  <1>3. CleanClosed(ep)'
    BY DEF Recorded, CleanClosed
  <1> QED
    BY <1>1, <1>2, <1>3 DEF IInv

\* A tick: windows only shrink, nothing else about an endpoint changes.
LEMMA OlderRecorded ==
  ASSUME IInv, ep' = Older, UNCHANGED <<active, version>>
  PROVE  Recorded
  <1>1. ASSUME NEW u \in Urls
        PROVE  /\ Older[u] \in Health /\ Older[u].ok = ep[u].ok
               /\ ep[u].left = 0 => Older[u].left = 0
    <2>1. ep[u] \in Health
      BY DEF IInv, TypeOK
    <2>2. ep[u].left \in Nat
      BY <2>1 DEF Health
    <2>3. (IF ep[u].left > 0 THEN ep[u].left - 1 ELSE 0) \in 0..(MaxBackoff + Jitter)
      BY <2>1, TuningAssumption DEF Health
    <2>4. Older[u] = [ep[u] EXCEPT !.left = IF @ > 0 THEN @ - 1 ELSE 0]
      BY DEF Older
    <2> QED
      BY <2>1, <2>2, <2>3, <2>4 DEF Health
  <1>2. Older \in [Urls -> Health]
    BY <1>1 DEF Older
  <1>3. CleanClosed(Older)
    BY <1>1 DEF IInv, CleanClosed
  <1>4. Kept(Older, active)
    BY <1>1, PoolMember DEF IInv, TypeOK, PriorityKept, Kept
  <1> QED
    BY <1>2, <1>3, <1>4 DEF Recorded, IInv, TypeOK, Earned, Versioned

\* _probeBackups only sets flags.
LEMMA ProbeBackupsRecorded ==
  ASSUME IInv, ProbeBackups
  PROVE  Recorded
  <1>1. ASSUME NEW u \in Urls
        PROVE  ep'[u] \in Health /\ ep'[u].ok = ep[u].ok /\ ep'[u].left = ep[u].left
    <2> DEFINE p == ep[u].probing \/ \E i \in 1..Len(pool) : pool[i] = u /\ Due(i)
    <2>1. ep[u] \in Health
      BY DEF IInv, TypeOK
    <2>2. p \in BOOLEAN
      BY <2>1 DEF Health
    <2>3. ep'[u] = [ep[u] EXCEPT !.probing = p]
      BY DEF ProbeBackups
    <2> HIDE DEF p
    <2> QED
      BY <2>1, <2>2, <2>3 DEF Health
  <1>2. ep' \in [Urls -> Health]
    BY <1>1 DEF ProbeBackups
  <1>3. CleanClosed(ep')
    BY <1>1 DEF IInv, CleanClosed
  <1>4. Kept(ep', active)
    BY <1>1, PoolMember DEF IInv, TypeOK, PriorityKept, Kept
  <1> QED
    BY <1>2, <1>3, <1>4 DEF ProbeBackups, Recorded, IInv, TypeOK, Earned, Versioned

\* A probe's answer, recorded on the endpoint it probed.
LEMMA ProbeOneRecorded ==
  ASSUME IInv, NEW u \in Urls, ProbeOne(u)
  PROVE  Recorded
  <1> DEFINE h == [ep EXCEPT ![u].probing = FALSE]
  <1>1. \A v \in Urls : ep[v] \in Health
    BY DEF IInv, TypeOK
  <1>2. \A v \in Urls : h[v] \in Health /\ h[v].ok = ep[v].ok /\ h[v].left = ep[v].left
    BY <1>1 DEF Health, IInv, TypeOK
  <1>3. h \in [Urls -> Health]
    BY <1>2 DEF IInv, TypeOK
  <1>4. CleanClosed(h)
    BY <1>2 DEF IInv, CleanClosed
  <1>5. Kept(h, active)
    BY <1>2, PoolMember DEF IInv, TypeOK, PriorityKept, Kept
  <1>6. IF u \in up THEN RecordSuccess(h, u) ELSE RecordFailure(h, u, FALSE)
    BY DEF ProbeOne
  <1> HIDE DEF h
  <1>7. CASE u \in up
    BY <1>3, <1>4, <1>6, <1>7, SuccessRecorded DEF IInv
  <1>8. CASE u \notin up
    BY <1>3, <1>4, <1>5, <1>6, <1>8, FailureRecorded
  <1> QED
    BY <1>7, <1>8

LEMMA OrphanRecorded ==
  ASSUME IInv, ProbeOrphan
  PROVE  Recorded
  <1>1. ep \in [Urls -> Health] /\ CleanClosed(ep) /\ TypeOK
    BY DEF IInv, TypeOK
  <1>2. MaybeReclaimHigherPriority(ep) /\ ep' = ep
    BY DEF ProbeOrphan
  <1> QED
    BY <1>1, <1>2, ReclaimKeeps DEF Recorded, CleanClosed

LEMMA SavedIInv ==
  ASSUME IInv, NEW p \in Pools, EndpointsSaved(p)
  PROVE  IInv'
  <1>1. Fresh \in Health /\ Fresh.ok = 0
    BY TuningAssumption DEF Fresh, Health
  <1>2. ep' \in [Urls -> Health] /\ \A u \in Urls : ep'[u] = Fresh
    BY <1>1 DEF EndpointsSaved
  <1>3. pool' \in Pools /\ active' = 1 /\ active' \in 1..Len(pool')
    BY PoolAssumption DEF EndpointsSaved
  <1>4. version' \in 0..(VersionPeriod - 1)
    BY VersionType DEF IInv, EndpointsSaved
  <1>5. orphan' \in BOOLEAN /\ served' \in BOOLEAN
    BY DEF EndpointsSaved
  <1>6. saving' \subseteq Pools /\ UNCHANGED <<up, flips, paused, edits>>
    BY DEF EndpointsSaved, envVars, IInv, TypeOK
  <1>7. TypeOK'
    BY <1>2, <1>3, <1>4, <1>5, <1>6 DEF IInv, TypeOK
  <1>8. PriorityKept'
    BY <1>3 DEF PriorityKept
  <1>9. CleanClosed(ep)'
    BY <1>1, <1>2 DEF CleanClosed
  <1> QED
    BY <1>7, <1>8, <1>9 DEF IInv

\* The steps that record something, with what they leave alone.
RecordStep ==
  /\ Recorded
  /\ UNCHANGED <<up, flips, paused, pool, saving, edits>>
  /\ orphan' \in BOOLEAN /\ served' \in BOOLEAN

\* The steps that touch no endpoint.
QuietStep ==
  /\ UNCHANGED poolVars
  /\ up' \subseteq Urls /\ flips' \in 0..MaxFlips /\ paused' \in BOOLEAN
  /\ saving' \subseteq Pools /\ edits' \in 0..MaxEdits /\ orphan' \in BOOLEAN
  /\ served' \in BOOLEAN

LEMMA QuietIInv ==
  ASSUME IInv, QuietStep
  PROVE  IInv'
  BY DEF IInv, TypeOK, PriorityKept, CleanClosed, QuietStep, poolVars

\* Every step is quiet, records something, or saves a new pool.
LEMMA StepKinds ==
  ASSUME IInv, Next
  PROVE  QuietStep \/ RecordStep \/ \E p \in Pools : EndpointsSaved(p)
  <1> USE DEF envVars, poolVars, editVars
  <1>1. ASSUME NEW u \in Urls, Flip(u) PROVE QuietStep
    BY <1>1, TuningAssumption DEF Flip, QuietStep, IInv, TypeOK
  <1>2. ASSUME NEW u \in Urls, OtherOutcome(u) PROVE RecordStep
    <2>0. (u \in up) \in BOOLEAN /\ ReportOutcome(u, u \in up)
      BY <1>2 DEF OtherOutcome
    <2>1. Recorded
      BY <2>0, ReportRecorded, Zenon
    <2>2. orphan' \in BOOLEAN /\ served' \in BOOLEAN
      BY <1>2 DEF OtherOutcome, IInv, TypeOK
    <2> QED
      BY <1>2, <2>1, <2>2 DEF OtherOutcome, RecordStep
  <1>3. ASSUME NEW u \in Urls, ProbeOne(u) PROVE RecordStep
    <2>1. orphan' \in BOOLEAN /\ served' \in BOOLEAN
      BY <1>3 DEF ProbeOne, IInv, TypeOK
    <2> QED
      BY <1>3, <2>1, ProbeOneRecorded DEF ProbeOne, RecordStep
  <1>4. ASSUME SetPaused PROVE QuietStep
    <2>1. paused' \in BOOLEAN
      BY <1>4 DEF SetPaused
    <2> QED
      BY <1>4, <2>1 DEF SetPaused, QuietStep, IInv, TypeOK
  <1>5. ASSUME Tick PROVE RecordStep
    <2>1. orphan' \in BOOLEAN /\ served' \in BOOLEAN
      BY <1>5 DEF Tick, IInv, TypeOK
    <2> QED
      BY <1>5, <2>1, OlderRecorded DEF Tick, RecordStep
  <1>6. ASSUME Poll PROVE RecordStep \/ QuietStep
    <2>1. orphan' \in BOOLEAN /\ served' \in BOOLEAN
      BY <1>6 DEF Poll, IInv, TypeOK
    <2>2. CASE ReportOutcome(serverUrl, serverUrl \in up)
      <3>1. serverUrl \in Urls
        BY PoolMember DEF serverUrl, IInv, TypeOK
      <3>2. Recorded
        BY <2>2, <3>1, ReportRecorded, (serverUrl \in up) \in BOOLEAN, Zenon
      <3> QED
        BY <1>6, <2>1, <3>2 DEF Poll, RecordStep
    <2>3. CASE UNCHANGED poolVars
      BY <1>6, <2>1, <2>3 DEF Poll, QuietStep, IInv, TypeOK
    <2> QED
      BY <1>6, <2>2, <2>3 DEF Poll
  <1>7. ASSUME ProbeBackups PROVE RecordStep
    <2>1. orphan' \in BOOLEAN /\ served' \in BOOLEAN
      BY <1>7 DEF ProbeBackups, IInv, TypeOK
    <2> QED
      BY <1>7, <2>1, ProbeBackupsRecorded DEF ProbeBackups, RecordStep
  <1>8. ASSUME ProbeOrphan PROVE RecordStep
    <2>1. orphan' \in BOOLEAN /\ served' \in BOOLEAN
      BY <1>8 DEF ProbeOrphan, IInv, TypeOK
    <2> QED
      BY <1>8, <2>1, OrphanRecorded DEF ProbeOrphan, RecordStep
  <1>9. ASSUME NEW p \in Pools, SetEndpoints(p) PROVE QuietStep
    BY <1>9, TuningAssumption DEF SetEndpoints, QuietStep, IInv, TypeOK
  <1> QED
    BY <1>1, <1>2, <1>3, <1>4, <1>5, <1>6, <1>7, <1>8, <1>9 DEF Next

LEMMA RecordStepIInv ==
  ASSUME IInv, RecordStep
  PROVE  IInv'
  BY RecordedIInv DEF RecordStep

LEMMA StepIInv == IInv /\ [Next]_cfgVars => IInv'
  <1> SUFFICES ASSUME IInv, [Next]_cfgVars PROVE IInv'
    OBVIOUS
  <1>1. CASE Next
    BY <1>1, StepKinds, QuietIInv, RecordStepIInv, SavedIInv
  <1>2. CASE UNCHANGED cfgVars
    BY <1>2 DEF IInv, TypeOK, PriorityKept, CleanClosed, cfgVars, envVars, poolVars, editVars
  <1> QED
    BY <1>1, <1>2

LEMMA Invariance == Spec => []IInv
  BY InitIInv, StepIInv, PTL DEF Spec

\* The counters of the breaker stay within the bounds that tell them apart and
\* _activeIndex within the pool, whatever is saved, probed or reported when.
THEOREM TypeCorrect == Spec => []TypeOK
  <1>1. IInv => TypeOK
    BY DEF IInv
  <1> QED
    BY <1>1, Invariance, PTL

\* For every pool and every order of failures, probes, late answers and edits
\* _maybeReclaimHigherPriority leaves no more preferred endpoint that has
\* proved itself.
THEOREM PriorityHolds == Spec => []PriorityKept
  <1>1. IInv => PriorityKept
    BY DEF IInv
  <1> QED
    BY <1>1, Invariance, PTL

\* The active endpoint loses its place only by its own tripped circuit, to a
\* more preferred endpoint that has proved itself, or by an edit.
THEOREM StickyHolds == Spec => Sticky
  <1> DEFINE A == active' # active /\ pool' = pool /\ edits' = edits /\ saving' = saving =>
                    \/ ep[serverUrl].fails + 1 >= FailuresToOpen /\ ep'[serverUrl].ok = 0
                    \/ active' < active /\ ep'[pool[active']].ok = ReclaimAfter
  <1>1. ASSUME IInv, [Next]_cfgVars PROVE [A]_cfgVars
    <2>1. CASE QuietStep
      BY <2>1 DEF QuietStep, poolVars
    <2>2. CASE RecordStep
      BY <2>2 DEF RecordStep, Recorded, Earned
    <2>3. CASE \E p \in Pools : EndpointsSaved(p)
      BY <2>3 DEF EndpointsSaved
    <2> QED
      BY <1>1, <2>1, <2>2, <2>3, StepKinds
  <1>2. Spec => [][A]_cfgVars
    BY <1>1, Invariance, PTL DEF Spec
  <1> QED
    BY <1>2 DEF Sticky

\* Every change of serverUrl carries exactly one new version.
THEOREM ChangesVersioned == Spec => ChangeIsVersioned
  <1> DEFINE A == serverUrl' # serverUrl => version' = NextVersion
  <1>1. ASSUME IInv, [Next]_cfgVars PROVE [A]_cfgVars
    <2>1. CASE QuietStep
      BY <2>1 DEF QuietStep, poolVars, serverUrl
    <2>2. CASE RecordStep
      BY <2>2 DEF RecordStep, Recorded, Versioned, serverUrl
    <2>3. CASE \E p \in Pools : EndpointsSaved(p)
      BY <2>3 DEF EndpointsSaved
    <2> QED
      BY <1>1, <2>1, <2>2, <2>3, StepKinds
  <1>2. Spec => [][A]_cfgVars
    BY <1>1, Invariance, PTL DEF Spec
  <1> QED
    BY <1>2 DEF ChangeIsVersioned

================================================================================
