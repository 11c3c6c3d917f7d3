----------------------------- MODULE RuntimeConfig -----------------------------
(***************************************************************************)
(* The endpoint pool of flutter_application_plc/lib/config/                *)
(* runtime_config.dart: an ordered list of server URLs, the active one,    *)
(* and per endpoint a circuit breaker fed by real traffic and by probes.   *)
(*                                                                         *)
(* Dart runs one event at a time, so an action is the code between two     *)
(* awaits. Time passes in ticks of _baseBackoff; a circuit is open while   *)
(* ticks are left of its back-off window. Counters that only ever grow     *)
(* stop at the value beyond which the code cannot tell them apart.         *)
(***************************************************************************)
EXTENDS Integers, Sequences, FiniteSets

CONSTANTS
  Urls,             \* server URLs
  Pools,            \* the endpoint lists a person may configure
  FailuresToOpen,   \* _failuresToOpenCircuit
  ReclaimAfter,     \* _reclaimAfterProbes
  MaxBackoff,       \* _maxBackoff, in ticks
  Jitter,           \* bound: by how many ticks the jitter may move a window's end
  IntBits,          \* width of a Dart int (64 on a phone)
  OpensCap,         \* bound: circuitOpenCount is not told apart beyond it
  VersionPeriod,    \* bound: the version is kept modulo this number
  MaxFlips,         \* bound: endpoints going up or down in one behaviour
  MaxEdits          \* bound: manual changes of the pool in one behaviour

ASSUME PoolAssumption ==
  /\ Pools # {}
  /\ \A p \in Pools :
       /\ p \in Seq(Urls) /\ Len(p) > 0
       /\ \A i, j \in 1..Len(p) : p[i] = p[j] => i = j

ASSUME TuningAssumption ==
  /\ FailuresToOpen \in Nat \ {0} /\ ReclaimAfter \in Nat \ {0}
  /\ MaxBackoff \in Nat \ {0} /\ Jitter \in Nat /\ IntBits \in Nat \ {0}
  /\ OpensCap \in Nat \ {0} /\ VersionPeriod \in Nat /\ VersionPeriod > 1
  /\ MaxFlips \in Nat /\ MaxEdits \in Nat

VARIABLES
  up,        \* the URLs that currently answer
  flips,     \* how often that changed
  pool,      \* _endpoints, in priority order
  active,    \* _activeIndex (from 1)
  version,   \* _version
  ep,        \* the _Endpoint of each URL
  saving,    \* pools whose setEndpoints() awaits the preferences
  edits,     \* how many calls of setEndpoints() were made
  orphan,    \* a probe of an endpoint of an earlier pool is still running
  paused,    \* AppState has stopped polling
  served     \* the active endpoint was polled in this tick

envVars  == <<up, flips, paused>>
poolVars == <<pool, active, version, ep>>
editVars == <<saving, edits, orphan>>
cfgVars  == <<envVars, poolVars, editVars, served>>

\* A new _Endpoint.
Fresh == [fails |-> 0, ok |-> 0, opens |-> 0, left |-> 0, probing |-> FALSE]

Health ==
  [fails : 0..FailuresToOpen, ok : 0..ReclaimAfter, opens : 0..OpensCap,
   left : 0..(MaxBackoff + Jitter), probing : BOOLEAN]

\* The state initialize() leaves, before any service is constructed.
Init ==
  /\ up \in SUBSET Urls /\ flips = 0
  /\ pool \in Pools
  /\ active = 1
  /\ version = 0
  /\ ep = [u \in Urls |-> Fresh]
  /\ saving = {} /\ edits = 0 /\ orphan = FALSE
  /\ paused = FALSE /\ served = FALSE

Upto(n, bound) == IF n < bound THEN n ELSE bound

serverUrl == pool[active]

isCircuitOpen(h, u) == h[u].left > 0

activeEndpointCoolingDown == isCircuitOpen(ep, serverUrl)

--------------------------------------------------------------------------------
(* Choosing the active endpoint; h is the health record being written.     *)

\* _version++
NextVersion == IF version + 1 < VersionPeriod THEN version + 1 ELSE 0

\* Mutant: nobody is told of a failover.
SwitchSilently(i) ==
  /\ active' = i
  /\ version' = version

\* _switchActive: a no-op on the endpoint that is already active.
SwitchActive(i) ==
  /\ active' = i
  /\ version' = IF i = active THEN version ELSE NextVersion

\* Mutant: the next endpoint of the list, past its end too.
NextInList(h) == {active + 1}

\* Mutant: the choice is made before the failed endpoint's window is set.
PromoteBefore(h) ==
  LET Closed == {i \in 1..Len(pool) : ~isCircuitOpen(ep, pool[i])}
  IN  IF Len(pool) = 1 \/ Closed = {} THEN {active}
      ELSE {i \in Closed : \A j \in Closed : i <= j}

\* _promoteNextHealthyEndpoint: the first closed circuit in priority order,
\* else whichever window ends soonest (a tick is coarse: a tie may go either way).
PromoteTargets(h) ==
  LET Members == 1..Len(pool)
      Closed  == {i \in Members : ~isCircuitOpen(h, pool[i])}
  IN  IF Len(pool) = 1 THEN {active}
      ELSE IF Closed # {} THEN {i \in Closed : \A j \in Closed : i <= j}
      ELSE {i \in Members : \A j \in Members : h[pool[i]].left <= h[pool[j]].left}

\* Mutant: any closed circuit is worth going back to.
ReclaimableAtOnce(h) == {i \in 1..(active - 1) : ~isCircuitOpen(h, pool[i])}

\* The endpoints _maybeReclaimHigherPriority would switch to.
Reclaimable(h) ==
  {i \in 1..(active - 1) : ~isCircuitOpen(h, pool[i]) /\ h[pool[i]].ok >= ReclaimAfter}

MaybeReclaimHigherPriority(h) ==
  \/ Reclaimable(h) = {} /\ SwitchActive(active)
  \/ \E i \in Reclaimable(h) :
       /\ \A j \in Reclaimable(h) : i <= j
       /\ SwitchActive(i)

--------------------------------------------------------------------------------
(* Recording outcomes on top of h. *)

\* pow(2, e) of two Dart ints wraps around.
Pow2(e) ==
  IF e < IntBits - 1 THEN 2^e ELSE IF e = IntBits - 1 THEN -(2^e) ELSE 0

\* _backoffFor without its jitter, in ticks.
Backoff(n) == IF Pow2(n - 1) > MaxBackoff THEN MaxBackoff ELSE Pow2(n - 1)

\* The windows _backoffFor may return.
BackoffFor(n) ==
  {w \in 0..(MaxBackoff + Jitter) :
     IF Backoff(n) > 0 THEN w - Backoff(n) \in 0..Jitter ELSE w = 0}

\* Mutant: an answer takes back one opening of the circuit, also when there
\* was none, instead of clearing the count.
RecordSuccessStepBack(h, u) ==
  LET g == [h EXCEPT ![u] = [fails |-> 0, ok |-> Upto(@.ok + 1, ReclaimAfter),
                             opens |-> @.opens - 1, left |-> 0, probing |-> @.probing]]
  IN  ep' = g /\ MaybeReclaimHigherPriority(g)

RecordSuccess(h, u) ==
  LET g == [h EXCEPT ![u] = [fails |-> 0, ok |-> Upto(@.ok + 1, ReclaimAfter),
                             opens |-> 0, left |-> 0, probing |-> @.probing]]
  IN  ep' = g /\ MaybeReclaimHigherPriority(g)

\* Mutant: a failure does not end the row of clean answers before it.
RecordFailureKeepingRow(h, u, isActive) ==
  LET opens == Upto(h[u].opens + 1, OpensCap)
      trips == h[u].fails + 1 >= FailuresToOpen
  IN  \E w \in IF trips THEN BackoffFor(opens) ELSE {h[u].left} :
        LET g == [h EXCEPT ![u] = [@ EXCEPT !.fails = Upto(@ + 1, FailuresToOpen),
                                            !.opens = IF trips THEN opens ELSE @,
                                            !.left = w]]
        IN  /\ ep' = g
            /\ \E i \in IF trips /\ isActive THEN PromoteTargets(g) ELSE {active} :
                 SwitchActive(i)

RecordFailure(h, u, isActive) ==
  LET opens == Upto(h[u].opens + 1, OpensCap)
      trips == h[u].fails + 1 >= FailuresToOpen
  IN  \E w \in IF trips THEN BackoffFor(opens) ELSE {h[u].left} :
        LET g == [h EXCEPT ![u] = [fails |-> Upto(@.fails + 1, FailuresToOpen), ok |-> 0,
                                   opens |-> IF trips THEN opens ELSE @.opens,
                                   left |-> w, probing |-> @.probing]]
        IN  /\ ep' = g
            /\ \E i \in IF trips /\ isActive THEN PromoteTargets(g) ELSE {active} :
                 SwitchActive(i)

InPool(u) == \E i \in 1..Len(pool) : pool[i] = u

\* reportOutcome for a URL of the pool. Other URLs, and an authentication,
\* permission or rate-limit answer, change nothing.
ReportOutcome(u, success) ==
  /\ InPool(u)
  /\ \/ success /\ RecordSuccess(ep, u)
     \/ ~success /\ RecordFailure(ep, u, u = serverUrl)

--------------------------------------------------------------------------------
(* The network, time, and the traffic AppState sends. *)

Flip(u) ==
  /\ flips < MaxFlips
  /\ flips' = flips + 1
  /\ up' = IF u \in up THEN up \ {u} ELSE up \cup {u}
  /\ UNCHANGED <<paused, poolVars, editVars, served>>

\* didChangeAppLifecycleState
SetPaused ==
  /\ paused' = ~paused
  /\ UNCHANGED <<up, flips, poolVars, editVars, served>>

\* The health records a tick later.
Older == [u \in Urls |-> [ep[u] EXCEPT !.left = IF @ > 0 THEN @ - 1 ELSE 0]]

\* While the app is in front, an endpoint whose circuit is closed is polled
\* every second, well within a tick.
Tick ==
  /\ paused \/ served \/ activeEndpointCoolingDown
  /\ ep' = Older
  /\ served' = FALSE
  /\ UNCHANGED <<envVars, pool, active, version, editVars>>

\* A poll of the active endpoint, sent only while its circuit is closed. An
\* endpoint that is up may also answer with a client error.
Poll ==
  /\ ~paused /\ ~activeEndpointCoolingDown
  /\ \/ ReportOutcome(serverUrl, serverUrl \in up)
     \/ serverUrl \in up /\ UNCHANGED poolVars
  /\ served' = (active' = active)
  /\ UNCHANGED <<envVars, pool, editVars>>

\* The outcome of a command (never held back) or of a request sent to an
\* endpoint that has stopped being the active one since.
OtherOutcome(u) ==
  /\ ReportOutcome(u, u \in up)
  /\ served' = (served /\ active' = active)
  /\ UNCHANGED <<envVars, pool, editVars>>

--------------------------------------------------------------------------------
(* Probes. *)

Due(i) == i # active /\ ~ep[pool[i]].probing /\ ~isCircuitOpen(ep, pool[i])

\* _probeBackups
ProbeBackups ==
  /\ \E i \in 1..Len(pool) : Due(i)
  /\ ep' = [u \in Urls |->
              [ep[u] EXCEPT !.probing = @ \/ \E i \in 1..Len(pool) : pool[i] = u /\ Due(i)]]
  /\ UNCHANGED <<envVars, pool, active, version, editVars, served>>

\* _probeOne ends. Whatever it finds, it calls the endpoint a backup.
ProbeOne(u) ==
  /\ ep[u].probing
  /\ LET h == [ep EXCEPT ![u].probing = FALSE]
     IN  IF u \in up THEN RecordSuccess(h, u) ELSE RecordFailure(h, u, FALSE)
  /\ served' = (served /\ active' = active)
  /\ UNCHANGED <<envVars, pool, editVars>>

\* A probe of a discarded _Endpoint ends: its own record is garbage, but a
\* success still looks for something to reclaim in the new pool.
ProbeOrphan ==
  /\ orphan /\ orphan' \in BOOLEAN
  /\ MaybeReclaimHigherPriority(ep)
  /\ served' = (served /\ active' = active)
  /\ UNCHANGED <<envVars, pool, ep, saving, edits>>

--------------------------------------------------------------------------------
(* setEndpoints, and setServerUrl for a pool of one. *)

\* Up to the await: nothing happens for the pool that is already in use from
\* its top.
SetEndpoints(p) ==
  /\ edits < MaxEdits
  /\ p # pool \/ active # 1
  /\ saving' = saving \cup {p} /\ edits' = edits + 1
  /\ UNCHANGED <<envVars, poolVars, orphan, served>>

\* After it: new endpoints, from the top, with one new version.
EndpointsSaved(p) ==
  /\ p \in saving /\ saving' = saving \ {p}
  /\ pool' = p /\ active' = 1
  /\ version' = NextVersion
  /\ orphan' = (orphan \/ \E u \in Urls : ep[u].probing)
  /\ ep' = [u \in Urls |-> Fresh]
  /\ served' = FALSE
  /\ UNCHANGED <<envVars, edits>>

--------------------------------------------------------------------------------
Next ==
  \/ \E u \in Urls : Flip(u) \/ OtherOutcome(u) \/ ProbeOne(u)
  \/ SetPaused \/ Tick \/ Poll \/ ProbeBackups \/ ProbeOrphan
  \/ \E p \in Pools : SetEndpoints(p) \/ EndpointsSaved(p)

\* Timers fire, requests and probes end, preferences are written.
Fairness ==
  /\ WF_cfgVars(Tick) /\ WF_cfgVars(Poll) /\ WF_cfgVars(ProbeBackups)
  /\ \A u \in Urls : WF_cfgVars(ProbeOne(u))
  /\ \A p \in Pools : WF_cfgVars(EndpointsSaved(p))

Spec == Init /\ [][Next]_cfgVars

FairSpec == Spec /\ Fairness

--------------------------------------------------------------------------------
(* Properties. *)

\* The type of the state.
TypeOK ==
  /\ up \subseteq Urls /\ flips \in 0..MaxFlips
  /\ pool \in Pools /\ active \in 1..Len(pool)
  /\ version \in 0..(VersionPeriod - 1)
  /\ ep \in [Urls -> Health]
  /\ saving \subseteq Pools /\ edits \in 0..MaxEdits /\ orphan \in BOOLEAN
  /\ paused \in BOOLEAN /\ served \in BOOLEAN

\* The app never rests on an endpoint while a more preferred one has already
\* proved itself: whatever mix of failovers, probes, late answers and edits,
\* _maybeReclaimHigherPriority has been applied to every success it needed.
PriorityKept == \A i \in 1..(active - 1) : ep[pool[i]].ok < ReclaimAfter

\* Failover is sticky: without an edit the active endpoint changes only when
\* its own circuit has just tripped, or to a more preferred endpoint that has
\* answered ReclaimAfter times in a row. Late answers and probes of other
\* endpoints never cost a working endpoint its place.
Sticky ==
  [][active' # active /\ pool' = pool /\ edits' = edits /\ saving' = saving =>
       \/ ep[serverUrl].fails + 1 >= FailuresToOpen /\ ep'[serverUrl].ok = 0
       \/ active' < active /\ ep'[pool[active']].ok = ReclaimAfter]_cfgVars

\* Nobody can miss a change of server: every change of serverUrl, by edit or
\* by failover, comes with exactly one new version.
ChangeIsVersioned ==
  [][serverUrl' # serverUrl => version' = NextVersion]_cfgVars

\* "promotes the next healthy endpoint automatically" (runtime_config.dart:68):
\* while some endpoint of the pool keeps answering, the app ends up on one
\* that answers, unless it keeps being put in the background.
Converges == []<>(paused \/ serverUrl \in up \/ ~\E u \in up : InPool(u))

================================================================================
