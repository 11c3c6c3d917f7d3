---------------------------- MODULE AppStateProofs -----------------------------
(***************************************************************************)
(* AppState never shows another server's data. Its guard against late      *)
(* answers is read before reportOutcome(), which may itself cause a        *)
(* failover; the proof rests on PriorityKept of RuntimeConfig, by which    *)
(* reporting a success of the active endpoint never does.                  *)
(***************************************************************************)
EXTENDS AppState, RuntimeConfigProofs

\* A request whose version is current was sent to the current server.
FreshOwn == \A q \in reqs : q.fresh => q.url = serverUrl

\* Only requests of the current version belong to the current poll.
CurFresh == \A q \in reqs : q.poll = "cur" => q.fresh

OneCur == \A q, r \in reqs : q.poll = "cur" /\ r.poll = "cur" => q = r

AppTypes ==
  /\ reqs \subseteq Requests /\ cmds \subseteq Urls /\ status \in Statuses
  /\ shown \in Urls \cup {None} /\ devices \in Urls \cup {None}

AInv == IInv /\ AppTypes /\ FreshOwn /\ CurFresh /\ OneCur /\ OwnServerOnly

\* What a step does to RuntimeConfig.
CfgStep == QuietStep \/ RecordStep \/ \E p \in Pools : EndpointsSaved(p)

LEMMA ServerUrlType == ASSUME TypeOK PROVE serverUrl \in Urls
  BY PoolMember DEF serverUrl, TypeOK

\* The listener hears of every change of server.
LEMMA CfgFacts ==
  ASSUME IInv, CfgStep
  PROVE  IInv' /\ (serverUrl' # serverUrl => Rebuilt)
  <1>1. IInv'
    BY QuietIInv, RecordStepIInv, SavedIInv DEF CfgStep
  <1>2. NextVersion # version
    BY VersionType DEF IInv
  <1>3. CASE QuietStep
    BY <1>1, <1>3 DEF QuietStep, poolVars, serverUrl
  <1>4. CASE RecordStep
    BY <1>1, <1>2, <1>4 DEF RecordStep, Recorded, Versioned, serverUrl, Rebuilt
  <1>5. CASE \E p \in Pools : EndpointsSaved(p)
    BY <1>1, <1>2, <1>5 DEF EndpointsSaved, Rebuilt
  <1> QED
    BY <1>3, <1>4, <1>5 DEF CfgStep

\* The heart of OwnServerOnly: reporting a success of the active endpoint
\* changes neither the active endpoint nor the version.
LEMMA SuccessStays ==
  ASSUME IInv, ReportOutcome(serverUrl, TRUE)
  PROVE  ~Rebuilt /\ active' = active
  <1> DEFINE u == serverUrl
             rec == [fails |-> 0, ok |-> Upto(ep[u].ok + 1, ReclaimAfter),
                     opens |-> 0, left |-> 0, probing |-> ep[u].probing]
             g == [ep EXCEPT ![u] = rec]
  <1>1. u \in Urls
    BY ServerUrlType DEF IInv
  <1>2. MaybeReclaimHigherPriority(g)
    BY DEF ReportOutcome, RecordSuccess
  <1>3. ASSUME NEW i \in 1..(active - 1) PROVE g[pool[i]].ok < ReclaimAfter
    <2>1. i \in 1..Len(pool) /\ active \in 1..Len(pool) /\ i # active
      BY DEF IInv, TypeOK
    <2>2. pool[i] # u
      BY <2>1, PoolAssumption DEF IInv, TypeOK, serverUrl
    <2>3. pool[i] \in Urls
      BY <2>1, PoolMember DEF IInv
    <2>4. g[pool[i]] = ep[pool[i]]
      BY <2>2, <2>3 DEF IInv, TypeOK
    <2> QED
      BY <2>4 DEF IInv, PriorityKept
  <1>4. \A i \in 1..(active - 1) : g[pool[i]].ok \in Nat
    <2>1. ASSUME NEW i \in 1..(active - 1) PROVE g[pool[i]].ok \in Nat
      <3>1. i \in 1..Len(pool)
        BY DEF IInv, TypeOK
      <3>2. pool[i] \in Urls
        BY <3>1, PoolMember DEF IInv
      <3>3. rec.ok \in Nat
        BY <1>1, UptoType, TuningAssumption DEF IInv, TypeOK, Health
      <3>4. ep[pool[i]].ok \in Nat
        BY <3>2 DEF IInv, TypeOK, Health
      <3> QED
        BY <3>2, <3>3, <3>4, <1>1 DEF IInv, TypeOK
    <2> QED
      BY <2>1
  <1> HIDE DEF g
  <1>5. Reclaimable(g) = {}
    BY <1>3, <1>4, TuningAssumption DEF Reclaimable
  <1> QED
    BY <1>2, <1>5 DEF MaybeReclaimHigherPriority, SwitchActive, Rebuilt

\* The requests a listener leaves keep the invariant.
LEMMA AfterOwn ==
  ASSUME AInv, IInv', serverUrl' # serverUrl => Rebuilt, NEW rs \in SUBSET reqs
  PROVE  /\ ReqsAfter(rs) \subseteq Requests
         /\ \A q \in ReqsAfter(rs) : q.fresh => q.url = serverUrl'
         /\ \A q \in ReqsAfter(rs) : q.poll = "cur" => q.fresh
         /\ \A q, r \in ReqsAfter(rs) : q.poll = "cur" /\ r.poll = "cur" => q = r
  <1>0. serverUrl' \in Urls
    BY PoolAssumption DEF IInv, TypeOK, serverUrl
  <1>1. CASE ~Rebuilt
    BY <1>1 DEF ReqsAfter, AInv, AppTypes, FreshOwn, CurFresh, OneCur
  <1>2. CASE Rebuilt
    <2>1. ASSUME NEW q \in Superseded(rs)
          PROVE  q \in Requests /\ q.fresh = FALSE /\ q.poll = "old"
      <3>1. PICK r \in rs : q = [r EXCEPT !.fresh = FALSE, !.poll = "old"]
        BY DEF Superseded
      <3>2. r \in Requests
        BY DEF AInv, AppTypes
      <3> QED
        BY <3>1, <3>2 DEF Requests
    <2>2. StateRequest(serverUrl') \in Requests /\ StateRequest(serverUrl').fresh
          /\ StateRequest(serverUrl').url = serverUrl'
      BY <1>0 DEF StateRequest, Requests
    <2>3. \A q \in ReqsAfter(rs) : q \in Superseded(rs) \/ q = StateRequest(serverUrl')
      BY <1>2 DEF ReqsAfter
    <2> QED
      BY <2>1, <2>2, <2>3
  <1> QED
    BY <1>1, <1>2

\* The part of AInv that is about requests, of a set of them.
Sound(rs, url) ==
  /\ rs \subseteq Requests
  /\ \A q \in rs : q.fresh => q.url = url
  /\ \A q \in rs : q.poll = "cur" => q.fresh
  /\ \A q, r \in rs : q.poll = "cur" /\ r.poll = "cur" => q = r

\* Whatever a step does, it keeps AInv if its requests are sound and what it
\* shows is its server's.
LEMMA Assemble ==
  ASSUME IInv', Sound(reqs', serverUrl'), cmds' \subseteq Urls, status' \in Statuses,
         shown' \in {serverUrl', None}, devices' \in {serverUrl', None}
  PROVE  AInv'
  <1>1. serverUrl' \in Urls
    BY PoolAssumption DEF IInv, TypeOK, serverUrl
  <1> QED
    BY <1>1 DEF AInv, AppTypes, FreshOwn, CurFresh, OneCur, OwnServerOnly, Sound

\* A step of RuntimeConfig together with its listener, whatever of the
\* requests it has ended.
LEMMA ListenerSound ==
  ASSUME AInv, CfgStep, NEW rs \in SUBSET reqs
  PROVE  /\ IInv' /\ Sound(ReqsAfter(rs), serverUrl')
         /\ StatusAfter \in Statuses
         /\ ShownAfter \in {serverUrl', None} /\ DevicesAfter \in {serverUrl', None}
         /\ serverUrl' # serverUrl => Rebuilt
  <1>1. IInv' /\ (serverUrl' # serverUrl => Rebuilt)
    BY CfgFacts DEF AInv
  <1>2. Sound(ReqsAfter(rs), serverUrl')
    BY <1>1, AfterOwn DEF Sound
  <1>3. StatusAfter \in Statuses
    BY DEF StatusAfter, Statuses, AInv, AppTypes
  <1>4. ShownAfter \in {serverUrl', None} /\ DevicesAfter \in {serverUrl', None}
    BY <1>1 DEF ShownAfter, DevicesAfter, AInv, OwnServerOnly
  <1> QED
    BY <1>1, <1>2, <1>3, <1>4

LEMMA ListeningKeeps ==
  ASSUME AInv, CfgStep,
         reqs' = ReqsAfter(reqs), status' = StatusAfter, shown' = ShownAfter,
         devices' = DevicesAfter, cmds' \subseteq Urls
  PROVE  AInv'
  <1>1. reqs \in SUBSET reqs
    OBVIOUS
  <1> QED
    BY <1>1, ListenerSound, Assemble

\* reportOutcome() by a handler is a step of RuntimeConfig.
LEMMA ReportCfg ==
  ASSUME IInv, NEW u \in Urls, NEW o, Report(u, o)
  PROVE  CfgStep
  <1> USE DEF envVars, poolVars, editVars
  <1>1. orphan' \in BOOLEAN /\ served' \in BOOLEAN /\ paused' \in BOOLEAN
    BY DEF Report, IInv, TypeOK
  <1>2. CASE ReportOutcome(u, o = "ok")
    <2>1. Recorded
      BY <1>2, ReportRecorded, (o = "ok") \in BOOLEAN, Zenon
    <2> QED
      BY <1>1, <2>1 DEF Report, RecordStep, CfgStep
  <1>3. CASE UNCHANGED <<active, version, ep>>
    <2>1. UNCHANGED poolVars
      BY <1>3 DEF Report
    <2>2. UNCHANGED <<up, flips, saving, edits>>
      BY DEF Report
    <2> QED
      BY <1>1, <2>1, <2>2 DEF QuietStep, CfgStep, IInv, TypeOK
  <1> QED
    BY <1>2, <1>3 DEF Report

\* ... and so is every step of ConfigStep.
LEMMA ConfigCfg ==
  ASSUME IInv, ConfigStep
  PROVE  CfgStep
  <1> USE DEF envVars, poolVars, editVars
  <1>1. ASSUME NEW u \in Urls, Listening(Flip(u) \/ ProbeOne(u)) PROVE CfgStep
    <2>1. Next
      BY <1>1 DEF Listening, Next
    <2> QED
      BY <2>1, StepKinds DEF CfgStep
  <1>2. ASSUME Listening(Elapse \/ ProbeBackups \/ ProbeOrphan) PROVE CfgStep
    <2>1. CASE Elapse
      <3>1. orphan' \in BOOLEAN /\ served' \in BOOLEAN
        BY <2>1 DEF Elapse, IInv, TypeOK
      <3> QED
        BY <2>1, <3>1, OlderRecorded DEF Elapse, RecordStep, CfgStep
    <2>2. CASE ProbeBackups \/ ProbeOrphan
      BY <2>2, StepKinds DEF CfgStep, Next
    <2> QED
      BY <1>2, <2>1, <2>2 DEF Listening
  <1>3. ASSUME NEW p \in Pools, Listening(SetEndpoints(p) \/ EndpointsSaved(p)) PROVE CfgStep
    <2>1. Next
      BY <1>3 DEF Listening, Next
    <2> QED
      BY <2>1, StepKinds DEF CfgStep
  <1> QED
    BY <1>1, <1>2, <1>3 DEF ConfigStep

\* What the listener does with the app's own state is the same for all of them.
LEMMA ConfigListens ==
  ASSUME ConfigStep
  PROVE  /\ reqs' = ReqsAfter(reqs) /\ status' = StatusAfter /\ shown' = ShownAfter
         /\ devices' = DevicesAfter /\ UNCHANGED cmds
  BY DEF ConfigStep, Listening

LEMMA ConfigKeeps ==
  ASSUME AInv, ConfigStep
  PROVE  AInv'
  BY ConfigCfg, ConfigListens, ListeningKeeps DEF AInv, AppTypes

\* Steps that leave RuntimeConfig alone: only requests change.
LEMMA SameCfg ==
  ASSUME AInv, UNCHANGED <<pool, active, version, ep>>, IInv',
         Sound(reqs', serverUrl), cmds' \subseteq Urls, status' \in Statuses,
         UNCHANGED <<shown, devices>>
  PROVE  AInv'
  <1>1. serverUrl' = serverUrl
    BY DEF serverUrl
  <1> QED
    BY <1>1, Assemble DEF AInv, OwnServerOnly

LEMMA SameIInv ==
  ASSUME IInv, UNCHANGED cfgVars
  PROVE  IInv'
  BY DEF IInv, TypeOK, PriorityKept, CleanClosed, cfgVars, envVars, poolVars, editVars

\* Adding a request of the current version.
LEMMA AddSound ==
  ASSUME NEW rs, NEW url, NEW q \in Requests, Sound(rs, url), q.fresh, q.url = url,
         q.poll = "cur" => \A r \in rs : r.poll # "cur"
  PROVE  Sound(rs \cup {q}, url)
  BY DEF Sound

\* Adding the device-list request of a poll that goes on.
LEMMA LoadSound ==
  ASSUME NEW rs, NEW url \in Urls, NEW p \in {"cur", "old"}, Sound(rs, url),
         p = "cur" => \A r \in rs : r.poll # "cur"
  PROVE  Sound(rs \cup {[kind |-> "devices", poll |-> p, url |-> url, fresh |-> TRUE]}, url)
  <1> DEFINE q == [kind |-> "devices", poll |-> p, url |-> url, fresh |-> TRUE]
  <1>1. q \in Requests /\ q.fresh /\ q.url = url /\ q.poll = p
    BY DEF Requests
  <1> HIDE DEF q
  <1>2. Sound(rs \cup {q}, url)
    BY <1>1, AddSound
  <1> QED
    BY <1>2 DEF q

\* The requests as they are, and with one more poll when there was none.
LEMMA MoreSound ==
  ASSUME AInv
  PROVE  /\ \A rs \in SUBSET reqs : Sound(rs, serverUrl)
         /\ Idle => Sound(reqs \cup {StateRequest(serverUrl)}, serverUrl)
         /\ Sound(reqs \cup {[kind |-> "devices", poll |-> "old",
                              url |-> serverUrl, fresh |-> TRUE]}, serverUrl)
  <1>1. serverUrl \in Urls
    BY ServerUrlType DEF AInv, IInv
  <1>2. \A rs \in SUBSET reqs : Sound(rs, serverUrl)
    BY DEF Sound, AInv, AppTypes, FreshOwn, CurFresh, OneCur
  <1>3. Idle => Sound(reqs \cup {StateRequest(serverUrl)}, serverUrl)
    <2>1. StateRequest(serverUrl) \in Requests /\ StateRequest(serverUrl).fresh
          /\ StateRequest(serverUrl).url = serverUrl
      BY <1>1 DEF StateRequest, Requests
    <2>2. Sound(reqs, serverUrl)
      BY <1>2
    <2> QED
      BY <2>1, <2>2, AddSound DEF Idle
  <1>4. Sound(reqs \cup {[kind |-> "devices", poll |-> "old",
                          url |-> serverUrl, fresh |-> TRUE]}, serverUrl)
    <2>1. Sound(reqs, serverUrl)
      BY <1>2
    <2> QED
      BY <1>1, <2>1, LoadSound
  <1> QED
    BY <1>2, <1>3, <1>4

LEMMA StartPollKeeps ==
  ASSUME AInv, Idle, StartPoll, UNCHANGED <<pool, active, version, ep>>, IInv'
  PROVE  AInv'
  <1>1. Sound(reqs', serverUrl)
    BY MoreSound DEF StartPoll
  <1>2. status' \in Statuses /\ UNCHANGED <<shown, devices, cmds>>
    BY DEF StartPoll, Statuses, AInv, AppTypes
  <1> QED
    BY <1>1, <1>2, SameCfg DEF AInv, AppTypes

LEMMA QuietRequestsKeep ==
  ASSUME AInv, PollTimer \/ Lifecycle \/ RefreshDeviceList \/ Command
  PROVE  AInv'
  <1> USE DEF cfgVars, envVars, poolVars, editVars
  <1>0. serverUrl \in Urls /\ IInv
    BY ServerUrlType DEF AInv, IInv
  <1>1. CASE PollTimer
    BY <1>0, <1>1, SameIInv, StartPollKeeps DEF PollTimer
  <1>2. CASE Lifecycle
    <2>1. paused' \in BOOLEAN
      BY <1>2 DEF Lifecycle, SetPaused
    <2>2. UNCHANGED <<up, flips, pool, active, version, ep, saving, edits, orphan, served>>
      BY <1>2 DEF Lifecycle, SetPaused
    <2>3. IInv'
      BY <1>0, <2>1, <2>2 DEF IInv, TypeOK, PriorityKept, CleanClosed
    <2>4. CASE Idle /\ StartPoll
      BY <2>2, <2>3, <2>4, StartPollKeeps
    <2>5. CASE UNCHANGED appVars
      <3>1. UNCHANGED <<reqs, status, shown, devices, cmds>>
        BY <2>5 DEF appVars
      <3>2. Sound(reqs', serverUrl)
        BY <3>1, MoreSound
      <3> QED
        BY <2>2, <2>3, <3>1, <3>2, SameCfg DEF AInv, AppTypes
    <2> QED
      BY <1>2, <2>4, <2>5 DEF Lifecycle
  <1>3. CASE RefreshDeviceList
    <2>1. UNCHANGED <<pool, active, version, ep, status, shown, devices, cmds>> /\ UNCHANGED cfgVars
      BY <1>3 DEF RefreshDeviceList
    <2>2. Sound(reqs', serverUrl)
      BY <1>3, MoreSound DEF RefreshDeviceList
    <2> QED
      BY <1>0, <2>1, <2>2, SameIInv, SameCfg DEF AInv, AppTypes
  <1>4. CASE Command
    <2>1. UNCHANGED <<pool, active, version, ep, reqs, status, shown, devices>> /\ UNCHANGED cfgVars
      BY <1>4 DEF Command
    <2>2. Sound(reqs', serverUrl) /\ cmds' \subseteq Urls
      BY <1>0, <1>4, <2>1, MoreSound DEF Command, AInv, AppTypes
    <2> QED
      BY <1>0, <2>1, <2>2, SameIInv, SameCfg DEF AInv, AppTypes
  <1> QED
    BY <1>1, <1>2, <1>3, <1>4

LEMMA PollReplyKeeps ==
  ASSUME AInv, NEW q \in reqs, NEW o, NEW plc, PollReply(q, o, plc)
  PROVE  AInv'
  <1> DEFINE rs == reqs \ {q}
             p == IF Rebuilt THEN "old" ELSE q.poll
             load == [kind |-> "devices", poll |-> p, url |-> serverUrl', fresh |-> TRUE]
  <1>1. q \in Requests /\ q.fresh /\ q.url = serverUrl /\ q.url \in Urls
    BY DEF PollReply, AInv, AppTypes, FreshOwn, Requests
  <1>2. CfgStep
    BY <1>1, ReportCfg DEF PollReply, AInv
  <1>3. /\ IInv' /\ Sound(ReqsAfter(rs), serverUrl')
        /\ ShownAfter \in {serverUrl', None} /\ DevicesAfter \in {serverUrl', None}
        /\ serverUrl' # serverUrl => Rebuilt
    BY <1>2, ListenerSound
  <1>4. serverUrl' \in Urls
    BY <1>3, PoolAssumption DEF IInv, TypeOK, serverUrl
  <1>5. Sound(ReqsAfter(rs) \cup {load}, serverUrl')
    <2>1. p \in {"cur", "old"}
      BY <1>1 DEF Requests
    <2>2. ASSUME p = "cur" PROVE \A r \in ReqsAfter(rs) : r.poll # "cur"
      BY <2>2, <1>1 DEF ReqsAfter, AInv, OneCur
    <2> HIDE DEF p
    <2> QED
      BY <1>3, <1>4, <2>1, <2>2, LoadSound
  <1>6. reqs' = ReqsAfter(rs) \/ reqs' = ReqsAfter(rs) \cup {load}
    BY DEF PollReply
  <1>7. o = "ok" => q.url = serverUrl'
    <2>1. ASSUME o = "ok" PROVE ~Rebuilt
      <3>1. InPool(serverUrl)
        BY DEF InPool, serverUrl, AInv, IInv, TypeOK
      <3>2. ReportOutcome(serverUrl, o = "ok")
        BY <1>1, <2>1, <3>1 DEF PollReply, Report
      <3>3. ReportOutcome(serverUrl, TRUE)
        BY <2>1, <3>2
      <3> QED
        BY <3>3, SuccessStays DEF AInv
    <2> QED
      BY <1>1, <1>3, <2>1
  <1>8. shown' \in {serverUrl', None} /\ devices' \in {serverUrl', None}
    BY <1>3, <1>7 DEF PollReply
  <1>9. status' \in Statuses /\ cmds' \subseteq Urls
    BY DEF PollReply, Classify, Statuses, AInv, AppTypes
  <1> HIDE DEF load, rs
  <1> QED
    BY <1>3, <1>5, <1>6, <1>8, <1>9, Assemble

LEMMA DevicesReplyKeeps ==
  ASSUME AInv, NEW q \in reqs, NEW o, DevicesReply(q, o)
  PROVE  AInv'
  <1> DEFINE rs == reqs \ {q}
  <1>1. CASE q.fresh
    <2>1. q.url = serverUrl /\ q.url \in Urls /\ Report(q.url, o)
      BY <1>1 DEF DevicesReply, AInv, AppTypes, FreshOwn, Requests
    <2>2. CfgStep
      BY <2>1, ReportCfg DEF AInv
    <2>3. /\ IInv' /\ Sound(ReqsAfter(rs), serverUrl') /\ StatusAfter \in Statuses
          /\ ShownAfter \in {serverUrl', None} /\ DevicesAfter \in {serverUrl', None}
          /\ serverUrl' # serverUrl => Rebuilt
      BY <2>2, ListenerSound
    <2>4. o = "ok" => q.url = serverUrl'
      <3>1. ASSUME o = "ok" PROVE ~Rebuilt
        <4>1. InPool(serverUrl)
          BY DEF InPool, serverUrl, AInv, IInv, TypeOK
        <4>2. ReportOutcome(serverUrl, o = "ok")
          BY <2>1, <3>1, <4>1 DEF Report
        <4>3. ReportOutcome(serverUrl, TRUE)
          BY <3>1, <4>2
        <4> QED
          BY <4>3, SuccessStays DEF AInv
      <3> QED
        BY <2>1, <2>3, <3>1
    <2>5. /\ reqs' = ReqsAfter(rs) /\ status' = StatusAfter /\ shown' = ShownAfter
          /\ devices' = IF o = "ok" THEN q.url ELSE DevicesAfter
      BY <1>1 DEF DevicesReply
    <2>6. devices' \in {serverUrl', None} /\ cmds' \subseteq Urls
      BY <2>3, <2>4, <2>5 DEF DevicesReply, AInv, AppTypes
    <2> QED
      BY <2>3, <2>5, <2>6, Assemble
  <1>2. CASE ~q.fresh
    <2>1. UNCHANGED cfgVars /\ UNCHANGED <<status, shown, devices, cmds>> /\ reqs' = rs
      BY <1>2 DEF DevicesReply
    <2>2. Sound(reqs', serverUrl)
      BY <2>1, MoreSound
    <2> QED
      BY <2>1, <2>2, SameIInv, SameCfg DEF AInv, AppTypes, cfgVars, poolVars
  <1> QED
    BY <1>1, <1>2

LEMMA InitAInv == AppInit => AInv
  <1> SUFFICES ASSUME AppInit PROVE AInv
    OBVIOUS
  <1>1. IInv
    BY InitIInv DEF AppInit
  <1>2. serverUrl \in Urls
    BY <1>1, ServerUrlType DEF IInv
  <1>3. reqs = {StateRequest(serverUrl)} /\ StateRequest(serverUrl) \in Requests
        /\ StateRequest(serverUrl).fresh /\ StateRequest(serverUrl).url = serverUrl
    BY <1>2 DEF AppInit, StateRequest, Requests
  <1> QED
    BY <1>1, <1>3 DEF AppInit, AInv, AppTypes, FreshOwn, CurFresh, OneCur, OwnServerOnly, Statuses

LEMMA StepAInv == AInv /\ [AppNext]_allVars => AInv'
  <1> SUFFICES ASSUME AInv, [AppNext]_allVars PROVE AInv'
    OBVIOUS
  <1>1. ASSUME NEW q \in reqs, Reply(q) PROVE AInv'
    <2>1. CASE PollStale(q)
      <3>1. UNCHANGED cfgVars /\ UNCHANGED <<status, shown, devices, cmds>> /\ reqs' = reqs \ {q}
        BY <2>1 DEF PollStale
      <3>2. Sound(reqs', serverUrl)
        BY <3>1, MoreSound
      <3> QED
        BY <3>1, <3>2, SameIInv, SameCfg DEF AInv, AppTypes, cfgVars, poolVars
    <2> QED
      BY <1>1, <2>1, PollReplyKeeps, DevicesReplyKeeps DEF Reply
  <1>2. ASSUME NEW u \in cmds, NEW o \in Outcomes(u), CommandReply(u, o) PROVE AInv'
    <2>1. u \in Urls /\ IInv /\ cmds' \subseteq Urls
      BY <1>2 DEF AInv, AppTypes, CommandReply
    <2>2. CfgStep
      BY <1>2, <2>1, ReportCfg DEF CommandReply
    <2> QED
      BY <1>2, <2>1, <2>2, ListeningKeeps DEF CommandReply
  <1>3. CASE UNCHANGED allVars
    BY <1>3, SameIInv
    DEF AInv, AppTypes, FreshOwn, CurFresh, OneCur, OwnServerOnly, allVars, appVars,
        cfgVars, poolVars, serverUrl
  <1> QED
    BY <1>1, <1>2, <1>3, ConfigKeeps, QuietRequestsKeep DEF AppNext

LEMMA AppInvariance == AppSpec => []AInv
  BY InitAInv, StepAInv, PTL DEF AppSpec

\* Whatever the pool, the failovers, the probes, the edits and the late
\* answers, the values and the device list on screen are the active server's.
THEOREM OwnServer == AppSpec => []OwnServerOnly
  <1>1. AInv => OwnServerOnly
    BY DEF AInv
  <1> QED
    BY <1>1, AppInvariance, PTL

\* Whoever joins the poll in flight waits for the current server's answer.
THEOREM Coalesces == AppSpec => []CoalesceFresh
  <1>1. AInv => CoalesceFresh
    BY DEF AInv, CurFresh, FreshOwn, OneCur, CoalesceFresh
  <1> QED
    BY <1>1, AppInvariance, PTL

\* Composed with AppState, RuntimeConfig still keeps the priority order.
THEOREM AppPriority == AppSpec => []PriorityKept
  <1>1. AInv => PriorityKept
    BY DEF AInv, IInv
  <1> QED
    BY <1>1, AppInvariance, PTL

\* The app's state keeps its type, the pool's included.
THEOREM AppTypeCorrect == AppSpec => []AppTypeOK
  <1>1. AInv => AppTypeOK
    BY DEF AInv, IInv, AppTypes, AppTypeOK
  <1> QED
    BY <1>1, AppInvariance, PTL

--------------------------------------------------------------------------------
(* What the composition does to RuntimeConfig. *)

\* Every step of the app is one of RuntimeConfig or leaves it alone.
LEMMA AppCfg ==
  ASSUME AInv, [AppNext]_allVars
  PROVE  CfgStep \/ UNCHANGED poolVars
  <1> USE DEF cfgVars, poolVars
  <1>0. IInv
    BY DEF AInv
  <1>1. CASE ConfigStep
    BY <1>0, <1>1, ConfigCfg
  <1>2. CASE PollTimer \/ Lifecycle \/ RefreshDeviceList \/ Command
    BY <1>2 DEF PollTimer, Lifecycle, SetPaused, RefreshDeviceList, Command
  <1>3. ASSUME NEW q \in reqs, Reply(q) PROVE CfgStep \/ UNCHANGED poolVars
    <2>1. q.url \in Urls
      BY DEF AInv, AppTypes, Requests
    <2>2. CASE PollStale(q)
      BY <2>2 DEF PollStale
    <2>3. ASSUME NEW o, DevicesReply(q, o) PROVE CfgStep \/ UNCHANGED poolVars
      <3>1. CASE Report(q.url, o)
        BY <1>0, <2>1, <3>1, ReportCfg
      <3>2. CASE UNCHANGED cfgVars
        BY <3>2
      <3> QED
        BY <2>3, <3>1, <3>2 DEF DevicesReply
    <2>4. ASSUME NEW o, NEW plc, PollReply(q, o, plc) PROVE CfgStep
      BY <1>0, <2>1, <2>4, ReportCfg DEF PollReply
    <2> QED
      BY <1>3, <2>2, <2>3, <2>4 DEF Reply
  <1>4. ASSUME NEW u \in cmds, NEW o \in Outcomes(u), CommandReply(u, o) PROVE CfgStep
    BY <1>0, <1>4, ReportCfg DEF CommandReply, AInv, AppTypes
  <1>5. CASE UNCHANGED allVars
    BY <1>5 DEF allVars
  <1> QED
    BY <1>1, <1>2, <1>3, <1>4, <1>5 DEF AppNext

\* Driven by the app's real traffic (polls, device lists and commands answered
\* late, in any order, after any number of rebuilds) failover is still sticky.
THEOREM AppSticky == AppSpec => Sticky
  <1> DEFINE A == active' # active /\ pool' = pool /\ edits' = edits /\ saving' = saving =>
                    \/ ep[serverUrl].fails + 1 >= FailuresToOpen /\ ep'[serverUrl].ok = 0
                    \/ active' < active /\ ep'[pool[active']].ok = ReclaimAfter
  <1>1. ASSUME AInv, [AppNext]_allVars PROVE [A]_cfgVars
    <2>1. CASE QuietStep
      BY <2>1 DEF QuietStep, poolVars
    <2>2. CASE RecordStep
      BY <2>2 DEF RecordStep, Recorded, Earned
    <2>3. CASE \E p \in Pools : EndpointsSaved(p)
      BY <2>3 DEF EndpointsSaved
    <2>4. CASE UNCHANGED poolVars
      BY <2>4 DEF poolVars
    <2> QED
      BY <1>1, <2>1, <2>2, <2>3, <2>4, AppCfg DEF CfgStep
  <1>2. AppSpec => [][A]_cfgVars
    BY <1>1, AppInvariance, PTL DEF AppSpec
  <1> QED
    BY <1>2 DEF Sticky

\* A request in flight compares one version number to learn that its server is
\* no longer the current one: no step of the app, whatever reply it handles,
\* changes the server without a new version.
THEOREM AppVersioned == AppSpec => ChangeIsVersioned
  <1> DEFINE A == serverUrl' # serverUrl => version' = NextVersion
  <1>1. ASSUME AInv, [AppNext]_allVars PROVE [A]_cfgVars
    <2>1. CASE QuietStep
      BY <2>1 DEF QuietStep, poolVars, serverUrl
    <2>2. CASE RecordStep
      BY <2>2 DEF RecordStep, Recorded, Versioned, serverUrl
    <2>3. CASE \E p \in Pools : EndpointsSaved(p)
      BY <2>3 DEF EndpointsSaved
    <2>4. CASE UNCHANGED poolVars
      BY <2>4 DEF poolVars, serverUrl
    <2> QED
      BY <1>1, <2>1, <2>2, <2>3, <2>4, AppCfg DEF CfgStep
  <1>2. AppSpec => [][A]_cfgVars
    BY <1>1, AppInvariance, PTL DEF AppSpec
  <1> QED
    BY <1>2 DEF ChangeIsVersioned

--------------------------------------------------------------------------------
(* The back-off. *)

\* What BackoffHonoured asks of a step that leaves the requests rs.
Gated(rs) == \A q \in rs \ reqs : q = StateRequest(q.url) => ~activeEndpointCoolingDown'

\* The listener's own poll is gated; what it supersedes is no poll any more.
LEMMA ListenerGated ==
  ASSUME AInv, NEW rs \in SUBSET reqs
  PROVE  Gated(ReqsAfter(rs))
  <1> SUFFICES ASSUME NEW q \in ReqsAfter(rs), q \notin reqs, q = StateRequest(q.url)
               PROVE  ~activeEndpointCoolingDown'
    BY DEF Gated
  <1>1. Rebuilt
    BY DEF ReqsAfter
  <1>2. q \notin Superseded(rs)
    <2> SUFFICES ASSUME q \in Superseded(rs) PROVE FALSE
      OBVIOUS
    <2>1. PICK r \in rs : q = [r EXCEPT !.fresh = FALSE, !.poll = "old"]
      BY DEF Superseded
    <2>2. r \in Requests
      BY DEF AInv, AppTypes
    <2>3. q.fresh = FALSE
      BY <2>1, <2>2 DEF Requests
    <2>4. q.fresh = TRUE
      BY DEF StateRequest
    <2> QED
      BY <2>3, <2>4
  <1> QED
    BY <1>1, <1>2 DEF ReqsAfter

LEMMA PollGated ==
  ASSUME StartPoll, UNCHANGED poolVars
  PROVE  Gated(reqs')
  <1>1. activeEndpointCoolingDown' = activeEndpointCoolingDown
    BY DEF poolVars, activeEndpointCoolingDown, isCircuitOpen, serverUrl
  <1> QED
    BY <1>1 DEF StartPoll, Gated

\* A device list is not a poll, and a request that ends starts none.
LEMMA NoPollGated ==
  ASSUME NEW rs, NEW p, NEW u, Gated(rs)
  PROVE  Gated(rs \cup {[kind |-> "devices", poll |-> p, url |-> u, fresh |-> TRUE]})
  <1> DEFINE d == [kind |-> "devices", poll |-> p, url |-> u, fresh |-> TRUE]
  <1>1. d # StateRequest(d.url)
    <2>1. d.kind = "devices" /\ StateRequest(d.url).kind = "state"
      BY DEF StateRequest
    <2> QED
      BY <2>1
  <1> HIDE DEF d
  <1>2. Gated(rs \cup {d})
    BY <1>1 DEF Gated
  <1> QED
    BY <1>2 DEF d

LEMMA StepGated ==
  ASSUME AInv, [AppNext]_allVars
  PROVE  Gated(reqs')
  <1>0. \A rs \in SUBSET reqs : Gated(rs)
    BY DEF Gated
  <1>1. CASE ConfigStep
    BY <1>1, ConfigListens, ListenerGated
  <1>2. CASE PollTimer \/ Lifecycle
    <2>1. UNCHANGED poolVars /\ (StartPoll \/ UNCHANGED reqs)
      BY <1>2 DEF PollTimer, Lifecycle, SetPaused, cfgVars, appVars
    <2> QED
      BY <1>0, <2>1, PollGated
  <1>3. CASE RefreshDeviceList
    BY <1>0, <1>3, NoPollGated DEF RefreshDeviceList
  <1>4. CASE Command
    BY <1>0, <1>4 DEF Command
  <1>5. ASSUME NEW q \in reqs, Reply(q) PROVE Gated(reqs')
    <2>1. CASE PollStale(q)
      BY <1>0, <2>1 DEF PollStale
    <2>2. ASSUME NEW o, DevicesReply(q, o) PROVE Gated(reqs')
      <3>1. reqs' = ReqsAfter(reqs \ {q}) \/ reqs' = reqs \ {q}
        BY <2>2 DEF DevicesReply
      <3> QED
        BY <1>0, <3>1, ListenerGated
    <2>3. ASSUME NEW o, NEW plc, PollReply(q, o, plc) PROVE Gated(reqs')
      <3> DEFINE p == IF Rebuilt THEN "old" ELSE q.poll
                 load == [kind |-> "devices", poll |-> p, url |-> serverUrl', fresh |-> TRUE]
      <3>1. Gated(ReqsAfter(reqs \ {q}))
        BY ListenerGated
      <3>2. Gated(ReqsAfter(reqs \ {q}) \cup {load})
        BY <3>1, NoPollGated
      <3>3. reqs' = ReqsAfter(reqs \ {q}) \/ reqs' = ReqsAfter(reqs \ {q}) \cup {load}
        BY <2>3 DEF PollReply
      <3> HIDE DEF load
      <3> QED
        BY <3>1, <3>2, <3>3
    <2> QED
      BY <1>5, <2>1, <2>2, <2>3 DEF Reply
  <1>6. ASSUME NEW u \in cmds, NEW o \in Outcomes(u), CommandReply(u, o) PROVE Gated(reqs')
    BY <1>6, ListenerGated DEF CommandReply
  <1>7. CASE UNCHANGED allVars
    BY <1>0, <1>7 DEF allVars, appVars
  <1> QED
    BY <1>1, <1>2, <1>3, <1>4, <1>5, <1>6, <1>7 DEF AppNext

\* No poll is sent to an endpoint inside its back-off window, be it started by
\* the timer, by the app's return to the front, or by the listener in the
\* middle of a reply that has just moved the app to another endpoint.
THEOREM BackoffKept == AppSpec => BackoffHonoured
  <1> DEFINE A == \A q \in reqs' \ reqs : q = StateRequest(q.url) => ~activeEndpointCoolingDown'
  <1>1. ASSUME AInv, [AppNext]_allVars PROVE [A]_allVars
    BY <1>1, StepGated DEF Gated
  <1>2. AppSpec => [][A]_allVars
    BY <1>1, AppInvariance, PTL DEF AppSpec
  <1> QED
    BY <1>2 DEF BackoffHonoured

--------------------------------------------------------------------------------
(* The safety half of ConnectingEnds. *)

\* The app says "connecting" only while a poll of the server it now uses is in
\* flight, and so an answer or a timeout on its way: no rebuild, dropped answer
\* or return to the front leaves it waiting for nothing.
ConnectingIsPolled == status = "connecting" => StateRequest(serverUrl) \in reqs

\* The listener asks the new server itself, or shows that it may not.
LEMMA ListenerPolls ==
  ASSUME AInv, ConnectingIsPolled, serverUrl' # serverUrl => Rebuilt, NEW rs \in SUBSET reqs,
         ~Rebuilt => (StateRequest(serverUrl) \in reqs => StateRequest(serverUrl) \in rs),
         StatusAfter = "connecting"
  PROVE  StateRequest(serverUrl') \in ReqsAfter(rs)
  <1>1. CASE Rebuilt
    BY <1>1 DEF StatusAfter, ReqsAfter
  <1>2. CASE ~Rebuilt
    BY <1>2 DEF StatusAfter, ReqsAfter, ConnectingIsPolled
  <1> QED
    BY <1>1, <1>2

LEMMA PolledStep ==
  ASSUME AInv, ConnectingIsPolled, [AppNext]_allVars
  PROVE  ConnectingIsPolled'
  <1> USE DEF cfgVars, poolVars
  <1>0. IInv
    BY DEF AInv
  <1>1. ASSUME UNCHANGED poolVars PROVE serverUrl' = serverUrl
    BY <1>1 DEF serverUrl
  <1>2. CASE ConfigStep
    <2>1. serverUrl' # serverUrl => Rebuilt
      BY <1>0, <1>2, ConfigCfg, CfgFacts
    <2>2. reqs \in SUBSET reqs
      OBVIOUS
    <2>3. StatusAfter = "connecting" => StateRequest(serverUrl') \in ReqsAfter(reqs)
      BY <2>1, <2>2, ListenerPolls
    <2> QED
      BY <1>2, <2>3, ConfigListens DEF ConnectingIsPolled
  <1>3. CASE PollTimer \/ Lifecycle
    <2>1. UNCHANGED poolVars /\ (StartPoll \/ UNCHANGED <<reqs, status>>)
      BY <1>3 DEF PollTimer, Lifecycle, SetPaused, appVars
    <2>2. serverUrl' = serverUrl
      BY <1>1, <2>1
    <2> QED
      BY <2>1, <2>2 DEF StartPoll, ConnectingIsPolled
  <1>4. CASE RefreshDeviceList \/ Command
    <2>1. UNCHANGED poolVars /\ reqs \subseteq reqs' /\ UNCHANGED status
      BY <1>4 DEF RefreshDeviceList, Command
    <2> QED
      BY <1>1, <2>1 DEF ConnectingIsPolled
  <1>5. ASSUME NEW q \in reqs, Reply(q) PROVE ConnectingIsPolled'
    <2>1. CASE PollStale(q)
      <3>1. UNCHANGED poolVars /\ reqs' = reqs \ {q} /\ UNCHANGED status /\ ~q.fresh
        BY <2>1 DEF PollStale
      <3>2. q # StateRequest(serverUrl)
        BY <3>1 DEF StateRequest
      <3> QED
        BY <1>1, <3>1, <3>2 DEF ConnectingIsPolled
    <2>2. ASSUME NEW o, DevicesReply(q, o) PROVE ConnectingIsPolled'
      <3>1. q # StateRequest(serverUrl)
        BY <2>2 DEF DevicesReply, StateRequest
      <3>2. CASE q.fresh
        <4>1. Report(q.url, o) /\ reqs' = ReqsAfter(reqs \ {q}) /\ status' = StatusAfter
          BY <2>2, <3>2 DEF DevicesReply
        <4>2. serverUrl' # serverUrl => Rebuilt
          BY <1>0, <4>1, ReportCfg, CfgFacts DEF AInv, AppTypes, Requests
        <4> QED
          BY <3>1, <4>1, <4>2, ListenerPolls DEF ConnectingIsPolled
      <3>3. CASE ~q.fresh
        <4>1. UNCHANGED poolVars /\ reqs' = reqs \ {q} /\ UNCHANGED status
          BY <2>2, <3>3 DEF DevicesReply
        <4> QED
          BY <1>1, <3>1, <4>1 DEF ConnectingIsPolled
      <3> QED
        BY <3>2, <3>3
    <2>3. ASSUME NEW o, NEW plc, PollReply(q, o, plc) PROVE ConnectingIsPolled'
      BY <2>3 DEF PollReply, Classify, ConnectingIsPolled
    <2> QED
      BY <1>5, <2>1, <2>2, <2>3 DEF Reply
  <1>6. ASSUME NEW u \in cmds, NEW o \in Outcomes(u), CommandReply(u, o)
        PROVE  ConnectingIsPolled'
    <2>1. Report(u, o) /\ reqs' = ReqsAfter(reqs) /\ status' = StatusAfter
      BY <1>6 DEF CommandReply
    <2>2. serverUrl' # serverUrl => Rebuilt
      BY <1>0, <2>1, ReportCfg, CfgFacts DEF AInv, AppTypes
    <2>3. reqs \in SUBSET reqs
      OBVIOUS
    <2> QED
      BY <2>1, <2>2, <2>3, ListenerPolls DEF ConnectingIsPolled
  <1>7. CASE UNCHANGED allVars
    <2>1. UNCHANGED poolVars /\ UNCHANGED <<reqs, status>>
      BY <1>7 DEF allVars, appVars
    <2> QED
      BY <1>1, <2>1 DEF ConnectingIsPolled
  <1> QED
    BY <1>2, <1>3, <1>4, <1>5, <1>6, <1>7 DEF AppNext

\* Whatever fails over, is edited, superseded or dropped, "connecting" always
\* stands for a poll in flight.
THEOREM ConnectingHasPoll == AppSpec => []ConnectingIsPolled
  <1>1. AppInit => ConnectingIsPolled
    BY DEF AppInit, ConnectingIsPolled
  <1> QED
    BY <1>1, AppInvariance, PolledStep, PTL DEF AppSpec

================================================================================
