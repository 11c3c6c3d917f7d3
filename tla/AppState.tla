------------------------------- MODULE AppState --------------------------------
(***************************************************************************)
(* flutter_application_plc/lib/state/app_state.dart on top of              *)
(* RuntimeConfig: the poller, the device-list fetch, commands as sources   *)
(* of outcomes, and the listener that rebuilds everything when the server  *)
(* changes.                                                                *)
(*                                                                         *)
(* RuntimeConfig notifies synchronously, so a rebuild happens inside the   *)
(* reportOutcome() call of whichever reply caused the failover, and the    *)
(* rest of that reply's handler runs on the rebuilt state. A request       *)
(* remembers only whether the version it captured is still the current     *)
(* one.                                                                    *)
(***************************************************************************)
EXTENDS RuntimeConfig

CONSTANT None   \* Dart's null

ASSUME AppAssumption == None \notin Urls

VARIABLES
  reqs,     \* GET requests in flight
  status,   \* _connectivityStatus: connecting, ok (_connected), or what is wrong
  shown,    \* the server _state came from; None = SystemState.empty
  devices,  \* the server whose device list is shown; None = not _initializedDevices
  cmds      \* the servers with a command in flight

appVars == <<reqs, status, shown, devices, cmds>>
allVars == <<cfgVars, appVars>>

\* `poll` tells the request of the current _inFlightPoll from one of a dropped
\* poll or of none (refreshDeviceList).
Requests ==
  [kind : {"state", "devices"}, poll : {"cur", "old"}, url : Urls, fresh : BOOLEAN]

Statuses == {"connecting", "ok", "bad"}

StateRequest(u) == [kind |-> "state", poll |-> "cur", url |-> u, fresh |-> TRUE]

AppInit ==
  /\ Init /\ up = Urls
  /\ reqs = {StateRequest(serverUrl)}
  /\ status = "connecting" /\ shown = None /\ devices = None
  /\ cmds = {}

--------------------------------------------------------------------------------
(* The listener. *)

\* Mutant: the poll that is in flight stays the one callers are given.
SupersededKept(rs) == {[q EXCEPT !.fresh = FALSE] : q \in rs}

\* The requests as a rebuild leaves them: still running, their version
\* outdated, and none of them the current poll.
Superseded(rs) ==
  {[q EXCEPT !.fresh = FALSE, !.poll = "old"] : q \in rs}

Rebuilt == version' # version

\* Mutant: the listener leaves the next poll to the timer.
ReqsAfterNoPoll(rs) == IF Rebuilt THEN Superseded(rs) ELSE rs

\* The requests after the listener: _onConfigChanged ends with a _poll() of
\* the new server, which sends nothing while its circuit is open.
ReqsAfter(rs) ==
  IF Rebuilt
  THEN Superseded(rs) \cup (IF activeEndpointCoolingDown' THEN {} ELSE {StateRequest(serverUrl')})
  ELSE rs

\* _rebuildForConfig's resets, each to be read as "the value after the listener".
StatusAfter ==
  IF ~Rebuilt THEN status
  ELSE IF activeEndpointCoolingDown' THEN "bad" ELSE "connecting"

ShownAfter   == IF Rebuilt THEN None ELSE shown
DevicesAfter == IF Rebuilt THEN None ELSE devices

\* A step of RuntimeConfig and what its listener makes of it.
Listening(A) ==
  /\ A
  /\ reqs' = ReqsAfter(reqs) /\ status' = StatusAfter /\ shown' = ShownAfter
  /\ devices' = DevicesAfter
  /\ UNCHANGED cmds

\* Time passes; requests here take any time, so a tick waits for nothing.
Elapse ==
  /\ ep' = Older
  /\ UNCHANGED <<envVars, pool, active, version, editVars, served>>

ConfigStep ==
  \/ \E u \in Urls : Listening(Flip(u) \/ ProbeOne(u))
  \/ Listening(Elapse \/ ProbeBackups \/ ProbeOrphan)
  \/ \E p \in Pools : Listening(SetEndpoints(p) \/ EndpointsSaved(p))

\* reportOutcome, by a handler: "ok", "fail" (no answer, a 5xx, nonsense) or
\* "client" (401, 403, 429, ...).
Report(u, o) ==
  /\ \/ o # "client" /\ ReportOutcome(u, o = "ok")
     \/ /\ o = "client" \/ ~InPool(u)
        /\ UNCHANGED <<active, version, ep>>
  /\ UNCHANGED <<envVars, pool, editVars, served>>

\* An endpoint that is down cannot answer; one that is up may still time out.
Outcomes(u) == IF u \in up THEN {"ok", "fail", "client"} ELSE {"fail"}

--------------------------------------------------------------------------------
(* Polling. *)

Idle == ~\E q \in reqs : q.poll = "cur"

\* Mutant: no gate on the circuit.
StartPollUngated ==
  /\ reqs' = reqs \cup {StateRequest(serverUrl)} /\ UNCHANGED status
  /\ UNCHANGED <<shown, devices, cmds>>

\* _poll() while no poll is in flight, up to its first await.
StartPoll ==
  /\ IF activeEndpointCoolingDown
     THEN status' = "bad" /\ UNCHANGED reqs
     ELSE reqs' = reqs \cup {StateRequest(serverUrl)} /\ UNCHANGED status
  /\ UNCHANGED <<shown, devices, cmds>>

\* The periodic timer, or refresh().
PollTimer == ~paused /\ Idle /\ StartPoll /\ UNCHANGED cfgVars

\* didChangeAppLifecycleState; resuming polls at once.
Lifecycle ==
  /\ SetPaused
  /\ IF paused /\ Idle THEN StartPoll ELSE UNCHANGED appVars

\* _classifyConnectivity: "ok" needs the server and, behind it, the PLC.
Classify(o, plc) == IF o = "ok" /\ plc THEN "ok" ELSE "bad"

\* _doPoll after getState(): a result of an outdated version is dropped.
PollStale(q) ==
  /\ q.kind = "state" /\ ~q.fresh
  /\ reqs' = reqs \ {q}
  /\ UNCHANGED <<cfgVars, status, shown, devices, cmds>>

\* Otherwise the outcome is reported first, then applied, and the device list
\* fetched (from the server active by then) if there is none yet.
PollReply(q, o, plc) ==
  /\ q.kind = "state" /\ q.fresh
  /\ Report(q.url, o)
  /\ status' = Classify(o, plc)
  /\ LET load == IF o = "ok" /\ DevicesAfter = None
                 THEN {[kind |-> "devices", poll |-> IF Rebuilt THEN "old" ELSE q.poll,
                        url |-> serverUrl', fresh |-> TRUE]}
                 ELSE {}
     IN  /\ reqs' = ReqsAfter(reqs \ {q}) \cup load
         /\ shown' = IF o = "ok" THEN q.url ELSE ShownAfter
  /\ devices' = DevicesAfter
  /\ UNCHANGED cmds

\* refreshDeviceList()
RefreshDeviceList ==
  /\ \A q \in reqs : q = StateRequest(serverUrl)    \* bound
  /\ reqs' = reqs \cup {[kind |-> "devices", poll |-> "old", url |-> serverUrl, fresh |-> TRUE]}
  /\ UNCHANGED <<cfgVars, status, shown, devices, cmds>>

\* Mutant: the device list is stored whatever server it came from.
DevicesReplyUnchecked(q, o) ==
  /\ q.kind = "devices"
  /\ Report(q.url, o)
  /\ reqs' = ReqsAfter(reqs \ {q}) /\ status' = StatusAfter /\ shown' = ShownAfter
  /\ devices' = IF o = "ok" THEN q.url ELSE DevicesAfter
  /\ UNCHANGED cmds

\* _loadDevices after getDevices().
DevicesReply(q, o) ==
  /\ q.kind = "devices"
  /\ \/ /\ q.fresh
        /\ Report(q.url, o)
        /\ reqs' = ReqsAfter(reqs \ {q}) /\ status' = StatusAfter /\ shown' = ShownAfter
        /\ devices' = IF o = "ok" THEN q.url ELSE DevicesAfter
     \/ /\ ~q.fresh
        /\ reqs' = reqs \ {q}
        /\ UNCHANGED <<cfgVars, status, shown, devices>>
  /\ UNCHANGED cmds

--------------------------------------------------------------------------------
(* Commands: setDaliBrightness, setRelay, setCurtain, setAppliance, ...    *)
(* They go to the server active when they are sent, whatever its circuit.  *)

Command ==
  /\ cmds = {}    \* bound
  /\ cmds' = cmds \cup {serverUrl}
  /\ UNCHANGED <<cfgVars, reqs, status, shown, devices>>

\* Its outcome is reported whatever happened to the pool since.
CommandReply(u, o) ==
  /\ cmds' = cmds \ {u}
  /\ Report(u, o)
  /\ reqs' = ReqsAfter(reqs) /\ status' = StatusAfter /\ shown' = ShownAfter
  /\ devices' = DevicesAfter

--------------------------------------------------------------------------------
Reply(q) ==
  \/ PollStale(q)
  \/ \E o \in Outcomes(q.url) :
       DevicesReply(q, o) \/ \E plc \in BOOLEAN : PollReply(q, o, plc)

AppNext ==
  \/ ConfigStep \/ PollTimer \/ Lifecycle \/ RefreshDeviceList \/ Command
  \/ \E q \in reqs : Reply(q)
  \/ \E u \in cmds : \E o \in Outcomes(u) : CommandReply(u, o)

\* A poll ends in an answer or a timeout (ApiService._pollTimeout).
AppFairness == WF_allVars(\E q \in reqs : q.poll = "cur" /\ Reply(q))

AppSpec == AppInit /\ [][AppNext]_allVars

AppFairSpec == AppSpec /\ AppFairness

--------------------------------------------------------------------------------
(* Properties. *)

\* The type of the app's state, the pool's included.
AppTypeOK ==
  /\ TypeOK
  /\ reqs \subseteq Requests /\ cmds \subseteq Urls
  /\ status \in Statuses
  /\ shown \in Urls \cup {None} /\ devices \in Urls \cup {None}

\* "a slow response from the OLD server could silently overwrite state the NEW
\* server already reported" (app_state.dart:371): what the app shows, values
\* and device list, always comes from the server it is now using. The guard is
\* read before reportOutcome(), so this also needs that reporting a success of
\* the active endpoint never causes a failover.
OwnServerOnly == shown \in {serverUrl, None} /\ devices \in {serverUrl, None}

\* Callers that join the poll in flight get an answer of the current server,
\* never of one that was left while they waited, and there is one such poll.
CoalesceFresh ==
  /\ \A q \in reqs : q.poll = "cur" => q.fresh /\ q.url = serverUrl
  /\ \A q, r \in reqs : q.poll = "cur" /\ r.poll = "cur" => q = r

\* A poll is never sent to an endpoint whose circuit is open: the back-off is
\* honoured by real traffic (runtime_config.dart:131).
BackoffHonoured ==
  [][\A q \in reqs' \ reqs : q = StateRequest(q.url) => ~activeEndpointCoolingDown']_allVars

\* The app never hangs in "connecting": however often the server changes
\* under it, and in the background too, an answer for the current server or
\* the lack of one is shown in the end.
ConnectingEnds == status = "connecting" ~> status # "connecting"
================================================================================
