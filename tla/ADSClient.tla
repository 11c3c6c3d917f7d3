------------------------------- MODULE ADSClient -------------------------------
(***************************************************************************)
(* The connection life cycle of find_device/plc/ads_client.py: one         *)
(* ADSClient shared by request threads, the thread that made the first     *)
(* connect() (DeviceRegistry._start) and the background reconnect threads. *)
(*                                                                         *)
(* `_lock` is held by a request across its whole ADS call; connect() does  *)
(* its network I/O without it and takes it only to publish the result, so  *)
(* a connection attempt is several steps here and a request is two. The    *)
(* NotificationManager calls add_device_notification and                   *)
(* del_device_notification on the connection itself, without that lock.    *)
(***************************************************************************)
EXTENDS Naturals

CONSTANTS
  Reqs,            \* request threads (API requests, fades, automations, tasks)
  RThreads,        \* identities of reconnect threads
  Starter,         \* the thread inside DeviceRegistry._start
  Vars,            \* PLC variables whose handles are cached
  NoThread,        \* Python's None
  HasCredentials,  \* PLC_ROUTE_USERNAME and the other three are configured
  PowLimit,        \* largest exponent math.pow(2, .) accepts (1023 in CPython)
  MaxFaults        \* bound: outages, reboots and route losses of one behaviour

ASSUME ThreadAssumption ==
  /\ NoThread \notin Reqs \cup RThreads
  /\ Starter \notin RThreads

ASSUME BoundAssumption ==
  /\ HasCredentials \in BOOLEAN
  /\ PowLimit \in Nat
  /\ MaxFaults \in Nat

VARIABLES
  plc,        \* the target: "up", "noroute" (AMS route lost) or "down"
  faults,     \* how often it changed for the worse
  conn,       \* self._conn: "none" or "open"
  connected,  \* self._connected
  handles,    \* self._handle_cache: which session each cached handle belongs to
  lock,       \* the request holding self._lock across an ADS call
  op,         \* what that request does
  notifying,  \* a notification is being added or deleted, under NotificationManager._lock
  rthread,    \* self._reconnect_thread
  pc,         \* where each connecting thread is; "dead" = not is_alive()
  attempt,    \* `attempt` of _reconnect_loop
  exc,        \* self._last_connect_exc
  cooling,    \* less than _ROUTE_REPAIR_COOLDOWN since _last_route_repair_attempt
  lost        \* history: the last session ended in a failed read or write

envVars  == <<plc, faults>>
sessVars == <<conn, connected, handles, lost>>
reqVars  == <<lock, op, notifying>>
thrVars  == <<rthread, pc, attempt, exc, cooling>>
vars     == <<envVars, sessVars, reqVars, thrVars>>

Connectors == RThreads \cup {Starter}

\* Inside connect(), or inside the disconnect() that _reconnect_loop calls first.
Connecting == {"close", "open", "publish", "repair", "addroute", "reopen", "republish", "fail"}

PCs == Connecting \cup {"dead", "loop", "exit"}

\* read/write/read_batch/write_batch/read_by_handle/write_by_handle lose the
\* connection on error; the queries of device info, state and symbols do not,
\* nor does get_handle(), which on success caches what it fetches.
Ops ==
  [kind : {"io", "query"}, fetch : {{}}] \cup [kind : {"handle"}, fetch : {{v} : v \in Vars}]

Excs == {"none", "ads6", "ads7", "raw"}

Init ==
  /\ plc \in {"up", "noroute", "down"}
  /\ faults = 0
  /\ conn = "none" /\ connected = FALSE
  /\ handles = [v \in Vars |-> "none"]
  /\ lock = NoThread /\ op = [kind |-> "io", fetch |-> {}]
  /\ notifying = FALSE
  /\ rthread = NoThread
  /\ pc = [t \in Connectors |-> IF t = Starter THEN "open" ELSE "dead"]
  /\ attempt = [t \in RThreads |-> 0]
  /\ exc = "none"
  /\ cooling \in BOOLEAN      \* the stamp starts at 0.0 on a clock that starts at boot
  /\ lost = FALSE

--------------------------------------------------------------------------------
(* The target. *)

PlcFault ==
  /\ faults < MaxFaults
  /\ faults' = faults + 1
  /\ \/ plc # "down" /\ plc' = "down"
     \/ plc = "up" /\ plc' = "noroute"
  /\ UNCHANGED <<sessVars, reqVars, thrVars>>

\* Back from an outage, with its route table or without it.
PlcReturns ==
  /\ plc = "down"
  /\ plc' \in {"up", "noroute"}
  /\ UNCHANGED <<faults, sessVars, reqVars, thrVars>>

--------------------------------------------------------------------------------
(* Requests. *)

\* Mutant: the thread object exists, so it is taken to be running.
AliveByReference == rthread # NoThread

\* self._reconnect_thread and self._reconnect_thread.is_alive()
ReconnectAlive == rthread # NoThread /\ pc[rthread] # "dead"

\* _launch_reconnect_thread
Launch ==
  \/ ReconnectAlive /\ UNCHANGED <<rthread, pc, attempt>>
  \/ /\ ~ReconnectAlive
     /\ \E t \in RThreads :
          /\ pc[t] = "dead"
          /\ rthread' = t
          /\ pc' = [pc EXCEPT ![t] = "loop"]
          /\ attempt' = [attempt EXCEPT ![t] = 0]

\* Mutant: the registry is handed out while its first connect() runs.
UsableEarly == TRUE

\* for_apartment() hands the registry out only after _start() has returned.
Usable == pc[Starter] = "dead"

\* A call while not connected: _ensure_connected() launches the reconnect
\* thread and the call fails at once.
NotConnected(r) ==
  /\ Usable /\ lock = NoThread /\ ~connected
  /\ Launch
  /\ UNCHANGED <<envVars, sessVars, reqVars, exc, cooling>>

\* Mutant: a call uses the connection without _ensure_connected().
BeginUnchecked(r, k) ==
  /\ Usable /\ lock = NoThread
  /\ \A v \in k.fetch : handles[v] = "none"
  /\ lock' = r /\ op' = k
  /\ UNCHANGED <<envVars, sessVars, notifying, thrVars>>

\* A call while connected takes self._lock and starts its ADS command.
\* get_handle() does so only for a variable that is not cached.
Begin(r, k) ==
  /\ Usable /\ lock = NoThread /\ connected
  /\ \A v \in k.fetch : handles[v] = "none"
  /\ lock' = r /\ op' = k
  /\ UNCHANGED <<envVars, sessVars, notifying, thrVars>>

\* The command succeeds, or fails in a way that says nothing about the link:
\* a symbol error (1808, 1809), or any error of a query or of get_handle().
Served(r) ==
  /\ lock = r
  /\ lock' = NoThread
  /\ op.kind = "io" => plc = "up"
  /\ \/ UNCHANGED handles
     \/ /\ plc = "up"
        /\ handles' = [v \in Vars |-> IF v \in op.fetch THEN "live" ELSE handles[v]]
  /\ UNCHANGED <<envVars, conn, connected, lost, op, notifying, thrVars>>

\* A read or write fails for another reason, possibly a timeout of a healthy
\* target: _mark_disconnected_and_reconnect, still under self._lock.
Failed(r) ==
  /\ lock = r /\ op.kind = "io"
  /\ lock' = NoThread
  /\ connected' = FALSE /\ lost' = TRUE
  /\ Launch
  /\ UNCHANGED <<envVars, conn, handles, op, notifying, exc, cooling>>

--------------------------------------------------------------------------------
(* NotificationManager._register_ads_notification and _cancel_ads_notification. *)

\* add_device_notification or del_device_notification on client._conn, with
\* neither self._lock nor _ensure_connected(). Without a connection the call
\* is an AttributeError, which the callers catch.
NoteBegin ==
  /\ Usable /\ conn = "open" /\ ~notifying
  /\ notifying' = TRUE
  /\ UNCHANGED <<envVars, sessVars, lock, op, thrVars>>

\* The call returns or raises; an error of it is only logged.
NoteEnd ==
  /\ notifying
  /\ notifying' = FALSE
  /\ UNCHANGED <<envVars, sessVars, lock, op, thrVars>>

--------------------------------------------------------------------------------
(* _reconnect_loop. *)

Goto(t, l) == pc' = [pc EXCEPT ![t] = l]

\* math.pow(2, attempt) raises OverflowError, which nothing catches.
BackoffOverflow(t) ==
  /\ pc[t] = "loop" /\ attempt[t] > PowLimit
  /\ Goto(t, "dead")
  /\ UNCHANGED <<envVars, sessVars, reqVars, rthread, attempt, exc, cooling>>

\* Mutant: the overflow is swallowed and the attempts go on being counted.
WakeForever(t) ==
  /\ pc[t] = "loop"
  /\ Goto(t, IF connected THEN "exit" ELSE "close")
  /\ UNCHANGED <<envVars, sessVars, reqVars, rthread, attempt, exc, cooling>>

\* The back-off wait is over; `if self._connected: break`, without the lock.
Wake(t) ==
  /\ pc[t] = "loop" /\ attempt[t] <= PowLimit
  /\ Goto(t, IF connected THEN "exit" ELSE "close")
  /\ UNCHANGED <<envVars, sessVars, reqVars, rthread, attempt, exc, cooling>>

\* Mutant: handles outlive the session they were obtained in.
CloseKeepingHandles(t) ==
  /\ pc[t] = "close" /\ lock = NoThread
  /\ conn' = "none" /\ connected' = FALSE
  /\ Goto(t, "open")
  /\ UNCHANGED <<envVars, handles, lost, reqVars, rthread, attempt, exc, cooling>>

\* Mutant: only the flag is cleared, the old connection stays open.
CloseFlagOnly(t) ==
  /\ pc[t] = "close" /\ lock = NoThread
  /\ connected' = FALSE
  /\ handles' = [v \in Vars |-> "none"]
  /\ Goto(t, "open")
  /\ UNCHANGED <<envVars, conn, lost, reqVars, rthread, attempt, exc, cooling>>

\* disconnect(): release_all_handles() and close, under self._lock.
Close(t) ==
  /\ pc[t] = "close" /\ lock = NoThread
  /\ conn' = "none" /\ connected' = FALSE
  /\ handles' = [v \in Vars |-> "none"]
  /\ Goto(t, "open")
  /\ UNCHANGED <<envVars, lost, reqVars, rthread, attempt, exc, cooling>>

\* The thread function has returned; now is_alive() is false.
Exit(t) ==
  /\ pc[t] = "exit"
  /\ Goto(t, "dead")
  /\ UNCHANGED <<envVars, sessVars, reqVars, rthread, attempt, exc, cooling>>

--------------------------------------------------------------------------------
(* connect(), by the starter or by a reconnect thread. *)

\* What a thread does once connect() has returned.
Returned(t) == IF t = Starter THEN "dead" ELSE "exit"

\* open() and read_state() of _open_and_verify, without the lock. A missing
\* route is ADS error 7, an unreachable target error 6 or a raw socket error.
Open(t) ==
  /\ pc[t] \in {"open", "reopen"}
  /\ \/ connected /\ pc[t] = "open" /\ Goto(t, Returned(t)) /\ UNCHANGED exc
     \/ /\ ~connected \/ pc[t] = "reopen"
        /\ \/ plc = "up" /\ UNCHANGED exc
              /\ Goto(t, IF pc[t] = "open" THEN "publish" ELSE "republish")
           \/ plc = "noroute" /\ exc' = "ads7"
              /\ Goto(t, IF pc[t] = "open" THEN "repair" ELSE "fail")
           \/ plc = "down" /\ exc' \in {"ads6", "raw"}
              /\ Goto(t, IF pc[t] = "open" THEN "repair" ELSE "fail")
  /\ UNCHANGED <<envVars, sessVars, reqVars, rthread, attempt, cooling>>

\* The locked tail of _open_and_verify. Handles still cached would belong to
\* the session it replaces.
Publish(t) ==
  /\ pc[t] \in {"publish", "republish"} /\ lock = NoThread
  /\ conn' = "open" /\ connected' = TRUE /\ lost' = FALSE
  /\ handles' = [v \in Vars |-> IF handles[v] = "none" THEN "none" ELSE "stale"]
  /\ exc' = "none"
  /\ Goto(t, Returned(t))
  /\ UNCHANGED <<envVars, reqVars, rthread, attempt, cooling>>

\* _should_attempt_route_repair
ShouldAttemptRouteRepair == exc \in {"ads7", "raw"}

\* The checks of _try_auto_route_repair. The cooldown is stamped before the
\* credentials are looked at.
Repair(t) ==
  /\ pc[t] = "repair"
  /\ \/ /\ ShouldAttemptRouteRepair /\ ~cooling
        /\ cooling' = TRUE
        /\ Goto(t, IF HasCredentials THEN "addroute" ELSE "fail")
     \/ /\ ~ShouldAttemptRouteRepair \/ cooling
        /\ Goto(t, "fail") /\ UNCHANGED cooling
  /\ UNCHANGED <<envVars, sessVars, reqVars, rthread, attempt, exc>>

\* pyads.add_route_to_plc: a reachable target gets the route.
AddRoute(t) ==
  /\ pc[t] = "addroute"
  /\ \/ plc = "down" /\ UNCHANGED plc /\ Goto(t, "fail")
     \/ plc # "down" /\ plc' = "up" /\ Goto(t, "reopen")
  /\ UNCHANGED <<faults, sessVars, reqVars, rthread, attempt, exc, cooling>>

\* The locked tail of a failed connect(), then `attempt += 1`.
ConnectFailed(t) ==
  /\ pc[t] = "fail" /\ lock = NoThread
  /\ conn' = "none" /\ connected' = FALSE
  /\ \/ t = Starter /\ Goto(t, "dead") /\ UNCHANGED attempt
     \/ /\ t # Starter /\ Goto(t, "loop")
        /\ attempt' = [attempt EXCEPT ![t] = @ + 1]
  /\ UNCHANGED <<envVars, handles, lost, reqVars, rthread, exc, cooling>>

CooldownOver ==
  /\ cooling /\ cooling' = FALSE
  /\ UNCHANGED <<envVars, sessVars, reqVars, rthread, pc, attempt, exc>>

--------------------------------------------------------------------------------
ReqStep(r) ==
  \/ NotConnected(r)
  \/ \E k \in Ops : Begin(r, k)
  \/ Served(r)
  \/ Failed(r)

LoopStep(t) == BackoffOverflow(t) \/ Wake(t) \/ Close(t) \/ Exit(t)

ConnectStep(t) == Open(t) \/ Publish(t) \/ Repair(t) \/ AddRoute(t) \/ ConnectFailed(t)

Next ==
  \/ PlcFault \/ PlcReturns \/ CooldownOver
  \/ NoteBegin \/ NoteEnd
  \/ \E r \in Reqs : ReqStep(r)
  \/ \E t \in RThreads : LoopStep(t)
  \/ \E t \in Connectors : ConnectStep(t)

\* Threads keep running, time passes, and somebody keeps calling.
Fairness ==
  /\ WF_vars(CooldownOver)
  /\ \A t \in RThreads : WF_vars(LoopStep(t))
  /\ \A t \in Connectors : WF_vars(ConnectStep(t))
  /\ \A r \in Reqs : WF_vars(ReqStep(r))

Spec == Init /\ [][Next]_vars

FairSpec == Spec /\ Fairness

--------------------------------------------------------------------------------
(* Properties. *)

\* The type of the state.
TypeOK ==
  /\ plc \in {"up", "noroute", "down"}
  /\ faults \in 0..MaxFaults
  /\ conn \in {"none", "open"}
  /\ connected \in BOOLEAN
  /\ handles \in [Vars -> {"none", "live", "stale"}]
  /\ lock \in Reqs \cup {NoThread}
  /\ op \in Ops
  /\ notifying \in BOOLEAN
  /\ rthread \in RThreads \cup {NoThread}
  /\ pc \in [Connectors -> PCs]
  /\ attempt \in [RThreads -> 0..(PowLimit + 1)]
  /\ exc \in Excs
  /\ cooling \in BOOLEAN
  /\ lost \in BOOLEAN

\* connect() and the disconnect() before it run without a lock, and nothing
\* but the is_alive() test of _launch_reconnect_thread and the order of
\* _start() keeps two threads from being inside them at once.
OneConnector ==
  \A s, t \in Connectors : pc[s] \in Connecting /\ pc[t] \in Connecting => s = t

\* No request's ADS command has its connection closed or replaced under it. An
\* add or delete of a notification, which takes no lock, may: but only when a
\* read or write on that session has failed before (the disconnect() of the
\* reconnect thread), never while the session works.
InFlightUndisturbed ==
  [][/\ lock # NoThread /\ lock' = lock => connected' /\ conn' = "open"
     /\ notifying /\ conn' # conn => lost /\ ~connected]_vars

\* A cached symbol handle always belongs to the session that is open.
NoStaleHandle == \A v \in Vars : handles[v] # "stale"

Session == INSTANCE LinkSession WITH
  session <- IF connected THEN "good" ELSE IF conn = "open" THEN "failed" ELSE "none"

\* The client's connection obeys LinkSession: a working connection is dropped
\* only by a failed read or write, and is closed before the next is opened.
SessionSpec == Session!Spec

\* Given callers, a reachable target and (for a lost route) credentials, the
\* client is connected again and again, whatever the interleaving: also after
\* a launch that found the old thread about to exit, an overflow of the
\* back-off, or a cooldown spent on an outage.
Recovers == HasCredentials => []<>(connected \/ plc = "down")

\* "on any read/write failure the connection is marked as lost and an
\* exponential-backoff background thread attempts reconnection automatically"
\* (ads_client.py:7): after a failed read or write some reconnect thread is
\* alive until the connection is back.
ReconnectsAfterFailure == lost => \E t \in RThreads : pc[t] # "dead"
================================================================================
