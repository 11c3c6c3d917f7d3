--------------------------- MODULE DeviceRegistry ---------------------------
(***************************************************************************)
(* One apartment's DeviceRegistry in the web process: the device           *)
(* dictionaries loaded from ApartmentDevice rows, the automation rules and *)
(* the NotificationManager through which a rule hears of its trigger.      *)
(*                                                                         *)
(* Three threads meet here.  The worker serves requests one after another  *)
(* (variable web), each request writing the database first and the running *)
(* registry afterwards.  The dispatch thread (variable exec) takes queued  *)
(* notifications and runs the rules they match, reading the dictionaries   *)
(* without the registry's lock.  The PLC notifies and the reconnect thread *)
(* changes the link under both.                                            *)
(*                                                                         *)
(* Abstractions: the dictionaries are one function, in which the devices   *)
(* of Templated are the entries of _templated and the others those of the  *)
(* ten dictionaries by type; a name and its room are a label; an action's  *)
(* value is left out (DaliChannel models the writes); the callbacks of a   *)
(* variable are run in any order.                                          *)
(***************************************************************************)
EXTENDS Naturals, Sequences

CONSTANTS
    Devices,      \* every device a row can describe
    Triggers,     \* the switches and sensors rules listen to
    Outputs,      \* the devices rules act on
    Templated,    \* the devices of rows with an address_scheme: promoted ones
    Bad,          \* devices whose constructor raises: index or template refused
    LabelsOf,     \* the names and rooms a device's row may have
    Rules,        \* primary keys of AutomationRule rows
    None,
    MaxQueue      \* bound: undelivered notifications

ASSUME DevicesAssumption == Triggers \cup Outputs \cup Templated \cup Bad \subseteq Devices
ASSUME LabelsAssumption == \A d \in Devices : None \notin LabelsOf[d]
ASSUME NoneAssumption == None \notin Devices /\ None \notin Rules
ASSUME QueueAssumption == MaxQueue \in Nat

Labels == UNION {LabelsOf[d] : d \in Devices}
AutomationRule ==
    [trigger : Triggers, expected : BOOLEAN, action : Outputs, enabled : BOOLEAN]
Callback == [rule : Rules, var : Triggers, expected : BOOLEAN]
NoRule == [trigger |-> None, expected |-> FALSE, action |-> None, enabled |-> FALSE]
NoCallback == [rule |-> None, var |-> None, expected |-> FALSE]
Requests == {"poll", "add", "refresh", "reload", "remove"}
Idle == [pc |-> "idle", op |-> "poll", arg |-> None, todo |-> {}]
Resting == [todo |-> {}, rule |-> None, act |-> None]

VARIABLES
    row,          \* ApartmentDevice rows: label or None
    rule,         \* AutomationRule rows
    started,      \* the registry is in _apt_instances
    devices,      \* the device dictionaries: label of the loaded object
    subs,         \* _automation_subs: the callback of each rule
    callbacks,    \* NotificationManager._subscriptions
    handle,       \* _handles: "none", "live" or "stale" (of a lost session)
    leaked,       \* variables the controller notifies on a handle that was given up
    queue,        \* _queue of notifications
    exec,         \* the dispatch thread
    web,          \* the request thread
    link          \* the ADS connection is up

dbVars == <<row, rule>>
regVars == <<started, devices, subs>>
notifyVars == <<callbacks, handle, leaked>>
vars == <<dbVars, regVars, notifyVars, queue, exec, web, link>>

Nothing == [d \in Devices |-> None]

Init ==
    /\ row = Nothing
    /\ rule = [r \in Rules |-> NoRule]
    /\ started = FALSE
    /\ devices = Nothing
    /\ subs = [r \in Rules |-> NoCallback]
    /\ callbacks = [v \in Triggers |-> {}]
    /\ handle = [v \in Triggers |-> "none"]
    /\ leaked = {}
    /\ queue = <<>>
    /\ exec = Resting
    /\ web = Idle
    /\ link = FALSE

(* The constructor accepts the row's index, or the scheme its template. *)
Constructs(d) == d \notin Bad
HasBadRow == \E d \in Devices : row[d] # None /\ ~Constructs(d)

(* for_apartment: a registry that runs is used as it is. *)
Begin(op, arg) ==
    web' = [pc |-> IF started THEN op ELSE "open", op |-> op, arg |-> arg, todo |-> {}]
-----------------------------------------------------------------------------
(* The requests: what each writes to the database before it opens the     *)
(* registry.                                                               *)

(* The row is created or relabelled, then the device hot-added. *)
SaveAndAdd(d, label) ==
    /\ web.pc = "idle"
    /\ row' = [row EXCEPT ![d] = label]
    /\ Begin("add", d)
    /\ UNCHANGED <<rule, regVars, notifyVars, queue, exec, link>>

(* A channel out of range is refused; an index is not looked at.  Neither  *)
(* gives the row a scheme.                                                 *)
assign_output_channel(d, label) ==
    d \in Outputs \ Templated /\ Constructs(d) /\ SaveAndAdd(d, label)
assign_input(d, label) == d \notin Outputs \cup Templated /\ SaveAndAdd(d, label)

(* Always creates a row with an address scheme. *)

promote_capability(d, label) ==
    /\ web.pc = "idle"
    /\ d \in Templated
    /\ row[d] = None
    /\ row' = [row EXCEPT ![d] = label]
    /\ Begin("refresh", None)
    /\ UNCHANGED <<rule, regVars, notifyVars, queue, exec, link>>

(* A room is renamed or deleted: what its devices' rows say of it changes, *)
(* here one device at a time.                                              *)
apartment_room_detail(d, label) ==
    /\ row[d] # None
    /\ row' = [row EXCEPT ![d] = label]

(* The same for a device that is moved or renamed; either request ends     *)
(* here and the running registry keeps the old label.                      *)
apartment_device_detail(d, label) ==
    /\ web.pc = "idle"
    /\ apartment_room_detail(d, label)
    /\ UNCHANGED <<rule, regVars, notifyVars, queue, exec, web, link>>

_create_rule(r, t, expected, o) ==
    /\ web.pc = "idle"
    /\ rule[r] = NoRule
    /\ row[t] # None /\ row[o] # None
    /\ rule' = [rule EXCEPT ![r] = [trigger |-> t, expected |-> expected,
                                    action |-> o, enabled |-> TRUE]]
    /\ Begin("reload", r)
    /\ UNCHANGED <<row, regVars, notifyVars, queue, exec, link>>

\* Mutant: a missing rule is not answered with a 404.
PatchAnyRule(r, enabled, expected) ==
    /\ web.pc = "idle"
    /\ rule' = [rule EXCEPT ![r].enabled = enabled, ![r].expected = expected]
    /\ Begin(IF enabled THEN "reload" ELSE "remove", r)
    /\ UNCHANGED <<row, regVars, notifyVars, queue, exec, link>>

(* PATCH and DELETE of a rule. *)
PatchRule(r, enabled, expected) ==
    /\ web.pc = "idle"
    /\ rule[r] # NoRule
    /\ rule' = [rule EXCEPT ![r].enabled = enabled, ![r].expected = expected]
    /\ Begin(IF enabled THEN "reload" ELSE "remove", r)
    /\ UNCHANGED <<row, regVars, notifyVars, queue, exec, link>>

DeleteRule(r) ==
    /\ web.pc = "idle"
    /\ rule[r] # NoRule
    /\ rule' = [rule EXCEPT ![r] = NoRule]
    /\ Begin("remove", r)
    /\ UNCHANGED <<row, regVars, notifyVars, queue, exec, link>>

(* Any other request of the apartment: it starts the registry if need be. *)
_registry_or_error ==
    /\ web.pc = "idle"
    /\ ~started
    /\ Begin("poll", None)
    /\ UNCHANGED <<dbVars, regVars, notifyVars, queue, exec, link>>
-----------------------------------------------------------------------------
\* Mutant: the instance is published before its rows are read.
PublishFirst(up) ==
    /\ web.pc = "open"
    /\ link' = up
    /\ started' = TRUE
    /\ web' = Idle
    /\ UNCHANGED <<dbVars, devices, subs, notifyVars, queue, exec>>

(* _start: connect, load every row, then subscribe the enabled rules.  A   *)
(* row that raises fails the request and leaves no instance.               *)
_start(up) ==
    /\ web.pc = "open"
    /\ link' = up
    /\ IF HasBadRow
       THEN web' = Idle /\ UNCHANGED <<started, devices>>
       ELSE /\ devices' = row
            /\ started' = TRUE
            /\ web' = [web EXCEPT !.pc = "automate", !.todo = {r \in Rules : rule[r].enabled}]
    /\ UNCHANGED <<dbVars, subs, notifyVars, queue, exec>>

(* A variable nobody listens to any more is cancelled on the controller:   *)
(* its handle is popped first, and when the delete then fails, which is    *)
(* logged, the controller goes on notifying it until the session ends.     *)
_cancel_ads_notification(v, left, ok) ==
    IF left = {}
    THEN /\ handle' = [handle EXCEPT ![v] = "none"]
         /\ leaked' = IF handle[v] = "live" /\ ~ok THEN leaked \cup {v} ELSE leaked
    ELSE UNCHANGED <<handle, leaked>>

(* NotificationManager.unsubscribe by way of remove_automation. *)
Unsubscribe(r, ok) ==
    LET c == subs[r] IN
    IF c = NoCallback
    THEN UNCHANGED <<subs, notifyVars>>
    ELSE /\ subs' = [subs EXCEPT ![r] = NoCallback]
         /\ callbacks' = [callbacks EXCEPT ![c.var] = @ \ {c}]
         /\ _cancel_ads_notification(c.var, callbacks[c.var] \ {c}, ok)

(* dali(), relay(), ... and _trigger_object look a device up by its type:  *)
(* the dictionaries that hold no device with a scheme.                     *)
ByType(d) == IF d \in Templated THEN None ELSE devices[d]
_trigger_object(r) == ByType(rule[r].trigger)

(* Whether subscribe() may succeed: a variable with a handle, even one of  *)
(* a lost session, is not registered again.                                *)
CanSubscribe(r, ok) ==
    /\ rule[r].enabled
    /\ _trigger_object(r) # None
    /\ handle[rule[r].trigger] # "none" \/ (ok /\ link)

\* Mutant: a failed registration leaves its callback behind.
SubscribeKeepsCallback(r, ok) ==
    LET t == rule[r].trigger
        c == [rule |-> r, var |-> t, expected |-> rule[r].expected]
    IN  IF rule[r].enabled /\ _trigger_object(r) # None
        THEN /\ UNCHANGED leaked
             /\ callbacks' = [callbacks EXCEPT ![t] = @ \cup {c}]
             /\ IF CanSubscribe(r, ok)
                THEN /\ subs' = [subs EXCEPT ![r] = c]
                     /\ handle' = [handle EXCEPT ![t] = IF @ = "none" THEN "live" ELSE @]
                ELSE UNCHANGED <<subs, handle>>
        ELSE UNCHANGED <<subs, notifyVars>>

(* _subscribe_automation; a failure is logged and the rule stays deaf. *)
Subscribe(r, ok) ==
    LET t == rule[r].trigger
        c == [rule |-> r, var |-> t, expected |-> rule[r].expected]
    IN  IF CanSubscribe(r, ok)
        THEN /\ subs' = [subs EXCEPT ![r] = c]
             /\ callbacks' = [callbacks EXCEPT ![t] = @ \cup {c}]
             /\ handle' = [handle EXCEPT ![t] = IF @ = "none" THEN "live" ELSE @]
             /\ UNCHANGED leaked
        ELSE UNCHANGED <<subs, notifyVars>>

_load_automations(r, ok) ==
    /\ web.pc = "automate"
    /\ r \in web.todo
    /\ Subscribe(r, ok)
    /\ web' = [web EXCEPT !.todo = @ \ {r}]
    /\ UNCHANGED <<dbVars, started, devices, queue, exec, link>>

Loaded ==
    /\ web.pc = "automate" /\ web.todo = {}
    /\ web' = IF web.op = "poll" THEN Idle ELSE [web EXCEPT !.pc = web.op]
    /\ UNCHANGED <<dbVars, regVars, notifyVars, queue, exec, link>>

\* Mutant: the row is written but the running registry is not told.
AddNothing ==
    /\ web.pc = "add"
    /\ web' = Idle
    /\ UNCHANGED <<dbVars, regVars, notifyVars, queue, exec, link>>

(* add_dali, add_relay, add_switch and so on: an index that raises is      *)
(* logged and the row kept.                                                *)
AddDevice ==
    /\ web.pc = "add"
    /\ devices' = IF Constructs(web.arg) THEN [devices EXCEPT ![web.arg] = row[web.arg]]
                  ELSE devices
    /\ web' = Idle
    /\ UNCHANGED <<dbVars, started, subs, notifyVars, queue, exec, link>>

(* refresh_devices empties the dictionaries in place ... *)
ClearDevices ==
    /\ web.pc = "refresh"
    /\ devices' = Nothing
    /\ web' = [web EXCEPT !.pc = "load", !.todo = {d \in Devices : row[d] # None}]
    /\ UNCHANGED <<dbVars, started, subs, notifyVars, queue, exec, link>>

\* Mutant: the load stops one row early.
LoadAllButOne(d) ==
    /\ web.pc = "load" /\ d \in web.todo
    /\ devices' = IF Constructs(d) /\ web.todo # {d} THEN [devices EXCEPT ![d] = row[d]]
                  ELSE devices
    /\ web' = IF ~Constructs(d) \/ web.todo = {d} THEN Idle
              ELSE [web EXCEPT !.todo = @ \ {d}]
    /\ UNCHANGED <<dbVars, started, subs, notifyVars, queue, exec, link>>

(* ... and loads the rows one by one; the first that raises ends it. *)
_load_devices_from_db(d) ==
    /\ web.pc = "load" /\ d \in web.todo
    /\ devices' = IF Constructs(d) THEN [devices EXCEPT ![d] = row[d]] ELSE devices
    /\ web' = IF ~Constructs(d) \/ web.todo = {d} THEN Idle
              ELSE [web EXCEPT !.todo = @ \ {d}]
    /\ UNCHANGED <<dbVars, started, subs, notifyVars, queue, exec, link>>

\* Mutant: reload_automation does not remove the old callback first.
RemoveOnDeleteOnly(ok) ==
    /\ web.pc \in {"reload", "remove"}
    /\ IF web.pc = "remove" THEN Unsubscribe(web.arg, ok) ELSE UNCHANGED <<subs, notifyVars>>
    /\ web' = IF web.pc = "remove" THEN Idle ELSE [web EXCEPT !.pc = "subscribe"]
    /\ UNCHANGED <<dbVars, started, devices, queue, exec, link>>

remove_automation(ok) ==
    /\ web.pc \in {"reload", "remove"}
    /\ Unsubscribe(web.arg, ok)
    /\ web' = IF web.pc = "remove" THEN Idle ELSE [web EXCEPT !.pc = "subscribe"]
    /\ UNCHANGED <<dbVars, started, devices, queue, exec, link>>

reload_automation(ok) ==
    /\ web.pc = "subscribe"
    /\ Subscribe(web.arg, ok)
    /\ web' = Idle
    /\ UNCHANGED <<dbVars, started, devices, queue, exec, link>>
-----------------------------------------------------------------------------
(* The dispatch thread copies the callbacks of a notification; one that    *)
(* waits for the other state returns at once ...                           *)
Take ==
    /\ exec = Resting
    /\ queue # <<>>
    /\ exec' = [Resting EXCEPT
          !.todo = {c \in callbacks[Head(queue).var] : c.expected = Head(queue).value}]
    /\ queue' = Tail(queue)
    /\ UNCHANGED <<dbVars, regVars, notifyVars, web, link>>

(* ... calls each one, which reads its rule again ... *)
CallBack(c) ==
    /\ exec.act = None
    /\ c \in exec.todo
    /\ exec' = IF rule[c.rule].enabled
               THEN [todo |-> exec.todo \ {c}, rule |-> c.rule, act |-> rule[c.rule].action]
               ELSE [exec EXCEPT !.todo = @ \ {c}]
    /\ UNCHANGED <<dbVars, regVars, notifyVars, queue, web, link>>

\* Mutant: a failing action ends the loop over the callbacks.
ActOrGiveUp ==
    /\ exec.act # None
    /\ exec' = IF ByType(exec.act) = None \/ ~link THEN Resting
               ELSE [exec EXCEPT !.act = None, !.rule = None]
    /\ UNCHANGED <<dbVars, regVars, notifyVars, queue, web, link>>

(* ... and writes the action's device, if the dictionary of its type has   *)
(* it: otherwise the rule is logged as fired all the same.  A write that   *)
(* fails is logged.                                                        *)
_execute_automation ==
    /\ exec.act # None
    /\ exec' = [exec EXCEPT !.act = None, !.rule = None]
    /\ UNCHANGED <<dbVars, regVars, notifyVars, queue, web, link>>
-----------------------------------------------------------------------------
(* An input changes and the controller notifies a registered callback,     *)
(* which queues the value; a change nobody is registered for leaves no     *)
(* trace, and one registered twice queues it twice.                        *)
Notify(v, value) ==
    /\ handle[v] = "live" \/ v \in leaked
    /\ Len(queue) < MaxQueue
    /\ queue' = Append(queue, [var |-> v, value |-> value])
    /\ UNCHANGED <<dbVars, regVars, notifyVars, exec, web, link>>

(* The session ends and takes its notification handles with it. *)
LinkDrops ==
    /\ link
    /\ link' = FALSE
    /\ handle' = [v \in Triggers |-> IF handle[v] = "live" THEN "stale" ELSE handle[v]]
    /\ leaked' = {}
    /\ UNCHANGED <<dbVars, regVars, callbacks, queue, exec, web>>

(* The reconnect thread succeeds; restore_subscriptions is not called. *)
LinkReturns ==
    /\ started /\ ~link
    /\ link' = TRUE
    /\ UNCHANGED <<dbVars, regVars, notifyVars, queue, exec, web>>

(* The worker is recycled or killed, in the middle of a request perhaps. *)
Restart ==
    /\ started' = FALSE
    /\ devices' = Nothing
    /\ subs' = [r \in Rules |-> NoCallback]
    /\ callbacks' = [v \in Triggers |-> {}]
    /\ handle' = [v \in Triggers |-> "none"]
    /\ leaked' = {}
    /\ queue' = <<>>
    /\ exec' = Resting
    /\ web' = Idle
    /\ link' = FALSE
    /\ UNCHANGED dbVars
-----------------------------------------------------------------------------
Request ==
    \/ \E d \in Devices : \E label \in LabelsOf[d] :
          \/ assign_output_channel(d, label) \/ assign_input(d, label)
          \/ promote_capability(d, label)
          \/ apartment_device_detail(d, label)
    \/ \E r \in Rules, t \in Triggers, expected \in BOOLEAN, o \in Outputs :
          _create_rule(r, t, expected, o)
    \/ \E r \in Rules, enabled, expected \in BOOLEAN : PatchRule(r, enabled, expected)
    \/ \E r \in Rules : DeleteRule(r)
    \/ _registry_or_error

Serve ==
    \/ Loaded \/ AddDevice \/ ClearDevices
    \/ \E up \in BOOLEAN : _start(up)
    \/ \E r \in Rules, ok \in BOOLEAN : _load_automations(r, ok)
    \/ \E ok \in BOOLEAN : remove_automation(ok) \/ reload_automation(ok)
    \/ \E d \in Devices : _load_devices_from_db(d)

_dispatch_loop == Take \/ _execute_automation \/ \E c \in Callback : CallBack(c)

Environment ==
    \/ \E v \in Triggers, value \in BOOLEAN : Notify(v, value)
    \/ LinkDrops \/ LinkReturns \/ Restart

Next == Request \/ Serve \/ _dispatch_loop \/ Environment

Fairness == WF_vars(Serve) /\ WF_vars(_dispatch_loop)

Spec == Init /\ [][Next]_vars /\ Fairness
-----------------------------------------------------------------------------
(* The tables of the registry and of the notification manager hold what    *)
(* their declarations say.                                                 *)
RegistryTypeOK ==
    /\ row \in [Devices -> Labels \cup {None}]
    /\ rule \in [Rules -> AutomationRule \cup {NoRule}]
    /\ started \in BOOLEAN
    /\ devices \in [Devices -> Labels \cup {None}]
    /\ subs \in [Rules -> Callback \cup {NoCallback}]
    /\ callbacks \in [Triggers -> SUBSET Callback]
    /\ handle \in [Triggers -> {"none", "live", "stale"}]
    /\ leaked \subseteq Triggers
    /\ queue \in Seq([var : Triggers, value : BOOLEAN])
    /\ exec \in [todo : SUBSET Callback, rule : Rules \cup {None}, act : Outputs \cup {None}]
    /\ web \in [pc : {"idle", "open", "automate", "load", "subscribe"} \cup (Requests \ {"poll"}),
                op : Requests, arg : Devices \cup Rules \cup {None},
                todo : SUBSET (Devices \cup Rules)]
    /\ link \in BOOLEAN

(* Between requests every callback the manager holds is the one callback   *)
(* of an enabled rule, for the rule's trigger and its current state: no    *)
(* edit, reload, failed registration or restart leaves an old one behind.  *)
SubscriptionsMatchRules ==
    web.pc = "idle" =>
        /\ \A v \in Triggers : \A c \in callbacks[v] : c.var = v /\ subs[c.rule] = c
        /\ \A r \in Rules : subs[r] # NoCallback =>
              /\ subs[r] \in callbacks[subs[r].var]
              /\ rule[r].enabled
              /\ subs[r] = [rule |-> r, var |-> rule[r].trigger, expected |-> rule[r].expected]

(* The manager has a handle for a variable exactly while somebody listens  *)
(* to it, through failed registrations, failed deletes and lost sessions,  *)
(* and what the controller notifies belongs to the session the client has: *)
(* a handle that outlives its session is known to be stale, and a          *)
(* notification left behind by a failed delete ends with the session.      *)
(* That a listener is heard is not claimed: see ListenersAreRestored.      *)
HandlesFollowCallbacks ==
    /\ \A v \in Triggers : handle[v] = "none" <=> callbacks[v] = {}
    /\ \A v \in Triggers : handle[v] = "live" \/ v \in leaked => link

(* Between requests a registry that started knows every device row, as     *)
(* long as no row of the apartment is one that raises.                     *)
EveryRowIsLoaded ==
    web.pc = "idle" /\ started /\ ~HasBadRow =>
        \A d \in Devices : devices[d] = None <=> row[d] = None

(* An automation that fires finds its device, except in the window in      *)
(* which refresh_devices has emptied the dictionaries it reads (a reader   *)
(* there sees neither the old entry nor the new one, whatever its          *)
(* docstring says), after a row that raises has cut a refresh short, and   *)
(* always when the device's row has an address scheme: such a device can   *)
(* be chosen for a rule by its type but is in no dictionary by type.       *)
MissOnlyMidRefresh ==
    exec.act # None /\ ByType(exec.act) = None
      => web.pc = "load" \/ HasBadRow \/ exec.act \in Templated

(* After a reconnect every variable somebody listens to is registered      *)
(* again, as restore_subscriptions promises: it does not stay without a    *)
(* live handle while the link is up and its listeners are there.  Nothing  *)
(* calls restore_subscriptions, so the code breaks this.                   *)
ListenersAreRestored ==
    \A v \in Triggers :
        link /\ callbacks[v] # {} ~> handle[v] = "live" \/ ~link \/ callbacks[v] = {}

(* A start or a completed refresh leaves the labels of the rows, whatever  *)
(* was renamed before.                                                     *)
LoadIsWhole ==
    [][\/ ~started /\ started'
       \/ web.pc = "load" /\ web'.pc = "idle" /\ started' /\ ~HasBadRow
       => devices' = row]_vars

(* A queued notification that matches a subscribed rule ends in that       *)
(* rule's action, whatever the callbacks before it did, unless the rule is *)
(* unsubscribed first or the worker restarted.                             *)
Reacts ==
    \A r \in Rules :
        (\E i \in 1 .. Len(queue) :
            queue[i].var = subs[r].var /\ queue[i].value = subs[r].expected)
          ~> (exec.rule = r \/ subs[r] = NoCallback)
=============================================================================
