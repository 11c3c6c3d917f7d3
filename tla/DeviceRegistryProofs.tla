------------------------ MODULE DeviceRegistryProofs ------------------------
(***************************************************************************)
(* Proofs about DeviceRegistry, for any set of devices, triggers, rules    *)
(* and labels and any bound on the notification queue.                     *)
(***************************************************************************)
EXTENDS DeviceRegistry, TLAPS

(* The steps by what they write: the database, the notification tables,    *)
(* the dictionaries.                                                       *)
DbStep == Request

SubscribeStep ==
    \/ \E ok \in BOOLEAN : remove_automation(ok)
    \/ \E r \in Rules, ok \in BOOLEAN : _load_automations(r, ok)
    \/ \E ok \in BOOLEAN : reload_automation(ok)

LoadStep ==
    \/ Loaded \/ AddDevice \/ ClearDevices
    \/ \E up \in BOOLEAN : _start(up)
    \/ \E d \in Devices : _load_devices_from_db(d)

LEMMA NextCases == Next => DbStep \/ SubscribeStep \/ LoadStep \/ _dispatch_loop \/ Environment
BY DEF Next, Serve, DbStep, SubscribeStep, LoadStep

(* What a step of each kind leaves alone. *)
LEMMA DbFrame == DbStep => UNCHANGED <<regVars, notifyVars, queue, exec, link>>
BY DEF DbStep, Request, assign_output_channel, assign_input, SaveAndAdd, promote_capability,
       apartment_device_detail, _create_rule, PatchRule, DeleteRule, _registry_or_error

LEMMA SubscribeFrame == SubscribeStep => UNCHANGED <<dbVars, started, devices, queue, exec, link>>
BY DEF SubscribeStep, remove_automation, _load_automations, reload_automation

LEMMA LoadFrame == LoadStep => UNCHANGED <<dbVars, subs, notifyVars, queue, exec>>
BY DEF LoadStep, Loaded, AddDevice, ClearDevices, _start, _load_devices_from_db, regVars

LEMMA DispatchFrame == _dispatch_loop => UNCHANGED <<dbVars, regVars, notifyVars, web, link>>
BY DEF _dispatch_loop, Take, CallBack, _execute_automation

LEMMA EnvironmentFrame ==
    Environment => Restart \/ UNCHANGED <<dbVars, regVars, callbacks, exec, web>>
BY DEF Environment, Notify, LinkDrops, LinkReturns, notifyVars

(* The dummy rows are no rows. *)
LEMMA NullRows == NoRule \notin AutomationRule /\ NoCallback \notin Callback
BY DevicesAssumption, NoneAssumption DEF NoRule, AutomationRule, NoCallback, Callback

LEMMA LabelsAreReal ==
    ASSUME NEW d \in Devices, NEW label \in LabelsOf[d]
    PROVE  label \in Labels /\ label # None
BY LabelsAssumption DEF Labels
-----------------------------------------------------------------------------
(* The parts of the type invariant. *)
DbTypes ==
    /\ row \in [Devices -> Labels \cup {None}]
    /\ rule \in [Rules -> AutomationRule \cup {NoRule}]

RegTypes == started \in BOOLEAN /\ devices \in [Devices -> Labels \cup {None}] /\ link \in BOOLEAN

NotifyTypes ==
    /\ subs \in [Rules -> Callback \cup {NoCallback}]
    /\ callbacks \in [Triggers -> SUBSET Callback]
    /\ handle \in [Triggers -> {"none", "live", "stale"}]
    /\ leaked \subseteq Triggers

ExecTypes ==
    /\ queue \in Seq([var : Triggers, value : BOOLEAN])
    /\ exec \in [todo : SUBSET Callback, rule : Rules \cup {None}, act : Outputs \cup {None}]

WebTypes ==
    web \in [pc : {"idle", "open", "automate", "load", "subscribe"} \cup (Requests \ {"poll"}),
             op : Requests, arg : Devices \cup Rules \cup {None},
             todo : SUBSET (Devices \cup Rules)]

LEMMA TypeParts ==
    /\ RegistryTypeOK <=> DbTypes /\ RegTypes /\ NotifyTypes /\ ExecTypes /\ WebTypes
    /\ RegistryTypeOK' <=> DbTypes' /\ RegTypes' /\ NotifyTypes' /\ ExecTypes' /\ WebTypes'
BY DEF RegistryTypeOK, DbTypes, RegTypes, NotifyTypes, ExecTypes, WebTypes

(* Where the request thread is, and on whose behalf. *)
RequestThread ==
    /\ web.pc \in Requests => web.pc = web.op
    /\ web.pc = "subscribe" => web.op = "reload"
    /\ web.op \in {"reload", "remove"} => web.arg \in Rules
    /\ web.op = "add" => web.arg \in Devices /\ row[web.arg] # None
    /\ web.pc = "automate" => web.todo \subseteq Rules
    /\ web.pc = "load" => web.todo \subseteq {d \in Devices : row[d] # None}
    /\ web.pc = "open" => ~started
    /\ web.pc \notin {"open", "idle"} => started

TypeInv == RegistryTypeOK /\ RequestThread

LEMMA BeginTypes ==
    ASSUME NEW op \in Requests \ {"poll"}, NEW arg \in Devices \cup Rules \cup {None},
           Begin(op, arg)
    PROVE  WebTypes'
BY DEF Begin, WebTypes

LEMMA InitTypes == Init => TypeInv
<1> SUFFICES ASSUME Init PROVE TypeInv
  OBVIOUS
<1>1. DbTypes /\ RegTypes /\ NotifyTypes
  BY DEF Init, DbTypes, RegTypes, NotifyTypes, Nothing
<1>2. ExecTypes /\ WebTypes
  BY DEF Init, ExecTypes, WebTypes, Resting, Idle, Requests
<1>3. RequestThread
  BY DEF Init, RequestThread, Idle, Requests
<1>4. QED
  BY <1>1, <1>2, <1>3, TypeParts DEF TypeInv

LEMMA DbTypesHold == ASSUME TypeInv, DbStep PROVE TypeInv'
<1> USE DEF TypeInv
<1>1. UNCHANGED <<regVars, notifyVars, queue, exec, link>>
  BY DbFrame
<1>2. RegTypes' /\ NotifyTypes' /\ ExecTypes'
  BY <1>1, TypeParts DEF regVars, notifyVars, RegTypes, NotifyTypes, ExecTypes
<1>3. started' = started
  BY <1>1 DEF regVars
<1>4. DbTypes /\ WebTypes
  BY TypeParts
<1>5. ASSUME NEW d \in Devices, NEW label \in LabelsOf[d],
             SaveAndAdd(d, label)
      PROVE  DbTypes' /\ WebTypes' /\ RequestThread'
  <2>1. label \in Labels /\ label # None
    BY LabelsAreReal
  <2>2. DbTypes' /\ row'[d] # None
    BY <1>4, <1>5, <2>1 DEF SaveAndAdd, DbTypes
  <2>3. WebTypes'
    BY <1>5, BeginTypes DEF SaveAndAdd, Requests
  <2>4. QED
    BY <1>3, <1>5, <2>2, <2>3 DEF SaveAndAdd, Begin, RequestThread, RegistryTypeOK, Requests
<1>6. ASSUME NEW d \in Devices, NEW label \in LabelsOf[d], promote_capability(d, label)
      PROVE  DbTypes' /\ WebTypes' /\ RequestThread'
  <2>1. label \in Labels /\ label # None
    BY LabelsAreReal
  <2>2. DbTypes'
    BY <1>4, <1>6, <2>1 DEF promote_capability, DbTypes
  <2>3. WebTypes'
    BY <1>6, BeginTypes DEF promote_capability, Requests
  <2>4. QED
    BY <1>3, <1>6, <2>2, <2>3
       DEF promote_capability, Begin, RequestThread, RegistryTypeOK, Requests
<1>7. ASSUME NEW d \in Devices, NEW label \in LabelsOf[d], apartment_device_detail(d, label)
      PROVE  DbTypes' /\ WebTypes' /\ RequestThread'
  <2>1. label \in Labels /\ label # None
    BY LabelsAreReal
  <2>2. DbTypes' /\ web' = web /\ web.pc = "idle"
    BY <1>4, <1>7, <2>1 DEF apartment_device_detail, apartment_room_detail, DbTypes
  <2>3. \A e \in Devices : row[e] # None => row'[e] # None
    BY <1>4, <1>7, <2>1 DEF apartment_device_detail, apartment_room_detail, DbTypes
  <2>4. QED
    BY <1>3, <1>4, <2>2, <2>3 DEF RequestThread, WebTypes, Requests
<1>8. ASSUME NEW r \in Rules, NEW t \in Triggers, NEW expected \in BOOLEAN,
             NEW o \in Outputs, _create_rule(r, t, expected, o)
      PROVE  DbTypes' /\ WebTypes' /\ RequestThread'
  <2>1. DbTypes'
    BY <1>4, <1>8 DEF _create_rule, DbTypes, AutomationRule
  <2>2. WebTypes'
    BY <1>8, BeginTypes DEF _create_rule, Requests
  <2>3. QED
    BY <1>3, <1>8, <2>1, <2>2 DEF _create_rule, Begin, RequestThread, RegistryTypeOK, Requests
<1>9. ASSUME NEW r \in Rules, NEW enabled \in BOOLEAN, NEW expected \in BOOLEAN,
             PatchRule(r, enabled, expected)
      PROVE  DbTypes' /\ WebTypes' /\ RequestThread'
  <2>1. rule[r] \in AutomationRule
    BY <1>4, <1>9 DEF PatchRule, DbTypes
  <2>2. [rule[r] EXCEPT !.enabled = enabled, !.expected = expected] \in AutomationRule
    BY <2>1 DEF AutomationRule
  <2>3. rule' = [rule EXCEPT ![r] = [rule[r] EXCEPT !.enabled = enabled, !.expected = expected]]
    BY <1>4, <1>9, <2>1 DEF PatchRule, DbTypes, AutomationRule
  <2>4. DbTypes'
    BY <1>4, <1>9, <2>2, <2>3 DEF PatchRule, DbTypes
  <2>5. WebTypes'
    BY <1>9, BeginTypes DEF PatchRule, Requests
  <2>6. QED
    BY <1>3, <1>9, <2>4, <2>5 DEF PatchRule, Begin, RequestThread, RegistryTypeOK, Requests
<1>10. ASSUME NEW r \in Rules, DeleteRule(r)
      PROVE  DbTypes' /\ WebTypes' /\ RequestThread'
  <2>1. DbTypes'
    BY <1>4, <1>10 DEF DeleteRule, DbTypes
  <2>2. WebTypes'
    BY <1>10, BeginTypes DEF DeleteRule, Requests
  <2>3. QED
    BY <1>3, <1>10, <2>1, <2>2 DEF DeleteRule, Begin, RequestThread, RegistryTypeOK, Requests
<1>11. ASSUME _registry_or_error
       PROVE  DbTypes' /\ WebTypes' /\ RequestThread'
  <2>1. DbTypes'
    BY <1>4, <1>11 DEF _registry_or_error, dbVars, DbTypes
  <2>2. web' = [pc |-> "open", op |-> "poll", arg |-> None, todo |-> {}] /\ ~started
    BY <1>11 DEF _registry_or_error, Begin
  <2>3. WebTypes'
    BY <2>2 DEF WebTypes, Requests
  <2>4. RequestThread'
    BY <1>3, <2>2 DEF RequestThread, Requests
  <2>5. QED
    BY <2>1, <2>3, <2>4
<1>12. DbTypes' /\ WebTypes' /\ RequestThread'
  BY <1>5, <1>6, <1>7, <1>8, <1>9, <1>10, <1>11, TypeParts
     DEF DbStep, Request, assign_output_channel, assign_input
<1>13. QED
  BY <1>2, <1>12, TypeParts

LEMMA UnsubscribeTypes ==
    ASSUME NotifyTypes, NEW r \in Rules, NEW ok \in BOOLEAN, Unsubscribe(r, ok)
    PROVE  NotifyTypes'
<1>1. CASE subs[r] = NoCallback
  BY <1>1 DEF NotifyTypes, Unsubscribe, notifyVars
<1>2. CASE subs[r] # NoCallback
  <2>1. subs[r].var \in Triggers
    BY <1>2 DEF NotifyTypes, Callback
  <2>2. /\ subs' = [subs EXCEPT ![r] = NoCallback]
        /\ callbacks' = [callbacks EXCEPT ![subs[r].var] = @ \ {subs[r]}]
        /\ \/ handle' = handle
           \/ handle' = [handle EXCEPT ![subs[r].var] = "none"]
        /\ leaked' = leaked \/ leaked' = leaked \cup {subs[r].var}
    BY <1>2 DEF Unsubscribe, _cancel_ads_notification
  <2>3. QED
    BY <2>1, <2>2 DEF NotifyTypes
<1>3. QED
  BY <1>1, <1>2

LEMMA SubscribeTypes ==
    ASSUME DbTypes, NotifyTypes, NEW r \in Rules, NEW ok \in BOOLEAN, Subscribe(r, ok)
    PROVE  NotifyTypes'
<1>1. CASE CanSubscribe(r, ok)
  <2> DEFINE t == rule[r].trigger
             c == [rule |-> r, var |-> t, expected |-> rule[r].expected]
  <2>1. rule[r] \in AutomationRule
    BY <1>1 DEF CanSubscribe, DbTypes, NoRule
  <2>2. t \in Triggers /\ c \in Callback
    BY <2>1 DEF AutomationRule, Callback
  <2>3. /\ subs' = [subs EXCEPT ![r] = c]
        /\ callbacks' = [callbacks EXCEPT ![t] = @ \cup {c}]
        /\ handle' = [handle EXCEPT ![t] = IF @ = "none" THEN "live" ELSE @]
        /\ leaked' = leaked
    BY <1>1 DEF Subscribe
  <2>4. QED
    BY <2>2, <2>3 DEF NotifyTypes
<1>2. CASE ~CanSubscribe(r, ok)
  BY <1>2 DEF Subscribe, NotifyTypes, notifyVars
<1>3. QED
  BY <1>1, <1>2

LEMMA SubscribeTypesHold == ASSUME TypeInv, SubscribeStep PROVE TypeInv'
<1> USE DEF TypeInv
<1>1. UNCHANGED <<dbVars, started, devices, queue, exec, link>>
  BY SubscribeFrame
<1>2. DbTypes' /\ RegTypes' /\ ExecTypes'
  BY <1>1, TypeParts DEF dbVars, DbTypes, RegTypes, ExecTypes
<1>3. DbTypes /\ NotifyTypes /\ WebTypes /\ started' = started /\ row' = row
  BY <1>1, TypeParts DEF dbVars
<1>4. ASSUME NEW ok \in BOOLEAN, remove_automation(ok)
      PROVE  NotifyTypes' /\ WebTypes' /\ RequestThread'
  <2>1. web.arg \in Rules
    BY <1>4 DEF remove_automation, RequestThread, Requests
  <2>2. NotifyTypes'
    BY <1>3, <1>4, <2>1, UnsubscribeTypes DEF remove_automation
  <2>3. WebTypes' /\ RequestThread'
    BY <1>3, <1>4 DEF remove_automation, WebTypes, Idle, Requests, RequestThread
  <2>4. QED
    BY <2>2, <2>3
<1>5. ASSUME NEW r \in Rules, NEW ok \in BOOLEAN, _load_automations(r, ok)
      PROVE  NotifyTypes' /\ WebTypes' /\ RequestThread'
  <2>1. NotifyTypes'
    BY <1>3, <1>5, SubscribeTypes DEF _load_automations
  <2>2. WebTypes' /\ RequestThread'
    BY <1>3, <1>5 DEF _load_automations, WebTypes, Requests, RequestThread
  <2>3. QED
    BY <2>1, <2>2
<1>6. ASSUME NEW ok \in BOOLEAN, reload_automation(ok)
      PROVE  NotifyTypes' /\ WebTypes' /\ RequestThread'
  <2>1. web.arg \in Rules
    BY <1>6 DEF reload_automation, RequestThread
  <2>2. NotifyTypes'
    BY <1>3, <1>6, <2>1, SubscribeTypes DEF reload_automation
  <2>3. WebTypes' /\ RequestThread'
    BY <1>3, <1>6 DEF reload_automation, WebTypes, Idle, Requests, RequestThread
  <2>4. QED
    BY <2>2, <2>3
<1>7. QED
  BY <1>2, <1>4, <1>5, <1>6, TypeParts DEF SubscribeStep

LEMMA LoadTypesHold == ASSUME TypeInv, LoadStep PROVE TypeInv'
<1> USE DEF TypeInv
<1>1. UNCHANGED <<dbVars, subs, notifyVars, queue, exec>>
  BY LoadFrame
<1>2. DbTypes' /\ NotifyTypes' /\ ExecTypes'
  BY <1>1, TypeParts DEF dbVars, notifyVars, DbTypes, NotifyTypes, ExecTypes
<1>3. DbTypes /\ RegTypes /\ WebTypes /\ row' = row
  BY <1>1, TypeParts DEF dbVars
<1>4. ASSUME Loaded PROVE RegTypes' /\ WebTypes' /\ RequestThread'
  BY <1>3, <1>4 DEF Loaded, regVars, RegTypes, WebTypes, Idle, Requests, RequestThread
<1>5. ASSUME AddDevice PROVE RegTypes' /\ WebTypes' /\ RequestThread'
  BY <1>3, <1>5 DEF AddDevice, DbTypes, RegTypes, WebTypes, Idle, Requests, RequestThread
<1>6. ASSUME ClearDevices PROVE RegTypes' /\ WebTypes' /\ RequestThread'
  BY <1>3, <1>6 DEF ClearDevices, RegTypes, WebTypes, Nothing, Requests, RequestThread
<1>7. ASSUME NEW up \in BOOLEAN, _start(up) PROVE RegTypes' /\ WebTypes' /\ RequestThread'
  <2>1. CASE HasBadRow
    BY <1>3, <1>7, <2>1 DEF _start, RegTypes, WebTypes, Idle, Requests, RequestThread
  <2>2. CASE ~HasBadRow
    <3>1. /\ devices' = row /\ started' = TRUE /\ link' = up
          /\ web' = [web EXCEPT !.pc = "automate", !.todo = {r \in Rules : rule[r].enabled}]
      BY <1>7, <2>2 DEF _start
    <3>2. RegTypes' /\ WebTypes'
      BY <1>3, <3>1 DEF DbTypes, RegTypes, WebTypes, Requests
    <3>3. RequestThread'
      BY <1>3, <3>1 DEF WebTypes, Requests, RequestThread
    <3>4. QED
      BY <3>2, <3>3
  <2>3. QED
    BY <2>1, <2>2
<1>8. ASSUME NEW d \in Devices, _load_devices_from_db(d)
      PROVE  RegTypes' /\ WebTypes' /\ RequestThread'
  <2>1. RegTypes'
    BY <1>3, <1>8 DEF _load_devices_from_db, DbTypes, RegTypes
  <2>2. WebTypes' /\ RequestThread'
    BY <1>3, <1>8 DEF _load_devices_from_db, WebTypes, Idle, Requests, RequestThread
  <2>3. QED
    BY <2>1, <2>2
<1>9. QED
  BY <1>2, <1>4, <1>5, <1>6, <1>7, <1>8, TypeParts DEF LoadStep

LEMMA DispatchTypesHold == ASSUME TypeInv, _dispatch_loop PROVE TypeInv'
<1> USE DEF TypeInv
<1>1. UNCHANGED <<dbVars, regVars, notifyVars, web, link>>
  BY DispatchFrame
<1>2. DbTypes' /\ RegTypes' /\ NotifyTypes' /\ WebTypes' /\ RequestThread'
  BY <1>1, TypeParts
     DEF dbVars, regVars, notifyVars, DbTypes, RegTypes, NotifyTypes, WebTypes, RequestThread
<1>3. DbTypes /\ NotifyTypes /\ ExecTypes
  BY TypeParts
<1>4. ASSUME Take PROVE ExecTypes'
  <2>1. Head(queue) \in [var : Triggers, value : BOOLEAN]
    <3>1. ASSUME NEW S, NEW s \in Seq(S), s # <<>> PROVE Head(s) \in S
      BY <3>1
    <3>2. QED
      BY <1>3, <1>4, <3>1 DEF Take, ExecTypes
  <2>2. {c \in callbacks[Head(queue).var] : c.expected = Head(queue).value} \subseteq Callback
    BY <1>3, <2>1 DEF NotifyTypes
  <2>3. queue' \in Seq([var : Triggers, value : BOOLEAN])
    BY <1>3, <1>4 DEF Take, ExecTypes
  <2>4. QED
    BY <1>4, <2>2, <2>3 DEF Take, Resting, ExecTypes
<1>5. ASSUME NEW c \in Callback, CallBack(c) PROVE ExecTypes'
  <2>1. c.rule \in Rules
    BY DEF Callback
  <2>2. rule[c.rule].enabled => rule[c.rule].action \in Outputs
    BY <1>3, <2>1 DEF DbTypes, NoRule, AutomationRule
  <2>3. QED
    BY <1>3, <1>5, <2>1, <2>2 DEF CallBack, ExecTypes
<1>6. ASSUME _execute_automation PROVE ExecTypes'
  BY <1>3, <1>6 DEF _execute_automation, ExecTypes
<1>7. QED
  BY <1>2, <1>4, <1>5, <1>6, TypeParts DEF _dispatch_loop

LEMMA EnvironmentTypesHold == ASSUME TypeInv, Environment PROVE TypeInv'
<1> USE DEF TypeInv
<1>1. ASSUME NEW v \in Triggers, NEW value \in BOOLEAN, Notify(v, value) PROVE TypeInv'
  <2>1. ExecTypes'
    BY <1>1, TypeParts DEF Notify, ExecTypes
  <2>2. UNCHANGED <<dbVars, regVars, notifyVars, exec, web, link>>
    BY <1>1 DEF Notify
  <2>3. QED
    BY <2>1, <2>2, TypeParts
       DEF dbVars, regVars, notifyVars, DbTypes, RegTypes, NotifyTypes, WebTypes, RequestThread
<1>2. CASE LinkDrops
  BY <1>2 DEF LinkDrops, dbVars, regVars, RegistryTypeOK, RequestThread
<1>3. CASE LinkReturns
  BY <1>3 DEF LinkReturns, dbVars, regVars, notifyVars, RegistryTypeOK, RequestThread
<1>4. CASE Restart
  <2>1. DbTypes' /\ RegTypes' /\ NotifyTypes'
    BY <1>4, TypeParts DEF Restart, dbVars, DbTypes, RegTypes, NotifyTypes, Nothing
  <2>2. ExecTypes' /\ WebTypes' /\ RequestThread'
    BY <1>4 DEF Restart, ExecTypes, WebTypes, RequestThread, Resting, Idle, Requests
  <2>3. QED
    BY <2>1, <2>2, TypeParts
<1>5. QED
  BY <1>1, <1>2, <1>3, <1>4 DEF Environment

LEMMA TypeInvStep == TypeInv /\ [Next]_vars => TypeInv'
<1> SUFFICES ASSUME TypeInv, [Next]_vars PROVE TypeInv'
  OBVIOUS
<1>1. CASE Next
  BY <1>1, NextCases, DbTypesHold, SubscribeTypesHold, LoadTypesHold, DispatchTypesHold,
     EnvironmentTypesHold
<1>2. CASE UNCHANGED vars
  BY <1>2 DEF vars, dbVars, regVars, notifyVars, TypeInv, RegistryTypeOK, RequestThread
<1>3. QED
  BY <1>1, <1>2

(* The tables of the registry and of its notification manager keep their   *)
(* types, however requests, notifications and restarts interleave.         *)
THEOREM TypeCorrect == Spec => []RegistryTypeOK
<1>1. Spec => []TypeInv
  BY InitTypes, TypeInvStep, PTL DEF Spec
<1>2. TypeInv => RegistryTypeOK
  BY DEF TypeInv
<1>3. QED
  BY <1>1, <1>2, PTL
-----------------------------------------------------------------------------
(* Only subscribing and unsubscribing, a lost link and a restart touch the *)
(* notification tables.                                                    *)
LEMMA UnsubscribeEffect ==
    ASSUME NotifyTypes, NEW r \in Rules, NEW ok \in BOOLEAN, Unsubscribe(r, ok)
    PROVE  \/ subs[r] = NoCallback /\ UNCHANGED <<subs, callbacks, handle, leaked>>
           \/ /\ subs[r] \in Callback
              /\ subs[r].var \in Triggers
              /\ subs' = [subs EXCEPT ![r] = NoCallback]
              /\ callbacks' = [callbacks EXCEPT ![subs[r].var] = @ \ {subs[r]}]
              /\ handle' = IF callbacks[subs[r].var] \ {subs[r]} = {}
                           THEN [handle EXCEPT ![subs[r].var] = "none"] ELSE handle
              /\ \/ leaked' = leaked
                 \/ handle[subs[r].var] = "live" /\ leaked' = leaked \cup {subs[r].var}
<1>1. CASE subs[r] = NoCallback
  BY <1>1 DEF Unsubscribe, notifyVars
<1>2. CASE subs[r] # NoCallback
  <2>1. subs[r] \in Callback /\ subs[r].var \in Triggers
    BY <1>2 DEF NotifyTypes, Callback
  <2>2. QED
    BY <1>2, <2>1 DEF Unsubscribe, _cancel_ads_notification
<1>3. QED
  BY <1>1, <1>2

LEMMA SubscribeEffect ==
    ASSUME DbTypes, NEW r \in Rules, NEW ok \in BOOLEAN, Subscribe(r, ok)
    PROVE  \/ UNCHANGED <<subs, callbacks, handle, leaked>>
           \/ /\ rule[r] \in AutomationRule /\ rule[r].enabled
              /\ rule[r].trigger \in Triggers
              /\ \E c \in Callback :
                    /\ c.rule = r /\ c.var = rule[r].trigger /\ c.expected = rule[r].expected
                    /\ subs' = [subs EXCEPT ![r] = c]
                    /\ callbacks' = [callbacks EXCEPT ![c.var] = @ \cup {c}]
                    /\ handle' = [handle EXCEPT ![c.var] = IF @ = "none" THEN "live" ELSE @]
                    /\ handle[c.var] = "none" => link
              /\ leaked' = leaked
<1>1. CASE CanSubscribe(r, ok)
  <2> DEFINE c == [rule |-> r, var |-> rule[r].trigger, expected |-> rule[r].expected]
  <2>1. rule[r] \in AutomationRule /\ rule[r].enabled
    BY <1>1 DEF CanSubscribe, DbTypes, NoRule
  <2>2. rule[r].trigger \in Triggers /\ c \in Callback
    BY <2>1 DEF AutomationRule, Callback
  <2>3. /\ subs' = [subs EXCEPT ![r] = c]
        /\ callbacks' = [callbacks EXCEPT ![c.var] = @ \cup {c}]
        /\ handle' = [handle EXCEPT ![c.var] = IF @ = "none" THEN "live" ELSE @]
        /\ leaked' = leaked /\ (handle[c.var] = "none" => link)
    BY <1>1 DEF Subscribe, CanSubscribe
  <2>4. c.rule = r /\ c.var = rule[r].trigger /\ c.expected = rule[r].expected
    OBVIOUS
  <2> HIDE DEF c
  <2>5. QED
    BY <2>1, <2>2, <2>3, <2>4
<1>2. CASE ~CanSubscribe(r, ok)
  BY <1>2 DEF Subscribe, notifyVars
<1>3. QED
  BY <1>1, <1>2

LEMMA SubscribeStepKinds ==
    ASSUME TypeInv, SubscribeStep
    PROVE  \E r \in Rules, ok \in BOOLEAN : Unsubscribe(r, ok) \/ Subscribe(r, ok)
<1>1. ASSUME NEW ok \in BOOLEAN, remove_automation(ok)
      PROVE  web.arg \in Rules /\ Unsubscribe(web.arg, ok)
  BY <1>1 DEF remove_automation, TypeInv, RequestThread, Requests
<1>2. ASSUME NEW ok \in BOOLEAN, reload_automation(ok)
      PROVE  web.arg \in Rules /\ Subscribe(web.arg, ok)
  BY <1>2 DEF reload_automation, TypeInv, RequestThread
<1>3. QED
  BY <1>1, <1>2 DEF SubscribeStep, _load_automations

(* Before the first request has started the registry the controller has    *)
(* nothing registered for it: the link that _start finds has no past.      *)
NothingRegistered ==
    ~started => leaked = {} /\ \A v \in Triggers : callbacks[v] = {}

HandleInv == TypeInv /\ HandlesFollowCallbacks /\ NothingRegistered

(* Removing a callback gives up the variable's handle exactly when it was  *)
(* the last; adding one registers it, with the session there is, exactly   *)
(* when there was none; a delete that fails leaves a notification behind   *)
(* only of a handle of this session.                                       *)
LEMMA HandleStep ==
    ASSUME HandleInv, [Next]_vars PROVE HandlesFollowCallbacks' /\ NothingRegistered'
<1> USE DEF HandleInv
<1> DEFINE Goal == HandlesFollowCallbacks' /\ NothingRegistered'
<1>0. NotifyTypes /\ DbTypes /\ RequestThread
  BY TypeParts DEF TypeInv
<1>1. ASSUME UNCHANGED <<callbacks, handle, leaked>>, started => started', link => link'
      PROVE  Goal
  BY <1>1 DEF HandlesFollowCallbacks, NothingRegistered
<1>2. CASE SubscribeStep
  <2>1. PICK r \in Rules, ok \in BOOLEAN : Unsubscribe(r, ok) \/ Subscribe(r, ok)
    BY <1>2, SubscribeStepKinds
  <2>2. started /\ UNCHANGED <<started, link>>
    BY <1>0, <1>2, SubscribeFrame
       DEF SubscribeStep, remove_automation, _load_automations, reload_automation, RequestThread
  <2>3. NothingRegistered'
    BY <2>2 DEF NothingRegistered
  <2>4. CASE Unsubscribe(r, ok)
    BY <1>0, <2>2, <2>3, <2>4, UnsubscribeEffect DEF HandlesFollowCallbacks, NotifyTypes
  <2>5. CASE Subscribe(r, ok)
    <3>1. CASE UNCHANGED <<subs, callbacks, handle, leaked>>
      BY <1>1, <2>2, <3>1
    <3>2. CASE ~UNCHANGED <<subs, callbacks, handle, leaked>>
      <4>1. PICK c \in Callback :
              /\ callbacks' = [callbacks EXCEPT ![c.var] = @ \cup {c}]
              /\ handle' = [handle EXCEPT ![c.var] = IF @ = "none" THEN "live" ELSE @]
              /\ leaked' = leaked /\ (handle[c.var] = "none" => link)
        BY <1>0, <2>5, <3>2, SubscribeEffect
      <4>2. c.var \in Triggers
        BY DEF Callback
      <4>3. QED
        BY <1>0, <2>2, <2>3, <4>1, <4>2 DEF HandlesFollowCallbacks, NotifyTypes
    <3>3. QED
      BY <3>1, <3>2
  <2>6. QED
    BY <2>1, <2>4, <2>5
<1>3. CASE LinkDrops
  BY <1>0, <1>3 DEF LinkDrops, regVars, HandlesFollowCallbacks, NothingRegistered, NotifyTypes
<1>4. CASE Restart
  BY <1>4 DEF Restart, HandlesFollowCallbacks, NothingRegistered
<1>5. CASE Environment /\ ~LinkDrops /\ ~Restart
  <2>1. UNCHANGED <<callbacks, handle, leaked, started>> /\ (link' = link \/ link' = TRUE)
    BY <1>5 DEF Environment, Notify, LinkReturns, notifyVars, regVars
  <2>2. link => link'
    BY <2>1
  <2>3. QED
    BY <1>1, <2>1, <2>2
<1>6. CASE DbStep
  BY <1>1, <1>6, DbFrame DEF notifyVars, regVars
<1>7. CASE LoadStep
  <2>1. UNCHANGED <<callbacks, handle, leaked>>
    BY <1>7, LoadFrame DEF notifyVars
  <2>2. ASSUME NEW up \in BOOLEAN, _start(up) PROVE Goal
    <3>1. ~started
      BY <1>0, <2>2 DEF _start, RequestThread
    <3>2. leaked = {} /\ \A v \in Triggers : callbacks[v] = {} /\ handle[v] = "none"
      BY <3>1 DEF NothingRegistered, HandlesFollowCallbacks
    <3>3. QED
      BY <2>1, <3>2 DEF NothingRegistered, HandlesFollowCallbacks
  <2>3. CASE ~\E up \in BOOLEAN : _start(up)
    <3>1. UNCHANGED <<started, link>>
      BY <1>7, <2>3 DEF LoadStep, Loaded, AddDevice, ClearDevices, _load_devices_from_db, regVars
    <3>2. QED
      BY <1>1, <2>1, <3>1
  <2>4. QED
    BY <2>2, <2>3
<1>8. CASE _dispatch_loop
  BY <1>1, <1>8, DispatchFrame DEF notifyVars, regVars
<1>9. CASE UNCHANGED vars
  BY <1>1, <1>9 DEF vars, notifyVars, regVars
<1>10. QED
  BY <1>2, <1>3, <1>4, <1>5, <1>6, <1>7, <1>8, <1>9, NextCases

LEMMA HandleInvHolds == Spec => []HandleInv
<1>1. Init => HandleInv
  BY InitTypes DEF Init, HandleInv, HandlesFollowCallbacks, NothingRegistered
<1>2. HandleInv /\ [Next]_vars => HandleInv'
  BY TypeInvStep, HandleStep DEF HandleInv
<1>3. QED
  BY <1>1, <1>2, PTL DEF Spec

(* The manager's handles follow its listeners, and no notification on the  *)
(* controller, even one that a failed delete left behind, outlives the     *)
(* session it was registered in.                                           *)
THEOREM NoHandleLeaks == Spec => []HandlesFollowCallbacks
<1>1. HandleInv => HandlesFollowCallbacks
  BY DEF HandleInv
<1>2. QED
  BY <1>1, HandleInvHolds, PTL
-----------------------------------------------------------------------------
(* A registry that has not started hears nothing and does nothing. *)
SilentUntilStarted ==
    ~started => /\ \A r \in Rules : subs[r] = NoCallback
                /\ \A v \in Triggers : callbacks[v] = {}
                /\ exec.todo = {} /\ exec.act = None

(* A rule's callback and the table of callbacks agree at every step ... *)
SubsAndCallbacks ==
    /\ \A v \in Triggers : \A c \in callbacks[v] : c.var = v /\ subs[c.rule] = c
    /\ \A r \in Rules : subs[r] # NoCallback =>
          subs[r].rule = r /\ subs[r] \in callbacks[subs[r].var]

(* ... the callback is of the rule as it is now, but for the rule a request *)
(* is about to reload or remove ...                                        *)
SubsFollowRules ==
    \A r \in Rules :
        subs[r] # NoCallback /\ ~(web.pc \in {"reload", "remove"} /\ web.arg = r) =>
            /\ rule[r].enabled
            /\ subs[r].var = rule[r].trigger
            /\ subs[r].expected = rule[r].expected

(* ... and a rule about to be subscribed has none. *)
SubscribesOnce ==
    /\ web.pc = "subscribe" => subs[web.arg] = NoCallback
    /\ web.pc = "automate" => \A r \in web.todo : subs[r] = NoCallback

SubsInv ==
    SilentUntilStarted /\ SubsAndCallbacks /\ SubsFollowRules /\ SubscribesOnce

(* The rows a rule names are never deleted, so neither is the row of an    *)
(* action under way.                                                       *)
RowsKept ==
    /\ \A r \in Rules : rule[r] # NoRule => row[rule[r].action] # None
    /\ exec.act # None => row[exec.act] # None

(* What the dictionaries hold at each point of a request. *)
DevicesMatchRows ==
    started /\ ~HasBadRow =>
        /\ web.pc \notin {"add", "refresh", "load"} =>
              \A d \in Devices : devices[d] = None <=> row[d] = None
        /\ web.pc = "add" =>
              \A d \in Devices \ {web.arg} : devices[d] = None <=> row[d] = None

LoadedSoFar ==
    web.pc = "load" => \A d \in Devices \ web.todo : devices[d] = row[d]

(* A row a rule acts on was there before the request now being served. *)
ActionsLoaded ==
    started /\ ~HasBadRow /\ web.pc # "load" =>
        /\ \A r \in Rules : rule[r] # NoRule => devices[rule[r].action] # None
        /\ exec.act # None => devices[exec.act] # None

LoadInv == RowsKept /\ DevicesMatchRows /\ LoadedSoFar /\ ActionsLoaded

(* A request starts from rest and edits at most the rule it goes on to     *)
(* reload or remove.                                                       *)
LEMMA DbEdits ==
    ASSUME TypeInv, DbStep
    PROVE  /\ web.pc = "idle"
           /\ web'.pc \in {"idle", "open", "add", "refresh", "reload", "remove"}
           /\ \A s \in Rules :
                 \/ rule'[s] = rule[s]
                 \/ ~started
                 \/ web'.pc \in {"reload", "remove"} /\ web'.arg = s
<1>1. DbTypes
  BY TypeParts DEF TypeInv
<1>2. ASSUME NEW d \in Devices, NEW label \in LabelsOf[d],
             assign_output_channel(d, label) \/ assign_input(d, label)
               \/ promote_capability(d, label) \/ apartment_device_detail(d, label)
      PROVE  /\ web.pc = "idle" /\ rule' = rule
             /\ web'.pc \in {"idle", "open", "add", "refresh"}
  BY <1>2 DEF assign_output_channel, assign_input, SaveAndAdd, promote_capability,
              apartment_device_detail, Begin
<1>3. ASSUME NEW r \in Rules, NEW t \in Triggers, NEW expected \in BOOLEAN,
             NEW o \in Outputs, _create_rule(r, t, expected, o)
      PROVE  /\ web.pc = "idle" /\ web'.pc \in {"open", "reload"} /\ web'.arg = r
             /\ (started => web'.pc = "reload") /\ \A s \in Rules \ {r} : rule'[s] = rule[s]
  BY <1>1, <1>3 DEF _create_rule, Begin, DbTypes
<1>4. ASSUME NEW r \in Rules, NEW enabled \in BOOLEAN, NEW expected \in BOOLEAN,
             PatchRule(r, enabled, expected)
      PROVE  /\ web.pc = "idle" /\ web'.pc \in {"open", "reload", "remove"} /\ web'.arg = r
             /\ (started => web'.pc # "open") /\ \A s \in Rules \ {r} : rule'[s] = rule[s]
  BY <1>1, <1>4 DEF PatchRule, Begin, DbTypes
<1>5. ASSUME NEW r \in Rules, DeleteRule(r)
      PROVE  /\ web.pc = "idle" /\ web'.pc \in {"open", "remove"} /\ web'.arg = r
             /\ (started => web'.pc # "open") /\ \A s \in Rules \ {r} : rule'[s] = rule[s]
  BY <1>1, <1>5 DEF DeleteRule, Begin, DbTypes
<1>6. ASSUME _registry_or_error
      PROVE  web.pc = "idle" /\ web'.pc = "open" /\ rule' = rule
  BY <1>6 DEF _registry_or_error, Begin, dbVars
<1>7. QED
  BY <1>2, <1>3, <1>4, <1>5, <1>6 DEF DbStep, Request

LEMMA SubsInvDb == ASSUME TypeInv, SubsInv, DbStep PROVE SubsInv'
<1> USE DEF SubsInv
<1>1. UNCHANGED <<subs, callbacks, started, exec>>
  BY DbFrame DEF regVars, notifyVars
<1>2. SilentUntilStarted' /\ SubsAndCallbacks'
  BY <1>1 DEF SilentUntilStarted, SubsAndCallbacks
<1>3. SubsFollowRules'
  BY <1>1, DbEdits DEF SilentUntilStarted, SubsFollowRules
<1>4. SubscribesOnce'
  BY DbEdits DEF SubscribesOnce
<1>5. QED
  BY <1>2, <1>3, <1>4

LEMMA SubsInvSubscribe == ASSUME TypeInv, SubsInv, SubscribeStep PROVE SubsInv'
<1> USE DEF SubsInv
<1>1. /\ UNCHANGED <<rule, started, exec>>
      /\ DbTypes /\ NotifyTypes /\ WebTypes /\ RequestThread
  BY SubscribeFrame, TypeParts DEF dbVars, TypeInv
<1>2. started
  BY DEF SubscribeStep, remove_automation, _load_automations, reload_automation,
         TypeInv, RequestThread
<1>3. SilentUntilStarted'
  BY <1>1, <1>2 DEF SilentUntilStarted
<1>4. ASSUME NEW ok \in BOOLEAN, remove_automation(ok)
      PROVE  SubsAndCallbacks' /\ SubsFollowRules' /\ SubscribesOnce'
  <2> DEFINE r == web.arg
  <2>1. r \in Rules /\ Unsubscribe(r, ok) /\ web.pc \in {"reload", "remove"}
    BY <1>1, <1>4 DEF remove_automation, RequestThread, Requests
  <2>2. web'.pc \in {"idle", "subscribe"} /\ (web'.pc = "subscribe" => web'.arg = r)
    BY <1>1, <1>4 DEF remove_automation, WebTypes, Idle
  <2>3. subs'[r] = NoCallback /\ \A q \in Rules \ {r} : subs'[q] = subs[q]
    BY <1>1, <2>1, UnsubscribeEffect DEF NotifyTypes
  <2>4. SubsAndCallbacks'
    <3>1. CASE UNCHANGED <<subs, callbacks, handle, leaked>>
      BY <3>1 DEF SubsAndCallbacks
    <3>2. CASE /\ subs[r] \in Callback
               /\ subs[r].var \in Triggers
               /\ callbacks' = [callbacks EXCEPT ![subs[r].var] = @ \ {subs[r]}]
      <4>1. ASSUME NEW v \in Triggers, NEW c \in callbacks'[v]
            PROVE  c.var = v /\ subs'[c.rule] = c
        <5>1. c \in callbacks[v] /\ c.var = v /\ subs[c.rule] = c /\ c.rule \in Rules
          BY <1>1, <3>2 DEF SubsAndCallbacks, NotifyTypes, Callback
        <5>2. c.rule # r
          BY <1>1, <3>2, <5>1 DEF NotifyTypes
        <5>3. QED
          BY <2>3, <5>1, <5>2
      <4>2. ASSUME NEW q \in Rules, subs'[q] # NoCallback
            PROVE  subs'[q].rule = q /\ subs'[q] \in callbacks'[subs'[q].var]
        <5>1. q # r /\ subs'[q] = subs[q]
          BY <2>3, <4>2
        <5>2. subs[q].rule = q /\ subs[q] \in callbacks[subs[q].var] /\ subs[q].var \in Triggers
          BY <1>1, <4>2, <5>1 DEF SubsAndCallbacks, NotifyTypes, Callback
        <5>3. subs[r].rule = r
          BY <2>1, <3>2, NullRows DEF SubsAndCallbacks
        <5>4. QED
          BY <1>1, <3>2, <5>1, <5>2, <5>3 DEF NotifyTypes
      <4>3. QED
        BY <4>1, <4>2 DEF SubsAndCallbacks
    <3>3. QED
      BY <1>1, <2>1, <3>1, <3>2, UnsubscribeEffect
  <2>5. SubsFollowRules'
    BY <1>1, <2>2, <2>3 DEF SubsFollowRules
  <2>6. SubscribesOnce'
    BY <2>2, <2>3 DEF SubscribesOnce
  <2>7. QED
    BY <2>4, <2>5, <2>6
<1>5. ASSUME NEW r \in Rules, NEW ok \in BOOLEAN, Subscribe(r, ok), subs[r] = NoCallback,
             web.pc \notin {"reload", "remove"}
      PROVE  /\ SubsAndCallbacks' /\ (web'.pc \notin {"reload", "remove"} => SubsFollowRules')
             /\ \A q \in Rules \ {r} : subs'[q] = subs[q]
  <2>1. CASE UNCHANGED <<subs, callbacks, handle, leaked>>
    BY <1>1, <1>5, <2>1 DEF SubsAndCallbacks, SubsFollowRules
  <2>2. CASE ~UNCHANGED <<subs, callbacks, handle, leaked>>
    <3>1. PICK c \in Callback :
            /\ rule[r].enabled
            /\ c.rule = r /\ c.var = rule[r].trigger /\ c.expected = rule[r].expected
            /\ subs' = [subs EXCEPT ![r] = c]
            /\ callbacks' = [callbacks EXCEPT ![c.var] = @ \cup {c}]
      BY <1>1, <1>5, <2>2, SubscribeEffect
    <3>2. c.var \in Triggers
      BY DEF Callback
    <3>3. ASSUME NEW v \in Triggers, NEW b \in callbacks'[v]
          PROVE  b.var = v /\ subs'[b.rule] = b
      <4>1. CASE b = c
        BY <1>1, <3>1, <3>2, <3>3, <4>1 DEF NotifyTypes, SubsAndCallbacks
      <4>2. CASE b # c
        <5>1. b \in callbacks[v] /\ b.var = v /\ subs[b.rule] = b /\ b.rule \in Rules /\ b \in Callback
          BY <1>1, <3>1, <3>2, <4>2 DEF SubsAndCallbacks, NotifyTypes, Callback
        <5>2. b.rule # r
          BY <1>5, <5>1, NullRows
        <5>3. QED
          BY <1>1, <3>1, <5>1, <5>2 DEF NotifyTypes
      <4>3. QED
        BY <4>1, <4>2
    <3>4. ASSUME NEW q \in Rules, subs'[q] # NoCallback
          PROVE  subs'[q].rule = q /\ subs'[q] \in callbacks'[subs'[q].var]
      BY <1>1, <3>1, <3>2, <3>4 DEF NotifyTypes, SubsAndCallbacks, Callback
    <3>5. web'.pc \notin {"reload", "remove"} => SubsFollowRules'
      BY <1>1, <1>5, <3>1 DEF NotifyTypes, SubsFollowRules
    <3>6. \A q \in Rules \ {r} : subs'[q] = subs[q]
      BY <1>1, <3>1 DEF NotifyTypes
    <3>7. QED
      BY <3>3, <3>4, <3>5, <3>6 DEF SubsAndCallbacks
  <2>3. QED
    BY <2>1, <2>2
<1>6. ASSUME NEW r \in Rules, NEW ok \in BOOLEAN, _load_automations(r, ok)
      PROVE  SubsAndCallbacks' /\ SubsFollowRules' /\ SubscribesOnce'
  <2>1. /\ Subscribe(r, ok) /\ subs[r] = NoCallback /\ web.pc = "automate"
        /\ web'.pc = "automate" /\ web'.todo = web.todo \ {r} /\ web.todo \subseteq Rules
    BY <1>1, <1>6 DEF _load_automations, SubscribesOnce, WebTypes, RequestThread
  <2>2. QED
    BY <1>5, <2>1 DEF SubscribesOnce
<1>7. ASSUME NEW ok \in BOOLEAN, reload_automation(ok)
      PROVE  SubsAndCallbacks' /\ SubsFollowRules' /\ SubscribesOnce'
  <2>1. /\ web.arg \in Rules /\ Subscribe(web.arg, ok) /\ subs[web.arg] = NoCallback
        /\ web.pc = "subscribe" /\ web'.pc = "idle"
    BY <1>1, <1>7 DEF reload_automation, SubscribesOnce, RequestThread, Idle
  <2>2. QED
    BY <1>5, <2>1 DEF SubscribesOnce
<1>8. QED
  BY <1>3, <1>4, <1>6, <1>7 DEF SubscribeStep

LEMMA SubsInvLoad == ASSUME TypeInv, SubsInv, LoadStep PROVE SubsInv'
<1> USE DEF SubsInv
<1>1. UNCHANGED <<subs, callbacks, rule, exec>> /\ WebTypes /\ RequestThread
  BY LoadFrame, TypeParts DEF dbVars, notifyVars, TypeInv
<1>2. SubsAndCallbacks'
  BY <1>1 DEF SubsAndCallbacks
<1>3. started => started'
  BY DEF LoadStep, Loaded, AddDevice, ClearDevices, _start, _load_devices_from_db, regVars,
         TypeInv, RequestThread
<1>4. SilentUntilStarted'
  BY <1>1, <1>3 DEF SilentUntilStarted
<1>5. ASSUME NEW up \in BOOLEAN, _start(up) PROVE SubsFollowRules' /\ SubscribesOnce'
  <2>1. \A r \in Rules : subs'[r] = NoCallback
    BY <1>1, <1>5 DEF _start, SilentUntilStarted, RequestThread
  <2>2. web'.pc \in {"idle", "automate"} /\ (web'.pc = "automate" => web'.todo \subseteq Rules)
    <3>1. CASE HasBadRow
      BY <1>5, <3>1 DEF _start, Idle
    <3>2. CASE ~HasBadRow
      <4>1. web' = [web EXCEPT !.pc = "automate", !.todo = {r \in Rules : rule[r].enabled}]
        BY <1>5, <3>2 DEF _start
      <4>2. QED
        BY <1>1, <4>1 DEF WebTypes
    <3>3. QED
      BY <3>1, <3>2
  <2>3. QED
    BY <2>1, <2>2 DEF SubsFollowRules, SubscribesOnce
<1>6. ASSUME Loaded \/ AddDevice \/ ClearDevices \/ \E d \in Devices : _load_devices_from_db(d)
      PROVE  SubsFollowRules' /\ SubscribesOnce'
  <2>1. web.pc \in {"automate", "add", "refresh", "load"}
    BY <1>6 DEF Loaded, AddDevice, ClearDevices, _load_devices_from_db
  <2>2. web'.pc \in {"idle", "load"} \cup Requests
    <3>1. CASE Loaded
      BY <1>1, <3>1 DEF Loaded, WebTypes, Idle
    <3>2. CASE AddDevice
      BY <3>2 DEF AddDevice, Idle
    <3>3. CASE ClearDevices
      BY <1>1, <3>3 DEF ClearDevices, WebTypes
    <3>4. ASSUME NEW d \in Devices, _load_devices_from_db(d) PROVE web'.pc \in {"idle", "load"}
      BY <1>1, <3>4 DEF _load_devices_from_db, WebTypes, Idle
    <3>5. QED
      BY <1>6, <3>1, <3>2, <3>3, <3>4
  <2>3. QED
    BY <1>1, <2>1, <2>2 DEF SubsFollowRules, SubscribesOnce, Requests
<1>7. QED
  BY <1>2, <1>4, <1>5, <1>6 DEF LoadStep

LEMMA SubsInvDispatch == ASSUME TypeInv, SubsInv, _dispatch_loop PROVE SubsInv'
<1> USE DEF SubsInv
<1>1. UNCHANGED <<subs, callbacks, rule, web, started>> /\ ExecTypes
  BY DispatchFrame, TypeParts DEF dbVars, regVars, notifyVars, TypeInv
<1>2. SubsAndCallbacks' /\ SubsFollowRules' /\ SubscribesOnce'
  BY <1>1 DEF SubsAndCallbacks, SubsFollowRules, SubscribesOnce
<1>3. SilentUntilStarted'
  <2> SUFFICES ASSUME ~started PROVE exec'.todo = {} /\ exec'.act = None
    BY <1>1 DEF SilentUntilStarted
  <2>1. exec.todo = {} /\ exec.act = None /\ \A v \in Triggers : callbacks[v] = {}
    BY DEF SilentUntilStarted
  <2>2. CASE Take
    <3>1. Head(queue).var \in Triggers
      <4>1. ASSUME NEW S, NEW s \in Seq(S), s # <<>> PROVE Head(s) \in S
        BY <4>1
      <4>2. QED
        BY <1>1, <2>2, <4>1 DEF Take, ExecTypes
    <3>2. QED
      BY <2>1, <2>2, <3>1 DEF Take, Resting
  <2>3. QED
    BY <2>1, <2>2 DEF _dispatch_loop, CallBack, _execute_automation
<1>4. QED
  BY <1>2, <1>3

LEMMA SubsInvStep == TypeInv /\ SubsInv /\ [Next]_vars => SubsInv'
<1> SUFFICES ASSUME TypeInv, SubsInv, [Next]_vars PROVE SubsInv'
  OBVIOUS
<1>1. CASE Restart
  BY <1>1 DEF Restart, Resting, Idle, SubsInv, SilentUntilStarted, SubsAndCallbacks,
              SubsFollowRules, SubscribesOnce
<1>2. ASSUME UNCHANGED <<dbVars, regVars, callbacks, exec, web>> PROVE SubsInv'
  BY <1>2 DEF dbVars, regVars, SubsInv, SilentUntilStarted, SubsAndCallbacks,
              SubsFollowRules, SubscribesOnce
<1>3. CASE Environment
  BY <1>1, <1>2, <1>3, EnvironmentFrame
<1>4. CASE UNCHANGED vars
  BY <1>2, <1>4 DEF vars, notifyVars
<1>5. QED
  BY <1>3, <1>4, NextCases, SubsInvDb, SubsInvSubscribe, SubsInvLoad, SubsInvDispatch

LEMMA SubsInvHolds == Spec => [](TypeInv /\ SubsInv)
<1>1. Init => SubsInv
  BY DEF Init, Resting, Idle, SubsInv, SilentUntilStarted, SubsAndCallbacks, SubsFollowRules,
         SubscribesOnce
<1>2. QED
  BY <1>1, InitTypes, TypeInvStep, SubsInvStep, PTL DEF Spec

(* Whatever edits, reloads, failed registrations and restarts came before, *)
(* between requests the callbacks are those of the enabled rules as the    *)
(* database has them, one for each.                                        *)
THEOREM CallbacksFollowRules == Spec => []SubscriptionsMatchRules
<1>1. ASSUME TypeInv, SubsInv PROVE SubscriptionsMatchRules
  <2> SUFFICES ASSUME web.pc = "idle" PROVE SubscriptionsMatchRules
    BY DEF SubscriptionsMatchRules
  <2>1. ASSUME NEW r \in Rules, subs[r] # NoCallback
        PROVE  /\ rule[r].enabled
               /\ subs[r] = [rule |-> r, var |-> rule[r].trigger, expected |-> rule[r].expected]
    <3>1. subs[r] \in Callback
      BY <1>1, <2>1, TypeParts DEF TypeInv, NotifyTypes
    <3>2. /\ rule[r].enabled
          /\ subs[r].rule = r /\ subs[r].var = rule[r].trigger
          /\ subs[r].expected = rule[r].expected
      BY <1>1, <2>1 DEF SubsInv, SubsAndCallbacks, SubsFollowRules
    <3>3. QED
      BY <3>1, <3>2 DEF Callback
  <2>2. QED
    BY <1>1, <2>1 DEF SubsInv, SubsAndCallbacks, SubscriptionsMatchRules
<1>2. QED
  BY <1>1, SubsInvHolds, PTL
-----------------------------------------------------------------------------
(* Rows are added and relabelled, never deleted. *)
LEMMA DbRows ==
    ASSUME TypeInv, DbStep
    PROVE  /\ \A d \in Devices : row[d] # None => row'[d] # None
           /\ \/ \A d \in Devices : row[d] = None => row'[d] = None
              \/ ~started
              \/ web'.pc = "refresh"
              \/ /\ web'.pc = "add"
                 /\ \A d \in Devices \ {web'.arg} : row[d] = None => row'[d] = None
           /\ web'.pc # "load"
<1>1. DbTypes
  BY TypeParts DEF TypeInv
<1>2. ASSUME NEW d \in Devices, NEW label \in LabelsOf[d], SaveAndAdd(d, label)
      PROVE  /\ row' = [row EXCEPT ![d] = label] /\ label # None
             /\ web'.arg = d /\ web'.pc \in {"open", "add"} /\ (started => web'.pc = "add")
  BY <1>2, LabelsAreReal DEF SaveAndAdd, Begin
<1>3. ASSUME NEW d \in Devices, NEW label \in LabelsOf[d], promote_capability(d, label)
      PROVE  /\ row' = [row EXCEPT ![d] = label] /\ label # None
             /\ web'.pc \in {"open", "refresh"} /\ (started => web'.pc = "refresh")
  BY <1>3, LabelsAreReal DEF promote_capability, Begin
<1>4. ASSUME NEW d \in Devices, NEW label \in LabelsOf[d], apartment_device_detail(d, label)
      PROVE  /\ row' = [row EXCEPT ![d] = label] /\ label # None /\ row[d] # None
             /\ web'.pc = "idle"
  BY <1>4, LabelsAreReal DEF apartment_device_detail, apartment_room_detail
<1>5. ASSUME \/ \E r \in Rules, t \in Triggers, expected \in BOOLEAN, o \in Outputs :
                   _create_rule(r, t, expected, o)
             \/ \E r \in Rules, enabled, expected \in BOOLEAN : PatchRule(r, enabled, expected)
             \/ \E r \in Rules : DeleteRule(r)
             \/ _registry_or_error
      PROVE  row' = row /\ web'.pc # "load"
  <2>1. ASSUME NEW r \in Rules, NEW enabled \in BOOLEAN, NEW expected \in BOOLEAN,
               PatchRule(r, enabled, expected)
        PROVE  row' = row /\ web'.pc # "load"
    BY <2>1 DEF PatchRule, Begin
  <2>2. ASSUME NEW r \in Rules, NEW t \in Triggers, NEW expected \in BOOLEAN, NEW o \in Outputs,
               _create_rule(r, t, expected, o)
        PROVE  row' = row /\ web'.pc # "load"
    BY <2>2 DEF _create_rule, Begin
  <2>3. ASSUME NEW r \in Rules, DeleteRule(r) PROVE row' = row /\ web'.pc # "load"
    BY <2>3 DEF DeleteRule, Begin
  <2>4. ASSUME _registry_or_error PROVE row' = row /\ web'.pc # "load"
    BY <2>4 DEF _registry_or_error, Begin, dbVars
  <2>5. QED
    BY <1>5, <2>1, <2>2, <2>3, <2>4
<1>6. QED
  BY <1>1, <1>2, <1>3, <1>4, <1>5
     DEF DbStep, Request, assign_output_channel, assign_input, DbTypes

LEMMA BadRowsStay == ASSUME TypeInv, DbStep, ~HasBadRow' PROVE ~HasBadRow
BY DbRows DEF HasBadRow, Constructs

(* A rule is created on rows that exist, and keeps its action. *)
LEMMA DbActions ==
    ASSUME TypeInv, DbStep, NEW r \in Rules, rule'[r] # NoRule
    PROVE  \/ rule[r] # NoRule /\ rule'[r].action = rule[r].action
           \/ rule'[r].action \in Outputs /\ row[rule'[r].action] # None /\ row' = row
<1>1. DbTypes
  BY TypeParts DEF TypeInv
<1>2. ASSUME NEW q \in Rules, NEW t \in Triggers, NEW expected \in BOOLEAN, NEW o \in Outputs,
             _create_rule(q, t, expected, o)
      PROVE  \/ rule'[r] = rule[r]
             \/ rule'[r].action = o /\ row[o] # None /\ row' = row
  BY <1>1, <1>2 DEF _create_rule, DbTypes
<1>3. ASSUME NEW q \in Rules, NEW enabled \in BOOLEAN, NEW expected \in BOOLEAN,
             PatchRule(q, enabled, expected)
      PROVE  rule[r] # NoRule /\ rule'[r].action = rule[r].action
  <2>1. CASE q # r
    BY <1>1, <1>3, <2>1 DEF PatchRule, DbTypes
  <2>2. CASE q = r
    <3>1. rule[r] \in AutomationRule
      BY <1>1, <1>3, <2>2 DEF PatchRule, DbTypes
    <3>2. QED
      BY <1>1, <1>3, <2>2, <3>1 DEF PatchRule, DbTypes, AutomationRule
  <2>3. QED
    BY <2>1, <2>2
<1>4. ASSUME NEW q \in Rules, DeleteRule(q) PROVE rule'[r] = rule[r]
  BY <1>1, <1>4 DEF DeleteRule, DbTypes
<1>5. ASSUME \/ _registry_or_error
             \/ \E d \in Devices : \E label \in LabelsOf[d] :
                   \/ assign_output_channel(d, label) \/ assign_input(d, label)
                   \/ promote_capability(d, label) \/ apartment_device_detail(d, label)
      PROVE  rule' = rule
  BY <1>5 DEF _registry_or_error, dbVars, assign_output_channel, assign_input, SaveAndAdd,
              promote_capability, apartment_device_detail
<1>6. QED
  BY <1>2, <1>3, <1>4, <1>5 DEF DbStep, Request

LEMMA ActionsAreDevices ==
    ASSUME TypeInv
    PROVE  /\ \A r \in Rules : rule[r] # NoRule => rule[r].action \in Devices
           /\ exec.act # None => exec.act \in Devices
BY TypeParts, DevicesAssumption DEF TypeInv, DbTypes, ExecTypes, AutomationRule

LEMMA LoadInvDb == ASSUME TypeInv, LoadInv, DbStep PROVE LoadInv'
<1> USE DEF LoadInv
<1>1. UNCHANGED <<devices, started, exec>> /\ web.pc = "idle" /\ web'.pc # "load"
  BY DbFrame, DbEdits, DbRows DEF regVars
<1>2. RowsKept'
  <2>1. ASSUME NEW r \in Rules, rule'[r] # NoRule PROVE row'[rule'[r].action] # None
    BY <2>1, DbActions, DbRows, ActionsAreDevices DEF RowsKept
  <2>2. exec'.act # None => row'[exec'.act] # None
    BY <1>1, DbRows, ActionsAreDevices DEF RowsKept
  <2>3. QED
    BY <2>1, <2>2 DEF RowsKept
<1>3. ASSUME started, ~HasBadRow'
      PROVE  \A d \in Devices : devices[d] = None <=> row[d] = None
  BY <1>1, <1>3, BadRowsStay DEF DevicesMatchRows
<1>4. DevicesMatchRows'
  BY <1>1, <1>3, DbRows DEF DevicesMatchRows
<1>5. LoadedSoFar'
  BY <1>1 DEF LoadedSoFar
<1>6. ActionsLoaded'
  <2> SUFFICES ASSUME started, ~HasBadRow'
               PROVE  /\ \A r \in Rules : rule'[r] # NoRule => devices[rule'[r].action] # None
                      /\ exec.act # None => devices[exec.act] # None
    BY <1>1 DEF ActionsLoaded
  <2>1. ASSUME NEW r \in Rules, rule'[r] # NoRule PROVE devices[rule'[r].action] # None
    BY <1>3, <2>1, DbActions, ActionsAreDevices, DevicesAssumption DEF RowsKept
  <2>2. exec.act # None => devices[exec.act] # None
    BY <1>3, ActionsAreDevices DEF RowsKept
  <2>3. QED
    BY <2>1, <2>2
<1>7. QED
  BY <1>2, <1>4, <1>5, <1>6

(* Steps that leave the rows, the rules and the dictionaries alone. *)
LEMMA LoadInvKept ==
    ASSUME LoadInv, UNCHANGED <<row, rule, started, devices, exec>>,
           \/ web' = web
           \/ web.pc \notin {"add", "refresh", "load"} /\ web'.pc # "load"
    PROVE  LoadInv'
BY DEF LoadInv, RowsKept, DevicesMatchRows, LoadedSoFar, ActionsLoaded, HasBadRow

LEMMA LoadInvSubscribe == ASSUME TypeInv, LoadInv, SubscribeStep PROVE LoadInv'
<1>1. UNCHANGED <<row, rule, started, devices, exec>> /\ WebTypes
  BY SubscribeFrame, TypeParts DEF dbVars, TypeInv
<1>2. web.pc \notin {"add", "refresh", "load"} /\ web'.pc # "load"
  BY <1>1 DEF SubscribeStep, remove_automation, _load_automations, reload_automation,
              WebTypes, Idle
<1>3. QED
  BY <1>1, <1>2, LoadInvKept

LEMMA LoadInvLoad == ASSUME TypeInv, LoadInv, LoadStep PROVE LoadInv'
<1> USE DEF LoadInv
<1>1. UNCHANGED <<row, rule, exec>> /\ DbTypes /\ RegTypes /\ WebTypes /\ RequestThread
  BY LoadFrame, TypeParts DEF dbVars, TypeInv
<1>2. RowsKept' /\ HasBadRow' = HasBadRow
  BY <1>1 DEF RowsKept, HasBadRow
<1>3. ASSUME \A d \in Devices : devices'[d] = row[d], web'.pc # "load"
      PROVE  DevicesMatchRows' /\ LoadedSoFar' /\ ActionsLoaded'
  BY <1>1, <1>2, <1>3, ActionsAreDevices
     DEF RowsKept, DevicesMatchRows, LoadedSoFar, ActionsLoaded
<1>4. ASSUME NEW up \in BOOLEAN, _start(up)
      PROVE  DevicesMatchRows' /\ LoadedSoFar' /\ ActionsLoaded'
  <2>1. CASE HasBadRow
    BY <1>1, <1>2, <1>4, <2>1 DEF _start, Idle, DevicesMatchRows, LoadedSoFar, ActionsLoaded
  <2>2. CASE ~HasBadRow
    BY <1>1, <1>3, <1>4, <2>2 DEF _start, WebTypes
  <2>3. QED
    BY <2>1, <2>2
<1>5. CASE Loaded
  <2>1. web.pc = "automate" /\ web'.pc # "load" /\ UNCHANGED <<started, devices>>
    BY <1>1, <1>5 DEF Loaded, regVars, Idle, WebTypes, Requests
  <2>2. QED
    BY <1>1, <2>1, LoadInvKept
<1>6. ASSUME AddDevice PROVE DevicesMatchRows' /\ LoadedSoFar' /\ ActionsLoaded'
  <2>1. web'.pc = "idle" /\ web.pc = "add" /\ started' = started
    BY <1>6 DEF AddDevice, Idle
  <2>2. web.arg \in Devices /\ row[web.arg] # None
    BY <1>1, <2>1 DEF RequestThread, Requests
  <2>3. ASSUME ~HasBadRow PROVE devices' = [devices EXCEPT ![web.arg] = row[web.arg]]
    BY <1>6, <2>2, <2>3 DEF AddDevice, HasBadRow
  <2>4. DevicesMatchRows'
    BY <1>1, <1>2, <2>1, <2>2, <2>3 DEF DevicesMatchRows, RegTypes
  <2>5. ActionsLoaded'
    BY <1>1, <1>2, <2>1, <2>2, <2>3, ActionsAreDevices DEF ActionsLoaded, RegTypes
  <2>6. QED
    BY <2>1, <2>4, <2>5 DEF LoadedSoFar
<1>7. ASSUME ClearDevices PROVE DevicesMatchRows' /\ LoadedSoFar' /\ ActionsLoaded'
  <2>1. web'.pc = "load" /\ web'.todo = {d \in Devices : row[d] # None} /\ devices' = Nothing
    BY <1>1, <1>7 DEF ClearDevices, WebTypes
  <2>2. QED
    BY <1>1, <2>1 DEF DevicesMatchRows, LoadedSoFar, ActionsLoaded, Nothing
<1>8. ASSUME NEW d \in Devices, _load_devices_from_db(d)
      PROVE  DevicesMatchRows' /\ LoadedSoFar' /\ ActionsLoaded'
  <2>1. web.pc = "load" /\ d \in web.todo /\ started' = started
    BY <1>8 DEF _load_devices_from_db
  <2>2. CASE ~Constructs(d)
    <3>1. HasBadRow
      BY <1>1, <2>1, <2>2 DEF RequestThread, HasBadRow
    <3>2. web'.pc = "idle"
      BY <1>8, <2>2 DEF _load_devices_from_db, Idle
    <3>3. QED
      BY <1>2, <3>1, <3>2 DEF DevicesMatchRows, LoadedSoFar, ActionsLoaded
  <2>3. CASE Constructs(d)
    <3>1. devices' = [devices EXCEPT ![d] = row[d]]
      BY <1>8, <2>3 DEF _load_devices_from_db
    <3>2. \A e \in Devices \ (web.todo \ {d}) : devices'[e] = row[e]
      BY <1>1, <2>1, <3>1 DEF LoadedSoFar, RegTypes
    <3>3. CASE web.todo = {d}
      BY <1>3, <1>8, <3>2, <3>3 DEF _load_devices_from_db, Idle
    <3>4. CASE web.todo # {d}
      <4>1. web'.pc = "load" /\ web'.todo = web.todo \ {d}
        BY <1>1, <1>8, <2>1, <2>3, <3>4 DEF _load_devices_from_db, WebTypes
      <4>2. QED
        BY <1>1, <3>2, <4>1 DEF DevicesMatchRows, LoadedSoFar, ActionsLoaded
    <3>5. QED
      BY <3>3, <3>4
  <2>4. QED
    BY <2>2, <2>3
<1>9. QED
  BY <1>2, <1>4, <1>5, <1>6, <1>7, <1>8 DEF LoadStep

LEMMA LoadInvDispatch == ASSUME TypeInv, SubsInv, LoadInv, _dispatch_loop PROVE LoadInv'
<1> USE DEF LoadInv
<1>1. UNCHANGED <<row, rule, started, devices, web>> /\ DbTypes /\ ExecTypes
  BY DispatchFrame, TypeParts DEF dbVars, regVars, TypeInv
<1>2. \/ exec'.act = None \/ exec'.act = exec.act
      \/ \E r \in Rules : rule[r] # NoRule /\ exec'.act = rule[r].action
  <2>1. CASE Take
    BY <2>1 DEF Take, Resting
  <2>2. ASSUME NEW c \in Callback, CallBack(c)
        PROVE  \/ exec'.act = exec.act
               \/ \E r \in Rules : rule[r] # NoRule /\ exec'.act = rule[r].action
    <3>1. c.rule \in Rules
      BY DEF Callback
    <3>2. QED
      BY <1>1, <2>2, <3>1 DEF CallBack, NoRule, ExecTypes
  <2>3. CASE _execute_automation
    BY <1>1, <2>3 DEF _execute_automation, ExecTypes
  <2>4. QED
    BY <2>1, <2>2, <2>3 DEF _dispatch_loop
<1>3. RowsKept' /\ ActionsLoaded'
  BY <1>1, <1>2 DEF RowsKept, ActionsLoaded, HasBadRow
<1>4. DevicesMatchRows' /\ LoadedSoFar'
  BY <1>1 DEF DevicesMatchRows, LoadedSoFar, HasBadRow
<1>5. QED
  BY <1>3, <1>4

LEMMA LoadInvStep == TypeInv /\ SubsInv /\ LoadInv /\ [Next]_vars => LoadInv'
<1> SUFFICES ASSUME TypeInv, SubsInv, LoadInv, [Next]_vars PROVE LoadInv'
  OBVIOUS
<1>1. CASE Restart
  BY <1>1 DEF Restart, dbVars, Resting, Idle, LoadInv, RowsKept, DevicesMatchRows, LoadedSoFar,
              ActionsLoaded
<1>2. CASE Environment
  BY <1>1, <1>2, EnvironmentFrame, LoadInvKept DEF dbVars, regVars
<1>3. CASE UNCHANGED vars
  BY <1>3, LoadInvKept DEF vars, dbVars, regVars
<1>4. QED
  BY <1>2, <1>3, NextCases, LoadInvDb, LoadInvSubscribe, LoadInvLoad, LoadInvDispatch

RegistryInv == TypeInv /\ SubsInv /\ LoadInv

LEMMA RegistryInvHolds == Spec => []RegistryInv
<1>1. Init => LoadInv
  BY DEF Init, Nothing, Resting, Idle, NoRule, LoadInv, RowsKept, DevicesMatchRows, LoadedSoFar,
         ActionsLoaded
<1>2. Init => SubsInv
  BY DEF Init, Resting, Idle, SubsInv, SilentUntilStarted, SubsAndCallbacks, SubsFollowRules,
         SubscribesOnce
<1>3. Init => RegistryInv
  BY <1>1, <1>2, InitTypes DEF RegistryInv
<1>4. RegistryInv /\ [Next]_vars => RegistryInv'
  BY TypeInvStep, SubsInvStep, LoadInvStep DEF RegistryInv
<1>5. QED
  BY <1>3, <1>4, PTL DEF Spec

(* A device whose row was saved is served by the running registry once the *)
(* request has ended, and one without a row is not.                        *)
THEOREM SavedMeansServed == Spec => []EveryRowIsLoaded
<1>1. RegistryInv => EveryRowIsLoaded
  BY DEF RegistryInv, LoadInv, DevicesMatchRows, EveryRowIsLoaded
<1>2. QED
  BY <1>1, RegistryInvHolds, PTL

(* An automation misses its device only while a refresh is under way, when *)
(* a row of the apartment raises, or when its own row has an address       *)
(* scheme.                                                                 *)
THEOREM MissesAreExplained == Spec => []MissOnlyMidRefresh
<1>1. ASSUME RegistryInv PROVE MissOnlyMidRefresh
  <2>1. exec.act # None => started
    BY <1>1 DEF RegistryInv, SubsInv, SilentUntilStarted, TypeInv, RegistryTypeOK
  <2>2. QED
    BY <1>1, <2>1 DEF RegistryInv, LoadInv, ActionsLoaded, MissOnlyMidRefresh, ByType
<1>2. QED
  BY <1>1, RegistryInvHolds, PTL

(* A start or a refresh that completes has read every row as it is now. *)
THEOREM RefreshIsComplete == Spec => LoadIsWhole
<1>1. ASSUME RegistryInv, [Next]_vars,
             \/ ~started /\ started'
             \/ web.pc = "load" /\ web'.pc = "idle" /\ started' /\ ~HasBadRow
      PROVE  devices' = row \/ UNCHANGED vars
  <2>0. TypeInv /\ DbTypes /\ RegTypes /\ WebTypes /\ RequestThread /\ LoadedSoFar
    BY <1>1, TypeParts DEF RegistryInv, TypeInv, LoadInv
  <2>1. CASE DbStep
    BY <1>1, <2>0, <2>1, DbFrame, DbEdits DEF regVars
  <2>2. CASE SubscribeStep
    BY <1>1, <2>2, SubscribeFrame
       DEF SubscribeStep, remove_automation, _load_automations, reload_automation
  <2>3. CASE _dispatch_loop
    BY <1>1, <2>3, DispatchFrame DEF regVars
  <2>4. CASE Environment
    BY <1>1, <2>4, EnvironmentFrame DEF Restart, regVars
  <2>5. ASSUME NEW up \in BOOLEAN, _start(up) PROVE devices' = row
    BY <1>1, <2>5 DEF _start
  <2>6. CASE Loaded \/ AddDevice \/ ClearDevices
    BY <1>1, <2>6 DEF Loaded, AddDevice, ClearDevices, regVars
  <2>7. ASSUME NEW d \in Devices, _load_devices_from_db(d) PROVE devices' = row
    <3>1. web.pc = "load" /\ d \in web.todo /\ web'.pc = "idle" /\ ~HasBadRow
      BY <1>1, <2>7 DEF _load_devices_from_db
    <3>2. Constructs(d)
      BY <2>0, <3>1 DEF RequestThread, HasBadRow
    <3>3. web.todo = {d} /\ devices' = [devices EXCEPT ![d] = row[d]]
      BY <2>0, <2>7, <3>1, <3>2 DEF _load_devices_from_db, WebTypes
    <3>4. QED
      BY <2>0, <3>1, <3>3 DEF LoadedSoFar, RegTypes, DbTypes
  <2>8. QED
    BY <1>1, <2>1, <2>2, <2>3, <2>4, <2>5, <2>6, <2>7, NextCases DEF LoadStep
<1>2. RegistryInv /\ [Next]_vars =>
        [\/ ~started /\ started'
         \/ web.pc = "load" /\ web'.pc = "idle" /\ started' /\ ~HasBadRow
         => devices' = row]_vars
  BY <1>1
<1>3. QED
  BY <1>2, RegistryInvHolds, PTL DEF Spec, LoadIsWhole
=============================================================================
