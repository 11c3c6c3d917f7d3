-------------------------- MODULE LightingEffects ---------------------------
(***************************************************************************)
(* Who drives a building's scheme-driven lights: the Christmas chase       *)
(* (lighting_effects.py), the sunset/sunrise override (tasks.py), both run *)
(* by the scheduler, and the request that starts and stops the show.  The  *)
(* flag christmas_mode_active is in the database and outlives the process; *)
(* _active, the stop events and the threads do not.                        *)
(*                                                                         *)
(* Abstractions: the clock and the settings come to what the override      *)
(* wants now; a step of the chase lights some lamp.                        *)
(***************************************************************************)
EXTENDS Naturals

CONSTANTS
    Lamps,            \* the templated devices of the apartment
    Shows,            \* chase threads alive at a time (bound)
    Admins,           \* request threads
    FlagCheckEvery,   \* _FLAG_CHECK_EVERY
    NoOne

ASSUME FlagCheckAssumption == FlagCheckEvery \in Nat \ {0}
ASSUME ShowAssumption == NoOne \notin Shows /\ NoOne \notin Lamps

NoShow == [pc |-> "none", step |-> 0, lit |-> NoOne, todo |-> {}]
Quiet == [pc |-> "idle", on |-> FALSE, todo |-> {}]
NoRequest == [pc |-> "idle", event |-> NoOne, todo |-> {}]

VARIABLES
    lights,       \* the outputs
    flag,         \* Apartment.christmas_mode_active
    override,     \* what the override asks for now: "auto", "on" or "off"
    active,       \* _active: the thread whose stop event is registered
    halted,       \* threads whose stop event is set
    show,         \* the chase threads
    tick,         \* the scheduler thread
    request,      \* the request threads
    reach         \* writes reach the PLC

buildingVars == <<flag, override, reach>>
threadVars == <<active, halted, show>>
effectVars == <<lights, buildingVars, threadVars, tick, request>>

EffectsInit ==
    /\ lights = [l \in Lamps |-> FALSE]
    /\ flag = FALSE
    /\ override = "auto"
    /\ active = NoOne
    /\ halted = {}
    /\ show = [t \in Shows |-> NoShow]
    /\ tick = Quiet
    /\ request = [a \in Admins |-> NoRequest]
    /\ reach = TRUE

(* TemplatedDevice.write, its failure caught by every caller here. *)
write(l, on) == lights' = IF reach THEN [lights EXCEPT ![l] = on] ELSE lights
-----------------------------------------------------------------------------
(* apartment_christmas_mode: the flag first ... *)
apartment_christmas_mode(a, on) ==
    /\ request[a] = NoRequest
    /\ flag' = on
    /\ request' = [request EXCEPT ![a].pc = IF on THEN "start" ELSE "stop"]
    /\ UNCHANGED <<lights, override, reach, threadVars, tick>>

(* A thread whose stop event a request has popped but not yet set. *)
Held(t) == \E a \in Admins : request[a].event = t

(* start_christmas_chase; without effect while a thread is registered. *)
start_christmas_chase(t) ==
    IF active # NoOne
    THEN UNCHANGED threadVars
    ELSE /\ show[t] = NoShow /\ ~Held(t)
         /\ active' = t
         /\ show' = [show EXCEPT ![t] = [NoShow EXCEPT !.pc = "loop"]]
         /\ UNCHANGED halted

(* ... then the thread. *)
StartRequest(a, t) ==
    /\ request[a].pc = "start"
    /\ start_christmas_chase(t)
    /\ request' = [request EXCEPT ![a] = NoRequest]
    /\ UNCHANGED <<lights, buildingVars, tick>>

(* stop_christmas_chase takes the entry under the lock ... *)
stop_christmas_chase(a) ==
    /\ request[a].pc = "stop"
    /\ active' = NoOne
    /\ request' = [request EXCEPT ![a] =
          IF active = NoOne THEN [pc |-> "off", event |-> NoOne, todo |-> Lamps]
          ELSE [pc |-> "signal", event |-> active, todo |-> {}]]
    /\ UNCHANGED <<lights, buildingVars, halted, show, tick>>

(* ... signals the thread, which darkens the lights on its way out, ... *)
SignalStop(a) ==
    /\ request[a].pc = "signal"
    /\ halted' = IF show[request[a].event] = NoShow THEN halted
                 ELSE halted \cup {request[a].event}
    /\ request' = [request EXCEPT ![a] = NoRequest]
    /\ UNCHANGED <<lights, buildingVars, active, show, tick>>

(* ... or, with no thread, darkens them itself (_all_off). *)
RequestDarkens(a, l) ==
    /\ request[a].pc = "off" /\ l \in request[a].todo
    /\ write(l, FALSE)
    /\ request' = [request EXCEPT ![a] =
          IF request[a].todo = {l} THEN NoRequest
          ELSE [request[a] EXCEPT !.todo = @ \ {l}]]
    /\ UNCHANGED <<buildingVars, threadVars, tick>>
-----------------------------------------------------------------------------
Leave(t, todo) == show' = [show EXCEPT ![t] = [NoShow EXCEPT !.pc = "dark", !.todo = todo]]

\* Mutant: the flag in the database is never looked at again.
LoopOnEvent(t) ==
    /\ show[t].pc = "loop"
    /\ IF t \in halted
       THEN Leave(t, Lamps)
       ELSE \E l \in Lamps :
               show' = [show EXCEPT ![t] = [pc |-> "light", lit |-> l, todo |-> Lamps,
                                            step |-> 0]]
    /\ UNCHANGED <<lights, buildingVars, active, halted, tick, request>>

(* The head of the loop of _run_chase: leave on the stop event, or on the  *)
(* flag every FlagCheckEvery steps, else light the next lamp.              *)
LoopHead(t) ==
    /\ show[t].pc = "loop"
    /\ IF t \in halted \/ (show[t].step = FlagCheckEvery /\ ~flag)
       THEN Leave(t, Lamps)
       ELSE \E l \in Lamps :
               show' = [show EXCEPT ![t] = [pc |-> "light", lit |-> l, todo |-> Lamps,
                            step |-> IF @.step = FlagCheckEvery THEN 1 ELSE @.step + 1]]
    /\ UNCHANGED <<lights, buildingVars, active, halted, tick, request>>

LightLamp(t, l) ==
    /\ show[t].pc = "light" /\ l \in show[t].todo
    /\ write(l, l = show[t].lit)
    /\ show' = [show EXCEPT ![t].todo = @ \ {l},
                            ![t].pc = IF show[t].todo = {l} THEN "loop" ELSE "light",
                            ![t].lit = IF show[t].todo = {l} THEN NoOne ELSE @]
    /\ UNCHANGED <<buildingVars, active, halted, tick, request>>

(* The registry cannot be had or the flag not be read: _all_off may fail   *)
(* for the same reason.  With no lights to chase the flag is cleared.      *)
ChaseGivesUp(t, empty) ==
    /\ show[t].pc = "loop"
    /\ show[t].step = 0 \/ (show[t].step = FlagCheckEvery /\ ~empty)
    /\ \E todo \in IF empty THEN {{}} ELSE {{}, Lamps} : Leave(t, todo)
    /\ flag' = IF empty THEN FALSE ELSE flag
    /\ UNCHANGED <<lights, override, reach, active, halted, tick, request>>

DarkenLamp(t, l) ==
    /\ show[t].pc = "dark" /\ l \in show[t].todo
    /\ write(l, FALSE)
    /\ show' = [show EXCEPT ![t].todo = @ \ {l}]
    /\ UNCHANGED <<buildingVars, active, halted, tick, request>>

\* Mutant: the entry is removed whoever it belongs to.
UnregisterAny(t) ==
    /\ show[t].pc = "dark" /\ show[t].todo = {}
    /\ active' = NoOne
    /\ halted' = halted \ {t}
    /\ show' = [show EXCEPT ![t] = NoShow]
    /\ UNCHANGED <<lights, buildingVars, tick, request>>

(* The thread removes its own entry only. *)
Unregister(t) ==
    /\ show[t].pc = "dark" /\ show[t].todo = {}
    /\ active' = IF active = t THEN NoOne ELSE active
    /\ halted' = halted \ {t}
    /\ show' = [show EXCEPT ![t] = NoShow]
    /\ UNCHANGED <<lights, buildingVars, tick, request>>
-----------------------------------------------------------------------------
(* apply_sunset_sunrise_overrides_once: apartments in a show are left out. *)
OverrideTick ==
    /\ tick.pc = "idle"
    /\ override # "auto" /\ ~flag
    /\ tick' = [pc |-> "override", on |-> (override = "on"), todo |-> Lamps]
    /\ UNCHANGED <<lights, buildingVars, threadVars, request>>

(* A write that raises ends the apartment's loop. *)
OverrideLamp(l) ==
    /\ tick.pc = "override" /\ l \in tick.todo
    /\ write(l, tick.on)
    /\ tick' = IF tick.todo = {l} \/ ~reach THEN Quiet ELSE [tick EXCEPT !.todo = @ \ {l}]
    /\ UNCHANGED <<buildingVars, threadVars, request>>

(* resume_active_chases: the flag is read before the thread is looked up. *)
ResumeTick ==
    /\ tick.pc = "idle"
    /\ flag
    /\ tick' = [Quiet EXCEPT !.pc = "resume"]
    /\ UNCHANGED <<lights, buildingVars, threadVars, request>>

resume_active_chases(t) ==
    /\ tick.pc = "resume"
    /\ start_christmas_chase(t)
    /\ tick' = Quiet
    /\ UNCHANGED <<lights, buildingVars, request>>
-----------------------------------------------------------------------------
(* Settings change, the hour of sunset or sunrise comes. *)
apartment_building_settings(o) ==
    /\ override' = o
    /\ UNCHANGED <<lights, flag, reach, threadVars, tick, request>>

PlcReach ==
    /\ reach' = ~reach
    /\ UNCHANGED <<lights, flag, override, threadVars, tick, request>>

(* The process that holds requests, scheduler and threads dies ... *)
ServerDies ==
    /\ tick.pc # "down"
    /\ active' = NoOne
    /\ halted' = {}
    /\ show' = [t \in Shows |-> NoShow]
    /\ tick' = [Quiet EXCEPT !.pc = "down"]
    /\ request' = [a \in Admins |-> [NoRequest EXCEPT !.pc = "down"]]
    /\ UNCHANGED <<lights, buildingVars>>

(* ... and comes back. *)
ServerBoots ==
    /\ tick.pc = "down"
    /\ tick' = Quiet
    /\ request' = [a \in Admins |-> NoRequest]
    /\ UNCHANGED <<lights, buildingVars, threadVars>>

ShowStep(t) ==
    \/ LoopHead(t) \/ Unregister(t)
    \/ \E l \in Lamps : LightLamp(t, l) \/ DarkenLamp(t, l)

TickStep ==
    \/ OverrideTick \/ ResumeTick
    \/ \E l \in Lamps : OverrideLamp(l)
    \/ \E t \in Shows : resume_active_chases(t)

RequestStep(a) ==
    \/ stop_christmas_chase(a) \/ SignalStop(a)
    \/ \E l \in Lamps : RequestDarkens(a, l)
    \/ \E t \in Shows : StartRequest(a, t)

EffectsNext ==
    \/ \E a \in Admins : RequestStep(a) \/ \E on \in BOOLEAN : apartment_christmas_mode(a, on)
    \/ TickStep
    \/ \E t \in Shows : ShowStep(t) \/ \E empty \in BOOLEAN : ChaseGivesUp(t, empty)
    \/ \E o \in {"auto", "on", "off"} : apartment_building_settings(o)
    \/ PlcReach \/ ServerDies \/ ServerBoots

(* Threads run, requests end, and the scheduler ticks. *)
EffectsFairness ==
    /\ \A t \in Shows : WF_effectVars(ShowStep(t))
    /\ WF_effectVars(TickStep)
    /\ \A a \in Admins : WF_effectVars(RequestStep(a))

EffectsSpec == EffectsInit /\ [][EffectsNext]_effectVars /\ EffectsFairness
-----------------------------------------------------------------------------
(* Two shows never play on the same lights: of the chase threads alive at  *)
(* most one has not been told to stop or is about to be, and it is the one *)
(* stop_christmas_chase will find, however starts, stops, resumes and ends *)
(* interleave.                                                             *)
OneLiveShow ==
    \A t \in Shows :
        show[t].pc \in {"loop", "light"} /\ t \notin halted /\ ~Held(t) => active = t

(* Once the show is off for good, the PLC reachable and the process up and *)
(* no more requests come, the lights end up as the override wants them and *)
(* stay so, whatever order the last stop, tick, resume and step took.      *)
LightsSettle ==
    \A want \in {"on", "off"} :
        <>[](~flag /\ override = want /\ reach /\ \A a \in Admins : request[a] = NoRequest)
          => <>[](\A l \in Lamps : lights[l] = (want = "on"))
=============================================================================
