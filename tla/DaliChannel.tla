------------------------------ MODULE DaliChannel ------------------------------
(***************************************************************************)
(* One DALI channel and everything in the server that writes to it: direct *)
(* commands of the one Gunicorn worker (find_device/views.py), automation  *)
(* callbacks, background fades with their generation token, and the        *)
(* restore threads of the identify flash (find_device/plc/registry.py).    *)
(*                                                                         *)
(* All of them go through DaliChannel.set_brightness() of                  *)
(* find_device/plc/devices.py, three ADS writes the client serialises one  *)
(* by one: the level, the commit flag up, and 50 ms later the flag down.   *)
(* The controller commits the level when its scan sees the flag rise.      *)
(*                                                                         *)
(* Two facts about time are assumed: the scan misses no change of the flag *)
(* (a scan is shorter than the 50 ms and than two ADS round trips), and    *)
(* calls of set_brightness() end in the order they began (each lasts the   *)
(* same 50 ms).                                                            *)
(***************************************************************************)
EXTENDS Integers

CONSTANTS
  Web,          \* the thread of the one Gunicorn worker
  Rules,        \* threads that run automation callbacks
  Fades,        \* bound: threads of fade_dali() alive at a time
  Restorers,    \* bound: restore threads of flash_raw_dali() alive at a time
  None,
  Pcts,         \* the percentages people ask for
  Durations,    \* the duration_ms people ask for
  StartBytes,   \* levels the wall switches and sensors set
  MaxCommands,  \* bound: commands in a behaviour
  MaxEvents     \* bound: failed ADS calls and wall-switch presses in a behaviour

Threads == {Web} \cup Rules \cup Fades \cup Restorers

ASSUME ThreadAssumption ==
  /\ Web \notin Rules \cup Fades \cup Restorers
  /\ Rules \cap Fades = {} /\ Rules \cap Restorers = {} /\ Fades \cap Restorers = {}
  /\ None \notin Threads

ASSUME DataAssumption ==
  /\ Pcts \subseteq 0..100 /\ Pcts # {}
  /\ Durations \subseteq 100..5000
  /\ StartBytes \subseteq 0..254 /\ StartBytes # {}
  /\ MaxCommands \in Nat /\ MaxEvents \in Nat

VARIABLES
  level, flag,   \* aDaliLevel and aDaliSetLevel of the channel
  seen,          \* the flag as the controller's last scan saw it
  actual,        \* aDaliActual
  newest,        \* the fade that holds the channel's generation token
  at,            \* where each thread is
  pct,           \* the argument of each thread's set_brightness()
  fade,          \* the locals of each fade_to()
  ahead,         \* per thread: who was inside set_brightness() before it began, and still is
  commands,      \* how many commands there were
  events,        \* how many outside events there were
  last,          \* the level the latest command asked for
  owner          \* its thread, while nothing else can decide the level

plcVars == <<level, flag, seen, actual>>
vars == <<plcVars, newest, at, pct, fade, ahead, commands, events, last, owner>>

Places == {"idle", "armed", "sleep", "read", "step", "level", "set", "hold"}

--------------------------------------------------------------------------------
(* Percentages, DALI bytes and the steps of a fade. *)

Clamp(x, top) == IF x < 0 THEN 0 ELSE IF x > top THEN top ELSE x

\* int(p / 100 * 254)
pct_to_byte(p) == (Clamp(p, 100) * 254) \div 100

\* round(b / 254 * 100); no byte is halfway between two percentages.
byte_to_pct(b) == (Clamp(b, 254) * 200 + 254) \div 508

\* max(2, min(16, duration_ms // 100))
StepCount(ms) == IF ms < 200 THEN 2 ELSE IF ms >= 1600 THEN 16 ELSE ms \div 100

\* round(start + (target - start) * i / n); halfway, the float decides.
StepLevels(f) ==
  {k \in 0..100 :
     LET off == 2 * (k * f.n - f.start * f.n - (f.target - f.start) * f.i)
     IN  off <= f.n /\ -off <= f.n}

NewFade(p, n) == [start |-> 0, target |-> p, i |-> 1, n |-> n]

Init ==
  /\ actual \in StartBytes /\ level = 0 /\ flag = FALSE /\ seen = FALSE
  /\ newest = None
  /\ at = [t \in Threads |-> "idle"]
  /\ pct = [t \in Threads |-> 0]
  /\ fade = [f \in Fades |-> NewFade(0, 2)]
  /\ ahead = [t \in Threads |-> {}]
  /\ commands = 0 /\ events = 0
  /\ last = byte_to_pct(actual) /\ owner = None

--------------------------------------------------------------------------------
(* Who may still write. *)

\* A fade that has passed no check since it was superseded will exit.
Live(f) == newest = f /\ at[f] \in {"read", "step"}

Waiting(r) == at[r] \in {"armed", "sleep"}

\* Inside set_brightness().
Pulsing(t) == at[t] \in {"level", "set", "hold"}

\* Nothing is being written and the controller has seen all that was.
Calm == (\A t \in Threads : ~Pulsing(t)) /\ flag = seen

\* Nothing will be written unless a new command comes.
Quiet == Calm /\ (\A f \in Fades : ~Live(f)) /\ (\A r \in Restorers : ~Waiting(r))

\* The thread that decides the outcome of a one-pulse command: with the flag
\* left up by a failed write its pulse would have no rising edge.
SoleOwner(t) == IF Quiet /\ ~flag THEN t ELSE None

--------------------------------------------------------------------------------
(* DaliChannel.set_brightness *)

BeginPulse(t, p) ==
  /\ at' = [at EXCEPT ![t] = "level"]
  /\ pct' = [pct EXCEPT ![t] = p]
  /\ ahead' = [ahead EXCEPT ![t] = {u \in Threads : Pulsing(u)}]

\* t has left set_brightness().
Without(t) == [u \in Threads |-> IF u = t THEN {} ELSE ahead[u] \ {t}]

WriteLevel(t) ==
  /\ at[t] = "level"
  /\ level' = pct_to_byte(pct[t])
  /\ at' = [at EXCEPT ![t] = "set"]
  /\ UNCHANGED <<flag, seen, actual, newest, pct, fade, ahead, commands, events, last, owner>>

WriteSet(t) ==
  /\ at[t] = "set"
  /\ flag = FALSE => seen = FALSE
  /\ flag' = TRUE
  /\ at' = [at EXCEPT ![t] = "hold"]
  /\ UNCHANGED <<level, seen, actual, newest, pct, fade, ahead, commands, events, last, owner>>

\* What each kind of thread does once its pulse is over: a fade goes on to its
\* next step, the flash starts its restore thread, everybody else is done.
AfterPulse(t) ==
  [u \in Threads |->
     IF u = t THEN IF t \in Fades /\ fade[t].i < fade[t].n THEN "step" ELSE "idle"
     ELSE IF t = Web /\ at[u] = "armed" THEN "sleep"
     ELSE at[u]]

\* Mutant: the loop of fade_to() makes one step too many.
WriteResetOneMore(t) ==
  /\ at[t] = "hold" /\ ahead[t] = {}
  /\ flag = TRUE => seen = TRUE
  /\ flag' = FALSE
  /\ at' = IF t \in Fades /\ fade[t].i = fade[t].n THEN [at EXCEPT ![t] = "step"]
           ELSE AfterPulse(t)
  /\ fade' = [f \in Fades |-> IF f = t THEN [fade[f] EXCEPT !.i = @ + 1] ELSE fade[f]]
  /\ ahead' = Without(t)
  /\ UNCHANGED <<level, seen, actual, newest, pct, commands, events, last, owner>>

\* The flag down again, 50 ms later; the loop of a fade counts its steps.
WriteReset(t) ==
  /\ at[t] = "hold" /\ ahead[t] = {}
  /\ flag = TRUE => seen = TRUE
  /\ flag' = FALSE
  /\ at' = AfterPulse(t)
  /\ fade' = [f \in Fades |->
                IF f = t /\ fade[f].i < fade[f].n
                THEN [fade[f] EXCEPT !.i = @ + 1] ELSE fade[f]]
  /\ ahead' = Without(t)
  /\ UNCHANGED <<level, seen, actual, newest, pct, commands, events, last, owner>>

\* An ADS call raises: set_brightness() is left where it is, the flag perhaps
\* up. A fade and a restore end there, a flash starts no restore thread.
Abandon(t) ==
  /\ events < MaxEvents
  /\ events' = events + 1
  /\ at' = [u \in Threads |-> IF u = t \/ (t = Web /\ at[u] = "armed")
                              THEN "idle" ELSE at[u]]
  /\ ahead' = Without(t)
  /\ owner' = IF t \in {owner, Web} THEN None ELSE owner
  /\ UNCHANGED <<level, flag, seen, newest, pct, fade, commands, last>>

AdsFails(t) ==
  /\ at[t] \in {"read", "level", "set", "hold"}
  /\ Abandon(t)
  /\ UNCHANGED actual

\* write_dali_brightness() then tries Modbus, which needs no pulse.
ModbusFallback ==
  /\ Pulsing(Web)
  /\ \A r \in Restorers : at[r] # "armed"
  /\ Abandon(Web)
  /\ actual' = pct_to_byte(pct[Web])

--------------------------------------------------------------------------------
(* Commands *)

Issue(p, t) ==
  /\ commands < MaxCommands /\ commands' = commands + 1
  /\ last' = p /\ owner' = t

\* set_dali_brightness without a duration, set_dali_brightness_all,
\* set_room_brightness; and _execute_automation on a callback thread.
Direct(t, p) ==
  /\ t \in {Web} \cup Rules /\ at[t] = "idle"
  /\ BeginPulse(t, p)
  /\ Issue(p, SoleOwner(t))
  /\ UNCHANGED <<plcVars, newest, fade, events>>

\* Mutant: the token of the running fade is not taken away.
FadeDaliKeepingToken(f, p, ms) ==
  /\ at[Web] = "idle" /\ at[f] = "idle"
  /\ newest' = IF newest = None THEN f ELSE newest
  /\ at' = [at EXCEPT ![f] = "read"]
  /\ fade' = [fade EXCEPT ![f] = NewFade(p, StepCount(ms))]
  /\ Issue(p, IF \E r \in Restorers : Waiting(r) THEN None ELSE f)
  /\ UNCHANGED <<plcVars, pct, ahead, events>>

\* set_dali_brightness with a duration: fade_dali() takes the token and starts
\* a thread. Whatever else is writing ends before the fade's second step, so
\* only a restore thread that still sleeps can decide otherwise.
fade_dali(f, p, ms) ==
  /\ at[Web] = "idle" /\ at[f] = "idle"
  /\ newest' = f
  /\ at' = [at EXCEPT ![f] = "read"]
  /\ fade' = [fade EXCEPT ![f] = NewFade(p, StepCount(ms))]
  /\ Issue(p, IF \E r \in Restorers : Waiting(r) THEN None ELSE f)
  /\ UNCHANGED <<plcVars, pct, ahead, events>>

\* The first lines of fade_to(). A fade that finds the channel at its target
\* ends without a write, whatever is still on its way to the controller.
FadeRead(f) ==
  LET start == byte_to_pct(actual)
      done  == start = fade[f].target
  IN  /\ at[f] = "read"
      /\ at' = [at EXCEPT ![f] = IF done THEN "idle" ELSE "step"]
      /\ fade' = [fade EXCEPT ![f].start = start]
      /\ owner' = IF owner = f /\ done /\ ~Calm THEN None ELSE owner
      /\ UNCHANGED <<plcVars, newest, pct, ahead, commands, events, last>>

\* Mutant: should_continue() is not asked.
FadeStepUnchecked(f) ==
  /\ at[f] = "step"
  /\ \E p \in StepLevels(fade[f]) : BeginPulse(f, p)
  /\ UNCHANGED <<plcVars, newest, fade, commands, events, last, owner>>

\* One turn of fade_to()'s loop: should_continue(), then the step's pulse.
FadeStep(f) ==
  /\ at[f] = "step"
  /\ \/ newest = f /\ \E p \in StepLevels(fade[f]) : BeginPulse(f, p)
     \/ newest # f /\ at' = [at EXCEPT ![f] = "idle"] /\ UNCHANGED <<pct, ahead>>
  /\ UNCHANGED <<plcVars, newest, fade, commands, events, last, owner>>

\* flash_raw_dali(): the restore thread r puts back what was read here.
flash_raw_dali(r) ==
  LET original == byte_to_pct(actual)
  IN  /\ at[Web] = "idle" /\ at[r] = "idle"
      /\ at' = [at EXCEPT ![Web] = "level", ![r] = "armed"]
      /\ pct' = [pct EXCEPT ![Web] = IF original >= 70 THEN 20 ELSE 80,
                            ![r] = original]
      /\ ahead' = [ahead EXCEPT ![Web] = {u \in Threads : Pulsing(u)}]
      /\ Issue(original, SoleOwner(r))
      /\ UNCHANGED <<plcVars, newest, fade, events>>

Restore(r) ==
  /\ at[r] = "sleep"
  /\ BeginPulse(r, pct[r])
  /\ UNCHANGED <<plcVars, newest, fade, commands, events, last, owner>>

--------------------------------------------------------------------------------
(* The controller *)

\* A scan: the rising edge of the flag commits the level.
Scan ==
  /\ seen # flag
  /\ seen' = flag
  /\ actual' = IF flag THEN level ELSE actual
  /\ UNCHANGED <<level, flag, newest, at, pct, fade, ahead, commands, events, last, owner>>

\* A wall switch or a motion sensor moves the light. A fade that still has a
\* step to make has the final say.
WallSwitch(b) ==
  /\ events < MaxEvents /\ events' = events + 1
  /\ actual' = b
  /\ owner' = IF owner \in Fades /\ at[owner] \in {"read", "step"} THEN owner ELSE None
  /\ UNCHANGED <<level, flag, seen, newest, at, pct, fade, ahead, commands, last>>

--------------------------------------------------------------------------------
Command ==
  \/ \E t \in {Web} \cup Rules, p \in Pcts : Direct(t, p)
  \/ \E f \in Fades, p \in Pcts, ms \in Durations : fade_dali(f, p, ms)
  \/ \E r \in Restorers : flash_raw_dali(r)

Write(t) == WriteLevel(t) \/ WriteSet(t) \/ WriteReset(t)

Run(t) ==
  \/ Write(t)
  \/ t \in Fades /\ (FadeRead(t) \/ FadeStep(t))
  \/ t \in Restorers /\ Restore(t)

Outside ==
  \/ \E t \in Threads : AdsFails(t)
  \/ ModbusFallback
  \/ \E b \in StartBytes : WallSwitch(b)

Next == Command \/ (\E t \in Threads : Run(t)) \/ Scan \/ Outside

Spec == Init /\ [][Next]_vars

--------------------------------------------------------------------------------
(* Properties *)

Pct == 0..100

FadeLocals == [start : Pct, target : Pct, i : 1..16, n : 2..16]

\* The type of the state, with the places each kind of thread can be in.
TypeOK ==
  /\ level \in 0..254 /\ flag \in BOOLEAN /\ seen \in BOOLEAN /\ actual \in 0..254
  /\ newest \in Fades \cup {None}
  /\ at \in [Threads -> Places]
  /\ \A t \in {Web} \cup Rules : at[t] \notin {"armed", "sleep", "read", "step"}
  /\ \A f \in Fades : at[f] \notin {"armed", "sleep"}
  /\ \A r \in Restorers : at[r] \notin {"read", "step"}
  /\ pct \in [Threads -> Pct]
  /\ fade \in [Fades -> FadeLocals]
  /\ \A f \in Fades : fade[f].i <= fade[f].n
  /\ ahead \in [Threads -> SUBSET Threads]
  /\ commands \in 0..MaxCommands /\ events \in 0..MaxEvents
  /\ last \in Pct
  /\ owner \in Threads \cup {None}

\* A command nothing later or pending overrides is what the channel ends at
\* and what the app reads back: a fade whatever was in flight when it took the
\* token, failed writes of others included; a direct command or a flash that
\* began on a quiet channel.
Settles == Quiet /\ owner # None => byte_to_pct(actual) = last

\* Two fades are inside set_brightness() at once only while the newer one makes
\* its first step: the last call of a superseded fade never meets a later step
\* of its successor, the one that commits the target among them.
FadesNeverFight ==
  \A f, g \in Fades :
    f # g /\ Pulsing(f) /\ Pulsing(g) => fade[f].i = 1 \/ fade[g].i = 1

\* views.py: the requested state "always resolves to whatever request's write
\* reaches the PLC LAST, in arrival order".
LastCommandWins == Quiet => byte_to_pct(actual) = last

================================================================================
