----------------------------- MODULE SuperScan ------------------------------
(***************************************************************************)
(* SuperScan (superscan.py, superscan_views.py) on one apartment, with the *)
(* other things that drive an output for a moment and put it back: the     *)
(* commissioning test (test_io) and the relabelling flashes of the         *)
(* registry.  A scan is a ScanRun row and a background thread; the row is  *)
(* also the channel through which it is stopped.                           *)
(*                                                                         *)
(* Abstractions: an output is on or off; a DALI channel's flash to 20% or  *)
(* 80% and a toggle's are the other value, a relay's and an appliance's is *)
(* on, a curtain's is "moving" and it is stopped, not put back.            *)
(***************************************************************************)
EXTENDS Naturals

CONSTANTS
    Runs,         \* primary keys of ScanRun rows
    Outputs,      \* known capabilities an active test may write
    Inputs,       \* known capabilities that are only read
    Symbols,      \* unmapped symbols a deep scan may meet
    MaxPulses,    \* bound: restore threads of one output that will write the same value
    None

Modes == {"quick", "full", "deep"}
Known == Outputs \cup Inputs
Capabilities == Known \cup Symbols
Kinds == {"flip", "on", "curtain"}
ASSUME ScanNoneAssumption == None \notin Capabilities
ASSUME PulseAssumption == MaxPulses \in Nat

NoRun == [status |-> "none", cancel |-> FALSE]
NoEngine == [pc |-> "none", mode |-> None, todo |-> {}, seen |-> {},
             dev |-> None, original |-> FALSE, mid |-> FALSE]

VARIABLES
    scan,         \* ScanRun rows
    engine,       \* the thread of each row: mode, and in seen what has it as last_seen_scan
    cap,          \* DiscoveredCapability: still_present and test_status
    value,        \* the outputs
    pulse,        \* restore threads of test_io and flash_raw_*: how many will write each value
    plc,          \* the registry is connected
    kind,         \* what an output is: it never changes
    wanted,       \* history: what residents last asked of an output
    disturbed     \* history: outputs whose test overlapped another writer or failed

scanVars == <<scan, engine, cap>>
fieldVars == <<value, wanted, disturbed>>
plcVars == <<plc, kind>>
superVars == <<scanVars, fieldVars, pulse, plcVars>>

NoPulse == [v \in BOOLEAN |-> 0]

ScanInit ==
    /\ scan = [r \in Runs |-> NoRun]
    /\ engine = [r \in Runs |-> NoEngine]
    /\ cap = [c \in Capabilities |-> [present |-> FALSE, status |-> "not_tested"]]
    /\ value \in [Outputs -> BOOLEAN]
    /\ pulse = [d \in Outputs |-> NoPulse]
    /\ plc = TRUE
    /\ kind \in [Outputs -> Kinds]
    /\ wanted = value
    /\ disturbed = {}

Testing(d) == \E r \in Runs : engine[r].pc \in {"flashed", "restored"} /\ engine[r].dev = d
Pulsing(d) == pulse[d] # NoPulse
Busy(d) == Testing(d) \/ Pulsing(d)
set_state(d, v) == value' = [value EXCEPT ![d] = v]
Flash(d) == IF kind[d] = "flip" THEN ~value[d] ELSE TRUE
Back(d, original) == IF kind[d] = "curtain" THEN FALSE ELSE original
-----------------------------------------------------------------------------
(* The view's check and the row's unique constraint come to the same. *)
start(r, mode) ==
    /\ scan[r] = NoRun
    /\ \A s \in Runs : scan[s].status # "running"
    /\ scan' = [scan EXCEPT ![r] = [status |-> "running", cancel |-> FALSE]]
    /\ engine' = [engine EXCEPT ![r].pc = "begin", ![r].mode = mode]
    /\ UNCHANGED <<cap, fieldVars, pulse, plcVars>>

\* Mutant: the stop view ends the run itself.
StopEndsRun(r) ==
    /\ scan[r].status = "running"
    /\ scan' = [scan EXCEPT ![r].cancel = TRUE, ![r].status = "stopped"]
    /\ UNCHANGED <<engine, cap, fieldVars, pulse, plcVars>>

stop(r) ==
    /\ scan[r].status = "running"
    /\ scan' = [scan EXCEPT ![r].cancel = TRUE]
    /\ UNCHANGED <<engine, cap, fieldVars, pulse, plcVars>>

(* execute() and _run_in_background: the whole row is saved, with the      *)
(* cancel flag as the engine last read it.                                 *)
End(r, status) ==
    /\ scan' = [scan EXCEPT ![r].status = status, ![r].cancel = (status = "stopped")]
    /\ engine' = [engine EXCEPT ![r] = NoEngine]

(* _check_cancel, before every step. *)
Cancelled(r) ==
    /\ engine[r].pc \in {"read", "test", "deep"}
    /\ engine[r].todo # {}
    /\ scan[r].cancel
    /\ End(r, "stopped")
    /\ UNCHANGED <<cap, fieldVars, pulse, plcVars>>

(* An exception outside the tests: the PLC or the database. *)
Fails(r) ==
    /\ engine[r].pc \in {"begin", "read", "test", "deep", "finish"}
    /\ End(r, "failed")
    /\ UNCHANGED <<cap, fieldVars, pulse, plcVars>>

Proceeds(r, pc) ==
    /\ engine[r].pc = pc
    /\ ~scan[r].cancel \/ engine[r].todo = {}

Goto(r, pc, todo) ==
    engine' = [engine EXCEPT ![r] =
        [NoEngine EXCEPT !.pc = pc, !.todo = todo, !.mode = engine[r].mode, !.seen = engine[r].seen]]

_run_scan(r) ==
    /\ engine[r].pc = "begin"
    /\ Goto(r, "read", Known)
    /\ UNCHANGED <<scan, cap, fieldVars, pulse, plcVars>>

Seen(r, c) ==
    /\ engine' = [engine EXCEPT ![r].todo = @ \ {c}, ![r].seen = @ \cup {c}]
    /\ cap' = [cap EXCEPT ![c] = [present |-> TRUE,
           status |-> IF @.status = "not_tested" /\ c \in Known THEN "observed" ELSE @.status]]

\* Mutant: a capability whose read failed is tried again.
ReadAgain(r, c) ==
    /\ Proceeds(r, "read") /\ c \in engine[r].todo
    /\ IF plc THEN Seen(r, c) ELSE UNCHANGED <<engine, cap>>
    /\ UNCHANGED <<scan, fieldVars, pulse, plcVars>>

(* A read that fails still counts as seen. *)
_upsert_capability(r, c) ==
    /\ Proceeds(r, "read") /\ c \in engine[r].todo
    /\ Seen(r, c)
    /\ UNCHANGED <<scan, fieldVars, pulse, plcVars>>

(* Between the phases of a scan. *)
NextPhase(r) ==
    /\ engine[r].todo = {}
    /\ \/ /\ engine[r].pc = "read"
          /\ IF engine[r].mode = "quick" THEN Goto(r, "finish", {}) ELSE Goto(r, "test", Outputs)
       \/ /\ engine[r].pc = "test"
          /\ IF engine[r].mode = "full" THEN Goto(r, "finish", {})
             ELSE \E found \in SUBSET Symbols : Goto(r, "deep", found)
       \/ engine[r].pc = "deep" /\ Goto(r, "finish", {})
    /\ UNCHANGED <<scan, cap, fieldVars, pulse, plcVars>>

Verdict(d, status) == cap' = [cap EXCEPT ![d].status = status]

Fault == IF plc THEN "tested_failed" ELSE "unavailable"

(* Not connected, which is recorded without a test, or the test raises     *)
(* before it has written anything.                                         *)
Unavailable(r, d) ==
    /\ Proceeds(r, "test") /\ d \in engine[r].todo
    /\ Verdict(d, Fault)
    /\ engine' = [engine EXCEPT ![r].todo = @ \ {d}]
    /\ UNCHANGED <<scan, fieldVars, pulse, plcVars>>

(* _safe_active_test: read the output and flash it ... *)
BeginTest(r, d) ==
    /\ Proceeds(r, "test") /\ d \in engine[r].todo
    /\ plc
    /\ engine' = [engine EXCEPT ![r].pc = "flashed", ![r].todo = @ \ {d},
                                ![r].dev = d, ![r].original = value[d], ![r].mid = Flash(d)]
    /\ set_state(d, Flash(d))
    /\ disturbed' = IF Pulsing(d) THEN disturbed \cup {d} ELSE disturbed
    /\ UNCHANGED <<scan, cap, wanted, pulse, plcVars>>

\* Mutant: the test leaves the output as it flashed it.
NoRestore(r) ==
    /\ engine[r].pc = "flashed"
    /\ engine' = [engine EXCEPT ![r].pc = "restored", ![r].mid = TRUE]
    /\ UNCHANGED <<scan, cap, fieldVars, pulse, plcVars>>

(* ... wait, look at it (relays, appliances and toggles), put it back ... *)
RestoreTested(r) ==
    /\ engine[r].pc = "flashed"
    /\ plc
    /\ LET d == engine[r].dev
           flashed == value[d] = engine[r].mid
       IN  /\ set_state(d, Back(d, engine[r].original))
           /\ engine' = [engine EXCEPT ![r].pc = "restored", ![r].mid = flashed]
    /\ UNCHANGED <<scan, cap, wanted, disturbed, pulse, plcVars>>

(* ... and read it back. *)
VerifyTested(r) ==
    /\ engine[r].pc = "restored"
    /\ plc
    /\ LET d == engine[r].dev
           ok == engine[r].mid /\ value[d] = Back(d, engine[r].original)
       IN  Verdict(d, IF ok THEN "tested_ok" ELSE "tested_failed")
    /\ Goto(r, "test", engine[r].todo)
    /\ UNCHANGED <<scan, fieldVars, pulse, plcVars>>

(* A read or a write raises, because the link is lost or because of this   *)
(* symbol alone: the output stays as it is.                                *)
TestRaises(r) ==
    /\ engine[r].pc \in {"flashed", "restored"}
    /\ disturbed' = disturbed \cup {engine[r].dev}
    /\ Verdict(engine[r].dev, Fault)
    /\ Goto(r, "test", engine[r].todo)
    /\ UNCHANGED <<scan, value, wanted, pulse, plcVars>>

_deep_unknown_pass(r, c) ==
    /\ Proceeds(r, "deep") /\ c \in engine[r].todo
    /\ Seen(r, c)
    /\ UNCHANGED <<scan, fieldVars, pulse, plcVars>>

(* What this run did not touch is no longer present, symbols included. *)
Finish(r) ==
    /\ engine[r].pc = "finish"
    /\ cap' = [c \in Capabilities |->
                 IF c \in engine[r].seen THEN cap[c] ELSE [cap[c] EXCEPT !.present = FALSE]]
    /\ End(r, "completed")
    /\ UNCHANGED <<fieldVars, pulse, plcVars>>
-----------------------------------------------------------------------------
(* test_io and flash_raw_*: the request flashes, a thread restores.  A     *)
(* state that could not be read counts as off.  Nothing keeps a second     *)
(* pulse from starting before the first is over: it finds the output       *)
(* flashed and takes that for what to restore.                             *)
test_io(d, readable) ==
    /\ plc
    /\ pulse[d][readable /\ value[d]] < MaxPulses
    /\ pulse' = [pulse EXCEPT ![d][readable /\ value[d]] = @ + 1]
    /\ set_state(d, Flash(d))
    /\ disturbed' = IF Busy(d) \/ ~readable THEN disturbed \cup {d} ELSE disturbed
    /\ UNCHANGED <<scanVars, wanted, plcVars>>

(* One of the threads wakes up; an exception is swallowed. *)
_restore(d, original, raises) ==
    /\ pulse[d][original] > 0
    /\ pulse' = [pulse EXCEPT ![d][original] = @ - 1]
    /\ IF plc /\ ~raises THEN set_state(d, Back(d, original)) ELSE UNCHANGED value
    /\ disturbed' = IF plc /\ ~raises THEN disturbed ELSE disturbed \cup {d}
    /\ UNCHANGED <<scanVars, wanted, plcVars>>

(* A resident's command, a scene or an automation. *)
Command(d, v) ==
    /\ plc
    /\ set_state(d, v)
    /\ wanted' = [wanted EXCEPT ![d] = v]
    /\ disturbed' = IF Busy(d) THEN disturbed \cup {d} ELSE disturbed \ {d}
    /\ UNCHANGED <<scanVars, pulse, plcVars>>

PlcChanges ==
    /\ plc' = ~plc
    /\ UNCHANGED <<scanVars, fieldVars, pulse, kind>>

(* The worker is recycled: its threads are daemons and die where they are. *)
ProcessDies ==
    /\ engine' = [r \in Runs |-> NoEngine]
    /\ pulse' = [d \in Outputs |-> NoPulse]
    /\ disturbed' = disturbed \cup {d \in Outputs : Busy(d)}
    /\ UNCHANGED <<scan, cap, value, wanted, plcVars>>
-----------------------------------------------------------------------------
EngineStep(r) ==
    \/ Cancelled(r) \/ _run_scan(r) \/ NextPhase(r) \/ RestoreTested(r)
    \/ VerifyTested(r) \/ TestRaises(r) \/ Finish(r)
    \/ \E c \in Known : _upsert_capability(r, c)
    \/ \E d \in Outputs : Unavailable(r, d) \/ BeginTest(r, d)
    \/ \E c \in Symbols : _deep_unknown_pass(r, c)

ScanNext ==
    \/ \E r \in Runs : EngineStep(r) \/ Fails(r) \/ stop(r) \/ \E mode \in Modes : start(r, mode)
    \/ \E d \in Outputs :
          \/ \E original, raises \in BOOLEAN : _restore(d, original, raises)
          \/ \E readable \in BOOLEAN : test_io(d, readable)
          \/ \E v \in BOOLEAN : Command(d, v)
    \/ PlcChanges \/ ProcessDies

(* The thread runs; that it fails is never required of it. *)
ScanFairness == \A r \in Runs : WF_superVars(EngineStep(r))

ScanSpec == ScanInit /\ [][ScanNext]_superVars /\ ScanFairness
-----------------------------------------------------------------------------
(* One apartment's PLC is never driven by two scans: a thread at work has  *)
(* a running row, and so no second scan can start, stop requests included. *)
OneScanThread ==
    \A r, s \in Runs :
        /\ engine[r].pc # "none" => scan[r].status = "running"
        /\ engine[r].pc # "none" /\ engine[s].pc # "none" => r = s

(* A test, a commissioning pulse and an identification flash put an output *)
(* back where the residents had it, and a curtain to rest, whatever order  *)
(* tests and pulses of different outputs, links and stops come in.  Not    *)
(* claimed of an output in disturbed: one that two writers had at once (a  *)
(* second pulse takes the flashed value for the original and leaves it),   *)
(* whose state could not be read, whose write failed, or whose writer died *)
(* with the process.                                                       *)
TestsRestore ==
    \A d \in Outputs :
        ~Busy(d) /\ d \notin disturbed
          => value[d] = wanted[d] \/ (kind[d] = "curtain" /\ ~value[d])

(* Every scan thread ends, in whatever mode, with a lossy link and however *)
(* often it is stopped.                                                    *)
ScanEnds == \A r \in Runs : engine[r].pc # "none" ~> engine[r].pc = "none"
=============================================================================
