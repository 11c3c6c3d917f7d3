----------------------------- MODULE JobsProofs ------------------------------
(***************************************************************************)
(* Proofs about the jobs that outlive a request and drive outputs: scans   *)
(* (SuperScan, for any number of runs, outputs, inputs and unmapped        *)
(* symbols) and shows (LightingEffects, for any number of lamps, chase     *)
(* threads and requests).  The two share no variable.                      *)
(***************************************************************************)
EXTENDS SuperScan, LightingEffects, TLAPS

-----------------------------------------------------------------------------
(* SuperScan. *)


RunRow == [status : {"none", "running", "stopped", "failed", "completed"}, cancel : BOOLEAN]
Engine == [pc : {"none", "begin", "read", "test", "deep", "finish", "flashed", "restored"},
           mode : Modes \cup {None}, todo : SUBSET Capabilities, seen : SUBSET Capabilities,
           dev : Outputs \cup {None}, original : BOOLEAN, mid : BOOLEAN]

EngineTypes ==
    /\ scan \in [Runs -> RunRow]
    /\ engine \in [Runs -> Engine]

(* The phase at which an output is in the hands of an active test. *)
AtTest(e) == e.pc \in {"flashed", "restored"}

FieldTypes ==
    /\ value \in [Outputs -> BOOLEAN]
    /\ wanted \in [Outputs -> BOOLEAN]
    /\ pulse \in [Outputs -> [BOOLEAN -> Nat]]
    /\ kind \in [Outputs -> Kinds]
    /\ plc \in BOOLEAN
    /\ \A r \in Runs : AtTest(engine[r]) => engine[r].dev \in Outputs

LEMMA NoneIsEngine == NoEngine \in Engine /\ NoRun \in RunRow
BY DEF NoEngine, Engine, NoRun, RunRow

(* Steps of a scan that touch no output: every run's test, if it has one,  *)
(* goes on as it was.                                                      *)
QuietStep ==
    \E r \in Runs :
        \/ Cancelled(r) \/ Fails(r) \/ _run_scan(r) \/ NextPhase(r) \/ Finish(r) \/ stop(r)
        \/ \E mode \in Modes : start(r, mode)
        \/ \E c \in Known : _upsert_capability(r, c)
        \/ \E d \in Outputs : Unavailable(r, d)
        \/ \E c \in Symbols : _deep_unknown_pass(r, c)

TestStep ==
    \E r \in Runs :
        \/ RestoreTested(r) \/ VerifyTested(r) \/ TestRaises(r)
        \/ \E d \in Outputs : BeginTest(r, d)

FieldStep ==
    \/ \E d \in Outputs :
          \/ \E original, raises \in BOOLEAN : _restore(d, original, raises)
          \/ \E readable \in BOOLEAN : test_io(d, readable)
          \/ \E v \in BOOLEAN : Command(d, v)
    \/ PlcChanges \/ ProcessDies

LEMMA ScanCases == ScanNext => QuietStep \/ TestStep \/ FieldStep
BY DEF ScanNext, EngineStep, QuietStep, TestStep, FieldStep
-----------------------------------------------------------------------------
(* What a step does to the run it is about: the row, and the thread. *)
Moves(r) ==
    \E e \in Engine :
        /\ engine' = [engine EXCEPT ![r] = e]
        /\ \/ scan' = scan /\ engine[r].pc # "none" /\ e.pc # "none"
           \/ /\ scan' = [scan EXCEPT ![r] = [status |-> "running", cancel |-> FALSE]]
              /\ scan[r] = NoRun
              /\ \A s \in Runs : scan[s].status # "running"
           \/ /\ \E row \in RunRow : row.status # "running" /\ scan' = [scan EXCEPT ![r] = row]
              /\ e.pc = "none"

LEMMA GotoMoves ==
    ASSUME EngineTypes, NEW r \in Runs, NEW pc \in {"read", "test", "deep", "finish"},
           NEW todo \in SUBSET Capabilities, Goto(r, pc, todo)
    PROVE  \E e \in Engine : engine' = [engine EXCEPT ![r] = e] /\ e.pc = pc
<1> DEFINE e == [NoEngine EXCEPT !.pc = pc, !.todo = todo, !.mode = engine[r].mode,
                                 !.seen = engine[r].seen]
<1>1. engine[r].mode \in Modes \cup {None} /\ engine[r].seen \in SUBSET Capabilities
  BY DEF EngineTypes, Engine
<1>2. ASSUME NEW n \in Engine
      PROVE  LET m == [n EXCEPT !.pc = pc, !.todo = todo, !.mode = engine[r].mode,
                                !.seen = engine[r].seen]
             IN  m \in Engine /\ m.pc = pc
  BY <1>1 DEF Engine
<1>3. e \in Engine /\ e.pc = pc
  BY <1>2, NoneIsEngine
<1>4. engine' = [engine EXCEPT ![r] = e]
  BY DEF Goto
<1> HIDE DEF e
<1>5. QED
  BY <1>3, <1>4

LEMMA EndMoves ==
    ASSUME EngineTypes, NEW r \in Runs, NEW status \in {"stopped", "failed", "completed"},
           End(r, status)
    PROVE  Moves(r) /\ engine' = [engine EXCEPT ![r] = NoEngine]
<1> DEFINE row == [scan[r] EXCEPT !.status = status, !.cancel = (status = "stopped")]
<1>1. row \in RunRow /\ row.status # "running"
  BY DEF EngineTypes, RunRow
<1>2. scan' = [scan EXCEPT ![r] = row]
  BY DEF End, EngineTypes, RunRow
<1>3. NoEngine \in Engine /\ NoEngine.pc = "none"
  BY NoneIsEngine DEF NoEngine
<1>4. QED
  BY <1>1, <1>2, <1>3 DEF End, Moves

LEMMA SeenMoves ==
    ASSUME EngineTypes, NEW r \in Runs, NEW c \in Capabilities, Seen(r, c)
    PROVE  \E e \in Engine : engine' = [engine EXCEPT ![r] = e] /\ e.pc = engine[r].pc
<1> DEFINE e == [engine[r] EXCEPT !.todo = @ \ {c}, !.seen = @ \cup {c}]
<1>1. e \in Engine /\ e.pc = engine[r].pc
  BY DEF EngineTypes, Engine
<1>2. engine' = [engine EXCEPT ![r] = e]
  BY DEF Seen, EngineTypes, Engine
<1>3. QED
  BY <1>1, <1>2

(* A quiet step leaves the outputs alone and either only asks a run to     *)
(* stop or moves the thread of one run between phases without a test.      *)
LEMMA QuietMoves ==
    ASSUME EngineTypes, OneScanThread, QuietStep
    PROVE  /\ UNCHANGED <<fieldVars, pulse, plcVars>>
           /\ \/ /\ engine' = engine
                 /\ \E r \in Runs : /\ scan[r].status = "running"
                                    /\ scan' = [scan EXCEPT ![r].cancel = TRUE]
              \/ \E r \in Runs : /\ Moves(r)
                                 /\ ~AtTest(engine[r])
                                 /\ ~AtTest(engine'[r])
<1>1. PICK r \in Runs :
        \/ Cancelled(r) \/ Fails(r) \/ _run_scan(r) \/ NextPhase(r) \/ Finish(r) \/ stop(r)
        \/ \E mode \in Modes : start(r, mode)
        \/ \E c \in Known : _upsert_capability(r, c)
        \/ \E d \in Outputs : Unavailable(r, d)
        \/ \E c \in Symbols : _deep_unknown_pass(r, c)
  BY DEF QuietStep
<1> DEFINE Kept == UNCHANGED <<fieldVars, pulse, plcVars>>
           Moved == Moves(r) /\ ~AtTest(engine[r]) /\ ~AtTest(engine'[r])
<1>2. ASSUME Cancelled(r) \/ Fails(r) \/ Finish(r) PROVE Kept /\ Moved
  <2>1. Kept /\ ~AtTest(engine[r])
    BY <1>2 DEF Cancelled, Fails, Finish, AtTest
  <2>2. \E status \in {"stopped", "failed", "completed"} : End(r, status)
    BY <1>2 DEF Cancelled, Fails, Finish
  <2>3. Moves(r) /\ engine'[r] = NoEngine
    BY <2>2, EndMoves DEF EngineTypes
  <2>4. QED
    BY <2>1, <2>3 DEF AtTest, NoEngine
<1>3. ASSUME NEW e \in Engine, engine' = [engine EXCEPT ![r] = e], scan' = scan,
             engine[r].pc # "none", e.pc # "none", ~AtTest(engine[r]), ~AtTest(e)
      PROVE  Moved
  BY <1>3 DEF Moves, EngineTypes
<1>4. ASSUME _run_scan(r) PROVE Kept /\ Moved
  <2>1. PICK e \in Engine : engine' = [engine EXCEPT ![r] = e] /\ e.pc = "read"
    BY <1>4, GotoMoves DEF _run_scan, Capabilities
  <2>2. QED
    BY <1>3, <1>4, <2>1 DEF _run_scan, AtTest
<1>5. ASSUME NextPhase(r) PROVE Kept /\ Moved
  <2>1. \E pc \in {"test", "deep", "finish"}, todo \in SUBSET Capabilities : Goto(r, pc, todo)
    BY <1>5 DEF NextPhase, Capabilities, Known
  <2>2. PICK e \in Engine : /\ engine' = [engine EXCEPT ![r] = e]
                            /\ e.pc \in {"test", "deep", "finish"}
    BY <2>1, GotoMoves
  <2>3. Kept /\ scan' = scan /\ engine[r].pc \in {"read", "test", "deep"}
    BY <1>5 DEF NextPhase
  <2>4. QED
    BY <1>3, <2>2, <2>3 DEF AtTest
<1>6. ASSUME NEW c \in Capabilities, _upsert_capability(r, c) \/ _deep_unknown_pass(r, c)
      PROVE  Kept /\ Moved
  <2>1. Seen(r, c) /\ engine[r].pc \in {"read", "deep"} /\ Kept /\ scan' = scan
    BY <1>6 DEF _upsert_capability, _deep_unknown_pass, Proceeds
  <2>2. PICK e \in Engine : engine' = [engine EXCEPT ![r] = e] /\ e.pc = engine[r].pc
    BY <2>1, SeenMoves
  <2>3. QED
    BY <1>3, <2>1, <2>2 DEF AtTest
<1>7. ASSUME NEW d \in Outputs, Unavailable(r, d) PROVE Kept /\ Moved
  <2> DEFINE e == [engine[r] EXCEPT !.todo = @ \ {d}]
  <2>1. e \in Engine /\ e.pc = engine[r].pc
    BY DEF EngineTypes, Engine
  <2>2. engine' = [engine EXCEPT ![r] = e]
    BY <1>7 DEF Unavailable, EngineTypes, Engine
  <2>3. Kept /\ scan' = scan /\ engine[r].pc = "test"
    BY <1>7 DEF Unavailable, Proceeds
  <2>4. QED
    BY <1>3, <2>1, <2>2, <2>3 DEF AtTest
<1>8. ASSUME NEW mode \in Modes, start(r, mode) PROVE Kept /\ Moved
  <2> DEFINE e == [engine[r] EXCEPT !.pc = "begin", !.mode = mode]
  <2>1. e \in Engine /\ e.pc = "begin"
    BY DEF EngineTypes, Engine
  <2>2. engine' = [engine EXCEPT ![r] = e]
    BY <1>8 DEF start, EngineTypes, Engine
  <2>3. engine[r].pc = "none"
    BY <1>8 DEF start, OneScanThread, NoRun
  <2>4. QED
    BY <1>8, <2>1, <2>2, <2>3 DEF start, Moves, EngineTypes, AtTest
<1>9. ASSUME stop(r)
      PROVE  Kept /\ engine' = engine /\ scan[r].status = "running"
                  /\ scan' = [scan EXCEPT ![r].cancel = TRUE]
  BY <1>9 DEF stop
<1>10. QED
  BY <1>1, <1>2, <1>4, <1>5, <1>6, <1>7, <1>8, <1>9 DEF Capabilities, Known

(* A test moves the thread of its own run, on an output, and leaves the    *)
(* rows alone.                                                             *)
LEMMA TestMoves ==
    ASSUME EngineTypes, FieldTypes, NEW r \in Runs,
           \/ RestoreTested(r) \/ VerifyTested(r) \/ TestRaises(r)
           \/ \E d \in Outputs : BeginTest(r, d)
    PROVE  /\ Moves(r) /\ UNCHANGED <<wanted, pulse, plcVars>>
           /\ AtTest(engine'[r]) => engine'[r].dev \in Outputs
<1>1. ASSUME NEW e \in Engine, engine' = [engine EXCEPT ![r] = e], scan' = scan,
             engine[r].pc # "none", e.pc # "none", AtTest(e) => e.dev \in Outputs
      PROVE  Moves(r) /\ (AtTest(engine'[r]) => engine'[r].dev \in Outputs)
  BY <1>1 DEF Moves, EngineTypes
<1>2. ASSUME NEW d \in Outputs, BeginTest(r, d)
      PROVE  Moves(r) /\ (AtTest(engine'[r]) => engine'[r].dev \in Outputs)
  <2> DEFINE e == [engine[r] EXCEPT !.pc = "flashed", !.todo = @ \ {d}, !.dev = d,
                                    !.original = value[d], !.mid = Flash(d)]
  <2>1. value[d] \in BOOLEAN /\ Flash(d) \in BOOLEAN
    BY DEF FieldTypes, Flash
  <2>2. e \in Engine /\ e.pc = "flashed" /\ e.dev = d
    BY <2>1 DEF EngineTypes, Engine
  <2>3. engine' = [engine EXCEPT ![r] = e]
    BY <1>2 DEF BeginTest, EngineTypes, Engine
  <2>4. scan' = scan /\ engine[r].pc = "test"
    BY <1>2 DEF BeginTest, Proceeds
  <2> HIDE DEF e
  <2>5. QED
    BY <1>1, <2>2, <2>3, <2>4
<1>3. ASSUME RestoreTested(r)
      PROVE  Moves(r) /\ (AtTest(engine'[r]) => engine'[r].dev \in Outputs)
  <2> DEFINE flashed == value[engine[r].dev] = engine[r].mid
             e == [engine[r] EXCEPT !.pc = "restored", !.mid = flashed]
  <2>1. flashed \in BOOLEAN
    OBVIOUS
  <2>2. engine' = [engine EXCEPT ![r] = e] /\ scan' = scan /\ engine[r].pc = "flashed"
    BY <1>3 DEF RestoreTested, EngineTypes, Engine
  <2> HIDE DEF flashed
  <2>3. e \in Engine /\ e.pc = "restored" /\ e.dev = engine[r].dev
    BY <2>1 DEF EngineTypes, Engine
  <2>4. engine[r].dev \in Outputs
    BY <2>2 DEF FieldTypes, AtTest
  <2> HIDE DEF e
  <2>5. QED
    BY <1>1, <2>2, <2>3, <2>4
<1>4. ASSUME VerifyTested(r) \/ TestRaises(r)
      PROVE  Moves(r) /\ (AtTest(engine'[r]) => engine'[r].dev \in Outputs)
  <2>1. /\ Goto(r, "test", engine[r].todo) /\ scan' = scan
        /\ engine[r].pc \in {"flashed", "restored"}
    BY <1>4 DEF VerifyTested, TestRaises
  <2>2. engine[r].todo \in SUBSET Capabilities
    BY DEF EngineTypes, Engine
  <2>3. PICK e \in Engine : engine' = [engine EXCEPT ![r] = e] /\ e.pc = "test"
    BY <2>1, <2>2, GotoMoves
  <2>4. QED
    BY <1>1, <2>1, <2>3 DEF AtTest
<1>5. UNCHANGED <<wanted, pulse, plcVars>>
  BY DEF BeginTest, RestoreTested, VerifyTested, TestRaises, fieldVars
<1>6. QED
  BY <1>2, <1>3, <1>4, <1>5

(* At most one row says a scan is running. *)
OneRunning ==
    \A r, s \in Runs : scan[r].status = "running" /\ scan[s].status = "running" => r = s

ScanInv == EngineTypes /\ FieldTypes /\ OneScanThread /\ OneRunning

LEMMA MovesKeepOne ==
    ASSUME EngineTypes, OneScanThread, OneRunning, NEW r \in Runs, Moves(r)
    PROVE  EngineTypes' /\ OneScanThread' /\ OneRunning'
<1>1. PICK e \in Engine :
        /\ engine' = [engine EXCEPT ![r] = e]
        /\ \/ scan' = scan /\ engine[r].pc # "none" /\ e.pc # "none"
           \/ /\ scan' = [scan EXCEPT ![r] = [status |-> "running", cancel |-> FALSE]]
              /\ scan[r] = NoRun
              /\ \A s \in Runs : scan[s].status # "running"
           \/ /\ \E row \in RunRow : row.status # "running" /\ scan' = [scan EXCEPT ![r] = row]
              /\ e.pc = "none"
  BY DEF Moves
<1>2. CASE scan' = scan /\ engine[r].pc # "none" /\ e.pc # "none"
  BY <1>1, <1>2 DEF EngineTypes, OneScanThread, OneRunning
<1>3. CASE /\ scan' = [scan EXCEPT ![r] = [status |-> "running", cancel |-> FALSE]]
           /\ \A s \in Runs : scan[s].status # "running"
  BY <1>1, <1>3 DEF EngineTypes, RunRow, OneScanThread, OneRunning
<1>4. ASSUME NEW row \in RunRow, row.status # "running", scan' = [scan EXCEPT ![r] = row],
             e.pc = "none"
      PROVE  EngineTypes' /\ OneScanThread' /\ OneRunning'
  BY <1>1, <1>4 DEF EngineTypes, OneScanThread, OneRunning
<1>5. QED
  BY <1>1, <1>2, <1>3, <1>4

LEMMA FieldKeepsRows ==
    ASSUME ScanInv, FieldStep PROVE EngineTypes' /\ OneScanThread' /\ OneRunning'
<1>1. CASE ProcessDies
  BY <1>1, NoneIsEngine
     DEF ProcessDies, ScanInv, EngineTypes, OneScanThread, OneRunning, NoEngine
<1>2. CASE ~ProcessDies
  <2>1. scan' = scan /\ engine' = engine
    BY <1>2 DEF FieldStep, _restore, test_io, Command, PlcChanges, scanVars
  <2>2. QED
    BY <2>1 DEF ScanInv, EngineTypes, OneScanThread, OneRunning
<1>3. QED
  BY <1>1, <1>2

LEMMA FieldTypesKept == ASSUME ScanInv, FieldStep PROVE FieldTypes'
<1>1. ASSUME NEW d \in Outputs, NEW v \in BOOLEAN
      PROVE  Flash(d) \in BOOLEAN /\ Back(d, v) \in BOOLEAN
  BY DEF ScanInv, FieldTypes, Flash, Back
<1>2. ASSUME NEW d \in Outputs, NEW o \in BOOLEAN, NEW raises \in BOOLEAN, _restore(d, o, raises)
      PROVE  FieldTypes'
  <2>1. Back(d, o) \in BOOLEAN
    BY <1>1
  <2>2. engine' = engine /\ UNCHANGED <<wanted, plc, kind>>
    BY <1>2 DEF _restore, scanVars, plcVars
  <2>3. value' \in [Outputs -> BOOLEAN]
    BY <1>2, <2>1 DEF _restore, set_state, ScanInv, FieldTypes
  <2>4. pulse' \in [Outputs -> [BOOLEAN -> Nat]]
    BY <1>2 DEF _restore, ScanInv, FieldTypes
  <2>5. QED
    BY <2>2, <2>3, <2>4 DEF ScanInv, FieldTypes
<1>3. ASSUME NEW d \in Outputs, NEW readable \in BOOLEAN, test_io(d, readable) PROVE FieldTypes'
  <2>1. Flash(d) \in BOOLEAN
    BY <1>1
  <2>2. engine' = engine /\ UNCHANGED <<wanted, plc, kind>>
    BY <1>3 DEF test_io, scanVars, plcVars
  <2>3. value' \in [Outputs -> BOOLEAN]
    BY <1>3, <2>1 DEF test_io, set_state, ScanInv, FieldTypes
  <2>4. pulse' \in [Outputs -> [BOOLEAN -> Nat]]
    <3>1. PICK o \in BOOLEAN : pulse' = [pulse EXCEPT ![d][o] = @ + 1]
      BY <1>3 DEF test_io
    <3>2. QED
      BY <3>1 DEF ScanInv, FieldTypes
  <2>5. QED
    BY <2>2, <2>3, <2>4 DEF ScanInv, FieldTypes
<1>4. ASSUME NEW d \in Outputs, NEW v \in BOOLEAN, Command(d, v) PROVE FieldTypes'
  BY <1>4 DEF Command, set_state, scanVars, plcVars, ScanInv, FieldTypes
<1>5. CASE PlcChanges
  BY <1>5 DEF PlcChanges, scanVars, fieldVars, ScanInv, FieldTypes
<1>6. CASE ProcessDies
  BY <1>6 DEF ProcessDies, plcVars, NoPulse, NoEngine, AtTest, ScanInv, FieldTypes
<1>7. QED
  BY <1>2, <1>3, <1>4, <1>5, <1>6 DEF FieldStep

LEMMA TestTypesKept ==
    ASSUME ScanInv, NEW r \in Runs,
           \/ RestoreTested(r) \/ VerifyTested(r) \/ TestRaises(r)
           \/ \E d \in Outputs : BeginTest(r, d)
    PROVE  FieldTypes'
<1>1. /\ Moves(r) /\ UNCHANGED <<wanted, pulse, plc, kind>>
      /\ AtTest(engine'[r]) => engine'[r].dev \in Outputs
  BY TestMoves DEF ScanInv, plcVars
<1>2. \A s \in Runs \ {r} : engine'[s] = engine[s]
  BY <1>1 DEF Moves, ScanInv, EngineTypes
<1>3. \A s \in Runs : AtTest(engine'[s]) => engine'[s].dev \in Outputs
  BY <1>1, <1>2 DEF ScanInv, FieldTypes
<1>4. value' \in [Outputs -> BOOLEAN]
  <2>1. ASSUME NEW d \in Outputs, BeginTest(r, d) PROVE value' \in [Outputs -> BOOLEAN]
    <3>1. Flash(d) \in BOOLEAN
      BY DEF Flash, ScanInv, FieldTypes
    <3>2. QED
      BY <2>1, <3>1 DEF BeginTest, set_state, ScanInv, FieldTypes
  <2>2. ASSUME RestoreTested(r) PROVE value' \in [Outputs -> BOOLEAN]
    <3>1. Back(engine[r].dev, engine[r].original) \in BOOLEAN
      BY DEF Back, ScanInv, EngineTypes, Engine
    <3>2. QED
      BY <2>2, <3>1 DEF RestoreTested, set_state, ScanInv, FieldTypes
  <2>3. ASSUME VerifyTested(r) \/ TestRaises(r) PROVE value' = value
    BY <2>3 DEF VerifyTested, TestRaises, fieldVars
  <2>4. QED
    BY <2>1, <2>2, <2>3 DEF ScanInv, FieldTypes
<1>5. QED
  BY <1>1, <1>3, <1>4 DEF ScanInv, FieldTypes

LEMMA ScanInvStep == ScanInv /\ [ScanNext]_superVars => ScanInv'
<1> SUFFICES ASSUME ScanInv, [ScanNext]_superVars PROVE ScanInv'
  OBVIOUS
<1>1. CASE QuietStep
  <2>1. UNCHANGED <<fieldVars, pulse, plcVars>>
    BY <1>1, QuietMoves DEF ScanInv
  <2>2. CASE /\ engine' = engine
             /\ \E r \in Runs : /\ scan[r].status = "running"
                                /\ scan' = [scan EXCEPT ![r].cancel = TRUE]
    <3>1. PICK r \in Runs : scan[r].status = "running" /\ scan' = [scan EXCEPT ![r].cancel = TRUE]
      BY <2>2
    <3>2. EngineTypes' /\ \A s \in Runs : scan'[s].status = scan[s].status
      BY <2>2, <3>1 DEF ScanInv, EngineTypes, RunRow
    <3>3. OneScanThread' /\ OneRunning'
      BY <2>2, <3>2 DEF ScanInv, OneScanThread, OneRunning
    <3>4. FieldTypes'
      BY <2>1, <2>2 DEF fieldVars, plcVars, ScanInv, FieldTypes
    <3>5. QED
      BY <3>2, <3>3, <3>4 DEF ScanInv
  <2>3. ASSUME NEW r \in Runs, Moves(r), ~AtTest(engine'[r]) PROVE ScanInv'
    <3>1. EngineTypes' /\ OneScanThread' /\ OneRunning'
      BY <2>3, MovesKeepOne DEF ScanInv
    <3>2. \A s \in Runs \ {r} : engine'[s] = engine[s]
      BY <2>3 DEF Moves, ScanInv, EngineTypes
    <3>3. FieldTypes'
      BY <2>1, <2>3, <3>2 DEF fieldVars, plcVars, ScanInv, FieldTypes
    <3>4. QED
      BY <3>1, <3>3 DEF ScanInv
  <2>4. QED
    BY <1>1, <2>2, <2>3, QuietMoves DEF ScanInv
<1>2. CASE TestStep
  BY <1>2, TestMoves, TestTypesKept, MovesKeepOne DEF TestStep, ScanInv
<1>3. CASE FieldStep
  BY <1>3, FieldKeepsRows, FieldTypesKept DEF ScanInv
<1>4. CASE UNCHANGED superVars
  BY <1>4 DEF superVars, scanVars, fieldVars, plcVars, ScanInv, EngineTypes, FieldTypes,
              OneScanThread, OneRunning
<1>5. QED
  BY <1>1, <1>2, <1>3, <1>4, ScanCases

LEMMA ScanInvInit == ScanInit => ScanInv
<1> SUFFICES ASSUME ScanInit PROVE ScanInv
  OBVIOUS
<1>1. EngineTypes
  BY NoneIsEngine DEF ScanInit, EngineTypes
<1>2. FieldTypes
  BY DEF ScanInit, FieldTypes, NoPulse, NoEngine, AtTest
<1>3. OneScanThread /\ OneRunning
  BY DEF ScanInit, OneScanThread, OneRunning, NoEngine, NoRun
<1>4. QED
  BY <1>1, <1>2, <1>3 DEF ScanInv

(* However many runs are started, stopped, cancelled or killed, at most    *)
(* one scan thread is at work, and its row says so.                        *)
THEOREM ScansNeverOverlap == ScanSpec => []OneScanThread
<1>1. ScanInv => OneScanThread
  BY DEF ScanInv
<1>2. QED
  BY <1>1, ScanInvInit, ScanInvStep, PTL DEF ScanSpec
-----------------------------------------------------------------------------
(* An output at v is where the residents had it, or a curtain at rest. *)
Home(d, v) == v = wanted[d] \/ (kind[d] = "curtain" /\ ~v)

(* What is known of an output nothing has disturbed: it is at home, or the *)
(* one thread that has it knows how to bring it home.                      *)
TestOn(r, d) == AtTest(engine[r]) /\ engine[r].dev = d

OnePulse(v) == [w \in BOOLEAN |-> IF w = v THEN 1 ELSE 0]

OutputInv(d) ==
    /\ ~Pulsing(d) /\ (\A r \in Runs : ~TestOn(r, d)) => Home(d, value[d])
    /\ Pulsing(d) => /\ \A r \in Runs : ~TestOn(r, d)
                     /\ \E v \in BOOLEAN : pulse[d] = OnePulse(v) /\ Home(d, Back(d, v))
    /\ \A r \in Runs : TestOn(r, d) =>
          /\ engine[r].pc = "flashed" => Home(d, Back(d, engine[r].original))
          /\ engine[r].pc = "restored" => Home(d, value[d])

TestInv == \A d \in Outputs : d \notin disturbed => OutputInv(d)

LEMMA BusyMeans ==
    ASSUME NEW d \in Outputs
    PROVE  ~Busy(d) <=> ~Pulsing(d) /\ \A r \in Runs : ~TestOn(r, d)
BY DEF Busy, Testing, TestOn, AtTest

(* The first thread on an output nobody has is its only one. *)
LEMMA FirstPulse ==
    ASSUME NEW v \in BOOLEAN, NEW q, q = [NoPulse EXCEPT ![v] = @ + 1]
    PROVE  q = OnePulse(v) /\ q # NoPulse
<1>1. \A w \in BOOLEAN : q[w] = IF w = v THEN 1 ELSE 0
  BY DEF NoPulse
<1>2. q[v] = 1 /\ NoPulse[v] = 0
  BY <1>1 DEF NoPulse
<1>3. QED
  BY <1>1, <1>2 DEF NoPulse, OnePulse

(* When the only thread on an output has written, no one has it. *)
LEMMA LastPulse ==
    ASSUME NEW v \in BOOLEAN, NEW o \in BOOLEAN, OnePulse(v)[o] > 0
    PROVE  o = v /\ [OnePulse(v) EXCEPT ![o] = @ - 1] = NoPulse
<1>1. o = v
  BY DEF OnePulse
<1> DEFINE q == [OnePulse(v) EXCEPT ![o] = @ - 1]
<1>2. \A w \in BOOLEAN : q[w] = 0
  BY <1>1 DEF OnePulse
<1>3. QED
  BY <1>1, <1>2 DEF NoPulse, OnePulse

(* An output a step does not concern stays as it is. *)
LEMMA Elsewhere ==
    ASSUME NEW d \in Outputs, OutputInv(d), value'[d] = value[d], wanted'[d] = wanted[d],
           kind' = kind, pulse'[d] = pulse[d],
           \A s \in Runs : \/ engine'[s] = engine[s]
                           \/ ~TestOn(s, d) /\ ~TestOn(s, d)'
    PROVE  OutputInv(d)'
<1>1. \A s \in Runs : TestOn(s, d)' <=> TestOn(s, d)
  BY DEF TestOn
<1>2. \A s \in Runs : TestOn(s, d) => engine'[s] = engine[s]
  OBVIOUS
<1>3. \A v : Home(d, v)' <=> Home(d, v)
  BY DEF Home
<1>4. \A v : Back(d, v)' = Back(d, v)
  BY DEF Back
<1>5. Pulsing(d)' <=> Pulsing(d)
  BY DEF Pulsing, NoPulse
<1>6. \A v : OnePulse(v)' = OnePulse(v)
  BY DEF OnePulse
<1>7. QED
  BY <1>1, <1>2, <1>3, <1>4, <1>5, <1>6 DEF OutputInv, Home, Back

LEMMA QuietKeepsTests == ASSUME ScanInv, TestInv, QuietStep PROVE TestInv'
<1>1. UNCHANGED <<value, wanted, disturbed, pulse, kind>>
  BY QuietMoves DEF ScanInv, fieldVars, plcVars
<1>2. \A s \in Runs : \/ engine'[s] = engine[s]
                      \/ ~AtTest(engine[s]) /\ ~AtTest(engine'[s])
  <2>1. CASE engine' = engine
    BY <2>1 DEF AtTest
  <2>2. ASSUME NEW r \in Runs, Moves(r), ~AtTest(engine[r]), ~AtTest(engine'[r])
        PROVE  \A s \in Runs : \/ engine'[s] = engine[s]
                               \/ ~AtTest(engine[s]) /\ ~AtTest(engine'[s])
    <3>1. \A s \in Runs \ {r} : engine'[s] = engine[s]
      BY <2>2 DEF Moves, ScanInv, EngineTypes
    <3>2. QED
      BY <2>2, <3>1 DEF AtTest
  <2>3. EngineTypes /\ OneScanThread
    BY DEF ScanInv
  <2>4. \/ engine' = engine
        \/ \E r \in Runs : Moves(r) /\ ~AtTest(engine[r]) /\ ~AtTest(engine'[r])
    BY <2>3, QuietMoves DEF AtTest
  <2>5. QED
    BY <2>1, <2>2, <2>4 DEF AtTest
<1>3. QED
  BY <1>1, <1>2, Elsewhere DEF TestInv, TestOn

(* While a run is at a test no other run is. *)
LEMMA OneAtTest ==
    ASSUME ScanInv, NEW r \in Runs, engine[r].pc # "none"
    PROVE  \A s \in Runs \ {r} : ~AtTest(engine[s])
BY DEF ScanInv, OneScanThread, AtTest

LEMMA TestsKeepTests == ASSUME ScanInv, TestInv, TestStep PROVE TestInv'
<1>1. PICK r \in Runs : \/ RestoreTested(r) \/ VerifyTested(r) \/ TestRaises(r)
                        \/ \E d \in Outputs : BeginTest(r, d)
  BY DEF TestStep
<1>2. UNCHANGED <<wanted, pulse, kind>> /\ \A s \in Runs \ {r} : engine'[s] = engine[s]
  <2>1. UNCHANGED <<wanted, pulse, kind>> /\ Moves(r)
    BY <1>1, TestMoves DEF ScanInv, plcVars
  <2>2. QED
    BY <2>1 DEF Moves, ScanInv, EngineTypes
<1>3. \A s \in Runs \ {r}, d \in Outputs : ~TestOn(s, d) /\ ~TestOn(s, d)'
  <2>1. engine[r].pc # "none"
    BY <1>1 DEF RestoreTested, VerifyTested, TestRaises, BeginTest, Proceeds
  <2>2. QED
    BY <1>2, <2>1, OneAtTest DEF TestOn
<1>4. ASSUME NEW e \in Outputs, BeginTest(r, e), NEW d \in Outputs, d \notin disturbed'
      PROVE  OutputInv(d)'
  <2>1. /\ engine'[r].pc = "flashed" /\ engine'[r].dev = e /\ engine'[r].original = value[e]
        /\ engine[r].pc = "test"
    BY <1>4 DEF BeginTest, Proceeds, ScanInv, EngineTypes, Engine
  <2>2. /\ value' = [value EXCEPT ![e] = Flash(e)]
        /\ disturbed' = IF Pulsing(e) THEN disturbed \cup {e} ELSE disturbed
    BY <1>4 DEF BeginTest, set_state
  <2>3. d \notin disturbed /\ OutputInv(d) /\ (d = e => ~Pulsing(e))
    BY <1>4, <2>2 DEF TestInv
  <2>4. ~TestOn(r, d) /\ (TestOn(r, d)' <=> d = e)
    BY <2>1 DEF TestOn, AtTest
  <2>5. CASE d # e
    <3>1. value'[d] = value[d]
      BY <2>2, <2>5 DEF ScanInv, FieldTypes
    <3>2. QED
      BY <1>2, <1>3, <2>3, <2>4, <2>5, <3>1, Elsewhere
  <2>6. CASE d = e
    <3>1. Home(d, value[d])
      BY <1>3, <2>3, <2>4, <2>6 DEF OutputInv
    <3>2. Home(d, Back(d, engine[r].original))'
      BY <1>2, <2>1, <2>6, <3>1 DEF Home, Back
    <3>3. QED
      BY <1>2, <1>3, <2>1, <2>3, <2>4, <2>6, <3>2 DEF OutputInv, Pulsing
  <2>7. QED
    BY <2>5, <2>6
<1>5. ASSUME RestoreTested(r), NEW d \in Outputs, d \notin disturbed' PROVE OutputInv(d)'
  <2> DEFINE e == engine[r].dev
  <2>1. /\ engine[r].pc = "flashed" /\ e \in Outputs
        /\ engine'[r].pc = "restored" /\ engine'[r].dev = e
    BY <1>5 DEF RestoreTested, ScanInv, EngineTypes, Engine, FieldTypes, AtTest
  <2>2. value' = [value EXCEPT ![e] = Back(e, engine[r].original)] /\ disturbed' = disturbed
    BY <1>5 DEF RestoreTested, set_state
  <2>3. OutputInv(d)
    BY <1>5, <2>2 DEF TestInv
  <2>4. (TestOn(r, d) <=> d = e) /\ (TestOn(r, d)' <=> d = e)
    BY <2>1 DEF TestOn, AtTest
  <2>5. CASE d # e
    <3>1. value'[d] = value[d]
      BY <2>2, <2>5 DEF ScanInv, FieldTypes
    <3>2. QED
      BY <1>2, <1>3, <2>3, <2>4, <2>5, <3>1, Elsewhere
  <2>6. CASE d = e
    <3>1. Home(d, Back(d, engine[r].original)) /\ ~Pulsing(d)
      BY <2>1, <2>3, <2>4, <2>6 DEF OutputInv
    <3>2. value'[d] = Back(d, engine[r].original)
      BY <2>1, <2>2, <2>6 DEF ScanInv, FieldTypes
    <3>3. Home(d, value[d])'
      BY <1>2, <3>1, <3>2 DEF Home
    <3>4. QED
      BY <1>2, <1>3, <2>1, <2>4, <2>6, <3>1, <3>3 DEF OutputInv, Pulsing
  <2>7. QED
    BY <2>5, <2>6
<1>6. ASSUME VerifyTested(r) \/ TestRaises(r), NEW d \in Outputs, d \notin disturbed'
      PROVE  OutputInv(d)'
  <2>1. AtTest(engine[r]) /\ value' = value
    BY <1>6 DEF VerifyTested, TestRaises, fieldVars, AtTest
  <2>2. ~TestOn(r, d)'
    <3>1. Goto(r, "test", engine[r].todo) /\ engine[r].todo \in SUBSET Capabilities
      BY <1>6 DEF VerifyTested, TestRaises, ScanInv, EngineTypes, Engine
    <3>2. engine'[r].pc = "test"
      BY <3>1, GotoMoves DEF ScanInv, EngineTypes
    <3>3. QED
      BY <3>2 DEF TestOn, AtTest
  <2>3. d \notin disturbed /\ (engine[r].dev = d => engine[r].pc = "restored")
    BY <1>6 DEF VerifyTested, TestRaises, fieldVars
  <2>4. OutputInv(d)
    BY <2>3 DEF TestInv
  <2>5. CASE ~TestOn(r, d)
    BY <1>2, <1>3, <2>1, <2>2, <2>4, <2>5, Elsewhere
  <2>6. CASE TestOn(r, d)
    <3>1. Home(d, value[d]) /\ ~Pulsing(d)
      BY <2>3, <2>4, <2>6 DEF OutputInv, TestOn
    <3>2. Home(d, value[d])'
      BY <1>2, <2>1, <3>1 DEF Home
    <3>3. QED
      BY <1>2, <1>3, <2>2, <3>1, <3>2 DEF OutputInv, Pulsing
  <2>7. QED
    BY <2>5, <2>6
<1>7. QED
  BY <1>1, <1>4, <1>5, <1>6 DEF TestInv

LEMMA FieldKeepsTests == ASSUME ScanInv, TestInv, FieldStep PROVE TestInv'
<1>1. ASSUME NEW e \in Outputs, NEW o \in BOOLEAN, NEW raises \in BOOLEAN, _restore(e, o, raises),
             NEW d \in Outputs, d \notin disturbed'
      PROVE  OutputInv(d)'
  <2>1. /\ engine' = engine /\ UNCHANGED <<wanted, kind>> /\ pulse[e][o] > 0
        /\ pulse' = [pulse EXCEPT ![e][o] = @ - 1]
        /\ \/ /\ value' = [value EXCEPT ![e] = Back(e, o)]
              /\ disturbed' = disturbed
           \/ value' = value /\ disturbed' = disturbed \cup {e}
    BY <1>1 DEF _restore, set_state, scanVars, plcVars
  <2>2. OutputInv(d)
    BY <1>1, <2>1 DEF TestInv
  <2>3. CASE d # e
    <3>1. value'[d] = value[d] /\ pulse'[d] = pulse[d]
      BY <2>1, <2>3 DEF ScanInv, FieldTypes
    <3>2. QED
      BY <2>1, <2>2, <3>1, Elsewhere
  <2>4. CASE d = e
    <3>1. value'[d] = Back(d, o) /\ pulse'[d] = [pulse[d] EXCEPT ![o] = @ - 1]
      BY <1>1, <2>1, <2>4 DEF ScanInv, FieldTypes
    <3>2. Pulsing(d)
      BY <2>1, <2>4 DEF Pulsing, NoPulse
    <3>3. PICK v \in BOOLEAN : pulse[d] = OnePulse(v) /\ Home(d, Back(d, v))
      BY <2>2, <3>2 DEF OutputInv
    <3>4. o = v /\ pulse'[d] = NoPulse
      BY <2>1, <2>4, <3>1, <3>3, LastPulse
    <3>5. \A r \in Runs : ~TestOn(r, d)
      BY <2>2, <3>2 DEF OutputInv
    <3>6. Home(d, value[d])' /\ \A r \in Runs : ~TestOn(r, d)'
      BY <2>1, <3>1, <3>3, <3>4, <3>5 DEF Home, TestOn
    <3>7. ~Pulsing(d)'
      BY <3>4 DEF Pulsing, NoPulse
    <3>8. QED
      BY <3>6, <3>7 DEF OutputInv
  <2>5. QED
    BY <2>3, <2>4
<1>2. ASSUME NEW e \in Outputs, NEW readable \in BOOLEAN, test_io(e, readable),
             NEW d \in Outputs, d \notin disturbed'
      PROVE  OutputInv(d)'
  <2>1. /\ engine' = engine /\ UNCHANGED <<wanted, kind>>
        /\ pulse' = [pulse EXCEPT ![e][readable /\ value[e]] = @ + 1]
        /\ value' = [value EXCEPT ![e] = Flash(e)]
        /\ disturbed' = IF Busy(e) \/ ~readable THEN disturbed \cup {e} ELSE disturbed
    BY <1>2 DEF test_io, set_state, scanVars, plcVars
  <2>2. OutputInv(d) /\ (d = e => ~Busy(d) /\ readable)
    BY <1>2, <2>1 DEF TestInv
  <2>3. CASE d # e
    <3>1. value'[d] = value[d]
      BY <2>1, <2>3 DEF ScanInv, FieldTypes
    <3>2. PICK o \in BOOLEAN : pulse' = [pulse EXCEPT ![e][o] = @ + 1]
      BY <2>1
    <3>3. pulse'[d] = pulse[d]
      BY <2>3, <3>2 DEF ScanInv, FieldTypes
    <3>4. QED
      BY <2>1, <2>2, <3>1, <3>3, Elsewhere
  <2>4. CASE d = e
    <3>1. ~Pulsing(d) /\ Home(d, value[d]) /\ \A r \in Runs : ~TestOn(r, d)
      BY <2>2, <2>4, BusyMeans DEF OutputInv
    <3>2. PICK v \in BOOLEAN : v = value[d] /\ pulse' = [pulse EXCEPT ![d][v] = @ + 1]
      BY <2>1, <2>2, <2>4 DEF ScanInv, FieldTypes
    <3>3. pulse'[d] = [NoPulse EXCEPT ![v] = @ + 1]
      BY <3>1, <3>2 DEF Pulsing, ScanInv, FieldTypes
    <3>4. pulse'[d] = OnePulse(v) /\ pulse'[d] # NoPulse
      BY <3>3, FirstPulse
    <3>5. Home(d, Back(d, v))' /\ \A r \in Runs : ~TestOn(r, d)'
      BY <2>1, <3>1, <3>2 DEF Home, Back, TestOn
    <3>6. Pulsing(d)' /\ OnePulse(v)' = OnePulse(v)
      BY <3>4 DEF Pulsing, NoPulse, OnePulse
    <3>7. QED
      BY <3>4, <3>5, <3>6 DEF OutputInv
  <2>5. QED
    BY <2>3, <2>4
<1>3. ASSUME NEW e \in Outputs, NEW v \in BOOLEAN, Command(e, v),
             NEW d \in Outputs, d \notin disturbed'
      PROVE  OutputInv(d)'
  <2>1. /\ engine' = engine /\ UNCHANGED <<pulse, kind>>
        /\ value' = [value EXCEPT ![e] = v] /\ wanted' = [wanted EXCEPT ![e] = v]
        /\ disturbed' = IF Busy(e) THEN disturbed \cup {e} ELSE disturbed \ {e}
    BY <1>3 DEF Command, set_state, scanVars, plcVars
  <2>2. CASE d # e
    <3>1. value'[d] = value[d] /\ wanted'[d] = wanted[d] /\ OutputInv(d)
      BY <1>3, <2>1, <2>2 DEF ScanInv, FieldTypes, TestInv
    <3>2. QED
      BY <2>1, <3>1, Elsewhere
  <2>3. CASE d = e
    <3>1. ~Busy(d)
      BY <1>3, <2>1, <2>3
    <3>2. ~Pulsing(d)' /\ \A r \in Runs : ~TestOn(r, d)'
      BY <2>1, <3>1, BusyMeans DEF TestOn, Pulsing
    <3>3. Home(d, value[d])'
      BY <2>1, <2>3 DEF Home, ScanInv, FieldTypes
    <3>4. QED
      BY <3>2, <3>3 DEF OutputInv
  <2>4. QED
    BY <2>2, <2>3
<1>4. ASSUME PlcChanges, NEW d \in Outputs, d \notin disturbed' PROVE OutputInv(d)'
  BY <1>4, Elsewhere DEF PlcChanges, scanVars, fieldVars, TestInv
<1>5. ASSUME ProcessDies, NEW d \in Outputs, d \notin disturbed' PROVE OutputInv(d)'
  <2>1. d \notin disturbed /\ ~Busy(d) /\ Home(d, value[d])
    BY <1>5, BusyMeans DEF ProcessDies, TestInv, OutputInv
  <2>2. ~Pulsing(d)' /\ \A r \in Runs : ~TestOn(r, d)'
    BY <1>5 DEF ProcessDies, Pulsing, NoPulse, NoEngine, TestOn, AtTest
  <2>3. Home(d, value[d])'
    BY <1>5, <2>1 DEF ProcessDies, plcVars, Home
  <2>4. QED
    BY <2>2, <2>3 DEF OutputInv
<1>6. QED
  BY <1>1, <1>2, <1>3, <1>4, <1>5 DEF FieldStep, TestInv

LEMMA TestInvStep == ScanInv /\ TestInv /\ [ScanNext]_superVars => TestInv'
<1> SUFFICES ASSUME ScanInv, TestInv, [ScanNext]_superVars PROVE TestInv'
  OBVIOUS
<1>1. CASE UNCHANGED superVars
  BY <1>1, Elsewhere DEF superVars, scanVars, fieldVars, plcVars, TestInv
<1>2. QED
  BY <1>1, ScanCases, QuietKeepsTests, TestsKeepTests, FieldKeepsTests

(* Whatever scans, any number of commissioning pulses and flashes, and     *)
(* commands interleave, an output that no two writers had at once and no   *)
(* failure left in the middle is back where the residents had it, and a    *)
(* curtain at rest.                                                        *)
THEOREM OutputsComeHome == ScanSpec => []TestsRestore
<1>1. ScanInit => TestInv
  BY DEF ScanInit, TestInv, OutputInv, TestOn, AtTest, Home, Pulsing, NoPulse, NoEngine
<1>2. TestInv => TestsRestore
  BY BusyMeans DEF TestInv, OutputInv, TestsRestore, Home
<1>3. QED
  BY <1>1, <1>2, ScanInvInit, ScanInvStep, TestInvStep, PTL DEF ScanSpec

-----------------------------------------------------------------------------
(* Why a scan comes to its end. *)

(* The phases in their order; the three parts of a test are one phase. *)
PhasesLeft(e) ==
    IF e.pc = "begin" THEN 5
    ELSE IF e.pc = "read" THEN 4
    ELSE IF e.pc \in {"test", "flashed", "restored"} THEN 3
    ELSE IF e.pc = "deep" THEN 2
    ELSE IF e.pc = "finish" THEN 1 ELSE 0

(* How much of the test in progress is left. *)
TestLeft(e) == IF e.pc = "flashed" THEN 2 ELSE IF e.pc = "restored" THEN 1 ELSE 0

(* A thread at f has less to do than it had at e: a later phase, or fewer  *)
(* capabilities in the same one, or the same ones and less of a test.      *)
LessToDo(f, e) ==
    \/ PhasesLeft(f) < PhasesLeft(e)
    \/ /\ PhasesLeft(f) = PhasesLeft(e)
       /\ f.todo \subseteq e.todo
       /\ f.todo # e.todo \/ TestLeft(f) < TestLeft(e)

(* A scan thread never repeats anything: whatever it does, whatever fails  *)
(* and however often the link is lost, each step leaves it with less to do *)
(* (superscan.py, execute and its phases). The safety half of ScanEnds.    *)
ScanDescends ==
    [][\A r \in Runs : engine[r].pc # "none" /\ engine'[r] # engine[r]
                         => LessToDo(engine'[r], engine[r])]_superVars

(* What a thread at e has left to do is what its phase has a step for. *)
Fits(e) ==
    /\ e.pc \in {"none", "begin", "finish"} => e.todo = {}
    /\ e.pc = "read" => e.todo \subseteq Known
    /\ PhasesLeft(e) = 3 => e.todo \subseteq Outputs
    /\ e.pc = "deep" => e.todo \subseteq Symbols

(* A scan thread is never left holding a capability that no step of its    *)
(* phase will take off it (superscan.py, the loops of _run_scan).          *)
TodoFitsPhase == \A r \in Runs : Fits(engine[r])

(* What a step of one thread shows: only that thread has moved, it has     *)
(* less to do, and what it has left fits its phase.                        *)
Descends(r) ==
    /\ \A s \in Runs : s # r => engine'[s] = engine[s]
    /\ engine[r].pc # "none" => LessToDo(engine'[r], engine[r])
    /\ Fits(engine'[r])

(* Entering a phase sets where the thread is and what it has to do there. *)
LEMMA GotoFields ==
    ASSUME EngineTypes, NEW r \in Runs, NEW pc, NEW todo, Goto(r, pc, todo)
    PROVE  /\ engine'[r].pc = pc /\ engine'[r].todo = todo
           /\ \A s \in Runs : s # r => engine'[s] = engine[s]
<1> DEFINE e == [NoEngine EXCEPT !.pc = pc, !.todo = todo, !.mode = engine[r].mode,
                                 !.seen = engine[r].seen]
<1>1. e.pc = pc /\ e.todo = todo
  BY DEF NoEngine
<1>2. engine' = [engine EXCEPT ![r] = e]
  BY DEF Goto
<1> HIDE DEF e
<1>3. QED
  BY <1>1, <1>2 DEF EngineTypes

(* A capability dealt with is taken off the list, and nothing else is. *)
LEMMA TakenOff ==
    ASSUME EngineTypes, NEW r \in Runs, NEW c \in engine[r].todo,
           \/ Seen(r, c)
           \/ engine' = [engine EXCEPT ![r].todo = @ \ {c}]
    PROVE  /\ engine'[r].pc = engine[r].pc /\ engine'[r].todo = engine[r].todo \ {c}
           /\ \A s \in Runs : s # r => engine'[s] = engine[s]
<1>1. engine[r] \in Engine
  BY DEF EngineTypes
<1>2. ASSUME NEW e \in Engine
      PROVE  /\ [e EXCEPT !.todo = @ \ {c}, !.seen = @ \cup {c}].pc = e.pc
             /\ [e EXCEPT !.todo = @ \ {c}, !.seen = @ \cup {c}].todo = e.todo \ {c}
             /\ [e EXCEPT !.todo = @ \ {c}].pc = e.pc
             /\ [e EXCEPT !.todo = @ \ {c}].todo = e.todo \ {c}
  BY DEF Engine
<1>3. CASE Seen(r, c)
  BY <1>1, <1>3 DEF Seen, EngineTypes, Engine
<1>4. CASE engine' = [engine EXCEPT ![r].todo = @ \ {c}]
  BY <1>1, <1>4 DEF EngineTypes, Engine
<1>5. QED
  BY <1>3, <1>4

(* The thread ends: nothing is left to do. *)
LEMMA EndDescends ==
    ASSUME EngineTypes, NEW r \in Runs, engine[r].pc # "none",
           engine' = [engine EXCEPT ![r] = NoEngine]
    PROVE  Descends(r)
<1>1. engine'[r] = NoEngine /\ \A s \in Runs : s # r => engine'[s] = engine[s]
  BY DEF EngineTypes
<1>2. NoEngine.pc = "none" /\ NoEngine.todo = {}
  BY DEF NoEngine
<1>3. PhasesLeft(NoEngine) = 0 /\ PhasesLeft(engine[r]) > 0
  BY <1>2 DEF PhasesLeft, EngineTypes, Engine
<1>4. QED
  BY <1>1, <1>2, <1>3 DEF Descends, LessToDo, Fits

(* Every step of a scan thread leaves it with less to do. *)
LEMMA EngineDescends ==
    ASSUME EngineTypes, TodoFitsPhase, NEW r \in Runs, EngineStep(r) \/ Fails(r)
    PROVE  Descends(r)
<1>0. engine[r] \in Engine /\ Fits(engine[r])
  BY DEF EngineTypes, TodoFitsPhase, Fits
<1>1. ASSUME Cancelled(r) \/ Fails(r) \/ Finish(r) PROVE Descends(r)
  BY <1>1, EndDescends DEF Cancelled, Fails, Finish, End
<1>2. ASSUME _run_scan(r) PROVE Descends(r)
  BY <1>2, GotoFields DEF _run_scan, Descends, LessToDo, Fits, PhasesLeft
<1>3. ASSUME NextPhase(r) PROVE Descends(r)
  <2>1. \/ engine[r].pc \in {"read", "test", "deep"} /\ Goto(r, "finish", {})
        \/ engine[r].pc = "read" /\ Goto(r, "test", Outputs)
        \/ engine[r].pc = "test" /\ \E found \in SUBSET Symbols : Goto(r, "deep", found)
    BY <1>3 DEF NextPhase
  <2>2. CASE engine[r].pc \in {"read", "test", "deep"} /\ Goto(r, "finish", {})
    BY <2>2, GotoFields DEF Descends, LessToDo, Fits, PhasesLeft
  <2>3. CASE engine[r].pc = "read" /\ Goto(r, "test", Outputs)
    BY <2>3, GotoFields DEF Descends, LessToDo, Fits, PhasesLeft
  <2>4. CASE engine[r].pc = "test" /\ \E found \in SUBSET Symbols : Goto(r, "deep", found)
    BY <2>4, GotoFields DEF Descends, LessToDo, Fits, PhasesLeft
  <2>5. QED
    BY <2>1, <2>2, <2>3, <2>4
<1>4. ASSUME NEW c, _upsert_capability(r, c) \/ _deep_unknown_pass(r, c) \/ Unavailable(r, c)
      PROVE  Descends(r)
  <2>1. /\ engine[r].pc \in {"read", "deep", "test"} /\ c \in engine[r].todo
        /\ Seen(r, c) \/ engine' = [engine EXCEPT ![r].todo = @ \ {c}]
    BY <1>4 DEF _upsert_capability, _deep_unknown_pass, Unavailable, Proceeds
  <2>2. /\ engine'[r].pc = engine[r].pc /\ engine'[r].todo = engine[r].todo \ {c}
        /\ \A s \in Runs : s # r => engine'[s] = engine[s]
    BY <2>1, TakenOff
  <2>3. PhasesLeft(engine'[r]) = PhasesLeft(engine[r])
    BY <2>2 DEF PhasesLeft
  <2>4. QED
    BY <1>0, <2>1, <2>2, <2>3 DEF Descends, LessToDo, Fits
<1>5. ASSUME NEW d \in Outputs, BeginTest(r, d) PROVE Descends(r)
  <2>1. /\ engine'[r].pc = "flashed" /\ engine'[r].todo = engine[r].todo \ {d}
        /\ \A s \in Runs : s # r => engine'[s] = engine[s]
    BY <1>0, <1>5 DEF BeginTest, EngineTypes, Engine
  <2>2. engine[r].pc = "test" /\ d \in engine[r].todo
    BY <1>5 DEF BeginTest, Proceeds
  <2>3. PhasesLeft(engine'[r]) = 3 /\ PhasesLeft(engine[r]) = 3
    BY <2>1, <2>2 DEF PhasesLeft
  <2>4. QED
    BY <1>0, <2>1, <2>2, <2>3 DEF Descends, LessToDo, Fits
<1>6. ASSUME RestoreTested(r) PROVE Descends(r)
  <2>1. /\ engine'[r].pc = "restored" /\ engine'[r].todo = engine[r].todo
        /\ \A s \in Runs : s # r => engine'[s] = engine[s]
    BY <1>0, <1>6 DEF RestoreTested, EngineTypes, Engine
  <2>2. engine[r].pc = "flashed"
    BY <1>6 DEF RestoreTested
  <2>3. /\ PhasesLeft(engine'[r]) = 3 /\ PhasesLeft(engine[r]) = 3
        /\ TestLeft(engine'[r]) = 1 /\ TestLeft(engine[r]) = 2
    BY <2>1, <2>2 DEF PhasesLeft, TestLeft
  <2>4. QED
    BY <1>0, <2>1, <2>2, <2>3 DEF Descends, LessToDo, Fits
<1>7. ASSUME VerifyTested(r) \/ TestRaises(r) PROVE Descends(r)
  <2>1. engine[r].pc \in {"flashed", "restored"} /\ Goto(r, "test", engine[r].todo)
    BY <1>7 DEF VerifyTested, TestRaises
  <2>2. /\ engine'[r].pc = "test" /\ engine'[r].todo = engine[r].todo
        /\ \A s \in Runs : s # r => engine'[s] = engine[s]
    BY <2>1, GotoFields
  <2>3. /\ PhasesLeft(engine'[r]) = 3 /\ PhasesLeft(engine[r]) = 3
        /\ TestLeft(engine'[r]) = 0 /\ TestLeft(engine[r]) \in {1, 2}
    BY <2>1, <2>2 DEF PhasesLeft, TestLeft
  <2>4. QED
    BY <1>0, <2>1, <2>2, <2>3 DEF Descends, LessToDo, Fits
<1>8. QED
  BY <1>1, <1>2, <1>3, <1>4, <1>5, <1>6, <1>7 DEF EngineStep

(* All other steps leave every thread alone, start one or end them all. *)
LEMMA EveryStepDescends ==
    ASSUME ScanInv, TodoFitsPhase, [ScanNext]_superVars
    PROVE  /\ TodoFitsPhase'
           /\ \A r \in Runs : engine[r].pc # "none" /\ engine'[r] # engine[r]
                                => LessToDo(engine'[r], engine[r])
<1> DEFINE Goal == /\ TodoFitsPhase'
                   /\ \A r \in Runs : engine[r].pc # "none" /\ engine'[r] # engine[r]
                                        => LessToDo(engine'[r], engine[r])
<1>0. EngineTypes
  BY DEF ScanInv
<1>1. ASSUME NEW r \in Runs, Descends(r) PROVE Goal
  <2>1. \A s \in Runs : Fits(engine'[s])
    BY <1>1 DEF Descends, TodoFitsPhase, Fits
  <2>2. TodoFitsPhase'
    BY <2>1 DEF TodoFitsPhase, Fits, PhasesLeft
  <2>3. QED
    BY <1>1, <2>2 DEF Descends
<1>2. ASSUME NEW r \in Runs, EngineStep(r) \/ Fails(r) PROVE Goal
  BY <1>0, <1>1, <1>2, EngineDescends
<1>3. ASSUME NEW r \in Runs, NEW mode \in Modes, start(r, mode) PROVE Goal
  <2>1. engine[r].pc = "none" /\ engine[r].todo = {}
    BY <1>3 DEF start, NoRun, ScanInv, OneScanThread, TodoFitsPhase, Fits
  <2>2. /\ engine'[r].pc = "begin" /\ engine'[r].todo = engine[r].todo
        /\ \A s \in Runs : s # r => engine'[s] = engine[s]
    BY <1>0, <1>3 DEF start, EngineTypes, Engine
  <2>3. PhasesLeft(engine'[r]) = 5
    BY <2>2 DEF PhasesLeft
  <2>4. Descends(r)
    BY <2>1, <2>2, <2>3 DEF Descends, Fits
  <2>5. QED
    BY <1>1, <2>4
<1>4. ASSUME engine' = engine PROVE Goal
  BY <1>4 DEF TodoFitsPhase, PhasesLeft
<1>5. CASE ProcessDies
  <2>1. \A r \in Runs : engine'[r] = NoEngine
    BY <1>5 DEF ProcessDies
  <2>2. NoEngine.pc = "none" /\ NoEngine.todo = {}
    BY DEF NoEngine
  <2>3. PhasesLeft(NoEngine) = 0
    BY <2>2 DEF PhasesLeft
  <2>4. TodoFitsPhase'
    BY <2>1, <2>2, <2>3 DEF TodoFitsPhase, Fits
  <2>5. \A r \in Runs : engine[r].pc # "none" => PhasesLeft(engine[r]) > 0
    BY <1>0 DEF PhasesLeft, EngineTypes, Engine
  <2>6. QED
    BY <2>1, <2>3, <2>4, <2>5 DEF LessToDo
<1>6. ASSUME NEW d \in Outputs,
             \/ \E original, raises \in BOOLEAN : _restore(d, original, raises)
             \/ \E readable \in BOOLEAN : test_io(d, readable)
             \/ \E v \in BOOLEAN : Command(d, v)
      PROVE  Goal
  BY <1>4, <1>6 DEF _restore, test_io, Command, scanVars
<1>7. ASSUME NEW r \in Runs, stop(r) PROVE Goal
  BY <1>4, <1>7 DEF stop
<1>8. CASE PlcChanges \/ UNCHANGED superVars
  BY <1>4, <1>8 DEF PlcChanges, superVars, scanVars
<1>9. QED
  BY <1>2, <1>3, <1>5, <1>6, <1>7, <1>8 DEF ScanNext

(* Before the first scan no thread has anything to do. *)
LEMMA FitsAtStart == ScanInit => TodoFitsPhase
<1>1. NoEngine.pc = "none" /\ NoEngine.todo = {}
  BY DEF NoEngine
<1>2. Fits(NoEngine)
  BY <1>1 DEF Fits, PhasesLeft
<1>3. QED
  BY <1>2 DEF ScanInit, TodoFitsPhase

(* In every mode, with any number of capabilities, each step of a scan     *)
(* thread leaves it with less to do, until it has ended.                   *)
THEOREM ScansDescend == ScanSpec => ScanDescends
<1>1. ScanInv /\ TodoFitsPhase /\ [ScanNext]_superVars => TodoFitsPhase'
  BY EveryStepDescends
<1>2. ScanInv /\ TodoFitsPhase /\ [ScanNext]_superVars =>
        [\A r \in Runs : engine[r].pc # "none" /\ engine'[r] # engine[r]
                           => LessToDo(engine'[r], engine[r])]_superVars
  BY EveryStepDescends
<1>3. QED
  BY <1>1, <1>2, FitsAtStart, ScanInvInit, ScanInvStep, PTL DEF ScanSpec, ScanDescends

(* And until it has ended, what it still holds is what its phase takes.    *)
THEOREM ScansNeverStick == ScanSpec => []TodoFitsPhase
<1>1. ScanInv /\ TodoFitsPhase /\ [ScanNext]_superVars => TodoFitsPhase'
  BY EveryStepDescends
<1>2. QED
  BY <1>1, FitsAtStart, ScanInvInit, ScanInvStep, PTL DEF ScanSpec

-----------------------------------------------------------------------------
(* LightingEffects. *)


(* What the argument needs of the shapes: who is registered, which phase a *)
(* thread is in, and whose event a request holds.                          *)
Shapes ==
    /\ active \in Shows \cup {NoOne}
    /\ show \in [Shows -> [pc : {"none", "loop", "light", "dark"},
                           step : Nat, lit : Lamps \cup {NoOne}, todo : SUBSET Lamps]]
    /\ request \in [Admins -> [pc : {"idle", "start", "stop", "signal", "off", "down"},
                               event : Shows \cup {NoOne}, todo : SUBSET Lamps]]

(* A request holds an event only between the pop and the signal: what it   *)
(* overwrites otherwise is nothing.                                        *)
HoldsToSignal == \A a \in Admins : request[a].event # NoOne => request[a].pc = "signal"

TickStates == [pc : {"idle", "override", "resume", "down"}, on : BOOLEAN, todo : SUBSET Lamps]

(* While the process is down no request runs. *)
DownIsQuiet ==
    /\ tick \in TickStates
    /\ tick.pc = "down" => \A a \in Admins : request[a].pc = "down"

EffectsInv == Shapes /\ HoldsToSignal /\ DownIsQuiet /\ OneLiveShow

Playing(t) == show[t].pc \in {"loop", "light"}

(* The steps by what they write. *)
ShowMoves == \E t \in Shows : ShowStep(t) \/ \E empty \in BOOLEAN : ChaseGivesUp(t, empty)
RequestMoves ==
    \E a \in Admins : RequestStep(a) \/ \E on \in BOOLEAN : apartment_christmas_mode(a, on)
OtherMoves ==
    \/ OverrideTick \/ ResumeTick \/ PlcReach \/ ServerBoots
    \/ \E l \in Lamps : OverrideLamp(l)
    \/ \E o \in {"auto", "on", "off"} : apartment_building_settings(o)
Resumes == \E t \in Shows : resume_active_chases(t)

LEMMA EffectsCases == EffectsNext => ShowMoves \/ RequestMoves \/ OtherMoves \/ Resumes \/ ServerDies
BY DEF EffectsNext, TickStep, ShowMoves, RequestMoves, OtherMoves, Resumes

LEMMA NoShowShape ==
    /\ NoShow \in [pc : {"none", "loop", "light", "dark"}, step : Nat, lit : Lamps \cup {NoOne},
                   todo : SUBSET Lamps]
    /\ NoShow.pc = "none"
    /\ NoRequest \in [pc : {"idle", "start", "stop", "signal", "off", "down"},
                      event : Shows \cup {NoOne}, todo : SUBSET Lamps]
    /\ NoRequest.pc = "idle" /\ NoRequest.event = NoOne
BY DEF NoShow, NoRequest

(* Starting registers the new thread, when none is. *)
LEMMA StartKeeps ==
    ASSUME Shapes, OneLiveShow, NEW t \in Shows, start_christmas_chase(t)
    PROVE  /\ active' \in Shows \cup {NoOne}
           /\ show' \in [Shows -> [pc : {"none", "loop", "light", "dark"},
                                   step : Nat, lit : Lamps \cup {NoOne}, todo : SUBSET Lamps]]
           /\ halted' = halted
           /\ \A s \in Shows : Playing(s)' /\ s \notin halted /\ ~Held(s) => active' = s
<1>1. CASE active # NoOne
  BY <1>1 DEF start_christmas_chase, threadVars, Shapes, OneLiveShow, Playing
<1>2. CASE active = NoOne
  <2> DEFINE e == [NoShow EXCEPT !.pc = "loop"]
  <2>1. active' = t /\ show' = [show EXCEPT ![t] = e] /\ halted' = halted
    BY <1>2 DEF start_christmas_chase
  <2>2. e \in [pc : {"none", "loop", "light", "dark"}, step : Nat, lit : Lamps \cup {NoOne},
               todo : SUBSET Lamps]
    BY NoShowShape
  <2>3. \A s \in Shows : Playing(s) => s \in halted \/ Held(s)
    BY <1>2, ShowAssumption DEF OneLiveShow, Playing
  <2> HIDE DEF e
  <2>4. \A s \in Shows \ {t} : Playing(s)' <=> Playing(s)
    BY <2>1 DEF Shapes, Playing
  <2>5. QED
    BY <2>1, <2>2, <2>3, <2>4 DEF Shapes
<1>3. QED
  BY <1>1, <1>2

LEMMA ShowMovesKeep == ASSUME EffectsInv, ShowMoves PROVE EffectsInv'
<1> USE DEF EffectsInv
<1>1. PICK t \in Shows : ShowStep(t) \/ \E empty \in BOOLEAN : ChaseGivesUp(t, empty)
  BY DEF ShowMoves
<1>2. UNCHANGED <<request, tick>>
  BY <1>1 DEF ShowStep, ChaseGivesUp, LoopHead, Unregister, LightLamp, DarkenLamp
<1>3. HoldsToSignal' /\ DownIsQuiet' /\ \A s \in Shows : Held(s)' <=> Held(s)
  BY <1>2 DEF HoldsToSignal, DownIsQuiet, Held
<1>4. ASSUME NEW e \in [pc : {"none", "loop", "light", "dark"}, step : Nat,
                        lit : Lamps \cup {NoOne}, todo : SUBSET Lamps],
             show' = [show EXCEPT ![t] = e], UNCHANGED <<active, halted>>,
             e.pc \in {"loop", "light"} => Playing(t)
      PROVE  EffectsInv'
  <2>1. Shapes'
    BY <1>2, <1>4 DEF Shapes
  <2>2. \A s \in Shows : Playing(s)' => Playing(s)
    BY <1>4 DEF Shapes, Playing
  <2>3. QED
    BY <1>3, <1>4, <2>1, <2>2 DEF OneLiveShow, Playing
<1>5. ASSUME NEW todo \in SUBSET Lamps, Leave(t, todo), UNCHANGED <<active, halted>>
      PROVE  EffectsInv'
  <2> DEFINE e == [NoShow EXCEPT !.pc = "dark", !.todo = todo]
  <2>1. /\ e \in [pc : {"none", "loop", "light", "dark"}, step : Nat,
                  lit : Lamps \cup {NoOne}, todo : SUBSET Lamps]
        /\ e.pc = "dark" /\ show' = [show EXCEPT ![t] = e]
    BY <1>5, NoShowShape DEF Leave
  <2> HIDE DEF e
  <2>2. QED
    BY <1>4, <1>5, <2>1
<1>6. CASE LoopHead(t)
  <2>1. UNCHANGED <<active, halted>> /\ show[t].pc = "loop" /\ show[t].step \in Nat
    BY <1>6 DEF LoopHead, Shapes
  <2>2. CASE Leave(t, Lamps)
    BY <1>5, <2>1, <2>2
  <2>3. CASE ~Leave(t, Lamps)
    <3>1. ~(t \in halted \/ (show[t].step = FlagCheckEvery /\ ~flag))
      BY <1>6, <2>3 DEF LoopHead
    <3>2. PICK l \in Lamps :
            show' = [show EXCEPT ![t] = [pc |-> "light", lit |-> l, todo |-> Lamps,
                         step |-> IF @.step = FlagCheckEvery THEN 1 ELSE @.step + 1]]
      BY <1>6, <3>1 DEF LoopHead
    <3> DEFINE e == [pc |-> "light", lit |-> l, todo |-> Lamps,
                     step |-> IF show[t].step = FlagCheckEvery THEN 1 ELSE show[t].step + 1]
    <3>3. show' = [show EXCEPT ![t] = e]
      BY <3>2 DEF Shapes
    <3>4. e \in [pc : {"none", "loop", "light", "dark"}, step : Nat,
                 lit : Lamps \cup {NoOne}, todo : SUBSET Lamps]
      BY <2>1
    <3> HIDE DEF e
    <3>5. QED
      BY <1>4, <2>1, <3>3, <3>4 DEF Playing
  <2>4. QED
    BY <2>2, <2>3
<1>7. ASSUME NEW l \in Lamps, LightLamp(t, l) PROVE EffectsInv'
  <2> DEFINE e == [show[t] EXCEPT !.todo = @ \ {l},
                      !.pc = IF show[t].todo = {l} THEN "loop" ELSE "light",
                      !.lit = IF show[t].todo = {l} THEN NoOne ELSE @]
  <2>1. e \in [pc : {"none", "loop", "light", "dark"}, step : Nat, lit : Lamps \cup {NoOne},
               todo : SUBSET Lamps]
    BY DEF Shapes
  <2>2. show' = [show EXCEPT ![t] = e] /\ UNCHANGED <<active, halted>> /\ Playing(t)
    BY <1>7 DEF LightLamp, Shapes, Playing
  <2> HIDE DEF e
  <2>3. QED
    BY <1>4, <2>1, <2>2
<1>8. ASSUME NEW l \in Lamps, DarkenLamp(t, l) PROVE EffectsInv'
  <2> DEFINE e == [show[t] EXCEPT !.todo = @ \ {l}]
  <2>1. /\ e \in [pc : {"none", "loop", "light", "dark"}, step : Nat, lit : Lamps \cup {NoOne},
                  todo : SUBSET Lamps]
        /\ e.pc = show[t].pc
    BY DEF Shapes
  <2>2. show' = [show EXCEPT ![t] = e] /\ UNCHANGED <<active, halted>> /\ show[t].pc = "dark"
    BY <1>8 DEF DarkenLamp, Shapes
  <2> HIDE DEF e
  <2>3. QED
    BY <1>4, <2>1, <2>2
<1>9. ASSUME NEW empty \in BOOLEAN, ChaseGivesUp(t, empty) PROVE EffectsInv'
  BY <1>5, <1>9 DEF ChaseGivesUp
<1>10. CASE Unregister(t)
  <2>1. /\ active' = IF active = t THEN NoOne ELSE active
        /\ halted' = halted \ {t} /\ show' = [show EXCEPT ![t] = NoShow]
    BY <1>10 DEF Unregister
  <2>2. Shapes'
    BY <1>2, <2>1, NoShowShape DEF Shapes
  <2>3. \A s \in Shows : Playing(s)' => s # t /\ Playing(s)
    BY <2>1, NoShowShape DEF Shapes, Playing
  <2>4. QED
    BY <1>3, <2>1, <2>2, <2>3 DEF OneLiveShow, Playing
<1>11. QED
  BY <1>1, <1>6, <1>7, <1>8, <1>9, <1>10 DEF ShowStep

LEMMA RequestMovesKeep == ASSUME EffectsInv, RequestMoves PROVE EffectsInv'
<1> USE DEF EffectsInv
<1>1. PICK a \in Admins : RequestStep(a) \/ \E on \in BOOLEAN : apartment_christmas_mode(a, on)
  BY DEF RequestMoves
<1>10. DownIsQuiet'
  <2>1. tick' = tick /\ request[a].pc # "down"
    BY <1>1, NoShowShape DEF RequestStep, apartment_christmas_mode, StartRequest,
       stop_christmas_chase, SignalStop, RequestDarkens
  <2>2. QED
    BY <2>1 DEF DownIsQuiet
<1>2. ASSUME NEW q \in [pc : {"idle", "start", "stop", "signal", "off", "down"},
                        event : Shows \cup {NoOne}, todo : SUBSET Lamps],
             request' = [request EXCEPT ![a] = q], request[a].event = NoOne, q.event = NoOne
      PROVE  HoldsToSignal' /\ \A s \in Shows : Held(s)' <=> Held(s)
  BY <1>2, ShowAssumption DEF Shapes, HoldsToSignal, Held
<1>3. ASSUME NEW q \in [pc : {"idle", "start", "stop", "signal", "off", "down"},
                        event : Shows \cup {NoOne}, todo : SUBSET Lamps],
             request' = [request EXCEPT ![a] = q], request[a].event = NoOne, q.event = NoOne,
             UNCHANGED threadVars
      PROVE  EffectsInv'
  BY <1>2, <1>3, <1>10 DEF threadVars, Shapes, OneLiveShow
<1>4. ASSUME NEW on \in BOOLEAN, apartment_christmas_mode(a, on) PROVE EffectsInv'
  <2> DEFINE q == [request[a] EXCEPT !.pc = IF on THEN "start" ELSE "stop"]
  <2>1. /\ q \in [pc : {"idle", "start", "stop", "signal", "off", "down"},
                  event : Shows \cup {NoOne}, todo : SUBSET Lamps]
        /\ q.event = request[a].event
    BY DEF Shapes
  <2>2. /\ request' = [request EXCEPT ![a] = q] /\ UNCHANGED threadVars
        /\ request[a].event = NoOne
    BY <1>4, NoShowShape DEF apartment_christmas_mode, Shapes
  <2> HIDE DEF q
  <2>3. QED
    BY <1>3, <2>1, <2>2
<1>5. ASSUME NEW t \in Shows, StartRequest(a, t) PROVE EffectsInv'
  <2>1. /\ start_christmas_chase(t) /\ request' = [request EXCEPT ![a] = NoRequest]
        /\ request[a].event = NoOne
    BY <1>5 DEF StartRequest, HoldsToSignal
  <2>2. HoldsToSignal' /\ \A s \in Shows : Held(s)' <=> Held(s)
    BY <1>2, <2>1, NoShowShape
  <2>3. Shapes'
    BY <2>1, StartKeeps, NoShowShape DEF Shapes
  <2>4. QED
    BY <1>10, <2>1, <2>2, <2>3, StartKeeps DEF OneLiveShow, Playing
<1>6. CASE stop_christmas_chase(a)
  <2>1. /\ active' = NoOne /\ UNCHANGED <<halted, show>> /\ request[a].event = NoOne
        /\ request' = [request EXCEPT ![a] =
              IF active = NoOne THEN [pc |-> "off", event |-> NoOne, todo |-> Lamps]
              ELSE [pc |-> "signal", event |-> active, todo |-> {}]]
    BY <1>6 DEF stop_christmas_chase, HoldsToSignal
  <2>2. Shapes' /\ HoldsToSignal'
    BY <2>1 DEF Shapes, HoldsToSignal
  <2>3. /\ \A s \in Shows : Held(s) => Held(s)'
        /\ \A s \in Shows : s = active => Held(s)'
    <3>1. \A b \in Admins \ {a} : request'[b] = request[b]
      BY <2>1 DEF Shapes
    <3>2. \A s \in Shows : s = active => request'[a].event = s
      BY <2>1, ShowAssumption DEF Shapes
    <3>3. QED
      BY <2>1, <3>1, <3>2, ShowAssumption DEF Held
  <2>4. \A s \in Shows : Playing(s)' <=> Playing(s)
    BY <2>1 DEF Playing
  <2>5. \A s \in Shows : Playing(s) /\ s \notin halted /\ ~Held(s) => active = s
    BY DEF OneLiveShow, Playing
  <2>6. OneLiveShow'
    BY <2>1, <2>3, <2>4, <2>5 DEF OneLiveShow, Playing
  <2>7. QED
    BY <1>10, <2>2, <2>6
<1>7. CASE SignalStop(a)
  <2>1. /\ UNCHANGED <<active, show>> /\ request' = [request EXCEPT ![a] = NoRequest]
        /\ halted' = IF show[request[a].event] = NoShow THEN halted
                     ELSE halted \cup {request[a].event}
    BY <1>7 DEF SignalStop
  <2>2. Shapes' /\ HoldsToSignal'
    BY <2>1, NoShowShape DEF Shapes, HoldsToSignal
  <2>3. \A s \in Shows : Held(s) => Held(s)' \/ s = request[a].event
    BY <2>1 DEF Shapes, Held
  <2>4. \A s \in Shows : s = request[a].event => s \in halted' \/ ~Playing(s)
    BY <2>1, NoShowShape DEF Playing
  <2>5. \A s \in Shows : Playing(s)' <=> Playing(s)
    BY <2>1 DEF Playing
  <2>6. \A s \in Shows : Playing(s) /\ s \notin halted /\ ~Held(s) => active = s
    BY DEF OneLiveShow, Playing
  <2>7. halted \subseteq halted'
    BY <2>1
  <2>8. ASSUME NEW s \in Shows, Playing(s)', s \notin halted', ~Held(s)' PROVE active' = s
    <3>1. Playing(s) /\ s \notin halted /\ s # request[a].event
      BY <2>4, <2>5, <2>7, <2>8
    <3>2. QED
      BY <2>1, <2>3, <2>6, <2>8, <3>1
  <2>9. OneLiveShow'
    BY <2>8 DEF OneLiveShow, Playing
  <2>10. QED
    BY <1>10, <2>2, <2>9
<1>8. ASSUME NEW l \in Lamps, RequestDarkens(a, l) PROVE EffectsInv'
  <2> DEFINE q == IF request[a].todo = {l} THEN NoRequest
                  ELSE [request[a] EXCEPT !.todo = @ \ {l}]
  <2>1. request' = [request EXCEPT ![a] = q] /\ UNCHANGED threadVars /\ request[a].event = NoOne
    BY <1>8 DEF RequestDarkens, HoldsToSignal
  <2>2. /\ q \in [pc : {"idle", "start", "stop", "signal", "off", "down"},
                  event : Shows \cup {NoOne}, todo : SUBSET Lamps]
        /\ q.event = NoOne
    BY <2>1, NoShowShape DEF Shapes
  <2> HIDE DEF q
  <2>3. QED
    BY <1>3, <2>1, <2>2
<1>9. QED
  BY <1>1, <1>4, <1>5, <1>6, <1>7, <1>8 DEF RequestStep

LEMMA EffectsInvStep == EffectsInv /\ [EffectsNext]_effectVars => EffectsInv'
<1> SUFFICES ASSUME EffectsInv, [EffectsNext]_effectVars PROVE EffectsInv'
  OBVIOUS
<1> USE DEF EffectsInv
<1>1. ASSUME UNCHANGED <<threadVars, request>>, tick' \in TickStates,
             tick'.pc = "down" => tick.pc = "down"
      PROVE  EffectsInv'
  <2>1. Shapes' /\ HoldsToSignal' /\ DownIsQuiet'
    BY <1>1 DEF threadVars, Shapes, HoldsToSignal, DownIsQuiet
  <2>2. OneLiveShow'
    BY <1>1 DEF threadVars, OneLiveShow, Held
  <2>3. QED
    BY <2>1, <2>2
<1>2. CASE UNCHANGED effectVars
  BY <1>1, <1>2 DEF effectVars, threadVars, DownIsQuiet
<1>3. CASE ServerDies
  <2>1. \A a \in Admins : request'[a].event = NoOne /\ request'[a].pc = "down"
    BY <1>3 DEF ServerDies, NoRequest
  <2>2. Shapes'
    <3>1. [NoRequest EXCEPT !.pc = "down"] \in
             [pc : {"idle", "start", "stop", "signal", "off", "down"},
              event : Shows \cup {NoOne}, todo : SUBSET Lamps]
      BY DEF NoRequest
    <3>2. QED
      BY <1>3, <3>1, NoShowShape DEF ServerDies, Shapes
  <2>3. \A t \in Shows : show'[t].pc = "none"
    BY <1>3, NoShowShape DEF ServerDies
  <2>4. tick' \in TickStates
    BY <1>3 DEF ServerDies, Quiet, TickStates
  <2>5. QED
    BY <2>1, <2>2, <2>3, <2>4 DEF HoldsToSignal, DownIsQuiet, OneLiveShow
<1>4. CASE ServerBoots
  <2>1. /\ UNCHANGED threadVars /\ tick' \in TickStates /\ tick'.pc = "idle"
        /\ request' = [a \in Admins |-> NoRequest]
    BY <1>4 DEF ServerBoots, Quiet, TickStates
  <2>2. \A s \in Shows : ~Held(s)
    BY <1>4, ShowAssumption DEF ServerBoots, DownIsQuiet, HoldsToSignal, Held
  <2>3. Shapes' /\ HoldsToSignal' /\ DownIsQuiet'
    BY <2>1, NoShowShape DEF threadVars, Shapes, HoldsToSignal, DownIsQuiet
  <2>4. OneLiveShow'
    BY <2>1, <2>2 DEF threadVars, OneLiveShow
  <2>5. QED
    BY <2>3, <2>4
<1>5. CASE OtherMoves
  <2>1. CASE ServerBoots
    BY <1>4, <2>1
  <2>2. CASE ~ServerBoots
    <3>1. UNCHANGED <<threadVars, request>>
      BY <1>5, <2>2 DEF OtherMoves, OverrideTick, ResumeTick, PlcReach, OverrideLamp,
         apartment_building_settings
    <3>2. tick' = tick \/ (tick' \in TickStates /\ tick'.pc # "down")
      <4>1. CASE OverrideTick
        BY <4>1 DEF OverrideTick, TickStates
      <4>2. CASE ResumeTick
        BY <4>2 DEF ResumeTick, Quiet, TickStates
      <4>3. ASSUME NEW l \in Lamps, OverrideLamp(l) PROVE tick' \in TickStates /\ tick'.pc # "down"
        BY <4>3 DEF OverrideLamp, DownIsQuiet, TickStates, Quiet
      <4>4. QED
        BY <1>5, <2>2, <4>1, <4>2, <4>3 DEF OtherMoves, PlcReach, apartment_building_settings
    <3>3. QED
      BY <1>1, <3>1, <3>2 DEF DownIsQuiet
  <2>3. QED
    BY <2>1, <2>2
<1>6. CASE Resumes
  <2>1. PICK t \in Shows : resume_active_chases(t)
    BY <1>6 DEF Resumes
  <2>2. /\ start_christmas_chase(t) /\ UNCHANGED request
        /\ tick' \in TickStates /\ tick'.pc = "idle"
    BY <2>1 DEF resume_active_chases, Quiet, TickStates
  <2>3. Shapes' /\ HoldsToSignal' /\ DownIsQuiet'
    BY <2>2, StartKeeps DEF Shapes, HoldsToSignal, DownIsQuiet
  <2>4. \A s \in Shows : Held(s)' <=> Held(s)
    BY <2>2 DEF Held
  <2>5. OneLiveShow'
    BY <2>2, <2>4, StartKeeps DEF OneLiveShow, Playing
  <2>6. QED
    BY <2>3, <2>5
<1>7. QED
  BY <1>2, <1>3, <1>5, <1>6, EffectsCases, ShowMovesKeep, RequestMovesKeep

LEMMA EffectsInvInit == EffectsInit => EffectsInv
BY NoShowShape DEF EffectsInit, EffectsInv, Shapes, HoldsToSignal, DownIsQuiet, OneLiveShow,
   Quiet, TickStates

(* For any number of lamps, threads and requests, of the chase threads at  *)
(* most one plays that has not been told to stop, and it is the registered *)
(* one: start_christmas_chase, stop_christmas_chase, resume_active_chases  *)
(* and the exit of _run_chase never leave two shows or a show that no stop *)
(* can find, through restarts of the process as well.                      *)
THEOREM OneShowAtATime == EffectsSpec => []OneLiveShow
<1>1. EffectsInv => OneLiveShow
  BY DEF EffectsInv
<1>2. QED
  BY <1>1, EffectsInvInit, EffectsInvStep, PTL DEF EffectsSpec
=============================================================================
