---------------------------- MODULE ADSClientProofs ----------------------------
(***************************************************************************)
(* The safety properties of ADSClient, for any sets of threads and         *)
(* variables and any bounds. All of them follow from one inductive         *)
(* invariant: a live reconnect thread is the one _reconnect_thread refers  *)
(* to, and whoever is inside connect() finds no session.                   *)
(***************************************************************************)
EXTENDS ADSClient, TLAPS

\* Only the referenced reconnect thread can be alive, and none while _start() runs.
ThreadInv ==
  \A t \in RThreads : pc[t] # "dead" => t = rthread /\ pc[Starter] = "dead"

\* _start() runs connect() once and never the reconnect loop.
StarterInv == pc[Starter] \in Connecting \cup {"dead"}

\* A thread that connects does so in a client without a session.
ConnectingInv ==
  \A t \in Connectors :
    /\ pc[t] \in Connecting => ~connected
    /\ pc[t] \in Connecting \ {"close"} => conn = "none"

\* The flag implies the connection, for the holder of the lock too.
LockInv ==
  /\ connected => conn = "open"
  /\ lock # NoThread => connected

\* A connection that does not work any more was lost by a read or write, and
\* so was the one a notification command was started on.
LostInv ==
  /\ conn = "open" => connected \/ lost
  /\ notifying => connected \/ lost

HandleInv ==
  \A v \in Vars : handles[v] # "stale" /\ (handles[v] # "none" => conn = "open")

\* An attempt is counted once, after the exponent it used was in range.
AttemptInv ==
  \A t \in RThreads : pc[t] \in Connecting => attempt[t] <= PowLimit

IInv ==
  TypeOK /\ ThreadInv /\ StarterInv /\ ConnectingInv /\ LockInv /\ LostInv /\ HandleInv /\ AttemptInv

LEMMA InitIInv == Init => IInv
  <1> SUFFICES ASSUME Init PROVE IInv
    OBVIOUS
  <1>1. op \in Ops
    BY DEF Init, Ops
  <1>2. pc \in [Connectors -> PCs]
    BY DEF Init, PCs, Connecting
  <1>3. handles \in [Vars -> {"none", "live", "stale"}]
    BY DEF Init
  <1>4. attempt \in [RThreads -> 0..(PowLimit + 1)]
    BY BoundAssumption DEF Init
  <1>5. faults \in 0..MaxFaults
    BY BoundAssumption DEF Init
  <1>6. connected \in BOOLEAN /\ cooling \in BOOLEAN /\ lost \in BOOLEAN /\ notifying \in BOOLEAN
    BY DEF Init
  <1>7. TypeOK
    BY <1>1, <1>2, <1>3, <1>4, <1>5, <1>6 DEF Init, TypeOK, Excs
  <1>8. ThreadInv /\ AttemptInv /\ StarterInv
    BY ThreadAssumption, BoundAssumption
    DEF Init, ThreadInv, AttemptInv, StarterInv, Connectors, Connecting
  <1>9. ConnectingInv /\ LockInv /\ LostInv /\ HandleInv
    BY DEF Init, ConnectingInv, LockInv, LostInv, HandleInv
  <1> QED
    BY <1>7, <1>8, <1>9 DEF IInv

\* Launch leaves at most one reconnect thread alive, and a new one outside connect().
LEMMA LaunchStep ==
  ASSUME TypeOK, ThreadInv, ConnectingInv, AttemptInv, Launch, Usable
  PROVE  /\ rthread' \in RThreads \cup {NoThread}
         /\ pc' \in [Connectors -> PCs]
         /\ attempt' \in [RThreads -> 0..(PowLimit + 1)]
         /\ \A t \in RThreads : pc'[t] # "dead" => t = rthread' /\ pc'[Starter] = "dead"
         /\ \A t \in Connectors : pc'[t] \in Connecting => pc'[t] = pc[t]
         /\ pc'[Starter] = "dead"
         /\ \A t \in RThreads : pc'[t] \in Connecting => attempt'[t] <= PowLimit
  BY ThreadAssumption, BoundAssumption
  DEF Launch, ReconnectAlive, Usable, TypeOK, ThreadInv, ConnectingInv, AttemptInv,
      Connectors, Connecting, PCs
\* A request's step leaves the invariant: it never touches the session of a
\* client that is connecting, because such a client is not connected.
LEMMA RequestIInv ==
  ASSUME IInv, NEW r \in Reqs, ReqStep(r)
  PROVE  IInv'
  <1> USE ThreadAssumption, BoundAssumption DEF IInv
  <1>1. CASE NotConnected(r)
    <2>1. Launch /\ Usable
      BY <1>1 DEF NotConnected
    <2>2. TypeOK'
      BY <1>1, <2>1, LaunchStep DEF NotConnected, TypeOK, envVars, sessVars, reqVars
    <2>3. ThreadInv' /\ AttemptInv' /\ StarterInv'
      BY <1>1, <2>1, LaunchStep DEF NotConnected, ThreadInv, AttemptInv, StarterInv
    <2>4. ConnectingInv' /\ LockInv' /\ LostInv' /\ HandleInv'
      BY <1>1, <2>1, LaunchStep
      DEF NotConnected, ConnectingInv, LockInv, LostInv, HandleInv, sessVars, reqVars, Connecting
    <2> QED
      BY <2>2, <2>3, <2>4
  <1>2. ASSUME NEW k \in Ops, Begin(r, k) PROVE IInv'
    <2>1. TypeOK'
      BY <1>2 DEF Begin, TypeOK, envVars, sessVars, thrVars
    <2>2. ThreadInv' /\ AttemptInv' /\ ConnectingInv' /\ LockInv' /\ LostInv' /\ HandleInv' /\ StarterInv'
      BY <1>2 DEF Begin, ThreadInv, StarterInv, AttemptInv, ConnectingInv, LockInv, LostInv, HandleInv,
                  sessVars, thrVars
    <2> QED
      BY <2>1, <2>2
  <1>3. CASE Served(r)
    <2>1. conn = "open" /\ connected
      BY <1>3 DEF Served, LockInv
    <2>2. handles' \in [Vars -> {"none", "live", "stale"}]
      BY <1>3 DEF Served, TypeOK
    <2>3. TypeOK'
      BY <1>3, <2>2 DEF Served, TypeOK, envVars, thrVars
    <2>4. HandleInv'
      BY <1>3, <2>1 DEF Served, HandleInv, TypeOK
    <2>5. ThreadInv' /\ AttemptInv' /\ StarterInv' /\ ConnectingInv' /\ LockInv' /\ LostInv'
      BY <1>3, <2>1 DEF Served, StarterInv, ThreadInv, AttemptInv, ConnectingInv, LockInv, LostInv, thrVars
    <2> QED
      BY <2>3, <2>4, <2>5
  <1>4. CASE Failed(r)
    <2>1. conn = "open" /\ connected /\ Launch
      BY <1>4 DEF Failed, LockInv
    <2>2. Usable
      BY <2>1 DEF Usable, ConnectingInv, StarterInv, Connectors
    <2>3. TypeOK'
      BY <1>4, <2>1, <2>2, LaunchStep DEF Failed, TypeOK, envVars
    <2>4. ThreadInv' /\ AttemptInv' /\ StarterInv'
      BY <1>4, <2>1, <2>2, LaunchStep DEF Failed, ThreadInv, AttemptInv, StarterInv
    <2>5. \A t \in Connectors : pc'[t] \notin Connecting
      BY <2>1, <2>2, LaunchStep DEF ConnectingInv
    <2>6. ConnectingInv' /\ LockInv' /\ LostInv' /\ HandleInv'
      BY <1>4, <2>1, <2>5 DEF Failed, ConnectingInv, LockInv, LostInv, HandleInv
    <2> QED
      BY <2>3, <2>4, <2>6
  <1> QED
    BY <1>1, <1>2, <1>3, <1>4 DEF ReqStep

\* A step of the reconnect loop outside connect().
LEMMA LoopIInv ==
  ASSUME IInv, NEW t \in RThreads, LoopStep(t)
  PROVE  IInv'
  <1> USE ThreadAssumption, BoundAssumption DEF IInv, Goto, Connectors, Connecting
  <1>1. pc[t] \in PCs /\ t = rthread /\ pc[Starter] = "dead" /\ t # Starter
    BY DEF LoopStep, BackoffOverflow, Wake, Close, Exit, ThreadInv, TypeOK
  <1>2. CASE BackoffOverflow(t) \/ Exit(t)
    <2>1. pc' = [pc EXCEPT ![t] = "dead"] /\ UNCHANGED <<envVars, sessVars, reqVars, rthread, attempt, exc, cooling>>
      BY <1>2 DEF BackoffOverflow, Exit
    <2>2. TypeOK'
      BY <2>1 DEF TypeOK, PCs, envVars, sessVars, reqVars
    <2>3. ThreadInv' /\ AttemptInv' /\ StarterInv' /\ ConnectingInv' /\ LockInv' /\ LostInv' /\ HandleInv'
      BY <1>1, <2>1 DEF TypeOK, ThreadInv, AttemptInv, StarterInv, ConnectingInv, LockInv, LostInv, HandleInv,
         sessVars, reqVars
    <2> QED
      BY <2>2, <2>3
  <1>3. CASE Wake(t)
    <2>1. TypeOK'
      BY <1>3 DEF Wake, TypeOK, PCs, envVars, sessVars, reqVars
    <2>2. ThreadInv' /\ AttemptInv' /\ StarterInv' /\ ConnectingInv' /\ LockInv' /\ LostInv' /\ HandleInv'
      BY <1>1, <1>3 DEF Wake, TypeOK, ThreadInv, AttemptInv, StarterInv, ConnectingInv, LockInv, LostInv,
         HandleInv, sessVars, reqVars
    <2> QED
      BY <2>1, <2>2
  <1>4. CASE Close(t)
    <2>1. TypeOK'
      BY <1>4 DEF Close, TypeOK, PCs, envVars, reqVars
    <2>2. ThreadInv' /\ AttemptInv' /\ StarterInv' /\ ConnectingInv' /\ LockInv' /\ LostInv' /\ HandleInv'
      BY <1>1, <1>4 DEF Close, TypeOK, ThreadInv, AttemptInv, StarterInv, ConnectingInv, LockInv, LostInv,
         HandleInv, reqVars
    <2> QED
      BY <2>1, <2>2
  <1> QED
    BY <1>2, <1>3, <1>4 DEF LoopStep

\* A step inside connect(), by the starter or by the reconnect thread.
LEMMA ConnectIInv ==
  ASSUME IInv, NEW t \in Connectors, ConnectStep(t)
  PROVE  IInv'
  <1> USE ThreadAssumption, BoundAssumption DEF IInv, Goto, Connecting
  <1>1. pc[t] \in Connecting
    BY DEF ConnectStep, Open, Publish, Repair, AddRoute, ConnectFailed
  <1>2. ~connected /\ lock = NoThread
    BY <1>1 DEF ConnectingInv, LockInv
  <1>3. \A s \in Connectors : pc[s] \in Connecting => s = t
    BY <1>1 DEF ThreadInv, StarterInv, Connectors
  <1>4. CASE Open(t)
    <2>1. TypeOK'
      BY <1>4 DEF Open, TypeOK, PCs, Excs, Returned, envVars, sessVars, reqVars
    <2>2. ThreadInv' /\ AttemptInv' /\ StarterInv' /\ ConnectingInv' /\ LockInv' /\ LostInv' /\ HandleInv'
      BY <1>1, <1>2, <1>4 DEF Open, TypeOK, ThreadInv, AttemptInv, StarterInv, ConnectingInv,
         LockInv, LostInv, HandleInv, sessVars, reqVars, Returned, Connectors
    <2> QED
      BY <2>1, <2>2
  <1>5. CASE Publish(t)
    <2>1. TypeOK'
      BY <1>5 DEF Publish, TypeOK, PCs, Excs, Returned, envVars, reqVars
    <2>2. conn = "none"
      BY <1>5 DEF Publish, ConnectingInv
    <2>3. HandleInv'
      BY <1>5, <2>2 DEF Publish, HandleInv
    <2>4. ThreadInv' /\ AttemptInv' /\ StarterInv' /\ LockInv' /\ LostInv'
      BY <1>1, <1>2, <1>5 DEF Publish, TypeOK, ThreadInv, AttemptInv, StarterInv, LockInv, LostInv,
         reqVars, Returned, Connectors
    <2>5. ConnectingInv'
      BY <1>3, <1>5 DEF Publish, TypeOK, ConnectingInv, Returned
    <2> QED
      BY <2>1, <2>3, <2>4, <2>5
  <1>6. CASE Repair(t)
    <2>1. TypeOK'
      BY <1>6 DEF Repair, TypeOK, PCs, envVars, sessVars, reqVars
    <2>2. ThreadInv' /\ AttemptInv' /\ StarterInv' /\ ConnectingInv' /\ LockInv' /\ LostInv' /\ HandleInv'
      BY <1>1, <1>2, <1>6 DEF Repair, TypeOK, ThreadInv, AttemptInv, StarterInv, ConnectingInv,
         LockInv, LostInv, HandleInv, sessVars, reqVars, Connectors
    <2> QED
      BY <2>1, <2>2
  <1>7. CASE AddRoute(t)
    <2>1. TypeOK'
      BY <1>7 DEF AddRoute, TypeOK, PCs, sessVars, reqVars
    <2>2. ThreadInv' /\ AttemptInv' /\ StarterInv' /\ ConnectingInv' /\ LockInv' /\ LostInv' /\ HandleInv'
      BY <1>1, <1>2, <1>7 DEF AddRoute, TypeOK, ThreadInv, AttemptInv, StarterInv, ConnectingInv,
         LockInv, LostInv, HandleInv, sessVars, reqVars, Connectors
    <2> QED
      BY <2>1, <2>2
  <1>8. CASE ConnectFailed(t)
    <2>1. t \in RThreads => attempt[t] \in 0..PowLimit
      BY <1>1 DEF TypeOK, AttemptInv
    <2>2. attempt' \in [RThreads -> 0..(PowLimit + 1)]
      BY <1>8, <2>1 DEF ConnectFailed, TypeOK, Connectors
    <2>3. pc' \in [Connectors -> PCs]
      BY <1>8 DEF ConnectFailed, TypeOK, PCs
    <2>4. TypeOK'
      BY <1>8, <2>2, <2>3 DEF ConnectFailed, TypeOK, envVars, reqVars
    <2>5. ThreadInv' /\ AttemptInv' /\ StarterInv' /\ ConnectingInv' /\ LockInv' /\ LostInv' /\ HandleInv'
      BY <1>1, <1>2, <1>8 DEF ConnectFailed, TypeOK, ThreadInv, AttemptInv, StarterInv,
         ConnectingInv, LockInv, LostInv, HandleInv, reqVars, Connectors
    <2> QED
      BY <2>4, <2>5
  <1> QED
    BY <1>4, <1>5, <1>6, <1>7, <1>8 DEF ConnectStep

LEMMA NextIInv == IInv /\ [Next]_vars => IInv'
  <1> SUFFICES ASSUME IInv, [Next]_vars PROVE IInv'
    OBVIOUS
  <1> USE BoundAssumption
  <1>1. CASE PlcFault \/ PlcReturns \/ CooldownOver
    <2>1. plc' \in {"up", "noroute", "down"} /\ faults' \in 0..MaxFaults
      BY <1>1 DEF PlcFault, PlcReturns, CooldownOver, IInv, TypeOK, envVars
    <2>2. cooling' \in BOOLEAN
      BY <1>1 DEF PlcFault, PlcReturns, CooldownOver, IInv, TypeOK, thrVars
    <2>3. UNCHANGED <<sessVars, reqVars, rthread, pc, attempt, exc>>
      BY <1>1 DEF PlcFault, PlcReturns, CooldownOver, thrVars
    <2>4. TypeOK'
      BY <2>1, <2>2, <2>3 DEF IInv, TypeOK, sessVars, reqVars
    <2> QED
      BY <2>3, <2>4 DEF IInv, sessVars, reqVars, ThreadInv, AttemptInv, StarterInv, ConnectingInv, LockInv, LostInv, HandleInv
  <1>2. CASE \E r \in Reqs : ReqStep(r)
    BY <1>2, RequestIInv
  <1>3. CASE \E t \in RThreads : LoopStep(t)
    BY <1>3, LoopIInv
  <1>4. CASE \E t \in Connectors : ConnectStep(t)
    BY <1>4, ConnectIInv
  <1>5. CASE NoteBegin \/ NoteEnd
    <2>1. notifying' \in BOOLEAN /\ UNCHANGED <<envVars, sessVars, lock, op, thrVars>>
      BY <1>5 DEF NoteBegin, NoteEnd
    <2>2. TypeOK'
      BY <2>1 DEF IInv, TypeOK, envVars, sessVars, thrVars
    <2>3. LostInv'
      BY <1>5 DEF NoteBegin, NoteEnd, IInv, LostInv, sessVars
    <2> QED
      BY <2>1, <2>2, <2>3 DEF IInv, sessVars, thrVars, ThreadInv, AttemptInv, StarterInv, ConnectingInv, LockInv, HandleInv
  <1>6. CASE UNCHANGED vars
    BY <1>6 DEF vars, envVars, sessVars, reqVars, thrVars, IInv, TypeOK, ThreadInv, AttemptInv,
       StarterInv, ConnectingInv, LockInv, LostInv, HandleInv
  <1> QED
    BY <1>1, <1>2, <1>3, <1>4, <1>5, <1>6 DEF Next

\* The inductive invariant holds of every behaviour of the client.
THEOREM Invariance == Spec => []IInv
  BY InitIInv, NextIInv, PTL DEF Spec

\* Every variable keeps its type: the back-off exponent of a reconnect thread
\* stays within one of the largest that math.pow accepts.
THEOREM TypeCorrect == Spec => []TypeOK
  <1>1. IInv => TypeOK
    BY DEF IInv
  <1> QED
    BY Invariance, <1>1, PTL

\* connect() needs no lock: at most one thread is ever inside it.
THEOREM OneConnectorHolds == Spec => []OneConnector
  <1>1. IInv => OneConnector
    BY ThreadAssumption DEF IInv, ThreadInv, StarterInv, OneConnector, Connectors, Connecting
  <1> QED
    BY Invariance, <1>1, PTL

\* A command under the lock keeps its session to the end, and one of the
\* NotificationManager, without it, loses its connection only in a session
\* that a failed read or write has already ended.
THEOREM InFlightHolds == Spec => InFlightUndisturbed
  <1> DEFINE Kept == /\ lock # NoThread /\ lock' = lock => connected' /\ conn' = "open"
                     /\ notifying /\ conn' # conn => lost /\ ~connected
  <1>1. ASSUME IInv, IInv', [Next]_vars PROVE [Kept]_vars
    <2>1. lock # NoThread /\ lock' = lock => connected' /\ conn' = "open"
      BY <1>1 DEF IInv, LockInv
    <2>2. ASSUME conn' # conn PROVE ~connected
      <3>1. CASE PlcFault \/ PlcReturns \/ CooldownOver \/ NoteBegin \/ NoteEnd \/ UNCHANGED vars
        BY <2>2, <3>1 DEF PlcFault, PlcReturns, CooldownOver, NoteBegin, NoteEnd, vars, sessVars
      <3>2. ASSUME NEW r \in Reqs, ReqStep(r) PROVE ~connected
        BY <2>2, <3>2 DEF ReqStep, NotConnected, Begin, Served, Failed, sessVars
      <3>3. ASSUME NEW t \in RThreads, LoopStep(t) PROVE ~connected
        BY <1>1, <2>2, <3>3 DEF LoopStep, BackoffOverflow, Wake, Close, Exit, sessVars, IInv,
           ConnectingInv, Connecting, Connectors
      <3>4. ASSUME NEW t \in Connectors, ConnectStep(t) PROVE ~connected
        BY <1>1, <2>2, <3>4 DEF ConnectStep, Open, Publish, Repair, AddRoute, ConnectFailed,
           sessVars, IInv, ConnectingInv, Connecting
      <3> QED
        BY <1>1, <3>1, <3>2, <3>3, <3>4 DEF Next
    <2> QED
      BY <1>1, <2>1, <2>2 DEF IInv, LostInv
  <1> QED
    BY Invariance, <1>1, PTL DEF Spec, InFlightUndisturbed

\* A cached handle belongs to the open session.
THEOREM HandlesFresh == Spec => []NoStaleHandle
  <1>1. IInv => NoStaleHandle
    BY DEF IInv, HandleInv, NoStaleHandle
  <1> QED
    BY Invariance, <1>1, PTL

\* What Recovers rests on besides fairness: nobody who connects ever waits for
\* self._lock, which callers hold across a whole ADS call, and once is_alive()
\* is false no thread is left running unreferenced, so the next call that
\* finds the connection gone starts the loop again.
ReconnectUnblocked ==
  /\ lock # NoThread => \A t \in Connectors : pc[t] \notin Connecting
  /\ ~ReconnectAlive => \A t \in RThreads : pc[t] = "dead"

\* Neither a caller in the middle of a command nor a forgotten thread can hold
\* a reconnect up, for any number of callers.
THEOREM NothingBlocksReconnect == Spec => []ReconnectUnblocked
  <1>1. IInv => ReconnectUnblocked
    BY ThreadAssumption DEF IInv, LockInv, ConnectingInv, ThreadInv, TypeOK, ReconnectAlive, ReconnectUnblocked
  <1> QED
    BY Invariance, <1>1, PTL

\* Every step of the client is a step of LinkSession or leaves the session
\* alone: a working connection is lost only by a failed read or write, and is
\* closed before the next one is opened.
THEOREM SessionRefinement == Spec => SessionSpec
  <1> DEFINE s == IF connected THEN "good" ELSE IF conn = "open" THEN "failed" ELSE "none"
  <1>1. Init => Session!Init
    BY DEF Init, Session!Init
  <1>2. ASSUME IInv, [Next]_vars PROVE [Session!Next]_s
    <2> USE DEF Session!Next, Session!Establish, Session!Fail, Session!Close
    <2>1. CASE PlcFault \/ PlcReturns \/ CooldownOver \/ NoteBegin \/ NoteEnd \/ UNCHANGED vars
      BY <2>1 DEF PlcFault, PlcReturns, CooldownOver, NoteBegin, NoteEnd, vars, sessVars
    <2>2. ASSUME NEW r \in Reqs, ReqStep(r) PROVE [Session!Next]_s
      BY <1>2, <2>2 DEF ReqStep, NotConnected, Begin, Served, Failed, sessVars, IInv, LockInv, TypeOK
    <2>3. ASSUME NEW t \in RThreads, LoopStep(t) PROVE [Session!Next]_s
      <3>1. pc[t] = "close" => ~connected
        BY <1>2 DEF IInv, ConnectingInv, Connecting, Connectors
      <3> QED
        BY <1>2, <2>3, <3>1 DEF LoopStep, BackoffOverflow, Wake, Close, Exit, sessVars, IInv, TypeOK
    <2>4. ASSUME NEW t \in Connectors, ConnectStep(t) PROVE [Session!Next]_s
      <3>1. pc[t] \in Connecting \ {"close"}
        BY <2>4 DEF ConnectStep, Open, Publish, Repair, AddRoute, ConnectFailed, Connecting
      <3>2. ~connected /\ conn = "none"
        BY <1>2, <3>1 DEF IInv, ConnectingInv
      <3> QED
        BY <2>4, <3>2 DEF ConnectStep, Open, Publish, Repair, AddRoute, ConnectFailed, sessVars
    <2> QED
      BY <1>2, <2>1, <2>2, <2>3, <2>4 DEF Next
  <1> QED
    BY Invariance, <1>1, <1>2, PTL DEF Spec, SessionSpec, Session!Spec
================================================================================
