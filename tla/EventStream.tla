---------------------------- MODULE EventStream -----------------------------
(***************************************************************************)
(* Live updates: the poll task publishes what it reads into the EventBus   *)
(* and the DeviceValueCache, each SSE stream drains a queue of its own     *)
(* (tasks.poll_plc_state, realtime/event_bus.py, realtime/views.py).  Bus, *)
(* cache and connection counts are singletons of a PROCESS: the streams    *)
(* are in the web server, the poll where Celery runs it.                   *)
(*                                                                         *)
(* Abstractions: an event is a variable of a device and its sequence       *)
(* number, and a value is the number of the event that carried it.         *)
(***************************************************************************)
EXTENDS Integers, Sequences, FiniteSets

CONSTANTS
    Processes,
    Web,             \* the process that serves the streams
    PollProcess,     \* the process the poll task runs in
    Clients,         \* streams, by client id
    PlcDevices,
    PlcVars,         \* the variables polled of a device
    MaxQueueSize,    \* _MAX_QUEUE_SIZE
    MaxConnections,  \* _MAX_SSE_CONNECTIONS_PER_DEVICE
    MaxEvents        \* bound: events published

ASSUME ProcessAssumption == Web \in Processes /\ PollProcess \in Processes
ASSUME ClientsAssumption == IsFiniteSet(Clients)
ASSUME SizeAssumption ==
    MaxQueueSize \in Nat \ {0} /\ MaxConnections \in Nat /\ MaxEvents \in Nat

NoPoll == [todo |-> {}, read |-> {}]
NoStream == [pc |-> "none", since |-> 0, got |-> 0]

VARIABLES
    eventCount,   \* _event_count of each process's bus
    clientQueue,  \* _client_queues of the web process's bus; drained by the streams
    stream,       \* the streams: since = events before it, got = last one delivered
    streamDev,    \* the device a stream is about
    conns,        \* _counts of the web process
    valueCache,   \* DeviceValueCache of each process
    polling       \* the running poll: devices to read, variables to publish

streamVars == <<clientQueue, stream, streamDev, conns>>
eventVars == <<eventCount, streamVars, valueCache, polling>>

StreamInit ==
    /\ eventCount = [p \in Processes |-> 0]
    /\ clientQueue = [c \in Clients |-> <<>>]
    /\ stream = [c \in Clients |-> NoStream]
    /\ streamDev \in [Clients -> PlcDevices]
    /\ conns = [d \in PlcDevices |-> 0]
    /\ valueCache = [p \in Processes |-> [dv \in PlcDevices \X PlcVars |-> 0]]
    /\ polling = NoPoll

Registered(c) == stream[c].pc \in {"registered", "counted", "streaming"}
-----------------------------------------------------------------------------
\* Mutant: a full queue refuses the new event.
DropNewest(p, event) ==
    clientQueue' = [c \in Clients |->
        IF p # Web \/ ~Registered(c) \/ Len(clientQueue[c]) >= MaxQueueSize
        THEN clientQueue[c]
        ELSE Append(clientQueue[c], event)]

(* _broadcast, under the bus's lock: a full queue loses its oldest event.  *)
_broadcast(p, event) ==
    clientQueue' = [c \in Clients |->
        IF p # Web \/ ~Registered(c) THEN clientQueue[c]
        ELSE Append(IF Len(clientQueue[c]) >= MaxQueueSize THEN Tail(clientQueue[c])
                    ELSE clientQueue[c], event)]

publish(p, d, v) ==
    /\ eventCount' = [eventCount EXCEPT ![p] = @ + 1]
    /\ _broadcast(p, [dev |-> d, var |-> v, seq |-> eventCount[p] + 1])

(* poll_plc_state takes the active apartments in turn, ... *)
poll_plc_state ==
    /\ polling = NoPoll
    /\ eventCount[PollProcess] < MaxEvents
    /\ polling' = [NoPoll EXCEPT !.todo = PlcDevices]
    /\ UNCHANGED <<eventCount, streamVars, valueCache>>

(* ... reads the state of one, of which some or all may be missing, ... *)
read_full_state(d) ==
    /\ polling.read = {} /\ d \in polling.todo
    /\ \E vs \in SUBSET PlcVars :
          polling' = [todo |-> polling.todo \ {d}, read |-> {d} \X vs]
    /\ UNCHANGED <<eventCount, streamVars, valueCache>>

(* ... and publishes what it has into cache and bus. *)
_pub(d, v) ==
    /\ <<d, v>> \in polling.read
    /\ eventCount[PollProcess] < MaxEvents
    /\ valueCache' = [valueCache EXCEPT ![PollProcess][<<d, v>>] = eventCount[PollProcess] + 1]
    /\ publish(PollProcess, d, v)
    /\ polling' = [polling EXCEPT !.read = @ \ {<<d, v>>}]
    /\ UNCHANGED <<stream, streamDev, conns>>
-----------------------------------------------------------------------------
(* sse_stream: token and membership are checked, then the cap ... *)
sse_stream(c) ==
    /\ stream[c].pc = "none"
    /\ conns[streamDev[c]] < MaxConnections
    /\ stream' = [stream EXCEPT ![c].pc = "admitted"]
    /\ UNCHANGED <<eventCount, clientQueue, streamDev, conns, valueCache, polling>>

(* ... the queue is registered ... *)
register_client(c) ==
    /\ stream[c].pc = "admitted"
    /\ stream' = [stream EXCEPT ![c] =
          [pc |-> "registered", since |-> eventCount[Web], got |-> eventCount[Web]]]
    /\ UNCHANGED <<eventCount, clientQueue, streamDev, conns, valueCache, polling>>

(* ... and the connection counted, all before the generator starts. *)
increment(c) ==
    /\ stream[c].pc = "registered"
    /\ stream' = [stream EXCEPT ![c].pc = "counted"]
    /\ conns' = [conns EXCEPT ![streamDev[c]] = @ + 1]
    /\ UNCHANGED <<eventCount, clientQueue, streamDev, valueCache, polling>>

(* The server asks the generator for its first line ... *)
StartGenerator(c) ==
    /\ stream[c].pc = "counted"
    /\ stream' = [stream EXCEPT ![c].pc = "streaming"]
    /\ UNCHANGED <<eventCount, clientQueue, streamDev, conns, valueCache, polling>>

(* ... and for the next: the value is mirrored under the STREAM's device.  *)
_sse_generator(c) ==
    /\ stream[c].pc = "streaming"
    /\ clientQueue[c] # <<>>
    /\ LET event == Head(clientQueue[c])
       IN  /\ valueCache' = [valueCache EXCEPT ![Web][<<streamDev[c], event.var>>] = event.seq]
           /\ stream' = [stream EXCEPT ![c].got = event.seq]
    /\ clientQueue' = [clientQueue EXCEPT ![c] = Tail(@)]
    /\ UNCHANGED <<eventCount, streamDev, conns, polling>>

decrement(d) == conns' = [conns EXCEPT ![d] = IF @ = 0 THEN 0 ELSE @ - 1]

unregister_client(c) ==
    /\ stream' = [stream EXCEPT ![c] = NoStream]
    /\ clientQueue' = [clientQueue EXCEPT ![c] = <<>>]

(* The client goes away; a generator never started has no finally. *)
Disconnect(c) ==
    /\ stream[c].pc = "streaming"
    /\ unregister_client(c)
    /\ decrement(streamDev[c])
    /\ UNCHANGED <<eventCount, streamDev, valueCache, polling>>

Publishes == \E d \in PlcDevices, v \in PlcVars : _pub(d, v)
ReadsSome == (\E d \in PlcDevices : read_full_state(d)) /\ polling'.read # {}
PollStep == poll_plc_state \/ Publishes \/ \E d \in PlcDevices : read_full_state(d)
ClientStep(c) == register_client(c) \/ increment(c) \/ StartGenerator(c) \/ _sse_generator(c)

StreamNext ==
    \/ PollStep
    \/ \E c \in Clients : ClientStep(c) \/ sse_stream(c) \/ Disconnect(c)

(* Celery Beat runs the task, a poll reads something again and again, and  *)
(* the server drains its generators.                                       *)
StreamFairness ==
    /\ WF_eventVars(PollStep)
    /\ SF_eventVars(ReadsSome)
    /\ \A c \in Clients : WF_eventVars(ClientStep(c))

StreamSpec == StreamInit /\ [][StreamNext]_eventVars /\ StreamFairness
-----------------------------------------------------------------------------
(* A slow client falls behind but is never shown an older value last: its  *)
(* queue holds the newest events published since it registered, in order   *)
(* and without a gap, and when it is empty the newest was delivered.       *)
StreamKeepsNewest ==
    \A c \in Clients : Registered(c) =>
        LET q == clientQueue[c]
        IN  /\ Len(q) <= MaxQueueSize
            /\ \A i \in 1..Len(q) : q[i].seq = eventCount[Web] - Len(q) + i
            /\ stream[c].got <= eventCount[Web] - Len(q)
            /\ q = <<>> => stream[c].got = eventCount[Web]

(* "push variable deltas into EventBus + DeviceValueCache so SSE clients   *)
(* receive live updates" (poll_plc_state): a stream that stays open while  *)
(* the poll goes on is eventually sent an event.                           *)
ClientsReceiveUpdates ==
    \A c \in Clients :
        stream[c].pc = "streaming" /\ eventCount[PollProcess] < MaxEvents
          ~> stream[c].pc = "none" \/ stream[c].got > stream[c].since
=============================================================================
