-------------------------- MODULE EventStreamProofs --------------------------
(***************************************************************************)
(* Proofs about EventStream, for any number of processes, streams, devices *)
(* and variables, any queue size and any cap.  StreamKeepsNewest needs to  *)
(* know that a queue is empty until it is registered: an event a stream    *)
(* finds in its queue was published after the stream began.                *)
(***************************************************************************)
EXTENDS EventStream, FiniteSetTheorems, TLAPS

Events == [dev : PlcDevices, var : PlcVars, seq : Nat]
StreamStates ==
    [pc : {"none", "admitted", "registered", "counted", "streaming"}, since : Nat, got : Nat]

StreamTypes ==
    /\ eventCount \in [Processes -> Nat]
    /\ clientQueue \in [Clients -> Seq(Events)]
    /\ stream \in [Clients -> StreamStates]
    /\ streamDev \in [Clients -> PlcDevices]

EmptyBefore == \A c \in Clients : ~Registered(c) => clientQueue[c] = <<>>

(* StreamKeepsNewest of one stream: its queue q after n events, of which   *)
(* it was sent those up to got.                                            *)
Newest(q, n, got) ==
    /\ Len(q) <= MaxQueueSize
    /\ \A i \in 1..Len(q) : q[i].seq = n - Len(q) + i
    /\ got <= n - Len(q)
    /\ q = <<>> => got = n

StreamInv == StreamTypes /\ EmptyBefore /\ StreamKeepsNewest

LEMMA KeepsNewestPerStream ==
    StreamKeepsNewest <=>
        \A c \in Clients : Registered(c) => Newest(clientQueue[c], eventCount[Web], stream[c].got)
BY DEF StreamKeepsNewest, Newest

(* What _broadcast puts into a queue. *)
Pushed(q, event) == Append(IF Len(q) >= MaxQueueSize THEN Tail(q) ELSE q, event)

(* A full queue loses its oldest event, and so keeps the newest.           *)
LEMMA PushKeepsNewest ==
    ASSUME NEW q \in Seq(Events), NEW n \in Nat, NEW got \in Nat, Newest(q, n, got),
           NEW event \in Events, event.seq = n + 1
    PROVE  Pushed(q, event) \in Seq(Events) /\ Newest(Pushed(q, event), n + 1, got)
<1>1. CASE Len(q) >= MaxQueueSize
  <2> DEFINE r == Tail(q)
  <2>1. q # <<>> /\ Len(q) = MaxQueueSize
    BY <1>1, SizeAssumption DEF Newest
  <2>2. r \in Seq(Events) /\ Len(r) = Len(q) - 1 /\ \A i \in 1..Len(r) : r[i] = q[i + 1]
    BY <2>1
  <2>3. \A i \in 1..Len(r) : r[i].seq = n - Len(r) + i
    <3> SUFFICES ASSUME NEW i \in 1..Len(r) PROVE r[i].seq = n - Len(r) + i
      OBVIOUS
    <3>1. i + 1 \in 1..Len(q)
      BY <2>2
    <3>2. q[i + 1].seq = n - Len(q) + (i + 1)
      BY <3>1 DEF Newest
    <3> QED
      BY <2>2, <3>2
  <2> HIDE DEF r
  <2> DEFINE p == Append(r, event)
  <2>4. /\ p \in Seq(Events) /\ Len(p) = Len(q) /\ p # <<>> /\ p[Len(q)] = event
        /\ \A i \in 1..(Len(q) - 1) : p[i] = r[i]
    BY <2>1, <2>2
  <2>5. p = Pushed(q, event)
    BY <1>1 DEF r, Pushed
  <2> HIDE DEF p
  <2>6. \A i \in 1..Len(p) : p[i].seq = n + 1 - Len(p) + i
    <3> SUFFICES ASSUME NEW i \in 1..Len(p) PROVE p[i].seq = n + 1 - Len(p) + i
      OBVIOUS
    <3>1. CASE i = Len(q)
      BY <2>4, <3>1
    <3>2. CASE i \in 1..(Len(q) - 1)
      BY <2>2, <2>3, <2>4, <3>2
    <3> QED
      BY <2>4, <3>1, <3>2
  <2>7. Len(p) <= MaxQueueSize /\ got <= n + 1 - Len(p)
    BY <2>1, <2>4 DEF Newest
  <2>8. Newest(p, n + 1, got)
    BY <2>4, <2>6, <2>7 DEF Newest
  <2> QED
    BY <2>4, <2>5, <2>8
<1>2. CASE Len(q) < MaxQueueSize
  <2> DEFINE p == Append(q, event)
  <2>1. /\ p \in Seq(Events) /\ Len(p) = Len(q) + 1 /\ p # <<>> /\ p[Len(q) + 1] = event
        /\ \A i \in 1..Len(q) : p[i] = q[i]
    OBVIOUS
  <2>2. p = Pushed(q, event)
    BY <1>2, SizeAssumption DEF Pushed
  <2> HIDE DEF p
  <2>3. \A i \in 1..Len(p) : p[i].seq = n + 1 - Len(p) + i
    <3> SUFFICES ASSUME NEW i \in 1..Len(p) PROVE p[i].seq = n + 1 - Len(p) + i
      OBVIOUS
    <3>1. CASE i = Len(q) + 1
      BY <2>1, <3>1
    <3>2. CASE i \in 1..Len(q)
      BY <2>1, <3>2 DEF Newest
    <3> QED
      BY <2>1, <3>1, <3>2
  <2> QED
    BY <1>2, <2>1, <2>2, <2>3, SizeAssumption DEF Newest
<1> QED
  BY <1>1, <1>2, SizeAssumption

(* Taking the head delivers something newer than all that came before.     *)
LEMMA PopKeepsNewest ==
    ASSUME NEW q \in Seq(Events), q # <<>>, NEW n \in Nat, NEW got \in Nat, Newest(q, n, got)
    PROVE  /\ Head(q) \in Events /\ Tail(q) \in Seq(Events)
           /\ Newest(Tail(q), n, Head(q).seq)
           /\ got < Head(q).seq
<1> DEFINE r == Tail(q)
<1>1. /\ r \in Seq(Events) /\ Len(r) = Len(q) - 1 /\ \A i \in 1..Len(r) : r[i] = q[i + 1]
      /\ Head(q) = q[1] /\ 1 \in 1..Len(q) /\ Head(q) \in Events
  OBVIOUS
<1>2. Head(q).seq = n - Len(q) + 1
  BY <1>1 DEF Newest
<1>3. r = <<>> => Len(q) = 1
  BY <1>1
<1> HIDE DEF r
<1>4. \A i \in 1..Len(r) : r[i].seq = n - Len(r) + i
  <2> SUFFICES ASSUME NEW i \in 1..Len(r) PROVE r[i].seq = n - Len(r) + i
    OBVIOUS
  <2>1. i + 1 \in 1..Len(q)
    BY <1>1
  <2>2. q[i + 1].seq = n - Len(q) + (i + 1)
    BY <2>1 DEF Newest
  <2> QED
    BY <1>1, <2>2
<1>5. got < Head(q).seq
  BY <1>2, <1>1 DEF Newest
<1>6. Newest(r, n, Head(q).seq)
  BY <1>1, <1>2, <1>3, <1>4, SizeAssumption DEF Newest
<1> QED
  BY <1>1, <1>5, <1>6 DEF r

LEMMA StreamInvInit == StreamInit => StreamInv
<1> SUFFICES ASSUME StreamInit PROVE StreamInv
  OBVIOUS
<1>1. NoStream \in StreamStates /\ NoStream.pc = "none"
  BY DEF NoStream, StreamStates
<1>2. <<>> \in Seq(Events)
  OBVIOUS
<1> QED
  BY <1>1, <1>2
  DEF StreamInit, StreamInv, StreamTypes, EmptyBefore, StreamKeepsNewest, Registered

(* Publishing, from whichever process. *)
LEMMA PublishKeeps ==
    ASSUME StreamInv, NEW d \in PlcDevices, NEW v \in PlcVars, publish(PollProcess, d, v),
           UNCHANGED <<stream, streamDev>>
    PROVE  StreamInv'
<1> DEFINE n == eventCount[PollProcess]
           event == [dev |-> d, var |-> v, seq |-> n + 1]
<1>1. n \in Nat /\ event \in Events /\ event.seq = n + 1
  BY ProcessAssumption DEF StreamInv, StreamTypes, Events
<1>2. /\ eventCount' \in [Processes -> Nat] /\ eventCount'[PollProcess] = n + 1
      /\ PollProcess # Web => eventCount'[Web] = eventCount[Web]
  BY <1>1, ProcessAssumption DEF publish, StreamInv, StreamTypes
<1>3. \A c \in Clients : Registered(c)' <=> Registered(c)
  BY DEF Registered
<1>4. \A c \in Clients :
        clientQueue'[c] = IF PollProcess # Web \/ ~Registered(c) THEN clientQueue[c]
                          ELSE Pushed(clientQueue[c], event)
  BY DEF publish, _broadcast, Pushed
<1> HIDE DEF event
<1>5. ASSUME NEW c \in Clients
      PROVE  /\ clientQueue'[c] \in Seq(Events)
             /\ ~Registered(c)' => clientQueue'[c] = <<>>
             /\ Registered(c)' => Newest(clientQueue'[c], eventCount'[Web], stream'[c].got)
  <2>1. clientQueue[c] \in Seq(Events) /\ stream[c].got \in Nat /\ stream'[c] = stream[c]
    BY DEF StreamInv, StreamTypes, StreamStates
  <2>2. Registered(c) => Newest(clientQueue[c], eventCount[Web], stream[c].got)
    BY KeepsNewestPerStream DEF StreamInv
  <2>3. ~Registered(c) => clientQueue[c] = <<>>
    BY DEF StreamInv, EmptyBefore
  <2>4. CASE PollProcess # Web \/ ~Registered(c)
    <3>1. clientQueue'[c] = clientQueue[c]
      BY <1>4, <2>4
    <3>2. CASE ~Registered(c)
      BY <1>3, <2>1, <2>3, <3>1, <3>2
    <3>3. CASE PollProcess # Web
      BY <1>2, <1>3, <2>1, <2>2, <2>3, <3>1, <3>3
    <3> QED
      BY <2>4, <3>2, <3>3
  <2>5. CASE PollProcess = Web /\ Registered(c)
    <3>1. clientQueue'[c] = Pushed(clientQueue[c], event)
      BY <1>4, <2>5
    <3>2. Newest(clientQueue[c], n, stream[c].got)
      BY <2>2, <2>5
    <3> HIDE DEF n
    <3>3. Pushed(clientQueue[c], event) \in Seq(Events)
          /\ Newest(Pushed(clientQueue[c], event), n + 1, stream[c].got)
      BY <1>1, <2>1, <3>2, PushKeepsNewest
    <3> QED
      BY <1>2, <1>3, <2>1, <2>5, <3>1, <3>3
  <2> QED
    BY <2>4, <2>5
<1>6. clientQueue' \in [Clients -> Seq(Events)]
  <2>1. clientQueue' = [c \in Clients |-> clientQueue'[c]]
    BY DEF publish, _broadcast
  <2> QED
    BY <1>5, <2>1
<1>7. StreamTypes'
  BY <1>2, <1>6 DEF StreamTypes, StreamInv
<1>8. StreamKeepsNewest'
  BY <1>5 DEF StreamKeepsNewest, Newest
<1> QED
  BY <1>5, <1>7, <1>8 DEF StreamInv, EmptyBefore

(* A step of one stream: the others keep what they had. *)
LEMMA OneStream ==
    ASSUME StreamInv, NEW c \in Clients, NEW s \in StreamStates, NEW q \in Seq(Events),
           stream' = [stream EXCEPT ![c] = s], clientQueue' = [clientQueue EXCEPT ![c] = q],
           UNCHANGED <<eventCount, streamDev>>,
           s.pc \notin {"registered", "counted", "streaming"} => q = <<>>,
           s.pc \in {"registered", "counted", "streaming"} => Newest(q, eventCount[Web], s.got)
    PROVE  StreamInv'
<1>1. StreamTypes'
  BY DEF StreamInv, StreamTypes
<1>2. stream'[c] = s /\ clientQueue'[c] = q
  BY DEF StreamInv, StreamTypes
<1>3. \A b \in Clients : b # c => stream'[b] = stream[b] /\ clientQueue'[b] = clientQueue[b]
  BY DEF StreamInv, StreamTypes
<1>4. \A b \in Clients : b # c => (Registered(b)' <=> Registered(b))
  BY <1>3 DEF Registered
<1>5. EmptyBefore'
  BY <1>2, <1>3, <1>4 DEF StreamInv, EmptyBefore, Registered
<1>6. ASSUME NEW b \in Clients, Registered(b)'
      PROVE  Newest(clientQueue'[b], eventCount'[Web], stream'[b].got)
  <2>1. CASE b = c
    BY <1>2, <1>6, <2>1 DEF Registered
  <2>2. CASE b # c
    <3>1. Newest(clientQueue[b], eventCount[Web], stream[b].got)
      BY <1>4, <1>6, <2>2, KeepsNewestPerStream DEF StreamInv
    <3> QED
      BY <1>3, <2>2, <3>1
  <2> QED
    BY <2>1, <2>2
<1>7. StreamKeepsNewest'
  BY <1>6 DEF StreamKeepsNewest, Newest
<1> QED
  BY <1>1, <1>5, <1>7 DEF StreamInv

(* A step that moves a stream on without touching its queue. *)
LEMMA OnlyPc ==
    ASSUME StreamInv, NEW c \in Clients,
           NEW pc \in {"none", "admitted", "registered", "counted", "streaming"},
           stream' = [stream EXCEPT ![c].pc = pc],
           UNCHANGED <<eventCount, clientQueue, streamDev>>,
           Registered(c) <=> pc \in {"registered", "counted", "streaming"}
    PROVE  StreamInv'
<1> DEFINE s == [stream[c] EXCEPT !.pc = pc]
<1>1. s \in StreamStates /\ s.pc = pc /\ s.got = stream[c].got
  BY DEF StreamInv, StreamTypes, StreamStates
<1>2. stream' = [stream EXCEPT ![c] = s]
  BY DEF StreamInv, StreamTypes
<1>3. clientQueue[c] \in Seq(Events) /\ clientQueue' = [clientQueue EXCEPT ![c] = clientQueue[c]]
  BY DEF StreamInv, StreamTypes
<1>4. Registered(c) => Newest(clientQueue[c], eventCount[Web], stream[c].got)
  BY KeepsNewestPerStream DEF StreamInv
<1>5. ~Registered(c) => clientQueue[c] = <<>>
  BY DEF StreamInv, EmptyBefore
<1> HIDE DEF s
<1> QED
  BY <1>1, <1>2, <1>3, <1>4, <1>5, OneStream

LEMMA StreamInvStep == StreamInv /\ [StreamNext]_eventVars => StreamInv'
<1> SUFFICES ASSUME StreamInv, [StreamNext]_eventVars PROVE StreamInv'
  OBVIOUS
<1> USE DEF streamVars
<1>0. CASE UNCHANGED <<eventCount, clientQueue, stream, streamDev>>
  BY <1>0 DEF StreamInv, StreamTypes, EmptyBefore, StreamKeepsNewest, Registered
<1>1. CASE poll_plc_state
  BY <1>0, <1>1 DEF poll_plc_state
<1>2. ASSUME NEW d \in PlcDevices, read_full_state(d) PROVE StreamInv'
  BY <1>0, <1>2 DEF read_full_state
<1>3. ASSUME NEW d \in PlcDevices, NEW v \in PlcVars, _pub(d, v) PROVE StreamInv'
  BY <1>3, PublishKeeps DEF _pub
<1>4. ASSUME NEW c \in Clients, ClientStep(c) \/ sse_stream(c) \/ Disconnect(c) PROVE StreamInv'
  <2>1. CASE sse_stream(c)
    BY <2>1, OnlyPc DEF sse_stream, Registered
  <2>2. CASE register_client(c)
    <3> DEFINE s == [pc |-> "registered", since |-> eventCount[Web], got |-> eventCount[Web]]
    <3>1. eventCount[Web] \in Nat
      BY ProcessAssumption DEF StreamInv, StreamTypes
    <3>2. s \in StreamStates /\ s.got = eventCount[Web] /\ s.pc = "registered"
      BY <3>1 DEF StreamStates
    <3>3. clientQueue[c] = <<>>
      BY <2>2 DEF register_client, StreamInv, EmptyBefore, Registered
    <3>4. Newest(<<>>, eventCount[Web], eventCount[Web])
      BY <3>1, SizeAssumption DEF Newest
    <3>5. <<>> \in Seq(Events) /\ clientQueue' = [clientQueue EXCEPT ![c] = <<>>]
      BY <2>2, <3>3 DEF register_client, StreamInv, StreamTypes
    <3>6. stream' = [stream EXCEPT ![c] = s] /\ UNCHANGED <<eventCount, streamDev>>
      BY <2>2 DEF register_client
    <3> HIDE DEF s
    <3> QED
      BY <3>2, <3>4, <3>5, <3>6, OneStream
  <2>3. CASE increment(c)
    BY <2>3, OnlyPc DEF increment, Registered
  <2>4. CASE StartGenerator(c)
    BY <2>4, OnlyPc DEF StartGenerator, Registered
  <2>5. CASE _sse_generator(c)
    <3> DEFINE q == clientQueue[c]
               s == [stream[c] EXCEPT !.got = Head(q).seq]
    <3>1. q \in Seq(Events) /\ q # <<>> /\ stream[c] \in StreamStates /\ stream[c].got \in Nat
          /\ eventCount[Web] \in Nat
      BY <2>5, ProcessAssumption DEF _sse_generator, StreamInv, StreamTypes, StreamStates
    <3>2. Newest(q, eventCount[Web], stream[c].got)
      BY <2>5, KeepsNewestPerStream DEF _sse_generator, StreamInv, Registered
    <3>3. /\ Head(q) \in Events /\ Tail(q) \in Seq(Events)
          /\ Newest(Tail(q), eventCount[Web], Head(q).seq)
      BY <3>1, <3>2, PopKeepsNewest
    <3>4. s \in StreamStates /\ s.got = Head(q).seq /\ s.pc = "streaming"
      BY <2>5, <3>1, <3>3 DEF _sse_generator, StreamStates, Events
    <3>5. /\ stream' = [stream EXCEPT ![c] = s] /\ clientQueue' = [clientQueue EXCEPT ![c] = Tail(q)]
          /\ UNCHANGED <<eventCount, streamDev>>
      BY <2>5 DEF _sse_generator, StreamInv, StreamTypes
    <3> HIDE DEF s, q
    <3> QED
      BY <3>3, <3>4, <3>5, OneStream
  <2>6. CASE Disconnect(c)
    <3>1. NoStream \in StreamStates /\ NoStream.pc = "none" /\ <<>> \in Seq(Events)
      BY DEF NoStream, StreamStates
    <3> QED
      BY <2>6, <3>1, OneStream DEF Disconnect, unregister_client
  <2> QED
    BY <1>4, <2>1, <2>2, <2>3, <2>4, <2>5, <2>6 DEF ClientStep
<1>5. CASE UNCHANGED eventVars
  BY <1>0, <1>5 DEF eventVars
<1> QED
  BY <1>1, <1>2, <1>3, <1>4, <1>5 DEF StreamNext, PollStep, Publishes

LEMMA StreamInvariance == StreamSpec => []StreamInv
BY StreamInvInit, StreamInvStep, PTL DEF StreamSpec

(* Whatever the size of the queues, the number of streams and the pace of  *)
(* each, a slow stream holds the newest events without a gap and the last  *)
(* one it is sent is the newest there is.                                  *)
THEOREM NewestKept == StreamSpec => []StreamKeepsNewest
<1>1. StreamInv => StreamKeepsNewest
  BY DEF StreamInv
<1> QED
  BY <1>1, StreamInvariance, PTL
-----------------------------------------------------------------------------
(* A stream never sees an older value after a newer one: whatever it       *)
(* skipped, each event _sse_generator sends is newer than the one before.  *)
DeliveredInOrder ==
    [][\A c \in Clients : Registered(c) /\ Registered(c)' /\ stream'[c].got # stream[c].got
         => stream'[c].got > stream[c].got]_eventVars

(* Overflow drops events from the front of a queue, but what is dropped is *)
(* never delivered late: delivery is in order for every queue size.        *)
THEOREM InOrder == StreamSpec => DeliveredInOrder
<1> DEFINE A == \A c \in Clients :
                   Registered(c) /\ Registered(c)' /\ stream'[c].got # stream[c].got
                     => stream'[c].got > stream[c].got
<1>1. ASSUME StreamInv, [StreamNext]_eventVars PROVE A
  <2> USE DEF streamVars
  <2> SUFFICES ASSUME NEW c \in Clients, Registered(c), Registered(c)',
                      stream'[c].got # stream[c].got
               PROVE  stream'[c].got > stream[c].got
    OBVIOUS
  <2>1. stream[c] \in StreamStates /\ stream[c].got \in Nat
    BY <1>1 DEF StreamInv, StreamTypes, StreamStates
  <2>2. PICK b \in Clients : ClientStep(b) \/ sse_stream(b) \/ Disconnect(b)
    BY <1>1 DEF StreamNext, PollStep, Publishes, poll_plc_state, read_full_state, _pub, eventVars
  <2>3. \E s : stream' = [stream EXCEPT ![b] = s]
    <3>1. stream = [a \in Clients |-> stream[a]]
      BY <1>1 DEF StreamInv, StreamTypes
    <3> QED
      BY <2>2, <3>1
      DEF ClientStep, sse_stream, register_client, increment, StartGenerator, _sse_generator,
          Disconnect, unregister_client
  <2>4. b = c
    BY <1>1, <2>3 DEF StreamInv, StreamTypes
  <2>5. _sse_generator(c)
    <3>1. ~Disconnect(c) /\ ~register_client(c)
      BY <1>1 DEF Disconnect, unregister_client, register_client, Registered, NoStream,
                  StreamInv, StreamTypes
    <3>2. ~sse_stream(c) /\ ~increment(c) /\ ~StartGenerator(c)
      BY <1>1, <2>1 DEF sse_stream, increment, StartGenerator, StreamInv, StreamTypes, StreamStates
    <3> QED
      BY <2>2, <2>4, <3>1, <3>2 DEF ClientStep
  <2>6. stream'[c].got = Head(clientQueue[c]).seq
    BY <1>1, <2>1, <2>5 DEF _sse_generator, StreamInv, StreamTypes, StreamStates
  <2>7. Newest(clientQueue[c], eventCount[Web], stream[c].got)
    BY <1>1, KeepsNewestPerStream DEF StreamInv
  <2>8. clientQueue[c] \in Seq(Events) /\ clientQueue[c] # <<>> /\ eventCount[Web] \in Nat
    BY <1>1, <2>5, ProcessAssumption DEF _sse_generator, StreamInv, StreamTypes
  <2>9. stream[c].got < Head(clientQueue[c]).seq /\ Head(clientQueue[c]).seq \in Nat
    BY <2>1, <2>7, <2>8, PopKeepsNewest DEF Events
  <2> QED
    BY <2>1, <2>6, <2>9
<1>2. StreamSpec => [][A]_eventVars
  BY <1>1, StreamInvariance, PTL DEF StreamSpec
<1> QED
  BY <1>2 DEF DeliveredInOrder
-----------------------------------------------------------------------------
(* The streams of a device that have counted themselves. *)
Counted(d) == {c \in Clients : stream[c].pc \in {"counted", "streaming"} /\ streamDev[c] = d}

(* The counter of the connection cap never drifts: it is the number of     *)
(* streams between increment() and the finally of their generator, so      *)
(* decrement() never meets a zero.                                         *)
ConnectionsExact ==
    /\ conns \in [PlcDevices -> Nat]
    /\ \A d \in PlcDevices : conns[d] = Cardinality(Counted(d))
    /\ \A c \in Clients : stream[c].pc \in {"counted", "streaming"} => conns[streamDev[c]] > 0

CountInv ==
    /\ conns \in [PlcDevices -> Nat]
    /\ \A d \in PlcDevices : conns[d] = Cardinality(Counted(d))

LEMMA CountedFinite == \A d : IsFiniteSet(Counted(d)) /\ Cardinality(Counted(d)) \in Nat
<1> SUFFICES ASSUME NEW d PROVE IsFiniteSet(Counted(d)) /\ Cardinality(Counted(d)) \in Nat
  OBVIOUS
<1>1. Counted(d) \subseteq Clients
  BY DEF Counted
<1> QED
  BY <1>1, ClientsAssumption, FS_Subset, FS_CardinalityType

(* A step that counts no stream in or out. *)
LEMMA CountSame ==
    ASSUME CountInv, UNCHANGED <<conns, streamDev>>,
           \A c \in Clients : stream'[c].pc \in {"counted", "streaming"}
                                <=> stream[c].pc \in {"counted", "streaming"}
    PROVE  CountInv'
<1>1. \A d : Counted(d)' = Counted(d)
  BY DEF Counted
<1> QED
  BY <1>1 DEF CountInv

LEMMA CountStep ==
    ASSUME StreamInv, CountInv, [StreamNext]_eventVars
    PROVE  CountInv'
<1> USE DEF streamVars
<1>0. CASE UNCHANGED <<stream, conns, streamDev>>
  BY <1>0, CountSame
<1>1. CASE PollStep
  BY <1>0, <1>1 DEF PollStep, Publishes, poll_plc_state, read_full_state, _pub
<1>2. CASE UNCHANGED eventVars
  BY <1>0, <1>2 DEF eventVars
<1>3. ASSUME NEW c \in Clients, ClientStep(c) \/ sse_stream(c) \/ Disconnect(c) PROVE CountInv'
  <2>0. PICK e \in PlcDevices : e = streamDev[c]
    BY DEF StreamInv, StreamTypes
  <2>1. /\ stream \in [Clients -> StreamStates] /\ stream[c] \in StreamStates
        /\ conns \in [PlcDevices -> Nat] /\ conns[e] = Cardinality(Counted(e))
    BY DEF StreamInv, StreamTypes, CountInv
  <2>2. CASE sse_stream(c) \/ register_client(c) \/ StartGenerator(c) \/ _sse_generator(c)
    <3>1. UNCHANGED <<conns, streamDev>>
      BY <2>2 DEF sse_stream, register_client, StartGenerator, _sse_generator
    <3>2. \A b \in Clients : b # c => stream'[b] = stream[b]
      BY <2>1, <2>2 DEF sse_stream, register_client, StartGenerator, _sse_generator
    <3>3. stream'[c].pc \in {"counted", "streaming"} <=> stream[c].pc \in {"counted", "streaming"}
      BY <2>1, <2>2
      DEF sse_stream, register_client, StartGenerator, _sse_generator, StreamStates
    <3> QED
      BY <3>1, <3>2, <3>3, CountSame
  <2>3. CASE increment(c)
    <3>1. c \notin Counted(e) /\ UNCHANGED streamDev
      BY <2>0, <2>3 DEF increment, Counted
    <3>2. Counted(e)' = Counted(e) \cup {c}
      BY <2>0, <2>1, <2>3 DEF increment, Counted, StreamStates
    <3>3. \A d \in PlcDevices : d # e => Counted(d)' = Counted(d)
      BY <2>0, <2>1, <2>3 DEF increment, Counted, StreamStates
    <3>4. Cardinality(Counted(e) \cup {c}) = Cardinality(Counted(e)) + 1
      BY <3>1, CountedFinite, FS_AddElement
    <3>5. conns' = [conns EXCEPT ![e] = @ + 1]
      BY <2>0, <2>3 DEF increment
    <3>6. conns'[e] = Cardinality(Counted(e)') /\ conns' \in [PlcDevices -> Nat]
      BY <2>1, <3>2, <3>4, <3>5
    <3>7. \A d \in PlcDevices : d # e => conns'[d] = Cardinality(Counted(d)')
      BY <2>1, <3>3, <3>5 DEF CountInv
    <3> QED
      BY <3>6, <3>7 DEF CountInv
  <2>4. CASE Disconnect(c)
    <3>1. c \in Counted(e) /\ UNCHANGED streamDev
      BY <2>0, <2>4 DEF Disconnect, Counted
    <3>2. Counted(e)' = Counted(e) \ {c}
      BY <2>0, <2>1, <2>4 DEF Disconnect, unregister_client, NoStream, Counted
    <3>3. \A d \in PlcDevices : d # e => Counted(d)' = Counted(d)
      BY <2>0, <2>1, <2>4 DEF Disconnect, unregister_client, NoStream, Counted
    <3>4. Cardinality(Counted(e) \ {c}) = Cardinality(Counted(e)) - 1
      BY <3>1, CountedFinite, FS_RemoveElement
    <3>5. conns[e] # 0
      BY <2>0, <2>1, <3>1, CountedFinite, FS_EmptySet
    <3>6. conns' = [conns EXCEPT ![e] = @ - 1]
      BY <2>0, <2>1, <2>4, <3>5 DEF Disconnect, decrement
    <3>7. conns[e] - 1 \in Nat
      BY <2>0, <2>1, <3>5
    <3> QED
      BY <2>0, <2>1, <3>2, <3>3, <3>4, <3>6, <3>7 DEF CountInv
  <2> QED
    BY <1>3, <2>2, <2>3, <2>4 DEF ClientStep
<1> QED
  BY <1>1, <1>2, <1>3 DEF StreamNext

(* For any number of streams opening and closing in any order the cap is   *)
(* compared with the true number of counted streams.                       *)
THEOREM ConnectionsCounted == StreamSpec => []ConnectionsExact
<1>1. StreamInit => CountInv
  <2> SUFFICES ASSUME StreamInit PROVE CountInv
    OBVIOUS
  <2>1. \A d \in PlcDevices : Counted(d) = {}
    BY DEF StreamInit, Counted, NoStream
  <2> QED
    BY <2>1, FS_EmptySet DEF StreamInit, CountInv
<1>2. StreamInv /\ CountInv => ConnectionsExact
  <2> SUFFICES ASSUME StreamInv, CountInv PROVE ConnectionsExact
    OBVIOUS
  <2>1. ASSUME NEW c \in Clients, stream[c].pc \in {"counted", "streaming"}
        PROVE  conns[streamDev[c]] > 0
    <3>1. streamDev[c] \in PlcDevices /\ c \in Counted(streamDev[c])
      BY <2>1 DEF StreamInv, StreamTypes, Counted
    <3>2. Cardinality(Counted(streamDev[c])) # 0
      BY <3>1, CountedFinite, FS_EmptySet
    <3> QED
      BY <3>1, <3>2 DEF CountInv
  <2> QED
    BY <2>1 DEF CountInv, ConnectionsExact
<1> QED
  BY <1>1, <1>2, StreamInvariance, CountStep, PTL DEF StreamSpec
-----------------------------------------------------------------------------
(* No stream has ever had an event to send. *)
StreamsSilent ==
    /\ eventCount[Web] = 0
    /\ \A c \in Clients : clientQueue[c] = <<>> /\ stream[c].got = stream[c].since

(* The bus is a singleton of a process: when the poll task runs in another *)
(* process than the streams, no stream is ever sent anything, whatever the *)
(* schedule.  The violation of ClientsReceiveUpdates that the run finds    *)
(* has no lucky interleaving.                                              *)
THEOREM OtherProcessIsSilent ==
    ASSUME PollProcess # Web
    PROVE  StreamSpec => []StreamsSilent
<1>1. StreamInit => StreamsSilent
  BY ProcessAssumption DEF StreamInit, StreamsSilent, NoStream
<1>2. StreamInv /\ StreamsSilent /\ [StreamNext]_eventVars => StreamsSilent'
  <2> SUFFICES ASSUME StreamInv, StreamsSilent, [StreamNext]_eventVars PROVE StreamsSilent'
    OBVIOUS
  <2> USE DEF streamVars
  <2>0. CASE UNCHANGED <<eventCount, clientQueue, stream>>
    BY <2>0 DEF StreamsSilent
  <2>1. CASE Publishes
    BY <2>1, ProcessAssumption
    DEF Publishes, _pub, publish, _broadcast, StreamsSilent, StreamInv, StreamTypes
  <2>2. CASE poll_plc_state \/ \E d \in PlcDevices : read_full_state(d)
    BY <2>0, <2>2 DEF poll_plc_state, read_full_state
  <2>3. ASSUME NEW c \in Clients, ClientStep(c) \/ sse_stream(c) \/ Disconnect(c)
        PROVE  StreamsSilent'
    <3>1. clientQueue[c] = <<>>
      BY DEF StreamsSilent
    <3>2. stream \in [Clients -> StreamStates] /\ clientQueue \in [Clients -> Seq(Events)]
      BY DEF StreamInv, StreamTypes
    <3>3. ~_sse_generator(c)
      BY <3>1 DEF _sse_generator
    <3>4. UNCHANGED eventCount /\ \A b \in Clients : clientQueue'[b] = <<>>
      BY <2>3, <3>2, <3>3
      DEF ClientStep, sse_stream, register_client, increment, StartGenerator, Disconnect,
          unregister_client, StreamsSilent
    <3>5. stream[c] \in StreamStates /\ stream[c].got = stream[c].since
      BY <3>2 DEF StreamsSilent
    <3>6. \A b \in Clients : b # c => stream'[b] = stream[b]
      BY <2>3, <3>2, <3>3
      DEF ClientStep, sse_stream, register_client, increment, StartGenerator, Disconnect,
          unregister_client
    <3>7. stream'[c].got = stream'[c].since
      <4>1. CASE sse_stream(c) \/ increment(c) \/ StartGenerator(c)
        BY <3>2, <3>5, <4>1 DEF sse_stream, increment, StartGenerator, StreamStates
      <4>2. CASE register_client(c)
        BY <3>2, <4>2 DEF register_client
      <4>3. CASE Disconnect(c)
        BY <3>2, <4>3 DEF Disconnect, unregister_client, NoStream
      <4> QED
        BY <2>3, <3>3, <4>1, <4>2, <4>3 DEF ClientStep
    <3> QED
      BY <3>4, <3>6, <3>7 DEF StreamsSilent
  <2>4. CASE UNCHANGED eventVars
    BY <2>0, <2>4 DEF eventVars
  <2> QED
    BY <2>1, <2>2, <2>3, <2>4 DEF StreamNext, PollStep
<1> QED
  BY <1>1, <1>2, StreamInvariance, PTL DEF StreamSpec
=============================================================================
