-------------------------- MODULE V2xMmWaveNetDevice --------------------------
(***************************************************************************)
(* V2X nodes that agree by beacons on the control channel who sends on the *)
(* millimeter wave channel when.  A node with packets announces them by a  *)
(* TX beacon; a receiver it names answers by an RX beacon that grants it a *)
(* contention free period.  A period for a group is announced by its own   *)
(* node's RX beacon.  In its period a node sends packets for the receiver  *)
(* and the group one after the other while they fit into what is left.     *)
(*                                                                         *)
(* This is the net device with its contention free access, the control MAC *)
(* above the IEEE 802.11 MAC, and the data MAC with its low MAC.  The      *)
(* control channel's access is abstracted to a beacon at any moment the    *)
(* medium is free; a lost RX beacon for one node is sent again.  The PHY   *)
(* of the data channel is abstracted to the frames on the air: one is      *)
(* heard by the nodes that neither send nor hear another when it begins,   *)
(* and one that overlaps another may be lost.  A timer is the time left to *)
(* its event, -1 when there is none.                                       *)
(***************************************************************************)
EXTENDS Integers, FiniteSets, FiniteSetsExt, SequencesExt, V2xContentionFreeAccess

CONSTANTS
    Nodes,          \* the devices' addresses
    Group,          \* the broadcast address
    BeaconTx,       \* length of a beacon on the control channel
    BeaconAckTx,    \* SIFS and acknowledgment there, after a beacon for one node
    Sifs, Slot,     \* interframe space and slot of the data channel
    HeadTx,         \* preamble and header of a frame there
    DataTx, AckTx,  \* length of a data frame and of an acknowledgment
    Flows,          \* the nodes that are given packets, and for whom
    MaxPackets,     \* bound: how many packets each node is given
    MaxLosses       \* bound: receptions that fail without a collision

ASSUME NetDeviceAssumption ==
    /\ IsFiniteSet(Nodes)
    /\ Group \notin Nodes /\ Flows \subseteq Nodes \X (Nodes \cup {Group})
    /\ {BeaconTx, Sifs, HeadTx} \subseteq Nat \ {0}
    /\ {BeaconAckTx, Slot, DataTx, AckTx, MaxLosses} \subseteq Nat
    /\ MaxPackets \in [Nodes -> Nat]
    /\ DataTx > HeadTx /\ AckTx > HeadTx

VARIABLES
    agreements,     \* m_agreements of each node
    requests,       \* m_requests of each node: who asks it for a period
    beacon,         \* the beacon each node has on the air
    retry,          \* the RX beacon each node has to send again
    dev,            \* the rest of each node's device and data MAC, see DeviceType
    air,            \* the frame each node sends on the data channel
    losses,         \* receptions that failed without a collision
    received,       \* packets received: sender, number, receiver
    failed          \* the assertion that stopped the program

vars == <<agreements, requests, beacon, retry, dev, air, losses, received, failed>>
ctrlVars == <<agreements, requests, beacon, retry>>

Dests == Nodes \cup {Group}
None == [to |-> Group, id |-> 0]
Packets == [to : Dests, id : Nat \ {0}]

AgreementType == [tx : Nodes, rx : Dests, start : Int]
BeaconType == [kind : {"tx", "rx", "ack"}, to : Dests, rxs : SUBSET Nodes,
               delay : Nat, left : Nat, clean : BOOLEAN]
NoBeacon == [kind |-> "none"]

FrameType == [type : {"data", "ack"}, to : Dests, id : Nat, left : Nat,
              head : {-1} \cup Nat, hear : SUBSET Nodes, clean : BOOLEAN]
NoFrame == [type |-> "none"]

Timer == {-1} \cup Nat

DeviceType ==
    [queue : Seq(Packets),              \* m_queue
     wait : Timer,                      \* m_waitContentionFreeDuration
     period : Timer,                    \* m_startContentionFreeDuration
     rx : Dests,                        \* m_contentionFreeRx
     tryAgain : Timer,                  \* m_tryAgain of the device and
     macTryAgain : Timer,               \*   of the data MAC
     send : Timer,                      \* m_waitToSend, and
     packet : {None} \cup Packets,      \*   the packet it sends
     current : {None} \cup Packets,     \* m_currentPacket
     ackTimeout : Timer,                \* m_normalAckTimeoutEvent
     endTx : Timer,                     \* m_endTxNoAckEvent
     sendAck : Timer,                   \* m_sendAckEvent, and
     ackTo : Dests,                     \*   the node it acknowledges
     ok : SUBSET Packets,               \* packets reported to TxOk
     given : Nat,                       \* packets given so far
     sent : [Dests -> Nat]]             \* the last packet dequeued to be sent

DeviceInit(n) ==
    [queue |-> <<>>, wait |-> -1, period |-> -1, rx |-> n, tryAgain |-> -1,
     macTryAgain |-> -1, send |-> -1, packet |-> None, current |-> None,
     ackTimeout |-> -1, endTx |-> -1, sendAck |-> -1, ackTo |-> Group,
     ok |-> {}, given |-> 0, sent |-> [d \in Dests |-> 0]]

---------------------------------------------------------------------------
(* The data channel's PHY as the data MAC sees it.                         *)

Running(t) == t >= 0
OnAir(n) == air[n] # NoFrame
Sensed(k) == OnAir(k) /\ air[k].head < HeadTx
Busy(n) == {k \in Nodes : IF k = n THEN OnAir(k) ELSE Sensed(k)}
IsStateIdle(n) == Busy(n) = {}
DelayUntilIdle(n) == Max({air[k].left : k \in Busy(n)})

---------------------------------------------------------------------------
(* The device.  A handler maps the device's state to the states it may     *)
(* leave; several where agreements that begin together are in any order.   *)

\* A fault: the acknowledgment is forgotten.
NeedsDataOnly(d) == Sifs + DataTx

AckTimeout == DataTx + AckTx + Sifs + Slot + HeadTx

\* A fault: the timeout is counted, not the acknowledgment.
NeedsTimeout(d) == Sifs + DataTx + (IF d = Group THEN 0 ELSE AckTimeout)

\* What a packet for d takes of a period, with its acknowledgment.
Needs(d) == Sifs + DataTx + (IF d = Group THEN 0 ELSE Sifs + AckTx)

\* A fault: a packet that does not fit is put back at the end.
PushBack(q, p) == Append(q, p)
PushFront(q, p) == <<p>> \o q

Positions(q, d) == {i \in DOMAIN q : q[i].to = d}
Has(q, d) == Positions(q, d) # {}
First(q, d) == Min(Positions(q, d))

\* DequeueByAddress, and PushFront if the packet takes longer than is left.
Offer(m, d) ==
    LET i == First(m.queue, d)
        p == m.queue[i]
        rest == RemoveAt(m.queue, i)
    IN  IF m.period >= Needs(d)
        THEN [m EXCEPT !.queue = rest, !.send = Sifs, !.packet = p, !.sent[d] = p.id]
        ELSE [m EXCEPT !.queue = PushFront(rest, p)]

\* The packets of the period's receiver come before those of the group.
OfferNext(m) ==
    LET own == m.rx # Group /\ Has(m.queue, m.rx)
        m1 == IF own THEN Offer(m, m.rx) ELSE m
    IN  IF ~Running(m1.send) /\ Has(m1.queue, Group) THEN Offer(m1, Group) ELSE m1

OfferLater(n, m) ==
    IF Running(m.tryAgain) THEN m ELSE [m EXCEPT !.tryAgain = DelayUntilIdle(n)]

ReadyToTransmitFrame(n, m) ==
    IF m.queue = <<>> \/ Running(m.send) THEN m
    ELSE IF IsStateIdle(n) THEN OfferNext(m) ELSE OfferLater(n, m)

StartContentionFreeDuration(n, m, to) ==
    ReadyToTransmitFrame(n, [m EXCEPT !.period = TxDuration, !.rx = to])

\* The period of an agreement that has begun starts now, with its full length.
BeginPeriod(n, m, a) ==
    IF a.start <= 0
    THEN StartContentionFreeDuration(n, m, a.rx)
    ELSE [m EXCEPT !.wait = a.start, !.rx = a.rx]

IsAnyActive(m) == Running(m.period) \/ Running(m.wait)

StartContentionFreeDurationIfNeed(n, m, A) ==
    IF IsAnyActive(m) \/ Own(A, n) = {} THEN {m}
    ELSE {BeginPeriod(n, m, a) : a \in FirstOwn(A, n)}

TryToStart(n, m, A) ==
    IF Running(m.period) THEN {ReadyToTransmitFrame(n, m)}
    ELSE StartContentionFreeDurationIfNeed(n, m, A)

\* A fault: the device waits for the next beacon to find its next agreement.
StopContentionFreeDurationOnly(n, m, A) == {[m EXCEPT !.rx = n]}
StopContentionFreeDuration(n, m, A) ==
    StartContentionFreeDurationIfNeed(n, [m EXCEPT !.rx = n], A)

---------------------------------------------------------------------------
(* Steps.                                                                  *)

Alive == failed = "none"
BeaconDue == \E n \in Nodes : beacon[n] # NoBeacon /\ beacon[n].left = 0
FrameDue == \E n \in Nodes : OnAir(n) /\ (air[n].left = 0 \/ air[n].head = 0)

\* What ends right now on either channel ends before whatever else is due.
Runs == Alive /\ ~BeaconDue /\ ~FrameDue
Require(holds, name) == failed' = IF holds THEN failed ELSE name

\* Node n's device may be left as any of these.
Becomes(n, devices) == \E m \in devices : dev' = [dev EXCEPT ![n] = m]

\* Send: a packet for d arrives from above.
Enqueue(n, d) ==
    LET p == [to |-> d, id |-> dev[n].given + 1]
    IN  /\ Runs /\ dev[n].given < MaxPackets[n]
        /\ Becomes(n, TryToStart(n, [dev[n] EXCEPT !.queue = Append(@, p), !.given = @ + 1],
                                 agreements[n]))
        /\ UNCHANGED <<ctrlVars, air, losses, received, failed>>

\* The control channel: free, or taken by another at this very moment.
MediumFree(n) ==
    \A k \in Nodes : beacon[k] # NoBeacon =>
        k # n /\ beacon[k].kind # "ack" /\ beacon[k].left = BeaconTx

PutOnAir(n, b) ==
    LET met == [k \in Nodes |-> IF beacon[k] = NoBeacon THEN NoBeacon
                                ELSE [beacon[k] EXCEPT !.clean = FALSE]]
        alone == \A k \in Nodes : beacon[k] = NoBeacon
    IN  beacon' = [met EXCEPT ![n] = [b EXCEPT !.left = BeaconTx, !.clean = alone]]

Beacon(kind, to, rxs, delay) ==
    [kind |-> kind, to |-> to, rxs |-> rxs, delay |-> delay, left |-> BeaconTx, clean |-> TRUE]

\* The period an RX beacon of node n sets up, when its own transmission and
\* the acknowledgment are over.
Grants(n, a, from, to) ==
    /\ agreements' = [agreements EXCEPT ![n] = AddAgreement(@, a)]
    /\ Require(a.start >= from /\ ~Conflict(agreements[n], a.start), "NewAgreement")
    /\ PutOnAir(n, Beacon("rx", to, {}, a.start - from))

SendRxBeacon(n) ==
    LET to == Head(requests[n])
        from == BeaconTx + BeaconAckTx
    IN  /\ Runs /\ MediumFree(n) /\ retry[n] = NoBeacon /\ requests[n] # <<>>
        /\ requests' = [requests EXCEPT ![n] = Tail(@)]
        /\ \E start \in NewAgreement(agreements[n], from) :
             Grants(n, Agreement(to, n, start), from, to)
        /\ UNCHANGED <<retry, dev, air, losses, received>>

MaySendTxBeacon(n) ==
    /\ Runs /\ MediumFree(n) /\ retry[n] = NoBeacon
    /\ requests[n] = <<>> /\ dev[n].queue # <<>>

\* SendTxBeacon for the group, when a group packet is the first of the queue.
SendGroupBeacon(n) ==
    /\ MaySendTxBeacon(n) /\ dev[n].queue[1].to = Group
    /\ ~FindAgreement(agreements[n], n, Group)
    /\ \E start \in NewAgreement(agreements[n], BeaconTx) :
         Grants(n, Agreement(n, Group, start), BeaconTx, Group)
    /\ UNCHANGED <<requests, retry, dev, air, losses, received>>

\* PeekFrontNAddresses: the receivers of the packets before the first group
\* packet.  An agreement with the first of them holds all of them back.
FrontAddresses(q) ==
    {k \in Nodes : \E i \in DOMAIN q : q[i].to = k /\ \A j \in 1 .. i : q[j].to # Group}

SendTxBeacon(n) ==
    /\ MaySendTxBeacon(n) /\ dev[n].queue[1].to # Group
    /\ ~FindAgreement(agreements[n], n, dev[n].queue[1].to)
    /\ PutOnAir(n, Beacon("tx", Group, FrontAddresses(dev[n].queue), 0))
    /\ UNCHANGED <<agreements, requests, retry, dev, air, losses, received, failed>>

\* A beacon for one node that was not acknowledged, its delay as it was.
SendAgain(n) ==
    /\ Runs /\ MediumFree(n) /\ retry[n] # NoBeacon
    /\ PutOnAir(n, retry[n])
    /\ retry' = [retry EXCEPT ![n] = NoBeacon]
    /\ UNCHANGED <<agreements, requests, dev, air, losses, received, failed>>

AddRequest(r, n) == IF \E i \in DOMAIN r : r[i] = n THEN r ELSE Append(r, n)

\* Those who receive node n's beacon: collisions nobody, else all but a loss.
BeaconHeard(n) ==
    IF beacon[n].clean
    THEN {heard \in SUBSET (Nodes \ {n}) :
            losses + Cardinality(Nodes \ {n}) - Cardinality(heard) <= MaxLosses}
    ELSE {{}}
LostBeacons(n, heard) ==
    losses' = IF beacon[n].clean
              THEN losses + Cardinality(Nodes \ {n}) - Cardinality(heard) ELSE losses

BeaconEnds(n) == Alive /\ beacon[n] # NoBeacon /\ beacon[n].left = 0

TxBeaconEnds(n) ==
    /\ BeaconEnds(n) /\ beacon[n].kind = "tx"
    /\ \E heard \in BeaconHeard(n) :
         /\ requests' = [k \in Nodes |-> IF k \in heard \cap beacon[n].rxs
                                         THEN AddRequest(requests[k], n) ELSE requests[k]]
         /\ LostBeacons(n, heard)
    /\ beacon' = [beacon EXCEPT ![n] = NoBeacon]
    /\ UNCHANGED <<agreements, retry, dev, air, received, failed>>

GroupBeaconEnds(n) ==
    LET a == Agreement(n, Group, beacon[n].delay)
    IN  /\ BeaconEnds(n) /\ beacon[n].kind = "rx" /\ beacon[n].to = Group
        /\ \E heard \in BeaconHeard(n) :
             /\ agreements' = [k \in Nodes |-> IF k \in heard
                                               THEN AddAgreement(agreements[k], a)
                                               ELSE agreements[k]]
             /\ LostBeacons(n, heard)
        /\ Becomes(n, TryToStart(n, dev[n], agreements[n]))
        /\ beacon' = [beacon EXCEPT ![n] = NoBeacon]
        /\ UNCHANGED <<requests, retry, air, received, failed>>

\* Only the node a period is granted to takes the agreement in.  A beacon that
\* is not acknowledged is sent again: the limit of tries is not reached.
RxBeaconEnds(n) ==
    LET k == beacon[n].to
        A == AddAgreement(agreements[k], Agreement(k, n, beacon[n].delay))
    IN  /\ BeaconEnds(n) /\ beacon[n].kind = "rx" /\ k # Group
        /\ \E heard \in BeaconHeard(n) :
             /\ LostBeacons(n, heard)
             /\ IF k \in heard
                THEN /\ agreements' = [agreements EXCEPT ![k] = A]
                     /\ Becomes(k, TryToStart(k, dev[k], A))
                     /\ retry' = retry
                ELSE /\ retry' = [retry EXCEPT ![n] = beacon[n]]
                     /\ UNCHANGED <<agreements, dev>>
        /\ beacon' = [beacon EXCEPT ![n].kind = "ack", ![n].left = BeaconAckTx]
        /\ UNCHANGED <<requests, air, received, failed>>

BeaconAckEnds(n) ==
    /\ BeaconEnds(n) /\ beacon[n].kind = "ack"
    /\ beacon' = [beacon EXCEPT ![n] = NoBeacon]
    /\ UNCHANGED <<agreements, requests, retry, dev, air, losses, received, failed>>

dataVars == <<ctrlVars, losses, received>>

\* m_waitContentionFreeDuration and m_startContentionFreeDuration.
WaitEnds(n) ==
    /\ Runs /\ dev[n].wait = 0
    /\ Becomes(n, {StartContentionFreeDuration(n, [dev[n] EXCEPT !.wait = -1], dev[n].rx)})
    /\ UNCHANGED <<dataVars, air, failed>>

PeriodEnds(n) ==
    /\ Runs /\ dev[n].period = 0
    /\ Becomes(n, StopContentionFreeDuration(n, [dev[n] EXCEPT !.period = -1], agreements[n]))
    /\ UNCHANGED <<dataVars, air, failed>>

\* m_tryAgain of the device and of the data MAC.
TryAgain(n) ==
    /\ Runs
    /\ \/ /\ dev[n].tryAgain = 0
          /\ Becomes(n, TryToStart(n, [dev[n] EXCEPT !.tryAgain = -1], agreements[n]))
       \/ /\ dev[n].macTryAgain = 0
          /\ Becomes(n, TryToStart(n, [dev[n] EXCEPT !.macTryAgain = -1], agreements[n]))
    /\ UNCHANGED <<dataVars, air, failed>>

---------------------------------------------------------------------------
(* The data MAC.                                                           *)

Frame(type, to, id) ==
    [type |-> type, to |-> to, id |-> id, left |-> IF type = "data" THEN DataTx ELSE AckTx,
     head |-> HeadTx, hear |-> {}, clean |-> TRUE]

\* The frames on the air when n begins to send f.
Transmit(n, f) ==
    LET others == {k \in Nodes : OnAir(k)}
        deaf == {n} \cup others \cup UNION {air[k].hear : k \in others}
    IN  air' = [k \in Nodes |->
                  CASE k = n -> [f EXCEPT !.hear = Nodes \ deaf, !.clean = others = {}]
                    [] k \in others -> [air[k] EXCEPT !.hear = @ \ {n}, !.clean = FALSE]
                    [] OTHER -> NoFrame]

\* A fault: the acknowledgment owed stays scheduled.
CancelButSendAck(m) == [m EXCEPT !.ackTimeout = -1, !.endTx = -1]
CancelAllEvents(m) == [m EXCEPT !.sendAck = -1, !.ackTimeout = -1, !.endTx = -1]

\* StartDataTxTimers.
DataTxTimers(m, d) ==
    IF d = Group THEN [m EXCEPT !.endTx = DataTx] ELSE [m EXCEPT !.ackTimeout = AckTimeout]

\* TransmitImmediately: cancels all events of the low MAC, an acknowledgment
\* owed or awaited too.  If the PHY is not idle any more the packet is gone.
TransmitImmediately(n) ==
    LET p == dev[n].packet
        m == [dev[n] EXCEPT !.send = -1, !.packet = None]
        later == IF Running(m.macTryAgain) THEN m.macTryAgain ELSE DelayUntilIdle(n)
    IN  /\ Runs /\ dev[n].send = 0
        /\ IF IsStateIdle(n)
           THEN /\ Becomes(n, {DataTxTimers([CancelAllEvents(m) EXCEPT !.current = p], p.to)})
                /\ Transmit(n, Frame("data", p.to, p.id))
           ELSE /\ Becomes(n, {[m EXCEPT !.macTryAgain = later]})
                /\ UNCHANGED air
        /\ UNCHANGED <<dataVars, failed>>

\* SendAckAfterData: Send asserts that the PHY does not transmit.
SendAckAfterData(n) ==
    /\ Runs /\ dev[n].sendAck = 0
    /\ Becomes(n, {[dev[n] EXCEPT !.sendAck = -1, !.ackTo = Group]})
    /\ Require(~OnAir(n), "Send")
    /\ IF OnAir(n) THEN UNCHANGED air ELSE Transmit(n, Frame("ack", dev[n].ackTo, 0))
    /\ UNCHANGED dataVars

\* TxOk and TxFailed of the packet being sent; the device learns of both.
TxOk(m) == [m EXCEPT !.ok = @ \cup {m.current}]

\* A fault: a packet that was not acknowledged is taken for sent.
TxFailedAsOk(m) == TxOk(m)
TxFailed(m) == m

NormalAckTimeout(n) ==
    /\ Runs /\ dev[n].ackTimeout = 0
    /\ Becomes(n, TryToStart(n, TxFailed([dev[n] EXCEPT !.ackTimeout = -1]), agreements[n]))
    /\ UNCHANGED <<dataVars, air, failed>>

EndTxNoAck(n) ==
    /\ Runs /\ dev[n].endTx = 0
    /\ Becomes(n, TryToStart(n, TxOk([dev[n] EXCEPT !.endTx = -1]), agreements[n]))
    /\ UNCHANGED <<dataVars, air, failed>>

Outcomes(f) ==
    {heard \in SUBSET f.hear :
        f.clean => losses + Cardinality(f.hear \ heard) <= MaxLosses}
Lost(f, heard) ==
    losses' = IF f.clean THEN losses + Cardinality(f.hear \ heard) ELSE losses

\* RxStartIndication: an acknowledgment is waited for until the frame is over.
Postponed(m, f) ==
    IF Running(m.ackTimeout) THEN [m EXCEPT !.ackTimeout = f.left + 1] ELSE m

PayloadStarts(n) ==
    /\ Alive /\ OnAir(n) /\ air[n].head = 0
    /\ \E heard \in Outcomes(air[n]) :
         /\ dev' = [k \in Nodes |-> IF k \in heard THEN Postponed(dev[k], air[n]) ELSE dev[k]]
         /\ air' = [air EXCEPT ![n].hear = heard, ![n].head = -1]
         /\ Lost(air[n], heard)
    /\ UNCHANGED <<ctrlVars, received, failed>>

\* ReceiveOk of data, which goes up, and is acknowledged if for one node.
DataEnds(n) ==
    LET f == air[n]
        k == f.to
    IN  /\ Alive /\ OnAir(n) /\ f.left = 0 /\ f.type = "data"
        /\ \E heard \in Outcomes(f) :
             /\ Lost(f, heard)
             /\ received' = received \cup
                    {<<n, f.id, r>> : r \in IF k = Group THEN heard ELSE heard \cap {k}}
             /\ IF k \in heard
                THEN /\ dev' = [dev EXCEPT ![k].sendAck = Sifs, ![k].ackTo = n]
                     /\ Require(~Running(dev[k].sendAck), "ReceiveOk")
                ELSE UNCHANGED <<dev, failed>>
        /\ air' = [air EXCEPT ![n] = NoFrame]
        /\ UNCHANGED ctrlVars

Acknowledges(f, k) == f.to = k /\ Running(dev[k].ackTimeout)

\* ReceiveOk of an acknowledgment.
AckEnds(n) ==
    LET f == air[n]
    IN  /\ Alive /\ OnAir(n) /\ f.left = 0 /\ f.type = "ack"
        /\ air' = [air EXCEPT ![n] = NoFrame]
        /\ \E heard \in Outcomes(f) :
             /\ Lost(f, heard)
             /\ LET acked == {k \in heard : Acknowledges(f, k)}
                IN  IF acked = {} THEN UNCHANGED dev
                    ELSE \E k \in acked :
                           Becomes(k, TryToStart(k, TxOk([dev[k] EXCEPT !.ackTimeout = -1]),
                                                 agreements[k]))
        /\ UNCHANGED <<ctrlVars, received, failed>>

---------------------------------------------------------------------------
\* A fault: a timer that does not run is counted down.
CloserAlways(t) == t - 1
Closer(t) == IF Running(t) THEN t - 1 ELSE t

Elapse(m) ==
    [m EXCEPT !.wait = Closer(@), !.period = Closer(@), !.tryAgain = Closer(@),
              !.macTryAgain = Closer(@), !.send = Closer(@), !.ackTimeout = Closer(@),
              !.endTx = Closer(@), !.sendAck = Closer(@)]

Due(m) == 0 \in {m.wait, m.period, m.tryAgain, m.macTryAgain, m.send, m.ackTimeout,
                 m.endTx, m.sendAck}

Tick ==
    /\ Runs /\ \A n \in Nodes : ~Due(dev[n])
    /\ agreements' = [n \in Nodes |-> Elapsed(agreements[n])]
    /\ beacon' = [n \in Nodes |-> IF beacon[n] = NoBeacon THEN NoBeacon
                                  ELSE [beacon[n] EXCEPT !.left = @ - 1]]
    /\ dev' = [n \in Nodes |-> Elapse(dev[n])]
    /\ air' = [n \in Nodes |-> IF OnAir(n)
                               THEN [air[n] EXCEPT !.left = @ - 1, !.head = Closer(@)]
                               ELSE NoFrame]
    /\ UNCHANGED <<requests, retry, losses, received, failed>>

Init ==
    /\ agreements = [n \in Nodes |-> {}]
    /\ requests = [n \in Nodes |-> <<>>]
    /\ beacon = [n \in Nodes |-> NoBeacon]
    /\ retry = [n \in Nodes |-> NoBeacon]
    /\ dev = [n \in Nodes |-> DeviceInit(n)]
    /\ air = [n \in Nodes |-> NoFrame]
    /\ losses = 0
    /\ received = {}
    /\ failed = "none"

SendBeacon(n) == SendRxBeacon(n) \/ SendGroupBeacon(n) \/ SendTxBeacon(n) \/ SendAgain(n)

Next ==
    \/ Tick
    \/ \E n \in Nodes :
        \/ \E d \in Dests : <<n, d>> \in Flows /\ Enqueue(n, d)
        \/ SendBeacon(n)
        \/ TxBeaconEnds(n) \/ GroupBeaconEnds(n) \/ RxBeaconEnds(n) \/ BeaconAckEnds(n)
        \/ WaitEnds(n) \/ PeriodEnds(n) \/ TryAgain(n)
        \/ TransmitImmediately(n) \/ SendAckAfterData(n)
        \/ NormalAckTimeout(n) \/ EndTxNoAck(n)
        \/ PayloadStarts(n) \/ DataEnds(n) \/ AckEnds(n)

Spec == Init /\ [][Next]_vars

\* Events that are due run and time passes.  The control channel's access
\* (EDCA) gives a node with something to send its turn again and again.
FairSpec == Spec /\ WF_vars(Next) /\ \A n \in Nodes : SF_vars(SendBeacon(n))

---------------------------------------------------------------------------
(* What the agreements and the exchange promise.                           *)

\* The lists, beacons, devices and frames have their types.
CtrlTypeOK ==
    /\ agreements \in [Nodes -> SUBSET AgreementType]
    /\ requests \in [Nodes -> Seq(Nodes)]
    /\ beacon \in [Nodes -> BeaconType \cup {NoBeacon}]
    /\ retry \in [Nodes -> BeaconType \cup {NoBeacon}]

TypeOK ==
    /\ CtrlTypeOK
    /\ dev \in [Nodes -> DeviceType]
    /\ air \in [Nodes -> FrameType \cup {NoFrame}]
    /\ losses \in 0 .. MaxLosses
    /\ received \subseteq Nodes \X Nat \X Nodes

\* No assertion of the device and the MACs fails: a new agreement conflicts
\* with none, only one acknowledgment is owed, the PHY is free to send it.
NoAssertionFails == Alive

\* Any two agreements a node knows of are for times apart, or begin together.
AgreementsApart == \A n \in Nodes : Apart(agreements[n])

\* A node never forgets a period of its own: as long as an agreement of it
\* stands, a period runs or is waited for, unless its beacon is on its way.
AgreementsAreWatched ==
    \A n \in Nodes : Own(agreements[n], n) # {} =>
        \/ IsAnyActive(dev[n])
        \/ beacon[n].kind = "rx" /\ beacon[n].to = Group

\* Whatever a node begins to send in a period, with its acknowledgment, is
\* over before the period is.
ExchangeFitsPeriod ==
    Alive => \A n \in Nodes : OnAir(n) /\ air[n].type = "data" =>
        dev[n].period >= air[n].left + (IF air[n].to = Group THEN 0 ELSE Sifs + AckTx)

\* A packet for one node is reported as sent only if that node has it.
AckedWasReceived ==
    \A n \in Nodes : \A p \in dev[n].ok :
        p.to # Group => <<n, p.id, p.to>> \in received

\* Packets for one destination leave the queue in the order they came in,
\* those included that were taken out and put back.
SentInOrder ==
    \A n \in Nodes : \A i, j \in DOMAIN dev[n].queue :
        LET p == dev[n].queue[i]
            q == dev[n].queue[j]
        IN  /\ p.id > dev[n].sent[p.to]
            /\ i < j /\ p.to = q.to => p.id < q.id

\* Where beacons do not collide for ever, every queue is emptied: a node that
\* has packets gets periods as long as it has them.
QueuesAreEmptied ==
    <>[](\A n \in Nodes : beacon[n] # NoBeacon => beacon[n].clean)
        => \A n \in Nodes : []<>(dev[n].queue = <<>>)

=============================================================================
