------------------------------ MODULE CrBulkAccess ------------------------------
(***************************************************************************)
(* Bulk access between the cognitive radio nodes of one channel: a granted *)
(* node serves the destinations its queue holds packets for one by one,    *)
(* each with a request, a response, the packets back to back and one bulk  *)
(* acknowledgment, or, for the group, with the packets alone.  This is the *)
(* low MAC of the intra group in single channel mode with its Txop, the    *)
(* beacons it sends in between, and the frames on the air.                 *)
(*                                                                         *)
(* PHY and access manager are abstracted to what MmWavePhy, CrPhyAccess    *)
(* and the theorem GrantedOnlyWhenQuiet show of them: a request is granted *)
(* at any moment after two quiet SIFS (three after a failed reception) and *)
(* the least backoff; a frame is heard by the nodes that neither send nor  *)
(* hear another when it begins, and one that overlaps another may be lost. *)
(* Packets are not fragmented.  A timer is the time left to its event, -1  *)
(* when there is none.                                                     *)
(***************************************************************************)
EXTENDS Integers, FiniteSets, FiniteSetsExt

CONSTANTS
    Nodes,          \* the nodes' addresses, numbers as the queue sorts them
    Group,          \* the broadcast address, greater than all of them
    Sifs, Slot,     \* interframe space and slot
    DetectTx,       \* how long a frame is on the air until it is sensed
    HeadTx,         \* length of a frame's preamble and header
    MgtTx,          \* length of a request, response, acknowledgment or beacon
    DataTx,         \* length of a data frame
    CountedTx,      \* of each destination: as how long such a frame is counted
    MinBackoff,     \* the least backoff of the window in use: none until a
                    \*   neighbor is known, then a multiple of the slot
    RxMargin,       \* how long after a payload its timeout runs (400 ns)
    SeqModulus,     \* number of sequence numbers (4096 in the code)
    MaxPackets,     \* bound: how many packets each node is given
    MaxBeacons,     \* bound: how many beacons each node sends
    MaxExpired,     \* bound: how many of its packets exceed their lifetime
    MaxLosses       \* bound: receptions that fail without a collision

ASSUME BulkAssumption ==
    /\ IsFiniteSet(Nodes) /\ Nodes \subseteq Nat \ {0}
    /\ Group \in Nat \ {0} /\ \A n \in Nodes : Group > n
    /\ {Sifs, DetectTx, RxMargin, SeqModulus} \subseteq Nat \ {0}
    /\ HeadTx \in Nat /\ HeadTx > DetectTx /\ RxMargin < Sifs
    /\ {Slot, MgtTx, DataTx, MinBackoff} \subseteq Nat /\ MgtTx > HeadTx /\ DataTx > HeadTx
    /\ CountedTx \in [Nodes \cup {Group} -> 1 .. DataTx]
    /\ {MaxPackets, MaxBeacons, MaxExpired} \subseteq [Nodes -> Nat] /\ MaxLosses \in Nat

VARIABLES
    mac,        \* each node's low MAC and Txop, see MacType
    air,        \* the frame each node is sending, see FrameType
    losses,     \* receptions that failed without a collision
    delivered   \* the data frames received: sender, sequence number, receiver

vars == <<mac, air, losses, delivered>>

Dests == Nodes \cup {Group}
SequenceNumbers == 0 .. SeqModulus - 1

\* MmWaveMacTxMiddle: one sequence of numbers for all destinations.
NextSequenceUnbounded(s) == s + 1
NextSequence(s) == (s + 1) % SeqModulus

MostPackets == Max({MaxPackets[n] : n \in Nodes})
Durations == 0 .. MostPackets * (Sifs + DataTx)

\* BulkAccessInfo: the peer, 0 for none, the number of packets, the time they
\* take and the first sequence number.
InfoType == [with : {0} \cup Dests, num : 0 .. MostPackets,
             duration : Durations, start : SequenceNumbers]
NoInfo == [with |-> 0, num |-> 0, duration |-> 0, start |-> 0]

\* An event and the function it runs.
EventType == [left : {-1} \cup Nat,
              run : {"none", "WaitIfsAfterEndTxPacket", "StartNewBulkAccess",
                     "SendBulkAccessRequest", "ReadySendAckAfterData",
                     "SendAckAfterData"}]
NoEvent == [left |-> -1, run |-> "none"]

FrameType == [type : {"none", "request", "response", "data", "ack", "beacon"},
              to : {0} \cup Dests, left : {-1} \cup Nat, head : {-1} \cup Nat,
              nav : Nat, hear : SUBSET Nodes, clean : BOOLEAN,
              info : InfoType, seq : SequenceNumbers, got : SUBSET SequenceNumbers]
NoFrame == [type |-> "none", to |-> 0, left |-> -1, head |-> -1, nav |-> 0,
            hear |-> {}, clean |-> TRUE, info |-> NoInfo, seq |-> 0, got |-> {}]

\* The functions with an NS_ASSERT, and what one of ReceiveOk's is about.
Assertions ==
    {"none", "StartChannelAccess", "EndChannelAccess", "CreateBulkAccessRequests",
     "SendDataForPacket", "StartTxTimers", "SendPacket", "NotifyAccessGranted",
     "BeaconTxEnd", "SendAckAfterData", "EndBulkAccess", "BulkTimeout",
     "BulkAckTimeout", "ReceiveOk", "sendBulkAckExpired", "UpdateBulkAckInfo"}

MacType ==
    [accessing : BOOLEAN,           \* m_accessing
     dropped : BOOLEAN,             \* whether its request was dropped, not sent
     request : {"none", "bulk", "beacon"}, \* the manager's pending request
     wait : Nat,                    \* time before which it grants nothing
     nav : {-1} \cup Nat,           \* time left of the NAV
     queue : [Dests -> Nat],        \* packets in m_queue
     requests : SUBSET InfoType,    \* m_bulkAccessRequests, in address order
     tx : InfoType,                 \* m_txBulkAccessInfo
     rx : InfoType,                 \* m_rxBulkAccessInfo
     got : SUBSET SequenceNumbers,      \*   and its m_bitmap
     bulk : {-1} \cup Nat,          \* m_bulkAccess
     responseTimeout : {-1} \cup Nat,   \* m_bulkResponseTimeout
     ackTimeout : {-1} \cup Nat,    \* m_bulkAckTimeout
     told : BOOLEAN,                \* the manager knows of the timeout
     ifs : EventType,               \* m_waitIfsEvent
     response : {-1} \cup Nat,      \* m_txPacket, for a response
     sendAck : EventType,           \* m_sendBulkAck
     buffer : Nat,                  \* packets in m_bufferOfIntraGroup, and
     records : SUBSET SequenceNumbers,  \*   sequence numbers in m_recordsOf...,
     to : {0} \cup Dests,           \*   all for this destination
     seq : SequenceNumbers,             \* the tx middle's m_sequence
     beaconEvent : BOOLEAN,         \* m_beaconEvent runs
     given : 0 .. MostPackets,      \* counters of the bounds
     beacons : Nat, expired : Nat,
     owed : [Nodes -> Nat],         \* unicast packets nothing was reported of
     ok : SUBSET SequenceNumbers,       \* packets reported to TxOk
     assert : Assertions]           \* the NS_ASSERT that stopped the program

MacInit ==
    [accessing |-> FALSE, dropped |-> FALSE, request |-> "none", wait |-> 0, nav |-> -1,
     queue |-> [d \in Dests |-> 0], requests |-> {},
     tx |-> NoInfo, rx |-> NoInfo, got |-> {},
     bulk |-> -1, responseTimeout |-> -1, ackTimeout |-> -1, told |-> FALSE,
     ifs |-> NoEvent, response |-> -1, sendAck |-> NoEvent, buffer |-> 0, records |-> {},
     to |-> 0, seq |-> 0, beaconEvent |-> TRUE, given |-> 0, beacons |-> 0,
     expired |-> 0, owed |-> [d \in Nodes |-> 0], ok |-> {}, assert |-> "none"]

---------------------------------------------------------------------------
(* Helpers.                                                                *)

Later(a, b) == IF a >= b THEN a ELSE b
Running(t) == t >= 0
After(t, run) == [left |-> t, run |-> run]
OnAir(n) == air[n].type # "none"

\* A handler's result: the node's new state, and the frame it sends if any.
Quietly(m) == [mac |-> m, out |-> NoFrame]

\* An assertion in the code: the program stops where it fails.
Require(m, holds, name) ==
    IF holds \/ m.assert # "none" THEN m ELSE [m EXCEPT !.assert = name]

\* So many reports more are owed of packets for d, none of those for the group.
Reports(owed, d, more) == [k \in Nodes |-> IF k = d THEN owed[k] + more ELSE owed[k]]

HasAnyAccessRequest(m) == m.buffer > 0 \/ \E d \in Dests : m.queue[d] > 0

StartAccessIfNeed(m) ==
    IF ~m.accessing /\ HasAnyAccessRequest(m) /\ m.request = "none"
    THEN [m EXCEPT !.request = "bulk"]
    ELSE m

StartChannelAccess(m) ==
    [Require(m, ~m.accessing, "StartChannelAccess") EXCEPT !.accessing = TRUE]
EndChannelAccess(m) ==
    [Require(m, m.accessing, "EndChannelAccess") EXCEPT !.accessing = FALSE]

\* How long after a request or a bulk its answer is waited for.
Timeout == Sifs + MgtTx + Sifs + Slot + HeadTx

\* CalculateTxDuration: a packet of a bulk with the SIFS before it.  Counted are
\* header and trailer only for the group, and the payload only for a node.  The
\* frame takes whole symbols, so that what is missing may or may not show.
CalculateTxDuration(to) == Sifs + CountedTx[to]

Frame(type, to, length, nav) ==
    [NoFrame EXCEPT !.type = type, !.to = to, !.left = length,
                    !.head = HeadTx, !.nav = nav]

---------------------------------------------------------------------------
(* Sending.                                                                *)

\* StartTransmission: a node that is sending drops the frame without a word.
StartTransmission(n, m, f) ==
    IF OnAir(n) THEN Quietly(m) ELSE [mac |-> m, out |-> f]

\* StartTxTimers for a packet: the next one of the buffer follows it after a
\* SIFS.
StartTxTimers(m) ==
    [Require(m, ~Running(m.ifs.left), "StartTxTimers") EXCEPT
       !.ifs = IF m.buffer > 0
               THEN After(DataTx + Sifs, "WaitIfsAfterEndTxPacket")
               ELSE @]

\* SendPacket for a packet, which has to fit into what is left of the bulk.
SendPacket(m, seq) ==
    LET left == m.bulk - DataTx
        nav == IF m.to = Group THEN left ELSE left + Sifs + MgtTx
    IN  IF left < 0
        THEN Quietly(Require(StartTxTimers(m), FALSE, "SendPacket"))
        ELSE [mac |-> StartTxTimers(m),
              out |-> [Frame("data", m.to, DataTx, nav) EXCEPT !.seq = seq]]

NotifyAccessGranted(n, m) ==
    LET taken == [m EXCEPT !.buffer = @ - 1, !.records = @ \cup {m.seq},
                           !.seq = NextSequence(@)]
    IN  CASE m.buffer = 0 -> Quietly(Require(m, FALSE, "NotifyAccessGranted"))
          [] m.buffer > 0 /\ OnAir(n) -> Quietly(taken)
          [] OTHER -> SendPacket(taken, m.seq)

\* SetAccessBuffer: the packets that fit into the duration.  What the buffer
\* and the records still hold is cleared.
SetAccessBuffer(m) ==
    LET to == m.tx.with
        fit == Min({m.queue[to], m.tx.duration \div CalculateTxDuration(to)})
    IN  [m EXCEPT !.buffer = fit, !.records = {}, !.to = to, !.queue[to] = @ - fit]

WaitIfsAfterEndTxPacket(n, m) ==
    IF Running(m.bulk) THEN NotifyAccessGranted(n, m) ELSE Quietly(m)

SendDataForPacket(n, m) ==
    LET p == Require(m, ~Running(m.bulk), "SendDataForPacket")
    IN  NotifyAccessGranted(n, SetAccessBuffer([p EXCEPT !.bulk = m.tx.duration - Sifs]))

SendBulkRequestForPacket(n, m) ==
    LET f == [Frame("request", m.tx.with, MgtTx, Sifs + MgtTx) EXCEPT !.info = m.tx]
        timed == [Require(m, ~Running(m.responseTimeout), "StartTxTimers") EXCEPT
                    !.responseTimeout = MgtTx + Timeout, !.told = TRUE]
    IN  IF OnAir(n) THEN Quietly([m EXCEPT !.dropped = TRUE])
        ELSE [mac |-> timed, out |-> f]

\* The next destination's turn, or the end of the access.
StartNewBulkAccess(n, m0) ==
    LET m == [m0 EXCEPT !.tx = NoInfo]
        waiting == Running(m.ackTimeout) \/ Running(m.responseTimeout)
        first == CHOOSE r \in m.requests : \A q \in m.requests : r.with <= q.with
        next == [m EXCEPT !.tx = [first EXCEPT !.start = m.seq],
                          !.requests = @ \ {first}]
    IN  CASE waiting -> Quietly(m)
          [] ~waiting /\ m.requests = {} ->
               Quietly(StartAccessIfNeed(EndChannelAccess(m)))
          [] OTHER -> IF next.tx.with = Group
                      THEN SendDataForPacket(n, next)
                      ELSE SendBulkRequestForPacket(n, next)

\* A request per destination with packets in the queue.
CreateBulkAccessRequests(m) ==
    LET Info(d) == [with |-> d, num |-> m.queue[d], start |-> m.seq,
                    duration |-> m.queue[d] * CalculateTxDuration(d)]
        dests == {d \in Dests : m.queue[d] > 0}
    IN  [Require(m, dests # {}, "CreateBulkAccessRequests") EXCEPT
           !.requests = {Info(d) : d \in dests}]

SendBulkAccessRequest(n, m) ==
    IF ~HasAnyAccessRequest(m) \/ m.request # "none" \/ Running(m.bulk)
    THEN Quietly(m)
    ELSE LET p == StartChannelAccess(CreateBulkAccessRequests(m))
         IN  IF p.requests = {} THEN Quietly(p) ELSE StartNewBulkAccess(n, p)

SendBeacon(n, m) ==
    StartTransmission(n, StartChannelAccess(m), Frame("beacon", Group, MgtTx, 0))

\* The transmission's end is also the event m_txPacket.
BeaconTxEndOnly(m) == [EndChannelAccess(m) EXCEPT !.beaconEvent = TRUE]
BeaconTxEnd(m) ==
    LET p == [EndChannelAccess(m) EXCEPT !.beaconEvent = TRUE]
    IN  IF HasAnyAccessRequest(p)
        THEN [Require(p, ~Running(p.ifs.left), "BeaconTxEnd") EXCEPT
                !.ifs = After(Sifs, "SendBulkAccessRequest")]
        ELSE p

SendBulkResponseAfterRequest(n, m) ==
    StartTransmission(n, m,
        Frame("response", m.rx.with, MgtTx, m.rx.duration + Sifs + MgtTx))

SendAckAfterData(n, m) ==
    LET f == [Frame("ack", m.rx.with, MgtTx, 0) EXCEPT !.got = m.got]
    IN  StartTransmission(n,
          [Require(m, m.rx # NoInfo, "SendAckAfterData") EXCEPT !.rx = NoInfo], f)

ReadySendAckAfterData(n, m) ==
    IF OnAir(n) THEN Quietly(m) ELSE SendAckAfterData(n, m)

---------------------------------------------------------------------------
(* The end of a bulk, and missed answers.                                  *)

EndBulkAccess(m) ==
    IF m.tx.with = Group
    THEN [m EXCEPT !.ifs = After(Sifs, "StartNewBulkAccess")]
    ELSE [Require(m, m.tx # NoInfo, "EndBulkAccess") EXCEPT
            !.ackTimeout = Timeout, !.told = TRUE]

\* The next destination's turn comes a SIFS after an answer, or its absence.
NextAfterIfs(m, name) ==
    [Require(m, ~Running(m.ifs.left), name) EXCEPT
       !.ifs = After(Sifs, "StartNewBulkAccess")]

\* The packets of the records have been reported, to TxOk or to TxFailed,
\* which ignores those for the group.
Reported(m) ==
    [m EXCEPT !.records = {},
              !.owed = Reports(@, m.to, -Cardinality(m.records))]

\* MissedBulkResponse clears buffer and records.
BulkTimeout(m) ==
    NextAfterIfs([m EXCEPT !.buffer = 0, !.records = {}], "BulkTimeout")

BulkAckTimeoutSilent(m) ==
    NextAfterIfs([m EXCEPT !.records = {}], "BulkAckTimeout")
BulkAckTimeoutStopping(m) == Reported(m)
BulkAckTimeout(m) == NextAfterIfs(Reported(m), "BulkAckTimeout")

GotBulkAckOfAll(m, got) == Reported([m EXCEPT !.ok = @ \cup m.records])
GotBulkAck(m, got) ==
    Reported([m EXCEPT !.ok = @ \cup (m.records \cap got)])

---------------------------------------------------------------------------
(* Receiving.                                                              *)

\* A frame's payload begins: a timeout that runs is put off to just after
\* its end, and the manager told that there is none.
RxStartIndication(m, left) ==
    CASE Running(m.responseTimeout)
           -> [m EXCEPT !.responseTimeout = left + RxMargin, !.told = FALSE]
      [] ~Running(m.responseTimeout) /\ Running(m.ackTimeout)
           -> [m EXCEPT !.ackTimeout = left + RxMargin, !.told = FALSE]
      [] OTHER -> m

ReceiveRequest(n, m, from, f) ==
    IF f.to = n /\ ~Running(m.nav)
    THEN [Require(Require(m, ~Running(m.response), "ReceiveOk"),
                  ~Running(m.sendAck.left), "sendBulkAckExpired") EXCEPT
            !.rx = [f.info EXCEPT !.with = from],
            !.got = {},
            !.response = Sifs,
            !.sendAck = After(Sifs + MgtTx + f.info.duration + Sifs,
                              "ReadySendAckAfterData")]
    ELSE m

ReceiveResponse(n, m, f) ==
    IF f.to = n /\ Running(m.responseTimeout)
    THEN LET p == Require(Require(m, ~Running(m.bulk) /\ m.tx # NoInfo, "ReceiveOk"),
                          ~Running(m.ifs.left), "ReceiveOk")
         IN  SetAccessBuffer([p EXCEPT !.responseTimeout = -1, !.told = FALSE,
                                !.bulk = m.tx.duration,
                                !.ifs = After(Sifs, "WaitIfsAfterEndTxPacket")])
    ELSE m

ReceiveAck(n, m, f) ==
    IF f.to = n /\ Running(m.ackTimeout)
    THEN NextAfterIfs(
           GotBulkAck([m EXCEPT !.ackTimeout = -1, !.told = FALSE], f.got), "ReceiveOk")
    ELSE m

AllReceived(m) == Cardinality(m.got) = m.rx.num

\* UpdateBulkAckInfo, and the acknowledgment early once all packets came.
ReceiveData(n, m, from, f) ==
    LET p == Require(m, m.rx # NoInfo, "ReceiveOk")
        counted == IF m.rx.with = from
                   THEN [Require(p, f.seq >= m.rx.start, "UpdateBulkAckInfo") EXCEPT
                           !.got = @ \cup {f.seq}]
                   ELSE p
    IN  CASE f.to \notin {n, Group} \/ ~Running(m.sendAck.left) -> m
          [] f.to \in {n, Group} /\ Running(m.sendAck.left) /\ AllReceived(counted)
               -> [counted EXCEPT !.sendAck = After(Sifs, "SendAckAfterData")]
          [] OTHER -> counted

\* Every frame of another node sets the NAV, its addressee's too.
NotifyNav(m, f) == [m EXCEPT !.nav = Later(@, f.nav)]

ReceiveOk(n, m, from, f) ==
    NotifyNav(CASE f.type = "request" -> ReceiveRequest(n, m, from, f)
                [] f.type = "response" -> ReceiveResponse(n, m, f)
                [] f.type = "ack" -> ReceiveAck(n, m, f)
                [] f.type = "data" -> ReceiveData(n, m, from, f)
                [] OTHER -> m,
              f)

\* After a reception that fails the next grant comes a SIFS later.
ReceiveError(m) == [m EXCEPT !.wait = Later(@, 3 * Sifs + MinBackoff)]

---------------------------------------------------------------------------
(* Steps.                                                                  *)

Alive == \A n \in Nodes : mac[n].assert = "none"

\* The frames the nodes hear when n begins to send f: what n was hearing is
\* cut off, and all that overlap may be lost.
Transmit(n, f) ==
    LET others == {k \in Nodes : OnAir(k)}
        deaf == {n} \cup others \cup UNION {air[k].hear : k \in others}
    IN  [k \in Nodes |->
            CASE k = n -> [f EXCEPT !.hear = Nodes \ deaf, !.clean = others = {}]
              [] k \in others \ {n} -> [air[k] EXCEPT !.hear = @ \ {n}, !.clean = FALSE]
              [] OTHER -> NoFrame]

\* Node n's handler leaves the result r.
Becomes(n, r) ==
    /\ \E o \in {r} : /\ mac' = [mac EXCEPT ![n] = o.mac]
                      /\ air' = IF o.out = NoFrame THEN air ELSE Transmit(n, o.out)
    /\ UNCHANGED <<losses, delivered>>

\* A frame's end comes before whatever else is due at the same moment.
FrameDue == \E n \in Nodes : air[n].left = 0 \/ air[n].head = 0
Runs == Alive /\ ~FrameDue

\* A packet for d arrives from above.
Queue(n, d) ==
    LET m == [mac[n] EXCEPT !.queue[d] = @ + 1, !.given = @ + 1,
                            !.owed = Reports(@, d, 1)]
    IN  /\ Runs /\ mac[n].given < MaxPackets[n]
        /\ Becomes(n, Quietly(StartAccessIfNeed(m)))

\* A packet exceeds its lifetime in the queue.
Expire(n, d) ==
    LET m == [mac[n] EXCEPT !.queue[d] = @ - 1, !.expired = @ + 1,
                            !.owed = Reports(@, d, -1)]
    IN  /\ Runs /\ mac[n].expired < MaxExpired[n] /\ mac[n].queue[d] > 0
        /\ Becomes(n, Quietly(m))

\* m_beaconEvent.  A beacon takes the place of a pending bulk access.
StartBeacon(n) ==
    /\ Runs /\ mac[n].beaconEvent /\ mac[n].beacons < MaxBeacons[n]
    /\ Becomes(n, Quietly([mac[n] EXCEPT !.beaconEvent = FALSE, !.beacons = @ + 1,
                                         !.request = "beacon"]))

\* What keeps node n's access manager busy: its own frame, those of others
\* once their preamble is detected, the NAV and the timeouts.
Sensed(f) == f.type # "none" /\ f.head <= HeadTx - DetectTx
IsBusy(n) ==
    \/ OnAir(n)
    \/ \E k \in Nodes : Sensed(air[k])
    \/ mac[n].nav > 0
    \/ mac[n].told /\ (mac[n].responseTimeout > 0 \/ mac[n].ackTimeout > 0)

RequestAccessCallback(n) ==
    LET m == [mac[n] EXCEPT !.request = "none"]
    IN  /\ Runs /\ mac[n].request # "none" /\ mac[n].wait = 0 /\ ~IsBusy(n)
        /\ Becomes(n, IF mac[n].request = "beacon"
                      THEN SendBeacon(n, m)
                      ELSE SendBulkAccessRequest(n, m))

\* m_waitIfsEvent.
WaitIfs(n) ==
    LET run == mac[n].ifs.run
        m == [mac[n] EXCEPT !.ifs = NoEvent]
    IN  /\ Runs /\ mac[n].ifs.left = 0
        /\ Becomes(n, CASE run = "WaitIfsAfterEndTxPacket"
                             -> WaitIfsAfterEndTxPacket(n, m)
                        [] run = "StartNewBulkAccess" -> StartNewBulkAccess(n, m)
                        [] run = "SendBulkAccessRequest"
                             -> SendBulkAccessRequest(n, m))

\* m_txPacket, m_sendBulkAck, and the low MAC's three timers.
Respond(n) ==
    /\ Runs /\ mac[n].response = 0
    /\ Becomes(n, SendBulkResponseAfterRequest(n, [mac[n] EXCEPT !.response = -1]))

Acknowledge(n) ==
    LET m == [mac[n] EXCEPT !.sendAck = NoEvent]
    IN  /\ Runs /\ mac[n].sendAck.left = 0
        /\ Becomes(n, IF mac[n].sendAck.run = "SendAckAfterData"
                      THEN SendAckAfterData(n, m)
                      ELSE ReadySendAckAfterData(n, m))

BulkEnds(n) ==
    /\ Runs /\ mac[n].bulk = 0
    /\ Becomes(n, Quietly(EndBulkAccess([mac[n] EXCEPT !.bulk = -1])))

ResponseMissed(n) ==
    /\ Runs /\ mac[n].responseTimeout = 0
    /\ Becomes(n, Quietly(BulkTimeout([mac[n] EXCEPT !.responseTimeout = -1])))

AckMissed(n) ==
    /\ Runs /\ mac[n].ackTimeout = 0
    /\ Becomes(n, Quietly(BulkAckTimeout([mac[n] EXCEPT !.ackTimeout = -1])))

\* Those who hear f and those who lose it: without a collision, a loss counts.
Outcomes(f) ==
    {heard \in SUBSET f.hear :
        f.clean => losses + Cardinality(f.hear \ heard) <= MaxLosses}
Lost(f, heard) ==
    losses' = IF f.clean THEN losses + Cardinality(f.hear \ heard) ELSE losses

PayloadStarts(n) ==
    /\ Alive /\ air[n].head = 0
    /\ \E heard \in Outcomes(air[n]) :
         /\ mac' = [k \in Nodes |-> IF k \in heard
                                    THEN RxStartIndication(mac[k], air[n].left)
                                    ELSE mac[k]]
         /\ air' = [air EXCEPT ![n].hear = heard, ![n].head = -1]
         /\ Lost(air[n], heard)
    /\ UNCHANGED delivered

FrameEnds(n) ==
    LET f == air[n]
    IN  /\ Alive /\ f.left = 0
        /\ \E heard \in Outcomes(f) :
             /\ mac' = [k \in Nodes |->
                          CASE k \in heard -> ReceiveOk(k, mac[k], n, f)
                            [] k \in f.hear \ heard -> ReceiveError(mac[k])
                            [] k \in {n} \ f.hear /\ f.type = "beacon"
                                 -> BeaconTxEnd(mac[k])
                            [] OTHER -> mac[k]]
             /\ Lost(f, heard)
             /\ delivered' = IF f.type = "data"
                             THEN delivered \cup {<<n, f.seq, k>> :
                                    k \in {k \in heard : f.to \in {k, Group}}}
                             ELSE delivered
        /\ air' = [air EXCEPT ![n] = NoFrame]

Closer(t) == IF Running(t) THEN t - 1 ELSE t

Elapse(n) ==
    [mac[n] EXCEPT
        !.wait = Later(@ - 1, IF IsBusy(n) THEN 2 * Sifs + MinBackoff ELSE 0),
        !.nav = Closer(@), !.bulk = Closer(@), !.responseTimeout = Closer(@),
        !.ackTimeout = Closer(@), !.response = Closer(@),
        !.ifs.left = Closer(@), !.sendAck.left = Closer(@)]

Due(m) == 0 \in {m.bulk, m.responseTimeout, m.ackTimeout, m.response,
                 m.ifs.left, m.sendAck.left}

NothingDue == ~FrameDue /\ \A n \in Nodes : ~Due(mac[n])

Tick ==
    /\ Alive /\ NothingDue
    /\ mac' = [n \in Nodes |-> Elapse(n)]
    /\ air' = [n \in Nodes |-> [air[n] EXCEPT !.left = Closer(@), !.head = Closer(@)]]
    /\ UNCHANGED <<losses, delivered>>

Init ==
    /\ mac = [n \in Nodes |-> MacInit]
    /\ air = [n \in Nodes |-> NoFrame]
    /\ losses = 0
    /\ delivered = {}

Next ==
    \/ Tick
    \/ \E n \in Nodes :
        \/ \E d \in Dests \ {n} : Queue(n, d) \/ Expire(n, d)
        \/ StartBeacon(n) \/ RequestAccessCallback(n)
        \/ WaitIfs(n) \/ Respond(n) \/ Acknowledge(n)
        \/ BulkEnds(n) \/ ResponseMissed(n) \/ AckMissed(n)
        \/ PayloadStarts(n) \/ FrameEnds(n)

Spec == Init /\ [][Next]_vars

\* Time passes, and no event stays due: the simulator runs every one.
FairSpec == Spec /\ WF_vars(Tick) /\ []<>(Alive => NothingDue)

---------------------------------------------------------------------------
(* What the exchange promises.                                             *)

\* The members of the low MAC and the Txop, and the frames, have their types.
TypeOK ==
    /\ mac \in [Nodes -> MacType]
    /\ air \in [Nodes -> FrameType]
    /\ losses \in 0 .. MaxLosses
    /\ delivered \subseteq Nodes \X SequenceNumbers \X Nodes

\* A packet is reported as sent only if its receiver has it, whatever was
\* lost on the way.
AckedWasReceived ==
    \A n \in Nodes : \A s \in mac[n].ok : \E k \in Nodes : <<n, s, k>> \in delivered

\* No unicast packet vanishes: it is in the queue, the buffer or the records
\* until its lifetime ends or TxOk or TxFailed is called for it.
NothingVanishes ==
    Alive => \A n \in Nodes :
        LET m == mac[n]
        IN  \A d \in Nodes :
              m.owed[d] = m.queue[d] + (IF m.to = d THEN m.buffer + Cardinality(m.records)
                                                    ELSE 0)

\* A node with packets never forgets them: it is accessing the channel, or
\* has a request pending, or will access it a SIFS after its beacon.
WorkIsScheduled ==
    Alive => \A n \in Nodes : HasAnyAccessRequest(mac[n]) =>
        \/ mac[n].accessing
        \/ mac[n].request # "none"
        \/ mac[n].ifs.run = "SendBulkAccessRequest"

\* Every channel access ends, whatever was lost, unless its request met a frame
\* of the node's own on the air and was dropped, or an assertion has failed.
AccessEnds ==
    \A n \in Nodes : []<>(~mac[n].accessing \/ mac[n].dropped \/ ~Alive)

---------------------------------------------------------------------------
(* One of the assertions, by itself.                                       *)

\* ReceiveOk: a node that is asked for a response owes no acknowledgment.
NoAckOwedWhenAsked == \A n \in Nodes : mac[n].assert # "sendBulkAckExpired"

=============================================================================
