--------------------------- MODULE CrBulkAccess_proofs ---------------------------
(***************************************************************************)
(* Proofs about bulk access, for any number of nodes and packets, all      *)
(* lengths, losses and expired packets: the types; that a node with        *)
(* packets never forgets them; and that a packet is reported as sent only  *)
(* if its receiver has it.                                                 *)
(***************************************************************************)
EXTENDS CrBulkAccess, NumberLemmas

---------------------------------------------------------------------------
(* The inductive invariant.                                                *)

\* What holds of a low MAC and its Txop even when an assertion has failed: no
\* event without its function, no more packets in a queue than were given, no
\* request for nothing, and no packet of which more is reported than is owed.
Typed(m) ==
    /\ m \in MacType
    /\ Running(m.ifs.left) => m.ifs.run \in {"WaitIfsAfterEndTxPacket",
                                "StartNewBulkAccess", "SendBulkAccessRequest"}
    /\ \A d \in Dests : m.queue[d] <= m.given
    /\ \A r \in m.requests : r.with \in Dests /\ r.duration >= CalculateTxDuration(r.with)
    /\ \A d \in Nodes :
         m.owed[d] >= m.queue[d] + (IF m.to = d THEN m.buffer + Cardinality(m.records) ELSE 0)

\* Whether a timer or an event of an access to the channel runs.
Continues(m) == m.ifs.run \in {"WaitIfsAfterEndTxPacket", "StartNewBulkAccess"}
Active(m) ==
    \/ Running(m.bulk) \/ Running(m.responseTimeout) \/ Running(m.ackTimeout)
    \/ Continues(m)

\* The phases of an access follow one another: the response is waited for, then
\* the bulk runs, then the acknowledgment is waited for, then the next begins.
Phases(m) ==
    /\ Active(m) => m.accessing
    /\ Running(m.bulk) => ~Running(m.responseTimeout) /\ ~Running(m.ackTimeout)
    /\ Running(m.responseTimeout) => ~Running(m.ackTimeout) /\ m.tx.with \in Nodes
    /\ m.ifs.run = "StartNewBulkAccess" =>
         ~Running(m.bulk) /\ ~Running(m.responseTimeout) /\ ~Running(m.ackTimeout)

\* A node that has packets will access the channel, or is.
Scheduled(m) ==
    HasAnyAccessRequest(m) =>
        m.accessing \/ m.request # "none" \/ m.ifs.run = "SendBulkAccessRequest"

Sound(m) == Typed(m) /\ (m.assert = "none" => Phases(m) /\ Scheduled(m))

\* An access that is a beacon's.
Calm(m) == m.accessing /\ ~Active(m)

TInv ==
    /\ \A n \in Nodes : Sound(mac[n])
    /\ \A n \in Nodes : air[n].head <= air[n].left
    /\ \A n \in Nodes : air[n].type = "beacon" /\ mac[n].assert = "none" => Calm(mac[n])
    /\ TypeOK

\* What a receiver has marked, and what is acknowledged on the air, was
\* delivered.
AInv ==
    /\ \A k \in Nodes : mac[k].rx.with \in Nodes =>
         \A s \in mac[k].got : <<mac[k].rx.with, s, k>> \in delivered
    /\ \A k \in Nodes : air[k].type = "ack" /\ air[k].to \in Nodes =>
         \A s \in air[k].got : <<air[k].to, s, k>> \in delivered
    /\ AckedWasReceived

---------------------------------------------------------------------------
(* Constants.                                                              *)

LEMMA MostPacketsBound ==
    ASSUME NEW n \in Nodes
    PROVE  /\ MostPackets \in Nat
           /\ \A k \in Nodes : MaxPackets[k] \in Nat /\ MaxPackets[k] <= MostPackets
  <1> DEFINE S == {MaxPackets[k] : k \in Nodes}
  <1>1. S \in SUBSET Nat /\ S # {} /\ IsFiniteSet(S)
    <2>1. IsFiniteSet(Nodes) /\ MaxPackets \in [Nodes -> Nat]
      BY BulkAssumption
    <2>2. IsFiniteSet(S)
      <3> DEFINE f == [k \in Nodes |-> MaxPackets[k]]
      <3>1. f \in Surjection(Nodes, S)
        BY DEF Surjection
      <3> HIDE DEF f, S
      <3> QED
        BY <2>1, <3>1, FS_Surjection
    <2>3. S \subseteq Nat
      BY <2>1
    <2> QED
      BY <2>2, <2>3
  <1>2. Max(S) \in S /\ \A t \in S : t <= Max(S)
    <2> HIDE DEF S
    <2>1. PICK b \in Nat : \A t \in S : t <= b
      BY <1>1, FiniteIsBounded
    <2> QED
      BY <1>1, <2>1, GreatestNatural
  <1> QED
    BY <1>1, <1>2, BulkAssumption DEF MostPackets

LEMMA Constants ==
    /\ IsFiniteSet(Nodes) /\ Nodes \subseteq Nat \ {0}
    /\ Group \in Nat \ {0} /\ Group \notin Nodes
    /\ Sifs \in Nat \ {0} /\ RxMargin \in Nat \ {0} /\ MaxLosses \in Nat
    /\ SeqModulus \in Nat \ {0} /\ HeadTx \in Nat \ {0}
    /\ Slot \in Nat /\ MgtTx \in Nat /\ DataTx \in Nat /\ MinBackoff \in Nat
    /\ MgtTx > HeadTx /\ DataTx > HeadTx
    /\ \A d \in Dests : /\ CalculateTxDuration(d) \in Nat /\ CalculateTxDuration(d) > Sifs
                       /\ CalculateTxDuration(d) <= Sifs + DataTx
    /\ Timeout \in Nat
    /\ 0 \in SequenceNumbers /\ IsFiniteSet(SequenceNumbers)
    /\ \A s \in SequenceNumbers : NextSequence(s) \in SequenceNumbers
  <1>1. IsFiniteSet(SequenceNumbers)
    <2>1. 0 \in Int /\ SeqModulus - 1 \in Int
      BY BulkAssumption
    <2> QED
      BY <2>1, FS_Interval DEF SequenceNumbers
  <1>2. \A s \in SequenceNumbers : NextSequence(s) \in SequenceNumbers
    BY BulkAssumption DEF SequenceNumbers, NextSequence
  <1>3. /\ Sifs \in Nat \ {0} /\ RxMargin \in Nat \ {0} /\ MaxLosses \in Nat
        /\ SeqModulus \in Nat \ {0} /\ DetectTx \in Nat \ {0}
        /\ Slot \in Nat /\ MgtTx \in Nat /\ DataTx \in Nat /\ MinBackoff \in Nat
        /\ CountedTx \in [Nodes \cup {Group} -> 1 .. DataTx]
    BY BulkAssumption, Zenon
  <1>4. /\ IsFiniteSet(Nodes) /\ Nodes \subseteq Nat \ {0}
        /\ Group \in Nat \ {0} /\ Group \notin Nodes
        /\ HeadTx \in Nat \ {0} /\ MgtTx > HeadTx /\ DataTx > HeadTx
    BY <1>3, BulkAssumption
  <1>5. Timeout \in Nat /\ 0 \in SequenceNumbers
    BY <1>3, <1>4 DEF Timeout, SequenceNumbers
  <1>6. ASSUME NEW d \in Dests
        PROVE  /\ CalculateTxDuration(d) \in Nat /\ CalculateTxDuration(d) > Sifs
               /\ CalculateTxDuration(d) <= Sifs + DataTx
    <2>1. CountedTx[d] \in 1 .. DataTx
      BY <1>3 DEF Dests
    <2> QED
      BY <1>3, <2>1 DEF CalculateTxDuration
  <1> QED
    BY <1>1, <1>2, <1>3, <1>4, <1>5, <1>6

LEMMA RecordsCount ==
    ASSUME NEW R \in SUBSET SequenceNumbers
    PROVE  /\ IsFiniteSet(R) /\ Cardinality(R) \in Nat
           /\ \A s \in SequenceNumbers : Cardinality(R \cup {s}) <= Cardinality(R) + 1
  <1>1. IsFiniteSet(R) /\ Cardinality(R) \in Nat
    BY Constants, FS_Subset, FS_CardinalityType
  <1>2. ASSUME NEW s \in SequenceNumbers
        PROVE  Cardinality(R \cup {s}) <= Cardinality(R) + 1
    <2>1. CASE s \in R
      <3>1. R \cup {s} = R
        BY <2>1
      <3> QED
        BY <1>1, <3>1
    <2>2. CASE s \notin R
      <3>1. Cardinality(R \cup {s}) = Cardinality(R) + 1
        BY <1>1, <2>2, FS_AddElement, Zenon
      <3> QED
        BY <1>1, <3>1
    <2> QED
      BY <2>1, <2>2
  <1> QED
    BY <1>1, <1>2

LEMMA Products ==
    ASSUME NEW a \in Nat, NEW b \in Nat, NEW c \in Nat, a <= b
    PROVE  /\ a * c \in Nat /\ a * c <= b * c
           /\ c * a \in Nat /\ c * a <= c * b
           /\ a > 0 => a * c >= c
  OBVIOUS

LEMMA Quotients ==
    ASSUME NEW a \in Nat, NEW b \in Nat \ {0}
    PROVE  a \div b \in Nat
  OBVIOUS

LEMMA NoInfoType ==
    ASSUME NEW n \in Nodes
    PROVE  NoInfo \in InfoType /\ NoInfo.with = 0
  <1>1. MostPackets * (Sifs + DataTx) \in Nat
    BY MostPacketsBound, Constants, Products
  <1> DEFINE y == MostPackets * (Sifs + DataTx)
  <1>2. 0 \in Durations
    <2> HIDE DEF y
    <2>1. Durations = 0 .. y
      BY DEF Durations, y
    <2> QED
      BY <1>1, <2>1 DEF y
  <1> QED
    BY <1>2, MostPacketsBound, Constants DEF NoInfo, InfoType

---------------------------------------------------------------------------
(* Helpers of the handlers.                                                *)

\* What a handler leaves alone unless it is about a reception: what was marked
\* and reported; and an assertion that has failed stays so.
Kept(m, p) ==
    /\ p.ok = m.ok /\ p.got = m.got /\ p.rx = m.rx
    /\ p.assert = "none" => m.assert = "none"

\* The packets of two states of a MAC are the same.
SameStock(m, p) ==
    /\ p.queue = m.queue /\ p.given = m.given /\ p.requests = m.requests
    /\ p.owed = m.owed /\ p.to = m.to /\ p.buffer = m.buffer /\ p.records = m.records

HasFunction(e) ==
    Running(e.left) => e.run \in {"WaitIfsAfterEndTxPacket", "StartNewBulkAccess",
                                  "SendBulkAccessRequest"}

LEMMA TypedAgain ==
    ASSUME NEW m, NEW p, Typed(m), p \in MacType, SameStock(m, p), HasFunction(p.ifs)
    PROVE  Typed(p)
  BY DEF Typed, SameStock, HasFunction

LEMMA EventTypes ==
    /\ NoEvent \in EventType /\ HasFunction(NoEvent) /\ NoEvent.run = "none"
    /\ \A t \in Nat, e \in {"WaitIfsAfterEndTxPacket", "StartNewBulkAccess",
                            "SendBulkAccessRequest"} :
         After(t, e) \in EventType /\ HasFunction(After(t, e)) /\ After(t, e).run = e
    /\ \A t \in Nat, e \in {"ReadySendAckAfterData", "SendAckAfterData"} :
         After(t, e) \in EventType
  BY DEF NoEvent, EventType, HasFunction, Running, After

LEMMA RequireFacts ==
    ASSUME NEW m, Typed(m), NEW h, NEW name \in Assertions, name # "none"
    PROVE  /\ Typed(Require(m, h, name)) /\ Kept(m, Require(m, h, name))
           /\ Require(m, h, name).assert = "none" => h /\ Require(m, h, name) = m
           /\ h => Require(m, h, name) = m
           /\ \/ Require(m, h, name) = m
              \/ Require(m, h, name) = [m EXCEPT !.assert = name]
  <1>1. CASE h \/ m.assert # "none"
    BY <1>1 DEF Require, Kept
  <1>2. CASE ~h /\ m.assert = "none"
    <2> DEFINE p == [m EXCEPT !.assert = name]
    <2>1. m \in MacType
      BY DEF Typed
    <2>2. p \in MacType
      BY <2>1 DEF MacType
    <2>3. SameStock(m, p) /\ p.ifs = m.ifs /\ p.assert = name /\ Kept(m, p)
      BY <1>2, <2>1 DEF MacType, SameStock, Kept
    <2>4. Typed(p)
      BY <2>2, <2>3, TypedAgain DEF Typed, HasFunction
    <2>5. Require(m, h, name) = p
      BY <1>2 DEF Require
    <2>6. Require(m, h, name) = [m EXCEPT !.assert = name]
      BY <2>5
    <2> HIDE DEF p
    <2>7. Kept(m, Require(m, h, name)) /\ Require(m, h, name).assert = name
      BY <2>3, <2>5
    <2> QED
      BY <1>2, <2>4, <2>5, <2>6, <2>7
  <1> QED
    BY <1>1, <1>2

---------------------------------------------------------------------------
(* Sending.                                                                *)

FrameOK(f) == f \in FrameType /\ f.head <= f.left

\* While a bulk runs.
InBulk(m) ==
    /\ m.accessing /\ Running(m.bulk) /\ m.ifs.run # "StartNewBulkAccess"
    /\ ~Running(m.responseTimeout) /\ ~Running(m.ackTimeout)

LEMMA InBulkIsSound ==
    ASSUME NEW m, Typed(m), m.assert = "none" => InBulk(m) \/ Calm(m)
    PROVE  Sound(m)
  BY DEF Sound, InBulk, Calm, Phases, Scheduled, Active, Continues

LEMMA FrameKind ==
    ASSUME NEW type, NEW to, NEW length, NEW nav
    PROVE  Frame(type, to, length, nav).type = type /\ Frame(type, to, length, nav).to = to
  BY DEF Frame, NoFrame

LEMMA FrameFacts ==
    ASSUME NEW n \in Nodes,
           NEW type \in {"none", "request", "response", "data", "ack", "beacon"},
           NEW to \in {0} \cup Dests, NEW length \in Nat, length > HeadTx, NEW nav \in Nat
    PROVE  FrameOK(Frame(type, to, length, nav))
  <1> DEFINE f == Frame(type, to, length, nav)
  <1>1. NoFrame \in FrameType
    BY Constants, NoInfoType DEF NoFrame, FrameType
  <1>2. f = [NoFrame EXCEPT !.type = type, !.to = to, !.left = length,
                            !.head = HeadTx, !.nav = nav]
    BY DEF Frame
  <1> HIDE DEF f
  <1>3. f \in FrameType /\ f.head = HeadTx /\ f.left = length
    BY <1>1, <1>2, Constants DEF FrameType
  <1> QED
    BY <1>3, Constants DEF f, FrameOK

LEMMA NoFrameIsNone ==
    ASSUME NEW n \in Nodes
    PROVE  FrameOK(NoFrame) /\ NoFrame.type = "none"
  BY Constants, NoInfoType DEF FrameOK, NoFrame, FrameType

\* The result of a handler that sends at most what it may while a bulk runs.
Sends(m, r, types) ==
    /\ Typed(r.mac) /\ Kept(m, r.mac) /\ FrameOK(r.out) /\ r.out.type \in {"none"} \cup types

LEMMA StartTxTimersFacts ==
    ASSUME NEW m, Typed(m), m.assert = "none" => InBulk(m)
    PROVE  /\ Typed(StartTxTimers(m)) /\ Kept(m, StartTxTimers(m))
           /\ StartTxTimers(m).assert = "none" => InBulk(StartTxTimers(m))
  <1> DEFINE q == Require(m, ~Running(m.ifs.left), "StartTxTimers")
             p == StartTxTimers(m)
  <1>1. Typed(q) /\ Kept(m, q) /\ (q.assert = "none" => q = m)
    BY RequireFacts DEF Assertions
  <1>2. q \in MacType /\ q.buffer \in Nat /\ q.ifs \in EventType
    BY <1>1 DEF Typed, MacType
  <1>3. m \in MacType /\ m.buffer \in Nat
    BY DEF Typed, MacType
  <1> DEFINE e == IF m.buffer > 0 THEN After(DataTx + Sifs, "WaitIfsAfterEndTxPacket")
                  ELSE q.ifs
  <1>4. e \in EventType /\ HasFunction(e)
        /\ (e.run # "StartNewBulkAccess" \/ e = q.ifs)
    BY <1>1, <1>2, EventTypes, Constants DEF Typed, HasFunction
  <1>5. p = [q EXCEPT !.ifs = e]
    BY DEF StartTxTimers
  <1> HIDE DEF q, p, e
  <1>6. p \in MacType /\ p.ifs = e /\ SameStock(q, p) /\ Kept(q, p)
        /\ p.assert = q.assert /\ p.accessing = q.accessing /\ p.bulk = q.bulk
        /\ p.responseTimeout = q.responseTimeout /\ p.ackTimeout = q.ackTimeout
    BY <1>2, <1>4, <1>5 DEF MacType, SameStock, Kept
  <1>7. Typed(p) /\ Kept(m, p)
    BY <1>1, <1>4, <1>6, TypedAgain DEF Kept
  <1>8. p.assert = "none" => InBulk(p)
    BY <1>1, <1>4, <1>6 DEF InBulk, Kept
  <1> QED
    BY <1>7, <1>8 DEF p

LEMMA SendPacketFacts ==
    ASSUME NEW n \in Nodes, NEW m, Typed(m), m.assert = "none" => InBulk(m),
           NEW seq \in SequenceNumbers
    PROVE  /\ Sends(m, SendPacket(m, seq), {"data"})
           /\ SendPacket(m, seq).mac.assert = "none" => InBulk(SendPacket(m, seq).mac)
  <1> DEFINE p == StartTxTimers(m)
             left == m.bulk - DataTx
             nav == IF m.to = Group THEN left ELSE left + Sifs + MgtTx
             f == Frame("data", m.to, DataTx, nav)
             g == [f EXCEPT !.seq = seq]
  <1>1. Typed(p) /\ Kept(m, p) /\ (p.assert = "none" => InBulk(p))
    BY StartTxTimersFacts
  <1>2. m \in MacType /\ m.bulk \in {-1} \cup Nat /\ m.to \in {0} \cup Dests
    BY DEF Typed, MacType
  <1>3. CASE left < 0
    <2> DEFINE q == Require(p, FALSE, "SendPacket")
    <2>1. Typed(q) /\ Kept(p, q) /\ q.assert # "none"
      BY <1>1, RequireFacts DEF Assertions
    <2>2. SendPacket(m, seq) = Quietly(q)
      BY <1>3 DEF SendPacket
    <2>3. Kept(m, q)
      BY <1>1, <2>1 DEF Kept
    <2> HIDE DEF q
    <2> QED
      BY <2>1, <2>2, <2>3, NoFrameIsNone DEF Quietly, Sends
  <1>4. CASE ~(left < 0)
    <2>1. nav \in Nat /\ DataTx \in Nat /\ DataTx > HeadTx
      BY <1>2, <1>4, Constants
    <2> HIDE DEF nav, left
    <2>2. FrameOK(f) /\ f.type = "data"
      <3>1. FrameOK(f)
        BY <1>2, <2>1, FrameFacts
      <3>2. f.type = "data"
        BY FrameKind
      <3> QED
        BY <3>1, <3>2
    <2> HIDE DEF f
    <2>3. FrameOK(g) /\ g.type = "data"
      BY <2>2 DEF FrameOK, FrameType
    <2>4. SendPacket(m, seq) = [mac |-> p, out |-> g]
      BY <1>4 DEF SendPacket, left, nav, f
    <2> HIDE DEF p, g
    <2> QED
      BY <1>1, <2>3, <2>4 DEF Sends
  <1> QED
    BY <1>3, <1>4

LEMMA NotifyAccessGrantedFacts ==
    ASSUME NEW n \in Nodes, NEW m, Typed(m), m.assert = "none" => InBulk(m)
    PROVE  /\ Sends(m, NotifyAccessGranted(n, m), {"data"})
           /\ NotifyAccessGranted(n, m).mac.assert = "none" =>
                InBulk(NotifyAccessGranted(n, m).mac)
  <1> DEFINE p == [m EXCEPT !.buffer = @ - 1, !.records = @ \cup {m.seq},
                            !.seq = NextSequence(@)]
             r == NotifyAccessGranted(n, m)
  <1>1. m \in MacType /\ m.buffer \in Nat /\ m.seq \in SequenceNumbers
        /\ m.records \in SUBSET SequenceNumbers /\ m.queue \in [Dests -> Nat]
        /\ m.owed \in [Nodes -> Nat]
    BY DEF Typed, MacType
  <1>2. CASE m.buffer = 0
    <2> DEFINE q == Require(m, FALSE, "NotifyAccessGranted")
    <2>1. Typed(q) /\ Kept(m, q) /\ q.assert # "none"
      BY RequireFacts DEF Assertions
    <2>2. r = Quietly(q)
      BY <1>2 DEF NotifyAccessGranted
    <2> HIDE DEF q, r
    <2>3. Sends(m, r, {"data"}) /\ r.mac.assert # "none"
      BY <2>1, <2>2, NoFrameIsNone DEF Quietly, Sends
    <2> QED
      BY <2>3 DEF r
  <1>3. CASE m.buffer > 0
    <2>1. p \in MacType
      <3>1. m.buffer - 1 \in Nat /\ NextSequence(m.seq) \in SequenceNumbers
            /\ m.records \cup {m.seq} \in SUBSET SequenceNumbers
        BY <1>1, <1>3, Constants
      <3> QED
        BY <1>1, <3>1 DEF MacType
    <2>2. /\ p.queue = m.queue /\ p.given = m.given /\ p.requests = m.requests
          /\ p.owed = m.owed /\ p.to = m.to /\ p.ifs = m.ifs
          /\ p.buffer = m.buffer - 1 /\ p.records = m.records \cup {m.seq}
          /\ p.assert = m.assert /\ p.accessing = m.accessing /\ p.bulk = m.bulk
          /\ p.responseTimeout = m.responseTimeout /\ p.ackTimeout = m.ackTimeout
          /\ Kept(m, p)
      BY <1>1 DEF MacType, Kept
    <2> HIDE DEF p
    <2>3. /\ Cardinality(m.records) \in Nat /\ Cardinality(p.records) \in Nat
          /\ Cardinality(p.records) <= Cardinality(m.records) + 1
      BY <1>1, <2>1, <2>2, RecordsCount DEF MacType
    <2>4. Typed(p)
      <3>1. \A d \in Nodes : p.owed[d] >= p.queue[d]
              + (IF p.to = d THEN p.buffer + Cardinality(p.records) ELSE 0)
        <4> SUFFICES ASSUME NEW d \in Nodes
                     PROVE  p.owed[d] >= p.queue[d]
                              + (IF p.to = d THEN p.buffer + Cardinality(p.records) ELSE 0)
          OBVIOUS
        <4>1. m.owed[d] >= m.queue[d]
                + (IF m.to = d THEN m.buffer + Cardinality(m.records) ELSE 0)
          BY DEF Typed
        <4>2. m.owed[d] \in Nat /\ m.queue[d] \in Nat
          BY <1>1 DEF Dests
        <4> QED
          BY <1>1, <2>2, <2>3, <4>1, <4>2
      <3> QED
        BY <2>1, <2>2, <3>1 DEF Typed
    <2>5. p.assert = "none" => InBulk(p)
      BY <2>2 DEF InBulk
    <2>8. m.buffer # 0
      BY <1>1, <1>3
    <2>6. CASE OnAir(n)
      <3>1. r = Quietly(p)
        BY <1>3, <2>6, <2>8, Zenon DEF NotifyAccessGranted, p
      <3> HIDE DEF r
      <3>2. Sends(m, r, {"data"}) /\ r.mac = p
        BY <2>2, <2>4, <3>1, NoFrameIsNone DEF Quietly, Sends
      <3> QED
        BY <2>5, <3>2 DEF r
    <2>7. CASE ~OnAir(n)
      <3>1. r = SendPacket(p, m.seq)
        BY <1>3, <2>7, <2>8, Zenon DEF NotifyAccessGranted, p
      <3>2. Sends(p, r, {"data"}) /\ (r.mac.assert = "none" => InBulk(r.mac))
        BY <1>1, <2>4, <2>5, <3>1, SendPacketFacts
      <3> HIDE DEF r
      <3>3. Sends(m, r, {"data"})
        BY <2>2, <3>2 DEF Sends, Kept
      <3> QED
        BY <3>2, <3>3 DEF r
    <2> QED
      BY <2>6, <2>7
  <1> QED
    BY <1>1, <1>2, <1>3

\* The buffer is filled with as much of the queue as fits.
LEMMA SetAccessBufferFacts ==
    ASSUME NEW n \in Nodes, NEW m, Typed(m), m.tx.with \in Dests
    PROVE  LET p == SetAccessBuffer(m)
           IN  /\ Typed(p) /\ Kept(m, p) /\ p.assert = m.assert
               /\ p.accessing = m.accessing /\ p.bulk = m.bulk /\ p.ifs = m.ifs
               /\ p.responseTimeout = m.responseTimeout /\ p.ackTimeout = m.ackTimeout
  <1> DEFINE to == m.tx.with
             fit == Min({m.queue[to], m.tx.duration \div CalculateTxDuration(to)})
             p == SetAccessBuffer(m)
  <1>1. /\ m \in MacType /\ m.queue \in [Dests -> Nat] /\ m.owed \in [Nodes -> Nat]
        /\ m.tx.duration \in Nat /\ m.given \in Nat
        /\ m.buffer \in Nat /\ Cardinality(m.records) \in Nat
    <2>1. m \in MacType
      BY DEF Typed
    <2>2. m.tx.duration \in Nat
      BY <2>1, MostPacketsBound, Constants DEF MacType, InfoType, Durations
    <2>3. Cardinality(m.records) \in Nat
      BY <2>1, RecordsCount DEF MacType
    <2> QED
      BY <2>1, <2>2, <2>3, MostPacketsBound DEF MacType
  <1>2. fit \in Nat /\ fit <= m.queue[to]
    <2> DEFINE b == m.tx.duration \div CalculateTxDuration(to)
               S == {m.queue[to], b}
    <2>1. b \in Nat
      BY <1>1, Constants, Quotients
    <2> HIDE DEF b
    <2>2. S \in SUBSET Nat /\ S # {} /\ m.queue[to] \in S
      BY <1>1, <2>1
    <2> HIDE DEF S
    <2>3. Min(S) \in Nat /\ Min(S) <= m.queue[to]
      BY <2>2, LeastNatural
    <2> QED
      BY <2>3 DEF S, b
  <1>3. p = [m EXCEPT !.buffer = fit, !.records = {}, !.to = to, !.queue[to] = @ - fit]
    BY DEF SetAccessBuffer
  <1> HIDE DEF fit, p
  <1>4. /\ p.queue = [m.queue EXCEPT ![to] = @ - fit] /\ p.given = m.given
        /\ p.requests = m.requests /\ p.owed = m.owed /\ p.to = to /\ p.ifs = m.ifs
        /\ p.buffer = fit /\ p.records = {} /\ p.assert = m.assert
        /\ p.accessing = m.accessing /\ p.bulk = m.bulk
        /\ p.responseTimeout = m.responseTimeout /\ p.ackTimeout = m.ackTimeout
        /\ Kept(m, p)
    BY <1>1, <1>3 DEF MacType, Kept
  <1>5. p.queue \in [Dests -> Nat] /\ \A d \in Dests : p.queue[d] <= m.queue[d]
        /\ p.queue[d] = IF d = to THEN m.queue[d] - fit ELSE m.queue[d]
    BY <1>1, <1>2, <1>4
  <1>6. p \in MacType
    <2> DEFINE q == [m.queue EXCEPT ![to] = @ - fit]
    <2>1. p = [m EXCEPT !.buffer = fit, !.records = {}, !.to = to, !.queue = q]
      BY <1>1, <1>3 DEF MacType
    <2>2. q \in [Dests -> Nat] /\ to \in Dests
      BY <1>4, <1>5
    <2> HIDE DEF q, to
    <2> QED
      BY <1>1, <1>2, <2>1, <2>2 DEF MacType
  <1>7. Typed(p)
    <2>1. \A d \in Dests : p.queue[d] <= p.given
      BY <1>1, <1>4, <1>5 DEF Typed
    <2>2. ASSUME NEW d \in Nodes
          PROVE  p.owed[d] >= p.queue[d]
                   + (IF p.to = d THEN p.buffer + Cardinality(p.records) ELSE 0)
      <3>1. m.owed[d] >= m.queue[d]
              + (IF m.to = d THEN m.buffer + Cardinality(m.records) ELSE 0)
        BY DEF Typed
      <3>2. m.owed[d] \in Nat /\ m.queue[d] \in Nat /\ d \in Dests
        BY <1>1 DEF Dests
      <3>3. m.owed[d] >= m.queue[d]
        BY <1>1, <3>1, <3>2
      <3>4. Cardinality(p.records) = 0
        BY <1>4, FS_EmptySet
      <3> QED
        BY <1>2, <1>4, <1>5, <3>2, <3>3, <3>4
    <2> QED
      BY <1>4, <1>6, <2>1, <2>2 DEF Typed
  <1> QED
    BY <1>4, <1>7 DEF p

LEMMA KeptThrough ==
    ASSUME NEW m, NEW p, NEW q, Kept(m, p), Kept(p, q)
    PROVE  Kept(m, q)
  BY DEF Kept

\* A bulk for the group begins with its first packet.
LEMMA SendDataForPacketFacts ==
    ASSUME NEW n \in Nodes, NEW m, Typed(m), m.assert = "none" => Calm(m),
           m.tx.with \in Dests, m.tx.duration >= CalculateTxDuration(m.tx.with)
    PROVE  LET r == SendDataForPacket(n, m)
           IN  /\ Sends(m, r, {"data"})
               /\ r.mac.assert = "none" => InBulk(r.mac)
  <1> DEFINE p == Require(m, ~Running(m.bulk), "SendDataForPacket")
             q == [p EXCEPT !.bulk = m.tx.duration - Sifs]
             s == SetAccessBuffer(q)
             r == SendDataForPacket(n, m)
  <1>1. Typed(p) /\ Kept(m, p) /\ (p.assert = "none" => p = m)
        /\ (p = m \/ p = [m EXCEPT !.assert = "SendDataForPacket"])
    BY RequireFacts DEF Assertions
  <1>2. p \in MacType /\ p.tx = m.tx /\ m \in MacType
    BY <1>1 DEF Typed, MacType
  <1>3. m.tx.duration - Sifs \in Nat
    BY <1>2, MostPacketsBound, Constants DEF MacType, InfoType, Durations
  <1>4. r = NotifyAccessGranted(n, s)
    BY DEF SendDataForPacket
  <1> HIDE DEF p
  <1>5. q \in MacType /\ SameStock(p, q) /\ Kept(p, q) /\ q.ifs = p.ifs /\ q.tx = p.tx
        /\ q.bulk \in Nat /\ q.accessing = p.accessing /\ q.assert = p.assert
        /\ q.responseTimeout = p.responseTimeout /\ q.ackTimeout = p.ackTimeout
    BY <1>2, <1>3 DEF MacType, SameStock, Kept
  <1> HIDE DEF q
  <1>6. Typed(q)
    BY <1>1, <1>5, TypedAgain DEF Typed, HasFunction
  <1>7. q.assert = "none" => InBulk(q)
    BY <1>1, <1>5 DEF InBulk, Kept, Calm, Active, Continues, Running
  <1>8. /\ Typed(s) /\ Kept(q, s) /\ s.assert = q.assert
        /\ s.accessing = q.accessing /\ s.bulk = q.bulk /\ s.ifs = q.ifs
        /\ s.responseTimeout = q.responseTimeout /\ s.ackTimeout = q.ackTimeout
    BY <1>2, <1>5, <1>6, SetAccessBufferFacts
  <1> HIDE DEF s, r
  <1>9. s.assert = "none" => InBulk(s)
    BY <1>7, <1>8 DEF InBulk
  <1>10. Sends(s, r, {"data"}) /\ (r.mac.assert = "none" => InBulk(r.mac))
    BY <1>4, <1>8, <1>9, NotifyAccessGrantedFacts
  <1>11. Kept(m, s)
    BY <1>1, <1>5, <1>8, KeptThrough
  <1>12. Sends(m, r, {"data"})
    BY <1>10, <1>11, KeptThrough DEF Sends
  <1> QED
    BY <1>10, <1>12 DEF r

\* A bulk for a node begins with a request, and the wait for its response.
LEMMA SendBulkRequestForPacketFacts ==
    ASSUME NEW n \in Nodes, NEW m, Typed(m), m.assert = "none" => Calm(m),
           m.tx.with \in Nodes
    PROVE  LET r == SendBulkRequestForPacket(n, m)
           IN  Sends(m, r, {"request"}) /\ Sound(r.mac)
  <1> DEFINE f == Frame("request", m.tx.with, MgtTx, Sifs + MgtTx)
             g == [f EXCEPT !.info = m.tx]
             p == Require(m, ~Running(m.responseTimeout), "StartTxTimers")
             t == MgtTx + Timeout
             q == [p EXCEPT !.responseTimeout = t, !.told = TRUE]
             d == [m EXCEPT !.dropped = TRUE]
             r == SendBulkRequestForPacket(n, m)
  <1>1. m \in MacType /\ m.tx \in InfoType /\ m.tx.with \in {0} \cup Dests
    BY DEF Typed, MacType, Dests
  <1>2. CASE OnAir(n)
    <2>1. r = Quietly(d)
      BY <1>2 DEF SendBulkRequestForPacket
    <2> HIDE DEF p
    <2>2. d \in MacType /\ SameStock(m, d) /\ Kept(m, d) /\ d.ifs = m.ifs
          /\ d.assert = m.assert /\ (Calm(m) => Calm(d))
      <3>1. d \in MacType
        BY <1>1 DEF MacType
      <3>2. /\ d.accessing = m.accessing /\ d.bulk = m.bulk /\ d.ackTimeout = m.ackTimeout
            /\ d.responseTimeout = m.responseTimeout /\ d.ifs = m.ifs /\ d.assert = m.assert
        BY <1>1 DEF MacType
      <3>3. SameStock(m, d) /\ Kept(m, d)
        BY <1>1 DEF MacType, SameStock, Kept
      <3> HIDE DEF d
      <3> QED
        BY <3>1, <3>2, <3>3 DEF Calm, Active, Continues
    <2> HIDE DEF d
    <2>3. Typed(d)
      BY <2>2, TypedAgain DEF Typed, HasFunction
    <2>4. Sends(m, r, {"request"}) /\ r.mac = d
      BY <2>1, <2>2, <2>3, NoFrameIsNone DEF Sends, Quietly
    <2> QED
      BY <2>2, <2>3, <2>4, InBulkIsSound
  <1>3. CASE ~OnAir(n)
    <2>1. FrameOK(f)
      <3>1. MgtTx \in Nat /\ MgtTx > HeadTx /\ Sifs + MgtTx \in Nat
        BY Constants
      <3> QED
        BY <1>1, <3>1, FrameFacts
    <2>2. f.type = "request"
      BY FrameKind
    <2>3. r = [mac |-> q, out |-> g]
      BY <1>3 DEF SendBulkRequestForPacket
    <2>4. Typed(p) /\ Kept(m, p) /\ (p.assert = "none" => p = m)
          /\ (p = m \/ p = [m EXCEPT !.assert = "StartTxTimers"])
      BY RequireFacts DEF Assertions
    <2> HIDE DEF f, p, r
    <2>5. FrameOK(g) /\ g.type = "request"
      BY <1>1, <2>1, <2>2 DEF FrameOK, FrameType
    <2>6. p \in MacType /\ t \in Nat
      BY <2>4, Constants DEF Typed
    <2> HIDE DEF t
    <2>7. q \in MacType /\ SameStock(p, q) /\ Kept(p, q) /\ q.ifs = p.ifs /\ q.tx = p.tx
          /\ q.accessing = p.accessing /\ q.bulk = p.bulk /\ q.ackTimeout = p.ackTimeout
          /\ q.assert = p.assert
      <3>1. q \in MacType
        BY <2>6 DEF MacType
      <3> QED
        BY <2>6, <3>1 DEF MacType, SameStock, Kept
    <2> HIDE DEF q, g
    <2>8. Typed(q) /\ Kept(m, q)
      BY <2>4, <2>7, TypedAgain, KeptThrough DEF Typed, HasFunction
    <2>9. q.assert = "none" => Phases(q) /\ Scheduled(q)
      BY <2>4, <2>7 DEF Calm, Kept, Phases, Scheduled, Active, Continues
    <2>10. r.mac = q /\ r.out = g
      BY <2>3
    <2> QED
      BY <2>5, <2>8, <2>9, <2>10 DEF Sends, Sound, r
  <1> QED
    BY <1>2, <1>3

\* Where the timers of two states of a MAC agree.
SameTimers(m, p) ==
    /\ p.bulk = m.bulk /\ p.ifs = m.ifs /\ p.tx = m.tx
    /\ p.responseTimeout = m.responseTimeout /\ p.ackTimeout = m.ackTimeout

LEMMA StartAccessIfNeedFacts ==
    ASSUME NEW m, Typed(m)
    PROVE  LET p == StartAccessIfNeed(m)
           IN  /\ Typed(p) /\ Kept(m, p) /\ Scheduled(p) /\ SameTimers(m, p)
               /\ p.accessing = m.accessing /\ p.assert = m.assert
  <1> DEFINE p == StartAccessIfNeed(m)
             q == [m EXCEPT !.request = "bulk"]
  <1>1. m \in MacType
    BY DEF Typed
  <1>2. q \in MacType /\ SameStock(m, q) /\ Kept(m, q) /\ SameTimers(m, q)
        /\ q.accessing = m.accessing /\ q.assert = m.assert /\ q.request = "bulk"
    BY <1>1 DEF MacType, SameStock, Kept, SameTimers
  <1>3. m.request \in {"none", "bulk", "beacon"}
    BY <1>1 DEF MacType
  <1> HIDE DEF q
  <1>4. Typed(q) /\ Scheduled(q)
    BY <1>2, TypedAgain DEF Typed, HasFunction, SameTimers, Scheduled
  <1>5. CASE ~m.accessing /\ HasAnyAccessRequest(m) /\ m.request = "none"
    <2>1. p = q
      BY <1>5 DEF StartAccessIfNeed, q
    <2> HIDE DEF p
    <2> QED
      BY <1>2, <1>4, <2>1 DEF p
  <1>6. CASE ~(~m.accessing /\ HasAnyAccessRequest(m) /\ m.request = "none")
    <2>1. p = m
      BY <1>6 DEF StartAccessIfNeed
    <2>2. Scheduled(m) /\ Kept(m, m) /\ SameTimers(m, m)
      BY <1>6 DEF Scheduled, Kept, SameTimers
    <2> HIDE DEF p
    <2> QED
      BY <2>1, <2>2 DEF p
  <1> QED
    BY <1>5, <1>6

LEMMA EndChannelAccessFacts ==
    ASSUME NEW m, Typed(m)
    PROVE  LET p == EndChannelAccess(m)
           IN  /\ Typed(p) /\ Kept(m, p) /\ SameStock(m, p) /\ SameTimers(m, p)
               /\ ~p.accessing /\ (p.assert = "none" => m.accessing)
  <1> DEFINE q == Require(m, m.accessing, "EndChannelAccess")
             p == EndChannelAccess(m)
  <1>1. Typed(q) /\ Kept(m, q) /\ (q.assert = "none" => m.accessing /\ q = m)
        /\ (q = m \/ q = [m EXCEPT !.assert = "EndChannelAccess"])
    BY RequireFacts DEF Assertions
  <1>2. p = [q EXCEPT !.accessing = FALSE]
    BY DEF EndChannelAccess
  <1>3. q \in MacType /\ m \in MacType
    BY <1>1 DEF Typed
  <1>4. SameStock(m, q) /\ SameTimers(m, q)
    BY <1>1, <1>3 DEF MacType, SameStock, SameTimers
  <1> HIDE DEF q, p
  <1>5. p \in MacType /\ SameStock(q, p) /\ Kept(q, p) /\ SameTimers(q, p)
        /\ ~p.accessing /\ p.assert = q.assert
    BY <1>2, <1>3 DEF MacType, SameStock, Kept, SameTimers
  <1>6. Typed(p)
    BY <1>1, <1>5, TypedAgain DEF Typed, HasFunction, SameTimers
  <1> QED
    BY <1>1, <1>4, <1>5, <1>6, KeptThrough DEF p, SameStock, SameTimers

LEMMA StartChannelAccessFacts ==
    ASSUME NEW m, Typed(m)
    PROVE  LET p == StartChannelAccess(m)
           IN  /\ Typed(p) /\ Kept(m, p) /\ SameStock(m, p) /\ SameTimers(m, p)
               /\ p.accessing /\ (p.assert = "none" => ~m.accessing)
  <1> DEFINE q == Require(m, ~m.accessing, "StartChannelAccess")
             p == StartChannelAccess(m)
  <1>1. Typed(q) /\ Kept(m, q) /\ (q.assert = "none" => ~m.accessing /\ q = m)
        /\ (q = m \/ q = [m EXCEPT !.assert = "StartChannelAccess"])
    BY RequireFacts DEF Assertions
  <1>2. p = [q EXCEPT !.accessing = TRUE]
    BY DEF StartChannelAccess
  <1>3. q \in MacType /\ m \in MacType
    BY <1>1 DEF Typed
  <1>4. SameStock(m, q) /\ SameTimers(m, q)
    BY <1>1, <1>3 DEF MacType, SameStock, SameTimers
  <1> HIDE DEF q, p
  <1>5. p \in MacType /\ SameStock(q, p) /\ Kept(q, p) /\ SameTimers(q, p)
        /\ p.accessing /\ p.assert = q.assert
    BY <1>2, <1>3 DEF MacType, SameStock, Kept, SameTimers
  <1>6. Typed(p)
    BY <1>1, <1>5, TypedAgain DEF Typed, HasFunction, SameTimers
  <1> QED
    BY <1>1, <1>4, <1>5, <1>6, KeptThrough DEF p, SameStock, SameTimers

\* The request for the destination with the least address.
LEMMA FirstRequest ==
    ASSUME NEW R, R # {}, \A r \in R : r.with \in Nat
    PROVE  (CHOOSE r \in R : \A q \in R : r.with <= q.with) \in R
  <1> DEFINE S == {r.with : r \in R}
  <1>1. S \in SUBSET Nat /\ S # {}
    OBVIOUS
  <1>2. \A r \in R : r.with \in S
    OBVIOUS
  <1>3. \A t \in S : \E r \in R : r.with = t
    OBVIOUS
  <1> HIDE DEF S
  <1>4. Min(S) \in S /\ \A t \in S : Min(S) <= t
    BY <1>1, LeastNatural
  <1>5. \E r \in R : \A q \in R : r.with <= q.with
    BY <1>2, <1>3, <1>4
  <1> QED
    BY <1>5, Zenon

LEMMA StartNewBulkAccessFacts ==
    ASSUME NEW n \in Nodes, NEW m0, Typed(m0), m0.assert = "none" => Calm(m0)
    PROVE  LET r == StartNewBulkAccess(n, m0)
           IN  Sends(m0, r, {"data", "request"}) /\ Sound(r.mac)
  <1> DEFINE m == [m0 EXCEPT !.tx = NoInfo]
             r == StartNewBulkAccess(n, m0)
             waiting == Running(m.ackTimeout) \/ Running(m.responseTimeout)
             first == CHOOSE i \in m.requests : \A q \in m.requests : i.with <= q.with
             tx == [first EXCEPT !.start = m.seq]
             requests == m.requests \ {first}
             next == [m EXCEPT !.tx = tx, !.requests = requests]
  <1>1. m0 \in MacType /\ NoInfo \in InfoType
    BY NoInfoType DEF Typed
  <1>2. m \in MacType /\ SameStock(m0, m) /\ Kept(m0, m) /\ m.ifs = m0.ifs
        /\ m.bulk = m0.bulk /\ m.accessing = m0.accessing /\ m.assert = m0.assert
        /\ m.responseTimeout = m0.responseTimeout /\ m.ackTimeout = m0.ackTimeout
    <2>1. m \in MacType
      BY <1>1 DEF MacType
    <2> QED
      BY <1>1, <2>1 DEF MacType, SameStock, Kept
  <1>3. r = CASE waiting -> Quietly(m)
              [] ~waiting /\ m.requests = {} ->
                   Quietly(StartAccessIfNeed(EndChannelAccess(m)))
              [] OTHER -> IF next.tx.with = Group
                          THEN SendDataForPacket(n, next)
                          ELSE SendBulkRequestForPacket(n, next)
    BY DEF StartNewBulkAccess
  <1> HIDE DEF m, r, waiting, first
  <1>4. Typed(m) /\ (m.assert = "none" => Calm(m))
    BY <1>2, TypedAgain DEF Typed, HasFunction, Calm, Active, Continues
  <1>5. CASE waiting
    <2>1. r = Quietly(m)
      BY <1>3, <1>5, Zenon
    <2>2. r.mac = m /\ Sends(m0, r, {"data", "request"})
      BY <1>2, <1>4, <2>1, NoFrameIsNone DEF Quietly, Sends
    <2> QED
      BY <1>4, <2>2, InBulkIsSound DEF r
  <1>6. CASE ~waiting /\ m.requests = {}
    <2> DEFINE p == EndChannelAccess(m)
               q == StartAccessIfNeed(p)
    <2>1. r = Quietly(q)
      BY <1>3, <1>6, Zenon
    <2>2. /\ Typed(p) /\ Kept(m, p) /\ SameTimers(m, p)
          /\ ~p.accessing /\ (p.assert = "none" => m.accessing)
      BY <1>4, EndChannelAccessFacts
    <2> HIDE DEF p
    <2>3. /\ Typed(q) /\ Kept(p, q) /\ Scheduled(q) /\ SameTimers(p, q)
          /\ q.accessing = p.accessing /\ q.assert = p.assert
      BY <2>2, StartAccessIfNeedFacts
    <2> HIDE DEF q
    <2>4. Kept(m0, q)
      BY <1>2, <2>2, <2>3, KeptThrough
    <2>5. q.assert = "none" => Phases(q)
      BY <1>4, <2>2, <2>3 DEF Kept, Calm, Active, Continues, Phases, SameTimers
    <2>6. r.mac = q /\ Sends(m0, r, {"data", "request"})
      BY <2>1, <2>3, <2>4, NoFrameIsNone DEF Quietly, Sends
    <2> QED
      BY <2>3, <2>5, <2>6 DEF Sound, r
  <1>7. CASE ~waiting /\ m.requests # {}
    <2>1. \A i \in m.requests : i \in InfoType /\ i.with \in Dests
                                /\ i.duration >= CalculateTxDuration(i.with)
      BY <1>4 DEF Typed, MacType
    <2>2. first \in m.requests
      <3>1. \A i \in m.requests : i.with \in Nat
        BY <2>1, Constants DEF Dests
      <3> QED
        BY <1>7, <3>1, FirstRequest DEF first
    <2>3. tx \in InfoType /\ tx.with \in Dests /\ tx.duration >= CalculateTxDuration(tx.with)
      <3>1. m.seq \in SequenceNumbers /\ first \in InfoType
        BY <1>2, <2>1, <2>2 DEF MacType
      <3>2. tx.with = first.with /\ tx.duration = first.duration /\ tx \in InfoType
        BY <3>1 DEF InfoType
      <3> QED
        BY <2>1, <2>2, <3>2
    <2>4. requests \in SUBSET InfoType /\ requests \subseteq m.requests
      BY <2>1
    <2> HIDE DEF tx, requests
    <2>5. next \in MacType
      BY <1>2, <2>3, <2>4 DEF MacType
    <2>6. /\ next.queue = m.queue /\ next.given = m.given /\ next.requests = requests
          /\ next.owed = m.owed /\ next.to = m.to /\ next.buffer = m.buffer
          /\ next.records = m.records /\ next.ifs = m.ifs /\ next.tx = tx
          /\ next.bulk = m.bulk /\ next.accessing = m.accessing
          /\ next.assert = m.assert /\ Kept(m, next)
          /\ next.responseTimeout = m.responseTimeout /\ next.ackTimeout = m.ackTimeout
      BY <1>2 DEF MacType, Kept
    <2> HIDE DEF next
    <2>7. Typed(next)
      BY <1>4, <2>4, <2>5, <2>6 DEF Typed
    <2>8. next.assert = "none" => Calm(next)
      BY <1>4, <2>6 DEF Calm, Active, Continues
    <2>9. Kept(m0, next)
      BY <1>2, <2>6, KeptThrough
    <2>10. CASE next.tx.with = Group
      <3> DEFINE s == SendDataForPacket(n, next)
      <3>1. r = s
        BY <1>3, <1>7, <2>10, Zenon
      <3>2. Sends(next, s, {"data"}) /\ (s.mac.assert = "none" => InBulk(s.mac))
        BY <2>3, <2>6, <2>7, <2>8, SendDataForPacketFacts
      <3> HIDE DEF s
      <3>3. Sends(m0, s, {"data", "request"}) /\ Typed(s.mac)
        BY <2>9, <3>2, KeptThrough DEF Sends
      <3>4. Sound(s.mac)
        BY <3>2, <3>3, InBulkIsSound
      <3> QED
        BY <3>1, <3>3, <3>4 DEF r
    <2>11. CASE next.tx.with # Group
      <3> DEFINE s == SendBulkRequestForPacket(n, next)
      <3>1. r = s
        BY <1>3, <1>7, <2>11, Zenon
      <3>2. next.tx.with \in Nodes
        BY <2>3, <2>6, <2>11 DEF Dests
      <3>3. Sends(next, s, {"request"}) /\ Sound(s.mac)
        BY <2>7, <2>8, <3>2, SendBulkRequestForPacketFacts
      <3> HIDE DEF s
      <3>4. Sends(m0, s, {"data", "request"})
        BY <2>9, <3>3, KeptThrough DEF Sends
      <3> QED
        BY <3>1, <3>3, <3>4 DEF r
    <2> QED
      BY <2>10, <2>11
  <1> QED
    BY <1>5, <1>6, <1>7

LEMMA CreateBulkAccessRequestsFacts ==
    ASSUME NEW n \in Nodes, NEW m, Typed(m)
    PROVE  LET p == CreateBulkAccessRequests(m)
           IN  Typed(p) /\ Kept(m, p) /\ SameTimers(m, p) /\ p.accessing = m.accessing
  <1> DEFINE Info(d) == [with |-> d, num |-> m.queue[d], start |-> m.seq,
                         duration |-> m.queue[d] * CalculateTxDuration(d)]
             dests == {d \in Dests : m.queue[d] > 0}
             requests == {Info(d) : d \in dests}
             q == Require(m, dests # {}, "CreateBulkAccessRequests")
             p == CreateBulkAccessRequests(m)
  <1>1. p = [q EXCEPT !.requests = requests]
    BY DEF CreateBulkAccessRequests
  <1>2. Typed(q) /\ Kept(m, q)
        /\ (q = m \/ q = [m EXCEPT !.assert = "CreateBulkAccessRequests"])
    BY RequireFacts DEF Assertions
  <1>3. ASSUME NEW d \in dests
        PROVE  /\ Info(d) \in InfoType /\ Info(d).with \in Dests
               /\ Info(d).duration >= CalculateTxDuration(d)
    <2>1. /\ m.queue[d] \in Nat /\ m.queue[d] > 0 /\ m.given \in 0 .. MostPackets
          /\ m.queue[d] <= m.given /\ m.seq \in SequenceNumbers /\ d \in Dests
      BY DEF Typed, MacType
    <2> DEFINE each == CalculateTxDuration(d)
               x == m.queue[d] * each
               z == MostPackets * each
               y == MostPackets * (Sifs + DataTx)
    <2>2. each \in Nat /\ each <= Sifs + DataTx /\ Sifs + DataTx \in Nat
          /\ MostPackets \in Nat /\ m.queue[d] <= MostPackets
      BY <2>1, MostPacketsBound, Constants
    <2>3. /\ x \in Durations /\ x >= each
          /\ m.queue[d] \in 0 .. MostPackets
      <3> HIDE DEF each
      <3>1. x \in Nat /\ x <= z /\ x >= each
        BY <2>1, <2>2, Products
      <3>2. z \in Nat /\ z <= y /\ y \in Nat
        BY <2>2, Products
      <3>3. Durations = 0 .. y
        BY DEF Durations
      <3> HIDE DEF x, y, z
      <3> QED
        BY <2>1, <2>2, <3>1, <3>2, <3>3
    <2> QED
      BY <2>1, <2>2, <2>3 DEF InfoType
  <1>4. requests \in SUBSET InfoType
        /\ \A i \in requests : i.with \in Dests /\ i.duration >= CalculateTxDuration(i.with)
    BY <1>3
  <1>5. q \in MacType /\ m \in MacType
    BY <1>2 DEF Typed
  <1>6. SameStock(m, q) /\ SameTimers(m, q) /\ q.accessing = m.accessing
    BY <1>2, <1>5 DEF MacType, SameStock, SameTimers
  <1> HIDE DEF q, p, requests
  <1>7. p \in MacType
    BY <1>1, <1>4, <1>5 DEF MacType
  <1>8. /\ p.queue = q.queue /\ p.given = q.given /\ p.requests = requests
        /\ p.owed = q.owed /\ p.to = q.to /\ p.buffer = q.buffer
        /\ p.records = q.records /\ Kept(q, p) /\ SameTimers(q, p)
        /\ p.accessing = q.accessing
    BY <1>1, <1>5 DEF MacType, Kept, SameTimers
  <1>9. Typed(p)
    BY <1>2, <1>4, <1>7, <1>8 DEF Typed, SameTimers
  <1> QED
    BY <1>2, <1>6, <1>8, <1>9, KeptThrough DEF p, SameTimers

LEMMA SendBulkAccessRequestFacts ==
    ASSUME NEW n \in Nodes, NEW m, Typed(m), m.assert = "none" => Phases(m)
    PROVE  LET r == SendBulkAccessRequest(n, m)
           IN  /\ Sends(m, r, {"data", "request"}) /\ Sound(r.mac)
               /\ r.mac.assert = "none" /\ Calm(m) => Calm(r.mac)
  <1> DEFINE r == SendBulkAccessRequest(n, m)
             refused == ~HasAnyAccessRequest(m) \/ m.request # "none" \/ Running(m.bulk)
             c == CreateBulkAccessRequests(m)
             p == StartChannelAccess(c)
  <1>1. r = IF refused THEN Quietly(m)
            ELSE IF p.requests = {} THEN Quietly(p) ELSE StartNewBulkAccess(n, p)
    BY DEF SendBulkAccessRequest
  <1>2. Typed(c) /\ Kept(m, c) /\ SameTimers(m, c) /\ c.accessing = m.accessing
    BY CreateBulkAccessRequestsFacts
  <1> HIDE DEF c
  <1>3. /\ Typed(p) /\ Kept(c, p) /\ SameTimers(c, p)
        /\ p.accessing /\ (p.assert = "none" => ~c.accessing)
    BY <1>2, StartChannelAccessFacts
  <1> HIDE DEF p, r
  <1>4. p.assert = "none" => Calm(p) /\ ~Calm(m)
    BY <1>2, <1>3 DEF Kept, Calm, Phases, Active, Continues, SameTimers
  <1>5. Kept(m, p)
    BY <1>2, <1>3, KeptThrough
  <1>6. CASE refused
    <2>1. r.mac = m /\ Sends(m, r, {"data", "request"})
      BY <1>1, <1>6, NoFrameIsNone DEF Quietly, Sends, Kept
    <2>2. m.assert = "none" => Scheduled(m)
      BY <1>6 DEF Scheduled, Phases, Active
    <2> QED
      BY <2>1, <2>2 DEF Sound, r
  <1>7. CASE ~refused /\ p.requests = {}
    <2>1. r.mac = p /\ Sends(m, r, {"data", "request"})
      BY <1>1, <1>3, <1>5, <1>7, NoFrameIsNone DEF Quietly, Sends
    <2>2. Sound(p)
      BY <1>3, <1>4, InBulkIsSound
    <2> QED
      BY <1>4, <2>1, <2>2 DEF r
  <1>8. CASE ~refused /\ p.requests # {}
    <2> DEFINE s == StartNewBulkAccess(n, p)
    <2>1. r = s
      BY <1>1, <1>8
    <2>2. Sends(p, s, {"data", "request"}) /\ Sound(s.mac)
      BY <1>3, <1>4, StartNewBulkAccessFacts
    <2> HIDE DEF s
    <2>3. Sends(m, s, {"data", "request"}) /\ (s.mac.assert = "none" => p.assert = "none")
      BY <1>5, <2>2, KeptThrough DEF Sends, Kept
    <2> QED
      BY <1>4, <2>1, <2>2, <2>3 DEF r
  <1> QED
    BY <1>6, <1>7, <1>8

---------------------------------------------------------------------------
(* The handlers of a node's own events.                                    *)

\* What a handler leaves: a sound state and a frame, a beacon's access that
\* stays one, what was reported and marked, and at most the acknowledgment of
\* what is marked.
Handled(m, r) ==
    /\ Sound(r.mac) /\ FrameOK(r.out)
    /\ r.mac.assert = "none" /\ (Calm(m) \/ r.out.type = "beacon") => Calm(r.mac)
    /\ r.mac.ok = m.ok /\ r.mac.got = m.got /\ (r.mac.rx = m.rx \/ r.mac.rx = NoInfo)
    /\ r.out.type = "ack" => r.out.to = m.rx.with /\ r.out.got = m.got

LEMMA SentIsHandled ==
    ASSUME NEW m, NEW p, NEW r, Sends(p, r, {"data", "request"}), Kept(m, p), Sound(r.mac),
           r.mac.assert = "none" /\ Calm(m) => Calm(r.mac)
    PROVE  Handled(m, r)
  BY DEF Sends, Kept, Handled

LEMMA QuietIsHandled ==
    ASSUME NEW n \in Nodes, NEW m, NEW p, Kept(m, p), Sound(p),
           p.assert = "none" /\ Calm(m) => Calm(p)
    PROVE  Handled(m, Quietly(p))
  BY NoFrameIsNone DEF Kept, Handled, Quietly

LEMMA ReportsFacts ==
    ASSUME NEW owed \in [Nodes -> Nat], NEW d, NEW more \in Int,
           d \in Nodes => owed[d] + more >= 0
    PROVE  /\ Reports(owed, d, more) \in [Nodes -> Nat]
           /\ \A k \in Nodes : Reports(owed, d, more)[k] =
                                 IF k = d THEN owed[k] + more ELSE owed[k]
  BY DEF Reports

LEMMA QueueHandled ==
    ASSUME NEW n \in Nodes, NEW m, Sound(m), m.given < MaxPackets[n], NEW d \in Dests
    PROVE  LET p == [m EXCEPT !.queue[d] = @ + 1, !.given = @ + 1,
                              !.owed = Reports(@, d, 1)]
           IN  Handled(m, Quietly(StartAccessIfNeed(p)))
  <1> DEFINE queue == [m.queue EXCEPT ![d] = @ + 1]
             given == m.given + 1
             owed == Reports(m.owed, d, 1)
             p == [m EXCEPT !.queue = queue, !.given = given, !.owed = owed]
             q == StartAccessIfNeed(p)
  <1>1. /\ m \in MacType /\ m.queue \in [Dests -> Nat] /\ m.owed \in [Nodes -> Nat]
        /\ m.given \in Nat /\ m.buffer \in Nat /\ Cardinality(m.records) \in Nat
    <2>1. m \in MacType
      BY DEF Sound, Typed
    <2>2. Cardinality(m.records) \in Nat
      BY <2>1, RecordsCount DEF MacType
    <2> QED
      BY <2>1, <2>2, MostPacketsBound DEF MacType
  <1>2. queue \in [Dests -> Nat] /\ given \in 0 .. MostPackets /\ owed \in [Nodes -> Nat]
    BY <1>1, ReportsFacts, MostPacketsBound
  <1>3. \A k \in Dests : queue[k] = IF k = d THEN m.queue[k] + 1 ELSE m.queue[k]
    BY <1>1
  <1>4. \A k \in Nodes : owed[k] = IF k = d THEN m.owed[k] + 1 ELSE m.owed[k]
    BY <1>1, ReportsFacts
  <1>5. given = m.given + 1
    OBVIOUS
  <1> HIDE DEF queue, given, owed
  <1>6. p \in MacType
    BY <1>1, <1>2 DEF MacType
  <1>7. /\ p.queue = queue /\ p.given = given /\ p.owed = owed
        /\ p.requests = m.requests /\ p.to = m.to /\ p.buffer = m.buffer
        /\ p.records = m.records /\ p.accessing = m.accessing /\ p.assert = m.assert
        /\ Kept(m, p) /\ SameTimers(m, p)
    BY <1>1 DEF MacType, Kept, SameTimers
  <1>8. Typed(p)
    <2>1. \A k \in Dests : p.queue[k] <= p.given
      BY <1>1, <1>3, <1>5, <1>7 DEF Sound, Typed
    <2>2. ASSUME NEW k \in Nodes
          PROVE  p.owed[k] >= p.queue[k]
                   + (IF p.to = k THEN p.buffer + Cardinality(p.records) ELSE 0)
      <3>1. m.owed[k] >= m.queue[k]
              + (IF m.to = k THEN m.buffer + Cardinality(m.records) ELSE 0)
        BY DEF Sound, Typed
      <3>2. m.owed[k] \in Nat /\ m.queue[k] \in Nat /\ k \in Dests
        BY <1>1 DEF Dests
      <3>3. p.queue[k] - m.queue[k] = p.owed[k] - m.owed[k]
            /\ p.queue[k] \in Nat /\ p.owed[k] \in Nat
        BY <1>2, <1>3, <1>4, <1>7, <3>2
      <3> QED
        BY <1>1, <1>7, <3>1, <3>2, <3>3
    <2> QED
      BY <1>6, <1>7, <2>1, <2>2 DEF Sound, Typed, SameTimers
  <1> HIDE DEF p
  <1>9. /\ Typed(q) /\ Kept(p, q) /\ Scheduled(q) /\ SameTimers(p, q)
        /\ q.accessing = p.accessing /\ q.assert = p.assert
    BY <1>8, StartAccessIfNeedFacts
  <1> HIDE DEF q
  <1>10. Sound(q) /\ (Calm(m) => Calm(q))
    BY <1>7, <1>9 DEF Sound, Phases, SameTimers, Calm, Active, Continues
  <1>11. Kept(m, q)
    BY <1>7, <1>9, KeptThrough
  <1>12. Handled(m, Quietly(q))
    BY <1>10, <1>11, QuietIsHandled
  <1>13. p = [m EXCEPT !.queue[d] = @ + 1, !.given = @ + 1, !.owed = Reports(@, d, 1)]
    BY <1>1 DEF p, queue, given, owed, MacType
  <1> QED
    BY <1>12, <1>13 DEF q

LEMMA ExpireHandled ==
    ASSUME NEW n \in Nodes, NEW m, Sound(m), NEW d \in Dests,
           m.queue[d] > 0
    PROVE  LET p == [m EXCEPT !.queue[d] = @ - 1, !.expired = @ + 1,
                              !.owed = Reports(@, d, -1)]
           IN  Handled(m, Quietly(p))
  <1> DEFINE queue == [m.queue EXCEPT ![d] = @ - 1]
             expired == m.expired + 1
             owed == Reports(m.owed, d, -1)
             p == [m EXCEPT !.queue = queue, !.expired = expired, !.owed = owed]
  <1>1. /\ m \in MacType /\ m.queue \in [Dests -> Nat] /\ m.owed \in [Nodes -> Nat]
        /\ m.given \in Nat /\ m.buffer \in Nat /\ Cardinality(m.records) \in Nat
        /\ m.expired \in Nat
    <2>1. m \in MacType
      BY DEF Sound, Typed
    <2>2. Cardinality(m.records) \in Nat
      BY <2>1, RecordsCount DEF MacType
    <2> QED
      BY <2>1, <2>2, MostPacketsBound, Constants DEF MacType
  <1>2. d \in Nodes => m.owed[d] + (-1) >= 0
    <2> SUFFICES ASSUME d \in Nodes PROVE m.owed[d] + (-1) >= 0
      OBVIOUS
    <2>1. m.owed[d] >= m.queue[d]
            + (IF m.to = d THEN m.buffer + Cardinality(m.records) ELSE 0)
      BY DEF Sound, Typed
    <2>2. m.owed[d] \in Nat /\ m.queue[d] \in Nat
      BY <1>1
    <2> QED
      BY <1>1, <2>1, <2>2
  <1>3. owed \in [Nodes -> Nat]
        /\ \A k \in Nodes : owed[k] = IF k = d THEN m.owed[k] + (-1) ELSE m.owed[k]
    BY <1>1, <1>2, ReportsFacts
  <1>4. queue \in [Dests -> Nat] /\ expired \in Nat
    BY <1>1, Constants
  <1>5. \A k \in Dests : queue[k] = IF k = d THEN m.queue[k] - 1 ELSE m.queue[k]
    BY <1>1
  <1> HIDE DEF queue, expired, owed
  <1>6. p \in MacType
    BY <1>1, <1>3, <1>4 DEF MacType
  <1>7. /\ p.queue = queue /\ p.given = m.given /\ p.owed = owed
        /\ p.requests = m.requests /\ p.to = m.to /\ p.buffer = m.buffer
        /\ p.records = m.records /\ p.accessing = m.accessing /\ p.assert = m.assert
        /\ p.request = m.request /\ Kept(m, p) /\ SameTimers(m, p)
    BY <1>1 DEF MacType, Kept, SameTimers
  <1>8. Typed(p)
    <2>1. \A k \in Dests : p.queue[k] <= p.given
      <3> SUFFICES ASSUME NEW k \in Dests PROVE p.queue[k] <= p.given
        OBVIOUS
      <3>1. m.queue[k] <= m.given /\ m.queue[k] \in Nat
        BY <1>1 DEF Sound, Typed
      <3> QED
        BY <1>1, <1>5, <1>7, <3>1
    <2>2. ASSUME NEW k \in Nodes
          PROVE  p.owed[k] >= p.queue[k]
                   + (IF p.to = k THEN p.buffer + Cardinality(p.records) ELSE 0)
      <3>1. m.owed[k] >= m.queue[k]
              + (IF m.to = k THEN m.buffer + Cardinality(m.records) ELSE 0)
        BY DEF Sound, Typed
      <3>2. m.owed[k] \in Nat /\ m.queue[k] \in Nat /\ k \in Dests
        BY <1>1 DEF Dests
      <3>3. p.queue[k] - m.queue[k] = p.owed[k] - m.owed[k]
            /\ p.queue[k] \in Nat /\ p.owed[k] \in Nat
        BY <1>3, <1>4, <1>5, <1>7, <3>2
      <3> QED
        BY <1>1, <1>7, <3>1, <3>2, <3>3
    <2> QED
      BY <1>6, <1>7, <2>1, <2>2 DEF Sound, Typed, SameTimers
  <1>9. HasAnyAccessRequest(p) => HasAnyAccessRequest(m)
    <2>1. \A k \in Dests : p.queue[k] > 0 => m.queue[k] > 0
      BY <1>1, <1>5, <1>7
    <2> QED
      BY <1>7, <2>1 DEF HasAnyAccessRequest
  <1> HIDE DEF p
  <1>10. Sound(p) /\ (Calm(m) => Calm(p))
    BY <1>7, <1>8, <1>9 DEF Sound, Phases, SameTimers, Calm, Active, Continues, Scheduled
  <1>11. Handled(m, Quietly(p))
    BY <1>7, <1>10, QuietIsHandled
  <1>12. p = [m EXCEPT !.queue[d] = @ - 1, !.expired = @ + 1, !.owed = Reports(@, d, -1)]
    BY <1>1 DEF p, queue, expired, owed, MacType
  <1> QED
    BY <1>11, <1>12

LEMMA StartBeaconHandled ==
    ASSUME NEW n \in Nodes, NEW m, Sound(m)
    PROVE  LET p == [m EXCEPT !.beaconEvent = FALSE, !.beacons = @ + 1,
                              !.request = "beacon"]
           IN  Handled(m, Quietly(p))
  <1> DEFINE beacons == m.beacons + 1
             p == [m EXCEPT !.beaconEvent = FALSE, !.beacons = beacons,
                            !.request = "beacon"]
  <1>1. m \in MacType
    BY DEF Sound, Typed
  <1>2. beacons \in Nat
    BY <1>1 DEF MacType
  <1> HIDE DEF beacons
  <1>3. p \in MacType
    BY <1>1, <1>2 DEF MacType
  <1>4. SameStock(m, p) /\ Kept(m, p) /\ SameTimers(m, p) /\ p.accessing = m.accessing
        /\ p.request = "beacon" /\ p.assert = m.assert
    BY <1>1 DEF MacType, SameStock, Kept, SameTimers
  <1> HIDE DEF p
  <1>5. Typed(p)
    BY <1>3, <1>4, TypedAgain DEF Sound, Typed, HasFunction, SameTimers
  <1>6. Sound(p) /\ (Calm(m) => Calm(p))
    BY <1>4, <1>5 DEF Sound, Phases, SameTimers, Calm, Active, Continues, Scheduled
  <1>7. Handled(m, Quietly(p))
    BY <1>4, <1>6, QuietIsHandled
  <1> QED
    BY <1>7 DEF p, beacons

LEMMA SendBeaconFacts ==
    ASSUME NEW n \in Nodes, NEW m, Typed(m), m.assert = "none" => Phases(m)
    PROVE  LET r == SendBeacon(n, m)
           IN  /\ Typed(r.mac) /\ Kept(m, r.mac) /\ FrameOK(r.out)
               /\ r.out.type \in {"none", "beacon"}
               /\ r.mac.assert = "none" => Calm(r.mac)
  <1> DEFINE p == StartChannelAccess(m)
             f == Frame("beacon", Group, MgtTx, 0)
             r == SendBeacon(n, m)
  <1>1. Typed(p) /\ Kept(m, p) /\ SameTimers(m, p)
        /\ p.accessing /\ (p.assert = "none" => ~m.accessing)
    BY StartChannelAccessFacts
  <1>2. p.assert = "none" => Calm(p)
    BY <1>1 DEF Kept, Calm, Phases, Active, Continues, SameTimers
  <1>3. FrameOK(f)
    BY Constants, FrameFacts DEF Dests
  <1>4. f.type = "beacon"
    BY FrameKind
  <1>5. r = IF OnAir(n) THEN Quietly(p) ELSE [mac |-> p, out |-> f]
    BY DEF SendBeacon, StartTransmission
  <1> HIDE DEF p, f, r
  <1>6. r.mac = p /\ FrameOK(r.out) /\ r.out.type \in {"none", "beacon"}
    BY <1>3, <1>4, <1>5, NoFrameIsNone DEF Quietly
  <1> QED
    BY <1>1, <1>2, <1>6 DEF r

LEMMA RequestAccessCallbackHandled ==
    ASSUME NEW n \in Nodes, NEW m, Sound(m), m.assert = "none"
    PROVE  LET p == [m EXCEPT !.request = "none"]
           IN  /\ Handled(m, SendBeacon(n, p))
               /\ Handled(m, SendBulkAccessRequest(n, p))
  <1> DEFINE p == [m EXCEPT !.request = "none"]
  <1>1. m \in MacType
    BY DEF Sound, Typed
  <1>2. p \in MacType
    BY <1>1 DEF MacType
  <1>3. SameStock(m, p) /\ Kept(m, p) /\ SameTimers(m, p) /\ p.accessing = m.accessing
    BY <1>1 DEF MacType, SameStock, Kept, SameTimers
  <1> HIDE DEF p
  <1>4. Typed(p)
    BY <1>2, <1>3, TypedAgain DEF Sound, Typed, HasFunction, SameTimers
  <1>5. Phases(p) /\ (Calm(m) => Calm(p))
    BY <1>3 DEF Sound, Phases, SameTimers, Calm, Active, Continues
  <1>6. Handled(m, SendBulkAccessRequest(n, p))
    <2> DEFINE r == SendBulkAccessRequest(n, p)
    <2>1. /\ Sends(p, r, {"data", "request"}) /\ Sound(r.mac)
          /\ r.mac.assert = "none" /\ Calm(p) => Calm(r.mac)
      BY <1>4, <1>5, SendBulkAccessRequestFacts
    <2> HIDE DEF r
    <2>2. Handled(m, r)
      BY <1>3, <1>5, <2>1, SentIsHandled
    <2> QED
      BY <2>2 DEF r
  <1>7. Handled(m, SendBeacon(n, p))
    <2> DEFINE r == SendBeacon(n, p)
    <2>1. /\ Typed(r.mac) /\ Kept(p, r.mac) /\ FrameOK(r.out)
          /\ r.out.type \in {"none", "beacon"} /\ (r.mac.assert = "none" => Calm(r.mac))
      BY <1>4, <1>5, SendBeaconFacts
    <2> HIDE DEF r
    <2>2. Sound(r.mac)
      BY <2>1, InBulkIsSound
    <2>3. Handled(m, r)
      BY <1>3, <2>1, <2>2 DEF Handled, Kept
    <2> QED
      BY <2>3 DEF r
  <1> QED
    BY <1>6, <1>7 DEF p

\* What is due a SIFS after a packet, an answer or a beacon.
LEMMA WaitIfsHandled ==
    ASSUME NEW n \in Nodes, NEW m, Sound(m), m.assert = "none", m.ifs.left = 0
    PROVE  LET p == [m EXCEPT !.ifs = NoEvent]
           IN  Handled(m, CASE m.ifs.run = "WaitIfsAfterEndTxPacket"
                                 -> WaitIfsAfterEndTxPacket(n, p)
                            [] m.ifs.run = "StartNewBulkAccess" -> StartNewBulkAccess(n, p)
                            [] m.ifs.run = "SendBulkAccessRequest"
                                 -> SendBulkAccessRequest(n, p))
  <1> DEFINE p == [m EXCEPT !.ifs = NoEvent]
             r == CASE m.ifs.run = "WaitIfsAfterEndTxPacket"
                         -> WaitIfsAfterEndTxPacket(n, p)
                    [] m.ifs.run = "StartNewBulkAccess" -> StartNewBulkAccess(n, p)
                    [] m.ifs.run = "SendBulkAccessRequest"
                         -> SendBulkAccessRequest(n, p)
  <1>1. m \in MacType /\ Phases(m)
        /\ m.ifs.run \in {"WaitIfsAfterEndTxPacket", "StartNewBulkAccess",
                          "SendBulkAccessRequest"}
    BY DEF Sound, Typed, Running
  <1>2. p \in MacType
    <2>1. NoEvent \in EventType
      BY EventTypes
    <2> QED
      BY <1>1, <2>1 DEF MacType
  <1>3. /\ SameStock(m, p) /\ Kept(m, p) /\ p.ifs = NoEvent /\ p.tx = m.tx
        /\ p.accessing = m.accessing /\ p.assert = m.assert /\ p.bulk = m.bulk
        /\ p.responseTimeout = m.responseTimeout /\ p.ackTimeout = m.ackTimeout
    BY <1>1 DEF MacType, SameStock, Kept
  <1> HIDE DEF p
  <1>4. Typed(p)
    BY <1>2, <1>3, EventTypes, TypedAgain DEF Sound
  <1>5. p.ifs.run = "none"
    BY <1>3, EventTypes
  <1>6. CASE m.ifs.run = "WaitIfsAfterEndTxPacket"
    <2>1. r = IF Running(p.bulk) THEN NotifyAccessGranted(n, p) ELSE Quietly(p)
      BY <1>6 DEF WaitIfsAfterEndTxPacket
    <2>2. ~Calm(m) /\ p.accessing
      BY <1>1, <1>3, <1>6 DEF Calm, Phases, Active, Continues
    <2>3. Phases(p)
      BY <1>1, <1>3, <1>5, <2>2 DEF Phases
    <2>4. CASE Running(p.bulk)
      <3> DEFINE s == NotifyAccessGranted(n, p)
      <3>1. InBulk(p)
        BY <1>5, <2>2, <2>3, <2>4 DEF InBulk, Phases
      <3>2. Sends(p, s, {"data"}) /\ (s.mac.assert = "none" => InBulk(s.mac))
        BY <1>4, <3>1, NotifyAccessGrantedFacts
      <3> HIDE DEF s
      <3>3. Sends(p, s, {"data", "request"}) /\ Sound(s.mac)
        BY <3>2, InBulkIsSound DEF Sends
      <3>4. Handled(m, s)
        BY <1>3, <2>2, <3>3, SentIsHandled
      <3> QED
        BY <2>1, <2>4, <3>4 DEF p, s
    <2>5. CASE ~Running(p.bulk)
      <3>1. Sound(p)
        BY <1>4, <2>2, <2>3 DEF Sound, Scheduled
      <3>2. Handled(m, Quietly(p))
        BY <1>3, <2>2, <3>1, QuietIsHandled
      <3> QED
        BY <2>1, <2>5, <3>2 DEF p
    <2> QED
      BY <2>4, <2>5
  <1>7. CASE m.ifs.run = "StartNewBulkAccess"
    <2> DEFINE s == StartNewBulkAccess(n, p)
    <2>1. r = s
      BY <1>7
    <2>2. ~Calm(m) /\ Calm(p)
      BY <1>1, <1>3, <1>5, <1>7 DEF Calm, Phases, Active, Continues
    <2>3. Sends(p, s, {"data", "request"}) /\ Sound(s.mac)
      BY <1>4, <2>2, StartNewBulkAccessFacts
    <2> HIDE DEF s
    <2>4. Handled(m, s)
      BY <1>3, <2>2, <2>3, SentIsHandled
    <2> QED
      BY <2>1, <2>4 DEF p
  <1>8. CASE m.ifs.run = "SendBulkAccessRequest"
    <2> DEFINE s == SendBulkAccessRequest(n, p)
    <2>1. r = s
      BY <1>8
    <2>2. Phases(p) /\ (Calm(m) => Calm(p))
      BY <1>1, <1>3, <1>5, <1>8 DEF Phases, Calm, Active, Continues
    <2>3. /\ Sends(p, s, {"data", "request"}) /\ Sound(s.mac)
          /\ s.mac.assert = "none" /\ Calm(p) => Calm(s.mac)
      BY <1>4, <2>2, SendBulkAccessRequestFacts
    <2> HIDE DEF s
    <2>4. Handled(m, s)
      BY <1>3, <2>2, <2>3, SentIsHandled
    <2> QED
      BY <2>1, <2>4 DEF p
  <1> QED
    BY <1>1, <1>6, <1>7, <1>8

\* A change that touches neither packets nor what an access waits for.
LEMMA AsBefore ==
    ASSUME NEW m, NEW p, Sound(m), p \in MacType, SameStock(m, p), SameTimers(m, p),
           p.accessing = m.accessing, p.request = m.request, p.assert = m.assert
    PROVE  Sound(p) /\ (Calm(m) => Calm(p))
  <1>1. Typed(p)
    BY TypedAgain DEF Sound, Typed, HasFunction, SameTimers
  <1>2. HasAnyAccessRequest(p) = HasAnyAccessRequest(m)
    BY DEF HasAnyAccessRequest, SameStock
  <1> QED
    BY <1>1, <1>2 DEF Sound, Phases, SameTimers, Calm, Active, Continues, Scheduled

LEMMA RespondHandled ==
    ASSUME NEW n \in Nodes, NEW m, Sound(m)
    PROVE  Handled(m, SendBulkResponseAfterRequest(n, [m EXCEPT !.response = -1]))
  <1> DEFINE p == [m EXCEPT !.response = -1]
             nav == p.rx.duration + Sifs + MgtTx
             f == Frame("response", p.rx.with, MgtTx, nav)
             r == SendBulkResponseAfterRequest(n, p)
  <1>1. m \in MacType
    BY DEF Sound, Typed
  <1>2. p \in MacType
    BY <1>1 DEF MacType
  <1>3. /\ SameStock(m, p) /\ Kept(m, p) /\ SameTimers(m, p)
        /\ p.accessing = m.accessing /\ p.request = m.request /\ p.assert = m.assert
    BY <1>1 DEF MacType, SameStock, Kept, SameTimers
  <1> HIDE DEF p
  <1>4. Sound(p) /\ (Calm(m) => Calm(p))
    BY <1>2, <1>3, AsBefore
  <1>5. nav \in Nat /\ p.rx.with \in {0} \cup Dests
    BY <1>2, MostPacketsBound, Constants DEF MacType, InfoType, Durations
  <1>6. r = IF OnAir(n) THEN Quietly(p) ELSE [mac |-> p, out |-> f]
    BY DEF SendBulkResponseAfterRequest, StartTransmission
  <1> HIDE DEF nav, r
  <1>7. FrameOK(f)
    <2>1. MgtTx \in Nat /\ MgtTx > HeadTx
      BY Constants
    <2> QED
      BY <1>5, <2>1, FrameFacts
  <1>8. f.type = "response"
    BY FrameKind
  <1> HIDE DEF f
  <1>9. r.mac = p /\ FrameOK(r.out) /\ r.out.type \in {"none", "response"}
    BY <1>6, <1>7, <1>8, NoFrameIsNone DEF Quietly
  <1>10. Handled(m, r)
    BY <1>3, <1>4, <1>9 DEF Handled, Kept
  <1> QED
    BY <1>10 DEF r, p

LEMMA AcknowledgeHandled ==
    ASSUME NEW n \in Nodes, NEW m, Sound(m)
    PROVE  LET p == [m EXCEPT !.sendAck = NoEvent]
           IN  Handled(m, SendAckAfterData(n, p)) /\ Handled(m, ReadySendAckAfterData(n, p))
  <1> DEFINE p == [m EXCEPT !.sendAck = NoEvent]
             f == Frame("ack", p.rx.with, MgtTx, 0)
             g == [f EXCEPT !.got = p.got]
             q == Require(p, p.rx # NoInfo, "SendAckAfterData")
             s == [q EXCEPT !.rx = NoInfo]
             r == SendAckAfterData(n, p)
  <1>1. m \in MacType /\ NoEvent \in EventType
    BY EventTypes DEF Sound, Typed
  <1>2. p \in MacType
    BY <1>1 DEF MacType
  <1>3. /\ SameStock(m, p) /\ Kept(m, p) /\ SameTimers(m, p)
        /\ p.accessing = m.accessing /\ p.request = m.request /\ p.assert = m.assert
    BY <1>1 DEF MacType, SameStock, Kept, SameTimers
  <1> HIDE DEF p
  <1>4. Sound(p) /\ (Calm(m) => Calm(p))
    BY <1>2, <1>3, AsBefore
  <1>5. /\ Typed(q) /\ Kept(p, q) /\ (q.assert = "none" => q = p)
    BY <1>4, RequireFacts DEF Sound, Assertions
  <1>6. r = IF OnAir(n) THEN Quietly(s) ELSE [mac |-> s, out |-> g]
    BY DEF SendAckAfterData, StartTransmission
  <1> HIDE DEF q, r
  <1>7. Sound(s) /\ (s.assert = "none" /\ Calm(m) => Calm(s))
        /\ s.ok = m.ok /\ s.got = m.got /\ s.rx = NoInfo
    <2>1. q \in MacType /\ NoInfo \in InfoType
      BY <1>5, NoInfoType DEF Typed
    <2>2. s \in MacType
      BY <2>1 DEF MacType
    <2>3. /\ SameStock(q, s) /\ SameTimers(q, s) /\ s.accessing = q.accessing
          /\ s.request = q.request /\ s.assert = q.assert
          /\ s.ok = q.ok /\ s.got = q.got /\ s.rx = NoInfo
      BY <2>1 DEF MacType, SameStock, SameTimers
    <2> HIDE DEF s
    <2>4. Sound(q)
      BY <1>4, <1>5 DEF Sound, Typed
    <2>5. Sound(s) /\ (Calm(q) => Calm(s))
      BY <2>2, <2>3, <2>4, AsBefore
    <2> QED
      BY <1>3, <1>4, <1>5, <2>3, <2>5 DEF Kept
  <1>8. FrameOK(f)
    <2>1. MgtTx \in Nat /\ MgtTx > HeadTx /\ 0 \in Nat /\ p.rx.with \in {0} \cup Dests
      BY <1>2, Constants DEF MacType, InfoType
    <2> QED
      BY <2>1, FrameFacts
  <1>9. f.type = "ack" /\ f.to = p.rx.with
    BY FrameKind
  <1> HIDE DEF f
  <1>10. FrameOK(g) /\ g.type = "ack" /\ g.to = m.rx.with /\ g.got = m.got
    <2>1. p.got \in SUBSET SequenceNumbers /\ p.got = m.got /\ p.rx = m.rx
      BY <1>2, <1>3 DEF MacType, Kept
    <2> QED
      BY <1>8, <1>9, <2>1 DEF FrameOK, FrameType
  <1> HIDE DEF g, s
  <1>11. Handled(m, r)
    <2>1. CASE OnAir(n)
      <3>1. r.mac = s /\ r.out = NoFrame
        BY <1>6, <2>1 DEF Quietly
      <3> QED
        BY <1>7, <3>1, NoFrameIsNone DEF Handled
    <2>2. CASE ~OnAir(n)
      <3>1. r.mac = s /\ r.out = g
        BY <1>6, <2>2
      <3> QED
        BY <1>7, <1>10, <3>1 DEF Handled
    <2> QED
      BY <2>1, <2>2
  <1>12. Handled(m, Quietly(p))
    BY <1>3, <1>4, QuietIsHandled
  <1>13. ReadySendAckAfterData(n, p) = IF OnAir(n) THEN Quietly(p) ELSE r
    BY DEF ReadySendAckAfterData, r
  <1>14. Handled(m, ReadySendAckAfterData(n, p))
    BY <1>11, <1>12, <1>13
  <1> QED
    BY <1>11, <1>14 DEF r, p

---------------------------------------------------------------------------
(* The end of a bulk, and missed answers.                                  *)

\* An access between two destinations, or before the first.
Between(m) ==
    /\ m.accessing
    /\ ~Running(m.bulk) /\ ~Running(m.responseTimeout) /\ ~Running(m.ackTimeout)

LEMMA NextAfterIfsFacts ==
    ASSUME NEW m, Typed(m), m.assert = "none" => Between(m),
           NEW name \in Assertions, name # "none"
    PROVE  LET p == NextAfterIfs(m, name)
           IN  Sound(p) /\ Kept(m, p)
  <1> DEFINE q == Require(m, ~Running(m.ifs.left), name)
             e == After(Sifs, "StartNewBulkAccess")
             p == NextAfterIfs(m, name)
  <1>1. Typed(q) /\ Kept(m, q) /\ (q.assert = "none" => q = m)
    BY RequireFacts
  <1>2. e \in EventType /\ HasFunction(e) /\ e.run = "StartNewBulkAccess"
    BY EventTypes, Constants
  <1>3. q \in MacType
    BY <1>1 DEF Typed
  <1>4. p = [q EXCEPT !.ifs = e]
    BY DEF NextAfterIfs
  <1> HIDE DEF q, p, e
  <1>5. p \in MacType
    BY <1>2, <1>3, <1>4 DEF MacType
  <1>6. /\ SameStock(q, p) /\ Kept(q, p) /\ p.ifs = e /\ p.assert = q.assert
        /\ p.accessing = q.accessing /\ p.bulk = q.bulk
        /\ p.responseTimeout = q.responseTimeout /\ p.ackTimeout = q.ackTimeout
    BY <1>3, <1>4 DEF MacType, SameStock, Kept
  <1>7. Typed(p) /\ Kept(m, p)
    BY <1>1, <1>2, <1>5, <1>6, TypedAgain, KeptThrough
  <1>8. p.assert = "none" => Between(p)
    BY <1>1, <1>6 DEF Between, Kept
  <1>9. Sound(p)
    BY <1>2, <1>6, <1>7, <1>8 DEF Sound, Between, Phases, Active, Scheduled
  <1> QED
    BY <1>7, <1>9 DEF p

\* No more is reported than is owed.
LEMMA ReportedFacts ==
    ASSUME NEW m, Typed(m)
    PROVE  LET p == Reported(m)
           IN  /\ Typed(p) /\ Kept(m, p) /\ SameTimers(m, p) /\ p.assert = m.assert
               /\ p.accessing = m.accessing
  <1> DEFINE owed == Reports(m.owed, m.to, -Cardinality(m.records))
             p == Reported(m)
  <1>1. m \in MacType /\ Cardinality(m.records) \in Nat /\ m.buffer \in Nat
        /\ m.queue \in [Dests -> Nat] /\ m.owed \in [Nodes -> Nat]
    BY RecordsCount DEF Typed, MacType
  <1>2. m.to \in Nodes => m.owed[m.to] >= m.queue[m.to] + (m.buffer + Cardinality(m.records))
    BY DEF Typed
  <1>3. m.to \in Nodes => m.owed[m.to] + (-Cardinality(m.records)) >= 0
    BY <1>1, <1>2 DEF Dests
  <1>4. owed \in [Nodes -> Nat]
        /\ \A k \in Nodes : owed[k] = IF k = m.to THEN m.owed[k] + (-Cardinality(m.records))
                                      ELSE m.owed[k]
    BY <1>1, <1>3, ReportsFacts
  <1>5. p = [m EXCEPT !.records = {}, !.owed = owed]
    BY <1>1 DEF Reported, MacType
  <1> HIDE DEF owed, p
  <1>6. p \in MacType
    BY <1>1, <1>4, <1>5 DEF MacType
  <1>7. /\ p.records = {} /\ p.owed = owed /\ p.queue = m.queue /\ p.given = m.given
        /\ p.requests = m.requests /\ p.to = m.to /\ p.buffer = m.buffer
        /\ Kept(m, p) /\ SameTimers(m, p) /\ p.assert = m.assert
        /\ p.accessing = m.accessing
    BY <1>1, <1>5 DEF MacType, Kept, SameTimers
  <1>8. ASSUME NEW d \in Nodes
        PROVE  p.owed[d] >= p.queue[d]
                 + (IF p.to = d THEN p.buffer + Cardinality(p.records) ELSE 0)
    <2>1. Cardinality(p.records) = 0
      BY <1>7, FS_EmptySet
    <2>2. m.owed[d] >= m.queue[d]
            + (IF m.to = d THEN m.buffer + Cardinality(m.records) ELSE 0)
      BY DEF Typed
    <2>3. m.owed[d] \in Nat /\ m.queue[d] \in Nat
      BY <1>1 DEF Dests
    <2> QED
      BY <1>1, <1>4, <1>7, <2>1, <2>2, <2>3
  <1>9. Typed(p)
    BY <1>6, <1>7, <1>8 DEF Typed, SameTimers
  <1> QED
    BY <1>7, <1>9 DEF p

\* Timers and what the manager knows of them.
LEMMA TimerTypes ==
    ASSUME NEW m \in MacType
    PROVE  /\ \A b \in BOOLEAN : [m EXCEPT !.told = b] \in MacType
           /\ \A t \in {-1} \cup Nat :
                /\ [m EXCEPT !.responseTimeout = t] \in MacType
                /\ [m EXCEPT !.ackTimeout = t] \in MacType
  BY DEF MacType

LEMMA BulkEndsHandled ==
    ASSUME NEW n \in Nodes, NEW m, Sound(m), m.assert = "none", m.bulk = 0
    PROVE  Handled(m, Quietly(EndBulkAccess([m EXCEPT !.bulk = -1])))
  <1> DEFINE p == [m EXCEPT !.bulk = -1]
             r == EndBulkAccess(p)
  <1>1. m \in MacType /\ Phases(m)
    BY DEF Sound, Typed
  <1>2. p \in MacType
    BY <1>1 DEF MacType
  <1>3. /\ SameStock(m, p) /\ Kept(m, p) /\ p.bulk = -1 /\ p.ifs = m.ifs
        /\ p.accessing = m.accessing /\ p.assert = m.assert
        /\ p.responseTimeout = m.responseTimeout /\ p.ackTimeout = m.ackTimeout
    BY <1>1 DEF MacType, SameStock, Kept
  <1>4. Between(p) /\ ~Calm(m) /\ p.ifs.run # "StartNewBulkAccess"
    BY <1>1, <1>3 DEF Phases, Between, Calm, Active, Running
  <1> HIDE DEF p
  <1>5. Typed(p)
    BY <1>2, <1>3, TypedAgain DEF Sound, Typed, HasFunction
  <1>6. CASE p.tx.with = Group
    <2> DEFINE e == After(Sifs, "StartNewBulkAccess")
    <2>1. e \in EventType /\ HasFunction(e) /\ e.run = "StartNewBulkAccess"
      BY EventTypes, Constants
    <2>2. r = [p EXCEPT !.ifs = e]
      BY <1>6 DEF EndBulkAccess
    <2> HIDE DEF e, r
    <2>3. r \in MacType
      BY <1>2, <2>1, <2>2 DEF MacType
    <2>4. /\ SameStock(p, r) /\ Kept(p, r) /\ r.ifs = e
          /\ r.accessing = p.accessing /\ r.bulk = p.bulk
          /\ r.responseTimeout = p.responseTimeout /\ r.ackTimeout = p.ackTimeout
      BY <1>2, <2>2 DEF MacType, SameStock, Kept
    <2>5. Typed(r)
      BY <1>5, <2>1, <2>3, <2>4, TypedAgain
    <2>6. Sound(r)
      BY <1>4, <2>1, <2>4, <2>5 DEF Sound, Between, Phases, Active, Scheduled
    <2>7. Kept(m, r)
      BY <1>3, <2>4, KeptThrough
    <2>8. Handled(m, Quietly(r))
      BY <1>4, <2>6, <2>7, QuietIsHandled
    <2> QED
      BY <2>8 DEF r, p
  <1>7. CASE p.tx.with # Group
    <2> DEFINE q == Require(p, p.tx # NoInfo, "EndBulkAccess")
    <2>1. Typed(q) /\ Kept(p, q) /\ (q.assert = "none" => q = p)
      BY <1>5, RequireFacts DEF Assertions
    <2>2. r = [q EXCEPT !.ackTimeout = Timeout, !.told = TRUE]
      BY <1>7 DEF EndBulkAccess
    <2> HIDE DEF q, r
    <2>3. q \in MacType
      BY <2>1 DEF Typed
    <2>4. r \in MacType
      <3> DEFINE t == Timeout
                 s == [q EXCEPT !.told = TRUE]
                 u == [s EXCEPT !.ackTimeout = t]
      <3>1. t \in Nat
        BY Constants
      <3>2. r = u
        BY <2>2
      <3>3. s \in MacType
        BY <2>3, TimerTypes
      <3> HIDE DEF t, s
      <3>4. u \in MacType
        BY <3>1, <3>3 DEF MacType
      <3> HIDE DEF u
      <3> QED
        BY <3>2, <3>4
    <2>5. /\ SameStock(q, r) /\ Kept(q, r) /\ r.ifs = q.ifs /\ r.ackTimeout = Timeout
          /\ r.accessing = q.accessing /\ r.bulk = q.bulk
          /\ r.responseTimeout = q.responseTimeout /\ r.assert = q.assert
      BY <2>2, <2>3 DEF MacType, SameStock, Kept
    <2>6. Typed(r)
      BY <2>1, <2>4, <2>5, TypedAgain DEF Typed, HasFunction
    <2>7. Sound(r)
      BY <1>4, <2>1, <2>5, <2>6 DEF Sound, Between, Phases, Active, Scheduled
    <2>8. Kept(m, r)
      BY <1>3, <2>1, <2>5, KeptThrough
    <2>9. Handled(m, Quietly(r))
      BY <1>4, <2>7, <2>8, QuietIsHandled
    <2> QED
      BY <2>9 DEF r, p
  <1> QED
    BY <1>6, <1>7

LEMMA ResponseMissedHandled ==
    ASSUME NEW n \in Nodes, NEW m, Sound(m), m.assert = "none", m.responseTimeout = 0
    PROVE  Handled(m, Quietly(BulkTimeout([m EXCEPT !.responseTimeout = -1])))
  <1> DEFINE p == [m EXCEPT !.responseTimeout = -1]
             q == [p EXCEPT !.buffer = 0, !.records = {}]
             r == NextAfterIfs(q, "BulkTimeout")
  <1>1. m \in MacType /\ Phases(m) /\ m.buffer \in Nat /\ Cardinality(m.records) \in Nat
        /\ m.queue \in [Dests -> Nat] /\ m.owed \in [Nodes -> Nat]
    BY RecordsCount DEF Sound, Typed, MacType
  <1>2. p \in MacType
    BY <1>1 DEF MacType
  <1>3. q \in MacType
    <2> DEFINE s == [p EXCEPT !.buffer = 0]
    <2>1. q = [s EXCEPT !.records = {}]
      OBVIOUS
    <2> HIDE DEF p, q
    <2>2. s \in MacType
      BY <1>2 DEF MacType
    <2> HIDE DEF s
    <2> QED
      BY <2>1, <2>2 DEF MacType
  <1>4. /\ Kept(m, q) /\ q.bulk = m.bulk /\ q.ifs = m.ifs /\ q.responseTimeout = -1
        /\ q.accessing = m.accessing /\ q.assert = m.assert
        /\ q.ackTimeout = m.ackTimeout
        /\ q.queue = m.queue /\ q.given = m.given /\ q.requests = m.requests
        /\ q.owed = m.owed /\ q.to = m.to /\ q.buffer = 0 /\ q.records = {}
    BY <1>1 DEF MacType, Kept
  <1>5. r = BulkTimeout(p)
    BY DEF BulkTimeout
  <1> HIDE DEF q, p
  <1>6. Between(q) /\ ~Calm(m)
    BY <1>1, <1>4 DEF Phases, Between, Calm, Active, Running
  <1>7. ASSUME NEW d \in Nodes
        PROVE  q.owed[d] >= q.queue[d]
                 + (IF q.to = d THEN q.buffer + Cardinality(q.records) ELSE 0)
    <2>1. Cardinality(q.records) = 0
      BY <1>4, FS_EmptySet
    <2>2. m.owed[d] >= m.queue[d]
            + (IF m.to = d THEN m.buffer + Cardinality(m.records) ELSE 0)
      BY DEF Sound, Typed
    <2>3. m.owed[d] \in Nat /\ m.queue[d] \in Nat
      BY <1>1 DEF Dests
    <2> QED
      BY <1>1, <1>4, <2>1, <2>2, <2>3
  <1>8. Typed(q)
    BY <1>3, <1>4, <1>7 DEF Sound, Typed
  <1>9. Sound(r) /\ Kept(q, r)
    BY <1>6, <1>8, NextAfterIfsFacts DEF Assertions
  <1> HIDE DEF r
  <1>10. Kept(m, r)
    BY <1>4, <1>9, KeptThrough
  <1>11. Handled(m, Quietly(r))
    BY <1>6, <1>9, <1>10, QuietIsHandled
  <1> QED
    BY <1>5, <1>11 DEF p

LEMMA AckMissedHandled ==
    ASSUME NEW n \in Nodes, NEW m, Sound(m), m.assert = "none", m.ackTimeout = 0
    PROVE  Handled(m, Quietly(BulkAckTimeout([m EXCEPT !.ackTimeout = -1])))
  <1> DEFINE p == [m EXCEPT !.ackTimeout = -1]
             q == Reported(p)
             r == NextAfterIfs(q, "BulkAckTimeout")
  <1>1. m \in MacType /\ Phases(m)
    BY DEF Sound, Typed
  <1>2. p \in MacType
    BY <1>1 DEF MacType
  <1>3. /\ SameStock(m, p) /\ Kept(m, p) /\ p.ackTimeout = -1 /\ p.ifs = m.ifs
        /\ p.accessing = m.accessing /\ p.assert = m.assert
        /\ p.responseTimeout = m.responseTimeout /\ p.bulk = m.bulk
    BY <1>1 DEF MacType, SameStock, Kept
  <1>4. Between(p) /\ ~Calm(m)
    BY <1>1, <1>3 DEF Phases, Between, Calm, Active, Running
  <1>5. r = BulkAckTimeout(p)
    BY DEF BulkAckTimeout
  <1> HIDE DEF p
  <1>6. Typed(p)
    BY <1>2, <1>3, TypedAgain DEF Sound, Typed, HasFunction
  <1>7. Typed(q) /\ Kept(p, q) /\ Between(q)
    BY <1>4, <1>6, ReportedFacts DEF Between, SameTimers
  <1> HIDE DEF q
  <1>8. Sound(r) /\ Kept(q, r)
    BY <1>7, NextAfterIfsFacts DEF Assertions
  <1> HIDE DEF r
  <1>9. Kept(m, r)
    BY <1>3, <1>7, <1>8, KeptThrough
  <1>10. Handled(m, Quietly(r))
    BY <1>4, <1>8, <1>9, QuietIsHandled
  <1> QED
    BY <1>5, <1>10 DEF p

---------------------------------------------------------------------------
(* Receiving.                                                              *)

\* What the reception of a frame leaves: at most what the acknowledgment names
\* is reported, and what was marked stays or the received packet is added.
Received(k, m, from, f, p) ==
    /\ Sound(p)
    /\ p.assert = "none" /\ Calm(m) => Calm(p)
    /\ \/ p.ok = m.ok
       \/ f.type = "ack" /\ f.to = k /\ p.ok \subseteq m.ok \cup f.got
    /\ \/ p.got = {}
       \/ p.rx = m.rx /\ p.got = m.got
       \/ /\ p.rx = m.rx /\ p.got \subseteq m.got \cup {f.seq}
          /\ f.type = "data" /\ f.to \in {k, Group} /\ m.rx.with = from

\* Neither what was reported nor what was marked changes.
Untouched(m, p) ==
    /\ Sound(p)
    /\ p.assert = "none" /\ Calm(m) => Calm(p)
    /\ p.ok = m.ok /\ p.rx = m.rx /\ p.got = m.got

LEMMA RequireUntouched ==
    ASSUME NEW m, Sound(m), NEW h, NEW name \in Assertions, name # "none"
    PROVE  LET p == Require(m, h, name)
           IN  /\ Untouched(m, p) /\ SameStock(m, p) /\ SameTimers(m, p)
               /\ p.accessing = m.accessing /\ (p.assert = "none" => p = m)
  <1> DEFINE p == Require(m, h, name)
  <1>1. Typed(p) /\ Kept(m, p) /\ (p.assert = "none" => p = m)
        /\ (p = m \/ p = [m EXCEPT !.assert = name])
    BY RequireFacts DEF Sound
  <1>2. m \in MacType
    BY DEF Sound, Typed
  <1>3. SameStock(m, p) /\ SameTimers(m, p) /\ p.accessing = m.accessing
    <2>1. CASE p = m
      BY <2>1 DEF SameStock, SameTimers
    <2>2. CASE p = [m EXCEPT !.assert = name]
      <3> HIDE DEF p
      <3> QED
        BY <1>2, <2>2 DEF MacType, SameStock, SameTimers
    <2> QED
      BY <1>1, <2>1, <2>2
  <1> HIDE DEF p
  <1>4. Untouched(m, p)
    BY <1>1 DEF Untouched, Kept, Sound
  <1> QED
    BY <1>1, <1>3, <1>4 DEF p

LEMMA NavUntouched ==
    ASSUME NEW m, Sound(m), NEW f \in FrameType
    PROVE  Untouched(m, NotifyNav(m, f))
  <1> DEFINE nav == Later(m.nav, f.nav)
             p == [m EXCEPT !.nav = nav]
  <1>1. m \in MacType /\ nav \in {-1} \cup Nat
    <2>1. m \in MacType
      BY DEF Sound, Typed
    <2>2. m.nav \in {-1} \cup Nat /\ f.nav \in Nat
      BY <2>1 DEF MacType, FrameType
    <2> QED
      BY <2>1, <2>2 DEF Later
  <1>2. NotifyNav(m, f) = p
    BY DEF NotifyNav
  <1> HIDE DEF nav
  <1>3. p \in MacType
    BY <1>1 DEF MacType
  <1>4. /\ SameStock(m, p) /\ SameTimers(m, p) /\ p.accessing = m.accessing
        /\ p.request = m.request /\ p.assert = m.assert
        /\ p.ok = m.ok /\ p.rx = m.rx /\ p.got = m.got
    BY <1>1 DEF MacType, SameStock, SameTimers
  <1> HIDE DEF p
  <1> QED
    BY <1>2, <1>3, <1>4, AsBefore DEF Untouched

LEMMA ErrorUntouched ==
    ASSUME NEW m, Sound(m)
    PROVE  Untouched(m, ReceiveError(m))
  <1> DEFINE wait == Later(m.wait, 3 * Sifs + MinBackoff)
             p == [m EXCEPT !.wait = wait]
  <1>1. m \in MacType /\ wait \in Nat
    <2>1. m \in MacType
      BY DEF Sound, Typed
    <2>2. m.wait \in Nat /\ 3 * Sifs + MinBackoff \in Nat
      BY <2>1, Constants DEF MacType
    <2> QED
      BY <2>1, <2>2 DEF Later
  <1>2. ReceiveError(m) = p
    BY DEF ReceiveError
  <1> HIDE DEF wait
  <1>3. p \in MacType
    BY <1>1 DEF MacType
  <1>4. /\ SameStock(m, p) /\ SameTimers(m, p) /\ p.accessing = m.accessing
        /\ p.request = m.request /\ p.assert = m.assert
        /\ p.ok = m.ok /\ p.rx = m.rx /\ p.got = m.got
    BY <1>1 DEF MacType, SameStock, SameTimers
  <1> HIDE DEF p
  <1> QED
    BY <1>2, <1>3, <1>4, AsBefore DEF Untouched

\* A timer that runs is put off, and goes on running.
LEMMA RxStartUntouched ==
    ASSUME NEW m, Sound(m), m.assert = "none", NEW left \in Nat
    PROVE  Untouched(m, RxStartIndication(m, left))
  <1> DEFINE t == left + RxMargin
             p == [m EXCEPT !.responseTimeout = t, !.told = FALSE]
             q == [m EXCEPT !.ackTimeout = t, !.told = FALSE]
             r == RxStartIndication(m, left)
  <1>1. m \in MacType /\ t \in Nat /\ Phases(m) /\ Scheduled(m)
    BY Constants DEF Sound, Typed
  <1> HIDE DEF t
  <1>2. /\ SameStock(m, p) /\ p.accessing = m.accessing /\ p.request = m.request
        /\ p.assert = m.assert /\ p.bulk = m.bulk /\ p.ifs = m.ifs /\ p.tx = m.tx
        /\ p.responseTimeout = t /\ p.ackTimeout = m.ackTimeout
        /\ p.ok = m.ok /\ p.rx = m.rx /\ p.got = m.got
    BY <1>1 DEF MacType, SameStock
  <1>3. /\ SameStock(m, q) /\ q.accessing = m.accessing /\ q.request = m.request
        /\ q.assert = m.assert /\ q.bulk = m.bulk /\ q.ifs = m.ifs /\ q.tx = m.tx
        /\ q.responseTimeout = m.responseTimeout /\ q.ackTimeout = t
        /\ q.ok = m.ok /\ q.rx = m.rx /\ q.got = m.got
    BY <1>1 DEF MacType, SameStock
  <1>4. p \in MacType /\ q \in MacType
    <2> DEFINE s == [m EXCEPT !.responseTimeout = t]
               u == [m EXCEPT !.ackTimeout = t]
    <2>1. s \in MacType /\ u \in MacType
      BY <1>1, TimerTypes
    <2>2. p = [s EXCEPT !.told = FALSE] /\ q = [u EXCEPT !.told = FALSE]
      OBVIOUS
    <2> HIDE DEF s, u, p, q
    <2> QED
      BY <2>1, <2>2, TimerTypes
  <1>5. Running(t)
    BY <1>1 DEF Running
  <1> HIDE DEF p, q
  <1>6. CASE Running(m.responseTimeout)
    <2>1. r = p
      BY <1>6 DEF RxStartIndication, p, t
    <2>2. Typed(p)
      BY <1>2, <1>4, TypedAgain DEF Sound, Typed, HasFunction
    <2>3. ~Calm(m) /\ Phases(p)
      BY <1>1, <1>2, <1>5, <1>6 DEF Phases, Calm, Active, Continues
    <2>4. Scheduled(p)
      BY <1>1, <1>2 DEF Scheduled, HasAnyAccessRequest, SameStock
    <2> QED
      BY <1>2, <2>1, <2>2, <2>3, <2>4 DEF Untouched, Sound
  <1>7. CASE ~Running(m.responseTimeout) /\ Running(m.ackTimeout)
    <2>1. r = q
      BY <1>7 DEF RxStartIndication, q, t
    <2>2. Typed(q)
      BY <1>3, <1>4, TypedAgain DEF Sound, Typed, HasFunction
    <2>3. ~Calm(m) /\ Phases(q)
      BY <1>1, <1>3, <1>5, <1>7 DEF Phases, Calm, Active, Continues
    <2>4. Scheduled(q)
      BY <1>1, <1>3 DEF Scheduled, HasAnyAccessRequest, SameStock
    <2> QED
      BY <1>3, <2>1, <2>2, <2>3, <2>4 DEF Untouched, Sound
  <1>8. CASE ~Running(m.responseTimeout) /\ ~Running(m.ackTimeout)
    <2>1. r = m
      BY <1>8 DEF RxStartIndication
    <2> QED
      BY <2>1 DEF Untouched
  <1> QED
    BY <1>6, <1>7, <1>8

\* Two reasons for which a reception leaves a sound state.
LEMMA UntouchedIsReceived ==
    ASSUME NEW k, NEW m, NEW from, NEW f, NEW p, Untouched(m, p)
    PROVE  Received(k, m, from, f, p)
  BY DEF Untouched, Received

LEMMA ReceivedThrough ==
    ASSUME NEW k, NEW m, NEW from, NEW f, NEW p, NEW q,
           Received(k, m, from, f, p), Untouched(p, q),
           q.assert = "none" => p.assert = "none"
    PROVE  Received(k, m, from, f, q)
  BY DEF Untouched, Received

LEMMA ReceiveRequestFacts ==
    ASSUME NEW n \in Nodes, NEW m, Sound(m), NEW from \in Nodes, NEW f \in FrameType
    PROVE  Received(n, m, from, f, ReceiveRequest(n, m, from, f))
  <1> DEFINE p == Require(m, ~Running(m.response), "ReceiveOk")
             q == Require(p, ~Running(m.sendAck.left), "sendBulkAckExpired")
             rx == [f.info EXCEPT !.with = from]
             t == Sifs + MgtTx + f.info.duration + Sifs
             ack == After(t, "ReadySendAckAfterData")
             s == [q EXCEPT !.rx = rx, !.got = {}, !.response = Sifs, !.sendAck = ack]
             r == ReceiveRequest(n, m, from, f)
  <1>1. f.info \in InfoType /\ f.info.duration \in Nat
    BY MostPacketsBound, Constants DEF FrameType, InfoType, Durations
  <1>2. rx \in InfoType
    BY <1>1 DEF InfoType, Dests
  <1>3. ack \in EventType
    <2>1. t \in Nat
      BY <1>1, Constants
    <2> HIDE DEF t
    <2> QED
      BY <2>1, EventTypes
  <1>4. Untouched(m, p) /\ (p.assert = "none" => p = m)
    BY RequireUntouched DEF Assertions
  <1> HIDE DEF p
  <1>5. Untouched(p, q) /\ (q.assert = "none" => q = p)
    BY <1>4, RequireUntouched DEF Untouched, Assertions
  <1> HIDE DEF q, rx, ack
  <1>6. q \in MacType /\ Sound(q) /\ q.ok = m.ok
    BY <1>4, <1>5 DEF Untouched, Sound, Typed
  <1>7. s \in MacType
    <2> DEFINE s1 == [q EXCEPT !.rx = rx]
               s2 == [s1 EXCEPT !.got = {}]
               s3 == [s2 EXCEPT !.response = Sifs]
               s4 == [s3 EXCEPT !.sendAck = ack]
    <2>1. s = s4
      OBVIOUS
    <2> HIDE DEF s
    <2>2. s1 \in MacType
      BY <1>2, <1>6 DEF MacType
    <2> HIDE DEF s1
    <2>3. s2 \in MacType
      BY <2>2 DEF MacType
    <2> HIDE DEF s2
    <2>4. s3 \in MacType
      <3>1. Sifs \in Nat
        BY Constants
      <3> QED
        BY <2>3, <3>1 DEF MacType
    <2> HIDE DEF s3
    <2>5. s4 \in MacType
      BY <1>3, <2>4 DEF MacType
    <2> QED
      BY <2>1, <2>5
  <1>8. /\ SameStock(q, s) /\ SameTimers(q, s) /\ s.accessing = q.accessing
        /\ s.request = q.request /\ s.assert = q.assert /\ s.ok = q.ok /\ s.got = {}
    BY <1>6 DEF MacType, SameStock, SameTimers
  <1> HIDE DEF s
  <1>9. Sound(s) /\ (Calm(q) => Calm(s))
    BY <1>6, <1>7, <1>8, AsBefore
  <1>10. Received(n, m, from, f, s)
    BY <1>4, <1>5, <1>6, <1>8, <1>9 DEF Received, Untouched
  <1>11. Received(n, m, from, f, m)
    BY DEF Received
  <1>12. r = s \/ r = m
    BY DEF ReceiveRequest, s, q, p, rx, ack
  <1> QED
    BY <1>10, <1>11, <1>12

LEMMA ReceiveResponseFacts ==
    ASSUME NEW n \in Nodes, NEW m, Sound(m), m.assert = "none", NEW f \in FrameType
    PROVE  Untouched(m, ReceiveResponse(n, m, f))
  <1> DEFINE q == Require(m, ~Running(m.bulk) /\ m.tx # NoInfo, "ReceiveOk")
             p == Require(q, ~Running(m.ifs.left), "ReceiveOk")
             e == After(Sifs, "WaitIfsAfterEndTxPacket")
             d == m.tx.duration
             s == [p EXCEPT !.responseTimeout = -1, !.told = FALSE,
                            !.bulk = d, !.ifs = e]
             u == SetAccessBuffer(s)
             r == ReceiveResponse(n, m, f)
  <1>1. CASE f.to = n /\ Running(m.responseTimeout)
    <2>1. Phases(m) /\ m \in MacType
      BY DEF Sound, Typed
    <2>2. m.accessing /\ ~Running(m.ackTimeout) /\ m.tx.with \in Nodes /\ ~Calm(m)
      BY <1>1, <2>1 DEF Phases, Active, Calm
    <2>3. d \in Nat
      BY <2>1, MostPacketsBound, Constants DEF MacType, InfoType, Durations
    <2>4. e \in EventType /\ HasFunction(e) /\ e.run = "WaitIfsAfterEndTxPacket"
      BY EventTypes, Constants
    <2>5. Untouched(m, q) /\ SameTimers(m, q) /\ q.accessing = m.accessing
          /\ (q.assert = "none" => q = m)
      BY RequireUntouched DEF Assertions
    <2> HIDE DEF q
    <2>6. Untouched(q, p) /\ SameTimers(q, p) /\ p.accessing = q.accessing
          /\ (p.assert = "none" => p = q)
      BY <2>5, RequireUntouched DEF Untouched, Assertions
    <2>7. r = u
      BY <1>1 DEF ReceiveResponse, q
    <2> HIDE DEF p, d, e
    <2>8. p \in MacType /\ Typed(p) /\ p.ok = m.ok /\ p.rx = m.rx /\ p.got = m.got
      BY <2>5, <2>6 DEF Untouched, Sound, Typed
    <2>9. s \in MacType
      <3> DEFINE s1 == [p EXCEPT !.responseTimeout = -1]
                 s2 == [s1 EXCEPT !.told = FALSE]
                 s3 == [s2 EXCEPT !.bulk = d]
                 s4 == [s3 EXCEPT !.ifs = e]
      <3>1. s = s4
        OBVIOUS
      <3> HIDE DEF s
      <3>2. s1 \in MacType
        BY <2>8, TimerTypes
      <3> HIDE DEF s1
      <3>3. s2 \in MacType
        BY <3>2, TimerTypes
      <3> HIDE DEF s2
      <3>4. s3 \in MacType
        BY <2>3, <3>3 DEF MacType
      <3> HIDE DEF s3
      <3>5. s4 \in MacType
        BY <2>4, <3>4 DEF MacType
      <3> QED
        BY <3>1, <3>5
    <2>10. /\ SameStock(p, s) /\ s.ifs = e /\ s.bulk = d /\ s.responseTimeout = -1
           /\ s.ackTimeout = p.ackTimeout /\ s.accessing = p.accessing /\ s.tx = p.tx
           /\ s.assert = p.assert /\ s.ok = p.ok /\ s.rx = p.rx /\ s.got = p.got
      BY <2>8 DEF MacType, SameStock
    <2> HIDE DEF s
    <2>11. Typed(s) /\ s.tx.with \in Dests
      BY <2>2, <2>4, <2>5, <2>6, <2>8, <2>9, <2>10, TypedAgain DEF SameTimers, Dests
    <2>12. /\ Typed(u) /\ Kept(s, u) /\ u.assert = s.assert
           /\ u.accessing = s.accessing /\ u.bulk = s.bulk /\ u.ifs = s.ifs
           /\ u.responseTimeout = s.responseTimeout /\ u.ackTimeout = s.ackTimeout
      BY <2>11, SetAccessBufferFacts
    <2> HIDE DEF u
    <2>13. InBulk(u)
      <3>1. u.accessing /\ u.bulk = d /\ u.ifs = e /\ u.responseTimeout = -1
            /\ u.ackTimeout = m.ackTimeout
        BY <2>2, <2>5, <2>6, <2>10, <2>12 DEF SameTimers
      <3> QED
        BY <2>2, <2>3, <2>4, <3>1 DEF InBulk, Running
    <2>14. Untouched(m, u)
      BY <2>2, <2>8, <2>10, <2>12, <2>13, InBulkIsSound DEF Untouched, Kept
    <2> QED
      BY <2>7, <2>14
  <1>2. CASE ~(f.to = n /\ Running(m.responseTimeout))
    <2>1. r = m
      BY <1>2 DEF ReceiveResponse
    <2> QED
      BY <2>1 DEF Untouched
  <1> QED
    BY <1>1, <1>2

\* Of the packets of the records, those are reported that the acknowledgment
\* names.
LEMMA ReceiveAckFacts ==
    ASSUME NEW n \in Nodes, NEW m, Sound(m), m.assert = "none", NEW from,
           NEW f \in FrameType, f.type = "ack"
    PROVE  Received(n, m, from, f, ReceiveAck(n, m, f))
  <1> DEFINE p == [m EXCEPT !.ackTimeout = -1, !.told = FALSE]
             ok == p.ok \cup (p.records \cap f.got)
             q == [p EXCEPT !.ok = ok]
             s == Reported(q)
             u == NextAfterIfs(s, "ReceiveOk")
             r == ReceiveAck(n, m, f)
  <1>1. CASE f.to = n /\ Running(m.ackTimeout)
    <2>1. Phases(m) /\ m \in MacType
      BY DEF Sound, Typed
    <2>2. m.accessing /\ ~Running(m.bulk) /\ ~Running(m.responseTimeout) /\ ~Calm(m)
      BY <1>1, <2>1 DEF Phases, Active, Calm
    <2>3. r = u
      BY <1>1 DEF ReceiveAck, GotBulkAck
    <2>4. p \in MacType
      <3> DEFINE p1 == [m EXCEPT !.ackTimeout = -1]
                 p2 == [p1 EXCEPT !.told = FALSE]
      <3>1. p = p2
        OBVIOUS
      <3> HIDE DEF p
      <3>2. p1 \in MacType
        BY <2>1, TimerTypes
      <3> HIDE DEF p1
      <3>3. p2 \in MacType
        BY <3>2, TimerTypes
      <3> QED
        BY <3>1, <3>3
    <2>5. /\ SameStock(m, p) /\ Kept(m, p) /\ p.ifs = m.ifs /\ p.ackTimeout = -1
          /\ p.responseTimeout = m.responseTimeout /\ p.bulk = m.bulk
          /\ p.accessing = m.accessing
      BY <2>1 DEF MacType, SameStock, Kept
    <2> HIDE DEF p
    <2>6. ok \in SUBSET SequenceNumbers /\ ok \subseteq m.ok \cup f.got
      <3>1. p.ok \in SUBSET SequenceNumbers /\ p.records \in SUBSET SequenceNumbers
        BY <2>4 DEF MacType
      <3> QED
        BY <2>5, <3>1 DEF Kept
    <2> HIDE DEF ok
    <2>7. q \in MacType
      BY <2>4, <2>6 DEF MacType
    <2>8. /\ SameStock(p, q) /\ q.ifs = p.ifs /\ q.ackTimeout = p.ackTimeout
          /\ q.responseTimeout = p.responseTimeout /\ q.bulk = p.bulk
          /\ q.accessing = p.accessing
          /\ q.ok = ok /\ q.rx = p.rx /\ q.got = p.got /\ q.assert = p.assert
      BY <2>4 DEF MacType, SameStock
    <2> HIDE DEF q
    <2>9. Between(q) /\ Typed(q)
      <3>1. Typed(p)
        BY <2>4, <2>5, TypedAgain DEF Sound, Typed, HasFunction
      <3>2. Typed(q)
        BY <2>7, <2>8, <3>1, TypedAgain DEF Typed, HasFunction
      <3> QED
        BY <2>2, <2>5, <2>8, <3>2 DEF Between, Running
    <2>10. Typed(s) /\ Kept(q, s) /\ Between(s)
      BY <2>9, ReportedFacts DEF SameTimers, Between
    <2> HIDE DEF s
    <2>11. Sound(u) /\ Kept(s, u)
      BY <2>10, NextAfterIfsFacts DEF Assertions
    <2> HIDE DEF u
    <2>12. u.ok = ok /\ u.rx = m.rx /\ u.got = m.got
      BY <2>5, <2>8, <2>10, <2>11 DEF Kept
    <2>13. Received(n, m, from, f, u)
      BY <1>1, <2>2, <2>6, <2>11, <2>12 DEF Received
    <2> QED
      BY <2>3, <2>13
  <1>2. CASE ~(f.to = n /\ Running(m.ackTimeout))
    <2>1. r = m
      BY <1>2 DEF ReceiveAck
    <2>2. Untouched(m, m)
      BY DEF Untouched
    <2> QED
      BY <2>1, <2>2, UntouchedIsReceived
  <1> QED
    BY <1>1, <1>2

\* What is marked changes, but for the one packet; nothing else.
LEMMA ReceiveDataFacts ==
    ASSUME NEW n \in Nodes, NEW m, Sound(m), m.assert = "none", NEW from \in Nodes,
           NEW f \in FrameType, f.type = "data"
    PROVE  Received(n, m, from, f, ReceiveData(n, m, from, f))
  <1> DEFINE p == Require(m, m.rx # NoInfo, "ReceiveOk")
             q == Require(p, f.seq >= m.rx.start, "UpdateBulkAckInfo")
             got == q.got \cup {f.seq}
             s == [q EXCEPT !.got = got]
             counted == IF m.rx.with = from THEN s ELSE p
             e == After(Sifs, "SendAckAfterData")
             u == [counted EXCEPT !.sendAck = e]
             r == ReceiveData(n, m, from, f)
  <1>1. CASE f.to \in {n, Group}
    <2>1. Untouched(m, p) /\ (p.assert = "none" => p = m)
      BY RequireUntouched DEF Assertions
    <2> HIDE DEF p
    <2>2. Untouched(p, q) /\ (q.assert = "none" => q = p)
      BY <2>1, RequireUntouched DEF Untouched, Assertions
    <2> HIDE DEF q
    <2>3. q \in MacType /\ f.seq \in SequenceNumbers
      BY <2>2 DEF Untouched, Sound, Typed, FrameType
    <2>4. got \in SUBSET SequenceNumbers /\ got \subseteq m.got \cup {f.seq}
      <3>1. q.got \in SUBSET SequenceNumbers /\ q.got = m.got
        BY <2>1, <2>2, <2>3 DEF Untouched, MacType
      <3> QED
        BY <2>3, <3>1
    <2> HIDE DEF got
    <2>5. s \in MacType
      BY <2>3, <2>4 DEF MacType
    <2>6. /\ SameStock(q, s) /\ SameTimers(q, s) /\ s.accessing = q.accessing
          /\ s.request = q.request /\ s.assert = q.assert
          /\ s.ok = q.ok /\ s.rx = q.rx /\ s.got = got
      BY <2>3 DEF MacType, SameStock, SameTimers
    <2> HIDE DEF s
    <2>7. Sound(s) /\ (Calm(q) => Calm(s))
      BY <2>2, <2>5, <2>6, AsBefore DEF Untouched
    <2>8. Received(n, m, from, f, counted)
      <3>1. CASE m.rx.with = from
        <4>1. counted = s
          BY <3>1
        <4>2. s.ok = m.ok /\ s.rx = m.rx /\ (s.assert = "none" /\ Calm(m) => Calm(s))
          BY <2>1, <2>2, <2>6, <2>7 DEF Untouched
        <4>3. Received(n, m, from, f, s)
          BY <1>1, <2>4, <2>6, <2>7, <3>1, <4>2 DEF Received
        <4> QED
          BY <4>1, <4>3
      <3>2. CASE m.rx.with # from
        <4>1. counted = p
          BY <3>2
        <4> QED
          BY <2>1, <4>1, UntouchedIsReceived
      <3> QED
        BY <3>1, <3>2
    <2>9. r \in {m, u, counted}
      <3>1. \/ r = m
            \/ r = u
            \/ r = counted
        BY DEF ReceiveData, p, q, s, got
      <3> QED
        BY <3>1
    <2> HIDE DEF counted
    <2>10. counted \in MacType /\ Sound(counted) /\ e \in EventType
      BY <2>8, EventTypes, Constants DEF Received, Sound, Typed
    <2> HIDE DEF e
    <2>11. u \in MacType
      BY <2>10 DEF MacType
    <2>12. /\ SameStock(counted, u) /\ SameTimers(counted, u)
           /\ u.accessing = counted.accessing /\ u.request = counted.request
           /\ u.assert = counted.assert /\ u.ok = counted.ok
           /\ u.rx = counted.rx /\ u.got = counted.got
      BY <2>10 DEF MacType, SameStock, SameTimers
    <2> HIDE DEF u
    <2>13. Untouched(counted, u)
      BY <2>10, <2>11, <2>12, AsBefore DEF Untouched
    <2>14. Received(n, m, from, f, u)
      BY <2>8, <2>12, <2>13, ReceivedThrough
    <2>15. Received(n, m, from, f, m)
      <3>1. Untouched(m, m)
        BY DEF Untouched
      <3> QED
        BY <3>1, UntouchedIsReceived
    <2> QED
      BY <2>8, <2>9, <2>14, <2>15
  <1>2. CASE f.to \notin {n, Group}
    <2>1. r = m
      BY <1>2 DEF ReceiveData
    <2>2. Untouched(m, m)
      BY DEF Untouched
    <2> QED
      BY <2>1, <2>2, UntouchedIsReceived
  <1> QED
    BY <1>1, <1>2

LEMMA ReceiveOkFacts ==
    ASSUME NEW n \in Nodes, NEW m, Sound(m), m.assert = "none", NEW from \in Nodes,
           NEW f \in FrameType
    PROVE  Received(n, m, from, f, ReceiveOk(n, m, from, f))
  <1> DEFINE p == CASE f.type = "request" -> ReceiveRequest(n, m, from, f)
                    [] f.type = "response" -> ReceiveResponse(n, m, f)
                    [] f.type = "ack" -> ReceiveAck(n, m, f)
                    [] f.type = "data" -> ReceiveData(n, m, from, f)
                    [] OTHER -> m
             r == NotifyNav(p, f)
  <1>1. Received(n, m, from, f, p)
    <2>1. CASE f.type = "request"
      BY <2>1, ReceiveRequestFacts
    <2>2. CASE f.type = "response"
      BY <2>2, ReceiveResponseFacts, UntouchedIsReceived
    <2>3. CASE f.type = "ack"
      BY <2>3, ReceiveAckFacts
    <2>4. CASE f.type = "data"
      BY <2>4, ReceiveDataFacts
    <2>5. CASE f.type \notin {"request", "response", "ack", "data"}
      <3>1. p = m
        BY <2>5
      <3>2. Untouched(m, m)
        BY DEF Untouched
      <3> QED
        BY <3>1, <3>2, UntouchedIsReceived
    <2> QED
      BY <2>1, <2>2, <2>3, <2>4, <2>5
  <1>2. ReceiveOk(n, m, from, f) = r
    BY DEF ReceiveOk
  <1> HIDE DEF p
  <1>3. Untouched(p, r)
    BY <1>1, NavUntouched DEF Received
  <1>4. r.assert = p.assert
    <2>1. p \in MacType
      BY <1>1 DEF Received, Sound, Typed
    <2> QED
      BY <2>1 DEF NotifyNav, MacType
  <1> HIDE DEF r
  <1> QED
    BY <1>1, <1>2, <1>3, <1>4, ReceivedThrough

\* After its beacon a node with packets will access the channel.
LEMMA BeaconTxEndFacts ==
    ASSUME NEW m, Sound(m), m.assert = "none", Calm(m)
    PROVE  LET p == BeaconTxEnd(m)
           IN  Sound(p) /\ p.ok = m.ok /\ p.rx = m.rx /\ p.got = m.got
  <1> DEFINE q == EndChannelAccess(m)
             p == [q EXCEPT !.beaconEvent = TRUE]
             s == Require(p, ~Running(p.ifs.left), "BeaconTxEnd")
             e == After(Sifs, "SendBulkAccessRequest")
             u == [s EXCEPT !.ifs = e]
             r == BeaconTxEnd(m)
  <1>1. /\ Typed(q) /\ Kept(m, q) /\ SameStock(m, q) /\ SameTimers(m, q)
        /\ ~q.accessing
    BY EndChannelAccessFacts DEF Sound
  <1>2. r = IF HasAnyAccessRequest(p) THEN u ELSE p
    BY DEF BeaconTxEnd
  <1> HIDE DEF q
  <1>3. q \in MacType
    BY <1>1 DEF Typed
  <1>4. p \in MacType
    BY <1>3 DEF MacType
  <1>5. /\ SameStock(q, p) /\ Kept(q, p) /\ SameTimers(q, p) /\ p.accessing = q.accessing
    BY <1>3 DEF MacType, SameStock, Kept, SameTimers
  <1> HIDE DEF p
  <1>6. Typed(p)
    BY <1>1, <1>4, <1>5, TypedAgain DEF Typed, HasFunction, SameTimers
  <1>7. ~Active(p)
    BY <1>1, <1>5 DEF Calm, Active, Continues, SameTimers
  <1>8. Typed(s) /\ Kept(p, s) /\ (s.assert = "none" => s = p)
    BY <1>6, RequireFacts DEF Assertions
  <1>9. e \in EventType /\ HasFunction(e) /\ e.run = "SendBulkAccessRequest"
    BY EventTypes, Constants
  <1> HIDE DEF s, e
  <1>10. s \in MacType
    BY <1>8 DEF Typed
  <1>11. u \in MacType
    BY <1>9, <1>10 DEF MacType
  <1>12. /\ SameStock(s, u) /\ Kept(s, u) /\ u.ifs = e /\ u.assert = s.assert
         /\ u.bulk = s.bulk /\ u.responseTimeout = s.responseTimeout
         /\ u.ackTimeout = s.ackTimeout
    BY <1>10 DEF MacType, SameStock, Kept
  <1> HIDE DEF u
  <1>13. Typed(u)
    BY <1>8, <1>9, <1>11, <1>12, TypedAgain
  <1>14. u.assert = "none" => ~Active(u)
    BY <1>7, <1>8, <1>9, <1>12 DEF Active, Continues
  <1>15. Sound(u)
    BY <1>9, <1>12, <1>13, <1>14 DEF Sound, Phases, Active, Continues, Scheduled
  <1>16. CASE HasAnyAccessRequest(p)
    BY <1>1, <1>2, <1>5, <1>8, <1>12, <1>15, <1>16 DEF Kept
  <1>17. CASE ~HasAnyAccessRequest(p)
    <2>1. Sound(p)
      BY <1>6, <1>7, <1>17 DEF Sound, Phases, Active, Continues, Scheduled
    <2> QED
      BY <1>1, <1>2, <1>5, <1>17, <2>1 DEF Kept
  <1> QED
    BY <1>16, <1>17

---------------------------------------------------------------------------
(* Steps.                                                                  *)

\* A timer that is not due goes on running, or not.
LEMMA CloserFacts ==
    ASSUME NEW t \in {-1} \cup Nat
    PROVE  /\ Closer(t) \in {-1} \cup Nat
           /\ t # 0 => (Running(Closer(t)) <=> Running(t))
  BY DEF Closer, Running

LEMMA ElapseUntouched ==
    ASSUME NEW n \in Nodes, Sound(mac[n]), ~Due(mac[n])
    PROVE  Untouched(mac[n], Elapse(n))
  <1> DEFINE m == mac[n]
             wait == Later(m.wait - 1, IF IsBusy(n) THEN 2 * Sifs + MinBackoff ELSE 0)
             ifs == [m.ifs EXCEPT !.left = Closer(@)]
             ack == [m.sendAck EXCEPT !.left = Closer(@)]
             p == [m EXCEPT !.wait = wait, !.nav = Closer(m.nav), !.bulk = Closer(m.bulk),
                            !.responseTimeout = Closer(m.responseTimeout),
                            !.ackTimeout = Closer(m.ackTimeout),
                            !.response = Closer(m.response),
                            !.ifs = ifs, !.sendAck = ack]
  <1>1. m \in MacType
    BY DEF Sound, Typed
  <1>2. /\ m.wait \in Nat /\ m.nav \in {-1} \cup Nat /\ m.bulk \in {-1} \cup Nat
        /\ m.responseTimeout \in {-1} \cup Nat /\ m.ackTimeout \in {-1} \cup Nat
        /\ m.response \in {-1} \cup Nat /\ m.ifs \in EventType /\ m.sendAck \in EventType
    BY <1>1 DEF MacType
  <1>3. wait \in Nat
    <2>1. 2 * Sifs + MinBackoff \in Nat
      BY Constants
    <2> QED
      BY <1>2, <2>1 DEF Later
  <1>4. /\ ifs \in EventType /\ ifs.run = m.ifs.run /\ ifs.left = Closer(m.ifs.left)
        /\ m.ifs.left \in {-1} \cup Nat
    <2>1. m.ifs.left \in {-1} \cup Nat
      BY <1>2 DEF EventType
    <2>2. Closer(m.ifs.left) \in {-1} \cup Nat
      BY <2>1, CloserFacts
    <2> QED
      BY <1>2, <2>1, <2>2 DEF EventType
  <1>5. ack \in EventType
    <2>1. m.sendAck.left \in {-1} \cup Nat
      BY <1>2 DEF EventType
    <2>2. Closer(m.sendAck.left) \in {-1} \cup Nat
      BY <2>1, CloserFacts
    <2> QED
      BY <1>2, <2>2 DEF EventType
  <1>6. /\ Closer(m.nav) \in {-1} \cup Nat /\ Closer(m.bulk) \in {-1} \cup Nat
        /\ Closer(m.responseTimeout) \in {-1} \cup Nat
        /\ Closer(m.ackTimeout) \in {-1} \cup Nat /\ Closer(m.response) \in {-1} \cup Nat
    BY <1>2, CloserFacts
  <1>7. /\ m.bulk # 0 /\ m.responseTimeout # 0 /\ m.ackTimeout # 0 /\ m.ifs.left # 0
    BY DEF Due
  <1>8. /\ Running(Closer(m.bulk)) <=> Running(m.bulk)
        /\ Running(Closer(m.responseTimeout)) <=> Running(m.responseTimeout)
        /\ Running(Closer(m.ackTimeout)) <=> Running(m.ackTimeout)
        /\ Running(ifs.left) <=> Running(m.ifs.left)
    BY <1>2, <1>4, <1>7, CloserFacts
  <1>9. Elapse(n) = p
    BY <1>1 DEF Elapse, MacType
  <1> HIDE DEF m, wait, ifs, ack
  <1>10. p \in MacType
    <2> DEFINE p1 == [m EXCEPT !.wait = wait]
               p2 == [p1 EXCEPT !.nav = Closer(m.nav)]
               p3 == [p2 EXCEPT !.bulk = Closer(m.bulk)]
               p4 == [p3 EXCEPT !.responseTimeout = Closer(m.responseTimeout)]
               p5 == [p4 EXCEPT !.ackTimeout = Closer(m.ackTimeout)]
               p6 == [p5 EXCEPT !.response = Closer(m.response)]
               p7 == [p6 EXCEPT !.ifs = ifs]
               p8 == [p7 EXCEPT !.sendAck = ack]
    <2>1. p = p8
      OBVIOUS
    <2> HIDE DEF p
    <2>2. p1 \in MacType
      BY <1>1, <1>3 DEF MacType
    <2> HIDE DEF p1
    <2>3. p2 \in MacType
      BY <1>6, <2>2 DEF MacType
    <2> HIDE DEF p2
    <2>4. p3 \in MacType
      BY <1>6, <2>3 DEF MacType
    <2> HIDE DEF p3
    <2>5. p4 \in MacType
      BY <1>6, <2>4, TimerTypes
    <2> HIDE DEF p4
    <2>6. p5 \in MacType
      BY <1>6, <2>5, TimerTypes
    <2> HIDE DEF p5
    <2>7. p6 \in MacType
      BY <1>6, <2>6 DEF MacType
    <2> HIDE DEF p6
    <2>8. p7 \in MacType
      BY <1>4, <2>7 DEF MacType
    <2> HIDE DEF p7
    <2>9. p8 \in MacType
      BY <1>5, <2>8 DEF MacType
    <2> QED
      BY <2>1, <2>9
  <1>11. /\ SameStock(m, p) /\ p.accessing = m.accessing /\ p.request = m.request
         /\ p.assert = m.assert /\ p.ok = m.ok /\ p.rx = m.rx /\ p.got = m.got
         /\ p.tx = m.tx /\ p.ifs = ifs /\ p.bulk = Closer(m.bulk)
         /\ p.responseTimeout = Closer(m.responseTimeout)
         /\ p.ackTimeout = Closer(m.ackTimeout)
    BY <1>1 DEF MacType, SameStock
  <1> HIDE DEF p
  <1>12. Typed(p)
    BY <1>4, <1>8, <1>10, <1>11, TypedAgain DEF m, Sound, Typed, HasFunction
  <1>13. (m.assert = "none" => Phases(p)) /\ (Calm(m) => Calm(p))
    BY <1>4, <1>8, <1>11 DEF m, Sound, Phases, Calm, Active, Continues
  <1>14. m.assert = "none" => Scheduled(p)
    BY <1>4, <1>11 DEF m, Sound, Scheduled, HasAnyAccessRequest, SameStock
  <1>15. Untouched(m, p)
    BY <1>11, <1>12, <1>13, <1>14 DEF Untouched, Sound
  <1> QED
    BY <1>9, <1>15 DEF m

\* A node that begins to send changes what is heard of the other frames, not
\* the frames.
LEMMA TransmitFacts ==
    ASSUME air \in [Nodes -> FrameType], \A k \in Nodes : air[k].head <= air[k].left,
           NEW n \in Nodes, NEW f, FrameOK(f)
    PROVE  LET after == Transmit(n, f)
           IN  /\ after \in [Nodes -> FrameType]
               /\ \A k \in Nodes : after[k].head <= after[k].left
               /\ after[n].type = f.type /\ after[n].to = f.to /\ after[n].got = f.got
               /\ \A k \in Nodes \ {n} : after[k].type # "none" =>
                    /\ after[k].type = air[k].type /\ after[k].to = air[k].to
                    /\ after[k].got = air[k].got
  <1> DEFINE others == {k \in Nodes : OnAir(k)}
             deaf == {n} \cup others \cup UNION {air[k].hear : k \in others}
             mine == [f EXCEPT !.hear = Nodes \ deaf, !.clean = others = {}]
             theirs(k) == [air[k] EXCEPT !.hear = @ \ {n}, !.clean = FALSE]
             after == Transmit(n, f)
  <1>1. after = [k \in Nodes |-> CASE k = n -> mine
                                   [] k \in others \ {n} -> theirs(k)
                                   [] OTHER -> NoFrame]
    BY DEF Transmit
  <1>2. mine \in FrameType /\ mine.head <= mine.left
        /\ mine.type = f.type /\ mine.to = f.to /\ mine.got = f.got
    <2>1. f \in FrameType /\ f.head <= f.left
      BY DEF FrameOK
    <2> HIDE DEF deaf, others
    <2>2. mine \in FrameType
      BY <2>1 DEF FrameType
    <2> QED
      BY <2>1, <2>2 DEF FrameType
  <1>3. ASSUME NEW k \in Nodes
        PROVE  theirs(k) \in FrameType /\ theirs(k).head <= theirs(k).left
               /\ theirs(k).type = air[k].type /\ theirs(k).to = air[k].to
               /\ theirs(k).got = air[k].got
    <2> DEFINE f2 == air[k]
    <2>1. f2 \in FrameType /\ f2.head <= f2.left
      OBVIOUS
    <2> HIDE DEF f2
    <2>2. [f2 EXCEPT !.hear = @ \ {n}, !.clean = FALSE] \in FrameType
      BY <2>1 DEF FrameType
    <2>3. /\ [f2 EXCEPT !.hear = @ \ {n}, !.clean = FALSE].head = f2.head
          /\ [f2 EXCEPT !.hear = @ \ {n}, !.clean = FALSE].left = f2.left
          /\ [f2 EXCEPT !.hear = @ \ {n}, !.clean = FALSE].type = f2.type
          /\ [f2 EXCEPT !.hear = @ \ {n}, !.clean = FALSE].to = f2.to
          /\ [f2 EXCEPT !.hear = @ \ {n}, !.clean = FALSE].got = f2.got
      BY <2>1 DEF FrameType
    <2> QED
      BY <2>1, <2>2, <2>3 DEF f2
  <1> HIDE DEF mine, theirs, others, after
  <1>4. FrameOK(NoFrame) /\ NoFrame.type = "none"
    BY NoFrameIsNone
  <1>5. ASSUME NEW k \in Nodes
        PROVE  \/ k = n /\ after[k] = mine
               \/ k # n /\ after[k] = theirs(k)
               \/ k # n /\ after[k] = NoFrame
    <2>1. after[k] = CASE k = n -> mine
                       [] k \in others \ {n} -> theirs(k)
                       [] OTHER -> NoFrame
      BY <1>1
    <2>2. k = n => after[k] = mine
      BY <2>1
    <2>3. k # n /\ k \in others => after[k] = theirs(k)
      BY <2>1
    <2>4. k # n /\ k \notin others => after[k] = NoFrame
      BY <2>1
    <2> QED
      BY <2>2, <2>3, <2>4, Zenon
  <1>6. ASSUME NEW k \in Nodes
        PROVE  after[k] \in FrameType /\ after[k].head <= after[k].left
    BY <1>2, <1>3, <1>4, <1>5 DEF FrameOK
  <1>7. after \in [Nodes -> FrameType]
    BY <1>1, <1>6
  <1>8. ASSUME NEW k \in Nodes \ {n}, after[k].type # "none"
        PROVE  /\ after[k].type = air[k].type /\ after[k].to = air[k].to
               /\ after[k].got = air[k].got
    BY <1>3, <1>4, <1>5, <1>8
  <1>9. after[n].type = f.type /\ after[n].to = f.to /\ after[n].got = f.got
    BY <1>2, <1>5
  <1> QED
    BY <1>6, <1>7, <1>8, <1>9 DEF after

\* A handler of node n keeps the invariants.
LEMMA HandlerStep ==
    ASSUME TInv, AInv, Alive, NEW n \in Nodes, NEW r, Handled(mac[n], r), Becomes(n, r)
    PROVE  TInv' /\ AInv'
  <1> DEFINE after == Transmit(n, r.out)
  <1>1. /\ mac \in [Nodes -> MacType] /\ air \in [Nodes -> FrameType]
        /\ losses \in 0 .. MaxLosses /\ delivered \subseteq Nodes \X SequenceNumbers \X Nodes
        /\ \A k \in Nodes : air[k].head <= air[k].left /\ Sound(mac[k])
    BY DEF TInv, TypeOK
  <1>2. /\ mac' = [mac EXCEPT ![n] = r.mac] /\ losses' = losses /\ delivered' = delivered
        /\ air' = IF r.out = NoFrame THEN air ELSE after
    BY DEF Becomes
  <1>3. FrameOK(r.out) /\ Sound(r.mac) /\ r.mac \in MacType
    BY DEF Handled, Sound, Typed
  <1>4. /\ after \in [Nodes -> FrameType]
        /\ \A k \in Nodes : after[k].head <= after[k].left
        /\ after[n].type = r.out.type /\ after[n].to = r.out.to
        /\ after[n].got = r.out.got
        /\ \A k \in Nodes \ {n} : after[k].type # "none" =>
             /\ after[k].type = air[k].type /\ after[k].to = air[k].to
             /\ after[k].got = air[k].got
    BY <1>1, <1>3, TransmitFacts
  <1> HIDE DEF after
  <1>5. air' \in [Nodes -> FrameType] /\ \A k \in Nodes : air'[k].head <= air'[k].left
    BY <1>1, <1>2, <1>4
  <1>6. ASSUME NEW k \in Nodes, k # n, air'[k].type # "none"
        PROVE  /\ air'[k].type = air[k].type /\ air'[k].to = air[k].to
               /\ air'[k].got = air[k].got
    BY <1>2, <1>4, <1>6
  <1>7. \/ air'[n] = air[n]
        \/ air'[n].type = r.out.type /\ air'[n].to = r.out.to /\ air'[n].got = r.out.got
    BY <1>2, <1>4
  <1>8. /\ mac' \in [Nodes -> MacType] /\ mac'[n] = r.mac
        /\ \A k \in Nodes \ {n} : mac'[k] = mac[k]
    BY <1>1, <1>2, <1>3
  <1>9. TInv'
    <2>1. \A k \in Nodes : Sound(mac'[k])
      BY <1>1, <1>3, <1>8
    <2>2. ASSUME NEW k \in Nodes, air'[k].type = "beacon", mac'[k].assert = "none"
          PROVE  Calm(mac'[k])
      <3>1. CASE k # n
        <4>1. air[k].type = "beacon" /\ mac'[k] = mac[k]
          BY <1>6, <1>8, <2>2, <3>1
        <4> QED
          BY <2>2, <4>1 DEF TInv
      <3>2. CASE k = n /\ air'[n] = air[n]
        <4>1. Calm(mac[n])
          BY <2>2, <3>2 DEF TInv, Alive
        <4> QED
          BY <1>8, <2>2, <3>2, <4>1 DEF Handled
      <3>3. CASE k = n /\ air'[n].type = r.out.type
        BY <1>8, <2>2, <3>3 DEF Handled
      <3> QED
        BY <1>7, <3>1, <3>2, <3>3
    <2>3. TypeOK'
      BY <1>1, <1>2, <1>5, <1>8 DEF TypeOK
    <2> QED
      BY <1>5, <2>1, <2>2, <2>3 DEF TInv
  <1>10. /\ r.mac.ok = mac[n].ok /\ r.mac.got = mac[n].got
         /\ (r.mac.rx = mac[n].rx \/ r.mac.rx = NoInfo)
    BY DEF Handled
  <1>11. ASSUME NEW k \in Nodes, mac'[k].rx.with \in Nodes, NEW s \in mac'[k].got
         PROVE  <<mac'[k].rx.with, s, k>> \in delivered'
    <2>1. mac'[k].rx = mac[k].rx /\ mac'[k].got = mac[k].got
      <3>1. CASE k # n
        BY <1>8, <3>1
      <3>2. CASE k = n
        <4>1. NoInfo.with \notin Nodes
          BY Constants, NoInfoType
        <4> QED
          BY <1>8, <1>10, <1>11, <3>2, <4>1
      <3> QED
        BY <3>1, <3>2
    <2> QED
      BY <1>2, <1>11, <2>1 DEF AInv
  <1>12. ASSUME NEW k \in Nodes, air'[k].type = "ack", air'[k].to \in Nodes,
                NEW s \in air'[k].got
         PROVE  <<air'[k].to, s, k>> \in delivered'
    <2>1. CASE air'[k].type = air[k].type /\ air'[k].to = air[k].to
               /\ air'[k].got = air[k].got
      BY <1>2, <1>12, <2>1 DEF AInv
    <2>2. CASE k = n /\ air'[n].type = r.out.type /\ air'[n].to = r.out.to
               /\ air'[n].got = r.out.got
      <3>1. r.out.to = mac[n].rx.with /\ r.out.got = mac[n].got
        BY <1>12, <2>2 DEF Handled
      <3> QED
        BY <1>2, <1>12, <2>2, <3>1 DEF AInv
    <2>3. CASE k # n
      BY <1>6, <1>12, <2>1, <2>3
    <2> QED
      BY <1>7, <2>1, <2>2, <2>3
  <1>13. AckedWasReceived'
    <2>1. \A k \in Nodes : mac'[k].ok = mac[k].ok
      BY <1>8, <1>10
    <2> QED
      BY <1>2, <2>1 DEF AInv, AckedWasReceived
  <1> QED
    BY <1>9, <1>11, <1>12, <1>13 DEF AInv

LEMMA TickStep ==
    ASSUME TInv, AInv, Tick
    PROVE  TInv' /\ AInv'
  <1>1. /\ mac \in [Nodes -> MacType] /\ air \in [Nodes -> FrameType]
        /\ losses \in 0 .. MaxLosses /\ delivered \subseteq Nodes \X SequenceNumbers \X Nodes
        /\ \A k \in Nodes : air[k].head <= air[k].left /\ Sound(mac[k])
    BY DEF TInv, TypeOK
  <1>2. /\ mac' = [n \in Nodes |-> Elapse(n)] /\ losses' = losses
        /\ air' = [n \in Nodes |-> [air[n] EXCEPT !.left = Closer(@), !.head = Closer(@)]]
        /\ delivered' = delivered /\ Alive /\ ~FrameDue
        /\ \A n \in Nodes : ~Due(mac[n])
    BY DEF Tick, NothingDue
  <1>3. ASSUME NEW n \in Nodes
        PROVE  Untouched(mac[n], mac'[n]) /\ mac'[n] \in MacType
    <2>1. Untouched(mac[n], Elapse(n))
      BY <1>1, <1>2, ElapseUntouched
    <2>2. mac'[n] = Elapse(n)
      BY <1>2
    <2> QED
      BY <2>1, <2>2 DEF Untouched, Sound, Typed
  <1>4. ASSUME NEW n \in Nodes
        PROVE  /\ air'[n] \in FrameType /\ air'[n].head <= air'[n].left
               /\ air'[n].type = air[n].type /\ air'[n].to = air[n].to
               /\ air'[n].got = air[n].got
    <2> DEFINE f == air[n]
               left == Closer(f.left)
               head == Closer(f.head)
    <2>1. f \in FrameType /\ f.head <= f.left /\ f.left # 0 /\ f.head # 0
      BY <1>1, <1>2 DEF FrameDue
    <2>2. air'[n] = [f EXCEPT !.left = left, !.head = head]
      BY <1>2
    <2> HIDE DEF f
    <2>3. f.left \in {-1} \cup Nat /\ f.head \in {-1} \cup Nat
      BY <2>1 DEF FrameType
    <2>4. left \in {-1} \cup Nat /\ head \in {-1} \cup Nat /\ head <= left
      BY <2>1, <2>3 DEF Closer, Running
    <2> HIDE DEF left, head
    <2>5. [f EXCEPT !.left = left, !.head = head] \in FrameType
      BY <2>1, <2>4 DEF FrameType
    <2>6. air'[n].head = head /\ air'[n].left = left /\ air'[n].type = f.type
          /\ air'[n].to = f.to /\ air'[n].got = f.got
      BY <2>1, <2>2 DEF FrameType
    <2> QED
      BY <2>2, <2>4, <2>5, <2>6 DEF f
  <1>5. TInv'
    <2>1. mac' \in [Nodes -> MacType] /\ air' \in [Nodes -> FrameType]
      BY <1>2, <1>3, <1>4
    <2>2. TypeOK'
      BY <1>1, <1>2, <2>1 DEF TypeOK
    <2>3. ASSUME NEW n \in Nodes, air'[n].type = "beacon", mac'[n].assert = "none"
          PROVE  Calm(mac'[n])
      BY <1>2, <1>3, <1>4, <2>3 DEF TInv, Alive, Untouched
    <2> QED
      BY <1>3, <1>4, <2>2, <2>3 DEF TInv, Untouched
  <1>6. \A n \in Nodes : mac'[n].ok = mac[n].ok /\ mac'[n].rx = mac[n].rx
                         /\ mac'[n].got = mac[n].got
    BY <1>3 DEF Untouched
  <1>7. AckedWasReceived'
    BY <1>2, <1>6 DEF AInv, AckedWasReceived
  <1>8. ASSUME NEW k \in Nodes, mac'[k].rx.with \in Nodes, NEW s \in mac'[k].got
        PROVE  <<mac'[k].rx.with, s, k>> \in delivered'
    BY <1>2, <1>6, <1>8 DEF AInv
  <1>9. ASSUME NEW k \in Nodes, air'[k].type = "ack", air'[k].to \in Nodes,
               NEW s \in air'[k].got
        PROVE  <<air'[k].to, s, k>> \in delivered'
    <2>1. delivered' = delivered
      BY <1>2
    <2> QED
      BY <1>4, <1>9, <2>1 DEF AInv
  <1> QED
    BY <1>5, <1>7, <1>8, <1>9 DEF AInv

\* Losses without a collision stay within their bound.
LEMMA LostIsBounded ==
    ASSUME losses \in 0 .. MaxLosses, NEW f \in FrameType, NEW heard \in Outcomes(f),
           Lost(f, heard)
    PROVE  losses' \in 0 .. MaxLosses /\ heard \subseteq Nodes /\ heard \subseteq f.hear
  <1>1. heard \subseteq f.hear /\ f.hear \subseteq Nodes
        /\ (f.clean => losses + Cardinality(f.hear \ heard) <= MaxLosses)
    BY DEF Outcomes, FrameType
  <1>2. Cardinality(f.hear \ heard) \in Nat
    <2>1. IsFiniteSet(f.hear \ heard)
      BY <1>1, Constants, FS_Subset
    <2> QED
      BY <2>1, FS_CardinalityType
  <1>3. losses' = IF f.clean THEN losses + Cardinality(f.hear \ heard) ELSE losses
    BY DEF Lost
  <1>4. losses' \in 0 .. MaxLosses
    <2>1. CASE f.clean
      BY <1>1, <1>2, <1>3, <2>1, Constants
    <2>2. CASE ~f.clean
      BY <1>3, <2>2
    <2> QED
      BY <2>1, <2>2
  <1> QED
    BY <1>1, <1>4

LEMMA PayloadStartsStep ==
    ASSUME TInv, AInv, NEW n \in Nodes, PayloadStarts(n)
    PROVE  TInv' /\ AInv'
  <1> DEFINE f == air[n]
  <1>1. /\ mac \in [Nodes -> MacType] /\ air \in [Nodes -> FrameType]
        /\ losses \in 0 .. MaxLosses /\ delivered \subseteq Nodes \X SequenceNumbers \X Nodes
        /\ \A k \in Nodes : air[k].head <= air[k].left /\ Sound(mac[k])
    BY DEF TInv, TypeOK
  <1>2. PICK heard \in Outcomes(f) :
          /\ mac' = [k \in Nodes |-> IF k \in heard THEN RxStartIndication(mac[k], f.left)
                                     ELSE mac[k]]
          /\ air' = [air EXCEPT ![n].hear = heard, ![n].head = -1]
          /\ Lost(f, heard)
    BY DEF PayloadStarts
  <1>3. Alive /\ f.head = 0 /\ delivered' = delivered
    BY DEF PayloadStarts
  <1>4. f \in FrameType /\ f.left \in Nat
    <2>1. f \in FrameType /\ f.head <= f.left
      BY <1>1
    <2>2. f.left \in {-1} \cup Nat
      BY <2>1 DEF FrameType
    <2> QED
      BY <1>3, <2>1, <2>2
  <1> DEFINE g == [f EXCEPT !.hear = heard, !.head = -1]
  <1>5. air' = [air EXCEPT ![n] = g]
    BY <1>1, <1>2 DEF FrameType
  <1> HIDE DEF f
  <1>6. losses' \in 0 .. MaxLosses /\ heard \subseteq Nodes
    BY <1>1, <1>2, <1>4, LostIsBounded
  <1>7. ASSUME NEW k \in Nodes
        PROVE  Untouched(mac[k], mac'[k]) /\ mac'[k] \in MacType
    <2>1. mac[k].assert = "none" /\ Sound(mac[k])
      BY <1>1, <1>3 DEF Alive
    <2>2. Untouched(mac[k], RxStartIndication(mac[k], f.left))
      BY <1>4, <2>1, RxStartUntouched
    <2>3. Untouched(mac[k], mac[k])
      BY <2>1 DEF Untouched
    <2>4. Untouched(mac[k], mac'[k])
      BY <1>2, <2>2, <2>3
    <2> QED
      BY <2>4 DEF Untouched, Sound, Typed
  <1>8. /\ g \in FrameType /\ g.head <= g.left
        /\ g.type = f.type /\ g.to = f.to /\ g.got = f.got
    <2>1. g \in FrameType
      BY <1>4, <1>6 DEF FrameType
    <2>2. g.head = -1 /\ g.left = f.left /\ g.type = f.type /\ g.to = f.to /\ g.got = f.got
      BY <1>4 DEF FrameType
    <2> QED
      BY <1>4, <2>1, <2>2
  <1> HIDE DEF g
  <1>9. ASSUME NEW k \in Nodes
        PROVE  /\ air'[k] \in FrameType /\ air'[k].head <= air'[k].left
               /\ air'[k].type = air[k].type /\ air'[k].to = air[k].to
               /\ air'[k].got = air[k].got
    BY <1>1, <1>5, <1>8 DEF f
  <1>10. TInv'
    <2>1. mac' \in [Nodes -> MacType] /\ air' \in [Nodes -> FrameType]
      BY <1>1, <1>2, <1>5, <1>7, <1>8
    <2>2. TypeOK'
      BY <1>1, <1>3, <1>6, <2>1 DEF TypeOK
    <2>3. ASSUME NEW k \in Nodes, air'[k].type = "beacon", mac'[k].assert = "none"
          PROVE  Calm(mac'[k])
      BY <1>3, <1>7, <1>9, <2>3 DEF TInv, Alive, Untouched
    <2> QED
      BY <1>7, <1>9, <2>2, <2>3 DEF TInv, Untouched
  <1>11. \A k \in Nodes : mac'[k].ok = mac[k].ok /\ mac'[k].rx = mac[k].rx
                          /\ mac'[k].got = mac[k].got
    BY <1>7 DEF Untouched
  <1>12. AckedWasReceived'
    BY <1>3, <1>11 DEF AInv, AckedWasReceived
  <1>13. ASSUME NEW k \in Nodes, mac'[k].rx.with \in Nodes, NEW s \in mac'[k].got
         PROVE  <<mac'[k].rx.with, s, k>> \in delivered'
    BY <1>3, <1>11, <1>13 DEF AInv
  <1>14. ASSUME NEW k \in Nodes, air'[k].type = "ack", air'[k].to \in Nodes,
                NEW s \in air'[k].got
         PROVE  <<air'[k].to, s, k>> \in delivered'
    BY <1>3, <1>9, <1>14 DEF AInv
  <1> QED
    BY <1>10, <1>12, <1>13, <1>14 DEF AInv

\* What an acknowledgment names was delivered before, and so was what is marked
\* when a data frame ends.
LEMMA FrameEndsStep ==
    ASSUME TInv, AInv, NEW n \in Nodes, FrameEnds(n)
    PROVE  TInv' /\ AInv'
  <1> DEFINE f == air[n]
             new(heard) == {<<n, f.seq, k>> : k \in {k \in heard : f.to \in {k, Group}}}
  <1>1. /\ mac \in [Nodes -> MacType] /\ air \in [Nodes -> FrameType]
        /\ losses \in 0 .. MaxLosses /\ delivered \subseteq Nodes \X SequenceNumbers \X Nodes
        /\ \A k \in Nodes : air[k].head <= air[k].left /\ Sound(mac[k])
    BY DEF TInv, TypeOK
  <1>2. PICK heard \in Outcomes(f) :
          /\ mac' = [k \in Nodes |->
                       CASE k \in heard -> ReceiveOk(k, mac[k], n, f)
                         [] k \in f.hear \ heard -> ReceiveError(mac[k])
                         [] k \in {n} \ f.hear /\ f.type = "beacon"
                              -> BeaconTxEnd(mac[k])
                         [] OTHER -> mac[k]]
          /\ Lost(f, heard)
          /\ delivered' = IF f.type = "data" THEN delivered \cup new(heard) ELSE delivered
    BY Zenon DEF FrameEnds
  <1>3. Alive /\ air' = [air EXCEPT ![n] = NoFrame]
    BY DEF FrameEnds
  <1>4. f \in FrameType
    BY <1>1
  <1>5. f.seq \in SequenceNumbers
    BY <1>4 DEF FrameType
  <1>6. losses' \in 0 .. MaxLosses /\ heard \subseteq Nodes /\ heard \subseteq f.hear
    BY <1>1, <1>2, <1>4, LostIsBounded
  <1>7. new(heard) \subseteq Nodes \X SequenceNumbers \X Nodes
    BY <1>5, <1>6
  <1>8. \A k \in heard : f.to \in {k, Group} => <<n, f.seq, k>> \in new(heard)
    OBVIOUS
  <1> HIDE DEF new
  <1>9. /\ delivered \subseteq delivered'
        /\ delivered' \subseteq Nodes \X SequenceNumbers \X Nodes
        /\ f.type = "data" =>
             \A k \in heard : f.to \in {k, Group} => <<n, f.seq, k>> \in delivered'
    BY <1>1, <1>2, <1>7, <1>8
  <1>10. f.type = "beacon" => Calm(mac[n])
    BY <1>3 DEF TInv, Alive
  <1> HIDE DEF f
  <1>11. ASSUME NEW k \in Nodes
         PROVE  \/ k \in heard /\ Received(k, mac[k], n, f, mac'[k])
                \/ Untouched(mac[k], mac'[k])
                \/ /\ k = n /\ f.type = "beacon" /\ Sound(mac'[k])
                   /\ mac'[k].ok = mac[k].ok /\ mac'[k].rx = mac[k].rx
                   /\ mac'[k].got = mac[k].got
    <2> DEFINE m == mac[k]
    <2>1. m.assert = "none" /\ Sound(m)
      BY <1>1, <1>3 DEF Alive
    <2>2. mac'[k] = CASE k \in heard -> ReceiveOk(k, m, n, f)
                      [] k \in f.hear \ heard -> ReceiveError(m)
                      [] k \in {n} \ f.hear /\ f.type = "beacon" -> BeaconTxEnd(m)
                      [] OTHER -> m
      BY <1>2
    <2>3. CASE k \in heard
      <3>1. mac'[k] = ReceiveOk(k, m, n, f)
        BY <1>6, <2>2, <2>3
      <3>2. Received(k, m, n, f, ReceiveOk(k, m, n, f))
        BY <1>4, <2>1, ReceiveOkFacts
      <3> QED
        BY <2>3, <3>1, <3>2
    <2>4. CASE k \in f.hear \ heard
      <3>1. mac'[k] = ReceiveError(m)
        BY <2>2, <2>4
      <3>2. Untouched(m, ReceiveError(m))
        BY <2>1, ErrorUntouched
      <3> QED
        BY <3>1, <3>2
    <2>5. CASE k \in {n} \ f.hear /\ f.type = "beacon"
      <3>1. mac'[k] = BeaconTxEnd(m)
        BY <1>6, <2>2, <2>5
      <3>2. Sound(BeaconTxEnd(m)) /\ BeaconTxEnd(m).ok = m.ok
            /\ BeaconTxEnd(m).rx = m.rx /\ BeaconTxEnd(m).got = m.got
        BY <1>10, <2>1, <2>5, BeaconTxEndFacts
      <3> QED
        BY <2>5, <3>1, <3>2
    <2>6. CASE k \notin f.hear /\ ~(k \in {n} \ f.hear /\ f.type = "beacon")
      <3>1. mac'[k] = m
        BY <1>6, <2>2, <2>6
      <3>2. Untouched(m, m)
        BY <2>1 DEF Untouched
      <3> QED
        BY <3>1, <3>2
    <2> QED
      BY <2>3, <2>4, <2>5, <2>6
  <1>12. ASSUME NEW k \in Nodes
         PROVE  Sound(mac'[k]) /\ mac'[k] \in MacType
    BY <1>11 DEF Received, Untouched, Sound, Typed
  <1>13. ASSUME NEW k \in Nodes
         PROVE  \/ k = n /\ air'[k] = NoFrame
                \/ k # n /\ air'[k] = air[k]
    BY <1>1, <1>3
  <1>14. FrameOK(NoFrame) /\ NoFrame.type = "none"
    BY NoFrameIsNone
  <1>15. TInv'
    <2>1. mac' \in [Nodes -> MacType]
      BY <1>2, <1>12
    <2>2. air' \in [Nodes -> FrameType] /\ \A k \in Nodes : air'[k].head <= air'[k].left
      <3>1. NoFrame \in FrameType /\ NoFrame.head <= NoFrame.left
        BY <1>14 DEF FrameOK
      <3> QED
        BY <1>1, <1>3, <1>13, <3>1
    <2>3. TypeOK'
      BY <1>6, <1>9, <2>1, <2>2 DEF TypeOK
    <2>4. ASSUME NEW k \in Nodes, air'[k].type = "beacon", mac'[k].assert = "none"
          PROVE  Calm(mac'[k])
      <3>1. k # n /\ air[k].type = "beacon"
        BY <1>13, <1>14, <2>4
      <3>2. Calm(mac[k])
        BY <1>3, <3>1 DEF TInv, Alive
      <3> QED
        BY <1>11, <2>4, <3>1, <3>2 DEF Received, Untouched
    <2> QED
      BY <1>12, <2>2, <2>3, <2>4 DEF TInv
  <1>16. ASSUME NEW k \in Nodes, mac'[k].rx.with \in Nodes, NEW s \in mac'[k].got
         PROVE  <<mac'[k].rx.with, s, k>> \in delivered'
    <2>1. CASE mac'[k].rx = mac[k].rx /\ s \in mac[k].got
      BY <1>9, <1>16, <2>1 DEF AInv
    <2>2. CASE /\ k \in heard /\ mac'[k].rx = mac[k].rx /\ s = f.seq
               /\ f.type = "data" /\ f.to \in {k, Group} /\ mac[k].rx.with = n
      BY <1>9, <2>2
    <2>3. \/ mac'[k].rx = mac[k].rx /\ s \in mac[k].got
          \/ /\ k \in heard /\ mac'[k].rx = mac[k].rx /\ s = f.seq
             /\ f.type = "data" /\ f.to \in {k, Group} /\ mac[k].rx.with = n
      <3>1. CASE k \in heard /\ Received(k, mac[k], n, f, mac'[k])
        BY <1>16, <3>1 DEF Received
      <3>2. CASE mac'[k].rx = mac[k].rx /\ mac'[k].got = mac[k].got
        BY <1>16, <3>2
      <3> QED
        BY <1>11, <3>1, <3>2 DEF Untouched
    <2> QED
      BY <2>1, <2>2, <2>3
  <1>17. ASSUME NEW k \in Nodes, air'[k].type = "ack", air'[k].to \in Nodes,
                NEW s \in air'[k].got
         PROVE  <<air'[k].to, s, k>> \in delivered'
    <2>1. air'[k] = air[k]
      BY <1>13, <1>14, <1>17
    <2> QED
      BY <1>9, <1>17, <2>1 DEF AInv
  <1>18. ASSUME NEW k \in Nodes, NEW s \in mac'[k].ok
         PROVE  \E j \in Nodes : <<k, s, j>> \in delivered'
    <2>1. CASE s \in mac[k].ok
      BY <1>9, <2>1 DEF AInv, AckedWasReceived
    <2>2. CASE f.type = "ack" /\ f.to = k /\ s \in f.got
      <3>1. <<k, s, n>> \in delivered
        BY <2>2 DEF AInv, f
      <3> QED
        BY <1>9, <3>1
    <2>3. s \in mac[k].ok \/ (f.type = "ack" /\ f.to = k /\ s \in f.got)
      <3>1. CASE k \in heard /\ Received(k, mac[k], n, f, mac'[k])
        BY <1>18, <3>1 DEF Received
      <3>2. CASE mac'[k].ok = mac[k].ok
        BY <1>18, <3>2
      <3> QED
        BY <1>11, <3>1, <3>2 DEF Untouched
    <2> QED
      BY <2>1, <2>2, <2>3
  <1>19. AckedWasReceived'
    BY <1>18 DEF AckedWasReceived
  <1> QED
    BY <1>15, <1>16, <1>17, <1>19 DEF AInv

LEMMA InitStep ==
    ASSUME Init
    PROVE  TInv /\ AInv
  <1>1. ASSUME NEW n \in Nodes
        PROVE  MacInit \in MacType
    <2> DEFINE queue == [d \in Dests |-> 0]
               owed == [d \in Nodes |-> 0]
    <2>1. /\ NoInfo \in InfoType /\ NoEvent \in EventType /\ 0 \in SequenceNumbers
          /\ queue \in [Dests -> Nat] /\ owed \in [Nodes -> Nat]
      BY NoInfoType, EventTypes, Constants
    <2>2. 0 \in 0 .. MostPackets
      BY MostPacketsBound, Constants
    <2>3. "none" \in Assertions
      BY DEF Assertions
    <2>4. MacInit =
            [accessing |-> FALSE, dropped |-> FALSE, request |-> "none", wait |-> 0, nav |-> -1,
             queue |-> queue, requests |-> {},
             tx |-> NoInfo, rx |-> NoInfo, got |-> {},
             bulk |-> -1, responseTimeout |-> -1, ackTimeout |-> -1, told |-> FALSE,
             ifs |-> NoEvent, response |-> -1, sendAck |-> NoEvent, buffer |-> 0,
             records |-> {}, to |-> 0, seq |-> 0, beaconEvent |-> TRUE, given |-> 0,
             beacons |-> 0, expired |-> 0, owed |-> owed, ok |-> {}, assert |-> "none"]
      BY DEF MacInit
    <2> HIDE DEF queue, owed
    <2> QED
      BY <2>1, <2>2, <2>3, <2>4 DEF MacType
  <1>2. ASSUME NEW n \in Nodes
        PROVE  Sound(MacInit)
    <2>1. /\ MacInit.ifs = NoEvent /\ MacInit.requests = {} /\ MacInit.to = 0
          /\ MacInit.queue = [d \in Dests |-> 0] /\ MacInit.owed = [d \in Nodes |-> 0]
          /\ MacInit.given = 0 /\ MacInit.buffer = 0
          /\ MacInit.bulk = -1 /\ MacInit.responseTimeout = -1 /\ MacInit.ackTimeout = -1
      BY DEF MacInit
    <2>2. \A d \in Nodes : MacInit.owed[d] = 0 /\ MacInit.queue[d] = 0 /\ d # 0
      BY <2>1, Constants DEF Dests
    <2>3. \A d \in Dests : MacInit.queue[d] = 0
      BY <2>1
    <2>4. NoEvent.run = "none" /\ ~Running(NoEvent.left)
      BY DEF NoEvent, Running
    <2>5. Typed(MacInit)
      BY <1>1, <2>1, <2>2, <2>3, <2>4 DEF Typed
    <2>6. Phases(MacInit)
      BY <2>1, <2>4 DEF Phases, Active, Continues, Running
    <2>7. Scheduled(MacInit)
      BY <2>1, <2>3 DEF Scheduled, HasAnyAccessRequest
    <2> QED
      BY <2>5, <2>6, <2>7 DEF Sound
  <1>3. /\ mac = [n \in Nodes |-> MacInit] /\ air = [n \in Nodes |-> NoFrame]
        /\ losses = 0 /\ delivered = {}
    BY DEF Init
  <1>4. ASSUME NEW n \in Nodes
        PROVE  FrameOK(NoFrame) /\ NoFrame.type = "none"
    BY NoFrameIsNone
  <1>5. ASSUME NEW n \in Nodes
        PROVE  MacInit.got = {} /\ MacInit.ok = {} /\ mac[n] = MacInit /\ air[n] = NoFrame
    BY <1>3 DEF MacInit
  <1>6. TypeOK
    <2>1. 0 \in 0 .. MaxLosses
      BY Constants
    <2>2. mac \in [Nodes -> MacType]
      BY <1>1, <1>3
    <2>3. air \in [Nodes -> FrameType]
      BY <1>3, <1>4 DEF FrameOK
    <2> QED
      BY <1>3, <2>1, <2>2, <2>3 DEF TypeOK
  <1>7. TInv
    <2>1. ASSUME NEW n \in Nodes
          PROVE  Sound(mac[n]) /\ air[n].head <= air[n].left /\ air[n].type = "none"
      BY <1>2, <1>4, <1>5 DEF FrameOK
    <2> QED
      BY <1>6, <2>1 DEF TInv
  <1>8. AInv
    BY <1>4, <1>5 DEF AInv, AckedWasReceived
  <1> QED
    BY <1>7, <1>8

LEMMA NextStep ==
    ASSUME TInv, AInv, [Next]_vars
    PROVE  TInv' /\ AInv'
  <1>1. CASE UNCHANGED vars
    <2>1. TInv'
      BY <1>1 DEF TInv, TypeOK, vars
    <2>2. AInv'
      BY <1>1 DEF AInv, AckedWasReceived, vars
    <2> QED
      BY <2>1, <2>2
  <1>2. CASE Tick
    BY <1>2, TickStep
  <1>3. ASSUME NEW n \in Nodes, NEW d \in Dests \ {n}, Queue(n, d)
        PROVE  TInv' /\ AInv'
    <2> DEFINE p == [mac[n] EXCEPT !.queue[d] = @ + 1, !.given = @ + 1,
                                   !.owed = Reports(@, d, 1)]
               r == Quietly(StartAccessIfNeed(p))
    <2>1. Alive /\ Becomes(n, r) /\ mac[n].given < MaxPackets[n] /\ Sound(mac[n])
      BY <1>3 DEF Queue, Runs, TInv
    <2>2. Handled(mac[n], r)
      BY <2>1, QueueHandled
    <2> HIDE DEF r
    <2> QED
      BY <2>1, <2>2, HandlerStep
  <1>4. ASSUME NEW n \in Nodes, NEW d \in Dests \ {n}, Expire(n, d)
        PROVE  TInv' /\ AInv'
    <2> DEFINE p == [mac[n] EXCEPT !.queue[d] = @ - 1, !.expired = @ + 1,
                                   !.owed = Reports(@, d, -1)]
               r == Quietly(p)
    <2>1. Alive /\ Becomes(n, r) /\ mac[n].queue[d] > 0 /\ Sound(mac[n])
      BY <1>4 DEF Expire, Runs, TInv
    <2>2. Handled(mac[n], r)
      BY <2>1, ExpireHandled
    <2> HIDE DEF r
    <2> QED
      BY <2>1, <2>2, HandlerStep
  <1>5. ASSUME NEW n \in Nodes, StartBeacon(n)
        PROVE  TInv' /\ AInv'
    <2> DEFINE r == Quietly([mac[n] EXCEPT !.beaconEvent = FALSE, !.beacons = @ + 1,
                                           !.request = "beacon"])
    <2>1. Alive /\ Becomes(n, r) /\ Sound(mac[n])
      BY <1>5 DEF StartBeacon, Runs, TInv
    <2>2. Handled(mac[n], r)
      BY <2>1, StartBeaconHandled
    <2> HIDE DEF r
    <2> QED
      BY <2>1, <2>2, HandlerStep
  <1>6. ASSUME NEW n \in Nodes, RequestAccessCallback(n)
        PROVE  TInv' /\ AInv'
    <2> DEFINE m == [mac[n] EXCEPT !.request = "none"]
               r == IF mac[n].request = "beacon" THEN SendBeacon(n, m)
                    ELSE SendBulkAccessRequest(n, m)
    <2>1. Alive /\ Becomes(n, r) /\ Sound(mac[n])
      BY <1>6 DEF RequestAccessCallback, Runs, TInv
    <2>2. Handled(mac[n], SendBeacon(n, m)) /\ Handled(mac[n], SendBulkAccessRequest(n, m))
      BY <2>1, RequestAccessCallbackHandled DEF Alive
    <2>3. Handled(mac[n], r)
      BY <2>2
    <2> HIDE DEF r
    <2> QED
      BY <2>1, <2>3, HandlerStep
  <1>7. ASSUME NEW n \in Nodes, WaitIfs(n)
        PROVE  TInv' /\ AInv'
    <2> DEFINE p == [mac[n] EXCEPT !.ifs = NoEvent]
               r == CASE mac[n].ifs.run = "WaitIfsAfterEndTxPacket"
                           -> WaitIfsAfterEndTxPacket(n, p)
                      [] mac[n].ifs.run = "StartNewBulkAccess" -> StartNewBulkAccess(n, p)
                      [] mac[n].ifs.run = "SendBulkAccessRequest"
                           -> SendBulkAccessRequest(n, p)
    <2>1. Alive /\ Becomes(n, r) /\ mac[n].ifs.left = 0 /\ Sound(mac[n])
      BY <1>7, Zenon DEF WaitIfs, Runs, TInv
    <2>2. Handled(mac[n], r)
      BY <2>1, WaitIfsHandled DEF Alive
    <2> HIDE DEF r
    <2> QED
      BY <2>1, <2>2, HandlerStep
  <1>8. ASSUME NEW n \in Nodes, Respond(n)
        PROVE  TInv' /\ AInv'
    <2> DEFINE r == SendBulkResponseAfterRequest(n, [mac[n] EXCEPT !.response = -1])
    <2>1. Alive /\ Becomes(n, r) /\ Sound(mac[n])
      BY <1>8 DEF Respond, Runs, TInv
    <2>2. Handled(mac[n], r)
      BY <2>1, RespondHandled
    <2> HIDE DEF r
    <2> QED
      BY <2>1, <2>2, HandlerStep
  <1>9. ASSUME NEW n \in Nodes, Acknowledge(n)
        PROVE  TInv' /\ AInv'
    <2> DEFINE m == [mac[n] EXCEPT !.sendAck = NoEvent]
               r == IF mac[n].sendAck.run = "SendAckAfterData" THEN SendAckAfterData(n, m)
                    ELSE ReadySendAckAfterData(n, m)
    <2>1. Alive /\ Becomes(n, r) /\ Sound(mac[n])
      BY <1>9 DEF Acknowledge, Runs, TInv
    <2>2. Handled(mac[n], SendAckAfterData(n, m))
          /\ Handled(mac[n], ReadySendAckAfterData(n, m))
      BY <2>1, AcknowledgeHandled
    <2>3. Handled(mac[n], r)
      BY <2>2
    <2> HIDE DEF r
    <2> QED
      BY <2>1, <2>3, HandlerStep
  <1>10. ASSUME NEW n \in Nodes, BulkEnds(n)
         PROVE  TInv' /\ AInv'
    <2> DEFINE r == Quietly(EndBulkAccess([mac[n] EXCEPT !.bulk = -1]))
    <2>1. Alive /\ Becomes(n, r) /\ mac[n].bulk = 0 /\ Sound(mac[n])
      BY <1>10 DEF BulkEnds, Runs, TInv
    <2>2. Handled(mac[n], r)
      BY <2>1, BulkEndsHandled DEF Alive
    <2> HIDE DEF r
    <2> QED
      BY <2>1, <2>2, HandlerStep
  <1>11. ASSUME NEW n \in Nodes, ResponseMissed(n)
         PROVE  TInv' /\ AInv'
    <2> DEFINE r == Quietly(BulkTimeout([mac[n] EXCEPT !.responseTimeout = -1]))
    <2>1. Alive /\ Becomes(n, r) /\ mac[n].responseTimeout = 0 /\ Sound(mac[n])
      BY <1>11 DEF ResponseMissed, Runs, TInv
    <2>2. Handled(mac[n], r)
      BY <2>1, ResponseMissedHandled DEF Alive
    <2> HIDE DEF r
    <2> QED
      BY <2>1, <2>2, HandlerStep
  <1>12. ASSUME NEW n \in Nodes, AckMissed(n)
         PROVE  TInv' /\ AInv'
    <2> DEFINE r == Quietly(BulkAckTimeout([mac[n] EXCEPT !.ackTimeout = -1]))
    <2>1. Alive /\ Becomes(n, r) /\ mac[n].ackTimeout = 0 /\ Sound(mac[n])
      BY <1>12 DEF AckMissed, Runs, TInv
    <2>2. Handled(mac[n], r)
      BY <2>1, AckMissedHandled DEF Alive
    <2> HIDE DEF r
    <2> QED
      BY <2>1, <2>2, HandlerStep
  <1>13. ASSUME NEW n \in Nodes, PayloadStarts(n)
         PROVE  TInv' /\ AInv'
    BY <1>13, PayloadStartsStep
  <1>14. ASSUME NEW n \in Nodes, FrameEnds(n)
         PROVE  TInv' /\ AInv'
    BY <1>14, FrameEndsStep
  <1> QED
    BY <1>1, <1>2, <1>3, <1>4, <1>5, <1>6, <1>7, <1>8, <1>9, <1>10, <1>11, <1>12,
       <1>13, <1>14, Zenon DEF Next

---------------------------------------------------------------------------
(* The theorems.                                                           *)

\* The invariants hold of every behaviour.
LEMMA Invariants == Spec => [](TInv /\ AInv)
  <1>1. Init => TInv /\ AInv
    BY InitStep
  <1>2. (TInv /\ AInv) /\ [Next]_vars => (TInv /\ AInv)'
    BY NextStep
  <1> QED
    BY <1>1, <1>2, PTL DEF Spec

\* The members of every low MAC and Txop, and the frames on the air, keep their
\* types: no timer becomes negative, no queue holds more packets than it was
\* given, and no more packets are reported than are owed.
THEOREM TypeCorrectness == Spec => []TypeOK
  <1>1. TInv /\ AInv => TypeOK
    BY DEF TInv
  <1> QED
    BY <1>1, Invariants, PTL

\* A node with packets never forgets them, whatever beacons, timeouts, losses
\* and expired packets come together: it is accessing the channel, has a
\* request pending, or will access the channel after its beacon.
THEOREM WorkIsNeverForgotten == Spec => []WorkIsScheduled
  <1>1. TInv /\ AInv => WorkIsScheduled
    BY DEF TInv, Sound, Scheduled, WorkIsScheduled, Alive
  <1> QED
    BY <1>1, Invariants, PTL

\* A packet is reported to TxOk only if its receiver has it, whatever is lost
\* and however bulks, retries and early acknowledgments overlap.
THEOREM AckedPacketsArrived == Spec => []AckedWasReceived
  <1>1. TInv /\ AInv => AckedWasReceived
    BY DEF AInv
  <1> QED
    BY <1>1, Invariants, PTL

\* The phases of an access follow one another: while a bulk runs or an answer is
\* waited for the node accesses the channel, at most one of the three timers
\* runs, and the next destination's turn comes only when none does.
THEOREM PhasesFollowOneAnother ==
    Spec => [](Alive => \A n \in Nodes : Phases(mac[n]))
  <1>1. TInv /\ AInv => (Alive => \A n \in Nodes : Phases(mac[n]))
    BY DEF TInv, Sound, Alive
  <1> QED
    BY <1>1, Invariants, PTL

\* No packet is reported twice, or reported or expired while it is still held: of
\* no destination are fewer reports owed than packets of it are held.  That no more
\* are owed either is NothingVanishes, which depends on lengths and losses.
THEOREM NothingIsReportedTwice ==
    Spec => [](\A n, d \in Nodes :
                 LET m == mac[n]
                 IN  m.owed[d] >= m.queue[d]
                       + (IF m.to = d THEN m.buffer + Cardinality(m.records) ELSE 0))
  <1>1. TInv /\ AInv => \A n, d \in Nodes :
                           LET m == mac[n]
                           IN  m.owed[d] >= m.queue[d]
                                 + (IF m.to = d THEN m.buffer + Cardinality(m.records) ELSE 0)
    BY DEF TInv, Sound, Typed
  <1> QED
    BY <1>1, Invariants, PTL
=============================================================================
