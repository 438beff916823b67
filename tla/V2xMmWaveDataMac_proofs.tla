------------------------ MODULE V2xMmWaveDataMac_proofs ------------------------
(***************************************************************************)
(* Proofs about the exchange of data in contention free periods, for every *)
(* number of nodes and every value of the constants: the queue stays in    *)
(* order, an exchange fits the period it begins in, the MAC's assertions   *)
(* hold, and an acknowledgment is never taken for another packet's.        *)
(***************************************************************************)
EXTENDS V2xMmWaveNetDevice_proofs, NumberLemmas, SequenceTheorems

\* An acknowledgment owed for an earlier packet leaves before a later packet
\* is over: SIFS is 2000 ns, a frame's preamble alone 3575 ns.
SifsIsShort == Sifs < DataTx

---------------------------------------------------------------------------
(* The inductive invariant.                                                *)

\* A data frame for d and its acknowledgment.
Reply(d) == IF d = Group THEN 0 ELSE Sifs + AckTx
Exchange(d) == DataTx + Reply(d)

\* Packets for one destination in the order they came in, all of them later
\* than the last one sent.
Ordered(q, sent, given) ==
    /\ \A i \in DOMAIN q : sent[q[i].to] < q[i].id /\ q[i].id <= given
    /\ \A i, j \in DOMAIN q : i < j /\ q[i].to = q[j].to => q[i].id < q[j].id

\* A device whose pending transmission fits its period, and whose timers run
\* only for a packet.
Sound(m) ==
    /\ m \in DeviceType
    /\ m.period <= TxDuration
    /\ m.sendAck <= Sifs
    /\ Running(m.send) => m.packet \in Packets /\ m.period >= m.send + Exchange(m.packet.to)
    /\ Running(m.ackTimeout) => m.current \in Packets
    /\ Running(m.endTx) => m.current \in Packets /\ m.current.to = Group
    /\ \A d \in Dests : m.sent[d] <= m.given
    /\ Ordered(m.queue, m.sent, m.given)

\* What a node sends is the packet its device has in hand, and fits.
Fits(f, m) ==
    f.type = "data" =>
        /\ m.current.to = f.to /\ m.current.id = f.id
        /\ m.period >= f.left + Reply(f.to)

DInv ==
    /\ dev \in [Nodes -> DeviceType]
    /\ \A n \in Nodes : Sound(dev[n])
    /\ air \in [Nodes -> FrameType \cup {NoFrame}]
    /\ \A n \in Nodes : OnAir(n) => air[n].left <= DataTx + AckTx /\ Fits(air[n], dev[n])
    /\ losses \in 0 .. MaxLosses
    /\ received \subseteq Nodes \X Nat \X Nodes

\* Nobody sends and hears at once, or hears two frames, or sends and owes an
\* acknowledgment; one that is owed leaves before the next data is there.
HInv ==
    /\ \A n, k \in Nodes : OnAir(n) /\ k \in air[n].hear => ~OnAir(k)
    /\ \A n, k \in Nodes : OnAir(n) /\ OnAir(k) /\ n # k => air[n].hear \cap air[k].hear = {}
    /\ \A k \in Nodes : OnAir(k) => ~Running(dev[k].sendAck)
    /\ \A n, k \in Nodes :
         /\ OnAir(n) /\ air[n].type = "data" /\ k \in air[n].hear /\ Running(dev[k].sendAck)
         => air[n].left > dev[k].sendAck
    /\ failed = "none"

\* Node k has the packet node n waits for the acknowledgment of.
Got(n, k) == dev[n].current.to = k /\ <<n, dev[n].current.id, k>> \in received

\* Whoever waits for an acknowledgment is owed, or hears, that of the packet in
\* hand; one owed for an earlier packet is over before the packet in hand is.
RInv ==
    /\ \A n, k \in Nodes :
         /\ Running(dev[k].sendAck) /\ dev[k].ackTo = n /\ Running(dev[n].ackTimeout)
         => \/ OnAir(n) /\ air[n].type = "data" /\ air[n].left > dev[k].sendAck
            \/ Got(n, k)
    /\ \A n, k \in Nodes :
         /\ OnAir(k) /\ air[k].type = "ack" /\ air[k].to = n /\ n \in air[k].hear
         /\ Running(dev[n].ackTimeout)
         => Got(n, k)
    /\ AckedWasReceived

---------------------------------------------------------------------------
(* Sequences.                                                              *)

\* A sequence without its i-th element.
LEMMA Without ==
    ASSUME NEW S, NEW q \in Seq(S), NEW i \in 1 .. Len(q)
    PROVE  /\ RemoveAt(q, i) \in Seq(S)
           /\ Len(RemoveAt(q, i)) = Len(q) - 1
           /\ \A j \in 1 .. Len(q) - 1 :
                RemoveAt(q, i)[j] = IF j < i THEN q[j] ELSE q[j + 1]
  <1> DEFINE s == SubSeq(q, 1, i - 1)
             t == SubSeq(q, i + 1, Len(q))
  <1>1. Len(q) \in Nat /\ i \in Nat /\ 1 <= i /\ i <= Len(q)
    OBVIOUS
  <1>2. \A j \in 1 .. Len(q) : q[j] \in S
    OBVIOUS
  <1>3. /\ s \in Seq(S)
        /\ Len(s) = i - 1
        /\ \A j \in 1 .. i - 1 : s[j] = q[j]
    <2>1. \A j \in 1 .. i - 1 : q[j] \in S
      BY <1>1, <1>2
    <2>2. 1 \in Int /\ i - 1 \in Int
      BY <1>1
    <2>3. /\ s \in Seq(S)
          /\ Len(s) = IF 1 <= i - 1 THEN i - 1 - 1 + 1 ELSE 0
          /\ \A j \in 1 .. i - 1 - 1 + 1 : s[j] = q[1 + j - 1]
      BY <2>1, <2>2, SubSeqProperties
    <2> HIDE DEF s
    <2> QED
      BY <1>1, <2>3
  <1>4. /\ t \in Seq(S)
        /\ Len(t) = Len(q) - i
        /\ \A j \in 1 .. Len(q) - i : t[j] = q[i + j]
    <2>1. \A j \in i + 1 .. Len(q) : q[j] \in S
      BY <1>1, <1>2
    <2>2. i + 1 \in Int /\ Len(q) \in Int
      BY <1>1
    <2>3. /\ t \in Seq(S)
          /\ Len(t) = IF i + 1 <= Len(q) THEN Len(q) - (i + 1) + 1 ELSE 0
          /\ \A j \in 1 .. Len(q) - (i + 1) + 1 : t[j] = q[i + 1 + j - 1]
      BY <2>1, <2>2, SubSeqProperties
    <2> HIDE DEF t
    <2> QED
      BY <1>1, <2>3
  <1> HIDE DEF s, t
  <1>5. /\ s \o t \in Seq(S)
        /\ Len(s \o t) = Len(s) + Len(t)
        /\ \A j \in 1 .. Len(s) + Len(t) :
             (s \o t)[j] = IF j <= Len(s) THEN s[j] ELSE t[j - Len(s)]
    BY <1>3, <1>4, ConcatProperties
  <1>6. RemoveAt(q, i) = s \o t
    BY DEF RemoveAt, s, t
  <1>7. \A j \in 1 .. Len(q) - 1 : (s \o t)[j] = IF j < i THEN q[j] ELSE q[j + 1]
    <2> TAKE j \in 1 .. Len(q) - 1
    <2>1. (s \o t)[j] = IF j <= i - 1 THEN s[j] ELSE t[j - (i - 1)]
      BY <1>1, <1>3, <1>4, <1>5
    <2>2. CASE j < i
      BY <1>1, <1>3, <2>1, <2>2
    <2>3. CASE ~(j < i)
      <3>1. j - (i - 1) \in 1 .. Len(q) - i
        BY <1>1, <2>3
      <3>2. t[j - (i - 1)] = q[i + (j - (i - 1))]
        BY <1>4, <3>1
      <3>3. i + (j - (i - 1)) = j + 1 /\ ~(j <= i - 1)
        BY <1>1, <2>3
      <3> QED
        BY <2>1, <2>3, <3>2, <3>3
    <2> QED
      BY <2>2, <2>3
  <1>8. Len(s \o t) = Len(q) - 1
    BY <1>1, <1>3, <1>4, <1>5
  <1> QED
    BY <1>5, <1>6, <1>7, <1>8

\* A queue with a packet put back before its first.
LEMMA WithFront ==
    ASSUME NEW q \in Seq(Packets), NEW p \in Packets
    PROVE  /\ PushFront(q, p) \in Seq(Packets)
           /\ Len(PushFront(q, p)) = Len(q) + 1
           /\ \A j \in 1 .. Len(q) + 1 : PushFront(q, p)[j] = IF j = 1 THEN p ELSE q[j - 1]
  <1>1. <<p>> \in Seq(Packets) /\ Len(<<p>>) = 1 /\ <<p>>[1] = p /\ Len(q) \in Nat
    OBVIOUS
  <1>2. /\ <<p>> \o q \in Seq(Packets)
        /\ Len(<<p>> \o q) = 1 + Len(q)
        /\ \A j \in 1 .. 1 + Len(q) : (<<p>> \o q)[j] = IF j <= 1 THEN <<p>>[j] ELSE q[j - 1]
    BY <1>1, ConcatProperties
  <1> QED
    BY <1>1, <1>2 DEF PushFront

---------------------------------------------------------------------------
(* The queue.                                                              *)

\* The first packet for d is there, and none for d is before it.
LEMMA FirstPosition ==
    ASSUME NEW q \in Seq(Packets), NEW d, Has(q, d)
    PROVE  /\ First(q, d) \in 1 .. Len(q)
           /\ q[First(q, d)].to = d
           /\ \A j \in 1 .. Len(q) : q[j].to = d => First(q, d) <= j
  <1>1. Positions(q, d) \in SUBSET Nat /\ Positions(q, d) # {}
    BY DEF Positions, Has
  <1>2. Min(Positions(q, d)) \in Positions(q, d)
        /\ \A t \in Positions(q, d) : Min(Positions(q, d)) <= t
    BY <1>1, LeastNatural
  <1> QED
    BY <1>2 DEF First, Positions

\* Without its first packet for d, a queue is one of packets later than that.
LEMMA DequeueOrdered ==
    ASSUME NEW q \in Seq(Packets), NEW sent \in [Dests -> Nat], NEW given \in Nat,
           NEW d \in Dests, Ordered(q, sent, given), Has(q, d),
           NEW i, i = First(q, d), NEW r, r = RemoveAt(q, i)
    PROVE  /\ r \in Seq(Packets) /\ q[i] \in Packets /\ q[i].to = d
           /\ q[i].id <= given /\ sent[d] < q[i].id
           /\ Ordered(r, [sent EXCEPT ![d] = q[i].id], given)
           /\ Ordered(r, sent, given)
           /\ Ordered(PushFront(r, q[i]), sent, given)
  <1>1. /\ i \in 1 .. Len(q) /\ q[i].to = d
        /\ \A j \in 1 .. Len(q) : q[j].to = d => i <= j
    BY FirstPosition
  <1>2. /\ r \in Seq(Packets)
        /\ Len(r) = Len(q) - 1
        /\ \A j \in 1 .. Len(q) - 1 : r[j] = IF j < i THEN q[j] ELSE q[j + 1]
    BY <1>1, Without
  <1>3. q[i] \in Packets /\ q[i].id \in Nat /\ q[i].to \in Dests
    <2>1. q[i] \in Packets
      BY <1>1
    <2> QED
      BY <2>1 DEF Packets
  <1>4. /\ \A j \in 1 .. Len(q) : sent[q[j].to] < q[j].id /\ q[j].id <= given
        /\ \A j, k \in 1 .. Len(q) : j < k /\ q[j].to = q[k].to => q[j].id < q[k].id
        /\ \A j \in 1 .. Len(q) : q[j] \in Packets
    BY DEF Ordered
  <1>5. Len(q) \in Nat /\ DOMAIN r = 1 .. Len(q) - 1
    BY <1>2
  <1> DEFINE at(j) == IF j < i THEN j ELSE j + 1
  <1>6. \A j \in 1 .. Len(q) - 1 :
          /\ r[j] = q[at(j)] /\ at(j) \in 1 .. Len(q) /\ at(j) # i
          /\ \A k \in 1 .. Len(q) - 1 : j < k => at(j) < at(k)
    BY <1>1, <1>2, <1>5
  <1> HIDE DEF at
  <1>7. \A j \in 1 .. Len(q) - 1 : r[j].to = d => q[i].id < r[j].id
    <2> TAKE j \in 1 .. Len(q) - 1
    <2> HAVE r[j].to = d
    <2>1. i <= at(j) /\ at(j) # i /\ at(j) \in 1 .. Len(q)
      BY <1>1, <1>6
    <2>2. i < at(j)
      BY <1>1, <2>1
    <2> QED
      BY <1>1, <1>4, <1>6, <2>1, <2>2
  <1>8. Ordered(r, sent, given)
    <2>1. \A j \in DOMAIN r : sent[r[j].to] < r[j].id /\ r[j].id <= given
      BY <1>4, <1>5, <1>6
    <2>2. \A j, k \in DOMAIN r : j < k /\ r[j].to = r[k].to => r[j].id < r[k].id
      <3> TAKE j, k \in DOMAIN r
      <3> HAVE j < k /\ r[j].to = r[k].to
      <3>1. at(j) < at(k) /\ at(j) \in 1 .. Len(q) /\ at(k) \in 1 .. Len(q)
        BY <1>5, <1>6
      <3>2. r[j] = q[at(j)] /\ r[k] = q[at(k)]
        BY <1>5, <1>6
      <3> QED
        BY <1>4, <3>1, <3>2
    <2> QED
      BY <2>1, <2>2 DEF Ordered
  <1>9. Ordered(r, [sent EXCEPT ![d] = q[i].id], given)
    <2>1. \A j \in 1 .. Len(q) - 1 : r[j].to \in Dests
      BY <1>4, <1>6 DEF Packets
    <2>2. \A j \in DOMAIN r : [sent EXCEPT ![d] = q[i].id][r[j].to] < r[j].id
      <3> TAKE j \in DOMAIN r
      <3>1. CASE r[j].to = d
        BY <1>5, <1>7, <3>1
      <3>2. CASE r[j].to # d
        BY <1>5, <1>8, <2>1, <3>2 DEF Ordered
      <3> QED
        BY <3>1, <3>2
    <2> QED
      BY <1>8, <2>2 DEF Ordered
  <1>10. Ordered(PushFront(r, q[i]), sent, given)
    <2> DEFINE f == PushFront(r, q[i])
    <2>1. /\ f \in Seq(Packets) /\ Len(f) = Len(q)
          /\ \A j \in 1 .. Len(q) : f[j] = IF j = 1 THEN q[i] ELSE r[j - 1]
      <3>1. /\ f \in Seq(Packets) /\ Len(f) = Len(r) + 1
            /\ \A j \in 1 .. Len(r) + 1 : f[j] = IF j = 1 THEN q[i] ELSE r[j - 1]
        BY <1>2, <1>3, WithFront
      <3> HIDE DEF f
      <3>2. Len(r) + 1 = Len(q)
        BY <1>2, <1>5
      <3> QED
        BY <3>1, <3>2
    <2>2. DOMAIN f = 1 .. Len(q)
      BY <2>1
    <2> HIDE DEF f
    <2>3. \A j \in 1 .. Len(q) : j # 1 => j - 1 \in 1 .. Len(q) - 1
      BY <1>5
    <2>4. \A j \in DOMAIN f : sent[f[j].to] < f[j].id /\ f[j].id <= given
      <3> TAKE j \in DOMAIN f
      <3>1. CASE j = 1
        BY <1>1, <1>4, <2>1, <2>2, <3>1
      <3>2. CASE j # 1
        BY <1>5, <1>8, <2>1, <2>2, <2>3, <3>2 DEF Ordered
      <3> QED
        BY <3>1, <3>2
    <2>5. \A j, k \in DOMAIN f : j < k /\ f[j].to = f[k].to => f[j].id < f[k].id
      <3> TAKE j, k \in DOMAIN f
      <3> HAVE j < k /\ f[j].to = f[k].to
      <3>1. j \in 1 .. Len(q) /\ k \in 1 .. Len(q) /\ k # 1
        BY <1>5, <2>2
      <3>2. k - 1 \in 1 .. Len(q) - 1 /\ f[k] = r[k - 1]
        BY <2>1, <2>3, <3>1
      <3>3. CASE j = 1
        BY <1>1, <1>7, <2>1, <3>1, <3>2, <3>3
      <3>4. CASE j # 1
        <4>1. j - 1 \in 1 .. Len(q) - 1 /\ f[j] = r[j - 1] /\ j - 1 < k - 1
          BY <1>5, <2>1, <2>3, <3>1, <3>4
        <4> QED
          BY <1>5, <1>8, <3>2, <4>1 DEF Ordered
      <3> QED
        BY <3>3, <3>4
    <2> QED
      BY <2>4, <2>5 DEF Ordered, f
  <1> QED
    BY <1>1, <1>2, <1>3, <1>4, <1>8, <1>9, <1>10

\* A packet given to the device is later than all before it.
LEMMA EnqueueOrdered ==
    ASSUME NEW q \in Seq(Packets), NEW sent \in [Dests -> Nat], NEW given \in Nat,
           NEW p \in Packets, p.id = given + 1, \A d \in Dests : sent[d] <= given,
           Ordered(q, sent, given)
    PROVE  Append(q, p) \in Seq(Packets) /\ Ordered(Append(q, p), sent, given + 1)
  <1> DEFINE a == Append(q, p)
  <1>1. /\ a \in Seq(Packets) /\ Len(a) = Len(q) + 1 /\ Len(q) \in Nat
        /\ \A j \in 1 .. Len(q) + 1 : a[j] = IF j = Len(q) + 1 THEN p ELSE q[j]
    OBVIOUS
  <1>2. DOMAIN a = 1 .. Len(q) + 1
    BY <1>1
  <1> HIDE DEF a
  <1>3. \A j \in 1 .. Len(q) : q[j] \in Packets /\ q[j].id \in Nat /\ q[j].to \in Dests
    <2>1. \A j \in 1 .. Len(q) : q[j] \in Packets
      OBVIOUS
    <2> QED
      BY <2>1 DEF Packets
  <1>4. p.to \in Dests
    BY DEF Packets
  <1>5. \A j \in DOMAIN a : sent[a[j].to] < a[j].id /\ a[j].id <= given + 1
    <2> TAKE j \in DOMAIN a
    <2>1. CASE j = Len(q) + 1
      BY <1>1, <1>2, <1>4, <2>1
    <2>2. CASE j # Len(q) + 1
      <3>1. j \in 1 .. Len(q) /\ a[j] = q[j]
        BY <1>1, <1>2, <2>2
      <3> QED
        BY <1>3, <3>1 DEF Ordered
    <2> QED
      BY <2>1, <2>2
  <1>6. \A j, k \in DOMAIN a : j < k /\ a[j].to = a[k].to => a[j].id < a[k].id
    <2> TAKE j, k \in DOMAIN a
    <2> HAVE j < k /\ a[j].to = a[k].to
    <2>1. j \in 1 .. Len(q) /\ a[j] = q[j]
      BY <1>1, <1>2
    <2>2. CASE k = Len(q) + 1
      BY <1>1, <1>2, <1>3, <2>1, <2>2 DEF Ordered
    <2>3. CASE k # Len(q) + 1
      <3>1. k \in 1 .. Len(q) /\ a[k] = q[k]
        BY <1>1, <1>2, <2>3
      <3> QED
        BY <2>1, <3>1 DEF Ordered
    <2> QED
      BY <2>2, <2>3
  <1> QED
    BY <1>1, <1>5, <1>6 DEF Ordered, a

---------------------------------------------------------------------------
(* The device's handlers.                                                  *)

\* A handler that looks for a packet to send leaves the device sound, its
\* period no shorter, and the exchange that is going on alone.
Keeps(m, k) ==
    /\ Sound(k)
    /\ k.period >= m.period
    /\ k.ackTimeout = m.ackTimeout /\ k.endTx = m.endTx
    /\ k.sendAck = m.sendAck /\ k.ackTo = m.ackTo
    /\ k.current = m.current /\ k.ok = m.ok

LEMMA Durations ==
    /\ Sifs \in Nat /\ Sifs > 0 /\ Slot \in Nat /\ HeadTx \in Nat /\ HeadTx > 0
    /\ DataTx \in Nat /\ DataTx > HeadTx /\ AckTx \in Nat /\ AckTx > HeadTx
    /\ AckTimeout \in Nat /\ TxDuration \in Nat /\ TxDuration > 0
    /\ \A d : Reply(d) \in Nat /\ Exchange(d) \in Nat /\ Exchange(d) > 0
    /\ \A d : Needs(d) = Sifs + Exchange(d)
    /\ Group \in Dests /\ Group \notin Nodes /\ Nodes \subseteq Dests
    /\ -1 \in Timer /\ Nat \subseteq Timer /\ MaxLosses \in Nat
  BY NetDeviceAssumption, TxDurationAssumption
     DEF AckTimeout, Reply, Exchange, Needs, Dests, Timer

LEMMA DeviceFields ==
    ASSUME NEW m \in DeviceType
    PROVE  /\ m.queue \in Seq(Packets)
           /\ m.wait \in Timer /\ m.period \in Timer /\ m.rx \in Dests
           /\ m.tryAgain \in Timer /\ m.macTryAgain \in Timer /\ m.send \in Timer
           /\ m.packet \in {None} \cup Packets /\ m.current \in {None} \cup Packets
           /\ m.ackTimeout \in Timer /\ m.endTx \in Timer /\ m.sendAck \in Timer
           /\ m.ackTo \in Dests /\ m.ok \in SUBSET Packets /\ m.given \in Nat
           /\ m.sent \in [Dests -> Nat]
           /\ m.period \in Int /\ m.send \in Int /\ m.sendAck \in Int
           /\ m.ackTimeout \in Int /\ m.endTx \in Int
  <1>1. Timer \subseteq Int
    BY DEF Timer
  <1> QED
    BY <1>1 DEF DeviceType

LEMMA KeepsItself ==
    ASSUME NEW m, Sound(m)
    PROVE  Keeps(m, m)
  BY DeviceFields DEF Keeps, Sound

LEMMA KeepsKept ==
    ASSUME NEW m, NEW k, NEW l, Sound(m), Keeps(m, k), Keeps(k, l)
    PROVE  Keeps(m, l)
  <1>1. m.period \in Int /\ k.period \in Int /\ l.period \in Int
    BY DeviceFields DEF Keeps, Sound
  <1> QED
    BY <1>1 DEF Keeps

\* A packet that fits is sent a SIFS later; one that does not is put back.
LEMMA OfferSound ==
    ASSUME NEW m, Sound(m), NEW d \in Dests, Has(m.queue, d), ~Running(m.send)
    PROVE  Keeps(m, Offer(m, d))
  <1> DEFINE q == m.queue
             i == First(q, d)
             p == q[i]
             r == RemoveAt(q, i)
             sent == [m.sent EXCEPT ![d] = p.id]
  <1>1. m \in DeviceType
    BY DEF Sound
  <1>2. /\ r \in Seq(Packets) /\ p \in Packets /\ p.to = d
        /\ p.id <= m.given /\ m.sent[d] < p.id
        /\ Ordered(r, sent, m.given)
        /\ Ordered(PushFront(r, p), m.sent, m.given)
    <2>1. /\ q \in Seq(Packets) /\ m.sent \in [Dests -> Nat] /\ m.given \in Nat
          /\ Ordered(q, m.sent, m.given)
      BY <1>1, DeviceFields DEF Sound
    <2> QED
      BY <2>1, DequeueOrdered
  <1>3. p.id \in Nat
    BY <1>2 DEF Packets
  <1>4. sent \in [Dests -> Nat] /\ \A e \in Dests : sent[e] <= m.given
    BY <1>1, <1>2, <1>3, DeviceFields DEF Sound
  <1>5. PushFront(r, p) \in Seq(Packets)
    BY <1>2, WithFront
  <1>6. Offer(m, d) = IF m.period >= Needs(d)
                      THEN [m EXCEPT !.queue = r, !.send = Sifs, !.packet = p, !.sent[d] = p.id]
                      ELSE [m EXCEPT !.queue = PushFront(r, p)]
    BY DEF Offer
  <1>7. CASE m.period >= Needs(d)
    <2> DEFINE k == [m EXCEPT !.queue = r, !.send = Sifs, !.packet = p, !.sent = sent]
    <2>1. Offer(m, d) = k
      BY <1>1, <1>6, <1>7 DEF DeviceType
    <2> HIDE DEF sent, p, r, i
    <2>2. Sifs \in Timer
      BY Durations
    <2>3. k \in DeviceType
      BY <1>1, <1>2, <1>4, <2>2 DEF DeviceType
    <2>4. /\ k.queue = r /\ k.send = Sifs /\ k.packet = p /\ k.sent = sent
          /\ k.period = m.period /\ k.given = m.given
          /\ k.ackTimeout = m.ackTimeout /\ k.endTx = m.endTx
          /\ k.sendAck = m.sendAck /\ k.ackTo = m.ackTo
          /\ k.current = m.current /\ k.ok = m.ok
      BY <1>1 DEF DeviceType
    <2> HIDE DEF k
    <2>5. m.period >= Sifs + Exchange(d)
      BY <1>7, Durations
    <2>6. m.period \in Int
      BY <1>1, DeviceFields
    <2>7. Sound(k)
      BY <1>2, <1>4, <2>3, <2>4, <2>5 DEF Sound
    <2> QED
      BY <2>1, <2>4, <2>6, <2>7 DEF Keeps
  <1>8. CASE ~(m.period >= Needs(d))
    <2> DEFINE f == PushFront(r, p)
               k == [m EXCEPT !.queue = f]
    <2>1. Offer(m, d) = k
      BY <1>6, <1>8
    <2> HIDE DEF f
    <2>2. f \in Seq(Packets) /\ Ordered(f, m.sent, m.given)
      BY <1>2, <1>5 DEF f
    <2>3. k \in DeviceType
      BY <1>1, <2>2 DEF DeviceType
    <2>4. /\ k.queue = f /\ k.send = m.send /\ k.packet = m.packet /\ k.sent = m.sent
          /\ k.period = m.period /\ k.given = m.given
          /\ k.ackTimeout = m.ackTimeout /\ k.endTx = m.endTx
          /\ k.sendAck = m.sendAck /\ k.ackTo = m.ackTo
          /\ k.current = m.current /\ k.ok = m.ok
      BY <1>1 DEF DeviceType
    <2> HIDE DEF k
    <2>5. m.period \in Int
      BY <1>1, DeviceFields
    <2>6. Sound(k)
      BY <2>2, <2>3, <2>4 DEF Sound
    <2> QED
      BY <2>1, <2>4, <2>5, <2>6 DEF Keeps
  <1> QED
    BY <1>7, <1>8

LEMMA OfferNextSound ==
    ASSUME NEW m, Sound(m), ~Running(m.send)
    PROVE  Keeps(m, OfferNext(m))
  <1> DEFINE own == m.rx # Group /\ Has(m.queue, m.rx)
             m1 == IF own THEN Offer(m, m.rx) ELSE m
  <1>1. Keeps(m, m1)
    <2>1. m.rx \in Dests
      BY DeviceFields DEF Sound
    <2> QED
      BY <2>1, KeepsItself, OfferSound
  <1>2. OfferNext(m) = IF ~Running(m1.send) /\ Has(m1.queue, Group) THEN Offer(m1, Group) ELSE m1
    BY DEF OfferNext
  <1> HIDE DEF m1
  <1>3. CASE ~Running(m1.send) /\ Has(m1.queue, Group)
    <2>1. Sound(m1) /\ Group \in Dests
      BY <1>1, Durations DEF Keeps
    <2>2. Keeps(m1, Offer(m1, Group))
      BY <1>3, <2>1, OfferSound
    <2>3. Keeps(m, Offer(m1, Group))
      BY <1>1, <2>2, KeepsKept
    <2> QED
      BY <1>2, <1>3, <2>3
  <1>4. CASE ~(~Running(m1.send) /\ Has(m1.queue, Group))
    BY <1>1, <1>2, <1>4
  <1> QED
    BY <1>3, <1>4

\* The device's timers alone do not matter to what it sends.
SameExchange(m, k) ==
    /\ k \in DeviceType
    /\ k.queue = m.queue /\ k.given = m.given /\ k.sent = m.sent
    /\ k.period = m.period /\ k.send = m.send /\ k.packet = m.packet
    /\ k.current = m.current /\ k.ackTimeout = m.ackTimeout /\ k.endTx = m.endTx
    /\ k.sendAck = m.sendAck /\ k.ackTo = m.ackTo /\ k.ok = m.ok

LEMMA SameExchangeKeeps ==
    ASSUME NEW m, Sound(m), NEW k, SameExchange(m, k)
    PROVE  Keeps(m, k)
  <1>1. m.period \in Int
    BY DeviceFields DEF Sound
  <1> QED
    BY <1>1 DEF SameExchange, Keeps, Sound

LEMMA TimerSound ==
    ASSUME NEW m, Sound(m), NEW t \in Timer, NEW d \in Dests
    PROVE  /\ Keeps(m, [m EXCEPT !.tryAgain = t])
           /\ Keeps(m, [m EXCEPT !.macTryAgain = t])
           /\ Keeps(m, [m EXCEPT !.wait = t])
           /\ Keeps(m, [m EXCEPT !.wait = t, !.rx = d])
           /\ Keeps(m, [m EXCEPT !.rx = d])
  <1>1. m \in DeviceType
    BY DEF Sound
  <1>2. SameExchange(m, [m EXCEPT !.tryAgain = t])
    BY <1>1 DEF SameExchange, DeviceType
  <1>3. SameExchange(m, [m EXCEPT !.macTryAgain = t])
    BY <1>1 DEF SameExchange, DeviceType
  <1>4. SameExchange(m, [m EXCEPT !.wait = t])
    BY <1>1 DEF SameExchange, DeviceType
  <1>5. SameExchange(m, [m EXCEPT !.wait = t, !.rx = d])
    BY <1>1 DEF SameExchange, DeviceType
  <1>6. SameExchange(m, [m EXCEPT !.rx = d])
    BY <1>1 DEF SameExchange, DeviceType
  <1> QED
    BY <1>2, <1>3, <1>4, <1>5, <1>6, SameExchangeKeeps

\* A node that finds the PHY busy knows when to try again.
Retriable(n) == IsStateIdle(n) \/ DelayUntilIdle(n) \in Nat

LEMMA ReadySound ==
    ASSUME NEW m, Sound(m), NEW n, Retriable(n)
    PROVE  Keeps(m, ReadyToTransmitFrame(n, m))
  <1>1. CASE m.queue = <<>> \/ Running(m.send)
    BY <1>1, KeepsItself DEF ReadyToTransmitFrame
  <1>2. CASE ~(m.queue = <<>> \/ Running(m.send)) /\ IsStateIdle(n)
    BY <1>2, OfferNextSound DEF ReadyToTransmitFrame
  <1>3. CASE ~(m.queue = <<>> \/ Running(m.send)) /\ ~IsStateIdle(n)
    <2>1. ReadyToTransmitFrame(n, m) = OfferLater(n, m)
      BY <1>3 DEF ReadyToTransmitFrame
    <2>2. DelayUntilIdle(n) \in Timer /\ Group \in Dests
      BY <1>3, Durations DEF Retriable, Timer
    <2>3. Keeps(m, [m EXCEPT !.tryAgain = DelayUntilIdle(n)])
      BY <2>2, TimerSound
    <2> QED
      BY <2>1, <2>3, KeepsItself DEF OfferLater
  <1> QED
    BY <1>1, <1>2, <1>3

\* A period begins with its full length, which is no less than what was left.
LEMMA StartSound ==
    ASSUME NEW m, Sound(m), NEW n, Retriable(n), NEW to \in Dests
    PROVE  Keeps(m, StartContentionFreeDuration(n, m, to))
  <1> DEFINE k == [m EXCEPT !.period = TxDuration, !.rx = to]
  <1>1. m \in DeviceType /\ m.period \in Int
    BY DeviceFields DEF Sound
  <1>2. k \in DeviceType
    BY <1>1, Durations DEF DeviceType, Timer
  <1>3. /\ k.period = TxDuration
        /\ k.queue = m.queue /\ k.send = m.send
        /\ k.packet = m.packet /\ k.current = m.current /\ k.ackTimeout = m.ackTimeout
        /\ k.endTx = m.endTx /\ k.sendAck = m.sendAck /\ k.ackTo = m.ackTo
        /\ k.ok = m.ok /\ k.given = m.given /\ k.sent = m.sent
    BY <1>1 DEF DeviceType
  <1>4. StartContentionFreeDuration(n, m, to) = ReadyToTransmitFrame(n, k)
    BY DEF StartContentionFreeDuration
  <1> HIDE DEF k
  <1>5. m.period <= TxDuration /\ TxDuration \in Int
    BY Durations DEF Sound
  <1>6. Running(m.send) => TxDuration >= m.send + Exchange(m.packet.to)
    <2> HAVE Running(m.send)
    <2>1. m.period >= m.send + Exchange(m.packet.to)
      BY DEF Sound
    <2>2. m.send \in Int /\ Exchange(m.packet.to) \in Int
      BY <1>1, DeviceFields, Durations
    <2> QED
      BY <1>1, <1>5, <2>1, <2>2
  <1>7. Sound(k)
    BY <1>2, <1>3, <1>5, <1>6 DEF Sound
  <1>8. Keeps(m, k)
    BY <1>1, <1>3, <1>5, <1>7 DEF Keeps
  <1> QED
    BY <1>4, <1>7, <1>8, ReadySound, KeepsKept

LEMMA IfNeedSound ==
    ASSUME NEW m, Sound(m), NEW n, Retriable(n), NEW A \in SUBSET AgreementType,
           NEW k \in StartContentionFreeDurationIfNeed(n, m, A)
    PROVE  Keeps(m, k)
  <1>1. CASE IsAnyActive(m) \/ Own(A, n) = {}
    BY <1>1, KeepsItself DEF StartContentionFreeDurationIfNeed
  <1>2. CASE ~(IsAnyActive(m) \/ Own(A, n) = {})
    <2>1. PICK a \in FirstOwn(A, n) : k = BeginPeriod(n, m, a)
      BY <1>2 DEF StartContentionFreeDurationIfNeed
    <2>2. a.start \in Int /\ a.rx \in Dests
      BY DEF FirstOwn, Own, AgreementType
    <2>3. CASE a.start <= 0
      BY <2>1, <2>2, <2>3, StartSound DEF BeginPeriod
    <2>4. CASE ~(a.start <= 0)
      <3>1. k = [m EXCEPT !.wait = a.start, !.rx = a.rx]
        BY <2>1, <2>4 DEF BeginPeriod
      <3>2. a.start \in Timer
        BY <2>2, <2>4 DEF Timer
      <3> QED
        BY <2>2, <3>1, <3>2, TimerSound
    <2> QED
      BY <2>3, <2>4
  <1> QED
    BY <1>1, <1>2

LEMMA TrySound ==
    ASSUME NEW m, Sound(m), NEW n, Retriable(n), NEW A \in SUBSET AgreementType,
           NEW k \in TryToStart(n, m, A)
    PROVE  Keeps(m, k)
  <1>1. CASE Running(m.period)
    BY <1>1, ReadySound DEF TryToStart
  <1>2. CASE ~Running(m.period)
    BY <1>2, IfNeedSound DEF TryToStart
  <1> QED
    BY <1>1, <1>2

---------------------------------------------------------------------------
(* Frames on the air.                                                      *)

LEMMA FrameFields ==
    ASSUME DInv, NEW n \in Nodes, OnAir(n)
    PROVE  /\ air[n] \in FrameType
           /\ air[n].type \in {"data", "ack"} /\ air[n].to \in Dests /\ air[n].id \in Nat
           /\ air[n].left \in Nat /\ air[n].head \in {-1} \cup Nat
           /\ air[n].hear \in SUBSET Nodes /\ air[n].clean \in BOOLEAN
  <1>1. air[n] \in FrameType
    BY DEF DInv, OnAir
  <1> QED
    BY <1>1 DEF FrameType

LEMMA NoFrameIsNone ==
    /\ NoFrame.type = "none"
    /\ \A f \in FrameType : f # NoFrame
  <1>1. NoFrame.type = "none"
    BY DEF NoFrame
  <1>2. \A f \in FrameType : f.type # "none"
    BY DEF FrameType
  <1> QED
    BY <1>1, <1>2

\* A busy PHY is idle after a number of steps.
LEMMA BusyEnds ==
    ASSUME DInv, NEW n \in Nodes
    PROVE  Retriable(n)
  <1> DEFINE L == {air[k].left : k \in Busy(n)}
  <1>1. CASE Busy(n) = {}
    BY <1>1 DEF Retriable, IsStateIdle
  <1>2. CASE Busy(n) # {}
    <2>1. \A k \in Busy(n) : k \in Nodes /\ OnAir(k)
      BY DEF Busy, Sensed
    <2>2. \A k \in Busy(n) : air[k].left \in Nat /\ air[k].left <= DataTx + AckTx
      BY <2>1, FrameFields DEF DInv
    <2>3. L \in SUBSET Nat /\ L # {} /\ \A t \in L : t <= DataTx + AckTx
      BY <1>2, <2>2
    <2>4. DataTx + AckTx \in Nat
      BY Durations
    <2> HIDE DEF L
    <2>5. Max(L) \in L
      BY <2>3, <2>4, GreatestNatural
    <2> QED
      BY <2>3, <2>5 DEF Retriable, DelayUntilIdle, L
  <1> QED
    BY <1>1, <1>2

\* A frame that begins is heard by whoever neither sends nor hears another,
\* and its sender hears no other any more.
LEMMA TransmitFrames ==
    ASSUME DInv, NEW n \in Nodes, ~OnAir(n), NEW f \in FrameType, Transmit(n, f)
    PROVE  /\ air' \in [Nodes -> FrameType \cup {NoFrame}]
           /\ air'[n] \in FrameType
           /\ air'[n].type = f.type /\ air'[n].to = f.to /\ air'[n].id = f.id
           /\ air'[n].left = f.left
           /\ \A k \in air'[n].hear :
                /\ k \in Nodes /\ k # n /\ ~OnAir(k)
                /\ \A j \in Nodes : OnAir(j) => k \notin air[j].hear
           /\ \A k \in Nodes \ {n} : ~OnAir(k) => air'[k] = NoFrame
           /\ \A k \in Nodes \ {n} : OnAir(k) =>
                /\ air'[k] \in FrameType
                /\ air'[k].type = air[k].type /\ air'[k].to = air[k].to
                /\ air'[k].id = air[k].id /\ air'[k].left = air[k].left
                /\ air'[k].hear = air[k].hear \ {n}
  <1> DEFINE others == {k \in Nodes : OnAir(k)}
             deaf == {n} \cup others \cup UNION {air[k].hear : k \in others}
             mine == [f EXCEPT !.hear = Nodes \ deaf, !.clean = others = {}]
             met(k) == [air[k] EXCEPT !.hear = @ \ {n}, !.clean = FALSE]
  <1>1. air' = [k \in Nodes |-> CASE k = n -> mine
                                  [] k \in others -> met(k)
                                  [] OTHER -> NoFrame]
    BY DEF Transmit
  <1>2. /\ mine \in FrameType
        /\ mine.type = f.type /\ mine.to = f.to /\ mine.id = f.id /\ mine.left = f.left
        /\ mine.hear = Nodes \ deaf
    <2>1. (others = {}) \in BOOLEAN /\ Nodes \ deaf \in SUBSET Nodes
      OBVIOUS
    <2> HIDE DEF others, deaf
    <2> QED
      BY <2>1 DEF FrameType
  <1>3. \A k \in others :
          /\ met(k) \in FrameType
          /\ met(k).type = air[k].type /\ met(k).to = air[k].to
          /\ met(k).id = air[k].id /\ met(k).left = air[k].left
          /\ met(k).hear = air[k].hear \ {n}
    <2> TAKE k \in others
    <2> DEFINE g == air[k]
    <2>1. g \in FrameType
      BY FrameFields
    <2> HIDE DEF g
    <2>2. LET h == [g EXCEPT !.hear = @ \ {n}, !.clean = FALSE]
          IN  /\ h \in FrameType
              /\ h.type = g.type /\ h.to = g.to /\ h.id = g.id /\ h.left = g.left
              /\ h.hear = g.hear \ {n}
      BY <2>1 DEF FrameType
    <2> QED
      BY <2>2 DEF g
  <1>4. n \notin others
    OBVIOUS
  <1> HIDE DEF mine, met
  <1>5. air'[n] = mine
    BY <1>1
  <1>6. \A k \in Nodes \ {n} : air'[k] = IF k \in others THEN met(k) ELSE NoFrame
    BY <1>1
  <1>7. air' \in [Nodes -> FrameType \cup {NoFrame}]
    BY <1>1, <1>2, <1>3
  <1>8. \A k \in Nodes \ deaf : /\ k \in Nodes /\ k # n /\ ~OnAir(k)
                                /\ \A j \in Nodes : OnAir(j) => k \notin air[j].hear
    OBVIOUS
  <1>9. \A k \in air'[n].hear : /\ k \in Nodes /\ k # n /\ ~OnAir(k)
                                /\ \A j \in Nodes : OnAir(j) => k \notin air[j].hear
    BY <1>2, <1>5, <1>8
  <1> QED
    BY <1>2, <1>3, <1>5, <1>6, <1>7, <1>9

\* As many receptions fail without a collision as may.
LEMMA LossesBounded ==
    ASSUME DInv, NEW n \in Nodes, OnAir(n),
           NEW heard \in Outcomes(air[n]), Lost(air[n], heard)
    PROVE  heard \in SUBSET air[n].hear /\ heard \in SUBSET Nodes /\ losses' \in 0 .. MaxLosses
  <1>1. air[n].hear \in SUBSET Nodes
    BY FrameFields
  <1>2. heard \in SUBSET air[n].hear
        /\ (air[n].clean => losses + Cardinality(air[n].hear \ heard) <= MaxLosses)
    BY DEF Outcomes
  <1>3. Cardinality(air[n].hear \ heard) \in Nat
    <2>1. IsFiniteSet(air[n].hear \ heard)
      BY <1>1, NetDeviceAssumption, FS_Subset
    <2> QED
      BY <2>1, FS_CardinalityType
  <1>4. losses \in 0 .. MaxLosses /\ MaxLosses \in Nat
    BY Durations DEF DInv
  <1>5. losses' = IF air[n].clean THEN losses + Cardinality(air[n].hear \ heard) ELSE losses
    BY DEF Lost
  <1> QED
    BY <1>1, <1>2, <1>3, <1>4, <1>5

LEMMA BeaconLossesBounded ==
    ASSUME DInv, NEW n \in Nodes, NEW heard \in BeaconHeard(n), LostBeacons(n, heard)
    PROVE  heard \in SUBSET Nodes /\ losses' \in 0 .. MaxLosses
  <1>1. heard \in SUBSET (Nodes \ {n})
    BY DEF BeaconHeard
  <1>2. losses \in 0 .. MaxLosses /\ MaxLosses \in Nat
    BY Durations DEF DInv
  <1>3. CASE beacon[n].clean
    <2>1. /\ IsFiniteSet(Nodes \ {n}) /\ IsFiniteSet(heard)
          /\ Cardinality(heard) <= Cardinality(Nodes \ {n})
      <3>1. IsFiniteSet(Nodes \ {n})
        BY NetDeviceAssumption, FS_RemoveElement
      <3> QED
        BY <1>1, <3>1, FS_Subset
    <2>2. Cardinality(heard) \in Nat /\ Cardinality(Nodes \ {n}) \in Nat
      BY <2>1, FS_CardinalityType
    <2>3. losses + Cardinality(Nodes \ {n}) - Cardinality(heard) <= MaxLosses
      BY <1>3 DEF BeaconHeard
    <2>4. losses' = losses + Cardinality(Nodes \ {n}) - Cardinality(heard)
      BY <1>3 DEF LostBeacons
    <2> QED
      BY <1>1, <1>2, <2>1, <2>2, <2>3, <2>4
  <1>4. CASE ~beacon[n].clean
    BY <1>1, <1>2, <1>4 DEF LostBeacons
  <1> QED
    BY <1>3, <1>4

---------------------------------------------------------------------------
(* Steps of one device.                                                    *)

\* No frame begins or goes on differently; an acknowledgment may end.
Quieter ==
    /\ air' \in [Nodes -> FrameType \cup {NoFrame}]
    /\ \A k \in Nodes : air'[k] = air[k] \/ (air'[k] = NoFrame /\ air[k].type = "ack")

\* Device n in state m: what it sends still fits, and is all it reports.
Ready(n, m) == Sound(m) /\ (OnAir(n) => Fits(air[n], m))
Reports(n, m) ==
    /\ m.sendAck = dev[n].sendAck /\ m.ackTo = dev[n].ackTo
    /\ m.current = dev[n].current
    /\ Running(m.ackTimeout) => Running(dev[n].ackTimeout)
    /\ \A p \in m.ok : p \in dev[n].ok \/ p.to = Group \/ <<n, p.id, p.to>> \in received

LEMMA QuieterFrames ==
    ASSUME Quieter, NEW k \in Nodes, air'[k] # NoFrame
    PROVE  air'[k] = air[k] /\ OnAir(k)
  BY DEF Quieter, OnAir

LEMMA FitsKept ==
    ASSUME DInv, NEW n \in Nodes, NEW m, NEW k, Ready(n, m), Keeps(m, k)
    PROVE  Ready(n, k)
  <1>1. m.period \in Int /\ k.period \in Int
    BY DeviceFields DEF Ready, Keeps, Sound
  <1>2. OnAir(n) => air[n].left \in Int /\ Reply(air[n].to) \in Int
    BY FrameFields, Durations
  <1> QED
    BY <1>1, <1>2 DEF Ready, Keeps, Fits

LEMMA StepTyped ==
    ASSUME DInv, NEW n \in Nodes, NEW m, Ready(n, m), dev' = [dev EXCEPT ![n] = m],
           Quieter, losses' \in 0 .. MaxLosses, UNCHANGED received
    PROVE  DInv'
  <1>1. m \in DeviceType
    BY DEF Ready, Sound
  <1>2. dev'[n] = m /\ \A k \in Nodes \ {n} : dev'[k] = dev[k]
    BY DEF DInv
  <1>3. dev' \in [Nodes -> DeviceType] /\ \A k \in Nodes : Sound(dev'[k])
    BY <1>1, <1>2 DEF DInv, Ready
  <1>4. \A k \in Nodes : air'[k] # NoFrame =>
          air'[k].left <= DataTx + AckTx /\ Fits(air'[k], dev'[k])
    <2> TAKE k \in Nodes
    <2> HAVE air'[k] # NoFrame
    <2>1. air'[k] = air[k] /\ OnAir(k)
      BY QuieterFrames
    <2>2. CASE k = n
      BY <1>2, <2>1, <2>2 DEF Ready, DInv
    <2>3. CASE k # n
      BY <1>2, <2>1, <2>3 DEF DInv
    <2> QED
      BY <2>2, <2>3
  <1>5. air' \in [Nodes -> FrameType \cup {NoFrame}]
    BY DEF Quieter
  <1> QED
    BY <1>3, <1>4, <1>5 DEF DInv, OnAir

LEMMA StepHeard ==
    ASSUME DInv, HInv, RInv, NEW n \in Nodes, NEW m, Reports(n, m),
           dev' = [dev EXCEPT ![n] = m], Quieter, UNCHANGED <<received, failed>>
    PROVE  HInv' /\ RInv'
  <1>1. dev'[n] = m /\ \A k \in Nodes \ {n} : dev'[k] = dev[k]
    BY DEF DInv
  <1>2. \A k \in Nodes : /\ dev'[k].sendAck = dev[k].sendAck /\ dev'[k].ackTo = dev[k].ackTo
                         /\ dev'[k].current = dev[k].current
                         /\ Running(dev'[k].ackTimeout) => Running(dev[k].ackTimeout)
    BY <1>1 DEF Reports
  <1>3. \A k \in Nodes : air'[k] # NoFrame => air'[k] = air[k] /\ OnAir(k)
    BY QuieterFrames
  <1>4. HInv'
    BY <1>2, <1>3 DEF HInv, OnAir
  <1>5. \A i, k \in Nodes : Got(i, k) => Got(i, k)'
    BY <1>2 DEF Got
  <1>6. \A i, k \in Nodes :
          /\ Running(dev'[k].sendAck) /\ dev'[k].ackTo = i /\ Running(dev'[i].ackTimeout)
          => \/ air'[i] # NoFrame /\ air'[i].type = "data" /\ air'[i].left > dev'[k].sendAck
             \/ Got(i, k)'
    <2> TAKE i, k \in Nodes
    <2> HAVE Running(dev'[k].sendAck) /\ dev'[k].ackTo = i /\ Running(dev'[i].ackTimeout)
    <2>1. \/ OnAir(i) /\ air[i].type = "data" /\ air[i].left > dev[k].sendAck
          \/ Got(i, k)
      BY <1>2 DEF RInv
    <2>2. CASE OnAir(i) /\ air[i].type = "data" /\ air[i].left > dev[k].sendAck
      <3>1. air'[i] = air[i]
        BY <2>2 DEF Quieter
      <3> QED
        BY <1>2, <2>2, <3>1 DEF OnAir
    <2> QED
      BY <1>5, <2>1, <2>2
  <1>7. \A i, k \in Nodes :
          /\ air'[k] # NoFrame /\ air'[k].type = "ack" /\ air'[k].to = i /\ i \in air'[k].hear
          /\ Running(dev'[i].ackTimeout)
          => Got(i, k)'
    BY <1>2, <1>3, <1>5 DEF RInv
  <1>8. AckedWasReceived'
    <2>1. \A k \in Nodes : \A p \in dev'[k].ok : p.to # Group => <<k, p.id, p.to>> \in received
      BY <1>1 DEF RInv, AckedWasReceived, Reports
    <2> QED
      BY <2>1 DEF AckedWasReceived
  <1> QED
    BY <1>4, <1>6, <1>7, <1>8 DEF RInv, OnAir

\* A handler that changes the device to m, and then looks for a packet.
LEMMA HandlerStep ==
    ASSUME DInv, NEW n \in Nodes, NEW m, NEW k, Ready(n, m), Keeps(m, k),
           dev' = [dev EXCEPT ![n] = k],
           Quieter, losses' \in 0 .. MaxLosses, UNCHANGED <<received, failed>>
    PROVE  /\ DInv'
           /\ HInv /\ RInv /\ Reports(n, m) => HInv' /\ RInv'
  <1>1. DInv'
    BY FitsKept, StepTyped
  <1>2. ASSUME HInv, RInv, Reports(n, m)
        PROVE  HInv' /\ RInv'
    <2>1. Reports(n, k)
      BY <1>2 DEF Reports, Keeps
    <2> QED
      BY <1>2, <2>1, StepHeard
  <1> QED
    BY <1>1, <1>2

\* The device as it is is such a device, and a quiet step such a step.
LEMMA DeviceAsItIs ==
    ASSUME DInv, NEW n \in Nodes
    PROVE  /\ Sound(dev[n]) /\ dev[n] \in DeviceType /\ Ready(n, dev[n]) /\ Reports(n, dev[n])
           /\ dev = [dev EXCEPT ![n] = dev[n]]
           /\ (air' = air => Quieter)
           /\ losses \in 0 .. MaxLosses
  <1>1. Sound(dev[n]) /\ Ready(n, dev[n]) /\ Reports(n, dev[n]) /\ dev[n] \in DeviceType
    BY DEF DInv, Ready, Reports, OnAir
  <1>2. dev = [dev EXCEPT ![n] = dev[n]]
    BY DEF DInv
  <1>3. air' = air => Quieter
    BY DEF DInv, Quieter
  <1> QED
    BY <1>1, <1>2, <1>3 DEF DInv

---------------------------------------------------------------------------
(* The steps that leave the frames on the air alone.                       *)

StepOK == DInv' /\ (SifsIsShort /\ HInv /\ RInv => HInv' /\ RInv')

LEMMA TryStepOK ==
    ASSUME DInv, NEW n \in Nodes, NEW m, Ready(n, m), Reports(n, m),
           NEW A \in SUBSET AgreementType, Becomes(n, TryToStart(n, m, A)),
           Quieter, losses' \in 0 .. MaxLosses, UNCHANGED <<received, failed>>
    PROVE  StepOK
  <1>1. PICK k \in TryToStart(n, m, A) : dev' = [dev EXCEPT ![n] = k]
    BY DEF Becomes
  <1>2. Keeps(m, k)
    BY BusyEnds, TrySound DEF Ready
  <1> QED
    BY <1>1, <1>2, HandlerStep DEF StepOK

LEMMA QuietStepOK ==
    ASSUME DInv, NEW n \in Nodes,
           losses' \in 0 .. MaxLosses, UNCHANGED <<dev, air, received, failed>>
    PROVE  StepOK
  <1>1. Ready(n, dev[n]) /\ Reports(n, dev[n]) /\ Keeps(dev[n], dev[n]) /\ Quieter
        /\ dev' = [dev EXCEPT ![n] = dev[n]]
    BY DeviceAsItIs, KeepsItself
  <1> QED
    BY <1>1, HandlerStep DEF StepOK

LEMMA ControlStepsOK ==
    ASSUME IInv, IInv', DInv, NEW n \in Nodes,
           SendBeacon(n) \/ TxBeaconEnds(n) \/ BeaconAckEnds(n)
    PROVE  StepOK
  <1>1. UNCHANGED <<dev, air, received>>
    BY DEF SendBeacon, SendRxBeacon, SendGroupBeacon, SendTxBeacon, SendAgain,
           TxBeaconEnds, BeaconAckEnds
  <1>2. UNCHANGED failed
    <2>1. failed' = failed \/ failed' = "NewAgreement"
      BY DEF SendBeacon, SendRxBeacon, SendGroupBeacon, SendTxBeacon, SendAgain,
             TxBeaconEnds, BeaconAckEnds, Grants, Require
    <2> QED
      BY <2>1 DEF IInv
  <1>3. losses' \in 0 .. MaxLosses
    <2>1. CASE TxBeaconEnds(n)
      BY <2>1, BeaconLossesBounded DEF TxBeaconEnds
    <2>2. CASE SendBeacon(n) \/ BeaconAckEnds(n)
      BY <2>2 DEF SendBeacon, SendRxBeacon, SendGroupBeacon, SendTxBeacon, SendAgain,
                  BeaconAckEnds, DInv
    <2> QED
      BY <2>1, <2>2
  <1> QED
    BY <1>1, <1>2, <1>3, QuietStepOK

LEMMA GroupBeaconStepOK ==
    ASSUME IInv, DInv, NEW n \in Nodes, GroupBeaconEnds(n)
    PROVE  StepOK
  <1>1. losses' \in 0 .. MaxLosses
    BY BeaconLossesBounded DEF GroupBeaconEnds
  <1>2. /\ Becomes(n, TryToStart(n, dev[n], agreements[n]))
        /\ UNCHANGED <<air, received, failed>>
    BY DEF GroupBeaconEnds
  <1>3. Ready(n, dev[n]) /\ Reports(n, dev[n]) /\ Quieter
    BY <1>2, DeviceAsItIs
  <1>4. agreements[n] \in SUBSET AgreementType
    BY DEF IInv, CtrlTypeOK
  <1> QED
    BY <1>1, <1>2, <1>3, <1>4, TryStepOK

LEMMA RxBeaconStepOK ==
    ASSUME IInv, DInv, NEW n \in Nodes, RxBeaconEnds(n)
    PROVE  StepOK
  <1> DEFINE k == beacon[n].to
             A == AddAgreement(agreements[k], Agreement(k, n, beacon[n].delay))
  <1>1. beacon[n] \in BeaconType
    BY DEF RxBeaconEnds, BeaconEnds, IInv, CtrlTypeOK
  <1>2. k \in Nodes
    BY <1>1 DEF RxBeaconEnds, BeaconType, Dests
  <1>3. A \in SUBSET AgreementType
    <2>1. Agreement(k, n, beacon[n].delay) \in AgreementType
      BY <1>1, <1>2 DEF Agreement, AgreementType, BeaconType, Dests
    <2> QED
      BY <1>2, <2>1, AddedApart DEF IInv, CtrlTypeOK, AgreementsApart
  <1>4. PICK heard \in BeaconHeard(n) :
          /\ LostBeacons(n, heard)
          /\ IF k \in heard THEN Becomes(k, TryToStart(k, dev[k], A)) ELSE UNCHANGED dev
    BY DEF RxBeaconEnds
  <1>5. losses' \in 0 .. MaxLosses
    BY <1>4, BeaconLossesBounded
  <1>6. UNCHANGED <<air, received, failed>>
    BY DEF RxBeaconEnds
  <1> HIDE DEF A, k
  <1>7. CASE k \in heard
    <2>1. Ready(k, dev[k]) /\ Reports(k, dev[k]) /\ Quieter
      BY <1>2, <1>6, DeviceAsItIs
    <2> QED
      BY <1>2, <1>3, <1>4, <1>5, <1>6, <1>7, <2>1, TryStepOK
  <1>8. CASE k \notin heard
    BY <1>4, <1>5, <1>6, <1>8, QuietStepOK
  <1> QED
    BY <1>7, <1>8

LEMMA EnqueueStepOK ==
    ASSUME IInv, DInv, NEW n \in Nodes, NEW d \in Dests, Enqueue(n, d)
    PROVE  StepOK
  <1> DEFINE p == [to |-> d, id |-> dev[n].given + 1]
             m == [dev[n] EXCEPT !.queue = Append(@, p), !.given = @ + 1]
             o == dev[n]
  <1>1. Becomes(n, TryToStart(n, m, agreements[n]))
        /\ UNCHANGED <<air, losses, received, failed>>
    BY DEF Enqueue
  <1>2. Sound(o) /\ o \in DeviceType /\ Ready(n, o) /\ Reports(n, o) /\ Quieter
        /\ losses' \in 0 .. MaxLosses
    BY <1>1, DeviceAsItIs
  <1>3. p = [to |-> d, id |-> o.given + 1]
    OBVIOUS
  <1>4. m = [o EXCEPT !.queue = Append(o.queue, p), !.given = o.given + 1]
    OBVIOUS
  <1>5. o.given \in Nat /\ o.queue \in Seq(Packets) /\ o.sent \in [Dests -> Nat]
    BY <1>2, DeviceFields
  <1> HIDE DEF m, o
  <1>6. p \in Packets /\ p.id = o.given + 1
    BY <1>3, <1>5 DEF Packets
  <1> HIDE DEF p
  <1> DEFINE q == Append(o.queue, p)
  <1>7. q \in Seq(Packets) /\ Ordered(q, o.sent, o.given + 1)
    BY <1>2, <1>5, <1>6, EnqueueOrdered DEF Sound
  <1> HIDE DEF q
  <1>8. m \in DeviceType
    <2>1. m = [o EXCEPT !.queue = q, !.given = o.given + 1]
      BY <1>4 DEF q
    <2>2. o.given + 1 \in Nat
      BY <1>5
    <2> QED
      BY <1>2, <1>7, <2>1, <2>2 DEF DeviceType
  <1>9. /\ m.queue = q /\ m.given = o.given + 1 /\ m.sent = o.sent
        /\ m.period = o.period /\ m.send = o.send /\ m.packet = o.packet
        /\ m.current = o.current /\ m.ackTimeout = o.ackTimeout /\ m.endTx = o.endTx
        /\ m.sendAck = o.sendAck /\ m.ackTo = o.ackTo /\ m.ok = o.ok
    BY <1>2, <1>4 DEF DeviceType, q
  <1>10. \A e \in Dests : m.sent[e] <= m.given
    BY <1>2, <1>5, <1>9 DEF Sound
  <1>11. Sound(m)
    BY <1>2, <1>7, <1>8, <1>9, <1>10 DEF Sound
  <1>12. Ready(n, m) /\ Reports(n, m)
    BY <1>2, <1>9, <1>11 DEF Ready, Fits, Reports
  <1>13. agreements[n] \in SUBSET AgreementType
    BY DEF IInv, CtrlTypeOK
  <1> QED
    BY <1>1, <1>2, <1>12, <1>13, TryStepOK

\* At the end of a period nothing the node sent in it is on the air, and
\* nothing waits to be sent.
LEMMA PeriodIsOver ==
    ASSUME DInv, NEW n \in Nodes, Runs, dev[n].period = 0
    PROVE  /\ ~Running(dev[n].send)
           /\ ~(OnAir(n) /\ air[n].type = "data")
  <1>1. ~Running(dev[n].send)
    <2> SUFFICES ASSUME Running(dev[n].send) PROVE FALSE
      OBVIOUS
    <2>1. dev[n].period >= dev[n].send + Exchange(dev[n].packet.to)
      BY DEF DInv, Sound
    <2>2. dev[n].send \in Int /\ dev[n].send >= 0
      BY DeviceAsItIs, DeviceFields DEF Running
    <2>3. Exchange(dev[n].packet.to) \in Nat /\ Exchange(dev[n].packet.to) > 0
      BY Durations
    <2> QED
      BY <2>1, <2>2, <2>3
  <1>2. ~(OnAir(n) /\ air[n].type = "data")
    <2> SUFFICES ASSUME OnAir(n), air[n].type = "data" PROVE FALSE
      OBVIOUS
    <2>1. 0 >= air[n].left + Reply(air[n].to)
      BY DEF DInv, Fits
    <2>2. air[n].left \in Nat /\ Reply(air[n].to) \in Nat
      BY FrameFields, Durations
    <2>3. air[n].left # 0
      BY DEF Runs, FrameDue
    <2> QED
      BY <2>1, <2>2, <2>3
  <1> QED
    BY <1>1, <1>2

LEMMA TimerStepsOK ==
    ASSUME IInv, DInv, NEW n \in Nodes,
           WaitEnds(n) \/ PeriodEnds(n) \/ TryAgain(n)
    PROVE  StepOK
  <1> DEFINE o == dev[n]
  <1>1. Sound(o) /\ o \in DeviceType /\ Ready(n, o) /\ Reports(n, o)
    BY DeviceAsItIs
  <1>2. UNCHANGED <<air, losses, received, failed>>
    BY DEF WaitEnds, PeriodEnds, TryAgain, dataVars
  <1>3. Quieter /\ losses' \in 0 .. MaxLosses
    BY <1>2, DeviceAsItIs
  <1>4. agreements[n] \in SUBSET AgreementType
    BY DEF IInv, CtrlTypeOK
  <1>5. -1 \in Timer /\ Group \in Dests /\ n \in Dests
    BY Durations
  <1>6. ASSUME NEW m, Keeps(o, m)
        PROVE  Ready(n, m) /\ Reports(n, m) /\ Sound(m)
    <2>1. Ready(n, m) /\ Sound(m)
      BY <1>1, <1>6, FitsKept DEF Keeps
    <2> QED
      BY <1>1, <1>6, <2>1 DEF Keeps, Reports
  <1>7. CASE WaitEnds(n)
    <2> DEFINE m == [o EXCEPT !.wait = -1]
               k == StartContentionFreeDuration(n, m, o.rx)
    <2>1. dev' = [dev EXCEPT ![n] = k]
      BY <1>7 DEF WaitEnds, Becomes
    <2> HIDE DEF o
    <2>2. Keeps(o, m)
      BY <1>1, <1>5, TimerSound
    <2> HIDE DEF m
    <2>3. Ready(n, m) /\ Reports(n, m) /\ Sound(m)
      BY <1>6, <2>2
    <2>4. Keeps(m, k)
      BY <1>1, <2>3, BusyEnds, StartSound, DeviceFields
    <2> HIDE DEF k
    <2> QED
      BY <1>2, <1>3, <2>1, <2>3, <2>4, HandlerStep DEF StepOK
  <1>8. CASE TryAgain(n)
    <2>1. \/ Becomes(n, TryToStart(n, [o EXCEPT !.tryAgain = -1], agreements[n]))
          \/ Becomes(n, TryToStart(n, [o EXCEPT !.macTryAgain = -1], agreements[n]))
      BY <1>8 DEF TryAgain
    <2> HIDE DEF o
    <2>2. /\ Keeps(o, [o EXCEPT !.tryAgain = -1])
          /\ Keeps(o, [o EXCEPT !.macTryAgain = -1])
      BY <1>1, <1>5, TimerSound
    <2>3. /\ Ready(n, [o EXCEPT !.tryAgain = -1]) /\ Reports(n, [o EXCEPT !.tryAgain = -1])
          /\ Ready(n, [o EXCEPT !.macTryAgain = -1]) /\ Reports(n, [o EXCEPT !.macTryAgain = -1])
      BY <1>6, <2>2
    <2> QED
      BY <1>2, <1>3, <1>4, <2>1, <2>3, TryStepOK
  <1>9. CASE PeriodEnds(n)
    <2> DEFINE m == [o EXCEPT !.period = -1]
               m1 == [m EXCEPT !.rx = n]
    <2>1. ~Running(o.send) /\ ~(OnAir(n) /\ air[n].type = "data")
      BY <1>9, PeriodIsOver DEF PeriodEnds
    <2>2. PICK k \in StartContentionFreeDurationIfNeed(n, m1, agreements[n]) :
            dev' = [dev EXCEPT ![n] = k]
      BY <1>9 DEF PeriodEnds, StopContentionFreeDuration, Becomes
    <2> HIDE DEF o
    <2>3. m1 \in DeviceType
      BY <1>1, <1>5 DEF DeviceType
    <2>4. /\ m1.period = -1
          /\ m1.queue = o.queue /\ m1.send = o.send
          /\ m1.current = o.current /\ m1.ackTimeout = o.ackTimeout
          /\ m1.endTx = o.endTx /\ m1.sendAck = o.sendAck /\ m1.ackTo = o.ackTo
          /\ m1.ok = o.ok /\ m1.given = o.given /\ m1.sent = o.sent
      BY <1>1 DEF DeviceType
    <2> HIDE DEF m1, m
    <2>5. Sound(m1)
      <3>1. -1 <= TxDuration
        BY Durations
      <3> QED
        BY <1>1, <2>1, <2>3, <2>4, <3>1 DEF Sound
    <2>6. Ready(n, m1) /\ Reports(n, m1)
      BY <1>1, <2>1, <2>4, <2>5 DEF Ready, Fits, Reports
    <2>7. Keeps(m1, k)
      BY <1>4, <2>2, <2>5, BusyEnds, IfNeedSound
    <2> QED
      BY <1>2, <1>3, <2>2, <2>6, <2>7, HandlerStep DEF StepOK
  <1> QED
    BY <1>7, <1>8, <1>9

---------------------------------------------------------------------------
(* The ends of an exchange.                                                *)

\* Whether the packet in hand is reported to TxOk or not, the device is sound.
LEMMA EndedSound ==
    ASSUME NEW o, Sound(o), NEW t, t \in {"ackTimeout", "endTx"}, Running(o[t])
    PROVE  LET m == [o EXCEPT ![t] = -1]
           IN  /\ Sound(m) /\ Sound(TxOk(m))
               /\ m.period = o.period /\ TxOk(m).period = o.period
               /\ m.sendAck = o.sendAck /\ TxOk(m).sendAck = o.sendAck
               /\ m.ackTo = o.ackTo /\ TxOk(m).ackTo = o.ackTo
               /\ m.current = o.current /\ TxOk(m).current = o.current
               /\ (Running(m.ackTimeout) => Running(o.ackTimeout))
               /\ (Running(TxOk(m).ackTimeout) => Running(o.ackTimeout))
               /\ m.ok = o.ok /\ TxOk(m).ok = o.ok \cup {o.current}
  <1> DEFINE m == [o EXCEPT ![t] = -1]
             k == [m EXCEPT !.ok = m.ok \cup {m.current}]
  <1>1. o \in DeviceType /\ o.current \in Packets /\ ~Running(-1) /\ -1 \in Timer
    BY Durations DEF Sound, Running
  <1>2. TxOk(m) = k
    BY DEF TxOk
  <1>3. /\ m \in DeviceType
        /\ m.queue = o.queue /\ m.given = o.given /\ m.sent = o.sent
        /\ m.period = o.period /\ m.send = o.send /\ m.packet = o.packet
        /\ m.current = o.current /\ m.sendAck = o.sendAck /\ m.ackTo = o.ackTo
        /\ m.ok = o.ok
        /\ m.ackTimeout = o.ackTimeout \/ m.ackTimeout = -1
        /\ m.endTx = o.endTx \/ m.endTx = -1
    BY <1>1 DEF DeviceType
  <1> HIDE DEF m
  <1>4. /\ k \in DeviceType
        /\ k.queue = m.queue /\ k.given = m.given /\ k.sent = m.sent
        /\ k.period = m.period /\ k.send = m.send /\ k.packet = m.packet
        /\ k.current = m.current /\ k.sendAck = m.sendAck /\ k.ackTo = m.ackTo
        /\ k.ok = o.ok \cup {o.current}
        /\ k.ackTimeout = m.ackTimeout /\ k.endTx = m.endTx
    BY <1>1, <1>3 DEF DeviceType
  <1> HIDE DEF k
  <1>5. Sound(m)
    BY <1>1, <1>3 DEF Sound
  <1>6. Sound(k)
    BY <1>4, <1>5 DEF Sound
  <1>7. (Running(m.ackTimeout) => Running(o.ackTimeout))
        /\ (Running(k.ackTimeout) => Running(o.ackTimeout))
    BY <1>1, <1>3, <1>4
  <1>8. /\ Sound(m) /\ Sound(TxOk(m))
        /\ m.period = o.period /\ TxOk(m).period = o.period
        /\ m.sendAck = o.sendAck /\ TxOk(m).sendAck = o.sendAck
        /\ m.ackTo = o.ackTo /\ TxOk(m).ackTo = o.ackTo
        /\ m.current = o.current /\ TxOk(m).current = o.current
        /\ (Running(m.ackTimeout) => Running(o.ackTimeout))
        /\ (Running(TxOk(m).ackTimeout) => Running(o.ackTimeout))
        /\ m.ok = o.ok /\ TxOk(m).ok = o.ok \cup {o.current}
    BY <1>2, <1>3, <1>4, <1>5, <1>6, <1>7
  <1> QED
    BY <1>8 DEF m

LEMMA WaitingStepsOK ==
    ASSUME IInv, DInv, NEW n \in Nodes, NormalAckTimeout(n) \/ EndTxNoAck(n)
    PROVE  StepOK
  <1> DEFINE o == dev[n]
             m1 == [o EXCEPT !.ackTimeout = -1]
             m2 == TxOk([o EXCEPT !.endTx = -1])
  <1>1. Sound(o) /\ Ready(n, o) /\ Reports(n, o)
    BY DeviceAsItIs
  <1>2. UNCHANGED <<air, losses, received, failed>>
    BY DEF NormalAckTimeout, EndTxNoAck, dataVars
  <1>3. Quieter /\ losses' \in 0 .. MaxLosses
    BY <1>2, DeviceAsItIs
  <1>4. agreements[n] \in SUBSET AgreementType
    BY DEF IInv, CtrlTypeOK
  <1>5. CASE NormalAckTimeout(n)
    <2>1. Becomes(n, TryToStart(n, m1, agreements[n])) /\ Running(o.ackTimeout)
      BY <1>5 DEF NormalAckTimeout, TxFailed, Running
    <2> HIDE DEF o
    <2>2. /\ Sound(m1) /\ m1.period = o.period /\ m1.sendAck = o.sendAck
          /\ m1.ackTo = o.ackTo /\ m1.current = o.current /\ m1.ok = o.ok
      BY <1>1, <2>1, EndedSound
    <2> HIDE DEF m1
    <2>3. Ready(n, m1) /\ Reports(n, m1)
      BY <1>1, <2>1, <2>2 DEF Ready, Fits, Reports, o
    <2> QED
      BY <1>2, <1>3, <1>4, <2>1, <2>3, TryStepOK
  <1>6. CASE EndTxNoAck(n)
    <2>1. Becomes(n, TryToStart(n, m2, agreements[n])) /\ Running(o.endTx)
      BY <1>6 DEF EndTxNoAck, Running
    <2> HIDE DEF o
    <2>2. o.current.to = Group
      BY <1>1, <2>1 DEF Sound
    <2>3. /\ Sound(m2) /\ m2.period = o.period /\ m2.sendAck = o.sendAck
          /\ m2.ackTo = o.ackTo /\ m2.current = o.current
          /\ (Running(m2.ackTimeout) => Running(o.ackTimeout))
          /\ m2.ok = o.ok \cup {o.current}
      BY <1>1, <2>1, EndedSound
    <2> HIDE DEF m2
    <2>4. Ready(n, m2)
      BY <1>1, <2>3 DEF Ready, Fits
    <2>5. Reports(n, m2)
      BY <2>2, <2>3 DEF Reports, o
    <2> QED
      BY <1>2, <1>3, <1>4, <2>1, <2>4, <2>5, TryStepOK
  <1> QED
    BY <1>5, <1>6

\* Nobody takes another node's acknowledgment, or one owed for another packet,
\* for that of the packet in hand.
LEMMA AckEndsStepOK ==
    ASSUME IInv, DInv, NEW n \in Nodes, AckEnds(n)
    PROVE  StepOK
  <1> DEFINE f == air[n]
  <1>1. OnAir(n) /\ f.type = "ack" /\ air' = [air EXCEPT ![n] = NoFrame]
        /\ UNCHANGED <<received, failed>>
    BY DEF AckEnds
  <1>2. Quieter
    BY <1>1 DEF Quieter, DInv
  <1>3. PICK heard \in Outcomes(f) :
          /\ Lost(f, heard)
          /\ LET acked == {k \in heard : Acknowledges(f, k)}
             IN  IF acked = {} THEN UNCHANGED dev
                 ELSE \E k \in acked :
                        Becomes(k, TryToStart(k, TxOk([dev[k] EXCEPT !.ackTimeout = -1]),
                                              agreements[k]))
    BY DEF AckEnds
  <1>4. heard \in SUBSET f.hear /\ heard \in SUBSET Nodes /\ losses' \in 0 .. MaxLosses
    BY <1>1, <1>3, LossesBounded
  <1>5. CASE {k \in heard : Acknowledges(f, k)} = {}
    <2>1. dev' = [dev EXCEPT ![n] = dev[n]]
      BY <1>3, <1>5, DeviceAsItIs
    <2>2. Ready(n, dev[n]) /\ Reports(n, dev[n]) /\ Keeps(dev[n], dev[n])
      BY DeviceAsItIs, KeepsItself
    <2> QED
      BY <1>1, <1>2, <1>4, <2>1, <2>2, HandlerStep DEF StepOK
  <1>6. CASE {k \in heard : Acknowledges(f, k)} # {}
    <2>1. PICK k \in heard :
            /\ Acknowledges(f, k)
            /\ Becomes(k, TryToStart(k, TxOk([dev[k] EXCEPT !.ackTimeout = -1]), agreements[k]))
      BY <1>3, <1>6
    <2>2. k \in Nodes /\ k \in f.hear /\ f.to = k /\ Running(dev[k].ackTimeout)
      BY <1>4, <2>1 DEF Acknowledges
    <2> DEFINE o == dev[k]
               m == TxOk([o EXCEPT !.ackTimeout = -1])
    <2>3. Sound(o) /\ Ready(k, o)
      BY <2>2, DeviceAsItIs
    <2>4. PICK l \in TryToStart(k, m, agreements[k]) : dev' = [dev EXCEPT ![k] = l]
      BY <2>1 DEF Becomes
    <2>5. /\ Sound(m) /\ m.period = o.period /\ m.sendAck = o.sendAck
          /\ m.ackTo = o.ackTo /\ m.current = o.current
          /\ (Running(m.ackTimeout) => Running(o.ackTimeout))
          /\ m.ok = o.ok \cup {o.current}
      <3> HIDE DEF o
      <3>1. Running(o.ackTimeout)
        BY <2>2 DEF o
      <3> QED
        BY <2>3, <3>1, EndedSound
    <2> HIDE DEF m
    <2>6. Ready(k, m)
      BY <2>3, <2>5 DEF Ready, Fits
    <2>7. agreements[k] \in SUBSET AgreementType
      BY <2>2 DEF IInv, CtrlTypeOK
    <2>8. Keeps(m, l)
      BY <2>2, <2>4, <2>5, <2>7, BusyEnds, TrySound
    <2>9. HInv /\ RInv => Reports(k, m)
      <3> HAVE HInv /\ RInv
      <3>1. Got(k, n)
        BY <1>1, <2>2 DEF RInv
      <3> QED
        BY <2>5, <3>1 DEF Got, Reports
    <2> QED
      BY <1>1, <1>2, <1>4, <2>2, <2>4, <2>6, <2>8, <2>9, HandlerStep DEF StepOK
  <1> QED
    BY <1>5, <1>6

---------------------------------------------------------------------------
(* Beginning to send.                                                      *)

LEMMA SendsTyped ==
    ASSUME DInv, NEW n \in Nodes, ~OnAir(n), NEW m, NEW f \in FrameType,
           Sound(m), Fits(f, m), f.left <= DataTx + AckTx,
           dev' = [dev EXCEPT ![n] = m], Transmit(n, f), UNCHANGED <<losses, received>>
    PROVE  DInv'
  <1>1. dev'[n] = m /\ \A k \in Nodes \ {n} : dev'[k] = dev[k]
    BY DEF DInv
  <1>2. dev' \in [Nodes -> DeviceType] /\ \A k \in Nodes : Sound(dev'[k])
    BY <1>1 DEF DInv, Sound
  <1>3. \A k \in Nodes : air'[k] # NoFrame =>
          air'[k].left <= DataTx + AckTx /\ Fits(air'[k], dev'[k])
    <2> TAKE k \in Nodes
    <2> HAVE air'[k] # NoFrame
    <2>1. CASE k = n
      <3>1. /\ air'[n].type = f.type /\ air'[n].to = f.to /\ air'[n].id = f.id
            /\ air'[n].left = f.left
        BY TransmitFrames
      <3> QED
        BY <1>1, <2>1, <3>1 DEF Fits
    <2>2. CASE k # n
      <3>1. /\ OnAir(k) /\ air'[k].type = air[k].type /\ air'[k].to = air[k].to
            /\ air'[k].id = air[k].id /\ air'[k].left = air[k].left
        BY <2>2, TransmitFrames
      <3> QED
        BY <1>1, <2>2, <3>1 DEF DInv, Fits
    <2> QED
      BY <2>1, <2>2
  <1>4. air' \in [Nodes -> FrameType \cup {NoFrame}]
    BY TransmitFrames
  <1> QED
    BY <1>2, <1>3, <1>4 DEF DInv, OnAir

\* Data lasts longer than a SIFS; an acknowledgment is the one that is owed.
LEMMA SendsHeard ==
    ASSUME DInv, HInv, RInv, NEW n \in Nodes, ~OnAir(n), NEW m, NEW f \in FrameType,
           f.type = "data" => f.left > Sifs,
           f.type = "ack" => /\ m.current = dev[n].current /\ m.ackTimeout = dev[n].ackTimeout
                             /\ Running(dev[n].sendAck) /\ f.to = dev[n].ackTo,
           m.sendAck = -1, m.ok = dev[n].ok,
           dev' = [dev EXCEPT ![n] = m], Transmit(n, f), UNCHANGED <<received, failed>>
    PROVE  HInv' /\ RInv'
  <1>1. dev'[n] = m /\ \A k \in Nodes \ {n} : dev'[k] = dev[k]
    BY DEF DInv
  <1>2. /\ air'[n] # NoFrame
        /\ air'[n].type = f.type /\ air'[n].to = f.to /\ air'[n].left = f.left
        /\ \A k \in air'[n].hear : /\ k \in Nodes /\ k # n /\ ~OnAir(k)
                                   /\ \A j \in Nodes : OnAir(j) => k \notin air[j].hear
    BY TransmitFrames, NoFrameIsNone
  <1>3. \A k \in Nodes \ {n} : air'[k] # NoFrame =>
          /\ OnAir(k)
          /\ air'[k].type = air[k].type /\ air'[k].to = air[k].to
          /\ air'[k].left = air[k].left /\ air'[k].hear = air[k].hear \ {n}
    BY TransmitFrames
  <1>4. \A k \in Nodes \ {n} : OnAir(k) =>
          /\ air'[k] # NoFrame
          /\ air'[k].type = air[k].type /\ air'[k].left = air[k].left
    BY TransmitFrames, NoFrameIsNone
  <1>5. ~Running(-1) /\ f.type \in {"data", "ack"} /\ f.left \in Int /\ Sifs \in Int
    BY Durations DEF Running, FrameType
  <1>6. \A k \in Nodes : Running(dev'[k].sendAck) =>
          /\ k # n /\ dev'[k] = dev[k] /\ Running(dev[k].sendAck)
          /\ dev[k].sendAck \in Int /\ dev[k].sendAck <= Sifs
    <2> TAKE k \in Nodes
    <2> HAVE Running(dev'[k].sendAck)
    <2>1. k # n /\ dev'[k] = dev[k]
      BY <1>1, <1>5
    <2> QED
      BY <2>1, DeviceAsItIs, DeviceFields DEF Sound
  <1>7. \A j, k \in Nodes : air'[j] # NoFrame /\ k \in air'[j].hear => air'[k] = NoFrame
    <2> TAKE j, k \in Nodes
    <2> HAVE air'[j] # NoFrame /\ k \in air'[j].hear
    <2>1. k # n /\ ~OnAir(k)
      BY <1>2, <1>3 DEF HInv
    <2> QED
      BY <1>3, <2>1
  <1>8. \A j, k \in Nodes : air'[j] # NoFrame /\ air'[k] # NoFrame /\ j # k
          => air'[j].hear \cap air'[k].hear = {}
    <2> TAKE j, k \in Nodes
    <2> HAVE air'[j] # NoFrame /\ air'[k] # NoFrame /\ j # k
    <2>1. CASE j = n
      BY <1>2, <1>3, <2>1
    <2>2. CASE k = n
      BY <1>2, <1>3, <2>2
    <2>3. CASE j # n /\ k # n
      BY <1>3, <2>3 DEF HInv
    <2> QED
      BY <2>1, <2>2, <2>3
  <1>9. \A k \in Nodes : air'[k] # NoFrame => ~Running(dev'[k].sendAck)
    BY <1>3, <1>6 DEF HInv
  <1>10. \A j, k \in Nodes :
          /\ air'[j] # NoFrame /\ air'[j].type = "data" /\ k \in air'[j].hear
          /\ Running(dev'[k].sendAck)
          => air'[j].left > dev'[k].sendAck
    <2> TAKE j, k \in Nodes
    <2> HAVE /\ air'[j] # NoFrame /\ air'[j].type = "data" /\ k \in air'[j].hear
             /\ Running(dev'[k].sendAck)
    <2>1. CASE j = n
      BY <1>2, <1>5, <1>6, <2>1
    <2>2. CASE j # n
      BY <1>3, <1>6, <2>2 DEF HInv
    <2> QED
      BY <2>1, <2>2
  <1>11. HInv'
    BY <1>7, <1>8, <1>9, <1>10 DEF HInv, OnAir
  <1>12. \A i, k \in Nodes : Got(i, k) /\ (i # n \/ f.type = "ack") => Got(i, k)'
    BY <1>1 DEF Got
  <1>13. \A i, k \in Nodes :
          /\ Running(dev'[k].sendAck) /\ dev'[k].ackTo = i /\ Running(dev'[i].ackTimeout)
          => \/ air'[i] # NoFrame /\ air'[i].type = "data" /\ air'[i].left > dev'[k].sendAck
             \/ Got(i, k)'
    <2> TAKE i, k \in Nodes
    <2> HAVE Running(dev'[k].sendAck) /\ dev'[k].ackTo = i /\ Running(dev'[i].ackTimeout)
    <2>1. CASE i = n /\ f.type = "data"
      BY <1>2, <1>5, <1>6, <2>1
    <2>2. CASE i = n /\ f.type = "ack"
      <3>1. Got(n, k)
        BY <1>1, <1>6, <2>2 DEF RInv
      <3> QED
        BY <1>12, <2>2, <3>1
    <2>3. CASE i # n
      <3>1. \/ OnAir(i) /\ air[i].type = "data" /\ air[i].left > dev[k].sendAck
            \/ Got(i, k)
        BY <1>1, <1>6, <2>3 DEF RInv
      <3> QED
        BY <1>4, <1>6, <1>12, <2>3, <3>1
    <2> QED
      BY <1>5, <2>1, <2>2, <2>3
  <1>14. \A i, k \in Nodes :
          /\ air'[k] # NoFrame /\ air'[k].type = "ack" /\ air'[k].to = i /\ i \in air'[k].hear
          /\ Running(dev'[i].ackTimeout)
          => Got(i, k)'
    <2> TAKE i, k \in Nodes
    <2> HAVE /\ air'[k] # NoFrame /\ air'[k].type = "ack" /\ air'[k].to = i /\ i \in air'[k].hear
             /\ Running(dev'[i].ackTimeout)
    <2>1. CASE k = n
      <3>1. i # n /\ ~OnAir(i) /\ Running(dev[n].sendAck) /\ dev[n].ackTo = i
            /\ Running(dev[i].ackTimeout)
        BY <1>1, <1>2, <2>1
      <3>2. Got(i, n)
        BY <3>1 DEF RInv
      <3> QED
        BY <1>12, <2>1, <3>1, <3>2
    <2>2. CASE k # n
      <3>1. /\ OnAir(k) /\ air[k].type = "ack" /\ air[k].to = i /\ i \in air[k].hear /\ i # n
        BY <1>3, <2>2
      <3>2. Got(i, k)
        BY <1>1, <3>1 DEF RInv
      <3> QED
        BY <1>12, <3>1, <3>2
    <2> QED
      BY <2>1, <2>2
  <1>15. AckedWasReceived'
    BY <1>1 DEF RInv, AckedWasReceived
  <1> QED
    BY <1>11, <1>13, <1>14, <1>15 DEF RInv, OnAir

\* The device that begins to send the packet it was offered.
Sending(o) ==
    DataTxTimers([CancelAllEvents([o EXCEPT !.send = -1, !.packet = None])
                    EXCEPT !.current = o.packet], o.packet.to)

LEMMA DataTimersSound ==
    ASSUME NEW o, Sound(o), Running(o.send)
    PROVE  /\ Sound(Sending(o))
           /\ Sending(o).period = o.period /\ Sending(o).current = o.packet
           /\ Sending(o).sendAck = -1 /\ Sending(o).ok = o.ok
  <1> DEFINE p == o.packet
             m == Sending(o)
             l == [o EXCEPT !.send = -1, !.packet = None, !.sendAck = -1, !.ackTimeout = -1,
                            !.endTx = -1, !.current = p]
  <1>1. o \in DeviceType /\ p \in Packets /\ ~Running(-1) /\ -1 \in Timer
        /\ DataTx \in Timer /\ AckTimeout \in Timer /\ -1 <= Sifs
    BY Durations DEF Sound, Running
  <1>2. [CancelAllEvents([o EXCEPT !.send = -1, !.packet = None]) EXCEPT !.current = p] = l
    BY <1>1 DEF CancelAllEvents, DeviceType
  <1>3. m = IF p.to = Group THEN [l EXCEPT !.endTx = DataTx]
                            ELSE [l EXCEPT !.ackTimeout = AckTimeout]
    BY <1>2 DEF DataTxTimers, Sending
  <1> HIDE DEF m
  <1>4. /\ l \in DeviceType
        /\ l.queue = o.queue /\ l.given = o.given /\ l.sent = o.sent
        /\ l.period = o.period /\ l.send = -1 /\ l.current = p /\ l.sendAck = -1
        /\ l.ackTimeout = -1 /\ l.endTx = -1 /\ l.ok = o.ok
    BY <1>1 DEF DeviceType
  <1> HIDE DEF l
  <1>5. CASE p.to = Group
    <2>1. /\ m \in DeviceType
          /\ m.queue = o.queue /\ m.given = o.given /\ m.sent = o.sent
          /\ m.period = o.period /\ m.send = -1 /\ m.current = p /\ m.sendAck = -1
          /\ m.ackTimeout = -1 /\ m.ok = o.ok
      BY <1>1, <1>3, <1>4, <1>5 DEF DeviceType
    <2>2. Sound(m)
      BY <1>1, <1>5, <2>1 DEF Sound
    <2> QED
      BY <2>1, <2>2 DEF m
  <1>6. CASE p.to # Group
    <2>1. /\ m \in DeviceType
          /\ m.queue = o.queue /\ m.given = o.given /\ m.sent = o.sent
          /\ m.period = o.period /\ m.send = -1 /\ m.current = p /\ m.sendAck = -1
          /\ m.endTx = -1 /\ m.ok = o.ok
      BY <1>1, <1>3, <1>4, <1>6 DEF DeviceType
    <2>2. Sound(m)
      BY <1>1, <2>1 DEF Sound
    <2> QED
      BY <2>1, <2>2 DEF m
  <1> QED
    BY <1>5, <1>6

LEMMA TransmitStepOK ==
    ASSUME IInv, DInv, NEW n \in Nodes, TransmitImmediately(n)
    PROVE  StepOK
  <1> DEFINE o == dev[n]
             p == o.packet
             m == [o EXCEPT !.send = -1, !.packet = None]
             later == IF Running(m.macTryAgain) THEN m.macTryAgain ELSE DelayUntilIdle(n)
             k == Sending(o)
             f == Frame("data", p.to, p.id)
  <1>1. /\ Sound(o) /\ o \in DeviceType /\ Ready(n, o) /\ Reports(n, o)
        /\ o.send = 0 /\ Running(o.send)
    BY DeviceAsItIs DEF TransmitImmediately, Running
  <1>2. UNCHANGED <<losses, received, failed>>
    BY DEF TransmitImmediately, dataVars
  <1>3. p \in Packets /\ o.period >= Exchange(p.to)
    <2>1. p \in Packets /\ o.period >= o.send + Exchange(p.to)
      BY <1>1 DEF Sound
    <2> QED
      BY <1>1, <2>1, Durations
  <1>4. CASE IsStateIdle(n)
    <2>1. dev' = [dev EXCEPT ![n] = k] /\ Transmit(n, f) /\ ~OnAir(n)
      BY <1>4 DEF TransmitImmediately, Becomes, IsStateIdle, Busy, Sending
    <2> HIDE DEF o
    <2>2. /\ Sound(k) /\ k.period = o.period /\ k.current = p /\ k.sendAck = -1 /\ k.ok = o.ok
      BY <1>1, DataTimersSound
    <2> HIDE DEF k, m
    <2>3. /\ f \in FrameType /\ f.type = "data" /\ f.to = p.to /\ f.id = p.id /\ f.left = DataTx
      BY <1>3, Durations DEF Frame, FrameType, Packets
    <2> HIDE DEF f
    <2>4. Fits(f, k)
      BY <1>3, <2>2, <2>3 DEF Fits, Exchange
    <2>5. f.left <= DataTx + AckTx
      BY <2>3, Durations
    <2>6. DInv'
      BY <1>2, <2>1, <2>2, <2>3, <2>4, <2>5, SendsTyped
    <2>7. ASSUME SifsIsShort, HInv, RInv
          PROVE  HInv' /\ RInv'
      <3>1. f.left > Sifs
        BY <2>3, <2>7, Durations DEF SifsIsShort
      <3>2. k.ok = dev[n].ok
        BY <2>2 DEF o
      <3> QED
        BY <1>2, <2>1, <2>2, <2>3, <2>7, <3>1, <3>2, SendsHeard
    <2> QED
      BY <2>6, <2>7 DEF StepOK
  <1>5. CASE ~IsStateIdle(n)
    <2> DEFINE w == [m EXCEPT !.macTryAgain = later]
    <2>1. dev' = [dev EXCEPT ![n] = w] /\ air' = air
      BY <1>5 DEF TransmitImmediately, Becomes
    <2> HIDE DEF o
    <2>2. later \in Timer
      <3>1. DelayUntilIdle(n) \in Nat
        BY <1>5, BusyEnds DEF Retriable
      <3>2. m.macTryAgain \in Timer
        BY <1>1 DEF DeviceType
      <3> QED
        BY <3>1, <3>2, Durations
    <2> HIDE DEF later
    <2>3. /\ w \in DeviceType
          /\ w.queue = o.queue /\ w.given = o.given /\ w.sent = o.sent
          /\ w.period = o.period /\ w.send = -1
          /\ w.current = o.current /\ w.ackTimeout = o.ackTimeout /\ w.endTx = o.endTx
          /\ w.sendAck = o.sendAck /\ w.ackTo = o.ackTo /\ w.ok = o.ok
      BY <1>1, <2>2, Durations DEF DeviceType
    <2> HIDE DEF w, m
    <2>4. ~Running(-1)
      BY DEF Running
    <2>5. Sound(w)
      BY <1>1, <2>3, <2>4 DEF Sound
    <2>6. Ready(n, w) /\ Reports(n, w) /\ Keeps(w, w)
      BY <1>1, <2>3, <2>5, KeepsItself DEF Ready, Fits, Reports
    <2>7. Quieter /\ losses' \in 0 .. MaxLosses
      BY <1>2, <2>1, DeviceAsItIs
    <2> QED
      BY <1>2, <2>1, <2>6, <2>7, HandlerStep DEF StepOK
  <1> QED
    BY <1>4, <1>5

LEMMA SendAckStepOK ==
    ASSUME IInv, DInv, NEW n \in Nodes, SendAckAfterData(n)
    PROVE  StepOK
  <1> DEFINE o == dev[n]
             m == [o EXCEPT !.sendAck = -1, !.ackTo = Group]
             f == Frame("ack", o.ackTo, 0)
  <1>1. /\ Sound(o) /\ o \in DeviceType /\ Ready(n, o) /\ Running(o.sendAck)
    BY DeviceAsItIs DEF SendAckAfterData, Running
  <1>2. UNCHANGED <<losses, received>> /\ dev' = [dev EXCEPT ![n] = m]
    BY DEF SendAckAfterData, Becomes, dataVars
  <1>3. IF OnAir(n) THEN air' = air ELSE Transmit(n, f) /\ failed' = failed
    BY DEF SendAckAfterData, Require
  <1> HIDE DEF o
  <1>4. /\ m \in DeviceType
        /\ m.queue = o.queue /\ m.given = o.given /\ m.sent = o.sent
        /\ m.period = o.period /\ m.send = o.send /\ m.packet = o.packet
        /\ m.current = o.current /\ m.ackTimeout = o.ackTimeout /\ m.endTx = o.endTx
        /\ m.sendAck = -1 /\ m.ok = o.ok
    BY <1>1, Durations DEF DeviceType
  <1> HIDE DEF m
  <1>5. Sound(m)
    <2>1. -1 <= Sifs
      BY Durations
    <2> QED
      BY <1>1, <1>4, <2>1 DEF Sound
  <1>6. CASE OnAir(n)
    <2>1. Ready(n, m)
      BY <1>1, <1>4, <1>5 DEF Ready, Fits
    <2>2. Quieter /\ losses' \in 0 .. MaxLosses
      BY <1>2, <1>3, <1>6, DeviceAsItIs
    <2>3. DInv'
      BY <1>2, <2>1, <2>2, StepTyped
    <2>4. ~HInv
      BY <1>1, <1>6 DEF HInv, o
    <2> QED
      BY <2>3, <2>4 DEF StepOK
  <1>7. CASE ~OnAir(n)
    <2>1. /\ f \in FrameType /\ f.type = "ack" /\ f.to = o.ackTo /\ f.left = AckTx
      BY <1>1, Durations, DeviceFields DEF Frame, FrameType
    <2> HIDE DEF f
    <2>2. Fits(f, m) /\ f.left <= DataTx + AckTx
      BY <2>1, Durations DEF Fits
    <2>3. DInv'
      BY <1>2, <1>3, <1>5, <1>7, <2>1, <2>2, SendsTyped
    <2>4. ASSUME HInv, RInv
          PROVE  HInv' /\ RInv'
      <3>1. /\ m.current = dev[n].current /\ m.ackTimeout = dev[n].ackTimeout
            /\ Running(dev[n].sendAck) /\ f.to = dev[n].ackTo /\ m.ok = dev[n].ok
        BY <1>1, <1>4, <2>1 DEF o
      <3> QED
        BY <1>2, <1>3, <1>4, <1>7, <2>1, <2>4, <3>1, SendsHeard
    <2> QED
      BY <2>3, <2>4 DEF StepOK
  <1> QED
    BY <1>6, <1>7

---------------------------------------------------------------------------
(* Receiving.                                                              *)

\* The header of a frame makes its hearers wait longer, for the same.
LEMMA PostponedSound ==
    ASSUME NEW o, Sound(o), NEW f, f.left \in Nat
    PROVE  LET m == Postponed(o, f)
           IN  /\ Sound(m)
               /\ m.period = o.period /\ m.current = o.current
               /\ m.sendAck = o.sendAck /\ m.ackTo = o.ackTo /\ m.ok = o.ok
               /\ Running(m.ackTimeout) <=> Running(o.ackTimeout)
  <1> DEFINE m == [o EXCEPT !.ackTimeout = f.left + 1]
  <1>1. o \in DeviceType
    BY DEF Sound
  <1>2. CASE Running(o.ackTimeout)
    <2>1. f.left + 1 \in Timer /\ Running(f.left + 1)
      BY DEF Timer, Running
    <2>2. /\ m \in DeviceType
          /\ m.queue = o.queue /\ m.given = o.given /\ m.sent = o.sent
          /\ m.period = o.period /\ m.send = o.send /\ m.packet = o.packet
          /\ m.current = o.current /\ m.endTx = o.endTx
          /\ m.sendAck = o.sendAck /\ m.ackTo = o.ackTo /\ m.ok = o.ok
          /\ Running(m.ackTimeout)
      BY <1>1, <2>1 DEF DeviceType
    <2>3. Postponed(o, f) = m
      BY <1>2 DEF Postponed
    <2> HIDE DEF m
    <2>4. Sound(m)
      BY <1>2, <2>2 DEF Sound
    <2> QED
      BY <1>2, <2>2, <2>3, <2>4
  <1>3. CASE ~Running(o.ackTimeout)
    BY <1>3 DEF Postponed
  <1> QED
    BY <1>2, <1>3

LEMMA PayloadStepOK ==
    ASSUME DInv, NEW n \in Nodes, PayloadStarts(n)
    PROVE  StepOK
  <1> DEFINE f == air[n]
  <1>1. PICK heard \in Outcomes(f) :
          /\ dev' = [k \in Nodes |-> IF k \in heard THEN Postponed(dev[k], f) ELSE dev[k]]
          /\ air' = [air EXCEPT ![n].hear = heard, ![n].head = -1]
          /\ Lost(f, heard)
    BY DEF PayloadStarts
  <1>2. OnAir(n) /\ UNCHANGED <<received, failed>>
    BY DEF PayloadStarts
  <1>3. heard \in SUBSET f.hear /\ heard \in SUBSET Nodes /\ losses' \in 0 .. MaxLosses
    BY <1>1, <1>2, LossesBounded
  <1>4. f \in FrameType /\ f.left \in Nat
    BY <1>2, FrameFields
  <1>5. \A k \in Nodes :
          /\ Sound(dev'[k])
          /\ dev'[k].period = dev[k].period /\ dev'[k].current = dev[k].current
          /\ dev'[k].sendAck = dev[k].sendAck /\ dev'[k].ackTo = dev[k].ackTo
          /\ dev'[k].ok = dev[k].ok
          /\ Running(dev'[k].ackTimeout) <=> Running(dev[k].ackTimeout)
    <2> TAKE k \in Nodes
    <2>1. Sound(dev[k])
      BY DeviceAsItIs
    <2>2. dev'[k] = Postponed(dev[k], f) \/ dev'[k] = dev[k]
      BY <1>1
    <2> QED
      BY <1>4, <2>1, <2>2, PostponedSound
  <1> DEFINE g == [f EXCEPT !.hear = heard, !.head = -1]
  <1>6. /\ g \in FrameType
        /\ g.type = f.type /\ g.to = f.to /\ g.id = f.id /\ g.left = f.left /\ g.hear = heard
    <2> HIDE DEF f
    <2> QED
      BY <1>3, <1>4 DEF FrameType
  <1>7. air' = [air EXCEPT ![n] = g]
    BY <1>1 DEF DInv
  <1> HIDE DEF g
  <1>8. air'[n] = g /\ \A k \in Nodes \ {n} : air'[k] = air[k]
    BY <1>7 DEF DInv
  <1>9. \A k \in Nodes : air'[k] # NoFrame =>
          /\ OnAir(k)
          /\ air'[k].type = air[k].type /\ air'[k].to = air[k].to /\ air'[k].id = air[k].id
          /\ air'[k].left = air[k].left
          /\ \A j \in air'[k].hear : j \in air[k].hear
    BY <1>2, <1>3, <1>6, <1>8 DEF OnAir
  <1>10. \A k \in Nodes : OnAir(k) => /\ air'[k] # NoFrame
                                      /\ air'[k].type = air[k].type /\ air'[k].left = air[k].left
    BY <1>6, <1>8, NoFrameIsNone DEF OnAir
  <1>11. DInv'
    <2>1. dev' \in [Nodes -> DeviceType]
      BY <1>1, <1>5 DEF Sound
    <2>2. air' \in [Nodes -> FrameType \cup {NoFrame}]
      BY <1>6, <1>7 DEF DInv
    <2>3. \A k \in Nodes : air'[k] # NoFrame =>
            air'[k].left <= DataTx + AckTx /\ Fits(air'[k], dev'[k])
      BY <1>5, <1>9 DEF DInv, Fits
    <2> QED
      BY <1>2, <1>3, <1>5, <2>1, <2>2, <2>3 DEF DInv, OnAir
  <1>12. ASSUME HInv, RInv
         PROVE  HInv' /\ RInv'
    <2>1. HInv'
      <3>1. \A i, k \in Nodes : air'[i] # NoFrame /\ k \in air'[i].hear => air'[k] = NoFrame
        BY <1>9, <1>12 DEF HInv
      <3>2. \A i, k \in Nodes : air'[i] # NoFrame /\ air'[k] # NoFrame /\ i # k
              => air'[i].hear \cap air'[k].hear = {}
        <4> TAKE i, k \in Nodes
        <4> HAVE air'[i] # NoFrame /\ air'[k] # NoFrame /\ i # k
        <4>1. air[i].hear \cap air[k].hear = {}
          BY <1>9, <1>12 DEF HInv
        <4> QED
          BY <1>9, <4>1
      <3>3. \A k \in Nodes : air'[k] # NoFrame => ~Running(dev'[k].sendAck)
        BY <1>5, <1>9, <1>12 DEF HInv
      <3>4. \A i, k \in Nodes :
              /\ air'[i] # NoFrame /\ air'[i].type = "data" /\ k \in air'[i].hear
              /\ Running(dev'[k].sendAck)
              => air'[i].left > dev'[k].sendAck
        BY <1>5, <1>9, <1>12 DEF HInv
      <3> QED
        BY <1>2, <1>12, <3>1, <3>2, <3>3, <3>4 DEF HInv, OnAir
    <2>2. \A i, k \in Nodes : Got(i, k) => Got(i, k)'
      BY <1>2, <1>5 DEF Got
    <2>3. \A i, k \in Nodes :
            /\ Running(dev'[k].sendAck) /\ dev'[k].ackTo = i /\ Running(dev'[i].ackTimeout)
            => \/ air'[i] # NoFrame /\ air'[i].type = "data" /\ air'[i].left > dev'[k].sendAck
               \/ Got(i, k)'
      <3> TAKE i, k \in Nodes
      <3> HAVE Running(dev'[k].sendAck) /\ dev'[k].ackTo = i /\ Running(dev'[i].ackTimeout)
      <3>1. \/ OnAir(i) /\ air[i].type = "data" /\ air[i].left > dev[k].sendAck
            \/ Got(i, k)
        BY <1>5, <1>12 DEF RInv
      <3> QED
        BY <1>5, <1>10, <2>2, <3>1
    <2>4. \A i, k \in Nodes :
            /\ air'[k] # NoFrame /\ air'[k].type = "ack" /\ air'[k].to = i /\ i \in air'[k].hear
            /\ Running(dev'[i].ackTimeout)
            => Got(i, k)'
      BY <1>5, <1>9, <1>12, <2>2 DEF RInv
    <2>5. AckedWasReceived'
      BY <1>2, <1>5, <1>12 DEF RInv, AckedWasReceived
    <2> QED
      BY <2>1, <2>3, <2>4, <2>5 DEF RInv, OnAir
  <1> QED
    BY <1>11, <1>12 DEF StepOK

LEMMA DataEndsStepOK ==
    ASSUME DInv, NEW n \in Nodes, DataEnds(n)
    PROVE  StepOK
  <1> DEFINE f == air[n]
             k == f.to
  <1>1. OnAir(n) /\ f.left = 0 /\ f.type = "data" /\ air' = [air EXCEPT ![n] = NoFrame]
    BY DEF DataEnds
  <1>2. PICK heard \in Outcomes(f) :
          /\ Lost(f, heard)
          /\ received' = received \cup
                {<<n, f.id, r>> : r \in IF k = Group THEN heard ELSE heard \cap {k}}
          /\ IF k \in heard
             THEN /\ dev' = [dev EXCEPT ![k].sendAck = Sifs, ![k].ackTo = n]
                  /\ Require(~Running(dev[k].sendAck), "ReceiveOk")
             ELSE UNCHANGED <<dev, failed>>
    BY DEF DataEnds
  <1>3. heard \in SUBSET f.hear /\ heard \in SUBSET Nodes /\ losses' \in 0 .. MaxLosses
    BY <1>1, <1>2, LossesBounded
  <1>4. f \in FrameType /\ f.id \in Nat
    BY <1>1, FrameFields
  <1>5. dev[n].current.to = k /\ dev[n].current.id = f.id
    BY <1>1 DEF DInv, Fits
  <1>6. /\ air' \in [Nodes -> FrameType \cup {NoFrame}]
        /\ air'[n] = NoFrame /\ \A i \in Nodes \ {n} : air'[i] = air[i]
    BY <1>1 DEF DInv
  <1>7. /\ \A x \in received : x \in received'
        /\ received' \subseteq Nodes \X Nat \X Nodes
        /\ k \in heard => <<n, f.id, k>> \in received'
    <2>1. Group \notin Nodes
      BY Durations
    <2>2. \A x \in received : x \in received'
      BY <1>2
    <2>3. received' \subseteq Nodes \X Nat \X Nodes
      BY <1>2, <1>3, <1>4 DEF DInv
    <2>4. k \in heard => <<n, f.id, k>> \in received'
      BY <1>2, <1>3, <2>1
    <2> QED
      BY <2>2, <2>3, <2>4
  <1>8. \A i \in Nodes :
          IF i = k /\ k \in heard
          THEN /\ dev'[i] = [dev[i] EXCEPT !.sendAck = Sifs, !.ackTo = n]
          ELSE dev'[i] = dev[i]
    BY <1>2 DEF DInv
  <1>9. \A i \in Nodes :
          /\ Sound(dev'[i])
          /\ dev'[i].period = dev[i].period /\ dev'[i].current = dev[i].current
          /\ dev'[i].ackTimeout = dev[i].ackTimeout /\ dev'[i].ok = dev[i].ok
          /\ IF i = k /\ k \in heard
             THEN dev'[i].sendAck = Sifs /\ dev'[i].ackTo = n
             ELSE dev'[i].sendAck = dev[i].sendAck /\ dev'[i].ackTo = dev[i].ackTo
    <2> TAKE i \in Nodes
    <2>1. CASE i = k /\ k \in heard
      <3> DEFINE o == dev[i]
                 m == [o EXCEPT !.sendAck = Sifs, !.ackTo = n]
      <3>1. Sound(o) /\ o \in DeviceType /\ dev'[i] = m
        BY <1>8, <2>1, DeviceAsItIs
      <3> HIDE DEF o
      <3>2. n \in Dests /\ Sifs \in Timer /\ Sifs <= Sifs
        BY Durations
      <3>3. /\ m \in DeviceType
            /\ m.queue = o.queue /\ m.given = o.given /\ m.sent = o.sent
            /\ m.period = o.period /\ m.send = o.send /\ m.packet = o.packet
            /\ m.current = o.current /\ m.endTx = o.endTx /\ m.ackTimeout = o.ackTimeout
            /\ m.sendAck = Sifs /\ m.ackTo = n /\ m.ok = o.ok
        BY <3>1, <3>2 DEF DeviceType
      <3> HIDE DEF m
      <3>4. Sound(m)
        BY <3>1, <3>2, <3>3 DEF Sound
      <3> QED
        BY <2>1, <3>1, <3>3, <3>4 DEF o
    <2>2. CASE ~(i = k /\ k \in heard)
      <3>1. dev'[i] = dev[i] /\ Sound(dev[i])
        BY <1>8, <2>2, DeviceAsItIs
      <3> QED
        BY <2>2, <3>1
    <2> QED
      BY <2>1, <2>2
  <1>10. DInv'
    <2>1. dev' \in [Nodes -> DeviceType]
      <3>1. DOMAIN dev' = Nodes /\ dev' = [i \in Nodes |-> dev'[i]]
        BY <1>2 DEF DInv
      <3>2. \A i \in Nodes : dev'[i] \in DeviceType
        BY <1>9 DEF Sound
      <3> QED
        BY <3>1, <3>2
    <2>2. \A i \in Nodes : air'[i] # NoFrame =>
            air'[i].left <= DataTx + AckTx /\ Fits(air'[i], dev'[i])
      BY <1>6, <1>9 DEF DInv, OnAir, Fits
    <2> QED
      BY <1>3, <1>6, <1>7, <1>9, <2>1, <2>2 DEF DInv, OnAir
  <1>11. ASSUME HInv, RInv
         PROVE  HInv' /\ RInv'
    <2>1. \A i \in Nodes : air'[i] # NoFrame => i # n /\ air'[i] = air[i] /\ OnAir(i)
      BY <1>6 DEF OnAir
    <2>2. k \in heard => /\ k \in Nodes /\ k \in f.hear /\ ~OnAir(k)
                         /\ \A i \in Nodes \ {n} : OnAir(i) => k \notin air[i].hear
      <3> HAVE k \in heard
      <3>1. k \in Nodes /\ k \in f.hear
        BY <1>3
      <3>2. ~OnAir(k)
        BY <1>1, <1>11, <3>1 DEF HInv
      <3>3. \A i \in Nodes \ {n} : OnAir(i) => air[n].hear \cap air[i].hear = {}
        BY <1>1, <1>11 DEF HInv
      <3> QED
        BY <3>1, <3>2, <3>3
    <2>4. failed' = failed
      <3>1. CASE k \in heard
        <4>1. ~Running(dev[k].sendAck)
          <5> SUFFICES ASSUME Running(dev[k].sendAck) PROVE FALSE
            OBVIOUS
          <5>1. k \in Nodes /\ k \in air[n].hear
            BY <2>2, <3>1
          <5>2. air[n].left > dev[k].sendAck
            BY <1>1, <1>11, <5>1 DEF HInv
          <5>3. dev[k].sendAck \in Int /\ dev[k].sendAck >= 0
            BY <5>1, DeviceAsItIs, DeviceFields DEF Running
          <5> QED
            BY <1>1, <5>2, <5>3
        <4> QED
          BY <1>2, <3>1, <4>1 DEF Require
      <3>2. CASE k \notin heard
        BY <1>2, <3>2
      <3> QED
        BY <3>1, <3>2
    <2>5. HInv'
      <3>1. \A i, j \in Nodes : air'[i] # NoFrame /\ j \in air'[i].hear => air'[j] = NoFrame
        BY <1>11, <2>1 DEF HInv
      <3>2. \A i, j \in Nodes : air'[i] # NoFrame /\ air'[j] # NoFrame /\ i # j
              => air'[i].hear \cap air'[j].hear = {}
        BY <1>11, <2>1 DEF HInv
      <3>3. \A i \in Nodes : air'[i] # NoFrame => ~Running(dev'[i].sendAck)
        BY <1>9, <1>11, <2>1, <2>2 DEF HInv
      <3>4. \A i, j \in Nodes :
              /\ air'[i] # NoFrame /\ air'[i].type = "data" /\ j \in air'[i].hear
              /\ Running(dev'[j].sendAck)
              => air'[i].left > dev'[j].sendAck
        BY <1>9, <1>11, <2>1, <2>2 DEF HInv
      <3> QED
        BY <1>11, <2>4, <3>1, <3>2, <3>3, <3>4 DEF HInv, OnAir
    <2>6. \A i, j \in Nodes : Got(i, j) => Got(i, j)'
      BY <1>7, <1>9 DEF Got
    <2>7. \A i, j \in Nodes :
            /\ Running(dev'[j].sendAck) /\ dev'[j].ackTo = i /\ Running(dev'[i].ackTimeout)
            => \/ air'[i] # NoFrame /\ air'[i].type = "data" /\ air'[i].left > dev'[j].sendAck
               \/ Got(i, j)'
      <3> TAKE i, j \in Nodes
      <3> HAVE Running(dev'[j].sendAck) /\ dev'[j].ackTo = i /\ Running(dev'[i].ackTimeout)
      <3>1. CASE j = k /\ k \in heard
        <4>1. i = n
          BY <1>9, <3>1
        <4> QED
          BY <1>5, <1>7, <1>9, <3>1, <4>1 DEF Got
      <3>2. CASE ~(j = k /\ k \in heard)
        <4>1. dev'[j].sendAck = dev[j].sendAck /\ dev'[j].ackTo = dev[j].ackTo
              /\ dev'[i].ackTimeout = dev[i].ackTimeout
          BY <1>9, <3>2
        <4>2. \/ OnAir(i) /\ air[i].type = "data" /\ air[i].left > dev[j].sendAck
              \/ Got(i, j)
          BY <1>11, <4>1 DEF RInv
        <4>3. CASE i = n
          <5>1. ~(air[i].left > dev[j].sendAck)
            <6>1. dev[j].sendAck \in Int /\ dev[j].sendAck >= 0
              BY <4>1, DeviceAsItIs, DeviceFields DEF Running
            <6> QED
              BY <1>1, <4>3, <6>1
          <5> QED
            BY <2>6, <4>2, <5>1
        <4>4. CASE i # n
          BY <1>6, <2>6, <4>1, <4>2, <4>4 DEF OnAir
        <4> QED
          BY <4>3, <4>4
      <3> QED
        BY <3>1, <3>2
    <2>8. \A i, j \in Nodes :
            /\ air'[j] # NoFrame /\ air'[j].type = "ack" /\ air'[j].to = i /\ i \in air'[j].hear
            /\ Running(dev'[i].ackTimeout)
            => Got(i, j)'
      BY <1>9, <1>11, <2>1, <2>6 DEF RInv
    <2>9. AckedWasReceived'
      BY <1>7, <1>9, <1>11 DEF RInv, AckedWasReceived
    <2> QED
      BY <2>5, <2>7, <2>8, <2>9 DEF RInv, OnAir
  <1> QED
    BY <1>10, <1>11 DEF StepOK

---------------------------------------------------------------------------
(* Time.                                                                   *)

LEMMA CloserTimer ==
    ASSUME NEW t \in Timer, t # 0
    PROVE  /\ Closer(t) \in Timer
           /\ Running(Closer(t)) <=> Running(t)
           /\ Running(t) => Closer(t) = t - 1
           /\ ~Running(t) => Closer(t) = t
           /\ Closer(t) <= t
  BY DEF Timer, Closer, Running

LEMMA ElapseSound ==
    ASSUME NEW o, Sound(o), ~Due(o)
    PROVE  LET m == Elapse(o)
           IN  /\ Sound(m)
               /\ m.period = Closer(o.period) /\ m.current = o.current
               /\ m.sendAck = Closer(o.sendAck) /\ m.ackTo = o.ackTo /\ m.ok = o.ok
               /\ Running(m.sendAck) <=> Running(o.sendAck)
               /\ Running(m.ackTimeout) <=> Running(o.ackTimeout)
  <1> DEFINE m == [o EXCEPT !.wait = Closer(o.wait), !.period = Closer(o.period),
                            !.tryAgain = Closer(o.tryAgain),
                            !.macTryAgain = Closer(o.macTryAgain), !.send = Closer(o.send),
                            !.ackTimeout = Closer(o.ackTimeout), !.endTx = Closer(o.endTx),
                            !.sendAck = Closer(o.sendAck)]
  <1>1. o \in DeviceType
    BY DEF Sound
  <1>2. Elapse(o) = m
    BY <1>1 DEF Elapse, DeviceType
  <1>3. /\ o.wait \in Timer \ {0} /\ o.period \in Timer \ {0} /\ o.tryAgain \in Timer \ {0}
        /\ o.macTryAgain \in Timer \ {0} /\ o.send \in Timer \ {0}
        /\ o.ackTimeout \in Timer \ {0} /\ o.endTx \in Timer \ {0} /\ o.sendAck \in Timer \ {0}
    BY <1>1, DeviceFields DEF Due
  <1>4. /\ Closer(o.wait) \in Timer /\ Closer(o.period) \in Timer /\ Closer(o.tryAgain) \in Timer
        /\ Closer(o.macTryAgain) \in Timer /\ Closer(o.send) \in Timer
        /\ Closer(o.ackTimeout) \in Timer /\ Closer(o.endTx) \in Timer
        /\ Closer(o.sendAck) \in Timer
        /\ Running(Closer(o.send)) <=> Running(o.send)
        /\ Running(Closer(o.ackTimeout)) <=> Running(o.ackTimeout)
        /\ Running(Closer(o.endTx)) <=> Running(o.endTx)
        /\ Running(Closer(o.sendAck)) <=> Running(o.sendAck)
        /\ Closer(o.period) <= o.period /\ Closer(o.sendAck) <= o.sendAck
    BY <1>3, CloserTimer
  <1>5. /\ m \in DeviceType
        /\ m.queue = o.queue /\ m.given = o.given /\ m.sent = o.sent
        /\ m.period = Closer(o.period) /\ m.send = Closer(o.send) /\ m.packet = o.packet
        /\ m.current = o.current /\ m.endTx = Closer(o.endTx)
        /\ m.ackTimeout = Closer(o.ackTimeout)
        /\ m.sendAck = Closer(o.sendAck) /\ m.ackTo = o.ackTo /\ m.ok = o.ok
    BY <1>1, <1>4 DEF DeviceType
  <1> HIDE DEF m
  <1>6. Running(o.send) =>
          Closer(o.period) >= Closer(o.send) + Exchange(o.packet.to)
    <2> HAVE Running(o.send)
    <2> DEFINE e == Exchange(o.packet.to)
    <2>1. o.period >= o.send + e
      BY DEF Sound
    <2>2. o.period \in Int /\ o.send \in Int /\ e \in Nat /\ o.send >= 0
      BY <1>1, DeviceFields, Durations DEF Running
    <2> HIDE DEF e
    <2>3. Running(o.period)
      BY <2>1, <2>2 DEF Running
    <2>4. Closer(o.period) = o.period - 1 /\ Closer(o.send) = o.send - 1
      BY <2>3 DEF Closer
    <2>5. Closer(o.period) >= Closer(o.send) + e
      BY <2>1, <2>2, <2>4
    <2> QED
      BY <2>5 DEF e
  <1>7. Closer(o.period) <= TxDuration /\ Closer(o.sendAck) <= Sifs
    <2>1. o.period <= TxDuration /\ o.sendAck <= Sifs
      BY DEF Sound
    <2>2. /\ o.period \in Int /\ o.sendAck \in Int /\ TxDuration \in Int /\ Sifs \in Int
          /\ Closer(o.period) \in Int /\ Closer(o.sendAck) \in Int
      BY <1>1, <1>4, DeviceFields, Durations DEF Timer
    <2> QED
      BY <1>4, <2>1, <2>2
  <1>8. Sound(m)
    BY <1>4, <1>5, <1>6, <1>7 DEF Sound
  <1> QED
    BY <1>2, <1>4, <1>5, <1>8

LEMMA TickStepOK ==
    ASSUME DInv, Tick
    PROVE  StepOK
  <1>1. /\ dev' = [n \in Nodes |-> Elapse(dev[n])]
        /\ \A n \in Nodes : ~Due(dev[n]) /\ Sound(dev[n])
        /\ UNCHANGED <<losses, received, failed>>
    BY DEF Tick, DInv
  <1>2. \A n \in Nodes :
          /\ Sound(dev'[n])
          /\ dev'[n].period = Closer(dev[n].period) /\ dev'[n].current = dev[n].current
          /\ dev'[n].sendAck = Closer(dev[n].sendAck) /\ dev'[n].ackTo = dev[n].ackTo
          /\ dev'[n].ok = dev[n].ok
          /\ Running(dev'[n].sendAck) <=> Running(dev[n].sendAck)
          /\ Running(dev'[n].ackTimeout) <=> Running(dev[n].ackTimeout)
    BY <1>1, ElapseSound
  <1>3. \A n \in Nodes : Running(dev[n].sendAck) =>
          dev'[n].sendAck = dev[n].sendAck - 1 /\ dev[n].sendAck \in Int
    BY <1>2, DeviceAsItIs, DeviceFields DEF Closer
  <1>4. \A n \in Nodes : ~OnAir(n) => air'[n] = NoFrame
    BY DEF Tick
  <1>5. \A n \in Nodes : OnAir(n) =>
          /\ air'[n] \in FrameType
          /\ air'[n].type = air[n].type /\ air'[n].to = air[n].to /\ air'[n].id = air[n].id
          /\ air'[n].hear = air[n].hear
          /\ air'[n].left = air[n].left - 1 /\ air[n].left \in Nat /\ air[n].left > 0
    <2> TAKE n \in Nodes
    <2> HAVE OnAir(n)
    <2> DEFINE f == air[n]
               g == [f EXCEPT !.left = @ - 1, !.head = Closer(@)]
    <2>1. air'[n] = g
      BY DEF Tick
    <2>2. f \in FrameType /\ f.left \in Nat /\ f.head \in {-1} \cup Nat
      BY FrameFields
    <2>3. f.left # 0 /\ f.head # 0
      BY DEF Tick, Runs, FrameDue
    <2> HIDE DEF f
    <2>4. f.left - 1 \in Nat /\ Closer(f.head) \in {-1} \cup Nat
      BY <2>2, <2>3, CloserTimer DEF Timer
    <2>5. /\ g \in FrameType
          /\ g.type = f.type /\ g.to = f.to /\ g.id = f.id /\ g.hear = f.hear
          /\ g.left = f.left - 1
      BY <2>2, <2>4 DEF FrameType
    <2> HIDE DEF g
    <2> QED
      BY <2>1, <2>2, <2>3, <2>5 DEF f
  <1>6. \A n \in Nodes : air'[n] # NoFrame <=> OnAir(n)
    BY <1>4, <1>5, NoFrameIsNone
  <1>7. DInv'
    <2>1. dev' \in [Nodes -> DeviceType]
      BY <1>1, <1>2 DEF Sound
    <2>2. air' \in [Nodes -> FrameType \cup {NoFrame}]
      <3>1. DOMAIN air' = Nodes /\ air' = [n \in Nodes |-> air'[n]]
        BY DEF Tick
      <3>2. \A n \in Nodes : air'[n] \in FrameType \cup {NoFrame}
        BY <1>4, <1>5
      <3> QED
        BY <3>1, <3>2
    <2>3. \A n \in Nodes : air'[n] # NoFrame =>
            air'[n].left <= DataTx + AckTx /\ Fits(air'[n], dev'[n])
      <3> TAKE n \in Nodes
      <3> HAVE air'[n] # NoFrame
      <3>1. OnAir(n) /\ air[n].left <= DataTx + AckTx /\ Fits(air[n], dev[n])
        BY <1>6 DEF DInv
      <3>2. air'[n].left <= DataTx + AckTx
        BY <1>5, <3>1, Durations
      <3>3. Fits(air'[n], dev'[n])
        <4> SUFFICES ASSUME air'[n].type = "data" PROVE Fits(air'[n], dev'[n])
          BY DEF Fits
        <4> DEFINE r == Reply(air[n].to)
        <4>1. /\ dev[n].current.to = air[n].to /\ dev[n].current.id = air[n].id
              /\ dev[n].period >= air[n].left + r
          BY <1>5, <3>1 DEF Fits
        <4>2. r \in Nat /\ dev[n].period \in Int
          BY Durations, DeviceAsItIs, DeviceFields
        <4> HIDE DEF r
        <4>3. dev'[n].period = dev[n].period - 1
          BY <1>2, <1>5, <3>1, <4>1, <4>2 DEF Closer, Running
        <4>4. dev'[n].period >= air'[n].left + r
          BY <1>5, <3>1, <4>1, <4>2, <4>3
        <4> QED
          BY <1>2, <1>5, <3>1, <4>1, <4>4 DEF Fits, r
      <3> QED
        BY <3>2, <3>3
    <2> QED
      BY <1>1, <1>2, <2>1, <2>2, <2>3 DEF DInv, OnAir
  <1>8. ASSUME HInv, RInv
        PROVE  HInv' /\ RInv'
    <2>1. HInv'
      <3>1. \A i, j \in Nodes : air'[i] # NoFrame /\ j \in air'[i].hear => air'[j] = NoFrame
        BY <1>5, <1>6, <1>8 DEF HInv
      <3>2. \A i, j \in Nodes : air'[i] # NoFrame /\ air'[j] # NoFrame /\ i # j
              => air'[i].hear \cap air'[j].hear = {}
        BY <1>5, <1>6, <1>8 DEF HInv
      <3>3. \A i \in Nodes : air'[i] # NoFrame => ~Running(dev'[i].sendAck)
        BY <1>2, <1>6, <1>8 DEF HInv
      <3>4. \A i, j \in Nodes :
              /\ air'[i] # NoFrame /\ air'[i].type = "data" /\ j \in air'[i].hear
              /\ Running(dev'[j].sendAck)
              => air'[i].left > dev'[j].sendAck
        <4> TAKE i, j \in Nodes
        <4> HAVE /\ air'[i] # NoFrame /\ air'[i].type = "data" /\ j \in air'[i].hear
                 /\ Running(dev'[j].sendAck)
        <4>1. OnAir(i) /\ air[i].type = "data" /\ j \in air[i].hear /\ Running(dev[j].sendAck)
          BY <1>2, <1>5, <1>6
        <4>2. air[i].left > dev[j].sendAck
          BY <1>8, <4>1 DEF HInv
        <4> QED
          BY <1>3, <1>5, <4>1, <4>2
      <3> QED
        BY <1>1, <1>8, <3>1, <3>2, <3>3, <3>4 DEF HInv, OnAir
    <2>2. \A i, j \in Nodes : Got(i, j) => Got(i, j)'
      BY <1>1, <1>2 DEF Got
    <2>3. \A i, j \in Nodes :
            /\ Running(dev'[j].sendAck) /\ dev'[j].ackTo = i /\ Running(dev'[i].ackTimeout)
            => \/ air'[i] # NoFrame /\ air'[i].type = "data" /\ air'[i].left > dev'[j].sendAck
               \/ Got(i, j)'
      <3> TAKE i, j \in Nodes
      <3> HAVE Running(dev'[j].sendAck) /\ dev'[j].ackTo = i /\ Running(dev'[i].ackTimeout)
      <3>1. Running(dev[j].sendAck) /\ dev[j].ackTo = i /\ Running(dev[i].ackTimeout)
        BY <1>2
      <3>2. \/ OnAir(i) /\ air[i].type = "data" /\ air[i].left > dev[j].sendAck
            \/ Got(i, j)
        BY <1>8, <3>1 DEF RInv
      <3>3. CASE OnAir(i) /\ air[i].type = "data" /\ air[i].left > dev[j].sendAck
        BY <1>3, <1>5, <1>6, <3>1, <3>3
      <3> QED
        BY <2>2, <3>2, <3>3
    <2>4. \A i, j \in Nodes :
            /\ air'[j] # NoFrame /\ air'[j].type = "ack" /\ air'[j].to = i /\ i \in air'[j].hear
            /\ Running(dev'[i].ackTimeout)
            => Got(i, j)'
      BY <1>2, <1>5, <1>6, <1>8, <2>2 DEF RInv
    <2>5. AckedWasReceived'
      BY <1>1, <1>2, <1>8 DEF RInv, AckedWasReceived
    <2> QED
      BY <2>1, <2>3, <2>4, <2>5 DEF RInv, OnAir
  <1> QED
    BY <1>7, <1>8 DEF StepOK

---------------------------------------------------------------------------
(* The invariant.                                                          *)

LEMMA InitDInv ==
    ASSUME Init
    PROVE  DInv /\ HInv /\ RInv
  <1>1. \A n \in Nodes : /\ DeviceInit(n) \in DeviceType
                         /\ Sound(DeviceInit(n)) /\ DeviceInit(n).ok = {}
                         /\ ~Running(DeviceInit(n).sendAck)
    <2> TAKE n \in Nodes
    <2> DEFINE m == DeviceInit(n)
    <2>1. n \in Dests /\ Group \in Dests /\ -1 \in Timer /\ -1 <= TxDuration /\ -1 <= Sifs
          /\ ~Running(-1) /\ 0 \in Nat
      BY Durations DEF Running
    <2>2. <<>> \in Seq(Packets) /\ DOMAIN <<>> = {}
      OBVIOUS
    <2>3. /\ m \in DeviceType
          /\ m.queue = <<>> /\ m.given = 0 /\ m.sent = [d \in Dests |-> 0]
          /\ m.period = -1 /\ m.send = -1 /\ m.ackTimeout = -1 /\ m.endTx = -1
          /\ m.sendAck = -1 /\ m.ok = {}
      BY <2>1, <2>2 DEF DeviceInit, DeviceType
    <2> HIDE DEF m
    <2>4. Ordered(m.queue, m.sent, m.given)
      BY <2>2, <2>3 DEF Ordered
    <2>5. Sound(m)
      BY <2>1, <2>3, <2>4 DEF Sound
    <2> QED
      BY <2>1, <2>3, <2>5 DEF m
  <1>2. \A n \in Nodes : ~OnAir(n)
    BY DEF Init, OnAir
  <1>3. DInv
    BY <1>1, <1>2, Durations DEF Init, DInv
  <1>4. HInv
    BY <1>2 DEF Init, HInv
  <1>5. RInv
    BY <1>1, <1>2 DEF Init, RInv, AckedWasReceived
  <1> QED
    BY <1>3, <1>4, <1>5

LEMMA StutterOK ==
    ASSUME DInv, UNCHANGED vars
    PROVE  StepOK
  <1>1. DInv'
    BY DEF vars, DInv, OnAir
  <1>2. HInv => HInv'
    BY DEF vars, HInv, OnAir
  <1>3. RInv => RInv'
    BY DEF vars, RInv, OnAir, Got, AckedWasReceived
  <1> QED
    BY <1>1, <1>2, <1>3 DEF StepOK

LEMMA NextOK ==
    ASSUME IInv, DInv, [Next]_vars
    PROVE  StepOK
  <1>1. IInv'
    BY NextIInv
  <1>2. ASSUME NEW n \in Nodes, NEW d \in Dests, Enqueue(n, d)
        PROVE  StepOK
    BY <1>2, EnqueueStepOK
  <1>3. ASSUME NEW n \in Nodes,
               \/ SendBeacon(n)
               \/ TxBeaconEnds(n) \/ GroupBeaconEnds(n) \/ RxBeaconEnds(n) \/ BeaconAckEnds(n)
        PROVE  StepOK
    BY <1>1, <1>3, ControlStepsOK, GroupBeaconStepOK, RxBeaconStepOK
  <1>4. ASSUME NEW n \in Nodes,
               \/ WaitEnds(n) \/ PeriodEnds(n) \/ TryAgain(n)
               \/ NormalAckTimeout(n) \/ EndTxNoAck(n)
        PROVE  StepOK
    BY <1>4, TimerStepsOK, WaitingStepsOK
  <1>5. ASSUME NEW n \in Nodes,
               \/ TransmitImmediately(n) \/ SendAckAfterData(n)
               \/ PayloadStarts(n) \/ DataEnds(n) \/ AckEnds(n)
        PROVE  StepOK
    BY <1>5, TransmitStepOK, SendAckStepOK, PayloadStepOK, DataEndsStepOK, AckEndsStepOK
  <1>6. CASE Tick
    BY <1>6, TickStepOK
  <1>7. CASE UNCHANGED vars
    BY <1>7, StutterOK
  <1> QED
    BY <1>2, <1>3, <1>4, <1>5, <1>6, <1>7 DEF Next

THEOREM ExchangeInvariance == Spec => []DInv
  <1>1. Init => DInv
    BY InitDInv
  <1>2. IInv /\ DInv /\ [Next]_vars => DInv'
    BY NextOK DEF StepOK
  <1> QED
    BY <1>1, <1>2, Invariance, PTL DEF Spec

THEOREM AcknowledgmentInvariance ==
    ASSUME SifsIsShort
    PROVE  Spec => [](HInv /\ RInv)
  <1>1. Init => HInv /\ RInv
    BY InitDInv
  <1>2. IInv /\ DInv /\ HInv /\ RInv /\ [Next]_vars => HInv' /\ RInv'
    BY NextOK DEF StepOK
  <1> QED
    BY <1>1, <1>2, Invariance, ExchangeInvariance, PTL DEF Spec

---------------------------------------------------------------------------
(* The theorems.                                                           *)

\* Whatever beacons and frames are lost or collide, devices, frames, packets
\* and agreements are what the program's types and bounds allow.
THEOREM TypeCorrectness == Spec => []TypeOK
  <1>1. IInv /\ DInv => TypeOK
    BY DEF IInv, DInv, TypeOK
  <1> QED
    BY <1>1, Invariance, ExchangeInvariance, PTL

\* DequeueByAddress and PushFront keep the packets for one destination in the
\* order they came in, and send none that is not later than the last one sent.
THEOREM PacketsStayInOrder == Spec => []SentInOrder
  <1>1. DInv => SentInOrder
    <2> SUFFICES ASSUME DInv PROVE SentInOrder
      OBVIOUS
    <2>1. \A n \in Nodes : Ordered(dev[n].queue, dev[n].sent, dev[n].given)
      BY DEF DInv, Sound
    <2> QED
      BY <2>1 DEF Ordered, SentInOrder
  <1> QED
    BY <1>1, ExchangeInvariance, PTL

\* What a node sends ends, its acknowledgment included, before its period
\* does: the time a packet takes is compared with what is left of the period
\* before it waits a SIFS to be sent, and nothing takes the period away.
THEOREM ExchangesFit == Spec => []ExchangeFitsPeriod
  <1>1. DInv => ExchangeFitsPeriod
    BY DEF DInv, Fits, Reply, ExchangeFitsPeriod
  <1> QED
    BY <1>1, ExchangeInvariance, PTL

\* No assertion of the device and the MACs fails where a SIFS is shorter than
\* a frame: a node owes one acknowledgment at most, and owes none while it
\* sends.
THEOREM DeviceNeverFails ==
    ASSUME SifsIsShort
    PROVE  Spec => []NoAssertionFails
  <1>1. HInv => NoAssertionFails
    BY DEF HInv, NoAssertionFails, Alive
  <1> QED
    BY <1>1, AcknowledgmentInvariance, PTL

\* An acknowledgment carries no number, and is taken for that of the packet in
\* hand by any node that waits for one.  It is that packet's all the same.
THEOREM AckedPacketsArrived ==
    ASSUME SifsIsShort
    PROVE  Spec => []AckedWasReceived
  <1>1. RInv => AckedWasReceived
    BY DEF RInv
  <1> QED
    BY <1>1, AcknowledgmentInvariance, PTL

=============================================================================
