---------------------------- MODULE MmWavePhy_proofs ----------------------------
(***************************************************************************)
(* Proofs about the PHY, for any number of signals, any durations, powers  *)
(* and thresholds, and any listener: its types; that a reception goes      *)
(* through its stages one after the other without an assertion failing     *)
(* where the MAC never changes channels; that a payload is received on the *)
(* channel it was sent on where the MAC does not interrupt; and that an    *)
(* idle PHY hears no energy where the MAC does neither.                    *)
(***************************************************************************)
EXTENDS MmWavePhy, NumberLemmas

---------------------------------------------------------------------------
(* Energy.                                                                 *)

\* Finitely many signals leave the air by some moment.
LEMMA SignalsEnd ==
    ASSUME NEW a \in AirType
    PROVE  \E t \in Nat : \A s \in Signals : a[s].left <= t
  <1>1. PICK q \in Seq(Signals) : \A s \in Signals : \E i \in 1 .. Len(q) : q[i] = s
    BY PhyAssumption DEF IsFiniteSet
  <1> DEFINE Bound(t, n) == \A i \in 1 .. n : a[q[i]].left <= t
             B == {n \in 0 .. Len(q) : \A t \in Nat : ~Bound(t, n)}
  <1>2. Len(q) \in Nat /\ \A i \in 1 .. Len(q) : a[q[i]].left \in Int
    BY DEF AirType
  <1>3. B = {}
    <2> SUFFICES ASSUME B # {} PROVE FALSE
      OBVIOUS
    <2>1. PICK m \in B : \A n \in B : m <= n
      <3>1. B \in SUBSET Nat
        BY <1>2
      <3> HIDE DEF B
      <3> QED
        BY <3>1, LeastNatural
    <2>2. m \in 0 .. Len(q) /\ \A t \in Nat : ~Bound(t, m)
      OBVIOUS
    <2>3. m # 0
      <3>1. Bound(0, 0) /\ 0 \in Nat
        OBVIOUS
      <3> HIDE DEF Bound
      <3> QED
        BY <2>2, <3>1
    <2>4. m - 1 \in 0 .. Len(q) /\ m - 1 \notin B
      <3>1. m - 1 \in 0 .. Len(q) /\ ~(m <= m - 1)
        BY <1>2, <2>2, <2>3
      <3> HIDE DEF B
      <3> QED
        BY <2>1, <3>1
    <2>5. PICK t \in Nat : Bound(t, m - 1)
      <3> HIDE DEF Bound
      <3> QED
        BY <2>4
    <2> HIDE DEF B
    <2>6. a[q[m]].left \in Int
      <3>1. m \in 1 .. Len(q)
        BY <1>2, <2>2, <2>3
      <3> QED
        BY <1>2, <3>1
    <2>7. PICK u \in Nat : u >= t /\ u >= a[q[m]].left
      <3>1. \A x \in Int : \E v \in Nat : v >= t /\ v >= x
        OBVIOUS
      <3> QED
        BY <2>6, <3>1
    <2>8. Bound(u, m)
      <3> SUFFICES ASSUME NEW i \in 1 .. m PROVE a[q[i]].left <= u
        OBVIOUS
      <3>1. i = m \/ i \in 1 .. (m - 1)
        BY <2>2
      <3>2. i \in 1 .. Len(q)
        BY <1>2, <2>2
      <3>3. a[q[i]].left \in Int
        BY <1>2, <3>2
      <3> QED
        BY <2>5, <2>7, <3>1, <3>3
    <2> QED
      BY <2>2, <2>8
  <1>4. PICK t \in Nat : Bound(t, Len(q))
    <2> HIDE DEF Bound
    <2> QED
      BY <1>2, <1>3
  <1> QED
    BY <1>1, <1>4

LEMMA NoPowerOfNone ==
    ASSUME NEW a \in AirType, NEW t \in Nat, \A s \in Signals : a[s].left <= t
    PROVE  PowerAfter(a, t) = 0
  <1>1. {s \in Signals : a[s].left > t} = {}
    BY DEF AirType
  <1>2. ASSUME NEW op(_) PROVE MapThenSumSet(op, {}) = 0
    <2> DEFINE P(f) == f = [s \in SUBSET {} |->
                 IF s = {} THEN 0 ELSE LET x == CHOOSE y \in s : TRUE IN op(x) + f[s \ {x}]]
    <2>1. P([s \in SUBSET {} |-> 0])
      OBVIOUS
    <2>2. P(CHOOSE f : P(f))
      BY <2>1, Zenon
    <2> QED
      BY <2>2 DEF MapThenSumSet, MapThenFoldSet
  <1> QED
    BY <1>1, <1>2 DEF PowerAfter
\* The energy on the air falls below the threshold at some moment, and
\* GetEnergyDuration returns it.
LEMMA EnergyDurationType ==
    ASSUME NEW a \in AirType
    PROVE  GetEnergyDuration(a) \in Nat
  <1> DEFINE T == {0} \cup {a[s].left : s \in {r \in Signals : a[r].left > 0}}
             D == {t \in T : PowerAfter(a, t) < CcaEdThreshold}
  <1>1. T \in SUBSET Nat
    BY DEF AirType
  <1>2. PICK t \in T : \A s \in Signals : a[s].left <= t
    <2>1. PICK b \in Nat : \A s \in Signals : a[s].left <= b
      BY SignalsEnd
    <2> DEFINE B == {u \in Nat : \A s \in Signals : a[s].left <= u}
    <2>2. PICK u \in B : \A v \in B : u <= v
      <3>1. b \in B /\ B \in SUBSET Nat
        BY <2>1
      <3> HIDE DEF B
      <3> QED
        BY <3>1, LeastNatural
    <2>3. CASE u = 0
      BY <2>2, <2>3
    <2>4. CASE u # 0
      <3>1. u - 1 \in Nat /\ u - 1 \notin B
        BY <2>2, <2>4
      <3>2. PICK s \in Signals : ~(a[s].left <= u - 1)
        BY <3>1
      <3>3. a[s].left \in Int /\ a[s].left <= u
        BY <2>2 DEF AirType
      <3>4. a[s].left = u /\ a[s].left > 0
        BY <3>1, <3>2, <3>3
      <3> QED
        BY <2>2, <3>4
    <2> QED
      BY <2>3, <2>4
  <1>3. PowerAfter(a, t) < CcaEdThreshold
    BY <1>1, <1>2, NoPowerOfNone, PhyAssumption
  <1>4. t \in D /\ D \in SUBSET Nat
    BY <1>1, <1>3
  <1>5. GetEnergyDuration(a) = Min(D)
    BY DEF GetEnergyDuration
  <1> HIDE DEF D
  <1> QED
    BY <1>4, <1>5, LeastNatural

---------------------------------------------------------------------------
(* What the handlers do to the PHY's members.  The listener's calls are of *)
(* no interest, and are not typed.                                         *)

Assertions ==
    {"none", "StartRx", "StartReceivePreamble", "StartReceiveHeader", "ContinueReceiveHeader",
     "StartReceivePayload", "EndReceive", "ResetReceive", "Send", "DoChannelSwitch"}

IsPhy(p) ==
    /\ DOMAIN p = {"endTx", "endRx", "endSwitching", "endCca", "txEvent", "switchEvent",
                   "preamble", "header", "payload", "current", "failed", "calls"}
    /\ p.endTx \in Int /\ p.endRx \in Int /\ p.endSwitching \in Int /\ p.endCca \in Int
    /\ p.txEvent \in Int /\ p.switchEvent \in Int
    /\ p.preamble \in Events({"StartReceiveHeader"})
    /\ p.header \in Events({"ContinueReceiveHeader", "StartReceivePayload"})
    /\ p.payload \in Events({"EndReceive", "ResetReceive"})
    /\ p.current \in Signals \cup {NoSignal}
    /\ p.failed \in Assertions

LEMMA PhyTypeIsPhy ==
    ASSUME NEW p \in PhyType
    PROVE  IsPhy(p)
  BY DEF PhyType, IsPhy, Assertions

LEMMA IsPhyType ==
    ASSUME NEW p, IsPhy(p)
    PROVE  [p EXCEPT !.calls = <<>>] \in PhyType
  BY DEF PhyType, IsPhy, Assertions

\* Members that busy notifications and assertions leave alone.
Same(p, q) ==
    /\ IsPhy(q)
    /\ q.endTx = p.endTx /\ q.endRx = p.endRx /\ q.endSwitching = p.endSwitching
    /\ q.txEvent = p.txEvent /\ q.switchEvent = p.switchEvent
    /\ q.preamble = p.preamble /\ q.header = p.header /\ q.payload = p.payload
    /\ q.current = p.current

\* A notification that the channel is busy, at most.
Busier(p, q) == Same(p, q) /\ q.failed = p.failed /\ q.endCca >= p.endCca

LEMMA GetStateFacts ==
    ASSUME NEW p, IsPhy(p)
    PROVE  /\ GetState(p) = "TX" <=> p.endTx > 0
           /\ GetState(p) = "RX" <=> p.endTx <= 0 /\ p.endRx > 0
           /\ GetState(p) = "SWITCHING" <=>
                p.endTx <= 0 /\ p.endRx <= 0 /\ p.endSwitching > 0
           /\ GetState(p) = "CCA_BUSY" <=>
                p.endTx <= 0 /\ p.endRx <= 0 /\ p.endSwitching <= 0 /\ p.endCca > 0
           /\ GetState(p) = "IDLE" <=>
                p.endTx <= 0 /\ p.endRx <= 0 /\ p.endSwitching <= 0 /\ p.endCca <= 0
           /\ GetDelayUntilIdle(p) \in Int
  <1>1. /\ p.endTx \in Int /\ p.endRx \in Int /\ p.endSwitching \in Int /\ p.endCca \in Int
    BY DEF IsPhy
  <1>2. CASE p.endTx > 0
    BY <1>1, <1>2 DEF GetState, GetDelayUntilIdle
  <1>3. CASE p.endTx <= 0 /\ p.endRx > 0
    BY <1>1, <1>3 DEF GetState, GetDelayUntilIdle
  <1>4. CASE p.endTx <= 0 /\ p.endRx <= 0 /\ p.endSwitching > 0
    BY <1>1, <1>4 DEF GetState, GetDelayUntilIdle
  <1>5. CASE p.endTx <= 0 /\ p.endRx <= 0 /\ p.endSwitching <= 0 /\ p.endCca > 0
    BY <1>1, <1>5 DEF GetState, GetDelayUntilIdle
  <1>6. CASE p.endTx <= 0 /\ p.endRx <= 0 /\ p.endSwitching <= 0 /\ p.endCca <= 0
    BY <1>1, <1>6 DEF GetState, GetDelayUntilIdle
  <1> QED
    BY <1>1, <1>2, <1>3, <1>4, <1>5, <1>6

LEMMA SwitchMaybeIsBusier ==
    ASSUME NEW p, IsPhy(p), NEW d \in Int
    PROVE  /\ Busier(p, SwitchMaybeToCcaBusy(p, d))
           /\ GetState(p) # "RX" => SwitchMaybeToCcaBusy(p, d).endCca >= d
  <1>1. CASE GetState(p) = "RX"
    BY <1>1 DEF SwitchMaybeToCcaBusy, Busier, Same, IsPhy
  <1>2. CASE GetState(p) # "RX"
    BY <1>2 DEF SwitchMaybeToCcaBusy, Tell, Busier, Same, IsPhy
  <1> QED
    BY <1>1, <1>2

LEMMA CcaIsBusier ==
    ASSUME NEW p, IsPhy(p), NEW a \in AirType, NEW s
    PROVE  /\ Busier(p, MaybeCcaBusyDuration(p, a))
           /\ Busier(p, CcaIfOutlasts(p, a, s))
  <1>1. Busier(p, p)
    BY DEF Busier, Same, IsPhy
  <1>2. Busier(p, MaybeCcaBusyDuration(p, a))
    BY <1>1, EnergyDurationType, SwitchMaybeIsBusier DEF MaybeCcaBusyDuration
  <1> QED
    BY <1>1, <1>2 DEF CcaIfOutlasts

\* An assertion has failed, which leaves the rest alone.
Stopped(p, q) == Same(p, q) /\ q.endCca = p.endCca /\ q.failed # "none"

LEMMA RequireKeeps ==
    ASSUME NEW p, IsPhy(p), NEW holds \in BOOLEAN, NEW name \in Assertions
    PROVE  /\ Same(p, Require(p, holds, name))
           /\ Require(p, holds, name).endCca = p.endCca
           /\ Require(p, holds, name).failed = IF holds THEN p.failed ELSE name
  BY DEF Require, Same, IsPhy

Synchronized(p, s) ==
    [p EXCEPT !.preamble = Event(PreambleDetection, "StartReceiveHeader", s), !.current = s]

\* A frame that arrives is dropped, is what the PHY synchronizes to, or
\* meets an assertion.
LEMMA PreambleFacts ==
    ASSUME NEW p, IsPhy(p), NEW a \in AirType, NEW s \in Signals,
           NEW q, q = StartReceivePreamble(p, a, s)
    PROVE  \/ Busier(p, q)
           \/ /\ Stopped(p, q) /\ p.current = NoSignal
              /\ Running(p.preamble) \/ GetState(p) = "RX"
           \/ /\ q = Synchronized(p, s)
              /\ GetState(p) = "IDLE" \/ (GetState(p) = "CCA_BUSY" /\ p.current = NoSignal)
  <1>1. Busier(p, p)
    BY DEF Busier, Same, IsPhy
  <1>2. Busier(p, CcaIfOutlasts(p, a, s))
    BY CcaIsBusier
  <1>3. /\ Stopped(p, Require(p, FALSE, "StartRx"))
        /\ Stopped(p, Require(p, FALSE, "StartReceivePreamble"))
    BY DEF Require, Stopped, Same, IsPhy, Assertions
  <1>4. \/ Busier(p, StartRx(p, a, s))
        \/ Stopped(p, StartRx(p, a, s)) /\ Running(p.preamble) /\ p.current = NoSignal
        \/ StartRx(p, a, s) = Synchronized(p, s)
    <2>1. CASE Running(p.preamble) /\ p.current = NoSignal
      BY <1>3, <2>1 DEF StartRx
    <2>2. CASE Running(p.preamble) /\ p.current # NoSignal /\ a[s].power <= a[p.current].power
      BY <1>1, <2>2 DEF StartRx
    <2>3. CASE /\ ~(Running(p.preamble) /\ p.current = NoSignal)
               /\ ~(Running(p.preamble) /\ p.current # NoSignal
                    /\ a[s].power <= a[p.current].power)
      BY <2>3 DEF StartRx, Synchronized
    <2> QED
      BY <2>1, <2>2, <2>3
  <1>5. CASE GetState(p) = "IDLE"
    <2>1. q = StartRx(p, a, s)
      BY <1>5 DEF StartReceivePreamble
    <2> QED
      BY <1>4, <1>5, <2>1
  <1>6. CASE GetState(p) = "CCA_BUSY" /\ p.current = NoSignal
    <2>1. q = StartRx(p, a, s)
      BY <1>6 DEF StartReceivePreamble
    <2> QED
      BY <1>4, <1>6, <2>1
  <1>7. CASE GetState(p) = "RX" /\ p.current = NoSignal
    <2>1. q = Require(p, FALSE, "StartReceivePreamble")
      BY <1>7 DEF StartReceivePreamble
    <2> QED
      BY <1>3, <1>7, <2>1
  <1>8. CASE ~(\/ GetState(p) = "IDLE"
               \/ GetState(p) = "CCA_BUSY" /\ p.current = NoSignal
               \/ GetState(p) = "RX" /\ p.current = NoSignal)
    <2>1. q = CcaIfOutlasts(p, a, s)
      BY <1>8 DEF StartReceivePreamble
    <2> QED
      BY <1>2, <2>1
  <1> QED
    BY <1>5, <1>6, <1>7, <1>8

\* Handlers of the reception leave what the PHY sends, and when it switches.
SameTx(p, q) ==
    /\ q.endTx = p.endTx /\ q.endSwitching = p.endSwitching
    /\ q.txEvent = p.txEvent /\ q.switchEvent = p.switchEvent

LEMMA NoEventType ==
    ASSUME NEW runs
    PROVE  NoEvent \in Events(runs) /\ ~Running(NoEvent) /\ NoEvent.run = "none"
  BY DEF NoEvent, Events, Running

LEMMA EventType ==
    ASSUME NEW runs, NEW t \in Nat, NEW r \in runs, NEW s \in Signals
    PROVE  /\ Event(t, r, s) \in Events(runs)
           /\ Event(t, r, s).left = t /\ Event(t, r, s).run = r /\ Event(t, r, s).of = s
  BY DEF Event, Events

HeaderExpected(p, a) ==
    /\ GetState(p) # "RX" /\ ~Running(p.header)
    /\ p.current = p.preamble.of /\ a[p.preamble.of].recorded

LEMMA HeaderFacts ==
    ASSUME NEW p, IsPhy(p), NEW a \in AirType, NEW detected \in BOOLEAN,
           p.preamble.of \in Signals,
           NEW q, q = StartReceiveHeader(p, a, detected)
    PROVE  /\ IsPhy(q) /\ SameTx(p, q) /\ q.endRx = p.endRx /\ q.endCca >= p.endCca
           /\ q.preamble = NoEvent /\ q.payload = p.payload
           /\ q.failed = IF HeaderExpected(p, a) THEN p.failed ELSE "StartReceiveHeader"
           /\ detected =>
                /\ q.header = Event(PreambleRest, "ContinueReceiveHeader", p.preamble.of)
                /\ q.current = p.current
                /\ GetState(p) # "RX" => q.endCca >= PreambleRest
           /\ ~detected => q.header = p.header /\ q.current = NoSignal
  <1> DEFINE p1 == [p EXCEPT !.preamble = NoEvent]
             ok == /\ GetState(p) # "RX" /\ ~Running(p.header)
                   /\ p.current = p.preamble.of /\ a[p.preamble.of].recorded
             p2 == Require(p1, ok, "StartReceiveHeader")
  <1>1. IsPhy(p1) /\ Same([p EXCEPT !.preamble = NoEvent], p1) /\ p1.endCca = p.endCca
        /\ p1.failed = p.failed
    BY NoEventType DEF IsPhy, Same
  <1>2. /\ p1.preamble = NoEvent /\ p1.header = p.header /\ p1.payload = p.payload
        /\ p1.current = p.current /\ SameTx(p, p1) /\ p1.endRx = p.endRx
    BY DEF IsPhy, SameTx
  <1>3. ok \in BOOLEAN /\ (ok <=> HeaderExpected(p, a))
    BY DEF AirType, HeaderExpected
  <1>4. q = IF detected
            THEN [SwitchMaybeToCcaBusy(p2, PreambleRest) EXCEPT
                    !.header = Event(PreambleRest, "ContinueReceiveHeader", p.preamble.of)]
            ELSE CcaIfOutlasts([p2 EXCEPT !.current = NoSignal], a, p.preamble.of)
    BY DEF StartReceiveHeader
  <1> HIDE DEF p1, ok
  <1>5. /\ Same(p1, p2) /\ p2.endCca = p1.endCca
        /\ p2.failed = IF ok THEN p1.failed ELSE "StartReceiveHeader"
    BY <1>1, <1>3, RequireKeeps DEF Assertions
  <1> HIDE DEF p2
  <1>6. GetState(p2) = "RX" <=> GetState(p) = "RX"
    BY <1>2, <1>5, GetStateFacts DEF Same, SameTx
  <1>7. CASE detected
    <2> DEFINE r == SwitchMaybeToCcaBusy(p2, PreambleRest)
               e == Event(PreambleRest, "ContinueReceiveHeader", p.preamble.of)
    <2>1. Busier(p2, r) /\ (GetState(p2) # "RX" => r.endCca >= PreambleRest)
      BY <1>5, SwitchMaybeIsBusier, PhyAssumption DEF Same
    <2>2. e \in Events({"ContinueReceiveHeader", "StartReceivePayload"})
      BY EventType, PhyAssumption
    <2>3. q = [r EXCEPT !.header = e]
      BY <1>4, <1>7
    <2> HIDE DEF r, e
    <2>4. IsPhy(q) /\ q.header = e
          /\ q.endTx = r.endTx /\ q.endRx = r.endRx /\ q.endSwitching = r.endSwitching
          /\ q.endCca = r.endCca /\ q.txEvent = r.txEvent /\ q.switchEvent = r.switchEvent
          /\ q.preamble = r.preamble /\ q.payload = r.payload /\ q.current = r.current
          /\ q.failed = r.failed
      BY <2>1, <2>2, <2>3 DEF Busier, Same, IsPhy
    <2> QED
      BY <1>1, <1>2, <1>3, <1>5, <1>6, <1>7, <2>1, <2>4 DEF Busier, Same, SameTx, e
  <1>8. CASE ~detected
    <2> DEFINE r == [p2 EXCEPT !.current = NoSignal]
    <2>1. IsPhy(r) /\ r.current = NoSignal
          /\ r.endTx = p2.endTx /\ r.endRx = p2.endRx /\ r.endSwitching = p2.endSwitching
          /\ r.endCca = p2.endCca /\ r.txEvent = p2.txEvent /\ r.switchEvent = p2.switchEvent
          /\ r.preamble = p2.preamble /\ r.payload = p2.payload /\ r.header = p2.header
          /\ r.failed = p2.failed
      BY <1>5 DEF Same, IsPhy
    <2>2. q = CcaIfOutlasts(r, a, p.preamble.of)
      BY <1>4, <1>8
    <2> HIDE DEF r
    <2>3. Busier(r, q)
      BY <2>1, <2>2, CcaIsBusier
    <2>4. r.endCca \in Int /\ q.endCca \in Int
      BY <2>1, <2>3 DEF Busier, Same, IsPhy
    <2> QED
      BY <1>1, <1>2, <1>3, <1>5, <1>8, <2>1, <2>3, <2>4 DEF Busier, Same, SameTx
  <1> QED
    BY <1>7, <1>8

LEMMA ContinueFacts ==
    ASSUME NEW p, IsPhy(p), NEW a \in AirType, NEW decoded \in BOOLEAN,
           p.header.of \in Signals,
           NEW q, q = ContinueReceiveHeader(p, a, decoded)
    PROVE  /\ IsPhy(q) /\ SameTx(p, q) /\ q.endRx = p.endRx /\ q.endCca >= p.endCca
           /\ q.failed = IF a[p.header.of].recorded THEN p.failed ELSE "ContinueReceiveHeader"
           /\ decoded =>
                /\ q.preamble = p.preamble /\ q.payload = p.payload
                /\ q.header = Event(HeaderDuration, "StartReceivePayload", p.header.of)
                /\ q.current = p.current
                /\ GetState(p) # "RX" => q.endCca >= a[p.header.of].left
           /\ ~decoded => /\ q.preamble = NoEvent /\ q.header = NoEvent /\ q.payload = NoEvent
                          /\ q.current = NoSignal
  <1> DEFINE p1 == [p EXCEPT !.header = NoEvent]
             ok == a[p.header.of].recorded
             p2 == Require(p1, ok, "ContinueReceiveHeader")
  <1>1. /\ IsPhy(p1) /\ p1.endCca = p.endCca /\ p1.failed = p.failed
        /\ p1.preamble = p.preamble /\ p1.payload = p.payload
        /\ p1.current = p.current /\ SameTx(p, p1) /\ p1.endRx = p.endRx
    BY NoEventType DEF IsPhy, SameTx
  <1>2. ok \in BOOLEAN /\ a[p.header.of].left \in Int
    BY DEF AirType
  <1>3. q = IF decoded
            THEN [SwitchMaybeToCcaBusy(p2, a[p.header.of].left) EXCEPT
                    !.header = Event(HeaderDuration, "StartReceivePayload", p.header.of)]
            ELSE CcaIfOutlasts(AbortCurrentReception(p2), a, p.header.of)
    BY DEF ContinueReceiveHeader
  <1> HIDE DEF p1
  <1>4. /\ Same(p1, p2) /\ p2.endCca = p1.endCca
        /\ p2.failed = IF ok THEN p1.failed ELSE "ContinueReceiveHeader"
    BY <1>1, <1>2, RequireKeeps DEF Assertions
  <1> HIDE DEF p2
  <1>5. GetState(p2) = "RX" <=> GetState(p) = "RX"
    BY <1>1, <1>4, GetStateFacts DEF Same, SameTx
  <1>6. CASE decoded
    <2> DEFINE r == SwitchMaybeToCcaBusy(p2, a[p.header.of].left)
               e == Event(HeaderDuration, "StartReceivePayload", p.header.of)
    <2>1. Busier(p2, r) /\ (GetState(p2) # "RX" => r.endCca >= a[p.header.of].left)
      BY <1>2, <1>4, SwitchMaybeIsBusier DEF Same
    <2>2. e \in Events({"ContinueReceiveHeader", "StartReceivePayload"})
      BY EventType, PhyAssumption
    <2>3. q = [r EXCEPT !.header = e]
      BY <1>3, <1>6
    <2> HIDE DEF r, e
    <2>4. IsPhy(q) /\ q.header = e
          /\ q.endTx = r.endTx /\ q.endRx = r.endRx /\ q.endSwitching = r.endSwitching
          /\ q.endCca = r.endCca /\ q.txEvent = r.txEvent /\ q.switchEvent = r.switchEvent
          /\ q.preamble = r.preamble /\ q.payload = r.payload /\ q.current = r.current
          /\ q.failed = r.failed
      BY <2>1, <2>2, <2>3 DEF Busier, Same, IsPhy
    <2> QED
      BY <1>1, <1>4, <1>5, <1>6, <2>1, <2>4 DEF Busier, Same, SameTx, e
  <1>7. CASE ~decoded
    <2> DEFINE r == AbortCurrentReception(p2)
    <2>1. IsPhy(r) /\ r.current = NoSignal
          /\ r.endTx = p2.endTx /\ r.endRx = p2.endRx /\ r.endSwitching = p2.endSwitching
          /\ r.endCca = p2.endCca /\ r.txEvent = p2.txEvent /\ r.switchEvent = p2.switchEvent
          /\ r.preamble = NoEvent /\ r.payload = NoEvent /\ r.header = NoEvent
          /\ r.failed = p2.failed
      BY <1>4, NoEventType DEF Same, IsPhy, AbortCurrentReception
    <2>2. q = CcaIfOutlasts(r, a, p.header.of)
      BY <1>3, <1>7
    <2> HIDE DEF r
    <2>3. Busier(r, q)
      BY <2>1, <2>2, CcaIsBusier
    <2>4. r.endCca \in Int /\ q.endCca \in Int
      BY <2>1, <2>3 DEF Busier, Same, IsPhy
    <2> QED
      BY <1>1, <1>4, <1>7, <2>1, <2>3, <2>4 DEF Busier, Same, SameTx
  <1> QED
    BY <1>6, <1>7

\* What the assertions of StartReceivePayload ask for.
PayloadExpected(p, a, receivable) ==
    /\ ~Running(p.payload) /\ a[p.header.of].recorded
    /\ receivable => IsReady(p)

LEMMA PayloadFacts ==
    ASSUME NEW p, IsPhy(p), NEW a \in AirType, NEW receivable \in BOOLEAN,
           p.header.of \in Signals, a[p.header.of].left \in Nat,
           NEW q, q = StartReceivePayload(p, a, receivable)
    PROVE  /\ IsPhy(q) /\ SameTx(p, q) /\ q.endCca = p.endCca
           /\ q.header = NoEvent /\ q.preamble = p.preamble /\ q.current = p.current
           /\ q.failed = IF PayloadExpected(p, a, receivable)
                         THEN p.failed ELSE "StartReceivePayload"
           /\ receivable =>
                /\ q.payload = Event(a[p.header.of].left, "EndReceive", p.header.of)
                /\ q.endRx = a[p.header.of].left
           /\ ~receivable =>
                /\ q.payload = Event(a[p.header.of].left, "ResetReceive", p.header.of)
                /\ q.endRx = p.endRx
  <1> DEFINE d == a[p.header.of].left
             p1 == [p EXCEPT !.header = NoEvent]
             ok == ~Running(p.payload) /\ a[p.header.of].recorded
                     /\ (receivable => IsReady(p))
             p2 == Require(p1, ok, "StartReceivePayload")
  <1>1. /\ IsPhy(p1) /\ p1.endCca = p.endCca /\ p1.failed = p.failed /\ p1.header = NoEvent
        /\ p1.preamble = p.preamble /\ p1.payload = p.payload
        /\ p1.current = p.current /\ SameTx(p, p1) /\ p1.endRx = p.endRx
    BY NoEventType DEF IsPhy, SameTx
  <1>2. ok \in BOOLEAN /\ (ok <=> PayloadExpected(p, a, receivable))
    BY DEF AirType, PayloadExpected
  <1>3. q = IF receivable
            THEN [SwitchToRx(p2, d) EXCEPT !.payload = Event(d, "EndReceive", p.header.of)]
            ELSE [p2 EXCEPT !.payload = Event(d, "ResetReceive", p.header.of)]
    BY DEF StartReceivePayload
  <1>4. /\ Event(d, "EndReceive", p.header.of) \in Events({"EndReceive", "ResetReceive"})
        /\ Event(d, "ResetReceive", p.header.of) \in Events({"EndReceive", "ResetReceive"})
    BY EventType
  <1> HIDE DEF p1, ok
  <1>5. /\ Same(p1, p2) /\ p2.endCca = p1.endCca
        /\ p2.failed = IF ok THEN p1.failed ELSE "StartReceivePayload"
    BY <1>1, <1>2, RequireKeeps DEF Assertions
  <1> HIDE DEF p2
  <1>6. CASE receivable
    <2> DEFINE e == Event(d, "EndReceive", p.header.of)
    <2>1. q = [SwitchToRx(p2, d) EXCEPT !.payload = e] /\ d \in Int
      BY <1>3, <1>6
    <2> HIDE DEF e, d
    <2>2. IsPhy(q) /\ q.payload = e /\ q.endRx = d
          /\ q.endTx = p2.endTx /\ q.endSwitching = p2.endSwitching
          /\ q.endCca = p2.endCca /\ q.txEvent = p2.txEvent /\ q.switchEvent = p2.switchEvent
          /\ q.preamble = p2.preamble /\ q.header = p2.header /\ q.current = p2.current
          /\ q.failed = p2.failed
      BY <1>4, <1>5, <2>1 DEF SwitchToRx, Tell, Same, IsPhy, e
    <2> QED
      BY <1>1, <1>2, <1>5, <1>6, <2>2 DEF Same, SameTx, e, d
  <1>7. CASE ~receivable
    <2> DEFINE e == Event(d, "ResetReceive", p.header.of)
    <2>1. q = [p2 EXCEPT !.payload = e]
      BY <1>3, <1>7
    <2> HIDE DEF e, d
    <2>2. IsPhy(q) /\ q.payload = e /\ q.endRx = p2.endRx
          /\ q.endTx = p2.endTx /\ q.endSwitching = p2.endSwitching
          /\ q.endCca = p2.endCca /\ q.txEvent = p2.txEvent /\ q.switchEvent = p2.switchEvent
          /\ q.preamble = p2.preamble /\ q.header = p2.header /\ q.current = p2.current
          /\ q.failed = p2.failed
      BY <1>4, <1>5, <2>1 DEF Same, IsPhy, e
    <2> QED
      BY <1>1, <1>2, <1>5, <1>7, <2>2 DEF Same, SameTx, e, d
  <1> QED
    BY <1>6, <1>7

\* What the assertions of EndReceive ask for.
EndExpected(p, a) ==
    /\ p.endRx = 0 /\ a[p.payload.of].left = 0 /\ a[p.payload.of].recorded
    /\ IsReady(p)

LEMMA EndReceiveFacts ==
    ASSUME NEW p, IsPhy(p), NEW a \in AirType, NEW ok \in BOOLEAN, NEW reaction,
           p.payload.of \in Signals,
           NEW q, q = EndReceive(p, a, ok, reaction)
    PROVE  /\ IsPhy(q) /\ SameTx(p, q) /\ q.endRx = p.endRx /\ q.endCca >= p.endCca
           /\ q.preamble = p.preamble /\ q.header = p.header /\ q.payload = NoEvent
           /\ q.current = NoSignal
           /\ q.failed = IF EndExpected(p, a) THEN p.failed ELSE "EndReceive"
  <1> DEFINE p1 == [p EXCEPT !.payload = NoEvent]
             expected == p.endRx = 0 /\ a[p.payload.of].left = 0
                           /\ a[p.payload.of].recorded /\ IsReady(p)
             p2 == Require(p1, expected, "EndReceive")
             told == Tell(p2, <<IF ok THEN "RxEndOk" ELSE "RxEndError", 0>>)
             handed == [told EXCEPT !.calls = @ \o reaction, !.current = NoSignal]
  <1>1. /\ IsPhy(p1) /\ p1.endCca = p.endCca /\ p1.failed = p.failed /\ p1.header = p.header
        /\ p1.preamble = p.preamble /\ p1.payload = NoEvent
        /\ p1.current = p.current /\ SameTx(p, p1) /\ p1.endRx = p.endRx
    BY NoEventType DEF IsPhy, SameTx
  <1>2. expected \in BOOLEAN /\ (expected <=> EndExpected(p, a))
    BY DEF AirType, EndExpected
  <1>3. q = MaybeCcaBusyDuration(handed, a)
    BY DEF EndReceive
  <1> HIDE DEF p1, expected
  <1>4. /\ Same(p1, p2) /\ p2.endCca = p1.endCca
        /\ p2.failed = IF expected THEN p1.failed ELSE "EndReceive"
    BY <1>1, <1>2, RequireKeeps DEF Assertions
  <1> HIDE DEF p2
  <1>5. IsPhy(handed) /\ handed.current = NoSignal
        /\ handed.endTx = p2.endTx /\ handed.endSwitching = p2.endSwitching
        /\ handed.endCca = p2.endCca /\ handed.txEvent = p2.txEvent
        /\ handed.switchEvent = p2.switchEvent /\ handed.endRx = p2.endRx
        /\ handed.preamble = p2.preamble /\ handed.header = p2.header
        /\ handed.payload = p2.payload /\ handed.failed = p2.failed
    BY <1>4 DEF Tell, Same, IsPhy
  <1> HIDE DEF handed
  <1>6. Busier(handed, q)
    BY <1>3, <1>5, CcaIsBusier
  <1>7. handed.endCca \in Int /\ q.endCca \in Int
    BY <1>5, <1>6 DEF Busier, Same, IsPhy
  <1> QED
    BY <1>1, <1>2, <1>4, <1>5, <1>6, <1>7 DEF Busier, Same, SameTx

LEMMA ResetReceiveFacts ==
    ASSUME NEW p, IsPhy(p), NEW a \in AirType, p.payload.of \in Signals,
           NEW q, q = ResetReceive(p, a)
    PROVE  /\ IsPhy(q) /\ SameTx(p, q) /\ q.endRx = p.endRx /\ q.endCca >= p.endCca
           /\ q.preamble = p.preamble /\ q.header = p.header /\ q.payload = NoEvent
           /\ q.current = NoSignal
           /\ q.failed = IF a[p.payload.of].left = 0 /\ GetState(p) # "RX"
                         THEN p.failed ELSE "ResetReceive"
  <1> DEFINE p1 == [p EXCEPT !.payload = NoEvent]
             expected == a[p.payload.of].left = 0 /\ GetState(p) # "RX"
             p2 == Require(p1, expected, "ResetReceive")
             r == [p2 EXCEPT !.current = NoSignal]
  <1>1. /\ IsPhy(p1) /\ p1.endCca = p.endCca /\ p1.failed = p.failed /\ p1.header = p.header
        /\ p1.preamble = p.preamble /\ p1.payload = NoEvent
        /\ p1.current = p.current /\ SameTx(p, p1) /\ p1.endRx = p.endRx
    BY NoEventType DEF IsPhy, SameTx
  <1>2. expected \in BOOLEAN
    OBVIOUS
  <1>3. q = MaybeCcaBusyDuration(r, a)
    BY DEF ResetReceive
  <1> HIDE DEF p1
  <1>4. /\ Same(p1, p2) /\ p2.endCca = p1.endCca
        /\ p2.failed = IF expected THEN p1.failed ELSE "ResetReceive"
    BY <1>1, <1>2, RequireKeeps DEF Assertions
  <1> HIDE DEF p2
  <1>5. IsPhy(r) /\ r.current = NoSignal
        /\ r.endTx = p2.endTx /\ r.endRx = p2.endRx /\ r.endSwitching = p2.endSwitching
        /\ r.endCca = p2.endCca /\ r.txEvent = p2.txEvent /\ r.switchEvent = p2.switchEvent
        /\ r.preamble = p2.preamble /\ r.payload = p2.payload /\ r.header = p2.header
        /\ r.failed = p2.failed
    BY <1>4 DEF Same, IsPhy
  <1> HIDE DEF r
  <1>6. Busier(r, q)
    BY <1>3, <1>5, CcaIsBusier
  <1>7. r.endCca \in Int /\ q.endCca \in Int
    BY <1>5, <1>6 DEF Busier, Same, IsPhy
  <1> QED
    BY <1>1, <1>4, <1>5, <1>6, <1>7 DEF Busier, Same, SameTx

LEMMA SendFacts ==
    ASSUME NEW p, IsPhy(p), NEW a \in AirType, NEW d \in Nat,
           GetState(p) \notin {"TX", "SWITCHING"}, p.txEvent < 0,
           NEW q, q = Send(p, a, d)
    PROVE  /\ IsPhy(q) /\ q.endTx = d /\ q.txEvent = d /\ q.endRx <= 0
           /\ q.endSwitching = p.endSwitching /\ q.switchEvent = p.switchEvent
           /\ q.failed = p.failed /\ q.endCca >= p.endCca /\ q.current = NoSignal
           /\ p.current # NoSignal =>
                q.preamble = NoEvent /\ q.header = NoEvent /\ q.payload = NoEvent
           /\ p.current = NoSignal =>
                q.preamble = p.preamble /\ q.header = p.header /\ q.payload = p.payload
  <1> DEFINE p1 == Require(p, GetState(p) \notin {"TX", "SWITCHING"} /\ p.txEvent < 0, "Send")
             noise == IF p1.current # NoSignal THEN CcaIfOutlasts(p1, a, p1.current) ELSE p1
             free == IF p1.current # NoSignal THEN AbortCurrentReception(noise) ELSE noise
  <1>1. p1 = p
    BY DEF Require
  <1>2. q = [SwitchToTx(free, d) EXCEPT !.txEvent = d]
    BY DEF Send
  <1> HIDE DEF p1
  <1>3. Busier(p, noise)
    BY <1>1, CcaIsBusier DEF Busier, Same, IsPhy
  <1> HIDE DEF noise
  <1>4. /\ IsPhy(free) /\ free.endTx = p.endTx /\ free.endRx = p.endRx
        /\ free.endSwitching = p.endSwitching /\ free.switchEvent = p.switchEvent
        /\ free.txEvent = p.txEvent /\ free.failed = p.failed /\ free.endCca >= p.endCca
        /\ free.current = NoSignal
        /\ p.current # NoSignal =>
             free.preamble = NoEvent /\ free.header = NoEvent /\ free.payload = NoEvent
        /\ p.current = NoSignal =>
             /\ free.preamble = p.preamble /\ free.header = p.header
             /\ free.payload = p.payload
    <2>1. CASE p.current # NoSignal
      <3>1. free = AbortCurrentReception(noise)
        BY <1>1, <2>1
      <3> QED
        BY <1>3, <2>1, <3>1, NoEventType DEF AbortCurrentReception, Busier, Same, IsPhy
    <2>2. CASE p.current = NoSignal
      <3>1. free = noise
        BY <1>1, <2>2
      <3> QED
        BY <1>3, <2>2, <3>1 DEF Busier, Same
    <2> QED
      BY <2>1, <2>2
  <1> HIDE DEF free
  <1>5. GetState(free) \in {"RX", "CCA_BUSY", "IDLE"}
    <2>1. ~(p.endTx > 0) /\ ~(p.endTx <= 0 /\ p.endRx <= 0 /\ p.endSwitching > 0)
      BY GetStateFacts
    <2>2. /\ free.endTx \in Int /\ free.endRx \in Int /\ free.endSwitching \in Int
          /\ free.endCca \in Int
      BY <1>4 DEF IsPhy
    <2> QED
      BY <1>4, <2>1, <2>2, GetStateFacts
  <1> DEFINE r == [free EXCEPT !.endRx = IF @ > 0 THEN 0 ELSE @, !.endTx = d]
  <1>6. q = [Tell(r, <<"TxStart", d>>) EXCEPT !.txEvent = d]
    BY <1>2, <1>5 DEF SwitchToTx
  <1>7. /\ IsPhy(r) /\ r.endTx = d /\ r.endRx <= 0
        /\ r.endSwitching = free.endSwitching /\ r.switchEvent = free.switchEvent
        /\ r.failed = free.failed /\ r.endCca = free.endCca /\ r.current = free.current
        /\ r.preamble = free.preamble /\ r.header = free.header /\ r.payload = free.payload
    BY <1>4 DEF IsPhy
  <1> HIDE DEF r
  <1>8. /\ IsPhy(q) /\ q.txEvent = d /\ q.endTx = r.endTx /\ q.endRx = r.endRx
        /\ q.endSwitching = r.endSwitching /\ q.switchEvent = r.switchEvent
        /\ q.failed = r.failed /\ q.endCca = r.endCca /\ q.current = r.current
        /\ q.preamble = r.preamble /\ q.header = r.header /\ q.payload = r.payload
    BY <1>6, <1>7 DEF Tell, IsPhy
  <1> QED
    BY <1>4, <1>7, <1>8

\* A channel switch is postponed, fails, or cancels part of a reception.
LEMMA SwitchFacts ==
    ASSUME NEW p, IsPhy(p), NEW d \in Nat, NEW q, q = SetChannelNumber(p, d)
    PROVE  /\ IsPhy(q) /\ q.current = p.current /\ q.endTx = p.endTx
           /\ q.preamble \in {NoEvent, p.preamble} /\ q.header \in {NoEvent, p.header}
           /\ q.payload \in {NoEvent, p.payload}
           /\ GetState(p) = "TX" =>
                /\ q.endRx = p.endRx /\ q.endSwitching = p.endSwitching
           /\ GetState(p) = "SWITCHING" => q.failed # "none"
           /\ GetState(p) # "SWITCHING" => q.failed = p.failed
           /\ GetState(p) = "RX" => q.preamble = NoEvent /\ q.payload = NoEvent
           /\ GetState(p) \notin {"TX", "RX", "SWITCHING"} /\ Running(p.preamble) =>
                q.preamble = NoEvent /\ q.payload = NoEvent
  <1>1. CASE GetState(p) = "TX"
    <2>1. q = [p EXCEPT !.switchEvent = p.endTx]
      BY <1>1 DEF SetChannelNumber
    <2>2. IsPhy(q) /\ q.current = p.current /\ q.endTx = p.endTx /\ q.endRx = p.endRx
          /\ q.endSwitching = p.endSwitching /\ q.preamble = p.preamble
          /\ q.header = p.header /\ q.payload = p.payload /\ q.failed = p.failed
      BY <2>1 DEF IsPhy
    <2> QED
      BY <1>1, <2>2
  <1>2. CASE GetState(p) = "SWITCHING"
    <2>1. Stopped(p, Require(p, FALSE, "DoChannelSwitch"))
      BY DEF Require, Stopped, Same, IsPhy, Assertions
    <2>2. q = Require(p, FALSE, "DoChannelSwitch")
      BY <1>2 DEF SetChannelNumber
    <2> QED
      BY <1>2, <2>1, <2>2 DEF Stopped, Same
  <1>3. CASE GetState(p) \notin {"TX", "SWITCHING"}
    <2> DEFINE c == Cancelled(p)
    <2>1. q = SwitchToChannelSwitching(c, d)
      BY <1>3 DEF SetChannelNumber
    <2>2. /\ IsPhy(c) /\ c.endTx = p.endTx /\ c.current = p.current /\ c.failed = p.failed
          /\ c.preamble \in {NoEvent, p.preamble} /\ c.header \in {NoEvent, p.header}
          /\ c.payload \in {NoEvent, p.payload}
          /\ GetState(p) = "RX" \/ Running(p.preamble) =>
               c.preamble = NoEvent /\ c.payload = NoEvent
      <3>1. CASE GetState(p) = "RX"
        <4>1. c = [p EXCEPT !.preamble = NoEvent, !.header = NoEvent, !.payload = NoEvent]
          BY <3>1 DEF Cancelled
        <4> HIDE DEF c
        <4> QED
          BY <4>1, NoEventType DEF IsPhy
      <3>2. CASE GetState(p) # "RX" /\ Running(p.preamble)
        <4>1. c = [p EXCEPT !.preamble = NoEvent, !.payload = NoEvent]
          BY <3>2 DEF Cancelled
        <4> HIDE DEF c
        <4> QED
          BY <4>1, NoEventType DEF IsPhy
      <3>3. CASE GetState(p) # "RX" /\ ~Running(p.preamble)
        BY <3>3 DEF Cancelled
      <3> QED
        BY <3>1, <3>2, <3>3
    <2> HIDE DEF c
    <2>3. /\ IsPhy(q) /\ q.endTx = c.endTx /\ q.current = c.current /\ q.failed = c.failed
          /\ q.preamble = c.preamble /\ q.header = c.header /\ q.payload = c.payload
      BY <2>1, <2>2 DEF SwitchToChannelSwitching, Tell, IsPhy
    <2> QED
      BY <1>3, <2>2, <2>3
  <1> QED
    BY <1>1, <1>2, <1>3

LEMMA EventFacts ==
    ASSUME NEW runs, NEW e \in Events(runs)
    PROVE  /\ Running(e) => e.left \in Nat /\ e.run \in runs /\ e.of \in Signals
           /\ Running(e) /\ e.left # 0 =>
                /\ Sooner(e) \in Events(runs) /\ Running(Sooner(e))
                /\ Sooner(e).left = e.left - 1 /\ Sooner(e).run = e.run
                /\ Sooner(e).of = e.of
           /\ ~Running(e) => Sooner(e) = e
  BY DEF Events, NoEvent, Running, Sooner

\* What listeners make of a step aside, the PHY becomes what its handler says.
Copied(p, q) ==
    /\ q.endTx = p.endTx /\ q.endRx = p.endRx /\ q.endSwitching = p.endSwitching
    /\ q.endCca = p.endCca /\ q.txEvent = p.txEvent /\ q.switchEvent = p.switchEvent
    /\ q.preamble = p.preamble /\ q.header = p.header /\ q.payload = p.payload
    /\ q.current = p.current /\ q.failed = p.failed

LEMMA BecomesFacts ==
    ASSUME NEW q, IsPhy(q), Becomes(q)
    PROVE  phy' \in PhyType /\ Copied(q, phy')
  BY IsPhyType DEF Becomes, Copied, IsPhy

LEMMA ElapseFacts ==
    ASSUME NEW p \in PhyType, ~EventDue(p), NEW q, q = ElapsePhy(p)
    PROVE  /\ q \in PhyType
           /\ q.endTx = Closer(p.endTx) /\ q.endRx = Closer(p.endRx)
           /\ q.endSwitching = Closer(p.endSwitching) /\ q.endCca = Closer(p.endCca)
           /\ q.switchEvent = Closer(p.switchEvent)
           /\ q.preamble = Sooner(p.preamble) /\ q.header = Sooner(p.header)
           /\ q.payload = Sooner(p.payload)
           /\ q.current = p.current /\ q.failed = p.failed
           /\ \A e \in {p.preamble, p.header, p.payload} : Running(e) =>
                /\ e.left > 0 /\ Running(Sooner(e)) /\ Sooner(e).left = e.left - 1
                /\ Sooner(e).run = e.run /\ Sooner(e).of = e.of
           /\ \A e \in {p.preamble, p.header, p.payload} : ~Running(e) => Sooner(e) = e
  <1> DEFINE A == {"StartReceiveHeader"}
             B == {"ContinueReceiveHeader", "StartReceivePayload"}
             C == {"EndReceive", "ResetReceive"}
  <1>1. p.preamble \in Events(A) /\ p.header \in Events(B) /\ p.payload \in Events(C)
    BY DEF PhyType
  <1>2. \A e \in {p.preamble, p.header, p.payload} : Running(e) => e.left # 0
    BY DEF EventDue
  <1>3. /\ Sooner(p.preamble) \in Events(A) /\ Sooner(p.header) \in Events(B)
        /\ Sooner(p.payload) \in Events(C)
    BY <1>1, <1>2, EventFacts
  <1>4. \A t \in Int : Closer(t) \in Int
    BY DEF Closer
  <1> HIDE DEF A, B, C
  <1>5. /\ q \in PhyType
        /\ q.endTx = Closer(p.endTx) /\ q.endRx = Closer(p.endRx)
        /\ q.endSwitching = Closer(p.endSwitching) /\ q.endCca = Closer(p.endCca)
        /\ q.switchEvent = Closer(p.switchEvent)
        /\ q.preamble = Sooner(p.preamble) /\ q.header = Sooner(p.header)
        /\ q.payload = Sooner(p.payload)
        /\ q.current = p.current /\ q.failed = p.failed
    BY <1>3, <1>4 DEF ElapsePhy, PhyType, A, B, C
  <1>6. \A e \in {p.preamble, p.header, p.payload} : Running(e) =>
           /\ e.left > 0 /\ Running(Sooner(e)) /\ Sooner(e).left = e.left - 1
           /\ Sooner(e).run = e.run /\ Sooner(e).of = e.of
    BY <1>1, <1>2, EventFacts
  <1>7. \A e \in {p.preamble, p.header, p.payload} : ~Running(e) => Sooner(e) = e
    BY DEF Sooner
  <1> QED
    BY <1>5, <1>6, <1>7

LEMMA ElapseAirFacts ==
    ASSUME NEW p, NEW a \in AirType
    PROVE  /\ ElapseAir(p, a) \in AirType
           /\ \A s \in Signals : a[s].left > 0 \/ Referenced(p, s) =>
                /\ ElapseAir(p, a)[s].left = Closer(a[s].left)
                /\ ElapseAir(p, a)[s].recorded = a[s].recorded
  <1> DEFINE b == ElapseAir(p, a)
  <1>1. \A t \in Int : Closer(t) \in Int
    BY DEF Closer
  <1>2. Silence \in [left : Int, power : Nat, recorded : BOOLEAN]
    BY DEF Silence
  <1>3. ASSUME NEW s \in Signals
        PROVE  /\ b[s] \in [left : Int, power : Nat, recorded : BOOLEAN]
               /\ a[s].left > 0 \/ Referenced(p, s) =>
                    b[s].left = Closer(a[s].left) /\ b[s].recorded = a[s].recorded
    <2>1. a[s] \in [left : Int, power : Nat, recorded : BOOLEAN]
      BY DEF AirType
    <2>2. b[s] = IF a[s].left <= 0 /\ ~Referenced(p, s) THEN Silence
                 ELSE [a[s] EXCEPT !.left = Closer(@)]
      BY DEF ElapseAir
    <2> HIDE DEF b
    <2>3. CASE a[s].left <= 0 /\ ~Referenced(p, s)
      BY <1>2, <2>1, <2>2, <2>3
    <2>4. CASE ~(a[s].left <= 0 /\ ~Referenced(p, s))
      BY <1>1, <2>1, <2>2, <2>4
    <2> QED
      BY <2>3, <2>4
  <1>4. b = [s \in Signals |-> b[s]]
    BY DEF ElapseAir
  <1> HIDE DEF b
  <1>5. b \in AirType
    BY <1>3, <1>4 DEF AirType
  <1> QED
    BY <1>3, <1>5 DEF b

LEMMA ResetFacts ==
    ASSUME NEW p, NEW a \in AirType
    PROVE  /\ ResetSpectrumModel(p, a) \in AirType
           /\ \A s \in Signals : ~ResetSpectrumModel(p, a)[s].recorded
           /\ \A s \in Signals : Referenced(p, s) =>
                ResetSpectrumModel(p, a)[s].left = a[s].left
  <1> DEFINE b == ResetSpectrumModel(p, a)
  <1>1. ASSUME NEW s \in Signals
        PROVE  /\ b[s] \in [left : Int, power : Nat, recorded : BOOLEAN]
               /\ ~b[s].recorded /\ (Referenced(p, s) => b[s].left = a[s].left)
    <2>1. a[s] \in [left : Int, power : Nat, recorded : BOOLEAN]
      BY DEF AirType
    <2>2. b[s] = IF Referenced(p, s) THEN [a[s] EXCEPT !.power = 0, !.recorded = FALSE]
                 ELSE Silence
      BY DEF ResetSpectrumModel
    <2> DEFINE T == [left : Int, power : Nat, recorded : BOOLEAN]
               r == a[s]
               c == [r EXCEPT !.power = 0, !.recorded = FALSE]
    <2>3. b[s] = c \/ (~Referenced(p, s) /\ b[s] = Silence)
      BY <2>2
    <2>4. r \in T
      BY <2>1
    <2>5. (Referenced(p, s) => b[s] = c) /\ r.left = a[s].left
      BY <2>2
    <2> HIDE DEF b, r
    <2>6. c \in T /\ c.left = r.left /\ ~c.recorded
      BY <2>4
    <2>7. Silence \in T /\ ~Silence.recorded
      BY DEF Silence
    <2> HIDE DEF c
    <2> QED
      BY <2>3, <2>5, <2>6, <2>7
  <1>2. b = [s \in Signals |-> b[s]]
    BY DEF ResetSpectrumModel
  <1> HIDE DEF b
  <1>3. b \in AirType
    BY <1>1, <1>2 DEF AirType
  <1> QED
    BY <1>1, <1>3 DEF b

LEMMA ArrivesFacts ==
    ASSUME air \in AirType, NEW s \in Signals, NEW d \in Nat, NEW power \in Nat,
           Arrives(s, d, power)
    PROVE  /\ air' \in AirType /\ air'[s].left = d /\ air'[s].recorded
           /\ ~Referenced(phy, s) /\ \A r \in Signals : r # s => air'[r] = air[r]
  BY DEF Arrives, AirType

---------------------------------------------------------------------------
(* Types.  A payload is given the time left of its frame, so that there is *)
(* any is part of the invariant: a frame outlasts the stages of its        *)
(* reception.                                                              *)

PreambleFits(e, a) == Running(e) => a[e.of].left > e.left + PreambleRest + HeaderDuration

HeaderFits(e, a) ==
    /\ e.run = "ContinueReceiveHeader" => a[e.of].left > e.left + HeaderDuration
    /\ e.run = "StartReceivePayload" => a[e.of].left > e.left

PayloadFits(e, a) == Running(e) => a[e.of].left = e.left

TInv ==
    /\ TypeOK
    /\ PreambleFits(phy.preamble, air)
    /\ HeaderFits(phy.header, air)
    /\ PayloadFits(phy.payload, air)

LEMMA NoEventFits ==
    ASSUME NEW a
    PROVE  PreambleFits(NoEvent, a) /\ HeaderFits(NoEvent, a) /\ PayloadFits(NoEvent, a)
  BY DEF PreambleFits, HeaderFits, PayloadFits, Running, NoEvent

LEMMA TypedEvents ==
    ASSUME TypeOK
    PROVE  /\ phy \in PhyType /\ IsPhy(phy) /\ air \in AirType
           /\ Running(phy.preamble) =>
                /\ phy.preamble.left \in Nat /\ phy.preamble.of \in Signals
                /\ phy.preamble.run = "StartReceiveHeader"
           /\ Running(phy.header) =>
                /\ phy.header.left \in Nat /\ phy.header.of \in Signals
                /\ phy.header.run \in {"ContinueReceiveHeader", "StartReceivePayload"}
           /\ Running(phy.payload) =>
                /\ phy.payload.left \in Nat /\ phy.payload.of \in Signals
                /\ phy.payload.run \in {"EndReceive", "ResetReceive"}
           /\ \A s \in Signals : air[s].left \in Int
  <1>1. phy \in PhyType /\ IsPhy(phy) /\ air \in AirType
    BY PhyTypeIsPhy DEF TypeOK
  <1>2. /\ phy.preamble \in Events({"StartReceiveHeader"})
        /\ phy.header \in Events({"ContinueReceiveHeader", "StartReceivePayload"})
        /\ phy.payload \in Events({"EndReceive", "ResetReceive"})
    BY <1>1 DEF IsPhy
  <1>3. \A s \in Signals : air[s].left \in Int
    BY <1>1 DEF AirType
  <1>4. Running(phy.preamble) =>
          /\ phy.preamble.left \in Nat /\ phy.preamble.of \in Signals
          /\ phy.preamble.run = "StartReceiveHeader"
    BY <1>2, EventFacts
  <1>5. Running(phy.header) =>
          /\ phy.header.left \in Nat /\ phy.header.of \in Signals
          /\ phy.header.run \in {"ContinueReceiveHeader", "StartReceivePayload"}
    BY <1>2, EventFacts
  <1>6. Running(phy.payload) =>
          /\ phy.payload.left \in Nat /\ phy.payload.of \in Signals
          /\ phy.payload.run \in {"EndReceive", "ResetReceive"}
    BY <1>2, EventFacts
  <1> QED
    BY <1>1, <1>3, <1>4, <1>5, <1>6

\* The stages' events are of signals whose time left is unchanged.
LEMMA StillFits ==
    ASSUME TInv, NEW b,
           \A s \in Signals : Referenced(phy, s) => b[s].left = air[s].left
    PROVE  /\ PreambleFits(phy.preamble, b)
           /\ HeaderFits(phy.header, b)
           /\ PayloadFits(phy.payload, b)
  <1>1. /\ Running(phy.preamble) => b[phy.preamble.of].left = air[phy.preamble.of].left
        /\ Running(phy.header) => b[phy.header.of].left = air[phy.header.of].left
        /\ Running(phy.payload) => b[phy.payload.of].left = air[phy.payload.of].left
    BY TypedEvents DEF TInv, Referenced
  <1> QED
    BY <1>1 DEF TInv, PreambleFits, HeaderFits, PayloadFits, Running

LEMMA FrameArrivesTypes ==
    ASSUME TInv, NEW s \in Signals, NEW d \in FrameDurations, NEW power \in Powers,
           FrameArrives(s, d, power)
    PROVE  TInv'
  <1> DEFINE q == StartReceivePreamble(phy, air', s)
  <1>1. d \in Nat /\ d > PreambleDetection + PreambleRest + HeaderDuration /\ power \in Nat
    BY PhyAssumption
  <1>2. /\ air' \in AirType /\ air'[s].left = d
        /\ \A r \in Signals : Referenced(phy, r) => air'[r].left = air[r].left
    BY <1>1, TypedEvents, ArrivesFacts DEF TInv, FrameArrives
  <1>3. PreambleFits(phy.preamble, air') /\ HeaderFits(phy.header, air')
        /\ PayloadFits(phy.payload, air')
    BY <1>2, StillFits
  <1>4. IsPhy(q) /\ q.header = phy.header /\ q.payload = phy.payload
        /\ q.preamble \in {phy.preamble, Event(PreambleDetection, "StartReceiveHeader", s)}
    <2>1. IsPhy(phy)
      BY TypedEvents DEF TInv
    <2>2. CASE Busier(phy, q)
      BY <2>2 DEF Busier, Same
    <2>3. CASE Stopped(phy, q)
      BY <2>3 DEF Stopped, Same
    <2>4. CASE q = Synchronized(phy, s)
      BY <2>1, <2>4, EventType, PhyAssumption DEF Synchronized, IsPhy
    <2> QED
      BY <1>2, <2>1, <2>2, <2>3, <2>4, PreambleFacts
  <1> HIDE DEF q
  <1>5. PreambleFits(Event(PreambleDetection, "StartReceiveHeader", s), air')
    BY <1>1, <1>2, PhyAssumption DEF PreambleFits, Event
  <1>6. phy' \in PhyType /\ Copied(q, phy')
    BY <1>4, BecomesFacts DEF FrameArrives, q
  <1> QED
    BY <1>2, <1>3, <1>4, <1>5, <1>6 DEF TInv, TypeOK, Copied

LEMMA NoiseArrivesTypes ==
    ASSUME TInv, NEW s \in Signals, NEW d \in NoiseDurations, NEW power \in Powers,
           NoiseArrives(s, d, power)
    PROVE  TInv'
  <1>1. d \in Nat /\ power \in Nat
    BY PhyAssumption
  <1>2. /\ air' \in AirType
        /\ \A r \in Signals : Referenced(phy, r) => air'[r].left = air[r].left
    BY <1>1, TypedEvents, ArrivesFacts DEF TInv, NoiseArrives
  <1>3. Busier(phy, CcaIfOutlasts(phy, air', s))
    BY <1>2, TypedEvents, CcaIsBusier DEF TInv
  <1>4. phy' \in PhyType /\ Copied(CcaIfOutlasts(phy, air', s), phy')
    BY <1>3, BecomesFacts DEF NoiseArrives, Busier, Same
  <1> QED
    BY <1>2, <1>3, <1>4, StillFits DEF TInv, TypeOK, Copied, Busier, Same

LEMMA PreambleEndsTypes ==
    ASSUME TInv, NEW detected \in BOOLEAN, PreambleEnds(detected)
    PROVE  TInv'
  <1> DEFINE q == StartReceiveHeader(phy, air, detected)
             e == Event(PreambleRest, "ContinueReceiveHeader", phy.preamble.of)
  <1>1. /\ phy.preamble.of \in Signals /\ air[phy.preamble.of].left \in Int
        /\ Running(phy.preamble) /\ phy.preamble.left = 0 /\ IsPhy(phy) /\ air \in AirType
    BY TypedEvents DEF TInv, PreambleEnds, Due, Running
  <1>2. /\ IsPhy(q) /\ q.preamble = NoEvent /\ q.payload = phy.payload
        /\ q.header \in {phy.header, e}
    BY <1>1, HeaderFacts
  <1>3. HeaderFits(e, air)
    BY <1>1, PhyAssumption DEF TInv, PreambleFits, HeaderFits, Event
  <1> HIDE DEF q, e
  <1>4. phy' \in PhyType /\ Copied(q, phy') /\ air' = air
    BY <1>2, BecomesFacts DEF PreambleEnds, q
  <1> QED
    BY <1>2, <1>3, <1>4, NoEventFits DEF TInv, TypeOK, Copied

LEMMA HeaderStartsTypes ==
    ASSUME TInv, NEW decoded \in BOOLEAN, HeaderStarts(decoded)
    PROVE  TInv'
  <1> DEFINE q == ContinueReceiveHeader(phy, air, decoded)
             e == Event(HeaderDuration, "StartReceivePayload", phy.header.of)
  <1>1. /\ phy.header.of \in Signals /\ air[phy.header.of].left \in Int
        /\ phy.header.run = "ContinueReceiveHeader" /\ phy.header.left = 0
        /\ IsPhy(phy) /\ air \in AirType
    BY TypedEvents DEF TInv, HeaderStarts, Due, Running
  <1>2. /\ IsPhy(q) /\ q.preamble \in {phy.preamble, NoEvent}
        /\ q.payload \in {phy.payload, NoEvent} /\ q.header \in {e, NoEvent}
    BY <1>1, ContinueFacts
  <1>3. HeaderFits(e, air)
    BY <1>1, PhyAssumption DEF TInv, HeaderFits, Event
  <1> HIDE DEF q, e
  <1>4. phy' \in PhyType /\ Copied(q, phy') /\ air' = air
    BY <1>2, BecomesFacts DEF HeaderStarts, q
  <1> QED
    BY <1>2, <1>3, <1>4, NoEventFits DEF TInv, TypeOK, Copied

LEMMA PayloadStartsTypes ==
    ASSUME TInv, NEW receivable \in BOOLEAN, PayloadStarts(receivable)
    PROVE  TInv'
  <1> DEFINE q == StartReceivePayload(phy, air, receivable)
             d == air[phy.header.of].left
             e == Event(d, "EndReceive", phy.header.of)
             f == Event(d, "ResetReceive", phy.header.of)
  <1>1. /\ phy.header.of \in Signals /\ d \in Nat
        /\ IsPhy(phy) /\ air \in AirType
    BY TypedEvents DEF TInv, PayloadStarts, Due, Running, HeaderFits
  <1>2. /\ IsPhy(q) /\ q.preamble = phy.preamble
        /\ q.payload \in {e, f} /\ q.header = NoEvent
    BY <1>1, PayloadFacts
  <1>3. PayloadFits(e, air) /\ PayloadFits(f, air)
    BY <1>1 DEF PayloadFits, Event
  <1> HIDE DEF q, e, f
  <1>4. phy' \in PhyType /\ Copied(q, phy') /\ air' = air
    BY <1>2, BecomesFacts DEF PayloadStarts, q
  <1> QED
    BY <1>2, <1>3, <1>4, NoEventFits DEF TInv, TypeOK, Copied

LEMMA FrameEndsTypes ==
    ASSUME TInv, NEW ok \in BOOLEAN, NEW reaction, FrameEnds(ok, reaction)
    PROVE  TInv'
  <1> DEFINE q == EndReceive(phy, air, ok, reaction)
  <1>1. phy.payload.of \in Signals /\ IsPhy(phy) /\ air \in AirType
    BY TypedEvents DEF TInv, FrameEnds, Due, Running
  <1>2. /\ IsPhy(q) /\ q.preamble = phy.preamble
        /\ q.payload = NoEvent /\ q.header = phy.header
    BY <1>1, EndReceiveFacts
  <1> HIDE DEF q
  <1>3. phy' \in PhyType /\ Copied(q, phy') /\ air' = air
    BY <1>2, BecomesFacts DEF FrameEnds, q
  <1> QED
    BY <1>2, <1>3, NoEventFits DEF TInv, TypeOK, Copied

LEMMA UnreceivedFrameEndsTypes ==
    ASSUME TInv, UnreceivedFrameEnds
    PROVE  TInv'
  <1> DEFINE q == ResetReceive(phy, air)
  <1>1. phy.payload.of \in Signals /\ IsPhy(phy) /\ air \in AirType
    BY TypedEvents DEF TInv, UnreceivedFrameEnds, Due, Running
  <1>2. /\ IsPhy(q) /\ q.preamble = phy.preamble
        /\ q.payload = NoEvent /\ q.header = phy.header
    BY <1>1, ResetReceiveFacts
  <1> HIDE DEF q
  <1>3. phy' \in PhyType /\ Copied(q, phy') /\ air' = air
    BY <1>2, BecomesFacts DEF UnreceivedFrameEnds, q
  <1> QED
    BY <1>2, <1>3, NoEventFits DEF TInv, TypeOK, Copied

LEMMA NotifyTxEndKeeps ==
    ASSUME TypeOK, NotifyTxEnd
    PROVE  phy' \in PhyType /\ Copied([phy EXCEPT !.txEvent = -1], phy') /\ air' = air
  <1>1. IsPhy([phy EXCEPT !.txEvent = -1])
    BY TypedEvents DEF IsPhy
  <1> QED
    BY <1>1, BecomesFacts DEF NotifyTxEnd

LEMMA NotifyTxEndTypes ==
    ASSUME TInv, NotifyTxEnd
    PROVE  TInv'
  <1>1. phy' \in PhyType /\ Copied([phy EXCEPT !.txEvent = -1], phy') /\ air' = air
    BY NotifyTxEndKeeps DEF TInv
  <1>2. /\ phy'.preamble = phy.preamble /\ phy'.header = phy.header
        /\ phy'.payload = phy.payload
    BY <1>1, TypedEvents DEF Copied, IsPhy, TInv
  <1> QED
    BY <1>1, <1>2 DEF TInv, TypeOK

LEMMA StartTransmissionTypes ==
    ASSUME TInv, NEW d \in TxDurations, StartTransmission(d)
    PROVE  TInv'
  <1> DEFINE q == Send(phy, air, d)
  <1>1. IsPhy(phy) /\ air \in AirType /\ d \in Nat
    BY TypedEvents, PhyAssumption DEF TInv
  <1>2. phy.txEvent < 0 /\ GetState(phy) \notin {"TX", "SWITCHING"}
    BY DEF StartTransmission, MaySend
  <1>3. /\ IsPhy(q) /\ q.preamble \in {phy.preamble, NoEvent}
        /\ q.header \in {phy.header, NoEvent} /\ q.payload \in {phy.payload, NoEvent}
    BY <1>1, <1>2, SendFacts
  <1> HIDE DEF q
  <1>4. phy' \in PhyType /\ Copied(q, phy') /\ air' = air
    BY <1>3, BecomesFacts DEF StartTransmission, q
  <1> QED
    BY <1>3, <1>4, NoEventFits DEF TInv, TypeOK, Copied

\* A switch that is asked for, or made after a transmission.
LEMMA SwitchTypes ==
    ASSUME TInv, NEW p, IsPhy(p), NEW d \in Nat,
           p.preamble = phy.preamble, p.header = phy.header, p.payload = phy.payload,
           air' = ResetSpectrumModel(phy, air), Becomes(SetChannelNumber(p, d))
    PROVE  TInv'
  <1> DEFINE q == SetChannelNumber(p, d)
  <1>1. air \in AirType
    BY TypedEvents DEF TInv
  <1>2. /\ IsPhy(q) /\ q.preamble \in {phy.preamble, NoEvent}
        /\ q.header \in {phy.header, NoEvent} /\ q.payload \in {phy.payload, NoEvent}
    BY SwitchFacts
  <1> HIDE DEF q
  <1>3. phy' \in PhyType /\ Copied(q, phy')
    BY <1>2, BecomesFacts DEF q
  <1>4. air' \in AirType /\ \A s \in Signals : Referenced(phy, s) => air'[s].left = air[s].left
    BY <1>1, ResetFacts
  <1> QED
    BY <1>2, <1>3, <1>4, NoEventFits, StillFits DEF TInv, TypeOK, Copied

LEMMA PostponedIsPhy ==
    ASSUME NEW p, IsPhy(p), NEW r, r = [p EXCEPT !.switchEvent = -1]
    PROVE  /\ IsPhy(r) /\ r.preamble = p.preamble /\ r.header = p.header
           /\ r.payload = p.payload /\ r.current = p.current /\ r.endTx = p.endTx
           /\ r.endRx = p.endRx /\ r.endSwitching = p.endSwitching /\ r.endCca = p.endCca
           /\ r.failed = p.failed
  BY DEF IsPhy

LEMMA TickTypes ==
    ASSUME TInv, Tick
    PROVE  TInv'
  <1>1. phy' \in PhyType /\ air' \in AirType
    BY TypedEvents, ElapseFacts, ElapseAirFacts DEF TInv, Tick
  <1>2. /\ phy'.preamble = Sooner(phy.preamble) /\ phy'.header = Sooner(phy.header)
        /\ phy'.payload = Sooner(phy.payload)
        /\ \A e \in {phy.preamble, phy.header, phy.payload} : Running(e) =>
             /\ e.left > 0 /\ Running(Sooner(e)) /\ Sooner(e).left = e.left - 1
             /\ Sooner(e).run = e.run /\ Sooner(e).of = e.of
        /\ \A e \in {phy.preamble, phy.header, phy.payload} : ~Running(e) => Sooner(e) = e
    BY TypedEvents, ElapseFacts DEF TInv, Tick
  <1>3. \A s \in Signals : air[s].left > 0 => air'[s].left = air[s].left - 1
    BY TypedEvents, ElapseAirFacts DEF TInv, Tick, Closer
  <1>4. PreambleFits(phy'.preamble, air')
    <2>1. CASE Running(phy.preamble)
      <3>1. /\ phy.preamble.left \in Nat /\ phy.preamble.of \in Signals
            /\ air[phy.preamble.of].left \in Int
        BY <2>1, TypedEvents DEF TInv
      <3>2. air[phy.preamble.of].left > phy.preamble.left + PreambleRest + HeaderDuration
        BY <2>1 DEF TInv, PreambleFits
      <3>3. air'[phy.preamble.of].left = air[phy.preamble.of].left - 1
        BY <1>3, <3>1, <3>2, PhyAssumption
      <3> QED
        BY <1>2, <2>1, <3>1, <3>2, <3>3, PhyAssumption DEF PreambleFits
    <2>2. CASE ~Running(phy.preamble)
      BY <1>2, <2>2 DEF PreambleFits
    <2> QED
      BY <2>1, <2>2
  <1>5. HeaderFits(phy'.header, air')
    <2>1. CASE Running(phy.header)
      <3>1. /\ phy.header.left \in Nat /\ phy.header.of \in Signals
            /\ air[phy.header.of].left \in Int
            /\ phy.header.run \in {"ContinueReceiveHeader", "StartReceivePayload"}
        BY <2>1, TypedEvents DEF TInv
      <3>2. HeaderFits(phy.header, air)
        BY DEF TInv
      <3>3. air'[phy.header.of].left = air[phy.header.of].left - 1
        BY <1>3, <3>1, <3>2, PhyAssumption DEF HeaderFits
      <3> QED
        BY <1>2, <2>1, <3>1, <3>2, <3>3, PhyAssumption DEF HeaderFits
    <2>2. CASE ~Running(phy.header)
      BY <1>2, <2>2 DEF HeaderFits, Running
    <2> QED
      BY <2>1, <2>2
  <1>6. PayloadFits(phy'.payload, air')
    <2>1. CASE Running(phy.payload)
      <3>1. phy.payload.left \in Nat /\ phy.payload.of \in Signals /\ phy.payload.left > 0
        BY <1>2, <2>1, TypedEvents DEF TInv
      <3>2. air[phy.payload.of].left = phy.payload.left
        BY <2>1 DEF TInv, PayloadFits
      <3> QED
        BY <1>2, <1>3, <2>1, <3>1, <3>2 DEF PayloadFits
    <2>2. CASE ~Running(phy.payload)
      BY <1>2, <2>2 DEF PayloadFits
    <2> QED
      BY <2>1, <2>2
  <1> QED
    BY <1>1, <1>4, <1>5, <1>6 DEF TInv, TypeOK

LEMMA InitTypes ==
    ASSUME Init
    PROVE  TInv
  <1>1. phy = PhyInit /\ air = [s \in Signals |-> Silence]
    BY DEF Init
  <1>2. /\ phy \in PhyType
        /\ phy.preamble = NoEvent /\ phy.header = NoEvent /\ phy.payload = NoEvent
    BY <1>1, NoEventType DEF PhyInit, PhyType
  <1>3. air \in AirType
    BY <1>1 DEF AirType, Silence
  <1> QED
    BY <1>2, <1>3, NoEventFits DEF TInv, TypeOK

LEMMA NextTypes ==
    ASSUME TInv, [Next]_vars
    PROVE  TInv'
  <1>1. ASSUME NEW s \in Signals, NEW power \in Powers, NEW d \in FrameDurations,
               FrameArrives(s, d, power)
        PROVE  TInv'
    BY <1>1, FrameArrivesTypes
  <1>2. ASSUME NEW s \in Signals, NEW power \in Powers, NEW d \in NoiseDurations,
               NoiseArrives(s, d, power)
        PROVE  TInv'
    BY <1>2, NoiseArrivesTypes
  <1>3. ASSUME NEW b \in BOOLEAN, PreambleEnds(b) \/ HeaderStarts(b) \/ PayloadStarts(b)
        PROVE  TInv'
    BY <1>3, PreambleEndsTypes, HeaderStartsTypes, PayloadStartsTypes
  <1>4. CASE UnreceivedFrameEnds
    BY <1>4, UnreceivedFrameEndsTypes
  <1>5. CASE NotifyTxEnd
    BY <1>5, NotifyTxEndTypes
  <1>6. ASSUME NEW ok \in BOOLEAN, NEW reaction \in Reactions, FrameEnds(ok, reaction)
        PROVE  TInv'
    BY <1>6, FrameEndsTypes
  <1>7. ASSUME NEW d \in TxDurations, StartTransmission(d)
        PROVE  TInv'
    BY <1>7, StartTransmissionTypes
  <1>8. CASE SwitchChannel
    BY <1>8, SwitchTypes, TypedEvents, PhyAssumption DEF SwitchChannel, TInv
  <1>9. CASE PostponedSwitch
    <2>1. IsPhy(phy)
      BY TypedEvents DEF TInv
    <2> QED
      BY <1>9, <2>1, SwitchTypes, PostponedIsPhy, PhyAssumption DEF PostponedSwitch
  <1>10. CASE Tick
    BY <1>10, TickTypes
  <1>11. CASE UNCHANGED vars
    BY <1>11 DEF vars, TInv, TypeOK
  <1> QED
    BY <1>1, <1>2, <1>3, <1>4, <1>5, <1>6, <1>7, <1>8, <1>9, <1>10, <1>11
       DEF Next, Reception

\* The PHY's members keep their types, whatever the air and the MAC do: no
\* event is scheduled in the past, and every event is of a signal.
THEOREM TypeCorrectness == Spec => []TypeOK
  <1>1. Init => TInv
    BY InitTypes
  <1>2. TInv /\ [Next]_vars => TInv'
    BY NextTypes
  <1>3. TInv => TypeOK
    BY DEF TInv
  <1> QED
    BY <1>1, <1>2, <1>3, PTL DEF Spec

---------------------------------------------------------------------------
(* A PHY whose MAC never changes channels: every reception goes through its*)
(* stages one after the other.                                             *)

NoSwitch(p) == p.failed = "none" /\ p.endSwitching <= 0 /\ p.switchEvent = -1

\* One stage runs at a time, on the frame that m_currentEvent is, and one
\* does while there is such a frame.
OneStage(p) ==
    /\ Running(p.preamble) =>
         ~Running(p.header) /\ ~Running(p.payload) /\ p.preamble.of = p.current
    /\ Running(p.header) => ~Running(p.payload) /\ p.header.of = p.current
    /\ Running(p.payload) => p.payload.of = p.current
    /\ p.current # NoSignal =>
         Running(p.preamble) \/ Running(p.header) \/ Running(p.payload)

\* The PHY does not transmit during a reception, and the state helper knows
\* of one for as long as a payload is being received.
Undisturbed(p, a) ==
    /\ p.current # NoSignal => a[p.current].recorded /\ p.endTx <= 0
    /\ p.endRx > 0 => p.payload.run = "EndReceive"
    /\ p.payload.run = "EndReceive" => p.endRx = p.payload.left

\* While a header is received, or a payload waited out, the channel is busy.
BusyWith(p, a) ==
    /\ p.header.run = "ContinueReceiveHeader" => p.endCca >= p.header.left
    /\ p.header.run = "StartReceivePayload" => p.endCca >= a[p.header.of].left
    /\ p.payload.run = "ResetReceive" => p.endCca >= p.payload.left

RInv == NoSwitch(phy) /\ OneStage(phy) /\ Undisturbed(phy, air) /\ BusyWith(phy, air)

\* A PHY that is idle, or busy without a frame, is in no stage of a
\* reception but the first.
LEMMA FreeMeansFree ==
    ASSUME TInv, RInv, ~EventDue(phy),
           GetState(phy) = "IDLE" \/ (GetState(phy) = "CCA_BUSY" /\ phy.current = NoSignal)
    PROVE  ~Running(phy.header) /\ ~Running(phy.payload) /\ phy.endTx <= 0 /\ phy.endRx <= 0
  <1>1. /\ IsPhy(phy) /\ phy.endCca \in Int
        /\ Running(phy.header) => phy.header.left > 0
        /\ Running(phy.payload) => phy.payload.left > 0
    BY TypedEvents DEF TInv, EventDue, IsPhy
  <1>2. phy.endTx <= 0 /\ phy.endRx <= 0
    BY <1>1, GetStateFacts
  <1>3. CASE phy.current = NoSignal
    BY <1>2, <1>3, TypedEvents, PhyAssumption DEF TInv, RInv, OneStage
  <1>4. CASE phy.current # NoSignal
    <2>1. ~(phy.endCca > 0)
      BY <1>1, <1>4, GetStateFacts
    <2>2. ~Running(phy.payload)
      BY <1>1, <1>2, <2>1, TypedEvents DEF TInv, RInv, Undisturbed, BusyWith
    <2>3. ASSUME Running(phy.header) PROVE FALSE
      <3>1. /\ phy.header.left \in Nat /\ air[phy.header.of].left \in Int
            /\ phy.header.run \in {"ContinueReceiveHeader", "StartReceivePayload"}
        BY <2>3, TypedEvents DEF TInv
      <3>2. HeaderFits(phy.header, air) /\ BusyWith(phy, air)
        BY DEF TInv, RInv
      <3> QED
        BY <1>1, <2>1, <2>3, <3>1, <3>2 DEF HeaderFits, BusyWith
    <2> QED
      BY <1>2, <2>2, <2>3
  <1> QED
    BY <1>3, <1>4

\* A reception whose members, and the signals they refer to, stay the same.
LEMMA ReceptionKept ==
    ASSUME TInv, RInv,
           phy'.preamble = phy.preamble, phy'.header = phy.header,
           phy'.payload = phy.payload, phy'.current = phy.current,
           phy'.failed = phy.failed, phy'.endTx = phy.endTx, phy'.endRx = phy.endRx,
           phy'.endSwitching = phy.endSwitching, phy'.switchEvent = phy.switchEvent,
           phy'.endCca >= phy.endCca, phy'.endCca \in Int,
           \A s \in Signals : Referenced(phy, s) =>
             air'[s].left = air[s].left /\ air'[s].recorded = air[s].recorded
    PROVE  RInv'
  <1>1. /\ phy'.preamble = phy.preamble /\ phy'.header = phy.header
        /\ phy'.payload = phy.payload /\ phy'.current = phy.current
        /\ phy'.failed = phy.failed /\ phy'.endTx = phy.endTx /\ phy'.endRx = phy.endRx
        /\ phy'.endSwitching = phy.endSwitching /\ phy'.switchEvent = phy.switchEvent
        /\ phy'.endCca >= phy.endCca /\ phy'.endCca \in Int
    OBVIOUS
  <1>2. /\ phy.endCca \in Int /\ phy.current \in Signals \cup {NoSignal}
    BY TypedEvents DEF TInv, IsPhy
  <1>3. NoSwitch(phy') /\ OneStage(phy')
    BY <1>1 DEF RInv, NoSwitch, OneStage
  <1>4. Undisturbed(phy', air')
    BY <1>1, <1>2 DEF RInv, Undisturbed, Referenced
  <1>5. BusyWith(phy', air')
    <2>1. Running(phy.header) =>
            /\ phy.header.left \in Nat /\ phy.header.of \in Signals
            /\ air[phy.header.of].left \in Int
            /\ air'[phy.header.of].left = air[phy.header.of].left
      BY TypedEvents DEF TInv, Referenced
    <2>2. Running(phy.payload) => phy.payload.left \in Nat
      BY TypedEvents DEF TInv
    <2> QED
      BY <1>1, <1>2, <2>1, <2>2 DEF RInv, BusyWith, Running
  <1> QED
    BY <1>3, <1>4, <1>5 DEF RInv

\* More energy on the air leaves a reception as it is.
LEMMA BusierKeeps ==
    ASSUME TInv, RInv, NEW q, Busier(phy, q), Copied(q, phy'),
           \A s \in Signals : Referenced(phy, s) =>
             air'[s].left = air[s].left /\ air'[s].recorded = air[s].recorded
    PROVE  RInv'
  BY ReceptionKept DEF Busier, Same, Copied, IsPhy

LEMMA ArrivesKeeps ==
    ASSUME TInv, NEW s \in Signals, NEW d \in Nat, NEW power \in Nat, Arrives(s, d, power)
    PROVE  /\ air' \in AirType /\ air'[s].recorded /\ ~EventDue(phy)
           /\ \A r \in Signals : Referenced(phy, r) =>
                air'[r].left = air[r].left /\ air'[r].recorded = air[r].recorded
  BY ArrivesFacts, TypedEvents DEF TInv, Arrives

LEMMA FrameArrivesReceives ==
    ASSUME TInv, RInv, NEW s \in Signals, NEW d \in FrameDurations, NEW power \in Powers,
           FrameArrives(s, d, power)
    PROVE  RInv'
  <1> DEFINE q == StartReceivePreamble(phy, air', s)
  <1>1. /\ IsPhy(phy) /\ air' \in AirType /\ air'[s].recorded /\ ~EventDue(phy)
        /\ \A r \in Signals : Referenced(phy, r) =>
             air'[r].left = air[r].left /\ air'[r].recorded = air[r].recorded
    BY ArrivesKeeps, TypedEvents, PhyAssumption DEF TInv, FrameArrives
  <1>2. CASE Busier(phy, q)
    <2>1. Copied(q, phy')
      BY <1>2, BecomesFacts DEF FrameArrives, Busier, Same
    <2> HIDE DEF q
    <2> QED
      BY <1>1, <1>2, <2>1, BusierKeeps
  <1>3. CASE Stopped(phy, q) /\ phy.current = NoSignal
             /\ (Running(phy.preamble) \/ GetState(phy) = "RX")
    <2>1. ~Running(phy.preamble) /\ ~Running(phy.payload)
      BY <1>3, TypedEvents, PhyAssumption DEF TInv, RInv, OneStage
    <2>2. phy.endRx > 0
      BY <1>1, <1>3, <2>1, GetStateFacts
    <2> QED
      BY <2>1, <2>2 DEF RInv, Undisturbed, Running
  <1>4. CASE q = Synchronized(phy, s)
             /\ (GetState(phy) = "IDLE" \/ (GetState(phy) = "CCA_BUSY" /\ phy.current = NoSignal))
    <2>1. /\ ~Running(phy.header) /\ ~Running(phy.payload)
          /\ phy.endTx <= 0 /\ phy.endRx <= 0
      BY <1>1, <1>4, FreeMeansFree
    <2>2. /\ IsPhy(q) /\ q.current = s
          /\ q.preamble = Event(PreambleDetection, "StartReceiveHeader", s)
          /\ q.header = phy.header /\ q.payload = phy.payload /\ q.failed = phy.failed
          /\ q.endTx = phy.endTx /\ q.endRx = phy.endRx
          /\ q.endSwitching = phy.endSwitching /\ q.switchEvent = phy.switchEvent
      BY <1>1, <1>4, EventType, PhyAssumption DEF Synchronized, IsPhy
    <2> HIDE DEF q
    <2>3. Copied(q, phy')
      BY <2>2, BecomesFacts DEF FrameArrives, q
    <2>4. NoSwitch(phy') /\ OneStage(phy')
      <3>1. /\ phy'.preamble.of = s /\ phy'.current = s /\ Running(phy'.preamble)
            /\ ~Running(phy'.header) /\ ~Running(phy'.payload)
        BY <2>1, <2>2, <2>3 DEF Copied, Event, Running
      <3>2. NoSwitch(phy')
        BY <2>2, <2>3 DEF RInv, NoSwitch, Copied
      <3> QED
        BY <3>1, <3>2 DEF OneStage
    <2>5. Undisturbed(phy', air') /\ BusyWith(phy', air')
      BY <1>1, <2>1, <2>2, <2>3, TypedEvents DEF Undisturbed, BusyWith, Copied, Running, IsPhy
    <2> QED
      BY <2>4, <2>5 DEF RInv
  <1> HIDE DEF q
  <1>5. \/ Busier(phy, q)
        \/ /\ Stopped(phy, q) /\ phy.current = NoSignal
           /\ Running(phy.preamble) \/ GetState(phy) = "RX"
        \/ /\ q = Synchronized(phy, s)
           /\ GetState(phy) = "IDLE" \/ (GetState(phy) = "CCA_BUSY" /\ phy.current = NoSignal)
    BY <1>1, PreambleFacts DEF q
  <1> QED
    BY <1>2, <1>3, <1>4, <1>5

LEMMA NoiseArrivesReceives ==
    ASSUME TInv, RInv, NEW s \in Signals, NEW d \in NoiseDurations, NEW power \in Powers,
           NoiseArrives(s, d, power)
    PROVE  RInv'
  <1> DEFINE q == CcaIfOutlasts(phy, air', s)
  <1>1. /\ IsPhy(phy) /\ air' \in AirType
        /\ \A r \in Signals : Referenced(phy, r) =>
             air'[r].left = air[r].left /\ air'[r].recorded = air[r].recorded
    BY ArrivesKeeps, TypedEvents, PhyAssumption DEF TInv, NoiseArrives
  <1>2. Busier(phy, q)
    BY <1>1, CcaIsBusier
  <1>3. Copied(q, phy')
    BY <1>2, BecomesFacts DEF NoiseArrives, Busier, Same
  <1> HIDE DEF q
  <1> QED
    BY <1>1, <1>2, <1>3, BusierKeeps

\* The frame a stage is at is the current one, and nothing stands in its way.
LEMMA AtStage ==
    ASSUME TInv, RInv, NEW e \in {phy.preamble, phy.header, phy.payload}, Running(e)
    PROVE  /\ IsPhy(phy) /\ air \in AirType
           /\ e.of \in Signals /\ e.of = phy.current /\ phy.current # NoSignal
           /\ air[e.of].recorded /\ phy.endTx <= 0 /\ phy.endSwitching <= 0
           /\ phy.failed = "none" /\ phy.switchEvent = -1
           /\ GetState(phy) = "RX" => phy.payload.run = "EndReceive"
           /\ phy.payload.run # "EndReceive" => IsReady(phy)
           /\ phy.endTx \in Int /\ phy.endRx \in Int /\ phy.endSwitching \in Int
           /\ phy.endCca \in Int
  <1>1. /\ IsPhy(phy) /\ air \in AirType /\ e.of \in Signals
    BY TypedEvents DEF TInv
  <1>2. e.of = phy.current /\ phy.current # NoSignal
    BY <1>1, PhyAssumption DEF RInv, OneStage
  <1>3. /\ phy.endTx \in Int /\ phy.endRx \in Int /\ phy.endSwitching \in Int
        /\ phy.endCca \in Int
    BY <1>1 DEF IsPhy
  <1>4. /\ air[e.of].recorded /\ phy.endTx <= 0 /\ phy.endSwitching <= 0
        /\ phy.failed = "none" /\ phy.switchEvent = -1
        /\ phy.endRx > 0 => phy.payload.run = "EndReceive"
    BY <1>2 DEF RInv, Undisturbed, NoSwitch
  <1>5. GetState(phy) = "RX" => phy.payload.run = "EndReceive"
    BY <1>1, <1>4, GetStateFacts
  <1>6. phy.payload.run # "EndReceive" => IsReady(phy)
    <2>1. ASSUME phy.payload.run # "EndReceive" PROVE IsReady(phy)
      <3>1. phy.endRx <= 0
        BY <1>3, <1>4, <2>1
      <3> QED
        BY <1>1, <1>3, <1>4, <3>1, GetStateFacts DEF IsReady
    <2> QED
      BY <2>1
  <1> QED
    BY <1>1, <1>2, <1>3, <1>4, <1>5, <1>6

LEMMA PreambleEndsReceives ==
    ASSUME TInv, RInv, NEW detected \in BOOLEAN, PreambleEnds(detected)
    PROVE  RInv'
  <1> DEFINE q == StartReceiveHeader(phy, air, detected)
  <1>1. Running(phy.preamble) /\ ~Running(phy.header) /\ ~Running(phy.payload)
    BY DEF PreambleEnds, Due, Running, RInv, OneStage
  <1>2. GetState(phy) # "RX" /\ HeaderExpected(phy, air)
    BY <1>1, AtStage DEF HeaderExpected, Running
  <1>3. /\ IsPhy(q) /\ SameTx(phy, q) /\ q.endRx = phy.endRx
        /\ q.preamble = NoEvent /\ q.payload = phy.payload /\ q.failed = phy.failed
        /\ detected =>
             /\ q.header = Event(PreambleRest, "ContinueReceiveHeader", phy.preamble.of)
             /\ q.current = phy.current /\ q.endCca >= PreambleRest
        /\ ~detected => q.header = phy.header /\ q.current = NoSignal
    BY <1>1, <1>2, AtStage, HeaderFacts
  <1> HIDE DEF q
  <1>4. Copied(q, phy') /\ air' = air
    BY <1>3, BecomesFacts DEF PreambleEnds, q
  <1>5. /\ phy'.preamble = NoEvent /\ ~Running(NoEvent) /\ phy'.payload = phy.payload
        /\ phy'.current = q.current /\ phy'.header = q.header /\ phy'.endCca = q.endCca
        /\ phy'.endTx <= 0 /\ ~(phy'.endRx > 0) /\ NoSwitch(phy')
    <2>1. ~(phy.endRx > 0)
      BY <1>1, <1>2, AtStage, GetStateFacts
    <2> QED
      BY <1>1, <1>3, <1>4, <2>1, AtStage DEF Copied, SameTx, NoSwitch, NoEvent, Running
  <1>6. CASE detected
    <2>1. /\ phy'.header.run = "ContinueReceiveHeader" /\ phy'.header.left = PreambleRest
          /\ phy'.header.of = phy'.current /\ phy'.current = phy.current
          /\ Running(phy'.header)
      BY <1>1, <1>3, <1>5, <1>6, AtStage DEF Event, Running
    <2>2. OneStage(phy')
      BY <1>1, <1>5, <2>1 DEF OneStage
    <2>3. Undisturbed(phy', air')
      BY <1>1, <1>4, <1>5, <2>1, AtStage DEF Undisturbed, Running
    <2>4. BusyWith(phy', air')
      BY <1>1, <1>3, <1>5, <1>6, <2>1 DEF BusyWith, Running
    <2> QED
      BY <1>5, <2>2, <2>3, <2>4 DEF RInv
  <1>7. CASE ~detected
    BY <1>1, <1>3, <1>5, <1>7 DEF RInv, OneStage, Undisturbed, BusyWith, Running
  <1> QED
    BY <1>6, <1>7

LEMMA HeaderStartsReceives ==
    ASSUME TInv, RInv, NEW decoded \in BOOLEAN, HeaderStarts(decoded)
    PROVE  RInv'
  <1> DEFINE q == ContinueReceiveHeader(phy, air, decoded)
  <1>1. Running(phy.header) /\ ~Running(phy.preamble) /\ ~Running(phy.payload)
    BY DEF HeaderStarts, Due, Running, RInv, OneStage
  <1>2. GetState(phy) # "RX" /\ air[phy.header.of].recorded
    BY <1>1, AtStage DEF Running
  <1>3. /\ IsPhy(q) /\ SameTx(phy, q) /\ q.endRx = phy.endRx /\ q.failed = phy.failed
        /\ decoded =>
             /\ q.preamble = phy.preamble /\ q.payload = phy.payload
             /\ q.header = Event(HeaderDuration, "StartReceivePayload", phy.header.of)
             /\ q.current = phy.current /\ q.endCca >= air[phy.header.of].left
        /\ ~decoded => /\ q.preamble = NoEvent /\ q.header = NoEvent /\ q.payload = NoEvent
                       /\ q.current = NoSignal
    BY <1>1, <1>2, AtStage, ContinueFacts
  <1> HIDE DEF q
  <1>4. Copied(q, phy') /\ air' = air
    BY <1>3, BecomesFacts DEF HeaderStarts, q
  <1>5. /\ phy'.preamble = q.preamble /\ phy'.payload = q.payload
        /\ phy'.current = q.current /\ phy'.header = q.header /\ phy'.endCca = q.endCca
        /\ phy'.endTx <= 0 /\ ~(phy'.endRx > 0) /\ NoSwitch(phy')
    <2>1. ~(phy.endRx > 0)
      BY <1>1, <1>2, AtStage, GetStateFacts
    <2> QED
      BY <1>1, <1>3, <1>4, <2>1, AtStage DEF Copied, SameTx, NoSwitch
  <1>6. CASE decoded
    <2>1. /\ phy'.header.run = "StartReceivePayload" /\ phy'.header.of = phy.header.of
          /\ phy'.header.of = phy'.current /\ phy'.current = phy.current
          /\ Running(phy'.header) /\ ~Running(phy'.preamble) /\ ~Running(phy'.payload)
      BY <1>1, <1>3, <1>5, <1>6, AtStage DEF Event, Running
    <2>2. OneStage(phy')
      BY <2>1 DEF OneStage
    <2>3. Undisturbed(phy', air')
      BY <1>1, <1>4, <1>5, <2>1, AtStage DEF Undisturbed, Running
    <2>4. BusyWith(phy', air')
      BY <1>3, <1>4, <1>5, <1>6, <2>1 DEF BusyWith, Running
    <2> QED
      BY <1>5, <2>2, <2>3, <2>4 DEF RInv
  <1>7. CASE ~decoded
    BY <1>3, <1>5, <1>7 DEF RInv, OneStage, Undisturbed, BusyWith, Running, NoEvent
  <1> QED
    BY <1>6, <1>7

LEMMA PayloadStartsReceives ==
    ASSUME TInv, RInv, NEW receivable \in BOOLEAN, PayloadStarts(receivable)
    PROVE  RInv'
  <1> DEFINE q == StartReceivePayload(phy, air, receivable)
             d == air[phy.header.of].left
  <1>1. Running(phy.header) /\ ~Running(phy.preamble) /\ ~Running(phy.payload)
    BY DEF PayloadStarts, Due, Running, RInv, OneStage
  <1>2. d \in Nat /\ phy.endCca >= d
    BY <1>1, TypedEvents DEF TInv, PayloadStarts, Due, HeaderFits, RInv, BusyWith
  <1>3. GetState(phy) # "RX" /\ PayloadExpected(phy, air, receivable)
    BY <1>1, AtStage DEF PayloadExpected, Running
  <1>4. /\ IsPhy(q) /\ SameTx(phy, q) /\ q.endCca = phy.endCca /\ q.failed = phy.failed
        /\ q.header = NoEvent /\ q.preamble = phy.preamble /\ q.current = phy.current
        /\ receivable =>
             /\ q.payload = Event(d, "EndReceive", phy.header.of) /\ q.endRx = d
        /\ ~receivable =>
             /\ q.payload = Event(d, "ResetReceive", phy.header.of) /\ q.endRx = phy.endRx
    BY <1>1, <1>2, <1>3, AtStage, PayloadFacts
  <1> HIDE DEF q, d
  <1>5. Copied(q, phy') /\ air' = air
    BY <1>4, BecomesFacts DEF PayloadStarts, q
  <1>6. /\ ~Running(phy'.preamble) /\ ~Running(phy'.header) /\ Running(phy'.payload)
        /\ phy'.payload.of = phy'.current /\ phy'.current = phy.current
        /\ phy'.payload.left = d /\ phy'.endCca = phy.endCca
        /\ phy'.endTx <= 0 /\ NoSwitch(phy')
        /\ receivable => phy'.payload.run = "EndReceive" /\ phy'.endRx = d
        /\ ~receivable => phy'.payload.run = "ResetReceive" /\ ~(phy'.endRx > 0)
    <2>1. ~(phy.endRx > 0)
      BY <1>1, <1>3, AtStage, GetStateFacts
    <2>2. /\ phy'.payload = q.payload /\ phy'.preamble = phy.preamble /\ phy'.header = NoEvent
          /\ phy'.current = phy.current /\ phy.header.of = phy.current
          /\ phy'.endTx = phy.endTx /\ phy.endTx <= 0 /\ phy'.endRx = q.endRx
          /\ phy'.endCca = phy.endCca /\ NoSwitch(phy')
      BY <1>1, <1>4, <1>5, AtStage DEF Copied, SameTx, NoSwitch
    <2> QED
      BY <1>1, <1>4, <2>1, <2>2 DEF Event, Running, NoEvent
  <1>7. OneStage(phy')
    BY <1>6 DEF OneStage
  <1>8. Undisturbed(phy', air')
    BY <1>1, <1>5, <1>6, AtStage DEF Undisturbed
  <1>9. BusyWith(phy', air')
    BY <1>2, <1>6 DEF BusyWith, Running
  <1> QED
    BY <1>6, <1>7, <1>8, <1>9 DEF RInv

\* After its last stage, the reception is over.
LEMMA OverReceives ==
    ASSUME NoSwitch(phy'), phy'.current = NoSignal, ~(phy'.endRx > 0),
           ~Running(phy'.preamble), ~Running(phy'.header), ~Running(phy'.payload)
    PROVE  RInv'
  BY DEF RInv, OneStage, Undisturbed, BusyWith, Running

LEMMA FrameEndsReceives ==
    ASSUME TInv, RInv, NEW ok \in BOOLEAN, NEW reaction, FrameEnds(ok, reaction)
    PROVE  RInv'
  <1> DEFINE q == EndReceive(phy, air, ok, reaction)
  <1>1. /\ Running(phy.payload) /\ ~Running(phy.preamble) /\ ~Running(phy.header)
        /\ phy.payload.run = "EndReceive" /\ phy.payload.left = 0
    BY DEF FrameEnds, Due, Running, RInv, OneStage
  <1>2. phy.endRx = 0 /\ air[phy.payload.of].left = 0
    BY <1>1 DEF TInv, PayloadFits, RInv, Undisturbed
  <1>3. EndExpected(phy, air)
    <2>1. GetState(phy) \in {"IDLE", "CCA_BUSY"}
      BY <1>1, <1>2, AtStage, GetStateFacts
    <2> QED
      BY <1>1, <1>2, <2>1, AtStage DEF EndExpected, IsReady
  <1>4. /\ IsPhy(q) /\ SameTx(phy, q) /\ q.endRx = phy.endRx
        /\ q.preamble = phy.preamble /\ q.header = phy.header /\ q.payload = NoEvent
        /\ q.current = NoSignal /\ q.failed = phy.failed
    BY <1>1, <1>3, AtStage, EndReceiveFacts
  <1> HIDE DEF q
  <1>5. Copied(q, phy')
    BY <1>4, BecomesFacts DEF FrameEnds, q
  <1>6. /\ NoSwitch(phy') /\ phy'.current = NoSignal /\ ~(phy'.endRx > 0)
        /\ ~Running(phy'.preamble) /\ ~Running(phy'.header) /\ ~Running(phy'.payload)
    BY <1>1, <1>2, <1>4, <1>5, AtStage DEF Copied, SameTx, NoSwitch, Running, NoEvent
  <1> QED
    BY <1>6, OverReceives

LEMMA UnreceivedFrameEndsReceives ==
    ASSUME TInv, RInv, UnreceivedFrameEnds
    PROVE  RInv'
  <1> DEFINE q == ResetReceive(phy, air)
  <1>1. /\ Running(phy.payload) /\ ~Running(phy.preamble) /\ ~Running(phy.header)
        /\ phy.payload.run = "ResetReceive" /\ phy.payload.left = 0
    BY DEF UnreceivedFrameEnds, Due, Running, RInv, OneStage
  <1>2. air[phy.payload.of].left = 0
    BY <1>1 DEF TInv, PayloadFits
  <1>3. GetState(phy) # "RX" /\ ~(phy.endRx > 0)
    BY <1>1, AtStage DEF RInv, Undisturbed
  <1>4. /\ IsPhy(q) /\ SameTx(phy, q) /\ q.endRx = phy.endRx
        /\ q.preamble = phy.preamble /\ q.header = phy.header /\ q.payload = NoEvent
        /\ q.current = NoSignal /\ q.failed = phy.failed
    BY <1>1, <1>2, <1>3, AtStage, ResetReceiveFacts
  <1> HIDE DEF q
  <1>5. Copied(q, phy')
    BY <1>4, BecomesFacts DEF UnreceivedFrameEnds, q
  <1>6. /\ NoSwitch(phy') /\ phy'.current = NoSignal /\ ~(phy'.endRx > 0)
        /\ ~Running(phy'.preamble) /\ ~Running(phy'.header) /\ ~Running(phy'.payload)
    BY <1>1, <1>3, <1>4, <1>5, AtStage DEF Copied, SameTx, NoSwitch, Running, NoEvent
  <1> QED
    BY <1>6, OverReceives

LEMMA StartTransmissionReceives ==
    ASSUME TInv, RInv, NEW d \in TxDurations, StartTransmission(d)
    PROVE  RInv'
  <1> DEFINE q == Send(phy, air, d)
  <1>1. /\ IsPhy(phy) /\ air \in AirType /\ d \in Nat
        /\ phy.txEvent < 0 /\ GetState(phy) \notin {"TX", "SWITCHING"}
    BY TypedEvents, PhyAssumption DEF TInv, StartTransmission, MaySend
  <1>2. /\ IsPhy(q) /\ q.endRx <= 0 /\ q.endRx \in Int
        /\ q.endSwitching = phy.endSwitching /\ q.switchEvent = phy.switchEvent
        /\ q.failed = phy.failed /\ q.current = NoSignal
        /\ phy.current # NoSignal =>
             q.preamble = NoEvent /\ q.header = NoEvent /\ q.payload = NoEvent
        /\ phy.current = NoSignal =>
             q.preamble = phy.preamble /\ q.header = phy.header /\ q.payload = phy.payload
    BY <1>1, SendFacts DEF IsPhy
  <1> HIDE DEF q
  <1>3. phy.current = NoSignal =>
          ~Running(phy.preamble) /\ ~Running(phy.header) /\ ~Running(phy.payload)
    BY TypedEvents, PhyAssumption DEF TInv, RInv, OneStage
  <1>4. Copied(q, phy')
    BY <1>2, BecomesFacts DEF StartTransmission, q
  <1>5. ~Running(phy'.preamble) /\ ~Running(phy'.header) /\ ~Running(phy'.payload)
    BY <1>2, <1>3, <1>4 DEF Copied, Running, NoEvent
  <1>6. NoSwitch(phy') /\ phy'.current = NoSignal /\ ~(phy'.endRx > 0)
    BY <1>2, <1>4 DEF Copied, RInv, NoSwitch
  <1> QED
    BY <1>5, <1>6, OverReceives

LEMMA NotifyTxEndReceives ==
    ASSUME TInv, RInv, NotifyTxEnd
    PROVE  RInv'
  <1> DEFINE q == [phy EXCEPT !.txEvent = -1]
  <1>1. Copied(q, phy') /\ IsPhy(phy) /\ air' = air
    BY TypedEvents, NotifyTxEndKeeps DEF TInv
  <1>2. /\ q.preamble = phy.preamble /\ q.header = phy.header /\ q.payload = phy.payload
        /\ q.current = phy.current /\ q.failed = phy.failed /\ q.endTx = phy.endTx
        /\ q.endRx = phy.endRx /\ q.endSwitching = phy.endSwitching
        /\ q.switchEvent = phy.switchEvent /\ q.endCca = phy.endCca /\ phy.endCca \in Int
    BY <1>1 DEF IsPhy
  <1> HIDE DEF q
  <1> QED
    BY <1>1, <1>2, ReceptionKept DEF Copied

LEMMA TickReceives ==
    ASSUME TInv, RInv, Tick
    PROVE  RInv'
  <1>1. /\ phy'.endTx = Closer(phy.endTx) /\ phy'.endRx = Closer(phy.endRx)
        /\ phy'.endSwitching = Closer(phy.endSwitching) /\ phy'.endCca = Closer(phy.endCca)
        /\ phy'.switchEvent = Closer(phy.switchEvent)
        /\ phy'.preamble = Sooner(phy.preamble) /\ phy'.header = Sooner(phy.header)
        /\ phy'.payload = Sooner(phy.payload)
        /\ phy'.current = phy.current /\ phy'.failed = phy.failed
        /\ \A e \in {phy.preamble, phy.header, phy.payload} : Running(e) =>
             /\ e.left > 0 /\ Running(Sooner(e)) /\ Sooner(e).left = e.left - 1
             /\ Sooner(e).run = e.run /\ Sooner(e).of = e.of
        /\ \A e \in {phy.preamble, phy.header, phy.payload} : ~Running(e) => Sooner(e) = e
    BY TypedEvents, ElapseFacts DEF TInv, Tick
  <1>2. /\ \A s \in Signals : air[s].left > 0 => air'[s].left = air[s].left - 1
        /\ \A s \in Signals : Referenced(phy, s) => air'[s].recorded = air[s].recorded
    BY TypedEvents, ElapseAirFacts DEF TInv, Tick, Closer
  <1>3. /\ phy.endTx \in Int /\ phy.endRx \in Int /\ phy.endSwitching \in Int
        /\ phy.endCca \in Int /\ phy.current \in Signals \cup {NoSignal}
    BY TypedEvents DEF TInv, IsPhy
  <1>4. NoSwitch(phy')
    BY <1>1, <1>3 DEF RInv, NoSwitch, Closer
  <1>5. \A e \in {phy.preamble, phy.header, phy.payload} :
          /\ Running(Sooner(e)) <=> Running(e)
          /\ Running(e) => Sooner(e).of = e.of /\ Sooner(e).run = e.run
          /\ ~Running(e) => Sooner(e) = e
    BY <1>1
  <1>6. OneStage(phy')
    BY <1>1, <1>5 DEF RInv, OneStage
  <1>7. Undisturbed(phy', air')
    <2>1. phy'.current # NoSignal => air'[phy'.current].recorded /\ phy'.endTx <= 0
      BY <1>1, <1>2, <1>3 DEF RInv, Undisturbed, Referenced, Closer
    <2>2. phy'.endRx > 0 => phy'.payload.run = "EndReceive"
      <3>1. ASSUME phy'.endRx > 0 PROVE phy.payload.run = "EndReceive"
        BY <1>1, <1>3, <3>1 DEF RInv, Undisturbed, Closer
      <3> QED
        BY <1>1, <3>1 DEF Running
    <2>3. phy'.payload.run = "EndReceive" => phy'.endRx = phy'.payload.left
      <3>1. ASSUME phy'.payload.run = "EndReceive" PROVE phy'.endRx = phy'.payload.left
        <4>1. Running(phy.payload) /\ phy.payload.run = "EndReceive"
          BY <1>1, <3>1 DEF Running
        <4>2. phy.endRx = phy.payload.left /\ phy.payload.left > 0
          BY <1>1, <4>1 DEF RInv, Undisturbed
        <4> QED
          BY <1>1, <4>1, <4>2 DEF Closer
      <3> QED
        BY <3>1
    <2> QED
      BY <2>1, <2>2, <2>3 DEF Undisturbed
  <1>8. BusyWith(phy', air')
    <2> DEFINE Heard ==
                 /\ phy'.header.run = "ContinueReceiveHeader" => phy'.endCca >= phy'.header.left
                 /\ phy'.header.run = "StartReceivePayload" =>
                      phy'.endCca >= air'[phy'.header.of].left
    <2>1. ASSUME Running(phy.header) PROVE Heard
      <3>1. /\ phy.header.left \in Nat /\ phy.header.left > 0 /\ phy.header.of \in Signals
            /\ air[phy.header.of].left \in Int
            /\ phy'.header.run = phy.header.run /\ phy'.header.of = phy.header.of
            /\ phy'.header.left = phy.header.left - 1
        BY <1>1, <2>1, TypedEvents DEF TInv
      <3>2. phy.header.run = "ContinueReceiveHeader" => phy.endCca >= phy.header.left
        BY DEF RInv, BusyWith
      <3>3. phy.header.run = "StartReceivePayload" =>
              /\ phy.endCca >= air[phy.header.of].left
              /\ air[phy.header.of].left > phy.header.left
        BY DEF RInv, BusyWith, TInv, HeaderFits
      <3>4. phy.endCca > 0 => phy'.endCca = phy.endCca - 1
        BY <1>1 DEF Closer
      <3>5. phy.header.run = "StartReceivePayload" =>
              air'[phy'.header.of].left = air[phy.header.of].left - 1
        BY <1>2, <3>1, <3>3
      <3> QED
        BY <1>3, <3>1, <3>2, <3>3, <3>4, <3>5
    <2>2. ASSUME ~Running(phy.header) PROVE Heard
      <3>1. ~Running(phy'.header)
        BY <1>1, <2>2
      <3> QED
        BY <3>1 DEF Running
    <2>3. phy'.payload.run = "ResetReceive" => phy'.endCca >= phy'.payload.left
      <3>1. ASSUME phy'.payload.run = "ResetReceive" PROVE phy'.endCca >= phy'.payload.left
        <4>1. Running(phy.payload) /\ phy.payload.run = "ResetReceive"
          BY <1>1, <3>1 DEF Running
        <4>2. /\ phy.payload.left \in Nat /\ phy.payload.left > 0
              /\ phy.endCca >= phy.payload.left /\ phy'.payload.left = phy.payload.left - 1
          BY <1>1, <4>1, TypedEvents DEF TInv, RInv, BusyWith
        <4> QED
          BY <1>1, <1>3, <4>2 DEF Closer
      <3> QED
        BY <3>1
    <2> QED
      BY <2>1, <2>2, <2>3 DEF BusyWith
  <1> QED
    BY <1>4, <1>6, <1>7, <1>8 DEF RInv

LEMMA InitReceives ==
    ASSUME Init
    PROVE  RInv
  BY DEF Init, PhyInit, RInv, NoSwitch, OneStage, Undisturbed, BusyWith, NoEvent, Running

LEMMA NextReceives ==
    ASSUME ~CanSwitch, TInv, RInv, [Next]_vars
    PROVE  RInv'
  <1>1. ASSUME NEW s \in Signals, NEW power \in Powers, NEW d \in FrameDurations,
               FrameArrives(s, d, power)
        PROVE  RInv'
    BY <1>1, FrameArrivesReceives
  <1>2. ASSUME NEW s \in Signals, NEW power \in Powers, NEW d \in NoiseDurations,
               NoiseArrives(s, d, power)
        PROVE  RInv'
    BY <1>2, NoiseArrivesReceives
  <1>3. ASSUME NEW b \in BOOLEAN, PreambleEnds(b) \/ HeaderStarts(b) \/ PayloadStarts(b)
        PROVE  RInv'
    BY <1>3, PreambleEndsReceives, HeaderStartsReceives, PayloadStartsReceives
  <1>4. CASE UnreceivedFrameEnds
    BY <1>4, UnreceivedFrameEndsReceives
  <1>5. CASE NotifyTxEnd
    BY <1>5, NotifyTxEndReceives
  <1>6. ASSUME NEW ok \in BOOLEAN, NEW reaction \in Reactions, FrameEnds(ok, reaction)
        PROVE  RInv'
    BY <1>6, FrameEndsReceives
  <1>7. ASSUME NEW d \in TxDurations, StartTransmission(d)
        PROVE  RInv'
    BY <1>7, StartTransmissionReceives
  <1>8. ~SwitchChannel
    BY DEF SwitchChannel, MaySwitch
  <1>9. ~PostponedSwitch
    BY DEF PostponedSwitch, RInv, NoSwitch
  <1>10. CASE Tick
    BY <1>10, TickReceives
  <1>11. CASE UNCHANGED vars
    BY <1>11 DEF vars, RInv
  <1> QED
    BY <1>1, <1>2, <1>3, <1>4, <1>5, <1>6, <1>7, <1>8, <1>9, <1>10, <1>11
       DEF Next, Reception

\* Where the MAC never changes channels, the invariant of the reception holds.
THEOREM ReceptionInvariance ==
    ASSUME ~CanSwitch
    PROVE  Spec => [](TInv /\ RInv)
  <1>1. Init => TInv /\ RInv
    BY InitTypes, InitReceives
  <1>2. (TInv /\ RInv) /\ [Next]_vars => (TInv /\ RInv)'
    BY NextTypes, NextReceives
  <1> QED
    BY <1>1, <1>2, PTL DEF Spec

\* No assertion of the reception and transmission code fails, as long as the
\* MAC does not change channels: each stage finds the frame, the state and the
\* events it expects, whatever arrives or is sent in the meantime.
THEOREM ReceptionNeverFails ==
    ASSUME ~CanSwitch
    PROVE  Spec => []NoAssertionFails
  <1>1. RInv => NoAssertionFails
    BY DEF RInv, NoSwitch, NoAssertionFails
  <1> QED
    BY <1>1, ReceptionInvariance, PTL

\* At most one of the preamble, header and payload events is scheduled, and it
\* is the one of the current frame.
THEOREM StagesFollowOneAnother ==
    ASSUME ~CanSwitch
    PROVE  Spec => []OneReception
  <1>1. RInv => OneReception
    BY DEF RInv, OneStage, OneReception, Stages
  <1> QED
    BY <1>1, ReceptionInvariance, PTL

\* A PHY that drops a frame for being busy with another is receiving that one.
THEOREM BusyIsReceiving ==
    ASSUME ~CanSwitch
    PROVE  Spec => []BusyMeansReceiving
  <1>1. RInv => BusyMeansReceiving
    BY DEF RInv, OneStage, BusyMeansReceiving, Stages
  <1> QED
    BY <1>1, ReceptionInvariance, PTL

---------------------------------------------------------------------------
(* A MAC that changes channels, but sends only when the PHY is idle or     *)
(* detecting a preamble.  A channel switch forgets every signal, and leaves*)
(* a header in progress: its frame is then no longer recorded.             *)

\* The signal is still known, and the PHY neither sends nor switches.
Undivided(p, a, s) == a[s].recorded /\ p.endTx <= 0 /\ p.endSwitching <= 0

SInv ==
    Alive =>
      /\ phy.payload.run = "EndReceive" /\ phy.payload.left > 0 =>
           Undivided(phy, air, phy.payload.of) /\ phy.endRx = phy.payload.left
      /\ Running(phy.header) /\ air[phy.header.of].recorded =>
           Undivided(phy, air, phy.header.of)
      /\ Running(phy.preamble) /\ phy.current = phy.preamble.of =>
           Undivided(phy, air, phy.preamble.of)

\* A step that leaves the stages, and what they rely on, as they are.
LEMMA StagesKept ==
    ASSUME TInv, SInv, Alive,
           phy'.preamble = phy.preamble, phy'.header = phy.header,
           phy'.payload = phy.payload,
           phy'.current = phy.current, phy'.endTx = phy.endTx, phy'.endRx = phy.endRx,
           phy'.endSwitching = phy.endSwitching,
           \A s \in Signals : Referenced(phy, s) => air'[s].recorded = air[s].recorded
    PROVE  SInv'
  <1>1. /\ Running(phy.preamble) =>
             phy.preamble.of \in Signals /\ Referenced(phy, phy.preamble.of)
        /\ Running(phy.header) => phy.header.of \in Signals /\ Referenced(phy, phy.header.of)
        /\ phy.payload.run = "EndReceive" =>
             phy.payload.of \in Signals /\ Referenced(phy, phy.payload.of)
    BY TypedEvents DEF TInv, Referenced, Running
  <1> QED
    BY <1>1 DEF SInv, Undivided

LEMMA BusierStays ==
    ASSUME TInv, SInv, Alive, NEW q, Busier(phy, q), Copied(q, phy'),
           \A s \in Signals : Referenced(phy, s) => air'[s].recorded = air[s].recorded
    PROVE  SInv'
  <1>1. /\ phy'.preamble = phy.preamble /\ phy'.header = phy.header
        /\ phy'.payload = phy.payload /\ phy'.current = phy.current
        /\ phy'.endTx = phy.endTx /\ phy'.endRx = phy.endRx
        /\ phy'.endSwitching = phy.endSwitching
    BY DEF Busier, Same, Copied
  <1> QED
    BY <1>1, StagesKept

LEMMA FrameArrivesStays ==
    ASSUME TInv, SInv, NEW s \in Signals, NEW d \in FrameDurations, NEW power \in Powers,
           FrameArrives(s, d, power)
    PROVE  SInv'
  <1> DEFINE q == StartReceivePreamble(phy, air', s)
  <1>1. /\ IsPhy(phy) /\ air' \in AirType /\ air'[s].recorded /\ Alive
        /\ \A r \in Signals : Referenced(phy, r) => air'[r].recorded = air[r].recorded
    BY ArrivesKeeps, TypedEvents, PhyAssumption DEF TInv, FrameArrives, Arrives
  <1>2. CASE Busier(phy, q)
    <2>1. Copied(q, phy')
      BY <1>2, BecomesFacts DEF FrameArrives, Busier, Same
    <2> HIDE DEF q
    <2> QED
      BY <1>1, <1>2, <2>1, BusierStays
  <1>3. CASE Stopped(phy, q)
    <2>1. Copied(q, phy')
      BY <1>3, BecomesFacts DEF FrameArrives, Stopped, Same
    <2> QED
      BY <1>3, <2>1 DEF Stopped, Copied, SInv, Alive
  <1>4. CASE q = Synchronized(phy, s) /\ GetState(phy) \in {"IDLE", "CCA_BUSY"}
    <2>1. phy.endTx <= 0 /\ phy.endSwitching <= 0
      BY <1>1, <1>4, GetStateFacts
    <2>2. /\ IsPhy(q) /\ q.current = s
          /\ q.preamble = Event(PreambleDetection, "StartReceiveHeader", s)
          /\ q.header = phy.header /\ q.payload = phy.payload
          /\ q.endTx = phy.endTx /\ q.endRx = phy.endRx
          /\ q.endSwitching = phy.endSwitching
      BY <1>1, <1>4, EventType, PhyAssumption DEF Synchronized, IsPhy
    <2> HIDE DEF q
    <2>3. Copied(q, phy')
      BY <2>2, BecomesFacts DEF FrameArrives, q
    <2>4. /\ phy'.preamble.of = s /\ phy'.header = phy.header /\ phy'.payload = phy.payload
          /\ phy'.endTx = phy.endTx /\ phy'.endRx = phy.endRx
          /\ phy'.endSwitching = phy.endSwitching
      BY <2>2, <2>3 DEF Copied, Event
    <2>5. /\ Running(phy.header) => air'[phy.header.of].recorded = air[phy.header.of].recorded
          /\ phy.payload.run = "EndReceive" =>
               air'[phy.payload.of].recorded = air[phy.payload.of].recorded
      BY <1>1, TypedEvents DEF TInv, Referenced, Running
    <2> QED
      BY <1>1, <2>1, <2>4, <2>5 DEF SInv, Undivided
  <1> HIDE DEF q
  <1>5. \/ Busier(phy, q) \/ Stopped(phy, q)
        \/ q = Synchronized(phy, s) /\ GetState(phy) \in {"IDLE", "CCA_BUSY"}
    BY <1>1, PreambleFacts DEF q
  <1> QED
    BY <1>2, <1>3, <1>4, <1>5

LEMMA NoiseArrivesStays ==
    ASSUME TInv, SInv, NEW s \in Signals, NEW d \in NoiseDurations, NEW power \in Powers,
           NoiseArrives(s, d, power)
    PROVE  SInv'
  <1> DEFINE q == CcaIfOutlasts(phy, air', s)
  <1>1. /\ IsPhy(phy) /\ air' \in AirType /\ Alive
        /\ \A r \in Signals : Referenced(phy, r) => air'[r].recorded = air[r].recorded
    BY ArrivesKeeps, TypedEvents, PhyAssumption DEF TInv, NoiseArrives, Arrives
  <1>2. Busier(phy, q)
    BY <1>1, CcaIsBusier
  <1>3. Copied(q, phy')
    BY <1>2, BecomesFacts DEF NoiseArrives, Busier, Same
  <1> HIDE DEF q
  <1> QED
    BY <1>1, <1>2, <1>3, BusierStays

LEMMA PreambleEndsStays ==
    ASSUME TInv, SInv, NEW detected \in BOOLEAN, PreambleEnds(detected)
    PROVE  SInv'
  <1> DEFINE q == StartReceiveHeader(phy, air, detected)
  <1>1. /\ IsPhy(phy) /\ air \in AirType /\ phy.preamble.of \in Signals
        /\ Running(phy.preamble) /\ Alive
    BY TypedEvents DEF TInv, PreambleEnds, Due, Running
  <1>2. /\ IsPhy(q) /\ SameTx(phy, q) /\ q.endRx = phy.endRx
        /\ q.preamble = NoEvent /\ q.payload = phy.payload
        /\ q.failed = IF HeaderExpected(phy, air) THEN phy.failed ELSE "StartReceiveHeader"
        /\ detected => q.header = Event(PreambleRest, "ContinueReceiveHeader", phy.preamble.of)
        /\ ~detected => q.header = phy.header
    BY <1>1, HeaderFacts
  <1> HIDE DEF q
  <1>3. Copied(q, phy') /\ air' = air
    BY <1>2, BecomesFacts DEF PreambleEnds, q
  <1>4. SUFFICES ASSUME Alive' PROVE SInv'
    BY DEF SInv
  <1>5. HeaderExpected(phy, air)
    BY <1>2, <1>3, <1>4 DEF Alive, Copied
  <1>6. Undivided(phy, air, phy.preamble.of)
    BY <1>1, <1>5 DEF SInv, HeaderExpected
  <1>7. /\ ~Running(phy'.preamble) /\ phy'.payload = phy.payload /\ phy'.header = q.header
        /\ phy'.endTx = phy.endTx /\ phy'.endRx = phy.endRx
        /\ phy'.endSwitching = phy.endSwitching
    BY <1>2, <1>3 DEF Copied, SameTx, Running, NoEvent
  <1>8. CASE detected
    <2>1. phy'.header.of = phy.preamble.of
      BY <1>2, <1>7, <1>8 DEF Event
    <2> QED
      BY <1>1, <1>3, <1>6, <1>7, <2>1 DEF SInv, Undivided
  <1>9. CASE ~detected
    BY <1>1, <1>2, <1>3, <1>7, <1>9 DEF SInv, Undivided
  <1> QED
    BY <1>8, <1>9

LEMMA HeaderStartsStays ==
    ASSUME TInv, SInv, NEW decoded \in BOOLEAN, HeaderStarts(decoded)
    PROVE  SInv'
  <1> DEFINE q == ContinueReceiveHeader(phy, air, decoded)
  <1>1. /\ IsPhy(phy) /\ air \in AirType /\ phy.header.of \in Signals
        /\ Running(phy.header) /\ Alive
    BY TypedEvents DEF TInv, HeaderStarts, Due, Running
  <1>2. /\ IsPhy(q) /\ SameTx(phy, q) /\ q.endRx = phy.endRx
        /\ q.failed = IF air[phy.header.of].recorded THEN phy.failed
                      ELSE "ContinueReceiveHeader"
        /\ decoded =>
             /\ q.preamble = phy.preamble /\ q.payload = phy.payload
             /\ q.header = Event(HeaderDuration, "StartReceivePayload", phy.header.of)
             /\ q.current = phy.current
        /\ ~decoded => q.preamble = NoEvent /\ q.header = NoEvent /\ q.payload = NoEvent
    BY <1>1, ContinueFacts
  <1> HIDE DEF q
  <1>3. Copied(q, phy') /\ air' = air
    BY <1>2, BecomesFacts DEF HeaderStarts, q
  <1>4. SUFFICES ASSUME Alive' PROVE SInv'
    BY DEF SInv
  <1>5. Undivided(phy, air, phy.header.of)
    BY <1>1, <1>2, <1>3, <1>4 DEF Alive, Copied, SInv
  <1>6. CASE decoded
    <2>1. /\ phy'.preamble = phy.preamble /\ phy'.payload = phy.payload
          /\ phy'.header.of = phy.header.of /\ phy'.current = phy.current
          /\ phy'.endTx = phy.endTx /\ phy'.endRx = phy.endRx
          /\ phy'.endSwitching = phy.endSwitching
      BY <1>2, <1>3, <1>6 DEF Copied, SameTx, Event
    <2> QED
      BY <1>1, <1>3, <1>5, <2>1 DEF SInv, Undivided
  <1>7. CASE ~decoded
    BY <1>2, <1>3, <1>7 DEF Copied, SInv, Running, NoEvent
  <1> QED
    BY <1>6, <1>7

LEMMA PayloadStartsStays ==
    ASSUME TInv, SInv, NEW receivable \in BOOLEAN, PayloadStarts(receivable)
    PROVE  SInv'
  <1> DEFINE q == StartReceivePayload(phy, air, receivable)
             d == air[phy.header.of].left
  <1>1. /\ IsPhy(phy) /\ air \in AirType /\ phy.header.of \in Signals
        /\ Running(phy.header) /\ Alive /\ d \in Nat
    BY TypedEvents DEF TInv, PayloadStarts, Due, Running, HeaderFits
  <1>2. /\ IsPhy(q) /\ SameTx(phy, q) /\ q.header = NoEvent /\ q.preamble = phy.preamble
        /\ q.current = phy.current
        /\ q.failed = IF PayloadExpected(phy, air, receivable)
                      THEN phy.failed ELSE "StartReceivePayload"
        /\ receivable =>
             q.payload = Event(d, "EndReceive", phy.header.of) /\ q.endRx = d
        /\ ~receivable => q.payload = Event(d, "ResetReceive", phy.header.of)
    BY <1>1, PayloadFacts
  <1> HIDE DEF q, d
  <1>3. Copied(q, phy') /\ air' = air
    BY <1>2, BecomesFacts DEF PayloadStarts, q
  <1>4. SUFFICES ASSUME Alive' PROVE SInv'
    BY DEF SInv
  <1>5. Undivided(phy, air, phy.header.of)
    BY <1>1, <1>2, <1>3, <1>4 DEF Alive, Copied, SInv, PayloadExpected
  <1>6. /\ ~Running(phy'.header) /\ phy'.preamble = phy.preamble
        /\ phy'.current = phy.current /\ phy'.endTx = phy.endTx
        /\ phy'.endSwitching = phy.endSwitching
        /\ phy'.payload.run = "EndReceive" =>
             /\ phy'.payload.of = phy.header.of /\ phy'.payload.left = d /\ phy'.endRx = d
    BY <1>2, <1>3 DEF Copied, SameTx, Event, Running, NoEvent
  <1> QED
    BY <1>1, <1>3, <1>5, <1>6 DEF SInv, Undivided

\* A payload ends, and with it the current frame.
LEMMA EndsStays ==
    ASSUME TInv, SInv, Alive, air' = air,
           phy'.preamble = phy.preamble, phy'.header = phy.header, phy'.payload = NoEvent,
           phy'.current = NoSignal, phy'.endTx = phy.endTx,
           phy'.endSwitching = phy.endSwitching
    PROVE  SInv'
  <1>1. Running(phy.preamble) => phy.preamble.of # NoSignal
    BY TypedEvents, PhyAssumption DEF TInv
  <1>2. phy'.payload.run # "EndReceive"
    BY DEF NoEvent
  <1> QED
    BY <1>1, <1>2 DEF SInv, Undivided

LEMMA FrameEndsStays ==
    ASSUME TInv, SInv, NEW ok \in BOOLEAN, NEW reaction, FrameEnds(ok, reaction)
    PROVE  SInv'
  <1> DEFINE q == EndReceive(phy, air, ok, reaction)
  <1>1. phy.payload.of \in Signals /\ IsPhy(phy) /\ air \in AirType /\ Alive /\ air' = air
    BY TypedEvents DEF TInv, FrameEnds, Due, Running
  <1>2. /\ IsPhy(q) /\ SameTx(phy, q) /\ q.preamble = phy.preamble
        /\ q.payload = NoEvent /\ q.header = phy.header /\ q.current = NoSignal
    BY <1>1, EndReceiveFacts
  <1> HIDE DEF q
  <1>3. Copied(q, phy')
    BY <1>2, BecomesFacts DEF FrameEnds, q
  <1> QED
    BY <1>1, <1>2, <1>3, EndsStays DEF Copied, SameTx

LEMMA UnreceivedFrameEndsStays ==
    ASSUME TInv, SInv, UnreceivedFrameEnds
    PROVE  SInv'
  <1> DEFINE q == ResetReceive(phy, air)
  <1>1. phy.payload.of \in Signals /\ IsPhy(phy) /\ air \in AirType /\ Alive /\ air' = air
    BY TypedEvents DEF TInv, UnreceivedFrameEnds, Due, Running
  <1>2. /\ IsPhy(q) /\ SameTx(phy, q) /\ q.preamble = phy.preamble
        /\ q.payload = NoEvent /\ q.header = phy.header /\ q.current = NoSignal
    BY <1>1, ResetReceiveFacts
  <1> HIDE DEF q
  <1>3. Copied(q, phy')
    BY <1>2, BecomesFacts DEF UnreceivedFrameEnds, q
  <1> QED
    BY <1>1, <1>2, <1>3, EndsStays DEF Copied, SameTx

LEMMA NotifyTxEndStays ==
    ASSUME TInv, SInv, NotifyTxEnd
    PROVE  SInv'
  <1> DEFINE q == [phy EXCEPT !.txEvent = -1]
  <1>1. Copied(q, phy') /\ IsPhy(phy) /\ air' = air /\ Alive
    BY TypedEvents, NotifyTxEndKeeps DEF TInv, NotifyTxEnd
  <1>2. /\ q.preamble = phy.preamble /\ q.header = phy.header /\ q.payload = phy.payload
        /\ q.current = phy.current /\ q.endTx = phy.endTx /\ q.endRx = phy.endRx
        /\ q.endSwitching = phy.endSwitching
    BY <1>1 DEF IsPhy
  <1> HIDE DEF q
  <1> QED
    BY <1>1, <1>2, StagesKept DEF Copied

\* What the MAC sends cancels a preamble that it interrupts.
LEMMA StartTransmissionStays ==
    ASSUME ~CanInterrupt, TInv, SInv, NEW d \in TxDurations, StartTransmission(d)
    PROVE  SInv'
  <1> DEFINE q == Send(phy, air, d)
  <1>1. /\ IsPhy(phy) /\ air \in AirType /\ d \in Nat
        /\ phy.txEvent < 0 /\ GetState(phy) \notin {"TX", "SWITCHING"}
        /\ ~Running(phy.header) /\ ~Running(phy.payload)
    BY TypedEvents, PhyAssumption DEF TInv, StartTransmission, MaySend
  <1>2. /\ IsPhy(q) /\ q.current = NoSignal
        /\ phy.current # NoSignal =>
             q.preamble = NoEvent /\ q.header = NoEvent /\ q.payload = NoEvent
        /\ phy.current = NoSignal =>
             q.preamble = phy.preamble /\ q.header = phy.header /\ q.payload = phy.payload
    BY <1>1, SendFacts
  <1> HIDE DEF q
  <1>3. Copied(q, phy')
    BY <1>2, BecomesFacts DEF StartTransmission, q
  <1>4. /\ ~Running(phy'.header) /\ phy'.payload.run # "EndReceive"
        /\ phy'.current = NoSignal /\ phy'.preamble \in {NoEvent, phy.preamble}
    BY <1>1, <1>2, <1>3 DEF Copied, Running, NoEvent
  <1>5. Running(phy'.preamble) => phy'.preamble.of # NoSignal
    BY <1>4, NoEventType, TypedEvents, PhyAssumption DEF TInv, Running
  <1> QED
    BY <1>4, <1>5 DEF SInv

\* A switch forgets the signal of a header in progress, and cancels what else
\* is being received of the current frame.
LEMMA SwitchStays ==
    ASSUME TInv, SInv, Alive, NEW p, IsPhy(p), NEW d \in Nat,
           p.preamble = phy.preamble, p.header = phy.header, p.payload = phy.payload,
           p.current = phy.current, p.endTx = phy.endTx, p.endRx = phy.endRx,
           p.endSwitching = phy.endSwitching, p.endCca = phy.endCca,
           air' = ResetSpectrumModel(phy, air), Becomes(SetChannelNumber(p, d))
    PROVE  SInv'
  <1> DEFINE q == SetChannelNumber(p, d)
  <1>1. /\ IsPhy(q) /\ q.current = p.current /\ q.endTx = p.endTx
        /\ q.preamble \in {NoEvent, p.preamble} /\ q.header \in {NoEvent, p.header}
        /\ q.payload \in {NoEvent, p.payload}
        /\ GetState(p) = "SWITCHING" => q.failed # "none"
        /\ GetState(p) = "RX" => q.preamble = NoEvent /\ q.payload = NoEvent
        /\ GetState(p) \notin {"TX", "RX", "SWITCHING"} /\ Running(p.preamble) =>
             q.preamble = NoEvent /\ q.payload = NoEvent
    BY SwitchFacts
  <1> HIDE DEF q
  <1>2. Copied(q, phy')
    BY <1>1, BecomesFacts DEF q
  <1>3. SUFFICES ASSUME Alive' PROVE SInv'
    BY DEF SInv
  <1>4. GetState(p) # "SWITCHING"
    BY <1>1, <1>2, <1>3 DEF Copied, Alive
  <1>5. \A s \in Signals : ~air'[s].recorded
    BY TypedEvents, ResetFacts DEF TInv
  <1>6. /\ p.endTx \in Int /\ p.endRx \in Int /\ p.endSwitching \in Int
        /\ GetState(p) = "TX" <=> p.endTx > 0
        /\ GetState(p) = "RX" <=> p.endTx <= 0 /\ p.endRx > 0
    BY GetStateFacts DEF IsPhy
  <1>7. Running(phy.header) => phy.header.of \in Signals
    BY TypedEvents DEF TInv
  <1>8. ~(Running(phy'.header) /\ air'[phy'.header.of].recorded)
    BY <1>1, <1>2, <1>5, <1>7, NoEventType DEF Copied
  <1>9. ~(phy'.payload.run = "EndReceive" /\ phy'.payload.left > 0)
    <2>1. ASSUME phy'.payload.run = "EndReceive", phy'.payload.left > 0 PROVE FALSE
      <3>1. q.payload = phy.payload /\ phy'.payload = phy.payload
        BY <1>1, <1>2, <2>1 DEF Copied, NoEvent
      <3>2. p.endTx <= 0 /\ p.endRx = phy.payload.left /\ p.endRx > 0
        BY <2>1, <3>1 DEF SInv, Undivided
      <3>3. q.payload = NoEvent
        BY <1>1, <1>6, <3>2
      <3> QED
        BY <1>2, <2>1, <3>3 DEF Copied, NoEvent
    <2> QED
      BY <2>1
  <1>10. ~(Running(phy'.preamble) /\ phy'.current = phy'.preamble.of)
    <2>1. ASSUME Running(phy'.preamble), phy'.current = phy'.preamble.of PROVE FALSE
      <3>1. q.preamble = phy.preamble /\ phy'.preamble = phy.preamble
            /\ phy'.current = phy.current
        BY <1>1, <1>2, <2>1, NoEventType DEF Copied
      <3>2. p.endTx <= 0
        BY <2>1, <3>1 DEF SInv, Undivided
      <3>3. q.preamble = NoEvent
        BY <1>1, <1>4, <1>6, <2>1, <3>1, <3>2
      <3> QED
        BY <2>1, <3>1, <3>3, NoEventType
    <2> QED
      BY <2>1
  <1> QED
    BY <1>8, <1>9, <1>10 DEF SInv

LEMMA TickStays ==
    ASSUME TInv, SInv, Tick
    PROVE  SInv'
  <1>1. /\ phy'.endTx = Closer(phy.endTx) /\ phy'.endRx = Closer(phy.endRx)
        /\ phy'.endSwitching = Closer(phy.endSwitching)
        /\ phy'.preamble = Sooner(phy.preamble) /\ phy'.header = Sooner(phy.header)
        /\ phy'.payload = Sooner(phy.payload) /\ phy'.current = phy.current
        /\ \A e \in {phy.preamble, phy.header, phy.payload} : Running(e) =>
             /\ e.left > 0 /\ Running(Sooner(e)) /\ Sooner(e).left = e.left - 1
             /\ Sooner(e).run = e.run /\ Sooner(e).of = e.of
        /\ \A e \in {phy.preamble, phy.header, phy.payload} : ~Running(e) => Sooner(e) = e
    BY TypedEvents, ElapseFacts DEF TInv, Tick
  <1>2. \A s \in Signals : Referenced(phy, s) => air'[s].recorded = air[s].recorded
    BY TypedEvents, ElapseAirFacts DEF TInv, Tick
  <1>3. phy.endTx \in Int /\ phy.endRx \in Int /\ phy.endSwitching \in Int /\ Alive
    BY TypedEvents DEF TInv, IsPhy, Tick
  <1>4. ASSUME NEW e \in {phy.preamble, phy.header, phy.payload}, Running(e),
               Undivided(phy, air, e.of)
        PROVE  Undivided(phy', air', e.of)
    <2>1. e.of \in Signals /\ Referenced(phy, e.of)
      BY <1>4, TypedEvents DEF TInv, Referenced
    <2> QED
      BY <1>1, <1>2, <1>3, <1>4, <2>1 DEF Undivided, Closer
  <1>5. ASSUME phy'.payload.run = "EndReceive", phy'.payload.left > 0
        PROVE  Undivided(phy', air', phy'.payload.of) /\ phy'.endRx = phy'.payload.left
    <2>1. /\ Running(phy.payload) /\ phy.payload.run = "EndReceive"
          /\ phy.payload.left > 0 /\ phy'.payload.of = phy.payload.of
          /\ phy'.payload.left = phy.payload.left - 1
      BY <1>1, <1>5 DEF Running
    <2>2. Undivided(phy, air, phy.payload.of) /\ phy.endRx = phy.payload.left
      BY <1>3, <2>1 DEF SInv
    <2> QED
      BY <1>1, <1>4, <2>1, <2>2 DEF Closer
  <1>6. ASSUME Running(phy'.header), air'[phy'.header.of].recorded
        PROVE  Undivided(phy', air', phy'.header.of)
    <2>1. Running(phy.header) /\ phy'.header.of = phy.header.of
      BY <1>1, <1>6
    <2>2. air[phy.header.of].recorded
      BY <1>2, <1>6, <2>1, TypedEvents DEF TInv, Referenced
    <2> QED
      BY <1>3, <1>4, <2>1, <2>2 DEF SInv
  <1>7. ASSUME Running(phy'.preamble), phy'.current = phy'.preamble.of
        PROVE  Undivided(phy', air', phy'.preamble.of)
    <2>1. /\ Running(phy.preamble) /\ phy'.preamble.of = phy.preamble.of
          /\ phy.current = phy.preamble.of
      BY <1>1, <1>7
    <2> QED
      BY <1>3, <1>4, <2>1 DEF SInv
  <1> QED
    BY <1>5, <1>6, <1>7 DEF SInv

LEMMA NextStays ==
    ASSUME ~CanInterrupt, TInv, SInv, [Next]_vars
    PROVE  SInv'
  <1>1. ASSUME NEW s \in Signals, NEW power \in Powers, NEW d \in FrameDurations,
               FrameArrives(s, d, power)
        PROVE  SInv'
    BY <1>1, FrameArrivesStays
  <1>2. ASSUME NEW s \in Signals, NEW power \in Powers, NEW d \in NoiseDurations,
               NoiseArrives(s, d, power)
        PROVE  SInv'
    BY <1>2, NoiseArrivesStays
  <1>3. ASSUME NEW b \in BOOLEAN, PreambleEnds(b) \/ HeaderStarts(b) \/ PayloadStarts(b)
        PROVE  SInv'
    BY <1>3, PreambleEndsStays, HeaderStartsStays, PayloadStartsStays
  <1>4. CASE UnreceivedFrameEnds
    BY <1>4, UnreceivedFrameEndsStays
  <1>5. CASE NotifyTxEnd
    BY <1>5, NotifyTxEndStays
  <1>6. ASSUME NEW ok \in BOOLEAN, NEW reaction \in Reactions, FrameEnds(ok, reaction)
        PROVE  SInv'
    BY <1>6, FrameEndsStays
  <1>7. ASSUME NEW d \in TxDurations, StartTransmission(d)
        PROVE  SInv'
    BY <1>7, StartTransmissionStays
  <1>8. CASE SwitchChannel
    BY <1>8, SwitchStays, TypedEvents, PhyAssumption DEF SwitchChannel, MaySwitch, TInv
  <1>9. CASE PostponedSwitch
    <2>1. IsPhy(phy)
      BY TypedEvents DEF TInv
    <2> QED
      BY <1>9, <2>1, SwitchStays, PostponedIsPhy, PhyAssumption DEF PostponedSwitch
  <1>10. CASE Tick
    BY <1>10, TickStays
  <1>11. CASE UNCHANGED vars
    BY <1>11 DEF vars, SInv, Alive
  <1> QED
    BY <1>1, <1>2, <1>3, <1>4, <1>5, <1>6, <1>7, <1>8, <1>9, <1>10, <1>11
       DEF Next, Reception

\* No payload is received of a frame that was sent on another channel, as long
\* as the MAC interrupts at most the detection of a preamble: a channel switch
\* before the end of a payload finds the PHY receiving, and cancels it.
THEOREM ReceivedWhereItWasSent ==
    ASSUME ~CanInterrupt
    PROVE  Spec => []ReceivedOnThisChannel
  <1>1. Init => TInv /\ SInv
    <2>1. Init => SInv
      BY DEF Init, PhyInit, SInv, NoEvent, Running
    <2> QED
      BY <2>1, InitTypes
  <1>2. (TInv /\ SInv) /\ [Next]_vars => (TInv /\ SInv)'
    BY NextTypes, NextStays
  <1>3. TInv /\ SInv => ReceivedOnThisChannel
    BY DEF SInv, ReceivedOnThisChannel, Undivided
  <1> QED
    BY <1>1, <1>2, <1>3, PTL DEF Spec

---------------------------------------------------------------------------
(* The power on the air is a sum over signals, which grows with the set of *)
(* signals and depends on nothing else.                                    *)

PowerOf(a, X) == MapThenSumSet(LAMBDA s : a[s].power, X)

Summed(a, f, X) ==
    IF X = {} THEN 0 ELSE a[CHOOSE x \in X : TRUE].power + f[X \ {CHOOSE x \in X : TRUE}]

IsSum(a, f, Y) == f = [X \in SUBSET Y |-> Summed(a, f, X)]

\* What holds of a finite set of signals if it does of its proper subsets
\* holds of all: a set without it would have a smallest subset without it.
LEMMA SmallestSet ==
    ASSUME NEW Y, IsFiniteSet(Y), NEW T \in SUBSET SUBSET Y, T # {}
    PROVE  \E X \in T : \A Z \in SUBSET X : Z # X => Z \notin T
  <1>1. IsWellFoundedOn(StrictSubsetOrdering(Y), SUBSET Y)
    BY FS_StrictSubsetOrderingWellFounded, FS_FiniteSubsetsOfFinite
  <1>2. PICK X \in T : \A Z \in T : ~(<<Z, X>> \in StrictSubsetOrdering(Y))
    BY <1>1, WFMin
  <1>3. ASSUME NEW Z \in SUBSET X, Z # X, Z \in T PROVE FALSE
    <2>1. <<Z, X>> \in StrictSubsetOrdering(Y)
      BY <1>3 DEF StrictSubsetOrdering
    <2> QED
      BY <1>2, <1>3, <2>1
  <1> QED
    BY <1>2, <1>3

LEMMA SumUnique ==
    ASSUME NEW Y, IsFiniteSet(Y), NEW a, NEW f, NEW g, IsSum(a, f, Y), IsSum(a, g, Y)
    PROVE  \A X \in SUBSET Y : f[X] = g[X]
  <1> DEFINE T == {X \in SUBSET Y : f[X] # g[X]}
  <1> SUFFICES ASSUME T # {} PROVE FALSE
    OBVIOUS
  <1>1. PICK X \in T : \A Z \in SUBSET X : Z # X => Z \notin T
    <2> HIDE DEF T
    <2>1. T \in SUBSET SUBSET Y
      BY DEF T
    <2> QED
      BY <2>1, SmallestSet
  <1>2. X \in SUBSET Y /\ f[X] # g[X]
    OBVIOUS
  <1>3. f[X] = Summed(a, f, X) /\ g[X] = Summed(a, g, X)
    BY <1>2 DEF IsSum
  <1>4. X # {}
    BY <1>2, <1>3 DEF Summed
  <1> DEFINE x == CHOOSE y \in X : TRUE
  <1>5. x \in X
    BY <1>4
  <1>6. f[X \ {x}] = g[X \ {x}]
    BY <1>1, <1>2, <1>5
  <1> QED
    BY <1>2, <1>3, <1>4, <1>6 DEF Summed

\* The function that the definition of the sum chooses exists.
LEMMA SumExists ==
    ASSUME NEW Y, IsFiniteSet(Y), NEW a
    PROVE  \A X \in SUBSET Y : \E f : IsSum(a, f, X)
  <1> DEFINE T == {X \in SUBSET Y : ~\E f : IsSum(a, f, X)}
  <1> SUFFICES ASSUME T # {} PROVE FALSE
    OBVIOUS
  <1>1. PICK X \in T : \A Z \in SUBSET X : Z # X => Z \notin T
    <2> HIDE DEF T
    <2>1. T \in SUBSET SUBSET Y
      BY DEF T
    <2> QED
      BY <2>1, SmallestSet
  <1>2. X \in SUBSET Y /\ ~\E f : IsSum(a, f, X)
    OBVIOUS
  <1> DEFINE F(Z) == CHOOSE f : IsSum(a, f, Z)
             V(Z) == F(Z)[Z]
             g == [Z \in SUBSET X |->
                     IF Z = {} THEN 0
                     ELSE a[CHOOSE x \in Z : TRUE].power + V(Z \ {CHOOSE x \in Z : TRUE})]
  <1>3. ASSUME NEW Z \in SUBSET X, Z # X PROVE IsSum(a, F(Z), Z)
    <2>1. \E f : IsSum(a, f, Z)
      BY <1>1, <1>2, <1>3
    <2> QED
      BY <2>1
  <1>4. ASSUME NEW Z \in SUBSET X, Z # X PROVE g[Z] = V(Z)
    <2>1. V(Z) = Summed(a, F(Z), Z)
      <3>1. IsSum(a, F(Z), Z)
        BY <1>3, <1>4
      <3> HIDE DEF F
      <3> QED
        BY <3>1 DEF IsSum
    <2>2. CASE Z = {}
      BY <2>1, <2>2 DEF Summed
    <2>3. CASE Z # {}
      <3> DEFINE x == CHOOSE y \in Z : TRUE
                 W == Z \ {x}
      <3>1. x \in Z /\ W \in SUBSET Z /\ W \in SUBSET X /\ W # X
        BY <1>4, <2>3
      <3>2. IsSum(a, F(Z), Z) /\ IsSum(a, F(W), W)
        BY <1>3, <1>4, <3>1
      <3>3. IsSum(a, [U \in SUBSET W |-> F(Z)[U]], W)
        <4> HIDE DEF F, V, g, x
        <4>1. ASSUME NEW U \in SUBSET W
              PROVE  F(Z)[U] = Summed(a, [R \in SUBSET W |-> F(Z)[R]], U)
          <5>1. F(Z)[U] = Summed(a, F(Z), U)
            BY <3>1, <3>2, <4>1 DEF IsSum
          <5>2. U \ {CHOOSE y \in U : TRUE} \in SUBSET W
            OBVIOUS
          <5> QED
            BY <5>1, <5>2 DEF Summed
        <4> QED
          BY <4>1 DEF IsSum
      <3>4. F(Z)[W] = F(W)[W]
        <4>1. IsFiniteSet(W)
          BY <1>2, <3>1, FS_Subset
        <4> HIDE DEF F, V, g, W
        <4>2. W \in SUBSET W /\ [U \in SUBSET W |-> F(Z)[U]][W] = F(Z)[W]
          OBVIOUS
        <4> QED
          BY <3>2, <3>3, <4>1, <4>2, SumUnique
      <3>5. g[Z] = a[x].power + V(W)
        BY <2>3
      <3>6. V(Z) = a[x].power + F(Z)[W]
        BY <2>1, <2>3 DEF Summed
      <3> QED
        BY <3>4, <3>5, <3>6
    <2> QED
      BY <2>2, <2>3
  <1>5. ASSUME NEW Z \in SUBSET X PROVE g[Z] = Summed(a, g, Z)
    <2>1. CASE Z = {}
      BY <2>1 DEF Summed
    <2>2. CASE Z # {}
      <3> DEFINE x == CHOOSE y \in Z : TRUE
                 W == Z \ {x}
      <3>1. W \in SUBSET X /\ W # X
        BY <1>5, <2>2
      <3>2. g[W] = V(W)
        BY <1>4, <3>1
      <3>3. g[Z] = a[x].power + V(W)
        BY <1>5, <2>2
      <3> QED
        BY <2>2, <3>2, <3>3 DEF Summed
    <2> QED
      BY <2>1, <2>2
  <1>6. IsSum(a, g, X)
    <2>1. g = [Z \in SUBSET X |-> g[Z]]
      OBVIOUS
    <2> HIDE DEF g
    <2> QED
      BY <1>5, <2>1 DEF IsSum
  <1> QED
    BY <1>2, <1>6

LEMMA PowerOfIsSum ==
    ASSUME NEW a, NEW Y
    PROVE  PowerOf(a, Y) = (CHOOSE f : IsSum(a, f, Y))[Y]
  BY DEF PowerOf, IsSum, Summed, MapThenSumSet, MapThenFoldSet

\* The sum of nothing, and of more than nothing in the order of the code.
LEMMA PowerOfChosen ==
    ASSUME NEW Y, IsFiniteSet(Y), NEW a
    PROVE  /\ Y = {} => PowerOf(a, Y) = 0
           /\ Y # {} =>
                PowerOf(a, Y) = a[CHOOSE x \in Y : TRUE].power
                                  + PowerOf(a, Y \ {CHOOSE x \in Y : TRUE})
  <1> DEFINE F(Z) == CHOOSE f : IsSum(a, f, Z)
             x == CHOOSE y \in Y : TRUE
             W == Y \ {x}
  <1>1. IsSum(a, F(Y), Y) /\ IsSum(a, F(W), W)
    BY SumExists
  <1>2. PowerOf(a, Y) = F(Y)[Y] /\ PowerOf(a, W) = F(W)[W]
    BY PowerOfIsSum
  <1> HIDE DEF F
  <1>3. F(Y)[Y] = Summed(a, F(Y), Y)
    BY <1>1 DEF IsSum
  <1>4. CASE Y = {}
    BY <1>2, <1>3, <1>4 DEF Summed
  <1>5. CASE Y # {}
    <2>1. W \in SUBSET Y /\ IsFiniteSet(W)
      BY FS_Subset
    <2>2. PowerOf(a, Y) = a[x].power + F(Y)[W]
      BY <1>2, <1>3, <1>5 DEF Summed
    <2> DEFINE h == [U \in SUBSET W |-> F(Y)[U]]
    <2>3. IsSum(a, h, W)
      <3> HIDE DEF x
      <3>1. ASSUME NEW U \in SUBSET W
            PROVE  h[U] = Summed(a, h, U)
        <4>1. F(Y)[U] = Summed(a, F(Y), U)
          BY <1>1, <3>1 DEF IsSum
        <4>2. U \ {CHOOSE y \in U : TRUE} \in SUBSET W
          OBVIOUS
        <4> QED
          BY <4>1, <4>2 DEF Summed
      <3>2. h = [U \in SUBSET W |-> h[U]]
        OBVIOUS
      <3> HIDE DEF h
      <3> QED
        BY <3>1, <3>2 DEF IsSum
    <2>4. h[W] = F(Y)[W] /\ W \in SUBSET W
      OBVIOUS
    <2>5. h[W] = F(W)[W]
      <3> HIDE DEF h, W
      <3> QED
        BY <1>1, <2>1, <2>3, <2>4, SumUnique
    <2> HIDE DEF h, W, x
    <2>6. PowerOf(a, Y) = a[x].power + PowerOf(a, W)
      BY <1>2, <2>2, <2>4, <2>5
    <2> QED
      BY <1>5, <2>6 DEF W, x
  <1> QED
    BY <1>4, <1>5

Powered(a, Y) == \A x \in Y : a[x].power \in Nat

LEMMA PowerOfType ==
    ASSUME NEW Y, IsFiniteSet(Y), NEW a, Powered(a, Y)
    PROVE  \A X \in SUBSET Y : PowerOf(a, X) \in Nat
  <1> DEFINE T == {X \in SUBSET Y : PowerOf(a, X) \notin Nat}
  <1> SUFFICES ASSUME T # {} PROVE FALSE
    OBVIOUS
  <1>1. PICK X \in T : \A Z \in SUBSET X : Z # X => Z \notin T
    <2>1. T \in SUBSET SUBSET Y
      OBVIOUS
    <2> HIDE DEF T
    <2> QED
      BY <2>1, SmallestSet
  <1>2. X \in SUBSET Y /\ PowerOf(a, X) \notin Nat /\ IsFiniteSet(X)
    BY FS_Subset
  <1> DEFINE x == CHOOSE y \in X : TRUE
  <1>3. X # {}
    <2>1. X = {} => PowerOf(a, X) = 0
      BY <1>2, PowerOfChosen
    <2> QED
      BY <1>2, <2>1
  <1>4. x \in X /\ a[x].power \in Nat
    BY <1>2, <1>3 DEF Powered
  <1>5. PowerOf(a, X \ {x}) \in Nat
    BY <1>1, <1>2, <1>4
  <1>6. PowerOf(a, X) = a[x].power + PowerOf(a, X \ {x})
    BY <1>2, <1>3, PowerOfChosen
  <1> QED
    BY <1>2, <1>4, <1>5, <1>6

\* The order does not matter.
LEMMA PowerOfAny ==
    ASSUME NEW Y, IsFiniteSet(Y), NEW a, Powered(a, Y)
    PROVE  \A X \in SUBSET Y : \A y \in X :
             PowerOf(a, X) = a[y].power + PowerOf(a, X \ {y})
  <1> DEFINE Any(X) == \A y \in X : PowerOf(a, X) = a[y].power + PowerOf(a, X \ {y})
             T == {X \in SUBSET Y : ~Any(X)}
  <1> SUFFICES ASSUME T # {} PROVE FALSE
    OBVIOUS
  <1>1. PICK X \in T : \A Z \in SUBSET X : Z # X => Z \notin T
    <2>1. T \in SUBSET SUBSET Y
      OBVIOUS
    <2> HIDE DEF T
    <2> QED
      BY <2>1, SmallestSet
  <1>2. X \in SUBSET Y /\ ~Any(X) /\ IsFiniteSet(X)
    BY FS_Subset
  <1>3. PICK y \in X : PowerOf(a, X) # a[y].power + PowerOf(a, X \ {y})
    BY <1>2
  <1> DEFINE x == CHOOSE z \in X : TRUE
  <1>4. x \in X
    OBVIOUS
  <1>5. PowerOf(a, X) = a[x].power + PowerOf(a, X \ {x})
    BY <1>2, <1>4, PowerOfChosen
  <1> HIDE DEF x
  <1>6. x # y
    BY <1>3, <1>5
  <1>7. Any(X \ {x}) /\ Any(X \ {y})
    <2>1. X \ {x} \in SUBSET Y /\ X \ {y} \in SUBSET Y /\ X \ {x} # X /\ X \ {y} # X
      BY <1>2, <1>4
    <2>2. X \ {x} \notin T /\ X \ {y} \notin T
      BY <1>1, <2>1
    <2> QED
      BY <2>1, <2>2
  <1> DEFINE R == (X \ {x}) \ {y}
  <1>8. R = (X \ {y}) \ {x} /\ R \in SUBSET Y
    BY <1>2
  <1>9. PowerOf(a, X \ {x}) = a[y].power + PowerOf(a, R)
    BY <1>6, <1>7
  <1>10. PowerOf(a, X \ {y}) = a[x].power + PowerOf(a, R)
    BY <1>4, <1>6, <1>7, <1>8
  <1>11. PowerOf(a, R) \in Nat /\ a[x].power \in Nat /\ a[y].power \in Nat
    BY <1>2, <1>4, <1>8, PowerOfType DEF Powered
  <1> HIDE DEF R
  <1> QED
    BY <1>3, <1>5, <1>9, <1>10, <1>11

\* Fewer signals have less power together.
LEMMA PowerOfFewer ==
    ASSUME NEW Y, IsFiniteSet(Y), NEW a, Powered(a, Y)
    PROVE  \A X \in SUBSET Y : \A Z \in SUBSET X : PowerOf(a, Z) <= PowerOf(a, X)
  <1> DEFINE Grows(X) == \A Z \in SUBSET X : PowerOf(a, Z) <= PowerOf(a, X)
             T == {X \in SUBSET Y : ~Grows(X)}
  <1> SUFFICES ASSUME T # {} PROVE FALSE
    OBVIOUS
  <1>1. PICK X \in T : \A Z \in SUBSET X : Z # X => Z \notin T
    <2>1. T \in SUBSET SUBSET Y
      OBVIOUS
    <2> HIDE DEF T
    <2> QED
      BY <2>1, SmallestSet
  <1>2. PICK Z \in SUBSET X : ~(PowerOf(a, Z) <= PowerOf(a, X))
    OBVIOUS
  <1>3. X \in SUBSET Y /\ Z \in SUBSET Y /\ PowerOf(a, X) \in Nat /\ PowerOf(a, Z) \in Nat
    <2>1. X \in SUBSET Y /\ Z \in SUBSET Y
      OBVIOUS
    <2> QED
      BY <2>1, PowerOfType
  <1>4. PICK y \in X : y \notin Z
    BY <1>2, <1>3
  <1>5. PowerOf(a, X) = a[y].power + PowerOf(a, X \ {y})
    BY <1>3, PowerOfAny
  <1>6. Grows(X \ {y})
    <2>1. X \ {y} \in SUBSET X /\ X \ {y} # X /\ X \ {y} \in SUBSET Y
      BY <1>3, <1>4
    <2>2. X \ {y} \notin T
      BY <1>1, <2>1
    <2> QED
      BY <2>1, <2>2
  <1>7. PowerOf(a, Z) <= PowerOf(a, X \ {y}) /\ PowerOf(a, X \ {y}) \in Nat
        /\ a[y].power \in Nat
    <2>1. Z \in SUBSET (X \ {y}) /\ X \ {y} \in SUBSET Y
      BY <1>3, <1>4
    <2> QED
      BY <1>3, <1>6, <2>1, PowerOfType DEF Powered
  <1> QED
    BY <1>2, <1>3, <1>5, <1>7

\* The sum looks at nothing but the power of its signals.
LEMMA PowerOfSame ==
    ASSUME NEW Y, IsFiniteSet(Y), NEW a, NEW b, \A x \in Y : a[x].power = b[x].power
    PROVE  PowerOf(a, Y) = PowerOf(b, Y)
  <1> DEFINE T == {X \in SUBSET Y : PowerOf(a, X) # PowerOf(b, X)}
  <1> SUFFICES ASSUME T # {} PROVE FALSE
    BY Y \in SUBSET Y
  <1>1. PICK X \in T : \A Z \in SUBSET X : Z # X => Z \notin T
    <2>1. T \in SUBSET SUBSET Y
      OBVIOUS
    <2> HIDE DEF T
    <2> QED
      BY <2>1, SmallestSet
  <1>2. X \in SUBSET Y /\ PowerOf(a, X) # PowerOf(b, X) /\ IsFiniteSet(X)
    BY FS_Subset
  <1>3. X # {}
    BY <1>2, PowerOfChosen
  <1> DEFINE x == CHOOSE y \in X : TRUE
  <1>4. x \in X /\ a[x].power = b[x].power
    BY <1>2, <1>3
  <1>5. PowerOf(a, X \ {x}) = PowerOf(b, X \ {x})
    BY <1>1, <1>2, <1>4
  <1>6. /\ PowerOf(a, X) = a[x].power + PowerOf(a, X \ {x})
        /\ PowerOf(b, X) = b[x].power + PowerOf(b, X \ {x})
    BY <1>2, <1>3, PowerOfChosen
  <1> QED
    BY <1>2, <1>4, <1>5, <1>6

---------------------------------------------------------------------------
(* How long there is energy on the air.                                    *)

OnAir(a, t) == {s \in Signals : a[s].left > t}

LEMMA OnAirFacts ==
    ASSUME NEW a \in AirType, NEW t
    PROVE  /\ PowerAfter(a, t) = PowerOf(a, OnAir(a, t))
           /\ IsFiniteSet(OnAir(a, t)) /\ Powered(a, OnAir(a, t))
           /\ IsFiniteSet(Signals) /\ Powered(a, Signals)
  <1>1. IsFiniteSet(Signals) /\ OnAir(a, t) \in SUBSET Signals
    BY PhyAssumption DEF OnAir
  <1>2. IsFiniteSet(OnAir(a, t))
    BY <1>1, FS_Subset
  <1>3. Powered(a, Signals) /\ Powered(a, OnAir(a, t))
    BY <1>1 DEF AirType, Powered
  <1> QED
    BY <1>1, <1>2, <1>3 DEF PowerAfter, PowerOf, OnAir

\* It falls below the threshold at that moment and at none before.
LEMMA EnergyDurationIsLeast ==
    ASSUME NEW a \in AirType
    PROVE  /\ GetEnergyDuration(a) \in Nat
           /\ PowerAfter(a, GetEnergyDuration(a)) < CcaEdThreshold
           /\ \A t \in Nat : PowerAfter(a, t) < CcaEdThreshold => GetEnergyDuration(a) <= t
  <1> DEFINE T == {0} \cup {a[s].left : s \in {r \in Signals : a[r].left > 0}}
             D == {t \in T : PowerAfter(a, t) < CcaEdThreshold}
             E == GetEnergyDuration(a)
  <1>1. T \in SUBSET Nat /\ E \in Nat /\ E = Min(D) /\ \A s \in Signals : a[s].left \in Int
    BY EnergyDurationType DEF AirType, GetEnergyDuration
  <1>2. D # {}
    <2>1. PICK b \in Nat : \A s \in Signals : a[s].left <= b
      BY SignalsEnd
    <2>2. PICK m \in T : \A u \in T : u <= m
      <3>1. \A u \in T : u <= b
        BY <2>1
      <3>2. T # {}
        OBVIOUS
      <3> HIDE DEF T
      <3> QED
        BY <1>1, <2>1, <3>1, <3>2, GreatestNatural
    <2>3. \A s \in Signals : a[s].left <= m
      BY <1>1, <2>2
    <2>4. PowerAfter(a, m) = 0
      BY <1>1, <2>3, NoPowerOfNone
    <2> QED
      BY <2>4, PhyAssumption
  <1>3. E \in D /\ \A t \in D : E <= t
    <2>1. D \in SUBSET Nat
      BY <1>1
    <2> HIDE DEF D, E
    <2> QED
      BY <1>1, <1>2, <2>1, LeastNatural
  <1>4. ASSUME NEW t \in Nat, PowerAfter(a, t) < CcaEdThreshold PROVE E <= t
    <2> DEFINE C == {u \in T : u <= t}
    <2>1. PICK m \in C : \A u \in C : u <= m
      <3>1. C \in SUBSET Nat /\ 0 \in C /\ \A u \in C : u <= t
        BY <1>1
      <3> HIDE DEF C
      <3> QED
        BY <3>1, GreatestNatural
    <2>2. m \in T /\ m \in Nat /\ m <= t
      BY <1>1
    <2>3. OnAir(a, m) = OnAir(a, t)
      <3>1. ASSUME NEW s \in Signals PROVE a[s].left > m <=> a[s].left > t
        <4>1. a[s].left > 0 /\ a[s].left <= t => a[s].left \in C
          OBVIOUS
        <4>2. a[s].left > 0 /\ a[s].left <= t => a[s].left <= m
          BY <2>1, <4>1
        <4> HIDE DEF C, T
        <4> QED
          BY <1>1, <2>2, <4>2
      <3> QED
        BY <3>1 DEF OnAir
    <2>4. m \in D
      BY <1>4, <2>2, <2>3, OnAirFacts
    <2> HIDE DEF D, T, C, E
    <2> QED
      BY <1>1, <1>3, <2>2, <2>4
  <1> QED
    BY <1>1, <1>3, <1>4

\* A signal that arrives extends it to its own end at most.
LEMMA EnergyOfArrival ==
    ASSUME NEW a \in AirType, NEW b \in AirType, NEW s \in Signals, a[s].left <= 0,
           b[s].left \in Nat, \A r \in Signals : r # s => b[r] = a[r]
    PROVE  \/ GetEnergyDuration(b) <= GetEnergyDuration(a)
           \/ GetEnergyDuration(b) <= b[s].left
  <1> DEFINE t == GetEnergyDuration(a)
  <1>1. t \in Nat /\ PowerAfter(a, t) < CcaEdThreshold
    BY EnergyDurationIsLeast
  <1>2. /\ a[s].left \in Int /\ \A r \in Signals : a[r].left \in Int
    BY DEF AirType
  <1> HIDE DEF t
  <1>3. ASSUME NEW u \in Nat, u >= t, u >= b[s].left
        PROVE  GetEnergyDuration(b) <= u
    <2>1. s \notin OnAir(b, u) /\ OnAir(b, u) = OnAir(a, u)
      BY <1>2, <1>3 DEF OnAir
    <2>2. OnAir(a, u) \in SUBSET OnAir(a, t) /\ OnAir(a, t) \in SUBSET Signals
      BY <1>1, <1>2, <1>3 DEF OnAir
    <2>3. PowerOf(b, OnAir(b, u)) = PowerOf(a, OnAir(a, u))
      <3>1. \A x \in OnAir(b, u) : b[x].power = a[x].power
        BY <2>1 DEF OnAir
      <3>2. IsFiniteSet(OnAir(b, u))
        BY OnAirFacts
      <3> QED
        BY <2>1, <3>1, <3>2, PowerOfSame
    <2>4. /\ PowerOf(a, OnAir(a, u)) <= PowerOf(a, OnAir(a, t))
          /\ PowerOf(a, OnAir(a, u)) \in Nat /\ PowerOf(a, OnAir(a, t)) \in Nat
      <3>1. IsFiniteSet(Signals) /\ Powered(a, Signals)
        BY OnAirFacts
      <3>2. OnAir(a, u) \in SUBSET Signals
        BY <2>2
      <3> QED
        BY <2>2, <3>1, <3>2, PowerOfFewer, PowerOfType
    <2>5. PowerAfter(b, u) < CcaEdThreshold
      BY <1>1, <2>3, <2>4, OnAirFacts, PhyAssumption
    <2> QED
      BY <2>5, EnergyDurationIsLeast
  <1>4. CASE t >= b[s].left
    BY <1>1, <1>3, <1>4 DEF t
  <1>5. CASE ~(t >= b[s].left)
    BY <1>1, <1>3, <1>5
  <1> QED
    BY <1>4, <1>5

\* It elapses with time.
LEMMA EnergyElapses ==
    ASSUME NEW p, NEW a \in AirType, NEW b, b = ElapseAir(p, a)
    PROVE  /\ GetEnergyDuration(a) = 0 => GetEnergyDuration(b) = 0
           /\ GetEnergyDuration(a) > 0 => GetEnergyDuration(b) <= GetEnergyDuration(a) - 1
  <1> DEFINE t == GetEnergyDuration(a)
  <1>1. t \in Nat /\ PowerAfter(a, t) < CcaEdThreshold
    BY EnergyDurationIsLeast
  <1> HIDE DEF t
  <1>2. b \in AirType /\ \A s \in Signals : a[s].left \in Int
    BY ElapseAirFacts DEF AirType
  <1>3. ASSUME NEW s \in Signals
        PROVE  /\ a[s].left > 0 => b[s].left = a[s].left - 1 /\ b[s].power = a[s].power
               /\ a[s].left <= 0 => b[s].left = -1
    <2>1. b[s] = IF a[s].left <= 0 /\ ~Referenced(p, s) THEN Silence
                 ELSE [a[s] EXCEPT !.left = Closer(@)]
      BY DEF ElapseAir
    <2>2. a[s] \in [left : Int, power : Nat, recorded : BOOLEAN]
      BY DEF AirType
    <2>3. CASE a[s].left <= 0 /\ ~Referenced(p, s)
      BY <1>2, <2>1, <2>3 DEF Silence
    <2>4. CASE ~(a[s].left <= 0 /\ ~Referenced(p, s))
      <3>1. b[s].left = Closer(a[s].left) /\ b[s].power = a[s].power
        BY <2>1, <2>2, <2>4
      <3> QED
        BY <1>2, <3>1 DEF Closer
    <2> QED
      BY <2>3, <2>4
  <1>4. ASSUME NEW u \in Nat, u + 1 >= t PROVE GetEnergyDuration(b) <= u
    <2>1. OnAir(b, u) = OnAir(a, u + 1)
      BY <1>2, <1>3 DEF OnAir
    <2>2. OnAir(a, u + 1) \in SUBSET OnAir(a, t) /\ OnAir(a, t) \in SUBSET Signals
      BY <1>1, <1>2, <1>4 DEF OnAir
    <2>3. PowerOf(b, OnAir(b, u)) = PowerOf(a, OnAir(a, u + 1))
      <3>1. \A x \in OnAir(b, u) : b[x].power = a[x].power
        BY <1>2, <1>3, <2>1 DEF OnAir
      <3>2. IsFiniteSet(OnAir(b, u))
        BY <1>2, OnAirFacts
      <3> QED
        BY <2>1, <3>1, <3>2, PowerOfSame
    <2>4. /\ PowerOf(a, OnAir(a, u + 1)) <= PowerOf(a, OnAir(a, t))
          /\ PowerOf(a, OnAir(a, u + 1)) \in Nat /\ PowerOf(a, OnAir(a, t)) \in Nat
      <3>1. IsFiniteSet(Signals) /\ Powered(a, Signals)
        BY OnAirFacts
      <3>2. OnAir(a, u + 1) \in SUBSET Signals
        BY <2>2
      <3> QED
        BY <2>2, <3>1, <3>2, PowerOfFewer, PowerOfType
    <2>5. PowerAfter(b, u) < CcaEdThreshold
      BY <1>1, <1>2, <2>3, <2>4, OnAirFacts, PhyAssumption
    <2> QED
      BY <1>2, <2>5, EnergyDurationIsLeast
  <1>5. GetEnergyDuration(b) \in Nat
    BY <1>2, EnergyDurationIsLeast
  <1>6. t = 0 => GetEnergyDuration(b) <= 0
    BY <1>4
  <1>7. t > 0 => GetEnergyDuration(b) <= t - 1
    BY <1>1, <1>4
  <1> QED
    BY <1>1, <1>5, <1>6, <1>7 DEF t

---------------------------------------------------------------------------
(* A PHY that never changes channels and whose MAC sends on an idle medium *)
(* only: energy is either no longer on the air than the PHY is busy, or a  *)
(* stage of a reception runs, at whose end the PHY looks at it.            *)

Covered(p, a) == \E e \in {0, p.endTx, p.endRx, p.endCca} : GetEnergyDuration(a) <= e

Watched(p, a) ==
    \/ /\ Running(p.preamble)
       /\ p.endCca <= 0 \/ GetEnergyDuration(a) <= a[p.preamble.of].left
    \/ /\ p.header.run = "ContinueReceiveHeader"
       /\ p.endCca <= p.header.left \/ GetEnergyDuration(a) <= a[p.header.of].left
    \/ p.header.run = "StartReceivePayload"
    \/ Running(p.payload)

QInv == Covered(phy, air) \/ Watched(phy, air)

LEMMA CoveredKept ==
    ASSUME NEW p, NEW q, NEW a, Covered(p, a), IsPhy(p), IsPhy(q), a \in AirType,
           q.endTx = p.endTx, q.endRx = p.endRx, q.endCca >= p.endCca
    PROVE  Covered(q, a)
  <1>1. p.endCca \in Int /\ q.endCca \in Int /\ GetEnergyDuration(a) \in Nat
    BY EnergyDurationIsLeast DEF IsPhy
  <1> QED
    BY <1>1 DEF Covered

\* The PHY looks at the energy unless it receives.
LEMMA MaybeCovers ==
    ASSUME NEW p, IsPhy(p), NEW a \in AirType, GetState(p) # "RX",
           NEW q, q = MaybeCcaBusyDuration(p, a)
    PROVE  /\ Busier(p, q) /\ IsPhy(q)
           /\ GetEnergyDuration(a) <= 0 \/ GetEnergyDuration(a) <= q.endCca
           /\ Covered(q, a)
  <1> DEFINE E == GetEnergyDuration(a)
  <1>1. E \in Nat
    BY EnergyDurationIsLeast
  <1>2. Busier(p, q) /\ IsPhy(q) /\ q.endCca \in Int
    BY CcaIsBusier DEF Busier, Same, IsPhy
  <1>3. CASE E = 0
    BY <1>2, <1>3 DEF Covered
  <1>4. CASE E # 0
    <2>1. q = SwitchMaybeToCcaBusy(p, E)
      BY <1>4 DEF MaybeCcaBusyDuration
    <2> HIDE DEF E
    <2>2. q.endCca >= E
      BY <1>1, <2>1, SwitchMaybeIsBusier
    <2> QED
      BY <1>1, <1>2, <2>2 DEF Covered, E
  <1> QED
    BY <1>3, <1>4

\* With the signal's own energy looked at where it outlasts the rest, what was
\* not known of is.
LEMMA OutlastsCovers ==
    ASSUME NEW p, IsPhy(p), NEW a \in AirType, NEW s \in Signals, GetState(p) # "RX",
           p.endSwitching <= 0,
           \/ Covered(p, a)
           \/ GetEnergyDuration(a) <= a[s].left
           \/ p.endTx <= 0 /\ p.endCca <= 0 /\ a[s].left > 0,
           NEW q, q = CcaIfOutlasts(p, a, s)
    PROVE  Busier(p, q) /\ IsPhy(q) /\ Covered(q, a)
  <1>1. /\ Busier(p, q) /\ IsPhy(q) /\ q.endCca \in Int /\ p.endCca \in Int
        /\ p.endTx \in Int /\ p.endRx \in Int /\ p.endSwitching \in Int
    BY CcaIsBusier DEF Busier, Same, IsPhy
  <1>2. GetEnergyDuration(a) \in Nat /\ a[s].left \in Int
    BY EnergyDurationIsLeast DEF AirType
  <1>3. CASE Covered(p, a)
    BY <1>1, <1>3, CoveredKept DEF Busier, Same
  <1>4. CASE a[s].left > GetDelayUntilIdle(p)
    <2>1. q = MaybeCcaBusyDuration(p, a)
      BY <1>4 DEF CcaIfOutlasts
    <2> QED
      BY <1>1, <2>1, MaybeCovers
  <1>5. CASE ~(a[s].left > GetDelayUntilIdle(p)) /\ ~Covered(p, a)
    <2>1. q = p
      BY <1>5 DEF CcaIfOutlasts
    <2>2. GetDelayUntilIdle(p) \in {0, p.endTx, p.endCca} /\ GetDelayUntilIdle(p) \in Int
      BY <1>1, GetStateFacts DEF GetDelayUntilIdle
    <2>3. CASE GetEnergyDuration(a) <= a[s].left
      BY <1>1, <1>2, <1>5, <2>1, <2>2, <2>3 DEF Covered
    <2>4. CASE p.endTx <= 0 /\ p.endCca <= 0 /\ a[s].left > 0
      <3>1. GetState(p) = "IDLE"
        BY <1>1, <2>4, GetStateFacts
      <3>2. GetDelayUntilIdle(p) = 0
        BY <3>1 DEF GetDelayUntilIdle
      <3> QED
        BY <1>5, <2>4, <3>2
    <2> QED
      BY <1>5, <2>3, <2>4
  <1> QED
    BY <1>3, <1>4, <1>5

\* What is looked at while a signal arrives.
LEMMA ArrivalHeard ==
    ASSUME TInv, RInv, QInv, NEW s \in Signals, NEW d \in Nat, d > 0, NEW power \in Nat,
           Arrives(s, d, power), NEW q, q = CcaIfOutlasts(phy, air', s), Copied(q, phy')
    PROVE  QInv'
  <1>1. /\ IsPhy(phy) /\ air \in AirType /\ air' \in AirType /\ air'[s].left = d
        /\ ~Referenced(phy, s) /\ \A r \in Signals : r # s => air'[r] = air[r]
    BY TypedEvents, ArrivesFacts DEF TInv
  <1>2. /\ phy.endTx \in Int /\ phy.endRx \in Int /\ phy.endSwitching \in Int
        /\ phy.endCca \in Int /\ phy.endSwitching <= 0
    BY <1>1 DEF IsPhy, RInv, NoSwitch
  <1>3. \/ GetEnergyDuration(air') <= GetEnergyDuration(air)
        \/ GetEnergyDuration(air') <= d
    <2>1. air[s].left <= 0
      BY DEF Arrives, Silence
    <2> QED
      BY <1>1, <2>1, EnergyOfArrival
  <1>4. GetEnergyDuration(air) \in Nat /\ GetEnergyDuration(air') \in Nat
    BY <1>1, EnergyDurationIsLeast
  <1>5. Busier(phy, q) /\ q.endCca \in Int
    BY <1>1, CcaIsBusier DEF Busier, Same, IsPhy
  <1>6. /\ phy'.header = phy.header /\ phy'.preamble = phy.preamble
        /\ phy'.payload = phy.payload /\ phy'.endCca = q.endCca
        /\ phy'.endTx = phy.endTx /\ phy'.endRx = phy.endRx /\ q.endCca >= phy.endCca
    BY <1>5 DEF Copied, Busier, Same
  <1>7. ASSUME Covered(q, air') PROVE QInv'
    BY <1>5, <1>6, <1>7 DEF QInv, Covered, Copied, Busier, Same
  <1>8. CASE GetState(phy) = "RX"
    <2>1. Running(phy.payload)
      BY <1>1, <1>8, GetStateFacts DEF RInv, Undisturbed, Running
    <2> QED
      BY <1>6, <2>1 DEF QInv, Watched
  <1>9. CASE GetState(phy) # "RX" /\ d > GetDelayUntilIdle(phy)
    <2>1. q = MaybeCcaBusyDuration(phy, air')
      BY <1>1, <1>9 DEF CcaIfOutlasts
    <2> QED
      BY <1>1, <1>7, <1>9, <2>1, MaybeCovers
  <1>10. CASE GetState(phy) # "RX" /\ ~(d > GetDelayUntilIdle(phy))
    <2>1. q = phy
      BY <1>1, <1>10 DEF CcaIfOutlasts
    <2>2. GetDelayUntilIdle(phy) \in {phy.endTx, phy.endCca} /\ d <= GetDelayUntilIdle(phy)
      <3>1. GetDelayUntilIdle(phy) \in {0, phy.endTx, phy.endCca}
        BY <1>1, <1>2, <1>10, GetStateFacts DEF GetDelayUntilIdle
      <3> QED
        BY <1>2, <1>10, <3>1
    <2>3. CASE GetEnergyDuration(air') <= d
      <3>1. Covered(q, air')
        BY <1>2, <1>4, <2>1, <2>2, <2>3 DEF Covered
      <3> QED
        BY <1>7, <3>1
    <2>4. CASE GetEnergyDuration(air') <= GetEnergyDuration(air) /\ Covered(phy, air)
      <3>1. Covered(q, air')
        BY <1>2, <1>4, <2>1, <2>4 DEF Covered
      <3> QED
        BY <1>7, <3>1
    <2>5. CASE GetEnergyDuration(air') <= GetEnergyDuration(air) /\ Watched(phy, air)
      <3>1. /\ Running(phy.preamble) =>
                 /\ air'[phy.preamble.of] = air[phy.preamble.of]
                 /\ air[phy.preamble.of].left \in Int
            /\ phy.header.run = "ContinueReceiveHeader" =>
                 /\ air'[phy.header.of] = air[phy.header.of]
                 /\ air[phy.header.of].left \in Int
        BY <1>1, TypedEvents DEF TInv, Referenced, Running
      <3> QED
        BY <1>4, <1>6, <2>1, <2>5, <3>1 DEF QInv, Watched
    <2> QED
      BY <1>3, <2>3, <2>4, <2>5 DEF QInv
  <1> QED
    BY <1>8, <1>9, <1>10

\* A frame that arrives is what the PHY synchronizes to, or its energy is
\* looked at.
LEMMA FrameArrivesHeard ==
    ASSUME TInv, RInv, RInv', QInv, NEW s \in Signals, NEW d \in FrameDurations,
           NEW power \in Powers, FrameArrives(s, d, power)
    PROVE  QInv'
  <1> DEFINE q == StartReceivePreamble(phy, air', s)
  <1>1. d \in Nat /\ d > 0 /\ power \in Nat /\ Arrives(s, d, power)
    BY PhyAssumption DEF FrameArrives
  <1>2. /\ IsPhy(phy) /\ air \in AirType /\ air' \in AirType /\ air'[s].left = d
        /\ \A r \in Signals : r # s => air'[r] = air[r]
    BY <1>1, TypedEvents, ArrivesFacts DEF TInv
  <1>3. Becomes(q)
    BY DEF FrameArrives
  <1>4. /\ phy.endTx \in Int /\ phy.endRx \in Int /\ phy.endSwitching \in Int
        /\ phy.endCca \in Int
    BY <1>2 DEF IsPhy
  <1>5. CASE q = CcaIfOutlasts(phy, air', s)
    <2>1. IsPhy(q)
      BY <1>2, <1>5, CcaIsBusier DEF Busier, Same
    <2>2. Copied(CcaIfOutlasts(phy, air', s), phy')
      BY <1>3, <1>5, <2>1, BecomesFacts
    <2> QED
      BY <1>1, <2>2, ArrivalHeard
  <1>6. CASE q = phy /\ Running(phy.preamble) /\ GetState(phy) = "IDLE"
    <2>1. Copied(phy, phy')
      BY <1>2, <1>3, <1>6, BecomesFacts
    <2>2. phy.endCca <= 0
      BY <1>2, <1>4, <1>6, GetStateFacts
    <2> QED
      BY <1>6, <2>1, <2>2 DEF QInv, Watched, Copied
  <1>7. CASE Stopped(phy, q)
    <2>1. Copied(q, phy')
      BY <1>3, <1>7, BecomesFacts DEF Stopped, Same
    <2> QED
      BY <1>7, <2>1 DEF RInv, NoSwitch, Stopped, Copied
  <1>8. CASE /\ q = Synchronized(phy, s)
             /\ GetState(phy) = "IDLE" \/ (GetState(phy) = "CCA_BUSY" /\ phy.current = NoSignal)
    <2>1. /\ IsPhy(q) /\ q.preamble = Event(PreambleDetection, "StartReceiveHeader", s)
          /\ q.endTx = phy.endTx /\ q.endRx = phy.endRx /\ q.endCca = phy.endCca
      BY <1>2, <1>8, EventType, PhyAssumption DEF Synchronized, IsPhy
    <2>2. Copied(q, phy')
      BY <1>3, <2>1, BecomesFacts
    <2>3. /\ Running(phy'.preamble) /\ phy'.preamble.of = s
          /\ phy'.endTx = phy.endTx /\ phy'.endRx = phy.endRx /\ phy'.endCca = phy.endCca
      BY <2>1, <2>2 DEF Copied, Event, Running
    <2>4. CASE GetState(phy) = "IDLE"
      <3>1. phy.endCca <= 0
        BY <1>2, <1>4, <2>4, GetStateFacts
      <3> QED
        BY <2>3, <3>1 DEF QInv, Watched
    <2>5. CASE GetState(phy) = "CCA_BUSY" /\ phy.current = NoSignal
      <3>1. ~Running(phy.preamble) /\ ~Running(phy.header) /\ ~Running(phy.payload)
        BY <2>5, TypedEvents, PhyAssumption DEF TInv, RInv, OneStage
      <3>2. Covered(phy, air)
        BY <3>1 DEF QInv, Watched, Running
      <3>3. \/ GetEnergyDuration(air') <= GetEnergyDuration(air)
            \/ GetEnergyDuration(air') <= d
        <4>1. air[s].left <= 0
          BY <1>1 DEF Arrives, Silence
        <4> QED
          BY <1>1, <1>2, <4>1, EnergyOfArrival
      <3>4. GetEnergyDuration(air) \in Nat /\ GetEnergyDuration(air') \in Nat
        BY <1>2, EnergyDurationIsLeast
      <3>5. CASE GetEnergyDuration(air') <= d
        BY <1>2, <2>3, <3>5 DEF QInv, Watched
      <3>6. CASE GetEnergyDuration(air') <= GetEnergyDuration(air)
        BY <1>4, <2>3, <3>2, <3>4, <3>6 DEF QInv, Covered
      <3> QED
        BY <3>3, <3>5, <3>6
    <2> QED
      BY <1>8, <2>4, <2>5
  <1>9. \/ q = CcaIfOutlasts(phy, air', s)
        \/ q = phy /\ Running(phy.preamble) /\ GetState(phy) = "IDLE"
        \/ Stopped(phy, q)
        \/ /\ q = Synchronized(phy, s)
           /\ GetState(phy) = "IDLE" \/ (GetState(phy) = "CCA_BUSY" /\ phy.current = NoSignal)
    <2>1. /\ Stopped(phy, Require(phy, FALSE, "StartRx"))
          /\ Stopped(phy, Require(phy, FALSE, "StartReceivePreamble"))
      BY <1>2 DEF Require, Stopped, Same, IsPhy, Assertions
    <2>2. phy.current = NoSignal => ~Running(phy.preamble)
      BY TypedEvents, PhyAssumption DEF TInv, RInv, OneStage
    <2>3. \/ StartRx(phy, air', s) = phy /\ Running(phy.preamble) /\ phy.current # NoSignal
          \/ StartRx(phy, air', s) = Synchronized(phy, s)
      BY <2>2 DEF StartRx, Synchronized
    <2>4. CASE \/ GetState(phy) = "IDLE"
               \/ GetState(phy) = "CCA_BUSY" /\ phy.current = NoSignal
      <3>1. q = StartRx(phy, air', s)
        BY <2>4 DEF StartReceivePreamble
      <3> QED
        BY <2>3, <2>4, <3>1
    <2>5. CASE GetState(phy) = "RX" /\ phy.current = NoSignal
      <3>1. q = Require(phy, FALSE, "StartReceivePreamble")
        BY <2>5 DEF StartReceivePreamble
      <3> QED
        BY <2>1, <3>1
    <2>6. CASE ~(\/ GetState(phy) = "IDLE"
                 \/ GetState(phy) = "CCA_BUSY" /\ phy.current = NoSignal
                 \/ GetState(phy) = "RX" /\ phy.current = NoSignal)
      BY <2>6 DEF StartReceivePreamble
    <2> QED
      BY <2>4, <2>5, <2>6
  <1> QED
    BY <1>5, <1>6, <1>7, <1>8, <1>9

LEMMA NoiseArrivesHeard ==
    ASSUME TInv, RInv, QInv, NEW s \in Signals, NEW d \in NoiseDurations,
           NEW power \in Powers, NoiseArrives(s, d, power)
    PROVE  QInv'
  <1> DEFINE q == CcaIfOutlasts(phy, air', s)
  <1>1. d \in Nat /\ d > 0 /\ power \in Nat /\ Arrives(s, d, power)
    BY PhyAssumption DEF NoiseArrives
  <1>2. IsPhy(phy) /\ air' \in AirType
    BY <1>1, TypedEvents, ArrivesFacts DEF TInv
  <1>3. Copied(q, phy')
    BY <1>2, CcaIsBusier, BecomesFacts DEF NoiseArrives, Busier, Same
  <1> QED
    BY <1>1, <1>3, ArrivalHeard

\* What is covered stays so where the ends of the periods are copied.
LEMMA CoveredIsHeard ==
    ASSUME NEW q, Copied(q, phy'), Covered(q, air), air' = air
    PROVE  QInv'
  BY DEF QInv, Covered, Copied

\* A preamble detected makes the PHY busy up to the header, and no longer if
\* it was not.
LEMMA DetectedUntilHeader ==
    ASSUME NEW p, IsPhy(p), NEW a, p.endCca <= 0
    PROVE  StartReceiveHeader(p, a, TRUE).endCca <= PreambleRest
  <1> DEFINE p1 == [p EXCEPT !.preamble = NoEvent]
             ok == /\ GetState(p) # "RX" /\ ~Running(p.header)
                   /\ p.current = p.preamble.of /\ a[p.preamble.of].recorded
             p2 == IF ok THEN p1 ELSE [p1 EXCEPT !.failed = "StartReceiveHeader"]
             r == SwitchMaybeToCcaBusy(p2, PreambleRest)
             e == Event(PreambleRest, "ContinueReceiveHeader", p.preamble.of)
  <1>1. StartReceiveHeader(p, a, TRUE) = [r EXCEPT !.header = e]
    BY DEF StartReceiveHeader, Require
  <1>2. p1.endCca = p.endCca /\ "endCca" \in DOMAIN p1 /\ DOMAIN p1 = DOMAIN p
    BY DEF IsPhy
  <1> HIDE DEF p1, ok
  <1>3. p2.endCca = p.endCca /\ DOMAIN p2 = DOMAIN p
    BY <1>2
  <1> HIDE DEF p2
  <1>4. r.endCca <= PreambleRest /\ DOMAIN r = DOMAIN p
    <2>1. p.endCca \in Int /\ PreambleRest \in Nat \ {0} /\ "calls" \in DOMAIN p
          /\ "endCca" \in DOMAIN p
      BY PhyAssumption DEF IsPhy
    <2> QED
      BY <1>3, <2>1 DEF SwitchMaybeToCcaBusy, Tell
  <1> HIDE DEF r, e
  <1> QED
    BY <1>1, <1>4 DEF IsPhy

LEMMA PreambleEndsHeard ==
    ASSUME TInv, RInv, QInv, NEW detected \in BOOLEAN, PreambleEnds(detected)
    PROVE  QInv'
  <1> DEFINE q == StartReceiveHeader(phy, air, detected)
             s == phy.preamble.of
  <1>1. /\ Running(phy.preamble) /\ phy.preamble.left = 0
        /\ ~Running(phy.header) /\ ~Running(phy.payload)
    BY DEF PreambleEnds, Due, Running, RInv, OneStage
  <1>2. /\ IsPhy(phy) /\ air \in AirType /\ s \in Signals /\ GetState(phy) # "RX"
        /\ phy.endTx <= 0 /\ phy.endSwitching <= 0 /\ phy.endCca \in Int
        /\ HeaderExpected(phy, air) /\ phy.failed = "none"
    BY <1>1, AtStage DEF HeaderExpected, Running
  <1>3. air[s].left \in Int /\ air[s].left > 0 /\ GetEnergyDuration(air) \in Nat
    BY <1>1, <1>2, TypedEvents, EnergyDurationIsLeast, PhyAssumption DEF TInv, PreambleFits
  <1>4. \/ Covered(phy, air) \/ phy.endCca <= 0
        \/ GetEnergyDuration(air) <= air[s].left
    BY <1>1 DEF QInv, Watched, Running
  <1>5. /\ IsPhy(q) /\ SameTx(phy, q) /\ q.endRx = phy.endRx /\ q.endCca >= phy.endCca
        /\ detected => q.header = Event(PreambleRest, "ContinueReceiveHeader", s)
    BY <1>2, HeaderFacts
  <1>6. Becomes(q) /\ air' = air
    BY DEF PreambleEnds
  <1>7. Copied(q, phy')
    BY <1>5, <1>6, BecomesFacts
  <1>8. CASE detected
    <2>1. CASE Covered(phy, air)
      <3>1. Covered(q, air)
        BY <1>2, <1>5, <2>1, CoveredKept DEF SameTx
      <3> QED
        BY <1>6, <1>7, <3>1, CoveredIsHeard
    <2>2. CASE phy.endCca <= 0
      <3>1. q.endCca <= PreambleRest
        <4>1. q = StartReceiveHeader(phy, air, TRUE)
          BY <1>8
        <4> HIDE DEF q
        <4> QED
          BY <1>2, <2>2, <4>1, DetectedUntilHeader
      <3> HIDE DEF q
      <3> QED
        BY <1>5, <1>7, <1>8, <3>1 DEF QInv, Watched, Copied, Event
    <2>3. CASE GetEnergyDuration(air) <= air[s].left
      <3> HIDE DEF q
      <3>1. /\ phy'.header.run = "ContinueReceiveHeader" /\ phy'.header.of = s
        BY <1>5, <1>7, <1>8 DEF Copied, Event
      <3> QED
        BY <1>6, <2>3, <3>1 DEF QInv, Watched
    <2> QED
      BY <1>4, <2>1, <2>2, <2>3
  <1>9. CASE ~detected
    <2> DEFINE r == [phy EXCEPT !.preamble = NoEvent, !.current = NoSignal]
    <2>1. q = CcaIfOutlasts(r, air, s)
      BY <1>2, <1>9 DEF StartReceiveHeader, Require, HeaderExpected, IsPhy
    <2>2. /\ IsPhy(r) /\ r.endTx = phy.endTx /\ r.endRx = phy.endRx
          /\ r.endSwitching = phy.endSwitching /\ r.endCca = phy.endCca
      BY <1>2, NoEventType DEF IsPhy
    <2> HIDE DEF r, q
    <2>3. GetState(r) # "RX"
      BY <1>2, <2>2, GetStateFacts
    <2>4. \/ Covered(r, air) \/ GetEnergyDuration(air) <= air[s].left
          \/ r.endTx <= 0 /\ r.endCca <= 0 /\ air[s].left > 0
      BY <1>2, <1>3, <1>4, <2>2 DEF Covered
    <2>5. Covered(q, air)
      BY <1>2, <2>1, <2>2, <2>3, <2>4, OutlastsCovers
    <2> QED
      BY <1>6, <1>7, <2>5, CoveredIsHeard
  <1> QED
    BY <1>8, <1>9

LEMMA HeaderStartsHeard ==
    ASSUME TInv, RInv, QInv, NEW decoded \in BOOLEAN, HeaderStarts(decoded)
    PROVE  QInv'
  <1> DEFINE q == ContinueReceiveHeader(phy, air, decoded)
             s == phy.header.of
  <1>1. /\ Running(phy.header) /\ phy.header.left = 0 /\ phy.header.run = "ContinueReceiveHeader"
        /\ ~Running(phy.preamble) /\ ~Running(phy.payload)
    BY DEF HeaderStarts, Due, Running, RInv, OneStage
  <1>2. /\ IsPhy(phy) /\ air \in AirType /\ s \in Signals /\ GetState(phy) # "RX"
        /\ phy.endTx <= 0 /\ phy.endSwitching <= 0 /\ air[s].recorded
    BY <1>1, AtStage DEF Running
  <1>3. air[s].left \in Int /\ air[s].left > 0
    BY <1>1, <1>2, TypedEvents, PhyAssumption DEF TInv, HeaderFits
  <1>4. \/ Covered(phy, air) \/ phy.endCca <= 0
        \/ GetEnergyDuration(air) <= air[s].left
    BY <1>1 DEF QInv, Watched, Running
  <1>5. /\ IsPhy(q)
        /\ decoded => q.header = Event(HeaderDuration, "StartReceivePayload", s)
    BY <1>2, ContinueFacts
  <1>6. Becomes(q) /\ air' = air
    BY DEF HeaderStarts
  <1>7. Copied(q, phy')
    BY <1>5, <1>6, BecomesFacts
  <1>8. CASE decoded
    <2> HIDE DEF q
    <2> QED
      BY <1>5, <1>7, <1>8 DEF QInv, Watched, Copied, Event
  <1>9. CASE ~decoded
    <2> DEFINE r == AbortCurrentReception([phy EXCEPT !.header = NoEvent])
    <2>1. q = CcaIfOutlasts(r, air, s)
      BY <1>2, <1>9 DEF ContinueReceiveHeader, Require
    <2>2. /\ IsPhy(r) /\ r.endTx = phy.endTx /\ r.endRx = phy.endRx
          /\ r.endSwitching = phy.endSwitching /\ r.endCca = phy.endCca
      BY <1>2, NoEventType DEF IsPhy, AbortCurrentReception
    <2> HIDE DEF r, q
    <2>3. GetState(r) # "RX"
      BY <1>2, <2>2, GetStateFacts
    <2>4. \/ Covered(r, air) \/ GetEnergyDuration(air) <= air[s].left
          \/ r.endTx <= 0 /\ r.endCca <= 0 /\ air[s].left > 0
      BY <1>2, <1>3, <1>4, <2>2 DEF Covered
    <2>5. Covered(q, air)
      BY <1>2, <2>1, <2>2, <2>3, <2>4, OutlastsCovers
    <2> QED
      BY <1>6, <1>7, <2>5, CoveredIsHeard
  <1> QED
    BY <1>8, <1>9

LEMMA PayloadStartsHeard ==
    ASSUME TInv, RInv, NEW receivable \in BOOLEAN, PayloadStarts(receivable)
    PROVE  QInv'
  <1> DEFINE q == StartReceivePayload(phy, air, receivable)
  <1>1. /\ Running(phy.header) /\ phy.header.of \in Signals
        /\ IsPhy(phy) /\ air \in AirType /\ air[phy.header.of].left \in Nat
    BY TypedEvents DEF TInv, PayloadStarts, Due, Running, HeaderFits
  <1>2. /\ IsPhy(q)
        /\ \/ q.payload = Event(air[phy.header.of].left, "EndReceive", phy.header.of)
           \/ q.payload = Event(air[phy.header.of].left, "ResetReceive", phy.header.of)
    BY <1>1, PayloadFacts
  <1>3. Copied(q, phy')
    BY <1>2, BecomesFacts DEF PayloadStarts
  <1> HIDE DEF q
  <1> QED
    BY <1>2, <1>3 DEF QInv, Watched, Copied, Event, Running

\* At the end of a frame, received or waited out, the PHY looks at the energy.
LEMMA FrameEndsHeard ==
    ASSUME TInv, RInv, NEW ok \in BOOLEAN, NEW reaction, FrameEnds(ok, reaction)
    PROVE  QInv'
  <1> DEFINE q == EndReceive(phy, air, ok, reaction)
             told == Tell([phy EXCEPT !.payload = NoEvent],
                          <<IF ok THEN "RxEndOk" ELSE "RxEndError", 0>>)
             r == [told EXCEPT !.calls = @ \o reaction, !.current = NoSignal]
  <1>1. /\ Running(phy.payload) /\ phy.payload.run = "EndReceive" /\ phy.payload.left = 0
    BY DEF FrameEnds, Due, Running
  <1>2. /\ IsPhy(phy) /\ air \in AirType /\ air[phy.payload.of].recorded
        /\ phy.endRx = 0 /\ air[phy.payload.of].left = 0
        /\ phy.endTx <= 0 /\ phy.endSwitching <= 0
    BY <1>1, AtStage DEF TInv, PayloadFits, RInv, Undisturbed
  <1>3. GetState(phy) \in {"IDLE", "CCA_BUSY"}
    BY <1>1, <1>2, AtStage, GetStateFacts
  <1>4. q = MaybeCcaBusyDuration(r, air)
    BY <1>2, <1>3 DEF EndReceive, Require, IsReady
  <1>5. IsPhy(told) /\ told.endRx = phy.endRx
    BY <1>2, NoEventType DEF Tell, IsPhy
  <1> HIDE DEF told
  <1>6. IsPhy(r) /\ r.endRx = phy.endRx
    BY <1>5 DEF IsPhy
  <1> HIDE DEF r, q
  <1>7. GetState(r) # "RX"
    BY <1>2, <1>6, GetStateFacts
  <1>8. IsPhy(q) /\ Covered(q, air)
    BY <1>2, <1>4, <1>6, <1>7, MaybeCovers
  <1>9. Copied(q, phy') /\ air' = air
    BY <1>8, BecomesFacts DEF FrameEnds, q
  <1> QED
    BY <1>8, <1>9, CoveredIsHeard

LEMMA UnreceivedFrameEndsHeard ==
    ASSUME TInv, RInv, UnreceivedFrameEnds
    PROVE  QInv'
  <1> DEFINE q == ResetReceive(phy, air)
             r == [phy EXCEPT !.payload = NoEvent, !.current = NoSignal]
  <1>1. /\ Running(phy.payload) /\ phy.payload.run = "ResetReceive" /\ phy.payload.left = 0
    BY DEF UnreceivedFrameEnds, Due, Running
  <1>2. /\ IsPhy(phy) /\ air \in AirType /\ air[phy.payload.of].left = 0
        /\ GetState(phy) # "RX" /\ ~(phy.endRx > 0)
    BY <1>1, AtStage DEF TInv, PayloadFits, RInv, Undisturbed
  <1>3. q = MaybeCcaBusyDuration(r, air)
    BY <1>2 DEF ResetReceive, Require, IsPhy
  <1>4. IsPhy(r) /\ r.endRx = phy.endRx
    BY <1>2, NoEventType DEF IsPhy
  <1> HIDE DEF r, q
  <1>5. GetState(r) # "RX"
    BY <1>2, <1>4, GetStateFacts
  <1>6. IsPhy(q) /\ Covered(q, air)
    BY <1>2, <1>3, <1>4, <1>5, MaybeCovers
  <1>7. Copied(q, phy') /\ air' = air
    BY <1>6, BecomesFacts DEF UnreceivedFrameEnds, q
  <1> QED
    BY <1>6, <1>7, CoveredIsHeard

LEMMA NotifyTxEndHeard ==
    ASSUME TInv, QInv, NotifyTxEnd
    PROVE  QInv'
  <1> DEFINE q == [phy EXCEPT !.txEvent = -1]
  <1>1. Copied(q, phy') /\ IsPhy(phy) /\ air' = air
    BY TypedEvents, NotifyTxEndKeeps DEF TInv
  <1>2. /\ q.preamble = phy.preamble /\ q.header = phy.header /\ q.payload = phy.payload
        /\ q.endTx = phy.endTx /\ q.endRx = phy.endRx /\ q.endCca = phy.endCca
    BY <1>1 DEF IsPhy
  <1> HIDE DEF q
  <1> QED
    BY <1>1, <1>2 DEF QInv, Covered, Watched, Copied

\* A transmission drops the frame whose preamble is being detected, and looks
\* at the energy first.
LEMMA StartTransmissionHeard ==
    ASSUME ~CanInterrupt, TInv, RInv, QInv, NEW d \in TxDurations, StartTransmission(d)
    PROVE  QInv'
  <1> DEFINE q == Send(phy, air, d)
  <1>1. /\ IsPhy(phy) /\ air \in AirType /\ d \in Nat /\ d > 0 /\ phy.txEvent < 0
        /\ GetState(phy) = "IDLE" /\ ~Running(phy.header) /\ ~Running(phy.payload)
    BY TypedEvents, PhyAssumption DEF TInv, StartTransmission, MaySend
  <1>2. /\ phy.endTx <= 0 /\ phy.endRx <= 0 /\ phy.endCca <= 0 /\ phy.endSwitching <= 0
        /\ phy.endTx \in Int /\ phy.endRx \in Int /\ phy.endCca \in Int
        /\ GetEnergyDuration(air) \in Nat
    BY <1>1, GetStateFacts, EnergyDurationIsLeast DEF IsPhy
  <1>3. IsPhy(q) /\ q.endCca >= phy.endCca /\ q.endTx = d
    BY <1>1, SendFacts
  <1>4. Copied(q, phy') /\ air' = air
    BY <1>3, BecomesFacts DEF StartTransmission
  <1>5. CASE phy.current = NoSignal
    <2>1. ~Running(phy.preamble)
      BY <1>5, TypedEvents, PhyAssumption DEF TInv, RInv, OneStage
    <2>2. Covered(phy, air)
      BY <1>1, <2>1 DEF QInv, Watched, Running
    <2>3. GetEnergyDuration(air) <= 0
      BY <1>2, <2>2 DEF Covered
    <2>4. Covered(q, air)
      BY <2>3 DEF Covered
    <2> QED
      BY <1>4, <2>4, CoveredIsHeard
  <1>6. CASE phy.current # NoSignal
    <2> DEFINE s == phy.current
               noise == CcaIfOutlasts(phy, air, s)
    <2>1. /\ Running(phy.preamble) /\ phy.preamble.of = s
      BY <1>1, <1>6 DEF RInv, OneStage
    <2>2. /\ s \in Signals /\ air[s].left \in Int /\ air[s].left > 0
      BY <2>1, TypedEvents, PhyAssumption DEF TInv, PreambleFits
    <2>3. Busier(phy, noise) /\ IsPhy(noise) /\ Covered(noise, air)
      BY <1>1, <1>2, <2>2, OutlastsCovers
    <2>4. GetEnergyDuration(air) <= 0 \/ GetEnergyDuration(air) <= noise.endCca
      BY <1>2, <2>3 DEF Busier, Same, Covered
    <2> DEFINE free == AbortCurrentReception(noise)
    <2>5. q = [SwitchToTx(free, d) EXCEPT !.txEvent = d]
      BY <1>1, <1>6 DEF Send, Require
    <2> HIDE DEF noise, q
    <2>6. /\ IsPhy(free) /\ free.endTx = noise.endTx /\ free.endRx = noise.endRx
          /\ free.endSwitching = noise.endSwitching /\ free.endCca = noise.endCca
      BY <2>3, NoEventType DEF IsPhy, AbortCurrentReception
    <2> HIDE DEF free
    <2>7. GetState(free) \in {"RX", "CCA_BUSY", "IDLE"}
      <3>1. free.endTx <= 0 /\ free.endSwitching <= 0 /\ free.endCca \in Int
            /\ free.endRx \in Int
        BY <1>2, <2>3, <2>6 DEF Busier, Same, IsPhy
      <3> QED
        BY <2>6, <3>1, GetStateFacts
    <2>8. q.endCca = free.endCca
      BY <2>5, <2>6, <2>7 DEF SwitchToTx, Tell, IsPhy
    <2>9. Covered(q, air)
      BY <2>4, <2>6, <2>8 DEF Covered
    <2> QED
      BY <1>4, <2>9, CoveredIsHeard
  <1> QED
    BY <1>5, <1>6

\* Energy on the air and what the PHY knows of it pass together.
LEMMA TickHeard ==
    ASSUME TInv, RInv, QInv, Tick
    PROVE  QInv'
  <1> DEFINE E == GetEnergyDuration(air)
             F == GetEnergyDuration(air')
  <1>1. /\ phy'.endTx = Closer(phy.endTx) /\ phy'.endRx = Closer(phy.endRx)
        /\ phy'.endCca = Closer(phy.endCca)
        /\ phy'.preamble = Sooner(phy.preamble) /\ phy'.header = Sooner(phy.header)
        /\ phy'.payload = Sooner(phy.payload)
        /\ \A e \in {phy.preamble, phy.header, phy.payload} : Running(e) =>
             /\ e.left > 0 /\ Running(Sooner(e)) /\ Sooner(e).left = e.left - 1
             /\ Sooner(e).run = e.run /\ Sooner(e).of = e.of
    BY TypedEvents, ElapseFacts DEF TInv, Tick
  <1>2. /\ air \in AirType /\ air' \in AirType
        /\ \A s \in Signals : air[s].left > 0 => air'[s].left = air[s].left - 1
    BY TypedEvents, ElapseAirFacts DEF TInv, Tick, Closer
  <1>3. /\ E \in Nat /\ F \in Nat /\ (E = 0 => F = 0) /\ (E > 0 => F <= E - 1)
    BY <1>2, EnergyElapses, EnergyDurationIsLeast DEF Tick
  <1>4. phy.endTx \in Int /\ phy.endRx \in Int /\ phy.endCca \in Int
    BY TypedEvents DEF TInv, IsPhy
  <1> HIDE DEF E, F
  <1>5. CASE Covered(phy, air)
    <2>1. PICK e \in {0, phy.endTx, phy.endRx, phy.endCca} : E <= e
      BY <1>5 DEF Covered, E
    <2>2. CASE E = 0
      <3>1. F <= 0
        BY <1>3, <2>2
      <3> QED
        BY <3>1 DEF QInv, Covered, F
    <2>3. CASE E # 0
      <3>1. e \in Int /\ e > 0 /\ F <= Closer(e)
        BY <1>3, <1>4, <2>1, <2>3 DEF Closer
      <3>2. Closer(e) \in {phy'.endTx, phy'.endRx, phy'.endCca}
        BY <1>1, <2>1, <3>1
      <3> QED
        BY <3>1, <3>2 DEF QInv, Covered, F
    <2> QED
      BY <2>2, <2>3
  <1>6. CASE /\ Running(phy.preamble)
             /\ phy.endCca <= 0 \/ E <= air[phy.preamble.of].left
    <2> DEFINE s == phy.preamble.of
    <2>1. /\ Running(phy'.preamble) /\ phy'.preamble.of = s
      BY <1>1, <1>6
    <2>2. s \in Signals /\ air[s].left \in Int /\ air[s].left > 0
      BY <1>6, TypedEvents, PhyAssumption DEF TInv, PreambleFits
    <2>3. phy.endCca <= 0 => phy'.endCca <= 0
      BY <1>1, <1>4 DEF Closer
    <2>4. E <= air[s].left => F <= air'[s].left
      BY <1>2, <1>3, <2>2
    <2> QED
      BY <1>6, <2>1, <2>3, <2>4 DEF QInv, Watched, F
  <1>7. CASE /\ phy.header.run = "ContinueReceiveHeader"
             /\ phy.endCca <= phy.header.left \/ E <= air[phy.header.of].left
    <2> DEFINE s == phy.header.of
    <2>1. Running(phy.header)
      BY <1>7 DEF Running
    <2>2. /\ phy'.header.run = "ContinueReceiveHeader" /\ phy'.header.of = s
          /\ phy'.header.left = phy.header.left - 1 /\ phy.header.left > 0
      BY <1>1, <1>7, <2>1
    <2>3. /\ s \in Signals /\ air[s].left \in Int /\ air[s].left > 0
          /\ phy.header.left \in Nat
      BY <1>7, <2>1, TypedEvents, PhyAssumption DEF TInv, HeaderFits
    <2>4. phy.endCca <= phy.header.left => phy'.endCca <= phy'.header.left
      BY <1>1, <1>4, <2>2, <2>3 DEF Closer
    <2>5. E <= air[s].left => F <= air'[s].left
      BY <1>2, <1>3, <2>3
    <2> QED
      BY <1>7, <2>2, <2>4, <2>5 DEF QInv, Watched, F
  <1>8. CASE phy.header.run = "StartReceivePayload" \/ Running(phy.payload)
    <2>1. /\ Running(phy.header) => phy'.header.run = phy.header.run
          /\ Running(phy.payload) => Running(phy'.payload)
      BY <1>1
    <2> QED
      BY <1>8, <2>1 DEF QInv, Watched, Running
  <1> QED
    BY <1>5, <1>6, <1>7, <1>8 DEF QInv, Watched, E

LEMMA InitQuiet ==
    ASSUME Init
    PROVE  QInv
  <1>1. air \in AirType /\ \A s \in Signals : air[s].left <= 0
    BY DEF Init, AirType, Silence
  <1>2. PowerAfter(air, 0) < CcaEdThreshold
    BY <1>1, NoPowerOfNone, PhyAssumption
  <1>3. GetEnergyDuration(air) <= 0
    BY <1>1, <1>2, EnergyDurationIsLeast
  <1> QED
    BY <1>3 DEF QInv, Covered

LEMMA NextHeard ==
    ASSUME ~CanSwitch, ~CanInterrupt, TInv, RInv, QInv, [Next]_vars
    PROVE  QInv'
  <1>1. RInv'
    BY NextReceives
  <1>2. ASSUME NEW s \in Signals, NEW power \in Powers, NEW d \in FrameDurations,
               FrameArrives(s, d, power)
        PROVE  QInv'
    BY <1>1, <1>2, FrameArrivesHeard
  <1>3. ASSUME NEW s \in Signals, NEW power \in Powers, NEW d \in NoiseDurations,
               NoiseArrives(s, d, power)
        PROVE  QInv'
    BY <1>3, NoiseArrivesHeard
  <1>4. ASSUME NEW b \in BOOLEAN, PreambleEnds(b) \/ HeaderStarts(b) \/ PayloadStarts(b)
        PROVE  QInv'
    BY <1>4, PreambleEndsHeard, HeaderStartsHeard, PayloadStartsHeard
  <1>5. CASE UnreceivedFrameEnds
    BY <1>5, UnreceivedFrameEndsHeard
  <1>6. CASE NotifyTxEnd
    BY <1>6, NotifyTxEndHeard
  <1>7. ASSUME NEW ok \in BOOLEAN, NEW reaction \in Reactions, FrameEnds(ok, reaction)
        PROVE  QInv'
    BY <1>7, FrameEndsHeard
  <1>8. ASSUME NEW d \in TxDurations, StartTransmission(d)
        PROVE  QInv'
    BY <1>8, StartTransmissionHeard
  <1>9. ~SwitchChannel /\ ~PostponedSwitch
    BY DEF SwitchChannel, MaySwitch, PostponedSwitch, RInv, NoSwitch
  <1>10. CASE Tick
    BY <1>10, TickHeard
  <1>11. CASE UNCHANGED vars
    BY <1>11 DEF vars, QInv, Covered, Watched
  <1> QED
    BY <1>2, <1>3, <1>4, <1>5, <1>6, <1>7, <1>8, <1>9, <1>10, <1>11 DEF Next, Reception

\* Where the MAC never changes channels and sends on an idle medium only, a
\* PHY that is idle and receives nothing hears no energy at the threshold or
\* above: none of its handlers forgets what another signal left on the air.
THEOREM IdleIsQuiet ==
    ASSUME ~CanSwitch, ~CanInterrupt
    PROVE  Spec => []IdleMeansQuiet
  <1>1. Init => TInv /\ RInv /\ QInv
    BY InitTypes, InitReceives, InitQuiet
  <1>2. (TInv /\ RInv /\ QInv) /\ [Next]_vars => (TInv /\ RInv /\ QInv)'
    BY NextTypes, NextReceives, NextHeard
  <1>3. TInv /\ RInv /\ QInv => IdleMeansQuiet
    <2> SUFFICES ASSUME TInv, RInv, QInv, GetState(phy) = "IDLE", phy.current = NoSignal
                 PROVE  GetEnergyDuration(air) = 0
      BY DEF IdleMeansQuiet
    <2>1. IsPhy(phy) /\ air \in AirType
      BY TypedEvents DEF TInv
    <2>2. ~Running(phy.preamble) /\ ~Running(phy.header) /\ ~Running(phy.payload)
      BY TypedEvents, PhyAssumption DEF TInv, RInv, OneStage
    <2>3. Covered(phy, air)
      BY <2>2 DEF QInv, Watched, Running
    <2>4. phy.endTx <= 0 /\ phy.endRx <= 0 /\ phy.endCca <= 0
      BY <2>1, GetStateFacts
    <2>5. GetEnergyDuration(air) \in Nat /\ phy.endTx \in Int /\ phy.endRx \in Int
          /\ phy.endCca \in Int
      BY <2>1, EnergyDurationIsLeast DEF IsPhy
    <2> QED
      BY <2>3, <2>4, <2>5 DEF Covered
  <1> QED
    BY <1>1, <1>2, <1>3, PTL DEF Spec

=============================================================================
