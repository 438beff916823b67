----------------------- MODULE V2xMmWaveNetDevice_proofs -----------------------
(***************************************************************************)
(* Proofs about agreements, for every number of nodes and every value of   *)
(* the constants.  A new agreement conflicts with none that is known; one  *)
(* heard of is either dropped or leaves the list of agreements apart,      *)
(* although the code's test for a conflict lets equal ones pass.           *)
(***************************************************************************)
EXTENDS V2xMmWaveNetDevice, TLAPS

IInv ==
    /\ CtrlTypeOK
    /\ AgreementsApart
    /\ failed # "NewAgreement"

---------------------------------------------------------------------------
(* The list of agreements.                                                 *)

\* What CheckAgreementConfilct accepts is apart from every agreement known,
\* or begins with it.
LEMMA AddedApart ==
    ASSUME NEW A \in SUBSET AgreementType, Apart(A), NEW a \in AgreementType
    PROVE  /\ AddAgreement(A, a) \in SUBSET AgreementType
           /\ Apart(AddAgreement(A, a))
  <1>1. CASE Conflict(A, a.start)
    BY <1>1 DEF AddAgreement
  <1>2. CASE ~Conflict(A, a.start)
    <2>1. \A b \in A : a.start = b.start \/ Ends(a) <= b.start \/ Ends(b) <= a.start
      BY <1>2, TxDurationAssumption DEF Conflict, Ends, AgreementType
    <2>2. AddAgreement(A, a) = A \cup {a}
      BY <1>2 DEF AddAgreement
    <2> QED
      BY <2>1, <2>2 DEF Apart, AgreementType
  <1> QED
    BY <1>1, <1>2

\* Time passes for all agreements alike.
LEMMA ElapsedApart ==
    ASSUME NEW A \in SUBSET AgreementType, Apart(A)
    PROVE  /\ Elapsed(A) \in SUBSET AgreementType
           /\ Apart(Elapsed(A))
  <1>1. \A b \in Elapsed(A) : \E a \in A : b = [a EXCEPT !.start = @ - 1]
    BY DEF Elapsed
  <1>2. \A a \in A : LET b == [a EXCEPT !.start = @ - 1]
                     IN  b \in AgreementType /\ b.start = a.start - 1
    BY DEF AgreementType
  <1>3. Elapsed(A) \in SUBSET AgreementType
    BY <1>1, <1>2
  <1>4. \A b, c \in Elapsed(A) :
          b.start = c.start \/ Ends(b) <= c.start \/ Ends(c) <= b.start
    <2> TAKE b, c \in Elapsed(A)
    <2>1. PICK a \in A : b = [a EXCEPT !.start = @ - 1]
      BY <1>1
    <2>2. PICK d \in A : c = [d EXCEPT !.start = @ - 1]
      BY <1>1
    <2>3. b.start = a.start - 1 /\ c.start = d.start - 1
      BY <1>2, <2>1, <2>2
    <2>4. a.start \in Int /\ d.start \in Int
      BY DEF AgreementType
    <2> QED
      BY <2>3, <2>4, TxDurationAssumption DEF Apart, Ends
  <1> QED
    BY <1>3, <1>4 DEF Apart

\* NewAgreement returns a start no earlier than asked for and without a
\* conflict: the assertions before it returns hold.
LEMMA NewAgreementIsFree ==
    ASSUME NEW A \in SUBSET AgreementType, NEW from \in Int,
           NEW start \in NewAgreement(A, from)
    PROVE  start \in Int /\ start >= from /\ ~Conflict(A, start)
  <1>1. start \in Candidates(A, from) /\ Free(A, start)
    BY DEF NewAgreement
  <1>2. start \in Int /\ start >= from
    BY <1>1, TxDurationAssumption DEF Candidates, Ends, AgreementType
  <1>3. ~Conflict(A, start)
    BY <1>1, <1>2, TxDurationAssumption DEF Free, Conflict, Ends, AgreementType
  <1> QED
    BY <1>2, <1>3

---------------------------------------------------------------------------
(* Beacons on the air.                                                     *)

\* What becomes of a beacon on its way is a beacon that says the same.
LEMMA BeaconUpdates ==
    ASSUME NEW b \in BeaconType, NEW t \in Nat, NEW c \in BOOLEAN
    PROVE  /\ [b EXCEPT !.clean = c] \in BeaconType
           /\ [b EXCEPT !.clean = c].kind = b.kind
           /\ [b EXCEPT !.clean = c].to = b.to
           /\ [b EXCEPT !.left = t] \in BeaconType
           /\ [b EXCEPT !.left = t].kind = b.kind
           /\ [b EXCEPT !.left = t].to = b.to
           /\ [b EXCEPT !.left = t, !.clean = c] \in BeaconType
           /\ [b EXCEPT !.left = t, !.clean = c].kind = b.kind
           /\ [b EXCEPT !.left = t, !.clean = c].to = b.to
           /\ [b EXCEPT !.kind = "ack", !.left = t] \in BeaconType
           /\ [b EXCEPT !.kind = "ack", !.left = t].to = b.to
           /\ [b EXCEPT !.kind = "ack", !.left = t].kind = "ack"
  BY DEF BeaconType

\* A beacon put on the air keeps what it says, and so do those it meets.
LEMMA PutOnAirType ==
    ASSUME CtrlTypeOK, NEW n \in Nodes, NEW b \in BeaconType, PutOnAir(n, b)
    PROVE  /\ beacon' \in [Nodes -> BeaconType \cup {NoBeacon}]
           /\ beacon'[n].kind = b.kind /\ beacon'[n].to = b.to
           /\ \A k \in Nodes \ {n} :
                /\ beacon'[k].kind = beacon[k].kind
                /\ beacon[k] # NoBeacon => beacon'[k].to = beacon[k].to
  <1> DEFINE met == [k \in Nodes |-> IF beacon[k] = NoBeacon THEN NoBeacon
                                     ELSE [beacon[k] EXCEPT !.clean = FALSE]]
             alone == \A k \in Nodes : beacon[k] = NoBeacon
             mine == [b EXCEPT !.left = BeaconTx, !.clean = alone]
  <1>1. beacon' = [met EXCEPT ![n] = mine]
    BY DEF PutOnAir
  <1>2. mine \in BeaconType /\ mine.kind = b.kind /\ mine.to = b.to
    <2>1. BeaconTx \in Nat /\ alone \in BOOLEAN
      BY NetDeviceAssumption
    <2> HIDE DEF alone
    <2> QED
      BY <2>1, BeaconUpdates
  <1>3. \A k \in Nodes :
          /\ met[k] \in BeaconType \cup {NoBeacon}
          /\ met[k].kind = beacon[k].kind
          /\ beacon[k] # NoBeacon => met[k].to = beacon[k].to
    BY BeaconUpdates DEF CtrlTypeOK
  <1> HIDE DEF met, mine
  <1>4. met \in [Nodes -> BeaconType \cup {NoBeacon}]
    BY <1>3 DEF met
  <1> QED
    BY <1>1, <1>2, <1>3, <1>4

---------------------------------------------------------------------------
(* The steps.                                                              *)

\* A period is granted without a conflict, and the lists stay apart.
LEMMA GrantsStep ==
    ASSUME IInv, NEW n \in Nodes, NEW tx \in Nodes, NEW rx \in Dests, NEW to \in Dests,
           NEW from \in Nat, NEW start \in NewAgreement(agreements[n], from),
           Grants(n, Agreement(tx, rx, start), from, to)
    PROVE  /\ agreements' \in [Nodes -> SUBSET AgreementType]
           /\ AgreementsApart'
           /\ failed' = failed
           /\ Beacon("rx", to, {}, start - from) \in BeaconType
           /\ PutOnAir(n, Beacon("rx", to, {}, start - from))
  <1> DEFINE a == Agreement(tx, rx, start)
             A == agreements[n]
  <1>1. A \in SUBSET AgreementType /\ Apart(A)
    BY DEF IInv, CtrlTypeOK, AgreementsApart
  <1>2. start \in Int /\ start >= from /\ ~Conflict(A, start)
    BY <1>1, NewAgreementIsFree
  <1>3. a \in AgreementType /\ a.start = start
    BY <1>2 DEF Agreement, AgreementType
  <1>4. AddAgreement(A, a) \in SUBSET AgreementType /\ Apart(AddAgreement(A, a))
    BY <1>1, <1>3, AddedApart
  <1>5. agreements' = [agreements EXCEPT ![n] = AddAgreement(A, a)]
    BY DEF Grants
  <1>6. agreements' \in [Nodes -> SUBSET AgreementType] /\ AgreementsApart'
    BY <1>4, <1>5 DEF IInv, CtrlTypeOK, AgreementsApart
  <1>7. failed' = failed
    BY <1>2, <1>3 DEF Grants, Require
  <1>8. PutOnAir(n, Beacon("rx", to, {}, start - from))
    BY <1>3 DEF Grants
  <1>9. Beacon("rx", to, {}, start - from) \in BeaconType
    <2>1. start - from \in Nat /\ BeaconTx \in Nat
      BY <1>2, NetDeviceAssumption
    <2> QED
      BY <2>1 DEF Beacon, BeaconType
  <1> QED
    BY <1>6, <1>7, <1>8, <1>9

LEMMA SendRxBeaconStep ==
    ASSUME IInv, NEW n \in Nodes, SendRxBeacon(n)
    PROVE  IInv'
  <1> DEFINE to == Head(requests[n])
             from == BeaconTx + BeaconAckTx
  <1>1. requests[n] \in Seq(Nodes) /\ requests[n] # <<>>
    BY DEF SendRxBeacon, IInv, CtrlTypeOK
  <1>2. to \in Nodes /\ Tail(requests[n]) \in Seq(Nodes)
    BY <1>1
  <1>3. from \in Nat /\ to \in Dests /\ n \in Dests
    BY <1>2, NetDeviceAssumption DEF Dests
  <1>4. PICK start \in NewAgreement(agreements[n], from) :
          Grants(n, Agreement(to, n, start), from, to)
    BY DEF SendRxBeacon
  <1> HIDE DEF to, from
  <1>5. /\ agreements' \in [Nodes -> SUBSET AgreementType]
        /\ AgreementsApart'
        /\ failed' = failed
        /\ Beacon("rx", to, {}, start - from) \in BeaconType
        /\ PutOnAir(n, Beacon("rx", to, {}, start - from))
    BY <1>2, <1>3, <1>4, GrantsStep
  <1>6. beacon' \in [Nodes -> BeaconType \cup {NoBeacon}]
    BY <1>5, PutOnAirType DEF IInv
  <1>7. requests' \in [Nodes -> Seq(Nodes)] /\ retry' = retry
    BY <1>2 DEF SendRxBeacon, IInv, CtrlTypeOK
  <1> QED
    BY <1>5, <1>6, <1>7 DEF IInv, CtrlTypeOK

LEMMA SendGroupBeaconStep ==
    ASSUME IInv, NEW n \in Nodes, SendGroupBeacon(n)
    PROVE  IInv'
  <1>1. BeaconTx \in Nat /\ Group \in Dests
    BY NetDeviceAssumption DEF Dests
  <1>2. PICK start \in NewAgreement(agreements[n], BeaconTx) :
          Grants(n, Agreement(n, Group, start), BeaconTx, Group)
    BY DEF SendGroupBeacon
  <1>3. /\ agreements' \in [Nodes -> SUBSET AgreementType]
        /\ AgreementsApart'
        /\ failed' = failed
        /\ Beacon("rx", Group, {}, start - BeaconTx) \in BeaconType
        /\ PutOnAir(n, Beacon("rx", Group, {}, start - BeaconTx))
    BY <1>1, <1>2, GrantsStep
  <1>4. beacon' \in [Nodes -> BeaconType \cup {NoBeacon}]
    BY <1>3, PutOnAirType DEF IInv
  <1> QED
    BY <1>3, <1>4 DEF SendGroupBeacon, IInv, CtrlTypeOK

LEMMA SendTxBeaconStep ==
    ASSUME IInv, NEW n \in Nodes, SendTxBeacon(n)
    PROVE  IInv'
  <1> DEFINE b == Beacon("tx", Group, FrontAddresses(dev[n].queue), 0)
  <1>1. b \in BeaconType
    BY NetDeviceAssumption DEF Beacon, BeaconType, FrontAddresses, Dests
  <1>2. PutOnAir(n, b)
    BY DEF SendTxBeacon
  <1>3. beacon' \in [Nodes -> BeaconType \cup {NoBeacon}]
    BY <1>1, <1>2, PutOnAirType DEF IInv
  <1> QED
    BY <1>3 DEF SendTxBeacon, IInv, CtrlTypeOK, AgreementsApart

LEMMA SendAgainStep ==
    ASSUME IInv, NEW n \in Nodes, SendAgain(n)
    PROVE  IInv'
  <1>1. retry[n] \in BeaconType /\ PutOnAir(n, retry[n])
    BY DEF SendAgain, IInv, CtrlTypeOK
  <1>2. beacon' \in [Nodes -> BeaconType \cup {NoBeacon}]
    BY <1>1, PutOnAirType DEF IInv
  <1> QED
    BY <1>2 DEF SendAgain, IInv, CtrlTypeOK, AgreementsApart

LEMMA BeaconEndsSteps ==
    ASSUME IInv, NEW n \in Nodes,
           TxBeaconEnds(n) \/ GroupBeaconEnds(n) \/ RxBeaconEnds(n) \/ BeaconAckEnds(n)
    PROVE  IInv'
  <1>1. beacon[n] \in BeaconType
    BY DEF TxBeaconEnds, GroupBeaconEnds, RxBeaconEnds, BeaconAckEnds, BeaconEnds,
           IInv, CtrlTypeOK
  <1>2. CASE TxBeaconEnds(n)
    <2>1. \A k \in Nodes : AddRequest(requests[k], n) \in Seq(Nodes)
      BY DEF AddRequest, IInv, CtrlTypeOK
    <2>2. requests' \in [Nodes -> Seq(Nodes)]
      BY <1>2, <2>1 DEF TxBeaconEnds, IInv, CtrlTypeOK
    <2> QED
      BY <1>2, <2>2 DEF TxBeaconEnds, IInv, CtrlTypeOK, AgreementsApart
  <1>3. CASE GroupBeaconEnds(n)
    <2> DEFINE a == Agreement(n, Group, beacon[n].delay)
    <2>1. a \in AgreementType
      BY <1>1 DEF Agreement, AgreementType, BeaconType, Dests
    <2>2. \A k \in Nodes : /\ AddAgreement(agreements[k], a) \in SUBSET AgreementType
                           /\ Apart(AddAgreement(agreements[k], a))
      BY <2>1, AddedApart DEF IInv, CtrlTypeOK, AgreementsApart
    <2>3. PICK heard : agreements' = [k \in Nodes |-> IF k \in heard
                                               THEN AddAgreement(agreements[k], a)
                                               ELSE agreements[k]]
      BY <1>3 DEF GroupBeaconEnds
    <2> HIDE DEF a
    <2>4. agreements' \in [Nodes -> SUBSET AgreementType] /\ AgreementsApart'
      BY <2>2, <2>3 DEF IInv, CtrlTypeOK, AgreementsApart
    <2> QED
      BY <1>3, <2>4 DEF GroupBeaconEnds, IInv, CtrlTypeOK
  <1>4. CASE RxBeaconEnds(n)
    <2> DEFINE k == beacon[n].to
               A == AddAgreement(agreements[k], Agreement(k, n, beacon[n].delay))
    <2>1. k \in Nodes
      BY <1>1, <1>4 DEF RxBeaconEnds, BeaconType, Dests
    <2>2. Agreement(k, n, beacon[n].delay) \in AgreementType
      BY <1>1, <2>1 DEF Agreement, AgreementType, BeaconType, Dests
    <2>3. A \in SUBSET AgreementType /\ Apart(A)
      BY <2>1, <2>2, AddedApart DEF IInv, CtrlTypeOK, AgreementsApart
    <2>4. PICK heard : IF k \in heard
                       THEN agreements' = [agreements EXCEPT ![k] = A] /\ retry' = retry
                       ELSE /\ retry' = [retry EXCEPT ![n] = beacon[n]]
                            /\ UNCHANGED agreements
      BY <1>4 DEF RxBeaconEnds
    <2>5. beacon' = [beacon EXCEPT ![n].kind = "ack", ![n].left = BeaconAckTx]
      BY <1>4 DEF RxBeaconEnds
    <2> HIDE DEF k, A
    <2>6. agreements' \in [Nodes -> SUBSET AgreementType] /\ AgreementsApart'
      BY <2>1, <2>3, <2>4 DEF IInv, CtrlTypeOK, AgreementsApart
    <2>7. retry' \in [Nodes -> BeaconType \cup {NoBeacon}]
      BY <1>1, <2>4 DEF IInv, CtrlTypeOK
    <2>8. beacon' \in [Nodes -> BeaconType \cup {NoBeacon}]
      <3>1. BeaconAckTx \in Nat
        BY NetDeviceAssumption
      <3>2. [beacon[n] EXCEPT !.kind = "ack", !.left = BeaconAckTx] \in BeaconType
        BY <1>1, <3>1, BeaconUpdates
      <3> QED
        BY <2>5, <3>2 DEF IInv, CtrlTypeOK
    <2> QED
      BY <1>4, <2>6, <2>7, <2>8 DEF RxBeaconEnds, IInv, CtrlTypeOK
  <1>5. CASE BeaconAckEnds(n)
    BY <1>5 DEF BeaconAckEnds, IInv, CtrlTypeOK, AgreementsApart
  <1> QED
    BY <1>2, <1>3, <1>4, <1>5

LEMMA TickStep ==
    ASSUME IInv, Tick
    PROVE  IInv'
  <1>1. agreements' \in [Nodes -> SUBSET AgreementType] /\ AgreementsApart'
    BY ElapsedApart DEF Tick, IInv, CtrlTypeOK, AgreementsApart
  <1>2. \A n \in Nodes : beacon[n] # NoBeacon =>
          [beacon[n] EXCEPT !.left = @ - 1] \in BeaconType
    <2> TAKE n \in Nodes
    <2> HAVE beacon[n] # NoBeacon
    <2>1. beacon[n] \in BeaconType /\ beacon[n].left # 0
      BY DEF Tick, Runs, BeaconDue, IInv, CtrlTypeOK
    <2>2. beacon[n].left - 1 \in Nat
      BY <2>1 DEF BeaconType
    <2> QED
      BY <2>1, <2>2, BeaconUpdates
  <1>3. beacon' \in [Nodes -> BeaconType \cup {NoBeacon}]
    BY <1>2 DEF Tick, IInv, CtrlTypeOK
  <1> QED
    BY <1>1, <1>3 DEF Tick, IInv, CtrlTypeOK

\* The data channel leaves agreements and beacons alone, and its own
\* assertions are others.
LEMMA DataSteps ==
    ASSUME IInv, UNCHANGED ctrlVars,
           failed' = failed \/ failed' = "Send" \/ failed' = "ReceiveOk"
    PROVE  IInv'
  BY DEF ctrlVars, IInv, CtrlTypeOK, AgreementsApart

LEMMA InitIInv ==
    ASSUME Init
    PROVE  IInv
  BY DEF Init, IInv, CtrlTypeOK, AgreementsApart, Apart

LEMMA NextIInv ==
    ASSUME IInv, [Next]_vars
    PROVE  IInv'
  <1>1. CASE Tick
    BY <1>1, TickStep
  <1>2. ASSUME NEW n \in Nodes, SendBeacon(n)
        PROVE  IInv'
    BY <1>2, SendRxBeaconStep, SendGroupBeaconStep, SendTxBeaconStep, SendAgainStep
       DEF SendBeacon
  <1>3. ASSUME NEW n \in Nodes,
               TxBeaconEnds(n) \/ GroupBeaconEnds(n) \/ RxBeaconEnds(n) \/ BeaconAckEnds(n)
        PROVE  IInv'
    BY <1>3, BeaconEndsSteps
  <1>4. ASSUME NEW n \in Nodes, NEW d \in Dests, Enqueue(n, d)
        PROVE  IInv'
    BY <1>4, DataSteps DEF Enqueue
  <1>5. ASSUME NEW n \in Nodes, WaitEnds(n) \/ PeriodEnds(n) \/ TryAgain(n)
                                \/ TransmitImmediately(n) \/ NormalAckTimeout(n) \/ EndTxNoAck(n)
        PROVE  IInv'
    BY <1>5, DataSteps DEF WaitEnds, PeriodEnds, TryAgain, TransmitImmediately,
       NormalAckTimeout, EndTxNoAck, dataVars, ctrlVars
  <1>6. ASSUME NEW n \in Nodes, SendAckAfterData(n)
        PROVE  IInv'
    BY <1>6, DataSteps DEF SendAckAfterData, Require, dataVars, ctrlVars
  <1>7. ASSUME NEW n \in Nodes, PayloadStarts(n)
        PROVE  IInv'
    BY <1>7, DataSteps DEF PayloadStarts
  <1>8. ASSUME NEW n \in Nodes, DataEnds(n)
        PROVE  IInv'
    BY <1>8, DataSteps DEF DataEnds, Require
  <1>9. ASSUME NEW n \in Nodes, AckEnds(n)
        PROVE  IInv'
    BY <1>9, DataSteps DEF AckEnds
  <1>10. CASE UNCHANGED vars
    BY <1>10 DEF vars, IInv, CtrlTypeOK, AgreementsApart
  <1> QED
    BY <1>1, <1>2, <1>3, <1>4, <1>5, <1>6, <1>7, <1>8, <1>9, <1>10 DEF Next

---------------------------------------------------------------------------
(* A node never forgets an agreement of its own.  What a handler does to   *)
(* the two timers is all that matters of the device.                       *)

Timed(m) ==
    /\ {"wait", "period"} \subseteq DOMAIN m
    /\ m.wait \in Timer /\ m.period \in Timer

SameTimers(m, k) == Timed(k) /\ k.wait = m.wait /\ k.period = m.period

\* Of the requests, that a node asks itself for nothing.
WInv ==
    /\ DOMAIN dev = Nodes
    /\ \A n \in Nodes : Timed(dev[n])
    /\ \A n \in Nodes : requests[n] \in Seq(Nodes \ {n})
    /\ AgreementsAreWatched

LEMMA OfferTimers ==
    ASSUME NEW m, Timed(m), NEW d
    PROVE  SameTimers(m, Offer(m, d))
  <1>1. ASSUME NEW q, NEW p, NEW x
        PROVE  /\ SameTimers(m, [m EXCEPT !.queue = q])
               /\ SameTimers(m, [m EXCEPT !.queue = q, !.send = Sifs, !.packet = p,
                                         !.sent[d] = x])
    BY DEF Timed, SameTimers
  <1> QED
    BY <1>1 DEF Offer

LEMMA ReadyTimers ==
    ASSUME NEW m, Timed(m), NEW n
    PROVE  SameTimers(m, ReadyToTransmitFrame(n, m))
  <1>1. SameTimers(m, m)
    BY DEF SameTimers
  <1>2. SameTimers(m, OfferNext(m))
    <2> DEFINE own == m.rx # Group /\ Has(m.queue, m.rx)
               m1 == IF own THEN Offer(m, m.rx) ELSE m
    <2>1. SameTimers(m, m1)
      BY <1>1, OfferTimers
    <2> HIDE DEF m1
    <2>2. SameTimers(m1, Offer(m1, Group))
      BY <2>1, OfferTimers DEF SameTimers
    <2> QED
      BY <2>1, <2>2 DEF OfferNext, SameTimers, m1
  <1>3. SameTimers(m, OfferLater(n, m))
    <2>1. ASSUME NEW t PROVE SameTimers(m, [m EXCEPT !.tryAgain = t])
      BY DEF Timed, SameTimers
    <2> QED
      BY <1>1, <2>1 DEF OfferLater
  <1> QED
    BY <1>1, <1>2, <1>3 DEF ReadyToTransmitFrame

\* A period that is started, or waited for, is active.
LEMMA StartIsActive ==
    ASSUME NEW m, Timed(m), NEW n, NEW to
    PROVE  /\ Timed(StartContentionFreeDuration(n, m, to))
           /\ IsAnyActive(StartContentionFreeDuration(n, m, to))
  <1> DEFINE k == [m EXCEPT !.period = TxDuration, !.rx = to]
  <1>1. Timed(k) /\ k.period = TxDuration
    BY TxDurationAssumption DEF Timed, Timer
  <1> HIDE DEF k
  <1>2. SameTimers(k, ReadyToTransmitFrame(n, k))
    BY <1>1, ReadyTimers
  <1> QED
    BY <1>1, <1>2, TxDurationAssumption
       DEF StartContentionFreeDuration, SameTimers, IsAnyActive, Running, k

LEMMA IfNeedIsActive ==
    ASSUME NEW m, Timed(m), NEW n, NEW A \in SUBSET AgreementType,
           NEW k \in StartContentionFreeDurationIfNeed(n, m, A)
    PROVE  Timed(k) /\ (Own(A, n) # {} => IsAnyActive(k))
  <1>1. CASE IsAnyActive(m) \/ Own(A, n) = {}
    BY <1>1 DEF StartContentionFreeDurationIfNeed
  <1>2. CASE ~(IsAnyActive(m) \/ Own(A, n) = {})
    <2>1. PICK a \in FirstOwn(A, n) : k = BeginPeriod(n, m, a)
      BY <1>2 DEF StartContentionFreeDurationIfNeed
    <2>2. a.start \in Int
      BY DEF FirstOwn, Own, AgreementType
    <2>3. CASE a.start <= 0
      BY <2>1, <2>3, StartIsActive DEF BeginPeriod
    <2>4. CASE ~(a.start <= 0)
      <3>1. k = [m EXCEPT !.wait = a.start, !.rx = a.rx]
        BY <2>1, <2>4 DEF BeginPeriod
      <3>2. a.start \in Nat
        BY <2>2, <2>4
      <3> QED
        BY <3>1, <3>2 DEF Timed, Timer, IsAnyActive, Running
    <2> QED
      BY <2>3, <2>4
  <1> QED
    BY <1>1, <1>2

LEMMA TryIsActive ==
    ASSUME NEW m, Timed(m), NEW n, NEW A \in SUBSET AgreementType,
           NEW k \in TryToStart(n, m, A)
    PROVE  Timed(k) /\ (Own(A, n) # {} => IsAnyActive(k))
  <1>1. CASE Running(m.period)
    <2>1. k = ReadyToTransmitFrame(n, m)
      BY <1>1 DEF TryToStart
    <2> QED
      BY <1>1, <2>1, ReadyTimers DEF SameTimers, IsAnyActive
  <1>2. CASE ~Running(m.period)
    BY <1>2, IfNeedIsActive DEF TryToStart
  <1> QED
    BY <1>1, <1>2

\* An agreement that is another's adds none of one's own.
LEMMA OwnUnchanged ==
    ASSUME NEW A, NEW a, NEW n, a.tx # n
    PROVE  Own(AddAgreement(A, a), n) = Own(A, n)
  BY DEF Own, AddAgreement

\* A step that leaves agreements and beacons alone, and one device active
\* whenever it has an agreement.
LEMMA DeviceStep ==
    ASSUME WInv, NEW n \in Nodes, NEW m, dev' = [dev EXCEPT ![n] = m],
           Timed(m), Own(agreements[n], n) # {} => IsAnyActive(m),
           UNCHANGED <<agreements, requests, beacon>>
    PROVE  WInv'
  <1>1. dev'[n] = m /\ \A k \in Nodes \ {n} : dev'[k] = dev[k]
    BY DEF WInv
  <1>2. AgreementsAreWatched'
    BY <1>1 DEF WInv, AgreementsAreWatched
  <1> QED
    BY <1>1, <1>2 DEF WInv

\* A step that leaves every device's two timers alone as well.
LEMMA TimersStep ==
    ASSUME WInv, DOMAIN dev' = Nodes, \A n \in Nodes : SameTimers(dev[n], dev'[n]),
           UNCHANGED <<agreements, requests, beacon>>
    PROVE  WInv'
  <1>1. \A n \in Nodes : IsAnyActive(dev[n]) <=> IsAnyActive(dev'[n])
    BY DEF SameTimers, IsAnyActive
  <1>2. AgreementsAreWatched'
    BY <1>1 DEF WInv, AgreementsAreWatched
  <1> QED
    BY <1>2 DEF WInv, SameTimers

\* A beacon is put on the air by a node that had none there, and so had its
\* agreements watched: only a new one of its own, for the group, is not yet.
LEMMA PutOnAirWatched ==
    ASSUME IInv, WInv, NEW n \in Nodes, NEW b \in BeaconType, MediumFree(n), PutOnAir(n, b),
           \A k \in Nodes \ {n} : Own(agreements'[k], k) = Own(agreements[k], k),
           Own(agreements'[n], n) = Own(agreements[n], n) \/ (b.kind = "rx" /\ b.to = Group),
           UNCHANGED dev
    PROVE  AgreementsAreWatched'
  <1>1. beacon[n] = NoBeacon
    BY DEF MediumFree
  <1>2. /\ beacon'[n].kind = b.kind /\ beacon'[n].to = b.to
        /\ \A k \in Nodes \ {n} :
             /\ beacon'[k].kind = beacon[k].kind
             /\ beacon[k] # NoBeacon => beacon'[k].to = beacon[k].to
    BY PutOnAirType DEF IInv
  <1>3. NoBeacon.kind # "rx"
    BY DEF NoBeacon
  <1>4. ASSUME NEW k \in Nodes, Own(agreements'[k], k) # {}
        PROVE  IsAnyActive(dev'[k]) \/ (beacon'[k].kind = "rx" /\ beacon'[k].to = Group)
    <2>1. CASE k = n
      BY <1>1, <1>2, <1>3, <1>4, <2>1 DEF WInv, AgreementsAreWatched
    <2>2. CASE k # n
      BY <1>2, <1>3, <1>4, <2>2 DEF WInv, AgreementsAreWatched
    <2> QED
      BY <2>1, <2>2
  <1> QED
    BY <1>4 DEF AgreementsAreWatched

LEMMA SendSteps ==
    ASSUME IInv, WInv, NEW n \in Nodes, SendBeacon(n)
    PROVE  WInv'
  <1>1. UNCHANGED dev
    BY DEF SendBeacon, SendRxBeacon, SendGroupBeacon, SendTxBeacon, SendAgain
  <1>2. CASE SendRxBeacon(n)
    <2> DEFINE to == Head(requests[n])
               from == BeaconTx + BeaconAckTx
    <2>1. requests[n] \in Seq(Nodes \ {n}) /\ requests[n] # <<>>
      BY <1>2 DEF SendRxBeacon, WInv
    <2>2. to \in Nodes \ {n} /\ Tail(requests[n]) \in Seq(Nodes \ {n})
      BY <2>1
    <2>3. from \in Nat /\ to \in Dests /\ n \in Dests /\ to # Group
      <3>1. from \in Nat /\ Group \notin Nodes
        BY NetDeviceAssumption
      <3> HIDE DEF from, to
      <3> QED
        BY <3>1, <2>2 DEF Dests
    <2>4. PICK start \in NewAgreement(agreements[n], from) :
            Grants(n, Agreement(to, n, start), from, to)
      BY <1>2 DEF SendRxBeacon
    <2>5. requests' = [requests EXCEPT ![n] = Tail(@)]
      BY <1>2 DEF SendRxBeacon
    <2> HIDE DEF to, from
    <2>6. /\ Beacon("rx", to, {}, start - from) \in BeaconType
          /\ PutOnAir(n, Beacon("rx", to, {}, start - from))
      BY <2>2, <2>3, <2>4, GrantsStep
    <2>7. agreements' = [agreements EXCEPT ![n] = AddAgreement(@, Agreement(to, n, start))]
      BY <2>4 DEF Grants
    <2>8. Own(AddAgreement(agreements[n], Agreement(to, n, start)), n) = Own(agreements[n], n)
      <3>1. Agreement(to, n, start).tx # n
        BY <2>2 DEF Agreement
      <3> QED
        BY <3>1, OwnUnchanged
    <2>9. \A k \in Nodes : Own(agreements'[k], k) = Own(agreements[k], k)
      BY <2>7, <2>8 DEF IInv, CtrlTypeOK
    <2>10. MediumFree(n)
      BY <1>2 DEF SendRxBeacon
    <2>11. AgreementsAreWatched'
      BY <1>1, <2>6, <2>9, <2>10, PutOnAirWatched
    <2>12. \A k \in Nodes : requests'[k] \in Seq(Nodes \ {k})
      BY <2>2, <2>5 DEF WInv, IInv, CtrlTypeOK
    <2> QED
      BY <1>1, <2>11, <2>12 DEF WInv
  <1>3. CASE SendGroupBeacon(n)
    <2>1. BeaconTx \in Nat /\ Group \in Dests
      BY NetDeviceAssumption DEF Dests
    <2>2. PICK start \in NewAgreement(agreements[n], BeaconTx) :
            Grants(n, Agreement(n, Group, start), BeaconTx, Group)
      BY <1>3 DEF SendGroupBeacon
    <2>3. /\ Beacon("rx", Group, {}, start - BeaconTx) \in BeaconType
          /\ PutOnAir(n, Beacon("rx", Group, {}, start - BeaconTx))
      BY <2>1, <2>2, GrantsStep
    <2>4. \A k \in Nodes \ {n} : agreements'[k] = agreements[k]
      BY <2>2 DEF Grants, IInv, CtrlTypeOK
    <2>5. MediumFree(n) /\ UNCHANGED requests
      BY <1>3 DEF SendGroupBeacon, MaySendTxBeacon
    <2>6. Beacon("rx", Group, {}, start - BeaconTx).kind = "rx"
          /\ Beacon("rx", Group, {}, start - BeaconTx).to = Group
      BY DEF Beacon
    <2>7. AgreementsAreWatched'
      BY <1>1, <2>3, <2>4, <2>5, <2>6, PutOnAirWatched
    <2> QED
      BY <1>1, <2>5, <2>7 DEF WInv
  <1>4. CASE SendTxBeacon(n)
    <2> DEFINE b == Beacon("tx", Group, FrontAddresses(dev[n].queue), 0)
    <2>1. b \in BeaconType
      BY NetDeviceAssumption DEF Beacon, BeaconType, FrontAddresses, Dests
    <2>2. PutOnAir(n, b) /\ MediumFree(n) /\ UNCHANGED <<agreements, requests>>
      BY <1>4 DEF SendTxBeacon, MaySendTxBeacon
    <2> HIDE DEF b
    <2>3. AgreementsAreWatched'
      BY <1>1, <2>1, <2>2, PutOnAirWatched
    <2> QED
      BY <1>1, <2>2, <2>3 DEF WInv
  <1>5. CASE SendAgain(n)
    <2>1. retry[n] \in BeaconType /\ PutOnAir(n, retry[n]) /\ MediumFree(n)
          /\ UNCHANGED <<agreements, requests>>
      BY <1>5 DEF SendAgain, IInv, CtrlTypeOK
    <2>2. AgreementsAreWatched'
      BY <1>1, <2>1, PutOnAirWatched
    <2> QED
      BY <1>1, <2>1, <2>2 DEF WInv
  <1> QED
    BY <1>2, <1>3, <1>4, <1>5 DEF SendBeacon

LEMMA EndsWatched ==
    ASSUME IInv, WInv, NEW n \in Nodes,
           TxBeaconEnds(n) \/ GroupBeaconEnds(n) \/ RxBeaconEnds(n) \/ BeaconAckEnds(n)
    PROVE  WInv'
  <1>1. beacon[n] \in BeaconType
    BY DEF TxBeaconEnds, GroupBeaconEnds, RxBeaconEnds, BeaconAckEnds, BeaconEnds,
           IInv, CtrlTypeOK
  <1>2. BeaconHeard(n) \subseteq SUBSET (Nodes \ {n})
    BY DEF BeaconHeard
  <1>3. \A k \in Nodes : agreements[k] \in SUBSET AgreementType
    BY DEF IInv, CtrlTypeOK
  <1>4. CASE TxBeaconEnds(n)
    <2>1. PICK heard \in BeaconHeard(n) :
            requests' = [k \in Nodes |-> IF k \in heard \cap beacon[n].rxs
                                         THEN AddRequest(requests[k], n) ELSE requests[k]]
      BY <1>4 DEF TxBeaconEnds
    <2>2. \A k \in Nodes \ {n} : AddRequest(requests[k], n) \in Seq(Nodes \ {k})
      BY DEF AddRequest, WInv
    <2>3. \A k \in Nodes : requests'[k] \in Seq(Nodes \ {k})
      BY <1>2, <2>1, <2>2 DEF WInv
    <2>4. AgreementsAreWatched'
      BY <1>4 DEF TxBeaconEnds, WInv, AgreementsAreWatched, IInv, CtrlTypeOK
    <2> QED
      BY <1>4, <2>3, <2>4 DEF TxBeaconEnds, WInv
  <1>5. CASE GroupBeaconEnds(n)
    <2> DEFINE a == Agreement(n, Group, beacon[n].delay)
    <2>1. PICK heard \in BeaconHeard(n) :
            agreements' = [k \in Nodes |-> IF k \in heard
                                           THEN AddAgreement(agreements[k], a)
                                           ELSE agreements[k]]
      BY <1>5 DEF GroupBeaconEnds
    <2>2. PICK m \in TryToStart(n, dev[n], agreements[n]) : dev' = [dev EXCEPT ![n] = m]
      BY <1>5 DEF GroupBeaconEnds, Becomes
    <2>3. Timed(m) /\ (Own(agreements[n], n) # {} => IsAnyActive(m))
      BY <1>3, <2>2, TryIsActive DEF WInv
    <2>4. a.tx = n
      BY DEF Agreement
    <2> HIDE DEF a
    <2>5. \A k \in Nodes : Own(agreements'[k], k) = Own(agreements[k], k)
      <3>1. \A k \in heard : Own(AddAgreement(agreements[k], a), k) = Own(agreements[k], k)
        BY <1>2, <2>4, OwnUnchanged
      <3> QED
        BY <2>1, <3>1
    <2>6. dev'[n] = m /\ \A k \in Nodes \ {n} : dev'[k] = dev[k] /\ beacon'[k] = beacon[k]
      BY <1>5, <2>2 DEF GroupBeaconEnds, WInv, IInv, CtrlTypeOK
    <2>7. AgreementsAreWatched'
      BY <2>3, <2>5, <2>6 DEF WInv, AgreementsAreWatched
    <2> QED
      BY <1>5, <2>2, <2>3, <2>6, <2>7 DEF GroupBeaconEnds, WInv
  <1>6. CASE RxBeaconEnds(n)
    <2> DEFINE k == beacon[n].to
               A == AddAgreement(agreements[k], Agreement(k, n, beacon[n].delay))
    <2>1. k \in Nodes /\ k # Group
      BY <1>1, <1>6 DEF RxBeaconEnds, BeaconType, Dests
    <2>2. A \in SUBSET AgreementType
      <3>1. Agreement(k, n, beacon[n].delay) \in AgreementType
        BY <1>1, <2>1 DEF Agreement, AgreementType, BeaconType, Dests
      <3> QED
        BY <2>1, <3>1, AddedApart DEF IInv, CtrlTypeOK, AgreementsApart
    <2>3. PICK heard \in BeaconHeard(n) :
            IF k \in heard
            THEN agreements' = [agreements EXCEPT ![k] = A] /\ Becomes(k, TryToStart(k, dev[k], A))
            ELSE UNCHANGED <<agreements, dev>>
      BY <1>6 DEF RxBeaconEnds
    <2>4. beacon' = [beacon EXCEPT ![n].kind = "ack", ![n].left = BeaconAckTx]
          /\ UNCHANGED requests
      BY <1>6 DEF RxBeaconEnds
    <2>5. \A i \in Nodes \ {n} : beacon'[i] = beacon[i]
      BY <2>4 DEF IInv, CtrlTypeOK
    <2>6. Own(agreements[n], n) # {} => IsAnyActive(dev[n])
      BY <2>1 DEF WInv, AgreementsAreWatched
    <2> HIDE DEF k, A
    <2>7. CASE k \in heard
      <3>1. agreements' = [agreements EXCEPT ![k] = A] /\ k # n
        BY <1>2, <2>3, <2>7
      <3>2. PICK m \in TryToStart(k, dev[k], A) : dev' = [dev EXCEPT ![k] = m]
        BY <2>3, <2>7 DEF Becomes
      <3>3. Timed(m) /\ (Own(A, k) # {} => IsAnyActive(m))
        BY <2>1, <2>2, <3>2, TryIsActive DEF WInv
      <3>4. /\ dev'[k] = m /\ agreements'[k] = A
            /\ \A i \in Nodes \ {k} : dev'[i] = dev[i] /\ agreements'[i] = agreements[i]
        BY <2>1, <3>1, <3>2 DEF WInv, IInv, CtrlTypeOK
      <3>5. AgreementsAreWatched'
        BY <2>5, <2>6, <3>1, <3>3, <3>4 DEF WInv, AgreementsAreWatched
      <3> QED
        BY <2>4, <3>2, <3>3, <3>4, <3>5 DEF WInv
    <2>8. CASE k \notin heard
      <3>1. UNCHANGED <<agreements, dev>>
        BY <2>3, <2>8
      <3>2. AgreementsAreWatched'
        BY <2>5, <2>6, <3>1 DEF WInv, AgreementsAreWatched
      <3> QED
        BY <2>4, <3>1, <3>2 DEF WInv
    <2> QED
      BY <2>7, <2>8
  <1>7. CASE BeaconAckEnds(n)
    <2>1. AgreementsAreWatched'
      BY <1>7 DEF BeaconAckEnds, WInv, AgreementsAreWatched, IInv, CtrlTypeOK
    <2> QED
      BY <1>7, <2>1 DEF BeaconAckEnds, WInv
  <1> QED
    BY <1>4, <1>5, <1>6, <1>7

LEMMA TickWatched ==
    ASSUME IInv, WInv, Tick
    PROVE  WInv'
  <1>1. \A n \in Nodes : Timed(dev'[n]) /\ (IsAnyActive(dev[n]) => IsAnyActive(dev'[n]))
    <2> TAKE n \in Nodes
    <2>1. Timed(dev[n]) /\ dev[n].wait # 0 /\ dev[n].period # 0
      BY DEF Tick, Due, WInv
    <2>2. dev'[n] = Elapse(dev[n])
      BY DEF Tick
    <2>3. /\ {"wait", "period"} \subseteq DOMAIN dev'[n]
          /\ dev'[n].wait = Closer(dev[n].wait) /\ dev'[n].period = Closer(dev[n].period)
      BY <2>1, <2>2 DEF Elapse, Timed
    <2> QED
      BY <2>1, <2>3 DEF Timed, Timer, Closer, Running, IsAnyActive
  <1>2. \A n \in Nodes : Own(agreements'[n], n) # {} => Own(agreements[n], n) # {}
    <2> TAKE n \in Nodes
    <2> HAVE Own(agreements'[n], n) # {}
    <2>1. PICK b \in Elapsed(agreements[n]) : b.tx = n
      BY DEF Tick, Own
    <2>2. PICK a \in agreements[n] : b = [a EXCEPT !.start = @ - 1]
      BY <2>1 DEF Elapsed
    <2>3. a \in AgreementType
      BY <2>2 DEF IInv, CtrlTypeOK
    <2>4. a.tx = n
      BY <2>1, <2>2, <2>3 DEF AgreementType
    <2> QED
      BY <2>2, <2>4 DEF Own
  <1>3. \A n \in Nodes : beacon[n] # NoBeacon =>
          beacon'[n].kind = beacon[n].kind /\ beacon'[n].to = beacon[n].to
    BY DEF Tick, IInv, CtrlTypeOK, BeaconType
  <1>4. NoBeacon.kind # "rx"
    BY DEF NoBeacon
  <1>5. AgreementsAreWatched'
    BY <1>1, <1>2, <1>3, <1>4 DEF WInv, AgreementsAreWatched
  <1>6. UNCHANGED requests /\ DOMAIN dev' = Nodes
    BY DEF Tick
  <1> QED
    BY <1>1, <1>5, <1>6 DEF WInv

\* Handlers that end by TryToStartContentionFreeDuration, after they changed
\* whatever they change but the two timers.
LEMMA TryStep ==
    ASSUME IInv, WInv, NEW n \in Nodes, NEW m, SameTimers(dev[n], m),
           Becomes(n, TryToStart(n, m, agreements[n])),
           UNCHANGED <<agreements, requests, beacon>>
    PROVE  WInv'
  <1>1. PICK k \in TryToStart(n, m, agreements[n]) : dev' = [dev EXCEPT ![n] = k]
    BY DEF Becomes
  <1>2. agreements[n] \in SUBSET AgreementType /\ Timed(m)
    BY DEF SameTimers, IInv, CtrlTypeOK
  <1>3. Timed(k) /\ (Own(agreements[n], n) # {} => IsAnyActive(k))
    BY <1>1, <1>2, TryIsActive
  <1> QED
    BY <1>1, <1>3, DeviceStep

\* Handlers that change one device but not its two timers.
LEMMA OtherStep ==
    ASSUME IInv, WInv, NEW n \in Nodes, NEW m, SameTimers(dev[n], m), Becomes(n, {m}),
           UNCHANGED <<agreements, requests, beacon>>
    PROVE  WInv'
  <1>1. dev' = [dev EXCEPT ![n] = m]
    BY DEF Becomes
  <1>2. DOMAIN dev' = Nodes /\ \A k \in Nodes : SameTimers(dev[k], dev'[k])
    BY <1>1 DEF WInv, SameTimers
  <1> QED
    BY <1>2, TimersStep

LEMMA DeviceSteps ==
    ASSUME IInv, WInv, NEW n \in Nodes,
           \/ \E d \in Dests : Enqueue(n, d)
           \/ WaitEnds(n) \/ PeriodEnds(n) \/ TryAgain(n)
           \/ TransmitImmediately(n) \/ SendAckAfterData(n)
           \/ NormalAckTimeout(n) \/ EndTxNoAck(n)
    PROVE  WInv'
  <1>1. Timed(dev[n]) /\ agreements[n] \in SUBSET AgreementType
    BY DEF WInv, IInv, CtrlTypeOK
  <1>2. UNCHANGED <<agreements, requests, beacon>>
    BY DEF Enqueue, WaitEnds, PeriodEnds, TryAgain, TransmitImmediately, SendAckAfterData,
           NormalAckTimeout, EndTxNoAck, dataVars, ctrlVars
  <1>3. ASSUME NEW d \in Dests, Enqueue(n, d)
        PROVE  WInv'
    <2> DEFINE p == [to |-> d, id |-> dev[n].given + 1]
               m == [dev[n] EXCEPT !.queue = Append(@, p), !.given = @ + 1]
    <2>1. Becomes(n, TryToStart(n, m, agreements[n]))
      BY <1>3 DEF Enqueue
    <2>2. SameTimers(dev[n], m)
      BY <1>1 DEF Timed, SameTimers
    <2> HIDE DEF m
    <2> QED
      BY <1>2, <2>1, <2>2, TryStep
  <1>4. CASE WaitEnds(n)
    <2> DEFINE m == [dev[n] EXCEPT !.wait = -1]
               k == StartContentionFreeDuration(n, m, dev[n].rx)
    <2>1. dev' = [dev EXCEPT ![n] = k]
      BY <1>4 DEF WaitEnds, Becomes
    <2>2. Timed(m)
      BY <1>1 DEF Timed, Timer
    <2> HIDE DEF m
    <2>3. Timed(k) /\ IsAnyActive(k)
      BY <2>2, StartIsActive
    <2> HIDE DEF k
    <2> QED
      BY <1>2, <2>1, <2>3, DeviceStep
  <1>5. CASE PeriodEnds(n)
    <2> DEFINE m == [dev[n] EXCEPT !.period = -1]
               m1 == [m EXCEPT !.rx = n]
    <2>1. PICK k \in StopContentionFreeDuration(n, m, agreements[n]) :
            dev' = [dev EXCEPT ![n] = k]
      BY <1>5 DEF PeriodEnds, Becomes
    <2>2. Timed(m1)
      BY <1>1 DEF Timed, Timer
    <2>3. k \in StartContentionFreeDurationIfNeed(n, m1, agreements[n])
      BY <2>1 DEF StopContentionFreeDuration
    <2> HIDE DEF m1
    <2>4. Timed(k) /\ (Own(agreements[n], n) # {} => IsAnyActive(k))
      BY <1>1, <2>2, <2>3, IfNeedIsActive
    <2> QED
      BY <1>2, <2>1, <2>4, DeviceStep
  <1>6. CASE TryAgain(n)
    <2> DEFINE m1 == [dev[n] EXCEPT !.tryAgain = -1]
               m2 == [dev[n] EXCEPT !.macTryAgain = -1]
    <2>1. SameTimers(dev[n], m1) /\ SameTimers(dev[n], m2)
      BY <1>1 DEF Timed, SameTimers
    <2>2. \/ Becomes(n, TryToStart(n, m1, agreements[n]))
          \/ Becomes(n, TryToStart(n, m2, agreements[n]))
      BY <1>6 DEF TryAgain
    <2> HIDE DEF m1, m2
    <2> QED
      BY <1>2, <2>1, <2>2, TryStep
  <1>7. CASE TransmitImmediately(n)
    <2> DEFINE m == [dev[n] EXCEPT !.send = -1, !.packet = None]
               p == dev[n].packet
               sending == DataTxTimers([CancelAllEvents(m) EXCEPT !.current = p], p.to)
    <2>1. /\ SameTimers(dev[n], sending)
          /\ \A t : SameTimers(dev[n], [m EXCEPT !.macTryAgain = t])
      BY <1>1 DEF Timed, SameTimers, DataTxTimers, CancelAllEvents
    <2>2. \E k : SameTimers(dev[n], k) /\ Becomes(n, {k})
      BY <1>7, <2>1 DEF TransmitImmediately
    <2> QED
      BY <1>2, <2>2, OtherStep
  <1>8. CASE SendAckAfterData(n)
    <2> DEFINE m == [dev[n] EXCEPT !.sendAck = -1, !.ackTo = Group]
    <2>1. SameTimers(dev[n], m)
      BY <1>1 DEF Timed, SameTimers
    <2>2. Becomes(n, {m})
      BY <1>8 DEF SendAckAfterData
    <2> QED
      BY <1>2, <2>1, <2>2, OtherStep
  <1>9. CASE NormalAckTimeout(n)
    <2> DEFINE m == [dev[n] EXCEPT !.ackTimeout = -1]
    <2>1. SameTimers(dev[n], m)
      BY <1>1 DEF Timed, SameTimers
    <2>2. Becomes(n, TryToStart(n, m, agreements[n]))
      BY <1>9 DEF NormalAckTimeout, TxFailed
    <2> HIDE DEF m
    <2> QED
      BY <1>2, <2>1, <2>2, TryStep
  <1>10. CASE EndTxNoAck(n)
    <2> DEFINE m == TxOk([dev[n] EXCEPT !.endTx = -1])
    <2>1. SameTimers(dev[n], m)
      BY <1>1 DEF Timed, SameTimers, TxOk
    <2>2. Becomes(n, TryToStart(n, m, agreements[n]))
      BY <1>10 DEF EndTxNoAck
    <2> HIDE DEF m
    <2> QED
      BY <1>2, <2>1, <2>2, TryStep
  <1> QED
    BY <1>3, <1>4, <1>5, <1>6, <1>7, <1>8, <1>9, <1>10

LEMMA FrameSteps ==
    ASSUME IInv, WInv, NEW n \in Nodes,
           PayloadStarts(n) \/ DataEnds(n) \/ AckEnds(n)
    PROVE  WInv'
  <1>1. \A k \in Nodes : Timed(dev[k]) /\ SameTimers(dev[k], dev[k])
    BY DEF WInv, SameTimers
  <1>2. UNCHANGED <<agreements, requests, beacon>>
    BY DEF PayloadStarts, DataEnds, AckEnds, ctrlVars
  <1>3. CASE PayloadStarts(n)
    <2>1. \A k \in Nodes : SameTimers(dev[k], Postponed(dev[k], air[n]))
      BY <1>1 DEF Timed, SameTimers, Postponed
    <2>2. PICK heard : dev' = [k \in Nodes |-> IF k \in heard THEN Postponed(dev[k], air[n])
                                              ELSE dev[k]]
      BY <1>3 DEF PayloadStarts
    <2>3. DOMAIN dev' = Nodes /\ \A k \in Nodes : SameTimers(dev[k], dev'[k])
      BY <1>1, <2>1, <2>2
    <2> QED
      BY <1>2, <2>3, TimersStep
  <1>4. CASE DataEnds(n)
    <2> DEFINE k == air[n].to
    <2>1. dev' = [dev EXCEPT ![k].sendAck = Sifs, ![k].ackTo = n] \/ UNCHANGED dev
      BY <1>4 DEF DataEnds
    <2> HIDE DEF k
    <2>2. DOMAIN dev' = Nodes
      BY <2>1 DEF WInv
    <2>3. \A i \in Nodes : SameTimers(dev[i], dev'[i])
      <3> TAKE i \in Nodes
      <3>1. SameTimers(dev[i], [dev[i] EXCEPT !.sendAck = Sifs, !.ackTo = n])
        BY <1>1 DEF Timed, SameTimers
      <3>2. \/ dev'[i] = dev[i]
            \/ dev'[i] = [dev[i] EXCEPT !.sendAck = Sifs, !.ackTo = n]
        BY <2>1 DEF WInv
      <3> QED
        BY <1>1, <3>1, <3>2
    <2> QED
      BY <1>2, <2>2, <2>3, TimersStep
  <1>5. CASE AckEnds(n)
    <2>1. CASE UNCHANGED dev
      BY <1>1, <1>2, <2>1, TimersStep DEF WInv
    <2>2. CASE ~UNCHANGED dev
      <3>1. PICK heard \in Outcomes(air[n]) :
              \E k \in {k \in heard : Acknowledges(air[n], k)} :
                Becomes(k, TryToStart(k, TxOk([dev[k] EXCEPT !.ackTimeout = -1]), agreements[k]))
        BY <1>5, <2>2 DEF AckEnds
      <3>2. PICK k \in heard :
              Becomes(k, TryToStart(k, TxOk([dev[k] EXCEPT !.ackTimeout = -1]), agreements[k]))
        BY <3>1
      <3>3. CASE k \in Nodes
        <4> DEFINE m == TxOk([dev[k] EXCEPT !.ackTimeout = -1])
        <4>1. SameTimers(dev[k], m)
          BY <1>1, <3>3 DEF Timed, SameTimers, TxOk
        <4> HIDE DEF m
        <4> QED
          BY <1>2, <3>2, <3>3, <4>1, TryStep DEF m
      <3>4. CASE k \notin Nodes
        <4>1. DOMAIN dev' = Nodes /\ \A i \in Nodes : dev'[i] = dev[i]
          BY <3>2, <3>4 DEF Becomes, WInv
        <4> QED
          BY <1>1, <1>2, <4>1, TimersStep
      <3> QED
        BY <3>3, <3>4
    <2> QED
      BY <2>1, <2>2
  <1> QED
    BY <1>3, <1>4, <1>5

LEMMA InitWInv ==
    ASSUME Init
    PROVE  WInv
  <1>1. \A n \in Nodes : Timed(DeviceInit(n))
    BY DEF Timed, Timer, DeviceInit
  <1>2. AgreementsAreWatched
    BY DEF Init, AgreementsAreWatched, Own
  <1> QED
    BY <1>1, <1>2 DEF Init, WInv

LEMMA NextWInv ==
    ASSUME IInv, WInv, [Next]_vars
    PROVE  WInv'
  <1>1. CASE Tick
    BY <1>1, TickWatched
  <1>2. CASE UNCHANGED vars
    BY <1>2 DEF vars, WInv, AgreementsAreWatched
  <1>3. ASSUME NEW n \in Nodes, SendBeacon(n)
        PROVE  WInv'
    BY <1>3, SendSteps
  <1>4. ASSUME NEW n \in Nodes,
               TxBeaconEnds(n) \/ GroupBeaconEnds(n) \/ RxBeaconEnds(n) \/ BeaconAckEnds(n)
        PROVE  WInv'
    BY <1>4, EndsWatched
  <1>5. ASSUME NEW n \in Nodes,
               \/ \E d \in Dests : Enqueue(n, d)
               \/ WaitEnds(n) \/ PeriodEnds(n) \/ TryAgain(n)
               \/ TransmitImmediately(n) \/ SendAckAfterData(n)
               \/ NormalAckTimeout(n) \/ EndTxNoAck(n)
        PROVE  WInv'
    BY <1>5, DeviceSteps
  <1>6. ASSUME NEW n \in Nodes, PayloadStarts(n) \/ DataEnds(n) \/ AckEnds(n)
        PROVE  WInv'
    BY <1>6, FrameSteps
  <1> QED
    BY <1>1, <1>2, <1>3, <1>4, <1>5, <1>6 DEF Next

---------------------------------------------------------------------------
(* The theorems.                                                           *)

THEOREM Invariance == Spec => []IInv
  BY InitIInv, NextIInv, PTL DEF Spec

\* AddAgreement and NewAgreement keep the agreements a node knows of for
\* times apart, or beginning together, whatever beacons are lost or collide.
THEOREM AgreementsStayApart == Spec => []AgreementsApart
  <1>1. IInv => AgreementsApart
    BY DEF IInv
  <1> QED
    BY <1>1, Invariance, PTL

\* The assertions at the end of NewAgreement never fail.
THEOREM NewAgreementNeverFails == Spec => [](failed # "NewAgreement")
  <1>1. IInv => failed # "NewAgreement"
    BY DEF IInv
  <1> QED
    BY <1>1, Invariance, PTL

\* Whatever the order of timers, beacons and frames, a node that knows of a
\* period of its own uses it or waits for it: StopContentionFreeDuration, the
\* beacons' ends and every retry look for the next one.
THEOREM AgreementsStayWatched == Spec => []AgreementsAreWatched
  <1>1. WInv => AgreementsAreWatched
    BY DEF WInv
  <1>2. Spec => []WInv
    BY Invariance, InitWInv, NextWInv, PTL DEF Spec
  <1> QED
    BY <1>1, <1>2, PTL

=============================================================================
