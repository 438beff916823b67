------------------ MODULE CrDynamicChannelAccessManager_proofs ------------------
(***************************************************************************)
(* Proofs about the channel access manager, for every value of its         *)
(* constants.  The inductive invariant adds one fact to the properties: a  *)
(* reception is only marked as failed once it is over, so the second SIFS  *)
(* it costs is already counted when a request is scheduled and no passing  *)
(* of time adds it later.                                                  *)
(***************************************************************************)
EXTENDS CrDynamicChannelAccessManager, TLAPS

RxFailedIsOver == ~cam.ok => cam.end["rx"] <= 0

IInv ==
    /\ TypeOK
    /\ RxFailedIsOver
    /\ PendingAfterGrantStart
    /\ RotationStaysInRange

---------------------------------------------------------------------------
(* The decisions.                                                          *)

\* The grant start is an integer, and bounded by b exactly when the access
\* start of every source is: GetAccessGrantStart is their maximum.
LEMMA GrantStartBound ==
    ASSUME NEW c \in CamType, NEW b \in Int
    PROVE  /\ GetAccessGrantStart(c) \in Int
           /\ GetAccessGrantStart(c) <= b
                <=> \A s \in Sources : AccessStart(c, s) <= b
  <1>1. \A s \in Sources : c.end[s] \in Int /\ AccessStart(c, s) \in Int
    BY DcamAssumption DEF CamType, AccessStart
  <1> QED
    BY <1>1 DEF GetAccessGrantStart, Later, Sources

\* A backoff is at least one SIFS long, whatever window the rotation picks.
LEMMA BackoffBound ==
    ASSUME NEW w \in Nat, NEW g \in Nat, NEW ifs \in Backoffs(w, g)
    PROVE  ifs \in Nat /\ ifs >= Sifs
  <1> DEFINE a == w * g
  <1>1. a \in Nat
    OBVIOUS
  <1> HIDE DEF a
  <1>2. CeilDiv(a, K) \in Nat
    <2>1. a + K - 1 \in Nat
      BY <1>1, DcamAssumption
    <2> QED
      BY <2>1, DcamAssumption, SMT DEF CeilDiv
  <1>3. PICK rng \in CeilDiv(a, K) .. CeilDiv(w * (g + 1), K) : ifs = Sifs + rng * Slot
    BY DEF Backoffs, a
  <1>4. rng \in Nat
    BY <1>2, <1>3
  <1>5. rng * Slot \in Nat
    BY <1>4, DcamAssumption
  <1> QED
    BY <1>3, <1>5, DcamAssumption

\* A request scheduled in any state comes due no sooner than the interframe
\* space after the grant start of that state.
LEMMA ScheduledBound ==
    ASSUME NEW c \in CamType, NEW mode \in Modes, NEW g \in Nat,
           NEW r \in Scheduled(c, mode, g)
    PROVE  /\ r \in [mode : Modes, left : Nat]
           /\ r.left >= GetAccessGrantStart(c) + Sifs
  <1>1. PICK ifs \in IF mode = "BULK_ACCESS" THEN GetBuifs(g) ELSE GetBeifs(g) :
          r = [mode |-> mode, left |-> Later(GetAccessGrantStart(c), 0) + ifs]
    BY DEF Scheduled
  <1>2. ifs \in Nat /\ ifs >= Sifs
    BY <1>1, BackoffBound, DcamAssumption DEF GetBuifs, GetBeifs
  <1>3. GetAccessGrantStart(c) \in Int
    BY GrantStartBound
  <1>4. /\ Later(GetAccessGrantStart(c), 0) \in Nat
        /\ Later(GetAccessGrantStart(c), 0) >= GetAccessGrantStart(c)
    BY <1>3 DEF Later
  <1> QED
    BY <1>1, <1>2, <1>3, <1>4, DcamAssumption

---------------------------------------------------------------------------
(* The handlers.                                                           *)

\* A state a notification may leave behind.
Sound(c) == c \in CamType /\ (~c.ok => c.end["rx"] <= 0)

\* Every notification but the passing of time leaves a sound state.
LEMMA HandlersSound ==
    ASSUME NEW c, Sound(c), NEW d \in Durations
    PROVE  /\ Sound(RxStart(c, d))
           /\ Sound(RxEndOk(c))
           /\ Sound(RxEndError(c))
           /\ Sound(TxStart(c, d))
           /\ Sound(CcaBusyStart(c, d))
           /\ Sound(SwitchingStart(c, d))
           /\ Sound(NavStart(c, d))
           /\ Sound(AckTimeoutStart(c, d))
           /\ Sound(AckTimeoutReset(c))
           /\ Sound(BulkTimeoutStart(c, d))
           /\ Sound(BulkTimeoutReset(c))
  <1>1. d \in Int
    BY DcamAssumption DEF Durations
  <1>2. /\ c \in CamType
        /\ ~c.ok => c.end["rx"] <= 0
        /\ c.end \in [Sources -> Int]
        /\ \A s \in Sources : c.end[s] \in Int
    BY DEF Sound, CamType
  <1>3. \A s \in Sources : Earlier(c.end[s], 0) \in Int
    BY <1>2 DEF Earlier
  <1>4. Sound(RxStart(c, d))
    BY <1>1, <1>2 DEF Sound, RxStart, CamType, Sources
  <1>5. Sound(RxEndOk(c))
    <2> DEFINE end == [c.end EXCEPT !["rx"] = 0]
    <2>1. 0 \in Int /\ c.end \in [Sources -> Int]
      BY <1>2
    <2>2. end \in [Sources -> Int]
      BY <2>1
    <2> QED
      BY <2>2 DEF Sound, RxEndOk, CamType
  <1>6. Sound(RxEndError(c))
    <2> DEFINE end == [c.end EXCEPT !["rx"] = 0, !["busy"] = Remainder(c)]
    <2>1. Remainder(c) \in Int
      BY <1>2 DEF Remainder, Sources
    <2>2. end \in [Sources -> Int] /\ end["rx"] = 0
      BY <1>2, <2>1 DEF CamType, Sources
    <2> QED
      BY <2>2 DEF Sound, RxEndError, CamType
  <1>7. Sound(TxStart(c, d))
    BY <1>1, <1>2, <1>3 DEF Sound, TxStart, CamType, Sources
  <1>8. Sound(CcaBusyStart(c, d))
    BY <1>1, <1>2 DEF Sound, CcaBusyStart, CamType, Sources
  <1>9. Sound(SwitchingStart(c, d))
    BY <1>1, <1>2, <1>3 DEF Sound, SwitchingStart, CamType, Sources
  <1>10. Sound(NavStart(c, d))
    BY <1>1, <1>2 DEF Sound, NavStart, Later, CamType, Sources
  <1>11. Sound(AckTimeoutStart(c, d)) /\ Sound(BulkTimeoutStart(c, d))
    BY <1>1, <1>2 DEF Sound, AckTimeoutStart, BulkTimeoutStart, CamType, Sources
  <1>12. Sound(AckTimeoutReset(c)) /\ Sound(BulkTimeoutReset(c))
    BY <1>2 DEF Sound, AckTimeoutReset, BulkTimeoutReset, CamType, Sources
  <1> QED
    BY <1>4, <1>5, <1>6, <1>7, <1>8, <1>9, <1>10, <1>11, <1>12

\* A notification that asks again for a pending request keeps the invariant.
LEMMA NotifiedKeeps ==
    ASSUME IInv, NEW c, Sound(c), Notified(c)
    PROVE  IInv'
  <1>1. /\ cam' = c
        /\ request' \in Rescheduled(c, request, gamma)
        /\ gammaInit' = gammaInit
        /\ gamma' = gamma
    BY DEF Notified
  <1>2. cam' \in CamType /\ RxFailedIsOver'
    BY <1>1 DEF Sound, RxFailedIsOver
  <1>3. gammaInit' \in Nat /\ gamma' \in 0 .. gammaInit' /\ RotationStaysInRange'
    BY <1>1 DEF IInv, TypeOK, RotationStaysInRange
  <1>4. /\ request' \in {NoRequest} \cup [mode : Modes, left : Nat]
        /\ PendingAfterGrantStart'
    <2>1. CASE Pending(request)
      <3>1. request.mode \in Modes /\ gamma \in Nat
        BY <2>1 DEF IInv, TypeOK, Pending, NoRequest
      <3>2. request' \in Scheduled(c, request.mode, gamma)
        BY <1>1, <2>1 DEF Rescheduled
      <3>3. /\ request' \in [mode : Modes, left : Nat]
            /\ request'.left >= GetAccessGrantStart(c) + Sifs
        BY <3>1, <3>2, ScheduledBound DEF Sound
      <3> QED
        BY <3>3, <1>1 DEF PendingAfterGrantStart
    <2>2. CASE ~Pending(request)
      BY <1>1, <2>2 DEF Rescheduled, IInv, TypeOK, PendingAfterGrantStart
    <2> QED
      BY <2>1, <2>2
  <1> QED
    BY <1>2, <1>3, <1>4 DEF IInv, TypeOK

\* A timeout that is reset while a reception lasts, or just as it ends, moves
\* its end to the present, but the grant start is already a SIFS later.
LEMMA ResetKeeps ==
    ASSUME IInv, cam.end["rx"] >= 0,
           NEW c, Sound(c), NEW s \in Sources,
           c.end = [cam.end EXCEPT ![s] = 0], c.ok = cam.ok, s # "rx",
           cam' = c, UNCHANGED <<request, gammaInit, gamma>>
    PROVE  IInv'
  <1>1. /\ cam \in CamType /\ c \in CamType
        /\ cam.end \in [Sources -> Int]
        /\ \A t \in Sources : cam.end[t] \in Int
    BY DEF IInv, TypeOK, CamType, Sound
  <1>2. GetAccessGrantStart(c) <= GetAccessGrantStart(cam)
    <2> DEFINE b == GetAccessGrantStart(cam)
    <2>1. b \in Int /\ \A t \in Sources : AccessStart(cam, t) <= b
      BY <1>1, GrantStartBound
    <2>2. Sifs <= b
      <3>1. AccessStart(cam, "rx") <= b
        BY <2>1 DEF Sources
      <3>2. AccessStart(cam, "rx") >= Sifs /\ AccessStart(cam, "rx") \in Int
        BY <1>1, DcamAssumption DEF AccessStart, Sources
      <3> QED
        BY <2>1, <3>1, <3>2, DcamAssumption
    <2>3. \A t \in Sources : AccessStart(c, t) <= b
      <3> SUFFICES ASSUME NEW t \in Sources PROVE AccessStart(c, t) <= b
        OBVIOUS
      <3>1. CASE t = s
        BY <3>1, <1>1, <2>2, DcamAssumption DEF AccessStart
      <3>2. CASE t # s
        <4>1. c.end[t] = cam.end[t] /\ c.end["rx"] = cam.end["rx"]
          BY <3>2, <1>1 DEF Sources
        <4>2. AccessStart(c, t) = AccessStart(cam, t)
          BY <4>1 DEF AccessStart
        <4> QED
          BY <4>2, <2>1
      <3> QED
        BY <3>1, <3>2
    <2> QED
      BY <2>1, <2>3, <1>1, GrantStartBound
  <1>3. GetAccessGrantStart(c) \in Int /\ GetAccessGrantStart(cam) \in Int
    BY <1>1, GrantStartBound
  <1>4. PendingAfterGrantStart'
    <2>1. Pending(request) => request.left \in Nat /\ request.left >= GetAccessGrantStart(cam) + Sifs
      BY DEF IInv, TypeOK, PendingAfterGrantStart, Pending, NoRequest
    <2>2. Pending(request) => request.left >= GetAccessGrantStart(c) + Sifs
      BY <2>1, <1>2, <1>3, DcamAssumption
    <2> QED
      BY <2>2 DEF PendingAfterGrantStart
  <1> QED
    BY <1>1, <1>4 DEF IInv, TypeOK, RxFailedIsOver, RotationStaysInRange, Sound

\* While no request is due, a unit of time takes as much from a pending
\* request as from the grant start it waits for.
LEMMA TickKeeps ==
    ASSUME IInv, Tick
    PROVE  IInv'
  <1>1. /\ cam \in CamType
        /\ \A s \in Sources : cam.end[s] \in Int
        /\ cam.age \in Nat
        /\ ~cam.ok => cam.end["rx"] <= 0
    BY DEF IInv, TypeOK, CamType, RxFailedIsOver
  <1>2. /\ cam'.ok = cam.ok
        /\ \A s \in Sources : cam'.end[s] = Later(cam.end[s] - 1, Past(s))
    BY <1>1 DEF Tick, Elapse, CamType
  <1>3. cam' \in CamType
    <2>1. \A s \in Sources : Later(cam.end[s] - 1, Past(s)) \in Int
      BY <1>1, DcamAssumption DEF Later, Past
    <2>2. (IF cam.end["rx"] > 1 THEN Earlier(cam.age + 1, Sifs + 1) ELSE 0) \in Nat
      BY <1>1, DcamAssumption DEF Earlier
    <2>3. [s \in Sources |-> Later(cam.end[s] - 1, Past(s))] \in [Sources -> Int]
      BY <2>1
    <2>4. cam.ok \in BOOLEAN
      BY <1>1 DEF CamType
    <2> QED
      BY <2>2, <2>3, <2>4 DEF Tick, Elapse, CamType
  <1>4. RxFailedIsOver'
    <2>1. cam'.end["rx"] <= 0 \/ cam'.ok
      BY <1>1, <1>2, DcamAssumption DEF Later, Past, Sources
    <2> QED
      BY <2>1 DEF RxFailedIsOver
  <1>5. /\ request' \in {NoRequest} \cup [mode : Modes, left : Nat]
        /\ PendingAfterGrantStart'
    <2>1. CASE Pending(request)
      <3> DEFINE b == request.left - 1 - Sifs
      <3>1. /\ request \in [mode : Modes, left : Nat]
            /\ request.left # 0
            /\ request' = [request EXCEPT !.left = @ - 1]
            /\ request.left >= GetAccessGrantStart(cam) + Sifs
        BY <2>1 DEF IInv, TypeOK, Pending, NoRequest, Tick, Due, ElapseRequest,
                    PendingAfterGrantStart
      <3>2. request' \in [mode : Modes, left : Nat] /\ request'.left = request.left - 1
        BY <3>1
      <3>3. b \in Int /\ b >= -Sifs
        BY <3>1, DcamAssumption
      <3>4. \A s \in Sources : AccessStart(cam, s) <= b + 1
        <4>1. GetAccessGrantStart(cam) \in Int /\ GetAccessGrantStart(cam) <= b + 1
          BY <3>1, <1>1, GrantStartBound, DcamAssumption
        <4> QED
          BY <4>1, <3>3, <1>1, GrantStartBound
      <3>5. \A s \in Sources : AccessStart(cam', s) <= b
        <4> SUFFICES ASSUME NEW s \in Sources PROVE AccessStart(cam', s) <= b
          OBVIOUS
        <4>1. CASE s = "rx"
          BY <4>1, <1>1, <1>2, <3>3, <3>4, DcamAssumption DEF AccessStart, Later, Past
        <4>2. CASE s # "rx"
          BY <4>2, <1>1, <1>2, <3>3, <3>4, DcamAssumption DEF AccessStart, Later, Past
        <4> QED
          BY <4>1, <4>2
      <3>6. GetAccessGrantStart(cam') \in Int /\ GetAccessGrantStart(cam') <= b
        BY <3>3, <3>5, <1>3, GrantStartBound
      <3> QED
        BY <3>1, <3>2, <3>6, DcamAssumption DEF PendingAfterGrantStart
    <2>2. CASE ~Pending(request)
      BY <2>2 DEF IInv, TypeOK, Tick, ElapseRequest, PendingAfterGrantStart
    <2> QED
      BY <2>1, <2>2
  <1> QED
    BY <1>3, <1>4, <1>5 DEF IInv, TypeOK, Tick, RotationStaysInRange

\* A callback that transmits or switches starts from a sound state.
LEMMA CallbackKeeps ==
    ASSUME IInv, RequestAccessCallback
    PROVE  IInv'
  <1>1. Sound(cam) /\ gamma \in Nat
    BY DEF IInv, TypeOK, RxFailedIsOver, Sound
  <1>2. request.mode \in Modes
    BY DEF IInv, TypeOK, RequestAccessCallback, Due, Pending, NoRequest
  <1>3. CASE IsBusy(cam)
    <2>1. request' \in Scheduled(cam, request.mode, gamma) /\ cam' = cam
      BY <1>3 DEF RequestAccessCallback
    <2>2. /\ request' \in [mode : Modes, left : Nat]
          /\ request'.left >= GetAccessGrantStart(cam) + Sifs
      BY <2>1, <1>1, <1>2, ScheduledBound DEF Sound
    <2> QED
      BY <2>1, <2>2 DEF IInv, TypeOK, RxFailedIsOver, RotationStaysInRange,
                        PendingAfterGrantStart, RequestAccessCallback
  <1>4. CASE ~IsBusy(cam)
    <2>1. request' = NoRequest /\ cam' \in Granted(cam)
      BY <1>4 DEF RequestAccessCallback
    <2>2. Sound(cam')
      <3>1. \A d \in Durations : /\ Sound(TxStart(cam, d))
                                 /\ Sound(BulkTimeoutStart(cam, d))
                                 /\ Sound(SwitchingStart(cam, d))
        BY <1>1, HandlersSound
      <3>2. \A d, e \in Durations : Sound(TxStart(BulkTimeoutStart(cam, d), e))
        BY <3>1, HandlersSound
      <3> QED
        BY <2>1, <1>1, <3>1, <3>2 DEF Granted
    <2> QED
      BY <2>1, <2>2 DEF IInv, TypeOK, RxFailedIsOver, RotationStaysInRange, Sound,
                        PendingAfterGrantStart, RequestAccessCallback, Pending, NoRequest
  <1> QED
    BY <1>3, <1>4

---------------------------------------------------------------------------
(* The invariant.                                                          *)

LEMMA InitInvariant == Init => IInv
  <1> SUFFICES ASSUME Init PROVE IInv
    OBVIOUS
  <1>1. cam \in CamType
    BY DEF Init, CamInit, CamType
  <1> QED
    BY <1>1 DEF Init, CamInit, IInv, TypeOK, RxFailedIsOver, PendingAfterGrantStart,
                RotationStaysInRange, Pending, NoRequest

LEMMA NextInvariant == IInv /\ [Next]_vars => IInv'
  <1> SUFFICES ASSUME IInv, [Next]_vars PROVE IInv'
    OBVIOUS
  <1>0. Sound(cam) /\ \E d \in Durations : TRUE
    BY DcamAssumption DEF IInv, TypeOK, RxFailedIsOver, Sound, Durations
  <1>1. ASSUME NEW d \in Durations, NotifyRxStartNow(d) PROVE IInv'
    BY <1>0, <1>1, HandlersSound, NotifiedKeeps DEF NotifyRxStartNow
  <1>2. ASSUME NEW d \in Durations, NotifyTxStartNow(d) PROVE IInv'
    BY <1>0, <1>2, HandlersSound, NotifiedKeeps DEF NotifyTxStartNow
  <1>3. ASSUME NEW d \in Durations, NotifyMaybeCcaBusyStartNow(d) PROVE IInv'
    BY <1>0, <1>3, HandlersSound, NotifiedKeeps DEF NotifyMaybeCcaBusyStartNow
  <1>4. ASSUME NEW d \in Durations, NotifySwitchingStartNow(d) PROVE IInv'
    <2>1. Sound(cam')
      BY <1>0, <1>4, HandlersSound DEF NotifySwitchingStartNow
    <2> QED
      BY <2>1, <1>4 DEF NotifySwitchingStartNow, IInv, TypeOK, RxFailedIsOver, Sound,
                RotationStaysInRange, PendingAfterGrantStart, Pending, NoRequest
  <1>5. ASSUME NEW d \in Durations, NotifyNavStartNow(d) PROVE IInv'
    <2>1. CASE NavIsLater(cam, d)
      BY <1>0, <1>5, <2>1, HandlersSound, NotifiedKeeps DEF NotifyNavStartNow
    <2>2. CASE UNCHANGED vars
      BY <2>2 DEF vars, IInv, TypeOK, RxFailedIsOver, RotationStaysInRange,
                  PendingAfterGrantStart
    <2> QED
      BY <1>5, <2>1, <2>2 DEF NotifyNavStartNow
  <1>6. ASSUME NEW d \in Durations, NotifyAckTimeoutStartNow(d) PROVE IInv'
    BY <1>0, <1>6, HandlersSound, NotifiedKeeps DEF NotifyAckTimeoutStartNow
  <1>7. ASSUME NEW d \in Durations, NotifyBulkTimeoutStartNow(d) PROVE IInv'
    BY <1>0, <1>7, HandlersSound, NotifiedKeeps DEF NotifyBulkTimeoutStartNow
  <1>8. CASE NotifyRxEndOkNow
    BY <1>0, <1>8, HandlersSound, NotifiedKeeps DEF NotifyRxEndOkNow
  <1>9. CASE NotifyRxEndErrorNow
    BY <1>0, <1>9, HandlersSound, NotifiedKeeps DEF NotifyRxEndErrorNow
  <1>10. CASE NotifyAckTimeoutResetNow
    <2>1. Sound(AckTimeoutReset(cam))
      BY <1>0, HandlersSound
    <2>2. /\ AckTimeoutReset(cam).end = [cam.end EXCEPT !["ack"] = 0]
          /\ AckTimeoutReset(cam).ok = cam.ok
      BY <1>0 DEF AckTimeoutReset, Sound, CamType
    <2> QED
      BY <2>1, <2>2, <1>10, ResetKeeps DEF NotifyAckTimeoutResetNow, Sources
  <1>11. CASE NotifyBulkTimeoutResetNow
    <2>1. Sound(BulkTimeoutReset(cam))
      BY <1>0, HandlersSound
    <2>2. /\ BulkTimeoutReset(cam).end = [cam.end EXCEPT !["bulk"] = 0]
          /\ BulkTimeoutReset(cam).ok = cam.ok
      BY <1>0 DEF BulkTimeoutReset, Sound, CamType
    <2> QED
      BY <2>1, <2>2, <1>11, ResetKeeps DEF NotifyBulkTimeoutResetNow, Sources
  <1>12. ASSUME NEW n \in Neighbors, NEW mode \in Modes, StartRequestAccess(mode, n)
         PROVE  IInv'
    <2>1. CASE Pending(request)
      <3>1. request \in [mode : Modes, left : Nat]
        BY <2>1 DEF IInv, TypeOK, Pending, NoRequest
      <3>2. /\ request' \in [mode : Modes, left : Nat]
            /\ request'.left = request.left
            /\ UNCHANGED <<cam, gammaInit, gamma>>
        BY <3>1, <2>1, <1>12 DEF StartRequestAccess
      <3> QED
        BY <3>2, <2>1 DEF IInv, TypeOK, RxFailedIsOver, RotationStaysInRange,
                          PendingAfterGrantStart
    <2>2. CASE ~Pending(request)
      <3>1. /\ n \in Nat /\ gammaInit' = n /\ gamma' = n /\ cam' = cam
            /\ request' \in Scheduled(cam, mode, n)
        BY <2>2, <1>12, DcamAssumption DEF StartRequestAccess
      <3>2. /\ request' \in [mode : Modes, left : Nat]
            /\ request'.left >= GetAccessGrantStart(cam) + Sifs
        BY <3>1, <1>0, ScheduledBound DEF Sound
      <3> QED
        BY <3>1, <3>2 DEF IInv, TypeOK, RxFailedIsOver, RotationStaysInRange,
                          PendingAfterGrantStart
    <2> QED
      BY <2>1, <2>2
  <1>13. ASSUME NEW n \in Neighbors, UpdateRotationFactor(n) PROVE IInv'
    <2>1. n \in Nat /\ gammaInit \in Nat /\ gamma \in 0 .. gammaInit
      BY DcamAssumption DEF IInv, TypeOK
    <2>2. gammaInit' \in Nat /\ gamma' \in 0 .. gammaInit' /\ RotationStaysInRange'
      BY <2>1, <1>13 DEF UpdateRotationFactor, IInv, RotationStaysInRange
    <2> QED
      BY <2>2, <1>13 DEF UpdateRotationFactor, IInv, TypeOK, RxFailedIsOver,
                         PendingAfterGrantStart
  <1>14. CASE CancelRequestAccess
    BY <1>14 DEF CancelRequestAccess, IInv, TypeOK, RxFailedIsOver,
                 RotationStaysInRange, PendingAfterGrantStart, Pending, NoRequest
  <1>15. CASE RequestAccessCallback
    BY <1>15, CallbackKeeps
  <1>16. CASE Tick
    BY <1>16, TickKeeps
  <1>17. CASE UNCHANGED vars
    BY <1>17 DEF vars, IInv, TypeOK, RxFailedIsOver, RotationStaysInRange,
                 PendingAfterGrantStart
  <1> QED
    BY <1>1, <1>2, <1>3, <1>4, <1>5, <1>6, <1>7, <1>8, <1>9, <1>10, <1>11, <1>12,
       <1>13, <1>14, <1>15, <1>16, <1>17 DEF Next, Notify

THEOREM Invariance == Spec => []IInv
  BY InitInvariant, NextInvariant, PTL DEF Spec

\* Every reachable state of the manager is well typed.
THEOREM TypeCorrect == Spec => []TypeOK
  <1>1. IInv => TypeOK
    BY DEF IInv
  <1> QED
    BY <1>1, Invariance, PTL

\* A pending request never comes due sooner than the interframe space after
\* the last moment from which GetAccessGrantStart allows an access.
THEOREM NeverEarly == Spec => []PendingAfterGrantStart
  <1>1. IInv => PendingAfterGrantStart
    BY DEF IInv
  <1> QED
    BY <1>1, Invariance, PTL

\* The rotation factor stays between one and the number of neighbors.
THEOREM RotationInRange == Spec => []RotationStaysInRange
  <1>1. IInv => RotationStaysInRange
    BY DEF IInv
  <1> QED
    BY <1>1, Invariance, PTL

\* Whenever RequestAccessCallback runs, every source has been quiet for two
\* SIFS, and a reception that failed for three.
THEOREM GrantedOnlyWhenQuiet == Spec => []QuietBeforeGrant
  <1>1. IInv => QuietBeforeGrant
    <2> SUFFICES ASSUME IInv, Due(request)
                 PROVE  /\ \A s \in Sources : cam.end[s] <= -2 * Sifs
                        /\ ~cam.ok => cam.end["rx"] <= -3 * Sifs
      BY DEF QuietBeforeGrant
    <2>1. cam \in CamType /\ \A s \in Sources : cam.end[s] \in Int
      BY DEF IInv, TypeOK, CamType
    <2>2. -Sifs \in Int /\ GetAccessGrantStart(cam) \in Int
      BY <2>1, GrantStartBound, DcamAssumption
    <2>3. GetAccessGrantStart(cam) <= -Sifs
      BY <2>2, DcamAssumption DEF IInv, PendingAfterGrantStart, Due
    <2>4. \A s \in Sources : AccessStart(cam, s) <= -Sifs
      BY <2>1, <2>2, <2>3, GrantStartBound
    <2>5. \A s \in Sources : cam.end[s] <= -2 * Sifs
      BY <2>1, <2>4, DcamAssumption DEF AccessStart
    <2>6. ~cam.ok => cam.end["rx"] <= -3 * Sifs
      BY <2>1, <2>4, DcamAssumption DEF AccessStart, IInv, RxFailedIsOver, Sources
    <2> QED
      BY <2>5, <2>6
  <1> QED
    BY <1>1, Invariance, PTL

\* A pending request is never weakened, and an upgrade keeps its delay.
THEOREM PriorityKept == Spec => PendingKeepsPriority
  <1> DEFINE Kept ==
        Pending(request) /\ Pending(request') =>
          /\ Rank(request'.mode) >= Rank(request.mode)
          /\ Rank(request'.mode) > Rank(request.mode) => request'.left = request.left
  <1>1. IInv /\ [Next]_vars => [Kept]_vars
    <2> SUFFICES ASSUME IInv, Next, Pending(request), Pending(request')
                 PROVE  /\ Rank(request'.mode) >= Rank(request.mode)
                        /\ Rank(request'.mode) > Rank(request.mode)
                             => request'.left = request.left
      OBVIOUS
    <2>1. request \in [mode : Modes, left : Nat]
      BY DEF IInv, TypeOK, Pending, NoRequest
    <2>2. \A mode \in Modes : Rank(mode) \in Nat
      BY DEF Rank, Modes
    <2>3. CASE request'.mode = request.mode
      BY <2>1, <2>2, <2>3
    <2>4. CASE request'.mode # request.mode
      <3>1. \A c : Notified(c) => request'.mode = request.mode
        BY DEF Notified, Rescheduled, Scheduled
      <3>2. \E n \in Neighbors : \E mode \in Modes : StartRequestAccess(mode, n)
        BY <2>4, <2>1, <3>1 DEF Next, Notify, NotifyRxStartNow, NotifyTxStartNow,
             NotifyMaybeCcaBusyStartNow, NotifySwitchingStartNow, NotifyNavStartNow,
             NotifyAckTimeoutStartNow, NotifyBulkTimeoutStartNow, NotifyRxEndOkNow,
             NotifyRxEndErrorNow, NotifyAckTimeoutResetNow, NotifyBulkTimeoutResetNow,
             UpdateRotationFactor, CancelRequestAccess, RequestAccessCallback, Tick,
             ElapseRequest, Scheduled, NoRequest, Pending, vars
      <3>3. PICK mode \in Modes : request' = [request EXCEPT !.mode = mode]
                                  /\ Rank(mode) > Rank(request.mode)
        BY <3>2, <2>4 DEF StartRequestAccess
      <3>4. request'.mode = mode /\ request'.left = request.left
        BY <3>3, <2>1
      <3> QED
        BY <3>3, <3>4, <2>1, <2>2
    <2> QED
      BY <2>3, <2>4
  <1>2. Spec => [][Kept]_vars
    BY <1>1, Invariance, PTL DEF Spec
  <1> QED
    BY <1>2 DEF PendingKeepsPriority

=============================================================================
