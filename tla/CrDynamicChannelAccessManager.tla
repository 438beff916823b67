---------------------- MODULE CrDynamicChannelAccessManager ----------------------
(***************************************************************************)
(* The channel access manager of a cognitive radio MAC: it hears of every  *)
(* reception, transmission, CCA busy period, NAV, response timeout and     *)
(* channel switch of its PHY and low MAC, and from them decides when the   *)
(* one access request the low MAC may have pending is granted.             *)
(*                                                                         *)
(* Time is relative to Simulator::Now (): a period is held as the time     *)
(* left to its end, negative once it is over, and Tick makes every time    *)
(* one unit smaller.  The code compares ends with the present and adds at  *)
(* most two SIFS to them, so how long ago a period ended stops mattering   *)
(* after two SIFS, three for a reception: Tick leaves times at Past.  The  *)
(* CTS timeout (CrMmWaveMacLow refuses to start one), the NAV reset and    *)
(* the sleep and off states (no caller) are not part of the state.         *)
(***************************************************************************)
EXTENDS Integers

CONSTANTS
    Sifs,           \* short interframe space
    Slot,           \* length of a backoff slot
    BulkWindow,     \* contention window of a bulk access (2^7 in the code)
    BeaconWindow,   \* contention window of a beacon or detection (2^6)
    K,              \* parts a window is cut into, m_k (8 in the code)
    Neighbors,      \* the numbers of neighbor devices there can be
    MaxDuration     \* bound: the longest period that is notified

ASSUME DcamAssumption ==
    /\ Sifs \in Nat \ {0}
    /\ Slot \in Nat
    /\ BulkWindow \in Nat
    /\ BeaconWindow \in Nat
    /\ K \in Nat \ {0}
    /\ Neighbors \subseteq Nat
    /\ MaxDuration \in Nat \ {0}

VARIABLES
    cam,        \* what the manager was notified of, see CamType
    request,    \* m_requestAccess and m_typeOfAccessMode: the pending request
    gammaInit,  \* m_gamma_init: neighbors when the rotation was last reset
    gamma       \* m_gamma: position in the rotation, picks the backoff window

vars == <<cam, request, gammaInit, gamma>>

Modes == {"BULK_ACCESS", "BEACON_ACCESS", "DETECTION_ACCESS"}
Sources == {"rx", "tx", "nav", "busy", "ack", "bulk", "switching"}
Durations == 1 .. MaxDuration
Past(s) == IF s = "rx" THEN -3 * Sifs ELSE -2 * Sifs

NoRequest == [mode |-> "none", left |-> 0]
Pending(r) == r.mode # "none"

Rank(mode) == CASE mode = "BULK_ACCESS" -> 1
                [] mode = "BEACON_ACCESS" -> 2
                [] mode = "DETECTION_ACCESS" -> 3
                [] OTHER -> 0

\* end: time left to the end of the last period of each kind.
\* age: time since the start of a reception that has not ended.
\* ok: m_lastRxReceivedOk.
CamType == [end : [Sources -> Int], age : Nat, ok : BOOLEAN]

CamInit == [end |-> [s \in Sources |-> 0], age |-> 0, ok |-> TRUE]

---------------------------------------------------------------------------
(* The decisions.                                                          *)

Later(a, b) == IF a >= b THEN a ELSE b
Earlier(a, b) == IF a <= b THEN a ELSE b

IsBusy(c) == \E s \in Sources : c.end[s] > 0

\* A fault: a failed reception is followed by one SIFS, like any other.
AccessStartWithoutEifs(c, s) == c.end[s] + Sifs

\* From when each source allows an access: one SIFS after its end, two after
\* a reception that failed.
AccessStart(c, s) ==
    IF s = "rx" /\ c.end["rx"] <= 0 /\ ~c.ok
    THEN c.end[s] + Sifs + Sifs
    ELSE c.end[s] + Sifs

\* The most recent of them.
GetAccessGrantStart(c) ==
    Later(AccessStart(c, "rx"),
    Later(AccessStart(c, "tx"),
    Later(AccessStart(c, "nav"),
    Later(AccessStart(c, "busy"),
    Later(AccessStart(c, "ack"),
    Later(AccessStart(c, "bulk"), AccessStart(c, "switching")))))))

CeilDiv(a, b) == (a + b - 1) \div b

\* A fault: the interframe space is left out of the backoff.
BackoffsWithoutIfs(window, g) ==
    {rng * Slot :
        rng \in CeilDiv(window * g, K) .. CeilDiv(window * (g + 1), K)}

\* The backoffs GetBuifs and GetBeifs draw from, in the window g selects.
Backoffs(window, g) ==
    {Sifs + rng * Slot :
        rng \in CeilDiv(window * g, K) .. CeilDiv(window * (g + 1), K)}
GetBuifs(g) == Backoffs(BulkWindow, g)
GetBeifs(g) == Backoffs(BeaconWindow, g)

\* RequestAccess with no request pending: the requests it can schedule.
Scheduled(c, mode, g) ==
    {[mode |-> mode, left |-> Later(GetAccessGrantStart(c), 0) + ifs] :
        ifs \in IF mode = "BULK_ACCESS" THEN GetBuifs(g) ELSE GetBeifs(g)}

\* A fault: a notification leaves the pending request as it was scheduled.
RescheduledNever(c, r, g) == {r}

\* A notification cancels a pending request and asks again, with a new draw.
Rescheduled(c, r, g) == IF Pending(r) THEN Scheduled(c, r.mode, g) ELSE {r}

---------------------------------------------------------------------------
(* What each notification does to the state, as functions of it.           *)

RxStart(c, d) ==
    [end |-> [c.end EXCEPT !["rx"] = d], age |-> 0, ok |-> TRUE]

RxEndOk(c) ==
    [end |-> [c.end EXCEPT !["rx"] = 0], age |-> 0, ok |-> TRUE]

\* A reception that ends early leaves its remainder as a busy period.
Remainder(c) == IF c.end["rx"] > 0 THEN c.end["rx"] ELSE c.end["busy"]
RxEndError(c) ==
    [end |-> [c.end EXCEPT !["rx"] = 0, !["busy"] = Remainder(c)],
     age |-> 0, ok |-> FALSE]

\* The assertion in NotifyTxStartNow: a transmission cuts off a reception
\* only when that started at most a SIFS ago.
TxStartAllowed(c) == c.end["rx"] > 0 => c.age <= Sifs

TxStart(c, d) ==
    [end |-> [c.end EXCEPT !["rx"] = Earlier(@, 0), !["tx"] = d],
     age |-> 0, ok |-> TRUE]

CcaBusyStart(c, d) == [c EXCEPT !.end["busy"] = d]

\* The two assertions in NotifySwitchingStartNow.
SwitchingAllowed(c) == c.end["tx"] <= 0 /\ c.end["switching"] <= 0

SwitchingStart(c, d) ==
    [end |-> [s \in Sources |-> CASE s = "switching" -> d
                                  [] s = "tx" -> c.end[s]
                                  [] OTHER -> Earlier(c.end[s], 0)],
     age |-> 0, ok |-> TRUE]

NavIsLater(c, d) == d > c.end["nav"]
NavStart(c, d) == [c EXCEPT !.end["nav"] = Later(@, d)]

\* The assertion in NotifyAckTimeoutStartNow.
AckTimeoutAllowed(c) == c.end["ack"] < 0

AckTimeoutStart(c, d) == [c EXCEPT !.end["ack"] = d]
AckTimeoutReset(c) == [c EXCEPT !.end["ack"] = 0]
BulkTimeoutStart(c, d) == [c EXCEPT !.end["bulk"] = d]
BulkTimeoutReset(c) == [c EXCEPT !.end["bulk"] = 0]

\* One unit of time passes.
Elapse(c) ==
    [end |-> [s \in Sources |-> Later(c.end[s] - 1, Past(s))],
     age |-> IF c.end["rx"] > 1 THEN Earlier(c.age + 1, Sifs + 1) ELSE 0,
     ok |-> c.ok]

Due(r) == Pending(r) /\ r.left = 0
ElapseRequest(r) == IF Pending(r) THEN [r EXCEPT !.left = @ - 1] ELSE r

---------------------------------------------------------------------------
(* The handlers.                                                           *)

Notified(c) ==
    /\ cam' = c
    /\ request' \in Rescheduled(c, request, gamma)
    /\ UNCHANGED <<gammaInit, gamma>>

NotifyRxStartNow(d) ==
    /\ cam.end["rx"] <= 0 /\ cam.end["tx"] <= 0 /\ cam.end["switching"] <= 0
    /\ Notified(RxStart(cam, d))

NotifyRxEndOkNow ==
    /\ cam.end["rx"] = 0
    /\ Notified(RxEndOk(cam))

\* The PHY also abandons a reception before its end.
NotifyRxEndErrorNow ==
    /\ cam.end["rx"] >= 0
    /\ Notified(RxEndError(cam))

NotifyTxStartNow(d) ==
    /\ cam.end["tx"] <= 0 /\ cam.end["switching"] <= 0
    /\ TxStartAllowed(cam)
    /\ Notified(TxStart(cam, d))

NotifyMaybeCcaBusyStartNow(d) == Notified(CcaBusyStart(cam, d))

NotifySwitchingStartNow(d) ==
    /\ SwitchingAllowed(cam)
    /\ cam' = SwitchingStart(cam, d)
    /\ request' = NoRequest
    /\ UNCHANGED <<gammaInit, gamma>>

NotifyNavStartNow(d) ==
    IF NavIsLater(cam, d)
    THEN Notified(NavStart(cam, d))
    ELSE UNCHANGED vars

NotifyAckTimeoutStartNow(d) ==
    /\ AckTimeoutAllowed(cam)
    /\ Notified(AckTimeoutStart(cam, d))

NotifyBulkTimeoutStartNow(d) == Notified(BulkTimeoutStart(cam, d))

\* A reset does not ask again for a pending request.  The low MAC resets a
\* timeout when a payload begins to be received and when a frame has just
\* been received.
NotifyAckTimeoutResetNow ==
    /\ cam.end["rx"] >= 0
    /\ cam' = AckTimeoutReset(cam)
    /\ UNCHANGED <<request, gammaInit, gamma>>

NotifyBulkTimeoutResetNow ==
    /\ cam.end["rx"] >= 0
    /\ cam' = BulkTimeoutReset(cam)
    /\ UNCHANGED <<request, gammaInit, gamma>>

\* A fault: whatever is requested last replaces the pending mode.
StartRequestAccessReplacing(mode, n) ==
    IF Pending(request)
    THEN /\ request' = [request EXCEPT !.mode = mode]
         /\ UNCHANGED <<cam, gammaInit, gamma>>
    ELSE /\ gammaInit' = n
         /\ gamma' = n
         /\ request' \in Scheduled(cam, mode, n)
         /\ UNCHANGED cam

\* n is the number of neighbor devices on the current channel.  A pending
\* request is only ever upgraded, and keeps the delay it has left.
StartRequestAccess(mode, n) ==
    IF Pending(request)
    THEN /\ request' = IF Rank(mode) > Rank(request.mode)
                       THEN [request EXCEPT !.mode = mode]
                       ELSE request
         /\ UNCHANGED <<cam, gammaInit, gamma>>
    ELSE /\ gammaInit' = n
         /\ gamma' = n
         /\ request' \in Scheduled(cam, mode, n)
         /\ UNCHANGED cam

CancelRequestAccess ==
    /\ Pending(request)
    /\ request' = NoRequest
    /\ UNCHANGED <<cam, gammaInit, gamma>>

\* Two faults: the rotation turns the other way, and it stops one too late.
UpdateRotationFactorUpwards(n) ==
    /\ Pending(request)
    /\ IF gammaInit = n
       THEN gamma' = gamma + 1 /\ UNCHANGED gammaInit
       ELSE gammaInit' = n /\ gamma' = n
    /\ UNCHANGED <<cam, request>>

UpdateRotationFactorToZero(n) ==
    /\ Pending(request)
    /\ IF gammaInit = n
       THEN /\ gamma' = IF gamma > 0 THEN gamma - 1 ELSE gamma
            /\ UNCHANGED gammaInit
       ELSE gammaInit' = n /\ gamma' = n
    /\ UNCHANGED <<cam, request>>

UpdateRotationFactor(n) ==
    /\ Pending(request)
    /\ IF gammaInit = n
       THEN /\ gamma' = IF gamma > 1 THEN gamma - 1 ELSE gamma
            /\ UNCHANGED gammaInit
       ELSE gammaInit' = n /\ gamma' = n
    /\ UNCHANGED <<cam, request>>

\* What the low MAC may tell the manager while it serves a grant: nothing
\* (it has nothing to send), that it transmits, that it transmits a bulk
\* request whose response it awaits, or that it moves to another channel.
Granted(c) ==
    {c} \cup {TxStart(c, d) : d \in Durations}
        \cup {TxStart(BulkTimeoutStart(c, d), e) : d, e \in Durations}
        \cup {SwitchingStart(c, d) : d \in Durations}

RequestAccessCallback ==
    /\ Due(request)
    /\ IF IsBusy(cam)
       THEN /\ request' \in Scheduled(cam, request.mode, gamma)
            /\ UNCHANGED cam
       ELSE /\ request' = NoRequest
            /\ cam' \in Granted(cam)
    /\ UNCHANGED <<gammaInit, gamma>>

\* Time does not pass a request that is due.
Tick ==
    /\ ~Due(request)
    /\ cam' = Elapse(cam)
    /\ request' = ElapseRequest(request)
    /\ UNCHANGED <<gammaInit, gamma>>

Init ==
    /\ cam = CamInit
    /\ request = NoRequest
    /\ gammaInit = 0
    /\ gamma = 0

Notify ==
    \/ \E d \in Durations :
        \/ NotifyRxStartNow(d)
        \/ NotifyTxStartNow(d)
        \/ NotifyMaybeCcaBusyStartNow(d)
        \/ NotifySwitchingStartNow(d)
        \/ NotifyNavStartNow(d)
        \/ NotifyAckTimeoutStartNow(d)
        \/ NotifyBulkTimeoutStartNow(d)
    \/ NotifyRxEndOkNow
    \/ NotifyRxEndErrorNow
    \/ NotifyAckTimeoutResetNow
    \/ NotifyBulkTimeoutResetNow

Next ==
    \/ Notify
    \/ \E n \in Neighbors :
        \/ \E mode \in Modes : StartRequestAccess(mode, n)
        \/ UpdateRotationFactor(n)
    \/ CancelRequestAccess
    \/ RequestAccessCallback
    \/ Tick

Spec == Init /\ [][Next]_vars

---------------------------------------------------------------------------
(* What the manager promises.                                              *)

\* The state has the types of the code's members: an end and a flag per
\* source, at most one request, a rotation no larger than the number of
\* neighbors it was reset to.
TypeOK ==
    /\ cam \in CamType
    /\ request \in {NoRequest} \cup [mode : Modes, left : Nat]
    /\ gammaInit \in Nat
    /\ gamma \in 0 .. gammaInit

\* However the notifications are ordered, a pending request never comes due
\* sooner than the interframe space after the last moment from which
\* GetAccessGrantStart allows an access: no notification moves that moment
\* beyond what the scheduled request already waits for.
PendingAfterGrantStart ==
    Pending(request) => request.left >= GetAccessGrantStart(cam) + Sifs

\* When RequestAccessCallback runs, the medium was quiet for two whole
\* SIFS, and for three after a reception that failed: no source is busy, so
\* the callback grants and its own busy test only guards against itself.
QuietBeforeGrant ==
    Due(request) =>
        /\ \A s \in Sources : cam.end[s] <= -2 * Sifs
        /\ ~cam.ok => cam.end["rx"] <= -3 * Sifs

\* The rotation never runs out: with neighbors around, UpdateRotationFactor
\* stops at the first window, and never leaves a node in window zero.
RotationStaysInRange == gammaInit >= 1 => gamma \in 1 .. gammaInit

\* A request that stays pending is never weakened to a mode of lower
\* priority, and one that is upgraded keeps the delay it has left.
PendingKeepsPriority ==
    [][ Pending(request) /\ Pending(request') =>
          /\ Rank(request'.mode) >= Rank(request.mode)
          /\ Rank(request'.mode) > Rank(request.mode)
               => request'.left = request.left ]_vars

=============================================================================
