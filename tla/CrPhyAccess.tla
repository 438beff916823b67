------------------------------ MODULE CrPhyAccess ------------------------------
(***************************************************************************)
(* A cognitive radio node's PHY together with its channel access manager,  *)
(* which learns what the PHY does only from the listener calls of the      *)
(* state helper, and the part of the low MAC that drives both: it asks for *)
(* access, sends or changes channels when the access is granted, and sends *)
(* a response some time after a frame it received, without asking.         *)
(*                                                                         *)
(* The rotation of the backoff windows is left out (no neighbor is known), *)
(* and so are the response timeouts: CrDynamicChannelAccessManager has     *)
(* both.                                                                   *)
(***************************************************************************)
EXTENDS Integers, Sequences, FiniteSets

CONSTANTS
    Signals, NoSignal, PreambleDetection, PreambleRest, HeaderDuration,
    CcaEdThreshold, Powers, FrameDurations, NoiseDurations, TxDurations,
    ChannelSwitchDelay, CanSwitch,  \* see MmWavePhy
    Sifs, Slot, BulkWindow, K,      \* see CrDynamicChannelAccessManager
    NavDurations    \* the NAVs a received frame may set

ASSUME PhyAccessAssumption ==
    /\ IsFiniteSet(Signals) /\ NoSignal \notin Signals
    /\ PreambleDetection \in Nat \ {0}
    /\ PreambleRest \in Nat \ {0}
    /\ HeaderDuration \in Nat \ {0}
    /\ CcaEdThreshold \in Nat \ {0}
    /\ Powers \subseteq Nat \ {0}
    /\ \A d \in FrameDurations :
         d \in Nat /\ d > PreambleDetection + PreambleRest + HeaderDuration
    /\ NoiseDurations \subseteq Nat \ {0}
    /\ TxDurations \subseteq Nat \ {0}
    /\ ChannelSwitchDelay \in Nat \ {0}
    /\ CanSwitch \in BOOLEAN
    /\ Sifs \in Nat \ {0}
    /\ Slot \in Nat
    /\ BulkWindow \in Nat
    /\ K \in Nat \ {0}
    /\ NavDurations \subseteq Nat

VARIABLES
    phy, air,   \* see MmWavePhy
    dcam,       \* the access manager: cam, request, and the assertion that failed
    response    \* time left to the response the low MAC has scheduled, or -1

vars == <<phy, air, dcam, response>>

\* A frame the node receives and must keep quiet for sets its NAV.
Reactions == {<<>>} \cup {<< <<"NavStart", d>> >> : d \in NavDurations}

D == INSTANCE CrDynamicChannelAccessManager
        WITH cam <- dcam.cam, request <- dcam.request,
             gammaInit <- 0, gamma <- 0, Neighbors <- {0}, MaxDuration <- 1,
             BeaconWindow <- BulkWindow

DcamInit == [cam |-> D!CamInit, request |-> D!NoRequest, failed |-> "none"]

\* What the manager makes of one listener call.
Heard(c, call, d) ==
    CASE call = "RxStart" -> D!RxStart(c, d)
      [] call = "RxEndOk" -> D!RxEndOk(c)
      [] call = "RxEndError" -> D!RxEndError(c)
      [] call = "TxStart" -> D!TxStart(c, d)
      [] call = "MaybeCcaBusyStart" -> D!CcaBusyStart(c, d)
      [] call = "SwitchingStart" -> D!SwitchingStart(c, d)
      [] call = "NavStart" -> D!NavStart(c, d)

\* The manager's assertion the call meets holds.
Accepted(c, call) ==
    /\ call = "TxStart" => D!TxStartAllowed(c)
    /\ call = "SwitchingStart" => D!SwitchingAllowed(c)

Hear(l, call, d) ==
    LET c == Heard(l.cam, call, d)
        requests == CASE call = "SwitchingStart" -> {D!NoRequest}
                      [] call = "NavStart" /\ ~D!NavIsLater(l.cam, d) -> {l.request}
                      [] OTHER -> D!Rescheduled(c, l.request, 0)
        failed == IF Accepted(l.cam, call) THEN l.failed ELSE call
    IN  {[cam |-> c, request |-> r, failed |-> failed] : r \in requests}

HearNext(ls, calls, i) ==
    IF i \in DOMAIN calls
    THEN UNION {Hear(l, calls[i][1], calls[i][2]) : l \in ls}
    ELSE ls

\* One call after the other.  No step of the PHY makes more than three.
Deliver(l, calls) ==
    HearNext(HearNext(HearNext({l}, calls, 1), calls, 2), calls, 3)

P == INSTANCE MmWavePhy
        WITH listener <- dcam, Told <- Deliver, ListenerInit <- DcamInit,
             CanInterrupt <- TRUE

---------------------------------------------------------------------------
(* The low MAC.                                                            *)

Alive == P!Alive /\ dcam.failed = "none"

\* StartAccessIfNeed: the MAC has something to send and no request pending.
StartAccess ==
    /\ Alive /\ ~D!Pending(dcam.request)
    /\ \E r \in D!Scheduled(dcam.cam, "BULK_ACCESS", 0) :
         dcam' = [dcam EXCEPT !.request = r]
    /\ UNCHANGED <<phy, air, response>>

\* RequestAccessCallback.  A granted MAC has nothing to send any more, sends,
\* or changes channels, which cancels its response.
RequestAccessCallback ==
    LET granted == [dcam EXCEPT !.request = D!NoRequest]
    IN  /\ Alive /\ D!Due(dcam.request)
        /\ IF D!IsBusy(dcam.cam)
           THEN /\ \E r \in D!Scheduled(dcam.cam, "BULK_ACCESS", 0) :
                     dcam' = [dcam EXCEPT !.request = r]
                /\ UNCHANGED <<phy, air, response>>
           ELSE IF P!GetState(phy) # "IDLE"
           THEN /\ dcam' = [granted EXCEPT !.failed = "RequestAccessCallback"]
                /\ UNCHANGED <<phy, air, response>>
           ELSE \/ /\ dcam' = granted
                   /\ UNCHANGED <<phy, air, response>>
                \/ \E d \in TxDurations :
                     LET sent == P!Send(phy, air, d)
                     IN  /\ phy' = [sent EXCEPT !.calls = <<>>]
                         /\ dcam' \in Deliver(granted, sent.calls)
                         /\ UNCHANGED <<air, response>>
                \/ LET switched == P!SetChannelNumber(phy, ChannelSwitchDelay)
                   IN  /\ CanSwitch
                       /\ phy' = [switched EXCEPT !.calls = <<>>]
                       /\ dcam' \in Deliver(granted, switched.calls)
                       /\ air' = P!ResetSpectrumModel(phy, air)
                       /\ response' = -1

\* The response's event: StartTransmission sends it unless the PHY transmits.
SendResponse ==
    /\ Alive /\ response = 0 /\ phy.txEvent # 0
    /\ response' = -1
    /\ IF P!GetState(phy) = "TX"
       THEN UNCHANGED <<phy, air, dcam>>
       ELSE \E d \in TxDurations : P!StartTransmission(d)

\* A timer of the low MAC, rather than a grant, may change channels; either
\* way the response is cancelled.
SwitchChannel ==
    /\ Alive
    /\ P!SwitchChannel
    /\ response' = -1

PostponedSwitch ==
    /\ Alive
    /\ P!PostponedSwitch
    /\ response' = -1

\* ReceiveOk: a frame may set the NAV, and may want a response.
FrameEnds ==
    /\ Alive
    /\ \/ /\ P!FrameEnds(FALSE, <<>>)
          /\ UNCHANGED response
       \/ \E reaction \in Reactions :
            /\ P!FrameEnds(TRUE, reaction)
            /\ \/ UNCHANGED response
               \/ response < 0 /\ response' = Sifs

\* A fault: the low MAC's requests are not events of the simulator.
TickPastRequest ==
    /\ Alive /\ response # 0
    /\ P!Tick
    /\ dcam' = [dcam EXCEPT !.cam = D!Elapse(@), !.request = D!ElapseRequest(@)]
    /\ response' = P!Closer(response)

Tick ==
    /\ Alive /\ ~D!Due(dcam.request) /\ response # 0
    /\ P!Tick
    /\ dcam' = [dcam EXCEPT !.cam = D!Elapse(@), !.request = D!ElapseRequest(@)]
    /\ response' = P!Closer(response)

Init == P!Init /\ response = -1

Next ==
    \/ Alive /\ P!Reception /\ UNCHANGED response
    \/ FrameEnds
    \/ StartAccess
    \/ RequestAccessCallback
    \/ SendResponse
    \/ SwitchChannel
    \/ PostponedSwitch
    \/ Tick

Spec == Init /\ [][Next]_vars

---------------------------------------------------------------------------
(* What the two promise each other.                                        *)

\* The PHY's state, the manager's and the response have their types.
TypeOK ==
    /\ phy \in P!PhyType
    /\ air \in P!AirType
    /\ dcam.cam \in D!CamType
    /\ dcam.request \in {D!NoRequest} \cup [mode : D!Modes, left : Nat]
    /\ response \in {-1} \cup Nat

Left(t) == IF t > 0 THEN t ELSE 0

\* From the listener calls alone the manager knows to the end what the PHY
\* transmits, receives or switches, and never takes it to be busy with
\* energy longer than it is.
ManagerKnowsPhy ==
    Alive =>
      /\ Left(dcam.cam.end["tx"]) = Left(phy.endTx)
      /\ Left(dcam.cam.end["rx"]) = Left(phy.endRx)
      /\ Left(dcam.cam.end["switching"]) = Left(phy.endSwitching)
      /\ Left(dcam.cam.end["busy"]) <= Left(phy.endCca)

\* However the PHY's calls and the low MAC's requests interleave, a pending
\* request comes due no sooner than two SIFS after all the PHY is doing.
RequestWaitsForPhy ==
    Alive /\ D!Pending(dcam.request) =>
        \A busy \in {phy.endTx, phy.endRx, phy.endSwitching} :
            busy > 0 => dcam.request.left >= busy + 2 * Sifs

\* The assertion in RequestAccessCallback: a granted node finds its PHY idle.
GrantedWhenIdle == dcam.failed # "RequestAccessCallback"

\* The response a SIFS after a frame is never kept back by a transmission of
\* the node's own: no access is granted before it.
ResponseIsSent == Alive /\ response = 0 => P!GetState(phy) # "TX"

\* No assertion of the manager fails for what the PHY tells it: a transmission
\* never cuts off a reception more than a SIFS old, and the channel is not
\* changed twice at once or during a transmission.
CallsAreAccepted == dcam.failed \in {"none", "RequestAccessCallback"}

\* To the PHY the node is a MAC like any other: whatever grants, responses
\* and timers come together, none sends or changes channels while the PHY
\* still has a transmission to end, or a channel to change to.
Phy == INSTANCE MmWavePhy
        WITH listener <- 0, Told <- LAMBDA l, calls : {l}, ListenerInit <- 0,
             CanInterrupt <- TRUE

UsesPhyAsAllowed == Phy!Spec

=============================================================================
