------------------------------- MODULE MmWavePhy -------------------------------
(***************************************************************************)
(* A mmWave PHY: the reception of a frame in three stages (preamble, header*)
(* and payload), transmission, channel switching and energy detection,     *)
(* with the state helper that derives the PHY's state from the ends of its *)
(* last periods and notifies the MAC of every new one.                     *)
(*                                                                         *)
(* Times are relative to Simulator::Now (): the time left to an end or an  *)
(* event, -1 once the end has passed or when no event is scheduled.  The   *)
(* sleep and off states are left out: no caller puts a running PHY to sleep*)
(* and only a device that never takes part is switched off.  So is frame   *)
(* capture by a later frame: it needs a preamble detected in the first     *)
(* 656 ns of a frame, and detecting one takes 2918 ns.                     *)
(***************************************************************************)
EXTENDS Integers, Sequences, FiniteSets, FiniteSetsExt

CONSTANTS
    Signals,            \* names for the signals that are on the air at once
    NoSignal,           \* no signal: a null event
    PreambleDetection,  \* time to detect a preamble
    PreambleRest,       \* time from there to the header
    HeaderDuration,     \* length of the header
    CcaEdThreshold,     \* energy from which the channel counts as busy
    Powers,             \* the powers a signal may have
    FrameDurations,     \* lengths of frames, in time units
    NoiseDurations,     \* lengths of unrecognized signals
    TxDurations,        \* lengths of the frames this PHY sends
    ChannelSwitchDelay, \* time a channel switch takes
    CanSwitch,          \* whether the MAC changes channels
    CanInterrupt,       \* whether the MAC sends while the PHY is busy
    Reactions,          \* listener calls the MAC makes when given a frame
    ListenerInit,       \* the listener the state helper notifies, and
    Told(_, _)          \* what a sequence of calls may make of it

ASSUME PhyAssumption ==
    /\ IsFiniteSet(Signals) /\ NoSignal \notin Signals
    /\ PreambleDetection \in Nat \ {0}
    /\ PreambleRest \in Nat \ {0}
    /\ HeaderDuration \in Nat \ {0}
    /\ CcaEdThreshold \in Nat \ {0}
    /\ Powers \subseteq Nat \ {0}
    /\ \A d \in FrameDurations :
         d \in Nat /\ d > PreambleDetection + PreambleRest + HeaderDuration
    /\ NoiseDurations \subseteq Nat \ {0}
    /\ TxDurations \subseteq Nat \ {0}
    /\ ChannelSwitchDelay \in Nat \ {0}
    /\ CanSwitch \in BOOLEAN
    /\ CanInterrupt \in BOOLEAN

VARIABLES
    phy,    \* the PHY and its state helper, see PhyType
    air,    \* the signals that reach the PHY's antenna, see AirType
    listener \* the listener's state

vars == <<phy, air, listener>>

NoEvent == [left |-> -1, run |-> "none", of |-> NoSignal]
Event(left, run, of) == [left |-> left, run |-> run, of |-> of]
Running(e) == e.run # "none"

\* A signal: the time left of it, its power, and whether the interference
\* helper has it among its events.
Silence == [left |-> -1, power |-> 0, recorded |-> FALSE]

AirType == [Signals -> [left : Int, power : Nat, recorded : BOOLEAN]]

\* A scheduled event is never overdue.
Events(runs) == {NoEvent} \cup [left : Nat, run : runs, of : Signals]

PhyType ==
    [endTx : Int, endRx : Int, endSwitching : Int, endCca : Int,
     txEvent : Int,         \* m_endTxEvent
     switchEvent : Int,     \* a channel switch postponed by a transmission
     preamble : Events({"StartReceiveHeader"}),
     header : Events({"ContinueReceiveHeader", "StartReceivePayload"}),
     payload : Events({"EndReceive", "ResetReceive"}),
     current : Signals \cup {NoSignal},     \* m_currentEvent
     failed : {"none", "StartRx", "StartReceivePreamble", "StartReceiveHeader",
               "ContinueReceiveHeader", "StartReceivePayload", "EndReceive",
               "ResetReceive", "Send", "DoChannelSwitch"},
                            \* the NS_ASSERT that stopped the program
     calls : {<<>>}]        \* the listener calls of the step being made

PhyInit ==
    [endTx |-> -1, endRx |-> -1, endSwitching |-> -1, endCca |-> -1,
     txEvent |-> -1, switchEvent |-> -1,
     preamble |-> NoEvent, header |-> NoEvent, payload |-> NoEvent,
     current |-> NoSignal, failed |-> "none", calls |-> <<>>]

---------------------------------------------------------------------------
(* The state helper.                                                       *)

GetState(p) ==
    CASE p.endTx > 0 -> "TX"
      [] p.endTx <= 0 /\ p.endRx > 0 -> "RX"
      [] p.endTx <= 0 /\ p.endRx <= 0 /\ p.endSwitching > 0 -> "SWITCHING"
      [] p.endTx <= 0 /\ p.endRx <= 0 /\ p.endSwitching <= 0 /\ p.endCca > 0
           -> "CCA_BUSY"
      [] OTHER -> "IDLE"

GetDelayUntilIdle(p) ==
    CASE GetState(p) = "TX" -> p.endTx
      [] GetState(p) = "RX" -> p.endRx
      [] GetState(p) = "SWITCHING" -> p.endSwitching
      [] GetState(p) = "CCA_BUSY" -> p.endCca
      [] OTHER -> 0

IsReady(p) == GetState(p) \in {"IDLE", "CCA_BUSY"}

Tell(p, call) == [p EXCEPT !.calls = Append(@, call)]

\* An assertion in the code: the program stops where it fails.
Require(p, holds, name) == IF holds THEN p ELSE [p EXCEPT !.failed = name]

SwitchToTx(p, d) ==
    IF GetState(p) \in {"RX", "CCA_BUSY", "IDLE"}
    THEN Tell([p EXCEPT !.endRx = IF @ > 0 THEN 0 ELSE @, !.endTx = d],
              <<"TxStart", d>>)
    ELSE p

SwitchToRx(p, d) == Tell([p EXCEPT !.endRx = d], <<"RxStart", d>>)

SwitchToChannelSwitching(p, d) ==
    Tell([p EXCEPT !.endRx = IF @ > 0 THEN 0 ELSE @,
                   !.endCca = IF @ > 0 THEN 0 ELSE @,
                   !.endSwitching = d],
         <<"SwitchingStart", d>>)

\* A fault: the listeners are told before the state is looked at.
SwitchMaybeToCcaBusyToldEarly(p, d) ==
    IF GetState(p) = "RX"
    THEN Tell(p, <<"MaybeCcaBusyStart", d>>)
    ELSE Tell([p EXCEPT !.endCca = IF d > @ THEN d ELSE @],
              <<"MaybeCcaBusyStart", d>>)

SwitchMaybeToCcaBusy(p, d) ==
    IF GetState(p) = "RX"
    THEN p
    ELSE Tell([p EXCEPT !.endCca = IF d > @ THEN d ELSE @],
              <<"MaybeCcaBusyStart", d>>)

---------------------------------------------------------------------------
(* Energy and interference.                                                *)

\* The power on the air t time units from now, if nothing else is sent.
PowerAfter(a, t) == MapThenSumSet(LAMBDA s : a[s].power, {s \in Signals : a[s].left > t})

\* How long the power on the air stays at the threshold or above.
GetEnergyDuration(a) ==
    Min({t \in {0} \cup {a[s].left : s \in {r \in Signals : a[r].left > 0}} :
            PowerAfter(a, t) < CcaEdThreshold})

MaybeCcaBusyDuration(p, a) ==
    IF GetEnergyDuration(a) = 0
    THEN p
    ELSE SwitchMaybeToCcaBusy(p, GetEnergyDuration(a))

\* The guard most callers put before MaybeCcaBusyDuration: only when the
\* signal outlasts what the PHY is already busy with.
CcaIfOutlasts(p, a, s) ==
    IF a[s].left > GetDelayUntilIdle(p) THEN MaybeCcaBusyDuration(p, a) ELSE p

\* Signal s is one the PHY still refers to.
Referenced(p, s) ==
    s \in {p.current, p.preamble.of, p.header.of, p.payload.of}

\* Any request for another channel: the interference helper's bands are
\* built anew, without the events and the energy of the old ones.
ResetSpectrumModel(p, a) ==
    [s \in Signals |-> IF Referenced(p, s)
                       THEN [a[s] EXCEPT !.power = 0, !.recorded = FALSE]
                       ELSE Silence]

---------------------------------------------------------------------------
(* Reception.                                                              *)

\* A fault: the payload's event is not cancelled.
AbortCurrentReceptionKeepingPayload(p) ==
    [p EXCEPT !.preamble = NoEvent, !.header = NoEvent, !.current = NoSignal]

AbortCurrentReception(p) ==
    [p EXCEPT !.preamble = NoEvent, !.header = NoEvent, !.payload = NoEvent,
              !.current = NoSignal]

\* A frame the PHY may synchronize to: it does unless it is detecting the
\* preamble of a frame that is at least as strong.  That m_currentEvent is
\* set in the meantime is taken for granted: a null pointer ends the program.
StartRx(p, a, s) ==
    CASE Running(p.preamble) /\ p.current = NoSignal -> Require(p, FALSE, "StartRx")
      [] Running(p.preamble) /\ p.current # NoSignal
         /\ a[s].power <= a[p.current].power -> p
      [] OTHER ->
           [p EXCEPT !.preamble = Event(PreambleDetection, "StartReceiveHeader", s),
                     !.current = s]

\* A fault: a busy PHY synchronizes to any frame.
StartReceivePreambleWhenBusy(p, a, s) ==
    IF IsReady(p) THEN StartRx(p, a, s) ELSE CcaIfOutlasts(p, a, s)

StartReceivePreamble(p, a, s) ==
    CASE GetState(p) = "IDLE" -> StartRx(p, a, s)
      [] GetState(p) = "CCA_BUSY" /\ p.current = NoSignal -> StartRx(p, a, s)
      [] GetState(p) = "RX" /\ p.current = NoSignal
           -> Require(p, FALSE, "StartReceivePreamble")
      [] OTHER -> CcaIfOutlasts(p, a, s)

\* The frame whose preamble ends is the one being received; it is detected
\* or not, as its signal to noise ratio has it.
StartReceiveHeader(p0, a, detected) ==
    LET s == p0.preamble.of
        p == Require([p0 EXCEPT !.preamble = NoEvent],
                    /\ GetState(p0) # "RX" /\ ~Running(p0.header)
                    /\ p0.current = s /\ a[s].recorded, "StartReceiveHeader")
    IN  IF detected
        THEN [SwitchMaybeToCcaBusy(p, PreambleRest) EXCEPT
                !.header = Event(PreambleRest, "ContinueReceiveHeader", s)]
        ELSE CcaIfOutlasts([p EXCEPT !.current = NoSignal], a, s)

ContinueReceiveHeader(p0, a, decoded) ==
    LET s == p0.header.of
        p == Require([p0 EXCEPT !.header = NoEvent], a[s].recorded,
                    "ContinueReceiveHeader")
    IN  IF decoded
        THEN [SwitchMaybeToCcaBusy(p, a[s].left) EXCEPT
                !.header = Event(HeaderDuration, "StartReceivePayload", s)]
        ELSE CcaIfOutlasts(AbortCurrentReception(p), a, s)

\* A fault: the preamble and the header are subtracted from a duration that
\* no longer holds them.
StartReceivePayloadShortened(p0, a, receivable) ==
    LET s == p0.header.of
        d == a[s].left - PreambleDetection - PreambleRest - HeaderDuration
    IN  IF receivable
        THEN [SwitchToRx([p0 EXCEPT !.header = NoEvent], d) EXCEPT
                !.payload = Event(d, "EndReceive", s)]
        ELSE [p0 EXCEPT !.header = NoEvent,
                        !.payload = Event(d, "ResetReceive", s)]

\* The payload lasts as long as the frame; one that cannot be received
\* (its header failed, or its mode is not supported) is waited out.
StartReceivePayload(p0, a, receivable) ==
    LET s == p0.header.of
        p == Require([p0 EXCEPT !.header = NoEvent],
                    ~Running(p0.payload) /\ a[s].recorded
                      /\ (receivable => IsReady(p0)),
                    "StartReceivePayload")
    IN  IF receivable
        THEN [SwitchToRx(p, a[s].left) EXCEPT
                !.payload = Event(a[s].left, "EndReceive", s)]
        ELSE [p EXCEPT !.payload = Event(a[s].left, "ResetReceive", s)]

\* A fault: the PHY does not look at the energy that is left.
EndReceiveWithoutCca(p0, a, ok, reaction) ==
    [p0 EXCEPT !.payload = NoEvent, !.current = NoSignal,
               !.calls = <<<<IF ok THEN "RxEndOk" ELSE "RxEndError", 0>>>> \o reaction]

\* The listener is told, and the MAC given the frame, before the PHY looks
\* at the energy that is left.
EndReceive(p0, a, ok, reaction) ==
    LET s == p0.payload.of
        p == Require([p0 EXCEPT !.payload = NoEvent],
                    p0.endRx = 0 /\ a[s].left = 0 /\ a[s].recorded /\ IsReady(p0),
                    "EndReceive")
        told == Tell(p, <<IF ok THEN "RxEndOk" ELSE "RxEndError", 0>>)
        handed == [told EXCEPT !.calls = @ \o reaction, !.current = NoSignal]
    IN  MaybeCcaBusyDuration(handed, a)

\* A fault: the PHY still refers to the frame it has waited out.
ResetReceiveKeepingEvent(p0, a) ==
    MaybeCcaBusyDuration([p0 EXCEPT !.payload = NoEvent], a)

ResetReceive(p0, a) ==
    LET s == p0.payload.of
        p == Require([p0 EXCEPT !.payload = NoEvent],
                    a[s].left = 0 /\ GetState(p0) # "RX", "ResetReceive")
    IN  MaybeCcaBusyDuration([p EXCEPT !.current = NoSignal], a)

---------------------------------------------------------------------------
(* Transmission and channel switching.                                     *)

Send(p0, a, d) ==
    LET p == Require(p0, GetState(p0) \notin {"TX", "SWITCHING"} /\ p0.txEvent < 0,
                    "Send")
        noise == IF p.current # NoSignal THEN CcaIfOutlasts(p, a, p.current) ELSE p
        free == IF p.current # NoSignal THEN AbortCurrentReception(noise) ELSE noise
    IN  [SwitchToTx(free, d) EXCEPT !.txEvent = d]

\* A fault: only a reception in its preamble is cancelled.
CancelledInPreamble(p) ==
    IF Running(p.preamble) THEN [p EXCEPT !.preamble = NoEvent] ELSE p

\* DoChannelSwitch: a reception in its payload is cancelled, and so is one
\* still in its preamble; one in between is not, and m_currentEvent stays.
Cancelled(p) ==
    CASE GetState(p) = "RX"
           -> [p EXCEPT !.preamble = NoEvent, !.header = NoEvent,
                        !.payload = NoEvent]
      [] GetState(p) # "RX" /\ Running(p.preamble)
           -> [p EXCEPT !.preamble = NoEvent, !.payload = NoEvent]
      [] OTHER -> p

\* A fault: a switch asked for during a transmission is dropped after it.
SetChannelNumberOnce(p, d) ==
    CASE GetState(p) = "TX" -> [p EXCEPT !.switchEvent = p.endTx]
      [] GetState(p) # "TX" /\ p.txEvent = 0 -> p
      [] OTHER -> SwitchToChannelSwitching(Cancelled(p), d)

\* A fault: a switch does not wait for a transmission.
SetChannelNumberAtOnce(p, d) ==
    IF GetState(p) = "SWITCHING"
    THEN Require(p, FALSE, "DoChannelSwitch")
    ELSE SwitchToChannelSwitching(Cancelled(p), d)

SetChannelNumber(p, d) ==
    CASE GetState(p) = "TX" -> [p EXCEPT !.switchEvent = p.endTx]
      [] GetState(p) = "SWITCHING" -> Require(p, FALSE, "DoChannelSwitch")
      [] OTHER -> SwitchToChannelSwitching(Cancelled(p), d)

---------------------------------------------------------------------------
(* The events, and what the MAC and the air do.                            *)

\* One unit of time: every end and event comes one unit closer.
Closer(t) == IF t > 0 THEN t - 1 ELSE -1
Sooner(e) == IF Running(e) THEN [e EXCEPT !.left = @ - 1] ELSE e

ElapsePhy(p) ==
    [p EXCEPT !.endTx = Closer(@), !.endRx = Closer(@),
              !.endSwitching = Closer(@), !.endCca = Closer(@),
              !.txEvent = Closer(@), !.switchEvent = Closer(@),
              !.preamble = Sooner(@), !.header = Sooner(@), !.payload = Sooner(@)]

\* A signal that is over is forgotten, but for one the PHY refers to.
ElapseAir(p, a) ==
    [s \in Signals |->
        IF a[s].left <= 0 /\ ~Referenced(p, s)
        THEN Silence
        ELSE [a[s] EXCEPT !.left = Closer(@)]]

EventDue(p) ==
    \/ p.txEvent = 0
    \/ p.switchEvent = 0
    \/ \E e \in {p.preamble, p.header, p.payload} : Running(e) /\ e.left = 0

Due(e, run) == e.run = run /\ e.left = 0

\* A failed assertion ends the program.
Alive == phy.failed = "none"

\* The step leaves the PHY as p, once the listener has had its calls.
Becomes(p) ==
    /\ phy' = [p EXCEPT !.calls = <<>>]
    /\ listener' \in Told(listener, p.calls)

\* A signal reaches the antenna.  Its arrival is scheduled no earlier than
\* any event of the PHY due at the same instant, so it comes after them.
Arrives(s, d, power) ==
    /\ Alive /\ ~EventDue(phy)
    /\ air[s] = Silence /\ ~Referenced(phy, s)
    /\ air' = [air EXCEPT ![s] = [left |-> d, power |-> power, recorded |-> TRUE]]

FrameArrives(s, d, power) ==
    /\ Arrives(s, d, power)
    /\ Becomes(StartReceivePreamble(phy, air', s))

NoiseArrives(s, d, power) ==
    /\ Arrives(s, d, power)
    /\ Becomes(CcaIfOutlasts(phy, air', s))

PreambleEnds(detected) ==
    /\ Alive /\ Due(phy.preamble, "StartReceiveHeader")
    /\ Becomes(StartReceiveHeader(phy, air, detected))
    /\ UNCHANGED air

HeaderStarts(decoded) ==
    /\ Alive /\ Due(phy.header, "ContinueReceiveHeader")
    /\ Becomes(ContinueReceiveHeader(phy, air, decoded))
    /\ UNCHANGED air

PayloadStarts(receivable) ==
    /\ Alive /\ Due(phy.header, "StartReceivePayload")
    /\ Becomes(StartReceivePayload(phy, air, receivable))
    /\ UNCHANGED air

FrameEnds(ok, reaction) ==
    /\ Alive /\ Due(phy.payload, "EndReceive")
    /\ Becomes(EndReceive(phy, air, ok, reaction))
    /\ UNCHANGED air

UnreceivedFrameEnds ==
    /\ Alive /\ Due(phy.payload, "ResetReceive")
    /\ Becomes(ResetReceive(phy, air))
    /\ UNCHANGED air

NotifyTxEnd ==
    /\ Alive /\ phy.txEvent = 0
    /\ Becomes([phy EXCEPT !.txEvent = -1])
    /\ UNCHANGED air

\* CrMmWaveMacLow::StartTransmission: nothing is sent during a transmission,
\* nor while the MAC waits for a channel switch.  A MAC that does not
\* interrupt sends only when the PHY is idle or detecting a preamble.
MaySend ==
    /\ Alive /\ phy.txEvent < 0 /\ phy.switchEvent < 0
    /\ GetState(phy) \notin {"TX", "SWITCHING"}
    /\ \/ CanInterrupt
       \/ GetState(phy) = "IDLE" /\ ~Running(phy.header) /\ ~Running(phy.payload)

StartTransmission(d) ==
    /\ MaySend
    /\ Becomes(Send(phy, air, d))
    /\ UNCHANGED air

MaySwitch ==
    /\ Alive /\ CanSwitch
    /\ GetState(phy) # "SWITCHING" /\ phy.switchEvent < 0

SwitchChannel ==
    /\ MaySwitch
    /\ air' = ResetSpectrumModel(phy, air)
    /\ Becomes(SetChannelNumber(phy, ChannelSwitchDelay))

PostponedSwitch ==
    /\ Alive /\ phy.switchEvent = 0
    /\ air' = ResetSpectrumModel(phy, air)
    /\ Becomes(SetChannelNumber([phy EXCEPT !.switchEvent = -1], ChannelSwitchDelay))

\* The time passes that no event is due in.
Tick ==
    /\ Alive /\ ~EventDue(phy)
    /\ phy' = ElapsePhy(phy)
    /\ air' = ElapseAir(phy, air)

Reception ==
    \/ \E s \in Signals, power \in Powers :
        \/ \E d \in FrameDurations : FrameArrives(s, d, power)
        \/ \E d \in NoiseDurations : NoiseArrives(s, d, power)
    \/ \E b \in BOOLEAN : PreambleEnds(b) \/ HeaderStarts(b) \/ PayloadStarts(b)
    \/ UnreceivedFrameEnds
    \/ NotifyTxEnd

Init ==
    /\ phy = PhyInit
    /\ air = [s \in Signals |-> Silence]
    /\ listener = ListenerInit

Next ==
    \/ Reception
    \/ \E ok \in BOOLEAN, reaction \in Reactions : FrameEnds(ok, reaction)
    \/ \E d \in TxDurations : StartTransmission(d)
    \/ SwitchChannel
    \/ PostponedSwitch
    \/ Tick /\ UNCHANGED listener

Spec == Init /\ [][Next]_vars

\* Time passes, and no event stays due: the simulator runs every one.
FairSpec ==
    Spec /\ WF_vars(Tick /\ UNCHANGED listener) /\ []<>(Alive => ~EventDue(phy))

---------------------------------------------------------------------------
(* What the PHY promises.                                                  *)

\* The PHY's members and the signals have their types.
TypeOK == phy \in PhyType /\ air \in AirType

\* No NS_ASSERT of the reception and transmission code fails: each stage of
\* a reception finds the frame, the state and the events it expects.
NoAssertionFails == phy.failed = "none"

\* A reception is in one stage at a time, and m_currentEvent is its frame.
Stages(p) == {e \in {p.preamble, p.header, p.payload} : Running(e)}
OneReception ==
    \A e, f \in Stages(phy) : e = f /\ e.of = phy.current

\* A frame that arrives when the PHY is busy is dropped "because already in
\* Rx" only if a frame is in fact being received.
BusyMeansReceiving ==
    GetState(phy) = "CCA_BUSY" /\ phy.current # NoSignal => Stages(phy) # {}

\* No payload is being received of a frame that was sent on another channel:
\* a channel switch that comes before its end cancels it.
ReceivedOnThisChannel ==
    Alive /\ phy.payload.run = "EndReceive" /\ phy.payload.left > 0
        => air[phy.payload.of].recorded

\* Energy above the threshold is never forgotten: a PHY that is idle, and
\* not in the first stage of a reception, hears none.
IdleMeansQuiet ==
    Alive /\ GetState(phy) = "IDLE" /\ phy.current = NoSignal /\ ~EventDue(phy)
        => GetEnergyDuration(air) = 0

\* Every reception comes to an end: whatever fails on the way, the PHY lets
\* go of the frame and can synchronize to another.
EveryReceptionEnds ==
    \A s \in Signals : phy.current = s ~> phy.current # s

\* A channel switch that is asked for during a transmission is made after
\* it, unless an assertion has ended the program.
PostponedSwitchIsMade ==
    phy.switchEvent >= 0 ~> GetState(phy) = "SWITCHING" \/ ~Alive

=============================================================================
