--------------------------- MODULE CrPhyAccess_proofs ---------------------------
(***************************************************************************)
(* Proofs about a node's PHY and access manager together, for every value  *)
(* of the constants: to the PHY the node is a MAC like any other, the      *)
(* manager knows what the PHY does, no assertion about its calls fails,    *)
(* and neither a grant nor a response meets a transmission.                *)
(***************************************************************************)
EXTENDS CrPhyAccess, NumberLemmas

\* What is proved of a PHY with any MAC holds of this one.
T == INSTANCE MmWavePhy_proofs
        WITH listener <- 0, Told <- LAMBDA l, calls : {l}, ListenerInit <- 0,
             CanInterrupt <- TRUE

LEMMA Constants ==
    /\ T!IsFiniteSet(Signals) /\ NoSignal \notin Signals
    /\ PreambleDetection \in Nat \ {0} /\ PreambleRest \in Nat \ {0}
    /\ HeaderDuration \in Nat \ {0} /\ CcaEdThreshold \in Nat \ {0}
    /\ Powers \subseteq Nat \ {0}
    /\ \A d \in FrameDurations :
         d \in Nat /\ d > PreambleDetection + PreambleRest + HeaderDuration
    /\ NoiseDurations \subseteq Nat \ {0} /\ TxDurations \subseteq Nat \ {0}
    /\ ChannelSwitchDelay \in Nat \ {0} /\ CanSwitch \in BOOLEAN /\ TRUE \in BOOLEAN
    /\ Sifs \in Nat \ {0} /\ NavDurations \subseteq Nat
  BY PhyAccessAssumption DEF T!IsFiniteSet, IsFiniteSet

---------------------------------------------------------------------------
(* The three instances of the PHY have the same handlers.                  *)

LEMMA SameTypes ==
    /\ P!AirType = T!AirType /\ P!PhyType = T!PhyType
    /\ P!NoEvent = T!NoEvent /\ P!Silence = T!Silence /\ P!PhyInit = T!PhyInit
  <1>1. \A runs : P!Events(runs) = T!Events(runs)
    BY DEF P!Events, T!Events, P!NoEvent, T!NoEvent
  <1> QED
    BY <1>1, Zenon DEF P!AirType, T!AirType, P!PhyType, T!PhyType, P!NoEvent, T!NoEvent,
                       P!Silence, T!Silence, P!PhyInit, T!PhyInit

LEMMA SameGetState ==
    ASSUME NEW p
    PROVE  /\ P!GetState(p) = T!GetState(p)
           /\ Phy!GetState(p) = T!GetState(p)
  BY Zenon DEF
        P!GetState, T!GetState, Phy!GetState

LEMMA SameGetEnergyDuration ==
    ASSUME NEW a
    PROVE  /\ P!GetEnergyDuration(a) = T!GetEnergyDuration(a)
           /\ Phy!GetEnergyDuration(a) = T!GetEnergyDuration(a)
  BY Zenon DEF
        P!GetEnergyDuration, T!GetEnergyDuration, Phy!GetEnergyDuration, P!PowerAfter,
        T!PowerAfter, Phy!PowerAfter, P!MapThenSumSet, T!MapThenSumSet, Phy!MapThenSumSet,
        P!MapThenFoldSet, T!MapThenFoldSet, Phy!MapThenFoldSet, P!Min, T!Min, Phy!Min

LEMMA SameEventDue ==
    ASSUME NEW p
    PROVE  /\ P!EventDue(p) = T!EventDue(p)
           /\ Phy!EventDue(p) = T!EventDue(p)
  BY Zenon DEF
        P!EventDue, T!EventDue, Phy!EventDue, P!Running, T!Running, Phy!Running

LEMMA SameResetSpectrumModel ==
    ASSUME NEW p, NEW a
    PROVE  /\ P!ResetSpectrumModel(p, a) = T!ResetSpectrumModel(p, a)
           /\ Phy!ResetSpectrumModel(p, a) = T!ResetSpectrumModel(p, a)
  BY Zenon DEF
        P!ResetSpectrumModel, T!ResetSpectrumModel, Phy!ResetSpectrumModel, P!Referenced,
        T!Referenced, Phy!Referenced, P!Silence, T!Silence, Phy!Silence

LEMMA SameElapsePhy ==
    ASSUME NEW p
    PROVE  /\ P!ElapsePhy(p) = T!ElapsePhy(p)
           /\ Phy!ElapsePhy(p) = T!ElapsePhy(p)
  BY Zenon DEF
        P!ElapsePhy, T!ElapsePhy, Phy!ElapsePhy, P!Closer, T!Closer, Phy!Closer, P!Sooner,
        T!Sooner, Phy!Sooner, P!Running, T!Running, Phy!Running

LEMMA SameElapseAir ==
    ASSUME NEW p, NEW a
    PROVE  /\ P!ElapseAir(p, a) = T!ElapseAir(p, a)
           /\ Phy!ElapseAir(p, a) = T!ElapseAir(p, a)
  BY Zenon DEF
        P!ElapseAir, T!ElapseAir, Phy!ElapseAir, P!Closer, T!Closer, Phy!Closer,
        P!Referenced, T!Referenced, Phy!Referenced, P!Silence, T!Silence, Phy!Silence

LEMMA SameCcaIfOutlasts ==
    ASSUME NEW p, NEW a, NEW s
    PROVE  /\ P!CcaIfOutlasts(p, a, s) = T!CcaIfOutlasts(p, a, s)
           /\ Phy!CcaIfOutlasts(p, a, s) = T!CcaIfOutlasts(p, a, s)
  BY Zenon DEF
        P!CcaIfOutlasts, T!CcaIfOutlasts, Phy!CcaIfOutlasts, P!GetDelayUntilIdle,
        T!GetDelayUntilIdle, Phy!GetDelayUntilIdle, P!GetState, T!GetState, Phy!GetState,
        P!MaybeCcaBusyDuration, T!MaybeCcaBusyDuration, Phy!MaybeCcaBusyDuration,
        P!GetEnergyDuration, T!GetEnergyDuration, Phy!GetEnergyDuration, P!PowerAfter,
        T!PowerAfter, Phy!PowerAfter, P!SwitchMaybeToCcaBusy, T!SwitchMaybeToCcaBusy,
        Phy!SwitchMaybeToCcaBusy, P!Tell, T!Tell, Phy!Tell, P!MapThenSumSet,
        T!MapThenSumSet, Phy!MapThenSumSet, P!MapThenFoldSet, T!MapThenFoldSet,
        Phy!MapThenFoldSet, P!Min, T!Min, Phy!Min

LEMMA SameStartReceivePreamble ==
    ASSUME NEW p, NEW a, NEW s
    PROVE  /\ P!StartReceivePreamble(p, a, s) = T!StartReceivePreamble(p, a, s)
           /\ Phy!StartReceivePreamble(p, a, s) = T!StartReceivePreamble(p, a, s)
  BY Zenon DEF
        P!StartReceivePreamble, T!StartReceivePreamble, Phy!StartReceivePreamble,
        P!GetState, T!GetState, Phy!GetState, P!StartRx, T!StartRx, Phy!StartRx, P!Running,
        T!Running, Phy!Running, P!Require, T!Require, Phy!Require, P!Event, T!Event,
        Phy!Event, P!StartReceiveHeader, T!StartReceiveHeader, Phy!StartReceiveHeader,
        P!NoEvent, T!NoEvent, Phy!NoEvent, P!SwitchMaybeToCcaBusy, T!SwitchMaybeToCcaBusy,
        Phy!SwitchMaybeToCcaBusy, P!Tell, T!Tell, Phy!Tell, P!ContinueReceiveHeader,
        T!ContinueReceiveHeader, Phy!ContinueReceiveHeader, P!StartReceivePayload,
        T!StartReceivePayload, Phy!StartReceivePayload, P!IsReady, T!IsReady, Phy!IsReady,
        P!SwitchToRx, T!SwitchToRx, Phy!SwitchToRx, P!EndReceive, T!EndReceive,
        Phy!EndReceive, P!MaybeCcaBusyDuration, T!MaybeCcaBusyDuration,
        Phy!MaybeCcaBusyDuration, P!GetEnergyDuration, T!GetEnergyDuration,
        Phy!GetEnergyDuration, P!PowerAfter, T!PowerAfter, Phy!PowerAfter, P!ResetReceive,
        T!ResetReceive, Phy!ResetReceive, P!CcaIfOutlasts, T!CcaIfOutlasts,
        Phy!CcaIfOutlasts, P!GetDelayUntilIdle, T!GetDelayUntilIdle, Phy!GetDelayUntilIdle,
        P!AbortCurrentReception, T!AbortCurrentReception, Phy!AbortCurrentReception,
        P!MapThenSumSet, T!MapThenSumSet, Phy!MapThenSumSet, P!MapThenFoldSet,
        T!MapThenFoldSet, Phy!MapThenFoldSet, P!Min, T!Min, Phy!Min

LEMMA SameStartReceiveHeader ==
    ASSUME NEW p0, NEW a, NEW detected
    PROVE  /\ P!StartReceiveHeader(p0, a, detected) = T!StartReceiveHeader(p0, a, detected)
           /\ Phy!StartReceiveHeader(p0, a, detected) = T!StartReceiveHeader(p0, a, detected)
  BY Zenon DEF
        P!StartReceiveHeader, T!StartReceiveHeader, Phy!StartReceiveHeader, P!Require,
        T!Require, Phy!Require, P!NoEvent, T!NoEvent, Phy!NoEvent, P!GetState, T!GetState,
        Phy!GetState, P!Running, T!Running, Phy!Running, P!SwitchMaybeToCcaBusy,
        T!SwitchMaybeToCcaBusy, Phy!SwitchMaybeToCcaBusy, P!Tell, T!Tell, Phy!Tell, P!Event,
        T!Event, Phy!Event, P!ContinueReceiveHeader, T!ContinueReceiveHeader,
        Phy!ContinueReceiveHeader, P!StartReceivePayload, T!StartReceivePayload,
        Phy!StartReceivePayload, P!IsReady, T!IsReady, Phy!IsReady, P!SwitchToRx,
        T!SwitchToRx, Phy!SwitchToRx, P!EndReceive, T!EndReceive, Phy!EndReceive,
        P!MaybeCcaBusyDuration, T!MaybeCcaBusyDuration, Phy!MaybeCcaBusyDuration,
        P!GetEnergyDuration, T!GetEnergyDuration, Phy!GetEnergyDuration, P!PowerAfter,
        T!PowerAfter, Phy!PowerAfter, P!ResetReceive, T!ResetReceive, Phy!ResetReceive,
        P!CcaIfOutlasts, T!CcaIfOutlasts, Phy!CcaIfOutlasts, P!GetDelayUntilIdle,
        T!GetDelayUntilIdle, Phy!GetDelayUntilIdle, P!AbortCurrentReception,
        T!AbortCurrentReception, Phy!AbortCurrentReception, P!MapThenSumSet,
        T!MapThenSumSet, Phy!MapThenSumSet, P!MapThenFoldSet, T!MapThenFoldSet,
        Phy!MapThenFoldSet, P!Min, T!Min, Phy!Min

LEMMA SameContinueReceiveHeader ==
    ASSUME NEW p0, NEW a, NEW decoded
    PROVE  /\ P!ContinueReceiveHeader(p0, a, decoded) = T!ContinueReceiveHeader(p0, a, decoded)
           /\ Phy!ContinueReceiveHeader(p0, a, decoded) = T!ContinueReceiveHeader(p0, a, decoded)
  BY Zenon DEF
        P!ContinueReceiveHeader, T!ContinueReceiveHeader, Phy!ContinueReceiveHeader,
        P!Require, T!Require, Phy!Require, P!NoEvent, T!NoEvent, Phy!NoEvent,
        P!SwitchMaybeToCcaBusy, T!SwitchMaybeToCcaBusy, Phy!SwitchMaybeToCcaBusy,
        P!GetState, T!GetState, Phy!GetState, P!Tell, T!Tell, Phy!Tell, P!Event, T!Event,
        Phy!Event, P!StartReceivePayload, T!StartReceivePayload, Phy!StartReceivePayload,
        P!Running, T!Running, Phy!Running, P!IsReady, T!IsReady, Phy!IsReady, P!SwitchToRx,
        T!SwitchToRx, Phy!SwitchToRx, P!EndReceive, T!EndReceive, Phy!EndReceive,
        P!MaybeCcaBusyDuration, T!MaybeCcaBusyDuration, Phy!MaybeCcaBusyDuration,
        P!GetEnergyDuration, T!GetEnergyDuration, Phy!GetEnergyDuration, P!PowerAfter,
        T!PowerAfter, Phy!PowerAfter, P!ResetReceive, T!ResetReceive, Phy!ResetReceive,
        P!CcaIfOutlasts, T!CcaIfOutlasts, Phy!CcaIfOutlasts, P!GetDelayUntilIdle,
        T!GetDelayUntilIdle, Phy!GetDelayUntilIdle, P!AbortCurrentReception,
        T!AbortCurrentReception, Phy!AbortCurrentReception, P!MapThenSumSet,
        T!MapThenSumSet, Phy!MapThenSumSet, P!MapThenFoldSet, T!MapThenFoldSet,
        Phy!MapThenFoldSet, P!Min, T!Min, Phy!Min

LEMMA SameStartReceivePayload ==
    ASSUME NEW p0, NEW a, NEW receivable
    PROVE  /\ P!StartReceivePayload(p0, a, receivable) = T!StartReceivePayload(p0, a, receivable)
           /\ Phy!StartReceivePayload(p0, a, receivable) = T!StartReceivePayload(p0, a, receivable)
  BY Zenon DEF
        P!StartReceivePayload, T!StartReceivePayload, Phy!StartReceivePayload, P!Require,
        T!Require, Phy!Require, P!NoEvent, T!NoEvent, Phy!NoEvent, P!Running, T!Running,
        Phy!Running, P!IsReady, T!IsReady, Phy!IsReady, P!GetState, T!GetState,
        Phy!GetState, P!SwitchToRx, T!SwitchToRx, Phy!SwitchToRx, P!Tell, T!Tell, Phy!Tell,
        P!Event, T!Event, Phy!Event, P!EndReceive, T!EndReceive, Phy!EndReceive,
        P!MaybeCcaBusyDuration, T!MaybeCcaBusyDuration, Phy!MaybeCcaBusyDuration,
        P!GetEnergyDuration, T!GetEnergyDuration, Phy!GetEnergyDuration, P!PowerAfter,
        T!PowerAfter, Phy!PowerAfter, P!SwitchMaybeToCcaBusy, T!SwitchMaybeToCcaBusy,
        Phy!SwitchMaybeToCcaBusy, P!ResetReceive, T!ResetReceive, Phy!ResetReceive,
        P!MapThenSumSet, T!MapThenSumSet, Phy!MapThenSumSet, P!MapThenFoldSet,
        T!MapThenFoldSet, Phy!MapThenFoldSet, P!Min, T!Min, Phy!Min

LEMMA SameEndReceive ==
    ASSUME NEW p0, NEW a, NEW ok, NEW reaction
    PROVE  /\ P!EndReceive(p0, a, ok, reaction) = T!EndReceive(p0, a, ok, reaction)
           /\ Phy!EndReceive(p0, a, ok, reaction) = T!EndReceive(p0, a, ok, reaction)
  BY Zenon DEF
        P!EndReceive, T!EndReceive, Phy!EndReceive, P!Require, T!Require, Phy!Require,
        P!NoEvent, T!NoEvent, Phy!NoEvent, P!IsReady, T!IsReady, Phy!IsReady, P!GetState,
        T!GetState, Phy!GetState, P!Tell, T!Tell, Phy!Tell, P!MaybeCcaBusyDuration,
        T!MaybeCcaBusyDuration, Phy!MaybeCcaBusyDuration, P!GetEnergyDuration,
        T!GetEnergyDuration, Phy!GetEnergyDuration, P!PowerAfter, T!PowerAfter,
        Phy!PowerAfter, P!SwitchMaybeToCcaBusy, T!SwitchMaybeToCcaBusy,
        Phy!SwitchMaybeToCcaBusy, P!MapThenSumSet, T!MapThenSumSet, Phy!MapThenSumSet,
        P!MapThenFoldSet, T!MapThenFoldSet, Phy!MapThenFoldSet, P!Min, T!Min, Phy!Min

LEMMA SameResetReceive ==
    ASSUME NEW p0, NEW a
    PROVE  /\ P!ResetReceive(p0, a) = T!ResetReceive(p0, a)
           /\ Phy!ResetReceive(p0, a) = T!ResetReceive(p0, a)
  BY Zenon DEF
        P!ResetReceive, T!ResetReceive, Phy!ResetReceive, P!Require, T!Require, Phy!Require,
        P!NoEvent, T!NoEvent, Phy!NoEvent, P!GetState, T!GetState, Phy!GetState,
        P!MaybeCcaBusyDuration, T!MaybeCcaBusyDuration, Phy!MaybeCcaBusyDuration,
        P!GetEnergyDuration, T!GetEnergyDuration, Phy!GetEnergyDuration, P!PowerAfter,
        T!PowerAfter, Phy!PowerAfter, P!SwitchMaybeToCcaBusy, T!SwitchMaybeToCcaBusy,
        Phy!SwitchMaybeToCcaBusy, P!Tell, T!Tell, Phy!Tell, P!MapThenSumSet,
        T!MapThenSumSet, Phy!MapThenSumSet, P!MapThenFoldSet, T!MapThenFoldSet,
        Phy!MapThenFoldSet, P!Min, T!Min, Phy!Min

LEMMA SameSend ==
    ASSUME NEW p0, NEW a, NEW d
    PROVE  /\ P!Send(p0, a, d) = T!Send(p0, a, d)
           /\ Phy!Send(p0, a, d) = T!Send(p0, a, d)
  <1>1. P!Send(p0, a, d) = T!Send(p0, a, d)
    BY Zenon DEF
        P!Send, T!Send, P!Require, T!Require, P!GetState, T!GetState, P!CcaIfOutlasts,
        T!CcaIfOutlasts, P!GetDelayUntilIdle, T!GetDelayUntilIdle, P!MaybeCcaBusyDuration,
        T!MaybeCcaBusyDuration, P!GetEnergyDuration, T!GetEnergyDuration, P!PowerAfter,
        T!PowerAfter, P!SwitchMaybeToCcaBusy, T!SwitchMaybeToCcaBusy, P!Tell, T!Tell,
        P!AbortCurrentReception, T!AbortCurrentReception, P!NoEvent, T!NoEvent,
        P!SwitchToTx, T!SwitchToTx, P!MapThenSumSet, T!MapThenSumSet, P!MapThenFoldSet,
        T!MapThenFoldSet, P!Min, T!Min
  <1>2. Phy!Send(p0, a, d) = T!Send(p0, a, d)
    BY Zenon DEF
        Phy!Send, T!Send, Phy!Require, T!Require, Phy!GetState, T!GetState,
        Phy!CcaIfOutlasts, T!CcaIfOutlasts, Phy!GetDelayUntilIdle, T!GetDelayUntilIdle,
        Phy!MaybeCcaBusyDuration, T!MaybeCcaBusyDuration, Phy!GetEnergyDuration,
        T!GetEnergyDuration, Phy!PowerAfter, T!PowerAfter, Phy!SwitchMaybeToCcaBusy,
        T!SwitchMaybeToCcaBusy, Phy!Tell, T!Tell, Phy!AbortCurrentReception,
        T!AbortCurrentReception, Phy!NoEvent, T!NoEvent, Phy!SwitchToTx, T!SwitchToTx,
        Phy!MapThenSumSet, T!MapThenSumSet, Phy!MapThenFoldSet, T!MapThenFoldSet, Phy!Min,
        T!Min
  <1> QED
    BY <1>1, <1>2

LEMMA SameSetChannelNumber ==
    ASSUME NEW p, NEW d
    PROVE  /\ P!SetChannelNumber(p, d) = T!SetChannelNumber(p, d)
           /\ Phy!SetChannelNumber(p, d) = T!SetChannelNumber(p, d)
  BY Zenon DEF
        P!SetChannelNumber, T!SetChannelNumber, Phy!SetChannelNumber, P!GetState,
        T!GetState, Phy!GetState, P!Require, T!Require, Phy!Require,
        P!SwitchToChannelSwitching, T!SwitchToChannelSwitching,
        Phy!SwitchToChannelSwitching, P!Tell, T!Tell, Phy!Tell, P!Cancelled, T!Cancelled,
        Phy!Cancelled, P!NoEvent, T!NoEvent, Phy!NoEvent, P!Running, T!Running, Phy!Running

---------------------------------------------------------------------------
(* Every step of the PHY that the node takes is one of the PHY's own.      *)

LEMMA BecomesIsPhys ==
    ASSUME NEW q, P!Becomes(q)
    PROVE  T!Becomes(q)
  <1>1. 0' \in {0}
    OBVIOUS
  <1> QED
    BY <1>1 DEF P!Becomes, T!Becomes

LEMMA ReceptionIsPhys ==
    ASSUME P!Reception
    PROVE  T!Reception
  <1>1. ASSUME NEW s \in Signals, NEW power \in Powers, NEW d, P!Arrives(s, d, power)
        PROVE  T!Arrives(s, d, power)
    BY <1>1, SameEventDue, Zenon
       DEF P!Arrives, T!Arrives, P!Alive, T!Alive, P!Silence, T!Silence, P!Referenced,
           T!Referenced
  <1>2. ASSUME NEW s \in Signals, NEW power \in Powers, NEW d \in FrameDurations,
               P!FrameArrives(s, d, power)
        PROVE  T!FrameArrives(s, d, power)
    BY <1>1, <1>2, SameStartReceivePreamble, BecomesIsPhys, Zenon
       DEF P!FrameArrives, T!FrameArrives
  <1>3. ASSUME NEW s \in Signals, NEW power \in Powers, NEW d \in NoiseDurations,
               P!NoiseArrives(s, d, power)
        PROVE  T!NoiseArrives(s, d, power)
    BY <1>1, <1>3, SameCcaIfOutlasts, BecomesIsPhys, Zenon
       DEF P!NoiseArrives, T!NoiseArrives
  <1>4. ASSUME NEW b \in BOOLEAN, P!PreambleEnds(b)
        PROVE  T!PreambleEnds(b)
    BY <1>4, SameStartReceiveHeader, BecomesIsPhys, Zenon
       DEF P!PreambleEnds, T!PreambleEnds, P!Alive, T!Alive, P!Due, T!Due
  <1>5. ASSUME NEW b \in BOOLEAN, P!HeaderStarts(b)
        PROVE  T!HeaderStarts(b)
    BY <1>5, SameContinueReceiveHeader, BecomesIsPhys, Zenon
       DEF P!HeaderStarts, T!HeaderStarts, P!Alive, T!Alive, P!Due, T!Due
  <1>6. ASSUME NEW b \in BOOLEAN, P!PayloadStarts(b)
        PROVE  T!PayloadStarts(b)
    BY <1>6, SameStartReceivePayload, BecomesIsPhys, Zenon
       DEF P!PayloadStarts, T!PayloadStarts, P!Alive, T!Alive, P!Due, T!Due
  <1>7. ASSUME P!UnreceivedFrameEnds
        PROVE  T!UnreceivedFrameEnds
    BY <1>7, SameResetReceive, BecomesIsPhys, Zenon
       DEF P!UnreceivedFrameEnds, T!UnreceivedFrameEnds, P!Alive, T!Alive, P!Due, T!Due
  <1>8. ASSUME P!NotifyTxEnd
        PROVE  T!NotifyTxEnd
    BY <1>8, BecomesIsPhys, Zenon
       DEF P!NotifyTxEnd, T!NotifyTxEnd, P!Alive, T!Alive
  <1> QED
    BY <1>2, <1>3, <1>4, <1>5, <1>6, <1>7, <1>8, Zenon DEF P!Reception, T!Reception

LEMMA FrameEndsIsPhys ==
    ASSUME NEW ok, NEW reaction, P!FrameEnds(ok, reaction)
    PROVE  T!FrameEnds(ok, reaction)
  BY SameEndReceive, BecomesIsPhys, Zenon
     DEF P!FrameEnds, T!FrameEnds, P!Alive, T!Alive, P!Due, T!Due

LEMMA StartTransmissionIsPhys ==
    ASSUME NEW d, P!StartTransmission(d)
    PROVE  T!StartTransmission(d)
  BY SameSend, SameGetState, BecomesIsPhys, Zenon
     DEF P!StartTransmission, T!StartTransmission, P!MaySend, T!MaySend, P!Alive, T!Alive

LEMMA SwitchChannelIsPhys ==
    ASSUME P!SwitchChannel
    PROVE  T!SwitchChannel
  BY SameSetChannelNumber, SameResetSpectrumModel, SameGetState, BecomesIsPhys, Zenon
     DEF P!SwitchChannel, T!SwitchChannel, P!MaySwitch, T!MaySwitch, P!Alive, T!Alive

LEMMA PostponedSwitchIsPhys ==
    ASSUME P!PostponedSwitch
    PROVE  T!PostponedSwitch
  BY SameSetChannelNumber, SameResetSpectrumModel, BecomesIsPhys, Zenon
     DEF P!PostponedSwitch, T!PostponedSwitch, P!Alive, T!Alive

LEMMA TickIsPhys ==
    ASSUME P!Tick
    PROVE  T!Tick
  BY SameElapsePhy, SameElapseAir, SameEventDue, Zenon
     DEF P!Tick, T!Tick, P!Alive, T!Alive

\* The PHY is given two names: by the property, and by what is proved of it.
LEMMA SameInit ==
    P!Init => T!Init /\ Phy!Init
  BY Zenon DEF P!Init, T!Init, Phy!Init, P!PhyInit, T!PhyInit, Phy!PhyInit, P!NoEvent,
               T!NoEvent, Phy!NoEvent, P!Silence, T!Silence, Phy!Silence

LEMMA SameNext ==
    ASSUME [T!Next]_(T!vars)
    PROVE  [Phy!Next]_(Phy!vars)
  <1>0. \A q : T!Becomes(q) => Phy!Becomes(q)
    BY DEF T!Becomes, Phy!Becomes
  <1>1. ASSUME NEW s \in Signals, NEW power \in Powers, NEW d, T!Arrives(s, d, power)
        PROVE  Phy!Arrives(s, d, power)
    BY <1>1, SameEventDue, Zenon
       DEF Phy!Arrives, T!Arrives, Phy!Alive, T!Alive, Phy!Silence, T!Silence,
           Phy!Referenced, T!Referenced
  <1>2. ASSUME NEW s \in Signals, NEW power \in Powers, NEW d \in FrameDurations,
               T!FrameArrives(s, d, power)
        PROVE  Phy!FrameArrives(s, d, power)
    BY <1>0, <1>1, <1>2, SameStartReceivePreamble, Zenon
       DEF Phy!FrameArrives, T!FrameArrives
  <1>3. ASSUME NEW s \in Signals, NEW power \in Powers, NEW d \in NoiseDurations,
               T!NoiseArrives(s, d, power)
        PROVE  Phy!NoiseArrives(s, d, power)
    BY <1>0, <1>1, <1>3, SameCcaIfOutlasts, Zenon DEF Phy!NoiseArrives, T!NoiseArrives
  <1>4. ASSUME NEW b \in BOOLEAN, T!PreambleEnds(b)
        PROVE  Phy!PreambleEnds(b)
    BY <1>0, <1>4, SameStartReceiveHeader, Zenon
       DEF Phy!PreambleEnds, T!PreambleEnds, Phy!Alive, T!Alive, Phy!Due, T!Due
  <1>5. ASSUME NEW b \in BOOLEAN, T!HeaderStarts(b)
        PROVE  Phy!HeaderStarts(b)
    BY <1>0, <1>5, SameContinueReceiveHeader, Zenon
       DEF Phy!HeaderStarts, T!HeaderStarts, Phy!Alive, T!Alive, Phy!Due, T!Due
  <1>6. ASSUME NEW b \in BOOLEAN, T!PayloadStarts(b)
        PROVE  Phy!PayloadStarts(b)
    BY <1>0, <1>6, SameStartReceivePayload, Zenon
       DEF Phy!PayloadStarts, T!PayloadStarts, Phy!Alive, T!Alive, Phy!Due, T!Due
  <1>7. ASSUME T!UnreceivedFrameEnds
        PROVE  Phy!UnreceivedFrameEnds
    BY <1>0, <1>7, SameResetReceive, Zenon
       DEF Phy!UnreceivedFrameEnds, T!UnreceivedFrameEnds, Phy!Alive, T!Alive, Phy!Due,
           T!Due
  <1>8. ASSUME T!NotifyTxEnd
        PROVE  Phy!NotifyTxEnd
    BY <1>0, <1>8, Zenon DEF Phy!NotifyTxEnd, T!NotifyTxEnd, Phy!Alive, T!Alive
  <1>9. ASSUME NEW ok \in BOOLEAN, NEW reaction \in Reactions, T!FrameEnds(ok, reaction)
        PROVE  Phy!FrameEnds(ok, reaction)
    BY <1>0, <1>9, SameEndReceive, Zenon
       DEF Phy!FrameEnds, T!FrameEnds, Phy!Alive, T!Alive, Phy!Due, T!Due
  <1>10. ASSUME NEW d \in TxDurations, T!StartTransmission(d)
         PROVE  Phy!StartTransmission(d)
    BY <1>0, <1>10, SameSend, SameGetState, Zenon
       DEF Phy!StartTransmission, T!StartTransmission, Phy!MaySend, T!MaySend, Phy!Alive,
           T!Alive
  <1>11. ASSUME T!SwitchChannel
         PROVE  Phy!SwitchChannel
    BY <1>0, <1>11, SameSetChannelNumber, SameResetSpectrumModel, SameGetState, Zenon
       DEF Phy!SwitchChannel, T!SwitchChannel, Phy!MaySwitch, T!MaySwitch, Phy!Alive, T!Alive
  <1>12. ASSUME T!PostponedSwitch
         PROVE  Phy!PostponedSwitch
    BY <1>0, <1>12, SameSetChannelNumber, SameResetSpectrumModel, Zenon
       DEF Phy!PostponedSwitch, T!PostponedSwitch, Phy!Alive, T!Alive
  <1>13. ASSUME T!Tick
         PROVE  Phy!Tick
    BY <1>13, SameElapsePhy, SameElapseAir, SameEventDue, Zenon
       DEF Phy!Tick, T!Tick, Phy!Alive, T!Alive
  <1>14. T!Reception => Phy!Reception
    BY <1>2, <1>3, <1>4, <1>5, <1>6, <1>7, <1>8, Zenon DEF T!Reception, Phy!Reception
  <1>15. T!vars = Phy!vars
    BY DEF T!vars, Phy!vars
  <1>16. T!Next => Phy!Next
    BY <1>9, <1>10, <1>11, <1>12, <1>13, <1>14, Zenon DEF T!Next, Phy!Next
  <1> QED
    BY <1>15, <1>16 DEF T!vars, Phy!vars

---------------------------------------------------------------------------
(* The access manager.                                                     *)

LEMMA SourceSet ==
    /\ D!Sources = {"rx", "tx", "nav", "busy", "ack", "bulk", "switching"}
    /\ \A c \in D!CamType :
         /\ c.end \in [D!Sources -> Int] /\ c.age \in Nat /\ c.ok \in BOOLEAN
         /\ \A s \in D!Sources : c.end[s] \in Int
  BY DEF D!Sources, D!CamType

LEMMA BackoffsLast ==
    ASSUME NEW mode, NEW ifs \in IF mode = "BULK_ACCESS" THEN D!GetBuifs(0) ELSE D!GetBeifs(0)
    PROVE  ifs \in Nat /\ ifs >= Sifs
  <1>1. D!CeilDiv(BulkWindow * 0, K) \in Nat
    <2>1. BulkWindow * 0 + K - 1 \in Nat
      BY PhyAccessAssumption
    <2> QED
      BY <2>1, PhyAccessAssumption, SMT DEF D!CeilDiv
  <1>2. PICK rng \in D!CeilDiv(BulkWindow * 0, K) .. D!CeilDiv(BulkWindow * (0 + 1), K) :
          ifs = Sifs + rng * Slot
    BY DEF D!GetBuifs, D!GetBeifs, D!Backoffs
  <1>3. rng \in Nat
    BY <1>1, <1>2
  <1>4. rng * Slot \in Nat
    BY <1>3, PhyAccessAssumption
  <1> QED
    BY <1>2, <1>4, PhyAccessAssumption

\* A request that waits for two SIFS after the end of everything.
Waits(r, c) ==
    D!Pending(r) => \A s \in D!Sources : r.left >= c.end[s] + 2 * Sifs

RequestType == {D!NoRequest} \cup [mode : D!Modes, left : Nat]

LEMMA NoRequestWaits ==
    ASSUME NEW c
    PROVE  D!NoRequest \in RequestType /\ ~D!Pending(D!NoRequest) /\ Waits(D!NoRequest, c)
  BY DEF RequestType, D!NoRequest, D!Pending, Waits

LEMMA ScheduledWaits ==
    ASSUME NEW c \in D!CamType, NEW mode \in D!Modes, NEW r \in D!Scheduled(c, mode, 0)
    PROVE  r \in RequestType /\ Waits(r, c)
  <1> DEFINE g == D!GetAccessGrantStart(c)
  <1>1. PICK ifs \in IF mode = "BULK_ACCESS" THEN D!GetBuifs(0) ELSE D!GetBeifs(0) :
          r = [mode |-> mode, left |-> D!Later(g, 0) + ifs]
    BY DEF D!Scheduled
  <1>2. ifs \in Nat /\ ifs >= Sifs
    BY <1>1, BackoffsLast
  <1>3. \A s \in D!Sources :
          /\ c.end[s] \in Int /\ D!AccessStart(c, s) \in Int
          /\ D!AccessStart(c, s) >= c.end[s] + Sifs
    BY SourceSet, PhyAccessAssumption DEF D!AccessStart
  <1>4. g \in Int /\ \A s \in D!Sources : g >= D!AccessStart(c, s)
    BY <1>3, SourceSet DEF D!GetAccessGrantStart, D!Later
  <1> HIDE DEF g
  <1>5. D!Later(g, 0) \in Nat /\ D!Later(g, 0) >= g
    BY <1>4 DEF D!Later
  <1>6. \A s \in D!Sources : r.left >= c.end[s] + 2 * Sifs
    <2> SUFFICES ASSUME NEW s \in D!Sources PROVE r.left >= c.end[s] + 2 * Sifs
      OBVIOUS
    <2>1. /\ c.end[s] \in Int /\ D!AccessStart(c, s) \in Int /\ g >= D!AccessStart(c, s)
          /\ D!AccessStart(c, s) >= c.end[s] + Sifs
      BY <1>3, <1>4
    <2> QED
      BY <1>1, <1>2, <1>4, <1>5, <2>1, PhyAccessAssumption
  <1>7. r \in [mode : D!Modes, left : Nat]
    BY <1>1, <1>2, <1>5
  <1> QED
    BY <1>6, <1>7 DEF Waits, RequestType

\* The manager after calls it has accepted.
Fine(l) ==
    /\ l \in [cam : D!CamType, request : RequestType, failed : {"none"}]
    /\ Waits(l.request, l.cam)

Calls == {"RxStart", "RxEndOk", "RxEndError", "TxStart", "MaybeCcaBusyStart",
          "SwitchingStart", "NavStart"}
CallType == Calls \X Int

\* A call that is accepted leaves it so, and leaves what Heard makes of it.
LEMMA HearIsFine ==
    ASSUME NEW l, Fine(l), NEW call \in Calls, NEW d \in Int, Accepted(l.cam, call),
           Heard(l.cam, call, d) \in D!CamType,
           call = "NavStart" => Heard(l.cam, call, d) = D!NavStart(l.cam, d),
           NEW m \in Hear(l, call, d)
    PROVE  Fine(m) /\ m.cam = Heard(l.cam, call, d)
  <1> DEFINE c == Heard(l.cam, call, d)
  <1>1. m = [cam |-> c, request |-> m.request, failed |-> "none"] /\ m.cam = c
    BY DEF Hear, Fine
  <1>2. \/ m.request = D!NoRequest
        \/ call = "NavStart" /\ ~D!NavIsLater(l.cam, d) /\ m.request = l.request
        \/ m.request \in D!Rescheduled(c, l.request, 0)
    <2> DEFINE R == CASE call = "SwitchingStart" -> {D!NoRequest}
                      [] call = "NavStart" /\ ~D!NavIsLater(l.cam, d) -> {l.request}
                      [] OTHER -> D!Rescheduled(c, l.request, 0)
    <2>1. m.request \in R
      BY DEF Hear
    <2>2. \/ R = {D!NoRequest}
          \/ call = "NavStart" /\ ~D!NavIsLater(l.cam, d) /\ R = {l.request}
          \/ R = D!Rescheduled(c, l.request, 0)
      <3>1. CASE call = "SwitchingStart"
        BY <3>1
      <3>2. CASE call # "SwitchingStart" /\ call = "NavStart" /\ ~D!NavIsLater(l.cam, d)
        BY <3>2
      <3>3. CASE call # "SwitchingStart" /\ ~(call = "NavStart" /\ ~D!NavIsLater(l.cam, d))
        BY <3>3
      <3> QED
        BY <3>1, <3>2, <3>3
    <2> HIDE DEF R
    <2> QED
      BY <2>1, <2>2
  <1>3. CASE m.request = D!NoRequest
    BY <1>1, <1>3, NoRequestWaits DEF Fine
  <1>4. CASE call = "NavStart" /\ ~D!NavIsLater(l.cam, d) /\ m.request = l.request
    <2>1. c = D!NavStart(l.cam, d) /\ l.cam.end["nav"] \in Int /\ "nav" \in D!Sources
      BY <1>4, SourceSet DEF Fine
    <2>2. D!Later(l.cam.end["nav"], d) = l.cam.end["nav"]
      BY <1>4, <2>1 DEF D!Later, D!NavIsLater
    <2>3. \A s \in D!Sources : c.end[s] = l.cam.end[s]
      BY <2>1, <2>2, SourceSet DEF D!NavStart, Fine, D!CamType
    <2> HIDE DEF c
    <2> QED
      BY <1>1, <1>4, <2>3 DEF Fine, Waits, c
  <1>5. CASE m.request \in D!Rescheduled(c, l.request, 0)
    <2>1. CASE D!Pending(l.request)
      <3>1. l.request.mode \in D!Modes
        BY <2>1 DEF Fine, RequestType, D!Pending, D!NoRequest
      <3>2. m.request \in D!Scheduled(c, l.request.mode, 0)
        BY <1>5, <2>1 DEF D!Rescheduled
      <3> HIDE DEF c
      <3> QED
        BY <1>1, <3>1, <3>2, ScheduledWaits DEF Fine, c
    <2>2. CASE ~D!Pending(l.request)
      <3>1. m.request = l.request
        BY <1>5, <2>2 DEF D!Rescheduled
      <3> QED
        BY <1>1, <2>2, <3>1 DEF Fine, Waits
    <2> QED
      BY <2>1, <2>2
  <1> QED
    BY <1>2, <1>3, <1>4, <1>5

\* The last call is heard after all the others.
LEMMA DeliverAppend ==
    ASSUME NEW l, NEW calls \in Seq(CallType), Len(calls) <= 2, NEW call \in CallType,
           NEW m \in Deliver(l, Append(calls, call))
    PROVE  \E k \in Deliver(l, calls) : m \in Hear(k, call[1], call[2])
  <1> DEFINE more == Append(calls, call)
             H(ls, c) == UNION {Hear(k, c[1], c[2]) : k \in ls}
  <1>1. /\ more \in Seq(CallType) /\ Len(calls) \in Nat /\ Len(more) = Len(calls) + 1
        /\ DOMAIN more = 1 .. Len(more) /\ DOMAIN calls = 1 .. Len(calls)
        /\ more[Len(more)] = call /\ \A i \in 1 .. Len(calls) : more[i] = calls[i]
    OBVIOUS
  <1> HIDE DEF more
  <1>2. \A ls, i : /\ i \in DOMAIN more => HearNext(ls, more, i) = H(ls, more[i])
                   /\ i \notin DOMAIN more => HearNext(ls, more, i) = ls
                   /\ i \in DOMAIN calls => HearNext(ls, calls, i) = H(ls, calls[i])
                   /\ i \notin DOMAIN calls => HearNext(ls, calls, i) = ls
    BY DEF HearNext
  <1> HIDE DEF H
  <1>3. Deliver(l, more) = H(Deliver(l, calls), call)
    <2>1. CASE Len(calls) = 0
      BY <1>1, <1>2, <2>1 DEF Deliver
    <2>2. CASE Len(calls) = 1
      BY <1>1, <1>2, <2>2 DEF Deliver
    <2>3. CASE Len(calls) = 2
      BY <1>1, <1>2, <2>3 DEF Deliver
    <2> QED
      BY <1>1, <2>1, <2>2, <2>3
  <1> QED
    BY <1>3 DEF H, more

LEMMA DeliverNone ==
    ASSUME NEW l
    PROVE  Deliver(l, <<>>) = {l}
  BY DEF Deliver, HearNext

---------------------------------------------------------------------------
(* What the manager knows of the PHY.                                      *)

\* How the ends the manager has for the PHY's periods change with a call.
EndsAre(x, tx, rx, switching, busy) ==
    /\ x \in D!CamType
    /\ x.end["tx"] = tx /\ x.end["rx"] = rx /\ x.end["switching"] = switching
    /\ x.end["busy"] = busy

LEMMA HeardFacts ==
    ASSUME NEW c \in D!CamType, NEW d \in Int
    PROVE  /\ /\ EndsAre(Heard(c, "RxStart", d),
                         c.end["tx"], d, c.end["switching"], c.end["busy"])
              /\ Heard(c, "RxStart", d).age = 0
           /\ \A call \in {"RxEndOk", "RxEndError"} :
                /\ EndsAre(Heard(c, call, d), c.end["tx"], 0, c.end["switching"],
                           IF call = "RxEndError" /\ c.end["rx"] > 0
                           THEN c.end["rx"] ELSE c.end["busy"])
                /\ Heard(c, call, d).age = 0
           /\ /\ EndsAre(Heard(c, "TxStart", d),
                         d, D!Earlier(c.end["rx"], 0), c.end["switching"], c.end["busy"])
              /\ Heard(c, "TxStart", d).age = 0
           /\ /\ EndsAre(Heard(c, "MaybeCcaBusyStart", d),
                         c.end["tx"], c.end["rx"], c.end["switching"], d)
              /\ Heard(c, "MaybeCcaBusyStart", d).age = c.age
           /\ /\ EndsAre(Heard(c, "SwitchingStart", d),
                         c.end["tx"], D!Earlier(c.end["rx"], 0), d,
                         D!Earlier(c.end["busy"], 0))
              /\ Heard(c, "SwitchingStart", d).age = 0
           /\ /\ EndsAre(Heard(c, "NavStart", d),
                         c.end["tx"], c.end["rx"], c.end["switching"], c.end["busy"])
              /\ Heard(c, "NavStart", d).age = c.age
              /\ Heard(c, "NavStart", d) = D!NavStart(c, d)
  <1>1. /\ c.end \in [D!Sources -> Int] /\ c.age \in Nat /\ c.ok \in BOOLEAN
        /\ \A s \in D!Sources : c.end[s] \in Int /\ D!Earlier(c.end[s], 0) \in Int
    BY SourceSet DEF D!Earlier
  <1>2. "rx" \in D!Sources /\ "tx" \in D!Sources /\ "busy" \in D!Sources
        /\ "switching" \in D!Sources /\ "nav" \in D!Sources
    BY SourceSet
  <1>3. /\ EndsAre(D!RxStart(c, d), c.end["tx"], d, c.end["switching"], c.end["busy"])
        /\ D!RxStart(c, d).age = 0
    BY <1>1, <1>2 DEF EndsAre, D!RxStart, D!CamType
  <1>4. /\ EndsAre(D!RxEndOk(c), c.end["tx"], 0, c.end["switching"], c.end["busy"])
        /\ D!RxEndOk(c).age = 0
    BY <1>1, <1>2 DEF EndsAre, D!RxEndOk, D!CamType
  <1>5. /\ EndsAre(D!RxEndError(c), c.end["tx"], 0, c.end["switching"],
                   IF c.end["rx"] > 0 THEN c.end["rx"] ELSE c.end["busy"])
        /\ D!RxEndError(c).age = 0
    <2>1. D!Remainder(c) \in Int
          /\ D!Remainder(c) = IF c.end["rx"] > 0 THEN c.end["rx"] ELSE c.end["busy"]
      BY <1>1, <1>2 DEF D!Remainder
    <2> QED
      BY <1>1, <1>2, <2>1 DEF EndsAre, D!RxEndError, D!CamType
  <1>6. /\ EndsAre(D!TxStart(c, d), d, D!Earlier(c.end["rx"], 0), c.end["switching"],
                   c.end["busy"])
        /\ D!TxStart(c, d).age = 0
    BY <1>1, <1>2 DEF EndsAre, D!TxStart, D!CamType
  <1>7. /\ EndsAre(D!CcaBusyStart(c, d), c.end["tx"], c.end["rx"], c.end["switching"], d)
        /\ D!CcaBusyStart(c, d).age = c.age
    BY <1>1, <1>2 DEF EndsAre, D!CcaBusyStart, D!CamType
  <1>8. /\ EndsAre(D!SwitchingStart(c, d), c.end["tx"], D!Earlier(c.end["rx"], 0), d,
                   D!Earlier(c.end["busy"], 0))
        /\ D!SwitchingStart(c, d).age = 0
    BY <1>1, <1>2 DEF EndsAre, D!SwitchingStart, D!CamType
  <1>9. /\ EndsAre(D!NavStart(c, d), c.end["tx"], c.end["rx"], c.end["switching"],
                   c.end["busy"])
        /\ D!NavStart(c, d).age = c.age
    <2>1. D!Later(c.end["nav"], d) \in Int
      BY <1>1, <1>2 DEF D!Later
    <2> QED
      BY <1>1, <1>2, <2>1 DEF EndsAre, D!NavStart, D!CamType
  <1>10. /\ Heard(c, "RxStart", d) = D!RxStart(c, d)
         /\ Heard(c, "RxEndOk", d) = D!RxEndOk(c)
         /\ Heard(c, "RxEndError", d) = D!RxEndError(c)
         /\ Heard(c, "TxStart", d) = D!TxStart(c, d)
         /\ Heard(c, "MaybeCcaBusyStart", d) = D!CcaBusyStart(c, d)
         /\ Heard(c, "SwitchingStart", d) = D!SwitchingStart(c, d)
         /\ Heard(c, "NavStart", d) = D!NavStart(c, d)
    BY DEF Heard
  <1> QED
    BY <1>3, <1>4, <1>5, <1>6, <1>7, <1>8, <1>9, <1>10

\* An end of the PHY's, and the manager's.
Told(e, c) == (e >= 0 => c = e) /\ (e < 0 => c <= 0)

Knows(p, c) ==
    /\ Told(p.endTx, c.end["tx"])
    /\ Told(p.endRx, c.end["rx"])
    /\ Told(p.endSwitching, c.end["switching"])
    /\ c.end["busy"] > 0 => c.end["busy"] <= p.endCca

\* The manager has not forgotten the frame that a response comes r after.
Remembers(c, r) == r >= 0 => c.end["rx"] >= r - Sifs /\ c.age <= Sifs - r

\* The PHY does not switch while it sends or receives, and its events are
\* due when its transmission ends.
Apart(p) ==
    /\ p.endSwitching > 0 => p.endTx <= 0 /\ p.endRx <= 0
    /\ p.txEvent >= 0 => p.endTx = p.txEvent
    /\ p.switchEvent >= 0 => p.endTx = p.switchEvent

Shape(p) ==
    /\ DOMAIN p = {"endTx", "endRx", "endSwitching", "endCca", "txEvent", "switchEvent",
                   "preamble", "header", "payload", "current", "failed", "calls"}
    /\ p.endTx \in Int /\ p.endRx \in Int /\ p.endSwitching \in Int /\ p.endCca \in Int
    /\ p.txEvent \in Int /\ p.switchEvent \in Int

\* What holds of a manager m that has heard the calls so far: those of a
\* manager l, of a PHY that is now as p, with r left to the response.
Agrees(l, r, p, m) ==
    /\ Fine(m)
    /\ D!TxStartAllowed(l.cam) => D!TxStartAllowed(m.cam)
    /\ p.failed = "none" => Knows(p, m.cam) /\ Remembers(m.cam, r)

\* In the middle of a step: at most n calls so far, and every manager agrees.
Agree(l, r, p, n) ==
    /\ Shape(p)
    /\ p.calls \in Seq(CallType) /\ Len(p.calls) <= n
    /\ p.failed = "none" => Apart(p) /\ (r >= 0 => p.endTx <= 0)
    /\ \A m \in Deliver(l, p.calls) : Agrees(l, r, p, m)

SameEnds(p, q) ==
    /\ q.endTx = p.endTx /\ q.endRx = p.endRx /\ q.endSwitching = p.endSwitching
    /\ q.endCca = p.endCca

\* Edits that leave the ends, the events at them and the calls alone, or
\* follow an assertion that failed.
LEMMA AgreeKept ==
    ASSUME NEW l, NEW r, NEW p, NEW n, Agree(l, r, p, n),
           NEW q, Shape(q), q.calls = p.calls,
           q.failed = "none" => /\ p.failed = "none" /\ SameEnds(p, q)
                                /\ q.txEvent = p.txEvent /\ q.switchEvent = p.switchEvent
    PROVE  Agree(l, r, q, n)
  BY DEF Agree, Agrees, SameEnds, Knows, Apart

\* One more call, which every manager that agrees so far accepts.
LEMMA AgreeCall ==
    ASSUME NEW l, NEW r, NEW s, NEW p, NEW n \in {0, 1, 2}, Agree(l, r, p, n),
           NEW call \in CallType, NEW q, Shape(q), q.calls = Append(p.calls, call),
           q.failed = "none" => Apart(q) /\ (s >= 0 => q.endTx <= 0),
           \A k : Agrees(l, r, p, k) => Accepted(k.cam, call[1]),
           \A k, c : Agrees(l, r, p, k) /\ c = Heard(k.cam, call[1], call[2]) =>
              /\ c \in D!CamType
              /\ call[1] = "NavStart" => c = D!NavStart(k.cam, call[2])
              /\ D!TxStartAllowed(k.cam) => D!TxStartAllowed(c)
              /\ q.failed = "none" => Knows(q, c) /\ Remembers(c, s)
    PROVE  Agree(l, s, q, n + 1)
  <1>1. /\ p.calls \in Seq(CallType) /\ Len(p.calls) <= n
        /\ \A m \in Deliver(l, p.calls) : Agrees(l, r, p, m)
    BY DEF Agree
  <1>2. Append(p.calls, call) \in Seq(CallType) /\ Len(Append(p.calls, call)) <= n + 1
    BY <1>1
  <1>3. call[1] \in Calls /\ call[2] \in Int
    BY DEF CallType
  <1>4. ASSUME NEW m \in Deliver(l, q.calls)
        PROVE  Agrees(l, s, q, m)
    <2>1. Len(p.calls) <= 2
      BY <1>1
    <2>2. PICK k \in Deliver(l, p.calls) : m \in Hear(k, call[1], call[2])
      BY <1>1, <1>4, <2>1, DeliverAppend
    <2> DEFINE c == Heard(k.cam, call[1], call[2])
    <2>3. Agrees(l, r, p, k)
      BY <1>1
    <2>4. /\ c \in D!CamType
          /\ call[1] = "NavStart" => c = D!NavStart(k.cam, call[2])
          /\ D!TxStartAllowed(k.cam) => D!TxStartAllowed(c)
          /\ q.failed = "none" => Knows(q, c) /\ Remembers(c, s)
      BY <2>3
    <2>5. Accepted(k.cam, call[1]) /\ Fine(k)
          /\ (D!TxStartAllowed(l.cam) => D!TxStartAllowed(k.cam))
      BY <2>3 DEF Agrees
    <2>6. Fine(m) /\ m.cam = c
      BY <1>3, <2>2, <2>4, <2>5, HearIsFine
    <2> QED
      BY <2>4, <2>5, <2>6 DEF Agrees
  <1> QED
    BY <1>2, <1>4 DEF Agree

LEMMA AgreeMore ==
    ASSUME NEW l, NEW r, NEW p, NEW n \in {0, 1, 2}, Agree(l, r, p, n)
    PROVE  Agree(l, r, p, n + 1)
  <1>1. p.calls \in Seq(CallType) /\ Len(p.calls) <= n
    BY DEF Agree
  <1>2. Len(p.calls) <= n + 1
    BY <1>1
  <1> QED
    BY <1>2 DEF Agree

---------------------------------------------------------------------------
(* What the state helper does.                                             *)

LEMMA StateFacts ==
    ASSUME NEW p, Shape(p)
    PROVE  /\ P!GetState(p) = "TX" <=> p.endTx > 0
           /\ P!GetState(p) = "RX" <=> p.endTx <= 0 /\ p.endRx > 0
           /\ P!GetState(p) = "SWITCHING" <=>
                p.endTx <= 0 /\ p.endRx <= 0 /\ p.endSwitching > 0
           /\ P!GetState(p) = "CCA_BUSY" <=>
                p.endTx <= 0 /\ p.endRx <= 0 /\ p.endSwitching <= 0 /\ p.endCca > 0
           /\ P!GetState(p) = "IDLE" <=>
                p.endTx <= 0 /\ p.endRx <= 0 /\ p.endSwitching <= 0 /\ p.endCca <= 0
           /\ P!GetState(p) \in {"TX", "RX", "SWITCHING", "CCA_BUSY", "IDLE"}
  <1>1. /\ p.endTx \in Int /\ p.endRx \in Int /\ p.endSwitching \in Int /\ p.endCca \in Int
    BY DEF Shape
  <1>2. CASE p.endTx > 0
    BY <1>1, <1>2 DEF P!GetState
  <1>3. CASE p.endTx <= 0 /\ p.endRx > 0
    BY <1>1, <1>3 DEF P!GetState
  <1>4. CASE p.endTx <= 0 /\ p.endRx <= 0 /\ p.endSwitching > 0
    BY <1>1, <1>4 DEF P!GetState
  <1>5. CASE p.endTx <= 0 /\ p.endRx <= 0 /\ p.endSwitching <= 0 /\ p.endCca > 0
    BY <1>1, <1>5 DEF P!GetState
  <1>6. CASE p.endTx <= 0 /\ p.endRx <= 0 /\ p.endSwitching <= 0 /\ p.endCca <= 0
    BY <1>1, <1>6 DEF P!GetState
  <1> QED
    BY <1>1, <1>2, <1>3, <1>4, <1>5, <1>6

\* A busy notification: whatever the manager held busy, now it is d.
LEMMA AgreeCca ==
    ASSUME NEW l, NEW r, NEW p, NEW n \in {0, 1, 2}, Agree(l, r, p, n), NEW d \in Int
    PROVE  /\ Agree(l, r, P!SwitchMaybeToCcaBusy(p, d), n + 1)
           /\ P!SwitchMaybeToCcaBusy(p, d).failed = p.failed
  <1> DEFINE call == <<"MaybeCcaBusyStart", d>>
             q == P!Tell([p EXCEPT !.endCca = IF d > @ THEN d ELSE @], call)
  <1>1. CASE P!GetState(p) = "RX"
    BY <1>1, AgreeMore DEF P!SwitchMaybeToCcaBusy
  <1>2. CASE P!GetState(p) # "RX"
    <2>1. Shape(p)
      BY DEF Agree
    <2>2. /\ Shape(q) /\ q.calls = Append(p.calls, call) /\ q.failed = p.failed
          /\ q.endTx = p.endTx /\ q.endRx = p.endRx /\ q.endSwitching = p.endSwitching
          /\ q.endCca >= p.endCca /\ q.endCca >= d
          /\ q.txEvent = p.txEvent /\ q.switchEvent = p.switchEvent
      BY <2>1 DEF P!Tell, Shape
    <2>3. call \in CallType /\ call[1] = "MaybeCcaBusyStart" /\ call[2] = d
      BY DEF CallType, Calls
    <2>4. q = P!SwitchMaybeToCcaBusy(p, d)
      BY <1>2 DEF P!SwitchMaybeToCcaBusy
    <2> HIDE DEF q, call
    <2>5. q.failed = "none" => Apart(q) /\ (r >= 0 => q.endTx <= 0)
      BY <2>2 DEF Agree, Apart
    <2>6. \A k : Accepted(k.cam, call[1])
      BY <2>3 DEF Accepted
    <2>7. ASSUME NEW k, NEW c, Agrees(l, r, p, k), c = Heard(k.cam, call[1], call[2])
          PROVE  /\ c \in D!CamType
                 /\ call[1] = "NavStart" => c = D!NavStart(k.cam, call[2])
                 /\ D!TxStartAllowed(k.cam) => D!TxStartAllowed(c)
                 /\ q.failed = "none" => Knows(q, c) /\ Remembers(c, r)
      <3>1. k.cam \in D!CamType
        BY <2>7 DEF Agrees, Fine
      <3>2. /\ EndsAre(c, k.cam.end["tx"], k.cam.end["rx"], k.cam.end["switching"], d)
            /\ c.age = k.cam.age
        BY <2>3, <2>7, <3>1, HeardFacts
      <3> QED
        BY <2>1, <2>2, <2>3, <2>7, <3>2
           DEF EndsAre, Agrees, Knows, Told, Remembers, D!TxStartAllowed, Shape
    <2>8. Agree(l, r, q, n + 1)
      BY <2>2, <2>3, <2>5, <2>6, <2>7, AgreeCall
    <2> QED
      BY <2>2, <2>4, <2>8
  <1> QED
    BY <1>1, <1>2

\* A reception begins.
LEMMA AgreeRxStart ==
    ASSUME NEW l, NEW r \in Int, r <= Sifs, NEW p, NEW n \in {0, 1, 2}, Agree(l, r, p, n),
           NEW d \in Nat, p.failed = "none" => P!IsReady(p)
    PROVE  Agree(l, r, P!SwitchToRx(p, d), n + 1)
  <1> DEFINE call == <<"RxStart", d>>
             q == P!SwitchToRx(p, d)
  <1>1. Shape(p)
    BY DEF Agree
  <1>2. /\ Shape(q) /\ q.calls = Append(p.calls, call) /\ q.failed = p.failed
        /\ q.endTx = p.endTx /\ q.endRx = d /\ q.endSwitching = p.endSwitching
        /\ q.endCca = p.endCca
        /\ q.txEvent = p.txEvent /\ q.switchEvent = p.switchEvent
    BY <1>1 DEF P!Tell, P!SwitchToRx, Shape
  <1>3. call \in CallType /\ call[1] = "RxStart" /\ call[2] = d
    BY DEF CallType, Calls
  <1> HIDE DEF q, call
  <1>4. p.failed = "none" => p.endTx <= 0 /\ p.endSwitching <= 0
    BY <1>1, StateFacts DEF P!IsReady
  <1>5. q.failed = "none" => Apart(q) /\ (r >= 0 => q.endTx <= 0)
    BY <1>1, <1>2, <1>4 DEF Agree, Apart, Shape
  <1>6. \A k : Accepted(k.cam, call[1])
    BY <1>3 DEF Accepted
  <1>7. ASSUME NEW k, NEW c, Agrees(l, r, p, k), c = Heard(k.cam, call[1], call[2])
        PROVE  /\ c \in D!CamType
               /\ call[1] = "NavStart" => c = D!NavStart(k.cam, call[2])
               /\ D!TxStartAllowed(k.cam) => D!TxStartAllowed(c)
               /\ q.failed = "none" => Knows(q, c) /\ Remembers(c, r)
    <2>1. k.cam \in D!CamType
      BY <1>7 DEF Agrees, Fine
    <2>2. /\ EndsAre(c, k.cam.end["tx"], d, k.cam.end["switching"], k.cam.end["busy"])
          /\ c.age = 0
      BY <1>3, <1>7, <2>1, HeardFacts
    <2>3. Remembers(c, r) /\ D!TxStartAllowed(c)
      BY <2>2, PhyAccessAssumption DEF EndsAre, Remembers, D!TxStartAllowed
    <2>4. q.failed = "none" => Knows(q, c)
      BY <1>2, <1>7, <2>2 DEF EndsAre, Agrees, Knows, Told
    <2> QED
      BY <1>3, <2>2, <2>3, <2>4 DEF EndsAre
  <1> QED
    BY <1>2, <1>3, <1>5, <1>6, <1>7, AgreeCall DEF q

\* A reception ends, and a response may be wanted.
LEMMA AgreeRxEnd ==
    ASSUME NEW l, NEW r \in Int, NEW s \in Int, s <= Sifs, NEW p, NEW n \in {0, 1, 2},
           Agree(l, r, p, n), NEW x \in {"RxEndOk", "RxEndError"},
           p.failed = "none" => p.endRx = 0 /\ p.endTx <= 0
    PROVE  Agree(l, s, P!Tell(p, <<x, 0>>), n + 1)
  <1> DEFINE call == <<x, 0>>
             q == P!Tell(p, call)
  <1>1. Shape(p)
    BY DEF Agree
  <1>2. /\ Shape(q) /\ q.calls = Append(p.calls, call) /\ q.failed = p.failed
        /\ q.endTx = p.endTx /\ q.endRx = p.endRx /\ q.endSwitching = p.endSwitching
        /\ q.endCca = p.endCca
        /\ q.txEvent = p.txEvent /\ q.switchEvent = p.switchEvent
    BY <1>1 DEF P!Tell, Shape
  <1>3. call \in CallType /\ call[1] = x /\ call[2] = 0
    BY DEF CallType, Calls
  <1> HIDE DEF q, call
  <1>5. q.failed = "none" => Apart(q) /\ (s >= 0 => q.endTx <= 0)
    BY <1>1, <1>2 DEF Agree, Apart, Shape
  <1>6. \A k : Accepted(k.cam, call[1])
    BY <1>3 DEF Accepted
  <1>7. ASSUME NEW k, NEW c, Agrees(l, r, p, k), c = Heard(k.cam, call[1], call[2])
        PROVE  /\ c \in D!CamType
               /\ call[1] = "NavStart" => c = D!NavStart(k.cam, call[2])
               /\ D!TxStartAllowed(k.cam) => D!TxStartAllowed(c)
               /\ q.failed = "none" => Knows(q, c) /\ Remembers(c, s)
    <2>1. k.cam \in D!CamType
      BY <1>7 DEF Agrees, Fine
    <2> DEFINE b == IF x = "RxEndError" /\ k.cam.end["rx"] > 0
                    THEN k.cam.end["rx"] ELSE k.cam.end["busy"]
    <2>2. EndsAre(c, k.cam.end["tx"], 0, k.cam.end["switching"], b) /\ c.age = 0
      BY <1>3, <1>7, <2>1, HeardFacts
    <2>3. q.failed = "none" => k.cam.end["rx"] = 0 /\ b = k.cam.end["busy"]
      BY <1>2, <1>7 DEF Agrees, Knows, Told
    <2> HIDE DEF b
    <2>4. Remembers(c, s) /\ D!TxStartAllowed(c)
      BY <2>2, PhyAccessAssumption DEF EndsAre, Remembers, D!TxStartAllowed
    <2>5. q.failed = "none" => Knows(q, c)
      BY <1>2, <1>7, <2>2, <2>3 DEF EndsAre, Agrees, Knows, Told
    <2> QED
      BY <1>3, <2>2, <2>4, <2>5 DEF EndsAre
  <1> QED
    BY <1>2, <1>3, <1>5, <1>6, <1>7, AgreeCall DEF q, call

\* The MAC sets the NAV of a frame it is given.
LEMMA AgreeNav ==
    ASSUME NEW l, NEW r, NEW p, NEW n \in {0, 1, 2}, Agree(l, r, p, n), NEW d \in Int
    PROVE  Agree(l, r, P!Tell(p, <<"NavStart", d>>), n + 1)
  <1> DEFINE call == <<"NavStart", d>>
             q == P!Tell(p, call)
  <1>1. Shape(p)
    BY DEF Agree
  <1>2. /\ Shape(q) /\ q.calls = Append(p.calls, call) /\ q.failed = p.failed
        /\ q.endTx = p.endTx /\ q.endRx = p.endRx /\ q.endSwitching = p.endSwitching
        /\ q.endCca = p.endCca
        /\ q.txEvent = p.txEvent /\ q.switchEvent = p.switchEvent
    BY <1>1 DEF P!Tell, Shape
  <1>3. call \in CallType /\ call[1] = "NavStart" /\ call[2] = d
    BY DEF CallType, Calls
  <1> HIDE DEF q, call
  <1>5. q.failed = "none" => Apart(q) /\ (r >= 0 => q.endTx <= 0)
    BY <1>1, <1>2 DEF Agree, Apart, Shape
  <1>6. \A k : Accepted(k.cam, call[1])
    BY <1>3 DEF Accepted
  <1>7. ASSUME NEW k, NEW c, Agrees(l, r, p, k), c = Heard(k.cam, call[1], call[2])
        PROVE  /\ c \in D!CamType
               /\ call[1] = "NavStart" => c = D!NavStart(k.cam, call[2])
               /\ D!TxStartAllowed(k.cam) => D!TxStartAllowed(c)
               /\ q.failed = "none" => Knows(q, c) /\ Remembers(c, r)
    <2>1. k.cam \in D!CamType
      BY <1>7 DEF Agrees, Fine
    <2>2. /\ EndsAre(c, k.cam.end["tx"], k.cam.end["rx"], k.cam.end["switching"],
                     k.cam.end["busy"])
          /\ c.age = k.cam.age /\ c = D!NavStart(k.cam, d)
      BY <1>3, <1>7, <2>1, HeardFacts
    <2> QED
      BY <1>1, <1>2, <1>3, <1>7, <2>2
         DEF EndsAre, Agrees, Knows, Told, Remembers, D!TxStartAllowed, Shape
  <1> QED
    BY <1>2, <1>3, <1>5, <1>6, <1>7, AgreeCall DEF q, call

\* A transmission begins: the manager accepts that if it did before the step.
LEMMA AgreeTxStart ==
    ASSUME NEW l, D!TxStartAllowed(l.cam),
           NEW r, NEW p, NEW n \in {0, 1, 2}, Agree(l, r, p, n), NEW d \in Nat,
           p.failed = "none" =>
              P!GetState(p) \notin {"TX", "SWITCHING"} /\ p.switchEvent < 0
    PROVE  Agree(l, -1, [P!SwitchToTx(p, d) EXCEPT !.txEvent = d], n + 1)
  <1> DEFINE call == <<"TxStart", d>>
             t == P!SwitchToTx(p, d)
             q == [t EXCEPT !.txEvent = d]
  <1>1. Shape(p)
    BY DEF Agree
  <1>2. CASE P!GetState(p) \in {"TX", "SWITCHING"}
    <2>1. t = p
      BY <1>2 DEF P!SwitchToTx
    <2>2. Shape(q) /\ q.calls = p.calls /\ q.failed = p.failed /\ p.failed # "none"
      BY <1>1, <1>2, <2>1 DEF Shape
    <2>3. \A m : Agrees(l, r, p, m) => Agrees(l, -1, q, m)
      BY <2>2 DEF Agrees
    <2> HIDE DEF q
    <2>4. Agree(l, -1, q, n)
      BY <2>2, <2>3 DEF Agree
    <2> QED
      BY <2>4, AgreeMore DEF q
  <1>3. CASE P!GetState(p) \notin {"TX", "SWITCHING"}
    <2>1. t = P!Tell([p EXCEPT !.endRx = IF @ > 0 THEN 0 ELSE @, !.endTx = d], call)
      BY <1>1, <1>3, StateFacts DEF P!SwitchToTx
    <2>2. /\ Shape(q) /\ q.calls = Append(p.calls, call) /\ q.failed = p.failed
          /\ q.endTx = d /\ q.endRx = (IF p.endRx > 0 THEN 0 ELSE p.endRx)
          /\ q.endSwitching = p.endSwitching /\ q.endCca = p.endCca
          /\ q.txEvent = d /\ q.switchEvent = p.switchEvent
      BY <1>1, <2>1 DEF P!Tell, Shape
    <2>3. call \in CallType /\ call[1] = "TxStart" /\ call[2] = d
      BY DEF CallType, Calls
    <2> HIDE DEF q, t, call
    <2>4. p.failed = "none" => p.endTx <= 0 /\ p.endSwitching <= 0
      BY <1>1, <1>3, StateFacts DEF Agree, Apart, Shape
    <2>5. q.failed = "none" => Apart(q) /\ (-1 >= 0 => q.endTx <= 0)
      BY <1>1, <2>2, <2>4 DEF Apart, Shape
    <2>6. \A k : Agrees(l, r, p, k) => Accepted(k.cam, call[1])
      BY <2>3 DEF Agrees, Accepted
    <2>7. ASSUME NEW k, NEW c, Agrees(l, r, p, k), c = Heard(k.cam, call[1], call[2])
          PROVE  /\ c \in D!CamType
                 /\ call[1] = "NavStart" => c = D!NavStart(k.cam, call[2])
                 /\ D!TxStartAllowed(k.cam) => D!TxStartAllowed(c)
                 /\ q.failed = "none" => Knows(q, c) /\ Remembers(c, -1)
      <3>1. k.cam \in D!CamType
        BY <2>7 DEF Agrees, Fine
      <3>2. /\ EndsAre(c, d, D!Earlier(k.cam.end["rx"], 0), k.cam.end["switching"],
                       k.cam.end["busy"])
            /\ c.age = 0
        BY <2>3, <2>7, <3>1, HeardFacts
      <3>3. D!TxStartAllowed(c) /\ Remembers(c, -1)
        BY <3>2, PhyAccessAssumption DEF D!TxStartAllowed, Remembers
      <3>4. k.cam.end["rx"] \in Int
        BY <3>1, SourceSet
      <3>5. q.failed = "none" => Knows(q, c)
        BY <1>1, <2>2, <2>7, <3>2, <3>4
           DEF EndsAre, Agrees, Knows, Told, D!Earlier, Shape
      <3> QED
        BY <2>3, <3>2, <3>3, <3>5 DEF EndsAre
    <2>8. Agree(l, -1, q, n + 1)
      BY <2>2, <2>3, <2>5, <2>6, <2>7, AgreeCall
    <2> QED
      BY <2>8 DEF q, t
  <1> QED
    BY <1>2, <1>3

\* The channel is changed: no transmission or other change is under way.
LEMMA AgreeSwitchingStart ==
    ASSUME NEW l, NEW r, NEW p, NEW n \in {0, 1, 2}, Agree(l, r, p, n), NEW d \in Nat,
           p.failed = "none", p.endTx <= 0, p.endSwitching <= 0
    PROVE  Agree(l, -1, P!SwitchToChannelSwitching(p, d), n + 1)
  <1> DEFINE call == <<"SwitchingStart", d>>
             q == P!SwitchToChannelSwitching(p, d)
  <1>1. Shape(p)
    BY DEF Agree
  <1>2. /\ Shape(q) /\ q.calls = Append(p.calls, call) /\ q.failed = p.failed
        /\ q.endTx = p.endTx /\ q.endRx = (IF p.endRx > 0 THEN 0 ELSE p.endRx)
        /\ q.endSwitching = d /\ q.endCca = (IF p.endCca > 0 THEN 0 ELSE p.endCca)
        /\ q.txEvent = p.txEvent /\ q.switchEvent = p.switchEvent
    BY <1>1 DEF P!Tell, P!SwitchToChannelSwitching, Shape
  <1>3. call \in CallType /\ call[1] = "SwitchingStart" /\ call[2] = d
    BY DEF CallType, Calls
  <1> HIDE DEF q, call
  <1>4. Apart(q) /\ (-1 >= 0 => q.endTx <= 0)
    BY <1>1, <1>2 DEF Agree, Apart, Shape
  <1>5. ASSUME NEW k, Agrees(l, r, p, k)
        PROVE  Accepted(k.cam, call[1])
    BY <1>1, <1>3, <1>5 DEF Agrees, Accepted, Knows, Told, D!SwitchingAllowed, Shape
  <1>6. ASSUME NEW k, NEW c, Agrees(l, r, p, k), c = Heard(k.cam, call[1], call[2])
        PROVE  /\ c \in D!CamType
               /\ call[1] = "NavStart" => c = D!NavStart(k.cam, call[2])
               /\ D!TxStartAllowed(k.cam) => D!TxStartAllowed(c)
               /\ q.failed = "none" => Knows(q, c) /\ Remembers(c, -1)
    <2>1. k.cam \in D!CamType
      BY <1>6 DEF Agrees, Fine
    <2>2. /\ EndsAre(c, k.cam.end["tx"], D!Earlier(k.cam.end["rx"], 0), d,
                     D!Earlier(k.cam.end["busy"], 0))
          /\ c.age = 0
      BY <1>3, <1>6, <2>1, HeardFacts
    <2>3. D!TxStartAllowed(c) /\ Remembers(c, -1)
      BY <2>2, PhyAccessAssumption DEF D!TxStartAllowed, Remembers
    <2>4. k.cam.end["rx"] \in Int /\ k.cam.end["busy"] \in Int
      BY <2>1, SourceSet
    <2>5. Knows(q, c)
      BY <1>1, <1>2, <1>6, <2>2, <2>4 DEF EndsAre, Agrees, Knows, Told, D!Earlier, Shape
    <2> QED
      BY <1>3, <2>2, <2>3, <2>5 DEF EndsAre
  <1> QED
    BY <1>2, <1>3, <1>4, <1>5, <1>6, AgreeCall DEF q

---------------------------------------------------------------------------
(* What the PHY's handlers do.                                             *)

Edited(p, q) ==
    /\ Shape(q) /\ q.calls = p.calls
    /\ q.failed = "none" => /\ p.failed = "none" /\ SameEnds(p, q)
                            /\ q.txEvent = p.txEvent /\ q.switchEvent = p.switchEvent

LEMMA RequireEdits ==
    ASSUME NEW p, Shape(p), NEW holds, NEW name, name # "none"
    PROVE  /\ Edited(p, P!Require(p, holds, name))
           /\ P!Require(p, holds, name).failed = "none" => holds
  BY DEF Edited, P!Require, Shape, SameEnds

\* Whether the energy on the air is told or not.
LEMMA AgreeMaybeCca ==
    ASSUME NEW l, NEW r, NEW p, NEW n \in {0, 1, 2}, Agree(l, r, p, n),
           NEW a \in T!AirType, NEW s
    PROVE  /\ Agree(l, r, P!MaybeCcaBusyDuration(p, a), n + 1)
           /\ P!MaybeCcaBusyDuration(p, a).failed = p.failed
           /\ Agree(l, r, P!CcaIfOutlasts(p, a, s), n + 1)
           /\ P!CcaIfOutlasts(p, a, s).failed = p.failed
  <1>1. T!GetEnergyDuration(a) \in Int
    BY T!EnergyDurationType, Constants
  <1>2. P!GetEnergyDuration(a) \in Int
    BY <1>1, SameGetEnergyDuration
  <1>3. /\ Agree(l, r, P!MaybeCcaBusyDuration(p, a), n + 1)
        /\ P!MaybeCcaBusyDuration(p, a).failed = p.failed
    BY <1>2, AgreeCca, AgreeMore DEF P!MaybeCcaBusyDuration
  <1> QED
    BY <1>3, AgreeMore DEF P!CcaIfOutlasts

LEMMA AgreePreamble ==
    ASSUME NEW l, NEW r, NEW p, Agree(l, r, p, 0), NEW a \in T!AirType, NEW s
    PROVE  Agree(l, r, P!StartReceivePreamble(p, a, s), 1)
  <1> DEFINE e == P!Event(PreambleDetection, "StartReceiveHeader", s)
             q == [p EXCEPT !.preamble = e, !.current = s]
  <1>1. Shape(p)
    BY DEF Agree
  <1>2. Edited(p, p) /\ Edited(p, q)
    BY <1>1 DEF Edited, Shape, SameEnds
  <1> HIDE DEF q
  <1>3. \A name : name # "none" => Edited(p, P!Require(p, FALSE, name))
    BY <1>1, RequireEdits
  <1>4. P!StartRx(p, a, s) \in {P!Require(p, FALSE, "StartRx"), p, q}
    BY DEF P!StartRx, q
  <1>5. P!StartReceivePreamble(p, a, s) \in
          {P!StartRx(p, a, s), P!Require(p, FALSE, "StartReceivePreamble"),
           P!CcaIfOutlasts(p, a, s)}
    BY DEF P!StartReceivePreamble
  <1>6. \A x : Edited(p, x) => Agree(l, r, x, 1)
    <2>1. \A x : Edited(p, x) => Agree(l, r, x, 0)
      BY AgreeKept DEF Edited
    <2> QED
      BY <2>1, AgreeMore
  <1>7. Agree(l, r, P!CcaIfOutlasts(p, a, s), 1)
    BY AgreeMaybeCca
  <1> QED
    BY <1>2, <1>3, <1>4, <1>5, <1>6, <1>7

LEMMA AgreeHeader ==
    ASSUME NEW l, NEW r, NEW p0, Agree(l, r, p0, 0), NEW a \in T!AirType, NEW detected
    PROVE  Agree(l, r, P!StartReceiveHeader(p0, a, detected), 1)
  <1> DEFINE s == p0.preamble.of
             o == [p0 EXCEPT !.preamble = P!NoEvent]
             h == /\ P!GetState(p0) # "RX" /\ ~P!Running(p0.header)
                  /\ p0.current = s /\ a[s].recorded
             p == P!Require(o, h, "StartReceiveHeader")
             b == P!SwitchMaybeToCcaBusy(p, PreambleRest)
             e == P!Event(PreambleRest, "ContinueReceiveHeader", s)
             f == [p EXCEPT !.current = NoSignal]
  <1>1. P!StartReceiveHeader(p0, a, detected) =
          IF detected THEN [b EXCEPT !.header = e] ELSE P!CcaIfOutlasts(f, a, s)
    BY DEF P!StartReceiveHeader
  <1>2. Shape(p0)
    BY DEF Agree
  <1>3. Edited(p0, o)
    BY <1>2 DEF Edited, Shape, SameEnds
  <1> HIDE DEF h, o, e, s
  <1>4. Agree(l, r, o, 0)
    BY <1>3, AgreeKept DEF Edited
  <1>5. Edited(o, p)
    BY <1>3, RequireEdits DEF Edited
  <1> HIDE DEF p
  <1>6. Agree(l, r, p, 0)
    BY <1>4, <1>5, AgreeKept DEF Edited
  <1>7. Agree(l, r, b, 1)
    BY <1>6, AgreeCca, PhyAccessAssumption
  <1> HIDE DEF b
  <1>8. Edited(b, [b EXCEPT !.header = e])
    BY <1>7 DEF Agree, Edited, Shape, SameEnds
  <1>9. Agree(l, r, [b EXCEPT !.header = e], 1)
    BY <1>7, <1>8, AgreeKept DEF Edited
  <1>10. Edited(p, f)
    BY <1>6 DEF Agree, Edited, Shape, SameEnds
  <1> HIDE DEF f
  <1>11. Agree(l, r, f, 0)
    BY <1>6, <1>10, AgreeKept DEF Edited
  <1>12. Agree(l, r, P!CcaIfOutlasts(f, a, s), 1)
    BY <1>11, AgreeMaybeCca
  <1> QED
    BY <1>1, <1>9, <1>12

LEMMA AgreeContinue ==
    ASSUME NEW l, NEW r, NEW p0, Agree(l, r, p0, 0), NEW a \in T!AirType, NEW decoded,
           a[p0.header.of].left \in Int
    PROVE  Agree(l, r, P!ContinueReceiveHeader(p0, a, decoded), 1)
  <1> DEFINE s == p0.header.of
             o == [p0 EXCEPT !.header = P!NoEvent]
             p == P!Require(o, a[s].recorded, "ContinueReceiveHeader")
             b == P!SwitchMaybeToCcaBusy(p, a[s].left)
             e == P!Event(HeaderDuration, "StartReceivePayload", s)
             f == P!AbortCurrentReception(p)
  <1>1. P!ContinueReceiveHeader(p0, a, decoded) =
          IF decoded THEN [b EXCEPT !.header = e] ELSE P!CcaIfOutlasts(f, a, s)
    BY DEF P!ContinueReceiveHeader
  <1>2. Shape(p0)
    BY DEF Agree
  <1>3. Edited(p0, o)
    BY <1>2 DEF Edited, Shape, SameEnds
  <1> HIDE DEF o, e
  <1>4. Agree(l, r, o, 0)
    BY <1>3, AgreeKept DEF Edited
  <1>5. Edited(o, p)
    BY <1>3, RequireEdits DEF Edited
  <1> HIDE DEF p
  <1>6. Agree(l, r, p, 0)
    BY <1>4, <1>5, AgreeKept DEF Edited
  <1>7. Agree(l, r, b, 1)
    <2>1. a[s].left \in Int
      OBVIOUS
    <2> HIDE DEF s
    <2> QED
      BY <1>6, <2>1, AgreeCca
  <1> HIDE DEF b
  <1>8. Edited(b, [b EXCEPT !.header = e])
    BY <1>7 DEF Agree, Edited, Shape, SameEnds
  <1>9. Agree(l, r, [b EXCEPT !.header = e], 1)
    BY <1>7, <1>8, AgreeKept DEF Edited
  <1>10. Edited(p, f)
    BY <1>6 DEF Agree, Edited, Shape, SameEnds, P!AbortCurrentReception
  <1> HIDE DEF f, s
  <1>11. Agree(l, r, f, 0)
    BY <1>6, <1>10, AgreeKept DEF Edited
  <1>12. Agree(l, r, P!CcaIfOutlasts(f, a, s), 1)
    BY <1>11, AgreeMaybeCca
  <1> QED
    BY <1>1, <1>9, <1>12

LEMMA AgreePayload ==
    ASSUME NEW l, NEW r \in Int, r <= Sifs, NEW p0, Agree(l, r, p0, 0), NEW a,
           a[p0.header.of].left \in Nat, NEW receivable \in BOOLEAN
    PROVE  Agree(l, r, P!StartReceivePayload(p0, a, receivable), 1)
  <1> DEFINE s == p0.header.of
             o == [p0 EXCEPT !.header = P!NoEvent]
             h == ~P!Running(p0.payload) /\ a[s].recorded /\ (receivable => P!IsReady(p0))
             p == P!Require(o, h, "StartReceivePayload")
             b == P!SwitchToRx(p, a[s].left)
             e == P!Event(a[s].left, "EndReceive", s)
             f == P!Event(a[s].left, "ResetReceive", s)
  <1>1. P!StartReceivePayload(p0, a, receivable) =
          IF receivable THEN [b EXCEPT !.payload = e] ELSE [p EXCEPT !.payload = f]
    BY DEF P!StartReceivePayload
  <1>2. Shape(p0)
    BY DEF Agree
  <1>3. Edited(p0, o)
    BY <1>2 DEF Edited, Shape, SameEnds
  <1>4. P!IsReady(p0) => P!IsReady(o)
    BY <1>2 DEF P!IsReady, P!GetState, Shape
  <1>5. p.failed = "none" => h
    BY <1>3, RequireEdits DEF Edited
  <1>6. p.failed = "none" => p = o
    BY DEF P!Require
  <1>7. Edited(o, p)
    <2>1. Shape(o)
      BY <1>3 DEF Edited
    <2> HIDE DEF o, h
    <2> QED
      BY <2>1, RequireEdits
  <1>8. receivable => (p.failed = "none" => P!IsReady(p))
    BY <1>4, <1>5, <1>6
  <1> HIDE DEF h, o, e, f
  <1>9. Agree(l, r, o, 0)
    BY <1>3, AgreeKept DEF Edited
  <1> HIDE DEF p
  <1>10. Agree(l, r, p, 0)
    BY <1>7, <1>9, AgreeKept DEF Edited
  <1>11. receivable => Agree(l, r, b, 1)
    BY <1>8, <1>10, AgreeRxStart
  <1> HIDE DEF b, s
  <1>12. receivable => Agree(l, r, [b EXCEPT !.payload = e], 1)
    <2> SUFFICES ASSUME receivable PROVE Agree(l, r, [b EXCEPT !.payload = e], 1)
      OBVIOUS
    <2>1. Edited(b, [b EXCEPT !.payload = e])
      BY <1>11 DEF Agree, Edited, Shape, SameEnds
    <2> QED
      BY <1>11, <2>1, AgreeKept DEF Edited
  <1>13. Edited(p, [p EXCEPT !.payload = f])
    BY <1>10 DEF Agree, Edited, Shape, SameEnds
  <1>14. Agree(l, r, [p EXCEPT !.payload = f], 0)
    BY <1>10, <1>13, AgreeKept DEF Edited
  <1>15. Agree(l, r, [p EXCEPT !.payload = f], 1)
    BY <1>14, AgreeMore
  <1> QED
    BY <1>1, <1>12, <1>15

\* The frame is handed to the MAC, which may set its NAV or want to respond.
LEMMA AgreeEnd ==
    ASSUME NEW l, NEW r \in Int, NEW s \in Int, s <= Sifs, NEW p0, Agree(l, r, p0, 0),
           NEW a \in T!AirType, NEW ok, NEW reaction \in Reactions
    PROVE  Agree(l, s, P!EndReceive(p0, a, ok, reaction), 3)
  <1> DEFINE f == p0.payload.of
             o == [p0 EXCEPT !.payload = P!NoEvent]
             h == p0.endRx = 0 /\ a[f].left = 0 /\ a[f].recorded /\ P!IsReady(p0)
             p == P!Require(o, h, "EndReceive")
             x == IF ok THEN "RxEndOk" ELSE "RxEndError"
             told == P!Tell(p, <<x, 0>>)
             handed == [told EXCEPT !.calls = @ \o reaction, !.current = NoSignal]
  <1>1. P!EndReceive(p0, a, ok, reaction) = P!MaybeCcaBusyDuration(handed, a)
    BY DEF P!EndReceive
  <1>2. Shape(p0)
    BY DEF Agree
  <1>3. Edited(p0, o)
    BY <1>2 DEF Edited, Shape, SameEnds
  <1>4. p.failed = "none" => h
    BY <1>3, RequireEdits DEF Edited
  <1>5. h => o.endRx = 0 /\ o.endTx <= 0
    BY <1>2, StateFacts DEF P!IsReady, Shape
  <1>6. p.failed = "none" => p = o
    BY DEF P!Require
  <1>7. p.failed = "none" => p.endRx = 0 /\ p.endTx <= 0
    BY <1>4, <1>5, <1>6
  <1>8. Edited(o, p)
    <2>1. Shape(o)
      BY <1>3 DEF Edited
    <2> HIDE DEF o, h
    <2> QED
      BY <2>1, RequireEdits
  <1>9. x \in {"RxEndOk", "RxEndError"}
    OBVIOUS
  <1> HIDE DEF h, o, f, x
  <1>10. Agree(l, r, o, 0)
    BY <1>3, AgreeKept DEF Edited
  <1> HIDE DEF p
  <1>11. Agree(l, r, p, 0)
    BY <1>8, <1>10, AgreeKept DEF Edited
  <1>12. Agree(l, s, told, 1)
    BY <1>7, <1>9, <1>11, AgreeRxEnd
  <1> HIDE DEF told
  <1>13. Shape(told) /\ told.calls \in Seq(CallType)
    BY <1>12 DEF Agree
  <1>14. Agree(l, s, handed, 2)
    <2>1. CASE reaction = <<>>
      <3>1. told.calls \o reaction = told.calls
        BY <1>13, <2>1
      <3>2. Edited(told, handed)
        BY <1>13, <3>1 DEF Edited, Shape, SameEnds
      <3> HIDE DEF handed
      <3>3. Agree(l, s, handed, 1)
        BY <1>12, <3>2, AgreeKept DEF Edited
      <3> QED
        BY <3>3, AgreeMore
    <2>2. ASSUME NEW d \in NavDurations, reaction = << <<"NavStart", d>> >>
          PROVE  Agree(l, s, handed, 2)
      <3> DEFINE n == P!Tell(told, <<"NavStart", d>>)
      <3>1. told.calls \o reaction = Append(told.calls, <<"NavStart", d>>)
        BY <1>13, <2>2
      <3>2. d \in Int
        BY PhyAccessAssumption
      <3>3. Agree(l, s, n, 2)
        BY <1>12, <3>2, AgreeNav
      <3>4. /\ n.calls = Append(told.calls, <<"NavStart", d>>)
            /\ n.failed = told.failed /\ SameEnds(told, n)
            /\ n.txEvent = told.txEvent /\ n.switchEvent = told.switchEvent
        BY <1>13 DEF P!Tell, Shape, SameEnds
      <3>5. /\ Shape(handed) /\ handed.failed = told.failed /\ SameEnds(told, handed)
            /\ handed.calls = told.calls \o reaction
            /\ handed.txEvent = told.txEvent /\ handed.switchEvent = told.switchEvent
        BY <1>13 DEF Shape, SameEnds
      <3> HIDE DEF n, handed
      <3>6. Edited(n, handed)
        BY <3>1, <3>4, <3>5 DEF Edited, SameEnds
      <3> QED
        BY <3>3, <3>6, AgreeKept DEF Edited
    <2> QED
      BY <2>1, <2>2 DEF Reactions
  <1> HIDE DEF handed
  <1>15. Agree(l, s, P!MaybeCcaBusyDuration(handed, a), 3)
    BY <1>14, AgreeMaybeCca
  <1> QED
    BY <1>1, <1>15

LEMMA AgreeReset ==
    ASSUME NEW l, NEW r, NEW p0, Agree(l, r, p0, 0), NEW a \in T!AirType
    PROVE  Agree(l, r, P!ResetReceive(p0, a), 1)
  <1> DEFINE o == [p0 EXCEPT !.payload = P!NoEvent]
             h == a[p0.payload.of].left = 0 /\ P!GetState(p0) # "RX"
             p == P!Require(o, h, "ResetReceive")
             f == [p EXCEPT !.current = NoSignal]
  <1>1. P!ResetReceive(p0, a) = P!MaybeCcaBusyDuration(f, a)
    BY DEF P!ResetReceive
  <1>2. Edited(p0, o)
    BY DEF Agree, Edited, Shape, SameEnds
  <1> HIDE DEF h, o
  <1>3. Agree(l, r, o, 0)
    BY <1>2, AgreeKept DEF Edited
  <1>4. Edited(o, p)
    BY <1>2, RequireEdits DEF Edited
  <1> HIDE DEF p
  <1>5. Agree(l, r, p, 0)
    BY <1>3, <1>4, AgreeKept DEF Edited
  <1>6. Edited(p, f)
    BY <1>5 DEF Agree, Edited, Shape, SameEnds
  <1> HIDE DEF f
  <1>7. Agree(l, r, f, 0)
    BY <1>5, <1>6, AgreeKept DEF Edited
  <1>8. Agree(l, r, P!MaybeCcaBusyDuration(f, a), 1)
    BY <1>7, AgreeMaybeCca
  <1> QED
    BY <1>1, <1>8

LEMMA AgreeSend ==
    ASSUME NEW l, D!TxStartAllowed(l.cam), NEW r, NEW p0, Agree(l, r, p0, 0),
           NEW a \in T!AirType, NEW d \in Nat, p0.switchEvent < 0
    PROVE  Agree(l, -1, P!Send(p0, a, d), 2)
  <1> DEFINE h == P!GetState(p0) \notin {"TX", "SWITCHING"} /\ p0.txEvent < 0
             p == P!Require(p0, h, "Send")
             noise == IF p.current # NoSignal THEN P!CcaIfOutlasts(p, a, p.current) ELSE p
             free == IF p.current # NoSignal THEN P!AbortCurrentReception(noise) ELSE noise
  <1>1. P!Send(p0, a, d) = [P!SwitchToTx(free, d) EXCEPT !.txEvent = d]
    BY DEF P!Send
  <1>2. Shape(p0)
    BY DEF Agree
  <1>3. Edited(p0, p) /\ (p.failed = "none" => h /\ p = p0)
    BY <1>2, RequireEdits DEF P!Require
  <1> HIDE DEF p
  <1>4. Agree(l, r, p, 0)
    BY <1>3, AgreeKept DEF Edited
  <1>5. /\ Agree(l, r, noise, 1) /\ noise.failed = p.failed
        /\ p.failed = "none" => P!GetState(noise) \notin {"TX", "SWITCHING"}
                                /\ noise.switchEvent < 0
    <2>1. CASE p.current # NoSignal
      <3>1. Agree(l, r, noise, 1) /\ noise.failed = p.failed
        BY <1>4, <2>1, AgreeMaybeCca
      <3>2. Shape(p) /\ Shape(noise)
        BY <1>4, <3>1 DEF Agree
      <3>3. /\ noise.endTx = p.endTx /\ noise.endRx = p.endRx
            /\ noise.endSwitching = p.endSwitching /\ noise.switchEvent = p.switchEvent
        BY <2>1, <3>2 DEF P!CcaIfOutlasts, P!MaybeCcaBusyDuration, P!SwitchMaybeToCcaBusy,
                          P!Tell, Shape
      <3> QED
        BY <1>3, <3>1, <3>2, <3>3, StateFacts DEF Shape
    <2>2. CASE p.current = NoSignal
      BY <1>3, <1>4, <2>2, AgreeMore
    <2> QED
      BY <2>1, <2>2
  <1> HIDE DEF noise, h
  <1>6. Edited(noise, free) /\ P!GetState(free) = P!GetState(noise)
        /\ free.switchEvent = noise.switchEvent /\ free.failed = noise.failed
    <2>1. Shape(noise)
      BY <1>5 DEF Agree
    <2> DEFINE f == P!AbortCurrentReception(noise)
    <2>2. /\ Shape(f) /\ f.calls = noise.calls /\ f.failed = noise.failed
          /\ SameEnds(noise, f) /\ f.txEvent = noise.txEvent
          /\ f.switchEvent = noise.switchEvent
      BY <2>1 DEF Shape, SameEnds, P!AbortCurrentReception
    <2>3. free = f \/ free = noise
      OBVIOUS
    <2> HIDE DEF f
    <2>4. P!GetState(f) = P!GetState(noise)
      BY <2>2 DEF SameEnds, P!GetState
    <2> HIDE DEF free
    <2> QED
      BY <2>1, <2>2, <2>3, <2>4 DEF Edited, SameEnds
  <1> HIDE DEF free
  <1>7. Agree(l, r, free, 1)
    BY <1>5, <1>6, AgreeKept DEF Edited
  <1>8. free.failed = "none" =>
          P!GetState(free) \notin {"TX", "SWITCHING"} /\ free.switchEvent < 0
    BY <1>5, <1>6
  <1>9. Agree(l, -1, [P!SwitchToTx(free, d) EXCEPT !.txEvent = d], 2)
    BY <1>7, <1>8, AgreeTxStart
  <1> QED
    BY <1>1, <1>9

\* A switch waits for a transmission, and is refused during another.
LEMMA AgreeSetChannel ==
    ASSUME NEW l, NEW r, NEW p, Agree(l, r, p, 0), NEW d \in Nat, p.failed = "none"
    PROVE  Agree(l, -1, P!SetChannelNumber(p, d), 1)
  <1> DEFINE postponed == [p EXCEPT !.switchEvent = p.endTx]
             refused == P!Require(p, FALSE, "DoChannelSwitch")
             c == P!Cancelled(p)
  <1>1. Shape(p)
    BY DEF Agree
  <1>2. Agree(l, -1, p, 0)
    BY DEF Agree, Agrees, Remembers
  <1>3. CASE P!GetState(p) = "TX"
    <2>1. P!SetChannelNumber(p, d) = postponed
      BY <1>3 DEF P!SetChannelNumber
    <2>2. /\ Shape(postponed) /\ postponed.calls = p.calls /\ postponed.failed = p.failed
          /\ SameEnds(p, postponed) /\ postponed.txEvent = p.txEvent
          /\ postponed.switchEvent = p.endTx
      BY <1>1 DEF Shape, SameEnds
    <2> HIDE DEF postponed
    <2>3. Apart(postponed)
      BY <1>1, <1>2, <2>2 DEF Agree, Apart, SameEnds, Shape
    <2>4. \A m : Agrees(l, -1, p, m) => Agrees(l, -1, postponed, m)
      BY <2>2 DEF Agrees, Knows, SameEnds
    <2>5. Agree(l, -1, postponed, 0)
      BY <1>2, <2>2, <2>3, <2>4 DEF Agree
    <2> QED
      BY <2>1, <2>5, AgreeMore
  <1>4. CASE P!GetState(p) = "SWITCHING"
    <2>1. P!SetChannelNumber(p, d) = refused
      BY <1>4 DEF P!SetChannelNumber
    <2>2. Edited(p, refused)
      BY <1>1, RequireEdits
    <2> HIDE DEF refused
    <2>3. Agree(l, -1, refused, 0)
      BY <1>2, <2>2, AgreeKept DEF Edited
    <2> QED
      BY <2>1, <2>3, AgreeMore
  <1>5. CASE P!GetState(p) \notin {"TX", "SWITCHING"}
    <2>1. P!SetChannelNumber(p, d) = P!SwitchToChannelSwitching(c, d)
      BY <1>5 DEF P!SetChannelNumber
    <2>2. p.endTx <= 0 /\ p.endSwitching <= 0
      BY <1>1, <1>5, StateFacts DEF Agree, Apart, Shape
    <2>3. Edited(p, c) /\ c.failed = p.failed /\ SameEnds(p, c)
      <3>1. CASE P!GetState(p) = "RX"
        BY <1>1, <3>1 DEF P!Cancelled, Edited, Shape, SameEnds
      <3>2. CASE P!GetState(p) # "RX" /\ P!Running(p.preamble)
        BY <1>1, <3>2 DEF P!Cancelled, Edited, Shape, SameEnds
      <3>3. CASE P!GetState(p) # "RX" /\ ~P!Running(p.preamble)
        BY <1>1, <3>3 DEF P!Cancelled, Edited, Shape, SameEnds
      <3> QED
        BY <3>1, <3>2, <3>3
    <2> HIDE DEF c
    <2>4. Agree(l, -1, c, 0)
      BY <1>2, <2>3, AgreeKept DEF Edited
    <2> QED
      BY <2>1, <2>2, <2>3, <2>4, AgreeSwitchingStart DEF SameEnds
  <1> QED
    BY <1>1, <1>3, <1>4, <1>5, StateFacts

---------------------------------------------------------------------------
(* The invariant: the manager knows the PHY, a request waits for all it    *)
(* knows of, and a response finds the frame it answers not forgotten and   *)
(* no transmission under way.                                              *)

Know ==
    /\ Knows(phy, dcam.cam)
    /\ Apart(phy)
    /\ Remembers(dcam.cam, response)
    /\ response >= 0 => phy.endTx <= 0

Inv ==
    /\ T!TInv
    /\ dcam \in [cam : D!CamType, request : RequestType,
                 failed : {"none", "RequestAccessCallback"}]
    /\ Waits(dcam.request, dcam.cam)
    /\ response \in Int /\ -1 <= response /\ response <= Sifs
    /\ Alive => Know

LEMMA InvFacts ==
    ASSUME Inv
    PROVE  /\ phy \in T!PhyType /\ T!IsPhy(phy) /\ air \in T!AirType
           /\ Shape(phy) /\ phy.calls = <<>>
           /\ Alive <=> phy.failed = "none" /\ dcam.failed = "none"
           /\ Alive => Fine(dcam) /\ Know
  <1>1. phy \in T!PhyType /\ T!IsPhy(phy) /\ air \in T!AirType
    BY T!TypedEvents, Constants DEF Inv, T!TInv
  <1>2. Shape(phy)
    BY <1>1 DEF T!IsPhy, Shape
  <1>3. phy.calls = <<>>
    BY <1>1 DEF T!PhyType
  <1>4. Alive <=> phy.failed = "none" /\ dcam.failed = "none"
    BY DEF Alive, P!Alive
  <1> QED
    BY <1>1, <1>2, <1>3, <1>4 DEF Inv, Fine

LEMMA StartsAgreed ==
    ASSUME Inv, Alive, NEW l, Fine(l), l.cam = dcam.cam
    PROVE  Agree(l, response, phy, 0)
  <1>1. Shape(phy) /\ phy.calls = <<>> /\ Know
    BY InvFacts
  <1>2. <<>> \in Seq(CallType) /\ Len(<<>>) <= 0
    OBVIOUS
  <1>3. Agrees(l, response, phy, l)
    BY <1>1 DEF Agrees, Know
  <1> QED
    BY <1>1, <1>2, <1>3, DeliverNone DEF Agree, Know

\* A step that the PHY ends as q.
LEMMA EndsAgreed ==
    ASSUME T!TInv', response' \in Int, -1 <= response', response' <= Sifs,
           NEW l, NEW q, NEW n, Agree(l, response', q, n),
           phy' = [q EXCEPT !.calls = <<>>], dcam' \in Deliver(l, q.calls)
    PROVE  Inv'
  <1>1. Shape(q) /\ Agrees(l, response', q, dcam')
        /\ (q.failed = "none" => Apart(q) /\ (response' >= 0 => q.endTx <= 0))
    BY DEF Agree
  <1>2. SameEnds(q, phy') /\ phy'.txEvent = q.txEvent /\ phy'.switchEvent = q.switchEvent
        /\ phy'.failed = q.failed
    BY <1>1 DEF Shape, SameEnds
  <1>3. Fine(dcam') /\ (q.failed = "none" =>
                          Knows(q, dcam'.cam) /\ Remembers(dcam'.cam, response'))
    BY <1>1 DEF Agrees
  <1>4. Alive' => Know'
    BY <1>1, <1>2, <1>3 DEF Alive, P!Alive, Know, Knows, Apart, SameEnds
  <1>5. /\ dcam' \in [cam : D!CamType, request : RequestType,
                      failed : {"none", "RequestAccessCallback"}]
        /\ Waits(dcam'.request, dcam'.cam)
    BY <1>3 DEF Fine
  <1> QED
    BY <1>4, <1>5 DEF Inv

LEMMA BecomesAgreed ==
    ASSUME T!TInv', response' \in Int, -1 <= response', response' <= Sifs,
           NEW q, NEW n, Agree(dcam, response', q, n), P!Becomes(q)
    PROVE  Inv'
  BY EndsAgreed DEF P!Becomes

LEMMA TypesKept ==
    ASSUME Inv, [T!Next]_(T!vars)
    PROVE  T!TInv'
  BY T!NextTypes, Constants DEF Inv

LEMMA ReceptionKeeps ==
    ASSUME Inv, Alive, P!Reception, UNCHANGED response
    PROVE  Inv'
  <1>1. T!TInv'
    BY ReceptionIsPhys, TypesKept DEF T!Next
  <1>2. air' \in T!AirType
    BY <1>1 DEF T!TInv, T!TypeOK
  <1>3. Agree(dcam, response, phy, 0) /\ Shape(phy) /\ air \in T!AirType
    BY InvFacts, StartsAgreed
  <1>4. response \in Int /\ -1 <= response /\ response <= Sifs /\ response' = response
    BY DEF Inv
  <1>5. ASSUME NEW q, NEW n, Agree(dcam, response, q, n), P!Becomes(q)
        PROVE  Inv'
    BY <1>1, <1>4, <1>5, BecomesAgreed
  <1>6. ASSUME NEW s \in Signals, NEW power \in Powers, NEW d \in FrameDurations,
               P!FrameArrives(s, d, power)
        PROVE  Inv'
    <2>1. Agree(dcam, response, P!StartReceivePreamble(phy, air', s), 1)
      BY <1>2, <1>3, AgreePreamble
    <2> QED
      BY <1>5, <1>6, <2>1 DEF P!FrameArrives
  <1>7. ASSUME NEW s \in Signals, NEW power \in Powers, NEW d \in NoiseDurations,
               P!NoiseArrives(s, d, power)
        PROVE  Inv'
    <2>1. Agree(dcam, response, P!CcaIfOutlasts(phy, air', s), 1)
      BY <1>2, <1>3, AgreeMaybeCca
    <2> QED
      BY <1>5, <1>7, <2>1 DEF P!NoiseArrives
  <1>8. ASSUME NEW b \in BOOLEAN, P!PreambleEnds(b)
        PROVE  Inv'
    <2>1. Agree(dcam, response, P!StartReceiveHeader(phy, air, b), 1)
      BY <1>3, AgreeHeader
    <2> QED
      BY <1>5, <1>8, <2>1 DEF P!PreambleEnds
  <1>9. T!TypeOK
    BY DEF Inv, T!TInv
  <1>10. ASSUME NEW b \in BOOLEAN, P!HeaderStarts(b)
         PROVE  Inv'
    <2>1. phy.header.run = "ContinueReceiveHeader"
      BY <1>10 DEF P!HeaderStarts, P!Due
    <2>2. air[phy.header.of].left \in Int
      BY <1>9, <2>1, T!TypedEvents, Constants DEF T!Running
    <2>3. Agree(dcam, response, P!ContinueReceiveHeader(phy, air, b), 1)
      BY <1>3, <2>2, AgreeContinue
    <2> QED
      BY <1>5, <1>10, <2>3 DEF P!HeaderStarts
  <1>11. ASSUME NEW b \in BOOLEAN, P!PayloadStarts(b)
         PROVE  Inv'
    <2>1. phy.header.run = "StartReceivePayload" /\ phy.header.left = 0
      BY <1>11 DEF P!PayloadStarts, P!Due
    <2>2. air[phy.header.of].left \in Int
      BY <1>9, <2>1, T!TypedEvents, Constants DEF T!Running
    <2>3. air[phy.header.of].left \in Nat
      BY <2>1, <2>2 DEF Inv, T!TInv, T!HeaderFits
    <2>4. Agree(dcam, response, P!StartReceivePayload(phy, air, b), 1)
      BY <1>3, <1>4, <2>3, AgreePayload
    <2> QED
      BY <1>5, <1>11, <2>4 DEF P!PayloadStarts
  <1>12. ASSUME P!UnreceivedFrameEnds
         PROVE  Inv'
    <2>1. Agree(dcam, response, P!ResetReceive(phy, air), 1)
      BY <1>3, AgreeReset
    <2> QED
      BY <1>5, <1>12, <2>1 DEF P!UnreceivedFrameEnds
  <1>13. ASSUME P!NotifyTxEnd
         PROVE  Inv'
    <2> DEFINE q == [phy EXCEPT !.txEvent = -1]
    <2>1. /\ Shape(q) /\ q.calls = phy.calls /\ q.failed = phy.failed /\ SameEnds(phy, q)
          /\ q.txEvent = -1 /\ q.switchEvent = phy.switchEvent
      BY <1>3 DEF Shape, SameEnds
    <2> HIDE DEF q
    <2>2. Agree(dcam, response, q, 0)
      BY <1>3, <2>1 DEF Agree, Agrees, Apart, Knows, SameEnds
    <2> QED
      BY <1>5, <1>13, <2>2 DEF P!NotifyTxEnd, q
  <1> QED
    BY <1>6, <1>7, <1>8, <1>10, <1>11, <1>12, <1>13, Zenon DEF P!Reception

LEMMA FrameEndsKeeps ==
    ASSUME Inv, FrameEnds
    PROVE  Inv' /\ [T!Next]_(T!vars)
  <1>1. Alive /\ Sifs \in Nat \ {0} /\ response \in Int /\ -1 <= response /\ response <= Sifs
    BY PhyAccessAssumption DEF FrameEnds, Inv
  <1>2. PICK ok \in BOOLEAN, reaction \in Reactions :
          /\ P!FrameEnds(ok, reaction)
          /\ response' \in {response, Sifs}
    <2>1. <<>> \in Reactions
      BY DEF Reactions
    <2>2. CASE P!FrameEnds(FALSE, <<>>) /\ UNCHANGED response
      BY <2>1, <2>2
    <2>3. ASSUME NEW reaction \in Reactions, P!FrameEnds(TRUE, reaction),
                 \/ UNCHANGED response
                 \/ reaction = <<>> /\ response < 0 /\ response' = Sifs
          PROVE  P!FrameEnds(TRUE, reaction) /\ response' \in {response, Sifs}
      BY <2>3
    <2> QED
      BY <2>2, <2>3 DEF FrameEnds
  <1>3. T!Next
    BY <1>2, FrameEndsIsPhys, Zenon DEF T!Next
  <1>4. T!TInv'
    BY <1>3, TypesKept
  <1>5. Agree(dcam, response, phy, 0) /\ air \in T!AirType
    BY <1>1, InvFacts, StartsAgreed
  <1>6. response' \in Int /\ -1 <= response' /\ response' <= Sifs
    BY <1>1, <1>2
  <1>7. Agree(dcam, response', P!EndReceive(phy, air, ok, reaction), 3)
    BY <1>1, <1>5, <1>6, AgreeEnd
  <1>8. Inv'
    BY <1>2, <1>4, <1>6, <1>7, BecomesAgreed DEF P!FrameEnds
  <1> QED
    BY <1>3, <1>8

\* A request of the MAC's: the PHY does nothing yet.
LEMMA StartAccessKeeps ==
    ASSUME Inv, StartAccess
    PROVE  Inv' /\ [T!Next]_(T!vars)
  <1>1. /\ Alive /\ UNCHANGED <<phy, air, response>>
        /\ \E r \in D!Scheduled(dcam.cam, "BULK_ACCESS", 0) :
             dcam' = [dcam EXCEPT !.request = r]
    BY DEF StartAccess
  <1>2. [T!Next]_(T!vars)
    BY <1>1 DEF T!vars
  <1>3. T!TInv'
    BY <1>2, TypesKept
  <1>4. "BULK_ACCESS" \in D!Modes /\ dcam.cam \in D!CamType
    BY DEF Inv, D!Modes
  <1>5. PICK r \in D!Scheduled(dcam.cam, "BULK_ACCESS", 0) :
          dcam' = [dcam EXCEPT !.request = r]
    BY <1>1
  <1>6. r \in RequestType /\ Waits(r, dcam.cam)
    BY <1>4, ScheduledWaits
  <1>7. Know
    BY <1>1, InvFacts
  <1> QED
    BY <1>1, <1>2, <1>3, <1>5, <1>6, <1>7 DEF Inv, Know

---------------------------------------------------------------------------
(* A grant.  A request is due two SIFS after the end of everything, and no *)
(* response waits longer than one: so none is waiting, nothing is sent or  *)
(* received, and no event of the PHY's is left.                            *)

LEMMA DueMeansQuiet ==
    ASSUME Inv, Alive, D!Due(dcam.request)
    PROVE  /\ ~D!IsBusy(dcam.cam) /\ response = -1 /\ D!TxStartAllowed(dcam.cam)
           /\ phy.endTx < 0 /\ phy.endSwitching < 0 /\ phy.txEvent < 0
           /\ phy.switchEvent < 0
  <1>1. /\ Shape(phy) /\ Know /\ Sifs \in Nat \ {0}
        /\ response \in Int /\ -1 <= response /\ response <= Sifs
    BY InvFacts, PhyAccessAssumption DEF Inv
  <1>2. dcam.cam \in D!CamType /\ dcam.request.left = 0 /\ D!Pending(dcam.request)
    BY DEF Inv, D!Due
  <1>3. \A s \in D!Sources : dcam.cam.end[s] \in Int /\ dcam.cam.end[s] <= -(2 * Sifs)
    BY <1>1, <1>2, SourceSet DEF Inv, Waits
  <1>4. /\ dcam.cam.end["tx"] < 0 /\ dcam.cam.end["switching"] < 0
        /\ dcam.cam.end["rx"] < -Sifs /\ dcam.cam.end["rx"] \in Int
    BY <1>1, <1>3, SourceSet
  <1>5. ~D!IsBusy(dcam.cam)
    BY <1>1, <1>3 DEF D!IsBusy
  <1>6. phy.endTx < 0 /\ phy.endSwitching < 0
    BY <1>1, <1>4 DEF Know, Knows, Told, Shape
  <1>7. phy.txEvent < 0 /\ phy.switchEvent < 0
    BY <1>1, <1>6 DEF Know, Apart, Shape
  <1>8. response = -1
    BY <1>1, <1>4 DEF Know, Remembers
  <1>9. D!TxStartAllowed(dcam.cam)
    BY <1>1, <1>4 DEF D!TxStartAllowed
  <1> QED
    BY <1>5, <1>6, <1>7, <1>8, <1>9

LEMMA GrantKeeps ==
    ASSUME Inv, RequestAccessCallback
    PROVE  Inv' /\ [T!Next]_(T!vars)
  <1> DEFINE granted == [dcam EXCEPT !.request = D!NoRequest]
             failing == [granted EXCEPT !.failed = "RequestAccessCallback"]
             sent(d) == P!Send(phy, air, d)
             switched == P!SetChannelNumber(phy, ChannelSwitchDelay)
  <1>1. Alive /\ D!Due(dcam.request)
    BY DEF RequestAccessCallback
  <1>2. /\ ~D!IsBusy(dcam.cam) /\ response = -1 /\ D!TxStartAllowed(dcam.cam)
        /\ phy.endTx < 0 /\ phy.endSwitching < 0 /\ phy.txEvent < 0
        /\ phy.switchEvent < 0
    BY <1>1, DueMeansQuiet
  <1>3. Fine(dcam) /\ Know /\ Shape(phy) /\ phy.failed = "none" /\ air \in T!AirType
    BY <1>1, InvFacts
  <1>4. /\ Fine(granted) /\ granted.cam = dcam.cam
        /\ failing \in [cam : D!CamType, request : RequestType,
                        failed : {"none", "RequestAccessCallback"}]
        /\ failing.request = D!NoRequest /\ failing.cam = dcam.cam
        /\ failing.failed # "none"
    BY <1>3, NoRequestWaits DEF Fine
  <1>5. Agree(granted, response, phy, 0)
    BY <1>1, <1>4, StartsAgreed
  <1>6. \/ dcam' = failing /\ UNCHANGED <<phy, air, response>>
        \/ dcam' = granted /\ UNCHANGED <<phy, air, response>>
        \/ /\ P!GetState(phy) = "IDLE"
           /\ \E d \in TxDurations : /\ phy' = [sent(d) EXCEPT !.calls = <<>>]
                                     /\ dcam' \in Deliver(granted, sent(d).calls)
                                     /\ UNCHANGED <<air, response>>
        \/ /\ P!GetState(phy) = "IDLE" /\ CanSwitch
           /\ phy' = [switched EXCEPT !.calls = <<>>]
           /\ dcam' \in Deliver(granted, switched.calls)
           /\ air' = P!ResetSpectrumModel(phy, air)
           /\ response' = -1
    <2> HIDE DEF granted, sent, switched
    <2>1. CASE P!GetState(phy) # "IDLE"
      BY <1>2, <2>1 DEF RequestAccessCallback, granted
    <2>2. CASE P!GetState(phy) = "IDLE"
      BY <1>2, <2>2 DEF RequestAccessCallback, granted, sent, switched
    <2> QED
      BY <2>1, <2>2
  <1> HIDE DEF failing, granted
  <1>7. CASE dcam' \in {failing, granted} /\ UNCHANGED <<phy, air, response>>
    <2>1. [T!Next]_(T!vars)
      BY <1>7 DEF T!vars
    <2>2. T!TInv'
      BY <2>1, TypesKept
    <2>3. dcam'.cam = dcam.cam /\ Waits(dcam'.request, dcam'.cam)
          /\ dcam' \in [cam : D!CamType, request : RequestType,
                        failed : {"none", "RequestAccessCallback"}]
      BY <1>4, <1>7, NoRequestWaits DEF Fine
    <2>4. Know'
      BY <1>3, <1>7, <2>3 DEF Know
    <2>5. response' \in Int /\ -1 <= response' /\ response' <= Sifs
      BY <1>7 DEF Inv
    <2> QED
      BY <2>1, <2>2, <2>3, <2>4, <2>5 DEF Inv
  <1>8. ASSUME P!GetState(phy) = "IDLE", NEW d \in TxDurations,
               phy' = [sent(d) EXCEPT !.calls = <<>>],
               dcam' \in Deliver(granted, sent(d).calls), UNCHANGED <<air, response>>
        PROVE  Inv' /\ [T!Next]_(T!vars)
    <2>1. T!Becomes(T!Send(phy, air, d))
      <3>1. sent(d) = T!Send(phy, air, d)
        BY SameSend
      <3>2. 0' \in {0}
        OBVIOUS
      <3> HIDE DEF sent
      <3> QED
        BY <1>8, <3>1, <3>2 DEF T!Becomes
    <2>2. T!GetState(phy) = "IDLE"
      BY <1>8, SameGetState
    <2>3. T!StartTransmission(d)
      BY <1>2, <1>3, <1>8, <2>1, <2>2 DEF T!StartTransmission, T!MaySend, T!Alive
    <2>4. T!Next
      BY <2>3, Zenon DEF T!Next
    <2>5. T!TInv'
      BY <2>4, TypesKept
    <2>6. d \in Nat
      BY PhyAccessAssumption
    <2>7. Agree(granted, -1, sent(d), 2)
      BY <1>2, <1>3, <1>4, <1>5, <2>6, AgreeSend
    <2>8. response' = -1 /\ -1 <= Sifs
      BY <1>2, <1>8, PhyAccessAssumption
    <2> HIDE DEF sent
    <2>9. Inv'
      BY <1>8, <2>5, <2>7, <2>8, EndsAgreed
    <2> QED
      BY <2>4, <2>9
  <1>9. ASSUME P!GetState(phy) = "IDLE", CanSwitch,
               phy' = [switched EXCEPT !.calls = <<>>],
               dcam' \in Deliver(granted, switched.calls),
               air' = P!ResetSpectrumModel(phy, air), response' = -1
        PROVE  Inv' /\ [T!Next]_(T!vars)
    <2>1. T!Becomes(T!SetChannelNumber(phy, ChannelSwitchDelay))
      <3>1. switched = T!SetChannelNumber(phy, ChannelSwitchDelay)
        BY SameSetChannelNumber
      <3>2. 0' \in {0}
        OBVIOUS
      <3> HIDE DEF switched
      <3> QED
        BY <1>9, <3>1, <3>2 DEF T!Becomes
    <2>2. T!GetState(phy) = "IDLE" /\ air' = T!ResetSpectrumModel(phy, air)
      BY <1>9, SameGetState, SameResetSpectrumModel
    <2>3. T!SwitchChannel
      BY <1>2, <1>3, <1>9, <2>1, <2>2 DEF T!SwitchChannel, T!MaySwitch, T!Alive
    <2>4. T!Next
      BY <2>3, Zenon DEF T!Next
    <2>5. T!TInv'
      BY <2>4, TypesKept
    <2>6. ChannelSwitchDelay \in Nat
      BY PhyAccessAssumption
    <2>7. Agree(granted, -1, switched, 1)
      BY <1>3, <1>5, <2>6, AgreeSetChannel
    <2>8. response' = -1 /\ -1 <= Sifs
      BY <1>9, PhyAccessAssumption
    <2> HIDE DEF switched
    <2>9. Inv'
      BY <1>9, <2>5, <2>7, <2>8, EndsAgreed
    <2> QED
      BY <2>4, <2>9
  <1> HIDE DEF sent, switched
  <1> QED
    BY <1>6, <1>7, <1>8, <1>9

LEMMA SendResponseKeeps ==
    ASSUME Inv, SendResponse
    PROVE  Inv' /\ [T!Next]_(T!vars)
  <1>1. Alive /\ response = 0 /\ response' = -1
    BY DEF SendResponse
  <1>2. Shape(phy) /\ Know /\ Fine(dcam) /\ air \in T!AirType
    BY <1>1, InvFacts
  <1>3. D!TxStartAllowed(dcam.cam) /\ phy.endTx <= 0 /\ Sifs \in Nat
    BY <1>1, <1>2, PhyAccessAssumption DEF Know, Remembers, D!TxStartAllowed
  <1>4. P!GetState(phy) # "TX"
    BY <1>2, <1>3, StateFacts DEF Shape
  <1>5. PICK d \in TxDurations : P!StartTransmission(d)
    BY <1>4 DEF SendResponse
  <1>6. T!Next
    BY <1>5, StartTransmissionIsPhys, Zenon DEF T!Next
  <1>7. T!TInv'
    BY <1>6, TypesKept
  <1>8. Agree(dcam, response, phy, 0)
    BY <1>1, <1>2, StartsAgreed
  <1>9. phy.switchEvent < 0 /\ d \in Nat
    BY <1>5, PhyAccessAssumption DEF P!StartTransmission, P!MaySend
  <1>10. Agree(dcam, -1, P!Send(phy, air, d), 2)
    BY <1>2, <1>3, <1>8, <1>9, AgreeSend
  <1>11. Inv'
    BY <1>1, <1>3, <1>5, <1>7, <1>10, BecomesAgreed DEF P!StartTransmission
  <1> QED
    BY <1>6, <1>11

LEMMA SwitchKeeps ==
    ASSUME Inv, SwitchChannel \/ PostponedSwitch
    PROVE  Inv' /\ [T!Next]_(T!vars)
  <1>1. /\ Alive /\ response' = -1 /\ Sifs \in Nat /\ ChannelSwitchDelay \in Nat
        /\ P!SwitchChannel \/ P!PostponedSwitch
    BY PhyAccessAssumption DEF SwitchChannel, PostponedSwitch
  <1>2. T!Next
    BY <1>1, SwitchChannelIsPhys, PostponedSwitchIsPhys, Zenon DEF T!Next
  <1>3. T!TInv'
    BY <1>2, TypesKept
  <1>4. Agree(dcam, response, phy, 0) /\ phy.failed = "none"
    BY <1>1, InvFacts, StartsAgreed
  <1>5. CASE P!SwitchChannel
    <2>1. Agree(dcam, -1, P!SetChannelNumber(phy, ChannelSwitchDelay), 1)
      BY <1>1, <1>4, AgreeSetChannel
    <2> QED
      BY <1>1, <1>2, <1>3, <1>5, <2>1, BecomesAgreed DEF P!SwitchChannel
  <1>6. CASE P!PostponedSwitch
    <2> DEFINE q == [phy EXCEPT !.switchEvent = -1]
    <2>1. /\ Shape(q) /\ q.calls = phy.calls /\ q.failed = phy.failed /\ SameEnds(phy, q)
          /\ q.switchEvent = -1 /\ q.txEvent = phy.txEvent
      BY <1>4 DEF Agree, Shape, SameEnds
    <2>2. Agree(dcam, -1, P!SetChannelNumber(q, ChannelSwitchDelay), 1)
      <3> HIDE DEF q
      <3>1. Agree(dcam, response, q, 0)
        BY <1>4, <2>1 DEF Agree, Agrees, Apart, Knows, SameEnds
      <3> QED
        BY <1>1, <1>4, <2>1, <3>1, AgreeSetChannel
    <2> QED
      BY <1>1, <1>2, <1>3, <1>6, <2>2, BecomesAgreed DEF P!PostponedSwitch
  <1> QED
    BY <1>1, <1>5, <1>6

---------------------------------------------------------------------------
(* Time.                                                                   *)

LEMMA ElapseFacts ==
    ASSUME NEW c \in D!CamType
    PROVE  /\ D!Elapse(c) \in D!CamType
           /\ \A s \in D!Sources :
                /\ D!Elapse(c).end[s] >= c.end[s] - 1
                /\ \/ D!Elapse(c).end[s] = c.end[s] - 1
                   \/ c.end[s] <= 0 /\ D!Elapse(c).end[s] <= -(2 * Sifs)
           /\ D!Elapse(c).age <= c.age + 1 /\ D!Elapse(c).age \in Nat
           /\ c.end["rx"] <= 1 => D!Elapse(c).age = 0
  <1>1. /\ c.end \in [D!Sources -> Int] /\ c.age \in Nat /\ c.ok \in BOOLEAN
        /\ \A s \in D!Sources : c.end[s] \in Int
        /\ Sifs \in Nat \ {0} /\ "rx" \in D!Sources
    BY SourceSet, PhyAccessAssumption
  <1>2. \A s \in D!Sources :
          /\ D!Later(c.end[s] - 1, D!Past(s)) \in Int
          /\ D!Later(c.end[s] - 1, D!Past(s)) >= c.end[s] - 1
          /\ \/ D!Later(c.end[s] - 1, D!Past(s)) = c.end[s] - 1
             \/ c.end[s] <= 0 /\ D!Later(c.end[s] - 1, D!Past(s)) <= -(2 * Sifs)
    BY <1>1 DEF D!Later, D!Past
  <1>3. D!Elapse(c).end = [s \in D!Sources |-> D!Later(c.end[s] - 1, D!Past(s))]
    BY DEF D!Elapse
  <1>4. D!Elapse(c).end \in [D!Sources -> Int]
        /\ \A s \in D!Sources : D!Elapse(c).end[s] = D!Later(c.end[s] - 1, D!Past(s))
    BY <1>2, <1>3
  <1>5. /\ D!Elapse(c).age \in Nat /\ D!Elapse(c).age <= c.age + 1
        /\ c.end["rx"] <= 1 => D!Elapse(c).age = 0
    BY <1>1 DEF D!Elapse, D!Earlier
  <1>6. D!Elapse(c) = [end |-> D!Elapse(c).end, age |-> D!Elapse(c).age, ok |-> c.ok]
    BY DEF D!Elapse
  <1>7. D!Elapse(c) \in D!CamType
    <2> DEFINE e == D!Elapse(c)
    <2> HIDE DEF e
    <2>1. e.end \in [D!Sources -> Int] /\ e.age \in Nat
          /\ e = [end |-> e.end, age |-> e.age, ok |-> c.ok]
      BY <1>4, <1>5, <1>6 DEF e
    <2>2. e \in D!CamType
      BY <1>1, <2>1 DEF D!CamType
    <2> QED
      BY <2>2 DEF e
  <1> QED
    BY <1>2, <1>4, <1>5, <1>7

LEMMA TickKeeps ==
    ASSUME Inv, Tick
    PROVE  Inv' /\ [T!Next]_(T!vars)
  <1> DEFINE c == dcam.cam
             e == D!Elapse(c)
             r == dcam.request
  <1>1. /\ Alive /\ ~D!Due(r) /\ response # 0 /\ P!Tick
        /\ dcam' = [dcam EXCEPT !.cam = e, !.request = D!ElapseRequest(r)]
        /\ response' = P!Closer(response)
    BY DEF Tick
  <1>2. T!Next
    BY <1>1, TickIsPhys, Zenon DEF T!Next
  <1>3. T!TInv'
    BY <1>2, TypesKept
  <1>4. /\ Shape(phy) /\ Know /\ Fine(dcam) /\ Sifs \in Nat \ {0}
        /\ response \in Int /\ -1 <= response /\ response <= Sifs
    BY <1>1, InvFacts, PhyAccessAssumption DEF Inv
  <1>5. c \in D!CamType /\ r \in RequestType /\ Waits(r, c)
    BY <1>4 DEF Fine
  <1>6. /\ \A s \in D!Sources : c.end[s] \in Int /\ e.end[s] \in Int
        /\ c.age \in Nat
        /\ e \in D!CamType
        /\ \A s \in D!Sources : /\ e.end[s] >= c.end[s] - 1
                                /\ \/ e.end[s] = c.end[s] - 1
                                   \/ c.end[s] <= 0 /\ e.end[s] <= -(2 * Sifs)
        /\ e.age <= c.age + 1 /\ e.age \in Nat
        /\ c.end["rx"] <= 1 => e.age = 0
    BY <1>5, ElapseFacts, SourceSet
  <1>7. "tx" \in D!Sources /\ "rx" \in D!Sources /\ "switching" \in D!Sources
        /\ "busy" \in D!Sources
    BY SourceSet
  <1> HIDE DEF c, e
  <1>8. /\ dcam'.cam = e /\ dcam'.request = D!ElapseRequest(r) /\ dcam'.failed = dcam.failed
        /\ dcam' = [cam |-> e, request |-> D!ElapseRequest(r), failed |-> "none"]
    BY <1>1, <1>4 DEF Fine
  <1>9. D!ElapseRequest(r) \in RequestType /\ Waits(D!ElapseRequest(r), e)
    <2>1. CASE ~D!Pending(r)
      BY <1>5, <2>1 DEF D!ElapseRequest, Waits
    <2>2. CASE D!Pending(r)
      <3> DEFINE q == D!ElapseRequest(r)
      <3>1. r \in [mode : D!Modes, left : Nat] /\ r.left # 0
        BY <1>1, <1>5, <2>2 DEF RequestType, D!Due, D!Pending, D!NoRequest
      <3> HIDE DEF r
      <3>2. /\ q \in [mode : D!Modes, left : Nat] /\ q.left = r.left - 1 /\ r.left \in Nat
            /\ q.left \in Nat
        BY <2>2, <3>1 DEF D!ElapseRequest
      <3>3. \A s \in D!Sources : r.left >= c.end[s] + 2 * Sifs
        BY <1>5, <2>2 DEF Waits
      <3> HIDE DEF q
      <3>4. \A s \in D!Sources : q.left >= e.end[s] + 2 * Sifs
        <4> SUFFICES ASSUME NEW s \in D!Sources PROVE q.left >= e.end[s] + 2 * Sifs
          OBVIOUS
        <4>1. CASE e.end[s] = c.end[s] - 1
          BY <1>4, <1>6, <3>2, <3>3, <4>1
        <4>2. CASE e.end[s] <= -(2 * Sifs)
          BY <1>4, <1>6, <3>2, <4>2
        <4> QED
          BY <1>6, <4>1, <4>2
      <3>5. q \in RequestType /\ Waits(q, e)
        BY <3>2, <3>4 DEF RequestType, Waits
      <3> QED
        BY <3>5 DEF q
    <2> QED
      BY <2>1, <2>2
  <1>10. /\ phy'.endTx = P!Closer(phy.endTx) /\ phy'.endRx = P!Closer(phy.endRx)
         /\ phy'.endSwitching = P!Closer(phy.endSwitching)
         /\ phy'.endCca = P!Closer(phy.endCca)
         /\ phy'.txEvent = P!Closer(phy.txEvent)
         /\ phy'.switchEvent = P!Closer(phy.switchEvent) /\ phy'.failed = phy.failed
    BY <1>1, <1>4 DEF P!Tick, P!ElapsePhy, Shape
  <1>11. ASSUME NEW t \in Int, NEW s \in D!Sources, Told(t, c.end[s])
         PROVE  Told(P!Closer(t), e.end[s])
    BY <1>4, <1>6, <1>11 DEF Told, P!Closer
  <1>12. Knows(phy', e)
    <2>1. /\ Told(phy'.endTx, e.end["tx"]) /\ Told(phy'.endRx, e.end["rx"])
          /\ Told(phy'.endSwitching, e.end["switching"])
      BY <1>4, <1>7, <1>10, <1>11 DEF Know, Knows, Shape, c
    <2>2. c.end["busy"] > 0 => c.end["busy"] <= phy.endCca
      BY <1>4 DEF Know, Knows, c
    <2>3. e.end["busy"] > 0 => e.end["busy"] <= phy'.endCca
      BY <1>4, <1>6, <1>7, <1>10, <2>2 DEF P!Closer, Shape
    <2> QED
      BY <2>1, <2>3 DEF Knows
  <1>13. Apart(phy')
    BY <1>4, <1>10 DEF Know, Apart, P!Closer, Shape
  <1>14. /\ response' \in Int /\ -1 <= response' /\ response' <= Sifs
         /\ response' >= 0 => response > 0 /\ response' = response - 1
    BY <1>1, <1>4 DEF P!Closer
  <1>15. Remembers(e, response')
    <2> SUFFICES ASSUME response' >= 0
                 PROVE  e.end["rx"] >= response' - Sifs /\ e.age <= Sifs - response'
      BY DEF Remembers
    <2>1. response > 0 /\ response' = response - 1
      BY <1>14
    <2>2. c.end["rx"] >= response - Sifs /\ c.age <= Sifs - response
      BY <1>4, <2>1 DEF Know, Remembers, c
    <2> QED
      BY <1>4, <1>6, <1>7, <2>1, <2>2
  <1>16. response' >= 0 => phy'.endTx <= 0
    BY <1>4, <1>10, <1>14 DEF Know, P!Closer, Shape
  <1>17. Know'
    BY <1>8, <1>12, <1>13, <1>15, <1>16 DEF Know
  <1> QED
    BY <1>2, <1>3, <1>6, <1>8, <1>9, <1>14, <1>17 DEF Inv

---------------------------------------------------------------------------
(* The theorems.                                                           *)

LEMMA InitInv ==
    ASSUME Init
    PROVE  Inv /\ T!Init /\ Phy!Init
  <1>1. /\ T!Init /\ Phy!Init /\ phy = P!PhyInit /\ dcam = DcamInit /\ response = -1
    BY SameInit DEF Init, P!Init
  <1>2. T!TInv
    BY <1>1, T!InitTypes, Constants
  <1>3. /\ phy.endTx = -1 /\ phy.endRx = -1 /\ phy.endSwitching = -1 /\ phy.endCca = -1
        /\ phy.txEvent = -1 /\ phy.switchEvent = -1
    BY <1>1 DEF P!PhyInit
  <1>4. /\ D!CamInit \in D!CamType /\ D!CamInit.age = 0
        /\ D!CamInit.end["tx"] = 0 /\ D!CamInit.end["rx"] = 0
        /\ D!CamInit.end["switching"] = 0 /\ D!CamInit.end["busy"] = 0
    BY SourceSet DEF D!CamInit, D!CamType
  <1>5. /\ dcam.cam = D!CamInit /\ dcam.request = D!NoRequest
        /\ dcam \in [cam : D!CamType, request : RequestType,
                     failed : {"none", "RequestAccessCallback"}]
    BY <1>1, <1>4, NoRequestWaits DEF DcamInit
  <1>6. Know
    BY <1>1, <1>3, <1>4, <1>5 DEF Know, Knows, Told, Apart, Remembers
  <1> QED
    BY <1>1, <1>2, <1>5, <1>6, NoRequestWaits, PhyAccessAssumption DEF Inv

LEMMA NextInv ==
    ASSUME Inv, [Next]_vars
    PROVE  Inv' /\ [T!Next]_(T!vars)
  <1>1. CASE Alive /\ P!Reception /\ UNCHANGED response
    BY <1>1, ReceptionKeeps, ReceptionIsPhys DEF T!Next
  <1>2. CASE UNCHANGED vars
    <2>1. UNCHANGED <<phy, air, dcam, response>>
      BY <1>2 DEF vars
    <2>2. [T!Next]_(T!vars)
      BY <2>1 DEF T!vars
    <2>3. T!TInv'
      BY <2>2, TypesKept
    <2> QED
      BY <2>1, <2>2, <2>3 DEF Inv, Alive, P!Alive, Know
  <1> QED
    BY <1>1, <1>2, FrameEndsKeeps, StartAccessKeeps, GrantKeeps, SendResponseKeeps,
       SwitchKeeps, TickKeeps DEF Next

\* The invariant holds in every state: whatever the PHY does, whatever the
\* manager is told of it and whenever grants, responses and timers come.
THEOREM Invariance == Spec => []Inv
  <1>1. Init => Inv
    BY InitInv
  <1>2. Inv /\ [Next]_vars => Inv'
    BY NextInv
  <1> QED
    BY <1>1, <1>2, PTL DEF Spec

\* The state of the PHY, of the manager and of the response keep their types:
\* no event, request or response is ever overdue.
THEOREM TypeCorrectness == Spec => []TypeOK
  <1>1. Inv => TypeOK
    <2> SUFFICES ASSUME Inv PROVE TypeOK
      OBVIOUS
    <2>1. phy \in P!PhyType /\ air \in P!AirType
      BY InvFacts, SameTypes
    <2>2. dcam.cam \in D!CamType /\ dcam.request \in RequestType
      BY DEF Inv
    <2>3. response \in {-1} \cup Nat
      BY DEF Inv
    <2> QED
      BY <2>1, <2>2, <2>3 DEF TypeOK, RequestType
  <1> QED
    BY <1>1, Invariance, PTL

\* The manager knows to the end what the PHY sends, receives or switches.
THEOREM ManagerIsInformed == Spec => []ManagerKnowsPhy
  <1>1. Inv => ManagerKnowsPhy
    <2> SUFFICES ASSUME Inv, Alive
                 PROVE  /\ Left(dcam.cam.end["tx"]) = Left(phy.endTx)
                        /\ Left(dcam.cam.end["rx"]) = Left(phy.endRx)
                        /\ Left(dcam.cam.end["switching"]) = Left(phy.endSwitching)
                        /\ Left(dcam.cam.end["busy"]) <= Left(phy.endCca)
      BY DEF ManagerKnowsPhy
    <2>1. Shape(phy) /\ Knows(phy, dcam.cam) /\ dcam.cam \in D!CamType
      BY InvFacts DEF Know, Inv
    <2>2. \A s \in D!Sources : dcam.cam.end[s] \in Int
      BY <2>1, SourceSet
    <2>3. /\ dcam.cam.end["tx"] \in Int /\ dcam.cam.end["rx"] \in Int
          /\ dcam.cam.end["switching"] \in Int /\ dcam.cam.end["busy"] \in Int
      BY <2>2, SourceSet
    <2> QED
      BY <2>1, <2>3 DEF Shape, Knows, Told, Left
  <1> QED
    BY <1>1, Invariance, PTL

\* A pending request waits for two SIFS after all the PHY is doing.
THEOREM RequestsWait == Spec => []RequestWaitsForPhy
  <1>1. Inv => RequestWaitsForPhy
    <2> SUFFICES ASSUME Inv, Alive, D!Pending(dcam.request),
                        NEW busy \in {phy.endTx, phy.endRx, phy.endSwitching}, busy > 0
                 PROVE  dcam.request.left >= busy + 2 * Sifs
      BY DEF RequestWaitsForPhy
    <2>1. Shape(phy) /\ Knows(phy, dcam.cam)
      BY InvFacts DEF Know
    <2>2. \A s \in D!Sources : dcam.request.left >= dcam.cam.end[s] + 2 * Sifs
      BY DEF Inv, Waits
    <2>3. \E s \in D!Sources : busy = dcam.cam.end[s]
      BY <2>1, SourceSet DEF Shape, Knows, Told
    <2> QED
      BY <2>2, <2>3
  <1> QED
    BY <1>1, Invariance, PTL

\* No transmission of the node's own keeps back its response to a frame.
THEOREM ResponsesAreSent == Spec => []ResponseIsSent
  <1>1. Inv => ResponseIsSent
    <2> SUFFICES ASSUME Inv, Alive, response = 0 PROVE P!GetState(phy) # "TX"
      BY DEF ResponseIsSent
    <2>1. Shape(phy) /\ phy.endTx <= 0
      BY InvFacts DEF Know
    <2> QED
      BY <2>1, StateFacts DEF Shape
  <1> QED
    BY <1>1, Invariance, PTL

\* No assertion of the manager fails for what the PHY tells it.
THEOREM NoCallIsRefused == Spec => []CallsAreAccepted
  <1>1. Inv => CallsAreAccepted
    BY DEF Inv, CallsAreAccepted
  <1> QED
    BY <1>1, Invariance, PTL

\* To the PHY the node is a MAC like any other: what is proved of a PHY whose
\* MAC waits for transmissions and switches holds here.
THEOREM NodeUsesPhyAsAllowed == Spec => UsesPhyAsAllowed
  <1>1. Init => Phy!Init
    BY InitInv
  <1>2. Inv /\ [Next]_vars => [Phy!Next]_(Phy!vars)
    BY NextInv, SameNext
  <1> QED
    BY <1>1, <1>2, Invariance, PTL DEF Spec, UsesPhyAsAllowed, Phy!Spec

\* As long as the node does not change channels, its grants, responses and
\* timers disturb no reception: each stage finds the frame, the state and the
\* events it expects, and a busy PHY is receiving the frame it refers to.
THEOREM NodeReceptionNeverFails ==
    ASSUME ~CanSwitch
    PROVE  Spec => [](P!NoAssertionFails /\ P!OneReception /\ P!BusyMeansReceiving)
  <1>1. Init => Inv /\ T!RInv
    BY InitInv, T!InitReceives, Constants
  <1>2. (Inv /\ T!RInv) /\ [Next]_vars => (Inv /\ T!RInv)'
    <2> SUFFICES ASSUME Inv, T!RInv, [Next]_vars PROVE Inv' /\ T!RInv'
      OBVIOUS
    <2>1. Inv' /\ [T!Next]_(T!vars) /\ T!TInv
      BY NextInv DEF Inv
    <2> QED
      BY <2>1, T!NextReceives, Constants
  <1>3. T!RInv => P!NoAssertionFails /\ P!OneReception /\ P!BusyMeansReceiving
    <2>1. P!GetState(phy) = T!GetState(phy)
      BY SameGetState
    <2> QED
      BY <2>1 DEF T!RInv, T!NoSwitch, T!OneStage, T!Running, P!NoAssertionFails,
                  P!OneReception, P!BusyMeansReceiving, P!Stages, P!Running
  <1> QED
    BY <1>1, <1>2, <1>3, PTL DEF Spec
=============================================================================
