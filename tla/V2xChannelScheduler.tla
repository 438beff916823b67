-------------------------- MODULE V2xChannelScheduler --------------------------
(***************************************************************************)
(* The channel scheduler of a V2X device with a single IEEE 802.11p radio: *)
(* it assigns the radio to the control channel (CCH) or to one service     *)
(* channel (SCH) at a time, continuously, for some sync intervals, or in   *)
(* turns with the CCH as the channel coordinator announces the intervals.  *)
(* Each channel has a MAC of its own; switching puts one to sleep, takes   *)
(* the radio away from it, tunes the radio and wakes the other.            *)
(*                                                                         *)
(* The radio postpones a switch asked for during a transmission to its     *)
(* end, and asserts that none is asked for during another.  A MAC sends    *)
(* whenever it knows of nothing against it: it is awake, has the radio,    *)
(* and what it was told of as busy is over.  An event due now precedes     *)
(* frames and the passing of time; of two the order is open.  A timer is   *)
(* the time left to its event, -1 when there is none.                      *)
(***************************************************************************)
EXTENDS Integers, Sequences

CONSTANTS
    Cch, Services, Extends, Cchi, Schi,     \* see V2xChannelAccess
    Guard,          \* length of the guard interval at the start of each
    SwitchDelay,    \* how long the radio takes to switch
    TxTimes,        \* how long a frame may take
    MaxLate         \* bound: switches asked for during one frame

ASSUME SchedulerAssumption ==
    /\ Cch \notin Services
    /\ Extends \subseteq Nat \ {0} /\ TxTimes \subseteq Nat \ {0}
    /\ {Cchi, Schi, Guard, SwitchDelay, MaxLate} \subseteq Nat \ {0}

VARIABLES
    sch,        \* the scheduler, see SchType
    radio,      \* the PHY and what its MACs know of it, see RadioType
    clock,      \* the time since the CCH interval began
    guardDue    \* whether the interval's guard slot is yet to be announced

vars == <<sch, radio, clock, guardDue>>

Channels == Services \cup {Cch}
Sync == Cchi + Schi
Timer == {-1} \cup Nat
NoWait == [kind |-> "none", channel |-> Cch, extends |-> 0, left |-> -1]

SchType ==
    [access : {"default", "alternating", "continuous", "extended"},
                                    \* m_channelAccess, NoAccess only before the start
     channel : Channels,            \* m_channelNumber
     wait : [kind : {"none", "continuous", "extended"}, channel : Channels,
             extends : Nat, left : Timer],
                                    \* m_waitEvent, with m_waitChannelNumber
     waitExtend : Nat,              \* m_waitExtend
     extend : Timer]                \* m_extendEvent

RadioType ==
    [channel : Channels,            \* GetChannelNumber of the PHY
     doing : {"tx", "switching"}, left : Nat,   \* busy as long as some is left
     late : Seq(Channels),          \* switches postponed to the end of a frame
     overtaken : BOOLEAN,           \* history: one was asked for while one was late
     sender : Channels,             \* the MAC of the latest frame
     attached : SUBSET Channels,    \* MACs that have the PHY
     awake : SUBSET Channels,       \* MACs that are not asleep
     told : [Channels -> Nat],      \* how long each MAC knows the PHY to be busy
     virtual : [Channels -> Nat],   \* MakeVirtualBusy: how long each makes itself busy
     failed : {"none", "DoChannelSwitch", "SetupPhyListener", "Send"}]

---------------------------------------------------------------------------
(* The radio: a call maps its state to the state it leaves.                *)

Is(what) == radio.doing = what /\ radio.left > 0
Quiet == radio.left = 0 /\ radio.late = <<>>
Alive == radio.failed = "none"
Require(r, holds, name) == IF holds THEN r ELSE [r EXCEPT !.failed = name]

Tune(r, c) ==
    [r EXCEPT !.channel = c, !.doing = "switching", !.left = SwitchDelay,
              !.told = [k \in Channels |-> IF k \in r.attached THEN SwitchDelay ELSE @[k]]]

\* A fault: a switch asked for during a frame is forgotten.
SetChannelNumberIfQuiet(r, c) ==
    IF r.channel = c \/ r.left > 0 THEN r ELSE Tune(r, c)

\* SetChannelNumber and DoChannelSwitch.
SetChannelNumber(r, c) ==
    IF r.channel = c THEN r
    ELSE IF r.left = 0
    THEN Tune(r, c)
    ELSE Require([r EXCEPT !.late = Append(@, c)], r.doing = "tx", "DoChannelSwitch")

MakeVirtualBusy(r, c, t) == [r EXCEPT !.virtual[c] = t]

\* A fault: the MAC of the channel left stays awake and keeps the radio.
DetachNot(r, c) == r

\* Suspend and ResetWifiPhy, and then SetWifiPhy and Resume.
Detach(r, c) == [r EXCEPT !.awake = @ \ {c}, !.attached = @ \ {c}]
Attach(r, c) ==
    Require([r EXCEPT !.awake = @ \cup {c}, !.attached = @ \cup {c}],
            c \notin r.attached, "SetupPhyListener")

\* What is compared is the channel number a late switch has yet to change.
SwitchToNextChannel(r, cur, next) ==
    LET asked == [r EXCEPT !.overtaken = @ \/ r.late # <<>>]
        tuned == SetChannelNumber(Detach(asked, cur), next)
    IN  IF r.channel = next THEN asked
        ELSE Attach(MakeVirtualBusy(tuned, next, SwitchDelay), next)

---------------------------------------------------------------------------
(* The scheduler.  A request that is rejected, or that is satisfied by an  *)
(* access assigned or waited for already, changes nothing.                 *)

IsCchInterval == clock < Cchi
IsSchInterval == ~IsCchInterval
NeedTimeToCchInterval == IF IsCchInterval THEN 0 ELSE Sync - clock
NeedTimeToSchInterval == IF IsSchInterval THEN 0 ELSE Cchi - clock
NothingDone(s) == sch' = s /\ radio' = radio

AssignAlternatingAccess(c, immediate) ==
    IF sch.access # "default" THEN NothingDone(sch)
    ELSE /\ sch' = [sch EXCEPT !.access = "alternating", !.channel = c]
         /\ radio' = IF immediate /\ IsSchInterval
                     THEN SwitchToNextChannel(radio, Cch, c) ELSE radio

\* The scheduler waits for the service channel interval.
Wait(s, kind, c, x) ==
    /\ sch' = [s EXCEPT !.wait = [kind |-> kind, channel |-> c, extends |-> x,
                                  left |-> NeedTimeToSchInterval],
                        !.waitExtend = IF kind = "extended" THEN x ELSE @]
    /\ radio' = radio

Take(s, kind, c, extend) ==
    /\ sch' = [s EXCEPT !.access = kind, !.channel = c, !.wait = NoWait, !.extend = extend]
    /\ radio' = SwitchToNextChannel(radio, s.channel, c)

\* Whether a request already waited for stands in the way of this one: first
\* come, first served.
InTheWay(s, c, immediate) ==
    s.wait # NoWait /\ (s.wait.channel # c \/ ~immediate)

\* s is the scheduler's state without the event that calls this.
AssignContinuousAccess(s, c, immediate) ==
    IF s.access # "default" \/ InTheWay(s, c, immediate) THEN NothingDone(s)
    ELSE IF immediate \/ IsSchInterval
    THEN Take(s, "continuous", c, -1)
    ELSE Wait(s, "continuous", c, 0)

\* A fault: the rest of the sync interval counts in its CCH interval, too.
ExtendedDurationAlwaysMore(x) == Sync - clock + x * Sync
ExtendedDuration(x) == NeedTimeToCchInterval + x * Sync

AssignExtendedAccess(s, c, x, immediate) ==
    IF \/ s.access # "default"
       \/ InTheWay(s, c, immediate)
       \/ s.wait # NoWait /\ s.waitExtend < x
    THEN NothingDone(s)
    ELSE IF immediate \/ IsSchInterval
    THEN Take(s, "extended", c, ExtendedDuration(x))
    ELSE Wait(s, "extended", c, x)

Released ==
    [access |-> "default", channel |-> Cch, wait |-> NoWait, waitExtend |-> 0, extend |-> -1]

ReleaseAccess(s, c) ==
    IF s.channel # c THEN NothingDone(s)
    ELSE /\ sch' = Released
         /\ radio' = SwitchToNextChannel(radio, s.channel, Cch)

---------------------------------------------------------------------------
(* Steps.                                                                  *)

\* Every switch that is late is due when the frame ends.
FrameOver == ~Is("tx") /\ radio.late # <<>>
Due == guardDue \/ sch.wait.left = 0 \/ sch.extend = 0 \/ FrameOver

\* Callers ask whenever they like: while the radio sends or switches, too.
MayAsk == Alive /\ Len(radio.late) < MaxLate

StartSch(c, immediate) ==
    /\ MayAsk
    /\ \/ AssignAlternatingAccess(c, immediate)
       \/ AssignContinuousAccess(sch, c, immediate)
       \/ \E x \in Extends : AssignExtendedAccess(sch, c, x, immediate)
    /\ UNCHANGED <<clock, guardDue>>

\* StopSch: a channel not assigned counts as released, waited for or not.
StopSch(c) ==
    /\ MayAsk
    /\ ReleaseAccess(sch, c)
    /\ UNCHANGED <<clock, guardDue>>

\* m_waitEvent.
WaitEnds ==
    LET w == sch.wait
        s == [sch EXCEPT !.wait = NoWait]
    IN  /\ Alive /\ w.left = 0
        /\ IF w.kind = "continuous"
           THEN AssignContinuousAccess(s, w.channel, FALSE)
           ELSE AssignExtendedAccess(s, w.channel, w.extends, FALSE)
        /\ UNCHANGED <<clock, guardDue>>

\* m_extendEvent.
ExtendEnds ==
    /\ Alive /\ sch.extend = 0
    /\ ReleaseAccess([sch EXCEPT !.extend = -1], sch.channel)
    /\ UNCHANGED <<clock, guardDue>>

\* A fault: the radio does not return to the CCH.
FollowsServiceIntervals == sch.access = "alternating" /\ IsSchInterval
FollowsIntervals == sch.access = "alternating"

\* The guard slot begins each interval.
NotifyGuardSlotStart ==
    LET cur == IF IsCchInterval THEN sch.channel ELSE Cch
        next == IF IsCchInterval THEN Cch ELSE sch.channel
    IN  /\ Alive /\ guardDue
        /\ guardDue' = FALSE
        /\ radio' = IF FollowsIntervals
                    THEN MakeVirtualBusy(SwitchToNextChannel(radio, cur, next), next, Guard)
                    ELSE radio
        /\ UNCHANGED <<sch, clock>>

\* The frame during which a switch was asked for is over.
PostponedSwitch ==
    /\ Alive /\ FrameOver
    /\ radio' = SetChannelNumber([radio EXCEPT !.late = Tail(@)], Head(radio.late))
    /\ UNCHANGED <<sch, clock, guardDue>>

\* Where accesses alternate, what would last into a guard interval is not
\* started, and nothing is in one.
TimeToNextInterval == (IF IsCchInterval THEN Cchi ELSE Sync) - clock
IsGuardInterval == (IF IsCchInterval THEN clock ELSE clock - Cchi) < Guard
NeedTimeToGuardInterval == IF IsGuardInterval THEN 0 ELSE TimeToNextInterval
IsAlternatingAccessAssigned(c) == sch.access = "alternating" /\ c \in {Cch, sch.channel}

\* MAC c is granted access and sends.
Send(c, t) ==
    /\ Alive /\ ~Due
    /\ c \in radio.attached \cap radio.awake
    /\ radio.told[c] = 0 /\ radio.virtual[c] = 0
    /\ IsAlternatingAccessAssigned(radio.channel) => t <= NeedTimeToGuardInterval
    /\ radio' = Require([radio EXCEPT !.doing = "tx", !.left = t, !.sender = c,
                                      !.told = [k \in Channels |->
                                         IF k \in radio.attached THEN t ELSE @[k]]],
                        radio.left = 0, "Send")
    /\ UNCHANGED <<sch, clock, guardDue>>

\* A fault: a timer that does not run is counted down.
CloserAlways(t) == t - 1
Closer(t) == IF t > 0 THEN t - 1 ELSE t

Tick ==
    /\ Alive /\ ~Due
    /\ clock' = (clock + 1) % Sync
    /\ guardDue' = (clock' \in {0, Cchi})
    /\ sch' = [sch EXCEPT !.wait.left = Closer(@), !.extend = Closer(@)]
    /\ radio' = [radio EXCEPT !.left = Closer(@),
                              !.told = [k \in Channels |-> Closer(@[k])],
                              !.virtual = [k \in Channels |-> Closer(@[k])]]

\* Default CCH access is assigned when the device is initialized.
Init ==
    /\ sch = Released
    /\ radio = [channel |-> Cch, doing |-> "switching", left |-> 0, late |-> <<>>,
                sender |-> Cch, attached |-> {Cch}, awake |-> {Cch}, overtaken |-> FALSE,
                told |-> [c \in Channels |-> 0], virtual |-> [c \in Channels |-> 0],
                failed |-> "none"]
    /\ clock = 0 /\ guardDue = TRUE

Events == WaitEnds \/ ExtendEnds \/ NotifyGuardSlotStart \/ PostponedSwitch

Next ==
    \/ Tick \/ Events
    \/ \E c \in Services : (\E immediate \in BOOLEAN : StartSch(c, immediate)) \/ StopSch(c)
    \/ \E c \in Channels, t \in TxTimes : Send(c, t)

Spec == Init /\ [][Next]_vars

\* The simulator runs every event that is due, and time passes.
FairSpec == Spec /\ WF_vars(Tick) /\ WF_vars(Events)

---------------------------------------------------------------------------
(* What the scheduler promises.                                            *)

\* Scheduler and radio have their types.
TypeOK ==
    /\ sch \in SchType /\ radio \in RadioType
    /\ clock \in 0 .. Sync - 1 /\ guardDue \in BOOLEAN

\* Where the access assigned puts the radio.  An alternating access leaves it
\* on the CCH until the next service channel interval, unless immediate.
Assigned ==
    IF sch.access = "alternating"
    THEN IF IsCchInterval /\ ~guardDue THEN {Cch} ELSE {Cch, sch.channel}
    ELSE {sch.channel}

\* Whenever nothing moves, the radio is on the channel assigned, and the MAC
\* of that channel, no other, has it and is awake; whatever was asked for during
\* frames and switches, until a switch overtakes one that is late.
RadioFollowsAccess ==
    Alive /\ Quiet /\ ~radio.overtaken =>
        /\ radio.channel \in Assigned
        /\ radio.attached = {radio.channel} /\ radio.awake = {radio.channel}

\* A frame is sent, to its end, on the channel of its MAC, although the MACs
\* change while the radio stays: until a switch overtakes one that is late.
SendsOnItsChannel == Alive /\ ~radio.overtaken /\ Is("tx") => radio.channel = radio.sender

\* The scheduler is one that assigns channel access as promised.
Owner == [kind |-> sch.access, channel |-> sch.channel, left |-> sch.extend]
ChannelAccess == INSTANCE V2xChannelAccess WITH owner <- Owner
ImplementsChannelAccess == ChannelAccess!Spec

\* An alternating access that is not released has the radio in every interval
\* of its channel, and gives it back in every one of the CCH.
BothChannelsServed ==
    \A c \in Services :
        <>[](sch.access = "alternating" /\ sch.channel = c /\ Alive) =>
            []<>(Quiet /\ radio.channel = c) /\ []<>(Quiet /\ radio.channel = Cch)

---------------------------------------------------------------------------
(* What comments and assertions of the code ask for by themselves.         *)

\* ReleaseAccess: the SCH's activity is cancelled and the CCH has the radio.
ReleasedMeansCch == Alive /\ Quiet /\ sch.access = "default" => radio.channel = Cch

\* Send of the PHY: no MAC sends while it sends or switches.
NotSentIntoSwitch == radio.failed # "Send"

=============================================================================
