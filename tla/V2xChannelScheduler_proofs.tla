---------------------- MODULE V2xChannelScheduler_proofs ----------------------
(***************************************************************************)
(* Whatever the radio does and whenever its users ask, the scheduler is    *)
(* one that assigns channel access as promised: V2xChannelScheduler        *)
(* implements V2xChannelAccess.                                            *)
(*                                                                         *)
(* The radio takes no part in that argument.  What is needed of the        *)
(* scheduler is that an end is scheduled for an extended access and for no *)
(* other, that only the default access is to the CCH, and that a request   *)
(* that waits was a request for a service channel.                         *)
(*                                                                         *)
(* The radio itself follows the access assigned until a switch overtakes   *)
(* one that is late: the second half of the module.                        *)
(***************************************************************************)
EXTENDS V2xChannelScheduler, TLAPS

ClockOK == clock \in 0 .. Sync - 1

\* The inductive invariant, of a state s of the scheduler.
SchOK(s) ==
    /\ s \in SchType
    /\ IF s.access = "extended" THEN s.extend \in Nat ELSE s.extend = -1
    /\ s.access = "default" <=> s.channel = Cch
    /\ s.wait.kind = "none" => s.wait.left = -1
    /\ s.wait.kind # "none" => s.wait.channel \in Services
    /\ s.wait.kind = "extended" => s.wait.extends \in Extends

\* s and t assign the same access.
SameOwner(s, t) == s.access = t.access /\ s.channel = t.channel /\ s.extend = t.extend

---------------------------------------------------------------------------
(* Times.                                                                  *)

LEMMA SyncIsNat == Sync \in Nat \ {0}
  BY SchedulerAssumption DEF Sync

LEMMA WaitIsNat == ASSUME ClockOK PROVE NeedTimeToSchInterval \in Nat
  BY SchedulerAssumption DEF ClockOK, Sync, NeedTimeToSchInterval, IsSchInterval, IsCchInterval

\* An extended access lasts the intervals asked for and the rest of the one
\* it begins in.
LEMMA ExtendedLength ==
    ASSUME ClockOK, NEW x \in Extends
    PROVE  /\ ExtendedDuration(x) \in Nat
           /\ ExtendedDuration(x) \in ChannelAccess!Lengths("extended")
  <1> DEFINE whole == x * Sync
             rest == NeedTimeToCchInterval
  <1>1. x \in Nat /\ Sync \in Nat
    BY SyncIsNat, SchedulerAssumption
  <1>2. whole \in Nat
    <2> HIDE DEF rest
    <2> QED BY <1>1
  <1>3. rest \in 0 .. Schi
    BY SchedulerAssumption DEF ClockOK, Sync, NeedTimeToCchInterval, IsCchInterval
  <1>4. ExtendedDuration(x) = rest + whole
    BY DEF ExtendedDuration
  <1>5. rest + whole \in whole .. whole + Schi
    <2> HIDE DEF rest, whole
    <2> QED BY <1>2, <1>3, SchedulerAssumption
  <1>6. whole = x * ChannelAccess!Sync
    BY DEF Sync, ChannelAccess!Sync
  <1>7. rest + whole \in x * ChannelAccess!Sync .. x * ChannelAccess!Sync + Schi
    <2> HIDE DEF rest, whole
    <2> QED BY <1>5, <1>6
  <1>8. rest + whole \in Nat
    <2> HIDE DEF rest, whole
    <2> QED BY <1>2, <1>3, SchedulerAssumption
  <1> HIDE DEF rest, whole
  <1> QED BY <1>4, <1>7, <1>8 DEF ChannelAccess!Lengths

---------------------------------------------------------------------------
(* The operations.                                                         *)

\* A request that changes nothing, once the event that made it is gone.
LEMMA NothingKeepsOwner ==
    ASSUME NEW s, SchOK(s), SameOwner(s, sch), NothingDone(s)
    PROVE  SchOK(sch') /\ SameOwner(sch', sch)
  BY DEF NothingDone

LEMMA WaitKeepsOwner ==
    ASSUME NEW s, SchOK(s), SameOwner(s, sch), ClockOK,
           NEW kind \in {"continuous", "extended"}, NEW c \in Services, NEW x \in Nat,
           kind = "extended" => x \in Extends, Wait(s, kind, c, x)
    PROVE  SchOK(sch') /\ SameOwner(sch', sch)
  <1> DEFINE w == [kind |-> kind, channel |-> c, extends |-> x,
                   left |-> NeedTimeToSchInterval]
             y == IF kind = "extended" THEN x ELSE s.waitExtend
  <1>1. sch' = [s EXCEPT !.wait = w, !.waitExtend = y]
    BY DEF Wait, SchOK, SchType
  <1>2. w.left \in Timer /\ c \in Channels /\ y \in Nat
    BY WaitIsNat DEF Timer, Channels, SchOK, SchType
  <1>3. w \in [kind : {"none", "continuous", "extended"}, channel : Channels,
               extends : Nat, left : Timer]
    BY <1>2
  <1>4. /\ w.kind # "none" /\ w.channel \in Services
        /\ w.kind = "extended" => w.extends \in Extends
    OBVIOUS
  <1> HIDE DEF w, y
  <1> QED BY <1>1, <1>2, <1>3, <1>4 DEF SchOK, SchType, SameOwner

\* An access taken is one the scheduler may assign.
LEMMA TakeAssigns ==
    ASSUME NEW s, SchOK(s), SameOwner(s, sch), s.access = "default",
           NEW kind \in {"continuous", "extended"}, NEW c \in Services,
           NEW left \in ChannelAccess!Lengths(kind),
           IF kind = "extended" THEN left \in Nat ELSE left = -1,
           Take(s, kind, c, left)
    PROVE  SchOK(sch') /\ ChannelAccess!Assign
  <1>1. sch' = [s EXCEPT !.access = kind, !.channel = c, !.wait = NoWait, !.extend = left]
    BY DEF Take
  <1>2. c \in Channels /\ Cch \in Channels /\ c # Cch /\ left \in Timer
    BY SchedulerAssumption DEF Channels, Timer
  <1>3. NoWait \in [kind : {"none", "continuous", "extended"}, channel : Channels,
                    extends : Nat, left : Timer]
    BY <1>2 DEF NoWait, Timer
  <1>4. SchOK(sch')
    BY <1>1, <1>2, <1>3 DEF SchOK, SchType, NoWait
  <1>5. sch'.access = kind /\ sch'.channel = c /\ sch'.extend = left
    BY <1>1 DEF SchOK, SchType
  <1>6. sch.channel = Cch /\ sch.extend = -1 /\ sch.access = "default"
    BY DEF SchOK, SameOwner
  <1>7. ChannelAccess!Assign
    BY <1>5, <1>6 DEF ChannelAccess!Assign, ChannelAccess!Default, ChannelAccess!Kinds, Owner
  <1> QED BY <1>4, <1>7

LEMMA ContinuousImplements ==
    ASSUME NEW s, SchOK(s), SameOwner(s, sch), ClockOK, NEW c \in Services,
           NEW immediate \in BOOLEAN, AssignContinuousAccess(s, c, immediate)
    PROVE  SchOK(sch') /\ (SameOwner(sch', sch) \/ ChannelAccess!Assign)
  <1>1. CASE NothingDone(s)
    BY <1>1, NothingKeepsOwner
  <1>2. CASE s.access = "default" /\ Take(s, "continuous", c, -1)
    <2>1. -1 \in ChannelAccess!Lengths("continuous")
      BY DEF ChannelAccess!Lengths
    <2> QED BY <1>2, <2>1, TakeAssigns
  <1>3. CASE Wait(s, "continuous", c, 0)
    BY <1>3, WaitKeepsOwner
  <1> QED BY <1>1, <1>2, <1>3 DEF AssignContinuousAccess

LEMMA ExtendedImplements ==
    ASSUME NEW s, SchOK(s), SameOwner(s, sch), ClockOK, NEW c \in Services, NEW x \in Extends,
           NEW immediate \in BOOLEAN, AssignExtendedAccess(s, c, x, immediate)
    PROVE  SchOK(sch') /\ (SameOwner(sch', sch) \/ ChannelAccess!Assign)
  <1>1. CASE NothingDone(s)
    BY <1>1, NothingKeepsOwner
  <1>2. CASE s.access = "default" /\ Take(s, "extended", c, ExtendedDuration(x))
    BY <1>2, ExtendedLength, TakeAssigns
  <1>3. CASE Wait(s, "extended", c, x)
    <2>1. x \in Nat
      BY SchedulerAssumption
    <2> QED BY <1>3, <2>1, WaitKeepsOwner
  <1> QED BY <1>1, <1>2, <1>3 DEF AssignExtendedAccess

LEMMA AlternatingImplements ==
    ASSUME SchOK(sch), NEW c \in Services, NEW immediate \in BOOLEAN,
           AssignAlternatingAccess(c, immediate)
    PROVE  SchOK(sch') /\ (SameOwner(sch', sch) \/ ChannelAccess!Assign)
  <1>1. CASE NothingDone(sch)
    BY <1>1, NothingKeepsOwner DEF SameOwner
  <1>2. CASE /\ sch.access = "default"
             /\ sch' = [sch EXCEPT !.access = "alternating", !.channel = c]
    <2>1. c \in Channels /\ c # Cch
      BY SchedulerAssumption DEF Channels
    <2>2. SchOK(sch')
      BY <1>2, <2>1 DEF SchOK, SchType
    <2>3. sch'.access = "alternating" /\ sch'.channel = c /\ sch'.extend = -1
      BY <1>2 DEF SchOK, SchType
    <2>4. sch.channel = Cch /\ sch.extend = -1
      BY <1>2 DEF SchOK
    <2>5. -1 \in ChannelAccess!Lengths("alternating")
      BY DEF ChannelAccess!Lengths
    <2>6. ChannelAccess!Assign
      BY <1>2, <2>3, <2>4, <2>5
      DEF ChannelAccess!Assign, ChannelAccess!Default, ChannelAccess!Kinds, Owner
    <2> QED BY <2>2, <2>6
  <1> QED BY <1>1, <1>2 DEF AssignAlternatingAccess

LEMMA ReleaseImplements ==
    ASSUME NEW s, s \in SchType, NEW c, s.channel = c, ReleaseAccess(s, c)
    PROVE  SchOK(sch') /\ ChannelAccess!Release
  <1>1. sch' = Released
    BY DEF ReleaseAccess
  <1>2. SchOK(Released)
    BY DEF Released, SchOK, SchType, NoWait, Timer, Channels
  <1>3. ChannelAccess!Release
    BY <1>1 DEF Released, ChannelAccess!Release, ChannelAccess!Default, Owner
  <1> QED BY <1>1, <1>2, <1>3

---------------------------------------------------------------------------
(* The steps.                                                              *)

SInv == ClockOK /\ SchOK(sch)

LEMMA SInvInit == ASSUME Init PROVE SInv /\ ChannelAccess!Init
  <1>1. ClockOK
    BY SyncIsNat DEF Init, ClockOK
  <1>2. SchOK(sch)
    BY DEF Init, Released, SchOK, SchType, NoWait, Timer, Channels
  <1>3. ChannelAccess!Init
    BY DEF Init, Released, ChannelAccess!Init, ChannelAccess!Default, Owner
  <1> QED BY <1>1, <1>2, <1>3 DEF SInv

LEMMA SameOwnerStutters == ASSUME SameOwner(sch', sch) PROVE UNCHANGED Owner
  BY DEF SameOwner, Owner

\* Time brings the end of an extended access closer, and does not pass it.
LEMMA TickImplements ==
    ASSUME SInv, Tick
    PROVE  SInv' /\ (UNCHANGED Owner \/ ChannelAccess!TimePasses)
  <1>1. ClockOK'
    BY SyncIsNat DEF SInv, ClockOK, Tick
  <1> DEFINE left == Closer(sch.wait.left)
             extend == Closer(sch.extend)
  <1>2. sch \in SchType /\ sch.extend # 0 /\ sch.wait.left # 0
    BY DEF SInv, SchOK, Tick, Due
  <1>3. sch' = [sch EXCEPT !.wait = [sch.wait EXCEPT !.left = left], !.extend = extend]
    BY <1>2 DEF Tick, SchType
  <1>4. /\ left \in Timer /\ extend \in Timer
        /\ sch.wait.left = -1 => left = -1
        /\ IF sch.extend = -1 THEN extend = -1 ELSE extend \in Nat /\ extend = sch.extend - 1
    BY <1>2 DEF Closer, Timer, SchType
  <1> HIDE DEF left, extend
  <1>5. SchOK(sch')
    BY <1>3, <1>4 DEF SInv, SchOK, SchType
  <1>6. sch'.access = sch.access /\ sch'.channel = sch.channel /\ sch'.extend = extend
    BY <1>2, <1>3 DEF SchType
  <1>7. ASSUME sch.extend = -1 PROVE UNCHANGED Owner
    BY <1>4, <1>6, <1>7 DEF Owner
  <1>8. ASSUME sch.extend # -1 PROVE ChannelAccess!TimePasses
    <2>1. sch.extend > 0
      BY <1>2, <1>8 DEF SchType, Timer
    <2>2. Owner' = [Owner EXCEPT !.left = sch.extend - 1]
      BY <1>4, <1>6, <1>8 DEF Owner
    <2>3. Owner.left = sch.extend
      BY DEF Owner
    <2> QED BY <2>1, <2>2, <2>3 DEF ChannelAccess!TimePasses
  <1> QED BY <1>1, <1>5, <1>7, <1>8 DEF SInv

LEMMA StartSchImplements ==
    ASSUME SInv, NEW c \in Services, NEW immediate \in BOOLEAN, StartSch(c, immediate)
    PROVE  SInv' /\ (UNCHANGED Owner \/ ChannelAccess!Assign)
  <1>1. ClockOK /\ ClockOK' /\ SchOK(sch) /\ SameOwner(sch, sch)
    BY DEF SInv, StartSch, ClockOK, Sync, SameOwner
  <1>2. \/ AssignAlternatingAccess(c, immediate)
        \/ AssignContinuousAccess(sch, c, immediate)
        \/ \E x \in Extends : AssignExtendedAccess(sch, c, x, immediate)
    BY DEF StartSch
  <1>3. SchOK(sch') /\ (SameOwner(sch', sch) \/ ChannelAccess!Assign)
    BY <1>1, <1>2, AlternatingImplements, ContinuousImplements, ExtendedImplements
  <1> QED BY <1>1, <1>3, SameOwnerStutters DEF SInv

LEMMA StopSchImplements ==
    ASSUME SInv, NEW c \in Services, StopSch(c)
    PROVE  SInv' /\ (UNCHANGED Owner \/ ChannelAccess!Release)
  <1>1. ClockOK' /\ SchOK(sch) /\ SameOwner(sch, sch) /\ sch \in SchType
    BY DEF SInv, StopSch, ClockOK, Sync, SameOwner, SchOK
  <1>2. ReleaseAccess(sch, c)
    BY DEF StopSch
  <1>3. CASE sch.channel = c
    BY <1>1, <1>2, <1>3, ReleaseImplements DEF SInv
  <1>4. CASE sch.channel # c
    <2>1. NothingDone(sch)
      BY <1>2, <1>4 DEF ReleaseAccess
    <2> QED BY <1>1, <2>1, NothingKeepsOwner, SameOwnerStutters DEF SInv
  <1> QED BY <1>3, <1>4

\* A request waited for is served as if it were made now.
LEMMA WaitEndsImplements ==
    ASSUME SInv, WaitEnds
    PROVE  SInv' /\ (UNCHANGED Owner \/ ChannelAccess!Assign)
  <1> DEFINE w == sch.wait
             s == [sch EXCEPT !.wait = NoWait]
  <1>1. ClockOK /\ ClockOK' /\ sch \in SchType
    BY DEF SInv, WaitEnds, ClockOK, Sync, SchOK
  <1>2. w.kind \in {"continuous", "extended"} /\ w.channel \in Services
    BY DEF SInv, WaitEnds, SchOK, SchType
  <1>3. SchOK(s) /\ SameOwner(s, sch)
    BY DEF SInv, SchOK, SchType, SameOwner, NoWait, Timer, Channels
  <1>4. SchOK(sch') /\ (SameOwner(sch', sch) \/ ChannelAccess!Assign)
    <2>1. CASE w.kind = "continuous"
      <3>1. AssignContinuousAccess(s, w.channel, FALSE)
        BY <2>1 DEF WaitEnds
      <3> HIDE DEF s
      <3> QED BY <1>1, <1>2, <1>3, <3>1, ContinuousImplements
    <2>2. CASE w.kind = "extended"
      <3>1. AssignExtendedAccess(s, w.channel, w.extends, FALSE)
        BY <2>2 DEF WaitEnds
      <3>2. w.extends \in Extends
        BY <2>2 DEF SInv, SchOK
      <3> HIDE DEF s
      <3> QED BY <1>1, <1>2, <1>3, <3>1, <3>2, ExtendedImplements
    <2> QED BY <1>2, <2>1, <2>2
  <1> QED BY <1>1, <1>4, SameOwnerStutters DEF SInv

LEMMA ExtendEndsImplements ==
    ASSUME SInv, ExtendEnds
    PROVE  SInv' /\ ChannelAccess!Release
  <1> DEFINE s == [sch EXCEPT !.extend = -1]
  <1>1. ClockOK' /\ s \in SchType /\ s.channel = sch.channel
    BY DEF SInv, ExtendEnds, ClockOK, Sync, SchOK, SchType, Timer
  <1>2. ReleaseAccess(s, sch.channel)
    BY DEF ExtendEnds
  <1> HIDE DEF s
  <1> QED BY <1>1, <1>2, ReleaseImplements DEF SInv

LEMMA StepImplements ==
    ASSUME SInv, [Next]_vars
    PROVE  SInv' /\ [ChannelAccess!Next]_Owner
  <1> USE DEF ChannelAccess!Next
  <1>1. CASE Tick
    BY <1>1, TickImplements
  <1>2. CASE WaitEnds
    BY <1>2, WaitEndsImplements
  <1>3. CASE ExtendEnds
    BY <1>3, ExtendEndsImplements
  <1>4. ASSUME UNCHANGED <<sch, clock>> PROVE SInv' /\ UNCHANGED Owner
    BY <1>4 DEF SInv, ClockOK, Sync, Owner
  <1>5. CASE NotifyGuardSlotStart \/ PostponedSwitch
    BY <1>4, <1>5 DEF NotifyGuardSlotStart, PostponedSwitch
  <1>6. CASE \E c \in Services, immediate \in BOOLEAN : StartSch(c, immediate)
    BY <1>6, StartSchImplements
  <1>7. CASE \E c \in Services : StopSch(c)
    BY <1>7, StopSchImplements
  <1>8. CASE \E c \in Channels, t \in TxTimes : Send(c, t)
    BY <1>4, <1>8 DEF Send
  <1>9. CASE UNCHANGED vars
    BY <1>4, <1>9 DEF vars
  <1> QED
    BY <1>1, <1>2, <1>3, <1>5, <1>6, <1>7, <1>8, <1>9 DEF Next, Events

\* Channel access is assigned as promised, whatever the radio does and
\* however its users ask: nobody is preempted, and an extended access lasts
\* the sync intervals it asks for and at most the rest of an interval more.
THEOREM Implementation == Spec => ImplementsChannelAccess
  <1>1. Init => SInv /\ ChannelAccess!Init
    BY SInvInit
  <1>2. SInv /\ [Next]_vars => SInv' /\ [ChannelAccess!Next]_Owner
    BY StepImplements
  <1> QED BY <1>1, <1>2, PTL DEF Spec, ImplementsChannelAccess, ChannelAccess!Spec

---------------------------------------------------------------------------
(* Types.                                                                  *)

LEMMA TuneType ==
    ASSUME NEW r \in RadioType, NEW c \in Channels
    PROVE  Tune(r, c) \in RadioType
  <1> DEFINE told == [k \in Channels |-> IF k \in r.attached THEN SwitchDelay ELSE r.told[k]]
  <1>1. told \in [Channels -> Nat]
    BY SchedulerAssumption DEF RadioType
  <1>2. Tune(r, c) = [r EXCEPT !.channel = c, !.doing = "switching", !.left = SwitchDelay,
                               !.told = told]
    BY DEF Tune
  <1> HIDE DEF told
  <1> QED BY <1>1, <1>2, SchedulerAssumption DEF RadioType

LEMMA RequireType ==
    ASSUME NEW r \in RadioType, NEW holds \in BOOLEAN,
           NEW name \in {"DoChannelSwitch", "SetupPhyListener", "Send"}
    PROVE  Require(r, holds, name) \in RadioType
  BY DEF Require, RadioType

LEMMA SetChannelNumberType ==
    ASSUME NEW r \in RadioType, NEW c \in Channels
    PROVE  SetChannelNumber(r, c) \in RadioType
  <1> DEFINE late == Append(r.late, c)
             q == [r EXCEPT !.late = late]
  <1>1. q \in RadioType
    <2>1. late \in Seq(Channels)
      BY DEF RadioType
    <2> HIDE DEF late
    <2> QED BY <2>1 DEF RadioType
  <1>2. Require(q, r.doing = "tx", "DoChannelSwitch") \in RadioType
    <2> HIDE DEF q
    <2> QED BY <1>1, RequireType
  <1> QED BY <1>2, TuneType DEF SetChannelNumber

LEMMA MakeVirtualBusyType ==
    ASSUME NEW r \in RadioType, NEW c \in Channels, NEW t \in Nat
    PROVE  MakeVirtualBusy(r, c, t) \in RadioType
  <1> DEFINE v == [r.virtual EXCEPT ![c] = t]
  <1>1. v \in [Channels -> Nat]
    BY DEF RadioType
  <1>2. MakeVirtualBusy(r, c, t) = [r EXCEPT !.virtual = v]
    BY DEF MakeVirtualBusy
  <1> HIDE DEF v
  <1> QED BY <1>1, <1>2 DEF RadioType

LEMMA AttachType ==
    ASSUME NEW r \in RadioType, NEW c \in Channels
    PROVE  Attach(r, c) \in RadioType
  <1> DEFINE q == [r EXCEPT !.awake = r.awake \cup {c}, !.attached = r.attached \cup {c}]
  <1>1. q \in RadioType
    BY DEF RadioType
  <1>2. Attach(r, c) = Require(q, c \notin r.attached, "SetupPhyListener")
    BY DEF Attach
  <1> HIDE DEF q
  <1> QED BY <1>1, <1>2, RequireType

LEMMA SwitchToNextChannelType ==
    ASSUME NEW r \in RadioType, NEW cur \in Channels, NEW next \in Channels
    PROVE  SwitchToNextChannel(r, cur, next) \in RadioType
  <1> DEFINE asked == [r EXCEPT !.overtaken = r.overtaken \/ r.late # <<>>]
             tuned == SetChannelNumber(Detach(asked, cur), next)
  <1>1. asked \in RadioType
    BY DEF RadioType
  <1>2. SwitchToNextChannel(r, cur, next) =
            IF r.channel = next THEN asked
            ELSE Attach(MakeVirtualBusy(tuned, next, SwitchDelay), next)
    BY DEF SwitchToNextChannel
  <1> HIDE DEF asked
  <1>3. Detach(asked, cur) \in RadioType
    BY <1>1 DEF Detach, RadioType
  <1>4. tuned \in RadioType
    BY <1>3, SetChannelNumberType
  <1> HIDE DEF tuned
  <1>5. MakeVirtualBusy(tuned, next, SwitchDelay) \in RadioType
    BY <1>4, MakeVirtualBusyType, SchedulerAssumption
  <1> QED BY <1>1, <1>2, <1>5, AttachType

LEMMA CchIsChannel == Cch \in Channels /\ Services \subseteq Channels
  BY DEF Channels

LEMMA TakeType ==
    ASSUME NEW s \in SchType, radio \in RadioType, NEW kind, NEW c \in Channels, NEW x,
           Take(s, kind, c, x)
    PROVE  radio' \in RadioType
  BY SwitchToNextChannelType DEF Take, SchType

\* However a request is answered, the radio keeps its type.
LEMMA AssignType ==
    ASSUME NEW s \in SchType, radio \in RadioType, NEW c \in Services, NEW immediate \in BOOLEAN,
           \/ AssignAlternatingAccess(c, immediate)
           \/ AssignContinuousAccess(s, c, immediate)
           \/ \E x : AssignExtendedAccess(s, c, x, immediate)
    PROVE  radio' \in RadioType
  <1>1. c \in Channels /\ Cch \in Channels
    BY CchIsChannel
  <1>2. CASE AssignAlternatingAccess(c, immediate)
    BY <1>1, <1>2, SwitchToNextChannelType DEF AssignAlternatingAccess, NothingDone
  <1>3. CASE AssignContinuousAccess(s, c, immediate)
    <2>1. NothingDone(s) \/ Take(s, "continuous", c, -1) \/ Wait(s, "continuous", c, 0)
      BY <1>3 DEF AssignContinuousAccess
    <2> QED BY <1>1, <2>1, TakeType DEF NothingDone, Wait
  <1>4. ASSUME NEW x, AssignExtendedAccess(s, c, x, immediate) PROVE radio' \in RadioType
    <2>1. \/ NothingDone(s) \/ Take(s, "extended", c, ExtendedDuration(x))
          \/ Wait(s, "extended", c, x)
      BY <1>4 DEF AssignExtendedAccess
    <2> QED BY <1>1, <2>1, TakeType DEF NothingDone, Wait
  <1> QED BY <1>2, <1>3, <1>4

LEMMA ReleaseType ==
    ASSUME NEW s \in SchType, radio \in RadioType, NEW c, ReleaseAccess(s, c)
    PROVE  radio' \in RadioType
  BY SwitchToNextChannelType, CchIsChannel DEF ReleaseAccess, NothingDone, SchType

LEMMA TickType ==
    ASSUME radio \in RadioType, Tick
    PROVE  radio' \in RadioType
  <1> DEFINE left == Closer(radio.left)
             told == [k \in Channels |-> Closer(radio.told[k])]
             virtual == [k \in Channels |-> Closer(radio.virtual[k])]
  <1>1. \A t \in Nat : Closer(t) \in Nat
    BY DEF Closer
  <1>2. left \in Nat /\ told \in [Channels -> Nat] /\ virtual \in [Channels -> Nat]
    BY <1>1 DEF RadioType
  <1>3. radio' = [radio EXCEPT !.left = left, !.told = told, !.virtual = virtual]
    BY DEF Tick
  <1> HIDE DEF left, told, virtual
  <1> QED BY <1>2, <1>3 DEF RadioType

LEMMA SendType ==
    ASSUME radio \in RadioType, NEW c \in Channels, NEW t \in TxTimes, Send(c, t)
    PROVE  radio' \in RadioType
  <1> DEFINE told == [k \in Channels |-> IF k \in radio.attached THEN t ELSE radio.told[k]]
             q == [radio EXCEPT !.doing = "tx", !.left = t, !.sender = c, !.told = told]
  <1>1. t \in Nat
    BY SchedulerAssumption
  <1>2. told \in [Channels -> Nat]
    BY <1>1 DEF RadioType
  <1>3. radio' = Require(q, radio.left = 0, "Send")
    BY DEF Send
  <1>4. q \in RadioType
    <2> HIDE DEF told
    <2> QED BY <1>1, <1>2 DEF RadioType
  <1> HIDE DEF q
  <1> QED BY <1>3, <1>4, RequireType

LEMMA PostponedSwitchType ==
    ASSUME radio \in RadioType, PostponedSwitch
    PROVE  radio' \in RadioType
  <1> DEFINE q == [radio EXCEPT !.late = Tail(radio.late)]
             c == Head(radio.late)
  <1>1. radio.late \in Seq(Channels) /\ radio.late # <<>>
    BY DEF PostponedSwitch, FrameOver, RadioType
  <1>2. c \in Channels /\ Tail(radio.late) \in Seq(Channels)
    BY <1>1
  <1>3. q \in RadioType
    BY <1>2 DEF RadioType
  <1>4. radio' = SetChannelNumber(q, c)
    BY DEF PostponedSwitch
  <1> HIDE DEF q, c
  <1> QED BY <1>2, <1>3, <1>4, SetChannelNumberType

LEMMA NotifyGuardSlotStartType ==
    ASSUME sch \in SchType, radio \in RadioType, NotifyGuardSlotStart
    PROVE  radio' \in RadioType
  <1> DEFINE cur == IF IsCchInterval THEN sch.channel ELSE Cch
             next == IF IsCchInterval THEN Cch ELSE sch.channel
  <1>1. cur \in Channels /\ next \in Channels /\ Guard \in Nat
    BY CchIsChannel, SchedulerAssumption DEF SchType
  <1>2. \/ radio' = radio
        \/ radio' = MakeVirtualBusy(SwitchToNextChannel(radio, cur, next), next, Guard)
    BY DEF NotifyGuardSlotStart
  <1> HIDE DEF cur, next
  <1> QED BY <1>1, <1>2, SwitchToNextChannelType, MakeVirtualBusyType

TInv == SInv /\ radio \in RadioType /\ guardDue \in BOOLEAN

LEMMA StepType ==
    ASSUME TInv, [Next]_vars
    PROVE  TInv'
  <1>1. SInv' /\ SInv /\ sch \in SchType /\ radio \in RadioType /\ guardDue \in BOOLEAN
    BY StepImplements DEF TInv, SInv, SchOK
  <1> SUFFICES radio' \in RadioType /\ guardDue' \in BOOLEAN
    BY <1>1 DEF TInv
  <1>2. CASE Tick
    BY <1>1, <1>2, TickType DEF Tick
  <1>3. CASE WaitEnds
    <2> DEFINE s == [sch EXCEPT !.wait = NoWait]
    <2>1. s \in SchType
      BY <1>1, CchIsChannel DEF SchType, NoWait, Timer
    <2>2. sch.wait.channel \in Services
      BY <1>1, <1>3 DEF SInv, SchOK, WaitEnds
    <2>3. \/ AssignContinuousAccess(s, sch.wait.channel, FALSE)
          \/ AssignExtendedAccess(s, sch.wait.channel, sch.wait.extends, FALSE)
      BY <1>3 DEF WaitEnds
    <2> HIDE DEF s
    <2>4. radio' \in RadioType
      BY <1>1, <2>1, <2>2, <2>3, AssignType
    <2> QED BY <1>1, <1>3, <2>4 DEF WaitEnds
  <1>4. CASE ExtendEnds
    <2> DEFINE s == [sch EXCEPT !.extend = -1]
    <2>1. s \in SchType
      BY <1>1 DEF SchType, Timer
    <2>2. ReleaseAccess(s, sch.channel) /\ UNCHANGED guardDue
      BY <1>4 DEF ExtendEnds
    <2> HIDE DEF s
    <2> QED BY <1>1, <2>1, <2>2, ReleaseType
  <1>5. CASE NotifyGuardSlotStart
    BY <1>1, <1>5, NotifyGuardSlotStartType DEF NotifyGuardSlotStart
  <1>6. CASE PostponedSwitch
    BY <1>1, <1>6, PostponedSwitchType DEF PostponedSwitch
  <1>7. ASSUME NEW c \in Services, NEW immediate \in BOOLEAN, StartSch(c, immediate)
        PROVE  radio' \in RadioType /\ guardDue' \in BOOLEAN
    BY <1>1, <1>7, AssignType DEF StartSch
  <1>8. ASSUME NEW c \in Services, StopSch(c)
        PROVE  radio' \in RadioType /\ guardDue' \in BOOLEAN
    BY <1>1, <1>8, ReleaseType DEF StopSch
  <1>9. ASSUME NEW c \in Channels, NEW t \in TxTimes, Send(c, t)
        PROVE  radio' \in RadioType /\ guardDue' \in BOOLEAN
    BY <1>1, <1>9, SendType DEF Send
  <1>10. CASE UNCHANGED vars
    BY <1>1, <1>10 DEF vars
  <1> QED
    BY <1>2, <1>3, <1>4, <1>5, <1>6, <1>7, <1>8, <1>9, <1>10 DEF Next, Events

LEMMA InitType == ASSUME Init PROVE TInv
  <1>1. [c \in Channels |-> 0] \in [Channels -> Nat]
    OBVIOUS
  <1>2. radio \in RadioType /\ guardDue \in BOOLEAN
    BY <1>1, CchIsChannel DEF Init, RadioType
  <1> QED BY <1>2, SInvInit DEF TInv

\* Scheduler, radio and clock keep their types.
THEOREM TypeCorrectness == Spec => []TypeOK
  <1>1. Init => TInv
    BY InitType
  <1>2. TInv /\ [Next]_vars => TInv'
    BY StepType
  <1>3. TInv => TypeOK
    BY DEF TInv, SInv, ClockOK, SchOK, TypeOK
  <1> QED BY <1>1, <1>2, <1>3, PTL DEF Spec

---------------------------------------------------------------------------
(* The radio.                                                              *)
(*                                                                         *)
(* Until a switch overtakes one that is late, the radio of a program that  *)
(* has not stopped is on its way to one MAC, that of the channel assigned. *)

\* MAC c alone has the radio r, which is on its channel, or is tuned to it
\* when the frame in the air ends; and that frame is on its sender's channel.
Holds(r, c) ==
    /\ r.attached = {c} /\ r.awake = {c}
    /\ r.late = <<>> => r.channel = c
    /\ r.late # <<>> => r.late = <<c>> /\ r.doing = "tx"
    /\ r.doing = "tx" /\ r.left > 0 => r.channel = r.sender

\* MAC c is the one of the channel assigned.
Owns(c) ==
    CASE sch.access = "default" -> c = Cch
      [] sch.access = "alternating" ->
            c = Cch \/ (c = sch.channel /\ (IsSchInterval \/ guardDue))
      [] OTHER -> c = sch.channel

RInv == Alive /\ ~radio.overtaken => \E c \in Channels : Holds(radio, c) /\ Owns(c)

\* Tuned to another channel, a radio is handed over to its MAC.
LEMMA SwitchHolds ==
    ASSUME NEW r \in RadioType, NEW cur, NEW next \in Channels, r.failed = "none",
           ~r.overtaken => \E c \in Channels : Holds(r, c) /\ (next # c => cur = c),
           SwitchToNextChannel(r, cur, next).failed = "none",
           ~SwitchToNextChannel(r, cur, next).overtaken
    PROVE  Holds(SwitchToNextChannel(r, cur, next), next)
  <1> DEFINE q0 == [r EXCEPT !.overtaken = r.overtaken \/ r.late # <<>>]
             q1 == Detach(q0, cur)
             q2 == SetChannelNumber(q1, next)
             q3 == MakeVirtualBusy(q2, next, SwitchDelay)
             q4 == Attach(q3, next)
             q == SwitchToNextChannel(r, cur, next)
  <1>1. /\ q0.channel = r.channel /\ q0.doing = r.doing /\ q0.left = r.left
        /\ q0.late = r.late /\ q0.sender = r.sender /\ q0.attached = r.attached
        /\ q0.awake = r.awake /\ q0.failed = "none"
        /\ q0.overtaken = (r.overtaken \/ r.late # <<>>)
    BY DEF RadioType
  <1>2. q0 \in RadioType
    BY DEF RadioType
  <1>3. q = IF r.channel = next THEN q0 ELSE q4
    BY DEF SwitchToNextChannel
  <1>4. SwitchDelay \in Nat \ {0} /\ r.left \in Nat
    BY SchedulerAssumption DEF RadioType
  <1> HIDE DEF q0
  <1>5. /\ q1 \in RadioType
        /\ q1.attached = r.attached \ {cur} /\ q1.awake = r.awake \ {cur}
        /\ q1.late = r.late /\ q1.channel = r.channel /\ q1.left = r.left /\ q1.doing = r.doing
        /\ q1.sender = r.sender /\ q1.failed = "none" /\ q1.overtaken = q0.overtaken
    BY <1>1, <1>2 DEF Detach, RadioType
  <1> HIDE DEF q1
  <1>6. /\ q2 \in RadioType /\ q2.attached = q1.attached /\ q2.awake = q1.awake
        /\ q2.sender = r.sender /\ q2.overtaken = q0.overtaken
    <2>1. q2 \in RadioType
      BY <1>5, SetChannelNumberType
    <2> QED BY <1>5, <2>1 DEF SetChannelNumber, Tune, Require, RadioType
  <1>7. /\ q3 \in RadioType /\ q3.attached = q2.attached /\ q3.awake = q2.awake
        /\ q3.sender = q2.sender /\ q3.overtaken = q2.overtaken /\ q3.failed = q2.failed
        /\ q3.late = q2.late /\ q3.channel = q2.channel /\ q3.doing = q2.doing
        /\ q3.left = q2.left
    <2>1. q3 \in RadioType
      BY <1>4, <1>6, MakeVirtualBusyType
    <2> HIDE DEF q2
    <2> QED BY <1>6, <2>1 DEF MakeVirtualBusy, RadioType
  <1>8. /\ q4.attached = q3.attached \cup {next} /\ q4.awake = q3.awake \cup {next}
        /\ q4.sender = q3.sender /\ q4.overtaken = q3.overtaken
        /\ q4.failed = "none" => q3.failed = "none"
        /\ q4.late = q3.late /\ q4.channel = q3.channel /\ q4.doing = q3.doing
        /\ q4.left = q3.left
    <2> HIDE DEF q3
    <2> QED BY <1>7 DEF Attach, Require, RadioType
  <1>9. ~r.overtaken /\ r.late = <<>>
    BY <1>1, <1>3, <1>6, <1>7, <1>8
  <1>10. PICK c \in Channels : Holds(r, c) /\ (next # c => cur = c)
    BY <1>9
  <1>11. r.channel = c
    BY <1>9, <1>10 DEF Holds
  <1>12. CASE next = c
    BY <1>1, <1>3, <1>9, <1>10, <1>11, <1>12 DEF Holds
  <1>13. CASE next # c
    <2>1. q = q4 /\ q4.failed = "none"
      BY <1>3, <1>11, <1>13
    <2>2. q1.attached = {} /\ q1.awake = {}
      BY <1>5, <1>10, <1>13 DEF Holds
    <2>3. q4.attached = {next} /\ q4.awake = {next}
      BY <1>6, <1>7, <1>8, <2>2
    <2>4. q2.failed = "none"
      BY <1>7, <1>8, <2>1
    <2>5. \/ q2.late = <<>> /\ q2.channel = next /\ q2.doing = "switching"
          \/ /\ q2.late = <<next>> /\ q2.channel = c
             /\ q2.doing = "tx" /\ r.doing = "tx" /\ q2.left = r.left
      <3>1. CASE r.left = 0
        <4>1. q2 = Tune(q1, next)
          BY <1>5, <1>11, <1>13, <3>1 DEF SetChannelNumber
        <4> QED BY <1>5, <1>9, <4>1 DEF Tune, RadioType
      <3>2. CASE r.left # 0
        <4>1. q2 = Require([q1 EXCEPT !.late = <<next>>], q1.doing = "tx", "DoChannelSwitch")
          BY <1>5, <1>9, <1>11, <1>13, <3>2 DEF SetChannelNumber
        <4>2. q1.doing = "tx"
          BY <1>5, <2>4, <4>1 DEF Require, RadioType
        <4> QED BY <1>5, <1>11, <4>1, <4>2 DEF Require, RadioType
      <3> QED BY <3>1, <3>2
    <2>6. <<next>> # <<>>
      OBVIOUS
    <2>7. r.left > 0 /\ r.doing = "tx" => c = r.sender
      BY <1>10, <1>11 DEF Holds
    <2> HIDE DEF q2, q3, q4, q
    <2>8. q4.doing = "tx" /\ q4.left > 0 => q4.channel = q4.sender
      BY <1>4, <1>5, <1>6, <1>7, <1>8, <2>5, <2>7
    <2>9. /\ q4.late = <<>> => q4.channel = next
          /\ q4.late # <<>> => q4.late = <<next>> /\ q4.doing = "tx"
      BY <1>7, <1>8, <2>5, <2>6
    <2> QED BY <2>1, <2>3, <2>8, <2>9 DEF Holds, q
  <1> QED BY <1>12, <1>13

\* Users and events hand the radio over from the MAC it is on its way to.
LEMMA Handover ==
    ASSUME SchOK(sch), radio \in RadioType, RInv, Alive, NEW next \in Channels, NEW cur,
           \/ sch.access = "default" /\ cur = Cch
           \/ sch.access \in {"continuous", "extended"} /\ cur = sch.channel
           \/ sch.access = "alternating" /\ {cur, next} = {Cch, sch.channel},
           radio' = SwitchToNextChannel(radio, cur, next), Alive', ~radio'.overtaken
    PROVE  Holds(radio', next)
  <1>1. ~radio.overtaken => \E c \in Channels : Holds(radio, c) /\ (next # c => cur = c)
    BY DEF RInv, Owns, SchOK, SchType
  <1> QED BY <1>1, SwitchHolds DEF Alive

LEMMA NothingKeepsRadio ==
    ASSUME RInv, Alive, NEW s, SameOwner(s, sch), NothingDone(s), UNCHANGED <<clock, guardDue>>
    PROVE  RInv'
  BY DEF RInv, NothingDone, SameOwner, Alive, Owns, IsSchInterval, IsCchInterval, Holds

LEMMA WaitKeepsRadio ==
    ASSUME RInv, Alive, NEW s, s \in SchType, SameOwner(s, sch), NEW kind, NEW c, NEW x,
           Wait(s, kind, c, x), UNCHANGED <<clock, guardDue>>
    PROVE  RInv'
  <1>1. sch'.access = sch.access /\ sch'.channel = sch.channel /\ radio' = radio
    BY DEF Wait, SameOwner, SchType
  <1> QED BY <1>1 DEF RInv, Alive, Owns, IsSchInterval, IsCchInterval, Holds

LEMMA TakeKeepsRadio ==
    ASSUME TInv, RInv, Alive, NEW s, SchOK(s), SameOwner(s, sch), s.access = "default",
           NEW kind \in {"continuous", "extended"}, NEW c \in Services, NEW x,
           Take(s, kind, c, x)
    PROVE  RInv'
  <1> SUFFICES ASSUME Alive', ~radio'.overtaken PROVE Holds(radio, c)' /\ Owns(c)'
    BY CchIsChannel DEF RInv
  <1>1. sch'.access = kind /\ sch'.channel = c
    BY DEF Take, SchOK, SchType
  <1>2. Owns(c)'
    BY <1>1 DEF Owns
  <1>3. s.channel = Cch /\ sch.access = "default"
    BY DEF SchOK, SameOwner
  <1>4. Holds(radio', c)
    BY <1>3, CchIsChannel, Handover DEF Take, TInv, SInv
  <1> QED BY <1>2, <1>4 DEF Holds

\* However a request is answered, the radio goes to the channel assigned.
LEMMA AssignKeepsRadio ==
    ASSUME TInv, RInv, Alive, NEW s, SchOK(s), SameOwner(s, sch),
           NEW c \in Services, NEW immediate \in BOOLEAN,
           \/ AssignContinuousAccess(s, c, immediate)
           \/ \E x : AssignExtendedAccess(s, c, x, immediate),
           UNCHANGED <<clock, guardDue>>
    PROVE  RInv'
  <1>1. CASE NothingDone(s)
    BY <1>1, NothingKeepsRadio
  <1>2. CASE Wait(s, "continuous", c, 0) \/ \E x : Wait(s, "extended", c, x)
    BY <1>2, WaitKeepsRadio DEF SchOK
  <1>3. CASE s.access = "default" /\ Take(s, "continuous", c, -1)
    BY <1>3, TakeKeepsRadio
  <1>4. CASE s.access = "default" /\ \E x : Take(s, "extended", c, ExtendedDuration(x))
    BY <1>4, TakeKeepsRadio
  <1> QED BY <1>1, <1>2, <1>3, <1>4 DEF AssignContinuousAccess, AssignExtendedAccess

LEMMA AlternatingKeepsRadio ==
    ASSUME TInv, RInv, Alive, NEW c \in Services, NEW immediate \in BOOLEAN,
           AssignAlternatingAccess(c, immediate), UNCHANGED <<clock, guardDue>>
    PROVE  RInv'
  <1>1. CASE NothingDone(sch)
    BY <1>1, NothingKeepsRadio DEF SameOwner
  <1>2. CASE sch.access = "default" /\ ~NothingDone(sch)
    <2>1. /\ sch'.access = "alternating" /\ sch'.channel = c
          /\ IF immediate /\ IsSchInterval
             THEN radio' = SwitchToNextChannel(radio, Cch, c) ELSE radio' = radio
      BY <1>2 DEF AssignAlternatingAccess, TInv, SInv, SchOK, SchType
    <2>2. CASE immediate /\ IsSchInterval
      <3> SUFFICES ASSUME Alive', ~radio'.overtaken PROVE Holds(radio, c)' /\ Owns(c)'
        BY CchIsChannel DEF RInv
      <3>1. Owns(c)'
        BY <2>1, <2>2 DEF Owns, IsSchInterval, IsCchInterval
      <3>2. Holds(radio', c)
        BY <1>2, <2>1, <2>2, CchIsChannel, Handover DEF TInv, SInv
      <3> QED BY <3>1, <3>2 DEF Holds
    <2>3. CASE ~(immediate /\ IsSchInterval)
      BY <1>2, <2>1, <2>3 DEF RInv, Alive, Owns, Holds
    <2> QED BY <2>2, <2>3
  <1> QED BY <1>1, <1>2 DEF AssignAlternatingAccess

LEMMA ReleaseKeepsRadio ==
    ASSUME TInv, RInv, Alive, NEW s, SameOwner(s, sch), NEW c, ReleaseAccess(s, c),
           UNCHANGED <<clock, guardDue>>
    PROVE  RInv'
  <1>1. CASE s.channel # c
    BY <1>1, NothingKeepsRadio DEF ReleaseAccess
  <1>2. CASE s.channel = c
    <2> SUFFICES ASSUME Alive', ~radio'.overtaken PROVE Holds(radio, Cch)' /\ Owns(Cch)'
      BY CchIsChannel DEF RInv
    <2>1. sch' = Released /\ radio' = SwitchToNextChannel(radio, sch.channel, Cch)
      BY <1>2 DEF ReleaseAccess, SameOwner
    <2>2. Holds(radio', Cch)
      BY <2>1, CchIsChannel, Handover DEF TInv, SInv, SchOK, SchType
    <2> QED BY <2>1, <2>2 DEF Released, Owns, Holds
  <1> QED BY <1>1, <1>2

---------------------------------------------------------------------------
(* The steps keep the radio on its way.                                    *)

LEMMA EventKeepsRadio ==
    ASSUME TInv, RInv, WaitEnds \/ ExtendEnds
    PROVE  RInv'
  <1>1. CASE WaitEnds
    <2> DEFINE s == [sch EXCEPT !.wait = NoWait]
    <2>1. SchOK(s) /\ SameOwner(s, sch)
      BY CchIsChannel DEF TInv, SInv, SchOK, SchType, SameOwner, NoWait, Timer
    <2>2. sch.wait.channel \in Services
      BY <1>1 DEF TInv, SInv, SchOK, WaitEnds
    <2>3. /\ \/ AssignContinuousAccess(s, sch.wait.channel, FALSE)
             \/ AssignExtendedAccess(s, sch.wait.channel, sch.wait.extends, FALSE)
          /\ Alive /\ UNCHANGED <<clock, guardDue>>
      BY <1>1 DEF WaitEnds
    <2> HIDE DEF s
    <2> QED BY <2>1, <2>2, <2>3, AssignKeepsRadio
  <1>2. CASE ExtendEnds
    <2> DEFINE s == [sch EXCEPT !.extend = -1]
    <2>1. s.channel = sch.channel /\ s.access = sch.access
      BY DEF TInv, SInv, SchOK, SchType
    <2>2. ReleaseAccess(s, sch.channel) /\ Alive /\ UNCHANGED <<clock, guardDue>>
      BY <1>2 DEF ExtendEnds
    <2> HIDE DEF s
    <2> SUFFICES ASSUME Alive', ~radio'.overtaken PROVE Holds(radio, Cch)' /\ Owns(Cch)'
      BY CchIsChannel DEF RInv
    <2>3. sch' = Released /\ radio' = SwitchToNextChannel(radio, sch.channel, Cch)
      BY <2>1, <2>2 DEF ReleaseAccess
    <2>4. Holds(radio', Cch)
      BY <2>2, <2>3, CchIsChannel, Handover DEF TInv, SInv, SchOK, SchType
    <2> QED BY <2>3, <2>4 DEF Released, Owns, Holds
  <1> QED BY <1>1, <1>2

LEMMA NotifyGuardSlotStartKeepsRadio ==
    ASSUME TInv, RInv, NotifyGuardSlotStart
    PROVE  RInv'
  <1> DEFINE cur == IF IsCchInterval THEN sch.channel ELSE Cch
             next == IF IsCchInterval THEN Cch ELSE sch.channel
             q == SwitchToNextChannel(radio, cur, next)
  <1>1. Alive /\ sch' = sch /\ clock' = clock /\ SchOK(sch) /\ radio \in RadioType
    BY DEF NotifyGuardSlotStart, TInv, SInv
  <1>2. CASE ~FollowsIntervals
    <2>1. radio' = radio /\ (sch.access = "alternating" => FALSE)
      BY <1>2 DEF NotifyGuardSlotStart, FollowsIntervals
    <2> QED BY <1>1, <2>1 DEF RInv, Alive, Owns, Holds
  <1>3. CASE FollowsIntervals
    <2> SUFFICES ASSUME Alive', ~radio'.overtaken PROVE Holds(radio, next)' /\ Owns(next)'
      BY <1>1, CchIsChannel DEF RInv, SchOK, SchType
    <2>1. Owns(next)'
      BY <1>1, <1>3 DEF FollowsIntervals, Owns, IsSchInterval, IsCchInterval
    <2>2. next \in Channels /\ q \in RadioType
      BY <1>1, CchIsChannel, SwitchToNextChannelType DEF SchOK, SchType
    <2>3. radio' = MakeVirtualBusy(q, next, Guard)
      BY <1>3 DEF NotifyGuardSlotStart
    <2>4. {cur, next} = {Cch, sch.channel} /\ sch.access = "alternating"
      BY <1>3 DEF FollowsIntervals
    <2>5. q.failed = "none" /\ ~q.overtaken
      <3> HIDE DEF q, next
      <3> QED BY <2>2, <2>3 DEF MakeVirtualBusy, RadioType, Alive
    <2>6. ~radio.overtaken => \E c \in Channels : Holds(radio, c) /\ (next # c => cur = c)
      BY <1>1, <1>3 DEF RInv, Owns, FollowsIntervals
    <2>7. Holds(q, next)
      <3> HIDE DEF cur, next
      <3> QED BY <1>1, <2>2, <2>5, <2>6, SwitchHolds DEF Alive
    <2>8. Holds(radio', next)
      <3> HIDE DEF q, next
      <3> QED BY <2>2, <2>3, <2>7 DEF Holds, MakeVirtualBusy, RadioType
    <2>9. next' = next
      BY <1>1 DEF IsCchInterval
    <2> HIDE DEF next
    <2> QED BY <2>1, <2>8, <2>9 DEF Holds
  <1> QED BY <1>2, <1>3

\* An interval that begins without its guard slot keeps the channels it has.
LEMMA TickKeepsRadio ==
    ASSUME TInv, RInv, Tick
    PROVE  RInv'
  <1> DEFINE left == Closer(radio.left)
             told == [k \in Channels |-> Closer(radio.told[k])]
             virtual == [k \in Channels |-> Closer(radio.virtual[k])]
  <1>1. radio' = [radio EXCEPT !.left = left, !.told = told, !.virtual = virtual]
    BY DEF Tick
  <1>2. radio.left \in Nat /\ left <= radio.left /\ ~guardDue
    BY DEF TInv, RadioType, Closer, Tick, Due
  <1> HIDE DEF left, told, virtual
  <1>3. /\ radio'.channel = radio.channel /\ radio'.doing = radio.doing
        /\ radio'.left = left /\ radio'.late = radio.late /\ radio'.sender = radio.sender
        /\ radio'.attached = radio.attached /\ radio'.awake = radio.awake
        /\ radio'.overtaken = radio.overtaken /\ Alive
    BY <1>1 DEF TInv, RadioType, Tick
  <1>4. left \in Nat
    BY DEF TInv, RadioType, Closer, left
  <1>5. sch'.access = sch.access /\ sch'.channel = sch.channel
    BY DEF TInv, SInv, SchOK, SchType, Tick
  <1>6. IsSchInterval => IsSchInterval' \/ guardDue'
    <2>1. clock' = (clock + 1) % Sync /\ guardDue' = (clock' \in {0, Cchi})
      BY DEF Tick
    <2>2. clock + 1 \in 0 .. Sync /\ clock \in Nat /\ Cchi \in Nat /\ Schi \in Nat
      BY SyncIsNat, SchedulerAssumption DEF TInv, SInv, ClockOK
    <2>3. CASE clock + 1 = Sync
      <3>1. \A n \in Nat \ {0} : n % n = 0
        OBVIOUS
      <3> QED BY <2>1, <2>3, <3>1, SyncIsNat
    <2>4. CASE clock + 1 # Sync
      <3>1. clock' = clock + 1
        BY <2>1, <2>2, <2>4, SyncIsNat
      <3> QED BY <2>2, <3>1 DEF IsSchInterval, IsCchInterval
    <2> QED BY <2>3, <2>4
  <1>7. ASSUME NEW c \in Channels, Holds(radio, c), Owns(c) PROVE Holds(radio, c)' /\ Owns(c)'
    <2>1. Holds(radio, c)'
      BY <1>2, <1>3, <1>4, <1>7 DEF Holds
    <2>2. Owns(c)'
      BY <1>2, <1>5, <1>6, <1>7 DEF Owns
    <2> QED BY <2>1, <2>2
  <1> QED BY <1>3, <1>7 DEF RInv

\* A MAC that may send is the one the radio is on its way to, and there.
LEMMA SendKeepsRadio ==
    ASSUME TInv, RInv, NEW m \in Channels, NEW t \in TxTimes, Send(m, t)
    PROVE  RInv'
  <1> DEFINE told == [k \in Channels |-> IF k \in radio.attached THEN t ELSE radio.told[k]]
             q == [radio EXCEPT !.doing = "tx", !.left = t, !.sender = m, !.told = told]
  <1>1. /\ radio' = Require(q, radio.left = 0, "Send") /\ Alive /\ ~FrameOver
        /\ m \in radio.attached /\ sch' = sch /\ clock' = clock /\ guardDue' = guardDue
    BY DEF Send, Due
  <1> HIDE DEF told
  <1>2. /\ q.channel = radio.channel /\ q.doing = "tx" /\ q.left = t /\ q.late = radio.late
        /\ q.sender = m /\ q.attached = radio.attached /\ q.awake = radio.awake
        /\ q.overtaken = radio.overtaken /\ q.failed = "none"
    BY <1>1 DEF TInv, RadioType, Alive
  <1>3. Require(q, FALSE, "Send").failed = "Send"
    BY DEF Require, TInv, RadioType
  <1> HIDE DEF q
  <1>4. ASSUME Alive' PROVE radio.left = 0 /\ radio' = q /\ radio.late = <<>>
    <2>1. radio.left = 0
      BY <1>1, <1>3, <1>4 DEF Alive, Require
    <2> QED BY <1>1, <2>1 DEF Require, FrameOver, Is
  <1>5. ASSUME NEW c \in Channels, Holds(radio, c), Owns(c), Alive'
        PROVE  Holds(radio, c)' /\ Owns(c)'
    BY <1>1, <1>2, <1>4, <1>5 DEF Holds, Owns, IsSchInterval, IsCchInterval
  <1> QED BY <1>1, <1>2, <1>4, <1>5 DEF RInv

\* A late switch brings the radio to the MAC that waits for it.
LEMMA PostponedSwitchKeepsRadio ==
    ASSUME TInv, RInv, PostponedSwitch
    PROVE  RInv'
  <1> DEFINE n == Head(radio.late)
             q == [radio EXCEPT !.late = Tail(radio.late)]
  <1>1. /\ radio' = SetChannelNumber(q, n) /\ Alive /\ radio.late # <<>> /\ ~Is("tx")
        /\ sch' = sch /\ clock' = clock /\ guardDue' = guardDue /\ radio \in RadioType
    BY DEF PostponedSwitch, FrameOver, TInv
  <1>2. n \in Channels /\ Tail(radio.late) \in Seq(Channels)
    BY <1>1 DEF RadioType
  <1>3. /\ q \in RadioType /\ q.attached = radio.attached /\ q.awake = radio.awake
        /\ q.channel = radio.channel /\ q.doing = radio.doing /\ q.left = radio.left
        /\ q.sender = radio.sender /\ q.overtaken = radio.overtaken
        /\ q.late = Tail(radio.late)
    BY <1>1, <1>2 DEF RadioType
  <1> HIDE DEF q
  <1>4. radio'.overtaken = radio.overtaken
    BY <1>1, <1>3 DEF SetChannelNumber, Tune, Require, RadioType
  <1>5. ASSUME NEW c \in Channels, Holds(radio, c), Owns(c) PROVE Holds(radio, c)' /\ Owns(c)'
    <2>1. radio.late = <<c>> /\ radio.doing = "tx"
      BY <1>1, <1>5 DEF Holds
    <2>2. n = c /\ q.late = <<>> /\ radio.left = 0
      BY <1>1, <1>3, <2>1 DEF Is, RadioType
    <2>3. \/ radio' = q /\ q.channel = c
          \/ radio' = Tune(q, c)
      BY <1>1, <1>3, <2>2 DEF SetChannelNumber
    <2>4. /\ radio'.attached = {c} /\ radio'.awake = {c} /\ radio'.late = <<>>
          /\ radio'.channel = c /\ (radio'.doing = "switching" \/ radio'.left = 0)
      BY <1>3, <1>5, <2>2, <2>3 DEF Holds, Tune, RadioType
    <2>5. Holds(radio', c)
      BY <2>4 DEF Holds
    <2>6. Owns(c)'
      BY <1>1, <1>5 DEF Owns, IsSchInterval, IsCchInterval
    <2> QED BY <2>5, <2>6 DEF Holds
  <1> QED BY <1>1, <1>4, <1>5 DEF RInv

LEMMA StepKeepsRadio ==
    ASSUME TInv, RInv, [Next]_vars
    PROVE  RInv'
  <1>1. CASE Tick
    BY <1>1, TickKeepsRadio
  <1>2. CASE WaitEnds \/ ExtendEnds
    BY <1>2, EventKeepsRadio
  <1>3. CASE NotifyGuardSlotStart
    BY <1>3, NotifyGuardSlotStartKeepsRadio
  <1>4. CASE PostponedSwitch
    BY <1>4, PostponedSwitchKeepsRadio
  <1>5. SchOK(sch) /\ SameOwner(sch, sch)
    BY DEF TInv, SInv, SameOwner
  <1>6. ASSUME NEW c \in Services, NEW immediate \in BOOLEAN, StartSch(c, immediate) PROVE RInv'
    <2>1. Alive /\ UNCHANGED <<clock, guardDue>>
      BY <1>6 DEF StartSch, MayAsk
    <2>2. CASE AssignAlternatingAccess(c, immediate)
      BY <2>1, <2>2, AlternatingKeepsRadio
    <2>3. CASE \/ AssignContinuousAccess(sch, c, immediate)
               \/ \E x : AssignExtendedAccess(sch, c, x, immediate)
      BY <1>5, <2>1, <2>3, AssignKeepsRadio
    <2> QED BY <1>6, <2>2, <2>3 DEF StartSch
  <1>7. ASSUME NEW c \in Services, StopSch(c) PROVE RInv'
    BY <1>5, <1>7, ReleaseKeepsRadio DEF StopSch, MayAsk
  <1>8. ASSUME NEW c \in Channels, NEW t \in TxTimes, Send(c, t) PROVE RInv'
    BY <1>8, SendKeepsRadio
  <1>9. CASE UNCHANGED vars
    BY <1>9 DEF vars, RInv, Alive, Owns, IsSchInterval, IsCchInterval, Holds
  <1> QED BY <1>1, <1>2, <1>3, <1>4, <1>6, <1>7, <1>8, <1>9 DEF Next, Events

LEMMA RadioInvariant == Spec => [](TInv /\ RInv)
  <1>1. Init => TInv /\ RInv
    <2> SUFFICES ASSUME Init PROVE TInv /\ RInv
      OBVIOUS
    <2>1. Holds(radio, Cch) /\ Owns(Cch)
      BY DEF Init, Released, Holds, Owns
    <2> QED BY <2>1, InitType, CchIsChannel DEF RInv
  <1>2. TInv /\ RInv /\ [Next]_vars => TInv' /\ RInv'
    BY StepType, StepKeepsRadio
  <1> QED BY <1>1, <1>2, PTL DEF Spec

\* Whatever is asked for during frames and switches, the radio at rest is on
\* the channel assigned, and the MAC of that channel, no other, has it and is
\* awake: until a switch is asked for while another waits for the end of a frame.
THEOREM RadioReachesAccess == Spec => []RadioFollowsAccess
  <1>1. TInv /\ RInv => RadioFollowsAccess
    <2> SUFFICES ASSUME TInv, RInv, Alive, Quiet, ~radio.overtaken
                 PROVE  /\ radio.channel \in Assigned
                        /\ radio.attached = {radio.channel} /\ radio.awake = {radio.channel}
      BY DEF RadioFollowsAccess
    <2>1. PICK c \in Channels : Holds(radio, c) /\ Owns(c)
      BY DEF RInv
    <2>2. radio.channel = c /\ radio.attached = {c} /\ radio.awake = {c}
      BY <2>1 DEF Holds, Quiet
    <2>3. c \in Assigned
      BY <2>1 DEF Owns, Assigned, IsSchInterval, TInv, SInv, SchOK
    <2> QED BY <2>2, <2>3
  <1> QED BY <1>1, RadioInvariant, PTL

\* Until then every frame is on the channel of the MAC that sends it from its
\* beginning to its end, whatever its length and whatever is asked for in it.
THEOREM FramesOnTheirChannel == Spec => []SendsOnItsChannel
  <1>1. TInv /\ RInv => SendsOnItsChannel
    BY DEF RInv, Holds, SendsOnItsChannel, Is
  <1> QED BY <1>1, RadioInvariant, PTL
=============================================================================
