# Verification of the mmWave MAC

This directory holds TLA+ models of the MAC and PHY that this repository adds to
ns-3.33: the module `src/src/mmwave` (22,000 lines) with the scenarios in
`src/scratch`. Everything else in the repository is the vendored simulator. The
module has no tests of its own (its test suite is empty), so what its code is
meant to do is read from the code, its comments and its many assertions:
`src/README.md` builds the debug profile, in which an `NS_ASSERT` that fails stops
the program.

Paths below are relative to `src/src/mmwave/model/`.

## Results in short

| question | answer |
|---|---|
| Is access granted only on a quiet medium, whatever the order of notifications? | yes: proved for all parameters, checked |
| Does the reception of a frame keep its stages, events and states consistent? | yes on one channel: proved for all parameters, checked; **no** across a channel switch (finding 1) |
| Is an idle PHY's medium quiet? | yes on one channel, if the MAC sends on an idle medium only: proved for all parameters, checked; after a switch not always (further observations) |
| Does the access manager know what its PHY does? | yes for transmission, reception and switching; **no** for energy (finding 2) |
| Do responses and grants collide? | no, where the response is due a SIFS after its frame |
| Does a bulk access hold together, losses included? | yes until an assertion fails: packets are not forgotten and reports are right (proved for all parameters), packets accounted for, and accesses end unless their request was dropped unsent; but a **retry** meets an assertion (finding 3), and so do wrong durations and expired packets (further observations) |
| Do V2X nodes agree on periods that do not overlap, whatever beacons are lost? | each node's agreements are apart and none of its own is forgotten: proved for all parameters, checked |
| Are those periods kept, and the packets delivered in order? | yes, whatever is lost: proved, checked; acknowledgments are right if a SIFS is shorter than a data frame, as it is; queues are emptied where beacons stop colliding |
| Does the channel scheduler give the radio to one channel at a time, as promised? | yes: a refinement proved for all parameters, checked |
| Does the radio follow it? | yes, proved for all callers, frames and delays, until a switch overtakes a late one; an access taken back during a frame is one that does and leaves the radio **on the wrong channel** (finding 5), and a MAC may send **into the switch** (finding 4) |
| At the boundaries? | see the further observations |

## The system

Two protocols share one PHY. In the *cognitive radio* (CR) network every node has up to
three low MACs (intra group, inter group, probe), each with a PHY and a channel
access manager; nodes contend for a channel, exchange packets in bulks, send
beacons, sense channels for primary users and move away from them. In the *V2X*
network a control channel carries beacons and agreements on contention free
periods of the data channels.

| component | state | operations | driven by | drives |
|---|---|---|---|---|
| `CrDynamicChannelAccessManager` | ends of the last reception, transmission, NAV, busy period, timeouts, switch; one request; rotation of backoff windows | notifications, request, cancel, grant | PHY listener calls, low MAC | low MAC (`SendBeacon`, `SendBulkAccessRequest`, ...) |
| `MmWavePhyStateHelper` | starts and ends of transmission, reception, CCA busy, switching | `SwitchTo...`, `SwitchMaybeToCcaBusy` | PHY | listeners (the access manager) |
| `MmWavePhy` | current event; events of preamble, header, payload; postponed switch | three stages of reception, `Send`, channel switch | spectrum PHY, low MAC | state helper, low MAC (`ReceiveOk`, `RxStartIndication`) |
| `MmWaveInterferenceHelper`, `MmWaveSpectrumPhy` | signals on the air, their power per band | add a signal, energy duration, SNR | the channel | PHY |
| `CrMmWaveMacLow` | MAC state; bulk accesses to serve, in progress, received; six events | bulk request, response, data, acknowledgment, timeouts, beacons, detection, switching | access manager, PHY, Txop | PHY, access manager, Txop, MAC |
| `CrMmWaveTxop` | buffer and records of the bulk in progress | queue, grant, fill the buffer, acknowledgment or none | MAC, low MAC | low MAC, queue |
| `MmWaveMacQueue` | packets with address, channel, time stamp | enqueue with drop policy, dequeue by address or channel, expiry | Txop | |
| `MmWaveMacTxMiddle`, `MmWaveMacRxMiddle` | next sequence number; originators and fragments | number, detect duplicates, reassemble | Txop, low MAC | MAC |
| `CrMmWaveMac` | neighbors, spectrum activity, channel decisions | beacons received, neighbor expiry, evacuation | low MAC | low MAC, queue |
| `MmWaveSpectrumRepository` | activity records per channel | add, recommend a channel, backup channels | MAC | |
| `V2xMmWaveNetDevice` | queue, the period waited for or running | beacons, WaitCF, StartCF, StopCF, retries | layers above, control and data MAC | control MAC, data MAC |
| `V2xContentionFreeAccess` | requests; agreements of the node and its neighbors | request, place, take in, forget | net device | |
| V2X data MAC and low MAC | packet in flight, acknowledgment owed or awaited | transmit now, acknowledge, time out | net device, data PHY | data PHY, net device |
| V2X control MAC and low MAC | suspended or not, virtual busy period | beacons, suspend, resume | net device, scheduler, 802.11p PHY | 802.11p PHY |
| `V2xDefaultChannelScheduler` | the one access assigned, the one waited for | assign, release, switch | callers, channel coordinator | control MACs, 802.11p PHY |
| `V2xVsaManager` | repeated announcements | send, repeat, remove | callers | control MAC |

There are no threads: the simulator runs one event at a time, in the order of time
and then of scheduling. What is hard is *order*: every timer, callback and arrival of
any node may come between any two others; an event is scheduled from a state and
runs in another; frames are lost and collide; several timers stand for one
protocol state and must be cancelled together; and the access manager, the state
helper and the PHY each keep their own account of what the PHY does.

What would make each component correct:

- *access manager*: a grant follows two quiet SIFS (three after an error); a pending
  request is rescheduled by whatever happens meanwhile, never weakened or lost;
  the rotation stays in its range.
- *PHY*: one reception at a time, whose stage, event and state agree; a reception
  given up leaves nothing behind; energy above the threshold is not forgotten; a
  postponed switch is made.
- *PHY with manager*: the manager's account is the PHY's; its grant finds the PHY idle.
- *bulk access*: no assertion between the timers of two nodes; the medium belongs to
  the granted pair until the acknowledgment; what is reported as sent was
  received; no packet vanishes or is forgotten; an access ends.
- *queue, middles, repository*: bounds, order, duplicates, reassembly.
- *V2X agreements*: no two a node knows of overlap; none of its own is forgotten; what is
  sent in a period ends in it; packets keep their order and are not reported as
  sent in vain.
- *V2X scheduler*: at most one access to the radio, never preempted, for as long as it
  was asked for; the radio rests where the access wants it, under one MAC, and is
  not switched while it switches nor used while it sends.

## Modules

| module | models | state |
|---|---|---|
| `CrDynamicChannelAccessManager` | the access manager under any sequence of notifications | `cam` (ends of periods), `request`, `gamma`, `gammaInit` |
| `CrDynamicChannelAccessManager_proofs` | theorems about it | |
| `MmWavePhy` | PHY, state helper, interference helper and spectrum PHY of one node | `phy`, `air`, and a `listener` that hears the state helper |
| `MmWavePhy_proofs` | theorems about it | |
| `CrPhyAccess` | both, with the part of the low MAC that drives them | `phy`, `air`, `dcam`, `response` |
| `CrPhyAccess_proofs` | theorems about it | |
| `CrBulkAccess` | low MAC and Txop of several nodes on one channel, and the frames between them | `mac`, `air`, `losses`, `delivered` |
| `CrBulkAccess_proofs` | theorems about it | |
| `V2xContentionFreeAccess` | the list of agreements: placing, taking in, forgetting | none: operators on a set of agreements |
| `V2xMmWaveNetDevice` | net device, beacons, data MAC of several nodes | `agreements`, `requests`, `beacon`, `retry`, `dev`, `air`, `losses`, `received`, `failed` |
| `V2xMmWaveNetDevice_proofs` | theorems about both: the agreements | |
| `V2xMmWaveDataMac_proofs` | theorems about the exchange of frames in the agreed periods | |
| `V2xChannelAccess` | abstract: what the scheduler promises | `owner` |
| `V2xChannelScheduler` | scheduler, channel coordinator, radio and MACs of one device | `sch`, `radio`, `clock`, `guardDue` |
| `V2xChannelScheduler_proofs` | that the second implements the first, and theorems about the radio | |
| `NumberLemmas` | what the proofs need of least and greatest numbers | |
| `MC...` | values of the constants for TLC | |

`CrPhyAccess` composes the first two by INSTANCE: `P == INSTANCE MmWavePhy` with the
access manager as the listener (`Told <- Deliver`), and `D == INSTANCE
CrDynamicChannelAccessManager` for its operators. The listener calls a PHY step
makes are collected in order (`phy.calls`) and given to the manager one after the other (`Deliver`;
no step makes more than three), so
that a step of the PHY and the manager's reactions are one step, as they are in
the code. `CrBulkAccess` is about what lies above, and takes from the modules
below only what they show: when a grant may come, and who hears what.
`V2xMmWaveNetDevice` extends `V2xContentionFreeAccess`. `V2xChannelScheduler` is apart from it: a
device that sends beacons in contention free periods keeps the default access to
the control channel, and the data channel has a PHY of its own.

Conventions. Time is relative: a member that holds an end or an event is modelled as
the time left to it, and `Tick` makes one unit pass when no event is due; thus the
state space is finite without a bound on time. Names are those of the
source; handlers that change one state record are operators from record to record
(`StartNewBulkAccess(n, m)`), actions apply them. A failed assertion is recorded
(`phy.failed`, `dcam.failed`, `mac[n].assert`, `failed`, `radio.failed`) and nothing happens after it.
Definitions whose comment calls them a fault, and those that stand just before
the definition they vary, are the faulty variants the properties were tried
against; the specifications use none of them.

### CrDynamicChannelAccessManager

Each `Notify...Now` is an action of the same name, enabled at any time with any
duration up to `MaxDuration`; so are requests of each mode, cancellation and the
rotation's update. `RequestAccessCallback` leaves the state the low MAC may leave
(`Granted`). The moment a period ended stops mattering after two SIFS (three for a
reception), which is why `Tick` stops at `Past(s)`. Left out: CTS timeout
(`CrMmWaveMacLow` refuses to start one), NAV reset, sleep and off (no caller).

Run `CrDynamicChannelAccessManager`: SIFS, slot and the longest duration are 1, the
windows 2 and 1 in two parts, zero to three neighbors (more than there are parts). A
duration of one unit is enough for periods to overlap and chain in every order,
as any action may follow at each unit.

- `QuietBeforeGrant`: a request comes due only after two quiet SIFS of every source,
  three after a failed reception.
- `PendingAfterGrantStart`: the invariant behind it, that no notification overtakes
  a request that is already scheduled.
- `RotationStaysInRange`, `PendingKeepsPriority`: the rotation never leaves window zero
  to a node with neighbors; a pending request is only upgraded, and keeps its delay.

### MmWavePhy

`FrameArrives`, `NoiseArrives` (a signal begins), `PreambleEnds`, `HeaderStarts`,
`PayloadStarts`, `FrameEnds`, `UnreceivedFrameEnds`, `NotifyTxEnd`, `StartTransmission`,
`SwitchChannel`, `PostponedSwitch`. Success of a stage is a nondeterministic
choice. Powers are small numbers against the CCA threshold, so that single and
summed signals fall on both sides of it. `GetState` derives the state from the
ends of the periods in the code's order. Sleep, off and frame capture are left
out (the latter needs a preamble detected within 656 ns, detection takes 2918 ns).

- `MmWavePhyReception` (three signals, a MAC that sends at any time, no switch): `NoAssertionFails`,
  `OneReception`, `BusyMeansReceiving` and, under fairness, `EveryReceptionEnds`.
- `MmWavePhySwitching` (the same signals, switches at any time, a MAC that keeps quiet while busy):
  `QuietUntilSwitched`, `ReceivedOnThisChannel` and, under fairness, `PostponedSwitchIsMade`. The
  second and third hold whatever switches there are. `QuietUntilSwitched` says `IdleMeansQuiet` until the
  PHY first switches, which the listener records; afterwards it does not hold (further observations). Deadlock
  is not checked, because an assertion that fails (finding 1) ends a behaviour here.
- `MmWavePhySwitchedHeader`: violation, finding 1.

Two signals are the least that overlap; of three, two together may outlast the frame received. Preamble and
header take 4; signals of 3, 5, 7 and 8 end in each stage of another, before or after it, with and without a payload.

### CrPhyAccess

`StartAccess`, `RequestAccessCallback`, `SendResponse` (a SIFS after a frame),
the PHY's steps with the manager's reaction, channel switches.

- `CrPhyAccess` (two signals, channel switches, postponed ones included): `ManagerKnowsPhy` (what
  the manager believes of transmission, reception and switching is exact, and of energy
  never too long), `RequestWaitsForPhy`, `ResponseIsSent` (a grant never takes the PHY away from
  a response that is due); `CallsAreAccepted` (no assertion of the manager fails for what
  the PHY tells it); `UsesPhyAsAllowed` (a refinement: every step of the node is one of `MmWavePhy`'s
  specification or leaves the PHY alone, so that no grant, response or timer sends or switches while
  the PHY still has a transmission to end or a channel to change to).
- `CrPhyAccessGrant`: violation, finding 2.

Deadlock is not checked: a failed assertion (finding 2) stops the program.

### CrBulkAccess

One record per node holds the low MAC's and the Txop's members of the intra group.
`Queue`, `Expire`, `StartBeacon`, `RequestAccessCallback`, and one action per event of the
low MAC: `WaitIfs` (`m_waitIfsEvent`), `Respond` (`m_txPacket`), `Acknowledge` (`m_sendBulkAck`),
`BulkEnds` (`m_bulkAccess`), `ResponseMissed`, `AckMissed` (the timeouts). `PayloadStarts` is
`RxStartIndication` at the nodes that hear a frame, `FrameEnds` is `ReceiveOk`, or a failed
reception, at each of them, and `BeaconTxEnd` at a beacon's sender. When a frame
overlaps another, whoever still hears it receives it or not; a loss without a
collision is limited by `MaxLosses`.

Packets are counted per destination, not told apart: they all have the same length, and
their order matters only to their sequence numbers. The requests of an access are a set, from which the one
with the least address is taken, as they are created in the order of the addresses. `owed` and
`ok` count what the Txop still has to report of each destination and what it reported as sent;
they are history variables, as is `dropped`, that a request was given up because the node was sending.

`CountedTx` is what `CalculateTxDuration` counts a data frame as, for each destination: the code leaves out the
payload for the group (`cr-mac-low.cc:528`) and header and trailer for a node (523, 541), so it is any length up to
the frame's. Where it is shorter by a symbol, the bulk is over before its last frame, and the
assertion in line 1257 stops the program. So that a run sees what comes after a bulk, `CrBulkAccess` counts
exactly (`MCExact`), which is the case of a header that shares its last symbol with the payload;
`CrBulkAccessRetry` counts the group's frames too short (`MCGroupShort`); the
theorems hold for any count.

Times: SIFS 2, slot 4, detection 3, preamble and header 4, frames 6 stand for 2.0, 4.5,
2.9, 4.6 and more than 17 microseconds. What the order of events depends on is kept: a
SIFS is shorter than the detection of a frame, which is shorter than two SIFS; a
timeout outlasts the header of its answer; a SIFS is longer than the 400 ns a
timeout is put off by. A least backoff of 4 stands for a node that knows a
neighbor (in the code at least 16 slots for a bulk; a shorter one allows more);
0 for one that knows none. Two packets and one make bulks of one and of two and accesses of one
and of two destinations; two sequence numbers are enough for them.

- `CrBulkAccess` (two nodes with two packets and one, a beacon of the second, a packet of the first that exceeds its
  lifetime, any one reception lost, fairness): `WorkIsScheduled`, `AckedWasReceived`,
  `NothingVanishes`, `AccessEnds`.
- `CrBulkAccessRetry`: violation, finding 3, with the loss that brings the case about.

They are about what happens until an assertion stops the program, which a lost response or a packet
that expires may lead to (finding 3, further observations); so deadlock is not
checked. One loss is enough for a retry, a false timeout and an acknowledgment that is missed; a second one
repeats them.

### V2xContentionFreeAccess and V2xMmWaveNetDevice

An agreement is who may send to whom from when on; all last `m_txDuration`.
`NewAgreement` places one behind or between those known, `AddAgreement` drops one that
conflicts, `Elapsed` forgets what has ended, with the strict comparison of the code.
A beacon is an action at each end: `SendTxBeacon`, `SendGroupBeacon` and `SendRxBeacon`
are the calls of `V2xMmWaveNetDevice` that fill it, `TxBeaconEnds`, `GroupBeaconEnds` and
`RxBeaconEnds` its reception and, at the sender, its end; `SendAgain` is the
retransmission of a beacon for one node, with the delay it was filled with.
`Enqueue`, `WaitEnds`, `PeriodEnds` and `TryAgain` are `Send` and the timers of the net device;
`TransmitImmediately`, `SendAckAfterData`, `NormalAckTimeout` and `EndTxNoAck` those of the data
MAC; `PayloadStarts`, `DataEnds` and `AckEnds` what the PHY tells the nodes that hear a frame.
Every one of the device's handlers ends in looking for something to send or a
period to wait for (`TryToStart`); it is part of the action.

The IEEE 802.11 MAC below the beacons is abstracted: a node with something to
announce sends when the control channel is free, or at the moment another one does,
and such beacons collide. Two limits are not reached: the tries of a beacon that
is not acknowledged, and the lifetime of packets. `ok`, `given`, `sent` and `received` are
history variables.

- `V2xMmWaveNetDevice` (three nodes, the first with three packets for the second, the
  second with one for the group, fairness): `NoAssertionFails`; `AgreementsApart`;
  `AgreementsAreWatched`; `ExchangeFitsPeriod`; `SentInOrder`; `AckedWasReceived`; `QueuesAreEmptied`.

Bounds: a period of 7 holds one exchange of 6 (SIFS 1, data 2, SIFS 1,
acknowledgment 2) and not two, so a packet is put back and a second agreement is
needed, which is placed while the first stands; the third node only listens, and hears of
group periods alone, as in the code. The two senders' beacons collide; a period that
begins late, with its full length, lasts into the next, so that frames on the data
channel collide as well. `MaxLosses` is 0, that is, nothing is lost but by collision.

### V2xChannelAccess and V2xChannelScheduler

The abstract module says that the one access goes from the default to one owner and
back, never from owner to owner, and how long an extended one may last. The
detailed one has the requests (`StartSch`, with each of the three kinds, immediate or
not), `StopSch`, the two events (`WaitEnds`, `ExtendEnds`), the coordinator's
`NotifyGuardSlotStart`, the radio's `PostponedSwitch`, and `Send`, a MAC that uses the
radio as soon as it knows of nothing against it. `SwitchToNextChannel` is one operator from radio
to radio, composed of suspending, detaching, tuning, making virtually busy, attaching
and resuming in the order of the code.

Callers ask whenever they like: `MayAsk` only bounds the number of switches that one frame holds up
(`MaxLate`). Where a switch is asked for while another waits for the end of a frame, the code compares with the
channel number of before both, so one of them is lost or they meet in the end: `overtaken`, a history
variable, records it. What happens then are finding 5 and an assertion of the radio (further
observations), and what the radio does until then, or until an assertion fails, is what `RadioFollowsAccess` and
`SendsOnItsChannel` are about. `ImplementsChannelAccess` holds in spite of it.

- `V2xChannelScheduler` (CCH interval 6, SCH interval 5, guard 3, switch delay 2, frames of 1, 3 and
  5, extensions of 1 and 2, two service channels, two late switches): `RadioFollowsAccess`,
  `SendsOnItsChannel`, `ImplementsChannelAccess` and, under fairness, `BothChannelsServed`. Deadlock
  is not checked: a failed assertion stops the program.
- `V2xChannelSchedulerLongFrame` (frames of 4): violation, finding 4.
- `V2xChannelSchedulerTakenBack`: violation, finding 5.

Unequal intervals tell the two apart; both hold a guard slot and a frame after it;
two services let a request stand in the way of another. Frames end before, at and
after the end of a switch that is asked for when they begin.

### Fairness

The simulator runs every event at its time, and then time passes: `Simulator::Run` goes through the queue
in order until it is empty. `MmWavePhy` and `CrBulkAccess` state this as `WF_vars(Tick)`, time passes
when nothing is due, and that no event stays due for ever (`[]<>(Alive => ...)`): the second part is
what a queue in order of time means, as at each time there are finitely many events. No event is favoured over
another, and no fairness is assumed of losses, arrivals, grants or packets. In `MmWavePhy` the
fair `Tick` is one that leaves the listener alone, as every `Tick` does.

`V2xMmWaveNetDevice` has `WF_vars(Next)` and `SF_vars(SendBeacon(n))`: EDCA gives a node with a frame in its
queue a turn again and again, between the beacons of others; which turn, and
whether it collides, stays open. That beacons do not collide for ever is the
premise of `QueuesAreEmptied`. `V2xChannelScheduler` has `WF_vars(Tick)` and `WF_vars(Events)`: MACs
that send and callers that ask, which take no time in the model, do not stop the clock.

## Findings

Each is a violation run with one property.

1. `MmWavePhySwitchedHeader`: a channel switch in the header of a reception leaves
   `m_endPhyRxEvent` scheduled (`mmwave-phy.cc:1167`), which meets an assertion.
2. `CrPhyAccessGrant`: a shorter busy notification replaces a longer one in the manager
   (`cr-dynamic-channel-access-manager.cc:335`), which then grants to a busy PHY.
3. `CrBulkAccessRetry`: after a lost response the repeated request finds `m_sendBulkAck` running
   (`cr-mac-low.cc:1369`).
4. `V2xChannelSchedulerLongFrame`: a switch asked for during a frame is postponed, but the next
   MAC counts the switch delay from now (`v2x-default-channel-scheduler.cc:348`) and sends
   into it.
5. `V2xChannelSchedulerTakenBack`: an access begun during a frame and released before its end: the release
   compares with the channel number that the postponed switch has not changed yet
   (`v2x-default-channel-scheduler.cc:336`) and does nothing; at the frame's end the radio changes to a
   channel that is assigned to nobody.

### Further observations

Not runs of their own; each is seen by giving the run named other constants.

- `MmWavePhyReception` with `CanSwitch = TRUE` violates `BusyMeansReceiving`: a switch during
  preamble detection leaves `m_currentEvent` set, and while the new channel is busy its
  frames are dropped "because already in Rx" (`mmwave-phy.cc:1827`) though none is received.
- `MmWavePhySwitching` with `PreambleRest = 2`, a fourth signal, frames of 7, 10 and 12 and noise of 9
  violates `IdleMeansQuiet` (not `QuietUntilSwitched`): a frame that is being waited out is not cancelled by a switch
  (`mmwave-phy.cc:1167`, `Cancelled` here); its `ResetReceive` (2132) comes in the header of the next
  frame and clears `m_currentEvent`, so that a third frame may start a preamble. The header fails,
  its frame and the third are dropped together, and only the time left of the first of them is
  compared with what the PHY is busy with.
- In `CrBulkAccess` packets that expire between their request and the response leave the access an
  empty buffer, and the program stops (`cr-txop.cc:299`).
- `CrBulkAccess` with `CountedTx <- MCGroupShort`, or any other count below `DataTx`, stops at the last data frame
  of a bulk (`cr-mac-low.cc:1257`): durations are counted without header and trailer, or without payload (523-544).
- `CrBulkAccess` with three packets per node stops when sequence numbers wrap (at 4096 in
  the code, at `SeqModulus` here) inside a bulk and are compared without the modulus
  (`cr-mac-low.cc:958`).
- `CrBulkAccess` with `MinBackoff = 0`, a node that knows no neighbor: two
  SIFS pass before the frame that follows a SIFS after another is detected, so the
  node is granted access inside a peer's bulk, loses a frame in the silent return of
  `StartTransmission`, and ends with one access inside another (`cr-mac-low.cc:826`).
- `CrBulkAccess` without `dropped` in `AccessEnds`: after a beacon the next access begins a SIFS later without
  asking the manager (`BeaconTxEnd`). If the node's own acknowledgment is on the air at that moment,
  because its sender missed the response, the request is dropped in silence (`cr-mac-low.cc:1228`), no timer runs, and
  the access lasts until the next beacon's grant fails the assertion in line 826.
- `CrBulkAccess` with three nodes: after a response missed in a collision
  `StartNewBulkAccess` serves the next destination a SIFS later without sensing the
  medium, into a bulk that another node was granted meanwhile. Nothing in the code promises more, and
  that nobody breaks into a bulk is no property here.
- `V2xChannelScheduler`: `StartSch` and `StopSch` within the switch delay, or an immediate alternating
  access shortly before an interval, switch a radio that switches (`src/wifi/model/wifi-phy.cc:1684`); so do two
  switches asked for in one frame.

Read in the code while it was modelled; in the models, but against no property:

- An acknowledgment that a timer sends later than a SIFS after its bulk cuts off a
  reception that began meanwhile (`cr-mac-low.cc:442`, `cr-dynamic-channel-access-manager.cc:320`).
- A contention free period can run twice: `CheckAgreementTimeout` compares strictly
  (`v2x-contention-free-access.cc:425`) and keeps an agreement that ends now, which the end
  of its period finds again.
- Granter and receiver of an RX beacon for one node count its delay from different
  moments, the end of the acknowledgment and that of the beacon; a beacon that is
  sent again carries its old delay. Both ends then know of different times; and
  third nodes know of none, as only the receiver takes such an agreement in.
- `AddAgreement` drops an agreement that conflicts without telling anybody; the granter keeps it.
- The loop of `SendTxBeacon` that erases receivers with an agreement (`v2x-net-device.cc:1045`)
  tests only the first of them.
- `TransmitImmediately` loses the packet it was given when the PHY is not idle any more
  (`v2x-data-mac.cc:153`): it is out of the queue, and neither `TxOk` nor `TxFailed` follows.
  `StartTransmissionImmediately` cancels an acknowledgment owed or awaited (`v2x-data-mac-low.cc:164`).
- Nodes whose group beacons collided begin their periods nevertheless.
- A request of the scheduler that waits is silently rejected when an alternating access is
  assigned meanwhile, against "first come, first served" in its comments (186, 255);
  `StopSch` of a channel that is only waited for succeeds without cancelling the wait;
  `m_waitExtend` of an earlier wait is compared while a continuous one is pending.
- `V2xDefaultChannelScheduler::DoDispose` (85) cancels `m_waitEvent` where `m_extendEvent` is meant.
- An immediate alternating access in a guard interval is busy for the switch delay only.

Read in the parts that are not modelled yet (the evacuation of a channel, `CrMmWaveMac`), so
not shown by any run:

- `StartTransmission` asserts a transmission state (`cr-mac-low.cc:1228`); a node that missed the
  detection request may still send a bulk request to one that is already detecting.
- `m_stateDetection` is scheduled (1111, 1116) without cancelling an earlier one, so a second
  request heard while detecting lets `StopDetectionChannel` run twice.

## Proofs

### CrDynamicChannelAccessManager_proofs

Proved for all SIFS, slots, windows, parts, numbers of neighbors and
durations (assumption `DcamAssumption`: a positive SIFS, at least one part, natural numbers):

- `TypeCorrect`: `Spec => []TypeOK`
- `NeverEarly`: `Spec => []PendingAfterGrantStart`
- `GrantedOnlyWhenQuiet`: `Spec => []QuietBeforeGrant`
- `RotationInRange`: `Spec => []RotationStaysInRange`
- `PriorityKept`: `Spec => PendingKeepsPriority`

The inductive invariant `IInv` is `TypeOK`, `PendingAfterGrantStart`, `RotationStaysInRange` and
`RxFailedIsOver`: a reception is marked as failed only once it is over. Without the last,
`PendingAfterGrantStart` is not inductive: a reception marked as failed while it runs
would move the grant start by another SIFS as time passes. The lemmas follow the code:
`GrantStartBound` (the grant start is the maximum over the sources), `BackoffBound` (a
backoff is at least a SIFS in every window of the rotation), `ScheduledBound` (so a
scheduled request respects the grant start), `HandlersSound` (every notification
leaves a state in which this may be applied), `NotifiedKeeps`, `ResetKeeps`, `TickKeeps`
and `CallbackKeeps` (one per kind of step). `QuietBeforeGrant` follows because a request
that is due has no time left.

### MmWavePhy_proofs

Proved for any finite set of signals with any powers, channels and durations
(`PhyAssumption`). With channel switches or without:

- `TypeCorrectness`: `Spec => []TypeOK`. `TInv` adds to the types that the signal of a running stage is
  still on the air for as long as the stage and its successors last (`PreambleFits`,
  `HeaderFits`, `PayloadFits`), which is what keeps the stages' times natural numbers. `SignalsEnd` and
  `EnergyDurationType` show that the sum of the powers falls below the threshold at some end
  of a signal, so that the energy detection's duration is one.

On one channel (`~CanSwitch`), which finding 1 and the first of the further observations show to be
necessary:

- `ReceptionNeverFails`: `Spec => []NoAssertionFails`
- `StagesFollowOneAnother`: `Spec => []OneReception`
- `BusyIsReceiving`: `Spec => []BusyMeansReceiving`

They rest on `RInv`: no switch is under way; at most one stage after the first runs; the signal in
the header or payload stage is the current one, neither cut off nor superseded
(`Undisturbed`); and a PHY that keeps a current event is about to do something with it
(`BusyWith`). The property alone is not inductive: that a frame ends in `EndReceive`
with the PHY in state RX depends on the stage before, and that on whether a
transmission or a stronger frame came between.

Where receptions are not interrupted (`~CanInterrupt`; with it a MAC may send while it
receives), switches included:

- `ReceivedWhereItWasSent`: `Spec => []ReceivedOnThisChannel`. `SInv` follows a frame through its three
  stages: its signal is still the one the PHY is tuned to, and the state RX lasts as long as the payload.

On one channel, and with a MAC that sends on an idle medium only (`~CanSwitch`, `~CanInterrupt`; the
further observations and the hazard at `mmwave-phy.cc:1668` show that both are needed):

- `IdleIsQuiet`: `Spec => []IdleMeansQuiet`. That the PHY's times cover the energy on the air
  (`Covered`) is not inductive: where a signal ends before what the PHY is busy with, or while a
  preamble is being detected, the PHY does not look at the energy. `QInv` allows for it as
  long as a stage is running at whose end it will (`Watched`), and says of the first two
  what makes the comparison there sufficient: the energy lasts no longer than the frame, or the PHY is
  busy no longer than the stage. Per action there is a lemma `...Heard`. They need the power on the air as a
  sum: `PowerOfAny` (any signal may be taken out of it first), `PowerOfFewer` (it grows with the
  set of signals) and `PowerOfSame`, by the smallest set for which they would fail
  (`SmallestSet`), as the prover has no induction; from them `EnergyDurationIsLeast`,
  `EnergyOfArrival` (a new signal extends the energy to its own end at most) and `EnergyElapses`.

### CrPhyAccess_proofs

Proved for any finite set of signals, any durations and windows, a positive SIFS
(`PhyAccessAssumption`), channel switches included:

- `NodeUsesPhyAsAllowed`: `Spec => UsesPhyAsAllowed`
- `TypeCorrectness`: `Spec => []TypeOK`
- `ManagerIsInformed`: `Spec => []ManagerKnowsPhy`
- `RequestsWait`: `Spec => []RequestWaitsForPhy`
- `ResponsesAreSent`: `Spec => []ResponseIsSent`
- `NoCallIsRefused`: `Spec => []CallsAreAccepted`

and as long as the node does not change channels (`~CanSwitch`):

- `NodeReceptionNeverFails`: the node's PHY keeps `NoAssertionFails`, `OneReception` and `BusyMeansReceiving`.

The invariant `Inv` has the types, those of the PHY taken from `MmWavePhy_proofs`, and: a
pending request waits two SIFS longer than every period the manager knows of
(`Waits`). While no assertion has failed (`Know`), the manager's ends of transmission, reception and
switching are the PHY's (`Knows`); the PHY does not switch while it sends or receives, and
its events are due when its transmission ends (`Apart`); the frame a response answers is not
forgotten (`Remembers`), that is, the end of the last reception lies no further back than the response has
been scheduled; and no transmission runs while a response waits. The
parts need each other: that a grant finds neither a transmission nor a response
waiting is seen from the manager's ends, whose exactness rests on the PHY
not being used while it transmits; and that rests on the grants. `DueMeansQuiet` is
the middle of it: when a request comes due, every end lies two SIFS back, so
no frame can have been received within the SIFS that a response waits.

A step of the PHY makes several calls, and between them its record is half changed. `Agree`
says what all the managers that have heard the calls so far know of the PHY so far;
there is one lemma per operator of the PHY (`AgreePreamble`, `AgreeSend`, ...) and one per kind of call
(`AgreeRxStart`, ...), and `DeliverAppend` says that one more call is one more reaction. `Same...` say
that the instances of `MmWavePhy` with and without a listener have the same handlers, which is what
carries a step of the node over to the specification of the PHY, and its theorems back.

Finding 2 is why `ManagerKnowsPhy` bounds the belief about energy from one side only, and why
no theorem says that a grant finds the PHY idle: it finds it neither sending, receiving nor
switching, but perhaps busy.

### CrBulkAccess_proofs

Proved for any finite set of nodes, any lengths, packets, beacons, expired packets and losses
(`BulkAssumption`), until an assertion fails or beyond:

- `TypeCorrectness`: `Spec => []TypeOK`
- `WorkIsNeverForgotten`: `Spec => []WorkIsScheduled`
- `AckedPacketsArrived`: `Spec => []AckedWasReceived`
- `PhasesFollowOneAnother`: while a bulk runs or an answer is waited for, the node accesses the
  channel, and at most one of the three timers runs
- `NothingIsReportedTwice`: of no destination are fewer reports owed than packets of it are held, one
  half of `NothingVanishes`

`TInv` says of each node (`Sound`) that it has its types, that its events have functions, that a queue
holds at most what it was given (`Typed`), that the phases of an access follow one another (`Phases`), and that
a node with packets will access the channel (`Scheduled`); and that a node whose beacon is on the
air has nothing else of an access going on (`Calm`). None of the parts is inductive alone: a beacon's end may
replace the event that continues an access, were it not for `Calm`; an access may end while an answer is still
waited for, were it not for `Phases`; and a group's bulk, which is a SIFS shorter than announced, lasts a
natural number only because no request is for nothing. `AInv` relates three pieces of state on two nodes:
what a receiver marked, what an acknowledgment on the air names, and what is reported, all of it
delivered. There is one lemma per handler: `...Facts` for what operators of
the low MAC do to a node, `...Handled` that what a handler leaves, with the frame it sends, may
be put in its place (`HandlerStep`), `Received` and `Untouched` for what the end of a frame
does at those who hear it (`FrameEndsStep`).

`NumberLemmas` holds what this module, `MmWavePhy_proofs` and `V2xMmWaveDataMac_proofs` need of `Min` and
`Max`: that they exist where they are taken.

### V2xMmWaveNetDevice_proofs

Proved for any number of nodes, any lengths, flows and losses (`NetDeviceAssumption`,
`TxDurationAssumption`):

- `AgreementsStayApart`: `Spec => []AgreementsApart`
- `NewAgreementNeverFails`: `Spec => [](failed # "NewAgreement")`
- `AgreementsStayWatched`: `Spec => []AgreementsAreWatched`

`IInv` is the types of agreements, requests and beacons (`CtrlTypeOK`), `AgreementsApart` and that
this assertion has not failed. It is inductive although `CheckAgreementConfilct` lets an equal
period pass, because the overlap test misses nothing else among periods of one
length: `AddedApart` (what it accepts is apart from all known, or begins with one of
them), `ElapsedApart`, `NewAgreementIsFree` (a placed period is free and not too early). Steps of
the data channel change no agreement (`DataSteps`). `WInv` adds that timers are natural
numbers or -1 and that an own agreement is watched. Its lemmas follow the
handlers: `IfNeedIsActive` and `TryIsActive` (a handler that looks for a period leaves one
waited for or running if there is an agreement), `OtherStep` (the others leave the timers
alone), `EndsWatched` (the end of a beacon looks for one), `TickWatched`.

### V2xMmWaveDataMac_proofs

What the same module does on the data channel, proved for any finite set of nodes and any lengths, flows and
losses; the theorems of the agreements are used for the control channel.

- `ExchangeInvariance`: `Spec => []DInv`, and from it
- `TypeCorrectness`: `Spec => []TypeOK`
- `ExchangesFit`: `Spec => []ExchangeFitsPeriod`
- `PacketsStayInOrder`: `Spec => []SentInOrder`

`DInv` says of each device that a transmission waited for fits what is left of its period, answer
included, that timers run only for a packet in hand, and that its queue is in
order and later than all it sent (`Sound`); and of each frame on the air that it is the
packet in hand and fits the period (`Fits`). Without the wait in it `ExchangeFitsPeriod` is not inductive;
order is kept although a packet that does not fit into the rest of a period returns to the front
(`WithFront`) and packets are taken out of the middle (`Without`), because what returns is later than
what was sent. A packet that is not acknowledged does not return: `TxFailed` drops it.

If a SIFS is shorter than a data frame (`SifsIsShort`; 2000 ns, `mmwave-phy.cc:637`, against 3575 ns
for a preamble alone, 426):

- `DeviceNeverFails`: `Spec => []NoAssertionFails`
- `AckedPacketsArrived`: `Spec => []AckedWasReceived`

An acknowledgment has no number: whoever waits for one takes the next it hears for its own.
`HInv` says who may hear what (nobody sends and hears at once or hears two frames, and a node that
owes an acknowledgment neither sends nor has data arrive before it left), `RInv` that an
acknowledgment owed or on the air to a node that waits is for the packet it has in hand. The
assumption is used where a third node's data might end before an owed acknowledgment leaves.
A simulation with a SIFS of more than a data frame found no violation, so it may be stronger than needed.

### V2xChannelScheduler_proofs

Proved for any channels, intervals, delays and frames, whenever callers ask
(`SchedulerAssumption`):

- `Implementation`: `Spec => ImplementsChannelAccess`, with the refinement mapping `Owner`. The
  invariant `SInv` bounds the clock and says which timers run in which access; one lemma per operation
  says which abstract step it is: `TakeAssigns`, `WaitKeepsOwner`, `ReleaseImplements`, ..., and
  `ExtendedLength` that an extended access lasts what the abstract module allows.
- `TypeCorrectness`: `Spec => []TypeOK`.
- `RadioReachesAccess`: `Spec => []RadioFollowsAccess`
- `FramesOnTheirChannel`: `Spec => []SendsOnItsChannel`

The last two rest on `RInv`: until an assertion fails or a switch overtakes a late one, there is a channel
that both has the radio (`Holds`: its MAC alone is attached and awake, and the radio is tuned to it, or
will be when the one late switch is made; a frame on the air is on its sender's channel) and is owned by the access assigned
(`Owns`, which lets an alternating access be on either channel in a service channel interval, before an
immediate request or the guard slot has moved it). `RadioFollowsAccess`
alone is not inductive, as it says nothing while something moves. `SwitchHolds` is the heart: `SwitchToNextChannel` from
the holder makes the next channel the holder, whatever is on the air, if no other switch is late;
`Handover`, one lemma per operation (`TakeKeepsRadio`, `AlternatingKeepsRadio`, `ReleaseKeepsRadio`, ...) and one
per event apply it.

### What is only model-checked

`NothingVanishes` of `CrBulkAccess`, which depends on no packet coming due while the node sends something else,
so on lengths like those of the run. Out of reach of the prover and left to TLC: the liveness properties
(`EveryReceptionEnds`, `PostponedSwitchIsMade`, `AccessEnds`, `QueuesAreEmptied`,
`BothChannelsServed`), and what folds over data compute.

## Plan

Done: the access manager with proofs, the PHY, their composition, the bulk access; the V2X
agreements and net device with proofs, the V2X scheduler with its abstract
specification and proofs. Left, in this order:

1. Evacuation of a channel: the low MAC states suspended, detecting, switching and transmitting
   for the intra group, with `CrMmWaveMac`'s neighbors and activity records; then
   `MmWaveSpectrumRepository`, whose clients they are.
2. `MmWaveMacQueue`'s bound, drop policy and channels, `MmWaveMacRxMiddle`'s reassembly, as pure algorithms.
3. An abstract PHY implemented by `MmWavePhy`.
4. Theorems: `NothingVanishes` under an assumption on lifetimes that implies it.

## Not modelled

- Headers, PSDUs, tags: serialization. Modes, rates, error models, spectra, the station
  manager's tables: computation without protocol state; their outcome is a
  nondeterministic choice.
- The jammer: a source of noise, which `NoiseArrives` stands for. Helpers and scenarios:
  construction. ns-3 itself, and of it the IEEE 802.11 MAC below the V2X control MAC.
- `CrMmWaveMac` and `MmWaveSpectrumRepository`: they act through the channel changes of the low MAC,
  which the plan begins with. `CrMmWaveNetDevice`: construction and forwarding.
- `V2xVsaManager`: a list of announcements, each with a timer of its own that nothing but
  its repetition and removal change.
- The rx middle's duplicate detection and reassembly: no sender of the module sets the
  retry flag, and fragments are left out.
- In the modelled components: sleep and off, fragments, the inter and probe groups, the
  CTS timeout and NAV reset (no caller); in the V2X control MAC, vendor specific frames and
  EDCA parameters; what the scheduler answers to its callers, and disposal.
