# ScalaMiner in TLA+

This directory is the verification project of ScalaMiner, a mining daemon
written as Akka actors: it finds USB mining devices, drives them, gets work
from stratum servers and submits the shares the devices find. The modules here
are translated from the Scala source; `PROJECT.json` maps every definition to
the lines it stands for.

Paths below are relative to
`src/src/main/scala/com/colingodsey/`, and `scalaminer/` is written `sm/`.

## 1. Inventory

### 1.1 The parts, their state and their operations

| Part | Source | State it keeps | Operations |
|---|---|---|---|
| USB device actor | `io/usb/UsbDevice.scala` | `endpointQueues`, `busyEndpoints`, `claimedInterfaces`, the libusb handle | IRP requests, `UnbusyEndpoint`, libusb callbacks, `Close`, `postStop` |
| USB host | `io/usb/UsbHost.scala` | `deviceSet`, `deviceActors`, subscribers | `UpdateDeviceList` (each second), `Connect`, `Terminated` |
| USB device manager | `sm/usb/USBManager.scala` | `devices`, `workerMap`, `failedIdentityMap`, `lastSuccessfulIdentity`, `pollQueued`, drivers | poll, `CreateDeviceIdentity`, `IdentityReset` (45 s), `FailedIdentify`, `Terminated`/`RemoveRef`, device events |
| Worker base | `sm/usb/UsbDeviceActor.scala` | the device's actor, timers | `Connected`, start and identify timeouts, `postStop` |
| Miner base | `sm/drivers/AbstractMiner.scala` | extranonce, difficulty, job, work timeout, nonce statistics | subscribe, the three pool messages, `submitNonce`, timeouts |
| Drivers | `sm/drivers/**` | the device's queue, results, chips' slots | detection, work, nonces, temperature |
| Stratum pool | `sm/network/StratumPool.scala` | connections, sessions, last extranonce/difficulty/job of each, `currentConnection`, subscribers | add, subscribe, session messages, switch timer |
| Stratum session | `sm/network/Stratum.scala` | TCP buffer, `responseMap`, `messageId`, extranonce, difficulty, job, subscribers | TCP events, JSON-RPC calls and callbacks, submissions, health check |
| Stratum proxy | `sm/network/StratumProxy.scala` | the miner base's; `merkleJobMap` | `getwork`, the future that builds it, submission, expiry |
| Buffered reader | `io/usb/BufferedReader.scala` | read buffer, `readingInterface`, auto-read | reads, drops, auto-read |
| Virtual host | `io/usb/VirtualHub.scala` | device lists of several hosts | merges them into one (off by default) |
| Metrics and API | `sm/metrics/*`, `sm/api/*` | ring counters by tag and miner | counting, snapshots, text replies |
| Pure algorithms | `sm/utils/*`, `sm/hashing/*`, parts of drivers | none | CRC8, CRC16, endian swaps, merkle root, difficulty and target, frequency tables |
| Wiring, UI, SHA-256 | `sm/ScalaMiner.scala`, `ui/`, `Sha256.java` | none | start-up; a page that draws charts; a hash |

### 1.2 How they interact

Everything is a message between actors, with two exceptions: libusb callbacks
run on the selector's thread, and death travels as Akka's supervision
(restart, stop, `Terminated`, `DeathPactException`).

```
 TCP <-> StratumActor --ExtraNonce/Difficulty/MiningJob--> StratumPool --same--> miner
                      <------------ SubmitStratumJob ----- StratumPool <-------- miner
 libusb list -> UsbHost --DeviceConnected/Disconnected--> UsbDeviceManager -creates-> miner
 miner --Connect--> UsbHost -creates-> UsbDevice <--IRPs/answers--> miner
 miner --FailedIdentify, Terminated--> UsbDeviceManager
```

### 1.3 What is hard, and what makes each part correct

* **USB device actor.** The busy mark is set in a handler, the transfer ends on
  another thread, and the mark is cleared by a third, possibly delayed, message.
  Correct: no wake-up is lost, one transfer on an endpoint, every request is
  answered in order or the device goes down.
* **Hot-swap.** Devices come and go while workers start, fail and stop; polls,
  resets, delayed removals and delayed stops overlap; all of it in one mailbox.
  Correct: one worker for a device, none the manager has forgotten, no failed
  identity tried twice in a period, and a plugged device is mined in the end.
* **Pool.** What a miner mines is put together from three messages of one
  session, while connections switch, sessions die and miners come and go.
  Correct: a miner's extranonce, difficulty and job are of one session, work
  reaches a subscriber, the best connection wins.
* **Session.** TCP cuts lines anywhere, ids wrap, callbacks wait in a map.
  Correct: every verdict reaches the submitter of its share, no callback leaks
  or is run for another request.
* **Miner and drivers.** A nonce arrives when work, job or difficulty may have
  changed, and a future submits it later still; the pool's update is three
  messages, with anything between them; device queues are flushed and answered
  late. Correct: devices end up on the newest work, shares for older work come
  to an end, reading goes on, and counts of outstanding work return to what the
  device holds.
* **Proxy.** A work reaches its client and the actor by two callbacks of one
  future; works expire while clients solve them. Correct: a client's work is
  known until it is too old.

`PROJECT.json` lists the single hazards at their lines, with the properties
that cover them.

## 2. Plan

Modules in the order of their importance to the program:

| # | Module | Models | State |
|---|---|---|---|
| 1 | `UsbDevice`, abstract `IrpService` | device actor; what it promises | checked, proved |
| 2 | `UsbHotSwap` | host, manager, workers' lives | checked, safety proved |
| 3 | `StratumPool`, abstract `WorkSource` | pool and its sessions' messages; what it promises | checked, proved |
| 4 | `StratumSession` | one session's transport | checked, safety proved |
| 5 | `BFLSC` | a BFLSC's work queue: submissions, results, flushes | checked, safety proved |
| 6 | `BXMDevice` | BitFury chips: transfers, busy marks, next works | checked, safety proved |
| 7 | `AbstractMiner` on `WorkSource` | the three messages, works, nonces, futures, work timer | checked, lemmas proved |
| 8 | `SerialMiner` | Icarus, DualMiner, GridSeed on the buffered reader | checked, safety proved |
| 9 | `StratumProxy` | getwork | checked, safety proved |

How they fit together: `UsbDevice` implements `IrpService`, which is what a
driver may assume of its device; `StratumPool` implements `WorkSource`, and
`AbstractMiner` EXTENDS `WorkSource`: the miners are modelled on what the pool
was shown to promise and not on the pool. `SerialMiner` and `StratumProxy`
extend `AbstractMiner`, and `MCMiners` puts them side by side.

Every safety property of the runs is stated by a theorem. Worth adding next:
the pure operators (CRC5 and CRC16, the endian swaps and the frequency tables)
against reference definitions.

## 3. Modules

### 3.1 `UsbDevice`, `IrpService` (`MCUsbDevice`, `UsbDeviceProofs`)

One handler of the actor, or one run of the libusb callback, is one action:
`ReceiveRequest` (`ControlIrpRequest`, `BulkIrpRequest`), `ReceiveUnbusy`,
`Complete` and `Bail` (`processTransfer`), `Close`, `PostStop`. `queue`,
`busy`, `claimed` are the code's maps and sets; `inflight` is the transfers that
libusb holds; `unbusy` counts the `UnbusyEndpoint` messages that are scheduled
or in the mailbox; `outcome` is what each requester has heard. A `Request` is a
slot: an actor with n requests outstanding has n slots. `queueFor` is called to
add *and* to dequeue, so its `require` is in both places, as in the code; each
place that can throw (claiming an interface, submitting) is a disjunct of
`Submit`. A stopped actor handles nothing more, because Akka's `Terminate`
overtakes user messages; callbacks still run until the handle is closed.

`IrpService` is the promise to requesters: one line per endpoint, answers from
its head, a failure takes the device down. `ImplementsIrpService` maps a line to
the transfer in flight followed by the queue.

Left out: the content and length of transfers, `setConfiguration`, timeouts'
values (a timeout is one of the outcomes of `Bail`).

### 3.2 `UsbHotSwap` (`MCUsbHotSwap`, `UsbHotSwapProofs`)

`UsbHost`, `UsbDeviceManager` and the lives of workers and device actors.
Incarnations of workers and device actors are numbered slots that are used
again when nothing refers to them. The manager has a FIFO mailbox (`inbox`);
`UpdateDeviceList` appends the events of one poll of the bus, new devices
before lost ones. `PollDevices` sends `CreateDeviceIdentity` to itself, as the
code does, so a worker is created later than the identity was chosen. A worker
is `connecting` (asked `UsbHost`), `answered`, `detecting`, `mining`,
`stopping`, `dead` (its `Terminated` is in the mailbox) and `removing` (until
`RemoveRef`). Its `postStop` leaves a delayed stop of the device behind
(`stopDue`). `actorOf` with a name still in use throws
`InvalidActorNameException`; the manager's guardian restarts it, its fields are
lost and nobody sends it its drivers again (`mode = "bare"`).

Anything may be plugged in or out at any moment, also again under the
`DeviceId` it had: the id has the bus address in it (`io/usb/Usb.scala:29-38`).
The history variable `returned` has the devices that came back *too soon*,
while something of their last time was left (`NothingLeft` is false). Three
properties speak only of the others: a device that is back at once does meet
the late stop of its old worker, may have an identity marked that failed before,
and may find its worker's name taken. `LiveWorkersMapped` and `MinedInTheEnd`
hold for all.

`IdentityReset` comes from a timer of its own, one minute after the start and
then every 45 s, and polls without looking at `pollQueued`. In the safety runs,
and in all theorems, it may come at any moment, also while workers detect and
other polls are in the mailbox.

`Timely` is for `MinedInTheEnd` alone. With it, a reset comes only when every
device whose search for an identity was on at the reset before (`waiting`) has
been mined or has had every identity tried since: four identities (`Tries`; no
driver's table has more than three for one vendor and product) take 4 x 11.2 s
(10 s until detection is given up, 1.2 s until the next worker), and resets are
45 s apart. If resets came faster than that, a wrong identity could be tried for
ever. A reset still overlaps whatever poll or worker is under way. And
`RemoveRef` (1.2 s) comes when the device actor that was told to stop 700 ms
earlier is gone.

Left out: metrics subscribers, `UsbHost`'s own subscriber set (the manager is
the only subscriber), the libusb thread.

### 3.3 `StratumPool`, `WorkSource` (`MCStratumPool`, `StratumPoolProofs`)

All of the pool's handlers. Each session is reduced to what it sends: on the
pool's `Subscribe` its present extranonce, difficulty and last job, then
changes, in order (`chan`). `jobs`, `difficulties`, `extraNonces`,
`currentConnection` are the pool's fields. `view` is what each miner was last
sent, tagged with the connection it came from. Weighted random choice in a
priority group is a free choice. `context.watch` is never called on a session,
so the pool's `Terminated` handler for sessions is unreachable and absent; a
session that fails is `dead` for ever, because its restart calls `postStop`,
which stops it. Forwarding `SubmitStratumJob` changes no state of the pool; it
is `ForwardShare` of `AbstractMiner`, where one can see what it does to shares.

`WorkSource` is the promise to subscribers: every connection has an offer, one
connection is the source, and every listener has been told of exactly its
newest offer. `ImplementsWorkSource` maps the offers to the pool's records
(as far as the pool has heard), the source to `currentConnection`, and what a
miner was told to its `view`, if the three parts are of one session (`Heard`).

### 3.4 `StratumSession` (`StratumSessionProofs`)

One TCP connection. The server's lines are two tokens each, text and newline;
a chunk of any length is delivered (`Received`), `breakSome` sends the actor
one message for each complete line (`Lines`) and keeps what comes after the last
newline (`LastNewline`). `SendCommand` takes the
next id (wrapping after `MaxId`) and stores the callback; `HandleResponse` runs
and removes it. The callback of `mining.subscribe` sends `mining.authorize`
inside, which is why `RunCallback` has the callbacks that are left as an
argument. The server is external: it answers every request once, or never, in
any order.

The id of the next request may be in use when ids wrap: a request under it is
not answered, or its answer is under way (`InUse`). `SendCommand` then takes the
place of the callback that still waits, as the code does, and the answer to the
one request goes to the callback of the other. `crossed` remembers these ids and
`sent` the id each slot's share went under; the exact part of the properties is
about all other ids. The code has nothing for this case but "TODO: add cleanup!"
(`Stratum.scala:96`).

### 3.5 `BFLSC` (`BFLSCProofs`)

The driver's behaviours are `behavior` (`init`, `normal`, and what `getResults`
and `submitWork` become: `results`, `submit`, with their local `started` or
`phase` in `phase`). Every handler has the message it takes, and the messages
and lines that are left, as arguments, so that it is written once although the
message may come from what was unstashed, from the read buffer or from a timer
(`ReceiveUnstashed`, `ReceiveLine`, `ReceiveCancelWork`, `ReceiveTimer`).
`normalBaseReceive` comes first in every behaviour: `FlushedLine`, `InvalidLine`,
`TemperatureLine`. `workSubmitted` is the driver's count of the works in the
device; `queue`, `found` and `awaiting` (a payload after `QJOB`) are the
device's own, and `lines` are its answers under way. `TimesOut` lets the
timeouts of `submitWork` and `getResults` fire when no line is under way, or,
`MaxLate` times, before a line that is.

An answer that comes after its timeout is taken for the answer to the next
command, and driver and device stay out of step until a flush; `lates = 0` in
the properties excludes exactly that. Temperatures are read (`ExpireJobs`) only
in behaviours without a late answer, a bound that keeps the two apart.

Left out: the conversation of `init`, the map from midstates to jobs and its
expiry, `INPROCESS` and `COUNT` lines, the base miner's timeouts.

### 3.6 `BXMDevice` (`BXMDeviceProofs`)

`stack` is the actor's behaviours with `context.become(_, false)`: `receive` or
`normal` at the bottom, a transfer's own on top, and during `reinit` one for
each chip on top of each other. `inbox` and `stash` are the mailbox and the
stash; `unstashAll` puts the stash in front. `buffer` is the read buffer and
`wire` what was not read yet: each piece is tagged with the transfer it answers.
`workSendingToChip`, `chipNextWork`, `chipCurrentWork` are the code's; `unbusy`
is the chips whose `UnBusyChip` is scheduled. What throws is in `failed`.

A single chip may starve: `SendWork` is dropped during any transfer ("should
probably be just one chip", `BXMDevice.scala:149`), and a chip whose `SendWork`
was dropped waits for the next `ClearWork` that comes while the other is busy.
`KeepsSending` is therefore about the chain of chips and not about each.

Left out: which work a chip computes on at what time (its firmware is not in
the repository), so whether nonces are checked against the right work; the bits
of the buffers; the NanoFury's transport.

### 3.7 `AbstractMiner` (`AbstractMinerProofs`)

What all miners share. The pool is `WorkSource`, but a step of it that tells the
miner puts up to three `letters`, which are delivered one by one, with the
miner's own steps between them (`Deliver`); while there are letters the pool's
actor is in its handler and does nothing else. The mailbox `inbox` belongs to
the modules that extend this one, so handlers are operators on the message they
take and the mail that is left. A work is the connection of its extranonce and
its job, so that a work mixed from two connections is visible. A nonce is put
into `pending`: `submitNonce` runs in a future whose arguments are evaluated by
the future's thread (`SubmitNonce`), so the share is labelled with the job the
actor has *then*; whether the hash meets the target is a free choice for a nonce
of that work and `FALSE` otherwise. Futures end in any order. `shares` are the
`SubmitStratumJob`s under way to the pool.

### 3.8 `SerialMiner` (`MinersProofs`)

Icarus, a DualMiner facet and GridSeed (SGS and FTDI) differ in the handlers
named after them; `driver` is chosen at the start and never changes. `behavior`
is `detecting`, `resetting` (GridSeed waits for its chips) or `normal`; `stash`,
`retries` (StartWorks scheduled for lack of work), `cancelDue` (the CancelWork
of `detected()`) are what can make a driver send work later. A StartWork sends
the actor a `Job` message of its own, a GridSeed sends directly.

The buffered reader is `line` (found by the device, not read),
`readingInterface`, a `ReadDone` message and `buffer`. Nothing in a nonce names
its work; it is taken for one of `lastJob`. The line is a FIFO, so it is enough
to count: `stale` of the nonces under way are of works before `lastJob`.

A GridSeed has no auto-read: only its `sendWork` reads on. A read that brings
less than a nonce (`GridSeed.scala:299`; `ReadEnds` may bring 0 of what is on the
line) and a packet without either mark (`GridSeed.scala:304-305`,
`GridSeedBadPacket`) send no work, so nothing is read until the next CancelWork.
The history variable `missed` says that this has happened.

"DualMiner" is a facet: of a DualMiner on one interface, which begins with its
golden nonce, or a child of one on two. The scrypt child is normal from the
start and reads nothing before its first work (`DualMiner.scala:41-45`); the
SHA256 child begins like the first kind, and has `finishedInit` set from its
construction (`DualMiner.scala:55`), which only keeps `CheckInitTimeout` from
stopping it, a step that need not happen in the model.

### 3.9 `StratumProxy` (`MinersProofs`)

An `AbstractMiner` whose devices are HTTP clients. A `getwork` is built by a
future (`Build`), whose result reaches the client (`Answer`) and the actor
(`TellSelf`, then `RememberJob`) independently. `Ages` is the passing of
`jobTimeout`, `JobTimeouts` the timer's message that forgets the works that are
too old. A merkle hash is used again when nothing refers to it.

### 3.10 `MCMiners` (`MinersProofs`)

Either a driver of `SerialMiner` or the proxy, chosen at the start, on one
`AbstractMiner`, so that one run checks all five against the same source.

## 4. Runs

| Run | Instance | Shows |
|---|---|---|
| `device` | 3 endpoints, 6 request slots, queue of 2 | types, no lost wake-up, nobody forgotten, exclusive transfers on claimed interfaces, refinement of `IrpService`, every request answered or the device down |
| `pool` | unreliable connection of the higher priority and a reliable one, 1 miner, 2 jobs, 2 difficulties | a miner's view is the current connection's, a job is minable, refinement of `WorkSource`, work arrives, the highest priority wins |
| `session` | 2 submitters, ids 0..3, 4 tokens under way | unless an id is taken while in use, verdicts reach the right submitter and callbacks match requests; work after extranonce |
| `hotswap_safety` | 1 device that 2 identities match, 3 plug events, 1 failure, mailbox of 2 at a reset | one worker for a device, mapped; if the device did not come back too soon, no stray stop, failed identities not retried, no name clash while it is there |
| `hotswap_live` | 2 devices of different kinds, 2 plug events, 2 failures, mailbox of 2 at a reset, `Timely` | devices are mined in the end |
| `bflsc` | queue of 2, 2 jobs, 2 temperature readings, 1 late answer | the count of works is never too high, answers are not mixed up, stale work leaves the device, the device gets work |
| `bxm` | 2 chips, answers in 2 pieces, 2 jobs, 1 timeout | no callback throws or gets another's answer, busy marks are freed, no old work is sent, transfers end, work is sent for ever |
| `miners` | Icarus, DualMiner, GridSeed SGS or FTDI, or the proxy; 2 connections that take turns | a driver at rest has sent the newest work, a client's work is known, stale shares end, nonces are read unless a GridSeed missed its next read |
| `device_flood` | as `device` | **violated**: the flood check also fires on `UnbusyEndpoint` |
| `pool_failover` | as `pool`, 1 job | **violated**: the pool stays on a dead connection |
| `pool_rotation` | 2 reliable connections of one priority | **violated**: rotation leaves the pool on a session it stopped |
| `hotswap_drivers` | 1 device, 2 plug events, a reset | **violated**: the manager loses its drivers |

### 4.1 Bounds

* Device: four slots on one endpoint are one in flight, two that fill the
  queue (`MaxQueue = 2`; the code's limit is larger, but only "empty",
  "neither" and "full" differ) and one that floods it. Two bulk endpoints share
  an interface, so the second finds it claimed.
* Pool: two connections give every comparison of priorities; two jobs and two
  difficulties tell an old value from a new one. `Subscribe` and `UnSubscribe`
  repeat without a bound.
* Session: `MaxId = 3` makes ids wrap while requests are unanswered, and also
  onto an id that is in use;
  `MaxStream = 4` lets two lines be under way, cut anywhere.
* Hot-swap: `MaxPlugs = 3` is in, out, in: the shortest history with a re-plug
  that stays;
  `MaxFails` lets a device actor, an open or a worker fail; `Slots` and `Refs`
  bound the incarnations there are at a time and are large enough that a free
  one is always left; `MaxInbox` bounds the mailbox at an
  `IdentityReset` only, all other messages being bounded by what causes them
  (one is enough in `hotswap_drivers`: the poll that is overlapped).

* BFLSC: two jobs tell old work from new; a queue of two is empty, partly full
  and full, and `MaxWork = Capacity` (in the code the limit of 20 is meant to be
  the device's own) lets a flush, overheating and late answers make the device
  full before the driver believes it. One message of each timer waits at most.
* BXM: two chips are the least that nest transfers and drop each other's
  `SendWork`; an answer of two pieces can be incomplete; one `ClearWork` waits at
  most; one timeout can be overtaken by its answer.

* Miners: two connections (`Conn`) with one job and one difficulty each; the
  pool may switch between them for ever, so that every message of the pool has
  an old and a new value, and a work can mix the two. `MaxMail` is the mail
  beside which a timer or a change of the pool still happens; letters, timers
  and handlers may add more. `MaxFound` bounds the nonces under way from device
  to pool, `MaxResults` a client's solutions, `MerkleHash` the works of a proxy
  at one time. `MaxChains`: a StartWork that finds no work retries every second
  for ever, beside those other messages start, and Icarus adds one every eleven
  seconds (`Icarus.scala:87`), so the code's chains of StartWorks have no bound;
  the pool and that timer wait while there are as many. `FollowsWork` and
  `KnownUntilOld` are proved without any of these values (section 5), so what
  small bounds could hide are only `StaleSharesEnd` and `NoncesRead`.

### 4.2 Fairness

* Device: every transfer has a libusb timeout and the selector polls for ever;
  Akka delivers messages and carries out stops. Requesters need not send.
* Pool: configured connections are added, a connection that works connects and
  its server sends work (failures only of `Unreliable` ones), mailboxes are
  worked off, the switch timer repeats. No fairness on miners.
* Session: TCP delivers, the actor works off its mailbox. None on the server,
  the miners or the death of the session.
* Hot-swap: the bus is polled each second, identities reset every 45 s (when
  `Timely` lets them, see 3.2), mailboxes are delivered, timers fire, actors
  stop when told, and a worker on a device either detects it or gives up.
  Plugging and failures are finite and not fair.

* BFLSC: lines are read, handled and answered, the poll timer goes on, and a
  message in the mailbox waits for finitely many others, which is strong
  fairness of `ReceiveCancelWork` and of `GetResults`, as unstashed messages are
  handled before them. A timeout fires when nothing is under way. The device
  need not find anything and no job need come.
* BXM: the device answers and is read, messages are handled, the 100 ms timers
  fire. `ClearWork`, new jobs and timeouts need not come.

* Miners: the pool's handlers run to their end and the subscription arrives
  (`PoolSubscribe`, `Deliver`, `ForwardShare`); futures run, the oldest in the
  end (`SubmitNonce(1)`); the mailbox is worked off; the device takes what it is
  sent and answers reads; the retry, reset and cancel timers fire; a proxy's
  works grow old and its timer repeats. None on the pool's changes, on what a
  device finds or clients do, on the work timer, `nonceRestart` or
  `CheckInitTimeout`.

`CHECK_DEADLOCK FALSE` stands in the runs of the device, of the miners and of
the BFLSC and BXM drivers (they end stopped) and of the session (it ends dead):
all of them really stop.

## 5. Proofs

Each theorem holds for every value of the constants that the module's named
ASSUME allows, and none of them assumes a bound. Every proof has an inductive
invariant `IInv`, a lemma for each handler, and a last theorem by PTL.

### 5.1 `UsbDeviceProofs`

For every set of requests, endpoints and interfaces and every `MaxQueue > 1`
(`DeviceAssumption`, all that is assumed):

* `TypeCorrect`, `WakeupsKept`, `TransfersExclusive`, `RequestsKept`: the
  invariants of the run `device`;
* `DeviceImplementsService`: `Spec => Promise!Spec`, the refinement.

None of these is inductive by itself. That an endpoint is freed exactly once
needs to know that the endpoint's requests are distinct and its own, for a
request queued twice would be submitted twice; that needs who waits; and that
nobody is forgotten needs the busy mark, for a request queued behind an
endpoint nobody frees waits for ever. `IInv` is therefore the conjunction

* `Good` (each endpoint's queue and transfer hold distinct waiting requests of
  that endpoint; at most one transfer or one scheduled `UnbusyEndpoint`),
  which holds in every state, also while the device goes down,
* `Marked` (the busy mark means exactly that one wake-up is to come) and
  `Kept` (every waiting request is queued or in flight), while it runs,
* and the claimed interfaces of what is in flight, until the handle is closed.

There is one lemma for each handler (`RequestIInv`, `UnbusyIInv`,
`CompleteIInv`, `BailIInv`), on lemmas about one endpoint (`GoodAppend`,
`GoodSubmit`, `GoodFrame`, `CheckIInv`). For the refinement, `LineAppend`,
`LineSteps` and `LineFrame` say what each step does to the line of an endpoint,
and each handler maps to `Accept`, `Refuse`, `Serve`, `Fail`, `Shutdown` or a
stutter.

### 5.2 `StratumPoolProofs`

For every set of connections, of miners, every number of jobs and difficulties
(`PoolAssumption`): `TypeCorrect`, `SubscribersCurrent` (`ViewCurrent`),
`JobsMinable` (`MinableView`) and `PoolImplementsWorkSource`.

That a job is minable rests on the order of messages from a session, which no
state variable of the pool shows. `ChannelsGood` says it of each channel:
`InOrder` (a job in it comes after the real extranonce and a difficulty, in it
or on the pool's record; jobs do not go back) and `WillKnow` (what the session
has, the pool knows or will be told). `SessionsGood` and `CurrentGood` tie the
session's own record and `currentConnection` to them. For the refinement, each
handler is an offer of one connection, a switch, a subscription, an
unsubscription or a stutter.

### 5.3 `AbstractMinerProofs`

Lemmas only, about sequences of messages and about a miner between two words of
the pool. `MailOK` says of a mailbox and the letters after it that, read in
order, they turn what the miner has into what it was told last:
`Ends(q, kind, now, then)` is "the last message of this kind in q has the value
`then`, and if there is none, `now` is it already". It also says that no first
job comes before a difficulty (`InTime`), so `Settled`: with no extranonce and
no job under way, what the miner has is complete and of one connection.
`OfferHears`, `SwitchHears` and
`SubscribeHears` prove `MailOK` of the pool's steps, `MailTail`, `MailAfter` and
`MailDeliver` of the miner's.

### 5.4 `MinersProofs`

`TypeCorrect` (`MinersTypeOK`), `MinersFollow` (`FollowsWork`) and `MinersKnow`
(`KnownUntilOld`) of `MinersSpec`, so of what the run `miners` checks, with the
driver chosen at the start; and `WorkFollowed`, `ProxyTypeCorrect` and
`WorksKnown` of the serial drivers and of the proxy by themselves. `MinersIInv`
is the invariant of the one that runs, and that the other has never begun.

`FollowsWork` is about a driver at rest only; the invariant says, of every
state, that a driver which nothing will make build another work (`Idle`) has the
newest work as `lastJob` or in its mailbox as the last `Job` (`Follows`). Each
handler either leaves something that is not idle behind it (a CancelWork, a
StartWork, a retry) or takes the last `Job`. Two more facts are needed: a
GridSeed has neither StartWork nor `Job` messages (`Direct`), and before its
golden nonce a driver stashes nothing but CancelWork (`OnlyCancels`): a
DualMiner starts because of what is stashed, and an empty stash must mean that
no work came yet.

The types of a driver are not inductive because of `stale`, which is a count of
nonces that are under way: a read takes it down by as many as it brings, and
stays a natural number only if no more nonces are stale than there are on the
line, in the answer of a read and in the buffer. `Reading` says so, and that one
read at most is answered and not taken in yet (`Reads`). `NothingBeforeJob` keeps works and shares typed.

For the proxy, the types need `NothingWithoutJob` (before the first job there is
no work, no solution and no nonce) and `ToldOfWorks` (the actor is told only of
works that exist), and `Registered` is `KnownUntilOld` for the answers that have
not reached a client yet as well.

### 5.5 `StratumSessionProofs`

For any set of submitters, any `MaxId` that has room for the two requests of
`beginSession`, and any stream (`SessionAssumption`): `TypeCorrect`,
`AnswersAreVerdicts` (`AnswerIsVerdict`), `CallbacksMatched`
(`CallbacksMatchRequests`) and `JobsHaveExtranonce` (`JobNeedsExtranonce`).

All of them are about `Texts`, the lines in the mailbox, the buffer and the
stream, in this order, wherever TCP cuts them. `Framed` is what makes that a
sequence of lines: texts and newlines take turns from the start of the buffer.
`ReceivedParts` then says what a chunk of any length does, and `ReceivedThins`
that it at most takes texts away (when the session is over), never reorders or
doubles one. The rest of the invariant is

* `Matching`: an id has one callback, request or response at most, and the
  response is the one its callback waits for, unless the id is in `crossed`; and
  whatever the id, a callback that waits has its id in use. That
  `crossed` grows exactly when an id is taken while `InUse` is what keeps the
  rest free of it;
* `Sharing`: a share waits under the id it was sent under (`sent`), and its
  verdict is the one under way, ids in `crossed` apart;
* `Subscribing`: before the extranonce `mining.subscribe` is the only request,
  no id has been crossed, and work from the server comes behind its response.

### 5.6 `BXMDeviceProofs`

For any number of chips, pieces of an answer, jobs and timeouts
(`BXMAssumption`): `TypeCorrect`, `CallbacksSafe` (`NeverFails`), `OwnAnswers`
(`OwnAnswer`), `BusyFreed` (`BusyIsFreed`) and `NextWorksFresh`
(`NextWorkFresh`). The argument is about what can be on the stack and in the
mailbox:

* `Shape`: the stack is one of receive, the first transfer on receive, a work
  transfer on normal, or what is left of initialisation's transfers on normal.
  With it the stack's bound, and that works are cancelled only between two
  transfers, so that the callback finds its chip in the maps (`WorksOK`).
* `StartsOK`: each transfer is begun once, by a `StartTransfer` that is nowhere
  else; `AnswersOK`: what was read or will be is at most one answer and the
  present transfer's, and nothing while its `StartTransfer` still waits. So at
  the end of a transfer nothing is left on the wire for the one below it.
* `FreedOK` is `BusyIsFreed` in terms of who holds the wake-up, and `FreshOK` is
  `NextWorkFresh`. Both need that a message is not lost or doubled on its way
  from mailbox to stash and back: `AddedMail`, `TakenMail`, `MovedMail` and
  `UnstashedMail` say so of the four things a step does to the two sequences.

### 5.7 `UsbHotSwapProofs`

For any finite set of devices, any identities and any bounds
(`HotSwapAssumption`): `TypeCorrect` and `WorkersMapped` (`LiveWorkersMapped`).
The manager starts a worker only for a device that `workerMap` has none for, and
takes one off the map only with the worker stopped or dead. Two more facts make
this inductive: a worker that asks, lives, or is named by a `Terminated` in the
mailbox was started once, for a device (`Known`, `Box`), and a manager that is
restarting has stopped all its workers (`NoneWhileRestarting`), so that the
empty map it comes back with has forgotten none.

Then, of the devices that did not come back too soon (`Dev \ returned`):
`StopsHitTheirOwn` (`StopHitsNobodyElse`), `FailedLeftAlone`
(`FailedNotRetried`) and `ClashByUnplug` (`ClashNeedsUnplug`). None of them
assumes `Timely`: resets may come at any moment, polls may overlap, and any
number of identities may match. Their invariant `Orderly` is

* `ActorsKnown` and `RefsKnown`: a worker's device actor is the one `UsbHost` has
  for that device, or gone; one device actor belongs to one device; the stop of
  a device is due only while the worker that asked for it is remembered, which is
  where 500 ms are less than 1.2 s;
* `ForgottenDown`: a worker that the manager has forgotten but that is not gone
  yet belongs to a device that is `Down`: unplugged, off the bus list, no actor
  of it up. So a late stop finds the worker's own actor or a dead one, and a
  taken name belongs to a device that is not there;
* `BoxFine`: what a message in the manager's mailbox stands for is still so when
  it is handled (`May`: a `CreateDeviceIdentity` waits there while other
  messages are handled, and its identity must still not have failed), and which
  messages may come behind which (`Before`, `Paired`: no connect behind a
  disconnect, no second creation with an identity behind the report of its
  failure, and behind that report at once the worker's `Terminated`).

Two polls may overlap and create twice: the second creation then finds
`workerMap` taken, or, after a disconnect between the two, a device that is
`Down`, which is the clash that `hotswap_drivers` shows.

### 5.8 `BFLSCProofs`

For every `maxWorkQueue`, every larger capacity of the device and any bounds
(`BFLSCAssumption`): `TypeCorrect`, `AnswersInStep` (`InStep`) and
`CountsJustified` (`NeverOvercounts`). The types need that the temperature
readings to come, which may be stashed several times, are counted (`Readings`),
and that the device asks for a payload only while it has room (`Sane`).

`InTurn` is the rest of the invariant, for as long as no answer is late:

* `Conversation`: what the lines under way answer, in each behaviour and phase.
  The hard case is a flush for overheating between `QJOB` and its payload: the
  device takes it for the payload and refuses the real one, so its answer never
  comes; the count is then zero, and stays so until `submitWork` gives up.
* `Counted`: `workSubmitted` is at most what the device has, has reported or is
  being sent. A work that a full device refuses is counted no more by `Sending`,
  and then the device holds `Capacity >= MaxWork` works.

Answers are never stashed, so stash and unstashed messages count for nothing.
`HandleDriver`, `HandleDevice`, `HandleMail` and `HandleTurn` say what a handler
does, wherever its message came from; the actions that receive follow from them.
`CountOf` and the lemmas on it are how lines are counted.

### 5.9 Only model-checked

Liveness (`AnsweredOrDown`, `WorkArrives`, `HighestPriorityWins`,
`VerdictArrives`, `MinedInTheEnd`, `StaleWorkFlushed`, `KeptBusy`,
`TransfersEnd`, `KeepsSending`, `StaleSharesEnd`, `NoncesRead`), which is out of
the prover's reach. Every other property of a passing run is proved.

## 6. Where code and its words disagree

1. `UsbDevice.scala:48,52`: the assertion "Internal USB queue flooded!" also
   runs when a request is taken *out* of a full queue, and stops the device
   (`device_flood`).
2. `StratumPool.scala:75,87,172`, `Stratum.scala:140`: "just close, let pool
   restart": a session's restart ends in its own `postStop` stop, and the pool,
   which does not watch its sessions, stays on the dead connection although a
   backup works (`pool_failover`).
3. `StratumPool.scala:93,194`: "round robin that prio group" stops the session
   it leaves and keeps its reference, so the pool comes back to a session that
   no longer exists (`pool_rotation`).
4. `USBManager.scala:168,196`: an `IdentityReset` polls beside a poll that is
   queued; both create a worker for a device that has none; and the device is
   unplugged. If its `DeviceDisconnected` comes between the two creations, the
   second finds the name of the worker that is still stopping, `actorOf` throws,
   and the restarted manager has no drivers (`hotswap_drivers`). With
   `MaxPlugs = 3` and `MaxInbox = 0` the same run finds the other way there,
   without a reset: a device is plugged in again under the same `DeviceId`, so at
   the same bus address (`Usb.scala:34`), while its old worker stops.

`UsbDeviceActor.scala:112` says of the delayed stop of a device "make sure this
is shorter than the reset time in USBManager". It is, and `StopHitsNobodyElse`
holds (5.7) of a device that did not come back too soon. One that is back at
once under the same id gets around the delay, because `DeviceDisconnected` takes
the worker off `workerMap` without one; whether the comment means to cover that
is not clear, so it is not listed.

## 7. Not modelled

* **BitMain**: not finished; it builds and sends packets and has no handler for
  results. Nothing in the repository says what its device answers.
* **UART control**: constant control transfers to FTDI, PL2303, CP210x chips.
* **VirtualUsbHost**: merges the device lists of several hosts. `virtual-host`
  is off by default and the other hosts would be on other machines.
* **NanoFury's MCP2210 transport**: a second transport under the work handling
  that `BXMDevice` models; its SPI chip is not in the repository.
* **DualMiner's parent in dual mode** forwards messages to its two facets;
  set-up, voltages and frequencies of GridSeed and Icarus are bytes to chips.
* **Metrics, CGMiner API, web UI**: they show what passes by; nothing reads it
  back. d3.js is vendored.
* **Algorithms**: CRC5, CRC16, endian swaps, merkle roots, targets and
  frequency tables have no state; SHA-256, SHA-256d and scrypt are standard
  cryptography.
* Left out of properties, though modelled: a GridSeed whose last read was short
  or empty, or whose last packet was malformed, reads nothing until the next job
  (`missed` in `NoncesRead`), and a session's answer to an id in `crossed` may go
  to another submitter: nothing in the repository says otherwise; a
  WorkTimeout that is in the mailbox when a nonce resets its timer stops the
  miner all the same, which is modelled but, for the same reason, in no
  property; whether a chip of a BitFury computes on the work its driver checks
  nonces against.
