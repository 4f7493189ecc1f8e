----------------------------- MODULE UsbHotSwap -----------------------------
(***************************************************************************)
(* Hot-swapping of USB devices: the UsbHost actor (io/usb/UsbHost.scala)   *)
(* that notices devices coming and going and owns the device actors, the   *)
(* UsbDeviceManager (usb/USBManager.scala) that starts a worker for every  *)
(* device by trying identities, and the workers (usb/UsbDeviceActor.scala  *)
(* and the part of drivers/AbstractMiner.scala that decides their life).   *)
(* A device actor is reduced to its life: UsbDevice has the rest.          *)
(***************************************************************************)
EXTENDS Naturals, Sequences, SequencesExt

CONSTANTS
  Dev,         \* Usb.DeviceIds; a device plugged in again may keep its own
  Identity,    \* USBIdentities of all drivers
  Matching,    \* the identities whose vendor and product match each device
  Actual,      \* what each device really is
  Slots,       \* bound: worker incarnations at a time
  Refs,        \* bound: device actor incarnations at a time
  MaxPlugs,    \* bound: devices plugged in or out
  MaxFails,    \* bound: failures of device actors, of opens and of workers
  MaxInbox,    \* bound: messages waiting for the manager when identities reset
  Timely       \* whether the delays are long enough for what they wait for;
               \* only MinedInTheEnd needs that

None == 0
Slot == 1..Slots
Ref == 1..Refs

(* The identities that the 45 s between two resets are enough to try on a    *)
(* device: detection takes 10 s at most, and the next worker starts 1.2 s    *)
(* after.  No driver table has more than three for one vendor and product.   *)
Tries == 4

ASSUME HotSwapAssumption ==
  /\ IsFiniteSet(Dev)
  /\ Matching \in [Dev -> SUBSET Identity]
  /\ \A d \in Dev : Actual[d] \in Matching[d]
  /\ None \notin Identity
  /\ {Slots, Refs, MaxPlugs, MaxFails, MaxInbox} \subseteq Nat
  /\ Timely \in BOOLEAN
  /\ Timely => \A d \in Dev : IsFiniteSet(Matching[d]) /\ Cardinality(Matching[d]) <= Tries

VARIABLES
  plugged, plugs, fails,          \* the hardware, and how often it changed or failed
  deviceSet, deviceActors,        \* UsbHost
  device,                         \* the device actors' incarnations
  worker,                         \* the workers' incarnations
  stopDue,                        \* workers whose postStop's stop of the device is due
  devices, workerMap, failedIdentity, lastSuccessful, pollQueued, \* the manager
  mode,                           \* "up"; "restarting"; "bare", its drivers lost
  asking,                         \* workers whose Connect UsbHost has not handled
  inbox,                          \* the manager's mailbox
  returned,                       \* history: devices that came back too soon
  waiting                         \* if Timely: the search of these began before or at the last
                                  \* reset, and has not ended

hardware == <<plugged, plugs, returned, fails>>
host == <<deviceSet, deviceActors>>
manager == <<devices, workerMap, failedIdentity, lastSuccessful, pollQueued, mode, waiting>>
vars == <<hardware, host, device, worker, stopDue, asking, manager, inbox>>

Idle == [dev |-> None, ident |-> None, state |-> "gone", ref |-> None, inited |-> FALSE]
Poll == [msg |-> "poll"]
Create(d, i) == [msg |-> "create", dev |-> d, ident |-> i]
Failed(d, i) == [msg |-> "failed", dev |-> d, ident |-> i]
Dead(w) == [msg |-> "terminated", worker |-> w]
Message ==
  {Poll} \cup {Create(d, i) : d \in Dev, i \in Identity}
    \cup {Failed(d, i) : d \in Dev, i \in Identity} \cup {Dead(w) : w \in Slot}
    \cup [msg : {"connected", "disconnected"}, dev : Dev]

(* A worker is "connecting" until UsbHost answers its Connect, "answered"    *)
(* until it reads the answer, "detecting" until finishedInit, then "mining"; *)
(* "stopping" until postStop; "dead" until the manager has read its          *)
(* Terminated, "removing" until RemoveRef.                                   *)
Live == {"connecting", "answered", "detecting", "mining"}
WorkerState == Live \cup {"gone", "stopping", "dead", "removing"}

(* Types of the state of host, manager and workers, and what is in the       *)
(* manager's mailbox.                                                        *)
TypeOK ==
  /\ plugged \subseteq Dev /\ plugs \in 0..MaxPlugs /\ fails \in 0..MaxFails
  /\ deviceSet \subseteq Dev
  /\ deviceActors \in [Dev -> Ref \cup {None}]
  /\ device \in [Ref -> {"gone", "up", "stopping", "dead"}]
  /\ worker \in [Slot -> [dev : Dev \cup {None}, ident : Identity \cup {None},
                          state : WorkerState, ref : Ref \cup {None}, inited : BOOLEAN]]
  /\ stopDue \subseteq Slot /\ asking \subseteq Slot
  /\ devices \subseteq Dev
  /\ workerMap \in [Dev -> Slot \cup {None}]
  /\ failedIdentity \in [Dev -> SUBSET Identity]
  /\ lastSuccessful \in [Dev -> Identity \cup {None}]
  /\ pollQueued \in BOOLEAN /\ mode \in {"up", "restarting", "bare"}
  /\ inbox \in Seq(Message)
  /\ returned \subseteq Dev /\ waiting \subseteq Dev

Init ==
  /\ plugged = {} /\ plugs = 0 /\ fails = 0
  /\ deviceSet = {} /\ deviceActors = [d \in Dev |-> None]
  /\ device = [g \in Ref |-> "gone"]
  /\ worker = [w \in Slot |-> Idle]
  /\ stopDue = {} /\ asking = {}
  /\ devices = {} /\ workerMap = [d \in Dev |-> None]
  /\ failedIdentity = [d \in Dev |-> {}]
  /\ lastSuccessful = [d \in Dev |-> None]
  /\ pollQueued = FALSE /\ mode = "up"
  /\ inbox = <<>>
  /\ returned = {} /\ waiting = {}
-----------------------------------------------------------------------------
(* The hardware. *)

(* Nothing is known of d, or under way, from when it was plugged in before.  *)
NothingLeft(d) ==
  /\ d \notin deviceSet \cup devices /\ deviceActors[d] = None
  /\ \A w \in Slot : worker[w].dev = d => worker[w].state = "gone"
  /\ \A n \in DOMAIN inbox : inbox[n].msg \notin {"poll", "terminated"} => inbox[n].dev # d

(* A device is plugged in or out.  It may come back at any moment under the  *)
(* DeviceId it had: too soon if something of its last time is left.          *)
Plug(d) ==
  /\ plugs < MaxPlugs
  /\ plugs' = plugs + 1
  /\ plugged' = IF d \in plugged THEN plugged \ {d} ELSE plugged \cup {d}
  /\ returned' = IF d \in plugged \/ NothingLeft(d) THEN returned ELSE returned \cup {d}
  /\ UNCHANGED <<fails, host, device, worker, stopDue, asking, manager, inbox>>

(* A transfer fails and the device actor stops itself; always so, sooner or  *)
(* later, when its device is gone.                                           *)
DeviceActorStops(d) ==
  /\ deviceActors[d] # None /\ device[deviceActors[d]] = "up"
  /\ device' = [device EXCEPT ![deviceActors[d]] = "stopping"]
  /\ UNCHANGED <<plugged, plugs, returned, host, worker, stopDue, asking, manager, inbox>>

DeviceGone(d) == d \notin plugged /\ fails' = fails /\ DeviceActorStops(d)

DeviceFails(d) ==
  /\ d \in plugged /\ fails < MaxFails /\ fails' = fails + 1
  /\ DeviceActorStops(d)

DeviceStops(g) ==
  /\ device[g] = "stopping"
  /\ device' = [device EXCEPT ![g] = "dead"]
  /\ UNCHANGED <<hardware, host, worker, stopDue, asking, manager, inbox>>
-----------------------------------------------------------------------------
(* UsbHost. *)

(* UpdateDeviceList: new devices are announced before lost ones.             *)
UpdateDeviceList ==
  LET removed == deviceSet \ plugged
      added == plugged \ deviceSet
      Events(m, S) == LET s == SetToSeq(S) IN [n \in 1..Len(s) |-> [msg |-> m, dev |-> s[n]]]
  IN
  /\ deviceSet' = plugged
  /\ device' = [g \in Ref |->
       IF device[g] = "up" /\ \E d \in removed : deviceActors[d] = g
       THEN "stopping" ELSE device[g]]
  /\ inbox' = inbox \o Events("connected", added) \o Events("disconnected", removed)
  /\ UNCHANGED <<hardware, deviceActors, worker, stopDue, asking, manager>>

(* No worker holds g and no stop of it is due. *)
Reusable(g) ==
  /\ device[g] = "gone"
  /\ \A w \in Slot : worker[w].ref # g

(* Connected(id, g) to worker w; a dead letter if w has been stopped. *)
Answer(w, g) ==
  worker' = IF worker[w].state # "connecting" THEN worker
            ELSE [worker EXCEPT ![w].ref = g, ![w].state = "answered"]

(* Connect from worker w: the actor the device has, even one that is on its  *)
(* way down; else a new one, if the device is there and can be opened.       *)
Connect(w) ==
  LET d == worker[w].dev IN
  /\ w \in asking
  /\ asking' = asking \ {w}
  /\ \/ /\ deviceActors[d] # None
        /\ Answer(w, deviceActors[d])
        /\ UNCHANGED <<fails, deviceActors, device>>
     \/ /\ deviceActors[d] = None
        /\ \/ d \notin plugged /\ fails' = fails
           \/ d \in plugged /\ fails < MaxFails /\ fails' = fails + 1
        /\ Answer(w, None)
        /\ UNCHANGED <<deviceActors, device>>
     \/ /\ deviceActors[d] = None /\ d \in plugged
        /\ \E g \in Ref :
             /\ Reusable(g) /\ \A h \in 1 .. g - 1 : ~ Reusable(h)
             /\ deviceActors' = [deviceActors EXCEPT ![d] = g]
             /\ device' = [device EXCEPT ![g] = "up"]
             /\ Answer(w, g)
        /\ fails' = fails
  /\ UNCHANGED <<plugged, plugs, returned, deviceSet, stopDue, manager, inbox>>

(* Terminated of a device actor. *)
DeviceTerminated(g) ==
  /\ device[g] = "dead"
  /\ device' = [device EXCEPT ![g] = "gone"]
  /\ deviceActors' = [d \in Dev |-> IF deviceActors[d] = g THEN None ELSE deviceActors[d]]
  /\ UNCHANGED <<hardware, deviceSet, worker, stopDue, asking, manager, inbox>>
-----------------------------------------------------------------------------
(* The workers. *)

(* The live workers among S are stopped; one that has not read its answer    *)
(* has no device.                                                            *)
Stopped(S) ==
  [w \in Slot |->
     IF w \in S /\ worker[w].state \in Live
     THEN [worker[w] EXCEPT !.state = "stopping",
                            !.ref = IF worker[w].state = "answered" THEN None ELSE @]
     ELSE worker[w]]

(* Connected(id, Some(ref)), or Connected(id, None), which throws. *)
ReadAnswer(w) ==
  /\ worker[w].state = "answered"
  /\ worker' = IF worker[w].ref = None THEN Stopped({w})
               ELSE [worker EXCEPT ![w].state = "detecting"]
  /\ UNCHANGED <<hardware, host, device, stopDue, asking, manager, inbox>>

(* Detection succeeds: finishedInit. *)
Detect(w) ==
  /\ worker[w].state = "detecting"
  /\ device[worker[w].ref] = "up"
  /\ worker[w].ident = Actual[worker[w].dev]
  /\ worker' = [worker EXCEPT ![w].state = "mining", ![w].inited = TRUE]
  /\ waiting' = waiting \ {worker[w].dev}
  /\ UNCHANGED <<hardware, host, device, stopDue, asking, devices, workerMap, failedIdentity,
                 lastSuccessful, pollQueued, mode, inbox>>

(* failDetect, or the initialisation timeout, of the wrong identity. *)
WrongIdentity(w) ==
  /\ worker[w].state = "detecting"
  /\ worker[w].ident # Actual[worker[w].dev]
  /\ worker' = Stopped({w})
  /\ UNCHANGED <<hardware, host, device, stopDue, asking, manager, inbox>>

(* Timeouts and exceptions of the right one. *)
WorkerFails(w) ==
  /\ worker[w].state \in {"detecting", "mining"}
  /\ worker[w].ident = Actual[worker[w].dev]
  /\ fails < MaxFails /\ fails' = fails + 1
  /\ worker' = Stopped({w})
  /\ UNCHANGED <<plugged, plugs, returned, host, device, stopDue, asking, manager, inbox>>

(* Terminated of the device it watches is unhandled: DeathPactException. *)
LosesDevice(w) ==
  /\ worker[w].state \in {"detecting", "mining"}
  /\ device[worker[w].ref] \in {"dead", "gone"}
  /\ worker' = Stopped({w})
  /\ UNCHANGED <<hardware, host, device, stopDue, asking, manager, inbox>>

(* postStop: stop the device in 500 ms; if initialisation never finished,    *)
(* tell the manager FailedIdentify (as failDetect has just done).  Then the  *)
(* manager is sent Terminated.  A worker that never read its answer has no   *)
(* device to stop.                                                           *)
PostStop(w) ==
  /\ worker[w].state = "stopping"
  /\ worker' = [worker EXCEPT ![w].state = "dead"]
  /\ stopDue' = IF worker[w].ref = None THEN stopDue ELSE stopDue \cup {w}
  /\ inbox' = IF worker[w].inited THEN Append(inbox, Dead(w))
              ELSE inbox \o <<Failed(worker[w].dev, worker[w].ident), Dead(w)>>
  /\ UNCHANGED <<hardware, host, device, asking, manager>>

StopDevice(w) ==
  /\ w \in stopDue
  /\ stopDue' = stopDue \ {w}
  /\ device' = [device EXCEPT ![worker[w].ref] = IF @ = "up" THEN "stopping" ELSE @]
  /\ UNCHANGED <<hardware, host, worker, asking, manager, inbox>>
-----------------------------------------------------------------------------
(* The manager. *)

(* It takes the next message, of kind m, from its mailbox. *)
Takes(m) == mode # "restarting" /\ inbox # <<>> /\ Head(inbox).msg = m

(* maybePoll, with the messages box in the mailbox. *)
MaybePoll(box) ==
  /\ pollQueued' = TRUE
  /\ inbox' = IF pollQueued THEN box ELSE Append(box, Poll)

DeviceConnected ==
  /\ Takes("connected")
  /\ devices' = devices \cup {Head(inbox).dev}
  /\ MaybePoll(Tail(inbox))
  /\ UNCHANGED <<hardware, host, device, worker, stopDue, asking, workerMap, failedIdentity,
                 lastSuccessful, mode, waiting>>

(* The manager forgets d. *)
Forget(d) ==
  /\ workerMap' = [workerMap EXCEPT ![d] = None]
  /\ devices' = devices \ {d}
  /\ lastSuccessful' = [lastSuccessful EXCEPT ![d] = None]
  /\ failedIdentity' = [failedIdentity EXCEPT ![d] = {}]
  /\ waiting' = waiting \ {d}

(* Slip: the worker is forgotten, not stopped. *)
DeviceDisconnectedNoStop ==
  /\ Takes("disconnected")
  /\ inbox' = Tail(inbox)
  /\ Forget(Head(inbox).dev)
  /\ UNCHANGED <<hardware, host, device, worker, stopDue, asking, pollQueued, mode>>

DeviceDisconnected ==
  /\ Takes("disconnected")
  /\ inbox' = Tail(inbox)
  /\ worker' = Stopped({workerMap[Head(inbox).dev]})
  /\ Forget(Head(inbox).dev)
  /\ UNCHANGED <<hardware, host, device, stopDue, asking, pollQueued, mode>>

(* Slip: the identity tried last is noted, not the one of the message.       *)
FailedIdentifyLast ==
  LET d == Head(inbox).dev IN
  /\ Takes("failed")
  /\ failedIdentity' = [failedIdentity EXCEPT ![d] = @ \cup {lastSuccessful[d]}]
  /\ lastSuccessful' = [lastSuccessful EXCEPT ![d] = None]
  /\ MaybePoll(Tail(inbox))
  /\ UNCHANGED <<hardware, host, device, worker, stopDue, asking, devices, workerMap, mode,
                 waiting>>

FailedIdentify ==
  LET d == Head(inbox).dev IN
  /\ Takes("failed")
  /\ failedIdentity' = [failedIdentity EXCEPT ![d] = @ \cup {Head(inbox).ident}]
  /\ lastSuccessful' = [lastSuccessful EXCEPT ![d] = None]
  /\ MaybePoll(Tail(inbox))
  /\ UNCHANGED <<hardware, host, device, worker, stopDue, asking, devices, workerMap, mode,
                 waiting>>

(* Slip: the Terminated of a worker is ignored. *)
WorkerTerminatedIgnored ==
  /\ Takes("terminated")
  /\ inbox' = Tail(inbox)
  /\ UNCHANGED <<hardware, host, device, worker, stopDue, asking, manager>>

(* Terminated of a worker: RemoveRef comes 1.2 s later. *)
WorkerTerminated ==
  /\ Takes("terminated")
  /\ inbox' = Tail(inbox)
  /\ worker' = [worker EXCEPT ![Head(inbox).worker].state = "removing"]
  /\ UNCHANGED <<hardware, host, device, stopDue, asking, manager>>

Gone(w) ==
  [worker EXCEPT ![w].state = "gone", ![w].ref = None, ![w].inited = FALSE]

DeviceDying(w) ==
  worker[w].ref # None /\ device[worker[w].ref] \in {"stopping", "dead"}

(* Slip: the worker is removed at once, as if removeDelay were zero. *)
RemoveRefAtOnce(w) ==
  /\ worker[w].state = "removing" /\ mode # "restarting"
  /\ workerMap' = [d \in Dev |-> IF workerMap[d] = w THEN None ELSE workerMap[d]]
  /\ worker' = IF w \in stopDue THEN worker ELSE Gone(w)
  /\ MaybePoll(inbox)
  /\ UNCHANGED <<hardware, host, device, stopDue, asking, devices, failedIdentity,
                 lastSuccessful, mode, waiting>>

(* RemoveRef: removeDelay (1.2 s) is longer than the 500 ms after which the  *)
(* worker's postStop stops the device, so that has happened.  If Timely, the *)
(* 700 ms left are enough for the device actor to be gone from UsbHost.      *)
RemoveRef(w) ==
  /\ worker[w].state = "removing" /\ w \notin stopDue /\ mode # "restarting"
  /\ Timely => ~ DeviceDying(w)
  /\ workerMap' = [d \in Dev |-> IF workerMap[d] = w THEN None ELSE workerMap[d]]
  /\ worker' = Gone(w)
  /\ MaybePoll(inbox)
  /\ UNCHANGED <<hardware, host, device, stopDue, asking, devices, failedIdentity,
                 lastSuccessful, mode, waiting>>

(* Slip: identities that failed are tried again at once. *)
CandidatesWithFailed(d) == Matching[d]

(* The identities PollDevices may try for d. *)
Candidates(d) == Matching[d] \ failedIdentity[d]

(* A device that the manager knows has no worker that mines. *)
Searching(d) == ~ \E w \in Slot : workerMap[d] = w /\ worker[w].state = "mining"

(* IdentityReset: its PollDevices does not set pollQueued.  If Timely, every *)
(* identity of a device whose search was on at the last reset has been tried *)
(* since.                                                                    *)
IdentityReset ==
  /\ mode # "restarting" /\ Len(inbox) < MaxInbox
  /\ \A d \in waiting : Candidates(d) = {}
  /\ waiting' = {d \in devices : Timely /\ Searching(d)}
  /\ failedIdentity' = [d \in Dev |-> {}]
  /\ inbox' = Append(inbox, Poll)
  /\ UNCHANGED <<hardware, host, device, worker, stopDue, asking, devices, workerMap,
                 lastSuccessful, pollQueued, mode>>

(* The ones it may try first: the last successful identity if it can. *)
FirstChoices(d) ==
  IF lastSuccessful[d] \in Candidates(d) THEN {lastSuccessful[d]} ELSE Candidates(d)

PollDevices ==
  LET wanted == {d \in devices : mode = "up" /\ workerMap[d] = None /\ Candidates(d) # {}} IN
  /\ Takes("poll")
  /\ pollQueued' = FALSE
  /\ \E pick \in [wanted -> Identity] :
       /\ \A d \in wanted : pick[d] \in FirstChoices(d)
       /\ inbox' = Tail(inbox) \o SetToSeq({Create(d, pick[d]) : d \in wanted})
  /\ UNCHANGED <<hardware, host, device, worker, stopDue, asking, devices, workerMap,
                 failedIdentity, lastSuccessful, mode, waiting>>

(* The name of a worker is its identity's and the port's. *)
NameTaken(d, i) ==
  \E w \in Slot :
    worker[w].dev = d /\ worker[w].ident = i /\ worker[w].state \in Live \cup {"stopping"}

(* An incarnation not in use. *)
Free(w) == worker[w].state = "gone" /\ w \notin asking

(* CreateDeviceIdentity: start the worker. *)
StartWorker(d, i) ==
  /\ \E w \in Slot :
       /\ Free(w) /\ \A v \in 1 .. w - 1 : ~ Free(v)
       /\ worker' = [worker EXCEPT ![w] =
            [dev |-> d, ident |-> i, state |-> "connecting", ref |-> None, inited |-> FALSE]]
       /\ asking' = asking \cup {w}
       /\ workerMap' = [workerMap EXCEPT ![d] = w]
  /\ lastSuccessful' = [lastSuccessful EXCEPT ![d] = i]
  /\ UNCHANGED <<devices, failedIdentity, pollQueued, mode, waiting>>

(* actorOf throws InvalidActorNameException in the manager's own receive, so *)
(* its guardian restarts it: its workers are stopped first ...               *)
NameClash ==
  /\ worker' = Stopped(Slot)
  /\ mode' = "restarting"
  /\ UNCHANGED <<devices, workerMap, failedIdentity, lastSuccessful, pollQueued, waiting, asking>>

(* Slip: it is not looked up whether the device has a worker already. *)
CreateDeviceIdentityAgain(d, i) ==
  \/ ~ NameTaken(d, i) /\ StartWorker(d, i)
  \/ NameTaken(d, i) /\ NameClash

CreateDeviceIdentity(d, i) ==
  \/ workerMap[d] # None /\ UNCHANGED <<worker, asking, manager>>
  \/ workerMap[d] = None /\ ~ NameTaken(d, i) /\ StartWorker(d, i)
  \/ workerMap[d] = None /\ NameTaken(d, i) /\ NameClash

ReceiveCreate ==
  /\ Takes("create")
  /\ inbox' = Tail(inbox)
  /\ CreateDeviceIdentity(Head(inbox).dev, Head(inbox).ident)
  /\ UNCHANGED <<hardware, host, device, stopDue>>

(* ... and when they have stopped its fields are reset: nobody sends it      *)
(* AddDriver and AddStratumRef again.                                        *)
RestartManager ==
  /\ mode = "restarting" /\ \A w \in Slot : worker[w].state # "stopping"
  /\ mode' = "bare"
  /\ devices' = {} /\ workerMap' = [d \in Dev |-> None]
  /\ failedIdentity' = [d \in Dev |-> {}]
  /\ lastSuccessful' = [d \in Dev |-> None]
  /\ pollQueued' = FALSE /\ waiting' = {}
  /\ UNCHANGED <<hardware, host, device, worker, stopDue, asking, inbox>>

ManagerStep ==
  \/ DeviceConnected \/ DeviceDisconnected \/ FailedIdentify \/ WorkerTerminated
  \/ PollDevices \/ ReceiveCreate \/ RestartManager

WorkerStep(w) ==
  \/ ReadAnswer(w) \/ Detect(w) \/ WrongIdentity(w) \/ LosesDevice(w)
  \/ PostStop(w)

Next ==
  \/ \E d \in Dev : Plug(d) \/ DeviceGone(d) \/ DeviceFails(d)
  \/ \E g \in Ref : DeviceStops(g) \/ DeviceTerminated(g)
  \/ UpdateDeviceList
  \/ \E w \in Slot : Connect(w) \/ WorkerStep(w) \/ WorkerFails(w) \/ StopDevice(w)
  \/ ManagerStep \/ IdentityReset \/ \E w \in Slot : RemoveRef(w)

Spec == Init /\ [][Next]_vars

(* The device list is polled every second and the identities are reset       *)
(* every 45; mailboxes are delivered, timers fire and actors stop when told  *)
(* to; a worker on the right device detects it and any other gives up, 10    *)
(* seconds after its start at the latest.                                    *)
Fairness ==
  /\ \A d \in Dev : WF_vars(DeviceGone(d))
  /\ \A g \in Ref : WF_vars(DeviceStops(g)) /\ WF_vars(DeviceTerminated(g))
  /\ WF_vars(UpdateDeviceList)
  /\ \A w \in Slot :
       WF_vars(Connect(w)) /\ WF_vars(WorkerStep(w)) /\ WF_vars(StopDevice(w))
         /\ WF_vars(RemoveRef(w))
  /\ WF_vars(ManagerStep) /\ WF_vars(IdentityReset)

FairSpec == Spec /\ Fairness
-----------------------------------------------------------------------------
(* Every worker that lives is the one the manager has for its device, so     *)
(* there is one for a device at most, and none that the manager forgot: the  *)
(* polls that IdentityReset, Terminated and DeviceConnected cause may        *)
(* overlap, and workers come and go between a poll and its                   *)
(* CreateDeviceIdentity.                                                     *)
LiveWorkersMapped ==
  \A w \in Slot : worker[w].state \in Live => workerMap[worker[w].dev] = w

(* An identity that failed on a device is not tried there again before the  *)
(* next IdentityReset, whatever polls overlap, as long as the device never   *)
(* came back too soon.                                                       *)
FailedNotRetried ==
  [][\A d \in Dev \ returned :
       workerMap'[d] # None /\ workerMap'[d] # workerMap[d]
         => worker'[workerMap'[d]].ident \notin failedIdentity[d]]_vars

(* "make sure this is shorter than the reset time in USBManager"             *)
(* (UsbDeviceActor.scala, postStop): the stop of its device that a stopped   *)
(* worker left behind never hits a device actor that the next worker uses,   *)
(* unless the device came back too soon.                                     *)
StopHitsNobodyElse ==
  mode = "up" =>
    \A w \in stopDue : \A v \in Slot \ {w} :
      /\ worker[w].dev \notin returned
      /\ worker[v].state \in {"detecting", "mining"} /\ worker[v].ref = worker[w].ref
      => device[worker[w].ref] # "up"

(* The manager trips over the name of a worker, and is restarted, only       *)
(* through a device that is not there or came back too soon: the polls of    *)
(* resets, failures and connects may overlap, and a worker may still be      *)
(* stopping when the next one is to start.                                   *)
ClashNeedsUnplug ==
  [][mode = "up" /\ mode' # "up"
       => \E d \in Dev : Head(inbox).dev = d /\ (d \notin plugged \/ d \in returned)]_vars

(* As long as the manager keeps its drivers, a device that stays plugged in  *)
(* is mined in the end and for good, however its actor and its workers       *)
(* failed before and however soon it came back, as long as they fail         *)
(* finitely often.                                                           *)
MinedInTheEnd ==
  [](mode = "up") =>
    \A d \in Dev :
      <>[](d \in plugged) =>
        <>[](\E w \in Slot : worker[w].dev = d /\ worker[w].state = "mining")

(* "a durable hot-swap system that is tolerant of device failures"           *)
(* (README.md): the manager never loses the drivers it was given.            *)
KeepsDrivers == mode # "bare"
=============================================================================
