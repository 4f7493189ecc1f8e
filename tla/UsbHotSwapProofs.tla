--------------------------- MODULE UsbHotSwapProofs ---------------------------
(***************************************************************************)
(* Proofs about UsbHotSwap, for any finite set of devices, any identities  *)
(* and any bounds: its types, and that every worker that lives is the one  *)
(* the manager has for its device.  Then, of the devices that never came   *)
(* back too soon: that a late stop of a device hits nobody else, that a    *)
(* failed identity is left alone, and that none of them, while it is       *)
(* there, makes the manager trip over a name.                              *)
(***************************************************************************)
EXTENDS UsbHotSwap, FiniteSetTheorems, SequenceTheorems, TLAPS

WorkerType ==
  [dev : Dev \cup {None}, ident : Identity \cup {None},
   state : WorkerState, ref : Ref \cup {None}, inited : BOOLEAN]

(* A manager that is restarting has stopped its workers. *)
NoneWhileRestarting == mode = "restarting" => \A w \in Slot : worker[w].state \notin Live

(* A worker was started once, for a device; others send and ask nothing.     *)
Started(w) == worker[w].dev \in Dev /\ worker[w].ident \in Identity
Known == \A w \in Slot : w \in asking \/ worker[w].state # "gone" => Started(w)
GoodMessage == {m \in Message : m.msg = "terminated" => Started(m.worker)}
Box == inbox \in Seq(GoodMessage)

IInv == TypeOK /\ LiveWorkersMapped /\ NoneWhileRestarting /\ Known /\ Box

LEMMA Constants ==
  /\ IsFiniteSet(Dev) /\ None \notin Slot /\ None \notin Ref
  /\ MaxPlugs \in Nat /\ MaxFails \in Nat
  /\ \A w \in Slot, g \in Ref : w # None /\ g # None
BY HotSwapAssumption DEF None, Slot, Ref

LEMMA States ==
  /\ Live \subseteq WorkerState /\ {"gone", "stopping", "dead", "removing"} \subseteq WorkerState
  /\ {"connecting", "answered", "detecting", "mining"} = Live
  /\ {"gone", "stopping", "dead", "removing"} \cap Live = {}
BY DEF Live, WorkerState

LEMMA Messages ==
  /\ \A m \in Message :
       /\ m.msg = "create" => m.dev \in Dev /\ m.ident \in Identity
       /\ m.msg = "failed" => m.dev \in Dev /\ m.ident \in Identity
       /\ m.msg = "terminated" => m.worker \in Slot
       /\ m.msg \in {"connected", "disconnected"} => m.dev \in Dev
  /\ Poll \in Message
  /\ \A d \in Dev, i \in Identity : Create(d, i) \in Message /\ Failed(d, i) \in Message
  /\ \A w \in Slot : Dead(w) \in Message
  /\ \A d \in Dev : [msg |-> "connected", dev |-> d] \in Message
                     /\ [msg |-> "disconnected", dev |-> d] \in Message
<1>1. \A m \in Message :
       /\ m.msg = "create" => m.dev \in Dev /\ m.ident \in Identity
       /\ m.msg = "failed" => m.dev \in Dev /\ m.ident \in Identity
       /\ m.msg = "terminated" => m.worker \in Slot
       /\ m.msg \in {"connected", "disconnected"} => m.dev \in Dev
  <2> SUFFICES ASSUME NEW m \in Message
               PROVE  /\ m.msg = "create" => m.dev \in Dev /\ m.ident \in Identity
                      /\ m.msg = "failed" => m.dev \in Dev /\ m.ident \in Identity
                      /\ m.msg = "terminated" => m.worker \in Slot
                      /\ m.msg \in {"connected", "disconnected"} => m.dev \in Dev
    OBVIOUS
  <2>1. CASE m = Poll
    BY <2>1 DEF Poll
  <2>2. CASE \E d \in Dev, i \in Identity : m = Create(d, i)
    BY <2>2 DEF Create
  <2>3. CASE \E d \in Dev, i \in Identity : m = Failed(d, i)
    BY <2>3 DEF Failed
  <2>4. CASE \E w \in Slot : m = Dead(w)
    BY <2>4 DEF Dead
  <2>5. CASE m \in [msg : {"connected", "disconnected"}, dev : Dev]
    BY <2>5
  <2> QED
    BY <2>1, <2>2, <2>3, <2>4, <2>5 DEF Message
<1>2. /\ Poll \in Message
      /\ \A d \in Dev, i \in Identity : Create(d, i) \in Message /\ Failed(d, i) \in Message
      /\ \A w \in Slot : Dead(w) \in Message
  BY DEF Message
<1>3. \A d \in Dev : [msg |-> "connected", dev |-> d] \in Message
                      /\ [msg |-> "disconnected", dev |-> d] \in Message
  BY DEF Message
<1> QED
  BY <1>1, <1>2, <1>3

(* SetToSeq gives a sequence of the set's elements, each once. *)
LEMMA SetToSeqElements ==
  ASSUME NEW S, IsFiniteSet(S)
  PROVE  /\ SetToSeq(S) \in Seq(S)
         /\ \A m, n \in 1..Len(SetToSeq(S)) : SetToSeq(S)[m] = SetToSeq(S)[n] => m = n
<1>1. Cardinality(S) \in Nat /\ ExistsBijection(1..Cardinality(S), S)
  BY FS_CardinalityType
<1>2. \E f \in [1..Cardinality(S) -> S] : IsInjective(f)
  BY <1>1 DEF ExistsBijection, Bijection, Injection
<1>3. SetToSeq(S) \in [1..Cardinality(S) -> S] /\ IsInjective(SetToSeq(S))
  BY <1>2 DEF SetToSeq
<1>4. SetToSeq(S) \in Seq(S) /\ 1..Len(SetToSeq(S)) = 1..Cardinality(S)
  BY <1>1, <1>3
<1> QED
  BY <1>3, <1>4 DEF IsInjective

(* Stopping workers leaves their devices and stops no other.                 *)
LEMMA StoppedWorkers ==
  ASSUME worker \in [Slot -> WorkerType], NEW S
  PROVE  /\ Stopped(S) \in [Slot -> WorkerType]
         /\ \A w \in Slot : /\ Stopped(S)[w].dev = worker[w].dev
                            /\ Stopped(S)[w].ident = worker[w].ident
                            /\ Stopped(S)[w].state \in Live => worker[w].state \in Live /\ w \notin S
<1>1. \A w \in Slot : worker[w] \in WorkerType
  OBVIOUS
<1>2. ASSUME NEW w \in Slot
      PROVE  /\ Stopped(S)[w] \in WorkerType /\ Stopped(S)[w].dev = worker[w].dev
             /\ Stopped(S)[w].ident = worker[w].ident
             /\ Stopped(S)[w].state \in Live => worker[w].state \in Live /\ w \notin S
  <2>1. CASE w \in S /\ worker[w].state \in Live
    <3>1. Stopped(S)[w] = [worker[w] EXCEPT !.state = "stopping",
                             !.ref = IF worker[w].state = "answered" THEN None ELSE @]
      BY <2>1 DEF Stopped
    <3> QED
      BY <1>1, <3>1, States DEF WorkerType
  <2>2. CASE ~ (w \in S /\ worker[w].state \in Live)
    <3>1. Stopped(S)[w] = worker[w]
      BY <2>2 DEF Stopped
    <3> QED
      BY <1>1, <2>2, <3>1
  <2> QED
    BY <2>1, <2>2
<1>3. Stopped(S) = [w \in Slot |-> Stopped(S)[w]]
  BY DEF Stopped
<1> QED
  BY <1>2, <1>3

(* A step that starts no worker and lets none live that did not; the manager *)
(* still has those that do.                                                  *)
WorkersKept ==
  /\ worker' \in [Slot -> WorkerType]
  /\ \A w \in Slot :
       /\ worker'[w].dev = worker[w].dev /\ worker'[w].ident = worker[w].ident
       /\ worker'[w].state \in Live => worker[w].state \in Live
       /\ worker'[w].state # "gone" => Started(w)

LEMMA LivesKept ==
  ASSUME IInv, WorkersKept, mode' = mode, asking' \subseteq asking,
         \A w \in Slot : worker'[w].state \in Live =>
           workerMap'[worker[w].dev] = workerMap[worker[w].dev]
  PROVE  LiveWorkersMapped' /\ NoneWhileRestarting' /\ Known'
BY DEF IInv, LiveWorkersMapped, NoneWhileRestarting, WorkersKept, Known, Started

(* Messages stay good. *)
LEMMA BoxKept ==
  ASSUME \A w \in Slot : Started(w) => Started(w)'
  PROVE  Seq(GoodMessage) \subseteq Seq(GoodMessage')
<1>1. GoodMessage \subseteq GoodMessage'
  BY Messages DEF GoodMessage
<1> QED
  BY <1>1, SeqMonotonic

LEMMA WorkersSame ==
  ASSUME IInv, worker' = worker
  PROVE  WorkersKept /\ (\A w \in Slot : Started(w) => Started(w)')
         /\ Seq(GoodMessage) \subseteq Seq(GoodMessage')
<1>1. \A w \in Slot : Started(w) => Started(w)'
  BY DEF Started
<1>2. WorkersKept
  BY DEF WorkersKept, IInv, TypeOK, WorkerType, Known
<1> QED
  BY <1>1, <1>2, BoxKept

LEMMA StartedKept ==
  ASSUME WorkersKept
  PROVE  (\A w \in Slot : Started(w) => Started(w)')
         /\ Seq(GoodMessage) \subseteq Seq(GoodMessage')
<1>1. \A w \in Slot : Started(w) => Started(w)'
  BY DEF WorkersKept, Started
<1> QED
  BY <1>1, BoxKept

LEMMA StoppedKept ==
  ASSUME IInv, NEW S, worker' = Stopped(S)
  PROVE  WorkersKept
<1>1. worker \in [Slot -> WorkerType]
  BY DEF IInv, TypeOK, WorkerType
<1>2. \A w \in Slot : worker'[w].state # "gone" => worker[w].state # "gone"
  BY <1>1, States DEF Stopped
<1> QED
  BY <1>1, <1>2, StoppedWorkers DEF WorkersKept, IInv, Known

LEMMA BoxTyped ==
  ASSUME Box
  PROVE  inbox \in Seq(Message)
<1>1. GoodMessage \subseteq Message
  BY DEF GoodMessage
<1> QED
  BY <1>1, SeqMonotonic DEF Box

LEMMA BoxTypedNext ==
  ASSUME Box'
  PROVE  inbox' \in Seq(Message)
<1>1. GoodMessage' \subseteq Message
  BY DEF GoodMessage
<1> QED
  BY <1>1, SeqMonotonic DEF Box

(* Every message but Terminated is good. *)
LEMMA GoodMessages ==
  /\ Poll \in GoodMessage
  /\ \A d \in Dev, i \in Identity : Create(d, i) \in GoodMessage /\ Failed(d, i) \in GoodMessage
  /\ \A w \in Slot : Started(w) => Dead(w) \in GoodMessage
  /\ \A d \in Dev : [msg |-> "connected", dev |-> d] \in GoodMessage
                     /\ [msg |-> "disconnected", dev |-> d] \in GoodMessage
<1>1. Poll.msg = "poll" /\ \A d, i : Create(d, i).msg = "create" /\ Failed(d, i).msg = "failed"
  BY DEF Poll, Create, Failed
<1>2. \A w : Dead(w).worker = w
  BY DEF Dead
<1> QED
  BY <1>1, <1>2, Messages DEF GoodMessage
-----------------------------------------------------------------------------
LEMMA InitIInv ==
  ASSUME Init
  PROVE  IInv
<1>1. Idle \in WorkerType /\ Idle.state = "gone"
  BY States DEF Idle, WorkerType
<1>2. /\ worker \in [Slot -> WorkerType]
      /\ deviceActors \in [Dev -> Ref \cup {None}]
      /\ workerMap \in [Dev -> Slot \cup {None}]
      /\ lastSuccessful \in [Dev -> Identity \cup {None}]
      /\ failedIdentity \in [Dev -> SUBSET Identity]
      /\ device \in [Ref -> {"gone", "up", "stopping", "dead"}]
  BY <1>1 DEF Init
<1>3. inbox \in Seq(Message) /\ inbox \in Seq(GoodMessage)
  BY DEF Init
<1>4. TypeOK
  <2>1. plugs \in 0..MaxPlugs /\ fails \in 0..MaxFails
    BY Constants DEF Init
  <2>2. /\ plugged \subseteq Dev /\ deviceSet \subseteq Dev /\ devices \subseteq Dev
        /\ stopDue \subseteq Slot /\ asking \subseteq Slot
        /\ pollQueued \in BOOLEAN /\ mode \in {"up", "restarting", "bare"}
        /\ returned \subseteq Dev /\ waiting \subseteq Dev
    BY DEF Init
  <2> QED
    BY <1>2, <1>3, <2>1, <2>2, Zenon DEF TypeOK, WorkerType
<1>5. \A w \in Slot : worker[w].state = "gone" /\ w \notin asking
  BY <1>1 DEF Init
<1> QED
  BY <1>3, <1>4, <1>5, States DEF IInv, LiveWorkersMapped, NoneWhileRestarting, Known, Box

(* Steps of the hardware and of device actors. *)
LEMMA DeviceSteps ==
  ASSUME IInv,
         \/ \E d \in Dev : Plug(d) \/ DeviceGone(d) \/ DeviceFails(d)
         \/ \E g \in Ref : DeviceStops(g) \/ DeviceTerminated(g)
         \/ \E w \in Slot : StopDevice(w)
  PROVE  IInv'
<1>1. TypeOK
  BY DEF IInv
<1>2. UNCHANGED <<worker, workerMap, mode, asking, inbox>>
  BY DEF Plug, DeviceGone, DeviceFails, DeviceActorStops, DeviceStops, DeviceTerminated, StopDevice,
         manager
<1>3. LiveWorkersMapped' /\ NoneWhileRestarting' /\ Known' /\ Box'
  BY <1>2, WorkersSame, LivesKept DEF IInv, Box
<1>4. TypeOK'
  <2>1. ASSUME NEW d \in Dev, Plug(d) PROVE TypeOK'
    BY <1>1, <2>1, Constants DEF TypeOK, Plug, host, manager
  <2>2. ASSUME NEW d \in Dev, DeviceGone(d) \/ DeviceFails(d) PROVE TypeOK'
    BY <1>1, <2>2, Constants DEF TypeOK, DeviceGone, DeviceFails, DeviceActorStops, host, manager
  <2>3. ASSUME NEW g \in Ref, DeviceStops(g) PROVE TypeOK'
    BY <1>1, <2>3 DEF TypeOK, DeviceStops, hardware, host, manager
  <2>4. ASSUME NEW g \in Ref, DeviceTerminated(g) PROVE TypeOK'
    BY <1>1, <2>4 DEF TypeOK, DeviceTerminated, hardware, manager
  <2>5. ASSUME NEW w \in Slot, StopDevice(w) PROVE TypeOK'
    BY <1>1, <2>5 DEF TypeOK, StopDevice, hardware, host, manager
  <2> QED
    BY <2>1, <2>2, <2>3, <2>4, <2>5
<1> QED
  BY <1>3, <1>4 DEF IInv

LEMMA UpdateDeviceListStep ==
  ASSUME IInv, UpdateDeviceList
  PROVE  IInv'
<1>1. TypeOK /\ Box
  BY DEF IInv
<1> DEFINE Events(m, S) ==
             LET s == SetToSeq(S) IN [n \in 1..Len(s) |-> [msg |-> m, dev |-> s[n]]]
           added == plugged \ deviceSet
           removed == deviceSet \ plugged
<1>3. \A m \in {"connected", "disconnected"}, S \in SUBSET Dev : Events(m, S) \in Seq(GoodMessage)
  <2> SUFFICES ASSUME NEW m \in {"connected", "disconnected"}, NEW S \in SUBSET Dev
               PROVE  Events(m, S) \in Seq(GoodMessage)
    OBVIOUS
  <2>1. SetToSeq(S) \in Seq(S)
    BY Constants, FS_Subset, SetToSeqElements
  <2>2. \A n \in 1..Len(SetToSeq(S)) : [msg |-> m, dev |-> SetToSeq(S)[n]] \in GoodMessage
    BY <2>1, ElementOfSeq, GoodMessages
  <2> QED
    BY <2>1, <2>2
<1>4. /\ Events("connected", added) \in Seq(GoodMessage)
      /\ Events("disconnected", removed) \in Seq(GoodMessage)
  BY <1>1, <1>3 DEF TypeOK
<1>5. inbox' = inbox \o Events("connected", added) \o Events("disconnected", removed)
  BY DEF UpdateDeviceList
<1> HIDE DEF Events
<1>6. inbox' \in Seq(GoodMessage)
  BY <1>1, <1>4, <1>5, ConcatProperties DEF Box
<1>7. Box'
  BY <1>6, WorkersSame DEF Box, UpdateDeviceList
<1>8. LiveWorkersMapped' /\ NoneWhileRestarting' /\ Known'
  BY WorkersSame, LivesKept DEF UpdateDeviceList, manager
<1>9. TypeOK'
  BY <1>1, <1>7, BoxTypedNext DEF TypeOK, UpdateDeviceList, hardware, manager
<1> QED
  BY <1>7, <1>8, <1>9 DEF IInv

(* Steps of UsbHost and the workers that only change a worker's state. *)
LEMMA ConnectStep ==
  ASSUME IInv, NEW w \in Slot, Connect(w)
  PROVE  IInv'
<1>1. TypeOK /\ Known /\ Box /\ worker[w].dev \in Dev /\ asking' \subseteq asking
  BY DEF IInv, Known, Started, Connect
<1>2. worker \in [Slot -> WorkerType]
  BY <1>1 DEF TypeOK, WorkerType
<1>3. PICK g \in Ref \cup {None} : Answer(w, g)
  BY <1>1 DEF Connect, TypeOK
<1>4. WorkersKept
  <2>1. CASE worker[w].state # "connecting"
    BY <1>3, <2>1, WorkersSame DEF Answer
  <2>2. CASE worker[w].state = "connecting"
    <3>1. worker' = [worker EXCEPT ![w].ref = g, ![w].state = "answered"]
      BY <1>3, <2>2 DEF Answer
    <3>2. worker[w] \in WorkerType /\ [worker[w] EXCEPT !.ref = g, !.state = "answered"] \in WorkerType
      BY <1>2, States DEF WorkerType
    <3>3. worker' = [worker EXCEPT ![w] = [worker[w] EXCEPT !.ref = g, !.state = "answered"]]
      BY <1>2, <3>1
    <3>4. /\ worker' \in [Slot -> WorkerType]
          /\ \A v \in Slot \ {w} : worker'[v] = worker[v]
          /\ worker'[w] = [worker[w] EXCEPT !.ref = g, !.state = "answered"]
      BY <1>2, <3>2, <3>3
    <3>5. /\ worker'[w].dev = worker[w].dev /\ worker'[w].ident = worker[w].ident
          /\ worker[w].state \in Live /\ Started(w)
      BY <1>1, <2>2, <3>2, <3>4, States DEF WorkerType, Known
    <3> QED
      BY <1>1, <3>4, <3>5 DEF WorkersKept, Known
  <2> QED
    BY <2>1, <2>2
<1>5. LiveWorkersMapped' /\ NoneWhileRestarting' /\ Known'
  BY <1>1, <1>4, LivesKept DEF Connect, manager
<1>6. Box'
  BY <1>1, <1>4, StartedKept DEF Box, Connect
<1>7. deviceActors' \in [Dev -> Ref \cup {None}]
      /\ device' \in [Ref -> {"gone", "up", "stopping", "dead"}] /\ fails' \in 0..MaxFails
  <2>1. fails' \in 0..MaxFails
    BY <1>1, Constants DEF Connect, TypeOK
  <2>2. deviceActors' = deviceActors
        \/ \E h \in Ref : deviceActors' = [deviceActors EXCEPT ![worker[w].dev] = h]
    BY DEF Connect
  <2>3. device' = device \/ \E h \in Ref : device' = [device EXCEPT ![h] = "up"]
    BY DEF Connect
  <2>4. device' \in [Ref -> {"gone", "up", "stopping", "dead"}]
    BY <1>1, <2>3 DEF TypeOK
  <2>5. deviceActors' \in [Dev -> Ref \cup {None}]
    BY <1>1, <2>2 DEF TypeOK
  <2> QED
    BY <2>1, <2>4, <2>5
<1>8. TypeOK'
  BY <1>1, <1>4, <1>6, <1>7, BoxTypedNext DEF TypeOK, WorkersKept, WorkerType, Connect, manager
<1> QED
  BY <1>5, <1>6, <1>8 DEF IInv

(* One worker changes its state. *)
LEMMA OneWorker ==
  ASSUME IInv, NEW w \in Slot, Started(w), NEW s \in WorkerState, NEW r \in Ref \cup {None},
         NEW b \in BOOLEAN, s \in Live => worker[w].state \in Live,
         worker' = [worker EXCEPT ![w] = [worker[w] EXCEPT !.state = s, !.ref = r, !.inited = b]]
  PROVE  WorkersKept
<1>1. worker \in [Slot -> WorkerType] /\ worker[w] \in WorkerType
  BY DEF IInv, TypeOK, WorkerType
<1> DEFINE x == [worker[w] EXCEPT !.state = s, !.ref = r, !.inited = b]
<1>2. /\ x \in WorkerType
      /\ x.dev = worker[w].dev /\ x.ident = worker[w].ident /\ x.state = s
  BY <1>1 DEF WorkerType
<1> HIDE DEF x
<1>3. /\ worker' \in [Slot -> WorkerType] /\ worker'[w] = x
      /\ \A v \in Slot \ {w} : worker'[v] = worker[v]
  BY <1>1, <1>2 DEF x
<1> QED
  BY <1>2, <1>3 DEF WorkersKept, IInv, Known

LEMMA WorkerSteps ==
  ASSUME IInv, NEW w \in Slot,
         \/ ReadAnswer(w) \/ Detect(w) \/ WrongIdentity(w) \/ LosesDevice(w)
         \/ WorkerFails(w)
  PROVE  IInv'
<1>1. TypeOK /\ Known /\ Box
  BY DEF IInv
<1>2. worker \in [Slot -> WorkerType] /\ worker[w] \in WorkerType
  BY <1>1 DEF TypeOK, WorkerType
<1>3. worker' = Stopped({w}) \/ (ReadAnswer(w) /\ worker' # Stopped({w})) \/ Detect(w)
  BY DEF WrongIdentity, LosesDevice, WorkerFails
<1>4. WorkersKept
  <2>1. CASE worker' = Stopped({w})
    BY <2>1, StoppedKept
  <2>2. CASE ReadAnswer(w) /\ worker' # Stopped({w})
    <3>1. worker[w].state = "answered" /\ worker' = [worker EXCEPT ![w].state = "detecting"]
      BY <2>2 DEF ReadAnswer
    <3>2. worker' = [worker EXCEPT ![w] = [worker[w] EXCEPT !.state = "detecting",
                                             !.ref = worker[w].ref, !.inited = worker[w].inited]]
      BY <1>2, <3>1 DEF WorkerType
    <3>3. /\ worker[w].ref \in Ref \cup {None} /\ worker[w].inited \in BOOLEAN
          /\ "detecting" \in WorkerState /\ worker[w].state \in Live
      BY <1>2, <3>1, States DEF WorkerType
    <3>4. Started(w)
      BY <1>1, <3>1 DEF Known
    <3> QED
      BY <3>2, <3>3, <3>4, OneWorker
  <2>3. CASE Detect(w)
    <3>1. /\ worker[w].state = "detecting"
          /\ worker' = [worker EXCEPT ![w].state = "mining", ![w].inited = TRUE]
      BY <2>3 DEF Detect
    <3>2. worker' = [worker EXCEPT ![w] = [worker[w] EXCEPT !.state = "mining",
                                             !.ref = worker[w].ref, !.inited = TRUE]]
      BY <1>2, <3>1 DEF WorkerType
    <3>3. /\ worker[w].ref \in Ref \cup {None} /\ TRUE \in BOOLEAN
          /\ "mining" \in WorkerState /\ worker[w].state \in Live
      BY <1>2, <3>1, States DEF WorkerType
    <3>4. Started(w)
      BY <1>1, <3>1 DEF Known
    <3> QED
      BY <3>2, <3>3, <3>4, OneWorker
  <2> QED
    BY <1>3, <2>1, <2>2, <2>3
<1>5. /\ fails' \in 0..MaxFails /\ waiting' \subseteq waiting
      /\ UNCHANGED <<plugged, plugs, returned, host, device, stopDue, asking, inbox>>
      /\ UNCHANGED <<devices, workerMap, failedIdentity, lastSuccessful, pollQueued, mode>>
  BY <1>1, Constants
     DEF TypeOK, ReadAnswer, Detect, WrongIdentity, LosesDevice, WorkerFails, hardware, manager
<1>6. LiveWorkersMapped' /\ NoneWhileRestarting' /\ Known'
  BY <1>4, <1>5, LivesKept
<1>7. Box'
  BY <1>1, <1>4, <1>5, StartedKept DEF Box
<1>8. TypeOK'
  BY <1>1, <1>4, <1>5 DEF TypeOK, WorkersKept, WorkerType, host
<1> QED
  BY <1>6, <1>7, <1>8 DEF IInv

LEMMA PostStopStep ==
  ASSUME IInv, NEW w \in Slot, PostStop(w)
  PROVE  IInv'
<1>1. TypeOK /\ Known /\ Box
  BY DEF IInv
<1>2. worker \in [Slot -> WorkerType] /\ worker[w] \in WorkerType
  BY <1>1 DEF TypeOK, WorkerType
<1>3. worker[w].state = "stopping" /\ Started(w)
  BY <1>1 DEF PostStop, Known
<1>4. WorkersKept
  <2>1. worker' = [worker EXCEPT ![w] = [worker[w] EXCEPT !.state = "dead",
                                           !.ref = worker[w].ref, !.inited = worker[w].inited]]
    BY <1>2 DEF PostStop, WorkerType
  <2>2. /\ worker[w].ref \in Ref \cup {None} /\ worker[w].inited \in BOOLEAN
        /\ "dead" \in WorkerState /\ "dead" \notin Live
    BY <1>2, States DEF WorkerType
  <2> QED
    BY <1>3, <2>1, <2>2, OneWorker
<1>5. LiveWorkersMapped' /\ NoneWhileRestarting' /\ Known'
  BY <1>4, LivesKept DEF PostStop, manager
<1>6. Box'
  <2>1. /\ Dead(w) \in GoodMessage
        /\ Failed(worker[w].dev, worker[w].ident) \in GoodMessage
    BY <1>3, GoodMessages DEF Started
  <2>2. inbox' \in Seq(GoodMessage)
    BY <1>1, <2>1 DEF Box, PostStop
  <2> QED
    BY <1>4, <2>2, StartedKept DEF Box
<1>7. TypeOK'
  BY <1>1, <1>4, <1>6, BoxTypedNext DEF TypeOK, WorkersKept, WorkerType, PostStop, hardware, host, manager
<1> QED
  BY <1>5, <1>6, <1>7 DEF IInv
-----------------------------------------------------------------------------
(* The message the manager takes. *)
LEMMA Taken ==
  ASSUME Box, inbox # <<>>
  PROVE  /\ Tail(inbox) \in Seq(GoodMessage)
         /\ Head(inbox).msg \in {"create", "failed"} => Head(inbox).dev \in Dev
                                                        /\ Head(inbox).ident \in Identity
         /\ Head(inbox).msg = "terminated" => Head(inbox).worker \in Slot /\ Started(Head(inbox).worker)
         /\ Head(inbox).msg \in {"connected", "disconnected"} => Head(inbox).dev \in Dev
<1>1. Head(inbox) \in GoodMessage /\ Tail(inbox) \in Seq(GoodMessage)
  BY DEF Box
<1> QED
  BY <1>1, Messages DEF GoodMessage

LEMMA Polled ==
  ASSUME NEW box \in Seq(GoodMessage), MaybePoll(box)
  PROVE  inbox' \in Seq(GoodMessage) /\ pollQueued' \in BOOLEAN
BY GoodMessages DEF MaybePoll

(* Steps of the manager that leave the workers alone.                        *)
LEMMA ListSteps ==
  ASSUME IInv, DeviceConnected \/ FailedIdentify \/ IdentityReset
  PROVE  IInv'
<1>1. TypeOK /\ Box
  BY DEF IInv
<1>2. UNCHANGED <<worker, workerMap, mode, asking>>
  BY DEF DeviceConnected, FailedIdentify, IdentityReset
<1>3. inbox' \in Seq(GoodMessage) /\ pollQueued' \in BOOLEAN
  <2>1. CASE DeviceConnected
    BY <1>1, <2>1, Taken, Polled DEF DeviceConnected, Takes
  <2>2. CASE FailedIdentify
    BY <1>1, <2>2, Taken, Polled DEF FailedIdentify, Takes
  <2>3. CASE IdentityReset
    BY <1>1, <2>3, GoodMessages DEF IdentityReset, Box, TypeOK
  <2> QED
    BY <2>1, <2>2, <2>3
<1>4. LiveWorkersMapped' /\ NoneWhileRestarting' /\ Known' /\ Box'
  BY <1>2, <1>3, WorkersSame, LivesKept DEF Box
<1>5. TypeOK'
  <2>1. CASE DeviceConnected
    <3>1. Head(inbox).dev \in Dev
      BY <1>1, <2>1, Taken DEF DeviceConnected, Takes
    <3> QED
      BY <1>1, <1>3, <1>4, <2>1, <3>1, BoxTypedNext DEF TypeOK, DeviceConnected, hardware, host
  <2>2. CASE FailedIdentify
    <3>1. Head(inbox).dev \in Dev /\ Head(inbox).ident \in Identity
      BY <1>1, <2>2, Taken DEF FailedIdentify, Takes
    <3>2. /\ failedIdentity' \in [Dev -> SUBSET Identity]
          /\ lastSuccessful' \in [Dev -> Identity \cup {None}]
      BY <1>1, <2>2, <3>1 DEF TypeOK, FailedIdentify
    <3> QED
      BY <1>1, <1>3, <1>4, <2>2, <3>2, BoxTypedNext DEF TypeOK, FailedIdentify, hardware, host
  <2>3. CASE IdentityReset
    <3>1. failedIdentity' \in [Dev -> SUBSET Identity]
      BY <2>3 DEF IdentityReset
    <3> QED
      BY <1>1, <1>3, <1>4, <2>3, <3>1, BoxTypedNext DEF TypeOK, IdentityReset, hardware, host
  <2> QED
    BY <2>1, <2>2, <2>3
<1> QED
  BY <1>4, <1>5 DEF IInv

LEMMA PollDevicesStep ==
  ASSUME IInv, PollDevices
  PROVE  IInv'
<1>1. TypeOK /\ Box
  BY DEF IInv
<1> DEFINE wanted == {d \in devices : mode = "up" /\ workerMap[d] = None /\ Candidates(d) # {}}
<1>2. PICK pick \in [wanted -> Identity] :
        inbox' = Tail(inbox) \o SetToSeq({Create(d, pick[d]) : d \in wanted})
  BY Zenon DEF PollDevices
<1> DEFINE S == {Create(d, pick[d]) : d \in wanted}
<1>3. IsFiniteSet(S) /\ S \subseteq GoodMessage
  <2>1. wanted \subseteq Dev
    BY <1>1 DEF TypeOK
  <2>2. IsFiniteSet(wanted)
    BY <2>1, Constants, FS_Subset
  <2>3. \A d \in wanted : pick[d] \in Identity
    BY <1>2
  <2> HIDE DEF wanted
  <2>4. S \subseteq GoodMessage
    BY <2>1, <2>3, GoodMessages
  <2> DEFINE f == [d \in wanted |-> Create(d, pick[d])]
  <2>5. f \in Surjection(wanted, S)
    BY DEF Surjection
  <2>6. IsFiniteSet(S)
    BY <2>2, <2>5, FS_Surjection
  <2> QED
    BY <2>4, <2>6
<1> HIDE DEF S
<1>4. SetToSeq(S) \in Seq(GoodMessage)
  BY <1>3, SetToSeqElements, SeqMonotonic
<1>5. inbox' = Tail(inbox) \o SetToSeq(S)
  BY <1>2 DEF S
<1>6. inbox' \in Seq(GoodMessage)
  BY <1>1, <1>4, <1>5, Taken, ConcatProperties DEF PollDevices, Takes
<1>7. LiveWorkersMapped' /\ NoneWhileRestarting' /\ Known' /\ Box'
  BY <1>6, WorkersSame, LivesKept DEF Box, PollDevices
<1>8. TypeOK'
  BY <1>1, <1>7, BoxTypedNext DEF TypeOK, PollDevices, hardware, host
<1> QED
  BY <1>7, <1>8 DEF IInv
-----------------------------------------------------------------------------
(* Steps in which the manager loses a worker.                                *)
LEMMA DeviceDisconnectedStep ==
  ASSUME IInv, DeviceDisconnected
  PROVE  IInv'
<1>1. TypeOK /\ Box /\ LiveWorkersMapped
  BY DEF IInv
<1> DEFINE d == Head(inbox).dev
<1>2. /\ d \in Dev /\ inbox' \in Seq(GoodMessage)
      /\ worker' = Stopped({workerMap[d]}) /\ workerMap' = [workerMap EXCEPT ![d] = None]
      /\ mode' = mode /\ asking' = asking
  BY <1>1, Taken DEF DeviceDisconnected, Takes, Forget
<1> HIDE DEF d
<1>3. WorkersKept
  BY <1>2, StoppedKept
<1>4. \A w \in Slot : worker'[w].state \in Live => worker[w].dev # d
  <2> SUFFICES ASSUME NEW w \in Slot, worker'[w].state \in Live, worker[w].dev = d
               PROVE  FALSE
    OBVIOUS
  <2>1. worker[w].state \in Live /\ w # workerMap[d]
    BY <1>1, <1>2, StoppedWorkers DEF TypeOK, WorkerType
  <2> QED
    BY <1>1, <2>1 DEF LiveWorkersMapped
<1>5. \A w \in Slot : worker'[w].state \in Live =>
        workerMap'[worker[w].dev] = workerMap[worker[w].dev]
  <2> SUFFICES ASSUME NEW w \in Slot, worker'[w].state \in Live
               PROVE  workerMap'[worker[w].dev] = workerMap[worker[w].dev]
    OBVIOUS
  <2>1. worker[w].dev \in Dev /\ worker[w].dev # d
    BY <1>3, <1>4, States DEF WorkersKept, Started
  <2> QED
    BY <1>1, <1>2, <2>1 DEF TypeOK
<1>6. LiveWorkersMapped' /\ NoneWhileRestarting' /\ Known'
  BY <1>2, <1>3, <1>5, LivesKept
<1>7. Box'
  BY <1>2, <1>3, StartedKept DEF Box
<1>8. TypeOK'
  <2>1. /\ workerMap' \in [Dev -> Slot \cup {None}] /\ devices' \subseteq Dev
        /\ lastSuccessful' \in [Dev -> Identity \cup {None}]
        /\ failedIdentity' \in [Dev -> SUBSET Identity] /\ waiting' \subseteq Dev
    BY <1>1 DEF TypeOK, DeviceDisconnected, Forget
  <2> QED
    BY <1>1, <1>3, <1>7, <2>1, BoxTypedNext
       DEF TypeOK, WorkersKept, WorkerType, DeviceDisconnected, hardware, host
<1> QED
  BY <1>6, <1>7, <1>8 DEF IInv

LEMMA WorkerTerminatedStep ==
  ASSUME IInv, WorkerTerminated
  PROVE  IInv'
<1>1. TypeOK /\ Box
  BY DEF IInv
<1> DEFINE w == Head(inbox).worker
<1>2. /\ w \in Slot /\ Started(w) /\ inbox' \in Seq(GoodMessage)
      /\ worker' = [worker EXCEPT ![w].state = "removing"]
  BY <1>1, Taken DEF WorkerTerminated, Takes
<1> HIDE DEF w
<1>3. WorkersKept
  <2>1. worker[w] \in WorkerType
    BY <1>1, <1>2 DEF TypeOK, WorkerType
  <2>2. worker' = [worker EXCEPT ![w] = [worker[w] EXCEPT !.state = "removing",
                                           !.ref = worker[w].ref, !.inited = worker[w].inited]]
    BY <1>2, <2>1 DEF WorkerType
  <2>3. /\ worker[w].ref \in Ref \cup {None} /\ worker[w].inited \in BOOLEAN
        /\ "removing" \in WorkerState /\ "removing" \notin Live
    BY <2>1, States DEF WorkerType
  <2> QED
    BY <1>2, <2>2, <2>3, OneWorker
<1>4. LiveWorkersMapped' /\ NoneWhileRestarting' /\ Known'
  BY <1>3, LivesKept DEF WorkerTerminated, manager
<1>5. Box'
  BY <1>2, <1>3, StartedKept DEF Box
<1>6. TypeOK'
  BY <1>1, <1>3, <1>5, BoxTypedNext
     DEF TypeOK, WorkersKept, WorkerType, WorkerTerminated, hardware, host, manager
<1> QED
  BY <1>4, <1>5, <1>6 DEF IInv

LEMMA RemoveRefStep ==
  ASSUME IInv, NEW w \in Slot, RemoveRef(w)
  PROVE  IInv'
<1>1. TypeOK /\ Box /\ LiveWorkersMapped /\ Known
  BY DEF IInv
<1>2. /\ worker[w].state = "removing" /\ worker' = Gone(w)
      /\ workerMap' = [d \in Dev |-> IF workerMap[d] = w THEN None ELSE workerMap[d]]
  BY DEF RemoveRef
<1>3. /\ WorkersKept /\ worker'[w].state \notin Live
  <2>1. worker \in [Slot -> WorkerType] /\ worker[w] \in WorkerType /\ Started(w)
    BY <1>1, <1>2 DEF TypeOK, WorkerType, Known
  <2>2. worker' = [worker EXCEPT ![w] = [worker[w] EXCEPT !.state = "gone",
                                           !.ref = None, !.inited = FALSE]]
    BY <1>2, <2>1 DEF WorkerType, Gone
  <2>3. "gone" \in WorkerState /\ "gone" \notin Live
    BY States
  <2>4. WorkersKept
    BY <2>1, <2>2, <2>3, OneWorker
  <2>5. worker'[w].state = "gone"
    BY <2>1, <2>2 DEF WorkerType
  <2> QED
    BY <2>3, <2>4, <2>5
<1>4. \A v \in Slot : worker'[v].state \in Live =>
        workerMap'[worker[v].dev] = workerMap[worker[v].dev]
  <2> SUFFICES ASSUME NEW v \in Slot, worker'[v].state \in Live
               PROVE  workerMap'[worker[v].dev] = workerMap[worker[v].dev]
    OBVIOUS
  <2>1. v # w /\ worker[v].dev \in Dev /\ worker[v].state \in Live
    BY <1>3, States DEF WorkersKept, Started
  <2>2. workerMap[worker[v].dev] = v
    BY <1>1, <2>1 DEF LiveWorkersMapped
  <2> QED
    BY <1>2, <2>1, <2>2
<1>5. LiveWorkersMapped' /\ NoneWhileRestarting' /\ Known'
  BY <1>3, <1>4, LivesKept DEF RemoveRef
<1>6. inbox' \in Seq(GoodMessage) /\ pollQueued' \in BOOLEAN
  BY <1>1, Polled DEF RemoveRef, Box
<1>7. Box'
  BY <1>3, <1>6, StartedKept DEF Box
<1>8. TypeOK'
  <2>1. workerMap' \in [Dev -> Slot \cup {None}]
    BY <1>1, <1>2 DEF TypeOK
  <2> QED
    BY <1>1, <1>3, <1>6, <1>7, <2>1, BoxTypedNext
       DEF TypeOK, WorkersKept, WorkerType, RemoveRef, hardware, host
<1> QED
  BY <1>5, <1>7, <1>8 DEF IInv

LEMMA RestartManagerStep ==
  ASSUME IInv, RestartManager
  PROVE  IInv'
<1>1. TypeOK /\ Box /\ \A w \in Slot : worker[w].state \notin Live
  BY DEF IInv, NoneWhileRestarting, RestartManager
<1>2. worker' = worker /\ asking' = asking /\ inbox' = inbox /\ mode' = "bare"
  BY DEF RestartManager
<1>3. LiveWorkersMapped' /\ NoneWhileRestarting' /\ Known' /\ Box'
  BY <1>1, <1>2, WorkersSame DEF IInv, LiveWorkersMapped, NoneWhileRestarting, Known, Started, Box
<1>4. TypeOK'
  <2>1. /\ workerMap' \in [Dev -> Slot \cup {None}] /\ devices' \subseteq Dev
        /\ lastSuccessful' \in [Dev -> Identity \cup {None}]
        /\ failedIdentity' \in [Dev -> SUBSET Identity] /\ pollQueued' \in BOOLEAN
        /\ waiting' \subseteq Dev
    BY DEF RestartManager
  <2> QED
    BY <1>1, <1>2, <2>1 DEF TypeOK, RestartManager, hardware, host
<1> QED
  BY <1>3, <1>4 DEF IInv
-----------------------------------------------------------------------------
(* CreateDeviceIdentity: a device that the manager has no worker for has no  *)
(* worker that lives.                                                        *)
LEMMA StartWorkerStep ==
  ASSUME IInv, NEW d \in Dev, NEW i \in Identity, workerMap[d] = None, StartWorker(d, i),
         mode # "restarting", inbox' \in Seq(GoodMessage),
         UNCHANGED <<hardware, host, device, stopDue>>
  PROVE  IInv'
<1>1. TypeOK /\ LiveWorkersMapped /\ Known
  BY DEF IInv
<1>2. PICK w \in Slot :
        /\ Free(w)
        /\ worker' = [worker EXCEPT ![w] =
             [dev |-> d, ident |-> i, state |-> "connecting", ref |-> None, inited |-> FALSE]]
        /\ asking' = asking \cup {w}
        /\ workerMap' = [workerMap EXCEPT ![d] = w]
        /\ lastSuccessful' = [lastSuccessful EXCEPT ![d] = i]
        /\ UNCHANGED <<devices, failedIdentity, pollQueued, mode, waiting>>
  BY DEF StartWorker
<1> DEFINE x == [dev |-> d, ident |-> i, state |-> "connecting", ref |-> None, inited |-> FALSE]
<1>3. x \in WorkerType /\ x.dev = d /\ x.ident = i
  BY States DEF WorkerType
<1> HIDE DEF x
<1>4. /\ worker' \in [Slot -> WorkerType] /\ worker'[w] = x
      /\ \A v \in Slot \ {w} : worker'[v] = worker[v]
  BY <1>1, <1>2, <1>3 DEF TypeOK, WorkerType, x
<1>5. workerMap' \in [Dev -> Slot \cup {None}] /\ workerMap'[d] = w
      /\ \A e \in Dev \ {d} : workerMap'[e] = workerMap[e]
  BY <1>1, <1>2 DEF TypeOK
<1>6. LiveWorkersMapped'
  <2> SUFFICES ASSUME NEW v \in Slot, worker'[v].state \in Live
               PROVE  workerMap'[worker'[v].dev] = v
    BY DEF LiveWorkersMapped
  <2>1. CASE v = w
    BY <1>3, <1>4, <1>5, <2>1
  <2>2. CASE v # w
    <3>1. worker'[v] = worker[v] /\ worker[v].state \in Live /\ worker[v].dev \in Dev
      BY <1>1, <1>4, <2>2, States DEF Known, Started
    <3>2. workerMap[worker[v].dev] = v
      BY <1>1, <3>1 DEF LiveWorkersMapped
    <3>3. worker[v].dev # d
      BY <3>2, Constants
    <3> QED
      BY <1>5, <3>1, <3>2, <3>3
  <2> QED
    BY <2>1, <2>2
<1>7. \A v \in Slot : Started(v) => Started(v)'
  BY <1>3, <1>4 DEF Started
<1>8. Known'
  <2> SUFFICES ASSUME NEW v \in Slot, v \in asking' \/ worker'[v].state # "gone"
               PROVE  Started(v)'
    BY DEF Known
  <2> QED
    BY <1>1, <1>2, <1>3, <1>4, <1>7 DEF Known, Started
<1>9. Box' /\ NoneWhileRestarting'
  BY <1>2, <1>7, BoxKept DEF Box, NoneWhileRestarting
<1>10. TypeOK'
  <2>1. lastSuccessful' \in [Dev -> Identity \cup {None}] /\ asking' \subseteq Slot
    BY <1>1, <1>2 DEF TypeOK
  <2> QED
    BY <1>1, <1>2, <1>4, <1>5, <1>9, <2>1, BoxTypedNext DEF TypeOK, WorkerType, hardware, host
<1> QED
  BY <1>6, <1>8, <1>9, <1>10 DEF IInv

LEMMA ReceiveCreateStep ==
  ASSUME IInv, ReceiveCreate
  PROVE  IInv'
<1>1. TypeOK /\ Box /\ LiveWorkersMapped
  BY DEF IInv
<1> DEFINE d == Head(inbox).dev
           i == Head(inbox).ident
<1>2. /\ d \in Dev /\ i \in Identity /\ inbox' \in Seq(GoodMessage)
      /\ CreateDeviceIdentity(d, i) /\ mode # "restarting"
      /\ UNCHANGED <<hardware, host, device, stopDue>>
  BY <1>1, Taken DEF ReceiveCreate, Takes
<1> HIDE DEF d, i
<1>3. CASE UNCHANGED <<worker, asking, manager>>
  <2>1. LiveWorkersMapped' /\ NoneWhileRestarting' /\ Known' /\ Box'
    BY <1>2, <1>3, WorkersSame, LivesKept DEF Box, manager
  <2>2. TypeOK'
    BY <1>1, <1>2, <1>3, <2>1, BoxTypedNext DEF TypeOK, hardware, host, manager
  <2> QED
    BY <2>1, <2>2 DEF IInv
<1>4. CASE workerMap[d] = None /\ StartWorker(d, i)
  BY <1>2, <1>4, StartWorkerStep
<1>5. CASE NameClash
  <2>1. WorkersKept
    BY <1>5, StoppedKept DEF NameClash
  <2>2. \A w \in Slot : worker'[w].state \notin Live
    BY <1>1, <1>5, StoppedWorkers DEF NameClash, TypeOK, WorkerType
  <2>3. LiveWorkersMapped' /\ NoneWhileRestarting' /\ Known'
    BY <2>1, <2>2, <1>5 DEF LiveWorkersMapped, NoneWhileRestarting, Known, WorkersKept, Started,
                            NameClash, IInv
  <2>4. Box'
    BY <1>2, <2>1, StartedKept DEF Box
  <2>5. TypeOK'
    BY <1>1, <1>2, <1>5, <2>1, <2>4, BoxTypedNext
       DEF TypeOK, WorkersKept, WorkerType, NameClash, hardware, host
  <2> QED
    BY <2>3, <2>4, <2>5 DEF IInv
<1> QED
  BY <1>2, <1>3, <1>4, <1>5 DEF CreateDeviceIdentity

LEMMA StutterStep ==
  ASSUME IInv, UNCHANGED vars
  PROVE  IInv'
<1>1. LiveWorkersMapped' /\ NoneWhileRestarting' /\ Known' /\ Box'
  BY WorkersSame, LivesKept DEF vars, manager, IInv, Box
<1>2. TypeOK'
  BY DEF IInv, TypeOK, vars, hardware, host, manager
<1> QED
  BY <1>1, <1>2 DEF IInv

LEMMA NextIInv ==
  ASSUME IInv, [Next]_vars
  PROVE  IInv'
<1>1. CASE \/ \E d \in Dev : Plug(d) \/ DeviceGone(d) \/ DeviceFails(d)
           \/ \E g \in Ref : DeviceStops(g) \/ DeviceTerminated(g)
           \/ \E w \in Slot : StopDevice(w)
  BY <1>1, DeviceSteps
<1>2. CASE UpdateDeviceList
  BY <1>2, UpdateDeviceListStep
<1>3. CASE \E w \in Slot : Connect(w) \/ WorkerStep(w) \/ WorkerFails(w)
  BY <1>3, ConnectStep, WorkerSteps, PostStopStep DEF WorkerStep
<1>4. CASE ManagerStep
  BY <1>4, ListSteps, DeviceDisconnectedStep, WorkerTerminatedStep, PollDevicesStep,
     ReceiveCreateStep, RestartManagerStep DEF ManagerStep
<1>5. CASE IdentityReset
  BY <1>5, ListSteps
<1>6. CASE \E w \in Slot : RemoveRef(w)
  BY <1>6, RemoveRefStep
<1>7. CASE UNCHANGED vars
  BY <1>7, StutterStep
<1> QED
  BY <1>1, <1>2, <1>3, <1>4, <1>5, <1>6, <1>7 DEF Next

LEMMA Inductive == Spec => []IInv
<1>1. Init => IInv
  BY InitIInv
<1>2. IInv /\ [Next]_vars => IInv'
  BY NextIInv
<1> QED
  BY <1>1, <1>2, PTL DEF Spec

(* Host, manager and workers have their types, and the manager's mailbox     *)
(* holds nothing it does not know.                                           *)
THEOREM TypeCorrect == Spec => []TypeOK
<1>1. IInv => TypeOK
  BY DEF IInv
<1> QED
  BY <1>1, Inductive, PTL

(* Every worker that lives is the one the manager has for its device,        *)
(* whatever the delays: one device never has two workers.                    *)
THEOREM WorkersMapped == Spec => []LiveWorkersMapped
<1>1. IInv => LiveWorkersMapped
  BY DEF IInv
<1> QED
  BY <1>1, Inductive, PTL
-----------------------------------------------------------------------------
(***************************************************************************)
(* From here on: what holds of a device that never came back too soon, as  *)
(* long as the manager is up.                                              *)
(***************************************************************************)
Steady == Dev \ returned

(* d is not there, UsbHost knows it, and no actor of it is up.               *)
Down(d) ==
  /\ d \notin plugged /\ d \notin deviceSet
  /\ deviceActors[d] # None => device[deviceActors[d]] # "up"

(* The manager has forgotten a worker of d that is not gone yet.             *)
Forgets(d) ==
  \E w \in Slot : worker[w].dev = d /\ worker[w].state # "gone" /\ workerMap[d] # w

(* The device actor a worker was given is the one UsbHost has for its        *)
(* device, or gone; no two devices have the same.                            *)
ActorsKnown ==
  /\ \A w \in Slot : worker[w].ref # None /\ device[worker[w].ref] # "gone"
       => deviceActors[worker[w].dev] = worker[w].ref
  /\ \A d \in Dev : deviceActors[d] # None => device[deviceActors[d]] # "gone"
  /\ \A d, e \in Dev : deviceActors[d] = deviceActors[e] /\ deviceActors[d] # None => d = e

(* Who uses a device has it, who is gone has none, and the stop of a device  *)
(* is due as long as the worker that asked for it is remembered, at most.    *)
RefsKnown ==
  /\ \A w \in Slot : worker[w].state \in {"detecting", "mining"} => worker[w].ref # None
  /\ \A w \in stopDue : worker[w].state \in {"dead", "removing"} /\ worker[w].ref # None
  /\ \A w \in Slot : worker[w].state = "gone" => worker[w].ref = None

(* A worker is forgotten only with its device, and that stays away meanwhile. *)
ForgottenDown ==
  mode = "up" => \A d \in Steady : Forgets(d) => Down(d) /\ d \notin devices

(* What a message in the manager's mailbox stands for is still so.           *)
May(x) ==
  /\ x.msg = "disconnected" => Down(x.dev) \/ x.dev \in returned
  /\ x.msg = "create" => x.ident \notin failedIdentity[x.dev] \/ x.dev \in returned
  /\ x.msg = "connected" /\ mode = "up" => ~ Forgets(x.dev) \/ x.dev \in returned
  /\ x.msg = "terminated" => worker[x.worker].state = "dead"

AllMay == \A n \in 1..Len(inbox) : May(inbox[n])

(* y may come after x in the mailbox; R are the devices that came back too   *)
(* soon.                                                                     *)
Before(x, y, R) ==
  /\ x.msg = "disconnected" /\ y.msg = "connected" => x.dev # y.dev \/ x.dev \in R
  /\ x.msg = "failed" /\ y.msg = "create" =>
       x.dev # y.dev \/ x.ident # y.ident \/ x.dev \in R
  /\ x.msg = "terminated" /\ y.msg = "terminated" => x.worker # y.worker

Ordered(q, R) == \A m, n \in 1..Len(q) : m < n => Before(q[m], q[n], R)

(* The worker that tells of a failure has terminated right after.            *)
Paired(q, w) ==
  \A n \in 1..Len(q) : q[n].msg = "failed" =>
    /\ n + 1 \in 1..Len(q) /\ q[n + 1].msg = "terminated"
    /\ w[q[n + 1].worker].dev = q[n].dev

BoxFine == AllMay /\ Ordered(inbox, returned) /\ Paired(inbox, worker)

Orderly == ActorsKnown /\ RefsKnown /\ ForgottenDown /\ BoxFine

(* A step that only lets workers live on or stop. *)
Calm ==
  \A w \in Slot :
    /\ worker'[w].dev = worker[w].dev
    /\ worker'[w].state = "gone" <=> worker[w].state = "gone"
    /\ worker[w].state \in {"dead", "removing"} => worker'[w] = worker[w]
    /\ worker'[w].state \in {"detecting", "mining"} => worker'[w].ref # None
    /\ worker'[w].state = "gone" => worker'[w].ref = None

(* A step that gives no worker a device actor. *)
NoneGiven ==
  \A w \in Slot : worker'[w].ref # None =>
    worker'[w].ref = worker[w].ref /\ worker'[w].dev = worker[w].dev

(* A device that is down stays so as long as something is left of it. *)
DownKept == \A d \in Dev \ returned' : Down(d) /\ ~ NothingLeft(d) => Down(d)'

(* The messages from the k-th on still stand for what they did. *)
MayFrom(k) == \A n \in k..Len(inbox) : \A x \in Message : x = inbox[n] => May(x)'

LEMMA BoxIndices ==
  ASSUME IInv, NEW n \in 1..Len(inbox)
  PROVE  inbox[n] \in Message /\ (inbox[n].msg = "terminated" => inbox[n].worker \in Slot)
<1>1. inbox \in Seq(Message)
  BY DEF IInv, TypeOK
<1> QED
  BY <1>1, ElementOfSeq, Messages

(* What is left of d when there is a message or a worker of it. *)
LEMMA LeftWithMessage ==
  ASSUME IInv, NEW n \in 1..Len(inbox),
         inbox[n].msg \in {"connected", "disconnected", "create", "failed"}
  PROVE  inbox[n].dev \in Dev /\ ~ NothingLeft(inbox[n].dev)
<1>1. inbox \in Seq(Message) /\ inbox[n] \in Message
  BY BoxIndices DEF IInv, TypeOK
<1>2. DOMAIN inbox = 1..Len(inbox)
  BY <1>1
<1> QED
  BY <1>1, <1>2, Messages DEF NothingLeft

LEMMA LeftWithWorker ==
  ASSUME NEW d \in Dev, Forgets(d)
  PROVE  ~ NothingLeft(d)
BY DEF Forgets, NothingLeft
-----------------------------------------------------------------------------
(* The mailbox. *)
LEMMA Joined ==
  ASSUME NEW p \in Seq(Message), NEW r \in Seq(Message), NEW n \in 1..Len(p \o r)
  PROVE  /\ n <= Len(p) => n \in 1..Len(p) /\ (p \o r)[n] = p[n]
         /\ n > Len(p) => n - Len(p) \in 1..Len(r) /\ (p \o r)[n] = r[n - Len(p)]
         /\ Len(p \o r) = Len(p) + Len(r) /\ Len(p) \in Nat /\ Len(r) \in Nat
BY ConcatProperties, LenProperties

LEMMA OrderedJoined ==
  ASSUME NEW p \in Seq(Message), NEW r \in Seq(Message), NEW R, Ordered(p, R), Ordered(r, R),
         \A m \in 1..Len(p), n \in 1..Len(r) : Before(p[m], r[n], R)
  PROVE  Ordered(p \o r, R)
<1> SUFFICES ASSUME NEW m \in 1..Len(p \o r), NEW n \in 1..Len(p \o r), m < n
             PROVE  Before((p \o r)[m], (p \o r)[n], R)
  BY DEF Ordered
<1>1. CASE n <= Len(p)
  <2>1. m <= Len(p)
    BY <1>1, Joined
  <2> QED
    BY <1>1, <2>1, Joined DEF Ordered
<1>2. CASE m <= Len(p) /\ n > Len(p)
  BY <1>2, Joined
<1>3. CASE m > Len(p)
  <2>1. n > Len(p) /\ m - Len(p) < n - Len(p)
    BY <1>3, Joined
  <2> QED
    BY <1>3, <2>1, Joined DEF Ordered
<1> QED
  BY <1>1, <1>2, <1>3, Joined

(* What is in order stays so when more devices come back too soon. *)
LEMMA OrderedMore ==
  ASSUME NEW q, NEW R, NEW T, R \subseteq T, Ordered(q, R)
  PROVE  Ordered(q, T)
BY DEF Ordered, Before

LEMMA PairedJoined ==
  ASSUME NEW p \in Seq(Message), NEW r \in Seq(Message), NEW w, Paired(p, w), Paired(r, w)
  PROVE  Paired(p \o r, w)
<1> SUFFICES ASSUME NEW n \in 1..Len(p \o r), (p \o r)[n].msg = "failed"
             PROVE  /\ n + 1 \in 1..Len(p \o r) /\ (p \o r)[n + 1].msg = "terminated"
                    /\ w[(p \o r)[n + 1].worker].dev = (p \o r)[n].dev
  BY DEF Paired
<1>1. CASE n <= Len(p)
  <2>1. /\ n \in 1..Len(p) /\ n + 1 \in 1..Len(p) /\ p[n + 1].msg = "terminated"
        /\ w[p[n + 1].worker].dev = p[n].dev /\ (p \o r)[n] = p[n]
    BY <1>1, Joined DEF Paired
  <2>2. n + 1 \in 1..Len(p \o r) /\ n + 1 <= Len(p)
    BY <2>1, Joined
  <2> QED
    BY <2>1, <2>2, Joined
<1>2. CASE n > Len(p)
  <2>1. PICK k \in 1..Len(r) : k = n - Len(p) /\ (p \o r)[n] = r[k]
    BY <1>2, Joined
  <2>2. k + 1 \in 1..Len(r) /\ r[k + 1].msg = "terminated" /\ w[r[k + 1].worker].dev = r[k].dev
    BY <2>1 DEF Paired
  <2>3. n + 1 \in 1..Len(p \o r) /\ n + 1 > Len(p) /\ (n + 1) - Len(p) = k + 1
    BY <2>1, <2>2, Joined
  <2> QED
    BY <2>1, <2>2, <2>3, Joined
<1> QED
  BY <1>1, <1>2, Joined

LEMMA Rest ==
  ASSUME NEW q \in Seq(Message), q # <<>>, NEW n \in 1..Len(Tail(q))
  PROVE  /\ Tail(q) \in Seq(Message) /\ Tail(q)[n] = q[n + 1]
         /\ n + 1 \in 1..Len(q) /\ n + 1 \in 2..Len(q) /\ Len(Tail(q)) = Len(q) - 1
         /\ 1 \in 1..Len(q) /\ Head(q) = q[1] /\ Len(q) \in Nat
BY HeadTailProperties, LenProperties

LEMMA OrderedRest ==
  ASSUME NEW q \in Seq(Message), q # <<>>, NEW R, Ordered(q, R)
  PROVE  Ordered(Tail(q), R) /\ \A n \in 1..Len(Tail(q)) : Before(Head(q), Tail(q)[n], R)
<1>1. ASSUME NEW m \in 1..Len(Tail(q)), NEW n \in 1..Len(Tail(q)), m < n
      PROVE  Before(Tail(q)[m], Tail(q)[n], R)
  <2>1. m + 1 \in 1..Len(q) /\ n + 1 \in 1..Len(q) /\ m + 1 < n + 1
    BY <1>1, Rest
  <2> QED
    BY <2>1, Rest DEF Ordered
<1>2. ASSUME NEW n \in 1..Len(Tail(q))
      PROVE  Before(Head(q), Tail(q)[n], R)
  <2>1. 1 \in 1..Len(q) /\ n + 1 \in 1..Len(q) /\ 1 < n + 1
    BY Rest
  <2> QED
    BY <2>1, Rest DEF Ordered
<1> QED
  BY <1>1, <1>2 DEF Ordered

LEMMA PairedRest ==
  ASSUME NEW q \in Seq(Message), q # <<>>, NEW w, Paired(q, w)
  PROVE  Paired(Tail(q), w)
<1> SUFFICES ASSUME NEW n \in 1..Len(Tail(q)), Tail(q)[n].msg = "failed"
             PROVE  /\ n + 1 \in 1..Len(Tail(q)) /\ Tail(q)[n + 1].msg = "terminated"
                    /\ w[Tail(q)[n + 1].worker].dev = Tail(q)[n].dev
  BY DEF Paired
<1>1. /\ (n + 1) + 1 \in 1..Len(q) /\ q[(n + 1) + 1].msg = "terminated"
      /\ w[q[(n + 1) + 1].worker].dev = q[n + 1].dev
  BY Rest DEF Paired
<1>2. n + 1 \in 1..Len(Tail(q))
  BY <1>1, Rest
<1> QED
  BY <1>1, <1>2, Rest

(* The mailbox after a step that takes a message or none and adds r: fine if *)
(* what stays in it and what is added are.                                   *)
LEMMA BoxNext ==
  ASSUME IInv, Orderly, NEW q \in Seq(Message), NEW r \in Seq(Message), inbox' = q \o r,
         \/ q = inbox /\ MayFrom(1)
         \/ inbox # <<>> /\ q = Tail(inbox) /\ MayFrom(2),
         \A n \in 1..Len(r) : May(r[n])',
         returned \subseteq returned', Ordered(r, returned'), Paired(r, worker'),
         \A m \in 1..Len(q), n \in 1..Len(r) : Before(q[m], r[n], returned'),
         \A w \in Slot : worker[w].state = "dead" => worker'[w].dev = worker[w].dev
  PROVE  BoxFine'
<1>1. inbox \in Seq(Message) /\ AllMay /\ Ordered(inbox, returned) /\ Paired(inbox, worker)
  BY DEF IInv, TypeOK, Orderly, BoxFine
<1>2. Ordered(q, returned') /\ Paired(q, worker)
  <2>1. Ordered(q, returned) /\ Paired(q, worker)
    BY <1>1, OrderedRest, PairedRest
  <2> QED
    BY <2>1, OrderedMore
<1>3. ASSUME NEW n \in 1..Len(q)
      PROVE  /\ q[n] \in Message /\ May(q[n])'
             /\ \E k \in 1..Len(inbox) : q[n] = inbox[k]
  <2>1. CASE q = inbox /\ MayFrom(1)
    BY <2>1, ElementOfSeq DEF MayFrom
  <2>2. CASE inbox # <<>> /\ q = Tail(inbox) /\ MayFrom(2)
    <3>1. n + 1 \in 2..Len(inbox) /\ n + 1 \in 1..Len(inbox) /\ q[n] = inbox[n + 1] /\ q[n] \in Message
      BY <1>1, <2>2, Rest, ElementOfSeq
    <3>2. PICK x \in Message : x = q[n]
      BY <3>1
    <3>3. May(x)'
      BY <2>2, <3>1, <3>2 DEF MayFrom
    <3> QED
      BY <3>1, <3>2, <3>3
  <2> QED
    BY <2>1, <2>2
<1>4. Paired(q, worker')
  <2> SUFFICES ASSUME NEW n \in 1..Len(q), q[n].msg = "failed"
               PROVE  /\ n + 1 \in 1..Len(q) /\ q[n + 1].msg = "terminated"
                      /\ worker'[q[n + 1].worker].dev = q[n].dev
    BY DEF Paired
  <2>1. n + 1 \in 1..Len(q) /\ q[n + 1].msg = "terminated" /\ worker[q[n + 1].worker].dev = q[n].dev
    BY <1>2 DEF Paired
  <2>2. PICK k \in 1..Len(inbox) : q[n + 1] = inbox[k]
    BY <1>3, <2>1
  <2>3. worker[q[n + 1].worker].state = "dead" /\ q[n + 1].worker \in Slot
    BY <1>1, <2>1, <2>2, BoxIndices DEF AllMay, May
  <2> QED
    BY <2>1, <2>3
<1>5. Ordered(q \o r, returned') /\ Paired(q \o r, worker')
  BY <1>2, <1>4, OrderedJoined, PairedJoined
<1>6. ASSUME NEW n \in 1..Len(q \o r), NEW x, x = (q \o r)[n]
      PROVE  May(x)'
  <2>1. CASE n <= Len(q)
    <3>1. n \in 1..Len(q) /\ x = q[n]
      BY <1>6, <2>1, Joined
    <3> QED
      BY <1>3, <3>1
  <2>2. CASE n > Len(q)
    <3>1. n - Len(q) \in 1..Len(r) /\ x = r[n - Len(q)]
      BY <1>6, <2>2, Joined
    <3> QED
      BY <3>1
  <2> QED
    BY <2>1, <2>2, Joined
<1>7. AllMay'
  <2> SUFFICES ASSUME NEW n \in 1..Len(inbox')
               PROVE  May(inbox[n])'
    BY DEF AllMay
  <2>1. PICK x : x = inbox'[n]
    OBVIOUS
  <2>2. May(x)'
    BY <1>6, <2>1
  <2> QED
    BY <2>1, <2>2 DEF May, Down, Forgets
<1>8. Ordered(inbox', returned') /\ Paired(inbox', worker')
  BY <1>5
<1> QED
  BY <1>7, <1>8 DEF BoxFine, Ordered, Paired, Before
-----------------------------------------------------------------------------
(* Nothing is added. *)
LEMMA NothingAdded ==
  /\ <<>> \in Seq(Message) /\ Len(<<>>) = 0
  /\ \A R : Ordered(<<>>, R) /\ \A w : Paired(<<>>, w)
  /\ \A q \in Seq(Message) : q \o <<>> = q
<1>1. \A q \in Seq(Message) : q \o <<>> = q
  BY ConcatEmptySeq
<1>2. <<>> \in Seq(Message) /\ Len(<<>>) = 0
  OBVIOUS
<1> QED
  BY <1>1, <1>2 DEF Ordered, Paired

(* A step after which no fewer devices have come back too soon, and the      *)
(* workers that are dead are of the same devices.                            *)
Steps ==
  /\ returned \subseteq returned'
  /\ \A w \in Slot : worker[w].state = "dead" => worker'[w].dev = worker[w].dev

LEMMA BoxNotGrown ==
  ASSUME IInv, Orderly, Steps, NEW q \in Seq(Message), inbox' = q,
         \/ q = inbox /\ MayFrom(1)
         \/ inbox # <<>> /\ q = Tail(inbox) /\ MayFrom(2)
  PROVE  BoxFine'
<1>1. PICK r \in Seq(Message) : r = <<>>
  BY NothingAdded
<1>2. inbox' = q \o r
  BY <1>1, NothingAdded
<1>3. Ordered(r, returned') /\ Paired(r, worker') /\ 1..Len(r) = {}
  BY <1>1, NothingAdded
<1>4. /\ \A n \in 1..Len(r) : May(r[n])'
      /\ \A m \in 1..Len(q), n \in 1..Len(r) : Before(q[m], r[n], returned')
  BY <1>3
<1> QED
  BY <1>2, <1>3, <1>4, BoxNext DEF Steps

LEMMA BoxKeptWhole ==
  ASSUME IInv, Orderly, Steps, inbox' = inbox, MayFrom(1)
  PROVE  BoxFine'
<1>1. PICK q \in Seq(Message) : q = inbox
  BY DEF IInv, TypeOK
<1> QED
  BY <1>1, BoxNotGrown

(* A message is taken and none added. *)
LEMMA BoxWithoutHead ==
  ASSUME IInv, Orderly, Steps, inbox # <<>>, inbox' = Tail(inbox), MayFrom(2)
  PROVE  BoxFine'
<1>0. inbox \in Seq(Message) /\ Tail(inbox) \in Seq(Message)
  BY DEF IInv, TypeOK
<1>1. PICK q \in Seq(Message) : q = Tail(inbox)
  BY <1>0
<1> QED
  BY <1>1, BoxNotGrown

LEMMA OneMessage ==
  ASSUME NEW m \in Message
  PROVE  <<m>> \in Seq(Message) /\ Len(<<m>>) = 1 /\ <<m>>[1] = m
OBVIOUS

(* A poll is added. *)
LEMMA BoxWithPoll ==
  ASSUME IInv, Orderly, Steps, NEW q \in Seq(Message), inbox' = Append(q, Poll),
         \/ q = inbox /\ MayFrom(1)
         \/ inbox # <<>> /\ q = Tail(inbox) /\ MayFrom(2)
  PROVE  BoxFine'
<1>0. Poll.msg = "poll"
  BY DEF Poll
<1>1. Poll \in Message /\ Poll.msg = "poll"
  BY <1>0, Messages
<1>2. PICK r \in Seq(Message) : r = <<Poll>>
  BY <1>1, OneMessage
<1>3. inbox' = q \o r
  BY <1>1, <1>2, AppendIsConcat
<1>4. Len(r) = 1 /\ r[1] = Poll /\ 1..Len(r) = {1}
  BY <1>2
<1>5. Ordered(r, returned') /\ Paired(r, worker')
  BY <1>1, <1>4 DEF Ordered, Paired
<1>6. \A n \in 1..Len(r) : May(r[n])'
  BY <1>1, <1>4 DEF May
<1>7. \A m \in 1..Len(q), n \in 1..Len(r) : Before(q[m], r[n], returned')
  BY <1>1, <1>4 DEF Before
<1> QED
  BY <1>3, <1>5, <1>6, <1>7, BoxNext DEF Steps

(* maybePoll. *)
LEMMA BoxPolled ==
  ASSUME IInv, Orderly, Steps, NEW q \in Seq(Message), MaybePoll(q),
         \/ q = inbox /\ MayFrom(1)
         \/ inbox # <<>> /\ q = Tail(inbox) /\ MayFrom(2)
  PROVE  BoxFine'
BY BoxNotGrown, BoxWithPoll DEF MaybePoll
-----------------------------------------------------------------------------
(* Calm steps. *)
LEMMA CalmSteps ==
  ASSUME Calm, returned \subseteq returned'
  PROVE  Steps
BY DEF Calm, Steps

LEMMA CalmForgets ==
  ASSUME Calm, workerMap' = workerMap
  PROVE  \A d : Forgets(d)' <=> Forgets(d)
BY DEF Calm, Forgets

LEMMA CalmForgotten ==
  ASSUME IInv, Orderly, Calm, workerMap' = workerMap, DownKept,
         returned \subseteq returned', mode' = "up" => mode = "up",
         \A d \in devices' : d \in devices \/ ~ Forgets(d) \/ d \in returned \/ mode # "up"
  PROVE  ForgottenDown'
<1> SUFFICES ASSUME mode' = "up", NEW d \in Dev \ returned', Forgets(d)'
             PROVE  Down(d)' /\ d \notin devices'
  BY DEF ForgottenDown, Steady
<1>1. Forgets(d) /\ mode = "up" /\ d \in Steady
  BY CalmForgets DEF Steady
<1>2. Down(d) /\ d \notin devices /\ d \in Dev
  BY <1>1 DEF Orderly, ForgottenDown
<1> QED
  BY <1>1, <1>2, LeftWithWorker DEF DownKept, Steady

LEMMA CalmMay ==
  ASSUME IInv, Orderly, Calm, workerMap' = workerMap, DownKept,
         returned \subseteq returned', mode' = "up" => mode = "up",
         \A d \in Dev : failedIdentity'[d] \subseteq failedIdentity[d]
  PROVE  MayFrom(1)
<1> SUFFICES ASSUME NEW n \in 1..Len(inbox), NEW x \in Message, x = inbox[n]
             PROVE  May(x)'
  BY DEF MayFrom
<1>1. May(x)
  BY DEF Orderly, BoxFine, AllMay
<1>2. CASE x.msg = "disconnected"
  <2>1. x.dev \in Dev /\ ~ NothingLeft(x.dev)
    BY <1>2, LeftWithMessage
  <2>2. Down(x.dev)' \/ x.dev \in returned'
    BY <1>1, <1>2, <2>1 DEF DownKept, May
  <2> QED
    BY <1>2, <2>2 DEF May
<1>3. CASE x.msg = "create"
  <2>1. x.dev \in Dev
    BY <1>3, LeftWithMessage
  <2>2. x.ident \notin failedIdentity'[x.dev] \/ x.dev \in returned'
    BY <1>1, <1>3, <2>1 DEF May
  <2> QED
    BY <1>3, <2>2 DEF May
<1>4. CASE x.msg = "connected"
  BY <1>1, <1>4, CalmForgets DEF May
<1>5. CASE x.msg = "terminated"
  <2>1. x.worker \in Slot /\ worker[x.worker].state = "dead"
    BY <1>1, <1>5, Messages DEF May
  <2>2. worker'[x.worker].state = "dead"
    BY <2>1 DEF Calm
  <2> QED
    BY <1>5, <2>2 DEF May
<1>6. CASE x.msg \notin {"disconnected", "create", "connected", "terminated"}
  BY <1>6 DEF May
<1> QED
  BY <1>2, <1>3, <1>4, <1>5, <1>6

LEMMA MayLater ==
  ASSUME IInv, MayFrom(1)
  PROVE  MayFrom(2)
<1>1. 2..Len(inbox) \subseteq 1..Len(inbox)
  BY LenProperties DEF IInv, TypeOK
<1> QED
  BY <1>1 DEF MayFrom

(* A calm step of which the manager knows nothing. *)
LEMMA Quiet ==
  ASSUME IInv, Orderly, Calm, DownKept, returned \subseteq returned',
         UNCHANGED <<devices, workerMap, failedIdentity, mode, inbox>>
  PROVE  ForgottenDown' /\ BoxFine'
<1>1. MayFrom(1)
  BY CalmMay
<1>2. BoxFine'
  BY <1>1, CalmSteps, BoxKeptWhole
<1> QED
  BY <1>2, CalmForgotten

LEMMA ActorsKept ==
  ASSUME IInv, Orderly, IInv', NoneGiven, deviceActors' = deviceActors,
         \A g \in Ref : device'[g] = "gone" <=> device[g] = "gone"
  PROVE  ActorsKnown'
<1>1. ActorsKnown /\ deviceActors \in [Dev -> Ref \cup {None}]
  BY DEF Orderly, IInv, TypeOK
<1>2. \A w \in Slot : worker'[w].ref \in Ref \cup {None}
  BY DEF IInv, TypeOK
<1>3. ASSUME NEW w \in Slot, worker'[w].ref # None, device'[worker'[w].ref] # "gone"
      PROVE  deviceActors'[worker'[w].dev] = worker'[w].ref
  BY <1>1, <1>2, <1>3 DEF ActorsKnown, NoneGiven
<1>4. ASSUME NEW d \in Dev, deviceActors'[d] # None
      PROVE  device'[deviceActors'[d]] # "gone"
  BY <1>1, <1>4 DEF ActorsKnown
<1> QED
  BY <1>1, <1>3, <1>4 DEF ActorsKnown

LEMMA CalmRefs ==
  ASSUME Orderly, Calm, stopDue' \subseteq stopDue, stopDue \subseteq Slot
  PROVE  RefsKnown'
BY DEF Orderly, RefsKnown, Calm

LEMMA SameCalm ==
  ASSUME Orderly, worker' = worker
  PROVE  Calm /\ NoneGiven
BY DEF Orderly, RefsKnown, Calm, NoneGiven

LEMMA StoppedCalm ==
  ASSUME IInv, Orderly, NEW S, worker' = Stopped(S)
  PROVE  Calm /\ NoneGiven
<1>1. worker \in [Slot -> WorkerType] /\ RefsKnown
  BY DEF IInv, TypeOK, WorkerType, Orderly
<1> SUFFICES ASSUME NEW w \in Slot
             PROVE  /\ worker'[w].dev = worker[w].dev
                    /\ worker'[w].state = "gone" <=> worker[w].state = "gone"
                    /\ worker[w].state \in {"dead", "removing"} => worker'[w] = worker[w]
                    /\ worker'[w].state \in {"detecting", "mining"} => worker'[w].ref # None
                    /\ worker'[w].state = "gone" => worker'[w].ref = None
                    /\ worker'[w].ref # None =>
                         worker'[w].ref = worker[w].ref /\ worker'[w].dev = worker[w].dev
  BY DEF Calm, NoneGiven
<1>2. CASE w \in S /\ worker[w].state \in Live
  <2>1. worker'[w] = [worker[w] EXCEPT !.state = "stopping",
                        !.ref = IF worker[w].state = "answered" THEN None ELSE @]
    BY <1>2 DEF Stopped
  <2>2. worker[w] \in WorkerType /\ worker[w].state \notin {"gone", "dead", "removing"}
    BY <1>1, <1>2, States
  <2>3. /\ worker'[w].state = "stopping" /\ worker'[w].dev = worker[w].dev
        /\ worker'[w].ref \in {None, worker[w].ref}
    BY <2>1, <2>2 DEF WorkerType
  <2> QED
    BY <2>2, <2>3
<1>3. CASE ~ (w \in S /\ worker[w].state \in Live)
  <2>1. worker'[w] = worker[w]
    BY <1>3 DEF Stopped
  <2> QED
    BY <1>1, <2>1 DEF RefsKnown
<1> QED
  BY <1>2, <1>3

LEMMA HostSame ==
  ASSUME UNCHANGED <<plugged, host, device>>
  PROVE  DownKept
BY DEF DownKept, Down, host
-----------------------------------------------------------------------------
(* Steps of the hardware and of UsbHost. *)
LEMMA DownLater ==
  ASSUME IInv, deviceSet' \subseteq plugged \/ deviceSet' = deviceSet, deviceActors' = deviceActors,
         \A g \in Ref : device'[g] = "up" => device[g] = "up",
         \A d \in Dev : d \in plugged' => d \in plugged \/ NothingLeft(d) \/ d \in returned'
  PROVE  DownKept
<1>1. deviceActors \in [Dev -> Ref \cup {None}]
  BY DEF IInv, TypeOK
<1> QED
  BY <1>1 DEF DownKept, Down

LEMMA HardwareOrderly ==
  ASSUME IInv, Orderly, IInv',
         \/ \E d \in Dev : Plug(d) \/ DeviceGone(d) \/ DeviceFails(d)
         \/ \E g \in Ref : DeviceStops(g)
         \/ \E w \in Slot : StopDevice(w)
  PROVE  Orderly'
<1>1. /\ UNCHANGED <<deviceSet, deviceActors, worker, manager, inbox>>
      /\ stopDue' \subseteq stopDue /\ stopDue \subseteq Slot
  BY DEF Plug, DeviceGone, DeviceFails, DeviceActorStops, DeviceStops, StopDevice, host, IInv, TypeOK
<1>2. device \in [Ref -> {"gone", "up", "stopping", "dead"}]
      /\ worker \in [Slot -> WorkerType] /\ deviceActors \in [Dev -> Ref \cup {None}]
  BY DEF IInv, TypeOK, WorkerType
<1>3. \A g \in Ref : /\ device'[g] = "gone" <=> device[g] = "gone"
                     /\ device'[g] = "up" => device[g] = "up"
  <2>1. ASSUME NEW d \in Dev, Plug(d) PROVE device' = device
    BY <2>1 DEF Plug
  <2>2. ASSUME NEW d \in Dev, DeviceGone(d) \/ DeviceFails(d)
        PROVE  /\ device[deviceActors[d]] = "up"
               /\ device' = [device EXCEPT ![deviceActors[d]] = "stopping"]
    BY <2>2 DEF DeviceGone, DeviceFails, DeviceActorStops
  <2>3. ASSUME NEW g \in Ref, DeviceStops(g)
        PROVE  device[g] = "stopping" /\ device' = [device EXCEPT ![g] = "dead"]
    BY <2>3 DEF DeviceStops
  <2>4. ASSUME NEW w \in Slot, StopDevice(w)
        PROVE  device' = [device EXCEPT ![worker[w].ref] = IF @ = "up" THEN "stopping" ELSE @]
    BY <2>4 DEF StopDevice
  <2> QED
    BY <1>2, <2>1, <2>2, <2>3, <2>4
<1>4. /\ \A d \in Dev : d \in plugged' => d \in plugged \/ NothingLeft(d) \/ d \in returned'
      /\ returned \subseteq returned'
  BY DEF Plug, DeviceGone, DeviceFails, DeviceActorStops, DeviceStops, StopDevice, hardware
<1>5. DownKept /\ Calm /\ NoneGiven
  BY <1>1, <1>3, <1>4, DownLater, SameCalm
<1>6. ActorsKnown'
  BY <1>1, <1>3, <1>5, ActorsKept
<1>7. RefsKnown'
  BY <1>1, <1>5, CalmRefs
<1> QED
  BY <1>1, <1>4, <1>5, <1>6, <1>7, Quiet DEF Orderly, manager

LEMMA DeviceTerminatedOrderly ==
  ASSUME IInv, Orderly, IInv', NEW g \in Ref, DeviceTerminated(g)
  PROVE  Orderly'
<1>1. /\ UNCHANGED <<plugged, returned, deviceSet, worker, stopDue, manager, inbox>>
      /\ device' = [device EXCEPT ![g] = "gone"]
      /\ deviceActors' = [d \in Dev |-> IF deviceActors[d] = g THEN None ELSE deviceActors[d]]
      /\ stopDue \subseteq Slot
  BY DEF DeviceTerminated, hardware, IInv, TypeOK
<1>2. device \in [Ref -> {"gone", "up", "stopping", "dead"}]
      /\ worker \in [Slot -> WorkerType] /\ deviceActors \in [Dev -> Ref \cup {None}]
      /\ \A w \in Slot : worker[w].state # "gone" => worker[w].dev \in Dev
  BY DEF IInv, TypeOK, WorkerType, Known, Started
<1>3. Calm
  BY <1>1, SameCalm
<1>4. DownKept
  BY <1>1, <1>2 DEF DownKept, Down
<1>5. ActorsKnown'
  <2>1. ActorsKnown /\ g # None
    BY Constants DEF Orderly
  <2>2. ASSUME NEW w \in Slot, worker[w].ref # None, device'[worker[w].ref] # "gone"
        PROVE  deviceActors'[worker[w].dev] = worker[w].ref
    <3>1. worker[w].ref # g /\ worker[w].ref \in Ref /\ device[worker[w].ref] # "gone"
      BY <1>1, <1>2, <2>2 DEF WorkerType
    <3>2. deviceActors[worker[w].dev] = worker[w].ref
      BY <2>1, <2>2, <3>1 DEF ActorsKnown
    <3>3. worker[w].dev \in Dev
      BY <1>2, <2>2 DEF Orderly, RefsKnown
    <3> QED
      BY <1>1, <3>1, <3>2, <3>3
  <2>3. ASSUME NEW d \in Dev, deviceActors'[d] # None
        PROVE  device'[deviceActors'[d]] # "gone" /\ deviceActors'[d] = deviceActors[d]
    <3>1. deviceActors[d] # g /\ deviceActors'[d] = deviceActors[d]
      BY <1>1, <2>3
    <3>2. device[deviceActors[d]] # "gone"
      BY <2>1, <2>3, <3>1 DEF ActorsKnown
    <3> QED
      BY <1>1, <1>2, <3>1, <3>2
  <2> QED
    BY <1>1, <2>1, <2>2, <2>3 DEF ActorsKnown
<1>6. RefsKnown'
  BY <1>1, <1>3, CalmRefs
<1> QED
  BY <1>1, <1>3, <1>4, <1>5, <1>6, Quiet DEF Orderly, manager

LEMMA ConnectOrderly ==
  ASSUME IInv, Orderly, IInv', NEW w \in Slot, Connect(w)
  PROVE  Orderly'
<1> DEFINE d == worker[w].dev
<1>1. /\ UNCHANGED <<plugged, returned, deviceSet, stopDue, manager, inbox>>
      /\ w \in asking /\ stopDue \subseteq Slot /\ d \in Dev
  BY DEF Connect, IInv, TypeOK, Known, Started
<1>2. /\ device \in [Ref -> {"gone", "up", "stopping", "dead"}]
      /\ worker \in [Slot -> WorkerType] /\ deviceActors \in [Dev -> Ref \cup {None}]
      /\ \A v \in Slot : worker[v].state # "gone" => worker[v].dev \in Dev
  BY DEF IInv, TypeOK, WorkerType, Known, Started
<1>3. ActorsKnown /\ RefsKnown
  BY DEF Orderly
<1>4. PICK r \in Ref \cup {None} :
        /\ Answer(w, r)
        /\ \/ r = deviceActors[d] /\ UNCHANGED <<deviceActors, device>>
           \/ r = None /\ UNCHANGED <<deviceActors, device>>
           \/ /\ deviceActors[d] = None /\ d \in plugged /\ r \in Ref /\ Reusable(r)
              /\ deviceActors' = [deviceActors EXCEPT ![d] = r]
              /\ device' = [device EXCEPT ![r] = "up"]
  BY <1>1, <1>2 DEF Connect
<1>5. \/ worker' = worker
      \/ /\ worker[w].state = "connecting" /\ worker'[w].ref = r /\ worker'[w].state = "answered"
         /\ worker'[w].dev = d /\ \A v \in Slot \ {w} : worker'[v] = worker[v]
  <2>1. CASE worker[w].state # "connecting"
    BY <1>4, <2>1 DEF Answer
  <2>2. CASE worker[w].state = "connecting"
    <3>1. worker' = [worker EXCEPT ![w] = [worker[w] EXCEPT !.ref = r, !.state = "answered"]]
      BY <1>2, <1>4, <2>2 DEF Answer
    <3>2. worker[w] \in WorkerType
      BY <1>2
    <3> QED
      BY <1>2, <2>2, <3>1, <3>2 DEF WorkerType
  <2> QED
    BY <2>1, <2>2
<1> HIDE DEF d
<1>6. Calm
  <2>1. CASE worker' = worker
    BY <2>1, SameCalm
  <2>2. CASE worker' # worker
    BY <1>3, <1>5, <2>2 DEF Calm, RefsKnown, d
  <2> QED
    BY <2>1, <2>2
<1>7. DownKept
  <2>1. CASE UNCHANGED <<deviceActors, device>>
    BY <1>1, <2>1 DEF DownKept, Down
  <2>2. CASE /\ deviceActors[d] = None /\ d \in plugged /\ r \in Ref /\ Reusable(r)
             /\ deviceActors' = [deviceActors EXCEPT ![d] = r]
             /\ device' = [device EXCEPT ![r] = "up"]
    <3> SUFFICES ASSUME NEW e \in Dev, Down(e)
                 PROVE  Down(e)'
      BY DEF DownKept
    <3>1. e # d /\ deviceActors'[e] = deviceActors[e]
      BY <1>1, <1>2, <2>2 DEF Down
    <3>2. deviceActors[e] # None => deviceActors[e] # r
      BY <1>3, <2>2 DEF ActorsKnown, Reusable
    <3> QED
      BY <1>1, <1>2, <2>2, <3>1, <3>2 DEF Down
  <2> QED
    BY <1>4, <2>1, <2>2
<1>8. ActorsKnown'
  <2>1. ASSUME NEW v \in Slot, worker'[v].ref # None, device'[worker'[v].ref] # "gone"
        PROVE  deviceActors'[worker'[v].dev] = worker'[v].ref
    <3>1. CASE v = w /\ worker' # worker
      BY <1>1, <1>2, <1>4, <1>5, <2>1, <3>1
    <3>2. CASE v # w \/ worker' = worker
      <4>1. worker'[v] = worker[v] /\ worker[v].ref \in Ref
        BY <1>2, <1>5, <2>1, <3>2 DEF WorkerType
      <4>2. CASE UNCHANGED <<deviceActors, device>>
        BY <1>3, <2>1, <4>1, <4>2 DEF ActorsKnown
      <4>3. CASE /\ deviceActors[d] = None /\ d \in plugged /\ r \in Ref /\ Reusable(r)
                 /\ deviceActors' = [deviceActors EXCEPT ![d] = r]
                 /\ device' = [device EXCEPT ![r] = "up"]
        <5>1. worker[v].ref # r
          BY <4>3 DEF Reusable
        <5>2. device[worker[v].ref] # "gone"
          BY <1>2, <2>1, <4>1, <4>3, <5>1
        <5>3. deviceActors[worker[v].dev] = worker[v].ref /\ worker[v].ref # None
          BY <1>3, <2>1, <4>1, <5>2 DEF ActorsKnown
        <5>4. worker[v].dev # d /\ worker[v].dev \in Dev
          BY <1>2, <1>3, <4>3, <5>3 DEF RefsKnown
        <5> QED
          BY <1>2, <4>1, <4>3, <5>3, <5>4
      <4> QED
        BY <1>4, <4>2, <4>3
    <3> QED
      BY <3>1, <3>2
  <2>2. CASE UNCHANGED <<deviceActors, device>>
    BY <1>3, <2>1, <2>2 DEF ActorsKnown
  <2>3. CASE /\ deviceActors[d] = None /\ d \in plugged /\ r \in Ref /\ Reusable(r)
             /\ deviceActors' = [deviceActors EXCEPT ![d] = r]
             /\ device' = [device EXCEPT ![r] = "up"]
    <3>1. \A e \in Dev : deviceActors[e] # None => deviceActors[e] # r
      BY <1>3, <2>3 DEF ActorsKnown, Reusable
    <3>2. \A e \in Dev : deviceActors'[e] # None => device'[deviceActors'[e]] # "gone"
      BY <1>2, <1>3, <2>3, <3>1 DEF ActorsKnown
    <3>3. \A e, f \in Dev : deviceActors'[e] = deviceActors'[f] /\ deviceActors'[e] # None => e = f
      BY <1>2, <1>3, <2>3, <3>1 DEF ActorsKnown
    <3> QED
      BY <2>1, <3>2, <3>3 DEF ActorsKnown
  <2> QED
    BY <1>4, <2>2, <2>3
<1>9. RefsKnown'
  BY <1>1, <1>6, CalmRefs
<1> QED
  BY <1>1, <1>6, <1>7, <1>8, <1>9, Quiet DEF Orderly, manager

(* UpdateDeviceList: who has come is announced before who has gone, and is   *)
(* not down; who has gone is down from then on.                              *)
LEMMA UpdateDeviceListOrderly ==
  ASSUME IInv, Orderly, IInv', UpdateDeviceList
  PROVE  Orderly'
<1> DEFINE Events(m, S) ==
             LET s == SetToSeq(S) IN [n \in 1..Len(s) |-> [msg |-> m, dev |-> s[n]]]
           added == plugged \ deviceSet
           removed == deviceSet \ plugged
<1>1. /\ UNCHANGED <<plugged, returned, deviceActors, worker, stopDue, manager>>
      /\ deviceSet' = plugged /\ stopDue \subseteq Slot
      /\ added \subseteq Dev /\ removed \subseteq Dev /\ inbox \in Seq(Message)
  BY DEF UpdateDeviceList, hardware, IInv, TypeOK
<1>2. /\ device \in [Ref -> {"gone", "up", "stopping", "dead"}]
      /\ deviceActors \in [Dev -> Ref \cup {None}]
      /\ device' = [g \in Ref |->
           IF device[g] = "up" /\ \E d \in removed : deviceActors[d] = g
           THEN "stopping" ELSE device[g]]
  BY DEF IInv, TypeOK, UpdateDeviceList
<1>3. inbox' = inbox \o Events("connected", added) \o Events("disconnected", removed)
  BY DEF UpdateDeviceList
<1>4. ASSUME NEW m \in {"connected", "disconnected"}, NEW S \in SUBSET Dev
      PROVE  /\ Events(m, S) \in Seq(Message)
             /\ \A n \in 1..Len(Events(m, S)) :
                  Events(m, S)[n].msg = m /\ Events(m, S)[n].dev \in S
  <2>1. SetToSeq(S) \in Seq(S)
    BY Constants, FS_Subset, SetToSeqElements
  <2>2. \A n \in 1..Len(SetToSeq(S)) : SetToSeq(S)[n] \in S
    BY <2>1, ElementOfSeq
  <2>3. \A n \in 1..Len(SetToSeq(S)) : [msg |-> m, dev |-> SetToSeq(S)[n]] \in Message
    BY <2>2, Messages
  <2>4. Len(Events(m, S)) = Len(SetToSeq(S)) /\ Events(m, S) \in Seq(Message)
    BY <2>1, <2>3
  <2> QED
    BY <2>2, <2>4
<1> HIDE DEF Events, added, removed
<1>5. PICK c \in Seq(Message), x \in Seq(Message) :
        c = Events("connected", added) /\ x = Events("disconnected", removed)
  BY <1>1, <1>4
<1>6. /\ \A n \in 1..Len(c) : c[n].msg = "connected" /\ c[n].dev \in added
      /\ \A n \in 1..Len(x) : x[n].msg = "disconnected" /\ x[n].dev \in removed
  BY <1>1, <1>4, <1>5
<1>7. \A g \in Ref : /\ device'[g] = "gone" <=> device[g] = "gone"
                     /\ device'[g] = "up" => device[g] = "up"
  BY <1>2
<1>8. DownKept /\ Calm /\ NoneGiven
  BY <1>1, <1>7, DownLater, SameCalm
<1>9. MayFrom(1) /\ ForgottenDown'
  BY <1>1, <1>8, CalmMay, CalmForgotten DEF manager
<1>10. ASSUME NEW d \in added
       PROVE  ~ Down(d) /\ (mode = "up" => ~ Forgets(d)' \/ d \in returned)
  <2>1. ~ Down(d)
    BY DEF Down, added
  <2>2. mode = "up" => ~ Forgets(d) \/ d \in returned
    BY <1>1, <2>1 DEF Orderly, ForgottenDown, Steady
  <2> QED
    BY <1>1, <1>8, <2>1, <2>2, CalmForgets DEF manager
<1>11. ASSUME NEW d \in removed
       PROVE  Down(d)'
  BY <1>1, <1>2 DEF Down, removed
<1>12. /\ Ordered(c, returned) /\ Ordered(x, returned)
       /\ \A m \in 1..Len(c), n \in 1..Len(x) : Before(c[m], x[n], returned)
  BY <1>6 DEF Ordered, Before
<1>13. PICK r \in Seq(Message) : r = c \o x
  BY ConcatProperties
<1>14. ASSUME NEW n \in 1..Len(r)
       PROVE  \/ r[n].msg = "connected" /\ r[n].dev \in added
              \/ r[n].msg = "disconnected" /\ r[n].dev \in removed
  BY <1>6, <1>13, Joined
<1>15. /\ Ordered(r, returned) /\ Paired(r, worker')
       /\ \A n \in 1..Len(r) : May(r[n])'
  <2>1. Ordered(r, returned)
    BY <1>12, <1>13, OrderedJoined
  <2>2. Paired(r, worker')
    BY <1>14 DEF Paired
  <2>3. ASSUME NEW n \in 1..Len(r)
        PROVE  May(r[n])'
    <3>1. CASE r[n].msg = "connected" /\ r[n].dev \in added
      BY <1>1, <1>10, <3>1 DEF May, manager
    <3>2. CASE r[n].msg = "disconnected" /\ r[n].dev \in removed
      BY <1>11, <3>2 DEF May
    <3> QED
      BY <1>14, <3>1, <3>2
  <2> QED
    BY <2>1, <2>2, <2>3
<1>16. ASSUME NEW m \in 1..Len(inbox), NEW n \in 1..Len(r)
       PROVE  Before(inbox[m], r[n], returned)
  <2>1. May(inbox[m])
    BY DEF Orderly, BoxFine, AllMay
  <2>2. inbox[m].msg = "disconnected" /\ inbox[m].dev \in added => inbox[m].dev \in returned
    BY <1>10, <2>1 DEF May
  <2> QED
    BY <1>14, <2>2 DEF Before
<1>17. inbox' = inbox \o r
  BY <1>1, <1>3, <1>5, <1>13, ConcatAssociative
<1>18. BoxFine'
  <2>1. PICK q \in Seq(Message) : q = inbox
    BY <1>1
  <2>2. Steps
    BY <1>1, <1>8, CalmSteps
  <2> QED
    BY <1>1, <1>9, <1>15, <1>16, <1>17, <2>1, <2>2, BoxNext DEF Steps
<1>19. ActorsKnown' /\ RefsKnown'
  BY <1>1, <1>7, <1>8, ActorsKept, CalmRefs
<1> QED
  BY <1>9, <1>18, <1>19 DEF Orderly
-----------------------------------------------------------------------------
(* Steps of the workers. *)
LEMMA ReadsOrDetects ==
  ASSUME IInv, Orderly, NEW w \in Slot,
         \/ ReadAnswer(w) /\ worker[w].ref # None
         \/ Detect(w)
  PROVE  Calm /\ NoneGiven
<1>1. worker \in [Slot -> WorkerType] /\ worker[w] \in WorkerType /\ RefsKnown
  BY DEF IInv, TypeOK, WorkerType, Orderly
<1>2. /\ worker[w].state \in {"answered", "detecting"} /\ worker[w].ref # None
      /\ \/ worker' = [worker EXCEPT ![w].state = "detecting"]
         \/ worker' = [worker EXCEPT ![w].state = "mining", ![w].inited = TRUE]
  BY <1>1 DEF ReadAnswer, Detect, RefsKnown
<1>3. /\ worker'[w].dev = worker[w].dev /\ worker'[w].ref = worker[w].ref
      /\ worker'[w].state \in {"detecting", "mining"}
      /\ \A v \in Slot \ {w} : worker'[v] = worker[v]
  BY <1>1, <1>2 DEF WorkerType
<1> QED
  BY <1>1, <1>2, <1>3 DEF Calm, NoneGiven, RefsKnown

LEMMA WorkersOrderly ==
  ASSUME IInv, Orderly, IInv', NEW w \in Slot,
         ReadAnswer(w) \/ Detect(w) \/ WrongIdentity(w) \/ LosesDevice(w) \/ WorkerFails(w)
  PROVE  Orderly'
<1>1. /\ UNCHANGED <<plugged, returned, host, device, stopDue>> /\ stopDue \subseteq Slot
      /\ UNCHANGED <<devices, workerMap, failedIdentity, mode, inbox>>
  BY DEF ReadAnswer, Detect, WrongIdentity, LosesDevice, WorkerFails, hardware, manager, IInv, TypeOK
<1>2. worker' = Stopped({w}) \/ (ReadAnswer(w) /\ worker[w].ref # None) \/ Detect(w)
  BY DEF ReadAnswer, WrongIdentity, LosesDevice, WorkerFails
<1>3. Calm /\ NoneGiven
  BY <1>2, StoppedCalm, ReadsOrDetects
<1>4. ActorsKnown' /\ RefsKnown'
  BY <1>1, <1>3, ActorsKept, CalmRefs DEF host
<1> QED
  BY <1>1, <1>3, <1>4, HostSame, Quiet DEF Orderly

LEMMA PostStopOrderly ==
  ASSUME IInv, Orderly, IInv', NEW w \in Slot, PostStop(w)
  PROVE  Orderly'
<1>1. /\ UNCHANGED <<plugged, returned, host, device, manager>>
      /\ inbox \in Seq(Message) /\ stopDue \subseteq Slot
      /\ worker[w].dev \in Dev /\ worker[w].ident \in Identity
      /\ worker[w].state = "stopping" /\ RefsKnown
  BY DEF PostStop, hardware, IInv, TypeOK, Known, Started, Orderly
<1>2. /\ \A v \in Slot \ {w} : worker'[v] = worker[v]
      /\ worker'[w].state = "dead" /\ worker'[w].dev = worker[w].dev
      /\ worker'[w].ref = worker[w].ref
  <2>1. worker[w] \in WorkerType /\ worker \in [Slot -> WorkerType]
    BY DEF IInv, TypeOK, WorkerType
  <2> QED
    BY <2>1 DEF PostStop, WorkerType
<1>3. Calm /\ NoneGiven
  BY <1>1, <1>2 DEF Calm, NoneGiven, RefsKnown
<1>4. RefsKnown'
  <2>1. stopDue' \subseteq stopDue \cup {w} /\ (w \in stopDue' => worker[w].ref # None)
    BY <1>1 DEF PostStop, RefsKnown
  <2> QED
    BY <1>1, <1>2, <2>1 DEF RefsKnown
<1>5. ActorsKnown'
  BY <1>1, <1>3, ActorsKept DEF host
<1>6. DownKept /\ MayFrom(1) /\ ForgottenDown'
  BY <1>1, <1>3, HostSame, CalmMay, CalmForgotten DEF manager
<1>7. /\ Dead(w) \in Message /\ Dead(w).msg = "terminated" /\ Dead(w).worker = w
      /\ Failed(worker[w].dev, worker[w].ident) \in Message
      /\ Failed(worker[w].dev, worker[w].ident).msg = "failed"
      /\ Failed(worker[w].dev, worker[w].ident).dev = worker[w].dev
  <2>1. Dead(w).msg = "terminated" /\ Dead(w).worker = w
    BY DEF Dead
  <2>2. /\ Failed(worker[w].dev, worker[w].ident).msg = "failed"
        /\ Failed(worker[w].dev, worker[w].ident).dev = worker[w].dev
    BY DEF Failed
  <2> QED
    BY <1>1, <2>1, <2>2, Messages
<1>8. PICK a \in Message, b \in Message :
        a = Failed(worker[w].dev, worker[w].ident) /\ b = Dead(w)
  BY <1>7
<1>9. PICK r \in Seq(Message) : inbox' = inbox \o r /\ (r = <<b>> \/ r = <<a, b>>)
  <2>1. inbox' = Append(inbox, b) \/ inbox' = inbox \o <<a, b>>
    BY <1>8 DEF PostStop
  <2>2. <<b>> \in Seq(Message) /\ <<a, b>> \in Seq(Message)
    OBVIOUS
  <2> QED
    BY <1>1, <2>1, <2>2, AppendIsConcat
<1>10. \/ Len(r) = 1 /\ r[1] = b
       \/ Len(r) = 2 /\ r[1] = a /\ r[2] = b
  BY <1>9
<1>11. /\ a.msg = "failed" /\ a.dev = worker[w].dev
       /\ b.msg = "terminated" /\ b.worker = w
  BY <1>7, <1>8
<1>12. \A n \in 1..Len(r) : r[n] = b \/ (n = 1 /\ r[n] = a /\ Len(r) = 2 /\ r[2] = b)
  BY <1>10
<1>13. Ordered(r, returned)
  BY <1>10, <1>11 DEF Ordered, Before
<1>14. Paired(r, worker')
  BY <1>2, <1>11, <1>12 DEF Paired
<1>15. \A n \in 1..Len(r) : May(r[n])'
  BY <1>2, <1>11, <1>12 DEF May
<1>16. ASSUME NEW m \in 1..Len(inbox), NEW n \in 1..Len(r)
       PROVE  Before(inbox[m], r[n], returned)
  <2>1. inbox[m].msg = "terminated" => inbox[m].worker # w
    BY <1>1 DEF Orderly, BoxFine, AllMay, May
  <2> QED
    BY <1>11, <1>12, <2>1 DEF Before
<1>17. BoxFine'
  <2>1. PICK q \in Seq(Message) : q = inbox
    BY <1>1
  <2>2. Steps
    BY <1>1, <1>3, CalmSteps
  <2> QED
    BY <1>1, <1>6, <1>9, <1>13, <1>14, <1>15, <1>16, <2>1, <2>2, BoxNext DEF Steps
<1> QED
  BY <1>4, <1>5, <1>6, <1>17 DEF Orderly
-----------------------------------------------------------------------------
(* Steps of the manager. *)

(* What the message taken says. *)
LEMMA HeadMay ==
  ASSUME IInv, Orderly, inbox # <<>>
  PROVE  /\ May(Head(inbox)) /\ Head(inbox) = inbox[1] /\ 1 \in 1..Len(inbox)
         /\ Head(inbox) \in Message /\ inbox \in Seq(Message) /\ Tail(inbox) \in Seq(Message)
<1>1. inbox \in Seq(Message)
  BY DEF IInv, TypeOK
<1>2. Head(inbox) = inbox[1] /\ 1 \in 1..Len(inbox) /\ Tail(inbox) \in Seq(Message)
  BY <1>1
<1> QED
  BY <1>1, <1>2, ElementOfSeq DEF Orderly, BoxFine, AllMay

LEMMA HeadBefore ==
  ASSUME IInv, Orderly, inbox # <<>>, NEW n \in 2..Len(inbox)
  PROVE  /\ Before(Head(inbox), inbox[n], returned) /\ May(inbox[n]) /\ n \in 1..Len(inbox)
         /\ inbox[n] \in Message
<1>1. 1 \in 1..Len(inbox) /\ n \in 1..Len(inbox) /\ 1 < n /\ Head(inbox) = inbox[1]
  BY HeadMay
<1> QED
  BY <1>1, BoxIndices DEF Orderly, BoxFine, AllMay, Ordered

LEMMA DeviceConnectedOrderly ==
  ASSUME IInv, Orderly, IInv', DeviceConnected
  PROVE  Orderly'
<1>1. /\ UNCHANGED <<plugged, returned, host, device, worker, stopDue, workerMap, failedIdentity,
                    mode>>
      /\ stopDue \subseteq Slot /\ inbox # <<>> /\ Head(inbox).msg = "connected"
      /\ devices' = devices \cup {Head(inbox).dev} /\ MaybePoll(Tail(inbox))
  BY DEF DeviceConnected, Takes, hardware, IInv, TypeOK
<1>2. Calm /\ NoneGiven /\ DownKept /\ Steps
  BY <1>1, SameCalm, HostSame, CalmSteps
<1>3. MayFrom(2)
  BY <1>1, <1>2, CalmMay, MayLater
<1>4. ForgottenDown'
  <2>1. mode = "up" => ~ Forgets(Head(inbox).dev) \/ Head(inbox).dev \in returned
    BY <1>1, HeadMay DEF May
  <2> QED
    BY <1>1, <1>2, <2>1, CalmForgotten
<1>5. BoxFine'
  <2>1. PICK q \in Seq(Message) : q = Tail(inbox)
    BY <1>1, HeadMay
  <2> QED
    BY <1>1, <1>2, <1>3, <2>1, BoxPolled
<1>6. ActorsKnown' /\ RefsKnown'
  BY <1>1, <1>2, ActorsKept, CalmRefs DEF host
<1> QED
  BY <1>4, <1>5, <1>6 DEF Orderly

(* DeviceDisconnected: the device is down when the manager forgets it.       *)
LEMMA DeviceDisconnectedOrderly ==
  ASSUME IInv, Orderly, IInv', DeviceDisconnected
  PROVE  Orderly'
<1> DEFINE d == Head(inbox).dev
<1>1. /\ UNCHANGED <<plugged, returned, host, device, stopDue, mode>>
      /\ stopDue \subseteq Slot /\ inbox # <<>> /\ Head(inbox).msg = "disconnected" /\ d \in Dev
      /\ worker' = Stopped({workerMap[d]}) /\ inbox' = Tail(inbox)
      /\ workerMap' = [workerMap EXCEPT ![d] = None]
      /\ devices' = devices \ {d}
      /\ failedIdentity' = [failedIdentity EXCEPT ![d] = {}]
  BY HeadMay, Messages DEF DeviceDisconnected, Takes, Forget, hardware, IInv, TypeOK
<1>2. /\ workerMap \in [Dev -> Slot \cup {None}] /\ failedIdentity \in [Dev -> SUBSET Identity]
      /\ devices \subseteq Dev
  BY DEF IInv, TypeOK
<1>d. Down(d) \/ d \in returned
  BY <1>1, HeadMay DEF May
<1> HIDE DEF d
<1>3. Calm /\ NoneGiven /\ DownKept /\ Steps
  BY <1>1, StoppedCalm, HostSame, CalmSteps
<1>4. \A e \in Dev \ {d} : Forgets(e)' <=> Forgets(e)
  BY <1>1, <1>2, <1>3 DEF Calm, Forgets
<1>5. \A e : Down(e)' <=> Down(e)
  BY <1>1 DEF Down, host
<1>6. ForgottenDown'
  <2> SUFFICES ASSUME mode' = "up", NEW e \in Dev \ returned', Forgets(e)'
               PROVE  Down(e)' /\ e \notin devices'
    BY DEF ForgottenDown, Steady
  <2>1. CASE e = d
    BY <1>1, <1>5, <1>d, <2>1
  <2>2. CASE e # d
    BY <1>1, <1>4, <1>5, <2>2 DEF Orderly, ForgottenDown, Steady
  <2> QED
    BY <2>1, <2>2
<1>7. MayFrom(2)
  <2> SUFFICES ASSUME NEW n \in 2..Len(inbox), NEW x \in Message, x = inbox[n]
               PROVE  May(x)'
    BY DEF MayFrom
  <2>1. May(x) /\ Before(Head(inbox), x, returned)
    BY <1>1, HeadBefore
  <2>2. CASE x.msg = "create"
    <3>1. x.dev \in Dev /\ failedIdentity'[x.dev] \subseteq failedIdentity[x.dev]
      BY <1>1, <1>2, <2>2, Messages
    <3> QED
      BY <1>1, <2>1, <2>2, <3>1 DEF May
  <2>3. CASE x.msg = "connected"
    <3>1. x.dev \in Dev /\ (x.dev # d \/ x.dev \in returned)
      BY <1>1, <2>1, <2>3, Messages DEF Before, d
    <3> QED
      BY <1>1, <1>4, <2>1, <2>3, <3>1 DEF May
  <2>4. CASE x.msg = "disconnected"
    BY <1>1, <1>5, <2>1, <2>4 DEF May
  <2>5. CASE x.msg = "terminated"
    <3>1. x.worker \in Slot /\ worker[x.worker].state = "dead"
      BY <2>1, <2>5, Messages DEF May
    <3>2. worker'[x.worker].state = "dead"
      BY <1>3, <3>1 DEF Calm
    <3> QED
      BY <2>5, <3>2 DEF May
  <2>6. CASE x.msg \notin {"disconnected", "create", "connected", "terminated"}
    BY <2>6 DEF May
  <2> QED
    BY <2>2, <2>3, <2>4, <2>5, <2>6
<1>8. BoxFine'
  BY <1>1, <1>3, <1>7, BoxWithoutHead
<1>9. ActorsKnown' /\ RefsKnown'
  BY <1>1, <1>3, ActorsKept, CalmRefs DEF host
<1> QED
  BY <1>6, <1>8, <1>9 DEF Orderly

(* FailedIdentify: no start with that identity comes behind it.              *)
LEMMA FailedIdentifyOrderly ==
  ASSUME IInv, Orderly, IInv', FailedIdentify
  PROVE  Orderly'
<1> DEFINE d == Head(inbox).dev
           i == Head(inbox).ident
<1>1. /\ UNCHANGED <<plugged, returned, host, device, worker, stopDue, devices, workerMap, mode>>
      /\ stopDue \subseteq Slot /\ inbox # <<>> /\ Head(inbox).msg = "failed" /\ d \in Dev
      /\ failedIdentity' = [failedIdentity EXCEPT ![d] = @ \cup {i}]
      /\ failedIdentity \in [Dev -> SUBSET Identity] /\ MaybePoll(Tail(inbox))
  BY HeadMay, Messages DEF FailedIdentify, Takes, hardware, IInv, TypeOK
<1>2. Calm /\ NoneGiven /\ DownKept /\ Steps
  BY <1>1, SameCalm, HostSame, CalmSteps
<1>3. \A e : (Down(e)' <=> Down(e)) /\ (Forgets(e)' <=> Forgets(e))
  BY <1>1 DEF Down, Forgets, host
<1>4. MayFrom(2)
  <2> SUFFICES ASSUME NEW n \in 2..Len(inbox), NEW x \in Message, x = inbox[n]
               PROVE  May(x)'
    BY DEF MayFrom
  <2>1. May(x) /\ Before(Head(inbox), x, returned)
    BY <1>1, HeadBefore
  <2>2. CASE x.msg = "create"
    <3>1. x.dev \in Dev /\ (x.dev # d \/ x.ident # i \/ x.dev \in returned)
      BY <1>1, <2>1, <2>2, Messages DEF Before
    <3> HIDE DEF d, i
    <3>2. x.ident \notin failedIdentity'[x.dev] \/ x.dev \in returned
      BY <1>1, <2>1, <2>2, <3>1 DEF May
    <3> QED
      BY <1>1, <2>2, <3>2 DEF May
  <2>3. CASE x.msg # "create"
    BY <1>1, <1>3, <2>1, <2>3 DEF May
  <2> QED
    BY <2>2, <2>3
<1> HIDE DEF d, i
<1>5. ForgottenDown'
  BY <1>1, <1>2, CalmForgotten
<1>6. BoxFine'
  <2>1. PICK q \in Seq(Message) : q = Tail(inbox)
    BY <1>1, HeadMay
  <2> QED
    BY <1>1, <1>2, <1>4, <2>1, BoxPolled
<1>7. ActorsKnown' /\ RefsKnown'
  BY <1>1, <1>2, ActorsKept, CalmRefs DEF host
<1> QED
  BY <1>5, <1>6, <1>7 DEF Orderly

LEMMA WorkerTerminatedOrderly ==
  ASSUME IInv, Orderly, IInv', WorkerTerminated
  PROVE  Orderly'
<1> DEFINE w == Head(inbox).worker
<1>1. /\ UNCHANGED <<plugged, returned, host, device, stopDue, manager>>
      /\ stopDue \subseteq Slot /\ inbox # <<>> /\ Head(inbox).msg = "terminated" /\ w \in Slot
      /\ inbox' = Tail(inbox) /\ worker[w].state = "dead"
      /\ worker' = [worker EXCEPT ![w].state = "removing"]
  BY HeadMay, Messages DEF WorkerTerminated, Takes, hardware, IInv, TypeOK, May
<1>2. /\ worker'[w].dev = worker[w].dev /\ worker'[w].ref = worker[w].ref
      /\ worker'[w].state = "removing"
      /\ \A v \in Slot \ {w} : worker'[v] = worker[v]
  <2>1. worker \in [Slot -> WorkerType] /\ worker[w] \in WorkerType
    BY <1>1 DEF IInv, TypeOK, WorkerType
  <2> QED
    BY <1>1, <2>1 DEF WorkerType
<1> HIDE DEF w
<1>3. NoneGiven
  BY <1>2 DEF NoneGiven
<1>4. RefsKnown'
  BY <1>1, <1>2 DEF Orderly, RefsKnown
<1>5. \A e : (Down(e)' <=> Down(e)) /\ (Forgets(e)' <=> Forgets(e))
  <2>1. \A e : Down(e)' <=> Down(e)
    BY <1>1 DEF Down, host
  <2>2. \A v \in Slot : /\ worker'[v].dev = worker[v].dev
                        /\ worker'[v].state = "gone" <=> worker[v].state = "gone"
    BY <1>1, <1>2
  <2>3. \A e : Forgets(e)' <=> Forgets(e)
    BY <1>1, <2>2 DEF Forgets, manager
  <2> QED
    BY <2>1, <2>3
<1>6. ForgottenDown'
  BY <1>1, <1>5 DEF Orderly, ForgottenDown, Steady, manager
<1>7. MayFrom(2)
  <2> SUFFICES ASSUME NEW n \in 2..Len(inbox), NEW x \in Message, x = inbox[n]
               PROVE  May(x)'
    BY DEF MayFrom
  <2>1. May(x) /\ Before(Head(inbox), x, returned)
    BY <1>1, HeadBefore
  <2>2. x.msg = "terminated" => x.worker # w /\ x.worker \in Slot
    BY <1>1, <2>1, Messages DEF Before, w
  <2> QED
    BY <1>1, <1>2, <1>5, <2>1, <2>2 DEF May, manager
<1>8. BoxFine'
  BY <1>1, <1>2, <1>7, BoxWithoutHead DEF Steps
<1>9. ActorsKnown'
  BY <1>1, <1>3, ActorsKept DEF host
<1> QED
  BY <1>4, <1>6, <1>8, <1>9 DEF Orderly

(* PollDevices: a device with a worker that failed and is not removed yet is *)
(* polled only if the manager has that worker for it.                        *)
LEMMA PollDevicesOrderly ==
  ASSUME IInv, Orderly, IInv', PollDevices
  PROVE  Orderly'
<1> DEFINE wanted == {d \in devices : mode = "up" /\ workerMap[d] = None /\ Candidates(d) # {}}
<1>1. /\ UNCHANGED <<plugged, returned, host, device, worker, stopDue, devices, workerMap,
                    failedIdentity, mode>>
      /\ stopDue \subseteq Slot /\ inbox # <<>> /\ Head(inbox).msg = "poll"
      /\ wanted \subseteq Dev
  BY DEF PollDevices, Takes, hardware, IInv, TypeOK
<1>2. PICK pick \in [wanted -> Identity] :
        /\ \A d \in wanted : pick[d] \in FirstChoices(d)
        /\ inbox' = Tail(inbox) \o SetToSeq({Create(d, pick[d]) : d \in wanted})
  BY Zenon DEF PollDevices
<1>3. \A d \in wanted : pick[d] \in Identity /\ pick[d] \notin failedIdentity[d]
  BY <1>2 DEF FirstChoices, Candidates
<1>4. \A d \in wanted : d \in returned \/ ~ Forgets(d)
  BY <1>1 DEF Orderly, ForgottenDown, Steady
<1>n. \A d \in wanted : workerMap[d] = None
  OBVIOUS
<1>5. \A d, i : Create(d, i).msg = "create" /\ Create(d, i).dev = d /\ Create(d, i).ident = i
  BY DEF Create
<1> DEFINE S == {Create(d, pick[d]) : d \in wanted}
<1>6. IsFiniteSet(S)
  <2>1. IsFiniteSet(wanted)
    BY <1>1, Constants, FS_Subset
  <2> HIDE DEF wanted
  <2> DEFINE f == [d \in wanted |-> Create(d, pick[d])]
  <2>2. f \in Surjection(wanted, S)
    BY DEF Surjection
  <2> QED
    BY <2>1, <2>2, FS_Surjection
<1> HIDE DEF wanted
<1>7. \A x \in S : \E d \in wanted : x = Create(d, pick[d])
  OBVIOUS
<1>8. S \subseteq Message
  BY <1>1, <1>3, <1>7, Messages
<1>9. inbox' = Tail(inbox) \o SetToSeq(S)
  BY <1>2
<1> HIDE DEF S
<1>10. PICK r \in Seq(Message) :
         inbox' = Tail(inbox) \o r /\ \A n \in 1..Len(r) : r[n] \in S
  <2>1. SetToSeq(S) \in Seq(S)
    BY <1>6, SetToSeqElements
  <2>2. SetToSeq(S) \in Seq(Message) /\ \A n \in 1..Len(SetToSeq(S)) : SetToSeq(S)[n] \in S
    BY <1>8, <2>1, SeqMonotonic, ElementOfSeq
  <2> QED
    BY <1>9, <2>2
<1>11. ASSUME NEW n \in 1..Len(r)
       PROVE  /\ r[n].msg = "create" /\ r[n].dev \in wanted
              /\ r[n].ident \notin failedIdentity[r[n].dev]
  BY <1>3, <1>5, <1>7, <1>10
<1>12. Calm /\ NoneGiven /\ DownKept /\ Steps
  BY <1>1, SameCalm, HostSame, CalmSteps
<1>13. MayFrom(2) /\ ForgottenDown'
  BY <1>1, <1>12, CalmMay, MayLater, CalmForgotten
<1>14. \A n \in 1..Len(r) : May(r[n])'
  BY <1>1, <1>11 DEF May
<1>15. Ordered(r, returned) /\ Paired(r, worker')
  BY <1>11 DEF Ordered, Paired, Before
<1>16. ASSUME NEW m \in 1..Len(Tail(inbox)), NEW n \in 1..Len(r)
       PROVE  Before(Tail(inbox)[m], r[n], returned)
  <2>1. CASE Tail(inbox)[m].msg = "failed"
    <3>1. inbox \in Seq(Message)
      BY HeadMay, <1>1
    <3>2. m + 1 \in 1..Len(inbox) /\ Tail(inbox)[m] = inbox[m + 1]
      BY <1>1, <3>1, Rest
    <3>3. /\ (m + 1) + 1 \in 1..Len(inbox) /\ inbox[(m + 1) + 1].msg = "terminated"
          /\ worker[inbox[(m + 1) + 1].worker].dev = Tail(inbox)[m].dev
      BY <2>1, <3>2 DEF Orderly, BoxFine, Paired
    <3>4. PICK k \in 1..Len(inbox) : inbox[k].msg = "terminated"
                                     /\ worker[inbox[k].worker].dev = Tail(inbox)[m].dev
      BY <3>3
    <3>5. inbox[k].worker \in Slot /\ worker[inbox[k].worker].state = "dead"
      BY <3>4, BoxIndices DEF Orderly, BoxFine, AllMay, May
    <3>6. ASSUME Tail(inbox)[m].dev = r[n].dev
          PROVE  r[n].dev \in returned
      <4>1. workerMap[r[n].dev] # inbox[k].worker
        BY <1>n, <1>11, <3>5, Constants
      <4>2. Forgets(r[n].dev)
        BY <3>4, <3>5, <3>6, <4>1 DEF Forgets
      <4> QED
        BY <1>4, <1>11, <4>2
    <3> QED
      BY <1>11, <2>1, <3>6 DEF Before
  <2>2. CASE Tail(inbox)[m].msg # "failed"
    BY <1>11, <2>2 DEF Before
  <2> QED
    BY <2>1, <2>2
<1>17. BoxFine'
  <2>1. PICK q \in Seq(Message) : q = Tail(inbox)
    BY <1>1, HeadMay
  <2> QED
    BY <1>1, <1>10, <1>12, <1>13, <1>14, <1>15, <1>16, <2>1, BoxNext DEF Steps
<1>18. ActorsKnown' /\ RefsKnown'
  BY <1>1, <1>12, ActorsKept, CalmRefs DEF host
<1> QED
  BY <1>13, <1>17, <1>18 DEF Orderly

(* A worker starts in the place of one that is gone. *)
LEMMA Starts ==
  ASSUME IInv, NEW d \in Dev, NEW i \in Identity, StartWorker(d, i)
  PROVE  \E w \in Slot :
           /\ worker[w].state = "gone" /\ worker'[w].state = "connecting"
           /\ worker'[w].dev = d /\ worker'[w].ident = i /\ worker'[w].ref = None
           /\ \A v \in Slot \ {w} : worker'[v] = worker[v]
           /\ workerMap'[d] = w /\ \A e \in Dev \ {d} : workerMap'[e] = workerMap[e]
           /\ UNCHANGED <<devices, failedIdentity, mode>>
<1>1. worker \in [Slot -> WorkerType] /\ workerMap \in [Dev -> Slot \cup {None}]
  BY DEF IInv, TypeOK, WorkerType
<1>2. PICK w \in Slot :
        /\ Free(w)
        /\ worker' = [worker EXCEPT ![w] =
             [dev |-> d, ident |-> i, state |-> "connecting", ref |-> None, inited |-> FALSE]]
        /\ workerMap' = [workerMap EXCEPT ![d] = w]
        /\ UNCHANGED <<devices, failedIdentity, mode>>
  BY DEF StartWorker
<1>3. /\ worker'[w].state = "connecting"
      /\ worker'[w].dev = d /\ worker'[w].ident = i /\ worker'[w].ref = None
      /\ \A v \in Slot \ {w} : worker'[v] = worker[v]
  BY <1>1, <1>2
<1>4. workerMap'[d] = w /\ \A e \in Dev \ {d} : workerMap'[e] = workerMap[e]
  BY <1>1, <1>2
<1> QED
  BY <1>2, <1>3, <1>4 DEF Free

(* The message that CreateDeviceIdentity takes. *)
LEMMA Creates ==
  ASSUME IInv, Orderly, ReceiveCreate
  PROVE  LET d == Head(inbox).dev
             i == Head(inbox).ident IN
         /\ inbox # <<>> /\ inbox' = Tail(inbox) /\ mode # "restarting"
         /\ UNCHANGED <<plugged, returned, host, device, stopDue>> /\ stopDue \subseteq Slot
         /\ d \in Dev /\ i \in Identity
         /\ i \notin failedIdentity[d] \/ d \in returned
         /\ \/ workerMap[d] # None /\ UNCHANGED <<worker, manager>>
            \/ workerMap[d] = None /\ StartWorker(d, i)
            \/ workerMap[d] = None /\ NameTaken(d, i) /\ NameClash
<1> DEFINE d == Head(inbox).dev
           i == Head(inbox).ident
<1>1. /\ inbox # <<>> /\ Head(inbox).msg = "create" /\ inbox' = Tail(inbox)
      /\ UNCHANGED <<hardware, host, device, stopDue>> /\ CreateDeviceIdentity(d, i)
      /\ mode # "restarting" /\ stopDue \subseteq Slot
  BY DEF ReceiveCreate, Takes, IInv, TypeOK
<1>2. /\ d \in Dev /\ i \in Identity
      /\ i \notin failedIdentity[d] \/ d \in returned
  BY <1>1, HeadMay, Messages DEF May
<1> QED
  BY <1>1, <1>2 DEF CreateDeviceIdentity, hardware

LEMMA ReceiveCreateOrderly ==
  ASSUME IInv, Orderly, IInv', ReceiveCreate
  PROVE  Orderly'
<1> DEFINE d == Head(inbox).dev
           i == Head(inbox).ident
<1>1. /\ inbox # <<>> /\ inbox' = Tail(inbox)
      /\ UNCHANGED <<plugged, returned, host, device, stopDue>> /\ stopDue \subseteq Slot
      /\ d \in Dev /\ i \in Identity
      /\ \/ UNCHANGED <<worker, manager>>
         \/ workerMap[d] = None /\ StartWorker(d, i)
         \/ NameClash
  BY Creates
<1> HIDE DEF d, i
<1>2. CASE UNCHANGED <<worker, manager>> \/ NameClash
  <2>1. Calm /\ NoneGiven /\ DownKept /\ Steps
    BY <1>1, <1>2, SameCalm, StoppedCalm, HostSame, CalmSteps DEF NameClash
  <2>2. /\ UNCHANGED <<devices, workerMap, failedIdentity>>
        /\ mode' = "up" => mode = "up"
    BY <1>2 DEF manager, NameClash
  <2>3. ForgottenDown' /\ MayFrom(2)
    BY <1>1, <2>1, <2>2, CalmForgotten, CalmMay, MayLater
  <2>4. BoxFine'
    BY <1>1, <2>1, <2>3, BoxWithoutHead
  <2>5. ActorsKnown' /\ RefsKnown'
    BY <1>1, <2>1, ActorsKept, CalmRefs DEF host
  <2> QED
    BY <2>3, <2>4, <2>5 DEF Orderly
<1>3. CASE workerMap[d] = None /\ StartWorker(d, i)
  <2>1. PICK w \in Slot :
          /\ worker[w].state = "gone" /\ worker'[w].state = "connecting"
          /\ worker'[w].dev = d /\ worker'[w].ref = None
          /\ \A v \in Slot \ {w} : worker'[v] = worker[v]
          /\ workerMap'[d] = w /\ \A e \in Dev \ {d} : workerMap'[e] = workerMap[e]
          /\ UNCHANGED <<devices, failedIdentity, mode>>
    BY <1>1, <1>3, Starts
  <2>2. NoneGiven /\ Steps
    BY <1>1, <2>1 DEF NoneGiven, Steps
  <2>3. RefsKnown'
    BY <1>1, <2>1 DEF Orderly, RefsKnown
  <2>4. \A e : Down(e)' <=> Down(e)
    BY <1>1 DEF Down, host
  <2>5. \A e \in Dev : Forgets(e)' => Forgets(e)
    <3> SUFFICES ASSUME NEW e \in Dev, NEW v \in Slot, worker'[v].dev = e,
                        worker'[v].state # "gone", workerMap'[e] # v
                 PROVE  Forgets(e)
      BY DEF Forgets
    <3>1. v # w
      BY <2>1
    <3>2. worker[v].dev = e /\ worker[v].state # "gone"
      BY <2>1, <3>1
    <3>3. workerMap[e] # v
      BY <1>3, <2>1, Constants
    <3> QED
      BY <3>2, <3>3 DEF Forgets
  <2>6. ForgottenDown'
    BY <1>1, <2>1, <2>4, <2>5 DEF Orderly, ForgottenDown, Steady
  <2>7. MayFrom(2)
    <3> SUFFICES ASSUME NEW n \in 2..Len(inbox), NEW x \in Message, x = inbox[n]
                 PROVE  May(x)'
      BY DEF MayFrom
    <3>1. May(x)
      BY <1>1, HeadBefore
    <3>2. CASE x.msg = "connected"
      BY <1>1, <2>1, <2>5, <3>1, <3>2, Messages DEF May
    <3>3. CASE x.msg = "terminated"
      <4>1. x.worker \in Slot /\ worker[x.worker].state = "dead"
        BY <3>1, <3>3, Messages DEF May
      <4>2. worker'[x.worker].state = "dead"
        BY <2>1, <4>1
      <4> QED
        BY <3>3, <4>2 DEF May
    <3>4. CASE x.msg \notin {"connected", "terminated"}
      BY <1>1, <2>1, <2>4, <3>1, <3>4 DEF May
    <3> QED
      BY <3>2, <3>3, <3>4
  <2>8. BoxFine'
    BY <1>1, <2>2, <2>7, BoxWithoutHead
  <2>9. ActorsKnown'
    BY <1>1, <2>2, ActorsKept DEF host
  <2> QED
    BY <2>3, <2>6, <2>8, <2>9 DEF Orderly
<1> QED
  BY <1>1, <1>2, <1>3

(* RestartManager forgets everything, but the drivers are lost then. *)
LEMMA RestartManagerOrderly ==
  ASSUME IInv, Orderly, IInv', RestartManager
  PROVE  Orderly'
<1>1. /\ UNCHANGED <<plugged, returned, host, device, worker, stopDue, inbox>>
      /\ stopDue \subseteq Slot /\ mode' = "bare"
      /\ \A d \in Dev : failedIdentity'[d] = {}
  BY DEF RestartManager, hardware, IInv, TypeOK
<1>2. Calm /\ NoneGiven /\ DownKept /\ Steps
  BY <1>1, SameCalm, HostSame, CalmSteps
<1>3. MayFrom(1)
  <2> SUFFICES ASSUME NEW n \in 1..Len(inbox), NEW x \in Message, x = inbox[n]
               PROVE  May(x)'
    BY DEF MayFrom
  <2>1. May(x)
    BY DEF Orderly, BoxFine, AllMay
  <2>2. x.msg = "create" => x.dev \in Dev
    BY Messages
  <2>3. \A e : Down(e)' <=> Down(e)
    BY <1>1 DEF Down, host
  <2> QED
    BY <1>1, <2>1, <2>2, <2>3 DEF May
<1>4. BoxFine'
  BY <1>1, <1>2, <1>3, BoxKeptWhole
<1>5. ForgottenDown'
  BY <1>1 DEF ForgottenDown
<1>6. ActorsKnown' /\ RefsKnown'
  BY <1>1, <1>2, ActorsKept, CalmRefs DEF host
<1> QED
  BY <1>4, <1>5, <1>6 DEF Orderly

LEMMA IdentityResetOrderly ==
  ASSUME IInv, Orderly, IInv', IdentityReset
  PROVE  Orderly'
<1>1. /\ UNCHANGED <<plugged, returned, host, device, worker, stopDue, devices, workerMap, mode>>
      /\ stopDue \subseteq Slot /\ inbox' = Append(inbox, Poll)
      /\ \A d \in Dev : failedIdentity'[d] = {}
  BY DEF IdentityReset, hardware, IInv, TypeOK
<1>2. Calm /\ NoneGiven /\ DownKept /\ Steps
  BY <1>1, SameCalm, HostSame, CalmSteps
<1>3. MayFrom(1) /\ ForgottenDown'
  BY <1>1, <1>2, CalmMay, CalmForgotten
<1>4. BoxFine'
  <2>1. PICK q \in Seq(Message) : q = inbox
    BY DEF IInv, TypeOK
  <2> QED
    BY <1>1, <1>2, <1>3, <2>1, BoxWithPoll
<1>5. ActorsKnown' /\ RefsKnown'
  BY <1>1, <1>2, ActorsKept, CalmRefs DEF host
<1> QED
  BY <1>3, <1>4, <1>5 DEF Orderly

LEMMA RemoveRefOrderly ==
  ASSUME IInv, Orderly, IInv', NEW w \in Slot, RemoveRef(w)
  PROVE  Orderly'
<1>1. /\ UNCHANGED <<plugged, returned, host, device, stopDue, devices, failedIdentity, mode>>
      /\ stopDue \subseteq Slot /\ w \notin stopDue /\ worker[w].state = "removing"
      /\ workerMap' = [d \in Dev |-> IF workerMap[d] = w THEN None ELSE workerMap[d]]
      /\ MaybePoll(inbox) /\ inbox \in Seq(Message)
  BY DEF RemoveRef, hardware, IInv, TypeOK
<1>2. /\ worker'[w].dev = worker[w].dev /\ worker'[w].ref = None /\ worker'[w].state = "gone"
      /\ \A v \in Slot \ {w} : worker'[v] = worker[v]
  <2>1. worker \in [Slot -> WorkerType] /\ worker[w] \in WorkerType
    BY DEF IInv, TypeOK, WorkerType
  <2> QED
    BY <2>1 DEF RemoveRef, Gone, WorkerType
<1>3. NoneGiven
  BY <1>2 DEF NoneGiven
<1>4. RefsKnown'
  BY <1>1, <1>2 DEF Orderly, RefsKnown
<1>5. \A e : Down(e)' <=> Down(e)
  BY <1>1 DEF Down, host
<1>6. \A e \in Dev : Forgets(e)' => Forgets(e)
  <2> SUFFICES ASSUME NEW e \in Dev, NEW v \in Slot, worker'[v].dev = e,
                      worker'[v].state # "gone", workerMap'[e] # v
               PROVE  Forgets(e)
    BY DEF Forgets
  <2>1. v # w /\ worker[v].dev = e /\ worker[v].state # "gone"
    BY <1>2
  <2>2. workerMap[e] # v
    BY <1>1, <2>1
  <2> QED
    BY <2>1, <2>2 DEF Forgets
<1>7. ForgottenDown'
  BY <1>1, <1>5, <1>6 DEF Orderly, ForgottenDown, Steady
<1>8. MayFrom(1)
  <2> SUFFICES ASSUME NEW n \in 1..Len(inbox), NEW x \in Message, x = inbox[n]
               PROVE  May(x)'
    BY DEF MayFrom
  <2>1. May(x)
    BY DEF Orderly, BoxFine, AllMay
  <2>2. CASE x.msg \in {"create", "connected"}
    BY <1>1, <1>6, <2>1, <2>2, Messages DEF May
  <2>3. CASE x.msg = "disconnected"
    BY <1>1, <1>5, <2>1, <2>3 DEF May
  <2>4. CASE x.msg = "terminated"
    <3>1. x.worker \in Slot /\ worker[x.worker].state = "dead"
      BY <2>1, <2>4, Messages DEF May
    <3>2. worker'[x.worker].state = "dead"
      BY <1>1, <1>2, <3>1
    <3> QED
      BY <2>4, <3>2 DEF May
  <2>5. CASE x.msg \notin {"disconnected", "create", "connected", "terminated"}
    BY <2>5 DEF May
  <2> QED
    BY <2>2, <2>3, <2>4, <2>5
<1>9. BoxFine'
  <2>1. PICK q \in Seq(Message) : q = inbox
    BY <1>1
  <2>2. Steps
    BY <1>1, <1>2 DEF Steps
  <2> QED
    BY <1>1, <1>8, <2>1, <2>2, BoxPolled
<1>10. ActorsKnown'
  BY <1>1, <1>3, ActorsKept DEF host
<1> QED
  BY <1>4, <1>7, <1>9, <1>10 DEF Orderly
-----------------------------------------------------------------------------
LEMMA InitOrderly ==
  ASSUME Init
  PROVE  Orderly
<1>1. \A w \in Slot : worker[w].state = "gone" /\ worker[w].ref = None
  BY DEF Init, Idle
<1>2. stopDue = {} /\ inbox = <<>> /\ \A d \in Dev : deviceActors[d] = None
  BY DEF Init
<1>3. ActorsKnown /\ RefsKnown /\ ForgottenDown
  BY <1>1, <1>2 DEF ActorsKnown, RefsKnown, ForgottenDown, Forgets
<1>4. BoxFine
  BY <1>2 DEF BoxFine, AllMay, Ordered, Paired
<1> QED
  BY <1>3, <1>4 DEF Orderly

LEMMA StutterOrderly ==
  ASSUME IInv, Orderly, IInv', UNCHANGED vars
  PROVE  Orderly'
<1>1. /\ UNCHANGED <<plugged, returned, host, device, worker, stopDue, manager, inbox>>
      /\ stopDue \subseteq Slot
  BY DEF vars, hardware, IInv, TypeOK
<1>2. Calm /\ NoneGiven /\ DownKept
  BY <1>1, SameCalm, HostSame
<1>3. ActorsKnown' /\ RefsKnown'
  BY <1>1, <1>2, ActorsKept, CalmRefs DEF host
<1> QED
  BY <1>1, <1>2, <1>3, Quiet DEF Orderly, manager

LEMMA NextOrderly ==
  ASSUME IInv, Orderly, [Next]_vars
  PROVE  Orderly'
<1>1. IInv'
  BY NextIInv
<1>2. CASE \/ \E d \in Dev : Plug(d) \/ DeviceGone(d) \/ DeviceFails(d)
           \/ \E g \in Ref : DeviceStops(g)
           \/ \E w \in Slot : StopDevice(w)
  BY <1>1, <1>2, HardwareOrderly
<1>3. CASE \E g \in Ref : DeviceTerminated(g)
  BY <1>1, <1>3, DeviceTerminatedOrderly
<1>4. CASE UpdateDeviceList
  BY <1>1, <1>4, UpdateDeviceListOrderly
<1>5. CASE \E w \in Slot : Connect(w) \/ WorkerStep(w) \/ WorkerFails(w)
  BY <1>1, <1>5, ConnectOrderly, WorkersOrderly, PostStopOrderly DEF WorkerStep
<1>6. CASE ManagerStep
  BY <1>1, <1>6, DeviceConnectedOrderly, DeviceDisconnectedOrderly, FailedIdentifyOrderly,
     WorkerTerminatedOrderly, PollDevicesOrderly, ReceiveCreateOrderly, RestartManagerOrderly
     DEF ManagerStep
<1>7. CASE IdentityReset
  BY <1>1, <1>7, IdentityResetOrderly
<1>8. CASE \E w \in Slot : RemoveRef(w)
  BY <1>1, <1>8, RemoveRefOrderly
<1>9. CASE UNCHANGED vars
  BY <1>1, <1>9, StutterOrderly
<1> QED
  BY <1>2, <1>3, <1>4, <1>5, <1>6, <1>7, <1>8, <1>9 DEF Next

LEMMA InductiveOrderly == Spec => [](IInv /\ Orderly)
<1>1. Init => IInv /\ Orderly
  BY InitIInv, InitOrderly
<1>2. IInv /\ Orderly /\ [Next]_vars => IInv' /\ Orderly'
  BY NextIInv, NextOrderly
<1> QED
  BY <1>1, <1>2, PTL DEF Spec

(* The stop of its device that a stopped worker left behind never hits a     *)
(* device actor that the next worker uses, unless the device came back too   *)
(* soon.  Whatever the delays: the worker is mapped until RemoveRef, which   *)
(* comes after the stop, or its device is gone.                              *)
THEOREM StopsHitTheirOwn == Spec => []StopHitsNobodyElse
<1>1. ASSUME IInv, Orderly
      PROVE  StopHitsNobodyElse
  <2> SUFFICES ASSUME mode = "up", NEW w \in stopDue, NEW v \in Slot \ {w},
                      worker[w].dev \notin returned,
                      worker[v].state \in {"detecting", "mining"},
                      worker[v].ref = worker[w].ref, device[worker[w].ref] = "up"
               PROVE  FALSE
    BY DEF StopHitsNobodyElse
  <2>1. /\ w \in Slot /\ worker[w].state \in {"dead", "removing"} /\ worker[w].ref # None
        /\ worker[v].state \in Live
    BY <1>1, States DEF Orderly, RefsKnown, IInv, TypeOK
  <2>2. worker[w].dev \in Dev /\ worker[v].dev \in Dev
    BY <1>1, <2>1 DEF IInv, Known, Started
  <2>3. deviceActors[worker[w].dev] = worker[w].ref /\ deviceActors[worker[v].dev] = worker[w].ref
    BY <1>1, <2>1 DEF Orderly, ActorsKnown
  <2>4. worker[w].dev = worker[v].dev
    BY <1>1, <2>1, <2>2, <2>3 DEF Orderly, ActorsKnown
  <2>5. workerMap[worker[v].dev] = v
    BY <1>1, <2>1 DEF IInv, LiveWorkersMapped
  <2>6. Forgets(worker[w].dev)
    BY <2>1, <2>4, <2>5 DEF Forgets
  <2>7. Down(worker[w].dev)
    BY <1>1, <2>2, <2>6 DEF Orderly, ForgottenDown, Steady
  <2> QED
    BY <2>1, <2>3, <2>7 DEF Down
<1> QED
  BY <1>1, InductiveOrderly, PTL

(* An identity that failed on a device is not tried there again before the   *)
(* next IdentityReset, unless the device came back too soon.                 *)
THEOREM FailedLeftAlone == Spec => FailedNotRetried
<1> DEFINE Good == \A d \in Dev \ returned :
             workerMap'[d] # None /\ workerMap'[d] # workerMap[d]
               => worker'[workerMap'[d]].ident \notin failedIdentity[d]
<1>1. ASSUME IInv, Orderly, ReceiveCreate
      PROVE  Good
  <2> DEFINE e == Head(inbox).dev
             i == Head(inbox).ident
  <2>1. /\ e \in Dev /\ i \in Identity
        /\ i \notin failedIdentity[e] \/ e \in returned
        /\ UNCHANGED manager \/ StartWorker(e, i) \/ NameClash
    BY <1>1, Creates
  <2> HIDE DEF e, i
  <2>2. CASE UNCHANGED manager \/ NameClash
    BY <2>2 DEF manager, NameClash
  <2>3. CASE StartWorker(e, i)
    <3>1. PICK w \in Slot :
            /\ worker'[w].ident = i /\ workerMap'[e] = w
            /\ \A d \in Dev \ {e} : workerMap'[d] = workerMap[d]
      BY <1>1, <2>1, <2>3, Starts
    <3> QED
      BY <2>1, <3>1
  <2> QED
    BY <2>1, <2>2, <2>3
<1>2. ASSUME IInv, Next, ~ ReceiveCreate
      PROVE  Good
  <2>0. workerMap \in [Dev -> Slot \cup {None}]
    BY <1>2 DEF IInv, TypeOK
  <2>1. CASE workerMap' = workerMap
    BY <2>1
  <2>2. CASE DeviceDisconnected
    BY <2>0, <2>2 DEF DeviceDisconnected, Forget
  <2>3. CASE \E w \in Slot : RemoveRef(w)
    BY <2>0, <2>3 DEF RemoveRef
  <2>4. CASE RestartManager
    BY <2>4 DEF RestartManager
  <2>5. \/ workerMap' = workerMap \/ DeviceDisconnected \/ RestartManager
        \/ \E w \in Slot : RemoveRef(w)
    BY <1>2
       DEF Next, Plug, DeviceGone, DeviceFails, DeviceActorStops, DeviceStops, DeviceTerminated,
           UpdateDeviceList, Connect, WorkerStep, ReadAnswer, Detect, WrongIdentity, LosesDevice,
           PostStop, WorkerFails, StopDevice, ManagerStep, DeviceConnected, FailedIdentify,
           WorkerTerminated, PollDevices, IdentityReset, manager
  <2> QED
    BY <2>1, <2>2, <2>3, <2>4, <2>5
<1>3. IInv /\ Orderly /\ [Next]_vars => [Good]_vars
  BY <1>1, <1>2
<1> QED
  BY <1>3, InductiveOrderly, PTL DEF Spec, FailedNotRetried

(* Only a device that is not there, or came back too soon, makes the manager *)
(* trip over a worker's name and lose its drivers: the name of a device's    *)
(* worker is taken only if the manager forgot that worker.                   *)
THEOREM ClashByUnplug == Spec => ClashNeedsUnplug
<1> DEFINE Good == mode = "up" /\ mode' # "up" =>
             \E d \in Dev : Head(inbox).dev = d /\ (d \notin plugged \/ d \in returned)
<1>1. ASSUME IInv, Orderly, ReceiveCreate
      PROVE  Good
  <2> DEFINE e == Head(inbox).dev
             i == Head(inbox).ident
  <2>1. /\ e \in Dev /\ i \in Identity
        /\ \/ UNCHANGED manager \/ StartWorker(e, i)
           \/ workerMap[e] = None /\ NameTaken(e, i)
    BY <1>1, Creates
  <2>2. CASE workerMap[e] = None /\ NameTaken(e, i)
    <3>1. PICK w \in Slot : worker[w].dev = e /\ worker[w].state # "gone"
      BY <2>2, States DEF NameTaken
    <3>2. Forgets(e)
      BY <2>2, <3>1, Constants DEF Forgets
    <3>3. mode = "up" => e \in returned \/ Down(e)
      BY <1>1, <2>1, <3>2 DEF Orderly, ForgottenDown, Steady
    <3> QED
      BY <2>1, <3>3 DEF Down
  <2>3. CASE UNCHANGED manager \/ StartWorker(e, i)
    BY <2>3 DEF manager, StartWorker
  <2> QED
    BY <2>1, <2>2, <2>3
<1>2. ASSUME Next, ~ ReceiveCreate
      PROVE  Good
  <2>1. mode' = mode \/ RestartManager
    BY <1>2
       DEF Next, Plug, DeviceGone, DeviceFails, DeviceActorStops, DeviceStops, DeviceTerminated,
           UpdateDeviceList, Connect, WorkerStep, ReadAnswer, Detect, WrongIdentity, LosesDevice,
           PostStop, WorkerFails, StopDevice, ManagerStep, DeviceConnected, FailedIdentify,
           WorkerTerminated, PollDevices, IdentityReset, DeviceDisconnected, RemoveRef, manager
  <2> QED
    BY <2>1 DEF RestartManager
<1>3. IInv /\ Orderly /\ [Next]_vars => [Good]_vars
  BY <1>1, <1>2
<1> QED
  BY <1>3, InductiveOrderly, PTL DEF Spec, ClashNeedsUnplug
=============================================================================
