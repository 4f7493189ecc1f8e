------------------------------ MODULE UsbDevice ------------------------------
(***************************************************************************)
(* The UsbDevice actor (io/usb/UsbDevice.scala): per-endpoint queues of    *)
(* IRPs, one libusb transfer in flight per endpoint, completions that run  *)
(* on the selector's thread and come back to the actor as UnbusyEndpoint   *)
(* messages, and the failures that stop it.                                *)
(*                                                                         *)
(* One handler of the actor, or one run of the libusb callback, is one     *)
(* action.  A stopped actor handles no further message: the Terminate      *)
(* system message overtakes every user message in the mailbox.             *)
(***************************************************************************)
EXTENDS Naturals, Sequences, FiniteSets

CONSTANTS
  Request,      \* request slots: an actor with n requests outstanding owns n
  Endpoint,     \* endpoints of the device
  Control,      \* Usb.ControlEndpoint, which needs no interface
  Interface,    \* USB interfaces of the device
  EndpointOf,   \* the endpoint each request is for
  InterfaceOf,  \* the interface of each endpoint other than Control
  MaxQueue      \* maxUsbQueueSize

ASSUME DeviceAssumption ==
  /\ Control \in Endpoint
  /\ EndpointOf \in [Request -> Endpoint]
  /\ InterfaceOf \in [Endpoint \ {Control} -> Interface]
  /\ MaxQueue \in Nat /\ MaxQueue > 1

VARIABLES
  status,    \* the actor: "running", "stopping" (stop or exception seen), "stopped"
  queue,     \* endpointQueues; an absent queue and an empty one behave alike
  busy,      \* busyEndpoints
  inflight,  \* transfers submitted to libusb whose callback has not run
  unbusy,    \* UnbusyEndpoint messages scheduled or in the mailbox
  claimed,   \* claimedInterfaces
  outcome    \* what each requester has heard of its latest request

vars == <<status, queue, busy, inflight, unbusy, claimed, outcome>>

Outcome == {"idle", "waiting", "ok", "error"}

(* Types of the device's state: of an endpoint's UnbusyEndpoints one at most *)
(* is scheduled or in the mailbox.                                           *)
TypeOK ==
  /\ status \in {"running", "stopping", "stopped"}
  /\ queue \in [Endpoint -> Seq(Request)]
  /\ busy \in SUBSET Endpoint
  /\ inflight \in [Endpoint -> SUBSET Request]
  /\ unbusy \in [Endpoint -> 0..1]
  /\ claimed \in SUBSET Interface
  /\ outcome \in [Request -> Outcome]

Init ==
  /\ status = "running"
  /\ queue = [ep \in Endpoint |-> <<>>]
  /\ busy = {}
  /\ inflight = [ep \in Endpoint |-> {}]
  /\ unbusy = [ep \in Endpoint |-> 0]
  /\ claimed = {}
  /\ outcome = [r \in Request |-> "idle"]

(* The interfaces a transfer on ep has to claim first. *)
Needs(ep) == IF ep = Control THEN {} ELSE {InterfaceOf[ep]}

(* Slip: a refused submission is logged and the device lives on. *)
SubmitErrorIgnored(ep, r) ==
  /\ busy' = busy \cup {ep}
  /\ claimed' = claimed \cup Needs(ep)
  /\ status' = status
  /\ \/ inflight' = [inflight EXCEPT ![ep] = @ \cup {r}]
     \/ inflight' = inflight

(* Slip: the endpoint is marked busy for control transfers only. *)
SubmitBulkNotBusy(ep, r) ==
  /\ busy' = busy \cup ({ep} \cap {Control})
  /\ inflight' = [inflight EXCEPT ![ep] = @ \cup {r}]
  /\ claimed' = claimed \cup Needs(ep)
  /\ status' = status

(* rawIrp, rawBulkTransfer: mark the endpoint busy, claim the interface on  *)
(* its first use, submit.  Detaching the kernel's driver and submitting may *)
(* both throw; the request is then in no queue and its requester waits on.  *)
Submit(ep, r) ==
  /\ busy' = busy \cup {ep}
  /\ \/ /\ inflight' = [inflight EXCEPT ![ep] = @ \cup {r}]
        /\ claimed' = claimed \cup Needs(ep)
        /\ status' = status
     \/ /\ claimed' = claimed \cup Needs(ep)
        /\ status' = "stopping"
        /\ inflight' = inflight
     \/ /\ ~ (Needs(ep) \subseteq claimed)
        /\ status' = "stopping"
        /\ UNCHANGED <<inflight, claimed>>

(* Slip: the newest request goes out first. *)
CheckEndpointQueueLifo(ep, q) ==
  \/ /\ q = <<>>
     /\ queue' = queue
     /\ busy' = busy \ {ep}
     /\ UNCHANGED <<status, inflight, claimed>>
  \/ /\ q # <<>>
     /\ queue' = [queue EXCEPT ![ep] = SubSeq(q, 1, Len(q) - 1)]
     /\ Submit(ep, q[Len(q)])

(* checkEndpointQueue on an endpoint that is not busy and whose queue holds *)
(* q: nothing to do; or queueFor's require fails, for this is the second    *)
(* place that calls it; or the oldest request goes out.                     *)
CheckEndpointQueue(ep, q) ==
  \/ /\ q = <<>>
     /\ queue' = [queue EXCEPT ![ep] = q]
     /\ busy' = busy \ {ep}
     /\ UNCHANGED <<status, inflight, claimed>>
  \/ /\ Len(q) >= MaxQueue
     /\ queue' = [queue EXCEPT ![ep] = q]
     /\ busy' = busy \ {ep}
     /\ status' = "stopping"
     /\ UNCHANGED <<inflight, claimed>>
  \/ /\ q # <<>> /\ Len(q) < MaxQueue
     /\ queue' = [queue EXCEPT ![ep] = Tail(q)]
     /\ Submit(ep, Head(q))

(* queueFor's require: a full queue refuses one more request, by throwing. *)
Flooded(ep) == Len(queue[ep]) >= MaxQueue

(* A ControlIrpRequest or BulkIrpRequest arrives. *)
ReceiveRequest(r) ==
  LET ep == EndpointOf[r] IN
  /\ status = "running"
  /\ outcome[r] # "waiting"
  /\ outcome' = [outcome EXCEPT ![r] = "waiting"]
  /\ unbusy' = unbusy
  /\ \/ /\ Flooded(ep)
        /\ status' = "stopping"
        /\ UNCHANGED <<queue, busy, inflight, claimed>>
     \/ /\ ~ Flooded(ep) /\ ep \in busy
        /\ queue' = [queue EXCEPT ![ep] = Append(@, r)]
        /\ UNCHANGED <<status, busy, inflight, claimed>>
     \/ /\ ~ Flooded(ep) /\ ep \notin busy
        /\ CheckEndpointQueue(ep, Append(queue[ep], r))

(* Slip: the endpoint is freed and its queue not looked at. *)
ReceiveUnbusyNoCheck(ep) ==
  /\ status = "running"
  /\ unbusy[ep] > 0
  /\ unbusy' = [unbusy EXCEPT ![ep] = @ - 1]
  /\ busy' = busy \ {ep}
  /\ UNCHANGED <<status, queue, inflight, claimed, outcome>>

(* UnbusyEndpoint(ep) arrives. *)
ReceiveUnbusy(ep) ==
  /\ status = "running"
  /\ unbusy[ep] > 0
  /\ unbusy' = [unbusy EXCEPT ![ep] = @ - 1]
  /\ outcome' = outcome
  /\ CheckEndpointQueue(ep, queue[ep])

(* Slip: the two branches of the irpDelay test both send UnbusyEndpoint. *)
CompleteTwice(ep, r) ==
  /\ status # "stopped"
  /\ r \in inflight[ep]
  /\ inflight' = [inflight EXCEPT ![ep] = @ \ {r}]
  /\ outcome' = [outcome EXCEPT ![r] = "ok"]
  /\ unbusy' = [unbusy EXCEPT ![ep] = @ + 2]
  /\ UNCHANGED <<status, queue, busy, claimed>>

(* processTransfer, TRANSFER_COMPLETED: answer, then schedule the           *)
(* UnbusyEndpoint (after irpDelay, or at once).  It runs on the selector's  *)
(* thread, also while the actor is stopping.                                *)
Complete(ep, r) ==
  /\ status # "stopped"
  /\ r \in inflight[ep]
  /\ inflight' = [inflight EXCEPT ![ep] = @ \ {r}]
  /\ outcome' = [outcome EXCEPT ![r] = "ok"]
  /\ unbusy' = [unbusy EXCEPT ![ep] = @ + 1]
  /\ UNCHANGED <<status, queue, busy, claimed>>

(* Slip: the error is answered and the device kept, as the TODO above bail   *)
(* proposes, but the endpoint is never freed.                               *)
BailWithoutStop(ep, r) ==
  /\ status # "stopped"
  /\ r \in inflight[ep]
  /\ inflight' = [inflight EXCEPT ![ep] = @ \ {r}]
  /\ outcome' = [outcome EXCEPT ![r] = "error"]
  /\ UNCHANGED <<status, queue, busy, unbusy, claimed>>

(* processTransfer, every other status: bail answers with the error and     *)
(* stops the device; an exception in the callback stops it without answer.  *)
Bail(ep, r) ==
  /\ status # "stopped"
  /\ r \in inflight[ep]
  /\ inflight' = [inflight EXCEPT ![ep] = @ \ {r}]
  /\ \/ outcome' = [outcome EXCEPT ![r] = "error"]
     \/ outcome' = outcome
  /\ status' = "stopping"
  /\ UNCHANGED <<queue, busy, unbusy, claimed>>

(* Close, or UsbHost stopping the actor of a removed device. *)
Close ==
  /\ status = "running"
  /\ status' = "stopping"
  /\ UNCHANGED <<queue, busy, inflight, unbusy, claimed, outcome>>

(* postStop: release every claimed interface, close the handle.  libusb     *)
(* calls no callback of a closed handle: transfers in flight stay so.       *)
PostStop ==
  /\ status = "stopping"
  /\ status' = "stopped"
  /\ claimed' = {}
  /\ UNCHANGED <<queue, busy, inflight, unbusy, outcome>>

TransferDone(ep) == \E r \in Request : Complete(ep, r) \/ Bail(ep, r)

Next ==
  \/ \E r \in Request : ReceiveRequest(r)
  \/ \E ep \in Endpoint : ReceiveUnbusy(ep) \/ TransferDone(ep)
  \/ Close
  \/ PostStop

Spec == Init /\ [][Next]_vars

(* Every transfer has a libusb timeout and the selector polls for ever, so  *)
(* a callback comes; the scheduler delivers its messages; a stop is carried *)
(* out.  No requester has to send and nobody has to close the device.       *)
Fairness ==
  /\ \A ep \in Endpoint : WF_vars(TransferDone(ep)) /\ WF_vars(ReceiveUnbusy(ep))
  /\ WF_vars(PostStop)

FairSpec == Spec /\ Fairness
-----------------------------------------------------------------------------

(* A running device never loses a wake-up: an endpoint is marked busy if and *)
(* only if exactly one thing is still to come that will free it, its         *)
(* transfer's callback or an UnbusyEndpoint, and requests wait only behind   *)
(* a busy mark.  The mark is set in one handler, the callback runs on        *)
(* another thread and the mark is cleared in a third step.                   *)
NoLostWakeup ==
  status = "running" =>
    \A ep \in Endpoint :
      /\ ep \in busy <=> Cardinality(inflight[ep]) + unbusy[ep] = 1
      /\ ep \notin busy => queue[ep] = <<>> /\ inflight[ep] = {} /\ unbusy[ep] = 0

(* A running device has forgotten nobody: a requester without an answer has  *)
(* its request in one place, once, in the queue of its endpoint or in        *)
(* flight, and whatever is queued or in flight has a requester that waits.   *)
NobodyForgotten ==
  status = "running" =>
    \A r \in Request :
      LET at == {i \in DOMAIN queue[EndpointOf[r]] : queue[EndpointOf[r]][i] = r} IN
      /\ outcome[r] = "waiting" => at # {} \/ r \in inflight[EndpointOf[r]]
      /\ at # {} \/ r \in inflight[EndpointOf[r]] => outcome[r] = "waiting"
      /\ Cardinality(at) <= 1
      /\ r \in inflight[EndpointOf[r]] => at = {}

(* Until the handle is closed at most one transfer per endpoint is in        *)
(* flight, on an interface that is claimed and not yet released.             *)
OneTransferOnClaimed ==
  \A ep \in Endpoint :
    /\ Cardinality(inflight[ep]) <= 1
    /\ status # "stopped" /\ inflight[ep] # {} => Needs(ep) \subseteq claimed

(* A request that the device accepted is answered, or the device stops; it   *)
(* is never left behind a busy mark of a device that goes on serving others. *)
AnsweredOrDown ==
  \A r \in Request :
    outcome[r] = "waiting" ~> (outcome[r] # "waiting" \/ status = "stopped")

(* The flood check is for requests: freeing an endpoint never trips it.      *)
(* queueFor's message is "Internal USB queue flooded!", but                  *)
(* checkEndpointQueue calls queueFor to dequeue as well.                     *)
FloodOnlyOnRequest ==
  [][\A ep \in Endpoint :
       unbusy'[ep] < unbusy[ep] /\ Flooded(ep) => queue'[ep] # queue[ep]]_vars
-----------------------------------------------------------------------------
(* What the requesters may rely on.  The line of an endpoint is its transfer *)
(* in flight followed by its queue.                                          *)
LineOf(q, fl) == IF fl = {} THEN q ELSE <<CHOOSE r \in fl : TRUE>> \o q
Line == [ep \in Endpoint |-> LineOf(queue[ep], inflight[ep])]

Promise == INSTANCE IrpService WITH up <- (status = "running"), line <- Line

(* The device implements IrpService: answers come in the order of arrival at *)
(* each endpoint, one for each request, and after a failure only what was    *)
(* already under way is still answered.                                      *)
ImplementsIrpService == Promise!Spec
=============================================================================
