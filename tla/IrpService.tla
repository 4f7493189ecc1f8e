----------------------------- MODULE IrpService -----------------------------
(***************************************************************************)
(* What a UsbDevice actor promises to the actors that send it IRPs         *)
(* (io/usb/UsbDevice.scala), with the queues, the busy marks and the       *)
(* libusb transfers left out: one waiting line per endpoint, served        *)
(* strictly in the order of arrival, and an answer only for the request at *)
(* the head.  Any failure takes the whole device down; a device that is    *)
(* down accepts nothing, answers at most what was under way, and leaves    *)
(* every other requester without an answer.                                *)
(***************************************************************************)
EXTENDS Sequences, FiniteSets

CONSTANTS
  Request,      \* request slots: an actor with n requests outstanding owns n
  Endpoint,     \* endpoints of the device, the control endpoint included
  EndpointOf    \* the endpoint each request is for

VARIABLES
  up,           \* the device still takes requests
  line,         \* the requests waiting at each endpoint, the oldest first
  outcome       \* what each requester has heard of its latest request

vars == <<up, line, outcome>>

Outcome == {"idle", "waiting", "ok", "error"}

Init ==
  /\ up = TRUE
  /\ line = [ep \in Endpoint |-> <<>>]
  /\ outcome = [r \in Request |-> "idle"]

(* A request joins the end of its line. *)
Accept(r) ==
  /\ up /\ outcome[r] # "waiting"
  /\ line' = [line EXCEPT ![EndpointOf[r]] = Append(@, r)]
  /\ outcome' = [outcome EXCEPT ![r] = "waiting"]
  /\ up' = up

(* A request that the device cannot take brings the device down. *)
Refuse(r) ==
  /\ up /\ outcome[r] # "waiting"
  /\ outcome' = [outcome EXCEPT ![r] = "waiting"]
  /\ up' = FALSE
  /\ line' = line

(* The head of a line is answered. *)
Serve(ep) ==
  /\ line[ep] # <<>>
  /\ line' = [line EXCEPT ![ep] = Tail(@)]
  /\ outcome' = [outcome EXCEPT ![Head(line[ep])] = "ok"]
  /\ up' = up

(* The head of a line fails, with an error for its requester or in silence, *)
(* and the device is down from then on.                                     *)
Fail(ep) ==
  /\ line[ep] # <<>>
  /\ line' = [line EXCEPT ![ep] = Tail(@)]
  /\ \/ outcome' = [outcome EXCEPT ![Head(line[ep])] = "error"]
     \/ outcome' = outcome
  /\ up' = FALSE

(* The device is closed, unplugged, or gives up. *)
Shutdown ==
  /\ up
  /\ up' = FALSE
  /\ UNCHANGED <<line, outcome>>

Next ==
  \/ \E r \in Request : Accept(r) \/ Refuse(r)
  \/ \E ep \in Endpoint : Serve(ep) \/ Fail(ep)
  \/ Shutdown

Spec == Init /\ [][Next]_vars
=============================================================================
