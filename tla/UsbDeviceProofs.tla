--------------------------- MODULE UsbDeviceProofs ---------------------------
(***************************************************************************)
(* Proofs about UsbDevice: its type invariant, the safety invariants of    *)
(* the runs, and that it implements IrpService.  All rest on one inductive *)
(* invariant, IInv, which describes each endpoint on its own.              *)
(***************************************************************************)
EXTENDS UsbDevice, FiniteSetTheorems, TLAPS

(* The requests of one endpoint: those queued and those in flight are for   *)
(* it, wait, and are all different; no UnbusyEndpoint while one is in       *)
(* flight.                                                                  *)
Good(ep, q, fl, u, out) ==
  /\ \A r \in fl : EndpointOf[r] = ep /\ out[r] = "waiting"
  /\ \A a, b \in fl : a = b
  /\ fl # {} => u = 0
  /\ \A i \in 1..Len(q) : EndpointOf[q[i]] = ep /\ out[q[i]] = "waiting" /\ q[i] \notin fl
  /\ \A i, j \in 1..Len(q) : q[i] = q[j] => i = j

(* The busy mark b of one endpoint says whether something will free it. *)
Marked(q, fl, u, b) ==
  /\ b => fl # {} \/ u = 1
  /\ ~b => fl = {} /\ u = 0 /\ q = <<>>

(* Request r is queued or in flight at its endpoint. *)
Kept(r) ==
  \/ r \in inflight[EndpointOf[r]]
  \/ \E i \in 1..Len(queue[EndpointOf[r]]) : queue[EndpointOf[r]][i] = r

AllGood == \A ep \in Endpoint : Good(ep, queue[ep], inflight[ep], unbusy[ep], outcome)
AllClaimed ==
  \A ep \in Endpoint : status # "stopped" /\ inflight[ep] # {} => Needs(ep) \subseteq claimed
AllMarked ==
  status = "running" =>
    \A ep \in Endpoint : Marked(queue[ep], inflight[ep], unbusy[ep], ep \in busy)
AllKept ==
  status = "running" => \A r \in Request : outcome[r] = "waiting" => Kept(r)

IInv == TypeOK /\ AllGood /\ AllClaimed /\ AllMarked /\ AllKept
-----------------------------------------------------------------------------
(* A request that did not wait joins a queue. *)
LEMMA GoodAppend ==
  ASSUME NEW ep \in Endpoint, NEW q \in Seq(Request), NEW fl \in SUBSET Request,
         NEW u \in 0..1, NEW out \in [Request -> Outcome], NEW r \in Request,
         Good(ep, q, fl, u, out), out[r] # "waiting", EndpointOf[r] = ep
  PROVE  Good(ep, Append(q, r), fl, u, [out EXCEPT ![r] = "waiting"])
<1> DEFINE out2 == [out EXCEPT ![r] = "waiting"]
           q2 == Append(q, r)
<1>1. Len(q2) = Len(q) + 1 /\ \A i \in 1..Len(q2) : q2[i] = IF i <= Len(q) THEN q[i] ELSE r
  OBVIOUS
<1>2. \A s \in Request : out[s] = "waiting" => out2[s] = "waiting" /\ s # r
  BY DEF Outcome
<1>3. \A i \in 1..Len(q) : q[i] \in Request
  OBVIOUS
<1>4. out2[r] = "waiting"
  OBVIOUS
<1>5. \A i \in 1..Len(q2) : EndpointOf[q2[i]] = ep /\ out2[q2[i]] = "waiting" /\ q2[i] \notin fl
  BY <1>1, <1>2, <1>3, <1>4 DEF Good
<1>6. \A i, j \in 1..Len(q2) : q2[i] = q2[j] => i = j
  BY <1>1, <1>2, <1>3 DEF Good
<1> QED
  BY <1>2, <1>5, <1>6 DEF Good

(* The head of the queue of a free endpoint goes out. *)
LEMMA GoodSubmit ==
  ASSUME NEW ep \in Endpoint, NEW q \in Seq(Request), NEW out \in [Request -> Outcome],
         Good(ep, q, {}, 0, out), q # <<>>
  PROVE  /\ Good(ep, Tail(q), {Head(q)}, 0, out)
         /\ Good(ep, Tail(q), {}, 0, out)
         /\ Head(q) \in Request /\ Tail(q) \in Seq(Request)
<1>1. /\ Len(Tail(q)) = Len(q) - 1
      /\ \A i \in 1..Len(Tail(q)) : Tail(q)[i] = q[i + 1] /\ i + 1 \in 1..Len(q)
      /\ Head(q) = q[1] /\ 1 \in 1..Len(q) /\ Len(q) \in Nat
      /\ Head(q) \in Request /\ Tail(q) \in Seq(Request)
  OBVIOUS
<1>2. \A i \in 1..Len(Tail(q)) : EndpointOf[Tail(q)[i]] = ep /\ out[Tail(q)[i]] = "waiting"
                                   /\ Tail(q)[i] # Head(q)
  BY <1>1 DEF Good
<1>3. \A i, j \in 1..Len(Tail(q)) : Tail(q)[i] = Tail(q)[j] => i = j
  BY <1>1 DEF Good
<1> QED
  BY <1>1, <1>2, <1>3 DEF Good

(* The outcome of a request that is neither queued nor in flight here does  *)
(* not matter here.                                                         *)
LEMMA GoodFrame ==
  ASSUME NEW ep \in Endpoint, NEW q \in Seq(Request), NEW fl \in SUBSET Request,
         NEW u, NEW out \in [Request -> Outcome], NEW r \in Request,
         NEW a \in Outcome, Good(ep, q, fl, u, out),
         a = "waiting" \/ EndpointOf[r] # ep \/ (r \notin fl /\ \A i \in 1..Len(q) : q[i] # r)
  PROVE  Good(ep, q, fl, u, [out EXCEPT ![r] = a])
<1>1. \A i \in 1..Len(q) : q[i] \in Request
  OBVIOUS
<1> QED
  BY <1>1 DEF Good, Outcome
-----------------------------------------------------------------------------
LEMMA InitIInv == Init => IInv
BY DeviceAssumption DEF Init, IInv, TypeOK, AllGood, AllClaimed, AllMarked, AllKept,
     Good, Marked, Kept, Outcome

(* checkEndpointQueue(ep) with q in the queue, once the request or the       *)
(* UnbusyEndpoint that led to it is accounted for.                           *)
LEMMA CheckIInv ==
  ASSUME IInv, status = "running", NEW ep \in Endpoint, NEW q \in Seq(Request),
         inflight[ep] = {},
         outcome' \in [Request -> Outcome],
         unbusy' \in [Endpoint -> 0..1], unbusy'[ep] = 0,
         \A e \in Endpoint \ {ep} : unbusy'[e] = unbusy[e],
         Good(ep, q, {}, 0, outcome'),
         \A e \in Endpoint \ {ep} :
            Good(e, queue[e], inflight[e], unbusy[e], outcome'),
         \A r \in Request : outcome'[r] = "waiting" =>
            \/ EndpointOf[r] = ep /\ \E i \in 1..Len(q) : q[i] = r
            \/ EndpointOf[r] # ep /\ Kept(r),
         CheckEndpointQueue(ep, q)
  PROVE  IInv'
<1>1. CASE q = <<>> /\ status' = "running" /\ queue' = [queue EXCEPT ![ep] = q]
             /\ busy' = busy \ {ep} /\ UNCHANGED <<status, inflight, claimed>>
  <2>1. TypeOK'
    BY <1>1 DEF IInv, TypeOK
  <2>2. AllGood' /\ AllClaimed'
    BY <1>1 DEF IInv, TypeOK, AllGood, AllClaimed
  <2>3. AllMarked'
    BY <1>1 DEF IInv, TypeOK, AllMarked, Marked
  <2>4. AllKept'
    BY <1>1 DEF IInv, TypeOK, AllKept, Kept
  <2> QED
    BY <2>1, <2>2, <2>3, <2>4 DEF IInv
<1>2. CASE status' = "stopping" /\ queue' = [queue EXCEPT ![ep] = q]
             /\ busy' = busy \ {ep} /\ UNCHANGED <<inflight, claimed>>
  BY <1>2 DEF IInv, TypeOK, AllGood, AllClaimed, AllMarked, AllKept
<1>3. CASE q # <<>> /\ queue' = [queue EXCEPT ![ep] = Tail(q)] /\ Submit(ep, Head(q))
  <2>1. /\ Good(ep, Tail(q), {Head(q)}, 0, outcome')
        /\ Good(ep, Tail(q), {}, 0, outcome')
        /\ Head(q) \in Request /\ Tail(q) \in Seq(Request)
    BY <1>3, GoodSubmit
  <2>2. Needs(ep) \subseteq Interface
    BY DeviceAssumption DEF Needs
  <2>3. CASE inflight' = [inflight EXCEPT ![ep] = @ \cup {Head(q)}]
               /\ claimed' = claimed \cup Needs(ep) /\ status' = status /\ busy' = busy \cup {ep}
    <3>1. TypeOK'
      BY <1>3, <2>1, <2>2, <2>3 DEF IInv, TypeOK
    <3>2. inflight'[ep] = {Head(q)} /\ \A e \in Endpoint \ {ep} : inflight'[e] = inflight[e]
      BY <2>3 DEF IInv, TypeOK
    <3>3. queue'[ep] = Tail(q) /\ \A e \in Endpoint \ {ep} : queue'[e] = queue[e]
      BY <1>3 DEF IInv, TypeOK
    <3>4. AllGood'
      BY <2>1, <3>2, <3>3 DEF AllGood
    <3>5. AllClaimed'
      BY <2>3, <3>2 DEF IInv, AllClaimed
    <3>6. AllMarked'
      BY <2>3, <3>2, <3>3 DEF IInv, TypeOK, AllMarked, Marked
    <3>7. \A r \in Request : outcome'[r] = "waiting" => Kept(r)'
      <4> SUFFICES ASSUME NEW r \in Request, outcome'[r] = "waiting" PROVE Kept(r)'
        OBVIOUS
      <4>1. CASE EndpointOf[r] # ep
        BY <4>1, <3>2, <3>3, DeviceAssumption DEF Kept
      <4>2. CASE EndpointOf[r] = ep
        <5>1. PICK i \in 1..Len(q) : q[i] = r
          BY <4>2
        <5>2. CASE i = 1
          BY <5>1, <5>2, <4>2, <3>2 DEF Kept
        <5>3. CASE i # 1
          <6>1. i - 1 \in 1..Len(Tail(q)) /\ Tail(q)[i - 1] = r
            BY <5>1, <5>3
          <6> QED
            BY <6>1, <4>2, <3>3 DEF Kept
        <5> QED
          BY <5>2, <5>3
      <4> QED
        BY <4>1, <4>2
    <3> QED
      BY <3>1, <3>4, <3>5, <3>6, <3>7 DEF IInv, AllKept
  <2>4. CASE status' = "stopping" /\ inflight' = inflight /\ busy' = busy \cup {ep}
               /\ (claimed' = claimed \/ claimed' = claimed \cup Needs(ep))
    <3>1. TypeOK'
      BY <1>3, <2>1, <2>2, <2>4 DEF IInv, TypeOK
    <3>2. AllGood'
      BY <1>3, <2>1, <2>4 DEF IInv, TypeOK, AllGood
    <3> QED
      BY <3>1, <3>2, <2>4 DEF IInv, AllClaimed, AllMarked, AllKept
  <2> QED
    BY <1>3, <2>3, <2>4 DEF Submit
<1> QED
  BY <1>1, <1>2, <1>3 DEF CheckEndpointQueue

LEMMA RequestIInv ==
  ASSUME IInv, NEW r \in Request, ReceiveRequest(r)
  PROVE  IInv'
<1> DEFINE ep == EndpointOf[r]
<1>1. ep \in Endpoint /\ status = "running" /\ outcome[r] # "waiting" /\ unbusy' = unbusy
      /\ outcome' = [outcome EXCEPT ![r] = "waiting"]
      /\ outcome' \in [Request -> Outcome]
  BY DeviceAssumption DEF ReceiveRequest, IInv, TypeOK, Outcome
<1>2. \A e \in Endpoint : /\ queue[e] \in Seq(Request) /\ inflight[e] \in SUBSET Request
                          /\ unbusy[e] \in 0..1
                          /\ Good(e, queue[e], inflight[e], unbusy[e], outcome)
  BY DEF IInv, TypeOK, AllGood
<1>3. \A e \in Endpoint : Good(e, queue[e], inflight[e], unbusy[e], outcome')
  BY <1>1, <1>2, GoodFrame DEF IInv, TypeOK, Outcome
<1>4. Good(ep, Append(queue[ep], r), inflight[ep], unbusy[ep], outcome')
  BY <1>1, <1>2, GoodAppend DEF IInv, TypeOK
<1>5. \A s \in Request : outcome'[s] = "waiting" => s = r \/ Kept(s)
  BY <1>1 DEF IInv, AllKept, TypeOK
<1>6. Append(queue[ep], r) \in Seq(Request)
      /\ Len(Append(queue[ep], r)) = Len(queue[ep]) + 1
      /\ Append(queue[ep], r)[Len(queue[ep]) + 1] = r
      /\ \A i \in 1..Len(queue[ep]) : Append(queue[ep], r)[i] = queue[ep][i]
  BY <1>1, <1>2
<1>7. CASE status' = "stopping" /\ UNCHANGED <<queue, busy, inflight, claimed>>
  BY <1>7, <1>1, <1>3 DEF IInv, TypeOK, AllGood, AllClaimed, AllMarked, AllKept
<1>8. CASE ep \in busy /\ queue' = [queue EXCEPT ![ep] = Append(@, r)]
           /\ UNCHANGED <<status, busy, inflight, claimed>>
  <2>1. TypeOK'
    BY <1>8, <1>1, <1>6 DEF IInv, TypeOK
  <2>2. queue'[ep] = Append(queue[ep], r) /\ \A e \in Endpoint \ {ep} : queue'[e] = queue[e]
    BY <1>8, <1>1 DEF IInv, TypeOK
  <2>3. AllGood'
    BY <1>8, <1>1, <1>3, <1>4, <2>2 DEF AllGood
  <2>4. AllClaimed' /\ AllMarked'
    BY <1>8, <1>1, <2>2 DEF IInv, AllClaimed, AllMarked, Marked
  <2>5. ASSUME NEW s \in Request, outcome'[s] = "waiting" PROVE Kept(s)'
    <3>1. CASE s = r
      <4>1. Len(queue[ep]) + 1 \in 1..Len(queue'[ep])
        BY <1>1, <1>2, <1>6, <2>2
      <4> QED
        BY <3>1, <4>1, <2>2, <1>6 DEF Kept
    <3>2. CASE s # r
      BY <3>2, <1>5, <2>5, <2>2, <1>6, <1>8, <1>2, DeviceAssumption DEF Kept
    <3> QED
      BY <3>1, <3>2
  <2> QED
    BY <2>1, <2>3, <2>4, <2>5 DEF IInv, AllKept
<1>9. CASE ep \notin busy /\ CheckEndpointQueue(ep, Append(queue[ep], r))
  <2>1. inflight[ep] = {} /\ unbusy[ep] = 0 /\ queue[ep] = <<>>
    BY <1>9, <1>1 DEF IInv, AllMarked, Marked
  <2>2. \A s \in Request : outcome'[s] = "waiting" =>
            \/ EndpointOf[s] = ep /\ \E i \in 1..Len(Append(queue[ep], r)) : Append(queue[ep], r)[i] = s
            \/ EndpointOf[s] # ep /\ Kept(s)
    BY <1>5, <1>6, <2>1 DEF Kept
  <2>3. Good(ep, Append(queue[ep], r), {}, 0, outcome')
    BY <1>4, <2>1
  <2>4. unbusy' \in [Endpoint -> 0..1] /\ unbusy'[ep] = 0
    BY <1>1, <2>1 DEF IInv, TypeOK
  <2> QED
    BY <1>1, <1>3, <1>6, <1>9, <2>1, <2>2, <2>3, <2>4, CheckIInv
<1> QED
  BY <1>7, <1>8, <1>9 DEF ReceiveRequest

LEMMA UnbusyIInv ==
  ASSUME IInv, NEW ep \in Endpoint, ReceiveUnbusy(ep)
  PROVE  IInv'
<1>1. status = "running" /\ unbusy[ep] = 1 /\ outcome' = outcome
      /\ unbusy' \in [Endpoint -> 0..1] /\ unbusy'[ep] = 0
      /\ \A e \in Endpoint \ {ep} : unbusy'[e] = unbusy[e]
  BY DEF ReceiveUnbusy, IInv, TypeOK
<1>2. inflight[ep] = {}
  BY <1>1 DEF IInv, AllGood, Good
<1>3. Good(ep, queue[ep], {}, 0, outcome')
  BY <1>1, <1>2 DEF IInv, AllGood, Good
<1>4. \A e \in Endpoint \ {ep} : Good(e, queue[e], inflight[e], unbusy[e], outcome')
  BY <1>1 DEF IInv, AllGood
<1>5. \A r \in Request : outcome'[r] = "waiting" =>
         \/ EndpointOf[r] = ep /\ \E i \in 1..Len(queue[ep]) : queue[ep][i] = r
         \/ EndpointOf[r] # ep /\ Kept(r)
  BY <1>1, <1>2 DEF IInv, AllKept, Kept
<1>6. queue[ep] \in Seq(Request) /\ outcome' \in [Request -> Outcome]
  BY <1>1 DEF IInv, TypeOK
<1> QED
  BY <1>1, <1>2, <1>3, <1>4, <1>5, <1>6, CheckIInv DEF ReceiveUnbusy

(* Complete and Bail: the transfer of r leaves its endpoint, and what its    *)
(* requester hears changes nothing for anybody else.                         *)
LEMMA TransferGood ==
  ASSUME IInv, NEW ep \in Endpoint, NEW r \in Request, r \in inflight[ep], NEW a \in Outcome
  PROVE  /\ EndpointOf[r] = ep
         /\ inflight[ep] \ {r} = {} /\ unbusy[ep] = 0
         /\ \A e \in Endpoint \ {ep} :
              Good(e, queue[e], inflight[e], unbusy[e], [outcome EXCEPT ![r] = a])
         /\ \A u \in 0..1 : Good(ep, queue[ep], {}, u, [outcome EXCEPT ![r] = a])
<1>1. Good(ep, queue[ep], inflight[ep], unbusy[ep], outcome)
      /\ queue[ep] \in Seq(Request)
  BY DEF IInv, TypeOK, AllGood
<1>2. EndpointOf[r] = ep /\ inflight[ep] \ {r} = {} /\ unbusy[ep] = 0
  BY <1>1 DEF Good
<1>3. \A e \in Endpoint \ {ep} :
         Good(e, queue[e], inflight[e], unbusy[e], [outcome EXCEPT ![r] = a])
  BY <1>1, <1>2, GoodFrame DEF IInv, TypeOK, AllGood
<1>4. \A u \in 0..1 : Good(ep, queue[ep], {}, u, outcome)
  BY <1>1 DEF Good
<1>5. \A i \in 1..Len(queue[ep]) : queue[ep][i] # r
  BY <1>1 DEF Good
<1>6. \A u \in 0..1 : Good(ep, queue[ep], {}, u, [outcome EXCEPT ![r] = a])
  BY <1>1, <1>4, <1>5, GoodFrame DEF IInv, TypeOK
<1> QED
  BY <1>1, <1>2, <1>3, <1>6

LEMMA CompleteIInv ==
  ASSUME IInv, NEW ep \in Endpoint, NEW r \in Request, Complete(ep, r)
  PROVE  IInv'
<1>1. r \in inflight[ep] /\ outcome' = [outcome EXCEPT ![r] = "ok"]
      /\ UNCHANGED <<status, queue, busy, claimed>> /\ status # "stopped"
  BY DEF Complete
<1>2. /\ EndpointOf[r] = ep
      /\ inflight[ep] \ {r} = {} /\ unbusy[ep] = 0
      /\ \A e \in Endpoint \ {ep} : Good(e, queue[e], inflight[e], unbusy[e], outcome')
      /\ Good(ep, queue[ep], {}, 1, outcome')
  <2>1. "ok" \in Outcome
    BY DEF Outcome
  <2>2. /\ EndpointOf[r] = ep
        /\ inflight[ep] \ {r} = {} /\ unbusy[ep] = 0
        /\ \A e \in Endpoint \ {ep} :
              Good(e, queue[e], inflight[e], unbusy[e], [outcome EXCEPT ![r] = "ok"])
        /\ \A u \in 0..1 : Good(ep, queue[ep], {}, u, [outcome EXCEPT ![r] = "ok"])
    BY <1>1, <2>1, TransferGood
  <2> QED
    BY <1>1, <2>2 DEF Good
<1>3. /\ inflight'[ep] = {} /\ unbusy'[ep] = 1
      /\ \A e \in Endpoint \ {ep} : inflight'[e] = inflight[e] /\ unbusy'[e] = unbusy[e]
  BY <1>2 DEF Complete, IInv, TypeOK
<1>4. TypeOK'
  BY <1>1, <1>2 DEF Complete, IInv, TypeOK, Outcome
<1>5. AllGood'
  BY <1>1, <1>2, <1>3 DEF AllGood
<1>6. AllClaimed'
  BY <1>1, <1>3 DEF IInv, AllClaimed
<1>7. AllMarked'
  BY <1>1, <1>3 DEF IInv, AllMarked, Marked
<1>8. ASSUME status = "running", NEW s \in Request, outcome'[s] = "waiting" PROVE Kept(s)'
  <2>1. s # r /\ outcome[s] = "waiting"
    BY <1>1, <1>8 DEF IInv, TypeOK
  <2>2. Kept(s) /\ EndpointOf[s] \in Endpoint
    BY <2>1, <1>8, DeviceAssumption DEF IInv, AllKept
  <2>3. s \notin inflight[ep]
    BY <2>1, <1>1, <1>2
  <2> QED
    BY <2>2, <2>3, <1>1, <1>3 DEF Kept
<1> QED
  BY <1>1, <1>4, <1>5, <1>6, <1>7, <1>8 DEF IInv, AllKept

LEMMA BailIInv ==
  ASSUME IInv, NEW ep \in Endpoint, NEW r \in Request, Bail(ep, r)
  PROVE  IInv'
<1>1. PICK a \in Outcome : outcome' = [outcome EXCEPT ![r] = a]
  <2>1. outcome = [outcome EXCEPT ![r] = outcome[r]] /\ outcome[r] \in Outcome
    BY DEF IInv, TypeOK
  <2> QED
    BY <2>1 DEF Bail, Outcome
<1>2. r \in inflight[ep] /\ status' = "stopping" /\ UNCHANGED <<queue, busy, unbusy, claimed>>
      /\ status # "stopped"
  BY DEF Bail
<1>3. /\ inflight[ep] \ {r} = {} /\ unbusy[ep] = 0
      /\ \A e \in Endpoint \ {ep} : Good(e, queue[e], inflight[e], unbusy[e], outcome')
      /\ Good(ep, queue[ep], {}, 0, outcome')
  <2>1. /\ inflight[ep] \ {r} = {} /\ unbusy[ep] = 0
        /\ \A e \in Endpoint \ {ep} :
              Good(e, queue[e], inflight[e], unbusy[e], [outcome EXCEPT ![r] = a])
        /\ \A u \in 0..1 : Good(ep, queue[ep], {}, u, [outcome EXCEPT ![r] = a])
    BY <1>2, TransferGood
  <2> QED
    BY <1>1, <2>1 DEF Good
<1>4. inflight'[ep] = {} /\ \A e \in Endpoint \ {ep} : inflight'[e] = inflight[e]
  BY <1>3 DEF Bail, IInv, TypeOK
<1>5. TypeOK'
  BY <1>1, <1>2 DEF Bail, IInv, TypeOK
<1>6. AllGood'
  BY <1>2, <1>3, <1>4 DEF AllGood
<1>7. AllClaimed'
  BY <1>2, <1>4 DEF IInv, AllClaimed
<1> QED
  BY <1>2, <1>5, <1>6, <1>7 DEF IInv, AllMarked, AllKept

LEMMA NextIInv == IInv /\ [Next]_vars => IInv'
<1> SUFFICES ASSUME IInv, [Next]_vars PROVE IInv'
  OBVIOUS
<1>1. ASSUME NEW r \in Request, ReceiveRequest(r) PROVE IInv'
  BY <1>1, RequestIInv
<1>2. ASSUME NEW ep \in Endpoint, ReceiveUnbusy(ep) PROVE IInv'
  BY <1>2, UnbusyIInv
<1>3. ASSUME NEW ep \in Endpoint, TransferDone(ep) PROVE IInv'
  BY <1>3, CompleteIInv, BailIInv DEF TransferDone
<1>4. CASE Close
  BY <1>4 DEF Close, IInv, TypeOK, AllGood, AllClaimed, AllMarked, AllKept
<1>5. CASE PostStop
  BY <1>5 DEF PostStop, IInv, TypeOK, AllGood, AllClaimed, AllMarked, AllKept
<1>6. CASE UNCHANGED vars
  BY <1>6 DEF vars, IInv, TypeOK, AllGood, AllClaimed, AllMarked, AllKept, Kept
<1> QED
  BY <1>1, <1>2, <1>3, <1>4, <1>5, <1>6 DEF Next

LEMMA SpecIInv == Spec => []IInv
BY InitIInv, NextIInv, PTL DEF Spec
-----------------------------------------------------------------------------
(* Every variable keeps its type; in particular never more than one          *)
(* UnbusyEndpoint is on its way for an endpoint.                             *)
THEOREM TypeCorrect == Spec => []TypeOK
<1>1. IInv => TypeOK
  BY DEF IInv
<1> QED
  BY <1>1, SpecIInv, PTL

(* What is at most a singleton has at most one element. *)
LEMMA AtMostOne ==
  ASSUME NEW S, \A a, b \in S : a = b
  PROVE  IF S = {} THEN Cardinality(S) = 0 ELSE Cardinality(S) = 1
<1>1. CASE S = {}
  BY <1>1, FS_EmptySet
<1>2. CASE S # {}
  <2>1. PICK x : S = {x}
    BY <1>2
  <2> QED
    BY <2>1, FS_Singleton
<1> QED
  BY <1>1, <1>2

(* A running device never loses a wake-up: checkEndpointQueue, the libusb    *)
(* callback and UnbusyEndpoint keep the busy marks exact.                    *)
THEOREM WakeupsKept == Spec => []NoLostWakeup
<1>1. IInv => NoLostWakeup
  <2> SUFFICES ASSUME IInv, status = "running", NEW ep \in Endpoint
               PROVE  /\ ep \in busy <=> Cardinality(inflight[ep]) + unbusy[ep] = 1
                      /\ ep \notin busy => queue[ep] = <<>> /\ inflight[ep] = {} /\ unbusy[ep] = 0
    BY DEF NoLostWakeup
  <2>1. Good(ep, queue[ep], inflight[ep], unbusy[ep], outcome)
        /\ Marked(queue[ep], inflight[ep], unbusy[ep], ep \in busy)
        /\ unbusy[ep] \in 0..1
    BY DEF IInv, AllGood, AllMarked, TypeOK
  <2>2. IF inflight[ep] = {} THEN Cardinality(inflight[ep]) = 0 ELSE Cardinality(inflight[ep]) = 1
    BY <2>1, AtMostOne DEF Good
  <2> QED
    BY <2>1, <2>2 DEF Good, Marked
<1> QED
  BY <1>1, SpecIInv, PTL

(* One transfer per endpoint, on a claimed interface, until postStop. *)
THEOREM TransfersExclusive == Spec => []OneTransferOnClaimed
<1>1. IInv => OneTransferOnClaimed
  <2> SUFFICES ASSUME IInv, NEW ep \in Endpoint
               PROVE  /\ Cardinality(inflight[ep]) <= 1
                      /\ status # "stopped" /\ inflight[ep] # {} => Needs(ep) \subseteq claimed
    BY DEF OneTransferOnClaimed
  <2>1. IF inflight[ep] = {} THEN Cardinality(inflight[ep]) = 0 ELSE Cardinality(inflight[ep]) = 1
    BY AtMostOne DEF IInv, AllGood, Good
  <2> QED
    BY <2>1 DEF IInv, AllClaimed
<1> QED
  BY <1>1, SpecIInv, PTL

(* A running device has every waiting request in one place, once. *)
THEOREM RequestsKept == Spec => []NobodyForgotten
<1>1. IInv => NobodyForgotten
  <2> SUFFICES ASSUME IInv, status = "running", NEW r \in Request
        PROVE LET q == queue[EndpointOf[r]]
                  at == {i \in DOMAIN q : q[i] = r} IN
              /\ outcome[r] = "waiting" => at # {} \/ r \in inflight[EndpointOf[r]]
              /\ at # {} \/ r \in inflight[EndpointOf[r]] => outcome[r] = "waiting"
              /\ Cardinality(at) <= 1
              /\ r \in inflight[EndpointOf[r]] => at = {}
    BY DEF NobodyForgotten
  <2> DEFINE q == queue[EndpointOf[r]]
             at == {i \in DOMAIN q : q[i] = r}
  <2>1. EndpointOf[r] \in Endpoint
    BY DeviceAssumption
  <2>2. q \in Seq(Request) /\ DOMAIN q = 1..Len(q)
    BY <2>1 DEF IInv, TypeOK
  <2>3. Good(EndpointOf[r], q, inflight[EndpointOf[r]], unbusy[EndpointOf[r]], outcome)
    BY <2>1 DEF IInv, AllGood
  <2>4. \A i, j \in at : i = j
    BY <2>2, <2>3 DEF Good
  <2>5. IF at = {} THEN Cardinality(at) = 0 ELSE Cardinality(at) = 1
    BY <2>4, AtMostOne
  <2>6. outcome[r] = "waiting" => at # {} \/ r \in inflight[EndpointOf[r]]
    BY <2>2 DEF IInv, AllKept, Kept
  <2>7. at # {} \/ r \in inflight[EndpointOf[r]] => outcome[r] = "waiting"
    BY <2>2, <2>3 DEF Good
  <2>8. r \in inflight[EndpointOf[r]] => at = {}
    BY <2>2, <2>3 DEF Good
  <2>9. Cardinality(at) <= 1
    BY <2>5
  <2> QED
    BY <2>6, <2>7, <2>8, <2>9
<1> QED
  BY <1>1, SpecIInv, PTL
-----------------------------------------------------------------------------
(* How the steps of an endpoint look on its line. *)
LEMMA LineSteps ==
  ASSUME NEW q \in Seq(Request), NEW r \in Request
  PROVE  /\ LineOf(q, {}) = q
         /\ LineOf(q, {r}) = <<r>> \o q
         /\ LineOf(q, {r}) # <<>>
         /\ Head(LineOf(q, {r})) = r
         /\ Tail(LineOf(q, {r})) = q
         /\ q # <<>> => LineOf(Tail(q), {Head(q)}) = q
<1>1. LineOf(q, {}) = q
  BY DEF LineOf
<1>2. \A x \in Request : (CHOOSE y \in {x} : TRUE) = x
  OBVIOUS
<1>3. \A p \in Seq(Request), x \in Request : LineOf(p, {x}) = <<x>> \o p
  BY <1>2 DEF LineOf
<1>4. <<r>> \o q # <<>> /\ Head(<<r>> \o q) = r /\ Tail(<<r>> \o q) = q
  OBVIOUS
<1>5. q # <<>> => <<Head(q)>> \o Tail(q) = q /\ Head(q) \in Request /\ Tail(q) \in Seq(Request)
  OBVIOUS
<1> QED
  BY <1>1, <1>3, <1>4, <1>5

LEMMA LineAppend ==
  ASSUME NEW q \in Seq(Request), NEW fl \in SUBSET Request, NEW r \in Request,
         \A a, b \in fl : a = b
  PROVE  LineOf(Append(q, r), fl) = Append(LineOf(q, fl), r)
<1>1. CASE fl = {}
  BY <1>1 DEF LineOf
<1>2. CASE fl # {}
  <2>1. PICK x \in Request : fl = {x}
    BY <1>2
  <2>2. (CHOOSE y \in fl : TRUE) = x
    BY <2>1
  <2>3. <<x>> \o Append(q, r) = Append(<<x>> \o q, r)
    OBVIOUS
  <2> QED
    BY <1>2, <2>2, <2>3 DEF LineOf
<1> QED
  BY <1>1, <1>2

(* What happens to every line when one endpoint's queue and transfers change. *)
LEMMA LineFrame ==
  ASSUME IInv, NEW ep \in Endpoint,
         \A e \in Endpoint \ {ep} : queue'[e] = queue[e] /\ inflight'[e] = inflight[e]
  PROVE  Line' = [Line EXCEPT ![ep] = LineOf(queue'[ep], inflight'[ep])]
BY DEF Line

LEMMA LineSame ==
  ASSUME UNCHANGED <<queue, inflight>>
  PROVE  Line' = Line
BY DEF Line

LEMMA InitPromise == Init => Promise!Init
BY DEF Init, Promise!Init, Line, LineOf

LEMMA RequestPromise ==
  ASSUME IInv, NEW r \in Request, ReceiveRequest(r)
  PROVE  Promise!Accept(r) \/ Promise!Refuse(r)
<1> DEFINE ep == EndpointOf[r]
<1>1. ep \in Endpoint /\ status = "running" /\ outcome[r] # "waiting"
      /\ outcome' = [outcome EXCEPT ![r] = "waiting"]
  BY DeviceAssumption DEF ReceiveRequest
<1>2. queue[ep] \in Seq(Request) /\ inflight[ep] \in SUBSET Request
      /\ (\A a, b \in inflight[ep] : a = b) /\ Line[ep] = LineOf(queue[ep], inflight[ep])
  BY <1>1 DEF IInv, TypeOK, AllGood, Good, Line
<1>3. CASE status' = "stopping" /\ UNCHANGED <<queue, inflight>>
  BY <1>1, <1>3, LineSame DEF Promise!Refuse
<1>4. CASE ep \in busy /\ queue' = [queue EXCEPT ![ep] = Append(@, r)]
           /\ UNCHANGED <<status, busy, inflight, claimed>>
  <2>1. queue'[ep] = Append(queue[ep], r)
        /\ \A e \in Endpoint \ {ep} : queue'[e] = queue[e] /\ inflight'[e] = inflight[e]
    BY <1>1, <1>4 DEF IInv, TypeOK
  <2>2. Line' = [Line EXCEPT ![ep] = LineOf(queue'[ep], inflight'[ep])]
    BY <1>1, <2>1, LineFrame
  <2>3. LineOf(queue'[ep], inflight'[ep]) = Append(Line[ep], r)
    BY <1>2, <1>4, <2>1, LineAppend
  <2> QED
    BY <1>1, <1>4, <2>2, <2>3 DEF Promise!Accept
<1>5. CASE ep \notin busy /\ CheckEndpointQueue(ep, Append(queue[ep], r))
  <2>1. inflight[ep] = {} /\ queue[ep] = <<>> /\ Append(queue[ep], r) = <<r>>
    <3>1. inflight[ep] = {} /\ queue[ep] = <<>>
      BY <1>5, <1>1 DEF IInv, AllMarked, Marked
    <3>2. Append(<<>>, r) = <<r>>
      OBVIOUS
    <3> QED
      BY <3>1, <3>2
  <2>2. Len(<<r>>) = 1 /\ <<r>> # <<>> /\ Head(<<r>>) = r /\ Tail(<<r>>) = <<>>
        /\ <<>> \in Seq(Request)
    OBVIOUS
  <2>3. queue' = [queue EXCEPT ![ep] = <<>>] /\ Submit(ep, r)
    BY <1>5, <2>1, <2>2, DeviceAssumption DEF CheckEndpointQueue
  <2>4. queue'[ep] = <<>> /\ \A e \in Endpoint \ {ep} : queue'[e] = queue[e]
    BY <1>1, <2>3 DEF IInv, TypeOK
  <2>5. CASE inflight' = [inflight EXCEPT ![ep] = @ \cup {r}] /\ status' = status
    <3>1. inflight'[ep] = {r} /\ \A e \in Endpoint \ {ep} : inflight'[e] = inflight[e]
      BY <1>1, <2>1, <2>5 DEF IInv, TypeOK
    <3>2. Line' = [Line EXCEPT ![ep] = LineOf(queue'[ep], inflight'[ep])]
      BY <1>1, <2>4, <3>1, LineFrame
    <3>3. LineOf(queue'[ep], inflight'[ep]) = <<r>> \o <<>>
      BY <2>2, <2>4, <3>1, LineSteps
    <3>4. Line[ep] = <<>>
      BY <1>2, <2>1 DEF LineOf
    <3>5. <<r>> \o <<>> = Append(<<>>, r)
      OBVIOUS
    <3> QED
      BY <1>1, <2>5, <3>2, <3>3, <3>4, <3>5 DEF Promise!Accept
  <2>6. CASE inflight' = inflight /\ status' = "stopping"
    <3>1. queue' = queue
      BY <2>1, <2>3, <1>1 DEF IInv, TypeOK
    <3> QED
      BY <1>1, <2>6, <3>1, LineSame DEF Promise!Refuse
  <2> QED
    BY <2>3, <2>5, <2>6 DEF Submit
<1> QED
  BY <1>3, <1>4, <1>5 DEF ReceiveRequest

LEMMA UnbusyPromise ==
  ASSUME IInv, NEW ep \in Endpoint, ReceiveUnbusy(ep)
  PROVE  \/ Promise!Shutdown \/ Promise!Fail(ep)
         \/ UNCHANGED Promise!vars
<1>1. status = "running" /\ unbusy[ep] = 1 /\ outcome' = outcome
      /\ CheckEndpointQueue(ep, queue[ep]) /\ queue[ep] \in Seq(Request)
  BY DEF ReceiveUnbusy, IInv, TypeOK
<1>2. inflight[ep] = {}
  BY <1>1 DEF IInv, AllGood, Good
<1>3. Line[ep] = queue[ep]
  BY <1>2 DEF Line, LineOf
<1>4. CASE queue' = [queue EXCEPT ![ep] = queue[ep]] /\ inflight' = inflight
           /\ (status' = status \/ status' = "stopping")
  <2>1. Line' = Line
    BY <1>4, LineSame DEF IInv, TypeOK
  <2> QED
    BY <1>1, <1>4, <2>1 DEF Promise!vars, Promise!Shutdown
<1>5. CASE queue[ep] # <<>> /\ queue' = [queue EXCEPT ![ep] = Tail(queue[ep])]
           /\ Submit(ep, Head(queue[ep]))
  <2> DEFINE h == Head(queue[ep])
  <2>1. h \in Request /\ Tail(queue[ep]) \in Seq(Request)
    BY <1>1, <1>5
  <2>2. queue'[ep] = Tail(queue[ep]) /\ \A e \in Endpoint \ {ep} : queue'[e] = queue[e]
    BY <1>5 DEF IInv, TypeOK
  <2>3. CASE inflight' = [inflight EXCEPT ![ep] = @ \cup {h}] /\ status' = status
    <3>1. inflight'[ep] = {h} /\ \A e \in Endpoint \ {ep} : inflight'[e] = inflight[e]
      BY <1>2, <2>3 DEF IInv, TypeOK
    <3>2. Line' = [Line EXCEPT ![ep] = LineOf(queue'[ep], inflight'[ep])]
      BY <2>2, <3>1, LineFrame
    <3>3. LineOf(queue'[ep], inflight'[ep]) = Line[ep]
      BY <1>1, <1>3, <1>5, <2>1, <2>2, <3>1, LineSteps
    <3>4. Line' = Line
      BY <3>2, <3>3 DEF Line
    <3> QED
      BY <1>1, <2>3, <3>4 DEF Promise!vars
  <2>4. CASE inflight' = inflight /\ status' = "stopping"
    <3>1. Line' = [Line EXCEPT ![ep] = LineOf(queue'[ep], inflight'[ep])]
      BY <2>2, <2>4, LineFrame
    <3>2. LineOf(queue'[ep], inflight'[ep]) = Tail(Line[ep])
      BY <1>2, <1>3, <2>2, <2>4 DEF LineOf
    <3> QED
      BY <1>1, <1>3, <1>5, <2>4, <3>1, <3>2 DEF Promise!Fail
  <2> QED
    BY <1>5, <2>3, <2>4 DEF Submit
<1> QED
  BY <1>1, <1>4, <1>5 DEF CheckEndpointQueue

LEMMA TransferPromise ==
  ASSUME IInv, NEW ep \in Endpoint, NEW r \in Request, r \in inflight[ep],
         inflight' = [inflight EXCEPT ![ep] = @ \ {r}], queue' = queue
  PROVE  Line[ep] # <<>> /\ Head(Line[ep]) = r /\ Line' = [Line EXCEPT ![ep] = Tail(@)]
<1>1. inflight[ep] = {r} /\ queue[ep] \in Seq(Request)
  BY DEF IInv, TypeOK, AllGood, Good
<1>2. inflight'[ep] = {} /\ \A e \in Endpoint \ {ep} : inflight'[e] = inflight[e]
  BY <1>1 DEF IInv, TypeOK
<1>3. Line' = [Line EXCEPT ![ep] = LineOf(queue'[ep], inflight'[ep])]
  BY <1>2, LineFrame
<1>4. Line[ep] = LineOf(queue[ep], {r})
  BY <1>1 DEF Line
<1>5. LineOf(queue'[ep], inflight'[ep]) = queue[ep]
  BY <1>2 DEF LineOf
<1>6. /\ LineOf(queue[ep], {r}) # <<>>
      /\ Head(LineOf(queue[ep], {r})) = r
      /\ Tail(LineOf(queue[ep], {r})) = queue[ep]
  BY <1>1, LineSteps
<1>7. Line[ep] # <<>> /\ Head(Line[ep]) = r /\ Tail(Line[ep]) = queue[ep]
  BY <1>4, <1>6
<1> QED
  BY <1>3, <1>5, <1>7

LEMMA NextPromise == IInv /\ [Next]_vars => [Promise!Next]_(Promise!vars)
<1> SUFFICES ASSUME IInv, [Next]_vars PROVE [Promise!Next]_(Promise!vars)
  OBVIOUS
<1>1. ASSUME NEW r \in Request, ReceiveRequest(r) PROVE Promise!Next
  BY <1>1, RequestPromise DEF Promise!Next
<1>2. ASSUME NEW ep \in Endpoint, ReceiveUnbusy(ep) PROVE [Promise!Next]_(Promise!vars)
  BY <1>2, UnbusyPromise DEF Promise!Next
<1>3. ASSUME NEW ep \in Endpoint, NEW r \in Request, Complete(ep, r) PROVE Promise!Next
  <2>1. Promise!Serve(ep)
    BY <1>3, TransferPromise DEF Complete, Promise!Serve
  <2> QED
    BY <2>1 DEF Promise!Next
<1>4. ASSUME NEW ep \in Endpoint, NEW r \in Request, Bail(ep, r) PROVE Promise!Next
  <2>1. Promise!Fail(ep)
    BY <1>4, TransferPromise DEF Bail, Promise!Fail
  <2> QED
    BY <2>1 DEF Promise!Next
<1>5. CASE Close
  <2>1. Promise!Shutdown
    BY <1>5, LineSame DEF Close, Promise!Shutdown
  <2> QED
    BY <2>1 DEF Promise!Next
<1>6. CASE PostStop
  BY <1>6, LineSame DEF PostStop, Promise!vars
<1>7. CASE UNCHANGED vars
  BY <1>7, LineSame DEF vars, Promise!vars
<1> QED
  BY <1>1, <1>2, <1>3, <1>4, <1>5, <1>6, <1>7 DEF Next, TransferDone

(* UsbDevice implements IrpService: for every number of requesters and       *)
(* endpoints and every queue limit, answers come in the order of arrival,    *)
(* one for each accepted request.                                            *)
THEOREM DeviceImplementsService == Spec => ImplementsIrpService
BY InitPromise, NextPromise, SpecIInv, PTL DEF Spec, ImplementsIrpService, Promise!Spec
=============================================================================
