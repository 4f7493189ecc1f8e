----------------------------- MODULE StratumPool -----------------------------
(***************************************************************************)
(* The StratumPool actor (network/StratumPool.scala) with the StratumActor *)
(* sessions it creates, one per configured connection, and the miners that *)
(* subscribe to it.  The sessions are reduced here to the messages they    *)
(* send to the pool and to their life and death.                           *)
(*                                                                         *)
(* The pool never calls context.watch on a session, so no Terminated of a  *)
(* session reaches it: the handler for that message (and conLastFailed,    *)
(* which it alone writes) is unreachable and absent.                       *)
(***************************************************************************)
EXTENDS Naturals, Sequences

CONSTANTS
  Conn,        \* configured connections
  NoConn,      \* currentConnection = None
  Miner,       \* actors that subscribe for work
  Priority,    \* the priority of each connection
  Unreliable,  \* connections whose session may fail
  MaxJobs,     \* bound: mining.notify broadcasts of one session
  MaxDiff      \* bound: difficulties go from the default 1 up to this

ASSUME PoolAssumption ==
  /\ NoConn \notin Conn
  /\ Priority \in [Conn -> Nat]
  /\ Unreliable \subseteq Conn
  /\ MaxJobs \in Nat /\ MaxDiff \in Nat \ {0}

VARIABLES
  actor,        \* the StratumActor of a connection; "none" iff absent from stratumRefs
  session,      \* its extranonce, difficulty and lastJob
  subscribed,   \* connections whose actor has the pool among its subscribers
  chan,         \* messages from each session to the pool, in order
  connections,  \* stratumConnections
  extraNonces, difficulties, jobs,  \* what the pool recorded; "none" or 0 if nothing
  current,      \* currentConnection
  subscribers,  \* the pool's subscribers
  view          \* the last ExtraNonce, Difficulty and MiningJob sent to each miner

sessionVars == <<session, subscribed>>
records == <<extraNonces, difficulties, jobs>>
vars == <<actor, session, subscribed, chan, connections, extraNonces, difficulties,
          jobs, current, subscribers, view>>

Nothing == <<>>
Tag(V) == (Conn \X V) \cup {Nothing}

Message ==
  [kind : {"ExtraNonce"}, val : {"default", "real"}]
    \cup [kind : {"Difficulty"}, val : 1..MaxDiff]
    \cup [kind : {"MiningJob"}, val : 1..MaxJobs]

(* Only ExtraNonces of open sessions exist: "default" is (Nil, 0), what the *)
(* actor holds until the server has answered mining.subscribe.              *)
TypeOK ==
  /\ actor \in [Conn -> {"none", "connecting", "normal", "dead"}]
  /\ session \in [Conn -> [en : {"default", "real"}, dif : 1..MaxDiff, job : 0..MaxJobs]]
  /\ subscribed \in SUBSET Conn
  /\ chan \in [Conn -> Seq(Message)]
  /\ connections \in SUBSET Conn
  /\ extraNonces \in [Conn -> {"none", "default", "real"}]
  /\ difficulties \in [Conn -> 0..MaxDiff]
  /\ jobs \in [Conn -> 0..MaxJobs]
  /\ current \in Conn \cup {NoConn}
  /\ subscribers \in SUBSET Miner
  /\ view \in [Miner -> [en : Tag({"default", "real"}), dif : Tag(1..MaxDiff),
                         job : Tag(1..MaxJobs)]]

Init ==
  /\ actor = [c \in Conn |-> "none"]
  /\ session = [c \in Conn |-> [en |-> "default", dif |-> 1, job |-> 0]]
  /\ subscribed = {}
  /\ chan = [c \in Conn |-> <<>>]
  /\ connections = {}
  /\ extraNonces = [c \in Conn |-> "none"]
  /\ difficulties = [c \in Conn |-> 0]
  /\ jobs = [c \in Conn |-> 0]
  /\ current = NoConn
  /\ subscribers = {}
  /\ view = [m \in Miner |-> [en |-> Nothing, dif |-> Nothing, job |-> Nothing]]
-----------------------------------------------------------------------------
(* The sessions. *)

Msg(k, v) == [kind |-> k, val |-> v]

(* subscribers.foreach(_ ! ...), of which the pool is one or not yet. *)
Tell(c, ms) ==
  chan' = IF c \in subscribed THEN [chan EXCEPT ![c] = @ \o ms] ELSE chan

(* Tcp.Connected: the actor becomes normal and begins the session. *)
Connected(c) ==
  /\ actor[c] = "connecting"
  /\ actor' = [actor EXCEPT ![c] = "normal"]
  /\ UNCHANGED <<session, subscribed, chan, connections, extraNonces, difficulties,
                 jobs, current, subscribers, view>>

(* Slip: lastJob is sent to a new subscriber even when there is none.        *)
SessionSubscribeAnyJob(c) ==
  /\ actor[c] = "normal" /\ c \notin subscribed
  /\ subscribed' = subscribed \cup {c}
  /\ chan' = [chan EXCEPT ![c] = @ \o
       <<Msg("ExtraNonce", session[c].en), Msg("Difficulty", session[c].dif),
         Msg("MiningJob", session[c].job)>>]
  /\ UNCHANGED <<actor, session, connections, extraNonces, difficulties, jobs,
                 current, subscribers, view>>

(* The Subscribe that getStratumRef sent is handled; until Connected it is  *)
(* stashed.                                                                 *)
SessionSubscribe(c) ==
  /\ actor[c] = "normal" /\ c \notin subscribed
  /\ subscribed' = subscribed \cup {c}
  /\ chan' = [chan EXCEPT ![c] = @ \o
       (<<Msg("ExtraNonce", session[c].en), Msg("Difficulty", session[c].dif)>>
        \o IF session[c].job = 0 THEN <<>> ELSE <<Msg("MiningJob", session[c].job)>>)]
  /\ UNCHANGED <<actor, session, connections, extraNonces, difficulties, jobs,
                 current, subscribers, view>>

(* Slip: the subscribers are not told of the extranonce. *)
SubscribeResponseUntold(c) ==
  /\ actor[c] = "normal" /\ session[c].en = "default"
  /\ session' = [session EXCEPT ![c].en = "real"]
  /\ UNCHANGED <<actor, subscribed, chan, connections, extraNonces, difficulties, jobs,
                 current, subscribers, view>>

(* The response to mining.subscribe carries the session's extranonce. *)
SubscribeResponse(c) ==
  /\ actor[c] = "normal" /\ session[c].en = "default"
  /\ session' = [session EXCEPT ![c].en = "real"]
  /\ Tell(c, <<Msg("ExtraNonce", "real")>>)
  /\ UNCHANGED <<actor, subscribed, connections, extraNonces, difficulties, jobs,
                 current, subscribers, view>>

(* Broadcasts.  A server answers mining.subscribe before it sends work: the *)
(* extranonce is what makes a job minable (stratum protocol, external).     *)
SetDifficulty(c) ==
  /\ actor[c] = "normal" /\ session[c].en = "real"
  /\ \E d \in session[c].dif + 1 .. MaxDiff :
       /\ session' = [session EXCEPT ![c].dif = d]
       /\ Tell(c, <<Msg("Difficulty", d)>>)
  /\ UNCHANGED <<actor, subscribed, connections, extraNonces, difficulties, jobs,
                 current, subscribers, view>>

Notify(c) ==
  /\ actor[c] = "normal" /\ session[c].en = "real"
  /\ session[c].job < MaxJobs
  /\ session' = [session EXCEPT ![c].job = @ + 1]
  /\ Tell(c, <<Msg("MiningJob", session[c].job + 1)>>)
  /\ UNCHANGED <<actor, subscribed, connections, extraNonces, difficulties, jobs,
                 current, subscribers, view>>

(* CommandFailed, ConnectionClosed, the inactivity check, a malformed line: *)
(* each throws.  The pool's strategy is Restart, but restarting calls       *)
(* postStop, which stops the actor: the fresh instance never gets a message.*)
SessionFails(c) ==
  /\ c \in Unreliable
  /\ actor[c] \in {"connecting", "normal"}
  /\ actor' = [actor EXCEPT ![c] = "dead"]
  /\ UNCHANGED <<session, subscribed, chan, connections, extraNonces, difficulties,
                 jobs, current, subscribers, view>>
-----------------------------------------------------------------------------
(* The pool's helpers. *)

(* getStratumRef of every connection, which activeConnections calls: canRetry *)
(* always holds, for conLastFailed stays empty.                              *)
WithRefs(cs) ==
  [c \in Conn |-> IF c \in cs /\ actor[c] = "none" THEN "connecting" ELSE actor[c]]

(* activeConnections, once every reference exists. *)
Active(cs, js) == {c \in cs : js[c] # 0}

(* Slip: the priorities are compared the wrong way round. *)
PickLowest(S) == {c \in S : \A d \in S : Priority[c] <= Priority[d]}

(* pickConnection: any member of the highest priority (weighted random). *)
Pick(S) == {c \in S : \A d \in S : Priority[d] <= Priority[c]}

(* Slip: the job goes out, the extranonce does not. *)
UpdatedJobOnly(v, c, ens, difs, js) ==
  [m \in Miner |->
     IF m \in subscribers /\ ens[c] # "none" /\ difs[c] # 0 /\ js[c] # 0
     THEN [v[m] EXCEPT !.job = <<c, js[c]>>] ELSE v[m]]

(* updateSubscriber for every subscriber. *)
Updated(v, c, ens, difs, js) ==
  [m \in Miner |->
     IF m \in subscribers /\ ens[c] # "none" /\ difs[c] # 0
     THEN [en  |-> <<c, ens[c]>>,
           dif |-> <<c, difs[c]>>,
           job |-> IF js[c] = 0 THEN v[m].job ELSE <<c, js[c]>>]
     ELSE v[m]]

(* checkConnections, given the records and what was sent before the call: a  *)
(* connection is picked only when there is none.                             *)
CheckConnections(cs, ens, difs, js, v) ==
  \/ /\ current # NoConn
     /\ view' = v
     /\ UNCHANGED <<current, actor>>
  \/ /\ current = NoConn
     /\ actor' = WithRefs(cs)
     /\ \/ /\ Active(cs, js) = {}
           /\ current' = NoConn
           /\ view' = v
        \/ \E c \in Pick(Active(cs, js)) :
             /\ current' = c
             /\ view' = Updated(v, c, ens, difs, js)

(* Slip: what any session says is forwarded. *)
ForwardAnyConnection(c, field, x) ==
  [m \in Miner |-> IF m \in subscribers
                   THEN [view[m] EXCEPT ![field] = <<c, x>>] ELSE view[m]]

(* subscribers.foreach(_ ! x), if c is the current connection. *)
Forward(c, field, x) ==
  [m \in Miner |-> IF m \in subscribers /\ c = current
                   THEN [view[m] EXCEPT ![field] = <<c, x>>] ELSE view[m]]
-----------------------------------------------------------------------------
(* The pool's handlers. *)

AddConnection(c) ==
  /\ c \notin connections
  /\ connections' = connections \cup {c}
  /\ CheckConnections(connections', extraNonces, difficulties, jobs, view)
  /\ UNCHANGED <<session, subscribed, chan, extraNonces, difficulties, jobs, subscribers>>

(* Slip: a new subscriber is not told what the others know. *)
SubscribeUntold(m) ==
  /\ subscribers' = subscribers \cup {m}
  /\ UNCHANGED <<actor, session, subscribed, chan, connections, extraNonces, difficulties,
                 jobs, current, view>>

(* Subscribe(m), also when m is subscribed already. *)
Subscribe(m) ==
  /\ subscribers' = subscribers \cup {m}
  /\ view' = IF current = NoConn THEN view
             ELSE IF extraNonces[current] = "none" \/ difficulties[current] = 0 THEN view
             ELSE [view EXCEPT ![m] =
                     [en  |-> <<current, extraNonces[current]>>,
                      dif |-> <<current, difficulties[current]>>,
                      job |-> IF jobs[current] = 0 THEN @.job ELSE <<current, jobs[current]>>]]
  /\ UNCHANGED <<actor, session, subscribed, chan, connections, extraNonces, difficulties,
                 jobs, current>>

(* UnSubscribe(m), or Terminated(m). *)
UnSubscribe(m) ==
  /\ m \in subscribers
  /\ subscribers' = subscribers \ {m}
  /\ UNCHANGED <<actor, session, subscribed, chan, connections, extraNonces, difficulties,
                 jobs, current, view>>

(* A message of connection c's session.  For an ExtraNonce the code calls    *)
(* updateWork before it forwards and for the others after; both orders send  *)
(* every subscriber the same last message.                                   *)
ReceiveExtraNonce(c) ==
  /\ chan[c] # <<>> /\ Head(chan[c]).kind = "ExtraNonce"
  /\ chan' = [chan EXCEPT ![c] = Tail(@)]
  /\ extraNonces' = [extraNonces EXCEPT ![c] = Head(chan[c]).val]
  /\ CheckConnections(connections, extraNonces', difficulties, jobs,
                      Forward(c, "en", Head(chan[c]).val))
  /\ UNCHANGED <<session, subscribed, connections, difficulties, jobs, subscribers>>

(* Slip: a difficulty is recorded, and sent out with the next job only. *)
ReceiveDifficultyUnsent(c) ==
  /\ chan[c] # <<>> /\ Head(chan[c]).kind = "Difficulty"
  /\ chan' = [chan EXCEPT ![c] = Tail(@)]
  /\ difficulties' = [difficulties EXCEPT ![c] = Head(chan[c]).val]
  /\ CheckConnections(connections, extraNonces, difficulties', jobs, view)
  /\ UNCHANGED <<session, subscribed, connections, extraNonces, jobs, subscribers>>

ReceiveDifficulty(c) ==
  /\ chan[c] # <<>> /\ Head(chan[c]).kind = "Difficulty"
  /\ chan' = [chan EXCEPT ![c] = Tail(@)]
  /\ difficulties' = [difficulties EXCEPT ![c] = Head(chan[c]).val]
  /\ CheckConnections(connections, extraNonces, difficulties', jobs,
                      Forward(c, "dif", Head(chan[c]).val))
  /\ UNCHANGED <<session, subscribed, connections, extraNonces, jobs, subscribers>>

ReceiveMiningJob(c) ==
  /\ chan[c] # <<>> /\ Head(chan[c]).kind = "MiningJob"
  /\ chan' = [chan EXCEPT ![c] = Tail(@)]
  /\ jobs' = [jobs EXCEPT ![c] = Head(chan[c]).val]
  /\ CheckConnections(connections, extraNonces, difficulties, jobs',
                      Forward(c, "job", Head(chan[c]).val))
  /\ UNCHANGED <<session, subscribed, connections, extraNonces, difficulties, subscribers>>

(* MaybeChangeConnection, after ten seconds and then every five minutes: the *)
(* session of the connection it leaves is stopped.                           *)
MaybeChangeConnection ==
  LET candidates == Pick(Active(connections, jobs)) IN
  /\ \/ /\ candidates = {} \/ current \in candidates
        /\ actor' = WithRefs(connections)
        /\ UNCHANGED <<current, view>>
     \/ \E c \in candidates \ {current} :
        /\ actor' = [a \in Conn |-> IF a = current THEN "dead" ELSE WithRefs(connections)[a]]
        /\ current' = c
        /\ view' = Updated(view, c, extraNonces, difficulties, jobs)
  /\ UNCHANGED <<session, subscribed, chan, connections, extraNonces, difficulties,
                 jobs, subscribers>>

Receive(c) == ReceiveExtraNonce(c) \/ ReceiveDifficulty(c) \/ ReceiveMiningJob(c)
Server(c) == SubscribeResponse(c) \/ SetDifficulty(c) \/ Notify(c)
Session(c) == Connected(c) \/ SessionSubscribe(c) \/ Server(c) \/ SessionFails(c)

Next ==
  \/ \E c \in Conn : AddConnection(c) \/ Session(c) \/ Receive(c)
  \/ \E m \in Miner : Subscribe(m) \/ UnSubscribe(m)
  \/ MaybeChangeConnection

Spec == Init /\ [][Next]_vars

(* ScalaMiner adds every configured connection; a connection that does not   *)
(* fail connects, and its server answers and sends work; mailboxes are       *)
(* delivered; the switch timer repeats.                                      *)
Fairness ==
  /\ \A c \in Conn :
       /\ WF_vars(AddConnection(c)) /\ WF_vars(Connected(c))
       /\ WF_vars(SessionSubscribe(c))
       /\ WF_vars(SubscribeResponse(c)) /\ WF_vars(Notify(c))
       /\ WF_vars(Receive(c))
  /\ WF_vars(MaybeChangeConnection)

FairSpec == Spec /\ Fairness
-----------------------------------------------------------------------------
(* What the subscribers hold is what the pool last heard from the current    *)
(* connection, all three parts of it, whatever the order of switches,        *)
(* subscriptions and session messages.                                       *)
ViewCurrent ==
  current # NoConn =>
    \A m \in subscribers :
      view[m] = [en  |-> <<current, extraNonces[current]>>,
                 dif |-> <<current, difficulties[current]>>,
                 job |-> <<current, jobs[current]>>]

(* No miner is ever left with a job it cannot mine: a job comes with the     *)
(* extranonce and difficulty of the session that issued it, and never with   *)
(* the empty extranonce a session has before mining.subscribe is answered.   *)
MinableView ==
  \A m \in Miner :
    view[m].job # Nothing =>
      /\ view[m].en = <<view[m].job[1], "real">>
      /\ view[m].dif # Nothing /\ view[m].dif[1] = view[m].job[1]

(* What a miner was told, if its three parts are of one session.             *)
Heard(v) ==
  IF v.job = Nothing THEN [conn |-> NoConn, dif |-> 0, job |-> 0]
  ELSE IF v.en # <<v.job[1], "real">> \/ v.dif = Nothing THEN [mixed |-> v]
  ELSE IF v.dif[1] # v.job[1] THEN [mixed |-> v]
  ELSE [conn |-> v.job[1], dif |-> v.dif[2], job |-> v.job[2]]

Promise == INSTANCE WorkSource WITH
  offer     <- [c \in Conn |-> [dif |-> difficulties[c], job |-> jobs[c]]],
  source    <- current,
  listeners <- subscribers,
  told      <- [m \in Miner |-> Heard(view[m])]

(* Each step of the pool is one of the work source a miner relies on, or     *)
(* none: whatever way sessions, switches and subscriptions interleave, the   *)
(* pool's three records, its forwarding and its updates of subscribers       *)
(* amount to telling everybody of one connection's newest work.              *)
ImplementsWorkSource == Promise!SourceSpec

(* A single connection of the highest priority that has sent a job becomes   *)
(* the current one, and the pool does not leave it again.                    *)
HighestPriorityWins ==
  \A c \in Conn :
    (\A d \in Conn \ {c} : Priority[d] < Priority[c]) =>
      (c \in connections /\ jobs[c] # 0 ~> [](current = c))

(* If at least one connection never fails, a subscriber gets a job.          *)
WorkArrives ==
  \A m \in Miner :
    m \in subscribers ~> (view[m].job # Nothing \/ m \notin subscribers)
-----------------------------------------------------------------------------
OnDeadSession == current # NoConn /\ actor[current] = "dead"
Backup == \E c \in Conn : actor[c] = "normal" /\ jobs[c] # 0

(* "find highest active prio, and round robin that prio group"               *)
(* (StratumPool.scala, pickConnection): the miners are not left for ever on  *)
(* a connection without a session while another one has one and sent work.   *)
FailsOver == OnDeadSession /\ Backup ~> ~ (OnDeadSession /\ Backup)

(* The same comment, where no connection ever fails: switching in a priority *)
(* group keeps the current connection's session alive.                       *)
RotationKeepsSession == ~ OnDeadSession
=============================================================================
