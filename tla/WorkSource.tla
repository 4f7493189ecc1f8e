----------------------------- MODULE WorkSource -----------------------------
(***************************************************************************)
(* What a StratumPool promises to the actors that subscribe to it for work *)
(* (network/StratumPool.scala), with sessions, mailboxes and its records   *)
(* left out: at any time the pool offers the work of one connection, its   *)
(* source.  Every listener has been told of exactly that work: extranonce, *)
(* difficulty and job of one and the same connection, all of its newest.   *)
(***************************************************************************)
EXTENDS Naturals

CONSTANTS
  Conn,      \* configured connections
  NoConn,    \* no connection
  Miner,     \* actors that subscribe for work
  MaxJobs,   \* bound: jobs of one connection
  MaxDiff    \* bound: difficulties

VARIABLES
  offer,      \* difficulty and job of each connection; 0 is "none yet"
  source,     \* the connection whose work is offered, or NoConn
  listeners,  \* the subscribers
  told        \* what each miner was last told of, or Untold

sourceVars == <<offer, source, listeners, told>>

Offer == [dif : 0..MaxDiff, job : 0..MaxJobs]
Untold == [conn |-> NoConn, dif |-> 0, job |-> 0]

WorkOf(c, o) == [conn |-> c, dif |-> o.dif, job |-> o.job]
Complete(o) == o.dif # 0 /\ o.job # 0

(* Every listener is told of the work o of connection c. *)
TellAll(c, o) ==
  told' = [m \in Miner |-> IF m \in listeners THEN WorkOf(c, o) ELSE told[m]]

SourceInit ==
  /\ offer = [c \in Conn |-> [dif |-> 0, job |-> 0]]
  /\ source = NoConn
  /\ listeners = {}
  /\ told = [m \in Miner |-> Untold]

(* A connection gets a difficulty or a job; jobs are new ones.  The          *)
(* listeners hear of it at once if it is the source's.  The first connection *)
(* to offer a job becomes the source.                                        *)
NewOffer(c, o) ==
  /\ o # offer[c] /\ o.job >= offer[c].job /\ o.dif # 0
  /\ offer' = [offer EXCEPT ![c] = o]
  /\ \/ /\ source = c
        /\ TellAll(c, o)
        /\ source' = source
     \/ /\ source = NoConn /\ Complete(o)
        /\ source' = c
        /\ TellAll(c, o)
     \/ /\ source # c
        /\ source = NoConn => o.job = 0
        /\ UNCHANGED <<source, told>>
  /\ listeners' = listeners

(* Another connection becomes the source. *)
Switch(c) ==
  /\ c # source /\ Complete(offer[c])
  /\ source' = c
  /\ TellAll(c, offer[c])
  /\ UNCHANGED <<offer, listeners>>

(* A listener is told what the others know, again if it listens already. *)
Listen(m) ==
  /\ listeners' = listeners \cup {m}
  /\ told' = IF source = NoConn THEN told
             ELSE [told EXCEPT ![m] = WorkOf(source, offer[source])]
  /\ UNCHANGED <<offer, source>>

Unlisten(m) ==
  /\ m \in listeners
  /\ listeners' = listeners \ {m}
  /\ UNCHANGED <<offer, source, told>>

SourceNext ==
  \/ \E c \in Conn : \/ \E o \in Offer : NewOffer(c, o)
                     \/ Switch(c)
  \/ \E m \in Miner : Listen(m) \/ Unlisten(m)

SourceSpec == SourceInit /\ [][SourceNext]_sourceVars
=============================================================================
