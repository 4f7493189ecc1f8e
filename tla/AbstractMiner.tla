--------------------------- MODULE AbstractMiner ---------------------------
(***************************************************************************)
(* What every miner has in common (drivers/AbstractMiner.scala): the three *)
(* messages of a work source, works built from them, and nonces submitted  *)
(* as shares by futures that run beside the actor.  The work source is the *)
(* abstract one that StratumPool implements; its updates of a subscriber   *)
(* are three messages, and anything may come between them.                 *)
(*                                                                         *)
(* SerialMiner and StratumProxy extend this module with the rest of their  *)
(* actor's state.  An actor has one mailbox, of which these are handlers:  *)
(* they are given the message they take and the mail that is left.         *)
(***************************************************************************)
EXTENDS WorkSource, Sequences

CONSTANTS
  Self,       \* the miner
  MaxMail     \* bound: mail for which timers and the pool's changes wait

ASSUME MinerAssumption ==
  /\ Miner = {Self} /\ NoConn \notin Conn
  /\ MaxMail \in Nat /\ MaxJobs \in Nat /\ MaxDiff \in Nat

VARIABLES
  driver,          \* the class of the miner; it never changes
  letters,         \* what the pool's handler has still to tell the miner
  inbox,           \* the actor's mailbox
  up,              \* the actor was not stopped
  extraNonceInfo,  \* the connection whose extranonce the miner has, or NoConn
  target,          \* the difficulty of targetBytes; 0 if there is none
  miningJob,       \* connection and number of its job; NoJob if there is none
  timer,           \* a WorkTimeout is scheduled
  pending,         \* futures that will run submitNonce
  shares           \* SubmitStratumJobs under way to the pool

minerVars == <<extraNonceInfo, target, miningJob, timer, up>>
shareVars == <<pending, shares>>
baseVars == <<driver, sourceVars, letters, inbox, minerVars, shareVars>>

NoJob == [conn |-> NoConn, job |-> 0]
Job == [conn : Conn, job : 1..MaxJobs]

(* What a work is built from: en is the connection of its extranonce. *)
Work == [en : Conn, of : Job]
NoWork == [en |-> NoConn, of |-> NoJob]

Letter ==
  [kind : {"ExtraNonce"}, val : Conn] \cup [kind : {"Difficulty"}, val : 1..MaxDiff]
    \cup [kind : {"MiningJob"}, val : Job]

(* A nonce solves the work it is submitted with, or another one. *)
Nonce == [work : Work, solves : BOOLEAN]
Share == [work : Work, label : Job]

Msg(k, v) == [kind |-> k, val |-> v]
Waiting(k) == \E i \in DOMAIN inbox : inbox[i].kind = k

BaseTypeOK ==
  /\ letters \in Seq(Letter)
  /\ up \in BOOLEAN /\ timer \in BOOLEAN
  /\ extraNonceInfo \in Conn \cup {NoConn}
  /\ target \in 0..MaxDiff
  /\ miningJob \in Job \cup {NoJob}
  /\ pending \in Seq(Nonce)
  /\ shares \in Seq(Share)

BaseInit ==
  /\ SourceInit
  /\ letters = <<>>
  /\ up = TRUE /\ timer = FALSE
  /\ extraNonceInfo = NoConn /\ target = 0 /\ miningJob = NoJob
  /\ pending = <<>> /\ shares = <<>>
-----------------------------------------------------------------------------
(* The pool. *)

(* Bound: with more than this in its mailbox the miner is left alone. *)
Calm == up /\ Len(inbox) <= MaxMail

(* updateSubscriber: the three messages of connection c's work. *)
Update(c, o) ==
  <<Msg("ExtraNonce", c), Msg("Difficulty", o.dif),
    Msg("MiningJob", [conn |-> c, job |-> o.job])>>

(* The handler tells them one by one; meanwhile the pool does nothing else.  *)
Send(ms) ==
  /\ letters = <<>>
  /\ letters' = IF up /\ Self \in listeners' THEN letters \o ms ELSE letters

(* A difficulty or a job of connection c. *)
PoolOffer(c) ==
  /\ Calm
  /\ \E o \in Offer :
       /\ NewOffer(c, o)
       /\ o.dif = offer[c].dif \/ o.job = offer[c].job
       /\ Send(IF source' # source THEN Update(c, o)
               ELSE IF c # source THEN <<>>
               ELSE IF o.dif # offer[c].dif THEN <<Msg("Difficulty", o.dif)>>
               ELSE <<Msg("MiningJob", [conn |-> c, job |-> o.job])>>)
  /\ UNCHANGED <<driver, inbox, minerVars, shareVars>>

PoolSwitch(c) ==
  /\ Calm /\ source # NoConn
  /\ Switch(c)
  /\ Send(Update(c, offer[c]))
  /\ UNCHANGED <<driver, inbox, minerVars, shareVars>>

(* The Subscribe of stratumSubscribe, which every miner sends in preStart. *)
PoolSubscribe ==
  /\ up /\ Self \notin listeners
  /\ Listen(Self)
  /\ Send(IF source = NoConn THEN <<>> ELSE Update(source, offer[source]))
  /\ UNCHANGED <<driver, inbox, minerVars, shareVars>>

(* Terminated of the miner. *)
PoolForgets ==
  /\ ~ up
  /\ Unlisten(Self)
  /\ UNCHANGED <<driver, letters, inbox, minerVars, shareVars>>

(* SubmitStratumJob: the share goes to the session of the connection that is *)
(* the source by now.                                                        *)
ForwardShare ==
  /\ shares # <<>> /\ letters = <<>>
  /\ shares' = Tail(shares)
  /\ UNCHANGED <<driver, sourceVars, letters, inbox, minerVars, pending>>

Deliver ==
  /\ letters # <<>>
  /\ letters' = Tail(letters)
  /\ inbox' = Append(inbox, Head(letters))
  /\ UNCHANGED <<driver, sourceVars, minerVars, shareVars>>

PoolChanges == \E c \in Conn : PoolOffer(c) \/ PoolSwitch(c)
-----------------------------------------------------------------------------
(* Works and nonces. *)

(* getWork is defined: there is a job, an extranonce and a target. *)
HasWork == miningJob # NoJob /\ extraNonceInfo # NoConn /\ target # 0

(* The work that getWork builds. *)
BuiltWork == [en |-> extraNonceInfo, of |-> miningJob]

(* Slip: a new job does not cancel the work of the old one. *)
MiningJobKept(msg, rest) ==
  /\ msg.kind = "MiningJob"
  /\ miningJob' = msg.val
  /\ inbox' = rest
  /\ UNCHANGED <<letters, extraNonceInfo, target, timer, up, shareVars>>

TakeMiningJob(msg, rest) ==
  /\ msg.kind = "MiningJob"
  /\ miningJob' = msg.val
  /\ inbox' = Append(rest, Msg("CancelWork", 0))
  /\ UNCHANGED <<letters, extraNonceInfo, target, timer, up, shareVars>>

TakeExtraNonce(msg, rest) ==
  /\ msg.kind = "ExtraNonce"
  /\ extraNonceInfo' = msg.val
  /\ inbox' = Append(rest, Msg("CancelWork", 0))
  /\ UNCHANGED <<letters, target, miningJob, timer, up, shareVars>>

(* A difficulty counts for the next work, and at once for shares. *)
TakeDifficulty(msg, rest) ==
  /\ msg.kind = "Difficulty"
  /\ target' = msg.val
  /\ inbox' = rest
  /\ UNCHANGED <<letters, extraNonceInfo, miningJob, timer, up, shareVars>>

(* A nonce resets the work timer; what has the old one put in the mailbox    *)
(* stays there.  The rest is left to a future.                               *)
TakeNonce(msg, rest) ==
  /\ msg.kind = "Nonce"
  /\ timer' = TRUE
  /\ pending' = Append(pending, msg.val)
  /\ inbox' = rest
  /\ UNCHANGED <<letters, extraNonceInfo, target, miningJob, up, shares>>

(* context stop self.  What its future reads of the actor is left as it is.  *)
Stops ==
  /\ up' = FALSE
  /\ inbox' = <<>> /\ letters' = <<>>
  /\ timer' = FALSE
  /\ UNCHANGED <<extraNonceInfo, target, miningJob, shareVars>>

TakeWorkTimeout(msg, rest) == msg.kind = "WorkTimeout" /\ Stops

WorkReceive(msg, rest) ==
  \/ TakeExtraNonce(msg, rest) \/ TakeDifficulty(msg, rest) \/ TakeMiningJob(msg, rest)
  \/ TakeNonce(msg, rest) \/ TakeWorkTimeout(msg, rest)

(* The work timer fires. *)
WorkTimeout ==
  /\ up /\ timer /\ Calm
  /\ timer' = FALSE
  /\ inbox' = Append(inbox, Msg("WorkTimeout", 0))
  /\ UNCHANGED <<driver, sourceVars, letters, extraNonceInfo, target, miningJob, up, shareVars>>

(* Future i runs submitNonce.  Its arguments are evaluated by the future's   *)
(* thread: the job is the actor's of that moment, and so is the difficulty,  *)
(* which the hash meets or not.  The hash of a nonce that solves another     *)
(* work meets none.                                                          *)
SubmitNonce(i) ==
  /\ i \in DOMAIN pending
  /\ pending' = SubSeq(pending, 1, i - 1) \o SubSeq(pending, i + 1, Len(pending))
  /\ \/ /\ pending[i].solves
        /\ shares' = Append(shares, [work |-> pending[i].work, label |-> miningJob])
     \/ shares' = shares
  /\ UNCHANGED <<driver, sourceVars, letters, inbox, minerVars>>

(* What happens around the actor, but for the pool's changes. *)
Around ==
  \/ PoolSubscribe \/ PoolForgets \/ ForwardShare \/ Deliver \/ WorkTimeout
  \/ \E i \in DOMAIN pending : SubmitNonce(i)

(* The share is for what its receiver wants: the newest job of the source,   *)
(* solved with that connection's extranonce, and under that job's name.      *)
GoodShare(s) ==
  /\ s.work.en = source
  /\ s.work.of = [conn |-> source, job |-> offer[source].job]
  /\ s.label = s.work.of

(* Once the pool's offer settles, every share that goes to the server is     *)
(* good: nonces of older works, their futures, and shares for a source that  *)
(* was left come to an end, whatever the miner does in between.              *)
StaleSharesEnd ==
  []<><<TRUE>>_sourceVars \/ <>[][ForwardShare => GoodShare(Head(shares))]_shares

(* The pool and the futures' threads do what is theirs to do. *)
BaseFairness ==
  /\ WF_baseVars(PoolSubscribe) /\ WF_baseVars(ForwardShare)
  /\ WF_baseVars(Deliver) /\ WF_baseVars(SubmitNonce(1))
=============================================================================
