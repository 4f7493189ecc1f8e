---------------------------- MODULE StratumProxy ----------------------------
(***************************************************************************)
(* The getwork proxy (network/StratumProxy.scala): an AbstractMiner whose  *)
(* devices are clients over HTTP.  A work is built by a future; what it    *)
(* yields goes to the client and, as a message of its own, to the actor,   *)
(* which remembers the work by its merkle hash.  A client's solution is    *)
(* looked up there.  Works are only forgotten when they are too old.       *)
(***************************************************************************)
EXTENDS AbstractMiner

CONSTANTS
  MerkleHash,  \* merkle hashes: those of works that exist at the same time
  MaxResults   \* bound: solutions under way from the clients to the pool

VARIABLES
  works,         \* the work of each merkle hash
  building,      \* hashes of works being built
  answers,       \* built, and not sent to the client
  built,         \* built, and not sent to the actor
  held,          \* works the client has
  merkleJobMap,  \* works the actor knows
  old            \* works older than jobTimeout

proxyVars == <<works, building, answers, built, held, merkleJobMap, old>>

ProxyMessage ==
  Letter \cup [kind : {"Nonce"}, val : Nonce]
    \cup [kind : {"GetWork", "Job", "SubmitResult"}, val : MerkleHash]
    \cup [kind : {"CancelWork", "JobTimeouts", "WorkTimeout"}, val : {0}]

ProxyTypeOK ==
  /\ BaseTypeOK
  /\ driver = "StratumProxy"
  /\ inbox \in Seq(ProxyMessage)
  /\ works \in [MerkleHash -> Work \cup {NoWork}]
  /\ building \cup answers \cup built \cup held \cup merkleJobMap \cup old
       \subseteq {h \in MerkleHash : works[h] # NoWork}

NoWorks ==
  /\ works = [h \in MerkleHash |-> NoWork]
  /\ building = {} /\ answers = {} /\ built = {} /\ held = {}
  /\ merkleJobMap = {} /\ old = {}

ProxyInit ==
  /\ BaseInit
  /\ driver = "StratumProxy"
  /\ inbox = <<>>
  /\ NoWorks
-----------------------------------------------------------------------------
(* The clients, and the HTTP layer between (external). *)

Mentions(h) ==
  \E i \in DOMAIN inbox :
    inbox[i].kind \in {"GetWork", "Job", "SubmitResult"} /\ inbox[i].val = h

(* A hash no work has; the extranonce counter makes that of a new work one.  *)
Fresh(h) == h \notin building \cup answers \cup built \cup held \cup merkleJobMap /\ ~ Mentions(h)

ClientAsks(h) ==
  /\ Calm /\ Fresh(h)
  /\ inbox' = Append(inbox, Msg("GetWork", h))
  /\ works' = [works EXCEPT ![h] = NoWork] /\ old' = old \ {h}
  /\ UNCHANGED <<driver, sourceVars, letters, minerVars, shareVars, building, answers,
                 built, held, merkleJobMap>>

(* A client solves a work it has.  What does not solve it is never a share. *)
ClientSubmits(h) ==
  /\ up /\ h \in held
  /\ Len(SelectSeq(inbox, LAMBDA msg : msg.kind \in {"SubmitResult", "Nonce"}))
       + Len(pending) + Len(shares) < MaxResults
  /\ inbox' = Append(inbox, Msg("SubmitResult", h))
  /\ UNCHANGED <<driver, sourceVars, letters, minerVars, shareVars, proxyVars>>

ClientDrops(h) ==
  /\ up /\ h \in held
  /\ held' = held \ {h}
  /\ UNCHANGED <<baseVars, works, building, answers, built, merkleJobMap, old>>
-----------------------------------------------------------------------------
(* The future of a getwork, and its two callbacks in either order. *)

Build(h) ==
  /\ h \in building
  /\ building' = building \ {h}
  /\ answers' = answers \cup {h} /\ built' = built \cup {h}
  /\ UNCHANGED <<baseVars, works, held, merkleJobMap, old>>

Answer(h) ==
  /\ h \in answers
  /\ answers' = answers \ {h}
  /\ held' = held \cup {h}
  /\ UNCHANGED <<baseVars, works, building, built, merkleJobMap, old>>

TellSelf(h) ==
  /\ h \in built
  /\ built' = built \ {h}
  /\ inbox' = IF up THEN Append(inbox, Msg("Job", h)) ELSE inbox
  /\ UNCHANGED <<driver, sourceVars, letters, minerVars, shareVars, works, building,
                 answers, held, merkleJobMap, old>>
-----------------------------------------------------------------------------
(* The handlers. *)

IgnoreCancelWork(msg, rest) ==
  /\ msg.kind = "CancelWork"
  /\ inbox' = rest
  /\ UNCHANGED <<letters, minerVars, shareVars, proxyVars>>

(* Slip: work is built before all that it needs is known. *)
GetWorkEarly(msg, rest) ==
  /\ msg.kind = "GetWork"
  /\ inbox' = rest
  /\ IF miningJob # NoJob \/ extraNonceInfo # NoConn
     THEN /\ works' = [works EXCEPT ![msg.val] = BuiltWork]
          /\ building' = building \cup {msg.val}
     ELSE UNCHANGED <<works, building>>
  /\ UNCHANGED <<letters, minerVars, shareVars, answers, built, held, merkleJobMap, old>>

(* Without a job, extranonce or target the client gets nothing.              *)
GetWork(msg, rest) ==
  /\ msg.kind = "GetWork"
  /\ inbox' = rest
  /\ IF HasWork
     THEN /\ works' = [works EXCEPT ![msg.val] = BuiltWork]
          /\ building' = building \cup {msg.val}
     ELSE UNCHANGED <<works, building>>
  /\ UNCHANGED <<letters, minerVars, shareVars, answers, built, held, merkleJobMap, old>>

RememberJob(msg, rest) ==
  /\ msg.kind = "Job"
  /\ merkleJobMap' = merkleJobMap \cup {msg.val}
  /\ inbox' = rest
  /\ UNCHANGED <<letters, minerVars, shareVars, works, building, answers, built, held, old>>

(* Slip: a new job makes the proxy forget its works. *)
NewJobForgets(msg, rest) ==
  /\ TakeMiningJob(msg, rest)
  /\ merkleJobMap' = {}
  /\ UNCHANGED <<works, building, answers, built, held, old>>

(* submitStale: a new job leaves the works of older ones alone. *)
NewJob(msg, rest) == TakeMiningJob(msg, rest) /\ UNCHANGED proxyVars

(* Slip: the works that are too old are counted but stay. *)
JobTimeoutsCounted(msg, rest) ==
  /\ msg.kind = "JobTimeouts"
  /\ inbox' = rest
  /\ UNCHANGED <<letters, minerVars, shareVars, proxyVars>>

JobTimeouts(msg, rest) ==
  /\ msg.kind = "JobTimeouts"
  /\ merkleJobMap' = merkleJobMap \ old
  /\ inbox' = rest
  /\ UNCHANGED <<letters, minerVars, shareVars, works, building, answers, built, held, old>>

SubmitResult(msg, rest) ==
  /\ msg.kind = "SubmitResult"
  /\ inbox' = IF msg.val \in merkleJobMap
              THEN Append(rest, Msg("Nonce", [work |-> works[msg.val], solves |-> TRUE]))
              ELSE rest
  /\ UNCHANGED <<letters, minerVars, shareVars, proxyVars>>

ProxyReceive(msg, rest) ==
  \/ IgnoreCancelWork(msg, rest) \/ GetWork(msg, rest) \/ RememberJob(msg, rest)
  \/ NewJob(msg, rest) \/ JobTimeouts(msg, rest) \/ SubmitResult(msg, rest)
  \/ /\ \/ TakeExtraNonce(msg, rest) \/ TakeDifficulty(msg, rest)
        \/ TakeNonce(msg, rest) \/ TakeWorkTimeout(msg, rest)
     /\ UNCHANGED proxyVars

ReceiveProxy ==
  /\ up /\ inbox # <<>> /\ driver = "StratumProxy"
  /\ ProxyReceive(Head(inbox), Tail(inbox))
  /\ UNCHANGED <<driver, sourceVars>>
-----------------------------------------------------------------------------
(* Timers. *)

(* job.started was more than jobTimeout ago. *)
Ages(h) ==
  /\ up /\ works[h] # NoWork /\ h \notin building \cup old
  /\ old' = old \cup {h}
  /\ UNCHANGED <<baseVars, works, building, answers, built, held, merkleJobMap>>

(* jTimeoutTimer, when it makes a difference. *)
JobTimeoutsDue ==
  /\ up /\ ~ Waiting("JobTimeouts") /\ merkleJobMap \cap old # {}
  /\ inbox' = Append(inbox, Msg("JobTimeouts", 0))
  /\ UNCHANGED <<driver, sourceVars, letters, minerVars, shareVars, proxyVars>>

ProxyNext ==
  \/ (PoolChanges \/ Around) /\ UNCHANGED proxyVars
  \/ \E h \in MerkleHash :
       \/ ClientAsks(h) \/ ClientSubmits(h) \/ ClientDrops(h)
       \/ Build(h) \/ Answer(h) \/ TellSelf(h) \/ Ages(h)
  \/ ReceiveProxy \/ JobTimeoutsDue

proxySpecVars == <<baseVars, proxyVars>>

(* The actor and its futures run, time goes by.  No client need ask, submit  *)
(* or forget.                                                                *)
ProxyFairness ==
  /\ \A h \in MerkleHash :
       /\ WF_proxySpecVars(Build(h)) /\ WF_proxySpecVars(Answer(h))
       /\ WF_proxySpecVars(TellSelf(h)) /\ WF_proxySpecVars(Ages(h))
  /\ WF_proxySpecVars(ReceiveProxy) /\ WF_proxySpecVars(JobTimeoutsDue)

ProxySpec == ProxyInit /\ [][ProxyNext]_proxySpecVars /\ BaseFairness /\ ProxyFairness
-----------------------------------------------------------------------------
(* A client's work is known to the proxy, or is about to be, until it is too *)
(* old: whatever the pool, the future's callbacks and the other clients do,  *)
(* a solution in time that follows the registration is not refused.          *)
KnownUntilOld ==
  up => \A h \in held \ old :
          \/ h \in merkleJobMap \cup built
          \/ \E i \in DOMAIN inbox : inbox[i] = Msg("Job", h)

=============================================================================
