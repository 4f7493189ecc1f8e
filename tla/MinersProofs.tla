----------------------------- MODULE MinersProofs ----------------------------
(***************************************************************************)
(* Proofs about the drivers of SerialMiner and about StratumProxy, for any *)
(* number of connections, jobs, nonces and merkle hashes, each by itself   *)
(* and then as MCMiners has them, with the driver chosen at the start.     *)
(***************************************************************************)
EXTENDS MCMiners, AbstractMinerProofs

(* The drivers of SerialMiner. *)

StashMessage == [kind : {"CancelWork", "BufferUpdated"}, val : {0}]

SerialTypes ==
  /\ driver \in SerialDriver
  /\ letters \in Seq(Letter)
  /\ extraNonceInfo \in Conn \cup {NoConn}
  /\ miningJob \in Job \cup {NoJob}
  /\ lastJob \in Work \cup {NoWork}
  /\ behavior \in {"detecting", "resetting", "normal"}
  /\ stash \in Seq(StashMessage)
  /\ retries \in Nat /\ line \in Nat

(* A GridSeed sends its works from the handlers, without the two messages    *)
(* that the others put between.                                              *)
Direct(q) == None(q, "StartWork") /\ None(q, "Job")

(* The mailbox q is one the driver can have. *)
MailFine(q) ==
  /\ q \in Seq(SerialMessage)
  /\ up => MailOK(q, letters, extraNonceInfo, target, miningJob, told[Self])
  /\ IsGridSeed => Direct(q)

(* With the mailbox q, nothing will make the driver build another work. *)
Idle(q) ==
  /\ None(letters, "ExtraNonce") /\ None(letters, "MiningJob")
  /\ retries = 0 /\ ~ cancelDue /\ stash = <<>>
  /\ \A k \in {"ExtraNonce", "MiningJob", "CancelWork", "StartWork"} : None(q, k)

(* Then the newest work is the device's, or on its way as the last one.  A   *)
(* DualMiner is never idle before it is detected, Icarus starts afterwards.  *)
Follows(q) ==
  up /\ told[Self] # Untold /\ Idle(q) /\ (finishedInit \/ driver = "DualMiner") =>
    finishedInit /\ Ends(q, "Job", lastJob, BuiltWork)

(* Until the chips are reset only CancelWork is stashed. *)
OnlyCancels == behavior = "detecting" => \A i \in 1..Len(stash) : stash[i].kind = "CancelWork"

SerialIInv ==
  /\ SerialTypes /\ SourceOK /\ Listening /\ MailFine(inbox) /\ Follows(inbox) /\ OnlyCancels
  /\ IsGridSeed => retries = 0

LEMMA SerialInitIInv == SerialInit => SerialIInv
<1> SUFFICES ASSUME SerialInit PROVE SerialIInv
  OBVIOUS
<1>1. BaseTypeOK /\ SourceOK /\ Listening /\ Hears /\ inbox = <<>> /\ stash = <<>>
  BY BaseInitOK, SourceInitOK, InitHears DEF SerialInit, BaseInit
<1>2. line \in Nat
  BY DEF SerialInit
<1>3. SerialTypes
  BY <1>1, <1>2 DEF SerialInit, SerialTypes, BaseTypeOK
<1>4. MailFine(inbox)
  BY <1>1, EndsEmpty DEF MailFine, Hears, Direct
<1>5. Follows(inbox)
  BY <1>1, MinerAssumption DEF Follows, SerialInit, BaseInit, SourceInit
<1>6. OnlyCancels /\ (IsGridSeed => retries = 0)
  BY <1>1 DEF OnlyCancels, SerialInit
<1> QED
  BY <1>1, <1>3, <1>4, <1>5, <1>6 DEF SerialIInv

(* A work that is built is one. *)
LEMMA Built ==
  ASSUME SerialTypes, HasWork
  PROVE  BuiltWork \in Work /\ BuiltWork # NoWork
BY MinerAssumption DEF SerialTypes, HasWork, BuiltWork, Work, NoWork

LEMMA StashIsMail ==
  ASSUME NEW q \in Seq(StashMessage)
  PROVE  q \in Seq(SerialMessage) /\ Quiet(q) /\ Direct(q)
<1>1. StashMessage \subseteq SerialMessage
  BY DEF StashMessage, SerialMessage
<1>2. \A i \in 1..Len(q) : q[i] \in StashMessage
  OBVIOUS
<1>3. q \in Seq(SerialMessage)
  BY <1>1, <1>2
<1>4. Quiet(q) /\ Direct(q)
  BY <1>2 DEF StashMessage, Quiet, Direct, None
<1> QED
  BY <1>3, <1>4
-----------------------------------------------------------------------------
(* Steps on the mailbox. *)

PoolKind == {"ExtraNonce", "Difficulty", "MiningJob"}

(* Messages that make nobody build a work. *)
Harmless == {"Nonce", "BufferUpdated", "WorkTimeout", "ReadDone"}

LEMMA TailFine ==
  ASSUME SerialIInv, inbox # <<>>, Head(inbox).kind \notin PoolKind
  PROVE  MailFine(Tail(inbox)) /\ Head(inbox) \in SerialMessage
<1>1. Tail(inbox) \in Seq(SerialMessage) /\ Head(inbox) \in SerialMessage
  BY Taken DEF SerialIInv, MailFine
<1>2. up => MailOK(Tail(inbox), letters, extraNonceInfo, target, miningJob, told[Self])
  BY MailTail DEF SerialIInv, MailFine, PoolKind
<1>3. IsGridSeed => Direct(Tail(inbox))
  BY NoneTail DEF SerialIInv, MailFine, Direct
<1> QED
  BY <1>1, <1>2, <1>3 DEF MailFine

LEMMA AddFine ==
  ASSUME NEW q, MailFine(q), NEW r \in Seq(SerialMessage), Quiet(r), IsGridSeed => Direct(r)
  PROVE  MailFine(q \o r) /\ MailFine(r \o q)
<1>1. q \in Seq(SerialMessage) /\ q \o r \in Seq(SerialMessage) /\ r \o q \in Seq(SerialMessage)
  BY DEF MailFine
<1>2. up => /\ MailOK(q \o r, letters, extraNonceInfo, target, miningJob, told[Self])
            /\ MailOK(r \o q, letters, extraNonceInfo, target, miningJob, told[Self])
  BY <1>1, MailAfter DEF MailFine
<1>3. IsGridSeed => Direct(q \o r) /\ Direct(r \o q)
  BY <1>1, NoneBoth DEF MailFine, Direct
<1> QED
  BY <1>1, <1>2, <1>3 DEF MailFine

LEMMA OneFine ==
  ASSUME NEW q, MailFine(q), NEW x \in SerialMessage, x.kind \notin PoolKind,
         x.kind \in {"StartWork", "Job"} => ~ IsGridSeed
  PROVE  MailFine(Append(q, x)) /\ MailFine(q \o <<x>>)
<1>1. <<x>> \in Seq(SerialMessage) /\ Quiet(<<x>>) /\ (IsGridSeed => Direct(<<x>>))
  BY NoneOne DEF Quiet, Direct, PoolKind
<1>2. MailFine(q \o <<x>>)
  BY <1>1, AddFine
<1>3. Append(q, x) = q \o <<x>>
  BY DEF MailFine
<1> QED
  BY <1>2, <1>3

LEMMA TailFollows ==
  ASSUME SerialIInv, inbox # <<>>, Head(inbox).kind \in Harmless \cup {"Difficulty"}
  PROVE  Follows(Tail(inbox))
<1>1. inbox \in Seq(SerialMessage)
  BY DEF SerialIInv, MailFine
<1>2. Idle(Tail(inbox)) => Idle(inbox)
  BY <1>1, NoneTail DEF Idle, Harmless
<1>3. Ends(inbox, "Job", lastJob, BuiltWork) => Ends(Tail(inbox), "Job", lastJob, BuiltWork)
  BY <1>1, EndsTail DEF Harmless
<1> QED
  BY <1>2, <1>3 DEF SerialIInv, Follows

LEMMA AddFollows ==
  ASSUME NEW q \in Seq(SerialMessage), Follows(q), NEW r \in Seq(SerialMessage), None(r, "Job")
  PROVE  Follows(q \o r)
<1>1. Idle(q \o r) => Idle(q)
  BY NoneBoth DEF Idle
<1>2. Ends(q, "Job", lastJob, BuiltWork) => Ends(q \o r, "Job", lastJob, BuiltWork)
  BY EndsAfter
<1> QED
  BY <1>1, <1>2 DEF Follows

(* CancelWork and StartWork make the driver build a work. *)
LEMMA BusyFollows ==
  ASSUME NEW q \in Seq(SerialMessage), NEW x \in SerialMessage,
         x.kind \in {"CancelWork", "StartWork"}, NEW r \in Seq(SerialMessage)
  PROVE  /\ Follows(q \o <<x>>) /\ ~ Idle(q \o <<x>>)
         /\ ~ Idle(Append(q, x)) /\ ~ Idle((q \o <<x>>) \o r)
<1>1. <<x>> \in Seq(SerialMessage) /\ ~ None(<<x>>, x.kind)
  BY NoneOne
<1>2. ~ None(q \o <<x>>, x.kind)
  BY <1>1, NoneBoth
<1>3. ~ None((q \o <<x>>) \o r, x.kind)
  <2>1. q \o <<x>> \in Seq(SerialMessage)
    BY <1>1
  <2> QED
    BY <1>2, <2>1, NoneBoth
<1>4. Append(q, x) = q \o <<x>>
  OBVIOUS
<1> QED
  BY <1>2, <1>3, <1>4 DEF Idle, Follows
-----------------------------------------------------------------------------
(* Steps that leave alone what the pool and the start are about. *)

hearing == <<driver, sourceVars, letters, extraNonceInfo, target, miningJob, up>>

LEMMA HearingIInv ==
  ASSUME SerialIInv, UNCHANGED hearing, NEW q, inbox' = q, MailFine(q),
         Follows(inbox)', OnlyCancels', IsGridSeed => retries' = 0,
         lastJob' \in Work \cup {NoWork}, behavior' \in {"detecting", "resetting", "normal"},
         stash' \in Seq(StashMessage), retries' \in Nat, line' \in Nat
  PROVE  SerialIInv'
<1>1. SerialTypes' /\ SourceOK' /\ Listening'
  BY DEF SerialIInv, SerialTypes, SourceOK, Listening, Complete, hearing, sourceVars
<1>2. MailFine(inbox)'
  BY DEF MailFine, IsGridSeed, hearing, sourceVars
<1>3. (IsGridSeed => retries = 0)'
  BY DEF IsGridSeed, hearing
<1> QED
  BY <1>1, <1>2, <1>3 DEF SerialIInv

(* Only the mailbox changes, and what no invariant is about. *)
LEMMA MailIInv ==
  ASSUME SerialIInv, UNCHANGED <<hearing, startVars, lastJob>>, NEW q, inbox' = q, MailFine(q), Follows(q),
         line' \in Nat
  PROVE  SerialIInv'
<1>1. Follows(inbox)'
  BY DEF Follows, Idle, hearing, sourceVars, startVars, finishedInit, BuiltWork
<1>2. OnlyCancels'
  BY DEF SerialIInv, OnlyCancels, startVars
<1>3. /\ lastJob' \in Work \cup {NoWork} /\ behavior' \in {"detecting", "resetting", "normal"}
      /\ stash' \in Seq(StashMessage) /\ retries' \in Nat /\ (IsGridSeed => retries' = 0)
  BY DEF SerialIInv, SerialTypes, startVars
<1> QED
  BY <1>1, <1>2, <1>3, HearingIInv

(* The driver builds and sends a work by itself, and is idle only if it could. *)
LEMMA SentIInv ==
  ASSUME SerialIInv, up, UNCHANGED <<hearing, startVars>>, NEW q, inbox' = q, MailFine(q), Direct(q),
         finishedInit, lastJob' = IF HasWork THEN BuiltWork ELSE lastJob,
         line' = line,
         Idle(q) => None(inbox, "ExtraNonce") /\ None(inbox, "MiningJob")
  PROVE  SerialIInv'
<1>1. Follows(inbox)'
  <2> SUFFICES ASSUME told[Self] # Untold, Idle(q)
               PROVE  Ends(q, "Job", lastJob', BuiltWork)
    BY DEF Follows, Idle, hearing, sourceVars, startVars, finishedInit, BuiltWork
  <2>1. HasWork
    BY Settled DEF SerialIInv, Idle, MailFine, Hears
  <2> QED
    BY <2>1, EndsNone DEF Direct
<1>2. OnlyCancels'
  BY DEF SerialIInv, OnlyCancels, startVars
<1>3. lastJob' \in Work \cup {NoWork}
  BY Built DEF SerialIInv, SerialTypes
<1>4. /\ behavior' \in {"detecting", "resetting", "normal"} /\ line' \in Nat
      /\ stash' \in Seq(StashMessage) /\ retries' \in Nat /\ (IsGridSeed => retries' = 0)
  BY DEF SerialIInv, SerialTypes, startVars
<1> QED
  BY <1>1, <1>2, <1>3, <1>4, HearingIInv
-----------------------------------------------------------------------------
(* The pool, and what else goes on around the driver. *)

LEMMA SerialPoolIInv ==
  ASSUME SerialIInv, PoolChanges \/ PoolSubscribe, UNCHANGED serialVars
  PROVE  SerialIInv'
<1>1. UNCHANGED <<driver, inbox, minerVars, shareVars>> /\ up /\ letters = <<>>
  BY DEF PoolChanges, PoolOffer, PoolSwitch, PoolSubscribe, Calm, Send
<1>2. Hears /\ SourceOK /\ Listening /\ letters \in Seq(Letter)
  BY DEF SerialIInv, MailFine, Hears, SerialTypes
<1>3. SourceOK' /\ letters' \in Seq(Letter)
  BY <1>2, OfferOK, SwitchOK, SubscribeOK DEF PoolChanges
<1>4. Hears' /\ Listening'
  BY <1>2, OfferHears, SwitchHears, SubscribeHears DEF PoolChanges
<1>5. SerialTypes'
  BY <1>1, <1>3 DEF SerialIInv, SerialTypes, minerVars, serialVars, startVars, workVars, readVars
<1>6. MailFine(inbox)'
  BY <1>1, <1>4 DEF SerialIInv, MailFine, Hears, IsGridSeed
<1>7. Follows(inbox)'
  <2>1. Idle(inbox)' => Idle(inbox) /\ None(letters', "ExtraNonce")
    BY <1>1, EndsEmpty DEF Idle, serialVars, startVars
  <2>2. Idle(inbox)' /\ told'[Self] # Untold => told[Self] # Untold
    BY <1>1, <1>2, <1>3, <1>4, <2>1, FirstWord DEF minerVars
  <2>3. BuiltWork' = BuiltWork /\ finishedInit' = finishedInit /\ UNCHANGED <<up, driver, inbox, lastJob>>
    BY <1>1 DEF BuiltWork, finishedInit, minerVars, serialVars, startVars, workVars
  <2> QED
    BY <2>1, <2>2, <2>3 DEF SerialIInv, Follows
<1>8. OnlyCancels' /\ (IsGridSeed => retries = 0)'
  BY <1>1 DEF SerialIInv, OnlyCancels, IsGridSeed, serialVars, startVars
<1> QED
  BY <1>3, <1>4, <1>5, <1>6, <1>7, <1>8 DEF SerialIInv

(* A miner that does not run. *)
LEMMA DownIInv ==
  ASSUME SerialIInv, ~ up', UNCHANGED <<driver, told, offer, source, serialVars>>,
         letters' \in Seq(Letter), inbox' = inbox \/ inbox' = <<>>,
         UNCHANGED <<extraNonceInfo, miningJob>>
  PROVE  SerialIInv'
<1>1. SerialTypes' /\ SourceOK' /\ Listening'
  BY DEF SerialIInv, SerialTypes, SourceOK, Listening, Complete, serialVars, startVars, workVars, readVars
<1>2. MailFine(inbox)'
  <2>1. inbox' \in Seq(SerialMessage)
    <3>1. inbox \in Seq(SerialMessage) /\ <<>> \in Seq(SerialMessage)
      BY DEF SerialIInv, MailFine
    <3> QED
      BY <3>1
  <2>2. None(<<>>, "StartWork") /\ None(<<>>, "Job")
    BY EndsEmpty
  <2>3. IsGridSeed' => IsGridSeed
    BY DEF IsGridSeed
  <2>4. (IsGridSeed => Direct(inbox))'
    BY <2>2, <2>3 DEF SerialIInv, MailFine, Direct
  <2> QED
    BY <2>1, <2>4 DEF MailFine
<1>3. Follows(inbox)'
  BY DEF Follows
<1>4. OnlyCancels' /\ (IsGridSeed => retries = 0)'
  BY DEF SerialIInv, OnlyCancels, IsGridSeed, serialVars, startVars
<1> QED
  BY <1>1, <1>2, <1>3, <1>4 DEF SerialIInv

LEMMA SerialDeliverIInv ==
  ASSUME SerialIInv, Deliver, UNCHANGED serialVars
  PROVE  SerialIInv'
<1>1. /\ letters # <<>> /\ letters' = Tail(letters) /\ inbox' = Append(inbox, Head(letters))
      /\ UNCHANGED <<driver, sourceVars, minerVars, shareVars>>
  BY DEF Deliver
<1>2. /\ letters \in Seq(Letter) /\ inbox \in Seq(SerialMessage)
      /\ Head(letters) \in Letter /\ Tail(letters) \in Seq(Letter)
  BY <1>1, Taken DEF SerialIInv, SerialTypes, MailFine
<1>3. Head(letters) \in SerialMessage /\ Head(letters).kind \in PoolKind
  BY <1>2 DEF SerialMessage, Letter, PoolKind
<1>4. SerialTypes' /\ SourceOK' /\ Listening'
  BY <1>1, <1>2 DEF SerialIInv, SerialTypes, SourceOK, Listening, Complete, sourceVars, minerVars,
                    serialVars, startVars, workVars, readVars
<1>5. inbox' = inbox \o <<Head(letters)>> /\ <<Head(letters)>> \in Seq(SerialMessage)
      /\ inbox' \in Seq(SerialMessage)
  BY <1>1, <1>2, <1>3
<1>6. MailFine(inbox)'
  <2>1. up => MailOK(inbox', letters', extraNonceInfo, target, miningJob, told[Self])
    BY <1>1, <1>2, <1>3, MailDeliver DEF SerialIInv, MailFine
  <2>2. IsGridSeed => Direct(inbox')
    BY <1>2, <1>3, <1>5, NoneBoth, NoneOne DEF SerialIInv, MailFine, Direct, PoolKind
  <2> QED
    BY <1>1, <1>5, <2>1, <2>2 DEF MailFine, minerVars, sourceVars, IsGridSeed
<1>7. Follows(inbox)'
  <2>1. Idle(inbox)' => Idle(inbox)
    <3> SUFFICES ASSUME Idle(inbox)'
                 PROVE  Idle(inbox)
      OBVIOUS
    <3>1. /\ \A k \in {"ExtraNonce", "MiningJob", "CancelWork", "StartWork"} : None(inbox', k)
          /\ None(letters', "ExtraNonce") /\ None(letters', "MiningJob")
          /\ retries = 0 /\ ~ cancelDue /\ stash = <<>>
      BY DEF Idle, serialVars, startVars
    <3>2. /\ \A k \in {"ExtraNonce", "MiningJob", "CancelWork", "StartWork"} : None(inbox, k)
          /\ Head(letters).kind \notin {"ExtraNonce", "MiningJob"}
      BY <1>2, <1>5, <3>1, NoneBoth, NoneOne
    <3>3. None(letters, "ExtraNonce") /\ None(letters, "MiningJob")
      BY <1>1, <1>2, <3>1, <3>2, NoneTail
    <3> QED
      BY <3>1, <3>2, <3>3 DEF Idle
  <2>2. None(<<Head(letters)>>, "Job")
    BY <1>3, NoneOne DEF PoolKind
  <2>3. Ends(inbox, "Job", lastJob, BuiltWork) => Ends(inbox', "Job", lastJob, BuiltWork)
    BY <1>2, <1>5, <2>2, EndsAfter
  <2>4. BuiltWork' = BuiltWork /\ finishedInit' = finishedInit /\ UNCHANGED <<up, driver, lastJob, told>>
    BY <1>1 DEF BuiltWork, finishedInit, minerVars, sourceVars, serialVars, startVars, workVars
  <2> QED
    BY <2>1, <2>3, <2>4 DEF SerialIInv, Follows
<1>8. OnlyCancels' /\ (IsGridSeed => retries = 0)'
  BY <1>1 DEF SerialIInv, OnlyCancels, IsGridSeed, serialVars, startVars
<1> QED
  BY <1>4, <1>6, <1>7, <1>8 DEF SerialIInv

LEMMA AroundIInv ==
  ASSUME SerialIInv, Around, UNCHANGED serialVars
  PROVE  SerialIInv'
<1>1. CASE PoolSubscribe
  BY <1>1, SerialPoolIInv
<1>2. CASE PoolForgets
  <2>1. ~ up /\ UNCHANGED <<driver, letters, inbox, minerVars, told, offer, source>>
    BY <1>2 DEF PoolForgets, Unlisten
  <2> QED
    BY <2>1, DownIInv DEF minerVars, SerialIInv, SerialTypes
<1>3. CASE Deliver
  BY <1>3, SerialDeliverIInv
<1>4. CASE WorkTimeout
  <2>1. /\ inbox' = Append(inbox, Msg("WorkTimeout", 0)) /\ UNCHANGED hearing
        /\ Msg("WorkTimeout", 0) \in SerialMessage /\ Msg("WorkTimeout", 0).kind = "WorkTimeout"
    BY <1>4 DEF WorkTimeout, hearing, Msg, SerialMessage
  <2>2. MailFine(inbox') /\ Follows(inbox')
    <3> DEFINE x == Msg("WorkTimeout", 0)
    <3>1. inbox \in Seq(SerialMessage) /\ MailFine(inbox) /\ Follows(inbox)
      BY DEF SerialIInv, MailFine
    <3>2. inbox' = inbox \o <<x>> /\ <<x>> \in Seq(SerialMessage)
      BY <2>1, <3>1
    <3>3. None(<<x>>, "Job")
      BY <2>1, NoneOne
    <3> HIDE DEF x
    <3>4. Follows(inbox \o <<x>>)
      BY <3>1, <3>2, <3>3, AddFollows
    <3>5. MailFine(inbox \o <<x>>)
      BY <2>1, <3>1, OneFine DEF x, PoolKind
    <3> QED
      BY <3>2, <3>4, <3>5
  <2> QED
    BY <2>1, <2>2, MailIInv DEF SerialIInv, SerialTypes, serialVars, workVars, readVars
<1>5. CASE ForwardShare \/ \E i \in DOMAIN pending : SubmitNonce(i)
  <2>1. UNCHANGED <<hearing, inbox>>
    BY <1>5 DEF ForwardShare, SubmitNonce, hearing, minerVars
  <2> QED
    BY <2>1, MailIInv DEF SerialIInv, SerialTypes, serialVars, workVars, readVars
<1> QED
  BY <1>1, <1>2, <1>3, <1>4, <1>5 DEF Around
-----------------------------------------------------------------------------
(* The handlers that all miners have. *)

LEMMA NewsIInv ==
  ASSUME SerialIInv, inbox # <<>>, UNCHANGED <<driver, sourceVars, serialVars>>,
         TakeExtraNonce(Head(inbox), Tail(inbox)) \/ TakeMiningJob(Head(inbox), Tail(inbox))
  PROVE  SerialIInv'
<1> DEFINE msg == Head(inbox)
           x == Msg("CancelWork", 0)
<1>1. /\ inbox' = Append(Tail(inbox), x) /\ UNCHANGED <<letters, target, up>>
      /\ \/ msg.kind = "ExtraNonce" /\ extraNonceInfo' = msg.val /\ miningJob' = miningJob
         \/ msg.kind = "MiningJob" /\ miningJob' = msg.val /\ extraNonceInfo' = extraNonceInfo
  BY DEF TakeExtraNonce, TakeMiningJob
<1>2. /\ msg \in SerialMessage /\ Tail(inbox) \in Seq(SerialMessage)
      /\ inbox \in Seq(SerialMessage)
      /\ x \in SerialMessage /\ x.kind = "CancelWork"
  BY Taken DEF SerialIInv, MailFine, SerialMessage, Msg
<1> HIDE DEF x
<1>3. inbox' = Tail(inbox) \o <<x>> /\ <<x>> \in Seq(SerialMessage)
  BY <1>1, <1>2
<1>4. SerialTypes' /\ SourceOK' /\ Listening'
  <2>1. extraNonceInfo' \in Conn \cup {NoConn} /\ miningJob' \in Job \cup {NoJob}
    BY <1>1, <1>2 DEF SerialIInv, SerialTypes, SerialMessage, Letter
  <2> QED
    BY <1>1, <2>1 DEF SerialIInv, SerialTypes, SourceOK, Listening, Complete, sourceVars,
                      serialVars, startVars, workVars, readVars
<1>5. up => MailOK(Tail(inbox), letters, extraNonceInfo', target, miningJob', told[Self])
  BY <1>1, <1>2, MailTail DEF SerialIInv, MailFine
<1>6. Quiet(<<x>>) /\ Direct(<<x>>) /\ ~ None(<<x>>, "CancelWork")
  BY <1>2, NoneOne DEF Quiet, Direct
<1>7. MailFine(inbox)'
  <2>1. up => MailOK(inbox', letters, extraNonceInfo', target, miningJob', told[Self])
    BY <1>2, <1>3, <1>5, <1>6, MailAfter
  <2>2. IsGridSeed => Direct(inbox')
    <3>1. IsGridSeed => Direct(Tail(inbox))
      BY <1>2, NoneTail DEF SerialIInv, MailFine, Direct
    <3> QED
      BY <1>2, <1>3, <1>6, <3>1, NoneBoth DEF Direct
  <2>3. inbox' \in Seq(SerialMessage)
    BY <1>2, <1>3
  <2> QED
    BY <1>1, <2>1, <2>2, <2>3 DEF MailFine, IsGridSeed, sourceVars
<1>8. Follows(inbox)'
  <2>1. ~ None(inbox', "CancelWork")
    BY <1>2, <1>3, <1>6, NoneBoth
  <2> QED
    BY <2>1 DEF Follows, Idle
<1>9. OnlyCancels' /\ (IsGridSeed => retries = 0)'
  BY DEF SerialIInv, OnlyCancels, IsGridSeed, serialVars, startVars
<1> QED
  BY <1>4, <1>7, <1>8, <1>9 DEF SerialIInv

LEMMA DifficultyIInv ==
  ASSUME SerialIInv, inbox # <<>>, UNCHANGED <<driver, sourceVars, serialVars>>,
         TakeDifficulty(Head(inbox), Tail(inbox))
  PROVE  SerialIInv'
<1> DEFINE msg == Head(inbox)
<1>1. /\ inbox' = Tail(inbox) /\ msg.kind = "Difficulty" /\ target' = msg.val
      /\ UNCHANGED <<letters, extraNonceInfo, miningJob, up>>
  BY DEF TakeDifficulty
<1>2. /\ msg \in SerialMessage /\ Tail(inbox) \in Seq(SerialMessage)
      /\ inbox \in Seq(SerialMessage)
  BY Taken DEF SerialIInv, MailFine
<1>3. msg.val # 0
  BY <1>1, <1>2 DEF SerialMessage, Letter
<1>4. SerialTypes' /\ SourceOK' /\ Listening'
  BY <1>1 DEF SerialIInv, SerialTypes, SourceOK, Listening, Complete, sourceVars,
              serialVars, startVars, workVars, readVars
<1>5. MailFine(inbox)'
  <2>1. up => MailOK(Tail(inbox), letters, extraNonceInfo, target', miningJob, told[Self])
    BY <1>1, <1>2, <1>3, MailTail DEF SerialIInv, MailFine
  <2>2. IsGridSeed => Direct(Tail(inbox))
    BY <1>2, NoneTail DEF SerialIInv, MailFine, Direct
  <2> QED
    BY <1>1, <1>2, <2>1, <2>2 DEF MailFine, IsGridSeed, sourceVars
<1>6. Follows(inbox)'
  <2>1. Follows(Tail(inbox))
    BY <1>1, TailFollows
  <2> QED
    BY <1>1, <2>1 DEF Follows, Idle, sourceVars, serialVars, startVars, workVars, finishedInit, BuiltWork
<1>7. OnlyCancels' /\ (IsGridSeed => retries = 0)'
  BY DEF SerialIInv, OnlyCancels, IsGridSeed, serialVars, startVars
<1> QED
  BY <1>4, <1>5, <1>6, <1>7 DEF SerialIInv

LEMMA SerialStopsIInv ==
  ASSUME SerialIInv, Stops, UNCHANGED <<driver, sourceVars, serialVars>>
  PROVE  SerialIInv'
<1>1. /\ ~ up' /\ inbox' = <<>> /\ letters' = <<>> /\ letters' \in Seq(Letter)
      /\ UNCHANGED <<extraNonceInfo, miningJob>>
  BY DEF Stops
<1> QED
  BY <1>1, DownIInv DEF sourceVars

LEMMA WorkReceiveIInv ==
  ASSUME SerialIInv, inbox # <<>>, WorkReceive(Head(inbox), Tail(inbox)),
         UNCHANGED <<driver, sourceVars, serialVars>>
  PROVE  SerialIInv'
<1>1. CASE TakeNonce(Head(inbox), Tail(inbox))
  <2>1. /\ inbox' = Tail(inbox) /\ Head(inbox).kind = "Nonce" /\ UNCHANGED hearing
    BY <1>1 DEF TakeNonce, hearing
  <2>2. MailFine(Tail(inbox)) /\ Follows(Tail(inbox))
    BY <2>1, TailFine, TailFollows DEF PoolKind, Harmless
  <2> QED
    BY <2>1, <2>2, MailIInv DEF SerialIInv, SerialTypes, serialVars, workVars, readVars
<1>2. CASE TakeWorkTimeout(Head(inbox), Tail(inbox))
  BY <1>2, SerialStopsIInv DEF TakeWorkTimeout
<1> QED
  BY <1>1, <1>2, NewsIInv, DifficultyIInv DEF WorkReceive
-----------------------------------------------------------------------------
(* The handlers of the drivers. *)

LEMMA SelfMessages ==
  \A k \in {"CancelWork", "StartWork", "BufferUpdated", "WorkTimeout"} :
    /\ Msg(k, 0) \in SerialMessage /\ Msg(k, 0).kind = k
    /\ ToSelf(k) = <<Msg(k, 0)>> /\ ToSelf(k) \in Seq(SerialMessage)
BY DEF Msg, SerialMessage, ToSelf

LEMMA StashesIInv ==
  ASSUME SerialIInv, inbox # <<>>, Stashes(Head(inbox), Tail(inbox)), UNCHANGED <<driver, sourceVars>>
  PROVE  SerialIInv'
<1>1. /\ Head(inbox).kind \in {"CancelWork", "BufferUpdated"} /\ inbox' = Tail(inbox)
      /\ behavior = "detecting" => Head(inbox).kind = "CancelWork"
      /\ stash' = Append(stash, Head(inbox))
      /\ UNCHANGED <<hearing, behavior, cancelDue, retries, lastJob, line>>
  BY DEF Stashes, hearing, minerVars, workVars, readVars
<1>2. MailFine(Tail(inbox)) /\ Head(inbox) \in SerialMessage
  BY <1>1, TailFine DEF PoolKind
<1>3. Head(inbox) \in StashMessage /\ stash \in Seq(StashMessage)
  BY <1>1, <1>2 DEF SerialMessage, Letter, StashMessage, SerialIInv, SerialTypes
<1>4. stash' \in Seq(StashMessage) /\ stash' # <<>>
  BY <1>1, <1>3
<1>5. OnlyCancels'
  BY <1>1, <1>3, Put DEF SerialIInv, OnlyCancels
<1>6. Follows(inbox)'
  BY <1>4 DEF Follows, Idle
<1>7. /\ lastJob' \in Work \cup {NoWork} /\ behavior' \in {"detecting", "resetting", "normal"}
      /\ retries' \in Nat /\ line' \in Nat /\ (IsGridSeed => retries' = 0)
  BY <1>1 DEF SerialIInv, SerialTypes
<1> QED
  BY <1>1, <1>2, <1>4, <1>5, <1>6, <1>7, HearingIInv

LEMMA CancelWorkIInv ==
  ASSUME SerialIInv, inbox # <<>>, up, CancelWork(Head(inbox), Tail(inbox)), UNCHANGED <<driver, sourceVars>>
  PROVE  SerialIInv'
<1>1. /\ Head(inbox).kind = "CancelWork"
      /\ UNCHANGED <<hearing, startVars, line>>
  BY DEF CancelWork, hearing, minerVars
<1>2. MailFine(Tail(inbox)) /\ Tail(inbox) \in Seq(SerialMessage) /\ inbox \in Seq(SerialMessage)
  BY <1>1, TailFine DEF PoolKind, SerialIInv, MailFine
<1>3. CASE IsGridSeed
  <2>1. /\ inbox' = Tail(inbox) /\ finishedInit
        /\ lastJob' = IF HasWork THEN BuiltWork ELSE lastJob
    BY <1>3 DEF CancelWork, GridSeedSendWork, Sent, workVars, IsGridSeed
  <2>2. Idle(Tail(inbox)) => None(inbox, "ExtraNonce") /\ None(inbox, "MiningJob")
    BY <1>1, <1>2, NoneTail DEF Idle
  <2> QED
    BY <1>1, <1>2, <1>3, <2>1, <2>2, SentIInv DEF MailFine
<1>4. CASE ~ IsGridSeed
  <2>1. inbox' = Tail(inbox) \o <<Msg("StartWork", 0)>> /\ UNCHANGED lastJob
    BY <1>4, SelfMessages DEF CancelWork, workVars
  <2>2. Msg("StartWork", 0) \in SerialMessage /\ Msg("StartWork", 0).kind = "StartWork"
    BY SelfMessages
  <2>3. MailFine(inbox') /\ Follows(inbox')
    BY <1>2, <1>4, <2>1, <2>2, OneFine, BusyFollows DEF PoolKind
  <2> QED
    BY <1>1, <2>1, <2>3, MailIInv DEF SerialIInv, SerialTypes
<1> QED
  BY <1>3, <1>4

LEMMA StartWorkIInv ==
  ASSUME SerialIInv, inbox # <<>>, up, StartWork(Head(inbox), Tail(inbox)), UNCHANGED <<driver, sourceVars>>
  PROVE  SerialIInv'
<1>1. /\ Head(inbox).kind = "StartWork" /\ finishedInit
      /\ UNCHANGED <<hearing, behavior, cancelDue, stash, lastJob, line>>
  BY DEF StartWork, hearing, minerVars, workVars
<1>2. /\ MailFine(Tail(inbox)) /\ Tail(inbox) \in Seq(SerialMessage) /\ inbox \in Seq(SerialMessage)
      /\ ~ IsGridSeed
  BY <1>1, TailFine, NoneTail DEF PoolKind, SerialIInv, MailFine, Direct
<1>3. OnlyCancels' /\ SerialTypes
  BY <1>1 DEF SerialIInv, OnlyCancels
<1>4. CASE HasWork
  <2> DEFINE x == Msg("Job", BuiltWork)
  <2>1. inbox' = Append(Tail(inbox), x) /\ retries' = retries
    BY <1>4 DEF StartWork
  <2>2. x \in SerialMessage /\ x.kind = "Job" /\ x.val = BuiltWork
    BY <1>3, <1>4, Built DEF Msg, SerialMessage
  <2> HIDE DEF x
  <2>3. MailFine(inbox')
    BY <1>2, <2>1, <2>2, OneFine DEF PoolKind
  <2>4. Ends(inbox', "Job", lastJob, BuiltWork)
    BY <1>2, <2>1, <2>2, EndsLast
  <2>5. Follows(inbox)'
    BY <1>1, <2>4 DEF Follows, finishedInit, BuiltWork, hearing
  <2> QED
    BY <1>1, <1>2, <1>3, <2>1, <2>3, <2>5, HearingIInv DEF SerialTypes
<1>5. CASE ~ HasWork
  <2>1. inbox' = Tail(inbox) /\ retries' = retries + 1 /\ retries' # 0 /\ retries' \in Nat
    BY <1>3, <1>5 DEF StartWork, SerialTypes
  <2>2. Follows(inbox)'
    BY <2>1 DEF Follows, Idle
  <2> QED
    BY <1>1, <1>2, <1>3, <2>1, <2>2, HearingIInv DEF SerialTypes
<1> QED
  BY <1>4, <1>5

LEMMA SendJobIInv ==
  ASSUME SerialIInv, inbox # <<>>, SendJob(Head(inbox), Tail(inbox)), UNCHANGED <<driver, sourceVars>>
  PROVE  SerialIInv'
<1>1. /\ Head(inbox).kind = "Job" /\ lastJob' = Head(inbox).val /\ inbox' = Tail(inbox)
      /\ UNCHANGED <<hearing, startVars, line>>
  BY DEF SendJob, Sent, hearing, minerVars
<1>2. /\ MailFine(Tail(inbox)) /\ Tail(inbox) \in Seq(SerialMessage) /\ inbox \in Seq(SerialMessage)
      /\ Head(inbox) \in SerialMessage
  BY <1>1, TailFine DEF PoolKind, SerialIInv, MailFine
<1>3. lastJob' \in Work
  BY <1>1, <1>2 DEF SerialMessage, Letter
<1>4. Idle(Tail(inbox)) => Idle(inbox)
  BY <1>1, <1>2, NoneTail DEF Idle
<1>5. Ends(inbox, "Job", lastJob, BuiltWork) => Ends(Tail(inbox), "Job", lastJob', BuiltWork)
  BY <1>1, <1>2, EndsTail
<1>6. Follows(inbox)'
  BY <1>1, <1>4, <1>5 DEF SerialIInv, Follows, Idle, hearing, sourceVars, startVars, finishedInit, BuiltWork
<1>7. /\ OnlyCancels' /\ (IsGridSeed => retries' = 0) /\ stash' \in Seq(StashMessage)
      /\ behavior' \in {"detecting", "resetting", "normal"} /\ retries' \in Nat /\ line' \in Nat
  BY <1>1 DEF SerialIInv, OnlyCancels, SerialTypes, startVars
<1> QED
  BY <1>1, <1>2, <1>3, <1>6, <1>7, HearingIInv

(* Handlers that read nonces or bytes, and may tell the driver of it. *)
LEMMA ReadIInv ==
  ASSUME SerialIInv, inbox # <<>>,
         \/ StartWorkUnhandled(Head(inbox), Tail(inbox)) \/ ReadDone(Head(inbox), Tail(inbox))
         \/ NothingBuffered(Head(inbox), Tail(inbox)),
         UNCHANGED <<driver, sourceVars>>
  PROVE  SerialIInv'
<1>1. /\ UNCHANGED <<hearing, startVars, lastJob, line>>
      /\ inbox' = Tail(inbox) \/ inbox' = Tail(inbox) \o ToSelf("BufferUpdated")
      /\ \/ Head(inbox).kind \in Harmless
         \/ Head(inbox).kind = "StartWork" /\ ~ finishedInit /\ driver = "Icarus"
  BY DEF StartWorkUnhandled, ReadDone, NothingBuffered, hearing, minerVars, workVars, readVars, Harmless
<1>2. MailFine(Tail(inbox)) /\ Tail(inbox) \in Seq(SerialMessage)
  BY <1>1, TailFine DEF PoolKind, Harmless, MailFine
<1>3. Follows(Tail(inbox))
  BY <1>1, TailFollows DEF Follows
<1>4. /\ ToSelf("BufferUpdated") \in Seq(SerialMessage) /\ None(ToSelf("BufferUpdated"), "Job")
      /\ MailFine(Tail(inbox) \o ToSelf("BufferUpdated"))
  BY <1>2, SelfMessages, NoneOne, OneFine DEF PoolKind
<1>5. Follows(Tail(inbox) \o ToSelf("BufferUpdated"))
  BY <1>2, <1>3, <1>4, AddFollows
<1> QED
  BY <1>1, <1>2, <1>3, <1>4, <1>5, MailIInv DEF SerialIInv, SerialTypes

LEMMA FoundMail ==
  ASSUME SerialTypes
  PROVE  Found \in Seq(SerialMessage) /\ Quiet(Found) /\ Direct(Found)
<1>1. CASE lastJob = NoWork
  <2>1. Found = <<>> /\ <<>> \in Seq(SerialMessage)
    BY <1>1 DEF Found
  <2> QED
    BY <2>1, EndsEmpty DEF Quiet, Direct
<1>2. CASE lastJob # NoWork
  <2> DEFINE x == Msg("Nonce", [work |-> lastJob, solves |-> stale = 0])
  <2>1. [work |-> lastJob, solves |-> stale = 0] \in Nonce
    BY <1>2 DEF SerialTypes, Nonce
  <2>2. x \in SerialMessage /\ x.kind = "Nonce"
    BY <2>1 DEF SerialMessage, Msg
  <2>3. Found = <<x>>
    BY <1>2 DEF Found
  <2> HIDE DEF x
  <2> QED
    BY <2>2, <2>3, NoneOne DEF Quiet, Direct
<1> QED
  BY <1>1, <1>2

(* What a nonce handler leaves in the mailbox before it sends more work. *)
LEMMA NonceMail ==
  ASSUME SerialIInv, inbox # <<>>, Head(inbox).kind = "BufferUpdated", NEW q,
         q = (Tail(inbox) \o ToSelf("BufferUpdated")) \o Found
  PROVE  /\ MailFine(q) /\ Follows(q) /\ q \in Seq(SerialMessage)
         /\ Idle(q) => None(inbox, "ExtraNonce") /\ None(inbox, "MiningJob")
<1> DEFINE p == Tail(inbox) \o ToSelf("BufferUpdated")
<1>1. /\ MailFine(Tail(inbox)) /\ Tail(inbox) \in Seq(SerialMessage) /\ Follows(Tail(inbox))
      /\ inbox \in Seq(SerialMessage)
  BY TailFine, TailFollows DEF PoolKind, Harmless, MailFine, SerialIInv
<1>2. /\ ToSelf("BufferUpdated") \in Seq(SerialMessage) /\ None(ToSelf("BufferUpdated"), "Job")
      /\ MailFine(p)
  BY <1>1, SelfMessages, NoneOne, OneFine DEF PoolKind
<1>3. Follows(p) /\ p \in Seq(SerialMessage)
  <2>1. Follows(p)
    BY <1>1, <1>2, AddFollows
  <2> HIDE DEF p
  <2>2. p \in Seq(SerialMessage)
    BY <1>2 DEF MailFine
  <2> QED
    BY <2>1, <2>2
<1> HIDE DEF p
<1>4. Found \in Seq(SerialMessage) /\ Quiet(Found) /\ Direct(Found) /\ q = p \o Found
  BY FoundMail DEF SerialIInv, p
<1>5. MailFine(q) /\ q \in Seq(SerialMessage)
  <2>1. MailFine(p \o Found)
    BY <1>2, <1>4, AddFine
  <2> QED
    BY <2>1, <1>4 DEF MailFine
<1>6. Follows(q)
  BY <1>3, <1>4, AddFollows DEF Direct
<1>7. Idle(q) => None(inbox, "ExtraNonce") /\ None(inbox, "MiningJob")
  <2>1. Idle(q) => None(p, "ExtraNonce") /\ None(p, "MiningJob")
    BY <1>3, <1>4, NoneBoth DEF Idle
  <2>2. None(p, "ExtraNonce") /\ None(p, "MiningJob") =>
          None(Tail(inbox), "ExtraNonce") /\ None(Tail(inbox), "MiningJob")
    BY <1>1, <1>2, NoneBoth DEF p
  <2> QED
    BY <2>1, <2>2, <1>1, NoneTail
<1> QED
  BY <1>5, <1>6, <1>7

LEMMA NonceIInv ==
  ASSUME SerialIInv, inbox # <<>>, up,
         IcarusNonce(Head(inbox), Tail(inbox)) \/ DualMinerNonce(Head(inbox), Tail(inbox)),
         UNCHANGED <<driver, sourceVars>>
  PROVE  SerialIInv'
<1> DEFINE q == (Tail(inbox) \o ToSelf("BufferUpdated")) \o Found
<1>1. /\ Head(inbox).kind = "BufferUpdated" /\ ~ IsGridSeed
      /\ UNCHANGED <<hearing, startVars, lastJob, line>>
      /\ inbox' = q \o IF lastJob = NoWork THEN <<>> ELSE ToSelf("StartWork")
  BY DEF IcarusNonce, DualMinerNonce, IsGridSeed, hearing, minerVars, workVars
<1>2. MailFine(q) /\ Follows(q) /\ q \in Seq(SerialMessage)
  BY <1>1, NonceMail
<1> HIDE DEF q
<1>3. CASE lastJob = NoWork
  <2>1. inbox' = q
    BY <1>1, <1>2, <1>3
  <2> QED
    BY <1>1, <1>2, <2>1, MailIInv DEF SerialIInv, SerialTypes
<1>4. CASE lastJob # NoWork
  <2>1. inbox' = q \o <<Msg("StartWork", 0)>>
    BY <1>1, <1>4, SelfMessages
  <2>2. Msg("StartWork", 0) \in SerialMessage /\ Msg("StartWork", 0).kind = "StartWork"
    BY SelfMessages
  <2>3. MailFine(inbox') /\ Follows(inbox')
    BY <1>1, <1>2, <2>1, <2>2, OneFine, BusyFollows DEF PoolKind
  <2> QED
    BY <1>1, <2>1, <2>3, MailIInv DEF SerialIInv, SerialTypes
<1> QED
  BY <1>3, <1>4

(* A malformed packet: nothing but what the buffer tells. *)
LEMMA BadPacketIInv ==
  ASSUME SerialIInv, inbox # <<>>, GridSeedBadPacket(Head(inbox), Tail(inbox)),
         UNCHANGED <<driver, sourceVars>>
  PROVE  SerialIInv'
<1> DEFINE q == Tail(inbox)
<1>1. /\ Head(inbox).kind = "BufferUpdated" /\ UNCHANGED <<hearing, startVars, lastJob, line>>
      /\ inbox' = q \o <<Msg("BufferUpdated", 0)>>
  BY SelfMessages DEF GridSeedBadPacket, hearing, minerVars, workVars
<1>2. MailFine(q) /\ Follows(q) /\ q \in Seq(SerialMessage)
  BY <1>1, TailFine, TailFollows DEF PoolKind, Harmless, MailFine
<1>3. /\ Msg("BufferUpdated", 0) \in SerialMessage
      /\ Msg("BufferUpdated", 0).kind = "BufferUpdated"
      /\ <<Msg("BufferUpdated", 0)>> \in Seq(SerialMessage)
      /\ None(<<Msg("BufferUpdated", 0)>>, "Job")
  BY SelfMessages, NoneOne
<1> HIDE DEF q
<1>4. MailFine(inbox') /\ Follows(inbox')
  BY <1>1, <1>2, <1>3, OneFine, AddFollows DEF PoolKind
<1> QED
  BY <1>1, <1>4, MailIInv DEF SerialIInv, SerialTypes

LEMMA GridSeedNonceIInv ==
  ASSUME SerialIInv, inbox # <<>>, up, GridSeedNonce(Head(inbox), Tail(inbox)),
         UNCHANGED <<driver, sourceVars>>
  PROVE  SerialIInv'
<1> DEFINE q == (Tail(inbox) \o ToSelf("BufferUpdated")) \o Found
<1>1. /\ Head(inbox).kind = "BufferUpdated" /\ IsGridSeed /\ finishedInit
      /\ UNCHANGED <<hearing, startVars, line>> /\ inbox' = q
      /\ lastJob' = IF HasWork THEN BuiltWork ELSE lastJob
  BY DEF GridSeedNonce, GridSeedSendWork, Sent, hearing, minerVars, workVars
<1>2. /\ MailFine(q) /\ q \in Seq(SerialMessage)
      /\ Idle(q) => None(inbox, "ExtraNonce") /\ None(inbox, "MiningJob")
  BY <1>1, NonceMail
<1> HIDE DEF q
<1>3. Direct(q)
  BY <1>1, <1>2 DEF MailFine
<1> QED
  BY <1>1, <1>2, <1>3, SentIInv

LEMMA GoldenNonceIInv ==
  ASSUME SerialIInv, inbox # <<>>, GoldenNonce(Head(inbox), Tail(inbox)), UNCHANGED <<driver, sourceVars>>
  PROVE  SerialIInv'
<1> DEFINE p == stash \o Tail(inbox)
           r == p \o ToSelf("BufferUpdated")
<1>1. /\ Head(inbox).kind = "BufferUpdated" /\ ~ IsGridSeed /\ behavior = "detecting"
      /\ behavior' = "normal" /\ stash' = <<>>
      /\ UNCHANGED <<hearing, cancelDue, retries, lastJob, line>>
      /\ inbox' = r \o IF driver = "Icarus" THEN ToSelf("StartWork") ELSE <<>>
  BY DEF GoldenNonce, hearing, minerVars, workVars
<1>2. /\ MailFine(Tail(inbox)) /\ Tail(inbox) \in Seq(SerialMessage) /\ inbox \in Seq(SerialMessage)
      /\ stash \in Seq(SerialMessage) /\ Quiet(stash) /\ Direct(stash) /\ stash \in Seq(StashMessage)
  BY <1>1, TailFine, StashIsMail DEF PoolKind, MailFine, SerialIInv, SerialTypes
<1>3. MailFine(p) /\ p \in Seq(SerialMessage)
  <2>1. MailFine(p)
    BY <1>2, AddFine
  <2> HIDE DEF p
  <2> QED
    BY <2>1 DEF MailFine
<1>4. /\ ToSelf("BufferUpdated") \in Seq(SerialMessage) /\ r \in Seq(SerialMessage)
      /\ MailFine(r)
  <2> HIDE DEF p
  <2>1. MailFine(r)
    BY <1>3, SelfMessages, OneFine DEF PoolKind
  <2> HIDE DEF r
  <2> QED
    BY <2>1, SelfMessages DEF MailFine
<1>5. /\ OnlyCancels'
      /\ IsGridSeed => retries' = 0
      /\ lastJob' \in Work \cup {NoWork} /\ behavior' \in {"detecting", "resetting", "normal"}
      /\ stash' \in Seq(StashMessage) /\ retries' \in Nat /\ line' \in Nat
  BY <1>1 DEF SerialIInv, SerialTypes, OnlyCancels
<1>6. CASE driver = "Icarus"
  <2>1. inbox' = r \o <<Msg("StartWork", 0)>>
    BY <1>1, <1>6, SelfMessages
  <2>2. Msg("StartWork", 0) \in SerialMessage /\ Msg("StartWork", 0).kind = "StartWork"
    BY SelfMessages
  <2> HIDE DEF r
  <2>3. MailFine(inbox') /\ ~ None(inbox', "StartWork")
    <3>1. <<Msg("StartWork", 0)>> \in Seq(SerialMessage) /\ ~ None(<<Msg("StartWork", 0)>>, "StartWork")
      BY <2>2, NoneOne
    <3>2. MailFine(inbox')
      BY <1>1, <1>4, <2>1, <2>2, OneFine DEF PoolKind
    <3> QED
      BY <1>4, <2>1, <3>1, <3>2, NoneBoth
  <2>4. Follows(inbox)'
    BY <2>3 DEF Follows, Idle
  <2> QED
    BY <1>1, <1>5, <2>1, <2>3, <2>4, HearingIInv
<1>7. CASE driver # "Icarus"
  <2>1. inbox' = r /\ driver = "DualMiner"
    BY <1>1, <1>4, <1>7 DEF SerialIInv, SerialTypes, SerialDriver, IsGridSeed
  <2>2. ~ Idle(inbox)' \/ told[Self] = Untold \/ ~ up
    <3> SUFFICES ASSUME Idle(inbox)', told[Self] # Untold, up
                 PROVE  FALSE
      OBVIOUS
    <3>1. \A k \in {"ExtraNonce", "MiningJob", "CancelWork", "StartWork"} : None(r, k)
      BY <2>1 DEF Idle
    <3>2. \A k \in {"ExtraNonce", "MiningJob", "CancelWork", "StartWork"} :
            None(stash, k) /\ None(Tail(inbox), k)
      BY <1>2, <1>3, <1>4, <3>1, NoneBoth
    <3>3. stash = <<>>
      <4>1. \A i \in 1..Len(stash) : stash[i].kind = "CancelWork"
        BY <1>1 DEF SerialIInv, OnlyCancels
      <4>2. \A i \in 1..Len(stash) : stash[i].kind # "CancelWork"
        BY <3>2 DEF None
      <4>3. \A i \in 1..Len(stash) : FALSE
        BY <4>1, <4>2
      <4> QED
        BY <4>3, <1>2
    <3>4. \A k \in {"ExtraNonce", "MiningJob", "CancelWork", "StartWork"} : None(inbox, k)
      BY <1>1, <1>2, <3>2, NoneTail
    <3>5. Idle(inbox)
      BY <1>1, <3>3, <3>4 DEF Idle, hearing
    <3> QED
      BY <1>1, <2>1, <3>5 DEF SerialIInv, Follows, finishedInit
  <2>3. Follows(inbox)'
    BY <1>1, <2>2 DEF Follows, hearing, sourceVars
  <2> HIDE DEF r
  <2> QED
    BY <1>1, <1>4, <1>5, <2>1, <2>3, HearingIInv
<1> QED
  BY <1>6, <1>7

LEMMA FirmwareIInv ==
  ASSUME SerialIInv, inbox # <<>>, FirmwareVersion(Head(inbox), Tail(inbox)), UNCHANGED <<driver, sourceVars>>
  PROVE  SerialIInv'
<1> DEFINE q == Tail(inbox) \o <<Msg("BufferUpdated", 0)>>
<1>1. /\ Head(inbox).kind = "BufferUpdated" /\ IsGridSeed /\ behavior' = "resetting"
      /\ UNCHANGED <<hearing, cancelDue, stash, retries, lastJob, line>>
      /\ inbox' = q
  BY SelfMessages DEF FirmwareVersion, hearing, minerVars, workVars
<1>2. MailFine(Tail(inbox))
  BY <1>1, TailFine DEF PoolKind
<1>3. MailFine(q)
  BY <1>2, SelfMessages, OneFine DEF PoolKind
<1> HIDE DEF q
<1>4. Follows(inbox)' /\ OnlyCancels'
  BY <1>1 DEF Follows, OnlyCancels, finishedInit, IsGridSeed, hearing
<1>5. /\ IsGridSeed => retries' = 0
      /\ lastJob' \in Work \cup {NoWork} /\ behavior' \in {"detecting", "resetting", "normal"}
      /\ stash' \in Seq(StashMessage) /\ retries' \in Nat /\ line' \in Nat
  BY <1>1 DEF SerialIInv, SerialTypes
<1> QED
  BY <1>1, <1>3, <1>4, <1>5, HearingIInv

LEMMA SerialReceiveIInv ==
  ASSUME SerialIInv, ReceiveSerial
  PROVE  SerialIInv'
<1> DEFINE msg == Head(inbox)
           rest == Tail(inbox)
<1>1. /\ up /\ inbox # <<>> /\ SerialReceive(msg, rest) /\ UNCHANGED <<driver, sourceVars>>
  BY DEF ReceiveSerial
<1>2. CASE WorkReceive(msg, rest) /\ UNCHANGED <<startVars, workVars, readVars>>
  BY <1>1, <1>2, WorkReceiveIInv DEF serialVars
<1>3. CASE Stashes(msg, rest)
  BY <1>1, <1>3, StashesIInv
<1>4. CASE CancelWork(msg, rest)
  BY <1>1, <1>4, CancelWorkIInv
<1>5. CASE StartWork(msg, rest)
  BY <1>1, <1>5, StartWorkIInv
<1>6. CASE SendJob(msg, rest)
  BY <1>1, <1>6, SendJobIInv
<1>7. CASE StartWorkUnhandled(msg, rest) \/ ReadDone(msg, rest) \/ NothingBuffered(msg, rest)
  BY <1>1, <1>7, ReadIInv
<1>8. CASE GoldenNonce(msg, rest)
  BY <1>1, <1>8, GoldenNonceIInv
<1>9. CASE FirmwareVersion(msg, rest)
  BY <1>1, <1>9, FirmwareIInv
<1>10. CASE IcarusNonce(msg, rest) \/ DualMinerNonce(msg, rest)
  BY <1>1, <1>10, NonceIInv
<1>11. CASE GridSeedNonce(msg, rest)
  BY <1>1, <1>11, GridSeedNonceIInv
<1>12. CASE GridSeedBadPacket(msg, rest)
  BY <1>1, <1>12, BadPacketIInv
<1> HIDE DEF msg, rest
<1> QED
  BY <1>1, <1>2, <1>3, <1>4, <1>5, <1>6, <1>7, <1>8, <1>9, <1>10, <1>11, <1>12 DEF SerialReceive
-----------------------------------------------------------------------------
(* Timers and the device. *)

(* The retry of a StartWork. *)
LEMMA RetryIInv ==
  ASSUME SerialIInv, RetryFires
  PROVE  SerialIInv'
<1>1. /\ retries > 0 /\ retries' = retries - 1 /\ inbox' = inbox \o <<Msg("StartWork", 0)>>
      /\ UNCHANGED <<hearing, behavior, cancelDue, stash, lastJob, line>>
  BY SelfMessages DEF RetryFires, hearing, minerVars, workVars, readVars
<1>2. retries' \in Nat /\ ~ IsGridSeed
  BY <1>1 DEF SerialIInv, SerialTypes
<1>3. Msg("StartWork", 0) \in SerialMessage /\ Msg("StartWork", 0).kind = "StartWork"
  BY SelfMessages
<1>4. MailFine(inbox')
  BY <1>1, <1>2, <1>3, OneFine DEF SerialIInv, PoolKind
<1>5. Follows(inbox)'
  <2>1. inbox \in Seq(SerialMessage)
    BY DEF SerialIInv, MailFine
  <2>2. <<Msg("StartWork", 0)>> \in Seq(SerialMessage) /\ ~ None(<<Msg("StartWork", 0)>>, "StartWork")
    BY <1>3, NoneOne
  <2>3. ~ None(inbox', "StartWork")
    BY <1>1, <2>1, <2>2, NoneBoth
  <2> QED
    BY <2>3 DEF Follows, Idle
<1>6. /\ OnlyCancels' /\ lastJob' \in Work \cup {NoWork} /\ stash' \in Seq(StashMessage)
      /\ behavior' \in {"detecting", "resetting", "normal"} /\ line' \in Nat
  BY <1>1 DEF SerialIInv, OnlyCancels, SerialTypes
<1> QED
  BY <1>1, <1>2, <1>4, <1>5, <1>6, HearingIInv

(* A CancelWork that a timer sends. *)
LEMMA CancelIInv ==
  ASSUME SerialIInv, UNCHANGED <<hearing, behavior, stash, retries, lastJob, line>>,
         inbox' = inbox \o ToSelf("CancelWork")
  PROVE  SerialIInv'
<1>1. /\ inbox' = inbox \o <<Msg("CancelWork", 0)>>
      /\ Msg("CancelWork", 0) \in SerialMessage /\ Msg("CancelWork", 0).kind = "CancelWork"
  BY SelfMessages
<1>2. MailFine(inbox')
  BY <1>1, OneFine DEF SerialIInv, PoolKind
<1>3. Follows(inbox)'
  <2>1. inbox \in Seq(SerialMessage)
    BY DEF SerialIInv, MailFine
  <2>2. <<Msg("CancelWork", 0)>> \in Seq(SerialMessage) /\ ~ None(<<Msg("CancelWork", 0)>>, "CancelWork")
    BY <1>1, NoneOne
  <2>3. ~ None(inbox', "CancelWork")
    BY <1>1, <2>1, <2>2, NoneBoth
  <2> QED
    BY <2>3 DEF Follows, Idle
<1>4. /\ OnlyCancels' /\ lastJob' \in Work \cup {NoWork} /\ stash' \in Seq(StashMessage)
      /\ behavior' \in {"detecting", "resetting", "normal"} /\ retries' \in Nat /\ line' \in Nat
  BY DEF SerialIInv, OnlyCancels, SerialTypes
<1>5. IsGridSeed => retries' = 0
  BY DEF SerialIInv
<1> QED
  BY <1>2, <1>3, <1>4, <1>5, HearingIInv

(* The end of a GridSeed's detection: a CancelWork is due. *)
LEMMA ResetIInv ==
  ASSUME SerialIInv, ResetPause
  PROVE  SerialIInv'
<1>1. /\ behavior' = "normal" /\ cancelDue' /\ inbox' = stash \o inbox /\ stash' = <<>>
      /\ UNCHANGED <<hearing, retries, lastJob, line>>
  BY DEF ResetPause, hearing, minerVars, workVars, readVars
<1>2. MailFine(inbox')
  BY <1>1, StashIsMail, AddFine DEF SerialIInv, SerialTypes
<1>3. Follows(inbox)' /\ OnlyCancels'
  BY <1>1 DEF Follows, Idle, OnlyCancels
<1>4. /\ lastJob' \in Work \cup {NoWork} /\ stash' \in Seq(StashMessage)
      /\ behavior' \in {"detecting", "resetting", "normal"} /\ retries' \in Nat /\ line' \in Nat
  BY <1>1 DEF SerialIInv, SerialTypes
<1>5. IsGridSeed => retries' = 0
  BY <1>1 DEF SerialIInv
<1> QED
  BY <1>1, <1>2, <1>3, <1>4, <1>5, HearingIInv

(* The device takes a work, finds a nonce, or answers a read. *)
LEMMA DeviceIInv ==
  ASSUME SerialIInv, DeviceTakesWork \/ DeviceFinds \/ ReadEnds
  PROVE  SerialIInv'
<1>1. CASE DeviceTakesWork \/ DeviceFinds
  <2>1. UNCHANGED <<hearing, startVars, lastJob, inbox>> /\ (line' = line \/ line' = line + 1)
    BY <1>1 DEF DeviceTakesWork, DeviceFinds, hearing, baseVars, minerVars, workVars, readVars
  <2> QED
    BY <2>1, MailIInv DEF SerialIInv, SerialTypes
<1>2. CASE ReadEnds
  <2>0. PICK n \in 0..line :
          /\ UNCHANGED <<hearing, startVars, lastJob>>
          /\ line' = line - n /\ inbox' = Append(inbox, Msg("ReadDone", n))
    BY <1>2 DEF ReadEnds, hearing, minerVars, workVars, SerialIInv, SerialTypes
  <2> DEFINE x == Msg("ReadDone", n)
  <2>1. /\ UNCHANGED <<hearing, startVars, lastJob>> /\ line' \in Nat /\ inbox' = Append(inbox, x)
    BY <2>0 DEF SerialIInv, SerialTypes
  <2>2. x \in SerialMessage /\ x.kind = "ReadDone"
    BY <2>0 DEF SerialIInv, SerialTypes, Msg, SerialMessage
  <2> HIDE DEF x
  <2>3. inbox \in Seq(SerialMessage) /\ MailFine(inbox) /\ Follows(inbox)
    BY DEF SerialIInv, MailFine
  <2>4. inbox' = inbox \o <<x>> /\ <<x>> \in Seq(SerialMessage) /\ None(<<x>>, "Job")
    BY <2>1, <2>2, <2>3, NoneOne
  <2>5. MailFine(inbox')
    BY <2>2, <2>3, <2>4, OneFine DEF PoolKind
  <2>6. Follows(inbox \o <<x>>)
    BY <2>3, <2>4, AddFollows
  <2> QED
    BY <2>1, <2>4, <2>5, <2>6, MailIInv
<1> QED
  BY <1>1, <1>2

LEMMA SerialStepIInv ==
  ASSUME SerialIInv, [SerialNext]_serialSpecVars
  PROVE  SerialIInv'
<1>1. CASE PoolChanges /\ UNCHANGED serialVars
  BY <1>1, SerialPoolIInv
<1>2. CASE Around /\ UNCHANGED serialVars
  BY <1>2, AroundIInv
<1>3. CASE DeviceTakesWork \/ DeviceFinds \/ ReadEnds
  BY <1>3, DeviceIInv
<1>4. CASE ReceiveSerial
  BY <1>4, SerialReceiveIInv
<1>5. CASE RetryFires
  BY <1>5, RetryIInv
<1>6. CASE NonceRestart
  <2>1. /\ UNCHANGED <<hearing, behavior, stash, retries, lastJob, line>>
        /\ inbox' = inbox \o ToSelf("CancelWork")
    BY <1>6 DEF NonceRestart, hearing, minerVars, serialVars, startVars, workVars, readVars
  <2> QED
    BY <2>1, CancelIInv
<1>7. CASE ResetPause
  BY <1>7, ResetIInv
<1>8. CASE DetectedCancels
  <2>1. /\ UNCHANGED <<hearing, behavior, stash, retries, lastJob, line>>
        /\ inbox' = inbox \o ToSelf("CancelWork")
    BY <1>8 DEF DetectedCancels, hearing, minerVars, workVars, readVars
  <2> QED
    BY <2>1, CancelIInv
<1>9. CASE CheckInitTimeout
  BY <1>9, SerialStopsIInv DEF CheckInitTimeout
<1>10. CASE UNCHANGED serialSpecVars
  <2>1. UNCHANGED <<hearing, startVars, lastJob, inbox, line>>
    BY <1>10 DEF serialSpecVars, serialVars, baseVars, hearing, minerVars, workVars, readVars
  <2> QED
    BY <2>1, MailIInv DEF SerialIInv, SerialTypes
<1> QED
  BY <1>1, <1>2, <1>3, <1>4, <1>5, <1>6, <1>7, <1>8, <1>9, <1>10 DEF SerialNext
-----------------------------------------------------------------------------
LEMMA IdleWhenNothingComes ==
  ASSUME SerialIInv, ~ WorkComing
  PROVE  Idle(inbox) /\ None(inbox, "Job")
<1>1. letters = <<>> /\ retries = 0 /\ ~ cancelDue /\ stash = <<>>
  BY DEF WorkComing, SerialIInv, SerialTypes
<1>2. \A k \in {"ExtraNonce", "MiningJob", "CancelWork", "StartWork", "Job"} : None(inbox, k)
  <2>1. inbox \in Seq(SerialMessage)
    BY DEF SerialIInv, MailFine
  <2>2. DOMAIN inbox = 1..Len(inbox)
    BY <2>1
  <2> QED
    BY <2>2 DEF WorkComing, None
<1>3. None(letters, "ExtraNonce") /\ None(letters, "MiningJob")
  BY <1>1, EndsEmpty
<1> QED
  BY <1>1, <1>2, <1>3 DEF Idle

LEMMA FollowsIInv == SerialIInv => FollowsWork
<1> SUFFICES ASSUME SerialIInv, up, finishedInit, ~ WorkComing, told[Self] # Untold
             PROVE  /\ lastJob.en = told[Self].conn
                    /\ lastJob.of = [conn |-> told[Self].conn, job |-> told[Self].job]
  BY DEF FollowsWork
<1>1. Idle(inbox) /\ None(inbox, "Job")
  BY IdleWhenNothingComes
<1>2. lastJob = BuiltWork
  BY <1>1, EndsNone DEF SerialIInv, Follows
<1>3. /\ extraNonceInfo = told[Self].conn
      /\ miningJob = [conn |-> told[Self].conn, job |-> told[Self].job]
  BY <1>1, Settled DEF SerialIInv, Idle, MailFine, Hears, JobOf
<1> QED
  BY <1>2, <1>3 DEF BuiltWork

(* A driver at rest has sent its device the newest work of the connection it *)
(* listens to: the handlers of CancelWork, StartWork and the nonces, with    *)
(* the messages of AbstractMiner between them, lose no change of the work.   *)
THEOREM WorkFollowed == SerialSpec => []FollowsWork
BY SerialInitIInv, SerialStepIInv, FollowsIInv, PTL DEF SerialSpec
-----------------------------------------------------------------------------
(* The proxy. *)

(* Nothing is built, solved or submitted before there is a job. *)
NothingWithoutJob ==
  miningJob = NoJob =>
    /\ \A h \in MerkleHash : works[h] = NoWork
    /\ pending = <<>>
    /\ \A i \in DOMAIN inbox : inbox[i].kind # "Nonce"

(* A work the actor is told of has been built, and its hash is not used      *)
(* again while the message is under way.                                     *)
ToldOfWorks == \A h \in MerkleHash : In(Msg("Job", h), inbox) => works[h] # NoWork

(* The actor knows, or will be told of, each work that is not too old and    *)
(* that a client has or is being sent.                                       *)
Registered ==
  up => \A h \in (answers \cup held) \ old :
          h \in merkleJobMap \cup built \/ In(Msg("Job", h), inbox)

ProxyIInv ==
  ProxyTypeOK /\ SourceOK /\ NothingWithoutJob /\ ToldOfWorks /\ Registered

LEMMA ProxyInitIInv == ProxyInit => ProxyIInv
<1> SUFFICES ASSUME ProxyInit PROVE ProxyIInv
  OBVIOUS
<1>1. ProxyTypeOK
  <2>1. BaseTypeOK
    BY BaseInitOK DEF ProxyInit
  <2>2. works \in [MerkleHash -> Work \cup {NoWork}] /\ inbox \in Seq(ProxyMessage)
    BY DEF ProxyInit, NoWorks
  <2> QED
    BY <2>1, <2>2 DEF ProxyInit, NoWorks, ProxyTypeOK
<1>2. SourceOK
  BY SourceInitOK DEF ProxyInit, BaseInit
<1>3. NothingWithoutJob /\ ToldOfWorks /\ Registered
  BY DEF ProxyInit, BaseInit, NoWorks, NothingWithoutJob, ToldOfWorks, Registered, In
<1> QED
  BY <1>1, <1>2, <1>3 DEF ProxyIInv
-----------------------------------------------------------------------------
LEMMA Nothings ==
  /\ NoJob \notin Job /\ NoWork \notin Work
  /\ BaseTypeOK /\ HasWork => BuiltWork \in Work /\ miningJob # NoJob
<1>1. NoJob \notin Job
  BY MinerAssumption DEF NoJob, Job
<1>2. NoWork \notin Work
  BY MinerAssumption DEF NoWork, Work
<1>3. BaseTypeOK /\ HasWork => BuiltWork \in Work /\ miningJob # NoJob
  BY DEF BaseTypeOK, HasWork, BuiltWork, Work
<1> QED
  BY <1>1, <1>2, <1>3

(* A step of the pool, or of the share's future, that leaves the rest alone. *)
LEMMA BesidesIInv ==
  ASSUME ProxyIInv, UNCHANGED <<driver, inbox, minerVars, proxyVars>>,
         SourceOK', letters' \in Seq(Letter), pending' \in Seq(Nonce), shares' \in Seq(Share),
         pending = <<>> => pending' = <<>>
  PROVE  ProxyIInv'
<1>1. ProxyTypeOK'
  BY DEF ProxyIInv, ProxyTypeOK, BaseTypeOK, minerVars, proxyVars
<1>2. NothingWithoutJob' /\ ToldOfWorks' /\ Registered'
  BY DEF ProxyIInv, NothingWithoutJob, ToldOfWorks, Registered, minerVars, proxyVars
<1> QED
  BY <1>1, <1>2 DEF ProxyIInv

(* A message is put into the mailbox. *)
LEMMA PutIInv ==
  ASSUME ProxyIInv, NEW msg \in ProxyMessage, inbox' = Append(inbox, msg),
         msg.kind = "Nonce" => miningJob # NoJob,
         \A h \in MerkleHash : msg = Msg("Job", h) => works[h] # NoWork
  PROVE  /\ inbox' \in Seq(ProxyMessage)
         /\ miningJob = NoJob => \A i \in DOMAIN inbox' : inbox'[i].kind # "Nonce"
         /\ \A h \in MerkleHash : In(Msg("Job", h), inbox') => works[h] # NoWork
         /\ \A h \in MerkleHash : In(Msg("Job", h), inbox) => In(Msg("Job", h), inbox')
<1>1. inbox \in Seq(ProxyMessage)
  BY DEF ProxyIInv, ProxyTypeOK
<1>2. \A h \in MerkleHash :
        In(Msg("Job", h), inbox') <=> In(Msg("Job", h), inbox) \/ Msg("Job", h) = msg
  BY <1>1, InPut
<1>3. miningJob = NoJob => \A i \in DOMAIN inbox' : inbox'[i].kind # "Nonce"
  BY <1>1, Put DEF ProxyIInv, NothingWithoutJob
<1> QED
  BY <1>1, <1>2, <1>3 DEF ProxyIInv, ToldOfWorks
-----------------------------------------------------------------------------
(* The pool, the miner's futures and its work timer. *)

LEMMA ProxyPoolIInv ==
  ASSUME ProxyIInv, PoolChanges \/ PoolSubscribe \/ PoolForgets, UNCHANGED proxyVars
  PROVE  ProxyIInv'
<1>1. SourceOK /\ letters \in Seq(Letter) /\ pending \in Seq(Nonce) /\ shares \in Seq(Share)
  BY DEF ProxyIInv, ProxyTypeOK, BaseTypeOK
<1>2. UNCHANGED <<driver, inbox, minerVars, shareVars>>
  BY DEF PoolChanges, PoolOffer, PoolSwitch, PoolSubscribe, PoolForgets
<1>3. SourceOK' /\ letters' \in Seq(Letter)
  <2>1. CASE PoolChanges
    BY <2>1, <1>1, OfferOK, SwitchOK DEF PoolChanges
  <2>2. CASE PoolSubscribe
    BY <2>2, <1>1, SubscribeOK
  <2>3. CASE PoolForgets
    BY <2>3, <1>1 DEF PoolForgets, Unlisten, SourceOK, Complete
  <2> QED
    BY <2>1, <2>2, <2>3
<1> QED
  BY <1>1, <1>2, <1>3, BesidesIInv DEF shareVars

LEMMA SharesIInv ==
  ASSUME ProxyIInv, ForwardShare \/ \E i \in DOMAIN pending : SubmitNonce(i), UNCHANGED proxyVars
  PROVE  ProxyIInv'
<1>1. SourceOK /\ letters \in Seq(Letter) /\ pending \in Seq(Nonce) /\ shares \in Seq(Share)
      /\ miningJob \in Job \cup {NoJob} /\ (pending # <<>> => miningJob # NoJob)
  BY DEF ProxyIInv, ProxyTypeOK, BaseTypeOK, NothingWithoutJob
<1>2. UNCHANGED <<driver, inbox, minerVars, sourceVars, letters>>
  BY DEF ForwardShare, SubmitNonce
<1>3. SourceOK' /\ letters' \in Seq(Letter)
  BY <1>1, <1>2 DEF sourceVars, SourceOK, Complete
<1>4. /\ pending' \in Seq(Nonce) /\ shares' \in Seq(Share)
      /\ pending = <<>> => pending' = <<>>
  BY <1>1, SharesOK
<1> QED
  BY <1>2, <1>3, <1>4, BesidesIInv

LEMMA ProxyDeliverIInv ==
  ASSUME ProxyIInv, Deliver \/ WorkTimeout, UNCHANGED proxyVars
  PROVE  ProxyIInv'
<1>1. PICK msg \in Letter \cup {Msg("WorkTimeout", 0)} : inbox' = Append(inbox, msg)
  BY DEF ProxyIInv, ProxyTypeOK, BaseTypeOK, Deliver, WorkTimeout
<1>2. msg \in ProxyMessage /\ msg.kind \notin {"Nonce", "Job"}
  BY <1>1 DEF ProxyMessage, Letter, Msg
<1>3. \A h \in MerkleHash : msg # Msg("Job", h)
  BY <1>2 DEF Msg
<1>4. UNCHANGED <<driver, sourceVars, extraNonceInfo, target, miningJob, up, shareVars>>
      /\ letters' \in Seq(Letter) /\ timer' \in BOOLEAN
  <2>1. CASE Deliver
    <3>1. letters' = Tail(letters) /\ timer' = timer /\ letters # <<>>
      BY <2>1 DEF Deliver, minerVars
    <3>2. letters \in Seq(Letter) /\ timer \in BOOLEAN
      BY DEF ProxyIInv, ProxyTypeOK, BaseTypeOK
    <3>3. Tail(letters) \in Seq(Letter)
      BY <3>1, <3>2, Taken
    <3> QED
      BY <2>1, <3>1, <3>2, <3>3 DEF Deliver, minerVars
  <2>2. CASE WorkTimeout
    BY <2>2 DEF ProxyIInv, ProxyTypeOK, BaseTypeOK, WorkTimeout
  <2> QED
    BY <2>1, <2>2
<1>5. /\ inbox' \in Seq(ProxyMessage)
      /\ miningJob = NoJob => \A i \in DOMAIN inbox' : inbox'[i].kind # "Nonce"
      /\ \A h \in MerkleHash : In(Msg("Job", h), inbox') => works[h] # NoWork
      /\ \A h \in MerkleHash : In(Msg("Job", h), inbox) => In(Msg("Job", h), inbox')
  BY <1>1, <1>2, <1>3, PutIInv
<1>6. ProxyTypeOK'
  BY <1>4, <1>5 DEF ProxyIInv, ProxyTypeOK, BaseTypeOK, shareVars, proxyVars
<1>7. SourceOK' /\ NothingWithoutJob' /\ ToldOfWorks'
  BY <1>4, <1>5 DEF ProxyIInv, SourceOK, Complete, NothingWithoutJob, ToldOfWorks, sourceVars,
                    shareVars, proxyVars
<1>8. Registered'
  BY <1>4, <1>5 DEF ProxyIInv, ProxyTypeOK, Registered, proxyVars
<1> QED
  BY <1>6, <1>7, <1>8 DEF ProxyIInv
-----------------------------------------------------------------------------
(* The clients, and the futures that build works. *)

LEMMA ClientIInv ==
  ASSUME ProxyIInv, NEW h \in MerkleHash, ClientAsks(h) \/ ClientSubmits(h) \/ ClientDrops(h)
  PROVE  ProxyIInv'
<1>1. UNCHANGED <<driver, sourceVars, letters, minerVars, shareVars, building, answers, built,
                  merkleJobMap>>
  BY DEF ClientAsks, ClientSubmits, ClientDrops, proxyVars, baseVars
<1>2. SourceOK' /\ BaseTypeOK' /\ driver' = "StratumProxy"
  BY <1>1 DEF ProxyIInv, ProxyTypeOK, BaseTypeOK, SourceOK, Complete, sourceVars, minerVars, shareVars
<1>3. CASE ClientAsks(h)
  <2>1. /\ inbox' = Append(inbox, Msg("GetWork", h)) /\ held' = held /\ old' = old \ {h}
        /\ works' = [works EXCEPT ![h] = NoWork]
        /\ h \notin building \cup answers \cup built \cup held \cup merkleJobMap
        /\ ~ Mentions(h)
    BY <1>3 DEF ClientAsks, Fresh
  <2>2. Msg("GetWork", h) \in ProxyMessage /\ Msg("GetWork", h).kind = "GetWork"
        /\ \A g \in MerkleHash : Msg("GetWork", h) # Msg("Job", g)
    BY DEF ProxyMessage, Msg
  <2>3. /\ inbox' \in Seq(ProxyMessage)
        /\ miningJob = NoJob => \A i \in DOMAIN inbox' : inbox'[i].kind # "Nonce"
        /\ \A g \in MerkleHash : In(Msg("Job", g), inbox') => works[g] # NoWork
        /\ \A g \in MerkleHash : In(Msg("Job", g), inbox) => In(Msg("Job", g), inbox')
    BY <2>1, <2>2, PutIInv
  <2>4. ~ In(Msg("Job", h), inbox')
    <3>1. ~ In(Msg("Job", h), inbox)
      BY <2>1 DEF Mentions, In, Msg
    <3> QED
      BY <3>1, <2>1, <2>2, InPut DEF ProxyIInv, ProxyTypeOK
  <2>5. works \in [MerkleHash -> Work \cup {NoWork}]
    BY DEF ProxyIInv, ProxyTypeOK
  <2>6. /\ works' \in [MerkleHash -> Work \cup {NoWork}] /\ works'[h] = NoWork
        /\ \A g \in MerkleHash \ {h} : works'[g] = works[g]
    BY <2>1, <2>5
  <2>7. ProxyTypeOK'
    BY <1>1, <1>2, <2>1, <2>3, <2>6 DEF ProxyIInv, ProxyTypeOK
  <2>8. NothingWithoutJob' /\ ToldOfWorks'
    BY <1>1, <2>3, <2>4, <2>6 DEF ProxyIInv, NothingWithoutJob, ToldOfWorks, minerVars, shareVars
  <2>9. Registered'
    BY <1>1, <2>1, <2>3 DEF ProxyIInv, ProxyTypeOK, Registered, minerVars
  <2> QED
    BY <1>2, <2>7, <2>8, <2>9 DEF ProxyIInv
<1>4. CASE ClientSubmits(h)
  <2>1. inbox' = Append(inbox, Msg("SubmitResult", h)) /\ UNCHANGED proxyVars
    BY <1>4 DEF ClientSubmits
  <2>2. Msg("SubmitResult", h) \in ProxyMessage /\ Msg("SubmitResult", h).kind = "SubmitResult"
        /\ \A g \in MerkleHash : Msg("SubmitResult", h) # Msg("Job", g)
    BY DEF ProxyMessage, Msg
  <2>3. /\ inbox' \in Seq(ProxyMessage)
        /\ miningJob = NoJob => \A i \in DOMAIN inbox' : inbox'[i].kind # "Nonce"
        /\ \A g \in MerkleHash : In(Msg("Job", g), inbox') => works[g] # NoWork
        /\ \A g \in MerkleHash : In(Msg("Job", g), inbox) => In(Msg("Job", g), inbox')
    BY <2>1, <2>2, PutIInv
  <2>7. ProxyTypeOK'
    BY <1>2, <2>1, <2>3 DEF ProxyIInv, ProxyTypeOK, proxyVars
  <2>8. NothingWithoutJob' /\ ToldOfWorks'
    BY <1>1, <2>1, <2>3 DEF ProxyIInv, NothingWithoutJob, ToldOfWorks, minerVars, shareVars, proxyVars
  <2>9. Registered'
    BY <1>1, <2>1, <2>3 DEF ProxyIInv, ProxyTypeOK, Registered, minerVars, proxyVars
  <2> QED
    BY <1>2, <2>7, <2>8, <2>9 DEF ProxyIInv
<1>5. CASE ClientDrops(h)
  <2>1. held' = held \ {h} /\ UNCHANGED <<inbox, works, old>>
    BY <1>5 DEF ClientDrops, baseVars
  <2>2. ProxyTypeOK'
    BY <1>1, <1>2, <2>1 DEF ProxyIInv, ProxyTypeOK
  <2>3. NothingWithoutJob' /\ ToldOfWorks' /\ Registered'
    BY <1>1, <2>1 DEF ProxyIInv, NothingWithoutJob, ToldOfWorks, Registered, minerVars, shareVars
  <2> QED
    BY <1>2, <2>2, <2>3 DEF ProxyIInv
<1> QED
  BY <1>3, <1>4, <1>5

LEMMA FutureIInv ==
  ASSUME ProxyIInv, NEW h \in MerkleHash, Build(h) \/ Answer(h) \/ TellSelf(h) \/ Ages(h)
  PROVE  ProxyIInv'
<1>1. UNCHANGED <<driver, sourceVars, letters, minerVars, shareVars, works, merkleJobMap>>
  BY DEF Build, Answer, TellSelf, Ages, baseVars
<1>2. SourceOK' /\ BaseTypeOK' /\ driver' = "StratumProxy"
  BY <1>1 DEF ProxyIInv, ProxyTypeOK, BaseTypeOK, SourceOK, Complete, sourceVars, minerVars, shareVars
<1>3. ASSUME inbox' = inbox, Build(h) \/ Answer(h) \/ Ages(h)
      PROVE  ProxyIInv'
  <2>1. ProxyTypeOK'
    BY <1>1, <1>2, <1>3 DEF ProxyIInv, ProxyTypeOK, Build, Answer, Ages
  <2>2. NothingWithoutJob' /\ ToldOfWorks'
    BY <1>1, <1>3 DEF ProxyIInv, NothingWithoutJob, ToldOfWorks, minerVars, shareVars
  <2>3. Registered'
    BY <1>1, <1>3 DEF ProxyIInv, Registered, Build, Answer, Ages, minerVars
  <2> QED
    BY <1>2, <2>1, <2>2, <2>3 DEF ProxyIInv
<1>4. Build(h) \/ Answer(h) \/ Ages(h) => inbox' = inbox
  BY DEF Build, Answer, Ages, baseVars
<1>5. CASE TellSelf(h)
  <2>1. /\ h \in built /\ built' = built \ {h} /\ UNCHANGED <<building, answers, held, old>>
        /\ inbox' = IF up THEN Append(inbox, Msg("Job", h)) ELSE inbox
    BY <1>5 DEF TellSelf
  <2>2. works[h] # NoWork
    BY <2>1 DEF ProxyIInv, ProxyTypeOK
  <2>3. /\ inbox' \in Seq(ProxyMessage)
        /\ miningJob = NoJob => \A i \in DOMAIN inbox' : inbox'[i].kind # "Nonce"
        /\ \A g \in MerkleHash : In(Msg("Job", g), inbox') => works[g] # NoWork
        /\ \A g \in MerkleHash : In(Msg("Job", g), inbox) => In(Msg("Job", g), inbox')
        /\ up => In(Msg("Job", h), inbox')
    <3>1. CASE ~ up
      BY <3>1, <2>1 DEF ProxyIInv, ProxyTypeOK, NothingWithoutJob, ToldOfWorks
    <3>2. CASE up
      <4>1. Msg("Job", h) \in ProxyMessage /\ Msg("Job", h).kind = "Job"
            /\ \A g \in MerkleHash : Msg("Job", h) = Msg("Job", g) => g = h
        BY DEF ProxyMessage, Msg
      <4>2. inbox' = Append(inbox, Msg("Job", h))
        BY <3>2, <2>1
      <4>3. In(Msg("Job", h), inbox')
        BY <4>1, <4>2, InPut DEF ProxyIInv, ProxyTypeOK
      <4> QED
        BY <4>1, <4>2, <4>3, <2>2, PutIInv
    <3> QED
      BY <3>1, <3>2
  <2>4. ProxyTypeOK'
    BY <1>1, <1>2, <2>1, <2>3 DEF ProxyIInv, ProxyTypeOK
  <2>5. NothingWithoutJob' /\ ToldOfWorks'
    BY <1>1, <2>3 DEF ProxyIInv, NothingWithoutJob, ToldOfWorks, minerVars, shareVars
  <2>6. Registered'
    BY <1>1, <2>1, <2>3 DEF ProxyIInv, ProxyTypeOK, Registered, minerVars
  <2> QED
    BY <1>2, <2>4, <2>5, <2>6 DEF ProxyIInv
<1> QED
  BY <1>3, <1>4, <1>5
-----------------------------------------------------------------------------
(* The actor's handlers. *)

(* What is known of the message taken and of the mail that is left. *)
LEMMA RestOK ==
  ASSUME ProxyIInv, inbox # <<>>
  PROVE  /\ Tail(inbox) \in Seq(ProxyMessage) /\ Head(inbox) \in ProxyMessage
         /\ miningJob = NoJob => /\ Head(inbox).kind # "Nonce"
                                 /\ \A i \in DOMAIN Tail(inbox) : Tail(inbox)[i].kind # "Nonce"
         /\ \A h \in MerkleHash :
              In(Msg("Job", h), inbox) <=> In(Msg("Job", h), Tail(inbox)) \/ Msg("Job", h) = Head(inbox)
<1>1. inbox \in Seq(ProxyMessage)
  BY DEF ProxyIInv, ProxyTypeOK
<1>2. /\ Tail(inbox) \in Seq(ProxyMessage) /\ Head(inbox) \in ProxyMessage /\ Head(inbox) = inbox[1]
      /\ 1 \in DOMAIN inbox
      /\ \A i \in DOMAIN Tail(inbox) : Tail(inbox)[i] = inbox[i + 1] /\ i + 1 \in DOMAIN inbox
  BY <1>1, Taken
<1>3. miningJob = NoJob => /\ Head(inbox).kind # "Nonce"
                           /\ \A i \in DOMAIN Tail(inbox) : Tail(inbox)[i].kind # "Nonce"
  BY <1>2 DEF ProxyIInv, NothingWithoutJob
<1> QED
  BY <1>1, <1>2, <1>3, InTail

(* A handler that keeps works and job, and leaves the rest of the mailbox,   *)
(* or that with one more message, behind.                                    *)
LEMMA HandledIInv ==
  ASSUME ProxyIInv, inbox # <<>>, NEW msg \in ProxyMessage,
         inbox' = Tail(inbox) \/ inbox' = Append(Tail(inbox), msg),
         msg.kind = "Nonce" => miningJob # NoJob,
         msg.kind # "Job",
         UNCHANGED <<driver, sourceVars, letters, up, works, building, answers, built, held, old>>,
         BaseTypeOK',
         miningJob' = miningJob \/ miningJob' # NoJob,
         miningJob' = NoJob => pending' = pending,
         merkleJobMap' \subseteq {h \in MerkleHash : works[h] # NoWork},
         \A h \in MerkleHash : h \in merkleJobMap \ old => h \in merkleJobMap',
         \A h \in MerkleHash : Head(inbox) = Msg("Job", h) => h \in merkleJobMap'
  PROVE  ProxyIInv'
<1>1. /\ Tail(inbox) \in Seq(ProxyMessage) /\ Head(inbox) \in ProxyMessage
      /\ miningJob = NoJob => \A i \in DOMAIN Tail(inbox) : Tail(inbox)[i].kind # "Nonce"
      /\ \A h \in MerkleHash :
           In(Msg("Job", h), inbox) <=> In(Msg("Job", h), Tail(inbox)) \/ Msg("Job", h) = Head(inbox)
  BY RestOK
<1>2. inbox' \in Seq(ProxyMessage)
  BY <1>1, Put
<1>3. miningJob = NoJob => \A i \in DOMAIN inbox' : inbox'[i].kind # "Nonce"
  <2>1. CASE inbox' = Tail(inbox)
    BY <2>1, <1>1
  <2>2. CASE inbox' = Append(Tail(inbox), msg)
    BY <2>2, <1>1, Put
  <2> QED
    BY <2>1, <2>2
<1>4. \A h \in MerkleHash : In(Msg("Job", h), inbox') <=> In(Msg("Job", h), Tail(inbox))
  <2>1. CASE inbox' = Tail(inbox)
    BY <2>1
  <2>2. CASE inbox' = Append(Tail(inbox), msg)
    <3>1. \A h \in MerkleHash : Msg("Job", h) # msg
      BY DEF Msg
    <3> QED
      BY <2>2, <3>1, <1>1, InPut
  <2> QED
    BY <2>1, <2>2
<1>5. ProxyTypeOK'
  BY <1>2 DEF ProxyIInv, ProxyTypeOK
<1>6. SourceOK'
  BY DEF ProxyIInv, SourceOK, Complete, sourceVars
<1>7. NothingWithoutJob' /\ ToldOfWorks'
  BY <1>1, <1>3, <1>4 DEF ProxyIInv, NothingWithoutJob, ToldOfWorks
<1>8. Registered'
  BY <1>1, <1>4 DEF ProxyIInv, ProxyTypeOK, Registered
<1> QED
  BY <1>5, <1>6, <1>7, <1>8 DEF ProxyIInv

LEMMA ProxyStopsIInv ==
  ASSUME ProxyIInv, Stops, UNCHANGED <<driver, sourceVars, proxyVars>>
  PROVE  ProxyIInv'
<1>1. /\ up' = FALSE /\ inbox' = <<>> /\ letters' = <<>> /\ timer' = FALSE
      /\ UNCHANGED <<extraNonceInfo, target, miningJob, shareVars>>
  BY DEF Stops
<1>2. BaseTypeOK'
  BY StopsOK DEF ProxyIInv, ProxyTypeOK
<1>4. ProxyTypeOK'
  BY <1>1, <1>2 DEF ProxyIInv, ProxyTypeOK, proxyVars
<1>3. SourceOK' /\ NothingWithoutJob' /\ ToldOfWorks' /\ Registered'
  BY <1>1 DEF ProxyIInv, SourceOK, Complete, NothingWithoutJob, ToldOfWorks, Registered, In,
              sourceVars, shareVars, proxyVars
<1> QED
  BY <1>3, <1>4 DEF ProxyIInv

LEMMA GetWorkIInv ==
  ASSUME ProxyIInv, inbox # <<>>, GetWork(Head(inbox), Tail(inbox)), UNCHANGED <<driver, sourceVars>>
  PROVE  ProxyIInv'
<1>1. /\ Head(inbox).kind = "GetWork" /\ Head(inbox) \in ProxyMessage
      /\ Tail(inbox) \in Seq(ProxyMessage) /\ inbox' = Tail(inbox)
      /\ miningJob = NoJob => \A i \in DOMAIN Tail(inbox) : Tail(inbox)[i].kind # "Nonce"
      /\ \A h \in MerkleHash :
           In(Msg("Job", h), inbox) <=> In(Msg("Job", h), Tail(inbox)) \/ Msg("Job", h) = Head(inbox)
      /\ UNCHANGED <<letters, minerVars, shareVars, answers, built, held, merkleJobMap, old>>
  BY RestOK DEF GetWork
<1>2. Head(inbox).val \in MerkleHash /\ \A h \in MerkleHash : Msg("Job", h) # Head(inbox)
  BY <1>1 DEF ProxyMessage, Letter, Msg
<1>3. BaseTypeOK' /\ SourceOK'
  BY <1>1 DEF ProxyIInv, ProxyTypeOK, BaseTypeOK, SourceOK, Complete, sourceVars, minerVars, shareVars
<1>4. CASE HasWork
  <2>1. /\ works' = [works EXCEPT ![Head(inbox).val] = BuiltWork]
        /\ building' = building \cup {Head(inbox).val}
    BY <1>4 DEF GetWork
  <2>2. BuiltWork \in Work /\ miningJob # NoJob /\ BuiltWork # NoWork
    BY <1>4, Nothings DEF ProxyIInv, ProxyTypeOK
  <2>3. /\ works' \in [MerkleHash -> Work \cup {NoWork}]
        /\ works'[Head(inbox).val] # NoWork
        /\ \A h \in MerkleHash : works[h] # NoWork => works'[h] # NoWork
    BY <1>2, <2>1, <2>2 DEF ProxyIInv, ProxyTypeOK
  <2>4. ProxyTypeOK'
    BY <1>1, <1>2, <1>3, <2>1, <2>3 DEF ProxyIInv, ProxyTypeOK
  <2>5. NothingWithoutJob' /\ ToldOfWorks'
    BY <1>1, <2>2, <2>3 DEF ProxyIInv, NothingWithoutJob, ToldOfWorks, minerVars
  <2>6. Registered'
    BY <1>1, <1>2 DEF ProxyIInv, ProxyTypeOK, Registered, minerVars
  <2> QED
    BY <1>3, <2>4, <2>5, <2>6 DEF ProxyIInv
<1>5. CASE ~ HasWork
  <2>1. UNCHANGED <<works, building>>
    BY <1>5 DEF GetWork
  <2> QED
    BY <1>1, <1>2, <1>3, <2>1, HandledIInv DEF ProxyIInv, ProxyTypeOK, minerVars, shareVars
<1> QED
  BY <1>4, <1>5

LEMMA ProxyReceiveIInv ==
  ASSUME ProxyIInv, ReceiveProxy
  PROVE  ProxyIInv'
<1> DEFINE msg == Head(inbox)
           rest == Tail(inbox)
<1>1. inbox # <<>> /\ ProxyReceive(msg, rest) /\ UNCHANGED <<driver, sourceVars>>
  BY DEF ReceiveProxy
<1>2. msg \in ProxyMessage /\ rest \in Seq(ProxyMessage)
      /\ (miningJob = NoJob => msg.kind # "Nonce")
  BY <1>1, RestOK
<1> HIDE DEF msg, rest
<1>3. /\ Msg("CancelWork", 0) \in ProxyMessage /\ Msg("CancelWork", 0).kind = "CancelWork"
  BY DEF ProxyMessage, Msg
<1>4. msg.kind # "Job" => \A h \in MerkleHash : msg # Msg("Job", h)
  BY DEF Msg
<1>5. BaseTypeOK /\ merkleJobMap \subseteq {h \in MerkleHash : works[h] # NoWork}
  BY DEF ProxyIInv, ProxyTypeOK
<1>6. CASE IgnoreCancelWork(msg, rest)
  <2>1. inbox' = rest /\ UNCHANGED <<letters, minerVars, shareVars, proxyVars>> /\ msg.kind # "Job"
    BY <1>6 DEF IgnoreCancelWork
  <2>2. BaseTypeOK'
    BY <1>5, <2>1 DEF BaseTypeOK, minerVars, shareVars
  <2> QED
    BY <1>1, <1>2, <1>3, <1>4, <1>5, <2>1, <2>2, HandledIInv DEF minerVars, shareVars, proxyVars, msg, rest
<1>7. CASE GetWork(msg, rest)
  BY <1>7, <1>1, GetWorkIInv DEF msg, rest
<1>8. CASE RememberJob(msg, rest)
  <2>1. /\ inbox' = rest /\ merkleJobMap' = merkleJobMap \cup {msg.val} /\ msg.kind = "Job"
        /\ UNCHANGED <<letters, minerVars, shareVars, works, building, answers, built, held, old>>
    BY <1>8 DEF RememberJob
  <2>2. BaseTypeOK'
    BY <1>5, <2>1 DEF BaseTypeOK, minerVars, shareVars
  <2>3. msg.val \in MerkleHash /\ msg = Msg("Job", msg.val)
    BY <1>2, <2>1 DEF ProxyMessage, Letter, Msg
  <2>4. inbox \in Seq(ProxyMessage)
    BY DEF ProxyIInv, ProxyTypeOK
  <2>5. In(msg, inbox)
    BY <1>1, <2>4, InTail DEF msg
  <2>6. works[msg.val] # NoWork
    BY <2>3, <2>5 DEF ProxyIInv, ToldOfWorks
  <2>7. \A h \in MerkleHash : msg = Msg("Job", h) => h = msg.val
    BY DEF Msg
  <2> QED
    BY <1>1, <1>2, <1>3, <1>5, <2>1, <2>2, <2>3, <2>6, <2>7, HandledIInv
       DEF minerVars, shareVars, msg, rest
<1>9. CASE NewJob(msg, rest)
  <2>1. /\ inbox' = Append(rest, Msg("CancelWork", 0)) /\ miningJob' = msg.val
        /\ msg.kind = "MiningJob"
        /\ UNCHANGED <<letters, extraNonceInfo, target, timer, up, shareVars, proxyVars>>
    BY <1>9 DEF NewJob, TakeMiningJob
  <2>2. msg.val \in Job
    BY <1>2, <2>1 DEF ProxyMessage, Letter
  <2>3. BaseTypeOK' /\ miningJob' # NoJob
    BY <1>5, <2>1, <2>2, Nothings DEF BaseTypeOK, shareVars
  <2> QED
    BY <1>1, <1>2, <1>3, <1>4, <1>5, <2>1, <2>3, HandledIInv DEF shareVars, proxyVars, msg, rest
<1>10. CASE JobTimeouts(msg, rest)
  <2>1. /\ inbox' = rest /\ merkleJobMap' = merkleJobMap \ old /\ msg.kind # "Job"
        /\ UNCHANGED <<letters, minerVars, shareVars, works, building, answers, built, held, old>>
    BY <1>10 DEF JobTimeouts
  <2>2. BaseTypeOK'
    BY <1>5, <2>1 DEF BaseTypeOK, minerVars, shareVars
  <2> QED
    BY <1>1, <1>2, <1>3, <1>4, <1>5, <2>1, <2>2, HandledIInv DEF minerVars, shareVars, msg, rest
<1>11. CASE SubmitResult(msg, rest)
  <2>1. /\ msg.kind = "SubmitResult" /\ UNCHANGED <<letters, minerVars, shareVars, proxyVars>>
        /\ inbox' = IF msg.val \in merkleJobMap
                    THEN Append(rest, Msg("Nonce", [work |-> works[msg.val], solves |-> TRUE]))
                    ELSE rest
    BY <1>11 DEF SubmitResult
  <2>2. BaseTypeOK'
    BY <1>5, <2>1 DEF BaseTypeOK, minerVars, shareVars
  <2>3. CASE msg.val \notin merkleJobMap
    BY <1>1, <1>2, <1>3, <1>4, <1>5, <2>1, <2>2, <2>3, HandledIInv
       DEF minerVars, shareVars, proxyVars, msg, rest
  <2>4. CASE msg.val \in merkleJobMap
    <3> DEFINE x == Msg("Nonce", [work |-> works[msg.val], solves |-> TRUE])
    <3>1. works[msg.val] \in Work /\ miningJob # NoJob
      BY <1>5, <2>4 DEF ProxyIInv, ProxyTypeOK, NothingWithoutJob
    <3>2. x \in ProxyMessage /\ x.kind = "Nonce"
      BY <3>1 DEF ProxyMessage, Nonce, Msg
    <3>3. inbox' = Append(rest, x)
      BY <2>1, <2>4
    <3> HIDE DEF x
    <3> QED
      BY <1>1, <1>4, <1>5, <2>1, <2>2, <3>1, <3>2, <3>3, HandledIInv
         DEF minerVars, shareVars, proxyVars, msg, rest
  <2> QED
    BY <2>3, <2>4
<1>12. CASE TakeExtraNonce(msg, rest) /\ UNCHANGED proxyVars
  <2>1. /\ inbox' = Append(rest, Msg("CancelWork", 0)) /\ extraNonceInfo' = msg.val
        /\ msg.kind = "ExtraNonce"
        /\ UNCHANGED <<letters, target, miningJob, timer, up, shareVars, proxyVars>>
    BY <1>12 DEF TakeExtraNonce
  <2>2. msg.val \in Conn
    BY <1>2, <2>1 DEF ProxyMessage, Letter
  <2>3. BaseTypeOK'
    BY <1>5, <2>1, <2>2 DEF BaseTypeOK, shareVars
  <2> QED
    BY <1>1, <1>2, <1>3, <1>4, <1>5, <2>1, <2>3, HandledIInv DEF shareVars, proxyVars, msg, rest
<1>13. CASE TakeDifficulty(msg, rest) /\ UNCHANGED proxyVars
  <2>1. /\ inbox' = rest /\ target' = msg.val /\ msg.kind = "Difficulty"
        /\ UNCHANGED <<letters, extraNonceInfo, miningJob, timer, up, shareVars, proxyVars>>
    BY <1>13 DEF TakeDifficulty
  <2>2. msg.val \in 0..MaxDiff
    BY <1>2, <2>1 DEF ProxyMessage, Letter
  <2>3. BaseTypeOK'
    BY <1>5, <2>1, <2>2 DEF BaseTypeOK, shareVars
  <2> QED
    BY <1>1, <1>2, <1>3, <1>4, <1>5, <2>1, <2>3, HandledIInv DEF shareVars, proxyVars, msg, rest
<1>14. CASE TakeNonce(msg, rest) /\ UNCHANGED proxyVars
  <2>1. /\ inbox' = rest /\ timer' = TRUE /\ pending' = Append(pending, msg.val)
        /\ msg.kind = "Nonce"
        /\ UNCHANGED <<letters, extraNonceInfo, target, miningJob, up, shares, proxyVars>>
    BY <1>14 DEF TakeNonce
  <2>2. msg.val \in Nonce /\ miningJob # NoJob
    BY <1>2, <2>1 DEF ProxyMessage, Letter
  <2>3. BaseTypeOK'
    <3>1. pending' \in Seq(Nonce)
      BY <1>5, <2>1, <2>2, Put DEF BaseTypeOK
    <3> QED
      BY <1>5, <2>1, <3>1 DEF BaseTypeOK
  <2> QED
    BY <1>1, <1>2, <1>3, <1>4, <1>5, <2>1, <2>2, <2>3, HandledIInv DEF proxyVars, msg, rest
<1>15. CASE TakeWorkTimeout(msg, rest) /\ UNCHANGED proxyVars
  BY <1>15, <1>1, ProxyStopsIInv DEF TakeWorkTimeout
<1> QED
  BY <1>1, <1>6, <1>7, <1>8, <1>9, <1>10, <1>11, <1>12, <1>13, <1>14, <1>15 DEF ProxyReceive
-----------------------------------------------------------------------------
LEMMA TimerIInv ==
  ASSUME ProxyIInv, JobTimeoutsDue
  PROVE  ProxyIInv'
<1> DEFINE msg == Msg("JobTimeouts", 0)
<1>1. /\ inbox' = Append(inbox, msg)
      /\ UNCHANGED <<driver, sourceVars, letters, minerVars, shareVars, proxyVars>>
  BY DEF JobTimeoutsDue
<1>2. /\ msg \in ProxyMessage /\ msg.kind = "JobTimeouts"
      /\ \A h \in MerkleHash : msg # Msg("Job", h)
  BY DEF ProxyMessage, Msg
<1> HIDE DEF msg
<1>3. /\ inbox' \in Seq(ProxyMessage)
      /\ miningJob = NoJob => \A i \in DOMAIN inbox' : inbox'[i].kind # "Nonce"
      /\ \A h \in MerkleHash : In(Msg("Job", h), inbox') => works[h] # NoWork
      /\ \A h \in MerkleHash : In(Msg("Job", h), inbox) => In(Msg("Job", h), inbox')
  BY <1>1, <1>2, PutIInv
<1>4. ProxyTypeOK'
  BY <1>1, <1>3 DEF ProxyIInv, ProxyTypeOK, BaseTypeOK, minerVars, shareVars, proxyVars
<1>5. SourceOK' /\ NothingWithoutJob' /\ ToldOfWorks'
  BY <1>1, <1>3 DEF ProxyIInv, SourceOK, Complete, NothingWithoutJob, ToldOfWorks, sourceVars,
                    minerVars, shareVars, proxyVars
<1>6. Registered'
  BY <1>1, <1>3 DEF ProxyIInv, ProxyTypeOK, Registered, minerVars, proxyVars
<1> QED
  BY <1>4, <1>5, <1>6 DEF ProxyIInv

LEMMA ProxyStepIInv == ProxyIInv /\ [ProxyNext]_proxySpecVars => ProxyIInv'
<1> SUFFICES ASSUME ProxyIInv, [ProxyNext]_proxySpecVars PROVE ProxyIInv'
  OBVIOUS
<1>1. CASE PoolChanges /\ UNCHANGED proxyVars
  BY <1>1, ProxyPoolIInv
<1>2. CASE Around /\ UNCHANGED proxyVars
  BY <1>2, ProxyPoolIInv, SharesIInv, ProxyDeliverIInv DEF Around
<1>3. ASSUME NEW h \in MerkleHash,
             \/ ClientAsks(h) \/ ClientSubmits(h) \/ ClientDrops(h)
             \/ Build(h) \/ Answer(h) \/ TellSelf(h) \/ Ages(h)
      PROVE  ProxyIInv'
  BY <1>3, ClientIInv, FutureIInv
<1>4. CASE ReceiveProxy
  BY <1>4, ProxyReceiveIInv
<1>5. CASE JobTimeoutsDue
  BY <1>5, TimerIInv
<1>6. CASE UNCHANGED proxySpecVars
  BY <1>6, BesidesIInv DEF proxySpecVars, baseVars, shareVars, sourceVars, ProxyIInv, ProxyTypeOK,
                           BaseTypeOK, SourceOK, Complete
<1> QED
  BY <1>1, <1>2, <1>3, <1>4, <1>5, <1>6 DEF ProxyNext
-----------------------------------------------------------------------------
(* The types of the proxy's records: a work, a share and a solution always   *)
(* are of a job and an extranonce of some connection.                        *)
THEOREM ProxyTypeCorrect == ProxySpec => []ProxyTypeOK
<1>1. ProxyIInv => ProxyTypeOK
  BY DEF ProxyIInv
<1> QED
  BY <1>1, ProxyInitIInv, ProxyStepIInv, PTL DEF ProxySpec

(* A work a client has is known to the proxy, or about to be, until it is    *)
(* too old: the two callbacks of the future, new jobs and expiry come in any *)
(* order.                                                                    *)
THEOREM WorksKnown == ProxySpec => []KnownUntilOld
<1>1. ProxyIInv => KnownUntilOld
  BY DEF ProxyIInv, Registered, KnownUntilOld, In
<1> QED
  BY <1>1, ProxyInitIInv, ProxyStepIInv, PTL DEF ProxySpec
-----------------------------------------------------------------------------
(* The types of a driver's variables, with how many nonces are under way:    *)
(* n of them are in the answer of a read, of which mailbox q has one at most. *)
Reads(q, n) ==
  \/ n = 0 /\ None(q, "ReadDone")
  \/ \E h \in 1..Len(q) :
       /\ q[h].kind = "ReadDone" /\ q[h].val = n
       /\ \A i \in 1..Len(q) : i # h => q[i].kind # "ReadDone"

(* Reading goes on, or ended with that answer, and no more nonces are stale  *)
(* than there are.                                                           *)
Reading(q) ==
  \E n \in Nat :
    /\ Reads(q, n)
    /\ None(q, "ReadDone") \/ readingInterface
    /\ up => stale \in 0..(line + n + buffer)

(* Nothing is sent, found or submitted before there is a job. *)
Workless(q) == None(q, "Nonce") /\ None(q, "Job")
NothingBeforeJob(q) ==
  miningJob = NoJob => lastJob = NoWork /\ pending = <<>> /\ Workless(q)

OtherTypes ==
  /\ target \in 0..MaxDiff /\ up \in BOOLEAN /\ timer \in BOOLEAN
  /\ pending \in Seq(Nonce) /\ shares \in Seq(Share)
  /\ cancelDue \in BOOLEAN /\ writing \in BOOLEAN
  /\ readingInterface \in BOOLEAN /\ buffer \in Nat

Typed == OtherTypes /\ Reading(inbox) /\ NothingBeforeJob(inbox)

TypedIInv == SerialIInv /\ Typed /\ missed \in BOOLEAN

LEMMA InitTyped == SerialInit => TypedIInv
<1> SUFFICES ASSUME SerialInit PROVE TypedIInv
  OBVIOUS
<1>1. SerialIInv /\ BaseTypeOK
  BY SerialInitIInv, BaseInitOK DEF SerialInit
<1>2. OtherTypes
  BY <1>1 DEF SerialInit, BaseTypeOK, OtherTypes
<1>3. inbox = <<>> /\ None(<<>>, "ReadDone") /\ None(<<>>, "Nonce") /\ None(<<>>, "Job")
  BY EndsEmpty DEF SerialInit
<1>4. Reading(inbox)
  <2>1. Reads(inbox, 0) /\ None(inbox, "ReadDone")
    BY <1>3 DEF Reads
  <2>2. stale \in 0..(line + 0 + buffer)
    BY DEF SerialInit
  <2> QED
    BY <2>1, <2>2 DEF Reading
<1>5. NothingBeforeJob(inbox)
  BY <1>3 DEF SerialInit, BaseInit, NothingBeforeJob, Workless
<1>6. missed \in BOOLEAN
  BY DEF SerialInit
<1> QED
  BY <1>1, <1>2, <1>4, <1>5, <1>6 DEF TypedIInv, Typed

LEMMA ArrivedIs ==
  ASSUME inbox \in Seq(SerialMessage), NEW n, Reads(inbox, n)
  PROVE  Arrived = n
<1>1. DOMAIN inbox = 1..Len(inbox)
  OBVIOUS
<1>2. CASE n = 0 /\ None(inbox, "ReadDone")
  BY <1>1, <1>2 DEF Arrived, Waiting, None
<1>3. ASSUME NEW h \in 1..Len(inbox), inbox[h].kind = "ReadDone", inbox[h].val = n,
             \A i \in 1..Len(inbox) : i # h => inbox[i].kind # "ReadDone"
      PROVE  Arrived = n
  <2>1. Waiting("ReadDone")
    BY <1>1, <1>3 DEF Waiting
  <2>2. (CHOOSE i \in DOMAIN inbox : inbox[i].kind = "ReadDone") = h
    BY <1>1, <1>3
  <2> QED
    BY <1>3, <2>1, <2>2 DEF Arrived
<1> QED
  BY <1>2, <1>3 DEF Reads

LEMMA TypedTypes == TypedIInv => SerialTypeOK
<1> SUFFICES ASSUME TypedIInv PROVE SerialTypeOK
  OBVIOUS
<1>1. inbox \in Seq(SerialMessage) /\ DOMAIN inbox = 1..Len(inbox)
  BY DEF TypedIInv, Typed, SerialIInv, MailFine
<1>2. PICK n \in Nat :
        /\ Reads(inbox, n)
        /\ None(inbox, "ReadDone") \/ readingInterface
        /\ up => stale \in 0..(line + n + buffer)
  BY DEF TypedIInv, Typed, Reading
<1>3. Waiting("ReadDone") => readingInterface
  BY <1>1, <1>2 DEF Waiting, None
<1>4. up => stale \in 0..UnderWay
  BY <1>1, <1>2, ArrivedIs DEF UnderWay
<1>5. BaseTypeOK
  BY DEF TypedIInv, Typed, SerialIInv, SerialTypes, OtherTypes, BaseTypeOK
<1> QED
  BY <1>1, <1>3, <1>4, <1>5 DEF TypedIInv, Typed, SerialIInv, SerialTypes, OtherTypes, SerialTypeOK,
                                StashMessage
-----------------------------------------------------------------------------
(* The answer of a read in a mailbox that changes. *)

LEMMA ReadsNone ==
  ASSUME NEW q, NEW n, Reads(q, n), None(q, "ReadDone")
  PROVE  n = 0
BY DEF Reads, None

LEMMA ReadsTail ==
  ASSUME NEW S, NEW q \in Seq(S), q # <<>>, NEW n, Reads(q, n)
  PROVE  IF Head(q).kind = "ReadDone" THEN n = Head(q).val /\ None(Tail(q), "ReadDone")
         ELSE Reads(Tail(q), n)
<1> DEFINE p == Tail(q)
<1>1. /\ Head(q) = q[1] /\ Len(q) \in Nat /\ 1 \in 1..Len(q) /\ Len(p) = Len(q) - 1
      /\ \A i \in 1..Len(p) : p[i] = q[i + 1] /\ i + 1 \in 1..Len(q)
      /\ \A i \in 1..Len(q) : i # 1 => i - 1 \in 1..Len(p) /\ p[i - 1] = q[i]
  BY Taken
<1>2. CASE n = 0 /\ None(q, "ReadDone")
  BY <1>2, NoneTail DEF Reads
<1>3. ASSUME NEW h \in 1..Len(q), q[h].kind = "ReadDone", q[h].val = n,
             \A i \in 1..Len(q) : i # h => q[i].kind # "ReadDone"
      PROVE  IF Head(q).kind = "ReadDone" THEN n = Head(q).val /\ None(p, "ReadDone")
             ELSE Reads(p, n)
  <2> HIDE DEF p
  <2>1. CASE h = 1
    <3>1. \A i \in 1..Len(p) : p[i].kind # "ReadDone"
      BY <1>1, <1>3, <2>1
    <3> QED
      BY <1>1, <1>3, <2>1, <3>1 DEF None
  <2>2. CASE h # 1
    <3>1. /\ h - 1 \in 1..Len(p) /\ p[h - 1].kind = "ReadDone" /\ p[h - 1].val = n
          /\ Head(q).kind # "ReadDone"
      BY <1>1, <1>3, <2>2
    <3>2. \A i \in 1..Len(p) : i # h - 1 => p[i].kind # "ReadDone"
      BY <1>1, <1>3
    <3>3. Reads(p, n)
      BY <3>1, <3>2 DEF Reads
    <3> QED
      BY <3>1, <3>3
  <2> QED
    BY <2>1, <2>2
<1> QED
  BY <1>2, <1>3 DEF Reads

LEMMA ReadsBoth ==
  ASSUME NEW S, NEW q \in Seq(S), NEW r \in Seq(S), NEW n,
         \/ Reads(q, n) /\ None(r, "ReadDone")
         \/ None(q, "ReadDone") /\ Reads(r, n)
  PROVE  Reads(q \o r, n)
<1> DEFINE p == q \o r
<1>1. /\ Len(q) \in Nat /\ Len(r) \in Nat /\ Len(p) = Len(q) + Len(r)
      /\ \A i \in 1..Len(q) : p[i] = q[i] /\ i \in 1..Len(p)
      /\ \A i \in 1..Len(r) : p[Len(q) + i] = r[i] /\ Len(q) + i \in 1..Len(p)
      /\ \A i \in 1..Len(p) : i \in 1..Len(q) \/ (i - Len(q) \in 1..Len(r) /\ p[i] = r[i - Len(q)])
  OBVIOUS
<1>2. CASE n = 0 /\ None(q, "ReadDone") /\ None(r, "ReadDone")
  BY <1>2, NoneBoth DEF Reads
<1> HIDE DEF p
<1>3. ASSUME NEW h \in 1..Len(q), q[h].kind = "ReadDone", q[h].val = n,
             \A i \in 1..Len(q) : i # h => q[i].kind # "ReadDone", None(r, "ReadDone")
      PROVE  Reads(p, n)
  <2>1. h \in 1..Len(p) /\ p[h].kind = "ReadDone" /\ p[h].val = n
    BY <1>1, <1>3
  <2>2. \A i \in 1..Len(p) : i # h => p[i].kind # "ReadDone"
    BY <1>1, <1>3 DEF None
  <2> QED
    BY <2>1, <2>2 DEF Reads
<1>4. ASSUME NEW h \in 1..Len(r), r[h].kind = "ReadDone", r[h].val = n,
             \A i \in 1..Len(r) : i # h => r[i].kind # "ReadDone", None(q, "ReadDone")
      PROVE  Reads(p, n)
  <2>1. Len(q) + h \in 1..Len(p) /\ p[Len(q) + h].kind = "ReadDone" /\ p[Len(q) + h].val = n
    BY <1>1, <1>4
  <2>2. ASSUME NEW i \in 1..Len(p), i # Len(q) + h
        PROVE  p[i].kind # "ReadDone"
    <3>1. CASE i \in 1..Len(q)
      BY <1>1, <1>4, <3>1 DEF None
    <3>2. CASE i - Len(q) \in 1..Len(r) /\ p[i] = r[i - Len(q)]
      <4>1. i - Len(q) # h
        BY <1>1, <2>2
      <4> QED
        BY <1>4, <3>2, <4>1
    <3> QED
      BY <1>1, <3>1, <3>2
  <2> QED
    BY <2>1, <2>2 DEF Reads
<1> QED
  BY <1>2, <1>3, <1>4 DEF Reads, p
-----------------------------------------------------------------------------
(* Steps on the mailbox: the answer of a read stays in q as it is in inbox.  *)
Kept(q) ==
  /\ q \in Seq(SerialMessage)
  /\ None(inbox, "ReadDone") => None(q, "ReadDone")
  /\ \A n \in Nat : Reads(inbox, n) => Reads(q, n)
  /\ miningJob = NoJob => Workless(q)

LEMMA KeptSame == TypedIInv => Kept(inbox)
BY DEF TypedIInv, Typed, SerialIInv, MailFine, NothingBeforeJob, Kept

LEMMA KeptTail ==
  ASSUME TypedIInv, inbox # <<>>, Head(inbox).kind # "ReadDone"
  PROVE  Kept(Tail(inbox)) /\ Head(inbox) \in SerialMessage
<1>1. inbox \in Seq(SerialMessage)
  BY DEF TypedIInv, Typed, SerialIInv, MailFine
<1>2. Tail(inbox) \in Seq(SerialMessage) /\ Head(inbox) \in SerialMessage
  BY <1>1, Taken
<1>3. \A k : None(inbox, k) => None(Tail(inbox), k)
  BY <1>1, NoneTail
<1>4. \A n \in Nat : Reads(inbox, n) => Reads(Tail(inbox), n)
  BY <1>1, ReadsTail
<1> QED
  BY <1>2, <1>3, <1>4 DEF TypedIInv, Typed, NothingBeforeJob, Kept, Workless

LEMMA KeptAdd ==
  ASSUME NEW q, Kept(q), NEW r \in Seq(SerialMessage), None(r, "ReadDone"),
         miningJob = NoJob => Workless(r)
  PROVE  Kept(q \o r) /\ Kept(r \o q)
<1>1. q \in Seq(SerialMessage) /\ q \o r \in Seq(SerialMessage) /\ r \o q \in Seq(SerialMessage)
  BY DEF Kept
<1>2. ASSUME NEW n \in Nat, Reads(inbox, n)
      PROVE  Reads(q \o r, n) /\ Reads(r \o q, n)
  <2>1. Reads(q, n)
    BY <1>2 DEF Kept
  <2> QED
    BY <1>1, <2>1, ReadsBoth
<1>3. \A k : None(q, k) /\ None(r, k) => None(q \o r, k) /\ None(r \o q, k)
  BY <1>1, NoneBoth
<1> QED
  BY <1>1, <1>2, <1>3 DEF Kept, Workless

LEMMA KeptOne ==
  ASSUME NEW q, Kept(q), NEW x \in SerialMessage, x.kind # "ReadDone",
         x.kind \in {"Nonce", "Job"} => miningJob # NoJob
  PROVE  Kept(q \o <<x>>) /\ Append(q, x) = q \o <<x>>
<1>1. <<x>> \in Seq(SerialMessage) /\ None(<<x>>, "ReadDone")
  BY NoneOne
<1>2. miningJob = NoJob => Workless(<<x>>)
  BY NoneOne DEF Workless
<1>3. Append(q, x) = q \o <<x>>
  BY DEF Kept
<1> QED
  BY <1>1, <1>2, <1>3, KeptAdd

LEMMA KeptStep ==
  ASSUME TypedIInv, NEW q, inbox' = q, Kept(q), OtherTypes', up' => up,
         readingInterface => readingInterface',
         \A n \in Nat : Reads(inbox, n) /\ stale \in 0..(line + n + buffer) =>
                          stale' \in 0..(line' + n + buffer'),
         miningJob' = NoJob =>
           miningJob = NoJob /\ lastJob' = lastJob /\ (pending = <<>> => pending' = <<>>)
  PROVE  Typed'
<1>1. PICK n \in Nat :
        /\ Reads(inbox, n)
        /\ None(inbox, "ReadDone") \/ readingInterface
        /\ up => stale \in 0..(line + n + buffer)
  BY DEF TypedIInv, Typed, Reading
<1>2. Reads(q, n) /\ (None(q, "ReadDone") \/ readingInterface')
      /\ (up' => stale' \in 0..(line' + n + buffer'))
  BY <1>1 DEF Kept
<1>3. Reading(inbox)'
  BY <1>2 DEF Reading
<1>4. NothingBeforeJob(inbox)'
  BY DEF TypedIInv, Typed, NothingBeforeJob, Kept
<1> QED
  BY <1>3, <1>4 DEF Typed

(* The same when no nonce moves. *)
LEMMA StillStep ==
  ASSUME TypedIInv, NEW q, inbox' = q, Kept(q), OtherTypes', up' => up,
         UNCHANGED <<line, buffer, stale>>, readingInterface => readingInterface',
         miningJob' = NoJob =>
           miningJob = NoJob /\ lastJob' = lastJob /\ (pending = <<>> => pending' = <<>>)
  PROVE  Typed'
<1>1. \A n \in Nat : stale \in 0..(line + n + buffer) => stale' \in 0..(line' + n + buffer')
  OBVIOUS
<1> QED
  BY <1>1, KeptStep
-----------------------------------------------------------------------------
(* The pool, and what else goes on around the driver. *)

LEMMA AroundTyped ==
  ASSUME TypedIInv, PoolChanges \/ Around, UNCHANGED serialVars
  PROVE  Typed'
<1>1. UNCHANGED <<cancelDue, writing, lastJob, line, readingInterface, buffer, stale>>
  BY DEF serialVars, startVars, workVars, readVars
<1>2. CASE PoolChanges \/ PoolSubscribe \/ PoolForgets
  <2>1. UNCHANGED <<inbox, target, miningJob, timer, up, pending, shares>>
    BY <1>2 DEF PoolChanges, PoolOffer, PoolSwitch, PoolSubscribe, PoolForgets, minerVars, shareVars
  <2>2. OtherTypes'
    BY <1>1, <2>1 DEF TypedIInv, Typed, OtherTypes
  <2> QED
    BY <1>1, <2>1, <2>2, KeptSame, StillStep
<1>3. CASE ForwardShare \/ \E i \in DOMAIN pending : SubmitNonce(i)
  <2>1. UNCHANGED <<inbox, target, miningJob, timer, up>>
    BY <1>3 DEF ForwardShare, SubmitNonce, minerVars
  <2>2. /\ pending \in Seq(Nonce) /\ shares \in Seq(Share) /\ miningJob \in Job \cup {NoJob}
        /\ pending # <<>> => miningJob # NoJob
    BY DEF TypedIInv, Typed, OtherTypes, NothingBeforeJob, SerialIInv, SerialTypes
  <2>3. pending' \in Seq(Nonce) /\ shares' \in Seq(Share) /\ (pending = <<>> => pending' = <<>>)
    BY <1>3, <2>2, SharesOK
  <2>4. OtherTypes'
    BY <1>1, <2>1, <2>3 DEF TypedIInv, Typed, OtherTypes
  <2> QED
    BY <1>1, <2>1, <2>3, <2>4, KeptSame, StillStep
<1>4. CASE Deliver \/ WorkTimeout
  <2>1. PICK msg \in Letter \cup {Msg("WorkTimeout", 0)} : inbox' = Append(inbox, msg)
    BY <1>4, Taken DEF Deliver, WorkTimeout, TypedIInv, SerialIInv, SerialTypes
  <2>2. msg \in SerialMessage /\ msg.kind \notin {"ReadDone", "Nonce", "Job"}
    BY <2>1 DEF SerialMessage, Letter, Msg
  <2>3. Kept(inbox \o <<msg>>) /\ inbox' = inbox \o <<msg>>
    BY <2>1, <2>2, KeptSame, KeptOne
  <2>4. UNCHANGED <<target, miningJob, up, pending, shares>> /\ timer' \in BOOLEAN
    BY <1>4 DEF Deliver, WorkTimeout, minerVars, shareVars, TypedIInv, Typed, OtherTypes
  <2>5. OtherTypes'
    BY <1>1, <2>4 DEF TypedIInv, Typed, OtherTypes
  <2> QED
    BY <1>1, <2>3, <2>4, <2>5, StillStep
<1> QED
  BY <1>2, <1>3, <1>4 DEF Around

LEMMA StopsTyped ==
  ASSUME TypedIInv, Stops, UNCHANGED serialVars
  PROVE  Typed'
<1>1. /\ up' = FALSE /\ inbox' = <<>> /\ timer' = FALSE
      /\ UNCHANGED <<target, miningJob, pending, shares, lastJob>>
      /\ UNCHANGED <<cancelDue, writing, readingInterface, buffer>>
  BY DEF Stops, shareVars, serialVars, startVars, workVars, readVars
<1>2. OtherTypes'
  BY <1>1 DEF TypedIInv, Typed, OtherTypes
<1>3. Workless(inbox') /\ None(inbox', "ReadDone") /\ Reads(inbox', 0)
  BY <1>1, EndsEmpty DEF Workless, Reads
<1>4. Reading(inbox)'
  BY <1>1, <1>3 DEF Reading
<1>5. NothingBeforeJob(inbox)'
  BY <1>1, <1>3 DEF TypedIInv, Typed, NothingBeforeJob
<1> QED
  BY <1>2, <1>4, <1>5 DEF Typed

(* What a handler or a timer puts into the mailbox. *)
LEMMA KeptSelf ==
  ASSUME NEW q, Kept(q), NEW k \in {"CancelWork", "StartWork", "BufferUpdated"}
  PROVE  Kept(q \o ToSelf(k)) /\ Append(q, Msg(k, 0)) = q \o ToSelf(k)
<1>1. Msg(k, 0) \in SerialMessage /\ Msg(k, 0).kind = k /\ ToSelf(k) = <<Msg(k, 0)>>
  BY SelfMessages
<1> QED
  BY <1>1, KeptOne

LEMMA KeptStash ==
  ASSUME TypedIInv, NEW q, Kept(q)
  PROVE  Kept(stash \o q)
<1>1. stash \in Seq(SerialMessage) /\ Direct(stash)
  BY StashIsMail DEF TypedIInv, SerialIInv, SerialTypes
<1>2. \A i \in 1..Len(stash) : stash[i] \in StashMessage
  BY DEF TypedIInv, SerialIInv, SerialTypes
<1>3. None(stash, "ReadDone") /\ Workless(stash)
  BY <1>2 DEF StashMessage, None, Workless
<1> QED
  BY <1>1, <1>3, KeptAdd

LEMMA KeptFound ==
  ASSUME TypedIInv, NEW q, Kept(q)
  PROVE  Kept(q \o Found)
<1>1. CASE lastJob = NoWork
  <2>1. Found = <<>> /\ <<>> \in Seq(SerialMessage)
    BY <1>1 DEF Found
  <2> QED
    BY <2>1, EndsEmpty, KeptAdd DEF Workless
<1>2. CASE lastJob # NoWork
  <2> DEFINE x == Msg("Nonce", [work |-> lastJob, solves |-> stale = 0])
  <2>1. [work |-> lastJob, solves |-> stale = 0] \in Nonce
    BY <1>2 DEF TypedIInv, SerialIInv, SerialTypes, Nonce
  <2>2. x \in SerialMessage /\ x.kind = "Nonce"
    BY <2>1 DEF SerialMessage, Msg
  <2>3. Found = <<x>> /\ miningJob # NoJob
    BY <1>2 DEF Found, TypedIInv, Typed, NothingBeforeJob
  <2> HIDE DEF x
  <2> QED
    BY <2>2, <2>3, KeptOne
<1> QED
  BY <1>1, <1>2
-----------------------------------------------------------------------------
(* The handlers that all miners have. *)

LEMMA WorkReceiveTyped ==
  ASSUME TypedIInv, inbox # <<>>, WorkReceive(Head(inbox), Tail(inbox)), UNCHANGED serialVars
  PROVE  Typed'
<1> DEFINE msg == Head(inbox)
           rest == Tail(inbox)
<1>1. UNCHANGED <<cancelDue, writing, lastJob, line, readingInterface, buffer, stale>>
  BY DEF serialVars, startVars, workVars, readVars
<1>2. msg.kind # "ReadDone" => Kept(rest) /\ msg \in SerialMessage
  BY KeptTail
<1>3. /\ OtherTypes
      /\ miningJob = NoJob => Workless(inbox)
      /\ inbox \in Seq(SerialMessage)
  BY DEF TypedIInv, Typed, NothingBeforeJob, SerialIInv, MailFine
<1>4. CASE TakeExtraNonce(msg, rest) \/ TakeMiningJob(msg, rest)
  <2>1. /\ inbox' = Append(rest, Msg("CancelWork", 0)) /\ msg.kind \in {"ExtraNonce", "MiningJob"}
        /\ UNCHANGED <<target, timer, up, pending, shares>>
        /\ miningJob' = miningJob \/ (msg.kind = "MiningJob" /\ miningJob' = msg.val)
    BY <1>4 DEF TakeExtraNonce, TakeMiningJob, shareVars
  <2>2. Kept(rest) /\ msg \in SerialMessage
    BY <1>2, <2>1
  <2>3. miningJob' = NoJob => miningJob = NoJob
    BY <2>1, <2>2, Nothings DEF SerialMessage, Letter
  <2>4. OtherTypes'
    BY <1>1, <1>3, <2>1 DEF OtherTypes
  <2>5. inbox' = rest \o ToSelf("CancelWork") /\ Kept(rest \o ToSelf("CancelWork"))
    BY <2>1, <2>2, KeptSelf
  <2> HIDE DEF rest, msg
  <2> QED
    BY <1>1, <2>1, <2>3, <2>4, <2>5, StillStep
<1>5. CASE TakeDifficulty(msg, rest)
  <2>1. /\ inbox' = rest /\ msg.kind = "Difficulty" /\ target' = msg.val
        /\ UNCHANGED <<miningJob, timer, up, pending, shares>>
    BY <1>5 DEF TakeDifficulty, shareVars
  <2>2. Kept(rest) /\ msg \in SerialMessage
    BY <1>2, <2>1
  <2>3. target' \in 0..MaxDiff
    <3>1. msg.val \in 1..MaxDiff
      BY <2>1, <2>2 DEF SerialMessage, Letter
    <3> QED
      BY <2>1, <3>1, MinerAssumption
  <2>4. OtherTypes'
    BY <1>1, <1>3, <2>1, <2>3 DEF OtherTypes
  <2> HIDE DEF rest, msg
  <2> QED
    BY <1>1, <2>1, <2>2, <2>4, StillStep
<1>6. CASE TakeNonce(msg, rest)
  <2>1. /\ inbox' = rest /\ msg.kind = "Nonce" /\ pending' = Append(pending, msg.val) /\ timer' = TRUE
        /\ UNCHANGED <<target, miningJob, up, shares>>
    BY <1>6 DEF TakeNonce
  <2>2. Kept(rest) /\ msg \in SerialMessage
    BY <1>2, <2>1
  <2>3. miningJob # NoJob
    BY <1>3, <2>1, NoneTail DEF Workless
  <2>4. pending' \in Seq(Nonce)
    <3>1. msg.val \in Nonce
      BY <2>1, <2>2 DEF SerialMessage, Letter
    <3> QED
      BY <1>3, <2>1, <3>1, Put DEF OtherTypes
  <2>5. OtherTypes'
    BY <1>1, <1>3, <2>1, <2>4 DEF OtherTypes
  <2> HIDE DEF rest, msg
  <2> QED
    BY <1>1, <2>1, <2>2, <2>3, <2>5, StillStep
<1>7. CASE TakeWorkTimeout(msg, rest)
  BY <1>7, StopsTyped DEF TakeWorkTimeout
<1> QED
  BY <1>4, <1>5, <1>6, <1>7 DEF WorkReceive
-----------------------------------------------------------------------------
(* The handlers of the drivers. *)

(* Those that move no nonce. *)
LEMMA WorkTyped ==
  ASSUME TypedIInv, inbox # <<>>,
         \/ Stashes(Head(inbox), Tail(inbox)) \/ StartWork(Head(inbox), Tail(inbox))
         \/ StartWorkUnhandled(Head(inbox), Tail(inbox)) \/ NothingBuffered(Head(inbox), Tail(inbox))
  PROVE  Typed'
<1> DEFINE msg == Head(inbox)
           rest == Tail(inbox)
<1>1. /\ msg.kind \in {"CancelWork", "BufferUpdated", "StartWork"}
      /\ UNCHANGED <<target, miningJob, timer, up, pending, shares, cancelDue, lastJob, writing>>
      /\ UNCHANGED <<line, buffer, stale>>
      /\ readingInterface \in BOOLEAN => readingInterface' \in BOOLEAN
      /\ readingInterface => readingInterface'
  <2>1. CASE Stashes(msg, rest) \/ StartWorkUnhandled(msg, rest)
    BY <2>1 DEF Stashes, StartWorkUnhandled, minerVars, shareVars, startVars, workVars, readVars
  <2>2. CASE StartWork(msg, rest)
    BY <2>2 DEF StartWork, minerVars, shareVars, startVars, workVars
  <2>3. CASE NothingBuffered(msg, rest)
    BY <2>3 DEF NothingBuffered, minerVars, shareVars, startVars, workVars
  <2> QED
    BY <2>1, <2>2, <2>3
<1>2. Kept(rest)
  BY <1>1, KeptTail
<1>3. OtherTypes'
  BY <1>1 DEF TypedIInv, Typed, OtherTypes
<1>4. inbox' = rest \/ (HasWork /\ inbox' = Append(rest, Msg("Job", BuiltWork)))
  BY DEF Stashes, StartWork, StartWorkUnhandled, NothingBuffered
<1>5. HasWork => Kept(Append(rest, Msg("Job", BuiltWork)))
  <2> SUFFICES ASSUME HasWork PROVE Kept(Append(rest, Msg("Job", BuiltWork)))
    OBVIOUS
  <2>1. BuiltWork \in Work /\ miningJob # NoJob
    BY Built DEF TypedIInv, SerialIInv, HasWork
  <2>2. Msg("Job", BuiltWork) \in SerialMessage /\ Msg("Job", BuiltWork).kind = "Job"
    BY <2>1 DEF Msg, SerialMessage
  <2> QED
    BY <1>2, <2>1, <2>2, KeptOne
<1>6. Kept(inbox')
  BY <1>2, <1>4, <1>5
<1> HIDE DEF rest, msg
<1> QED
  BY <1>1, <1>3, <1>6, StillStep

(* A work is sent: of all that is under way, nothing is of it. *)
LEMMA UnderWayIs ==
  ASSUME TypedIInv, NEW n \in Nat, Reads(inbox, n)
  PROVE  UnderWay = line + n + buffer
<1>1. Arrived = n
  BY ArrivedIs DEF TypedIInv, SerialIInv, MailFine
<1> QED
  BY <1>1 DEF UnderWay

LEMMA CancelTyped ==
  ASSUME TypedIInv, inbox # <<>>, up, CancelWork(Head(inbox), Tail(inbox))
  PROVE  Typed'
<1> DEFINE msg == Head(inbox)
           rest == Tail(inbox)
<1>1. /\ msg.kind = "CancelWork"
      /\ UNCHANGED <<target, miningJob, timer, up, pending, shares, cancelDue, line, buffer>>
  BY DEF CancelWork, minerVars, shareVars, startVars
<1>2. Kept(rest)
  BY <1>1, KeptTail
<1>3. CASE ~ IsGridSeed
  <2>1. /\ inbox' = rest \o ToSelf("StartWork")
        /\ UNCHANGED <<lastJob, writing, readingInterface, stale>>
    BY <1>3 DEF CancelWork, workVars
  <2>2. Kept(rest \o ToSelf("StartWork"))
    BY <1>2, KeptSelf
  <2>3. OtherTypes'
    BY <1>1, <2>1 DEF TypedIInv, Typed, OtherTypes
  <2> HIDE DEF rest, msg
  <2> QED
    BY <1>1, <2>1, <2>2, <2>3, StillStep
<1>4. CASE IsGridSeed
  <2>1. /\ inbox' = rest
        /\ \/ HasWork /\ stale' = UnderWay /\ writing' = TRUE /\ readingInterface' = TRUE
           \/ ~ HasWork /\ UNCHANGED <<stale, lastJob, writing, readingInterface>>
    BY <1>4 DEF CancelWork, GridSeedSendWork, Sent, workVars
  <2>2. OtherTypes'
    BY <1>1, <2>1 DEF TypedIInv, Typed, OtherTypes
  <2>3. miningJob' = NoJob => miningJob = NoJob /\ lastJob' = lastJob
    BY <1>1, <2>1 DEF HasWork
  <2>4. readingInterface => readingInterface'
    BY <2>1
  <2>5. ASSUME NEW n \in Nat, Reads(inbox, n), stale \in 0..(line + n + buffer)
        PROVE  stale' \in 0..(line' + n + buffer')
    BY <1>1, <2>1, <2>5, UnderWayIs DEF TypedIInv, Typed, OtherTypes, SerialIInv, SerialTypes
  <2> HIDE DEF rest, msg
  <2> QED
    BY <1>1, <1>2, <2>1, <2>2, <2>3, <2>4, <2>5, KeptStep
<1> QED
  BY <1>3, <1>4

LEMMA SendJobTyped ==
  ASSUME TypedIInv, inbox # <<>>, up, SendJob(Head(inbox), Tail(inbox))
  PROVE  Typed'
<1>1. /\ Head(inbox).kind = "Job" /\ inbox' = Tail(inbox)
      /\ UNCHANGED <<target, miningJob, timer, up, pending, shares, cancelDue, line, buffer>>
      /\ stale' = UnderWay /\ writing' = TRUE
      /\ readingInterface \in BOOLEAN => readingInterface' \in BOOLEAN
      /\ readingInterface => readingInterface'
  BY DEF SendJob, Sent, minerVars, shareVars, startVars
<1>2. Kept(Tail(inbox))
  BY <1>1, KeptTail
<1>3. OtherTypes'
  BY <1>1 DEF TypedIInv, Typed, OtherTypes
<1>4. miningJob # NoJob
  BY <1>1, NoneTail DEF TypedIInv, Typed, NothingBeforeJob, Workless, SerialIInv, MailFine
<1>5. ASSUME NEW n \in Nat, Reads(inbox, n), stale \in 0..(line + n + buffer)
      PROVE  stale' \in 0..(line' + n + buffer')
  BY <1>1, <1>5, UnderWayIs DEF TypedIInv, Typed, OtherTypes, SerialIInv, SerialTypes
<1> QED
  BY <1>1, <1>2, <1>3, <1>4, <1>5, KeptStep

(* The answer of a read goes into the buffer; then there is no other.        *)
LEMMA ReadDoneTyped ==
  ASSUME TypedIInv, inbox # <<>>, up, ReadDone(Head(inbox), Tail(inbox))
  PROVE  Typed'
<1> DEFINE msg == Head(inbox)
           rest == Tail(inbox)
<1>1. /\ msg.kind = "ReadDone" /\ buffer' = buffer + msg.val
      /\ inbox' = rest \/ inbox' = rest \o ToSelf("BufferUpdated")
      /\ UNCHANGED <<target, miningJob, timer, up, pending, shares, cancelDue>>
      /\ UNCHANGED <<line, stale, lastJob, writing>> /\ readingInterface' = AutoRead
  BY DEF ReadDone, minerVars, shareVars, startVars, workVars
<1>2. PICK n \in Nat :
        /\ Reads(inbox, n)
        /\ None(inbox, "ReadDone") \/ readingInterface
        /\ up => stale \in 0..(line + n + buffer)
  BY DEF TypedIInv, Typed, Reading
<1>3. inbox \in Seq(SerialMessage) /\ rest \in Seq(SerialMessage) /\ msg \in SerialMessage
  BY Taken DEF TypedIInv, SerialIInv, MailFine
<1>4. msg.val = n /\ None(rest, "ReadDone")
  BY <1>1, <1>2, <1>3, ReadsTail
<1>5. OtherTypes'
  BY <1>1, <1>4 DEF TypedIInv, Typed, OtherTypes, AutoRead
<1>6. /\ None(inbox', "ReadDone")
      /\ \A k \in {"Nonce", "Job"} : None(rest, k) => None(inbox', k)
  <2>1. /\ ToSelf("BufferUpdated") \in Seq(SerialMessage)
        /\ \A k \in {"ReadDone", "Nonce", "Job"} : None(ToSelf("BufferUpdated"), k)
    BY SelfMessages, NoneOne
  <2>2. \A k \in {"ReadDone", "Nonce", "Job"} :
          None(rest, k) => None(rest \o ToSelf("BufferUpdated"), k)
    BY <1>3, <2>1, NoneBoth
  <2> QED
    BY <1>1, <1>4, <2>2
<1>7. Reading(inbox)'
  <2>1. Reads(inbox', 0)
    BY <1>6 DEF Reads
  <2>2. up' => stale' \in 0..(line' + 0 + buffer')
    BY <1>1, <1>2, <1>4 DEF TypedIInv, Typed, OtherTypes, SerialIInv, SerialTypes
  <2> QED
    BY <1>6, <2>1, <2>2 DEF Reading
<1>8. NothingBeforeJob(inbox)'
  <2>1. Workless(inbox) => Workless(rest)
    BY <1>3, NoneTail DEF Workless
  <2>2. Workless(rest) => Workless(inbox')
    BY <1>6 DEF Workless
  <2> HIDE DEF rest
  <2> QED
    BY <1>1, <2>1, <2>2 DEF TypedIInv, Typed, NothingBeforeJob
<1> QED
  BY <1>5, <1>7, <1>8 DEF Typed

(* Nonces leave the buffer, stale ones first. *)
LEMMA LessStale ==
  ASSUME NEW l \in Nat, NEW n \in Nat, NEW b \in Nat, NEW k \in 0..b, NEW s \in 0..(l + n + b)
  PROVE  Less(s, k) \in 0..(l + n + (b - k)) /\ b - k \in Nat
BY DEF Less

LEMMA DetectTyped ==
  ASSUME TypedIInv, inbox # <<>>, up,
         GoldenNonce(Head(inbox), Tail(inbox)) \/ FirmwareVersion(Head(inbox), Tail(inbox))
  PROVE  Typed'
<1> DEFINE msg == Head(inbox)
           rest == Tail(inbox)
           told1 == rest \o ToSelf("BufferUpdated")
           told2 == (stash \o rest) \o ToSelf("BufferUpdated")
<1>1. /\ msg.kind = "BufferUpdated" /\ buffer > 0 /\ buffer \in Nat /\ line \in Nat
      /\ UNCHANGED <<target, miningJob, timer, up, pending, shares, cancelDue, lastJob, writing, line>>
  BY DEF GoldenNonce, FirmwareVersion, minerVars, shareVars, workVars, TypedIInv, Typed, OtherTypes,
         SerialIInv, SerialTypes
<1>2. PICK k \in 0..buffer : buffer' = buffer - k /\ stale' = Less(stale, k)
  <2>1. CASE GoldenNonce(msg, rest)
    <3>1. (IF driver = "Icarus" THEN buffer ELSE 1) \in 0..buffer
      BY <1>1
    <3> QED
      BY <2>1, <3>1 DEF GoldenNonce
  <2>2. CASE FirmwareVersion(msg, rest)
    BY <1>1, <2>2 DEF FirmwareVersion
  <2> QED
    BY <2>1, <2>2
<1>3. /\ readingInterface \in BOOLEAN => readingInterface' \in BOOLEAN
      /\ readingInterface => readingInterface'
  <2>1. CASE GoldenNonce(msg, rest)
    BY <2>1 DEF GoldenNonce
  <2>2. CASE FirmwareVersion(msg, rest)
    BY <2>2 DEF FirmwareVersion
  <2> QED
    BY <2>1, <2>2
<1>4. Kept(told1) /\ Kept(told2) /\ Kept(told2 \o ToSelf("StartWork")) /\ Kept(told2 \o <<>>)
  <2>1. Kept(rest)
    BY <1>1, KeptTail
  <2>2. Kept(stash \o rest)
    BY <2>1, KeptStash
  <2>3. Kept(told1) /\ Kept(told2)
    BY <2>1, <2>2, KeptSelf
  <2>4. <<>> \in Seq(SerialMessage) /\ None(<<>>, "ReadDone") /\ Workless(<<>>)
    BY EndsEmpty DEF Workless
  <2> HIDE DEF told1, told2
  <2> QED
    BY <2>3, <2>4, KeptSelf, KeptAdd
<1>5. Kept(inbox')
  <2>1. CASE GoldenNonce(msg, rest)
    <3>1. inbox' = told2 \o ToSelf("StartWork") \/ inbox' = told2 \o <<>>
      BY <2>1 DEF GoldenNonce
    <3> HIDE DEF told2
    <3> QED
      BY <1>4, <3>1
  <2>2. CASE FirmwareVersion(msg, rest)
    BY <1>4, <2>2 DEF FirmwareVersion
  <2> QED
    BY <2>1, <2>2
<1> HIDE DEF msg, rest, told1, told2
<1>6. buffer' \in Nat
  BY <1>1, <1>2
<1>7. OtherTypes'
  BY <1>1, <1>3, <1>6 DEF TypedIInv, Typed, OtherTypes
<1>8. ASSUME NEW n \in Nat, Reads(inbox, n), stale \in 0..(line + n + buffer)
      PROVE  stale' \in 0..(line' + n + buffer')
  BY <1>1, <1>2, <1>8, LessStale
<1> QED
  BY <1>1, <1>3, <1>5, <1>7, <1>8, KeptStep

(* A nonce is read, and its work, if there is one, goes with it. *)
LEMMA NonceTyped ==
  ASSUME TypedIInv, inbox # <<>>, up,
         \/ IcarusNonce(Head(inbox), Tail(inbox)) \/ DualMinerNonce(Head(inbox), Tail(inbox))
         \/ GridSeedNonce(Head(inbox), Tail(inbox)) \/ GridSeedBadPacket(Head(inbox), Tail(inbox))
  PROVE  Typed'
<1> DEFINE msg == Head(inbox)
           rest == Tail(inbox)
           found == (rest \o ToSelf("BufferUpdated")) \o Found
           Icarus == IcarusNonce(msg, rest)
           DualMiner == DualMinerNonce(msg, rest)
           GridSeed == GridSeedNonce(msg, rest)
           Bad == GridSeedBadPacket(msg, rest)
<1>1. /\ msg.kind = "BufferUpdated" /\ buffer > 0 /\ buffer \in Nat /\ line \in Nat
      /\ UNCHANGED <<target, miningJob, timer, up, pending, shares, cancelDue, line>>
  BY DEF IcarusNonce, DualMinerNonce, GridSeedNonce, GridSeedBadPacket, minerVars, shareVars, startVars,
         TypedIInv, Typed, OtherTypes, SerialIInv, SerialTypes
<1>2. /\ Kept(rest \o ToSelf("BufferUpdated"))
      /\ Kept(found) /\ Kept(found \o ToSelf("StartWork")) /\ Kept(found \o <<>>)
  <2>1. Kept(rest)
    BY <1>1, KeptTail
  <2>2. Kept(rest \o ToSelf("BufferUpdated"))
    BY <2>1, KeptSelf
  <2>3. Kept(found)
    BY <2>2, KeptFound
  <2>4. <<>> \in Seq(SerialMessage) /\ None(<<>>, "ReadDone") /\ Workless(<<>>)
    BY EndsEmpty DEF Workless
  <2> HIDE DEF found, rest
  <2> QED
    BY <2>2, <2>3, <2>4, KeptSelf, KeptAdd
<1>3. Kept(inbox')
  <2>1. CASE Icarus \/ DualMiner
    <3>1. inbox' = found \o ToSelf("StartWork") \/ inbox' = found \o <<>>
      BY <2>1 DEF IcarusNonce, DualMinerNonce
    <3> HIDE DEF found
    <3> QED
      BY <1>2, <3>1
  <2>2. CASE GridSeed
    BY <1>2, <2>2 DEF GridSeedNonce
  <2>3. CASE Bad
    BY <1>2, <2>3 DEF GridSeedBadPacket
  <2> QED
    BY <2>1, <2>2, <2>3
<1>4. PICK k \in 0..buffer :
        /\ k = buffer \/ k = 1
        /\ buffer' = buffer - k
        /\ \/ UNCHANGED <<lastJob, writing>> /\ stale' = Less(stale, k)
           \/ HasWork /\ k = 1 /\ stale' = UnderWay - 1 /\ writing' = TRUE
  <2>1. CASE Icarus
    <3>1. buffer \in 0..buffer /\ buffer' = buffer - buffer
      BY <1>1, <2>1 DEF IcarusNonce
    <3> QED
      BY <2>1, <3>1 DEF IcarusNonce, workVars
  <2>2. CASE DualMiner
    <3>1. 1 \in 0..buffer /\ buffer' = buffer - 1
      BY <1>1, <2>2 DEF DualMinerNonce
    <3> QED
      BY <2>2, <3>1 DEF DualMinerNonce, workVars
  <2>3. CASE GridSeed
    <3>1. 1 \in 0..buffer /\ buffer' = buffer - 1
      BY <1>1, <2>3 DEF GridSeedNonce
    <3> QED
      BY <2>3, <3>1 DEF GridSeedNonce, GridSeedSendWork, Sent, workVars
  <2>4. CASE Bad
    <3>1. 1 \in 0..buffer /\ buffer' = buffer - 1
      BY <1>1, <2>4 DEF GridSeedBadPacket
    <3> QED
      BY <2>4, <3>1 DEF GridSeedBadPacket, workVars
  <2> QED
    BY <2>1, <2>2, <2>3, <2>4
<1>5. readingInterface' = readingInterface \/ readingInterface' = TRUE
  BY DEF IcarusNonce, DualMinerNonce, GridSeedNonce, GridSeedSendWork, GridSeedBadPacket, readVars
<1> HIDE DEF msg, rest, found
<1>6. OtherTypes'
  <2>1. buffer' \in Nat
    BY <1>1, <1>4
  <2>2. writing' \in BOOLEAN /\ readingInterface' \in BOOLEAN
    BY <1>4, <1>5 DEF TypedIInv, Typed, OtherTypes
  <2> QED
    BY <1>1, <2>1, <2>2 DEF TypedIInv, Typed, OtherTypes
<1>7. ASSUME NEW n \in Nat, Reads(inbox, n), stale \in 0..(line + n + buffer)
      PROVE  stale' \in 0..(line' + n + buffer')
  <2>1. CASE stale' = Less(stale, k)
    BY <1>1, <1>4, <1>7, <2>1, LessStale
  <2>2. CASE k = 1 /\ stale' = UnderWay - 1
    BY <1>1, <1>4, <1>7, <2>2, UnderWayIs
  <2> QED
    BY <1>4, <2>1, <2>2
<1>8. miningJob' = NoJob => miningJob = NoJob /\ lastJob' = lastJob
  BY <1>1, <1>4 DEF HasWork
<1> QED
  BY <1>1, <1>3, <1>5, <1>6, <1>7, <1>8, KeptStep

LEMMA ReceiveTyped ==
  ASSUME TypedIInv, ReceiveSerial
  PROVE  Typed'
<1> DEFINE msg == Head(inbox)
           rest == Tail(inbox)
<1>1. up /\ inbox # <<>> /\ SerialReceive(msg, rest)
  BY DEF ReceiveSerial
<1>2. CASE WorkReceive(msg, rest) /\ UNCHANGED <<startVars, workVars, readVars>>
  BY <1>1, <1>2, WorkReceiveTyped DEF serialVars
<1>3. CASE \/ Stashes(msg, rest) \/ StartWork(msg, rest) \/ StartWorkUnhandled(msg, rest)
           \/ NothingBuffered(msg, rest)
  BY <1>1, <1>3, WorkTyped
<1>4. CASE CancelWork(msg, rest)
  BY <1>1, <1>4, CancelTyped
<1>5. CASE SendJob(msg, rest)
  BY <1>1, <1>5, SendJobTyped
<1>6. CASE ReadDone(msg, rest)
  BY <1>1, <1>6, ReadDoneTyped
<1>7. CASE GoldenNonce(msg, rest) \/ FirmwareVersion(msg, rest)
  BY <1>1, <1>7, DetectTyped
<1>8. CASE \/ IcarusNonce(msg, rest) \/ DualMinerNonce(msg, rest)
           \/ GridSeedNonce(msg, rest) \/ GridSeedBadPacket(msg, rest)
  BY <1>1, <1>8, NonceTyped
<1> HIDE DEF msg, rest
<1> QED
  BY <1>1, <1>2, <1>3, <1>4, <1>5, <1>6, <1>7, <1>8 DEF SerialReceive
-----------------------------------------------------------------------------
(* Timers and the device. *)

LEMMA TimersTyped ==
  ASSUME TypedIInv, RetryFires \/ NonceRestart \/ ResetPause \/ DetectedCancels
  PROVE  Typed'
<1>1. /\ UNCHANGED <<target, miningJob, timer, up, pending, shares, lastJob, writing>>
      /\ UNCHANGED <<line, readingInterface, buffer, stale>>
      /\ cancelDue \in BOOLEAN => cancelDue' \in BOOLEAN
  BY DEF RetryFires, NonceRestart, ResetPause, DetectedCancels, minerVars, shareVars, serialVars,
         startVars, workVars, readVars
<1>2. Kept(inbox')
  <2>1. Kept(inbox) /\ Kept(stash \o inbox)
    BY KeptSame, KeptStash
  <2>2. \/ inbox' = inbox \o ToSelf("StartWork") \/ inbox' = inbox \o ToSelf("CancelWork")
        \/ inbox' = stash \o inbox
    BY DEF RetryFires, NonceRestart, ResetPause, DetectedCancels
  <2> QED
    BY <2>1, <2>2, KeptSelf
<1>3. OtherTypes'
  BY <1>1 DEF TypedIInv, Typed, OtherTypes
<1> QED
  BY <1>1, <1>2, <1>3, StillStep

LEMMA DeviceTyped ==
  ASSUME TypedIInv, DeviceTakesWork \/ DeviceFinds
  PROVE  Typed'
<1>1. /\ UNCHANGED <<target, miningJob, timer, up, pending, shares, lastJob, inbox, cancelDue>>
      /\ UNCHANGED <<readingInterface, buffer>> /\ line \in Nat /\ buffer \in Nat
      /\ writing \in BOOLEAN => writing' \in BOOLEAN
  BY DEF DeviceTakesWork, DeviceFinds, baseVars, minerVars, shareVars, startVars, workVars, readVars,
         TypedIInv, Typed, OtherTypes, SerialIInv, SerialTypes
<1>2. \/ line' = line /\ stale' = stale
      \/ line' = line + 1 /\ stale' \in {stale, stale + 1}
  BY DEF DeviceTakesWork, DeviceFinds, readVars
<1>3. OtherTypes'
  BY <1>1 DEF TypedIInv, Typed, OtherTypes
<1>4. \A n \in Nat : stale \in 0..(line + n + buffer) => stale' \in 0..(line' + n + buffer')
  BY <1>1, <1>2
<1> QED
  BY <1>1, <1>3, <1>4, KeptSame, KeptStep

(* The answer of a read takes the nonces the device has found. *)
LEMMA ReadEndsTyped ==
  ASSUME TypedIInv, ReadEnds
  PROVE  Typed'
<1>0. PICK m \in 0..line : inbox' = Append(inbox, Msg("ReadDone", m)) /\ line' = line - m
  BY DEF ReadEnds, TypedIInv, SerialIInv, SerialTypes
<1> DEFINE x == Msg("ReadDone", m)
<1>1. /\ UNCHANGED <<target, miningJob, timer, up, pending, shares, lastJob, cancelDue, writing>>
      /\ UNCHANGED <<readingInterface, buffer, stale>> /\ readingInterface
      /\ inbox' = Append(inbox, x) /\ ~ Waiting("ReadDone") /\ line \in Nat /\ buffer \in Nat
  BY <1>0 DEF ReadEnds, minerVars, shareVars, startVars, workVars, TypedIInv, Typed, OtherTypes,
              SerialIInv, SerialTypes
<1>2. x \in SerialMessage /\ x.kind = "ReadDone" /\ x.val = m /\ m \in Nat
  BY <1>0, <1>1 DEF Msg, SerialMessage
<1> HIDE DEF x
<1>3. inbox \in Seq(SerialMessage) /\ <<x>> \in Seq(SerialMessage) /\ inbox' = inbox \o <<x>>
  BY <1>1, <1>2 DEF TypedIInv, SerialIInv, MailFine
<1>4. None(inbox, "ReadDone")
  BY <1>1, <1>3 DEF Waiting, None
<1>5. PICK n \in Nat : Reads(inbox, n) /\ (up => stale \in 0..(line + n + buffer))
  BY DEF TypedIInv, Typed, Reading
<1>6. n = 0
  BY <1>4, <1>5, ReadsNone
<1>7. OtherTypes'
  BY <1>1 DEF TypedIInv, Typed, OtherTypes
<1>8. Reading(inbox)'
  <2>1. Reads(<<x>>, m)
    BY <1>2 DEF Reads
  <2>2. Reads(inbox', m)
    BY <1>3, <1>4, <2>1, ReadsBoth
  <2>3. up' => stale' \in 0..(line' + m + buffer')
    BY <1>0, <1>1, <1>2, <1>5, <1>6
  <2> QED
    BY <1>1, <1>2, <2>2, <2>3 DEF Reading
<1>9. NothingBeforeJob(inbox)'
  <2>1. None(<<x>>, "Nonce") /\ None(<<x>>, "Job")
    BY <1>2, NoneOne
  <2>2. Workless(inbox) => Workless(inbox')
    BY <1>3, <2>1, NoneBoth DEF Workless
  <2> QED
    BY <1>1, <2>2 DEF TypedIInv, Typed, NothingBeforeJob
<1> QED
  BY <1>7, <1>8, <1>9 DEF Typed

LEMMA MissedTyped ==
  ASSUME missed \in BOOLEAN, [SerialNext]_serialSpecVars
  PROVE  missed' \in BOOLEAN
<1>1. CASE UNCHANGED serialVars \/ UNCHANGED serialSpecVars \/ CheckInitTimeout
  BY <1>1 DEF CheckInitTimeout, serialSpecVars, serialVars, readVars
<1>2. CASE DeviceTakesWork \/ DeviceFinds \/ ReadEnds
  BY <1>2 DEF DeviceTakesWork, DeviceFinds, ReadEnds, readVars
<1>3. CASE RetryFires \/ NonceRestart \/ ResetPause \/ DetectedCancels
  BY <1>3 DEF RetryFires, NonceRestart, ResetPause, DetectedCancels, serialVars, readVars
<1>4. CASE ReceiveSerial
  <2> DEFINE msg == Head(inbox)
             rest == Tail(inbox)
  <2>1. SerialReceive(msg, rest)
    BY <1>4 DEF ReceiveSerial
  <2> HIDE DEF msg, rest
  <2>2. CASE UNCHANGED readVars
    BY <2>2 DEF readVars
  <2>3. CASE CancelWork(msg, rest) \/ GridSeedNonce(msg, rest)
    BY <2>3 DEF CancelWork, GridSeedNonce, GridSeedSendWork
  <2>4. CASE \/ StartWork(msg, rest) \/ SendJob(msg, rest) \/ NothingBuffered(msg, rest)
             \/ GoldenNonce(msg, rest) \/ FirmwareVersion(msg, rest)
             \/ IcarusNonce(msg, rest) \/ DualMinerNonce(msg, rest)
    BY <2>4 DEF StartWork, SendJob, NothingBuffered, GoldenNonce, FirmwareVersion, IcarusNonce,
                DualMinerNonce
  <2>5. CASE ReadDone(msg, rest) \/ GridSeedBadPacket(msg, rest)
    BY <2>5 DEF ReadDone, GridSeedBadPacket
  <2> QED
    BY <2>1, <2>2, <2>3, <2>4, <2>5 DEF SerialReceive, Stashes, StartWorkUnhandled
<1> QED
  BY <1>1, <1>2, <1>3, <1>4 DEF SerialNext

LEMMA StepTyped ==
  ASSUME TypedIInv, [SerialNext]_serialSpecVars
  PROVE  TypedIInv'
<1>1. SerialIInv' /\ missed' \in BOOLEAN
  BY SerialStepIInv, MissedTyped DEF TypedIInv
<1>2. CASE (PoolChanges \/ Around) /\ UNCHANGED serialVars
  BY <1>1, <1>2, AroundTyped DEF TypedIInv
<1>3. CASE DeviceTakesWork \/ DeviceFinds
  BY <1>1, <1>3, DeviceTyped DEF TypedIInv
<1>4. CASE ReadEnds
  BY <1>1, <1>4, ReadEndsTyped DEF TypedIInv
<1>5. CASE ReceiveSerial
  BY <1>1, <1>5, ReceiveTyped DEF TypedIInv
<1>6. CASE RetryFires \/ NonceRestart \/ ResetPause \/ DetectedCancels
  BY <1>1, <1>6, TimersTyped DEF TypedIInv
<1>7. CASE CheckInitTimeout
  BY <1>1, <1>7, StopsTyped DEF CheckInitTimeout, TypedIInv
<1>8. CASE UNCHANGED serialSpecVars
  <2>1. UNCHANGED <<target, miningJob, timer, up, pending, shares, lastJob, inbox, cancelDue, writing,
                    line, readingInterface, buffer, stale>>
    BY <1>8 DEF serialSpecVars, serialVars, baseVars, minerVars, shareVars, startVars, workVars, readVars
  <2>2. OtherTypes'
    BY <2>1 DEF TypedIInv, Typed, OtherTypes
  <2>3. Typed'
    BY <2>1, <2>2, KeptSame, StillStep
  <2> QED
    BY <1>1, <2>3 DEF TypedIInv
<1> QED
  BY <1>2, <1>3, <1>4, <1>5, <1>6, <1>7, <1>8 DEF SerialNext
-----------------------------------------------------------------------------
(* The driver chosen at the start, as MCMiners has it. *)

(* The one that runs has its invariant, the other has never begun. *)
MinersIInv ==
  IF driver = "StratumProxy" THEN ProxyIInv /\ NoDevice ELSE TypedIInv /\ NoWorks

LEMMA InitMiners == MinersInit => MinersIInv
<1>1. ASSUME SerialInit, NoWorks PROVE MinersIInv
  BY <1>1, InitTyped DEF MinersIInv, SerialInit, SerialDriver
<1>2. ASSUME ProxyInit, NoDevice PROVE MinersIInv
  BY <1>2, ProxyInitIInv DEF MinersIInv, ProxyInit
<1> QED
  BY <1>1, <1>2 DEF MinersInit

LEMMA StepMiners ==
  ASSUME MinersIInv, [MinersNext]_minersVars
  PROVE  MinersIInv'
<1>1. CASE driver # "StratumProxy"
  <2>1. TypedIInv /\ NoWorks
    BY <1>1 DEF MinersIInv
  <2>2. [SerialNext]_serialSpecVars /\ UNCHANGED proxyVars
    BY <1>1 DEF MinersNext, minersVars, serialSpecVars
  <2>3. TypedIInv'
    BY <2>1, <2>2, StepTyped
  <2>4. driver' # "StratumProxy"
    BY <2>3 DEF TypedIInv, SerialIInv, SerialTypes, SerialDriver
  <2>5. NoWorks'
    BY <2>1, <2>2 DEF NoWorks, proxyVars
  <2> QED
    BY <2>3, <2>4, <2>5 DEF MinersIInv
<1>2. CASE driver = "StratumProxy"
  <2>1. ProxyIInv /\ NoDevice
    BY <1>2 DEF MinersIInv
  <2>2. [ProxyNext]_proxySpecVars /\ UNCHANGED serialVars
    BY <1>2 DEF MinersNext, minersVars, proxySpecVars
  <2>3. ProxyIInv'
    BY <2>1, <2>2, ProxyStepIInv
  <2>4. driver' = "StratumProxy"
    BY <2>3 DEF ProxyIInv, ProxyTypeOK
  <2>5. NoDevice'
    BY <2>1, <2>2 DEF NoDevice, serialVars, startVars, workVars, readVars
  <2> QED
    BY <2>3, <2>4, <2>5 DEF MinersIInv
<1> QED
  BY <1>1, <1>2

LEMMA MinersInvariant == MinersSpec => []MinersIInv
BY InitMiners, StepMiners, PTL DEF MinersSpec

(* The types of every driver's variables.  Of a driver that reads nonces     *)
(* this says that one read at most is answered and not yet taken in, and     *)
(* that no more nonces are thought to be of an older work than are under way. *)
THEOREM TypeCorrect == MinersSpec => []MinersTypeOK
<1>1. MinersIInv => MinersTypeOK
  BY TypedTypes DEF MinersIInv, ProxyIInv, MinersTypeOK
<1> QED
  BY <1>1, MinersInvariant, PTL

(* Whichever driver there is, at rest its device has the newest work.        *)
THEOREM MinersFollow == MinersSpec => []FollowsWork
<1>1. MinersIInv => FollowsWork
  <2>1. TypedIInv => FollowsWork
    BY FollowsIInv DEF TypedIInv
  <2>2. NoDevice => FollowsWork
    BY DEF NoDevice, FollowsWork, finishedInit
  <2> QED
    BY <2>1, <2>2 DEF MinersIInv
<1> QED
  BY <1>1, MinersInvariant, PTL

(* Whichever driver there is, a work a client has is known until it is old.  *)
THEOREM MinersKnow == MinersSpec => []KnownUntilOld
<1>1. MinersIInv => KnownUntilOld
  <2>1. ProxyIInv => KnownUntilOld
    BY DEF ProxyIInv, Registered, KnownUntilOld, In
  <2>2. NoWorks => KnownUntilOld
    BY DEF NoWorks, KnownUntilOld
  <2> QED
    BY <2>1, <2>2 DEF MinersIInv
<1> QED
  BY <1>1, MinersInvariant, PTL
=============================================================================
