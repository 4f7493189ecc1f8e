---------------------------- MODULE SerialMiner ----------------------------
(***************************************************************************)
(* The drivers whose device works on one work at a time and sends its      *)
(* nonces down a serial line: Icarus (drivers/Icarus.scala), a DualMiner   *)
(* facet (drivers/gridseed/DualMinerFacet.scala) and GridSeed in its SGS   *)
(* and FTDI kinds (drivers/gridseed/GridSeed.scala), on AbstractMiner and  *)
(* io/usb/BufferedReader.scala.  "DualMiner" is each of the facets in      *)
(* drivers/gridseed/DualMiner.scala: a DualMiner on one interface, or the  *)
(* scrypt or SHA256 child of one on two.                                   *)
(*                                                                         *)
(* Nothing in a nonce says which work it solves: the drivers take it for   *)
(* one of the work they sent last.  The line is a FIFO, so the nonces of   *)
(* older works come first: counts are enough, and stale is how many of     *)
(* those under way are not of lastJob.                                     *)
(***************************************************************************)
EXTENDS AbstractMiner

CONSTANTS
  MaxFound,   \* bound: nonces under way from the device to the pool
  MaxChains   \* bound: with as many works to be sent, timers and the pool wait

VARIABLES
  behavior,  \* "detecting", "resetting" (GridSeed only) or "normal"
  cancelDue, \* GridSeed: the CancelWork that detected() scheduled
  stash,     \* what the first two behaviors stash
  retries,   \* scheduled StartWorks
  lastJob,   \* the work sent last
  writing,   \* lastJob is on its way to the device
  line,      \* nonces the device has found and nobody read
  readingInterface,  \* a read is under way or its answer in the mailbox
  buffer,    \* nonces in the read buffer
  stale,     \* how many of the nonces under way are not of lastJob
  missed     \* history: a GridSeed's last read or packet gave it no reason to read on

readVars == <<line, readingInterface, buffer, stale, missed>>
startVars == <<behavior, cancelDue, stash, retries>>
workVars == <<lastJob, writing>>
serialVars == <<startVars, workVars, readVars>>

(* finishedInit is set when the driver becomes normal; the SHA256 child has  *)
(* set it before, which only tells CheckInitTimeout to leave it alone.       *)
finishedInit == behavior = "normal"

SerialDriver == {"Icarus", "DualMiner", "GridSeedSGS", "GridSeedFTDI"}
IsGridSeed == driver \in {"GridSeedSGS", "GridSeedFTDI"}
AutoRead == ~ IsGridSeed
IsFTDI == driver \in {"DualMiner", "GridSeedFTDI"}

SerialMessage ==
  Letter \cup [kind : {"Nonce"}, val : Nonce] \cup [kind : {"Job"}, val : Work]
    \cup [kind : {"CancelWork", "StartWork", "BufferUpdated", "WorkTimeout"}, val : {0}]
    \cup [kind : {"ReadDone"}, val : Nat]

(* The answer of a read that is still in the mailbox. *)
Arrived ==
  IF Waiting("ReadDone")
  THEN inbox[CHOOSE i \in DOMAIN inbox : inbox[i].kind = "ReadDone"].val ELSE 0

(* Works that will be sent without another message from outside. *)
Chains ==
  Len(stash) + Len(SelectSeq(inbox, LAMBDA msg :
    msg.kind \in {"ExtraNonce", "MiningJob", "CancelWork", "StartWork", "Job"}))

UnderWay == line + Arrived + buffer

SerialTypeOK ==
  /\ BaseTypeOK
  /\ driver \in SerialDriver
  /\ inbox \in Seq(SerialMessage)
  /\ behavior \in {"detecting", "resetting", "normal"} /\ cancelDue \in BOOLEAN
  /\ stash \in Seq([kind : {"CancelWork", "BufferUpdated"}, val : {0}])
  /\ retries \in Nat /\ writing \in BOOLEAN
  /\ lastJob \in Work \cup {NoWork}
  /\ line \in Nat /\ readingInterface \in BOOLEAN /\ buffer \in Nat
  /\ missed \in BOOLEAN
  /\ Waiting("ReadDone") => readingInterface
  /\ up => stale \in 0..UnderWay

(* Detection was asked for and is being answered: with a golden nonce, or    *)
(* by GridSeed to both detectBytes, whose read is still under way.  Of the   *)
(* scrypt child nothing is asked: with the device known it is normal, and    *)
(* its first read is that of its first StartWork.                            *)
SerialInit ==
  /\ BaseInit
  /\ driver \in SerialDriver
  /\ inbox = <<>>
  /\ behavior \in IF driver = "DualMiner" THEN {"detecting", "normal"} ELSE {"detecting"}
  /\ cancelDue = FALSE
  /\ stash = <<>>
  /\ retries = 0 /\ writing = FALSE
  /\ lastJob = NoWork
  /\ line = IF finishedInit THEN 0 ELSE IF IsGridSeed THEN 2 ELSE 1
  /\ readingInterface = ~ finishedInit /\ buffer = 0
  /\ stale = line /\ missed = FALSE
-----------------------------------------------------------------------------
(* The device (external). *)

DeviceTakesWork ==
  /\ writing
  /\ writing' = FALSE
  /\ UNCHANGED <<baseVars, startVars, lastJob, readVars>>

(* A nonce of the work the device has, lastJob or one before it.           *)
DeviceFinds ==
  /\ up /\ lastJob # NoWork
  /\ UnderWay + Len(SelectSeq(inbox, LAMBDA msg : msg.kind = "Nonce"))
       + Len(pending) + Len(shares) < MaxFound
  /\ line' = line + 1
  /\ stale' = IF writing THEN stale + 1 ELSE stale
  /\ UNCHANGED <<baseVars, startVars, workVars, readingInterface, buffer, missed>>

(* A read ends when there is something to read, or, from an FTDI chip, which *)
(* sends its status at intervals, with nothing.  It may bring the last nonce *)
(* in part only: that counts when the rest has come, and is modelled where   *)
(* it matters, for a driver that does not read on by itself.                 *)
ReadEnds ==
  /\ up /\ readingInterface /\ ~ Waiting("ReadDone")
  /\ IF line > 0 THEN TRUE ELSE IsFTDI /\ Calm
  /\ \E n \in IF AutoRead THEN {line} ELSE 0..line :
       /\ inbox' = Append(inbox, Msg("ReadDone", n))
       /\ line' = line - n
  /\ UNCHANGED <<driver, sourceVars, letters, minerVars, shareVars, startVars, workVars,
                 readingInterface, buffer, stale, missed>>
-----------------------------------------------------------------------------
(* Parts of handlers: what they put into the mailbox, and the reading.       *)

ToSelf(k) == <<Msg(k, 0)>>

(* submitWork, sendWork(job): lastJob is the new work from now on, so that   *)
(* no nonce under way is of it.  The left argument is what is under way.     *)
Sent(work, underWay) ==
  /\ lastJob' = work
  /\ writing' = TRUE
  /\ stale' = underWay

(* sendWork of GridSeed, on the nonces left under way. *)
GridSeedSendWork(underWay, old) ==
  IF HasWork
  THEN Sent(BuiltWork, underWay) /\ readingInterface' = TRUE /\ missed' = FALSE
  ELSE stale' = old /\ UNCHANGED <<workVars, readingInterface, missed>>

Less(n, k) == IF n > k THEN n - k ELSE 0
-----------------------------------------------------------------------------
(* The handlers of the drivers. *)

(* CancelWork before finishedInit: Icarus turns it into a StartWork that is  *)
(* then not handled, the others stash it.  While GridSeed resets its chips   *)
(* it stashes BufferUpdated too.                                             *)
Stashes(msg, rest) ==
  /\ ~ finishedInit /\ driver # "Icarus"
  /\ \/ msg.kind = "CancelWork"
     \/ msg.kind = "BufferUpdated" /\ behavior = "resetting"
  /\ stash' = Append(stash, msg)
  /\ inbox' = rest
  /\ UNCHANGED <<letters, minerVars, shareVars, behavior, cancelDue, retries,
                 workVars, readVars>>

CancelWork(msg, rest) ==
  /\ msg.kind = "CancelWork"
  /\ driver = "Icarus" \/ finishedInit
  /\ IF IsGridSeed
     THEN inbox' = rest /\ GridSeedSendWork(UnderWay, stale)
     ELSE inbox' = rest \o ToSelf("StartWork") /\ UNCHANGED <<workVars, readingInterface, stale, missed>>
  /\ UNCHANGED <<letters, minerVars, shareVars, startVars, line, buffer>>

(* Without work it is tried again in a second: a StartWork that finds none   *)
(* goes on for ever, beside all others that do.                              *)
StartWork(msg, rest) ==
  /\ msg.kind = "StartWork" /\ finishedInit
  /\ IF HasWork
     THEN inbox' = Append(rest, Msg("Job", BuiltWork)) /\ retries' = retries
     ELSE inbox' = rest /\ retries' = retries + 1
  /\ readingInterface' = (readingInterface \/ (driver = "DualMiner" /\ HasWork))
  /\ UNCHANGED <<letters, minerVars, shareVars, behavior, cancelDue, stash, workVars,
                 line, buffer, stale, missed>>

(* "case StartWork if finishedInit" and no other case. *)
StartWorkUnhandled(msg, rest) ==
  /\ msg.kind = "StartWork" /\ ~ finishedInit /\ driver = "Icarus"
  /\ inbox' = rest
  /\ UNCHANGED <<letters, minerVars, shareVars, startVars, workVars, readVars>>

(* submitWork, or sendWork(job), which also reads. *)
SendJob(msg, rest) ==
  /\ msg.kind = "Job"
  /\ Sent(msg.val, UnderWay)
  /\ readingInterface' = (readingInterface \/ driver = "DualMiner")
  /\ inbox' = rest
  /\ UNCHANGED <<letters, minerVars, shareVars, startVars, line, buffer, missed>>

(* usbBufferReceive.  With autoRead the next read follows; without, the      *)
(* driver hears of an empty read too, and less than a packet in the buffer   *)
(* is nothing to it.                                                         *)
ReadDone(msg, rest) ==
  /\ msg.kind = "ReadDone"
  /\ buffer' = buffer + msg.val
  /\ readingInterface' = AutoRead
  /\ missed' = (missed \/ (IsGridSeed /\ buffer' = 0))
  /\ inbox' = IF msg.val > 0 \/ ~ AutoRead THEN rest \o ToSelf("BufferUpdated") ELSE rest
  /\ UNCHANGED <<letters, minerVars, shareVars, startVars, workVars, line, stale>>

(* BufferUpdated with less than a nonce; dropping from the buffer sends one. *)
NothingBuffered(msg, rest) ==
  /\ msg.kind = "BufferUpdated" /\ buffer = 0 /\ behavior # "resetting"
  /\ inbox' = rest
  /\ readingInterface' = (readingInterface \/ driver = "DualMiner")
  /\ UNCHANGED <<letters, minerVars, shareVars, startVars, workVars, line, buffer, stale,
                 missed>>

(* The first nonce is the golden one: the driver becomes normal.  Icarus     *)
(* starts to work by itself, a DualMiner if a CancelWork is in its stash.    *)
GoldenNonce(msg, rest) ==
  /\ ~ IsGridSeed
  /\ msg.kind = "BufferUpdated" /\ buffer > 0 /\ behavior = "detecting"
  /\ LET taken == IF driver = "Icarus" THEN buffer ELSE 1 IN
       /\ buffer' = buffer - taken
       /\ stale' = Less(stale, taken)
  /\ behavior' = "normal"
  /\ inbox' = stash \o rest \o ToSelf("BufferUpdated")
                \o IF driver = "Icarus" THEN ToSelf("StartWork") ELSE <<>>
  /\ stash' = <<>>
  /\ readingInterface' = (readingInterface \/ driver = "DualMiner")
  /\ UNCHANGED <<letters, minerVars, shareVars, cancelDue, retries, workVars, line,
                 missed>>

(* GridSeed's answer to detectBytes: the chips are reset. *)
FirmwareVersion(msg, rest) ==
  /\ IsGridSeed
  /\ msg.kind = "BufferUpdated" /\ buffer > 0 /\ behavior = "detecting"
  /\ buffer' = buffer - 1
  /\ stale' = Less(stale, 1)
  /\ behavior' = "resetting"
  /\ inbox' = rest \o ToSelf("BufferUpdated")
  /\ UNCHANGED <<letters, minerVars, shareVars, cancelDue, stash, retries, workVars, line,
                 readingInterface, missed>>

(* The nonce at the front of the buffer, as one of lastJob. *)
Found == IF lastJob = NoWork THEN <<>>
         ELSE <<Msg("Nonce", [work |-> lastJob, solves |-> stale = 0])>>

(* Icarus takes one nonce and drops whatever else has come with it.          *)
IcarusNonce(msg, rest) ==
  /\ driver = "Icarus" /\ msg.kind = "BufferUpdated" /\ buffer > 0 /\ finishedInit
  /\ buffer' = 0
  /\ stale' = Less(stale, buffer)
  /\ inbox' = rest \o ToSelf("BufferUpdated") \o Found
                \o IF lastJob = NoWork THEN <<>> ELSE ToSelf("StartWork")
  /\ UNCHANGED <<letters, minerVars, shareVars, startVars, workVars, line,
                 readingInterface, missed>>

DualMinerNonce(msg, rest) ==
  /\ driver = "DualMiner" /\ msg.kind = "BufferUpdated" /\ buffer > 0 /\ finishedInit
  /\ buffer' = buffer - 1
  /\ stale' = Less(stale, 1)
  /\ inbox' = rest \o ToSelf("BufferUpdated") \o Found
                \o IF lastJob = NoWork THEN <<>> ELSE ToSelf("StartWork")
  /\ readingInterface' = TRUE
  /\ UNCHANGED <<letters, minerVars, shareVars, startVars, workVars, line, missed>>

(* Slip: the read that a GridSeed's sendWork starts is forgotten.            *)
GridSeedNonceNoRead(msg, rest) ==
  /\ IsGridSeed /\ msg.kind = "BufferUpdated" /\ buffer > 0 /\ finishedInit
  /\ buffer' = buffer - 1
  /\ inbox' = rest \o ToSelf("BufferUpdated") \o Found
  /\ IF HasWork THEN Sent(BuiltWork, UnderWay - 1)
     ELSE stale' = Less(stale, 1) /\ UNCHANGED workVars
  /\ UNCHANGED <<letters, minerVars, shareVars, startVars, line, readingInterface,
                 missed>>

(* A packet that has neither of the two marks of one is dropped; no work is  *)
(* sent, and nothing is read until the next one is.                          *)
GridSeedBadPacket(msg, rest) ==
  /\ IsGridSeed /\ msg.kind = "BufferUpdated" /\ buffer > 0 /\ finishedInit
  /\ buffer' = buffer - 1
  /\ stale' = Less(stale, 1)
  /\ missed' = TRUE
  /\ inbox' = rest \o ToSelf("BufferUpdated")
  /\ UNCHANGED <<letters, minerVars, shareVars, startVars, workVars, line, readingInterface>>

(* GridSeed sends the next work, and only with it reads again. *)
GridSeedNonce(msg, rest) ==
  /\ IsGridSeed /\ msg.kind = "BufferUpdated" /\ buffer > 0 /\ finishedInit
  /\ buffer' = buffer - 1
  /\ inbox' = rest \o ToSelf("BufferUpdated") \o Found
  /\ GridSeedSendWork(UnderWay - 1, Less(stale, 1))
  /\ UNCHANGED <<letters, minerVars, shareVars, startVars, line>>

SerialReceive(msg, rest) ==
  \/ WorkReceive(msg, rest) /\ UNCHANGED <<startVars, workVars, readVars>>
  \/ Stashes(msg, rest) \/ CancelWork(msg, rest)
  \/ StartWork(msg, rest) \/ StartWorkUnhandled(msg, rest) \/ SendJob(msg, rest)
  \/ ReadDone(msg, rest) \/ NothingBuffered(msg, rest)
  \/ GoldenNonce(msg, rest) \/ FirmwareVersion(msg, rest)
  \/ IcarusNonce(msg, rest) \/ DualMinerNonce(msg, rest)
  \/ GridSeedNonce(msg, rest) \/ GridSeedBadPacket(msg, rest)

ReceiveSerial ==
  /\ up /\ inbox # <<>>
  /\ SerialReceive(Head(inbox), Tail(inbox))
  /\ UNCHANGED <<driver, sourceVars>>
-----------------------------------------------------------------------------
(* Timers. *)

(* The StartWork of a retry, after a second. *)
RetryFires ==
  /\ up /\ retries > 0
  /\ retries' = retries - 1
  /\ inbox' = inbox \o ToSelf("StartWork")
  /\ UNCHANGED <<driver, sourceVars, letters, minerVars, shareVars, behavior, cancelDue,
                 stash, workVars, readVars>>

(* nonceRestart of Icarus: every eleven seconds. *)
NonceRestart ==
  /\ up /\ driver = "Icarus"
  /\ Chains + retries < MaxChains /\ Calm
  /\ inbox' = inbox \o ToSelf("CancelWork")
  /\ UNCHANGED <<driver, sourceVars, letters, minerVars, shareVars, serialVars>>

(* ResetPause, 500 ms after the chips were reset: detected(). *)
ResetPause ==
  /\ up /\ behavior = "resetting"
  /\ behavior' = "normal"
  /\ cancelDue' = TRUE
  /\ inbox' = stash \o inbox
  /\ stash' = <<>>
  /\ UNCHANGED <<driver, sourceVars, letters, minerVars, shareVars, retries, workVars, readVars>>

(* The CancelWork of 200 ms after detected(). *)
DetectedCancels ==
  /\ up /\ cancelDue
  /\ cancelDue' = FALSE
  /\ inbox' = inbox \o ToSelf("CancelWork")
  /\ UNCHANGED <<driver, sourceVars, letters, minerVars, shareVars, behavior, stash,
                 retries, workVars, readVars>>

(* CheckInitTimeout: detection has taken too long, or was answered wrongly.  *)
CheckInitTimeout ==
  /\ up /\ ~ finishedInit
  /\ Stops
  /\ UNCHANGED <<driver, sourceVars, serialVars>>

SerialNext ==
  \/ PoolChanges /\ Chains < MaxChains /\ retries <= MaxChains /\ UNCHANGED serialVars
  \/ Around /\ UNCHANGED serialVars
  \/ DeviceTakesWork \/ DeviceFinds \/ ReadEnds
  \/ ReceiveSerial
  \/ RetryFires \/ NonceRestart \/ ResetPause \/ DetectedCancels \/ CheckInitTimeout

serialSpecVars == <<baseVars, serialVars>>

(* Mailboxes and futures are worked off, the device takes and answers what   *)
(* it is sent, timers fire.  The pool need not change its offer, the device  *)
(* need not find anything and the work timer need not run out.               *)
SerialFairness ==
  /\ WF_serialSpecVars(DeviceTakesWork) /\ WF_serialSpecVars(ReadEnds)
  /\ WF_serialSpecVars(ReceiveSerial)
  /\ WF_serialSpecVars(RetryFires) /\ WF_serialSpecVars(ResetPause)
  /\ WF_serialSpecVars(DetectedCancels)

SerialSpec == SerialInit /\ [][SerialNext]_serialSpecVars /\ BaseFairness /\ SerialFairness
-----------------------------------------------------------------------------
(* Something that will make the driver send another work. *)
WorkComing ==
  \/ letters # <<>> \/ retries > 0 \/ cancelDue \/ stash # <<>>
  \/ \E i \in DOMAIN inbox :
       inbox[i].kind \in {"ExtraNonce", "MiningJob", "CancelWork", "StartWork", "Job"}

(* A driver at rest has sent its device the newest work there is, whatever   *)
(* came first: the messages of the pool, the end of detection, nonces or     *)
(* timers.  A work that mixes two connections, or is of an old job, is       *)
(* always about to be replaced.                                              *)
FollowsWork ==
  up /\ finishedInit /\ ~ WorkComing /\ told[Self] # Untold =>
    /\ lastJob.en = told[Self].conn
    /\ lastJob.of = [conn |-> told[Self].conn, job |-> told[Self].job]

(* Nonces do not stay in the device: reading goes on, or starts again with   *)
(* the next work.  Of a GridSeed the code makes it so only while its reads   *)
(* bring whole packets with one of their marks: after an empty read (as an   *)
(* FTDI chip gives it), part of a packet or a malformed one nothing is read  *)
(* until the next job.                                                       *)
NoncesRead == line > 0 /\ lastJob # NoWork ~> line = 0 \/ ~ up \/ missed
=============================================================================
