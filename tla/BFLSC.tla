-------------------------------- MODULE BFLSC --------------------------------
(***************************************************************************)
(* The BFLSC driver (drivers/BFLSC.scala): an actor that talks to a device *)
(* over a serial line, one line of text at a time, keeps the device's work *)
(* queue filled, polls it for results and flushes it when the work         *)
(* changes.  Its behaviour changes with the command it waits for, and what *)
(* it cannot handle in one behaviour it stashes for the next.              *)
(*                                                                         *)
(* The device (external) takes commands in order and answers each: at once *)
(* here, for it is the lines that are delayed.  INPROCESS and COUNT lines  *)
(* have no effect and are left out; a work is known by the number of the   *)
(* stratum work it was built from.  The conversation of init is one step,  *)
(* and so are the three messages that make up a stratum work; the timers   *)
(* of the base miner, which stop it, are left out.                         *)
(***************************************************************************)
EXTENDS Integers, Sequences, FiniteSets

CONSTANTS
  MaxWork,    \* maxWorkQueue
  Capacity,   \* jobs the device's queue can hold
  MaxJobs,    \* bound: changes of the stratum work
  MaxTemps,   \* bound: temperature readings
  MaxLate     \* bound: answers that come after the timeout waiting for them,
              \* where no temperature is read

ASSUME BFLSCAssumption ==
  /\ {MaxWork, Capacity, MaxJobs, MaxTemps, MaxLate} \subseteq Nat
  /\ 0 < MaxWork /\ MaxWork <= Capacity

VARIABLES
  behavior,       \* init, normal, results (getResults), submit (submitWork), stopped
  phase,          \* started, or submitWork's phase
  submitting,     \* the work submitWork is sending
  workSubmitted, overHeating,
  job,            \* the newest stratum work, 0 if none came yet
  stash,
  unstashed,      \* the front of the mailbox: what unstashAll has put there
  cancels,        \* CancelWorks further back in the mailbox
  lines,          \* the device's lines there, in the read buffer or on the wire
  queue,          \* the device's work queue
  found,          \* works it has finished and not reported
  awaiting,       \* it has asked for a payload
  temps, lates    \* how often the temperature was read and the device late

waiting == <<behavior, phase, submitting>>
driver == <<waiting, workSubmitted, overHeating, job>>
mail == <<stash, unstashed, cancels>>
device == <<queue, found, awaiting>>
events == <<temps, lates>>
vars == <<driver, mail, lines, device, events>>

Msg(m) == [msg |-> m]
Flushed(n) == [msg |-> "FLUSHED", n |-> n]
Line == {Msg(m) : m \in {"OK", "OKQ", "QFULL", "INVALID", "RESULT", "Temp"}}
          \cup {Flushed(n) : n \in 0..Capacity}
Timer == {Msg("GetResults"), Msg("ExpireJobs")}
Message == Line \cup Timer \cup {Msg("CancelWork")}

(* The count of works never leaves 0..MaxWork, however late and mixed up     *)
(* results, refusals and flushes are answered, and the device's queue never  *)
(* exceeds its capacity.                                                     *)
TypeOK ==
  /\ behavior \in {"init", "normal", "results", "submit", "stopped"}
  /\ phase \in 0..2 /\ submitting \in 0..MaxJobs
  /\ workSubmitted \in 0..MaxWork /\ overHeating \in BOOLEAN
  /\ job \in 0..MaxJobs /\ cancels \in 0..MaxJobs
  /\ stash \in Seq(Message) /\ unstashed \in Seq(Message) /\ lines \in Seq(Line)
  /\ queue \in Seq(1..MaxJobs) /\ Len(queue) <= Capacity
  /\ found \in Nat /\ awaiting \in BOOLEAN
  /\ temps \in 0..MaxTemps /\ lates \in 0..MaxLate

Init ==
  /\ behavior = "init" /\ phase = 0 /\ submitting = 0
  /\ workSubmitted = 0 /\ overHeating = FALSE /\ job = 0
  /\ stash = <<>> /\ unstashed = <<>> /\ cancels = 0 /\ lines = <<>>
  /\ queue = <<>> /\ found = 0 /\ awaiting = FALSE
  /\ temps = 0 /\ lates = 0
-----------------------------------------------------------------------------
(* The device.  Once it has said OK to a QJOB it takes what comes next for   *)
(* the payload.                                                              *)

(* The driver sends command c, with the lines rest still to be handled.      *)
Send(c, rest) ==
  \/ /\ awaiting /\ c.msg = "payload"
     /\ awaiting' = FALSE /\ found' = found
     /\ queue' = Append(queue, c.job)
     /\ lines' = Append(rest, Msg("OKQ"))
  \/ /\ awaiting # (c.msg = "payload")
     /\ awaiting' = FALSE /\ UNCHANGED <<queue, found>>
     /\ lines' = Append(rest, Msg("INVALID"))
  \/ /\ ~ awaiting /\ c.msg = "QJOB"
     /\ awaiting' = (Len(queue) < Capacity) /\ UNCHANGED <<queue, found>>
     /\ lines' = Append(rest, Msg(IF awaiting' THEN "OK" ELSE "QFULL"))
  \/ /\ ~ awaiting /\ c.msg = "QRES"
     /\ found' = 0 /\ UNCHANGED <<queue, awaiting>>
     /\ lines' = rest \o [n \in 1..found |-> Msg("RESULT")] \o <<Msg("OK")>>
  \/ /\ ~ awaiting /\ c.msg = "QFLUSH"
     /\ queue' = <<>> /\ UNCHANGED <<found, awaiting>>
     /\ lines' = Append(rest, Flushed(Len(queue)))
  \/ /\ ~ awaiting /\ c.msg = "TEMPERATURE"
     /\ UNCHANGED device
     /\ lines' = Append(rest, Msg("Temp"))

SendNothing(rest) == lines' = rest /\ UNCHANGED device

(* The device finishes a work. *)
Finds ==
  /\ queue # <<>> /\ found < Capacity
  /\ queue' = Tail(queue) /\ found' = found + 1
  /\ UNCHANGED <<driver, mail, lines, awaiting, events>>
-----------------------------------------------------------------------------
(* The driver's helpers.  Its handlers are given the message m that they     *)
(* take, with the messages front and the lines rest left in the mailbox.     *)

Keep(front) == unstashed' = front /\ stash' = stash
Silent(front, rest) == Keep(front) /\ SendNothing(rest)
UnstashAll(front) == unstashed' = stash \o front /\ stash' = <<>>

(* Slip: math.max(..., 0) left out. *)
Difference(n, k) == n - k

Minus(n, k) == IF n > k THEN n - k ELSE 0

(* addWork, from normal and with workSubmitted = n: submitWork, or nothing.  *)
AddWork(n) ==
  \/ /\ n < MaxWork /\ ~ overHeating /\ job # 0
     /\ behavior' = "submit" /\ phase' = 0 /\ submitting' = job
     /\ workSubmitted' = n + 1
  \/ /\ n >= MaxWork \/ overHeating \/ job = 0
     /\ behavior' = "normal" /\ workSubmitted' = n
     /\ UNCHANGED <<phase, submitting>>

(* normalBaseReceive, part of every behaviour. *)
FlushedLine(m, front, rest) ==
  /\ m.msg = "FLUSHED"
  /\ Silent(front, rest)
  /\ workSubmitted' = Minus(workSubmitted, m.n)
  /\ UNCHANGED <<waiting, overHeating, job, temps>>

InvalidLine(m, front, rest) ==
  /\ m = Msg("INVALID")
  /\ Silent(front, rest)
  /\ workSubmitted' = Minus(workSubmitted, 1)
  /\ UNCHANGED <<waiting, overHeating, job, temps>>

(* procTemperatureLine: overheating flushes, in whatever behaviour it is.    *)
TemperatureLine(m, front, rest) ==
  /\ m = Msg("Temp")
  /\ Keep(front)
  /\ \/ UNCHANGED <<overHeating, workSubmitted>> /\ SendNothing(rest)
     \/ /\ ~ overHeating
        /\ overHeating' = TRUE
        /\ workSubmitted' = 0 /\ Send(Msg("QFLUSH"), rest)
     \/ /\ overHeating
        /\ overHeating' = FALSE
        /\ workSubmitted' = workSubmitted /\ SendNothing(rest)
  /\ UNCHANGED <<waiting, job, temps>>
-----------------------------------------------------------------------------
(* normal *)

(* Slip: work is added, the old stays. *)
CancelWorkNoFlush(m, front, rest) ==
  /\ behavior = "normal" /\ m = Msg("CancelWork")
  /\ Silent(front, rest)
  /\ AddWork(workSubmitted)
  /\ UNCHANGED <<overHeating, job, temps>>

(* flushWork and addWork. *)
CancelWork(m, front, rest) ==
  /\ behavior = "normal" /\ m = Msg("CancelWork")
  /\ Keep(front)
  /\ Send(Msg("QFLUSH"), rest)
  /\ AddWork(0)
  /\ UNCHANGED <<overHeating, job, temps>>

(* getResults begins, unless it is too hot. *)
GetResults(m, front, rest) ==
  /\ behavior = "normal" /\ m = Msg("GetResults")
  /\ Silent(front, rest)
  /\ \/ overHeating /\ UNCHANGED <<behavior, phase>>
     \/ ~ overHeating /\ behavior' = "results" /\ phase' = 0
  /\ UNCHANGED <<submitting, workSubmitted, overHeating, job, temps>>

(* ExpireJobs asks for the temperature. *)
ExpireJobs(m, front, rest) ==
  /\ behavior = "normal" /\ m = Msg("ExpireJobs")
  /\ Keep(front)
  /\ temps' = temps + 1 /\ Send(Msg("TEMPERATURE"), rest)
  /\ UNCHANGED driver

Answers == {Msg("OK"), Msg("OKQ"), Msg("QFULL"), Msg("RESULT")}

UnhandledLine(m, front, rest) ==
  /\ behavior = "normal" /\ m \in Answers
  /\ Silent(front, rest)
  /\ UNCHANGED <<driver, temps>>
-----------------------------------------------------------------------------
(* getResults *)

StartRes ==
  /\ behavior = "results" /\ phase = 0
  /\ phase' = 1
  /\ Send(Msg("QRES"), lines)
  /\ UNCHANGED <<behavior, submitting, workSubmitted, overHeating, job, mail, events>>

(* Slip: a reported work is not taken off the count. *)
ResultLineUncounted(m, front, rest) ==
  /\ behavior = "results" /\ phase = 1 /\ m = Msg("RESULT")
  /\ Silent(front, rest)
  /\ UNCHANGED <<driver, temps>>

ResultLine(m, front, rest) ==
  /\ behavior = "results" /\ phase = 1 /\ m = Msg("RESULT")
  /\ Silent(front, rest)
  /\ workSubmitted' = Minus(workSubmitted, 1)
  /\ UNCHANGED <<waiting, overHeating, job, temps>>

(* Slip: no work is added after the results. *)
ResultsEndAddNothing(m, front, rest) ==
  /\ behavior = "results" /\ phase = 1 /\ m = Msg("OK")
  /\ UnstashAll(front) /\ SendNothing(rest)
  /\ behavior' = "normal"
  /\ UNCHANGED <<phase, submitting, workSubmitted, overHeating, job, temps>>

ResultsEnd(m, front, rest) ==
  /\ behavior = "results" /\ phase = 1 /\ m = Msg("OK")
  /\ UnstashAll(front) /\ SendNothing(rest)
  /\ AddWork(workSubmitted)
  /\ UNCHANGED <<overHeating, job, temps>>

(* A line that is no part of a report is no hexadecimal number: it throws.   *)
ResultsMalformed(m, front, rest) ==
  /\ behavior = "results" /\ phase = 1 /\ m \in {Msg("OKQ"), Msg("QFULL")}
  /\ Silent(front, rest)
  /\ behavior' = "stopped"
  /\ UNCHANGED <<phase, submitting, workSubmitted, overHeating, job, temps>>

(* "BFLSCNonCriticalCommand => //discard" *)
Discard(m, front, rest) ==
  /\ behavior = "results" /\ m = Msg("GetResults")
  /\ Silent(front, rest)
  /\ UNCHANGED <<driver, temps>>
-----------------------------------------------------------------------------
(* submitWork *)

StartPhase1 ==
  /\ behavior = "submit" /\ phase = 0
  /\ phase' = 1
  /\ Send(Msg("QJOB"), lines)
  /\ UNCHANGED <<behavior, submitting, workSubmitted, overHeating, job, mail, events>>

(* Slip: the answer to the payload is not waited for. *)
SendPayloadNoWait(m, front, rest) ==
  /\ behavior = "submit" /\ phase = 1 /\ m = Msg("OK")
  /\ UnstashAll(front)
  /\ behavior' = "normal" /\ Send([msg |-> "payload", job |-> submitting], rest)
  /\ UNCHANGED <<phase, submitting, workSubmitted, overHeating, job, temps>>

SendPayload(m, front, rest) ==
  /\ behavior = "submit" /\ phase = 1 /\ m = Msg("OK")
  /\ Keep(front)
  /\ phase' = 2 /\ Send([msg |-> "payload", job |-> submitting], rest)
  /\ UNCHANGED <<behavior, submitting, workSubmitted, overHeating, job, temps>>

(* finish *)
Finish ==
  /\ behavior' = "normal"
  /\ UNCHANGED <<phase, submitting, workSubmitted, overHeating, job, temps>>

(* Slip: the messages stashed meanwhile stay so. *)
SubmittedKeepsStash(m, front, rest) ==
  /\ behavior = "submit"
  /\ m = Msg("QFULL") \/ (phase = 2 /\ m = Msg("OKQ"))
  /\ Silent(front, rest)
  /\ Finish

(* "OK:QUEUED", or the device's queue is full: whoever counted the work of a *)
(* full queue too low is then one closer to the truth.                       *)
Submitted(m, front, rest) ==
  /\ behavior = "submit"
  /\ m = Msg("QFULL") \/ (phase = 2 /\ m = Msg("OKQ"))
  /\ UnstashAll(front) /\ SendNothing(rest)
  /\ Finish

(* "submitWork failed with": the answer to something else. *)
SubmitFailed(m, front, rest) ==
  /\ behavior = "submit"
  /\ m \in (CASE phase = 0 -> {}
              [] phase = 1 -> Answers \ {Msg("OK"), Msg("QFULL")}
              [] phase = 2 -> Answers \ {Msg("OKQ"), Msg("QFULL")})
  /\ UnstashAll(front) /\ SendNothing(rest)
  /\ Finish
-----------------------------------------------------------------------------
(* "NonTerminated(_) => stash()", and lines that came before the command     *)
(* was sent.                                                                 *)
Stashes(m) ==
  \/ behavior = "results" /\ m \in {Msg("CancelWork"), Msg("ExpireJobs")}
  \/ behavior = "results" /\ phase = 0 /\ m \in Answers
  \/ behavior = "submit" /\ m \in Timer \cup {Msg("CancelWork")}
  \/ behavior = "submit" /\ phase = 0 /\ m \in Answers \ {Msg("QFULL")}

StashIt(m, front, rest) ==
  /\ Stashes(m)
  /\ unstashed' = front /\ stash' = Append(stash, m)
  /\ SendNothing(rest)
  /\ UNCHANGED <<driver, temps>>

Handle(m, front, rest) ==
  \/ FlushedLine(m, front, rest) \/ InvalidLine(m, front, rest)
  \/ TemperatureLine(m, front, rest) \/ CancelWork(m, front, rest)
  \/ GetResults(m, front, rest) \/ ExpireJobs(m, front, rest)
  \/ UnhandledLine(m, front, rest) \/ ResultLine(m, front, rest)
  \/ ResultsEnd(m, front, rest) \/ ResultsMalformed(m, front, rest)
  \/ Discard(m, front, rest) \/ SendPayload(m, front, rest)
  \/ Submitted(m, front, rest) \/ SubmitFailed(m, front, rest)
  \/ StashIt(m, front, rest)

Running == behavior \notin {"init", "stopped"}

(* The mailbox: what was unstashed first, then lines in their order, the     *)
(* CancelWorks and the timers' messages, in any order of arrival.  Of each   *)
(* timer one message at most is in the stash (bound).                        *)
ReceiveUnstashed ==
  /\ Running /\ unstashed # <<>>
  /\ Handle(Head(unstashed), Tail(unstashed), lines)
  /\ UNCHANGED <<cancels, lates>>

ReceiveLine ==
  /\ Running /\ unstashed = <<>> /\ lines # <<>>
  /\ Handle(Head(lines), <<>>, Tail(lines))
  /\ UNCHANGED <<cancels, lates>>

ReceiveCancelWork ==
  /\ Running /\ unstashed = <<>> /\ cancels > 0
  /\ cancels' = cancels - 1
  /\ Handle(Msg("CancelWork"), <<>>, lines)
  /\ UNCHANGED lates

ReceiveTimer(m) ==
  /\ Running /\ unstashed = <<>>
  /\ \A i \in DOMAIN stash : stash[i] # m
  /\ m = Msg("ExpireJobs") => temps < MaxTemps /\ lates = 0
  /\ Handle(m, <<>>, lines)
  /\ UNCHANGED <<cancels, lates>>

(* ExtraNonce or MiningJob, which every behaviour takes: CancelWork to self. *)
NewWork ==
  /\ behavior # "stopped" /\ job < MaxJobs
  /\ job' = job + 1 /\ cancels' = cancels + 1
  /\ UNCHANGED <<waiting, workSubmitted, overHeating,
                 stash, unstashed, lines, device, events>>

(* The device's details have been read; CancelWorks have waited for this.    *)
PostInit ==
  /\ behavior = "init"
  /\ AddWork(workSubmitted)
  /\ UNCHANGED <<overHeating, job, mail, lines, device, events>>

(* A timeout is for an answer that does not come: or, MaxLate times, for one *)
(* that comes later.                                                         *)
Quiet == lines = <<>> /\ \A i \in DOMAIN unstashed : unstashed[i] \notin Line

TimesOut ==
  \/ Quiet /\ lates' = lates
  \/ ~ Quiet /\ lates < MaxLate /\ temps = 0 /\ lates' = lates + 1

SubmitTimeout ==
  /\ behavior = "submit" /\ phase # 0
  /\ TimesOut
  /\ UnstashAll(unstashed) /\ SendNothing(lines)
  /\ Finish
  /\ UNCHANGED cancels

GetResultsTimeout ==
  /\ behavior = "results" /\ phase # 0
  /\ TimesOut
  /\ behavior' = "stopped"
  /\ UNCHANGED <<phase, submitting, workSubmitted, overHeating, job, mail, lines, device, temps>>
-----------------------------------------------------------------------------
Timeout == SubmitTimeout \/ GetResultsTimeout

Next ==
  \/ NewWork \/ PostInit \/ StartRes \/ StartPhase1
  \/ ReceiveUnstashed \/ ReceiveLine \/ ReceiveCancelWork
  \/ \E m \in Timer : ReceiveTimer(m)
  \/ Timeout \/ Finds

Spec == Init /\ [][Next]_vars

(* Lines are read, the timers go on, and a message in the mailbox waits for  *)
(* finitely many others.  The device need not find anything, and no work     *)
(* need come.                                                                *)
Fairness ==
  /\ WF_vars(PostInit) /\ WF_vars(StartRes) /\ WF_vars(StartPhase1)
  /\ WF_vars(ReceiveUnstashed) /\ WF_vars(ReceiveLine)
  /\ SF_vars(ReceiveCancelWork) /\ SF_vars(ReceiveTimer(Msg("GetResults")))
  /\ WF_vars(Quiet /\ Timeout)

FairSpec == Spec /\ Fairness
-----------------------------------------------------------------------------
Count(s) == Cardinality({i \in DOMAIN s : s[i] = Msg("RESULT")})

(* Works the device has, has reported, or is being sent. *)
Held ==
  Len(queue) + found + Count(lines) + Count(unstashed) + Count(stash)
    + (IF behavior = "submit" THEN 1 ELSE 0)

(* What ends the command that the driver waits for.                          *)
Replies ==
  CASE behavior = "submit" /\ phase = 1 -> {Msg("OK"), Msg("QFULL")}
    [] behavior = "submit" /\ phase = 2 -> {Msg("OKQ")}
    [] behavior = "results" /\ phase = 1 -> {Msg("OK")}
    [] OTHER -> {}

(* "it can occur any time, as long as its presented as a discrete line"      *)
(* (the class comment): as long as no answer is late, a line that answers    *)
(* neither a flush nor a temperature request is an answer to the command     *)
(* that the driver now waits for, flushes or not, so none is mistaken for    *)
(* another and no result is dropped as unhandled.                            *)
InStep ==
  lates = 0 =>
    /\ \A i \in DOMAIN stash : stash[i] \notin Answers
    /\ \A i \in DOMAIN unstashed : unstashed[i] \notin Answers
    /\ \A i \in DOMAIN lines : lines[i] \in Answers =>
         \/ lines[i] \in Replies /\ \A j \in DOMAIN lines : j > i => lines[j] \notin Answers
         \/ /\ behavior = "results" /\ phase = 1 /\ lines[i] = Msg("RESULT")
            /\ \E j \in DOMAIN lines : j > i /\ lines[j] = Msg("OK")

(* As long as no answer is late, the driver never believes the device to     *)
(* have more work than it has: full queues, refused submissions, flushes and *)
(* results, all answered some time after the count was changed, never leave  *)
(* a job counted that nobody has, which would starve the device.             *)
NeverOvercounts == lates = 0 => workSubmitted <= Held

(* Where no answer is late, a new job drives the work of the old ones out of *)
(* the device's queue, although the flush has to wait for the behaviours in  *)
(* which CancelWork is stashed.                                              *)
StaleWorkFlushed ==
  <>[](behavior = "stopped" \/ lates > 0 \/ \A i \in DOMAIN queue : queue[i] = job)

(* As long as no answer is late, a device that is not too hot gets work,     *)
(* again and again, once there is any.                                       *)
KeptBusy ==
  job # 0 ~> (queue # <<>> \/ behavior = "stopped" \/ overHeating \/ lates > 0)
=============================================================================
