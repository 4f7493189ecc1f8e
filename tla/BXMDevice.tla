------------------------------ MODULE BXMDevice ------------------------------
(***************************************************************************)
(* The BXM driver (drivers/bitfury/BXMDevice.scala, BitFury.scala): an     *)
(* actor that talks to a chain of BitFury chips over SPI.  A transfer      *)
(* pushes a behaviour of its own on the actor's, in which it sends its     *)
(* data, waits for an answer of the same length, stashes almost everything *)
(* else and in the end pops itself, unstashes and calls back.  A chip is   *)
(* sent its next work again and again; between two transfers it is busy.   *)
(*                                                                         *)
(* The device (external) answers each transfer; an answer is Pieces pieces *)
(* that the read loop finds, some at a time.  Bits, nonces and the set-up  *)
(* before the first transfer are left out.  What every behaviour handles   *)
(* at once and alike, data read and new work, is one step with its arrival.*)
(***************************************************************************)
EXTENDS Integers, Sequences, FiniteSets

CONSTANTS
  nChips,
  Pieces,       \* bound: pieces of an answer
  MaxJobs,      \* bound: changes of the stratum work
  MaxTimeouts   \* bound: answers that take longer than transferTimeout

ASSUME BXMAssumption ==
  /\ nChips \in Nat \ {0} /\ Pieces \in Nat \ {0}
  /\ MaxJobs \in Nat /\ MaxTimeouts \in Nat

Chips == 0 .. nChips - 1

VARIABLES
  stack,             \* behaviours, the present one first; empty: stopped
  inbox, stash,
  buffer,            \* interfaceReadBuffer: the pieces' transfers
  wire,              \* pieces not read yet
  workSendingToChip,
  chipNextWork,      \* a chip's job, 0 if there is none
  chipCurrentWork,
  answered,          \* chips in lastResPerChip
  unbusy,            \* chips whose UnBusyChip is scheduled
  job,               \* the newest stratum work, 0 if none came yet
  failed,            \* a handler threw
  timeouts

work == <<workSendingToChip, chipNextWork, chipCurrentWork, answered, unbusy>>
bus == <<buffer, wire>>
vars == <<stack, inbox, stash, bus, work, job, failed, timeouts>>

Simple(b) == [name |-> b, chip |-> 0]
Receive == Simple("receive")
Normal == Simple("normal")
Transfer == {Simple("dummy")} \cup [name : {"init", "work"}, chip : Chips]

Self(m) == [msg |-> m]
About(m, x) == [msg |-> m, of |-> x]
Message ==
  {Self(m) : m \in {"BufferUpdated", "CancelWork", "ClearWork"}}
    \cup {About(m, c) : m \in {"SendWork", "UnBusyChip"}, c \in Chips}
    \cup {About(m, t) : m \in {"StartTransfer", "TimedOut"}, t \in Transfer}

(* Types of the driver's state: its behaviours never pile up beyond one      *)
(* transfer for each chip on top of receive or normal.                       *)
TypeOK ==
  /\ stack \in Seq(Transfer \cup {Receive, Normal}) /\ Len(stack) <= nChips + 1
  /\ inbox \in Seq(Message) /\ stash \in Seq(Message)
  /\ buffer \in Seq(Transfer) /\ wire \in Seq(Transfer)
  /\ workSendingToChip \subseteq Chips
  /\ chipNextWork \in [Chips -> 0..MaxJobs] /\ chipCurrentWork \in [Chips -> 0..MaxJobs]
  /\ answered \subseteq Chips /\ unbusy \subseteq Chips
  /\ job \in 0..MaxJobs /\ failed \in BOOLEAN /\ timeouts \in 0..MaxTimeouts

Init ==
  /\ stack = <<Receive>> /\ inbox = <<>> /\ stash = <<>>
  /\ buffer = <<>> /\ wire = <<>>
  /\ workSendingToChip = {} /\ answered = {} /\ unbusy = {}
  /\ chipNextWork = [c \in Chips |-> 0] /\ chipCurrentWork = [c \in Chips |-> 0]
  /\ job = 0 /\ failed = FALSE /\ timeouts = 0
-----------------------------------------------------------------------------
Running == stack # <<>>
Present == IF Running THEN Head(stack) ELSE Simple("stopped")
Transferring == Running /\ Present \in Transfer

(* transfer, called for the transfers ts in this order: the last is on top. *)
Push(ts, on) == [i \in DOMAIN ts |-> ts[Len(ts) + 1 - i]] \o on
Starts(ts) == [i \in DOMAIN ts |-> About("StartTransfer", ts[i])]

(* The low pins are set: purgeBuffers, and a first transfer. *)
LowPinsSet ==
  /\ stack = <<Receive>>
  /\ stack' = Push(<<Simple("dummy")>>, stack)
  /\ inbox' = inbox \o Starts(<<Simple("dummy")>>)
  /\ UNCHANGED <<stash, bus, work, job, failed, timeouts>>

(* The read loop: BulkTransferResponse with n pieces. *)
Read(n) ==
  /\ Running
  /\ buffer' = buffer \o SubSeq(wire, 1, n)
  /\ wire' = SubSeq(wire, n + 1, Len(wire))
  /\ inbox' = Append(inbox, Self("BufferUpdated"))
  /\ UNCHANGED <<stack, stash, work, job, failed, timeouts>>

(* ExtraNonce or MiningJob *)
NewWork ==
  /\ Running /\ job < MaxJobs
  /\ job' = job + 1
  /\ inbox' = Append(inbox, Self("CancelWork"))
  /\ UNCHANGED <<stack, stash, bus, work, failed, timeouts>>

(* Of the periodic ClearWork one message at most waits (bound). *)
ClearWorkTimer ==
  /\ Running
  /\ \A i \in DOMAIN (inbox \o stash) : (inbox \o stash)[i] # Self("ClearWork")
  /\ inbox' = Append(inbox, Self("ClearWork"))
  /\ UNCHANGED <<stack, stash, bus, work, job, failed, timeouts>>

UnBusyTimer(c) ==
  /\ Running /\ c \in unbusy
  /\ unbusy' = unbusy \ {c}
  /\ inbox' = Append(inbox, About("UnBusyChip", c))
  /\ UNCHANGED <<stack, stash, bus, workSendingToChip, chipNextWork, chipCurrentWork,
                 answered, job, failed, timeouts>>

(* The timer of a transfer still under way, maybe below another. *)
TransferTimer(t) ==
  /\ timeouts < MaxTimeouts
  /\ \E i \in DOMAIN stack : stack[i] = t
  /\ timeouts' = timeouts + 1
  /\ inbox' = Append(inbox, About("TimedOut", t))
  /\ UNCHANGED <<stack, stash, bus, work, job, failed>>
-----------------------------------------------------------------------------
(* Handlers of the message at the head of the mailbox.                       *)

Takes(m) == Running /\ inbox # <<>> /\ Head(inbox) = m

CancelledWork ==
  /\ Takes(Self("CancelWork")) \/ Takes(Self("ClearWork"))
  /\ chipNextWork' = [c \in Chips |-> 0]
  /\ inbox' = Tail(inbox) \o [i \in 1..nChips |-> About("SendWork", i - 1)]
  /\ UNCHANGED <<stack, stash, bus, workSendingToChip, chipCurrentWork, answered,
                 unbusy, job, failed, timeouts>>

(* Slip: also while a transfer is under way. *)
CancelWorkAnyTime == Present # Receive /\ CancelledWork

(* Slip: the chips' next works stay. *)
CancelWorkKeepsNext ==
  /\ Takes(Self("CancelWork")) \/ Takes(Self("ClearWork"))
  /\ Present = Normal
  /\ inbox' = Tail(inbox) \o [i \in 1..nChips |-> About("SendWork", i - 1)]
  /\ UNCHANGED <<stack, stash, bus, work, job, failed, timeouts>>

(* CancelWork and ClearWork do the same. *)
CancelWork == Present = Normal /\ CancelledWork

UnBusyChip(c) ==
  /\ Takes(About("UnBusyChip", c)) /\ Present = Normal
  /\ workSendingToChip' = workSendingToChip \ {c}
  /\ inbox' = Append(Tail(inbox), About("SendWork", c))
  /\ UNCHANGED <<stack, stash, bus, chipNextWork, chipCurrentWork, answered, unbusy,
                 job, failed, timeouts>>

(* bfSendWork, bfSendJob *)
SendWork(c) ==
  /\ Takes(About("SendWork", c)) /\ Present = Normal
  /\ c \notin workSendingToChip
  /\ LET next == IF chipNextWork[c] = 0 THEN job ELSE chipNextWork[c]
         t == [name |-> "work", chip |-> c]
     IN /\ next # 0
        /\ chipNextWork' = [chipNextWork EXCEPT ![c] = next]
        /\ chipCurrentWork' = [chipCurrentWork EXCEPT ![c] = IF @ = 0 THEN next ELSE @]
        /\ stack' = Push(<<t>>, stack)
        /\ inbox' = Tail(inbox) \o Starts(<<t>>)
  /\ workSendingToChip' = workSendingToChip \cup {c}
  /\ UNCHANGED <<stash, bus, answered, unbusy, job, failed, timeouts>>

(* What has no effect: SendWork of a chip that is busy or has no work, or    *)
(* during a transfer ("should probably be just one chip"); answers that are  *)
(* incomplete; what normal does not know.                                    *)
Ignores(m) ==
  \/ m.msg = "SendWork" /\ Transferring
  \/ m.msg = "SendWork" /\ Present = Normal
       /\ (m.of \in workSendingToChip \/ (chipNextWork[m.of] = 0 /\ job = 0))
  \/ m.msg = "BufferUpdated" /\ (Present = Normal \/ (Transferring /\ Len(buffer) < Pieces))
  \/ m.msg \in {"TimedOut", "StartTransfer"} /\ Present = Normal

Ignore ==
  /\ Running /\ inbox # <<>> /\ Ignores(Head(inbox))
  /\ inbox' = Tail(inbox)
  /\ UNCHANGED <<stack, stash, bus, work, job, failed, timeouts>>

(* "NonTerminated(_) => stash()" *)
Stashes(m) ==
  \/ Present = Receive
  \/ Transferring /\ m.msg \in {"CancelWork", "ClearWork", "UnBusyChip"}
  \/ Transferring /\ m.msg \in {"StartTransfer", "TimedOut"} /\ m.of # Present

(* Slip: UnBusyChip is dropped, as SendWork is. *)
StashItNotUnBusy ==
  /\ Running /\ inbox # <<>> /\ Stashes(Head(inbox))
  /\ stash' = IF Head(inbox).msg = "UnBusyChip" THEN stash ELSE Append(stash, Head(inbox))
  /\ inbox' = Tail(inbox)
  /\ UNCHANGED <<stack, bus, work, job, failed, timeouts>>

StashIt ==
  /\ Running /\ inbox # <<>> /\ Stashes(Head(inbox))
  /\ stash' = Append(stash, Head(inbox)) /\ inbox' = Tail(inbox)
  /\ UNCHANGED <<stack, bus, work, job, failed, timeouts>>
-----------------------------------------------------------------------------
(* dropBuffer(intf), then BufferUpdated if there was something to drop. *)
Dropped == IF buffer = <<>> THEN <<>> ELSE <<Self("BufferUpdated")>>

StartTransfer ==
  /\ Transferring /\ Takes(About("StartTransfer", Present))
  /\ wire' = wire \o [i \in 1..Pieces |-> Present]
  /\ buffer' = <<>> /\ inbox' = Tail(inbox) \o Dropped
  /\ UNCHANGED <<stack, stash, work, job, failed, timeouts>>

(* Slip: what the transfer stashed stays there. *)
UnbecomeKeepsStash(rest, starts) ==
  /\ Transferring /\ Takes(Self("BufferUpdated"))
  /\ Len(buffer) >= Pieces
  /\ buffer' = <<>> /\ stash' = stash
  /\ inbox' = Tail(inbox) \o Dropped \o Starts(starts)
  /\ stack' = Push(starts, rest)

(* Slip: the answer stays in the read buffer. *)
UnbecomeNoDrop(rest, starts) ==
  /\ Transferring /\ Takes(Self("BufferUpdated"))
  /\ Len(buffer) >= Pieces
  /\ buffer' = buffer /\ stash' = <<>>
  /\ inbox' = stash \o Tail(inbox) \o Starts(starts)
  /\ stack' = Push(starts, rest)

(* The end of a transfer, with the stack rest below it: the callback may     *)
(* push others, starts.                                                      *)
Unbecome(rest, starts) ==
  /\ Transferring /\ Takes(Self("BufferUpdated"))
  /\ Len(buffer) >= Pieces
  /\ buffer' = <<>>
  /\ inbox' = stash \o Tail(inbox) \o Dropped \o Starts(starts)
  /\ stash' = <<>>
  /\ stack' = Push(starts, rest)

(* Slip: normal is put on top of receive. *)
ReinitKeepsReceive ==
  /\ Running /\ Present = Simple("dummy")
  /\ Unbecome(<<Normal, Receive>>, [i \in 1..nChips |-> [name |-> "init", chip |-> i - 1]])
  /\ UNCHANGED <<wire, work, job, failed, timeouts>>

(* reinit: the chips' transfers are begun one on top of the other. *)
Reinit ==
  /\ Running /\ Present = Simple("dummy")
  /\ Unbecome(<<Normal>>, [i \in 1..nChips |-> [name |-> "init", chip |-> i - 1]])
  /\ UNCHANGED <<wire, work, job, failed, timeouts>>

ChipDone ==
  /\ Running /\ Present.name = "init"
  /\ Unbecome(Tail(stack), <<>>)
  /\ UNCHANGED <<wire, work, job, failed, timeouts>>

(* Slip: the chip is never freed. *)
WorkSentStaysBusy(c) ==
  /\ Running /\ Present = [name |-> "work", chip |-> c]
  /\ Unbecome(Tail(stack), <<>>)
  /\ UNCHANGED <<wire, work, job, failed, timeouts>>

(* The callback of bfSendJob: decNonces finds the work changed in the first  *)
(* answer, and whenever the chip says so.                                    *)
WorkSent(c) ==
  /\ Running /\ Present = [name |-> "work", chip |-> c]
  /\ Unbecome(Tail(stack), <<>>)
  /\ \E workChanged \in {TRUE} \cup {c \notin answered} :
       /\ failed' = (chipCurrentWork[c] = 0 \/ (workChanged /\ chipNextWork[c] = 0))
       /\ chipCurrentWork' = [chipCurrentWork EXCEPT
                                ![c] = IF workChanged THEN chipNextWork[c] ELSE @]
       /\ chipNextWork' = [chipNextWork EXCEPT ![c] = IF workChanged THEN 0 ELSE @]
  /\ answered' = answered \cup {c}
  /\ unbusy' = unbusy \cup {c}
  /\ UNCHANGED <<wire, workSendingToChip, job, timeouts>>

TimedOut ==
  /\ Transferring /\ Takes(About("TimedOut", Present))
  /\ stack' = <<>> /\ inbox' = <<>> /\ stash' = <<>>
  /\ UNCHANGED <<bus, work, job, failed, timeouts>>
-----------------------------------------------------------------------------
Handle ==
  \/ CancelWork \/ Ignore \/ StashIt \/ StartTransfer \/ Reinit \/ ChipDone \/ TimedOut
  \/ \E c \in Chips : UnBusyChip(c) \/ SendWork(c) \/ WorkSent(c)

Next ==
  \/ LowPinsSet \/ NewWork \/ ClearWorkTimer
  \/ \E n \in 1 .. Len(wire) : Read(n)
  \/ \E c \in Chips : UnBusyTimer(c)
  \/ \E t \in Transfer : TransferTimer(t)
  \/ Handle

Spec == Init /\ [][Next]_vars

(* The device answers and is read, timers fire, messages are handled.        *)
Fairness ==
  /\ WF_vars(LowPinsSet) /\ WF_vars(Handle)
  /\ WF_vars(\E n \in 1 .. Len(wire) : Read(n))
  /\ \A c \in Chips : WF_vars(UnBusyTimer(c))

FairSpec == Spec /\ Fairness
-----------------------------------------------------------------------------
Waiting(m) == Cardinality({i \in DOMAIN (inbox \o stash) : (inbox \o stash)[i] = m})
Under(t) == Cardinality({i \in DOMAIN stack : stack[i] = t})

(* The maps that decNonces applies to a chip have it, whatever CancelWork    *)
(* and ClearWork remove from them while the chip's answer is under way: else *)
(* the callback throws and the driver is lost.                               *)
NeverFails == ~ failed

(* What is in the read buffer or on its way is the answer to the transfer in *)
(* front, although initialisation begins several at once and each takes      *)
(* whatever is there: no callback gets the answer to another transfer.       *)
OwnAnswer ==
  Running => \A i \in DOMAIN (buffer \o wire) : (buffer \o wire)[i] = Present

(* A chip is marked as being sent work exactly as long as one thing is left  *)
(* that will free it: its transfer, the timer after it, or the message of    *)
(* that, in the mailbox or stashed by the transfer of another chip.          *)
BusyIsFreed ==
  Running => \A c \in Chips :
    Under([name |-> "work", chip |-> c]) + Waiting(About("UnBusyChip", c))
      + Cardinality(unbusy \cap {c}) = Cardinality(workSendingToChip \cap {c})

(* No chip is to be sent work of an old job, unless the CancelWork of the    *)
(* new one is still to be handled.                                           *)
NextWorkFresh ==
  Running /\ Waiting(Self("CancelWork")) = 0 =>
    \A c \in Chips : chipNextWork[c] \in {0, job}

(* Every transfer comes to its end, those covered by another one too, or the *)
(* driver stops.                                                             *)
TransfersEnd == \A t \in Transfer : Under(t) > 0 ~> Under(t) = 0

(* Once there is work, chips are sent work again and again, although every   *)
(* SendWork that comes during a transfer is dropped.                         *)
KeepsSending == job # 0 ~> (~ Running \/ Present.name = "work")
=============================================================================
