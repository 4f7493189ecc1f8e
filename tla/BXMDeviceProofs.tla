--------------------------- MODULE BXMDeviceProofs ---------------------------
(***************************************************************************)
(* Proofs about BXMDevice, for any number of chips, pieces of an answer,   *)
(* jobs and timeouts: its types, that no callback throws or gets another   *)
(* transfer's answer, that busy marks are freed and that no old work is    *)
(* sent.                                                                   *)
(***************************************************************************)
EXTENDS BXMDevice, FiniteSetTheorems, SequenceTheorems, TLAPS

(* The message m is not in the mailbox q, or once at most. *)
Lacks(q, m) == \A i \in 1..Len(q) : q[i] # m
Once(q, m) == \A i, j \in 1..Len(q) : q[i] = m /\ q[j] = m => i = j

Gone(m) == Lacks(inbox, m) /\ Lacks(stash, m)
Single(m) == Once(inbox, m) /\ Once(stash, m) /\ (Lacks(inbox, m) \/ Lacks(stash, m))

LEMMA Empty ==
  ASSUME NEW m
  PROVE  Lacks(<<>>, m) /\ Once(<<>>, m) /\ <<>> \in Seq(Message)
BY DEF Lacks, Once

LEMMA One ==
  ASSUME NEW x \in Message
  PROVE  /\ <<x>> \in Seq(Message)
         /\ \A m : (Lacks(<<x>>, m) <=> x # m) /\ Once(<<x>>, m)
BY DEF Lacks, Once

LEMMA LacksOnce ==
  ASSUME NEW q, NEW m, Lacks(q, m)
  PROVE  Once(q, m)
BY DEF Lacks, Once

LEMMA Both ==
  ASSUME NEW q \in Seq(Message), NEW r \in Seq(Message)
  PROVE  /\ q \o r \in Seq(Message)
         /\ \A m : /\ Lacks(q \o r, m) <=> Lacks(q, m) /\ Lacks(r, m)
                   /\ Once(q \o r, m) <=> /\ Once(q, m) /\ Once(r, m)
                                          /\ Lacks(q, m) \/ Lacks(r, m)
<1>1. /\ q \o r \in Seq(Message) /\ Len(q \o r) = Len(q) + Len(r)
      /\ Len(q) \in Nat /\ Len(r) \in Nat
      /\ \A i \in 1..Len(q) : (q \o r)[i] = q[i]
      /\ \A i \in 1..Len(r) : (q \o r)[Len(q) + i] = r[i]
  <2>1. q \o r \in Seq(Message) /\ Len(q \o r) = Len(q) + Len(r) /\ Len(q) \in Nat /\ Len(r) \in Nat
    OBVIOUS
  <2>2. \A i \in 1..Len(q) : (q \o r)[i] = q[i]
    OBVIOUS
  <2>3. \A i \in 1..Len(r) : (q \o r)[Len(q) + i] = r[i]
    OBVIOUS
  <2> QED
    BY <2>1, <2>2, <2>3
<1> SUFFICES ASSUME NEW m
             PROVE  /\ Lacks(q \o r, m) <=> Lacks(q, m) /\ Lacks(r, m)
                    /\ Once(q \o r, m) <=> /\ Once(q, m) /\ Once(r, m)
                                           /\ Lacks(q, m) \/ Lacks(r, m)
  BY <1>1
<1> DEFINE p == q \o r
<1>2. \A i \in 1..Len(p) : i \in 1..Len(q) \/ (i - Len(q) \in 1..Len(r) /\ p[i] = r[i - Len(q)])
  BY <1>1
<1> HIDE DEF p
<1>3. Lacks(p, m) <=> Lacks(q, m) /\ Lacks(r, m)
  <2>1. ASSUME Lacks(p, m) PROVE Lacks(q, m) /\ Lacks(r, m)
    <3>1. \A i \in 1..Len(q) : i \in 1..Len(p)
      BY <1>1 DEF p
    <3>2. \A i \in 1..Len(r) : Len(q) + i \in 1..Len(p)
      BY <1>1 DEF p
    <3> QED
      BY <1>1, <2>1, <3>1, <3>2 DEF Lacks, p
  <2>2. ASSUME Lacks(q, m), Lacks(r, m) PROVE Lacks(p, m)
    BY <1>1, <1>2, <2>2 DEF Lacks, p
  <2> QED
    BY <2>1, <2>2
<1>4. Once(p, m) <=> Once(q, m) /\ Once(r, m) /\ (Lacks(q, m) \/ Lacks(r, m))
  <2>1. ASSUME Once(p, m) PROVE Once(q, m) /\ Once(r, m) /\ (Lacks(q, m) \/ Lacks(r, m))
    <3>1. \A i \in 1..Len(q) : i \in 1..Len(p) /\ p[i] = q[i]
      BY <1>1 DEF p
    <3>2. \A i \in 1..Len(r) : Len(q) + i \in 1..Len(p) /\ p[Len(q) + i] = r[i]
      BY <1>1 DEF p
    <3>3. Once(q, m)
      BY <2>1, <3>1 DEF Once
    <3>4. Once(r, m)
      <4> SUFFICES ASSUME NEW i \in 1..Len(r), NEW j \in 1..Len(r), r[i] = m, r[j] = m
                   PROVE  i = j
        BY DEF Once
      <4>1. Len(q) + i = Len(q) + j
        BY <2>1, <3>2 DEF Once
      <4> QED
        BY <1>1, <4>1
    <3>5. Lacks(q, m) \/ Lacks(r, m)
      <4> SUFFICES ASSUME NEW i \in 1..Len(q), NEW j \in 1..Len(r), q[i] = m, r[j] = m
                   PROVE  FALSE
        BY DEF Lacks
      <4>1. i = Len(q) + j
        BY <2>1, <3>1, <3>2 DEF Once
      <4> QED
        BY <1>1, <4>1
    <3> QED
      BY <3>3, <3>4, <3>5
  <2>2. ASSUME Once(q, m), Once(r, m), Lacks(q, m) \/ Lacks(r, m) PROVE Once(p, m)
    <3> SUFFICES ASSUME NEW i \in 1..Len(p), NEW j \in 1..Len(p), p[i] = m, p[j] = m
                 PROVE  i = j
      BY DEF Once
    <3>1. CASE i \in 1..Len(q) /\ j \in 1..Len(q)
      BY <1>1, <2>2, <3>1 DEF Once, p
    <3>2. CASE i \notin 1..Len(q) /\ j \notin 1..Len(q)
      <4>1. i - Len(q) = j - Len(q)
        BY <1>2, <2>2, <3>2 DEF Once
      <4> QED
        BY <1>1, <4>1
    <3>3. CASE i \in 1..Len(q) /\ j \notin 1..Len(q)
      <4>1. p[i] = q[i] /\ j - Len(q) \in 1..Len(r) /\ p[j] = r[j - Len(q)]
        BY <1>1, <1>2, <3>3 DEF p
      <4> QED
        BY <2>2, <3>3, <4>1 DEF Lacks
    <3>4. CASE i \notin 1..Len(q) /\ j \in 1..Len(q)
      <4>1. p[j] = q[j] /\ i - Len(q) \in 1..Len(r) /\ p[i] = r[i - Len(q)]
        BY <1>1, <1>2, <3>4 DEF p
      <4> QED
        BY <2>2, <3>4, <4>1 DEF Lacks
    <3> QED
      BY <3>1, <3>2, <3>3, <3>4
  <2> QED
    BY <2>1, <2>2
<1> QED
  BY <1>3, <1>4 DEF p

LEMMA Put ==
  ASSUME NEW q \in Seq(Message), NEW x \in Message
  PROVE  /\ q \o <<x>> \in Seq(Message)
         /\ \A m : /\ Lacks(q \o <<x>>, m) <=> Lacks(q, m) /\ x # m
                   /\ Once(q \o <<x>>, m) <=> Once(q, m) /\ (Lacks(q, m) \/ x # m)
                   /\ Lacks(<<x>> \o q, m) <=> x # m /\ Lacks(q, m)
                   /\ Once(<<x>> \o q, m) <=> Once(q, m) /\ (Lacks(q, m) \/ x # m)
<1> DEFINE y == <<x>>
<1>1. y \in Seq(Message) /\ \A m : (Lacks(y, m) <=> x # m) /\ Once(y, m)
  BY One
<1> HIDE DEF y
<1>2. /\ q \o y \in Seq(Message)
      /\ \A m : /\ Lacks(q \o y, m) <=> Lacks(q, m) /\ Lacks(y, m)
                /\ Once(q \o y, m) <=> Once(q, m) /\ Once(y, m) /\ (Lacks(q, m) \/ Lacks(y, m))
  BY <1>1, Both
<1>3. \A m : /\ Lacks(y \o q, m) <=> Lacks(y, m) /\ Lacks(q, m)
             /\ Once(y \o q, m) <=> Once(y, m) /\ Once(q, m) /\ (Lacks(y, m) \/ Lacks(q, m))
  BY <1>1, Both
<1>4. /\ q \o y \in Seq(Message)
      /\ \A m : /\ Lacks(q \o y, m) <=> Lacks(q, m) /\ x # m
                /\ Once(q \o y, m) <=> Once(q, m) /\ (Lacks(q, m) \/ x # m)
                /\ Lacks(y \o q, m) <=> x # m /\ Lacks(q, m)
                /\ Once(y \o q, m) <=> Once(q, m) /\ (Lacks(q, m) \/ x # m)
  BY <1>1, <1>2, <1>3
<1> QED
  BY <1>4 DEF y

LEMMA Split ==
  ASSUME NEW q \in Seq(Message), q # <<>>
  PROVE  /\ Head(q) \in Message /\ Tail(q) \in Seq(Message)
         /\ \A m : /\ Lacks(q, m) <=> Head(q) # m /\ Lacks(Tail(q), m)
                   /\ Once(q, m) <=> Once(Tail(q), m) /\ (Head(q) = m => Lacks(Tail(q), m))
<1>1. Head(q) \in Message /\ Tail(q) \in Seq(Message) /\ q = <<Head(q)>> \o Tail(q)
  OBVIOUS
<1> DEFINE x == Head(q)
           t == Tail(q)
<1> HIDE DEF x, t
<1>2. x \in Message /\ t \in Seq(Message) /\ q = <<x>> \o t
  BY <1>1 DEF x, t
<1>3. \A m : /\ Lacks(q, m) <=> x # m /\ Lacks(t, m)
             /\ Once(q, m) <=> Once(t, m) /\ (Lacks(t, m) \/ x # m)
  BY <1>2, Put
<1> QED
  BY <1>1, <1>3 DEF x, t
-----------------------------------------------------------------------------
(* Of the message m there are as many in the mailbox and the stash as there  *)
(* were, or, if there were more, still so.                                   *)
Same(m) == (Gone(m)' <=> Gone(m)) /\ (Single(m) => Single(m)')

(* What a step may do to mailbox and stash: r is put at the end. *)
Added(r) == inbox' = inbox \o r /\ stash' = stash
Taken(r) == inbox # <<>> /\ inbox' = Tail(inbox) \o r /\ stash' = stash
Moved == inbox # <<>> /\ inbox' = Tail(inbox) /\ stash' = Append(stash, Head(inbox))
Unstashed(r) == inbox # <<>> /\ inbox' = (stash \o Tail(inbox)) \o r /\ stash' = <<>>

Mail == inbox \in Seq(Message) /\ stash \in Seq(Message)

LEMMA AddedMail ==
  ASSUME Mail, NEW r \in Seq(Message), Added(r)
  PROVE  /\ Mail'
         /\ \A m : /\ Lacks(r, m) => Same(m)
                   /\ Gone(m) /\ Once(r, m) => Single(m)'
                   /\ ~ Lacks(r, m) => ~ Gone(m)'
BY Both, LacksOnce DEF Mail, Added, Same, Gone, Single

LEMMA TakenMail ==
  ASSUME Mail, NEW r \in Seq(Message), Taken(r)
  PROVE  /\ Mail' /\ Head(inbox) \in Message
         /\ \A m : /\ Lacks(r, m) /\ Head(inbox) # m => Same(m)
                   /\ Lacks(r, m) /\ Head(inbox) = m /\ Single(m) => Gone(m)'
                   /\ Lacks(r, m) /\ Single(m) => Single(m)'
                   /\ Gone(m) /\ Once(r, m) => Single(m)'
                   /\ ~ Lacks(r, m) => ~ Gone(m)'
                   /\ Head(inbox) = m => ~ Gone(m)
<1>1. Tail(inbox) \in Seq(Message) /\ Head(inbox) \in Message
  BY Split DEF Mail, Taken
<1>2. Mail'
  BY <1>1, Both DEF Mail, Taken
<1>3. \A m : /\ Lacks(inbox, m) <=> Head(inbox) # m /\ Lacks(Tail(inbox), m)
             /\ Once(inbox, m) <=> Once(Tail(inbox), m) /\ (Head(inbox) = m => Lacks(Tail(inbox), m))
             /\ Lacks(inbox', m) <=> Lacks(Tail(inbox), m) /\ Lacks(r, m)
             /\ Once(inbox', m) <=> /\ Once(Tail(inbox), m) /\ Once(r, m)
                                    /\ Lacks(Tail(inbox), m) \/ Lacks(r, m)
             /\ Lacks(r, m) => Once(r, m)
  BY <1>1, Split, Both, LacksOnce DEF Mail, Taken
<1> QED
  BY <1>1, <1>2, <1>3, LacksOnce DEF Taken, Same, Gone, Single

LEMMA MovedMail ==
  ASSUME Mail, Moved
  PROVE  Mail' /\ Head(inbox) \in Message /\ \A m : Same(m)
<1>1. /\ Tail(inbox) \in Seq(Message) /\ Head(inbox) \in Message
      /\ stash' = stash \o <<Head(inbox)>> /\ <<Head(inbox)>> \in Seq(Message)
  BY Split DEF Mail, Moved
<1>2. Mail'
  BY <1>1, Both DEF Mail, Moved
<1>3. \A m : /\ Lacks(inbox, m) <=> Head(inbox) # m /\ Lacks(Tail(inbox), m)
             /\ Once(inbox, m) <=> Once(Tail(inbox), m) /\ (Head(inbox) = m => Lacks(Tail(inbox), m))
             /\ Lacks(stash', m) <=> Lacks(stash, m) /\ Head(inbox) # m
             /\ Once(stash', m) <=> Once(stash, m) /\ (Lacks(stash, m) \/ Head(inbox) # m)
  <2>1. \A m : /\ Lacks(inbox, m) <=> Head(inbox) # m /\ Lacks(Tail(inbox), m)
               /\ Once(inbox, m) <=> Once(Tail(inbox), m) /\ (Head(inbox) = m => Lacks(Tail(inbox), m))
    BY Split DEF Mail, Moved
  <2> DEFINE x == Head(inbox)
  <2> HIDE DEF x
  <2>2. x \in Message /\ stash \in Seq(Message) /\ stash' = stash \o <<x>>
    BY <1>1 DEF x, Mail
  <2>3. \A m : /\ Lacks(stash', m) <=> Lacks(stash, m) /\ x # m
               /\ Once(stash', m) <=> Once(stash, m) /\ (Lacks(stash, m) \/ x # m)
    BY <2>2, Put
  <2> QED
    BY <2>1, <2>3 DEF x
<1> QED
  BY <1>1, <1>2, <1>3 DEF Moved, Same, Gone, Single

LEMMA UnstashedMail ==
  ASSUME Mail, NEW r \in Seq(Message), Unstashed(r)
  PROVE  /\ Mail' /\ Head(inbox) \in Message
         /\ \A m : /\ Lacks(r, m) /\ Head(inbox) # m => Same(m)
                   /\ Gone(m) /\ Once(r, m) => Single(m)'
                   /\ ~ Lacks(r, m) => ~ Gone(m)'
<1>1. Tail(inbox) \in Seq(Message) /\ Head(inbox) \in Message
  BY Split DEF Mail, Unstashed
<1>2. stash \o Tail(inbox) \in Seq(Message)
  BY <1>1, Both DEF Mail
<1>3. Mail'
  BY <1>2, Both, Empty DEF Mail, Unstashed
<1>4. \A m : /\ Lacks(inbox, m) <=> Head(inbox) # m /\ Lacks(Tail(inbox), m)
             /\ Once(inbox, m) <=> Once(Tail(inbox), m) /\ (Head(inbox) = m => Lacks(Tail(inbox), m))
             /\ Lacks(stash \o Tail(inbox), m) <=> Lacks(stash, m) /\ Lacks(Tail(inbox), m)
             /\ Once(stash \o Tail(inbox), m) <=>
                  /\ Once(stash, m) /\ Once(Tail(inbox), m)
                  /\ Lacks(stash, m) \/ Lacks(Tail(inbox), m)
  BY <1>1, Split, Both DEF Mail, Unstashed
<1>5. \A m : /\ Lacks(inbox', m) <=> Lacks(stash \o Tail(inbox), m) /\ Lacks(r, m)
             /\ Once(inbox', m) <=> /\ Once(stash \o Tail(inbox), m) /\ Once(r, m)
                                    /\ Lacks(stash \o Tail(inbox), m) \/ Lacks(r, m)
             /\ Lacks(r, m) => Once(r, m)
             /\ Lacks(stash', m) /\ Once(stash', m)
  BY <1>2, Both, LacksOnce, Empty DEF Unstashed
<1> QED
  BY <1>1, <1>3, <1>4, <1>5, LacksOnce DEF Same, Gone, Single
-----------------------------------------------------------------------------
Dummy == Simple("dummy")
InitOf(c) == [name |-> "init", chip |-> c]
WorkOf(c) == [name |-> "work", chip |-> c]

(* The stack that reinit leaves, when the last k chips of it are to come.    *)
Inits(k) == [i \in 1 .. k + 1 |-> IF i = k + 1 THEN Normal ELSE InitOf(k - i)]

(* Only the transfers of reinit lie on top of each other. *)
Shaped(s) ==
  \/ s = <<>> \/ s = <<Receive>> \/ s = <<Dummy, Receive>>
  \/ \E c \in Chips : s = <<WorkOf(c), Normal>>
  \/ \E k \in 0..nChips : s = Inits(k)

Shape == Shaped(stack)

Has(s, t) == \E i \in 1..Len(s) : s[i] = t
OnStack(t) == Has(stack, t)
Sending(c) == stack = <<WorkOf(c), Normal>>

Start(t) == About("StartTransfer", t)
Freeing(c) == About("UnBusyChip", c)
NewJob == Self("CancelWork")

(* A transfer is begun once, and only while it is on the stack. *)
StartsOK ==
  Running => \A t \in Transfer :
    Single(Start(t)) /\ (~ OnStack(t) => Gone(Start(t)))

(* What was read or will be is one answer at most, the present transfer's,   *)
(* and nothing if that was not begun.                                        *)
AnswersOK ==
  Running =>
    /\ \A i \in 1..Len(buffer) : buffer[i] = Present
    /\ \A i \in 1..Len(wire) : wire[i] = Present
    /\ Present \in Transfer => Len(buffer) + Len(wire) <= Pieces
    /\ Present \notin Transfer \/ ~ Gone(Start(Present)) => buffer = <<>> /\ wire = <<>>

(* A chip that is being sent work has some. *)
WorksOK ==
  \A c \in Chips : Sending(c) => chipNextWork[c] # 0 /\ chipCurrentWork[c] # 0

FreshOK ==
  Running /\ Gone(NewJob) => \A c \in Chips : chipNextWork[c] \in {0, job}

(* One thing at most will free a chip: its transfer, a message, the timer.   *)
FreedOK ==
  Running => \A c \in Chips :
    /\ Single(Freeing(c))
    /\ c \in workSendingToChip =>
         \/ Sending(c) /\ Gone(Freeing(c)) /\ c \notin unbusy
         \/ ~ Sending(c) /\ ~ Gone(Freeing(c)) /\ c \notin unbusy
         \/ ~ Sending(c) /\ Gone(Freeing(c)) /\ c \in unbusy
    /\ c \notin workSendingToChip =>
         ~ Sending(c) /\ Gone(Freeing(c)) /\ c \notin unbusy

IInv ==
  TypeOK /\ Shape /\ StartsOK /\ AnswersOK /\ WorksOK /\ FreshOK /\ FreedOK /\ NeverFails

LEMMA Messages ==
  /\ \A t \in Transfer : Start(t) \in Message /\ Start(t).msg = "StartTransfer" /\ Start(t).of = t
  /\ \A c \in Chips : Freeing(c) \in Message /\ Freeing(c).msg = "UnBusyChip" /\ Freeing(c).of = c
  /\ NewJob \in Message /\ NewJob.msg = "CancelWork"
  /\ \A m \in {"BufferUpdated", "CancelWork", "ClearWork"} : Self(m) \in Message /\ Self(m).msg = m
  /\ \A t \in Transfer : About("TimedOut", t) \in Message /\ About("TimedOut", t).msg = "TimedOut"
                          /\ About("TimedOut", t).of = t
  /\ \A c \in Chips : About("SendWork", c) \in Message /\ About("SendWork", c).msg = "SendWork"
<1>1. \A m, x : About(m, x).msg = m /\ About(m, x).of = x
  BY DEF About
<1>2. /\ \A t \in Transfer : About("StartTransfer", t) \in Message /\ About("TimedOut", t) \in Message
      /\ \A c \in Chips : About("UnBusyChip", c) \in Message /\ About("SendWork", c) \in Message
  BY DEF Message
<1>3. \A m \in {"BufferUpdated", "CancelWork", "ClearWork"} : Self(m) \in Message /\ Self(m).msg = m
  BY DEF Self, Message
<1> QED
  BY <1>1, <1>2, <1>3 DEF Start, Freeing, NewJob

LEMMA Behaviours ==
  /\ nChips \in Nat \ {0} /\ Pieces \in Nat \ {0}
  /\ Dummy \in Transfer /\ Normal \notin Transfer /\ Receive \notin Transfer
  /\ Normal # Receive
  /\ Dummy.name = "dummy" /\ Normal.name = "normal" /\ Receive.name = "receive"
  /\ \A c \in Chips : /\ InitOf(c) \in Transfer /\ WorkOf(c) \in Transfer
                       /\ InitOf(c).name = "init" /\ WorkOf(c).name = "work"
                       /\ InitOf(c).chip = c /\ WorkOf(c).chip = c
BY BXMAssumption DEF Dummy, Normal, Receive, Simple, Transfer, InitOf, WorkOf

(* The present behaviour, and what is below it. *)
LEMMA Stacks ==
  /\ \A c \in Chips : /\ <<WorkOf(c), Normal>> # <<>> /\ Head(<<WorkOf(c), Normal>>) = WorkOf(c)
                       /\ Tail(<<WorkOf(c), Normal>>) = Inits(0)
  /\ Head(<<Dummy, Receive>>) = Dummy /\ Head(<<Receive>>) = Receive
  /\ Inits(0) = <<Normal>>
  /\ \A k \in 0..nChips :
       /\ Inits(k) \in Seq(Transfer \cup {Receive, Normal}) /\ Len(Inits(k)) = k + 1
       /\ Inits(k) # <<>>
       /\ Head(Inits(k)) = IF k = 0 THEN Normal ELSE InitOf(k - 1)
       /\ k > 0 => Tail(Inits(k)) = Inits(k - 1)
<1>1. Inits(0) = <<Normal>>
  BY DEF Inits
<1>2. ASSUME NEW k \in 0..nChips
      PROVE  /\ Inits(k) \in Seq(Transfer \cup {Receive, Normal}) /\ Len(Inits(k)) = k + 1
             /\ Inits(k) # <<>>
             /\ Head(Inits(k)) = IF k = 0 THEN Normal ELSE InitOf(k - 1)
             /\ k > 0 => Tail(Inits(k)) = Inits(k - 1)
  <2>0. k \in Nat /\ nChips \in Nat
    BY Behaviours
  <2>1. \A i \in 1..k : k - i \in Chips
    BY <2>0 DEF Chips
  <2>2. Inits(k) \in Seq(Transfer \cup {Receive, Normal}) /\ Len(Inits(k)) = k + 1
    <3>1. \A i \in 1 .. k + 1 : Inits(k)[i] \in Transfer \cup {Receive, Normal}
      BY <2>0, <2>1, Behaviours DEF Inits
    <3>2. DOMAIN Inits(k) = 1 .. k + 1 /\ Inits(k) = [i \in 1 .. k + 1 |-> Inits(k)[i]]
      BY DEF Inits
    <3> QED
      BY <2>0, <3>1, <3>2
  <2>3. Inits(k) # <<>> /\ Head(Inits(k)) = Inits(k)[1]
    BY <2>0, <2>2
  <2>4. Inits(k)[1] = IF k = 0 THEN Normal ELSE InitOf(k - 1)
    BY <2>0 DEF Inits
  <2>5. ASSUME k > 0 PROVE Tail(Inits(k)) = Inits(k - 1)
    <3>1. Tail(Inits(k)) = [i \in 1..k |-> Inits(k)[i + 1]]
      <4> DEFINE s == Inits(k)
      <4> HIDE DEF s
      <4>1. s \in Seq(Transfer \cup {Receive, Normal}) /\ Len(s) = k + 1
        BY <2>2 DEF s
      <4>2. s # <<>>
        BY <4>1, <2>0
      <4>3. /\ Tail(s) \in Seq(Transfer \cup {Receive, Normal}) /\ Len(Tail(s)) = k
            /\ \A i \in 1..k : Tail(s)[i] = s[i + 1]
        BY <4>1, <4>2, <2>0, HeadTailProperties
      <4>4. Tail(s) = [i \in 1..k |-> Tail(s)[i]]
        BY <4>3, LenProperties
      <4> QED
        BY <4>3, <4>4 DEF s
    <3>2. \A i \in 1..k : Inits(k)[i + 1] = IF i = k THEN Normal ELSE InitOf((k - 1) - i)
      BY <2>0 DEF Inits
    <3>3. Inits(k - 1) = [i \in 1..k |-> IF i = k THEN Normal ELSE InitOf((k - 1) - i)]
      BY <2>0 DEF Inits
    <3> QED
      BY <3>1, <3>2, <3>3
  <2> QED
    BY <2>2, <2>3, <2>4, <2>5
<1>3. \A c \in Chips : /\ <<WorkOf(c), Normal>> # <<>> /\ Head(<<WorkOf(c), Normal>>) = WorkOf(c)
                       /\ Tail(<<WorkOf(c), Normal>>) = <<Normal>>
  OBVIOUS
<1>4. Head(<<Dummy, Receive>>) = Dummy /\ Head(<<Receive>>) = Receive
  OBVIOUS
<1> QED
  BY <1>1, <1>2, <1>3, <1>4

(* The behaviours of each shape. *)
LEMMA Presents ==
  ASSUME Shape, Running
  PROVE  /\ Present = Head(stack)
         /\ \/ stack = <<Receive>> /\ Present = Receive
            \/ stack = <<Dummy, Receive>> /\ Present = Dummy
            \/ \E c \in Chips : Sending(c) /\ Present = WorkOf(c)
            \/ stack = Inits(0) /\ Present = Normal
            \/ \E k \in 1..nChips : stack = Inits(k) /\ Present = InitOf(k - 1) /\ k - 1 \in Chips
<1>1. Present = Head(stack)
  BY DEF Present
<1>2. CASE \E k \in 0..nChips : stack = Inits(k)
  <2> PICK k \in 0..nChips : stack = Inits(k)
    BY <1>2
  <2>1. k > 0 => k \in 1..nChips /\ k - 1 \in Chips
    BY Behaviours DEF Chips
  <2> QED
    BY <1>1, <2>1, Stacks, Behaviours
<1>3. CASE \E c \in Chips : stack = <<WorkOf(c), Normal>>
  BY <1>1, <1>3, Stacks DEF Sending
<1>4. CASE stack = <<Receive>> \/ stack = <<Dummy, Receive>>
  BY <1>1, <1>4, Stacks
<1> QED
  BY <1>1, <1>2, <1>3, <1>4 DEF Shape, Shaped, Running
-----------------------------------------------------------------------------
(* What transfer puts on the stack and in the mailbox. *)
Behaviour == Transfer \cup {Receive, Normal}
InitList == [i \in 1..nChips |-> InitOf(i - 1)]

LEMMA PushNone ==
  ASSUME NEW s \in Seq(Behaviour)
  PROVE  Push(<<>>, s) = s /\ Starts(<<>>) = <<>>
<1>1. [i \in DOMAIN <<>> |-> <<>>[Len(<<>>) + 1 - i]] = <<>>
  OBVIOUS
<1>2. Starts(<<>>) = <<>>
  BY DEF Starts
<1> QED
  BY <1>1, <1>2, ConcatEmptySeq DEF Push

LEMMA PushOne ==
  ASSUME NEW t, NEW b
  PROVE  Push(<<t>>, <<b>>) = <<t, b>> /\ Starts(<<t>>) = <<Start(t)>>
<1>1. [i \in DOMAIN <<t>> |-> <<t>>[Len(<<t>>) + 1 - i]] = <<t>>
  OBVIOUS
<1>2. Starts(<<t>>) = <<Start(t)>>
  BY DEF Starts, Start
<1>3. <<t>> \o <<b>> = <<t, b>>
  <2> DEFINE S == {t, b}
  <2>1. /\ <<t>> \in Seq(S) /\ <<b>> \in Seq(S) /\ <<t, b>> \in Seq(S)
        /\ Len(<<t>>) = 1 /\ Len(<<b>>) = 1 /\ Len(<<t, b>>) = 2
    OBVIOUS
  <2>2. /\ <<t>> \o <<b>> \in Seq(S) /\ Len(<<t>> \o <<b>>) = 2
        /\ \A i \in 1..2 : (<<t>> \o <<b>>)[i] = IF i <= 1 THEN <<t>>[i] ELSE <<b>>[i - 1]
    BY <2>1, ConcatProperties
  <2>3. \A i \in 1..2 : (<<t>> \o <<b>>)[i] = <<t, b>>[i]
    BY <2>2
  <2> QED
    BY <2>1, <2>2, <2>3, SeqEqual
<1>4. Push(<<t>>, <<b>>) = [i \in DOMAIN <<t>> |-> <<t>>[Len(<<t>>) + 1 - i]] \o <<b>>
  BY Zenon DEF Push
<1> QED
  BY <1>1, <1>2, <1>3, <1>4, Zenon

LEMMA PushInits ==
  /\ Push(InitList, <<Normal>>) = Inits(nChips)
  /\ Starts(InitList) \in Seq(Message)
  /\ \A m : Once(Starts(InitList), m)
  /\ \A m : (\A c \in Chips : m # Start(InitOf(c))) => Lacks(Starts(InitList), m)
<1>0. nChips \in Nat /\ \A i \in 1..nChips : i - 1 \in Chips /\ nChips - i \in Chips
  BY Behaviours DEF Chips
<1>1. InitList \in Seq(Behaviour) /\ Len(InitList) = nChips /\ DOMAIN InitList = 1..nChips
  <2>1. \A i \in 1..nChips : InitList[i] \in Behaviour
    BY <1>0, Behaviours DEF InitList, Behaviour
  <2>2. DOMAIN InitList = 1..nChips /\ InitList = [i \in 1..nChips |-> InitList[i]]
    BY DEF InitList
  <2> QED
    BY <1>0, <2>1, <2>2
<1>2. Push(InitList, <<Normal>>) = Inits(nChips)
  <2> DEFINE r == [i \in 1..nChips |-> InitOf(nChips - i)]
  <2>1. [i \in DOMAIN InitList |-> InitList[Len(InitList) + 1 - i]] = r
    <3>1. \A i \in 1..nChips : InitList[nChips + 1 - i] = InitOf(nChips - i)
      BY <1>0 DEF InitList
    <3> QED
      BY <1>1, <3>1
  <2>2. r \in Seq(Behaviour) /\ Len(r) = nChips /\ \A i \in 1..nChips : r[i] = InitOf(nChips - i)
    <3>1. \A i \in 1..nChips : r[i] \in Behaviour
      BY <1>0, Behaviours DEF Behaviour
    <3> QED
      BY <1>0, <3>1
  <2> HIDE DEF r
  <2>3. <<Normal>> \in Seq(Behaviour) /\ Len(<<Normal>>) = 1 /\ <<Normal>>[1] = Normal
    BY DEF Behaviour
  <2>4. /\ r \o <<Normal>> \in Seq(Behaviour) /\ Len(r \o <<Normal>>) = nChips + 1
        /\ \A i \in 1 .. nChips + 1 :
             (r \o <<Normal>>)[i] = IF i <= nChips THEN r[i] ELSE <<Normal>>[i - nChips]
    BY <2>2, <2>3, ConcatProperties
  <2>5. \A i \in 1 .. nChips + 1 : (r \o <<Normal>>)[i] = Inits(nChips)[i]
    <3> SUFFICES ASSUME NEW i \in 1 .. nChips + 1
                 PROVE  (r \o <<Normal>>)[i] = Inits(nChips)[i]
      OBVIOUS
    <3>1. Inits(nChips)[i] = IF i = nChips + 1 THEN Normal ELSE InitOf(nChips - i)
      BY DEF Inits
    <3>2. CASE i = nChips + 1
      BY <1>0, <2>3, <2>4, <3>1, <3>2
    <3>3. CASE i # nChips + 1
      <4>1. i \in 1..nChips /\ i <= nChips
        BY <1>0, <3>3
      <4> QED
        BY <2>2, <2>4, <3>1, <3>3, <4>1
    <3> QED
      BY <3>2, <3>3
  <2>6. Inits(nChips) \in Seq(Behaviour) /\ Len(Inits(nChips)) = nChips + 1
    <3>1. nChips \in 0..nChips
      BY <1>0
    <3> QED
      BY <3>1, Stacks DEF Behaviour
  <2>7. r \o <<Normal>> = Inits(nChips)
    BY <2>4, <2>5, <2>6, SeqEqual
  <2> QED
    BY <2>1, <2>7 DEF Push
<1>3. /\ Starts(InitList) \in Seq(Message) /\ Len(Starts(InitList)) = nChips
      /\ \A i \in 1..nChips : Starts(InitList)[i] = Start(InitOf(i - 1))
  <2>1. Starts(InitList) = [i \in 1..nChips |-> Start(InitOf(i - 1))]
    BY <1>1 DEF Starts, Start, InitList
  <2>2. \A i \in 1..nChips : Start(InitOf(i - 1)) \in Message
    BY <1>0, Behaviours, Messages
  <2> QED
    BY <1>0, <2>1, <2>2
<1>4. \A c, d \in Chips : Start(InitOf(c)) = Start(InitOf(d)) => c = d
  BY Behaviours, Messages
<1>5. \A m : Once(Starts(InitList), m)
  <2> SUFFICES ASSUME NEW i \in 1..nChips, NEW j \in 1..nChips,
                      Start(InitOf(i - 1)) = Start(InitOf(j - 1))
               PROVE  i = j
    BY <1>3 DEF Once
  <2>1. i - 1 = j - 1
    BY <1>0, <1>4
  <2> QED
    BY <2>1
<1>6. \A m : (\A c \in Chips : m # Start(InitOf(c))) => Lacks(Starts(InitList), m)
  BY <1>0, <1>3 DEF Lacks
<1> QED
  BY <1>2, <1>3, <1>5, <1>6

(* Which transfers lie on each stack. *)
LEMMA OnStacks ==
  ASSUME NEW t \in Transfer
  PROVE  /\ ~ Has(<<Receive>>, t)
         /\ Has(<<Dummy, Receive>>, t) <=> t = Dummy
         /\ \A c \in Chips : Has(<<WorkOf(c), Normal>>, t) <=> t = WorkOf(c)
         /\ \A k \in 0..nChips : Has(Inits(k), t) <=> \E j \in 0 .. k - 1 : t = InitOf(j)
<1>1. \A c \in Chips : Has(<<WorkOf(c), Normal>>, t) <=> t = WorkOf(c)
  BY Behaviours DEF Has
<1>2. ASSUME NEW k \in 0..nChips
      PROVE  Has(Inits(k), t) <=> \E j \in 0 .. k - 1 : t = InitOf(j)
  <2>1. k \in Nat /\ Len(Inits(k)) = k + 1
    BY Behaviours, Stacks
  <2>2. \A i \in 1 .. k + 1 : Inits(k)[i] = IF i = k + 1 THEN Normal ELSE InitOf(k - i)
    BY DEF Inits
  <2>3. ASSUME Has(Inits(k), t) PROVE \E j \in 0 .. k - 1 : t = InitOf(j)
    <3>1. PICK i \in 1 .. k + 1 : Inits(k)[i] = t
      BY <2>1, <2>3 DEF Has
    <3>2. i # k + 1 /\ t = InitOf(k - i)
      BY <2>2, <3>1, Behaviours
    <3>3. k - i \in 0 .. k - 1
      BY <2>1, <3>2
    <3> QED
      BY <3>2, <3>3
  <2>4. ASSUME NEW j \in 0 .. k - 1, t = InitOf(j) PROVE Has(Inits(k), t)
    <3>1. k - j \in 1 .. k + 1 /\ k - j # k + 1 /\ k - (k - j) = j
      BY <2>1
    <3>2. Inits(k)[k - j] = t
      BY <2>2, <2>4, <3>1
    <3> QED
      BY <2>1, <3>1, <3>2 DEF Has
  <2> QED
    BY <2>3, <2>4
<1>3. ~ Has(<<Receive>>, t)
  BY Behaviours DEF Has
<1>4. Has(<<Dummy, Receive>>, t) <=> t = Dummy
  BY Behaviours DEF Has
<1> QED
  BY <1>1, <1>2, <1>3, <1>4
-----------------------------------------------------------------------------
(* The types besides those of stack and mailbox. *)
Data ==
  /\ buffer \in Seq(Transfer) /\ wire \in Seq(Transfer)
  /\ workSendingToChip \subseteq Chips
  /\ chipNextWork \in [Chips -> 0..MaxJobs] /\ chipCurrentWork \in [Chips -> 0..MaxJobs]
  /\ answered \subseteq Chips /\ unbusy \subseteq Chips
  /\ job \in 0..MaxJobs /\ failed \in BOOLEAN /\ timeouts \in 0..MaxTimeouts

LEMMA ShapeTypes ==
  ASSUME NEW s, Shaped(s)
  PROVE  s \in Seq(Transfer \cup {Receive, Normal}) /\ Len(s) <= nChips + 1
<1>0. nChips \in Nat /\ nChips >= 1
  BY Behaviours
<1>1. CASE s = <<>> \/ s = <<Receive>> \/ s = <<Dummy, Receive>>
  <2>1. CASE s = <<>>
    BY <1>0, <2>1
  <2>2. CASE s = <<Receive>>
    BY <1>0, <2>2
  <2>3. CASE s = <<Dummy, Receive>>
    BY <1>0, <2>3, Behaviours
  <2> QED
    BY <1>1, <2>1, <2>2, <2>3
<1>2. CASE \E c \in Chips : s = <<WorkOf(c), Normal>>
  BY <1>0, <1>2, Behaviours
<1>3. CASE \E k \in 0..nChips : s = Inits(k)
  BY <1>0, <1>3, Behaviours, Stacks
<1> QED
  BY <1>1, <1>2, <1>3 DEF Shaped

LEMMA Types ==
  ASSUME Shape, Mail, Data
  PROVE  TypeOK
BY ShapeTypes DEF Shape, Mail, Data, TypeOK

LEMMA TypesNext ==
  ASSUME Shape', Mail', Data'
  PROVE  TypeOK'
BY ShapeTypes DEF Shape, Mail, Data, TypeOK

LEMMA Typed ==
  ASSUME TypeOK
  PROVE  Mail /\ Data
BY DEF Mail, Data, TypeOK

LEMMA Arrival ==
  ASSUME Mail, NEW x \in Message, inbox' = Append(inbox, x), stash' = stash
  PROVE  /\ Mail'
         /\ \A m : (x # m => Same(m)) /\ (Gone(m) => Single(m)') /\ (x = m => ~ Gone(m)')
<1>1. Added(<<x>>)
  BY DEF Mail, Added
<1> DEFINE r == <<x>>
<1>2. r \in Seq(Message) /\ \A m : (Lacks(r, m) <=> x # m) /\ Once(r, m)
  BY One
<1>3. Added(r)
  BY <1>1
<1> HIDE DEF r
<1> QED
  BY <1>2, <1>3, AddedMail

LEMMA Departure ==
  ASSUME Mail, inbox # <<>>, inbox' = Tail(inbox), stash' = stash
  PROVE  /\ Mail' /\ Head(inbox) \in Message
         /\ \A m : /\ Head(inbox) # m => Same(m)
                   /\ Single(m) => Single(m)'
                   /\ Head(inbox) = m /\ Single(m) => Gone(m)'
                   /\ Gone(m) => Gone(m)'
<1>1. Tail(inbox) \in Seq(Message)
  BY Split DEF Mail
<1>2. Taken(<<>>)
  BY <1>1, ConcatEmptySeq DEF Taken
<1>3. <<>> \in Seq(Message) /\ \A m : Lacks(<<>>, m)
  BY Empty
<1>4. /\ Mail' /\ Head(inbox) \in Message
      /\ \A m : /\ Head(inbox) # m => Same(m)
                /\ Head(inbox) = m /\ Single(m) => Gone(m)'
                /\ Single(m) => Single(m)'
                /\ Head(inbox) = m => ~ Gone(m)
  BY <1>2, <1>3, TakenMail
<1> QED
  BY <1>4 DEF Same

(* What a step that leaves the stack alone keeps. *)
StartsKept ==
  \A t \in Transfer : /\ Gone(Start(t)) => Gone(Start(t))'
                      /\ Single(Start(t)) => Single(Start(t))'

LEMMA StackKept ==
  ASSUME Shape, StartsOK, stack' = stack, StartsKept
  PROVE  Shape' /\ StartsOK'
<1>1. Shape'
  BY DEF Shape
<1>2. Running' <=> Running
  BY DEF Running
<1>3. \A t : OnStack(t)' <=> OnStack(t)
  BY DEF OnStack
<1> QED
  BY <1>1, <1>2, <1>3 DEF StartsOK, StartsKept

LEMMA AnswersKept ==
  ASSUME AnswersOK, stack' = stack, buffer' = buffer, wire' = wire, StartsKept
  PROVE  AnswersOK'
<1>1. (Running' <=> Running) /\ Present' = Present
  BY DEF Running, Present
<1> QED
  BY <1>1 DEF AnswersOK, StartsKept

LEMMA AnswersNone ==
  ASSUME buffer' = <<>>, wire' = <<>>
  PROVE  AnswersOK'
BY Behaviours DEF AnswersOK

LEMMA WorksKept ==
  ASSUME WorksOK, chipNextWork' = chipNextWork, chipCurrentWork' = chipCurrentWork,
         \A c \in Chips : Sending(c)' => Sending(c)
  PROVE  WorksOK'
BY DEF WorksOK

LEMMA FreshKept ==
  ASSUME FreshOK, Running, chipNextWork' = chipNextWork, job' = job, Gone(NewJob)' => Gone(NewJob)
  PROVE  FreshOK'
BY DEF FreshOK

LEMMA FreedKept ==
  ASSUME FreedOK, Running, workSendingToChip' = workSendingToChip, unbusy' = unbusy,
         \A c \in Chips : (Sending(c)' <=> Sending(c)) /\ Same(Freeing(c))
  PROVE  FreedOK'
BY DEF FreedOK, Same
-----------------------------------------------------------------------------
LEMMA InitIInv ==
  ASSUME Init
  PROVE  IInv
<1>1. Mail /\ \A m : Gone(m) /\ Single(m)
  BY Empty DEF Init, Mail, Gone, Single
<1>2. Shape /\ Running
  BY DEF Init, Shape, Shaped, Running
<1>3. Data
  <2>1. [c \in Chips |-> 0] \in [Chips -> 0..MaxJobs]
    BY BXMAssumption
  <2>2. chipNextWork \in [Chips -> 0..MaxJobs] /\ chipCurrentWork \in [Chips -> 0..MaxJobs]
    BY <2>1, Zenon DEF Init
  <2>3. <<>> \in Seq(Transfer)
    OBVIOUS
  <2>4. buffer \in Seq(Transfer) /\ wire \in Seq(Transfer)
    BY <2>3, Zenon DEF Init
  <2>5. /\ workSendingToChip \subseteq Chips /\ answered \subseteq Chips /\ unbusy \subseteq Chips
        /\ failed \in BOOLEAN
    BY DEF Init
  <2>6. job \in 0..MaxJobs /\ timeouts \in 0..MaxTimeouts
    BY BXMAssumption DEF Init
  <2> QED
    BY <2>2, <2>4, <2>5, <2>6, Zenon DEF Data
<1>4. TypeOK
  BY <1>1, <1>2, <1>3, Types
<1>5. Present = Receive /\ \A c \in Chips : ~ Sending(c)
  BY <1>2, Behaviours, Stacks DEF Init, Present, Sending
<1>6. StartsOK /\ FreedOK
  BY <1>1, <1>5 DEF Init, StartsOK, FreedOK
<1>7. AnswersOK /\ WorksOK /\ FreshOK /\ NeverFails
  BY <1>5, Behaviours DEF Init, AnswersOK, WorksOK, FreshOK, NeverFails
<1> QED
  BY <1>2, <1>4, <1>6, <1>7 DEF IInv

LEMMA LowPinsSetStep ==
  ASSUME IInv, LowPinsSet
  PROVE  IInv'
<1>1. Mail /\ Data
  BY Typed DEF IInv
<1>2. /\ stack = <<Receive>> /\ stack' = <<Dummy, Receive>>
      /\ inbox' = inbox \o <<Start(Dummy)>> /\ stash' = stash
  BY PushOne DEF LowPinsSet, Dummy
<1>3. Running /\ Present = Receive
  BY <1>2, Stacks DEF Running, Present
<1> DEFINE r == <<Start(Dummy)>>
<1>4. r \in Seq(Message) /\ \A m : (Lacks(r, m) <=> Start(Dummy) # m) /\ Once(r, m)
  BY Behaviours, Messages, One
<1>5. Added(r)
  BY <1>2 DEF Added
<1> HIDE DEF r
<1>6. /\ Mail'
      /\ \A m : /\ Start(Dummy) # m => Same(m)
                /\ Gone(m) => Single(m)'
  BY <1>1, <1>4, <1>5, AddedMail
<1>7. \A t \in Transfer : Single(Start(t))' /\ (t # Dummy => Gone(Start(t))')
  <2>1. \A t \in Transfer : Gone(Start(t))
    BY <1>2, <1>3, OnStacks DEF IInv, StartsOK, OnStack
  <2> QED
    BY <1>6, <2>1, Behaviours, Messages DEF Same
<1>8. \A m \in {NewJob} \cup {Freeing(c) : c \in Chips} : Same(m)
  BY <1>6, Behaviours, Messages
<1>9. Shape' /\ Data'
  BY <1>1, <1>2 DEF Shape, Shaped, Data, LowPinsSet, bus, work
<1>10. TypeOK'
  BY <1>6, <1>9, TypesNext
<1>11. StartsOK'
  <2>1. \A t \in Transfer : OnStack(t)' <=> t = Dummy
    BY <1>2, OnStacks DEF OnStack
  <2> QED
    BY <1>7, <2>1 DEF StartsOK
<1>12. AnswersOK'
  <2>1. buffer = <<>> /\ wire = <<>>
    BY <1>3, Behaviours DEF IInv, AnswersOK
  <2> QED
    BY <2>1, AnswersNone DEF LowPinsSet, bus
<1>13. \A c \in Chips : ~ Sending(c) /\ ~ Sending(c)'
  <2>1. \A c \in Chips : <<WorkOf(c), Normal>> # <<Receive>>
    BY Behaviours, Stacks
  <2>2. \A c \in Chips : <<WorkOf(c), Normal>> # <<Dummy, Receive>>
    BY Behaviours, Stacks
  <2> QED
    BY <1>2, <2>1, <2>2 DEF Sending
<1>14. WorksOK' /\ FreshOK' /\ FreedOK' /\ NeverFails'
  BY <1>3, <1>8, <1>13, WorksKept, FreshKept, FreedKept
     DEF IInv, LowPinsSet, work, Same, NeverFails
<1> QED
  BY <1>9, <1>10, <1>11, <1>12, <1>14 DEF IInv

LEMMA NewWorkStep ==
  ASSUME IInv, NewWork
  PROVE  IInv'
<1>1. Mail /\ Data
  BY Typed DEF IInv
<1>2. inbox' = Append(inbox, NewJob) /\ stash' = stash /\ NewJob \in Message
  BY Messages DEF NewWork, NewJob
<1>3. Mail' /\ ~ Gone(NewJob)' /\ \A m : NewJob # m => Same(m)
  BY <1>1, <1>2, Arrival
<1>4. StartsKept /\ \A c \in Chips : Same(Freeing(c))
  BY <1>3, Messages DEF StartsKept, Same
<1>5. Shape' /\ StartsOK'
  BY <1>4, StackKept DEF IInv, NewWork
<1>6. AnswersOK'
  BY <1>4, AnswersKept DEF IInv, NewWork, bus
<1>7. Data'
  BY <1>1, BXMAssumption DEF Data, NewWork, bus, work
<1>8. TypeOK'
  BY <1>3, <1>5, <1>7, TypesNext
<1>9. \A c \in Chips : Sending(c)' <=> Sending(c)
  BY DEF Sending, NewWork
<1>10. WorksOK' /\ FreedOK'
  BY <1>4, <1>9, WorksKept, FreedKept DEF IInv, NewWork, work
<1>11. FreshOK' /\ NeverFails'
  BY <1>3 DEF IInv, FreshOK, NeverFails, NewWork
<1> QED
  BY <1>5, <1>6, <1>8, <1>10, <1>11 DEF IInv

LEMMA ClearWorkTimerStep ==
  ASSUME IInv, ClearWorkTimer
  PROVE  IInv'
<1>1. Mail /\ Data
  BY Typed DEF IInv
<1>2. inbox' = Append(inbox, Self("ClearWork")) /\ stash' = stash /\ Self("ClearWork") \in Message
  BY Messages DEF ClearWorkTimer
<1>3. Mail' /\ \A m : Self("ClearWork") # m => Same(m)
  BY <1>1, <1>2, Arrival
<1>4. StartsKept /\ Same(NewJob) /\ \A c \in Chips : Same(Freeing(c))
  BY <1>3, Messages DEF StartsKept, Same
<1>5. Shape' /\ StartsOK'
  BY <1>4, StackKept DEF IInv, ClearWorkTimer
<1>6. AnswersOK'
  BY <1>4, AnswersKept DEF IInv, ClearWorkTimer, bus
<1>7. Data'
  BY <1>1 DEF Data, ClearWorkTimer, bus, work
<1>8. TypeOK'
  BY <1>3, <1>5, <1>7, TypesNext
<1>9. \A c \in Chips : Sending(c)' <=> Sending(c)
  BY DEF Sending, ClearWorkTimer
<1>10. WorksOK' /\ FreedOK' /\ FreshOK' /\ NeverFails'
  BY <1>4, <1>9, WorksKept, FreedKept, FreshKept DEF IInv, ClearWorkTimer, work, Same, NeverFails
<1> QED
  BY <1>5, <1>6, <1>8, <1>10 DEF IInv

LEMMA UnBusyTimerStep ==
  ASSUME IInv, NEW d \in Chips, UnBusyTimer(d)
  PROVE  IInv'
<1>1. Mail /\ Data
  BY Typed DEF IInv
<1>2. inbox' = Append(inbox, Freeing(d)) /\ stash' = stash /\ Freeing(d) \in Message
  BY Messages DEF UnBusyTimer, Freeing
<1>3. /\ Mail'
      /\ \A m : /\ Freeing(d) # m => Same(m)
                /\ Gone(m) => Single(m)'
                /\ Freeing(d) = m => ~ Gone(m)'
  BY <1>1, <1>2, Arrival
<1>4. StartsKept /\ Same(NewJob) /\ \A c \in Chips \ {d} : Same(Freeing(c))
  BY <1>3, Messages DEF StartsKept, Same
<1>5. Shape' /\ StartsOK'
  BY <1>4, StackKept DEF IInv, UnBusyTimer
<1>6. AnswersOK'
  BY <1>4, AnswersKept DEF IInv, UnBusyTimer, bus
<1>7. Data'
  BY <1>1 DEF Data, UnBusyTimer, bus
<1>8. TypeOK'
  BY <1>3, <1>5, <1>7, TypesNext
<1>9. \A c \in Chips : Sending(c)' <=> Sending(c)
  BY DEF Sending, UnBusyTimer
<1>10. WorksOK' /\ FreshOK' /\ NeverFails'
  BY <1>4, <1>9, WorksKept, FreshKept DEF IInv, UnBusyTimer, Same, NeverFails
<1>11. FreedOK'
  <2>1. Running /\ d \in unbusy /\ unbusy' = unbusy \ {d} /\ workSendingToChip' = workSendingToChip
    BY DEF UnBusyTimer
  <2>2. d \in workSendingToChip /\ Gone(Freeing(d)) /\ ~ Sending(d)
    BY <2>1 DEF IInv, FreedOK
  <2>3. Single(Freeing(d))' /\ ~ Gone(Freeing(d))'
    BY <1>3, <2>2
  <2> QED
    BY <1>4, <1>9, <2>1, <2>2, <2>3 DEF IInv, FreedOK, Same
<1> QED
  BY <1>5, <1>6, <1>8, <1>10, <1>11 DEF IInv

LEMMA TransferTimerStep ==
  ASSUME IInv, NEW u \in Transfer, TransferTimer(u)
  PROVE  IInv'
<1>1. Mail /\ Data
  BY Typed DEF IInv
<1>2. /\ inbox' = Append(inbox, About("TimedOut", u)) /\ stash' = stash
      /\ About("TimedOut", u) \in Message
  BY Messages DEF TransferTimer
<1>3. Mail' /\ \A m : About("TimedOut", u) # m => Same(m)
  BY <1>1, <1>2, Arrival
<1>4. StartsKept /\ Same(NewJob) /\ \A c \in Chips : Same(Freeing(c))
  BY <1>3, Messages DEF StartsKept, Same
<1>5. Shape' /\ StartsOK'
  BY <1>4, StackKept DEF IInv, TransferTimer
<1>6. AnswersOK'
  BY <1>4, AnswersKept DEF IInv, TransferTimer, bus
<1>7. Data'
  BY <1>1, BXMAssumption DEF Data, TransferTimer, bus, work
<1>8. TypeOK'
  BY <1>3, <1>5, <1>7, TypesNext
<1>9. Running /\ \A c \in Chips : Sending(c)' <=> Sending(c)
  <2>1. stack # <<>>
    BY DEF TransferTimer
  <2> QED
    BY <2>1 DEF Sending, Running, TransferTimer
<1>10. WorksOK' /\ FreedOK' /\ FreshOK' /\ NeverFails'
  BY <1>4, <1>9, WorksKept, FreedKept, FreshKept DEF IInv, TransferTimer, work, Same, NeverFails
<1> QED
  BY <1>5, <1>6, <1>8, <1>10 DEF IInv

LEMMA ReadStep ==
  ASSUME IInv, NEW n \in 1 .. Len(wire), Read(n)
  PROVE  IInv'
<1>1. Mail /\ Data
  BY Typed DEF IInv
<1>2. /\ inbox' = Append(inbox, Self("BufferUpdated")) /\ stash' = stash
      /\ Self("BufferUpdated") \in Message
  BY Messages DEF Read
<1>3. Mail' /\ \A m : Self("BufferUpdated") # m => Same(m)
  BY <1>1, <1>2, Arrival
<1>4. StartsKept /\ Same(NewJob) /\ \A c \in Chips : Same(Freeing(c))
  BY <1>3, Messages DEF StartsKept, Same
<1>5. Shape' /\ StartsOK'
  BY <1>4, StackKept DEF IInv, Read
<1>6. /\ buffer' \in Seq(Transfer) /\ wire' \in Seq(Transfer)
      /\ Len(buffer') + Len(wire') = Len(buffer) + Len(wire)
      /\ \A i \in 1..Len(buffer') : (\E j \in 1..Len(buffer) : buffer'[i] = buffer[j])
                                    \/ (\E j \in 1..Len(wire) : buffer'[i] = wire[j])
      /\ \A i \in 1..Len(wire') : \E j \in 1..Len(wire) : wire'[i] = wire[j]
  <2> DEFINE p == SubSeq(wire, 1, n)
             q == SubSeq(wire, n + 1, Len(wire))
  <2>1. buffer \in Seq(Transfer) /\ wire \in Seq(Transfer) /\ Len(wire) \in Nat /\ n \in Nat
    BY <1>1 DEF Data
  <2>2. \A i \in 1..Len(wire) : wire[i] \in Transfer
    BY <2>1
  <2>3. /\ p \in Seq(Transfer) /\ Len(p) = n
        /\ \A i \in 1..n : p[i] = wire[i]
    <3>1. \A i \in 1..n : wire[i] \in Transfer
      BY <2>1, <2>2
    <3>2. /\ p \in Seq(Transfer) /\ Len(p) = IF 1 <= n THEN n - 1 + 1 ELSE 0
          /\ \A i \in 1 .. n - 1 + 1 : p[i] = wire[1 + i - 1]
      BY <2>1, <3>1, SubSeqProperties
    <3> QED
      BY <2>1, <3>2
  <2>4. /\ q \in Seq(Transfer) /\ Len(q) = Len(wire) - n
        /\ \A i \in 1..Len(q) : q[i] = wire[n + i]
    <3>1. \A i \in n + 1 .. Len(wire) : wire[i] \in Transfer
      BY <2>1, <2>2
    <3>2. /\ q \in Seq(Transfer)
          /\ Len(q) = IF n + 1 <= Len(wire) THEN Len(wire) - (n + 1) + 1 ELSE 0
          /\ \A i \in 1 .. Len(wire) - (n + 1) + 1 : q[i] = wire[n + 1 + i - 1]
      BY <2>1, <3>1, SubSeqProperties
    <3> QED
      BY <2>1, <3>2
  <2> HIDE DEF p, q
  <2>5. buffer' = buffer \o p /\ wire' = q
    BY DEF Read, p, q
  <2>6. /\ buffer \o p \in Seq(Transfer) /\ Len(buffer \o p) = Len(buffer) + n
        /\ \A i \in 1 .. Len(buffer) + n :
             (buffer \o p)[i] = IF i <= Len(buffer) THEN buffer[i] ELSE p[i - Len(buffer)]
    BY <2>1, <2>3, ConcatProperties
  <2>7. \A i \in 1..Len(buffer') : (\E j \in 1..Len(buffer) : buffer'[i] = buffer[j])
                                    \/ (\E j \in 1..Len(wire) : buffer'[i] = wire[j])
    <3> SUFFICES ASSUME NEW i \in 1 .. Len(buffer) + n
                 PROVE  (\E j \in 1..Len(buffer) : buffer'[i] = buffer[j])
                          \/ (\E j \in 1..Len(wire) : buffer'[i] = wire[j])
      BY <2>5, <2>6
    <3>1. CASE i <= Len(buffer)
      BY <2>1, <2>5, <2>6, <3>1
    <3>2. CASE i > Len(buffer)
      <4>1. Len(buffer) \in Nat
        BY <2>1
      <4>2. i - Len(buffer) \in 1..n /\ i - Len(buffer) \in 1..Len(wire)
        BY <2>1, <3>2, <4>1
      <4> QED
        BY <2>3, <2>5, <2>6, <3>2, <4>1, <4>2
    <3> QED
      BY <2>1, <3>1, <3>2
  <2>8. \A i \in 1..Len(wire') : \E j \in 1..Len(wire) : wire'[i] = wire[j]
    <3> SUFFICES ASSUME NEW i \in 1..Len(q)
                 PROVE  \E j \in 1..Len(wire) : q[i] = wire[j]
      BY <2>5
    <3>1. n + i \in 1..Len(wire)
      BY <2>1, <2>4
    <3> QED
      BY <2>4, <3>1
  <2>9. Len(buffer') + Len(wire') = Len(buffer) + Len(wire)
    <3>1. Len(buffer) \in Nat
      BY <2>1
    <3>2. Len(buffer') = Len(buffer) + n
      BY <2>5, <2>6
    <3>3. Len(wire') = Len(wire) - n
      BY <2>4, <2>5
    <3> QED
      BY <2>1, <3>1, <3>2, <3>3
  <2> QED
    BY <2>4, <2>5, <2>6, <2>7, <2>8, <2>9
<1>7. AnswersOK'
  <2>1. Running /\ Running' /\ Present' = Present
    BY DEF Read, Running, Present
  <2>2. Present \in Transfer /\ Gone(Start(Present))
    <3>1. wire # <<>>
      BY <1>1 DEF Data
    <3> QED
      BY <2>1, <3>1 DEF IInv, AnswersOK
  <2>3. Gone(Start(Present))'
    BY <1>4, <2>1, <2>2 DEF StartsKept
  <2>4. Len(buffer') + Len(wire') <= Pieces
    BY <1>6, <2>1, <2>2 DEF IInv, AnswersOK
  <2>5. /\ \A i \in 1..Len(buffer') : buffer'[i] = Present
        /\ \A i \in 1..Len(wire') : wire'[i] = Present
    BY <1>6, <2>1 DEF IInv, AnswersOK
  <2> QED
    BY <2>1, <2>2, <2>3, <2>4, <2>5 DEF AnswersOK
<1>8. Data'
  BY <1>1, <1>6 DEF Data, Read, work
<1>9. TypeOK'
  BY <1>3, <1>5, <1>8, TypesNext
<1>10. Running /\ \A c \in Chips : Sending(c)' <=> Sending(c)
  BY DEF Sending, Read
<1>11. WorksOK' /\ FreedOK' /\ FreshOK' /\ NeverFails'
  BY <1>4, <1>10, WorksKept, FreedKept, FreshKept DEF IInv, Read, work, Same, NeverFails
<1> QED
  BY <1>5, <1>7, <1>9, <1>11 DEF IInv
-----------------------------------------------------------------------------
LEMMA CancelWorkStep ==
  ASSUME IInv, CancelWork
  PROVE  IInv'
<1>1. Mail /\ Data /\ Running /\ inbox # <<>>
  BY Typed DEF IInv, CancelWork, CancelledWork, Takes
<1>2. Head(inbox).msg \in {"CancelWork", "ClearWork"}
  BY Messages DEF CancelWork, CancelledWork, Takes
<1> DEFINE r == [i \in 1..nChips |-> About("SendWork", i - 1)]
<1>3. r \in Seq(Message) /\ \A m : m.msg # "SendWork" => Lacks(r, m)
  <2>1. nChips \in Nat /\ \A i \in 1..nChips : i - 1 \in Chips
    BY Behaviours DEF Chips
  <2>2. \A i \in 1..nChips : r[i] \in Message /\ r[i].msg = "SendWork"
    BY <2>1, Messages
  <2>3. r \in Seq(Message) /\ Len(r) = nChips
    BY <2>1, <2>2
  <2> QED
    BY <2>2, <2>3 DEF Lacks
<1>4. Taken(r)
  BY <1>1 DEF CancelWork, CancelledWork, Taken
<1> HIDE DEF r
<1>5. /\ Mail'
      /\ \A m : /\ Lacks(r, m) /\ Head(inbox) # m => Same(m)
                /\ Lacks(r, m) /\ Single(m) => Single(m)'
  BY <1>1, <1>3, <1>4, TakenMail
<1>6. StartsKept /\ \A c \in Chips : Same(Freeing(c))
  <2>1. \A t \in Transfer : Lacks(r, Start(t)) /\ Head(inbox) # Start(t)
    BY <1>2, <1>3, Messages
  <2>2. \A c \in Chips : Lacks(r, Freeing(c)) /\ Head(inbox) # Freeing(c)
    BY <1>2, <1>3, Messages
  <2> QED
    BY <1>5, <2>1, <2>2 DEF StartsKept, Same
<1>7. Shape' /\ StartsOK'
  BY <1>6, StackKept DEF IInv, CancelWork, CancelledWork
<1>8. AnswersOK'
  BY <1>6, AnswersKept DEF IInv, CancelWork, CancelledWork, bus
<1>9. chipNextWork' = [c \in Chips |-> 0] /\ \A c \in Chips : chipNextWork'[c] = 0
  BY DEF CancelWork, CancelledWork
<1>10. chipNextWork' \in [Chips -> 0..MaxJobs]
  BY <1>9, BXMAssumption
<1>11. Data'
  BY <1>1, <1>10 DEF Data, CancelWork, CancelledWork, bus
<1>12. TypeOK'
  BY <1>5, <1>7, <1>11, TypesNext
<1>13. \A c \in Chips : (Sending(c)' <=> Sending(c)) /\ ~ Sending(c)
  BY <1>1, Stacks, Behaviours DEF Sending, CancelWork, CancelledWork, Present
<1>14. WorksOK' /\ FreedOK' /\ FreshOK' /\ NeverFails'
  BY <1>1, <1>6, <1>9, <1>13, FreedKept
     DEF IInv, WorksOK, FreshOK, CancelWork, CancelledWork, NeverFails
<1> QED
  BY <1>7, <1>8, <1>12, <1>14 DEF IInv

LEMMA UnBusyChipStep ==
  ASSUME IInv, NEW d \in Chips, UnBusyChip(d)
  PROVE  IInv'
<1>1. Mail /\ Data /\ Running /\ inbox # <<>> /\ Head(inbox) = Freeing(d)
  BY Typed DEF IInv, UnBusyChip, Takes, Freeing
<1> DEFINE r == <<About("SendWork", d)>>
<1>2. r \in Seq(Message) /\ \A m : m.msg # "SendWork" => Lacks(r, m)
  BY Messages, One
<1>3. Tail(inbox) \in Seq(Message)
  BY <1>1, Split DEF Mail
<1>4. Taken(r)
  BY <1>1, <1>3 DEF UnBusyChip, Taken
<1> HIDE DEF r
<1>5. /\ Mail'
      /\ \A m : /\ Lacks(r, m) /\ Head(inbox) # m => Same(m)
                /\ Lacks(r, m) /\ Head(inbox) = m /\ Single(m) => Gone(m)'
                /\ Lacks(r, m) /\ Single(m) => Single(m)'
                /\ Head(inbox) = m => ~ Gone(m)
  BY <1>1, <1>2, <1>4, TakenMail
<1>6. /\ \A t \in Transfer : Lacks(r, Start(t)) /\ Freeing(d) # Start(t)
      /\ Lacks(r, NewJob) /\ Freeing(d) # NewJob
      /\ \A c \in Chips : Lacks(r, Freeing(c)) /\ (c # d => Freeing(d) # Freeing(c))
  BY <1>2, Messages
<1>7. StartsKept /\ Same(NewJob) /\ \A c \in Chips \ {d} : Same(Freeing(c))
  BY <1>1, <1>5, <1>6 DEF StartsKept, Same
<1>8. Shape' /\ StartsOK'
  BY <1>7, StackKept DEF IInv, UnBusyChip
<1>9. AnswersOK'
  BY <1>7, AnswersKept DEF IInv, UnBusyChip, bus
<1>10. Data'
  BY <1>1 DEF Data, UnBusyChip, bus
<1>11. TypeOK'
  BY <1>5, <1>8, <1>10, TypesNext
<1>12. \A c \in Chips : Sending(c)' <=> Sending(c)
  BY DEF Sending, UnBusyChip
<1>13. WorksOK' /\ FreshOK' /\ NeverFails'
  BY <1>1, <1>7, <1>12, WorksKept, FreshKept DEF IInv, UnBusyChip, Same, NeverFails
<1>14. FreedOK'
  <2>1. ~ Gone(Freeing(d)) /\ Single(Freeing(d))
    BY <1>1, <1>5 DEF IInv, FreedOK
  <2>2. ~ Sending(d) /\ d \notin unbusy
    BY <1>1, <2>1 DEF IInv, FreedOK
  <2>3. Gone(Freeing(d))' /\ Single(Freeing(d))'
    BY <1>1, <1>5, <1>6, <2>1
  <2>4. workSendingToChip' = workSendingToChip \ {d} /\ unbusy' = unbusy
    BY DEF UnBusyChip
  <2> QED
    BY <1>1, <1>7, <1>12, <2>2, <2>3, <2>4 DEF IInv, FreedOK, Same
<1> QED
  BY <1>8, <1>9, <1>11, <1>13, <1>14 DEF IInv

LEMMA SendWorkStep ==
  ASSUME IInv, NEW d \in Chips, SendWork(d)
  PROVE  IInv'
<1>1. Mail /\ Data /\ Running /\ inbox # <<>> /\ Present = Normal
  BY Typed DEF IInv, SendWork, Takes
<1>2. stack = <<Normal>> /\ stack = Inits(0)
  BY <1>1, Presents, Behaviours, Stacks DEF IInv
<1>3. stack' = <<WorkOf(d), Normal>> /\ inbox' = Tail(inbox) \o <<Start(WorkOf(d))>>
  BY <1>2, PushOne DEF SendWork, WorkOf
<1> DEFINE r == <<Start(WorkOf(d))>>
<1>4. r \in Seq(Message) /\ \A m : (Lacks(r, m) <=> Start(WorkOf(d)) # m) /\ Once(r, m)
  BY Behaviours, Messages, One
<1>5. Taken(r)
  BY <1>1, <1>3 DEF SendWork, Taken
<1> HIDE DEF r
<1>6. Head(inbox).msg = "SendWork"
  BY Messages DEF SendWork, Takes
<1>7. /\ Mail'
      /\ \A m : /\ Lacks(r, m) /\ Head(inbox) # m => Same(m)
                /\ Gone(m) /\ Once(r, m) => Single(m)'
  BY <1>1, <1>4, <1>5, TakenMail
<1>8. Same(NewJob) /\ \A c \in Chips : Same(Freeing(c))
  <2>1. Start(WorkOf(d)).msg = "StartTransfer"
    BY Behaviours, Messages
  <2> QED
    BY <1>4, <1>6, <1>7, <2>1, Messages
<1>9. \A t \in Transfer : Single(Start(t))' /\ (t # WorkOf(d) => Gone(Start(t))')
  <2>1. \A t \in Transfer : Gone(Start(t))
    <3>1. \A t \in Transfer : ~ OnStack(t)
      BY <1>2, Behaviours DEF OnStack, Has
    <3> QED
      BY <1>1, <3>1 DEF IInv, StartsOK
  <2>2. \A t \in Transfer : t # WorkOf(d) => Start(WorkOf(d)) # Start(t)
    BY Behaviours, Messages
  <2>3. \A t \in Transfer : Head(inbox) # Start(t)
    BY <1>6, Messages
  <2> QED
    BY <1>4, <1>7, <2>1, <2>2, <2>3 DEF Same
<1>10. Shape' /\ \A c \in Chips : ~ Sending(c) /\ (Sending(c)' <=> c = d)
  <2>1. \A c \in Chips : <<WorkOf(c), Normal>> # <<Normal>>
    OBVIOUS
  <2>2. \A c \in Chips : <<WorkOf(d), Normal>> = <<WorkOf(c), Normal>> <=> c = d
    BY Behaviours
  <2> QED
    BY <1>2, <1>3, <2>1, <2>2 DEF Sending, Shape, Shaped
<1>11. PICK next \in 1..MaxJobs :
         /\ next = IF chipNextWork[d] = 0 THEN job ELSE chipNextWork[d]
         /\ chipNextWork' = [chipNextWork EXCEPT ![d] = next]
         /\ chipCurrentWork' = [chipCurrentWork EXCEPT ![d] = IF @ = 0 THEN next ELSE @]
  <2> DEFINE next == IF chipNextWork[d] = 0 THEN job ELSE chipNextWork[d]
  <2>1. /\ next # 0
        /\ chipNextWork' = [chipNextWork EXCEPT ![d] = next]
        /\ chipCurrentWork' = [chipCurrentWork EXCEPT ![d] = IF @ = 0 THEN next ELSE @]
    BY DEF SendWork
  <2>2. next \in 0..MaxJobs
    BY <1>1 DEF Data
  <2>3. next \in 1..MaxJobs
    BY <2>1, <2>2, BXMAssumption
  <2> QED
    BY <2>1, <2>3
<1>12. Data'
  <2>1. chipNextWork' \in [Chips -> 0..MaxJobs] /\ chipCurrentWork' \in [Chips -> 0..MaxJobs]
    BY <1>1, <1>11 DEF Data
  <2> QED
    BY <1>1, <2>1 DEF Data, SendWork, bus
<1>13. TypeOK'
  BY <1>7, <1>10, <1>12, TypesNext
<1>14. StartsOK'
  <2>1. \A t \in Transfer : OnStack(t)' <=> t = WorkOf(d)
    BY <1>3, OnStacks DEF OnStack
  <2> QED
    BY <1>9, <2>1 DEF StartsOK
<1>15. AnswersOK'
  <2>1. buffer = <<>> /\ wire = <<>>
    BY <1>1, Behaviours DEF IInv, AnswersOK
  <2> QED
    BY <2>1, AnswersNone DEF SendWork, bus
<1>16. WorksOK'
  <2>1. chipNextWork'[d] # 0 /\ chipCurrentWork'[d] # 0
    BY <1>1, <1>11 DEF Data
  <2> QED
    BY <1>10, <2>1 DEF WorksOK
<1>17. FreshOK'
  <2> SUFFICES ASSUME Gone(NewJob)', NEW c \in Chips
               PROVE  chipNextWork'[c] \in {0, job'}
    BY DEF FreshOK
  <2>1. chipNextWork[c] \in {0, job} /\ chipNextWork[d] \in {0, job}
    BY <1>1, <1>8 DEF Same, IInv, FreshOK
  <2>2. job' = job
    BY DEF SendWork
  <2> QED
    BY <1>1, <1>11, <2>1, <2>2 DEF Data
<1>18. FreedOK'
  <2>1. d \notin workSendingToChip /\ workSendingToChip' = workSendingToChip \cup {d} /\ unbusy' = unbusy
    BY DEF SendWork
  <2> QED
    BY <1>1, <1>8, <1>10, <2>1 DEF IInv, FreedOK, Same
<1> QED
  BY <1>10, <1>13, <1>14, <1>15, <1>16, <1>17, <1>18 DEF IInv, NeverFails, SendWork

LEMMA IgnoreStep ==
  ASSUME IInv, Ignore
  PROVE  IInv'
<1>1. Mail /\ Data /\ Running /\ inbox # <<>>
  BY Typed DEF IInv, Ignore
<1>2. Head(inbox).msg \in {"SendWork", "BufferUpdated", "TimedOut", "StartTransfer"}
  BY DEF Ignore, Ignores
<1>3. /\ Mail'
      /\ \A m : /\ Head(inbox) # m => Same(m)
                /\ Single(m) => Single(m)'
                /\ Gone(m) => Gone(m)'
  BY <1>1, Departure DEF Ignore
<1>4. StartsKept /\ Same(NewJob) /\ \A c \in Chips : Same(Freeing(c))
  BY <1>2, <1>3, Messages DEF StartsKept
<1>5. Shape' /\ StartsOK'
  BY <1>4, StackKept DEF IInv, Ignore
<1>6. AnswersOK'
  BY <1>4, AnswersKept DEF IInv, Ignore, bus
<1>7. Data'
  BY <1>1 DEF Data, Ignore, bus, work
<1>8. TypeOK'
  BY <1>3, <1>5, <1>7, TypesNext
<1>9. \A c \in Chips : Sending(c)' <=> Sending(c)
  BY DEF Sending, Ignore
<1>10. WorksOK' /\ FreedOK' /\ FreshOK' /\ NeverFails'
  BY <1>1, <1>4, <1>9, WorksKept, FreedKept, FreshKept DEF IInv, Ignore, work, Same, NeverFails
<1> QED
  BY <1>5, <1>6, <1>8, <1>10 DEF IInv

LEMMA StashItStep ==
  ASSUME IInv, StashIt
  PROVE  IInv'
<1>1. Mail /\ Data /\ Running
  BY Typed DEF IInv, StashIt
<1>2. Moved
  BY DEF StashIt, Moved
<1>3. Mail' /\ \A m : Same(m)
  BY <1>1, <1>2, MovedMail
<1>4. StartsKept
  BY <1>3 DEF StartsKept, Same
<1>5. Shape' /\ StartsOK'
  BY <1>4, StackKept DEF IInv, StashIt
<1>6. AnswersOK'
  BY <1>4, AnswersKept DEF IInv, StashIt, bus
<1>7. Data'
  BY <1>1 DEF Data, StashIt, bus, work
<1>8. TypeOK'
  BY <1>3, <1>5, <1>7, TypesNext
<1>9. \A c \in Chips : Sending(c)' <=> Sending(c)
  BY DEF Sending, StashIt
<1>10. WorksOK' /\ FreedOK' /\ FreshOK' /\ NeverFails'
  BY <1>1, <1>3, <1>9, WorksKept, FreedKept, FreshKept DEF IInv, StashIt, work, Same, NeverFails
<1> QED
  BY <1>5, <1>6, <1>8, <1>10 DEF IInv

LEMMA StartTransferStep ==
  ASSUME IInv, StartTransfer
  PROVE  IInv'
<1>1. Mail /\ Data /\ Running /\ inbox # <<>>
  BY Typed DEF IInv, StartTransfer, Takes
<1>2. Present \in Transfer /\ Head(inbox) = Start(Present) /\ Present' = Present
  BY DEF StartTransfer, Transferring, Takes, Start, Present, Running
<1>3. ~ Gone(Start(Present)) /\ Single(Start(Present))
  <2>1. Head(inbox) = Start(Present) /\ ~ Lacks(inbox, Start(Present))
    BY <1>1, <1>2, Split DEF Mail
  <2> QED
    BY <1>1, <1>2, <2>1 DEF Gone, IInv, StartsOK
<1>4. buffer = <<>> /\ wire = <<>>
  BY <1>1, <1>3 DEF IInv, AnswersOK
<1>5. Tail(inbox) \in Seq(Message)
  BY <1>1, Split DEF Mail
<1>6. inbox' = Tail(inbox) /\ stash' = stash
  BY <1>4, <1>5, ConcatEmptySeq DEF StartTransfer, Dropped
<1>7. /\ Mail'
      /\ \A m : /\ Head(inbox) # m => Same(m)
                /\ Single(m) => Single(m)'
                /\ Head(inbox) = m /\ Single(m) => Gone(m)'
                /\ Gone(m) => Gone(m)'
  BY <1>1, <1>6, Departure
<1>8. StartsKept /\ Same(NewJob) /\ \A c \in Chips : Same(Freeing(c))
  BY <1>2, <1>7, Messages DEF StartsKept
<1>9. Shape' /\ StartsOK'
  BY <1>8, StackKept DEF IInv, StartTransfer
<1>10. /\ buffer' = <<>> /\ wire' \in Seq(Transfer) /\ Len(wire') = Pieces
       /\ \A i \in 1..Len(wire') : wire'[i] = Present
  <2> DEFINE w == [i \in 1..Pieces |-> Present]
  <2>1. Pieces \in Nat
    BY Behaviours
  <2>2. w \in Seq(Transfer) /\ Len(w) = Pieces /\ \A i \in 1..Pieces : w[i] = Present
    BY <1>2, <2>1
  <2> HIDE DEF w
  <2>3. wire' = wire \o w /\ buffer' = <<>>
    BY DEF StartTransfer, w
  <2>4. wire' = w
    BY <1>4, <2>2, <2>3, ConcatEmptySeq
  <2> QED
    BY <2>2, <2>3, <2>4
<1>11. AnswersOK'
  <2>1. Gone(Start(Present))'
    BY <1>2, <1>3, <1>7
  <2>2. Len(buffer') + Len(wire') <= Pieces
    BY <1>10, Behaviours
  <2> QED
    BY <1>2, <1>10, <2>1, <2>2 DEF AnswersOK
<1>12. Data'
  BY <1>1, <1>10 DEF Data, StartTransfer, work
<1>13. TypeOK'
  BY <1>7, <1>9, <1>12, TypesNext
<1>14. \A c \in Chips : Sending(c)' <=> Sending(c)
  BY DEF Sending, StartTransfer
<1>15. WorksOK' /\ FreedOK' /\ FreshOK' /\ NeverFails'
  BY <1>1, <1>8, <1>14, WorksKept, FreedKept, FreshKept DEF IInv, StartTransfer, work, Same, NeverFails
<1> QED
  BY <1>9, <1>11, <1>13, <1>15 DEF IInv
-----------------------------------------------------------------------------
(* The end of a transfer finds nothing more on the wire, and neither the      *)
(* message that began it nor what freed a chip is touched.                    *)
LEMMA Unbecame ==
  ASSUME IInv, NEW rest, NEW ts, Unbecome(rest, ts), Starts(ts) \in Seq(Message)
  PROVE  /\ Present \in Transfer /\ Gone(Start(Present)) /\ buffer' = <<>> /\ wire = <<>>
         /\ Mail'
         /\ \A m : m.msg # "BufferUpdated" =>
              /\ Lacks(Starts(ts), m) => Same(m)
              /\ Gone(m) /\ Once(Starts(ts), m) => Single(m)'
<1>1. Mail /\ Data /\ Running /\ inbox # <<>> /\ Present \in Transfer
  BY Typed DEF IInv, Unbecome, Transferring, Takes
<1>2. Head(inbox) = Self("BufferUpdated") /\ Len(buffer) >= Pieces /\ buffer' = <<>>
  BY DEF Unbecome, Takes
<1>3. buffer # <<>> /\ Len(buffer) \in Nat /\ Len(wire) \in Nat
  BY <1>1, <1>2, Behaviours DEF Data
<1>4. Gone(Start(Present))
  BY <1>1, <1>3 DEF IInv, AnswersOK
<1>5. wire = <<>>
  <2>1. Len(wire) = 0
    BY <1>1, <1>2, <1>3, Behaviours DEF IInv, AnswersOK
  <2> QED
    BY <1>1, <2>1 DEF Data
<1> DEFINE u == <<Self("BufferUpdated")>>
           s == Starts(ts)
<1>6. /\ u \in Seq(Message) /\ s \in Seq(Message)
      /\ \A m : m.msg # "BufferUpdated" => Lacks(u, m) /\ Once(u, m)
  BY Messages, One
<1>7. inbox' = ((stash \o Tail(inbox)) \o u) \o s /\ stash' = <<>>
  BY <1>3 DEF Unbecome, Dropped
<1> HIDE DEF u, s
<1>8. Tail(inbox) \in Seq(Message) /\ stash \o Tail(inbox) \in Seq(Message)
  BY <1>1, Split, Both DEF Mail
<1>9. Unstashed(u \o s)
  <2> DEFINE a == stash \o Tail(inbox)
  <2>1. a \in Seq(Message)
    BY <1>8
  <2> HIDE DEF a
  <2>2. (a \o u) \o s = a \o (u \o s)
    BY <1>6, <2>1, ConcatAssociative
  <2> QED
    BY <1>1, <1>7, <2>2, Zenon DEF Unstashed, a
<1>10. /\ u \o s \in Seq(Message)
       /\ \A m : m.msg # "BufferUpdated" => /\ Lacks(s, m) => Lacks(u \o s, m)
                                            /\ Once(s, m) => Once(u \o s, m)
  BY <1>6, Both
<1>11. /\ Mail'
       /\ \A m : /\ Lacks(u \o s, m) /\ Head(inbox) # m => Same(m)
                 /\ Gone(m) /\ Once(u \o s, m) => Single(m)'
  BY <1>1, <1>9, <1>10, UnstashedMail
<1>12. \A m : m.msg # "BufferUpdated" => /\ Lacks(s, m) => Same(m)
                                         /\ Gone(m) /\ Once(s, m) => Single(m)'
  BY <1>2, <1>10, <1>11, Messages
<1> QED
  BY <1>1, <1>2, <1>4, <1>5, <1>11, <1>12 DEF s

LEMMA ReinitStep ==
  ASSUME IInv, Reinit
  PROVE  IInv'
<1>1. Data /\ Running /\ Present = Dummy
  BY Typed DEF IInv, Reinit, Dummy
<1>2. Unbecome(<<Normal>>, InitList) /\ UNCHANGED <<wire, work, job, failed, timeouts>>
  BY DEF Reinit, InitList, InitOf
<1>3. stack = <<Dummy, Receive>>
  BY <1>1, Presents, Behaviours DEF IInv
<1>4. stack' = Inits(nChips)
  BY <1>2, PushInits DEF Unbecome
<1>5. /\ Gone(Start(Dummy)) /\ buffer' = <<>> /\ wire = <<>> /\ Mail'
      /\ \A m : m.msg # "BufferUpdated" =>
           /\ Lacks(Starts(InitList), m) => Same(m)
           /\ Gone(m) => Single(m)'
  BY <1>1, <1>2, PushInits, Unbecame
<1>6. Same(NewJob) /\ \A c \in Chips : Same(Freeing(c))
  <2>1. \A c \in Chips : Start(InitOf(c)).msg = "StartTransfer"
    BY Behaviours, Messages
  <2> QED
    BY <1>5, <2>1, PushInits, Messages
<1>7. \A t \in Transfer : Single(Start(t))' /\ ((\A c \in Chips : t # InitOf(c)) => Gone(Start(t))')
  <2> SUFFICES ASSUME NEW t \in Transfer
               PROVE  Single(Start(t))' /\ ((\A c \in Chips : t # InitOf(c)) => Gone(Start(t))')
    OBVIOUS
  <2>1. Gone(Start(t))
    <3>1. t # Dummy => ~ OnStack(t)
      BY <1>3, OnStacks DEF OnStack
    <3> QED
      BY <1>1, <1>5, <3>1 DEF IInv, StartsOK
  <2>2. Start(t).msg # "BufferUpdated" /\ Start(t).of = t
    BY Messages
  <2>3. ASSUME \A c \in Chips : t # InitOf(c) PROVE Gone(Start(t))'
    <3>1. \A c \in Chips : Start(t) # Start(InitOf(c))
      BY <2>2, <2>3, Behaviours, Messages
    <3> QED
      BY <1>5, <2>1, <2>2, <3>1, PushInits DEF Same
  <2> QED
    BY <1>5, <2>1, <2>2, <2>3
<1>8. nChips \in Nat /\ nChips \in 0..nChips /\ nChips > 0
  BY Behaviours
<1>9. Shape' /\ Running'
  BY <1>4, <1>8, Stacks DEF Shape, Shaped, Running
<1>10. Data'
  BY <1>1, <1>2, <1>5 DEF Data, work
<1>11. TypeOK'
  BY <1>5, <1>9, <1>10, TypesNext
<1>12. StartsOK'
  <2>1. \A t \in Transfer : (\E c \in Chips : t = InitOf(c)) => OnStack(t)'
    <3>1. \A t \in Transfer : Has(Inits(nChips), t) <=> \E j \in 0 .. nChips - 1 : t = InitOf(j)
      BY <1>8, OnStacks
    <3> QED
      BY <1>4, <3>1 DEF OnStack, Chips
  <2> QED
    BY <1>7, <2>1 DEF StartsOK
<1>13. AnswersOK'
  BY <1>2, <1>5, AnswersNone
<1>14. \A c \in Chips : ~ Sending(c) /\ ~ Sending(c)'
  <2>1. \A c \in Chips : Head(<<WorkOf(c), Normal>>).name = "work"
    BY Stacks, Behaviours
  <2>2. Head(<<Dummy, Receive>>).name = "dummy"
    BY Stacks, Behaviours
  <2>3. Head(Inits(nChips)).name = "init"
    <3>1. nChips - 1 \in Chips
      BY <1>8 DEF Chips
    <3> QED
      BY <1>8, <3>1, Stacks, Behaviours
  <2> QED
    BY <1>3, <1>4, <2>1, <2>2, <2>3 DEF Sending
<1>15. WorksOK' /\ FreshOK' /\ FreedOK' /\ NeverFails'
  BY <1>1, <1>2, <1>6, <1>14, WorksKept, FreshKept, FreedKept DEF IInv, work, Same, NeverFails
<1> QED
  BY <1>9, <1>11, <1>12, <1>13, <1>15 DEF IInv

LEMMA ChipDoneStep ==
  ASSUME IInv, ChipDone
  PROVE  IInv'
<1>1. Data /\ Running /\ Present.name = "init" /\ Unbecome(Tail(stack), <<>>)
      /\ UNCHANGED <<wire, work, job, failed, timeouts>>
  BY Typed DEF IInv, ChipDone
<1>2. PICK k \in 1..nChips : stack = Inits(k) /\ Present = InitOf(k - 1) /\ k - 1 \in Chips
  BY <1>1, Presents, Behaviours DEF IInv
<1>3. k \in Nat /\ k > 0 /\ k \in 0..nChips /\ k - 1 \in 0..nChips
  BY Behaviours
<1>4. stack' = Inits(k - 1)
  <2>1. Tail(stack) = Inits(k - 1) /\ Inits(k - 1) \in Seq(Behaviour)
    BY <1>2, <1>3, Stacks DEF Behaviour
  <2> QED
    BY <1>1, <2>1, PushNone DEF Unbecome
<1>5. /\ Gone(Start(Present)) /\ buffer' = <<>> /\ wire = <<>> /\ Mail'
      /\ \A m : m.msg # "BufferUpdated" => Same(m)
  <2>1. Starts(<<>>) = <<>> /\ <<>> \in Seq(Message) /\ \A m : Lacks(<<>>, m)
    BY Empty DEF Starts
  <2> QED
    BY <1>1, <2>1, Unbecame
<1>6. Same(NewJob) /\ (\A c \in Chips : Same(Freeing(c))) /\ \A t \in Transfer : Same(Start(t))
  BY <1>5, Messages
<1>7. Shape' /\ Running'
  BY <1>3, <1>4, Stacks DEF Shape, Shaped, Running
<1>8. Data'
  BY <1>1, <1>5 DEF Data, work
<1>9. TypeOK'
  BY <1>5, <1>7, <1>8, TypesNext
<1>10. StartsOK'
  <2>1. \A t \in Transfer : OnStack(t) => t = Present \/ OnStack(t)'
    <3> SUFFICES ASSUME NEW t \in Transfer, OnStack(t), t # Present
                 PROVE  OnStack(t)'
      OBVIOUS
    <3>1. PICK j \in 0 .. k - 1 : t = InitOf(j)
      BY <1>2, <1>3, OnStacks DEF OnStack
    <3>2. j \in 0 .. (k - 1) - 1
      BY <1>2, <1>3, <3>1
    <3> QED
      BY <1>3, <1>4, <3>1, <3>2, OnStacks DEF OnStack
  <2> QED
    BY <1>1, <1>5, <1>6, <2>1 DEF IInv, StartsOK, Same
<1>11. AnswersOK'
  BY <1>1, <1>5, AnswersNone
<1>12. \A c \in Chips : ~ Sending(c) /\ ~ Sending(c)'
  <2>1. \A c \in Chips : Head(<<WorkOf(c), Normal>>).name = "work"
    BY Stacks, Behaviours
  <2>2. Head(Inits(k)).name = "init"
    BY <1>2, <1>3, Stacks, Behaviours
  <2>3. Head(Inits(k - 1)).name # "work"
    <3>1. k - 1 # 0 => k - 1 - 1 \in Chips
      BY <1>3, Behaviours DEF Chips
    <3> QED
      BY <1>3, <3>1, Stacks, Behaviours
  <2> QED
    BY <1>2, <1>4, <2>1, <2>2, <2>3 DEF Sending
<1>13. WorksOK' /\ FreshOK' /\ FreedOK' /\ NeverFails'
  BY <1>1, <1>6, <1>12, WorksKept, FreshKept, FreedKept DEF IInv, work, Same, NeverFails
<1> QED
  BY <1>7, <1>9, <1>10, <1>11, <1>13 DEF IInv

LEMMA WorkSentStep ==
  ASSUME IInv, NEW d \in Chips, WorkSent(d)
  PROVE  IInv'
<1>1. Data /\ Running /\ Present = WorkOf(d) /\ Unbecome(Tail(stack), <<>>)
  BY Typed DEF IInv, WorkSent, WorkOf
<1>2. stack = <<WorkOf(d), Normal>> /\ Sending(d)
  BY <1>1, Presents, Behaviours DEF IInv, Sending
<1>3. stack' = Inits(0) /\ 0 \in 0..nChips
  <2>1. 0 \in 0..nChips
    BY Behaviours
  <2>2. Tail(stack) = Inits(0) /\ Inits(0) \in Seq(Behaviour)
    BY <1>2, <2>1, Stacks DEF Behaviour
  <2> QED
    BY <1>1, <2>1, <2>2, PushNone DEF Unbecome
<1>4. /\ Gone(Start(WorkOf(d))) /\ buffer' = <<>> /\ wire = <<>> /\ Mail'
      /\ \A m : m.msg # "BufferUpdated" => Same(m)
  <2>1. Starts(<<>>) = <<>> /\ <<>> \in Seq(Message) /\ \A m : Lacks(<<>>, m)
    BY Empty DEF Starts
  <2> QED
    BY <1>1, <2>1, Unbecame
<1>5. Same(NewJob) /\ (\A c \in Chips : Same(Freeing(c))) /\ \A t \in Transfer : Same(Start(t))
  BY <1>4, Messages
<1>6. Shape' /\ Running'
  BY <1>3, Stacks DEF Shape, Shaped, Running
<1>7. PICK workChanged \in BOOLEAN :
        /\ failed' = (chipCurrentWork[d] = 0 \/ (workChanged /\ chipNextWork[d] = 0))
        /\ chipCurrentWork' = [chipCurrentWork EXCEPT
                                 ![d] = IF workChanged THEN chipNextWork[d] ELSE @]
        /\ chipNextWork' = [chipNextWork EXCEPT ![d] = IF workChanged THEN 0 ELSE @]
  BY DEF WorkSent
<1>8. /\ answered' = answered \cup {d} /\ unbusy' = unbusy \cup {d}
      /\ UNCHANGED <<wire, workSendingToChip, job, timeouts>>
  BY DEF WorkSent
<1>9. NeverFails'
  BY <1>2, <1>7 DEF IInv, WorksOK, NeverFails
<1>10. Data'
  <2>1. chipNextWork' \in [Chips -> 0..MaxJobs] /\ chipCurrentWork' \in [Chips -> 0..MaxJobs]
    BY <1>1, <1>7, BXMAssumption DEF Data
  <2>2. failed' \in BOOLEAN
    BY <1>7
  <2> QED
    BY <1>1, <1>4, <1>8, <2>1, <2>2 DEF Data
<1>11. TypeOK'
  BY <1>4, <1>6, <1>10, TypesNext
<1>12. StartsOK'
  <2>1. \A t \in Transfer : OnStack(t) => t = WorkOf(d)
    BY <1>2, OnStacks DEF OnStack
  <2> QED
    BY <1>1, <1>4, <1>5, <2>1 DEF IInv, StartsOK, Same
<1>13. AnswersOK'
  BY <1>4, <1>8, AnswersNone
<1>14. \A c \in Chips : (Sending(c) <=> c = d) /\ ~ Sending(c)'
  <2>1. \A c \in Chips : <<WorkOf(d), Normal>> = <<WorkOf(c), Normal>> <=> c = d
    BY Behaviours
  <2>2. \A c \in Chips : <<Normal>> # <<WorkOf(c), Normal>>
    OBVIOUS
  <2> QED
    BY <1>2, <1>3, <2>1, <2>2, Stacks DEF Sending
<1>15. WorksOK'
  BY <1>14 DEF WorksOK
<1>16. FreshOK'
  <2> SUFFICES ASSUME Gone(NewJob)', NEW c \in Chips
               PROVE  chipNextWork'[c] \in {0, job'}
    BY DEF FreshOK
  <2>1. chipNextWork[c] \in {0, job}
    BY <1>1, <1>5 DEF Same, IInv, FreshOK
  <2> QED
    BY <1>1, <1>7, <1>8, <2>1 DEF Data
<1>17. FreedOK'
  <2>1. d \in workSendingToChip /\ Gone(Freeing(d))
    BY <1>1, <1>2 DEF IInv, FreedOK
  <2> QED
    BY <1>1, <1>5, <1>8, <1>14, <2>1 DEF IInv, FreedOK, Same
<1> QED
  BY <1>6, <1>9, <1>11, <1>12, <1>13, <1>15, <1>16, <1>17 DEF IInv

LEMMA TimedOutStep ==
  ASSUME IInv, TimedOut
  PROVE  IInv'
<1>1. Data /\ stack' = <<>> /\ inbox' = <<>> /\ stash' = <<>>
  BY Typed DEF IInv, TimedOut
<1>2. Shape' /\ ~ Running' /\ Mail'
  BY <1>1, Empty DEF Shape, Shaped, Running, Mail
<1>3. Data'
  BY <1>1 DEF Data, TimedOut, bus, work
<1>4. TypeOK'
  BY <1>2, <1>3, TypesNext
<1>5. \A c \in Chips : ~ Sending(c)'
  BY <1>1 DEF Sending
<1>6. StartsOK' /\ AnswersOK' /\ WorksOK' /\ FreshOK' /\ FreedOK' /\ NeverFails'
  BY <1>2, <1>5 DEF IInv, StartsOK, AnswersOK, WorksOK, FreshOK, FreedOK, NeverFails, TimedOut
<1> QED
  BY <1>2, <1>4, <1>6 DEF IInv

LEMMA StutterStep ==
  ASSUME IInv, UNCHANGED vars
  PROVE  IInv'
<1>1. Mail' /\ Data' /\ \A m : Same(m)
  BY Typed DEF IInv, Mail, Data, Same, Gone, Single, vars, bus, work
<1>2. StartsKept
  BY <1>1 DEF StartsKept, Same
<1>3. Shape' /\ StartsOK' /\ AnswersOK'
  BY <1>2, StackKept, AnswersKept DEF IInv, vars, bus
<1>4. TypeOK'
  BY <1>1, <1>3, TypesNext
<1>5. (\A c \in Chips : Sending(c)' <=> Sending(c)) /\ (Running' <=> Running)
  BY DEF Sending, Running, vars
<1>6. WorksOK' /\ NeverFails'
  BY <1>5, WorksKept DEF IInv, NeverFails, vars, work
<1>7. FreshOK' /\ FreedOK'
  BY <1>1, <1>5 DEF IInv, FreshOK, FreedOK, Same, vars, work
<1> QED
  BY <1>3, <1>4, <1>6, <1>7 DEF IInv

LEMMA NextIInv ==
  ASSUME IInv, [Next]_vars
  PROVE  IInv'
<1>1. CASE LowPinsSet \/ NewWork \/ ClearWorkTimer
  BY <1>1, LowPinsSetStep, NewWorkStep, ClearWorkTimerStep
<1>2. CASE \E n \in 1 .. Len(wire) : Read(n)
  BY <1>2, ReadStep
<1>3. CASE \E c \in Chips : UnBusyTimer(c)
  BY <1>3, UnBusyTimerStep
<1>4. CASE \E t \in Transfer : TransferTimer(t)
  BY <1>4, TransferTimerStep
<1>5. CASE CancelWork \/ Ignore \/ StashIt \/ StartTransfer
  BY <1>5, CancelWorkStep, IgnoreStep, StashItStep, StartTransferStep
<1>6. CASE Reinit \/ ChipDone \/ TimedOut
  BY <1>6, ReinitStep, ChipDoneStep, TimedOutStep
<1>7. CASE \E c \in Chips : UnBusyChip(c) \/ SendWork(c) \/ WorkSent(c)
  BY <1>7, UnBusyChipStep, SendWorkStep, WorkSentStep
<1>8. CASE UNCHANGED vars
  BY <1>8, StutterStep
<1> QED
  BY <1>1, <1>2, <1>3, <1>4, <1>5, <1>6, <1>7, <1>8 DEF Next, Handle

LEMMA Inductive == Spec => []IInv
<1>1. Init => IInv
  BY InitIInv
<1>2. IInv /\ [Next]_vars => IInv'
  BY NextIInv
<1> QED
  BY <1>1, <1>2, PTL DEF Spec
-----------------------------------------------------------------------------
(* How the properties count. *)
LEMMA Counted ==
  ASSUME Mail, NEW m
  PROVE  /\ Gone(m) => Waiting(m) = 0
         /\ Single(m) /\ ~ Gone(m) => Waiting(m) = 1
         /\ Waiting(m) = 0 => Gone(m)
<1> DEFINE q == inbox \o stash
           W == {i \in DOMAIN q : q[i] = m}
<1>1. /\ q \in Seq(Message)
      /\ Lacks(q, m) <=> Gone(m)
      /\ Once(q, m) <=> Single(m)
  BY Both DEF Mail, Gone, Single
<1>2. Waiting(m) = Cardinality(W)
  BY DEF Waiting
<1>3. Len(q) \in Nat /\ DOMAIN q = 1..Len(q)
  BY <1>1
<1> HIDE DEF q
<1>4. IsFiniteSet(W)
  <2>1. IsFiniteSet(1..Len(q)) /\ W \subseteq 1..Len(q)
    BY <1>3, FS_Interval
  <2> QED
    BY <2>1, FS_Subset
<1>5. Gone(m) <=> W = {}
  BY <1>1, <1>3 DEF Lacks
<1>6. ASSUME Single(m), ~ Gone(m) PROVE Cardinality(W) = 1
  <2>1. PICK i \in 1..Len(q) : q[i] = m
    BY <1>1, <1>6 DEF Lacks
  <2>2. W = {i}
    BY <1>1, <1>3, <1>6, <2>1 DEF Once
  <2> QED
    BY <2>2, FS_Singleton
<1>7. Cardinality(W) = 0 <=> W = {}
  BY <1>4, FS_EmptySet
<1> QED
  BY <1>2, <1>5, <1>6, <1>7

LEMMA CountedUnder ==
  ASSUME Shape, NEW c \in Chips
  PROVE  Under(WorkOf(c)) = IF Sending(c) THEN 1 ELSE 0
<1> DEFINE W == {i \in DOMAIN stack : stack[i] = WorkOf(c)}
<1>1. Under(WorkOf(c)) = Cardinality(W)
  BY DEF Under
<1>2. DOMAIN stack = 1..Len(stack)
  BY ShapeTypes DEF Shape
<1>3. CASE Sending(c)
  <2>1. W = {1}
    BY <1>3, Behaviours DEF Sending
  <2> QED
    BY <1>1, <1>3, <2>1, FS_Singleton
<1>4. CASE ~ Sending(c)
  <2>1. WorkOf(c) \in Transfer /\ WorkOf(c) # Dummy /\ \A d \in Chips : WorkOf(c) # InitOf(d)
    BY Behaviours
  <2>2. ~ Has(stack, WorkOf(c))
    <3>1. CASE stack = <<>>
      BY <3>1 DEF Has
    <3>2. CASE stack = <<Receive>> \/ stack = <<Dummy, Receive>>
      BY <2>1, <3>2, OnStacks
    <3>3. CASE \E d \in Chips : stack = <<WorkOf(d), Normal>>
      <4>1. PICK d \in Chips : stack = <<WorkOf(d), Normal>>
        BY <3>3
      <4>2. WorkOf(c) # WorkOf(d)
        BY <1>4, <4>1 DEF Sending
      <4> QED
        BY <2>1, <4>1, <4>2, OnStacks
    <3>4. CASE \E k \in 0..nChips : stack = Inits(k)
      <4>1. PICK k \in 0..nChips : stack = Inits(k)
        BY <3>4
      <4>2. \A j \in 0 .. k - 1 : j \in Chips
        BY <4>1, Behaviours DEF Chips
      <4> QED
        BY <2>1, <4>1, <4>2, OnStacks
    <3> QED
      BY <3>1, <3>2, <3>3, <3>4 DEF Shape, Shaped
  <2>3. W = {}
    BY <1>2, <2>2 DEF Has
  <2> QED
    BY <1>1, <1>4, <2>3, FS_EmptySet
<1> QED
  BY <1>3, <1>4

(* The driver's state has its types, with any number of chips: behaviours    *)
(* never pile up beyond the transfers of reinit.                             *)
THEOREM TypeCorrect == Spec => []TypeOK
<1>1. IInv => TypeOK
  BY DEF IInv
<1> QED
  BY <1>1, Inductive, PTL

(* The callback of bfSendJob never throws.                                   *)
THEOREM CallbacksSafe == Spec => []NeverFails
<1>1. IInv => NeverFails
  BY DEF IInv
<1> QED
  BY <1>1, Inductive, PTL

(* No transfer is ever answered by what was meant for another one.           *)
THEOREM OwnAnswers == Spec => []OwnAnswer
<1>1. ASSUME IInv PROVE OwnAnswer
  <2> SUFFICES ASSUME Running, NEW i \in DOMAIN (buffer \o wire)
               PROVE  (buffer \o wire)[i] = Present
    BY DEF OwnAnswer
  <2>1. buffer \in Seq(Transfer) /\ wire \in Seq(Transfer)
    BY <1>1 DEF IInv, TypeOK
  <2>2. /\ i \in 1 .. Len(buffer) + Len(wire)
        /\ (buffer \o wire)[i] = IF i <= Len(buffer) THEN buffer[i] ELSE wire[i - Len(buffer)]
    BY <2>1, ConcatProperties, LenProperties
  <2>3. /\ \A j \in 1..Len(buffer) : buffer[j] = Present
        /\ \A j \in 1..Len(wire) : wire[j] = Present
    BY <1>1 DEF IInv, AnswersOK
  <2>4. Len(buffer) \in Nat /\ Len(wire) \in Nat
    BY <2>1
  <2>5. CASE i <= Len(buffer)
    BY <2>2, <2>3, <2>4, <2>5
  <2>6. CASE i > Len(buffer)
    <3>1. i - Len(buffer) \in 1..Len(wire)
      BY <2>2, <2>4, <2>6
    <3> QED
      BY <2>2, <2>3, <2>4, <2>6, <3>1
  <2> QED
    BY <2>2, <2>4, <2>5, <2>6
<1> QED
  BY <1>1, Inductive, PTL

(* A chip that is marked as being sent work will be freed, by one thing, and *)
(* one that is not marked will not be freed again.                           *)
THEOREM BusyFreed == Spec => []BusyIsFreed
<1>1. ASSUME IInv PROVE BusyIsFreed
  <2> SUFFICES ASSUME Running, NEW c \in Chips
               PROVE  Under(WorkOf(c)) + Waiting(Freeing(c)) + Cardinality(unbusy \cap {c})
                        = Cardinality(workSendingToChip \cap {c})
    BY DEF BusyIsFreed, WorkOf, Freeing
  <2>1. Under(WorkOf(c)) = IF Sending(c) THEN 1 ELSE 0
    BY <1>1, CountedUnder DEF IInv
  <2>2. Mail /\ Single(Freeing(c))
    BY <1>1, Typed DEF IInv, FreedOK
  <2>3. Waiting(Freeing(c)) = IF Gone(Freeing(c)) THEN 0 ELSE 1
    BY <2>2, Counted
  <2>4. \A S : Cardinality(S \cap {c}) = IF c \in S THEN 1 ELSE 0
    <3> SUFFICES ASSUME NEW S PROVE Cardinality(S \cap {c}) = IF c \in S THEN 1 ELSE 0
      OBVIOUS
    <3>1. CASE c \in S
      <4>1. S \cap {c} = {c}
        BY <3>1
      <4> QED
        BY <3>1, <4>1, FS_Singleton
    <3>2. CASE c \notin S
      <4>1. S \cap {c} = {}
        BY <3>2
      <4> QED
        BY <3>2, <4>1, FS_EmptySet
    <3> QED
      BY <3>1, <3>2
  <2>5. /\ c \in workSendingToChip =>
             \/ Sending(c) /\ Gone(Freeing(c)) /\ c \notin unbusy
             \/ ~ Sending(c) /\ ~ Gone(Freeing(c)) /\ c \notin unbusy
             \/ ~ Sending(c) /\ Gone(Freeing(c)) /\ c \in unbusy
        /\ c \notin workSendingToChip =>
             ~ Sending(c) /\ Gone(Freeing(c)) /\ c \notin unbusy
    BY <1>1 DEF IInv, FreedOK
  <2> QED
    BY <2>1, <2>3, <2>4, <2>5
<1> QED
  BY <1>1, Inductive, PTL

(* No chip is to be sent work of an old job once CancelWork was handled.     *)
THEOREM NextWorksFresh == Spec => []NextWorkFresh
<1>1. ASSUME IInv PROVE NextWorkFresh
  <2>1. Waiting(NewJob) = 0 => Gone(NewJob)
    BY <1>1, Typed, Counted DEF IInv
  <2> QED
    BY <1>1, <2>1 DEF IInv, FreshOK, NextWorkFresh, NewJob
<1> QED
  BY <1>1, Inductive, PTL
=============================================================================
