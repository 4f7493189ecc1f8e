-------------------------- MODULE StratumPoolProofs --------------------------
(***************************************************************************)
(* Proofs about StratumPool: its type invariant, that what a miner holds   *)
(* is minable and the newest of the current connection, and that the pool  *)
(* implements WorkSource, for any number of connections and miners.  All   *)
(* rest on one inductive invariant, IInv: what matters is the order of the *)
(* messages between a session and the pool.                                *)
(***************************************************************************)
EXTENDS StratumPool, TLAPS

(* The messages q of one session, given what the pool has recorded of it and *)
(* the session's last job: a job never comes before the extranonce and the   *)
(* difficulty it needs, the default extranonce never after anything else,    *)
(* and jobs do not go back.                                                  *)
InOrder(q, en, dif, job, last) ==
  /\ job # 0 => en = "real" /\ dif # 0
  /\ \A i \in 1..Len(q) : q[i].kind = "MiningJob" =>
       /\ job <= q[i].val /\ q[i].val <= last
       /\ en = "real" \/ \E j \in 1..i - 1 : q[j] = Msg("ExtraNonce", "real")
       /\ dif # 0 \/ \E j \in 1..i - 1 : q[j].kind = "Difficulty"
  /\ \A i \in 1..Len(q) : q[i] = Msg("ExtraNonce", "default") => i = 1 /\ en = "none"
  /\ \A i, j \in 1..Len(q) :
       i < j /\ q[i].kind = "MiningJob" /\ q[j].kind = "MiningJob" => q[i].val <= q[j].val

(* The pool has heard, or will hear, the session's extranonce and difficulty.*)
WillKnow(q, en, dif, sessionEn) ==
  /\ sessionEn = "real" =>
       en = "real" \/ \E j \in 1..Len(q) : q[j] = Msg("ExtraNonce", "real")
  /\ sessionEn = "default" =>
       /\ en # "real"
       /\ \A j \in 1..Len(q) : q[j].kind # "MiningJob" /\ q[j] # Msg("ExtraNonce", "real")
  /\ dif # 0 \/ \E j \in 1..Len(q) : q[j].kind = "Difficulty"

SessionsGood ==
  \A c \in Conn :
    /\ session[c].job # 0 => session[c].en = "real"
    /\ jobs[c] <= session[c].job
    /\ actor[c] # "none" => c \in connections

ChannelsGood ==
  \A c \in Conn :
    IF c \in subscribed
    THEN /\ actor[c] # "none"
         /\ InOrder(chan[c], extraNonces[c], difficulties[c], jobs[c], session[c].job)
         /\ WillKnow(chan[c], extraNonces[c], difficulties[c], session[c].en)
    ELSE chan[c] = <<>> /\ extraNonces[c] = "none" /\ difficulties[c] = 0 /\ jobs[c] = 0

(* There is a current connection as soon as one has sent a job; before, no  *)
(* miner has been told of anything.                                         *)
CurrentGood ==
  IF current = NoConn
  THEN /\ \A c \in Conn : jobs[c] = 0
       /\ view = [m \in Miner |-> [en |-> Nothing, dif |-> Nothing, job |-> Nothing]]
  ELSE jobs[current] # 0

IInv == TypeOK /\ SessionsGood /\ ChannelsGood /\ CurrentGood /\ ViewCurrent /\ MinableView

(* A job on record comes with what it needs. *)
LEMMA JobNeeds ==
  ASSUME IInv, NEW c \in Conn, jobs[c] # 0
  PROVE  extraNonces[c] = "real" /\ difficulties[c] # 0
BY DEF IInv, ChannelsGood, InOrder
-----------------------------------------------------------------------------
LEMMA InitIInv == Init => IInv
<1> SUFFICES ASSUME Init PROVE IInv
  OBVIOUS
<1>1. TypeOK
  BY PoolAssumption DEF Init, TypeOK, Tag, Nothing
<1>2. SessionsGood /\ ChannelsGood /\ CurrentGood /\ ViewCurrent /\ MinableView
  BY DEF Init, SessionsGood, ChannelsGood, CurrentGood, ViewCurrent, MinableView
<1> QED
  BY <1>1, <1>2 DEF IInv
-----------------------------------------------------------------------------
(* Messages added to a channel and taken from it. *)

LEMMA MessageKinds ==
  /\ \A x \in {"default", "real"} : Msg("ExtraNonce", x) \in Message
  /\ \A d \in 1..MaxDiff : Msg("Difficulty", d) \in Message
  /\ \A j \in 1..MaxJobs : Msg("MiningJob", j) \in Message
  /\ \A m \in Message :
       /\ m.kind \in {"ExtraNonce", "Difficulty", "MiningJob"}
       /\ m.kind = "ExtraNonce" => m.val \in {"default", "real"} /\ m = Msg("ExtraNonce", m.val)
       /\ m.kind = "Difficulty" => m.val \in 1..MaxDiff
       /\ m.kind = "MiningJob" => m.val \in 1..MaxJobs
BY DEF Message, Msg

LEMMA Appended ==
  ASSUME NEW q \in Seq(Message), NEW m \in Message
  PROVE  /\ q \o <<m>> \in Seq(Message)
         /\ Len(q \o <<m>>) = Len(q) + 1
         /\ \A i \in 1..Len(q) : (q \o <<m>>)[i] = q[i]
         /\ (q \o <<m>>)[Len(q) + 1] = m
OBVIOUS

LEMMA Taken ==
  ASSUME NEW q \in Seq(Message), q # <<>>
  PROVE  /\ Tail(q) \in Seq(Message) /\ Head(q) \in Message /\ Head(q) = q[1]
         /\ Len(q) \in Nat /\ 1 \in 1..Len(q) /\ Len(Tail(q)) = Len(q) - 1
         /\ \A i \in 1..Len(Tail(q)) : Tail(q)[i] = q[i + 1] /\ i + 1 \in 1..Len(q)
         /\ \A i \in 1..Len(q) : i # 1 => i - 1 \in 1..Len(Tail(q)) /\ Tail(q)[i - 1] = q[i]
OBVIOUS

LEMMA OrderAppend ==
  ASSUME NEW q \in Seq(Message), NEW en, NEW dif, NEW job \in Nat, NEW last \in Nat,
         NEW sessionEn, NEW m \in Message, NEW last2 \in Nat, last <= last2,
         InOrder(q, en, dif, job, last), WillKnow(q, en, dif, sessionEn),
         m # Msg("ExtraNonce", "default"),
         m.kind = "MiningJob" => sessionEn = "real" /\ m.val = last2 /\ job <= last2
  PROVE  InOrder(q \o <<m>>, en, dif, job, last2)
<1> DEFINE p == q \o <<m>>
<1>1. /\ Len(p) = Len(q) + 1 /\ Len(q) \in Nat
      /\ \A i \in 1..Len(q) : p[i] = q[i] /\ q[i] \in Message
      /\ p[Len(q) + 1] = m
  BY Appended
<1> HIDE DEF p
<1>2. ASSUME NEW i \in 1..Len(p), p[i].kind = "MiningJob"
      PROVE  /\ job <= p[i].val /\ p[i].val <= last2
             /\ en = "real" \/ \E j \in 1..i - 1 : p[j] = Msg("ExtraNonce", "real")
             /\ dif # 0 \/ \E j \in 1..i - 1 : p[j].kind = "Difficulty"
  <2>1. CASE i \in 1..Len(q)
    <3>1. \A j \in 1..i - 1 : j \in 1..Len(q)
      BY <2>1, <1>1
    <3>2. q[i].kind = "MiningJob" /\ q[i].val \in Nat
      BY <2>1, <1>1, <1>2, MessageKinds
    <3> QED
      BY <2>1, <1>1, <3>1, <3>2 DEF InOrder
  <2>2. CASE i = Len(q) + 1
    BY <2>2, <1>1, <1>2 DEF WillKnow
  <2> QED
    BY <2>1, <2>2, <1>1
<1>3. \A i \in 1..Len(p) : p[i] = Msg("ExtraNonce", "default") => i = 1 /\ en = "none"
  BY <1>1 DEF InOrder
<1>4. ASSUME NEW i \in 1..Len(p), NEW j \in 1..Len(p), i < j,
             p[i].kind = "MiningJob", p[j].kind = "MiningJob"
      PROVE  p[i].val <= p[j].val
  <2>1. i \in 1..Len(q) /\ p[i] = q[i] /\ q[i].val <= last /\ q[i].val \in Nat
    BY <1>1, <1>4, MessageKinds DEF InOrder
  <2>2. CASE j = Len(q) + 1
    BY <2>1, <2>2, <1>1, <1>4
  <2>3. CASE j \in 1..Len(q)
    BY <2>1, <2>3, <1>1, <1>4 DEF InOrder
  <2> QED
    BY <2>2, <2>3, <1>1
<1> QED
  BY <1>2, <1>3, <1>4 DEF InOrder, p

(* What message m may tell when the session's extranonce turns from en into  *)
(* en2.                                                                      *)
Tells(m, en, en2) ==
  /\ en \in {"default", "real"} /\ en2 \in {"default", "real"}
  /\ en = "real" => en2 = "real"
  /\ en2 # en => m = Msg("ExtraNonce", "real")
  /\ m.kind = "MiningJob" \/ m = Msg("ExtraNonce", "real") => en2 = "real"

LEMMA KnowAppend ==
  ASSUME NEW q \in Seq(Message), NEW en, NEW dif, NEW sessionEn, NEW m \in Message,
         WillKnow(q, en, dif, sessionEn), NEW sessionEn2, Tells(m, sessionEn, sessionEn2)
  PROVE  WillKnow(q \o <<m>>, en, dif, sessionEn2)
<1> DEFINE p == q \o <<m>>
<1>1. /\ Len(p) = Len(q) + 1 /\ Len(q) \in Nat
      /\ \A i \in 1..Len(q) : p[i] = q[i] /\ i \in 1..Len(p)
      /\ p[Len(q) + 1] = m /\ Len(q) + 1 \in 1..Len(p)
      /\ \A i \in 1..Len(p) : i \in 1..Len(q) \/ i = Len(q) + 1
  BY Appended
<1> HIDE DEF p
<1>2. dif # 0 \/ \E j \in 1..Len(p) : p[j].kind = "Difficulty"
  BY <1>1 DEF WillKnow, Tells
<1>3. sessionEn2 = "real" => en = "real" \/ \E j \in 1..Len(p) : p[j] = Msg("ExtraNonce", "real")
  BY <1>1 DEF WillKnow, Tells
<1>4. sessionEn2 = "default" =>
        en # "real" /\ \A j \in 1..Len(p) : p[j].kind # "MiningJob" /\ p[j] # Msg("ExtraNonce", "real")
  BY <1>1 DEF WillKnow, Tells
<1> QED
  BY <1>2, <1>3, <1>4 DEF WillKnow, Tells, p

(* The records of a session, before and after the pool takes message m. *)
Recorded(m, en, dif, job, en2, dif2, job2) ==
  \/ m.kind = "ExtraNonce" /\ en2 = m.val /\ dif2 = dif /\ job2 = job
  \/ m.kind = "Difficulty" /\ en2 = en /\ dif2 = m.val /\ job2 = job
  \/ m.kind = "MiningJob" /\ en2 = en /\ dif2 = dif /\ job2 = m.val

LEMMA OrderTail ==
  ASSUME NEW q \in Seq(Message), q # <<>>, NEW en, NEW dif, NEW job \in Nat, NEW last \in Nat,
         InOrder(q, en, dif, job, last),
         NEW en2, NEW dif2, NEW job2,
         Recorded(Head(q), en, dif, job, en2, dif2, job2)
  PROVE  /\ InOrder(Tail(q), en2, dif2, job2, last)
         /\ en = "real" => en2 = "real"
         /\ dif # 0 => dif2 # 0
         /\ job2 # 0 => en2 = "real" /\ dif2 # 0
         /\ job <= job2 /\ job2 \in Nat
         /\ Head(q).kind = "MiningJob" => job2 <= last
<1> DEFINE p == Tail(q)
<1>1. /\ Head(q) \in Message /\ Head(q) = q[1] /\ Len(q) \in Nat /\ 1 \in 1..Len(q)
      /\ Len(p) = Len(q) - 1 /\ Len(p) \in Nat
      /\ \A i \in 1..Len(p) : p[i] = q[i + 1] /\ i + 1 \in 1..Len(q) /\ p[i] \in Message
  BY Taken
<1> USE DEF Recorded
<1>2. en = "real" => en2 = "real"
  BY <1>1, MessageKinds DEF InOrder
<1>3. dif # 0 => dif2 # 0
  BY <1>1, MessageKinds
<1>4. Head(q).kind = "MiningJob" => job2 <= last /\ job <= job2 /\ en = "real" /\ dif # 0
  BY <1>1 DEF InOrder
<1>5. job <= job2 /\ job2 \in Nat
  BY <1>1, <1>4, MessageKinds
<1>6. job2 # 0 => en2 = "real" /\ dif2 # 0
  BY <1>2, <1>3, <1>4 DEF InOrder
<1> HIDE DEF p
<1>7. ASSUME NEW i \in 1..Len(p), p[i].kind = "MiningJob"
      PROVE  /\ job2 <= p[i].val /\ p[i].val <= last
             /\ en2 = "real" \/ \E j \in 1..i - 1 : p[j] = Msg("ExtraNonce", "real")
             /\ dif2 # 0 \/ \E j \in 1..i - 1 : p[j].kind = "Difficulty"
  <2>1. /\ q[i + 1].kind = "MiningJob" /\ i + 1 \in 1..Len(q) /\ p[i] = q[i + 1]
        /\ job <= p[i].val /\ p[i].val <= last
    BY <1>1, <1>7 DEF InOrder
  <2>2. job2 <= p[i].val
    BY <2>1, <1>1 DEF InOrder
  <2>3. \A j \in 1..(i + 1) - 1 : j = 1 \/ (j - 1 \in 1..i - 1 /\ p[j - 1] = q[j])
    BY <1>1
  <2>4. en2 = "real" \/ \E j \in 1..i - 1 : p[j] = Msg("ExtraNonce", "real")
    <3>1. CASE en = "real"
      BY <3>1, <1>2
    <3>2. CASE \E j \in 1..(i + 1) - 1 : q[j] = Msg("ExtraNonce", "real")
      <4>1. PICK j \in 1..(i + 1) - 1 : q[j] = Msg("ExtraNonce", "real")
        BY <3>2
      <4>2. CASE j = 1
        BY <4>1, <4>2, <1>1 DEF Msg
      <4>3. CASE j # 1
        BY <4>1, <4>3, <2>3
      <4> QED
        BY <4>2, <4>3
    <3> QED
      BY <3>1, <3>2, <2>1 DEF InOrder
  <2>5. dif2 # 0 \/ \E j \in 1..i - 1 : p[j].kind = "Difficulty"
    <3>1. CASE dif # 0
      BY <3>1, <1>3
    <3>2. CASE \E j \in 1..(i + 1) - 1 : q[j].kind = "Difficulty"
      <4>1. PICK j \in 1..(i + 1) - 1 : q[j].kind = "Difficulty"
        BY <3>2
      <4>2. CASE j = 1
        BY <4>1, <4>2, <1>1, MessageKinds
      <4>3. CASE j # 1
        BY <4>1, <4>3, <2>3
      <4> QED
        BY <4>2, <4>3
    <3> QED
      BY <3>1, <3>2, <2>1 DEF InOrder
  <2> QED
    BY <2>1, <2>2, <2>4, <2>5
<1>8. \A i \in 1..Len(p) : p[i] = Msg("ExtraNonce", "default") => i = 1 /\ en2 = "none"
  BY <1>1 DEF InOrder
<1>9. \A i, j \in 1..Len(p) :
        i < j /\ p[i].kind = "MiningJob" /\ p[j].kind = "MiningJob" => p[i].val <= p[j].val
  BY <1>1 DEF InOrder
<1> QED
  BY <1>2, <1>3, <1>4, <1>5, <1>6, <1>7, <1>8, <1>9 DEF InOrder, p

LEMMA KnowTail ==
  ASSUME NEW q \in Seq(Message), q # <<>>, NEW en, NEW dif, NEW last \in Nat, NEW job \in Nat,
         InOrder(q, en, dif, job, last),
         NEW sessionEn \in {"default", "real"}, WillKnow(q, en, dif, sessionEn),
         NEW en2, NEW dif2, NEW job2, Recorded(Head(q), en, dif, job, en2, dif2, job2)
  PROVE  WillKnow(Tail(q), en2, dif2, sessionEn)
<1> DEFINE p == Tail(q)
<1>1. /\ Head(q) \in Message /\ Head(q) = q[1] /\ 1 \in 1..Len(q)
      /\ \A i \in 1..Len(p) : p[i] = q[i + 1] /\ i + 1 \in 1..Len(q)
      /\ \A i \in 1..Len(q) : i # 1 => i - 1 \in 1..Len(p) /\ p[i - 1] = q[i]
  BY Taken
<1> HIDE DEF p
<1>0. \/ Head(q).kind = "ExtraNonce" /\ en2 = Head(q).val /\ dif2 = dif
      \/ Head(q).kind = "Difficulty" /\ en2 = en /\ dif2 = Head(q).val
      \/ Head(q).kind = "MiningJob" /\ en2 = en /\ dif2 = dif
  BY DEF Recorded
<1>2. en = "real" => en2 = "real"
  BY <1>0, <1>1, MessageKinds DEF InOrder
<1>3. sessionEn = "real" => en2 = "real" \/ \E j \in 1..Len(p) : p[j] = Msg("ExtraNonce", "real")
  BY <1>0, <1>1, <1>2 DEF WillKnow, Msg
<1>4. sessionEn = "default" =>
        en2 # "real" /\ \A j \in 1..Len(p) : p[j].kind # "MiningJob" /\ p[j] # Msg("ExtraNonce", "real")
  BY <1>0, <1>1, MessageKinds DEF WillKnow
<1>5. dif2 # 0 \/ \E j \in 1..Len(p) : p[j].kind = "Difficulty"
  <2>1. Head(q).kind = "Difficulty" => dif2 # 0
    BY <1>0, <1>1, MessageKinds
  <2>2. dif # 0 => dif2 # 0
    BY <1>0, <2>1
  <2>3. ASSUME NEW j \in 1..Len(q), q[j].kind = "Difficulty"
        PROVE  dif2 # 0 \/ \E k \in 1..Len(p) : p[k].kind = "Difficulty"
    BY <1>0, <2>1, <2>3, <1>1
  <2> QED
    BY <2>2, <2>3 DEF WillKnow
<1> QED
  BY <1>3, <1>4, <1>5 DEF WillKnow, p
-----------------------------------------------------------------------------
(* The steps of the sessions. *)

SessionRecord == [en : {"default", "real"}, dif : 1..MaxDiff, job : 0..MaxJobs]
poolVars == <<connections, extraNonces, difficulties, jobs, current, subscribers, view>>

(* A session that changes and tells the pool of it with message m. *)
Turns(c, m, s) ==
  /\ m \in Message /\ s \in SessionRecord
  /\ Tell(c, <<m>>) /\ session' = [session EXCEPT ![c] = s]
  /\ UNCHANGED <<actor, subscribed, poolVars>>
  /\ session[c].job <= s.job /\ (s.job # 0 => s.en = "real")
  /\ Tells(m, session[c].en, s.en)
  /\ m # Msg("ExtraNonce", "default")
  /\ m.kind = "MiningJob" => session[c].en = "real" /\ m.val = s.job

LEMMA TellIInv ==
  ASSUME IInv, NEW c \in Conn, NEW m, NEW s, Turns(c, m, s)
  PROVE  IInv'
<1>1. /\ session' \in [Conn -> SessionRecord] /\ session[c] \in SessionRecord
      /\ session'[c] = s /\ \A d \in Conn \ {c} : session'[d] = session[d]
      /\ chan[c] \in Seq(Message) /\ jobs[c] \in Nat
      /\ session[c].job \in Nat /\ s.job \in Nat
      /\ session[c].en \in {"default", "real"} /\ s.en \in {"default", "real"}
  BY PoolAssumption DEF IInv, TypeOK, SessionRecord, Turns
<1>2. chan[c] \o <<m>> \in Seq(Message)
  BY <1>1, Appended DEF Turns
<1>3. TypeOK'
  BY <1>1, <1>2 DEF IInv, TypeOK, Turns, Tell, SessionRecord, poolVars
<1>4. jobs[c] <= s.job
  BY <1>1 DEF IInv, SessionsGood, Turns
<1>5. SessionsGood'
  BY <1>1, <1>4 DEF IInv, SessionsGood, Turns, poolVars
<1>6. ChannelsGood'
  <2> SUFFICES ASSUME NEW d \in Conn
               PROVE  IF d \in subscribed
                      THEN /\ actor[d] # "none"
                           /\ InOrder(chan'[d], extraNonces[d], difficulties[d], jobs[d], session'[d].job)
                           /\ WillKnow(chan'[d], extraNonces[d], difficulties[d], session'[d].en)
                      ELSE chan'[d] = <<>> /\ extraNonces[d] = "none" /\ difficulties[d] = 0
                           /\ jobs[d] = 0
    BY DEF ChannelsGood, Turns, poolVars
  <2>1. CASE d \notin subscribed \/ d # c
    <3>1. chan'[d] = chan[d]
      BY <2>1 DEF Turns, Tell, IInv, TypeOK
    <3>2. CASE d # c
      BY <3>1, <3>2, <1>1 DEF IInv, ChannelsGood
    <3>3. CASE d \notin subscribed
      BY <3>1, <3>3 DEF IInv, ChannelsGood
    <3> QED
      BY <2>1, <3>2, <3>3
  <2>2. CASE d \in subscribed /\ d = c
    <3>1. chan'[c] = chan[c] \o <<m>>
      BY <2>2 DEF Turns, Tell, IInv, TypeOK
    <3>2. /\ actor[c] # "none"
          /\ InOrder(chan[c], extraNonces[c], difficulties[c], jobs[c], session[c].job)
          /\ WillKnow(chan[c], extraNonces[c], difficulties[c], session[c].en)
      BY <2>2 DEF IInv, ChannelsGood
    <3>3. InOrder(chan[c] \o <<m>>, extraNonces[c], difficulties[c], jobs[c], s.job)
      BY <1>1, <1>4, <3>2, OrderAppend DEF Turns
    <3>4. WillKnow(chan[c] \o <<m>>, extraNonces[c], difficulties[c], s.en)
      BY <1>1, <3>2, KnowAppend DEF Turns
    <3> QED
      BY <2>2, <3>1, <3>2, <3>3, <3>4, <1>1
  <2> QED
    BY <2>1, <2>2
<1>7. (CurrentGood /\ ViewCurrent /\ MinableView)'
  BY DEF IInv, CurrentGood, ViewCurrent, MinableView, Turns, poolVars
<1> QED
  BY <1>3, <1>5, <1>6, <1>7 DEF IInv

LEMMA SessionIInv ==
  ASSUME IInv, NEW c \in Conn, Session(c)
  PROVE  IInv'
<1>1. session[c] \in SessionRecord /\ MaxDiff \in Nat /\ MaxJobs \in Nat
      /\ session[c].job \in 0..MaxJobs /\ session[c].dif \in 1..MaxDiff
      /\ session[c].en \in {"default", "real"}
  BY PoolAssumption DEF IInv, TypeOK, SessionRecord
<1>2. CASE Connected(c) \/ SessionFails(c)
  <2>1. /\ UNCHANGED <<session, subscribed, chan, poolVars>>
        /\ actor[c] # "none"
        /\ actor' = [actor EXCEPT ![c] = "normal"] \/ actor' = [actor EXCEPT ![c] = "dead"]
    BY <1>2 DEF Connected, SessionFails, poolVars
  <2>2. TypeOK'
    BY <2>1 DEF IInv, TypeOK, poolVars
  <2>3. actor \in [Conn -> {"none", "connecting", "normal", "dead"}]
    BY DEF IInv, TypeOK
  <2>4. \A d \in Conn : actor'[d] = "none" <=> actor[d] = "none"
    BY <2>1, <2>3
  <2>5. SessionsGood' /\ ChannelsGood'
    BY <2>1, <2>4 DEF IInv, SessionsGood, ChannelsGood, poolVars
  <2>6. (CurrentGood /\ ViewCurrent /\ MinableView)'
    BY <2>1 DEF IInv, CurrentGood, ViewCurrent, MinableView, poolVars
  <2> QED
    BY <2>2, <2>5, <2>6 DEF IInv
<1>3. CASE SubscribeResponse(c)
  <2> DEFINE s == [session[c] EXCEPT !.en = "real"]
             m == Msg("ExtraNonce", "real")
  <2>1. /\ s \in SessionRecord /\ s.en = "real" /\ s.job = session[c].job
        /\ session' = [session EXCEPT ![c] = s]
    BY <1>1, <1>3 DEF SubscribeResponse, SessionRecord
  <2>2. m \in Message /\ m # Msg("ExtraNonce", "default") /\ m.kind # "MiningJob"
    BY MessageKinds DEF Msg
  <2>3. Tell(c, <<m>>) /\ UNCHANGED <<actor, subscribed, poolVars>>
    BY <1>3 DEF SubscribeResponse, poolVars
  <2> HIDE DEF s, m
  <2>9. Turns(c, m, s)
    BY <1>1, <2>1, <2>2, <2>3 DEF Turns, Tells, m
  <2> QED
    BY <2>9, TellIInv
<1>4. CASE SetDifficulty(c)
  <2>1. PICK d \in session[c].dif + 1 .. MaxDiff :
          session' = [session EXCEPT ![c].dif = d] /\ Tell(c, <<Msg("Difficulty", d)>>)
    BY <1>4 DEF SetDifficulty
  <2> DEFINE s == [session[c] EXCEPT !.dif = d]
             m == Msg("Difficulty", d)
  <2>2. /\ s \in SessionRecord /\ s.en = session[c].en /\ s.job = session[c].job
        /\ session' = [session EXCEPT ![c] = s] /\ d \in 1..MaxDiff
    BY <1>1, <2>1 DEF SessionRecord
  <2>3. m \in Message /\ m.kind # "MiningJob" /\ m # Msg("ExtraNonce", "default")
        /\ m # Msg("ExtraNonce", "real")
    BY <2>2, MessageKinds DEF Msg
  <2>4. UNCHANGED <<actor, subscribed, poolVars>>
    BY <1>4 DEF SetDifficulty, poolVars
  <2>5. s.job # 0 => s.en = "real"
    BY <2>2 DEF IInv, SessionsGood
  <2>6. Tell(c, <<m>>)
    BY <2>1
  <2> HIDE DEF s, m
  <2>9. Turns(c, m, s)
    BY <1>1, <2>2, <2>3, <2>4, <2>5, <2>6 DEF Turns, Tells
  <2> QED
    BY <2>9, TellIInv
<1>5. CASE Notify(c)
  <2> DEFINE s == [session[c] EXCEPT !.job = session[c].job + 1]
             m == Msg("MiningJob", session[c].job + 1)
  <2>1. /\ s \in SessionRecord /\ s.en = session[c].en /\ s.en = "real"
        /\ s.job = session[c].job + 1 /\ s.job \in 1..MaxJobs
        /\ session' = [session EXCEPT ![c] = s]
    BY <1>1, <1>5 DEF Notify, SessionRecord
  <2>2. m \in Message /\ m.kind = "MiningJob" /\ m.val = s.job /\ m # Msg("ExtraNonce", "default")
        /\ m # Msg("ExtraNonce", "real")
    BY <2>1, MessageKinds DEF Msg
  <2>3. Tell(c, <<m>>) /\ UNCHANGED <<actor, subscribed, poolVars>>
    BY <1>5 DEF Notify, poolVars
  <2> HIDE DEF s, m
  <2>9. Turns(c, m, s)
    BY <1>1, <2>1, <2>2, <2>3 DEF Turns, Tells
  <2> QED
    BY <2>9, TellIInv
<1>6. CASE SessionSubscribe(c)
  <2> DEFINE a == Msg("ExtraNonce", session[c].en)
             b == Msg("Difficulty", session[c].dif)
             j == Msg("MiningJob", session[c].job)
             q == chan'[c]
  <2>1. /\ chan[c] = <<>> /\ extraNonces[c] = "none" /\ difficulties[c] = 0 /\ jobs[c] = 0
        /\ actor[c] # "none" /\ subscribed' = subscribed \cup {c}
        /\ \A d \in Conn \ {c} : chan'[d] = chan[d]
        /\ UNCHANGED <<actor, session, poolVars>>
    BY <1>6 DEF SessionSubscribe, IInv, TypeOK, ChannelsGood, poolVars
  <2>2. a \in Message /\ b \in Message /\ (session[c].job # 0 => j \in Message)
    BY <1>1, MessageKinds
  <2>3. q = <<>> \o (<<a, b>> \o IF session[c].job = 0 THEN <<>> ELSE <<j>>)
    BY <1>6, <2>1 DEF SessionSubscribe, IInv, TypeOK
  <2> HIDE DEF a, b, j
  <2>4. /\ q = IF session[c].job = 0 THEN <<a, b>> ELSE <<a, b, j>>
        /\ q \in Seq(Message)
    BY <2>2, <2>3
  <2>5. /\ a.kind = "ExtraNonce" /\ a.val = session[c].en /\ b.kind = "Difficulty"
        /\ j.kind = "MiningJob" /\ j.val = session[c].job
        /\ session[c].en = "real" => a = Msg("ExtraNonce", "real")
        /\ session[c].en = "default" => a # Msg("ExtraNonce", "real")
        /\ \A x : b # Msg("ExtraNonce", x) /\ j # Msg("ExtraNonce", x)
    BY DEF a, b, j, Msg
  <2>6. chan' \in [Conn -> Seq(Message)]
    BY <1>6, <2>4 DEF SessionSubscribe, IInv, TypeOK
  <2>7. TypeOK'
    BY <2>1, <2>6 DEF IInv, TypeOK, poolVars
  <2>8. session[c].job # 0 => session[c].en = "real"
    BY DEF IInv, SessionsGood
  <2>9. InOrder(q, "none", 0, 0, session[c].job)
    <3>1. CASE session[c].job = 0
      BY <3>1, <2>4, <2>5 DEF InOrder
    <3>2. CASE session[c].job # 0
      <4> HIDE DEF q
      <4>1. q = <<a, b, j>> /\ Len(q) = 3 /\ q[1] = a /\ q[2] = b /\ q[3] = j
        BY <3>2, <2>4
      <4>2. \A i \in 1..3 : q[i].kind = "MiningJob" => i = 3
        BY <4>1, <2>5
      <4>3. q[1] = Msg("ExtraNonce", "real") /\ q[2].kind = "Difficulty" /\ 1 \in 1..3 - 1 /\ 2 \in 1..3 - 1
        BY <3>2, <4>1, <2>5, <2>8
      <4>4. \A i \in 1..3 : q[i] = Msg("ExtraNonce", "default") => i = 1
        BY <4>1, <2>5
      <4>5. q[3].val = session[c].job /\ session[c].job \in Nat
        BY <4>1, <2>5, <1>1
      <4> QED
        BY <4>1, <4>2, <4>3, <4>4, <4>5 DEF InOrder
    <3> QED
      BY <3>1, <3>2
  <2>10. WillKnow(q, "none", 0, session[c].en)
    <3>1. CASE session[c].job = 0
      <4> HIDE DEF q
      <4>1. q = <<a, b>> /\ Len(q) = 2 /\ q[1] = a /\ q[2] = b
        BY <3>1, <2>4
      <4> QED
        BY <4>1, <2>5 DEF WillKnow
    <3>2. CASE session[c].job # 0
      <4> HIDE DEF q
      <4>1. q = <<a, b, j>> /\ Len(q) = 3 /\ q[1] = a /\ q[2] = b /\ q[3] = j
        BY <3>2, <2>4
      <4> QED
        BY <3>2, <4>1, <2>5, <2>8 DEF WillKnow
    <3> QED
      BY <3>1, <3>2
  <2> HIDE DEF q
  <2>11. ChannelsGood'
    BY <2>1, <2>9, <2>10 DEF IInv, ChannelsGood, poolVars, q
  <2>12. SessionsGood' /\ (CurrentGood /\ ViewCurrent /\ MinableView)'
    BY <2>1 DEF IInv, SessionsGood, CurrentGood, ViewCurrent, MinableView, poolVars
  <2> QED
    BY <2>7, <2>11, <2>12 DEF IInv
<1> QED
  BY <1>2, <1>3, <1>4, <1>5, <1>6 DEF Session, Server
-----------------------------------------------------------------------------
(* The steps of the pool. *)

Row(c, ens, difs, js) == [en |-> <<c, ens[c]>>, dif |-> <<c, difs[c]>>, job |-> <<c, js[c]>>]

(* What the records ens, difs and js of a step have to be like, and the views *)
(* v at the time of checkConnections.                                        *)
Records(ens, difs, js) ==
  /\ ens \in [Conn -> {"none", "default", "real"}]
  /\ difs \in [Conn -> 0..MaxDiff]
  /\ js \in [Conn -> 0..MaxJobs]
  /\ \A c \in Conn : js[c] # 0 => ens[c] = "real" /\ difs[c] # 0

Views(v, ens, difs, js) ==
  /\ current = NoConn => v = view
  /\ current # NoConn =>
       /\ js[current] # 0
       /\ v = [m \in Miner |-> IF m \in subscribers THEN Row(current, ens, difs, js) ELSE view[m]]

(* What then holds of current and view. *)
Shown(ens, difs, js) ==
  IF current' = NoConn
  THEN (\A c \in Conn : js[c] = 0) /\ view' = view /\ current = NoConn
  ELSE /\ current' \in Conn
       /\ js[current'] # 0
       /\ view' = [m \in Miner |-> IF m \in subscribers THEN Row(current', ens, difs, js) ELSE view[m]]

LEMMA UpdatedRows ==
  ASSUME NEW c \in Conn, NEW ens, NEW difs, NEW js, Records(ens, difs, js), js[c] # 0, IInv
  PROVE  Updated(view, c, ens, difs, js)
           = [m \in Miner |-> IF m \in subscribers THEN Row(c, ens, difs, js) ELSE view[m]]
BY DEF Updated, Records, Row

LEMMA ForwardRows ==
  ASSUME IInv, current # NoConn, NEW c \in Conn,
         NEW ens, NEW difs, NEW js, NEW field, NEW x,
         \/ /\ field = "en" /\ ens = [extraNonces EXCEPT ![c] = x]
            /\ difs = difficulties /\ js = jobs
         \/ /\ field = "dif" /\ difs = [difficulties EXCEPT ![c] = x]
            /\ ens = extraNonces /\ js = jobs
         \/ /\ field = "job" /\ js = [jobs EXCEPT ![c] = x]
            /\ ens = extraNonces /\ difs = difficulties
  PROVE  Forward(c, field, x)
           = [m \in Miner |-> IF m \in subscribers THEN Row(current, ens, difs, js) ELSE view[m]]
<1>1. /\ current \in Conn
      /\ \A m \in subscribers : view[m] = Row(current, extraNonces, difficulties, jobs)
      /\ extraNonces \in [Conn -> {"none", "default", "real"}]
      /\ difficulties \in [Conn -> 0..MaxDiff] /\ jobs \in [Conn -> 0..MaxJobs]
  BY DEF IInv, TypeOK, ViewCurrent, Row
<1>2. CASE c # current
  <2>1. Row(current, ens, difs, js) = Row(current, extraNonces, difficulties, jobs)
    BY <1>1, <1>2 DEF Row
  <2> QED
    BY <1>1, <1>2, <2>1 DEF Forward
<1>3. CASE c = current
  <2>1. \A m \in subscribers : [view[m] EXCEPT ![field] = <<c, x>>] = Row(current, ens, difs, js)
    BY <1>1, <1>3 DEF Row
  <2> QED
    BY <1>3, <2>1 DEF Forward
<1> QED
  BY <1>2, <1>3

LEMMA CheckShown ==
  ASSUME IInv, NEW ens, NEW difs, NEW js, Records(ens, difs, js), NEW v, Views(v, ens, difs, js),
         NEW cs \in SUBSET Conn, CheckConnections(cs, ens, difs, js, v),
         \A c \in Conn : current = NoConn /\ js[c] # 0 => c \in cs
  PROVE  /\ Shown(ens, difs, js)
         /\ actor' \in [Conn -> {"none", "connecting", "normal", "dead"}]
         /\ \A c \in Conn : actor'[c] # "none" => actor[c] # "none" \/ c \in cs
         /\ \A c \in Conn : actor[c] # "none" => actor'[c] # "none"
<1>1. actor \in [Conn -> {"none", "connecting", "normal", "dead"}] /\ current \in Conn \cup {NoConn}
      /\ NoConn \notin Conn
  BY PoolAssumption DEF IInv, TypeOK
<1>2. CASE current # NoConn /\ view' = v /\ UNCHANGED <<current, actor>>
  BY <1>1, <1>2 DEF Views, Shown
<1>3. CASE current = NoConn /\ actor' = WithRefs(cs) /\ Active(cs, js) = {}
             /\ current' = NoConn /\ view' = v
  <2>1. \A c \in Conn : js[c] = 0
    BY <1>3 DEF Active
  <2> QED
    BY <1>1, <1>3, <2>1 DEF WithRefs, Shown, Views
<1>4. ASSUME current = NoConn, actor' = WithRefs(cs), NEW c \in Pick(Active(cs, js)), current' = c,
             view' = Updated(v, c, ens, difs, js)
      PROVE  Shown(ens, difs, js)
  <2>1. c \in Conn /\ js[c] # 0
    BY <1>4 DEF Pick, Active
  <2>2. v = view
    BY <1>4 DEF Views
  <2> QED
    BY <1>1, <1>4, <2>1, <2>2, UpdatedRows DEF Shown
<1>5. actor' = actor \/ actor' = WithRefs(cs)
  BY DEF CheckConnections
<1>6. /\ actor' \in [Conn -> {"none", "connecting", "normal", "dead"}]
      /\ \A c \in Conn : actor'[c] # "none" => actor[c] # "none" \/ c \in cs
      /\ \A c \in Conn : actor[c] # "none" => actor'[c] # "none"
  BY <1>1, <1>5 DEF WithRefs
<1> QED
  BY <1>2, <1>3, <1>4, <1>6 DEF CheckConnections

(* From what is shown to the invariants about it. *)
LEMMA ShownGood ==
  ASSUME IInv, NEW ens, NEW difs, NEW js, Records(ens, difs, js), Shown(ens, difs, js),
         extraNonces' = ens, difficulties' = difs, jobs' = js, subscribers' = subscribers
  PROVE  /\ CurrentGood' /\ ViewCurrent' /\ MinableView'
         /\ current' \in Conn \cup {NoConn}
         /\ view' \in [Miner -> [en : Tag({"default", "real"}), dif : Tag(1..MaxDiff),
                                  job : Tag(1..MaxJobs)]]
<1> DEFINE V == [en : Tag({"default", "real"}), dif : Tag(1..MaxDiff), job : Tag(1..MaxJobs)]
<1>1. view \in [Miner -> V] /\ subscribers \subseteq Miner /\ NoConn \notin Conn
      /\ current \in Conn \cup {NoConn} /\ MaxDiff \in Nat /\ MaxJobs \in Nat
  BY PoolAssumption DEF IInv, TypeOK
<1>2. CASE current' = NoConn
  BY <1>1, <1>2 DEF Shown, IInv, CurrentGood, ViewCurrent, MinableView
<1>3. CASE current' # NoConn
  <2>1. current' \in Conn /\ js[current'] # 0 /\ ens[current'] = "real" /\ difs[current'] # 0
        /\ difs[current'] \in 1..MaxDiff /\ js[current'] \in 1..MaxJobs
    BY <1>1, <1>3 DEF Shown, Records
  <2>2. view' = [m \in Miner |-> IF m \in subscribers THEN Row(current', ens, difs, js) ELSE view[m]]
    BY <1>3 DEF Shown
  <2>3. Row(current', ens, difs, js) \in V
    BY <2>1 DEF Row, Tag
  <2>4. view' \in [Miner -> V]
    BY <1>1, <2>2, <2>3
  <2>5. CurrentGood'
    BY <1>3, <2>1 DEF CurrentGood
  <2>6. ViewCurrent'
    BY <1>1, <2>1, <2>2 DEF ViewCurrent, Row
  <2>7. MinableView'
    <3> SUFFICES ASSUME NEW m \in Miner, view'[m].job # Nothing
                 PROVE  /\ view'[m].en = <<view'[m].job[1], "real">>
                        /\ view'[m].dif # Nothing /\ view'[m].dif[1] = view'[m].job[1]
      BY DEF MinableView
    <3>1. CASE m \in subscribers
      <4>1. view'[m] = Row(current', ens, difs, js)
        BY <2>2, <3>1
      <4>2. \A a, b : <<a, b>> # Nothing
        BY DEF Nothing
      <4> QED
        BY <2>1, <4>1, <4>2 DEF Row
    <3>2. CASE m \notin subscribers
      BY <2>2, <3>2 DEF IInv, MinableView
    <3> QED
      BY <3>1, <3>2
  <2> QED
    BY <2>1, <2>4, <2>5, <2>6, <2>7
<1> QED
  BY <1>2, <1>3

(* The pool takes message m of connection c and then calls checkConnections. *)
Takes(c, m, ens, difs, js) ==
  /\ chan[c] # <<>> /\ m = Head(chan[c])
  /\ chan' = [chan EXCEPT ![c] = Tail(@)]
  /\ \/ /\ m.kind = "ExtraNonce" /\ ens = [extraNonces EXCEPT ![c] = m.val]
        /\ difs = difficulties /\ js = jobs
        /\ CheckConnections(connections, ens, difs, js, Forward(c, "en", m.val))
     \/ /\ m.kind = "Difficulty" /\ difs = [difficulties EXCEPT ![c] = m.val]
        /\ ens = extraNonces /\ js = jobs
        /\ CheckConnections(connections, ens, difs, js, Forward(c, "dif", m.val))
     \/ /\ m.kind = "MiningJob" /\ js = [jobs EXCEPT ![c] = m.val]
        /\ ens = extraNonces /\ difs = difficulties
        /\ CheckConnections(connections, ens, difs, js, Forward(c, "job", m.val))
  /\ extraNonces' = ens /\ difficulties' = difs /\ jobs' = js
  /\ UNCHANGED <<session, subscribed, connections, subscribers>>

LEMMA ReceiveTakes ==
  ASSUME NEW c \in Conn, Receive(c)
  PROVE  Takes(c, Head(chan[c]), extraNonces', difficulties', jobs')
BY DEF Receive, ReceiveExtraNonce, ReceiveDifficulty, ReceiveMiningJob, Takes

(* What taking a message does to the records of its connection.              *)
LEMMA TakesRecords ==
  ASSUME IInv, NEW c \in Conn, NEW m, NEW ens, NEW difs, NEW js, Takes(c, m, ens, difs, js)
  PROVE  /\ c \in subscribed /\ m \in Message
         /\ Tail(chan[c]) \in Seq(Message)
         /\ InOrder(Tail(chan[c]), ens[c], difs[c], js[c], session[c].job)
         /\ WillKnow(Tail(chan[c]), ens[c], difs[c], session[c].en)
         /\ jobs[c] <= js[c] /\ js[c] <= session[c].job
         /\ extraNonces[c] = "real" => ens[c] = "real"
         /\ difficulties[c] # 0 => difs[c] # 0
         /\ Records(ens, difs, js)
         /\ \A d \in Conn \ {c} : ens[d] = extraNonces[d] /\ difs[d] = difficulties[d]
                                   /\ js[d] = jobs[d]
<1>1. /\ extraNonces \in [Conn -> {"none", "default", "real"}]
      /\ difficulties \in [Conn -> 0..MaxDiff] /\ jobs \in [Conn -> 0..MaxJobs]
      /\ chan[c] \in Seq(Message) /\ MaxDiff \in Nat /\ MaxJobs \in Nat
      /\ session[c].job \in Nat /\ session[c].en \in {"default", "real"} /\ jobs[c] \in Nat
      /\ jobs[c] <= session[c].job
  BY PoolAssumption DEF IInv, TypeOK, SessionsGood
<1>2. chan[c] # <<>> /\ m = Head(chan[c]) /\ c \in subscribed
  BY DEF Takes, IInv, ChannelsGood
<1>3. m \in Message /\ Tail(chan[c]) \in Seq(Message)
  BY <1>1, <1>2, Taken
<1>4. /\ InOrder(chan[c], extraNonces[c], difficulties[c], jobs[c], session[c].job)
      /\ WillKnow(chan[c], extraNonces[c], difficulties[c], session[c].en)
  BY <1>2 DEF IInv, ChannelsGood
<1>5. Recorded(m, extraNonces[c], difficulties[c], jobs[c], ens[c], difs[c], js[c])
  BY <1>1 DEF Takes, Recorded
<1>6. /\ InOrder(Tail(chan[c]), ens[c], difs[c], js[c], session[c].job)
      /\ extraNonces[c] = "real" => ens[c] = "real"
      /\ difficulties[c] # 0 => difs[c] # 0
      /\ js[c] # 0 => ens[c] = "real" /\ difs[c] # 0
      /\ jobs[c] <= js[c] /\ js[c] \in Nat
      /\ m.kind = "MiningJob" => js[c] <= session[c].job
  <2> DEFINE q == chan[c]
             last == session[c].job
             en == extraNonces[c]
             dif == difficulties[c]
             job == jobs[c]
             en2 == ens[c]
             dif2 == difs[c]
             job2 == js[c]
  <2>1. q \in Seq(Message) /\ q # <<>> /\ m = Head(q) /\ job \in Nat /\ last \in Nat
        /\ InOrder(q, en, dif, job, last) /\ Recorded(Head(q), en, dif, job, en2, dif2, job2)
    BY <1>1, <1>2, <1>4, <1>5
  <2> HIDE DEF q, last, en, dif, job, en2, dif2, job2
  <2>2. /\ InOrder(Tail(q), en2, dif2, job2, last)
        /\ en = "real" => en2 = "real"
        /\ dif # 0 => dif2 # 0
        /\ job2 # 0 => en2 = "real" /\ dif2 # 0
        /\ job <= job2 /\ job2 \in Nat
        /\ Head(q).kind = "MiningJob" => job2 <= last
    BY <2>1, OrderTail
  <2> QED
    BY <2>1, <2>2 DEF q, last, en, dif, job, en2, dif2, job2
<1>7. WillKnow(Tail(chan[c]), ens[c], difs[c], session[c].en)
  BY <1>1, <1>2, <1>4, <1>5, KnowTail
<1>8. js[c] <= session[c].job
  BY <1>1, <1>5, <1>6 DEF Recorded
<1>9. \A d \in Conn \ {c} : ens[d] = extraNonces[d] /\ difs[d] = difficulties[d] /\ js[d] = jobs[d]
  BY <1>1 DEF Takes
<1>10. /\ m.kind = "ExtraNonce" => m.val \in {"none", "default", "real"}
       /\ m.kind = "Difficulty" => m.val \in 0..MaxDiff
       /\ m.kind = "MiningJob" => m.val \in 0..MaxJobs
  BY <1>1, <1>3, MessageKinds
<1>11. /\ ens \in [Conn -> {"none", "default", "real"}]
       /\ difs \in [Conn -> 0..MaxDiff] /\ js \in [Conn -> 0..MaxJobs]
  BY <1>1, <1>10 DEF Takes
<1>12. \A d \in Conn : js[d] # 0 => ens[d] = "real" /\ difs[d] # 0
  BY <1>6, <1>9, JobNeeds
<1> QED
  BY <1>2, <1>3, <1>6, <1>7, <1>8, <1>9, <1>11, <1>12 DEF Records

LEMMA TakesShown ==
  ASSUME IInv, NEW c \in Conn, NEW m, NEW ens, NEW difs, NEW js, Takes(c, m, ens, difs, js)
  PROVE  /\ Shown(ens, difs, js)
         /\ actor' \in [Conn -> {"none", "connecting", "normal", "dead"}]
         /\ \A d \in Conn : actor'[d] # "none" => actor[d] # "none" \/ d \in connections
         /\ \A d \in Conn : actor[d] # "none" => actor'[d] # "none"
<1>1. PICK field : /\ CheckConnections(connections, ens, difs, js, Forward(c, field, m.val))
                   /\ \/ /\ field = "en" /\ ens = [extraNonces EXCEPT ![c] = m.val]
                         /\ difs = difficulties /\ js = jobs
                      \/ /\ field = "dif" /\ difs = [difficulties EXCEPT ![c] = m.val]
                         /\ ens = extraNonces /\ js = jobs
                      \/ /\ field = "job" /\ js = [jobs EXCEPT ![c] = m.val]
                         /\ ens = extraNonces /\ difs = difficulties
  BY DEF Takes
<1>2. /\ Records(ens, difs, js) /\ c \in subscribed /\ jobs[c] <= js[c] /\ js[c] \in Nat
      /\ \A d \in Conn \ {c} : js[d] = jobs[d]
  BY TakesRecords, PoolAssumption DEF Records
<1>3. Views(Forward(c, field, m.val), ens, difs, js)
  <2>1. CASE current = NoConn
    <3>1. c # NoConn
      BY PoolAssumption
    <3>2. Forward(c, field, m.val) = [n \in Miner |-> view[n]]
      BY <2>1, <3>1 DEF Forward
    <3>3. view = [n \in Miner |-> view[n]]
      BY DEF IInv, TypeOK
    <3> QED
      BY <2>1, <3>2, <3>3 DEF Views
  <2>2. CASE current # NoConn
    <3>1. Forward(c, field, m.val)
            = [n \in Miner |-> IF n \in subscribers THEN Row(current, ens, difs, js) ELSE view[n]]
      BY <1>1, <2>2, ForwardRows
    <3>2. current \in Conn /\ jobs[current] # 0 /\ jobs[current] \in Nat
      BY <2>2, PoolAssumption DEF IInv, TypeOK, CurrentGood
    <3>3. js[current] # 0
      BY <1>2, <3>2
    <3> QED
      BY <2>2, <3>1, <3>3 DEF Views
  <2> QED
    BY <2>1, <2>2
<1>4. \A d \in Conn : current = NoConn /\ js[d] # 0 => d \in connections
  BY <1>2 DEF IInv, CurrentGood, ChannelsGood, SessionsGood
<1>5. connections \in SUBSET Conn
  BY DEF IInv, TypeOK
<1> QED
  BY <1>1, <1>2, <1>3, <1>4, <1>5, CheckShown

LEMMA ReceiveIInv ==
  ASSUME IInv, NEW c \in Conn, Receive(c)
  PROVE  IInv'
<1> DEFINE m == Head(chan[c])
           ens == extraNonces'
           difs == difficulties'
           js == jobs'
<1>1. Takes(c, m, ens, difs, js)
  BY ReceiveTakes
<1>2. /\ c \in subscribed /\ Tail(chan[c]) \in Seq(Message)
      /\ InOrder(Tail(chan[c]), ens[c], difs[c], js[c], session[c].job)
      /\ WillKnow(Tail(chan[c]), ens[c], difs[c], session[c].en)
      /\ js[c] <= session[c].job
      /\ Records(ens, difs, js)
      /\ \A d \in Conn \ {c} : ens[d] = extraNonces[d] /\ difs[d] = difficulties[d] /\ js[d] = jobs[d]
  BY <1>1, TakesRecords
<1>3. /\ Shown(ens, difs, js)
      /\ actor' \in [Conn -> {"none", "connecting", "normal", "dead"}]
      /\ \A d \in Conn : actor'[d] # "none" => actor[d] # "none" \/ d \in connections
      /\ \A d \in Conn : actor[d] # "none" => actor'[d] # "none"
  BY <1>1, TakesShown
<1>4. /\ UNCHANGED <<session, subscribed, connections, subscribers>>
      /\ chan' \in [Conn -> Seq(Message)] /\ chan'[c] = Tail(chan[c])
      /\ \A d \in Conn \ {c} : chan'[d] = chan[d]
  BY <1>1, <1>2 DEF Takes, IInv, TypeOK
<1>5. CurrentGood' /\ ViewCurrent' /\ MinableView'
      /\ current' \in Conn \cup {NoConn}
      /\ view' \in [Miner -> [en : Tag({"default", "real"}), dif : Tag(1..MaxDiff),
                              job : Tag(1..MaxJobs)]]
  BY <1>2, <1>3, <1>4, ShownGood
<1>6. TypeOK'
  BY <1>2, <1>3, <1>4, <1>5 DEF IInv, TypeOK, Records
<1>7. SessionsGood'
  BY <1>2, <1>3, <1>4 DEF IInv, SessionsGood
<1>8. ChannelsGood'
  <2> SUFFICES ASSUME NEW d \in Conn
               PROVE  IF d \in subscribed
                      THEN /\ actor'[d] # "none"
                           /\ InOrder(chan'[d], ens[d], difs[d], js[d], session[d].job)
                           /\ WillKnow(chan'[d], ens[d], difs[d], session[d].en)
                      ELSE chan'[d] = <<>> /\ ens[d] = "none" /\ difs[d] = 0 /\ js[d] = 0
    BY <1>4 DEF ChannelsGood
  <2>1. CASE d = c
    BY <2>1, <1>2, <1>3, <1>4 DEF IInv, ChannelsGood
  <2>2. CASE d # c
    BY <2>2, <1>2, <1>3, <1>4 DEF IInv, ChannelsGood
  <2> QED
    BY <2>1, <2>2
<1> QED
  BY <1>5, <1>6, <1>7, <1>8 DEF IInv

(* A step of the pool that takes no message. *)
LEMMA KeepsIInv ==
  ASSUME IInv, Shown(extraNonces, difficulties, jobs),
         UNCHANGED <<session, subscribed, chan, extraNonces, difficulties, jobs, subscribers>>,
         connections \subseteq connections', connections' \in SUBSET Conn,
         actor' \in [Conn -> {"none", "connecting", "normal", "dead"}],
         \A c \in Conn : actor'[c] # "none" => c \in connections',
         \A c \in Conn : actor[c] # "none" => actor'[c] # "none"
  PROVE  IInv'
<1>1. Records(extraNonces, difficulties, jobs)
  BY JobNeeds DEF IInv, TypeOK, Records
<1>2. CurrentGood' /\ ViewCurrent' /\ MinableView'
      /\ current' \in Conn \cup {NoConn}
      /\ view' \in [Miner -> [en : Tag({"default", "real"}), dif : Tag(1..MaxDiff),
                              job : Tag(1..MaxJobs)]]
  BY <1>1, ShownGood
<1>3. TypeOK'
  BY <1>2 DEF IInv, TypeOK
<1>4. SessionsGood' /\ ChannelsGood'
  BY DEF IInv, SessionsGood, ChannelsGood
<1> QED
  BY <1>2, <1>3, <1>4 DEF IInv

(* What is true of the records and views between two steps. *)
LEMMA Standing ==
  ASSUME IInv
  PROVE  /\ Records(extraNonces, difficulties, jobs)
         /\ Views(view, extraNonces, difficulties, jobs)
         /\ \A c \in Conn : jobs[c] # 0 => c \in connections
         /\ \A c \in Conn : actor[c] # "none" => c \in connections
         /\ current # NoConn => current \in Conn /\ jobs[current] # 0
<1>1. Records(extraNonces, difficulties, jobs)
  BY JobNeeds DEF IInv, TypeOK, Records
<1>2. CASE current # NoConn
  <2>1. current \in Conn /\ jobs[current] # 0
    BY <1>2 DEF IInv, TypeOK, CurrentGood
  <2>2. view = [m \in Miner |-> view[m]]
    BY DEF IInv, TypeOK
  <2>3. view = [m \in Miner |-> IF m \in subscribers
                                THEN Row(current, extraNonces, difficulties, jobs) ELSE view[m]]
    BY <1>2, <2>2 DEF IInv, ViewCurrent, Row
  <2> QED
    BY <1>1, <1>2, <2>1, <2>3 DEF Views, IInv, SessionsGood, ChannelsGood
<1>3. CASE current = NoConn
  BY <1>1, <1>3 DEF Views, IInv, SessionsGood, ChannelsGood
<1> QED
  BY <1>2, <1>3

LEMMA AddConnectionShown ==
  ASSUME IInv, NEW c \in Conn, AddConnection(c)
  PROVE  /\ Shown(extraNonces, difficulties, jobs)
         /\ actor' \in [Conn -> {"none", "connecting", "normal", "dead"}]
         /\ \A d \in Conn : actor'[d] # "none" => actor[d] # "none" \/ d \in connections'
         /\ \A d \in Conn : actor[d] # "none" => actor'[d] # "none"
<1>1. connections' = connections \cup {c} /\ connections' \in SUBSET Conn
  BY DEF AddConnection, IInv, TypeOK
<1>2. CheckConnections(connections', extraNonces, difficulties, jobs, view)
  BY DEF AddConnection
<1> QED
  BY <1>1, <1>2, Standing, CheckShown

LEMMA AddConnectionIInv ==
  ASSUME IInv, NEW c \in Conn, AddConnection(c)
  PROVE  IInv'
<1>1. connections' = connections \cup {c} /\ connections' \in SUBSET Conn
      /\ UNCHANGED <<session, subscribed, chan, extraNonces, difficulties, jobs, subscribers>>
  BY DEF AddConnection, IInv, TypeOK
<1> QED
  BY <1>1, AddConnectionShown, Standing, KeepsIInv

(* MaybeChangeConnection keeps the connection it has or switches to c. *)
Switches(c) ==
  /\ c \in Conn /\ c # current /\ jobs[c] # 0 /\ current' = c
  /\ view' = Updated(view, c, extraNonces, difficulties, jobs)

LEMMA ChangeSwitches ==
  ASSUME IInv, MaybeChangeConnection
  PROVE  /\ \/ UNCHANGED <<current, view>>
            \/ \E c \in Conn : Switches(c)
         /\ Shown(extraNonces, difficulties, jobs)
         /\ UNCHANGED <<session, subscribed, chan, connections, extraNonces, difficulties, jobs,
                        subscribers>>
         /\ actor' \in [Conn -> {"none", "connecting", "normal", "dead"}]
         /\ \A c \in Conn : actor'[c] # "none" => c \in connections
         /\ \A c \in Conn : actor[c] # "none" => actor'[c] # "none"
<1> DEFINE candidates == Pick(Active(connections, jobs))
           refs == WithRefs(connections)
<1>1. /\ actor \in [Conn -> {"none", "connecting", "normal", "dead"}]
      /\ view = [m \in Miner |-> view[m]] /\ connections \subseteq Conn
  BY DEF IInv, TypeOK
<1>2. /\ UNCHANGED <<session, subscribed, chan, connections, extraNonces, difficulties, jobs,
                     subscribers>>
      /\ \/ actor' = refs /\ UNCHANGED <<current, view>>
         \/ \E c \in candidates \ {current} :
              /\ actor' = [a \in Conn |-> IF a = current THEN "dead" ELSE refs[a]]
              /\ current' = c /\ view' = Updated(view, c, extraNonces, difficulties, jobs)
  BY DEF MaybeChangeConnection
<1>3. /\ refs \in [Conn -> {"none", "connecting", "normal", "dead"}]
      /\ \A c \in Conn : refs[c] # "none" => c \in connections
      /\ \A c \in Conn : actor[c] # "none" => refs[c] # "none"
  BY <1>1, Standing DEF WithRefs
<1>4. \A c \in candidates : c \in Conn /\ jobs[c] # 0
  BY <1>1 DEF Pick, Active
<1> HIDE DEF candidates, refs
<1>5. CASE actor' = refs /\ UNCHANGED <<current, view>>
  <2>1. Shown(extraNonces, difficulties, jobs)
    <3>1. CASE current = NoConn
      BY <1>5, <3>1 DEF Shown, IInv, CurrentGood
    <3>2. CASE current # NoConn
      BY <1>5, <3>2, Standing DEF Shown, Views
    <3> QED
      BY <3>1, <3>2
  <2> QED
    BY <1>2, <1>3, <1>5, <2>1
<1>6. ASSUME NEW c \in candidates \ {current},
             actor' = [a \in Conn |-> IF a = current THEN "dead" ELSE refs[a]],
             current' = c, view' = Updated(view, c, extraNonces, difficulties, jobs)
      PROVE  /\ Switches(c) /\ Shown(extraNonces, difficulties, jobs)
             /\ actor' \in [Conn -> {"none", "connecting", "normal", "dead"}]
             /\ \A d \in Conn : actor'[d] # "none" => d \in connections
             /\ \A d \in Conn : actor[d] # "none" => actor'[d] # "none"
  <2>1. c \in Conn /\ jobs[c] # 0 /\ c # NoConn
    BY <1>4, <1>6, PoolAssumption
  <2>2. Switches(c)
    BY <2>1, <1>6 DEF Switches
  <2>3. Shown(extraNonces, difficulties, jobs)
    BY <1>6, <2>1, Standing, UpdatedRows DEF Shown
  <2>4. current \in Conn => current \in connections
    BY Standing, PoolAssumption
  <2> QED
    BY <1>3, <1>6, <2>2, <2>3, <2>4
<1> QED
  BY <1>2, <1>4, <1>5, <1>6

LEMMA ChangeIInv ==
  ASSUME IInv, MaybeChangeConnection
  PROVE  IInv'
<1>1. connections \in SUBSET Conn
  BY DEF IInv, TypeOK
<1> QED
  BY <1>1, ChangeSwitches, KeepsIInv

LEMMA SubscribeViews ==
  ASSUME IInv, NEW m \in Miner, Subscribe(m)
  PROVE  view' = IF current = NoConn THEN view
                 ELSE [view EXCEPT ![m] = Row(current, extraNonces, difficulties, jobs)]
<1>1. CASE current # NoConn
  BY <1>1, Standing DEF Subscribe, Row, Records
<1>2. CASE current = NoConn
  BY <1>2 DEF Subscribe
<1> QED
  BY <1>1, <1>2

LEMMA SubscribeIInv ==
  ASSUME IInv, NEW m \in Miner, Subscribe(m)
  PROVE  IInv'
<1> DEFINE row == Row(current, extraNonces, difficulties, jobs)
           V == [en : Tag({"default", "real"}), dif : Tag(1..MaxDiff), job : Tag(1..MaxJobs)]
<1>1. /\ view' = IF current = NoConn THEN view ELSE [view EXCEPT ![m] = row]
      /\ subscribers' = subscribers \cup {m}
      /\ UNCHANGED <<actor, session, subscribed, chan, connections, extraNonces, difficulties,
                     jobs, current>>
  BY SubscribeViews DEF Subscribe
<1>2. view \in [Miner -> V] /\ NoConn \notin Conn /\ MaxDiff \in Nat /\ MaxJobs \in Nat
  BY PoolAssumption DEF IInv, TypeOK
<1>3. SessionsGood' /\ ChannelsGood'
  BY <1>1 DEF IInv, SessionsGood, ChannelsGood
<1>4. CASE current = NoConn
  BY <1>1, <1>3, <1>4 DEF IInv, TypeOK, CurrentGood, ViewCurrent, MinableView
<1>5. CASE current # NoConn
  <2>1. current \in Conn /\ jobs[current] # 0 /\ extraNonces[current] = "real"
        /\ difficulties[current] \in 1..MaxDiff /\ jobs[current] \in 1..MaxJobs
    BY <1>2, <1>5, Standing DEF Records
  <2>2. row \in V
    BY <2>1 DEF Row, Tag
  <2>3. view' \in [Miner -> V]
    BY <1>1, <1>2, <1>5, <2>2
  <2>4. TypeOK'
    BY <1>1, <2>3 DEF IInv, TypeOK
  <2>5. CurrentGood' /\ ViewCurrent'
    BY <1>1, <1>2, <1>5, <2>1 DEF IInv, CurrentGood, ViewCurrent, Row
  <2>6. row.en = <<row.job[1], "real">> /\ row.dif # Nothing /\ row.dif[1] = row.job[1]
    BY <2>1 DEF Row, Nothing
  <2>7. MinableView'
    BY <1>1, <1>2, <1>5, <2>6 DEF IInv, MinableView
  <2> QED
    BY <1>3, <2>4, <2>5, <2>7 DEF IInv
<1> QED
  BY <1>4, <1>5

LEMMA NextIInv == IInv /\ [Next]_vars => IInv'
<1> SUFFICES ASSUME IInv, [Next]_vars PROVE IInv'
  OBVIOUS
<1>1. ASSUME NEW c \in Conn, AddConnection(c) PROVE IInv'
  BY <1>1, AddConnectionIInv
<1>2. ASSUME NEW c \in Conn, Session(c) PROVE IInv'
  BY <1>2, SessionIInv
<1>3. ASSUME NEW c \in Conn, Receive(c) PROVE IInv'
  BY <1>3, ReceiveIInv
<1>4. ASSUME NEW m \in Miner, Subscribe(m) PROVE IInv'
  BY <1>4, SubscribeIInv
<1>5. ASSUME NEW m \in Miner, UnSubscribe(m) PROVE IInv'
  <2>1. /\ subscribers' = subscribers \ {m}
        /\ UNCHANGED <<actor, session, subscribed, chan, connections, extraNonces,
                       difficulties, jobs, current, view>>
    BY <1>5 DEF UnSubscribe
  <2> QED
    BY <2>1 DEF IInv, TypeOK, SessionsGood, ChannelsGood, CurrentGood, ViewCurrent, MinableView
<1>6. CASE MaybeChangeConnection
  BY <1>6, ChangeIInv
<1>7. CASE UNCHANGED vars
  BY <1>7 DEF vars, IInv, TypeOK, SessionsGood, ChannelsGood, CurrentGood, ViewCurrent, MinableView
<1> QED
  BY <1>1, <1>2, <1>3, <1>4, <1>5, <1>6, <1>7 DEF Next

(* What is reachable satisfies the inductive invariant. *)
THEOREM Invariant == Spec => []IInv
<1> QED
  BY InitIInv, NextIInv, PTL DEF Spec

(* The state of the pool is well formed: messages, records and views of the   *)
(* whole of StratumPool.scala take only the values they are meant to take.    *)
THEOREM TypeCorrect == Spec => []TypeOK
<1>1. IInv => TypeOK
  BY DEF IInv
<1> QED
  BY <1>1, Invariant, PTL

(* Every subscriber holds what the pool last heard of the current connection, *)
(* extranonce, difficulty and job (updateSubscriber, updateWork and the        *)
(* forwarding of StratumPool.scala together).                                 *)
THEOREM SubscribersCurrent == Spec => []ViewCurrent
<1>1. IInv => ViewCurrent
  BY DEF IInv
<1> QED
  BY <1>1, Invariant, PTL

(* No miner ever holds a job without the extranonce and the difficulty of the *)
(* same connection (what getWork of AbstractMiner.scala takes for granted).   *)
THEOREM JobsMinable == Spec => []MinableView
<1>1. IInv => MinableView
  BY DEF IInv
<1> QED
  BY <1>1, Invariant, PTL
-----------------------------------------------------------------------------
(* The pool implements WorkSource. *)

Offers(difs, js) == [c \in Conn |-> [dif |-> difs[c], job |-> js[c]]]
Told(v) == [m \in Miner |-> Heard(v[m])]
TellsOf(c, difs, js) ==
  [m \in Miner |-> IF m \in subscribers THEN Promise!WorkOf(c, Offers(difs, js)[c])
                   ELSE Told(view)[m]]

LEMMA HeardRow ==
  ASSUME NEW c \in Conn, NEW ens, NEW difs, NEW js, Records(ens, difs, js), js[c] # 0
  PROVE  Heard(Row(c, ens, difs, js)) = Promise!WorkOf(c, Offers(difs, js)[c])
<1>1. ens[c] = "real"
  BY DEF Records
<1>2. \A a, b : <<a, b>> # Nothing /\ <<a, b>>[1] = a /\ <<a, b>>[2] = b
  BY DEF Nothing
<1> QED
  BY <1>1, <1>2 DEF Heard, Row, Promise!WorkOf, Offers

LEMMA ToldRows ==
  ASSUME NEW c \in Conn, NEW ens, NEW difs, NEW js, Records(ens, difs, js), js[c] # 0,
         NEW v, v = [m \in Miner |-> IF m \in subscribers THEN Row(c, ens, difs, js) ELSE view[m]]
  PROVE  Told(v) = TellsOf(c, difs, js)
BY HeardRow DEF Told, TellsOf

(* A step after which the offers are the same and so is the source. *)
LEMMA SameOffers ==
  ASSUME IInv, NEW ens, Records(ens, difficulties, jobs), Shown(ens, difficulties, jobs),
         current # NoConn => current' = current
  PROVE  current' = current /\ Told(view') = Told(view)
<1>1. CASE current = NoConn
  <2>1. \A c \in Conn : jobs[c] = 0
    BY <1>1 DEF IInv, CurrentGood
  <2> QED
    BY <1>1, <2>1 DEF Shown
<1>2. CASE current # NoConn
  <2>1. current \in Conn /\ jobs[current] # 0 /\ current' = current
    BY <1>2, Standing
  <2>2. Told(view) = TellsOf(current, difficulties, jobs)
    BY <1>2, <2>1, Standing, ToldRows DEF Views
  <2>3. Told(view') = TellsOf(current, difficulties, jobs)
    BY <1>2, <2>1, ToldRows DEF Shown
  <2> QED
    BY <2>1, <2>2, <2>3
<1> QED
  BY <1>1, <1>2

LEMMA CheckKeeps ==
  ASSUME NEW cs, NEW ens, NEW difs, NEW js, NEW v, CheckConnections(cs, ens, difs, js, v),
         current # NoConn
  PROVE  current' = current
BY DEF CheckConnections

(* The two things a message of connection c may come to, difs and js being   *)
(* the records after it.                                                     *)
SameWork(difs, js) ==
  difs = difficulties /\ js = jobs /\ current' = current /\ Told(view') = Told(view)

NewWork(c, difs, js) ==
  /\ Offers(difs, js)[c] # Offers(difficulties, jobs)[c]
  /\ jobs[c] <= js[c] /\ difs[c] # 0
  /\ \/ /\ current = c /\ current' = c
        /\ Told(view') = TellsOf(c, difs, js)
     \/ /\ current = NoConn /\ js[c] # 0 /\ current' = c
        /\ Told(view') = TellsOf(c, difs, js)
     \/ /\ current # c /\ (current = NoConn => js[c] = 0)
        /\ current' = current /\ Told(view') = Told(view)

(* A message of a session is a new offer of its connection, or none. *)
LEMMA TakesMapped ==
  ASSUME IInv, NEW c \in Conn, NEW m, NEW ens, NEW difs, NEW js, Takes(c, m, ens, difs, js)
  PROVE  SameWork(difs, js) \/ NewWork(c, difs, js)
<1>1. /\ Records(ens, difs, js) /\ m \in Message /\ jobs[c] <= js[c]
      /\ \A d \in Conn \ {c} : ens[d] = extraNonces[d] /\ difs[d] = difficulties[d] /\ js[d] = jobs[d]
      /\ Shown(ens, difs, js)
  BY TakesRecords, TakesShown
<1>2. /\ difficulties \in [Conn -> 0..MaxDiff] /\ jobs \in [Conn -> 0..MaxJobs]
      /\ current \in Conn \cup {NoConn} /\ NoConn \notin Conn
  BY PoolAssumption DEF IInv, TypeOK
<1>3. current # NoConn => current' = current
  BY CheckKeeps DEF Takes
<1>4. CASE difs = difficulties /\ js = jobs
  BY <1>1, <1>3, <1>4, SameOffers DEF SameWork
<1>5. CASE ~ (difs = difficulties /\ js = jobs)
  <2>1. difs[c] # difficulties[c] \/ js[c] # jobs[c]
    BY <1>1, <1>2, <1>5 DEF Records
  <2>2. Offers(difs, js)[c] # Offers(difficulties, jobs)[c]
    BY <2>1 DEF Offers
  <2>3. \/ m.kind = "Difficulty" /\ difs[c] = m.val
        \/ m.kind = "MiningJob" /\ js[c] = m.val
    BY <1>2, <1>5 DEF Takes
  <2>4. difs[c] # 0
    BY <1>1, <2>3, MessageKinds DEF Records
  <2>5. CASE current = c
    <3>1. current' = c /\ js[c] # 0 /\ c # NoConn
      BY <1>1, <1>2, <1>3, <2>5 DEF Shown, IInv, CurrentGood
    <3>2. Told(view') = TellsOf(c, difs, js)
      BY <1>1, <3>1, ToldRows DEF Shown
    <3> QED
      BY <1>1, <2>2, <2>4, <2>5, <3>1, <3>2 DEF NewWork
  <2>6. CASE current = NoConn
    <3>1. \A d \in Conn \ {c} : js[d] = 0
      BY <1>1, <2>6 DEF IInv, CurrentGood
    <3>2. CASE current' = NoConn
      BY <1>1, <1>2, <2>2, <2>4, <2>6, <3>2 DEF Shown, NewWork
    <3>3. CASE current' # NoConn
      <4>1. current' = c /\ js[c] # 0
        BY <1>1, <3>1, <3>3 DEF Shown
      <4>2. Told(view') = TellsOf(c, difs, js)
        BY <1>1, <3>3, <4>1, ToldRows DEF Shown
      <4> QED
        BY <1>1, <2>2, <2>4, <2>6, <4>1, <4>2 DEF NewWork
    <3> QED
      BY <3>2, <3>3
  <2>7. CASE current # NoConn /\ current # c
    <3>1. current \in Conn /\ current' = current /\ jobs[current] # 0 /\ js[current] # 0
      BY <1>1, <1>2, <1>3, <2>7 DEF IInv, CurrentGood
    <3>2. Told(view) = TellsOf(current, difficulties, jobs)
      BY <2>7, <3>1, Standing, ToldRows DEF Views
    <3>3. Told(view') = TellsOf(current, difs, js)
      BY <1>1, <2>7, <3>1, ToldRows DEF Shown
    <3>4. Offers(difs, js)[current] = Offers(difficulties, jobs)[current]
      BY <1>1, <2>7, <3>1 DEF Offers
    <3> QED
      BY <1>1, <2>2, <2>4, <2>7, <3>1, <3>2, <3>3, <3>4 DEF TellsOf, NewWork
  <2> QED
    BY <2>5, <2>6, <2>7
<1> QED
  BY <1>4, <1>5

LEMMA ReceiveImplements ==
  ASSUME IInv, NEW c \in Conn, Receive(c)
  PROVE  [Promise!SourceNext]_(Promise!sourceVars)
<1>1. Takes(c, Head(chan[c]), extraNonces', difficulties', jobs')
  BY ReceiveTakes
<1>2. /\ subscribers' = subscribers
      /\ Records(extraNonces', difficulties', jobs')
      /\ \A d \in Conn \ {c} : difficulties'[d] = difficulties[d] /\ jobs'[d] = jobs[d]
  <2>1. subscribers' = subscribers
    BY <1>1 DEF Takes
  <2> QED
    BY <1>1, <2>1, TakesRecords
<1>3. CASE SameWork(difficulties', jobs')
  BY <1>2, <1>3 DEF Promise!sourceVars, Told, SameWork
<1>4. CASE NewWork(c, difficulties', jobs')
  <2>1. PICK o \in Promise!Offer : /\ o = [dif |-> difficulties'[c], job |-> jobs'[c]]
                                   /\ o = Offers(difficulties', jobs')[c]
    BY <1>2 DEF Offers, Promise!Offer, Records
  <2>2. Offers(difficulties', jobs') = [Offers(difficulties, jobs) EXCEPT ![c] = o]
    BY <1>2, <2>1 DEF Offers
  <2>3. o # Offers(difficulties, jobs)[c] /\ o.job >= Offers(difficulties, jobs)[c].job /\ o.dif # 0
    BY <1>4, <2>1 DEF Offers, IInv, TypeOK, Records, NewWork
  <2>4. Told(view') = TellsOf(c, difficulties', jobs') <=> Promise!TellAll(c, o)
    BY <2>1 DEF TellsOf, Told, Promise!TellAll
  <2>5. Promise!NewOffer(c, o)
    BY <1>2, <1>4, <2>1, <2>2, <2>3, <2>4
    DEF Promise!NewOffer, Promise!Complete, Offers, Told, NewWork
  <2> QED
    BY <2>1, <2>5 DEF Promise!SourceNext
<1> QED
  BY <1>1, <1>3, <1>4, TakesMapped

LEMMA ListenImplements ==
  ASSUME IInv, NEW m \in Miner, Subscribe(m)
  PROVE  Promise!Listen(m)
<1> DEFINE row == Row(current, extraNonces, difficulties, jobs)
<1>1. /\ view' = IF current = NoConn THEN view ELSE [view EXCEPT ![m] = row]
      /\ subscribers' = subscribers \cup {m} /\ UNCHANGED <<difficulties, jobs, current>>
  BY SubscribeViews DEF Subscribe
<1>2. CASE current = NoConn
  BY <1>1, <1>2 DEF Promise!Listen
<1>3. CASE current # NoConn
  <2>1. Heard(row) = Promise!WorkOf(current, Offers(difficulties, jobs)[current])
    BY <1>3, Standing, HeardRow
  <2>2. view \in [Miner -> [en : Tag({"default", "real"}), dif : Tag(1..MaxDiff),
                            job : Tag(1..MaxJobs)]]
    BY DEF IInv, TypeOK
  <2> HIDE DEF row
  <2>3. view' = [view EXCEPT ![m] = row]
    BY <1>1, <1>3
  <2>4. Told(view') = [Told(view) EXCEPT ![m] = Heard(row)]
    BY <2>2, <2>3 DEF Told
  <2> QED
    BY <1>1, <1>3, <2>1, <2>4 DEF Promise!Listen, Told, Offers
<1> QED
  BY <1>2, <1>3

LEMMA SwitchImplements ==
  ASSUME IInv, MaybeChangeConnection
  PROVE  [Promise!SourceNext]_(Promise!sourceVars)
<1>1. UNCHANGED <<difficulties, jobs, subscribers>>
  BY ChangeSwitches
<1>2. CASE UNCHANGED <<current, view>>
  BY <1>1, <1>2 DEF Promise!sourceVars
<1>3. ASSUME NEW c \in Conn, Switches(c) PROVE Promise!Switch(c)
  <2>1. c # current /\ jobs[c] # 0 /\ current' = c /\ difficulties[c] # 0
    BY <1>3, JobNeeds DEF Switches
  <2>2. Told(view') = TellsOf(c, difficulties, jobs)
    BY <1>3, <2>1, Standing, UpdatedRows, ToldRows DEF Switches
  <2>3. Promise!TellAll(c, Offers(difficulties, jobs)[c])
    BY <2>2 DEF TellsOf, Told, Promise!TellAll
  <2> QED
    BY <1>1, <2>1, <2>3 DEF Promise!Switch, Promise!Complete, Offers
<1>4. (\E c \in Conn : Promise!Switch(c)) => Promise!SourceNext
  BY DEF Promise!SourceNext
<1> QED
  BY <1>2, <1>3, <1>4, ChangeSwitches

LEMMA NextImplements ==
  ASSUME IInv, [Next]_vars
  PROVE  [Promise!SourceNext]_(Promise!sourceVars)
<1>1. ASSUME NEW c \in Conn, AddConnection(c) PROVE [Promise!SourceNext]_(Promise!sourceVars)
  <2>1. UNCHANGED <<difficulties, jobs, subscribers>> /\ (current # NoConn => current' = current)
    BY <1>1, CheckKeeps DEF AddConnection
  <2>2. current' = current /\ Told(view') = Told(view)
    BY <1>1, <2>1, AddConnectionShown, Standing, SameOffers
  <2> QED
    BY <2>1, <2>2 DEF Promise!sourceVars, Told
<1>2. ASSUME NEW c \in Conn, Session(c) PROVE [Promise!SourceNext]_(Promise!sourceVars)
  <2>1. UNCHANGED <<difficulties, jobs, current, subscribers, view>>
    BY <1>2 DEF Session, Server, Connected, SessionSubscribe, SubscribeResponse, SetDifficulty,
                Notify, SessionFails
  <2> QED
    BY <2>1 DEF Promise!sourceVars
<1>3. ASSUME NEW c \in Conn, Receive(c) PROVE [Promise!SourceNext]_(Promise!sourceVars)
  BY <1>3, ReceiveImplements
<1>4. ASSUME NEW m \in Miner, Subscribe(m) PROVE [Promise!SourceNext]_(Promise!sourceVars)
  <2>1. Promise!Listen(m)
    BY <1>4, ListenImplements
  <2> QED
    BY <2>1 DEF Promise!SourceNext
<1>5. ASSUME NEW m \in Miner, UnSubscribe(m) PROVE [Promise!SourceNext]_(Promise!sourceVars)
  <2>1. Promise!Unlisten(m)
    BY <1>5 DEF UnSubscribe, Promise!Unlisten
  <2> QED
    BY <2>1 DEF Promise!SourceNext
<1>6. CASE MaybeChangeConnection
  BY <1>6, SwitchImplements
<1>7. CASE UNCHANGED vars
  BY <1>7 DEF vars, Promise!sourceVars
<1> QED
  BY <1>1, <1>2, <1>3, <1>4, <1>5, <1>6, <1>7 DEF Next

LEMMA InitImplements == Init => Promise!SourceInit
BY DEF Init, Promise!SourceInit, Promise!Untold, Heard

(* The pool implements WorkSource: checkConnections, updateSubscriber, the     *)
(* forwarding of the sessions' messages and MaybeChangeConnection amount to    *)
(* telling every subscriber of one connection's newest work.                  *)
THEOREM PoolImplementsWorkSource == Spec => ImplementsWorkSource
<1>1. IInv /\ [Next]_vars => [Promise!SourceNext]_(Promise!sourceVars)
  BY NextImplements
<1> QED
  BY <1>1, InitImplements, Invariant, PTL DEF Spec, ImplementsWorkSource, Promise!SourceSpec
=============================================================================
