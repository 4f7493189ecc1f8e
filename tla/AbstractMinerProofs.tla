------------------------- MODULE AbstractMinerProofs -------------------------
(***************************************************************************)
(* Lemmas about AbstractMiner that the proofs of SerialMiner and of        *)
(* StratumProxy share: what the pool's steps do to its offer and to the    *)
(* messages on their way, and what is known of a mailbox when a message is *)
(* put in or taken out.                                                    *)
(***************************************************************************)
EXTENDS AbstractMiner, TLAPS

(* What the pool offers is complete. *)
SourceOK ==
  /\ offer \in [Conn -> Offer]
  /\ source \in Conn \cup {NoConn}
  /\ source # NoConn => Complete(offer[source])

LEMMA SourceInitOK == SourceInit => SourceOK
<1> SUFFICES ASSUME SourceInit PROVE SourceOK
  OBVIOUS
<1>1. [dif |-> 0, job |-> 0] \in Offer
  BY MinerAssumption DEF Offer
<1> QED
  BY <1>1 DEF SourceInit, SourceOK

LEMMA BaseInitOK == BaseInit => BaseTypeOK
<1> SUFFICES ASSUME BaseInit PROVE BaseTypeOK
  OBVIOUS
<1>1. up \in BOOLEAN /\ timer \in BOOLEAN
  BY DEF BaseInit
<1>2. target \in 0..MaxDiff
  BY MinerAssumption DEF BaseInit
<1>3. extraNonceInfo \in Conn \cup {NoConn} /\ miningJob \in Job \cup {NoJob}
  BY DEF BaseInit
<1>4. letters \in Seq(Letter) /\ pending \in Seq(Nonce) /\ shares \in Seq(Share)
  BY DEF BaseInit
<1> QED
  BY <1>1, <1>2, <1>3, <1>4 DEF BaseTypeOK

LEMMA StopsOK ==
  ASSUME BaseTypeOK, Stops
  PROVE  BaseTypeOK'
<1>1. up' \in BOOLEAN /\ timer' \in BOOLEAN
  BY DEF Stops
<1>2. letters' \in Seq(Letter)
  BY DEF Stops
<1>3. UNCHANGED <<extraNonceInfo, target, miningJob, pending, shares>>
  BY DEF Stops, shareVars
<1> QED
  BY <1>1, <1>2, <1>3 DEF BaseTypeOK

LEMMA UpdateLetters ==
  ASSUME NEW c \in Conn, NEW o \in Offer, Complete(o)
  PROVE  Update(c, o) \in Seq(Letter)
<1>1. o.dif \in 1..MaxDiff /\ o.job \in 1..MaxJobs
  BY MinerAssumption DEF Offer, Complete
<1>2. /\ Msg("ExtraNonce", c) \in Letter /\ Msg("Difficulty", o.dif) \in Letter
      /\ Msg("MiningJob", [conn |-> c, job |-> o.job]) \in Letter
  BY <1>1 DEF Letter, Msg, Job
<1> QED
  BY <1>2 DEF Update

LEMMA SendLetters ==
  ASSUME NEW ms \in Seq(Letter), letters \in Seq(Letter), Send(ms)
  PROVE  letters' \in Seq(Letter)
BY DEF Send

LEMMA OfferOK ==
  ASSUME SourceOK, letters \in Seq(Letter), NEW c \in Conn, PoolOffer(c)
  PROVE  SourceOK' /\ letters' \in Seq(Letter)
<1>1. PICK o \in Offer :
        /\ NewOffer(c, o)
        /\ o.dif = offer[c].dif \/ o.job = offer[c].job
        /\ Send(IF source' # source THEN Update(c, o)
                ELSE IF c # source THEN <<>>
                ELSE IF o.dif # offer[c].dif THEN <<Msg("Difficulty", o.dif)>>
                ELSE <<Msg("MiningJob", [conn |-> c, job |-> o.job])>>)
  BY DEF PoolOffer
<1>2. /\ o.dif \in 1..MaxDiff /\ o.job \in 0..MaxJobs
      /\ offer[c] \in Offer /\ offer[c].dif \in 0..MaxDiff /\ offer[c].job \in 0..MaxJobs
      /\ o.job >= offer[c].job /\ o # offer[c]
  BY <1>1, MinerAssumption DEF SourceOK, Offer, NewOffer
<1>3. /\ offer' = [offer EXCEPT ![c] = o]
      /\ \/ source = c /\ source' = source
         \/ source = NoConn /\ Complete(o) /\ source' = c
         \/ source # c /\ source' = source
  BY <1>1 DEF NewOffer
<1>4. SourceOK'
  BY <1>2, <1>3, MinerAssumption DEF SourceOK, Complete
<1>5. Msg("Difficulty", o.dif) \in Letter
  BY <1>2 DEF Letter, Msg
<1>6. ASSUME source' = source, c = source, o.dif = offer[c].dif
      PROVE  Msg("MiningJob", [conn |-> c, job |-> o.job]) \in Letter
  <2>1. o.job \in 1..MaxJobs
    BY <1>2, <1>6, MinerAssumption DEF SourceOK, Complete
  <2> QED
    BY <2>1 DEF Letter, Msg, Job
<1>7. source' # source => Update(c, o) \in Seq(Letter)
  BY <1>3, UpdateLetters
<1> DEFINE ms == IF source' # source THEN Update(c, o)
                 ELSE IF c # source THEN <<>>
                 ELSE IF o.dif # offer[c].dif THEN <<Msg("Difficulty", o.dif)>>
                 ELSE <<Msg("MiningJob", [conn |-> c, job |-> o.job])>>
<1>8. ms \in Seq(Letter)
  BY <1>5, <1>6, <1>7
<1>9. Send(ms)
  BY <1>1
<1> HIDE DEF ms
<1> QED
  BY <1>4, <1>8, <1>9, SendLetters

LEMMA SwitchOK ==
  ASSUME SourceOK, letters \in Seq(Letter), NEW c \in Conn, PoolSwitch(c)
  PROVE  SourceOK' /\ letters' \in Seq(Letter)
<1>1. Complete(offer[c]) /\ offer[c] \in Offer /\ source' = c /\ offer' = offer
      /\ Send(Update(c, offer[c]))
  BY DEF PoolSwitch, Switch, SourceOK
<1> QED
  BY <1>1, UpdateLetters, SendLetters, MinerAssumption DEF SourceOK

LEMMA SubscribeOK ==
  ASSUME SourceOK, letters \in Seq(Letter), PoolSubscribe
  PROVE  SourceOK' /\ letters' \in Seq(Letter)
<1>1. /\ offer' = offer /\ source' = source
      /\ Send(IF source = NoConn THEN <<>> ELSE Update(source, offer[source]))
  BY DEF PoolSubscribe, Listen
<1>2. source # NoConn => Update(source, offer[source]) \in Seq(Letter)
  BY UpdateLetters DEF SourceOK
<1> DEFINE ms == IF source = NoConn THEN <<>> ELSE Update(source, offer[source])
<1>3. ms \in Seq(Letter) /\ Send(ms)
  BY <1>1, <1>2
<1> HIDE DEF ms
<1>4. letters' \in Seq(Letter)
  BY <1>3, SendLetters
<1> QED
  BY <1>1, <1>4 DEF SourceOK, Complete
-----------------------------------------------------------------------------
(* Mailboxes: what is put in, taken out, and still there. *)

LEMMA Put ==
  ASSUME NEW S, NEW q \in Seq(S), NEW x \in S
  PROVE  /\ Append(q, x) \in Seq(S) /\ Len(q) \in Nat
         /\ Len(Append(q, x)) = Len(q) + 1
         /\ \A i \in 1..Len(q) : Append(q, x)[i] = q[i]
         /\ Append(q, x)[Len(q) + 1] = x
OBVIOUS

LEMMA Taken ==
  ASSUME NEW S, NEW q \in Seq(S), q # <<>>
  PROVE  /\ Tail(q) \in Seq(S) /\ Head(q) \in S /\ Head(q) = q[1]
         /\ Len(q) \in Nat /\ 1 \in 1..Len(q) /\ Len(Tail(q)) = Len(q) - 1
         /\ \A i \in 1..Len(Tail(q)) : Tail(q)[i] = q[i + 1] /\ i + 1 \in 1..Len(q)
         /\ \A i \in 1..Len(q) : i # 1 => i - 1 \in 1..Len(Tail(q)) /\ Tail(q)[i - 1] = q[i]
OBVIOUS

(* The futures that submit nonces, with the job of the moment they run. *)
LEMMA SharesOK ==
  ASSUME pending \in Seq(Nonce), shares \in Seq(Share), miningJob \in Job \cup {NoJob},
         pending # <<>> => miningJob # NoJob,
         ForwardShare \/ \E i \in DOMAIN pending : SubmitNonce(i)
  PROVE  /\ pending' \in Seq(Nonce) /\ shares' \in Seq(Share)
         /\ pending = <<>> => pending' = <<>>
<1>1. CASE ForwardShare
  BY <1>1 DEF ForwardShare
<1>2. ASSUME NEW i \in DOMAIN pending, SubmitNonce(i)
      PROVE  pending' \in Seq(Nonce) /\ shares' \in Seq(Share) /\ (pending = <<>> => pending' = <<>>)
  <2>1. pending' = SubSeq(pending, 1, i - 1) \o SubSeq(pending, i + 1, Len(pending))
        /\ pending[i] \in Nonce /\ i \in 1..Len(pending) /\ Len(pending) \in Nat
    BY <1>2 DEF SubmitNonce
  <2>2. /\ SubSeq(pending, 1, i - 1) \in Seq(Nonce)
        /\ SubSeq(pending, i + 1, Len(pending)) \in Seq(Nonce)
    BY <2>1
  <2>3. pending' \in Seq(Nonce)
    BY <2>1, <2>2
  <2>4. pending # <<>>
    BY <2>1
  <2>5. miningJob \in Job
    BY <2>4
  <2>6. [work |-> pending[i].work, label |-> miningJob] \in Share
    BY <2>1, <2>5 DEF Nonce, Share
  <2>7. PICK share \in Share : shares' = shares \/ shares' = Append(shares, share)
    BY <1>2, <2>6 DEF SubmitNonce
  <2>8. shares' \in Seq(Share)
    BY <2>7, Put
  <2> QED
    BY <2>3, <2>4, <2>8
<1> QED
  BY <1>1, <1>2

(* x is somewhere in q. *)
In(x, q) == \E i \in DOMAIN q : q[i] = x

LEMMA InPut ==
  ASSUME NEW S, NEW q \in Seq(S), NEW x \in S, NEW y
  PROVE  In(y, Append(q, x)) <=> In(y, q) \/ y = x
BY Put DEF In

LEMMA InTail ==
  ASSUME NEW S, NEW q \in Seq(S), q # <<>>, NEW y
  PROVE  In(y, q) <=> In(y, Tail(q)) \/ y = Head(q)
<1>1. In(y, q) => In(y, Tail(q)) \/ y = Head(q)
  <2>1. ASSUME NEW i \in 1..Len(q), q[i] = y
        PROVE  In(y, Tail(q)) \/ y = Head(q)
    <3>1. CASE i = 1
      BY <2>1, <3>1, Taken
    <3>2. CASE i # 1
      <4>1. i - 1 \in DOMAIN Tail(q) /\ Tail(q)[i - 1] = y
        BY <2>1, <3>2, Taken
      <4> QED
        BY <4>1 DEF In
    <3> QED
      BY <3>1, <3>2
  <2> QED
    BY <2>1 DEF In
<1>2. In(y, Tail(q)) => In(y, q)
  BY Taken DEF In
<1>3. y = Head(q) => In(y, q)
  BY Taken DEF In
<1> QED
  BY <1>1, <1>2, <1>3
-----------------------------------------------------------------------------
(* The values of one kind of message.  Whoever starts with v0 and takes the  *)
(* messages q ends with v.                                                   *)
None(q, k) == \A i \in 1..Len(q) : q[i].kind # k

Ends(q, k, v0, v) ==
  \/ v0 = v /\ None(q, k)
  \/ \E i \in 1..Len(q) :
       q[i].kind = k /\ q[i].val = v /\ \A j \in 1..Len(q) : j > i => q[j].kind # k

LEMMA EndsEmpty ==
  ASSUME NEW k, NEW v0, NEW v
  PROVE  None(<<>>, k) /\ (Ends(<<>>, k, v0, v) <=> v0 = v)
BY DEF Ends, None

LEMMA EndsNone ==
  ASSUME NEW q, NEW k, None(q, k), NEW v0, NEW v
  PROVE  Ends(q, k, v0, v) <=> v0 = v
BY DEF Ends, None

LEMMA NoneTail ==
  ASSUME NEW S, NEW q \in Seq(S), q # <<>>, NEW k
  PROVE  None(q, k) <=> Head(q).kind # k /\ None(Tail(q), k)
<1> DEFINE p == Tail(q)
<1>1. /\ Head(q) = q[1] /\ Len(q) \in Nat /\ 1 \in 1..Len(q) /\ Len(p) = Len(q) - 1
      /\ \A i \in 1..Len(p) : p[i] = q[i + 1] /\ i + 1 \in 1..Len(q)
      /\ \A i \in 1..Len(q) : i # 1 => i - 1 \in 1..Len(p) /\ p[i - 1] = q[i]
  BY Taken
<1> HIDE DEF p
<1>2. None(q, k) => Head(q).kind # k /\ None(p, k)
  BY <1>1 DEF None
<1>3. Head(q).kind # k /\ None(p, k) => None(q, k)
  BY <1>1 DEF None
<1> QED
  BY <1>2, <1>3 DEF p

LEMMA NoneBoth ==
  ASSUME NEW S, NEW q \in Seq(S), NEW r \in Seq(S), NEW k
  PROVE  None(q \o r, k) <=> None(q, k) /\ None(r, k)
<1> DEFINE p == q \o r
<1>1. /\ Len(q) \in Nat /\ Len(r) \in Nat /\ Len(p) = Len(q) + Len(r)
      /\ \A i \in 1..Len(q) : p[i] = q[i] /\ i \in 1..Len(p)
      /\ \A i \in 1..Len(r) : p[Len(q) + i] = r[i] /\ Len(q) + i \in 1..Len(p)
      /\ \A i \in 1..Len(p) : i \in 1..Len(q) \/ (i - Len(q) \in 1..Len(r) /\ p[i] = r[i - Len(q)])
  OBVIOUS
<1> HIDE DEF p
<1>2. None(p, k) => None(q, k) /\ None(r, k)
  BY <1>1 DEF None
<1>3. None(q, k) /\ None(r, k) => None(p, k)
  BY <1>1 DEF None
<1> QED
  BY <1>2, <1>3 DEF p

LEMMA NoneOne ==
  ASSUME NEW x, NEW k
  PROVE  None(<<x>>, k) <=> x.kind # k
BY DEF None

LEMMA EndsUnique ==
  ASSUME NEW q, NEW k, NEW v0, NEW v, NEW w, Ends(q, k, v0, v), Ends(q, k, v0, w)
  PROVE  v = w
BY DEF Ends, None

LEMMA EndsLast ==
  ASSUME NEW S, NEW q \in Seq(S), NEW x \in S, NEW v0
  PROVE  Ends(Append(q, x), x.kind, v0, x.val)
<1> DEFINE p == Append(q, x)
<1>1. /\ Len(q) \in Nat /\ Len(p) = Len(q) + 1
      /\ p[Len(q) + 1] = x /\ Len(q) + 1 \in 1..Len(p)
  BY Put
<1> HIDE DEF p
<1>2. \A j \in 1..Len(p) : ~ j > Len(q) + 1
  BY <1>1
<1> QED
  BY <1>1, <1>2 DEF Ends, p

LEMMA EndsTail ==
  ASSUME NEW S, NEW q \in Seq(S), q # <<>>, NEW k, NEW v0, NEW v, Ends(q, k, v0, v), NEW w,
         w = IF Head(q).kind = k THEN Head(q).val ELSE v0
  PROVE  Ends(Tail(q), k, w, v)
<1> DEFINE p == Tail(q)
<1>1. /\ Head(q) = q[1] /\ Len(q) \in Nat /\ 1 \in 1..Len(q) /\ Len(p) = Len(q) - 1
      /\ \A i \in 1..Len(p) : p[i] = q[i + 1] /\ i + 1 \in 1..Len(q)
      /\ \A i \in 1..Len(q) : i # 1 => i - 1 \in 1..Len(p) /\ p[i - 1] = q[i]
  BY Taken
<1> HIDE DEF p
<1>2. CASE v0 = v /\ None(q, k)
  <2>1. w = v /\ None(p, k)
    BY <1>1, <1>2 DEF None
  <2> QED
    BY <2>1 DEF Ends, p
<1>3. ASSUME NEW i \in 1..Len(q), q[i].kind = k, q[i].val = v,
             \A j \in 1..Len(q) : j > i => q[j].kind # k
      PROVE  Ends(p, k, w, v)
  <2>1. CASE i = 1
    <3>1. w = v /\ None(p, k)
      BY <1>1, <1>3, <2>1 DEF None
    <3> QED
      BY <3>1 DEF Ends
  <2>2. CASE i # 1
    <3>1. i - 1 \in 1..Len(p) /\ p[i - 1] = q[i]
      BY <1>1, <2>2
    <3>2. \A j \in 1..Len(p) : j > i - 1 => p[j].kind # k
      BY <1>1, <1>3
    <3> QED
      BY <1>3, <3>1, <3>2 DEF Ends
  <2> QED
    BY <2>1, <2>2
<1> QED
  BY <1>2, <1>3 DEF Ends, p

LEMMA EndsPut ==
  ASSUME NEW S, NEW q \in Seq(S), NEW x \in S, NEW k, NEW v0, NEW v, Ends(q, k, v0, v), NEW w,
         w = IF x.kind = k THEN x.val ELSE v
  PROVE  Ends(Append(q, x), k, v0, w)
<1> DEFINE p == Append(q, x)
<1>1. /\ Len(q) \in Nat /\ Len(p) = Len(q) + 1
      /\ \A i \in 1..Len(q) : p[i] = q[i] /\ i \in 1..Len(p)
      /\ p[Len(q) + 1] = x /\ Len(q) + 1 \in 1..Len(p)
      /\ \A i \in 1..Len(p) : i \in 1..Len(q) \/ i = Len(q) + 1
  BY Put
<1> HIDE DEF p
<1>2. CASE x.kind = k
  <2>1. \A j \in 1..Len(p) : ~ j > Len(q) + 1
    BY <1>1
  <2> QED
    BY <1>1, <1>2, <2>1 DEF Ends, p
<1>3. CASE x.kind # k /\ v0 = v /\ None(q, k)
  BY <1>1, <1>3 DEF Ends, None, p
<1>4. ASSUME x.kind # k, NEW i \in 1..Len(q), q[i].kind = k, q[i].val = v,
             \A j \in 1..Len(q) : j > i => q[j].kind # k
      PROVE  Ends(p, k, v0, w)
  <2>1. \A j \in 1..Len(p) : j > i => p[j].kind # k
    BY <1>1, <1>4
  <2> QED
    BY <1>1, <1>4, <2>1 DEF Ends
<1> QED
  BY <1>2, <1>3, <1>4 DEF Ends, p

LEMMA EndsAfter ==
  ASSUME NEW S, NEW q \in Seq(S), NEW r \in Seq(S), NEW k, NEW v0, NEW v,
         Ends(q, k, v0, v), None(r, k)
  PROVE  Ends(q \o r, k, v0, v)
<1> DEFINE p == q \o r
<1>1. /\ Len(q) \in Nat /\ Len(r) \in Nat /\ Len(p) = Len(q) + Len(r)
      /\ \A i \in 1..Len(q) : p[i] = q[i] /\ i \in 1..Len(p)
      /\ \A i \in 1..Len(p) : i \in 1..Len(q) \/ (i - Len(q) \in 1..Len(r) /\ p[i] = r[i - Len(q)])
  OBVIOUS
<1> HIDE DEF p
<1>2. CASE v0 = v /\ None(q, k)
  BY <1>1, <1>2 DEF Ends, None, p
<1>3. ASSUME NEW i \in 1..Len(q), q[i].kind = k, q[i].val = v,
             \A j \in 1..Len(q) : j > i => q[j].kind # k
      PROVE  Ends(p, k, v0, v)
  <2>1. \A j \in 1..Len(p) : j > i => p[j].kind # k
    BY <1>1, <1>3 DEF None
  <2> QED
    BY <1>1, <1>3, <2>1 DEF Ends
<1> QED
  BY <1>2, <1>3 DEF Ends, p

LEMMA EndsBefore ==
  ASSUME NEW S, NEW q \in Seq(S), NEW r \in Seq(S), NEW k, NEW v0, NEW v,
         Ends(q, k, v0, v), None(r, k)
  PROVE  Ends(r \o q, k, v0, v)
<1> DEFINE p == r \o q
<1>1. /\ Len(q) \in Nat /\ Len(r) \in Nat /\ Len(p) = Len(r) + Len(q)
      /\ \A i \in 1..Len(q) : p[Len(r) + i] = q[i] /\ Len(r) + i \in 1..Len(p)
      /\ \A i \in 1..Len(p) : \/ i \in 1..Len(r) /\ p[i] = r[i]
                              \/ i - Len(r) \in 1..Len(q) /\ p[i] = q[i - Len(r)]
  OBVIOUS
<1> HIDE DEF p
<1>2. CASE v0 = v /\ None(q, k)
  BY <1>1, <1>2 DEF Ends, None, p
<1>3. ASSUME NEW i \in 1..Len(q), q[i].kind = k, q[i].val = v,
             \A j \in 1..Len(q) : j > i => q[j].kind # k
      PROVE  Ends(p, k, v0, v)
  <2>1. ASSUME NEW j \in 1..Len(p), j > Len(r) + i
        PROVE  p[j].kind # k
    <3>1. j - Len(r) \in 1..Len(q) /\ j - Len(r) > i
      BY <1>1, <2>1
    <3>2. p[j] = q[j - Len(r)]
      BY <1>1, <2>1
    <3> QED
      BY <1>3, <3>1, <3>2
  <2> QED
    BY <1>1, <1>3, <2>1 DEF Ends
<1> QED
  BY <1>2, <1>3 DEF Ends, p
-----------------------------------------------------------------------------
(* What the messages of the pool amount to: those in the mailbox q and those *)
(* still to be delivered, l, bring a miner from the extranonce, difficulty   *)
(* and job that it has to those of t, what it was told of last.              *)
Chain(q, l, k, v0, v) == \E mid : Ends(q, k, v0, mid) /\ Ends(l, k, mid, v)

(* No job comes before a difficulty. *)
InTime(q) ==
  \A i \in 1..Len(q) : q[i].kind = "MiningJob" =>
    \E j \in 1..Len(q) : j < i /\ q[j].kind = "Difficulty"

JobOf(t) == [conn |-> t.conn, job |-> t.job]

MailOK(q, l, en, dif, job, t) ==
  /\ Chain(q, l, "ExtraNonce", en, t.conn)
  /\ Chain(q, l, "Difficulty", dif, t.dif)
  /\ Chain(q, l, "MiningJob", job, JobOf(t))
  /\ \/ dif # 0
     \/ /\ job = NoJob /\ InTime(q)
        /\ None(q, "Difficulty") => InTime(l)

Quiet(q) == \A k \in {"ExtraNonce", "Difficulty", "MiningJob"} : None(q, k)

LEMMA ChainTail ==
  ASSUME NEW S, NEW q \in Seq(S), q # <<>>, NEW l, NEW k, NEW v0, NEW v, Chain(q, l, k, v0, v),
         NEW w, w = IF Head(q).kind = k THEN Head(q).val ELSE v0
  PROVE  Chain(Tail(q), l, k, w, v)
<1>1. PICK mid : Ends(q, k, v0, mid) /\ Ends(l, k, mid, v)
  BY DEF Chain
<1>2. Ends(Tail(q), k, w, mid)
  BY <1>1, EndsTail
<1> QED
  BY <1>1, <1>2 DEF Chain

LEMMA ChainAfter ==
  ASSUME NEW S, NEW q \in Seq(S), NEW r \in Seq(S), NEW l, NEW k, NEW v0, NEW v,
         Chain(q, l, k, v0, v), None(r, k)
  PROVE  Chain(q \o r, l, k, v0, v) /\ Chain(r \o q, l, k, v0, v)
<1>1. PICK mid : Ends(q, k, v0, mid) /\ Ends(l, k, mid, v)
  BY DEF Chain
<1>2. Ends(q \o r, k, v0, mid) /\ Ends(r \o q, k, v0, mid)
  BY <1>1, EndsAfter, EndsBefore
<1> QED
  BY <1>1, <1>2 DEF Chain

LEMMA ChainDeliver ==
  ASSUME NEW S, NEW q \in Seq(S), NEW L, NEW l \in Seq(L), l # <<>>, Head(l) \in S,
         NEW k, NEW v0, NEW v, Chain(q, l, k, v0, v)
  PROVE  Chain(Append(q, Head(l)), Tail(l), k, v0, v)
<1>1. PICK mid : Ends(q, k, v0, mid) /\ Ends(l, k, mid, v)
  BY DEF Chain
<1> DEFINE w == IF Head(l).kind = k THEN Head(l).val ELSE mid
<1>2. Ends(Append(q, Head(l)), k, v0, w)
  BY <1>1, EndsPut
<1>3. Ends(Tail(l), k, w, v)
  BY <1>1, EndsTail
<1> QED
  BY <1>2, <1>3 DEF Chain

LEMMA ChainSend ==
  ASSUME NEW q, NEW ms, NEW k, NEW v0, NEW v, NEW w, Chain(q, <<>>, k, v0, v), Ends(ms, k, v, w)
  PROVE  Chain(q, ms, k, v0, w)
<1>1. PICK mid : Ends(q, k, v0, mid) /\ Ends(<<>>, k, mid, v)
  BY DEF Chain
<1>2. mid = v
  BY <1>1, EndsEmpty
<1> QED
  BY <1>1, <1>2 DEF Chain

LEMMA TimeTail ==
  ASSUME NEW S, NEW q \in Seq(S), q # <<>>, InTime(q)
  PROVE  /\ Head(q).kind # "MiningJob"
         /\ Head(q).kind # "Difficulty" =>
              InTime(Tail(q)) /\ (None(q, "Difficulty") <=> None(Tail(q), "Difficulty"))
<1> DEFINE p == Tail(q)
<1>1. /\ Head(q) = q[1] /\ Len(q) \in Nat /\ 1 \in 1..Len(q) /\ Len(p) = Len(q) - 1
      /\ \A i \in 1..Len(p) : p[i] = q[i + 1] /\ i + 1 \in 1..Len(q)
      /\ \A i \in 1..Len(q) : i # 1 => i - 1 \in 1..Len(p) /\ p[i - 1] = q[i]
  BY Taken
<1> HIDE DEF p
<1>2. Head(q).kind # "MiningJob"
  BY <1>1 DEF InTime
<1>3. ASSUME Head(q).kind # "Difficulty"
      PROVE  InTime(p)
  <2> SUFFICES ASSUME NEW i \in 1..Len(p), p[i].kind = "MiningJob"
               PROVE  \E j \in 1..Len(p) : j < i /\ p[j].kind = "Difficulty"
    BY DEF InTime
  <2>1. PICK j \in 1..Len(q) : j < i + 1 /\ q[j].kind = "Difficulty"
    BY <1>1 DEF InTime
  <2>2. j # 1
    BY <2>1, <1>1, <1>3
  <2> QED
    BY <2>1, <2>2, <1>1
<1>4. Head(q).kind # "Difficulty" => (None(q, "Difficulty") <=> None(p, "Difficulty"))
  BY <1>1 DEF None
<1> QED
  BY <1>2, <1>3, <1>4 DEF p

LEMMA TimeAfter ==
  ASSUME NEW S, NEW q \in Seq(S), NEW r \in Seq(S), Quiet(r)
  PROVE  /\ InTime(q) => InTime(q \o r) /\ InTime(r \o q)
         /\ None(q \o r, "Difficulty") => None(q, "Difficulty")
         /\ None(r \o q, "Difficulty") => None(q, "Difficulty")
<1>1. /\ Len(q) \in Nat /\ Len(r) \in Nat /\ Len(q \o r) = Len(q) + Len(r)
      /\ \A i \in 1..Len(q) : (q \o r)[i] = q[i] /\ i \in 1..Len(q \o r)
      /\ \A i \in 1..Len(q \o r) : \/ i \in 1..Len(q)
                                   \/ i - Len(q) \in 1..Len(r) /\ (q \o r)[i] = r[i - Len(q)]
  OBVIOUS
<1>2. /\ Len(r \o q) = Len(r) + Len(q)
      /\ \A i \in 1..Len(q) : (r \o q)[Len(r) + i] = q[i] /\ Len(r) + i \in 1..Len(r \o q)
      /\ \A i \in 1..Len(r \o q) : \/ i \in 1..Len(r) /\ (r \o q)[i] = r[i]
                                   \/ i - Len(r) \in 1..Len(q) /\ (r \o q)[i] = q[i - Len(r)]
  OBVIOUS
<1>3. \A i \in 1..Len(r) : r[i].kind # "MiningJob"
  BY DEF Quiet, None
<1>4. InTime(q) => InTime(q \o r)
  <2> SUFFICES ASSUME InTime(q), NEW i \in 1..Len(q \o r), (q \o r)[i].kind = "MiningJob"
               PROVE  \E j \in 1..Len(q \o r) : j < i /\ (q \o r)[j].kind = "Difficulty"
    BY DEF InTime
  <2>1. i \in 1..Len(q) /\ q[i].kind = "MiningJob"
    BY <1>1, <1>3
  <2>2. PICK j \in 1..Len(q) : j < i /\ q[j].kind = "Difficulty"
    BY <2>1 DEF InTime
  <2> QED
    BY <2>2, <1>1
<1>5. InTime(q) => InTime(r \o q)
  <2> SUFFICES ASSUME InTime(q), NEW i \in 1..Len(r \o q), (r \o q)[i].kind = "MiningJob"
               PROVE  \E j \in 1..Len(r \o q) : j < i /\ (r \o q)[j].kind = "Difficulty"
    BY DEF InTime
  <2>1. i - Len(r) \in 1..Len(q) /\ q[i - Len(r)].kind = "MiningJob"
    BY <1>2, <1>3
  <2>2. PICK j \in 1..Len(q) : j < i - Len(r) /\ q[j].kind = "Difficulty"
    BY <2>1 DEF InTime
  <2>3. Len(r) + j \in 1..Len(r \o q) /\ (r \o q)[Len(r) + j] = q[j] /\ Len(r) + j < i
    BY <2>2, <1>1, <1>2
  <2> QED
    BY <2>2, <2>3
<1>6. None(q \o r, "Difficulty") => None(q, "Difficulty")
  BY <1>1 DEF None
<1>7. None(r \o q, "Difficulty") => None(q, "Difficulty")
  BY <1>1, <1>2 DEF None
<1> QED
  BY <1>4, <1>5, <1>6, <1>7

LEMMA TimePut ==
  ASSUME NEW S, NEW q \in Seq(S), NEW x \in S, InTime(q),
         x.kind = "MiningJob" => ~ None(q, "Difficulty")
  PROVE  /\ InTime(Append(q, x))
         /\ None(Append(q, x), "Difficulty") => None(q, "Difficulty") /\ x.kind # "Difficulty"
<1> DEFINE p == Append(q, x)
<1>1. /\ Len(q) \in Nat /\ Len(p) = Len(q) + 1
      /\ \A i \in 1..Len(q) : p[i] = q[i] /\ i \in 1..Len(p)
      /\ p[Len(q) + 1] = x /\ Len(q) + 1 \in 1..Len(p)
      /\ \A i \in 1..Len(p) : i \in 1..Len(q) \/ i = Len(q) + 1
  BY Put
<1> HIDE DEF p
<1>2. InTime(p)
  <2> SUFFICES ASSUME NEW i \in 1..Len(p), p[i].kind = "MiningJob"
               PROVE  \E j \in 1..Len(p) : j < i /\ p[j].kind = "Difficulty"
    BY DEF InTime
  <2>1. CASE i \in 1..Len(q)
    <3>1. PICK j \in 1..Len(q) : j < i /\ q[j].kind = "Difficulty"
      BY <2>1, <1>1 DEF InTime
    <3> QED
      BY <3>1, <1>1
  <2>2. CASE i = Len(q) + 1
    <3>1. PICK j \in 1..Len(q) : q[j].kind = "Difficulty"
      BY <2>2, <1>1 DEF None
    <3> QED
      BY <3>1, <2>2, <1>1
  <2> QED
    BY <2>1, <2>2, <1>1
<1>3. None(p, "Difficulty") => None(q, "Difficulty") /\ x.kind # "Difficulty"
  BY <1>1 DEF None
<1> QED
  BY <1>2, <1>3 DEF p

(* A handler takes a message. *)
LEMMA MailTail ==
  ASSUME NEW S, NEW q \in Seq(S), q # <<>>, NEW l, NEW en, NEW dif, NEW job, NEW t,
         MailOK(q, l, en, dif, job, t),
         Head(q).kind = "Difficulty" => Head(q).val # 0,
         NEW en2, en2 = IF Head(q).kind = "ExtraNonce" THEN Head(q).val ELSE en,
         NEW dif2, dif2 = IF Head(q).kind = "Difficulty" THEN Head(q).val ELSE dif,
         NEW job2, job2 = IF Head(q).kind = "MiningJob" THEN Head(q).val ELSE job
  PROVE  MailOK(Tail(q), l, en2, dif2, job2, t)
<1>1. /\ Chain(Tail(q), l, "ExtraNonce", en2, t.conn)
      /\ Chain(Tail(q), l, "Difficulty", dif2, t.dif)
      /\ Chain(Tail(q), l, "MiningJob", job2, JobOf(t))
  BY ChainTail DEF MailOK
<1>2. \/ dif2 # 0
      \/ /\ job2 = NoJob /\ InTime(Tail(q))
         /\ None(Tail(q), "Difficulty") => InTime(l)
  BY TimeTail DEF MailOK
<1> QED
  BY <1>1, <1>2 DEF MailOK

(* Other messages come before or after those of the pool. *)
LEMMA MailAfter ==
  ASSUME NEW S, NEW q \in Seq(S), NEW r \in Seq(S), NEW l, NEW en, NEW dif, NEW job, NEW t,
         MailOK(q, l, en, dif, job, t), Quiet(r)
  PROVE  MailOK(q \o r, l, en, dif, job, t) /\ MailOK(r \o q, l, en, dif, job, t)
<1>1. None(r, "ExtraNonce") /\ None(r, "Difficulty") /\ None(r, "MiningJob")
  BY DEF Quiet
<1>2. /\ Chain(q \o r, l, "ExtraNonce", en, t.conn) /\ Chain(r \o q, l, "ExtraNonce", en, t.conn)
      /\ Chain(q \o r, l, "Difficulty", dif, t.dif) /\ Chain(r \o q, l, "Difficulty", dif, t.dif)
      /\ Chain(q \o r, l, "MiningJob", job, JobOf(t)) /\ Chain(r \o q, l, "MiningJob", job, JobOf(t))
  BY <1>1, ChainAfter DEF MailOK
<1>3. /\ InTime(q) => InTime(q \o r) /\ InTime(r \o q)
      /\ None(q \o r, "Difficulty") => None(q, "Difficulty")
      /\ None(r \o q, "Difficulty") => None(q, "Difficulty")
  BY TimeAfter
<1> QED
  BY <1>2, <1>3 DEF MailOK

(* The pool's next message arrives. *)
LEMMA MailDeliver ==
  ASSUME NEW S, NEW q \in Seq(S), NEW L, NEW l \in Seq(L), l # <<>>, Head(l) \in S,
         NEW en, NEW dif, NEW job, NEW t, MailOK(q, l, en, dif, job, t)
  PROVE  MailOK(Append(q, Head(l)), Tail(l), en, dif, job, t)
<1>1. /\ Chain(Append(q, Head(l)), Tail(l), "ExtraNonce", en, t.conn)
      /\ Chain(Append(q, Head(l)), Tail(l), "Difficulty", dif, t.dif)
      /\ Chain(Append(q, Head(l)), Tail(l), "MiningJob", job, JobOf(t))
  BY ChainDeliver DEF MailOK
<1>2. ASSUME dif = 0, job = NoJob, InTime(q), None(q, "Difficulty") => InTime(l)
      PROVE  /\ InTime(Append(q, Head(l)))
             /\ None(Append(q, Head(l)), "Difficulty") => InTime(Tail(l))
  <2>1. Head(l).kind = "MiningJob" => ~ None(q, "Difficulty")
    BY <1>2, TimeTail
  <2>2. /\ InTime(Append(q, Head(l)))
        /\ None(Append(q, Head(l)), "Difficulty") =>
             None(q, "Difficulty") /\ Head(l).kind # "Difficulty"
    BY <1>2, <2>1, TimePut
  <2>3. InTime(l) /\ Head(l).kind # "Difficulty" => InTime(Tail(l))
    BY TimeTail
  <2> QED
    BY <1>2, <2>2, <2>3
<1> QED
  BY <1>1, <1>2 DEF MailOK

(* The pool tells of t2, after t. *)
LEMMA MailSend ==
  ASSUME NEW q, NEW en, NEW dif, NEW job, NEW t, MailOK(q, <<>>, en, dif, job, t),
         NEW ms, NEW t2,
         Ends(ms, "ExtraNonce", t.conn, t2.conn),
         Ends(ms, "Difficulty", t.dif, t2.dif),
         Ends(ms, "MiningJob", JobOf(t), JobOf(t2)),
         InTime(ms) \/ t.dif # 0
  PROVE  MailOK(q, ms, en, dif, job, t2)
<1>1. /\ Chain(q, ms, "ExtraNonce", en, t2.conn) /\ Chain(q, ms, "Difficulty", dif, t2.dif)
      /\ Chain(q, ms, "MiningJob", job, JobOf(t2))
  BY ChainSend DEF MailOK
<1>2. ASSUME dif = 0, t.dif # 0
      PROVE  ~ None(q, "Difficulty")
  <2>1. PICK mid : Ends(q, "Difficulty", dif, mid) /\ Ends(<<>>, "Difficulty", mid, t.dif)
    BY DEF MailOK, Chain
  <2> QED
    BY <1>2, <2>1, EndsEmpty, EndsNone
<1> QED
  BY <1>1, <1>2 DEF MailOK
-----------------------------------------------------------------------------
(* The miner and the pool: what a miner that runs was told of is what the    *)
(* pool offers, if it listens, and its mail brings it there.                 *)
Listening ==
  /\ told = [m \in Miner |-> told[m]]
  /\ source = NoConn => told[Self] = Untold
  /\ up /\ Self \notin listeners => told[Self] = Untold
  /\ up /\ Self \in listeners /\ source # NoConn => told[Self] = WorkOf(source, offer[source])

Hears == up => MailOK(inbox, letters, extraNonceInfo, target, miningJob, told[Self])

LEMMA InitHears == BaseInit /\ inbox = <<>> => Listening /\ Hears
<1> SUFFICES ASSUME BaseInit, inbox = <<>> PROVE Listening /\ Hears
  OBVIOUS
<1>1. told = [m \in Miner |-> Untold] /\ told[Self] = Untold /\ source = NoConn
  BY MinerAssumption DEF BaseInit, SourceInit
<1>2. Listening
  BY <1>1 DEF Listening
<1>3. /\ extraNonceInfo = told[Self].conn /\ target = told[Self].dif
      /\ miningJob = JobOf(told[Self]) /\ miningJob = NoJob
      /\ letters = <<>>
  BY <1>1 DEF BaseInit, Untold, JobOf, NoJob
<1>4. \A k, v : Chain(<<>>, <<>>, k, v, v)
  BY EndsEmpty DEF Chain
<1>5. InTime(<<>>)
  BY DEF InTime
<1> QED
  BY <1>2, <1>3, <1>4, <1>5 DEF Hears, MailOK

LEMMA UpdateEnds ==
  ASSUME NEW c, NEW o, NEW u, NEW v, NEW w
  PROVE  /\ Ends(Update(c, o), "ExtraNonce", u, c)
         /\ Ends(Update(c, o), "Difficulty", v, o.dif)
         /\ Ends(Update(c, o), "MiningJob", w, [conn |-> c, job |-> o.job])
         /\ InTime(Update(c, o))
<1> DEFINE ms == Update(c, o)
<1>1. /\ Len(ms) = 3
      /\ ms[1].kind = "ExtraNonce" /\ ms[1].val = c
      /\ ms[2].kind = "Difficulty" /\ ms[2].val = o.dif
      /\ ms[3].kind = "MiningJob" /\ ms[3].val = [conn |-> c, job |-> o.job]
      /\ 1 \in 1..3 /\ 2 \in 1..3 /\ 3 \in 1..3
      /\ \A i \in 1..3 : i = 1 \/ i = 2 \/ i = 3
  BY DEF Update, Msg
<1> HIDE DEF ms
<1>2. Ends(ms, "ExtraNonce", u, c)
  BY <1>1 DEF Ends
<1>3. Ends(ms, "Difficulty", v, o.dif)
  BY <1>1 DEF Ends
<1>4. Ends(ms, "MiningJob", w, [conn |-> c, job |-> o.job])
  BY <1>1 DEF Ends
<1>5. InTime(ms)
  BY <1>1 DEF InTime
<1> QED
  BY <1>2, <1>3, <1>4, <1>5 DEF ms

(* The pool tells nobody, or it tells the miner of t. *)
LEMMA TellHears ==
  ASSUME Hears, letters = <<>>, UNCHANGED <<inbox, extraNonceInfo, target, miningJob, up>>,
         NEW ms, letters' = ms, NEW t, told'[Self] = t,
         up =>
           /\ Ends(ms, "ExtraNonce", told[Self].conn, t.conn)
           /\ Ends(ms, "Difficulty", told[Self].dif, t.dif)
           /\ Ends(ms, "MiningJob", JobOf(told[Self]), JobOf(t))
           /\ InTime(ms) \/ told[Self].dif # 0
  PROVE  Hears'
BY MailSend DEF Hears

LEMMA UpdateHears ==
  ASSUME Hears, letters = <<>>, UNCHANGED <<inbox, extraNonceInfo, target, miningJob, up>>,
         NEW c, NEW o, letters' = Update(c, o), told'[Self] = WorkOf(c, o)
  PROVE  Hears'
<1> DEFINE t == WorkOf(c, o)
           ms == Update(c, o)
<1>1. t.conn = c /\ t.dif = o.dif /\ JobOf(t) = [conn |-> c, job |-> o.job]
  BY DEF WorkOf, JobOf
<1>2. \A u, v, w :
        /\ Ends(ms, "ExtraNonce", u, c) /\ Ends(ms, "Difficulty", v, o.dif)
        /\ Ends(ms, "MiningJob", w, [conn |-> c, job |-> o.job]) /\ InTime(ms)
  BY UpdateEnds
<1> HIDE DEF t, ms
<1>3. /\ Ends(ms, "ExtraNonce", told[Self].conn, t.conn)
      /\ Ends(ms, "Difficulty", told[Self].dif, t.dif)
      /\ Ends(ms, "MiningJob", JobOf(told[Self]), JobOf(t)) /\ InTime(ms)
  BY <1>1, <1>2
<1>4. letters' = ms /\ told'[Self] = t
  BY DEF ms, t
<1> QED
  BY <1>3, <1>4, TellHears

LEMMA SilenceEnds ==
  /\ \A k, v : Ends(<<>>, k, v, v)
  /\ InTime(<<>>)
BY EndsEmpty DEF InTime

LEMMA OfferHears ==
  ASSUME Hears, Listening, SourceOK, NEW c \in Conn, PoolOffer(c)
  PROVE  Hears' /\ Listening'
<1>1. PICK o \in Offer :
        /\ NewOffer(c, o)
        /\ o.dif = offer[c].dif \/ o.job = offer[c].job
        /\ Send(IF source' # source THEN Update(c, o)
                ELSE IF c # source THEN <<>>
                ELSE IF o.dif # offer[c].dif THEN <<Msg("Difficulty", o.dif)>>
                ELSE <<Msg("MiningJob", [conn |-> c, job |-> o.job])>>)
  BY DEF PoolOffer
<1>2. UNCHANGED <<inbox, extraNonceInfo, target, miningJob, up, listeners>> /\ up
      /\ letters = <<>> /\ offer' = [offer EXCEPT ![c] = o] /\ offer'[c] = o
      /\ Self \in Miner /\ c # NoConn /\ o.dif # 0
  BY <1>1, MinerAssumption DEF PoolOffer, NewOffer, minerVars, Send, Calm, SourceOK
<1>3. CASE Self \notin listeners
  <2>1. told'[Self] = told[Self] /\ letters' = <<>> /\ told' = [m \in Miner |-> told'[m]]
    BY <1>1, <1>2, <1>3 DEF NewOffer, TellAll, Send, Listening
  <2>2. Hears'
    BY <1>2, <2>1, SilenceEnds, TellHears
  <2>3. Listening'
    BY <1>2, <1>3, <2>1 DEF Listening
  <2> QED
    BY <2>2, <2>3
<1>4. CASE Self \in listeners /\ source' # source
  <2>1. /\ source' = c /\ told' = [m \in Miner |-> IF m \in listeners THEN WorkOf(c, o) ELSE told[m]]
        /\ letters' = Update(c, o)
    <3>1. letters' = <<>> \o Update(c, o)
      BY <1>1, <1>2, <1>4 DEF Send
    <3>2. source' = c /\ TellAll(c, o)
      BY <1>1, <1>4 DEF NewOffer
    <3> QED
      BY <3>1, <3>2 DEF TellAll, Update
  <2>2. told'[Self] = WorkOf(c, o)
    BY <1>2, <1>4, <2>1
  <2>3. Hears'
    BY <1>2, <2>1, <2>2, UpdateHears
  <2>4. Listening'
    BY <1>2, <1>4, <2>1, <2>2 DEF Listening
  <2> QED
    BY <2>3, <2>4
<1>5. CASE Self \in listeners /\ source' = source /\ c # source
  <2>1. told' = told /\ letters' = <<>>
    BY <1>1, <1>2, <1>5 DEF NewOffer, Send
  <2>2. Hears'
    BY <1>2, <2>1, SilenceEnds, TellHears
  <2>3. source # NoConn => offer'[source] = offer[source]
    BY <1>2, <1>5 DEF SourceOK
  <2>4. Listening'
    BY <1>2, <1>5, <2>1, <2>3 DEF Listening
  <2> QED
    BY <2>2, <2>4
<1>6. CASE Self \in listeners /\ source' = source /\ c = source
  <2>1. told' = [m \in Miner |-> IF m \in listeners THEN WorkOf(c, o) ELSE told[m]]
    BY <1>1, <1>2, <1>6 DEF NewOffer, TellAll
  <2>2. told'[Self] = WorkOf(c, o) /\ told[Self] = WorkOf(c, offer[c])
    BY <1>2, <1>6, <2>1 DEF Listening
  <2>3. Listening'
    BY <1>2, <1>6, <2>1, <2>2 DEF Listening
  <2>4. CASE o.dif # offer[c].dif
    <3> DEFINE ms == <<Msg("Difficulty", o.dif)>>
    <3>1. letters' = ms
      BY <1>1, <1>2, <1>6, <2>4 DEF Send
    <3>2. o.job = offer[c].job
      BY <1>1, <2>4
    <3>3. Len(ms) = 1 /\ ms[1].kind = "Difficulty" /\ ms[1].val = o.dif
          /\ \A i \in 1..1 : i = 1
      BY DEF Msg
    <3> HIDE DEF ms
    <3>4. /\ Ends(ms, "ExtraNonce", c, c) /\ Ends(ms, "Difficulty", offer[c].dif, o.dif)
          /\ \A j : Ends(ms, "MiningJob", j, j)
          /\ InTime(ms)
      BY <3>3 DEF Ends, None, InTime
    <3> QED
      BY <1>2, <2>2, <2>3, <3>1, <3>2, <3>4, TellHears DEF WorkOf, JobOf
  <2>5. CASE o.dif = offer[c].dif
    <3> DEFINE j == [conn |-> c, job |-> o.job]
               ms == <<Msg("MiningJob", j)>>
    <3>1. letters' = ms
      BY <1>1, <1>2, <1>6, <2>5 DEF Send
    <3>3. Len(ms) = 1 /\ ms[1].kind = "MiningJob" /\ ms[1].val = j
          /\ \A i \in 1..1 : i = 1
      BY DEF Msg
    <3> HIDE DEF ms, j
    <3>4. /\ Ends(ms, "ExtraNonce", c, c) /\ Ends(ms, "Difficulty", o.dif, o.dif)
          /\ \A i : Ends(ms, "MiningJob", i, j)
      BY <3>3 DEF Ends, None
    <3> QED
      BY <1>2, <2>2, <2>3, <2>5, <3>1, <3>4, TellHears DEF WorkOf, JobOf, j
  <2> QED
    BY <2>4, <2>5
<1> QED
  BY <1>3, <1>4, <1>5, <1>6

LEMMA SwitchHears ==
  ASSUME Hears, Listening, SourceOK, NEW c \in Conn, PoolSwitch(c)
  PROVE  Hears' /\ Listening'
<1> DEFINE o == offer[c]
<1>1. /\ UNCHANGED <<inbox, extraNonceInfo, target, miningJob, up, listeners, offer>> /\ up
      /\ letters = <<>> /\ source' = c /\ Self \in Miner /\ c # NoConn /\ source # NoConn
      /\ told' = [m \in Miner |-> IF m \in listeners THEN WorkOf(c, o) ELSE told[m]]
      /\ Send(Update(c, o))
  BY MinerAssumption DEF PoolSwitch, Switch, TellAll, minerVars, Send, Calm
<1> HIDE DEF o
<1>2. CASE Self \notin listeners
  <2>1. told'[Self] = told[Self] /\ letters' = <<>>
    BY <1>1, <1>2 DEF Send
  <2> QED
    BY <1>1, <1>2, <2>1, SilenceEnds, TellHears DEF Listening
<1>3. CASE Self \in listeners
  <2>1. told'[Self] = WorkOf(c, o) /\ letters' = Update(c, o)
    BY <1>1, <1>3 DEF Send, Update
  <2>2. Hears'
    BY <1>1, <2>1, UpdateHears
  <2>3. Listening'
    BY <1>1, <1>3, <2>1 DEF Listening, o
  <2> QED
    BY <2>2, <2>3
<1> QED
  BY <1>2, <1>3

LEMMA SubscribeHears ==
  ASSUME Hears, Listening, SourceOK, PoolSubscribe
  PROVE  Hears' /\ Listening'
<1>1. /\ UNCHANGED <<inbox, extraNonceInfo, target, miningJob, up, offer, source>> /\ up
      /\ letters = <<>> /\ Self \in Miner /\ listeners' = listeners \cup {Self}
      /\ Self \notin listeners
      /\ told' = IF source = NoConn THEN told
                 ELSE [told EXCEPT ![Self] = WorkOf(source, offer[source])]
      /\ Send(IF source = NoConn THEN <<>> ELSE Update(source, offer[source]))
  BY MinerAssumption DEF PoolSubscribe, Listen, minerVars, Send
<1>2. CASE source = NoConn
  <2>1. told' = told /\ letters' = <<>>
    BY <1>1, <1>2 DEF Send
  <2> QED
    BY <1>1, <1>2, <2>1, SilenceEnds, TellHears DEF Listening
<1>3. CASE source # NoConn
  <2>1. told' = [told EXCEPT ![Self] = WorkOf(source, offer[source])]
        /\ Send(Update(source, offer[source]))
    BY <1>1, <1>3
  <2>2. told'[Self] = WorkOf(source, offer[source]) /\ told' = [m \in Miner |-> told'[m]]
    BY <1>1, <2>1 DEF Listening
  <2>3. letters' = Update(source, offer[source])
    BY <1>1, <2>1 DEF Send, Update
  <2>4. Hears'
    BY <1>1, <2>2, <2>3, UpdateHears
  <2>5. Listening'
    BY <1>1, <1>3, <2>2 DEF Listening
  <2> QED
    BY <2>4, <2>5
<1> QED
  BY <1>2, <1>3

(* When no extranonce and no job are under way, the miner has those it was   *)
(* told of, and can work.                                                    *)
LEMMA Settled ==
  ASSUME Hears, Listening, SourceOK, up, told[Self] # Untold,
         None(letters, "ExtraNonce"), None(letters, "MiningJob"),
         None(inbox, "ExtraNonce"), None(inbox, "MiningJob")
  PROVE  HasWork /\ extraNonceInfo = told[Self].conn /\ miningJob = JobOf(told[Self])
<1>1. told[Self] = WorkOf(source, offer[source]) /\ source \in Conn
  BY DEF Listening, SourceOK
<1>2. /\ Chain(inbox, letters, "ExtraNonce", extraNonceInfo, told[Self].conn)
      /\ Chain(inbox, letters, "MiningJob", miningJob, JobOf(told[Self]))
      /\ target # 0 \/ miningJob = NoJob
  BY DEF Hears, MailOK
<1>3. extraNonceInfo = told[Self].conn /\ miningJob = JobOf(told[Self])
  BY <1>2, EndsNone DEF Chain
<1>4. told[Self].conn = source /\ JobOf(told[Self]) # NoJob /\ source # NoConn
  BY <1>1, MinerAssumption DEF WorkOf, JobOf, NoJob
<1> QED
  BY <1>2, <1>3, <1>4 DEF HasWork

(* Whoever hears nothing of an extranonce was told of a work before.         *)
LEMMA FirstWord ==
  ASSUME Hears, Listening, SourceOK, up, Hears', Listening', SourceOK', up',
         UNCHANGED <<inbox, extraNonceInfo>>, letters = <<>>, None(letters', "ExtraNonce"),
         told'[Self] # Untold
  PROVE  told[Self] # Untold
<1>1. /\ Chain(inbox, letters, "ExtraNonce", extraNonceInfo, told[Self].conn)
      /\ Chain(inbox, letters', "ExtraNonce", extraNonceInfo, told'[Self].conn)
  BY DEF Hears, MailOK
<1>2. /\ Ends(inbox, "ExtraNonce", extraNonceInfo, told[Self].conn)
      /\ Ends(inbox, "ExtraNonce", extraNonceInfo, told'[Self].conn)
  BY <1>1, EndsEmpty, EndsNone DEF Chain
<1>3. told[Self].conn = told'[Self].conn
  BY <1>2, EndsUnique
<1>4. told'[Self].conn = source' /\ source' \in Conn
  BY DEF Listening, SourceOK, WorkOf
<1> QED
  BY <1>3, <1>4, MinerAssumption DEF Untold
=============================================================================
