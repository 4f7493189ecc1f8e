----------------------------- MODULE BFLSCProofs -----------------------------
(***************************************************************************)
(* Proofs about BFLSC, for any queue length, capacity and bounds: its      *)
(* types, that is the count of works and the device's queue stay in their  *)
(* range, that driver and device stay in step, and that the driver never   *)
(* counts works that nobody has.                                           *)
(***************************************************************************)
EXTENDS BFLSC, FiniteSetTheorems, SequenceTheorems, TLAPS

(* How often x is in the sequence s. *)
CountOf(s, x) == Cardinality({i \in DOMAIN s : s[i] = x})

LEMMA CountOne ==
  ASSUME NEW x, NEW y
  PROVE  CountOf(<<y>>, x) = IF y = x THEN 1 ELSE 0
<1> DEFINE W == {i \in DOMAIN <<y>> : <<y>>[i] = x}
<1>1. CASE y = x
  <2>1. W = {1}
    BY <1>1
  <2> QED
    BY <1>1, <2>1, FS_Singleton DEF CountOf
<1>2. CASE y # x
  <2>1. W = {}
    BY <1>2
  <2> QED
    BY <1>2, <2>1, FS_EmptySet DEF CountOf
<1> QED
  BY <1>1, <1>2

LEMMA CountType ==
  ASSUME NEW S, NEW s \in Seq(S), NEW x
  PROVE  /\ CountOf(s, x) \in Nat /\ IsFiniteSet({i \in DOMAIN s : s[i] = x})
         /\ CountOf(<<>>, x) = 0
         /\ (\A i \in 1..Len(s) : s[i] # x) => CountOf(s, x) = 0
<1> DEFINE W == {i \in DOMAIN s : s[i] = x}
<1>1. IsFiniteSet(W)
  <2>1. IsFiniteSet(1..Len(s)) /\ W \subseteq 1..Len(s)
    BY FS_Interval
  <2> QED
    BY <2>1, FS_Subset
<1>2. (\A i \in 1..Len(s) : s[i] # x) => W = {}
  OBVIOUS
<1>3. {i \in DOMAIN <<>> : <<>>[i] = x} = {}
  OBVIOUS
<1> QED
  BY <1>1, <1>2, <1>3, FS_CardinalityType, FS_EmptySet DEF CountOf

LEMMA CountConcat ==
  ASSUME NEW S, NEW s \in Seq(S), NEW t \in Seq(S), NEW x
  PROVE  CountOf(s \o t, x) = CountOf(s, x) + CountOf(t, x)
<1> DEFINE A == {i \in DOMAIN s : s[i] = x}
           B == {i \in DOMAIN t : t[i] = x}
           C == {Len(s) + i : i \in B}
           W == {i \in DOMAIN (s \o t) : (s \o t)[i] = x}
<1>1. /\ DOMAIN s = 1..Len(s) /\ DOMAIN t = 1..Len(t) /\ DOMAIN (s \o t) = 1 .. Len(s) + Len(t)
      /\ Len(s) \in Nat /\ Len(t) \in Nat
      /\ \A i \in 1 .. Len(s) + Len(t) : (s \o t)[i] = IF i <= Len(s) THEN s[i] ELSE t[i - Len(s)]
  BY ConcatProperties, LenProperties
<1>2. IsFiniteSet(A) /\ IsFiniteSet(B)
  BY CountType
<1>3. W = A \cup C /\ A \cap C = {}
  <2>1. \A i \in W : i \in A \/ i \in C
    <3> SUFFICES ASSUME NEW i \in W PROVE i \in A \/ i \in C
      OBVIOUS
    <3>1. CASE i <= Len(s)
      BY <1>1, <3>1
    <3>2. CASE i > Len(s)
      <4>1. i - Len(s) \in B /\ i = Len(s) + (i - Len(s))
        BY <1>1, <3>2
      <4> QED
        BY <4>1
    <3> QED
      BY <1>1, <3>1, <3>2
  <2>2. \A i \in A : i \in W
    BY <1>1
  <2>3. \A i \in C : i \in W /\ i > Len(s)
    BY <1>1
  <2>4. \A i \in A : i <= Len(s)
    BY <1>1
  <2> QED
    BY <1>1, <2>1, <2>2, <2>3, <2>4
<1>4. IsFiniteSet(C) /\ Cardinality(C) = Cardinality(B)
  <2> DEFINE f == [i \in B |-> Len(s) + i]
  <2>1. f \in Bijection(B, C)
    <3>1. f \in [B -> C] /\ \A c \in C : \E b \in B : f[b] = c
      OBVIOUS
    <3>2. \A a, b \in B : f[a] = f[b] => a = b
      BY <1>1
    <3> QED
      BY <3>1, <3>2 DEF Bijection, Injection, Surjection, IsInjective
  <2> QED
    BY <1>2, <2>1, FS_Bijection DEF ExistsBijection
<1>5. Cardinality(W) = Cardinality(A) + Cardinality(C)
  <2>1. Cardinality(A \cup C) = Cardinality(A) + Cardinality(C) - Cardinality(A \cap C)
    BY <1>2, <1>4, FS_Union
  <2>2. Cardinality(A \cap C) = 0 /\ Cardinality(A) \in Nat /\ Cardinality(C) \in Nat
    BY <1>2, <1>3, <1>4, FS_EmptySet, FS_CardinalityType
  <2> HIDE DEF A, C, W
  <2> QED
    BY <1>3, <2>1, <2>2
<1>6. CountOf(s \o t, x) = Cardinality(W) /\ CountOf(s, x) = Cardinality(A)
      /\ CountOf(t, x) = Cardinality(B)
  BY DEF CountOf
<1> QED
  BY <1>4, <1>5, <1>6

LEMMA CountAppend ==
  ASSUME NEW S, NEW s \in Seq(S), NEW y \in S, NEW x
  PROVE  CountOf(Append(s, y), x) = CountOf(s, x) + IF y = x THEN 1 ELSE 0
<1> DEFINE t == <<y>>
<1>1. Append(s, y) = s \o t /\ t \in Seq(S)
  OBVIOUS
<1>2. CountOf(t, x) = IF y = x THEN 1 ELSE 0
  BY CountOne
<1> HIDE DEF t
<1> QED
  BY <1>1, <1>2, CountConcat

LEMMA CountSplit ==
  ASSUME NEW S, NEW s \in Seq(S), s # <<>>, NEW x
  PROVE  CountOf(s, x) = CountOf(Tail(s), x) + IF Head(s) = x THEN 1 ELSE 0
<1> DEFINE h == <<Head(s)>>
           t == Tail(s)
<1>1. h \in Seq(S) /\ t \in Seq(S) /\ s = h \o t
  OBVIOUS
<1>2. CountOf(h, x) = IF Head(s) = x THEN 1 ELSE 0
  BY CountOne
<1> HIDE DEF h, t
<1>3. CountOf(s, x) = CountOf(h, x) + CountOf(t, x)
  BY <1>1, CountConcat
<1>4. CountOf(t, x) \in Nat
  BY <1>1, CountType
<1> QED
  BY <1>2, <1>3, <1>4 DEF t

LEMMA CountRepeat ==
  ASSUME NEW n \in Nat, NEW x
  PROVE  CountOf([i \in 1..n |-> x], x) = n
<1>1. {i \in DOMAIN [j \in 1..n |-> x] : [j \in 1..n |-> x][i] = x} = 1..n
  OBVIOUS
<1>2. Cardinality(1..n) = n
  BY FS_Interval
<1> QED
  BY <1>1, <1>2 DEF CountOf
-----------------------------------------------------------------------------
(* The answers in the lines L are a, after others only of S. *)
Ends(L, a, S) ==
  \E j \in 1..Len(L) :
    /\ L[j] = a
    /\ \A i \in 1..Len(L) : i < j /\ L[i] \in Answers => L[i] \in S
    /\ \A i \in 1..Len(L) : i > j => L[i] \notin Answers

NoAnswers(L) == \A i \in 1..Len(L) : L[i] \notin Answers

(* What the driver is to be answered yet, if the lines L are to come.  A     *)
(* flush between QJOB and its payload takes the device out of step; then the *)
(* driver counts no work until it has given that submission up.              *)
Conversation(L) ==
  \/ /\ behavior = "submit" /\ phase = 1
     /\ \/ Ends(L, Msg("OK"), {}) /\ (awaiting \/ workSubmitted = 0)
        \/ Ends(L, Msg("QFULL"), {}) /\ ~ awaiting
  \/ /\ behavior = "submit" /\ phase = 2 /\ ~ awaiting
     /\ Ends(L, Msg("OKQ"), {}) \/ (NoAnswers(L) /\ workSubmitted = 0)
  \/ behavior = "results" /\ phase = 1 /\ ~ awaiting /\ Ends(L, Msg("OK"), {Msg("RESULT")})
  \/ behavior \in {"submit", "results"} /\ phase = 0 /\ ~ awaiting /\ NoAnswers(L)
  \/ behavior \in {"init", "normal"} /\ ~ awaiting /\ NoAnswers(L)

(* The work being sent is counted until the device has it or refuses it.     *)
Sending == IF behavior = "submit" /\ (phase = 0 \/ awaiting) THEN 1 ELSE 0
Counted(L) == workSubmitted <= Len(queue) + found + CountOf(L, Msg("RESULT")) + Sending

InTurn ==
  /\ NoAnswers(stash) /\ NoAnswers(unstashed)
  /\ Conversation(lines) /\ Counted(lines)

(* The temperature readings that are made or will be. *)
Readings(front) ==
  temps + CountOf(stash, Msg("ExpireJobs")) + CountOf(front, Msg("ExpireJobs"))

Sane ==
  /\ behavior = "submit" => submitting # 0
  /\ awaiting => Len(queue) < Capacity
  /\ Readings(unstashed) <= MaxTemps

IInv == TypeOK /\ cancels <= job /\ Sane /\ (lates = 0 => InTurn)
-----------------------------------------------------------------------------
LEMMA Constants ==
  /\ MaxWork \in Nat /\ Capacity \in Nat /\ MaxJobs \in Nat /\ MaxTemps \in Nat /\ MaxLate \in Nat
  /\ 0 < MaxWork /\ MaxWork <= Capacity
BY BFLSCAssumption

LEMMA Messages ==
  /\ Line \subseteq Message /\ Timer \subseteq Message
  /\ {Msg("OK"), Msg("OKQ"), Msg("QFULL"), Msg("RESULT"), Msg("INVALID"), Msg("Temp")} \subseteq Line
  /\ \A n \in 0..Capacity : Flushed(n) \in Line /\ Flushed(n) \notin Answers
  /\ {Msg("INVALID"), Msg("Temp"), Msg("CancelWork"), Msg("GetResults"), Msg("ExpireJobs")}
       \cap Answers = {}
  /\ Answers \subseteq Line /\ Msg("ExpireJobs") \notin Line /\ Msg("CancelWork") # Msg("ExpireJobs")
  /\ Msg("GetResults") # Msg("ExpireJobs")
  /\ Msg("OK") # Msg("OKQ") /\ Msg("OK") # Msg("QFULL") /\ Msg("OK") # Msg("RESULT")
  /\ Msg("OKQ") # Msg("QFULL") /\ Msg("OKQ") # Msg("RESULT") /\ Msg("QFULL") # Msg("RESULT")
  /\ \A s, t : Msg(s) = Msg(t) => s = t
<1>1. \A s : Msg(s).msg = s
  BY DEF Msg
<1>2. \A n : Flushed(n).msg = "FLUSHED"
  BY DEF Flushed
<1> QED
  BY <1>1, <1>2 DEF Message, Line, Timer, Answers

(* Lines taken from the front. *)
LEMMA TakenLine ==
  ASSUME NEW L \in Seq(Line), L # <<>>, NEW a \in Answers, NEW S
  PROVE  /\ Tail(L) \in Seq(Line) /\ Head(L) \in Line
         /\ NoAnswers(L) => Head(L) \notin Answers /\ NoAnswers(Tail(L))
         /\ Ends(L, a, S) /\ Head(L) \notin Answers => Ends(Tail(L), a, S)
         /\ Ends(L, a, S) /\ Head(L) \in Answers => Head(L) \in S \cup {a}
         /\ Ends(L, a, S) /\ Head(L) = a /\ a \notin S => NoAnswers(Tail(L))
         /\ Ends(L, a, S) /\ Head(L) # a => Ends(Tail(L), a, S)
<1>1. /\ Tail(L) \in Seq(Line) /\ Head(L) \in Line /\ Len(L) \in Nat /\ Len(L) > 0
      /\ Len(Tail(L)) = Len(L) - 1 /\ Head(L) = L[1]
      /\ \A i \in 1 .. Len(L) - 1 : Tail(L)[i] = L[i + 1]
  OBVIOUS
<1>2. NoAnswers(L) => Head(L) \notin Answers /\ NoAnswers(Tail(L))
  BY <1>1 DEF NoAnswers
<1>3. ASSUME NEW j \in 1..Len(L), L[j] = a,
             \A i \in 1..Len(L) : i < j /\ L[i] \in Answers => L[i] \in S,
             \A i \in 1..Len(L) : i > j => L[i] \notin Answers
      PROVE  /\ Head(L) # a => Ends(Tail(L), a, S)
             /\ Head(L) \in Answers => Head(L) \in S \cup {a}
             /\ Head(L) = a /\ a \notin S => NoAnswers(Tail(L))
  <2>1. Head(L) # a => Ends(Tail(L), a, S)
    <3> SUFFICES ASSUME Head(L) # a PROVE Ends(Tail(L), a, S)
      OBVIOUS
    <3>1. j - 1 \in 1..Len(Tail(L)) /\ Tail(L)[j - 1] = a
      BY <1>1, <1>3
    <3>2. \A i \in 1..Len(Tail(L)) : i < j - 1 /\ Tail(L)[i] \in Answers => Tail(L)[i] \in S
      BY <1>1, <1>3
    <3>3. \A i \in 1..Len(Tail(L)) : i > j - 1 => Tail(L)[i] \notin Answers
      BY <1>1, <1>3
    <3> QED
      BY <3>1, <3>2, <3>3 DEF Ends
  <2>2. Head(L) \in Answers => Head(L) \in S \cup {a}
    BY <1>1, <1>3
  <2>3. Head(L) = a /\ a \notin S => NoAnswers(Tail(L))
    <3> SUFFICES ASSUME Head(L) = a, a \notin S PROVE NoAnswers(Tail(L))
      OBVIOUS
    <3>1. j = 1
      BY <1>1, <1>3
    <3> QED
      BY <1>1, <1>3, <3>1 DEF NoAnswers
  <2> QED
    BY <2>1, <2>2, <2>3
<1>4. /\ Ends(L, a, S) /\ Head(L) # a => Ends(Tail(L), a, S)
      /\ Ends(L, a, S) /\ Head(L) \in Answers => Head(L) \in S \cup {a}
      /\ Ends(L, a, S) /\ Head(L) = a /\ a \notin S => NoAnswers(Tail(L))
  <2> SUFFICES ASSUME Ends(L, a, S)
               PROVE  /\ Head(L) # a => Ends(Tail(L), a, S)
                      /\ Head(L) \in Answers => Head(L) \in S \cup {a}
                      /\ Head(L) = a /\ a \notin S => NoAnswers(Tail(L))
    OBVIOUS
  <2> QED
    BY <1>3 DEF Ends
<1> QED
  BY <1>1, <1>2, <1>4

(* A line added at the end. *)
LEMMA AddedLine ==
  ASSUME NEW L \in Seq(Line), NEW y \in Line, NEW S
  PROVE  /\ Append(L, y) \in Seq(Line)
         /\ y \notin Answers /\ NoAnswers(L) => NoAnswers(Append(L, y))
         /\ \A a : y \notin Answers /\ Ends(L, a, S) => Ends(Append(L, y), a, S)
         /\ NoAnswers(L) => Ends(Append(L, y), y, S)
         /\ CountOf(Append(L, y), Msg("RESULT")) = CountOf(L, Msg("RESULT")) + IF y = Msg("RESULT") THEN 1 ELSE 0
<1> DEFINE M == Append(L, y)
<1>1. /\ M \in Seq(Line) /\ Len(L) \in Nat /\ Len(M) = Len(L) + 1 /\ M[Len(L) + 1] = y
      /\ \A i \in 1..Len(L) : M[i] = L[i]
  OBVIOUS
<1> HIDE DEF M
<1>2. y \notin Answers /\ NoAnswers(L) => NoAnswers(M)
  BY <1>1 DEF NoAnswers
<1>3. ASSUME NEW a, y \notin Answers, Ends(L, a, S)
      PROVE  Ends(M, a, S)
  <2>1. PICK j \in 1..Len(L) :
          /\ L[j] = a
          /\ \A i \in 1..Len(L) : i < j /\ L[i] \in Answers => L[i] \in S
          /\ \A i \in 1..Len(L) : i > j => L[i] \notin Answers
    BY <1>3 DEF Ends
  <2>2. j \in 1..Len(M) /\ M[j] = a
    BY <1>1, <2>1
  <2>3. \A i \in 1..Len(M) : i < j /\ M[i] \in Answers => M[i] \in S
    BY <1>1, <2>1
  <2>4. \A i \in 1..Len(M) : i > j => M[i] \notin Answers
    BY <1>1, <1>3, <2>1
  <2> QED
    BY <2>2, <2>3, <2>4 DEF Ends
<1>4. NoAnswers(L) => Ends(M, y, S)
  <2> SUFFICES ASSUME NoAnswers(L) PROVE Ends(M, y, S)
    OBVIOUS
  <2>1. Len(L) + 1 \in 1..Len(M) /\ M[Len(L) + 1] = y
    BY <1>1
  <2>2. \A i \in 1..Len(M) : i < Len(L) + 1 /\ M[i] \in Answers => M[i] \in S
    BY <1>1 DEF NoAnswers
  <2>3. \A i \in 1..Len(M) : i > Len(L) + 1 => M[i] \notin Answers
    BY <1>1
  <2> QED
    BY <2>1, <2>2, <2>3 DEF Ends
<1> QED
  BY <1>1, <1>2, <1>3, <1>4, CountAppend DEF M

(* The report of n results. *)
LEMMA AddedReport ==
  ASSUME NEW L \in Seq(Line), NEW n \in Nat
  PROVE  LET M == L \o [i \in 1..n |-> Msg("RESULT")] \o <<Msg("OK")>>
         IN  /\ M \in Seq(Line)
             /\ NoAnswers(L) => Ends(M, Msg("OK"), {Msg("RESULT")})
             /\ CountOf(M, Msg("RESULT")) = CountOf(L, Msg("RESULT")) + n
<1> DEFINE R == [i \in 1..n |-> Msg("RESULT")]
           K == L \o R
           M == Append(K, Msg("OK"))
<1>1. R \in Seq(Line) /\ K \in Seq(Line) /\ Len(R) = n /\ \A i \in 1..n : R[i] = Msg("RESULT")
  BY Messages
<1>2. K \o <<Msg("OK")>> = M /\ M \in Seq(Line) /\ Len(M) = Len(K) + 1 /\ M[Len(K) + 1] = Msg("OK")
      /\ \A i \in 1..Len(K) : M[i] = K[i]
  BY <1>1, Messages
<1>3. CountOf(R, Msg("RESULT")) = n
  BY CountRepeat
<1> HIDE DEF R
<1>4. Len(L) \in Nat /\ Len(K) = Len(L) + n
      /\ \A i \in 1..Len(K) : K[i] = IF i <= Len(L) THEN L[i] ELSE Msg("RESULT")
  <2>1. Len(L) \in Nat /\ Len(K) = Len(L) + n
    BY <1>1
  <2>2. \A i \in 1..Len(K) : K[i] = IF i <= Len(L) THEN L[i] ELSE R[i - Len(L)]
    BY <1>1, ConcatProperties
  <2> QED
    BY <1>1, <2>1, <2>2
<1>5. CountOf(K, Msg("RESULT")) = CountOf(L, Msg("RESULT")) + n
  BY <1>1, <1>3, CountConcat
<1> HIDE DEF K
<1>6. CountOf(M, Msg("RESULT")) = CountOf(K, Msg("RESULT"))
  <2>1. CountOf(M, Msg("RESULT")) = CountOf(K, Msg("RESULT")) + 0
    BY <1>1, AddedLine, Messages
  <2>2. CountOf(K, Msg("RESULT")) \in Nat
    BY <1>1, CountType
  <2> HIDE DEF M
  <2> QED
    BY <2>1, <2>2
<1> HIDE DEF M
<1>7. NoAnswers(L) => Ends(M, Msg("OK"), {Msg("RESULT")})
  <2> SUFFICES ASSUME NoAnswers(L) PROVE Ends(M, Msg("OK"), {Msg("RESULT")})
    OBVIOUS
  <2>1. Len(K) + 1 \in 1..Len(M) /\ M[Len(K) + 1] = Msg("OK")
    BY <1>2, <1>4
  <2>2. \A i \in 1..Len(M) : i < Len(K) + 1 /\ M[i] \in Answers => M[i] \in {Msg("RESULT")}
    BY <1>2, <1>4 DEF NoAnswers
  <2>3. \A i \in 1..Len(M) : i > Len(K) + 1 => M[i] \notin Answers
    BY <1>2, <1>4
  <2> QED
    BY <2>1, <2>2, <2>3 DEF Ends
<1> QED
  BY <1>2, <1>5, <1>6, <1>7 DEF K, R
-----------------------------------------------------------------------------
(* What holds of the driver and the device, whatever the mailbox has.        *)
DriverOK ==
  /\ behavior \in {"init", "normal", "results", "submit", "stopped"}
  /\ phase \in 0..2 /\ submitting \in 0..MaxJobs
  /\ workSubmitted \in 0..MaxWork /\ overHeating \in BOOLEAN
  /\ job \in 0..MaxJobs
  /\ behavior = "submit" => submitting # 0

DeviceOK ==
  /\ queue \in Seq(1..MaxJobs) /\ Len(queue) <= Capacity
  /\ found \in Nat /\ awaiting \in BOOLEAN
  /\ awaiting => Len(queue) < Capacity

(* The message m is handled, with the messages front and the lines rest left.*)
Given(m, front, rest) ==
  /\ DriverOK /\ DeviceOK
  /\ m \in Message /\ front \in Seq(Message) /\ rest \in Seq(Line) /\ stash \in Seq(Message)
  /\ temps \in 0..MaxTemps
  /\ Readings(front) + (IF m = Msg("ExpireJobs") THEN 1 ELSE 0) <= MaxTemps

LEMMA WorkAdded ==
  ASSUME DriverOK, NEW n \in 0..MaxWork, AddWork(n),
         overHeating' \in BOOLEAN, UNCHANGED job
  PROVE  DriverOK'
BY Constants DEF DriverOK, AddWork

LEMMA MinusBounds ==
  ASSUME NEW n \in Nat, NEW k \in Nat
  PROVE  Minus(n, k) \in 0..n /\ (n > 0 => Minus(n, 1) = n - 1)
BY DEF Minus

LEMMA HandleDriver ==
  ASSUME NEW m, NEW front, NEW rest, Given(m, front, rest), Handle(m, front, rest)
  PROVE  DriverOK' /\ UNCHANGED job
<1>1. DriverOK /\ m \in Message /\ workSubmitted \in Nat /\ workSubmitted <= MaxWork
  BY Constants DEF Given, DriverOK
<1>2. ASSUME FlushedLine(m, front, rest) PROVE DriverOK' /\ UNCHANGED job
  <2>1. m.n \in Nat
    BY <1>1, <1>2, Constants DEF FlushedLine, Message, Line, Timer, Msg, Flushed
  <2>2. Minus(workSubmitted, m.n) \in 0..MaxWork
    BY <1>1, <2>1, MinusBounds, Constants
  <2> QED
    BY <1>1, <1>2, <2>2 DEF FlushedLine, DriverOK, waiting
<1>3. ASSUME InvalidLine(m, front, rest) \/ ResultLine(m, front, rest)
      PROVE  DriverOK' /\ UNCHANGED job
  <2>1. Minus(workSubmitted, 1) \in 0..MaxWork
    BY <1>1, MinusBounds, Constants
  <2> QED
    BY <1>1, <1>3, <2>1 DEF InvalidLine, ResultLine, DriverOK, waiting
<1>4. ASSUME TemperatureLine(m, front, rest) PROVE DriverOK' /\ UNCHANGED job
  <2>1. overHeating' \in BOOLEAN /\ workSubmitted' \in 0..MaxWork /\ UNCHANGED <<waiting, job>>
    <3>1. overHeating' = overHeating \/ overHeating' = TRUE \/ overHeating' = FALSE
      BY <1>4 DEF TemperatureLine
    <3>2. workSubmitted' = workSubmitted \/ workSubmitted' = 0
      BY <1>4 DEF TemperatureLine
    <3>3. 0 \in 0..MaxWork /\ workSubmitted \in 0..MaxWork /\ overHeating \in BOOLEAN
      BY <1>1, Constants DEF DriverOK
    <3>4. overHeating' \in BOOLEAN
      BY <3>1, <3>3
    <3> QED
      BY <1>4, <3>2, <3>3, <3>4 DEF TemperatureLine
  <2> QED
    BY <1>1, <2>1 DEF DriverOK, waiting
<1>5. ASSUME CancelWork(m, front, rest) PROVE DriverOK' /\ UNCHANGED job
  <2>1. AddWork(0) /\ 0 \in 0..MaxWork /\ UNCHANGED <<job, overHeating>>
    BY <1>5, Constants DEF CancelWork
  <2> QED
    BY <1>1, <2>1, WorkAdded DEF DriverOK
<1>6. ASSUME GetResults(m, front, rest) PROVE DriverOK' /\ UNCHANGED job
  BY <1>1, <1>6 DEF GetResults, DriverOK
<1>7. ASSUME \/ ExpireJobs(m, front, rest) \/ UnhandledLine(m, front, rest)
             \/ Discard(m, front, rest) \/ StashIt(m, front, rest)
      PROVE  DriverOK' /\ UNCHANGED job
  BY <1>1, <1>7 DEF ExpireJobs, UnhandledLine, Discard, StashIt, DriverOK, driver, waiting
<1>8. ASSUME ResultsEnd(m, front, rest) PROVE DriverOK' /\ UNCHANGED job
  <2>1. AddWork(workSubmitted) /\ workSubmitted \in 0..MaxWork /\ UNCHANGED <<job, overHeating>>
    BY <1>1, <1>8, Constants DEF ResultsEnd
  <2> QED
    BY <1>1, <2>1, WorkAdded DEF DriverOK
<1>9. ASSUME ResultsMalformed(m, front, rest) PROVE DriverOK' /\ UNCHANGED job
  BY <1>1, <1>9 DEF ResultsMalformed, DriverOK
<1>10. ASSUME SendPayload(m, front, rest) PROVE DriverOK' /\ UNCHANGED job
  BY <1>1, <1>10 DEF SendPayload, DriverOK
<1>11. ASSUME Submitted(m, front, rest) \/ SubmitFailed(m, front, rest)
       PROVE  DriverOK' /\ UNCHANGED job
  BY <1>1, <1>11 DEF Submitted, SubmitFailed, Finish, DriverOK
<1> QED
  BY <1>2, <1>3, <1>4, <1>5, <1>6, <1>7, <1>8, <1>9, <1>10, <1>11 DEF Handle

(* What the driver sends. *)
Commands == {Msg(c) : c \in {"QJOB", "QRES", "QFLUSH", "TEMPERATURE"}}
              \cup [msg : {"payload"}, job : 1..MaxJobs]

LEMMA SendDevice ==
  ASSUME DeviceOK, NEW c \in Commands, NEW rest \in Seq(Line), Send(c, rest)
  PROVE  DeviceOK' /\ lines' \in Seq(Line)
<1>1. /\ Msg("OKQ") \in Line /\ Msg("INVALID") \in Line /\ Msg("OK") \in Line
      /\ Msg("QFULL") \in Line /\ Msg("Temp") \in Line
      /\ Len(queue) \in Nat /\ Flushed(Len(queue)) \in Line
  BY Messages, Constants DEF DeviceOK
<1>2. \A y \in Line : Append(rest, y) \in Seq(Line)
  OBVIOUS
<1>3. CASE awaiting /\ c.msg = "payload" /\ awaiting' = FALSE /\ found' = found
             /\ queue' = Append(queue, c.job) /\ lines' = Append(rest, Msg("OKQ"))
  <2>1. c.job \in 1..MaxJobs
    BY <1>3 DEF Commands, Msg
  <2>2. awaiting /\ Len(queue) < Capacity /\ queue \in Seq(1..MaxJobs)
    BY <1>3 DEF DeviceOK
  <2>3. queue' \in Seq(1..MaxJobs) /\ Len(queue') = Len(queue) + 1
    BY <1>3, <2>1, <2>2
  <2>4. Len(queue') <= Capacity
    BY <1>1, <2>2, <2>3, Constants
  <2>5. found' \in Nat /\ awaiting' \in BOOLEAN /\ ~ awaiting'
    BY <1>3 DEF DeviceOK
  <2> QED
    BY <1>1, <1>2, <1>3, <2>3, <2>4, <2>5 DEF DeviceOK
<1>4. CASE awaiting' = FALSE /\ UNCHANGED <<queue, found>>
             /\ lines' = Append(rest, Msg("INVALID"))
  BY <1>1, <1>2, <1>4 DEF DeviceOK
<1>5. CASE awaiting' = (Len(queue) < Capacity) /\ UNCHANGED <<queue, found>>
             /\ lines' = Append(rest, Msg(IF awaiting' THEN "OK" ELSE "QFULL"))
  <2>1. Msg(IF awaiting' THEN "OK" ELSE "QFULL") \in Line
    BY <1>1
  <2>2. lines' \in Seq(Line)
    BY <1>2, <1>5, <2>1
  <2>3. CASE Len(queue) < Capacity
    <3>1. awaiting' = TRUE
      BY <1>5, <2>3
    <3> QED
      BY <1>1, <1>5, <2>2, <2>3, <3>1 DEF DeviceOK
  <2>4. CASE ~ (Len(queue) < Capacity)
    <3>1. (Len(queue) < Capacity) = FALSE
      BY <2>4
    <3>2. awaiting' = FALSE
      BY <1>5, <3>1, Zenon
    <3> QED
      BY <1>1, <1>5, <2>2, <3>2 DEF DeviceOK
  <2> QED
    BY <2>3, <2>4
<1>6. CASE ~ awaiting /\ found' = 0 /\ UNCHANGED <<queue, awaiting>>
             /\ lines' = rest \o [n \in 1..found |-> Msg("RESULT")] \o <<Msg("OK")>>
  <2>1. lines' \in Seq(Line)
    BY <1>6, AddedReport DEF DeviceOK
  <2> QED
    BY <1>6, <2>1 DEF DeviceOK
<1>7. CASE ~ awaiting /\ queue' = <<>> /\ UNCHANGED <<found, awaiting>>
             /\ lines' = Append(rest, Flushed(Len(queue)))
  BY <1>1, <1>2, <1>7, Constants DEF DeviceOK
<1>8. CASE ~ awaiting /\ UNCHANGED device /\ lines' = Append(rest, Msg("Temp"))
  BY <1>1, <1>2, <1>8 DEF DeviceOK, device
<1> QED
  BY <1>3, <1>4, <1>5, <1>6, <1>7, <1>8 DEF Send

LEMMA HandleDevice ==
  ASSUME NEW m, NEW front, NEW rest, Given(m, front, rest), Handle(m, front, rest)
  PROVE  DeviceOK' /\ lines' \in Seq(Line)
<1>1. DeviceOK /\ rest \in Seq(Line)
  BY DEF Given
<1>2. ASSUME SendNothing(rest) PROVE DeviceOK' /\ lines' \in Seq(Line)
  BY <1>1, <1>2 DEF SendNothing, DeviceOK, device
<1>3. ASSUME NEW c \in Commands, Send(c, rest) PROVE DeviceOK' /\ lines' \in Seq(Line)
  BY <1>1, <1>3, SendDevice
<1>4. Msg("QFLUSH") \in Commands /\ Msg("TEMPERATURE") \in Commands
  BY DEF Commands
<1>5. ASSUME TemperatureLine(m, front, rest) PROVE SendNothing(rest) \/ Send(Msg("QFLUSH"), rest)
  BY <1>5 DEF TemperatureLine
<1>6. ASSUME CancelWork(m, front, rest) PROVE Send(Msg("QFLUSH"), rest)
  BY <1>6 DEF CancelWork
<1>7. ASSUME ExpireJobs(m, front, rest) PROVE Send(Msg("TEMPERATURE"), rest)
  BY <1>7 DEF ExpireJobs
<1>8. ASSUME SendPayload(m, front, rest)
      PROVE  \E c \in Commands : Send(c, rest)
  <2>1. Send([msg |-> "payload", job |-> submitting], rest) /\ behavior = "submit"
    BY <1>8 DEF SendPayload
  <2>2. submitting \in 1..MaxJobs
    BY <2>1, Constants DEF Given, DriverOK
  <2>3. [msg |-> "payload", job |-> submitting] \in Commands
    BY <2>2 DEF Commands
  <2> QED
    BY <2>1, <2>3
<1>9. ASSUME \/ FlushedLine(m, front, rest) \/ InvalidLine(m, front, rest)
             \/ GetResults(m, front, rest) \/ UnhandledLine(m, front, rest)
             \/ ResultLine(m, front, rest) \/ ResultsEnd(m, front, rest)
             \/ ResultsMalformed(m, front, rest) \/ Discard(m, front, rest)
             \/ Submitted(m, front, rest) \/ SubmitFailed(m, front, rest)
             \/ StashIt(m, front, rest)
      PROVE  SendNothing(rest)
  BY <1>9 DEF FlushedLine, InvalidLine, GetResults, UnhandledLine, ResultLine, ResultsEnd,
     ResultsMalformed, Discard, Submitted, SubmitFailed, StashIt, Silent
<1> QED
  BY <1>2, <1>3, <1>4, <1>5, <1>6, <1>7, <1>8, <1>9 DEF Handle

LEMMA JoinedMail ==
  ASSUME NEW s \in Seq(Message), NEW t \in Seq(Message)
  PROVE  NoAnswers(s) /\ NoAnswers(t) => NoAnswers(s \o t)
<1>1. /\ Len(s) \in Nat /\ Len(t) \in Nat /\ Len(s \o t) = Len(s) + Len(t)
      /\ \A i \in 1 .. Len(s) + Len(t) : (s \o t)[i] = IF i <= Len(s) THEN s[i] ELSE t[i - Len(s)]
  BY ConcatProperties, LenProperties
<1>2. SUFFICES ASSUME NoAnswers(s), NoAnswers(t), NEW i \in 1..Len(s \o t)
               PROVE  (s \o t)[i] \notin Answers
  BY DEF NoAnswers
<1>3. CASE i <= Len(s)
  BY <1>1, <1>2, <1>3 DEF NoAnswers
<1>4. CASE i > Len(s)
  <2>1. i - Len(s) \in 1..Len(t) /\ (s \o t)[i] = t[i - Len(s)]
    BY <1>1, <1>4
  <2> QED
    BY <1>2, <2>1 DEF NoAnswers
<1> QED
  BY <1>1, <1>3, <1>4

LEMMA MailMoved ==
  ASSUME stash \in Seq(Message), NEW front \in Seq(Message), NEW x,
         Keep(front) \/ UnstashAll(front)
  PROVE  /\ stash' \in Seq(Message) /\ unstashed' \in Seq(Message)
         /\ CountOf(stash', x) + CountOf(unstashed', x) = CountOf(stash, x) + CountOf(front, x)
         /\ NoAnswers(stash) /\ NoAnswers(front) => NoAnswers(stash') /\ NoAnswers(unstashed')
<1>1. CASE Keep(front)
  BY <1>1 DEF Keep
<1>2. CASE UnstashAll(front)
  <2>1. unstashed' = stash \o front /\ stash' = <<>> /\ stash' \in Seq(Message)
        /\ unstashed' \in Seq(Message)
    BY <1>2 DEF UnstashAll
  <2>2. CountOf(stash', x) = 0 /\ CountOf(stash, x) \in Nat /\ CountOf(front, x) \in Nat
    BY <2>1, CountType
  <2>3. CountOf(unstashed', x) = CountOf(stash, x) + CountOf(front, x)
    BY <2>1, CountConcat
  <2>4. NoAnswers(stash')
    BY <2>1 DEF NoAnswers
  <2>5. NoAnswers(stash) /\ NoAnswers(front) => NoAnswers(unstashed')
    BY <2>1, JoinedMail
  <2> QED
    BY <2>1, <2>2, <2>3, <2>4, <2>5
<1> QED
  BY <1>1, <1>2

(* The counts of ExpireJobs are numbers. *)
LEMMA ReadingsType ==
  ASSUME NEW front, NEW m, NEW rest, Given(m, front, rest)
  PROVE  /\ CountOf(stash, Msg("ExpireJobs")) \in Nat /\ CountOf(front, Msg("ExpireJobs")) \in Nat
         /\ temps \in Nat /\ temps <= MaxTemps
<1>1. stash \in Seq(Message) /\ front \in Seq(Message) /\ temps \in 0..MaxTemps
  BY DEF Given
<1>2. CountOf(stash, Msg("ExpireJobs")) \in Nat /\ CountOf(front, Msg("ExpireJobs")) \in Nat
  BY <1>1, CountType
<1> QED
  BY <1>1, <1>2, Constants

LEMMA HandleMail ==
  ASSUME NEW m, NEW front, NEW rest, Given(m, front, rest), Handle(m, front, rest)
  PROVE  /\ stash' \in Seq(Message) /\ unstashed' \in Seq(Message) /\ temps' \in 0..MaxTemps
         /\ Readings(unstashed)' <= MaxTemps
         /\ ~ (m \in Answers /\ Stashes(m)) /\ NoAnswers(stash) /\ NoAnswers(front)
              => NoAnswers(stash') /\ NoAnswers(unstashed')
<1> DEFINE E == Msg("ExpireJobs")
<1>1. /\ stash \in Seq(Message) /\ front \in Seq(Message) /\ m \in Message /\ temps \in 0..MaxTemps
      /\ temps + CountOf(stash, E) + CountOf(front, E) + (IF m = E THEN 1 ELSE 0) <= MaxTemps
  BY DEF Given, Readings
<1>2. /\ CountOf(stash, E) \in Nat /\ CountOf(front, E) \in Nat
      /\ temps \in Nat /\ MaxTemps \in Nat
  BY ReadingsType, Constants
<1>3. Readings(unstashed)' = temps' + CountOf(stash', E) + CountOf(unstashed', E)
  BY DEF Readings
<1>4. ASSUME Keep(front) \/ UnstashAll(front), temps' = temps
      PROVE  /\ stash' \in Seq(Message) /\ unstashed' \in Seq(Message) /\ temps' \in 0..MaxTemps
             /\ Readings(unstashed)' <= MaxTemps
             /\ NoAnswers(stash) /\ NoAnswers(front) => NoAnswers(stash') /\ NoAnswers(unstashed')
  <2>1. /\ stash' \in Seq(Message) /\ unstashed' \in Seq(Message)
        /\ CountOf(stash', E) + CountOf(unstashed', E) = CountOf(stash, E) + CountOf(front, E)
        /\ NoAnswers(stash) /\ NoAnswers(front) => NoAnswers(stash') /\ NoAnswers(unstashed')
    BY <1>1, <1>4, MailMoved
  <2>2. CountOf(stash', E) \in Nat /\ CountOf(unstashed', E) \in Nat
    BY <2>1, CountType
  <2> HIDE DEF E
  <2> QED
    BY <1>1, <1>2, <1>3, <1>4, <2>1, <2>2
<1>5. ASSUME ExpireJobs(m, front, rest)
      PROVE  /\ stash' \in Seq(Message) /\ unstashed' \in Seq(Message) /\ temps' \in 0..MaxTemps
             /\ Readings(unstashed)' <= MaxTemps
             /\ NoAnswers(stash) /\ NoAnswers(front) => NoAnswers(stash') /\ NoAnswers(unstashed')
  <2>1. m = E /\ temps' = temps + 1 /\ stash' = stash /\ unstashed' = front
    BY <1>5 DEF ExpireJobs, Keep
  <2> HIDE DEF E
  <2> QED
    BY <1>1, <1>2, <1>3, <2>1
<1>6. ASSUME StashIt(m, front, rest)
      PROVE  /\ stash' \in Seq(Message) /\ unstashed' \in Seq(Message) /\ temps' \in 0..MaxTemps
             /\ Readings(unstashed)' <= MaxTemps
             /\ m \notin Answers /\ NoAnswers(stash) /\ NoAnswers(front)
                  => NoAnswers(stash') /\ NoAnswers(unstashed')
  <2>1. stash' = Append(stash, m) /\ unstashed' = front /\ temps' = temps
    BY <1>6 DEF StashIt
  <2>2. CountOf(stash', E) = CountOf(stash, E) + IF m = E THEN 1 ELSE 0
    BY <1>1, <2>1, CountAppend
  <2>3. m \notin Answers /\ NoAnswers(stash) => NoAnswers(stash')
    BY <1>1, <2>1 DEF NoAnswers
  <2> HIDE DEF E
  <2> QED
    BY <1>1, <1>2, <1>3, <2>1, <2>2, <2>3
<1>7. ASSUME \/ FlushedLine(m, front, rest) \/ InvalidLine(m, front, rest)
             \/ TemperatureLine(m, front, rest) \/ CancelWork(m, front, rest)
             \/ GetResults(m, front, rest) \/ UnhandledLine(m, front, rest)
             \/ ResultLine(m, front, rest) \/ ResultsEnd(m, front, rest)
             \/ ResultsMalformed(m, front, rest) \/ Discard(m, front, rest)
             \/ SendPayload(m, front, rest)
             \/ Submitted(m, front, rest) \/ SubmitFailed(m, front, rest)
      PROVE  (Keep(front) \/ UnstashAll(front)) /\ temps' = temps
  BY <1>7 DEF FlushedLine, InvalidLine, TemperatureLine, CancelWork, GetResults, UnhandledLine,
     ResultLine, ResultsEnd, ResultsMalformed, Discard, SendPayload, Submitted, SubmitFailed,
     Finish, Silent
<1>8. StashIt(m, front, rest) => Stashes(m)
  BY DEF StashIt
<1> QED
  BY <1>4, <1>5, <1>6, <1>7, <1>8 DEF Handle
-----------------------------------------------------------------------------
(* The messages and lines left, and the answer m if it is one, while no      *)
(* answer is late: m answers what the driver waits for.                      *)
Answered(m, rest) ==
  \/ /\ behavior = "submit" /\ phase = 1 /\ NoAnswers(rest)
     /\ \/ m = Msg("OK") /\ (awaiting \/ workSubmitted = 0)
        \/ m = Msg("QFULL") /\ ~ awaiting
  \/ behavior = "submit" /\ phase = 2 /\ ~ awaiting /\ m = Msg("OKQ") /\ NoAnswers(rest)
  \/ behavior = "results" /\ phase = 1 /\ ~ awaiting /\ m = Msg("OK") /\ NoAnswers(rest)
  \/ /\ behavior = "results" /\ phase = 1 /\ ~ awaiting /\ m = Msg("RESULT")
     /\ Ends(rest, Msg("OK"), {Msg("RESULT")})

Taken(m, front, rest) ==
  /\ NoAnswers(stash) /\ NoAnswers(front)
  /\ IF m \in Answers THEN Answered(m, rest) ELSE Conversation(rest)
  /\ workSubmitted <= Len(queue) + found + CountOf(rest, Msg("RESULT"))
                        + (IF m = Msg("RESULT") THEN 1 ELSE 0) + Sending

(* The numbers that are compared. *)
LEMMA Numbers ==
  ASSUME DriverOK, DeviceOK, NEW L \in Seq(Line)
  PROVE  /\ workSubmitted \in Nat /\ Len(queue) \in Nat /\ found \in Nat
         /\ CountOf(L, Msg("RESULT")) \in Nat /\ Sending \in {0, 1}
         /\ workSubmitted <= MaxWork
<1>1. CountOf(L, Msg("RESULT")) \in Nat
  BY CountType
<1> QED
  BY <1>1, Constants DEF DriverOK, DeviceOK, Sending

(* What changes neither the conversation nor raises the count. *)
LEMMA SameConversation ==
  ASSUME NEW L, Conversation(L), UNCHANGED <<waiting, awaiting>>, lines' = L,
         workSubmitted = 0 => workSubmitted' = 0
  PROVE  Conversation(lines)'
BY DEF Conversation, waiting

LEMMA SameCount ==
  ASSUME DriverOK, DeviceOK, DriverOK', DeviceOK', NEW L \in Seq(Line), Counted(L),
         UNCHANGED <<waiting, awaiting, queue, found>>, workSubmitted' <= workSubmitted,
         CountOf(lines', Msg("RESULT")) = CountOf(L, Msg("RESULT"))
  PROVE  Counted(lines)'
<1>1. Sending' = Sending
  BY DEF Sending, waiting
<1> QED
  BY <1>1, Numbers DEF Counted, DriverOK

LEMMA Flushing ==
  ASSUME DeviceOK, NEW rest \in Seq(Line), Send(Msg("QFLUSH"), rest)
  PROVE  /\ awaiting' = FALSE /\ found' = found
         /\ CountOf(lines', Msg("RESULT")) = CountOf(rest, Msg("RESULT"))
         /\ NoAnswers(rest) => NoAnswers(lines')
         /\ \A a, S : Ends(rest, a, S) => Ends(lines', a, S)
<1>1. Len(queue) \in 0..Capacity /\ awaiting \in BOOLEAN
  BY Constants DEF DeviceOK
<1>2. \E y \in Line \ Answers : lines' = Append(rest, y) /\ awaiting' = FALSE /\ found' = found
  <2>1. Msg("INVALID") \in Line \ Answers /\ Flushed(Len(queue)) \in Line \ Answers
    BY <1>1, Messages
  <2>2. \/ awaiting' = FALSE /\ found' = found /\ lines' = Append(rest, Msg("INVALID"))
        \/ ~ awaiting /\ awaiting' = awaiting /\ found' = found /\ lines' = Append(rest, Flushed(Len(queue)))
    BY DEF Send, Msg
  <2> QED
    BY <1>1, <2>1, <2>2
<1>3. PICK y \in Line \ Answers : lines' = Append(rest, y) /\ awaiting' = FALSE /\ found' = found
  BY <1>2
<1>4. \A a, S : Ends(rest, a, S) => Ends(lines', a, S)
  BY <1>3, AddedLine
<1>5. NoAnswers(rest) => NoAnswers(lines')
  BY <1>3, AddedLine
<1>6. CountOf(lines', Msg("RESULT")) = CountOf(rest, Msg("RESULT"))
  <2>1. y # Msg("RESULT")
    BY <1>3 DEF Answers
  <2>2. CountOf(lines', Msg("RESULT")) = CountOf(rest, Msg("RESULT")) + 0
    BY <1>3, <2>1, AddedLine
  <2>3. CountOf(rest, Msg("RESULT")) \in Nat
    BY CountType
  <2> QED
    BY <2>2, <2>3
<1> QED
  BY <1>3, <1>4, <1>5, <1>6

(* Handlers of messages that answer nothing. *)
LEMMA OtherTurn ==
  ASSUME NEW m, NEW front, NEW rest, Given(m, front, rest), Taken(m, front, rest),
         DriverOK', DeviceOK', m \notin Answers,
         \/ FlushedLine(m, front, rest) \/ InvalidLine(m, front, rest)
         \/ TemperatureLine(m, front, rest) \/ CancelWork(m, front, rest)
         \/ GetResults(m, front, rest) \/ ExpireJobs(m, front, rest)
         \/ Discard(m, front, rest) \/ StashIt(m, front, rest)
  PROVE  Conversation(lines)' /\ Counted(lines)'
<1>1. /\ DriverOK /\ DeviceOK /\ rest \in Seq(Line) /\ m \in Message
      /\ m # Msg("RESULT")
  BY DEF Given, Answers
<1>2. /\ workSubmitted \in Nat /\ Len(queue) \in Nat /\ found \in Nat
      /\ CountOf(rest, Msg("RESULT")) \in Nat /\ Sending \in {0, 1}
  BY <1>1, Numbers
<1>3. Conversation(rest) /\ Counted(rest)
  BY <1>1, <1>2 DEF Taken, Counted
<1>4. ASSUME UNCHANGED <<waiting, device>>, lines' = rest,
             workSubmitted' \in Nat, workSubmitted' <= workSubmitted
      PROVE  Conversation(lines)' /\ Counted(lines)'
  <2>1. UNCHANGED <<waiting, awaiting, queue, found>> /\ (workSubmitted = 0 => workSubmitted' = 0)
    BY <1>2, <1>4 DEF device
  <2>2. Conversation(lines)'
    BY <1>3, <1>4, <2>1, SameConversation
  <2>3. Counted(lines)'
    BY <1>1, <1>3, <1>4, <2>1, SameCount
  <2> QED
    BY <2>2, <2>3
<1>5. ASSUME FlushedLine(m, front, rest) \/ InvalidLine(m, front, rest)
      PROVE  Conversation(lines)' /\ Counted(lines)'
  <2>1. FlushedLine(m, front, rest) => m.n \in Nat
    BY <1>1, Constants DEF FlushedLine, Message, Line, Timer, Msg, Flushed
  <2>2. /\ FlushedLine(m, front, rest) => Minus(workSubmitted, m.n) \in 0..workSubmitted
        /\ Minus(workSubmitted, 1) \in 0..workSubmitted
    BY <1>2, <2>1, MinusBounds
  <2>3. workSubmitted' \in 0..workSubmitted /\ UNCHANGED <<waiting, device>> /\ lines' = rest
    BY <1>5, <2>2 DEF FlushedLine, InvalidLine, Silent, SendNothing
  <2>4. workSubmitted' \in Nat /\ workSubmitted' <= workSubmitted
    BY <1>2, <2>3
  <2> QED
    BY <1>4, <2>3, <2>4
<1>6. ASSUME TemperatureLine(m, front, rest)
      PROVE  Conversation(lines)' /\ Counted(lines)'
  <2>1. CASE workSubmitted' = workSubmitted /\ SendNothing(rest)
    <3>1. UNCHANGED <<waiting, device>> /\ lines' = rest /\ workSubmitted' \in Nat
          /\ workSubmitted' <= workSubmitted
      BY <1>2, <1>6, <2>1 DEF TemperatureLine, SendNothing
    <3> QED
      BY <1>4, <3>1
  <2>2. CASE workSubmitted' = 0 /\ Send(Msg("QFLUSH"), rest)
    <3>1. /\ awaiting' = FALSE /\ found' = found
          /\ NoAnswers(rest) => NoAnswers(lines')
          /\ \A a, S : Ends(rest, a, S) => Ends(lines', a, S)
      BY <1>1, <2>2, Flushing
    <3>2. UNCHANGED waiting
      BY <1>6 DEF TemperatureLine
    <3>3. Conversation(lines)'
      BY <1>3, <2>2, <3>1, <3>2 DEF Conversation, waiting
    <3>4. lines' \in Seq(Line)
      <4>1. Msg("QFLUSH") \in Commands
        BY DEF Commands
      <4> QED
        BY <1>1, <2>2, <4>1, SendDevice
    <3>5. Len(queue') \in Nat /\ found' \in Nat /\ CountOf(lines', Msg("RESULT")) \in Nat
      <4>1. CountOf(lines', Msg("RESULT")) \in Nat
        BY <3>4, CountType
      <4> QED
        BY <4>1 DEF DeviceOK
    <3>6. Sending' \in {0, 1}
      BY DEF Sending
    <3> QED
      BY <2>2, <3>3, <3>5, <3>6 DEF Counted
  <2> QED
    BY <1>6, <2>1, <2>2 DEF TemperatureLine
<1>7. ASSUME behavior = "normal" PROVE ~ awaiting /\ NoAnswers(rest) /\ Sending = 0
  BY <1>3, <1>7 DEF Conversation, Sending
<1>8. ASSUME CancelWork(m, front, rest)
      PROVE  Conversation(lines)' /\ Counted(lines)'
  <2>1. behavior = "normal" /\ Send(Msg("QFLUSH"), rest) /\ AddWork(0)
    BY <1>8 DEF CancelWork
  <2>2. ~ awaiting' /\ NoAnswers(lines')
    BY <1>1, <1>7, <2>1, Flushing
  <2>3. \/ behavior' = "submit" /\ phase' = 0 /\ workSubmitted' = 1
        \/ behavior' = "normal" /\ workSubmitted' = 0
    BY <2>1 DEF AddWork
  <2>4. Conversation(lines)'
    BY <2>2, <2>3 DEF Conversation
  <2>5. lines' \in Seq(Line)
    <3>1. Msg("QFLUSH") \in Commands
      BY DEF Commands
    <3> QED
      BY <1>1, <2>1, <3>1, SendDevice
  <2>6. Len(queue') \in Nat /\ found' \in Nat /\ CountOf(lines', Msg("RESULT")) \in Nat
    <3>1. CountOf(lines', Msg("RESULT")) \in Nat
      BY <2>5, CountType
    <3> QED
      BY <3>1 DEF DeviceOK
  <2>7. Sending' \in {0, 1} /\ (workSubmitted' = 1 => Sending' = 1) /\ workSubmitted' \in {0, 1}
    BY <2>3 DEF Sending
  <2> QED
    BY <2>4, <2>6, <2>7 DEF Counted
<1>9. ASSUME GetResults(m, front, rest)
      PROVE  Conversation(lines)' /\ Counted(lines)'
  <2>1. /\ behavior = "normal" /\ lines' = rest /\ UNCHANGED device
        /\ workSubmitted' = workSubmitted
        /\ behavior' = "normal" \/ (behavior' = "results" /\ phase' = 0)
    BY <1>9 DEF GetResults, Silent, SendNothing
  <2>2. ~ awaiting' /\ NoAnswers(lines')
    BY <1>7, <2>1 DEF device
  <2>3. Conversation(lines)'
    BY <2>1, <2>2 DEF Conversation
  <2>4. Sending' = 0
    BY <2>1 DEF Sending
  <2> QED
    BY <1>3, <1>7, <2>1, <2>3, <2>4 DEF Counted, device
<1>10. ASSUME ExpireJobs(m, front, rest)
       PROVE  Conversation(lines)' /\ Counted(lines)'
  <2>1. behavior = "normal" /\ Send(Msg("TEMPERATURE"), rest) /\ UNCHANGED driver
    BY <1>10 DEF ExpireJobs
  <2>2. UNCHANGED device /\ lines' = Append(rest, Msg("Temp"))
    <3>1. (Msg("TEMPERATURE").msg = "payload") = FALSE /\ awaiting = FALSE
      BY <1>1, <1>7, <2>1 DEF Msg, DeviceOK
    <3> QED
      BY <2>1, <3>1 DEF Send, Msg
  <2>3. Msg("Temp") \in Line /\ Msg("Temp") \notin Answers /\ Msg("Temp") # Msg("RESULT")
    BY Messages
  <2>4. NoAnswers(lines') /\ CountOf(lines', Msg("RESULT")) = CountOf(rest, Msg("RESULT")) + 0
    BY <1>1, <1>7, <2>1, <2>2, <2>3, AddedLine
  <2>5. Conversation(lines)'
    BY <1>7, <2>1, <2>2, <2>4 DEF Conversation, driver, waiting, device
  <2>6. CountOf(lines', Msg("RESULT")) = CountOf(rest, Msg("RESULT"))
    BY <1>2, <2>4
  <2>7. UNCHANGED <<waiting, awaiting, queue, found, workSubmitted>>
    BY <2>1, <2>2 DEF driver, device
  <2>8. Counted(lines)'
    BY <1>1, <1>2, <1>3, <2>6, <2>7, SameCount
  <2> QED
    BY <2>5, <2>8
<1>11. ASSUME Discard(m, front, rest) \/ StashIt(m, front, rest)
       PROVE  Conversation(lines)' /\ Counted(lines)'
  <2>1. UNCHANGED <<waiting, device>> /\ lines' = rest /\ workSubmitted' = workSubmitted
    BY <1>11 DEF Discard, StashIt, Silent, SendNothing, driver
  <2> QED
    BY <1>2, <1>4, <2>1
<1> QED
  BY <1>5, <1>6, <1>8, <1>9, <1>10, <1>11

(* Handlers of answers. *)
LEMMA AnswerTurn ==
  ASSUME NEW m, NEW front, NEW rest, Given(m, front, rest), Taken(m, front, rest),
         DriverOK', DeviceOK', lines' \in Seq(Line), m \in Answers,
         Handle(m, front, rest)
  PROVE  Conversation(lines)' /\ Counted(lines)' /\ ~ Stashes(m)
<1>1. /\ DriverOK /\ DeviceOK /\ rest \in Seq(Line) /\ Answered(m, rest)
      /\ workSubmitted <= Len(queue) + found + CountOf(rest, Msg("RESULT"))
                            + (IF m = Msg("RESULT") THEN 1 ELSE 0) + Sending
  BY DEF Given, Taken
<1>2. /\ workSubmitted \in Nat /\ Len(queue) \in Nat /\ found \in Nat
      /\ CountOf(rest, Msg("RESULT")) \in Nat /\ Sending \in {0, 1}
  BY <1>1, Numbers
<1>3. ~ Stashes(m)
  BY <1>1, Messages DEF Answered, Stashes, Timer, Answers
<1>4. /\ ~ FlushedLine(m, front, rest) /\ ~ InvalidLine(m, front, rest)
      /\ ~ TemperatureLine(m, front, rest) /\ ~ CancelWork(m, front, rest)
      /\ ~ GetResults(m, front, rest) /\ ~ ExpireJobs(m, front, rest)
      /\ ~ Discard(m, front, rest) /\ ~ StashIt(m, front, rest)
      /\ ~ UnhandledLine(m, front, rest) /\ ~ SubmitFailed(m, front, rest)
  <2>1. m.msg # "FLUSHED" /\ m \notin {Msg("INVALID"), Msg("Temp"), Msg("CancelWork"),
                                       Msg("GetResults"), Msg("ExpireJobs")}
    BY Messages DEF Answers, Msg
  <2>2. ~ UnhandledLine(m, front, rest)
    BY <1>1 DEF UnhandledLine, Answered
  <2>3. ~ SubmitFailed(m, front, rest)
    BY <1>1, Messages DEF SubmitFailed, Answered
  <2>4. ~ StashIt(m, front, rest)
    BY <1>3 DEF StashIt
  <2> QED
    BY <2>1, <2>2, <2>3, <2>4 DEF FlushedLine, InvalidLine, TemperatureLine, CancelWork,
       GetResults, ExpireJobs, Discard
<1>5. CASE ResultLine(m, front, rest)
  <2>1. /\ behavior = "results" /\ phase = 1 /\ m = Msg("RESULT") /\ lines' = rest
        /\ UNCHANGED <<waiting, device>> /\ workSubmitted' = Minus(workSubmitted, 1)
    BY <1>5 DEF ResultLine, Silent, SendNothing
  <2>2. ~ awaiting /\ Ends(rest, Msg("OK"), {Msg("RESULT")})
    BY <1>1, <2>1, Messages DEF Answered
  <2>3. Conversation(lines)'
    BY <2>1, <2>2 DEF Conversation, waiting, device
  <2>4. Sending = 0 /\ Sending' = 0
    BY <2>1 DEF Sending, waiting
  <2>5. workSubmitted' <= Len(queue) + found + CountOf(rest, Msg("RESULT"))
    <3>1. workSubmitted' = 0 \/ workSubmitted' = workSubmitted - 1
      BY <1>2, <2>1, MinusBounds
    <3> QED
      BY <1>1, <1>2, <2>1, <2>4, <3>1
  <2>6. Counted(lines)'
    BY <1>2, <2>1, <2>4, <2>5 DEF Counted, device
  <2> QED
    BY <1>3, <2>3, <2>6
<1>6. CASE ResultsEnd(m, front, rest)
  <2>1. /\ behavior = "results" /\ phase = 1 /\ m = Msg("OK") /\ lines' = rest
        /\ UNCHANGED device /\ AddWork(workSubmitted)
    BY <1>6 DEF ResultsEnd, SendNothing
  <2>2. ~ awaiting /\ NoAnswers(rest)
    BY <1>1, <2>1, Messages DEF Answered
  <2>3. \/ behavior' = "submit" /\ phase' = 0 /\ workSubmitted' = workSubmitted + 1
        \/ behavior' = "normal" /\ workSubmitted' = workSubmitted
    BY <2>1 DEF AddWork
  <2>4. Conversation(lines)'
    BY <2>1, <2>2, <2>3 DEF Conversation, device
  <2>5. Sending = 0 /\ (behavior' = "submit" /\ phase' = 0 => Sending' = 1) /\ Sending' \in {0, 1}
    BY <2>1, <2>2 DEF Sending
  <2>6. workSubmitted <= Len(queue) + found + CountOf(rest, Msg("RESULT"))
    BY <1>1, <1>2, <2>1, <2>5, Messages
  <2>7. Counted(lines)'
    BY <1>2, <2>1, <2>3, <2>5, <2>6 DEF Counted, device
  <2> QED
    BY <1>3, <2>4, <2>7
<1>7. CASE ResultsMalformed(m, front, rest)
  BY <1>1, <1>7, Messages DEF ResultsMalformed, Answered
<1>8. CASE SendPayload(m, front, rest)
  <2>1. /\ behavior = "submit" /\ phase = 1 /\ m = Msg("OK") /\ behavior' = behavior /\ phase' = 2
        /\ workSubmitted' = workSubmitted /\ Send([msg |-> "payload", job |-> submitting], rest)
    BY <1>8 DEF SendPayload
  <2>2. NoAnswers(rest) /\ (awaiting \/ workSubmitted = 0)
    BY <1>1, <2>1, Messages DEF Answered
  <2>3. \/ /\ awaiting /\ awaiting' = FALSE /\ found' = found
           /\ queue' = Append(queue, submitting) /\ lines' = Append(rest, Msg("OKQ"))
        \/ /\ ~ awaiting /\ awaiting' = FALSE /\ lines' = Append(rest, Msg("INVALID"))
    <3>1. ([msg |-> "payload", job |-> submitting].msg = "payload") = TRUE
      OBVIOUS
    <3> QED
      BY <1>1, <2>1, <3>1 DEF Send, DeviceOK
  <2>4. Sending' = 0
    BY <2>1, <2>3 DEF Sending
  <2>5. /\ Len(queue') \in Nat /\ found' \in Nat
        /\ CountOf(lines', Msg("RESULT")) \in Nat
    <3>1. CountOf(lines', Msg("RESULT")) \in Nat
      BY CountType
    <3> QED
      BY <3>1 DEF DeviceOK
  <2>6. CASE /\ awaiting /\ awaiting' = FALSE /\ found' = found
             /\ queue' = Append(queue, submitting) /\ lines' = Append(rest, Msg("OKQ"))
    <3>1. Ends(lines', Msg("OKQ"), {}) /\ CountOf(lines', Msg("RESULT")) = CountOf(rest, Msg("RESULT")) + 0
      BY <1>1, <2>2, <2>6, AddedLine, Messages
    <3>2. Conversation(lines)'
      BY <2>1, <2>6, <3>1 DEF Conversation
    <3>3. Sending = 1 /\ Len(queue') = Len(queue) + 1
      BY <1>1, <2>1, <2>6 DEF Sending, DeviceOK
    <3>4. Counted(lines)'
      BY <1>1, <1>2, <2>1, <2>4, <2>6, <3>1, <3>3, Messages DEF Counted
    <3> QED
      BY <1>3, <3>2, <3>4
  <2>7. CASE ~ awaiting /\ awaiting' = FALSE /\ lines' = Append(rest, Msg("INVALID"))
    <3>1. NoAnswers(lines') /\ workSubmitted' = 0
      BY <1>1, <2>1, <2>2, <2>7, AddedLine, Messages
    <3>2. Conversation(lines)'
      BY <2>1, <2>7, <3>1 DEF Conversation
    <3>3. Counted(lines)'
      BY <2>4, <2>5, <3>1 DEF Counted
    <3> QED
      BY <1>3, <3>2, <3>3
  <2> QED
    BY <2>3, <2>6, <2>7
<1>9. CASE Submitted(m, front, rest)
  <2>1. /\ behavior = "submit" /\ (m = Msg("QFULL") \/ (phase = 2 /\ m = Msg("OKQ")))
        /\ behavior' = "normal" /\ UNCHANGED <<workSubmitted, device>> /\ lines' = rest
    BY <1>9 DEF Submitted, SendNothing, Finish
  <2>2. ~ awaiting /\ NoAnswers(rest) /\ phase # 0
    BY <1>1, <2>1, Messages DEF Answered
  <2>3. Conversation(lines)'
    BY <2>1, <2>2 DEF Conversation, device
  <2>4. Sending = 0 /\ Sending' = 0 /\ m # Msg("RESULT")
    BY <2>1, <2>2, Messages DEF Sending
  <2>5. Counted(lines)'
    BY <1>1, <1>2, <2>1, <2>4 DEF Counted, device
  <2> QED
    BY <1>3, <2>3, <2>5
<1> QED
  BY <1>4, <1>5, <1>6, <1>7, <1>8, <1>9 DEF Handle

(* A handler keeps driver and device in turn. *)
LEMMA HandleTurn ==
  ASSUME NEW m, NEW front, NEW rest, Given(m, front, rest), Taken(m, front, rest),
         Handle(m, front, rest)
  PROVE  InTurn'
<1>1. DriverOK' /\ DeviceOK' /\ lines' \in Seq(Line)
  BY HandleDriver, HandleDevice
<1>2. Conversation(lines)' /\ Counted(lines)' /\ ~ (m \in Answers /\ Stashes(m))
  <2>1. CASE m \in Answers
    BY <1>1, <2>1, AnswerTurn
  <2>2. CASE m \notin Answers
    <3>1. /\ ~ UnhandledLine(m, front, rest) /\ ~ ResultLine(m, front, rest)
          /\ ~ ResultsEnd(m, front, rest) /\ ~ ResultsMalformed(m, front, rest)
          /\ ~ SendPayload(m, front, rest) /\ ~ Submitted(m, front, rest)
          /\ ~ SubmitFailed(m, front, rest)
      <4>1. {Msg("OK"), Msg("OKQ"), Msg("QFULL"), Msg("RESULT")} \subseteq Answers
        BY DEF Answers
      <4>2. ~ SubmitFailed(m, front, rest)
        <5>1. Given(m, front, rest) => phase \in 0..2
          BY DEF Given, DriverOK
        <5> QED
          BY <2>2, <5>1 DEF SubmitFailed
      <4> QED
        BY <2>2, <4>1, <4>2 DEF UnhandledLine, ResultLine, ResultsEnd, ResultsMalformed,
           SendPayload, Submitted
    <3> QED
      BY <1>1, <2>2, <3>1, OtherTurn DEF Handle
  <2> QED
    BY <2>1, <2>2
<1>3. NoAnswers(stash') /\ NoAnswers(unstashed')
  BY <1>2, HandleMail DEF Taken
<1>4. NoAnswers(stash)' /\ NoAnswers(unstashed)'
  BY <1>3 DEF NoAnswers
<1> QED
  BY <1>2, <1>4 DEF InTurn
-----------------------------------------------------------------------------
(* Everything but the mail, and the mail.                                    *)
LEMMA Parts ==
  ASSUME IInv
  PROVE  /\ DriverOK /\ DeviceOK /\ cancels \in 0..MaxJobs /\ cancels <= job /\ lates \in 0..MaxLate
         /\ stash \in Seq(Message) /\ unstashed \in Seq(Message) /\ lines \in Seq(Line)
         /\ temps \in 0..MaxTemps /\ Readings(unstashed) <= MaxTemps
         /\ lates = 0 => InTurn
BY DEF IInv, TypeOK, Sane, DriverOK, DeviceOK

LEMMA Together ==
  ASSUME DriverOK', DeviceOK', (cancels \in 0..MaxJobs)', (cancels <= job)', (lates \in 0..MaxLate)',
         (stash \in Seq(Message))', (unstashed \in Seq(Message))', (lines \in Seq(Line))',
         (temps \in 0..MaxTemps)', (Readings(unstashed) <= MaxTemps)', lates' = 0 => InTurn'
  PROVE  IInv'
BY DEF IInv, TypeOK, Sane, DriverOK, DeviceOK

LEMMA Handled ==
  ASSUME IInv, NEW m, NEW front, NEW rest, Given(m, front, rest),
         lates = 0 => Taken(m, front, rest), Handle(m, front, rest),
         cancels' \in 0..MaxJobs, cancels' <= job, lates' = lates
  PROVE  IInv'
<1>1. DriverOK' /\ DeviceOK' /\ lines' \in Seq(Line) /\ job' = job
  BY HandleDriver, HandleDevice
<1>2. /\ stash' \in Seq(Message) /\ unstashed' \in Seq(Message) /\ temps' \in 0..MaxTemps
      /\ Readings(unstashed)' <= MaxTemps
  BY HandleMail
<1>3. lates' = 0 => InTurn'
  BY HandleTurn
<1> QED
  BY <1>1, <1>2, <1>3, Parts, Together

LEMMA NoExpiry ==
  CountOf(<<>>, Msg("ExpireJobs")) = 0 /\ NoAnswers(<<>>) /\ <<>> \in Seq(Message)
<1>1. <<>> \in Seq(Message)
  OBVIOUS
<1>2. CountOf(<<>>, Msg("ExpireJobs")) = 0
  BY <1>1, CountType
<1> QED
  BY <1>1, <1>2 DEF NoAnswers

LEMMA MailNumbers ==
  ASSUME IInv
  PROVE  /\ temps \in Nat /\ CountOf(stash, Msg("ExpireJobs")) \in Nat
         /\ CountOf(<<>>, Msg("ExpireJobs")) = 0
<1>1. stash \in Seq(Message) /\ temps \in 0..MaxTemps
  BY Parts
<1>2. CountOf(stash, Msg("ExpireJobs")) \in Nat
  BY <1>1, CountType
<1> QED
  BY <1>1, <1>2, NoExpiry, Constants

(* What is needed of m when it is no line and no answer. *)
LEMMA OtherTaken ==
  ASSUME IInv, NEW m, m \notin Answers, NEW front, NoAnswers(front), lates = 0
  PROVE  Taken(m, front, lines)
<1>1. InTurn /\ DriverOK /\ DeviceOK /\ lines \in Seq(Line)
  BY Parts
<1>2. /\ workSubmitted \in Nat /\ Len(queue) \in Nat /\ found \in Nat
      /\ CountOf(lines, Msg("RESULT")) \in Nat /\ Sending \in {0, 1}
  BY <1>1, Numbers
<1>3. m # Msg("RESULT")
  BY DEF Answers
<1> QED
  BY <1>1, <1>2, <1>3 DEF Taken, InTurn, Counted

LEMMA ReceiveUnstashedIInv ==
  ASSUME IInv, ReceiveUnstashed
  PROVE  IInv'
<1> DEFINE m == Head(unstashed)
           front == Tail(unstashed)
           E == Msg("ExpireJobs")
<1>1. /\ unstashed \in Seq(Message) /\ unstashed # <<>> /\ Running
      /\ Handle(m, front, lines) /\ cancels' = cancels /\ lates' = lates
  BY Parts DEF ReceiveUnstashed
<1>2. /\ m \in Message /\ front \in Seq(Message) /\ Len(unstashed) \in Nat /\ Len(unstashed) > 0
      /\ m = unstashed[1] /\ Len(front) = Len(unstashed) - 1
      /\ \A i \in 1 .. Len(unstashed) - 1 : front[i] = unstashed[i + 1]
  BY <1>1
<1>3. CountOf(unstashed, E) = CountOf(front, E) + IF m = E THEN 1 ELSE 0
  BY <1>1, CountSplit
<1>4. CountOf(front, E) \in Nat /\ CountOf(stash, E) \in Nat /\ temps \in Nat
  <2>1. CountOf(front, E) \in Nat
    BY <1>2, CountType
  <2> QED
    BY <2>1, MailNumbers
<1>5. NoAnswers(unstashed) => m \notin Answers /\ NoAnswers(front)
  BY <1>2 DEF NoAnswers
<1> HIDE DEF m, front, E
<1>6. Readings(front) + (IF m = E THEN 1 ELSE 0) = Readings(unstashed)
  BY <1>3, <1>4 DEF Readings, E
<1>7. Given(m, front, lines)
  BY <1>2, <1>6, Parts DEF Given, E
<1>8. lates = 0 => Taken(m, front, lines)
  BY <1>5, Parts, OtherTaken DEF InTurn
<1> QED
  BY <1>1, <1>7, <1>8, Parts, Handled

LEMMA ReceiveLineIInv ==
  ASSUME IInv, ReceiveLine
  PROVE  IInv'
<1> DEFINE m == Head(lines)
           rest == Tail(lines)
           R == Msg("RESULT")
<1>1. /\ lines \in Seq(Line) /\ lines # <<>> /\ Running /\ unstashed = <<>>
      /\ Handle(m, <<>>, rest) /\ cancels' = cancels /\ lates' = lates
  BY Parts DEF ReceiveLine
<1>2. m \in Line /\ rest \in Seq(Line) /\ m \in Message /\ m # Msg("ExpireJobs")
  BY <1>1, Messages
<1>3. CountOf(lines, R) = CountOf(rest, R) + IF m = R THEN 1 ELSE 0
  BY <1>1, CountSplit
<1>4. /\ NoAnswers(lines) => m \notin Answers /\ NoAnswers(rest)
      /\ \A a \in Answers : \A S :
           /\ Ends(lines, a, S) /\ m \notin Answers => Ends(rest, a, S)
           /\ Ends(lines, a, S) /\ m \in Answers => m \in S \cup {a}
           /\ Ends(lines, a, S) /\ m = a /\ a \notin S => NoAnswers(rest)
           /\ Ends(lines, a, S) /\ m # a => Ends(rest, a, S)
  BY <1>1, TakenLine DEF Answers
<1> HIDE DEF m, rest
<1>5. Given(m, <<>>, rest)
  <2>1. Readings(<<>>) <= MaxTemps
    BY <1>1, Parts
  <2>2. Readings(<<>>) + 0 = Readings(<<>>)
    <3>1. /\ temps \in Nat /\ CountOf(stash, Msg("ExpireJobs")) \in Nat
          /\ CountOf(<<>>, Msg("ExpireJobs")) = 0
      BY MailNumbers
    <3> QED
      BY <3>1 DEF Readings
  <2> QED
    BY <1>2, <2>1, <2>2, NoExpiry, Parts DEF Given
<1>6. ASSUME lates = 0 PROVE Taken(m, <<>>, rest)
  <2>1. InTurn /\ DriverOK /\ DeviceOK
    BY <1>6, Parts
  <2>2. CASE m \in Answers
    <3>1. {Msg("OK"), Msg("QFULL"), Msg("OKQ")} \subseteq Answers
      BY DEF Answers
    <3>2. ASSUME behavior = "submit" /\ phase = 1 /\ Ends(lines, Msg("OK"), {}) /\ (awaiting \/ workSubmitted = 0)
          PROVE  Answered(m, rest)
      <4>1. Msg("OK") \in Answers /\ Ends(lines, Msg("OK"), {})
        BY <3>1, <3>2
      <4>2. m = Msg("OK")
        BY <1>4, <2>2, <4>1
      <4>3. NoAnswers(rest)
        BY <1>4, <4>1, <4>2
      <4> QED
        BY <3>2, <4>2, <4>3 DEF Answered
    <3>3. ASSUME behavior = "submit" /\ phase = 1 /\ Ends(lines, Msg("QFULL"), {}) /\ ~ awaiting
          PROVE  Answered(m, rest)
      <4>1. Msg("QFULL") \in Answers /\ Ends(lines, Msg("QFULL"), {})
        BY <3>1, <3>3
      <4>2. m = Msg("QFULL")
        BY <1>4, <2>2, <4>1
      <4>3. NoAnswers(rest)
        BY <1>4, <4>1, <4>2
      <4> QED
        BY <3>3, <4>2, <4>3 DEF Answered
    <3>4. ASSUME behavior = "submit" /\ phase = 2 /\ ~ awaiting /\ Ends(lines, Msg("OKQ"), {})
          PROVE  Answered(m, rest)
      <4>1. Msg("OKQ") \in Answers /\ Ends(lines, Msg("OKQ"), {})
        BY <3>1, <3>4
      <4>2. m = Msg("OKQ")
        BY <1>4, <2>2, <4>1
      <4>3. NoAnswers(rest)
        BY <1>4, <4>1, <4>2
      <4> QED
        BY <3>4, <4>2, <4>3 DEF Answered
    <3>5. ASSUME behavior = "results" /\ phase = 1 /\ ~ awaiting /\ Ends(lines, Msg("OK"), {R})
          PROVE  Answered(m, rest)
      <4>1. m = Msg("OK") \/ m = R
        BY <1>4, <2>2, <3>1, <3>5
      <4>2. Msg("OK") # R
        BY Messages
      <4>3. m = Msg("OK") => NoAnswers(rest)
        BY <1>4, <3>1, <3>5, <4>2
      <4>4. m = R => Ends(rest, Msg("OK"), {R})
        BY <1>4, <3>1, <3>5, <4>2
      <4> QED
        BY <3>5, <4>1, <4>3, <4>4 DEF Answered
    <3>6. ~ NoAnswers(lines)
      BY <1>4, <2>2
    <3>7. Answered(m, rest)
      BY <2>1, <3>2, <3>3, <3>4, <3>5, <3>6 DEF InTurn, Conversation
    <3> QED
      BY <1>3, <2>1, <2>2, <3>7, NoExpiry, Numbers, <1>1, <1>2 DEF Taken, InTurn, Counted
  <2>3. CASE m \notin Answers
    <3>1. {Msg("OK"), Msg("QFULL"), Msg("OKQ")} \subseteq Answers
      BY DEF Answers
    <3>2. NoAnswers(lines) => NoAnswers(rest)
      BY <1>4
    <3>3. \A a \in {Msg("OK"), Msg("QFULL"), Msg("OKQ")} : \A S : Ends(lines, a, S) => Ends(rest, a, S)
      BY <1>4, <2>3, <3>1
    <3>4. Conversation(rest)
      BY <2>1, <3>2, <3>3 DEF InTurn, Conversation
    <3> QED
      BY <1>3, <2>1, <2>3, <3>4, NoExpiry, Numbers, <1>1, <1>2 DEF Taken, InTurn, Counted
  <2> QED
    BY <2>2, <2>3
<1> QED
  BY <1>1, <1>5, <1>6, Parts, Handled

LEMMA ReceiveCancelWorkIInv ==
  ASSUME IInv, ReceiveCancelWork
  PROVE  IInv'
<1> DEFINE m == Msg("CancelWork")
<1>1. /\ Running /\ unstashed = <<>> /\ cancels > 0 /\ cancels' = cancels - 1 /\ lates' = lates
      /\ Handle(m, <<>>, lines)
  BY DEF ReceiveCancelWork
<1>2. m \in Message /\ m \notin Answers /\ m # Msg("ExpireJobs")
  BY Messages DEF Message
<1>3. cancels' \in 0..MaxJobs /\ cancels' <= job
  BY <1>1, Parts, Constants DEF DriverOK
<1> HIDE DEF m
<1>4. Given(m, <<>>, lines)
  <2>1. temps \in Nat /\ CountOf(stash, Msg("ExpireJobs")) \in Nat
        /\ CountOf(<<>>, Msg("ExpireJobs")) = 0
    BY MailNumbers
  <2>2. Readings(<<>>) + 0 <= MaxTemps
    BY <1>1, <2>1, Parts DEF Readings
  <2> QED
    BY <1>2, <2>2, NoExpiry, Parts DEF Given
<1>5. lates = 0 => Taken(m, <<>>, lines)
  BY <1>2, NoExpiry, OtherTaken
<1> QED
  BY <1>1, <1>3, <1>4, <1>5, Handled

LEMMA ReceiveTimerIInv ==
  ASSUME IInv, NEW m \in Timer, ReceiveTimer(m)
  PROVE  IInv'
<1>1. /\ Running /\ unstashed = <<>> /\ cancels' = cancels /\ lates' = lates
      /\ Handle(m, <<>>, lines) /\ \A i \in DOMAIN stash : stash[i] # m
      /\ m = Msg("ExpireJobs") => temps < MaxTemps
  BY DEF ReceiveTimer
<1>2. m \in Message /\ m \notin Answers
  BY Messages DEF Message, Timer
<1>3. Given(m, <<>>, lines)
  <2>1. /\ temps \in Nat /\ CountOf(stash, Msg("ExpireJobs")) \in Nat
        /\ CountOf(<<>>, Msg("ExpireJobs")) = 0
    BY MailNumbers
  <2>2. m = Msg("ExpireJobs") => CountOf(stash, Msg("ExpireJobs")) = 0
    <3>1. DOMAIN stash = 1..Len(stash) /\ stash \in Seq(Message)
      BY Parts
    <3> QED
      BY <1>1, <3>1, CountType
  <2>3. Readings(<<>>) <= MaxTemps
    BY <1>1, Parts
  <2>4. Readings(<<>>) + (IF m = Msg("ExpireJobs") THEN 1 ELSE 0) <= MaxTemps
    BY <1>1, <2>1, <2>2, <2>3, Constants DEF Readings
  <2> QED
    BY <1>2, <2>4, NoExpiry, Parts DEF Given
<1>4. lates = 0 => Taken(m, <<>>, lines)
  BY <1>2, NoExpiry, OtherTaken
<1> QED
  BY <1>1, <1>3, <1>4, Parts, Handled

LEMMA NewWorkIInv ==
  ASSUME IInv, NewWork
  PROVE  IInv'
<1>1. /\ DriverOK /\ DeviceOK /\ job < MaxJobs /\ job' = job + 1 /\ cancels' = cancels + 1
      /\ UNCHANGED <<waiting, workSubmitted, overHeating, stash, unstashed, lines, device, events>>
  BY Parts DEF NewWork
<1>2. DriverOK' /\ DeviceOK'
  BY <1>1, Constants DEF DriverOK, DeviceOK, waiting, device
<1>3. (cancels \in 0..MaxJobs)' /\ (cancels <= job)'
  BY <1>1, Parts, Constants DEF DriverOK
<1>4. (lates \in 0..MaxLate)' /\ (temps \in 0..MaxTemps)' /\ (Readings(unstashed) <= MaxTemps)'
      /\ (stash \in Seq(Message))' /\ (unstashed \in Seq(Message))' /\ (lines \in Seq(Line))'
  BY <1>1, Parts DEF events, Readings
<1>5. lates' = 0 => InTurn'
  BY <1>1, Parts DEF InTurn, NoAnswers, Conversation, Counted, Sending, waiting, device, events
<1> QED
  BY <1>2, <1>3, <1>4, <1>5, Together

LEMMA PostInitIInv ==
  ASSUME IInv, PostInit
  PROVE  IInv'
<1>1. /\ DriverOK /\ DeviceOK /\ behavior = "init" /\ AddWork(workSubmitted)
      /\ UNCHANGED <<overHeating, job, mail, lines, device, events>>
  BY Parts DEF PostInit
<1>2. DriverOK'
  <2>1. workSubmitted \in 0..MaxWork /\ overHeating' \in BOOLEAN
    BY <1>1 DEF DriverOK
  <2> QED
    BY <1>1, <2>1, WorkAdded
<1>3. DeviceOK'
  BY <1>1 DEF DeviceOK, device
<1>4. (lates \in 0..MaxLate)' /\ (temps \in 0..MaxTemps)' /\ (Readings(unstashed) <= MaxTemps)'
      /\ (stash \in Seq(Message))' /\ (unstashed \in Seq(Message))' /\ (lines \in Seq(Line))'
      /\ (cancels \in 0..MaxJobs)' /\ (cancels <= job)'
  BY <1>1, Parts DEF events, Readings, mail
<1>5. ASSUME lates' = 0 PROVE InTurn'
  <2>1. InTurn /\ lines' = lines /\ UNCHANGED <<stash, unstashed, queue, found, awaiting>>
    BY <1>1, <1>5, Parts DEF events, mail, device
  <2>2. ~ awaiting /\ NoAnswers(lines)
    BY <1>1, <2>1 DEF InTurn, Conversation
  <2>3. \/ behavior' = "submit" /\ phase' = 0 /\ workSubmitted' = workSubmitted + 1
        \/ behavior' = "normal" /\ workSubmitted' = workSubmitted
    BY <1>1 DEF AddWork
  <2>4. Conversation(lines)'
    BY <2>1, <2>2, <2>3 DEF Conversation, NoAnswers
  <2>5. Sending = 0 /\ (behavior' = "submit" /\ phase' = 0 => Sending' = 1) /\ Sending' \in {0, 1}
    BY <1>1 DEF Sending
  <2>6. /\ workSubmitted \in Nat /\ Len(queue) \in Nat /\ found \in Nat
        /\ CountOf(lines, Msg("RESULT")) \in Nat
    BY <1>1, Numbers, Parts
  <2>7. Counted(lines)'
    BY <2>1, <2>3, <2>5, <2>6 DEF Counted, InTurn
  <2> QED
    BY <2>1, <2>4, <2>7 DEF InTurn, NoAnswers
<1> QED
  BY <1>2, <1>3, <1>4, <1>5, Together

LEMMA StartResIInv ==
  ASSUME IInv, StartRes
  PROVE  IInv'
<1>1. /\ DriverOK /\ DeviceOK /\ lines \in Seq(Line) /\ behavior = "results" /\ phase = 0
      /\ phase' = 1 /\ Send(Msg("QRES"), lines)
      /\ UNCHANGED <<behavior, submitting, workSubmitted, overHeating, job, mail, events>>
  BY Parts DEF StartRes
<1>2. DriverOK'
  BY <1>1 DEF DriverOK
<1>3. DeviceOK' /\ lines' \in Seq(Line)
  <2>1. Msg("QRES") \in Commands
    BY DEF Commands
  <2> QED
    BY <1>1, <2>1, SendDevice
<1>4. (lates \in 0..MaxLate)' /\ (temps \in 0..MaxTemps)' /\ (Readings(unstashed) <= MaxTemps)'
      /\ (stash \in Seq(Message))' /\ (unstashed \in Seq(Message))'
      /\ (cancels \in 0..MaxJobs)' /\ (cancels <= job)'
  BY <1>1, Parts DEF events, Readings, mail
<1>5. ASSUME lates' = 0 PROVE InTurn'
  <2>1. InTurn /\ UNCHANGED <<stash, unstashed>>
    BY <1>1, <1>5, Parts DEF events, mail
  <2>2. awaiting = FALSE /\ NoAnswers(lines)
    BY <1>1, <2>1 DEF InTurn, Conversation, DeviceOK
  <2>3. (Msg("QRES").msg = "payload") = FALSE
    BY DEF Msg
  <2>4. /\ found' = 0 /\ UNCHANGED <<queue, awaiting>>
        /\ lines' = lines \o [n \in 1..found |-> Msg("RESULT")] \o <<Msg("OK")>>
    BY <1>1, <2>2, <2>3 DEF Send, Msg
  <2>5. found \in Nat
    BY <1>1 DEF DeviceOK
  <2>6. /\ Ends(lines', Msg("OK"), {Msg("RESULT")})
        /\ CountOf(lines', Msg("RESULT")) = CountOf(lines, Msg("RESULT")) + found
    BY <1>1, <2>2, <2>4, <2>5, AddedReport
  <2>7. Conversation(lines)'
    BY <1>1, <2>2, <2>4, <2>6 DEF Conversation
  <2>8. Sending = 0 /\ Sending' = 0
    BY <1>1 DEF Sending
  <2>9. /\ workSubmitted \in Nat /\ Len(queue) \in Nat
        /\ CountOf(lines, Msg("RESULT")) \in Nat
    BY <1>1, Numbers
  <2>10. Counted(lines)'
    BY <1>1, <2>1, <2>4, <2>5, <2>6, <2>8, <2>9 DEF Counted, InTurn
  <2> QED
    BY <2>1, <2>7, <2>10 DEF InTurn, NoAnswers
<1> QED
  BY <1>2, <1>3, <1>4, <1>5, Together

LEMMA StartPhase1IInv ==
  ASSUME IInv, StartPhase1
  PROVE  IInv'
<1>1. /\ DriverOK /\ DeviceOK /\ lines \in Seq(Line) /\ behavior = "submit" /\ phase = 0
      /\ phase' = 1 /\ Send(Msg("QJOB"), lines)
      /\ UNCHANGED <<behavior, submitting, workSubmitted, overHeating, job, mail, events>>
  BY Parts DEF StartPhase1
<1>2. DriverOK'
  BY <1>1 DEF DriverOK
<1>3. DeviceOK' /\ lines' \in Seq(Line)
  <2>1. Msg("QJOB") \in Commands
    BY DEF Commands
  <2> QED
    BY <1>1, <2>1, SendDevice
<1>4. (lates \in 0..MaxLate)' /\ (temps \in 0..MaxTemps)' /\ (Readings(unstashed) <= MaxTemps)'
      /\ (stash \in Seq(Message))' /\ (unstashed \in Seq(Message))'
      /\ (cancels \in 0..MaxJobs)' /\ (cancels <= job)'
  BY <1>1, Parts DEF events, Readings, mail
<1>5. ASSUME lates' = 0 PROVE InTurn'
  <2>1. InTurn /\ UNCHANGED <<stash, unstashed>>
    BY <1>1, <1>5, Parts DEF events, mail
  <2>2. awaiting = FALSE /\ NoAnswers(lines)
    BY <1>1, <2>1 DEF InTurn, Conversation, DeviceOK
  <2>3. (Msg("QJOB").msg = "payload") = FALSE
    BY DEF Msg
  <2>4. /\ awaiting' = (Len(queue) < Capacity) /\ UNCHANGED <<queue, found>>
        /\ lines' = Append(lines, Msg(IF awaiting' THEN "OK" ELSE "QFULL"))
    BY <1>1, <2>2, <2>3 DEF Send, Msg
  <2>5. /\ workSubmitted \in Nat /\ Len(queue) \in Nat /\ found \in Nat
        /\ CountOf(lines, Msg("RESULT")) \in Nat /\ workSubmitted <= MaxWork
    BY <1>1, Numbers
  <2>6. Sending = 1
    BY <1>1 DEF Sending
  <2>7. CASE Len(queue) < Capacity
    <3>1. awaiting' = TRUE
      BY <2>4, <2>7
    <3>2. lines' = Append(lines, Msg("OK"))
      BY <2>4, <3>1
    <3>3. /\ Ends(lines', Msg("OK"), {})
          /\ CountOf(lines', Msg("RESULT")) = CountOf(lines, Msg("RESULT")) + 0
      BY <1>1, <2>2, <3>2, AddedLine, Messages
    <3>4. Conversation(lines)'
      BY <1>1, <3>1, <3>3 DEF Conversation
    <3>5. Sending' = 1
      BY <1>1, <3>1 DEF Sending
    <3>6. Counted(lines)'
      BY <1>1, <2>1, <2>4, <2>5, <2>6, <3>3, <3>5 DEF Counted, InTurn
    <3> QED
      BY <2>1, <3>4, <3>6 DEF InTurn, NoAnswers
  <2>8. CASE ~ (Len(queue) < Capacity)
    <3>1. (Len(queue) < Capacity) = FALSE
      BY <2>8
    <3>2. awaiting' = FALSE
      BY <2>4, <3>1, Zenon
    <3>3. lines' = Append(lines, Msg("QFULL"))
      BY <2>4, <3>2
    <3>4. /\ Ends(lines', Msg("QFULL"), {})
          /\ CountOf(lines', Msg("RESULT")) = CountOf(lines, Msg("RESULT")) + 0
      BY <1>1, <2>2, <3>3, AddedLine, Messages
    <3>5. Conversation(lines)'
      BY <1>1, <3>2, <3>4 DEF Conversation
    <3>6. Sending' = 0
      BY <1>1, <3>2 DEF Sending
    <3>7. workSubmitted <= Len(queue)
      BY <2>5, <2>8, Constants
    <3>8. Counted(lines)'
      BY <1>1, <2>4, <2>5, <3>4, <3>6, <3>7 DEF Counted
    <3> QED
      BY <2>1, <3>5, <3>8 DEF InTurn, NoAnswers
  <2> QED
    BY <2>7, <2>8
<1> QED
  BY <1>2, <1>3, <1>4, <1>5, Together

(* A timeout that no answer can overtake does not end a conversation.        *)
LEMMA QuietTimeout ==
  ASSUME InTurn, Quiet, phase # 0
  PROVE  /\ behavior # "results"
         /\ behavior = "submit" => ~ awaiting /\ workSubmitted = 0
<1>1. \A a, S : ~ Ends(lines, a, S)
  <2>1. lines = <<>>
    BY DEF Quiet
  <2> QED
    BY <2>1 DEF Ends
<1> QED
  BY <1>1 DEF InTurn, Conversation

LEMMA SubmitTimeoutIInv ==
  ASSUME IInv, SubmitTimeout
  PROVE  IInv'
<1>1. /\ DriverOK /\ DeviceOK /\ behavior = "submit" /\ phase # 0 /\ TimesOut
      /\ UnstashAll(unstashed) /\ lines' = lines /\ UNCHANGED device /\ behavior' = "normal"
      /\ UNCHANGED <<phase, submitting, workSubmitted, overHeating, job, temps, cancels>>
  BY Parts DEF SubmitTimeout, SendNothing, Finish
<1>2. DriverOK' /\ DeviceOK'
  BY <1>1 DEF DriverOK, DeviceOK, device
<1>3. /\ (lates \in 0..MaxLate)' /\ (lates' = 0 => lates = 0 /\ Quiet)
  BY <1>1, Parts, Constants DEF TimesOut
<1>4. /\ stash' \in Seq(Message) /\ unstashed' \in Seq(Message)
      /\ NoAnswers(stash) /\ NoAnswers(unstashed) => NoAnswers(stash') /\ NoAnswers(unstashed')
      /\ CountOf(stash', Msg("ExpireJobs")) + CountOf(unstashed', Msg("ExpireJobs"))
           = CountOf(stash, Msg("ExpireJobs")) + CountOf(unstashed, Msg("ExpireJobs"))
  BY <1>1, Parts, MailMoved
<1>5. (Readings(unstashed) <= MaxTemps)'
  <2>1. /\ CountOf(stash, Msg("ExpireJobs")) \in Nat /\ CountOf(unstashed, Msg("ExpireJobs")) \in Nat
        /\ CountOf(stash', Msg("ExpireJobs")) \in Nat /\ CountOf(unstashed', Msg("ExpireJobs")) \in Nat
    <3>1. stash \in Seq(Message) /\ unstashed \in Seq(Message)
      BY Parts
    <3> QED
      BY <1>4, <3>1, CountType
  <2>2. temps' = temps /\ temps \in Nat /\ Readings(unstashed) <= MaxTemps
    BY <1>1, Parts, MailNumbers
  <2> QED
    BY <1>4, <2>1, <2>2, Constants DEF Readings
<1>6. ASSUME lates' = 0 PROVE InTurn'
  <2>1. InTurn /\ ~ awaiting /\ workSubmitted = 0
    BY <1>1, <1>3, <1>6, Parts, QuietTimeout
  <2>2. lines = <<>> /\ NoAnswers(lines)
    BY <1>3, <1>6 DEF Quiet, NoAnswers
  <2>3. Conversation(lines)'
    BY <1>1, <2>1, <2>2 DEF Conversation, NoAnswers, device
  <2>4. Sending' = 0
    BY <1>1 DEF Sending
  <2>5. /\ Len(queue) \in Nat /\ found \in Nat /\ CountOf(lines, Msg("RESULT")) \in Nat
    BY <1>1, Numbers, Parts
  <2>6. Counted(lines)'
    BY <1>1, <2>1, <2>4, <2>5 DEF Counted, device
  <2> QED
    BY <1>4, <2>1, <2>3, <2>6 DEF InTurn, NoAnswers
<1> QED
  BY <1>1, <1>2, <1>3, <1>4, <1>5, <1>6, Parts, Together

LEMMA GetResultsTimeoutIInv ==
  ASSUME IInv, GetResultsTimeout
  PROVE  IInv'
<1>1. /\ DriverOK /\ DeviceOK /\ behavior = "results" /\ phase # 0 /\ TimesOut
      /\ behavior' = "stopped"
      /\ UNCHANGED <<phase, submitting, workSubmitted, overHeating, job, mail, lines, device, temps>>
  BY Parts DEF GetResultsTimeout
<1>2. DriverOK' /\ DeviceOK'
  BY <1>1 DEF DriverOK, DeviceOK, device
<1>3. /\ (lates \in 0..MaxLate)' /\ (lates' = 0 => lates = 0 /\ Quiet)
  BY <1>1, Parts, Constants DEF TimesOut
<1>4. (temps \in 0..MaxTemps)' /\ (Readings(unstashed) <= MaxTemps)'
      /\ (stash \in Seq(Message))' /\ (unstashed \in Seq(Message))' /\ (lines \in Seq(Line))'
      /\ (cancels \in 0..MaxJobs)' /\ (cancels <= job)'
  BY <1>1, Parts DEF Readings, mail
<1>5. lates' # 0
  BY <1>1, <1>3, Parts, QuietTimeout
<1> QED
  BY <1>2, <1>3, <1>4, <1>5, Together

LEMMA FindsIInv ==
  ASSUME IInv, Finds
  PROVE  IInv'
<1>1. /\ DriverOK /\ DeviceOK /\ queue # <<>> /\ queue' = Tail(queue) /\ found' = found + 1
      /\ UNCHANGED <<driver, mail, lines, awaiting, events>>
  BY Parts DEF Finds
<1>2. /\ queue' \in Seq(1..MaxJobs) /\ Len(queue) \in Nat /\ Len(queue) > 0
      /\ Len(queue') = Len(queue) - 1 /\ found \in Nat
  BY <1>1 DEF DeviceOK
<1>3. DriverOK' /\ DeviceOK'
  BY <1>1, <1>2, Constants DEF DriverOK, DeviceOK, driver, waiting
<1>4. (lates \in 0..MaxLate)' /\ (temps \in 0..MaxTemps)' /\ (Readings(unstashed) <= MaxTemps)'
      /\ (stash \in Seq(Message))' /\ (unstashed \in Seq(Message))' /\ (lines \in Seq(Line))'
      /\ (cancels \in 0..MaxJobs)' /\ (cancels <= job)'
  BY <1>1, Parts DEF events, Readings, mail, driver
<1>5. ASSUME lates' = 0 PROVE InTurn'
  <2>1. InTurn /\ UNCHANGED <<stash, unstashed, lines, awaiting, behavior, phase, workSubmitted>>
    BY <1>1, <1>5, Parts DEF events, mail, driver, waiting
  <2>2. Conversation(lines)' /\ Sending' = Sending
    BY <2>1 DEF InTurn, Conversation, NoAnswers, Ends, Sending
  <2>3. /\ workSubmitted \in Nat /\ CountOf(lines, Msg("RESULT")) \in Nat /\ Sending \in {0, 1}
    BY <1>1, Numbers, Parts
  <2>4. Counted(lines)'
    BY <1>1, <1>2, <2>1, <2>2, <2>3 DEF InTurn, Counted
  <2> QED
    BY <2>1, <2>2, <2>4 DEF InTurn, NoAnswers
<1> QED
  BY <1>3, <1>4, <1>5, Together
-----------------------------------------------------------------------------
LEMMA InitIInv == Init => IInv
<1> SUFFICES ASSUME Init PROVE IInv
  OBVIOUS
<1>1. /\ stash = <<>> /\ unstashed = <<>> /\ lines = <<>> /\ queue = <<>>
      /\ <<>> \in Seq(Message) /\ <<>> \in Seq(Line) /\ <<>> \in Seq(1..MaxJobs) /\ Len(<<>>) = 0
  BY DEF Init
<1>2. /\ CountOf(<<>>, Msg("ExpireJobs")) = 0 /\ CountOf(<<>>, Msg("RESULT")) = 0
      /\ NoAnswers(<<>>)
  BY <1>1, CountType, NoExpiry
<1>3. TypeOK /\ cancels <= job
  <2>1. /\ stash \in Seq(Message) /\ unstashed \in Seq(Message) /\ lines \in Seq(Line)
        /\ queue \in Seq(1..MaxJobs) /\ Len(queue) <= Capacity
    BY <1>1, Constants
  <2>2. /\ workSubmitted \in 0..MaxWork /\ job \in 0..MaxJobs /\ cancels \in 0..MaxJobs
        /\ submitting \in 0..MaxJobs /\ temps \in 0..MaxTemps /\ lates \in 0..MaxLate
        /\ cancels <= job
    BY Constants DEF Init
  <2>3. phase \in 0..2 /\ found \in Nat /\ overHeating \in BOOLEAN /\ awaiting \in BOOLEAN
    <3>1. phase = 0 /\ found = 0 /\ overHeating = FALSE /\ awaiting = FALSE
      BY DEF Init
    <3>2. overHeating \in BOOLEAN /\ awaiting \in BOOLEAN
      BY <3>1, Zenon
    <3> QED
      BY <3>1, <3>2
  <2>4. behavior = "init"
    BY DEF Init
  <2> QED
    BY <2>1, <2>2, <2>3, <2>4 DEF TypeOK
<1>4. Sane
  BY <1>1, <1>2, Constants DEF Init, Sane, Readings
<1>5. InTurn
  BY <1>1, <1>2 DEF Init, InTurn, Conversation, Counted, Sending
<1> QED
  BY <1>3, <1>4, <1>5 DEF IInv

LEMMA NextIInv == IInv /\ [Next]_vars => IInv'
<1> SUFFICES ASSUME IInv, [Next]_vars PROVE IInv'
  OBVIOUS
<1>1. CASE NewWork
  BY <1>1, NewWorkIInv
<1>2. CASE PostInit
  BY <1>2, PostInitIInv
<1>3. CASE StartRes
  BY <1>3, StartResIInv
<1>4. CASE StartPhase1
  BY <1>4, StartPhase1IInv
<1>5. CASE ReceiveUnstashed
  BY <1>5, ReceiveUnstashedIInv
<1>6. CASE ReceiveLine
  BY <1>6, ReceiveLineIInv
<1>7. CASE ReceiveCancelWork
  BY <1>7, ReceiveCancelWorkIInv
<1>8. CASE \E m \in Timer : ReceiveTimer(m)
  BY <1>8, ReceiveTimerIInv
<1>9. CASE Timeout
  BY <1>9, SubmitTimeoutIInv, GetResultsTimeoutIInv DEF Timeout
<1>10. CASE Finds
  BY <1>10, FindsIInv
<1>11. CASE UNCHANGED vars
  BY <1>11 DEF vars, driver, waiting, mail, device, events, IInv, TypeOK, Sane, Readings, InTurn,
     NoAnswers, Conversation, Ends, Counted, Sending
<1> QED
  BY <1>1, <1>2, <1>3, <1>4, <1>5, <1>6, <1>7, <1>8, <1>9, <1>10, <1>11 DEF Next

LEMMA IInvCounts == IInv => NeverOvercounts
<1> SUFFICES ASSUME IInv, lates = 0 PROVE workSubmitted <= Held
  BY DEF NeverOvercounts
<1>1. /\ DriverOK /\ DeviceOK /\ InTurn /\ lines \in Seq(Line)
      /\ stash \in Seq(Message) /\ unstashed \in Seq(Message)
  BY Parts
<1>2. /\ workSubmitted \in Nat /\ Len(queue) \in Nat /\ found \in Nat
      /\ CountOf(lines, Msg("RESULT")) \in Nat
  BY <1>1, Numbers
<1>3. CountOf(stash, Msg("RESULT")) \in Nat /\ CountOf(unstashed, Msg("RESULT")) \in Nat
  BY <1>1, CountType
<1>4. /\ Count(lines) = CountOf(lines, Msg("RESULT"))
      /\ Count(stash) = CountOf(stash, Msg("RESULT"))
      /\ Count(unstashed) = CountOf(unstashed, Msg("RESULT"))
  BY DEF Count, CountOf
<1>5. Counted(lines)
  BY <1>1 DEF InTurn
<1> QED
  BY <1>2, <1>3, <1>4, <1>5 DEF Held, Counted, Sending

LEMMA IInvInStep == IInv => InStep
<1> SUFFICES ASSUME IInv, lates = 0
             PROVE  /\ \A i \in DOMAIN stash : stash[i] \notin Answers
                    /\ \A i \in DOMAIN unstashed : unstashed[i] \notin Answers
                    /\ \A i \in DOMAIN lines : lines[i] \in Answers =>
                         \/ /\ lines[i] \in Replies
                            /\ \A j \in DOMAIN lines : j > i => lines[j] \notin Answers
                         \/ /\ behavior = "results" /\ phase = 1 /\ lines[i] = Msg("RESULT")
                            /\ \E j \in DOMAIN lines : j > i /\ lines[j] = Msg("OK")
  BY DEF InStep
<1>1. /\ InTurn /\ DOMAIN lines = 1..Len(lines) /\ DOMAIN stash = 1..Len(stash)
      /\ DOMAIN unstashed = 1..Len(unstashed) /\ Len(lines) \in Nat
  BY Parts
<1>2. ASSUME NEW a, NEW S, Ends(lines, a, S), NEW i \in 1..Len(lines), lines[i] \in Answers
      PROVE  \/ lines[i] = a /\ \A j \in 1..Len(lines) : j > i => lines[j] \notin Answers
             \/ lines[i] \in S /\ \E j \in 1..Len(lines) : j > i /\ lines[j] = a
  <2>1. PICK j \in 1..Len(lines) :
          /\ lines[j] = a
          /\ \A k \in 1..Len(lines) : k < j /\ lines[k] \in Answers => lines[k] \in S
          /\ \A k \in 1..Len(lines) : k > j => lines[k] \notin Answers
    BY <1>2 DEF Ends
  <2>2. i = j \/ i < j
    BY <1>2, <2>1
  <2> QED
    BY <1>2, <2>1, <2>2
<1>3. ASSUME NEW i \in 1..Len(lines), lines[i] \in Answers
      PROVE  \/ /\ lines[i] \in Replies
                /\ \A j \in 1..Len(lines) : j > i => lines[j] \notin Answers
             \/ /\ behavior = "results" /\ phase = 1 /\ lines[i] = Msg("RESULT")
                /\ \E j \in 1..Len(lines) : j > i /\ lines[j] = Msg("OK")
  <2>1. ~ NoAnswers(lines)
    BY <1>3 DEF NoAnswers
  <2>2. CASE behavior = "submit" /\ phase = 1
    BY <1>1, <1>2, <1>3, <2>1, <2>2 DEF InTurn, Conversation, Replies
  <2>3. CASE behavior = "submit" /\ phase = 2
    BY <1>1, <1>2, <1>3, <2>1, <2>3 DEF InTurn, Conversation, Replies
  <2>4. CASE behavior = "results" /\ phase = 1
    BY <1>1, <1>2, <1>3, <2>1, <2>4 DEF InTurn, Conversation, Replies
  <2> QED
    BY <1>1, <2>1, <2>2, <2>3, <2>4 DEF InTurn, Conversation
<1> QED
  BY <1>1, <1>3 DEF InTurn, NoAnswers

(* What the driver and the device hold stays of its type: the count of works *)
(* within 0..MaxWork and the device's queue within its capacity, whatever is *)
(* late, refused, flushed or stashed.                                        *)
THEOREM TypeCorrect == Spec => []TypeOK
<1>1. IInv => TypeOK
  BY DEF IInv
<1> QED
  BY <1>1, InitIInv, NextIInv, PTL DEF Spec

(* As long as no answer is late, the driver never counts works that neither  *)
(* the device has nor the driver is sending: workSubmitted of BFLSC.scala is *)
(* raised before a work is sent and lowered by answers that come later.      *)
THEOREM CountsJustified == Spec => []NeverOvercounts
<1> QED
  BY InitIInv, NextIInv, IInvCounts, PTL DEF Spec

(* As long as no answer is late, every line the driver reads as an answer    *)
(* answers the command that it waits for, in whatever behaviour it has been  *)
(* stashing and flushing meanwhile.                                          *)
THEOREM AnswersInStep == Spec => []InStep
<1> QED
  BY InitIInv, NextIInv, IInvInStep, PTL DEF Spec
=============================================================================
