----------------------- MODULE StratumSessionProofs ------------------------
(***************************************************************************)
(* Proofs about StratumSession, for any shares, any range of request ids   *)
(* with room for the two requests of beginSession, and any stream: its     *)
(* types, and that submitters hear the verdict on their own share, that    *)
(* callbacks and requests match, and that jobs come after the extranonce.  *)
(***************************************************************************)
EXTENDS StratumSession, SequenceTheorems, FiniteSetTheorems, TLAPS

(* Texts and newlines take turns. *)
Alternate(q) == \A j \in 1..Len(q) : IF j % 2 = 1 THEN q[j] \in Text ELSE q[j] = Newline

(* What is not handled yet begins with a text and ends with a newline. *)
Framed == Alternate(buffer \o stream) /\ (Len(buffer) + Len(stream)) % 2 = 0

(* An id has no more than one callback, request or response, and a response  *)
(* is the one its callback waits for, unless it was taken while in use.      *)
Matching ==
  /\ \A q \in asked : q.id \notin crossed => responseMap[q.id] = q.what
  /\ \A i \in Id \ crossed, j, k \in DOMAIN Texts :
       RespondsTo(Texts[j], i) /\ RespondsTo(Texts[k], i) => j = k
  /\ \A i \in Id \ crossed :
       LET underWay == \E j \in DOMAIN Texts : RespondsTo(Texts[j], i) IN
       IF responseMap[i] = "none" THEN ~ underWay
       ELSE underWay <=> \A q \in asked : q.id # i
  /\ \A i \in Id : responseMap[i] # "none" => InUse(i)

(* A share waits, and is asked for, under the id it was sent under, and its  *)
(* verdict is the one that is under way.                                     *)
Sharing ==
  /\ \A i \in Id : responseMap[i] \in Share =>
       result[responseMap[i]] = "waiting" /\ sent[responseMap[i]] = i
  /\ \A q \in asked : q.what \in Share => sent[q.what] = q.id
  /\ \A i \in Id \ crossed, j \in DOMAIN Texts :
       RespondsTo(Texts[j], i) /\ responseMap[i] \in Share =>
         verdict[responseMap[i]] = IF Texts[j].ok THEN "ok" ELSE "bad"

(* Up to the response to mining.subscribe there is no other request, and     *)
(* work comes behind that response.                                          *)
Subscribing ==
  IF extranonce THEN \A i \in Id : responseMap[i] # "subscribe"
  ELSE /\ messageId = 2 /\ crossed = {}
       /\ responseMap = [i \in Id |-> IF i = 1 THEN "subscribe" ELSE "none"]
       /\ \A j \in DOMAIN Texts :
            Texts[j] = Broadcast => \E k \in 1..(j - 1) : RespondsTo(Texts[k], 1)

IInv ==
  /\ TypeOK /\ AnswerIsVerdict /\ JobNeedsExtranonce
  /\ status = "connecting" => Init
  /\ status = "normal" => Framed /\ Matching /\ Sharing /\ Subscribing

-----------------------------------------------------------------------------
(* Tokens and the texts that are not handled. *)

LEMMA TokenKinds ==
  /\ \A t \in Text : t \in Token /\ t # Newline
  /\ \A t \in Token, i \in Id : RespondsTo(t, i) <=> t \in Response /\ t.id = i
  /\ Broadcast \notin Response /\ Newline \notin Response /\ Broadcast \in Text
  <1>1. \A t \in Response : t.kind = "response"
    BY DEF Response
  <1>2. Broadcast.kind = "notify" /\ Newline.kind = "newline"
    BY DEF Broadcast, Newline
  <1>3. \A t \in Text : t \in Token /\ t # Newline
    BY <1>1, <1>2 DEF Text, Token
  <1>4. Broadcast \notin Response /\ Newline \notin Response /\ Broadcast \in Text
    BY <1>1, <1>2 DEF Text
  <1>5. \A t \in Token : t \in Response \/ t = Broadcast \/ t = Newline
    BY DEF Token, Text
  <1>6. ASSUME NEW t \in Token, NEW i \in Id PROVE RespondsTo(t, i) <=> t \in Response /\ t.id = i
    BY <1>1, <1>2, <1>5 DEF RespondsTo
  <1> QED BY <1>3, <1>4, <1>6

LEMMA ConcatTokens ==
  ASSUME NEW p \in Seq(Token), NEW q \in Seq(Token)
  PROVE  /\ p \o q \in Seq(Token) /\ Len(p \o q) = Len(p) + Len(q)
         /\ \A j \in 1..Len(p) + Len(q) : (p \o q)[j] = IF j <= Len(p) THEN p[j] ELSE q[j - Len(p)]
  BY ConcatProperties

(* T is the sequences I, B and S in a row. *)
InARow(T, I, B, S) ==
  /\ T \in Seq(Token)
  /\ Len(T) = Len(I) + Len(B) + Len(S)
  /\ \A j \in 1..Len(I) : T[j] = I[j]
  /\ \A j \in 1..Len(B) : T[Len(I) + j] = B[j]
  /\ \A j \in 1..Len(S) : T[Len(I) + Len(B) + j] = S[j]

LEMMA TextsParts ==
  ASSUME NEW I \in Seq(Text), NEW B \in Seq(Text), NEW S \in Seq(Token)
  PROVE  InARow(I \o B \o S, I, B, S)
  <1>1. I \in Seq(Token) /\ B \in Seq(Token)
    BY SeqMonotonic, TokenKinds, Text \subseteq Token
  <1> DEFINE C == I \o B
             T == C \o S
  <1>2. /\ C \in Seq(Token) /\ Len(C) = Len(I) + Len(B)
        /\ \A j \in 1..Len(I) + Len(B) : C[j] = IF j <= Len(I) THEN I[j] ELSE B[j - Len(I)]
    BY <1>1, ConcatTokens
  <1>4. Len(I) \in Nat /\ Len(B) \in Nat /\ Len(S) \in Nat
    BY LenProperties
  <1>3. T = I \o B \o S
    OBVIOUS
  <1> HIDE DEF C
  <1>5. /\ T \in Seq(Token) /\ Len(T) = Len(C) + Len(S)
        /\ \A j \in 1..Len(C) + Len(S) : T[j] = IF j <= Len(C) THEN C[j] ELSE S[j - Len(C)]
    BY <1>2, ConcatTokens
  <1> HIDE DEF T
  <1>6. Len(T) = Len(I) + Len(B) + Len(S)
    BY <1>2, <1>5
  <1>7. ASSUME NEW j \in 1..Len(I) PROVE T[j] = I[j]
    <2>1. j \in 1..Len(C) + Len(S) /\ j <= Len(C) /\ j \in 1..Len(I) + Len(B) /\ j <= Len(I)
      BY <1>2, <1>4
    <2> QED BY <2>1, <1>2, <1>5
  <1>8. ASSUME NEW j \in 1..Len(B) PROVE T[Len(I) + j] = B[j]
    <2> DEFINE k == Len(I) + j
    <2>1. /\ k \in 1..Len(C) + Len(S) /\ k <= Len(C) /\ k \in 1..Len(I) + Len(B) /\ ~ (k <= Len(I))
          /\ k - Len(I) = j
      BY <1>2, <1>4
    <2> QED BY <2>1, <1>2, <1>5
  <1>9. ASSUME NEW j \in 1..Len(S) PROVE T[Len(I) + Len(B) + j] = S[j]
    <2> DEFINE k == Len(I) + Len(B) + j
    <2>1. k \in 1..Len(C) + Len(S) /\ ~ (k <= Len(C)) /\ k - Len(C) = j
      BY <1>2, <1>4
    <2> QED BY <2>1, <1>5
  <1> QED BY <1>3, <1>5, <1>6, <1>7, <1>8, <1>9 DEF InARow

LEMMA TextsType ==
  ASSUME TypeOK
  PROVE  /\ Texts \in Seq(Token) /\ Len(Texts) \in Nat
         /\ DOMAIN Texts = 1..Len(Texts)
         /\ \A j \in DOMAIN Texts : Texts[j] \in Token
  <1>1. Texts \in Seq(Token)
    BY TextsParts DEF Texts, TypeOK, InARow
  <1> QED BY <1>1, LenProperties, ElementOfSeq

(* The actor takes the first message of its mailbox. *)
LEMMA TailTexts ==
  ASSUME TypeOK, inbox # <<>>, inbox' = Tail(inbox), UNCHANGED <<buffer, stream>>
  PROVE  /\ inbox' \in Seq(Text) /\ Head(inbox) \in Text
         /\ Texts' \in Seq(Token) /\ Len(Texts') = Len(Texts) - 1
         /\ Texts[1] = Head(inbox) /\ 1 \in DOMAIN Texts
         /\ \A j \in 1..(Len(Texts) - 1) : Texts'[j] = Texts[j + 1]
  <1>1. inbox \in Seq(Text) /\ buffer \in Seq(Text) /\ stream \in Seq(Token)
    BY DEF TypeOK
  <1>2. /\ inbox' \in Seq(Text) /\ Head(inbox) \in Text
        /\ Len(inbox') = Len(inbox) - 1
        /\ \A j \in 1..Len(inbox') : inbox'[j] = inbox[j + 1]
    BY <1>1, HeadTailProperties
  <1>3. Len(inbox) \in Nat /\ Len(inbox) >= 1 /\ Len(buffer) \in Nat /\ Len(stream) \in Nat
    BY <1>1, <1>2, LenProperties
  <1>4. Head(inbox) = inbox[1]
    BY <1>1
  <1> DEFINE T == Texts
             U == Texts'
  <1>5. InARow(T, inbox, buffer, stream)
    BY <1>1, TextsParts DEF Texts
  <1>6. U = inbox' \o buffer \o stream
    BY DEF Texts
  <1> HIDE DEF U
  <1>7. InARow(U, inbox', buffer, stream)
    BY <1>1, <1>2, <1>6, TextsParts
  <1> HIDE DEF T
  <1>11. Len(T) = Len(inbox) + Len(buffer) + Len(stream)
    BY <1>5 DEF InARow
  <1>8. Len(U) = Len(T) - 1 /\ T[1] = Head(inbox) /\ 1 \in 1..Len(T)
    BY <1>2, <1>3, <1>4, <1>5, <1>7 DEF InARow
  <1>9. ASSUME NEW j \in 1..(Len(T) - 1) PROVE U[j] = T[j + 1]
    <2>1. CASE j <= Len(inbox) - 1
      BY <2>1, <1>2, <1>3, <1>5, <1>7 DEF InARow
    <2>2. CASE j > Len(inbox) - 1 /\ j <= Len(inbox) - 1 + Len(buffer)
      <3>1. PICK k \in 1..Len(buffer) : j = Len(inbox') + k /\ j + 1 = Len(inbox) + k
        <4>1. j - (Len(inbox) - 1) \in 1..Len(buffer)
          BY <2>2, <1>2, <1>3
        <4> QED BY <4>1, <1>2, <1>3
      <3> QED BY <3>1, <1>5, <1>7 DEF InARow
    <2>3. CASE j > Len(inbox) - 1 + Len(buffer)
      <3>1. PICK k \in 1..Len(stream) : /\ j = Len(inbox') + Len(buffer) + k
                                       /\ j + 1 = Len(inbox) + Len(buffer) + k
        <4>1. j - (Len(inbox) - 1 + Len(buffer)) \in 1..Len(stream)
          BY <2>3, <1>2, <1>3, <1>11
        <4> DEFINE k == j - (Len(inbox) - 1 + Len(buffer))
        <4>2. j = Len(inbox') + Len(buffer) + k /\ j + 1 = Len(inbox) + Len(buffer) + k
          BY <1>2, <1>3, <1>11
        <4> HIDE DEF k
        <4> QED BY <4>1, <4>2 DEF k
      <3> QED BY <3>1, <1>5, <1>7 DEF InARow
    <2> QED BY <2>1, <2>2, <2>3, <1>2, <1>3, <1>5 DEF InARow
  <1>10. DOMAIN T = 1..Len(T)
    BY <1>5, LenProperties DEF InARow
  <1> QED BY <1>2, <1>7, <1>8, <1>9, <1>10 DEF T, U, InARow

(* The server sends the line of text x. *)
LEMMA LineTexts ==
  ASSUME TypeOK, NEW x \in Text, stream' = Line(x), UNCHANGED <<inbox, buffer>>
  PROVE  /\ stream' \in Seq(Token)
         /\ Texts' \in Seq(Token) /\ Len(Texts') = Len(Texts) + 2
         /\ \A j \in 1..Len(Texts) : Texts'[j] = Texts[j]
         /\ Texts'[Len(Texts) + 1] = x /\ Texts'[Len(Texts) + 2] = Newline
  <1>1. inbox \in Seq(Text) /\ buffer \in Seq(Text) /\ stream \in Seq(Token)
    BY DEF TypeOK
  <1> DEFINE L == <<x, Newline>>
  <1>2. L \in Seq(Token) /\ Len(L) = 2 /\ L[1] = x /\ L[2] = Newline
    <2>1. x \in Token /\ Newline \in Token
      BY TokenKinds DEF Token
    <2> QED BY <2>1
  <1>3. stream' = stream \o L
    BY DEF Line
  <1> HIDE DEF L
  <1>4. /\ stream' \in Seq(Token) /\ Len(stream') = Len(stream) + 2
        /\ \A j \in 1..Len(stream) + 2 :
             stream'[j] = IF j <= Len(stream) THEN stream[j] ELSE L[j - Len(stream)]
    <2>1. /\ stream \o L \in Seq(Token) /\ Len(stream \o L) = Len(stream) + Len(L)
          /\ \A j \in 1..Len(stream) + Len(L) :
               (stream \o L)[j] = IF j <= Len(stream) THEN stream[j] ELSE L[j - Len(stream)]
      BY <1>1, <1>2, ConcatTokens
    <2> QED BY <2>1, <1>2, <1>3
  <1>5. Len(inbox) \in Nat /\ Len(buffer) \in Nat /\ Len(stream) \in Nat
    BY <1>1, LenProperties
  <1> DEFINE T == Texts
             U == Texts'
             b == Len(inbox) + Len(buffer)
  <1>6. InARow(T, inbox, buffer, stream)
    BY <1>1, TextsParts DEF Texts
  <1>7. U = inbox \o buffer \o stream'
    BY DEF Texts
  <1> HIDE DEF T, U
  <1>8. InARow(U, inbox, buffer, stream')
    BY <1>1, <1>4, <1>7, TextsParts
  <1>9. b \in Nat /\ Len(T) = b + Len(stream) /\ Len(U) = Len(T) + 2
    BY <1>4, <1>5, <1>6, <1>8 DEF InARow
  <1>10. ASSUME NEW j \in 1..Len(inbox) PROVE U[j] = T[j]
    BY <1>6, <1>8 DEF InARow
  <1>11. ASSUME NEW j \in 1..Len(buffer) PROVE U[Len(inbox) + j] = T[Len(inbox) + j]
    BY <1>6, <1>8 DEF InARow
  <1>12. ASSUME NEW j \in 1..Len(stream) + 2 PROVE U[b + j] = stream'[j]
    BY <1>4, <1>8 DEF InARow
  <1>13. ASSUME NEW j \in 1..Len(stream) PROVE T[b + j] = stream[j]
    BY <1>6 DEF InARow
  <1>14. ASSUME NEW j \in 1..Len(T) PROVE U[j] = T[j]
    <2>1. CASE j <= Len(inbox)
      BY <2>1, <1>10, <1>5
    <2>2. CASE j > Len(inbox) /\ j <= b
      <3>1. PICK k \in 1..Len(buffer) : j = Len(inbox) + k
        <4>1. j - Len(inbox) \in 1..Len(buffer)
          BY <2>2, <1>5
        <4> QED BY <4>1, <1>5
      <3> QED BY <3>1, <1>11
    <2>3. CASE j > b
      <3> HIDE DEF b
      <3>1. PICK k \in 1..Len(stream) : j = b + k
        <4>1. j - b \in 1..Len(stream)
          BY <2>3, <1>5, <1>9
        <4> QED BY <4>1, <1>5, <1>9
      <3>2. U[j] = stream'[k] /\ T[j] = stream[k]
        BY <3>1, <1>12, <1>13, <1>5
      <3>3. stream'[k] = stream[k]
        BY <1>4, <1>5
      <3> QED BY <3>2, <3>3
    <2> QED BY <2>1, <2>2, <2>3, <1>5
  <1>15. U[Len(T) + 1] = x /\ U[Len(T) + 2] = Newline
    <2> HIDE DEF b
    <2>1. U[b + (Len(stream) + 1)] = stream'[Len(stream) + 1]
      BY <1>12, <1>5
    <2>2. U[b + (Len(stream) + 2)] = stream'[Len(stream) + 2]
      BY <1>12, <1>5
    <2>3. stream'[Len(stream) + 1] = L[1] /\ stream'[Len(stream) + 2] = L[2]
      BY <1>4, <1>5
    <2>4. b + (Len(stream) + 1) = Len(T) + 1 /\ b + (Len(stream) + 2) = Len(T) + 2
      BY <1>5, <1>9
    <2> QED BY <2>1, <2>2, <2>3, <2>4, <1>2
  <1>16. U \in Seq(Token)
    BY <1>8 DEF InARow
  <1> QED BY <1>4, <1>9, <1>14, <1>15, <1>16 DEF T, U

-----------------------------------------------------------------------------
(* breakSome. *)

LEMMA Parity ==
  /\ \A d \in Nat : d % 2 \in {0, 1}
  /\ \A h \in Nat : (2 * h) % 2 = 0 /\ (2 * h + 1) % 2 = 1 /\ (2 * h) \div 2 = h
  /\ \A h \in Nat \ {0} : (2 * h - 1) % 2 = 1
  /\ \A d, h \in Nat : d % 2 = 0 /\ d <= 2 * h + 1 => d <= 2 * h
  OBVIOUS

LEMMA LastNewlineIs ==
  ASSUME NEW all \in Seq(Token), Alternate(all), NEW h \in Nat,
         NEW n \in Nat, n = Len(all), n = 2 * h \/ n = 2 * h + 1
  PROVE  LastNewline(all) = 2 * h
  <1> DEFINE C == {0} \cup {d \in 1..n : all[d] = Newline}
             Last(c) == \A d \in 1..n : all[d] = Newline => d <= c
  <1>1. DOMAIN all = 1..n
    BY LenProperties
  <1>2. ASSUME NEW d \in 1..n PROVE all[d] = Newline <=> d % 2 = 0
    <2>1. d \in Nat /\ d % 2 \in {0, 1}
      BY <1>1, Parity
    <2>2. CASE d % 2 = 1
      BY <2>2, TokenKinds DEF Alternate
    <2>3. CASE d % 2 = 0
      BY <2>3 DEF Alternate
    <2> QED BY <2>1, <2>2, <2>3
  <1>3. ASSUME NEW d \in 1..n, d % 2 = 0 PROVE d <= 2 * h
    <2>1. d \in Nat /\ d <= 2 * h + 1
      BY <1>1
    <2> QED BY <2>1, <1>3, Parity
  <1>4. 2 * h \in C
    <2>1. CASE h = 0
      BY <2>1
    <2>2. CASE h # 0
      <3>1. 2 * h \in 1..n /\ (2 * h) % 2 = 0
        BY <2>2, <1>1, Parity
      <3> QED BY <3>1, <1>2
    <2> QED BY <2>1, <2>2
  <1>5. Last(2 * h)
    BY <1>2, <1>3
  <1>6. ASSUME NEW c \in C, Last(c) PROVE c = 2 * h
    <2>1. c \in Nat /\ c <= 2 * h
      <3>1. CASE c = 0
        BY <3>1
      <3>2. CASE c \in 1..n /\ all[c] = Newline
        BY <3>2, <1>1, <1>2, <1>3
      <3> QED BY <1>6, <3>1, <3>2
    <2>2. h # 0 => 2 * h \in 1..n /\ all[2 * h] = Newline
      BY <1>4
    <2>3. h # 0 => 2 * h <= c
      BY <2>2, <1>6
    <2> QED BY <2>1, <2>3
  <1>7. LastNewline(all) = CHOOSE c \in C : Last(c)
    BY <1>1 DEF LastNewline
  <1> HIDE DEF C, Last
  <1> QED BY <1>4, <1>5, <1>6, <1>7

LEMMA LinesAre ==
  ASSUME NEW all \in Seq(Token), Alternate(all), NEW h \in Nat,
         NEW n \in Nat, n = Len(all), n = 2 * h \/ n = 2 * h + 1
  PROVE  /\ Lines(all) \in Seq(Text) /\ Len(Lines(all)) = h
         /\ \A k \in 1..h : Lines(all)[k] = all[2 * k - 1]
  <1>1. (2 * h) \div 2 = h
    BY Parity
  <1>2. Lines(all) = [k \in 1..h |-> all[2 * k - 1]]
    BY <1>1, LastNewlineIs DEF Lines
  <1>3. DOMAIN all = 1..n
    BY LenProperties
  <1>4. ASSUME NEW k \in 1..h PROVE all[2 * k - 1] \in Text
    <2>1. 2 * k - 1 \in 1..n
      BY <1>3
    <2>2. (2 * k - 1) % 2 = 1
      BY Parity
    <2> QED BY <2>1, <2>2 DEF Alternate
  <1> QED BY <1>2, <1>4

(* What is left of the tokens: the texts of the first h lines, without       *)
(* their newlines, and everything behind them.                               *)
LEMMA ReceivedParts ==
  ASSUME TypeOK, Framed, NEW n \in 1..Len(stream), Received(n)
  PROVE  \E h \in Nat :
           LET W == buffer \o stream
               V == (buffer \o stream)' IN
           /\ W \in Seq(Token) /\ V \in Seq(Token)
           /\ 2 * h <= Len(W) /\ Len(V) = Len(W) - 2 * h
           /\ \A j \in 1..Len(V) : V[j] = W[2 * h + j]
           /\ buffer' \in Seq(Text) /\ Len(buffer') <= 1 /\ stream' \in Seq(Token)
           /\ Len(buffer') + Len(stream') = Len(V)
           /\ inbox' \in Seq(Text) /\ Len(inbox') = Len(inbox) + h
           /\ \A j \in 1..Len(inbox) : inbox'[j] = inbox[j]
           /\ \A k \in 1..h : inbox'[Len(inbox) + k] = W[2 * k - 1]
  <1>1. inbox \in Seq(Text) /\ buffer \in Seq(Text) /\ stream \in Seq(Token) /\ buffer \in Seq(Token)
    BY SeqMonotonic, TokenKinds, Text \subseteq Token DEF TypeOK
  <1>2. Len(inbox) \in Nat /\ Len(buffer) \in Nat /\ Len(stream) \in Nat /\ Len(buffer) <= 1
    BY <1>1, LenProperties DEF TypeOK
  <1> DEFINE W == buffer \o stream
             s == SubSeq(stream, 1, n)
             r == SubSeq(stream, n + 1, Len(stream))
             all == buffer \o s
  <1>3. /\ W \in Seq(Token) /\ Len(W) = Len(buffer) + Len(stream)
        /\ \A j \in 1..Len(buffer) + Len(stream) :
             W[j] = IF j <= Len(buffer) THEN buffer[j] ELSE stream[j - Len(buffer)]
    BY <1>1, ConcatTokens
  <1>4. \A j \in 1..Len(stream) : stream[j] \in Token
    BY <1>1, ElementOfSeq
  <1>5. /\ s \in Seq(Token) /\ Len(s) = n
        /\ \A j \in 1..n : s[j] = stream[j]
    <2>1. \A j \in 1..n : stream[j] \in Token
      BY <1>2, <1>4
    <2>2. /\ s \in Seq(Token) /\ Len(s) = IF 1 <= n THEN n - 1 + 1 ELSE 0
          /\ \A j \in 1..n - 1 + 1 : s[j] = stream[1 + j - 1]
      BY <2>1, SubSeqProperties
    <2> QED BY <2>2
  <1>6. /\ r \in Seq(Token) /\ Len(r) = Len(stream) - n
        /\ \A j \in 1..Len(stream) - n : r[j] = stream[n + j]
    <2>1. \A j \in n + 1..Len(stream) : stream[j] \in Token
      BY <1>2, <1>4
    <2>2. /\ r \in Seq(Token)
          /\ Len(r) = IF n + 1 <= Len(stream) THEN Len(stream) - (n + 1) + 1 ELSE 0
          /\ \A j \in 1..Len(stream) - (n + 1) + 1 : r[j] = stream[(n + 1) + j - 1]
      BY <2>1, <1>2, SubSeqProperties
    <2> QED BY <2>2, <1>2
  <1> HIDE DEF W, s, r
  <1>7. /\ all \in Seq(Token) /\ Len(all) = Len(buffer) + n
        /\ \A j \in 1..Len(buffer) + n : all[j] = IF j <= Len(buffer) THEN buffer[j] ELSE s[j - Len(buffer)]
    BY <1>1, <1>5, ConcatTokens
  <1> HIDE DEF all
  <1>8. ASSUME NEW j \in 1..Len(all) PROVE all[j] = W[j] /\ j \in 1..Len(W)
    <2>1. j \in 1..Len(buffer) + n /\ j \in 1..Len(buffer) + Len(stream)
      BY <1>2, <1>7
    <2>2. CASE j <= Len(buffer)
      BY <2>1, <2>2, <1>2, <1>3, <1>7
    <2>3. CASE j > Len(buffer)
      <3>1. j - Len(buffer) \in 1..n
        BY <2>1, <2>3, <1>2
      <3> QED BY <2>1, <2>3, <3>1, <1>2, <1>3, <1>5, <1>7
    <2> QED BY <2>1, <2>2, <2>3, <1>2
  <1>9. DOMAIN all = 1..Len(all) /\ DOMAIN W = 1..Len(W)
    BY <1>3, <1>7, LenProperties
  <1>10. Alternate(W)
    BY DEF Framed, W
  <1>11. Alternate(all)
    BY <1>8, <1>9, <1>10 DEF Alternate
  <1> DEFINE a == Len(buffer) + n
  <1>0. a \in Nat /\ a = Len(all)
    BY <1>2, <1>7
  <1> HIDE DEF a
  <1>12. PICK h \in Nat : a = 2 * h \/ a = 2 * h + 1
    <2>1. a \div 2 \in Nat /\ (a = 2 * (a \div 2) \/ a = 2 * (a \div 2) + 1)
      BY <1>0
    <2> QED BY <2>1
  <1> DEFINE b == SubSeq(all, 2 * h + 1, Len(all))
  <1>13. /\ inbox' = inbox \o Lines(all)
         /\ buffer' = b /\ stream' = r
    BY <1>0, <1>7, <1>11, <1>12, LastNewlineIs DEF Received, all, s, r
  <1>14. /\ Lines(all) \in Seq(Text) /\ Len(Lines(all)) = h
         /\ \A k \in 1..h : Lines(all)[k] = all[2 * k - 1]
    BY <1>0, <1>7, <1>11, <1>12, LinesAre
  <1>15. /\ inbox' \in Seq(Text) /\ Len(inbox') = Len(inbox) + h
         /\ \A j \in 1..Len(inbox) + h :
              inbox'[j] = IF j <= Len(inbox) THEN inbox[j] ELSE Lines(all)[j - Len(inbox)]
    <2> DEFINE L == Lines(all)
    <2>1. L \in Seq(Text) /\ Len(L) = h
      BY <1>14
    <2> HIDE DEF L
    <2>2. /\ inbox \o L \in Seq(Text) /\ Len(inbox \o L) = Len(inbox) + Len(L)
          /\ \A j \in 1..Len(inbox) + Len(L) :
               (inbox \o L)[j] = IF j <= Len(inbox) THEN inbox[j] ELSE L[j - Len(inbox)]
      BY <1>1, <2>1, ConcatProperties
    <2>3. inbox' = inbox \o L
      BY <1>13 DEF L
    <2>4. Len(inbox') = Len(inbox) + h /\ inbox' \in Seq(Text)
      BY <2>1, <2>2, <2>3
    <2>5. \A j \in 1..Len(inbox) + h :
            inbox'[j] = IF j <= Len(inbox) THEN inbox[j] ELSE L[j - Len(inbox)]
      BY <2>1, <2>2, <2>3
    <2> QED BY <2>4, <2>5 DEF L
  <1>16. \A j \in 1..Len(inbox) : inbox'[j] = inbox[j]
    BY <1>2, <1>15
  <1>17. ASSUME NEW k \in 1..h PROVE inbox'[Len(inbox) + k] = W[2 * k - 1]
    <2>1. /\ Len(inbox) + k \in 1..Len(inbox) + h /\ ~ (Len(inbox) + k <= Len(inbox))
          /\ (Len(inbox) + k) - Len(inbox) = k
      BY <1>2
    <2>2. inbox'[Len(inbox) + k] = Lines(all)[k]
      BY <2>1, <1>15
    <2>3. 2 * k - 1 \in 1..Len(all)
      BY <1>2, <1>7, <1>0, <1>12
    <2> QED BY <2>2, <2>3, <1>8, <1>14
  <1>18. /\ b \in Seq(Text) /\ Len(b) = Len(all) - 2 * h
         /\ \A j \in 1..Len(all) - 2 * h : b[j] = all[2 * h + j]
    <2>1. ASSUME NEW j \in 2 * h + 1..Len(all) PROVE all[j] \in Text
      <3>1. j = 2 * h + 1 /\ j \in 1..Len(all)
        BY <1>0, <1>12
      <3>2. j % 2 = 1
        BY <3>1, Parity
      <3> QED BY <3>1, <3>2, <1>9, <1>11 DEF Alternate
    <2>2. /\ b \in Seq(Text)
          /\ Len(b) = IF 2 * h + 1 <= Len(all) THEN Len(all) - (2 * h + 1) + 1 ELSE 0
          /\ \A j \in 1..Len(all) - (2 * h + 1) + 1 : b[j] = all[(2 * h + 1) + j - 1]
      BY <2>1, <1>2, <1>7, SubSeqProperties
    <2> HIDE DEF b
    <2>3. Len(b) = IF 2 * h + 1 <= a THEN a - (2 * h + 1) + 1 ELSE 0
      BY <2>2, <1>0
    <2>4. Len(b) = a - 2 * h
      <3>1. CASE a = 2 * h
        <4>1. ~ (2 * h + 1 <= a) /\ a - 2 * h = 0
          BY <3>1
        <4> QED BY <2>3, <4>1
      <3>2. CASE a = 2 * h + 1
        <4>1. 2 * h + 1 <= a /\ a - (2 * h + 1) + 1 = a - 2 * h
          BY <3>2
        <4> QED BY <2>3, <4>1
      <3> QED BY <3>1, <3>2, <1>12
    <2>5. /\ a - (2 * h + 1) + 1 = a - 2 * h /\ a = Len(all)
          /\ \A j \in 1..a - 2 * h : (2 * h + 1) + j - 1 = 2 * h + j
      BY <1>0
    <2> QED BY <2>2, <2>4, <2>5
  <1> HIDE DEF b
  <1> DEFINE V == (buffer \o stream)'
  <1>19. b \in Seq(Token)
    BY <1>18, SeqMonotonic, TokenKinds, Text \subseteq Token
  <1>20. /\ V \in Seq(Token) /\ Len(V) = Len(b) + Len(r)
         /\ \A j \in 1..Len(b) + Len(r) : V[j] = IF j <= Len(b) THEN b[j] ELSE r[j - Len(b)]
    <2>1. V = b \o r
      BY <1>13
    <2>2. /\ b \o r \in Seq(Token) /\ Len(b \o r) = Len(b) + Len(r)
          /\ \A j \in 1..Len(b) + Len(r) :
               (b \o r)[j] = IF j <= Len(b) THEN b[j] ELSE r[j - Len(b)]
      BY <1>6, <1>19, ConcatTokens
    <2> QED BY <2>1, <2>2
  <1> HIDE DEF V
  <1>21. 2 * h <= Len(W) /\ Len(V) = Len(W) - 2 * h
    BY <1>2, <1>3, <1>6, <1>7, <1>0, <1>12, <1>18, <1>20
  <1>22. ASSUME NEW j \in 1..Len(V) PROVE V[j] = W[2 * h + j]
    <2>1. CASE j <= Len(b)
      <3>1. j \in 1..Len(all) - 2 * h /\ 2 * h + j \in 1..Len(all)
        BY <2>1, <1>2, <1>7, <1>18, <1>20
      <3> QED BY <2>1, <3>1, <1>8, <1>18, <1>20
    <2>2. CASE j > Len(b)
      <3>1. PICK k \in 1..Len(stream) - n : j = Len(b) + k
        <4>1. Len(b) \in Nat /\ Len(V) = Len(b) + (Len(stream) - n)
          BY <1>6, <1>18, <1>20, LenProperties
        <4>2. j - Len(b) \in 1..Len(stream) - n
          BY <2>2, <1>2, <4>1
        <4>3. j = Len(b) + (j - Len(b))
          BY <4>1
        <4> QED BY <4>2, <4>3
      <3>2. V[j] = r[k]
        <4>1. j - Len(b) = k /\ j \in 1..Len(b) + Len(r) /\ ~ (j <= Len(b))
          BY <3>1, <2>2, <1>2, <1>7, <1>18, <1>20
        <4> QED BY <4>1, <1>20
      <3>3. r[k] = stream[n + k]
        BY <1>6
      <3>4. W[2 * h + j] = stream[n + k]
        <4>1. /\ 2 * h + j = Len(buffer) + (n + k) /\ 2 * h + j \in 1..Len(buffer) + Len(stream)
              /\ ~ (2 * h + j <= Len(buffer)) /\ (2 * h + j) - Len(buffer) = n + k
          BY <3>1, <1>2, <1>7, <1>0, <1>12, <1>18
        <4> QED BY <4>1, <1>3
      <3> QED BY <3>2, <3>3, <3>4
    <2> QED BY <2>1, <2>2, <1>2, <1>7, <1>0, <1>12, <1>18
  <1>23. buffer' \in Seq(Text) /\ Len(buffer') <= 1 /\ stream' \in Seq(Token)
    BY <1>2, <1>6, <1>7, <1>0, <1>12, <1>13, <1>18
  <1>24. Len(buffer') + Len(stream') = Len(V)
    BY <1>13, <1>20
  <1> QED BY <1>3, <1>15, <1>16, <1>17, <1>20, <1>21, <1>22, <1>23, <1>24 DEF W, V

(* u is what is left of t when some tokens are taken out, but no response. *)
Thins(f, t, u) ==
  /\ f \in [1..Len(u) -> 1..Len(t)]
  /\ \A j \in 1..Len(u) : u[j] = t[f[j]]
  /\ \A j, k \in 1..Len(u) : j < k => f[j] < f[k]
  /\ \A k \in 1..Len(t) : t[k] \in Response => \E j \in 1..Len(u) : f[j] = k

(* T is I and W in a row. *)
Behind(T, I, W) ==
  /\ T \in Seq(Token) /\ Len(T) = Len(I) + Len(W)
  /\ \A j \in 1..Len(I) : T[j] = I[j]
  /\ \A j \in 1..Len(W) : T[Len(I) + j] = W[j]

LEMMA TextsBehind ==
  ASSUME NEW I \in Seq(Text), NEW B \in Seq(Text), NEW S \in Seq(Token)
  PROVE  Behind(I \o B \o S, I, B \o S)
  <1> DEFINE W == B \o S
             T == I \o W
  <1>1. I \in Seq(Token) /\ B \in Seq(Token)
    BY SeqMonotonic, TokenKinds, Text \subseteq Token
  <1>2. W \in Seq(Token)
    BY <1>1, ConcatTokens
  <1>3. T = I \o B \o S
    BY <1>1, ConcatAssociative
  <1>4. /\ T \in Seq(Token) /\ Len(T) = Len(I) + Len(W)
        /\ \A j \in 1..Len(I) + Len(W) : T[j] = IF j <= Len(I) THEN I[j] ELSE W[j - Len(I)]
    BY <1>1, <1>2, ConcatTokens
  <1>5. Len(I) \in Nat /\ Len(W) \in Nat
    BY <1>2, LenProperties
  <1> HIDE DEF T, W
  <1>6. \A j \in 1..Len(I) : T[j] = I[j]
    BY <1>4, <1>5
  <1>7. ASSUME NEW j \in 1..Len(W) PROVE T[Len(I) + j] = W[j]
    <2>1. /\ Len(I) + j \in 1..Len(I) + Len(W) /\ ~ (Len(I) + j <= Len(I))
          /\ (Len(I) + j) - Len(I) = j
      BY <1>5
    <2> QED BY <2>1, <1>4
  <1>8. Behind(T, I, W)
    BY <1>4, <1>6, <1>7 DEF Behind
  <1> QED BY <1>3, <1>8 DEF W

LEMMA ReceivedThins ==
  ASSUME TypeOK, Framed, NEW n \in 1..Len(stream), Received(n)
  PROVE  /\ Texts' \in Seq(Token) /\ \E f : Thins(f, Texts, Texts')
         /\ TypeOK' /\ Framed'
  <1> DEFINE W == buffer \o stream
             V == (buffer \o stream)'
             T == Texts
             U == Texts'
  <1>1. PICK h \in Nat :
          /\ W \in Seq(Token) /\ V \in Seq(Token)
          /\ 2 * h <= Len(W) /\ Len(V) = Len(W) - 2 * h
          /\ \A j \in 1..Len(V) : V[j] = W[2 * h + j]
          /\ buffer' \in Seq(Text) /\ Len(buffer') <= 1 /\ stream' \in Seq(Token)
          /\ Len(buffer') + Len(stream') = Len(V)
          /\ inbox' \in Seq(Text) /\ Len(inbox') = Len(inbox) + h
          /\ \A j \in 1..Len(inbox) : inbox'[j] = inbox[j]
          /\ \A k \in 1..h : inbox'[Len(inbox) + k] = W[2 * k - 1]
    BY ReceivedParts
  <1>2. inbox \in Seq(Text) /\ buffer \in Seq(Text) /\ stream \in Seq(Token)
    BY DEF TypeOK
  <1>3. /\ T \in Seq(Token) /\ Len(T) = Len(inbox) + Len(W)
        /\ \A j \in 1..Len(inbox) : T[j] = inbox[j]
        /\ \A j \in 1..Len(W) : T[Len(inbox) + j] = W[j]
    <2>1. Behind(T, inbox, W)
      BY <1>2, TextsBehind DEF Texts
    <2> QED BY <2>1 DEF Behind
  <1>4. /\ U \in Seq(Token) /\ Len(U) = Len(inbox') + Len(V)
        /\ \A j \in 1..Len(inbox') : U[j] = inbox'[j]
        /\ \A j \in 1..Len(V) : U[Len(inbox') + j] = V[j]
    <2>1. U = inbox' \o buffer' \o stream' /\ V = buffer' \o stream'
      BY DEF Texts
    <2> HIDE DEF U, V
    <2>2. Behind(U, inbox', V)
      BY <1>1, <2>1, TextsBehind
    <2> QED BY <2>2 DEF Behind
  <1> DEFINE p == Len(inbox)
             w == Len(W)
  <1>5. p \in Nat /\ w \in Nat /\ 2 * h <= w
    BY <1>1, <1>2, LenProperties
  <1>6. Len(T) = p + w /\ Len(U) = p + w - h /\ Len(V) = w - 2 * h /\ Len(inbox') = p + h
    <2>1. Len(U) = (p + h) + (w - 2 * h)
      BY <1>1, <1>4
    <2> QED BY <2>1, <1>1, <1>3, <1>5
  <1>7. ASSUME NEW j \in 1..p PROVE U[j] = T[j]
    <2>1. j \in 1..Len(inbox')
      BY <1>5, <1>6
    <2> QED BY <2>1, <1>1, <1>3, <1>4
  <1>8. ASSUME NEW k \in 1..h PROVE U[p + k] = T[p + (2 * k - 1)]
    <2>1. p + k \in 1..Len(inbox') /\ 2 * k - 1 \in 1..Len(W)
      BY <1>5, <1>6
    <2>2. U[p + k] = inbox'[p + k]
      BY <2>1, <1>4
    <2>3. inbox'[p + k] = W[2 * k - 1]
      BY <1>1
    <2>4. T[p + (2 * k - 1)] = W[2 * k - 1]
      BY <2>1, <1>3
    <2> QED BY <2>2, <2>3, <2>4
  <1>9. ASSUME NEW j \in 1..w - 2 * h PROVE U[(p + h) + j] = T[p + (2 * h + j)]
    <2>1. j \in 1..Len(V) /\ 2 * h + j \in 1..Len(W)
      BY <1>5, <1>6
    <2>2. U[(p + h) + j] = V[j]
      BY <2>1, <1>4, <1>6
    <2>3. V[j] = W[2 * h + j]
      BY <2>1, <1>1
    <2>4. T[p + (2 * h + j)] = W[2 * h + j]
      BY <2>1, <1>3
    <2> QED BY <2>2, <2>3, <2>4
  <1>10. \A j \in 1..w : IF j % 2 = 1 THEN W[j] \in Text ELSE W[j] = Newline
    BY DEF Framed, Alternate
  <1> DEFINE f == [j \in 1..p + w - h |-> IF j <= p THEN j
                                           ELSE IF j <= p + h THEN p + (2 * (j - p) - 1) ELSE j + h]
  <1> HIDE DEF W, V, T, U, p, w
  <1>11. f \in [1..p + w - h -> 1..p + w]
    BY <1>5
  <1>12. ASSUME NEW j \in 1..p + w - h, NEW k \in 1..p + w - h, j < k PROVE f[j] < f[k]
    BY <1>5, <1>12
  <1>13. ASSUME NEW j \in 1..p + w - h PROVE U[j] = T[f[j]]
    <2>1. CASE j <= p
      BY <2>1, <1>5, <1>7
    <2>2. CASE j > p /\ j <= p + h
      <3>1. PICK k \in 1..h : j = p + k
        <4>1. j - p \in 1..h /\ j = p + (j - p)
          BY <2>2, <1>5
        <4> QED BY <4>1
      <3>2. f[j] = p + (2 * k - 1)
        BY <2>2, <3>1, <1>5
      <3> QED BY <3>1, <3>2, <1>8
    <2>3. CASE j > p + h
      <3>1. PICK k \in 1..w - 2 * h : j = (p + h) + k
        <4>1. j - (p + h) \in 1..w - 2 * h /\ j = (p + h) + (j - (p + h))
          BY <2>3, <1>5
        <4> QED BY <4>1
      <3>2. f[j] = p + (2 * h + k)
        BY <2>3, <3>1, <1>5
      <3> QED BY <3>1, <3>2, <1>9
    <2> QED BY <2>1, <2>2, <2>3, <1>5
  <1>14. ASSUME NEW k \in 1..p + w, T[k] \in Response PROVE \E j \in 1..p + w - h : f[j] = k
    <2>1. CASE k <= p
      <3>1. k \in 1..p + w - h /\ f[k] = k
        BY <2>1, <1>5
      <3> QED BY <3>1
    <2>2. CASE k > p /\ k <= p + 2 * h
      <3>1. PICK i \in 1..2 * h : k = p + i
        <4>1. k - p \in 1..2 * h /\ k = p + (k - p)
          BY <2>2, <1>5
        <4> QED BY <4>1
      <3>2. i \in 1..w /\ T[k] = W[i]
        <4>1. i \in 1..w
          BY <3>1, <1>5
        <4> QED BY <4>1, <3>1, <1>3 DEF p, w
      <3>3. i % 2 = 1
        BY <3>2, <1>10, <1>14, TokenKinds
      <3>4. PICK m \in 1..h : i = 2 * m - 1
        <4>1. (i + 1) \div 2 \in 1..h /\ i = 2 * ((i + 1) \div 2) - 1
          BY <3>1, <3>3
        <4> QED BY <4>1
      <3>5. p + m \in 1..p + w - h /\ f[p + m] = k
        <4>1. p + m \in 1..p + w - h /\ ~ (p + m <= p) /\ p + m <= p + h /\ (p + m) - p = m
          BY <1>5
        <4> QED BY <4>1, <3>1, <3>4
      <3> QED BY <3>5
    <2>3. CASE k > p + 2 * h
      <3>1. k - h \in 1..p + w - h /\ ~ (k - h <= p) /\ ~ (k - h <= p + h) /\ (k - h) + h = k
        BY <2>3, <1>5
      <3>2. f[k - h] = k
        BY <3>1
      <3> QED BY <3>1, <3>2
    <2> QED BY <2>1, <2>2, <2>3, <1>5
  <1> HIDE DEF f
  <1>15. Thins(f, T, U)
    BY <1>6, <1>11, <1>12, <1>13, <1>14 DEF Thins
  <1>16. Framed'
    <2>1. ASSUME NEW j \in 1..Len(V) PROVE IF j % 2 = 1 THEN V[j] \in Text ELSE V[j] = Newline
      <3>1. V[j] = W[2 * h + j]
        BY <1>1
      <3>2. 2 * h + j \in 1..w /\ (2 * h + j) % 2 = j % 2
        BY <1>5, <1>6
      <3> QED BY <3>1, <3>2, <1>10
    <2>2. Alternate(V)
      BY <2>1 DEF Alternate
    <2>3. Len(V) % 2 = 0
      <3>1. w % 2 = 0
        <4>1. w = Len(buffer) + Len(stream)
          <5>1. buffer \in Seq(Token)
            BY <1>2, SeqMonotonic, TokenKinds, Text \subseteq Token
          <5> QED BY <5>1, <1>2, ConcatTokens DEF w, W
        <4> QED BY <4>1 DEF Framed
      <3> QED BY <3>1, <1>5, <1>6
    <2> QED BY <2>2, <2>3, <1>1 DEF Framed, V
  <1>17. TypeOK'
    BY <1>1 DEF TypeOK, Received, history
  <1> QED BY <1>4, <1>15, <1>16, <1>17 DEF T, U

-----------------------------------------------------------------------------
(* The steps keep IInv. *)

(* Where only texts move on and none is lost that an id waits for. *)
LEMMA ThinnedKeeps ==
  ASSUME TypeOK, Matching, Sharing, Subscribing, Texts' \in Seq(Token),
         NEW f, Thins(f, Texts, Texts'),
         UNCHANGED <<messageId, responseMap, extranonce, asked, result, verdict, history>>
  PROVE  Matching' /\ Sharing' /\ Subscribing'
  <1> USE DEF history
  <1> DEFINE T == Texts
             U == Texts'
  <1>1. /\ T \in Seq(Token) /\ DOMAIN T = 1..Len(T) /\ Len(T) \in Nat
        /\ \A j \in 1..Len(T) : T[j] \in Token
    BY TextsType
  <1>2. /\ U \in Seq(Token) /\ DOMAIN U = 1..Len(U) /\ Len(U) \in Nat
        /\ \A j \in 1..Len(U) : U[j] \in Token
    BY LenProperties, ElementOfSeq
  <1>3. /\ \A j \in 1..Len(U) : f[j] \in 1..Len(T) /\ U[j] = T[f[j]]
        /\ \A j, k \in 1..Len(U) : j < k => f[j] < f[k]
        /\ \A k \in 1..Len(T) : T[k] \in Response => \E j \in 1..Len(U) : f[j] = k
    BY DEF Thins
  <1> HIDE DEF T, U
  <1>4. ASSUME NEW j \in 1..Len(U), NEW k \in 1..Len(U), f[j] = f[k] PROVE j = k
    BY <1>3, <1>4
  <1>5. ASSUME NEW i \in Id
        PROVE (\E j \in 1..Len(T) : RespondsTo(T[j], i)) <=> (\E j \in 1..Len(U) : RespondsTo(U[j], i))
    <2>1. ASSUME NEW j \in 1..Len(T), RespondsTo(T[j], i) PROVE \E k \in 1..Len(U) : RespondsTo(U[k], i)
      <3>1. T[j] \in Response
        BY <2>1, <1>1, TokenKinds
      <3>2. PICK k \in 1..Len(U) : f[k] = j
        BY <3>1, <1>3
      <3> QED BY <2>1, <3>2, <1>3
    <2>2. ASSUME NEW j \in 1..Len(U), RespondsTo(U[j], i) PROVE \E k \in 1..Len(T) : RespondsTo(T[k], i)
      BY <2>2, <1>3
    <2> QED BY <2>1, <2>2
  <1>6. Matching'
    <2>1. ASSUME NEW i \in Id \ crossed, NEW j \in 1..Len(U), NEW k \in 1..Len(U),
                 RespondsTo(U[j], i), RespondsTo(U[k], i)
          PROVE j = k
      <3>1. RespondsTo(T[f[j]], i) /\ RespondsTo(T[f[k]], i) /\ f[j] \in 1..Len(T) /\ f[k] \in 1..Len(T)
        BY <2>1, <1>3
      <3>2. f[j] = f[k]
        BY <3>1, <1>1 DEF Matching, T
      <3> QED BY <3>2, <1>4
    <2>2. ASSUME NEW i \in Id \ crossed
          PROVE IF responseMap'[i] = "none" THEN ~ \E j \in 1..Len(U) : RespondsTo(U[j], i)
                ELSE (\E j \in 1..Len(U) : RespondsTo(U[j], i)) <=> \A q \in asked' : q.id # i
      <3>1. IF responseMap[i] = "none" THEN ~ \E j \in 1..Len(T) : RespondsTo(T[j], i)
            ELSE (\E j \in 1..Len(T) : RespondsTo(T[j], i)) <=> \A q \in asked : q.id # i
        BY <1>1 DEF Matching, T
      <3> QED BY <3>1, <1>5
    <2>3. \A q \in asked' : q.id \notin crossed => responseMap'[q.id] = q.what
      BY DEF Matching
    <2>4. ASSUME NEW i \in Id, responseMap'[i] # "none" PROVE InUse(i)'
      <3>1. (\E q \in asked : q.id = i) \/ \E j \in 1..Len(T) : RespondsTo(T[j], i)
        BY <2>4, <1>1 DEF Matching, InUse, T
      <3>2. (\E q \in asked : q.id = i) \/ \E j \in 1..Len(U) : RespondsTo(U[j], i)
        BY <3>1, <1>5
      <3> QED BY <3>2, <1>2 DEF InUse, U
    <2> QED BY <2>1, <2>2, <2>3, <2>4, <1>2 DEF Matching, U
  <1>7. Sharing'
    <2>1. ASSUME NEW i \in Id \ crossed, NEW j \in 1..Len(U), RespondsTo(U[j], i), responseMap[i] \in Share
          PROVE verdict[responseMap[i]] = IF U[j].ok THEN "ok" ELSE "bad"
      <3>1. RespondsTo(T[f[j]], i) /\ f[j] \in 1..Len(T) /\ U[j] = T[f[j]]
        BY <2>1, <1>3
      <3> QED BY <2>1, <3>1, <1>1 DEF Sharing, T
    <2>2. /\ \A i \in Id : responseMap'[i] \in Share =>
               result'[responseMap'[i]] = "waiting" /\ sent'[responseMap'[i]] = i
          /\ \A q \in asked' : q.what \in Share => sent'[q.what] = q.id
      BY DEF Sharing
    <2>3. \A i \in Id \ crossed, j \in 1..Len(U) :
            RespondsTo(U[j], i) /\ responseMap'[i] \in Share =>
              verdict'[responseMap'[i]] = IF U[j].ok THEN "ok" ELSE "bad"
      BY <2>1
    <2> QED BY <2>2, <2>3, <1>2 DEF Sharing, U
  <1>8. Subscribing'
    <2>1. CASE extranonce
      BY <2>1 DEF Subscribing
    <2>2. CASE ~ extranonce
      <3>1. ASSUME NEW j \in 1..Len(U), U[j] = Broadcast
            PROVE \E k \in 1..(j - 1) : RespondsTo(U[k], 1)
        <4>1. f[j] \in 1..Len(T) /\ T[f[j]] = Broadcast
          BY <3>1, <1>3
        <4>2. PICK l \in 1..(f[j] - 1) : RespondsTo(T[l], 1)
          BY <4>1, <2>2, <1>1 DEF Subscribing, T
        <4>3. l \in 1..Len(T) /\ 1 \in Id /\ l < f[j]
          BY <4>1, <1>1, SessionAssumption DEF Id
        <4>4. PICK k \in 1..Len(U) : f[k] = l
          BY <4>2, <4>3, <1>1, <1>3, TokenKinds
        <4>5. k < j
          <5>1. CASE j < k
            BY <5>1, <4>1, <4>3, <4>4, <1>1, <1>3
          <5>2. CASE j = k
            BY <5>2, <4>1, <4>3, <4>4, <1>1
          <5> QED BY <5>1, <5>2
        <4> QED BY <4>2, <4>4, <4>5, <1>3
      <3>2. /\ messageId' = 2 /\ crossed' = {}
            /\ responseMap' = [i \in Id |-> IF i = 1 THEN "subscribe" ELSE "none"]
        BY <2>2 DEF Subscribing
      <3> QED BY <2>2, <3>1, <3>2, <1>2 DEF Subscribing, U
    <2> QED BY <2>1, <2>2
  <1> QED BY <1>6, <1>7, <1>8

LEMMA DeliverIInv == ASSUME IInv, Deliver PROVE IInv'
  <1>1. PICK n \in 1..Len(stream) : Received(n)
    BY DEF Deliver
  <1>2. TypeOK /\ Framed /\ Matching /\ Sharing /\ Subscribing /\ status = "normal"
    BY <1>1 DEF IInv, Received
  <1>3. Texts' \in Seq(Token) /\ TypeOK' /\ Framed' /\ \E f : Thins(f, Texts, Texts')
    BY <1>1, <1>2, ReceivedThins
  <1>4. PICK f : Thins(f, Texts, Texts')
    BY <1>3
  <1>5. UNCHANGED <<status, messageId, responseMap, extranonce, lastJob, asked, result, verdict, history>>
    BY <1>1 DEF Received
  <1>6. Matching' /\ Sharing' /\ Subscribing'
    BY <1>2, <1>3, <1>4, <1>5, ThinnedKeeps
  <1>7. AnswerIsVerdict' /\ JobNeedsExtranonce' /\ status' = "normal"
    BY <1>2, <1>5 DEF IInv, AnswerIsVerdict, JobNeedsExtranonce, history
  <1> QED BY <1>3, <1>6, <1>7 DEF IInv

LEMMA BroadcastIInv == ASSUME IInv, HandleBroadcast PROVE IInv'
  <1> USE DEF HandleBroadcast, history
  <1>1. TypeOK /\ Framed /\ Matching /\ Sharing /\ Subscribing /\ status = "normal" /\ status' = "normal"
    BY DEF IInv
  <1> DEFINE T == Texts
             U == Texts'
             f == [j \in 1..Len(U) |-> j + 1]
  <1>2. /\ inbox' \in Seq(Text) /\ U \in Seq(Token) /\ Len(U) = Len(T) - 1
        /\ T[1] = Broadcast /\ 1 \in 1..Len(T)
        /\ \A j \in 1..(Len(T) - 1) : U[j] = T[j + 1]
    BY <1>1, TailTexts, TextsType
  <1>3. Len(T) \in Nat
    BY <1>1, TextsType
  <1> HIDE DEF T, U
  <1>4. Thins(f, T, U)
    <2>1. f \in [1..Len(U) -> 1..Len(T)]
      BY <1>2, <1>3
    <2>2. \A j \in 1..Len(U) : U[j] = T[f[j]]
      BY <1>2, <1>3
    <2>3. \A j, k \in 1..Len(U) : j < k => f[j] < f[k]
      BY <1>2, <1>3
    <2>4. ASSUME NEW k \in 1..Len(T), T[k] \in Response PROVE \E j \in 1..Len(U) : f[j] = k
      <3>1. k # 1
        BY <2>4, <1>2, TokenKinds
      <3>2. k - 1 \in 1..Len(U) /\ f[k - 1] = k
        BY <3>1, <1>2, <1>3
      <3> QED BY <3>2
    <2> QED BY <2>1, <2>2, <2>3, <2>4 DEF Thins
  <1>5. Matching' /\ Sharing' /\ Subscribing'
    <2> HIDE DEF f
    <2> QED BY <1>1, <1>2, <1>4, ThinnedKeeps DEF T, U
  <1>6. TypeOK'
    BY <1>1, <1>2 DEF TypeOK
  <1>7. Framed'
    BY <1>1 DEF Framed, Alternate
  <1>8. extranonce
    <2>1. ASSUME ~ extranonce PROVE FALSE
      <3>1. \E k \in 1..(1 - 1) : RespondsTo(T[k], 1)
        <4>1. 1 \in DOMAIN Texts
          BY <1>1, <1>2, TextsType DEF T
        <4> QED BY <2>1, <4>1, <1>1, <1>2 DEF Subscribing, T
      <3> QED BY <3>1
    <2> QED BY <2>1
  <1>9. AnswerIsVerdict' /\ JobNeedsExtranonce'
    BY <1>8 DEF IInv, AnswerIsVerdict, JobNeedsExtranonce
  <1> QED BY <1>1, <1>5, <1>6, <1>7, <1>9 DEF IInv

LEMMA Ids ==
  ASSUME TypeOK
  PROVE  NextId \in Id /\ NextId + 1 \in 0..(MaxId + 1) /\ 1 \in Id /\ 2 \in Id
         /\ "none" \notin Request /\ "subscribe" \notin Share /\ "authorize" \notin Share
  BY SessionAssumption DEF TypeOK, NextId, Id, Request

LEMMA ConnectedIInv == ASSUME IInv, Connected PROVE IInv'
  <1> USE DEF Connected
  <1>1. TypeOK /\ Init /\ AnswerIsVerdict /\ status' = "normal"
    BY DEF IInv
  <1>2. NextId = 1 /\ 1 \in Id
    BY <1>1, SessionAssumption DEF Init, NextId, Id
  <1>3. /\ messageId' = 2 /\ responseMap' = [i \in Id |-> IF i = 1 THEN "subscribe" ELSE "none"]
        /\ asked' = {[id |-> 1, what |-> "subscribe"]}
        /\ extranonce' = FALSE /\ lastJob' = FALSE
        /\ buffer' = <<>> /\ inbox' = <<>> /\ stream' = <<>>
        /\ result' = [s \in Share |-> "idle"] /\ verdict' = [s \in Share |-> "none"]
        /\ sent' = sent /\ crossed' = {}
    <2>1. ~ InUse(1)
      BY <1>1 DEF Init, InUse, Texts
    <2> QED BY <2>1, <1>1, <1>2 DEF Init, SendCommand
  <1>4. Texts' = <<>> /\ (buffer \o stream)' = <<>>
    BY <1>3 DEF Texts
  <1>5. TypeOK'
    BY <1>1, <1>2, <1>3, SessionAssumption DEF TypeOK, Request, Id
  <1>6. Framed'
    BY <1>3, <1>4 DEF Framed, Alternate
  <1>7. Matching'
    <2>1. \A q \in asked' : q.id = 1 /\ q.what = "subscribe"
      BY <1>3
    <2>2. DOMAIN Texts' = {}
      BY <1>4
    <2>3. ASSUME NEW i \in Id
          PROVE IF responseMap'[i] = "none" THEN i # 1 ELSE ~ \A q \in asked' : q.id # i
      BY <1>3
    <2>4. \A q \in asked' : responseMap'[q.id] = q.what
      BY <2>1, <1>2, <1>3
    <2>5. ASSUME NEW i \in Id, responseMap'[i] # "none" PROVE InUse(i)'
      <3>1. i = 1 /\ [id |-> 1, what |-> "subscribe"] \in asked' /\ [id |-> 1, what |-> "subscribe"].id = 1
        BY <2>5, <1>3
      <3> QED BY <3>1 DEF InUse
    <2> QED BY <2>2, <2>3, <2>4, <2>5 DEF Matching
  <1>8. Sharing'
    <2>1. \A i \in Id : responseMap'[i] \notin Share
      BY <1>1, <1>3, Ids, SessionAssumption
    <2>2. \A q \in asked' : q.what \notin Share
      BY <1>1, <1>3, Ids
    <2>3. DOMAIN Texts' = {}
      BY <1>4
    <2> QED BY <2>1, <2>2, <2>3 DEF Sharing
  <1>9. Subscribing'
    BY <1>3, <1>4 DEF Subscribing
  <1>10. AnswerIsVerdict' /\ JobNeedsExtranonce'
    BY <1>3 DEF AnswerIsVerdict, JobNeedsExtranonce
  <1> QED BY <1>1, <1>5, <1>6, <1>7, <1>8, <1>9, <1>10 DEF IInv

LEMMA SubmitIInv == ASSUME IInv, NEW s \in Share, Submit(s) PROVE IInv'
  <1> USE DEF Submit
  <1>1. /\ TypeOK /\ Framed /\ Matching /\ Sharing /\ Subscribing /\ AnswerIsVerdict
        /\ status = "normal" /\ status' = "normal" /\ extranonce /\ extranonce' = extranonce
    BY DEF IInv, JobNeedsExtranonce
  <1> DEFINE n == NextId
             q0 == [id |-> n, what |-> s]
  <1>2. n \in Id /\ n + 1 \in 0..(MaxId + 1) /\ s \in Request /\ s # "none" /\ s # "subscribe"
    BY <1>1, Ids, SessionAssumption DEF Request
  <1>3. /\ messageId' = n + 1 /\ responseMap' = [responseMap EXCEPT ![n] = s]
        /\ asked' = asked \cup {q0} /\ sent' = [sent EXCEPT ![s] = n]
        /\ crossed' = IF InUse(n) THEN crossed \cup {n} ELSE crossed
        /\ \A q \in asked : q.what # s
    BY DEF SendCommand
  <1>4. responseMap \in [Id -> Request \cup {"none"}] /\ asked \in SUBSET [id : Id, what : Request]
    BY <1>1 DEF TypeOK
  <1>5. Texts' = Texts /\ (buffer \o stream)' = buffer \o stream
    BY DEF Texts
  <1>6. \A i \in Id : responseMap[i] # s
    BY <1>1 DEF Sharing
  <1> HIDE DEF n
  <1>7. TypeOK'
    BY <1>1, <1>2, <1>3 DEF TypeOK
  <1>8. Framed'
    BY <1>1, <1>5 DEF Framed
  <1>9. /\ crossed \subseteq crossed'
        /\ n \notin crossed' => /\ \A q \in asked : q.id # n
                              /\ \A j \in DOMAIN Texts : ~ RespondsTo(Texts[j], n)
    BY <1>3 DEF InUse
  <1>10. Matching'
    <2>1. ASSUME NEW q \in asked', q.id \notin crossed' PROVE responseMap'[q.id] = q.what
      <3>1. CASE q = q0
        BY <3>1, <1>2, <1>3, <1>4
      <3>2. CASE q \in asked
        <4>1. q.id # n /\ q.id \in Id /\ responseMap[q.id] = q.what
          BY <2>1, <3>2, <1>1, <1>4, <1>9 DEF Matching
        <4> QED BY <4>1, <1>3, <1>4
      <3> QED BY <3>1, <3>2, <1>3
    <2>2. ASSUME NEW i \in Id \ crossed'
          PROVE IF responseMap'[i] = "none" THEN ~ \E j \in DOMAIN Texts : RespondsTo(Texts[j], i)
                ELSE (\E j \in DOMAIN Texts : RespondsTo(Texts[j], i)) <=> \A q \in asked' : q.id # i
      <3>1. IF responseMap[i] = "none" THEN ~ \E j \in DOMAIN Texts : RespondsTo(Texts[j], i)
            ELSE (\E j \in DOMAIN Texts : RespondsTo(Texts[j], i)) <=> \A q \in asked : q.id # i
        BY <1>1, <1>9 DEF Matching
      <3>2. CASE i = n
        <4>1. responseMap'[i] = s /\ q0 \in asked' /\ q0.id = i
          BY <3>2, <1>3, <1>4
        <4>2. ~ \E j \in DOMAIN Texts : RespondsTo(Texts[j], i)
          BY <3>2, <1>9
        <4> QED BY <4>1, <4>2, <1>2
      <3>3. CASE i # n
        <4>1. responseMap'[i] = responseMap[i] /\ ((\A q \in asked' : q.id # i) <=> \A q \in asked : q.id # i)
          BY <3>3, <1>3, <1>4
        <4> QED BY <3>1, <4>1
      <3> QED BY <3>2, <3>3
    <2>3. \A i \in Id \ crossed', j, k \in DOMAIN Texts :
            RespondsTo(Texts[j], i) /\ RespondsTo(Texts[k], i) => j = k
      BY <1>1, <1>9 DEF Matching
    <2>4. ASSUME NEW i \in Id, responseMap'[i] # "none" PROVE InUse(i)'
      <3>1. CASE i = n
        <4>1. q0 \in asked' /\ q0.id = i
          BY <3>1, <1>3
        <4> QED BY <4>1 DEF InUse
      <3>2. CASE i # n
        <4>1. InUse(i)
          BY <3>2, <2>4, <1>1, <1>3, <1>4 DEF Matching
        <4>2. asked \subseteq asked'
          BY <1>3
        <4> QED BY <4>1, <4>2, <1>5 DEF InUse
      <3> QED BY <3>1, <3>2
    <2> QED BY <2>1, <2>2, <2>3, <2>4, <1>5 DEF Matching
  <1>11. Sharing'
    <2>1. ASSUME NEW i \in Id, responseMap'[i] \in Share
          PROVE result'[responseMap'[i]] = "waiting" /\ sent'[responseMap'[i]] = i
      <3>1. CASE i = n
        BY <3>1, <1>1, <1>3, <1>4 DEF TypeOK
      <3>2. CASE i # n
        <4>1. responseMap'[i] = responseMap[i] /\ responseMap[i] # s
          BY <3>2, <1>3, <1>4, <1>6
        <4>2. result[responseMap[i]] = "waiting" /\ sent[responseMap[i]] = i
          BY <2>1, <4>1, <1>1 DEF Sharing
        <4> QED BY <2>1, <4>1, <4>2, <1>1, <1>3 DEF TypeOK
      <3> QED BY <3>1, <3>2
    <2>2. ASSUME NEW q \in asked', q.what \in Share PROVE sent'[q.what] = q.id
      <3>1. CASE q = q0
        BY <3>1, <1>1, <1>3 DEF TypeOK
      <3>2. CASE q \in asked
        <4>1. q.what # s /\ sent[q.what] = q.id
          BY <2>2, <3>2, <1>1, <1>3 DEF Sharing
        <4> QED BY <2>2, <4>1, <1>1, <1>3 DEF TypeOK
      <3> QED BY <3>1, <3>2, <1>3
    <2>3. ASSUME NEW i \in Id \ crossed', NEW j \in DOMAIN Texts, RespondsTo(Texts[j], i),
                 responseMap'[i] \in Share
          PROVE verdict'[responseMap'[i]] = IF Texts[j].ok THEN "ok" ELSE "bad"
      <3>1. i # n
        BY <2>3, <1>9
      <3>2. responseMap'[i] = responseMap[i] /\ responseMap[i] # s
        BY <3>1, <1>3, <1>4, <1>6
      <3>3. verdict'[responseMap[i]] = verdict[responseMap[i]]
        BY <2>3, <3>2, <1>1 DEF TypeOK
      <3>4. verdict[responseMap[i]] = IF Texts[j].ok THEN "ok" ELSE "bad"
        BY <2>3, <3>2, <1>1, <1>9 DEF Sharing
      <3> QED BY <3>2, <3>3, <3>4
    <2> QED BY <2>1, <2>2, <2>3, <1>5 DEF Sharing
  <1>12. Subscribing'
    BY <1>1, <1>2, <1>3, <1>4 DEF Subscribing
  <1>13. AnswerIsVerdict' /\ JobNeedsExtranonce'
    <2>1. ASSUME NEW t \in Share, sent'[t] \notin crossed'
          PROVE  (result'[t] = "accepted" => verdict'[t] = "ok") /\ (result'[t] = "error" => verdict'[t] = "bad")
      <3>1. CASE t = s
        BY <3>1, <1>1 DEF TypeOK
      <3>2. CASE t # s
        <4>1. sent'[t] = sent[t] /\ result'[t] = result[t] /\ verdict'[t] = verdict[t]
          BY <3>2, <1>1, <1>3 DEF TypeOK
        <4> QED BY <2>1, <4>1, <1>1, <1>9 DEF AnswerIsVerdict
      <3> QED BY <3>1, <3>2
    <2> QED BY <2>1, <1>1 DEF AnswerIsVerdict, JobNeedsExtranonce
  <1> QED BY <1>1, <1>7, <1>8, <1>10, <1>11, <1>12, <1>13 DEF IInv

LEMMA DieIInv == ASSUME IInv, Die PROVE IInv'
  BY DEF IInv, Die, TypeOK, AnswerIsVerdict, JobNeedsExtranonce, history

LEMMA StutterIInv == ASSUME IInv, UNCHANGED vars PROVE IInv'
  <1> USE DEF vars, history
  <1>1. TypeOK' /\ AnswerIsVerdict' /\ JobNeedsExtranonce'
    BY DEF IInv, TypeOK, AnswerIsVerdict, JobNeedsExtranonce
  <1>2. status = "connecting" => Init'
    BY DEF IInv, Init
  <1>3. Texts' = Texts
    BY DEF Texts
  <1>4. status = "normal" => Framed' /\ Matching' /\ Sharing' /\ Subscribing'
    BY <1>3 DEF IInv, Framed, Alternate, Matching, Sharing, Subscribing, InUse
  <1> QED BY <1>1, <1>2, <1>4 DEF IInv

-----------------------------------------------------------------------------
(* The server's lines. *)

LEMMA LineFramed ==
  ASSUME TypeOK, Framed, NEW x \in Text, stream' = Line(x), buffer' = buffer
  PROVE  Framed'
  <1> DEFINE W == buffer \o stream
             L == <<x, Newline>>
             V == W \o L
             w == Len(W)
  <1>1. buffer \in Seq(Token) /\ stream \in Seq(Token)
    BY SeqMonotonic, TokenKinds, Text \subseteq Token DEF TypeOK
  <1>2. L \in Seq(Token) /\ Len(L) = 2 /\ L[1] = x /\ L[2] = Newline
    <2>1. x \in Token /\ Newline \in Token
      BY TokenKinds DEF Token
    <2> QED BY <2>1
  <1>3. stream' = stream \o L
    BY DEF Line
  <1> HIDE DEF L
  <1>4. W \in Seq(Token) /\ w = Len(buffer) + Len(stream) /\ w \in Nat
    <2>1. W \in Seq(Token) /\ Len(W) = Len(buffer) + Len(stream)
      BY <1>1, ConcatTokens
    <2> HIDE DEF W
    <2> QED BY <2>1, LenProperties
  <1>5. (buffer \o stream)' = V
    <2>1. (buffer \o stream) \o L = buffer \o (stream \o L)
      BY <1>1, <1>2, ConcatAssociative
    <2>2. (buffer \o stream)' = buffer \o (stream \o L)
      BY <1>3
    <2> QED BY <2>1, <2>2
  <1>6. \A j \in 1..w : IF j % 2 = 1 THEN W[j] \in Text ELSE W[j] = Newline
    BY DEF Framed, Alternate
  <1>7. w % 2 = 0
    BY <1>4 DEF Framed
  <1> HIDE DEF W
  <1>8. /\ V \in Seq(Token) /\ Len(V) = w + 2
        /\ \A j \in 1..w + 2 : V[j] = IF j <= w THEN W[j] ELSE L[j - w]
    <2>1. /\ V \in Seq(Token) /\ Len(V) = Len(W) + Len(L)
          /\ \A j \in 1..Len(W) + Len(L) : V[j] = IF j <= Len(W) THEN W[j] ELSE L[j - Len(W)]
      BY <1>2, <1>4, ConcatTokens
    <2> HIDE DEF V
    <2> QED BY <2>1, <1>2
  <1> HIDE DEF V, w
  <1>9. ASSUME NEW j \in 1..w + 2 PROVE IF j % 2 = 1 THEN V[j] \in Text ELSE V[j] = Newline
    <2>1. CASE j <= w
      BY <2>1, <1>4, <1>6, <1>8
    <2>2. CASE j = w + 1
      <3>1. j % 2 = 1 /\ ~ (j <= w) /\ j - w = 1
        BY <2>2, <1>4, <1>7
      <3> QED BY <3>1, <1>2, <1>8
    <2>3. CASE j = w + 2
      <3>1. j % 2 # 1 /\ ~ (j <= w) /\ j - w = 2
        BY <2>3, <1>4, <1>7
      <3> QED BY <3>1, <1>2, <1>8
    <2> QED BY <2>1, <2>2, <2>3, <1>4
  <1>10. Alternate(V)
    BY <1>8, <1>9 DEF Alternate
  <1>11. (Len(buffer) + Len(stream))' = w + 2
    <2>1. Len(stream \o L) = Len(stream) + Len(L)
      BY <1>1, <1>2, ConcatTokens
    <2>2. Len(stream') = Len(stream) + 2
      BY <2>1, <1>2, <1>3
    <2>3. Len(buffer) \in Nat /\ Len(stream) \in Nat
      BY <1>1, LenProperties
    <2>4. Len(buffer') + Len(stream') = Len(buffer) + (Len(stream) + 2)
      BY <2>2
    <2> QED BY <2>3, <2>4, <1>4
  <1>12. (w + 2) % 2 = 0
    BY <1>4, <1>7
  <1> QED BY <1>5, <1>10, <1>11, <1>12 DEF Framed

LEMMA AnswerIInv == ASSUME IInv, NEW q \in asked, Answer(q) PROVE IInv'
  <1>1. /\ TypeOK /\ Framed /\ Matching /\ Sharing /\ Subscribing /\ AnswerIsVerdict
        /\ status = "normal" /\ status' = "normal"
    BY DEF IInv, Answer
  <1>2. PICK ok \in BOOLEAN :
          /\ stream' = Line([kind |-> "response", id |-> q.id, ok |-> ok])
          /\ verdict' = IF q.what \in Share THEN [verdict EXCEPT ![q.what] = IF ok THEN "ok" ELSE "bad"]
                        ELSE verdict
    BY DEF Answer
  <1>3. /\ asked' = asked \ {q}
        /\ UNCHANGED <<status, messageId, responseMap, extranonce, lastJob, buffer, inbox, result, sent, crossed>>
    BY DEF Answer, history
  <1>4. responseMap \in [Id -> Request \cup {"none"}] /\ asked \in SUBSET [id : Id, what : Request]
    BY <1>1 DEF TypeOK
  <1>5. /\ q.id \in Id /\ q.what \in Request /\ q.what # "none"
        /\ q.id \notin crossed => responseMap[q.id] = q.what
        /\ q.what \in Share => sent[q.what] = q.id
    BY <1>1, <1>4, Ids DEF Matching, Sharing
  <1> DEFINE r == [kind |-> "response", id |-> q.id, ok |-> ok]
             T == Texts
             U == Texts'
  <1>6. r \in Response /\ r \in Text /\ r.id = q.id /\ r.ok = ok /\ r # Broadcast
    <2>1. r \in Response
      BY <1>5 DEF Response
    <2> QED BY <2>1, TokenKinds DEF Text
  <1>7. \A i \in Id : RespondsTo(r, i) <=> i = q.id
    BY <1>6 DEF RespondsTo
  <1>8. stream' = Line(r)
    BY <1>2
  <1> HIDE DEF r
  <1>9. /\ stream' \in Seq(Token) /\ U \in Seq(Token) /\ Len(U) = Len(T) + 2
        /\ \A j \in 1..Len(T) : U[j] = T[j]
        /\ U[Len(T) + 1] = r /\ U[Len(T) + 2] = Newline
    BY <1>1, <1>3, <1>6, <1>8, LineTexts
  <1>10. DOMAIN T = 1..Len(T) /\ Len(T) \in Nat /\ \A j \in 1..Len(T) : T[j] \in Token
    BY <1>1, TextsType
  <1>11. DOMAIN U = 1..Len(T) + 2
    BY <1>9, LenProperties
  <1> DEFINE m == Len(T)
             TUnderWay(i) == \E j \in 1..m : RespondsTo(T[j], i)
             UUnderWay(i) == \E j \in 1..m + 2 : RespondsTo(U[j], i)
  <1>12. /\ \A i \in Id \ crossed, j, k \in 1..m : RespondsTo(T[j], i) /\ RespondsTo(T[k], i) => j = k
         /\ \A i \in Id \ crossed : IF responseMap[i] = "none" THEN ~ TUnderWay(i)
                                    ELSE TUnderWay(i) <=> \A p \in asked : p.id # i
    BY <1>1, <1>10 DEF Matching
  <1>13. \A i \in Id \ crossed, j \in 1..m :
           RespondsTo(T[j], i) /\ responseMap[i] \in Share =>
             verdict[responseMap[i]] = IF T[j].ok THEN "ok" ELSE "bad"
    BY <1>1, <1>10 DEF Sharing
  <1>14. ~ extranonce => \A j \in 1..m : T[j] = Broadcast => \E k \in 1..(j - 1) : RespondsTo(T[k], 1)
    BY <1>1, <1>10 DEF Subscribing
  <1> HIDE DEF T, U, m
  <1>15. m \in Nat /\ Len(T) = m
    BY <1>10 DEF m
  <1>16. \A i \in Id : ~ RespondsTo(Newline, i)
    BY DEF RespondsTo, Newline
  <1>17. ASSUME NEW i \in Id, NEW j \in 1..m + 2, RespondsTo(U[j], i)
         PROVE  \/ j \in 1..m /\ U[j] = T[j] /\ (i \notin crossed => i # q.id)
                \/ j = m + 1 /\ i = q.id /\ U[j] = r
    <2>1. CASE j \in 1..m
      <3>1. U[j] = T[j] /\ TUnderWay(i)
        BY <2>1, <1>9, <1>15, <1>17
      <3>2. i \notin crossed => i # q.id
        BY <3>1, <1>5, <1>12
      <3> QED BY <2>1, <3>1, <3>2
    <2>2. CASE j = m + 1
      BY <2>2, <1>7, <1>9, <1>15, <1>17
    <2>3. CASE j = m + 2
      BY <2>3, <1>9, <1>15, <1>16, <1>17
    <2> QED BY <2>1, <2>2, <2>3, <1>15
  <1>18. Matching'
    <2>1. \A p \in asked' : p.id \notin crossed => responseMap'[p.id] = p.what
      BY <1>1, <1>3 DEF Matching
    <2>2. ASSUME NEW i \in Id \ crossed, NEW j \in 1..m + 2, NEW k \in 1..m + 2,
                 RespondsTo(U[j], i), RespondsTo(U[k], i)
          PROVE j = k
      <3>1. \/ (j \in 1..m /\ U[j] = T[j] /\ i # q.id) \/ (j = m + 1 /\ i = q.id)
        BY <2>2, <1>17
      <3>2. \/ (k \in 1..m /\ U[k] = T[k] /\ i # q.id) \/ (k = m + 1 /\ i = q.id)
        BY <2>2, <1>17
      <3> QED BY <3>1, <3>2, <2>2, <1>12
    <2>3. ASSUME NEW i \in Id \ crossed
          PROVE IF responseMap'[i] = "none" THEN ~ UUnderWay(i)
                ELSE UUnderWay(i) <=> \A p \in asked' : p.id # i
      <3>1. CASE i = q.id
        <4>1. U[m + 1] = r /\ m + 1 \in 1..m + 2
          BY <1>9, <1>15
        <4>2. UUnderWay(i)
          BY <4>1, <3>1, <1>7
        <4>3. ASSUME NEW p \in asked', p.id = i PROVE FALSE
          <5>1. p \in asked /\ p # q /\ p.what = q.what /\ p.id = q.id
            BY <4>3, <3>1, <1>1, <1>3 DEF Matching
          <5>2. p = q
            BY <5>1, <1>4
          <5> QED BY <5>1, <5>2
        <4> QED BY <4>2, <4>3, <3>1, <1>3, <1>5
      <3>2. CASE i # q.id
        <4>1. UUnderWay(i) <=> TUnderWay(i)
          <5>1. ASSUME NEW j \in 1..m + 2, RespondsTo(U[j], i) PROVE TUnderWay(i)
            <6>1. j \in 1..m /\ U[j] = T[j]
              BY <5>1, <3>2, <1>17
            <6> QED BY <5>1, <6>1
          <5>2. ASSUME NEW j \in 1..m, RespondsTo(T[j], i) PROVE UUnderWay(i)
            <6>1. j \in 1..m + 2 /\ U[j] = T[j]
              BY <1>9, <1>15
            <6> QED BY <5>2, <6>1
          <5> QED BY <5>1, <5>2
        <4>2. (\A p \in asked' : p.id # i) <=> \A p \in asked : p.id # i
          BY <3>2, <1>3
        <4> QED BY <4>1, <4>2, <1>3, <1>12
      <3> QED BY <3>1, <3>2
    <2>4. ASSUME NEW i \in Id, responseMap'[i] # "none" PROVE InUse(i)'
      <3>1. (\E p \in asked : p.id = i) \/ TUnderWay(i)
        BY <2>4, <1>1, <1>3, <1>10, <1>15 DEF Matching, InUse, T
      <3>2. (\E p \in asked' : p.id = i) \/ UUnderWay(i)
        <4>1. CASE TUnderWay(i)
          BY <4>1, <1>9, <1>15
        <4>2. ASSUME NEW p \in asked, p.id = i, p # q PROVE \E p1 \in asked' : p1.id = i
          BY <4>2, <1>3
        <4>3. CASE q.id = i
          <5>1. U[m + 1] = r /\ m + 1 \in 1..m + 2
            BY <1>9, <1>15
          <5> QED BY <4>3, <5>1, <1>7
        <4> QED BY <3>1, <4>1, <4>2, <4>3
      <3> QED BY <3>2, <1>11, <1>15 DEF InUse, U
    <2> QED BY <2>1, <2>2, <2>3, <2>4, <1>3, <1>11, <1>15 DEF Matching, U
  <1>19. Sharing'
    <2>1. /\ \A i \in Id : responseMap'[i] \in Share =>
               result'[responseMap'[i]] = "waiting" /\ sent'[responseMap'[i]] = i
          /\ \A p \in asked' : p.what \in Share => sent'[p.what] = p.id
      BY <1>1, <1>3 DEF Sharing
    <2>2. ASSUME NEW i \in Id \ crossed, NEW j \in 1..m + 2, RespondsTo(U[j], i), responseMap'[i] \in Share
          PROVE verdict'[responseMap'[i]] = IF U[j].ok THEN "ok" ELSE "bad"
      <3>1. CASE j \in 1..m /\ U[j] = T[j] /\ i # q.id
        <4>1. responseMap[i] # q.what
          BY <3>1, <2>2, <1>1, <1>3, <1>5 DEF Sharing
        <4>2. verdict'[responseMap[i]] = verdict[responseMap[i]]
          BY <4>1, <2>2, <1>1, <1>2, <1>3 DEF TypeOK
        <4> QED BY <4>2, <3>1, <2>2, <1>3, <1>13
      <3>2. CASE j = m + 1 /\ i = q.id /\ U[j] = r
        <4>1. verdict'[q.what] = IF ok THEN "ok" ELSE "bad"
          BY <3>2, <2>2, <1>1, <1>2, <1>3, <1>5 DEF TypeOK
        <4> QED BY <4>1, <3>2, <1>3, <1>5, <1>6
      <3> QED BY <3>1, <3>2, <2>2, <1>17
    <2> QED BY <2>1, <2>2, <1>3, <1>11, <1>15 DEF Sharing, U
  <1>20. Subscribing'
    <2>1. CASE extranonce
      BY <2>1, <1>1, <1>3 DEF Subscribing
    <2>2. CASE ~ extranonce
      <3>1. ASSUME NEW j \in 1..m + 2, U[j] = Broadcast
            PROVE \E k \in 1..(j - 1) : RespondsTo(U[k], 1)
        <4>1. j # m + 1 /\ j # m + 2
          BY <3>1, <1>6, <1>9, <1>15, TokenKinds
        <4>2. j \in 1..m /\ T[j] = Broadcast
          BY <3>1, <4>1, <1>9, <1>15
        <4>3. PICK k \in 1..(j - 1) : RespondsTo(T[k], 1)
          BY <4>2, <2>2, <1>14
        <4>4. k \in 1..m
          BY <4>2, <1>15
        <4> QED BY <4>3, <4>4, <1>9, <1>15
      <3>2. messageId' = 2 /\ crossed' = {} /\ responseMap' = [i \in Id |-> IF i = 1 THEN "subscribe" ELSE "none"]
        BY <2>2, <1>1, <1>3 DEF Subscribing
      <3> QED BY <2>2, <3>1, <3>2, <1>3, <1>11, <1>15 DEF Subscribing, U
    <2> QED BY <2>1, <2>2
  <1>21. Framed'
    BY <1>1, <1>3, <1>6, <1>8, LineFramed
  <1>22. verdict' \in [Share -> {"none", "ok", "bad"}]
    BY <1>1, <1>2 DEF TypeOK
  <1>23. TypeOK'
    BY <1>1, <1>3, <1>9, <1>22 DEF TypeOK
  <1>24. AnswerIsVerdict' /\ JobNeedsExtranonce'
    <2>1. q.what \in Share /\ sent[q.what] \notin crossed => result[q.what] = "waiting"
      BY <1>1, <1>5 DEF Sharing
    <2>2. ASSUME NEW t \in Share, sent'[t] \notin crossed'
          PROVE  (result'[t] = "accepted" => verdict'[t] = "ok") /\ (result'[t] = "error" => verdict'[t] = "bad")
      <3>1. CASE t = q.what
        BY <2>1, <2>2, <3>1, <1>3
      <3>2. CASE t # q.what
        <4>1. verdict'[t] = verdict[t]
          BY <3>2, <1>1, <1>2 DEF TypeOK
        <4> QED BY <2>2, <4>1, <1>1, <1>3 DEF AnswerIsVerdict
      <3> QED BY <3>1, <3>2
    <2> QED BY <2>2, <1>3 DEF AnswerIsVerdict, IInv, JobNeedsExtranonce
  <1> QED BY <1>1, <1>18, <1>19, <1>20, <1>21, <1>23, <1>24 DEF IInv

LEMMA NotifyIInv == ASSUME IInv, NotifyWork PROVE IInv'
  <1> USE DEF NotifyWork, history
  <1>1. /\ TypeOK /\ Framed /\ Matching /\ Sharing /\ Subscribing /\ AnswerIsVerdict
        /\ status = "normal" /\ status' = "normal"
    BY DEF IInv
  <1> DEFINE T == Texts
             U == Texts'
             m == Len(T)
  <1>2. Broadcast \in Text /\ \A i \in Id : ~ RespondsTo(Broadcast, i) /\ ~ RespondsTo(Newline, i)
    BY TokenKinds DEF RespondsTo, Broadcast, Newline
  <1>3. /\ stream' \in Seq(Token) /\ U \in Seq(Token) /\ Len(U) = Len(T) + 2
        /\ \A j \in 1..Len(T) : U[j] = T[j]
        /\ U[Len(T) + 1] = Broadcast /\ U[Len(T) + 2] = Newline
    BY <1>1, <1>2, LineTexts
  <1>4. DOMAIN T = 1..m /\ m \in Nat
    BY <1>1, TextsType
  <1>5. DOMAIN U = 1..m + 2
    BY <1>3, LenProperties
  <1> HIDE DEF T, U
  <1>6. /\ \A j \in 1..m : U[j] = T[j] /\ j \in 1..m + 2
        /\ \A i \in Id, j \in 1..m + 2 : RespondsTo(U[j], i) => j \in 1..m
    <2>1. ASSUME NEW i \in Id, NEW j \in 1..m + 2, RespondsTo(U[j], i) PROVE j \in 1..m
      <3>1. j # m + 1 /\ j # m + 2
        BY <2>1, <1>2, <1>3
      <3> QED BY <3>1, <1>4
    <2> QED BY <2>1, <1>3, <1>4
  <1> HIDE DEF m
  <1>7. Matching'
    <2>1. \A i \in Id \ crossed, j, k \in 1..m + 2 : RespondsTo(U[j], i) /\ RespondsTo(U[k], i) => j = k
      BY <1>1, <1>4, <1>6 DEF Matching, T
    <2>2. ASSUME NEW i \in Id
          PROVE (\E j \in 1..m + 2 : RespondsTo(U[j], i)) <=> (\E j \in 1..m : RespondsTo(T[j], i))
      BY <1>6
    <2>3. ASSUME NEW i \in Id \ crossed
          PROVE IF responseMap'[i] = "none" THEN ~ \E j \in 1..m + 2 : RespondsTo(U[j], i)
                ELSE (\E j \in 1..m + 2 : RespondsTo(U[j], i)) <=> \A q \in asked' : q.id # i
      <3>1. IF responseMap[i] = "none" THEN ~ \E j \in 1..m : RespondsTo(T[j], i)
            ELSE (\E j \in 1..m : RespondsTo(T[j], i)) <=> \A q \in asked : q.id # i
        BY <1>1, <1>4 DEF Matching, T
      <3> QED BY <3>1, <2>2
    <2>4. \A q \in asked' : q.id \notin crossed => responseMap'[q.id] = q.what
      BY <1>1 DEF Matching
    <2>5. ASSUME NEW i \in Id, responseMap'[i] # "none" PROVE InUse(i)'
      <3>1. (\E q \in asked : q.id = i) \/ \E j \in 1..m : RespondsTo(T[j], i)
        BY <2>5, <1>1, <1>4 DEF Matching, InUse, T
      <3>2. (\E q \in asked : q.id = i) \/ \E j \in 1..m + 2 : RespondsTo(U[j], i)
        BY <3>1, <2>2
      <3> QED BY <3>2, <1>5 DEF InUse, U
    <2> QED BY <2>1, <2>3, <2>4, <2>5, <1>5 DEF Matching, U
  <1>8. Sharing'
    <2>1. \A i \in Id \ crossed, j \in 1..m + 2 :
            RespondsTo(U[j], i) /\ responseMap'[i] \in Share =>
              verdict'[responseMap'[i]] = IF U[j].ok THEN "ok" ELSE "bad"
      BY <1>1, <1>4, <1>6 DEF Sharing, T
    <2>2. /\ \A i \in Id : responseMap'[i] \in Share =>
               result'[responseMap'[i]] = "waiting" /\ sent'[responseMap'[i]] = i
          /\ \A q \in asked' : q.what \in Share => sent'[q.what] = q.id
      BY <1>1 DEF Sharing
    <2> QED BY <2>1, <2>2, <1>5 DEF Sharing, U
  <1>9. Subscribing'
    <2>1. CASE extranonce
      BY <2>1, <1>1 DEF Subscribing
    <2>2. CASE ~ extranonce
      <3>1. messageId = 2 /\ crossed = {} /\ responseMap = [i \in Id |-> IF i = 1 THEN "subscribe" ELSE "none"]
        BY <2>2, <1>1 DEF Subscribing
      <3>2. PICK l \in 1..m : RespondsTo(T[l], 1)
        <4>1. 1 \in Id \ crossed /\ responseMap[1] = "subscribe"
          BY <3>1, <1>1, Ids
        <4>2. \A q \in asked : q.id # 1
          BY <4>1, <1>1 DEF Matching
        <4>3. \E j \in DOMAIN Texts : RespondsTo(Texts[j], 1)
          BY <4>1, <4>2, <1>1 DEF Matching
        <4> QED BY <4>3, <1>4 DEF T
      <3>3. ASSUME NEW j \in 1..m + 2, U[j] = Broadcast
            PROVE \E k \in 1..(j - 1) : RespondsTo(U[k], 1)
        <4>1. CASE j \in 1..m
          <5>1. PICK k \in 1..(j - 1) : RespondsTo(T[k], 1)
            BY <4>1, <3>3, <2>2, <1>1, <1>4, <1>6 DEF Subscribing, T
          <5>2. k \in 1..m
            BY <4>1, <1>4
          <5> QED BY <5>1, <5>2, <1>6
        <4>2. CASE j \notin 1..m
          <5>1. l \in 1..(j - 1)
            BY <4>2, <1>4
          <5> QED BY <5>1, <3>2, <1>6
        <4> QED BY <4>1, <4>2
      <3> QED BY <2>2, <3>1, <3>3, <1>5 DEF Subscribing, U
    <2> QED BY <2>1, <2>2
  <1>10. Framed'
    BY <1>1, <1>2, LineFramed
  <1>11. TypeOK'
    BY <1>1, <1>3 DEF TypeOK
  <1>12. AnswerIsVerdict' /\ JobNeedsExtranonce'
    BY DEF IInv, AnswerIsVerdict, JobNeedsExtranonce
  <1> QED BY <1>1, <1>7, <1>8, <1>9, <1>10, <1>11, <1>12 DEF IInv

-----------------------------------------------------------------------------
(* Responses. *)

UnderWay(i) == \E j \in DOMAIN Texts : RespondsTo(Texts[j], i)

(* Response r is handled: it was the only one to its id, whose callback was  *)
(* waiting for it, if the id was never taken while in use, and the others    *)
(* are still there.                                                          *)
LEMMA ResponseTaken ==
  ASSUME TypeOK, Matching, Sharing, Subscribing, NEW r, r = Head(inbox), r \in Response,
         inbox # <<>>, inbox' = Tail(inbox), UNCHANGED <<buffer, stream>>
  PROVE  /\ r.id \in Id /\ r.ok \in BOOLEAN /\ inbox' \in Seq(Text)
         /\ r.id \notin crossed =>
              /\ responseMap[r.id] \in Request /\ \A q \in asked : q.id # r.id
              /\ ~ UnderWay(r.id)'
         /\ \A i \in Id \ {r.id} : UnderWay(i)' <=> UnderWay(i)
         /\ \A j \in DOMAIN Texts' : Texts'[j] \in Token /\ \E k \in DOMAIN Texts : Texts[k] = Texts'[j]
         /\ \A i \in Id \ crossed, j, k \in DOMAIN Texts' :
              RespondsTo(Texts'[j], i) /\ RespondsTo(Texts'[k], i) => j = k
         /\ r.id \notin crossed /\ responseMap[r.id] \in Share =>
              verdict[responseMap[r.id]] = IF r.ok THEN "ok" ELSE "bad"
         /\ ~ extranonce => r.id = 1 /\ crossed = {}
  <1> DEFINE T == Texts
             U == Texts'
             m == Len(T)
  <1>1. /\ inbox' \in Seq(Text) /\ U \in Seq(Token) /\ Len(U) = m - 1
        /\ T[1] = r /\ 1 \in DOMAIN T
        /\ \A j \in 1..(m - 1) : U[j] = T[j + 1]
    BY TailTexts
  <1>2. DOMAIN T = 1..m /\ m \in Nat /\ \A j \in DOMAIN T : T[j] \in Token
    BY TextsType
  <1>3. DOMAIN U = 1..(m - 1)
    BY <1>1, LenProperties
  <1>4. r.id \in Id /\ r.ok \in BOOLEAN
    BY DEF Response
  <1>5. RespondsTo(T[1], r.id)
    <2>1. r.kind = "response"
      BY DEF Response
    <2> QED BY <1>1, <2>1 DEF RespondsTo
  <1>6. UnderWay(r.id)
    BY <1>1, <1>5 DEF UnderWay
  <1>7. r.id \notin crossed => responseMap[r.id] # "none" /\ \A q \in asked : q.id # r.id
    BY <1>4, <1>6 DEF Matching, UnderWay
  <1>8. r.id \notin crossed => responseMap[r.id] \in Request
    BY <1>4, <1>7 DEF TypeOK
  <1>9. \A i \in Id \ crossed, j, k \in DOMAIN T : RespondsTo(T[j], i) /\ RespondsTo(T[k], i) => j = k
    BY DEF Matching
  <1>10. \A j \in DOMAIN U : U[j] = T[j + 1] /\ j + 1 \in DOMAIN T /\ j + 1 # 1
    BY <1>1, <1>2, <1>3
  <1>11. \A i \in Id \ crossed, j, k \in DOMAIN U : RespondsTo(U[j], i) /\ RespondsTo(U[k], i) => j = k
    <2>1. ASSUME NEW i \in Id \ crossed, NEW j \in DOMAIN U, NEW k \in DOMAIN U,
                 RespondsTo(U[j], i), RespondsTo(U[k], i)
          PROVE j = k
      <3>1. j + 1 = k + 1
        BY <2>1, <1>9, <1>10
      <3> QED BY <3>1, <1>2, <1>3
    <2> QED BY <2>1
  <1>12. r.id \notin crossed => \A j \in DOMAIN U : ~ RespondsTo(U[j], r.id)
    BY <1>1, <1>4, <1>5, <1>9, <1>10
  <1>13. ASSUME NEW i \in Id \ {r.id}
         PROVE (\E j \in DOMAIN U : RespondsTo(U[j], i)) <=> (\E j \in DOMAIN T : RespondsTo(T[j], i))
    <2>1. ASSUME NEW j \in DOMAIN T, RespondsTo(T[j], i) PROVE \E k \in DOMAIN U : RespondsTo(U[k], i)
      <3>1. j # 1
        BY <2>1, <1>1 DEF RespondsTo
      <3>2. j - 1 \in DOMAIN U /\ U[j - 1] = T[j]
        BY <3>1, <1>1, <1>2, <1>3
      <3> QED BY <3>2, <2>1
    <2> QED BY <2>1, <1>10
  <1>14. r.id \notin crossed /\ responseMap[r.id] \in Share =>
           verdict[responseMap[r.id]] = IF r.ok THEN "ok" ELSE "bad"
    BY <1>1, <1>4, <1>5 DEF Sharing
  <1>15. ~ extranonce => r.id = 1 /\ crossed = {}
    BY <1>4, <1>7 DEF Subscribing
  <1>16. \A j \in DOMAIN U : U[j] \in Token /\ \E k \in DOMAIN T : T[k] = U[j]
    BY <1>2, <1>10
  <1>17. /\ r.id \notin crossed => ~ UnderWay(r.id)'
         /\ \A i \in Id \ {r.id} : UnderWay(i)' <=> UnderWay(i)
    BY <1>12, <1>13 DEF UnderWay
  <1> QED BY <1>1, <1>4, <1>7, <1>8, <1>11, <1>14, <1>15, <1>16, <1>17

LEMMA MatchingOf ==
  Matching <=>
    /\ \A q \in asked : q.id \notin crossed => responseMap[q.id] = q.what
    /\ \A i \in Id \ crossed, j, k \in DOMAIN Texts :
         RespondsTo(Texts[j], i) /\ RespondsTo(Texts[k], i) => j = k
    /\ \A i \in Id \ crossed : IF responseMap[i] = "none" THEN ~ UnderWay(i)
                              ELSE UnderWay(i) <=> \A q \in asked : q.id # i
    /\ \A i \in Id : responseMap[i] # "none" => UnderWay(i) \/ \E q \in asked : q.id = i
  BY DEF Matching, UnderWay, InUse

LEMMA ResponseIInv == ASSUME IInv, HandleResponse PROVE IInv'
  <1>0. PICK r : r = Head(inbox)
    OBVIOUS
  <1> DEFINE i0 == r.id
             rest == [responseMap EXCEPT ![i0] = "none"]
  <1>1. /\ TypeOK /\ Framed /\ Matching /\ Sharing /\ Subscribing /\ AnswerIsVerdict
        /\ status = "normal" /\ JobNeedsExtranonce
    BY DEF IInv, HandleResponse
  <1>2. /\ r \in Response /\ inbox # <<>> /\ inbox' = Tail(inbox)
        /\ UNCHANGED <<lastJob, buffer, stream, verdict, sent>>
        /\ RunCallback(responseMap[i0], r.ok, rest)
    BY <1>0 DEF HandleResponse, Callback
  <1>3. /\ i0 \in Id /\ r.ok \in BOOLEAN /\ inbox' \in Seq(Text)
        /\ i0 \notin crossed =>
             /\ responseMap[i0] \in Request /\ \A q \in asked : q.id # i0
             /\ ~ UnderWay(i0)'
        /\ \A i \in Id \ {i0} : UnderWay(i)' <=> UnderWay(i)
        /\ \A j \in DOMAIN Texts' : Texts'[j] \in Token /\ \E k \in DOMAIN Texts : Texts[k] = Texts'[j]
        /\ \A i \in Id \ crossed, j, k \in DOMAIN Texts' :
             RespondsTo(Texts'[j], i) /\ RespondsTo(Texts'[k], i) => j = k
        /\ i0 \notin crossed /\ responseMap[i0] \in Share => verdict[responseMap[i0]] = IF r.ok THEN "ok" ELSE "bad"
        /\ ~ extranonce => i0 = 1 /\ crossed = {}
    BY <1>0, <1>1, <1>2, ResponseTaken
  <1>4. responseMap \in [Id -> Request \cup {"none"}] /\ asked \in SUBSET [id : Id, what : Request]
    BY <1>1 DEF TypeOK
  <1>5. Framed'
    BY <1>1, <1>2 DEF Framed, Alternate
  <1>6. "none" \notin Request /\ "subscribe" \notin Share /\ "authorize" \notin Share
    BY <1>1, Ids
  <1>7. \A q \in asked : q.id \in Id /\ (q.id \notin crossed => responseMap[q.id] = q.what)
    BY <1>1, <1>4 DEF Matching
  <1>8. /\ \A i \in Id \ crossed : IF responseMap[i] = "none" THEN ~ UnderWay(i)
                                   ELSE UnderWay(i) <=> \A q \in asked : q.id # i
        /\ \A i \in Id : responseMap[i] # "none" => UnderWay(i) \/ \E q \in asked : q.id = i
    BY <1>1, MatchingOf
  (* authorize and the shares: the id has no callback any more, if it had one. *)
  <1>9. ASSUME responseMap' = rest, asked' = asked, messageId' = messageId, extranonce' = extranonce,
               status' = status, crossed' = crossed, responseMap[i0] # "subscribe",
               \/ result' = result /\ responseMap[i0] \notin Share
               \/ responseMap[i0] \in Share /\
                  result' = [result EXCEPT ![responseMap[i0]] = IF r.ok THEN "accepted" ELSE "error"]
        PROVE IInv'
    <2>1. extranonce
      <3>1. ASSUME ~ extranonce PROVE FALSE
        <4>1. i0 = 1 /\ responseMap[1] = "subscribe"
          BY <3>1, <1>1, <1>3, Ids DEF Subscribing
        <4> QED BY <4>1, <1>9
      <3> QED BY <3>1
    <2>2. /\ responseMap'[i0] = "none" /\ \A i \in Id \ {i0} : responseMap'[i] = responseMap[i]
      BY <1>3, <1>4, <1>9
    <2>3. Matching'
      <3>1. \A q \in asked' : q.id \notin crossed' => responseMap'[q.id] = q.what
        BY <2>2, <1>3, <1>7, <1>9
      <3>2. ASSUME NEW i \in Id \ crossed
            PROVE IF responseMap'[i] = "none" THEN ~ UnderWay(i)'
                  ELSE UnderWay(i)' <=> \A q \in asked' : q.id # i
        <4>1. CASE i = i0
          BY <4>1, <2>2, <1>3
        <4>2. CASE i # i0
          <5>1. (UnderWay(i)' <=> UnderWay(i)) /\ responseMap'[i] = responseMap[i]
            BY <4>2, <2>2, <1>3
          <5> QED BY <5>1, <1>8, <1>9
        <4> QED BY <4>1, <4>2
      <3>3. ASSUME NEW i \in Id, responseMap'[i] # "none" PROVE InUse(i)'
        <4>1. i # i0 /\ responseMap[i] # "none"
          BY <3>3, <2>2
        <4>2. UnderWay(i)' \/ \E q \in asked' : q.id = i
          BY <4>1, <1>3, <1>8, <1>9
        <4> QED BY <4>2 DEF UnderWay, InUse
      <3> QED BY <3>1, <3>2, <3>3, <1>3, <1>9 DEF UnderWay, Matching
    <2>4. Sharing'
      <3>1. \A q \in asked' : q.what \in Share => sent'[q.what] = q.id
        BY <1>1, <1>2, <1>9 DEF Sharing
      <3>2. ASSUME NEW i \in Id, responseMap'[i] \in Share
            PROVE result'[responseMap'[i]] = "waiting" /\ sent'[responseMap'[i]] = i
        <4>1. i # i0 /\ responseMap'[i] = responseMap[i]
          BY <3>2, <2>2, <1>6, SessionAssumption
        <4>2. /\ responseMap[i] # responseMap[i0] /\ result[responseMap[i]] = "waiting"
              /\ sent[responseMap[i]] = i
          BY <3>2, <4>1, <1>1, <1>3 DEF Sharing
        <4>3. result \in [Share -> {"idle", "waiting", "accepted", "error"}]
          BY <1>1 DEF TypeOK
        <4> QED BY <3>2, <4>1, <4>2, <4>3, <1>2, <1>9
      <3>3. ASSUME NEW i \in Id \ crossed, NEW j \in DOMAIN Texts', RespondsTo(Texts'[j], i), responseMap'[i] \in Share
            PROVE verdict'[responseMap'[i]] = IF Texts'[j].ok THEN "ok" ELSE "bad"
        <4>1. i # i0 /\ responseMap'[i] = responseMap[i]
          BY <3>3, <2>2, <1>6, SessionAssumption
        <4>2. PICK k \in DOMAIN Texts : Texts[k] = Texts'[j]
          BY <1>3
        <4>3. verdict[responseMap[i]] = IF Texts[k].ok THEN "ok" ELSE "bad"
          BY <3>3, <4>1, <4>2, <1>1 DEF Sharing
        <4> QED BY <4>1, <4>2, <4>3, <1>2
      <3> QED BY <3>1, <3>2, <3>3, <1>9 DEF Sharing
    <2>5. Subscribing'
      BY <2>1, <2>2, <1>1, <1>9 DEF Subscribing
    <2>6. TypeOK'
      <3>1. responseMap' \in [Id -> Request \cup {"none"}]
        BY <1>3, <1>4, <1>9
      <3>2. result' \in [Share -> {"idle", "waiting", "accepted", "error"}]
        BY <1>1, <1>9 DEF TypeOK
      <3> QED BY <3>1, <3>2, <1>1, <1>2, <1>3, <1>9 DEF TypeOK
    <2>7. AnswerIsVerdict'
      <3>1. ASSUME NEW s \in Share, sent[s] \notin crossed
            PROVE  (result'[s] = "accepted" => verdict[s] = "ok") /\ (result'[s] = "error" => verdict[s] = "bad")
        <4>1. CASE result'[s] = result[s]
          BY <3>1, <4>1, <1>1 DEF AnswerIsVerdict
        <4>2. CASE result'[s] # result[s]
          <5>1. s = responseMap[i0] /\ result'[s] = IF r.ok THEN "accepted" ELSE "error"
            BY <4>2, <1>1, <1>9 DEF TypeOK
          <5>2. i0 \notin crossed
            BY <3>1, <5>1, <1>1, <1>3 DEF Sharing
          <5> QED BY <5>1, <5>2, <1>3
        <4> QED BY <4>1, <4>2
      <3> QED BY <3>1, <1>2, <1>9 DEF AnswerIsVerdict
    <2>8. JobNeedsExtranonce' /\ status' = "normal"
      BY <2>1, <1>1, <1>9 DEF JobNeedsExtranonce
    <2> QED BY <2>3, <2>4, <2>5, <2>6, <2>7, <2>8, <1>5 DEF IInv
  <1>10. CASE responseMap[i0] = "subscribe" /\ ~ r.ok
    <2>1. /\ status' = "dead"
          /\ UNCHANGED <<messageId, responseMap, extranonce, asked, result, crossed>>
      BY <1>2, <1>6, <1>10 DEF RunCallback
    <2>2. TypeOK'
      BY <2>1, <1>1, <1>2, <1>3 DEF TypeOK
    <2> QED BY <2>1, <2>2, <1>1, <1>2 DEF IInv, AnswerIsVerdict, JobNeedsExtranonce
  (* subscribe: its callback was the only one, and authorize's follows. *)
  <1>11. CASE responseMap[i0] = "subscribe" /\ r.ok
    <2>1. extranonce' = TRUE /\ SendCommand("authorize", rest) /\ UNCHANGED <<status, result>>
      BY <1>2, <1>6, <1>11 DEF RunCallback
    <2>2. ~ extranonce
      BY <1>1, <1>3, <1>11 DEF Subscribing
    <2>3. /\ messageId = 2 /\ responseMap = [i \in Id |-> IF i = 1 THEN "subscribe" ELSE "none"] /\ i0 = 1
          /\ crossed = {}
      BY <2>2, <1>1, <1>3 DEF Subscribing
    <2>4. NextId = 2 /\ 2 \in Id /\ 1 \in Id
      BY <2>3, <1>1, Ids, SessionAssumption DEF NextId
    <2>5. asked = {}
      <3>1. ASSUME NEW q \in asked PROVE FALSE
        <4>1. q.what # "none"
          BY <1>4, <1>6
        <4> QED BY <4>1, <2>3, <1>3, <1>7
      <3> QED BY <3>1
    <2>6. /\ messageId' = 3 /\ responseMap' = [i \in Id |-> IF i = 2 THEN "authorize" ELSE "none"]
          /\ asked' = asked \cup {[id |-> 2, what |-> "authorize"]} /\ crossed' = {}
      <3>1. ~ UnderWay(2)
        BY <2>3, <2>4, <1>8
      <3>2. ~ InUse(2)
        BY <3>1, <2>5 DEF UnderWay, InUse
      <3> QED BY <3>2, <2>1, <2>3, <2>4 DEF SendCommand
    <2>7. ASSUME NEW i \in Id PROVE ~ UnderWay(i)'
      <3>1. CASE i = 1
        BY <3>1, <2>3, <1>3
      <3>2. CASE i # 1
        <4>1. responseMap[i] = "none"
          BY <3>2, <2>3
        <4> QED BY <4>1, <3>2, <2>3, <1>3, <1>8
      <3> QED BY <3>1, <3>2
    <2>8. Matching'
      <3>1. \A q \in asked' : q.id = 2 /\ q.what = "authorize"
        BY <2>6, <2>5
      <3>2. \A q \in asked' : responseMap'[q.id] = q.what
        BY <3>1, <2>4, <2>6
      <3>3. ASSUME NEW i \in Id, responseMap'[i] # "none" PROVE InUse(i)'
        <4>1. [id |-> 2, what |-> "authorize"] \in asked' /\ [id |-> 2, what |-> "authorize"].id = i
          BY <3>3, <2>6
        <4> QED BY <4>1 DEF InUse
      <3>4. ASSUME NEW i \in Id
            PROVE IF responseMap'[i] = "none" THEN ~ UnderWay(i)'
                  ELSE UnderWay(i)' <=> \A q \in asked' : q.id # i
        <4>1. CASE i = 2
          <5>1. \E q \in asked' : q.id = i
            <6>1. [id |-> 2, what |-> "authorize"] \in asked' /\ [id |-> 2, what |-> "authorize"].id = i
              BY <4>1, <2>6
            <6> QED BY <6>1
          <5>2. responseMap'[i] # "none"
            BY <4>1, <2>4, <2>6
          <5> QED BY <5>1, <5>2, <2>7
        <4>2. CASE i # 2
          BY <4>2, <2>6, <2>7
        <4> QED BY <4>1, <4>2
      <3> QED BY <2>3, <2>6, <3>2, <3>3, <3>4, <1>3 DEF UnderWay, Matching
    <2>9. Sharing'
      <3>1. \A q \in asked' : q.what \notin Share
        BY <2>5, <2>6, <1>6
      <3>2. \A i \in Id : responseMap'[i] \notin Share
        BY <2>6, <1>6, SessionAssumption
      <3> QED BY <3>1, <3>2 DEF Sharing
    <2>10. Subscribing'
      BY <2>1, <2>6 DEF Subscribing
    <2>11. TypeOK'
      <3>1. messageId' \in 0..(MaxId + 1)
        BY <2>6, SessionAssumption
      <3>2. responseMap' \in [Id -> Request \cup {"none"}] /\ asked' \in SUBSET [id : Id, what : Request]
        BY <2>4, <2>6, <2>5 DEF Request
      <3> QED BY <3>1, <3>2, <2>1, <2>6, <1>1, <1>2, <1>3 DEF TypeOK
    <2>12. AnswerIsVerdict' /\ JobNeedsExtranonce' /\ status' = "normal"
      BY <2>1, <2>3, <2>6, <1>1, <1>2 DEF AnswerIsVerdict, JobNeedsExtranonce
    <2> QED BY <2>8, <2>9, <2>10, <2>11, <2>12, <1>5 DEF IInv
  <1>12. CASE responseMap[i0] \in {"authorize", "none"}
    <2>1. responseMap' = rest /\ UNCHANGED <<status, messageId, extranonce, asked, result, crossed>>
      BY <1>2, <1>6, <1>12, SessionAssumption DEF RunCallback
    <2> QED BY <2>1, <1>6, <1>9, <1>12, SessionAssumption
  <1>13. CASE responseMap[i0] \in Share
    <2>1. /\ result' = [result EXCEPT ![responseMap[i0]] = IF r.ok THEN "accepted" ELSE "error"]
          /\ responseMap' = rest /\ UNCHANGED <<status, messageId, extranonce, asked, crossed>>
      BY <1>2, <1>6, <1>13, SessionAssumption DEF RunCallback
    <2> QED BY <2>1, <1>6, <1>9, <1>13
  <1> QED BY <1>3, <1>4, <1>10, <1>11, <1>12, <1>13 DEF Request

-----------------------------------------------------------------------------
LEMMA InitIInv == Init => IInv
  <1> SUFFICES ASSUME Init PROVE IInv
    OBVIOUS
  <1>1. TypeOK
    <2>1. messageId \in 0..(MaxId + 1)
      BY SessionAssumption DEF Init
    <2>2. <<>> \in Seq(Text) /\ <<>> \in Seq(Token) /\ Len(<<>>) <= 1
      OBVIOUS
    <2>3. 0 \in Id
      BY SessionAssumption DEF Id
    <2> QED BY <2>1, <2>2, <2>3 DEF Init, TypeOK
  <1>2. AnswerIsVerdict /\ JobNeedsExtranonce
    BY DEF Init, AnswerIsVerdict, JobNeedsExtranonce
  <1> QED BY <1>1, <1>2 DEF IInv, Init

LEMMA StepIInv == IInv /\ [Next]_vars => IInv'
  <1> SUFFICES ASSUME IInv, [Next]_vars PROVE IInv'
    OBVIOUS
  <1>1. CASE Connected BY <1>1, ConnectedIInv
  <1>2. CASE Deliver BY <1>2, DeliverIInv
  <1>3. CASE HandleBroadcast BY <1>3, BroadcastIInv
  <1>4. CASE HandleResponse BY <1>4, ResponseIInv
  <1>5. CASE Die BY <1>5, DieIInv
  <1>6. ASSUME NEW s \in Share, Submit(s) PROVE IInv'
    BY <1>6, SubmitIInv
  <1>7. CASE Serve
    BY <1>7, AnswerIInv DEF Serve
  <1>8. CASE NotifyWork BY <1>8, NotifyIInv
  <1>9. CASE UNCHANGED vars BY <1>9, StutterIInv
  <1> QED BY <1>1, <1>2, <1>3, <1>4, <1>5, <1>6, <1>7, <1>8, <1>9 DEF Next

(* The strengthening of the invariants below: it says of every id which one  *)
(* of callback, request and response there are, instead of counting them.    *)
THEOREM SessionInvariant == Spec => []IInv
  BY InitIInv, StepIInv, PTL DEF Spec

LEMMA MatchingCounts == IInv => CallbacksMatchRequests
  <1>0. ASSUME IInv, status = "normal", NEW i \in crossed \cap Id, responseMap[i] # "none"
        PROVE  InUse(i)
    BY <1>0 DEF IInv, Matching
  <1> SUFFICES ASSUME IInv, status = "normal", NEW i \in Id \ crossed
               PROVE  Cardinality({q \in asked : q.id = i})
                        + Cardinality({j \in DOMAIN Texts : RespondsTo(Texts[j], i)})
                      = IF responseMap[i] = "none" THEN 0 ELSE 1
    BY <1>0 DEF CallbacksMatchRequests
  <1> DEFINE A == {q \in asked : q.id = i}
             B == {j \in DOMAIN Texts : RespondsTo(Texts[j], i)}
  <1>1. TypeOK /\ Matching
    BY DEF IInv
  <1>2. \A q \in asked : /\ q.what # "none" /\ q \in [id : Id, what : Request]
                         /\ q.id = i => responseMap[i] = q.what
    BY <1>1, Ids DEF Matching, TypeOK
  <1>3. \A j, k \in B : j = k
    BY <1>1 DEF Matching
  <1>4. \A p, q \in A : p = q
    BY <1>2
  <1>5. IF responseMap[i] = "none" THEN B = {} ELSE B # {} <=> A = {}
    BY <1>1 DEF Matching
  <1>6. responseMap[i] = "none" => A = {}
    BY <1>2
  <1> HIDE DEF A, B
  <1>7. Cardinality({}) = 0
    BY FS_EmptySet
  <1>8. ASSUME A # {} PROVE Cardinality(A) = 1
    <2>1. PICK q : A = {q}
      BY <1>4, <1>8
    <2> QED BY <2>1, FS_Singleton
  <1>9. ASSUME B # {} PROVE Cardinality(B) = 1
    <2>1. PICK j : B = {j}
      BY <1>3, <1>9
    <2> QED BY <2>1, FS_Singleton
  <1>10. CASE responseMap[i] = "none"
    BY <1>5, <1>6, <1>7, <1>10 DEF A, B
  <1>11. CASE responseMap[i] # "none" /\ A = {}
    <2>1. Cardinality(A) = 0 /\ Cardinality(B) = 1
      BY <1>5, <1>7, <1>9, <1>11
    <2> QED BY <2>1, <1>11 DEF A, B
  <1>12. CASE responseMap[i] # "none" /\ A # {}
    <2>1. Cardinality(A) = 1 /\ Cardinality(B) = 0
      BY <1>5, <1>7, <1>8, <1>12
    <2> QED BY <2>1, <1>12 DEF A, B
  <1> QED BY <1>10, <1>11, <1>12

(* The types of the session's fields hold in every state: ids stay in their  *)
(* range when they wrap, and the read buffer never holds more than the text  *)
(* of one line.                                                              *)
THEOREM TypeCorrect == Spec => []TypeOK
  BY SessionInvariant, PTL DEF IInv

(* A submitter hears the server's verdict on its own latest share, if the    *)
(* id of that was not taken while in use.                                    *)
THEOREM AnswersAreVerdicts == Spec => []AnswerIsVerdict
  BY SessionInvariant, PTL DEF IInv

(* responseMap has one callback for every request that is with the server or *)
(* whose response is under way, and no other, but for ids that were taken    *)
(* while in use; and of those no callback waits for nothing.                 *)
THEOREM CallbacksMatched == Spec => []CallbacksMatchRequests
  BY SessionInvariant, MatchingCounts, PTL

(* A session has no job before it has the extranonce.                        *)
THEOREM JobsHaveExtranonce == Spec => []JobNeedsExtranonce
  BY SessionInvariant, PTL DEF IInv
=============================================================================
