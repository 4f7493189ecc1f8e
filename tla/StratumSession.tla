--------------------------- MODULE StratumSession ---------------------------
(***************************************************************************)
(* The StratumActor (network/Stratum.scala): one connection to a stratum   *)
(* server, line framing over TCP, JSON-RPC requests whose callbacks wait   *)
(* in responseMap under a wrapping request id, and the shares that miners  *)
(* submit through it.                                                      *)
(*                                                                         *)
(* TCP delivers the server's lines in order, in chunks of any size.  A     *)
(* line is two tokens, its text and its newline; a chunk that ends inside  *)
(* the text is handled as one that ends just before it or just after it.   *)
(***************************************************************************)
EXTENDS Naturals, Sequences, FiniteSets

CONSTANTS
  Share,      \* submission slots of the miners: each has one share under way
  MaxId,      \* the largest request id (100000)
  MaxStream   \* bound: tokens of the server that the actor has not handled

ASSUME SessionAssumption ==
  /\ Share \cap {"subscribe", "authorize", "none"} = {}
  /\ MaxId \in Nat \ {0, 1}
  /\ MaxStream \in Nat

VARIABLES
  status,       \* receive: "connecting" (waitingConnect), "normal"; or "dead"
  messageId,    \* the id of the next request, before the wrap
  responseMap,  \* the request each id's callback belongs to, or "none"
  extranonce,   \* the server's extranonce has been stored
  lastJob,      \* some mining.notify has been stored
  buffer,       \* received tokens after the last newline
  inbox,        \* JSONResponse messages the actor has sent itself
  asked,        \* requests the server has not answered
  stream,       \* tokens the server has sent that TCP has not delivered
  result,       \* what each slot's submitter has heard of its latest share
  verdict,      \* what the server decided on it
  sent,         \* history: the id each slot's latest share went under
  crossed       \* history: ids that were taken while they were in use

history == <<sent, crossed>>
vars == <<status, messageId, responseMap, extranonce, lastJob, buffer, inbox,
          asked, stream, result, verdict, history>>

Id == 0..MaxId
Request == Share \cup {"subscribe", "authorize"}

Response == [kind : {"response"}, id : Id, ok : BOOLEAN]
Broadcast == [kind |-> "notify"]
Newline == [kind |-> "newline"]
Text == Response \cup {Broadcast}
Token == Text \cup {Newline}

(* Types of the session's fields: ids wrap, and the read buffer never holds  *)
(* more than the text of one line that is not complete yet.                  *)
TypeOK ==
  /\ status \in {"connecting", "normal", "dead"}
  /\ messageId \in 0..(MaxId + 1)
  /\ responseMap \in [Id -> Request \cup {"none"}]
  /\ extranonce \in BOOLEAN /\ lastJob \in BOOLEAN
  /\ buffer \in Seq(Text) /\ Len(buffer) <= 1
  /\ inbox \in Seq(Text)
  /\ asked \in SUBSET [id : Id, what : Request]
  /\ stream \in Seq(Token)
  /\ result \in [Share -> {"idle", "waiting", "accepted", "error"}]
  /\ verdict \in [Share -> {"none", "ok", "bad"}]
  /\ sent \in [Share -> Id] /\ crossed \in SUBSET Id

Init ==
  /\ status = "connecting"
  /\ messageId = 1
  /\ responseMap = [i \in Id |-> "none"]
  /\ extranonce = FALSE /\ lastJob = FALSE
  /\ buffer = <<>> /\ inbox = <<>> /\ asked = {} /\ stream = <<>>
  /\ result = [s \in Share |-> "idle"]
  /\ verdict = [s \in Share |-> "none"]
  /\ sent = [s \in Share |-> 0] /\ crossed = {}
-----------------------------------------------------------------------------
(* sendJsonCommand: the id of the next request. *)
NextId == IF messageId > MaxId THEN 0 ELSE messageId

(* The texts of the server that the actor has not handled. *)
Texts == inbox \o buffer \o stream
RespondsTo(t, i) == t.kind = "response" /\ t.id = i

(* Id i is that of a request without answer, or of an answer under way. *)
InUse(i) ==
  \/ \E q \in asked : q.id = i
  \/ \E j \in DOMAIN Texts : RespondsTo(Texts[j], i)

(* sendJsonCommand, on the callbacks rm that are left: the request goes to  *)
(* the server and its callback into responseMap, in the place of whatever   *)
(* callback still waits under an id that has come round.                    *)
SendCommand(what, rm) ==
  /\ messageId' = NextId + 1
  /\ responseMap' = [rm EXCEPT ![NextId] = what]
  /\ asked' = asked \cup {[id |-> NextId, what |-> what]}
  /\ crossed' = IF InUse(NextId) THEN crossed \cup {NextId} ELSE crossed

(* Tcp.Connected, then beginSession. *)
Connected ==
  /\ status = "connecting"
  /\ status' = "normal"
  /\ SendCommand("subscribe", responseMap)
  /\ UNCHANGED <<extranonce, lastJob, buffer, inbox, stream, result, verdict, sent>>

(* breakSome finds the newlines of what is in the buffer one by one. *)
LastNewline(all) ==
  CHOOSE c \in {0} \cup {d \in DOMAIN all : all[d] = Newline} :
    \A d \in DOMAIN all : all[d] = Newline => d <= c

(* The complete lines without their newlines, two tokens each. *)
Lines(all) == [k \in 1..(LastNewline(all) \div 2) |-> all[2 * k - 1]]

(* Slip: the text after the last newline of a chunk is dropped. *)
ReceivedDropsRest(n) ==
  LET all == buffer \o SubSeq(stream, 1, n) IN
  /\ status = "normal"
  /\ inbox' = inbox \o SelectSeq(SubSeq(all, 1, LastNewline(all)), LAMBDA t : t # Newline)
  /\ buffer' = <<>>
  /\ stream' = SubSeq(stream, n + 1, Len(stream))
  /\ UNCHANGED <<status, messageId, responseMap, extranonce, lastJob, asked, result, verdict,
                 history>>

(* Slip: the complete lines are sent and stay in the buffer. *)
ReceivedKeepsAll(n) ==
  LET all == buffer \o SubSeq(stream, 1, n) IN
  /\ status = "normal"
  /\ inbox' = inbox \o Lines(all)
  /\ buffer' = all
  /\ stream' = SubSeq(stream, n + 1, Len(stream))
  /\ UNCHANGED <<status, messageId, responseMap, extranonce, lastJob, asked, result, verdict,
                 history>>

(* Tcp.Received: breakSome sends the actor one JSONResponse for each        *)
(* complete line and keeps the rest.                                        *)
Received(n) ==
  LET all == buffer \o SubSeq(stream, 1, n) IN
  /\ status = "normal"
  /\ inbox' = inbox \o Lines(all)
  /\ buffer' = SubSeq(all, LastNewline(all) + 1, Len(all))
  /\ stream' = SubSeq(stream, n + 1, Len(stream))
  /\ UNCHANGED <<status, messageId, responseMap, extranonce, lastJob, asked, result, verdict,
                 history>>

(* A broadcast that the actor keeps: mining.notify. *)
HandleBroadcast ==
  /\ status = "normal"
  /\ inbox # <<>> /\ Head(inbox) = Broadcast
  /\ inbox' = Tail(inbox)
  /\ lastJob' = TRUE
  /\ UNCHANGED <<status, messageId, responseMap, extranonce, buffer, asked, stream,
                 result, verdict, history>>

(* The callback of request what, with the callbacks rest left.  An error in  *)
(* place of the result of mining.subscribe makes its callback throw;         *)
(* authorize's only logs.                                                    *)
RunCallback(what, ok, rest) ==
  \/ /\ what = "subscribe" /\ ok
     /\ extranonce' = TRUE
     /\ SendCommand("authorize", rest)
     /\ UNCHANGED <<status, result>>
  \/ /\ what = "subscribe" /\ ~ ok
     /\ status' = "dead"
     /\ UNCHANGED <<messageId, responseMap, extranonce, asked, result, crossed>>
  \/ /\ what \in {"authorize", "none"}
     /\ responseMap' = rest
     /\ UNCHANGED <<status, messageId, extranonce, asked, result, crossed>>
  \/ /\ what \in Share
     /\ result' = [result EXCEPT ![what] = IF ok THEN "accepted" ELSE "error"]
     /\ responseMap' = rest
     /\ UNCHANGED <<status, messageId, extranonce, asked, crossed>>

(* Slip: the callback stays in responseMap after it has run. *)
CallbackKept(r) == RunCallback(responseMap[r.id], r.ok, responseMap)

(* Slip: the response's error field is not looked at. *)
CallbackErrorIgnored(r) ==
  RunCallback(responseMap[r.id], TRUE, [responseMap EXCEPT ![r.id] = "none"])

(* responseMap(id)(js), then responseMap -= id; an id without a callback is  *)
(* logged.                                                                   *)
Callback(r) ==
  RunCallback(responseMap[r.id], r.ok, [responseMap EXCEPT ![r.id] = "none"])

HandleResponse ==
  /\ status = "normal"
  /\ inbox # <<>> /\ Head(inbox) \in Response
  /\ inbox' = Tail(inbox)
  /\ Callback(Head(inbox))
  /\ UNCHANGED <<lastJob, buffer, stream, verdict, sent>>

(* SubmitStratumJob from the miner of slot s, who has a job of this session. *)
(* A slot is free for another share when the one before it has its verdict.  *)
Submit(s) ==
  /\ status = "normal" /\ lastJob
  /\ result[s] # "waiting" /\ \A q \in asked : q.what # s
  /\ SendCommand(s, responseMap)
  /\ sent' = [sent EXCEPT ![s] = NextId]
  /\ result' = [result EXCEPT ![s] = "waiting"]
  /\ verdict' = [verdict EXCEPT ![s] = "none"]
  /\ UNCHANGED <<status, extranonce, lastJob, buffer, inbox, stream>>

(* ConnectionClosed, CommandFailed, HealthCheck, a line that is not JSON:    *)
(* the actor throws, and its restart ends in postStop's own stop.            *)
Die ==
  /\ status # "dead"
  /\ status' = "dead"
  /\ UNCHANGED <<messageId, responseMap, extranonce, lastJob, buffer, inbox, asked,
                 stream, result, verdict, history>>
-----------------------------------------------------------------------------
(* The server (external): it answers each request once, in any order, and    *)
(* sends work once it has answered mining.subscribe.                         *)
Line(text) == stream \o <<text, Newline>>
Room == Len(stream) + Len(buffer) + 2 * Len(inbox) + 2 <= MaxStream

Answer(q) ==
  /\ status = "normal" /\ Room
  /\ \E ok \in BOOLEAN :
       /\ stream' = Line([kind |-> "response", id |-> q.id, ok |-> ok])
       /\ verdict' = IF q.what \in Share
                     THEN [verdict EXCEPT ![q.what] = IF ok THEN "ok" ELSE "bad"]
                     ELSE verdict
  /\ asked' = asked \ {q}
  /\ UNCHANGED <<status, messageId, responseMap, extranonce, lastJob, buffer, inbox, result,
                 history>>

NotifyWork ==
  /\ status = "normal" /\ Room
  /\ \A q \in asked : q.what # "subscribe"
  /\ stream' = Line(Broadcast)
  /\ UNCHANGED <<status, messageId, responseMap, extranonce, lastJob, buffer, inbox,
                 asked, result, verdict, history>>

Deliver == \E n \in 1..Len(stream) : Received(n)
Serve == \E q \in asked : Answer(q)

Next ==
  \/ Connected \/ Deliver \/ HandleBroadcast \/ HandleResponse \/ Die
  \/ \E s \in Share : Submit(s)
  \/ Serve \/ NotifyWork

Spec == Init /\ [][Next]_vars

(* TCP delivers and the actor works off its mailbox.  Nothing obliges the    *)
(* server to answer or the miners to submit.                                 *)
Fairness == WF_vars(Deliver) /\ WF_vars(HandleBroadcast \/ HandleResponse)

FairSpec == Spec /\ Fairness
-----------------------------------------------------------------------------
(* What a submitter hears is the server's verdict on its own latest share,   *)
(* although answers come in any order, in pieces, and under ids that are     *)
(* used again.  Only a request whose id is in use when it is sent, or is     *)
(* taken again before its own answer has come, may be answered wrongly.      *)
AnswerIsVerdict ==
  \A s \in Share : sent[s] \notin crossed =>
    /\ result[s] = "accepted" => verdict[s] = "ok"
    /\ result[s] = "error" => verdict[s] = "bad"

(* While the session lives, an id has a callback exactly while its request   *)
(* is with the server or its response is under way, and then only one of     *)
(* the two holds, once: no callback leaks, none is lost, no response comes   *)
(* to the callback of another request.  Of an id that was taken while in     *)
(* use it is still true that a callback does not wait for nothing.           *)
CallbacksMatchRequests ==
  status = "normal" =>
    \A i \in Id :
      LET waits == responseMap[i] # "none"
          open == Cardinality({q \in asked : q.id = i})
                    + Cardinality({j \in DOMAIN Texts : RespondsTo(Texts[j], i)})
      IN IF i \in crossed THEN waits => InUse(i) ELSE open = IF waits THEN 1 ELSE 0

(* A session never has a job before it has the extranonce the job needs:     *)
(* framing and the self-sent messages keep the order of the server's lines.  *)
JobNeedsExtranonce == lastJob => extranonce

(* A verdict reaches the submitter, or the session dies, or the share's id   *)
(* is one that was taken while in use.                                       *)
VerdictArrives ==
  \A s \in Share :
    (result[s] = "waiting" /\ verdict[s] # "none")
      ~> (result[s] # "waiting" \/ status = "dead" \/ sent[s] \in crossed)
=============================================================================
