----------------------- MODULE BrokerConnectionProofs -----------------------
(***************************************************************************)
(* What BrokerConnection's runs check, for every bound and all data.  That *)
(* a call takes the response due to the call `late' calls earlier needs    *)
(* IInv: the numbers on the two directions of the socket, read as one      *)
(* queue, follow each other up to the last request sent, and how long that *)
(* queue is.  That the two sides agree on the sessions needs Known: what   *)
(* each knows of the other at every point of a call.                       *)
(***************************************************************************)
EXTENDS BrokerConnection, SequenceTheorems, TLAPS

Waiting == IF call = NoCall THEN 0 ELSE 1

(* The oldest request whose response the library has not taken             *)
Oldest == sent - late - Waiting + 1

Numbered ==
  /\ \A i \in 1 .. Len(toClient) : toClient[i].n = Oldest + i - 1
  /\ thread = "serving" =>
       /\ \A i \in 1 .. Len(toBroker) : toBroker[i].n = Oldest + Len(toClient) + i - 1
       /\ Len(toClient) + Len(toBroker) = late + Waiting

Counts ==
  /\ late + Waiting <= sent
  /\ bound + Len(toBroker) <= sent
  /\ call # NoCall /\ call.op = "open_session" => next \in Handle
  /\ connected /\ thread # "serving" => thread = "gone"

IInv ==
  /\ TypeOK
  /\ Counts
  /\ connected /\ (thread = "serving" \/ call # NoCall) => Numbered

-----------------------------------------------------------------------------
(* The invariant holds at first and every step preserves it.               *)

USE DEF Waiting, Oldest, NoSession

LEMMA InitIInv == Init => IInv
  BY ConnectionAssumption
     DEF Init, IInv, TypeOK, Counts, Numbered, Handle, Session, NoCall, NoSignature,
         Request, Response

(* A request joins the queue with the next number.                         *)
LEMMA SendIInv ==
  ASSUME IInv, NEW op \in Method, NEW h \in Handle, NEW sid \in Session \cup {NoSession},
         NEW data \in Data \cup {NoData}, Send(op, h, sid, data),
         op = "open_session" => next \in Handle
  PROVE  IInv'
<1> DEFINE q == [n |-> sent + 1, op |-> op, h |-> h, sid |-> sid, data |-> data]
<1>0. connected /\ call = NoCall /\ sent < MaxCalls /\ thread = "serving"
  BY DEF Send, Idle, IInv, TypeOK, Counts
<1>1. q \in Request /\ q # NoCall
  BY ConnectionAssumption DEF Request, Method, NoCall, IInv, TypeOK
<1>2. toBroker' = Append(toBroker, q) /\ sent' = sent + 1 /\ call' = q
  BY DEF Send
<1>3. UNCHANGED <<connected, next, brokerSid, loggedIn, late, returned, toClient, broker>>
  BY DEF Send
<1>4. /\ toBroker' \in Seq(Request)
      /\ Len(toBroker') = Len(toBroker) + 1
      /\ \A i \in 1 .. Len(toBroker) : toBroker'[i] = toBroker[i]
      /\ toBroker'[Len(toBroker) + 1] = q
  BY <1>1, <1>2, AppendProperties DEF IInv, TypeOK
<1>5. q.n = sent + 1 /\ q.op = op
  OBVIOUS
<1>6. /\ Len(toBroker) \in Nat /\ Len(toClient) \in Nat
      /\ thread' = thread /\ bound' = bound /\ bstate' = bstate
      /\ sent \in Nat /\ late \in Nat /\ Waiting = 0 /\ Waiting' = 1
  BY <1>0, <1>1, <1>2, <1>3, ConnectionAssumption DEF IInv, TypeOK, broker
<1> HIDE DEF q
<1>7. TypeOK'
  BY <1>0, <1>1, <1>2, <1>3, <1>4, <1>6, ConnectionAssumption DEF IInv, TypeOK
<1>8. Counts'
  <2>1. late' + Waiting' <= sent'
    BY <1>0, <1>2, <1>3, <1>6, ConnectionAssumption DEF IInv, TypeOK, Counts
  <2>2. bound' + Len(toBroker') <= sent'
    BY <1>2, <1>4, <1>6, ConnectionAssumption DEF IInv, TypeOK, Counts, Session
  <2>3. call'.op = "open_session" => next' \in Handle
    BY <1>2, <1>3, <1>5
  <2> QED
    BY <1>0, <1>3, <1>6, <2>1, <2>2, <2>3 DEF Counts
<1>9. Numbered'
  <2>1. Numbered /\ Oldest' = Oldest /\ Oldest \in Int
    BY <1>0, <1>2, <1>3, <1>6, ConnectionAssumption DEF IInv, TypeOK
  <2>2. \A i \in 1 .. Len(toClient') : toClient'[i].n = Oldest' + i - 1
    BY <1>3, <2>1 DEF Numbered
  <2>3. Len(toClient') + Len(toBroker') = late' + Waiting'
    BY <1>0, <1>3, <1>4, <1>6, <2>1, ConnectionAssumption DEF IInv, TypeOK, Numbered
  <2>4. sent + 1 = Oldest + Len(toClient) + Len(toBroker)
    BY <1>0, <1>6, <2>1 DEF Numbered
  <2>5. \A i \in 1 .. Len(toBroker') : toBroker'[i].n = Oldest' + Len(toClient') + i - 1
    <3> SUFFICES ASSUME NEW i \in 1 .. Len(toBroker) + 1
                 PROVE  toBroker'[i].n = Oldest + Len(toClient) + i - 1
      BY <1>3, <1>4, <2>1
    <3>1. CASE i \in 1 .. Len(toBroker)
      BY <1>0, <1>4, <2>1, <3>1 DEF Numbered
    <3>2. CASE i = Len(toBroker) + 1
      BY <1>4, <1>5, <1>6, <2>1, <2>4, <3>2
    <3> QED
      BY <1>6, <3>1, <3>2
  <2> QED
    BY <2>2, <2>3, <2>5 DEF Numbered
<1> QED
  BY <1>7, <1>8, <1>9 DEF IInv

(* Taking a response leaves the queue as long as the calls still owed.     *)
LEMMA ReceiveIInv ==
  ASSUME IInv, Receive
  PROVE  IInv'
<1> DEFINE r == Head(toClient)
<1>0. connected /\ call # NoCall /\ toClient # << >> /\ call' = NoCall
  BY DEF Receive
<1>1. /\ r \in Response
      /\ toClient' = Tail(toClient) /\ toClient' \in Seq(Response)
      /\ Len(toClient) \in Nat /\ Len(toClient') = Len(toClient) - 1
      /\ \A i \in 1 .. Len(toClient') : toClient'[i] = toClient[i + 1]
  BY <1>0, HeadTailProperties DEF Receive, IInv, TypeOK
<1>2. UNCHANGED <<connected, sent, late, toBroker, thread, bound, bstate>>
  BY DEF Receive, broker
<1>3. /\ sent \in Nat /\ late \in Nat /\ Len(toBroker) \in Nat
      /\ Waiting = 1 /\ Waiting' = 0 /\ Oldest' = Oldest + 1
  BY <1>0, <1>2, ConnectionAssumption DEF IInv, TypeOK
<1>4. TypeOK'
  <2>1. SessionOpened(r) \/ LoggedIn(r) \/ LoggedOut(r) \/ Signed(r) \/ CallFails(r)
    BY DEF Receive
  <2>2. /\ next' \in 1 .. MaxHandle + 1
        /\ brokerSid' \in [Handle -> Session \cup {NoSession}]
        /\ loggedIn' \in SUBSET Handle
        /\ returned' \in [asked : Data \cup {NoData}, got : Data \cup {NoData}]
    <3>1. call \in Request
      BY <1>0 DEF IInv, TypeOK
    <3>2. CASE SessionOpened(r)
      BY <1>0, <1>1, <3>1, <3>2, ConnectionAssumption
         DEF IInv, TypeOK, Counts, SessionOpened, Response, Handle
    <3>3. CASE LoggedIn(r) \/ LoggedOut(r)
      BY <3>1, <3>3 DEF IInv, TypeOK, LoggedIn, LoggedOut, Request
    <3>4. CASE Signed(r)
      BY <1>1, <3>1, <3>4 DEF IInv, TypeOK, Signed, Request, Response
    <3>5. CASE CallFails(r)
      BY <3>5 DEF IInv, TypeOK, CallFails
    <3> QED
      BY <2>1, <3>2, <3>3, <3>4, <3>5
  <2> QED
    BY <1>0, <1>1, <1>2, <2>2 DEF IInv, TypeOK
<1>5. Counts'
  BY <1>0, <1>2, <1>3 DEF IInv, Counts
<1>6. Numbered'
  <2>1. Numbered
    BY <1>0 DEF IInv
  <2>2. \A i \in 1 .. Len(toClient') : toClient'[i].n = Oldest' + i - 1
    <3> SUFFICES ASSUME NEW i \in 1 .. Len(toClient')
                 PROVE  toClient'[i].n = Oldest' + i - 1
      OBVIOUS
    <3>1. toClient[i + 1].n = Oldest + (i + 1) - 1
      BY <1>1, <2>1 DEF Numbered
    <3> QED
      BY <1>1, <1>3, <3>1
  <2>3. thread' = "serving" => Len(toClient') + Len(toBroker') = late' + Waiting'
    BY <1>1, <1>2, <1>3, <2>1 DEF Numbered
  <2>4. thread' = "serving" =>
          \A i \in 1 .. Len(toBroker') : toBroker'[i].n = Oldest' + Len(toClient') + i - 1
    BY <1>1, <1>2, <1>3, <2>1 DEF Numbered
  <2> QED
    BY <2>2, <2>3, <2>4 DEF Numbered
<1> QED
  BY <1>4, <1>5, <1>6 DEF IInv

(* The daemon answers the request at the head with its number.             *)
LEMMA AnswerIInv ==
  ASSUME IInv, thread = "serving", toBroker # << >>,
         NEW q, q = Head(toBroker), NEW ok \in BOOLEAN, NEW sid \in Session \cup {NoSession},
         Answer(q, ok, sid), UNCHANGED client,
         bstate' \in [Session -> {"none", "authenticated", "logged_in", "closed"}],
         bound' \in {bound, bound + 1}
  PROVE  IInv'
<1> DEFINE r == [n |-> q.n, op |-> q.op, data |-> q.data, ok |-> ok, sid |-> sid]
<1>0. UNCHANGED <<connected, next, brokerSid, loggedIn, call, sent, late, returned>>
  BY DEF client
<1>1. /\ q \in Request /\ q = toBroker[1]
      /\ toBroker' \in Seq(Request)
      /\ Len(toBroker) \in Nat /\ Len(toBroker) >= 1 /\ Len(toBroker') = Len(toBroker) - 1
      /\ \A i \in 1 .. Len(toBroker') : toBroker'[i] = toBroker[i + 1]
  BY HeadTailProperties DEF Answer, IInv, TypeOK
<1>2. r \in Response /\ r.n = q.n
  BY <1>1 DEF Request, Response
<1>3. /\ sent \in Nat /\ late \in Nat /\ bound \in Nat /\ Waiting \in {0, 1}
      /\ sent <= MaxCalls /\ Waiting' = Waiting /\ Oldest' = Oldest /\ Oldest \in Int
      /\ Len(toClient) \in Nat
  BY <1>0, ConnectionAssumption DEF IInv, TypeOK, Session
<1>4. bound' \in Session \cup {NoSession} /\ bound' + Len(toBroker') <= sent'
  BY <1>0, <1>1, <1>3, ConnectionAssumption DEF IInv, Counts, Session
<1> HIDE DEF r
<1>5. CASE connected
  <2>1. toClient' = Append(toClient, r) /\ thread' = thread
    BY <1>5 DEF Answer, r
  <2>2. /\ toClient' \in Seq(Response)
        /\ Len(toClient') = Len(toClient) + 1
        /\ \A i \in 1 .. Len(toClient) : toClient'[i] = toClient[i]
        /\ toClient'[Len(toClient) + 1] = r
    BY <1>2, <2>1, AppendProperties DEF IInv, TypeOK
  <2>3. TypeOK' /\ Counts'
    BY <1>0, <1>1, <1>4, <2>1, <2>2 DEF IInv, TypeOK, Counts
  <2>4. Numbered
    BY <1>5 DEF IInv
  <2>5. r.n = Oldest + Len(toClient)
    <3>1. 1 \in 1 .. Len(toBroker)
      BY <1>1
    <3>2. toBroker[1].n = Oldest + Len(toClient) + 1 - 1
      BY <2>4, <3>1 DEF Numbered
    <3> QED
      BY <1>1, <1>2, <1>3, <3>2
  <2>6. \A i \in 1 .. Len(toClient') : toClient'[i].n = Oldest' + i - 1
    <3> SUFFICES ASSUME NEW i \in 1 .. Len(toClient) + 1
                 PROVE  toClient'[i].n = Oldest + i - 1
      BY <1>3, <2>2
    <3>1. CASE i \in 1 .. Len(toClient)
      <4>1. toClient[i].n = Oldest + i - 1
        BY <2>4, <3>1 DEF Numbered
      <4> QED
        BY <2>2, <3>1, <4>1
    <3>2. CASE i = Len(toClient) + 1
      <4> HIDE DEF Oldest
      <4> QED
        BY <1>3, <2>2, <2>5, <3>2
    <3> QED
      BY <1>3, <3>1, <3>2
  <2>7. Len(toClient') + Len(toBroker') = late' + Waiting'
    <3>1. Len(toClient) + Len(toBroker) = late + Waiting
      BY <2>4 DEF Numbered
    <3>2. Len(toBroker') = Len(toBroker) - 1 /\ Len(toClient') = Len(toClient) + 1
      BY <1>1, <2>2
    <3>3. late' = late /\ Waiting' = Waiting
      BY <1>0
    <3>4. Len(toClient) \in Nat /\ Len(toBroker) \in Nat
      BY <1>1, <1>3
    <3> HIDE DEF Waiting
    <3> QED
      BY <3>1, <3>2, <3>3, <3>4
  <2>8. \A i \in 1 .. Len(toBroker') : toBroker'[i].n = Oldest' + Len(toClient') + i - 1
    <3> SUFFICES ASSUME NEW i \in 1 .. Len(toBroker')
                 PROVE  toBroker'[i].n = Oldest' + Len(toClient') + i - 1
      OBVIOUS
    <3>1. toBroker[i + 1].n = Oldest + Len(toClient) + (i + 1) - 1
      BY <1>1, <2>4 DEF Numbered
    <3>2. Len(toClient') = Len(toClient) + 1 /\ toBroker'[i] = toBroker[i + 1]
      BY <1>1, <2>2
    <3>3. i \in Int
      BY <1>1
    <3> HIDE DEF Oldest
    <3> QED
      BY <1>3, <3>1, <3>2, <3>3
  <2> QED
    BY <2>3, <2>6, <2>7, <2>8 DEF IInv, Numbered
<1>6. CASE ~connected
  <2>1. toClient' = toClient /\ thread' = "unwind"
    BY <1>6 DEF Answer
  <2> QED
    BY <1>0, <1>1, <1>4, <1>6, <2>1 DEF IInv, TypeOK, Counts
<1> QED
  BY <1>5, <1>6

(* The daemon's steps that answer a request.                               *)
LEMMA ServeIInv ==
  ASSUME IInv, Serve
  PROVE  IInv'
<1> DEFINE q == Head(toBroker)
<1>0. thread = "serving" /\ toBroker # << >> /\ UNCHANGED client
  BY DEF Serve
<1>1. /\ ServeOpen(q) \/ ServeLogin(q) \/ ServeLogout(q) \/ ServeSign(q)
         \/ ServeQuery(q) \/ Refuse(q)
  BY DEF Serve
<1>2. q \in Request /\ Len(toBroker) \in Nat /\ Len(toBroker) >= 1
  BY <1>0, HeadTailProperties DEF IInv, TypeOK
<1>3. /\ sent \in Nat /\ sent <= MaxCalls /\ bound \in Nat
      /\ bound \in Session \cup {NoSession}
      /\ bstate \in [Session -> {"none", "authenticated", "logged_in", "closed"}]
  BY ConnectionAssumption DEF IInv, TypeOK, Session
<1>4. bound + 1 \in Session
  BY <1>2, <1>3, ConnectionAssumption DEF IInv, Counts, Session
<1> HIDE DEF q
<1>5. CASE ServeOpen(q)
  <2>1. /\ bstate' \in [Session -> {"none", "authenticated", "logged_in", "closed"}]
        /\ bound' = bound + 1 /\ Answer(q, TRUE, bound + 1)
    BY <1>3, <1>5 DEF ServeOpen
  <2> QED
    BY <1>0, <1>4, <2>1, AnswerIInv DEF q
<1>6. CASE ServeLogin(q)
  <2>1. /\ bstate' \in [Session -> {"none", "authenticated", "logged_in", "closed"}]
        /\ bound' = bound /\ Answer(q, TRUE, q.sid) /\ q.sid \in Session \cup {NoSession}
    BY <1>2, <1>3, <1>6 DEF ServeLogin, Request
  <2> QED
    BY <1>0, <2>1, AnswerIInv DEF q
<1>7. CASE ServeLogout(q)
  <2>1. /\ bstate' \in [Session -> {"none", "authenticated", "logged_in", "closed"}]
        /\ bound' = bound /\ Answer(q, TRUE, bound)
    BY <1>3, <1>7 DEF ServeLogout
  <2> QED
    BY <1>0, <1>3, <2>1, AnswerIInv DEF q
<1>8. CASE ServeSign(q) \/ ServeQuery(q) \/ Refuse(q)
  <2>1. PICK ok \in BOOLEAN : Answer(q, ok, NoSession)
    BY <1>8 DEF ServeSign, ServeQuery, Refuse
  <2>2. bound' = bound /\ bstate' = bstate
    BY <1>8 DEF ServeSign, ServeQuery, Refuse
  <2>3. NoSession \in Session \cup {NoSession}
    OBVIOUS
  <2> QED
    BY <1>0, <1>3, <2>1, <2>2, <2>3, AnswerIInv DEF q
<1> QED
  BY <1>1, <1>5, <1>6, <1>7, <1>8

(* Every step.                                                             *)
LEMMA StepIInv ==
  ASSUME IInv, [Next]_vars
  PROVE  IInv'
<1>0. /\ sent \in Nat /\ late \in Nat /\ Len(toBroker) \in Nat /\ Len(toClient) \in Nat
      /\ bound \in Session \cup {NoSession} /\ bound \in Nat /\ Waiting \in {0, 1}
      /\ bstate \in [Session -> {"none", "authenticated", "logged_in", "closed"}]
  BY ConnectionAssumption DEF IInv, TypeOK, Session
<1>1. ASSUME OpenSession PROVE IInv'
  <2>1. /\ next \in Handle /\ Send("open_session", next, NoSession, NoData)
        /\ NoSession \in Session \cup {NoSession} /\ NoData \in Data \cup {NoData}
        /\ "open_session" \in Method
    BY <1>1 DEF OpenSession, Method
  <2> QED
    BY <2>1, SendIInv
<1>2. ASSUME NEW h \in Handle, Login(h) \/ Logout(h) \/ Sign(h) \/ Query(h) PROVE IInv'
  <2>1. PICK op \in Method \ {"open_session"}, sid \in Session \cup {NoSession},
             data \in Data \cup {NoData} : Send(op, h, sid, data)
    <3>1. brokerSid[h] \in Session \cup {NoSession} /\ NoSession \in Session \cup {NoSession}
      BY DEF IInv, TypeOK
    <3>2. NoData \in Data \cup {NoData} /\ \A d \in Data : d \in Data \cup {NoData}
      OBVIOUS
    <3>3. {"login", "logout", "sign", "query"} \subseteq Method \ {"open_session"}
      BY DEF Method
    <3> QED
      BY <1>2, <3>1, <3>2, <3>3 DEF Login, Logout, Sign, Query
  <2> QED
    BY <2>1, SendIInv
<1>3. ASSUME NEW h \in Handle, CloseSession(h) PROVE IInv'
  BY <1>0, <1>3 DEF IInv, TypeOK, Counts, Numbered, CloseSession, Idle, broker
<1>4. CASE Receive
  BY <1>4, ReceiveIInv
<1>5. CASE Timeout
  <2>1. /\ connected /\ call # NoCall /\ toClient = << >> /\ call' = NoCall /\ late' = late + 1
        /\ UNCHANGED <<connected, next, brokerSid, loggedIn, sent, returned,
                       toBroker, toClient, thread, bound, bstate>>
    BY <1>5 DEF Timeout, broker
  <2>2. Waiting = 1 /\ Waiting' = 0 /\ Oldest' = Oldest /\ late' + Waiting' = late + Waiting
    BY <1>0, <2>1
  <2>3. TypeOK' /\ Counts'
    BY <1>0, <2>1, <2>2 DEF IInv, TypeOK, Counts
  <2>4. Numbered'
    BY <2>1, <2>2 DEF IInv, Numbered
  <2> QED
    BY <2>3, <2>4 DEF IInv
<1>6. CASE ConnectionLost
  BY <1>0, <1>6 DEF IInv, TypeOK, Counts, ConnectionLost, broker
<1>7. CASE Finalize
  <2>1. << >> \in Seq(Response)
    OBVIOUS
  <2> QED
    BY <1>0, <1>7, <2>1 DEF IInv, TypeOK, Counts, Finalize, Idle, broker
<1>8. CASE Serve
  BY <1>8, ServeIInv
<1>9. CASE EndOfFile
  BY <1>0, <1>9 DEF IInv, TypeOK, Counts, EndOfFile, client
<1>10. CASE Unwind
  BY <1>0, <1>10 DEF IInv, TypeOK, Counts, Numbered, Unwind, client
<1>11. CASE Expire
  BY <1>0, <1>11 DEF IInv, TypeOK, Counts, Numbered, Expire, client
<1>12. CASE DaemonExits
  BY <1>0, <1>12 DEF IInv, TypeOK, Counts, Numbered, DaemonExits, client
<1>13. CASE UNCHANGED vars
  BY <1>13 DEF IInv, TypeOK, Counts, Numbered, vars, client, broker
<1> QED
  BY <1>1, <1>2, <1>3, <1>4, <1>5, <1>6, <1>7, <1>8, <1>9, <1>10, <1>11, <1>12, <1>13
     DEF Next, Calls, Daemon, Done

LEMMA SpecIInv == Spec => []IInv
  BY InitIInv, StepIInv, PTL DEF Spec

-----------------------------------------------------------------------------
(* Every reachable state is well typed; in particular no more calls gave   *)
(* up than were made, and the daemon has opened no more sessions for a     *)
(* connection than it was sent requests.                                   *)
THEOREM ConnectionTypeCorrect == Spec => []TypeOK
<1>1. IInv => TypeOK
  BY DEF IInv
<1> QED
  BY <1>1, SpecIInv, PTL

(* Whatever the number of sessions and of calls, a waiting call is handed  *)
(* the response of the call exactly as many back as calls have timed out:  *)
(* BrokerConnection's InStep.  With no timeout the pairing the library     *)
(* relies on, without comparing ids, is right.                             *)
THEOREM InStepHolds == Spec => []InStep
<1>1. IInv => InStep
  <2> SUFFICES ASSUME IInv, connected, call # NoCall, toClient # << >>
               PROVE  Head(toClient).n = sent - late
    BY DEF InStep
  <2>1. Head(toClient) = toClient[1] /\ Len(toClient) \in Nat /\ Len(toClient) >= 1
    BY HeadTailProperties DEF IInv, TypeOK
  <2>2. sent \in Nat /\ late \in Nat /\ Waiting = 1
    BY ConnectionAssumption DEF IInv, TypeOK
  <2>3. 1 \in 1 .. Len(toClient) /\ Numbered
    BY <2>1 DEF IInv
  <2>4. toClient[1].n = Oldest + 1 - 1
    BY <2>3 DEF Numbered
  <2> QED
    BY <2>1, <2>2, <2>4
<1> QED
  BY <1>1, SpecIInv, PTL

-----------------------------------------------------------------------------
(* As long as no call gave up, one request at most is under way, and the   *)
(* response to it is the one taken.  The rest says what both sides know of *)
(* the sessions at each point of a call.                                   *)

InTouch == connected /\ thread = "serving" /\ late = 0

Matched ==
  \/ call = NoCall /\ toBroker = << >> /\ toClient = << >>
  \/ call # NoCall /\ toBroker = <<call>> /\ toClient = << >>
  \/ call # NoCall /\ toBroker = << >> /\ Len(toClient) = 1 /\ toClient[1].op = call.op

(* The daemon carried this method out, and the library does not know yet.  *)
Ahead(op) == toClient # << >> /\ toClient[1].op = op /\ toClient[1].ok

Asks ==
  /\ \A h \in loggedIn : IsOpen(h)
  /\ call # NoCall /\ call.op = "login" =>
       IsOpen(call.h) /\ call.sid = brokerSid[call.h] /\ call.h \notin loggedIn
  /\ call # NoCall /\ call.op = "logout" => call.h \in loggedIn

Ordered ==
  /\ \A h \in Handle : IsOpen(h) => h < next /\ brokerSid[h] <= bound
  /\ \A g, h \in Handle : g < h /\ IsOpen(g) /\ IsOpen(h) => brokerSid[g] < brokerSid[h]
  /\ Ahead("open_session") =>
       /\ toClient[1].sid = bound /\ bound \in Session /\ bstate[bound] # "logged_in"
       /\ \A h \in Handle : brokerSid[h] < bound
  /\ ~Ahead("open_session") =>
       \A h \in Handle : h = next - 1 /\ IsOpen(h) => brokerSid[h] = bound

Agreed ==
  next <= 2 /\ ~Ahead("open_session") =>
    \A h \in Handle : IsOpen(h) =>
      /\ Ahead("login") \/ (h \in loggedIn /\ ~Ahead("logout"))
           => bstate[bound] \in {"logged_in", "closed"}
      /\ Ahead("logout") \/ (h \notin loggedIn /\ ~Ahead("login"))
           => bstate[bound] # "logged_in"

Known == InTouch => Matched /\ Asks /\ Ordered /\ Agreed

LEMMA InitKnown == Init => Known
<1> SUFFICES ASSUME Init PROVE Known OBVIOUS
<1>1. Matched BY DEF Init, Matched
<1>2. Asks BY DEF Init, Asks
<1>3. Ordered BY DEF Init, Ordered, IsOpen, Ahead
<1>4. Agreed BY DEF Init, Agreed, IsOpen
<1> QED BY <1>1, <1>2, <1>3, <1>4 DEF Known

LEMMA SendKnown ==
  ASSUME IInv, Known, NEW op \in Method, NEW h \in Handle, NEW sid \in Session \cup {NoSession},
         NEW data \in Data \cup {NoData}, Send(op, h, sid, data),
         op = "login" => IsOpen(h) /\ sid = brokerSid[h] /\ h \notin loggedIn,
         op = "logout" => h \in loggedIn
  PROVE  Known'
<1> DEFINE q == [n |-> sent + 1, op |-> op, h |-> h, sid |-> sid, data |-> data]
<1>0. /\ connected /\ call = NoCall /\ toBroker' = Append(toBroker, q) /\ call' = q
      /\ UNCHANGED <<connected, next, brokerSid, loggedIn, late, toClient, thread, bound, bstate>>
  BY DEF Send, Idle, broker
<1>1. q # NoCall BY DEF NoCall
<1>2. q.op = op /\ q.h = h /\ q.sid = sid OBVIOUS
<1> HIDE DEF q
<1> SUFFICES ASSUME InTouch' PROVE Known' BY DEF Known
<1>3. InTouch /\ Matched /\ Asks /\ Ordered /\ Agreed BY <1>0 DEF Known, InTouch
<1>4. Matched'
  <2>1. toBroker = << >> /\ toClient = << >> BY <1>0, <1>3 DEF Matched
  <2> QED BY <1>0, <1>1, <2>1 DEF Matched
<1>5. Asks' BY <1>0, <1>1, <1>2, <1>3 DEF Asks, IsOpen
<1>6. Ordered' /\ Agreed' BY <1>0, <1>3 DEF Ordered, Agreed, IsOpen, Ahead
<1> QED BY <1>4, <1>5, <1>6 DEF Known

LEMMA ReceiveKnown ==
  ASSUME IInv, Known, Receive
  PROVE  Known'
<1> DEFINE r == toClient[1]
<1>0. /\ connected /\ call # NoCall /\ toClient # << >> /\ call' = NoCall
      /\ toClient' = Tail(toClient)
      /\ UNCHANGED <<connected, sent, late, toBroker, thread, bound, bstate>>
  BY DEF Receive, broker
<1> SUFFICES ASSUME InTouch' PROVE Known' BY DEF Known
<1>1. InTouch /\ Matched /\ Asks /\ Ordered /\ Agreed BY <1>0 DEF Known, InTouch
<1>2. toBroker = << >> /\ Len(toClient) = 1 /\ r.op = call.op BY <1>0, <1>1 DEF Matched
<1>3. /\ Head(toClient) = r /\ r \in Response /\ toClient' = << >>
  <2>1. toClient \in Seq(Response) BY DEF IInv, TypeOK
  <2> QED BY <1>0, <1>2, <2>1, HeadTailProperties, EmptySeq
<1>4. SessionOpened(r) \/ LoggedIn(r) \/ LoggedOut(r) \/ Signed(r) \/ CallFails(r)
  BY <1>3 DEF Receive
<1>5. Matched' BY <1>0, <1>2, <1>3 DEF Matched
<1>6. \A op : ~Ahead(op)' BY <1>3 DEF Ahead
<1>7. \A op : Ahead(op) <=> r.op = op /\ r.ok BY <1>0 DEF Ahead
<1>8. call \in Request /\ brokerSid \in [Handle -> Session \cup {NoSession}] /\ next \in 1 .. MaxHandle + 1
      /\ loggedIn \in SUBSET Handle /\ bound \in Session \cup {NoSession} /\ Handle \subseteq Nat
  BY <1>0 DEF IInv, TypeOK, Handle
<1> HIDE DEF r
<1>9. CASE SessionOpened(r)
  <2>1. /\ brokerSid' = [brokerSid EXCEPT ![next] = bound] /\ next' = next + 1 /\ loggedIn' = loggedIn
        /\ Ahead("open_session") /\ next \in Handle
        /\ bound \in Session /\ bstate[bound] # "logged_in" /\ \A h \in Handle : brokerSid[h] < bound
    <3>1. Ahead("open_session") BY <1>2, <1>7, <1>9 DEF SessionOpened, HasSession
    <3>2. next \in Handle BY <1>0, <1>9 DEF IInv, Counts, SessionOpened
    <3>3. r.sid = bound /\ bound \in Session /\ bstate[bound] # "logged_in"
          /\ \A h \in Handle : brokerSid[h] < bound
      BY <1>1, <3>1 DEF Ordered, r
    <3> QED BY <1>9, <3>1, <3>2, <3>3 DEF SessionOpened
  <2>2. \A h \in Handle : brokerSid'[h] = IF h = next THEN bound ELSE brokerSid[h]
    BY <1>8, <2>1
  <2>3. \A h \in Handle : IsOpen(h) => h < next BY <1>1 DEF Ordered
  <2>4. bound # NoSession /\ bound \in Nat BY <2>1 DEF Session
  <2>5. Asks' BY <1>0, <1>1, <1>8, <2>1, <2>2, <2>4 DEF Asks, IsOpen
  <2>6. Ordered'
    <3>1. \A h \in Handle : IsOpen(h)' => h < next' /\ brokerSid'[h] <= bound'
      BY <1>0, <1>1, <1>8, <2>1, <2>2, <2>3, <2>4 DEF IsOpen, Ordered
    <3>2. \A g, h \in Handle : g < h /\ IsOpen(g)' /\ IsOpen(h)' => brokerSid'[g] < brokerSid'[h]
      BY <1>1, <1>8, <2>1, <2>2, <2>3, <2>4 DEF IsOpen, Ordered
    <3>3. \A h \in Handle : h = next' - 1 => brokerSid'[h] = bound'
      BY <1>0, <1>8, <2>1, <2>2
    <3> QED BY <1>6, <3>1, <3>2, <3>3 DEF Ordered
  <2>7. Agreed'
    <3> SUFFICES ASSUME next' <= 2, NEW h \in Handle, IsOpen(h)'
                 PROVE  h \notin loggedIn' /\ bstate'[bound'] # "logged_in"
      BY <1>6 DEF Agreed
    <3>1. next = 1 BY <1>8, <2>1
    <3>2. \A g \in Handle : ~IsOpen(g) BY <1>8, <2>3, <3>1 DEF Handle
    <3>3. h \notin loggedIn BY <1>1, <3>2 DEF Asks
    <3> QED BY <1>0, <2>1, <3>3
  <2> QED BY <1>5, <2>5, <2>6, <2>7 DEF Known
<1>10. CASE ~SessionOpened(r)
  <2>1. brokerSid' = brokerSid /\ next' = next
    BY <1>4, <1>10 DEF LoggedIn, LoggedOut, Signed, CallFails
  <2>2. ~Ahead("open_session")
    <3> SUFFICES ASSUME Ahead("open_session") PROVE FALSE OBVIOUS
    <3>1. call.op = "open_session" /\ r.ok BY <1>2, <1>7
    <3>2. r.sid = bound /\ bound \in Session BY <1>1 DEF Ordered, r
    <3>3. HasSession(r) BY <3>1, <3>2 DEF HasSession, Session
    <3> QED BY <1>4, <1>10, <3>1, <3>3 DEF LoggedIn, LoggedOut, Signed, CallFails
  <2>3. Ordered' BY <1>0, <1>1, <1>6, <2>1, <2>2 DEF Ordered, IsOpen
  <2>4. CASE LoggedIn(r)
    <3>1. call.op = "login" /\ Ahead("login") /\ loggedIn' = loggedIn \cup {call.h}
      BY <1>2, <1>7, <2>4 DEF LoggedIn
    <3>2. Asks' BY <1>0, <1>1, <2>1, <3>1 DEF Asks, IsOpen
    <3>3. Agreed'
      <4> SUFFICES ASSUME next <= 2, NEW h \in Handle, IsOpen(h)
                   PROVE  h \in loggedIn' /\ bstate[bound] \in {"logged_in", "closed"}
        BY <1>0, <1>6, <2>1 DEF Agreed, IsOpen
      <4>1. bstate[bound] \in {"logged_in", "closed"} BY <1>1, <2>2, <3>1 DEF Agreed
      <4>2. IsOpen(call.h) /\ call.h \in Handle BY <1>0, <1>1, <1>8, <3>1 DEF Asks, Request
      <4>3. h < 2 /\ call.h < 2 /\ h \in Nat /\ call.h \in Nat /\ h >= 1 /\ call.h >= 1
        BY <1>1, <1>8, <4>2 DEF Ordered, Handle
      <4>4. h = call.h BY <4>3
      <4> QED BY <3>1, <4>1, <4>4
    <3> QED BY <1>5, <2>3, <3>2, <3>3 DEF Known
  <2>5. CASE LoggedOut(r)
    <3>1. call.op = "logout" /\ Ahead("logout") /\ loggedIn' = loggedIn \ {call.h}
      BY <1>2, <1>7, <2>5 DEF LoggedOut
    <3>2. Asks' BY <1>0, <1>1, <2>1, <3>1 DEF Asks, IsOpen
    <3>3. Agreed'
      <4> SUFFICES ASSUME next <= 2, NEW h \in Handle, IsOpen(h)
                   PROVE  h \notin loggedIn' /\ bstate[bound] # "logged_in"
        BY <1>0, <1>6, <2>1 DEF Agreed, IsOpen
      <4>1. bstate[bound] # "logged_in" BY <1>1, <2>2, <3>1 DEF Agreed
      <4>2. IsOpen(call.h) /\ call.h \in Handle BY <1>0, <1>1, <1>8, <3>1 DEF Asks, Request
      <4>3. h < 2 /\ call.h < 2 /\ h \in Nat /\ call.h \in Nat /\ h >= 1 /\ call.h >= 1
        BY <1>1, <1>8, <4>2 DEF Ordered, Handle
      <4>4. h = call.h BY <4>3
      <4> QED BY <3>1, <4>1, <4>4
    <3> QED BY <1>5, <2>3, <3>2, <3>3 DEF Known
  <2>6. CASE Signed(r) \/ CallFails(r)
    <3>1. loggedIn' = loggedIn BY <2>6 DEF Signed, CallFails
    <3>2. ~Ahead("login") /\ ~Ahead("logout")
      BY <1>2, <1>7, <2>6 DEF Signed, CallFails
    <3>3. Asks' BY <1>0, <1>1, <2>1, <3>1 DEF Asks, IsOpen
    <3>4. Agreed' BY <1>0, <1>1, <1>6, <2>1, <2>2, <3>1, <3>2 DEF Agreed, IsOpen
    <3> QED BY <1>5, <2>3, <3>3, <3>4 DEF Known
  <2> QED BY <1>4, <1>10, <2>4, <2>5, <2>6
<1> QED BY <1>9, <1>10

LEMMA ServeKnown ==
  ASSUME IInv, Known, Serve
  PROVE  Known'
<1> DEFINE q == Head(toBroker)
<1>0. /\ thread = "serving" /\ toBroker # << >>
      /\ UNCHANGED <<connected, next, brokerSid, loggedIn, call, late>>
  BY DEF Serve, client
<1> SUFFICES ASSUME InTouch' PROVE Known' BY DEF Known
<1>1. InTouch /\ Matched /\ Asks /\ Ordered /\ Agreed BY <1>0 DEF Known, InTouch
<1>2. call # NoCall /\ toBroker = <<call>> /\ toClient = << >> /\ q = call
  BY <1>0, <1>1 DEF Matched
<1>3. /\ ServeOpen(q) \/ ServeLogin(q) \/ ServeLogout(q) \/ ServeSign(q)
         \/ ServeQuery(q) \/ Refuse(q)
  BY DEF Serve
<1>4. /\ call \in Request /\ brokerSid \in [Handle -> Session \cup {NoSession}]
      /\ loggedIn \in SUBSET Handle /\ bound \in Session \cup {NoSession} /\ bound \in Nat
      /\ bstate \in [Session -> {"none", "authenticated", "logged_in", "closed"}]
      /\ next \in Nat /\ Handle \subseteq Nat
  BY <1>2, ConnectionAssumption DEF IInv, TypeOK, Handle, Session
<1>5. bound + 1 \in Session
  BY <1>2, <1>4, ConnectionAssumption DEF IInv, TypeOK, Counts, Session
<1>6. ~Ahead("open_session") BY <1>2 DEF Ahead
<1> HIDE DEF q
<1>7. ASSUME NEW ok \in BOOLEAN, NEW sid \in Session \cup {NoSession}, Answer(q, ok, sid)
      PROVE  /\ Matched' /\ Asks'
             /\ toClient' # << >> /\ toClient'[1].op = call.op
             /\ toClient'[1].ok = ok /\ toClient'[1].sid = sid
  <2> DEFINE r == [n |-> q.n, op |-> q.op, data |-> q.data, ok |-> ok, sid |-> sid]
  <2>1. connected BY <1>0, <1>1 DEF InTouch
  <2>2. toBroker' = Tail(toBroker) /\ toClient' = Append(toClient, r)
    BY <1>7, <2>1 DEF Answer
  <2>3. r.op = call.op /\ r.ok = ok /\ r.sid = sid BY <1>2
  <2> HIDE DEF r
  <2>4. toBroker' = << >> /\ toClient' = <<r>> BY <1>2, <2>2
  <2>5. Len(toClient') = 1 /\ toClient'[1] = r /\ toClient' # << >> BY <2>4
  <2>6. Matched' BY <1>0, <1>2, <2>3, <2>4, <2>5 DEF Matched
  <2>7. Asks' BY <1>0, <1>1 DEF Asks, IsOpen
  <2> QED BY <2>3, <2>5, <2>6, <2>7
<1>8. CASE ServeOpen(q)
  <2>1. /\ bound' = bound + 1 /\ bstate' = [bstate EXCEPT ![bound + 1] = "authenticated"]
        /\ Answer(q, TRUE, bound + 1) /\ call.op = "open_session"
    BY <1>2, <1>8 DEF ServeOpen
  <2>2. /\ Matched' /\ Asks' /\ toClient'[1].sid = bound + 1 /\ Ahead("open_session")'
    <3>1. /\ Matched' /\ Asks' /\ toClient' # << >> /\ toClient'[1].op = call.op
          /\ toClient'[1].ok = TRUE /\ toClient'[1].sid = bound + 1
      BY <1>5, <1>7, <2>1
    <3> QED BY <2>1, <3>1 DEF Ahead
  <2>3. bstate'[bound'] # "logged_in" BY <1>4, <1>5, <2>1
  <2>4. \A h \in Handle : brokerSid[h] <= bound
    BY <1>1, <1>4 DEF Ordered, IsOpen
  <2>5. Ordered'
    <3>1. \A h \in Handle : IsOpen(h)' => h < next' /\ brokerSid'[h] <= bound'
      BY <1>0, <1>1, <1>4, <2>1, <2>4 DEF Ordered, IsOpen, Session
    <3>2. \A g, h \in Handle : g < h /\ IsOpen(g)' /\ IsOpen(h)' => brokerSid'[g] < brokerSid'[h]
      BY <1>0, <1>1 DEF Ordered, IsOpen
    <3>3. \A h \in Handle : brokerSid'[h] < bound'
      BY <1>0, <1>4, <2>1, <2>4 DEF Session
    <3>4. toClient'[1].sid = bound' /\ bound' \in Session
      BY <1>5, <2>1, <2>2
    <3> QED BY <2>2, <2>3, <3>1, <3>2, <3>3, <3>4 DEF Ordered
  <2> QED BY <2>2, <2>5 DEF Known, Agreed
<1>9. ASSUME ~Ahead("open_session")', bound' = bound PROVE Ordered'
  BY <1>0, <1>1, <1>6, <1>9 DEF Ordered, IsOpen
<1>10. ASSUME NEW h \in Handle, IsOpen(h) PROVE bound \in Session
  BY <1>1, <1>4, <1>10 DEF Ordered, IsOpen, Session
<1>11. CASE ServeLogin(q)
  <2>1. /\ bound' = bound /\ bstate' = [bstate EXCEPT ![call.sid] = "logged_in"]
        /\ Answer(q, TRUE, call.sid) /\ call.op = "login"
        /\ call.sid \in Session \cup {NoSession}
    BY <1>2, <1>4, <1>11 DEF ServeLogin, Request
  <2>2. /\ Matched' /\ Asks' /\ Ahead("login")' /\ ~Ahead("open_session")' /\ ~Ahead("logout")'
    <3>1. /\ Matched' /\ Asks' /\ toClient' # << >> /\ toClient'[1].op = call.op
          /\ toClient'[1].ok = TRUE
      BY <1>7, <2>1
    <3> QED BY <2>1, <3>1 DEF Ahead
  <2>3. Agreed'
    <3> SUFFICES ASSUME next <= 2, NEW h \in Handle, IsOpen(h)
                 PROVE  bstate'[bound'] \in {"logged_in", "closed"}
      BY <1>0, <2>2 DEF Agreed, IsOpen
    <3>1. IsOpen(call.h) /\ call.sid = brokerSid[call.h] /\ call.h \in Handle
      BY <1>1, <1>2, <1>4, <2>1 DEF Asks, Request
    <3>2. call.h < next BY <1>1, <3>1 DEF Ordered
    <3>3. call.h = next - 1 BY <1>4, <3>1, <3>2 DEF Handle
    <3>4. call.sid = bound BY <1>1, <1>6, <3>1, <3>3 DEF Ordered
    <3> QED BY <1>4, <1>10, <2>1, <3>4
  <2> QED BY <1>9, <2>1, <2>2, <2>3 DEF Known
<1>12. CASE ServeLogout(q)
  <2>1. /\ bound' = bound /\ Answer(q, TRUE, bound) /\ call.op = "logout"
        /\ bstate' = [s \in Session |-> IF s = bound /\ bstate[s] = "logged_in"
                                          THEN "authenticated" ELSE bstate[s]]
    BY <1>2, <1>12 DEF ServeLogout
  <2>2. /\ Matched' /\ Asks' /\ Ahead("logout")' /\ ~Ahead("open_session")' /\ ~Ahead("login")'
    <3>1. /\ Matched' /\ Asks' /\ toClient' # << >> /\ toClient'[1].op = call.op
          /\ toClient'[1].ok = TRUE
      BY <1>4, <1>7, <2>1
    <3> QED BY <2>1, <3>1 DEF Ahead
  <2>3. Agreed'
    <3> SUFFICES ASSUME NEW h \in Handle, IsOpen(h) PROVE bstate'[bound'] # "logged_in"
      BY <1>0, <2>2 DEF Agreed, IsOpen
    <3> QED BY <1>10, <2>1
  <2> QED BY <1>9, <2>1, <2>2, <2>3 DEF Known
<1>13. CASE ServeSign(q) \/ ServeQuery(q) \/ Refuse(q)
  <2>1. PICK ok \in BOOLEAN : Answer(q, ok, NoSession) /\ (ok => call.op \in {"sign", "query"})
    BY <1>2, <1>13 DEF ServeSign, ServeQuery, Refuse
  <2>2. bound' = bound /\ bstate' = bstate BY <1>13 DEF ServeSign, ServeQuery, Refuse
  <2>3. NoSession \in Session \cup {NoSession} OBVIOUS
  <2>4. /\ Matched' /\ Asks' /\ toClient' # << >> /\ toClient'[1].op = call.op
        /\ toClient'[1].ok = ok
    BY <1>7, <2>1, <2>3
  <2>5. ~Ahead("open_session")' /\ ~Ahead("login")' /\ ~Ahead("logout")'
    BY <2>1, <2>4 DEF Ahead
  <2>6. ~Ahead("login") /\ ~Ahead("logout") BY <1>2 DEF Ahead
  <2>7. Agreed' BY <1>0, <1>1, <1>6, <2>2, <2>5, <2>6 DEF Agreed, IsOpen
  <2> QED BY <1>9, <2>2, <2>4, <2>5, <2>7 DEF Known
<1> QED BY <1>3, <1>8, <1>11, <1>12, <1>13

LEMMA StepKnown ==
  ASSUME IInv, Known, [Next]_vars
  PROVE  Known'
<1>1. ASSUME OpenSession PROVE Known'
  <2>1. /\ next \in Handle /\ Send("open_session", next, NoSession, NoData)
        /\ NoSession \in Session \cup {NoSession} /\ NoData \in Data \cup {NoData}
        /\ "open_session" \in Method
    BY <1>1 DEF OpenSession, Method
  <2> QED BY <2>1, SendKnown
<1>2. ASSUME NEW h \in Handle, Login(h) \/ Logout(h) \/ Sign(h) \/ Query(h) PROVE Known'
  <2>1. PICK op \in Method, sid \in Session \cup {NoSession}, data \in Data \cup {NoData} :
           /\ Send(op, h, sid, data)
           /\ op = "login" => IsOpen(h) /\ sid = brokerSid[h] /\ h \notin loggedIn
           /\ op = "logout" => h \in loggedIn
    <3>1. brokerSid[h] \in Session \cup {NoSession} /\ NoSession \in Session \cup {NoSession}
      BY DEF IInv, TypeOK
    <3>2. NoData \in Data \cup {NoData} /\ \A d \in Data : d \in Data \cup {NoData} OBVIOUS
    <3>3. {"login", "logout", "sign", "query"} \subseteq Method BY DEF Method
    <3> QED BY <1>2, <3>1, <3>2, <3>3 DEF Login, Logout, Sign, Query
  <2> QED BY <2>1, SendKnown
<1>3. ASSUME NEW h \in Handle, CloseSession(h) PROVE Known'
  <2>0. /\ call = NoCall /\ loggedIn' = loggedIn \ {h}
        /\ brokerSid' = [brokerSid EXCEPT ![h] = NoSession]
        /\ UNCHANGED <<connected, next, call, late, toBroker, toClient, thread, bound, bstate>>
    BY <1>3 DEF CloseSession, Idle, broker
  <2> SUFFICES ASSUME InTouch' PROVE Known' BY DEF Known
  <2>1. Matched /\ Asks /\ Ordered /\ Agreed BY <2>0 DEF Known, InTouch
  <2>2. /\ toClient = << >> /\ brokerSid \in [Handle -> Session \cup {NoSession}]
        /\ loggedIn \in SUBSET Handle
    BY <2>0, <2>1 DEF Matched, IInv, TypeOK
  <2>3. \A op : ~Ahead(op) /\ ~Ahead(op)' BY <2>0, <2>2 DEF Ahead
  <2>4. \A g \in Handle : IsOpen(g)' => IsOpen(g) /\ g # h /\ brokerSid'[g] = brokerSid[g]
    BY <2>0, <2>2 DEF IsOpen
  <2>5. Matched' BY <2>0, <2>1 DEF Matched
  <2>6. Asks' BY <2>0, <2>1, <2>2 DEF Asks, IsOpen
  <2>7. Ordered' BY <2>0, <2>1, <2>3, <2>4 DEF Ordered
  <2>8. Agreed' BY <2>0, <2>1, <2>3, <2>4 DEF Agreed
  <2> QED BY <2>5, <2>6, <2>7, <2>8 DEF Known
<1>4. CASE Receive BY <1>4, ReceiveKnown
<1>5. CASE Timeout
  <2>1. late \in Nat /\ late' = late + 1
    BY <1>5, ConnectionAssumption DEF Timeout, IInv, TypeOK
  <2> QED BY <2>1 DEF Known, InTouch
<1>6. CASE ConnectionLost \/ Finalize \/ EndOfFile \/ Unwind \/ DaemonExits
  BY <1>6 DEF ConnectionLost, Finalize, EndOfFile, Unwind, DaemonExits, Known, InTouch, broker
<1>7. CASE Serve BY <1>7, ServeKnown
<1>8. CASE Expire
  <2>0. PICK s \in Session : bstate' = [bstate EXCEPT ![s] = "closed"]
    BY <1>8 DEF Expire
  <2>1. UNCHANGED <<client, toBroker, toClient, thread, bound>> BY <1>8 DEF Expire
  <2> SUFFICES ASSUME InTouch' PROVE Known' BY DEF Known
  <2>2. Matched /\ Asks /\ Ordered /\ Agreed BY <2>1 DEF Known, InTouch, client
  <2>3. \A t : /\ bstate[t] # "logged_in" /\ t \in Session => bstate'[t] # "logged_in"
               /\ bstate[t] \in {"logged_in", "closed"} /\ t \in Session
                    => bstate'[t] \in {"logged_in", "closed"}
    BY <2>0 DEF IInv, TypeOK
  <2>4. \A h \in Handle : IsOpen(h) => bound \in Session
    BY <2>2, ConnectionAssumption DEF Ordered, IsOpen, IInv, TypeOK, Session
  <2>5. Matched' BY <2>1, <2>2 DEF Matched, client
  <2>6. Asks' BY <2>1, <2>2 DEF Asks, IsOpen, client
  <2>7. Ordered' BY <2>1, <2>2, <2>3 DEF Ordered, IsOpen, Ahead, client
  <2>8. Agreed' BY <2>1, <2>2, <2>3, <2>4 DEF Agreed, IsOpen, Ahead, client
  <2> QED BY <2>5, <2>6, <2>7, <2>8 DEF Known
<1>9. CASE UNCHANGED vars
  BY <1>9 DEF vars, client, broker, Known, InTouch, Matched, Asks, Ordered, Agreed, IsOpen, Ahead
<1> QED
  BY <1>1, <1>2, <1>3, <1>4, <1>5, <1>6, <1>7, <1>8, <1>9 DEF Next, Calls, Daemon, Done

LEMMA SpecKnown == Spec => [](IInv /\ Known)
<1>1. Init => IInv /\ Known BY InitIInv, InitKnown
<1>2. IInv /\ Known /\ [Next]_vars => IInv' /\ Known' BY StepIInv, StepKnown
<1> QED BY <1>1, <1>2, PTL DEF Spec

(* A process that has opened one session, on a connection where no call    *)
(* gave up, and the daemon agree between calls whether it is logged in,    *)
(* but for a session the daemon has let expire: BrokerConnection's         *)
(* Agreement, for any data and any number of calls.                        *)
THEOREM AgreementHolds == Spec => []Agreement
<1>1. IInv /\ Known => Agreement
  <2> SUFFICES ASSUME IInv, Known, Quiet, next <= 2, NEW h \in Handle, IsOpen(h)
               PROVE  /\ brokerSid[h] = bound
                      /\ IF h \in loggedIn THEN bstate[bound] \in {"logged_in", "closed"}
                                           ELSE bstate[bound] # "logged_in"
    BY DEF Agreement
  <2>1. Matched /\ Ordered /\ Agreed /\ call = NoCall BY DEF Quiet, Known, InTouch
  <2>2. \A op : ~Ahead(op) BY <2>1 DEF Matched, Ahead
  <2>3. h < next /\ h \in Nat /\ h >= 1 /\ next \in Nat
    BY <2>1 DEF Ordered, Handle, IInv, TypeOK
  <2>4. h = next - 1 BY <2>3
  <2>5. brokerSid[h] = bound BY <2>1, <2>2, <2>4 DEF Ordered
  <2> QED BY <2>1, <2>2, <2>5 DEF Agreed
<1> QED BY <1>1, SpecKnown, PTL

(* However many sessions a process opens on one connection, the daemon's   *)
(* session of the connection is, between calls, the one opened last, and   *)
(* older handles name older sessions: BrokerConnection's NewestIsBound.    *)
THEOREM NewestIsBoundHolds == Spec => []NewestIsBound
<1>1. IInv /\ Known => NewestIsBound
  <2> SUFFICES ASSUME IInv, Known, Quiet, next > 1
               PROVE  /\ IsOpen(next - 1) => brokerSid[next - 1] = bound
                      /\ \A g, h \in Handle :
                           g < h /\ IsOpen(g) /\ IsOpen(h) => brokerSid[g] < brokerSid[h]
    BY DEF NewestIsBound
  <2>1. Matched /\ Ordered /\ call = NoCall BY DEF Quiet, Known, InTouch
  <2>2. ~Ahead("open_session") BY <2>1 DEF Matched, Ahead
  <2>3. next - 1 \in Handle BY ConnectionAssumption DEF Handle, IInv, TypeOK
  <2> QED BY <2>1, <2>2, <2>3 DEF Ordered
<1> QED BY <1>1, SpecKnown, PTL
=============================================================================
