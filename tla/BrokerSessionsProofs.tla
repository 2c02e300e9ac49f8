------------------------ MODULE BrokerSessionsProofs ------------------------
(* Proofs about BrokerSessions, for every set of connections, clients and  *)
(* session ids, every limit and every timeout.                             *)
EXTENDS BrokerSessions, FiniteSetTheorems, TLAPS

(* The last step of a handler leaves the thread's locals well typed.       *)
LEMMA ReplyType ==
  ASSUME TypeOK, NEW c \in Conn, Reply(c)
  PROVE  /\ pc' \in [Conn -> ThreadPC]
         /\ sess' \in [Conn -> Sid \cup {NoSid}]
BY DEF TypeOK, Reply, ThreadPC

LEMMA ContinueType ==
  ASSUME TypeOK, NEW c \in Conn, NEW at \in ThreadPC, NEW s \in Sid \cup {NoSid},
         Continue(c, at, s)
  PROVE  /\ pc' \in [Conn -> ThreadPC]
         /\ sess' \in [Conn -> Sid \cup {NoSid}]
BY DEF TypeOK, Continue

(* Closing sessions, of whatever set, keeps the objects well typed.        *)
LEMMA CloseType ==
  ASSUME TypeOK, NEW S, CloseAllOf(S)
  PROVE  /\ state' \in [Sid -> SessionState]
         /\ idle' \in [Sid -> 0 .. MaxIdle]
         /\ registry' \in SUBSET Sid
<1>1. 0 \in 0 .. MaxIdle
  BY SessionsAssumption DEF MaxIdle
<1>. QED
  BY <1>1 DEF TypeOK, CloseAllOf, SessionState

LEMMA TypeInit == Init => TypeOK
<1>1. 0 \in 0 .. MaxIdle
  BY SessionsAssumption DEF MaxIdle
<1>. QED
  BY <1>1 DEF Init, TypeOK, SessionState, ThreadPC, MainPC

(* Every step keeps every variable within its type.                        *)
LEMMA TypeStep == TypeOK /\ [Next]_vars => TypeOK'
<1>. SUFFICES ASSUME TypeOK, [Next]_vars PROVE TypeOK'
  OBVIOUS
<1>. USE DEF objects, threads, daemon
<1>0. 0 \in 0 .. MaxIdle /\ MaxIdle \in Nat
  BY SessionsAssumption DEF MaxIdle
<1>1. ASSUME NEW c \in Conn, ClientThread(c) PROVE TypeOK'
  <2>1. CASE Inform(c)
    BY <2>1, ReplyType DEF Inform, TypeOK
  <2>2. CASE OpenSession(c)
    <3>1. PICK s \in Sid :
            /\ registry' = (registry \ SweptIfFull) \cup {s}
            /\ state' = [t \in Sid |-> IF t = s THEN "CREATED"
                                       ELSE IF t \in SweptIfFull THEN "CLOSED"
                                       ELSE state[t]]
            /\ owner' = [owner EXCEPT ![s] = peer[c]]
            /\ idle' = [t \in Sid |-> IF t \in SweptIfFull THEN 0 ELSE idle[t]]
            /\ Continue(c, "created", s)
      BY <2>2 DEF OpenSession
    <3>2. /\ pc' \in [Conn -> ThreadPC]
          /\ sess' \in [Conn -> Sid \cup {NoSid}]
      BY <3>1, ContinueType DEF ThreadPC
    <3>3. idle' \in [Sid -> 0 .. MaxIdle]
      BY <3>1, <1>0 DEF TypeOK
    <3>4. state' \in [Sid -> SessionState]
      BY <3>1 DEF TypeOK, SessionState
    <3>. QED
      BY <2>2, <3>1, <3>2, <3>3, <3>4 DEF OpenSession, TypeOK
  <2>3. CASE OpenRefused(c)
    BY <2>3, ReplyType, CloseType DEF OpenRefused, TypeOK
  <2>4. CASE Authenticate(c)
    <3>1. /\ pc' \in [Conn -> ThreadPC]
          /\ sess' \in [Conn -> Sid \cup {NoSid}]
      BY <2>4, ContinueType DEF Authenticate, TypeOK, ThreadPC
    <3>. QED
      BY <2>4, <3>1, <1>0 DEF Authenticate, TypeOK, SessionState
  <2>5. CASE Track(c)
    <3>1. CloseAllOf({sess[c]} \cap ExpiredSessions) /\ Reply(c)
      BY <2>5 DEF Track, GetSession
    <3>2. bound' \in [Conn -> Sid \cup {NoSid}] /\ superseded' \in SUBSET Sid
      BY <2>5 DEF Track, TypeOK
    <3>. QED
      BY <2>5, <3>1, <3>2, ReplyType, CloseType DEF Track, TypeOK
  <2>6. CASE CloseSession(c)
    BY <2>6, ReplyType, CloseType DEF CloseSession, TypeOK
  <2>7. CASE Finalize(c)
    BY <2>7, ReplyType, CloseType DEF Finalize, TypeOK
  <2>8. CASE LoginById(c)
    <3>1. PICK s \in Sid :
            /\ GetSession(s)
            /\ Continue(c, "login", s) \/ Reply(c)
      BY <2>8 DEF LoginById
    <3>2. /\ pc' \in [Conn -> ThreadPC]
          /\ sess' \in [Conn -> Sid \cup {NoSid}]
      BY <3>1, ContinueType, ReplyType DEF ThreadPC
    <3>. QED
      BY <2>8, <3>1, <3>2, CloseType DEF LoginById, GetSession, TypeOK
  <2>9. CASE LoginBound(c)
    <3>1. /\ pc' \in [Conn -> ThreadPC]
          /\ sess' \in [Conn -> Sid \cup {NoSid}]
      BY <2>9, ContinueType, ReplyType DEF LoginBound, TypeOK, ThreadPC
    <3>. QED
      BY <2>9, <3>1 DEF LoginBound, TypeOK
  <2>10. CASE LoginSession(c)
    <3>1. /\ pc' \in [Conn -> ThreadPC]
          /\ sess' \in [Conn -> Sid \cup {NoSid}]
      BY <2>10, ContinueType DEF LoginSession, TypeOK, ThreadPC
    <3>. QED
      BY <2>10, <3>1 DEF LoginSession, TypeOK, SessionState
  <2>11. CASE Logout(c)
    <3>1. /\ pc' \in [Conn -> ThreadPC]
          /\ sess' \in [Conn -> Sid \cup {NoSid}]
      BY <2>11, ContinueType, ReplyType DEF Logout, TypeOK, ThreadPC
    <3>. QED
      BY <2>11, <3>1 DEF Logout, TypeOK
  <2>12. CASE LogoutSession(c)
    <3>1. /\ pc' \in [Conn -> ThreadPC]
          /\ sess' \in [Conn -> Sid \cup {NoSid}]
      BY <2>12, ContinueType DEF LogoutSession, TypeOK, ThreadPC
    <3>. QED
      BY <2>12, <3>1 DEF LogoutSession, TypeOK, SessionState
  <2>13. CASE BeginCrypto(c) \/ BeginListKeys(c) \/ CallKms(c)
    <3>1. /\ pc' \in [Conn -> ThreadPC]
          /\ sess' \in [Conn -> Sid \cup {NoSid}]
      BY <2>13, ContinueType, ReplyType
      DEF BeginCrypto, BeginListKeys, CallKms, TypeOK, ThreadPC
    <3>. QED
      BY <2>13, <3>1 DEF BeginCrypto, BeginListKeys, CallKms, TypeOK
  <2>14. CASE Touch(c)
    <3>1. idle' \in [Sid -> 0 .. MaxIdle]
      BY <2>14, <1>0 DEF Touch, TypeOK
    <3>. QED
      BY <2>14, <3>1, ReplyType DEF Touch, TypeOK
  <2>15. CASE Hangup(c)
    BY <2>15, ContinueType DEF Hangup, TypeOK, ThreadPC
  <2>16. CASE Unwind(c)
    BY <2>16, CloseType DEF Unwind, TypeOK, ThreadPC
  <2>. QED
    BY <1>1, <2>1, <2>2, <2>3, <2>4, <2>5, <2>6, <2>7, <2>8, <2>9, <2>10,
       <2>11, <2>12, <2>13, <2>14, <2>15, <2>16
    DEF ClientThread, OpenRequest, CloseRequest, LoginRequest, LogoutRequest,
        KmsRequest
<1>2. ASSUME NEW c \in Conn, Accept(c) PROVE TypeOK'
  BY <1>2 DEF Accept, LoopOrLeave, TypeOK, ThreadPC, MainPC
<1>3. CASE AcceptTimeout \/ AcceptFails \/ Sweep
  BY <1>3, CloseType
  DEF AcceptTimeout, AcceptFails, Sweep, LoopOrLeave, TypeOK, MainPC
<1>4. CASE Stop
  BY <1>4 DEF Stop, TypeOK
<1>5. CASE Shutdown
  BY <1>5, CloseType
  DEF Shutdown, JoinThreads, DisconnectKms, CloseAll, Exit, TypeOK, MainPC
<1>6. CASE Tick
  <2>1. idle' \in [Sid -> 0 .. MaxIdle]
    BY <1>6, <1>0 DEF Tick, TypeOK
  <2>. QED
    BY <1>6, <2>1 DEF Tick, TypeOK
<1>7. CASE UNCHANGED vars
  BY <1>7 DEF vars, TypeOK
<1>. QED
  BY <1>1, <1>2, <1>3, <1>4, <1>5, <1>6, <1>7
  DEF Next, MainThread, Stopped, vars

(* Every reachable state of the daemon is well typed.                      *)
THEOREM TypeCorrect == Spec => []TypeOK
BY TypeInit, TypeStep, PTL DEF Spec

-----------------------------------------------------------------------------
(* What the last step of a handler does to the locals of all threads.      *)
LEMMA ReplyLocals ==
  ASSUME TypeOK, NEW c \in Conn, Reply(c)
  PROVE  /\ sess'[c] = NoSid /\ pc'[c] \in {"read", "unwind"}
         /\ \A d \in Conn \ {c} : sess'[d] = sess[d] /\ pc'[d] = pc[d]
BY DEF TypeOK, Reply

LEMMA ContinueLocals ==
  ASSUME TypeOK, NEW c \in Conn, NEW at, NEW s, Continue(c, at, s)
  PROVE  /\ sess'[c] = s /\ pc'[c] = at
         /\ \A d \in Conn \ {c} : sess'[d] = sess[d] /\ pc'[d] = pc[d]
BY DEF TypeOK, Continue

(* Closing sessions takes sessions out of the table and no object out of   *)
(* existence.                                                              *)
LEMMA CloseEffect ==
  ASSUME TypeOK, NEW S, CloseAllOf(S)
  PROVE  /\ registry' = registry \ S
         /\ \A s \in Sid : state'[s] = "NONE" <=> state[s] = "NONE" /\ s \notin S \cap registry
         /\ \A s \in Sid : s \in S \cap registry => state'[s] = "CLOSED"
         /\ \A s \in Sid : s \notin S \cap registry => state'[s] = state[s]
BY DEF TypeOK, CloseAllOf

(* A step of one thread that creates no object, binds none and leaves its  *)
(* own locals in order keeps the bookkeeping of all threads.               *)
LEMMA BookkeepingFrame ==
  ASSUME TypeOK, TypeOK', Bookkeeping, NEW c \in Conn,
         UNCHANGED <<owner, peer, bound>>,
         \A s \in Sid : state[s] # "NONE" => state'[s] # "NONE",
         registry' \subseteq registry,
         \A d \in Conn \ {c} : sess'[d] = sess[d] /\ pc'[d] = pc[d],
         Locals(c)'
  PROVE  Bookkeeping'
<1>1. ASSUME NEW s \in registry' PROVE state'[s] # "NONE"
  BY DEF Bookkeeping, TypeOK
<1>2. ASSUME NEW d \in Conn PROVE Locals(d)'
  <2>1. CASE d = c
    BY <2>1
  <2>2. CASE d # c
    <3>1. sess'[d] = sess[d] /\ pc'[d] = pc[d] /\ Locals(d)
      BY <2>2 DEF Bookkeeping
    <3>. QED
      BY <3>1 DEF Locals
  <2>. QED
    BY <2>1, <2>2
<1>. QED
  BY <1>1, <1>2 DEF Bookkeeping

(* In particular after a response: the thread holds no object any more.    *)
LEMMA BookkeepingReply ==
  ASSUME TypeOK, TypeOK', Bookkeeping, NEW c \in Conn, Reply(c),
         UNCHANGED <<owner, peer, bound>>,
         \A s \in Sid : state[s] # "NONE" => state'[s] # "NONE",
         registry' \subseteq registry
  PROVE  Bookkeeping'
<1>1. Locals(c)'
  <2>1. sess'[c] = NoSid /\ pc'[c] \in {"read", "unwind"} /\ NoSid \notin Sid
    BY ReplyLocals, SessionsAssumption
  <2>2. Locals(c)
    BY DEF Bookkeeping
  <2>. QED
    BY <2>1, <2>2 DEF Locals
<1>. QED
  BY <1>1, ReplyLocals, BookkeepingFrame

(* A handler that goes on with an object in hand keeps the bookkeeping if  *)
(* the object exists and, on the way to a login, may be logged in.         *)
LEMMA BookkeepingContinue ==
  ASSUME TypeOK, TypeOK', Bookkeeping, NEW c \in Conn,
         NEW at \in ThreadPC \ {"free"}, NEW s \in Sid \cup {NoSid},
         Continue(c, at, s),
         UNCHANGED <<owner, peer, bound>>,
         \A t \in Sid : state[t] # "NONE" => state'[t] # "NONE",
         registry' \subseteq registry,
         s \in Sid => state'[s] # "NONE",
         at \in {"created", "opened", "login", "logout"} => s \in Sid,
         at \in {"created", "opened", "login"} => owner[s] = peer[c],
         at = "login" => peer[c] \in LoginAllowed
  PROVE  Bookkeeping'
<1>1. Locals(c)'
  <2>1. sess'[c] = s /\ pc'[c] = at
    BY ContinueLocals
  <2>2. Locals(c)
    BY DEF Bookkeeping
  <2>. QED
    BY <2>1, <2>2 DEF Locals
<1>. QED
  BY <1>1, ContinueLocals, BookkeepingFrame

LEMMA BookkeepingInit == Init => Bookkeeping
BY SessionsAssumption DEF Init, Bookkeeping, Locals

(* The bookkeeping survives every step.                                    *)
LEMMA BookkeepingStep == TypeOK /\ TypeOK' /\ Bookkeeping /\ [Next]_vars => Bookkeeping'
<1>. SUFFICES ASSUME TypeOK, TypeOK', Bookkeeping, [Next]_vars PROVE Bookkeeping'
  OBVIOUS
<1>. USE DEF objects, threads, daemon
<1>1. ASSUME NEW c \in Conn, ClientThread(c) PROVE Bookkeeping'
  <2>0. Locals(c)
    BY DEF Bookkeeping
  <2>1. CASE Inform(c)
    BY <2>1, BookkeepingReply DEF Inform
  <2>2. CASE OpenSession(c)
    <3>1. PICK s \in Sid :
            /\ state[s] = "NONE"
            /\ registry' = (registry \ SweptIfFull) \cup {s}
            /\ state' = [t \in Sid |-> IF t = s THEN "CREATED"
                                       ELSE IF t \in SweptIfFull THEN "CLOSED"
                                       ELSE state[t]]
            /\ owner' = [owner EXCEPT ![s] = peer[c]]
            /\ Continue(c, "created", s)
      BY <2>2 DEF OpenSession
    <3>2. UNCHANGED <<peer, bound>>
      BY <2>2 DEF OpenSession
    <3>3. \A t \in Sid : state[t] # "NONE" => /\ state'[t] # "NONE"
                                              /\ owner'[t] = owner[t]
      BY <3>1 DEF TypeOK
    <3>4. state'[s] # "NONE" /\ owner'[s] = peer[c]
      BY <3>1 DEF TypeOK
    <3>5. \A t \in registry' : state'[t] # "NONE"
      BY <3>1, <3>3, <3>4 DEF Bookkeeping, TypeOK
    <3>6. sess'[c] = s /\ pc'[c] = "created"
      BY <3>1, ContinueLocals
    <3>7. Locals(c)'
      BY <2>0, <3>2, <3>3, <3>4, <3>6 DEF Locals
    <3>8. ASSUME NEW d \in Conn \ {c} PROVE Locals(d)'
      <4>1. sess'[d] = sess[d] /\ pc'[d] = pc[d] /\ Locals(d)
        BY <3>1, ContinueLocals DEF Bookkeeping
      <4>. QED
        BY <4>1, <3>2, <3>3 DEF Locals
    <3>. QED
      BY <3>5, <3>7, <3>8 DEF Bookkeeping
  <2>3. CASE OpenRefused(c)
    BY <2>3, CloseEffect, BookkeepingReply DEF OpenRefused
  <2>4. CASE Authenticate(c)
    <3>1. sess[c] \in Sid /\ owner[sess[c]] = peer[c] /\ state[sess[c]] # "NONE"
      BY <2>0, <2>4 DEF Authenticate, Locals, At
    <3>2. \A t \in Sid : state[t] # "NONE" => state'[t] # "NONE"
      BY <2>4 DEF Authenticate, TypeOK
    <3>. QED
      BY <2>4, <3>1, <3>2, BookkeepingContinue DEF Authenticate, ThreadPC
  <2>5. CASE Track(c)
    <3>1. CloseAllOf({sess[c]} \cap ExpiredSessions) /\ Reply(c)
      BY <2>5 DEF Track, GetSession
    <3>2. /\ sess[c] \in Sid
          /\ owner[sess[c]] = peer[c]
          /\ state[sess[c]] # "NONE"
      BY <2>0, <2>5 DEF Track, Locals, At
    <3>3. /\ UNCHANGED <<owner, peer>>
          /\ \/ bound' = [bound EXCEPT ![c] = sess[c]]
             \/ UNCHANGED bound
      BY <2>5 DEF Track
    <3>4. \A t \in Sid : state[t] # "NONE" => state'[t] # "NONE"
      BY <3>1, CloseEffect
    <3>5. registry' \subseteq registry
      BY <3>1, CloseEffect
    <3>6. bound'[c] \in {bound[c], sess[c]}
      BY <3>3 DEF TypeOK
    <3>7. sess'[c] = NoSid /\ pc'[c] \in {"read", "unwind"} /\ NoSid \notin Sid
      BY <3>1, ReplyLocals, SessionsAssumption
    <3>8. Locals(c)'
      BY <2>0, <3>2, <3>3, <3>4, <3>6, <3>7 DEF Locals
    <3>9. ASSUME NEW d \in Conn \ {c} PROVE Locals(d)'
      <4>1. sess'[d] = sess[d] /\ pc'[d] = pc[d] /\ Locals(d)
        BY <3>1, ReplyLocals DEF Bookkeeping
      <4>2. bound'[d] = bound[d]
        BY <3>3 DEF TypeOK
      <4>. QED
        BY <4>1, <4>2, <3>3, <3>4 DEF Locals
    <3>. QED
      BY <3>4, <3>5, <3>8, <3>9 DEF Bookkeeping, TypeOK
  <2>6. CASE CloseSession(c)
    BY <2>6, CloseEffect, BookkeepingReply DEF CloseSession
  <2>7. CASE Finalize(c)
    BY <2>7, CloseEffect, BookkeepingReply DEF Finalize
  <2>8. CASE LoginById(c)
    <3>1. PICK s \in Sid :
            /\ state[s] # "NONE"
            /\ GetSession(s)
            /\ \/ MayLogin(c, s) /\ Continue(c, "login", s)
               \/ Reply(c)
      BY <2>8 DEF LoginById
    <3>2. /\ registry' \subseteq registry
          /\ \A t \in Sid : state[t] # "NONE" => state'[t] # "NONE"
      BY <3>1, CloseEffect DEF GetSession
    <3>3. UNCHANGED <<owner, peer, bound>>
      BY <2>8 DEF LoginById
    <3>4. CASE Reply(c)
      BY <3>2, <3>3, <3>4, BookkeepingReply
    <3>5. CASE MayLogin(c, s) /\ Continue(c, "login", s)
      BY <3>1, <3>2, <3>3, <3>5, BookkeepingContinue DEF MayLogin, ThreadPC
    <3>. QED
      BY <3>1, <3>4, <3>5
  <2>9. CASE LoginBound(c)
    <3>1. CASE Reply(c)
      BY <2>9, <3>1, BookkeepingReply DEF LoginBound
    <3>2. CASE /\ bound[c] # NoSid /\ MayLogin(c, bound[c])
               /\ Continue(c, "login", bound[c])
      <4>1. bound[c] \in Sid /\ state[bound[c]] # "NONE"
        BY <2>0, <3>2 DEF Locals, TypeOK
      <4>. QED
        BY <2>9, <3>2, <4>1, BookkeepingContinue DEF LoginBound, MayLogin, ThreadPC
    <3>. QED
      BY <2>9, <3>1, <3>2 DEF LoginBound
  <2>10. CASE LoginSession(c) \/ LogoutSession(c)
    <3>1. sess[c] \in Sid /\ state[sess[c]] # "NONE"
      BY <2>0, <2>10 DEF LoginSession, LogoutSession, Locals, At
    <3>2. \A t \in Sid : state[t] # "NONE" => state'[t] # "NONE"
      BY <2>10 DEF LoginSession, LogoutSession, TypeOK
    <3>. QED
      BY <2>10, <3>1, <3>2, BookkeepingContinue
      DEF LoginSession, LogoutSession, ThreadPC
  <2>11. CASE Logout(c)
    <3>1. CASE Reply(c)
      BY <2>11, <3>1, BookkeepingReply DEF Logout
    <3>2. CASE /\ bound[c] # NoSid /\ state[bound[c]] = "LOGGED_IN"
               /\ Continue(c, "logout", bound[c])
      <4>1. bound[c] \in Sid
        BY <3>2 DEF TypeOK
      <4>. QED
        BY <2>11, <3>2, <4>1, BookkeepingContinue DEF Logout, ThreadPC
    <3>. QED
      BY <2>11, <3>1, <3>2 DEF Logout
  <2>12. CASE BeginCrypto(c) \/ BeginListKeys(c) \/ CallKms(c)
    <3>1. bound[c] \in Sid \cup {NoSid} /\ sess[c] \in Sid \cup {NoSid}
      BY DEF TypeOK
    <3>2. \/ Reply(c)
          \/ Continue(c, "kms", bound[c])
          \/ Continue(c, "list", bound[c])
          \/ Continue(c, "touch", sess[c])
      BY <2>12 DEF BeginCrypto, BeginListKeys, CallKms
    <3>3. UNCHANGED <<objects, owner, peer, bound>>
      BY <2>12 DEF BeginCrypto, BeginListKeys, CallKms
    <3>4. /\ bound[c] \in Sid => state[bound[c]] # "NONE"
          /\ sess[c] \in Sid => state[sess[c]] # "NONE"
      BY <2>0 DEF Locals
    <3>. QED
      BY <3>1, <3>2, <3>3, <3>4, BookkeepingReply, BookkeepingContinue DEF ThreadPC
  <2>13. CASE Touch(c)
    BY <2>13, BookkeepingReply DEF Touch
  <2>14. CASE Hangup(c)
    BY <2>14, BookkeepingContinue, SessionsAssumption DEF Hangup, ThreadPC
  <2>15. CASE Unwind(c)
    <3>1. CloseAllOf({bound[c]} \cap Sid)
      BY <2>15 DEF Unwind
    <3>2. /\ registry' \subseteq registry
          /\ \A t \in Sid : state[t] # "NONE" => state'[t] # "NONE"
      BY <3>1, CloseEffect
    <3>3. bound'[c] = NoSid /\ pc'[c] = "free" /\ sess'[c] = sess[c]
      BY <2>15 DEF Unwind, TypeOK
    <3>4. Locals(c)'
      BY <2>0, <3>2, <3>3, SessionsAssumption DEF Locals
    <3>5. ASSUME NEW d \in Conn \ {c} PROVE Locals(d)'
      <4>1. /\ UNCHANGED <<sess, owner>>
            /\ peer'[d] = peer[d] /\ bound'[d] = bound[d] /\ pc'[d] = pc[d]
        BY <2>15 DEF Unwind, TypeOK
      <4>2. Locals(d)
        BY DEF Bookkeeping
      <4>. QED
        BY <3>2, <4>1, <4>2 DEF Locals
    <3>. QED
      BY <3>2, <3>4, <3>5 DEF Bookkeeping, TypeOK
  <2>. QED
    BY <1>1, <2>1, <2>2, <2>3, <2>4, <2>5, <2>6, <2>7, <2>8, <2>9, <2>10,
       <2>11, <2>12, <2>13, <2>14, <2>15
    DEF ClientThread, OpenRequest, CloseRequest, LoginRequest, LogoutRequest,
        KmsRequest
<1>2. ASSUME NEW c \in Conn, Accept(c) PROVE Bookkeeping'
  <2>1. ASSUME NEW d \in Conn PROVE Locals(d)'
    <3>1. Locals(d)
      BY DEF Bookkeeping
    <3>2. /\ UNCHANGED <<objects, bound, sess>>
          /\ d # c => peer'[d] = peer[d] /\ pc'[d] = pc[d]
          /\ d = c => pc[d] = "free" /\ pc'[d] \in {"read", "unwind"}
      BY <1>2 DEF Accept, TypeOK
    <3>. QED
      BY <3>1, <3>2, SessionsAssumption DEF Locals
  <2>. QED
    BY <1>2, <2>1 DEF Accept, Bookkeeping
<1>3. CASE /\ UNCHANGED <<owner, threads>>
           /\ \/ UNCHANGED <<state, registry>>
              \/ \E S \in SUBSET registry : CloseAllOf(S)
  <2>1. /\ registry' \subseteq registry
        /\ \A t \in Sid : state[t] # "NONE" => state'[t] # "NONE"
    BY <1>3, CloseEffect
  <2>. QED
    BY <1>3, <2>1 DEF Bookkeeping, Locals, TypeOK
<1>4. CASE AcceptTimeout \/ AcceptFails \/ Sweep \/ Stop \/ Shutdown \/ Tick \/ UNCHANGED vars
  <2>1. ExpiredSessions \in SUBSET registry /\ registry \in SUBSET registry
    BY DEF ExpiredSessions
  <2>. QED
    BY <1>3, <1>4, <2>1
    DEF AcceptTimeout, AcceptFails, Sweep, Stop, Shutdown, JoinThreads, DisconnectKms, CloseAll, Exit,
        Tick, vars
<1>. QED
  BY <1>1, <1>2, <1>4 DEF Next, MainThread, Stopped, vars

(* At every moment the objects in the threads' hands exist and are theirs. *)
THEOREM BookkeepingCorrect == Spec => []Bookkeeping
<1>1. Init => Bookkeeping
  BY BookkeepingInit
<1>2. TypeOK /\ TypeOK' /\ Bookkeeping /\ [Next]_vars => Bookkeeping'
  BY BookkeepingStep
<1>. QED
  BY <1>1, <1>2, TypeCorrect, PTL DEF Spec

-----------------------------------------------------------------------------
(* The session table.                                                      *)

(* The ways in which a step can touch the session objects and the table.   *)
LEMMA ObjectEffect ==
  ASSUME [Next]_vars
  PROVE  \/ UNCHANGED <<state, registry, owner>>
         \/ UNCHANGED owner /\ \E S : CloseAllOf(S)
         \/ \E c \in Conn : \/ OpenSession(c) \/ Authenticate(c)
                            \/ LoginSession(c) \/ LogoutSession(c)
<1>. USE DEF objects
<1>1. ASSUME NEW c \in Conn, ClientThread(c),
             ~ OpenSession(c), ~ Authenticate(c), ~ LoginSession(c), ~ LogoutSession(c)
      PROVE  UNCHANGED owner /\ (UNCHANGED <<state, registry>> \/ \E S : CloseAllOf(S))
  BY <1>1
  DEF ClientThread, OpenRequest, CloseRequest, LoginRequest, LogoutRequest,
      KmsRequest, Inform, OpenRefused, Track, GetSession, CloseSession, Finalize,
      LoginById, LoginBound, Logout, BeginCrypto, BeginListKeys, CallKms, Touch,
      Hangup, Unwind
<1>2. CASE MainThread \/ Tick \/ UNCHANGED vars
  BY <1>2
  DEF MainThread, Accept, AcceptTimeout, AcceptFails, Sweep, Stop, Shutdown, JoinThreads,
      DisconnectKms, CloseAll, Exit, Tick, vars
<1>. QED
  BY <1>1, <1>2 DEF Next, Stopped

(* Ids of the objects that have been created.                              *)
Issued == {s \in Sid : state[s] # "NONE"}

(* A step opens one session where there is room for it, or the table only  *)
(* loses sessions.                                                         *)
LEMMA TableEffect ==
  ASSUME TypeOK, Bookkeeping, [Next]_vars
  PROVE  \/ /\ registry' \subseteq registry
            /\ Issued' = Issued
         \/ \E s \in Sid, kept \in SUBSET registry :
              /\ s \notin Issued
              /\ Issued' = Issued \cup {s}
              /\ Cardinality(kept) < MaxSessions
              /\ registry' = kept \cup {s}
<1>. USE DEF objects, threads, daemon
<1>1. ASSUME NEW S, CloseAllOf(S)
      PROVE  registry' \subseteq registry /\ Issued' = Issued
  BY <1>1, CloseEffect DEF Bookkeeping, Issued
<1>2. ASSUME NEW c \in Conn, OpenSession(c)
      PROVE  \E s \in Sid, kept \in SUBSET registry :
               /\ s \notin Issued
               /\ Issued' = Issued \cup {s}
               /\ Cardinality(kept) < MaxSessions
               /\ registry' = kept \cup {s}
  <2>1. PICK s \in Sid :
          /\ state[s] = "NONE"
          /\ registry' = (registry \ SweptIfFull) \cup {s}
          /\ state' = [t \in Sid |-> IF t = s THEN "CREATED"
                                     ELSE IF t \in SweptIfFull THEN "CLOSED"
                                     ELSE state[t]]
    BY <1>2 DEF OpenSession
  <2>2. Cardinality(registry \ SweptIfFull) < MaxSessions
    BY <1>2 DEF OpenSession, HasRoom
  <2>3. \A t \in SweptIfFull : state[t] # "NONE"
    BY DEF SweptIfFull, ExpiredSessions, Bookkeeping
  <2>4. s \notin Issued /\ Issued' = Issued \cup {s}
    BY <2>1, <2>3 DEF Issued
  <2>. QED
    BY <2>1, <2>2, <2>4
<1>3. ASSUME NEW c \in Conn,
             Authenticate(c) \/ LoginSession(c) \/ LogoutSession(c)
      PROVE  registry' = registry /\ Issued' = Issued
  <2>1. sess[c] \in Sid /\ state[sess[c]] # "NONE"
    BY <1>3 DEF Authenticate, LoginSession, LogoutSession, At, Bookkeeping, Locals
  <2>. QED
    BY <1>3, <2>1 DEF Authenticate, LoginSession, LogoutSession, Issued, TypeOK
<1>. QED
  BY <1>1, <1>2, <1>3, ObjectEffect DEF Issued

(* The session manager keeps its promise: every behaviour of the daemon,   *)
(* seen through its table, is one of SessionTable.                         *)
THEOREM TableImplemented == Spec => ImplementsTable
<1>1. Init => Table!Init
  BY DEF Init, Table!Init
<1>2. TypeOK /\ Bookkeeping /\ [Next]_vars => [Table!Next]_(Table!table)
  <2>. SUFFICES ASSUME TypeOK, Bookkeeping, [Next]_vars
                PROVE  [Table!Next]_(Table!table)
    OBVIOUS
  <2>1. CASE registry' \subseteq registry /\ Issued' = Issued
    BY <2>1 DEF Table!Next, Table!Leave, Issued
  <2>2. CASE \E s \in Sid, kept \in SUBSET registry :
               /\ s \notin Issued
               /\ Issued' = Issued \cup {s}
               /\ Cardinality(kept) < MaxSessions
               /\ registry' = kept \cup {s}
    <3>1. PICK s \in Sid, kept \in SUBSET registry :
            /\ s \notin Issued
            /\ Issued' = Issued \cup {s}
            /\ Cardinality(kept) < MaxSessions
            /\ registry' = kept \cup {s}
      BY <2>2
    <3>2. Table!Cardinality(kept) = Cardinality(kept)
      BY DEF Table!Cardinality, Cardinality
    <3>. QED
      BY <3>1, <3>2 DEF Table!Next, Table!Open, Issued
  <2>. QED
    BY <2>1, <2>2, TableEffect
<1>. QED
  BY <1>1, <1>2, TypeCorrect, BookkeepingCorrect, PTL
  DEF Spec, ImplementsTable, Table!Spec

(* The table never holds more than max_sessions sessions.                  *)
THEOREM SlotLimitHolds == Spec => []SlotLimit
<1>1. Init => SlotLimit
  BY FS_EmptySet, SessionsAssumption DEF Init, SlotLimit
<1>2. TypeOK /\ Bookkeeping /\ SlotLimit /\ [Next]_vars => SlotLimit'
  <2>. SUFFICES ASSUME TypeOK, Bookkeeping, SlotLimit, [Next]_vars PROVE SlotLimit'
    OBVIOUS
  <2>0. IsFiniteSet(registry) /\ Cardinality(registry) \in Nat
    BY FS_Subset, FS_CardinalityType, SessionsAssumption DEF TypeOK
  <2>1. CASE registry' \subseteq registry
    <3>1. /\ Cardinality(registry') <= Cardinality(registry)
          /\ Cardinality(registry') \in Nat
      BY <2>0, <2>1, FS_Subset, FS_CardinalityType
    <3>. QED
      BY <2>0, <3>1, SessionsAssumption DEF SlotLimit
  <2>2. ASSUME NEW s \in Sid, NEW kept \in SUBSET registry,
               Cardinality(kept) < MaxSessions, registry' = kept \cup {s}
        PROVE  SlotLimit'
    <3>1. IsFiniteSet(kept) /\ Cardinality(kept) \in Nat
      BY <2>0, FS_Subset, FS_CardinalityType
    <3>2. Cardinality(kept \cup {s}) <= Cardinality(kept) + 1
      BY <3>1, FS_AddElement
    <3>3. Cardinality(kept \cup {s}) \in Nat
      BY <3>1, FS_AddElement, FS_CardinalityType
    <3>. QED
      BY <2>2, <3>1, <3>2, <3>3, SessionsAssumption DEF SlotLimit
  <2>. QED
    BY <2>1, <2>2, TableEffect
<1>. QED
  BY <1>1, <1>2, TypeCorrect, BookkeepingCorrect, PTL DEF Spec

-----------------------------------------------------------------------------
(* Closed objects and the table.                                           *)

(* A session found in the table has not been closed.                       *)
THEOREM RegisteredIsOpenHolds == Spec => []RegisteredIsOpen
<1>1. Init => RegisteredIsOpen
  BY DEF Init, RegisteredIsOpen
<1>2. TypeOK /\ RegisteredIsOpen /\ [Next]_vars => RegisteredIsOpen'
  <2>. SUFFICES ASSUME TypeOK, RegisteredIsOpen, [Next]_vars PROVE RegisteredIsOpen'
    OBVIOUS
  <2>1. CASE UNCHANGED <<state, registry>>
    BY <2>1 DEF RegisteredIsOpen
  <2>2. ASSUME NEW S, CloseAllOf(S) PROVE RegisteredIsOpen'
    BY <2>2 DEF CloseAllOf, RegisteredIsOpen, TypeOK
  <2>3. ASSUME NEW c \in Conn, OpenSession(c) PROVE RegisteredIsOpen'
    BY <2>3 DEF OpenSession, RegisteredIsOpen, TypeOK
  <2>4. ASSUME NEW c \in Conn, Authenticate(c) \/ LoginSession(c) \/ LogoutSession(c)
        PROVE  RegisteredIsOpen'
    BY <2>4 DEF Authenticate, LoginSession, LogoutSession, RegisteredIsOpen, TypeOK
  <2>. QED
    BY <2>1, <2>2, <2>3, <2>4, ObjectEffect
<1>. QED
  BY <1>1, <1>2, TypeCorrect, PTL DEF Spec

-----------------------------------------------------------------------------
(* Authorization.                                                          *)

(* Only sessions of clients the policy lets log in are ever logged in.     *)
THEOREM LoggedInIsAllowedHolds == Spec => []LoggedInIsAllowed
<1>1. Init => LoggedInIsAllowed
  BY DEF Init, LoggedInIsAllowed
<1>2. TypeOK /\ Bookkeeping /\ LoggedInIsAllowed /\ [Next]_vars => LoggedInIsAllowed'
  <2>. SUFFICES ASSUME TypeOK, Bookkeeping, LoggedInIsAllowed, [Next]_vars
                PROVE  LoggedInIsAllowed'
    OBVIOUS
  <2>1. CASE UNCHANGED <<state, owner>>
    BY <2>1 DEF LoggedInIsAllowed
  <2>2. ASSUME NEW S, CloseAllOf(S), UNCHANGED owner PROVE LoggedInIsAllowed'
    BY <2>2 DEF CloseAllOf, LoggedInIsAllowed, TypeOK
  <2>3. ASSUME NEW c \in Conn, OpenSession(c) PROVE LoggedInIsAllowed'
    BY <2>3 DEF OpenSession, LoggedInIsAllowed, TypeOK
  <2>4. ASSUME NEW c \in Conn, Authenticate(c) \/ LogoutSession(c)
        PROVE  LoggedInIsAllowed'
    BY <2>4 DEF Authenticate, LogoutSession, LoggedInIsAllowed, TypeOK
  <2>5. ASSUME NEW c \in Conn, LoginSession(c) PROVE LoggedInIsAllowed'
    <3>1. owner[sess[c]] \in LoginAllowed
      BY <2>5 DEF LoginSession, At, Bookkeeping, Locals
    <3>. QED
      BY <2>5, <3>1 DEF LoginSession, LoggedInIsAllowed, TypeOK
  <2>. QED
    BY <2>1, <2>2, <2>3, <2>4, <2>5, ObjectEffect
<1>. QED
  BY <1>1, <1>2, TypeCorrect, BookkeepingCorrect, PTL DEF Spec

(* Key operations reach the KMS for allowed clients on sessions of theirs. *)
THEOREM CryptoIsAuthorizedHolds == Spec => []CryptoIsAuthorized
<1>1. Init => CryptoIsAuthorized
  BY DEF Init, CryptoIsAuthorized
<1>2. /\ TypeOK /\ Bookkeeping /\ LoggedInIsAllowed /\ CryptoIsAuthorized
      /\ [Next]_vars
      => CryptoIsAuthorized'
  <2>. SUFFICES ASSUME TypeOK, Bookkeeping, LoggedInIsAllowed, CryptoIsAuthorized,
                       [Next]_vars, NEW d \in Conn, pc'[d] = "kms"
                PROVE  /\ peer'[d] \in LoginAllowed \cap CryptoAllowed
                       /\ sess'[d] \in Sid
                       /\ sess'[d] = bound'[d]
                       /\ owner'[sess'[d]] = peer'[d]
    BY DEF CryptoIsAuthorized
  <2>. USE DEF objects, threads, daemon
  <2>1. CASE BeginCrypto(d)
    <3>1. /\ Continue(d, "kms", bound[d])
          /\ bound[d] # NoSid /\ state[bound[d]] = "LOGGED_IN"
          /\ peer[d] \in CryptoAllowed
          /\ UNCHANGED <<owner, bound, peer>>
      BY <2>1, ReplyLocals DEF BeginCrypto
    <3>2. sess'[d] = bound[d] /\ bound[d] \in Sid
      BY <3>1, ContinueLocals DEF TypeOK
    <3>3. owner[bound[d]] = peer[d] /\ owner[bound[d]] \in LoginAllowed
      BY <3>1, <3>2 DEF Bookkeeping, Locals, LoggedInIsAllowed
    <3>. QED
      BY <3>1, <3>2, <3>3
  <2>2. CASE ~ BeginCrypto(d)
    <3>1. pc[d] = "kms" /\ sess'[d] = sess[d] /\ bound'[d] = bound[d] /\ peer'[d] = peer[d]
      <4>1. ASSUME NEW c \in Conn, ClientThread(c), c # d
            PROVE  /\ pc'[d] = pc[d] /\ sess'[d] = sess[d]
                   /\ bound'[d] = bound[d] /\ peer'[d] = peer[d]
        BY <4>1
        DEF ClientThread, OpenRequest, CloseRequest, LoginRequest, LogoutRequest,
            KmsRequest, Inform, OpenSession, OpenRefused, Authenticate, Track,
            CloseSession, Finalize, LoginById, LoginBound, LoginSession, Logout,
            LogoutSession, BeginCrypto, BeginListKeys, CallKms, Touch, Hangup,
            Unwind, Reply, Continue, TypeOK
      <4>2. ASSUME ClientThread(d) PROVE FALSE
        <5>1. \/ Reply(d)
              \/ \E at \in ThreadPC \ {"kms"}, s \in Sid \cup {NoSid} : Continue(d, at, s)
              \/ Unwind(d)
          BY <4>2, <2>2
          DEF ClientThread, OpenRequest, CloseRequest, LoginRequest, LogoutRequest,
              KmsRequest, Inform, OpenSession, OpenRefused, Authenticate, Track,
              CloseSession, Finalize, LoginById, LoginBound, LoginSession, Logout,
              LogoutSession, BeginListKeys, CallKms, Touch, Hangup, ThreadPC, TypeOK
        <5>. QED
          BY <5>1, ReplyLocals, ContinueLocals DEF Unwind, TypeOK
      <4>3. ASSUME NEW c \in Conn, Accept(c)
            PROVE  /\ pc'[d] = pc[d] /\ sess'[d] = sess[d]
                   /\ bound'[d] = bound[d] /\ peer'[d] = peer[d]
        BY <4>3 DEF Accept, TypeOK
      <4>4. CASE AcceptTimeout \/ AcceptFails \/ Sweep \/ Stop \/ Shutdown \/ Tick \/ UNCHANGED vars
        BY <4>4
        DEF AcceptTimeout, AcceptFails, Sweep, Stop, Shutdown, JoinThreads, DisconnectKms, CloseAll,
            Exit, Tick, vars
      <4>. QED
        BY <4>1, <4>2, <4>3, <4>4 DEF Next, MainThread, Stopped
    <3>2. /\ peer[d] \in LoginAllowed \cap CryptoAllowed
          /\ sess[d] \in Sid /\ sess[d] = bound[d] /\ owner[sess[d]] = peer[d]
      BY <3>1 DEF CryptoIsAuthorized
    <3>3. owner'[sess[d]] = owner[sess[d]]
      <4>1. state[sess[d]] # "NONE"
        BY <3>2 DEF Bookkeeping, Locals
      <4>2. ASSUME NEW c \in Conn, OpenSession(c)
            PROVE  owner'[sess[d]] = owner[sess[d]]
        BY <4>1, <4>2, <3>2 DEF OpenSession, TypeOK
      <4>3. ASSUME NEW c \in Conn,
                   Authenticate(c) \/ LoginSession(c) \/ LogoutSession(c)
            PROVE  owner'[sess[d]] = owner[sess[d]]
        BY <4>3 DEF Authenticate, LoginSession, LogoutSession
      <4>. QED
        BY <4>2, <4>3, ObjectEffect
    <3>. QED
      BY <3>1, <3>2, <3>3
  <2>. QED
    BY <2>1, <2>2
<1>. QED
  BY <1>1, <1>2, TypeCorrect, BookkeepingCorrect, LoggedInIsAllowedHolds, PTL DEF Spec

-----------------------------------------------------------------------------
(* Connections and their sessions.                                         *)

(* A connection comes to hold a session by opening it, in no other way.    *)
LEMMA HoldsEffect ==
  ASSUME TypeOK, [Next]_vars, NEW d \in Conn, NEW s \in Sid, Holds(d, s)'
  PROVE  Holds(d, s) \/ (OpenSession(d) /\ sess'[d] = s /\ state[s] = "NONE")
<1>. USE DEF objects, threads, daemon
<1>1. ASSUME NEW c \in Conn, ClientThread(c), c # d PROVE Holds(d, s)
  <2>1. pc'[d] = pc[d] /\ sess'[d] = sess[d] /\ bound'[d] = bound[d]
    BY <1>1
    DEF ClientThread, OpenRequest, CloseRequest, LoginRequest, LogoutRequest,
        KmsRequest, Inform, OpenSession, OpenRefused, Authenticate, Track,
        CloseSession, Finalize, LoginById, LoginBound, LoginSession, Logout,
        LogoutSession, BeginCrypto, BeginListKeys, CallKms, Touch, Hangup,
        Unwind, Reply, Continue, TypeOK
  <2>. QED
    BY <2>1 DEF Holds
<1>2. CASE OpenSession(d)
  <2>1. PICK t \in Sid : state[t] = "NONE" /\ Continue(d, "created", t)
    BY <1>2 DEF OpenSession
  <2>2. sess'[d] = t /\ bound'[d] = bound[d]
    BY <1>2, <2>1, ContinueLocals DEF OpenSession
  <2>. QED
    BY <1>2, <2>1, <2>2 DEF Holds
<1>3. CASE Authenticate(d)
  <2>1. sess'[d] = sess[d] /\ pc[d] = "created" /\ bound'[d] = bound[d]
    BY <1>3, ContinueLocals DEF Authenticate, At
  <2>. QED
    BY <2>1 DEF Holds
<1>4. CASE Track(d)
  <2>1. /\ pc[d] = "opened" /\ pc'[d] \in {"read", "unwind"}
        /\ bound'[d] \in {bound[d], sess[d]}
    BY <1>4, ReplyLocals DEF Track, At, TypeOK
  <2>. QED
    BY <2>1 DEF Holds
<1>5. CASE Unwind(d)
  <2>1. bound'[d] = NoSid /\ pc'[d] = "free"
    BY <1>5 DEF Unwind, TypeOK
  <2>. QED
    BY <2>1, SessionsAssumption DEF Holds
<1>6. CASE ClientThread(d) /\ ~ OpenSession(d) /\ ~ Authenticate(d) /\ ~ Track(d) /\ ~ Unwind(d)
  <2>1. /\ bound' = bound
        /\ \/ Reply(d)
           \/ \E at \in ThreadPC \ {"created", "opened"}, t \in Sid \cup {NoSid} :
                Continue(d, at, t)
    BY <1>6
    DEF ClientThread, OpenRequest, CloseRequest, LoginRequest, LogoutRequest,
        KmsRequest, Inform, OpenRefused, CloseSession, Finalize, LoginById,
        LoginBound, LoginSession, Logout, LogoutSession, BeginCrypto,
        BeginListKeys, CallKms, Touch, Hangup, ThreadPC, TypeOK
  <2>2. pc'[d] \notin {"created", "opened"}
    BY <2>1, ReplyLocals, ContinueLocals
  <2>. QED
    BY <2>1, <2>2 DEF Holds
<1>7. CASE MainThread \/ Tick \/ UNCHANGED vars
  <2>1. /\ UNCHANGED <<bound, sess>>
        /\ pc'[d] = pc[d] \/ pc'[d] \in {"read", "unwind"}
    BY <1>7
    DEF MainThread, Accept, AcceptTimeout, AcceptFails, Sweep, Stop, Shutdown, JoinThreads,
        DisconnectKms, CloseAll, Exit, Tick, vars, TypeOK
  <2>. QED
    BY <2>1 DEF Holds
<1>. QED
  BY <1>1, <1>2, <1>3, <1>4, <1>5, <1>6, <1>7 DEF Next, Stopped

(* No session object is the session of two connections.                    *)
THEOREM PrivateSessionHolds == Spec => []PrivateSession
<1>1. Init => PrivateSession
  BY SessionsAssumption DEF Init, PrivateSession, Holds
<1>2. TypeOK /\ Bookkeeping /\ PrivateSession /\ [Next]_vars => PrivateSession'
  <2>. SUFFICES ASSUME TypeOK, Bookkeeping, PrivateSession, [Next]_vars,
                       NEW c \in Conn, NEW d \in Conn, NEW s \in Sid,
                       Holds(c, s)', Holds(d, s)'
                PROVE  c = d
    BY DEF PrivateSession
  <2>1. ASSUME NEW e \in Conn, Holds(e, s) PROVE state[s] # "NONE"
    BY <2>1 DEF Holds, Bookkeeping, Locals
  <2>2. CASE Holds(c, s) /\ Holds(d, s)
    BY <2>2 DEF PrivateSession
  <2>3. CASE OpenSession(c) /\ state[s] = "NONE"
    <3>1. OpenSession(d)
      BY <2>1, <2>3, HoldsEffect
    <3>2. PICK t \in Sid : Continue(c, "created", t)
      BY <2>3 DEF OpenSession
    <3>3. pc[d] = "read" /\ pc'[d] = "created"
      BY <3>1, ContinueLocals DEF OpenSession, HasRequest
    <3>. QED
      BY <3>2, <3>3, ContinueLocals
  <2>4. CASE OpenSession(d) /\ state[s] = "NONE"
    <3>1. OpenSession(c)
      BY <2>1, <2>4, HoldsEffect
    <3>2. PICK t \in Sid : Continue(d, "created", t)
      BY <2>4 DEF OpenSession
    <3>3. pc[c] = "read" /\ pc'[c] = "created"
      BY <3>1, ContinueLocals DEF OpenSession, HasRequest
    <3>. QED
      BY <3>2, <3>3, ContinueLocals
  <2>. QED
    BY <2>2, <2>3, <2>4, HoldsEffect
<1>. QED
  BY <1>1, <1>2, TypeCorrect, BookkeepingCorrect, PTL DEF Spec

(* Every slot of the table is held by a connection that can give it back,  *)
(* or was opened over.                                                     *)
THEOREM OnlySupersededLeakHolds == Spec => []OnlySupersededLeak
<1>1. Init => OnlySupersededLeak
  BY DEF Init, OnlySupersededLeak
<1>2. TypeOK /\ Bookkeeping /\ OnlySupersededLeak /\ [Next]_vars => OnlySupersededLeak'
  <2>. SUFFICES ASSUME TypeOK, Bookkeeping, OnlySupersededLeak, [Next]_vars,
                       NEW s \in registry'
                PROVE  s \in superseded' \/ \E c \in Conn : Holds(c, s)'
    BY DEF OnlySupersededLeak
  <2>. USE DEF objects, threads, daemon
  <2>0. superseded \subseteq superseded'
    BY DEF Next, ClientThread, OpenRequest, CloseRequest, LoginRequest,
        LogoutRequest, KmsRequest, Inform, OpenSession, OpenRefused, Authenticate,
        Track, CloseSession, Finalize, LoginById, LoginBound, LoginSession, Logout,
        LogoutSession, BeginCrypto, BeginListKeys, CallKms, Touch, Hangup, Unwind,
        MainThread, Accept, AcceptTimeout, AcceptFails, Sweep, Stop, Shutdown, JoinThreads,
        DisconnectKms, CloseAll, Exit, Tick, Stopped, vars
  <2>1. CASE s \notin registry
    <3>1. PICK c \in Conn : OpenSession(c)
      <4>1. ASSUME NEW S, CloseAllOf(S) PROVE FALSE
        BY <2>1, <4>1 DEF CloseAllOf
      <4>2. ASSUME NEW c \in Conn, Authenticate(c) \/ LoginSession(c) \/ LogoutSession(c)
            PROVE  FALSE
        BY <2>1, <4>2 DEF Authenticate, LoginSession, LogoutSession
      <4>. QED
        BY <2>1, <4>1, <4>2, ObjectEffect
    <3>2. PICK t \in Sid : /\ registry' = (registry \ SweptIfFull) \cup {t}
                           /\ Continue(c, "created", t)
      BY <3>1 DEF OpenSession
    <3>3. s = t /\ sess'[c] = t /\ pc'[c] = "created"
      BY <2>1, <3>2, ContinueLocals
    <3>. QED
      BY <3>3 DEF Holds
  <2>2. CASE s \in superseded
    BY <2>0, <2>2
  <2>3. ASSUME s \in registry, NEW c \in Conn, Holds(c, s)
        PROVE  s \in superseded' \/ Holds(c, s)'
    <3>0. s \in Sid /\ s # NoSid
      BY <2>3, SessionsAssumption DEF TypeOK
    <3>1. ASSUME NEW d \in Conn, ClientThread(d), d # c PROVE Holds(c, s)'
      <4>1. pc'[c] = pc[c] /\ sess'[c] = sess[c] /\ bound'[c] = bound[c]
        BY <3>1
        DEF ClientThread, OpenRequest, CloseRequest, LoginRequest, LogoutRequest,
            KmsRequest, Inform, OpenSession, OpenRefused, Authenticate, Track,
            CloseSession, Finalize, LoginById, LoginBound, LoginSession, Logout,
            LogoutSession, BeginCrypto, BeginListKeys, CallKms, Touch, Hangup,
            Unwind, Reply, Continue, TypeOK
      <4>. QED
        BY <2>3, <4>1 DEF Holds
    <3>2. CASE Authenticate(c)
      <4>1. sess'[c] = sess[c] /\ pc'[c] = "opened" /\ bound'[c] = bound[c]
        BY <3>2, ContinueLocals DEF Authenticate
      <4>. QED
        BY <2>3, <4>1 DEF Holds
    <3>3. CASE Track(c)
      <4>1. CASE Resolves(sess[c])
        <5>1. bound'[c] = sess[c] /\ bound[c] \in superseded' \cup {NoSid}
          BY <3>3, <4>1 DEF Track, TypeOK
        <5>. QED
          BY <2>3, <3>0, <5>1 DEF Holds
      <4>2. CASE ~ Resolves(sess[c])
        <5>1. bound'[c] = bound[c] /\ CloseAllOf({sess[c]} \cap ExpiredSessions)
          BY <3>3, <4>2 DEF Track, GetSession
        <5>2. s \notin {sess[c]} \cap ExpiredSessions
          BY <5>1 DEF CloseAllOf
        <5>3. s # sess[c]
          BY <2>3, <4>2, <5>2 DEF Resolves, ExpiredSessions
        <5>. QED
          BY <2>3, <5>1, <5>3 DEF Holds
      <4>. QED
        BY <4>1, <4>2
    <3>4. CASE Unwind(c)
      <4>1. pc[c] = "unwind" /\ CloseAllOf({bound[c]} \cap Sid)
        BY <3>4 DEF Unwind, At
      <4>2. s # bound[c]
        BY <3>0, <4>1 DEF CloseAllOf
      <4>. QED
        BY <2>3, <4>1, <4>2 DEF Holds
    <3>5. CASE ClientThread(c) /\ ~ Authenticate(c) /\ ~ Track(c) /\ ~ Unwind(c)
      <4>1. bound' = bound /\ pc[c] \notin {"created", "opened"}
        BY <3>5
        DEF ClientThread, OpenRequest, CloseRequest, LoginRequest, LogoutRequest,
            KmsRequest, Inform, OpenSession, OpenRefused, CloseSession, Finalize,
            LoginById, LoginBound, LoginSession, Logout, LogoutSession, BeginCrypto,
            BeginListKeys, CallKms, Touch, Hangup, HasRequest, At
      <4>. QED
        BY <2>3, <4>1 DEF Holds
    <3>6. CASE MainThread \/ Tick \/ UNCHANGED vars
      <4>1. /\ UNCHANGED <<bound, sess>>
            /\ pc'[c] = pc[c] \/ pc[c] = "free"
        BY <3>6
        DEF MainThread, Accept, AcceptTimeout, AcceptFails, Sweep, Stop, Shutdown, JoinThreads,
            DisconnectKms, CloseAll, Exit, Tick, vars, TypeOK
      <4>. QED
        BY <2>3, <4>1 DEF Holds
    <3>. QED
      BY <3>1, <3>2, <3>3, <3>4, <3>5, <3>6 DEF Next, Stopped
  <2>. QED
    BY <2>1, <2>2, <2>3 DEF OnlySupersededLeak
<1>. QED
  BY <1>1, <1>2, TypeCorrect, BookkeepingCorrect, PTL DEF Spec
=============================================================================
