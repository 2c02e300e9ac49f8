-------------------------- MODULE BrokerConnection --------------------------
(***************************************************************************)
(* One process's PKCS#11 library (BrokerPKCS11Lib, Slot, Session), the     *)
(* transport it shares between all its sessions, and what the daemon keeps *)
(* for this connection.  The library runs one call at a time: it writes a  *)
(* request and waits for the next response on the socket, for as long as   *)
(* the transport's timeout.  The daemon serves the requests in the order   *)
(* they arrive.  BrokerSessions has the daemon's threads in detail; here   *)
(* serving a request is one step.                                          *)
(*                                                                         *)
(* A request is a record of its number (counted by the model, the code has *)
(* none that tells two calls of a session apart), its method, the broker   *)
(* session it names and the data it carries.  A response is its request's  *)
(* record with the outcome and the broker session it mentions.  "query"    *)
(* stands for list_keys, hash, get_public_key, verify, generate_key_pair.  *)
(***************************************************************************)
EXTENDS Naturals, Sequences

CONSTANTS Data,       \* what sessions have signed
          NoData,
          MaxHandle,  \* bound: sessions the slot opens
          MaxCalls    \* bound: requests on the connection

ASSUME ConnectionAssumption == MaxHandle \in Nat /\ MaxCalls \in Nat

VARIABLES
  connected,  \* BrokerPKCS11Lib._initialized, with a transport
  next,       \* Slot._next_session_handle
  brokerSid,  \* Session._broker_session_id by handle, NoSession when not open
  loggedIn,   \* handles whose Session._logged_in is set
  call,       \* the call the process waits in, or NoCall
  sent,       \* requests written so far
  late,       \* calls that gave up before their response came
  returned,   \* history: the last signature returned, with what was asked
  toBroker, toClient,  \* the two directions of the socket
  thread,     \* the daemon's thread of this connection
  bound,      \* the session the daemon bound to the connection
  bstate      \* the state of the connection's broker sessions

client == <<connected, next, brokerSid, loggedIn, call, sent, late, returned>>
broker == <<thread, bound, bstate>>
vars   == <<client, toBroker, toClient, broker>>

Handle == 1 .. MaxHandle
Session == 1 .. MaxCalls      \* a connection opens at most one per request
NoSession == 0
NoCall == [op |-> "none"]
NoSignature == [asked |-> NoData, got |-> NoData]

Method == {"open_session", "login", "logout", "sign", "query"}

Request == [n : Nat, op : Method, h : Handle, sid : Session \cup {NoSession},
            data : Data \cup {NoData}]
Response == [n : Nat, op : Method, data : Data \cup {NoData}, ok : BOOLEAN,
             sid : Session \cup {NoSession}]

IsOpen(h) == brokerSid[h] # NoSession

Init ==
  /\ connected = TRUE
  /\ next = 1
  /\ brokerSid = [h \in Handle |-> NoSession]
  /\ loggedIn = {}
  /\ call = NoCall
  /\ sent = 0
  /\ late = 0
  /\ returned = NoSignature
  /\ toBroker = << >>
  /\ toClient = << >>
  /\ thread = "serving"
  /\ bound = NoSession
  /\ bstate = [s \in Session |-> "none"]

-----------------------------------------------------------------------------
(* The library: a call that needs the broker writes its request ...        *)

Idle == connected /\ call = NoCall

(* A write to a daemon that is gone fails, and so does the call: nothing   *)
(* changes.                                                                *)
Send(op, h, sid, data) ==
  LET q == [n |-> sent + 1, op |-> op, h |-> h, sid |-> sid, data |-> data]
  IN  /\ Idle
      /\ sent < MaxCalls
      /\ thread # "gone"
      /\ toBroker' = Append(toBroker, q)
      /\ sent' = sent + 1
      /\ call' = q
      /\ UNCHANGED <<connected, next, brokerSid, loggedIn, late, returned, toClient, broker>>

(* Slot.open_session                                                       *)
OpenSession == next \in Handle /\ Send("open_session", next, NoSession, NoData)

(* Session.C_Login names the broker session                                *)
Login(h) == IsOpen(h) /\ h \notin loggedIn /\ Send("login", h, brokerSid[h], NoData)

(* Session.C_Logout names none: the daemon takes the connection's          *)
Logout(h) == IsOpen(h) /\ h \in loggedIn /\ Send("logout", h, NoSession, NoData)

(* Session.C_SignInit asks for a login, Session.C_Sign sends the data      *)
Sign(h) ==
  /\ IsOpen(h) /\ h \in loggedIn
  /\ \E d \in Data : Send("sign", h, NoSession, d)

Query(h) == IsOpen(h) /\ Send("query", h, NoSession, NoData)

(* ... and takes the next response there is for its own.                   *)

HasSession(r)   == r.ok /\ r.sid # NoSession    \* result["session_id"]
HasSignature(r) == r.ok /\ r.op = "sign"        \* result["signature"]

SessionOpened(r) ==
  /\ call.op = "open_session" /\ HasSession(r)
  /\ brokerSid' = [brokerSid EXCEPT ![next] = r.sid]
  /\ next' = next + 1
  /\ UNCHANGED <<loggedIn, returned>>

LoggedIn(r) ==
  /\ call.op = "login" /\ r.ok
  /\ loggedIn' = loggedIn \cup {call.h}
  /\ UNCHANGED <<next, brokerSid, returned>>

LoggedOut(r) ==
  /\ call.op = "logout" /\ r.ok
  /\ loggedIn' = loggedIn \ {call.h}
  /\ UNCHANGED <<next, brokerSid, returned>>

Signed(r) ==
  /\ call.op = "sign" /\ HasSignature(r)
  /\ returned' = [asked |-> call.data, got |-> r.data]
  /\ UNCHANGED <<next, brokerSid, loggedIn>>

(* An error, or a result without what the call looks for in it             *)
CallFails(r) ==
  /\ \/ ~r.ok
     \/ call.op = "open_session" /\ ~HasSession(r)
     \/ call.op = "sign" /\ ~HasSignature(r)
     \/ call.op = "query"
  /\ UNCHANGED <<next, brokerSid, loggedIn, returned>>

Receive ==
  /\ connected /\ call # NoCall /\ toClient # << >>
  /\ LET r == Head(toClient)
     IN  SessionOpened(r) \/ LoggedIn(r) \/ LoggedOut(r) \/ Signed(r) \/ CallFails(r)
  /\ call' = NoCall
  /\ toClient' = Tail(toClient)
  /\ UNCHANGED <<connected, sent, late, toBroker, broker>>

(* Mutation: the call goes on waiting after it gave up.                    *)
Timeout_KeepsWaiting ==
  /\ connected /\ call # NoCall /\ toClient = << >>
  /\ late' = late + 1
  /\ UNCHANGED <<connected, next, brokerSid, loggedIn, call, sent, returned,
                 toBroker, toClient, broker>>

(* The socket's timeout: the call fails, the connection stays              *)
Timeout ==
  /\ connected /\ call # NoCall /\ toClient = << >>
  /\ call' = NoCall
  /\ late' = late + 1
  /\ UNCHANGED <<connected, next, brokerSid, loggedIn, sent, returned,
                 toBroker, toClient, broker>>

(* The daemon has closed the connection: end of file, or a reset that may  *)
(* overtake what it had written                                            *)
ConnectionLost ==
  /\ connected /\ call # NoCall /\ thread = "gone"
  /\ call' = NoCall
  /\ UNCHANGED <<connected, next, brokerSid, loggedIn, sent, late, returned,
                 toBroker, toClient, broker>>

(* Slot.close_session: the broker is not told                              *)
CloseSession(h) ==
  /\ Idle /\ IsOpen(h)
  /\ brokerSid' = [brokerSid EXCEPT ![h] = NoSession]
  /\ loggedIn' = loggedIn \ {h}
  /\ UNCHANGED <<connected, next, call, sent, late, returned, toBroker, toClient, broker>>

(* C_Finalize, after which what the daemon sends is lost                   *)
Finalize ==
  /\ Idle
  /\ connected' = FALSE
  /\ brokerSid' = [h \in Handle |-> NoSession]
  /\ loggedIn' = {}
  /\ toClient' = << >>
  /\ UNCHANGED <<next, call, sent, late, returned, toBroker, broker>>

-----------------------------------------------------------------------------
(* The daemon's thread.  A response that cannot be written ends its loop.  *)

Answer(q, ok, sid) ==
  /\ toBroker' = Tail(toBroker)
  /\ IF connected
       THEN /\ toClient' = Append(toClient, [n |-> q.n, op |-> q.op, data |-> q.data,
                                             ok |-> ok, sid |-> sid])
            /\ UNCHANGED thread
       ELSE thread' = "unwind" /\ UNCHANGED toClient

Live(s) == bstate[s] \in {"authenticated", "logged_in"}

(* Mutation: the connection keeps the session it had.                      *)
ServeOpen_KeepsBound(q) ==
  /\ q.op = "open_session"
  /\ \E s \in Session :
        /\ bstate[s] = "none" /\ \A r \in 1 .. s - 1 : bstate[r] # "none"
        /\ bstate' = [bstate EXCEPT ![s] = "authenticated"]
        /\ bound' = IF bound = NoSession THEN s ELSE bound
        /\ Answer(q, TRUE, s)

ServeOpen(q) ==
  /\ q.op = "open_session"
  /\ bound' = bound + 1
  /\ bstate' = [bstate EXCEPT ![bound + 1] = "authenticated"]
  /\ Answer(q, TRUE, bound + 1)

ServeLogin(q) ==
  /\ q.op = "login" /\ Live(q.sid)
  /\ bstate' = [bstate EXCEPT ![q.sid] = "logged_in"]
  /\ Answer(q, TRUE, q.sid)
  /\ UNCHANGED bound

(* Mutation: logout leaves the broker's session logged in.                 *)
ServeLogout_NoEffect(q) ==
  /\ q.op = "logout"
  /\ Answer(q, TRUE, bound)
  /\ UNCHANGED <<bound, bstate>>

ServeLogout(q) ==
  /\ q.op = "logout"
  /\ bstate' = [s \in Session |-> IF s = bound /\ bstate[s] = "logged_in"
                                    THEN "authenticated" ELSE bstate[s]]
  /\ Answer(q, TRUE, bound)
  /\ UNCHANGED bound

ServeSign(q) ==
  /\ q.op = "sign" /\ bound # NoSession /\ bstate[bound] = "logged_in"
  /\ Answer(q, TRUE, NoSession)
  /\ UNCHANGED <<bound, bstate>>

ServeQuery(q) ==
  /\ q.op = "query"
  /\ Answer(q, TRUE, NoSession)
  /\ UNCHANGED <<bound, bstate>>

(* Mutation: an error is logged and not answered.                          *)
Refuse_Silent(q) ==
  /\ q.op # "logout"
  /\ toBroker' = Tail(toBroker)
  /\ UNCHANGED <<toClient, thread, bound, bstate>>

(* The table is full, the policy forbids it, there is no such session, it  *)
(* is not logged in, the KMS fails                                         *)
Refuse(q) ==
  /\ q.op # "logout"
  /\ Answer(q, FALSE, NoSession)
  /\ UNCHANGED <<bound, bstate>>

Serve ==
  /\ thread = "serving" /\ toBroker # << >>
  /\ LET q == Head(toBroker)
     IN  \/ ServeOpen(q) \/ ServeLogin(q) \/ ServeLogout(q) \/ ServeSign(q)
         \/ ServeQuery(q) \/ Refuse(q)
  /\ UNCHANGED client

(* The client is gone                                                      *)
EndOfFile ==
  /\ thread = "serving" /\ ~connected /\ toBroker = << >>
  /\ thread' = "unwind"
  /\ UNCHANGED <<client, toBroker, toClient, bound, bstate>>

Unwind ==
  /\ thread = "unwind"
  /\ thread' = "gone"
  /\ bstate' = [s \in Session |-> IF s = bound THEN "closed" ELSE bstate[s]]
  /\ UNCHANGED <<client, toBroker, toClient, bound>>

(* The broker session expired or was swept                                 *)
Expire ==
  /\ \E s \in Session : Live(s) /\ bstate' = [bstate EXCEPT ![s] = "closed"]
  /\ UNCHANGED <<client, toBroker, toClient, thread, bound>>

(* The daemon's process ends, and with it all sessions                     *)
DaemonExits ==
  /\ thread # "gone"
  /\ thread' = "gone"
  /\ bstate' = [s \in Session |-> IF Live(s) THEN "closed" ELSE bstate[s]]
  /\ UNCHANGED <<client, toBroker, toClient, bound>>

-----------------------------------------------------------------------------
Calls ==
  \/ OpenSession
  \/ \E h \in Handle : Login(h) \/ Logout(h) \/ Sign(h) \/ Query(h) \/ CloseSession(h)
  \/ Receive \/ Timeout \/ ConnectionLost \/ Finalize

Daemon == Serve \/ EndOfFile \/ Unwind \/ Expire \/ DaemonExits

Done == (~connected \/ call = NoCall) /\ thread = "gone" /\ UNCHANGED vars

Next == Calls \/ Daemon \/ Done

Spec == Init /\ [][Next]_vars

-----------------------------------------------------------------------------
(* Properties.                                                             *)

TypeOK ==
  /\ connected \in BOOLEAN
  /\ next \in 1 .. MaxHandle + 1
  /\ brokerSid \in [Handle -> Session \cup {NoSession}]
  /\ loggedIn \in SUBSET Handle
  /\ call \in Request \cup {NoCall}
  /\ sent \in 0 .. MaxCalls
  /\ late \in 0 .. sent
  /\ returned \in [asked : Data \cup {NoData}, got : Data \cup {NoData}]
  /\ toBroker \in Seq(Request)
  /\ toClient \in Seq(Response)
  /\ thread \in {"serving", "unwind", "gone"}
  /\ bound \in Session \cup {NoSession}
  /\ bstate \in [Session -> {"none", "authenticated", "logged_in", "closed"}]

(* What a waiting call is going to take for its answer answers the request *)
(* as many calls back as calls have timed out on this connection.  With no *)
(* timeout that is its own; after one the connection never gets back into  *)
(* step, because nothing in the library skips a response or compares ids.  *)
InStep == connected /\ call # NoCall /\ toClient # << >> => Head(toClient).n = sent - late

Quiet == connected /\ thread = "serving" /\ call = NoCall /\ late = 0

(* As long as no call timed out and the process opened one session, the    *)
(* library and the daemon agree whether it is logged in, except that the   *)
(* daemon may have let it expire; the daemon never has it logged in behind *)
(* the library's back.                                                     *)
Agreement ==
  Quiet /\ next <= 2 =>
    \A h \in Handle : IsOpen(h) =>
      /\ brokerSid[h] = bound
      /\ IF h \in loggedIn THEN bstate[bound] \in {"logged_in", "closed"}
                             ELSE bstate[bound] # "logged_in"

(* With several sessions on the connection the one the daemon acts on is   *)
(* the one opened last, and no two handles name the same one.              *)
NewestIsBound ==
  Quiet /\ next > 1 =>
    /\ IsOpen(next - 1) => brokerSid[next - 1] = bound
    /\ \A g, h \in Handle : g < h /\ IsOpen(g) /\ IsOpen(h) => brokerSid[g] < brokerSid[h]

(* protocol.py, "id: Request identifier (matches request)": a signature    *)
(* the library returns with CKR_OK is one of the data it was given.        *)
SignatureOfData == returned.asked = returned.got
=============================================================================
