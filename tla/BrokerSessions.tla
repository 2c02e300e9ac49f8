--------------------------- MODULE BrokerSessions ---------------------------
(***************************************************************************)
(* The crypto broker daemon: one thread per client connection, the shared  *)
(* session manager, the session part of the request handler, the accept    *)
(* loop with its sweep of expired sessions, and the shutdown.              *)
(*                                                                         *)
(* A step is what one thread does between two points where another thread  *)
(* can see or change what it shares: a critical section of                 *)
(* SessionManager._lock, one assignment to a session object (these are     *)
(* made outside every lock), one call of the KMS.  Reading the request and *)
(* looking up the connection's own entry of _connection_sessions touch     *)
(* nothing another thread touches, so they are part of the handler's first *)
(* step; writing the response is part of its last one.                     *)
(***************************************************************************)
EXTENDS Naturals, FiniteSets

CONSTANTS Conn,           \* connections, each with its thread
          Client,         \* client identities the OS reports for a peer
          Sid,            \* session ids, i.e. session objects (bounds the model)
          NoSid,          \* Python's None where a session could be
          NoClient,
          MaxSessions,    \* SessionManager.max_sessions
          SessionTimeout, \* SessionManager.session_timeout in ticks, 0 = never
          LoginAllowed,   \* clients check_client_allowed lets through
          CryptoAllowed,  \* clients check_authorization lets through
          Platforms       \* which daemons: "unix" (BrokerDaemon), "windows"
                          \* (WindowsBrokerDaemon)

ASSUME SessionsAssumption ==
  /\ IsFiniteSet(Sid)
  /\ MaxSessions \in Nat
  /\ SessionTimeout \in Nat
  /\ NoSid \notin Sid
  /\ NoClient \notin Client
  /\ LoginAllowed \subseteq Client
  /\ CryptoAllowed \subseteq Client
  /\ Platforms \subseteq {"unix", "windows"}

VARIABLES
  state,      \* ClientSession.state of every object, "NONE" before it exists
  owner,      \* ClientSession.client_identity
  idle,       \* ticks since ClientSession.last_activity, up to MaxIdle; 0 for
              \* a session outside the table, whose idle time no code reads
  registry,   \* keys of SessionManager._sessions
  bound,      \* BrokerDaemon._connection_sessions, by connection
  peer,       \* client_identity of a connection's thread
  pc,         \* where a connection's thread is
  sess,       \* the session object a handler holds in a local variable
  running,    \* BrokerDaemon._running
  main,       \* where the main thread is
  kms,        \* KMSBackend._connected
  platform,   \* the daemon class, chosen once by create_broker_daemon
  superseded  \* history: sessions a connection opened before its present one

objects == <<state, owner, idle, registry>>
threads == <<bound, peer, pc, sess>>
daemon  == <<running, main, kms, platform>>
vars    == <<objects, threads, daemon, superseded>>

SessionState == {"NONE", "CREATED", "AUTHENTICATED", "LOGGED_IN", "CLOSED"}
ThreadPC == {"free", "read", "created", "opened", "login", "logout",
             "kms", "list", "touch", "unwind"}
MainPC == {"accept", "sweep", "join", "disconnect", "closeall", "unlink", "exited"}

(* A session idle for longer than this is as expired as it can get.        *)
MaxIdle == SessionTimeout + 1

-----------------------------------------------------------------------------
(* Session objects and the manager's critical sections.                    *)

(* SessionManager._is_expired                                              *)
Expired(s) == SessionTimeout > 0 /\ idle[s] > SessionTimeout

ExpiredSessions == {s \in registry : Expired(s)}

(* Mutation: the object is marked closed and stays in the table.           *)
CloseAllOf_KeepsEntry(S) ==
  /\ registry' = registry
  /\ state' = [s \in Sid |-> IF s \in S \cap registry THEN "CLOSED" ELSE state[s]]
  /\ idle' = [s \in Sid |-> IF s \in S THEN 0 ELSE idle[s]]

(* SessionManager._close_session_locked for every id of a set              *)
CloseAllOf(S) ==
  /\ registry' = registry \ S
  /\ state' = [s \in Sid |-> IF s \in S \cap registry THEN "CLOSED" ELSE state[s]]
  /\ idle' = [s \in Sid |-> IF s \in S THEN 0 ELSE idle[s]]

(* What is left of the table once _cleanup_expired_locked has run, which   *)
(* create_session only does when the table is full                         *)
SweptIfFull == IF Cardinality(registry) >= MaxSessions THEN ExpiredSessions ELSE {}

(* Mutation: one session too many.                                         *)
HasRoom_OffByOne == Cardinality(registry \ SweptIfFull) <= MaxSessions

HasRoom == Cardinality(registry \ SweptIfFull) < MaxSessions

(* SessionManager.get_session: the id resolves to a live session           *)
Resolves(s) == s \in registry /\ ~Expired(s)

(* get_session's side effect: an expired session is closed on the spot     *)
GetSession(s) == CloseAllOf({s} \cap ExpiredSessions)

-----------------------------------------------------------------------------
(* Threads.                                                                *)

Alive == main # "exited"   \* client threads are daemon threads

(* The response is written and the loop condition is read again; the       *)
(* write fails when the client has gone                                    *)
Reply(c) ==
  /\ sess' = [sess EXCEPT ![c] = NoSid]
  /\ \E next \in (IF running THEN {"read", "unwind"} ELSE {"unwind"}) :
        pc' = [pc EXCEPT ![c] = next]

(* The handler goes on to another step with session s in hand              *)
Continue(c, at, s) ==
  /\ pc' = [pc EXCEPT ![c] = at]
  /\ sess' = [sess EXCEPT ![c] = s]

HasRequest(c) == Alive /\ pc[c] = "read"

At(c, at) == Alive /\ pc[c] = at

Init ==
  /\ state = [s \in Sid |-> "NONE"]
  /\ owner = [s \in Sid |-> NoClient]
  /\ idle = [s \in Sid |-> 0]
  /\ registry = {}
  /\ bound = [c \in Conn |-> NoSid]
  /\ peer = [c \in Conn |-> NoClient]
  /\ pc = [c \in Conn |-> "free"]
  /\ sess = [c \in Conn |-> NoSid]
  /\ running = TRUE
  /\ main = "accept"
  /\ kms = TRUE
  /\ platform \in Platforms
  /\ superseded = {}

-----------------------------------------------------------------------------
(* Requests that leave the sessions alone: initialize, ping, get_info, a   *)
(* message that does not parse, an unknown method, a missing parameter.    *)
Inform(c) ==
  /\ HasRequest(c)
  /\ Reply(c)
  /\ UNCHANGED <<objects, bound, peer, daemon, superseded>>

(* open_session, first part: SessionManager.create_session                 *)
OpenSession(c) ==
  /\ HasRequest(c)
  /\ HasRoom
  /\ \E s \in Sid :
        /\ state[s] = "NONE"
        /\ registry' = (registry \ SweptIfFull) \cup {s}
        /\ state' = [t \in Sid |-> IF t = s THEN "CREATED"
                                   ELSE IF t \in SweptIfFull THEN "CLOSED"
                                   ELSE state[t]]
        /\ owner' = [owner EXCEPT ![s] = peer[c]]
        /\ idle' = [t \in Sid |-> IF t \in SweptIfFull THEN 0 ELSE idle[t]]
        /\ Continue(c, "created", s)
  /\ UNCHANGED <<bound, peer, daemon, superseded>>

(* create_session raises: the table is full of sessions that have not      *)
(* expired                                                                 *)
OpenRefused(c) ==
  /\ HasRequest(c)
  /\ ~HasRoom
  /\ CloseAllOf(SweptIfFull)
  /\ Reply(c)
  /\ UNCHANGED <<owner, bound, peer, daemon, superseded>>

(* Mutation: the session enters the table again when it is authenticated.  *)
Authenticate_Registers(c) ==
  /\ At(c, "created")
  /\ state' = [state EXCEPT ![sess[c]] = "AUTHENTICATED"]
  /\ idle' = [idle EXCEPT ![sess[c]] = 0]
  /\ registry' = registry \cup {sess[c]}
  /\ Continue(c, "opened", sess[c])
  /\ UNCHANGED <<owner, bound, peer, daemon, superseded>>

(* open_session, second part: new_session.authenticate(), under no lock    *)
Authenticate(c) ==
  /\ At(c, "created")
  /\ state' = [state EXCEPT ![sess[c]] = "AUTHENTICATED"]
  /\ idle' = [idle EXCEPT ![sess[c]] = 0]
  /\ Continue(c, "opened", sess[c])
  /\ UNCHANGED <<owner, registry, bound, peer, daemon, superseded>>

(* The daemon looks the new id up and binds it to the connection, in       *)
(* place of the session the connection had                                 *)
Track(c) ==
  /\ At(c, "opened")
  /\ GetSession(sess[c])
  /\ IF Resolves(sess[c])
       THEN /\ bound' = [bound EXCEPT ![c] = sess[c]]
            /\ superseded' = superseded \cup ({bound[c]} \ {NoSid})
       ELSE UNCHANGED <<bound, superseded>>
  /\ Reply(c)
  /\ UNCHANGED <<owner, peer, daemon>>

(* close_session with an id the client was given, or for its own session   *)
CloseSession(c) ==
  /\ HasRequest(c)
  /\ \E s \in {t \in Sid : state[t] # "NONE"} \cup {bound[c]} :
        CloseAllOf({s} \cap Sid)
  /\ Reply(c)
  /\ UNCHANGED <<owner, bound, peer, daemon, superseded>>

(* finalize closes the connection's session in the manager; the daemon     *)
(* keeps the object                                                        *)
Finalize(c) ==
  /\ HasRequest(c)
  /\ CloseAllOf({bound[c]} \cap Sid)
  /\ Reply(c)
  /\ UNCHANGED <<owner, bound, peer, daemon, superseded>>

(* Mutations: login checks the policy only, or the owner only.             *)
MayLogin_AnyOwner(c, s) == peer[c] \in LoginAllowed
MayLogin_NoPolicy(c, s) == owner[s] = peer[c]

(* login's checks passed for session object s                              *)
MayLogin(c, s) == owner[s] = peer[c] /\ peer[c] \in LoginAllowed

(* login with a session id: the object comes from get_session              *)
LoginById(c) ==
  /\ HasRequest(c)
  /\ \E s \in {t \in Sid : state[t] # "NONE"} :
        /\ GetSession(s)
        /\ IF Resolves(s) /\ MayLogin(c, s) THEN Continue(c, "login", s)
                                             ELSE Reply(c)
  /\ UNCHANGED <<owner, bound, peer, daemon, superseded>>

(* login without one: the connection's object, whatever became of it       *)
LoginBound(c) ==
  /\ HasRequest(c)
  /\ IF bound[c] # NoSid /\ MayLogin(c, bound[c])
       THEN Continue(c, "login", bound[c])
       ELSE Reply(c)
  /\ UNCHANGED <<objects, bound, peer, daemon, superseded>>

(* Mutation: login makes the session it names the connection's own.        *)
LoginSession_Binds(c) ==
  /\ At(c, "login")
  /\ state' = [state EXCEPT ![sess[c]] = "LOGGED_IN"]
  /\ bound' = [bound EXCEPT ![c] = sess[c]]
  /\ Continue(c, "touch", sess[c])
  /\ UNCHANGED <<owner, idle, registry, peer, daemon, superseded>>

(* ClientSession.login, an unguarded assignment                            *)
LoginSession(c) ==
  /\ At(c, "login")
  /\ state' = [state EXCEPT ![sess[c]] = "LOGGED_IN"]
  /\ Continue(c, "touch", sess[c])
  /\ UNCHANGED <<owner, idle, registry, bound, peer, daemon, superseded>>

(* logout: ClientSession.logout reads the state ...                        *)
Logout(c) ==
  /\ HasRequest(c)
  /\ IF bound[c] # NoSid /\ state[bound[c]] = "LOGGED_IN"
       THEN Continue(c, "logout", bound[c])
       ELSE Reply(c)
  /\ UNCHANGED <<objects, bound, peer, daemon, superseded>>

(* Mutation: a state the enumeration does not have.                        *)
LogoutSession_OtherState(c) ==
  /\ At(c, "logout")
  /\ state' = [state EXCEPT ![sess[c]] = "LOGGED_OUT"]
  /\ Continue(c, "touch", sess[c])
  /\ UNCHANGED <<owner, idle, registry, bound, peer, daemon, superseded>>

(* ... and then assigns it                                                 *)
LogoutSession(c) ==
  /\ At(c, "logout")
  /\ state' = [state EXCEPT ![sess[c]] = "AUTHENTICATED"]
  /\ Continue(c, "touch", sess[c])
  /\ UNCHANGED <<owner, idle, registry, bound, peer, daemon, superseded>>

(* sign, sign_digest, verify, hash, get_public_key, generate_key_pair:     *)
(* _check_authorization, once, before the KMS is called                    *)
BeginCrypto(c) ==
  /\ HasRequest(c)
  /\ IF bound[c] # NoSid /\ state[bound[c]] = "LOGGED_IN" /\ peer[c] \in CryptoAllowed
       THEN Continue(c, "kms", bound[c])
       ELSE Reply(c)
  /\ UNCHANGED <<objects, bound, peer, daemon, superseded>>

(* list_keys is checked against the policy only                            *)
BeginListKeys(c) ==
  /\ HasRequest(c)
  /\ IF peer[c] \in CryptoAllowed THEN Continue(c, "list", bound[c]) ELSE Reply(c)
  /\ UNCHANGED <<objects, bound, peer, daemon, superseded>>

(* KMSBackend: fails once disconnected, and may fail before                *)
CallKms(c) ==
  /\ At(c, "kms") \/ At(c, "list")
  /\ \/ kms /\ Continue(c, "touch", sess[c])
     \/ Reply(c)
  /\ UNCHANGED <<objects, bound, peer, daemon, superseded>>

(* session.touch(), if there is a session                                  *)
Touch(c) ==
  /\ At(c, "touch")
  /\ idle' = [s \in Sid |-> IF s = sess[c] THEN 0 ELSE idle[s]]
  /\ Reply(c)
  /\ UNCHANGED <<state, owner, registry, bound, peer, daemon, superseded>>

(* The client goes away while the thread waits for a request               *)
Hangup(c) ==
  /\ HasRequest(c)
  /\ Continue(c, "unwind", NoSid)
  /\ UNCHANGED <<objects, bound, peer, daemon, superseded>>

(* Mutations: the connection's session is not closed, or not unbound.      *)
Unwind_NoClose(c) ==
  /\ At(c, "unwind")
  /\ bound' = [bound EXCEPT ![c] = NoSid]
  /\ peer' = [peer EXCEPT ![c] = NoClient]
  /\ pc' = [pc EXCEPT ![c] = "free"]
  /\ UNCHANGED <<objects, sess, daemon, superseded>>

Unwind_NoPop(c) ==
  /\ At(c, "unwind")
  /\ CloseAllOf({bound[c]} \cap Sid)
  /\ peer' = [peer EXCEPT ![c] = NoClient]
  /\ pc' = [pc EXCEPT ![c] = "free"]
  /\ UNCHANGED <<owner, bound, sess, daemon, superseded>>

(* _handle_client's finally: unbind and close the connection's session     *)
Unwind(c) ==
  /\ At(c, "unwind")
  /\ CloseAllOf({bound[c]} \cap Sid)
  /\ bound' = [bound EXCEPT ![c] = NoSid]
  /\ peer' = [peer EXCEPT ![c] = NoClient]
  /\ pc' = [pc EXCEPT ![c] = "free"]
  /\ UNCHANGED <<owner, sess, daemon, superseded>>

-----------------------------------------------------------------------------
(* The main thread and the clock.                                          *)

(* Where the main thread goes when it reads the condition of its loop      *)
LoopOrLeave == IF running THEN "accept" ELSE "join"

(* A connection is accepted.  Its thread reads _running before its first   *)
(* request.  The accept loop of Windows sweeps the sessions after every    *)
(* accept, that of Unix goes on to the next one.                           *)
Accept(c) ==
  /\ main = "accept"
  /\ pc[c] = "free"
  /\ \E who \in Client : peer' = [peer EXCEPT ![c] = who]
  /\ pc' = [pc EXCEPT ![c] = IF running THEN "read" ELSE "unwind"]
  /\ main' = IF platform = "unix" THEN LoopOrLeave ELSE "sweep"
  /\ UNCHANGED <<objects, bound, sess, running, kms, platform, superseded>>

(* accept() fails.  On Windows a failed ConnectNamedPipe is treated like   *)
(* an accept, a failed CreateNamedPipe ends the loop.                      *)
AcceptFails ==
  /\ main = "accept"
  /\ \/ platform = "unix" /\ main' = LoopOrLeave
     \/ platform = "windows" /\ main' \in {"sweep", "join"}
  /\ UNCHANGED <<objects, threads, running, kms, platform, superseded>>

(* Mutation: the accept loop never sweeps.                                 *)
AcceptTimeout_NoSweep ==
  /\ main = "accept"
  /\ platform = "unix"
  /\ main' = LoopOrLeave
  /\ UNCHANGED <<objects, threads, running, kms, platform, superseded>>

(* Unix: accept() times out after a second; leave if stopped, else sweep.  *)
(* ConnectNamedPipe waits for a client for ever.                           *)
AcceptTimeout ==
  /\ main = "accept"
  /\ platform = "unix"
  /\ IF running
       THEN CloseAllOf(ExpiredSessions) /\ UNCHANGED main
       ELSE main' = "join" /\ UNCHANGED objects
  /\ UNCHANGED <<owner, threads, running, kms, platform, superseded>>

(* Windows: the sweep that follows an accept                               *)
Sweep ==
  /\ main = "sweep"
  /\ CloseAllOf(ExpiredSessions)
  /\ main' = LoopOrLeave
  /\ UNCHANGED <<owner, threads, running, kms, platform, superseded>>

(* SIGTERM, SIGINT or SIGHUP, or the Windows service's SvcStop             *)
Stop ==
  /\ main \in {"accept", "sweep"} /\ running
  /\ running' = FALSE
  /\ UNCHANGED <<objects, threads, main, kms, platform, superseded>>

(* Mutation: joins without a timeout.                                      *)
JoinThreads_Forever ==
  /\ main = "join"
  /\ \A c \in Conn : pc[c] = "free"
  /\ main' = "disconnect"
  /\ UNCHANGED <<objects, threads, running, kms, platform, superseded>>

(* _cleanup waits for each thread, five seconds at most: it goes on        *)
(* whether or not they are done                                            *)
JoinThreads ==
  /\ main = "join"
  /\ main' = "disconnect"
  /\ UNCHANGED <<objects, threads, running, kms, platform, superseded>>

DisconnectKms ==
  /\ main = "disconnect"
  /\ kms' = FALSE
  /\ main' = "closeall"
  /\ UNCHANGED <<objects, threads, running, platform, superseded>>

(* SessionManager.close_all                                                *)
CloseAll ==
  /\ main = "closeall"
  /\ CloseAllOf(registry)
  /\ main' = "unlink"
  /\ UNCHANGED <<owner, threads, running, kms, platform, superseded>>

(* The socket and the pid file go, and the process with its threads        *)
Exit ==
  /\ main = "unlink"
  /\ main' = "exited"
  /\ UNCHANGED <<objects, threads, running, kms, platform, superseded>>

(* Time passes for every session of the table                              *)
Tick ==
  /\ Alive
  /\ \E s \in registry : idle[s] < MaxIdle
  /\ idle' = [s \in Sid |-> IF s \in registry /\ idle[s] < MaxIdle
                              THEN idle[s] + 1 ELSE idle[s]]
  /\ UNCHANGED <<state, owner, registry, threads, daemon, superseded>>

Stopped == main = "exited" /\ UNCHANGED vars

-----------------------------------------------------------------------------
OpenRequest(c)  == OpenSession(c) \/ OpenRefused(c) \/ Authenticate(c) \/ Track(c)
CloseRequest(c) == CloseSession(c) \/ Finalize(c)
LoginRequest(c) == LoginById(c) \/ LoginBound(c) \/ LoginSession(c)
LogoutRequest(c) == Logout(c) \/ LogoutSession(c)
KmsRequest(c)   == BeginCrypto(c) \/ BeginListKeys(c) \/ CallKms(c)

ClientThread(c) ==
  \/ Inform(c) \/ OpenRequest(c) \/ CloseRequest(c) \/ LoginRequest(c)
  \/ LogoutRequest(c) \/ KmsRequest(c) \/ Touch(c) \/ Hangup(c) \/ Unwind(c)

Shutdown == JoinThreads \/ DisconnectKms \/ CloseAll \/ Exit

MainThread ==
  (\E c \in Conn : Accept(c)) \/ AcceptFails \/ AcceptTimeout \/ Sweep \/ Stop \/ Shutdown

Next == (\E c \in Conn : ClientThread(c)) \/ MainThread \/ Tick \/ Stopped

Spec == Init /\ [][Next]_vars

(* The joins of a shutdown are bounded, so the main thread gets on whatever *)
(* clients do.  The Unix accept socket has a timeout of a second: assumed   *)
(* is that a second without a new connection comes again and again.  The   *)
(* Windows loop waits for a client; nothing is assumed of that.  Clients   *)
(* owe nothing.                                                            *)
Fairness ==
  /\ WF_vars(AcceptTimeout)
  /\ WF_vars(Sweep)
  /\ WF_vars(Shutdown)
  /\ WF_vars(Tick)

FairSpec == Spec /\ Fairness

-----------------------------------------------------------------------------
(* Properties.                                                             *)

TypeOK ==
  /\ state \in [Sid -> SessionState]
  /\ owner \in [Sid -> Client \cup {NoClient}]
  /\ idle \in [Sid -> 0 .. MaxIdle]
  /\ registry \in SUBSET Sid
  /\ bound \in [Conn -> Sid \cup {NoSid}]
  /\ peer \in [Conn -> Client \cup {NoClient}]
  /\ pc \in [Conn -> ThreadPC]
  /\ sess \in [Conn -> Sid \cup {NoSid}]
  /\ running \in BOOLEAN
  /\ main \in MainPC
  /\ kms \in BOOLEAN
  /\ platform \in Platforms
  /\ superseded \in SUBSET Sid

(* However opens, sweeps and closes of all threads interleave, the manager *)
(* never holds more than max_sessions sessions (create_session).           *)
SlotLimit == Cardinality(registry) <= MaxSessions

(* A session found in the manager has not been closed: closing an object   *)
(* and dropping it from the table are one step for every other thread, in  *)
(* spite of login, logout and authenticate assigning states with no lock.  *)
RegisteredIsOpen ==
  \A s \in registry : state[s] \in {"CREATED", "AUTHENTICATED", "LOGGED_IN"}

(* The sessions a connection can name as its own: the one the daemon bound *)
(* to it, and one it has opened but not bound yet.                         *)
Holds(c, s) == bound[c] = s \/ (pc[c] \in {"created", "opened"} /\ sess[c] = s)

(* No session object is ever the session of two connections, so that what  *)
(* one client thread does to "its" session is never done to another's.     *)
PrivateSession ==
  \A c, d \in Conn : \A s \in Sid : Holds(c, s) /\ Holds(d, s) => c = d

(* A session is logged in only if the policy lets the client that opened   *)
(* it log in, although any connection may send login with any id.          *)
LoggedInIsAllowed == \A s \in Sid : state[s] = "LOGGED_IN" => owner[s] \in LoginAllowed

(* A key operation that reaches the KMS runs for a client the policy       *)
(* allows both to log in and to use keys, on a session this client opened, *)
(* even when the session was closed, expired or logged out meanwhile.      *)
CryptoIsAuthorized ==
  \A c \in Conn : pc[c] = "kms" =>
     /\ peer[c] \in LoginAllowed \cap CryptoAllowed
     /\ sess[c] \in Sid
     /\ sess[c] = bound[c]
     /\ owner[sess[c]] = peer[c]

(* What the threads take for granted about the objects they hold: an       *)
(* object in somebody's hands exists; a connection's objects belong to the *)
(* connection's client; past the checks of login they still hold when the  *)
(* state is assigned; a connection that ended is bound to nothing.         *)
Locals(c) ==
  /\ bound[c] \in Sid => state[bound[c]] # "NONE" /\ owner[bound[c]] = peer[c]
  /\ sess[c] \in Sid => state[sess[c]] # "NONE"
  /\ pc[c] \in {"created", "opened", "login", "logout"} => sess[c] \in Sid
  /\ pc[c] \in {"created", "opened", "login"} => owner[sess[c]] = peer[c]
  /\ pc[c] = "login" => peer[c] \in LoginAllowed
  /\ pc[c] = "free" => bound[c] = NoSid

Bookkeeping ==
  /\ \A s \in registry : state[s] # "NONE"
  /\ \A c \in Conn : Locals(c)

(* A slot of the manager is held by a connection that can still give it    *)
(* back, unless its connection opened another session over it: nothing     *)
(* else leaks a slot, in particular no disconnect in the middle of         *)
(* open_session.                                                           *)
OnlySupersededLeak ==
  \A s \in registry : s \in superseded \/ \E c \in Conn : Holds(c, s)

(* The promise of the session manager: ids take a slot once, while there   *)
(* is room for them, and never return.                                     *)
Table == INSTANCE SessionTable
           WITH live <- registry, issued <- {s \in Sid : state[s] # "NONE"}

ImplementsTable == Table!Spec

(* An expired session does not stay in the manager: the sweep takes it     *)
(* unless it becomes active again or the daemon ends.  The accept loop of  *)
(* Unix sweeps in every quiet second; that of Windows sweeps after an      *)
(* accept, so only as long as connections keep arriving.                   *)
ExpiredIsSwept ==
  platform = "unix" \/ []<>(main = "sweep") =>
    \A s \in Sid : s \in registry /\ Expired(s) ~>
                      s \notin registry \/ ~Expired(s) \/ main = "exited"

(* A stop request ends the process although client threads may be blocked  *)
(* in a read nobody wakes: the joins of _cleanup are bounded.  On Windows  *)
(* the accept loop has to be woken by a client first.                      *)
StopCompletes ==
  platform = "unix" \/ []<>(main # "accept") => (~running ~> main = "exited")

(* max_sessions is the number of concurrent sessions: sessions that are    *)
(* logged in and bound to a live connection are within it.                 *)
UsableSessions == {s \in Sid : state[s] = "LOGGED_IN" /\ \E c \in Conn : bound[c] = s}

UsableWithinLimit == Cardinality(UsableSessions) <= MaxSessions
=============================================================================
