--------------------------- MODULE BrokerLifecycle ---------------------------
(***************************************************************************)
(* Daemon processes of the broker and the files by which they are found:   *)
(* the pid file, the socket file and the fingerprint of the configuration  *)
(* the broker was started with.  Clients start, restart and look for the   *)
(* broker (BrokerHSMClient._ensure_broker_running); an operator starts and *)
(* stops it by hand, edits the configuration, and processes get killed.    *)
(*                                                                         *)
(* On Windows there is no socket file: every running daemon has an         *)
(* instance of the pipe, the service runs without a pid file, and stopping *)
(* is killing.  What a daemon does for its clients is BrokerSessions.      *)
(***************************************************************************)
EXTENDS FiniteSets

CONSTANTS Pid,       \* daemon processes
          Client,    \* BrokerHSMClient objects, each in its own process
          Operator,  \* the user of `cli broker start' and `cli broker stop'
          Config,    \* contents of project_config.json
          None,
          Platforms  \* subset of {"unix", "windows"}

Regions == {c.region : c \in Config}
Creds == {c.creds : c \in Config}

ASSUME LifecycleAssumption ==
  /\ Operator \notin Client
  /\ None \notin Pid \cup Config
  /\ \A c \in Config : c \in [region : Regions, creds : Creds]
  /\ Platforms \subseteq {"unix", "windows"}

VARIABLES
  win,      \* the platform is Windows
  project,  \* project_config.json
  pidFile,  \* the pid in the pid file
  sock,     \* the process that bound the socket file (Unix)
  finger,   \* the fingerprint file
  proc,     \* daemon processes
  actor,    \* clients and the operator
  seen      \* history: what has interfered so far

vars == <<win, project, pidFile, sock, finger, proc, actor, seen>>
files == <<project, pidFile, sock, finger>>

(* "check" is before is_daemon_running, "pid" .. "kms" the start, then the *)
(* accept loop and, in order, the three parts of _cleanup.                 *)
Starting == {"pid", "unlink", "bind", "kms"}
Stopping == {"joining", "rmpid"}
Process == [st : {"unused", "check", "running", "gone"} \cup Starting \cup Stopping,
            cfg : [region : Regions, creds : Creds] \cup {None},
            term : BOOLEAN, service : BOOLEAN]

Actor == [pc : {"idle", "compare", "stop", "wait", "launch", "poll", "connect"},
          want : Config \cup {None}, pid : Pid \cup {None}]

(* race: a daemon passed is_daemon_running before another had written its  *)
(* pid file.  kill: a daemon had no chance to clean up.  mislead: what     *)
(* makes the fingerprint wrong, which is one of                            *)
(*   - a daemon started by hand or as a service,                           *)
(*   - an edit of the configuration between a client and its start,        *)
(*   - a client that looks for the broker while another one is at it,      *)
(*   - a start that failed, took longer than the client polls, or hid      *)
(*     behind the socket file of a daemon that was killed.                 *)
Interference == {"race", "kill", "mislead"}

Alive(d) == proc[d].st \notin {"unused", "gone"}
PastCheck(d) == Alive(d) /\ proc[d].st # "check"

(* listen(5) has been called, or a pipe instance created                   *)
Listening(d) == proc[d].st = "running" \/ (~win /\ proc[d].st = "kms")

Unused == [st |-> "unused", cfg |-> None, term |-> FALSE, service |-> FALSE]
Gone == [Unused EXCEPT !.st = "gone"]
IdleActor == [pc |-> "idle", want |-> None, pid |-> None]

Init ==
  /\ win \in {p = "windows" : p \in Platforms}
  /\ project \in Config
  /\ pidFile = None /\ sock = None /\ finger = None
  /\ proc = [d \in Pid |-> Unused]
  /\ actor = [a \in Client \cup {Operator} |-> IdleActor]
  /\ seen = {}

-----------------------------------------------------------------------------
(* A daemon process                                                        *)

Become(d, st) == proc' = [proc EXCEPT ![d] = IF st = "gone" THEN Gone ELSE [@ EXCEPT !.st = st]]

(* is_daemon_running of the pid file: signal 0, or tasklist                *)
DaemonRunning == pidFile # None /\ Alive(pidFile)

(* broker_start; the configuration has been read before                    *)
CheckRunning(d) ==
  /\ proc[d].st = "check"
  /\ IF DaemonRunning THEN Become(d, "gone") /\ UNCHANGED seen
     ELSE /\ Become(d, "pid")
          /\ seen' = IF \E e \in Pid : proc[e].st = "pid" THEN seen \cup {"race"} ELSE seen
  /\ UNCHANGED <<win, files, actor>>

(* Mutation: written before the fork, the file names the starting command. *)
WritePidFile_BeforeFork(d) ==
  /\ proc[d].st = "pid"
  /\ pidFile' = Operator
  /\ Become(d, IF win THEN "kms" ELSE "unlink")
  /\ UNCHANGED <<win, project, sock, finger, actor, seen>>

WritePidFile(d) ==
  /\ proc[d].st = "pid"
  /\ pidFile' = d
  /\ Become(d, IF win THEN "kms" ELSE "unlink")
  /\ UNCHANGED <<win, project, sock, finger, actor, seen>>

(* _start_server: remove a socket file that is there, then bind, which     *)
(* fails on an existing file                                               *)
UnlinkSocket(d) ==
  /\ proc[d].st = "unlink"
  /\ sock' = None
  /\ Become(d, "bind")
  /\ UNCHANGED <<win, project, pidFile, finger, actor, seen>>

BindSocket(d) ==
  /\ proc[d].st = "bind"
  /\ IF sock = None THEN sock' = d /\ Become(d, "kms")
                    ELSE UNCHANGED sock /\ Become(d, "joining")
  /\ UNCHANGED <<win, project, pidFile, finger, actor, seen>>

(* kms_backend.connect may fail.  On Unix _cleanup follows, on Windows the *)
(* try block begins later and the pid file stays.                          *)
ConnectKms(d, ok) ==
  /\ proc[d].st = "kms"
  /\ Become(d, IF ok THEN "running" ELSE IF win THEN "gone" ELSE "joining")
  /\ UNCHANGED <<win, files, actor, seen>>

(* The accept loop ends: on Unix when accept times out after a signal, on  *)
(* Windows when a stop was requested and a client happens to connect, or   *)
(* when no instance of the pipe can be made.                               *)
LeaveLoop(d) ==
  /\ proc[d].st = "running"
  /\ win \/ proc[d].term
  /\ Become(d, "joining")
  /\ UNCHANGED <<win, files, actor, seen>>

(* Mutation: the pid file goes first.                                      *)
RemoveSocket_PidFirst(d) ==
  /\ proc[d].st = "joining"
  /\ sock' = sock
  /\ pidFile' = IF proc[d].service THEN pidFile ELSE None
  /\ Become(d, "rmpid")
  /\ UNCHANGED <<win, project, finger, actor, seen>>

(* _cleanup: the listening socket is closed and threads are joined, which  *)
(* may take longer than stop_daemon waits; then the socket file goes,      *)
(* whoever bound it                                                        *)
RemoveSocket(d) ==
  /\ proc[d].st = "joining"
  /\ sock' = None
  /\ Become(d, "rmpid")
  /\ UNCHANGED <<win, project, pidFile, finger, actor, seen>>

(* Mutation: the file is left to the next daemon.                          *)
RemovePidFile_Leaves(d) ==
  /\ proc[d].st = "rmpid"
  /\ Become(d, "gone")
  /\ UNCHANGED <<win, files, actor, seen>>

(* Whoever's pid is in it, and the process ends                            *)
RemovePidFile(d) ==
  /\ proc[d].st = "rmpid"
  /\ pidFile' = IF proc[d].service THEN pidFile ELSE None
  /\ Become(d, "gone")
  /\ UNCHANGED <<win, project, sock, finger, actor, seen>>

(* The out-of-memory killer, a power failure                               *)
Crash(d) ==
  /\ Alive(d)
  /\ Become(d, "gone")
  /\ seen' = seen \cup {"kill"}
  /\ UNCHANGED <<win, files, actor>>

-----------------------------------------------------------------------------
(* stop_daemon, called by `cli broker stop' and by _stop_broker            *)

(* What the caller does next: the operator is done, a client starts one    *)
AfterStop(a) == [actor[a] EXCEPT !.pc = IF a = Operator THEN "idle" ELSE "launch",
                                 !.pid = None]

(* Nothing to stop: no pid file, or a pid without a process                *)
NothingToStop(a) ==
  /\ actor[a].pc = "stop"
  /\ ~DaemonRunning
  /\ actor' = [actor EXCEPT ![a] = AfterStop(a)]
  /\ UNCHANGED <<win, files, proc, seen>>

(* SIGTERM sets a flag which the accept loop looks at; taskkill /F kills   *)
Terminate(a) ==
  /\ actor[a].pc = "stop"
  /\ DaemonRunning
  /\ proc' = [proc EXCEPT ![pidFile] = IF win THEN Gone ELSE [@ EXCEPT !.term = TRUE]]
  /\ seen' = IF win THEN seen \cup {"kill"} ELSE seen
  /\ actor' = [actor EXCEPT ![a].pc = "wait", ![a].pid = pidFile]
  /\ UNCHANGED <<win, files>>

(* 50 polls of 0.1 s end when the process has; the last is followed by     *)
(* SIGKILL                                                                 *)
WaitForExit(a) ==
  /\ actor[a].pc = "wait"
  /\ IF Alive(actor[a].pid) THEN Become(actor[a].pid, "gone") /\ seen' = seen \cup {"kill"}
                            ELSE UNCHANGED <<proc, seen>>
  /\ actor' = [actor EXCEPT ![a] = AfterStop(a)]
  /\ UNCHANGED <<win, files>>

-----------------------------------------------------------------------------
(* BrokerHSMClient                                                         *)

Busy(c) == actor[c].pc # "idle"

(* is_broker_available: the socket file exists; on Windows a pipe instance *)
(* can be opened or the service is running                                 *)
Available == IF win THEN \E d \in Pid : Listening(d) ELSE sock # None

(* The client is made from the project configuration and connects          *)
LookForBroker(c) ==
  /\ actor[c].pc = "idle"
  /\ actor' = [actor EXCEPT ![c] = [IdleActor EXCEPT !.want = project,
                                       !.pc = IF Available THEN "compare" ELSE "launch"]]
  /\ seen' = IF \E b \in Client : Busy(b) THEN seen \cup {"mislead"} ELSE seen
  /\ UNCHANGED <<win, files, proc>>

(* Mutation: whatever is running will do.                                  *)
CompareConfig_Never(c) ==
  /\ actor[c].pc = "compare"
  /\ actor' = [actor EXCEPT ![c].pc = "connect"]
  /\ UNCHANGED <<win, files, proc, seen>>

(* _config_changed: another fingerprint, or none, means restart            *)
CompareConfig(c) ==
  /\ actor[c].pc = "compare"
  /\ actor' = [actor EXCEPT ![c].pc = IF finger = actor[c].want THEN "connect" ELSE "stop"]
  /\ UNCHANGED <<win, files, proc, seen>>

(* `cli broker start --region <ours>', which reads the credentials itself  *)
LaunchBroker(c, d) ==
  /\ actor[c].pc = "launch"
  /\ proc[d].st = "unused"
  /\ proc' = [proc EXCEPT ![d] = [Unused EXCEPT !.st = "check",
                !.cfg = [region |-> actor[c].want.region, creds |-> project.creds]]]
  /\ actor' = [actor EXCEPT ![c].pc = "poll"]
  /\ seen' = IF project.creds # actor[c].want.creds THEN seen \cup {"mislead"} ELSE seen
  /\ UNCHANGED <<win, files>>

(* Popen raised                                                            *)
LaunchFails(c) ==
  /\ actor[c].pc = "launch"
  /\ actor' = [actor EXCEPT ![c].pc = "connect"]
  /\ seen' = seen \cup {"mislead"}
  /\ UNCHANGED <<win, files, proc>>

(* A connection reaches the process that bound the socket, if it is still  *)
(* listening, or on Windows any of those with a free instance              *)
Reaches(d) == Listening(d) /\ (win \/ sock = d)

(* 20 polls of 0.5 s: the fingerprint is written when a broker is          *)
(* available, and also when none has come up in time                       *)
Poll(c) ==
  /\ actor[c].pc = "poll"
  /\ finger' = actor[c].want
  /\ actor' = [actor EXCEPT ![c].pc = "connect"]
  /\ seen' = IF \E d \in Pid : Reaches(d) THEN seen ELSE seen \cup {"mislead"}
  /\ UNCHANGED <<win, project, pidFile, sock, proc>>

(* C_Initialize, C_OpenSession and C_Login work or fail; the client is     *)
(* used and disconnected                                                   *)
Connect(c) ==
  /\ actor[c].pc = "connect"
  /\ actor' = [actor EXCEPT ![c] = IdleActor]
  /\ UNCHANGED <<win, files, proc, seen>>

-----------------------------------------------------------------------------
(* The operator                                                            *)

EditConfig(cfg) ==
  /\ cfg # project
  /\ project' = cfg
  /\ UNCHANGED <<win, pidFile, sock, finger, proc, actor, seen>>

StartByHand(d) ==
  /\ proc[d].st = "unused"
  /\ proc' = [proc EXCEPT ![d] = [Unused EXCEPT !.st = "check", !.cfg = project]]
  /\ seen' = seen \cup {"mislead"}
  /\ UNCHANGED <<win, files, actor>>

StopByHand ==
  /\ actor[Operator].pc = "idle"
  /\ actor' = [actor EXCEPT ![Operator].pc = "stop"]
  /\ UNCHANGED <<win, files, proc, seen>>

(* SvcDoRun: no pid file and no check                                      *)
StartService(d) ==
  /\ win /\ proc[d].st = "unused"
  /\ \A e \in Pid : ~(proc[e].service /\ Alive(e))
  /\ proc' = [proc EXCEPT ![d] = [Unused EXCEPT !.st = "kms", !.cfg = project,
                                                !.service = TRUE]]
  /\ seen' = seen \cup {"mislead"}
  /\ UNCHANGED <<win, files, actor>>

SvcStop(d) ==
  /\ proc[d].service /\ proc[d].st = "running" /\ ~proc[d].term
  /\ proc' = [proc EXCEPT ![d].term = TRUE]
  /\ UNCHANGED <<win, files, actor, seen>>

Daemon(d) ==
  \/ CheckRunning(d) \/ WritePidFile(d) \/ UnlinkSocket(d) \/ BindSocket(d)
  \/ \E ok \in BOOLEAN : ConnectKms(d, ok)
  \/ LeaveLoop(d) \/ RemoveSocket(d) \/ RemovePidFile(d)

StopDaemon(a) == NothingToStop(a) \/ Terminate(a) \/ WaitForExit(a)

ClientStep(c) ==
  \/ LookForBroker(c) \/ CompareConfig(c) \/ LaunchFails(c) \/ Poll(c) \/ Connect(c)
  \/ \E d \in Pid : LaunchBroker(c, d)

Next ==
  \/ \E d \in Pid : Daemon(d) \/ Crash(d) \/ StartByHand(d) \/ StartService(d) \/ SvcStop(d)
  \/ \E a \in Client \cup {Operator} : StopDaemon(a)
  \/ \E c \in Client : ClientStep(c)
  \/ \E cfg \in Config : EditConfig(cfg)
  \/ StopByHand

Spec == Init /\ [][Next]_vars

-----------------------------------------------------------------------------
(* Properties                                                              *)

(* Every variable keeps its type; pid and socket file name real processes. *)
TypeOK ==
  /\ win \in BOOLEAN
  /\ project \in Config
  /\ pidFile \in Pid \cup {None} /\ sock \in Pid \cup {None}
  /\ finger \in Config \cup {None}
  /\ proc \in [Pid -> Process]
  /\ actor \in [Client \cup {Operator} -> Actor]
  /\ seen \subseteq Interference

(* As long as no daemon passed is_daemon_running while another had passed  *)
(* it and not yet written its pid, there is one broker: no second process  *)
(* gets past the check, the pid file names it until it ends, the socket    *)
(* file is its own while it listens, and its bind finds no file in the way *)
(* (start, _start_server and _cleanup of daemon.py, also after kills).     *)
Standalone(d) == PastCheck(d) /\ ~proc[d].service

OneBroker ==
  "race" \notin seen =>
    \A d \in Pid : Standalone(d) =>
      /\ \A e \in Pid : Standalone(e) => e = d
      /\ proc[d].st # "pid" => pidFile = d
      /\ ~win /\ proc[d].st \in {"kms", "running", "joining"} => sock = d
      /\ proc[d].st = "bind" => sock = None

(* A client that connects reaches a broker with its own region and         *)
(* credentials or none, unless something misled it (see Interference):     *)
(* _ensure_broker_running and its fingerprint, also after kills.           *)
ConnectedConfig ==
  seen \subseteq {"kill"} =>
    \A c \in Client, d \in Pid :
      actor[c].pc = "connect" /\ Reaches(d) => proc[d].cfg = actor[c].want

(* On Unix daemons that were not killed leave no files behind, in whatever *)
(* order they started and ended, those that failed to start included       *)
(* (_cleanup in the finally block of start).                               *)
GracefulLeavesNothing ==
  ~win /\ "kill" \notin seen /\ (\A d \in Pid : ~PastCheck(d)) => pidFile = None /\ sock = None
=============================================================================
