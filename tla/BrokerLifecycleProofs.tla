------------------------ MODULE BrokerLifecycleProofs ------------------------
(***************************************************************************)
(* What BrokerLifecycle promises, for any number of processes, clients and *)
(* configurations, proved.                                                 *)
(***************************************************************************)
EXTENDS BrokerLifecycle, TLAPS

(* An actor's pc says which of its other fields are set.                   *)
Purpose ==
  /\ \A c \in Client : actor[c].pc # "idle" => actor[c].want \in Config
  /\ \A a \in Client \cup {Operator} : actor[a].pc = "wait" => actor[a].pid \in Pid
  /\ actor[Operator].pc \in {"idle", "stop", "wait"}

(* The service runs on Windows only, and does not start like a daemon.     *)
ServiceOnWindows ==
  \A d \in Pid : proc[d].service =>
    win /\ proc[d].st \in {"kms", "running", "joining", "rmpid"}

(* What a graceful end relies on: whoever has left a file is at work, or   *)
(* another one is, which will remove it.                                   *)
FilesHaveOwners ==
  ~win /\ "kill" \notin seen =>
    /\ pidFile # None => \E d \in Pid : PastCheck(d) /\ proc[d].st # "pid"
    /\ sock # None => \E d \in Pid : proc[d].st \in {"kms", "running", "joining"}

-----------------------------------------------------------------------------
(* What the fingerprint relies on, while nothing misleads the clients.     *)

Active(d) == Alive(d) /\ proc[d].st \notin Stopping

(* Started but not yet listening                                           *)
Early(d) == Active(d) /\ ~Listening(d)

Polls(c) == actor[c].pc = "poll"

OneClient == \A b, c \in Client : Busy(b) /\ Busy(c) => b = c
OneActive == \A d, e \in Pid : Active(d) /\ Active(e) => d = e
NoService == \A d \in Pid : ~proc[d].service
EarlyIsPolled == \A d \in Pid : Early(d) => \E c \in Client : Polls(c)
LaunchesAlone == \A c \in Client, d \in Pid : actor[c].pc = "launch" => ~Active(d)
WaitsForActive ==
  \A c \in Client, d \in Pid : actor[c].pc = "wait" /\ Active(d) => d = actor[c].pid
PolledIsWanted == \A c \in Client, d \in Pid : Polls(c) /\ Active(d) => proc[d].cfg = actor[c].want
FingerIsActive == \A d \in Pid : Active(d) /\ (\A c \in Client : ~Polls(c)) => proc[d].cfg = finger
ConnectsAsWanted == \A c \in Client : actor[c].pc = "connect" => finger = actor[c].want

LaunchInv ==
  /\ OneClient /\ OneActive /\ NoService /\ EarlyIsPolled /\ LaunchesAlone
  /\ WaitsForActive /\ PolledIsWanted /\ FingerIsActive /\ ConnectsAsWanted

Launching == seen \subseteq {"kill"} => LaunchInv

-----------------------------------------------------------------------------
(* Processes and types                                                     *)

States == {"unused", "check", "running", "gone"} \cup Starting \cup Stopping

(* A configuration is a record of a region and credentials.                *)
LEMMA ConfigFields ==
  ASSUME NEW c \in Config
  PROVE  c \in [region : Regions, creds : Creds]
BY LifecycleAssumption

LEMMA UnusedAndGone == Unused \in Process /\ Gone \in Process
BY DEF Unused, Gone, Process

(* What a daemon's step does to the table of processes                     *)
LEMMA BecomeOne ==
  ASSUME TypeOK, NEW d \in Pid, NEW st \in States, Become(d, st)
  PROVE  /\ proc' \in [Pid -> Process]
         /\ \A e \in Pid : e # d => proc'[e] = proc[e]
         /\ proc'[d].st = st
         /\ st # "gone" => proc'[d] = [proc[d] EXCEPT !.st = st]
         /\ st = "gone" => proc'[d] = Gone
<1>1. proc \in [Pid -> Process]
  BY DEF TypeOK
<1>2. CASE st = "gone"
  <2>1. proc' = [proc EXCEPT ![d] = Gone]
    BY <1>2 DEF Become
  <2> QED
    BY <1>1, <1>2, <2>1, UnusedAndGone DEF Gone, Unused
<1>3. CASE st # "gone"
  <2>1. proc' = [proc EXCEPT ![d] = [proc[d] EXCEPT !.st = st]]
    BY <1>3 DEF Become
  <2>2. [proc[d] EXCEPT !.st = st] \in Process
    BY <1>1 DEF Process, States
  <2>3. proc[d] \in Process
    BY <1>1
  <2>4. [proc[d] EXCEPT !.st = st].st = st
    BY <2>3 DEF Process
  <2> QED
    BY <1>1, <1>3, <2>1, <2>2, <2>4
<1> QED
  BY <1>2, <1>3

(* What an actor's step does to the table of actors                        *)
LEMMA ActorOne ==
  ASSUME TypeOK, NEW a \in Client \cup {Operator}, NEW r \in Actor,
         actor' = [actor EXCEPT ![a] = r]
  PROVE  /\ actor' \in [Client \cup {Operator} -> Actor]
         /\ \A b \in Client \cup {Operator} : b # a => actor'[b] = actor[b]
         /\ actor'[a] = r
BY DEF TypeOK

(* Init and every action keep the types and what a pc stands for.          *)
Typed == TypeOK /\ Purpose

LEMMA InitTyped == Init => Typed
<1> SUFFICES ASSUME Init PROVE Typed
  OBVIOUS
<1>1. IdleActor \in Actor /\ IdleActor.pc = "idle"
  BY DEF IdleActor, Actor
<1>2. proc \in [Pid -> Process]
  BY UnusedAndGone DEF Init
<1>3. actor \in [Client \cup {Operator} -> Actor]
      /\ \A a \in Client \cup {Operator} : actor[a].pc = "idle"
  BY <1>1 DEF Init
<1>4. win \in BOOLEAN
  BY DEF Init
<1> QED
  BY <1>2, <1>3, <1>4 DEF Init, Typed, TypeOK, Purpose

(* A daemon's steps and Crash                                              *)
LEMMA DaemonTyped ==
  ASSUME Typed, NEW d \in Pid, Daemon(d) \/ Crash(d)
  PROVE  Typed'
<1>1. /\ \E st \in States : Become(d, st)
      /\ UNCHANGED <<win, project, finger, actor>>
  BY DEF Daemon, Crash, CheckRunning, WritePidFile, UnlinkSocket, BindSocket, ConnectKms,
         LeaveLoop, RemoveSocket, RemovePidFile, files, States, Starting, Stopping
<1>2. proc' \in [Pid -> Process]
  BY <1>1, BecomeOne DEF Typed
<1>3. pidFile' \in {pidFile, d, None} /\ sock' \in {sock, d, None}
  BY DEF Daemon, Crash, CheckRunning, WritePidFile, UnlinkSocket, BindSocket, ConnectKms,
         LeaveLoop, RemoveSocket, RemovePidFile, files
<1>4. seen' \in {seen, seen \cup {"race"}, seen \cup {"kill"}}
  BY DEF Daemon, Crash, CheckRunning, WritePidFile, UnlinkSocket, BindSocket, ConnectKms,
         LeaveLoop, RemoveSocket, RemovePidFile, files
<1>5. TypeOK'
  BY <1>1, <1>2, <1>3, <1>4 DEF Typed, TypeOK, Interference
<1>6. Purpose'
  BY <1>1 DEF Typed, Purpose
<1> QED
  BY <1>5, <1>6 DEF Typed

(* stop_daemon                                                             *)
LEMMA AfterStopActor ==
  ASSUME Typed, NEW a \in Client \cup {Operator}
  PROVE  /\ AfterStop(a) \in Actor
         /\ AfterStop(a).pc = IF a = Operator THEN "idle" ELSE "launch"
         /\ AfterStop(a).want = actor[a].want
<1> DEFINE pc == IF a = Operator THEN "idle" ELSE "launch"
<1>1. actor[a] \in Actor BY DEF Typed, TypeOK
<1>2. pc \in {"idle", "launch"} OBVIOUS
<1>3. AfterStop(a) = [actor[a] EXCEPT !.pc = pc, !.pid = None] BY DEF AfterStop
<1> HIDE DEF pc
<1>4. AfterStop(a) \in Actor /\ AfterStop(a).pc = pc /\ AfterStop(a).want = actor[a].want
  BY <1>1, <1>2, <1>3 DEF Actor
<1> QED BY <1>4 DEF pc

LEMMA StopTyped ==
  ASSUME Typed, NEW a \in Client \cup {Operator}, StopDaemon(a)
  PROVE  Typed'
<1> USE DEF Typed
<1>1. actor[a].pc # "idle" /\ actor[a] \in Actor
  BY DEF StopDaemon, NothingToStop, Terminate, WaitForExit, TypeOK
<1>2. CASE NothingToStop(a)
  <2>1. UNCHANGED <<win, files, proc, seen>> /\ actor' = [actor EXCEPT ![a] = AfterStop(a)]
    BY <1>2 DEF NothingToStop
  <2> QED
    BY <1>1, <2>1, AfterStopActor, ActorOne, LifecycleAssumption DEF TypeOK, Purpose, files
<1>3. CASE Terminate(a)
  <2> DEFINE r == [actor[a] EXCEPT !.pc = "wait", !.pid = pidFile]
  <2>1. pidFile \in Pid
    BY <1>3 DEF Terminate, DaemonRunning, TypeOK
  <2>2. r \in Actor /\ r.pc = "wait" /\ r.pid = pidFile /\ r.want = actor[a].want
    BY <1>1, <2>1 DEF Actor
  <2>3. actor' = [actor EXCEPT ![a] = r]
    BY <1>3 DEF Terminate, TypeOK
  <2>4. [proc[pidFile] EXCEPT !.term = TRUE] \in Process
    BY <2>1 DEF TypeOK, Process
  <2>5. proc' \in [Pid -> Process]
    BY <1>3, <2>1, <2>4, UnusedAndGone DEF Terminate, TypeOK
  <2>6. UNCHANGED <<win, files>> /\ seen' \in {seen, seen \cup {"kill"}}
    BY <1>3 DEF Terminate
  <2> HIDE DEF r
  <2> QED
    BY <1>1, <2>1, <2>2, <2>3, <2>5, <2>6, ActorOne, LifecycleAssumption
    DEF TypeOK, Purpose, files, Interference
<1>4. CASE WaitForExit(a)
  <2>1. actor[a].pid \in Pid
    BY <1>4 DEF WaitForExit, Purpose
  <2>2. proc' \in [Pid -> Process]
    BY <1>4, <2>1, BecomeOne DEF WaitForExit, TypeOK, States
  <2>3. /\ UNCHANGED <<win, files>> /\ seen' \in {seen, seen \cup {"kill"}}
        /\ actor' = [actor EXCEPT ![a] = AfterStop(a)]
    BY <1>4 DEF WaitForExit
  <2> QED
    BY <1>1, <2>2, <2>3, AfterStopActor, ActorOne, LifecycleAssumption
    DEF TypeOK, Purpose, files, Interference
<1> QED
  BY <1>2, <1>3, <1>4 DEF StopDaemon

(* A process that a client, the operator or the service manager starts,    *)
(* before the check when it is a daemon, connecting when it is the service *)
Begun(d, st) ==
  /\ proc[d].st = "unused"
  /\ proc' \in [Pid -> Process]
  /\ \A e \in Pid : e # d => proc'[e] = proc[e]
  /\ proc'[d].st = st
  /\ st = "check" => proc'[d].service = FALSE
  /\ st = "kms" => proc'[d].service = TRUE

Started(d, cfg, st) == Begun(d, st) /\ proc'[d].cfg = cfg

LEMMA FreshProcess ==
  ASSUME NEW cfg \in [region : Regions, creds : Creds]
  PROVE  LET p == [Unused EXCEPT !.st = "check", !.cfg = cfg]
             q == [Unused EXCEPT !.st = "kms", !.cfg = cfg, !.service = TRUE] IN
         /\ p \in Process /\ p.st = "check" /\ p.cfg = cfg /\ p.service = FALSE
         /\ q \in Process /\ q.st = "kms" /\ q.cfg = cfg /\ q.service = TRUE
BY DEF Unused, Process, Starting

LEMMA LaunchStarts ==
  ASSUME TypeOK, NEW c \in Client, actor[c].want \in Config, NEW d \in Pid, LaunchBroker(c, d)
  PROVE  Started(d, [region |-> actor[c].want.region, creds |-> project.creds], "check")
<1> DEFINE cfg == [region |-> actor[c].want.region, creds |-> project.creds]
<1>1. cfg \in [region : Regions, creds : Creds]
  BY ConfigFields DEF TypeOK
<1>2. proc' = [proc EXCEPT ![d] = [Unused EXCEPT !.st = "check", !.cfg = cfg]]
      /\ proc[d].st = "unused"
  BY DEF LaunchBroker
<1> HIDE DEF cfg
<1>3. Started(d, cfg, "check")
  BY <1>1, <1>2, FreshProcess DEF Started, Begun, TypeOK
<1> QED
  BY <1>3 DEF cfg

LEMMA HandStarts ==
  ASSUME TypeOK, NEW d \in Pid, StartByHand(d)
  PROVE  Started(d, project, "check")
<1>1. project \in [region : Regions, creds : Creds]
  BY ConfigFields DEF TypeOK
<1>2. proc' = [proc EXCEPT ![d] = [Unused EXCEPT !.st = "check", !.cfg = project]]
      /\ proc[d].st = "unused"
  BY DEF StartByHand
<1> QED
  BY <1>1, <1>2, FreshProcess DEF Started, Begun, TypeOK

LEMMA ServiceStarts ==
  ASSUME TypeOK, NEW d \in Pid, StartService(d)
  PROVE  Started(d, project, "kms")
<1>1. project \in [region : Regions, creds : Creds]
  BY ConfigFields DEF TypeOK
<1>2. proc' = [proc EXCEPT ![d] = [Unused EXCEPT !.st = "kms", !.cfg = project, !.service = TRUE]]
      /\ proc[d].st = "unused"
  BY DEF StartService
<1> QED
  BY <1>1, <1>2, FreshProcess DEF Started, Begun, TypeOK

(* BrokerHSMClient                                                         *)
LEMMA ClientTyped ==
  ASSUME Typed, NEW c \in Client, ClientStep(c)
  PROVE  Typed'
<1> USE DEF Typed
<1>1. actor[c] \in Actor /\ c \in Client \cup {Operator} /\ c # Operator
  BY LifecycleAssumption DEF TypeOK
<1>2. CASE LookForBroker(c)
  <2> DEFINE r == [IdleActor EXCEPT !.want = project,
                                    !.pc = IF Available THEN "compare" ELSE "launch"]
  <2>1. r \in Actor /\ r.want = project /\ r.pc \in {"compare", "launch"}
    BY DEF IdleActor, Actor, TypeOK
  <2>2. actor' = [actor EXCEPT ![c] = r] /\ UNCHANGED <<win, files, proc>>
        /\ seen' \in {seen, seen \cup {"mislead"}}
    BY <1>2 DEF LookForBroker
  <2> HIDE DEF r
  <2> QED
    BY <1>1, <2>1, <2>2, ActorOne DEF TypeOK, Purpose, files, Interference
<1>3. CASE CompareConfig(c) \/ LaunchFails(c) \/ Poll(c) \/ \E d \in Pid : LaunchBroker(c, d)
  <2>1. PICK st \in {"connect", "stop", "poll"} : actor' = [actor EXCEPT ![c].pc = st]
    BY <1>3 DEF CompareConfig, LaunchFails, Poll, LaunchBroker
  <2> DEFINE r == [actor[c] EXCEPT !.pc = st]
  <2>2. r \in Actor /\ r.want = actor[c].want /\ r.pc = st
    BY <1>1, <2>1 DEF Actor
  <2>3. actor' = [actor EXCEPT ![c] = r]
    BY <1>1, <2>1 DEF TypeOK
  <2>4. actor[c].want \in Config
    BY <1>3 DEF CompareConfig, LaunchFails, Poll, LaunchBroker, Purpose
  <2>5. proc' \in [Pid -> Process]
    <3>1. CASE \E d \in Pid : LaunchBroker(c, d)
      BY <2>4, <3>1, LaunchStarts DEF Started, Begun
    <3>2. CASE CompareConfig(c) \/ LaunchFails(c) \/ Poll(c)
      BY <3>2 DEF CompareConfig, LaunchFails, Poll, TypeOK
    <3> QED
      BY <1>3, <3>1, <3>2
  <2>6. /\ UNCHANGED <<win, project, pidFile, sock>> /\ finger' \in {finger, actor[c].want}
        /\ seen' \in {seen, seen \cup {"mislead"}}
    BY <1>3 DEF CompareConfig, LaunchFails, Poll, LaunchBroker, files
  <2> HIDE DEF r
  <2> QED
    BY <1>1, <2>1, <2>2, <2>3, <2>4, <2>5, <2>6, ActorOne DEF TypeOK, Purpose, Interference
<1>4. CASE Connect(c)
  <2>1. IdleActor \in Actor /\ IdleActor.pc = "idle"
    BY DEF IdleActor, Actor
  <2> QED
    BY <1>1, <1>4, <2>1, ActorOne DEF Connect, TypeOK, Purpose, files
<1> QED
  BY <1>2, <1>3, <1>4 DEF ClientStep

(* The operator and the service manager                                    *)
LEMMA OperatorTyped ==
  ASSUME Typed,
         \/ \E d \in Pid : StartByHand(d) \/ StartService(d) \/ SvcStop(d)
         \/ StopByHand \/ \E cfg \in Config : EditConfig(cfg)
  PROVE  Typed'
<1> USE DEF Typed
<1>1. CASE \E d \in Pid : StartByHand(d) \/ StartService(d)
  <2>2. proc' \in [Pid -> Process]
    BY <1>1, HandStarts, ServiceStarts DEF Started, Begun
  <2> QED
    BY <1>1, <2>2 DEF StartByHand, StartService, TypeOK, Purpose, files, Interference
<1>2. CASE \E d \in Pid : SvcStop(d)
  <2>1. \A d \in Pid : [proc[d] EXCEPT !.term = TRUE] \in Process
    BY DEF TypeOK, Process
  <2> QED
    BY <1>2, <2>1 DEF SvcStop, TypeOK, Purpose, files
<1>3. CASE StopByHand
  <2> DEFINE r == [actor[Operator] EXCEPT !.pc = "stop"]
  <2>1. r \in Actor /\ r.pc = "stop"
    BY DEF TypeOK, Actor
  <2>2. actor' = [actor EXCEPT ![Operator] = r]
    BY <1>3 DEF StopByHand, TypeOK
  <2> HIDE DEF r
  <2> QED
    BY <1>3, <2>1, <2>2, ActorOne, LifecycleAssumption DEF StopByHand, TypeOK, Purpose, files
<1>4. CASE \E cfg \in Config : EditConfig(cfg)
  BY <1>4 DEF EditConfig, TypeOK, Purpose
<1> QED
  BY <1>1, <1>2, <1>3, <1>4

LEMMA NextTyped == Typed /\ [Next]_vars => Typed'
<1> SUFFICES ASSUME Typed, [Next]_vars PROVE Typed'
  OBVIOUS
<1>1. CASE \E d \in Pid : Daemon(d) \/ Crash(d)
  BY <1>1, DaemonTyped
<1>2. CASE \E a \in Client \cup {Operator} : StopDaemon(a)
  BY <1>2, StopTyped
<1>3. CASE \E c \in Client : ClientStep(c)
  BY <1>3, ClientTyped
<1>4. CASE \E d \in Pid : StartByHand(d) \/ StartService(d) \/ SvcStop(d)
  BY <1>4, OperatorTyped
<1>5. CASE StopByHand \/ \E cfg \in Config : EditConfig(cfg)
  BY <1>5, OperatorTyped
<1>6. CASE UNCHANGED vars
  BY <1>6 DEF vars, Typed, TypeOK, Purpose
<1> QED
  BY <1>1, <1>2, <1>3, <1>4, <1>5, <1>6 DEF Next

(* Every reachable state is well typed (TypeOK of BrokerLifecycle).        *)
THEOREM LifecycleTypeCorrect == Spec => []TypeOK
<1>1. Spec => []Typed
  BY InitTyped, NextTyped, PTL DEF Spec
<1> QED
  BY <1>1, PTL DEF Typed

-----------------------------------------------------------------------------
(* What steps do to the table of processes, field by field                 *)

Moved(d, st) ==
  /\ \A e \in Pid : e # d => proc'[e] = proc[e]
  /\ proc'[d].st = st
  /\ st = "gone" => proc'[d].service = FALSE
  /\ st # "gone" => proc'[d].cfg = proc[d].cfg /\ proc'[d].service = proc[d].service

LEMMA BecomeMoves ==
  ASSUME TypeOK, NEW d \in Pid, NEW st \in States, Become(d, st)
  PROVE  Moved(d, st)
<1>1. proc[d] \in Process
  BY DEF TypeOK
<1>2. /\ \A e \in Pid : e # d => proc'[e] = proc[e]
      /\ proc'[d].st = st
      /\ st # "gone" => proc'[d] = [proc[d] EXCEPT !.st = st]
      /\ st = "gone" => proc'[d] = Gone
  BY BecomeOne
<1>3. Gone.service = FALSE
  BY DEF Gone, Unused
<1> QED
  BY <1>1, <1>2, <1>3 DEF Moved, Process

SameProcesses ==
  \A e \in Pid : /\ proc'[e].st = proc[e].st
                 /\ proc'[e].cfg = proc[e].cfg
                 /\ proc'[e].service = proc[e].service

(* Terminating kills on Windows and otherwise sets a flag; waiting ends    *)
(* with a kill when nothing else has helped.                               *)
LEMMA StopMoves ==
  ASSUME Typed, NEW a \in Client \cup {Operator}, StopDaemon(a)
  PROVE  \/ SameProcesses
         \/ "kill" \in seen' /\ \E d \in Pid : Moved(d, "gone")
<1> USE DEF Typed
<1>1. CASE NothingToStop(a)
  BY <1>1 DEF NothingToStop, SameProcesses
<1>2. CASE Terminate(a)
  <2>1. pidFile \in Pid /\ proc[pidFile] \in Process
    BY <1>2 DEF Terminate, DaemonRunning, TypeOK
  <2>2. CASE win
    <3>1. proc' = [proc EXCEPT ![pidFile] = Gone] /\ "kill" \in seen'
      BY <1>2, <2>2 DEF Terminate
    <3>2. Gone.st = "gone" /\ Gone.service = FALSE
      BY DEF Gone, Unused
    <3>3. Moved(pidFile, "gone")
      BY <2>1, <3>1, <3>2 DEF Moved, TypeOK
    <3> QED
      BY <2>1, <3>1, <3>3
  <2>3. CASE ~win
    <3>1. proc' = [proc EXCEPT ![pidFile] = [proc[pidFile] EXCEPT !.term = TRUE]]
      BY <1>2, <2>3 DEF Terminate
    <3> QED
      BY <2>1, <3>1 DEF SameProcesses, TypeOK, Process
  <2> QED
    BY <2>2, <2>3
<1>3. CASE WaitForExit(a)
  <2>1. actor[a].pid \in Pid
    BY <1>3 DEF WaitForExit, Purpose
  <2>2. CASE Alive(actor[a].pid)
    <3>1. Become(actor[a].pid, "gone") /\ "kill" \in seen'
      BY <1>3, <2>2 DEF WaitForExit
    <3> QED
      BY <2>1, <3>1, BecomeMoves DEF States
  <2>3. CASE ~Alive(actor[a].pid)
    BY <1>3, <2>3 DEF WaitForExit, SameProcesses
  <2> QED
    BY <2>2, <2>3
<1> QED
  BY <1>1, <1>2, <1>3 DEF StopDaemon

LEMMA SvcStopMoves ==
  ASSUME TypeOK, NEW d \in Pid, SvcStop(d)
  PROVE  SameProcesses
<1>1. proc' = [proc EXCEPT ![d] = [proc[d] EXCEPT !.term = TRUE]] /\ proc[d] \in Process
  BY DEF SvcStop, TypeOK
<1> QED
  BY <1>1 DEF SameProcesses, TypeOK, Process

-----------------------------------------------------------------------------
(* One broker                                                              *)

OneInv == ServiceOnWindows /\ OneBroker

LEMMA InitOne == Init => OneInv
BY DEF Init, Unused, OneInv, ServiceOnWindows, OneBroker, Standalone, PastCheck, Alive

(* A daemon passes the check only when the pid file names no process, and  *)
(* then no other is past it; the files are those of the only one.          *)
LEMMA DaemonOne ==
  ASSUME Typed, OneInv, NEW d \in Pid, Daemon(d)
  PROVE  OneInv'
<1> USE DEF Typed, OneInv
<1>1. CASE CheckRunning(d)
  <2>1. CASE DaemonRunning
    <3>1. Moved(d, "gone") /\ UNCHANGED <<win, files, seen>>
      BY <1>1, <2>1, BecomeMoves DEF CheckRunning, States
    <3> QED
      BY <3>1 DEF Moved, ServiceOnWindows, OneBroker, Standalone, PastCheck, Alive, files
  <2>2. CASE ~DaemonRunning
    <3>1. /\ Moved(d, "pid") /\ UNCHANGED <<win, files>> /\ proc[d].st = "check"
          /\ seen' = IF \E e \in Pid : proc[e].st = "pid" THEN seen \cup {"race"} ELSE seen
      BY <1>1, <2>2, BecomeMoves DEF CheckRunning, States, Starting
    <3>2. "race" \notin seen' => "race" \notin seen /\ \A e \in Pid : proc[e].st # "pid"
      BY <3>1
    <3>3. "race" \notin seen' => \A e \in Pid : ~Standalone(e)
      <4> SUFFICES ASSUME "race" \notin seen', NEW e \in Pid, Standalone(e) PROVE FALSE
        OBVIOUS
      <4>1. pidFile = e
        BY <3>2 DEF OneBroker
      <4> QED
        BY <2>2, <4>1, LifecycleAssumption DEF DaemonRunning, Standalone, PastCheck
    <3>4. \A e \in Pid : e # d => (Standalone(e)' <=> Standalone(e))
      BY <3>1 DEF Moved, Standalone, PastCheck, Alive
    <3>5. ServiceOnWindows'
      BY <3>1 DEF Moved, ServiceOnWindows
    <3> QED
      BY <3>1, <3>3, <3>4, <3>5 DEF Moved, OneBroker
  <2> QED
    BY <2>1, <2>2
<1>2. CASE WritePidFile(d)
  <2>1. /\ Moved(d, IF win THEN "kms" ELSE "unlink") /\ pidFile' = d
        /\ proc[d].st = "pid" /\ UNCHANGED <<win, sock, seen>>
    BY <1>2, BecomeMoves DEF WritePidFile, States, Starting
  <2> QED
    BY <2>1 DEF Moved, ServiceOnWindows, OneBroker, Standalone, PastCheck, Alive
<1>3. CASE UnlinkSocket(d)
  <2>1. /\ Moved(d, "bind") /\ sock' = None
        /\ proc[d].st = "unlink" /\ UNCHANGED <<win, pidFile, seen>>
    BY <1>3, BecomeMoves DEF UnlinkSocket, States, Starting
  <2> QED
    BY <2>1 DEF Moved, ServiceOnWindows, OneBroker, Standalone, PastCheck, Alive
<1>4. CASE BindSocket(d)
  <2>1. /\ IF sock = None THEN sock' = d /\ Moved(d, "kms")
                          ELSE sock' = sock /\ Moved(d, "joining")
        /\ proc[d].st = "bind" /\ UNCHANGED <<win, pidFile, seen>>
    BY <1>4, BecomeMoves DEF BindSocket, States, Starting, Stopping
  <2> QED
    BY <2>1 DEF Moved, ServiceOnWindows, OneBroker, Standalone, PastCheck, Alive
<1>5. CASE (\E ok \in BOOLEAN : ConnectKms(d, ok)) \/ LeaveLoop(d)
  <2>1. /\ Moved(d, "running") \/ Moved(d, "gone") \/ Moved(d, "joining")
        /\ proc[d].st \in {"kms", "running"} /\ UNCHANGED <<win, pidFile, sock, seen>>
    BY <1>5, BecomeMoves DEF ConnectKms, LeaveLoop, States, Stopping, files
  <2>2. CASE Moved(d, "running")
    BY <2>1, <2>2 DEF Moved, ServiceOnWindows, OneBroker, Standalone, PastCheck, Alive
  <2>3. CASE Moved(d, "gone")
    BY <2>1, <2>3 DEF Moved, ServiceOnWindows, OneBroker, Standalone, PastCheck, Alive
  <2>4. CASE Moved(d, "joining")
    BY <2>1, <2>4 DEF Moved, ServiceOnWindows, OneBroker, Standalone, PastCheck, Alive
  <2> QED
    BY <2>1, <2>2, <2>3, <2>4
<1>6. CASE RemoveSocket(d)
  <2>1. /\ Moved(d, "rmpid") /\ sock' = None
        /\ proc[d].st = "joining" /\ UNCHANGED <<win, pidFile, seen>>
    BY <1>6, BecomeMoves DEF RemoveSocket, States, Stopping
  <2> QED
    BY <2>1 DEF Moved, ServiceOnWindows, OneBroker, Standalone, PastCheck, Alive
<1>7. CASE RemovePidFile(d)
  <2>1. /\ Moved(d, "gone") /\ pidFile' = IF proc[d].service THEN pidFile ELSE None
        /\ proc[d].st = "rmpid" /\ UNCHANGED <<win, sock, seen>>
    BY <1>7, BecomeMoves DEF RemovePidFile, States
  <2> QED
    BY <2>1 DEF Moved, ServiceOnWindows, OneBroker, Standalone, PastCheck, Alive
<1> QED
  BY <1>1, <1>2, <1>3, <1>4, <1>5, <1>6, <1>7 DEF Daemon

(* The other steps end a process, start one before its check or as a       *)
(* service, or leave the processes as they are; they change no file but    *)
(* the fingerprint and the configuration.                                  *)
OtherStep ==
  /\ UNCHANGED <<win, pidFile, sock>> /\ seen \subseteq seen'
  /\ \/ "kill" \in seen' /\ \E d \in Pid : Moved(d, "gone")
     \/ SameProcesses
     \/ \E d \in Pid : Begun(d, "check")
     \/ win /\ \E d \in Pid : Begun(d, "kms")

LEMMA OtherSteps ==
  ASSUME Typed, [Next]_vars, \A d \in Pid : ~Daemon(d)
  PROVE  OtherStep
<1> USE DEF Typed
<1>1. CASE \E d \in Pid : Crash(d)
  <2>1. UNCHANGED <<win, pidFile, sock>> /\ seen \subseteq seen' /\ "kill" \in seen'
    BY <1>1 DEF Crash, files
  <2>2. \E d \in Pid : Moved(d, "gone")
    BY <1>1, BecomeMoves DEF Crash, States
  <2> QED
    BY <2>1, <2>2 DEF OtherStep
<1>2. CASE \E a \in Client \cup {Operator} : StopDaemon(a)
  <2>1. UNCHANGED <<win, pidFile, sock>> /\ seen \subseteq seen'
    BY <1>2 DEF StopDaemon, NothingToStop, Terminate, WaitForExit, files
  <2> QED
    BY <1>2, <2>1, StopMoves DEF OtherStep
<1>3. CASE \E c \in Client : ClientStep(c)
  <2>1. UNCHANGED <<win, pidFile, sock>> /\ seen \subseteq seen'
    BY <1>3 DEF ClientStep, LookForBroker, CompareConfig, LaunchFails, LaunchBroker, Poll, Connect, files
  <2>2. CASE \E c \in Client, d \in Pid : LaunchBroker(c, d)
    <3>1. PICK c \in Client, d \in Pid : LaunchBroker(c, d)
      BY <2>2
    <3>2. actor[c].want \in Config
      BY <3>1 DEF LaunchBroker, Purpose
    <3>3. Begun(d, "check")
      BY <3>1, <3>2, LaunchStarts DEF Started
    <3> QED
      BY <2>1, <3>3 DEF OtherStep
  <2>3. CASE ~ \E c \in Client, d \in Pid : LaunchBroker(c, d)
    <3>1. proc' = proc
      BY <1>3, <2>3 DEF ClientStep, LookForBroker, CompareConfig, LaunchFails, Poll, Connect
    <3> QED
      BY <2>1, <3>1 DEF OtherStep, SameProcesses
  <2> QED
    BY <2>2, <2>3
<1>4. CASE \E d \in Pid : StartByHand(d)
  <2>1. UNCHANGED <<win, pidFile, sock>> /\ seen \subseteq seen'
    BY <1>4 DEF StartByHand, files
  <2> QED
    BY <1>4, <2>1, HandStarts DEF Started, OtherStep
<1>5. CASE \E d \in Pid : StartService(d)
  <2>1. UNCHANGED <<win, pidFile, sock>> /\ seen \subseteq seen' /\ win
    BY <1>5 DEF StartService, files
  <2> QED
    BY <1>5, <2>1, ServiceStarts DEF Started, OtherStep
<1>6. CASE \E d \in Pid : SvcStop(d)
  <2>1. UNCHANGED <<win, pidFile, sock, seen>>
    BY <1>6 DEF SvcStop, files
  <2> QED
    BY <1>6, <2>1, SvcStopMoves DEF OtherStep
<1>7. CASE StopByHand \/ (\E cfg \in Config : EditConfig(cfg)) \/ UNCHANGED vars
  BY <1>7 DEF StopByHand, EditConfig, vars, files, SameProcesses, OtherStep
<1> QED
  BY <1>1, <1>2, <1>3, <1>4, <1>5, <1>6, <1>7 DEF Next

LEMMA OthersOne ==
  ASSUME Typed, OneInv, [Next]_vars, \A d \in Pid : ~Daemon(d)
  PROVE  OneInv'
<1> USE DEF OneInv, ServiceOnWindows, OneBroker, Standalone, PastCheck, Alive
<1>1. UNCHANGED <<win, pidFile, sock>> /\ seen \subseteq seen'
  BY OtherSteps DEF OtherStep
<1>2. CASE \E d \in Pid : Moved(d, "gone")
  BY <1>1, <1>2 DEF Moved
<1>3. CASE SameProcesses
  BY <1>1, <1>3 DEF SameProcesses
<1>4. CASE \E d \in Pid : Begun(d, "check")
  BY <1>1, <1>4 DEF Begun
<1>5. CASE win /\ \E d \in Pid : Begun(d, "kms")
  BY <1>1, <1>5 DEF Begun
<1> QED
  BY <1>2, <1>3, <1>4, <1>5, OtherSteps DEF OtherStep

(* One broker at a time, and the files are its own (OneBroker of           *)
(* BrokerLifecycle), as long as no two daemons raced past the check: also  *)
(* after kills, and whatever clients and the operator do.                  *)
THEOREM OneBrokerHolds == Spec => []OneBroker
<1>1. Typed /\ OneInv /\ [Next]_vars => OneInv'
  BY DaemonOne, OthersOne
<1>2. Spec => [](Typed /\ OneInv)
  BY <1>1, InitTyped, NextTyped, InitOne, PTL DEF Spec
<1> QED
  BY <1>2, PTL DEF OneInv

-----------------------------------------------------------------------------
(* What is left behind                                                     *)

(* The life of a daemon on Unix, with the files                            *)
UnixStep(d) ==
  \/ /\ proc[d].st = "check" /\ UNCHANGED <<pidFile, sock>>
     /\ Moved(d, "gone") \/ Moved(d, "pid")
  \/ proc[d].st = "pid" /\ Moved(d, "unlink") /\ pidFile' = d /\ sock' = sock
  \/ proc[d].st = "unlink" /\ Moved(d, "bind") /\ pidFile' = pidFile /\ sock' = None
  \/ proc[d].st = "bind" /\ Moved(d, "kms") /\ pidFile' = pidFile /\ sock' = d
  \/ proc[d].st = "bind" /\ Moved(d, "joining") /\ UNCHANGED <<pidFile, sock>>
  \/ /\ proc[d].st \in {"kms", "running"} /\ UNCHANGED <<pidFile, sock>>
     /\ Moved(d, "running") \/ Moved(d, "joining")
  \/ proc[d].st = "joining" /\ Moved(d, "rmpid") /\ pidFile' = pidFile /\ sock' = None
  \/ proc[d].st = "rmpid" /\ Moved(d, "gone") /\ pidFile' = None /\ sock' = sock

LEMMA UnixSteps ==
  ASSUME Typed, ServiceOnWindows, ~win, NEW d \in Pid, Daemon(d)
  PROVE  UnixStep(d)
<1> USE DEF Typed, States, Starting, Stopping, UnixStep
<1>1. CASE CheckRunning(d)
  BY <1>1, BecomeMoves DEF CheckRunning, files
<1>2. CASE WritePidFile(d)
  BY <1>2, BecomeMoves DEF WritePidFile
<1>3. CASE UnlinkSocket(d) \/ BindSocket(d)
  BY <1>3, BecomeMoves DEF UnlinkSocket, BindSocket
<1>4. CASE (\E ok \in BOOLEAN : ConnectKms(d, ok)) \/ LeaveLoop(d)
  BY <1>4, BecomeMoves DEF ConnectKms, LeaveLoop, files
<1>5. CASE RemoveSocket(d)
  BY <1>5, BecomeMoves DEF RemoveSocket
<1>6. CASE RemovePidFile(d)
  <2>1. ~proc[d].service
    BY DEF ServiceOnWindows
  <2> QED
    BY <1>6, <2>1, BecomeMoves DEF RemovePidFile
<1> QED
  BY <1>1, <1>2, <1>3, <1>4, <1>5, <1>6 DEF Daemon

LEMMA InitFiles == Init => FilesHaveOwners
BY DEF Init, FilesHaveOwners

(* A daemon that removes a file goes on to remove the other, or has.       *)
LEMMA NextFiles ==
  ASSUME Typed, ServiceOnWindows, FilesHaveOwners, [Next]_vars
  PROVE  FilesHaveOwners'
<1> SUFFICES ASSUME ~win', "kill" \notin seen'
             PROVE  FilesHaveOwners'
  BY DEF FilesHaveOwners
<1> USE DEF FilesHaveOwners, PastCheck, Alive
<1>1. ASSUME NEW d \in Pid, Daemon(d)
      PROVE  FilesHaveOwners'
  <2>1. win' = win /\ seen \subseteq seen'
    BY <1>1 DEF Daemon, CheckRunning, WritePidFile, UnlinkSocket, BindSocket, ConnectKms,
                LeaveLoop, RemoveSocket, RemovePidFile, files
  <2>2. "kill" \notin seen /\ ~win
    BY <2>1
  <2>3. UnixStep(d)
    BY <1>1, <2>2, UnixSteps
  <2>4. CASE proc[d].st \in {"check", "pid"}
    BY <2>2, <2>3, <2>4 DEF Moved, UnixStep
  <2>5. CASE proc[d].st \in {"unlink", "bind"}
    BY <2>2, <2>3, <2>5 DEF Moved, UnixStep
  <2>6. CASE proc[d].st \in {"kms", "running"}
    BY <2>2, <2>3, <2>6 DEF Moved, UnixStep
  <2>7. CASE proc[d].st \in {"joining", "rmpid"}
    BY <2>2, <2>3, <2>7 DEF Moved, UnixStep
  <2> QED
    BY <2>3, <2>4, <2>5, <2>6, <2>7 DEF UnixStep
<1>2. CASE \A d \in Pid : ~Daemon(d)
  <2>1. UNCHANGED <<win, pidFile, sock>> /\ seen \subseteq seen'
    BY <1>2, OtherSteps DEF OtherStep
  <2>2. CASE SameProcesses
    BY <2>1, <2>2 DEF SameProcesses
  <2>3. CASE \E d \in Pid : Begun(d, "check")
    BY <2>1, <2>3 DEF Begun
  <2> QED
    BY <1>2, <2>1, <2>2, <2>3, OtherSteps DEF OtherStep
<1> QED
  BY <1>1, <1>2

(* Daemons on Unix that were not killed leave neither pid nor socket file  *)
(* (GracefulLeavesNothing of BrokerLifecycle), races between them          *)
(* included: whoever removes a file of another is not the last to leave.   *)
THEOREM GracefulLeavesNothingHolds == Spec => []GracefulLeavesNothing
<1>1. Typed /\ OneInv /\ [Next]_vars => OneInv'
  BY DaemonOne, OthersOne
<1>2. Typed /\ OneInv /\ FilesHaveOwners /\ [Next]_vars => FilesHaveOwners'
  BY NextFiles DEF OneInv
<1>3. Typed /\ FilesHaveOwners => GracefulLeavesNothing
  BY DEF FilesHaveOwners, GracefulLeavesNothing, PastCheck, Alive
<1>4. Spec => [](Typed /\ OneInv /\ FilesHaveOwners)
  BY <1>1, <1>2, InitTyped, NextTyped, InitOne, InitFiles, PTL DEF Spec
<1> QED
  BY <1>3, <1>4, PTL

-----------------------------------------------------------------------------
(* Clients and the configuration they reach                                *)

Turned(c, pc) ==
  /\ \A b \in Client : b # c => actor'[b] = actor[b]
  /\ actor'[c].pc = pc
  /\ pc # "idle" => actor'[c].want = actor[c].want

LEMMA Turn ==
  ASSUME Typed, NEW c \in Client, NEW pc \in {"connect", "stop", "poll"},
         actor' = [actor EXCEPT ![c].pc = pc]
  PROVE  Turned(c, pc)
BY DEF Turned, Typed, TypeOK, Actor

LEMMA StopTurns ==
  ASSUME Typed, NEW c \in Client, NothingToStop(c) \/ WaitForExit(c)
  PROVE  Turned(c, "launch")
<1>1. actor' = [actor EXCEPT ![c] = AfterStop(c)]
  BY DEF NothingToStop, WaitForExit
<1>2. AfterStop(c) \in Actor /\ AfterStop(c).pc = "launch" /\ AfterStop(c).want = actor[c].want
  BY AfterStopActor, LifecycleAssumption
<1> QED
  BY <1>1, <1>2 DEF Turned, Typed, TypeOK

LEMMA TerminateTurns ==
  ASSUME Typed, NEW c \in Client, Terminate(c)
  PROVE  Turned(c, "wait") /\ actor'[c].pid = pidFile
<1>1. actor' = [actor EXCEPT ![c] = [actor[c] EXCEPT !.pc = "wait", !.pid = pidFile]]
  BY DEF Terminate, Typed, TypeOK
<1>2. actor[c] \in Actor
  BY DEF Typed, TypeOK
<1> DEFINE r == [actor[c] EXCEPT !.pc = "wait", !.pid = pidFile]
<1>3. r.pc = "wait" /\ r.pid = pidFile /\ r.want = actor[c].want
  BY <1>2 DEF Actor
<1> HIDE DEF r
<1>4. actor' = [actor EXCEPT ![c] = r]
  BY <1>1 DEF r
<1> QED
  BY <1>3, <1>4 DEF Turned, Typed, TypeOK

LEMMA LookTurns ==
  ASSUME Typed, NEW c \in Client, LookForBroker(c)
  PROVE  /\ \A b \in Client : b # c => actor'[b] = actor[b]
         /\ actor'[c].pc = IF Available THEN "compare" ELSE "launch"
<1> DEFINE r == [IdleActor EXCEPT !.want = project,
                                  !.pc = IF Available THEN "compare" ELSE "launch"]
<1>1. actor' = [actor EXCEPT ![c] = r]
  BY DEF LookForBroker
<1>2. r.pc = IF Available THEN "compare" ELSE "launch"
  BY DEF IdleActor
<1> HIDE DEF r
<1> QED
  BY <1>1, <1>2 DEF Typed, TypeOK

(* A client at work is the only one.                                       *)
LEMMA Alone ==
  ASSUME LaunchInv, NEW c \in Client, actor[c].pc # "idle"
  PROVE  \A b \in Client : b # c => actor[b].pc = "idle"
BY DEF LaunchInv, OneClient, Busy

(* Processes that only go on their way, or end                             *)
Onward ==
  \A e \in Pid :
    /\ Active(e)' => Active(e) /\ proc'[e].cfg = proc[e].cfg
    /\ Early(e)' => Early(e)
    /\ proc'[e].service => proc[e].service

LEMMA OnwardKeeps ==
  ASSUME LaunchInv, Onward, finger' = finger, \A c \in Client : actor'[c] = actor[c]
  PROVE  LaunchInv'
<1>1. OneClient'
  BY DEF LaunchInv, OneClient, Busy
<1>2. OneActive' /\ NoService' /\ LaunchesAlone' /\ WaitsForActive'
  BY DEF LaunchInv, Onward, OneActive, NoService, LaunchesAlone, WaitsForActive
<1>3. EarlyIsPolled' /\ PolledIsWanted' /\ FingerIsActive' /\ ConnectsAsWanted'
  BY DEF LaunchInv, Onward, EarlyIsPolled, PolledIsWanted, FingerIsActive, ConnectsAsWanted, Polls
<1> QED
  BY <1>1, <1>2, <1>3 DEF LaunchInv

LEMMA GoneOnward ==
  ASSUME win' = win, NEW d \in Pid, Moved(d, "gone")
  PROVE  Onward
BY DEF Onward, Moved, Active, Early, Alive, Listening

LEMMA SameOnward == ASSUME win' = win, SameProcesses PROVE Onward
BY DEF Onward, SameProcesses, Active, Early, Alive, Listening

LEMMA DaemonOnward ==
  ASSUME Typed, NEW d \in Pid, Daemon(d)
  PROVE  Onward /\ UNCHANGED <<win, finger, actor>>
<1> USE DEF Typed, States, Starting, Stopping
<1>1. UNCHANGED <<win, finger, actor>>
  BY DEF Daemon, CheckRunning, WritePidFile, UnlinkSocket, BindSocket, ConnectKms,
         LeaveLoop, RemoveSocket, RemovePidFile, files
<1>2. /\ proc[d].st # "unused"
      /\ \/ Moved(d, "gone")
         \/ Moved(d, "joining") /\ proc[d].st \in {"bind", "kms", "running"}
         \/ Moved(d, "rmpid") /\ proc[d].st = "joining"
         \/ Moved(d, "running") /\ proc[d].st = "kms"
         \/ Moved(d, "pid") /\ proc[d].st = "check"
         \/ Moved(d, "unlink") /\ proc[d].st = "pid"
         \/ Moved(d, "kms") /\ proc[d].st = "pid"
         \/ Moved(d, "bind") /\ proc[d].st = "unlink"
         \/ Moved(d, "kms") /\ proc[d].st = "bind"
  <2>1. CASE CheckRunning(d) \/ WritePidFile(d)
    BY <2>1, BecomeMoves DEF CheckRunning, WritePidFile
  <2>2. CASE UnlinkSocket(d) \/ BindSocket(d)
    BY <2>2, BecomeMoves DEF UnlinkSocket, BindSocket
  <2>3. CASE (\E ok \in BOOLEAN : ConnectKms(d, ok)) \/ LeaveLoop(d)
    BY <2>3, BecomeMoves DEF ConnectKms, LeaveLoop
  <2>4. CASE RemoveSocket(d) \/ RemovePidFile(d)
    BY <2>4, BecomeMoves DEF RemoveSocket, RemovePidFile
  <2> QED
    BY <2>1, <2>2, <2>3, <2>4 DEF Daemon
<1>3. Onward
  BY <1>1, <1>2 DEF Onward, Moved, Active, Early, Alive, Listening
<1> QED
  BY <1>1, <1>3

(* With nobody launching, whoever is at work has written the pid file and  *)
(* can be found: a client that finds no broker is right.                   *)
LEMMA SettledIsFound ==
  ASSUME Typed, OneInv, LaunchInv, "race" \notin seen, \A c \in Client : ~Polls(c),
         NEW d \in Pid, Active(d)
  PROVE  pidFile = d /\ DaemonRunning /\ Available
<1>1. Listening(d)
  BY DEF LaunchInv, EarlyIsPolled, Early
<1>2. Standalone(d) /\ proc[d].st # "pid"
  BY <1>1 DEF LaunchInv, NoService, Standalone, PastCheck, Active, Listening
<1>3. pidFile = d /\ (~win => sock = d)
  BY <1>1, <1>2 DEF OneInv, OneBroker, Listening
<1> QED
  BY <1>1, <1>3, LifecycleAssumption DEF DaemonRunning, Available, Active

LEMMA LookLaunches ==
  ASSUME Typed, OneInv, LaunchInv, NEW c \in Client, LookForBroker(c), seen' \subseteq {"kill"}
  PROVE  LaunchInv'
<1>1. \A b \in Client : actor[b].pc = "idle"
  BY DEF LookForBroker, Busy
<1>2. UNCHANGED <<win, pidFile, sock, finger, proc>> /\ seen' = seen
  BY DEF LookForBroker, files
<1>3. /\ \A b \in Client : b # c => actor'[b] = actor[b]
      /\ actor'[c].pc = IF Available THEN "compare" ELSE "launch"
  BY LookTurns
<1>4. ASSUME NEW d \in Pid, Active(d) PROVE Available
  BY <1>1, <1>2, <1>4, SettledIsFound DEF Polls
<1>5. OneClient' /\ OneActive' /\ NoService' /\ WaitsForActive' /\ ConnectsAsWanted'
  BY <1>1, <1>2, <1>3 DEF LaunchInv, OneClient, Busy, OneActive, NoService, WaitsForActive,
                          ConnectsAsWanted, Active, Alive
<1>6. EarlyIsPolled' /\ PolledIsWanted' /\ FingerIsActive'
  BY <1>1, <1>2, <1>3 DEF LaunchInv, EarlyIsPolled, PolledIsWanted, FingerIsActive, Polls,
                          Active, Alive, Early, Listening
<1>7. LaunchesAlone'
  BY <1>1, <1>2, <1>3, <1>4 DEF LaunchesAlone, Active, Alive
<1> QED
  BY <1>5, <1>6, <1>7 DEF LaunchInv

LEMMA CompareLaunches ==
  ASSUME Typed, LaunchInv, NEW c \in Client, CompareConfig(c) \/ Connect(c)
  PROVE  LaunchInv'
<1>1. UNCHANGED <<win, finger, proc>> /\ actor[c].pc \in {"compare", "connect"}
  BY DEF CompareConfig, Connect, files
<1>2. /\ \A b \in Client : b # c => actor'[b] = actor[b]
      /\ actor'[c].pc \in {"connect", "stop", "idle"}
      /\ actor'[c].pc = "connect" => finger = actor'[c].want
  <2>1. CASE CompareConfig(c)
    <3>1. actor' = [actor EXCEPT ![c].pc = IF finger = actor[c].want THEN "connect" ELSE "stop"]
      BY <2>1 DEF CompareConfig
    <3>2. Turned(c, IF finger = actor[c].want THEN "connect" ELSE "stop")
      BY <3>1, Turn
    <3> QED
      BY <3>2 DEF Turned
  <2>2. CASE Connect(c)
    BY <2>2 DEF Connect, Typed, TypeOK, IdleActor
  <2> QED
    BY <2>1, <2>2
<1>3. \A b \in Client : b # c => actor[b].pc = "idle"
  BY <1>1, Alone
<1>4. OneClient' /\ OneActive' /\ NoService' /\ WaitsForActive' /\ LaunchesAlone'
  BY <1>1, <1>2, <1>3 DEF LaunchInv, OneClient, Busy, OneActive, NoService, WaitsForActive,
                          LaunchesAlone, Active, Alive
<1>5. EarlyIsPolled' /\ PolledIsWanted' /\ FingerIsActive' /\ ConnectsAsWanted'
  BY <1>1, <1>2, <1>3 DEF LaunchInv, EarlyIsPolled, PolledIsWanted, FingerIsActive, Polls,
                          ConnectsAsWanted, Active, Alive, Early, Listening
<1> QED
  BY <1>4, <1>5 DEF LaunchInv

(* Nothing is at work when a client launches a broker, with the            *)
(* configuration it wants.                                                 *)
LEMMA LaunchLaunches ==
  ASSUME Typed, LaunchInv, NEW c \in Client, NEW d \in Pid, LaunchBroker(c, d),
         seen' \subseteq {"kill"}
  PROVE  LaunchInv'
<1>1. /\ UNCHANGED <<win, finger>> /\ actor[c].pc = "launch"
      /\ project.creds = actor[c].want.creds /\ actor' = [actor EXCEPT ![c].pc = "poll"]
  BY DEF LaunchBroker, files
<1>2. actor[c].want \in Config
  BY <1>1 DEF Typed, Purpose
<1>3. [region |-> actor[c].want.region, creds |-> project.creds] = actor[c].want
  BY <1>1, <1>2, ConfigFields
<1>4. Started(d, actor[c].want, "check")
  BY <1>2, <1>3, LaunchStarts DEF Typed
<1>5. Turned(c, "poll")
  BY <1>1, Turn
<1>6. \A b \in Client : b # c => actor[b].pc = "idle"
  BY <1>1, Alone
<1>7. \A e \in Pid : ~Active(e)
  BY <1>1 DEF LaunchInv, LaunchesAlone
<1>8. /\ \A e \in Pid : Active(e)' => e = d
      /\ proc'[d].cfg = actor'[c].want /\ proc'[d].service = FALSE
      /\ \A e \in Pid : e # d => proc'[e] = proc[e]
      /\ actor'[c].pc = "poll" /\ \A b \in Client : b # c => actor'[b].pc = "idle"
  BY <1>4, <1>5, <1>6, <1>7 DEF Started, Begun, Turned, Active, Alive
<1>9. OneClient' /\ OneActive' /\ NoService' /\ WaitsForActive' /\ LaunchesAlone'
  BY <1>8 DEF LaunchInv, OneClient, Busy, OneActive, NoService, WaitsForActive, LaunchesAlone
<1>10. EarlyIsPolled' /\ PolledIsWanted' /\ FingerIsActive' /\ ConnectsAsWanted'
  BY <1>8 DEF EarlyIsPolled, PolledIsWanted, FingerIsActive, Polls, ConnectsAsWanted, Early
<1> QED
  BY <1>9, <1>10 DEF LaunchInv

(* A poll ends with the broker in reach, and that one is all there is.     *)
LEMMA PollLaunches ==
  ASSUME Typed, LaunchInv, NEW c \in Client, Poll(c), seen' \subseteq {"kill"}
  PROVE  LaunchInv'
<1>1. /\ UNCHANGED <<win, proc>> /\ actor[c].pc = "poll" /\ finger' = actor[c].want
      /\ actor' = [actor EXCEPT ![c].pc = "connect"]
  BY DEF Poll
<1>2. PICK d \in Pid : Reaches(d)
  BY DEF Poll
<1>3. Turned(c, "connect")
  BY <1>1, Turn
<1>4. \A b \in Client : b # c => actor[b].pc = "idle"
  BY <1>1, Alone
<1>5. Active(d) /\ ~Early(d)
  BY <1>2 DEF Reaches, Listening, Active, Alive, Early, Stopping
<1>6. \A e \in Pid : Active(e) => e = d /\ proc[e].cfg = actor[c].want
  BY <1>1, <1>5 DEF LaunchInv, OneActive, PolledIsWanted, Polls
<1>7. OneClient' /\ OneActive' /\ NoService' /\ WaitsForActive' /\ LaunchesAlone'
  BY <1>1, <1>3, <1>4 DEF LaunchInv, OneClient, Busy, OneActive, NoService, WaitsForActive,
                          LaunchesAlone, Active, Alive, Turned
<1>8. EarlyIsPolled' /\ PolledIsWanted' /\ FingerIsActive' /\ ConnectsAsWanted'
  BY <1>1, <1>3, <1>4, <1>5, <1>6 DEF EarlyIsPolled, PolledIsWanted, FingerIsActive, Polls,
                 ConnectsAsWanted, Active, Alive, Early, Listening, Turned
<1> QED
  BY <1>7, <1>8 DEF LaunchInv

LEMMA StopLaunches ==
  ASSUME Typed, OneInv, LaunchInv, NEW c \in Client, StopDaemon(c), seen' \subseteq {"kill"}
  PROVE  LaunchInv'
<1>1. /\ UNCHANGED <<win, finger>> /\ actor[c].pc \in {"stop", "wait"}
      /\ seen \subseteq seen'
  BY DEF StopDaemon, NothingToStop, Terminate, WaitForExit, files
<1>2. \A b \in Client : b # c => actor[b].pc = "idle"
  BY <1>1, Alone
<1>3. Onward
  BY <1>1, StopMoves, GoneOnward, SameOnward
<1>4. \A e \in Pid : ~Early(e)
  BY <1>1, <1>2 DEF LaunchInv, EarlyIsPolled, Polls
<1>5. ASSUME NEW e \in Pid, Active(e) PROVE DaemonRunning /\ pidFile = e
  BY <1>1, <1>2, <1>5, SettledIsFound DEF Polls
<1>6. /\ \A b \in Client : b # c => actor'[b].pc = "idle"
      /\ actor'[c].pc \in {"launch", "wait"}
      /\ actor'[c].pc = "launch" => \A e \in Pid : ~Active(e)'
      /\ actor'[c].pc = "wait" => \A e \in Pid : Active(e) => e = actor'[c].pid
  <2>1. CASE NothingToStop(c)
    <3>1. Turned(c, "launch") /\ \A e \in Pid : ~Active(e)
      BY <1>5, <2>1, StopTurns DEF NothingToStop
    <3> QED
      BY <1>2, <1>3, <3>1 DEF Turned, Onward
  <2>2. CASE Terminate(c)
    BY <1>2, <1>5, <2>2, TerminateTurns DEF Turned
  <2>3. CASE WaitForExit(c)
    <3>1. Turned(c, "launch") /\ actor[c].pc = "wait" /\ actor[c].pid \in Pid
      BY <2>3, StopTurns DEF WaitForExit, Typed, Purpose
    <3>2. PICK p \in Pid : p = actor[c].pid
      BY <3>1
    <3>3. \A e \in Pid : Active(e) => e = p
      BY <3>1, <3>2 DEF LaunchInv, WaitsForActive
    <3>4. ~Active(p)'
      <4>1. CASE Alive(p)
        <5>1. Become(p, "gone")
          BY <2>3, <3>2, <4>1 DEF WaitForExit
        <5>2. Moved(p, "gone")
          BY <5>1, BecomeMoves DEF Typed, States
        <5> QED
          BY <5>2 DEF Moved, Active, Alive
      <4>2. CASE ~Alive(p)
        BY <2>3, <3>2, <4>2 DEF WaitForExit, Active, Alive
      <4> QED
        BY <4>1, <4>2
    <3> QED
      BY <1>2, <1>3, <3>1, <3>3, <3>4 DEF Turned, Onward
  <2> QED
    BY <2>1, <2>2, <2>3 DEF StopDaemon
<1>7. OneClient' /\ OneActive' /\ NoService' /\ WaitsForActive' /\ LaunchesAlone'
  BY <1>3, <1>6 DEF LaunchInv, OneClient, Busy, OneActive, NoService, WaitsForActive,
                    LaunchesAlone, Onward
<1>8. EarlyIsPolled' /\ PolledIsWanted' /\ ConnectsAsWanted'
  BY <1>3, <1>4, <1>6 DEF EarlyIsPolled, PolledIsWanted, Polls, ConnectsAsWanted, Onward
<1>9. FingerIsActive'
  BY <1>1, <1>2, <1>3 DEF LaunchInv, FingerIsActive, Polls, Onward
<1> QED
  BY <1>7, <1>8, <1>9 DEF LaunchInv

LEMMA InitLaunches == Init => LaunchInv
BY LifecycleAssumption
DEF Init, LaunchInv, OneClient, OneActive, NoService, EarlyIsPolled, LaunchesAlone, WaitsForActive,
    PolledIsWanted, FingerIsActive, ConnectsAsWanted, Busy, Polls, Active, Alive, Early, Unused,
    IdleActor

LEMMA NextLaunches ==
  ASSUME Typed, OneInv, Launching, [Next]_vars
  PROVE  Launching'
<1> SUFFICES ASSUME seen' \subseteq {"kill"}
             PROVE  LaunchInv'
  BY DEF Launching
<1>1. seen \subseteq seen'
  <2>1. CASE \E d \in Pid : Daemon(d)
    BY <2>1 DEF Daemon, CheckRunning, WritePidFile, UnlinkSocket, BindSocket, ConnectKms,
                LeaveLoop, RemoveSocket, RemovePidFile, files
  <2>2. CASE ~ \E d \in Pid : Daemon(d)
    BY <2>2, OtherSteps DEF OtherStep
  <2> QED
    BY <2>1, <2>2
<1>2. LaunchInv
  BY <1>1 DEF Launching
<1>3. CASE \E d \in Pid : Daemon(d)
  BY <1>2, <1>3, DaemonOnward, OnwardKeeps
<1>4. CASE \E d \in Pid : Crash(d)
  <2>1. PICK d \in Pid : Crash(d)
    BY <1>4
  <2>2. UNCHANGED <<win, finger, actor>> /\ Moved(d, "gone")
    BY <2>1, BecomeMoves DEF Crash, files, Typed, States
  <2> QED
    BY <1>2, <2>2, GoneOnward, OnwardKeeps
<1>5. CASE \E d \in Pid : StartByHand(d) \/ StartService(d)
  BY <1>5 DEF StartByHand, StartService
<1>6. CASE \E d \in Pid : SvcStop(d)
  <2>1. UNCHANGED <<win, finger, actor>> /\ SameProcesses
    BY <1>6, SvcStopMoves DEF SvcStop, files, Typed
  <2> QED
    BY <1>2, <2>1, SameOnward, OnwardKeeps
<1>7. CASE StopDaemon(Operator)
  <2>1. UNCHANGED <<win, finger>>
    BY <1>7 DEF StopDaemon, NothingToStop, Terminate, WaitForExit, files
  <2>2. \A c \in Client : actor'[c] = actor[c]
    BY <1>7, LifecycleAssumption DEF StopDaemon, NothingToStop, Terminate, WaitForExit, Typed, TypeOK
  <2>3. Onward
    BY <1>7, <2>1, StopMoves, GoneOnward, SameOnward
  <2> QED
    BY <1>2, <2>1, <2>2, <2>3, OnwardKeeps
<1>8. CASE \E c \in Client : StopDaemon(c)
  BY <1>2, <1>8, StopLaunches
<1>9. CASE \E c \in Client : ClientStep(c)
  <2>1. \A c \in Client : ~LaunchFails(c)
    BY DEF LaunchFails
  <2> QED
    BY <1>2, <1>9, <2>1, LookLaunches, CompareLaunches, LaunchLaunches, PollLaunches DEF ClientStep
<1>10. CASE StopByHand \/ (\E cfg \in Config : EditConfig(cfg)) \/ UNCHANGED vars
  <2>1. UNCHANGED <<win, finger>> /\ SameProcesses
    BY <1>10 DEF StopByHand, EditConfig, vars, files, SameProcesses
  <2>2. \A c \in Client : actor'[c] = actor[c]
    BY <1>10, LifecycleAssumption DEF StopByHand, EditConfig, vars, Typed, TypeOK
  <2> QED
    BY <1>2, <2>1, <2>2, SameOnward, OnwardKeeps
<1> QED
  BY <1>3, <1>4, <1>5, <1>6, <1>7, <1>8, <1>9, <1>10 DEF Next

(* A client that connects reaches a broker with its own configuration      *)
(* (ConnectedConfig of BrokerLifecycle), unless something misled it: the   *)
(* fingerprint is right because the one client at work is the one that     *)
(* started, or found, the one broker there is.                             *)
THEOREM ConnectedConfigHolds == Spec => []ConnectedConfig
<1>1. Typed /\ OneInv /\ [Next]_vars => OneInv'
  BY DaemonOne, OthersOne
<1>2. Typed /\ OneInv /\ Launching /\ [Next]_vars => Launching'
  BY NextLaunches
<1>3. Launching => ConnectedConfig
  <2> SUFFICES ASSUME Launching, seen \subseteq {"kill"}, NEW c \in Client, NEW d \in Pid,
                      actor[c].pc = "connect", Reaches(d)
               PROVE  proc[d].cfg = actor[c].want
    BY DEF ConnectedConfig
  <2>1. LaunchInv
    BY DEF Launching
  <2>2. Active(d)
    BY DEF Reaches, Listening, Active, Alive, Stopping
  <2>3. \A b \in Client : ~Polls(b)
    BY <2>1, Alone DEF Polls
  <2> QED
    BY <2>1, <2>2, <2>3 DEF LaunchInv, FingerIsActive, ConnectsAsWanted
<1>4. Init => Launching
  BY InitLaunches DEF Launching
<1>5. Spec => [](Typed /\ OneInv /\ Launching)
  BY <1>1, <1>2, <1>4, InitTyped, NextTyped, InitOne, PTL DEF Spec
<1> QED
  BY <1>3, <1>5, PTL
==============================================================================
