# Verification of the RA8M1 provisioning tool

TLA+ models of the provisioning tool, TLC runs that check them on small instances, and TLAPS
proofs that hold for every instance. The models are translated from the code under `src/`;
`PROJECT.json` gives, for every definition, the lines it stands for.

Contents: 1. the system, 2. modules, 3. runs, 4. fairness, 5. proofs, 6. what the runs and
the reading found, 7. what is not modelled, 8. what is left.

## 1. The system

The tool prepares, signs and programs firmware for Renesas RA8M1 boards. Keys live in an HSM
(AWS KMS, or a PKCS#11 module), which the tool reaches directly or through a *broker*: a daemon
on the same machine that holds the cloud credentials and serves local processes. The last step
of the workflow programs a board over a serial line.

| Component | Code | State | Operations | Talks to |
|---|---|---|---|---|
| Session manager | `security/broker/service/session.py` | table of sessions, per session: owner, state, last activity | create, get, close, sweep, close all; authenticate, login, logout, touch on a session object | called by all client threads and the main thread under one lock; session objects are written outside it |
| Broker daemon | `security/broker/service/daemon.py` | running flag, thread list, session bound to each connection, pid file, socket | accept loop, one thread per connection, stop, cleanup | clients over a Unix socket or a named pipe; session manager; handler |
| Request handler | `security/broker/service/handler.py` | none of its own | 12 methods of the protocol | session manager, authorization, KMS backend |
| KMS backend | `security/broker/service/kms_backend.py` | connected or not | sign, verify, keys | AWS |
| Authorization | `security/broker/authorization.py` | policies read at start | client allowed, operation and key allowed | handler |
| Peer authentication | `security/broker/auth.py` | none | identity of the peer | operating system |
| Wire protocol, transport | `security/broker/protocol.py`, `client/transport.py` | socket | length-prefixed JSON requests and responses, receive timeout | library and daemon |
| PKCS#11 library | `security/broker/pkcs11/` | slot with its handles; per session: broker session id, login flag, operation states, object handles | C_Initialize ... C_Finalize | one transport for all sessions of a process |
| Broker autostart | `security/hsm/broker_client.py` | fingerprint file | start the daemon if its socket is missing, restart it when the configuration changed | daemon process, files |
| Broker commands, service | `cli/commands/broker.py`, `windows_service.py` | pid file, service state | start, stop, status | daemon process |
| Device provisioning | `device/ra8_provisioning_workflow.py`, `..._client.py`, `ra8_key_programmer.py`, `ra8_certificate_programmer.py` | current step; on the board: life cycle, protection level, key, flash, certificates | eight steps, each some commands and their answers | board over a serial line, operator |
| SREC programming | `device/ra8_srec_programmer.py`, `utils/srec_combiner.py`, `utils/srec_manager.py` | none | parse, merge, pad, combine, write | device client |
| Commands | `cli/commands/` | flow folder | program-device, chip-erase, sign, combine, ... | everything above |
| Version counter | `utils/version_manager.py` | counter file, lock | get, set, increment | files |
| Flow folders | `utils/flow_manager.py`, `output_manager.py`, each command's own search | `output/flow_<time>/`, `output/reusable`, `output/reuse_ufpk` | pick the latest folder by name or by modification time, or make one | every command |
| Keys for injection | `cli/commands/workflow*.py`, `generate_rkey.py`, `security/dlm`, `security/pgp` | files of a flow folder, mails | make a UFPK, encrypt it, have it wrapped by the DLM server, wait for the mail, decrypt it, make the RKEY | files, DLM web pages, gpg, HSM |
| Firmware signing | `firmware/aws_kms_signer_v3.py`, `imgtool/` | none | imgtool with a temporary key, then the TLV area rebuilt with the HSM's signature | HSM |
| Certificates, key injection | `security/skmt/wrapper.py`, `utils/key_injector.py`, `utils/certificate_*.py` | none over time | key certificate, code certificate with the CRC of the bootloader, validation; put a key into a bootloader | HSM, files |
| Configuration, logging, credentials | `config`, `utils` | none over time | read once at start | |

### Where it is hard

*Broker.* Client threads, the sweep and a shutdown share session objects; only the table has a
lock. A thread keeps the object of its connection after the manager closed it. The process on
the other side may disappear at any point of a request. Correct means: never more sessions than
`max_sessions`; no slot is lost; what a thread does to "its" session is not done to another's;
no key operation without login and policy; expired sessions go; a stop ends the process.

*Connection.* One socket carries the requests of all PKCS#11 sessions of a process; reading a
response has a timeout; the daemon may lose a session (expiry, sweep, restart) the library still
thinks is logged in. Correct means: a call gets its own response, and both sides agree on who is
logged in.

*Board.* Every command may be carried out or not and its answer may be lost, each step checks
more or less of the answer, and the last ones cannot be undone. The operator runs the tool again
on whatever a failed attempt left: a root key and certificates may stay on the board, which then
refuses new ones, and certificates use up an anti-rollback counter. Correct means: a board is made
irreversible only when it is complete, a reported success is one, and after a failed attempt there
is a way to go on, which the message names.

*Processes and files.* Pid file, socket and fingerprint are created, checked and removed by
several processes with no lock between them. Correct means: one daemon, no client talks to a
dead socket for ever, no daemon removes another's files.

*PKCS#11 sessions.* Sign, verify, digest and find each keep a key, a mechanism and data in fields
of their own, which different calls and error paths clear; the HSM client on top caches object
handles. Correct means: an operation has exactly what it was given, an error leaves the session
usable, and what the client returns depends on no earlier request, but for an answer that came
when nobody waited for it any more.

*Output folder.* A dozen commands find their inputs among what earlier commands left; two rules
for "the latest folder" are in use; any command may be cut between two writes; one waits hours
for a mail. Correct means: an RKEY holds one UFPK, a pair of keys is not lost, and what
`program-device` writes belongs together.

*Bytes.* Signing rebuilds the TLV area for a signature of another length; SREC files are parsed,
combined, merged, remapped to the secure alias, padded and written in phrases; the code
certificate carries a CRC over a padded bootloader. Correct means: the flash is the file, and the
board boots it.

`PROJECT.json`, "hazards", lists these one by one at the line where they bite.

## 2. Modules

| Module | Models | Uses |
|---|---|---|
| `SessionTable` | abstract: a bounded table of live ids, each entering once | |
| `BrokerSessions` | one daemon process: threads, manager, handler, sweep, shutdown | implements `SessionTable` (`ImplementsTable`) |
| `BrokerConnection` | one library, its transport, and the daemon's view of this connection | |
| `BrokerLifecycle` | daemon processes, their pid, socket and fingerprint files, clients and operator | |
| `Pkcs11Session` | the PKCS#11 session as a value: every `C_` function as an operator | |
| `KeyService` | abstract: a key service whose results come in the order of the requests | |
| `Pkcs11Library` | the library in a process and the HSM client over it | extends `Pkcs11Session`, implements `KeyService` (`ImplementsKeyService`) |
| `FlowFolders` | the folders of `output/`, by name and by time | |
| `KeyFlow` | from a UFPK to an RKEY: the commands as steps on the folders | extends `FlowFolders` |
| `FirmwareFlow` | from builds to what `program-device` chooses | extends `FlowFolders` |
| `SignedImage`, `SrecFiles`, `Certificates` | byte by byte: signing with imgtool; SREC files; certificates and the boot ROM's check | |
| `FirmwareImage` | the bytes through sign-app, make-combined-srec, gen-fsbl-certs, program-device | extends the first two, instances `Certificates` |
| `DeviceProvisioning` | attempts to provision one board | |

`MC*` modules with their `.cfg` files are the instances TLC checks; `*Proofs` modules hold the
theorems.

How they meet: what a daemon does for its clients (`BrokerSessions`) is one step per request in
`BrokerConnection`; that in turn is one outcome per call in `Pkcs11Library` (answered, failed, or
given up with its answer still to come);
whether there is a daemon at all is `BrokerLifecycle`. Which file a command takes is `KeyFlow` and
`FirmwareFlow`; what is in it is `FirmwareImage`; how the board answers is `DeviceProvisioning`.

### BrokerSessions

A step is what one thread does between two points at which another can see or change shared
state: a critical section of `SessionManager._lock`, one assignment to a session object, one KMS
call. `open_session` is therefore three steps (`OpenSession` under the lock, `Authenticate`
outside it, `Track` in the daemon), `login` two (look-up and checks, `LoginSession`), `logout`
two, a key operation three (`BeginCrypto` with the only authorization check, `CallKms`,
`Touch`).

| Variable | Code |
|---|---|
| `state`, `owner`, `idle` | `ClientSession.state`, `client_identity`, time since `last_activity` |
| `registry` | keys of `SessionManager._sessions` |
| `bound` | `BrokerDaemon._connection_sessions` |
| `pc`, `sess`, `peer` | a client thread: where it is, the object in its hands, its client |
| `running`, `main`, `kms` | `_running`, the main thread, `KMSBackend._connected` |
| `platform` | which daemon class; they differ in the accept loop only |
| `superseded` | history: sessions a connection bound before its present one |

Abstractions: ids are never issued twice (the code draws 128 random bits); `close_session` takes
any id that was ever issued and `login` any id of the same client, as the code does not bind ids
to connections; the idle time of a session outside the table is kept at 0, since no code reads
it; messages arrive whole; the policy is two sets of clients.

### BrokerConnection

The library makes one call at a time: write the request (`OpenSession`, `Login`, `Logout`,
`Sign`, `Query`), then `Receive`, `Timeout` or `ConnectionLost`. `Receive` takes the *first*
response on the socket for its own, because `Session._broker_request` does. The daemon's thread
serves in order, one step per request; `Expire` and `DaemonExits` stand for what happens there.
`query` stands for every method that changes nothing on either side. Requests carry a number the
code does not have, to tell which response belongs to which call. The pipe transport is the same
without `Timeout`.

### BrokerLifecycle

`proc` is a table of daemon processes, each somewhere between `broker_start` (`check`), the pid
file, the socket (unlink, bind), the KMS, the accept loop and the three parts of `_cleanup`.
`actor` holds the clients inside `_ensure_broker_running` (compare fingerprints, stop, wait,
launch, poll, connect) and the operator inside `broker stop`. Each check of a file and each change
to one is a step of its own, so any two actors may interleave. SIGKILL comes from `stop_daemon`
after its five seconds or from outside; a file then stays behind. On Windows the same variables
have the pipe in place of the socket file, stopping is killing, and the service runs without a pid
file.

`seen` is a history of what has interfered: `race` (two daemons between `is_daemon_running` and
the pid file), `kill`, `mislead` (listed at its definition: a daemon started by hand, an edit or
another client between the steps of one client, a start that was too slow or failed). Each
property names what it excepts, so it says exactly what the code's protection, which has no lock,
is good for.

### Pkcs11Session, Pkcs11Library, KeyService

A `C_` function of `session.py` takes a session value and the result of what it asks of the broker,
if it does, and returns a code, the session left behind and what it hands out. `Pkcs11Library` lets
an application call these in any order, or `BrokerHSM` make the sequences its methods make
(register, init, operate). All calls of a process are made by one thread, so a method is one step.
`given` and `found` are histories of what an operation was given and a search handed out.

`late` is the socket as `BrokerHSM` sees it between two methods: the results, in order, of calls
whose receive timed out. `Exchange` is `_broker_request`: it takes the first response that comes,
which is one of `late` if there are any; it may also raise, and then its own response may still
come. A new connection has none. An application by itself may get any response to any call
(`Response`); which one, `BrokerConnection` says.

`KeyService` is the interface `security/hsm/base.py` promises, without sessions, handles and
operations in progress. Its only state is the queue `behind`: the service makes a result of each
request, by the key it names and about the data it gives, and a request takes the first result that
comes, its own if the queue is empty. What a request gives for a result it took is `Reading`.

### FlowFolders, KeyFlow, FirmwareFlow

A file system is the sequence of flow folders by name, their order by modification time, and one
or two fixed folders. Creating or removing an entry changes a folder's time, writing over a file
does not (`Touch`). Which files a folder may have is up to the module that uses it and is handed
to `NewFlow` and `Reuse`. A command is one step, with the file systems between its writes as
further outcomes (`Outcome`): it may fail or be killed after any write. The one command that
waits, prepare-ufpk for its mail, has the wait as a state. `KeyFlow` has both generations of
commands (`workflow ...` choosing by name, `generate-rkey` by time), the DLM server as a step
that answers by mail or does not, and what the operator has put beside (`own`: a prerequisites
folder; a wrapped UFPK in `output/reusable`, which `workflow generate-rkey` takes when the flow
folder has none, whatever plain UFPK it goes with; and the name that mails are saved under, on which
it depends whether prepare-ufpk finds them). An operator keeps to one name. Two things that keep
`get_flow_folder` from making a new folder are left out of `KeyFlow`: certificates, which no command
puts where it looks, and combined.srec, which `FirmwareFlow` has. `FirmwareFlow` has the single
commands and `workflow-all`, which runs them one after the other and may be cut between any two,
while the project configuration is edited and new builds appear.

Histories: `given` (UFPKs a folder was given), `half` (generate-rkey cut between two copies),
`strayed` (older folder modified by hand; root keys on file that are not the configured one, because
the configuration was edited or another key was picked in `workflow generate-rkey`, which does not
read it; combined without key where a bootloader with one lies; two certificate versions in one
folder). The properties except these; section 6 says what they come to.

### SignedImage, SrecFiles, Certificates, FirmwareImage

Bytes are bytes: an image is a sequence of numbers, an SREC file a sequence of records with an
address, flash a function. TLV widths are the real ones; header, trailer, hashes and signatures
are shorter, and images stay below 256 bytes. A digest, a key hash and a signature are stand-ins
that tell apart what differs. `FirmwareImage` runs the commands one after the other on a board
with 64 bytes of flash, sectors of 8 and phrases of 4, options at two other places, used or blank,
over bootloaders made of pieces that touch, straddle or share a phrase or a sector, lie in the
secure alias, or reach over the option area. External: the boot ROM accepts (`FsblAccepts`) a key
certificate of the root key, a code certificate of the key named there, and a CRC over the image;
the bootloader accepts (`Accepted`) an image as imgtool's own `verify` does.

### DeviceProvisioning

A step is one command and its answer. `Command(a, able, After)` says what a board may do: carry
the command out if it is able to, and answer `ok` or anything that raises (the answer is lost),
or refuse it and answer with an error status, with a packet for another command, or not at all.
What the *code* does with an answer is its own: `CheckRES` (life cycle, Initialize, protection
level: only RES is compared, after `& 0x7F`), `CheckSTS` (root key, erase, write: also the
status), or nothing (option records, the final steps). An exception ends the attempt (`End`),
except in the lock step, where all but an `IndexError` are swallowed (`LockStep`).

`dev` is the board; `pc` the step of `execute`; `next` the index of the write loop; `result` how
the last attempt ended. Between two attempts the operator may start again with other arguments
or erase the chip; he or a power failure may end an attempt anywhere (`Abort`). `unseen` is a
history variable: a packet cut off after its RES, which the checks accept because they treat a
missing status like 0, has been taken for a success. The properties except it.

The board is external. Its rules are read off the code's messages and status tables, and where
those disagree the board may do either. The root key needs PL2 and an empty slot (status 0xD3 or
0xDB otherwise, "run chip-erase first"). Certificates are checked against the key and against the
anti-rollback counter `arc`: a version below it is refused (0xDC), one equal to it may be ("too low
or certificates already exist ... increase"), and accepted ones raise the counter. Initialize clears
flash and options and leads to OEM/PL2 unless it was disabled; it *may* leave the key and the
certificates, since `ra8_provisioning_client.py:457` says that it clears the key index and
`ra8_key_programmer.py:226` that it cannot. A chip erase clears everything, the counter too, and is
the only way out of LCK_BOOT. What the operator is told to do is in `result`: `erase_chip`,
`raise_version`, or plain `failed`. Opening the port, the handshake and resets only work or do
not. Bytes of the image are `FirmwareImage`'s: here a phrase is a number.

## 3. Runs

| Run | Bounds | States | Shows |
|---|---|---|---|
| `broker_sessions` | 2 connections, 2 clients (one may not log in), 3 session ids, limit 2, timeout 1 tick | 1 453 853, symmetry | all safety properties of the manager and the handler, and the refinement of `SessionTable` |
| `broker_sweep` | 2 connections, 1 client, 2 ids, limit 1, both platforms | 509 370 | expired sessions are swept; a stop ends the process |
| `broker_connection` | 3 handles, 5 calls, 2 data | 286 625, symmetry | responses stay in step with calls; both sides agree |
| `broker_lifecycle` | 3 processes, 1 client, the operator, 2 configurations, both platforms | about 4.1 million, symmetry | one broker; a client reaches the one it asked for; nothing is left behind |
| `pkcs11_library` | 2 keys, 2 chunks, 1 session, 3 handles, 1 chunk at a time, 1 answer that is late | 87 656, symmetry | operations do not mix, errors leave the session usable, the client is `KeyService` |
| `key_flow` | 2 UFPKs, 1 root key, 1 mail under way; 2 folders and nothing of the operator's own but files named on the command line, or 1 folder and every content of prerequisites and `output/reusable` and every name of a mail | 874 619, symmetry | an RKEY mixes UFPKs only with the operator's own wrapped one, no pair is lost |
| `firmware_flow` | 2 of each key, of the bootloader and of the version, 1 application, 3 folders, 4 commands or workflows | 657 062, symmetry | what is programmed belongs together and to the configuration |
| `firmware_image` | 3 applications, 512 bootloaders, 2 places, 2 keys (one on another curve), signatures of 5 and 7 bytes | 397 896 | the flash is the file; the board boots |
| `provisioning` | 2 phrases, 2 option records, 3 certificate versions, every combination of arguments | 457 680 | irreversible means complete; success means programmed; the remedies lead to a success |
| `broker_limit` | 2 connections, 2 ids, limit 1 | violation | finding 1 |
| `broker_late_answer` | 2 handles, 4 calls | violation | finding 2 |
| `provisioning_report` | 1 phrase, 1 record, 1 version, arguments of program-device | violation | finding 3 |

Why the bounds are enough:

* *Sessions.* Two connections and the main thread make every pair of racing threads the code can
  have: no step of a handler looks at more than its own connection and the table. Three ids with a
  limit of two leave one session that outlived its slot next to a full table; since ids are never
  reused, more ids repeat the situation. A timeout of one tick separates fresh, idle and expired.
  The liveness run is smaller because TLC cannot use symmetry there.
* *Connection.* Three handles are the fewest with an oldest, a middle and a newest; five calls
  allow a login, a call that times out, and two more after it.
* *Lifecycle.* Three processes are one that leaves files behind, one that finds them, and one
  that races with it. A process is not used twice, so behaviours end when they are used up, and
  the run does not check deadlock. Two clients with two processes (1 077 921 states) were checked
  as well and hold; the theorems of section 5 do not depend on the numbers.
* *PKCS#11.* Nothing in a session looks at another, so one is enough for a run; it is reopened
  after every finalize. Two keys and two chunks tell apart whose key and whose data are used;
  three handles leave a second search with results from the first. One late answer is one that the
  next call takes while its own becomes late in turn; a longer queue shifts by more of the same, and
  the theorem has no bound on it.
* *Folders.* Two folders are the one a request was made in and the later one that receives the
  answer; what lies beside the folders meets each of them alone, so one folder is enough there (`MCFolders`,
  a constraint of the run);
  firmware needs a third, since a workflow that makes a new folder must find two to mix
  up. Four commands allow two workflows with an edit and a cut in between; that they were once
  too few to refute a property is told in section 5, and the theorems there have no bound.
  Behaviours end at these bounds, so deadlock is not checked.
* *Bytes.* Each piece of a bootloader sits at, before or over one of the borders: phrase, sector,
  end of the certified minimum, application, alias, option area. All subsets are tried. The
  sequence of commands ends in `done` or `failed`, so deadlock is not checked.
* *Board.* Two phrases have a first and a last; two attempts or more are within reach since
  nothing but `result` and the board remembers an attempt; there is no bound on their number. Of
  three versions one may be accepted and its answer lost, a higher one may succeed, and one is left
  before the counter is full, which `RetrySucceeds` excepts.

The properties, in the order of the modules (`TypeOK`, in `FirmwareImage`
`ImageTypeOK`, is each module's type invariant):

* `SlotLimit`, `RegisteredIsOpen`, `PrivateSession`, `LoggedInIsAllowed`, `CryptoIsAuthorized`:
  see section 1. `OnlySupersededLeak` says that a slot is held by a connection which can still
  give it back, *or* was given up by a second `open_session` on the same connection: that leak
  exists (nothing but expiry frees it) and is the only one.
* `Bookkeeping`: what a thread takes for granted about the objects it holds; with `TypeOK` it is
  the inductive invariant of the proofs.
* `ImplementsTable`: seen through the table alone, the daemon is the bounded table of
  `SessionTable`.
* `ExpiredIsSwept`, `StopCompletes`: section 4.
* `InStep`: the first response on the socket answers the call exactly as many back as calls have
  timed out. `Agreement`: with one session and no timeout, the library's login flag is right, up
  to expiry. `NewestIsBound`: with several, the daemon acts on the one opened last.
* `OneBroker`: without a race there is one broker, the pid file and the socket file are its own.
  `ConnectedConfig`: a client that was not misled reaches a broker with its own configuration,
  also after kills. `GracefulLeavesNothing`: without a kill no files are left, also by failed
  starts and races.
* `OperationIsItsOwn`, `SearchOnce`, `ClientReady`: section 1. `ImplementsKeyService`: what the broker
  makes of a request is by the key and over the data of that request, whatever methods were called
  and failed before and across reconnecting. The request *gets* it as long as no call of the
  connection was given up; after a receive timeout it gets the result of the request as many places
  before it as calls were given up, as finding 2 has it, and nothing else.
* `RkeyMatches`: every RKEY, and every pair one can still be made from, holds one UFPK, but for three
  ways the code leaves open: a folder that was given two UFPKs, a wrapped one the operator put into
  `output/reusable`, and generate-rkey cut between its two copies.
  `NoPairLost`: an action property; a pair goes only when another is written over it.
* `NameIsTime`: the two rules for "the latest folder" agree. `BuildIsCoherent`: after a workflow
  `program-device` would write the present builds, signed by the key in the bootloader, with
  certificates of that bootloader and of one chain, which begins with the key of the RKEY unless
  keys of another root are on file.
* `SignedIsAccepted`, `FlashIsFile`, `OptionsAreFile`, `BoardBoots`: section 1.
* `IrreversibleIsComplete`, `SuccessIsProgrammed`: section 1. `RetrySucceeds`: whatever attempts failed
  at, the messages' remedies lead to a success in the end (section 4 says who must do what).

Every property of a passing run has a mutant in `PROJECT.json`: the mutated operators stand next
to the ones they change, marked "Mutation", and TLC finds the property violated with them.

## 4. Fairness

* `WF(AcceptTimeout)`: on Unix `accept` has a timeout of one second; a second without a new
  connection is assumed to come again and again. A steady stream of connections would keep the
  sweep from running; that is how the code is.
* `WF(Sweep)`, `WF(Shutdown)`: the main thread goes on; the joins of `_cleanup` are bounded, so
  it needs nothing from clients. `WF(Tick)`: time passes.
* On Windows the accept loop has no timeout. The two liveness properties are conditional there:
  the sweep on an accept happening again and again, the stop on the loop leaving the accept.
* Clients and their threads owe nothing: a thread may stay in a read for ever.
* `RetrySucceeds` assumes `Cooperation`: from some moment on the board carries out what it is able
  to and says truly why it does not, nobody interrupts, and the operator tries again as the messages
  tell: he erases the chip when the root key is refused, takes a higher version when the certificates
  are, and never a lower one. That is a premise about the environment, not a promise of the code; the
  property says that no failure before that moment has left the board in a state from which these
  remedies, and no others, lead to no success. It excepts a board on which Initialize was disabled or
  that is locked, and a counter at the highest version (64, `cli/commands/version.py`): each accepted
  certificate whose answer is lost uses one up, and only a chip erase gives them back, which no
  message then asks for.
* The other modules have no fairness: a command may never be run, a broker never asked for, and
  nothing in the code promises that a mail comes or that a killed process is started again.

## 5. Proofs

All theorems hold for every value of the constants allowed by the named assumptions
(`SessionsAssumption`, `ConnectionAssumption`, `LifecycleAssumption`, `LibraryAssumption`,
`KeyFlowAssumption`, `FirmwareFlowAssumption`, `ProvisioningAssumption`,
`SrecAssumption`, `FirmwareImageAssumption`), which TLC evaluates on the instances of the runs.

*BrokerSessionsProofs.* `TypeCorrect`; then `BookkeepingCorrect`, from `TypeOK /\ Bookkeeping`,
which is inductive: ownership of an object never changes once it exists and a thread only gets
hold of objects that exist, so what a check found out about *owner and policy* stays true while
other threads change the object's *state*. The safety properties follow from it, some with a
strengthening of their own: `SlotLimitHolds` by counting, with the library's theorems on finite
sets; `TableImplemented` step by step; `RegisteredIsOpenHolds`, `LoggedInIsAllowedHolds`,
`CryptoIsAuthorizedHolds`, `PrivateSessionHolds`, `OnlySupersededLeakHolds`.

*BrokerConnectionProofs.* `ConnectionTypeCorrect`, and `InStepHolds` from `IInv`, which numbers
the two queues (`Numbered`, `Counts`): while the daemon serves, requests and responses under way
have consecutive numbers, and there are as many as calls were given up, plus the waiting one.
`AgreementHolds` and `NewestIsBoundHolds` need to say what is true *during* a call: `Known` says
that without timeouts there is one request or one response and it belongs to the call (`Matched`),
what a request under way may ask for (`Asks`), how handles and broker sessions are ordered
(`Ordered`), and by which method the daemon may be ahead of the library (`Agreed`).

*BrokerLifecycleProofs.* `LifecycleTypeCorrect`, `OneBrokerHolds`, `GracefulLeavesNothingHolds`,
`ConnectedConfigHolds`. For the first two properties: who has left a file is at work, or another
is that will remove it (`FilesHaveOwners`), and a process past its check is alone and named by the
pid file (an invariant of the shape of `OneBroker` itself). `ConnectedConfig` needs the story of a
launch (`LaunchInv`): one client at a time, one active daemon at a time, started by a client that
polls for it, with that client's configuration, which is what the fingerprint says once nobody
polls.

*Pkcs11LibraryProofs.* `LibraryTypeCorrect`, `OperationIsItsOwnHolds`, `SearchOnceHolds`,
`ClientReadyHolds`, and `ServiceImplemented`: the library with the client over it implements
`KeyService`. The invariant is types, what the histories know of operations and searches
(`Tracked`), that histories of sessions not yet open are empty (`Forgets`), and `ClientReady`.
Lemmas on each `C_` function say what it preserves of any session (`Sound`), that handles only
grow (`Extends`), and what the sequences in `BrokerHSM` leave (`Leaves`). The refinement then goes
request by request: what a method asks for is a result of `Answers`, although it is made from
handles and the fields of an operation (this is where `ClientReady` is needed), and what it hands out
for the response it took is what `Reading` says. The queue of late results has no bound in it.

*FlowFoldersProofs.* No theorem about a specification but what the two modules over `FlowFolders`
need of its operators, once for both: what a file system is (`FileSystem`, with facts about its
two orders), that `Put`, `Remove`, `Touch` and `NewFlow` lead to one, change one folder at most
(`Changed`, `Beside`), and keep the order of time when it is that of the names and the folder is the
last (`InOrder`); what the folder is that `ByTime`, `FirstByTime` and `Reuse` pick.

*KeyFlowProofs.* `KeyFlowTypeOK`, `KeyFlowRkeyMatches`, and the action property
`KeyFlowNoPairLost`, from `IInv == FilesInv /\ MailInv`. `RkeyMatches` looks only at RKEYs and at
`reuse_ufpk`; it is kept because every UFPK file of a folder is one the folder was given, because
`generate-rkey` copies the wrapped UFPK before the plain one (`WrappedFirst`, and `half` says when
only the first copy was made), and because the pair `workflow generate-rkey` makes an RKEY of
(`PairFor`) is the folder's, unless its wrapped half comes from `output/reusable`, which the property
excepts (`own.reusable`), and a pair in the prerequisites folder is one pair. A
command may be cut after any write, so the lemmas are about the file systems between its writes
rather than about the step: what a command that only makes folders and writes files reaches is
`Written`, for which no pair can go but by being written over. `generate-rkey`, which also removes,
is looked at write by write: each of its file systems is `Safe`, that is, with `reuse_ufpk` empty at
the start a pair it takes out of a folder is whole in `reuse_ufpk`. `MailInv` is the type of mails
and waits: a folder that was asked about is never gone, a mail that arrived is a file of it.

*FirmwareFlowProofs.* `FirmwareFlowTypeOK`, `FirmwareFlowNameIsTime`,
`FirmwareFlowBuildIsCoherent`, from `IInv == FilesInv /\ TaskInv`. `FilesInv` says that folders are
in the same order by time as by name until one is touched by hand (`InOrder`; commands write in the
last one only), that a code certificate has the key certificate of its version beside it
(`CertsFollow`: the key certificate is written first), and that the keys which a command may take
over, in `output/reusable`, in the last folder with an RKEY and in the last folder, are of the
configured root key (`RootsAgree`) until another is configured or is picked in `workflow
generate-rkey`, and again after that command has run to its end with the configured one. `TaskInv` says what each step of
`workflow-all` has left for the next. Each command leaves a `Stage`, at whatever write it is cut
(`Works`), and the last step of the workflow makes what `BuildIsCoherent` asks for
(`DoneIsCoherent`).

This proof corrected the property. `BuildIsCoherent` used to claim that the key certificate is by
the root key of the RKEY whatever versions lie in the folder, and the run agreed. The step of
`gen-fsbl-certs` could not be proved: with certificates of two versions in a folder, a new root key
in the configuration, `workflow generate-rkey` and then `workflow-all`, the RKEY and the configured
version are of the new root key, and the highest version, which `program-device` takes, is of the
old one. That takes five commands, and the run has four; with five TLC shows the same. The conjunct
now excepts two versions as its neighbours do (section 6). `IInv` itself was checked with TLC up to
five commands before it was proved; the theorem has no bound.

*BoardProofs* holds what is proved about the two machines that end at the board, the attempts of
`DeviceProvisioning` and the bytes of `FirmwareImage`; they share no variable, and every name that
only one of them could have was chosen so that one module can extend both.

For the attempts: `ProvisioningTypeCorrect`, `IrreversibleIsCompleteHolds`,
`SuccessIsProgrammedHolds`, from `Inv`. The two properties are not inductive: that a board with
Initialize disabled is never erased follows from the root key step, which passes only with an
empty slot, and such a board has none; that the firmware is complete follows from how far the
write loop has come. `Progress` records this for each step.

For the bytes: `SignedIsAcceptedHolds`. Every image `sign-app` leaves is accepted by imgtool's own
verification with the customer's key, whatever the bytes and the length of the application, the
sizes of header, slot and reserved signature, the lengths of the temporary signature and of the
HSM's, padded or not. The assumption is what the module declares: sizes are numbers, a signature
has at least four bytes and fits the space imgtool reserves, an application has at least a
header's length.

The scans of an image (for an entry, for the end of the entries, imgtool's own) are recursive
functions on *all* positions, so nothing can be said of them before they are shown to exist. A
scan goes upwards and stops behind the image (`Upward`); from that, and from the least element of
a set of numbers, `LeastOfSet`, the lemmas about `ScanOf` show that the function is there and that it
obeys its equation, and the digest's sum likewise. After that a proof follows an image from step to
step. `At(b, p, s)` says that the bytes s stand at p; lemmas say how it goes through `\o`, `SubSeq` and
`Overwrite`. `Made` is an image as imgtool makes it (header, info header, the three entries one
behind the other, then the end of the image, or erased bytes up to the slot's end and the trailer),
and `Found` reads off it what each scan finds. Exchanging the hash of the key keeps `Made`. Exchanging
the signature keeps it too if the lengths are the same; if they differ, `RebuildIs` says what the
rebuilt sequence is, piece by piece, `SignatureSet` where its entries end (the padding for the missing
bytes is seen as erased only when it is four bytes or more, or when the trailer's erased bytes
follow), and that the total written to the info header is four less than imgtool's. The last lemma,
`ImageIsAccepted`, reads the result with the scan of `Image.verify`.

Proving it changed the property and the model in three places. `Accepted` was silent about an entry
cut off by the end of the image, at which `struct.unpack` raises; it now refuses such an image
(`0 \notin entries`). The conjunct about the trailer took a last byte of the magic for the magic, which
a signature may have too; it now looks at both bytes the model has of it. And the digest of the model
is a recursive function, as it was a fold before.

For the files and the board: `ImageTypeCorrect`, `OptionsAreFileHolds`, `FlashIsFileHolds`,
`BoardBootsHolds`. They hold
for any set of bootloaders whose records have at least a byte and one of which starts where the
code flash does, for any application offset, and for any sizes of which `SrecAssumption` says what
the constants of the client have: sectors are whole phrases, the flash begins and ends with a
sector, flash and option-setting memories are intervals, the two memories are apart, phrases are
whole CRC units, and the alias lies above the flash. Sorting,
merging, writing and reading a file are recursive functions on its prefixes here: each is shown to
exist with its values in a set (`Iterated`, and one lemma named `...Loop` for each), and then an
invariant on prefixes says what it has done so far.

* *Types.* `ImageInv` adds to `ImageTypeOK` what keeps the maximum of an empty set out of reach:
  there is an image when it is combined, and a record at the base of the flash in every file
  certificates are made of (`Sources`); and that a board which was erased before is blank up to
  `ProgramSrec` (`BlankBefore`).
* *Options.* Sorting keeps the records (`SortIs`), and of two pieces of disjoint records the one
  with the higher address is written later. So the last piece that has an address (`LastWith`)
  is the one of the record that has it: padding of another one, which would have to start
  behind it, was written before (`OptionsAre`).
* *Flash.* Blocks in order do not overlap (`OrderlyApart`), so merging only appends or joins
  with erased bytes. `Merged` says of the blocks merged so far that each has the file's bytes or
  erased ones, that no byte is lost, and that a whole phrase lies between two. Therefore the
  phrases of two blocks never meet (`HullsApart`), and every phrase is blank when it is written
  if it was erased (`WritesAll`); `UnderIsErased` shows that they all were, unless only the last byte
  of the file is in a sector, the case `AllErased` excepts. What the steps keep is `Programmed`,
  which says more than `FlashIsFile`: the range was checked, and the flash is right up to the end of
  the last phrase, since a certificate is about an image that is padded behind its last byte.
* *Booting.* A file whose records are apart is in order after the sort (`SortAscending`), and stays
  so when the application is moved to the secure alias, because it is above the bootloader
  (`BlocksAre`). The blocks are then the records of the bootloader that start in the flash, and the
  application. What was read for the certificate is byte for byte what the blocks say
  (`ReadIsWhole`), whether it was read from the combined file or from the bootloader: in the second
  case the padding must not reach into the application, and does not as both begin on a CRC unit.
  It lies where the flash is known (`ReadWithin`). `FilesMade` and `Certified` carry through the steps
  which files these are and that the FSBL accepts the image as it was read (`ValidIsAccepted`); the
  key is found where it was written (`KeyInBlocks`: a record that has a byte of the flash starts in
  it), and the application is the image of `SignedIsAccepted`.

For these proofs the properties were restated where they had counted on the instance. `FlashIsFile`
speaks of every address between two the file has, instead of those from `Min` to `Max`; `OptionsAreFile`
asks for records that are apart (`Disjoint`), as every bootloader of the run has them: of two
records with one address the program writes last the one that starts higher, whatever their order in
the file. `BoardBoots` was true of the run's offsets and is not of others: looking for what the proof
needs, TLC found that with an application at an address off the CRC units the padding of the image
reaches into it, and the FSBL refuses the board. `FitFiles` now says what the configuration has to
be (section 6), together with what the run's files had anyway: an offset in the flash or its alias,
and records that are apart.

Only model-checked: liveness (`ExpiredIsSwept`, `StopCompletes`, `RetrySucceeds`), which TLAPS does not
prove under fairness. All invariants, action properties and refinements of the runs are theorems.

## 6. What the runs and the reading found

1. `login` without an id assigns LOGGED_IN to the connection's object even when it has left the
   manager, so more sessions are in use than `max_sessions` (`broker_limit`).
2. After a receive timeout the connection stays open and every later call of the process takes
   the answer of the call before; `C_Sign` then returns a signature of other data with CKR_OK
   (`broker_late_answer`).
3. `execute` returns True after a lock step that failed, was refused by the board or declined by
   the operator, and program-device prints that the board is locked (`provisioning_report`).

What properties except, or what was seen while translating; no run is about these:

* *Broker.* Two daemons started within moments both pass `is_daemon_running`; the later one
  unlinks the other's socket. A socket file left by SIGKILL is taken for a running broker
  (`broker_client.py:131`); a reused pid likewise (`daemon.py:380`). A daemon started by hand
  writes no fingerprint. On Windows a pid file stays when the KMS cannot be reached
  (`daemon.py:493`), and a stop of the service does not wake the accept loop (`daemon.py:521`).
  `session_timeout or config` (`broker.py:158`) reads a 0 as absent.
* *PKCS#11.* A failed `C_FindObjectsInit` leaves the search open. `C_Sign` after `C_SignUpdate`
  ignores the updates. An outage makes `verify_signature` return False. The client's local
  verification hashes a digest again. `C_VerifyUpdate` is documented and does not exist.
* *Keys.* `workflow prepare-ufpk-file` writes over the UFPK of a folder it reuses, although its
  help says a new folder; a mail asked for with the old UFPK is then decrypted beside the new one
  (the exception of `RkeyMatches`). `generate-rkey` removes a new pair from its folder when
  `reuse_ufpk` already holds another, and keeps the RKEY it finds. `workflow generate-rkey` takes the
  wrapped UFPK of `output/reusable` when the folder has none (`workflow.py:591`), whatever plain UFPK it
  finds (the exception `own.reusable` of `RkeyMatches`). `prepare-ufpk --ufpk-file` puts nothing but the
  wrapped UFPK into the folder (`workflow_ufpk_prepare.py:195`), although it ends with "All files saved".
* *Firmware files.* After `--no-inject` the certificates are made from an older bootloader with a
  key if one lies there; the highest certificate version in the folder is taken, not the
  configured one, so that after a change of the root key the RKEY of the new one goes with a key
  certificate of the old; the RKEY of an earlier root key is used, or, since `workflow
  generate-rkey` does not read the configuration (`workflow.py:550`), of any root key picked in it (the
  exceptions of `BuildIsCoherent`).
* *Bytes.* The erased span is rounded up from the last address, not from the one behind it
  (`ra8_srec_programmer.py:374`; the exception `AllErased`). Overlapping blocks are merged up to
  the end of the first (`:149`), and blocks of the alias are remapped after the sort (`:396`; the
  exception `Orderly`). Key injection only warns when bytes of the key area are missing
  (`key_injector.py:104`). `app_offset` is taken as it is (`make_combined_srec.py:185`): when it is
  not a multiple of 16 and the bootloader ends less than 16 bytes before it, the image the
  certificates of the bootloader are about is padded over the application's first bytes, and the
  board does not boot (the exception `FitFiles`). With `pad: false` signing fails for a signature that is shorter than
  the reserved space; keys on P-384 always fail, after imgtool has written the output.
* *Board.* Option-setting records the board refused are reported as programmed
  (`ra8_srec_programmer.py:486`). Certificates that were accepted by an answer that got lost have to be
  made anew with a higher version, if a board refuses an equal one as the text of 0xDC says
  (`ra8_certificate_programmer.py:218`); there are 64. Two places disagree on whether Initialize clears
  the root key (`ra8_provisioning_client.py:457`, `ra8_key_programmer.py:226`): if it does not, a retry
  after a late failure needs a chip erase.
* *Commands.* `update-device` ends in a TypeError before it reaches the board; `program-device
  --skip-initialize` is accepted and never used; `workflow sign-app` stops for want of
  `key_cert_v{n}.bin` (`workflow.py:1519`) or in a TypeError (`:1393`); `version_manager` takes
  its lock twice in a function nobody calls (`:197`).

## 7. Not modelled

* *Direct HSM backends*: each method is one call of boto3 or of a vendor's PKCS#11 library that
  is not in the repository. The broker's client, with the same interface, is modelled.
* *Peer authentication*: asks the operating system and keeps nothing. *Authorization*: a stateless
  look-up in a file; which clients pass is a constant.
* *Byte layouts*: JSON and length prefix of messages, TLV numbers and headers of certificates,
  attribute tables, packets of the boot firmware.
* *Web pages of the DLM server, gpg, imgtool's other formats, Win32 services*: external; modelled by
  what they do to the files, or not at all.
* *Step 6 of the workflow* (AL keys): no command passes the files. *Key cache*, the other
  signers, `provisioning_engine` and most of `version_manager`: no caller.
* *Configuration, logging, prompts, key set-up*: read once, or questions and one HSM call each.

## 8. What is left

* `Authorization` as a relation (exact name, wildcard, default) that its look-up is compared with.
* The option-setting bytes next to the answers of the board, in one instance.
