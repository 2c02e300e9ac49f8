------------------------- MODULE DeviceProvisioning -------------------------
(***************************************************************************)
(* RA8ProvisioningWorkflow.execute on one board, run again and again: the  *)
(* steps, what each of them checks of the device's answer, the failures    *)
(* that may follow any command, and the operator between the attempts.     *)
(*                                                                         *)
(* A step is one command and its answer.  Every command may be carried out *)
(* or not and its answer may be missing, so a step that raises leaves the  *)
(* device before or after the command.  Opening the port, the handshake    *)
(* and the resets only work or do not work.  Injecting AL keys, which no   *)
(* command line asks for, is left out.                                     *)
(***************************************************************************)
EXTENDS Naturals

CONSTANTS Blocks,     \* phrases of code flash in the SREC file
          Records,    \* option-setting records in it
          MaxVersion, \* the highest certificate version, 64 in the code
          Configs     \* how the workflow is called

Config == [lock     : BOOLEAN,          \* final_state = "LCK_BOOT"
           disable  : BOOLEAN,          \* disable_initialize
           callback : BOOLEAN,          \* reset_callback is given
           version  : 1 .. MaxVersion]  \* of the certificates

ASSUME ProvisioningAssumption ==
  /\ Blocks \in Nat \ {0}
  /\ Records \in Nat
  /\ MaxVersion \in Nat \ {0}
  /\ Configs \subseteq Config

VARIABLES
  dev,    \* the device
  pc,     \* the step of execute, or "idle"
  cfg,    \* arguments of the current or last attempt
  next,   \* the phrase or record to be written next
  unseen, \* a packet without a status has been taken for a success
  result  \* how the last attempt ended, "none" while one runs

vars == <<dev, pc, cfg, next, unseen, result>>

(* Device life cycle and protection level, Initialize disabled, OEM root   *)
(* key, phrases and option records written, certificates accepted and, in  *)
(* the anti-rollback counter ARC_OEMBL, the highest version of any.        *)
Device == [dlm : {"CM", "OEM", "LCK_BOOT"}, pl : {"PL0", "PL1", "PL2"}, initOff : BOOLEAN,
           key : BOOLEAN, firmware : SUBSET (1 .. Blocks),
           options : SUBSET (1 .. Records), certs : BOOLEAN, arc : 0 .. MaxVersion]

Virgin == [dlm |-> "CM", pl |-> "PL0", initOff |-> FALSE, key |-> FALSE,
           firmware |-> {}, options |-> {}, certs |-> FALSE, arc |-> 0]

Step == {"boot", "dlm", "oem", "initialize", "reset", "verify", "reset2", "pl2", "key",
         "erase", "write", "osm", "certs", "final", "pl0", "lockpl0", "declined",
         "disable", "lock", "step8"}

Init ==
  /\ dev = Virgin
  /\ pc = "idle"
  /\ cfg \in Configs
  /\ next = 1
  /\ unseen = FALSE
  /\ result = "none"

-----------------------------------------------------------------------------
(* Answers.  "rejected" is a packet for this command with an error status, *)
(* "mismatch" one for another command, "nostatus" one that is cut off      *)
(* after its RES.  The root key is refused as "already" there, so are      *)
(* certificates, or as too "old".  The others raise: an error packet or a  *)
(* read that fails (DeviceError), no answer within a second                *)
(* (TimeoutError), a write that fails (SerialException, OSError), a packet *)
(* cut off earlier (IndexError).                                           *)
Raised == {"device", "timeout", "serial", "short"}
Answer == {"ok", "already", "old", "rejected", "mismatch", "nostatus"} \cup Raised

(* The checks of an answer: its RES alone, in which `& 0x7F' drops the     *)
(* error bit, or also its status, which must not be an error.              *)
CheckRES(a) == a \in {"ok", "rejected", "nostatus"}
CheckSTS(a) == a \in {"ok", "nostatus"}

(* A command the device is able to carry out, with the states it may be in *)
(* afterwards, and the answer to it                                        *)
Command(a, able, After) ==
  /\ \/ a \in {"ok", "nostatus"} \cup Raised /\ able /\ dev' \in After
     \/ a \in Raised \cup {"rejected", "mismatch", "nostatus"} /\ UNCHANGED dev
  /\ unseen' = (unseen \/ a = "nostatus")

Goto(step) == pc' = step /\ UNCHANGED <<cfg, result>>

End(how) == pc' = "idle" /\ result' = how /\ UNCHANGED cfg

-----------------------------------------------------------------------------
(* execute, up to the device being in boot mode for the second time        *)

(* Validation, connect, connect_to_boot_mode                               *)
Boot(a) ==
  /\ pc = "boot"
  /\ IF a = "ok" THEN Goto("dlm") ELSE End("failed")
  /\ UNCHANGED <<dev, next, unseen>>

(* initialize_device: what it does depends on the life cycle state         *)
ReadDlm(a) ==
  /\ pc = "dlm"
  /\ IF a = "ok" /\ dev.dlm = "CM" THEN Goto("oem")
     ELSE IF a = "ok" /\ dev.dlm = "OEM" THEN Goto("initialize")
     ELSE End("failed")
  /\ UNCHANGED <<dev, next, unseen>>

ToOem(a) ==
  /\ pc = "oem"
  /\ Command(a, dev.dlm = "CM", {[dev EXCEPT !.dlm = "OEM"]})
  /\ IF CheckRES(a) THEN Goto("initialize") ELSE End("failed")
  /\ UNCHANGED next

(* Initialize clears flash and options and takes the device to PL2.  The   *)
(* key and the certificates may stay: the comment here says that it clears *)
(* the key index, the steps below are prepared for both.                   *)
Initialize(a) ==
  /\ pc = "initialize"
  /\ Command(a, dev.dlm = "OEM" /\ ~dev.initOff,
             {[dev EXCEPT !.pl = "PL2", !.key = k, !.firmware = {}, !.options = {},
                          !.certs = c] : k \in {FALSE, dev.key}, c \in {FALSE, dev.certs}})
  /\ IF CheckRES(a) THEN Goto("reset") ELSE End("failed")
  /\ UNCHANGED next

(* reset_callback or a prompt, then reconnect and handshake                *)
Reset(a) ==
  /\ pc = "reset"
  /\ IF a = "ok" THEN Goto("verify") ELSE End("failed")
  /\ UNCHANGED <<dev, next, unseen>>

(* States and levels are read back and logged; only a DeviceError of that  *)
(* is caught                                                               *)
Verify(a) ==
  /\ pc = "verify"
  /\ IF a \in {"timeout", "serial", "short", "nostatus"} THEN End("failed") ELSE Goto("reset2")
  /\ UNCHANGED <<dev, next, unseen>>

(* The second reset: disconnect, connect, connect_to_boot_mode             *)
ResetAgain(a) ==
  /\ pc = "reset2"
  /\ IF a = "ok" THEN Goto("pl2") ELSE End("failed")
  /\ UNCHANGED <<dev, next, unseen>>

-----------------------------------------------------------------------------
(* execute, the programming                                                *)

(* _transition_protection_level                                            *)
ToLevel(a, level) == Command(a, dev.dlm = "OEM", {[dev EXCEPT !.pl = level]})

ToPL2(a) ==
  /\ pc = "pl2"
  /\ ToLevel(a, "PL2")
  /\ IF CheckRES(a) THEN Goto("key") ELSE End("failed")
  /\ UNCHANGED next

(* program_oem_root_key: taken at PL2 and into an empty slot; if it is     *)
(* not empty (0xD3, 0xDB), the message asks for a chip erase               *)
ProgramKey(a) ==
  /\ pc = "key"
  /\ \/ Command(a, dev.dlm = "OEM" /\ dev.pl = "PL2" /\ ~dev.key, {[dev EXCEPT !.key = TRUE]})
     \/ a = "already" /\ dev.key /\ UNCHANGED <<dev, unseen>>
  /\ IF CheckSTS(a) THEN Goto("erase")
     ELSE IF a = "already" THEN End("erase_chip") ELSE End("failed")
  /\ UNCHANGED next

(* program_srec_file: the span of the file is erased ...                   *)
Erase(a) ==
  /\ pc = "erase"
  /\ Command(a, dev.dlm = "OEM", {[dev EXCEPT !.firmware = {}]})
  /\ IF CheckSTS(a) THEN Goto("write") ELSE End("failed")
  /\ next' = 1

(* The step after writing item `next' of n                                 *)
NextOf(n, this, then) ==
  IF next < n THEN next' = next + 1 /\ Goto(this) ELSE next' = 1 /\ Goto(then)

AfterFirmware == IF Records = 0 THEN "certs" ELSE "osm"

(* Mutations: a phrase that was not written is passed over, and the loop   *)
(* goes round once too often.                                              *)
Write_Unchecked(a) ==
  /\ pc = "write"
  /\ Command(a, dev.dlm = "OEM", {[dev EXCEPT !.firmware = @ \cup {next}]})
  /\ IF a \notin Raised THEN NextOf(Blocks, "write", AfterFirmware)
                        ELSE End("failed") /\ UNCHANGED next

Write_PastEnd(a) ==
  /\ pc = "write"
  /\ Command(a, dev.dlm = "OEM", {[dev EXCEPT !.firmware = @ \cup {next}]})
  /\ IF CheckSTS(a) THEN NextOf(Blocks + 1, "write", AfterFirmware)
                    ELSE End("failed") /\ UNCHANGED next

(* ... and its phrases are written one by one                              *)
Write(a) ==
  /\ pc = "write"
  /\ Command(a, dev.dlm = "OEM", {[dev EXCEPT !.firmware = @ \cup {next}]})
  /\ IF CheckSTS(a) THEN NextOf(Blocks, "write", AfterFirmware)
                    ELSE End("failed") /\ UNCHANGED next

(* program_osm_from_srec: whether a record was written is not looked at,   *)
(* and a packet that is cut off is one for another command                 *)
WriteOption(a) ==
  /\ pc = "osm"
  /\ Command(a, dev.dlm = "OEM", {[dev EXCEPT !.options = @ \cup {next}]})
  /\ IF a \in Raised \ {"short"} THEN End("failed") /\ UNCHANGED next
                                 ELSE NextOf(Records, "osm", "certs")

(* The device checks certificates against the root key and its counter     *)
Accept == [dev EXCEPT !.certs = TRUE, !.arc = IF @ < cfg.version THEN cfg.version ELSE @]

(* Mutations: the status is not looked at; and certificates that are too   *)
(* old are reported like any other failure.                                *)
ProgramCerts_RESOnly(a) ==
  /\ pc = "certs"
  /\ Command(a, dev.dlm = "OEM" /\ dev.key, {Accept})
  /\ IF CheckRES(a) THEN Goto("final") ELSE End("failed")
  /\ UNCHANGED next

ProgramCerts_NoRemedy(a) ==
  /\ pc = "certs"
  /\ \/ Command(a, dev.dlm = "OEM" /\ dev.key /\ cfg.version >= dev.arc, {Accept})
     \/ a = "already" /\ dev.certs /\ UNCHANGED <<dev, unseen>>
     \/ a = "old" /\ cfg.version <= dev.arc /\ UNCHANGED <<dev, unseen>>
  /\ IF a \in {"ok", "already"} THEN Goto("final") ELSE End("failed")
  /\ UNCHANGED next

(* program_certificates: a version below the counter is refused, one equal *)
(* to it may be.  Status 0xD3, already programmed, counts as success;      *)
(* 0xDC, too low or already there, asks for a higher version; and a packet *)
(* without a status cannot be logged and raises.                           *)
ProgramCerts(a) ==
  /\ pc = "certs"
  /\ \/ Command(a, dev.dlm = "OEM" /\ dev.key /\ cfg.version >= dev.arc, {Accept})
     \/ a = "already" /\ dev.certs /\ UNCHANGED <<dev, unseen>>
     \/ a = "old" /\ cfg.version <= dev.arc /\ UNCHANGED <<dev, unseen>>
  /\ IF a \in {"ok", "already"} THEN Goto("final")
     ELSE IF a = "old" THEN End("raise_version") ELSE End("failed")
  /\ UNCHANGED next

-----------------------------------------------------------------------------
(* execute, the final state                                                *)

(* final_state, and the operator's answer before a lock                    *)
Final ==
  /\ pc = "final"
  /\ \/ ~cfg.lock /\ Goto("pl0")
     \/ cfg.lock /\ (Goto("lockpl0") \/ Goto("declined"))
  /\ UNCHANGED <<dev, next, unseen>>

(* OEM_PL0: the transition is asked for, its result is not looked at       *)
ToPL0(a) ==
  /\ pc = "pl0"
  /\ ToLevel(a, "PL0")
  /\ IF a \in Raised THEN End("failed") ELSE Goto("step8")
  /\ UNCHANGED next

(* In the lock step all but an IndexError is caught, and the rest of the   *)
(* step skipped                                                            *)
LockStep(a, then) ==
  IF a = "short" THEN End("failed")
  ELSE IF a \in Raised \/ then = "idle" THEN End("success")
  ELSE Goto(then)

Declined(a) ==
  /\ pc = "declined"
  /\ ToLevel(a, "PL0")
  /\ LockStep(a, "idle")
  /\ UNCHANGED next

ToPL0BeforeLock(a) ==
  /\ pc = "lockpl0"
  /\ ToLevel(a, "PL0")
  /\ LockStep(a, "disable")
  /\ UNCHANGED next

(* _disable_initialize, whose result nobody looks at, but which reads the  *)
(* status and raises an IndexError if there is none                        *)
DisableCommand(a) == Command(a, dev.dlm = "OEM", {[dev EXCEPT !.initOff = TRUE]})

DisableInitialize(a) ==
  /\ pc = "disable"
  /\ DisableCommand(a)
  /\ LockStep(IF a = "nostatus" THEN "short" ELSE a, "lock")
  /\ UNCHANGED next

(* _transition_to_lck_boot                                                 *)
Lock(a) ==
  /\ pc = "lock"
  /\ Command(a, dev.dlm = "OEM", {[dev EXCEPT !.dlm = "LCK_BOOT"]})
  /\ LockStep(a, "idle")
  /\ UNCHANGED next

(* Step 8: the operator is asked only if there is no reset_callback        *)
DisableOrNot(a) ==
  /\ pc = "step8"
  /\ \/ /\ cfg.disable
        /\ DisableCommand(a)
        /\ IF a \in Raised \cup {"nostatus"} THEN End("failed") ELSE End("success")
     \/ /\ ~cfg.disable \/ ~cfg.callback
        /\ a = "ok"
        /\ UNCHANGED <<dev, unseen>>
        /\ End("success")
  /\ UNCHANGED next

-----------------------------------------------------------------------------
Prepare(a) == Boot(a) \/ ReadDlm(a) \/ ToOem(a) \/ Initialize(a) \/ Reset(a) \/ Verify(a)
              \/ ResetAgain(a)
Program(a) == ToPL2(a) \/ ProgramKey(a) \/ Erase(a) \/ Write(a) \/ WriteOption(a)
              \/ ProgramCerts(a)
Finish(a)  == ToPL0(a) \/ Declined(a) \/ ToPL0BeforeLock(a) \/ DisableInitialize(a)
              \/ Lock(a) \/ DisableOrNot(a)

Execute(a) == Prepare(a) \/ Program(a) \/ Finish(a)

(* program-device                                                          *)
Start ==
  /\ pc = "idle"
  /\ pc' = "boot"
  /\ cfg' \in Configs
  /\ result' = "none"
  /\ UNCHANGED <<dev, next, unseen>>

(* The operator interrupts the tool, or the machine goes down              *)
Abort ==
  /\ pc # "idle"
  /\ End("failed")
  /\ UNCHANGED <<dev, next, unseen>>

(* chip-erase, between two attempts, when it succeeds: the key and the     *)
(* counter are cleared, too                                                *)
ChipErase ==
  /\ pc = "idle"
  /\ dev' = Virgin
  /\ unseen' = FALSE
  /\ result' = "none"
  /\ UNCHANGED <<pc, cfg, next>>

Next == (\E a \in Answer : Execute(a)) \/ Final \/ Start \/ Abort \/ ChipErase

Spec == Init /\ [][Next]_vars

(* From some moment on the board carries out what it is able to and says   *)
(* truly why not, nobody interrupts the tool, and the operator tries again *)
(* as the messages tell him: he erases the chip when the root key is       *)
(* refused, takes a higher version when the certificates are, and never a  *)
(* lower one.  Nothing the code promises, and the premise of RetrySucceeds.*)
Honest == Execute("ok") \/ ProgramKey("already") \/ ProgramCerts("already") \/ ProgramCerts("old")

Retry ==
  /\ result # "erase_chip"
  /\ Start
  /\ cfg'.version >= cfg.version
  /\ result = "raise_version" => cfg'.version > cfg.version

Cooperative ==
  \/ Retry
  \/ result = "erase_chip" /\ ChipErase
  \/ Final
  \/ Honest
  \/ ~ENABLED Honest /\ \E a \in Answer : Execute(a)

Cooperation == <>[][Cooperative]_vars /\ WF_vars(Cooperative)

CooperativeSpec == Spec /\ Cooperation

-----------------------------------------------------------------------------
(* Properties.                                                             *)

TypeOK ==
  /\ dev \in Device
  /\ pc \in Step \cup {"idle"}
  /\ cfg \in Configs
  /\ next \in 1 .. Blocks + Records
  /\ unseen \in BOOLEAN
  /\ result \in {"none", "failed", "erase_chip", "raise_version", "success"}

Complete == dev.key /\ dev.firmware = 1 .. Blocks /\ dev.certs

(* A board that can no longer be initialized, because that was disabled or *)
(* because it is locked, carries the root key, the whole firmware and      *)
(* certificates - after any number of attempts, failed or run on a board   *)
(* that is already provisioned, and although a rejected Initialize is      *)
(* taken for a success.  Only a packet without a status, which the root    *)
(* key step, erase and write accept, can spoil it.                         *)
IrreversibleIsComplete == dev.initOff \/ dev.dlm = "LCK_BOOT" => Complete \/ unseen

(* When execute returns True the board has everything but possibly its     *)
(* options: no lost, late or rejected answer is mistaken for a success in  *)
(* the programming steps, with the same exception.                         *)
SuccessIsProgrammed == result = "success" => Complete \/ unseen

(* Whatever step attempts failed at, lost answers included, the remedies   *)
(* the messages name lead to a success: a board that kept its root key is  *)
(* usable after a chip erase, one that kept certificates after a higher    *)
(* version - unless Initialize was disabled, the board is locked, or its   *)
(* counter has reached the highest version.                                *)
RetrySucceeds ==
  []<>(result = "success" \/ dev.initOff \/ dev.dlm = "LCK_BOOT" \/ dev.arc = MaxVersion)

(* program_device prints "Device state: LCK_BOOT (locked, irreversible)"   *)
(* or "Device state: OEM_PL0" after a success, and so it is.               *)
ReportedState ==
  result = "success" => IF cfg.lock THEN dev.dlm = "LCK_BOOT" ELSE dev.pl = "PL0"
=============================================================================
