----------------------------- MODULE BoardProofs -----------------------------
(***************************************************************************)
(* What any number of attempts leaves on a board, for every size of the    *)
(* firmware and every way the workflow is called; and, in the second half, *)
(* that the image signed for it is accepted, for every application, key    *)
(* and length of a signature, that flash and options are the combined      *)
(* file, and that the board boots from them.                               *)
(*                                                                         *)
(* The two properties of the attempts are not inductive: that a board with *)
(* Initialize disabled is never erased follows from what the root key step *)
(* has found, an empty slot, and that all phrases are there from how far   *)
(* the loop of writes has come.  Progress says, step by step, what an      *)
(* attempt has established on the board; all of it is lost once a packet   *)
(* without a status was taken for a success.                               *)
(***************************************************************************)
EXTENDS DeviceProvisioning, FirmwareImage, FiniteSetTheorems, SequenceTheorems,
        WellFoundedInduction, TLAPS


Closing == {"final", "pl0", "lockpl0", "declined", "disable", "lock", "step8"}

(* The loops stay within the file, and a result is there when an attempt   *)
(* is over                                                                 *)
Control ==
  /\ pc # "idle" => result = "none"
  /\ pc = "write" => next <= Blocks
  /\ pc = "osm" => next <= Records

(* What the attempt under way has established on the board                 *)
Progress ==
  /\ pc \in {"erase", "write", "osm", "certs"} \cup Closing => dev.key
  /\ pc \in {"erase", "write", "osm", "certs"} => dev.dlm = "OEM" /\ ~dev.initOff
  /\ pc = "write" => 1 .. (next - 1) \subseteq dev.firmware
  /\ pc \in {"osm", "certs"} \cup Closing => dev.firmware = 1 .. Blocks
  /\ pc \in Closing => dev.certs

(* Progress and the two properties                                         *)
Content ==
  /\ Progress
  /\ dev.initOff \/ dev.dlm = "LCK_BOOT" => Complete
  /\ result = "success" => Complete

Inv == TypeOK /\ Control /\ (unseen \/ Content)

-----------------------------------------------------------------------------
(* The initial state: nothing is programmed and nothing claimed.           *)
LEMMA InitInv == Init => Inv
<1> SUFFICES ASSUME Init PROVE Inv
  OBVIOUS
<1>1. TypeOK
  <2>1. dev \in Device
    BY ProvisioningAssumption DEF Init, Virgin, Device
  <2>2. unseen \in BOOLEAN
    BY DEF Init
  <2>3. 1 \in 1 .. Blocks + Records
    BY ProvisioningAssumption
  <2> QED
    BY <2>1, <2>2, <2>3 DEF Init, TypeOK
<1>2. Control /\ Content
  BY DEF Init, Virgin, Control, Content, Progress, Closing
<1> QED
  BY <1>1, <1>2 DEF Inv

(* An answer leaves open whether a command was carried out, but every      *)
(* command keeps account of those without a status.                        *)
LEMMA PrepareInv ==
  ASSUME Inv, NEW a \in Answer, Prepare(a)
  PROVE  Inv'
<1>1. CASE Boot(a) \/ ReadDlm(a) \/ Reset(a) \/ Verify(a) \/ ResetAgain(a)
  <2>1. UNCHANGED <<dev, next, unseen, cfg>>
    BY <1>1 DEF Boot, ReadDlm, Reset, Verify, ResetAgain, Goto, End
  <2>2. /\ pc \in Step
        /\ \/ pc' = "idle" /\ result' = "failed"
           \/ /\ pc' \in {"dlm", "oem", "initialize", "verify", "reset2", "pl2"}
              /\ result' = result
    BY <1>1 DEF Boot, ReadDlm, Reset, Verify, ResetAgain, Goto, End, Step
  <2>3. result' # "success"
    BY <2>2 DEF Inv, Control, Step
  <2> QED
    BY <2>1, <2>2, <2>3 DEF Inv, TypeOK, Control, Content, Progress, Closing, Complete, Step
<1>2. CASE ToOem(a)
  <2>1. \/ dev' = dev
        \/ dev.dlm = "CM" /\ dev' = [dev EXCEPT !.dlm = "OEM"]
    BY <1>2 DEF ToOem, Command
  <2>2. /\ dev' \in Device /\ dev'.initOff = dev.initOff /\ dev'.key = dev.key
        /\ dev'.firmware = dev.firmware /\ dev'.certs = dev.certs
        /\ (dev'.dlm = "LCK_BOOT" <=> dev.dlm = "LCK_BOOT")
    BY <2>1 DEF Inv, TypeOK, Device
  <2>3. unseen' \in BOOLEAN /\ (~unseen' => ~unseen)
    BY <1>2 DEF Inv, TypeOK, ToOem, Command
  <2>4. /\ UNCHANGED <<cfg, next>> /\ result' # "success"
        /\ \/ pc' = "idle" /\ result' = "failed"
           \/ pc' = "initialize" /\ result' = "none"
    BY <1>2 DEF Inv, Control, ToOem, Goto, End
  <2> QED
    BY <2>2, <2>3, <2>4 DEF Inv, TypeOK, Control, Content, Progress, Closing, Complete, Step
<1>3. CASE Initialize(a)
  <2>1. \/ dev' = dev
        \/ /\ dev.dlm = "OEM" /\ ~dev.initOff
           /\ \E k \in {FALSE, dev.key}, c \in {FALSE, dev.certs} :
                dev' = [dev EXCEPT !.pl = "PL2", !.key = k, !.firmware = {}, !.options = {},
                                   !.certs = c]
    BY <1>3 DEF Initialize, Command
  <2>2. dev' \in Device /\ (dev' = dev \/ (~dev'.initOff /\ dev'.dlm = "OEM"))
    BY <2>1 DEF Inv, TypeOK, Device
  <2>3. unseen' \in BOOLEAN /\ (~unseen' => ~unseen)
    BY <1>3 DEF Inv, TypeOK, Initialize, Command
  <2>4. /\ UNCHANGED <<cfg, next>> /\ result' # "success"
        /\ \/ pc' = "idle" /\ result' = "failed"
           \/ pc' = "reset" /\ result' = "none"
    BY <1>3 DEF Inv, Control, Initialize, Goto, End
  <2> QED
    BY <2>2, <2>3, <2>4 DEF Inv, TypeOK, Control, Content, Progress, Closing, Complete, Step
<1> QED
  BY <1>1, <1>2, <1>3 DEF Prepare

(* The programming steps.  A root key goes into an empty slot only, which  *)
(* no board has that is past Initialize; each of them only adds to what    *)
(* the board holds, but for the erasing before the first phrase.           *)
LEMMA ProgramInv ==
  ASSUME Inv, NEW a \in Answer, Program(a)
  PROVE  Inv'
<1>0. /\ unseen' \in BOOLEAN /\ (~unseen' => ~unseen /\ a # "nostatus")
      /\ pc # "idle" /\ result = "none" /\ cfg' \in Configs
  BY DEF Inv, TypeOK, Control, Program, ToPL2, ToLevel, ProgramKey, Erase, Write, WriteOption,
         ProgramCerts, Command, NextOf, Goto, End
<1>1. CASE ToPL2(a)
  <2>1. dev' = dev \/ dev' = [dev EXCEPT !.pl = "PL2"]
    BY <1>1 DEF ToPL2, ToLevel, Command
  <2>2. /\ dev' \in Device /\ dev'.initOff = dev.initOff /\ dev'.dlm = dev.dlm
        /\ dev'.key = dev.key /\ dev'.firmware = dev.firmware /\ dev'.certs = dev.certs
    BY <2>1 DEF Inv, TypeOK, Device
  <2>3. /\ next' = next
        /\ \/ pc' = "idle" /\ result' = "failed"
           \/ pc' = "key" /\ result' = "none"
    BY <1>0, <1>1 DEF ToPL2, Goto, End
  <2> QED
    BY <1>0, <2>2, <2>3 DEF Inv, TypeOK, Control, Content, Progress, Closing, Complete, Step
<1>2. CASE ProgramKey(a)
  <2>1. /\ dev' = dev \/ (dev.dlm = "OEM" /\ ~dev.key /\ dev' = [dev EXCEPT !.key = TRUE])
        /\ a = "ok" => dev.dlm = "OEM" /\ ~dev.key /\ dev' = [dev EXCEPT !.key = TRUE]
    BY <1>2 DEF ProgramKey, Command, Raised
  <2>2. Content /\ ~dev.key => ~dev.initOff /\ dev.dlm # "LCK_BOOT"
    BY DEF Content, Complete
  <2>3. /\ dev' \in Device
        /\ Content => dev' = dev \/ (~dev'.initOff /\ dev'.dlm = "OEM")
        /\ Content /\ a = "ok" => dev'.key /\ dev'.dlm = "OEM" /\ ~dev'.initOff
    BY <2>1, <2>2 DEF Inv, TypeOK, Device
  <2>4. /\ next' = next
        /\ \/ pc' = "idle" /\ result' = "failed"
           \/ pc' = "idle" /\ result' = "erase_chip"
           \/ pc' = "erase" /\ result' = "none" /\ a \in {"ok", "nostatus"}
    BY <1>0, <1>2 DEF ProgramKey, CheckSTS, Goto, End
  <2>5. ~unseen' => Content /\ (pc' = "erase" => a = "ok")
    BY <1>0, <2>4 DEF Inv
  <2>6. ~unseen' => Content'
    BY <2>3, <2>4, <2>5 DEF Content, Progress, Closing, Complete
  <2> QED
    BY <1>0, <2>3, <2>4, <2>6 DEF Inv, TypeOK, Control, Step
<1>3. CASE Erase(a)
  <2>1. dev' = dev \/ dev' = [dev EXCEPT !.firmware = {}]
    BY <1>3 DEF Erase, Command
  <2>2. /\ dev' \in Device /\ dev'.initOff = dev.initOff /\ dev'.dlm = dev.dlm
        /\ dev'.key = dev.key
    BY <2>1 DEF Inv, TypeOK, Device
  <2>3. ~unseen' => ~dev'.initOff /\ dev'.dlm = "OEM" /\ dev'.key
    BY <1>0, <1>3, <2>2 DEF Inv, Content, Progress, Erase
  <2>4. next' = 1 /\ 1 <= Blocks /\ 1 .. (next' - 1) = {} /\ next' \in 1 .. Blocks + Records
    BY <1>3, ProvisioningAssumption DEF Erase
  <2>5. \/ pc' = "idle" /\ result' = "failed"
        \/ pc' = "write" /\ result' = "none"
    BY <1>0, <1>3 DEF Erase, Goto, End
  <2>6. ~unseen' => Content'
    BY <2>3, <2>4, <2>5 DEF Content, Progress, Closing
  <2> QED
    BY <1>0, <2>2, <2>4, <2>5, <2>6 DEF Inv, TypeOK, Control, Step
<1>4. CASE Write(a)
  <2>1. /\ dev' = dev \/ dev' = [dev EXCEPT !.firmware = @ \cup {next}]
        /\ a = "ok" => dev' = [dev EXCEPT !.firmware = @ \cup {next}]
    BY <1>4 DEF Write, Command, Raised
  <2>2. next \in 1 .. Blocks
    BY <1>4 DEF Inv, TypeOK, Control, Write
  <2>3. /\ dev' \in Device /\ dev'.initOff = dev.initOff /\ dev'.dlm = dev.dlm
        /\ dev'.key = dev.key
        /\ a = "ok" => dev'.firmware = dev.firmware \cup {next}
    BY <2>1, <2>2 DEF Inv, TypeOK, Device
  <2>4. ~unseen' => /\ ~dev'.initOff /\ dev'.dlm = "OEM" /\ dev'.key
                    /\ 1 .. (next - 1) \subseteq dev.firmware
    BY <1>0, <1>4, <2>3 DEF Inv, Content, Progress, Write
  <2>5. CASE ~CheckSTS(a)
    <3>1. pc' = "idle" /\ result' = "failed" /\ next' = next
      BY <1>4, <2>5 DEF Write, End
    <3>2. ~unseen' => Content'
      BY <2>4, <3>1 DEF Content, Progress, Closing
    <3> QED
      BY <1>0, <2>3, <3>1, <3>2 DEF Inv, TypeOK, Control, Step
  <2>6. CASE CheckSTS(a) /\ next < Blocks
    <3>1. pc' = "write" /\ result' = "none" /\ next' = next + 1
      BY <1>0, <1>4, <2>6 DEF Write, NextOf, Goto
    <3>2. next' <= Blocks /\ next' \in 1 .. Blocks + Records
      BY <2>2, <2>6, <3>1, ProvisioningAssumption
    <3>3. ~unseen' => 1 .. (next' - 1) \subseteq dev'.firmware
      BY <1>0, <2>2, <2>3, <2>4, <2>6, <3>1 DEF CheckSTS
    <3>4. ~unseen' => Content'
      BY <2>4, <3>1, <3>3 DEF Content, Progress, Closing
    <3> QED
      BY <1>0, <2>3, <3>1, <3>2, <3>4 DEF Inv, TypeOK, Control, Step
  <2>7. CASE CheckSTS(a) /\ ~(next < Blocks)
    <3>1. pc' = AfterFirmware /\ result' = "none" /\ next' = 1
      BY <1>0, <1>4, <2>7 DEF Write, NextOf, Goto
    <3>2. /\ pc' \in {"osm", "certs"} /\ (pc' = "osm" => next' <= Records)
          /\ next' \in 1 .. Blocks + Records
      BY <3>1, ProvisioningAssumption DEF AfterFirmware
    <3>3. ~unseen' => dev'.firmware = 1 .. Blocks
      <4>1. next = Blocks
        BY <2>2, <2>7, ProvisioningAssumption
      <4>2. dev'.firmware \subseteq 1 .. Blocks
        BY <2>3 DEF Device
      <4>3. ~unseen' => 1 .. Blocks \subseteq dev'.firmware
        BY <1>0, <2>2, <2>3, <2>4, <2>7, <4>1 DEF CheckSTS
      <4> QED
        BY <4>2, <4>3
    <3>4. ~unseen' => Content'
      BY <2>4, <3>1, <3>2, <3>3 DEF Content, Progress, Closing
    <3> QED
      BY <1>0, <2>3, <3>1, <3>2, <3>4 DEF Inv, TypeOK, Control, Step
  <2> QED
    BY <2>5, <2>6, <2>7
<1>5. CASE WriteOption(a)
  <2>1. dev' = dev \/ dev' = [dev EXCEPT !.options = @ \cup {next}]
    BY <1>5 DEF WriteOption, Command
  <2>2. next \in 1 .. Records
    BY <1>5 DEF Inv, TypeOK, Control, WriteOption
  <2>3. /\ dev' \in Device /\ dev'.initOff = dev.initOff /\ dev'.dlm = dev.dlm
        /\ dev'.key = dev.key /\ dev'.firmware = dev.firmware
    BY <2>1, <2>2 DEF Inv, TypeOK, Device
  <2>4. /\ \/ pc' = "idle" /\ result' = "failed"
           \/ pc' \in {"osm", "certs"} /\ result' = "none"
        /\ next' \in 1 .. Blocks + Records /\ (pc' = "osm" => next' <= Records)
    BY <1>0, <1>5, <2>2, ProvisioningAssumption DEF WriteOption, NextOf, Goto, End
  <2>5. ~unseen' => Content'
    BY <1>0, <1>5, <2>3, <2>4 DEF Inv, WriteOption, Content, Progress, Closing
  <2> QED
    BY <1>0, <2>3, <2>4, <2>5 DEF Inv, TypeOK, Control, Step
<1>6. CASE ProgramCerts(a)
  <2>1. /\ dev' = dev \/ dev' = Accept
        /\ a = "ok" => dev' = Accept
        /\ a = "already" => dev.certs /\ dev' = dev
    BY <1>6 DEF ProgramCerts, Command, Raised
  <2>5. cfg.version \in 0 .. MaxVersion
    BY ProvisioningAssumption DEF Inv, TypeOK, Config
  <2>2. /\ dev' \in Device /\ dev'.initOff = dev.initOff /\ dev'.dlm = dev.dlm
        /\ dev'.key = dev.key /\ dev'.firmware = dev.firmware
        /\ a \in {"ok", "already"} => dev'.certs
    BY <2>1, <2>5 DEF Inv, TypeOK, Device, Accept
  <2>3. /\ next' = next
        /\ \/ pc' = "idle" /\ result' = "failed"
           \/ pc' = "idle" /\ result' = "raise_version"
           \/ pc' = "final" /\ result' = "none" /\ a \in {"ok", "already"}
    BY <1>0, <1>6 DEF ProgramCerts, Goto, End
  <2>4. ~unseen' => Content'
    BY <1>0, <1>6, <2>2, <2>3 DEF Inv, ProgramCerts, Content, Progress, Closing
  <2> QED
    BY <1>0, <2>2, <2>3, <2>4 DEF Inv, TypeOK, Control, Step
<1> QED
  BY <1>1, <1>2, <1>3, <1>4, <1>5, <1>6 DEF Program

(* The final steps only change the level, or run on a board that has       *)
(* everything: these are the ones that make it irreversible.               *)
LEMMA FinishInv ==
  ASSUME Inv, NEW a \in Answer, Finish(a)
  PROVE  Inv'
<1>0. unseen' \in BOOLEAN /\ (~unseen' => ~unseen)
  BY DEF Inv, TypeOK, Finish, ToPL0, Declined, ToPL0BeforeLock, DisableInitialize, Lock,
         DisableOrNot, DisableCommand, ToLevel, Command
<1>1. pc \in Closing /\ result = "none"
  BY DEF Inv, Control, Finish, Closing, ToPL0, Declined, ToPL0BeforeLock, DisableInitialize,
         Lock, DisableOrNot
<1>2. \/ dev' = dev
      \/ \E level \in {"PL0", "PL2"} : dev' = [dev EXCEPT !.pl = level]
      \/ dev' = [dev EXCEPT !.initOff = TRUE]
      \/ dev' = [dev EXCEPT !.dlm = "LCK_BOOT"]
  BY DEF Finish, ToPL0, Declined, ToPL0BeforeLock, DisableInitialize, Lock, DisableOrNot,
         DisableCommand, ToLevel, Command
<1>3. /\ dev' \in Device /\ dev'.key = dev.key /\ dev'.firmware = dev.firmware
      /\ dev'.certs = dev.certs
  BY <1>2 DEF Inv, TypeOK, Device
<1>4. /\ UNCHANGED <<next, cfg>>
      /\ \/ pc' = "idle" /\ result' \in {"failed", "success"}
         \/ pc' \in Closing /\ result' = result
  BY DEF Finish, ToPL0, Declined, ToPL0BeforeLock, DisableInitialize, Lock, DisableOrNot,
         LockStep, Goto, End, Closing
<1>5. TypeOK'
  BY <1>0, <1>1, <1>3, <1>4 DEF Inv, TypeOK, Closing, Step
<1>6. ~unseen' => dev'.key /\ dev'.firmware = 1 .. Blocks /\ dev'.certs
  BY <1>0, <1>1, <1>3 DEF Inv, Content, Progress
<1>7. ~unseen' => Content'
  BY <1>4, <1>6 DEF Content, Progress, Closing, Complete
<1>8. Control'
  BY <1>1, <1>4 DEF Control, Closing
<1> QED
  BY <1>5, <1>7, <1>8 DEF Inv

(* The operator: chip-erase makes the board new, and nothing else is done  *)
(* to it between two attempts.                                             *)
LEMMA OperatorInv ==
  ASSUME Inv, Final \/ Start \/ Abort \/ ChipErase
  PROVE  Inv'
<1>1. CASE Final
  BY <1>1 DEF Final, Goto, Inv, TypeOK, Control, Content, Progress, Closing, Complete, Step
<1>2. CASE Start
  BY <1>2 DEF Start, Inv, TypeOK, Control, Content, Progress, Closing, Complete, Step
<1>3. CASE Abort
  BY <1>3 DEF Abort, End, Inv, TypeOK, Control, Content, Progress, Closing, Complete, Step
<1>4. CASE ChipErase
  <2>1. dev' \in Device /\ ~dev'.initOff /\ dev'.dlm # "LCK_BOOT"
    BY <1>4, ProvisioningAssumption DEF ChipErase, Virgin, Device
  <2>2. pc' = "idle" /\ result' = "none" /\ unseen' \in BOOLEAN /\ UNCHANGED <<cfg, next>>
    BY <1>4 DEF ChipErase
  <2> QED
    BY <2>1, <2>2 DEF Inv, TypeOK, Control, Content, Progress, Closing, Step
<1> QED
  BY <1>1, <1>2, <1>3, <1>4

(* One step per kind of action.                                            *)
LEMMA StepInv == Inv /\ [Next]_vars => Inv'
<1> SUFFICES ASSUME Inv, [Next]_vars PROVE Inv'
  OBVIOUS
<1>1. CASE UNCHANGED vars
  BY <1>1 DEF vars, Inv, TypeOK, Control, Content, Progress, Complete
<1>2. ASSUME NEW a \in Answer, Execute(a) PROVE Inv'
  BY <1>2, PrepareInv, ProgramInv, FinishInv DEF Execute
<1> QED
  BY <1>1, <1>2, OperatorInv DEF Next

(* Inv holds throughout, for any firmware and any use of the workflow.     *)
THEOREM InvHolds == Spec => []Inv
BY InitInv, StepInv, PTL DEF Spec

(* Every reachable state is well typed: no step leaves the device in a     *)
(* combination of states or with items the file does not have.             *)
THEOREM ProvisioningTypeCorrect == Spec => []TypeOK
<1>1. Inv => TypeOK
  BY DEF Inv
<1> QED
  BY <1>1, InvHolds, PTL

(* A board is locked, or cut off from Initialize, only when it carries the *)
(* root key, the whole firmware and certificates, whatever attempts before *)
(* failed and wherever, unless a packet without a status was accepted.     *)
THEOREM IrreversibleIsCompleteHolds == Spec => []IrreversibleIsComplete
<1>1. Inv => IrreversibleIsComplete
  BY DEF Inv, Content, IrreversibleIsComplete
<1> QED
  BY <1>1, InvHolds, PTL

(* After an attempt that returned True the board carries all of that, with *)
(* the same exception.                                                     *)
THEOREM SuccessIsProgrammedHolds == Spec => []SuccessIsProgrammed
<1>1. Inv => SuccessIsProgrammed
  BY DEF Inv, Content, SuccessIsProgrammed
<1> QED
  BY <1>1, InvHolds, PTL

-----------------------------------------------------------------------------
(***************************************************************************)
(* The signed image.  The scans of an image are recursive functions on     *)
(* positions: they exist since each goes upwards and stops behind the      *)
(* image, which is shown from the least element of a set of numbers.  At   *)
(* says which bytes stand where in an image, and Layout collects what of   *)
(* it stays true from imgtool sign to the exchange of the signature: the   *)
(* header, the info header, the three entries and what comes behind them.  *)
(***************************************************************************)
LEMMA LeastOfSet ==
  ASSUME NEW S \in SUBSET Nat, S # {}
  PROVE  \E n \in S : \A m \in S : n <= m
<1> DEFINE R == OpToRel(<, Nat)
<1>1. \A m, n \in Nat : m < n => <<m, n>> \in R
  BY DEF OpToRel
<1>2. IsWellFoundedOn(R, Nat)
  BY NatLessThanWellFounded
<1> HIDE DEF R
<1>3. PICK n \in S : \A m \in S : ~ (<<m, n>> \in R)
  BY <1>2, WFMin
<1>4. ASSUME NEW m \in S
      PROVE  n <= m
  <2>1. ~ (m < n)
    BY <1>1, <1>3
  <2>2. m \in Nat /\ n \in Nat
    OBVIOUS
  <2>3. QED
    BY <2>1, <2>2
<1>5. QED
  BY <1>4

LEMMA Induction ==
  ASSUME NEW S \in SUBSET Nat, 0 \in S, \A n \in Nat : n \in S => n + 1 \in S
  PROVE  S = Nat
<1> SUFFICES ASSUME Nat \ S # {} PROVE FALSE
  OBVIOUS
<1>1. PICK n \in Nat \ S : \A m \in Nat \ S : n <= m
  BY LeastOfSet
<1>2. n # 0 /\ n - 1 \in Nat
  BY <1>1
<1>3. n - 1 \in S
  BY <1>1, <1>2
<1>4. QED
  BY <1>1, <1>2, <1>3

-----------------------------------------------------------------------------
(* A scan over numbers: it stops in Stop, otherwise it goes on from p with *)
(* nxt[p], and G makes its value from p and the value there.               *)
ScanOf(f, Stop, base, nxt, G) ==
  \A p \in Nat : f[p] = IF p \in Stop THEN base[p] ELSE G[<<p, f[nxt[p]]>>]

Upward(Stop, nxt, l) == \A p \in Nat : p \notin Stop => p <= l /\ nxt[p] \in Nat /\ nxt[p] > p

Makes(G, V) == \A p \in Nat, v \in V : G[<<p, v>>] \in V

(* One that goes upwards and stops above l is a function.                  *)
LEMMA Scanned ==
  ASSUME NEW l \in Nat, NEW V, NEW Stop, NEW base \in [Nat -> V], NEW nxt, NEW G,
         Upward(Stop, nxt, l), Makes(G, V)
  PROVE  \E f \in [Nat -> V] : ScanOf(f, Stop, base, nxt, G)
<1> USE DEF Upward, Makes
<1> DEFINE At0(f, p) == IF p \in Stop THEN base[p] ELSE G[<<p, f[nxt[p]]>>]
           Above(m) == {f \in [Nat -> V] : \A p \in Nat : p + m > l => f[p] = At0(f, p)}
           S == {m \in Nat : Above(m) # {}}
<1>1. 0 \in S
  <2>1. base \in Above(0)
    OBVIOUS
  <2>2. QED
    BY <2>1
<1>2. ASSUME NEW m \in Nat, m \in S
      PROVE  m + 1 \in S
  <2>1. PICK f \in Above(m) : TRUE
    BY <1>2
  <2>2. f \in [Nat -> V] /\ \A p \in Nat : p + m > l => f[p] = At0(f, p)
    BY <2>1
  <2>3. CASE l < m
    <3>1. f \in Above(m + 1)
      <4>1. \A p \in Nat : p + m > l
        BY <2>3
      <4>2. QED
        BY <4>1, <2>2
    <3>2. QED
      BY <3>1
  <2>4. CASE m <= l
    <3> DEFINE q == l - m
               g == [p \in Nat |-> IF p = q THEN At0(f, q) ELSE f[p]]
    <3>1. q \in Nat /\ \A p \in Nat : p + (m + 1) > l => p = q \/ p + m > l
      BY <2>4
    <3>2. At0(f, q) \in V
      <4>1. CASE q \in Stop
        BY <3>1, <4>1
      <4>2. CASE q \notin Stop
        <5>1. f[nxt[q]] \in V
          BY <4>2, <3>1, <2>2
        <5>2. QED
          BY <5>1, <4>2, <3>1
      <4>3. QED
        BY <4>1, <4>2
    <3>3. g \in [Nat -> V]
      BY <3>2, <2>2
    <3>4. ASSUME NEW p \in Nat, p >= q
          PROVE  At0(g, p) = At0(f, p)
      <4>1. CASE p \in Stop
        BY <4>1
      <4>2. CASE p \notin Stop
        <5>1. nxt[p] \in Nat /\ nxt[p] > p
          BY <4>2
        <5>2. nxt[p] # q
          BY <5>1, <3>4, <3>1
        <5>3. g[nxt[p]] = f[nxt[p]]
          BY <5>1, <5>2
        <5>4. QED
          BY <5>3, <4>2
      <4>3. QED
        BY <4>1, <4>2
    <3>5. ASSUME NEW p \in Nat, p + (m + 1) > l
          PROVE  g[p] = At0(g, p)
      <4>1. p >= q
        BY <3>5
      <4>2. At0(g, p) = At0(f, p)
        BY <4>1, <3>4
      <4>3. g[p] = At0(f, p)
        <5>1. CASE p = q
          BY <5>1, <3>1
        <5>2. CASE p # q
          <6>1. p + m > l
            BY <5>2, <3>1, <3>5
          <6>2. f[p] = At0(f, p)
            BY <6>1, <2>2
          <6>3. g[p] = f[p]
            BY <5>2
          <6>4. QED
            BY <6>2, <6>3
        <5>3. QED
          BY <5>1, <5>2
      <4>4. QED
        BY <4>2, <4>3
    <3> HIDE DEF g, q
    <3>6. g \in Above(m + 1)
      BY <3>3, <3>5
    <3>7. QED
      BY <3>6
  <2>5. QED
    BY <2>3, <2>4
<1> HIDE DEF S
<1>3. S = Nat
  BY <1>1, <1>2, Induction DEF S
<1>4. l + 1 \in S
  BY <1>3
<1>5. PICK f \in Above(l + 1) : TRUE
  BY <1>4 DEF S
<1>6. f \in [Nat -> V] /\ \A p \in Nat : f[p] = At0(f, p)
  BY <1>5
<1>7. QED
  BY <1>6 DEF ScanOf

(* A function that is defined by recursion from 0 to n exists.             *)
IterationOf(f, n, base, G) ==
  \A i \in 0..n : f[i] = IF i = 0 THEN base ELSE G[<<i, f[i - 1]>>]

MakesUpTo(n, G, V) == \A i \in 1..n, v \in V : G[<<i, v>>] \in V

LEMMA Iterated ==
  ASSUME NEW n \in Nat, NEW V, NEW base \in V, NEW G,
         MakesUpTo(n, G, V)
  PROVE  \E f \in [0..n -> V] : IterationOf(f, n, base, G)
<1> DEFINE Fn(m) == {f \in [0..m -> V] :
              \A i \in 0..m : f[i] = IF i = 0 THEN base ELSE G[<<i, f[i - 1]>>]}
           S == {m \in Nat : m <= n => Fn(m) # {}}
<1>1. 0 \in S
  <2>1. [i \in 0..0 |-> base] \in Fn(0)
    OBVIOUS
  <2>2. QED
    BY <2>1
<1>2. ASSUME NEW m \in Nat, m \in S
      PROVE  m + 1 \in S
  <2> SUFFICES ASSUME m + 1 <= n PROVE Fn(m + 1) # {}
    OBVIOUS
  <2>1. PICK f \in Fn(m) : TRUE
    BY <1>2
  <2> DEFINE g == [i \in 0..m + 1 |-> IF i = m + 1 THEN G[<<i, f[m]>>] ELSE f[i]]
  <2>2. f \in [0..m -> V] /\ \A i \in 0..m : f[i] = IF i = 0 THEN base ELSE G[<<i, f[i - 1]>>]
    BY <2>1
  <2>3. m + 1 \in 1..n /\ f[m] \in V /\ m + 1 # 0 /\ G[<<m + 1, f[m]>>] \in V
    BY <2>2 DEF MakesUpTo
  <2>4. g \in [0..m + 1 -> V]
    <3> SUFFICES ASSUME NEW i \in 0..m + 1 PROVE g[i] \in V
      OBVIOUS
    <3>1. i = m + 1 \/ i \in 0..m
      OBVIOUS
    <3>2. QED
      BY <3>1, <2>2, <2>3
  <2>5. ASSUME NEW i \in 0..m + 1
        PROVE  g[i] = IF i = 0 THEN base ELSE G[<<i, g[i - 1]>>]
    <3>1. CASE i = m + 1
      <4>1. i - 1 = m /\ m \in 0..m + 1 /\ m # m + 1
        BY <3>1
      <4>2. g[m] = f[m]
        BY <4>1
      <4>3. QED
        BY <3>1, <4>1, <4>2, <2>3
    <3>2. CASE i # m + 1
      <4>1. i \in 0..m /\ (i # 0 => i - 1 \in 0..m)
        BY <3>2
      <4>2. g[i] = f[i] /\ (i # 0 => g[i - 1] = f[i - 1])
        BY <4>1
      <4>3. QED
        BY <4>1, <4>2, <2>2
    <3>3. QED
      BY <3>1, <3>2
  <2> HIDE DEF g
  <2>6. g \in Fn(m + 1)
    BY <2>4, <2>5
  <2>7. QED
    BY <2>6
<1> HIDE DEF S
<1>3. S = Nat
  BY <1>1, <1>2, Induction DEF S
<1>4. n \in S
  BY <1>3
<1>5. n <= n
  OBVIOUS
<1>6. Fn(n) # {}
  BY <1>4, <1>5 DEF S
<1>7. PICK f \in Fn(n) : TRUE
  BY <1>6
<1>8. f \in [0..n -> V] /\ \A i \in 0..n : f[i] = IF i = 0 THEN base ELSE G[<<i, f[i - 1]>>]
  BY <1>7
<1>9. f \in [0..n -> V] /\ IterationOf(f, n, base, G)
  BY <1>8 DEF IterationOf
<1>10. QED
  BY <1>9

-----------------------------------------------------------------------------
(* s stands in b from p on.                                                *)
At(b, p, s) == p + Len(s) - 1 <= Len(b) /\ \A i \in 1..Len(s) : b[p + i - 1] = s[i]

Bytes == Seq(Nat)

LEMMA LenIs == \A s \in Bytes : Len(s) \in Nat
BY DEF Bytes

LEMMA ConcatIs ==
  ASSUME NEW s \in Bytes, NEW t \in Bytes
  PROVE  s \o t \in Bytes /\ Len(s \o t) = Len(s) + Len(t)
BY ConcatProperties DEF Bytes

LEMMA SubSeqIs ==
  ASSUME NEW b \in Bytes, NEW p \in Nat \ {0}, NEW q \in Nat, q <= Len(b), p <= q + 1
  PROVE  /\ SubSeq(b, p, q) \in Bytes /\ Len(SubSeq(b, p, q)) = q - p + 1
         /\ \A i \in 1..q - p + 1 : SubSeq(b, p, q)[i] = b[p + i - 1]
<1>1. PICK l \in Nat : l = Len(b)
  BY DEF Bytes
<1>2. \A i \in 1..l : b[i] \in Nat
  BY <1>1 DEF Bytes
<1>3. \A i \in p..q : b[i] \in Nat
  BY <1>1, <1>2
<1>4. p \in Int /\ q \in Int
  OBVIOUS
<1> DEFINE r == SubSeq(b, p, q)
<1>5. /\ r \in Seq(Nat) /\ Len(r) = IF p <= q THEN q - p + 1 ELSE 0
      /\ \A i \in 1..q - p + 1 : r[i] = b[p + i - 1]
  BY <1>3, <1>4, SubSeqProperties
<1> HIDE DEF r
<1>6. (IF p <= q THEN q - p + 1 ELSE 0) = q - p + 1
  OBVIOUS
<1>7. QED
  BY <1>5, <1>6 DEF r, Bytes

LEMMA AtConcat ==
  ASSUME NEW b \in Bytes, NEW p \in Nat \ {0}, NEW s \in Bytes, NEW t \in Bytes
  PROVE  At(b, p, s \o t) <=> At(b, p, s) /\ At(b, p + Len(s), t)
<1> DEFINE m == Len(s)
           n == Len(t)
           r == s \o t
<1>1. /\ m \in Nat /\ n \in Nat /\ Len(r) = m + n
      /\ \A i \in 1..m : r[i] = s[i]
      /\ \A i \in 1..n : r[m + i] = t[i]
  <2>1. s \in Seq(Nat) /\ t \in Seq(Nat) /\ m \in Nat /\ n \in Nat
    BY DEF Bytes
  <2>2. /\ Len(r) = m + n
        /\ \A i \in 1..m + n : r[i] = IF i <= m THEN s[i] ELSE t[i - m]
    BY <2>1, ConcatProperties
  <2> HIDE DEF m, n, r
  <2>3. ASSUME NEW i \in 1..m
        PROVE  r[i] = s[i]
    <3>1. i \in 1..m + n /\ i <= m
      BY <2>1
    <3>2. QED
      BY <3>1, <2>2
  <2>4. ASSUME NEW i \in 1..n
        PROVE  r[m + i] = t[i]
    <3>1. m + i \in 1..m + n /\ ~ (m + i <= m) /\ (m + i) - m = i
      BY <2>1
    <3>2. QED
      BY <3>1, <2>2
  <2>5. QED
    BY <2>1, <2>2, <2>3, <2>4
<1>2. PICK l \in Nat : l = Len(b)
  BY DEF Bytes
<1> HIDE DEF m, n, r
<1>3. ASSUME p + (m + n) - 1 <= l, \A i \in 1..m + n : b[p + i - 1] = r[i]
      PROVE  /\ p + m - 1 <= l /\ \A i \in 1..m : b[p + i - 1] = s[i]
             /\ p + m + n - 1 <= l /\ \A i \in 1..n : b[p + m + i - 1] = t[i]
  <2>1. p + m - 1 <= l /\ p + m + n - 1 <= l
    BY <1>1, <1>2, <1>3
  <2>2. ASSUME NEW i \in 1..m
        PROVE  b[p + i - 1] = s[i]
    <3>1. i \in 1..m + n
      BY <1>1
    <3>2. QED
      BY <3>1, <1>1, <1>3
  <2>3. ASSUME NEW i \in 1..n
        PROVE  b[p + m + i - 1] = t[i]
    <3>1. m + i \in 1..m + n /\ p + m + i - 1 = p + (m + i) - 1
      BY <1>1
    <3>2. r[m + i] = t[i]
      BY <1>1
    <3>3. QED
      BY <3>1, <3>2, <1>3
  <2>4. QED
    BY <2>1, <2>2, <2>3
<1>4. ASSUME p + m - 1 <= l, \A i \in 1..m : b[p + i - 1] = s[i],
             p + m + n - 1 <= l, \A i \in 1..n : b[p + m + i - 1] = t[i]
      PROVE  p + (m + n) - 1 <= l /\ \A i \in 1..m + n : b[p + i - 1] = r[i]
  <2>1. p + (m + n) - 1 <= l
    BY <1>1, <1>2, <1>4
  <2>2. ASSUME NEW i \in 1..m + n
        PROVE  b[p + i - 1] = r[i]
    <3>1. CASE i \in 1..m
      BY <3>1, <1>1, <1>4
    <3>2. CASE i \notin 1..m
      <4>1. PICK j \in 1..n : i = m + j
        <5>1. i - m \in 1..n /\ i = m + (i - m)
          BY <3>2, <1>1
        <5>2. QED
          BY <5>1
      <4>2. p + i - 1 = p + m + j - 1
        BY <4>1, <1>1
      <4>3. b[p + m + j - 1] = t[j] /\ r[m + j] = t[j]
        BY <1>1, <1>4
      <4>4. QED
        BY <4>1, <4>2, <4>3
    <3>3. QED
      BY <3>1, <3>2
  <2>3. QED
    BY <2>1, <2>2
<1>5. QED
  BY <1>1, <1>2, <1>3, <1>4 DEF At, m, n, r

LEMMA AtSubSeq ==
  ASSUME NEW b \in Bytes, NEW p \in Nat \ {0}, NEW s \in Bytes, At(b, p, s)
  PROVE  SubSeq(b, p, p + Len(s) - 1) = s
<1>1. PICK l \in Nat, m \in Nat : l = Len(b) /\ m = Len(s)
  BY DEF Bytes
<1>2. p + m - 1 <= l /\ \A i \in 1..m : b[p + i - 1] = s[i]
  BY <1>1 DEF At
<1> DEFINE q == p + m - 1
           r == SubSeq(b, p, q)
<1>3. q \in Nat /\ q <= l /\ p <= q + 1 /\ q - p + 1 = m
  BY <1>2
<1> HIDE DEF q
<1>4. r \in Bytes /\ Len(r) = q - p + 1 /\ \A i \in 1..q - p + 1 : r[i] = b[p + i - 1]
  BY <1>1, <1>3, SubSeqIs
<1> HIDE DEF r
<1>5. r \in Bytes /\ Len(r) = m /\ \A i \in 1..m : r[i] = s[i]
  BY <1>2, <1>3, <1>4
<1>6. r = s
  BY <1>1, <1>5, SeqEqual DEF Bytes
<1>7. QED
  BY <1>1, <1>6 DEF q, r

LEMMA OverwriteKeeps ==
  ASSUME NEW b \in Bytes, NEW q \in Nat \ {0}, NEW s \in Bytes
  PROVE  /\ Overwrite(b, q, s) \in Bytes
         /\ Len(Overwrite(b, q, s)) = Len(b)
         /\ q + Len(s) - 1 <= Len(b) => At(Overwrite(b, q, s), q, s)
<1>1. PICK l \in Nat, m \in Nat : l = Len(b) /\ m = Len(s)
  BY DEF Bytes
<1>2. (\A i \in 1..l : b[i] \in Nat) /\ (\A i \in 1..m : s[i] \in Nat)
  BY <1>1 DEF Bytes
<1> DEFINE r == Overwrite(b, q, s)
<1>3. r = [i \in 1..l |-> IF i \in q..q + m - 1 THEN s[i - q + 1] ELSE b[i]]
  BY <1>1 DEF Overwrite
<1> HIDE DEF r
<1>4. ASSUME NEW i \in 1..l
      PROVE  r[i] \in Nat
  <2>1. CASE i \in q..q + m - 1
    <3>1. i - q + 1 \in 1..m
      BY <2>1
    <3>2. QED
      BY <2>1, <3>1, <1>2, <1>3
  <2>2. CASE i \notin q..q + m - 1
    BY <2>2, <1>2, <1>3
  <2>3. QED
    BY <2>1, <2>2
<1>5. r \in [1..l -> Nat]
  BY <1>3, <1>4
<1>6. r \in Bytes /\ Len(r) = l
  BY <1>5 DEF Bytes
<1>7. ASSUME q + m - 1 <= l
      PROVE  At(r, q, s)
  <2>1. ASSUME NEW i \in 1..m
        PROVE  r[q + i - 1] = s[i]
    <3>1. /\ q + i - 1 \in 1..l /\ q + i - 1 \in q..q + m - 1
          /\ (q + i - 1) - q + 1 = i
      BY <1>7
    <3>2. QED
      BY <3>1, <1>3
  <2>2. QED
    BY <2>1, <1>1, <1>6, <1>7 DEF At
<1>8. QED
  BY <1>1, <1>6, <1>7 DEF r

LEMMA OverwriteBeside ==
  ASSUME NEW b \in Bytes, NEW q \in Nat \ {0}, NEW s \in Bytes,
         NEW p \in Nat \ {0}, NEW t \in Bytes, At(b, p, t),
         p + Len(t) <= q \/ q + Len(s) <= p
  PROVE  At(Overwrite(b, q, s), p, t)
<1>1. PICK l \in Nat, m \in Nat, n \in Nat : l = Len(b) /\ m = Len(s) /\ n = Len(t)
  BY DEF Bytes
<1> DEFINE r == Overwrite(b, q, s)
<1>3. r = [i \in 1..l |-> IF i \in q..q + m - 1 THEN s[i - q + 1] ELSE b[i]]
  BY <1>1 DEF Overwrite
<1>4. Len(r) = l
  BY <1>1, OverwriteKeeps
<1> HIDE DEF r
<1>5. p + n - 1 <= l /\ \A i \in 1..n : b[p + i - 1] = t[i]
  BY <1>1 DEF At
<1>6. ASSUME NEW i \in 1..n
      PROVE  r[p + i - 1] = t[i]
  <2>1. p + i - 1 \in 1..l /\ p + i - 1 \notin q..q + m - 1
    BY <1>1, <1>5
  <2>2. QED
    BY <2>1, <1>3, <1>5
<1>7. QED
  BY <1>1, <1>4, <1>5, <1>6 DEF At, r

LEMMA U16Is ==
  ASSUME NEW n \in Nat
  PROVE  /\ U16(n) \in Bytes /\ Len(U16(n)) = 2
         /\ U16(n)[1] + 256 * U16(n)[2] = n
<1>1. n % 256 \in Nat /\ n \div 256 \in Nat /\ (n % 256) + 256 * (n \div 256) = n
  OBVIOUS
<1>2. QED
  BY <1>1 DEF U16, Bytes

LEMMA U16Read ==
  ASSUME NEW b \in Bytes, NEW p \in Nat \ {0}, NEW n \in Nat, At(b, p, U16(n))
  PROVE  U16At(b, p) = n
<1>1. b[p + 1 - 1] = U16(n)[1] /\ b[p + 2 - 1] = U16(n)[2]
  BY U16Is DEF At
<1>2. p + 1 - 1 = p /\ p + 2 - 1 = p + 1
  OBVIOUS
<1>3. QED
  BY <1>1, <1>2, U16Is DEF U16At

LEMMA FFIs ==
  ASSUME NEW n \in Nat
  PROVE  FF(n) \in Bytes /\ Len(FF(n)) = n /\ \A i \in 1..n : FF(n)[i] = 255
<1>1. FF(n) \in [1..n -> Nat]
  BY DEF FF
<1>2. QED
  BY <1>1 DEF FF, Bytes

LEMMA TlvIs ==
  ASSUME NEW kind \in Nat, NEW data \in Bytes
  PROVE  Tlv(kind, data) \in Bytes /\ Len(Tlv(kind, data)) = 4 + Len(data)
<1>1. Len(data) \in Nat
  BY DEF Bytes
<1> DEFINE u == U16(kind)
           v == U16(Len(data))
<1>2. u \in Bytes /\ v \in Bytes /\ Len(u) = 2 /\ Len(v) = 2
  BY <1>1, U16Is
<1> HIDE DEF u, v
<1>3. u \o v \in Bytes /\ Len(u \o v) = 4
  <2>1. u \o v \in Bytes /\ Len(u \o v) = Len(u) + Len(v)
    BY <1>2, ConcatIs, Zenon
  <2>2. Len(u) + Len(v) = 4
    BY <1>2
  <2>3. QED
    BY <2>1, <2>2, Zenon
<1> DEFINE w == u \o v
<1> HIDE DEF w
<1>a. w \in Bytes /\ Len(w) = 4
  BY <1>3 DEF w
<1>4. w \o data \in Bytes /\ Len(w \o data) = 4 + Len(data)
  BY <1>1, <1>a, ConcatIs
<1>5. QED
  BY <1>4 DEF Tlv, u, v, w

(* What the scans read of an entry                                         *)
LEMMA TlvRead ==
  ASSUME NEW b \in Bytes, NEW p \in Nat \ {0}, NEW kind \in 0..254, NEW data \in Bytes,
         At(b, p, Tlv(kind, data))
  PROVE  /\ U16At(b, p) = kind /\ Size(b, p) = 4 + Len(data) /\ Data(b, p) = data
         /\ ~IsFF(b, p)
         /\ p + 3 + Len(data) <= Len(b)
<1>1. PICK n \in Nat, l \in Nat : n = Len(data) /\ l = Len(b)
  BY DEF Bytes
<1> DEFINE u == U16(kind)
           v == U16(n)
<1>2. /\ u \in Bytes /\ v \in Bytes /\ Len(u) = 2 /\ Len(v) = 2
  BY U16Is
<1>3. Tlv(kind, data) = (u \o v) \o data
  BY <1>1 DEF Tlv
<1> HIDE DEF u, v
<1>a. u \o v \in Bytes /\ Len(u \o v) = 4
  <2>1. u \o v \in Bytes /\ Len(u \o v) = Len(u) + Len(v)
    BY <1>2, ConcatIs, Zenon
  <2>2. Len(u) + Len(v) = 4
    BY <1>2
  <2>3. QED
    BY <2>1, <2>2, Zenon
<1>b. PICK w \in Bytes : w = u \o v /\ Len(w) = 4
  BY <1>a
<1>c. At(b, p, w \o data)
  BY <1>3, <1>b
<1>4. At(b, p, u \o v) /\ At(b, p + 4, data)
  BY <1>b, <1>c, AtConcat
<1>5. At(b, p, u) /\ At(b, p + 2, v)
  BY <1>2, <1>4, AtConcat
<1>6. U16At(b, p) = kind
  BY <1>5, U16Read DEF u
<1>7. U16At(b, p + 2) = n
  BY <1>5, U16Read DEF v
<1>d. PICK q \in Nat \ {0} : q = p + 4
  OBVIOUS
<1>8. SubSeq(b, p + 4, p + 4 + n - 1) = data
  BY <1>1, <1>4, <1>d, AtSubSeq
<1>9. Size(b, p) = 4 + n
  BY <1>7 DEF Size
<1>10. Data(b, p) = data
  <2>1. p + (4 + n) - 1 = p + 4 + n - 1
    OBVIOUS
  <2>2. QED
    BY <1>8, <1>9, <2>1 DEF Data
<1>11. p + 3 + n <= l
  BY <1>1, <1>4 DEF At
<1>12. ~IsFF(b, p)
  <2> SUFFICES ASSUME IsFF(b, p) PROVE FALSE
    OBVIOUS
  <2>1. p \in 1..l /\ p + 3 \in 1..l /\ p <= p + 3
    BY <1>11
  <2>2. \A i \in 1..(p + 3 - p + 1) : SubSeq(b, p, p + 3)[i] = b[p + i - 1]
    BY <2>1, <1>1, SubSeqIs
  <2>3. 1 \in 1..(p + 3 - p + 1) /\ 2 \in 1..(p + 3 - p + 1) /\ p + 1 - 1 = p /\ p + 2 - 1 = p + 1
    OBVIOUS
  <2>4. FF(4)[1] = b[p] /\ FF(4)[2] = b[p + 1]
    BY <2>2, <2>3 DEF IsFF
  <2>5. b[p] = 255 /\ b[p + 1] = 255
    BY <2>4, FFIs
  <2>6. QED
    BY <2>5, <1>6 DEF U16At
<1>13. QED
  BY <1>1, <1>6, <1>9, <1>10, <1>11, <1>12

-----------------------------------------------------------------------------
(* The scans of an image are functions.                                    *)
LEMMA SizeIs ==
  ASSUME NEW b \in Bytes, NEW p \in Nat, p + 3 <= Len(b)
  PROVE  Size(b, p) \in Nat /\ Size(b, p) >= 4
<1>1. PICK l \in Nat : l = Len(b)
  BY DEF Bytes
<1>2. \A i \in 1..l : b[i] \in Nat
  BY <1>1 DEF Bytes
<1>3. p + 2 \in 1..l /\ p + 3 \in 1..l /\ p + 2 + 1 = p + 3
  BY <1>1
<1>4. b[p + 2] \in Nat /\ b[p + 3] \in Nat
  BY <1>2, <1>3
<1>5. QED
  BY <1>3, <1>4 DEF Size, U16At

(* The same from entry to entry of an image                                *)
ImageScan(f, b, Stop, base, G) ==
  \A p \in Nat : f[p] = IF p \in Stop THEN base[p] ELSE G[<<p, f[p + Size(b, p)]>>]

Within(b, Stop) == \A p \in Nat : p \notin Stop => p + 3 <= Len(b)

LEMMA ScannedImage ==
  ASSUME NEW b \in Bytes, NEW V, NEW Stop, NEW base \in [Nat -> V], NEW G,
         Within(b, Stop), Makes(G, V)
  PROVE  \E f \in [Nat -> V] : ImageScan(f, b, Stop, base, G)
<1> DEFINE nxt == [p \in Nat |-> p + Size(b, p)]
<1>1. PICK l \in Nat : l = Len(b)
  BY DEF Bytes
<1>2. ASSUME NEW p \in Nat, p \notin Stop
      PROVE  p <= l /\ nxt[p] \in Nat /\ nxt[p] > p
  <2>1. p <= l /\ p + 3 <= l
    BY <1>1, <1>2 DEF Within
  <2>2. Size(b, p) \in Nat /\ Size(b, p) >= 4
    BY <1>1, <2>1, SizeIs
  <2>3. QED
    BY <2>1, <2>2
<1>3. \A p \in Nat : nxt[p] = p + Size(b, p)
  OBVIOUS
<1> HIDE DEF nxt
<1>4. Upward(Stop, nxt, l)
  BY <1>2 DEF Upward
<1>5. PICK f \in [Nat -> V] : ScanOf(f, Stop, base, nxt, G)
  BY <1>4, Scanned
<1>6. ASSUME NEW p \in Nat
      PROVE  f[p] = IF p \in Stop THEN base[p] ELSE G[<<p, f[p + Size(b, p)]>>]
  <2>1. f[p] = IF p \in Stop THEN base[p] ELSE G[<<p, f[nxt[p]]>>]
    BY <1>5 DEF ScanOf
  <2>2. nxt[p] = p + Size(b, p)
    BY <1>3
  <2>3. QED
    BY <2>1, <2>2
<1>7. QED
  BY <1>6 DEF ImageScan

(* An entry of a scan is the value of G for the next one.                  *)
LEMMA ScanGoesOn ==
  ASSUME NEW b \in Bytes, NEW V, NEW Stop, NEW base, NEW G, NEW f \in [Nat -> V],
         Within(b, Stop), ImageScan(f, b, Stop, base, G),
         NEW p \in Nat, p \notin Stop
  PROVE  f[p] = G[<<p, f[p + Size(b, p)]>>] /\ f[p + Size(b, p)] \in V
<1>1. p + 3 <= Len(b)
  BY DEF Within
<1>2. p + Size(b, p) \in Nat
  BY <1>1, SizeIs
<1>3. f[p] = G[<<p, f[p + Size(b, p)]>>]
  BY DEF ImageScan
<1>4. QED
  BY <1>2, <1>3

LEMMA EntriesScan ==
  ASSUME NEW b \in Bytes
  PROVE  \E f : /\ f = [p \in Nat |-> IF p > Len(b) - 4 \/ IsFF(b, p) THEN {}
                                      ELSE {p} \cup f[p + Size(b, p)]]
                /\ Entries(b) = f[TlvStart(b) + 4]
<1> DEFINE Stop == {p \in Nat : p > Len(b) - 4 \/ IsFF(b, p)}
           base == [p \in Nat |-> {}]
           G == [x \in Nat \X SUBSET Nat |-> {x[1]} \cup x[2]]
           Unfolded(f, p) == IF p > Len(b) - 4 \/ IsFF(b, p) THEN {}
                             ELSE {p} \cup f[p + Size(b, p)]
<1>1. base \in [Nat -> SUBSET Nat] /\ \A p \in Nat : base[p] = {}
  OBVIOUS
<1>2. \A p \in Nat : p \in Stop <=> p > Len(b) - 4 \/ IsFF(b, p)
  OBVIOUS
<1>3. \A p \in Nat, v \in SUBSET Nat : G[<<p, v>>] = {p} \cup v
  OBVIOUS
<1>4. Makes(G, SUBSET Nat)
  BY <1>3 DEF Makes
<1>5. Within(b, Stop)
  BY <1>2, LenIs DEF Within
<1> HIDE DEF Stop, base, G
<1>6. PICK f \in [Nat -> SUBSET Nat] : ImageScan(f, b, Stop, base, G)
  BY <1>1, <1>4, <1>5, ScannedImage
<1>7. ASSUME NEW p \in Nat
      PROVE  f[p] = Unfolded(f, p)
  <2>1. CASE p \in Stop
    <3>1. f[p] = base[p]
      BY <2>1, <1>6 DEF ImageScan
    <3>2. QED
      BY <2>1, <3>1, <1>1, <1>2
  <2>2. CASE p \notin Stop
    <3>1. f[p] = G[<<p, f[p + Size(b, p)]>>] /\ f[p + Size(b, p)] \in SUBSET Nat
      BY <2>2, <1>5, <1>6, ScanGoesOn
    <3>2. f[p] = {p} \cup f[p + Size(b, p)]
      BY <3>1, <1>3
    <3>3. QED
      BY <2>2, <3>2, <1>2
  <2>3. QED
    BY <2>1, <2>2
<1>8. f = [p \in Nat |-> Unfolded(f, p)]
  BY <1>7
<1>9. \E g : g = [p \in Nat |-> IF p > Len(b) - 4 \/ IsFF(b, p) THEN {}
                               ELSE {p} \cup g[p + Size(b, p)]]
  BY <1>8, Zenon
<1> DEFINE from[p \in Nat] == IF p > Len(b) - 4 \/ IsFF(b, p) THEN {}
                               ELSE {p} \cup from[p + Size(b, p)]
<1>10. from = [p \in Nat |-> IF p > Len(b) - 4 \/ IsFF(b, p) THEN {}
                               ELSE {p} \cup from[p + Size(b, p)]]
  BY <1>9
<1>11. Entries(b) = from[TlvStart(b) + 4]
  BY DEF Entries
<1> HIDE DEF from
<1>12. QED
  BY <1>10, <1>11, Zenon

LEMMA EndScan ==
  ASSUME NEW b \in Bytes, NEW start
  PROVE  \E f : /\ f = [p \in Nat |-> IF p > Len(b) THEN p
                                      ELSE IF p + 3 > Len(b) THEN 0
                                      ELSE IF IsFF(b, p) THEN p ELSE f[p + Size(b, p)]]
                /\ EndOfTlvs(b, start) = f[start]
<1> DEFINE Stop == {p \in Nat : p > Len(b) \/ p + 3 > Len(b) \/ IsFF(b, p)}
           base == [p \in Nat |-> IF p > Len(b) THEN p ELSE IF p + 3 > Len(b) THEN 0 ELSE p]
           G == [x \in Nat \X Nat |-> x[2]]
           Unfolded(f, p) == IF p > Len(b) THEN p
                             ELSE IF p + 3 > Len(b) THEN 0
                             ELSE IF IsFF(b, p) THEN p ELSE f[p + Size(b, p)]
<1>1. base \in [Nat -> Nat] /\ \A p \in Nat : base[p] = IF p > Len(b) THEN p ELSE IF p + 3 > Len(b) THEN 0 ELSE p
  OBVIOUS
<1>2. \A p \in Nat : p \in Stop <=> p > Len(b) \/ p + 3 > Len(b) \/ IsFF(b, p)
  OBVIOUS
<1>3. \A p \in Nat, v \in Nat : G[<<p, v>>] = v
  OBVIOUS
<1>4. Makes(G, Nat)
  BY <1>3 DEF Makes
<1>5. Within(b, Stop)
  BY <1>2, LenIs DEF Within
<1> HIDE DEF Stop, base, G
<1>6. PICK f \in [Nat -> Nat] : ImageScan(f, b, Stop, base, G)
  BY <1>1, <1>4, <1>5, ScannedImage
<1>7. ASSUME NEW p \in Nat
      PROVE  f[p] = Unfolded(f, p)
  <2>1. CASE p \in Stop
    <3>1. f[p] = base[p]
      BY <2>1, <1>6 DEF ImageScan
    <3>2. QED
      BY <2>1, <3>1, <1>1, <1>2
  <2>2. CASE p \notin Stop
    <3>1. f[p] = G[<<p, f[p + Size(b, p)]>>] /\ f[p + Size(b, p)] \in Nat
      BY <2>2, <1>5, <1>6, ScanGoesOn
    <3>2. f[p] = f[p + Size(b, p)]
      BY <3>1, <1>3
    <3>3. QED
      BY <2>2, <3>2, <1>2
  <2>3. QED
    BY <2>1, <2>2
<1>8. f = [p \in Nat |-> Unfolded(f, p)]
  BY <1>7
<1>9. \E g : g = [p \in Nat |-> IF p > Len(b) THEN p
                               ELSE IF p + 3 > Len(b) THEN 0
                               ELSE IF IsFF(b, p) THEN p ELSE g[p + Size(b, p)]]
  BY <1>8, Zenon
<1> DEFINE from[p \in Nat] == IF p > Len(b) THEN p
                               ELSE IF p + 3 > Len(b) THEN 0
                               ELSE IF IsFF(b, p) THEN p ELSE from[p + Size(b, p)]
<1>10. from = [p \in Nat |-> IF p > Len(b) THEN p
                               ELSE IF p + 3 > Len(b) THEN 0
                               ELSE IF IsFF(b, p) THEN p ELSE from[p + Size(b, p)]]
  BY <1>9
<1>11. EndOfTlvs(b, start) = from[start]
  BY DEF EndOfTlvs
<1> HIDE DEF from
<1>12. QED
  BY <1>10, <1>11, Zenon

LEMMA RealEndScan ==
  ASSUME NEW b \in Bytes, NEW start
  PROVE  \E f : /\ f = [p \in Nat |-> IF p + 3 > Len(b) \/ U16At(b, p) = NoType THEN p
                                      ELSE f[p + Size(b, p)]]
                /\ RealEnd(b, start) = f[start]
<1> DEFINE Stop == {p \in Nat : p + 3 > Len(b) \/ U16At(b, p) = NoType}
           base == [p \in Nat |-> p]
           G == [x \in Nat \X Nat |-> x[2]]
           Unfolded(f, p) == IF p + 3 > Len(b) \/ U16At(b, p) = NoType THEN p
                             ELSE f[p + Size(b, p)]
<1>1. base \in [Nat -> Nat] /\ \A p \in Nat : base[p] = p
  OBVIOUS
<1>2. \A p \in Nat : p \in Stop <=> p + 3 > Len(b) \/ U16At(b, p) = NoType
  OBVIOUS
<1>3. \A p \in Nat, v \in Nat : G[<<p, v>>] = v
  OBVIOUS
<1>4. Makes(G, Nat)
  BY <1>3 DEF Makes
<1>5. Within(b, Stop)
  BY <1>2, LenIs DEF Within
<1> HIDE DEF Stop, base, G
<1>6. PICK f \in [Nat -> Nat] : ImageScan(f, b, Stop, base, G)
  BY <1>1, <1>4, <1>5, ScannedImage
<1>7. ASSUME NEW p \in Nat
      PROVE  f[p] = Unfolded(f, p)
  <2>1. CASE p \in Stop
    <3>1. f[p] = base[p]
      BY <2>1, <1>6 DEF ImageScan
    <3>2. QED
      BY <2>1, <3>1, <1>1, <1>2
  <2>2. CASE p \notin Stop
    <3>1. f[p] = G[<<p, f[p + Size(b, p)]>>] /\ f[p + Size(b, p)] \in Nat
      BY <2>2, <1>5, <1>6, ScanGoesOn
    <3>2. f[p] = f[p + Size(b, p)]
      BY <3>1, <1>3
    <3>3. QED
      BY <2>2, <3>2, <1>2
  <2>3. QED
    BY <2>1, <2>2
<1>8. f = [p \in Nat |-> Unfolded(f, p)]
  BY <1>7
<1>9. \E g : g = [p \in Nat |-> IF p + 3 > Len(b) \/ U16At(b, p) = NoType THEN p
                               ELSE g[p + Size(b, p)]]
  BY <1>8, Zenon
<1> DEFINE from[p \in Nat] == IF p + 3 > Len(b) \/ U16At(b, p) = NoType THEN p
                               ELSE from[p + Size(b, p)]
<1>10. from = [p \in Nat |-> IF p + 3 > Len(b) \/ U16At(b, p) = NoType THEN p
                               ELSE from[p + Size(b, p)]]
  BY <1>9
<1>11. RealEnd(b, start) = from[start]
  BY DEF RealEnd
<1> HIDE DEF from
<1>12. QED
  BY <1>10, <1>11, Zenon

LEMMA VerifiedScan ==
  ASSUME NEW b \in Bytes, NEW start, NEW end \in Nat
  PROVE  \E f : /\ f = [p \in Nat |-> IF p >= end THEN {}
                                      ELSE IF p + 3 > Len(b) THEN {0}
                                      ELSE {p} \cup f[p + Size(b, p)]]
                /\ Verified(b, start, end) = f[start]
<1> DEFINE Stop == {p \in Nat : p >= end \/ p + 3 > Len(b)}
           base == [p \in Nat |-> IF p >= end THEN {} ELSE {0}]
           G == [x \in Nat \X SUBSET Nat |-> {x[1]} \cup x[2]]
           Unfolded(f, p) == IF p >= end THEN {}
                             ELSE IF p + 3 > Len(b) THEN {0}
                             ELSE {p} \cup f[p + Size(b, p)]
<1>1. base \in [Nat -> SUBSET Nat] /\ \A p \in Nat : base[p] = IF p >= end THEN {} ELSE {0}
  OBVIOUS
<1>2. \A p \in Nat : p \in Stop <=> p >= end \/ p + 3 > Len(b)
  OBVIOUS
<1>3. \A p \in Nat, v \in SUBSET Nat : G[<<p, v>>] = {p} \cup v
  OBVIOUS
<1>4. Makes(G, SUBSET Nat)
  BY <1>3 DEF Makes
<1>5. Within(b, Stop)
  BY <1>2, LenIs DEF Within
<1> HIDE DEF Stop, base, G
<1>6. PICK f \in [Nat -> SUBSET Nat] : ImageScan(f, b, Stop, base, G)
  BY <1>1, <1>4, <1>5, ScannedImage
<1>7. ASSUME NEW p \in Nat
      PROVE  f[p] = Unfolded(f, p)
  <2>1. CASE p \in Stop
    <3>1. f[p] = base[p]
      BY <2>1, <1>6 DEF ImageScan
    <3>2. QED
      BY <2>1, <3>1, <1>1, <1>2
  <2>2. CASE p \notin Stop
    <3>1. f[p] = G[<<p, f[p + Size(b, p)]>>] /\ f[p + Size(b, p)] \in SUBSET Nat
      BY <2>2, <1>5, <1>6, ScanGoesOn
    <3>2. f[p] = {p} \cup f[p + Size(b, p)]
      BY <3>1, <1>3
    <3>3. QED
      BY <2>2, <3>2, <1>2
  <2>3. QED
    BY <2>1, <2>2
<1>8. f = [p \in Nat |-> Unfolded(f, p)]
  BY <1>7
<1>9. \E g : g = [p \in Nat |-> IF p >= end THEN {}
                               ELSE IF p + 3 > Len(b) THEN {0}
                               ELSE {p} \cup g[p + Size(b, p)]]
  BY <1>8, Zenon
<1> DEFINE from[p \in Nat] == IF p >= end THEN {}
                               ELSE IF p + 3 > Len(b) THEN {0}
                               ELSE {p} \cup from[p + Size(b, p)]
<1>10. from = [p \in Nat |-> IF p >= end THEN {}
                               ELSE IF p + 3 > Len(b) THEN {0}
                               ELSE {p} \cup from[p + Size(b, p)]]
  BY <1>9
<1>11. Verified(b, start, end) = from[start]
  BY DEF Verified
<1> HIDE DEF from
<1>12. QED
  BY <1>10, <1>11, Zenon

LEMMA DigestIs ==
  ASSUME NEW b \in Bytes
  PROVE  Digest(b) \in Bytes /\ Len(Digest(b)) = 2
<1>1. PICK l \in Nat : l = Len(b)
  BY DEF Bytes
<1>2. \A i \in 1..l : b[i] \in Nat
  BY <1>1 DEF Bytes
<1> DEFINE G == [x \in (1..l) \X Nat |-> x[2] + x[1] * b[x[1]]]
<1>3. \A i \in 1..l, v \in Nat : G[<<i, v>>] = v + i * b[i]
  OBVIOUS
<1>4. ASSUME NEW i \in 1..l, NEW v \in Nat
      PROVE  G[<<i, v>>] \in Nat
  <2>1. i * b[i] \in Nat
    BY <1>2
  <2>2. QED
    BY <2>1, <1>3
<1> HIDE DEF G
<1>5. MakesUpTo(l, G, Nat)
  BY <1>4 DEF MakesUpTo
<1>6. PICK f \in [0..l -> Nat] : IterationOf(f, l, 0, G)
  <2>1. 0 \in Nat
    OBVIOUS
  <2>2. QED
    BY <2>1, <1>5, Iterated, Zenon
<1>7. ASSUME NEW i \in 0..l
      PROVE  f[i] = IF i = 0 THEN 0 ELSE f[i - 1] + i * b[i]
  <2>1. CASE i = 0
    BY <2>1, <1>6 DEF IterationOf
  <2>2. CASE i # 0
    <3>1. i \in 1..l /\ i - 1 \in 0..l
      BY <2>2
    <3>2. f[i] = G[<<i, f[i - 1]>>]
      BY <2>2, <1>6 DEF IterationOf
    <3>3. QED
      BY <2>2, <3>1, <3>2, <1>3
  <2>3. QED
    BY <2>1, <2>2
<1>8. f = [i \in 0..l |-> IF i = 0 THEN 0 ELSE f[i - 1] + i * b[i]]
  BY <1>7
<1>9. \E g : g = [i \in 0..Len(b) |-> IF i = 0 THEN 0 ELSE g[i - 1] + i * b[i]]
  BY <1>1, <1>8, Zenon
<1> DEFINE sum[i \in 0..Len(b)] == IF i = 0 THEN 0 ELSE sum[i - 1] + i * b[i]
<1>10. sum = [i \in 0..Len(b) |-> IF i = 0 THEN 0 ELSE sum[i - 1] + i * b[i]]
  BY <1>9
<1>11. Digest(b) = <<sum[Len(b)] % 251, Len(b)>>
  BY DEF Digest
<1> HIDE DEF sum
<1> DEFINE S == {m \in Nat : m <= l => sum[m] \in Nat}
<1>12. 0 \in S
  BY <1>1, <1>10
<1>13. ASSUME NEW m \in Nat, m \in S
       PROVE  m + 1 \in S
  <2> SUFFICES ASSUME m + 1 <= l PROVE sum[m + 1] \in Nat
    OBVIOUS
  <2>1. sum[m] \in Nat /\ m + 1 \in 0..l /\ m + 1 \in 1..l /\ m + 1 # 0 /\ m + 1 - 1 = m
    BY <1>13
  <2>2. sum[m + 1] = sum[m + 1 - 1] + (m + 1) * b[m + 1]
    BY <2>1, <1>1, <1>10
  <2>3. PICK c \in Nat : c = b[m + 1]
    BY <2>1, <1>2
  <2>4. (m + 1) * c \in Nat
    OBVIOUS
  <2>5. QED
    BY <2>1, <2>2, <2>3, <2>4
<1> HIDE DEF S
<1>14. S = Nat
  BY <1>12, <1>13, Induction DEF S
<1>15. sum[l] \in Nat
  BY <1>14 DEF S
<1>16. sum[l] % 251 \in Nat
  BY <1>15
<1>17. Digest(b) = <<sum[l] % 251, l>>
  BY <1>1, <1>11
<1>18. QED
  BY <1>16, <1>17 DEF Bytes

-----------------------------------------------------------------------------
(* The types a digest has                                                  *)
Kinds == {SHA256, SHA384}

(* The three entries of an image, from p on: the digest d, the hash kh of  *)
(* the key and the signature s                                             *)
Three(b, p, kind, d, kh, s) ==
  /\ At(b, p, Tlv(kind, d)) /\ Len(d) = 2
  /\ At(b, p + 6, Tlv(KEYHASH, kh)) /\ Len(kh) = 2
  /\ At(b, p + 12, Tlv(ECDSASIG, s)) /\ Len(s) >= 4

(* What a scan finds behind the last entry                                 *)
Closed(b, e) == e + 3 > Len(b) \/ At(b, e, FF(4))

LEMMA ThreeRead ==
  ASSUME NEW b \in Bytes, NEW p \in Nat \ {0}, NEW kind \in Kinds,
         NEW d \in Bytes, NEW kh \in Bytes, NEW s \in Bytes, Three(b, p, kind, d, kh, s)
  PROVE  /\ U16At(b, p) = kind /\ Size(b, p) = 6 /\ Data(b, p) = d /\ ~IsFF(b, p)
         /\ U16At(b, p + 6) = KEYHASH /\ Size(b, p + 6) = 6 /\ Data(b, p + 6) = kh
         /\ ~IsFF(b, p + 6)
         /\ U16At(b, p + 12) = ECDSASIG /\ Size(b, p + 12) = 4 + Len(s) /\ Data(b, p + 12) = s
         /\ ~IsFF(b, p + 12)
         /\ p + 15 + Len(s) <= Len(b)
<1>1. PICK q \in Nat \ {0}, r \in Nat \ {0} : q = p + 6 /\ r = p + 12
  OBVIOUS
<1>2. At(b, p, Tlv(kind, d)) /\ At(b, q, Tlv(KEYHASH, kh)) /\ At(b, r, Tlv(ECDSASIG, s))
  BY <1>1 DEF Three
<1>3. kind \in 0..254 /\ KEYHASH \in 0..254 /\ ECDSASIG \in 0..254
  BY DEF Kinds, SHA256, SHA384, KEYHASH, ECDSASIG
<1>4. U16At(b, p) = kind /\ Size(b, p) = 4 + Len(d) /\ Data(b, p) = d /\ ~IsFF(b, p)
  BY <1>2, <1>3, TlvRead
<1>5. U16At(b, q) = KEYHASH /\ Size(b, q) = 4 + Len(kh) /\ Data(b, q) = kh /\ ~IsFF(b, q)
  BY <1>2, <1>3, TlvRead
<1>6. /\ U16At(b, r) = ECDSASIG /\ Size(b, r) = 4 + Len(s) /\ Data(b, r) = s /\ ~IsFF(b, r)
      /\ r + 3 + Len(s) <= Len(b)
  BY <1>2, <1>3, TlvRead
<1>7. Len(d) = 2 /\ Len(kh) = 2
  BY DEF Three
<1>8. p + 15 + Len(s) <= Len(b)
  BY <1>1, <1>6, LenIs
<1>9. Size(b, p) = 6 /\ Size(b, q) = 6
  BY <1>4, <1>5, <1>7
<1>10. QED
  BY <1>1, <1>4, <1>5, <1>6, <1>8, <1>9

LEMMA IsFFAt ==
  ASSUME NEW b \in Bytes, NEW p \in Nat \ {0}, At(b, p, FF(4))
  PROVE  IsFF(b, p) /\ U16At(b, p) = NoType /\ p + 3 <= Len(b)
<1>a. PICK n \in Nat : n = 4
  OBVIOUS
<1>d. FF(n) \in Bytes /\ Len(FF(n)) = n /\ \A i \in 1..n : FF(n)[i] = 255
  BY FFIs
<1>1. FF(4) \in Bytes /\ Len(FF(4)) = 4 /\ \A i \in 1..4 : FF(4)[i] = 255
  BY <1>a, <1>d, Zenon
<1>2. SubSeq(b, p, p + 4 - 1) = FF(4)
  BY <1>1, AtSubSeq
<1>3. p + 4 - 1 = p + 3
  OBVIOUS
<1>b. p + 4 - 1 <= Len(b) /\ \A i \in 1..4 : b[p + i - 1] = FF(4)[i]
  BY <1>1 DEF At
<1>c. 1 \in 1..4 /\ 2 \in 1..4
  OBVIOUS
<1>4. b[p + 1 - 1] = 255 /\ b[p + 2 - 1] = 255 /\ p + 4 - 1 <= Len(b)
  BY <1>1, <1>b, <1>c
<1>5. p + 1 - 1 = p /\ p + 2 - 1 = p + 1
  OBVIOUS
<1>6. U16At(b, p) = NoType
  BY <1>4, <1>5 DEF U16At, NoType
<1>7. QED
  BY <1>2, <1>3, <1>4, <1>6 DEF IsFF

(* The scans find exactly these three.                                     *)
LEMMA ThreeEntries ==
  ASSUME NEW b \in Bytes, NEW p \in Nat \ {0}, NEW kind \in Kinds,
         NEW d \in Bytes, NEW kh \in Bytes, NEW s \in Bytes, Three(b, p, kind, d, kh, s),
         Closed(b, p + 16 + Len(s))
  PROVE  /\ p = TlvStart(b) + 4 => Entries(b) = {p, p + 6, p + 12}
         /\ LET e == p + 16 + Len(s) IN
            EndOfTlvs(b, p) = IF e <= Len(b) /\ e + 3 > Len(b) THEN 0 ELSE e
<1>1. PICK q \in Nat \ {0}, r \in Nat \ {0}, m \in Nat, l \in Nat, e \in Nat \ {0} :
        q = p + 6 /\ r = p + 12 /\ m = Len(s) /\ l = Len(b) /\ e = p + 16 + m
  <2>1. PICK m \in Nat, l \in Nat : m = Len(s) /\ l = Len(b)
    BY LenIs
  <2>2. p + 6 \in Nat \ {0} /\ p + 12 \in Nat \ {0} /\ p + 16 + m \in Nat \ {0}
    OBVIOUS
  <2>3. QED
    BY <2>1, <2>2
<1>2. /\ Size(b, p) = 6 /\ ~IsFF(b, p) /\ Size(b, q) = 6 /\ ~IsFF(b, q)
      /\ Size(b, r) = 4 + m /\ ~IsFF(b, r) /\ e - 1 <= l
  <2>1. /\ Size(b, p) = 6 /\ ~IsFF(b, p) /\ Size(b, p + 6) = 6 /\ ~IsFF(b, p + 6)
        /\ Size(b, p + 12) = 4 + Len(s) /\ ~IsFF(b, p + 12) /\ p + 15 + Len(s) <= Len(b)
    BY ThreeRead
  <2>2. QED
    BY <2>1, <1>1
<1>m. m > 0
  BY <1>1 DEF Three
<1>3. e + 3 > l \/ (IsFF(b, e) /\ e + 3 <= l)
  <2>1. e + 3 > l \/ At(b, e, FF(4))
    BY <1>1 DEF Closed
  <2>2. QED
    BY <2>1, <1>1, IsFFAt
<1>4. /\ p + Size(b, p) = q /\ q + Size(b, q) = r /\ r + Size(b, r) = e
      /\ p + 3 < l /\ q + 3 < l /\ r + 3 < l
  BY <1>1, <1>2, <1>m
<1>5. ASSUME p = TlvStart(b) + 4
      PROVE  Entries(b) = {p, q, r}
  <2>1. PICK f : /\ f = [x \in Nat |-> IF x > Len(b) - 4 \/ IsFF(b, x) THEN {}
                                       ELSE {x} \cup f[x + Size(b, x)]]
                 /\ Entries(b) = f[TlvStart(b) + 4]
    BY EntriesScan
  <2>2. ASSUME NEW x \in Nat, x > l - 4 \/ IsFF(b, x)
        PROVE  f[x] = {}
    BY <2>1, <2>2, <1>1
  <2>a. ASSUME NEW x \in Nat, x + 3 < l, ~IsFF(b, x)
        PROVE  f[x] = {x} \cup f[x + Size(b, x)]
    <3>1. ~ (x > l - 4)
      BY <2>a
    <3>2. QED
      BY <3>1, <2>a, <2>1, <1>1
  <2>3. f[e] = {}
    <3>1. e > l - 4 \/ IsFF(b, e)
      BY <1>3
    <3>2. QED
      BY <3>1, <2>2
  <2>4. f[r] = {r} \cup f[e]
    BY <2>a, <1>2, <1>4
  <2>5. f[q] = {q} \cup f[r]
    BY <2>a, <1>2, <1>4
  <2>6. f[p] = {p} \cup f[q]
    BY <2>a, <1>2, <1>4
  <2>7. Entries(b) = f[p]
    BY <2>1, <1>5
  <2>8. QED
    BY <2>3, <2>4, <2>5, <2>6, <2>7
<1>6. EndOfTlvs(b, p) = IF e <= l /\ e + 3 > l THEN 0 ELSE e
  <2>1. PICK f : /\ f = [x \in Nat |-> IF x > Len(b) THEN x
                                       ELSE IF x + 3 > Len(b) THEN 0
                                       ELSE IF IsFF(b, x) THEN x ELSE f[x + Size(b, x)]]
                 /\ EndOfTlvs(b, p) = f[p]
    BY EndScan
  <2>2. f[e] = IF e > l THEN e ELSE IF e + 3 > l THEN 0
               ELSE IF IsFF(b, e) THEN e ELSE f[e + Size(b, e)]
    BY <2>1, <1>1
  <2>a. ASSUME NEW x \in Nat, x + 3 < l, ~IsFF(b, x)
        PROVE  f[x] = f[x + Size(b, x)]
    <3>1. ~ (x > l) /\ ~ (x + 3 > l)
      BY <2>a
    <3>2. QED
      BY <3>1, <2>a, <2>1, <1>1
  <2>3. f[e] = IF e <= l /\ e + 3 > l THEN 0 ELSE e
    BY <2>2, <1>3
  <2>4. f[r] = f[e]
    BY <2>a, <1>2, <1>4
  <2>5. f[q] = f[r]
    BY <2>a, <1>2, <1>4
  <2>6. f[p] = f[q]
    BY <2>a, <1>2, <1>4
  <2>7. QED
    BY <2>1, <2>3, <2>4, <2>5, <2>6
<1>7. QED
  BY <1>1, <1>5, <1>6

LEMMA VerifiedThree ==
  ASSUME NEW b \in Bytes, NEW p \in Nat \ {0}, NEW kind \in Kinds,
         NEW d \in Bytes, NEW kh \in Bytes, NEW s \in Bytes, Three(b, p, kind, d, kh, s),
         NEW end \in Nat, p + 12 < end, end <= p + 16 + Len(s)
  PROVE  Verified(b, p, end) = {p, p + 6, p + 12}
<1>1. PICK q \in Nat \ {0}, r \in Nat \ {0}, m \in Nat, l \in Nat, e \in Nat \ {0} :
        q = p + 6 /\ r = p + 12 /\ m = Len(s) /\ l = Len(b) /\ e = p + 16 + m
  <2>1. PICK m \in Nat, l \in Nat : m = Len(s) /\ l = Len(b)
    BY LenIs
  <2>2. p + 6 \in Nat \ {0} /\ p + 12 \in Nat \ {0} /\ p + 16 + m \in Nat \ {0}
    OBVIOUS
  <2>3. QED
    BY <2>1, <2>2
<1>2. Size(b, p) = 6 /\ Size(b, q) = 6 /\ Size(b, r) = 4 + m /\ e - 1 <= l /\ m > 0
  <2>1. /\ Size(b, p) = 6 /\ Size(b, p + 6) = 6
        /\ Size(b, p + 12) = 4 + Len(s) /\ p + 15 + Len(s) <= Len(b)
    BY ThreeRead
  <2>2. Len(s) >= 4
    BY DEF Three
  <2>3. QED
    BY <2>1, <2>2, <1>1
<1>3. /\ p + Size(b, p) = q /\ q + Size(b, q) = r /\ r + Size(b, r) = e
      /\ p + 3 <= l /\ q + 3 <= l /\ r + 3 <= l
      /\ ~ (p >= end) /\ ~ (q >= end) /\ ~ (r >= end) /\ e >= end
  BY <1>1, <1>2
<1>4. PICK f : /\ f = [x \in Nat |-> IF x >= end THEN {} ELSE IF x + 3 > Len(b) THEN {0}
                                     ELSE {x} \cup f[x + Size(b, x)]]
               /\ Verified(b, p, end) = f[p]
  BY VerifiedScan
<1>5. f[e] = {}
  BY <1>3, <1>4
<1>6. ASSUME NEW x \in Nat, x + 3 <= l, ~ (x >= end)
      PROVE  f[x] = {x} \cup f[x + Size(b, x)]
  <2>1. ~ (x + 3 > Len(b))
    BY <1>1, <1>6
  <2>2. QED
    BY <2>1, <1>4, <1>6
<1>7. f[r] = {r} \cup f[e]
  BY <1>3, <1>6
<1>8. f[q] = {q} \cup f[r]
  BY <1>3, <1>6
<1>9. f[p] = {p} \cup f[q]
  BY <1>3, <1>6
<1>10. Verified(b, p, end) = {p, q, r}
  BY <1>4, <1>5, <1>7, <1>8, <1>9
<1>11. QED
  BY <1>1, <1>10

-----------------------------------------------------------------------------
(* An image: the header and payload h, the info header with the length t,  *)
(* the three entries                                                       *)
Headed(h) == Len(h) >= 2 /\ h[1] = 61 /\ HeaderSize + h[2] = Len(h)

Layout(b, h, t, kind, d, kh, s) ==
  /\ Headed(h) /\ At(b, 1, h)
  /\ At(b, Len(h) + 1, InfoMagic) /\ At(b, Len(h) + 3, U16(t))
  /\ Three(b, Len(h) + 5, kind, d, kh, s)

LEMMA KindsDiffer ==
  /\ SHA256 # SHA384 /\ SHA256 # KEYHASH /\ SHA256 # ECDSASIG
  /\ SHA384 # KEYHASH /\ SHA384 # ECDSASIG /\ KEYHASH # ECDSASIG
BY DEF SHA256, SHA384, KEYHASH, ECDSASIG

LEMMA LayoutStart ==
  ASSUME NEW b \in Bytes, NEW h \in Bytes, Headed(h), At(b, 1, h)
  PROVE  TlvStart(b) = Len(h) + 1 /\ b[1] = 61
<1>1. 1 \in 1..Len(h) /\ 1 + 1 - 1 = 1 /\ 2 \in 1..Len(h) /\ 1 + 2 - 1 = 2
  BY LenIs DEF Headed
<1>2. b[1 + 1 - 1] = h[1] /\ b[1 + 2 - 1] = h[2]
  BY <1>1 DEF At
<1>3. b[1] = h[1] /\ b[2] = h[2]
  BY <1>1, <1>2
<1>4. QED
  BY <1>3 DEF Headed, TlvStart

LEMMA LayoutAccepted ==
  ASSUME NEW b \in Bytes, NEW h \in Bytes, NEW t \in Nat, NEW k,
         NEW d \in Bytes, NEW kh \in Bytes, NEW s \in Bytes, NEW n,
         d = Digest(h), kh = KeyHash(k), n = s[2] + 2,
         Layout(b, h, t, SHA256, d, kh, s),
         16 < t, t <= 20 + Len(s), SubSeq(s, 1, n) = Signature(k, d, n)
  PROVE  Accepted(b, k)
<1>1. PICK l \in Nat, m \in Nat : l = Len(h) /\ m = Len(s)
  BY LenIs
<1>2. PICK start \in Nat \ {0}, u \in Nat \ {0}, p \in Nat \ {0}, end \in Nat :
        start = l + 1 /\ u = start + 2 /\ p = start + 4 /\ end = start + t
  OBVIOUS
<1>3. /\ TlvStart(b) = start /\ At(b, 1, h) /\ At(b, start, InfoMagic) /\ At(b, u, U16(t))
      /\ Three(b, p, SHA256, d, kh, s)
  <2>a. Headed(h) /\ At(b, 1, h)
    BY DEF Layout
  <2>b. TlvStart(b) = Len(h) + 1
    BY <2>a, LayoutStart
  <2>1. /\ At(b, 1, h)
        /\ At(b, Len(h) + 1, InfoMagic) /\ At(b, Len(h) + 3, U16(t))
        /\ Three(b, Len(h) + 5, SHA256, d, kh, s)
    BY DEF Layout
  <2>2. Len(h) + 1 = start /\ Len(h) + 3 = u /\ Len(h) + 5 = p
    BY <1>1, <1>2
  <2>3. QED
    BY <2>1, <2>2, <2>b
<1>4. b[1] = 61
  BY <1>3, LayoutStart DEF Layout
<1>5. SubSeq(b, 1, start - 1) = h
  <2>1. PICK one \in Nat \ {0} : one = 1
    OBVIOUS
  <2>2. SubSeq(b, one, one + Len(h) - 1) = h
    BY <2>1, <1>3, AtSubSeq
  <2>3. one + Len(h) - 1 = start - 1
    BY <2>1, <1>1, <1>2
  <2>4. QED
    BY <2>1, <2>2, <2>3
<1>6. SubSeq(b, start, start + 1) = InfoMagic
  <2>1. InfoMagic \in Bytes /\ Len(InfoMagic) = 2
    BY DEF InfoMagic, Bytes
  <2>2. SubSeq(b, start, start + Len(InfoMagic) - 1) = InfoMagic
    BY <2>1, <1>3, AtSubSeq
  <2>3. start + Len(InfoMagic) - 1 = start + 1
    BY <2>1
  <2>4. QED
    BY <2>2, <2>3
<1>7. U16At(b, start + 2) = t
  BY <1>2, <1>3, U16Read
<1>8. Verified(b, start + 4, start + U16At(b, start + 2)) = {p, p + 6, p + 12}
  <2>1. p + 12 < end /\ end <= p + 16 + Len(s)
    BY <1>1, <1>2
  <2>2. SHA256 \in Kinds
    BY DEF Kinds
  <2>3. Verified(b, p, end) = {p, p + 6, p + 12}
    BY <2>1, <2>2, <1>3, VerifiedThree
  <2>4. QED
    BY <2>3, <1>2, <1>7
<1>9. /\ U16At(b, p) = SHA256 /\ Data(b, p) = d
      /\ U16At(b, p + 6) = KEYHASH /\ Data(b, p + 6) = kh
      /\ U16At(b, p + 12) = ECDSASIG /\ Data(b, p + 12) = s
  <2>1. SHA256 \in Kinds
    BY DEF Kinds
  <2>2. QED
    BY <2>1, <1>3, ThreeRead
<1> DEFINE entries == {p, p + 6, p + 12}
           Of(kind) == {Data(b, x) : x \in {q \in entries : U16At(b, q) = kind}}
<1>10. {q \in entries : U16At(b, q) = SHA256} = {p}
  BY <1>9, KindsDiffer
<1>11. {q \in entries : U16At(b, q) = KEYHASH} = {p + 6}
  BY <1>9, KindsDiffer
<1>12. {q \in entries : U16At(b, q) = ECDSASIG} = {p + 12}
  BY <1>9, KindsDiffer
<1>13. Of(SHA256) = {d}
  BY <1>9, <1>10
<1>14. Of(KEYHASH) = {kh}
  BY <1>9, <1>11
<1>15. s \in Of(ECDSASIG)
  BY <1>9, <1>12
<1>16. 0 \notin entries
  OBVIOUS
<1> HIDE DEF entries
<1>17. SubSeq(s, 1, s[2] + 2) = Signature(k, d, s[2] + 2)
  OBVIOUS
<1> DEFINE start1 == TlvStart(b)
           d1 == Digest(SubSeq(b, 1, start1 - 1))
           entries1 == Verified(b, start1 + 4, start1 + U16At(b, start1 + 2))
           Of1(kind) == {Data(b, x) : x \in {q \in entries1 : U16At(b, q) = kind}}
<1>18. start1 = start /\ d1 = d /\ entries1 = entries
  BY <1>3, <1>5, <1>8 DEF entries
<1>19. Of1(SHA256) = {d} /\ Of1(KEYHASH) = {kh} /\ s \in Of1(ECDSASIG)
  BY <1>13, <1>14, <1>15, <1>18
<1>20. \E z \in Of1(ECDSASIG) : SubSeq(z, 1, z[2] + 2) = Signature(k, d1, z[2] + 2)
  BY <1>17, <1>18, <1>19
<1> HIDE DEF Of, Of1, entries1, d1
<1>21. /\ b[1] = 61 /\ SubSeq(b, start1, start1 + 1) = InfoMagic /\ 0 \notin entries1
       /\ Of1(SHA256) = {d1} /\ Of1(KEYHASH) = {KeyHash(k)}
       /\ \E z \in Of1(ECDSASIG) : SubSeq(z, 1, z[2] + 2) = Signature(k, d1, z[2] + 2)
  BY <1>4, <1>6, <1>16, <1>18, <1>19, <1>20
<1>22. QED
  BY <1>21 DEF Accepted, Of1, entries1, d1, start1

LEMMA SignatureIs ==
  ASSUME NEW k \in Nat, NEW d \in Bytes, Len(d) = 2, NEW n \in Nat, n >= 4
  PROVE  LET s == Signature(k, d, n) IN
         /\ s \in Bytes /\ Len(s) = n /\ s[2] + 2 = n
         /\ SubSeq(s, 1, n) = s /\ s[n - 1] = s[n]
<1>1. PICK v \in Nat : v = 64 + 8 * k + (d[1] % 8)
  <2>1. d[1] \in Nat
    BY DEF Bytes
  <2>2. d[1] % 8 \in Nat
    BY <2>1
  <2>3. QED
    BY <2>2
<1>2. PICK m \in Nat : m = n - 2 /\ m >= 2
  OBVIOUS
<1> DEFINE t == [i \in 1..m |-> v]
           c == <<48, m>>
           s == c \o t
<1>3. Signature(k, d, n) = s
  BY <1>1, <1>2 DEF Signature
<1>4. t \in [1..m -> Nat] /\ \A i \in 1..m : t[i] = v
  OBVIOUS
<1>5. t \in Bytes /\ Len(t) = m
  BY <1>4 DEF Bytes
<1>6. c \in Bytes /\ Len(c) = 2 /\ c[2] = m
  BY DEF Bytes
<1> HIDE DEF c, t
<1>7. s \in Bytes /\ Len(s) = Len(c) + Len(t)
  BY <1>5, <1>6, ConcatIs
<1>8. \A i \in 1..Len(c) + Len(t) : s[i] = IF i <= Len(c) THEN c[i] ELSE t[i - Len(c)]
  BY <1>5, <1>6, ConcatProperties DEF Bytes
<1> HIDE DEF s
<1>9. Len(s) = n /\ \A i \in 1..n : s[i] = IF i <= 2 THEN c[i] ELSE t[i - 2]
  <2>1. Len(c) + Len(t) = n
    BY <1>2, <1>5, <1>6
  <2>2. QED
    BY <2>1, <1>6, <1>7, <1>8
<1>10. s[2] = m
  <2>1. 2 \in 1..n
    OBVIOUS
  <2>2. QED
    BY <2>1, <1>6, <1>9
<1>11. s[n - 1] = v /\ s[n] = v
  <2>1. /\ n - 1 \in 1..n /\ n \in 1..n /\ ~ (n - 1 <= 2) /\ ~ (n <= 2)
        /\ n - 1 - 2 \in 1..m /\ n - 2 \in 1..m
    BY <1>2
  <2>2. QED
    BY <2>1, <1>4, <1>9 DEF t
<1>12. SubSeq(s, 1, n) = s
  BY <1>7, <1>9, SubSeqFull DEF Bytes
<1>13. QED
  BY <1>2, <1>3, <1>7, <1>9, <1>10, <1>11, <1>12

-----------------------------------------------------------------------------
(* What imgtool makes                                                      *)
LEMMA AtSelf == ASSUME NEW b \in Bytes PROVE At(b, 1, b)
<1>1. PICK l \in Nat : l = Len(b)
  BY LenIs
<1>2. 1 + l - 1 <= l /\ \A i \in 1..l : 1 + i - 1 = i
  OBVIOUS
<1>3. QED
  BY <1>1, <1>2 DEF At

LEMMA AtPrefix ==
  ASSUME NEW b \in Bytes, NEW c \in Bytes, NEW p \in Nat \ {0}, NEW s \in Bytes, At(b, p, s)
  PROVE  At(b \o c, p, s)
<1>1. PICK l \in Nat, m \in Nat, n \in Nat : l = Len(b) /\ m = Len(c) /\ n = Len(s)
  BY LenIs
<1> DEFINE r == b \o c
<1>2. /\ Len(r) = Len(b) + Len(c)
      /\ \A i \in 1..Len(b) + Len(c) : r[i] = IF i <= Len(b) THEN b[i] ELSE c[i - Len(b)]
  BY ConcatProperties DEF Bytes
<1> HIDE DEF r
<1>3. Len(r) = l + m /\ \A i \in 1..l + m : r[i] = IF i <= l THEN b[i] ELSE c[i - l]
  BY <1>1, <1>2
<1>4. p + n - 1 <= l /\ \A i \in 1..n : b[p + i - 1] = s[i]
  BY <1>1 DEF At
<1>5. ASSUME NEW i \in 1..n
      PROVE  r[p + i - 1] = s[i]
  <2>1. p + i - 1 \in 1..l + m /\ p + i - 1 <= l
    BY <1>4
  <2>2. QED
    BY <2>1, <1>3, <1>4
<1>6. p + n - 1 <= l + m
  BY <1>4
<1>7. QED
  BY <1>1, <1>3, <1>5, <1>6 DEF At, r

LEMMA AtAfter ==
  ASSUME NEW b \in Bytes, NEW c \in Bytes, NEW p \in Nat \ {0}, NEW s \in Bytes, At(c, p, s)
  PROVE  At(b \o c, Len(b) + p, s)
<1>1. PICK l \in Nat, m \in Nat, n \in Nat : l = Len(b) /\ m = Len(c) /\ n = Len(s)
  BY LenIs
<1> DEFINE r == b \o c
<1>2. /\ Len(r) = Len(b) + Len(c)
      /\ \A i \in 1..Len(b) + Len(c) : r[i] = IF i <= Len(b) THEN b[i] ELSE c[i - Len(b)]
  BY ConcatProperties DEF Bytes
<1> HIDE DEF r
<1>3. Len(r) = l + m /\ \A i \in 1..l + m : r[i] = IF i <= l THEN b[i] ELSE c[i - l]
  BY <1>1, <1>2
<1>4. p + n - 1 <= m /\ \A i \in 1..n : c[p + i - 1] = s[i]
  BY <1>1 DEF At
<1>5. ASSUME NEW i \in 1..n
      PROVE  r[l + p + i - 1] = s[i]
  <2>1. l + p + i - 1 \in 1..l + m /\ ~ (l + p + i - 1 <= l) /\ l + p + i - 1 - l = p + i - 1
    BY <1>4
  <2>2. QED
    BY <2>1, <1>3, <1>4
<1>6. l + p + n - 1 <= l + m
  BY <1>4
<1>7. QED
  BY <1>1, <1>3, <1>5, <1>6 DEF At, r

LEMMA HeaderIs ==
  ASSUME NEW b \in Bytes, HeaderSize \in Nat, HeaderSize <= Len(b), 2 <= Len(b)
  PROVE  AddHeader(b) \in Bytes /\ Len(AddHeader(b)) = Len(b) /\ Headed(AddHeader(b))
<1>1. PICK l \in Nat, m \in Nat : l = Len(b) /\ m = Len(b) - HeaderSize
  BY LenIs
<1>2. <<61, m>> \in Bytes /\ Len(<<61, m>>) = 2
  BY DEF Bytes
<1> DEFINE r == Overwrite(b, 1, <<61, m>>)
<1>3. AddHeader(b) = r
  BY <1>1 DEF AddHeader
<1>4. PICK one \in Nat \ {0}, x \in Bytes : one = 1 /\ x = <<61, m>> /\ Len(x) = 2
  BY <1>2
<1>5. /\ Overwrite(b, one, x) \in Bytes /\ Len(Overwrite(b, one, x)) = Len(b)
      /\ one + Len(x) - 1 <= Len(b) => At(Overwrite(b, one, x), one, x)
  BY OverwriteKeeps
<1>6. Overwrite(b, one, x) = r
  BY <1>4
<1>7. one + Len(x) - 1 <= Len(b)
  BY <1>1, <1>4
<1> HIDE DEF r
<1>8. r \in Bytes /\ Len(r) = l /\ At(r, 1, x)
  BY <1>1, <1>4, <1>5, <1>6, <1>7
<1>9. r[1] = 61 /\ r[2] = m
  <2>1. \A i \in 1..2 : r[1 + i - 1] = x[i]
    BY <1>4, <1>8 DEF At
  <2>2. 1 \in 1..2 /\ 2 \in 1..2 /\ 1 + 1 - 1 = 1 /\ 1 + 2 - 1 = 2
    OBVIOUS
  <2>3. r[1] = x[1] /\ r[2] = x[2]
    BY <2>1, <2>2
  <2>4. QED
    BY <2>3, <1>4
<1>10. HeaderSize + m = l
  BY <1>1
<1>11. QED
  BY <1>1, <1>3, <1>8, <1>9, <1>10 DEF Headed

LEMMA PadSigIs ==
  ASSUME NEW sig \in Bytes, SigLen \in Nat, Len(sig) <= SigLen
  PROVE  PadSig(sig) \in Bytes /\ Len(PadSig(sig)) = SigLen
<1>1. PICK n \in Nat : n = SigLen - Len(sig)
  BY LenIs
<1> DEFINE z == [i \in 1..n |-> 0]
<1>2. z \in [1..n -> Nat]
  OBVIOUS
<1>3. z \in Bytes /\ Len(z) = n
  BY <1>2 DEF Bytes
<1>4. PadSig(sig) = sig \o z
  BY <1>1 DEF PadSig
<1> HIDE DEF z
<1>5. sig \o z \in Bytes /\ Len(sig \o z) = Len(sig) + Len(z)
  BY <1>3, ConcatIs, Zenon
<1>6. Len(sig) + Len(z) = SigLen
  BY <1>1, <1>3, LenIs
<1>7. QED
  BY <1>4, <1>5, <1>6

LEMMA KeyHashIs == \A k \in Nat : KeyHash(k) \in Bytes /\ Len(KeyHash(k)) = 2
BY DEF KeyHash, Bytes

LEMMA InfoMagicIs == InfoMagic \in Bytes /\ Len(InfoMagic) = 2
BY DEF InfoMagic, Bytes

(* The area behind the payload: where its parts stand                      *)
LEMMA AreaIs ==
  ASSUME NEW kind \in Nat, NEW d \in Bytes, Len(d) = 2, NEW kh \in Bytes, Len(kh) = 2,
         NEW s \in Bytes
  PROVE  LET area == TlvArea(Tlv(kind, d) \o Tlv(KEYHASH, kh) \o Tlv(ECDSASIG, s)) IN
         /\ area \in Bytes /\ Len(area) = 20 + Len(s)
         /\ At(area, 1, InfoMagic) /\ At(area, 3, U16(20 + Len(s)))
         /\ At(area, 5, Tlv(kind, d)) /\ At(area, 11, Tlv(KEYHASH, kh))
         /\ At(area, 17, Tlv(ECDSASIG, s))
<1>1. PICK m \in Nat : m = Len(s)
  BY LenIs
<1>2. PICK x1 \in Bytes, x2 \in Bytes, x3 \in Bytes :
        /\ x1 = Tlv(kind, d) /\ x2 = Tlv(KEYHASH, kh) /\ x3 = Tlv(ECDSASIG, s)
        /\ Len(x1) = 6 /\ Len(x2) = 6 /\ Len(x3) = 4 + m
  <2>1. KEYHASH \in Nat /\ ECDSASIG \in Nat
    BY DEF KEYHASH, ECDSASIG
  <2>2. /\ Tlv(kind, d) \in Bytes /\ Len(Tlv(kind, d)) = 4 + Len(d)
        /\ Tlv(KEYHASH, kh) \in Bytes /\ Len(Tlv(KEYHASH, kh)) = 4 + Len(kh)
        /\ Tlv(ECDSASIG, s) \in Bytes /\ Len(Tlv(ECDSASIG, s)) = 4 + Len(s)
    BY <2>1, TlvIs
  <2>3. QED
    BY <2>2, <1>1
<1>3. PICK y \in Bytes : y = x1 \o x2 /\ Len(y) = 12
  <2>1. x1 \o x2 \in Bytes /\ Len(x1 \o x2) = Len(x1) + Len(x2)
    BY ConcatIs, Zenon
  <2>2. Len(x1) + Len(x2) = 12
    BY <1>2
  <2>3. QED
    BY <2>1, <2>2
<1>4. PICK z \in Bytes : z = y \o x3 /\ Len(z) = 16 + m
  <2>1. y \o x3 \in Bytes /\ Len(y \o x3) = Len(y) + Len(x3)
    BY ConcatIs, Zenon
  <2>2. Len(y) + Len(x3) = 16 + m
    BY <1>2, <1>3
  <2>3. QED
    BY <2>1, <2>2
<1>5. PICK u \in Bytes : u = U16(20 + m) /\ Len(u) = 2
  <2>1. 20 + m \in Nat
    OBVIOUS
  <2>2. QED
    BY <2>1, U16Is
<1>6. PICK g \in Bytes : g = InfoMagic /\ Len(g) = 2
  BY InfoMagicIs
<1>7. PICK i \in Bytes : i = g \o u /\ Len(i) = 4
  <2>1. g \o u \in Bytes /\ Len(g \o u) = Len(g) + Len(u)
    BY ConcatIs, Zenon
  <2>a. Len(g) = 2 /\ Len(u) = 2
    BY <1>5, <1>6, Zenon
  <2>2. Len(g) + Len(u) = 4
    BY <2>a
  <2>3. QED
    BY <2>1, <2>2
<1>8. PICK a \in Bytes : a = i \o z /\ Len(a) = 20 + m
  <2>1. i \o z \in Bytes /\ Len(i \o z) = Len(i) + Len(z)
    BY ConcatIs, Zenon
  <2>2. Len(i) + Len(z) = 20 + m
    BY <1>4, <1>7
  <2>3. QED
    BY <2>1, <2>2
<1>9. TlvArea(Tlv(kind, d) \o Tlv(KEYHASH, kh) \o Tlv(ECDSASIG, s)) = a
  <2>1. TlvArea(z) = InfoMagic \o U16(4 + Len(z)) \o z
    BY DEF TlvArea
  <2>2. 4 + Len(z) = 20 + m
    BY <1>4
  <2>3. QED
    BY <2>1, <2>2, <1>2, <1>3, <1>4, <1>5, <1>6, <1>7, <1>8
<1>10. PICK n1 \in Nat \ {0}, n3 \in Nat \ {0}, n5 \in Nat \ {0}, n11 \in Nat \ {0},
            n17 \in Nat \ {0} : n1 = 1 /\ n3 = 3 /\ n5 = 5 /\ n11 = 11 /\ n17 = 17
  OBVIOUS
<1>11. At(a, n1, a)
  BY <1>10, AtSelf
<1>12. At(a, n1, i) /\ At(a, n5, z)
  <2>1. At(a, n1, i) /\ At(a, n1 + Len(i), z)
    BY <1>8, <1>11, AtConcat
  <2>2. n1 + Len(i) = n5
    BY <1>7, <1>10
  <2>3. QED
    BY <2>1, <2>2
<1>13. At(a, n1, g) /\ At(a, n3, u)
  <2>1. At(a, n1, g) /\ At(a, n1 + Len(g), u)
    BY <1>7, <1>12, AtConcat
  <2>2. n1 + Len(g) = n3
    BY <1>6, <1>10
  <2>3. QED
    BY <2>1, <2>2
<1>14. At(a, n5, y) /\ At(a, n17, x3)
  <2>1. At(a, n5, y) /\ At(a, n5 + Len(y), x3)
    BY <1>4, <1>12, AtConcat
  <2>2. n5 + Len(y) = n17
    BY <1>3, <1>10
  <2>3. QED
    BY <2>1, <2>2
<1>15. At(a, n5, x1) /\ At(a, n11, x2)
  <2>1. At(a, n5, x1) /\ At(a, n5 + Len(x1), x2)
    BY <1>3, <1>14, AtConcat
  <2>2. n5 + Len(x1) = n11
    BY <1>2, <1>10
  <2>3. QED
    BY <2>1, <2>2
<1>16. QED
  BY <1>1, <1>2, <1>5, <1>6, <1>8, <1>9, <1>10, <1>13, <1>14, <1>15

(* Behind the entries of an image comes nothing, or the erased bytes up to *)
(* the end of the slot.                                                    *)
Ended(b, e) == Len(b) = e - 1 \/ (Len(b) = SlotSize /\ At(b, e, FF(4)))

Sizes ==
  /\ HeaderSize \in Nat /\ SlotSize \in Nat /\ TrailerSize \in Nat /\ SigLen \in Nat
  /\ HeaderSize >= 2 /\ TrailerSize >= 6 /\ SigLen >= 4

HashKind(k) == IF k \in Wide THEN SHA384 ELSE SHA256

LEMMA CreateIs ==
  ASSUME Sizes, NEW payload \in Bytes, HeaderSize <= Len(payload), NEW k,
         NEW sig \in Bytes, Len(sig) <= SigLen
  PROVE  LET h == AddHeader(payload)
             b == Create(payload, k, sig) IN
         /\ h \in Bytes /\ b \in Bytes /\ Len(b) = Len(h) + 20 + SigLen
         /\ Layout(b, h, 20 + SigLen, HashKind(k), Digest(h), KeyHash(TempKey), PadSig(sig))
<1>1. PICK h \in Bytes : h = AddHeader(payload) /\ Headed(h) /\ Len(h) = Len(payload)
  <2>1. HeaderSize \in Nat /\ 2 <= Len(payload)
    BY LenIs DEF Sizes
  <2>2. QED
    BY <2>1, HeaderIs
<1>2. PICK s \in Bytes : s = PadSig(sig) /\ Len(s) = SigLen
  BY PadSigIs DEF Sizes
<1>3. PICK d \in Bytes : d = Digest(h) /\ Len(d) = 2
  BY DigestIs
<1>4. PICK kh \in Bytes : kh = KeyHash(TempKey) /\ Len(kh) = 2
  <2>1. TempKey \in Nat
    BY DEF TempKey
  <2>2. QED
    BY <2>1, KeyHashIs
<1>5. PICK kind \in Nat : kind = HashKind(k)
  BY DEF HashKind, SHA256, SHA384
<1>6. PICK a \in Bytes : a = TlvArea(Tlv(kind, d) \o Tlv(KEYHASH, kh) \o Tlv(ECDSASIG, s))
  BY <1>3, <1>4, AreaIs
<1>7. /\ Len(a) = 20 + Len(s)
      /\ At(a, 1, InfoMagic) /\ At(a, 3, U16(20 + Len(s)))
      /\ At(a, 5, Tlv(kind, d)) /\ At(a, 11, Tlv(KEYHASH, kh))
      /\ At(a, 17, Tlv(ECDSASIG, s))
  BY <1>3, <1>4, <1>6, AreaIs
<1>8. Create(payload, k, sig) = h \o a
  BY <1>1, <1>2, <1>3, <1>4, <1>5, <1>6, Zenon DEF Create, HashKind
<1>9. PICK b \in Bytes : b = h \o a /\ Len(b) = Len(h) + Len(a)
  BY ConcatIs, Zenon
<1>10. PICK l \in Nat, m \in Nat : l = Len(h) /\ m = SigLen
  BY LenIs DEF Sizes
<1>11. Len(b) = l + 20 + m
  BY <1>2, <1>7, <1>9, <1>10
<1>12. PICK n1 \in Nat \ {0}, n3 \in Nat \ {0}, n5 \in Nat \ {0}, n11 \in Nat \ {0},
            n17 \in Nat \ {0} : n1 = 1 /\ n3 = 3 /\ n5 = 5 /\ n11 = 11 /\ n17 = 17
  OBVIOUS
<1>13. PICK t \in Nat, u \in Bytes : t = 20 + m /\ u = U16(t)
  <2>1. 20 + m \in Nat
    OBVIOUS
  <2>2. QED
    BY <2>1, U16Is
<1>14. PICK x1 \in Bytes, x2 \in Bytes, x3 \in Bytes :
         x1 = Tlv(kind, d) /\ x2 = Tlv(KEYHASH, kh) /\ x3 = Tlv(ECDSASIG, s)
  <2>1. KEYHASH \in Nat /\ ECDSASIG \in Nat
    BY DEF KEYHASH, ECDSASIG
  <2>2. QED
    BY <2>1, TlvIs
<1>15. At(a, n1, InfoMagic) /\ At(a, n3, u) /\ At(a, n5, x1) /\ At(a, n11, x2) /\ At(a, n17, x3)
  BY <1>2, <1>7, <1>10, <1>12, <1>13, <1>14
<1>16. /\ At(b, Len(h) + n1, InfoMagic) /\ At(b, Len(h) + n3, u) /\ At(b, Len(h) + n5, x1)
       /\ At(b, Len(h) + n11, x2) /\ At(b, Len(h) + n17, x3)
  BY <1>9, <1>15, InfoMagicIs, AtAfter
<1>17. At(b, n1, h)
  <2>1. At(h, n1, h)
    BY <1>12, AtSelf
  <2>2. QED
    BY <2>1, <1>9, AtPrefix
<1>18. Len(h) + n11 = Len(h) + 5 + 6 /\ Len(h) + n17 = Len(h) + 5 + 12
  BY <1>10, <1>12
<1>19. Three(b, Len(h) + 5, kind, d, kh, s)
  <2>1. Len(s) >= 4
    BY <1>2 DEF Sizes
  <2>2. QED
    BY <2>1, <1>3, <1>4, <1>12, <1>14, <1>16, <1>18 DEF Three
<1>20. Layout(b, h, t, kind, d, kh, s)
  BY <1>1, <1>12, <1>13, <1>16, <1>17, <1>19 DEF Layout
<1>21. QED
  BY <1>1, <1>2, <1>3, <1>4, <1>5, <1>8, <1>9, <1>10, <1>11, <1>13, <1>20

LEMMA PadToIs ==
  ASSUME Sizes, NEW b \in Bytes, FitsSlot(b)
  PROVE  /\ PadTo(b) \in Bytes /\ Len(PadTo(b)) = SlotSize
         /\ At(PadTo(b), Len(b) + 1, FF(4))
         /\ \A p \in Nat \ {0}, s \in Bytes : At(b, p, s) => At(PadTo(b), p, s)
<1>1. PICK l \in Nat, n \in Nat : l = Len(b) /\ n = SlotSize - Len(b) - 2 /\ n >= 4
  <2>1. PICK m \in Nat, c \in Nat, e \in Nat :
          m = Len(b) /\ c = SlotSize /\ e = TrailerSize /\ e >= 6
    BY LenIs DEF Sizes
  <2>2. m + e <= c
    BY <2>1 DEF FitsSlot
  <2>3. c - m - 2 \in Nat /\ c - m - 2 >= 4
    BY <2>1, <2>2
  <2>4. QED
    BY <2>1, <2>3
<1>2. PICK f \in Bytes : f = FF(n) /\ Len(f) = n /\ \A i \in 1..n : f[i] = 255
  BY FFIs
<1>3. PICK z \in Bytes : z = <<1, 119>> /\ Len(z) = 2
  <2>1. <<1, 119>> \in Bytes /\ Len(<<1, 119>>) = 2
    BY DEF Bytes
  <2>2. QED
    BY <2>1
<1>4. PICK c \in Bytes : c = b \o f /\ Len(c) = l + n
  <2>1. b \o f \in Bytes /\ Len(b \o f) = Len(b) + Len(f)
    BY ConcatIs, Zenon
  <2>2. QED
    BY <2>1, <1>1, <1>2
<1>5. PICK r \in Bytes : r = c \o z /\ Len(r) = l + n + 2
  <2>1. c \o z \in Bytes /\ Len(c \o z) = Len(c) + Len(z)
    BY ConcatIs, Zenon
  <2>2. QED
    BY <2>1, <1>3, <1>4
<1>6. PadTo(b) = r
  BY <1>1, <1>2, <1>3, <1>4, <1>5, Zenon DEF PadTo
<1>7. l + n + 2 = SlotSize
  BY <1>1 DEF Sizes
<1>8. ASSUME NEW p \in Nat \ {0}, NEW s \in Bytes, At(b, p, s)
      PROVE  At(r, p, s)
  <2>1. At(c, p, s)
    BY <1>4, <1>8, AtPrefix
  <2>2. QED
    BY <2>1, <1>5, AtPrefix
<1>9. PICK one \in Nat \ {0}, four \in Nat, q \in Nat \ {0} : one = 1 /\ four = 4 /\ q = l + 1
  OBVIOUS
<1>10. PICK g \in Bytes : g = FF(four) /\ Len(g) = four /\ \A i \in 1..four : g[i] = 255
  BY FFIs
<1>11. At(f, one, g)
  <2>1. \A i \in 1..four : one + i - 1 = i /\ i \in 1..n
    BY <1>1, <1>9
  <2>2. one + Len(g) - 1 <= Len(f)
    <3>1. Len(g) = four /\ Len(f) = n
      BY <1>2, <1>10, Zenon
    <3>2. one + four - 1 <= n
      BY <1>1, <1>9
    <3>3. QED
      BY <3>1, <3>2
  <2>3. \A i \in 1..Len(g) : f[one + i - 1] = g[i]
    BY <2>1, <1>2, <1>10
  <2>4. QED
    BY <2>2, <2>3 DEF At
<1>12. At(c, Len(b) + one, g)
  BY <1>4, <1>11, AtAfter
<1>13. At(r, q, g)
  <2>1. Len(b) + one = q
    BY <1>1, <1>9
  <2>2. At(c, q, g)
    BY <2>1, <1>12
  <2>3. QED
    BY <2>2, <1>5, AtPrefix
<1>14. QED
  BY <1>1, <1>5, <1>6, <1>7, <1>8, <1>9, <1>10, <1>13

(* An image keeps its layout when more is put behind it, or when bytes of  *)
(* it are kept elsewhere.                                                  *)
Preserves(b, c) == \A p \in Nat \ {0}, s \in Bytes : At(b, p, s) => At(c, p, s)

LEMMA LayoutPreserved ==
  ASSUME NEW b \in Bytes, NEW c \in Bytes, Preserves(b, c),
         NEW h \in Bytes, NEW t \in Nat, NEW kind \in Nat, NEW d \in Bytes, NEW kh \in Bytes,
         NEW s \in Bytes, Layout(b, h, t, kind, d, kh, s)
  PROVE  Layout(c, h, t, kind, d, kh, s)
<1>1. PICK u \in Bytes, g \in Bytes : u = U16(t) /\ g = InfoMagic
  BY U16Is, InfoMagicIs
<1>2. PICK x1 \in Bytes, x2 \in Bytes, x3 \in Bytes :
         x1 = Tlv(kind, d) /\ x2 = Tlv(KEYHASH, kh) /\ x3 = Tlv(ECDSASIG, s)
  <2>1. KEYHASH \in Nat /\ ECDSASIG \in Nat
    BY DEF KEYHASH, ECDSASIG
  <2>2. QED
    BY <2>1, TlvIs
<1>3. PICK n1 \in Nat \ {0}, n2 \in Nat \ {0}, n3 \in Nat \ {0}, n5 \in Nat \ {0},
           n11 \in Nat \ {0}, n17 \in Nat \ {0} :
         /\ n1 = 1 /\ n2 = Len(h) + 1 /\ n3 = Len(h) + 3 /\ n5 = Len(h) + 5
         /\ n11 = Len(h) + 5 + 6 /\ n17 = Len(h) + 5 + 12
  <2>1. PICK l \in Nat : l = Len(h)
    BY LenIs
  <2>2. PICK n1 \in Nat \ {0}, n2 \in Nat \ {0}, n3 \in Nat \ {0}, n5 \in Nat \ {0} :
          n1 = 1 /\ n2 = l + 1 /\ n3 = l + 3 /\ n5 = l + 5
    OBVIOUS
  <2>3. PICK n11 \in Nat \ {0}, n17 \in Nat \ {0} : n11 = l + 5 + 6 /\ n17 = l + 5 + 12
    OBVIOUS
  <2>4. QED
    BY <2>1, <2>2, <2>3, Zenon
<1>4. /\ At(b, n1, h) /\ At(b, n2, g) /\ At(b, n3, u) /\ At(b, n5, x1) /\ At(b, n11, x2)
      /\ At(b, n17, x3)
  BY <1>1, <1>2, <1>3 DEF Layout, Three
<1>5. /\ At(c, n1, h) /\ At(c, n2, g) /\ At(c, n3, u) /\ At(c, n5, x1) /\ At(c, n11, x2)
      /\ At(c, n17, x3)
  BY <1>4 DEF Preserves
<1>6. Len(d) = 2 /\ Len(kh) = 2 /\ Len(s) >= 4 /\ Headed(h)
  BY DEF Layout, Three
<1>7. QED
  BY <1>1, <1>2, <1>3, <1>5, <1>6 DEF Layout, Three

(* The image with the hash kh of a key and a signature s of full length,   *)
(* made for a key with the hash of the kind given                          *)
Made(b, h, kind, kh, s) ==
  /\ b \in Bytes /\ h \in Bytes /\ s \in Bytes /\ Len(s) = SigLen
  /\ Layout(b, h, 20 + SigLen, kind, Digest(h), kh, s)
  /\ Ended(b, Len(h) + 21 + SigLen)

LEMMA ImgtoolImage ==
  ASSUME Sizes, NEW input \in Bytes, HeaderSize <= Len(input), NEW o, NEW k, NEW m \in Nat,
         4 <= m, m <= SigLen, ImgtoolSign(input, o, k, m) # <<>>
  PROVE  \E h \in Bytes, s \in Bytes :
           Made(ImgtoolSign(input, o, k, m), h, HashKind(k), KeyHash(TempKey), s)
<1>1. PICK payload \in Bytes : payload = Payload(input, o.padHeader) /\ HeaderSize <= Len(payload)
  <2>1. CASE o.padHeader
    <3>1. FF(HeaderSize) \in Bytes /\ Len(FF(HeaderSize)) = HeaderSize
      BY FFIs DEF Sizes
    <3>2. /\ FF(HeaderSize) \o input \in Bytes
          /\ Len(FF(HeaderSize) \o input) = Len(FF(HeaderSize)) + Len(input)
      BY <3>1, ConcatIs, Zenon
    <3>3. HeaderSize <= HeaderSize + Len(input)
      BY LenIs DEF Sizes
    <3>4. QED
      BY <2>1, <3>1, <3>2, <3>3 DEF Payload
  <2>2. CASE ~o.padHeader
    BY <2>2 DEF Payload
  <2>3. QED
    BY <2>1, <2>2
<1>2. PICK h \in Bytes : h = AddHeader(payload)
  <2>1. HeaderSize \in Nat /\ 2 <= Len(payload)
    BY <1>1, LenIs DEF Sizes
  <2>2. QED
    BY <2>1, <1>1, HeaderIs
<1>3. PICK d \in Bytes : d = Digest(h) /\ Len(d) = 2
  BY DigestIs
<1>4. PICK sig \in Bytes : sig = Signature(TempKey, d, m) /\ Len(sig) <= SigLen
  <2>1. TempKey \in Nat
    BY DEF TempKey
  <2>2. QED
    BY <2>1, <1>3, SignatureIs
<1>5. PICK b \in Bytes :
        /\ b = Create(payload, k, sig) /\ Len(b) = Len(h) + 20 + SigLen
        /\ Layout(b, h, 20 + SigLen, HashKind(k), Digest(h), KeyHash(TempKey), PadSig(sig))
  BY <1>1, <1>2, <1>4, CreateIs
<1>6. PICK s \in Bytes : s = PadSig(sig) /\ Len(s) = SigLen
  BY <1>4, PadSigIs DEF Sizes
<1>7. Len(b) + 1 = Len(h) + 21 + SigLen
  BY <1>5, LenIs DEF Sizes
<1> DEFINE r == ImgtoolSign(input, o, k, m)
<1>8. FitsSlot(b) /\ r = IF o.pad THEN PadTo(b) ELSE b
  BY <1>1, <1>2, <1>3, <1>4, <1>5, Zenon DEF ImgtoolSign
<1> HIDE DEF r
<1>9. CASE o.pad
  <2>1. PICK c \in Bytes : c = PadTo(b) /\ Len(c) = SlotSize /\ At(c, Len(b) + 1, FF(4))
    BY <1>8, PadToIs
  <2>2. Preserves(b, c)
    BY <1>8, <2>1, PadToIs DEF Preserves
  <2>3. PICK kind \in Nat, t \in Nat, kh \in Bytes :
          kind = HashKind(k) /\ t = 20 + SigLen /\ kh = KeyHash(TempKey)
    <3>1. HashKind(k) \in Nat
      BY DEF HashKind, SHA256, SHA384
    <3>2. 20 + SigLen \in Nat
      BY DEF Sizes
    <3>3. KeyHash(TempKey) \in Bytes
      BY KeyHashIs DEF TempKey
    <3>4. QED
      BY <3>1, <3>2, <3>3, Zenon
  <2>a. Layout(b, h, t, kind, d, kh, s)
    BY <1>3, <1>5, <1>6, <2>3, Zenon
  <2>b. Layout(c, h, t, kind, d, kh, s)
    BY <2>a, <2>2, LayoutPreserved
  <2>4. Layout(c, h, 20 + SigLen, HashKind(k), Digest(h), KeyHash(TempKey), s)
    BY <2>b, <2>3, <1>3, Zenon
  <2>5. Ended(c, Len(h) + 21 + SigLen)
    BY <2>1, <1>7 DEF Ended
  <2>6. r = c
    BY <1>8, <1>9, <2>1
  <2>7. QED
    BY <1>6, <2>4, <2>5, <2>6 DEF Made, r
<1>10. CASE ~o.pad
  <2>1. Len(b) = Len(h) + 21 + SigLen - 1
    BY <1>5, LenIs DEF Sizes
  <2>2. QED
    BY <1>5, <1>6, <1>8, <1>10, <2>1 DEF Made, Ended, r
<1>11. QED
  BY <1>9, <1>10

(* The entry the tool finds for each type                                  *)
LEMMA Found ==
  ASSUME NEW b \in Bytes, NEW h \in Bytes, NEW t, NEW kind \in Kinds,
         NEW d \in Bytes, NEW kh \in Bytes, NEW s \in Bytes,
         Layout(b, h, t, kind, d, kh, s), Closed(b, Len(h) + 21 + Len(s))
  PROVE  LET p == Len(h) + 5 IN
         /\ TlvStart(b) = Len(h) + 1 /\ Three(b, p, kind, d, kh, s)
         /\ EntryOf(b, SHA256) = IF kind = SHA256 THEN p ELSE 0
         /\ EntryOf(b, KEYHASH) = p + 6 /\ EntryOf(b, ECDSASIG) = p + 12
         /\ EndOfTlvs(b, p) = LET e == p + 16 + Len(s) IN
                              IF e <= Len(b) /\ e + 3 > Len(b) THEN 0 ELSE e
<1>1. PICK p \in Nat \ {0} : p = Len(h) + 5
  BY LenIs
<1>2. TlvStart(b) = Len(h) + 1 /\ Three(b, p, kind, d, kh, s)
  BY <1>1, LayoutStart DEF Layout
<1>3. p = TlvStart(b) + 4 /\ Len(h) + 21 + Len(s) = p + 16 + Len(s)
  BY <1>1, <1>2, LenIs
<1>a. Closed(b, p + 16 + Len(s))
  BY <1>3, Zenon
<1>4. /\ Entries(b) = {p, p + 6, p + 12}
      /\ EndOfTlvs(b, p) = LET e == p + 16 + Len(s) IN
                           IF e <= Len(b) /\ e + 3 > Len(b) THEN 0 ELSE e
  <2>1. Three(b, p, kind, d, kh, s)
    BY <1>2
  <2>2. p = TlvStart(b) + 4
    BY <1>3
  <2>3. /\ p = TlvStart(b) + 4 => Entries(b) = {p, p + 6, p + 12}
        /\ LET e == p + 16 + Len(s) IN
           EndOfTlvs(b, p) = IF e <= Len(b) /\ e + 3 > Len(b) THEN 0 ELSE e
    BY <2>1, <1>a, ThreeEntries
  <2>4. QED
    BY <2>2, <2>3, Zenon
<1>5. /\ U16At(b, p) = kind /\ U16At(b, p + 6) = KEYHASH /\ U16At(b, p + 12) = ECDSASIG
  BY <1>2, ThreeRead
<1>6. \A q \in Nat : Max({q}) = q
  BY DEF Max
<1>7. {q \in Entries(b) : U16At(b, q) = KEYHASH} = {p + 6}
  BY <1>4, <1>5, KindsDiffer DEF Kinds
<1>8. {q \in Entries(b) : U16At(b, q) = ECDSASIG} = {p + 12}
  BY <1>4, <1>5, KindsDiffer DEF Kinds
<1>9. {q \in Entries(b) : U16At(b, q) = SHA256} = IF kind = SHA256 THEN {p} ELSE {}
  BY <1>4, <1>5, KindsDiffer DEF Kinds
<1>10. p + 6 \in Nat /\ p + 12 \in Nat
  OBVIOUS
<1>11. EntryOf(b, KEYHASH) = p + 6
  BY <1>6, <1>7, <1>10 DEF EntryOf
<1>12. EntryOf(b, ECDSASIG) = p + 12
  BY <1>6, <1>8, <1>10 DEF EntryOf
<1>13. EntryOf(b, SHA256) = IF kind = SHA256 THEN p ELSE 0
  BY <1>6, <1>9, <1>10 DEF EntryOf
<1>14. QED
  BY <1>1, <1>2, <1>4, <1>11, <1>12, <1>13

LEMMA EndedIsClosed ==
  ASSUME NEW b \in Bytes, NEW e \in Nat, Ended(b, e)
  PROVE  Closed(b, e)
<1>1. Len(b) = e - 1 => e + 3 > Len(b)
  BY LenIs
<1>2. QED
  BY <1>1 DEF Ended, Closed

(* The data of an entry exchanged for as many bytes                        *)
LEMMA TlvReplaced ==
  ASSUME NEW b \in Bytes, NEW p \in Nat \ {0}, NEW kind \in Nat, NEW data \in Bytes,
         NEW new \in Bytes, Len(new) = Len(data), At(b, p, Tlv(kind, data))
  PROVE  At(Overwrite(b, p + 4, new), p, Tlv(kind, new))
<1>1. PICK n \in Nat, l \in Nat, q \in Nat \ {0} : n = Len(data) /\ l = Len(b) /\ q = p + 4
  <2>1. p + 4 \in Nat \ {0}
    OBVIOUS
  <2>2. QED
    BY <2>1, LenIs
<1>2. PICK w \in Bytes : w = U16(kind) \o U16(n) /\ Len(w) = 4
  <2>1. PICK u \in Bytes, v \in Bytes : /\ u = U16(kind) /\ v = U16(n)
                                        /\ Len(u) = 2 /\ Len(v) = 2
    BY U16Is
  <2>2. u \o v \in Bytes /\ Len(u \o v) = Len(u) + Len(v)
    BY ConcatIs, Zenon
  <2>3. Len(u) + Len(v) = 4
    BY <2>1
  <2>4. QED
    BY <2>1, <2>2, <2>3
<1>3. Tlv(kind, data) = w \o data /\ Tlv(kind, new) = w \o new
  BY <1>1, <1>2 DEF Tlv
<1>4. At(b, p, w) /\ At(b, q, data)
  <2>1. At(b, p, w) /\ At(b, p + Len(w), data)
    BY <1>3, AtConcat
  <2>2. QED
    BY <2>1, <1>1, <1>2
<1>5. PICK r \in Bytes : r = Overwrite(b, q, new) /\ Len(r) = l
  BY <1>1, OverwriteKeeps
<1>6. At(r, q, new)
  <2>1. q + Len(new) - 1 <= Len(b)
    BY <1>1, <1>4 DEF At
  <2>2. QED
    BY <2>1, <1>5, OverwriteKeeps
<1>7. At(r, p, w)
  <2>1. p + Len(w) <= q
    BY <1>1, <1>2
  <2>2. QED
    BY <2>1, <1>4, <1>5, OverwriteBeside
<1>8. At(r, p, w \o new)
  <2>1. p + Len(w) = q
    BY <1>1, <1>2
  <2>2. At(r, p + Len(w), new)
    BY <2>1, <1>6
  <2>3. QED
    BY <2>2, <1>7, AtConcat
<1>9. QED
  BY <1>1, <1>3, <1>5, <1>8

(* The parts of an image                                                   *)
Parts(t, kind, d, kh, s) ==
  /\ InfoMagic \in Bytes /\ Len(InfoMagic) = 2 /\ U16(t) \in Bytes /\ Len(U16(t)) = 2
  /\ Tlv(kind, d) \in Bytes /\ Len(Tlv(kind, d)) = 6
  /\ Tlv(KEYHASH, kh) \in Bytes /\ Len(Tlv(KEYHASH, kh)) = 6
  /\ Tlv(ECDSASIG, s) \in Bytes /\ Len(Tlv(ECDSASIG, s)) = 4 + Len(s)

LEMMA LayoutParts ==
  ASSUME NEW b \in Bytes, NEW h \in Bytes, NEW t \in Nat, NEW kind \in Kinds,
         NEW d \in Bytes, NEW kh \in Bytes, NEW s \in Bytes, Layout(b, h, t, kind, d, kh, s)
  PROVE  Parts(t, kind, d, kh, s)
<1>1. kind \in Nat /\ KEYHASH \in Nat /\ ECDSASIG \in Nat
  BY DEF Kinds, SHA256, SHA384, KEYHASH, ECDSASIG
<1>2. Len(d) = 2 /\ Len(kh) = 2
  BY DEF Layout, Three
<1>3. /\ Tlv(kind, d) \in Bytes /\ Len(Tlv(kind, d)) = 4 + Len(d)
      /\ Tlv(KEYHASH, kh) \in Bytes /\ Len(Tlv(KEYHASH, kh)) = 4 + Len(kh)
      /\ Tlv(ECDSASIG, s) \in Bytes /\ Len(Tlv(ECDSASIG, s)) = 4 + Len(s)
  BY <1>1, TlvIs
<1>4. 4 + Len(d) = 6 /\ 4 + Len(kh) = 6
  BY <1>2
<1>5. QED
  BY <1>3, <1>4, U16Is, InfoMagicIs DEF Parts

(* Bytes written after the header and clear of the parts that stay         *)
LEMMA KeyHashSet ==
  ASSUME Sizes, NEW k \in Nat, NEW kind \in Kinds, NEW b \in Bytes, NEW h \in Bytes,
         NEW kh \in Bytes, NEW s \in Bytes, Made(b, h, kind, kh, s)
  PROVE  Made(SetKeyHash(b, k), h, kind, KeyHash(k), s)
<1>1. PICK l \in Nat, m \in Nat, t \in Nat, e \in Nat \ {0} :
        l = Len(h) /\ m = Len(s) /\ m = SigLen /\ t = 20 + SigLen /\ e = l + 21 + m
  <2>1. PICK l \in Nat, m \in Nat : l = Len(h) /\ m = Len(s)
    BY LenIs
  <2>2. m = SigLen
    BY <2>1 DEF Made
  <2>3. 20 + m \in Nat /\ l + 21 + m \in Nat \ {0}
    OBVIOUS
  <2>4. QED
    BY <2>1, <2>2, <2>3
<1>2. PICK d \in Bytes : d = Digest(h)
  BY DigestIs
<1>3. Layout(b, h, t, kind, d, kh, s) /\ Ended(b, e)
  BY <1>1, <1>2, Zenon DEF Made
<1>4. PICK n1 \in Nat \ {0}, n2 \in Nat \ {0}, n3 \in Nat \ {0}, p \in Nat \ {0},
           q \in Nat \ {0}, r \in Nat \ {0}, w \in Nat \ {0} :
        /\ n1 = 1 /\ n2 = l + 1 /\ n3 = l + 3 /\ p = l + 5 /\ q = p + 6 /\ r = p + 12 /\ w = q + 4
  <2>1. PICK n1 \in Nat \ {0}, n2 \in Nat \ {0}, n3 \in Nat \ {0}, p \in Nat \ {0} :
          n1 = 1 /\ n2 = l + 1 /\ n3 = l + 3 /\ p = l + 5
    OBVIOUS
  <2>2. PICK q \in Nat \ {0}, r \in Nat \ {0}, w \in Nat \ {0} :
          q = p + 6 /\ r = p + 12 /\ w = q + 4
    <3>1. p + 6 \in Nat \ {0} /\ p + 12 \in Nat \ {0} /\ p + 6 + 4 \in Nat \ {0}
      OBVIOUS
    <3>2. QED
      BY <3>1
  <2>3. QED
    BY <2>1, <2>2, Zenon
<1>5. PICK g \in Bytes, u \in Bytes, x1 \in Bytes, x2 \in Bytes, x3 \in Bytes :
        /\ g = InfoMagic /\ u = U16(t) /\ x1 = Tlv(kind, d) /\ x2 = Tlv(KEYHASH, kh)
        /\ x3 = Tlv(ECDSASIG, s)
        /\ Len(g) = 2 /\ Len(u) = 2 /\ Len(x1) = 6 /\ Len(x2) = 6 /\ Len(x3) = 4 + m
  <2>1. Parts(t, kind, d, kh, s)
    BY <1>3, LayoutParts, Zenon
  <2>2. QED
    BY <2>1, <1>1, Zenon DEF Parts
<1>6. /\ Headed(h) /\ At(b, n1, h) /\ At(b, n2, g) /\ At(b, n3, u)
      /\ At(b, p, x1) /\ At(b, q, x2) /\ At(b, r, x3)
      /\ Len(d) = 2 /\ Len(kh) = 2 /\ Len(s) >= 4
  BY <1>1, <1>3, <1>4, <1>5 DEF Layout, Three
<1>7. PICK new \in Bytes : new = KeyHash(k) /\ Len(new) = 2
  BY KeyHashIs
<1>8. PICK c \in Bytes : c = Overwrite(b, w, new) /\ Len(c) = Len(b)
  BY OverwriteKeeps
<1>9. SetKeyHash(b, k) = c
  <2>1. Closed(b, e)
    BY <1>3, EndedIsClosed
  <2>2. Closed(b, Len(h) + 21 + Len(s))
    BY <2>1, <1>1, Zenon
  <2>3. EntryOf(b, KEYHASH) = Len(h) + 5 + 6
    <3>1. Layout(b, h, t, kind, d, kh, s)
      BY <1>3
    <3>2. QED
      BY <3>1, <2>2, Found
  <2>4. EntryOf(b, KEYHASH) + 4 = w
    BY <2>3, <1>1, <1>4
  <2>5. QED
    BY <2>4, <1>7, <1>8 DEF SetKeyHash
<1>10. At(c, n1, h) /\ At(c, n2, g) /\ At(c, n3, u) /\ At(c, p, x1)
  <2>1. n1 + Len(h) <= w /\ n2 + Len(g) <= w /\ n3 + Len(u) <= w /\ p + Len(x1) <= w
    <3>1. Len(h) = l /\ Len(g) = 2 /\ Len(u) = 2 /\ Len(x1) = 6
      BY <1>1, <1>5, Zenon
    <3>2. n1 + l <= w /\ n2 + 2 <= w /\ n3 + 2 <= w /\ p + 6 <= w
      BY <1>4
    <3>3. QED
      BY <3>1, <3>2, Zenon
  <2>2. QED
    BY <2>1, <1>6, <1>8, OverwriteBeside
<1>11. At(c, r, x3)
  <2>1. w + Len(new) <= r
    BY <1>4, <1>7
  <2>2. QED
    BY <2>1, <1>6, <1>8, OverwriteBeside
<1>12. At(c, q, Tlv(KEYHASH, new))
  <2>1. KEYHASH \in Nat
    BY DEF KEYHASH
  <2>2. At(Overwrite(b, q + 4, new), q, Tlv(KEYHASH, new))
    BY <2>1, <1>5, <1>6, <1>7, TlvReplaced
  <2>3. QED
    BY <2>2, <1>4, <1>8
<1>13. Three(c, p, kind, d, new, s)
  BY <1>4, <1>5, <1>6, <1>7, <1>10, <1>11, <1>12 DEF Three
<1>14. Layout(c, h, t, kind, d, new, s)
  BY <1>1, <1>4, <1>5, <1>6, <1>10, <1>13 DEF Layout
<1>15. Ended(c, e)
  <2>1. CASE Len(b) = e - 1
    BY <2>1, <1>8 DEF Ended
  <2>2. CASE Len(b) = SlotSize /\ At(b, e, FF(4))
    <3>1. PICK f \in Bytes : f = FF(4)
      BY FFIs
    <3>2. w + Len(new) <= e
      BY <1>1, <1>4, <1>7
    <3>3. At(c, e, f)
      BY <2>2, <3>1, <3>2, <1>8, OverwriteBeside
    <3>4. QED
      BY <2>2, <3>1, <3>3, <1>8 DEF Ended
  <2>3. QED
    BY <2>1, <2>2, <1>3 DEF Ended
<1>16. Made(c, h, kind, new, s)
  <2>1. e = Len(h) + 21 + SigLen /\ Len(s) = SigLen
    BY <1>1
  <2>2. QED
    BY <2>1, <1>1, <1>2, <1>14, <1>15, Zenon DEF Made
<1>17. QED
  BY <1>7, <1>9, <1>16

-----------------------------------------------------------------------------
(* The signature exchanged                                                 *)

(* No trailer comes after the bytes of a signature, or of the padding.     *)
Untrailed(b) == Len(b) = SlotSize \/ (Len(b) >= 2 /\ b[Len(b) - 1] = b[Len(b)])

(* The image with the signature sig, of any length                         *)
Exchanged(b, h, kind, kh, sig) ==
  /\ b \in Bytes /\ Untrailed(b)
  /\ \E t \in Nat : 16 < t /\ t <= 20 + Len(sig) /\ Layout(b, h, t, kind, Digest(h), kh, sig)

LEMMA SameLength ==
  ASSUME Sizes, NEW kind \in Kinds, NEW b \in Bytes, NEW h \in Bytes, NEW kh \in Bytes,
         NEW s \in Bytes, Made(b, h, kind, kh, s),
         NEW sig \in Bytes, Len(sig) = SigLen, sig[Len(sig) - 1] = sig[Len(sig)]
  PROVE  Exchanged(SetSignature(b, sig), h, kind, kh, sig)
<1>1. PICK l \in Nat, m \in Nat, t \in Nat, e \in Nat \ {0} :
        /\ l = Len(h) /\ m = Len(s) /\ m = SigLen /\ t = 20 + m /\ e = l + 21 + m /\ m >= 4
        /\ t = 20 + SigLen
  <2>1. PICK l \in Nat, m \in Nat : l = Len(h) /\ m = Len(s)
    BY LenIs
  <2>2. m = SigLen
    BY <2>1 DEF Made
  <2>3. 20 + m \in Nat /\ l + 21 + m \in Nat \ {0}
    OBVIOUS
  <2>4. m >= 4
    BY <2>2 DEF Sizes
  <2>5. QED
    BY <2>1, <2>2, <2>3, <2>4
<1>2. PICK d \in Bytes : d = Digest(h)
  BY DigestIs
<1>3. Layout(b, h, t, kind, d, kh, s) /\ Ended(b, e)
  BY <1>1, <1>2, Zenon DEF Made
<1>4. PICK n1 \in Nat \ {0}, n2 \in Nat \ {0}, n3 \in Nat \ {0}, p \in Nat \ {0},
           q \in Nat \ {0}, r \in Nat \ {0}, w \in Nat \ {0} :
        /\ n1 = 1 /\ n2 = l + 1 /\ n3 = l + 3 /\ p = l + 5 /\ q = p + 6 /\ r = p + 12 /\ w = r + 4
  <2>1. PICK n1 \in Nat \ {0}, n2 \in Nat \ {0}, n3 \in Nat \ {0}, p \in Nat \ {0} :
          n1 = 1 /\ n2 = l + 1 /\ n3 = l + 3 /\ p = l + 5
    OBVIOUS
  <2>2. PICK q \in Nat \ {0}, r \in Nat \ {0}, w \in Nat \ {0} :
          q = p + 6 /\ r = p + 12 /\ w = r + 4
    <3>1. p + 6 \in Nat \ {0} /\ p + 12 \in Nat \ {0} /\ p + 12 + 4 \in Nat \ {0}
      OBVIOUS
    <3>2. QED
      BY <3>1
  <2>3. QED
    BY <2>1, <2>2, Zenon
<1>5. PICK g \in Bytes, u \in Bytes, x1 \in Bytes, x2 \in Bytes, x3 \in Bytes :
        /\ g = InfoMagic /\ u = U16(t) /\ x1 = Tlv(kind, d) /\ x2 = Tlv(KEYHASH, kh)
        /\ x3 = Tlv(ECDSASIG, s)
        /\ Len(g) = 2 /\ Len(u) = 2 /\ Len(x1) = 6 /\ Len(x2) = 6 /\ Len(x3) = 4 + m
  <2>1. Parts(t, kind, d, kh, s)
    BY <1>3, LayoutParts, Zenon
  <2>2. QED
    BY <2>1, <1>1, Zenon DEF Parts
<1>6. /\ Headed(h) /\ At(b, n1, h) /\ At(b, n2, g) /\ At(b, n3, u)
      /\ At(b, p, x1) /\ At(b, q, x2) /\ At(b, r, x3)
      /\ Len(d) = 2 /\ Len(kh) = 2
  BY <1>1, <1>3, <1>4, <1>5 DEF Layout, Three
<1>8. PICK c \in Bytes : c = Overwrite(b, w, sig) /\ Len(c) = Len(b)
  BY OverwriteKeeps
<1>9. SetSignature(b, sig) = c
  <2>1. Closed(b, e)
    BY <1>3, EndedIsClosed
  <2>2. Closed(b, Len(h) + 21 + Len(s))
    BY <2>1, <1>1, Zenon
  <2>3. EntryOf(b, ECDSASIG) = Len(h) + 5 + 12 /\ Three(b, Len(h) + 5, kind, d, kh, s)
    <3>1. Layout(b, h, t, kind, d, kh, s)
      BY <1>3
    <3>2. QED
      BY <3>1, <2>2, Found
  <2>4. EntryOf(b, ECDSASIG) = r /\ Three(b, p, kind, d, kh, s)
    BY <2>3, <1>1, <1>4
  <2>5. Data(b, r) = s
    <3>1. Data(b, p + 12) = s
      BY <2>4, ThreeRead
    <3>2. QED
      BY <3>1, <1>4
  <2>6. Len(s) = Len(sig)
    BY <1>1
  <2>7. QED
    BY <2>4, <2>5, <2>6, <1>4, <1>8 DEF SetSignature
<1>10. At(c, n1, h) /\ At(c, n2, g) /\ At(c, n3, u) /\ At(c, p, x1) /\ At(c, q, x2)
  <2>1. /\ n1 + Len(h) <= w /\ n2 + Len(g) <= w /\ n3 + Len(u) <= w /\ p + Len(x1) <= w
        /\ q + Len(x2) <= w
    <3>1. Len(h) = l /\ Len(g) = 2 /\ Len(u) = 2 /\ Len(x1) = 6 /\ Len(x2) = 6
      BY <1>1, <1>5, Zenon
    <3>2. n1 + l <= w /\ n2 + 2 <= w /\ n3 + 2 <= w /\ p + 6 <= w /\ q + 6 <= w
      BY <1>4
    <3>3. QED
      BY <3>1, <3>2, Zenon
  <2>2. QED
    BY <2>1, <1>6, <1>8, OverwriteBeside
<1>11. At(c, r, Tlv(ECDSASIG, sig))
  <2>1. ECDSASIG \in Nat /\ Len(sig) = Len(s)
    BY <1>1 DEF ECDSASIG
  <2>2. At(Overwrite(b, r + 4, sig), r, Tlv(ECDSASIG, sig))
    BY <2>1, <1>5, <1>6, TlvReplaced
  <2>3. QED
    BY <2>2, <1>4, <1>8
<1>12. Layout(c, h, t, kind, d, kh, sig)
  <2>1. Len(sig) >= 4
    BY <1>1
  <2>2. Three(c, p, kind, d, kh, sig)
    BY <2>1, <1>4, <1>5, <1>6, <1>10, <1>11 DEF Three
  <2>3. QED
    BY <2>2, <1>1, <1>4, <1>5, <1>6, <1>10 DEF Layout
<1>13. Untrailed(c)
  <2>1. CASE Len(b) = SlotSize
    BY <2>1, <1>8 DEF Untrailed
  <2>2. CASE Len(b) = e - 1
    <3>1. Len(c) = w + m - 1
      BY <2>2, <1>1, <1>4, <1>8
    <3>2. At(c, w, sig)
      <4>1. w + Len(sig) - 1 <= Len(b)
        BY <3>1, <1>1, <1>8
      <4>2. QED
        BY <4>1, <1>8, OverwriteKeeps
    <3>3. \A i \in 1..m : c[w + i - 1] = sig[i]
      BY <3>2, <1>1 DEF At
    <3>4. m - 1 \in 1..m /\ m \in 1..m /\ w + (m - 1) - 1 = w + m - 1 - 1 /\ w + m - 1 >= 2
      BY <1>1
    <3>5. c[w + m - 1 - 1] = sig[m - 1] /\ c[w + m - 1] = sig[m]
      BY <3>3, <3>4
    <3>6. sig[m - 1] = sig[m]
      BY <1>1
    <3>7. QED
      BY <3>1, <3>4, <3>5, <3>6 DEF Untrailed
  <2>3. QED
    BY <2>1, <2>2, <1>3 DEF Ended
<1>14. 16 < t /\ t <= 20 + Len(sig)
  BY <1>1
<1>15. QED
  BY <1>2, <1>9, <1>12, <1>13, <1>14 DEF Exchanged

(* What stands in front of r stands in what comes before r.                *)
LEMMA AtFront ==
  ASSUME NEW b \in Bytes, NEW r \in Nat \ {0}, r - 1 <= Len(b),
         NEW p \in Nat \ {0}, NEW s \in Bytes, At(b, p, s), p + Len(s) <= r
  PROVE  At(SubSeq(b, 1, r - 1), p, s)
<1>1. PICK l \in Nat, n \in Nat, one \in Nat \ {0}, z \in Nat :
        l = Len(b) /\ n = Len(s) /\ one = 1 /\ z = r - 1
  <2>1. PICK l \in Nat, n \in Nat : l = Len(b) /\ n = Len(s)
    BY LenIs
  <2>2. r - 1 \in Nat /\ 1 \in Nat \ {0}
    OBVIOUS
  <2>3. QED
    BY <2>1, <2>2
<1> DEFINE c == SubSeq(b, one, z)
<1>2. z <= Len(b) /\ one <= z + 1
  BY <1>1
<1>3. /\ c \in Bytes /\ Len(c) = z - one + 1
      /\ \A i \in 1..z - one + 1 : c[i] = b[one + i - 1]
  BY <1>2, SubSeqIs
<1> HIDE DEF c
<1>4. z - one + 1 = z /\ \A i \in 1..z : one + i - 1 = i
  BY <1>1
<1>5. Len(c) = z /\ \A i \in 1..z : c[i] = b[i]
  BY <1>3, <1>4
<1>6. p + n - 1 <= z /\ \A i \in 1..n : b[p + i - 1] = s[i] /\ p + i - 1 \in 1..z
  BY <1>1 DEF At
<1>7. At(c, p, s)
  BY <1>1, <1>5, <1>6 DEF At
<1>8. QED
  BY <1>1, <1>7 DEF c

ErasedAt(b, p, n) == p + n - 1 <= Len(b) /\ \A i \in 1..n : b[p + i - 1] = 255

LEMMA AtFF ==
  ASSUME NEW b \in Bytes, NEW p \in Nat \ {0}, NEW n \in Nat
  PROVE  At(b, p, FF(n)) <=> ErasedAt(b, p, n)
<1>1. PICK f : f = FF(n) /\ Len(f) = n /\ \A i \in 1..n : f[i] = 255
  BY FFIs
<1>2. At(b, p, f) <=> p + n - 1 <= Len(b) /\ \A i \in 1..n : b[p + i - 1] = f[i]
  BY <1>1 DEF At
<1>3. ASSUME \A i \in 1..n : b[p + i - 1] = f[i], NEW i \in 1..n
      PROVE  b[p + i - 1] = 255
  <2>1. f[i] = 255
    BY <1>1
  <2>2. QED
    BY <2>1, <1>3
<1>4. ASSUME \A i \in 1..n : b[p + i - 1] = 255, NEW i \in 1..n
      PROVE  b[p + i - 1] = f[i]
  <2>1. f[i] = 255
    BY <1>1
  <2>2. QED
    BY <2>1, <1>4, Zenon
<1>5. (\A i \in 1..n : b[p + i - 1] = f[i]) <=> \A i \in 1..n : b[p + i - 1] = 255
  BY <1>3, <1>4
<1>6. QED
  BY <1>1, <1>2, <1>5, Zenon DEF ErasedAt

(* What stands at the start of the rest                                    *)
LEMMA RestIs ==
  ASSUME NEW b \in Bytes, NEW e \in Nat \ {0}, NEW l \in Nat, l = Len(b), e <= l + 1
  PROVE  /\ SubSeq(b, e, l) \in Bytes /\ Len(SubSeq(b, e, l)) = l - e + 1
         /\ \A i \in 1..l - e + 1 : SubSeq(b, e, l)[i] = b[e + i - 1]
<1> DEFINE c == SubSeq(b, e, l)
<1>1. /\ c \in Bytes /\ Len(c) = l - e + 1
      /\ \A i \in 1..l - e + 1 : c[i] = b[e + i - 1]
  BY SubSeqIs
<1>2. QED
  BY <1>1

LEMMA AtRest ==
  ASSUME NEW b \in Bytes, NEW e \in Nat \ {0}, NEW s \in Bytes, At(b, e, s), e <= Len(b) + 1
  PROVE  At(SubSeq(b, e, Len(b)), 1, s)
<1>1. PICK l \in Nat, n \in Nat : l = Len(b) /\ n = Len(s)
  BY LenIs
<1> DEFINE c == SubSeq(b, e, l)
<1>2. /\ c \in Bytes /\ Len(c) = l - e + 1
      /\ \A i \in 1..l - e + 1 : c[i] = b[e + i - 1]
  BY <1>1, RestIs
<1> HIDE DEF c
<1>3. e + n - 1 <= l /\ \A i \in 1..n : b[e + i - 1] = s[i]
  BY <1>1 DEF At
<1>4. ASSUME NEW i \in 1..n
      PROVE  c[1 + i - 1] = s[i]
  <2>1. i \in 1..l - e + 1 /\ 1 + i - 1 = i
    BY <1>3
  <2>2. QED
    BY <2>1, <1>2, <1>3
<1>5. 1 + n - 1 <= l - e + 1
  BY <1>3
<1>6. At(c, 1, s)
  BY <1>1, <1>2, <1>4, <1>5 DEF At
<1>7. QED
  BY <1>1, <1>6 DEF c

(* The entries end where they ended before the exchange.                   *)
LEMMA RealEndIs ==
  ASSUME NEW b \in Bytes, NEW e \in Nat \ {0}, Ended(b, e)
  PROVE  RealEnd(b, e) = e
<1>1. PICK f : /\ f = [p \in Nat |-> IF p + 3 > Len(b) \/ U16At(b, p) = NoType THEN p
                                     ELSE f[p + Size(b, p)]]
               /\ RealEnd(b, e) = f[e]
  BY RealEndScan
<1>2. e + 3 > Len(b) \/ U16At(b, e) = NoType
  <2>1. CASE Len(b) = e - 1
    BY <2>1
  <2>2. CASE At(b, e, FF(4))
    BY <2>2, IsFFAt
  <2>3. QED
    BY <2>1, <2>2 DEF Ended
<1>3. f[e] = e
  BY <1>1, <1>2
<1>4. QED
  BY <1>1, <1>3

(* The last entry is at r, with the data s, and ends in front of e.        *)
LastEntry(b, r, s, e) ==
  /\ Size(b, r) = 4 + Len(s) /\ Data(b, r) = s /\ e = r + 4 + Len(s)
  /\ Ended(b, e) /\ e - 1 <= Len(b)

(* The image with a shorter entry at r, and erased bytes behind            *)
LEMMA RebuildIs ==
  ASSUME NEW b \in Bytes, NEW r \in Nat \ {0}, NEW s \in Bytes, NEW e \in Nat \ {0},
         LastEntry(b, r, s, e), NEW sig \in Bytes, Len(sig) < Len(s)
  PROVE  LET c == Rebuild(b, r, sig)
             n == Len(s) - Len(sig) IN
         /\ c \in Bytes /\ Len(c) = Len(b)
         /\ \A p \in Nat \ {0}, x \in Bytes : At(b, p, x) /\ p + Len(x) <= r => At(c, p, x)
         /\ At(c, r, Tlv(ECDSASIG, sig))
         /\ At(c, r + 4 + Len(sig), FF(n))
         /\ At(b, e, FF(4)) => At(c, e, FF(4))
<1>a. \A l \in Nat : l = Len(b) =>
        SubSeq(b, e, l) \in Bytes /\ Len(SubSeq(b, e, l)) = l - e + 1
  <2>1. ASSUME NEW l \in Nat, l = Len(b)
        PROVE  SubSeq(b, e, l) \in Bytes /\ Len(SubSeq(b, e, l)) = l - e + 1
    <3>1. e <= l + 1
      BY <2>1 DEF LastEntry
    <3>2. QED
      BY <2>1, <3>1, RestIs, Zenon
  <2>2. QED
    BY <2>1
<1>1. PICK l \in Nat, m \in Nat, k \in Nat, n \in Nat, e1 \in Nat \ {0} :
        /\ l = Len(b) /\ m = Len(s) /\ k = Len(sig) /\ n = m - k /\ e1 = r + 4 + k
        /\ n > 0 /\ e = r + 4 + m /\ e - 1 <= l
  <2>1. PICK l \in Nat, m \in Nat, k \in Nat : l = Len(b) /\ m = Len(s) /\ k = Len(sig)
    BY LenIs
  <2>2. m - k \in Nat /\ r + 4 + k \in Nat \ {0} /\ m - k > 0 /\ e = r + 4 + m /\ e - 1 <= l
    BY <2>1 DEF LastEntry
  <2>3. QED
    BY <2>1, <2>2
<1>2. PICK x1 \in Bytes : x1 = SubSeq(b, 1, r - 1) /\ Len(x1) = r - 1
  <2>1. PICK one \in Nat \ {0}, z \in Nat : one = 1 /\ z = r - 1
    OBVIOUS
  <2>2. z <= Len(b) /\ one <= z + 1 /\ z - one + 1 = r - 1
    BY <2>1, <1>1
  <2>3. SubSeq(b, one, z) \in Bytes /\ Len(SubSeq(b, one, z)) = z - one + 1
    BY <2>2, SubSeqIs
  <2>4. QED
    BY <2>1, <2>2, <2>3
<1>3. PICK x2 \in Bytes : x2 = Tlv(ECDSASIG, sig) /\ Len(x2) = 4 + k
  <2>1. ECDSASIG \in Nat
    BY DEF ECDSASIG
  <2>2. QED
    BY <2>1, <1>1, TlvIs
<1>4. PICK x3 \in Bytes : x3 = SubSeq(b, e, e - 1) /\ Len(x3) = 0
  <2>1. PICK z \in Nat : z = e - 1
    OBVIOUS
  <2>2. z <= Len(b) /\ e <= z + 1 /\ z - e + 1 = 0
    BY <2>1, <1>1
  <2>3. SubSeq(b, e, z) \in Bytes /\ Len(SubSeq(b, e, z)) = z - e + 1
    BY <2>2, SubSeqIs
  <2>4. QED
    BY <2>1, <2>2, <2>3
<1>5. PICK x4 \in Bytes : x4 = FF(n) /\ Len(x4) = n
  BY FFIs
<1>6. PICK x5 \in Bytes : x5 = SubSeq(b, e, l) /\ Len(x5) = l - e + 1
  BY <1>1, <1>a
<1>7. Rebuild(b, r, sig) = x1 \o x2 \o x3 \o x4 \o x5
  <2>1. r + Size(b, r) = e
    BY <1>1 DEF LastEntry
  <2>2. RealEnd(b, e) = e
    BY RealEndIs DEF LastEntry
  <2>3. Len(Data(b, r)) - Len(sig) = n
    BY <1>1 DEF LastEntry
  <2>4. Len(b) = l
    BY <1>1
  <2>5. QED
    BY <2>1, <2>2, <2>3, <2>4, <1>2, <1>3, <1>4, <1>5, <1>6, Zenon DEF Rebuild
<1>8. PICK y2 \in Bytes : y2 = x1 \o x2 /\ Len(y2) = r + 3 + k
  <2>1. x1 \o x2 \in Bytes /\ Len(x1 \o x2) = Len(x1) + Len(x2)
    BY ConcatIs, Zenon
  <2>2. Len(x1) + Len(x2) = r + 3 + k
    BY <1>2, <1>3
  <2>3. QED
    BY <2>1, <2>2
<1>9. PICK y3 \in Bytes : y3 = y2 \o x3 /\ Len(y3) = r + 3 + k
  <2>1. y2 \o x3 \in Bytes /\ Len(y2 \o x3) = Len(y2) + Len(x3)
    BY ConcatIs, Zenon
  <2>2. Len(y2) + Len(x3) = r + 3 + k
    <3>1. Len(y2) = r + 3 + k /\ Len(x3) = 0
      BY <1>4, <1>8, Zenon
    <3>2. r + 3 + k + 0 = r + 3 + k
      OBVIOUS
    <3>3. QED
      BY <3>1, <3>2, Zenon
  <2>3. QED
    BY <2>1, <2>2
<1>10. PICK y4 \in Bytes : y4 = y3 \o x4 /\ Len(y4) = r + 3 + k + n
  <2>1. y3 \o x4 \in Bytes /\ Len(y3 \o x4) = Len(y3) + Len(x4)
    BY ConcatIs, Zenon
  <2>2. Len(y3) + Len(x4) = r + 3 + k + n
    BY <1>5, <1>9
  <2>3. QED
    BY <2>1, <2>2
<1>11. PICK c \in Bytes : c = y4 \o x5 /\ Len(c) = l
  <2>1. y4 \o x5 \in Bytes /\ Len(y4 \o x5) = Len(y4) + Len(x5)
    BY ConcatIs, Zenon
  <2>2. Len(y4) + Len(x5) = r + 3 + k + n + (l - e + 1)
    BY <1>6, <1>10
  <2>3. r + 3 + k + n + (l - e + 1) = l
    BY <1>1
  <2>4. QED
    BY <2>1, <2>2, <2>3
<1>12. Rebuild(b, r, sig) = c
  BY <1>7, <1>8, <1>9, <1>10, <1>11, Zenon
<1>13. PICK one \in Nat \ {0} : one = 1
  OBVIOUS
<1>14. ASSUME NEW p \in Nat \ {0}, NEW x \in Bytes, At(b, p, x), p + Len(x) <= r
       PROVE  At(c, p, x)
  <2>1. At(x1, p, x)
    <3>1. r - 1 <= Len(b)
      BY <1>1
    <3>2. QED
      BY <3>1, <1>2, <1>14, AtFront
  <2>2. At(y2, p, x)
    BY <2>1, <1>8, AtPrefix
  <2>3. At(y3, p, x)
    BY <2>2, <1>9, AtPrefix
  <2>4. At(y4, p, x)
    BY <2>3, <1>10, AtPrefix
  <2>5. QED
    BY <2>4, <1>11, AtPrefix
<1>15. At(c, r, x2)
  <2>1. At(x2, one, x2)
    BY <1>13, AtSelf
  <2>2. At(x1 \o x2, Len(x1) + one, x2)
    BY <2>1, AtAfter
  <2>3. Len(x1) + one = r
    BY <1>2, <1>13
  <2>4. At(y2, r, x2)
    BY <2>2, <2>3, <1>8
  <2>5. At(y3, r, x2)
    BY <2>4, <1>9, AtPrefix
  <2>6. At(y4, r, x2)
    BY <2>5, <1>10, AtPrefix
  <2>7. QED
    BY <2>6, <1>11, AtPrefix
<1>16. At(c, e1, x4)
  <2>1. At(x4, one, x4)
    BY <1>13, AtSelf
  <2>2. At(y3 \o x4, Len(y3) + one, x4)
    BY <2>1, AtAfter
  <2>3. Len(y3) + one = e1
    BY <1>1, <1>9, <1>13
  <2>4. At(y4, e1, x4)
    BY <2>2, <2>3, <1>10
  <2>5. QED
    BY <2>4, <1>11, AtPrefix
<1>17. ASSUME At(b, e, FF(4))
       PROVE  At(c, e, FF(4))
  <2>1. PICK f \in Bytes : f = FF(4)
    BY FFIs
  <2>2. At(x5, one, f)
    <3>1. e <= Len(b) + 1
      BY <1>1
    <3>2. At(SubSeq(b, e, Len(b)), 1, f)
      BY <3>1, <2>1, <1>17, AtRest
    <3>3. QED
      BY <3>2, <1>1, <1>6, <1>13
  <2>3. At(y4 \o x5, Len(y4) + one, f)
    BY <2>2, AtAfter
  <2>4. Len(y4) + one = e
    BY <1>1, <1>10, <1>13
  <2>5. QED
    BY <2>1, <2>3, <2>4, <1>11
<1>18. Len(s) - Len(sig) = n /\ r + 4 + Len(sig) = e1
  BY <1>1
<1>19. QED
  BY <1>1, <1>3, <1>5, <1>11, <1>12, <1>14, <1>15, <1>16, <1>17, <1>18

(* Erased bytes in front of erased bytes                                   *)
LEMMA ErasedFour ==
  ASSUME NEW c \in Bytes, NEW e1 \in Nat \ {0}, NEW n \in Nat, NEW e \in Nat \ {0}, e = e1 + n,
         At(c, e1, FF(n)), n >= 4 \/ At(c, e, FF(4))
  PROVE  At(c, e1, FF(4))
<1>1. PICK l \in Nat, four \in Nat : l = Len(c) /\ four = 4
  <2>1. 4 \in Nat
    OBVIOUS
  <2>2. QED
    BY <2>1, LenIs
<1>2. e1 + n - 1 <= l /\ \A i \in 1..n : c[e1 + i - 1] = 255
  <2>1. ErasedAt(c, e1, n)
    BY AtFF
  <2>2. QED
    BY <2>1, <1>1, Zenon DEF ErasedAt
<1>3. ASSUME n < 4
      PROVE  e + four - 1 <= l /\ \A i \in 1..four : c[e + i - 1] = 255
  <2>1. At(c, e, FF(four))
    BY <1>1, <1>3
  <2>2. ErasedAt(c, e, four)
    BY <2>1, AtFF
  <2>3. QED
    BY <2>2, <1>1, Zenon DEF ErasedAt
<1>4. e1 + four - 1 <= l
  BY <1>1, <1>2, <1>3
<1>5. ASSUME NEW i \in 1..four
      PROVE  c[e1 + i - 1] = 255
  <2>1. CASE i <= n
    <3>1. i \in 1..n
      BY <2>1
    <3>2. QED
      BY <3>1, <1>2
  <2>2. CASE i > n
    <3>1. i - n \in 1..four /\ n < 4 /\ e + (i - n) - 1 = e1 + i - 1
      BY <2>2, <1>1
    <3>2. c[e + (i - n) - 1] = 255
      BY <3>1, <1>3
    <3>3. QED
      BY <3>1, <3>2
  <2>3. QED
    BY <2>1, <2>2
<1>6. At(c, e1, FF(four))
  <2>1. ErasedAt(c, e1, four)
    BY <1>1, <1>4, <1>5, Zenon DEF ErasedAt
  <2>2. QED
    BY <2>1, AtFF
<1>7. QED
  BY <1>1, <1>6

LEMMA Shorter ==
  ASSUME Sizes, NEW kind \in Kinds, NEW b \in Bytes, NEW h \in Bytes, NEW kh \in Bytes,
         NEW s \in Bytes, Made(b, h, kind, kh, s),
         NEW sig \in Bytes, 4 <= Len(sig), Len(sig) < SigLen, SetSignature(b, sig) # <<>>
  PROVE  Exchanged(SetSignature(b, sig), h, kind, kh, sig)
<1>1. PICK l \in Nat, m \in Nat, t \in Nat, e \in Nat \ {0} :
        /\ l = Len(h) /\ m = Len(s) /\ m = SigLen /\ t = 20 + m /\ e = l + 21 + m
        /\ t = 20 + SigLen
  <2>1. PICK l \in Nat, m \in Nat : l = Len(h) /\ m = Len(s)
    BY LenIs
  <2>2. m = SigLen
    BY <2>1 DEF Made
  <2>3. 20 + m \in Nat /\ l + 21 + m \in Nat \ {0}
    OBVIOUS
  <2>4. QED
    BY <2>1, <2>2, <2>3
<1>a. PICK k \in Nat, n \in Nat : k = Len(sig) /\ n = m - k /\ n > 0 /\ k >= 4
  <2>1. PICK k \in Nat : k = Len(sig)
    BY LenIs
  <2>2. m - k \in Nat /\ m - k > 0 /\ k >= 4
    BY <2>1, <1>1
  <2>3. QED
    BY <2>1, <2>2
<1>2. PICK d \in Bytes : d = Digest(h)
  BY DigestIs
<1>3. Layout(b, h, t, kind, d, kh, s) /\ Ended(b, e)
  BY <1>1, <1>2, Zenon DEF Made
<1>4. PICK n1 \in Nat \ {0}, n2 \in Nat \ {0}, n3 \in Nat \ {0}, p \in Nat \ {0},
           q \in Nat \ {0}, r \in Nat \ {0}, e1 \in Nat \ {0} :
        /\ n1 = 1 /\ n2 = l + 1 /\ n3 = l + 3 /\ p = l + 5 /\ q = p + 6 /\ r = p + 12
        /\ e1 = r + 4 + k
  <2>1. PICK n1 \in Nat \ {0}, n2 \in Nat \ {0}, n3 \in Nat \ {0}, p \in Nat \ {0} :
          n1 = 1 /\ n2 = l + 1 /\ n3 = l + 3 /\ p = l + 5
    OBVIOUS
  <2>2. PICK q \in Nat \ {0}, r \in Nat \ {0}, e1 \in Nat \ {0} :
          q = p + 6 /\ r = p + 12 /\ e1 = r + 4 + k
    <3>1. p + 6 \in Nat \ {0} /\ p + 12 \in Nat \ {0} /\ p + 12 + 4 + k \in Nat \ {0}
      OBVIOUS
    <3>2. QED
      BY <3>1
  <2>3. QED
    BY <2>1, <2>2, Zenon
<1>5. PICK g \in Bytes, u \in Bytes, x1 \in Bytes, x2 \in Bytes, x3 \in Bytes :
        /\ g = InfoMagic /\ u = U16(t) /\ x1 = Tlv(kind, d) /\ x2 = Tlv(KEYHASH, kh)
        /\ x3 = Tlv(ECDSASIG, s)
        /\ Len(g) = 2 /\ Len(u) = 2 /\ Len(x1) = 6 /\ Len(x2) = 6 /\ Len(x3) = 4 + m
  <2>1. Parts(t, kind, d, kh, s)
    BY <1>3, LayoutParts, Zenon
  <2>2. QED
    BY <2>1, <1>1, Zenon DEF Parts
<1>6. /\ Headed(h) /\ At(b, n1, h) /\ At(b, n2, g) /\ At(b, n3, u)
      /\ At(b, p, x1) /\ At(b, q, x2) /\ At(b, r, x3)
      /\ Len(d) = 2 /\ Len(kh) = 2
  BY <1>1, <1>3, <1>4, <1>5 DEF Layout, Three
<1>7. EntryOf(b, ECDSASIG) = r /\ LastEntry(b, r, s, e)
  <2>1. Closed(b, e)
    BY <1>3, EndedIsClosed
  <2>2. Closed(b, Len(h) + 21 + Len(s))
    BY <2>1, <1>1, Zenon
  <2>3. EntryOf(b, ECDSASIG) = Len(h) + 5 + 12 /\ Three(b, Len(h) + 5, kind, d, kh, s)
    <3>1. Layout(b, h, t, kind, d, kh, s)
      BY <1>3
    <3>2. QED
      BY <3>1, <2>2, Found
  <2>4. EntryOf(b, ECDSASIG) = r /\ Three(b, p, kind, d, kh, s)
    BY <2>3, <1>1, <1>4
  <2>5. Size(b, p + 12) = 4 + Len(s) /\ Data(b, p + 12) = s /\ p + 15 + Len(s) <= Len(b)
    BY <2>4, ThreeRead
  <2>6. Size(b, r) = 4 + Len(s) /\ Data(b, r) = s
    BY <2>5, <1>4
  <2>7. e = r + 4 + Len(s) /\ e - 1 <= Len(b)
    <3>1. p + 15 + m <= Len(b)
      BY <2>5, <1>1
    <3>2. e = r + 4 + m /\ e - 1 = p + 15 + m
      BY <1>1, <1>4
    <3>3. QED
      BY <3>1, <3>2, <1>1
  <2>8. QED
    BY <2>4, <2>6, <2>7, <1>3, Zenon DEF LastEntry
<1>8. Len(sig) < Len(s)
  BY <1>1
<1>9. PICK c \in Bytes :
        /\ c = Rebuild(b, r, sig) /\ Len(c) = Len(b)
        /\ \A i \in Nat \ {0}, x \in Bytes : At(b, i, x) /\ i + Len(x) <= r => At(c, i, x)
        /\ At(c, r, Tlv(ECDSASIG, sig))
        /\ At(c, r + 4 + Len(sig), FF(Len(s) - Len(sig)))
        /\ At(b, e, FF(4)) => At(c, e, FF(4))
  BY <1>7, <1>8, RebuildIs
<1>10. At(c, e1, FF(n)) /\ e = e1 + n
  BY <1>1, <1>a, <1>4, <1>9
<1>11. At(c, n1, h) /\ At(c, n2, g) /\ At(c, n3, u) /\ At(c, p, x1) /\ At(c, q, x2)
  <2>1. /\ n1 + Len(h) <= r /\ n2 + Len(g) <= r /\ n3 + Len(u) <= r /\ p + Len(x1) <= r
        /\ q + Len(x2) <= r
    <3>1. Len(h) = l /\ Len(g) = 2 /\ Len(u) = 2 /\ Len(x1) = 6 /\ Len(x2) = 6
      BY <1>1, <1>5, Zenon
    <3>2. n1 + l <= r /\ n2 + 2 <= r /\ n3 + 2 <= r /\ p + 6 <= r /\ q + 6 <= r
      BY <1>4
    <3>3. QED
      BY <3>1, <3>2, Zenon
  <2>2. QED
    BY <2>1, <1>6, <1>9
<1>12. Layout(c, h, t, kind, d, kh, sig)
  <2>1. Len(sig) >= 4
    BY <1>a
  <2>2. Three(c, p, kind, d, kh, sig)
    BY <2>1, <1>4, <1>5, <1>6, <1>9, <1>11 DEF Three
  <2>3. QED
    BY <2>2, <1>1, <1>4, <1>5, <1>6, <1>11 DEF Layout
<1>13. (Len(c) = SlotSize /\ At(c, e, FF(4))) \/ Len(c) = e - 1
  BY <1>3, <1>9 DEF Ended
<1>14. Closed(c, e1)
  <2>1. CASE n >= 4 \/ At(c, e, FF(4))
    <3>1. At(c, e1, FF(4))
      BY <2>1, <1>10, ErasedFour
    <3>2. QED
      BY <3>1 DEF Closed
  <2>2. CASE n < 4 /\ Len(c) = e - 1
    <3>1. e1 + 3 > Len(c)
      BY <2>2, <1>10
    <3>2. QED
      BY <3>1 DEF Closed
  <2>3. QED
    BY <2>1, <2>2, <1>13
<1>15. PICK y \in Nat : y = Len(c)
  BY LenIs
<1>16. TlvStart(c) = n2 /\ EndOfTlvs(c, p) = IF e1 <= y /\ e1 + 3 > y THEN 0 ELSE e1
  <2>1. Len(h) + 21 + Len(sig) = e1
    BY <1>1, <1>a, <1>4
  <2>2. Closed(c, Len(h) + 21 + Len(sig))
    BY <2>1, <1>14, Zenon
  <2>3. /\ TlvStart(c) = Len(h) + 1
        /\ EndOfTlvs(c, Len(h) + 5) = LET f == Len(h) + 5 + 16 + Len(sig) IN
                                      IF f <= Len(c) /\ f + 3 > Len(c) THEN 0 ELSE f
    <3>1. Layout(c, h, t, kind, d, kh, sig)
      BY <1>12
    <3>2. QED
      BY <3>1, <2>2, Found
  <2>4. Len(h) + 5 = p /\ Len(h) + 1 = n2 /\ Len(h) + 5 + 16 + Len(sig) = e1 /\ Len(c) = y
    BY <1>1, <1>a, <1>4, <1>15
  <2>5. QED
    BY <2>3, <2>4, Zenon
<1>17. SetSignature(b, sig) = SetTotal(c)
  <2>1. Data(b, r) = s /\ Len(s) # Len(sig)
    BY <1>1, <1>a, <1>7 DEF LastEntry
  <2>2. QED
    BY <2>1, <1>7, <1>9 DEF SetSignature
<1>18. PICK t1 \in Nat, u1 \in Bytes : t1 = 16 + k /\ u1 = U16(t1) /\ Len(u1) = 2
  <2>1. 16 + k \in Nat
    OBVIOUS
  <2>2. QED
    BY <2>1, U16Is
<1>19. PICK w \in Bytes : w = g \o u1 /\ Len(w) = 4
  <2>1. g \o u1 \in Bytes /\ Len(g \o u1) = Len(g) + Len(u1)
    BY ConcatIs, Zenon
  <2>2. Len(g) = 2 /\ Len(u1) = 2
    BY <1>5, <1>18, Zenon
  <2>3. Len(g) + Len(u1) = 4
    BY <2>2
  <2>4. QED
    BY <2>1, <2>3
<1>20. ~ (e1 <= y /\ e1 + 3 > y) /\ SetTotal(c) = Overwrite(c, n2, w)
  <2>1. n2 + 4 = p
    BY <1>4
  <2>2. SetTotal(c) = IF EndOfTlvs(c, p) = 0 THEN <<>>
                      ELSE Overwrite(c, n2, InfoMagic \o U16(EndOfTlvs(c, p) - p))
    BY <2>1, <1>16 DEF SetTotal
  <2>3. EndOfTlvs(c, p) # 0
    BY <2>2, <1>17
  <2>4. ~ (e1 <= y /\ e1 + 3 > y) /\ EndOfTlvs(c, p) = e1
    BY <2>3, <1>16
  <2>5. e1 - p = t1
    BY <1>4, <1>18
  <2>6. QED
    BY <2>2, <2>3, <2>4, <2>5, <1>5, <1>18, <1>19, Zenon
<1>21. PICK x \in Bytes : x = Overwrite(c, n2, w) /\ Len(x) = Len(c)
  BY OverwriteKeeps
<1>22. At(x, n2, g) /\ At(x, n3, u1)
  <2>1. n2 + Len(w) - 1 <= Len(c)
    <3>1. At(c, n3, u)
      BY <1>11
    <3>2. n3 + 2 - 1 <= Len(c)
      BY <3>1, <1>5 DEF At
    <3>3. n2 + 4 - 1 = n3 + 2 - 1
      BY <1>4
    <3>4. QED
      BY <3>2, <3>3, <1>19
  <2>2. At(x, n2, w)
    BY <2>1, <1>21, OverwriteKeeps
  <2>3. At(x, n2, g) /\ At(x, n2 + Len(g), u1)
    BY <2>2, <1>19, AtConcat
  <2>4. n2 + Len(g) = n3
    BY <1>4, <1>5
  <2>5. QED
    BY <2>3, <2>4
<1>23. At(x, n1, h)
  <2>1. n1 + Len(h) <= n2
    BY <1>1, <1>4
  <2>2. QED
    BY <2>1, <1>11, <1>21, OverwriteBeside
<1>24. PICK x4 \in Bytes, f \in Bytes : x4 = Tlv(ECDSASIG, sig) /\ f = FF(n)
  <2>1. ECDSASIG \in Nat
    BY DEF ECDSASIG
  <2>2. QED
    BY <2>1, TlvIs, FFIs
<1>25. At(x, p, x1) /\ At(x, q, x2) /\ At(x, r, x4) /\ At(x, e1, f)
  <2>1. n2 + Len(w) <= p /\ n2 + Len(w) <= q /\ n2 + Len(w) <= r /\ n2 + Len(w) <= e1
    <3>1. n2 + 4 <= p /\ n2 + 4 <= q /\ n2 + 4 <= r /\ n2 + 4 <= e1
      BY <1>4
    <3>2. QED
      BY <3>1, <1>19, Zenon
  <2>2. QED
    BY <2>1, <1>9, <1>10, <1>11, <1>21, <1>24, OverwriteBeside
<1>26. Layout(x, h, t1, kind, d, kh, sig)
  <2>1. Len(sig) >= 4
    BY <1>a
  <2>2. Three(x, p, kind, d, kh, sig)
    BY <2>1, <1>4, <1>5, <1>6, <1>24, <1>25 DEF Three
  <2>3. QED
    BY <2>2, <1>1, <1>4, <1>5, <1>6, <1>18, <1>22, <1>23 DEF Layout
<1>27. Untrailed(x)
  <2>1. CASE Len(c) = SlotSize
    BY <2>1, <1>21 DEF Untrailed
  <2>2. CASE Len(c) = e - 1
    <3>1. y = e1 + n - 1 /\ Len(x) = e1 + n - 1
      BY <2>2, <1>10, <1>15, <1>21
    <3>2. n >= 4
      BY <3>1, <1>a, <1>20
    <3>3. Len(f) = n /\ (\A i \in 1..n : f[i] = 255) /\ \A i \in 1..n : x[e1 + i - 1] = f[i]
      BY <1>24, <1>25, FFIs DEF At
    <3>4. PICK i \in 1..n, j \in 1..n : i = n - 1 /\ j = n
      <4>1. n - 1 \in 1..n /\ n \in 1..n
        BY <3>2
      <4>2. QED
        BY <4>1
    <3>5. x[e1 + i - 1] = x[e1 + j - 1]
      <4>1. f[i] = 255 /\ f[j] = 255
        BY <3>3
      <4>2. x[e1 + i - 1] = f[i] /\ x[e1 + j - 1] = f[j]
        BY <3>3, Zenon
      <4>3. QED
        BY <4>1, <4>2, Zenon
    <3>6. e1 + i - 1 = Len(x) - 1 /\ e1 + j - 1 = Len(x) /\ Len(x) >= 2
      BY <3>1, <3>2, <3>4
    <3>7. QED
      BY <3>5, <3>6, Zenon DEF Untrailed
  <2>3. QED
    BY <2>1, <2>2, <1>13
<1>28. 16 < t1 /\ t1 <= 20 + Len(sig)
  BY <1>a, <1>18
<1>29. QED
  BY <1>2, <1>17, <1>20, <1>21, <1>26, <1>27, <1>28 DEF Exchanged

(* Whatever the length of the signature                                    *)
LEMMA SignatureSet ==
  ASSUME Sizes, NEW kind \in Kinds, NEW b \in Bytes, NEW h \in Bytes, NEW kh \in Bytes,
         NEW s \in Bytes, Made(b, h, kind, kh, s),
         NEW sig \in Bytes, 4 <= Len(sig), Len(sig) <= SigLen, sig[Len(sig) - 1] = sig[Len(sig)],
         SetSignature(b, sig) # <<>>
  PROVE  Exchanged(SetSignature(b, sig), h, kind, kh, sig)
<1>1. Len(sig) \in Nat /\ SigLen \in Nat
  BY LenIs DEF Sizes
<1>2. Len(sig) < SigLen \/ Len(sig) = SigLen
  BY <1>1
<1>3. QED
  BY <1>2, SameLength, Shorter

(* The image sign_image_with_aws_kms leaves is accepted, and has a trailer *)
(* only at the end of the slot.                                            *)
Trailed(b) == SubSeq(b, Len(b) - 1, Len(b)) = <<1, 119>> => Len(b) = SlotSize

LEMMA ImageIsAccepted ==
  ASSUME Sizes, NEW input \in Bytes, HeaderSize <= Len(input), NEW o, NEW k \in Nat,
         NEW m \in Nat, 4 <= m, m <= SigLen, NEW n \in Nat, 4 <= n, n <= SigLen,
         SignImage(input, o, k, m, n) # <<>>
  PROVE  /\ SignImage(input, o, k, m, n) \in Bytes
         /\ Accepted(SignImage(input, o, k, m, n), k) /\ Trailed(SignImage(input, o, k, m, n))
<1> DEFINE made == ImgtoolSign(input, o, k, m)
           sha == EntryOf(made, SHA256)
           sig == Signature(k, Data(made, sha), n)
           signed == SetSignature(SetKeyHash(made, k), sig)
<1>1. made # <<>> /\ sha # 0 /\ SignImage(input, o, k, m, n) = signed /\ signed # <<>>
  BY DEF SignImage
<1>2. PICK h \in Bytes, s \in Bytes : Made(made, h, HashKind(k), KeyHash(TempKey), s)
  BY <1>1, ImgtoolImage
<1> HIDE DEF made
<1>3. PICK kind \in Kinds, kh \in Bytes, l \in Nat, t \in Nat, d \in Bytes :
        /\ kind = HashKind(k) /\ kh = KeyHash(TempKey) /\ l = Len(h) /\ t = 20 + SigLen
        /\ d = Digest(h) /\ Len(d) = 2
  <2>1. HashKind(k) \in Kinds
    BY DEF HashKind, Kinds
  <2>2. KeyHash(TempKey) \in Bytes
    BY KeyHashIs DEF TempKey
  <2>3. 20 + SigLen \in Nat
    BY DEF Sizes
  <2>4. QED
    BY <2>1, <2>2, <2>3, LenIs, DigestIs
<1>4. made \in Bytes /\ Layout(made, h, t, kind, d, kh, s) /\ Made(made, h, kind, kh, s)
  BY <1>2, <1>3, Zenon DEF Made
<1>5. Closed(made, Len(h) + 21 + Len(s))
  <2>1. Ended(made, Len(h) + 21 + SigLen) /\ Len(s) = SigLen
    BY <1>4 DEF Made
  <2>2. Len(h) + 21 + SigLen \in Nat
    BY <1>3 DEF Sizes
  <2>3. Closed(made, Len(h) + 21 + SigLen)
    BY <2>1, <2>2, <1>4, EndedIsClosed
  <2>4. QED
    BY <2>1, <2>3, Zenon
<1>6. /\ Three(made, Len(h) + 5, kind, d, kh, s)
      /\ EntryOf(made, SHA256) = IF kind = SHA256 THEN Len(h) + 5 ELSE 0
  BY <1>4, <1>5, Found
<1>7. kind = SHA256 /\ sha = Len(h) + 5
  BY <1>1, <1>6
<1>8. Data(made, sha) = d
  <2>1. PICK p \in Nat \ {0} : p = Len(h) + 5
    BY <1>3
  <2>2. Three(made, p, kind, d, kh, s)
    BY <2>1, <1>6
  <2>3. Data(made, p) = d
    BY <2>2, <1>4, ThreeRead
  <2>4. QED
    BY <2>1, <2>3, <1>7
<1> HIDE DEF sha
<1>9. PICK g \in Bytes : /\ g = Signature(k, d, n) /\ sig = g /\ Len(g) = n /\ g[2] + 2 = n
                         /\ SubSeq(g, 1, n) = g /\ g[n - 1] = g[n]
  <2>1. sig = Signature(k, d, n)
    BY <1>8
  <2>2. LET g == Signature(k, d, n) IN
        /\ g \in Bytes /\ Len(g) = n /\ g[2] + 2 = n
        /\ SubSeq(g, 1, n) = g /\ g[n - 1] = g[n]
    <3>1. n >= 4 /\ Len(d) = 2
      BY <1>3
    <3>2. QED
      BY <3>1, SignatureIs
  <2>3. QED
    BY <2>1, <2>2, Zenon
<1>10. PICK c \in Bytes, ck \in Bytes : /\ c = SetKeyHash(made, k) /\ ck = KeyHash(k)
                                        /\ Made(c, h, kind, ck, s)
  <2>1. Made(SetKeyHash(made, k), h, kind, KeyHash(k), s)
    BY <1>4, KeyHashSet
  <2>2. SetKeyHash(made, k) \in Bytes /\ KeyHash(k) \in Bytes
    BY <2>1, KeyHashIs DEF Made
  <2>3. QED
    BY <2>1, <2>2
<1>11. Exchanged(SetSignature(c, g), h, kind, ck, g)
  <2>1. SetSignature(c, g) # <<>>
    BY <1>1, <1>9, <1>10
  <2>2. 4 <= Len(g) /\ Len(g) <= SigLen /\ g[Len(g) - 1] = g[Len(g)]
    BY <1>9
  <2>3. QED
    BY <2>1, <2>2, <1>10, SignatureSet
<1>12. PICK x \in Bytes : x = SignImage(input, o, k, m, n) /\ Exchanged(x, h, kind, ck, g)
  <2>1. signed = SetSignature(c, g)
    BY <1>9, <1>10
  <2>2. SetSignature(c, g) \in Bytes
    BY <1>11 DEF Exchanged
  <2>3. QED
    BY <2>1, <2>2, <1>1, <1>11
<1>13. PICK t1 \in Nat : 16 < t1 /\ t1 <= 20 + Len(g) /\ Layout(x, h, t1, kind, Digest(h), ck, g)
  BY <1>12 DEF Exchanged
<1>14. Accepted(x, k)
  <2>1. PICK n2 : n2 = g[2] + 2
    OBVIOUS
  <2>2. SubSeq(g, 1, n2) = Signature(k, d, n2)
    BY <2>1, <1>9
  <2>3. Layout(x, h, t1, SHA256, d, ck, g)
    BY <1>3, <1>7, <1>13, Zenon
  <2>4. d = Digest(h) /\ ck = KeyHash(k) /\ n2 = g[2] + 2 /\ 16 < t1 /\ t1 <= 20 + Len(g)
    BY <2>1, <1>3, <1>10, <1>13, Zenon
  <2>5. QED
    BY <2>2, <2>3, <2>4, LayoutAccepted
<1>15. Trailed(x)
  <2> SUFFICES ASSUME SubSeq(x, Len(x) - 1, Len(x)) = <<1, 119>>, Len(x) # SlotSize PROVE FALSE
    BY DEF Trailed
  <2>1. PICK z \in Nat, y \in Nat \ {0} : z = Len(x) /\ y = z - 1 /\ x[y] = x[z]
    <3>1. Len(x) >= 2 /\ x[Len(x) - 1] = x[Len(x)] /\ Len(x) \in Nat
      BY <1>12, LenIs DEF Exchanged, Untrailed
    <3>2. Len(x) - 1 \in Nat \ {0}
      BY <3>1
    <3>3. QED
      BY <3>1, <3>2
  <2>2. z <= Len(x) /\ y <= z + 1
    BY <2>1
  <2>3. \A i \in 1..z - y + 1 : SubSeq(x, y, z)[i] = x[y + i - 1]
    BY <2>2, SubSeqIs
  <2>4. 1 \in 1..z - y + 1 /\ 2 \in 1..z - y + 1 /\ y + 1 - 1 = y /\ y + 2 - 1 = z
    BY <2>1
  <2>5. SubSeq(x, y, z)[1] = x[y] /\ SubSeq(x, y, z)[2] = x[z]
    BY <2>3, <2>4
  <2>6. SubSeq(x, y, z) = <<1, 119>>
    BY <2>1
  <2>7. QED
    <3>1. <<1, 119>>[1] = 1 /\ <<1, 119>>[2] = 119
      OBVIOUS
    <3>2. x[y] = 1 /\ x[z] = 119
      BY <2>5, <2>6, <3>1, Zenon
    <3>3. x[y] = x[z]
      BY <2>1, Zenon
    <3>4. 1 # 119
      OBVIOUS
    <3>5. QED
      BY <3>2, <3>3, <3>4, Zenon
<1>16. QED
  BY <1>12, <1>14, <1>15

(* What each step leaves of the signed image                               *)
LEMMA SignedInit == ImageInit => SignedIsAccepted
BY DEF ImageInit, SignedIsAccepted

LEMMA SignedStep == SignedIsAccepted /\ [ImageNext]_ImageVars => SignedIsAccepted'
<1> SUFFICES ASSUME SignedIsAccepted, [ImageNext]_ImageVars PROVE SignedIsAccepted'
  OBVIOUS
<1>1. CASE SignApp
  <2>1. PICK input \in Input, padHeader \in BOOLEAN, pad \in BOOLEAN, k \in Key,
             m \in SigLengths, n \in SigLengths :
          image' = SignImage(input, [padHeader |-> padHeader, pad |-> pad], k, m, n) /\ key' = k
    BY <1>1 DEF SignApp
  <2>2. Sizes /\ input \in Bytes /\ HeaderSize <= Len(input) /\ k \in Nat
    <3>1. Len(input) >= HeaderSize /\ input \in Bytes /\ HeaderSize \in Nat
      BY FirmwareImageAssumption DEF Bytes
    <3>2. Sizes
      BY FirmwareImageAssumption DEF Sizes
    <3>3. HeaderSize <= Len(input)
      BY <3>1, LenIs
    <3>4. QED
      BY <3>1, <3>2, <3>3, FirmwareImageAssumption
  <2>3. m \in Nat /\ n \in Nat /\ 4 <= m /\ 4 <= n /\ m <= SigLen /\ n <= SigLen
    BY FirmwareImageAssumption
  <2> DEFINE o == [padHeader |-> padHeader, pad |-> pad]
             x == SignImage(input, o, k, m, n)
  <2> HIDE DEF o
  <2>4. image' = x
    BY <2>1 DEF o
  <2>5. x # <<>> => Accepted(x, k) /\ Trailed(x)
    BY <2>2, <2>3, ImageIsAccepted
  <2> HIDE DEF x
  <2>6. QED
    BY <2>1, <2>4, <2>5 DEF SignedIsAccepted, Trailed
<1>2. CASE MakeCombined
  BY <1>2 DEF MakeCombined, SignedIsAccepted
<1>3. CASE GenFsblCerts
  BY <1>3 DEF GenFsblCerts, SignedIsAccepted
<1>4. CASE ProgramSrec
  BY <1>4 DEF ProgramSrec, SignedIsAccepted
<1>5. CASE ProgramOptions
  BY <1>5 DEF ProgramOptions, SignedIsAccepted
<1>6. CASE UNCHANGED ImageVars
  BY <1>6 DEF ImageVars, SignedIsAccepted
<1>7. QED
  BY <1>1, <1>2, <1>3, <1>4, <1>5, <1>6 DEF ImageNext

(* Every image sign-app leaves is one that imgtool's own verification      *)
(* accepts for the customer's key, whatever the lengths of the temporary   *)
(* signature and of the one from the HSM and whether the image was padded  *)
(* to its slot, and only a padded one ends in a trailer.                   *)
THEOREM SignedIsAcceptedHolds == ImageSpec => []SignedIsAccepted
<1>1. ImageInit => SignedIsAccepted
  BY SignedInit
<1>2. SignedIsAccepted /\ [ImageNext]_ImageVars => SignedIsAccepted'
  BY SignedStep
<1>3. QED
  BY <1>1, <1>2, PTL DEF ImageSpec

-----------------------------------------------------------------------------
(***************************************************************************)
(* The SREC files.                                                         *)
(***************************************************************************)
LEMMA MaxIs ==
  ASSUME NEW S \in SUBSET Nat, NEW x \in S, \A y \in S : y <= x
  PROVE  Max(S) = x
<1>1. \A y \in S : x >= y
  OBVIOUS
<1>2. PICK m \in Nat : m = Max(S) /\ m \in S /\ m >= x
  BY <1>1 DEF Max
<1>3. m <= x
  BY <1>2
<1>4. QED
  BY <1>2, <1>3

LEMMA MinIs ==
  ASSUME NEW S \in SUBSET Nat, NEW x \in S, \A y \in S : x <= y
  PROVE  Min(S) = x
<1>1. PICK m \in Nat : m = Min(S) /\ m \in S /\ m <= x
  BY DEF Min
<1>2. x <= m
  BY <1>1
<1>3. QED
  BY <1>1, <1>2

LEMMA MinExists ==
  ASSUME NEW S \in SUBSET Nat, S # {}
  PROVE  Min(S) \in S /\ \A y \in S : Min(S) <= y
BY LeastOfSet DEF Min

LEMMA MaxExists ==
  ASSUME NEW S \in SUBSET Nat, S # {}, NEW n \in Nat, \A y \in S : y <= n
  PROVE  Max(S) \in S /\ \A y \in S : y <= Max(S)
<1> DEFINE B == {m \in Nat : \A y \in S : y <= m}
<1>1. PICK m \in B : \A k \in B : m <= k
  <2>1. n \in B
    OBVIOUS
  <2>2. QED
    BY <2>1, LeastOfSet
<1>2. m \in S
  <2> SUFFICES ASSUME m \notin S PROVE FALSE
    OBVIOUS
  <2>1. PICK y \in S : TRUE
    OBVIOUS
  <2>2. m # 0
    BY <2>1
  <2>3. m - 1 \in B
    BY <2>2
  <2>4. QED
    BY <1>1, <2>3
<1>3. Max(S) = m
  BY <1>1, <1>2, MaxIs
<1>4. QED
  BY <1>1, <1>2, <1>3

LEMMA MaxOfTwo ==
  ASSUME NEW a \in Nat, NEW b \in Nat
  PROVE  Max({a, b}) = IF a <= b THEN b ELSE a
<1>1. CASE a <= b
  <2>1. b \in {a, b} /\ {a, b} \in SUBSET Nat /\ \A y \in {a, b} : y <= b
    BY <1>1
  <2>2. Max({a, b}) = b
    BY <2>1, MaxIs
  <2>3. QED
    BY <1>1, <2>2
<1>2. CASE ~ (a <= b)
  <2>1. a \in {a, b} /\ {a, b} \in SUBSET Nat /\ \A y \in {a, b} : y <= a
    BY <1>2
  <2>2. Max({a, b}) = a
    BY <2>1, MaxIs
  <2>3. QED
    BY <1>2, <2>2
<1>3. QED
  BY <1>1, <1>2

LEMMA MinOfTwo ==
  ASSUME NEW a \in Nat, NEW b \in Nat
  PROVE  Min({a, b}) = IF a <= b THEN a ELSE b
<1>1. CASE a <= b
  <2>1. a \in {a, b} /\ {a, b} \in SUBSET Nat /\ \A y \in {a, b} : a <= y
    BY <1>1
  <2>2. Min({a, b}) = a
    BY <2>1, MinIs
  <2>3. QED
    BY <1>1, <2>2
<1>2. CASE ~ (a <= b)
  <2>1. b \in {a, b} /\ {a, b} \in SUBSET Nat /\ \A y \in {a, b} : b <= y
    BY <1>2
  <2>2. Min({a, b}) = b
    BY <2>1, MinIs
  <2>3. QED
    BY <1>2, <2>2
<1>3. QED
  BY <1>1, <1>2

LEMMA Quotient ==
  ASSUME NEW p \in Nat \ {0}, NEW a \in Nat
  PROVE  /\ a % p \in Nat /\ a % p < p /\ a \div p \in Nat
         /\ a = (a \div p) * p + (a % p)
<1>1. a % p \in Int /\ a \div p \in Int
  OBVIOUS
<1>2. 0 <= a % p
  OBVIOUS
<1>3. a % p < p
  OBVIOUS
<1>4. a = p * (a \div p) + (a % p)
  OBVIOUS
<1>5. a \div p >= 0
  BY <1>1
<1>6. p * (a \div p) = (a \div p) * p
  BY <1>1
<1>7. QED
  BY <1>1, <1>2, <1>3, <1>4, <1>5, <1>6

(* Multiples of a size, which every alignment is about.                    *)
LEMMA MultipleIs ==
  ASSUME NEW p \in Nat \ {0}, NEW z \in Nat
  PROVE  z % p = 0 <=> \E k \in Nat : z = k * p
<1>2. ASSUME z % p = 0
      PROVE  \E k \in Nat : z = k * p
  <2>1. PICK k \in Nat, c \in Nat : k = z \div p /\ c = k * p
    BY Quotient
  <2>2. z = c + 0
    BY <2>1, <1>2, Quotient
  <2>3. QED
    BY <2>1, <2>2
<1>3. ASSUME NEW k \in Nat, z = k * p
      PROVE  z % p = 0
  BY <1>3
<1>4. QED
  BY <1>2, <1>3

LEMMA MultiplesApart ==
  ASSUME NEW p \in Nat \ {0}, NEW y \in Nat, NEW z \in Nat,
         y % p = 0, z % p = 0, y < z
  PROVE  y + p <= z
<1>1. PICK j \in Nat : y = j * p
  BY MultipleIs
<1>2. PICK k \in Nat : z = k * p
  BY MultipleIs
<1>3. j < k
  BY <1>1, <1>2
<1>4. (k - j - 1) * p >= 0
  BY <1>3
<1>5. QED
  BY <1>1, <1>2, <1>4

LEMMA MultiplesSum ==
  ASSUME NEW p \in Nat \ {0}, NEW y \in Nat, NEW z \in Nat, y % p = 0, z % p = 0
  PROVE  (y + z) % p = 0 /\ (z <= y => (y - z) % p = 0)
<1>1. PICK j \in Nat : y = j * p
  BY MultipleIs
<1>2. PICK k \in Nat : z = k * p
  BY MultipleIs
<1>3. y + z = (j + k) * p
  BY <1>1, <1>2
<1>4. (y + z) % p = 0
  <2>1. j + k \in Nat /\ y + z \in Nat
    OBVIOUS
  <2>2. QED
    BY <2>1, <1>3, MultipleIs
<1>5. ASSUME z <= y
      PROVE  (y - z) % p = 0
  <2>1. k <= j \/ p * (k - j) > 0
    OBVIOUS
  <2>2. k <= j
    BY <2>1, <1>1, <1>2, <1>5
  <2>3. j - k \in Nat /\ y - z = (j - k) * p
    BY <2>2, <1>1, <1>2
  <2>4. QED
    BY <2>3, MultipleIs, <1>5
<1>6. QED
  BY <1>4, <1>5

LEMMA MultipleOfMultiple ==
  ASSUME NEW p \in Nat \ {0}, NEW s \in Nat \ {0}, NEW z \in Nat, s % p = 0, z % s = 0
  PROVE  z % p = 0
<1>1. PICK j \in Nat : s = j * p
  BY MultipleIs
<1>2. PICK k \in Nat : z = k * s
  BY MultipleIs
<1>3. k * j \in Nat /\ z = (k * j) * p
  BY <1>1, <1>2
<1>4. QED
  BY <1>3, MultipleIs

LEMMA AlignDownIs ==
  ASSUME NEW p \in Nat \ {0}, NEW a \in Nat
  PROVE  LET d == AlignDown(a, p) IN d \in Nat /\ d % p = 0 /\ d <= a /\ a < d + p
<1>1. PICK r \in Nat, k \in Nat, c \in Nat :
        r = a % p /\ r < p /\ k = a \div p /\ c = k * p /\ a = c + r
  <2>1. (a \div p) * p \in Nat
    BY Quotient
  <2>2. QED
    BY <2>1, Quotient
<1>2. AlignDown(a, p) = c
  BY <1>1 DEF AlignDown
<1>3. c % p = 0
  BY <1>1, MultipleIs
<1>4. QED
  BY <1>1, <1>2, <1>3

LEMMA AlignUpIs ==
  ASSUME NEW p \in Nat \ {0}, NEW a \in Nat
  PROVE  LET d == AlignUp(a, p) IN d \in Nat /\ d % p = 0 /\ a <= d /\ d < a + p
<1>1. AlignUp(a, p) = AlignDown(a + p - 1, p) /\ a + p - 1 \in Nat
  BY DEF AlignUp
<1>2. PICK d \in Nat : d = AlignDown(a + p - 1, p) /\ d % p = 0 /\ d <= a + p - 1 /\ a + p - 1 < d + p
  BY <1>1, AlignDownIs
<1>3. a <= d /\ d < a + p
  BY <1>2
<1>4. QED
  BY <1>1, <1>2, <1>3

LEMMA AlignedUp ==
  ASSUME NEW p \in Nat \ {0}, NEW a \in Nat, NEW z \in Nat, z % p = 0, a <= z, z < a + p
  PROVE  AlignUp(a, p) = z
<1>1. PICK d \in Nat : d = AlignUp(a, p) /\ d % p = 0 /\ a <= d /\ d < a + p
  BY AlignUpIs
<1>2. ~ (d < z) /\ ~ (z < d)
  BY <1>1, MultiplesApart
<1>3. QED
  BY <1>1, <1>2

-----------------------------------------------------------------------------
LEMMA UpTo ==
  ASSUME NEW n \in Nat, NEW S, 0 \in S, \A i \in 1..n : i - 1 \in S => i \in S
  PROVE  0..n \subseteq S
<1> DEFINE T == {m \in Nat : m <= n => m \in S}
<1>1. 0 \in T
  OBVIOUS
<1>2. ASSUME NEW m \in Nat, m \in T
      PROVE  m + 1 \in T
  <2>1. CASE m + 1 <= n
    <3>1. m + 1 \in 1..n /\ (m + 1) - 1 = m /\ m \in S
      BY <2>1, <1>2
    <3>2. QED
      BY <3>1
  <2>2. CASE ~ (m + 1 <= n)
    BY <2>2
  <2>3. QED
    BY <2>1, <2>2
<1> HIDE DEF T
<1>3. T = Nat
  BY <1>1, <1>2, Induction DEF T
<1>4. QED
  BY <1>3 DEF T

LEMMA Joined ==
  ASSUME NEW V, NEW s \in Seq(V), NEW t \in Seq(V)
  PROVE  /\ s \o t \in Seq(V) /\ Len(s \o t) = Len(s) + Len(t)
         /\ \A i \in 1..Len(s) : (s \o t)[i] = s[i]
         /\ \A i \in 1..Len(t) : (s \o t)[Len(s) + i] = t[i]
<1>1. PICK m \in Nat, n \in Nat : m = Len(s) /\ n = Len(t)
  OBVIOUS
<1> DEFINE r == s \o t
<1>2. /\ r \in Seq(V) /\ Len(r) = m + n
      /\ \A i \in 1..m + n : r[i] = IF i <= m THEN s[i] ELSE t[i - m]
  BY <1>1, ConcatProperties
<1> HIDE DEF r
<1>3. ASSUME NEW i \in 1..m
      PROVE  r[i] = s[i]
  <2>1. i \in 1..m + n /\ i <= m
    OBVIOUS
  <2>2. QED
    BY <2>1, <1>2
<1>4. ASSUME NEW i \in 1..n
      PROVE  r[m + i] = t[i]
  <2>1. m + i \in 1..m + n /\ ~ (m + i <= m) /\ (m + i) - m = i
    OBVIOUS
  <2>2. QED
    BY <2>1, <1>2
<1>5. QED
  BY <1>1, <1>2, <1>3, <1>4 DEF r

LEMMA Part ==
  ASSUME NEW V, NEW s \in Seq(V), NEW p \in Nat \ {0}, NEW q \in Nat, q <= Len(s), p <= q + 1
  PROVE  /\ SubSeq(s, p, q) \in Seq(V) /\ Len(SubSeq(s, p, q)) = q - p + 1
         /\ \A i \in 1..q - p + 1 : SubSeq(s, p, q)[i] = s[p + i - 1]
<1>1. PICK l \in Nat : l = Len(s)
  OBVIOUS
<1>2. \A i \in p..q : s[i] \in V
  BY <1>1
<1>3. p \in Int /\ q \in Int
  OBVIOUS
<1> DEFINE r == SubSeq(s, p, q)
<1>4. /\ r \in Seq(V) /\ Len(r) = IF p <= q THEN q - p + 1 ELSE 0
      /\ \A i \in 1..q - p + 1 : r[i] = s[p + i - 1]
  BY <1>2, <1>3, SubSeqProperties
<1> HIDE DEF r
<1>5. (IF p <= q THEN q - p + 1 ELSE 0) = q - p + 1
  OBVIOUS
<1>6. QED
  BY <1>4, <1>5 DEF r

LEMMA ErasedIs ==
  ASSUME NEW n \in Nat
  PROVE  Erased(n) \in Seq(Nat) /\ Len(Erased(n)) = n /\ \A i \in 1..n : Erased(n)[i] = 255
BY DEF Erased

Padded(data, size) ==
  /\ PadUp(data, size) \in Seq(Nat) /\ Len(PadUp(data, size)) = AlignUp(Len(data), size)
  /\ \A i \in 1..Len(data) : PadUp(data, size)[i] = data[i]
  /\ \A i \in Len(data) + 1..AlignUp(Len(data), size) : PadUp(data, size)[i] = 255

LEMMA PadUpIs ==
  ASSUME NEW data \in Seq(Nat), NEW size \in Nat \ {0}
  PROVE  Padded(data, size)
<1>1. PICK n \in Nat : n = Len(data)
  OBVIOUS
<1>2. PICK m \in Nat : m = AlignUp(n, size) /\ n <= m
  BY AlignUpIs
<1>3. PICK k \in Nat : k = m - n
  BY <1>2
<1>4. PICK e \in Seq(Nat) : e = Erased(k) /\ Len(e) = k /\ \A i \in 1..k : e[i] = 255
  BY ErasedIs
<1>5. PICK r \in Seq(Nat) : r = data \o e
  BY Joined
<1>6. /\ Len(r) = n + k /\ \A i \in 1..n : r[i] = data[i]
      /\ \A i \in 1..k : r[n + i] = e[i]
  BY <1>1, <1>4, <1>5, Joined
<1>7. PadUp(data, size) = r
  BY <1>1, <1>2, <1>3, <1>4, <1>5 DEF PadUp
<1>8. n + k = m
  BY <1>3
<1>9. ASSUME NEW i \in n + 1..m
      PROVE  r[i] = 255
  <2>1. i - n \in 1..k /\ n + (i - n) = i
    BY <1>3
  <2>2. r[n + (i - n)] = e[i - n]
    BY <2>1, <1>6
  <2>3. QED
    BY <2>1, <2>2, <1>4
<1>10. QED
  BY <1>1, <1>2, <1>6, <1>7, <1>8, <1>9 DEF Padded

LEMMA RecordIs ==
  ASSUME NEW r \in Record
  PROVE  /\ r.addr \in Nat /\ r.data \in Seq(Nat) /\ Len(r.data) \in Nat \ {0}
         /\ Ends(r) = r.addr + Len(r.data) /\ Ends(r) \in Nat /\ r.addr < Ends(r)
         /\ Span(r) = r.addr..Ends(r) - 1 /\ r.addr \in Span(r)
<1>1. r.addr \in Nat /\ r.data \in Seq(Nat) /\ r.data # <<>>
  BY DEF Record
<1>2. PICK n \in Nat : n = Len(r.data)
  BY <1>1
<1>3. n # 0
  BY <1>1, <1>2
<1>4. QED
  BY <1>1, <1>2, <1>3 DEF Ends, Span

(* The bytes of anything that has an address and data                      *)
LEMMA ByteOfIs ==
  ASSUME NEW r, r.addr \in Nat, r.data \in Seq(Nat), NEW a \in Span(r)
  PROVE  a \in Nat /\ a - r.addr + 1 \in 1..Len(r.data) /\ ByteOf(r, a) \in Nat
<1>1. PICK n \in Nat : n = Len(r.data)
  OBVIOUS
<1>2. a \in r.addr..r.addr + n - 1
  BY <1>1 DEF Span, Ends
<1>3. a \in Nat /\ a - r.addr + 1 \in 1..n
  BY <1>2
<1>4. r.data[a - r.addr + 1] \in Nat
  BY <1>1, <1>3
<1>5. QED
  BY <1>1, <1>3, <1>4 DEF ByteOf

-----------------------------------------------------------------------------
(* Where a record goes in a sorted file                                    *)
Placed(s, r, t, n) ==
  /\ t \in Seq(Record) /\ Len(t) = Len(s) + 1 /\ t[n + 1] = r
  /\ \A i \in 1..n : t[i] = s[i] /\ (i = n => s[i].addr <= r.addr)
  /\ \A i \in n + 1..Len(s) : t[i + 1] = s[i] /\ r.addr < s[i].addr

LEMMA InsertIs ==
  ASSUME NEW s \in Seq(Record), NEW r \in Record
  PROVE  \E n \in 0..Len(s) : Placed(s, r, Insert(s, r), n)
<1>1. PICK l \in Nat : l = Len(s)
  OBVIOUS
<1> DEFINE B == {0} \cup {i \in DOMAIN s : s[i].addr <= r.addr}
<1>2. DOMAIN s = 1..l
  BY <1>1
<1>3. B \in SUBSET Nat /\ B # {} /\ \A i \in B : i <= l
  BY <1>2
<1>4. Max(B) \in B /\ \A i \in B : i <= Max(B)
  BY <1>1, <1>3, MaxExists
<1>5. PICK n \in 0..l : n = Max(B) /\ n \in B /\ \A i \in B : i <= n
  <2>1. Max(B) \in Nat /\ Max(B) <= l
    BY <1>3, <1>4
  <2>2. Max(B) \in 0..l
    BY <2>1
  <2> HIDE DEF B
  <2>3. QED
    BY <2>2, <1>4
<1>6. Insert(s, r) = SubSeq(s, 1, n) \o <<r>> \o SubSeq(s, n + 1, Len(s))
  BY <1>5, Zenon DEF Insert
<1>7. n > 0 => s[n].addr <= r.addr
  BY <1>5
<1>8. \A i \in n + 1..l : r.addr < s[i].addr
  <2> SUFFICES ASSUME NEW i \in n + 1..l PROVE r.addr < s[i].addr
    OBVIOUS
  <2>1. i \in 1..l /\ i \notin B
    BY <1>5
  <2>2. s[i] \in Record
    BY <2>1, <1>1
  <2>3. s[i].addr \in Nat /\ r.addr \in Nat
    BY <2>2, RecordIs
  <2>4. ~ (s[i].addr <= r.addr)
    BY <2>1, <1>2
  <2>5. QED
    BY <2>3, <2>4
<1> HIDE DEF B
<1>9. PICK f \in Seq(Record) : /\ f = SubSeq(s, 1, n) /\ Len(f) = n
                               /\ \A i \in 1..n : f[i] = s[i]
  <2>1. 1 \in Nat \ {0} /\ n \in Nat /\ n <= Len(s) /\ 1 <= n + 1 /\ n - 1 + 1 = n
    BY <1>1
  <2>2. \A i \in 1..n : 1 + i - 1 = i
    OBVIOUS
  <2>3. /\ SubSeq(s, 1, n) \in Seq(Record) /\ Len(SubSeq(s, 1, n)) = n - 1 + 1
        /\ \A i \in 1..n - 1 + 1 : SubSeq(s, 1, n)[i] = s[1 + i - 1]
    BY <2>1, Part
  <2>4. QED
    BY <2>1, <2>2, <2>3
<1>10. PICK g \in Seq(Record) : /\ g = SubSeq(s, n + 1, l) /\ Len(g) = l - n
                                /\ \A i \in 1..l - n : g[i] = s[n + i]
  <2>1. n + 1 \in Nat \ {0} /\ l \in Nat /\ l <= Len(s) /\ n + 1 <= l + 1 /\ l - (n + 1) + 1 = l - n
    BY <1>1
  <2>2. \A i \in 1..l - n : n + 1 + i - 1 = n + i
    OBVIOUS
  <2>3. /\ SubSeq(s, n + 1, l) \in Seq(Record) /\ Len(SubSeq(s, n + 1, l)) = l - (n + 1) + 1
        /\ \A i \in 1..l - (n + 1) + 1 : SubSeq(s, n + 1, l)[i] = s[n + 1 + i - 1]
    BY <2>1, Part
  <2>4. \A i \in 1..l - n : SubSeq(s, n + 1, l)[i] = s[n + i]
    <3> SUFFICES ASSUME NEW i \in 1..l - n PROVE SubSeq(s, n + 1, l)[i] = s[n + i]
      OBVIOUS
    <3>1. i \in 1..l - (n + 1) + 1 /\ n + 1 + i - 1 = n + i
      BY <2>1
    <3>2. SubSeq(s, n + 1, l)[i] = s[n + 1 + i - 1]
      BY <2>3, <3>1
    <3>3. QED
      BY <3>1, <3>2
  <2>5. QED
    BY <2>1, <2>3, <2>4
<1>11. PICK h \in Seq(Record) : /\ h = f \o <<r>> /\ Len(h) = n + 1 /\ h[n + 1] = r
                                /\ \A i \in 1..n : h[i] = s[i]
  <2>1. <<r>> \in Seq(Record) /\ Len(<<r>>) = 1 /\ <<r>>[1] = r /\ 1 \in 1..1
    OBVIOUS
  <2>2. /\ f \o <<r>> \in Seq(Record) /\ Len(f \o <<r>>) = Len(f) + Len(<<r>>)
        /\ \A i \in 1..Len(f) : (f \o <<r>>)[i] = f[i]
        /\ \A i \in 1..Len(<<r>>) : (f \o <<r>>)[Len(f) + i] = <<r>>[i]
    BY <2>1, Joined
  <2>3. QED
    BY <2>1, <2>2, <1>9
<1>12. PICK t \in Seq(Record) : /\ t = h \o g /\ Len(t) = l + 1
                                /\ \A i \in 1..n + 1 : t[i] = h[i]
                                /\ \A i \in 1..l - n : t[n + 1 + i] = g[i]
  <2>1. /\ h \o g \in Seq(Record) /\ Len(h \o g) = Len(h) + Len(g)
        /\ \A i \in 1..Len(h) : (h \o g)[i] = h[i]
        /\ \A i \in 1..Len(g) : (h \o g)[Len(h) + i] = g[i]
    BY Joined
  <2>2. Len(h) = n + 1 /\ Len(g) = l - n /\ n + 1 + (l - n) = l + 1
    BY <1>10, <1>11
  <2>3. QED
    BY <2>1, <2>2
<1>13. Insert(s, r) = t
  BY <1>1, <1>6, <1>9, <1>10, <1>11, <1>12, Zenon
<1>14. t[n + 1] = r /\ \A i \in 1..n : t[i] = s[i]
  <2>1. n + 1 \in 1..n + 1 /\ \A i \in 1..n : i \in 1..n + 1
    OBVIOUS
  <2>2. QED
    BY <2>1, <1>11, <1>12
<1>15. \A i \in n + 1..l : t[i + 1] = s[i]
  <2> SUFFICES ASSUME NEW i \in n + 1..l PROVE t[i + 1] = s[i]
    OBVIOUS
  <2>1. i - n \in 1..l - n /\ n + 1 + (i - n) = i + 1 /\ n + (i - n) = i
    OBVIOUS
  <2>2. t[n + 1 + (i - n)] = g[i - n] /\ g[i - n] = s[n + (i - n)]
    BY <2>1, <1>10, <1>12
  <2>3. QED
    BY <2>1, <2>2
<1>16. \A i \in 1..n : i = n => s[i].addr <= r.addr
  BY <1>7
<1>17. Placed(s, r, t, n)
  BY <1>1, <1>8, <1>12, <1>14, <1>15, <1>16 DEF Placed
<1>18. QED
  BY <1>1, <1>13, <1>17

Sorted(s) == \A i, j \in 1..Len(s) : i < j => s[i].addr <= s[j].addr

LEMMA PlacedSorted ==
  ASSUME NEW s \in Seq(Record), NEW r \in Record, Sorted(s), NEW n \in 0..Len(s),
         NEW t, Placed(s, r, t, n)
  PROVE  Sorted(t)
<1>1. PICK l \in Nat : l = Len(s) /\ n \in 0..l
  OBVIOUS
<1>2. /\ t \in Seq(Record) /\ Len(t) = l + 1 /\ t[n + 1] = r
      /\ \A i \in 1..n : t[i] = s[i] /\ (i = n => s[i].addr <= r.addr)
      /\ \A i \in n + 1..l : t[i + 1] = s[i] /\ r.addr < s[i].addr
  BY <1>1 DEF Placed
<1>3. r.addr \in Nat /\ \A i \in 1..l : s[i].addr \in Nat
  <2>1. \A i \in 1..l : s[i] \in Record
    BY <1>1
  <2>2. QED
    BY <2>1, RecordIs
<1>4. \A i, j \in 1..l : i < j => s[i].addr <= s[j].addr
  BY <1>1 DEF Sorted
<1>5. \A i \in 1..n : s[i].addr <= r.addr
  <2> SUFFICES ASSUME NEW i \in 1..n PROVE s[i].addr <= r.addr
    OBVIOUS
  <2>1. n \in 1..n /\ n \in 1..l /\ i \in 1..l
    BY <1>1
  <2>2. s[n].addr <= r.addr /\ (i = n \/ s[i].addr <= s[n].addr)
    BY <2>1, <1>2, <1>4
  <2>3. QED
    BY <2>1, <2>2, <1>3
<1>6. ASSUME NEW i \in 1..l + 1, NEW j \in 1..l + 1, i < j
      PROVE  t[i].addr <= t[j].addr
  <2>1. CASE j <= n
    <3>1. i \in 1..n /\ j \in 1..n /\ i \in 1..l /\ j \in 1..l
      BY <2>1, <1>6, <1>1
    <3>2. t[i] = s[i] /\ t[j] = s[j] /\ s[i].addr <= s[j].addr
      BY <3>1, <1>2, <1>4, <1>6
    <3>3. QED
      BY <3>2
  <2>2. CASE j = n + 1
    <3>1. i \in 1..n
      BY <2>2, <1>6
    <3>2. t[i] = s[i] /\ t[j] = r
      BY <3>1, <2>2, <1>2
    <3>3. QED
      BY <3>1, <3>2, <1>5
  <2>3. CASE j > n + 1
    <3>1. j - 1 \in n + 1..l /\ (j - 1) + 1 = j
      BY <2>3, <1>6
    <3>2. t[j] = s[j - 1] /\ r.addr < s[j - 1].addr /\ j - 1 \in 1..l
      BY <3>1, <1>2
    <3>3. CASE i <= n
      <4>1. i \in 1..n /\ i \in 1..l /\ i < j - 1
        BY <3>3, <2>3, <1>1, <1>6
      <4>2. t[i] = s[i] /\ s[i].addr <= s[j - 1].addr
        BY <4>1, <3>2, <1>2, <1>4
      <4>3. QED
        BY <4>2, <3>2
    <3>4. CASE i = n + 1
      <4>1. t[i] = r
        BY <3>4, <1>2
      <4>2. QED
        BY <4>1, <3>2, <1>3
    <3>5. CASE i > n + 1
      <4>1. i - 1 \in n + 1..l /\ (i - 1) + 1 = i /\ i - 1 < j - 1 /\ i - 1 \in 1..l
        BY <3>5, <1>1, <1>6
      <4>2. t[i] = s[i - 1] /\ s[i - 1].addr <= s[j - 1].addr
        BY <4>1, <3>2, <1>2, <1>4
      <4>3. QED
        BY <4>2, <3>2
    <3>6. QED
      BY <3>3, <3>4, <3>5
  <2>4. QED
    BY <2>1, <2>2, <2>3, <1>1
<1>7. QED
  BY <1>2, <1>6 DEF Sorted

(* The values of a sequence                                                *)
In(x, s) == \E i \in 1..Len(s) : s[i] = x

LEMMA PlacedIn ==
  ASSUME NEW s \in Seq(Record), NEW r \in Record, NEW n \in 0..Len(s),
         NEW t, Placed(s, r, t, n)
  PROVE  \A x : In(x, t) <=> In(x, s) \/ x = r
<1>1. PICK l \in Nat : l = Len(s) /\ n \in 0..l
  OBVIOUS
<1>2. /\ t \in Seq(Record) /\ Len(t) = l + 1 /\ t[n + 1] = r
      /\ \A i \in 1..n : t[i] = s[i]
      /\ \A i \in n + 1..l : t[i + 1] = s[i]
  BY <1>1 DEF Placed
<1>3. ASSUME NEW x, NEW i \in 1..l + 1, t[i] = x
      PROVE  x = r \/ \E j \in 1..l : s[j] = x
  <2>1. CASE i <= n
    <3>1. i \in 1..n /\ i \in 1..l
      BY <2>1, <1>1
    <3>2. QED
      BY <3>1, <1>2, <1>3
  <2>2. CASE i = n + 1
    BY <2>2, <1>2, <1>3
  <2>3. CASE i > n + 1
    <3>1. i - 1 \in n + 1..l /\ (i - 1) + 1 = i /\ i - 1 \in 1..l
      BY <2>3
    <3>2. t[(i - 1) + 1] = s[i - 1]
      BY <3>1, <1>2
    <3>3. QED
      BY <3>1, <3>2, <1>3
  <2>4. QED
    BY <2>1, <2>2, <2>3, <1>1
<1>4. ASSUME NEW x, NEW j \in 1..l, s[j] = x
      PROVE  \E i \in 1..l + 1 : t[i] = x
  <2>1. CASE j <= n
    <3>1. j \in 1..n /\ j \in 1..l + 1
      BY <2>1
    <3>2. QED
      BY <3>1, <1>2, <1>4
  <2>2. CASE ~ (j <= n)
    <3>1. j \in n + 1..l /\ j + 1 \in 1..l + 1
      BY <2>2, <1>1
    <3>2. t[j + 1] = x
      BY <3>1, <1>2, <1>4
    <3>3. QED
      BY <3>1, <3>2
  <2>3. QED
    BY <2>1, <2>2
<1>5. n + 1 \in 1..l + 1
  BY <1>1
<1>6. QED
  BY <1>1, <1>2, <1>3, <1>4, <1>5 DEF In

-----------------------------------------------------------------------------
(* The loops over a file, as functions from how far they have come         *)
LEMMA SortLoop ==
  ASSUME NEW file \in Seq(Record)
  PROVE  \E f \in [0..Len(file) -> Seq(Record)] :
           /\ f[0] = <<>>
           /\ \A i \in 1..Len(file) : f[i] = Insert(f[i - 1], file[i])
           /\ Sort(file) = f[Len(file)]
<1>1. PICK n \in Nat : n = Len(file)
  OBVIOUS
<1>2. ASSUME NEW i \in 1..n, NEW v \in Seq(Record)
      PROVE  Insert(v, file[i]) \in Seq(Record)
  <2>1. file[i] \in Record
    BY <1>1
  <2>2. PICK m \in 0..Len(v) : Placed(v, file[i], Insert(v, file[i]), m)
    BY <2>1, InsertIs
  <2>3. QED
    BY <2>2 DEF Placed
<1>3. <<>> \in Seq(Record)
  OBVIOUS
<1> DEFINE G == [x \in (1..n) \X Seq(Record) |-> Insert(x[2], file[x[1]])]
<1>4. \A i \in 1..n, v \in Seq(Record) : G[<<i, v>>] = Insert(v, file[i])
  OBVIOUS
<1> HIDE DEF G
<1>5. MakesUpTo(n, G, Seq(Record))
  BY <1>2, <1>4 DEF MakesUpTo
<1>6. PICK f \in [0..n -> Seq(Record)] : IterationOf(f, n, <<>>, G)
  BY <1>3, <1>5, Iterated, Zenon
<1>7. ASSUME NEW i \in 0..n
      PROVE  f[i] = IF i = 0 THEN <<>> ELSE Insert(f[i - 1], file[i])
  <2>1. CASE i = 0
    BY <2>1, <1>6 DEF IterationOf
  <2>2. CASE i # 0
    <3>1. i \in 1..n /\ i - 1 \in 0..n
      BY <2>2
    <3>2. f[i] = G[<<i, f[i - 1]>>]
      BY <2>2, <1>6 DEF IterationOf
    <3>3. f[i - 1] \in Seq(Record)
      BY <3>1
    <3>4. f[i] = Insert(f[i - 1], file[i])
      BY <3>1, <3>2, <3>3, <1>4
    <3>5. QED
      BY <2>2, <3>4
  <2>3. QED
    BY <2>1, <2>2
<1>8. f = [i \in 0..n |-> IF i = 0 THEN <<>> ELSE Insert(f[i - 1], file[i])]
  BY <1>7
<1>9. \E g : g = [i \in 0..Len(file) |-> IF i = 0 THEN <<>> ELSE Insert(g[i - 1], file[i])]
  BY <1>1, <1>8, Zenon
<1> DEFINE made[i \in 0..Len(file)] == IF i = 0 THEN <<>> ELSE Insert(made[i - 1], file[i])
<1>10. made = [i \in 0..Len(file) |-> IF i = 0 THEN <<>> ELSE Insert(made[i - 1], file[i])]
  BY <1>9, Zenon
<1>11. Sort(file) = made[Len(file)]
  BY DEF Sort
<1> HIDE DEF made
<1>12. /\ made[0] = <<>>
       /\ \A i \in 1..n : made[i] = Insert(made[i - 1], file[i])
  <2>1. 0 \in 0..n /\ \A i \in 1..n : i \in 0..n /\ i # 0
    OBVIOUS
  <2>2. \A i \in 0..n : made[i] = IF i = 0 THEN <<>> ELSE Insert(made[i - 1], file[i])
    BY <1>1, <1>10, Zenon
  <2>3. QED
    BY <2>1, <2>2, Zenon
<1> DEFINE S == {i \in 0..n : made[i] \in Seq(Record)}
<1>13. 0..n \subseteq S
  <2>1. 0 \in S
    <3>1. 0 \in 0..n /\ made[0] \in Seq(Record)
      BY <1>3, <1>12
    <3>2. QED
      BY <3>1
  <2>2. ASSUME NEW i \in 1..n, i - 1 \in S
        PROVE  i \in S
    <3>1. made[i - 1] \in Seq(Record) /\ i \in 0..n
      BY <2>2
    <3>2. Insert(made[i - 1], file[i]) \in Seq(Record)
      BY <3>1, <1>2
    <3>3. QED
      BY <3>1, <3>2, <1>12
  <2> HIDE DEF S
  <2>3. QED
    BY <2>1, <2>2, UpTo
<1>14. made \in [0..n -> Seq(Record)]
  BY <1>1, <1>10, <1>13
<1>15. QED
  BY <1>1, <1>11, <1>12, <1>14

LEMMA TakenLoop ==
  ASSUME NEW file \in Seq(Record), NEW A
  PROVE  \E f \in [0..Len(file) -> Seq(Record)] :
           /\ f[0] = <<>>
           /\ \A i \in 1..Len(file) : f[i] = f[i - 1] \o IfIn(file[i], A)
           /\ StartingIn(file, A) = f[Len(file)]
<1>1. PICK n \in Nat : n = Len(file)
  OBVIOUS
<1>2. ASSUME NEW i \in 1..n, NEW v \in Seq(Record)
      PROVE  v \o IfIn(file[i], A) \in Seq(Record)
  <2>1. file[i] \in Record
    BY <1>1
  <2>2. IfIn(file[i], A) \in Seq(Record)
    BY <2>1 DEF IfIn
  <2>3. QED
    BY <2>2, Joined
<1>3. <<>> \in Seq(Record)
  OBVIOUS
<1> DEFINE G == [x \in (1..n) \X Seq(Record) |-> x[2] \o IfIn(file[x[1]], A)]
<1>4. \A i \in 1..n, v \in Seq(Record) : G[<<i, v>>] = v \o IfIn(file[i], A)
  OBVIOUS
<1> HIDE DEF G
<1>5. MakesUpTo(n, G, Seq(Record))
  BY <1>2, <1>4 DEF MakesUpTo
<1>6. PICK f \in [0..n -> Seq(Record)] : IterationOf(f, n, <<>>, G)
  BY <1>3, <1>5, Iterated, Zenon
<1>7. ASSUME NEW i \in 0..n
      PROVE  f[i] = IF i = 0 THEN <<>> ELSE f[i - 1] \o IfIn(file[i], A)
  <2>1. CASE i = 0
    BY <2>1, <1>6 DEF IterationOf
  <2>2. CASE i # 0
    <3>1. i \in 1..n /\ i - 1 \in 0..n
      BY <2>2
    <3>2. f[i] = G[<<i, f[i - 1]>>]
      BY <2>2, <1>6 DEF IterationOf
    <3>3. f[i - 1] \in Seq(Record)
      BY <3>1
    <3>4. f[i] = f[i - 1] \o IfIn(file[i], A)
      BY <3>1, <3>2, <3>3, <1>4
    <3>5. QED
      BY <2>2, <3>4
  <2>3. QED
    BY <2>1, <2>2
<1>8. f = [i \in 0..n |-> IF i = 0 THEN <<>> ELSE f[i - 1] \o IfIn(file[i], A)]
  BY <1>7
<1>9. \E g : g = [i \in 0..Len(file) |-> IF i = 0 THEN <<>> ELSE g[i - 1] \o IfIn(file[i], A)]
  BY <1>1, <1>8, Zenon
<1> DEFINE made[i \in 0..Len(file)] == IF i = 0 THEN <<>> ELSE made[i - 1] \o IfIn(file[i], A)
<1>10. made = [i \in 0..Len(file) |-> IF i = 0 THEN <<>> ELSE made[i - 1] \o IfIn(file[i], A)]
  BY <1>9, Zenon
<1>11. StartingIn(file, A) = made[Len(file)]
  BY DEF StartingIn
<1> HIDE DEF made
<1>12. /\ made[0] = <<>>
       /\ \A i \in 1..n : made[i] = made[i - 1] \o IfIn(file[i], A)
  <2>1. 0 \in 0..n /\ \A i \in 1..n : i \in 0..n /\ i # 0
    OBVIOUS
  <2>2. \A i \in 0..n : made[i] = IF i = 0 THEN <<>> ELSE made[i - 1] \o IfIn(file[i], A)
    BY <1>1, <1>10, Zenon
  <2>3. QED
    BY <2>1, <2>2, Zenon
<1> DEFINE S == {i \in 0..n : made[i] \in Seq(Record)}
<1>13. 0..n \subseteq S
  <2>1. 0 \in S
    <3>1. 0 \in 0..n /\ made[0] \in Seq(Record)
      BY <1>3, <1>12
    <3>2. QED
      BY <3>1
  <2>2. ASSUME NEW i \in 1..n, i - 1 \in S
        PROVE  i \in S
    <3>1. made[i - 1] \in Seq(Record) /\ i \in 0..n
      BY <2>2
    <3>2. made[i - 1] \o IfIn(file[i], A) \in Seq(Record)
      BY <3>1, <1>2
    <3>3. QED
      BY <3>1, <3>2, <1>12
  <2> HIDE DEF S
  <2>3. QED
    BY <2>1, <2>2, UpTo
<1>14. made \in [0..n -> Seq(Record)]
  BY <1>1, <1>10, <1>13
<1>15. QED
  BY <1>1, <1>11, <1>12, <1>14

LEMMA SortIs ==
  ASSUME NEW file \in Seq(Record)
  PROVE  /\ Sort(file) \in Seq(Record) /\ Sorted(Sort(file))
         /\ \A x : In(x, Sort(file)) <=> In(x, file)
<1>1. PICK n \in Nat : n = Len(file)
  OBVIOUS
<1>2. PICK f \in [0..n -> Seq(Record)] :
        /\ f[0] = <<>> /\ \A i \in 1..n : f[i] = Insert(f[i - 1], file[i])
        /\ Sort(file) = f[n]
  BY <1>1, SortLoop, Zenon
<1> DEFINE S == {i \in 0..n : Sorted(f[i]) /\ \A x : In(x, f[i]) <=> \E j \in 1..i : file[j] = x}
<1>3. 0 \in S
  <2>1. Sorted(<<>>)
    BY DEF Sorted
  <2>2. \A x : ~ In(x, <<>>) /\ ~ \E j \in 1..0 : file[j] = x
    BY DEF In
  <2>3. QED
    BY <2>1, <2>2, <1>2
<1>4. ASSUME NEW i \in 1..n, i - 1 \in S
      PROVE  i \in S
  <2>1. file[i] \in Record /\ f[i - 1] \in Seq(Record) /\ i \in 0..n
    BY <1>1
  <2>2. PICK k \in 0..Len(f[i - 1]) : Placed(f[i - 1], file[i], f[i], k)
    BY <2>1, <1>2, InsertIs
  <2>3. Sorted(f[i])
    BY <2>1, <2>2, <1>4, PlacedSorted
  <2>4. \A x : In(x, f[i]) <=> In(x, f[i - 1]) \/ x = file[i]
    BY <2>1, <2>2, PlacedIn
  <2>5. ASSUME NEW x
        PROVE  In(x, f[i]) <=> \E j \in 1..i : file[j] = x
    <3>1. In(x, f[i - 1]) <=> \E j \in 1..i - 1 : file[j] = x
      BY <1>4
    <3>2. 1..i = 1..i - 1 \cup {i}
      OBVIOUS
    <3>3. QED
      BY <3>1, <3>2, <2>4
  <2>6. QED
    BY <2>1, <2>3, <2>5
<1> HIDE DEF S
<1>5. 0..n \subseteq S
  BY <1>3, <1>4, UpTo
<1>6. n \in S
  BY <1>5
<1>7. Sorted(f[n]) /\ \A x : In(x, f[n]) <=> In(x, file)
  BY <1>1, <1>6 DEF S, In
<1>8. QED
  BY <1>2, <1>7

LEMMA JoinedIn ==
  ASSUME NEW V, NEW s \in Seq(V), NEW t \in Seq(V)
  PROVE  \A x : In(x, s \o t) <=> In(x, s) \/ In(x, t)
<1>1. PICK m \in Nat, n \in Nat : m = Len(s) /\ n = Len(t)
  OBVIOUS
<1> DEFINE r == s \o t
<1>2. /\ Len(r) = m + n /\ \A i \in 1..m : r[i] = s[i]
      /\ \A i \in 1..n : r[m + i] = t[i]
  BY <1>1, Joined
<1> HIDE DEF r
<1>3. ASSUME NEW x, NEW i \in 1..m + n, r[i] = x
      PROVE  In(x, s) \/ In(x, t)
  <2>1. CASE i <= m
    <3>1. i \in 1..m /\ s[i] = x
      BY <2>1, <1>2, <1>3
    <3>2. QED
      BY <3>1, <1>1 DEF In
  <2>2. CASE ~ (i <= m)
    <3>1. i - m \in 1..n /\ m + (i - m) = i
      BY <2>2
    <3>2. t[i - m] = x
      BY <3>1, <1>2, <1>3
    <3>3. QED
      BY <3>1, <3>2, <1>1 DEF In
  <2>3. QED
    BY <2>1, <2>2
<1>4. ASSUME NEW x, In(x, s)
      PROVE  In(x, r)
  <2>1. PICK i \in 1..m : s[i] = x
    BY <1>1, <1>4 DEF In
  <2>2. i \in 1..m + n /\ r[i] = x
    BY <2>1, <1>2
  <2>3. QED
    BY <2>2, <1>2 DEF In
<1>5. ASSUME NEW x, In(x, t)
      PROVE  In(x, r)
  <2>1. PICK i \in 1..n : t[i] = x
    BY <1>1, <1>5 DEF In
  <2>2. m + i \in 1..m + n /\ r[m + i] = x
    BY <2>1, <1>2
  <2>3. QED
    BY <2>2, <1>2 DEF In
<1>6. ASSUME NEW x, In(x, r)
      PROVE  In(x, s) \/ In(x, t)
  BY <1>2, <1>3, <1>6 DEF In
<1>7. QED
  BY <1>4, <1>5, <1>6 DEF r

LEMMA InOne == \A x, y : /\ In(x, <<y>>) <=> x = y
                         /\ ~ In(x, <<>>)
BY DEF In

LEMMA InIfIn ==
  ASSUME NEW r, NEW A
  PROVE  \A x : In(x, IfIn(r, A)) <=> x = r /\ x.addr \in A
<1> SUFFICES ASSUME NEW x PROVE In(x, IfIn(r, A)) <=> x = r /\ x.addr \in A
  OBVIOUS
<1>1. In(x, <<r>>) <=> x = r
  BY InOne, Zenon
<1>2. ~ In(x, <<>>)
  BY InOne, Zenon
<1>3. QED
  BY <1>1, <1>2 DEF IfIn

LEMMA StartingInIs ==
  ASSUME NEW file \in Seq(Record), NEW A
  PROVE  /\ StartingIn(file, A) \in Seq(Record)
         /\ \A x : In(x, StartingIn(file, A)) <=> In(x, file) /\ x.addr \in A
<1>1. PICK n \in Nat : n = Len(file)
  OBVIOUS
<1>2. PICK f \in [0..n -> Seq(Record)] :
        /\ f[0] = <<>> /\ \A i \in 1..n : f[i] = f[i - 1] \o IfIn(file[i], A)
        /\ StartingIn(file, A) = f[n]
  BY <1>1, TakenLoop, Zenon
<1> DEFINE S == {i \in 0..n : \A x : In(x, f[i]) <=> (\E j \in 1..i : file[j] = x) /\ x.addr \in A}
<1>3. 0 \in S
  <2>a. 1..0 = {}
    OBVIOUS
  <2>1. \A x : ~ In(x, <<>>) /\ ~ \E j \in 1..0 : file[j] = x
    BY <2>a, InOne, Zenon
  <2>2. 0 \in 0..n
    OBVIOUS
  <2>3. QED
    BY <2>1, <2>2, <1>2
<1>4. ASSUME NEW i \in 1..n, i - 1 \in S
      PROVE  i \in S
  <2>1. file[i] \in Record /\ f[i - 1] \in Seq(Record) /\ IfIn(file[i], A) \in Seq(Record) /\ i \in 0..n
    BY <1>1 DEF IfIn
  <2>2. \A x : In(x, IfIn(file[i], A)) <=> x = file[i] /\ x.addr \in A
    BY InIfIn, Zenon
  <2>b. \A x : In(x, f[i - 1] \o IfIn(file[i], A)) <=> In(x, f[i - 1]) \/ In(x, IfIn(file[i], A))
    BY <2>1, JoinedIn, Zenon
  <2>3. \A x : In(x, f[i]) <=> In(x, f[i - 1]) \/ In(x, IfIn(file[i], A))
    BY <2>b, <1>2, Zenon
  <2>4. ASSUME NEW x
        PROVE  In(x, f[i]) <=> (\E j \in 1..i : file[j] = x) /\ x.addr \in A
    <3>1. In(x, f[i - 1]) <=> (\E j \in 1..i - 1 : file[j] = x) /\ x.addr \in A
      BY <1>4
    <3>2. 1..i = 1..i - 1 \cup {i}
      OBVIOUS
    <3>3. QED
      BY <3>1, <3>2, <2>2, <2>3
  <2>5. QED
    BY <2>1, <2>4
<1> HIDE DEF S
<1>5. 0..n \subseteq S
  BY <1>3, <1>4, UpTo
<1>6. n \in S
  BY <1>5
<1>7. \A x : In(x, f[n]) <=> In(x, file) /\ x.addr \in A
  BY <1>1, <1>6 DEF S, In
<1>8. QED
  BY <1>2, <1>7

-----------------------------------------------------------------------------
(* The option-setting memory                                               *)
LEMMA IntervalIs ==
  ASSUME NEW R, Interval(R)
  PROVE  /\ Min(R) \in Nat /\ Max(R) \in Nat /\ Min(R) <= Max(R) /\ R = Min(R)..Max(R)
         /\ R \in SUBSET Nat
<1>1. PICK lo \in R, hi \in R : R = lo..hi
  BY DEF Interval
<1>2. R \in SUBSET Nat
  BY DEF Interval
<1>3. lo \in Nat /\ hi \in Nat /\ lo <= hi /\ \A x \in R : lo <= x /\ x <= hi
  BY <1>1, <1>2
<1>4. Min(R) = lo /\ Max(R) = hi
  BY <1>2, <1>3, MinIs, MaxIs
<1>5. QED
  BY <1>1, <1>2, <1>3, <1>4

LEMMA OptionsAssumed ==
  /\ Interval(CodeOptions) /\ Interval(DataOptions) /\ CodeOptions \cap DataOptions = {}
  /\ Phrase \in Nat \ {0} /\ Sector \in Nat \ {0} /\ CrcUnit \in Nat \ {0} /\ MinImage \in Nat \ {0}
  /\ Sector % Phrase = 0 /\ Phrase % CrcUnit = 0 /\ AliasBase \in Nat /\ Max(Code) < AliasBase
  /\ Interval(Code) /\ CodeBase % Sector = 0 /\ (Max(Code) + 1) % Sector = 0
BY SrecAssumption

LEMMA OptionRecordIs ==
  ASSUME NEW r \in Record, NEW R, Interval(R), Span(r) \cap R # {}
  PROVE  LET w == OptionRecord(r, R) IN
         /\ w \in Record /\ Span(w) \subseteq R /\ w.addr \in Span(r)
         /\ \A a \in Span(r) \cap R : a \in Span(w) /\ ByteOf(w, a) = ByteOf(r, a)
<1>1. PICK lo \in Nat, hi \in Nat : lo = Min(R) /\ hi = Max(R) /\ lo <= hi /\ R = lo..hi
  BY IntervalIs
<1>2. PICK p \in Nat, q \in Nat, n \in Nat :
        /\ p = r.addr /\ q = Ends(r) /\ n = Len(r.data) /\ q = p + n /\ p < q /\ Span(r) = p..q - 1
  BY RecordIs
<1>3. r.data \in Seq(Nat)
  BY RecordIs
<1>4. p <= hi /\ lo < q
  <2>1. PICK a \in Span(r) \cap R : TRUE
    OBVIOUS
  <2>2. a \in p..q - 1 /\ a \in lo..hi
    BY <2>1, <1>1, <1>2
  <2>3. QED
    BY <2>2
<1>5. PICK s \in Nat : s = Max({p, lo}) /\ s = IF p <= lo THEN lo ELSE p
  BY MaxOfTwo
<1>6. PICK e \in Nat : e = Min({q, hi + 1}) /\ e = IF q <= hi + 1 THEN q ELSE hi + 1
  <2>1. hi + 1 \in Nat
    OBVIOUS
  <2>2. QED
    BY <2>1, MinOfTwo
<1>7. p <= s /\ lo <= s /\ s < e /\ e <= q /\ e <= hi + 1 /\ \A a \in Span(r) \cap R : a \in s..e - 1
  <2>1. p <= s /\ lo <= s /\ (s = p \/ s = lo)
    BY <1>5
  <2>2. e <= q /\ e <= hi + 1 /\ (e = q \/ e = hi + 1)
    BY <1>6
  <2>3. s < e
    BY <2>1, <2>2, <1>1, <1>2, <1>4
  <2>4. ASSUME NEW a \in Span(r) \cap R
        PROVE  a \in s..e - 1
    <3>1. a \in p..q - 1 /\ a \in lo..hi
      BY <1>1, <1>2
    <3>2. QED
      BY <3>1, <2>1, <2>2
  <2>5. QED
    BY <2>1, <2>2, <2>3, <2>4
<1>8. PICK d \in Seq(Nat) : /\ d = SubSeq(r.data, s - p + 1, e - p) /\ Len(d) = e - s
                            /\ \A i \in 1..e - s : d[i] = r.data[s - p + i]
  <2>1. PICK x \in Nat \ {0}, y \in Nat : x = s - p + 1 /\ y = e - p
    <3>1. s - p + 1 \in Nat \ {0} /\ e - p \in Nat
      BY <1>7
    <3>2. QED
      BY <3>1
  <2>2. y <= n /\ x <= y + 1 /\ y - x + 1 = e - s
    <3>1. p <= s
      BY <1>7
    <3>2. s < e
      BY <1>7
    <3>3. e <= q
      BY <1>7
    <3>4. q = p + n
      BY <1>2
    <3>5. y <= n
      BY <2>1, <3>3, <3>4
    <3>6. x <= y + 1
      BY <2>1, <3>2
    <3>7. y - x + 1 = e - s
      BY <2>1
    <3>8. QED
      BY <3>5, <3>6, <3>7
  <2>3. /\ SubSeq(r.data, x, y) \in Seq(Nat) /\ Len(SubSeq(r.data, x, y)) = y - x + 1
        /\ \A i \in 1..y - x + 1 : SubSeq(r.data, x, y)[i] = r.data[x + i - 1]
    <3>1. PICK c \in Seq(Nat) : c = r.data /\ y <= Len(c)
      BY <2>2, <1>2, <1>3
    <3>2. x <= y + 1
      BY <2>2
    <3>3. /\ SubSeq(c, x, y) \in Seq(Nat) /\ Len(SubSeq(c, x, y)) = y - x + 1
          /\ \A i \in 1..y - x + 1 : SubSeq(c, x, y)[i] = c[x + i - 1]
      BY <3>1, <3>2, Part
    <3>4. QED
      BY <3>1, <3>3
  <2>4. \A i \in 1..e - s : SubSeq(r.data, x, y)[i] = r.data[s - p + i]
    <3> SUFFICES ASSUME NEW i \in 1..e - s PROVE SubSeq(r.data, x, y)[i] = r.data[s - p + i]
      OBVIOUS
    <3>1. i \in 1..y - x + 1 /\ x + i - 1 = s - p + i
      BY <2>1, <2>2
    <3>2. QED
      BY <3>1, <2>3
  <2>5. QED
    BY <2>1, <2>2, <2>3, <2>4
<1>9. PICK m \in Nat : m = e - s /\ m # 0
  BY <1>7
<1>10. PICK t \in Seq(Nat), l \in Nat : /\ t = PadUp(d, CrcUnit) /\ l = Len(t) /\ m <= l
                                        /\ \A i \in 1..m : t[i] = d[i]
  <2>1. CrcUnit \in Nat \ {0} /\ Len(d) = m
    BY <1>8, <1>9, OptionsAssumed
  <2>2. /\ PadUp(d, CrcUnit) \in Seq(Nat) /\ Len(PadUp(d, CrcUnit)) = AlignUp(m, CrcUnit)
        /\ \A i \in 1..m : PadUp(d, CrcUnit)[i] = d[i]
    <3>1. /\ PadUp(d, CrcUnit) \in Seq(Nat) /\ Len(PadUp(d, CrcUnit)) = AlignUp(Len(d), CrcUnit)
          /\ \A i \in 1..Len(d) : PadUp(d, CrcUnit)[i] = d[i]
      <4>1. CrcUnit \in Nat \ {0}
        BY <2>1
      <4>2. /\ PadUp(d, CrcUnit) \in Seq(Nat) /\ Len(PadUp(d, CrcUnit)) = AlignUp(Len(d), CrcUnit)
            /\ \A i \in 1..Len(d) : PadUp(d, CrcUnit)[i] = d[i]
            /\ \A i \in Len(d) + 1..AlignUp(Len(d), CrcUnit) : PadUp(d, CrcUnit)[i] = 255
        BY <4>1, PadUpIs DEF Padded
      <4>3. QED
        BY <4>2, Zenon
    <3>2. Len(d) = m
      BY <2>1
    <3>3. QED
      BY <3>1, <3>2, Zenon
  <2>3. AlignUp(m, CrcUnit) \in Nat /\ m <= AlignUp(m, CrcUnit)
    BY <2>1, AlignUpIs
  <2>4. QED
    BY <2>2, <2>3
<1>11. PICK k \in Nat : k = Min({l, hi + 1 - s}) /\ k = IF l <= hi + 1 - s THEN l ELSE hi + 1 - s
  <2>1. hi + 1 - s \in Nat
    BY <1>7
  <2>2. QED
    BY <2>1, MinOfTwo
<1>12. m <= k /\ k <= l /\ s + k - 1 <= hi
  BY <1>7, <1>9, <1>10, <1>11
<1>13. PICK u \in Seq(Nat) : u = SubSeq(t, 1, k) /\ Len(u) = k /\ \A i \in 1..k : u[i] = t[i]
  <2>1. 1 \in Nat \ {0} /\ k <= Len(t) /\ 1 <= k + 1 /\ k - 1 + 1 = k /\ \A i \in 1..k : 1 + i - 1 = i
    <3>1. Len(t) = l
      BY <1>10
    <3>2. k <= l
      BY <1>12
    <3>3. 1 <= k + 1 /\ k - 1 + 1 = k
      OBVIOUS
    <3>4. \A i \in 1..k : 1 + i - 1 = i
      OBVIOUS
    <3>5. QED
      BY <3>1, <3>2, <3>3, <3>4
  <2>2. /\ SubSeq(t, 1, k) \in Seq(Nat) /\ Len(SubSeq(t, 1, k)) = k - 1 + 1
        /\ \A i \in 1..k - 1 + 1 : SubSeq(t, 1, k)[i] = t[1 + i - 1]
    BY <2>1, Part
  <2>3. QED
    BY <2>1, <2>2
<1>14. OptionRecord(r, R) = [addr |-> s, data |-> u]
  <2> DEFINE v == OptionRecord_Uncut(r, R)
  <2>1. v = [addr |-> s, data |-> t]
    BY <1>1, <1>2, <1>5, <1>6, <1>8, <1>10 DEF OptionRecord_Uncut
  <2>2. v.addr = s /\ v.data = t
    BY <2>1
  <2>3. OptionRecord(r, R) = [v EXCEPT !.data = SubSeq(v.data, 1, Min({Len(v.data), Max(R) + 1 - v.addr}))]
    BY DEF OptionRecord
  <2> HIDE DEF v
  <2>4. SubSeq(v.data, 1, Min({Len(v.data), Max(R) + 1 - v.addr})) = u
    BY <2>2, <1>1, <1>10, <1>11, <1>13, Zenon
  <2>5. QED
    BY <2>1, <2>3, <2>4
<1> DEFINE w == [addr |-> s, data |-> u]
<1>15. w \in Record
  <2>1. u # <<>>
    <3>1. k # 0 /\ Len(u) = k
      BY <1>9, <1>12, <1>13
    <3>2. QED
      BY <3>1
  <2>2. QED
    BY <2>1 DEF Record
<1>16. w.addr = s /\ w.data = u /\ Span(w) = s..s + k - 1
  BY <1>13 DEF Span, Ends
<1>17. Span(w) \subseteq R /\ s \in Span(r)
  <2>1. s..s + k - 1 \subseteq lo..hi
    BY <1>7, <1>12
  <2>2. s \in p..q - 1
    BY <1>7
  <2>3. QED
    BY <2>1, <2>2, <1>1, <1>2, <1>16
<1>18. ASSUME NEW a \in Span(r) \cap R
       PROVE  a \in Span(w) /\ ByteOf(w, a) = ByteOf(r, a)
  <2>1. a \in s..e - 1
    BY <1>7
  <2>2. /\ a \in s..s + k - 1 /\ a - s + 1 \in 1..m /\ a - s + 1 \in 1..k /\ a - s + 1 \in 1..e - s
        /\ s - p + (a - s + 1) = a - p + 1
    BY <2>1, <1>7, <1>9, <1>12
  <2>3. u[a - s + 1] = t[a - s + 1] /\ t[a - s + 1] = d[a - s + 1]
        /\ d[a - s + 1] = r.data[s - p + (a - s + 1)]
    BY <2>2, <1>8, <1>10, <1>13
  <2>4. u[a - s + 1] = r.data[a - p + 1]
    BY <2>2, <2>3
  <2>5. QED
    BY <2>2, <2>4, <1>2, <1>16 DEF ByteOf
<1> HIDE DEF w
<1>19. OptionRecord(r, R) = w
  BY <1>14 DEF w
<1>20. QED
  BY <1>15, <1>16, <1>17, <1>18, <1>19

Memories == {CodeOptions, DataOptions}

LEMMA MemoriesApart ==
  /\ \A R \in Memories : Interval(R) /\ R \subseteq Options
  /\ \A R, Q \in Memories : R # Q => R \cap Q = {}
<1>1. Interval(CodeOptions) /\ Interval(DataOptions) /\ CodeOptions \cap DataOptions = {}
  BY OptionsAssumed, Zenon
<1>2. QED
  BY <1>1 DEF Memories, Options

LEMMA OptionPieceIs ==
  ASSUME NEW r \in Record, NEW R \in Memories
  PROVE  /\ OptionPiece(r, R) \in Seq(Record)
         /\ \A x : In(x, OptionPiece(r, R)) <=> Span(r) \cap R # {} /\ x = OptionRecord(r, R)
<1>1. CASE Span(r) \cap R = {}
  <2>1. OptionPiece(r, R) = <<>>
    BY <1>1 DEF OptionPiece
  <2>2. <<>> \in Seq(Record)
    OBVIOUS
  <2>3. \A x : ~ In(x, <<>>)
    BY InOne, Zenon
  <2>4. QED
    BY <2>1, <2>2, <2>3, <1>1
<1>2. CASE Span(r) \cap R # {}
  <2>1. OptionPiece(r, R) = <<OptionRecord(r, R)>>
    BY <1>2 DEF OptionPiece
  <2>2. OptionRecord(r, R) \in Record
    BY <1>2, OptionRecordIs, MemoriesApart
  <2>3. <<OptionRecord(r, R)>> \in Seq(Record)
    BY <2>2
  <2>4. \A x : In(x, <<OptionRecord(r, R)>>) <=> x = OptionRecord(r, R)
    BY InOne, Zenon
  <2>5. QED
    BY <2>1, <2>3, <2>4, <1>2
<1>3. QED
  BY <1>1, <1>2

LEMMA CollectedLoop ==
  ASSUME NEW file \in Seq(Record)
  PROVE  \E f \in [0..Len(file) -> Seq(Record)] :
           /\ f[0] = <<>>
           /\ \A i \in 1..Len(file) : f[i] = f[i - 1] \o OptionPiece(file[i], CodeOptions) \o OptionPiece(file[i], DataOptions)
           /\ Collected(file) = f[Len(file)]
<1>1. PICK n \in Nat : n = Len(file)
  OBVIOUS
<1>2. ASSUME NEW i \in 1..n, NEW v \in Seq(Record)
      PROVE  v \o OptionPiece(file[i], CodeOptions) \o OptionPiece(file[i], DataOptions) \in Seq(Record)
  <2>1. file[i] \in Record
    BY <1>1
  <2>2. OptionPiece(file[i], CodeOptions) \in Seq(Record) /\ OptionPiece(file[i], DataOptions) \in Seq(Record)
    BY <2>1, OptionPieceIs DEF Memories
  <2>3. v \o OptionPiece(file[i], CodeOptions) \in Seq(Record)
    BY <2>2, Joined
  <2>4. QED
    BY <2>2, <2>3, Joined
<1>3. <<>> \in Seq(Record)
  OBVIOUS
<1> DEFINE G == [x \in (1..n) \X Seq(Record) |-> x[2] \o OptionPiece(file[x[1]], CodeOptions) \o OptionPiece(file[x[1]], DataOptions)]
<1>4. \A i \in 1..n, v \in Seq(Record) : G[<<i, v>>] = v \o OptionPiece(file[i], CodeOptions) \o OptionPiece(file[i], DataOptions)
  OBVIOUS
<1> HIDE DEF G
<1>5. MakesUpTo(n, G, Seq(Record))
  BY <1>2, <1>4 DEF MakesUpTo
<1>6. PICK f \in [0..n -> Seq(Record)] : IterationOf(f, n, <<>>, G)
  BY <1>3, <1>5, Iterated, Zenon
<1>7. ASSUME NEW i \in 0..n
      PROVE  f[i] = IF i = 0 THEN <<>> ELSE f[i - 1] \o OptionPiece(file[i], CodeOptions) \o OptionPiece(file[i], DataOptions)
  <2>1. CASE i = 0
    BY <2>1, <1>6 DEF IterationOf
  <2>2. CASE i # 0
    <3>1. i \in 1..n /\ i - 1 \in 0..n
      BY <2>2
    <3>2. f[i] = G[<<i, f[i - 1]>>]
      BY <2>2, <1>6 DEF IterationOf
    <3>3. f[i - 1] \in Seq(Record)
      BY <3>1
    <3>4. f[i] = f[i - 1] \o OptionPiece(file[i], CodeOptions) \o OptionPiece(file[i], DataOptions)
      BY <3>1, <3>2, <3>3, <1>4
    <3>5. QED
      BY <2>2, <3>4
  <2>3. QED
    BY <2>1, <2>2
<1>8. f = [i \in 0..n |-> IF i = 0 THEN <<>> ELSE f[i - 1] \o OptionPiece(file[i], CodeOptions) \o OptionPiece(file[i], DataOptions)]
  BY <1>7
<1>9. \E g : g = [i \in 0..Len(file) |-> IF i = 0 THEN <<>> ELSE g[i - 1] \o OptionPiece(file[i], CodeOptions) \o OptionPiece(file[i], DataOptions)]
  BY <1>1, <1>8, Zenon
<1> DEFINE made[i \in 0..Len(file)] == IF i = 0 THEN <<>> ELSE made[i - 1] \o OptionPiece(file[i], CodeOptions) \o OptionPiece(file[i], DataOptions)
<1>10. made = [i \in 0..Len(file) |-> IF i = 0 THEN <<>> ELSE made[i - 1] \o OptionPiece(file[i], CodeOptions) \o OptionPiece(file[i], DataOptions)]
  BY <1>9, Zenon
<1>11. Collected(file) = made[Len(file)]
  BY DEF Collected
<1> HIDE DEF made
<1>12. /\ made[0] = <<>>
       /\ \A i \in 1..n : made[i] = made[i - 1] \o OptionPiece(file[i], CodeOptions) \o OptionPiece(file[i], DataOptions)
  <2>1. 0 \in 0..n /\ \A i \in 1..n : i \in 0..n /\ i # 0
    OBVIOUS
  <2>2. \A i \in 0..n : made[i] = IF i = 0 THEN <<>> ELSE made[i - 1] \o OptionPiece(file[i], CodeOptions) \o OptionPiece(file[i], DataOptions)
    BY <1>1, <1>10, Zenon
  <2>3. QED
    BY <2>1, <2>2, Zenon
<1> DEFINE S == {i \in 0..n : made[i] \in Seq(Record)}
<1>13. 0..n \subseteq S
  <2>1. 0 \in S
    <3>1. 0 \in 0..n /\ made[0] \in Seq(Record)
      BY <1>3, <1>12
    <3>2. QED
      BY <3>1
  <2>2. ASSUME NEW i \in 1..n, i - 1 \in S
        PROVE  i \in S
    <3>1. made[i - 1] \in Seq(Record) /\ i \in 0..n
      BY <2>2
    <3>2. made[i - 1] \o OptionPiece(file[i], CodeOptions) \o OptionPiece(file[i], DataOptions) \in Seq(Record)
      BY <3>1, <1>2
    <3>3. QED
      BY <3>1, <3>2, <1>12
  <2> HIDE DEF S
  <2>3. QED
    BY <2>1, <2>2, UpTo
<1>14. made \in [0..n -> Seq(Record)]
  BY <1>1, <1>10, <1>13
<1>15. QED
  BY <1>1, <1>11, <1>12, <1>14

PieceOf(x, r) == \E R \in Memories : Span(r) \cap R # {} /\ x = OptionRecord(r, R)

LEMMA CollectedIs ==
  ASSUME NEW file \in Seq(Record)
  PROVE  /\ Collected(file) \in Seq(Record)
         /\ \A x : In(x, Collected(file)) <=> \E j \in 1..Len(file) : PieceOf(x, file[j])
<1>1. PICK n \in Nat : n = Len(file)
  OBVIOUS
<1>2. PICK f \in [0..n -> Seq(Record)] :
        /\ f[0] = <<>>
        /\ \A i \in 1..n :
             f[i] = f[i - 1] \o OptionPiece(file[i], CodeOptions) \o OptionPiece(file[i], DataOptions)
        /\ Collected(file) = f[n]
  BY <1>1, CollectedLoop, Zenon
<1> DEFINE S == {i \in 0..n : \A x : In(x, f[i]) <=> \E j \in 1..i : PieceOf(x, file[j])}
<1>3. 0 \in S
  <2>1. 1..0 = {}
    OBVIOUS
  <2>2. \A x : ~ In(x, <<>>) /\ ~ \E j \in 1..0 : PieceOf(x, file[j])
    BY <2>1, InOne, Zenon
  <2>3. 0 \in 0..n
    OBVIOUS
  <2>4. QED
    BY <2>2, <2>3, <1>2
<1>4. ASSUME NEW i \in 1..n, i - 1 \in S
      PROVE  i \in S
  <2> DEFINE a == OptionPiece(file[i], CodeOptions)
             b == OptionPiece(file[i], DataOptions)
  <2>1. file[i] \in Record /\ f[i - 1] \in Seq(Record) /\ i \in 0..n
    BY <1>1
  <2>2. /\ a \in Seq(Record) /\ b \in Seq(Record)
        /\ \A x : In(x, a) <=> Span(file[i]) \cap CodeOptions # {} /\ x = OptionRecord(file[i], CodeOptions)
        /\ \A x : In(x, b) <=> Span(file[i]) \cap DataOptions # {} /\ x = OptionRecord(file[i], DataOptions)
    BY <2>1, OptionPieceIs, Zenon DEF Memories
  <2>3. \A x : In(x, a) \/ In(x, b) <=> PieceOf(x, file[i])
    BY <2>2 DEF PieceOf, Memories
  <2>4. f[i] = (f[i - 1] \o a) \o b
    BY <1>2
  <2> HIDE DEF a, b
  <2>a. a \in Seq(Record) /\ b \in Seq(Record)
    BY <2>2
  <2>b. f[i - 1] \o a \in Seq(Record)
    BY <2>1, <2>a, Joined
  <2>5. \A x : In(x, f[i - 1] \o a) <=> In(x, f[i - 1]) \/ In(x, a)
    BY <2>1, <2>a, JoinedIn, Zenon
  <2>c. \A x : In(x, (f[i - 1] \o a) \o b) <=> In(x, f[i - 1] \o a) \/ In(x, b)
    <3>1. PICK c \in Seq(Record) : c = f[i - 1] \o a
      BY <2>b
    <3>2. \A x : In(x, c \o b) <=> In(x, c) \/ In(x, b)
      BY <2>a, JoinedIn, Zenon
    <3>3. QED
      BY <3>1, <3>2, Zenon
  <2>6. \A x : In(x, f[i]) <=> In(x, f[i - 1] \o a) \/ In(x, b)
    BY <2>4, <2>c
  <2>7. ASSUME NEW x
        PROVE  In(x, f[i]) <=> \E j \in 1..i : PieceOf(x, file[j])
    <3>1. In(x, f[i - 1]) <=> \E j \in 1..i - 1 : PieceOf(x, file[j])
      BY <1>4
    <3>2. 1..i = 1..i - 1 \cup {i}
      OBVIOUS
    <3>3. QED
      BY <3>1, <3>2, <2>3, <2>5, <2>6
  <2>8. QED
    BY <2>1, <2>7
<1> HIDE DEF S
<1>5. 0..n \subseteq S
  BY <1>3, <1>4, UpTo
<1>6. n \in S
  BY <1>5
<1>7. \A x : In(x, f[n]) <=> \E j \in 1..n : PieceOf(x, file[j])
  BY <1>6 DEF S
<1>8. QED
  BY <1>1, <1>2, <1>7

LEMMA OptionRecordsAre ==
  ASSUME NEW file \in Seq(Record)
  PROVE  /\ OptionRecords(file) \in Seq(Record) /\ Sorted(OptionRecords(file))
         /\ \A x : In(x, OptionRecords(file)) <=> \E j \in 1..Len(file) : PieceOf(x, file[j])
         /\ \A i \in 1..Len(OptionRecords(file)) : Span(OptionRecords(file)[i]) \subseteq Options
<1> DEFINE c == Collected(file)
           s == Sort(c)
<1>1. c \in Seq(Record) /\ \A x : In(x, c) <=> \E j \in 1..Len(file) : PieceOf(x, file[j])
  BY CollectedIs, Zenon
<1> HIDE DEF c
<1>2. s \in Seq(Record) /\ Sorted(s) /\ \A x : In(x, s) <=> In(x, c)
  BY <1>1, SortIs, Zenon
<1>3. OptionRecords(file) = s
  BY DEF OptionRecords, c
<1> HIDE DEF s
<1>4. ASSUME NEW i \in 1..Len(s)
      PROVE  Span(s[i]) \subseteq Options
  <2>1. In(s[i], s)
    BY DEF In
  <2>2. PICK j \in 1..Len(file) : PieceOf(s[i], file[j])
    BY <2>1, <1>1, <1>2, Zenon
  <2>3. PICK R \in Memories : Span(file[j]) \cap R # {} /\ s[i] = OptionRecord(file[j], R)
    BY <2>2 DEF PieceOf
  <2>4. file[j] \in Record
    OBVIOUS
  <2>5. Span(s[i]) \subseteq R
    BY <2>3, <2>4, OptionRecordIs, MemoriesApart
  <2>6. QED
    BY <2>5, MemoriesApart
<1>5. QED
  BY <1>1, <1>2, <1>3, <1>4

LEMMA WriteOptionRecordIs ==
  ASSUME NEW options \in [Options -> Nat], NEW r \in Record, Span(r) \subseteq Options
  PROVE  /\ WriteOptionRecord(options, r) \in [Options -> Nat]
         /\ \A a \in Options : WriteOptionRecord(options, r)[a] =
                               IF a \in Span(r) THEN ByteOf(r, a) ELSE options[a]
<1>1. DOMAIN options \cup Span(r) = Options
  OBVIOUS
<1>2. WriteOptionRecord(options, r) = [a \in Options |-> IF a \in Span(r) THEN ByteOf(r, a) ELSE options[a]]
  BY <1>1 DEF WriteOptionRecord
<1>3. r.addr \in Nat /\ r.data \in Seq(Nat)
  BY RecordIs
<1>4. \A a \in Span(r) : ByteOf(r, a) \in Nat
  BY <1>3, ByteOfIs
<1>5. QED
  BY <1>2, <1>4

LEMMA OptionsLoop ==
  ASSUME NEW options \in [Options -> Nat], NEW records \in Seq(Record),
         \A i \in 1..Len(records) : Span(records[i]) \subseteq Options
  PROVE  \E f \in [0..Len(records) -> [Options -> Nat]] :
           /\ f[0] = options
           /\ \A i \in 1..Len(records) : f[i] = WriteOptionRecord(f[i - 1], records[i])
           /\ OptionsWritten(options, records) = f[Len(records)]
<1>1. PICK n \in Nat : n = Len(records)
  OBVIOUS
<1>2. ASSUME NEW i \in 1..n, NEW v \in [Options -> Nat]
      PROVE  WriteOptionRecord(v, records[i]) \in [Options -> Nat]
  <2>1. records[i] \in Record /\ Span(records[i]) \subseteq Options
    BY <1>1
  <2>2. QED
    BY <2>1, WriteOptionRecordIs
<1>3. options \in [Options -> Nat]
  OBVIOUS
<1> DEFINE G == [x \in (1..n) \X [Options -> Nat] |-> WriteOptionRecord(x[2], records[x[1]])]
<1>4. \A i \in 1..n, v \in [Options -> Nat] : G[<<i, v>>] = WriteOptionRecord(v, records[i])
  OBVIOUS
<1> HIDE DEF G
<1>5. MakesUpTo(n, G, [Options -> Nat])
  BY <1>2, <1>4 DEF MakesUpTo
<1>6. PICK f \in [0..n -> [Options -> Nat]] : IterationOf(f, n, options, G)
  BY <1>3, <1>5, Iterated, Zenon
<1>7. ASSUME NEW i \in 0..n
      PROVE  f[i] = IF i = 0 THEN options ELSE WriteOptionRecord(f[i - 1], records[i])
  <2>1. CASE i = 0
    BY <2>1, <1>6 DEF IterationOf
  <2>2. CASE i # 0
    <3>1. i \in 1..n /\ i - 1 \in 0..n
      BY <2>2
    <3>2. f[i] = G[<<i, f[i - 1]>>]
      BY <2>2, <1>6 DEF IterationOf
    <3>3. f[i - 1] \in [Options -> Nat]
      BY <3>1
    <3>4. f[i] = WriteOptionRecord(f[i - 1], records[i])
      BY <3>1, <3>2, <3>3, <1>4
    <3>5. QED
      BY <2>2, <3>4
  <2>3. QED
    BY <2>1, <2>2
<1>8. f = [i \in 0..n |-> IF i = 0 THEN options ELSE WriteOptionRecord(f[i - 1], records[i])]
  BY <1>7
<1>9. \E g : g = [i \in 0..Len(records) |-> IF i = 0 THEN options ELSE WriteOptionRecord(g[i - 1], records[i])]
  BY <1>1, <1>8, Zenon
<1> DEFINE made[i \in 0..Len(records)] == IF i = 0 THEN options ELSE WriteOptionRecord(made[i - 1], records[i])
<1>10. made = [i \in 0..Len(records) |-> IF i = 0 THEN options ELSE WriteOptionRecord(made[i - 1], records[i])]
  BY <1>9, Zenon
<1>11. OptionsWritten(options, records) = made[Len(records)]
  BY DEF OptionsWritten
<1> HIDE DEF made
<1>12. /\ made[0] = options
       /\ \A i \in 1..n : made[i] = WriteOptionRecord(made[i - 1], records[i])
  <2>1. 0 \in 0..n /\ \A i \in 1..n : i \in 0..n /\ i # 0
    OBVIOUS
  <2>2. \A i \in 0..n : made[i] = IF i = 0 THEN options ELSE WriteOptionRecord(made[i - 1], records[i])
    BY <1>1, <1>10, Zenon
  <2>3. QED
    BY <2>1, <2>2, Zenon
<1> DEFINE S == {i \in 0..n : made[i] \in [Options -> Nat]}
<1>13. 0..n \subseteq S
  <2>1. 0 \in S
    <3>1. 0 \in 0..n /\ made[0] \in [Options -> Nat]
      BY <1>3, <1>12
    <3>2. QED
      BY <3>1
  <2>2. ASSUME NEW i \in 1..n, i - 1 \in S
        PROVE  i \in S
    <3>1. made[i - 1] \in [Options -> Nat] /\ i \in 0..n
      BY <2>2
    <3>2. WriteOptionRecord(made[i - 1], records[i]) \in [Options -> Nat]
      BY <3>1, <1>2
    <3>3. QED
      BY <3>1, <3>2, <1>12
  <2> HIDE DEF S
  <2>3. QED
    BY <2>1, <2>2, UpTo
<1>14. made \in [0..n -> [Options -> Nat]]
  BY <1>1, <1>10, <1>13
<1>15. QED
  BY <1>1, <1>11, <1>12, <1>14

(* The last record that has an address wins.                               *)
LastWith(records, a, k) ==
  /\ k \in 1..Len(records) /\ a \in Span(records[k])
  /\ \A j \in k + 1..Len(records) : a \notin Span(records[j])

WithinOptions(records) == \A i \in 1..Len(records) : Span(records[i]) \subseteq Options

LEMMA LastWins ==
  ASSUME NEW options \in [Options -> Nat], NEW records \in Seq(Record), WithinOptions(records),
         NEW a \in Options, NEW k, LastWith(records, a, k)
  PROVE  OptionsWritten(options, records)[a] = ByteOf(records[k], a)
<1>1. PICK n \in Nat : n = Len(records)
  OBVIOUS
<1>a. k \in 1..n /\ a \in Span(records[k]) /\ \A j \in k + 1..n : a \notin Span(records[j])
  BY <1>1 DEF LastWith
<1>b. \A i \in 1..Len(records) : Span(records[i]) \subseteq Options
  BY DEF WithinOptions
<1>2. PICK f \in [0..n -> [Options -> Nat]] :
        /\ f[0] = options /\ \A i \in 1..n : f[i] = WriteOptionRecord(f[i - 1], records[i])
        /\ OptionsWritten(options, records) = f[n]
  <2>1. \E f \in [0..Len(records) -> [Options -> Nat]] :
          /\ f[0] = options /\ \A i \in 1..Len(records) : f[i] = WriteOptionRecord(f[i - 1], records[i])
          /\ OptionsWritten(options, records) = f[Len(records)]
    BY <1>b, OptionsLoop
  <2>2. QED
    BY <2>1, <1>1, Zenon
<1> DEFINE S == {i \in 0..n : k <= i => f[i][a] = ByteOf(records[k], a)}
<1>3. 0 \in S
  BY <1>a
<1>4. ASSUME NEW i \in 1..n, i - 1 \in S
      PROVE  i \in S
  <2> SUFFICES ASSUME k <= i PROVE f[i][a] = ByteOf(records[k], a)
    OBVIOUS
  <2>1. records[i] \in Record
    BY <1>1
  <2>a. Span(records[i]) \subseteq Options
    BY <1>1, <1>b
  <2>b. PICK g \in [Options -> Nat] : g = f[i - 1]
    <3>1. i - 1 \in 0..n
      OBVIOUS
    <3>2. QED
      BY <3>1
  <2>c. WriteOptionRecord(g, records[i])[a] = IF a \in Span(records[i]) THEN ByteOf(records[i], a) ELSE g[a]
    <3>1. \A b \in Options : WriteOptionRecord(g, records[i])[b] =
                               IF b \in Span(records[i]) THEN ByteOf(records[i], b) ELSE g[b]
      BY <2>1, <2>a, WriteOptionRecordIs
    <3>2. QED
      BY <3>1
  <2>2. f[i][a] = IF a \in Span(records[i]) THEN ByteOf(records[i], a) ELSE f[i - 1][a]
    BY <2>b, <2>c, <1>2
  <2>3. CASE k = i
    BY <2>2, <2>3, <1>a
  <2>4. CASE k # i
    <3>1. i \in k + 1..n /\ k <= i - 1
      BY <2>4, <1>a
    <3>2. a \notin Span(records[i])
      BY <3>1, <1>a
    <3>3. f[i - 1][a] = ByteOf(records[k], a)
      BY <3>1, <1>4
    <3>4. QED
      BY <3>2, <3>3, <2>2
  <2>5. QED
    BY <2>3, <2>4
<1> HIDE DEF S
<1>5. 0..n \subseteq S
  BY <1>3, <1>4, UpTo
<1>6. n \in S /\ k <= n
  BY <1>a, <1>5
<1>7. QED
  BY <1>2, <1>6 DEF S

LEMMA LastExists ==
  ASSUME NEW n \in Nat, NEW S \in SUBSET (1..n), S # {}
  PROVE  \E k \in S : \A j \in k + 1..n : j \notin S
<1>1. S \in SUBSET Nat /\ \A y \in S : y <= n
  OBVIOUS
<1>2. Max(S) \in S /\ \A y \in S : y <= Max(S)
  BY <1>1, MaxExists
<1>3. PICK k \in S : \A y \in S : y <= k
  BY <1>2
<1>4. \A j \in k + 1..n : j \notin S
  BY <1>1, <1>3
<1>5. QED
  BY <1>4

LEMMA ByteAtDisjoint ==
  ASSUME NEW file \in Seq(Record), Disjoint(file), NEW j \in 1..Len(file), NEW a \in Span(file[j])
  PROVE  ByteAt(file, a) = ByteOf(file[j], a)
<1>1. PICK n \in Nat : n = Len(file) /\ DOMAIN file = 1..n
  OBVIOUS
<1>2. \A i \in 1..n : i # j => a \notin Span(file[i])
  BY <1>1 DEF Disjoint
<1>3. Holders(file, a) = {j}
  BY <1>1, <1>2 DEF Holders
<1>4. j \in Nat /\ {j} \in SUBSET Nat /\ \A y \in {j} : y <= j
  BY <1>1
<1>5. Max({j}) = j
  BY <1>4, MaxIs
<1>6. QED
  BY <1>3, <1>5 DEF ByteAt

(* What the option-setting memory has after all records are written        *)
LEMMA OptionsAre ==
  ASSUME NEW file \in Seq(Record), Disjoint(file), NEW options \in [Options -> Nat],
         NEW a \in Covered(file) \cap Options
  PROVE  OptionsWritten(options, OptionRecords(file))[a] = ByteAt(file, a)
<1>1. PICK n \in Nat : n = Len(file) /\ DOMAIN file = 1..n
  OBVIOUS
<1>2. PICK j \in 1..n : a \in Span(file[j])
  BY <1>1 DEF Covered
<1>3. PICK R \in Memories : a \in R
  BY DEF Options, Memories
<1>4. file[j] \in Record /\ Interval(R) /\ Span(file[j]) \cap R # {}
  BY <1>1, <1>2, <1>3, MemoriesApart
<1>5. PICK w \in Record : /\ w = OptionRecord(file[j], R) /\ Span(w) \subseteq R /\ w.addr \in Span(file[j])
                          /\ a \in Span(w) /\ ByteOf(w, a) = ByteOf(file[j], a)
  BY <1>2, <1>3, <1>4, OptionRecordIs
<1>6. PICK recs \in Seq(Record) :
        /\ recs = OptionRecords(file) /\ Sorted(recs)
        /\ \A x : In(x, recs) <=> \E i \in 1..n : PieceOf(x, file[i])
        /\ \A i \in 1..Len(recs) : Span(recs[i]) \subseteq Options
  BY <1>1, OptionRecordsAre
<1>7. PICK l \in Nat : l = Len(recs)
  OBVIOUS
<1>8. PICK i \in 1..l : recs[i] = w
  <2>1. PieceOf(w, file[j])
    BY <1>4, <1>5 DEF PieceOf
  <2>2. In(w, recs)
    BY <2>1, <1>6
  <2>3. QED
    BY <2>2, <1>7 DEF In
<1>9. PICK k \in 1..l : a \in Span(recs[k]) /\ \A m \in k + 1..l : a \notin Span(recs[m])
  <2> DEFINE T == {m \in 1..l : a \in Span(recs[m])}
  <2>1. T \in SUBSET (1..l) /\ i \in T
    BY <1>5, <1>8
  <2>2. PICK k \in T : \A m \in k + 1..l : m \notin T
    BY <2>1, LastExists
  <2>3. k \in 1..l /\ a \in Span(recs[k])
    OBVIOUS
  <2>4. \A m \in k + 1..l : a \notin Span(recs[m])
    BY <2>2, <2>3
  <2>5. QED
    BY <2>3, <2>4
<1>10. i <= k
  BY <1>5, <1>8, <1>9
<1>11. recs[k] = w
  <2> SUFFICES ASSUME recs[k] # w PROVE FALSE
    OBVIOUS
  <2>1. PICK x \in Record : x = recs[k] /\ a \in Span(x)
    BY <1>7, <1>9
  <2>2. In(x, recs)
    BY <2>1, <1>7 DEF In
  <2>3. PICK m \in 1..n : PieceOf(x, file[m])
    BY <2>2, <1>6
  <2>4. PICK Q \in Memories : Span(file[m]) \cap Q # {} /\ x = OptionRecord(file[m], Q)
    BY <2>3 DEF PieceOf
  <2>5. file[m] \in Record /\ Interval(Q)
    BY <1>1, MemoriesApart
  <2>6. Span(x) \subseteq Q /\ x.addr \in Span(file[m])
    BY <2>4, <2>5, OptionRecordIs
  <2>7. Q = R
    BY <2>1, <2>6, <1>3, MemoriesApart
  <2>8. m # j
    BY <2>1, <2>4, <2>7, <1>5
  <2>9. w.addr <= x.addr
    <3>1. i < k
      BY <1>8, <1>10, <2>1
    <3>2. recs[i].addr <= recs[k].addr
      BY <3>1, <1>6, <1>7 DEF Sorted
    <3>3. QED
      BY <3>2, <1>8, <2>1
  <2>10. x.addr \in Span(file[j])
    <3>1. PICK p \in Nat, q \in Nat : Span(file[j]) = p..q - 1
      BY <1>4, RecordIs
    <3>2. x.addr \in Nat /\ w.addr \in Nat /\ Span(x) = x.addr..Ends(x) - 1 /\ Ends(x) \in Nat
      BY RecordIs
    <3>3. x.addr <= a /\ w.addr \in p..q - 1 /\ a \in p..q - 1
      BY <3>1, <3>2, <2>1, <1>2, <1>5
    <3>4. QED
      BY <3>1, <3>2, <3>3, <2>9
  <2>11. QED
    BY <2>6, <2>8, <2>10, <1>1 DEF Disjoint
<1>12. OptionsWritten(options, recs)[a] = ByteOf(recs[k], a)
  <2>1. LastWith(recs, a, k)
    BY <1>7, <1>9 DEF LastWith
  <2>2. WithinOptions(recs)
    BY <1>6 DEF WithinOptions
  <2>3. QED
    BY <2>1, <2>2, LastWins, Zenon
<1>13. ByteAt(file, a) = ByteOf(file[j], a)
  BY <1>1, <1>2, ByteAtDisjoint
<1>14. QED
  BY <1>5, <1>6, <1>11, <1>12, <1>13

-----------------------------------------------------------------------------
(* The blocks of the code flash                                            *)
Block == [addr : Nat, data : Seq(Nat)]

LEMMA BlockIs ==
  ASSUME NEW b \in Block
  PROVE  /\ b.addr \in Nat /\ b.data \in Seq(Nat) /\ Len(b.data) \in Nat
         /\ Ends(b) = b.addr + Len(b.data) /\ Ends(b) \in Nat
         /\ Span(b) = b.addr..Ends(b) - 1
<1>1. b.addr \in Nat /\ b.data \in Seq(Nat)
  BY DEF Block
<1>2. PICK n \in Nat : n = Len(b.data)
  BY <1>1
<1>3. QED
  BY <1>1, <1>2 DEF Ends, Span

LEMMA RecordsAreBlocks == Seq(Record) \subseteq Seq(Block) /\ Record \subseteq Block
<1>1. Record \subseteq Block
  BY DEF Record, Block
<1>2. \A s \in Seq(Record) : s \in Seq(Block)
  BY <1>1
<1>3. QED
  BY <1>1, <1>2

LEMMA CodeIs ==
  \E lo \in Nat, hi \in Nat : /\ lo = CodeBase /\ lo \in Code /\ lo <= hi /\ Code = lo..hi
                              /\ hi = Max(Code) /\ lo % Sector = 0 /\ (hi + 1) % Sector = 0
<1>1. Interval(Code) /\ CodeBase % Sector = 0 /\ (Max(Code) + 1) % Sector = 0
  BY OptionsAssumed
<1>2. Min(Code) \in Nat /\ Max(Code) \in Nat /\ Min(Code) <= Max(Code) /\ Code = Min(Code)..Max(Code)
  BY <1>1, IntervalIs
<1>3. Min(Code) \in Code
  BY <1>2
<1>4. QED
  BY <1>1, <1>2, <1>3 DEF CodeBase

LEMMA RemapIs ==
  ASSUME NEW a \in Code \cup Alias
  PROVE  Remap(a) \in Code /\ a \in Nat
<1>1. PICK lo \in Nat, hi \in Nat : lo = CodeBase /\ Code = lo..hi
  BY CodeIs
<1>2. AliasBase \in Nat
  BY OptionsAssumed
<1>3. CASE a \in Alias
  <2>1. PICK c \in Code : a = c - CodeBase + AliasBase
    BY <1>3 DEF Alias
  <2>2. c \in lo..hi /\ a = c - lo + AliasBase
    BY <2>1, <1>1
  <2>3. a \in Nat /\ a - AliasBase + lo = c
    BY <2>2, <1>2
  <2>4. QED
    BY <2>3, <1>1, <1>3 DEF Remap
<1>4. CASE a \notin Alias
  BY <1>4, <1>1 DEF Remap
<1>5. QED
  BY <1>3, <1>4

LEMMA CodeBlocksAre ==
  ASSUME NEW file \in Seq(Record)
  PROVE  CodeBlocks(file) \in Seq(Record)
<1> DEFINE mine == StartingIn(Sort(file), Code \cup Alias)
<1>1. Sort(file) \in Seq(Record)
  BY SortIs
<1>2. mine \in Seq(Record) /\ \A x : In(x, mine) <=> In(x, Sort(file)) /\ x.addr \in Code \cup Alias
  BY <1>1, StartingInIs, Zenon
<1>3. CodeBlocks(file) = [i \in DOMAIN mine |-> [mine[i] EXCEPT !.addr = Remap(@)]]
  BY DEF CodeBlocks
<1> HIDE DEF mine
<1>4. PICK n \in Nat : n = Len(mine) /\ DOMAIN mine = 1..n
  BY <1>2
<1>5. ASSUME NEW i \in 1..n
      PROVE  [mine[i] EXCEPT !.addr = Remap(mine[i].addr)] \in Record
  <2>1. mine[i] \in Record /\ In(mine[i], mine)
    BY <1>2, <1>4 DEF In
  <2>2. mine[i].addr \in Code \cup Alias
    BY <2>1, <1>2
  <2>3. Remap(mine[i].addr) \in Nat
    BY <2>2, RemapIs, CodeIs
  <2>4. QED
    BY <2>1, <2>3 DEF Record
<1>6. QED
  BY <1>3, <1>4, <1>5

LEMMA LastIs ==
  ASSUME NEW V, NEW s \in Seq(V), s # <<>>
  PROVE  /\ Len(s) \in Nat \ {0} /\ Last(s) = s[Len(s)] /\ Last(s) \in V
         /\ Front(s) \in Seq(V) /\ Len(Front(s)) = Len(s) - 1
         /\ \A i \in 1..Len(s) - 1 : Front(s)[i] = s[i]
<1>1. PICK n \in Nat \ {0} : n = Len(s)
  OBVIOUS
<1>2. PICK m \in Nat : m = n - 1
  BY <1>1
<1>3. Front(s) = SubSeq(s, 1, m)
  BY <1>1, <1>2 DEF Front
<1>4. 1 \in Nat \ {0} /\ m <= Len(s) /\ 1 <= m + 1 /\ m - 1 + 1 = m
  BY <1>1, <1>2
<1>5. /\ SubSeq(s, 1, m) \in Seq(V) /\ Len(SubSeq(s, 1, m)) = m - 1 + 1
      /\ \A i \in 1..m - 1 + 1 : SubSeq(s, 1, m)[i] = s[1 + i - 1]
  BY <1>4, Part
<1>6. \A i \in 1..m : SubSeq(s, 1, m)[i] = s[i]
  <2> SUFFICES ASSUME NEW i \in 1..m PROVE SubSeq(s, 1, m)[i] = s[i]
    OBVIOUS
  <2>1. i \in 1..m - 1 + 1 /\ 1 + i - 1 = i
    OBVIOUS
  <2>2. QED
    BY <2>1, <1>5
<1>7. s[n] \in V
  BY <1>1
<1>8. QED
  BY <1>1, <1>2, <1>3, <1>4, <1>5, <1>6, <1>7 DEF Last

LEMMA Appended ==
  ASSUME NEW V, NEW s \in Seq(V), NEW v \in V
  PROVE  /\ Append(s, v) \in Seq(V) /\ Len(Append(s, v)) = Len(s) + 1 /\ Append(s, v)[Len(s) + 1] = v
         /\ \A i \in 1..Len(s) : Append(s, v)[i] = s[i]
OBVIOUS

(* Two numbers, one of them perhaps below zero                             *)
LEMMA MaxOfAny ==
  ASSUME NEW a \in Int, NEW b \in Int
  PROVE  Max({a, b}) = IF a <= b THEN b ELSE a
<1> DEFINE M == IF a <= b THEN b ELSE a
<1>1. M \in {a, b} /\ \A y \in {a, b} : M >= y
  OBVIOUS
<1>2. \A x \in {a, b} : (\A y \in {a, b} : x >= y) => x = M
  OBVIOUS
<1> HIDE DEF M
<1>3. PICK m \in {a, b} : m = Max({a, b}) /\ \A y \in {a, b} : m >= y
  BY <1>1 DEF Max
<1>4. QED
  BY <1>2, <1>3 DEF M

LEMMA Listed ==
  ASSUME NEW V, NEW n \in Nat, NEW f \in [1..n -> V]
  PROVE  f \in Seq(V) /\ Len(f) = n
OBVIOUS

LEMMA OverlayIs ==
  ASSUME NEW cur \in Block, NEW b \in Block
  PROVE  Overlay(cur, b) \in Block
<1> DEFINE old == Len(cur.data)
           len == Max({old, Ends(b) - cur.addr})
           at(i) == LET j == i - cur.addr IN (IF j < 0 THEN j + len ELSE j) + 1
           written(x) == {i \in b.addr..Min({Ends(cur), Ends(b)}) - 1 : at(i) = x}
           data == cur.data \o Erased(len - old)
           laid == [x \in 1..len |->
                      IF written(x) = {} THEN data[x] ELSE b.data[Max(written(x)) - b.addr + 1]]
<1>1. Overlay(cur, b) = [cur EXCEPT !.data = IF at(b.addr) < 1 THEN <<>> ELSE laid]
  BY DEF Overlay
<1>2. PICK p \in Nat, m \in Nat, q \in Nat, n \in Nat, e \in Nat :
        /\ p = cur.addr /\ m = Len(cur.data) /\ q = b.addr /\ n = Len(b.data)
        /\ e = Ends(b) /\ e = q + n
  BY BlockIs
<1>3. cur.data \in Seq(Nat) /\ b.data \in Seq(Nat) /\ Ends(cur) \in Nat
  BY BlockIs
<1>4. len = IF m <= e - p THEN e - p ELSE m
  <2>1. e - p \in Int /\ m \in Int
    OBVIOUS
  <2>2. QED
    BY <2>1, <1>2, MaxOfAny
<1>5. PICK l \in Nat, k \in Nat : l = len /\ k = l - m
  <2>1. m <= len /\ len \in Nat
    BY <1>4
  <2>2. len - m \in Nat
    BY <2>1
  <2>3. QED
    BY <2>1, <2>2
<1>6. data \in Seq(Nat) /\ Len(data) = l
  <2>1. Erased(k) \in Seq(Nat) /\ Len(Erased(k)) = k
    BY ErasedIs
  <2>2. data = cur.data \o Erased(k)
    BY <1>2, <1>5
  <2>3. m + k = l
    BY <1>5
  <2>4. cur.data \o Erased(k) \in Seq(Nat) /\ Len(cur.data \o Erased(k)) = Len(cur.data) + Len(Erased(k))
    <3>1. PICK c \in Seq(Nat), d \in Seq(Nat) : c = cur.data /\ d = Erased(k)
      BY <2>1, <1>3
    <3>2. c \o d \in Seq(Nat) /\ Len(c \o d) = Len(c) + Len(d)
      BY Joined
    <3>3. QED
      BY <3>1, <3>2
  <2>5. QED
    BY <2>1, <2>2, <2>3, <2>4, <1>2
<1> HIDE DEF data, at
<1>7. ASSUME NEW x \in 1..len, written(x) # {}
      PROVE  b.data[Max(written(x)) - b.addr + 1] \in Nat
  <2>1. PICK z \in Nat : z = Min({Ends(cur), e}) /\ z <= e
    <3>1. Min({Ends(cur), e}) = IF Ends(cur) <= e THEN Ends(cur) ELSE e
      BY <1>3, MinOfTwo
    <3>2. QED
      BY <3>1, <1>3
  <2>2. written(x) \subseteq q..z - 1
    BY <2>1, <1>2
  <2>3. written(x) \in SUBSET Nat /\ \A y \in written(x) : y <= e
    <3> HIDE DEF written
    <3>1. \A y \in q..z - 1 : y \in Nat /\ y <= e
      BY <2>1
    <3>2. QED
      BY <2>2, <3>1
  <2>4. Max(written(x)) \in written(x)
    <3> HIDE DEF written
    <3>1. QED
      BY <2>3, <1>7, MaxExists
  <2>5. PICK y \in q..z - 1 : y = Max(written(x))
    <3> HIDE DEF written
    <3>1. QED
      BY <2>2, <2>4
  <2>6. y - q + 1 \in 1..n
    <3>1. e = q + n
      BY <1>2
    <3>2. y \in Nat /\ q <= y /\ y < e
      BY <2>1, <2>5
    <3>3. QED
      BY <3>1, <3>2
  <2>7. b.data[y - q + 1] \in Nat
    <3>1. \A i \in 1..n : b.data[i] \in Nat
      <4>1. PICK d \in Seq(Nat) : d = b.data /\ n = Len(d)
        BY <1>2, <1>3
      <4>2. \A i \in 1..n : d[i] \in Nat
        BY <4>1
      <4>3. QED
        BY <4>1, <4>2
    <3>2. QED
      BY <2>6, <3>1
  <2>8. QED
    <3> HIDE DEF written
    <3>1. QED
      BY <2>5, <2>7, <1>2
<1> HIDE DEF written
<1>8. \A x \in 1..l : data[x] \in Nat
  BY <1>6
<1>9. laid \in Seq(Nat)
  <2>1. \A x \in 1..l : (IF written(x) = {} THEN data[x] ELSE b.data[Max(written(x)) - b.addr + 1]) \in Nat
    BY <1>5, <1>7, <1>8
  <2>2. laid \in [1..l -> Nat]
    BY <2>1, <1>5
  <2>3. QED
    BY <2>2, Listed
<1> HIDE DEF laid
<1>10. (IF at(b.addr) < 1 THEN <<>> ELSE laid) \in Seq(Nat)
  BY <1>9
<1>11. QED
  BY <1>1, <1>10 DEF Block

LEMMA MergeNextIs ==
  ASSUME NEW done \in Seq(Block), NEW b \in Block
  PROVE  MergeNext(done, b) \in Seq(Block)
<1>1. CASE done = <<>>
  <2>1. MergeNext(done, b) = <<b>>
    BY <1>1 DEF MergeNext
  <2>2. QED
    BY <2>1
<1>2. CASE done # <<>>
  <2>1. PICK cur \in Block, front \in Seq(Block) : cur = Last(done) /\ front = Front(done)
    BY <1>2, LastIs
  <2>2. MergeNext(done, b) =
          IF cur.data = <<>> THEN done
          ELSE IF b.addr < Ends(cur) THEN Append(front, Overlay(cur, b))
          ELSE IF HasFullPhrase(Ends(cur), b.addr - 1) THEN Append(done, b)
          ELSE Append(front, [cur EXCEPT !.data = cur.data \o Erased(b.addr - Ends(cur)) \o b.data])
    BY <1>2, <2>1 DEF MergeNext
  <2>3. Append(front, Overlay(cur, b)) \in Seq(Block)
    BY OverlayIs, Appended
  <2>4. Append(done, b) \in Seq(Block)
    OBVIOUS
  <2>5. ASSUME ~ (b.addr < Ends(cur))
        PROVE  Append(front, [cur EXCEPT !.data = cur.data \o Erased(b.addr - Ends(cur)) \o b.data]) \in Seq(Block)
    <3>1. b.addr - Ends(cur) \in Nat
      BY <2>5, BlockIs
    <3>2. Erased(b.addr - Ends(cur)) \in Seq(Nat) /\ cur.data \in Seq(Nat) /\ b.data \in Seq(Nat)
      BY <3>1, ErasedIs, BlockIs
    <3>3. PICK c \in Seq(Nat) : c = cur.data \o Erased(b.addr - Ends(cur))
      BY <3>2, Joined
    <3>4. PICK d \in Seq(Nat) : d = c \o b.data
      BY <3>2, Joined
    <3>5. [cur EXCEPT !.data = d] \in Block
      BY DEF Block
    <3>6. Append(front, [cur EXCEPT !.data = d]) \in Seq(Block)
      BY <3>5
    <3>7. QED
      BY <3>3, <3>4, <3>6
  <2>6. QED
    BY <2>2, <2>3, <2>4, <2>5
<1>3. QED
  BY <1>1, <1>2

LEMMA MergeLoop ==
  ASSUME NEW blocks \in Seq(Record)
  PROVE  \E f \in [0..Len(blocks) -> Seq(Block)] :
           /\ f[0] = <<>>
           /\ \A i \in 1..Len(blocks) : f[i] = MergeNext(f[i - 1], blocks[i])
           /\ Merge(blocks) = f[Len(blocks)]
<1>1. PICK n \in Nat : n = Len(blocks)
  OBVIOUS
<1>2. ASSUME NEW i \in 1..n, NEW v \in Seq(Block)
      PROVE  MergeNext(v, blocks[i]) \in Seq(Block)
  <2>1. blocks[i] \in Record
    BY <1>1
  <2>2. blocks[i] \in Block
    BY <2>1, RecordsAreBlocks
  <2>3. QED
    BY <2>2, MergeNextIs
<1>3. <<>> \in Seq(Block)
  OBVIOUS
<1> DEFINE G == [x \in (1..n) \X Seq(Block) |-> MergeNext(x[2], blocks[x[1]])]
<1>4. \A i \in 1..n, v \in Seq(Block) : G[<<i, v>>] = MergeNext(v, blocks[i])
  OBVIOUS
<1> HIDE DEF G
<1>5. MakesUpTo(n, G, Seq(Block))
  BY <1>2, <1>4 DEF MakesUpTo
<1>6. PICK f \in [0..n -> Seq(Block)] : IterationOf(f, n, <<>>, G)
  BY <1>3, <1>5, Iterated, Zenon
<1>7. ASSUME NEW i \in 0..n
      PROVE  f[i] = IF i = 0 THEN <<>> ELSE MergeNext(f[i - 1], blocks[i])
  <2>1. CASE i = 0
    BY <2>1, <1>6 DEF IterationOf
  <2>2. CASE i # 0
    <3>1. i \in 1..n /\ i - 1 \in 0..n
      BY <2>2
    <3>2. f[i] = G[<<i, f[i - 1]>>]
      BY <2>2, <1>6 DEF IterationOf
    <3>3. f[i - 1] \in Seq(Block)
      BY <3>1
    <3>4. f[i] = MergeNext(f[i - 1], blocks[i])
      BY <3>1, <3>2, <3>3, <1>4
    <3>5. QED
      BY <2>2, <3>4
  <2>3. QED
    BY <2>1, <2>2
<1>8. f = [i \in 0..n |-> IF i = 0 THEN <<>> ELSE MergeNext(f[i - 1], blocks[i])]
  BY <1>7
<1>9. \E g : g = [i \in 0..Len(blocks) |-> IF i = 0 THEN <<>> ELSE MergeNext(g[i - 1], blocks[i])]
  BY <1>1, <1>8, Zenon
<1> DEFINE made[i \in 0..Len(blocks)] == IF i = 0 THEN <<>> ELSE MergeNext(made[i - 1], blocks[i])
<1>10. made = [i \in 0..Len(blocks) |-> IF i = 0 THEN <<>> ELSE MergeNext(made[i - 1], blocks[i])]
  BY <1>9, Zenon
<1>11. Merge(blocks) = made[Len(blocks)]
  BY DEF Merge
<1> HIDE DEF made
<1>12. /\ made[0] = <<>>
       /\ \A i \in 1..n : made[i] = MergeNext(made[i - 1], blocks[i])
  <2>1. 0 \in 0..n /\ \A i \in 1..n : i \in 0..n /\ i # 0
    OBVIOUS
  <2>2. \A i \in 0..n : made[i] = IF i = 0 THEN <<>> ELSE MergeNext(made[i - 1], blocks[i])
    BY <1>1, <1>10, Zenon
  <2>3. QED
    BY <2>1, <2>2, Zenon
<1> DEFINE S == {i \in 0..n : made[i] \in Seq(Block)}
<1>13. 0..n \subseteq S
  <2>1. 0 \in S
    <3>1. 0 \in 0..n /\ made[0] \in Seq(Block)
      BY <1>3, <1>12
    <3>2. QED
      BY <3>1
  <2>2. ASSUME NEW i \in 1..n, i - 1 \in S
        PROVE  i \in S
    <3>1. made[i - 1] \in Seq(Block) /\ i \in 0..n
      BY <2>2
    <3>2. MergeNext(made[i - 1], blocks[i]) \in Seq(Block)
      BY <3>1, <1>2
    <3>3. QED
      BY <3>1, <3>2, <1>12
  <2> HIDE DEF S
  <2>3. QED
    BY <2>1, <2>2, UpTo
<1>14. made \in [0..n -> Seq(Block)]
  BY <1>1, <1>10, <1>13
<1>15. QED
  BY <1>1, <1>11, <1>12, <1>14

LEMMA MergeIs ==
  ASSUME NEW blocks \in Seq(Record)
  PROVE  Merge(blocks) \in Seq(Block)
<1>1. PICK f \in [0..Len(blocks) -> Seq(Block)] : Merge(blocks) = f[Len(blocks)]
  BY MergeLoop
<1>2. Len(blocks) \in 0..Len(blocks)
  <2>1. Len(blocks) \in Nat
    OBVIOUS
  <2>2. QED
    BY <2>1
<1>3. QED
  BY <1>1, <1>2

(* A block with erased bytes around it, up to the borders of its phrases   *)
Phrased(b, w, s, e) ==
  /\ w \in Block /\ w.addr = s /\ Ends(w) = e
  /\ Span(w) = s..e - 1 /\ s % Phrase = 0 /\ e % Phrase = 0
  /\ s <= b.addr /\ b.addr < s + Phrase /\ Ends(b) <= e /\ e < Ends(b) + Phrase
  /\ \A a \in s..e - 1 : ByteOf(w, a) = IF a \in Span(b) THEN ByteOf(b, a) ELSE 255

LEMMA PhrasesIs ==
  ASSUME NEW b \in Block
  PROVE  \E s \in Nat, e \in Nat : Phrased(b, Phrases(b), s, e)
<1>1. PICK p \in Nat, n \in Nat, q \in Nat, d \in Seq(Nat) :
        /\ p = b.addr /\ d = b.data /\ n = Len(d) /\ q = Ends(b) /\ q = p + n /\ Span(b) = p..q - 1
  BY BlockIs
<1>2. Phrase \in Nat \ {0}
  BY OptionsAssumed
<1>3. PICK s \in Nat : s = AlignDown(p, Phrase) /\ s % Phrase = 0 /\ s <= p /\ p < s + Phrase
  BY <1>2, AlignDownIs
<1>4. PICK k \in Nat : k = p - s
  BY <1>3
<1>5. PICK g \in Seq(Nat) : g = Erased(k) /\ Len(g) = k /\ \A i \in 1..k : g[i] = 255
  BY ErasedIs
<1>6. PICK c \in Seq(Nat) : /\ c = g \o d /\ Len(c) = k + n
                            /\ \A i \in 1..k : c[i] = g[i]
                            /\ \A i \in 1..n : c[k + i] = d[i]
  <2>1. /\ g \o d \in Seq(Nat) /\ Len(g \o d) = Len(g) + Len(d)
        /\ \A i \in 1..Len(g) : (g \o d)[i] = g[i]
        /\ \A i \in 1..Len(d) : (g \o d)[Len(g) + i] = d[i]
    BY Joined
  <2>2. Len(g) = k /\ Len(d) = n
    BY <1>1, <1>5
  <2>3. QED
    BY <2>1, <2>2
<1>7. PICK m \in Nat : m = k + n
  OBVIOUS
<1>8. PICK u \in Nat : u = AlignUp(m, Phrase) /\ u % Phrase = 0 /\ m <= u /\ u < m + Phrase
  BY <1>2, AlignUpIs
<1>9. PICK w \in Seq(Nat) : /\ w = PadUp(c, Phrase) /\ Len(w) = u /\ \A i \in 1..m : w[i] = c[i]
                            /\ \A i \in m + 1..u : w[i] = 255
  <2>1. /\ PadUp(c, Phrase) \in Seq(Nat) /\ Len(PadUp(c, Phrase)) = AlignUp(Len(c), Phrase)
        /\ \A i \in 1..Len(c) : PadUp(c, Phrase)[i] = c[i]
        /\ \A i \in Len(c) + 1..AlignUp(Len(c), Phrase) : PadUp(c, Phrase)[i] = 255
    <3>1. Padded(c, Phrase)
      BY <1>2, PadUpIs, Zenon
    <3>2. QED
      BY <3>1 DEF Padded
  <2>2. Len(c) = m
    BY <1>6, <1>7
  <2>3. QED
    BY <2>1, <2>2, <1>8
<1>10. Phrases(b) = [addr |-> s, data |-> w]
  BY <1>1, <1>3, <1>4, <1>5, <1>6, <1>9 DEF Phrases
<1>11. PICK z : z = Phrases(b) /\ z.addr = s /\ z.data = w /\ z \in Block
  <2>1. [addr |-> s, data |-> w] \in Block
    BY DEF Block
  <2>2. QED
    BY <2>1, <1>10
<1>12. PICK e \in Nat : e = s + u
  OBVIOUS
<1>a. s + m = q
  <2>1. q = p + n
    BY <1>1
  <2>2. QED
    BY <2>1, <1>4, <1>7
<1>13. Ends(z) = e /\ Span(z) = s..e - 1
  BY <1>9, <1>11, <1>12 DEF Ends, Span
<1>14. q <= e /\ e < q + Phrase
  BY <1>a, <1>2, <1>8, <1>12
<1>15. e % Phrase = 0
  <2>1. (s + u) % Phrase = 0
    BY <1>2, <1>3, <1>8, MultiplesSum
  <2>2. QED
    BY <2>1, <1>12
<1>16. ASSUME NEW a \in s..e - 1
       PROVE  ByteOf(z, a) = IF a \in Span(b) THEN ByteOf(b, a) ELSE 255
  <2>1. PICK i \in 1..u : i = a - s + 1
    <3>1. a - s + 1 \in 1..u
      BY <1>12
    <3>2. QED
      BY <3>1
  <2>2. ByteOf(z, a) = w[i]
    BY <2>1, <1>11 DEF ByteOf
  <2>3. CASE i <= k
    <3>1. i \in 1..k /\ i \in 1..m
      BY <2>3, <1>7
    <3>2. w[i] = 255
      BY <3>1, <1>5, <1>6, <1>9
    <3>3. a < p
      BY <2>1, <2>3, <1>4
    <3>4. a \notin Span(b)
      BY <3>3, <1>1
    <3>5. QED
      BY <2>2, <3>2, <3>4
  <2>4. CASE i > m
    <3>1. i \in m + 1..u
      BY <2>4
    <3>2. w[i] = 255
      BY <3>1, <1>9
    <3>3. q <= a
      BY <2>1, <2>4, <1>a
    <3>4. a \notin Span(b)
      BY <3>3, <1>1
    <3>5. QED
      BY <2>2, <3>2, <3>4
  <2>5. CASE k < i /\ i <= m
    <3>1. i - k \in 1..n /\ k + (i - k) = i /\ i \in 1..m
      BY <2>5, <1>7
    <3>2. w[i] = c[i]
      BY <3>1, <1>9
    <3>3. c[k + (i - k)] = d[i - k]
      BY <3>1, <1>6
    <3>4. a - p + 1 = i - k
      BY <2>1, <1>4
    <3>5. ByteOf(b, a) = d[i - k]
      BY <3>4, <1>1 DEF ByteOf
    <3>6. p <= a /\ a <= q - 1
      <4>1. q = p + n /\ i - k \in 1..n /\ a - p + 1 = i - k
        BY <3>1, <3>4, <1>1
      <4>2. PICK j \in 1..n : j = i - k
        BY <4>1
      <4>3. a = p + j - 1
        BY <4>1, <4>2
      <4>4. QED
        BY <4>1, <4>2, <4>3
    <3>7. a \in Span(b)
      BY <3>6, <1>1
    <3>8. QED
      BY <2>2, <3>1, <3>2, <3>3, <3>5, <3>7
  <2>6. QED
    BY <2>3, <2>4, <2>5
<1>17. Phrased(b, z, s, e)
  <2>1. s <= b.addr /\ b.addr < s + Phrase
    BY <1>1, <1>3
  <2>2. Ends(b) <= e /\ e < Ends(b) + Phrase
    BY <1>1, <1>14
  <2>3. QED
    BY <2>1, <2>2, <1>3, <1>11, <1>13, <1>15, <1>16 DEF Phrased
<1>18. z = Phrases(b)
  BY <1>11
<1>19. QED
  BY <1>17, <1>18, Zenon

Blank(flash, a) ==
  \A c \in AlignDown(a, Phrase)..AlignDown(a, Phrase) + Phrase - 1 : flash[c] = 255

LEMMA WriteBlockIs ==
  ASSUME NEW flash \in [Code -> Nat], NEW b \in Block
  PROVE  /\ WriteBlock(flash, b) \in [Code -> Nat]
         /\ \A a \in Code : WriteBlock(flash, b)[a] =
              IF a \notin Span(Phrases(b)) THEN flash[a]
              ELSE IF Blank(flash, a) THEN ByteOf(Phrases(b), a) ELSE Garbage
<1> DEFINE w == Phrases(b)
           made == [a \in Code |-> IF a \notin Span(w) THEN flash[a]
                                   ELSE IF Blank(flash, a) THEN ByteOf(w, a) ELSE Garbage]
<1>1. WriteBlock(flash, b) = made
  BY DEF WriteBlock, Blank
<1>2. w \in Block
  BY PhrasesIs DEF Phrased
<1> HIDE DEF w
<1>3. \A a \in Span(w) : ByteOf(w, a) \in Nat
  <2>1. w.addr \in Nat /\ w.data \in Seq(Nat)
    BY <1>2, BlockIs
  <2>2. QED
    BY <2>1, ByteOfIs
<1>4. Garbage \in Nat
  BY DEF Garbage
<1>5. made \in [Code -> Nat]
  BY <1>3, <1>4
<1>6. QED
  BY <1>1, <1>5 DEF w

LEMMA WrittenLoop ==
  ASSUME NEW flash \in [Code -> Nat], NEW blocks \in Seq(Block)
  PROVE  \E f \in [0..Len(blocks) -> [Code -> Nat]] :
           /\ f[0] = flash
           /\ \A i \in 1..Len(blocks) : f[i] = WriteBlock(f[i - 1], blocks[i])
           /\ Written(flash, blocks) = f[Len(blocks)]
<1>1. PICK n \in Nat : n = Len(blocks)
  OBVIOUS
<1>2. ASSUME NEW i \in 1..n, NEW v \in [Code -> Nat]
      PROVE  WriteBlock(v, blocks[i]) \in [Code -> Nat]
  <2>1. blocks[i] \in Block
    BY <1>1
  <2>2. QED
    BY <2>1, WriteBlockIs
<1>3. flash \in [Code -> Nat]
  OBVIOUS
<1> DEFINE G == [x \in (1..n) \X [Code -> Nat] |-> WriteBlock(x[2], blocks[x[1]])]
<1>4. \A i \in 1..n, v \in [Code -> Nat] : G[<<i, v>>] = WriteBlock(v, blocks[i])
  OBVIOUS
<1> HIDE DEF G
<1>5. MakesUpTo(n, G, [Code -> Nat])
  BY <1>2, <1>4 DEF MakesUpTo
<1>6. PICK f \in [0..n -> [Code -> Nat]] : IterationOf(f, n, flash, G)
  BY <1>3, <1>5, Iterated, Zenon
<1>7. ASSUME NEW i \in 0..n
      PROVE  f[i] = IF i = 0 THEN flash ELSE WriteBlock(f[i - 1], blocks[i])
  <2>1. CASE i = 0
    BY <2>1, <1>6 DEF IterationOf
  <2>2. CASE i # 0
    <3>1. i \in 1..n /\ i - 1 \in 0..n
      BY <2>2
    <3>2. f[i] = G[<<i, f[i - 1]>>]
      BY <2>2, <1>6 DEF IterationOf
    <3>3. f[i - 1] \in [Code -> Nat]
      BY <3>1
    <3>4. f[i] = WriteBlock(f[i - 1], blocks[i])
      BY <3>1, <3>2, <3>3, <1>4
    <3>5. QED
      BY <2>2, <3>4
  <2>3. QED
    BY <2>1, <2>2
<1>8. f = [i \in 0..n |-> IF i = 0 THEN flash ELSE WriteBlock(f[i - 1], blocks[i])]
  BY <1>7
<1>9. \E g : g = [i \in 0..Len(blocks) |-> IF i = 0 THEN flash ELSE WriteBlock(g[i - 1], blocks[i])]
  BY <1>1, <1>8, Zenon
<1> DEFINE made[i \in 0..Len(blocks)] == IF i = 0 THEN flash ELSE WriteBlock(made[i - 1], blocks[i])
<1>10. made = [i \in 0..Len(blocks) |-> IF i = 0 THEN flash ELSE WriteBlock(made[i - 1], blocks[i])]
  BY <1>9, Zenon
<1>11. Written(flash, blocks) = made[Len(blocks)]
  BY DEF Written
<1> HIDE DEF made
<1>12. /\ made[0] = flash
       /\ \A i \in 1..n : made[i] = WriteBlock(made[i - 1], blocks[i])
  <2>1. 0 \in 0..n /\ \A i \in 1..n : i \in 0..n /\ i # 0
    OBVIOUS
  <2>2. \A i \in 0..n : made[i] = IF i = 0 THEN flash ELSE WriteBlock(made[i - 1], blocks[i])
    BY <1>1, <1>10, Zenon
  <2>3. QED
    BY <2>1, <2>2, Zenon
<1> DEFINE S == {i \in 0..n : made[i] \in [Code -> Nat]}
<1>13. 0..n \subseteq S
  <2>1. 0 \in S
    <3>1. 0 \in 0..n /\ made[0] \in [Code -> Nat]
      BY <1>3, <1>12
    <3>2. QED
      BY <3>1
  <2>2. ASSUME NEW i \in 1..n, i - 1 \in S
        PROVE  i \in S
    <3>1. made[i - 1] \in [Code -> Nat] /\ i \in 0..n
      BY <2>2
    <3>2. WriteBlock(made[i - 1], blocks[i]) \in [Code -> Nat]
      BY <3>1, <1>2
    <3>3. QED
      BY <3>1, <3>2, <1>12
  <2> HIDE DEF S
  <2>3. QED
    BY <2>1, <2>2, UpTo
<1>14. made \in [0..n -> [Code -> Nat]]
  BY <1>1, <1>10, <1>13
<1>15. QED
  BY <1>1, <1>11, <1>12, <1>14

LEMMA WrittenIs ==
  ASSUME NEW flash \in [Code -> Nat], NEW blocks \in Seq(Block)
  PROVE  Written(flash, blocks) \in [Code -> Nat]
<1>1. PICK f \in [0..Len(blocks) -> [Code -> Nat]] : Written(flash, blocks) = f[Len(blocks)]
  BY WrittenLoop
<1>2. Len(blocks) \in 0..Len(blocks)
  <2>1. Len(blocks) \in Nat
    OBVIOUS
  <2>2. QED
    BY <2>1
<1>3. QED
  BY <1>1, <1>2

HasBase(file) == \E i \in DOMAIN file : file[i].addr = CodeBase

LEMMA ByteAtIs ==
  ASSUME NEW file \in Seq(Record), NEW a \in Covered(file)
  PROVE  /\ ByteAt(file, a) \in Nat
         /\ \E i \in 1..Len(file) : /\ a \in Span(file[i]) /\ ByteAt(file, a) = ByteOf(file[i], a)
                                    /\ \A j \in 1..Len(file) : a \in Span(file[j]) => j <= i
<1>1. PICK n \in Nat : n = Len(file) /\ DOMAIN file = 1..n
  OBVIOUS
<1> DEFINE H == Holders(file, a)
<1>2. H = {i \in 1..n : a \in Span(file[i])}
  BY <1>1 DEF Holders
<1>3. H # {}
  BY <1>1, <1>2 DEF Covered
<1>4. H \in SUBSET Nat /\ \A i \in H : i <= n
  BY <1>2
<1>5. ByteAt(file, a) = ByteOf(file[Max(H)], a)
  BY DEF ByteAt
<1>6. PICK i \in H : i = Max(H) /\ \A j \in H : j <= i
  <2> HIDE DEF H
  <2>1. QED
    BY <1>3, <1>4, MaxExists
<1>7. i \in 1..n /\ a \in Span(file[i]) /\ \A j \in 1..n : a \in Span(file[j]) => j <= i
  BY <1>2, <1>6
<1>8. file[i] \in Record
  BY <1>1, <1>7
<1>9. file[i].addr \in Nat /\ file[i].data \in Seq(Nat)
  BY <1>8, RecordIs
<1>10. ByteOf(file[i], a) \in Nat
  BY <1>7, <1>9, ByteOfIs
<1>11. ByteAt(file, a) = ByteOf(file[i], a)
  BY <1>5, <1>6
<1>12. QED
  BY <1>1, <1>7, <1>10, <1>11

LEMMA SpanIs ==
  ASSUME NEW x, NEW p \in Nat, NEW n \in Nat, x.addr = p, Len(x.data) = n
  PROVE  Span(x) = p..p + n - 1
BY DEF Span, Ends

Keyed(file, k, w) ==
  /\ w \in Seq(Record) /\ Len(w) = Len(file)
  /\ \A i \in 1..Len(file) :
       /\ w[i].addr = file[i].addr /\ Span(w[i]) = Span(file[i])
       /\ \A a \in Span(w[i]) : ByteOf(w[i], a) =
            IF a \in KeyArea THEN KeyDer(k)[a - KeyAddr + 1] ELSE ByteOf(file[i], a)

LEMMA InjectKeyIs ==
  ASSUME NEW file \in Seq(Record), NEW k \in Nat
  PROVE  Keyed(file, k, InjectKey(file, KeyDer(k), KeyAddr))
<1> DEFINE key0 == KeyDer(k)
           rec(i) == [addr |-> file[i].addr,
                      data |-> [j \in DOMAIN file[i].data |->
                                  LET p == file[i].addr + j - KeyAddr IN
                                  IF p \in DOMAIN key0 THEN key0[p] ELSE file[i].data[j]]]
<1>1. PICK n \in Nat : n = Len(file) /\ DOMAIN file = 1..n
  OBVIOUS
<1>2. InjectKey(file, key0, KeyAddr) = [i \in 1..n |-> rec(i)]
  BY <1>1 DEF InjectKey
<1>3. DOMAIN key0 = 1..3 /\ \A p \in 1..3 : key0[p] \in Nat
  BY DEF KeyDer
<1>4. KeyAddr \in Nat
  BY FirmwareImageAssumption
<1> HIDE DEF key0
<1>5. ASSUME NEW i \in 1..n
      PROVE  /\ rec(i) \in Record /\ rec(i).addr = file[i].addr /\ Span(rec(i)) = Span(file[i])
             /\ \A a \in Span(rec(i)) : ByteOf(rec(i), a) =
                  IF a \in KeyArea THEN key0[a - KeyAddr + 1] ELSE ByteOf(file[i], a)
  <2>1. PICK q \in Nat, d \in Seq(Nat), l \in Nat :
          q = file[i].addr /\ d = file[i].data /\ l = Len(d) /\ l # 0 /\ DOMAIN d = 1..l
    <3>1. file[i] \in Record
      BY <1>1
    <3>2. file[i].addr \in Nat /\ file[i].data \in Seq(Nat) /\ Len(file[i].data) \in Nat \ {0}
      BY <3>1, RecordIs
    <3>3. QED
      BY <3>2
  <2> DEFINE v == [j \in 1..l |-> IF q + j - KeyAddr \in 1..3 THEN key0[q + j - KeyAddr] ELSE d[j]]
  <2>2. rec(i) = [addr |-> q, data |-> v]
    BY <2>1, <1>3
  <2>3. \A j \in 1..l : d[j] \in Nat
    BY <2>1
  <2>4. v \in [1..l -> Nat]
    BY <2>3, <1>3
  <2>5. \A j \in 1..l : v[j] = IF q + j - KeyAddr \in 1..3 THEN key0[q + j - KeyAddr] ELSE d[j]
    OBVIOUS
  <2> HIDE DEF v
  <2>6. v \in Seq(Nat) /\ Len(v) = l /\ v # <<>>
    <3>1. v \in Seq(Nat) /\ Len(v) = l
      BY <2>4, Listed
    <3>2. QED
      BY <3>1, <2>1
  <2> HIDE DEF rec
  <2>7. rec(i) \in Record /\ rec(i).addr = q /\ rec(i).data = v
    <3>1. [addr |-> q, data |-> v] \in Record
      BY <2>6 DEF Record
    <3>2. QED
      BY <3>1, <2>2
  <2>8. Span(rec(i)) = q..q + l - 1 /\ Span(file[i]) = q..q + l - 1
    <3>1. Len(rec(i).data) = l /\ Len(file[i].data) = l
      BY <2>1, <2>6, <2>7
    <3>3. Span(rec(i)) = q..q + l - 1
      BY <3>1, <2>7, SpanIs, Zenon
    <3>4. Span(file[i]) = q..q + l - 1
      <4>1. file[i].addr = q
        BY <2>1
      <4>2. QED
        BY <3>1, <4>1, SpanIs, Zenon
    <3>5. QED
      BY <3>3, <3>4
  <2>9. ASSUME NEW a \in q..q + l - 1
        PROVE  ByteOf(rec(i), a) = IF a \in KeyArea THEN key0[a - KeyAddr + 1] ELSE ByteOf(file[i], a)
    <3>1. PICK j \in 1..l : j = a - q + 1
      <4>1. a - q + 1 \in 1..l
        OBVIOUS
      <4>2. QED
        BY <4>1
    <3>2. q + j - KeyAddr = a - KeyAddr + 1
      BY <3>1, <1>4
    <3>3. q + j - KeyAddr \in 1..3 <=> a \in KeyArea
      BY <3>1, <1>4 DEF KeyArea
    <3>4. ByteOf(rec(i), a) = v[j] /\ ByteOf(file[i], a) = d[j]
      BY <3>1, <2>1, <2>7 DEF ByteOf
    <3>5. v[j] = IF q + j - KeyAddr \in 1..3 THEN key0[q + j - KeyAddr] ELSE d[j]
      BY <2>5
    <3>6. QED
      BY <3>2, <3>3, <3>4, <3>5
  <2>10. QED
    BY <2>1, <2>7, <2>8, <2>9
<1> DEFINE s == [i \in 1..n |-> rec(i)]
<1>6. s \in [1..n -> Record] /\ \A i \in 1..n : s[i] = rec(i)
  BY <1>5
<1> HIDE DEF s, rec
<1>7. s \in Seq(Record) /\ Len(s) = n
  BY <1>6, Listed
<1>8. InjectKey(file, key0, KeyAddr) = s
  BY <1>2 DEF s
<1>9. ASSUME NEW i \in 1..n
      PROVE  /\ s[i].addr = file[i].addr /\ Span(s[i]) = Span(file[i])
             /\ \A a \in Span(s[i]) : ByteOf(s[i], a) =
                  IF a \in KeyArea THEN key0[a - KeyAddr + 1] ELSE ByteOf(file[i], a)
  BY <1>5, <1>6
<1>10. QED
  BY <1>1, <1>7, <1>8, <1>9 DEF key0, Keyed

Extended(file, r, c) ==
  /\ c \in Seq(Record) /\ Len(c) = Len(file) + 1 /\ c[Len(file) + 1] = r
  /\ \A i \in 1..Len(file) : c[i] = file[i]

LEMMA CombineIs ==
  ASSUME NEW file \in Seq(Record), NEW img \in Seq(Nat), img # <<>>, NEW at \in Nat
  PROVE  Extended(file, [addr |-> at, data |-> img], Combine(file, img, at))
<1>1. [addr |-> at, data |-> img] \in Record
  BY DEF Record
<1>2. PICK r \in Record : r = [addr |-> at, data |-> img]
  BY <1>1
<1>3. Combine(file, img, at) = Append(file, r)
  BY <1>2 DEF Combine
<1>4. Extended(file, r, Append(file, r))
  BY Appended DEF Extended
<1>5. QED
  BY <1>2, <1>3, <1>4

LEMMA BaseKept ==
  ASSUME NEW f \in Seq(Record), HasBase(f)
  PROVE  /\ \A k, w : Keyed(f, k, w) => HasBase(w)
         /\ \A r, c : Extended(f, r, c) => HasBase(c)
<1>1. PICK n \in Nat : n = Len(f) /\ DOMAIN f = 1..n
  OBVIOUS
<1>2. PICK i \in 1..n : f[i].addr = CodeBase
  BY <1>1 DEF HasBase
<1>3. ASSUME NEW k, NEW w, Keyed(f, k, w)
      PROVE  HasBase(w)
  <2>1. w \in Seq(Record) /\ Len(w) = n /\ w[i].addr = f[i].addr
    BY <1>1, <1>3 DEF Keyed
  <2>2. i \in DOMAIN w /\ w[i].addr = CodeBase
    BY <2>1, <1>2
  <2>3. QED
    BY <2>2 DEF HasBase
<1>4. ASSUME NEW r, NEW c, Extended(f, r, c)
      PROVE  HasBase(c)
  <2>1. c \in Seq(Record) /\ Len(c) = n + 1 /\ c[i] = f[i]
    BY <1>1, <1>4 DEF Extended
  <2>2. i \in DOMAIN c /\ c[i].addr = CodeBase
    BY <2>1, <1>2
  <2>3. QED
    BY <2>2 DEF HasBase
<1>5. QED
  BY <1>3, <1>4

(* What is read of a file: each byte the records that start in the code    *)
(* flash have for it, erased bytes for the others                          *)
Shown(file, a) == IF a \in Covered(file) \cap Code THEN ByteAt(file, a) ELSE 255

ReadFrom(file, x, m) ==
  LET code == StartingIn(file, Code) IN
  /\ CodeBase + m - 1 \in Covered(code) \cap Code
  /\ \A a \in Covered(code) \cap Code : a <= CodeBase + m - 1
  /\ x \in Seq(Nat) /\ Len(x) = AlignUp(m, CrcUnit)
  /\ \A i \in 1..m : x[i] = Shown(code, CodeBase + i - 1)
  /\ \A i \in m + 1..Len(x) : x[i] = 255

LEMMA ParseSrecIs ==
  ASSUME NEW file \in Seq(Record), HasBase(file)
  PROVE  \E m \in Nat \ {0} : ReadFrom(file, ParseSrec(file), m)
<1> DEFINE code == StartingIn(file, Code)
           present == Covered(code) \cap Code
           first == Min(present)
<1>1. code \in Seq(Record) /\ \A x : In(x, code) <=> In(x, file) /\ x.addr \in Code
  BY StartingInIs, Zenon
<1>2. ParseSrec(file) =
        PadUp([i \in 1..Max(present) - first + 1 |->
                 IF first + i - 1 \in present THEN ByteAt(code, first + i - 1) ELSE 255], CrcUnit)
  BY DEF ParseSrec
<1> HIDE DEF code
<1>3. PICK lo \in Nat, hi \in Nat : lo = CodeBase /\ lo \in Code /\ Code = lo..hi
  BY CodeIs
<1>4. CodeBase \in present
  <2>1. PICK i \in 1..Len(file) : file[i].addr = CodeBase
    BY DEF HasBase
  <2>2. In(file[i], file)
    BY DEF In
  <2>3. In(file[i], code)
    BY <2>1, <2>2, <1>1, <1>3
  <2>4. PICK j \in 1..Len(code) : code[j] = file[i]
    BY <2>3 DEF In
  <2>5. code[j] \in Record /\ j \in DOMAIN code
    BY <1>1
  <2>6. code[j].addr \in Span(code[j])
    BY <2>5, RecordIs
  <2>7. lo \in Covered(code)
    BY <2>1, <2>4, <2>5, <2>6, <1>3 DEF Covered
  <2>8. QED
    BY <2>7, <1>3
<1>5. present \in SUBSET Nat /\ \A y \in present : y <= hi /\ lo <= y
  BY <1>3
<1> HIDE DEF present
<1>6. Min(present) = lo
  BY <1>3, <1>4, <1>5, MinIs
<1>7. PICK z \in present : z = Max(present) /\ \A y \in present : y <= z
  BY <1>4, <1>5, MaxExists
<1>8. PICK m \in Nat \ {0} : m = z - lo + 1 /\ lo + m - 1 = z
  <2>1. z - lo + 1 \in Nat \ {0}
    BY <1>5
  <2>2. lo + (z - lo + 1) - 1 = z
    BY <1>5
  <2>3. QED
    BY <2>1, <2>2
<1> DEFINE read == [i \in 1..m |-> IF lo + i - 1 \in present THEN ByteAt(code, lo + i - 1) ELSE 255]
<1>9. read \in [1..m -> Nat]
  <2>1. \A a \in present : ByteAt(code, a) \in Nat
    BY <1>1, ByteAtIs DEF present
  <2>2. QED
    BY <2>1
<1>10. \A i \in 1..m : read[i] = Shown(code, lo + i - 1)
  BY DEF Shown, present
<1>11. ParseSrec(file) = PadUp(read, CrcUnit)
  BY <1>2, <1>6, <1>7, <1>8
<1> HIDE DEF read
<1>12. read \in Seq(Nat) /\ Len(read) = m
  BY <1>9, Listed
<1>13. PICK x : x = PadUp(read, CrcUnit)
  OBVIOUS
<1>14. Padded(read, CrcUnit)
  BY <1>12, OptionsAssumed, PadUpIs, Zenon
<1>15. x \in Seq(Nat) /\ Len(x) = AlignUp(m, CrcUnit) /\ \A i \in 1..m : x[i] = read[i]
  BY <1>12, <1>13, <1>14 DEF Padded
<1>16. \A i \in m + 1..Len(x) : x[i] = 255
  BY <1>12, <1>13, <1>14 DEF Padded
<1>17. CodeBase + m - 1 = z /\ \A i \in 1..m : CodeBase + i - 1 = lo + i - 1
  BY <1>3, <1>8
<1>18. ReadFrom(file, x, m)
  <2>1. \A i \in 1..m : x[i] = Shown(code, CodeBase + i - 1)
    BY <1>3, <1>10, <1>15
  <2>2. QED
    BY <2>1, <1>7, <1>15, <1>16, <1>17 DEF ReadFrom, code, present
<1>19. QED
  BY <1>11, <1>13, <1>18

LEMMA CertifiedIs ==
  ASSUME NEW img \in Seq(Nat)
  PROVE  CertifiedImage(img) \in Seq(Nat) /\ Len(CertifiedImage(img)) % CrcUnit = 0
<1> DEFINE long == IF Len(img) < MinImage THEN img \o Erased(MinImage - Len(img)) ELSE img
<1>1. PICK n \in Nat, k \in Nat : n = Len(img) /\ k = MinImage
  BY OptionsAssumed
<1>2. long \in Seq(Nat)
  <2>1. CASE n < k
    <3>1. k - n \in Nat
      BY <2>1
    <3>2. Erased(k - n) \in Seq(Nat)
      BY <3>1, ErasedIs
    <3>3. img \o Erased(k - n) \in Seq(Nat)
      BY <3>2, Joined
    <3>4. QED
      BY <3>3, <2>1, <1>1
  <2>2. CASE ~ (n < k)
    BY <2>2, <1>1
  <2>3. QED
    BY <2>1, <2>2
<1>3. CertifiedImage(img) = PadUp(long, CrcUnit)
  BY DEF CertifiedImage
<1> HIDE DEF long
<1>4. Padded(long, CrcUnit)
  BY <1>2, OptionsAssumed, PadUpIs, Zenon
<1>5. PadUp(long, CrcUnit) \in Seq(Nat) /\ Len(PadUp(long, CrcUnit)) = AlignUp(Len(long), CrcUnit)
  BY <1>4 DEF Padded
<1>6. Len(long) \in Nat /\ CrcUnit \in Nat \ {0}
  BY <1>2, OptionsAssumed
<1>7. AlignUp(Len(long), CrcUnit) % CrcUnit = 0
  BY <1>6, AlignUpIs
<1>8. QED
  BY <1>3, <1>5, <1>7

-----------------------------------------------------------------------------
(* The types, and what they rest on: there is an image to combine, every   *)
(* file certificates are made of starts where the flash does, and a board  *)
(* that was erased before is blank until it is programmed.                 *)
BlankBefore ==
  (stage \in {"sign", "combine", "certify", "program"} /\ board.erased) =>
    \A a \in Code : board.flash[a] = 255

Sources ==
  /\ stage = "combine" => image # <<>>
  /\ stage = "certify" =>
       HasBase(boot) /\ HasBase(combined) /\ (withkey # <<>> => HasBase(withkey))

ImageInv == ImageTypeOK /\ Sources /\ BlankBefore

Boards == [flash : [Code -> Nat], options : [Options -> Nat], erased : BOOLEAN]

LEMMA InvInit == ImageInit => ImageInv
<1> SUFFICES ASSUME ImageInit PROVE ImageInv
  OBVIOUS
<1>1. PICK old \in {9, 255} :
        board = [flash |-> [a \in Code |-> old],
                 options |-> [a \in Options |-> 255], erased |-> old = 255]
  BY DEF ImageInit
<1>2. board \in Boards
  BY <1>1 DEF Boards
<1>3. BlankBefore
  BY <1>1 DEF BlankBefore
<1>4. Sources
  BY DEF Sources, ImageInit
<1>5. Len(image) <= SlotSize /\ image \in Seq(Nat)
  BY FirmwareImageAssumption DEF ImageInit
<1>6. ImageTypeOK
  BY <1>2, <1>5 DEF ImageTypeOK, ImageInit, Boards
<1>7. QED
  BY <1>3, <1>4, <1>6 DEF ImageInv

LEMMA InvSign == ImageInv /\ SignApp => ImageInv'
<1> SUFFICES ASSUME ImageInv, SignApp PROVE ImageInv'
  OBVIOUS
<1>1. PICK input \in Input, padHeader \in BOOLEAN, pad \in BOOLEAN, k \in Key,
           m \in SigLengths, n \in SigLengths :
        image' = SignImage(input, [padHeader |-> padHeader, pad |-> pad], k, m, n) /\ key' = k
  BY DEF SignApp
<1>2. /\ Sizes /\ input \in Bytes /\ HeaderSize <= Len(input) /\ k \in Nat
      /\ m \in Nat /\ n \in Nat /\ 4 <= m /\ 4 <= n /\ m <= SigLen /\ n <= SigLen
  <2>1. Len(input) >= HeaderSize /\ input \in Bytes /\ HeaderSize \in Nat
    BY FirmwareImageAssumption DEF Bytes
  <2>2. HeaderSize <= Len(input)
    BY <2>1 DEF Bytes
  <2>3. Sizes
    BY FirmwareImageAssumption DEF Sizes
  <2>4. m \in Nat /\ n \in Nat /\ 4 <= m /\ 4 <= n /\ m <= SigLen /\ n <= SigLen
    BY FirmwareImageAssumption
  <2>5. k \in Nat
    BY FirmwareImageAssumption
  <2>6. QED
    BY <2>1, <2>2, <2>3, <2>4, <2>5
<1> DEFINE o == [padHeader |-> padHeader, pad |-> pad]
<1> HIDE DEF o
<1>3. SignImage(input, o, k, m, n) # <<>> => SignImage(input, o, k, m, n) \in Bytes
  BY <1>2, ImageIsAccepted
<1>4. SignImage(input, o, k, m, n) # <<>> => Len(SignImage(input, o, k, m, n)) <= SlotSize
  BY Zenon DEF SignImage
<1>5. image' \in Seq(Nat) /\ Len(image') <= SlotSize
  <2>1. image' = SignImage(input, o, k, m, n)
    BY <1>1 DEF o
  <2>2. CASE image' = <<>>
    BY <2>2, FirmwareImageAssumption
  <2>3. CASE image' # <<>>
    BY <2>1, <2>3, <1>3, <1>4 DEF Bytes
  <2>4. QED
    BY <2>2, <2>3
<1>6. /\ key' \in Key /\ stage' \in {"failed", "combine"} /\ (stage' = "combine" => image' # <<>>)
      /\ UNCHANGED <<offset, boot, withkey, combined, certs, board>> /\ stage = "sign"
  BY <1>1 DEF SignApp
<1>7. ImageTypeOK'
  BY <1>5, <1>6 DEF ImageInv, ImageTypeOK
<1>8. Sources'
  BY <1>6 DEF Sources
<1>9. BlankBefore'
  BY <1>6 DEF ImageInv, BlankBefore
<1>10. QED
  BY <1>7, <1>8, <1>9 DEF ImageInv

LEMMA EmptyFile == <<>> \in Seq(Record) /\ "failed" # "certify"
OBVIOUS

LEMMA InvCombine == ImageInv /\ MakeCombined => ImageInv'
<1> SUFFICES ASSUME ImageInv, MakeCombined PROVE ImageInv'
  OBVIOUS
<1>1. PICK f \in Bootloader, inject \in BOOLEAN :
        boot' = f /\ withkey' = IF inject THEN InjectKey(f, KeyDer(key), KeyAddr) ELSE <<>>
  BY DEF MakeCombined
<1>2. f \in Seq(Record) /\ HasBase(f)
  BY FirmwareImageAssumption DEF HasBase
<1>3. PICK g : g = IF withkey' = <<>> THEN boot' ELSE withkey'
  OBVIOUS
<1>4. /\ stage = "combine" /\ UNCHANGED <<key, image, offset, certs, board>>
      /\ \/ combined' = Combine(g, image, offset) /\ stage' = "certify"
         \/ combined' = <<>> /\ stage' = "failed"
  BY <1>3 DEF MakeCombined
<1>5. image \in Seq(Nat) /\ image # <<>> /\ offset \in Nat /\ key \in Nat
  <2>1. image \in Seq(Nat) /\ image # <<>> /\ offset \in AppOffset /\ key \in Key \cup {TempKey}
    BY <1>4 DEF ImageInv, ImageTypeOK, Sources
  <2>2. QED
    BY <2>1, FirmwareImageAssumption DEF TempKey
<1>6. LET w == InjectKey(f, KeyDer(key), KeyAddr) IN w \in Seq(Record) /\ HasBase(w)
  <2>1. Keyed(f, key, InjectKey(f, KeyDer(key), KeyAddr))
    BY <1>2, <1>5, InjectKeyIs, Zenon
  <2>2. QED
    BY <2>1, <1>2, BaseKept DEF Keyed
<1>7. /\ boot' \in Seq(Record) /\ HasBase(boot') /\ withkey' \in Seq(Record)
      /\ (withkey' # <<>> => HasBase(withkey'))
  BY <1>1, <1>2, <1>6
<1>8. g \in Seq(Record) /\ HasBase(g)
  BY <1>3, <1>7
<1>9. Combine(g, image, offset) \in Seq(Record) /\ HasBase(Combine(g, image, offset))
  <2>1. Extended(g, [addr |-> offset, data |-> image], Combine(g, image, offset))
    BY <1>5, <1>8, CombineIs, Zenon
  <2>2. QED
    BY <2>1, <1>8, BaseKept DEF Extended
<1>10. combined' \in Seq(Record) /\ (stage' = "certify" => HasBase(combined'))
  BY <1>4, <1>9, EmptyFile
<1>11. ImageTypeOK'
  BY <1>4, <1>7, <1>10 DEF ImageInv, ImageTypeOK
<1>12. Sources'
  BY <1>4, <1>7, <1>10 DEF Sources, HasBase
<1>13. BlankBefore'
  BY <1>4 DEF ImageInv, BlankBefore
<1>14. QED
  BY <1>11, <1>12, <1>13 DEF ImageInv

LEMMA InvCertify == ImageInv /\ GenFsblCerts => ImageInv'
<1> SUFFICES ASSUME ImageInv, GenFsblCerts PROVE ImageInv'
  OBVIOUS
<1>1. PICK source \in IF withkey # <<>> THEN {withkey} ELSE {combined, boot}, m \in SigLengths, n \in SigLengths :
        LET read == ParseSrec(source)
            kc == Cert!KeyCertificate(Root, Bl, m)
            cc == Cert!CodeCertificate(Bl, CertifiedImage(read), Cert!Hash(Bl), n) IN
        certs' = [key |-> kc, code |-> cc]
  BY DEF GenFsblCerts
<1>2. stage = "certify" /\ stage' \in {"program", "failed"} /\ UNCHANGED <<key, image, offset, boot, withkey, combined, board>>
  BY DEF GenFsblCerts
<1>3. source \in Seq(Record) /\ HasBase(source)
  BY <1>2 DEF ImageInv, ImageTypeOK, Sources
<1>4. PICK read \in Seq(Nat) : read = ParseSrec(source)
  BY <1>3, ParseSrecIs DEF ReadFrom
<1>5. certs'.code.crc = CertifiedImage(read)
  BY <1>1, <1>4 DEF Cert!CodeCertificate
<1>6. certs'.code.crc \in Seq(Nat) /\ Len(certs'.code.crc) % CrcUnit = 0
  BY <1>5, CertifiedIs, Zenon
<1>7. ImageTypeOK'
  BY <1>2, <1>6 DEF ImageInv, ImageTypeOK
<1>8. Sources'
  BY <1>2 DEF Sources
<1>9. BlankBefore'
  BY <1>2 DEF ImageInv, BlankBefore
<1>10. QED
  BY <1>7, <1>8, <1>9 DEF ImageInv

LEMMA InvProgram == ImageInv /\ ProgramSrec => ImageInv'
<1> SUFFICES ASSUME ImageInv, ProgramSrec PROVE ImageInv'
  OBVIOUS
<1> DEFINE merged == Merge(CodeBlocks(combined))
           erased == EraseFlash(board.flash, EraseSpan(merged))
<1>1. /\ stage = "program" /\ UNCHANGED <<key, image, offset, boot, withkey, combined, certs>>
      /\ \/ board' = [board EXCEPT !.flash = Written(erased, merged)] /\ stage' = "options"
         \/ UNCHANGED board /\ stage' = "failed"
  BY DEF ProgramSrec
<1>2. board \in Boards /\ combined \in Seq(Record)
  BY DEF ImageInv, ImageTypeOK, Boards
<1>3. merged \in Seq(Block)
  BY <1>2, CodeBlocksAre, MergeIs
<1>4. erased \in [Code -> Nat]
  <2>1. board.flash \in [Code -> Nat]
    BY <1>2 DEF Boards
  <2> HIDE DEF merged
  <2>2. QED
    BY <2>1 DEF EraseFlash
<1> HIDE DEF merged, erased
<1>5. Written(erased, merged) \in [Code -> Nat]
  BY <1>3, <1>4, WrittenIs
<1>6. board' \in Boards
  BY <1>1, <1>2, <1>5 DEF Boards
<1>7. ImageTypeOK'
  BY <1>1, <1>6 DEF ImageInv, ImageTypeOK, Boards
<1>8. Sources'
  BY <1>1 DEF Sources
<1>9. BlankBefore'
  BY <1>1 DEF BlankBefore
<1>10. QED
  BY <1>7, <1>8, <1>9 DEF ImageInv

LEMMA OptionsTyped ==
  ASSUME NEW options \in [Options -> Nat], NEW records \in Seq(Record), WithinOptions(records)
  PROVE  OptionsWritten(options, records) \in [Options -> Nat]
<1>1. \A i \in 1..Len(records) : Span(records[i]) \subseteq Options
  BY DEF WithinOptions
<1>2. PICK f \in [0..Len(records) -> [Options -> Nat]] : OptionsWritten(options, records) = f[Len(records)]
  BY <1>1, OptionsLoop
<1>3. Len(records) \in 0..Len(records)
  <2>1. Len(records) \in Nat
    OBVIOUS
  <2>2. QED
    BY <2>1
<1>4. QED
  BY <1>2, <1>3

LEMMA InvOptions == ImageInv /\ ProgramOptions => ImageInv'
<1> SUFFICES ASSUME ImageInv, ProgramOptions PROVE ImageInv'
  OBVIOUS
<1>1. /\ stage = "options" /\ stage' = "done" /\ UNCHANGED <<key, image, offset, boot, withkey, combined, certs>>
      /\ board' = [board EXCEPT !.options = OptionsWritten(board.options, OptionRecords(combined))]
  BY DEF ProgramOptions
<1>2. board \in Boards /\ combined \in Seq(Record)
  BY DEF ImageInv, ImageTypeOK, Boards
<1>3. PICK records \in Seq(Record) : records = OptionRecords(combined) /\ WithinOptions(records)
  BY <1>2, OptionRecordsAre DEF WithinOptions
<1>4. board.options \in [Options -> Nat]
  BY <1>2 DEF Boards
<1>5. OptionsWritten(board.options, records) \in [Options -> Nat]
  BY <1>3, <1>4, OptionsTyped
<1>6. board' \in Boards
  BY <1>1, <1>2, <1>3, <1>5 DEF Boards
<1>7. ImageTypeOK'
  BY <1>1, <1>6 DEF ImageInv, ImageTypeOK, Boards
<1>8. Sources'
  BY <1>1 DEF Sources
<1>9. BlankBefore'
  BY <1>1 DEF BlankBefore
<1>10. QED
  BY <1>7, <1>8, <1>9 DEF ImageInv

LEMMA InvStep == ImageInv /\ [ImageNext]_ImageVars => ImageInv'
<1>1. CASE UNCHANGED ImageVars
  BY <1>1 DEF ImageVars, ImageInv, ImageTypeOK, Sources, BlankBefore, HasBase
<1>2. QED
  BY <1>1, InvSign, InvCombine, InvCertify, InvProgram, InvOptions DEF ImageNext

(* Every step leaves every variable in its type: whatever a bootloader     *)
(* looks like, what is read and merged of it are bytes, the image fits its *)
(* slot, and nothing is written outside the flash and the options.         *)
THEOREM ImageTypeCorrect == ImageSpec => []ImageTypeOK
<1>1. ImageInit => ImageInv
  BY InvInit
<1>2. ImageInv /\ [ImageNext]_ImageVars => ImageInv'
  BY InvStep
<1>3. ImageInv => ImageTypeOK
  BY DEF ImageInv
<1>4. QED
  BY <1>1, <1>2, <1>3, PTL DEF ImageSpec

LEMMA OptionsStep == ImageInv /\ OptionsAreFile /\ [ImageNext]_ImageVars => OptionsAreFile'
<1> SUFFICES ASSUME ImageInv, OptionsAreFile, [ImageNext]_ImageVars PROVE OptionsAreFile'
  OBVIOUS
<1>1. CASE SignApp \/ MakeCombined \/ GenFsblCerts \/ ProgramSrec
  <2>1. stage' # "done"
    BY <1>1 DEF SignApp, MakeCombined, GenFsblCerts, ProgramSrec
  <2>2. QED
    BY <2>1 DEF OptionsAreFile
<1>2. CASE ProgramOptions
  <2>1. /\ combined' = combined
        /\ board' = [board EXCEPT !.options = OptionsWritten(board.options, OptionRecords(combined))]
    BY <1>2 DEF ProgramOptions
  <2>2. combined \in Seq(Record) /\ board \in Boards
    BY DEF ImageInv, ImageTypeOK, Boards
  <2>3. board.options \in [Options -> Nat] /\ board'.options = OptionsWritten(board.options, OptionRecords(combined))
    BY <2>1, <2>2 DEF Boards
  <2>4. ASSUME Disjoint(combined), NEW a \in Covered(combined) \cap Options
        PROVE  board'.options[a] = ByteAt(combined, a)
    BY <2>2, <2>3, <2>4, OptionsAre
  <2>5. QED
    BY <2>1, <2>4 DEF OptionsAreFile
<1>3. CASE UNCHANGED ImageVars
  BY <1>3 DEF ImageVars, OptionsAreFile
<1>4. QED
  BY <1>1, <1>2, <1>3 DEF ImageNext

(* After a success the option-setting memory has every byte the combined   *)
(* file has for it, wherever the borders of its records lie, although each *)
(* one is padded over what follows: they are written in the order of their *)
(* addresses.                                                              *)
THEOREM OptionsAreFileHolds == ImageSpec => []OptionsAreFile
<1>1. ImageInit => ImageInv /\ OptionsAreFile
  BY InvInit DEF ImageInit, OptionsAreFile
<1>2. ImageInv /\ OptionsAreFile /\ [ImageNext]_ImageVars => (ImageInv /\ OptionsAreFile)'
  BY InvStep, OptionsStep
<1>3. QED
  BY <1>1, <1>2, PTL DEF ImageSpec

-----------------------------------------------------------------------------
(* The code flash.  Merged says of the blocks merged so far that each has  *)
(* the bytes of the file or erased ones, that none is lost, and that a     *)
(* whole phrase lies between two.                                          *)
LEMMA OrderlyApart ==
  ASSUME NEW blocks \in Seq(Record), Orderly(blocks)
  PROVE  \A i, j \in 1..Len(blocks) : i < j => Ends(blocks[i]) <= blocks[j].addr
<1>1. PICK n \in Nat : n = Len(blocks)
  OBVIOUS
<1>2. \A i \in 1..n : blocks[i].addr \in Nat /\ Ends(blocks[i]) \in Nat /\ blocks[i].addr < Ends(blocks[i])
  <2>1. \A i \in 1..n : blocks[i] \in Record
    BY <1>1
  <2>2. QED
    BY <2>1, RecordIs
<1>3. \A i \in 2..n : Ends(blocks[i - 1]) <= blocks[i].addr
  BY <1>1 DEF Orderly
<1> DEFINE S == {j \in 0..n : \A i \in 1..n : i < j => Ends(blocks[i]) <= blocks[j].addr}
<1>4. 0 \in S
  OBVIOUS
<1>5. ASSUME NEW j \in 1..n, j - 1 \in S
      PROVE  j \in S
  <2> SUFFICES ASSUME NEW i \in 1..n, i < j PROVE Ends(blocks[i]) <= blocks[j].addr
    OBVIOUS
  <2>1. j \in 2..n /\ j - 1 \in 1..n
    OBVIOUS
  <2>2. Ends(blocks[j - 1]) <= blocks[j].addr
    BY <2>1, <1>3
  <2>3. CASE i = j - 1
    BY <2>2, <2>3
  <2>4. CASE i # j - 1
    <3>1. Ends(blocks[i]) <= blocks[j - 1].addr
      BY <2>4, <1>5
    <3>2. blocks[j - 1].addr < Ends(blocks[j - 1])
      BY <2>1, <1>2
    <3>3. Ends(blocks[i]) \in Nat /\ blocks[j - 1].addr \in Nat /\ Ends(blocks[j - 1]) \in Nat /\ blocks[j].addr \in Nat
      BY <2>1, <1>2
    <3>4. QED
      BY <3>1, <3>2, <3>3, <2>2
  <2>5. QED
    BY <2>3, <2>4
<1> HIDE DEF S
<1>6. 0..n \subseteq S
  BY <1>4, <1>5, UpTo
<1>7. ASSUME NEW i \in 1..n, NEW j \in 1..n, i < j
      PROVE  Ends(blocks[i]) <= blocks[j].addr
  <2>1. j \in S
    BY <1>6
  <2>2. QED
    BY <2>1, <1>7 DEF S
<1>8. QED
  BY <1>1, <1>7

LEMMA OrderlyDisjoint ==
  ASSUME NEW blocks \in Seq(Record), Orderly(blocks)
  PROVE  Disjoint(blocks)
<1>1. PICK n \in Nat : n = Len(blocks) /\ DOMAIN blocks = 1..n
  OBVIOUS
<1>2. \A i, j \in 1..n : i < j => Ends(blocks[i]) <= blocks[j].addr
  BY <1>1, OrderlyApart
<1>3. ASSUME NEW i \in 1..n, NEW j \in 1..n, i < j
      PROVE  Span(blocks[i]) \cap Span(blocks[j]) = {}
  <2>1. blocks[i] \in Record /\ blocks[j] \in Record
    BY <1>1
  <2>2. PICK p \in Nat, q \in Nat : q = Ends(blocks[i]) /\ Span(blocks[i]) = p..q - 1
    BY <2>1, RecordIs
  <2>3. PICK r \in Nat, t \in Nat : r = blocks[j].addr /\ Span(blocks[j]) = r..t - 1
    BY <2>1, RecordIs
  <2>4. q <= r
    BY <2>2, <2>3, <1>2, <1>3
  <2>5. p..q - 1 \cap r..t - 1 = {}
    BY <2>4
  <2>6. QED
    BY <2>2, <2>3, <2>5
<1>4. \A i, j \in 1..n : i # j => i < j \/ j < i
  OBVIOUS
<1>5. ASSUME NEW i \in 1..n, NEW j \in 1..n, i # j
      PROVE  Span(blocks[i]) \cap Span(blocks[j]) = {}
  BY <1>3, <1>4, <1>5
<1>6. QED
  BY <1>1, <1>5 DEF Disjoint

Whole(blocks, a) == IF a \in Covered(blocks) THEN ByteAt(blocks, a) ELSE 255

LEMMA WholeIs ==
  ASSUME NEW blocks \in Seq(Record), Orderly(blocks)
  PROVE  /\ \A i \in 1..Len(blocks) : \A a \in Span(blocks[i]) : Whole(blocks, a) = ByteOf(blocks[i], a)
         /\ \A i \in 1..Len(blocks) - 1 :
              \A a \in Ends(blocks[i])..blocks[i + 1].addr - 1 : Whole(blocks, a) = 255
<1>1. PICK n \in Nat : n = Len(blocks) /\ DOMAIN blocks = 1..n
  OBVIOUS
<1>2. ASSUME NEW i \in 1..n, NEW a \in Span(blocks[i])
      PROVE  Whole(blocks, a) = ByteOf(blocks[i], a)
  <2>1. a \in Covered(blocks)
    BY <1>1 DEF Covered
  <2>2. ByteAt(blocks, a) = ByteOf(blocks[i], a)
    BY <1>1, OrderlyDisjoint, ByteAtDisjoint
  <2>3. QED
    BY <2>1, <2>2 DEF Whole
<1>3. ASSUME NEW i \in 1..n - 1, NEW a \in Ends(blocks[i])..blocks[i + 1].addr - 1
      PROVE  Whole(blocks, a) = 255
  <2> SUFFICES ASSUME a \in Covered(blocks) PROVE FALSE
    BY DEF Whole
  <2>1. PICK j \in 1..n : a \in Span(blocks[j])
    BY <1>1 DEF Covered
  <2>2. i \in 1..n /\ i + 1 \in 1..n
    OBVIOUS
  <2>3. \A k \in 1..n : blocks[k] \in Record
    BY <1>1
  <2>4. PICK r \in Nat, t \in Nat : r = blocks[j].addr /\ t = Ends(blocks[j]) /\ Span(blocks[j]) = r..t - 1
    BY <2>3, RecordIs
  <2>5. PICK q \in Nat, s \in Nat : q = Ends(blocks[i]) /\ s = blocks[i + 1].addr
    BY <2>2, <2>3, RecordIs
  <2>6. r <= a /\ a < t /\ q <= a /\ a < s
    BY <2>1, <2>4, <2>5
  <2>7. blocks[i].addr < q /\ s < Ends(blocks[i + 1]) /\ blocks[i].addr \in Nat /\ Ends(blocks[i + 1]) \in Nat
    BY <2>2, <2>3, <2>5, RecordIs
  <2>8. CASE j <= i
    <3>1. t <= q
      <4>1. CASE j = i
        BY <4>1, <2>4, <2>5
      <4>2. CASE j # i
        <5>1. j < i
          BY <4>2, <2>8
        <5>2. Ends(blocks[j]) <= blocks[i].addr
          BY <5>1, <2>2, <1>1, OrderlyApart
        <5>3. QED
          BY <5>2, <2>4, <2>7
      <4>3. QED
        BY <4>1, <4>2
    <3>2. QED
      BY <3>1, <2>6
  <2>9. CASE ~ (j <= i)
    <3>1. s <= r
      <4>1. CASE j = i + 1
        BY <4>1, <2>4, <2>5
      <4>2. CASE j # i + 1
        <5>1. i + 1 < j
          BY <4>2, <2>9
        <5>2. Ends(blocks[i + 1]) <= blocks[j].addr
          BY <5>1, <2>2, <1>1, OrderlyApart
        <5>3. QED
          BY <5>2, <2>4, <2>7
      <4>3. QED
        BY <4>1, <4>2
    <3>2. QED
      BY <3>1, <2>6
  <2>10. QED
    BY <2>8, <2>9
<1>4. QED
  BY <1>1, <1>2, <1>3

(* Two blocks with erased bytes between them                               *)
Joining(cur, b) == [cur EXCEPT !.data = @ \o Erased(b.addr - Ends(cur)) \o b.data]

Both(cur, b, x) ==
  /\ x \in Record /\ x.addr = cur.addr /\ Ends(x) = Ends(b)
  /\ \A a \in Span(x) :
       \/ a \in Span(cur) /\ ByteOf(x, a) = ByteOf(cur, a)
       \/ a \in Span(b) /\ ByteOf(x, a) = ByteOf(b, a)
       \/ a \in Ends(cur)..b.addr - 1 /\ ByteOf(x, a) = 255

LEMMA JoiningIs ==
  ASSUME NEW cur \in Record, NEW b \in Record, Ends(cur) <= b.addr
  PROVE  Both(cur, b, Joining(cur, b))
<1>1. PICK p \in Nat, c \in Seq(Nat), m \in Nat, e \in Nat :
        /\ p = cur.addr /\ c = cur.data /\ m = Len(c) /\ m # 0 /\ e = Ends(cur) /\ e = p + m
        /\ Span(cur) = p..e - 1
  BY RecordIs
<1>2. PICK q \in Nat, d \in Seq(Nat), n \in Nat, f \in Nat :
        /\ q = b.addr /\ d = b.data /\ n = Len(d) /\ n # 0 /\ f = Ends(b) /\ f = q + n
        /\ Span(b) = q..f - 1
  BY RecordIs
<1>3. e <= q
  BY <1>1, <1>2
<1>4. PICK k \in Nat : k = q - e
  BY <1>3
<1>5. PICK g \in Seq(Nat) : g = Erased(k) /\ Len(g) = k /\ \A i \in 1..k : g[i] = 255
  BY ErasedIs
<1>6. PICK u \in Seq(Nat) : /\ u = c \o g /\ Len(u) = m + k
                            /\ \A i \in 1..m : u[i] = c[i]
                            /\ \A i \in 1..k : u[m + i] = g[i]
  <2>1. /\ c \o g \in Seq(Nat) /\ Len(c \o g) = Len(c) + Len(g)
        /\ \A i \in 1..Len(c) : (c \o g)[i] = c[i]
        /\ \A i \in 1..Len(g) : (c \o g)[Len(c) + i] = g[i]
    BY Joined
  <2>2. Len(c) = m /\ Len(g) = k
    BY <1>1, <1>5
  <2>3. QED
    BY <2>1, <2>2
<1>7. PICK w \in Seq(Nat) : /\ w = u \o d /\ Len(w) = m + k + n
                            /\ \A i \in 1..m + k : w[i] = u[i]
                            /\ \A i \in 1..n : w[m + k + i] = d[i]
  <2>1. /\ u \o d \in Seq(Nat) /\ Len(u \o d) = Len(u) + Len(d)
        /\ \A i \in 1..Len(u) : (u \o d)[i] = u[i]
        /\ \A i \in 1..Len(d) : (u \o d)[Len(u) + i] = d[i]
    BY Joined
  <2>2. Len(u) = m + k /\ Len(d) = n
    BY <1>2, <1>6
  <2>3. QED
    BY <2>1, <2>2
<1>8. PICK x : x = [addr |-> p, data |-> w] /\ x.addr = p /\ x.data = w
  <2>1. [addr |-> p, data |-> w].addr = p /\ [addr |-> p, data |-> w].data = w
    OBVIOUS
  <2>2. QED
    BY <2>1, Zenon
<1>9. Joining(cur, b) = x
  <2>1. cur = [addr |-> p, data |-> c]
    BY <1>1 DEF Record
  <2>2. Joining(cur, b) = [cur EXCEPT !.data = w]
    BY <1>1, <1>2, <1>4, <1>5, <1>6, <1>7 DEF Joining
  <2>3. QED
    BY <2>1, <2>2, <1>8
<1>10. x \in Record
  <2>1. w # <<>>
    <3>1. m + k + n # 0
      BY <1>1
    <3>2. QED
      BY <3>1, <1>7
  <2>2. QED
    BY <2>1, <1>8 DEF Record
<1>a. p + m = e /\ e + k = q /\ q + n = f
  <2>1. e = p + m
    BY <1>1
  <2>2. f = q + n
    BY <1>2
  <2>3. e + k = q
    BY <1>4
  <2>4. QED
    BY <2>1, <2>2, <2>3
<1>11. p + (m + k + n) = f
  BY <1>a
<1>12. Ends(x) = f /\ Span(x) = p..f - 1
  <2>1. Len(x.data) = m + k + n
    BY <1>7, <1>8
  <2>2. Ends(x) = f
    BY <2>1, <1>8, <1>11 DEF Ends
  <2>3. QED
    BY <2>2, <1>8 DEF Span
<1>13. ASSUME NEW a \in Span(x)
       PROVE  \/ a \in Span(cur) /\ ByteOf(x, a) = ByteOf(cur, a)
              \/ a \in Span(b) /\ ByteOf(x, a) = ByteOf(b, a)
              \/ a \in Ends(cur)..b.addr - 1 /\ ByteOf(x, a) = 255
  <2>1. a \in p..f - 1
    BY <1>12
  <2>2. PICK i \in 1..m + k + n : i = a - p + 1
    <3>1. a - p + 1 \in 1..m + k + n
      BY <2>1, <1>11
    <3>2. QED
      BY <3>1
  <2>3. ByteOf(x, a) = w[i]
    BY <2>2, <1>8 DEF ByteOf
  <2>4. CASE i <= m
    <3>1. i \in 1..m /\ i \in 1..m + k
      BY <2>4
    <3>2. w[i] = c[i]
      BY <3>1, <1>6, <1>7
    <3>3. ByteOf(cur, a) = c[i]
      BY <2>2, <1>1 DEF ByteOf
    <3>4. a \in p..e - 1
      BY <2>1, <2>2, <2>4, <1>a
    <3>5. QED
      BY <3>2, <3>3, <3>4, <2>3, <1>1
  <2>5. CASE m < i /\ i <= m + k
    <3>1. i \in 1..m + k /\ i - m \in 1..k /\ m + (i - m) = i
      BY <2>5
    <3>2. w[i] = u[i] /\ u[m + (i - m)] = g[i - m] /\ g[i - m] = 255
      BY <3>1, <1>5, <1>6, <1>7
    <3>3. a \in e..q - 1
      BY <2>1, <2>2, <2>5, <1>a
    <3>4. w[i] = 255
      BY <3>1, <3>2
    <3>5. QED
      BY <3>3, <3>4, <2>3, <1>1, <1>2
  <2>6. CASE m + k < i
    <3>1. i - (m + k) \in 1..n /\ m + k + (i - (m + k)) = i
      BY <2>6
    <3>2. w[m + k + (i - (m + k))] = d[i - (m + k)]
      BY <3>1, <1>7
    <3>3. a - q + 1 = i - (m + k)
      <4>1. q = p + (m + k)
        BY <1>a
      <4>2. QED
        BY <4>1, <2>1, <2>2
    <3>4. ByteOf(b, a) = d[i - (m + k)]
      BY <3>3, <1>2 DEF ByteOf
    <3>5. a \in q..f - 1
      BY <2>1, <2>2, <2>6, <1>a
    <3>6. QED
      BY <3>1, <3>2, <3>4, <3>5, <2>3, <1>2
  <2>7. QED
    BY <2>4, <2>5, <2>6
<1>14. Both(cur, b, x)
  <2>1. x \in Record /\ x.addr = cur.addr /\ Ends(x) = Ends(b)
    BY <1>1, <1>2, <1>8, <1>10, <1>12
  <2>2. QED
    BY <2>1, <1>13, Zenon DEF Both
<1>15. QED
  BY <1>9, <1>14, Zenon

Merged(blocks, i, m) ==
  /\ m \in Seq(Record) /\ m # <<>>
  /\ m[1].addr = blocks[1].addr /\ Ends(m[Len(m)]) = Ends(blocks[i])
  /\ \A k \in 1..Len(m) - 1 : HasFullPhrase(Ends(m[k]), m[k + 1].addr - 1)
  /\ \A k \in 1..Len(m) : \A a \in Span(m[k]) : ByteOf(m[k], a) = Whole(blocks, a)
  /\ \A j \in 1..i : \A a \in Span(blocks[j]) : \E k \in 1..Len(m) : a \in Span(m[k])

LEMMA MergedFirst ==
  ASSUME NEW blocks \in Seq(Record), Orderly(blocks), blocks # <<>>
  PROVE  Merged(blocks, 1, MergeNext(<<>>, blocks[1]))
<1>1. PICK n \in Nat \ {0} : n = Len(blocks) /\ 1 \in 1..n
  OBVIOUS
<1>2. PICK b \in Record : b = blocks[1]
  BY <1>1
<1>3. PICK m \in Seq(Record) : m = <<b>> /\ Len(m) = 1 /\ m[1] = b /\ m # <<>>
  <2>1. <<b>> \in Seq(Record) /\ Len(<<b>>) = 1 /\ <<b>>[1] = b /\ <<b>> # <<>>
    OBVIOUS
  <2>2. QED
    BY <2>1
<1>4. MergeNext(<<>>, blocks[1]) = m
  BY <1>2, <1>3 DEF MergeNext
<1>5. \A a \in Span(b) : ByteOf(b, a) = Whole(blocks, a)
  BY <1>1, <1>2, WholeIs
<1>6. \A k \in 1..1 : k = 1
  OBVIOUS
<1>7. \A k \in 1..0 : FALSE
  OBVIOUS
<1>8. \A k \in 1..Len(m) : \A a \in Span(m[k]) : ByteOf(m[k], a) = Whole(blocks, a)
  BY <1>3, <1>5, <1>6
<1>9. \A j \in 1..1 : \A a \in Span(blocks[j]) : \E k \in 1..Len(m) : a \in Span(m[k])
  BY <1>2, <1>3, <1>6
<1>10. \A k \in 1..Len(m) - 1 : HasFullPhrase(Ends(m[k]), m[k + 1].addr - 1)
  BY <1>3, <1>7
<1>11. Merged(blocks, 1, m)
  BY <1>2, <1>3, <1>8, <1>9, <1>10 DEF Merged
<1>12. QED
  BY <1>4, <1>11

LEMMA MergedNext ==
  ASSUME NEW blocks \in Seq(Record), Orderly(blocks), NEW i \in 1..Len(blocks) - 1,
         NEW m, Merged(blocks, i, m)
  PROVE  Merged(blocks, i + 1, MergeNext(m, blocks[i + 1]))
<1>1. PICK n \in Nat : n = Len(blocks) /\ i \in 1..n - 1 /\ i \in 1..n /\ i + 1 \in 1..n
  OBVIOUS
<1>2. PICK b \in Record : b = blocks[i + 1]
  BY <1>1
<1>3. m \in Seq(Record) /\ m # <<>>
  BY DEF Merged
<1>4. PICK l \in Nat \ {0} : l = Len(m) /\ l \in 1..l
  BY <1>3
<1>5. PICK cur \in Record : cur = m[l] /\ cur = Last(m)
  BY <1>3, <1>4, LastIs
<1>6. /\ m[1].addr = blocks[1].addr /\ Ends(cur) = Ends(blocks[i])
      /\ \A k \in 1..l - 1 : HasFullPhrase(Ends(m[k]), m[k + 1].addr - 1)
      /\ \A k \in 1..l : \A a \in Span(m[k]) : ByteOf(m[k], a) = Whole(blocks, a)
      /\ \A j \in 1..i : \A a \in Span(blocks[j]) : \E k \in 1..l : a \in Span(m[k])
  BY <1>4, <1>5 DEF Merged
<1>7. Ends(cur) <= b.addr /\ Ends(cur) \in Nat /\ b.addr \in Nat
  <2>1. i + 1 \in 2..n /\ (i + 1) - 1 = i
    BY <1>1
  <2>2. Ends(blocks[i]) <= blocks[i + 1].addr
    BY <2>1, <1>1 DEF Orderly
  <2>3. QED
    BY <2>2, <1>2, <1>6, RecordIs
<1>8. cur.data # <<>> /\ ~ (b.addr < Ends(cur))
  BY <1>7 DEF Record
<1>9. /\ \A a \in Span(b) : ByteOf(b, a) = Whole(blocks, a)
      /\ \A a \in Ends(cur)..b.addr - 1 : Whole(blocks, a) = 255
  BY <1>1, <1>2, <1>6, WholeIs
<1>10. \A j \in 1..i + 1 : j \in 1..i \/ j = i + 1
  BY <1>1
<1>11. CASE HasFullPhrase(Ends(cur), b.addr - 1)
  <2>1. MergeNext(m, blocks[i + 1]) = Append(m, b)
    BY <1>2, <1>3, <1>5, <1>8, <1>11 DEF MergeNext
  <2>2. PICK t \in Seq(Record) : /\ t = Append(m, b) /\ Len(t) = l + 1 /\ t[l + 1] = b
                                 /\ \A k \in 1..l : t[k] = m[k]
    <3>1. PICK t \in Seq(Record) : /\ t = Append(m, b) /\ Len(t) = Len(m) + 1 /\ t[Len(m) + 1] = b
                                   /\ \A k \in 1..Len(m) : t[k] = m[k]
      <4>1. /\ Append(m, b) \in Seq(Record) /\ Len(Append(m, b)) = Len(m) + 1 /\ Append(m, b)[Len(m) + 1] = b
            /\ \A k \in 1..Len(m) : Append(m, b)[k] = m[k]
        BY <1>3, Appended
      <4>2. QED
        BY <4>1
    <3>2. QED
      BY <3>1, <1>4
  <2>3. t # <<>> /\ t[1].addr = blocks[1].addr /\ Ends(t[Len(t)]) = Ends(blocks[i + 1])
    <3>1. 1 \in 1..l /\ l + 1 # 0
      BY <1>4
    <3>2. QED
      BY <3>1, <2>2, <1>2, <1>6
  <2>4. ASSUME NEW k \in 1..l
        PROVE  HasFullPhrase(Ends(t[k]), t[k + 1].addr - 1)
    <3>1. CASE k = l
      BY <3>1, <2>2, <1>5, <1>11
    <3>2. CASE k # l
      <4>1. k \in 1..l - 1 /\ k + 1 \in 1..l
        BY <3>2
      <4>2. QED
        BY <4>1, <2>2, <1>6
    <3>3. QED
      BY <3>1, <3>2
  <2>5. ASSUME NEW k \in 1..l + 1, NEW a \in Span(t[k])
        PROVE  ByteOf(t[k], a) = Whole(blocks, a)
    <3>1. CASE k = l + 1
      BY <3>1, <2>2, <1>9
    <3>2. CASE k # l + 1
      <4>1. k \in 1..l
        BY <3>2
      <4>2. QED
        BY <4>1, <2>2, <1>6
    <3>3. QED
      BY <3>1, <3>2
  <2>6. ASSUME NEW j \in 1..i + 1, NEW a \in Span(blocks[j])
        PROVE  \E k \in 1..l + 1 : a \in Span(t[k])
    <3>1. CASE j \in 1..i
      <4>1. PICK k \in 1..l : a \in Span(m[k])
        BY <3>1, <1>6
      <4>2. k \in 1..l + 1 /\ t[k] = m[k]
        BY <2>2
      <4>3. QED
        BY <4>1, <4>2
    <3>2. CASE j = i + 1
      <4>1. l + 1 \in 1..l + 1 /\ a \in Span(t[l + 1])
        BY <3>2, <2>2, <1>2
      <4>2. QED
        BY <4>1
    <3>3. QED
      BY <3>1, <3>2, <1>10
  <2>7. Len(t) = l + 1 /\ Len(t) - 1 = l
    BY <2>2
  <2>a. \A k \in 1..Len(t) - 1 : HasFullPhrase(Ends(t[k]), t[k + 1].addr - 1)
    BY <2>4, <2>7
  <2>b. \A k \in 1..Len(t) : \A a \in Span(t[k]) : ByteOf(t[k], a) = Whole(blocks, a)
    BY <2>5, <2>7
  <2>c. \A j \in 1..i + 1 : \A a \in Span(blocks[j]) : \E k \in 1..Len(t) : a \in Span(t[k])
    BY <2>6, <2>7
  <2>8. Merged(blocks, i + 1, t)
    BY <2>3, <2>a, <2>b, <2>c, Zenon DEF Merged
  <2>9. QED
    BY <2>1, <2>2, <2>8
<1>12. CASE ~ HasFullPhrase(Ends(cur), b.addr - 1)
  <2>1. PICK x \in Record : x = Joining(cur, b) /\ Both(cur, b, x)
    BY <1>7, JoiningIs DEF Both
  <2>2. PICK front \in Seq(Record) : /\ front = Front(m) /\ Len(front) = l - 1
                                     /\ \A k \in 1..l - 1 : front[k] = m[k]
    BY <1>3, <1>4, LastIs
  <2>3. MergeNext(m, blocks[i + 1]) = Append(front, x)
    BY <2>1, <2>2, <1>2, <1>3, <1>5, <1>8, <1>12 DEF MergeNext, Joining
  <2>4. PICK t \in Seq(Record) : /\ t = Append(front, x) /\ Len(t) = l /\ t[l] = x
                                 /\ \A k \in 1..l - 1 : t[k] = m[k]
    <3>1. /\ Append(front, x) \in Seq(Record) /\ Len(Append(front, x)) = Len(front) + 1
          /\ Append(front, x)[Len(front) + 1] = x
          /\ \A k \in 1..Len(front) : Append(front, x)[k] = front[k]
      BY Appended
    <3>2. PICK t \in Seq(Record) : /\ t = Append(front, x) /\ Len(t) = Len(front) + 1 /\ t[Len(front) + 1] = x
                                   /\ \A k \in 1..Len(front) : t[k] = front[k]
      BY <3>1
    <3>3. Len(front) = l - 1 /\ Len(front) + 1 = l
      BY <2>2
    <3>4. Len(t) = l /\ t[l] = x /\ \A k \in 1..l - 1 : t[k] = front[k]
      BY <3>2, <3>3
    <3>5. \A k \in 1..l - 1 : t[k] = m[k]
      <4> SUFFICES ASSUME NEW k \in 1..l - 1 PROVE t[k] = m[k]
        OBVIOUS
      <4>1. t[k] = front[k] /\ front[k] = m[k]
        BY <3>4, <2>2
      <4>2. QED
        BY <4>1
    <3>6. t \in Seq(Record) /\ t = Append(front, x) /\ Len(t) = l /\ t[l] = x
      BY <3>2, <3>4
    <3>7. QED
      BY <3>5, <3>6, Zenon
  <2>5. x.addr = cur.addr /\ Ends(x) = Ends(b)
    BY <2>1 DEF Both
  <2>6. t # <<>> /\ t[1].addr = blocks[1].addr /\ Ends(t[Len(t)]) = Ends(blocks[i + 1])
    <3>1. Ends(t[l]) = Ends(blocks[i + 1])
      BY <2>4, <2>5, <1>2
    <3>2. CASE l = 1
      BY <3>1, <3>2, <2>4, <2>5, <1>5, <1>6
    <3>3. CASE l # 1
      <4>1. 1 \in 1..l - 1
        BY <3>3
      <4>2. QED
        BY <4>1, <3>1, <2>4, <1>6
    <3>4. QED
      BY <3>2, <3>3
  <2>7. ASSUME NEW k \in 1..l - 1
        PROVE  HasFullPhrase(Ends(t[k]), t[k + 1].addr - 1)
    <3>1. HasFullPhrase(Ends(m[k]), m[k + 1].addr - 1)
      BY <1>6
    <3>2. t[k] = m[k]
      BY <2>4
    <3>3. t[k + 1].addr = m[k + 1].addr
      <4>1. CASE k + 1 = l
        BY <4>1, <2>4, <2>5, <1>5
      <4>2. CASE k + 1 # l
        <5>1. k + 1 \in 1..l - 1
          BY <4>2
        <5>2. QED
          BY <5>1, <2>4
      <4>3. QED
        BY <4>1, <4>2
    <3>4. QED
      BY <3>1, <3>2, <3>3
  <2>8. ASSUME NEW k \in 1..l, NEW a \in Span(t[k])
        PROVE  ByteOf(t[k], a) = Whole(blocks, a)
    <3>1. CASE k = l
      <4>1. \A c \in Span(cur) : ByteOf(cur, c) = Whole(blocks, c)
        BY <1>4, <1>5, <1>6
      <4>2. a \in Span(x) /\ t[k] = x
        BY <3>1, <2>4
      <4>3. \/ a \in Span(cur) /\ ByteOf(x, a) = ByteOf(cur, a)
            \/ a \in Span(b) /\ ByteOf(x, a) = ByteOf(b, a)
            \/ a \in Ends(cur)..b.addr - 1 /\ ByteOf(x, a) = 255
        BY <4>2, <2>1 DEF Both
      <4>4. QED
        BY <4>1, <4>2, <4>3, <1>9
    <3>2. CASE k # l
      <4>1. k \in 1..l - 1
        BY <3>2
      <4>2. QED
        BY <4>1, <2>4, <1>6
    <3>3. QED
      BY <3>1, <3>2
  <2>9. Span(cur) \subseteq Span(x) /\ Span(b) \subseteq Span(x)
    <3>1. PICK p \in Nat, e \in Nat : p = cur.addr /\ e = Ends(cur) /\ Span(cur) = p..e - 1 /\ p < e
      BY RecordIs
    <3>2. PICK q \in Nat, f \in Nat : q = b.addr /\ f = Ends(b) /\ Span(b) = q..f - 1 /\ q < f
      BY RecordIs
    <3>3. Span(x) = p..f - 1
      BY <3>1, <3>2, <2>5, RecordIs
    <3>4. e <= q
      BY <3>1, <3>2, <1>7
    <3>5. p..e - 1 \subseteq p..f - 1 /\ q..f - 1 \subseteq p..f - 1
      BY <3>1, <3>2, <3>4
    <3>6. QED
      BY <3>1, <3>2, <3>3, <3>5
  <2>10. ASSUME NEW j \in 1..i + 1, NEW a \in Span(blocks[j])
         PROVE  \E k \in 1..l : a \in Span(t[k])
    <3>1. CASE j \in 1..i
      <4>1. PICK k \in 1..l : a \in Span(m[k])
        BY <3>1, <1>6
      <4>2. CASE k = l
        BY <4>1, <4>2, <2>4, <2>9, <1>4, <1>5
      <4>3. CASE k # l
        <5>1. k \in 1..l - 1
          BY <4>3
        <5>2. QED
          BY <5>1, <4>1, <2>4
      <4>4. QED
        BY <4>2, <4>3
    <3>2. CASE j = i + 1
      BY <3>2, <2>4, <2>9, <1>2, <1>4
    <3>3. QED
      BY <3>1, <3>2, <1>10
  <2>11. Merged(blocks, i + 1, t)
    BY <2>4, <2>6, <2>7, <2>8, <2>10 DEF Merged
  <2>12. QED
    BY <2>3, <2>4, <2>11
<1>13. QED
  BY <1>11, <1>12

LEMMA MergedAll ==
  ASSUME NEW blocks \in Seq(Record), Orderly(blocks), blocks # <<>>
  PROVE  Merged(blocks, Len(blocks), Merge(blocks))
<1>1. PICK n \in Nat \ {0} : n = Len(blocks)
  OBVIOUS
<1>2. PICK f \in [0..n -> Seq(Block)] :
        /\ f[0] = <<>> /\ \A i \in 1..n : f[i] = MergeNext(f[i - 1], blocks[i])
        /\ Merge(blocks) = f[n]
  <2>1. \E f \in [0..Len(blocks) -> Seq(Block)] :
          /\ f[0] = <<>> /\ \A i \in 1..Len(blocks) : f[i] = MergeNext(f[i - 1], blocks[i])
          /\ Merge(blocks) = f[Len(blocks)]
    BY MergeLoop
  <2>2. QED
    BY <2>1, <1>1, Zenon
<1> DEFINE S == {i \in 0..n : i # 0 => Merged(blocks, i, f[i])}
<1>3. 0 \in S
  OBVIOUS
<1>4. ASSUME NEW i \in 1..n, i - 1 \in S
      PROVE  i \in S
  <2>1. CASE i = 1
    <3>1. f[1] = MergeNext(<<>>, blocks[1])
      <4>1. f[1] = MergeNext(f[1 - 1], blocks[1]) /\ 1 - 1 = 0
        BY <1>1, <1>2
      <4>2. QED
        BY <4>1, <1>2
    <3>2. Merged(blocks, 1, f[1])
      BY <3>1, MergedFirst
    <3>3. QED
      BY <2>1, <3>2
  <2>2. CASE i # 1
    <3>1. i - 1 \in 1..n - 1 /\ (i - 1) + 1 = i /\ i - 1 # 0
      BY <2>2
    <3>2. Merged(blocks, i - 1, f[i - 1])
      BY <3>1, <1>4
    <3>3. Merged(blocks, (i - 1) + 1, MergeNext(f[i - 1], blocks[(i - 1) + 1]))
      BY <3>1, <3>2, <1>1, MergedNext
    <3>4. Merged(blocks, i, f[i])
      BY <3>1, <3>3, <1>2
    <3>5. QED
      BY <3>4
  <2>3. QED
    BY <2>1, <2>2
<1> HIDE DEF S
<1>5. 0..n \subseteq S
  BY <1>3, <1>4, UpTo
<1>6. n \in S
  BY <1>5
<1>7. QED
  BY <1>1, <1>2, <1>6 DEF S

(* Blocks with a whole phrase between them are written into phrases of     *)
(* their own.                                                              *)
Separate(m) == \A k \in 1..Len(m) - 1 : HasFullPhrase(Ends(m[k]), m[k + 1].addr - 1)

Hull(b) == Span(Phrases(b))

HullOf(b, s, e) ==
  /\ s = Phrases(b).addr /\ e = Ends(Phrases(b)) /\ Hull(b) = s..e - 1
  /\ s % Phrase = 0 /\ e % Phrase = 0
  /\ s <= b.addr /\ b.addr < s + Phrase /\ Ends(b) <= e /\ e < Ends(b) + Phrase
  /\ e = AlignUp(Ends(b), Phrase) /\ Span(b) \subseteq Hull(b)
  /\ \A a \in Hull(b) : ByteOf(Phrases(b), a) = IF a \in Span(b) THEN ByteOf(b, a) ELSE 255

LEMMA HullIs ==
  ASSUME NEW b \in Record
  PROVE  \E s \in Nat, e \in Nat : HullOf(b, s, e)
<1>1. b \in Block
  BY RecordsAreBlocks
<1> DEFINE w == Phrases(b)
<1>2. PICK s \in Nat, e \in Nat : Phrased(b, w, s, e)
  BY <1>1, PhrasesIs
<1> HIDE DEF w
<1>a. Hull(b) = Span(w)
  BY DEF Hull, w
<1>3. /\ s = w.addr /\ e = Ends(w) /\ Hull(b) = s..e - 1 /\ s % Phrase = 0 /\ e % Phrase = 0
      /\ s <= b.addr /\ b.addr < s + Phrase /\ Ends(b) <= e /\ e < Ends(b) + Phrase
      /\ \A a \in s..e - 1 : ByteOf(w, a) = IF a \in Span(b) THEN ByteOf(b, a) ELSE 255
  BY <1>2, <1>a DEF Phrased
<1>4. PICK p \in Nat, q \in Nat : p = b.addr /\ q = Ends(b) /\ Span(b) = p..q - 1
  BY RecordIs
<1>5. Phrase \in Nat \ {0}
  BY OptionsAssumed
<1>6. AlignUp(q, Phrase) = e
  BY <1>3, <1>4, <1>5, AlignedUp
<1>7. p..q - 1 \subseteq s..e - 1
  BY <1>3, <1>4
<1>8. Span(b) \subseteq Hull(b)
  BY <1>3, <1>4, <1>7
<1>9. e = AlignUp(Ends(b), Phrase)
  BY <1>4, <1>6
<1>10. \A a \in Hull(b) : ByteOf(w, a) = IF a \in Span(b) THEN ByteOf(b, a) ELSE 255
  BY <1>3
<1>11. /\ s = w.addr /\ e = Ends(w) /\ Hull(b) = s..e - 1 /\ s % Phrase = 0 /\ e % Phrase = 0
       /\ s <= b.addr /\ b.addr < s + Phrase /\ Ends(b) <= e /\ e < Ends(b) + Phrase
  BY <1>3
<1>12. HullOf(b, s, e)
  BY <1>8, <1>9, <1>10, <1>11, Zenon DEF HullOf, w
<1>13. QED
  BY <1>12

LEMMA HullsApart ==
  ASSUME NEW m \in Seq(Record), Separate(m)
  PROVE  /\ Orderly(m)
         /\ \A i, j \in 1..Len(m) : i < j => Hull(m[i]) \cap Hull(m[j]) = {}
<1>1. PICK n \in Nat : n = Len(m)
  OBVIOUS
<1>2. \A i \in 1..n : m[i] \in Record
  BY <1>1
<1>3. Phrase \in Nat \ {0}
  BY OptionsAssumed
<1>4. ASSUME NEW k \in 1..n - 1
      PROVE  Ends(m[k]) < m[k + 1].addr /\ Ends(Phrases(m[k])) + Phrase <= m[k + 1].addr
  <2>1. k \in 1..n /\ k + 1 \in 1..n
    OBVIOUS
  <2>2. PICK q \in Nat, r \in Nat : q = Ends(m[k]) /\ r = m[k + 1].addr
    BY <2>1, <1>2, RecordIs
  <2>3. PICK e \in Nat : e = Ends(Phrases(m[k])) /\ e = AlignUp(q, Phrase) /\ q <= e
    <3>1. m[k] \in Record
      BY <2>1, <1>2
    <3>2. PICK s \in Nat, e \in Nat : HullOf(m[k], s, e)
      BY <3>1, HullIs
    <3>3. QED
      BY <3>2, <2>2 DEF HullOf
  <2>4. HasFullPhrase(q, r - 1)
    BY <2>2, <1>1 DEF Separate
  <2>5. e + Phrase - 1 <= r - 1
    BY <2>3, <2>4 DEF HasFullPhrase
  <2>6. q < r /\ e + Phrase <= r
    BY <2>3, <2>5, <1>3
  <2>7. QED
    BY <2>2, <2>3, <2>6
<1>5. Orderly(m)
  <2> SUFFICES ASSUME NEW i \in 2..n PROVE Ends(m[i - 1]) <= m[i].addr
    BY <1>1 DEF Orderly
  <2>1. i - 1 \in 1..n - 1 /\ (i - 1) + 1 = i /\ i - 1 \in 1..n /\ i \in 1..n
    OBVIOUS
  <2>2. Ends(m[i - 1]) < m[i].addr
    BY <2>1, <1>4
  <2>3. Ends(m[i - 1]) \in Nat /\ m[i].addr \in Nat
    BY <2>1, <1>2, RecordIs
  <2>4. QED
    BY <2>2, <2>3
<1>6. ASSUME NEW i \in 1..n, NEW j \in 1..n, i < j
      PROVE  Hull(m[i]) \cap Hull(m[j]) = {}
  <2>1. i \in 1..n - 1 /\ i + 1 \in 1..n
    BY <1>6
  <2>2. m[i] \in Record /\ m[j] \in Record /\ m[i + 1] \in Record
    BY <2>1, <1>2
  <2>a. PICK s \in Nat, e \in Nat : HullOf(m[i], s, e)
    BY <2>2, HullIs
  <2>b. PICK t \in Nat, f \in Nat : HullOf(m[j], t, f)
    BY <2>2, HullIs
  <2>3. e = Ends(Phrases(m[i])) /\ Hull(m[i]) = s..e - 1
    BY <2>a DEF HullOf
  <2>4. Hull(m[j]) = t..f - 1 /\ m[j].addr < t + Phrase
    BY <2>b DEF HullOf
  <2>5. PICK r \in Nat, q \in Nat, u \in Nat :
          r = m[i + 1].addr /\ q = Ends(m[i + 1]) /\ r < q /\ u = m[j].addr
    BY <2>2, RecordIs
  <2>6. e + Phrase <= r
    BY <2>1, <2>3, <2>5, <1>4
  <2>7. r <= u
    <3>1. CASE j = i + 1
      BY <3>1, <2>5
    <3>2. CASE j # i + 1
      <4>1. i + 1 < j
        BY <3>2, <1>6
      <4>2. Ends(m[i + 1]) <= m[j].addr
        BY <4>1, <2>1, <1>1, <1>5, OrderlyApart
      <4>3. QED
        BY <4>2, <2>5
    <3>3. QED
      BY <3>1, <3>2
  <2>8. u < t + Phrase
    BY <2>4, <2>5
  <2>9. e <= t
    BY <2>6, <2>7, <2>8, <1>3
  <2>10. s..e - 1 \cap t..f - 1 = {}
    BY <2>9
  <2>11. QED
    BY <2>3, <2>4, <2>10
<1>7. QED
  BY <1>1, <1>5, <1>6

(* Each phrase is blank when it is written.                                *)
Ready(flash, m) ==
  \A k \in 1..Len(m) : \A a \in Hull(m[k]) : a \in Code /\ flash[a] = 255

WrittenUpTo(flash, m, i, g) ==
  \A a \in Code :
    /\ \A k \in 1..i : a \in Hull(m[k]) => g[a] = ByteOf(Phrases(m[k]), a)
    /\ (\A k \in 1..i : a \notin Hull(m[k])) => g[a] = flash[a]

LEMMA WritesAll ==
  ASSUME NEW flash \in [Code -> Nat], NEW m \in Seq(Record), Separate(m), Ready(flash, m)
  PROVE  WrittenUpTo(flash, m, Len(m), Written(flash, m))
<1>1. PICK n \in Nat : n = Len(m)
  OBVIOUS
<1>2. m \in Seq(Block)
  BY RecordsAreBlocks
<1>3. PICK f \in [0..n -> [Code -> Nat]] :
        /\ f[0] = flash /\ \A i \in 1..n : f[i] = WriteBlock(f[i - 1], m[i])
        /\ Written(flash, m) = f[n]
  <2>1. \E f \in [0..Len(m) -> [Code -> Nat]] :
          /\ f[0] = flash /\ \A i \in 1..Len(m) : f[i] = WriteBlock(f[i - 1], m[i])
          /\ Written(flash, m) = f[Len(m)]
    BY <1>2, WrittenLoop
  <2>2. QED
    BY <2>1, <1>1, Zenon
<1> DEFINE S == {i \in 0..n : WrittenUpTo(flash, m, i, f[i])}
<1>4. 0 \in S
  <2>1. \A k \in 1..0 : FALSE
    OBVIOUS
  <2>2. WrittenUpTo(flash, m, 0, flash)
    BY <2>1, Zenon DEF WrittenUpTo
  <2>3. QED
    BY <2>2, <1>3
<1>5. ASSUME NEW i \in 1..n, i - 1 \in S
      PROVE  i \in S
  <2>1. PICK g \in [Code -> Nat] : g = f[i - 1]
    <3>1. i - 1 \in 0..n
      OBVIOUS
    <3>2. QED
      BY <3>1
  <2>2. WrittenUpTo(flash, m, i - 1, g)
    BY <2>1, <1>5
  <2>3. PICK b \in Record : b = m[i]
    BY <1>1
  <2>4. PICK h : h = f[i] /\ \A a \in Code : h[a] =
            IF a \notin Hull(b) THEN g[a] ELSE IF Blank(g, a) THEN ByteOf(Phrases(b), a) ELSE Garbage
    <3>1. b \in Block
      BY RecordsAreBlocks
    <3>2. \A a \in Code : WriteBlock(g, b)[a] =
            IF a \notin Hull(b) THEN g[a] ELSE IF Blank(g, a) THEN ByteOf(Phrases(b), a) ELSE Garbage
      BY <3>1, WriteBlockIs DEF Hull
    <3>3. f[i] = WriteBlock(g, b)
      BY <2>1, <2>3, <1>3
    <3>4. QED
      BY <3>2, <3>3
  <2>5. \A k \in 1..i - 1 : Hull(m[k]) \cap Hull(b) = {}
    <3> SUFFICES ASSUME NEW k \in 1..i - 1 PROVE Hull(m[k]) \cap Hull(b) = {}
      OBVIOUS
    <3>1. k \in 1..n /\ k < i
      OBVIOUS
    <3>2. QED
      BY <3>1, <2>3, <1>1, HullsApart
  <2>6. 1..i = 1..i - 1 \cup {i}
    OBVIOUS
  <2>7. ASSUME NEW a \in Code, a \in Hull(b)
        PROVE  h[a] = ByteOf(Phrases(b), a)
    <3>a. PICK s \in Nat, e \in Nat : HullOf(b, s, e)
      BY HullIs
    <3>1. Hull(b) = s..e - 1 /\ s % Phrase = 0 /\ e % Phrase = 0
      BY <3>a DEF HullOf
    <3>2. Phrase \in Nat \ {0} /\ a \in Nat /\ s <= a /\ a < e
      <4>1. a \in s..e - 1
        BY <3>1, <2>7
      <4>2. Phrase \in Nat \ {0}
        BY OptionsAssumed
      <4>3. QED
        BY <4>1, <4>2
    <3>3. PICK d \in Nat : d = AlignDown(a, Phrase) /\ d % Phrase = 0 /\ d <= a /\ a < d + Phrase
      BY <3>2, AlignDownIs
    <3>4. s <= d
      <4> SUFFICES ASSUME d < s PROVE FALSE
        OBVIOUS
      <4>1. d + Phrase <= s
        BY <3>1, <3>2, <3>3, MultiplesApart
      <4>2. QED
        BY <4>1, <3>2, <3>3
    <3>5. d + Phrase <= e
      <4>1. d < e
        BY <3>2, <3>3
      <4>2. QED
        BY <4>1, <3>1, <3>2, <3>3, MultiplesApart
    <3>6. ASSUME NEW c \in d..d + Phrase - 1
          PROVE  g[c] = 255
      <4>1. c \in Hull(b)
        BY <3>1, <3>2, <3>4, <3>5
      <4>2. c \in Code /\ flash[c] = 255
        BY <4>1, <2>3, <1>1 DEF Ready
      <4>3. \A k \in 1..i - 1 : c \notin Hull(m[k])
        BY <4>1, <2>5
      <4>4. g[c] = flash[c]
        BY <4>2, <4>3, <2>2 DEF WrittenUpTo
      <4>5. QED
        BY <4>2, <4>4
    <3>7. Blank(g, a)
      BY <3>3, <3>6 DEF Blank
    <3>8. QED
      BY <3>7, <2>4, <2>7
  <2>8. ASSUME NEW a \in Code, NEW k \in 1..i, a \in Hull(m[k])
        PROVE  h[a] = ByteOf(Phrases(m[k]), a)
    <3>1. CASE k = i
      BY <3>1, <2>3, <2>7, <2>8
    <3>2. CASE k # i
      <4>1. k \in 1..i - 1
        BY <3>2
      <4>2. a \notin Hull(b)
        BY <4>1, <2>5, <2>8
      <4>3. g[a] = ByteOf(Phrases(m[k]), a)
        BY <4>1, <2>2, <2>8 DEF WrittenUpTo
      <4>4. QED
        BY <4>2, <4>3, <2>4
    <3>3. QED
      BY <3>1, <3>2
  <2>9. ASSUME NEW a \in Code, \A k \in 1..i : a \notin Hull(m[k])
        PROVE  h[a] = flash[a]
    <3>1. a \notin Hull(b) /\ \A k \in 1..i - 1 : a \notin Hull(m[k])
      BY <2>3, <2>6, <2>9
    <3>2. g[a] = flash[a]
      BY <3>1, <2>2 DEF WrittenUpTo
    <3>3. QED
      BY <3>1, <3>2, <2>4
  <2>10. WrittenUpTo(flash, m, i, h)
    BY <2>8, <2>9 DEF WrittenUpTo
  <2>11. QED
    BY <2>4, <2>10
<1> HIDE DEF S
<1>6. 0..n \subseteq S
  BY <1>4, <1>5, UpTo
<1>7. n \in S
  BY <1>6
<1>8. QED
  BY <1>1, <1>3, <1>7 DEF S

LEMMA OrderlyBounds ==
  ASSUME NEW s \in Seq(Record), Orderly(s), s # <<>>
  PROVE  \A k \in 1..Len(s) : s[1].addr <= s[k].addr /\ Ends(s[k]) <= Ends(s[Len(s)])
<1>1. PICK n \in Nat \ {0} : n = Len(s) /\ 1 \in 1..n /\ n \in 1..n
  OBVIOUS
<1>2. ASSUME NEW k \in 1..n
      PROVE  s[k].addr \in Nat /\ Ends(s[k]) \in Nat /\ s[k].addr < Ends(s[k])
  <2>1. s[k] \in Record
    BY <1>1
  <2>2. QED
    BY <2>1, RecordIs
<1>3. \A i, j \in 1..n : i < j => Ends(s[i]) <= s[j].addr
  BY <1>1, OrderlyApart
<1>4. ASSUME NEW k \in 1..n
      PROVE  s[1].addr <= s[k].addr
  <2>1. CASE k = 1
    BY <2>1, <1>2
  <2>2. CASE k # 1
    <3>1. 1 < k
      BY <2>2
    <3>2. Ends(s[1]) <= s[k].addr /\ s[1].addr < Ends(s[1]) /\ s[1].addr \in Nat /\ Ends(s[1]) \in Nat /\ s[k].addr \in Nat
      BY <3>1, <1>1, <1>2, <1>3
    <3>3. QED
      BY <3>2
  <2>3. QED
    BY <2>1, <2>2
<1>5. ASSUME NEW k \in 1..n
      PROVE  Ends(s[k]) <= Ends(s[n])
  <2>1. CASE k = n
    BY <2>1, <1>2
  <2>2. CASE k # n
    <3>1. k < n
      BY <2>2
    <3>2. Ends(s[k]) <= s[n].addr /\ s[n].addr < Ends(s[n]) /\ s[n].addr \in Nat /\ Ends(s[k]) \in Nat /\ Ends(s[n]) \in Nat
      BY <3>1, <1>1, <1>2, <1>3
    <3>3. QED
      BY <3>2
  <2>3. QED
    BY <2>1, <2>2
<1>6. QED
  BY <1>1, <1>4, <1>5

LEMMA Below ==
  ASSUME NEW p \in Nat \ {0}, NEW y \in Nat, NEW d \in Nat, NEW x \in Nat,
         y % p = 0, d % p = 0, d <= x, x < y + p
  PROVE  d <= y
<1> SUFFICES ASSUME y < d PROVE FALSE
  OBVIOUS
<1>1. y + p <= d
  BY MultiplesApart
<1>2. QED
  BY <1>1

LEMMA Above ==
  ASSUME NEW p \in Nat \ {0}, NEW y \in Nat, NEW d \in Nat, NEW x \in Nat,
         y % p = 0, d % p = 0, x <= d, y < x + p
  PROVE  y <= d
<1> SUFFICES ASSUME d < y PROVE FALSE
  OBVIOUS
<1>1. d + p <= y
  BY MultiplesApart
<1>2. QED
  BY <1>1

(* The addresses blocks that are in order stretch over, and the phrases    *)
(* and sectors around them                                                 *)
Stretch(s, first, z) ==
  /\ \A k \in 1..Len(s) : first <= s[k].addr /\ Ends(s[k]) <= z + 1
  /\ first = s[1].addr /\ z + 1 = Ends(s[Len(s)])

LEMMA StretchIs ==
  ASSUME NEW s \in Seq(Record), Orderly(s), s # <<>>
  PROVE  \E first \in Nat, z \in Nat :
           /\ Stretch(s, first, z) /\ first <= z /\ first \in Covered(s) /\ z \in Covered(s)
           /\ \A a \in Covered(s) : first <= a /\ a <= z
<1>1. PICK n \in Nat \ {0} : n = Len(s) /\ 1 \in 1..n /\ n \in 1..n /\ DOMAIN s = 1..n
  OBVIOUS
<1>2. s[1] \in Record /\ s[n] \in Record
  BY <1>1
<1>3. PICK first \in Nat, e \in Nat : first = s[1].addr /\ e = Ends(s[1]) /\ first < e /\ first \in Span(s[1])
  BY <1>2, RecordIs
<1>4. PICK r \in Nat, f \in Nat : r = s[n].addr /\ f = Ends(s[n]) /\ r < f /\ Span(s[n]) = r..f - 1
  BY <1>2, RecordIs
<1>5. PICK z \in Nat : z = f - 1 /\ z + 1 = f
  <2>1. f - 1 \in Nat /\ (f - 1) + 1 = f
    BY <1>4
  <2>2. QED
    BY <2>1
<1>6. \A k \in 1..n : first <= s[k].addr /\ Ends(s[k]) <= z + 1
  BY <1>1, <1>3, <1>4, <1>5, OrderlyBounds
<1>7. Stretch(s, first, z)
  BY <1>1, <1>3, <1>4, <1>5, <1>6 DEF Stretch
<1>8. z \in Span(s[n])
  BY <1>4, <1>5
<1>9. first \in Covered(s) /\ z \in Covered(s)
  BY <1>1, <1>3, <1>8 DEF Covered
<1>10. ASSUME NEW a \in Covered(s)
       PROVE  first <= a /\ a <= z
  <2>1. PICK k \in 1..n : a \in Span(s[k])
    BY <1>1 DEF Covered
  <2>2. s[k] \in Record
    BY <1>1
  <2>3. PICK p \in Nat, q \in Nat : p = s[k].addr /\ q = Ends(s[k]) /\ Span(s[k]) = p..q - 1
    BY <2>2, RecordIs
  <2>4. first <= p /\ q <= z + 1
    BY <2>3, <1>6
  <2>5. a \in p..q - 1
    BY <2>1, <2>3
  <2>6. QED
    BY <2>4, <2>5
<1>11. first <= z
  BY <1>9, <1>10
<1>12. QED
  BY <1>7, <1>9, <1>10, <1>11

LEMMA HullsWithin ==
  ASSUME NEW s \in Seq(Record), NEW first \in Nat, NEW z \in Nat, Stretch(s, first, z),
         NEW lo \in Nat, NEW hi \in Nat, lo % Phrase = 0, hi % Phrase = 0, lo <= first, z + 1 <= hi
  PROVE  \A k \in 1..Len(s) : Hull(s[k]) \subseteq lo..hi - 1
<1> SUFFICES ASSUME NEW k \in 1..Len(s) PROVE Hull(s[k]) \subseteq lo..hi - 1
  OBVIOUS
<1>1. PICK b \in Record : b = s[k]
  OBVIOUS
<1>2. PICK u \in Nat, e \in Nat : HullOf(b, u, e)
  BY HullIs
<1>3. PICK p \in Nat, q \in Nat : p = b.addr /\ q = Ends(b)
  BY RecordIs
<1>4. /\ Hull(b) = u..e - 1 /\ u % Phrase = 0 /\ e % Phrase = 0 /\ p < u + Phrase /\ e < q + Phrase
  BY <1>2, <1>3 DEF HullOf
<1>5. first <= p /\ q <= z + 1
  BY <1>1, <1>3 DEF Stretch
<1>6. lo <= p /\ q <= hi
  BY <1>5
<1>7. Phrase \in Nat \ {0}
  BY OptionsAssumed
<1>8. lo <= u
  BY <1>4, <1>6, <1>7, Below
<1>9. e <= hi
  BY <1>4, <1>6, <1>7, Above
<1>10. u..e - 1 \subseteq lo..hi - 1
  BY <1>8, <1>9
<1>11. QED
  BY <1>1, <1>4, <1>10

LEMMA EraseSpanIs ==
  ASSUME NEW m \in Seq(Record), m # <<>>, NEW first \in Nat, NEW z \in Nat, Stretch(m, first, z)
  PROVE  EraseSpan(m) = AlignDown(first, Sector)..AlignUp(z, Sector) - 1
<1>1. PICK n \in Nat \ {0} : n = Len(m) /\ 1 \in 1..n /\ n \in 1..n /\ DOMAIN m = 1..n
  OBVIOUS
<1>2. ASSUME NEW k \in 1..n
      PROVE  m[k].addr \in Nat /\ Ends(m[k]) - 1 \in Nat /\ first <= m[k].addr /\ Ends(m[k]) - 1 <= z
  <2>1. m[k] \in Record
    BY <1>1
  <2>2. PICK p \in Nat, q \in Nat : p = m[k].addr /\ q = Ends(m[k]) /\ p < q
    BY <2>1, RecordIs
  <2>3. first <= p /\ q <= z + 1
    BY <2>2, <1>1 DEF Stretch
  <2>4. q - 1 \in Nat /\ q - 1 <= z
    BY <2>2, <2>3
  <2>5. QED
    BY <2>2, <2>3, <2>4
<1>3. first = m[1].addr /\ z + 1 = Ends(m[n])
  BY <1>1 DEF Stretch
<1> DEFINE A == {m[i].addr : i \in DOMAIN m}
           B == {Ends(m[i]) - 1 : i \in DOMAIN m}
<1>4. Min(A) = first
  <2>1. A \in SUBSET Nat /\ first \in A /\ \A y \in A : first <= y
    BY <1>1, <1>2, <1>3
  <2> HIDE DEF A
  <2>2. QED
    BY <2>1, MinIs
<1>5. Max(B) = z
  <2>1. Ends(m[n]) - 1 = z
    BY <1>3
  <2>2. B \in SUBSET Nat /\ z \in B /\ \A y \in B : y <= z
    BY <1>1, <1>2, <2>1
  <2> HIDE DEF B
  <2>3. QED
    BY <2>2, MaxIs
<1>6. EraseSpan(m) = AlignDown(Min(A), Sector)..AlignUp(Max(B), Sector) - 1
  BY DEF EraseSpan
<1> HIDE DEF A, B
<1>7. QED
  BY <1>4, <1>5, <1>6

(* Under a file the flash is erased, so that every phrase of it is         *)
(* written once.                                                           *)
ErasedUnder(flash, m, first, z) ==
  LET g == EraseFlash(flash, EraseSpan(m)) IN
  Ready(g, m) /\ \A a \in first..z : a \in Code => g[a] = 255

LEMMA UnderIsErased ==
  ASSUME NEW m \in Seq(Record), m # <<>>, NEW first \in Code, NEW z \in Code, Stretch(m, first, z),
         first <= z, NEW flash \in [Code -> Nat],
         (\A c \in Code : flash[c] = 255) \/ z % Sector # 0
  PROVE  ErasedUnder(flash, m, first, z)
<1>1. PICK lo \in Nat, hi \in Nat : /\ lo \in Code /\ lo <= hi /\ Code = lo..hi
                                    /\ lo % Sector = 0 /\ (hi + 1) % Sector = 0
  BY CodeIs
<1>2. first \in Nat /\ z \in Nat /\ lo <= first /\ z + 1 <= hi + 1
  BY <1>1
<1>3. Phrase \in Nat \ {0} /\ Sector \in Nat \ {0} /\ Sector % Phrase = 0
  BY OptionsAssumed
<1>4. lo % Phrase = 0
  BY <1>1, <1>3, MultipleOfMultiple
<1>5. PICK top \in Nat : top = hi + 1 /\ top % Sector = 0
  BY <1>1
<1>6. top % Phrase = 0
  BY <1>3, <1>5, MultipleOfMultiple
<1>7. \A k \in 1..Len(m) : Hull(m[k]) \subseteq lo..top - 1
  BY <1>2, <1>4, <1>5, <1>6, HullsWithin
<1>8. lo..top - 1 = Code
  BY <1>1, <1>5
<1> DEFINE g == EraseFlash(flash, EraseSpan(m))
<1>9. \A a \in Code : g[a] = IF a \in EraseSpan(m) THEN 255 ELSE flash[a]
  BY DEF EraseFlash
<1> HIDE DEF g
<1>10. CASE \A c \in Code : flash[c] = 255
  <2>1. \A a \in Code : g[a] = 255
    BY <1>9, <1>10
  <2>2. Ready(g, m)
    <3>1. \A k \in 1..Len(m) : \A a \in Hull(m[k]) : a \in Code
      BY <1>7, <1>8
    <3>2. QED
      BY <2>1, <3>1 DEF Ready
  <2>3. QED
    BY <2>1, <2>2 DEF ErasedUnder, g
<1>11. CASE z % Sector # 0
  <2>1. PICK d \in Nat : d = AlignDown(first, Sector) /\ d % Sector = 0 /\ d <= first
    BY <1>2, <1>3, AlignDownIs
  <2>2. PICK u \in Nat : u = AlignUp(z, Sector) /\ u % Sector = 0 /\ z <= u
    BY <1>2, <1>3, AlignUpIs
  <2>3. z + 1 <= u
    <3>1. z # u
      BY <2>2, <1>11
    <3>2. QED
      BY <3>1, <2>2, <1>2
  <2>4. d % Phrase = 0
    BY <2>1, <1>3, MultipleOfMultiple
  <2>5. u % Phrase = 0
    BY <2>2, <1>3, MultipleOfMultiple
  <2>6. \A k \in 1..Len(m) : Hull(m[k]) \subseteq d..u - 1
    BY <2>1, <2>3, <2>4, <2>5, <1>2, HullsWithin
  <2>7. EraseSpan(m) = d..u - 1
    BY <2>1, <2>2, <1>2, EraseSpanIs
  <2>8. Ready(g, m)
    BY <2>6, <2>7, <1>7, <1>8, <1>9 DEF Ready
  <2>9. first..z \subseteq d..u - 1
    BY <2>1, <2>3, <1>2
  <2>10. \A a \in first..z : a \in Code => g[a] = 255
    BY <2>7, <2>9, <1>9
  <2>11. QED
    BY <2>8, <2>10 DEF ErasedUnder, g
<1>12. QED
  BY <1>10, <1>11

(* A board whose flash was blank, or is erased to the end of the file, has *)
(* the bytes of the file when it was written, and erased ones behind it in *)
(* the last phrase.                                                        *)
LEMMA FlashAre ==
  ASSUME NEW blocks \in Seq(Record), Orderly(blocks), InRange(blocks), NEW flash \in [Code -> Nat],
         (\A c \in Code : flash[c] = 255) \/ Max(Covered(blocks)) % Sector # 0,
         NEW p \in Covered(blocks), NEW q \in Covered(blocks), NEW a \in Code,
         p <= a, a < AlignUp(q + 1, Phrase)
  PROVE  LET m == Merge(blocks) IN
         Written(EraseFlash(flash, EraseSpan(m)), m)[a] = Whole(blocks, a)
<1>1. PICK n \in Nat : n = Len(blocks) /\ DOMAIN blocks = 1..n
  OBVIOUS
<1>2. blocks # <<>>
  BY DEF Covered
<1>3. PICK m \in Seq(Record) : m = Merge(blocks) /\ Merged(blocks, n, m)
  <2>1. Merged(blocks, Len(blocks), Merge(blocks))
    BY <1>2, MergedAll
  <2>2. QED
    BY <2>1, <1>1 DEF Merged
<1>4. m # <<>> /\ Separate(m) /\ m[1].addr = blocks[1].addr /\ Ends(m[Len(m)]) = Ends(blocks[n])
  BY <1>3 DEF Merged, Separate
<1>5. Orderly(m) /\ \A i, j \in 1..Len(m) : i < j => Hull(m[i]) \cap Hull(m[j]) = {}
  BY <1>4, HullsApart
<1>6. PICK first \in Nat, z \in Nat :
        /\ Stretch(blocks, first, z) /\ first <= z /\ first \in Covered(blocks) /\ z \in Covered(blocks)
        /\ \A c \in Covered(blocks) : first <= c /\ c <= z
  BY <1>2, StretchIs
<1>7. Stretch(m, first, z)
  <2>1. PICK f \in Nat, y \in Nat : Stretch(m, f, y)
    BY <1>4, <1>5, StretchIs
  <2>2. f = m[1].addr /\ y + 1 = Ends(m[Len(m)]) /\ first = blocks[1].addr /\ z + 1 = Ends(blocks[n])
    BY <2>1, <1>1, <1>6 DEF Stretch
  <2>3. f = first /\ y + 1 = z + 1
    BY <2>2, <1>4
  <2>4. y = z
    BY <2>3
  <2>5. QED
    BY <2>1, <2>3, <2>4
<1>8. Covered(blocks) \subseteq Code /\ Covered(blocks) \in SUBSET Nat
  <2>1. Covered(blocks) \subseteq Code
    BY DEF Covered, InRange
  <2>2. Code \subseteq Nat
    BY CodeIs
  <2>3. QED
    BY <2>1, <2>2
<1>9. Max(Covered(blocks)) = z
  BY <1>6, <1>8, MaxIs
<1>10. ErasedUnder(flash, m, first, z)
  BY <1>4, <1>6, <1>7, <1>8, <1>9, UnderIsErased
<1> DEFINE g == EraseFlash(flash, EraseSpan(m))
<1>11. g \in [Code -> Nat]
  BY DEF EraseFlash
<1>12. Ready(g, m) /\ \A c \in first..z : c \in Code => g[c] = 255
  BY <1>10 DEF ErasedUnder
<1> HIDE DEF g
<1>13. WrittenUpTo(g, m, Len(m), Written(g, m))
  BY <1>4, <1>11, <1>12, WritesAll
<1>14. PICK l \in Nat : l = Len(m)
  OBVIOUS
<1>15. PICK w : w = Written(g, m) /\ WrittenUpTo(g, m, l, w)
  BY <1>13, <1>14, Zenon
<1>16. \A k \in 1..l : \A c \in Span(m[k]) : ByteOf(m[k], c) = Whole(blocks, c)
  BY <1>3, <1>14 DEF Merged
<1>17. \A c \in Covered(blocks) : \E k \in 1..l : c \in Span(m[k])
  <2> SUFFICES ASSUME NEW c \in Covered(blocks) PROVE \E k \in 1..l : c \in Span(m[k])
    OBVIOUS
  <2>1. PICK j \in 1..n : c \in Span(blocks[j])
    BY <1>1 DEF Covered
  <2>2. \A i \in 1..n : \A d \in Span(blocks[i]) : \E k \in 1..Len(m) : d \in Span(m[k])
    BY <1>3 DEF Merged
  <2>3. QED
    BY <2>1, <2>2, <1>14
<1>18. \A k \in 1..l : Span(m[k]) \subseteq Hull(m[k])
  <2> SUFFICES ASSUME NEW k \in 1..l PROVE Span(m[k]) \subseteq Hull(m[k])
    OBVIOUS
  <2>1. m[k] \in Record
    BY <1>14
  <2>2. PICK s \in Nat, e \in Nat : HullOf(m[k], s, e)
    BY <2>1, HullIs
  <2>3. QED
    BY <2>2 DEF HullOf
<1>19. first <= a /\ (a <= z \/ \E k \in 1..l : a \in Hull(m[k]))
  <2>1. first <= p /\ q <= z /\ p \in Nat /\ q \in Nat /\ a \in Nat
    BY <1>6, <1>8, CodeIs
  <2>2. first <= a
    BY <2>1
  <2>3. ASSUME z < a
        PROVE  \E k \in 1..l : a \in Hull(m[k])
    <3>1. l \in 1..l /\ m[l] \in Record
      BY <1>4, <1>14
    <3>2. PICK s \in Nat, e \in Nat : HullOf(m[l], s, e)
      BY <3>1, HullIs
    <3>3. /\ Hull(m[l]) = s..e - 1 /\ s <= m[l].addr /\ Ends(m[l]) <= e /\ e % Phrase = 0
          /\ Ends(m[l]) = z + 1 /\ m[l].addr \in Nat /\ m[l].addr < Ends(m[l])
      <4>1. z + 1 = Ends(m[l])
        BY <1>7, <1>14 DEF Stretch
      <4>2. m[l].addr \in Nat /\ m[l].addr < Ends(m[l])
        BY <3>1, RecordIs
      <4>3. QED
        BY <4>1, <4>2, <3>2 DEF HullOf
    <3>4. PICK d \in Nat : d = AlignUp(q + 1, Phrase) /\ d % Phrase = 0 /\ d < (q + 1) + Phrase
      <4>1. q + 1 \in Nat /\ Phrase \in Nat \ {0}
        BY <2>1, OptionsAssumed
      <4>2. QED
        BY <4>1, AlignUpIs
    <3>5. q + 1 \in Nat /\ q + 1 <= e
      BY <2>1, <3>3
    <3>6. d <= e
      BY <3>3, <3>4, <3>5, OptionsAssumed, Above
    <3>7. a < d
      BY <3>4
    <3>8. a \in s..e - 1
      <4>1. PICK c \in Nat : c = m[l].addr /\ s <= c /\ c < z + 1
        BY <3>3
      <4>2. s <= a
        BY <4>1, <2>1, <2>3
      <4>3. a <= e - 1
        BY <3>6, <3>7, <2>1
      <4>4. QED
        BY <4>2, <4>3, <2>1
    <3>9. QED
      BY <3>1, <3>3, <3>8
  <2>4. QED
    BY <2>1, <2>2, <2>3
<1>20. w[a] = Whole(blocks, a)
  <2>1. CASE \E k \in 1..l : a \in Hull(m[k])
    <3>1. PICK k \in 1..l : a \in Hull(m[k])
      BY <2>1
    <3>2. w[a] = ByteOf(Phrases(m[k]), a)
      BY <3>1, <1>15 DEF WrittenUpTo
    <3>3. m[k] \in Record
      BY <1>14
    <3>4. PICK s \in Nat, e \in Nat : HullOf(m[k], s, e)
      BY <3>3, HullIs
    <3>5. ByteOf(Phrases(m[k]), a) = IF a \in Span(m[k]) THEN ByteOf(m[k], a) ELSE 255
      BY <3>1, <3>4 DEF HullOf
    <3>6. CASE a \in Span(m[k])
      BY <3>2, <3>5, <3>6, <1>16
    <3>7. CASE a \notin Span(m[k])
      <4>1. a \notin Covered(blocks)
        <5> SUFFICES ASSUME a \in Covered(blocks) PROVE FALSE
          OBVIOUS
        <5>1. PICK j \in 1..l : a \in Span(m[j])
          BY <1>17
        <5>2. a \in Hull(m[j])
          BY <5>1, <1>18
        <5>3. j # k
          BY <5>1, <3>7
        <5>4. j < k \/ k < j
          BY <5>3
        <5>5. QED
          BY <5>2, <5>4, <3>1, <1>5, <1>14
      <4>2. QED
        BY <4>1, <3>2, <3>5, <3>7 DEF Whole
    <3>8. QED
      BY <3>6, <3>7
  <2>2. CASE \A k \in 1..l : a \notin Hull(m[k])
    <3>1. w[a] = g[a]
      BY <2>2, <1>15 DEF WrittenUpTo
    <3>2. a \in first..z
      <4>1. first <= a /\ a <= z /\ a \in Nat
        BY <2>2, <1>19, CodeIs
      <4>2. QED
        BY <4>1
    <3>3. g[a] = 255
      BY <3>2, <1>12
    <3>4. a \notin Covered(blocks)
      BY <2>2, <1>17, <1>18
    <3>5. QED
      BY <3>1, <3>3, <3>4 DEF Whole
  <2>3. QED
    BY <2>1, <2>2
<1>21. QED
  BY <1>3, <1>15, <1>20 DEF g

(* What the steps keep: a board that was programmed has the bytes of the   *)
(* combined file up to the end of its last phrase.                         *)
Holds(flash, blocks) ==
  \A a \in Code : \A p, q \in Covered(blocks) :
    p <= a /\ a < AlignUp(q + 1, Phrase) => flash[a] = Whole(blocks, a)

Programmed ==
  stage \in {"options", "done"} =>
    LET blocks == CodeBlocks(combined) IN
    InRange(blocks) /\ (Orderly(blocks) /\ AllErased(blocks) => Holds(board.flash, blocks))

LEMMA FlashStep == ImageInv /\ Programmed /\ [ImageNext]_ImageVars => Programmed'
<1> SUFFICES ASSUME ImageInv, Programmed, [ImageNext]_ImageVars PROVE Programmed'
  OBVIOUS
<1>1. CASE SignApp \/ MakeCombined \/ GenFsblCerts
  <2>1. stage' \notin {"options", "done"}
    BY <1>1 DEF SignApp, MakeCombined, GenFsblCerts
  <2>2. QED
    BY <2>1 DEF Programmed
<1>2. CASE ProgramSrec
  <2>1. CASE stage' = "failed"
    BY <2>1 DEF Programmed
  <2>2. CASE stage' # "failed"
    <3>1. PICK blocks : blocks = CodeBlocks(combined)
      OBVIOUS
    <3>2. PICK g : g = Written(EraseFlash(board.flash, EraseSpan(Merge(blocks))), Merge(blocks))
      OBVIOUS
    <3>3. /\ combined' = combined /\ stage = "program" /\ InRange(blocks)
          /\ board' = [board EXCEPT !.flash = g]
      BY <1>2, <2>2, <3>1, <3>2 DEF ProgramSrec
    <3>4. board \in Boards /\ combined \in Seq(Record) /\ BlankBefore
      BY DEF ImageInv, ImageTypeOK, Boards
    <3>5. /\ board.flash \in [Code -> Nat] /\ board'.flash = g /\ board'.erased = board.erased
      BY <3>3, <3>4 DEF Boards
    <3>6. blocks \in Seq(Record)
      BY <3>1, <3>4, CodeBlocksAre
    <3>7. ASSUME Orderly(blocks), board.erased \/ Max(Covered(blocks)) % Sector # 0
          PROVE  Holds(g, blocks)
      <4>1. board.erased => \A c \in Code : board.flash[c] = 255
        BY <3>3, <3>4 DEF BlankBefore
      <4>2. (\A c \in Code : board.flash[c] = 255) \/ Max(Covered(blocks)) % Sector # 0
        BY <4>1, <3>7
      <4>3. QED
        BY <4>2, <3>2, <3>3, <3>5, <3>6, <3>7, FlashAre DEF Holds
    <3>8. QED
      BY <3>1, <3>3, <3>5, <3>7 DEF Programmed, AllErased
  <2>3. QED
    BY <2>1, <2>2
<1>3. CASE ProgramOptions
  <2>1. /\ combined' = combined /\ stage = "options"
        /\ board' = [board EXCEPT !.options = OptionsWritten(board.options, OptionRecords(combined))]
    BY <1>3 DEF ProgramOptions
  <2>2. board \in Boards
    BY DEF ImageInv, ImageTypeOK, Boards
  <2>3. board'.flash = board.flash /\ board'.erased = board.erased
    BY <2>1, <2>2 DEF Boards
  <2>4. QED
    BY <2>1, <2>3 DEF Programmed, AllErased
<1>4. CASE UNCHANGED ImageVars
  BY <1>4 DEF ImageVars, Programmed, AllErased
<1>5. QED
  BY <1>1, <1>2, <1>3, <1>4 DEF ImageNext

LEMMA CoveredIs ==
  ASSUME NEW blocks \in Seq(Record)
  PROVE  Covered(blocks) \in SUBSET Nat
<1> SUFFICES ASSUME NEW i \in DOMAIN blocks PROVE Span(blocks[i]) \subseteq Nat
  BY DEF Covered
<1>1. blocks[i] \in Record
  OBVIOUS
<1>2. PICK p \in Nat, e \in Nat : Span(blocks[i]) = p..e - 1
  BY <1>1, RecordIs
<1>3. QED
  BY <1>2

LEMMA ProgrammedIsFile == ImageInv /\ Programmed => FlashIsFile
<1> SUFFICES ASSUME ImageInv, Programmed, stage \in {"options", "done"},
                    NEW blocks, blocks = CodeBlocks(combined), Orderly(blocks), AllErased(blocks),
                    NEW a \in Code, NEW p \in Covered(blocks), NEW q \in Covered(blocks), p <= a, a <= q
             PROVE  board.flash[a] = Whole(blocks, a)
  BY DEF FlashIsFile, Whole
<1>1. blocks \in Seq(Record)
  BY CodeBlocksAre DEF ImageInv, ImageTypeOK
<1>2. q \in Nat /\ a \in Nat
  BY <1>1, CoveredIs, CodeIs
<1>3. q + 1 <= AlignUp(q + 1, Phrase) /\ AlignUp(q + 1, Phrase) \in Nat
  <2>1. q + 1 \in Nat /\ Phrase \in Nat \ {0}
    BY <1>2, OptionsAssumed
  <2>2. QED
    BY <2>1, AlignUpIs
<1>4. a < AlignUp(q + 1, Phrase)
  BY <1>2, <1>3
<1>5. Holds(board.flash, blocks)
  BY DEF Programmed
<1>6. QED
  BY <1>4, <1>5 DEF Holds

(* After a success every byte of the combined file is at its place in the  *)
(* code flash, and the gaps between them are erased: the blocks the        *)
(* programmer merges are a phrase apart, so that no phrase is written      *)
(* twice, and every phrase is erased before unless only the last byte of   *)
(* the file is in a sector.                                                *)
THEOREM FlashIsFileHolds == ImageSpec => []FlashIsFile
<1>1. ImageInit => ImageInv /\ Programmed
  BY InvInit DEF ImageInit, Programmed
<1>2. ImageInv /\ Programmed /\ [ImageNext]_ImageVars => (ImageInv /\ Programmed)'
  BY InvStep, FlashStep
<1>3. ImageInv /\ Programmed => FlashIsFile
  BY ProgrammedIsFile
<1>4. QED
  BY <1>1, <1>2, <1>3, PTL DEF ImageSpec

-----------------------------------------------------------------------------
(* The board boots.  Records that are apart lie one behind the other when  *)
(* they are sorted.                                                        *)
Ascending(s) == \A i, j \in 1..Len(s) : i < j => Ends(s[i]) <= s[j].addr

Clear(s, r) == \A i \in 1..Len(s) : Span(s[i]) \cap Span(r) = {}

LEMMA SpansApart ==
  ASSUME NEW x \in Record, NEW y \in Record, Span(x) \cap Span(y) = {}, x.addr <= y.addr
  PROVE  Ends(x) <= y.addr
<1>1. PICK p \in Nat, e \in Nat : p = x.addr /\ e = Ends(x) /\ Span(x) = p..e - 1
  BY RecordIs
<1>2. PICK q \in Nat : q = y.addr /\ q \in Span(y)
  BY RecordIs
<1> SUFFICES ASSUME q < e PROVE FALSE
  BY <1>1, <1>2
<1>3. q \in p..e - 1
  BY <1>1, <1>2
<1>4. QED
  BY <1>1, <1>2, <1>3

LEMMA PlacedAscending ==
  ASSUME NEW s \in Seq(Record), NEW r \in Record, Ascending(s), Clear(s, r), NEW n \in 0..Len(s),
         NEW t, Placed(s, r, t, n)
  PROVE  Ascending(t)
<1>1. PICK l \in Nat : l = Len(s) /\ n \in 0..l
  OBVIOUS
<1>2. /\ t \in Seq(Record) /\ Len(t) = l + 1 /\ t[n + 1] = r
      /\ \A i \in 1..n : t[i] = s[i] /\ (i = n => s[i].addr <= r.addr)
      /\ \A i \in n + 1..l : t[i + 1] = s[i] /\ r.addr < s[i].addr
  BY <1>1 DEF Placed
<1>3. \A i \in 1..l : s[i] \in Record /\ s[i].addr \in Nat /\ Ends(s[i]) \in Nat /\ s[i].addr < Ends(s[i])
  <2>1. \A i \in 1..l : s[i] \in Record
    BY <1>1
  <2>2. QED
    BY <2>1, RecordIs
<1>4. \A i, j \in 1..l : i < j => Ends(s[i]) <= s[j].addr
  BY <1>1 DEF Ascending
<1>5. r.addr \in Nat /\ Ends(r) \in Nat
  BY RecordIs
<1>6. \A i \in 1..n : Ends(s[i]) <= r.addr
  <2> SUFFICES ASSUME NEW i \in 1..n PROVE Ends(s[i]) <= r.addr
    OBVIOUS
  <2>1. n \in 1..n /\ n \in 1..l /\ i \in 1..l
    BY <1>1
  <2>2. s[n].addr <= r.addr
    BY <2>1, <1>2
  <2>3. Span(s[n]) \cap Span(r) = {}
    BY <2>1, <1>1 DEF Clear
  <2>4. Ends(s[n]) <= r.addr
    BY <2>1, <2>2, <2>3, <1>3, SpansApart
  <2>5. CASE i = n
    BY <2>4, <2>5
  <2>6. CASE i # n
    <3>1. Ends(s[i]) <= s[n].addr
      BY <2>1, <2>6, <1>1, <1>4
    <3>2. QED
      BY <3>1, <2>1, <2>2, <1>3, <1>5
  <2>7. QED
    BY <2>5, <2>6
<1>7. \A i \in n + 1..l : Ends(r) <= s[i].addr
  <2> SUFFICES ASSUME NEW i \in n + 1..l PROVE Ends(r) <= s[i].addr
    OBVIOUS
  <2>1. i \in 1..l /\ r.addr < s[i].addr
    BY <1>1, <1>2
  <2>2. Span(r) \cap Span(s[i]) = {}
    BY <2>1, <1>1 DEF Clear
  <2>3. r.addr <= s[i].addr
    BY <2>1, <1>3, <1>5
  <2>4. QED
    BY <2>1, <2>2, <2>3, <1>3, SpansApart
<1>8. ASSUME NEW i \in 1..l + 1, NEW j \in 1..l + 1, i < j
      PROVE  Ends(t[i]) <= t[j].addr
  <2>1. CASE j <= n
    <3>1. i \in 1..n /\ j \in 1..n /\ i \in 1..l /\ j \in 1..l
      BY <2>1, <1>8, <1>1
    <3>2. t[i] = s[i] /\ t[j] = s[j] /\ Ends(s[i]) <= s[j].addr
      BY <3>1, <1>2, <1>4, <1>8
    <3>3. QED
      BY <3>2
  <2>2. CASE j = n + 1
    <3>1. i \in 1..n
      BY <2>2, <1>8
    <3>2. t[i] = s[i] /\ t[j] = r
      BY <3>1, <2>2, <1>2
    <3>3. QED
      BY <3>1, <3>2, <1>6
  <2>3. CASE j > n + 1
    <3>1. j - 1 \in n + 1..l /\ (j - 1) + 1 = j
      BY <2>3, <1>8
    <3>2. t[j] = s[j - 1] /\ j - 1 \in 1..l
      BY <3>1, <1>1, <1>2
    <3>3. CASE i <= n
      <4>1. i \in 1..n /\ i \in 1..l /\ i < j - 1
        BY <3>3, <2>3, <1>1, <1>8
      <4>2. t[i] = s[i] /\ Ends(s[i]) <= s[j - 1].addr
        BY <4>1, <3>2, <1>2, <1>4
      <4>3. QED
        BY <4>2, <3>2
    <3>4. CASE i = n + 1
      <4>1. t[i] = r
        BY <3>4, <1>2
      <4>2. QED
        BY <4>1, <3>1, <3>2, <1>7
    <3>5. CASE i > n + 1
      <4>1. i - 1 \in n + 1..l /\ (i - 1) + 1 = i /\ i - 1 < j - 1 /\ i - 1 \in 1..l
        BY <3>5, <1>1, <1>8
      <4>2. t[i] = s[i - 1] /\ Ends(s[i - 1]) <= s[j - 1].addr
        BY <4>1, <3>2, <1>2, <1>4
      <4>3. QED
        BY <4>2, <3>2
    <3>6. QED
      BY <3>3, <3>4, <3>5
  <2>4. QED
    BY <2>1, <2>2, <2>3, <1>1
<1>9. QED
  BY <1>2, <1>8 DEF Ascending

LEMMA SortAscending ==
  ASSUME NEW file \in Seq(Record), Disjoint(file)
  PROVE  Ascending(Sort(file))
<1>1. PICK n \in Nat : n = Len(file) /\ DOMAIN file = 1..n
  OBVIOUS
<1>2. PICK f \in [0..n -> Seq(Record)] :
        /\ f[0] = <<>> /\ \A i \in 1..n : f[i] = Insert(f[i - 1], file[i])
        /\ Sort(file) = f[n]
  BY <1>1, SortLoop, Zenon
<1> DEFINE S == {i \in 0..n : /\ Ascending(f[i])
                              /\ \A x : In(x, f[i]) => \E j \in 1..i : file[j] = x}
<1>3. 0 \in S
  <2>1. Ascending(<<>>)
    BY DEF Ascending
  <2>2. \A x : ~ In(x, <<>>)
    BY DEF In
  <2>3. QED
    BY <2>1, <2>2, <1>2
<1>4. ASSUME NEW i \in 1..n, i - 1 \in S
      PROVE  i \in S
  <2>1. file[i] \in Record /\ f[i - 1] \in Seq(Record) /\ i \in 0..n
    BY <1>1
  <2>2. PICK k \in 0..Len(f[i - 1]) : Placed(f[i - 1], file[i], f[i], k)
    BY <2>1, <1>2, InsertIs
  <2>3. Clear(f[i - 1], file[i])
    <3> SUFFICES ASSUME NEW l \in 1..Len(f[i - 1]) PROVE Span(f[i - 1][l]) \cap Span(file[i]) = {}
      BY DEF Clear
    <3>1. In(f[i - 1][l], f[i - 1])
      BY DEF In
    <3>2. PICK j \in 1..i - 1 : file[j] = f[i - 1][l]
      BY <3>1, <1>4
    <3>3. j \in 1..n /\ j # i
      OBVIOUS
    <3>4. QED
      BY <3>2, <3>3, <1>1 DEF Disjoint
  <2>4. Ascending(f[i])
    BY <2>1, <2>2, <2>3, <1>4, PlacedAscending
  <2>5. \A x : In(x, f[i]) <=> In(x, f[i - 1]) \/ x = file[i]
    BY <2>1, <2>2, PlacedIn
  <2>6. ASSUME NEW x, In(x, f[i])
        PROVE  \E j \in 1..i : file[j] = x
    <3>1. In(x, f[i - 1]) => \E j \in 1..i - 1 : file[j] = x
      BY <1>4
    <3>2. 1..i = 1..i - 1 \cup {i}
      OBVIOUS
    <3>3. QED
      BY <3>1, <3>2, <2>5, <2>6
  <2>7. QED
    BY <2>1, <2>4, <2>6
<1> HIDE DEF S
<1>5. 0..n \subseteq S
  BY <1>3, <1>4, UpTo
<1>6. n \in S
  BY <1>5
<1>7. QED
  BY <1>2, <1>6 DEF S

LEMMA TakenAscending ==
  ASSUME NEW file \in Seq(Record), Ascending(file), NEW A
  PROVE  Ascending(StartingIn(file, A))
<1>1. PICK n \in Nat : n = Len(file)
  OBVIOUS
<1>2. PICK f \in [0..n -> Seq(Record)] :
        /\ f[0] = <<>> /\ \A i \in 1..n : f[i] = f[i - 1] \o IfIn(file[i], A)
        /\ StartingIn(file, A) = f[n]
  BY <1>1, TakenLoop, Zenon
<1> DEFINE S == {i \in 0..n : /\ Ascending(f[i])
                              /\ \A k \in 1..Len(f[i]) : \E j \in 1..i : file[j] = f[i][k]}
<1>3. 0 \in S
  <2>1. Len(<<>>) = 0
    OBVIOUS
  <2>2. Ascending(<<>>)
    BY DEF Ascending
  <2>3. QED
    BY <2>1, <2>2, <1>2
<1>4. ASSUME NEW i \in 1..n, i - 1 \in S
      PROVE  i \in S
  <2>1. PICK r \in Record : r = file[i]
    BY <1>1
  <2>2. PICK s \in Seq(Record), l \in Nat : s = f[i - 1] /\ l = Len(s)
    <3>1. i - 1 \in 0..n
      OBVIOUS
    <3>2. QED
      BY <3>1
  <2>3. Ascending(s) /\ \A k \in 1..l : \E j \in 1..i - 1 : file[j] = s[k]
    BY <2>2, <1>4
  <2>4. CASE r.addr \notin A
    <3>1. f[i] = s
      <4>1. f[i] = s \o <<>>
        BY <2>1, <2>2, <2>4, <1>2 DEF IfIn
      <4>2. QED
        BY <4>1
    <3>2. \A k \in 1..l : \E j \in 1..i : file[j] = s[k]
      <4>1. 1..i - 1 \subseteq 1..i
        OBVIOUS
      <4>2. QED
        BY <4>1, <2>3
    <3>3. Ascending(f[i]) /\ \A k \in 1..Len(f[i]) : \E j \in 1..i : file[j] = f[i][k]
      BY <3>1, <3>2, <2>2, <2>3, Zenon
    <3>4. QED
      BY <3>3
  <2>5. CASE r.addr \in A
    <3>1. PICK t \in Seq(Record) : /\ t = f[i] /\ Len(t) = l + 1 /\ t[l + 1] = r
                                   /\ \A k \in 1..l : t[k] = s[k]
      <4>1. f[i] = s \o <<r>>
        BY <2>1, <2>2, <2>5, <1>2 DEF IfIn
      <4>2. /\ s \o <<r>> \in Seq(Record) /\ Len(s \o <<r>>) = l + 1 /\ (s \o <<r>>)[l + 1] = r
            /\ \A k \in 1..l : (s \o <<r>>)[k] = s[k]
        BY <2>2
      <4>3. QED
        BY <4>1, <4>2
    <3>2. ASSUME NEW k \in 1..l + 1
          PROVE  \E j \in 1..i : file[j] = t[k]
      <4>1. CASE k = l + 1
        BY <4>1, <3>1, <2>1
      <4>2. CASE k # l + 1
        <5>1. k \in 1..l
          BY <4>2
        <5>2. PICK j \in 1..i - 1 : file[j] = s[k]
          BY <5>1, <2>3
        <5>3. j \in 1..i
          OBVIOUS
        <5>4. QED
          BY <5>1, <5>2, <5>3, <3>1
      <4>3. QED
        BY <4>1, <4>2
    <3>3. ASSUME NEW k \in 1..l + 1, NEW m \in 1..l + 1, k < m
          PROVE  Ends(t[k]) <= t[m].addr
      <4>1. k \in 1..l
        BY <3>3
      <4>2. CASE m = l + 1
        <5>1. PICK j \in 1..i - 1 : file[j] = s[k]
          BY <4>1, <2>3
        <5>2. j \in 1..n /\ j < i
          OBVIOUS
        <5>3. Ends(file[j]) <= file[i].addr
          BY <5>2, <1>1 DEF Ascending
        <5>4. QED
          BY <4>1, <4>2, <5>1, <5>3, <3>1, <2>1
      <4>3. CASE m # l + 1
        <5>1. m \in 1..l
          BY <4>3
        <5>2. QED
          BY <4>1, <5>1, <3>1, <3>3, <2>2, <2>3 DEF Ascending
      <4>4. QED
        BY <4>2, <4>3
    <3>4. Ascending(t)
      BY <3>1, <3>3 DEF Ascending
    <3>5. \A k \in 1..Len(t) : \E j \in 1..i : file[j] = t[k]
      BY <3>1, <3>2
    <3>6. QED
      BY <3>1, <3>4, <3>5
  <2>6. QED
    BY <2>4, <2>5
<1> HIDE DEF S
<1>5. 0..n \subseteq S
  BY <1>3, <1>4, UpTo
<1>6. n \in S
  BY <1>5
<1>7. QED
  BY <1>2, <1>6 DEF S

LEMMA ExtendedDisjoint ==
  ASSUME NEW f \in Seq(Record), Disjoint(f), NEW r, Clear(f, r), NEW c, Extended(f, r, c)
  PROVE  Disjoint(c)
<1>1. PICK n \in Nat : n = Len(f) /\ DOMAIN f = 1..n
  OBVIOUS
<1>2. /\ DOMAIN c = 1..n + 1 /\ c[n + 1] = r /\ \A i \in 1..n : c[i] = f[i]
  BY <1>1 DEF Extended
<1>3. \A i \in 1..n + 1 : i \in 1..n \/ i = n + 1
  BY <1>1
<1>4. ASSUME NEW i \in 1..n + 1, NEW j \in 1..n + 1, i # j
      PROVE  Span(c[i]) \cap Span(c[j]) = {}
  <2>1. CASE i \in 1..n /\ j \in 1..n
    BY <2>1, <1>1, <1>2, <1>4 DEF Disjoint
  <2>2. CASE i \in 1..n /\ j = n + 1
    BY <2>2, <1>1, <1>2 DEF Clear
  <2>3. CASE i = n + 1 /\ j \in 1..n
    BY <2>3, <1>1, <1>2 DEF Clear
  <2>4. QED
    BY <2>1, <2>2, <2>3, <1>3, <1>4
<1>5. QED
  BY <1>2, <1>4 DEF Disjoint

(* The combined file on its way to the board, for files the tool can       *)
(* handle: the application comes last, in the secure alias.                *)
App(o, img) == [addr |-> o, data |-> img]

Fit(f, o, img) ==
  /\ f \in Seq(Record) /\ HasBase(f) /\ Disjoint(f)
  /\ o \in Code \cup Alias /\ img \in Seq(Nat) /\ img # <<>>
  /\ \A a \in Covered(f) \cap (Code \cup Alias) : Remap(a) < Remap(o) /\ a \notin Alias
  /\ Agree(f, <<App(o, img)>>)

LEMMA AliasAbove ==
  ASSUME NEW a \in Alias, NEW c \in Code
  PROVE  c < a
<1>1. PICK lo \in Nat, hi \in Nat : lo = CodeBase /\ Code = lo..hi /\ hi = Max(Code)
  BY CodeIs
<1>2. AliasBase \in Nat /\ hi < AliasBase
  BY <1>1, OptionsAssumed
<1>3. PICK d \in Code : a = d - CodeBase + AliasBase
  BY DEF Alias
<1>4. d \in lo..hi /\ c \in lo..hi /\ a = d - lo + AliasBase
  BY <1>1, <1>3
<1>5. QED
  BY <1>2, <1>4

LEMMA AppIs ==
  ASSUME NEW o \in Nat, NEW img \in Seq(Nat), img # <<>>
  PROVE  App(o, img) \in Record /\ App(o, img).addr = o /\ App(o, img).data = img
BY DEF App, Record

(* The file the application was added to                                   *)
LEMMA CombinedIs ==
  ASSUME NEW f, NEW o, NEW img, Fit(f, o, img)
  PROVE  LET c == Combine(f, img, o) IN
         /\ c \in Seq(Record) /\ Disjoint(c) /\ HasBase(c)
         /\ \A x : In(x, c) <=> In(x, f) \/ x = App(o, img)
<1>1. /\ f \in Seq(Record) /\ HasBase(f) /\ Disjoint(f) /\ o \in Code \cup Alias
      /\ img \in Seq(Nat) /\ img # <<>> /\ Agree(f, <<App(o, img)>>)
  BY DEF Fit
<1>2. o \in Nat
  BY <1>1, RemapIs
<1>3. PICK r \in Record : r = App(o, img) /\ Extended(f, r, Combine(f, img, o))
  <2>1. Extended(f, App(o, img), Combine(f, img, o))
    BY <1>1, <1>2, CombineIs DEF App
  <2>2. QED
    BY <2>1, <1>1, <1>2, AppIs
<1>4. PICK c : c = Combine(f, img, o) /\ Extended(f, r, c)
  BY <1>3
<1>5. PICK n \in Nat : n = Len(f) /\ DOMAIN f = 1..n
  BY <1>1
<1>6. /\ c \in Seq(Record) /\ Len(c) = n + 1 /\ c[n + 1] = r /\ \A i \in 1..n : c[i] = f[i]
  BY <1>4, <1>5 DEF Extended
<1>7. Clear(f, r)
  <2>1. Covered(<<r>>) = Span(r)
    <3>1. DOMAIN <<r>> = {1} /\ <<r>>[1] = r
      OBVIOUS
    <3>2. QED
      BY <3>1 DEF Covered
  <2>2. Covered(f) \cap Span(r) = {}
    BY <1>1, <1>3, <2>1 DEF Agree
  <2>3. \A i \in 1..n : Span(f[i]) \subseteq Covered(f)
    BY <1>5 DEF Covered
  <2>4. QED
    BY <1>5, <2>2, <2>3 DEF Clear
<1>8. Disjoint(c)
  BY <1>1, <1>4, <1>7, ExtendedDisjoint
<1>9. HasBase(c)
  BY <1>1, <1>4, BaseKept
<1>10. ASSUME NEW x
       PROVE  In(x, c) <=> In(x, f) \/ x = r
  <2>1. \A i \in 1..n + 1 : i \in 1..n \/ i = n + 1
    BY <1>5
  <2>2. 1..n \subseteq 1..n + 1 /\ n + 1 \in 1..n + 1
    BY <1>5
  <2>3. QED
    BY <2>1, <2>2, <1>5, <1>6 DEF In
<1>11. QED
  BY <1>3, <1>4, <1>6, <1>8, <1>9, <1>10

LEMMA BlocksAre ==
  ASSUME NEW f, NEW o, NEW img, Fit(f, o, img), InRange(CodeBlocks(Combine(f, img, o)))
  PROVE  LET blocks == CodeBlocks(Combine(f, img, o)) IN
         /\ blocks \in Seq(Record) /\ Orderly(blocks)
         /\ \A x : In(x, blocks) <=> (In(x, f) /\ x.addr \in Code) \/ x = App(Remap(o), img)
<1>1. /\ f \in Seq(Record) /\ o \in Code \cup Alias
      /\ img \in Seq(Nat) /\ img # <<>>
      /\ \A a \in Covered(f) \cap (Code \cup Alias) : Remap(a) < Remap(o) /\ a \notin Alias
  BY DEF Fit
<1>2. PICK c \in Seq(Record), r \in Record :
        /\ c = Combine(f, img, o) /\ r = App(o, img) /\ r.addr = o /\ r.data = img
        /\ Disjoint(c) /\ \A x : In(x, c) <=> In(x, f) \/ x = r
  <2>1. o \in Nat
    BY <1>1, RemapIs
  <2>2. PICK r : r = App(o, img)
    OBVIOUS
  <2>3. r \in Record /\ r.addr = o /\ r.data = img
    BY <2>1, <2>2, <1>1, AppIs
  <2>4. PICK c : c = Combine(f, img, o)
    OBVIOUS
  <2>5. /\ c \in Seq(Record) /\ Disjoint(c)
        /\ \A x : In(x, c) <=> In(x, f) \/ x = App(o, img)
    BY <2>4, CombinedIs
  <2>6. \A x : In(x, c) <=> In(x, f) \/ x = r
    BY <2>2, <2>5, Zenon
  <2>7. QED
    BY <2>2, <2>3, <2>4, <2>5, <2>6
<1>3. PICK mine \in Seq(Record) : /\ mine = StartingIn(Sort(c), Code \cup Alias) /\ Ascending(mine)
                                  /\ \A x : In(x, mine) <=> (In(x, f) \/ x = r) /\ x.addr \in Code \cup Alias
  <2>1. PICK s \in Seq(Record) : s = Sort(c) /\ Ascending(s) /\ \A x : In(x, s) <=> In(x, c)
    BY <1>2, SortIs, SortAscending
  <2>2. \A x : In(x, StartingIn(s, Code \cup Alias)) <=> In(x, s) /\ x.addr \in Code \cup Alias
    BY StartingInIs, Zenon
  <2>3. StartingIn(s, Code \cup Alias) \in Seq(Record)
    BY StartingInIs, Zenon
  <2>4. Ascending(StartingIn(s, Code \cup Alias))
    BY <2>1, TakenAscending, Zenon
  <2>5. QED
    BY <2>1, <2>2, <2>3, <2>4, <1>2
<1>4. PICK n \in Nat : n = Len(mine) /\ DOMAIN mine = 1..n
  OBVIOUS
<1>5. PICK blocks \in Seq(Record) :
        /\ blocks = CodeBlocks(c) /\ Len(blocks) = n
        /\ \A i \in 1..n : blocks[i] = [mine[i] EXCEPT !.addr = Remap(mine[i].addr)]
  <2>1. CodeBlocks(c) \in Seq(Record)
    BY CodeBlocksAre
  <2>2. CodeBlocks(c) = [i \in 1..n |-> [mine[i] EXCEPT !.addr = Remap(mine[i].addr)]]
    BY <1>3, <1>4 DEF CodeBlocks
  <2>3. Len(CodeBlocks(c)) = n
    BY <2>1, <2>2
  <2>4. QED
    BY <2>1, <2>2, <2>3
<1>6. ASSUME NEW x, In(x, f)
      PROVE  x \in Record /\ Span(x) \subseteq Covered(f) /\ x.addr \in Span(x)
  <2>1. PICK i \in 1..Len(f) : f[i] = x
    BY <1>6 DEF In
  <2>2. f[i] \in Record /\ i \in DOMAIN f
    BY <1>1
  <2>3. QED
    BY <2>1, <2>2, RecordIs DEF Covered
<1>7. ASSUME NEW x, In(x, f), x.addr \in Code \cup Alias
      PROVE  x.addr \in Code /\ Remap(x.addr) = x.addr /\ x.addr < Remap(o)
  <2>1. x.addr \in Covered(f) \cap (Code \cup Alias)
    BY <1>6, <1>7
  <2>2. Remap(x.addr) < Remap(o) /\ x.addr \notin Alias
    BY <2>1, <1>1
  <2>3. QED
    BY <2>2, <1>7 DEF Remap
<1>8. ASSUME NEW i \in 1..n
      PROVE  /\ mine[i] \in Record /\ (In(mine[i], f) \/ mine[i] = r)
             /\ In(mine[i], f) => blocks[i] = mine[i] /\ mine[i].addr \in Code /\ mine[i].addr < Remap(o)
             /\ mine[i] = r => blocks[i] = App(Remap(o), img)
  <2>1. PICK x \in Record : x = mine[i]
    BY <1>4
  <2>2. In(x, mine)
    BY <2>1, <1>4 DEF In
  <2>3. (In(x, f) \/ x = r) /\ x.addr \in Code \cup Alias
    BY <2>2, <1>3
  <2>4. blocks[i] = [x EXCEPT !.addr = Remap(x.addr)]
    BY <2>1, <1>5
  <2>5. x = [addr |-> x.addr, data |-> x.data]
    BY DEF Record
  <2>6. blocks[i] = [addr |-> Remap(x.addr), data |-> x.data]
    BY <2>4, <2>5
  <2>7. CASE In(x, f)
    BY <2>1, <2>3, <2>5, <2>6, <2>7, <1>2, <1>7 DEF App
  <2>8. CASE x = r
    BY <2>1, <2>3, <2>6, <2>8, <1>2, <1>7 DEF App
  <2>9. QED
    BY <2>3, <2>7, <2>8
<1>9. PICK p \in Nat, e \in Nat : p = o /\ e = Ends(r) /\ p < e
  BY <1>2, RecordIs
<1>a. Remap(o) \in Nat
  BY <1>1, RemapIs, CodeIs
<1>10. ASSUME NEW i \in 1..n, NEW j \in 1..n, i < j
       PROVE  Ends(blocks[i]) <= blocks[j].addr
  <2>1. Ends(mine[i]) <= mine[j].addr
    BY <1>3, <1>4, <1>10 DEF Ascending
  <2>2. CASE In(mine[i], f) /\ In(mine[j], f)
    BY <2>1, <2>2, <1>8
  <2>3. CASE In(mine[i], f) /\ mine[j] = r
    <3>1. PICK q \in Nat, t \in Nat : q = mine[i].addr /\ t = Ends(mine[i]) /\ q < t /\ Span(mine[i]) = q..t - 1
      <4>1. mine[i] \in Record
        BY <1>8
      <4>2. QED
        BY <4>1, RecordIs
    <3>2. t - 1 \in Span(mine[i])
      BY <3>1
    <3>3. t - 1 \in Covered(f)
      BY <3>2, <2>3, <1>6
    <3>4. blocks[i] = mine[i] /\ blocks[j] = App(Remap(o), img)
      BY <2>3, <1>8
    <3>5. t - 1 \in Code
      <4>1. i \in DOMAIN blocks
        BY <1>5
      <4>2. Span(blocks[i]) \subseteq Code
        BY <4>1, <1>2, <1>5 DEF InRange
      <4>3. QED
        BY <4>2, <3>2, <3>4
    <3>6. Remap(t - 1) < Remap(o) /\ t - 1 \notin Alias
      BY <3>3, <3>5, <1>1
    <3>7. t - 1 < Remap(o)
      BY <3>6 DEF Remap
    <3>8. blocks[j].addr = Remap(o)
      BY <3>4 DEF App
    <3>9. QED
      BY <3>1, <3>4, <3>7, <3>8, <1>a
  <2>4. CASE mine[i] = r /\ In(mine[j], f)
    <3>1. PICK y \in Nat : y = mine[j].addr /\ y \in Code /\ y < Remap(o)
      BY <2>4, <1>8, RecordIs
    <3>2. p < y
      BY <2>1, <2>4, <3>1, <1>9
    <3>3. o \notin Alias
      <4> SUFFICES ASSUME o \in Alias PROVE FALSE
        OBVIOUS
      <4>1. y < o
        BY <3>1, AliasAbove
      <4>2. QED
        BY <4>1, <3>2, <1>9
    <3>4. Remap(o) = o
      BY <3>3 DEF Remap
    <3>5. QED
      BY <3>1, <3>2, <3>4, <1>9
  <2>5. CASE mine[i] = r /\ mine[j] = r
    BY <2>1, <2>5, <1>2, <1>9
  <2>6. QED
    BY <2>2, <2>3, <2>4, <2>5, <1>8
<1>11. Orderly(blocks)
  <2> SUFFICES ASSUME NEW i \in 2..n PROVE Ends(blocks[i - 1]) <= blocks[i].addr
    BY <1>5 DEF Orderly
  <2>1. i - 1 \in 1..n /\ i \in 1..n /\ i - 1 < i
    OBVIOUS
  <2>2. QED
    BY <2>1, <1>10
<1>12. ASSUME NEW x
       PROVE  In(x, blocks) <=> (In(x, f) /\ x.addr \in Code) \/ x = App(Remap(o), img)
  <2>1. ASSUME In(x, blocks)
        PROVE  (In(x, f) /\ x.addr \in Code) \/ x = App(Remap(o), img)
    <3>1. PICK i \in 1..n : x = blocks[i]
      BY <2>1, <1>5 DEF In
    <3>2. QED
      BY <3>1, <1>8
  <2>2. ASSUME In(x, f), x.addr \in Code
        PROVE  In(x, blocks)
    <3>1. In(x, mine)
      BY <2>2, <1>3
    <3>2. PICK i \in 1..n : mine[i] = x
      BY <3>1, <1>4 DEF In
    <3>3. blocks[i] = x
      BY <3>2, <2>2, <1>8
    <3>4. QED
      BY <3>3, <1>5 DEF In
  <2>3. ASSUME x = App(Remap(o), img)
        PROVE  In(x, blocks)
    <3>1. In(r, mine)
      BY <1>1, <1>2, <1>3
    <3>2. PICK i \in 1..n : mine[i] = r
      BY <3>1, <1>4 DEF In
    <3>3. blocks[i] = x
      BY <3>2, <2>3, <1>8
    <3>4. QED
      BY <3>3, <1>5 DEF In
  <2>4. QED
    BY <2>1, <2>2, <2>3
<1>13. QED
  BY <1>2, <1>5, <1>11, <1>12

(* What the certificates are about is what the board has afterwards:       *)
(* whether it was read from the combined file or from the bootloader that  *)
(* is in it.                                                               *)
LEMMA WholeOf ==
  ASSUME NEW blocks \in Seq(Record), Orderly(blocks), NEW x, In(x, blocks), NEW a \in Span(x)
  PROVE  a \in Covered(blocks) /\ Whole(blocks, a) = ByteOf(x, a)
<1>1. PICK i \in 1..Len(blocks) : blocks[i] = x
  BY DEF In
<1>2. DOMAIN blocks = 1..Len(blocks)
  OBVIOUS
<1>3. a \in Covered(blocks)
  BY <1>1, <1>2 DEF Covered
<1>4. Whole(blocks, a) = ByteOf(blocks[i], a)
  BY <1>1, WholeIs
<1>5. QED
  BY <1>1, <1>3, <1>4

LEMMA CoveredIn ==
  ASSUME NEW file \in Seq(Record), NEW a
  PROVE  a \in Covered(file) <=> \E x : In(x, file) /\ a \in Span(x)
<1>1. DOMAIN file = 1..Len(file)
  OBVIOUS
<1>2. QED
  BY <1>1 DEF Covered, In

LEMMA AppInCode ==
  ASSUME NEW o \in Code
  PROVE  Remap(o) = o
<1>1. o \in Nat
  BY CodeIs
<1>2. o \notin Alias
  BY <1>1, AliasAbove
<1>3. QED
  BY <1>2 DEF Remap

(* The records of a source that start in the code flash are blocks.        *)
Source(source, f, o, img) == source = f \/ source = Combine(f, img, o)

LEMMA SourceIs ==
  ASSUME NEW f, NEW o, NEW img, Fit(f, o, img), NEW source, Source(source, f, o, img)
  PROVE  /\ source \in Seq(Record) /\ HasBase(source)
         /\ \A x : In(x, f) => In(x, source)
         /\ \A x : In(x, source) <=> In(x, f) \/ (source # f /\ x = App(o, img))
<1>1. f \in Seq(Record) /\ HasBase(f)
  BY DEF Fit
<1>2. CASE source = f
  BY <1>1, <1>2
<1>3. CASE source # f
  <2>1. source = Combine(f, img, o)
    BY <1>3 DEF Source
  <2>2. /\ source \in Seq(Record) /\ HasBase(source)
        /\ \A x : In(x, source) <=> In(x, f) \/ x = App(o, img)
    BY <2>1, CombinedIs
  <2>3. QED
    BY <2>2, <1>3
<1>4. QED
  BY <1>2, <1>3

LEMMA ReadIsWhole ==
  ASSUME NEW f, NEW o, NEW img, Fit(f, o, img), Remap(o) % CrcUnit = 0,
         NEW blocks, blocks = CodeBlocks(Combine(f, img, o)), InRange(blocks),
         NEW source, Source(source, f, o, img),
         NEW m \in Nat \ {0}, NEW x, ReadFrom(source, x, m), NEW i \in 1..Len(x)
  PROVE  x[i] = Whole(blocks, CodeBase + i - 1)
<1>1. PICK code \in Seq(Record) : /\ code = StartingIn(source, Code)
                                  /\ \A y : In(y, code) <=> In(y, source) /\ y.addr \in Code
  <2>1. source \in Seq(Record)
    BY SourceIs, Zenon
  <2>2. /\ StartingIn(source, Code) \in Seq(Record)
        /\ \A y : In(y, StartingIn(source, Code)) <=> In(y, source) /\ y.addr \in Code
    BY <2>1, StartingInIs, Zenon
  <2>3. QED
    BY <2>2
<1>2. /\ CodeBase + m - 1 \in Covered(code) \cap Code
      /\ \A a \in Covered(code) \cap Code : a <= CodeBase + m - 1
      /\ x \in Seq(Nat) /\ Len(x) = AlignUp(m, CrcUnit)
      /\ \A j \in 1..m : x[j] = Shown(code, CodeBase + j - 1)
      /\ \A j \in m + 1..Len(x) : x[j] = 255
  BY <1>1 DEF ReadFrom
<1>3. PICK lo \in Nat, hi \in Nat : lo = CodeBase /\ Code = lo..hi /\ lo % Sector = 0
  BY CodeIs
<1>4. PICK a \in Nat : a = CodeBase + i - 1 /\ a = lo + i - 1 /\ lo <= a
  <2>1. i \in Nat /\ 1 <= i
    BY <1>2
  <2>2. lo + i - 1 \in Nat /\ lo <= lo + i - 1
    BY <2>1
  <2>3. QED
    BY <2>2, <1>3
<1>5. /\ blocks \in Seq(Record) /\ Orderly(blocks)
      /\ \A y : In(y, blocks) <=> (In(y, f) /\ y.addr \in Code) \/ y = App(Remap(o), img)
  BY BlocksAre
<1>6. \A y : In(y, source) <=> In(y, f) \/ (source # f /\ y = App(o, img))
  BY SourceIs
<1>7. App(o, img).addr = o
  BY DEF App
<1>8. ASSUME NEW y, In(y, code)
      PROVE  In(y, blocks)
  <2>1. In(y, source) /\ y.addr \in Code
    BY <1>1, <1>8
  <2>2. CASE In(y, f)
    BY <2>1, <2>2, <1>5
  <2>3. CASE y = App(o, img)
    <3>1. o \in Code
      BY <2>1, <2>3, <1>7
    <3>2. y = App(Remap(o), img)
      BY <3>1, <2>3, AppInCode
    <3>3. QED
      BY <3>2, <1>5
  <2>4. QED
    BY <2>1, <2>2, <2>3, <1>6
<1>9. CASE a \in Covered(code)
  <2>1. ByteAt(code, a) = Whole(blocks, a)
    <3>1. PICK j \in 1..Len(code) : a \in Span(code[j]) /\ ByteAt(code, a) = ByteOf(code[j], a)
      BY <1>1, <1>9, ByteAtIs
    <3>2. In(code[j], code)
      BY DEF In
    <3>3. In(code[j], blocks)
      BY <3>2, <1>8
    <3>4. QED
      BY <3>1, <3>3, <1>5, WholeOf
  <2>2. a \in Code
    <3>1. PICK y : In(y, code) /\ a \in Span(y)
      BY <1>1, <1>9, CoveredIn
    <3>2. PICK j \in 1..Len(blocks) : blocks[j] = y
      BY <3>1, <1>8 DEF In
    <3>3. j \in DOMAIN blocks
      BY <1>5
    <3>4. QED
      BY <3>1, <3>2, <3>3 DEF InRange
  <2>3. i <= m
    <3>1. a <= CodeBase + m - 1
      BY <2>2, <1>2, <1>9
    <3>2. i \in Nat
      BY <1>2
    <3>3. QED
      BY <3>1, <3>2, <1>3, <1>4
  <2>4. x[i] = Shown(code, CodeBase + i - 1)
    <3>1. i \in 1..m
      BY <2>3, <1>2
    <3>2. QED
      BY <3>1, <1>2
  <2>5. x[i] = ByteAt(code, a)
    BY <2>2, <2>4, <1>4, <1>9 DEF Shown
  <2>6. QED
    BY <2>1, <2>5, <1>4
<1>10. CASE a \notin Covered(code)
  <2>1. x[i] = 255
    <3>1. CASE i \in 1..m
      <4>1. x[i] = Shown(code, a)
        BY <3>1, <1>2, <1>4
      <4>2. QED
        BY <4>1, <1>10 DEF Shown
    <3>2. CASE i \in m + 1..Len(x)
      BY <3>2, <1>2
    <3>3. i \in 1..m \/ i \in m + 1..Len(x)
      BY <1>2
    <3>4. QED
      BY <3>1, <3>2, <3>3
  <2>2. a \notin Covered(blocks)
    <3> SUFFICES ASSUME a \in Covered(blocks) PROVE FALSE
      OBVIOUS
    <3>1. PICK y : In(y, blocks) /\ a \in Span(y)
      BY <1>5, CoveredIn
    <3>2. ~ In(y, code)
      BY <3>1, <1>1, <1>10, CoveredIn
    <3>3. y = App(Remap(o), img)
      <4>1. In(y, f) /\ y.addr \in Code => In(y, code)
        BY <1>1, <1>6
      <4>2. QED
        BY <4>1, <3>1, <3>2, <1>5
    <3>4. PICK c \in Nat : /\ c = Remap(o) /\ c \in Code /\ c % CrcUnit = 0
      <4>1. o \in Code \cup Alias
        BY DEF Fit
      <4>2. Remap(o) \in Code
        BY <4>1, RemapIs
      <4>3. QED
        BY <4>2, CodeIs
    <3>5. ~ In(App(o, img), code)
      <4> SUFFICES ASSUME In(App(o, img), code) PROVE FALSE
        OBVIOUS
      <4>1. o \in Code
        BY <1>1, <1>7
      <4>2. App(o, img) = y
        BY <4>1, <3>3, AppInCode
      <4>3. QED
        BY <4>2, <3>2
    <3>6. lo + m - 1 < c
      <4>1. lo + m - 1 \in Covered(code) /\ lo + m - 1 \in Code
        BY <1>2, <1>3
      <4>2. PICK z : In(z, code) /\ lo + m - 1 \in Span(z)
        BY <4>1, <1>1, CoveredIn
      <4>3. In(z, f)
        BY <4>2, <3>5, <1>1, <1>6
      <4>4. lo + m - 1 \in Covered(f)
        BY <4>2, <4>3, CoveredIn DEF Fit
      <4>5. Remap(lo + m - 1) < Remap(o) /\ lo + m - 1 \notin Alias
        BY <4>1, <4>4 DEF Fit
      <4>6. QED
        BY <4>5, <3>4 DEF Remap
    <3>7. lo % CrcUnit = 0
      BY <1>3, OptionsAssumed, MultipleOfMultiple
    <3>8. CrcUnit \in Nat \ {0}
      BY OptionsAssumed
    <3>9. PICK n \in Nat : n = c - lo /\ n % CrcUnit = 0 /\ m <= n
      <4>1. lo <= c
        BY <3>4, <1>3
      <4>2. (c - lo) % CrcUnit = 0
        BY <4>1, <3>4, <3>7, <3>8, MultiplesSum
      <4>3. c - lo \in Nat
        BY <4>1
      <4>4. m <= c - lo
        BY <3>6, <4>1
      <4>5. QED
        BY <4>2, <4>3, <4>4
    <3>10. PICK u \in Nat : u = AlignUp(m, CrcUnit) /\ u % CrcUnit = 0 /\ u < m + CrcUnit
      BY <3>8, AlignUpIs
    <3>11. u <= n
      BY <3>8, <3>9, <3>10, Above
    <3>12. i <= u /\ i \in Nat
      BY <3>10, <1>2
    <3>13. a < c
      BY <3>9, <3>11, <3>12, <1>4
    <3>14. c <= a
      <4>1. img \in Seq(Nat) /\ img # <<>>
        BY DEF Fit
      <4>2. y \in Record /\ y.addr = c
        BY <4>1, <3>3, <3>4, AppIs
      <4>3. PICK p \in Nat, e \in Nat : p = y.addr /\ Span(y) = p..e - 1
        BY <4>2, RecordIs
      <4>4. QED
        BY <4>2, <4>3, <3>1
    <3>15. QED
      BY <3>13, <3>14
  <2>3. QED
    BY <2>1, <2>2, <1>4 DEF Whole
<1>11. QED
  BY <1>9, <1>10

(* ... and it lies in the part of the flash that holds the file.           *)
LEMMA ReadWithin ==
  ASSUME NEW f, NEW o, NEW img, Fit(f, o, img),
         NEW blocks, blocks = CodeBlocks(Combine(f, img, o)), InRange(blocks),
         NEW source, Source(source, f, o, img),
         NEW m \in Nat \ {0}, NEW x, ReadFrom(source, x, m), NEW i \in 1..Len(x)
  PROVE  LET a == CodeBase + i - 1 IN
         /\ a \in Code
         /\ \E p, q \in Covered(blocks) : p <= a /\ a < AlignUp(q + 1, Phrase)
<1>1. PICK code \in Seq(Record) : /\ code = StartingIn(source, Code)
                                  /\ \A y : In(y, code) <=> In(y, source) /\ y.addr \in Code
  <2>1. source \in Seq(Record)
    BY SourceIs, Zenon
  <2>2. /\ StartingIn(source, Code) \in Seq(Record)
        /\ \A y : In(y, StartingIn(source, Code)) <=> In(y, source) /\ y.addr \in Code
    BY <2>1, StartingInIs, Zenon
  <2>3. QED
    BY <2>2
<1>2. CodeBase + m - 1 \in Covered(code) \cap Code /\ x \in Seq(Nat) /\ Len(x) = AlignUp(m, CrcUnit)
  BY <1>1 DEF ReadFrom
<1>3. PICK lo \in Nat, hi \in Nat : /\ lo = CodeBase /\ lo \in Code /\ Code = lo..hi
                                    /\ lo % Sector = 0 /\ (hi + 1) % Sector = 0
  BY CodeIs
<1>4. /\ blocks \in Seq(Record) /\ Orderly(blocks)
      /\ \A y : In(y, blocks) <=> (In(y, f) /\ y.addr \in Code) \/ y = App(Remap(o), img)
  BY BlocksAre
<1>5. lo \in Covered(blocks)
  <2>1. f \in Seq(Record)
    BY DEF Fit
  <2>2. PICK j \in DOMAIN f : f[j].addr = lo
    BY <1>3 DEF Fit, HasBase
  <2>3. f[j] \in Record /\ In(f[j], f)
    BY <2>1 DEF In
  <2>4. In(f[j], blocks)
    BY <2>2, <2>3, <1>3, <1>4
  <2>5. lo \in Span(f[j])
    BY <2>2, <2>3, RecordIs
  <2>6. QED
    BY <2>4, <2>5, <1>4, CoveredIn
<1>6. PICK q \in Nat : q = lo + m - 1 /\ q \in Covered(blocks) /\ q <= hi
  <2>1. lo + m - 1 \in Covered(code) /\ lo + m - 1 \in Code
    BY <1>2, <1>3
  <2>2. PICK y : In(y, code) /\ lo + m - 1 \in Span(y)
    BY <2>1, <1>1, CoveredIn
  <2>3. In(y, source) /\ y.addr \in Code
    BY <2>2, <1>1
  <2>4. In(y, blocks)
    <3>1. In(y, f) \/ y = App(o, img)
      BY <2>3, SourceIs
    <3>2. CASE y = App(o, img)
      <4>1. o \in Code
        BY <2>3, <3>2 DEF App
      <4>2. QED
        BY <4>1, <3>2, <1>4, AppInCode
    <3>3. QED
      BY <3>1, <3>2, <2>3, <1>4
  <2>5. lo + m - 1 \in Covered(blocks)
    BY <2>2, <2>4, <1>4, CoveredIn
  <2>6. lo + m - 1 \in Nat /\ lo + m - 1 <= hi
    BY <2>1, <1>3
  <2>7. QED
    BY <2>5, <2>6
<1>7. CrcUnit \in Nat \ {0} /\ Phrase \in Nat \ {0} /\ Phrase % CrcUnit = 0
  BY OptionsAssumed
<1>8. lo % CrcUnit = 0 /\ (hi + 1) % Phrase = 0
  <2>1. lo % Phrase = 0
    BY <1>3, OptionsAssumed, MultipleOfMultiple
  <2>2. hi + 1 \in Nat
    BY <1>3
  <2>3. (hi + 1) % Phrase = 0
    BY <2>2, <1>3, OptionsAssumed, MultipleOfMultiple
  <2>4. lo % CrcUnit = 0
    BY <2>1, <1>7, MultipleOfMultiple
  <2>5. QED
    BY <2>3, <2>4
<1>9. PICK u \in Nat : u = AlignUp(m, CrcUnit) /\ u % CrcUnit = 0 /\ u < m + CrcUnit
  BY <1>7, AlignUpIs
<1>10. PICK d \in Nat : d = AlignUp(q + 1, Phrase) /\ d % Phrase = 0 /\ q + 1 <= d /\ d < (q + 1) + Phrase
  <2>1. q + 1 \in Nat
    BY <1>6
  <2>2. QED
    BY <2>1, <1>7, AlignUpIs
<1>11. lo + u <= d
  <2>1. (u + lo) % CrcUnit = 0
    BY <1>7, <1>8, <1>9, MultiplesSum
  <2>2. d % CrcUnit = 0
    BY <1>7, <1>10, MultipleOfMultiple
  <2>3. PICK y \in Nat, w \in Nat : y = u + lo /\ w = lo + m /\ w = q + 1
    <3>1. u + lo \in Nat /\ lo + m \in Nat /\ lo + m = q + 1
      BY <1>6
    <3>2. QED
      BY <3>1
  <2>4. w <= d /\ y < w + CrcUnit
    <3>1. w <= d
      BY <2>3, <1>10
    <3>2. u < m + CrcUnit /\ CrcUnit \in Nat
      BY <1>7, <1>9
    <3>3. y < w + CrcUnit
      BY <3>2, <2>3
    <3>4. QED
      BY <3>1, <3>3
  <2>5. y <= d
    BY <2>1, <2>2, <2>3, <2>4, <1>7, Above
  <2>6. QED
    BY <2>3, <2>5
<1>12. d <= hi + 1
  <2>1. PICK top \in Nat, w \in Nat : top = hi + 1 /\ w = q + 1
    <3>1. hi + 1 \in Nat /\ q + 1 \in Nat
      BY <1>6
    <3>2. QED
      BY <3>1
  <2>2. w <= top /\ d < w + Phrase
    BY <2>1, <1>6, <1>10
  <2>3. QED
    BY <2>1, <2>2, <1>7, <1>8, <1>10, Above
<1>13. i \in Nat /\ 1 <= i /\ i <= u
  BY <1>2, <1>9
<1>14. PICK a \in Nat : a = lo + i - 1 /\ lo <= a /\ a < d /\ a <= hi
  <2>1. lo + i - 1 \in Nat /\ lo <= lo + i - 1
    BY <1>13
  <2>2. lo + i - 1 < d
    BY <1>11, <1>13
  <2>3. lo + i - 1 <= hi
    BY <2>2, <1>12, <2>1
  <2>4. QED
    BY <2>1, <2>2, <2>3
<1>15. a = CodeBase + i - 1
  BY <1>3, <1>14
<1>16. a \in Code
  BY <1>3, <1>14
<1>17. QED
  BY <1>5, <1>6, <1>10, <1>14, <1>15, <1>16

(* The key in the bootloader: a record that has a byte of the code flash   *)
(* starts in it, since only one record has the first byte.                 *)
LEMMA StartsInCode ==
  ASSUME NEW f \in Seq(Record), HasBase(f), Disjoint(f), NEW i \in 1..Len(f),
         NEW a \in Span(f[i]) \cap Code
  PROVE  f[i].addr \in Code
<1>1. PICK lo \in Nat, hi \in Nat : lo = CodeBase /\ Code = lo..hi
  BY CodeIs
<1>2. PICK j \in 1..Len(f) : f[j].addr = lo
  BY <1>1 DEF HasBase
<1>3. f[i] \in Record /\ f[j] \in Record
  OBVIOUS
<1>4. PICK p \in Nat, e \in Nat : p = f[i].addr /\ Span(f[i]) = p..e - 1
  BY <1>3, RecordIs
<1>5. lo \in Span(f[j])
  BY <1>2, <1>3, RecordIs
<1>6. CASE lo <= p
  BY <1>1, <1>4, <1>6
<1>7. CASE p < lo
  <2>1. lo \in Span(f[i])
    BY <1>1, <1>4, <1>7
  <2>2. i # j
    BY <1>2, <1>4, <1>7
  <2>3. i \in DOMAIN f /\ j \in DOMAIN f
    OBVIOUS
  <2>4. QED
    BY <2>1, <2>2, <2>3, <1>5 DEF Disjoint
<1>8. QED
  BY <1>1, <1>4, <1>6, <1>7

LEMMA KeyedSame ==
  ASSUME NEW f \in Seq(Record), NEW k, NEW w, Keyed(f, k, w)
  PROVE  /\ w \in Seq(Record) /\ Covered(w) = Covered(f) /\ (Disjoint(f) => Disjoint(w))
<1>1. /\ w \in Seq(Record) /\ DOMAIN w = DOMAIN f
      /\ \A i \in DOMAIN f : Span(w[i]) = Span(f[i])
  BY DEF Keyed
<1>2. Covered(w) = Covered(f)
  BY <1>1 DEF Covered
<1>3. Disjoint(f) => Disjoint(w)
  BY <1>1 DEF Disjoint
<1>4. QED
  BY <1>1, <1>2, <1>3

LEMMA KeyInBlocks ==
  ASSUME NEW f \in Seq(Record), HasBase(f), Disjoint(f), NEW k, NEW w, Keyed(f, k, w),
         NEW blocks \in Seq(Record), Orderly(blocks),
         \A x : In(x, w) /\ x.addr \in Code => In(x, blocks),
         NEW a \in KeyArea, a \in Covered(f) \cap Code
  PROVE  a \in Covered(blocks) /\ Whole(blocks, a) = KeyDer(k)[a - KeyAddr + 1]
<1>1. PICK i \in 1..Len(f) : a \in Span(f[i])
  BY DEF Covered
<1>2. f[i].addr \in Code
  BY <1>1, StartsInCode
<1>3. /\ i \in 1..Len(w) /\ w[i].addr = f[i].addr /\ a \in Span(w[i])
      /\ ByteOf(w[i], a) = KeyDer(k)[a - KeyAddr + 1]
  BY <1>1 DEF Keyed
<1>4. In(w[i], w)
  BY <1>3 DEF In
<1>5. In(w[i], blocks)
  BY <1>2, <1>3, <1>4
<1>6. QED
  BY <1>3, <1>5, WholeOf

-----------------------------------------------------------------------------
(* What the steps keep of the files: the combined file is the bootloader,  *)
(* with the key if it was written into it, and the signed image behind it; *)
(* the certificates are about what was read of one of them.                *)
Base == IF withkey = <<>> THEN boot ELSE withkey

FilesMade ==
  stage \in {"certify", "program", "options", "done"} =>
    /\ boot \in Bootloader /\ (withkey = <<>> \/ Keyed(boot, key, withkey))
    /\ image # <<>> /\ Agree(Base, <<App(offset, image)>>)
    /\ combined = Combine(Base, image, offset)

Certified ==
  stage \in {"program", "options", "done"} =>
    \E source \in {Base, combined} :
      LET read == ParseSrec(source) IN
      certs.code.size = Len(read) /\ Cert!FsblAccepts(certs.key, certs.code, Root, read)

LEMMA MadeInit == ImageInit => FilesMade /\ Certified
BY DEF ImageInit, FilesMade, Certified

LEMMA MadeStep == ImageInv /\ FilesMade /\ [ImageNext]_ImageVars => FilesMade'
<1> SUFFICES ASSUME ImageInv, FilesMade, [ImageNext]_ImageVars PROVE FilesMade'
  OBVIOUS
<1>1. CASE SignApp
  <2>1. stage' \in {"failed", "combine"}
    BY <1>1 DEF SignApp
  <2>2. QED
    BY <2>1 DEF FilesMade
<1>2. CASE MakeCombined
  <2>1. CASE stage' = "failed"
    BY <2>1 DEF FilesMade
  <2>2. CASE stage' # "failed"
    <3>1. PICK f \in Bootloader, inject \in BOOLEAN :
            boot' = f /\ withkey' = IF inject THEN InjectKey(f, KeyDer(key), KeyAddr) ELSE <<>>
      BY <1>2 DEF MakeCombined
    <3>2. /\ stage = "combine" /\ key' = key /\ image' = image /\ offset' = offset
          /\ Agree(Base', <<App(offset, image)>>) /\ combined' = Combine(Base', image, offset)
      BY <1>2, <2>2 DEF MakeCombined, Base, App
    <3>3. image # <<>> /\ key \in Nat
      <4>1. image # <<>> /\ key \in Key \cup {TempKey}
        BY <3>2 DEF ImageInv, ImageTypeOK, Sources
      <4>2. QED
        BY <4>1, FirmwareImageAssumption DEF TempKey
    <3>4. f \in Seq(Record)
      BY FirmwareImageAssumption
    <3>5. withkey' = <<>> \/ Keyed(f, key, withkey')
      <4>1. Keyed(f, key, InjectKey(f, KeyDer(key), KeyAddr))
        BY <3>3, <3>4, InjectKeyIs, Zenon
      <4>2. QED
        BY <4>1, <3>1
    <3>6. withkey' = <<>> \/ Keyed(boot', key', withkey')
      BY <3>1, <3>2, <3>5
    <3>7. QED
      BY <3>1, <3>2, <3>3, <3>6 DEF FilesMade
  <2>3. QED
    BY <2>1, <2>2
<1>3. CASE GenFsblCerts
  <2>1. stage = "certify" /\ UNCHANGED <<key, image, offset, boot, withkey, combined>>
    BY <1>3 DEF GenFsblCerts
  <2>2. QED
    BY <2>1 DEF FilesMade, Base
<1>4. CASE ProgramSrec
  <2>1. stage = "program" /\ UNCHANGED <<key, image, offset, boot, withkey, combined>>
    BY <1>4 DEF ProgramSrec
  <2>2. QED
    BY <2>1 DEF FilesMade, Base
<1>5. CASE ProgramOptions
  <2>1. stage = "options" /\ UNCHANGED <<key, image, offset, boot, withkey, combined>>
    BY <1>5 DEF ProgramOptions
  <2>2. QED
    BY <2>1 DEF FilesMade, Base
<1>6. CASE UNCHANGED ImageVars
  BY <1>6 DEF ImageVars, FilesMade, Base
<1>7. QED
  BY <1>1, <1>2, <1>3, <1>4, <1>5, <1>6 DEF ImageNext

(* The FSBL accepts what gen-fsbl-certs has validated, for the image it    *)
(* was made of.                                                            *)
LEMMA ValidIsAccepted ==
  ASSUME NEW read, NEW m, NEW n,
         NEW kc, kc = Cert!KeyCertificate(Root, Bl, m),
         NEW cc, cc = Cert!CodeCertificate(Bl, CertifiedImage(read), Cert!Hash(Bl), n),
         Cert!Validate(kc, cc, Root, Bl, read)
  PROVE  cc.size = Len(read) /\ Cert!FsblAccepts(kc, cc, Root, read)
<1>1. kc.root = Root /\ kc.keyhash = Cert!Hash(Bl)
  BY DEF Cert!KeyCertificate
<1>2. cc.bl = Bl /\ cc.size = Len(CertifiedImage(read)) /\ cc.crc = CertifiedImage(read)
  BY DEF Cert!CodeCertificate
<1>3. /\ Cert!VerifyChain(kc, cc) /\ Cert!VerifyKeyCert(kc, Root)
      /\ Cert!VerifyCodeCert(cc, Bl, read) /\ cc.crc = read
  BY DEF Cert!Validate, Cert!VerifyCrc
<1>4. cc.size = Len(read)
  BY <1>2, <1>3
<1>5. QED
  BY <1>1, <1>2, <1>3, <1>4, Zenon DEF Cert!FsblAccepts

LEMMA CertifiedStep == ImageInv /\ Certified /\ [ImageNext]_ImageVars => Certified'
<1> SUFFICES ASSUME ImageInv, Certified, [ImageNext]_ImageVars PROVE Certified'
  OBVIOUS
<1>1. CASE SignApp \/ MakeCombined
  <2>1. stage' \in {"failed", "combine", "certify"}
    BY <1>1 DEF SignApp, MakeCombined
  <2>2. QED
    BY <2>1 DEF Certified
<1>2. CASE GenFsblCerts
  <2>1. CASE stage' = "failed"
    BY <2>1 DEF Certified
  <2>2. CASE stage' # "failed"
    <3>1. PICK source \in IF withkey # <<>> THEN {withkey} ELSE {combined, boot},
               m \in SigLengths, n \in SigLengths :
            LET read == ParseSrec(source)
                kc == Cert!KeyCertificate(Root, Bl, m)
                cc == Cert!CodeCertificate(Bl, CertifiedImage(read), Cert!Hash(Bl), n) IN
            certs' = [key |-> kc, code |-> cc] /\ Cert!Validate(kc, cc, Root, Bl, read)
      BY <1>2, <2>2, Zenon DEF GenFsblCerts
    <3>2. UNCHANGED <<boot, withkey, combined>>
      BY <1>2 DEF GenFsblCerts
    <3>3. source \in {Base', combined'}
      BY <3>1, <3>2 DEF Base
    <3>4. PICK read : read = ParseSrec(source)
      OBVIOUS
    <3>5. PICK kc, cc : /\ kc = Cert!KeyCertificate(Root, Bl, m)
                        /\ cc = Cert!CodeCertificate(Bl, CertifiedImage(read), Cert!Hash(Bl), n)
      OBVIOUS
    <3>6. certs' = [key |-> kc, code |-> cc] /\ Cert!Validate(kc, cc, Root, Bl, read)
      BY <3>1, <3>4, <3>5, Zenon
    <3>7. cc.size = Len(read) /\ Cert!FsblAccepts(kc, cc, Root, read)
      BY <3>5, <3>6, ValidIsAccepted, Zenon
    <3>8. certs'.key = kc /\ certs'.code = cc
      BY <3>6
    <3>9. certs'.code.size = Len(read) /\ Cert!FsblAccepts(certs'.key, certs'.code, Root, read)
      BY <3>7, <3>8, Zenon
    <3>10. QED
      BY <3>3, <3>4, <3>9, Zenon DEF Certified
  <2>3. QED
    BY <2>1, <2>2
<1>3. CASE ProgramSrec
  <2>1. stage = "program" /\ UNCHANGED <<boot, withkey, combined, certs>>
    BY <1>3 DEF ProgramSrec
  <2>2. QED
    BY <2>1 DEF Certified, Base
<1>4. CASE ProgramOptions
  <2>1. stage = "options" /\ UNCHANGED <<boot, withkey, combined, certs>>
    BY <1>4 DEF ProgramOptions
  <2>2. QED
    BY <2>1 DEF Certified, Base
<1>5. CASE UNCHANGED ImageVars
  BY <1>5 DEF ImageVars, Certified, Base
<1>6. QED
  BY <1>1, <1>2, <1>3, <1>4, <1>5 DEF ImageNext

(* A board that holds the file has its certified image from the start of   *)
(* the flash.                                                              *)
LEMMA CertifiedInFlash ==
  ASSUME NEW f, NEW o, NEW img, Fit(f, o, img), Remap(o) % CrcUnit = 0,
         NEW blocks, blocks = CodeBlocks(Combine(f, img, o)), InRange(blocks),
         NEW source, Source(source, f, o, img),
         NEW flash, Holds(flash, blocks)
  PROVE  [i \in 1..Len(ParseSrec(source)) |-> flash[CodeBase + i - 1]] = ParseSrec(source)
<1>1. source \in Seq(Record) /\ HasBase(source)
  BY SourceIs, Zenon
<1>2. PICK m \in Nat \ {0} : ReadFrom(source, ParseSrec(source), m)
  BY <1>1, ParseSrecIs
<1>3. PICK x : x = ParseSrec(source) /\ ReadFrom(source, x, m)
  BY <1>2
<1>4. x \in Seq(Nat)
  BY <1>3 DEF ReadFrom
<1>5. ASSUME NEW i \in 1..Len(x)
      PROVE  flash[CodeBase + i - 1] = x[i]
  <2>1. x[i] = Whole(blocks, CodeBase + i - 1)
    BY <1>3, ReadIsWhole
  <2>2. PICK a : a = CodeBase + i - 1
    OBVIOUS
  <2>3. a \in Code /\ \E p, q \in Covered(blocks) : p <= a /\ a < AlignUp(q + 1, Phrase)
    BY <1>3, <2>2, ReadWithin
  <2>4. flash[a] = Whole(blocks, a)
    BY <2>3 DEF Holds
  <2>5. QED
    BY <2>1, <2>2, <2>4
<1>6. x = [i \in 1..Len(x) |-> x[i]]
  BY <1>4
<1>7. [i \in 1..Len(x) |-> flash[CodeBase + i - 1]] = [i \in 1..Len(x) |-> x[i]]
  BY <1>5
<1>8. QED
  BY <1>3, <1>6, <1>7

(* ... and each byte of a block at its place.                              *)
LEMMA HeldByte ==
  ASSUME NEW blocks \in Seq(Record), InRange(blocks), NEW flash, Holds(flash, blocks),
         NEW a \in Covered(blocks)
  PROVE  flash[a] = Whole(blocks, a)
<1>1. PICK i \in DOMAIN blocks : a \in Span(blocks[i])
  BY DEF Covered
<1>2. a \in Code
  BY <1>1 DEF InRange
<1>3. a \in Nat
  BY <1>2, CodeIs
<1>4. a + 1 \in Nat /\ Phrase \in Nat \ {0}
  BY <1>3, OptionsAssumed
<1>5. a + 1 <= AlignUp(a + 1, Phrase) /\ AlignUp(a + 1, Phrase) \in Nat
  BY <1>4, AlignUpIs
<1>6. a <= a /\ a < AlignUp(a + 1, Phrase)
  BY <1>3, <1>5
<1>7. QED
  BY <1>2, <1>6 DEF Holds

LEMMA AppInFlash ==
  ASSUME NEW o \in Nat, NEW img \in Seq(Nat), img # <<>>,
         NEW blocks \in Seq(Record), Orderly(blocks), InRange(blocks), In(App(o, img), blocks),
         NEW flash, Holds(flash, blocks)
  PROVE  [i \in 1..Len(img) |-> flash[o + i - 1]] = img
<1>1. PICK r \in Record : r = App(o, img) /\ r.addr = o /\ r.data = img
  BY AppIs
<1>2. PICK n \in Nat : n = Len(img)
  OBVIOUS
<1>3. Span(r) = o..o + n - 1
  BY <1>1, <1>2, SpanIs
<1>4. ASSUME NEW i \in 1..n
      PROVE  flash[o + i - 1] = img[i]
  <2>1. PICK a \in Nat : a = o + i - 1 /\ a - o + 1 = i
    <3>1. o + i - 1 \in Nat /\ (o + i - 1) - o + 1 = i
      OBVIOUS
    <3>2. QED
      BY <3>1
  <2>2. a \in Span(r)
    BY <2>1, <1>3
  <2>3. In(r, blocks)
    BY <1>1
  <2>4. a \in Covered(blocks) /\ Whole(blocks, a) = ByteOf(r, a)
    BY <2>2, <2>3, WholeOf
  <2>5. ByteOf(r, a) = img[i]
    BY <2>1, <1>1 DEF ByteOf
  <2>6. flash[a] = img[i]
    BY <2>4, <2>5, HeldByte
  <2>7. QED
    BY <2>1, <2>6
<1>5. img = [i \in 1..n |-> img[i]]
  BY <1>2
<1>6. [i \in 1..n |-> flash[o + i - 1]] = [i \in 1..n |-> img[i]]
  BY <1>4
<1>7. QED
  BY <1>2, <1>5, <1>6

LEMMA KeyInFlash ==
  ASSUME NEW f \in Seq(Record), HasBase(f), Disjoint(f), NEW k, NEW w, Keyed(f, k, w),
         NEW blocks \in Seq(Record), Orderly(blocks), InRange(blocks),
         \A x : In(x, w) /\ x.addr \in Code => In(x, blocks),
         KeyArea \subseteq Covered(f), NEW flash, Holds(flash, blocks)
  PROVE  [i \in 1..3 |-> flash[KeyAddr + i - 1]] = KeyDer(k)
<1>1. KeyAddr \in Nat /\ KeyArea \subseteq Code
  BY FirmwareImageAssumption
<1>2. ASSUME NEW i \in 1..3
      PROVE  flash[KeyAddr + i - 1] = KeyDer(k)[i]
  <2>1. PICK a \in Nat : a = KeyAddr + i - 1 /\ a \in KeyAddr..KeyAddr + 2 /\ a - KeyAddr + 1 = i
    <3>1. /\ KeyAddr + i - 1 \in Nat /\ KeyAddr + i - 1 \in KeyAddr..KeyAddr + 2
          /\ (KeyAddr + i - 1) - KeyAddr + 1 = i
      BY <1>1
    <3>2. QED
      BY <3>1
  <2>2. a \in KeyArea /\ a \in Covered(f) \cap Code
    BY <2>1, <1>1 DEF KeyArea
  <2>3. a \in Covered(blocks) /\ Whole(blocks, a) = KeyDer(k)[a - KeyAddr + 1]
    BY <2>2, KeyInBlocks
  <2>4. flash[a] = Whole(blocks, a)
    BY <2>3, HeldByte
  <2>5. QED
    BY <2>1, <2>3, <2>4
<1>3. KeyDer(k) = [i \in 1..3 |-> KeyDer(k)[i]]
  BY DEF KeyDer
<1>4. [i \in 1..3 |-> flash[KeyAddr + i - 1]] = [i \in 1..3 |-> KeyDer(k)[i]]
  BY <1>2
<1>5. QED
  BY <1>3, <1>4

-----------------------------------------------------------------------------
FitsBase ==
  /\ Fit(Base, offset, image) /\ Remap(offset) % CrcUnit = 0 /\ Remap(offset) \in Nat
  /\ boot \in Seq(Record) /\ HasBase(boot) /\ Disjoint(boot) /\ KeyArea \subseteq Covered(boot)
  /\ withkey # <<>> => Base = withkey /\ Keyed(boot, key, withkey)

LEMMA MadeFits == ImageInv /\ FilesMade /\ stage = "done" /\ FitFiles => FitsBase
<1> SUFFICES ASSUME ImageInv, FilesMade, stage = "done", FitFiles PROVE FitsBase
  OBVIOUS
<1>1. /\ boot \in Bootloader /\ (withkey = <<>> \/ Keyed(boot, key, withkey))
      /\ image # <<>> /\ Agree(Base, <<App(offset, image)>>)
  BY DEF FilesMade
<1>2. boot \in Seq(Record) /\ HasBase(boot)
  BY <1>1, FirmwareImageAssumption DEF HasBase
<1>3. /\ offset \in Code \cup Alias /\ Remap(offset) % CrcUnit = 0
      /\ \A a \in Covered(boot) \cap (Code \cup Alias) : Remap(a) < Remap(offset) /\ a \notin Alias
      /\ Disjoint(boot) /\ KeyArea \subseteq Covered(boot)
  BY DEF FitFiles
<1>4. Remap(offset) \in Nat
  BY <1>3, RemapIs, CodeIs
<1>5. image \in Seq(Nat)
  BY DEF ImageInv, ImageTypeOK
<1>6. Base \in Seq(Record) /\ HasBase(Base) /\ Disjoint(Base) /\ Covered(Base) = Covered(boot)
  <2>1. CASE withkey = <<>>
    BY <2>1, <1>2, <1>3 DEF Base
  <2>2. CASE withkey # <<>>
    <3>1. Keyed(boot, key, withkey) /\ Base = withkey
      BY <2>2, <1>1 DEF Base
    <3>2. withkey \in Seq(Record) /\ Covered(withkey) = Covered(boot) /\ Disjoint(withkey)
      BY <3>1, <1>2, <1>3, KeyedSame
    <3>3. HasBase(withkey)
      BY <3>1, <1>2, BaseKept
    <3>4. QED
      BY <3>1, <3>2, <3>3
  <2>3. QED
    BY <2>1, <2>2
<1>7. Fit(Base, offset, image)
  BY <1>1, <1>3, <1>5, <1>6 DEF Fit
<1>8. QED
  BY <1>1, <1>2, <1>3, <1>4, <1>7 DEF FitsBase, Base

LEMMA BoardFollows ==
  ImageInv /\ Programmed /\ FilesMade /\ Certified /\ SignedIsAccepted => BoardBoots
<1> SUFFICES ASSUME ImageInv, Programmed, FilesMade, Certified, SignedIsAccepted,
                    stage = "done", FitFiles, AllErased(CodeBlocks(combined))
             PROVE  LET at(a, n) == [i \in 1..n |-> board.flash[a + i - 1]] IN
                    /\ Cert!FsblAccepts(certs.key, certs.code, Root, at(CodeBase, certs.code.size))
                    /\ withkey # <<>> =>
                         /\ at(KeyAddr, 3) = KeyDer(key)
                         /\ Accepted(at(Remap(offset), Len(image)), key)
  BY DEF BoardBoots
<1>1. FitsBase
  BY MadeFits
<1>2. /\ Fit(Base, offset, image) /\ Remap(offset) % CrcUnit = 0 /\ Remap(offset) \in Nat
      /\ boot \in Seq(Record) /\ HasBase(boot) /\ Disjoint(boot) /\ KeyArea \subseteq Covered(boot)
      /\ withkey # <<>> => Base = withkey /\ Keyed(boot, key, withkey)
  BY <1>1 DEF FitsBase
<1>3. combined = Combine(Base, image, offset) /\ image # <<>> /\ image \in Seq(Nat)
  BY DEF FilesMade, ImageInv, ImageTypeOK
<1>4. PICK blocks : blocks = CodeBlocks(combined)
  OBVIOUS
<1>5. InRange(blocks)
  BY <1>4 DEF Programmed
<1>6. /\ blocks \in Seq(Record) /\ Orderly(blocks)
      /\ \A x : In(x, blocks) <=> (In(x, Base) /\ x.addr \in Code) \/ x = App(Remap(offset), image)
  <2>1. InRange(CodeBlocks(Combine(Base, image, offset)))
    BY <1>3, <1>4, <1>5
  <2>2. LET b == CodeBlocks(Combine(Base, image, offset)) IN
        /\ b \in Seq(Record) /\ Orderly(b)
        /\ \A x : In(x, b) <=> (In(x, Base) /\ x.addr \in Code) \/ x = App(Remap(offset), image)
    BY <1>2, <2>1, BlocksAre, Zenon
  <2>3. QED
    BY <2>2, <1>3, <1>4
<1>7. PICK flash : flash = board.flash /\ Holds(flash, blocks)
  BY <1>4, <1>6 DEF Programmed
<1>8. PICK source : /\ source \in {Base, combined} /\ certs.code.size = Len(ParseSrec(source))
                    /\ Cert!FsblAccepts(certs.key, certs.code, Root, ParseSrec(source))
  BY DEF Certified
<1>9. Source(source, Base, offset, image)
  BY <1>3, <1>8 DEF Source
<1>10. [i \in 1..Len(ParseSrec(source)) |-> flash[CodeBase + i - 1]] = ParseSrec(source)
  BY <1>2, <1>3, <1>4, <1>5, <1>7, <1>9, CertifiedInFlash
<1>11. Cert!FsblAccepts(certs.key, certs.code, Root,
                        [i \in 1..certs.code.size |-> flash[CodeBase + i - 1]])
  BY <1>8, <1>10
<1>12. ASSUME withkey # <<>>
       PROVE  /\ [i \in 1..3 |-> flash[KeyAddr + i - 1]] = KeyDer(key)
              /\ Accepted([i \in 1..Len(image) |-> flash[Remap(offset) + i - 1]], key)
  <2>1. Base = withkey /\ Keyed(boot, key, withkey)
    BY <1>2, <1>12
  <2>2. \A x : In(x, withkey) /\ x.addr \in Code => In(x, blocks)
    BY <2>1, <1>6
  <2>3. [i \in 1..3 |-> flash[KeyAddr + i - 1]] = KeyDer(key)
    BY <2>1, <2>2, <1>2, <1>5, <1>6, <1>7, KeyInFlash
  <2>4. In(App(Remap(offset), image), blocks)
    BY <1>6
  <2>5. [i \in 1..Len(image) |-> flash[Remap(offset) + i - 1]] = image
    BY <2>4, <1>2, <1>3, <1>5, <1>6, <1>7, AppInFlash
  <2>6. Accepted(image, key)
    BY <1>3 DEF SignedIsAccepted
  <2>7. QED
    BY <2>3, <2>5, <2>6
<1>13. QED
  BY <1>7, <1>11, <1>12

(* After a success the board boots, with every bootloader, application and *)
(* address that fit each other, and all lengths of signatures: the FSBL    *)
(* accepts the certificates for what the flash has, from whichever file    *)
(* they were made, and the bootloader finds the key that was written into  *)
(* it and an application it accepts with it.                               *)
THEOREM BoardBootsHolds == ImageSpec => []BoardBoots
<1> DEFINE BoardInv == ImageInv /\ Programmed /\ FilesMade /\ Certified /\ SignedIsAccepted
<1>1. ImageInit => BoardInv
  <2>1. ImageInit => Programmed
    BY DEF ImageInit, Programmed
  <2>2. QED
    BY <2>1, InvInit, MadeInit, SignedInit
<1>2. BoardInv /\ [ImageNext]_ImageVars => BoardInv'
  <2>1. SUFFICES ASSUME BoardInv, [ImageNext]_ImageVars PROVE BoardInv'
    OBVIOUS
  <2>2. ImageInv' /\ Programmed' /\ FilesMade' /\ Certified' /\ SignedIsAccepted'
    BY <2>1, InvStep, FlashStep, MadeStep, CertifiedStep, SignedStep
  <2>3. QED
    BY <2>2
<1>3. BoardInv => BoardBoots
  BY BoardFollows
<1> HIDE DEF BoardInv
<1>4. QED
  BY <1>1, <1>2, <1>3, PTL DEF ImageSpec
=============================================================================
