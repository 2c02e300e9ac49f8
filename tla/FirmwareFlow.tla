----------------------------- MODULE FirmwareFlow -----------------------------
(***************************************************************************)
(* From an application and a bootloader to what program-device writes:     *)
(* sign-app, make-combined-srec and gen-fsbl-certs, which workflow-all     *)
(* runs one after the other, and the choice of the files to program.       *)
(* sign-app (FlowManager) and program-device take the flow folder with the *)
(* last name, the others the one with the last modification time.          *)
(*                                                                         *)
(* One operator runs one command at a time; as in KeyFlow a command is one *)
(* step with the file systems between its writes as further outcomes.      *)
(* Where the UFPKs are is KeyFlow's matter: here a pair is always found,   *)
(* and a folder may or may not have been kept by its UFPK files.           *)
(***************************************************************************)
EXTENDS Naturals, Sequences, FiniteSets, FlowFolders

CONSTANTS Root, Bl,  \* OEM root keys, OEM bootloader keys
          Cust,      \* customer keys, which sign applications
          App, Boot, \* builds of application.bin and of bootloader.srec
          Version,   \* certificate versions
          MaxFlows,  \* bound: flow folders
          MaxSteps   \* bound: what the operator does, workflow-all counted once

OrAbsent(S) == S \cup {Absent}

(* A signed application and its key; a bootloader, with the key it was     *)
(* built with (Absent) or the customer's written over it; the two          *)
(* certificates of a version                                               *)
Signed == [app : App, key : Cust \cup Bl]
Image == [boot : Boot, key : OrAbsent(Cust \cup Bl)]
CombinedFile == [signed : Signed, image : Image]
KeyCert == [root : Root, bl : Bl]
CodeCert == [bl : Bl, image : Image]
Certs == [key : [Version -> OrAbsent(KeyCert)], code : [Version -> OrAbsent(CodeCert)]]
NoCerts == [key |-> [v \in Version |-> Absent], code |-> [v \in Version |-> Absent]]

FlowFolder == [rkey     : OrAbsent(Root),   \* oem_root_key.rkey
               pem      : OrAbsent(Root),   \* oem_root_public.pem
               blpem    : OrAbsent(Bl),     \* oem_bl_public.pem
               signed   : OrAbsent(Signed), \* <application>.bin.signed
               withkey  : OrAbsent(Image),  \* bootloader_with_aws_key.srec
               combined : OrAbsent(CombinedFile), \* combined.srec
               certs    : OrAbsent(Certs)]  \* certs/oem_{key,code}_cert_v{n}.bin
File == {"rkey", "pem", "blpem", "signed", "withkey", "combined", "certs"}

Configs == [root : Root, bl : Bl, cust : Cust, app : App, boot : Boot, version : Version,
            inject : BOOLEAN]

ASSUME FirmwareFlowAssumption ==
  /\ Version \subseteq Nat /\ IsFiniteSet(Version) /\ MaxFlows \in Nat /\ MaxSteps \in Nat
  /\ Absent \notin Root \cup Bl \cup Cust \cup App \cup Boot
  /\ Absent \notin Signed \cup Image \cup CombinedFile \cup KeyCert \cup CodeCert \cup Certs

VARIABLES
  fs,        \* flows, recent, reusable (output/reusable/oem_root_key.rkey)
  config,    \* project_config.json, and the builds it names
  standard,  \* the application is called application.bin
  task,      \* what workflow-all does next; "done" right after it
  steps,     \* what the operator has done so far
  strayed    \* history: what may have led program-device astray

vars == <<fs, config, standard, task, steps, strayed>>

(* hand: a folder that is not the last has been modified by hand.          *)
(* root: keys on file are of another root key than the configured one,     *)
(*   which was edited after they were made or was not the one picked in    *)
(*   workflow generate-rkey; a complete run of it with the configured key  *)
(*   replaces them.                                                        *)
(* demo: combined without the key where a bootloader with it lies.         *)
(* version: certificates of two versions in one folder                     *)
Strays == {"hand", "root", "demo", "version"}

Idle == task \in {"", "done"}

(* A command ends in the last of its stages or is cut before; then         *)
(* workflow-all goes on with `next' or ends.                               *)
Outcome(stages, next) ==
  \E k \in DOMAIN stages :
    /\ fs' = stages[k]
    /\ Len(fs'.flows) <= MaxFlows
    /\ task' = IF k = Len(stages) THEN next ELSE ""

Fails == UNCHANGED <<fs, config, standard, strayed>> /\ task' = ""

Init ==
  /\ fs = [flows |-> <<>>, recent |-> <<>>, reusable |-> Absent]
  /\ config \in Configs /\ standard \in BOOLEAN
  /\ task = "" /\ steps = 0 /\ strayed = {}

-----------------------------------------------------------------------------
(* The commands, each by hand (task "") or as a part of workflow-all       *)

CertImportant == {"rkey", "pem", "blpem", "combined"} \cup IF standard THEN {"signed"} ELSE {}

(* FlowManager: the version of a folder is that of one of its key          *)
(* certificates, the first that glob finds.                                *)
KeyVersions(s, i) == IF Has(s, i, "certs") THEN {v \in Version : s.flows[i].certs.key[v] # Absent}
                     ELSE {}

Complete(s, i) ==
  /\ standard /\ Has(s, i, "signed") /\ Has(s, i, "combined") /\ Has(s, i, "certs")
  /\ s.flows[i].certs.key[config.version] # Absent
  /\ s.flows[i].certs.code[config.version] # Absent

OtherVersion(s, i) ==
  LET versions == KeyVersions(s, i) IN
  {v # config.version : v \in versions} \cup IF versions = {} THEN {FALSE} ELSE {}

CurrentFlow(s) ==
  LET i == ByName(s) IN
  IF i = 0 THEN {NewFlow(s, File)}
  ELSE {IF other \/ Complete(s, i) THEN NewFlow(s, File) ELSE s : other \in OtherVersion(s, i)}

SignedNow == [app |-> config.app, key |-> config.cust]
BootNow(inject) == [boot |-> config.boot, key |-> IF inject THEN config.cust ELSE Absent]

(* Mutation: sorted without reverse, the first folder is taken.            *)
SignApp_First(next) ==
  /\ \E g \in CurrentFlow(fs) : Outcome(<<g, Put(g, 1, "signed", SignedNow)>>, next)
  /\ UNCHANGED <<config, standard, strayed>>

SignApp(next) ==
  /\ \E g \in CurrentFlow(fs) :
       Outcome(<<g, Put(g, ByName(g), "signed", SignedNow)>>, next)
  /\ UNCHANGED <<config, standard, strayed>>

Combined(s, i, image) == [signed |-> s.flows[i].signed, image |-> image]

(* Mutation: the signed application is not looked for.                     *)
MakeCombined_Unchecked(inject, next) ==
  LET i == ByTime(fs) IN
  IF i # 0
  THEN /\ Outcome(<<fs, Put(fs, i, "combined", Combined(fs, i, BootNow(inject)))>>, next)
       /\ UNCHANGED <<config, standard, strayed>>
  ELSE Fails

(* The signed application of the folder, whatever its name; the key that   *)
(* is written into the bootloader is the one of the configuration.         *)
MakeCombined(inject, next) ==
  LET i == ByTime(fs)
      s1 == IF inject THEN Put(fs, i, "withkey", BootNow(TRUE)) ELSE fs
      s2 == Put(s1, i, "combined", Combined(fs, i, BootNow(inject))) IN
  IF i # 0 /\ Has(fs, i, "signed")
  THEN /\ Outcome(<<fs, s1, s2>>, next)
       /\ strayed' = (strayed \cup IF ~inject /\ Has(fs, i, "withkey") THEN {"demo"} ELSE {})
       /\ UNCHANGED <<config, standard>>
  ELSE Fails

(* Mutation: the original bootloader of the configuration, always.         *)
CrcSource_Original(s, i, combined) == BootNow(FALSE)

(* The bootloader image whose CRC goes into the code certificate           *)
CrcSource(s, i, combined) ==
  IF Has(s, i, "withkey") THEN s.flows[i].withkey
  ELSE IF combined # Absent THEN combined.image
  ELSE BootNow(FALSE)

CertsFolder == Reuse(fs, ByTime(fs), CertImportant, File)

(* The public keys are exported anew.                                      *)
WithPems(s, i) ==
  LET s1 == PutIfAbsent(s, i, "certs", NoCerts)
      s2 == Put(s1, i, "pem", config.root) IN
  <<s, s1, s2, Put(s2, i, "blpem", config.bl)>>

WithKeyCert(s, i, v) ==
  [s EXCEPT !.flows[i].certs.key[v] = [root |-> s.flows[i].pem, bl |-> s.flows[i].blpem]]

WithCodeCert(s, i, v, combined) ==
  [s EXCEPT !.flows[i].certs.code[v] =
     [bl |-> s.flows[i].blpem, image |-> CrcSource(s, i, combined)]]

GenFsblCerts(combined, version, next) ==
  LET g == CertsFolder
      i == ByTime(g)
      pems == WithPems(g, i)
      s1 == WithKeyCert(pems[4], i, version) IN
  /\ Outcome(pems \o <<s1, WithCodeCert(s1, i, version, combined)>>, next)
  /\ strayed' = (strayed \cup IF KeyVersions(g, i) \subseteq {version} THEN {} ELSE {"version"})
  /\ UNCHANGED <<config, standard>>

(* generate-rkey: the RKEY of the folder, of another folder, or a new one  *)
(* for the public key in the folder                                        *)
RkeyFor(s, i) ==
  LET j == FirstByTime(s, {k \in Flows(s) : Has(s, k, "rkey")}) IN
  IF j # 0 THEN s.flows[j].rkey ELSE s.flows[i].pem

GenerateRkey(next) ==
  /\ \E g \in {IF ByTime(fs) = 0 THEN NewFlow(fs, File) ELSE fs, Reuse(fs, ByTime(fs), CertImportant, File)} :
       LET i == ByTime(g)
           s1 == PutIfAbsent(g, i, "pem", config.root)
           s2 == PutIfAbsent(s1, i, "rkey", RkeyFor(s1, i)) IN
       Outcome(<<g, s1, s2>>, next)
  /\ UNCHANGED <<config, standard, strayed>>

-----------------------------------------------------------------------------
(* workflow-all                                                            *)

(* Step 0: an RKEY for the latest folder                                   *)
WorkflowAll ==
  LET i == ByTime(fs) IN
  IF i = 0 THEN Fails
  ELSE IF Has(fs, i, "rkey") \/ fs.reusable # Absent
  THEN /\ Outcome(<<PutIfAbsent(fs, i, "rkey", fs.reusable)>>, "sign")
       /\ UNCHANGED <<config, standard, strayed>>
  ELSE GenerateRkey("sign")

(* Steps 1 to 3; the combined file of the latest folder is looked up       *)
(* before the last.                                                        *)
WorkflowStep ==
  \/ task = "sign" /\ SignApp("combine")
  \/ task = "combine" /\ MakeCombined(config.inject, "certs")
  \/ /\ task = "certs"
     /\ LET i == ByTime(fs) IN
        IF Has(fs, i, "combined")
        THEN GenFsblCerts(fs.flows[i].combined, config.version, "done")
        ELSE Fails

-----------------------------------------------------------------------------
(* program-device                                                          *)

MaxVersion(S) == CHOOSE v \in S : \A w \in S : w <= v

(* find_cert_with_version: the highest version there is                    *)
FindCert(certs) ==
  LET versions == {v \in Version : certs[v] # Absent} IN
  IF versions = {} THEN Absent ELSE certs[MaxVersion(versions)]

(* find_file_with_fallback: the folder, output/reusable, then all folders, *)
(* the last name first                                                     *)
FindRkey(s, i) ==
  LET J == {j \in Flows(s) : Has(s, j, "rkey")} IN
  IF Has(s, i, "rkey") THEN s.flows[i].rkey
  ELSE IF s.reusable # Absent THEN s.reusable
  ELSE IF J = {} THEN Absent ELSE s.flows[MaxVersion(J)].rkey

DeviceFolder == Reuse(fs, ByName(fs), {"rkey", "combined"}, File)

Chosen ==
  LET i == ByName(DeviceFolder)
      d == DeviceFolder.flows[i]
      certs == IF d.certs = Absent THEN NoCerts ELSE d.certs IN
  [rkey |-> FindRkey(DeviceFolder, i), combined |-> d.combined,
   keyCert |-> FindCert(certs.key), codeCert |-> FindCert(certs.code)]

PickFolder ==
  /\ Outcome(<<DeviceFolder>>, "")
  /\ UNCHANGED <<config, standard, strayed>>

(* What the device does with them is DeviceProvisioning.                   *)
ProgramDevice == PickFolder

(* update-device only gets as far as its folder: it makes a client without *)
(* the port the constructor asks for.                                      *)
UpdateDevice == PickFolder

(* The older commands of the workflow group.  What prepare-srec writes is  *)
(* read by no other command.                                               *)
PrepareSrec == PickFolder

(* workflow generate-rkey makes the RKEY of a root key that the operator   *)
(* names or picks: the configuration is not read.                          *)
GenerateRkeyOf(root) ==
  LET i == ByName(fs)
      s1 == Put(fs, i, "pem", root)
      s2 == Put(s1, i, "rkey", root)
      s3 == [s2 EXCEPT !.reusable = root] IN
  /\ i # 0
  /\ Outcome(<<fs, s1, s2, s3>>, "")
  /\ strayed' = IF root = config.root THEN strayed \ {x \in {"root"} : fs' = s3}
                ELSE strayed \cup {x \in {"root"} : fs' # fs}
  /\ UNCHANGED <<config, standard>>

WorkflowGenerateRkey ==
  \/ PickFolder  \* no plain UFPK in the folder
  \/ \E root \in Root : GenerateRkeyOf(root)

(* The key of workflow sign-app: the one of the credentials, or one the    *)
(* operator picks out of the customer keys in the HSM, new ones among      *)
(* them; without any, out of the bootloader keys.                          *)
CustomerKeys == Cust \cup Bl

WithSigned(s, i, k) == Put(s, i, "signed", [app |-> config.app, key |-> k])

(* The key goes into a bootloader of another name and combined.srec.  It   *)
(* then stops: it looks for key_cert_v{n}.bin next to the combined file,   *)
(* which gen-fsbl-certs does not write.                                    *)
WithCombined(s, i, k) == Put(s, i, "combined", Combined(s, i, [boot |-> config.boot, key |-> k]))

(* In a folder that may have certificates.  With another application than  *)
(* application.bin it leaves a second signed file, which is not modelled.  *)
WorkflowSignApp ==
  LET g == DeviceFolder
      i == ByName(g) IN
  /\ standard
  /\ \E k \in CustomerKeys :
       Outcome(<<g, WithSigned(g, i, k), WithCombined(WithSigned(g, i, k), i, k)>>, "")
  /\ UNCHANGED <<config, standard, strayed>>

-----------------------------------------------------------------------------
(* The operator edits the configuration or builds anew, and looks after    *)
(* files in a folder.                                                      *)
KeysOnFile == fs.reusable # Absent \/ \E i \in Flows(fs) : HasAny(fs, i, {"rkey", "pem"})

EditConfig ==
  /\ \E c \in Configs, f \in DOMAIN config :
       /\ config' = [config EXCEPT ![f] = c[f]]
       /\ config' # config
       /\ strayed' = (strayed \cup IF f = "root" /\ KeysOnFile THEN {"root"} ELSE {})
  /\ task' = ""
  /\ UNCHANGED <<fs, standard>>

TouchByHand ==
  /\ \E i \in 1..Len(fs.flows) - 1 : fs' = Touch(fs, i)
  /\ strayed' = strayed \cup {"hand"} /\ task' = ""
  /\ UNCHANGED <<config, standard>>

ByHand ==
  \/ SignApp("") \/ GenerateRkey("") \/ WorkflowGenerateRkey
  \/ \E inject \in BOOLEAN : MakeCombined(inject, "")
  \/ \E v \in Version : GenFsblCerts(Absent, v, "")
  \/ \E v \in Version, i \in Flows(fs) :
       Has(fs, i, "combined") /\ GenFsblCerts(fs.flows[i].combined, v, "")
  \/ WorkflowAll \/ ProgramDevice \/ UpdateDevice \/ PrepareSrec \/ WorkflowSignApp
  \/ EditConfig \/ TouchByHand

Next ==
  \/ WorkflowStep /\ UNCHANGED steps
  \/ Idle /\ steps < MaxSteps /\ ByHand /\ steps' = steps + 1

Spec == Init /\ [][Next]_vars

-----------------------------------------------------------------------------
(* Every variable has its type.                                            *)
TypeOK ==
  /\ FoldersOK(fs, FlowFolder) /\ fs.reusable \in OrAbsent(Root)
  /\ config \in Configs /\ standard \in BOOLEAN
  /\ task \in {"", "sign", "combine", "certs", "done"}
  /\ steps \in 0..MaxSteps /\ strayed \subseteq Strays

(* The two ways to pick a folder, by name and by time, agree as long as    *)
(* nobody modifies an older folder by hand: all commands of one workflow   *)
(* use the same folder (flow_manager.py:32).                               *)
NameIsTime == "hand" \notin strayed => ByName(fs) = ByTime(fs)

(* After workflow-all program-device writes what the configuration says,   *)
(* whatever commands were run or cut before: the combined file of the      *)
(* present builds, with the application signed by the key that is in the   *)
(* bootloader; a code certificate with the CRC of exactly that bootloader, *)
(* by the key that the key certificate is about; and, as long as no RKEY   *)
(* or public key of another root than the configured one is on file, a key *)
(* certificate by the root key of the RKEY.                                *)
BuildIsCoherent ==
  (task = "done") =>
    /\ {"hand"} \cap strayed = {} =>
         Chosen.combined = [signed |-> SignedNow, image |-> BootNow(config.inject)]
    /\ {"hand", "demo", "version"} \cap strayed = {} =>
         Chosen.codeCert.image = Chosen.combined.image
    /\ {"hand", "version"} \cap strayed = {} => Chosen.codeCert.bl = Chosen.keyCert.bl
    /\ {"hand", "root", "version"} \cap strayed = {} => Chosen.keyCert.root = Chosen.rkey
==============================================================================
