------------------------------- MODULE KeyFlow -------------------------------
(***************************************************************************)
(* From a UFPK to an RKEY.  The operator makes a UFPK, has it wrapped by   *)
(* the DLM server, which answers by mail, and combines the plain and the   *)
(* wrapped UFPK with the OEM root public key into an RKEY for the device.  *)
(* Every command works on files it finds in a flow folder, and there are   *)
(* two generations of commands: `workflow ...' picks the folder by name,   *)
(* `generate-rkey' by modification time.                                   *)
(*                                                                         *)
(* One operator runs one command at a time.  A command is one step; the    *)
(* file systems between its writes are possible outcomes as well, since it *)
(* may fail or be killed after any write.  Only the wait of prepare-ufpk   *)
(* for the mail is a state of its own.                                     *)
(***************************************************************************)
EXTENDS Naturals, Sequences, FiniteSets, FlowFolders

CONSTANTS Ufpk,     \* UFPKs
          Root,     \* OEM root keys in the HSM
          OwnUfpk,  \* UFPKs the operator may have in a file of his own
          Owns,     \* what the operator may have and do beside the tool
          MaxFlows, \* bound: flow folders
          MaxMails  \* bound: answers of the DLM server not yet saved

OrAbsent(S) == S \cup {Absent}
Rkeys == [root : Root, plain : Ufpk, wrapped : Ufpk]

FlowFolder == [ufpk      : OrAbsent(Ufpk),   \* ufpk.key
               encrypted : OrAbsent(Ufpk),   \* ufpk_encrypted.pgp
               mail      : OrAbsent(Ufpk),   \* own.mailName, the answer of the server
               wrapped   : OrAbsent(Ufpk),   \* ufpk_wrapped_decrypted.key
               pem       : OrAbsent(Root),   \* oem_root_public.pem
               rkey      : OrAbsent(Rkeys),  \* oem_root_key.rkey
               app       : {"app", Absent}]  \* application.bin.signed
UfpkFiles == {"ufpk", "encrypted", "mail", "wrapped"}
File == UfpkFiles \cup {"pem", "rkey", "app"}

(* output/reuse_ufpk and prerequisites                                     *)
PairFolder == [ufpk : OrAbsent(Ufpk), wrapped : OrAbsent(Ufpk)]
Nothing == [ufpk |-> Absent, wrapped |-> Absent]

(* prerequisites/, output/reusable/ufpk_wrapped_decrypted.key, which no    *)
(* command writes, and the name this operator saves the mails under: that  *)
(* of the attachment (ufpk_encrypted_enc.key.pgp), wrapped_ufpk.pgp, or    *)
(* another one with .pgp                                                   *)
Own == [prereq : PairFolder, reusable : OrAbsent(Ufpk),
        mailName : {"attachment", "wrapped_ufpk", "other"}]

ASSUME KeyFlowAssumption ==
  /\ Owns \subseteq {o \in Own : o.prereq.wrapped # Absent => o.prereq.ufpk = o.prereq.wrapped}
  /\ MaxFlows \in Nat /\ MaxMails \in Nat /\ OwnUfpk \subseteq Ufpk
  /\ Absent \notin Ufpk \cup Root \cup Rkeys \cup {"app"}

VARIABLES
  fs,       \* flows, recent, and the pair reuse (output/reuse_ufpk)
  own,      \* what the operator has and does; it stays as it is
  mails,    \* answers not yet saved: <<flow of the request, UFPK>>
  waiting,  \* prepare-ufpk waits in this flow for the mail (0: it does not)
  arrived,  \* a mail has been saved there since the upload
  given,    \* history: the UFPKs each flow folder has been given
  half      \* history: generate-rkey was cut between its two copies

vars == <<fs, own, mails, waiting, arrived, given, half>>

HasPair(d) == d.ufpk # Absent /\ d.wrapped # Absent

(* What the histories record of a step                                     *)
Recorded ==
  /\ given' = [i \in 1..Len(fs'.flows) |->
                 (IF i <= Len(given) THEN given[i] ELSE {})
                   \cup ({fs'.flows[i][x] : x \in UfpkFiles} \ {Absent})]
  /\ half' = (half \/ (fs'.reuse.wrapped # Absent /\ fs'.reuse.ufpk = Absent))

(* A command ends in the last of its stages, the file systems between its  *)
(* writes, or is cut in an earlier one.                                    *)
Outcome(stages) ==
  /\ \E k \in DOMAIN stages : fs' = stages[k]
  /\ Len(fs'.flows) <= MaxFlows
  /\ Recorded
  /\ UNCHANGED own

Idle == waiting = 0

Init ==
  /\ fs = [flows |-> <<>>, recent |-> <<>>, reuse |-> Nothing]
  /\ own \in Owns
  /\ mails = {} /\ waiting = 0 /\ arrived = FALSE
  /\ given = <<>> /\ half = FALSE

-----------------------------------------------------------------------------
(* workflow prepare-ufpk-file, encrypt-ufpk, upload-dlm, decrypt-wrapped   *)
(* and generate-rkey                                                       *)

(* It also looks for two certificates, which no command puts there, and    *)
(* for combined.srec: FirmwareFlow has that file, this module leaves out   *)
(* that a folder without any key file is kept for it.                      *)
GetFlowFolder(s) == Reuse(s, ByName(s), {"ufpk", "wrapped", "rkey"}, File)

PrepareUfpkFile(u) ==
  LET g == GetFlowFolder(fs) IN
  /\ Idle
  /\ Outcome(<<g, Put(g, ByName(g), "ufpk", u)>>)
  /\ UNCHANGED <<mails, waiting, arrived>>

(* PGPClient.encrypt_file with the key of Renesas                          *)
EncryptFile(s, i, u) == Put(s, i, "encrypted", u)

EncryptUfpk ==
  LET g == GetFlowFolder(fs)
      i == ByName(g) IN
  /\ Idle
  /\ Outcome(<<g>> \o IF Has(g, i, "ufpk") THEN <<EncryptFile(g, i, g.flows[i].ufpk)>> ELSE <<>>)
  /\ UNCHANGED <<mails, waiting, arrived>>

(* DLMClient.wrap_ufpk: the server accepts the request, or not, whatever   *)
(* the client makes of the answer                                          *)
WrapUfpk(i, u) ==
  /\ mails' \in {mails, mails \cup {<<i, u>>}}
  /\ Cardinality(mails') <= MaxMails

UploadDlm ==
  LET g == GetFlowFolder(fs)
      i == ByName(g) IN
  /\ Idle
  /\ Outcome(<<g>>)
  /\ IF Has(g, i, "encrypted") THEN WrapUfpk(i, g.flows[i].encrypted) ELSE UNCHANGED mails
  /\ UNCHANGED <<waiting, arrived>>

(* gpg --decrypt with the customer's key                                   *)
DecryptFile(s, i, u) == Put(s, i, "wrapped", u)

(* The file is named on the command line: a mail saved in any folder, or   *)
(* outside of them.                                                        *)
DecryptWrapped(u) ==
  LET g == GetFlowFolder(fs) IN
  /\ Idle
  /\ (\E m \in mails : m[2] = u) \/ (\E i \in Flows(fs) : fs.flows[i].mail = u)
  /\ Outcome(<<g, DecryptFile(g, ByName(g), u)>>)
  /\ UNCHANGED <<mails, waiting, arrived>>

(* generate_rkey_from_files                                                *)
MakeRkey(root, plain, wrapped) == [root |-> root, plain |-> plain, wrapped |-> wrapped]

(* Mutation: it is looked for in prerequisites/, where README.md puts it.  *)
PairFor_Prereq(d) == IF d.wrapped # Absent THEN d ELSE [d EXCEPT !.wrapped = own.prereq.wrapped]

(* Without a wrapped UFPK in the folder the one in output/reusable goes    *)
(* with the plain one of the folder.                                       *)
PairFor(d) == IF d.wrapped # Absent THEN d ELSE [d EXCEPT !.wrapped = own.reusable]

(* (The copy of the RKEY in output/reusable is for FirmwareFlow.)          *)
WorkflowGenerateRkey(root) ==
  LET g == GetFlowFolder(fs)
      i == ByName(g)
      d == PairFor(g.flows[i])
      s1 == Put(g, i, "pem", root)
      rkey == MakeRkey(root, d.ufpk, d.wrapped)
      s2 == Put(s1, i, "rkey", rkey) IN
  /\ Idle
  /\ Outcome(<<g>> \o (IF d.ufpk = Absent THEN <<>> ELSE <<s1>>)
                   \o (IF HasPair(d) THEN <<s2>> ELSE <<>>))
  /\ UNCHANGED <<mails, waiting, arrived>>

-----------------------------------------------------------------------------
(* prepare-ufpk: everything up to the wrapped UFPK in one command          *)

(* A decrypted file in any folder ends the command at once, unless that    *)
(* folder has a wrapped_ufpk.pgp, which is found before it.                *)
NothingToPrepare ==
  \E i \in Flows(fs) :
    Has(fs, i, "wrapped") /\ (own.mailName = "wrapped_ufpk" => ~Has(fs, i, "mail"))

(* The mail of an earlier request is in the folder, under a known name.    *)
HasKnownMail(s, i) == Has(s, i, "mail") /\ own.mailName # "other"

PrepareFromMail ==
  LET g == GetFlowFolder(fs)
      i == ByName(g) IN
  /\ Idle /\ ~NothingToPrepare
  /\ HasKnownMail(g, i)
  /\ Outcome(<<g, DecryptFile(g, i, g.flows[i].mail)>>)
  /\ UNCHANGED <<mails, waiting, arrived>>

(* The UFPK and what has been written of it: --ufpk-file, prerequisites,   *)
(* the folder's own, or a new one                                          *)
ChosenUfpk(s, i, file) ==
  IF file # Absent THEN {<<file, s>>}
  ELSE IF own.prereq.ufpk # Absent THEN {<<own.prereq.ufpk, Put(s, i, "ufpk", own.prereq.ufpk)>>}
  ELSE IF Has(s, i, "ufpk") THEN {<<s.flows[i].ufpk, s>>}
  ELSE {<<u, Put(s, i, "ufpk", u)>> : u \in Ufpk}

(* get_flow_folder runs twice: an empty folder of the first call is found  *)
(* again only within the same second.                                      *)
PrepareUfpk(file) ==
  LET g == GetFlowFolder(fs) IN
  /\ Idle /\ ~NothingToPrepare
  /\ ~HasKnownMail(g, ByName(g))
  /\ \E h \in {g, GetFlowFolder(g)} :
       LET i == ByName(h) IN
       \E c \in ChosenUfpk(h, i, file) :
         LET s2 == EncryptFile(c[2], i, c[1]) IN
         \/ /\ Outcome(<<h, c[2], s2>>)
            /\ UNCHANGED <<mails, waiting, arrived>>
         \/ /\ Outcome(<<s2>>)
            /\ WrapUfpk(i, c[1])
            /\ waiting' \in {0, i} /\ arrived' = FALSE

(* Mutation: the next wait begins with the mark of the last one.           *)
EndOfWait_Forgets ==
  /\ ~Idle
  /\ Outcome(<<fs>> \o IF arrived THEN <<DecryptFile(fs, waiting, fs.flows[waiting].mail)>> ELSE <<>>)
  /\ waiting' = 0 /\ arrived' = arrived
  /\ UNCHANGED mails

(* The file arrived and is decrypted, or five minutes are over, or gpg     *)
(* fails.                                                                  *)
EndOfWait ==
  /\ ~Idle
  /\ Outcome(<<fs>> \o IF arrived THEN <<DecryptFile(fs, waiting, fs.flows[waiting].mail)>> ELSE <<>>)
  /\ waiting' = 0 /\ arrived' = FALSE
  /\ UNCHANGED mails

(* The operator saves a mail in the folder its request came from.          *)
SaveMail(m) ==
  /\ Outcome(<<Put(fs, m[1], "mail", m[2])>>)
  /\ arrived' = (arrived \/ m[1] = waiting)
  /\ mails' = mails \ {m}
  /\ UNCHANGED waiting

-----------------------------------------------------------------------------
(* generate-rkey                                                           *)

(* (oem_bl_public.pem and combined.srec are only where pem or app is.)     *)
RkeyImportant == {"ufpk", "wrapped", "rkey", "pem", "app"}

NoPair == [from |-> "nowhere", ufpk |-> Absent, wrapped |-> Absent]
PairFrom(name, d) == [from |-> name, ufpk |-> d.ufpk, wrapped |-> d.wrapped]

(* Mutation: each file from the first place that has it.                   *)
FindPair_Apart(s) ==
  LET i == FirstByTime(s, {j \in Flows(s) : Has(s, j, "ufpk")})
      k == FirstByTime(s, {j \in Flows(s) : Has(s, j, "wrapped")})
      plain == IF i # 0 THEN s.flows[i].ufpk ELSE s.reuse.ufpk
      wrapped == IF k # 0 THEN s.flows[k].wrapped ELSE s.reuse.wrapped IN
  [from |-> "flow", ufpk |-> plain, wrapped |-> wrapped]

(* The first place with both files: the current folder, which is the       *)
(* latest by time, the others, reuse_ufpk, prerequisites                   *)
FindPair(s) ==
  LET i == FirstByTime(s, {j \in Flows(s) : HasPair(s.flows[j])}) IN
  IF i # 0 THEN PairFrom("flow", s.flows[i])
  ELSE IF HasPair(s.reuse) THEN PairFrom("reuse", s.reuse)
  ELSE IF HasPair(own.prereq) THEN PairFrom("prereq", own.prereq)
  ELSE NoPair

(* The RKEY of the folder, of the latest other folder with one, or new     *)
RkeyFor(s, i, pair) ==
  LET j == FirstByTime(s, {k \in Flows(s) : Has(s, k, "rkey")}) IN
  IF Has(s, i, "rkey") THEN s.flows[i].rkey
  ELSE IF j # 0 THEN s.flows[j].rkey
  ELSE MakeRkey(s.flows[i].pem, pair.ufpk, pair.wrapped)

(* Mutation: the folder is cleaned before the copies are made.             *)
GenerateStages_CleanFirst(g, i, pair, root) ==
  LET keep(s, x) == IF pair.from = "reuse" \/ s.reuse[x] # Absent THEN s
                    ELSE [s EXCEPT !.reuse[x] = pair[x]]
      s1 == PutIfAbsent(g, i, "pem", root)
      s2 == PutIfAbsent(s1, i, "rkey", RkeyFor(s1, i, pair))
      s3 == Remove(Remove(s2, i, "wrapped"), i, "ufpk")
      s4 == keep(keep(s3, "wrapped"), "ufpk") IN
  <<s1, s2, s3, s4>>

(* The successive file systems: public key, RKEY, copies to reuse_ufpk,    *)
(* removal from the folder                                                 *)
GenerateStages(g, i, pair, root) ==
  LET keep(s, x) == IF pair.from = "reuse" \/ s.reuse[x] # Absent THEN s
                    ELSE [s EXCEPT !.reuse[x] = pair[x]]
      s1 == PutIfAbsent(g, i, "pem", root)
      s2 == PutIfAbsent(s1, i, "rkey", RkeyFor(s1, i, pair))
      s3 == keep(s2, "wrapped")
      s4 == keep(s3, "ufpk")
      s5 == Remove(s4, i, "wrapped")
      s6 == Remove(s5, i, "ufpk") IN
  <<s1, s2, s3, s4, s5, s6>>

GenerateRkey(root) ==
  LET g == Reuse(fs, ByTime(fs), RkeyImportant, File)
      i == ByTime(g)
      pair == FindPair(g) IN
  /\ Idle
  /\ Outcome(<<g>> \o IF HasPair(pair) THEN GenerateStages(g, i, pair, root) ELSE <<>>)
  /\ UNCHANGED <<mails, waiting, arrived>>

(* sign-app makes a folder of its own when the latest is complete, here:   *)
(* has an RKEY.  What it does in a folder that exists is not about keys.   *)
SignApp ==
  LET g == NewFlow(fs, File) IN
  /\ Idle
  /\ ByName(fs) # 0 => Has(fs, ByName(fs), "rkey")
  /\ Outcome(<<g, Put(g, ByName(g), "app", "app")>>)
  /\ UNCHANGED <<mails, waiting, arrived>>

Next ==
  \/ EncryptUfpk \/ UploadDlm \/ PrepareFromMail \/ EndOfWait \/ SignApp
  \/ \E u \in Ufpk : PrepareUfpkFile(u) \/ DecryptWrapped(u)
  \/ \E file \in OrAbsent(OwnUfpk) : PrepareUfpk(file)
  \/ \E m \in mails : SaveMail(m)
  \/ \E root \in Root : WorkflowGenerateRkey(root) \/ GenerateRkey(root)

Spec == Init /\ [][Next]_vars

-----------------------------------------------------------------------------
(* Every variable has its type.                                            *)
TypeOK ==
  /\ FoldersOK(fs, FlowFolder)
  /\ fs.reuse \in PairFolder
  /\ own \in Own
  /\ mails \subseteq Flows(fs) \X Ufpk
  /\ waiting \in Flows(fs) \cup {0}
  /\ arrived => waiting # 0 /\ Has(fs, waiting, "mail")
  /\ Len(given) = Len(fs.flows) /\ half \in BOOLEAN

Wellformed(k) ==
  \/ k.plain = k.wrapped
  \/ \E i \in Flows(fs) : {k.plain, k.wrapped} \subseteq given[i]
  \/ k.wrapped = own.reusable
  \/ half

(* The device accepts an RKEY only when the plain UFPK it was encrypted    *)
(* with is the one in the wrapped UFPK it carries.  Every RKEY, and every  *)
(* pair from which one can still be made, holds that, unless one flow      *)
(* folder was given two UFPKs, or the wrapped one is that which the        *)
(* operator left in output/reusable, or generate-rkey was cut between its  *)
(* copies.                                                                 *)
RkeyMatches ==
  /\ \A i \in Flows(fs) : Has(fs, i, "rkey") => Wellformed(fs.flows[i].rkey)
  /\ HasPair(fs.reuse) =>
       Wellformed(MakeRkey(Absent, fs.reuse.ufpk, fs.reuse.wrapped))

PairOf(d, u) == d.ufpk = u /\ d.wrapped = u
Kept(s, u) == PairOf(s.reuse, u) \/ \E i \in Flows(s) : PairOf(s.flows[i], u)
Overwritten(i, x) == Has(fs, i, x) /\ fs'.flows[i][x] \notin {fs.flows[i][x], Absent}

(* generate-rkey removes a pair from its folder only when it is safe in    *)
(* reuse_ufpk, at whatever write it is interrupted.  A pair is lost only   *)
(* to one that was there before, or when another UFPK is written over it.  *)
NoPairLost ==
  [][\A u \in Ufpk :
       Kept(fs, u) /\ ~Kept(fs', u) =>
         \/ fs.reuse # Nothing
         \/ \E i \in Flows(fs), x \in {"ufpk", "wrapped"} : Overwritten(i, x)]_vars
==============================================================================
