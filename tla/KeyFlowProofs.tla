---------------------------- MODULE KeyFlowProofs ----------------------------
(***************************************************************************)
(* Theorems about KeyFlow: its type invariant, RkeyMatches and NoPairLost. *)
(*                                                                         *)
(* A step leaves one of the file systems between the writes of a command.  *)
(* So most of the argument is about file systems, not about steps: all     *)
(* that a command reaches from fs by making folders and writing files are  *)
(* Written, which is enough for every command but generate-rkey; the       *)
(* copies and removals of that one are looked at write by write.           *)
(***************************************************************************)
EXTENDS KeyFlow, FlowFoldersProofs

(* A file system of this module                                            *)
Typed(s) ==
  /\ FileSystem(s, FlowFolder)
  /\ DOMAIN s = {"flows", "recent", "reuse"}
  /\ s.reuse \in PairFolder

RkeysMatch(s) == \A i \in Flows(s) : Has(s, i, "rkey") => Wellformed(s.flows[i].rkey)
PairMatches(d) == HasPair(d) => Wellformed(MakeRkey(Absent, d.ufpk, d.wrapped))

(* generate-rkey copies the wrapped UFPK first: the plain one is never     *)
(* alone in reuse_ufpk.                                                    *)
WrappedFirst(d) == d.ufpk # Absent => d.wrapped # Absent

(* The inductive invariant: of the file system and its histories           *)
FilesInv ==
  /\ Typed(fs)
  /\ own \in Own
  /\ own.prereq.wrapped # Absent => own.prereq.ufpk = own.prereq.wrapped
  /\ given \in Seq(SUBSET Ufpk) /\ Len(given) = Len(fs.flows)
  /\ \A i \in Flows(fs), x \in UfpkFiles : Has(fs, i, x) => fs.flows[i][x] \in given[i]
  /\ half \in BOOLEAN
  /\ fs.reuse.wrapped # Absent /\ fs.reuse.ufpk = Absent => half
  /\ RkeysMatch(fs) /\ PairMatches(fs.reuse) /\ WrappedFirst(fs.reuse)

(* ... and of the requests and their answers                               *)
MailInv ==
  /\ mails \subseteq Flows(fs) \X Ufpk
  /\ waiting \in Flows(fs) \cup {0}
  /\ arrived => waiting # 0 /\ Has(fs, waiting, "mail")

IInv == FilesInv /\ MailInv

(* What a command has made of fs by new folders and files written          *)
Written(t) ==
  /\ Typed(t)
  /\ Flows(fs) \subseteq Flows(t)
  /\ \A i \in Flows(fs), x \in {"ufpk", "wrapped", "mail"} : Has(fs, i, x) => Has(t, i, x)
  /\ t.reuse = fs.reuse
  /\ RkeysMatch(t)

(* UFPK files are only in folders of fs, that hold what they held there.   *)
OldUfpks(t) ==
  \A i \in Flows(t), x \in UfpkFiles :
    Has(t, i, x) => i \in Flows(fs) /\ t.flows[i] = fs.flows[i]

(* Contents that fit a file                                                *)
Fits(x, v) ==
  \/ x \in UfpkFiles /\ v \in Ufpk
  \/ x = "pem" /\ v \in Root
  \/ x = "rkey" /\ v \in Rkeys /\ Wellformed(v)
  \/ x = "app" /\ v = "app"

-----------------------------------------------------------------------------
LEMMA EmptyFolder == [x \in File |-> Absent] \in FlowFolder
BY DEF File, UfpkFiles, FlowFolder, OrAbsent

LEMMA FitsFolder ==
  ASSUME NEW d \in FlowFolder, NEW x, NEW v, Fits(x, v)
  PROVE  /\ [d EXCEPT ![x] = v] \in FlowFolder
         /\ v # Absent /\ x \in File
         /\ [d EXCEPT ![x] = v][x] = v
         /\ \A y \in File : y # x => [d EXCEPT ![x] = v][y] = d[y]
<1>1. v # Absent
  BY KeyFlowAssumption DEF Fits, UfpkFiles
<1>2. CASE x \in UfpkFiles /\ v \in Ufpk
  BY <1>1, <1>2 DEF UfpkFiles, File, FlowFolder, OrAbsent
<1>3. CASE x = "pem" /\ v \in Root
  BY <1>1, <1>3 DEF UfpkFiles, File, FlowFolder, OrAbsent
<1>4. CASE x = "rkey" /\ v \in Rkeys /\ Wellformed(v)
  BY <1>1, <1>4 DEF UfpkFiles, File, FlowFolder, OrAbsent
<1>5. CASE x = "app" /\ v = "app"
  BY <1>1, <1>5 DEF UfpkFiles, File, FlowFolder, OrAbsent
<1>6. QED
  BY <1>2, <1>3, <1>4, <1>5 DEF Fits

(* A change of one folder keeps the type.                                  *)
LEMMA TypedChanged ==
  ASSUME NEW s, Typed(s), NEW t, NEW i, NEW d,
         FileSystem(t, FlowFolder), Changed(s, t, i, d)
  PROVE  Typed(t) /\ t.reuse = s.reuse /\ Flows(t) = Flows(s)
<1>1. DOMAIN t = DOMAIN s /\ Flows(t) = Flows(s)
  BY DEF Changed, Beside, Flows
<1>2. t["reuse"] = s["reuse"]
  BY DEF Typed, Changed, Beside
<1>3. QED
  BY <1>1, <1>2 DEF Typed

LEMMA WrittenInit ==
  ASSUME FilesInv
  PROVE  Written(fs)
BY DEF FilesInv, Written

LEMMA WrittenNewFlow ==
  ASSUME NEW s, Written(s)
  PROVE  LET t == NewFlow(s, File) IN
         /\ Written(t)
         /\ ByName(t) \in Flows(t) /\ ByTime(t) = ByName(t)
         /\ OldUfpks(s) => OldUfpks(t)
         /\ \A j \in Flows(s) : t.flows[j] = s.flows[j]
         /\ ByName(t) \notin Flows(s)
<1> DEFINE e == [x \in File |-> Absent]
           t == NewFlow(s, File)
<1>1. Typed(s) /\ FileSystem(s, FlowFolder) /\ e \in FlowFolder
  BY EmptyFolder DEF Written, Typed
<1> HIDE DEF e
<1>2. /\ FileSystem(t, FlowFolder) /\ Beside(s, t)
      /\ t.flows = Append(s.flows, e)
      /\ ByTime(t) = ByName(t)
  BY <1>1, NewFlowMakes DEF e
<1> HIDE DEF t
<1>3. s.flows \in Seq(FlowFolder) /\ Len(s.flows) \in Nat /\ Flows(s) = 1..Len(s.flows)
  BY <1>1, FileSystemFacts
<1>4. /\ Flows(t) = 1..Len(s.flows) + 1 /\ Len(t.flows) = Len(s.flows) + 1
      /\ \A i \in Flows(s) : t.flows[i] = s.flows[i]
      /\ t.flows[Len(s.flows) + 1] = e
  BY <1>2, <1>3 DEF Flows
<1>5. Flows(s) \subseteq Flows(t)
  BY <1>3, <1>4
<1>6. ByName(t) \in Flows(t) /\ ByName(t) \notin Flows(s)
  BY <1>3, <1>4 DEF ByName
<1>7. \A i \in Flows(t) : i \in Flows(s) \/ t.flows[i] = e
  BY <1>3, <1>4
<1>8. t.reuse = s.reuse /\ Typed(t)
  <2>1. t["reuse"] = s["reuse"] /\ DOMAIN t = DOMAIN s
    BY <1>1, <1>2 DEF Typed, Beside
  <2>2. QED
    BY <2>1, <1>1, <1>2 DEF Typed
<1>9. \A x \in File : e[x] = Absent
  BY DEF e
<1>10. RkeysMatch(t)
  <2> SUFFICES ASSUME NEW i \in Flows(t), Has(t, i, "rkey")
               PROVE  Wellformed(t.flows[i].rkey)
    BY DEF RkeysMatch
  <2>1. e["rkey"] = Absent
    BY <1>9 DEF File
  <2>2. i \in Flows(s) /\ t.flows[i] = s.flows[i]
    BY <2>1, <1>4, <1>7 DEF Has
  <2>3. QED
    BY <2>2 DEF Written, RkeysMatch, Has
<1>11. \A i \in Flows(fs), x \in {"ufpk", "wrapped", "mail"} : Has(fs, i, x) => Has(t, i, x)
  BY <1>4 DEF Written, Has
<1>12. ASSUME OldUfpks(s)
       PROVE  OldUfpks(t)
  <2> SUFFICES ASSUME NEW i \in Flows(t), NEW x \in UfpkFiles, Has(t, i, x)
               PROVE  i \in Flows(fs) /\ t.flows[i] = fs.flows[i]
    BY DEF OldUfpks
  <2>1. e[x] = Absent
    BY <1>9 DEF File
  <2>2. i \in Flows(s) /\ t.flows[i] = s.flows[i]
    BY <2>1, <1>4, <1>7 DEF Has
  <2>3. QED
    BY <2>2, <1>12 DEF OldUfpks, Has
<1>13. Written(t)
  BY <1>5, <1>8, <1>10, <1>11 DEF Written
<1>14. QED
  BY <1>2, <1>4, <1>6, <1>12, <1>13 DEF t

(* Reuse: the folder that is taken is there in any case.                   *)
LEMMA WrittenReuse ==
  ASSUME NEW s, Written(s), NEW i, i # 0 => i \in Flows(s), NEW important
  PROVE  LET t == Reuse(s, i, important, File) IN
         /\ Written(t)
         /\ OldUfpks(s) => OldUfpks(t)
         /\ \A j \in Flows(s) : t.flows[j] = s.flows[j]
         /\ \/ t = s /\ i # 0
            \/ t = NewFlow(s, File) /\ ByName(t) \in Flows(t) /\ ByTime(t) = ByName(t)
               /\ ByName(t) \notin Flows(s)
<1>1. CASE i # 0 /\ HasAny(s, i, important)
  BY <1>1 DEF Reuse
<1>2. CASE ~ (i # 0 /\ HasAny(s, i, important))
  <2>1. Reuse(s, i, important, File) = NewFlow(s, File)
    BY <1>2 DEF Reuse
  <2>2. QED
    BY <2>1, WrittenNewFlow
<1>3. QED
  BY <1>1, <1>2

LEMMA WrittenPut ==
  ASSUME NEW s, Written(s), NEW i \in Flows(s), NEW x, NEW v, Fits(x, v)
  PROVE  /\ Written(Put(s, i, x, v))
         /\ Flows(Put(s, i, x, v)) = Flows(s)
         /\ \A j \in Flows(s) : j # i => Put(s, i, x, v).flows[j] = s.flows[j]
         /\ \A y \in File : y # x => Put(s, i, x, v).flows[i][y] = s.flows[i][y]
         /\ Put(s, i, x, v).flows[i][x] = v
<1> DEFINE d == [s.flows[i] EXCEPT ![x] = v]
           t == Put(s, i, x, v)
<1>1. Typed(s) /\ FileSystem(s, FlowFolder)
  BY DEF Written, Typed
<1>2. s.flows[i] \in FlowFolder
  BY <1>1, FileSystemFacts DEF Flows
<1>3. /\ d \in FlowFolder /\ v # Absent /\ x \in File /\ d[x] = v
      /\ \A y \in File : y # x => d[y] = s.flows[i][y]
  BY <1>2, FitsFolder
<1>4. FileSystem(t, FlowFolder) /\ Changed(s, t, i, d)
  BY <1>1, <1>3, PutWrites
<1> HIDE DEF d, t
<1>5. Typed(t) /\ t.reuse = s.reuse /\ Flows(t) = Flows(s)
  BY <1>1, <1>4, TypedChanged
<1>6. t.flows[i] = d /\ \A j \in Flows(s) : j # i => t.flows[j] = s.flows[j]
  BY <1>4 DEF Changed, Flows
<1>7. ASSUME NEW j \in Flows(s), NEW y \in File, Has(s, j, y)
      PROVE  Has(t, j, y)
  BY <1>3, <1>6, <1>7 DEF Has
<1>8. {"ufpk", "wrapped", "mail"} \subseteq File
  BY DEF File, UfpkFiles
<1>9. RkeysMatch(t)
  <2> SUFFICES ASSUME NEW j \in Flows(t), Has(t, j, "rkey")
               PROVE  Wellformed(t.flows[j]["rkey"])
    BY DEF RkeysMatch
  <2>1. CASE j = i /\ x = "rkey"
    BY <2>1, <1>3, <1>6 DEF Fits, UfpkFiles
  <2>2. CASE ~ (j = i /\ x = "rkey")
    <3>1. t.flows[j]["rkey"] = s.flows[j]["rkey"]
      BY <2>2, <1>3, <1>5, <1>6 DEF File
    <3>2. QED
      BY <3>1, <1>5 DEF Written, RkeysMatch, Has
  <2>3. QED
    BY <2>1, <2>2
<1>10. Written(t)
  BY <1>5, <1>7, <1>8, <1>9 DEF Written
<1>11. QED
  BY <1>3, <1>5, <1>6, <1>10 DEF t

-----------------------------------------------------------------------------
(* A file system in which a command may end or be cut                      *)
Stage(t) ==
  /\ Typed(t)
  /\ Flows(fs) \subseteq Flows(t)
  /\ \A i \in Flows(fs) : Has(fs, i, "mail") => Has(t, i, "mail")
  /\ RkeysMatch(t) /\ PairMatches(t.reuse) /\ WrappedFirst(t.reuse)

LEMMA WrittenIsStage ==
  ASSUME FilesInv, NEW t, Written(t)
  PROVE  Stage(t)
BY DEF FilesInv, Written, Stage

(* Wellformed, with the folders and the histories as arguments             *)
Fine(k, F, g, h) ==
  \/ k.plain = k.wrapped
  \/ \E i \in F : {k.plain, k.wrapped} \subseteq g[i]
  \/ k.wrapped = own.reusable
  \/ h

(* The histories only grow, so what was well-formed stays so; and they     *)
(* record what the step has left.                                          *)
LEMMA HistoriesGrow ==
  ASSUME FilesInv, Stage(fs'), Recorded
  PROVE  /\ given' \in Seq(SUBSET Ufpk) /\ Len(given') = Len(fs'.flows)
         /\ \A i \in Flows(fs'), x \in UfpkFiles :
              fs'.flows[i][x] # Absent => fs'.flows[i][x] \in given'[i]
         /\ \A k : Fine(k, Flows(fs), given, half) => Fine(k, Flows(fs'), given', half')
         /\ half' \in BOOLEAN
         /\ fs'.reuse.wrapped # Absent /\ fs'.reuse.ufpk = Absent => half'
<1> DEFINE l == Len(fs'.flows)
           old(i) == IF i <= Len(given) THEN given[i] ELSE {}
           now(i) == {fs'.flows[i][x] : x \in UfpkFiles} \ {Absent}
<1>1. /\ fs'.flows \in Seq(FlowFolder) /\ l \in Nat /\ Flows(fs') = 1..l
  BY FileSystemFacts DEF Stage, Typed
<1>2. given' = [i \in 1..l |-> old(i) \cup now(i)]
  BY DEF Recorded
<1>3. /\ fs.flows \in Seq(FlowFolder) /\ Len(fs.flows) \in Nat /\ Flows(fs) = 1..Len(fs.flows)
      /\ Len(given) = Len(fs.flows) /\ given \in Seq(SUBSET Ufpk)
  BY FileSystemFacts DEF FilesInv, Typed
<1>4. \A i \in 1..l : old(i) \in SUBSET Ufpk
  BY <1>1, <1>3
<1>5. \A i \in 1..l : now(i) \in SUBSET Ufpk
  <2> SUFFICES ASSUME NEW i \in 1..l, NEW x \in UfpkFiles, fs'.flows[i][x] # Absent
               PROVE  fs'.flows[i][x] \in Ufpk
    OBVIOUS
  <2>1. fs'.flows[i] \in FlowFolder
    BY <1>1
  <2>2. QED
    BY <2>1 DEF FlowFolder, UfpkFiles, OrAbsent
<1>6. \A i \in Flows(fs) : i \in 1..l /\ old(i) = given[i]
  BY <1>1, <1>3 DEF Stage
<1> HIDE DEF old, now, l
<1>7. given' \in Seq(SUBSET Ufpk) /\ Len(given') = l
  BY <1>1, <1>2, <1>4, <1>5
<1>8. \A i \in 1..l, x \in UfpkFiles : fs'.flows[i][x] # Absent => fs'.flows[i][x] \in now(i)
  BY DEF now
<1>9. \A i \in Flows(fs'), x \in UfpkFiles :
        fs'.flows[i][x] # Absent => fs'.flows[i][x] \in given'[i]
  BY <1>1, <1>2, <1>8
<1>10. \A i \in Flows(fs) : given[i] \subseteq given'[i] /\ i \in Flows(fs')
  BY <1>1, <1>2, <1>6
<1>11. half => half'
  BY DEF Recorded
<1>12. ASSUME NEW k, Fine(k, Flows(fs), given, half)
       PROVE  Fine(k, Flows(fs'), given', half')
  BY <1>10, <1>11, <1>12 DEF Fine
<1>13. half' \in BOOLEAN
  BY DEF Recorded
<1>14. fs'.reuse.wrapped # Absent /\ fs'.reuse.ufpk = Absent => half'
  BY DEF Recorded
<1>15. QED
  BY <1>7, <1>9, <1>12, <1>13, <1>14 DEF l

(* A command that ends in a stage leaves the file system and its histories *)
(* as the invariant says.                                                  *)
LEMMA StageKeepsFiles ==
  ASSUME FilesInv, Stage(fs'), Recorded, UNCHANGED own
  PROVE  FilesInv'
<1>1. /\ given' \in Seq(SUBSET Ufpk) /\ Len(given') = Len(fs'.flows)
      /\ \A i \in Flows(fs'), x \in UfpkFiles :
           fs'.flows[i][x] # Absent => fs'.flows[i][x] \in given'[i]
      /\ \A k : Fine(k, Flows(fs), given, half) => Fine(k, Flows(fs'), given', half')
      /\ half' \in BOOLEAN
      /\ fs'.reuse.wrapped # Absent /\ fs'.reuse.ufpk = Absent => half'
  BY HistoriesGrow
<1>2. Typed(fs)'
  BY DEF Stage, Typed, FileSystem, FoldersOK, Flows
<1>3. \A i \in Flows(fs'), x \in UfpkFiles : Has(fs', i, x) => fs'.flows[i][x] \in given'[i]
  BY <1>1 DEF Has
<1>4. RkeysMatch(fs)'
  <2>1. \A i \in Flows(fs') : Has(fs', i, "rkey") =>
          Fine(fs'.flows[i].rkey, Flows(fs), given, half)
    BY DEF Stage, RkeysMatch, Wellformed, Fine
  <2>2. \A i \in Flows(fs') : Has(fs', i, "rkey") =>
          Fine(fs'.flows[i].rkey, Flows(fs'), given', half')
    BY <2>1, <1>1
  <2>3. QED
    BY <2>2 DEF RkeysMatch, Wellformed, Fine, Flows, Has
<1>5. PairMatches(fs.reuse)'
  <2>1. HasPair(fs'.reuse) =>
          Fine(MakeRkey(Absent, fs'.reuse.ufpk, fs'.reuse.wrapped), Flows(fs), given, half)
    BY DEF Stage, PairMatches, Wellformed, Fine
  <2>2. HasPair(fs'.reuse) =>
          Fine(MakeRkey(Absent, fs'.reuse.ufpk, fs'.reuse.wrapped), Flows(fs'), given', half')
    BY <2>1, <1>1
  <2>3. QED
    BY <2>2 DEF PairMatches, HasPair, MakeRkey, Wellformed, Fine, Flows
<1>6. WrappedFirst(fs.reuse)'
  BY DEF Stage, WrappedFirst
<1>7. QED
  BY <1>1, <1>2, <1>3, <1>4, <1>5, <1>6 DEF FilesInv, Flows, Has

(* A command that does not concern the mail leaves it as it is.            *)
LEMMA StageKeepsMail ==
  ASSUME FilesInv, MailInv, Stage(fs'), UNCHANGED <<mails, waiting, arrived>>
  PROVE  MailInv'
BY DEF MailInv, Stage, Flows, Has

-----------------------------------------------------------------------------
(* The folder of the workflow commands                                     *)
LEMMA GetFlowFolderWritten ==
  ASSUME NEW s, Written(s)
  PROVE  LET g == GetFlowFolder(s) IN
         /\ Written(g) /\ ByName(g) \in Flows(g)
         /\ OldUfpks(s) => OldUfpks(g)
<1>1. ByName(s) # 0 => ByName(s) \in Flows(s)
  <2>1. Len(s.flows) \in Nat /\ Flows(s) = 1..Len(s.flows)
    BY FileSystemFacts DEF Written, Typed
  <2>2. QED
    BY <2>1 DEF ByName
<1>2. QED
  BY <1>1, WrittenReuse DEF GetFlowFolder

LEMMA FsWritten ==
  ASSUME FilesInv
  PROVE  /\ Written(fs) /\ OldUfpks(fs)
         /\ Written(GetFlowFolder(fs)) /\ ByName(GetFlowFolder(fs)) \in Flows(GetFlowFolder(fs))
         /\ OldUfpks(GetFlowFolder(fs))
<1>1. Written(fs) /\ OldUfpks(fs)
  BY WrittenInit DEF OldUfpks
<1>2. QED
  BY <1>1, GetFlowFolderWritten

(* What is in a UFPK file is a UFPK.                                       *)
LEMMA UfpkInFile ==
  ASSUME NEW s, Written(s), NEW i \in Flows(s), NEW x \in UfpkFiles, Has(s, i, x)
  PROVE  s.flows[i][x] \in Ufpk
<1>1. s.flows[i] \in FlowFolder
  BY FileSystemFacts DEF Written, Typed, Flows
<1>2. QED
  BY <1>1 DEF Has, UfpkFiles, FlowFolder, OrAbsent

(* A stage after a list of others is one of them or that one.              *)
LEMMA EitherPart ==
  ASSUME NEW T, NEW p \in Seq(T), NEW q \in Seq(T), NEW k \in DOMAIN (p \o q)
  PROVE  \/ \E m \in DOMAIN p : (p \o q)[k] = p[m]
         \/ \E m \in DOMAIN q : (p \o q)[k] = q[m]
<1>1. /\ Len(p) \in Nat /\ Len(q) \in Nat /\ k \in 1..Len(p) + Len(q)
      /\ DOMAIN p = 1..Len(p) /\ DOMAIN q = 1..Len(q)
  OBVIOUS
<1>2. CASE k <= Len(p)
  <2>1. k \in DOMAIN p /\ (p \o q)[k] = p[k]
    BY <1>1, <1>2
  <2>2. QED
    BY <2>1
<1>3. CASE k > Len(p)
  <2>1. k - Len(p) \in DOMAIN q /\ (p \o q)[k] = q[k - Len(p)]
    BY <1>1, <1>3
  <2>2. QED
    BY <2>1
<1>4. QED
  BY <1>1, <1>2, <1>3

-----------------------------------------------------------------------------
(* Every command but generate-rkey only writes, and keeps the requests.    *)
LEMMA PrepareUfpkFileWrites ==
  ASSUME FilesInv, NEW u \in Ufpk, PrepareUfpkFile(u)
  PROVE  Written(fs') /\ UNCHANGED <<mails, waiting, arrived>>
<1> DEFINE g == GetFlowFolder(fs)
<1>1. Written(g) /\ ByName(g) \in Flows(g)
  BY FsWritten
<1>2. Fits("ufpk", u)
  BY DEF Fits, UfpkFiles
<1>3. Written(Put(g, ByName(g), "ufpk", u))
  BY <1>1, <1>2, WrittenPut
<1>4. fs' = g \/ fs' = Put(g, ByName(g), "ufpk", u)
  BY DEF PrepareUfpkFile, Outcome
<1>5. QED
  BY <1>1, <1>3, <1>4 DEF PrepareUfpkFile

LEMMA EncryptUfpkWrites ==
  ASSUME FilesInv, EncryptUfpk
  PROVE  Written(fs') /\ UNCHANGED <<mails, waiting, arrived>>
<1> DEFINE g == GetFlowFolder(fs)
           i == ByName(g)
           s == EncryptFile(g, i, g.flows[i].ufpk)
<1>1. Written(g) /\ i \in Flows(g)
  BY FsWritten
<1>2. Has(g, i, "ufpk") => Written(s)
  <2> SUFFICES ASSUME Has(g, i, "ufpk") PROVE Written(s)
    OBVIOUS
  <2>1. "ufpk" \in UfpkFiles /\ "encrypted" \in UfpkFiles
    BY DEF UfpkFiles
  <2>2. g.flows[i]["ufpk"] \in Ufpk
    BY <1>1, <2>1, UfpkInFile
  <2>3. Fits("encrypted", g.flows[i]["ufpk"])
    BY <2>1, <2>2 DEF Fits
  <2>4. QED
    BY <1>1, <2>3, WrittenPut DEF EncryptFile
<1>3. fs' = g \/ (Has(g, i, "ufpk") /\ fs' = s)
  BY DEF EncryptUfpk, Outcome
<1>4. QED
  BY <1>1, <1>2, <1>3 DEF EncryptUfpk

(* The request that is sent names the folder and what is in it.            *)
LEMMA UploadDlmWrites ==
  ASSUME FilesInv, MailInv, UploadDlm
  PROVE  Written(fs') /\ MailInv'
<1> DEFINE g == GetFlowFolder(fs)
           i == ByName(g)
<1>1. Written(g) /\ i \in Flows(g)
  BY FsWritten
<1>2. fs' = g
  BY DEF UploadDlm, Outcome
<1>3. Flows(fs) \subseteq Flows(fs') /\ waiting' = waiting /\ arrived' = arrived
  BY <1>1, <1>2 DEF Written, UploadDlm
<1>4. mails' \subseteq Flows(fs') \X Ufpk
  <2>1. CASE Has(g, i, "encrypted")
    <3>1. mails' \in {mails, mails \cup {<<i, g.flows[i].encrypted>>}}
      BY <2>1 DEF UploadDlm, WrapUfpk
    <3>2. g.flows[i]["encrypted"] \in Ufpk
      BY <1>1, <2>1, UfpkInFile DEF UfpkFiles
    <3>3. QED
      BY <1>1, <1>2, <1>3, <3>1, <3>2 DEF MailInv
  <2>2. CASE ~Has(g, i, "encrypted")
    BY <1>3, <2>2 DEF UploadDlm, MailInv
  <2>3. QED
    BY <2>1, <2>2
<1>5. arrived' => waiting' # 0 /\ Has(fs', waiting', "mail")
  BY <1>1, <1>2, <1>3 DEF MailInv, Written
<1>6. QED
  BY <1>1, <1>2, <1>3, <1>4, <1>5 DEF MailInv, Flows, Has

LEMMA DecryptWrappedWrites ==
  ASSUME FilesInv, NEW u \in Ufpk, DecryptWrapped(u)
  PROVE  Written(fs') /\ UNCHANGED <<mails, waiting, arrived>>
<1> DEFINE g == GetFlowFolder(fs)
           s == DecryptFile(g, ByName(g), u)
<1>1. Written(g) /\ ByName(g) \in Flows(g)
  BY FsWritten
<1>2. Fits("wrapped", u)
  BY DEF Fits, UfpkFiles
<1>3. Written(s)
  BY <1>1, <1>2, WrittenPut DEF DecryptFile
<1>4. fs' = g \/ fs' = s
  BY DEF DecryptWrapped, Outcome
<1>5. QED
  BY <1>1, <1>3, <1>4 DEF DecryptWrapped

(* The RKEY is made of the two UFPKs of one folder, or with the wrapped    *)
(* one of output/reusable.                                                 *)
LEMMA WorkflowGenerateRkeyWrites ==
  ASSUME FilesInv, NEW root \in Root, WorkflowGenerateRkey(root)
  PROVE  Written(fs') /\ UNCHANGED <<mails, waiting, arrived>>
<1> DEFINE g == GetFlowFolder(fs)
           i == ByName(g)
           d0 == g.flows[i]
           d == PairFor(d0)
           s1 == Put(g, i, "pem", root)
           rkey == MakeRkey(root, d.ufpk, d.wrapped)
           s2 == Put(s1, i, "rkey", rkey)
<1>1. Written(g) /\ i \in Flows(g) /\ OldUfpks(g)
  BY FsWritten
<1>2. Fits("pem", root)
  BY DEF Fits
<1>3. Written(s1) /\ Flows(s1) = Flows(g)
  BY <1>1, <1>2, WrittenPut
<1>4. ASSUME HasPair(d)
      PROVE  Written(s2)
  <2>1. d0 \in FlowFolder /\ "ufpk" \in UfpkFiles /\ "wrapped" \in UfpkFiles
    BY <1>1, FileSystemFacts DEF Written, Typed, Flows, UfpkFiles
  <2>2. /\ d.ufpk = d0.ufpk
        /\ d0.wrapped # Absent => d.wrapped = d0.wrapped
        /\ d0.wrapped = Absent => d.wrapped = own.reusable
    BY <2>1 DEF PairFor, FlowFolder
  <2> HIDE DEF d
  <2>3. Has(g, i, "ufpk") /\ d0["ufpk"] \in Ufpk
    <3>1. Has(g, i, "ufpk")
      BY <1>4, <2>2 DEF HasPair, Has
    <3>2. QED
      BY <3>1, <1>1, <2>1, UfpkInFile
  <2>4. i \in Flows(fs) /\ d0 = fs.flows[i]
    BY <1>1, <2>1, <2>3 DEF OldUfpks
  <2>5. d.wrapped \in Ufpk /\ Wellformed(MakeRkey(root, d.ufpk, d.wrapped))
    <3>1. CASE d0.wrapped # Absent
      <4>1. Has(g, i, "wrapped")
        BY <3>1 DEF Has
      <4>2. d0["wrapped"] \in Ufpk
        BY <4>1, <1>1, <2>1, UfpkInFile
      <4>3. fs.flows[i]["ufpk"] \in given[i] /\ fs.flows[i]["wrapped"] \in given[i]
        BY <4>1, <2>1, <2>3, <2>4 DEF FilesInv, Has
      <4>4. {d.ufpk, d.wrapped} \subseteq given[i]
        BY <3>1, <4>3, <2>2, <2>4
      <4>5. QED
        BY <3>1, <4>2, <4>4, <2>2, <2>4 DEF Wellformed, MakeRkey
    <3>2. CASE d0.wrapped = Absent
      <4>1. own.reusable \in OrAbsent(Ufpk)
        BY DEF FilesInv, Own
      <4>2. d.wrapped \in Ufpk
        BY <3>2, <4>1, <1>4, <2>2 DEF HasPair, OrAbsent
      <4>3. QED
        BY <3>2, <4>2, <2>2 DEF Wellformed, MakeRkey
    <3>3. QED
      BY <3>1, <3>2
  <2>6. rkey \in Rkeys /\ Wellformed(rkey)
    BY <2>2, <2>3, <2>5 DEF MakeRkey, Rkeys
  <2> HIDE DEF rkey
  <2>7. Fits("rkey", rkey)
    BY <2>6 DEF Fits
  <2>8. QED
    BY <1>1, <1>3, <2>7, WrittenPut
<1> DEFINE stages == <<g>> \o (IF d.ufpk = Absent THEN <<>> ELSE <<s1>>)
                         \o (IF HasPair(d) THEN <<s2>> ELSE <<>>)
<1>a. PICK k \in DOMAIN stages : fs' = stages[k]
  BY DEF WorkflowGenerateRkey, Outcome
<1> HIDE DEF g, i, d, s1, s2
<1>5. fs' = g \/ fs' = s1 \/ (HasPair(d) /\ fs' = s2)
  <2>1. CASE d.ufpk = Absent
    <3>1. stages = <<g>>
      BY <2>1 DEF HasPair
    <3> HIDE DEF stages
    <3>2. QED
      BY <3>1, <1>a
  <2>2. CASE d.ufpk # Absent /\ HasPair(d)
    <3>1. stages = <<g>> \o <<s1>> \o <<s2>>
      BY <2>2
    <3> HIDE DEF stages
    <3>2. QED
      BY <3>1, <2>2, <1>a
  <2>3. CASE d.ufpk # Absent /\ ~HasPair(d)
    <3>1. stages = <<g>> \o <<s1>> \o <<>>
      BY <2>3
    <3> HIDE DEF stages
    <3>2. QED
      BY <3>1, <1>a
  <2>4. QED
    BY <2>1, <2>2, <2>3
<1>6. QED
  BY <1>1, <1>3, <1>4, <1>5 DEF WorkflowGenerateRkey

LEMMA PrepareFromMailWrites ==
  ASSUME FilesInv, PrepareFromMail
  PROVE  Written(fs') /\ UNCHANGED <<mails, waiting, arrived>>
<1> DEFINE g == GetFlowFolder(fs)
           i == ByName(g)
           s == DecryptFile(g, i, g.flows[i].mail)
<1>1. Written(g) /\ i \in Flows(g)
  BY FsWritten
<1>2. Has(g, i, "mail") /\ "mail" \in UfpkFiles /\ "wrapped" \in UfpkFiles
  BY DEF PrepareFromMail, HasKnownMail, UfpkFiles
<1>3. g.flows[i]["mail"] \in Ufpk
  BY <1>1, <1>2, UfpkInFile
<1>4. Fits("wrapped", g.flows[i]["mail"])
  BY <1>2, <1>3 DEF Fits
<1>5. Written(s)
  BY <1>1, <1>4, WrittenPut DEF DecryptFile
<1>6. fs' = g \/ fs' = s
  BY DEF PrepareFromMail, Outcome
<1>7. QED
  BY <1>1, <1>5, <1>6 DEF PrepareFromMail

(* The UFPK that prepare-ufpk goes on with, and the file system after it   *)
LEMMA ChosenIsUfpk ==
  ASSUME FilesInv, NEW s, Written(s), NEW i \in Flows(s), NEW file \in OrAbsent(OwnUfpk),
         NEW c \in ChosenUfpk(s, i, file)
  PROVE  c[1] \in Ufpk /\ Written(c[2]) /\ Flows(c[2]) = Flows(s)
<1>1. ASSUME NEW u \in Ufpk
      PROVE  Written(Put(s, i, "ufpk", u)) /\ Flows(Put(s, i, "ufpk", u)) = Flows(s)
  <2>1. Fits("ufpk", u)
    BY DEF Fits, UfpkFiles
  <2>2. QED
    BY <2>1, WrittenPut
<1>2. CASE file # Absent
  BY <1>2, KeyFlowAssumption DEF ChosenUfpk, OrAbsent
<1>3. CASE file = Absent /\ own.prereq.ufpk # Absent
  <2>1. own.prereq.ufpk \in Ufpk
    BY <1>3 DEF FilesInv, Own, PairFolder, OrAbsent
  <2>2. c = <<own.prereq.ufpk, Put(s, i, "ufpk", own.prereq.ufpk)>>
    BY <1>3 DEF ChosenUfpk
  <2>3. QED
    BY <1>1, <2>1, <2>2
<1>4. CASE file = Absent /\ own.prereq.ufpk = Absent /\ Has(s, i, "ufpk")
  <2>1. s.flows[i]["ufpk"] \in Ufpk
    BY <1>4, UfpkInFile DEF UfpkFiles
  <2>2. c = <<s.flows[i].ufpk, s>>
    BY <1>4 DEF ChosenUfpk
  <2>3. QED
    BY <2>1, <2>2
<1>5. CASE file = Absent /\ own.prereq.ufpk = Absent /\ ~Has(s, i, "ufpk")
  <2>1. PICK u \in Ufpk : c = <<u, Put(s, i, "ufpk", u)>>
    BY <1>5 DEF ChosenUfpk
  <2>2. QED
    BY <1>1, <2>1
<1>6. QED
  BY <1>2, <1>3, <1>4, <1>5

LEMMA PrepareUfpkWrites ==
  ASSUME FilesInv, MailInv, NEW file \in OrAbsent(OwnUfpk), PrepareUfpk(file)
  PROVE  Written(fs') /\ MailInv'
<1> DEFINE g == GetFlowFolder(fs)
<1>1. PICK h \in {g, GetFlowFolder(g)} :
        LET i == ByName(h) IN
        \E c \in ChosenUfpk(h, i, file) :
          LET s2 == EncryptFile(c[2], i, c[1]) IN
          \/ Outcome(<<h, c[2], s2>>) /\ UNCHANGED <<mails, waiting, arrived>>
          \/ /\ Outcome(<<s2>>)
             /\ WrapUfpk(i, c[1])
             /\ waiting' \in {0, i} /\ arrived' = FALSE
  BY DEF PrepareUfpk
<1> DEFINE i == ByName(h)
<1>2. Written(h) /\ i \in Flows(h)
  <2>1. Written(g) /\ ByName(g) \in Flows(g)
    BY FsWritten
  <2>2. Written(GetFlowFolder(g)) /\ ByName(GetFlowFolder(g)) \in Flows(GetFlowFolder(g))
    BY <2>1, GetFlowFolderWritten
  <2>3. QED
    BY <2>1, <2>2
<1> HIDE DEF i, g
<1>3. PICK c \in ChosenUfpk(h, i, file) :
        LET s2 == EncryptFile(c[2], i, c[1]) IN
        \/ Outcome(<<h, c[2], s2>>) /\ UNCHANGED <<mails, waiting, arrived>>
        \/ /\ Outcome(<<s2>>)
           /\ WrapUfpk(i, c[1])
           /\ waiting' \in {0, i} /\ arrived' = FALSE
  BY <1>1 DEF i
<1> DEFINE s2 == EncryptFile(c[2], i, c[1])
<1>4. c[1] \in Ufpk /\ Written(c[2]) /\ Flows(c[2]) = Flows(h)
  BY <1>2, ChosenIsUfpk
<1>5. Fits("encrypted", c[1])
  BY <1>4 DEF Fits, UfpkFiles
<1>6. Written(s2) /\ Flows(s2) = Flows(h)
  BY <1>2, <1>4, <1>5, WrittenPut DEF EncryptFile
<1> HIDE DEF s2
<1>7. CASE Outcome(<<h, c[2], s2>>) /\ UNCHANGED <<mails, waiting, arrived>>
  <2>1. fs' = h \/ fs' = c[2] \/ fs' = s2
    BY <1>7 DEF Outcome
  <2>2. Written(fs')
    BY <2>1, <1>2, <1>4, <1>6
  <2>3. Stage(fs')
    BY <2>2, WrittenIsStage
  <2>4. MailInv'
    BY <2>3, <1>7, StageKeepsMail
  <2>5. QED
    BY <2>2, <2>4
<1>8. CASE /\ Outcome(<<s2>>)
           /\ WrapUfpk(i, c[1])
           /\ waiting' \in {0, i} /\ arrived' = FALSE
  <2>1. fs' = s2
    BY <1>8 DEF Outcome
  <2>2. mails' \subseteq Flows(fs') \X Ufpk
    <3>1. mails \subseteq Flows(fs') \X Ufpk
      BY <1>6, <2>1 DEF MailInv, Written
    <3>2. i \in Flows(fs')
      BY <1>2, <1>6, <2>1
    <3>3. QED
      BY <3>1, <3>2, <1>4, <1>8 DEF WrapUfpk
  <2>3. waiting' \in Flows(fs') \cup {0}
    BY <1>2, <1>6, <1>8, <2>1
  <2>4. QED
    BY <2>1, <2>2, <2>3, <1>6, <1>8 DEF MailInv, Flows
<1>9. QED
  BY <1>3, <1>7, <1>8 DEF s2

LEMMA EndOfWaitWrites ==
  ASSUME FilesInv, MailInv, EndOfWait
  PROVE  Written(fs') /\ MailInv'
<1> DEFINE s == DecryptFile(fs, waiting, fs.flows[waiting].mail)
<1>1. Written(fs)
  BY FsWritten
<1>2. arrived => Written(s)
  <2> SUFFICES ASSUME arrived PROVE Written(s)
    OBVIOUS
  <2>1. waiting \in Flows(fs) /\ Has(fs, waiting, "mail") /\ "mail" \in UfpkFiles
    BY DEF MailInv, UfpkFiles
  <2>2. fs.flows[waiting]["mail"] \in Ufpk
    BY <1>1, <2>1, UfpkInFile
  <2>3. Fits("wrapped", fs.flows[waiting]["mail"])
    BY <2>2 DEF Fits, UfpkFiles
  <2>4. QED
    BY <1>1, <2>1, <2>3, WrittenPut DEF DecryptFile
<1>3. fs' = fs \/ (arrived /\ fs' = s)
  BY DEF EndOfWait, Outcome
<1>4. Written(fs')
  BY <1>1, <1>2, <1>3
<1>5. waiting' = 0 /\ arrived' = FALSE /\ mails' = mails
  BY DEF EndOfWait
<1>6. mails \subseteq Flows(fs') \X Ufpk
  BY <1>4 DEF MailInv, Written
<1>7. QED
  BY <1>4, <1>5, <1>6 DEF MailInv, Flows

LEMMA SaveMailWrites ==
  ASSUME FilesInv, MailInv, NEW m \in mails, SaveMail(m)
  PROVE  Written(fs') /\ MailInv'
<1>1. m[1] \in Flows(fs) /\ m[2] \in Ufpk
  BY DEF MailInv
<1>2. Fits("mail", m[2])
  BY <1>1 DEF Fits, UfpkFiles
<1>3. fs' = Put(fs, m[1], "mail", m[2])
  BY DEF SaveMail, Outcome
<1>4. /\ Written(fs') /\ Flows(fs') = Flows(fs)
      /\ fs'.flows[m[1]]["mail"] = m[2]
  BY <1>1, <1>2, <1>3, FsWritten, WrittenPut
<1>5. Has(fs', m[1], "mail")
  BY <1>1, <1>4, KeyFlowAssumption DEF Has
<1>6. arrived' => waiting # 0 /\ Has(fs', waiting, "mail")
  <2> SUFFICES ASSUME arrived'
               PROVE  waiting # 0 /\ Has(fs', waiting, "mail")
    OBVIOUS
  <2>1. CASE m[1] = waiting
    <3>1. Flows(fs) = 1..Len(fs.flows)
      BY FileSystemFacts DEF FilesInv, Typed
    <3>2. QED
      BY <2>1, <3>1, <1>1, <1>5
  <2>2. CASE arrived
    <3>1. waiting \in Flows(fs) /\ Has(fs, waiting, "mail") /\ waiting # 0
      BY <2>2 DEF MailInv
    <3>2. QED
      BY <3>1, <1>4 DEF Written
  <2>3. QED
    BY <2>1, <2>2 DEF SaveMail
<1>7. mails' \subseteq Flows(fs') \X Ufpk /\ waiting' = waiting
  BY <1>4 DEF SaveMail, MailInv
<1>8. QED
  BY <1>4, <1>6, <1>7 DEF MailInv, Flows, Has

LEMMA SignAppWrites ==
  ASSUME FilesInv, SignApp
  PROVE  Written(fs') /\ UNCHANGED <<mails, waiting, arrived>>
<1> DEFINE g == NewFlow(fs, File)
           s == Put(g, ByName(g), "app", "app")
<1>1. Written(g) /\ ByName(g) \in Flows(g)
  BY FsWritten, WrittenNewFlow
<1>2. Fits("app", "app")
  BY DEF Fits
<1>3. Written(s)
  BY <1>1, <1>2, WrittenPut
<1>4. fs' = g \/ fs' = s
  BY DEF SignApp, Outcome
<1>5. QED
  BY <1>1, <1>3, <1>4 DEF SignApp

-----------------------------------------------------------------------------
(* generate-rkey: the file systems after the RKEY                          *)
LEMMA ReuseChanged ==
  ASSUME NEW s, Stage(s), NEW d \in PairFolder, PairMatches(d), WrappedFirst(d)
  PROVE  LET t == [s EXCEPT !.reuse = d] IN
         Stage(t) /\ t.flows = s.flows /\ t.recent = s.recent /\ t.reuse = d
<1> DEFINE t == [s EXCEPT !.reuse = d]
<1>1. /\ s = [f \in DOMAIN s |-> s[f]]
      /\ DOMAIN s = {"flows", "recent", "reuse"}
      /\ FoldersOK(s, FlowFolder)
  BY DEF Stage, Typed, FileSystem
<1>2. s = [flows |-> s.flows, recent |-> s.recent, reuse |-> s.reuse]
  BY <1>1
<1>3. t = [flows |-> s.flows, recent |-> s.recent, reuse |-> d]
  BY <1>2
<1> HIDE DEF t
<1>4. t.flows = s.flows /\ t.recent = s.recent /\ t.reuse = d
  BY <1>3
<1>5. t = [f \in DOMAIN t |-> t[f]] /\ DOMAIN t = {"flows", "recent", "reuse"}
  BY <1>3
<1>6. FoldersOK(t, FlowFolder)
  BY <1>1, <1>4 DEF FoldersOK, Flows
<1>7. Typed(t)
  BY <1>4, <1>5, <1>6 DEF Typed, FileSystem
<1>8. Stage(t)
  BY <1>4, <1>7 DEF Stage, RkeysMatch, Flows, Has
<1>9. QED
  BY <1>4, <1>8 DEF t

LEMMA StageRemove ==
  ASSUME NEW s, Stage(s), NEW i \in Flows(s), NEW x \in {"ufpk", "wrapped"}
  PROVE  LET t == Remove(s, i, x) IN
         /\ Stage(t) /\ t.reuse = s.reuse /\ Flows(t) = Flows(s)
         /\ \A j \in Flows(s) : j # i => t.flows[j] = s.flows[j]
<1> DEFINE d == [s.flows[i] EXCEPT ![x] = Absent]
           t == Remove(s, i, x)
<1>1. CASE ~Has(s, i, x)
  BY <1>1 DEF Remove
<1>2. CASE Has(s, i, x)
  <2>1. Typed(s) /\ FileSystem(s, FlowFolder) /\ s.flows[i] \in FlowFolder
    BY FileSystemFacts DEF Stage, Typed, Flows
  <2>2. d \in FlowFolder /\ d["rkey"] = s.flows[i]["rkey"] /\ d["mail"] = s.flows[i]["mail"]
    BY <2>1 DEF FlowFolder, OrAbsent
  <2>3. FileSystem(t, FlowFolder) /\ Changed(s, t, i, d)
    BY <1>2, <2>1, <2>2, RemoveDeletes
  <2> HIDE DEF d, t
  <2>4. Typed(t) /\ t.reuse = s.reuse /\ Flows(t) = Flows(s)
    BY <2>1, <2>3, TypedChanged
  <2>5. t.flows[i] = d /\ \A j \in Flows(s) : j # i => t.flows[j] = s.flows[j]
    BY <2>3 DEF Changed, Flows
  <2>6. \A j \in Flows(s) : /\ t.flows[j]["rkey"] = s.flows[j]["rkey"]
                            /\ t.flows[j]["mail"] = s.flows[j]["mail"]
    BY <2>2, <2>5
  <2>7. Stage(t)
    BY <2>4, <2>6 DEF Stage, RkeysMatch, Has
  <2>8. QED
    BY <2>4, <2>5, <2>7 DEF t
<1>3. QED
  BY <1>1, <1>2

(* The two copies: a pair in reuse_ufpk is left alone, half a one becomes  *)
(* whole, and without any the pair is copied.                              *)
KeepIn(s, pair, x) ==
  IF pair.from = "reuse" \/ s.reuse[x] # Absent THEN s ELSE [s EXCEPT !.reuse[x] = pair[x]]

LEMMA CopiesAreStages ==
  ASSUME FilesInv, NEW s, Stage(s), s.reuse = fs.reuse,
         NEW pair, pair.ufpk \in Ufpk, pair.wrapped \in Ufpk,
         \A r : Wellformed(MakeRkey(r, pair.ufpk, pair.wrapped))
  PROVE  LET s3 == KeepIn(s, pair, "wrapped")
             s4 == KeepIn(s3, pair, "ufpk") IN
         /\ Stage(s3) /\ s3.flows = s.flows
         /\ Stage(s4) /\ s4.flows = s.flows
         /\ fs.reuse = Nothing /\ pair.from # "reuse" =>
              s4.reuse.ufpk = pair.ufpk /\ s4.reuse.wrapped = pair.wrapped
<1> DEFINE s3 == KeepIn(s, pair, "wrapped")
           s4 == KeepIn(s3, pair, "ufpk")
           d == s.reuse
           d3 == [d EXCEPT !["wrapped"] = pair.wrapped]
<1>1. /\ d \in PairFolder /\ PairMatches(d) /\ WrappedFirst(d)
      /\ d.wrapped # Absent /\ d.ufpk = Absent => half
  BY DEF Stage, Typed, FilesInv
<1>2. /\ Absent \notin Ufpk /\ pair.ufpk # Absent /\ pair.wrapped # Absent
  BY KeyFlowAssumption
<1>3. CASE pair.from = "reuse"
  <2>1. s3 = s /\ s4 = s
    BY <1>3 DEF KeepIn
  <2>2. QED
    BY <2>1, <1>3
<1>4. CASE pair.from # "reuse" /\ d.wrapped # Absent /\ d.ufpk # Absent
  <2>1. s3 = s /\ s4 = s
    BY <1>4 DEF KeepIn
  <2>2. d # Nothing
    BY <1>4 DEF Nothing
  <2>3. QED
    BY <2>1, <2>2
<1>5. CASE pair.from # "reuse" /\ d.wrapped # Absent /\ d.ufpk = Absent
  <2> DEFINE e == [d EXCEPT !["ufpk"] = pair.ufpk]
  <2>1. s3 = s
    BY <1>5 DEF KeepIn
  <2>2. s4 = [s EXCEPT !.reuse = e]
    BY <1>5, <2>1 DEF KeepIn
  <2>3. e \in PairFolder /\ e.ufpk = pair.ufpk /\ e.wrapped = d.wrapped
    BY <1>1 DEF PairFolder, OrAbsent
  <2> HIDE DEF e, s4
  <2>4. PairMatches(e)
    BY <1>1, <1>5 DEF PairMatches, Wellformed
  <2>5. WrappedFirst(e)
    BY <1>5, <2>3 DEF WrappedFirst
  <2>6. Stage(s4) /\ s4.flows = s.flows
    BY <2>2, <2>3, <2>4, <2>5, ReuseChanged
  <2>7. d # Nothing
    BY <1>5 DEF Nothing
  <2>8. QED
    BY <2>1, <2>6, <2>7 DEF s4
<1>6. CASE pair.from # "reuse" /\ d.wrapped = Absent
  <2> DEFINE e == [d3 EXCEPT !["ufpk"] = pair.ufpk]
  <2>1. d.ufpk = Absent
    BY <1>1, <1>6 DEF WrappedFirst
  <2>2. s3 = [s EXCEPT !.reuse = d3]
    BY <1>6 DEF KeepIn
  <2>3. d3 \in PairFolder /\ d3.ufpk = Absent /\ d3.wrapped = pair.wrapped
    BY <1>1, <2>1 DEF PairFolder, OrAbsent
  <2> HIDE DEF d3, s3
  <2>4. PairMatches(d3) /\ WrappedFirst(d3)
    BY <2>3 DEF PairMatches, HasPair, WrappedFirst
  <2>5. Stage(s3) /\ s3.flows = s.flows /\ s3.reuse = d3
    BY <2>2, <2>3, <2>4, ReuseChanged
  <2>6. s4 = [s3 EXCEPT !.reuse = e]
    BY <1>6, <2>3, <2>5 DEF KeepIn
  <2>7. e \in PairFolder /\ e.ufpk = pair.ufpk /\ e.wrapped = pair.wrapped
    BY <2>3 DEF PairFolder, OrAbsent
  <2> HIDE DEF e, s4
  <2>8. PairMatches(e) /\ WrappedFirst(e)
    BY <1>2, <2>7 DEF PairMatches, WrappedFirst
  <2>9. Stage(s4) /\ s4.flows = s3.flows /\ s4.reuse = e
    BY <2>5, <2>6, <2>7, <2>8, ReuseChanged
  <2>10. QED
    BY <2>5, <2>7, <2>9 DEF s3, s4
<1>7. QED
  BY <1>3, <1>4, <1>5, <1>6

(* The pair: from the latest folder when that has one, and well-formed     *)
(* wherever it is from                                                     *)
LEMMA FoundPair ==
  ASSUME FilesInv, NEW g, Written(g), OldUfpks(g), HasPair(FindPair(g))
  PROVE  LET pair == FindPair(g)
             i == ByTime(g) IN
         /\ pair.ufpk \in Ufpk /\ pair.wrapped \in Ufpk
         /\ \A r : Wellformed(MakeRkey(r, pair.ufpk, pair.wrapped))
         /\ pair.from = "reuse" => fs.reuse # Nothing
         /\ i \in Flows(g) /\ HasPair(g.flows[i]) =>
              pair.ufpk = g.flows[i].ufpk /\ pair.wrapped = g.flows[i].wrapped
<1> DEFINE pair == FindPair(g)
           S == {j \in Flows(g) : HasPair(g.flows[j])}
           f == FirstByTime(g, S)
<1>1. FileSystem(g, FlowFolder) /\ g.reuse = fs.reuse
  BY DEF Written, Typed
<1>2. /\ f = 0 <=> S = {}
      /\ f # 0 => f \in S
      /\ ByTime(g) \in S => f = ByTime(g)
  BY <1>1, FirstByTimeFinds
<1>3. pair = IF f # 0 THEN PairFrom("flow", g.flows[f])
             ELSE IF HasPair(g.reuse) THEN PairFrom("reuse", g.reuse)
             ELSE IF HasPair(own.prereq) THEN PairFrom("prereq", own.prereq)
             ELSE NoPair
  BY DEF FindPair
<1>4. ~HasPair(NoPair)
  BY DEF NoPair, HasPair
<1> HIDE DEF f, pair
<1>5. CASE f # 0
  <2>1. f \in Flows(g) /\ HasPair(g.flows[f])
    BY <1>2, <1>5
  <2>2. Has(g, f, "ufpk") /\ Has(g, f, "wrapped") /\ "ufpk" \in UfpkFiles /\ "wrapped" \in UfpkFiles
    BY <2>1 DEF HasPair, Has, UfpkFiles
  <2>3. g.flows[f]["ufpk"] \in Ufpk /\ g.flows[f]["wrapped"] \in Ufpk
    BY <2>1, <2>2, UfpkInFile
  <2>4. f \in Flows(fs) /\ g.flows[f] = fs.flows[f]
    BY <2>1, <2>2 DEF OldUfpks
  <2>5. fs.flows[f]["ufpk"] \in given[f] /\ fs.flows[f]["wrapped"] \in given[f]
    BY <2>2, <2>4 DEF FilesInv, Has
  <2>6. pair.from = "flow" /\ pair.ufpk = g.flows[f].ufpk /\ pair.wrapped = g.flows[f].wrapped
    BY <1>3, <1>5 DEF PairFrom
  <2>7. \A r : Wellformed(MakeRkey(r, pair.ufpk, pair.wrapped))
    BY <2>4, <2>5, <2>6 DEF Wellformed, MakeRkey
  <2>8. ByTime(g) \in Flows(g) /\ HasPair(g.flows[ByTime(g)]) => f = ByTime(g)
    BY <1>2
  <2>9. QED
    BY <2>3, <2>6, <2>7, <2>8 DEF pair
<1>6. CASE f = 0
  <2>1. ~ (ByTime(g) \in Flows(g) /\ HasPair(g.flows[ByTime(g)]))
    BY <1>2, <1>6
  <2>2. CASE HasPair(g.reuse)
    <3>1. pair.from = "reuse" /\ pair.ufpk = fs.reuse.ufpk /\ pair.wrapped = fs.reuse.wrapped
      BY <1>1, <1>3, <1>6, <2>2 DEF PairFrom
    <3>2. fs.reuse # Nothing
      BY <1>1, <2>2 DEF HasPair, Nothing
    <3>3. pair.ufpk \in Ufpk /\ pair.wrapped \in Ufpk
      BY <1>1, <2>2, <3>1 DEF FilesInv, Typed, PairFolder, OrAbsent, HasPair
    <3>4. Wellformed(MakeRkey(Absent, pair.ufpk, pair.wrapped))
      BY <1>1, <2>2, <3>1 DEF FilesInv, PairMatches
    <3>5. \A r : Wellformed(MakeRkey(r, pair.ufpk, pair.wrapped))
      BY <3>4 DEF Wellformed, MakeRkey
    <3>6. QED
      BY <2>1, <3>1, <3>2, <3>3, <3>5 DEF pair
  <2>3. CASE ~HasPair(g.reuse) /\ HasPair(own.prereq)
    <3>1. pair.from = "prereq" /\ pair.ufpk = own.prereq.ufpk /\ pair.wrapped = own.prereq.wrapped
      BY <1>3, <1>6, <2>3 DEF PairFrom
    <3>2. pair.ufpk \in Ufpk /\ pair.wrapped \in Ufpk /\ pair.ufpk = pair.wrapped
      BY <2>3, <3>1 DEF FilesInv, Own, PairFolder, OrAbsent, HasPair
    <3>3. \A r : Wellformed(MakeRkey(r, pair.ufpk, pair.wrapped))
      BY <3>2 DEF Wellformed, MakeRkey
    <3>4. QED
      BY <2>1, <3>1, <3>2, <3>3 DEF pair
  <2>4. CASE ~HasPair(g.reuse) /\ ~HasPair(own.prereq)
    BY <1>3, <1>4, <1>6, <2>4 DEF pair
  <2>5. QED
    BY <2>2, <2>3, <2>4
<1>7. QED
  BY <1>5, <1>6

(* The RKEY that the folder gets, when it has none                         *)
LEMMA RkeyForFits ==
  ASSUME NEW s, Written(s), NEW i \in Flows(s), ~Has(s, i, "rkey"), Has(s, i, "pem"),
         NEW pair, pair.ufpk \in Ufpk, pair.wrapped \in Ufpk,
         \A r : Wellformed(MakeRkey(r, pair.ufpk, pair.wrapped))
  PROVE  Fits("rkey", RkeyFor(s, i, pair))
<1> DEFINE S == {k \in Flows(s) : Has(s, k, "rkey")}
           j == FirstByTime(s, S)
<1>1. FileSystem(s, FlowFolder) /\ \A k \in Flows(s) : s.flows[k] \in FlowFolder
  BY FileSystemFacts DEF Written, Typed, Flows
<1>2. j # 0 => j \in S
  BY <1>1, FirstByTimeFinds
<1>3. RkeyFor(s, i, pair) =
        IF j # 0 THEN s.flows[j].rkey ELSE MakeRkey(s.flows[i].pem, pair.ufpk, pair.wrapped)
  BY DEF RkeyFor
<1> HIDE DEF j
<1>4. CASE j # 0
  <2>1. j \in Flows(s) /\ Has(s, j, "rkey")
    BY <1>2, <1>4
  <2>2. s.flows[j].rkey \in Rkeys
    BY <1>1, <2>1 DEF Has, FlowFolder, OrAbsent
  <2>3. Wellformed(s.flows[j].rkey)
    BY <2>1 DEF Written, RkeysMatch
  <2>4. QED
    BY <1>3, <1>4, <2>2, <2>3 DEF Fits
<1>5. CASE j = 0
  <2>1. s.flows[i].pem \in Root
    BY <1>1 DEF Has, FlowFolder, OrAbsent
  <2>2. MakeRkey(s.flows[i].pem, pair.ufpk, pair.wrapped) \in Rkeys
    BY <2>1 DEF MakeRkey, Rkeys
  <2>3. QED
    BY <1>3, <1>5, <2>2 DEF Fits
<1>6. QED
  BY <1>4, <1>5

(* In t every folder has the pair that it has in fs.                       *)
OldPairs(t) ==
  \A j \in Flows(fs) : /\ t.flows[j].ufpk = fs.flows[j].ufpk
                       /\ t.flows[j].wrapped = fs.flows[j].wrapped

(* A pair that reuse_ufpk did not displace is not lost in t.               *)
PairsKept(t) == \A u \in Ufpk : Kept(fs, u) => Kept(t, u)
Safe(t) == Stage(t) /\ (fs.reuse = Nothing => PairsKept(t))

LEMMA OldPairsAreKept ==
  ASSUME FilesInv, NEW t, Stage(t), OldPairs(t)
  PROVE  Safe(t)
<1>1. SUFFICES ASSUME fs.reuse = Nothing, NEW u \in Ufpk, Kept(fs, u)
               PROVE  Kept(t, u)
  BY DEF Safe, PairsKept
<1>2. ~PairOf(fs.reuse, u)
  BY <1>1, KeyFlowAssumption DEF PairOf, Nothing
<1>3. PICK j \in Flows(fs) : PairOf(fs.flows[j], u)
  BY <1>1, <1>2 DEF Kept
<1>4. j \in Flows(t) /\ PairOf(t.flows[j], u)
  BY <1>3 DEF Stage, OldPairs, PairOf
<1>5. QED
  BY <1>4 DEF Kept

(* The public key and the RKEY are written beside the UFPKs.               *)
LEMMA WrittenBeside ==
  ASSUME NEW s, Written(s), OldPairs(s), NEW i \in Flows(s), NEW x \in {"pem", "rkey"},
         NEW v, ~Has(s, i, x) => Fits(x, v)
  PROVE  LET t == PutIfAbsent(s, i, x, v) IN
         /\ Written(t) /\ OldPairs(t) /\ Flows(t) = Flows(s)
         /\ Has(t, i, x)
<1>1. CASE Has(s, i, x)
  BY <1>1 DEF PutIfAbsent
<1>2. CASE ~Has(s, i, x)
  <2> DEFINE t == Put(s, i, x, v)
  <2>1. PutIfAbsent(s, i, x, v) = t
    BY <1>2 DEF PutIfAbsent
  <2>2. /\ Written(t) /\ Flows(t) = Flows(s)
        /\ \A j \in Flows(s) : j # i => t.flows[j] = s.flows[j]
        /\ \A y \in File : y # x => t.flows[i][y] = s.flows[i][y]
        /\ t.flows[i][x] = v
    BY <1>2, WrittenPut
  <2> HIDE DEF t
  <2>3. t.flows[i]["ufpk"] = s.flows[i]["ufpk"] /\ t.flows[i]["wrapped"] = s.flows[i]["wrapped"]
    BY <2>2 DEF File, UfpkFiles
  <2>4. \A j \in Flows(s) : /\ t.flows[j]["ufpk"] = s.flows[j]["ufpk"]
                            /\ t.flows[j]["wrapped"] = s.flows[j]["wrapped"]
    BY <2>2, <2>3
  <2>5. OldPairs(t)
    BY <2>4 DEF OldPairs, Written
  <2>6. v # Absent
    BY <1>2, KeyFlowAssumption DEF Fits, UfpkFiles
  <2>7. Has(t, i, x)
    BY <2>2, <2>6 DEF Has
  <2>8. QED
    BY <2>1, <2>2, <2>5, <2>7
<1>3. QED
  BY <1>1, <1>2

(* At whatever write generate-rkey is cut, what it leaves is as it should  *)
(* be, and the pair of its folder is still there or already copied.        *)
LEMMA GenerateStagesAreSafe ==
  ASSUME FilesInv, NEW g, Written(g), OldUfpks(g), OldPairs(g), ByTime(g) \in Flows(g),
         HasPair(FindPair(g)), NEW root \in Root,
         NEW k \in DOMAIN GenerateStages(g, ByTime(g), FindPair(g), root)
  PROVE  Safe(GenerateStages(g, ByTime(g), FindPair(g), root)[k])
<1> DEFINE i == ByTime(g)
           pair == FindPair(g)
           s1 == PutIfAbsent(g, i, "pem", root)
           s2 == PutIfAbsent(s1, i, "rkey", RkeyFor(s1, i, pair))
           s3 == KeepIn(s2, pair, "wrapped")
           s4 == KeepIn(s3, pair, "ufpk")
           s5 == Remove(s4, i, "wrapped")
           s6 == Remove(s5, i, "ufpk")
<1>1. GenerateStages(g, i, pair, root) = <<s1, s2, s3, s4, s5, s6>>
  BY DEF GenerateStages, KeepIn
<1>2. /\ pair.ufpk \in Ufpk /\ pair.wrapped \in Ufpk
      /\ \A r : Wellformed(MakeRkey(r, pair.ufpk, pair.wrapped))
      /\ pair.from = "reuse" => fs.reuse # Nothing
      /\ i \in Flows(g) /\ HasPair(g.flows[i]) =>
           pair.ufpk = g.flows[i].ufpk /\ pair.wrapped = g.flows[i].wrapped
  BY FoundPair
<1>3. i \in Flows(g)
  OBVIOUS
<1> HIDE DEF i, pair
<1>4. Fits("pem", root)
  BY DEF Fits
<1>5. Written(s1) /\ OldPairs(s1) /\ Flows(s1) = Flows(g) /\ Has(s1, i, "pem")
  BY <1>3, <1>4, WrittenBeside
<1> HIDE DEF s1
<1>6. ~Has(s1, i, "rkey") => Fits("rkey", RkeyFor(s1, i, pair))
  BY <1>2, <1>3, <1>5, RkeyForFits
<1>7. Written(s2) /\ OldPairs(s2) /\ Flows(s2) = Flows(g)
  BY <1>3, <1>5, <1>6, WrittenBeside
<1>8. Stage(s2) /\ s2.reuse = fs.reuse
  BY <1>7, WrittenIsStage DEF Written
<1> HIDE DEF s2
<1>9. /\ Stage(s3) /\ s3.flows = s2.flows
      /\ Stage(s4) /\ s4.flows = s2.flows
      /\ fs.reuse = Nothing /\ pair.from # "reuse" =>
           s4.reuse.ufpk = pair.ufpk /\ s4.reuse.wrapped = pair.wrapped
  BY <1>2, <1>8, CopiesAreStages
<1> HIDE DEF s3, s4
<1>10. i \in Flows(s4) /\ Flows(s4) = Flows(g)
  BY <1>3, <1>7, <1>9 DEF Flows
<1>11. /\ Stage(s5) /\ s5.reuse = s4.reuse /\ Flows(s5) = Flows(s4)
       /\ \A j \in Flows(s4) : j # i => s5.flows[j] = s4.flows[j]
  BY <1>9, <1>10, StageRemove
<1> HIDE DEF s5
<1>12. /\ Stage(s6) /\ s6.reuse = s4.reuse /\ Flows(s6) = Flows(s4)
       /\ \A j \in Flows(s4) : j # i => s6.flows[j] = s4.flows[j]
  <2>1. /\ Stage(s6) /\ s6.reuse = s5.reuse /\ Flows(s6) = Flows(s5)
        /\ \A j \in Flows(s5) : j # i => s6.flows[j] = s5.flows[j]
    BY <1>10, <1>11, StageRemove
  <2> HIDE DEF s6
  <2>2. QED
    BY <2>1, <1>11
<1> HIDE DEF s6
<1>13. Safe(s1) /\ Safe(s2)
  BY <1>5, <1>7, <1>8, WrittenIsStage, OldPairsAreKept
<1>14. Safe(s3) /\ Safe(s4)
  <2>1. OldPairs(s3) /\ OldPairs(s4)
    BY <1>7, <1>9 DEF OldPairs
  <2>2. QED
    BY <2>1, <1>9, OldPairsAreKept
<1>15. ASSUME NEW t, Stage(t), t.reuse = s4.reuse, Flows(t) = Flows(s4),
              \A j \in Flows(s4) : j # i => t.flows[j] = s4.flows[j]
       PROVE  Safe(t)
  <2>1. SUFFICES ASSUME fs.reuse = Nothing, NEW u \in Ufpk, Kept(fs, u)
                 PROVE  Kept(t, u)
    BY <1>15 DEF Safe, PairsKept
  <2>2. ~PairOf(fs.reuse, u)
    BY <2>1, KeyFlowAssumption DEF PairOf, Nothing
  <2>3. PICK j \in Flows(fs) : PairOf(fs.flows[j], u)
    BY <2>1, <2>2 DEF Kept
  <2>4. CASE j # i
    <3>1. j \in Flows(s4)
      BY <1>10 DEF Written
    <3>2. PairOf(s4.flows[j], u)
      BY <2>3, <1>7, <1>9 DEF OldPairs, PairOf
    <3>3. t.flows[j] = s4.flows[j]
      BY <1>15, <2>4, <3>1
    <3>4. QED
      BY <1>15, <3>1, <3>2, <3>3 DEF Kept
  <2>5. CASE j = i
    <3>1. g.flows[i].ufpk = u /\ g.flows[i].wrapped = u
      BY <2>3, <2>5 DEF OldPairs, PairOf
    <3>2. HasPair(g.flows[i])
      BY <3>1, KeyFlowAssumption DEF HasPair
    <3>3. pair.ufpk = u /\ pair.wrapped = u
      BY <1>2, <1>3, <3>1, <3>2
    <3>4. s4.reuse.ufpk = u /\ s4.reuse.wrapped = u
      BY <1>2, <1>9, <2>1, <3>3
    <3>5. QED
      BY <1>15, <3>4 DEF Kept, PairOf
  <2>6. QED
    BY <2>4, <2>5
<1>16. Safe(s5) /\ Safe(s6)
  BY <1>11, <1>12, <1>15
<1> DEFINE stages == <<s1, s2, s3, s4, s5, s6>>
<1>17. k \in DOMAIN stages /\ stages[k] \in {s1, s2, s3, s4, s5, s6}
  <2>1. k \in DOMAIN stages
    BY <1>1 DEF i, pair
  <2>2. QED
    BY <2>1
<1>18. QED
  BY <1>1, <1>13, <1>14, <1>16, <1>17 DEF i, pair

LEMMA GenerateRkeyIsSafe ==
  ASSUME FilesInv, NEW root \in Root, GenerateRkey(root)
  PROVE  Safe(fs') /\ UNCHANGED <<mails, waiting, arrived>>
<1> DEFINE g == Reuse(fs, ByTime(fs), RkeyImportant, File)
           i == ByTime(g)
           pair == FindPair(g)
           stages == GenerateStages(g, i, pair, root)
<1>1. Written(fs) /\ OldUfpks(fs) /\ FileSystem(fs, FlowFolder)
  BY FsWritten DEF Written, Typed
<1>2. ByTime(fs) # 0 => ByTime(fs) \in Flows(fs)
  BY <1>1, PickedIsThere
<1>3. /\ Written(g) /\ OldUfpks(g)
      /\ \A j \in Flows(fs) : g.flows[j] = fs.flows[j]
      /\ \/ g = fs /\ ByTime(fs) # 0
         \/ ByName(g) \in Flows(g) /\ ByTime(g) = ByName(g)
  BY <1>1, <1>2, WrittenReuse
<1> HIDE DEF g
<1>4. i \in Flows(g) /\ OldPairs(g)
  BY <1>2, <1>3 DEF OldPairs
<1>5. Safe(g)
  BY <1>3, <1>4, WrittenIsStage, OldPairsAreKept
<1>6. \E k \in DOMAIN (<<g>> \o (IF HasPair(pair) THEN stages ELSE <<>>)) :
        fs' = (<<g>> \o (IF HasPair(pair) THEN stages ELSE <<>>))[k]
  BY DEF GenerateRkey, Outcome, g
<1>7. CASE HasPair(pair)
  <2>1. \A k \in DOMAIN stages : Safe(stages[k])
    BY <1>3, <1>4, <1>7, GenerateStagesAreSafe
  <2>2. \E T : stages \in Seq(T)
    <3> DEFINE s1 == PutIfAbsent(g, i, "pem", root)
               s2 == PutIfAbsent(s1, i, "rkey", RkeyFor(s1, i, pair))
               s3 == KeepIn(s2, pair, "wrapped")
               s4 == KeepIn(s3, pair, "ufpk")
               s5 == Remove(s4, i, "wrapped")
               s6 == Remove(s5, i, "ufpk")
    <3>1. stages = <<s1, s2, s3, s4, s5, s6>>
      BY DEF GenerateStages, KeepIn
    <3> HIDE DEF stages, s1, s2, s3, s4, s5, s6
    <3>2. <<s1, s2, s3, s4, s5, s6>> \in Seq({s1, s2, s3, s4, s5, s6})
      OBVIOUS
    <3>3. QED
      BY <3>1, <3>2
  <2> HIDE DEF stages, pair
  <2>3. PICK T : stages \in Seq(T)
    BY <2>2
  <2> DEFINE U == T \cup {g}
  <2>4. stages \in Seq(U) /\ <<g>> \in Seq(U)
    BY <2>3
  <2> HIDE DEF U
  <2>5. PICK k \in DOMAIN (<<g>> \o stages) : fs' = (<<g>> \o stages)[k]
    BY <1>6, <1>7
  <2>6. \/ \E m \in DOMAIN <<g>> : fs' = <<g>>[m]
        \/ \E m \in DOMAIN stages : fs' = stages[m]
    BY <2>4, <2>5, EitherPart
  <2>7. Safe(fs')
    BY <2>1, <2>6, <1>5
  <2>8. QED
    BY <2>7 DEF GenerateRkey
<1>8. CASE ~HasPair(pair)
  <2>1. fs' = g
    BY <1>6, <1>8
  <2>2. QED
    BY <2>1, <1>5 DEF GenerateRkey
<1>9. QED
  BY <1>7, <1>8

-----------------------------------------------------------------------------
LEMMA KeyFlowInit ==
  ASSUME Init
  PROVE  IInv
<1>1. fs = [flows |-> <<>>, recent |-> <<>>, reuse |-> Nothing] /\ Nothing \in PairFolder
  BY DEF Init, Nothing, PairFolder, OrAbsent
<1>2. /\ fs.flows = <<>> /\ fs.recent = <<>> /\ fs.reuse = Nothing
      /\ DOMAIN fs = {"flows", "recent", "reuse"} /\ fs = [f \in DOMAIN fs |-> fs[f]]
  BY <1>1
<1>3. Flows(fs) = {} /\ <<>> \in Seq(FlowFolder) /\ <<>> \in Seq(Flows(fs)) /\ Len(<<>>) = 0
  BY <1>2 DEF Flows
<1>4. Typed(fs)
  BY <1>1, <1>2, <1>3 DEF Typed, FileSystem, FoldersOK
<1>5. own \in Own /\ (own.prereq.wrapped # Absent => own.prereq.ufpk = own.prereq.wrapped)
  BY KeyFlowAssumption DEF Init
<1>6. given = <<>> /\ half = FALSE /\ mails = {} /\ waiting = 0 /\ arrived = FALSE
  BY DEF Init
<1>7. given \in Seq(SUBSET Ufpk) /\ Len(given) = Len(fs.flows)
  BY <1>2, <1>6
<1>8. fs.reuse.ufpk = Absent /\ fs.reuse.wrapped = Absent
  BY <1>2 DEF Nothing
<1>9. RkeysMatch(fs) /\ PairMatches(fs.reuse) /\ WrappedFirst(fs.reuse)
  BY <1>3, <1>8 DEF RkeysMatch, PairMatches, HasPair, WrappedFirst
<1>10. FilesInv
  BY <1>3, <1>4, <1>5, <1>6, <1>7, <1>8, <1>9 DEF FilesInv
<1>11. MailInv
  BY <1>6 DEF MailInv
<1>12. QED
  BY <1>10, <1>11 DEF IInv

(* What a step leaves, and what it may lose                                *)
LEMMA StepIsSafe ==
  ASSUME IInv, Next
  PROVE  /\ Stage(fs') /\ Recorded /\ UNCHANGED own /\ MailInv'
         /\ Written(fs') \/ Safe(fs')
<1>1. FilesInv /\ MailInv
  BY DEF IInv
<1>2. ASSUME Written(fs'), UNCHANGED <<mails, waiting, arrived>>
      PROVE  Stage(fs') /\ MailInv'
  BY <1>1, <1>2, WrittenIsStage, StageKeepsMail
<1>3. ASSUME Written(fs'), MailInv'
      PROVE  Stage(fs')
  BY <1>1, <1>3, WrittenIsStage
<1>4. CASE EncryptUfpk
  <2>1. Recorded /\ UNCHANGED own
    BY <1>4 DEF EncryptUfpk, Outcome
  <2>2. QED
    BY <2>1, <1>1, <1>2, <1>4, EncryptUfpkWrites
<1>5. CASE UploadDlm
  <2>1. Recorded /\ UNCHANGED own
    BY <1>5 DEF UploadDlm, Outcome
  <2>2. QED
    BY <2>1, <1>1, <1>3, <1>5, UploadDlmWrites
<1>6. CASE PrepareFromMail
  <2>1. Recorded /\ UNCHANGED own
    BY <1>6 DEF PrepareFromMail, Outcome
  <2>2. QED
    BY <2>1, <1>1, <1>2, <1>6, PrepareFromMailWrites
<1>7. CASE EndOfWait
  <2>1. Recorded /\ UNCHANGED own
    BY <1>7 DEF EndOfWait, Outcome
  <2>2. QED
    BY <2>1, <1>1, <1>3, <1>7, EndOfWaitWrites
<1>8. CASE SignApp
  <2>1. Recorded /\ UNCHANGED own
    BY <1>8 DEF SignApp, Outcome
  <2>2. QED
    BY <2>1, <1>1, <1>2, <1>8, SignAppWrites
<1>9. ASSUME NEW u \in Ufpk, PrepareUfpkFile(u)
      PROVE  Written(fs') /\ Stage(fs') /\ Recorded /\ UNCHANGED own /\ MailInv'
  <2>1. Recorded /\ UNCHANGED own
    BY <1>9 DEF PrepareUfpkFile, Outcome
  <2>2. QED
    BY <2>1, <1>1, <1>2, <1>9, PrepareUfpkFileWrites
<1>10. ASSUME NEW u \in Ufpk, DecryptWrapped(u)
       PROVE  Written(fs') /\ Stage(fs') /\ Recorded /\ UNCHANGED own /\ MailInv'
  <2>1. Recorded /\ UNCHANGED own
    BY <1>10 DEF DecryptWrapped, Outcome
  <2>2. QED
    BY <2>1, <1>1, <1>2, <1>10, DecryptWrappedWrites
<1>11. ASSUME NEW file \in OrAbsent(OwnUfpk), PrepareUfpk(file)
       PROVE  Written(fs') /\ Stage(fs') /\ Recorded /\ UNCHANGED own /\ MailInv'
  <2>1. Recorded /\ UNCHANGED own
    BY <1>11 DEF PrepareUfpk, Outcome
  <2>2. QED
    BY <2>1, <1>1, <1>3, <1>11, PrepareUfpkWrites
<1>12. ASSUME NEW m \in mails, SaveMail(m)
       PROVE  Written(fs') /\ Stage(fs') /\ Recorded /\ UNCHANGED own /\ MailInv'
  <2>1. Recorded /\ UNCHANGED own
    BY <1>12 DEF SaveMail, Outcome
  <2>2. QED
    BY <2>1, <1>1, <1>3, <1>12, SaveMailWrites
<1>13. ASSUME NEW root \in Root, WorkflowGenerateRkey(root)
       PROVE  Written(fs') /\ Stage(fs') /\ Recorded /\ UNCHANGED own /\ MailInv'
  <2>1. Recorded /\ UNCHANGED own
    BY <1>13 DEF WorkflowGenerateRkey, Outcome
  <2>2. QED
    BY <2>1, <1>1, <1>2, <1>13, WorkflowGenerateRkeyWrites
<1>14. ASSUME NEW root \in Root, GenerateRkey(root)
       PROVE  Safe(fs') /\ Stage(fs') /\ Recorded /\ UNCHANGED own /\ MailInv'
  <2>1. Recorded /\ UNCHANGED own
    BY <1>14 DEF GenerateRkey, Outcome
  <2>2. Safe(fs') /\ UNCHANGED <<mails, waiting, arrived>>
    BY <1>1, <1>14, GenerateRkeyIsSafe
  <2>3. Stage(fs') /\ MailInv'
    BY <2>2, <1>1, StageKeepsMail DEF Safe
  <2>4. QED
    BY <2>1, <2>2, <2>3
<1>15. QED
  BY <1>4, <1>5, <1>6, <1>7, <1>8, <1>9, <1>10, <1>11, <1>12, <1>13, <1>14 DEF Next

LEMMA KeyFlowStep ==
  ASSUME IInv, [Next]_vars
  PROVE  IInv'
<1>1. CASE Next
  BY <1>1, StepIsSafe, StageKeepsFiles DEF IInv
<1>2. CASE UNCHANGED vars
  BY <1>2 DEF vars, IInv, FilesInv, MailInv, Typed, FileSystem, FoldersOK, Flows, Has,
              RkeysMatch, PairMatches, HasPair, WrappedFirst, Wellformed, MakeRkey
<1>3. QED
  BY <1>1, <1>2

(* In every reachable state IInv holds.                                    *)
THEOREM KeyFlowInvariant == Spec => []IInv
<1>1. Init => IInv
  BY KeyFlowInit
<1>2. IInv /\ [Next]_vars => IInv'
  BY KeyFlowStep
<1>3. QED
  BY <1>1, <1>2, PTL DEF Spec

(* Every variable has its type: flow folders hold what belongs in each     *)
(* file, a mail names a folder that is there, and prepare-ufpk waits in    *)
(* one.                                                                    *)
THEOREM KeyFlowTypeOK == Spec => []TypeOK
<1>1. IInv => TypeOK
  BY DEF IInv, FilesInv, MailInv, Typed, FileSystem, TypeOK
<1>2. QED
  BY <1>1, KeyFlowInvariant, PTL

(* An RKEY, or a pair that is kept for one, has the same UFPK in both its  *)
(* halves, unless one folder was given two UFPKs or generate-rkey was cut  *)
(* between its copies; however the commands of the two generations are     *)
(* mixed and interrupted, for any number of folders, UFPKs and requests.   *)
THEOREM KeyFlowRkeyMatches == Spec => []RkeyMatches
<1>1. IInv => RkeyMatches
  BY DEF IInv, FilesInv, RkeysMatch, PairMatches, RkeyMatches
<1>2. QED
  BY <1>1, KeyFlowInvariant, PTL

(* A pair is not kept any more only when another UFPK was written over it, *)
(* or reuse_ufpk was not empty when generate-rkey removed it.              *)
LEMMA PairsStay ==
  ASSUME IInv, [Next]_vars, NEW u \in Ufpk, Kept(fs, u), ~Kept(fs', u)
  PROVE  \/ fs.reuse # Nothing
         \/ \E i \in Flows(fs), x \in {"ufpk", "wrapped"} : Overwritten(i, x)
<1>1. fs' # fs
  OBVIOUS
<1>2. Next
  BY <1>1 DEF vars
<1>3. CASE Safe(fs')
  BY <1>3 DEF Safe, PairsKept
<1>4. CASE Written(fs')
  <2> SUFFICES ASSUME fs.reuse = Nothing
               PROVE  \E i \in Flows(fs), x \in {"ufpk", "wrapped"} : Overwritten(i, x)
    OBVIOUS
  <2>1. ~PairOf(fs.reuse, u)
    BY KeyFlowAssumption DEF PairOf, Nothing
  <2>2. PICK j \in Flows(fs) : PairOf(fs.flows[j], u)
    BY <2>1 DEF Kept
  <2>3. fs.flows[j]["ufpk"] = u /\ fs.flows[j]["wrapped"] = u /\ u # Absent
    BY <2>2, KeyFlowAssumption DEF PairOf
  <2>4. Has(fs, j, "ufpk") /\ Has(fs, j, "wrapped")
    BY <2>3 DEF Has
  <2>5. j \in Flows(fs') /\ Has(fs', j, "ufpk") /\ Has(fs', j, "wrapped")
    BY <1>4, <2>4 DEF Written
  <2>6. ~PairOf(fs'.flows[j], u)
    BY <2>5 DEF Kept
  <2>7. PICK x \in {"ufpk", "wrapped"} : fs'.flows[j][x] # u
    BY <2>6 DEF PairOf
  <2>8. Overwritten(j, x)
    BY <2>3, <2>4, <2>5, <2>7 DEF Overwritten, Has
  <2>9. QED
    BY <2>8
<1>5. QED
  BY <1>2, <1>3, <1>4, StepIsSafe

(* generate-rkey removes a pair from its folder only when it is safe in    *)
(* reuse_ufpk, at whatever write it is cut.                                *)
THEOREM KeyFlowNoPairLost == Spec => NoPairLost
<1>1. IInv /\ [Next]_vars =>
        [\A u \in Ufpk :
           Kept(fs, u) /\ ~Kept(fs', u) =>
             \/ fs.reuse # Nothing
             \/ \E i \in Flows(fs), x \in {"ufpk", "wrapped"} : Overwritten(i, x)]_vars
  BY PairsStay
<1>2. QED
  BY <1>1, KeyFlowInvariant, PTL DEF Spec, NoPairLost
==============================================================================
