-------------------------- MODULE FirmwareFlowProofs --------------------------
(***************************************************************************)
(* Theorems about FirmwareFlow: its type invariant, NameIsTime and         *)
(* BuildIsCoherent.                                                        *)
(*                                                                         *)
(* As in KeyFlowProofs most of the argument is about the file systems that *)
(* a command leaves between its writes: each is a Stage, because a command *)
(* makes folders at the end and writes only in the last one, as long as    *)
(* nobody has touched an older one by hand.                                *)
(***************************************************************************)
EXTENDS FirmwareFlow, FlowFoldersProofs

(* A file system of this module                                            *)
Typed(s) ==
  /\ FileSystem(s, FlowFolder)
  /\ DOMAIN s = {"flows", "recent", "reusable"}
  /\ s.reusable \in OrAbsent(Root)

(* A code certificate is written after the key certificate of its version. *)
CodeFollowsKey(certs) == \A v \in Version : certs.code[v] # Absent => certs.key[v] # Absent
CertsFollow(s) == \A i \in Flows(s) : Has(s, i, "certs") => CodeFollowsKey(s.flows[i].certs)

(* The keys on file that a command may take over are of the root key that  *)
(* is configured: the RKEY for all folders, that of the last folder which  *)
(* has one, and the public key of the last folder.                         *)
LastRkey(s, j) == Has(s, j, "rkey") /\ \A k \in Flows(s) : Has(s, k, "rkey") => k <= j
RootsAgree(s) ==
  /\ s.reusable \in {Absent, config.root}
  /\ \A j \in Flows(s) : LastRkey(s, j) => s.flows[j].rkey = config.root
  /\ ByName(s) # 0 => s.flows[ByName(s)].pem \in {Absent, config.root}

SomeRkey(s) == \E j \in Flows(s) : Has(s, j, "rkey")

RootKept == {"hand", "root"} \cap strayed = {}

(* The inductive invariant: of the file system                             *)
FilesInv ==
  /\ Typed(fs)
  /\ config \in Configs /\ standard \in BOOLEAN
  /\ strayed \subseteq Strays
  /\ CertsFollow(fs)
  /\ "hand" \notin strayed => InOrder(fs)
  /\ RootKept => RootsAgree(fs)

(* ... and of what workflow-all has made so far                            *)
LastFlow == fs.flows[ByName(fs)]
CombinedNow == [signed |-> SignedNow, image |-> BootNow(config.inject)]
TaskInv ==
  /\ task \in {"", "sign", "combine", "certs", "done"}
  /\ task # "" => SomeRkey(fs)
  /\ task = "combine" /\ "hand" \notin strayed => LastFlow.signed = SignedNow
  /\ task = "certs" /\ "hand" \notin strayed => LastFlow.combined = CombinedNow
  /\ task = "certs" /\ {"hand", "demo"} \cap strayed = {} =>
       LastFlow.withkey = (IF config.inject THEN BootNow(TRUE) ELSE Absent)
  /\ BuildIsCoherent

IInv == FilesInv /\ TaskInv /\ steps \in 0..MaxSteps

-----------------------------------------------------------------------------
(* A file system in which a command may end or be cut                      *)
Stage(t) ==
  /\ Typed(t) /\ CertsFollow(t)
  /\ "hand" \notin strayed => InOrder(t)
  /\ RootKept => RootsAgree(t)
  /\ SomeRkey(fs) => SomeRkey(t)

(* Folder i is one that a command may write in.                            *)
Last(s, i) == i \in Flows(s) /\ ("hand" \notin strayed => i = ByName(s))

(* Contents that fit a file                                                *)
Fits(x, v) ==
  \/ x = "rkey" /\ v \in Root /\ (RootKept => v = config.root)
  \/ x = "pem" /\ v = config.root
  \/ x = "blpem" /\ v \in Bl
  \/ x = "signed" /\ v \in Signed
  \/ x = "withkey" /\ v \in Image
  \/ x = "combined" /\ v \in CombinedFile
  \/ x = "certs" /\ v \in Certs /\ CodeFollowsKey(v)

LEMMA EmptyFolder == [x \in File |-> Absent] \in FlowFolder
BY DEF File, FlowFolder, OrAbsent

(* Folder d with v in file x                                               *)
With(d, x, v) == [d EXCEPT ![x] = v]

LEMMA FitsFolder ==
  ASSUME config.root \in Root, NEW d \in FlowFolder, NEW x, NEW v, Fits(x, v)
  PROVE  /\ With(d, x, v) \in FlowFolder
         /\ v # Absent /\ x \in File
         /\ With(d, x, v)[x] = v
         /\ \A y \in File : y # x => With(d, x, v)[y] = d[y]
<1>1. v # Absent
  BY FirmwareFlowAssumption DEF Fits
<1>3. CASE x = "rkey" /\ v \in Root
  BY <1>1, <1>3 DEF File, FlowFolder, OrAbsent, With
<1>4. CASE x = "pem" /\ v \in Root
  BY <1>1, <1>4 DEF File, FlowFolder, OrAbsent, With
<1>5. CASE x = "blpem" /\ v \in Bl
  BY <1>1, <1>5 DEF File, FlowFolder, OrAbsent, With
<1>6. CASE x = "signed" /\ v \in Signed
  BY <1>1, <1>6 DEF File, FlowFolder, OrAbsent, With
<1>7. CASE x = "withkey" /\ v \in Image
  BY <1>1, <1>7 DEF File, FlowFolder, OrAbsent, With
<1>8. CASE x = "combined" /\ v \in CombinedFile
  BY <1>1, <1>8 DEF File, FlowFolder, OrAbsent, With
<1>9. CASE x = "certs" /\ v \in Certs
  BY <1>1, <1>9 DEF File, FlowFolder, OrAbsent, With
<1>10. QED
  BY <1>3, <1>4, <1>5, <1>6, <1>7, <1>8, <1>9 DEF Fits

(* What the lemmas on file systems need of one of this module              *)
LEMMA TypedFacts ==
  ASSUME NEW s, Typed(s)
  PROVE  /\ FileSystem(s, FlowFolder)
         /\ Len(s.flows) \in Nat /\ Flows(s) = 1..Len(s.flows)
         /\ ByName(s) = Len(s.flows)
         /\ \A i \in Flows(s) : s.flows[i] \in FlowFolder
<1>1. FileSystem(s, FlowFolder)
  BY DEF Typed
<1>2. s.flows \in Seq(FlowFolder) /\ Len(s.flows) \in Nat /\ Flows(s) = 1..Len(s.flows)
  BY <1>1, FileSystemFacts
<1>3. \A i \in Flows(s) : s.flows[i] \in FlowFolder
  BY <1>2
<1>4. QED
  BY <1>1, <1>2, <1>3 DEF ByName

(* Both ways to pick a folder take one to write in.                        *)
LEMMA PickedIsLast ==
  ASSUME NEW s, Stage(s)
  PROVE  /\ ByName(s) # 0 => Last(s, ByName(s))
         /\ ByTime(s) # 0 => Last(s, ByTime(s))
         /\ ByTime(s) = 0 <=> ByName(s) = 0
<1>1. /\ FileSystem(s, FlowFolder) /\ ByName(s) = Len(s.flows)
      /\ Len(s.flows) \in Nat /\ Flows(s) = 1..Len(s.flows)
  BY TypedFacts DEF Stage
<1>2. /\ ByName(s) # 0 => ByName(s) \in Flows(s)
      /\ ByTime(s) # 0 => ByTime(s) \in Flows(s)
      /\ ByTime(s) = 0 <=> ByName(s) = 0
  BY <1>1, PickedIsThere
<1>3. "hand" \notin strayed /\ ByTime(s) # 0 => ByTime(s) = ByName(s)
  <2> SUFFICES ASSUME InOrder(s), ByTime(s) # 0
               PROVE  ByTime(s) = ByName(s)
    BY DEF Stage
  <2>1. 1 \in 1..Len(s.flows)
    BY <1>1, <1>2
  <2>2. s.recent[1] = Len(s.flows) + 1 - 1
    BY <2>1 DEF InOrder
  <2>3. QED
    BY <1>1, <2>2 DEF ByTime
<1>4. QED
  BY <1>2, <1>3 DEF Last

(* The last folder has one file changed.                                   *)
LEMMA StageChanged ==
  ASSUME FilesInv, NEW s, Stage(s), NEW i, Last(s, i), NEW x, NEW v, Fits(x, v),
         NEW t, FileSystem(t, FlowFolder), Changed(s, t, i, With(s.flows[i], x, v)),
         "hand" \notin strayed => InOrder(t)
  PROVE  /\ Stage(t) /\ Last(t, i) /\ Has(t, i, x)
         /\ Flows(t) = Flows(s) /\ ByName(t) = ByName(s)
         /\ t.flows[i][x] = v
         /\ \A y \in File : y # x => t.flows[i][y] = s.flows[i][y]
<1> DEFINE d == With(s.flows[i], x, v)
<1>1. /\ Typed(s) /\ i \in Flows(s) /\ s.flows[i] \in FlowFolder
      /\ Len(s.flows) \in Nat /\ Flows(s) = 1..Len(s.flows) /\ ByName(s) = Len(s.flows)
  BY TypedFacts DEF Stage, Last
<1>2. config.root \in Root
  BY DEF FilesInv, Configs
<1>3. /\ d \in FlowFolder /\ v # Absent /\ x \in File /\ d[x] = v
      /\ \A y \in File : y # x => d[y] = s.flows[i][y]
  BY <1>1, <1>2, FitsFolder
<1>4. /\ DOMAIN t = DOMAIN s /\ t["reusable"] = s["reusable"]
      /\ Flows(t) = Flows(s)
      /\ t.flows[i] = d
      /\ \A j \in Flows(s) : j # i => t.flows[j] = s.flows[j]
  BY <1>1 DEF Changed, Beside, Typed, Flows
<1> HIDE DEF d
<1>5. Typed(t)
  BY <1>1, <1>4 DEF Typed
<1>6. ByName(t) = ByName(s)
  <2>1. Len(t.flows) \in Nat /\ Flows(t) = 1..Len(t.flows) /\ ByName(t) = Len(t.flows)
    BY <1>5, TypedFacts
  <2>2. QED
    BY <2>1, <1>1, <1>4
<1>7. Last(t, i)
  BY <1>4, <1>6 DEF Last
<1>8. ASSUME NEW j \in Flows(s), NEW y \in File, j # i \/ y # x
      PROVE  t.flows[j][y] = s.flows[j][y]
  BY <1>3, <1>4, <1>8
<1>9. Has(t, i, x)
  BY <1>3, <1>4 DEF Has
<1>10. CertsFollow(t)
  <2> SUFFICES ASSUME NEW j \in Flows(t), Has(t, j, "certs")
               PROVE  CodeFollowsKey(t.flows[j]["certs"])
    BY DEF CertsFollow
  <2>1. CASE j = i /\ x = "certs"
    BY <2>1, <1>3, <1>4 DEF Fits
  <2>2. CASE j # i \/ x # "certs"
    <3>1. t.flows[j]["certs"] = s.flows[j]["certs"]
      BY <2>2, <1>4, <1>8 DEF File
    <3>2. QED
      BY <3>1, <1>4 DEF Stage, CertsFollow, Has
  <2>3. QED
    BY <2>1, <2>2
<1>11. \A j \in Flows(s) : Has(s, j, "rkey") => Has(t, j, "rkey")
  <2> SUFFICES ASSUME NEW j \in Flows(s), Has(s, j, "rkey")
               PROVE  Has(t, j, "rkey")
    OBVIOUS
  <2>1. CASE j = i /\ x = "rkey"
    BY <2>1, <1>9
  <2>2. CASE j # i \/ x # "rkey"
    BY <2>2, <1>8 DEF Has, File
  <2>3. QED
    BY <2>1, <2>2
<1>12. SomeRkey(fs) => SomeRkey(t)
  BY <1>4, <1>11 DEF Stage, SomeRkey
<1>13. ASSUME RootKept
       PROVE  RootsAgree(t)
  <2>1. RootsAgree(s) /\ i = ByName(s)
    BY <1>13 DEF Stage, RootKept, Last
  <2>2. t.reusable \in {Absent, config.root}
    BY <2>1, <1>4 DEF RootsAgree
  <2>3. ASSUME NEW j \in Flows(t), LastRkey(t, j)
        PROVE  t.flows[j]["rkey"] = config.root
    <3>1. CASE x = "rkey"
      <4>1. i <= j
        BY <2>3, <3>1, <1>4, <1>9, <1>1 DEF LastRkey
      <4>2. j = i
        BY <4>1, <2>1, <1>1, <1>4
      <4>3. QED
        BY <4>2, <3>1, <1>13, <1>3, <1>4 DEF Fits
    <3>2. CASE x # "rkey"
      <4>1. \A k \in Flows(s) : t.flows[k]["rkey"] = s.flows[k]["rkey"]
        BY <3>2, <1>8 DEF File
      <4>2. LastRkey(s, j)
        BY <4>1, <2>3, <1>4 DEF LastRkey, Has
      <4>3. QED
        BY <4>1, <4>2, <2>1, <1>4 DEF RootsAgree
    <3>3. QED
      BY <3>1, <3>2
  <2>4. t.flows[ByName(t)]["pem"] \in {Absent, config.root}
    <3>1. CASE x = "pem"
      BY <3>1, <2>1, <1>3, <1>4, <1>6 DEF Fits
    <3>2. CASE x # "pem"
      <4>1. t.flows[i]["pem"] = s.flows[i]["pem"]
        BY <3>2, <1>1, <1>8 DEF File
      <4>2. ByName(s) # 0
        BY <2>1, <1>1
      <4>3. QED
        BY <4>1, <4>2, <2>1, <1>6 DEF RootsAgree
    <3>3. QED
      BY <3>1, <3>2
  <2>5. QED
    BY <2>2, <2>3, <2>4 DEF RootsAgree
<1>14. Stage(t)
  BY <1>5, <1>10, <1>12, <1>13 DEF Stage
<1>15. QED
  BY <1>1, <1>3, <1>4, <1>6, <1>7, <1>8, <1>9, <1>14

LEMMA StagePut ==
  ASSUME FilesInv, NEW s, Stage(s), NEW i, Last(s, i), NEW x, NEW v, Fits(x, v)
  PROVE  LET t == Put(s, i, x, v) IN
         /\ Stage(t) /\ Last(t, i) /\ Has(t, i, x)
         /\ Flows(t) = Flows(s) /\ ByName(t) = ByName(s)
         /\ t.flows[i][x] = v
         /\ \A y \in File : y # x => t.flows[i][y] = s.flows[i][y]
<1> DEFINE t == Put(s, i, x, v)
           d == With(s.flows[i], x, v)
<1>1. /\ FileSystem(s, FlowFolder) /\ i \in Flows(s) /\ s.flows[i] \in FlowFolder
      /\ Len(s.flows) \in Nat /\ Flows(s) = 1..Len(s.flows) /\ ByName(s) = Len(s.flows)
  BY TypedFacts DEF Stage, Last
<1>2. d \in FlowFolder
  BY <1>1, FitsFolder DEF FilesInv, Configs
<1>3. /\ FileSystem(t, FlowFolder) /\ Changed(s, t, i, d)
      /\ InOrder(s) /\ i = Len(s.flows) => t.recent = s.recent
  BY <1>1, <1>2, PutWrites DEF With
<1> HIDE DEF t, d
<1>4. "hand" \notin strayed => InOrder(t)
  <2> SUFFICES ASSUME InOrder(s), i = Len(s.flows) PROVE InOrder(t)
    BY <1>1 DEF Stage, Last
  <2>1. Len(t.flows) \in Nat /\ Flows(t) = 1..Len(t.flows) /\ Flows(t) = Flows(s)
    BY <1>3, FileSystemFacts DEF Changed, Flows
  <2>2. Len(t.flows) = Len(s.flows)
    BY <2>1, <1>1
  <2>3. t.recent = s.recent
    BY <1>3
  <2>4. QED
    BY <2>2, <2>3 DEF InOrder
<1>5. Changed(s, t, i, With(s.flows[i], x, v))
  BY <1>3 DEF d
<1>6. /\ Stage(t) /\ Last(t, i) /\ Has(t, i, x)
      /\ Flows(t) = Flows(s) /\ ByName(t) = ByName(s)
      /\ t.flows[i][x] = v
      /\ \A y \in File : y # x => t.flows[i][y] = s.flows[i][y]
  BY <1>3, <1>4, <1>5, StageChanged
<1>7. QED
  BY <1>6 DEF t

LEMMA StagePutIfAbsent ==
  ASSUME FilesInv, NEW s, Stage(s), NEW i, Last(s, i), NEW x, NEW v,
         ~Has(s, i, x) => Fits(x, v)
  PROVE  LET t == PutIfAbsent(s, i, x, v) IN
         /\ Stage(t) /\ Last(t, i) /\ Has(t, i, x)
         /\ Flows(t) = Flows(s) /\ ByName(t) = ByName(s)
         /\ Has(s, i, x) => t = s
         /\ ~Has(s, i, x) => t.flows[i][x] = v
         /\ \A y \in File : y # x => t.flows[i][y] = s.flows[i][y]
<1>1. CASE Has(s, i, x)
  BY <1>1 DEF PutIfAbsent
<1>2. CASE ~Has(s, i, x)
  <2>1. PutIfAbsent(s, i, x, v) = Put(s, i, x, v)
    BY <1>2 DEF PutIfAbsent
  <2>2. QED
    BY <2>1, <1>2, StagePut
<1>3. QED
  BY <1>1, <1>2

LEMMA StageNewFlow ==
  ASSUME NEW s, Stage(s)
  PROVE  LET t == NewFlow(s, File) IN
         /\ Stage(t) /\ ByTime(t) = ByName(t) /\ Last(t, ByName(t)) /\ ByName(t) # 0
         /\ \A x \in File : t.flows[ByName(t)][x] = Absent
<1> DEFINE e == [x \in File |-> Absent]
           t == NewFlow(s, File)
<1>1. /\ Typed(s) /\ FileSystem(s, FlowFolder) /\ e \in FlowFolder
      /\ s.flows \in Seq(FlowFolder) /\ Len(s.flows) \in Nat /\ Flows(s) = 1..Len(s.flows)
  BY EmptyFolder, FileSystemFacts DEF Stage, Typed
<1>2. \A x \in File : e[x] = Absent
  OBVIOUS
<1> HIDE DEF e
<1>3. /\ FileSystem(t, FlowFolder) /\ Beside(s, t)
      /\ t.flows = Append(s.flows, e)
      /\ ByTime(t) = ByName(t)
      /\ InOrder(s) => InOrder(t)
  BY <1>1, NewFlowMakes DEF e
<1> HIDE DEF t
<1>4. /\ Flows(t) = 1..Len(s.flows) + 1 /\ ByName(t) = Len(s.flows) + 1
      /\ \A i \in Flows(s) : t.flows[i] = s.flows[i]
      /\ t.flows[Len(s.flows) + 1] = e
  BY <1>1, <1>3 DEF Flows, ByName
<1>5. ByName(t) \in Flows(t) /\ ByName(t) # 0
  BY <1>1, <1>4
<1>6. \A i \in Flows(t) : i \in Flows(s) \/ t.flows[i] = e
  BY <1>1, <1>4
<1>7. Typed(t) /\ t.reusable = s.reusable
  <2>1. t["reusable"] = s["reusable"] /\ DOMAIN t = DOMAIN s
    BY <1>1, <1>3 DEF Typed, Beside
  <2>2. QED
    BY <2>1, <1>1, <1>3 DEF Typed
<1>8. \A i \in Flows(t), x \in File : Has(t, i, x) => i \in Flows(s) /\ Has(s, i, x)
  BY <1>2, <1>4, <1>6 DEF Has
<1>9. "rkey" \in File /\ "certs" \in File /\ "pem" \in File
  BY DEF File
<1>10. CertsFollow(t)
  BY <1>4, <1>8, <1>9 DEF Stage, CertsFollow
<1>11. Flows(s) \subseteq Flows(t)
  BY <1>1, <1>4
<1>12. \A i \in Flows(s) : Has(s, i, "rkey") <=> Has(t, i, "rkey")
  BY <1>4 DEF Has
<1>13. SomeRkey(fs) => SomeRkey(t)
  BY <1>11, <1>12 DEF Stage, SomeRkey
<1>14. ASSUME RootsAgree(s)
       PROVE  RootsAgree(t)
  <2>1. ASSUME NEW j \in Flows(t), LastRkey(t, j)
        PROVE  t.flows[j].rkey = config.root
    <3>1. j \in Flows(s) /\ LastRkey(s, j)
      BY <2>1, <1>8, <1>9, <1>11, <1>12 DEF LastRkey
    <3>2. QED
      BY <3>1, <1>4, <1>14 DEF RootsAgree
  <2>2. t.flows[ByName(t)]["pem"] = Absent
    BY <1>2, <1>4, <1>9
  <2>3. QED
    BY <2>1, <2>2, <1>7, <1>14 DEF RootsAgree
<1>15. Stage(t)
  BY <1>3, <1>7, <1>10, <1>13, <1>14 DEF Stage
<1>16. QED
  BY <1>2, <1>3, <1>4, <1>5, <1>15 DEF t, Last

(* Whatever folder is asked for, the one that is taken is there.           *)
LEMMA StageReuse ==
  ASSUME NEW s, Stage(s), NEW i, i \in {ByName(s), ByTime(s)}, NEW important
  PROVE  LET t == Reuse(s, i, important, File) IN
         /\ Stage(t) /\ Last(t, ByName(t)) /\ Last(t, ByTime(t))
         /\ ByTime(t) # 0 /\ ByName(t) # 0
         /\ i # 0 /\ HasAny(s, i, important) => t = s
<1>1. CASE i # 0 /\ HasAny(s, i, important)
  <2>1. Reuse(s, i, important, File) = s
    BY <1>1 DEF Reuse
  <2>2. QED
    BY <1>1, <2>1, PickedIsLast
<1>2. CASE ~ (i # 0 /\ HasAny(s, i, important))
  <2>1. Reuse(s, i, important, File) = NewFlow(s, File)
    BY <1>2 DEF Reuse
  <2>2. QED
    BY <1>2, <2>1, StageNewFlow
<1>3. QED
  BY <1>1, <1>2

(* The contents that the configuration names, and what is in a folder      *)
LEMMA ConfiguredFits ==
  ASSUME FilesInv
  PROVE  /\ Stage(fs)
         /\ config.root \in Root /\ config.bl \in Bl
         /\ SignedNow \in Signed
         /\ \A inject : BootNow(inject) \in Image
<1>1. Stage(fs)
  BY DEF FilesInv, Stage
<1>2. /\ config.root \in Root /\ config.bl \in Bl /\ config.cust \in Cust
      /\ config.app \in App /\ config.boot \in Boot
  BY DEF FilesInv, Configs
<1>3. SignedNow \in Signed
  BY <1>2 DEF SignedNow, Signed
<1>4. \A inject : BootNow(inject) \in Image
  BY <1>2 DEF BootNow, Image, OrAbsent
<1>5. QED
  BY <1>1, <1>2, <1>3, <1>4

LEMMA InFolder ==
  ASSUME NEW s, Typed(s), NEW i \in Flows(s)
  PROVE  /\ s.flows[i].rkey \in OrAbsent(Root) /\ s.flows[i].pem \in OrAbsent(Root)
         /\ s.flows[i].blpem \in OrAbsent(Bl)
         /\ s.flows[i].signed \in OrAbsent(Signed) /\ s.flows[i].withkey \in OrAbsent(Image)
         /\ s.flows[i].combined \in OrAbsent(CombinedFile)
         /\ s.flows[i].certs \in OrAbsent(Certs)
<1>1. s.flows[i] \in FlowFolder
  BY TypedFacts
<1>2. QED
  BY <1>1 DEF FlowFolder

-----------------------------------------------------------------------------
(* What the commands have in common: they end in a stage, do not edit the  *)
(* configuration and may add to what leads astray.                         *)
Works ==
  /\ Stage(fs')
  /\ strayed \subseteq strayed' /\ strayed' \subseteq Strays
  /\ UNCHANGED <<config, standard>>

(* A command of few writes is cut before the last, or goes on.             *)
LEMMA OneOutcome ==
  ASSUME NEW a, NEW next, Outcome(<<a>>, next)
  PROVE  fs' = a /\ task' = next
<1> DEFINE q == <<a>>
<1>1. DOMAIN q = 1..1 /\ Len(q) = 1 /\ q[1] = a
  OBVIOUS
<1>2. Outcome(q, next)
  OBVIOUS
<1> HIDE DEF q
<1>3. PICK k \in 1..1 : fs' = q[k] /\ (k # 1 => task' = "") /\ (k = 1 => task' = next)
  BY <1>1, <1>2 DEF Outcome
<1>4. k = 1
  OBVIOUS
<1>5. QED
  BY <1>1, <1>3, <1>4

LEMMA TwoOutcomes ==
  ASSUME NEW a, NEW b, NEW next, Outcome(<<a, b>>, next)
  PROVE  \/ task' = "" /\ fs' \in {a}
         \/ task' = next /\ fs' = b
<1> DEFINE q == <<a, b>>
<1>1. DOMAIN q = 1..2 /\ Len(q) = 2 /\ q[1] = a /\ q[2] = b
  OBVIOUS
<1>2. Outcome(q, next)
  OBVIOUS
<1> HIDE DEF q
<1>3. PICK k \in 1..2 : fs' = q[k] /\ (k # 2 => task' = "") /\ (k = 2 => task' = next)
  BY <1>1, <1>2 DEF Outcome
<1>4. k = 1 \/ k = 2
  OBVIOUS
<1>5. QED
  BY <1>1, <1>3, <1>4

LEMMA ThreeOutcomes ==
  ASSUME NEW a, NEW b, NEW c, NEW next, Outcome(<<a, b, c>>, next)
  PROVE  \/ task' = "" /\ fs' \in {a, b}
         \/ task' = next /\ fs' = c
<1> DEFINE q == <<a, b, c>>
<1>1. DOMAIN q = 1..3 /\ Len(q) = 3 /\ q[1] = a /\ q[2] = b /\ q[3] = c
  OBVIOUS
<1>2. Outcome(q, next)
  OBVIOUS
<1> HIDE DEF q
<1>3. PICK k \in 1..3 : fs' = q[k] /\ (k # 3 => task' = "") /\ (k = 3 => task' = next)
  BY <1>1, <1>2 DEF Outcome
<1>4. k = 1 \/ k = 2 \/ k = 3
  OBVIOUS
<1>5. QED
  BY <1>1, <1>3, <1>4

LEMMA FourOutcomes ==
  ASSUME NEW a, NEW b, NEW c, NEW d, NEW next, Outcome(<<a, b, c, d>>, next)
  PROVE  \/ task' = "" /\ fs' \in {a, b, c}
         \/ task' = next /\ fs' = d
<1> DEFINE q == <<a, b, c, d>>
<1>1. DOMAIN q = 1..4 /\ Len(q) = 4 /\ q[1] = a /\ q[2] = b /\ q[3] = c /\ q[4] = d
  OBVIOUS
<1>2. Outcome(q, next)
  OBVIOUS
<1> HIDE DEF q
<1>3. PICK k \in 1..4 : fs' = q[k] /\ (k # 4 => task' = "") /\ (k = 4 => task' = next)
  BY <1>1, <1>2 DEF Outcome
<1>4. k = 1 \/ k = 2 \/ k = 3 \/ k = 4
  OBVIOUS
<1>5. QED
  BY <1>1, <1>3, <1>4

LEMMA FailsWorks ==
  ASSUME FilesInv, Fails
  PROVE  Works /\ task' = ""
<1>1. Stage(fs) /\ fs' = fs
  BY ConfiguredFits DEF Fails
<1>2. QED
  BY <1>1 DEF Works, Fails, FilesInv

(* sign-app ends with the present application, signed, in the last folder. *)
LEMMA SignAppWorks ==
  ASSUME FilesInv, NEW next, SignApp(next)
  PROVE  /\ Works
         /\ \/ task' = ""
            \/ task' = next /\ fs'.flows[ByName(fs')].signed = SignedNow
<1>1. PICK g \in CurrentFlow(fs) : Outcome(<<g, Put(g, ByName(g), "signed", SignedNow)>>, next)
  BY DEF SignApp
<1>2. Stage(g) /\ Last(g, ByName(g))
  <2>1. Stage(fs)
    BY ConfiguredFits
  <2>2. g = NewFlow(fs, File) \/ (g = fs /\ ByName(fs) # 0)
    BY <1>1 DEF CurrentFlow
  <2>3. QED
    BY <2>1, <2>2, StageNewFlow, PickedIsLast
<1> DEFINE s == Put(g, ByName(g), "signed", SignedNow)
<1>3. Fits("signed", SignedNow)
  BY ConfiguredFits DEF Fits
<1>4. /\ Stage(s) /\ ByName(s) = ByName(g)
      /\ s.flows[ByName(g)]["signed"] = SignedNow
  BY <1>2, <1>3, StagePut
<1> HIDE DEF s
<1>5. (task' = "" /\ fs' = g) \/ (task' = next /\ fs' = s)
  BY <1>1, TwoOutcomes DEF s
<1>6. Stage(fs')
  BY <1>2, <1>4, <1>5
<1>7. Works
  BY <1>6 DEF Works, SignApp, FilesInv
<1>8. QED
  BY <1>4, <1>5, <1>7

(* make-combined-srec: the signed application of the folder, and the       *)
(* bootloader, which is not beside a file that it was not made of unless   *)
(* the mark "demo" is set.                                                 *)
LEMMA MakeCombinedWorks ==
  ASSUME FilesInv, NEW inject \in BOOLEAN, NEW next, MakeCombined(inject, next)
  PROVE  /\ Works
         /\ \/ task' = ""
            \/ /\ task' = next
               /\ "hand" \notin strayed =>
                    /\ fs'.flows[ByName(fs')].combined =
                         [signed |-> LastFlow.signed, image |-> BootNow(inject)]
                    /\ "demo" \notin strayed' =>
                         fs'.flows[ByName(fs')].withkey =
                           (IF inject THEN BootNow(TRUE) ELSE Absent)
<1> DEFINE i == ByTime(fs)
           w == BootNow(TRUE)
           b == BootNow(inject)
           s1 == IF inject THEN Put(fs, i, "withkey", w) ELSE fs
           v == Combined(fs, i, b)
           s2 == Put(s1, i, "combined", v)
<1>1. CASE ~ (i # 0 /\ Has(fs, i, "signed"))
  BY <1>1, FailsWorks DEF MakeCombined
<1>2. CASE i # 0 /\ Has(fs, i, "signed")
  <2>1. /\ Outcome(<<fs, s1, s2>>, next)
        /\ strayed' = (strayed \cup IF ~inject /\ Has(fs, i, "withkey") THEN {"demo"} ELSE {})
        /\ UNCHANGED <<config, standard>>
    BY <1>2 DEF MakeCombined
  <2>2. Stage(fs) /\ Last(fs, i) /\ w \in Image /\ b \in Image
    BY <1>2, ConfiguredFits, PickedIsLast
  <2>3. v \in CombinedFile
    <3>1. fs.flows[i].signed \in Signed
      BY <1>2, <2>2, InFolder DEF Stage, Last, Has, OrAbsent
    <3>2. QED
      BY <2>2, <3>1 DEF Combined, CombinedFile
  <2>4. v = [signed |-> fs.flows[i].signed, image |-> b]
    BY DEF Combined
  <2> HIDE DEF i, v, w, b
  <2>5. Fits("withkey", w) /\ Fits("combined", v)
    BY <2>2, <2>3 DEF Fits
  <2>6. /\ Stage(s1) /\ Last(s1, i) /\ ByName(s1) = ByName(fs)
        /\ s1.flows[i]["withkey"] = (IF inject THEN w ELSE fs.flows[i]["withkey"])
    <3>1. CASE inject
      <4> DEFINE t == Put(fs, i, "withkey", w)
      <4>1. /\ Stage(t) /\ Last(t, i) /\ ByName(t) = ByName(fs)
            /\ t.flows[i]["withkey"] = w
        BY <2>2, <2>5, StagePut
      <4>2. QED
        BY <3>1, <4>1
    <3>2. CASE ~inject
      BY <2>2, <3>2
    <3>3. QED
      BY <3>1, <3>2
  <2> HIDE DEF s1
  <2>7. /\ Stage(s2) /\ ByName(s2) = ByName(fs)
        /\ s2.flows[i]["combined"] = v
        /\ s2.flows[i]["withkey"] = s1.flows[i]["withkey"]
    BY <2>5, <2>6, StagePut DEF File
  <2> HIDE DEF s2
  <2>8. \/ task' = "" /\ fs' \in {fs, s1}
        \/ task' = next /\ fs' = s2
    BY <2>1, ThreeOutcomes
  <2>9. Stage(fs')
    BY <2>2, <2>6, <2>7, <2>8
  <2>10. Works
    BY <2>1, <2>9 DEF Works, FilesInv, Strays
  <2>11. "hand" \notin strayed => i = ByName(fs)
    BY <2>2 DEF Last
  <2>12. "demo" \notin strayed' /\ ~inject => fs.flows[i]["withkey"] = Absent
    BY <2>1 DEF Has
  <2>13. QED
    BY <2>4, <2>6, <2>7, <2>8, <2>10, <2>11, <2>12 DEF LastFlow, w, b
<1>3. QED
  BY <1>1, <1>2

(* gen-fsbl-certs writes over a file that is there.                        *)
LEMMA StageRewrite ==
  ASSUME FilesInv, NEW s, Stage(s), NEW i, Last(s, i), NEW v, Fits("certs", v)
  PROVE  LET t == [s EXCEPT !.flows[i]["certs"] = v] IN
         /\ Stage(t) /\ Last(t, i) /\ Has(t, i, "certs")
         /\ ByName(t) = ByName(s)
         /\ t.flows[i]["certs"] = v
         /\ \A y \in File : y # "certs" => t.flows[i][y] = s.flows[i][y]
<1> DEFINE t == [s EXCEPT !.flows[i]["certs"] = v]
           d == With(s.flows[i], "certs", v)
<1>1. /\ FileSystem(s, FlowFolder) /\ i \in Flows(s) /\ s.flows[i] \in FlowFolder
  BY TypedFacts DEF Stage, Last
<1>2. d \in FlowFolder
  BY <1>1, FitsFolder, ConfiguredFits
<1>3. /\ FileSystem(t, FlowFolder) /\ Changed(s, t, i, d)
      /\ InOrder(s) => InOrder(t)
  BY <1>1, <1>2, FileChanged DEF With
<1> HIDE DEF t, d
<1>4. "hand" \notin strayed => InOrder(t)
  BY <1>3 DEF Stage
<1>5. Changed(s, t, i, With(s.flows[i], "certs", v))
  BY <1>3 DEF d
<1>6. /\ Stage(t) /\ Last(t, i) /\ Has(t, i, "certs")
      /\ ByName(t) = ByName(s)
      /\ t.flows[i]["certs"] = v
      /\ \A y \in File : y # "certs" => t.flows[i][y] = s.flows[i][y]
  BY <1>3, <1>4, <1>5, StageChanged
<1>7. QED
  BY <1>6 DEF t

(* The certificates of a folder, one of them written                       *)
LEMMA KeyCertWritten ==
  ASSUME NEW c \in Certs, CodeFollowsKey(c), NEW v \in Version, NEW k \in KeyCert
  PROVE  LET e == [c EXCEPT !.key[v] = k] IN
         /\ Fits("certs", e)
         /\ e.key = [c.key EXCEPT ![v] = k] /\ e.code = c.code
<1> DEFINE e == [c EXCEPT !.key[v] = k]
<1>1. c = [key |-> c.key, code |-> c.code]
  BY DEF Certs
<1>2. /\ c.key \in [Version -> OrAbsent(KeyCert)]
      /\ c.code \in [Version -> OrAbsent(CodeCert)]
  BY DEF Certs
<1>3. e.key = [c.key EXCEPT ![v] = k] /\ e.code = c.code
  BY <1>1
<1>4. e = [key |-> [c.key EXCEPT ![v] = k], code |-> c.code]
  BY <1>1
<1>5. [c.key EXCEPT ![v] = k] \in [Version -> OrAbsent(KeyCert)]
  BY <1>2 DEF OrAbsent
<1>6. e \in Certs
  BY <1>2, <1>4, <1>5 DEF Certs
<1>7. k # Absent
  BY FirmwareFlowAssumption
<1>8. CodeFollowsKey(e)
  BY <1>2, <1>3, <1>7 DEF CodeFollowsKey
<1>9. QED
  BY <1>3, <1>6, <1>8 DEF Fits

LEMMA CodeCertWritten ==
  ASSUME NEW c \in Certs, CodeFollowsKey(c), NEW v \in Version, c.key[v] # Absent,
         NEW k \in CodeCert
  PROVE  LET e == [c EXCEPT !.code[v] = k] IN
         /\ Fits("certs", e)
         /\ e.code = [c.code EXCEPT ![v] = k] /\ e.key = c.key
<1> DEFINE e == [c EXCEPT !.code[v] = k]
<1>1. c = [key |-> c.key, code |-> c.code]
  BY DEF Certs
<1>2. /\ c.key \in [Version -> OrAbsent(KeyCert)]
      /\ c.code \in [Version -> OrAbsent(CodeCert)]
  BY DEF Certs
<1>3. e.code = [c.code EXCEPT ![v] = k] /\ e.key = c.key
  BY <1>1
<1>4. e = [key |-> c.key, code |-> [c.code EXCEPT ![v] = k]]
  BY <1>1
<1>5. [c.code EXCEPT ![v] = k] \in [Version -> OrAbsent(CodeCert)]
  BY <1>2 DEF OrAbsent
<1>6. e \in Certs
  BY <1>2, <1>4, <1>5 DEF Certs
<1>7. CodeFollowsKey(e)
  BY <1>2, <1>3 DEF CodeFollowsKey
<1>8. QED
  BY <1>3, <1>6, <1>7 DEF Fits

LEMMA NoCertsFit == Fits("certs", NoCerts)
<1>1. NoCerts \in Certs
  BY DEF NoCerts, Certs, OrAbsent
<1>2. \A v \in Version : NoCerts.code[v] = Absent
  BY DEF NoCerts
<1>3. QED
  BY <1>1, <1>2 DEF Fits, CodeFollowsKey

(* The image of the CRC in the code certificate                            *)
LEMMA CrcSourceIsImage ==
  ASSUME FilesInv, NEW s, Stage(s), NEW i \in Flows(s),
         NEW combined \in OrAbsent(CombinedFile)
  PROVE  CrcSource(s, i, combined) \in Image
<1>1. BootNow(FALSE) \in Image
  BY ConfiguredFits
<1>2. CASE Has(s, i, "withkey")
  <2>1. s.flows[i].withkey \in Image
    BY <1>2, InFolder DEF Stage, Has, OrAbsent
  <2>2. QED
    BY <2>1, <1>2 DEF CrcSource
<1>3. CASE ~Has(s, i, "withkey") /\ combined # Absent
  BY <1>3 DEF CrcSource, OrAbsent, CombinedFile
<1>4. CASE ~Has(s, i, "withkey") /\ combined = Absent
  BY <1>1, <1>4 DEF CrcSource
<1>5. QED
  BY <1>2, <1>3, <1>4

(* The public keys are there after the export.                             *)
LEMMA PemsWritten ==
  ASSUME FilesInv, NEW g, Stage(g), NEW i, Last(g, i)
  PROVE  \E s1, s2, s3 :
           /\ WithPems(g, i) = <<g, s1, s2, s3>>
           /\ Stage(s1) /\ Stage(s2) /\ Stage(s3) /\ Last(s3, i) /\ ByName(s3) = ByName(g)
           /\ s3.flows[i].pem = config.root /\ s3.flows[i].blpem = config.bl
           /\ s3.flows[i].certs = (IF Has(g, i, "certs") THEN g.flows[i].certs ELSE NoCerts)
           /\ Has(s3, i, "certs")
           /\ \A y \in {"rkey", "withkey", "combined"} : s3.flows[i][y] = g.flows[i][y]
<1> DEFINE s1 == PutIfAbsent(g, i, "certs", NoCerts)
           s2 == Put(s1, i, "pem", config.root)
           s3 == Put(s2, i, "blpem", config.bl)
<1>1. WithPems(g, i) = <<g, s1, s2, s3>>
  BY DEF WithPems
<1>2. Fits("certs", NoCerts) /\ Fits("pem", config.root) /\ Fits("blpem", config.bl)
  BY NoCertsFit, ConfiguredFits DEF Fits
<1>3. {"rkey", "pem", "blpem", "withkey", "combined", "certs"} \subseteq File
  BY DEF File
<1>4. /\ Stage(s1) /\ Last(s1, i) /\ Has(s1, i, "certs") /\ ByName(s1) = ByName(g)
      /\ Has(g, i, "certs") => s1 = g
      /\ ~Has(g, i, "certs") => s1.flows[i]["certs"] = NoCerts
      /\ \A y \in File : y # "certs" => s1.flows[i][y] = g.flows[i][y]
  BY <1>2, StagePutIfAbsent
<1> HIDE DEF s1
<1>5. /\ Stage(s2) /\ Last(s2, i) /\ ByName(s2) = ByName(s1)
      /\ s2.flows[i]["pem"] = config.root
      /\ \A y \in File : y # "pem" => s2.flows[i][y] = s1.flows[i][y]
  BY <1>2, <1>4, StagePut
<1> HIDE DEF s2
<1>6. /\ Stage(s3) /\ Last(s3, i) /\ ByName(s3) = ByName(s2)
      /\ s3.flows[i]["blpem"] = config.bl
      /\ \A y \in File : y # "blpem" => s3.flows[i][y] = s2.flows[i][y]
  BY <1>2, <1>5, StagePut
<1> HIDE DEF s3
<1>7. \A y \in {"rkey", "withkey", "combined"} : s3.flows[i][y] = g.flows[i][y]
  BY <1>3, <1>4, <1>5, <1>6
<1>8. s3.flows[i]["pem"] = config.root /\ s3.flows[i]["certs"] = s1.flows[i]["certs"]
  BY <1>3, <1>5, <1>6
<1>9. Has(s3, i, "certs")
  BY <1>4, <1>8 DEF Has
<1>10. s1.flows[i].certs = (IF Has(g, i, "certs") THEN g.flows[i].certs ELSE NoCerts)
  BY <1>4
<1>11. QED
  BY <1>1, <1>4, <1>5, <1>6, <1>7, <1>8, <1>9, <1>10

LEMMA PartsOf ==
  ASSUME NEW T, NEW p \in Seq(T), NEW r \in Seq(T)
  PROVE  /\ DOMAIN (p \o r) = 1..Len(p) + Len(r) /\ Len(p \o r) = Len(p) + Len(r)
         /\ \A n \in 1..Len(p) : (p \o r)[n] = p[n]
         /\ \A n \in 1..Len(r) : (p \o r)[Len(p) + n] = r[n]
<1>1. DOMAIN (p \o r) = 1..Len(p) + Len(r) /\ Len(p \o r) = Len(p) + Len(r)
  OBVIOUS
<1>2. \A n \in 1..Len(p) : (p \o r)[n] = p[n]
  OBVIOUS
<1>3. \A n \in 1..Len(r) : (p \o r)[Len(p) + n] = r[n]
  OBVIOUS
<1>4. QED
  BY <1>1, <1>2, <1>3

LEMMA Places ==
  ASSUME NEW p, NEW r, NEW q, NEW l, NEW m, l = 4, m = 2,
         DOMAIN q = 1..l + m, Len(q) = l + m,
         \A n \in 1..l : q[n] = p[n], \A n \in 1..m : q[l + n] = r[n]
  PROVE  /\ DOMAIN q = 1..6 /\ Len(q) = 6
         /\ \A n \in 1..4 : q[n] = p[n]
         /\ q[5] = r[1] /\ q[6] = r[2]
<1>1. q[4 + 1] = r[1] /\ q[4 + 2] = r[2]
  OBVIOUS
<1>2. QED
  BY <1>1

LEMMA FourAndTwo ==
  ASSUME NEW T, NEW p \in Seq(T), NEW r \in Seq(T)
  PROVE  Len(p) = 4 /\ Len(r) = 2 =>
           /\ DOMAIN (p \o r) = 1..6 /\ Len(p \o r) = 6
           /\ \A n \in 1..4 : (p \o r)[n] = p[n]
           /\ (p \o r)[5] = r[1] /\ (p \o r)[6] = r[2]
<1> DEFINE q == p \o r
<1>1. /\ DOMAIN q = 1..Len(p) + Len(r) /\ Len(q) = Len(p) + Len(r)
      /\ \A n \in 1..Len(p) : q[n] = p[n]
      /\ \A n \in 1..Len(r) : q[Len(p) + n] = r[n]
  BY PartsOf
<1> HIDE DEF q
<1>2. PICK l, m : l = Len(p) /\ m = Len(r)
  OBVIOUS
<1>3. /\ DOMAIN q = 1..l + m /\ Len(q) = l + m
      /\ \A n \in 1..l : q[n] = p[n]
      /\ \A n \in 1..m : q[l + n] = r[n]
  BY <1>1, <1>2, Zenon
<1>4. l = 4 /\ m = 2 =>
        /\ DOMAIN q = 1..6 /\ Len(q) = 6
        /\ \A n \in 1..4 : q[n] = p[n]
        /\ q[5] = r[1] /\ q[6] = r[2]
  BY <1>3, Places
<1>5. QED
  BY <1>2, <1>4 DEF q

LEMMA SixOutcomes ==
  ASSUME NEW a, NEW b, NEW c, NEW d, NEW e, NEW f, NEW next,
         Outcome(<<a, b, c, d>> \o <<e, f>>, next)
  PROVE  \/ task' = "" /\ fs' \in {a, b, c, d, e}
         \/ task' = next /\ fs' = f
<1> DEFINE p == <<a, b, c, d>>
           r == <<e, f>>
           q == p \o r
<1>1. \E T : p \in Seq(T) /\ r \in Seq(T)
  <2>1. p \in Seq({a, b, c, d, e, f}) /\ r \in Seq({a, b, c, d, e, f})
    OBVIOUS
  <2>2. QED
    BY <2>1
<1>2. Len(p) = 4 /\ p[1] = a /\ p[2] = b /\ p[3] = c /\ p[4] = d
  OBVIOUS
<1>3. Len(r) = 2 /\ r[1] = e /\ r[2] = f
  OBVIOUS
<1>4. Outcome(q, next)
  OBVIOUS
<1> HIDE DEF p, r
<1>5. /\ DOMAIN q = 1..6 /\ Len(q) = 6
      /\ \A n \in 1..4 : q[n] = p[n]
      /\ q[5] = r[1] /\ q[6] = r[2]
  BY <1>1, <1>2, <1>3, FourAndTwo
<1> HIDE DEF q
<1>6. PICK k \in 1..6 : fs' = q[k] /\ (k # 6 => task' = "") /\ (k = 6 => task' = next)
  BY <1>4, <1>5 DEF Outcome
<1>7. k = 1 \/ k = 2 \/ k = 3 \/ k = 4 \/ k = 5 \/ k = 6
  OBVIOUS
<1>8. q[1] = a /\ q[2] = b /\ q[3] = c /\ q[4] = d /\ q[5] = e /\ q[6] = f
  BY <1>2, <1>3, <1>5
<1>9. QED
  BY <1>6, <1>7, <1>8

(* What gen-fsbl-certs leaves in folder i of fs', that was in g before     *)
CertsMade(g, i, combined, v) ==
  LET before == IF Has(g, i, "certs") THEN g.flows[i].certs ELSE NoCerts IN
  /\ ByName(fs') = ByName(g)
  /\ \A y \in {"rkey", "withkey", "combined"} : fs'.flows[i][y] = g.flows[i][y]
  /\ fs'.flows[i].certs # Absent
  /\ fs'.flows[i].certs.key =
       [before.key EXCEPT ![v] = [root |-> config.root, bl |-> config.bl]]
  /\ fs'.flows[i].certs.code =
       [before.code EXCEPT ![v] = [bl |-> config.bl, image |-> CrcSource(g, i, combined)]]

LEMMA GenFsblCertsWorks ==
  ASSUME FilesInv, NEW combined \in OrAbsent(CombinedFile), NEW version \in Version,
         NEW next, GenFsblCerts(combined, version, next)
  PROVE  /\ Works
         /\ \/ task' = ""
            \/ /\ task' = next
               /\ CertsMade(CertsFolder, ByTime(CertsFolder), combined, version)
<1> DEFINE g == CertsFolder
           i == ByTime(g)
<1>1. Stage(g) /\ Last(g, i)
  BY ConfiguredFits, StageReuse DEF CertsFolder
<1>2. /\ Outcome(WithPems(g, i) \o
                   <<WithKeyCert(WithPems(g, i)[4], i, version),
                     WithCodeCert(WithKeyCert(WithPems(g, i)[4], i, version),
                                  i, version, combined)>>, next)
      /\ strayed' = (strayed \cup IF KeyVersions(g, i) \subseteq {version} THEN {} ELSE {"version"})
      /\ UNCHANGED <<config, standard>>
  BY DEF GenFsblCerts
<1> HIDE DEF g, i
<1>3. PICK a, b, c :
        /\ WithPems(g, i) = <<g, a, b, c>>
        /\ Stage(a) /\ Stage(b) /\ Stage(c) /\ Last(c, i) /\ ByName(c) = ByName(g)
        /\ c.flows[i].pem = config.root /\ c.flows[i].blpem = config.bl
        /\ c.flows[i].certs = (IF Has(g, i, "certs") THEN g.flows[i].certs ELSE NoCerts)
        /\ Has(c, i, "certs")
        /\ \A y \in {"rkey", "withkey", "combined"} : c.flows[i][y] = g.flows[i][y]
  BY <1>1, PemsWritten
<1> DEFINE s == WithKeyCert(c, i, version)
           t == WithCodeCert(s, i, version, combined)
           kc == [root |-> config.root, bl |-> config.bl]
           kcerts == [c.flows[i].certs EXCEPT !.key[version] = kc]
<1>4. /\ Typed(c) /\ c.flows[i].certs \in Certs /\ CodeFollowsKey(c.flows[i].certs)
      /\ c.flows[i] \in FlowFolder
  BY <1>3, InFolder, TypedFacts DEF Stage, Last, CertsFollow, Has, OrAbsent
<1>5. kc \in KeyCert
  BY ConfiguredFits DEF KeyCert
<1>6. /\ Fits("certs", kcerts)
      /\ kcerts.key = [c.flows[i].certs.key EXCEPT ![version] = kc]
      /\ kcerts.code = c.flows[i].certs.code
  BY <1>4, <1>5, KeyCertWritten
<1>7. s = [c EXCEPT !.flows[i]["certs"] = kcerts]
  BY <1>3 DEF WithKeyCert
<1> HIDE DEF s, kcerts
<1>8. /\ Stage(s) /\ Last(s, i) /\ Has(s, i, "certs") /\ ByName(s) = ByName(c)
      /\ s.flows[i]["certs"] = kcerts
      /\ \A y \in File : y # "certs" => s.flows[i][y] = c.flows[i][y]
  BY <1>3, <1>6, <1>7, StageRewrite
<1> DEFINE image == CrcSource(s, i, combined)
           cc == [bl |-> config.bl, image |-> image]
           ccerts == [kcerts EXCEPT !.code[version] = cc]
<1>9. /\ s.flows[i]["blpem"] = config.bl
      /\ \A y \in {"rkey", "withkey", "combined"} : s.flows[i][y] = g.flows[i][y]
  BY <1>3, <1>8 DEF File
<1>10. image = CrcSource(g, i, combined)
  BY <1>9 DEF CrcSource, Has
<1>11. cc \in CodeCert
  <2>1. image \in Image
    BY <1>8, CrcSourceIsImage DEF Last
  <2> HIDE DEF image
  <2>2. QED
    BY <2>1, ConfiguredFits DEF CodeCert
<1>12. kcerts \in Certs /\ CodeFollowsKey(kcerts) /\ kcerts.key[version] # Absent
  <2>1. kcerts \in Certs /\ CodeFollowsKey(kcerts)
    BY <1>6 DEF Fits
  <2>2. c.flows[i].certs.key \in [Version -> OrAbsent(KeyCert)]
    BY <1>4 DEF Certs
  <2>3. kcerts.key[version] = kc /\ kc # Absent
    BY <1>5, <1>6, <2>2, FirmwareFlowAssumption
  <2>4. QED
    BY <2>1, <2>3
<1>13. /\ Fits("certs", ccerts)
       /\ ccerts.code = [kcerts.code EXCEPT ![version] = cc] /\ ccerts.key = kcerts.key
  BY <1>11, <1>12, CodeCertWritten
<1>14. t = [s EXCEPT !.flows[i]["certs"] = ccerts]
  BY <1>8, <1>9 DEF WithCodeCert
<1> HIDE DEF t, ccerts, cc, image
<1>15. /\ Stage(t) /\ Last(t, i) /\ Has(t, i, "certs") /\ ByName(t) = ByName(s)
       /\ t.flows[i]["certs"] = ccerts
       /\ \A y \in File : y # "certs" => t.flows[i][y] = s.flows[i][y]
  BY <1>8, <1>13, <1>14, StageRewrite
<1>16. \A y \in {"rkey", "withkey", "combined"} : t.flows[i][y] = g.flows[i][y]
  BY <1>9, <1>15 DEF File
<1>17. Outcome(<<g, a, b, c>> \o <<s, t>>, next)
  <2>1. <<g, a, b, c>>[4] = c
    OBVIOUS
  <2>2. WithPems(g, i)[4] = c
    BY <1>3, <2>1
  <2>3. QED
    BY <1>2, <1>3, <2>2 DEF s, t
<1>18. \/ task' = "" /\ fs' \in {g, a, b, c, s}
       \/ task' = next /\ fs' = t
  BY <1>17, SixOutcomes
<1>19. Stage(fs')
  BY <1>1, <1>3, <1>8, <1>15, <1>18
<1>20. Works
  BY <1>2, <1>19 DEF Works, FilesInv, Strays
<1>21. ASSUME fs' = t
       PROVE  CertsMade(g, i, combined, version)
  <2>1. t.flows[i].certs # Absent
    BY <1>15 DEF Has
  <2>2. t.flows[i].certs.key = [c.flows[i].certs.key EXCEPT ![version] = kc]
    BY <1>6, <1>13, <1>15
  <2>3. t.flows[i].certs.code =
          [c.flows[i].certs.code EXCEPT ![version] =
             [bl |-> config.bl, image |-> CrcSource(g, i, combined)]]
    BY <1>6, <1>10, <1>13, <1>15 DEF cc
  <2>4. ByName(t) = ByName(g)
    BY <1>3, <1>8, <1>15
  <2>5. QED
    BY <2>1, <2>2, <2>3, <2>4, <1>3, <1>16, <1>21 DEF CertsMade
<1>22. QED
  BY <1>18, <1>20, <1>21 DEF g, i

-----------------------------------------------------------------------------
(* The RKEY that generate-rkey takes over is of the configured root key.   *)
LEMMA RkeyForFits ==
  ASSUME FilesInv, NEW s, Stage(s), NEW i, Last(s, i), Has(s, i, "pem")
  PROVE  Fits("rkey", RkeyFor(s, i))
<1> DEFINE S == {k \in Flows(s) : Has(s, k, "rkey")}
           j == FirstByTime(s, S)
<1>1. Typed(s) /\ FileSystem(s, FlowFolder) /\ i \in Flows(s) /\ Flows(s) = 1..Len(s.flows)
  BY TypedFacts DEF Stage, Last
<1>2. /\ j # 0 => j \in S
      /\ InOrder(s) => \A k \in S : k <= j
  BY <1>1, FirstByTimeFinds
<1>3. RkeyFor(s, i) = IF j # 0 THEN s.flows[j].rkey ELSE s.flows[i].pem
  BY DEF RkeyFor
<1> HIDE DEF j
<1>4. RootKept => InOrder(s) /\ RootsAgree(s) /\ i = ByName(s)
  BY DEF Stage, RootKept, Last
<1>5. CASE j # 0
  <2>1. j \in Flows(s) /\ Has(s, j, "rkey")
    BY <1>2, <1>5
  <2>2. s.flows[j].rkey \in Root
    BY <1>1, <2>1, InFolder DEF Has, OrAbsent
  <2>3. RootKept => LastRkey(s, j)
    BY <1>2, <1>4, <2>1 DEF LastRkey
  <2>4. RootKept => s.flows[j].rkey = config.root
    BY <1>4, <2>1, <2>3 DEF RootsAgree
  <2>5. QED
    BY <1>3, <1>5, <2>2, <2>4 DEF Fits
<1>6. CASE j = 0
  <2>1. s.flows[i].pem \in Root
    BY <1>1, InFolder DEF Has, OrAbsent
  <2>2. RootKept => s.flows[i].pem = config.root
    <3> SUFFICES ASSUME RootKept PROVE s.flows[i].pem = config.root
      OBVIOUS
    <3>1. i # 0
      BY <1>1
    <3>2. s.flows[i].pem \in {Absent, config.root}
      BY <1>4, <3>1 DEF RootsAgree
    <3>3. QED
      BY <3>2 DEF Has
  <2>3. QED
    BY <1>3, <1>6, <2>1, <2>2 DEF Fits
<1>7. QED
  BY <1>5, <1>6

LEMMA GenerateRkeyWorks ==
  ASSUME FilesInv, NEW next, GenerateRkey(next)
  PROVE  /\ Works
         /\ task' = "" \/ (task' = next /\ SomeRkey(fs'))
<1>1. PICK g \in {IF ByTime(fs) = 0 THEN NewFlow(fs, File) ELSE fs,
                  Reuse(fs, ByTime(fs), CertImportant, File)} :
        LET i == ByTime(g)
            s1 == PutIfAbsent(g, i, "pem", config.root)
            s2 == PutIfAbsent(s1, i, "rkey", RkeyFor(s1, i)) IN
        Outcome(<<g, s1, s2>>, next)
  BY DEF GenerateRkey
<1> DEFINE i == ByTime(g)
           s1 == PutIfAbsent(g, i, "pem", config.root)
           s2 == PutIfAbsent(s1, i, "rkey", RkeyFor(s1, i))
<1>2. Stage(g) /\ Last(g, i)
  <2>1. Stage(fs)
    BY ConfiguredFits
  <2>2. CASE g = Reuse(fs, ByTime(fs), CertImportant, File)
    BY <2>1, <2>2, StageReuse
  <2>3. CASE g = fs /\ ByTime(fs) # 0
    BY <2>1, <2>3, PickedIsLast
  <2>4. CASE g = NewFlow(fs, File)
    BY <2>1, <2>4, StageNewFlow
  <2>5. QED
    BY <1>1, <2>2, <2>3, <2>4
<1>3. Outcome(<<g, s1, s2>>, next)
  BY <1>1
<1> HIDE DEF i
<1>4. Fits("pem", config.root)
  BY DEF Fits
<1>5. Stage(s1) /\ Last(s1, i) /\ Has(s1, i, "pem")
  BY <1>2, <1>4, StagePutIfAbsent
<1> HIDE DEF s1
<1>6. Fits("rkey", RkeyFor(s1, i))
  BY <1>5, RkeyForFits
<1>7. Stage(s2) /\ Last(s2, i) /\ Has(s2, i, "rkey")
  BY <1>5, <1>6, StagePutIfAbsent
<1> HIDE DEF s2
<1>8. \/ task' = "" /\ fs' \in {g, s1}
      \/ task' = next /\ fs' = s2
  BY <1>3, ThreeOutcomes
<1>9. Stage(fs')
  BY <1>2, <1>5, <1>7, <1>8
<1>10. Works
  BY <1>9 DEF Works, GenerateRkey, FilesInv
<1>11. SomeRkey(s2)
  BY <1>7 DEF SomeRkey, Last
<1>12. QED
  BY <1>8, <1>10, <1>11

(* workflow-all begins with an RKEY in the latest folder.                  *)
LEMMA WorkflowAllWorks ==
  ASSUME FilesInv, WorkflowAll
  PROVE  /\ Works
         /\ task' = "" \/ (task' = "sign" /\ SomeRkey(fs'))
<1> DEFINE i == ByTime(fs)
           s == PutIfAbsent(fs, i, "rkey", fs.reusable)
<1>1. CASE i = 0
  BY <1>1, FailsWorks DEF WorkflowAll
<1>2. CASE i # 0 /\ ~ (Has(fs, i, "rkey") \/ fs.reusable # Absent)
  BY <1>2, GenerateRkeyWorks DEF WorkflowAll
<1>3. CASE i # 0 /\ (Has(fs, i, "rkey") \/ fs.reusable # Absent)
  <2>1. Outcome(<<s>>, "sign") /\ UNCHANGED <<config, standard, strayed>>
    BY <1>3 DEF WorkflowAll
  <2>2. Stage(fs) /\ Last(fs, i)
    BY <1>3, ConfiguredFits, PickedIsLast
  <2>3. ~Has(fs, i, "rkey") => Fits("rkey", fs.reusable)
    BY <1>3 DEF FilesInv, Typed, OrAbsent, RootsAgree, Fits
  <2> HIDE DEF i
  <2>4. Stage(s) /\ Last(s, i) /\ Has(s, i, "rkey")
    BY <2>2, <2>3, StagePutIfAbsent
  <2> HIDE DEF s
  <2>5. fs' = s /\ task' = "sign"
    BY <2>1, OneOutcome
  <2>6. Works
    BY <2>1, <2>4, <2>5 DEF Works, FilesInv
  <2>7. SomeRkey(fs')
    BY <2>4, <2>5 DEF SomeRkey, Last
  <2>8. QED
    BY <2>5, <2>6, <2>7
<1>4. QED
  BY <1>1, <1>2, <1>3

LEMMA PickFolderWorks ==
  ASSUME FilesInv, PickFolder
  PROVE  Works /\ task' = ""
<1>1. Stage(DeviceFolder)
  BY ConfiguredFits, StageReuse DEF DeviceFolder
<1>2. fs' = DeviceFolder /\ task' = ""
  BY OneOutcome DEF PickFolder
<1>3. QED
  BY <1>1, <1>2 DEF Works, PickFolder, FilesInv

(* Any customer key may sign, and a bootloader key without one.            *)
LEMMA WorkflowSignAppWorks ==
  ASSUME FilesInv, WorkflowSignApp
  PROVE  Works /\ task' = ""
<1> DEFINE g == DeviceFolder
           i == ByName(g)
<1>1. PICK k \in CustomerKeys :
        Outcome(<<g, WithSigned(g, i, k), WithCombined(WithSigned(g, i, k), i, k)>>, "")
  BY DEF WorkflowSignApp
<1>2. Stage(g) /\ Last(g, i)
  BY ConfiguredFits, StageReuse DEF DeviceFolder
<1> HIDE DEF g, i
<1> DEFINE signed == [app |-> config.app, key |-> k]
           image == [boot |-> config.boot, key |-> k]
           s1 == WithSigned(g, i, k)
           combined == [signed |-> s1.flows[i].signed, image |-> image]
           s2 == WithCombined(s1, i, k)
<1>3. signed \in Signed /\ image \in Image
  BY DEF FilesInv, Configs, CustomerKeys, Signed, Image, OrAbsent
<1>4. s1 = Put(g, i, "signed", signed) /\ s2 = Put(s1, i, "combined", combined)
  BY DEF WithSigned, WithCombined, Combined
<1> HIDE DEF signed, image, s1, s2
<1>5. Fits("signed", signed)
  BY <1>3 DEF Fits
<1>6. Stage(s1) /\ Last(s1, i) /\ s1.flows[i]["signed"] = signed
  BY <1>2, <1>4, <1>5, StagePut
<1>7. combined \in CombinedFile
  BY <1>3, <1>6 DEF CombinedFile
<1> HIDE DEF combined
<1>8. Fits("combined", combined)
  BY <1>7 DEF Fits
<1>9. Stage(s2)
  BY <1>4, <1>6, <1>8, StagePut
<1>10. fs' \in {g, s1, s2} /\ task' = ""
  BY <1>1, ThreeOutcomes DEF s1, s2
<1>11. Stage(fs')
  BY <1>2, <1>6, <1>9, <1>10
<1>12. QED
  BY <1>10, <1>11 DEF Works, WorkflowSignApp, FilesInv

-----------------------------------------------------------------------------
(* The last step of workflow-all: what program-device then chooses         *)

(* With the certificate of one version only, that is the one that is found. *)
LEMMA OneVersionFound ==
  ASSUME NEW certs, NEW v \in Version, certs[v] # Absent,
         \A w \in Version : certs[w] # Absent => w = v
  PROVE  FindCert(certs) = certs[v]
<1> DEFINE versions == {w \in Version : certs[w] # Absent}
<1>1. versions = {v}
  OBVIOUS
<1>2. v \in Nat
  BY FirmwareFlowAssumption
<1>3. MaxVersion({v}) = v
  BY <1>2 DEF MaxVersion
<1>4. QED
  BY <1>1, <1>3 DEF FindCert

(* The RKEY that is found is of the configured root key.                   *)
LEMMA FoundRkey ==
  ASSUME FilesInv, NEW s, Stage(s), NEW i \in Flows(s), SomeRkey(s), RootKept,
         i = ByName(s)
  PROVE  FindRkey(s, i) = config.root
<1> DEFINE J == {j \in Flows(s) : Has(s, j, "rkey")}
<1>1. /\ RootsAgree(s) /\ Flows(s) = 1..Len(s.flows) /\ Len(s.flows) \in Nat
      /\ i = Len(s.flows)
  BY TypedFacts DEF Stage
<1>2. CASE Has(s, i, "rkey")
  <2>1. \A k \in Flows(s) : k <= i
    BY <1>1
  <2>2. LastRkey(s, i)
    BY <1>2, <2>1 DEF LastRkey
  <2>3. QED
    BY <1>1, <1>2, <2>2 DEF FindRkey, RootsAgree
<1>3. CASE ~Has(s, i, "rkey") /\ s.reusable # Absent
  BY <1>1, <1>3 DEF FindRkey, RootsAgree
<1>4. CASE ~Has(s, i, "rkey") /\ s.reusable = Absent
  <2>1. J # {} /\ J \in SUBSET (1..Len(s.flows))
    BY <1>1 DEF SomeRkey
  <2>2. FindRkey(s, i) = s.flows[MaxVersion(J)].rkey
    BY <1>4, <2>1 DEF FindRkey
  <2> DEFINE top == MaxVersion(J)
  <2>3. \E n \in J : \A m \in J : m <= n
    BY <1>1, <2>1, GreatestOfSet
  <2> HIDE DEF J
  <2>4. top \in J /\ \A m \in J : m <= top
    BY <2>3 DEF MaxVersion
  <2> HIDE DEF top
  <2>5. top \in Flows(s) /\ LastRkey(s, top)
    BY <2>4 DEF J, LastRkey
  <2>6. QED
    BY <1>1, <2>2, <2>5 DEF RootsAgree, top
<1>5. QED
  BY <1>2, <1>3, <1>4

(* What is chosen with folder i of s                                       *)
ChosenIn(s, i) ==
  LET d == s.flows[i]
      certs == IF d.certs = Absent THEN NoCerts ELSE d.certs IN
  [rkey |-> FindRkey(s, i), combined |-> d.combined,
   keyCert |-> FindCert(certs.key), codeCert |-> FindCert(certs.code)]

LEMMA DoneIsCoherent ==
  ASSUME FilesInv, TaskInv, task = "certs", Has(fs, ByTime(fs), "combined"), ByTime(fs) # 0,
         GenFsblCerts(fs.flows[ByTime(fs)].combined, config.version, "done"),
         Works, CertsMade(CertsFolder, ByTime(CertsFolder),
                          fs.flows[ByTime(fs)].combined, config.version)
  PROVE  BuildIsCoherent'
<1> SUFFICES ASSUME "hand" \notin strayed
             PROVE  BuildIsCoherent'
  BY DEF Works, BuildIsCoherent
<1> DEFINE i == ByTime(fs)
           combined == fs.flows[i].combined
           v == config.version
           d == fs'.flows[i]
           kc == [root |-> config.root, bl |-> config.bl]
           cc == [bl |-> config.bl, image |-> CrcSource(fs, i, combined)]
           before == IF Has(fs, i, "certs") THEN fs.flows[i].certs ELSE NoCerts
<1>1. Stage(fs) /\ Last(fs, i) /\ i = ByName(fs) /\ i \in Flows(fs)
  BY ConfiguredFits, PickedIsLast DEF Last
<1>2. CertsFolder = fs
  BY DEF CertsFolder, Reuse, HasAny, CertImportant
<1>3. /\ ByName(fs') = i
      /\ d.combined = combined /\ d.withkey = fs.flows[i].withkey
      /\ d.certs # Absent
      /\ d.certs.key = [before.key EXCEPT ![v] = kc]
      /\ d.certs.code = [before.code EXCEPT ![v] = cc]
  BY <1>1, <1>2 DEF CertsMade
<1>4. Stage(fs') /\ config' = config
  BY DEF Works
<1>5. i # 0 /\ Has(fs', i, "combined")
  BY <1>3 DEF Has
<1>6. DeviceFolder' = fs'
  BY <1>3, <1>5 DEF DeviceFolder, Reuse, HasAny, Has, ByName
<1>7. Chosen' = [rkey |-> FindRkey(fs', i), combined |-> combined,
                 keyCert |-> FindCert(d.certs.key), codeCert |-> FindCert(d.certs.code)]
  <2>1. Chosen' = ChosenIn(DeviceFolder', ByName(DeviceFolder'))
    BY DEF Chosen, ChosenIn, ByName, FindRkey, FindCert, MaxVersion, Has, Flows
  <2>2. Chosen' = ChosenIn(fs', i)
    BY <1>3, <1>6, <2>1
  <2>3. QED
    BY <1>3, <2>2 DEF ChosenIn
<1>8. /\ v \in Version /\ combined \in CombinedFile
      /\ kc \in KeyCert /\ cc \in CodeCert
  <2>1. v \in Version
    BY DEF FilesInv, Configs
  <2>2. combined \in CombinedFile
    BY <1>1, InFolder DEF Has, Stage, OrAbsent
  <2>3. CrcSource(fs, i, combined) \in Image
    BY <1>1, <2>2, CrcSourceIsImage DEF OrAbsent
  <2> HIDE DEF combined
  <2>4. QED
    BY <2>1, <2>2, <2>3, ConfiguredFits DEF KeyCert, CodeCert
<1>9. kc # Absent /\ cc # Absent /\ combined # Absent
  BY <1>8, FirmwareFlowAssumption
<1>10. /\ before \in Certs
       /\ before.key \in [Version -> OrAbsent(KeyCert)]
       /\ before.code \in [Version -> OrAbsent(CodeCert)]
       /\ CodeFollowsKey(before)
       /\ "version" \notin strayed' => \A w \in Version : before.key[w] # Absent => w = v
  <2>1. before \in Certs /\ CodeFollowsKey(before)
    <3>1. CASE Has(fs, i, "certs")
      BY <1>1, <3>1, InFolder DEF Has, Stage, CertsFollow, OrAbsent
    <3>2. CASE ~Has(fs, i, "certs")
      BY <3>2, NoCertsFit DEF Fits
    <3>3. QED
      BY <3>1, <3>2
  <2>2. "version" \notin strayed' => KeyVersions(fs, i) \subseteq {v}
    BY <1>2 DEF GenFsblCerts
  <2>3. \A w \in Version : before.key[w] # Absent => w \in KeyVersions(fs, i)
    BY DEF KeyVersions, NoCerts
  <2> HIDE DEF before
  <2>4. QED
    BY <2>1, <2>2, <2>3 DEF Certs
<1> HIDE DEF before, kc, cc, combined
<1>11. ASSUME "version" \notin strayed'
       PROVE  FindCert(d.certs.key) = kc /\ FindCert(d.certs.code) = cc
  <2>1. d.certs.key[v] = kc /\ d.certs.code[v] = cc
    BY <1>3, <1>8, <1>10
  <2>2. \A w \in Version : d.certs.key[w] # Absent => w = v
    BY <1>3, <1>10, <1>11
  <2>3. \A w \in Version : d.certs.code[w] # Absent => w = v
    BY <1>3, <1>10, <1>11 DEF CodeFollowsKey
  <2> HIDE DEF d
  <2>4. FindCert(d.certs.key) = d.certs.key[v]
    BY <1>8, <1>9, <2>1, <2>2, OneVersionFound
  <2>5. FindCert(d.certs.code) = d.certs.code[v]
    BY <1>8, <1>9, <2>1, <2>3, OneVersionFound
  <2>6. QED
    BY <2>1, <2>4, <2>5
<1>12. combined = CombinedNow /\ CombinedNow' = CombinedNow
  <2>1. combined = CombinedNow
    BY <1>1 DEF TaskInv, LastFlow, combined
  <2>2. CombinedNow' = CombinedNow
    BY <1>4 DEF CombinedNow, SignedNow, BootNow
  <2>3. QED
    BY <2>1, <2>2
<1>13. ASSUME {"hand", "demo", "version"} \cap strayed' = {}
       PROVE  CrcSource(fs, i, combined) = combined.image
  <2>1. fs.flows[i].withkey = (IF config.inject THEN BootNow(TRUE) ELSE Absent)
    BY <1>1, <1>13 DEF TaskInv, LastFlow, Works
  <2>2. combined.image = BootNow(config.inject)
    BY <1>12 DEF CombinedNow
  <2>3. CASE config.inject
    <3>1. BootNow(TRUE) # Absent
      BY ConfiguredFits, FirmwareFlowAssumption
    <3>2. BootNow(config.inject) = BootNow(TRUE)
      BY <2>3 DEF BootNow
    <3>3. QED
      BY <2>1, <2>2, <2>3, <3>1, <3>2 DEF CrcSource, Has
  <2>4. CASE ~config.inject
    BY <1>9, <2>1, <2>4 DEF CrcSource, Has
  <2>5. QED
    BY <2>3, <2>4
<1>14. ASSUME {"hand", "root", "version"} \cap strayed' = {}
       PROVE  FindRkey(fs', i) = config.root
  <2>1. RootKept
    BY <1>14 DEF RootKept, Works
  <2>2. i \in Flows(fs')
    <3>1. ByName(fs') # 0
      BY <1>3, <1>5
    <3>2. Last(fs', ByName(fs'))
      BY <1>4, <3>1, PickedIsLast
    <3>3. QED
      BY <3>2, <1>3 DEF Last
  <2>3. SomeRkey(fs')
    BY <1>4 DEF Stage, TaskInv
  <2>4. QED
    BY <1>3, <1>4, <2>1, <2>2, <2>3, FoundRkey
<1> HIDE DEF d
<1>15. Chosen'.combined = combined
       /\ Chosen'.keyCert = FindCert(d.certs.key)
       /\ Chosen'.codeCert = FindCert(d.certs.code)
       /\ Chosen'.rkey = FindRkey(fs', i)
  BY <1>7
<1>16. Chosen'.combined = CombinedNow'
  BY <1>12, <1>15
<1>17. {"hand", "version"} \cap strayed' = {} =>
         /\ Chosen'.codeCert.bl = config.bl /\ Chosen'.keyCert.bl = config.bl
         /\ Chosen'.codeCert.image = CrcSource(fs, i, combined)
         /\ Chosen'.keyCert.root = config.root
  BY <1>11, <1>15 DEF kc, cc
<1>18. {"hand", "demo", "version"} \cap strayed' = {} =>
         Chosen'.codeCert.image = Chosen'.combined.image
  BY <1>13, <1>15, <1>17
<1>19. {"hand", "root", "version"} \cap strayed' = {} =>
         Chosen'.keyCert.root = Chosen'.rkey
  BY <1>14, <1>15, <1>17
<1>20. {"hand", "version"} \cap strayed' = {} => Chosen'.codeCert.bl = Chosen'.keyCert.bl
  BY <1>17
<1>21. QED
  BY <1>16, <1>18, <1>19, <1>20 DEF BuildIsCoherent, CombinedNow

-----------------------------------------------------------------------------
(* The operator, and the one command that takes a mark back                *)

LEMMA WorksKeepsFiles ==
  ASSUME FilesInv, Works
  PROVE  FilesInv'
<1>1. Stage(fs') /\ config' = config /\ standard' = standard
  BY DEF Works
<1>2. Typed(fs)' /\ CertsFollow(fs)'
  BY <1>1 DEF Stage, Typed, FileSystem, FoldersOK, Flows, CertsFollow, CodeFollowsKey, Has
<1>3. "hand" \notin strayed' => InOrder(fs)'
  BY <1>1 DEF Stage, Works, InOrder
<1>4. RootKept' => RootsAgree(fs)'
  <2>1. RootKept' => RootKept
    BY DEF RootKept, Works
  <2>2. RootsAgree(fs') => RootsAgree(fs)'
    BY <1>1 DEF RootsAgree, LastRkey, Has, Flows, ByName
  <2>3. QED
    BY <1>1, <2>1, <2>2 DEF Stage
<1>5. QED
  BY <1>1, <1>2, <1>3, <1>4 DEF FilesInv, Works

(* A file system as FilesInv asks for, but for the root keys in it         *)
Orderly(t) ==
  /\ Typed(t) /\ CertsFollow(t)
  /\ "hand" \notin strayed => InOrder(t)

LEMMA ReusableReplaced ==
  ASSUME NEW s, Orderly(s), NEW v \in Root
  PROVE  LET t == [s EXCEPT !.reusable = v] IN
         Orderly(t) /\ t.flows = s.flows /\ t.reusable = v
<1> DEFINE t == [s EXCEPT !.reusable = v]
<1>1. /\ s = [f \in DOMAIN s |-> s[f]] /\ DOMAIN s = {"flows", "recent", "reusable"}
      /\ FoldersOK(s, FlowFolder)
  BY DEF Orderly, Typed, FileSystem
<1>2. s = [flows |-> s.flows, recent |-> s.recent, reusable |-> s.reusable]
  BY <1>1
<1>3. t = [flows |-> s.flows, recent |-> s.recent, reusable |-> v]
  BY <1>2
<1> HIDE DEF t
<1>4. t.flows = s.flows /\ t.recent = s.recent /\ t.reusable = v
  BY <1>3
<1>5. t = [f \in DOMAIN t |-> t[f]] /\ DOMAIN t = {"flows", "recent", "reusable"}
  BY <1>3
<1>6. FoldersOK(t, FlowFolder)
  BY <1>1, <1>4 DEF FoldersOK, Flows
<1>7. Typed(t)
  BY <1>4, <1>5, <1>6 DEF Typed, FileSystem, OrAbsent
<1>8. CertsFollow(t)
  BY <1>4 DEF Orderly, CertsFollow, Has, Flows
<1>9. "hand" \notin strayed => InOrder(t)
  BY <1>4 DEF Orderly, InOrder
<1>10. QED
  BY <1>4, <1>7, <1>8, <1>9 DEF Orderly, t

(* A key of any root in the last folder                                    *)
LEMMA KeyPut ==
  ASSUME NEW s, Orderly(s), NEW i, Last(s, i), NEW x \in {"pem", "rkey"}, NEW v \in Root
  PROVE  LET t == Put(s, i, x, v) IN Orderly(t) /\ Last(t, i)
<1> DEFINE t == Put(s, i, x, v)
           d == [s.flows[i] EXCEPT ![x] = v]
<1>1. /\ FileSystem(s, FlowFolder) /\ i \in Flows(s) /\ s.flows[i] \in FlowFolder
      /\ Len(s.flows) \in Nat /\ Flows(s) = 1..Len(s.flows) /\ ByName(s) = Len(s.flows)
  BY TypedFacts DEF Orderly, Last
<1>2. d \in FlowFolder /\ d["certs"] = s.flows[i]["certs"]
  BY <1>1 DEF FlowFolder, OrAbsent
<1>3. /\ FileSystem(t, FlowFolder) /\ Changed(s, t, i, d)
      /\ InOrder(s) /\ i = Len(s.flows) => t.recent = s.recent
  BY <1>1, <1>2, PutWrites
<1> HIDE DEF t, d
<1>4. /\ DOMAIN t = DOMAIN s /\ t["reusable"] = s["reusable"]
      /\ Flows(t) = Flows(s) /\ t.flows[i] = d
      /\ \A j \in Flows(s) : j # i => t.flows[j] = s.flows[j]
  BY <1>1, <1>3 DEF Changed, Beside, Orderly, Typed, Flows
<1>5. Typed(t)
  BY <1>3, <1>4 DEF Orderly, Typed
<1>6. Len(t.flows) = Len(s.flows) /\ ByName(t) = ByName(s)
  BY <1>1, <1>4, <1>5, TypedFacts
<1>7. \A j \in Flows(t) : t.flows[j]["certs"] = s.flows[j]["certs"]
  BY <1>2, <1>4
<1>8. CertsFollow(t)
  BY <1>4, <1>7 DEF Orderly, CertsFollow, Has
<1>9. "hand" \notin strayed => InOrder(t)
  BY <1>1, <1>3, <1>6 DEF Orderly, Last, InOrder
<1>10. QED
  BY <1>4, <1>5, <1>6, <1>8, <1>9 DEF Orderly, Last, t

(* ... with another root key: what it leaves is marked.                    *)
LEMMA OtherRkeyKeeps ==
  ASSUME FilesInv, NEW root \in Root, root # config.root, GenerateRkeyOf(root)
  PROVE  FilesInv' /\ task' = ""
<1> DEFINE i == ByName(fs)
           s1 == Put(fs, i, "pem", root)
           s2 == Put(s1, i, "rkey", root)
           s3 == [s2 EXCEPT !.reusable = root]
<1>1. /\ Outcome(<<fs, s1, s2, s3>>, "")
      /\ strayed' = strayed \cup {x \in {"root"} : fs' # fs}
      /\ config' = config /\ standard' = standard
      /\ ByName(fs) # 0
  BY DEF GenerateRkeyOf
<1>3. Stage(fs) /\ Last(fs, i)
  BY <1>1, ConfiguredFits, PickedIsLast
<1>4. Orderly(fs)
  BY <1>3 DEF Stage, Orderly
<1> HIDE DEF i
<1>5. Orderly(s1) /\ Last(s1, i)
  BY <1>3, <1>4, KeyPut
<1> HIDE DEF s1
<1>6. Orderly(s2)
  BY <1>5, KeyPut
<1> HIDE DEF s2
<1>7. Orderly(s3)
  BY <1>6, ReusableReplaced
<1> HIDE DEF s3
<1>8. fs' \in {fs, s1, s2, s3} /\ task' = ""
  BY <1>1, FourOutcomes
<1>9. CASE fs' = fs
  <2>1. Works
    BY <1>1, <1>3, <1>9 DEF Works, FilesInv
  <2>2. QED
    BY <1>8, <2>1, WorksKeepsFiles
<1>10. CASE fs' # fs
  <2>1. Orderly(fs')
    BY <1>5, <1>6, <1>7, <1>8, <1>10
  <2>2. strayed' = strayed \cup {"root"} /\ strayed' \subseteq Strays
    BY <1>1, <1>10 DEF FilesInv, Strays
  <2>3. Typed(fs)' /\ CertsFollow(fs)'
    BY <2>1 DEF Orderly, Typed, FileSystem, FoldersOK, Flows, CertsFollow, CodeFollowsKey, Has
  <2>4. "hand" \notin strayed' => InOrder(fs)'
    BY <2>1, <2>2 DEF Orderly, InOrder
  <2>5. ~RootKept'
    BY <2>2 DEF RootKept
  <2>6. config' \in Configs /\ standard' \in BOOLEAN
    BY <1>1 DEF FilesInv
  <2>7. QED
    BY <1>8, <2>2, <2>3, <2>4, <2>5, <2>6 DEF FilesInv
<1>11. QED
  BY <1>9, <1>10

(* workflow generate-rkey with the configured root key: after it the keys  *)
(* on file are of that key, whatever they were before.                     *)
LEMMA ConfiguredRkeyKeeps ==
  ASSUME FilesInv, GenerateRkeyOf(config.root)
  PROVE  FilesInv' /\ task' = ""
<1> DEFINE i == ByName(fs)
           r == config.root
           s1 == Put(fs, i, "pem", r)
           s2 == Put(s1, i, "rkey", r)
           s3 == [s2 EXCEPT !.reusable = r]
<1>1. /\ Outcome(<<fs, s1, s2, s3>>, "")
      /\ strayed' = strayed \ {x \in {"root"} : fs' = s3}
      /\ UNCHANGED <<config, standard>>
      /\ ByName(fs) # 0
  BY DEF GenerateRkeyOf
<1>2. Stage(fs) /\ Last(fs, i) /\ r \in Root
  BY <1>1, ConfiguredFits, PickedIsLast
<1>3. Fits("pem", r) /\ Fits("rkey", r)
  BY <1>2 DEF Fits
<1> HIDE DEF i, r
<1>4. /\ Stage(s1) /\ Last(s1, i) /\ ByName(s1) = ByName(fs) /\ Has(s1, i, "pem")
      /\ s1.flows[i]["pem"] = r
  BY <1>2, <1>3, StagePut
<1> HIDE DEF s1
<1>5. /\ Stage(s2) /\ Last(s2, i) /\ ByName(s2) = ByName(fs) /\ Has(s2, i, "rkey")
      /\ s2.flows[i]["rkey"] = r /\ s2.flows[i]["pem"] = s1.flows[i]["pem"]
  BY <1>3, <1>4, StagePut DEF File
<1> HIDE DEF s2
<1>6. fs' \in {fs, s1, s2, s3} /\ task' = ""
  BY <1>1, FourOutcomes
<1>7. CASE fs' # s3
  <2>1. Stage(fs') /\ strayed' = strayed
    BY <1>1, <1>2, <1>4, <1>5, <1>6, <1>7
  <2>2. Works
    BY <1>1, <2>1 DEF Works, FilesInv
  <2>3. QED
    BY <1>6, <2>2, WorksKeepsFiles
<1>8. CASE fs' = s3
  <2>1. /\ i \in Flows(s2) /\ Flows(s2) = 1..Len(s2.flows) /\ i = Len(s2.flows)
        /\ Len(s2.flows) \in Nat
    BY <1>5, TypedFacts DEF Stage, Last, i
  <2>2. Orderly(s2)
    BY <1>5 DEF Stage, Orderly
  <2>3. Orderly(s3) /\ s3.flows = s2.flows /\ s3.reusable = r
    BY <1>2, <2>2, ReusableReplaced DEF s3
  <2>4. s3.flows = s2.flows /\ s3.reusable = r
    BY <2>3
  <2>10. RootsAgree(s3)
    <3>1. ASSUME NEW j \in Flows(s3), LastRkey(s3, j)
          PROVE  s3.flows[j].rkey = r
      <4>1. i \in Flows(s3) /\ Has(s3, i, "rkey")
        BY <1>5, <2>1, <2>4 DEF Has, Flows
      <4>2. i <= j
        BY <3>1, <4>1 DEF LastRkey
      <4>3. j \in 1..Len(s2.flows)
        BY <2>1, <2>4 DEF Flows
      <4>4. j = i
        <5>1. PICK n : n = Len(s2.flows)
          OBVIOUS
        <5>2. n \in Nat /\ j \in 1..n /\ n <= j /\ i = n
          BY <2>1, <4>2, <4>3, <5>1
        <5>3. QED
          BY <5>2
      <4>5. QED
        BY <4>4, <1>5, <2>4
    <3>2. ByName(s3) = i
      BY <2>1, <2>4 DEF ByName
    <3>3. s3.flows[ByName(s3)]["pem"] = r
      BY <1>4, <1>5, <2>4, <3>2
    <3>4. QED
      BY <2>4, <3>1, <3>3 DEF RootsAgree, r
  <2>11. strayed' \subseteq strayed /\ ("hand" \notin strayed' => "hand" \notin strayed)
    BY <1>1
  <2>12. Typed(fs)' /\ CertsFollow(fs)'
    BY <1>8, <2>3
       DEF Orderly, Typed, FileSystem, FoldersOK, Flows, CertsFollow, CodeFollowsKey, Has
  <2>13. "hand" \notin strayed' => InOrder(fs)'
    BY <1>8, <2>3, <2>11 DEF Orderly, InOrder
  <2>14. RootsAgree(fs)'
    BY <1>1, <1>8, <2>10 DEF RootsAgree, LastRkey, Has, Flows, ByName
  <2>15. QED
    BY <1>1, <1>6, <2>11, <2>12, <2>13, <2>14 DEF FilesInv
<1>9. QED
  BY <1>7, <1>8

LEMMA WorkflowGenerateRkeyKeeps ==
  ASSUME FilesInv, WorkflowGenerateRkey, ~PickFolder
  PROVE  FilesInv' /\ task' = ""
<1>1. PICK root \in Root : GenerateRkeyOf(root)
  BY DEF WorkflowGenerateRkey
<1>2. CASE root = config.root
  BY <1>1, <1>2, ConfiguredRkeyKeeps
<1>3. CASE root # config.root
  BY <1>1, <1>3, OtherRkeyKeeps
<1>4. QED
  BY <1>2, <1>3

(* A new root key is marked when there are keys of another one on file.    *)
LEMMA EditConfigKeeps ==
  ASSUME FilesInv, EditConfig
  PROVE  FilesInv' /\ task' = ""
<1>1. PICK c \in Configs, f \in DOMAIN config :
        /\ config' = [config EXCEPT ![f] = c[f]]
        /\ strayed' = (strayed \cup IF f = "root" /\ KeysOnFile THEN {"root"} ELSE {})
  BY DEF EditConfig
<1>2. fs' = fs /\ standard' = standard /\ task' = ""
  BY DEF EditConfig
<1>3. config \in Configs
  BY DEF FilesInv
<1>4. f \in {"root", "bl", "cust", "app", "boot", "version", "inject"}
  BY <1>1, <1>3 DEF Configs
<1>5. config' \in Configs
  <2>1. /\ config.root \in Root /\ config.bl \in Bl /\ config.cust \in Cust
        /\ config.app \in App /\ config.boot \in Boot /\ config.version \in Version
        /\ config.inject \in BOOLEAN
    BY <1>3 DEF Configs
  <2>2. /\ c.root \in Root /\ c.bl \in Bl /\ c.cust \in Cust
        /\ c.app \in App /\ c.boot \in Boot /\ c.version \in Version
        /\ c.inject \in BOOLEAN
    BY DEF Configs
  <2>3. CASE f = "root"
    BY <1>1, <1>3, <2>2, <2>3 DEF Configs
  <2>4. CASE f = "bl"
    BY <1>1, <1>3, <2>2, <2>4 DEF Configs
  <2>5. CASE f = "cust"
    BY <1>1, <1>3, <2>2, <2>5 DEF Configs
  <2>6. CASE f = "app"
    BY <1>1, <1>3, <2>2, <2>6 DEF Configs
  <2>7. CASE f = "boot"
    BY <1>1, <1>3, <2>2, <2>7 DEF Configs
  <2>8. CASE f = "version"
    BY <1>1, <1>3, <2>2, <2>8 DEF Configs
  <2>9. CASE f = "inject"
    BY <1>1, <1>3, <2>2, <2>9 DEF Configs
  <2>10. QED
    BY <1>4, <2>3, <2>4, <2>5, <2>6, <2>7, <2>8, <2>9
<1>6. strayed \subseteq strayed' /\ strayed' \subseteq Strays
  BY <1>1 DEF FilesInv, Strays
<1>7. ASSUME RootKept'
      PROVE  RootsAgree(fs)'
  <2>1. RootKept /\ RootsAgree(fs)
    BY <1>6, <1>7 DEF RootKept, FilesInv
  <2>2. CASE f # "root"
    <3>1. config'.root = config.root
      BY <1>1, <1>3, <2>2 DEF Configs
    <3>2. QED
      BY <1>2, <2>1, <3>1 DEF RootsAgree, LastRkey, Has, Flows, ByName
  <2>3. CASE f = "root"
    <3>1. ~KeysOnFile
      BY <1>1, <1>7, <2>3 DEF RootKept
    <3>2. /\ fs.reusable = Absent
          /\ \A j \in Flows(fs) : ~Has(fs, j, "rkey") /\ ~Has(fs, j, "pem")
      BY <3>1 DEF KeysOnFile, HasAny
    <3>3. \A j \in Flows(fs) : ~LastRkey(fs, j)
      BY <3>2 DEF LastRkey
    <3>4. ByName(fs) # 0 => ByName(fs) \in Flows(fs)
      BY TypedFacts DEF FilesInv
    <3>5. ByName(fs) # 0 => fs.flows[ByName(fs)]["pem"] = Absent
      BY <3>2, <3>4 DEF Has
    <3>6. QED
      BY <1>2, <3>2, <3>3, <3>5 DEF RootsAgree, LastRkey, Has, Flows, ByName
  <2>4. QED
    BY <2>2, <2>3
<1>8. Typed(fs)' /\ CertsFollow(fs)'
  BY <1>2 DEF FilesInv, Typed, FileSystem, FoldersOK, Flows, CertsFollow, CodeFollowsKey, Has
<1>9. "hand" \notin strayed' => InOrder(fs)'
  BY <1>2, <1>6 DEF FilesInv, InOrder
<1>10. QED
  BY <1>2, <1>5, <1>6, <1>7, <1>8, <1>9 DEF FilesInv

LEMMA TouchByHandKeeps ==
  ASSUME FilesInv, TouchByHand
  PROVE  FilesInv' /\ task' = ""
<1>1. PICK i \in 1..Len(fs.flows) - 1 : fs' = Touch(fs, i)
  BY DEF TouchByHand
<1>2. /\ strayed' = strayed \cup {"hand"} /\ task' = ""
      /\ config' = config /\ standard' = standard
  BY DEF TouchByHand
<1>3. /\ Typed(fs) /\ FileSystem(fs, FlowFolder) /\ i \in Flows(fs)
      /\ DOMAIN fs = {"flows", "recent", "reusable"} /\ fs.reusable \in OrAbsent(Root)
  BY TypedFacts DEF FilesInv, Typed
<1>4. /\ FileSystem(fs', FlowFolder) /\ Beside(fs, fs') /\ fs'.flows = fs.flows
  BY <1>1, <1>3, TouchMoves
<1>5. DOMAIN fs' = DOMAIN fs /\ fs'["reusable"] = fs["reusable"]
  BY <1>3, <1>4 DEF Beside
<1>6. Typed(fs')
  BY <1>3, <1>4, <1>5 DEF Typed
<1>7. Typed(fs)'
  BY <1>6 DEF Typed, FileSystem, FoldersOK, Flows
<1>8. CertsFollow(fs)'
  BY <1>4 DEF FilesInv, CertsFollow, CodeFollowsKey, Flows, Has
<1>9. ~RootKept' /\ "hand" \in strayed' /\ strayed' \subseteq Strays
  BY <1>2 DEF RootKept, FilesInv, Strays
<1>10. QED
  BY <1>2, <1>7, <1>8, <1>9 DEF FilesInv

-----------------------------------------------------------------------------
LEMMA StepsCounted ==
  /\ 0 \in 0..MaxSteps
  /\ \A n \in 0..MaxSteps : n < MaxSteps => n + 1 \in 0..MaxSteps
<1>1. MaxSteps \in Nat
  BY FirmwareFlowAssumption
<1>2. QED
  BY <1>1

LEMMA FirmwareFlowInit ==
  ASSUME Init
  PROVE  IInv
<1>1. fs = [flows |-> <<>>, recent |-> <<>>, reusable |-> Absent]
  BY DEF Init
<1>2. /\ fs.flows = <<>> /\ fs.recent = <<>> /\ fs.reusable = Absent
      /\ DOMAIN fs = {"flows", "recent", "reusable"} /\ fs = [f \in DOMAIN fs |-> fs[f]]
  BY <1>1
<1>3. /\ Flows(fs) = {} /\ <<>> \in Seq(FlowFolder) /\ <<>> \in Seq(Flows(fs))
      /\ Len(<<>>) = 0 /\ ByName(fs) = 0
  BY <1>2 DEF Flows, ByName
<1>4. Typed(fs)
  BY <1>2, <1>3 DEF Typed, FileSystem, FoldersOK, OrAbsent
<1>5. /\ config \in Configs /\ standard \in BOOLEAN /\ task = "" /\ steps = 0 /\ strayed = {}
  BY DEF Init
<1>6. CertsFollow(fs)
  BY <1>3 DEF CertsFollow
<1>7. InOrder(fs)
  BY <1>2, <1>3 DEF InOrder
<1>8. RootsAgree(fs)
  BY <1>2, <1>3 DEF RootsAgree
<1>9. FilesInv
  BY <1>4, <1>5, <1>6, <1>7, <1>8 DEF FilesInv
<1>10. TaskInv
  BY <1>5 DEF TaskInv, BuildIsCoherent
<1>11. steps \in 0..MaxSteps
  BY <1>5, StepsCounted
<1>12. QED
  BY <1>9, <1>10, <1>11 DEF IInv

(* A command that ends workflow-all, or is none of it                      *)
LEMMA EndsTask ==
  ASSUME task' = ""
  PROVE  TaskInv'
BY DEF TaskInv, BuildIsCoherent

LEMMA WorkflowStepKeeps ==
  ASSUME FilesInv, TaskInv, WorkflowStep
  PROVE  FilesInv' /\ TaskInv'
<1>1. ASSUME Works, SomeRkey(fs)
      PROVE  FilesInv' /\ SomeRkey(fs)'
  BY <1>1, WorksKeepsFiles DEF Works, Stage, SomeRkey, Has, Flows
<1>2. SomeRkey(fs) /\ (task = "sign" \/ task = "combine" \/ task = "certs")
  BY DEF WorkflowStep, TaskInv
<1>3. CASE task = "sign" /\ SignApp("combine")
  <2>1. /\ Works
        /\ \/ task' = ""
           \/ task' = "combine" /\ fs'.flows[ByName(fs')].signed = SignedNow
    BY <1>3, SignAppWorks
  <2>2. CASE task' = ""
    BY <1>1, <1>2, <2>1, <2>2, EndsTask
  <2>3. CASE task' = "combine" /\ fs'.flows[ByName(fs')].signed = SignedNow
    <3>1. LastFlow'.signed = SignedNow'
      BY <2>1, <2>3 DEF LastFlow, ByName, SignedNow, Works
    <3>2. QED
      BY <1>1, <1>2, <2>1, <2>3, <3>1 DEF TaskInv, BuildIsCoherent
  <2>4. QED
    BY <2>1, <2>2, <2>3
<1>4. CASE task = "combine" /\ MakeCombined(config.inject, "certs")
  <2>1. config.inject \in BOOLEAN
    BY DEF FilesInv, Configs
  <2>2. PICK inject \in BOOLEAN : inject = config.inject
    BY <2>1
  <2>3. /\ Works
        /\ \/ task' = ""
           \/ /\ task' = "certs"
              /\ "hand" \notin strayed =>
                    /\ fs'.flows[ByName(fs')].combined =
                         [signed |-> LastFlow.signed, image |-> BootNow(inject)]
                    /\ "demo" \notin strayed' =>
                         fs'.flows[ByName(fs')].withkey =
                           (IF inject THEN BootNow(TRUE) ELSE Absent)
    BY <1>4, <2>2, MakeCombinedWorks
  <2>4. CASE task' = ""
    BY <1>1, <1>2, <2>3, <2>4, EndsTask
  <2>5. CASE task' = "certs"
    <3>1. config' = config /\ strayed \subseteq strayed'
      BY <2>3 DEF Works
    <3>2. "hand" \notin strayed => LastFlow.signed = SignedNow
      BY <1>4 DEF TaskInv
    <3>3. "hand" \notin strayed' => LastFlow'.combined = CombinedNow'
      BY <2>2, <2>3, <2>5, <3>1, <3>2 DEF LastFlow, ByName, CombinedNow, SignedNow, BootNow
    <3>4. {"hand", "demo"} \cap strayed' = {} =>
            LastFlow'.withkey = (IF config'.inject THEN BootNow(TRUE)' ELSE Absent)
      BY <2>2, <2>3, <2>5, <3>1 DEF LastFlow, ByName, BootNow
    <3>5. QED
      BY <1>1, <1>2, <2>3, <2>5, <3>3, <3>4 DEF TaskInv, BuildIsCoherent
  <2>6. QED
    BY <2>3, <2>4, <2>5
<1>5. CASE /\ task = "certs"
           /\ LET i == ByTime(fs) IN
              IF Has(fs, i, "combined")
              THEN GenFsblCerts(fs.flows[i].combined, config.version, "done")
              ELSE Fails
  <2> DEFINE i == ByTime(fs)
             combined == fs.flows[i].combined
  <2>1. CASE ~Has(fs, i, "combined")
    BY <1>1, <1>2, <1>5, <2>1, FailsWorks, EndsTask
  <2>2. CASE Has(fs, i, "combined")
    <3>1. Last(fs, i) /\ i # 0 /\ i \in Flows(fs) /\ Stage(fs)
      <4>1. \E j \in Flows(fs) : TRUE
        BY <1>2 DEF SomeRkey
      <4>2. Flows(fs) = 1..Len(fs.flows) /\ Len(fs.flows) \in Nat /\ ByName(fs) = Len(fs.flows)
        BY TypedFacts DEF FilesInv
      <4>3. ByName(fs) # 0
        BY <4>1, <4>2
      <4>4. QED
        BY <4>3, ConfiguredFits, PickedIsLast DEF Last
    <3>2. combined \in OrAbsent(CombinedFile) /\ config.version \in Version
      BY <3>1, InFolder DEF Stage, FilesInv, Configs
    <3>3. GenFsblCerts(combined, config.version, "done")
      BY <1>5, <2>2
    <3>4. /\ Works
          /\ \/ task' = ""
             \/ /\ task' = "done"
                /\ CertsMade(CertsFolder, ByTime(CertsFolder), combined, config.version)
      BY <3>2, <3>3, GenFsblCertsWorks
    <3>5. CASE task' = ""
      BY <1>1, <1>2, <3>4, <3>5, EndsTask
    <3>6. CASE /\ task' = "done"
               /\ CertsMade(CertsFolder, ByTime(CertsFolder), combined, config.version)
      <4>1. BuildIsCoherent'
        BY <1>5, <2>2, <3>1, <3>3, <3>4, <3>6, DoneIsCoherent
      <4>2. FilesInv' /\ SomeRkey(fs)'
        BY <1>1, <1>2, <3>4
      <4>3. QED
        BY <3>6, <4>1, <4>2 DEF TaskInv
    <3>7. QED
      BY <3>4, <3>5, <3>6
  <2>3. QED
    BY <2>1, <2>2
<1>6. QED
  BY <1>3, <1>4, <1>5 DEF WorkflowStep

LEMMA ByHandKeeps ==
  ASSUME FilesInv, ByHand
  PROVE  FilesInv' /\ TaskInv'
<1>1. ASSUME Works, task' = ""
      PROVE  FilesInv' /\ TaskInv'
  BY <1>1, WorksKeepsFiles, EndsTask
<1>2. CASE SignApp("")
  <2>1. Works /\ task' = ""
    BY <1>2, SignAppWorks
  <2>2. QED
    BY <2>1, <1>1
<1>3. CASE GenerateRkey("")
  <2>1. Works /\ task' = ""
    BY <1>3, GenerateRkeyWorks
  <2>2. QED
    BY <2>1, <1>1
<1>4. ASSUME NEW inject \in BOOLEAN, MakeCombined(inject, "")
      PROVE  FilesInv' /\ TaskInv'
  <2>1. Works /\ task' = ""
    BY <1>4, MakeCombinedWorks
  <2>2. QED
    BY <2>1, <1>1
<1>5. ASSUME NEW v \in Version, NEW combined \in OrAbsent(CombinedFile),
             GenFsblCerts(combined, v, "")
      PROVE  FilesInv' /\ TaskInv'
  <2>1. Works /\ task' = ""
    BY <1>5, GenFsblCertsWorks
  <2>2. QED
    BY <2>1, <1>1
<1>6. Absent \in OrAbsent(CombinedFile)
  BY DEF OrAbsent
<1>7. \A i \in Flows(fs) : fs.flows[i].combined \in OrAbsent(CombinedFile)
  BY InFolder DEF FilesInv
<1>8. CASE WorkflowAll
  <2>1. Works /\ (task' = "" \/ (task' = "sign" /\ SomeRkey(fs')))
    BY <1>8, WorkflowAllWorks
  <2>2. CASE task' = "sign" /\ SomeRkey(fs')
    <3>1. SomeRkey(fs)'
      BY <2>2 DEF SomeRkey, Has, Flows
    <3>2. TaskInv'
      BY <2>2, <3>1 DEF TaskInv, BuildIsCoherent
    <3>3. QED
      BY <2>1, <3>2, WorksKeepsFiles
  <2>3. QED
    BY <2>1, <2>2, <1>1
<1>9. CASE PickFolder
  BY <1>1, <1>9, PickFolderWorks
<1>10. CASE WorkflowSignApp
  BY <1>1, <1>10, WorkflowSignAppWorks
<1>11. CASE WorkflowGenerateRkey /\ ~PickFolder
  BY <1>11, WorkflowGenerateRkeyKeeps, EndsTask
<1>12. CASE EditConfig
  BY <1>12, EditConfigKeeps, EndsTask
<1>13. CASE TouchByHand
  BY <1>13, TouchByHandKeeps, EndsTask
<1>14. QED
  BY <1>2, <1>3, <1>4, <1>5, <1>6, <1>7, <1>8, <1>9, <1>10, <1>11, <1>12, <1>13
     DEF ByHand, ProgramDevice, UpdateDevice, PrepareSrec

(* The invariant is about nothing but the variables.                       *)
LEMMA FirmwareFlowStutter ==
  ASSUME IInv, UNCHANGED vars
  PROVE  IInv'
<1>1. /\ fs' = fs /\ config' = config /\ standard' = standard
      /\ task' = task /\ steps' = steps /\ strayed' = strayed
  BY DEF vars
<1>2. FilesInv'
  BY <1>1 DEF IInv, FilesInv, Typed, FileSystem, FoldersOK, Flows, Has, ByName, InOrder,
              CertsFollow, CodeFollowsKey, RootKept, RootsAgree, LastRkey
<1>3. Chosen' = Chosen
  BY <1>1 DEF Chosen, DeviceFolder, Reuse, HasAny, Has, NewFlow, ByName, Flows,
              FindRkey, FindCert, MaxVersion, NoCerts
<1>4. SignedNow' = SignedNow /\ \A inject : BootNow(inject)' = BootNow(inject)
  BY <1>1 DEF SignedNow, BootNow
<1>5. BuildIsCoherent'
  BY <1>1, <1>3, <1>4 DEF IInv, TaskInv, BuildIsCoherent, SignedNow, BootNow
<1>6. SomeRkey(fs)' <=> SomeRkey(fs)
  BY <1>1 DEF SomeRkey, Has, Flows
<1>7. LastFlow' = LastFlow /\ CombinedNow' = CombinedNow
  BY <1>1 DEF LastFlow, CombinedNow, SignedNow, BootNow, ByName
<1>8. BootNow(TRUE)' = BootNow(TRUE)
  BY <1>1 DEF BootNow
<1>9. TaskInv'
  BY <1>1, <1>4, <1>5, <1>6, <1>7, <1>8 DEF IInv, TaskInv
<1>10. QED
  BY <1>1, <1>2, <1>9 DEF IInv

LEMMA FirmwareFlowStep ==
  ASSUME IInv, [Next]_vars
  PROVE  IInv'
<1>1. CASE WorkflowStep /\ UNCHANGED steps
  BY <1>1, WorkflowStepKeeps DEF IInv
<1>2. CASE ByHand /\ steps < MaxSteps /\ steps' = steps + 1
  <2>1. FilesInv' /\ TaskInv'
    BY <1>2, ByHandKeeps DEF IInv
  <2>2. steps' \in 0..MaxSteps
    BY <1>2, StepsCounted DEF IInv
  <2>3. QED
    BY <2>1, <2>2 DEF IInv
<1>3. CASE UNCHANGED vars
  BY <1>3, FirmwareFlowStutter
<1>4. QED
  BY <1>1, <1>2, <1>3 DEF Next

-----------------------------------------------------------------------------
(* In every reachable state IInv holds.                                    *)
THEOREM FirmwareFlowInvariant == Spec => []IInv
<1>1. Init => IInv
  BY FirmwareFlowInit
<1>2. IInv /\ [Next]_vars => IInv'
  BY FirmwareFlowStep
<1>3. QED
  BY <1>1, <1>2, PTL DEF Spec

(* Every variable has its type: each file of a flow folder holds what its  *)
(* name says, and the order of time is one of the folders there are.       *)
THEOREM FirmwareFlowTypeOK == Spec => []TypeOK
<1>1. IInv => TypeOK
  BY DEF IInv, FilesInv, TaskInv, Typed, FileSystem, TypeOK
<1>2. QED
  BY <1>1, FirmwareFlowInvariant, PTL

(* sign-app and program-device, which pick the flow folder by name, pick   *)
(* the one that the commands between them pick by time, until somebody     *)
(* modifies an older one by hand.                                          *)
THEOREM FirmwareFlowNameIsTime == Spec => []NameIsTime
<1>1. ASSUME FilesInv, "hand" \notin strayed
      PROVE  ByName(fs) = ByTime(fs)
  <2>1. Stage(fs)
    BY <1>1, ConfiguredFits
  <2>2. CASE ByTime(fs) = 0
    BY <2>1, <2>2, PickedIsLast
  <2>3. CASE ByTime(fs) # 0
    BY <1>1, <2>1, <2>3, PickedIsLast DEF Last
  <2>4. QED
    BY <2>2, <2>3
<1>2. IInv => NameIsTime
  BY <1>1 DEF IInv, NameIsTime
<1>3. QED
  BY <1>2, FirmwareFlowInvariant, PTL

(* After workflow-all program-device finds the combined file of the        *)
(* present builds, signed by the key in the bootloader, a code certificate *)
(* with the CRC of that bootloader and a key certificate of the RKEY's     *)
(* root key, but for what the code lets stray; after any number of         *)
(* commands, whole or cut, for any keys, builds and versions.              *)
THEOREM FirmwareFlowBuildIsCoherent == Spec => []BuildIsCoherent
<1>1. IInv => BuildIsCoherent
  BY DEF IInv, TaskInv
<1>2. QED
  BY <1>1, FirmwareFlowInvariant, PTL
==============================================================================
