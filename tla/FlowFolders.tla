----------------------------- MODULE FlowFolders -----------------------------
(***************************************************************************)
(* The folders output/flow_<timestamp> in which the commands of the tool   *)
(* leave their files, and the two ways in which a command picks one.       *)
(*                                                                         *)
(* A file system fs is a record with at least                              *)
(*   flows   the folders in the order of their names, each a function from *)
(*           files to contents,                                            *)
(*   recent  the folders by modification time, the latest first.           *)
(* Creating or removing an entry of a folder changes its modification      *)
(* time; writing over a file does not.                                     *)
(***************************************************************************)
EXTENDS Naturals, Sequences

CONSTANT Absent  \* in place of the contents of a file that does not exist

Flows(fs) == DOMAIN fs.flows
Has(fs, i, x) == fs.flows[i][x] # Absent
HasAny(fs, i, X) == \E x \in X : Has(fs, i, x)

(* sorted(flow_folders, key=name)[-1] and sorted(..., key=st_mtime)[-1],   *)
(* 0 when there is no folder                                               *)
ByName(fs) == Len(fs.flows)
ByTime(fs) == IF fs.recent = <<>> THEN 0 ELSE fs.recent[1]

(* Folder i moves to the front of the order of time.                       *)
Touch(fs, i) ==
  LET k == CHOOSE n \in DOMAIN fs.recent : fs.recent[n] = i IN
  [fs EXCEPT !.recent =
     [n \in DOMAIN @ |-> IF n = 1 THEN i ELSE IF n <= k THEN @[n - 1] ELSE @[n]]]

Put(fs, i, x, v) ==
  LET written == [fs EXCEPT !.flows[i][x] = v] IN
  IF Has(fs, i, x) THEN written ELSE Touch(written, i)

PutIfAbsent(fs, i, x, v) == IF Has(fs, i, x) THEN fs ELSE Put(fs, i, x, v)

Remove(fs, i, x) ==
  IF Has(fs, i, x) THEN Touch([fs EXCEPT !.flows[i][x] = Absent], i) ELSE fs

(* mkdir of a name with the present second in it; File: the files that the *)
(* commands look for in a folder                                           *)
NewFlow(fs, File) == [fs EXCEPT !.flows = Append(@, [x \in File |-> Absent]),
                                !.recent = <<Len(fs.flows) + 1>> \o @]

(* Reuse folder i when it has one of the important files, otherwise make   *)
(* one, which is then the latest by name and by time.                      *)
Reuse(fs, i, important, File) ==
  IF i # 0 /\ HasAny(fs, i, important) THEN fs ELSE NewFlow(fs, File)

(* The first folder of S in the order of time, 0 for none                  *)
FirstByTime(fs, S) ==
  LET found == {n \in DOMAIN fs.recent : fs.recent[n] \in S} IN
  IF found = {} THEN 0
  ELSE fs.recent[CHOOSE n \in found : \A m \in found : n <= m]

(* D: what a folder may look like *)
FoldersOK(fs, D) ==
  /\ fs.flows \in Seq(D)
  /\ fs.recent \in Seq(Flows(fs))
  /\ Len(fs.recent) = Len(fs.flows)
  /\ \A i \in Flows(fs) : \E k \in DOMAIN fs.recent : fs.recent[k] = i
==============================================================================
