-------------------------- MODULE FlowFoldersProofs --------------------------
(***************************************************************************)
(* What the operators of FlowFolders do to a file system, for folders of   *)
(* any type D and whatever else the file system holds.                     *)
(***************************************************************************)
EXTENDS FlowFolders, TLAPS, WellFoundedInduction

(* s is a file system with folders in D *)
FileSystem(s, D) ==
  /\ s = [f \in DOMAIN s |-> s[f]]
  /\ "flows" \in DOMAIN s /\ "recent" \in DOMAIN s
  /\ FoldersOK(s, D)

(* What is beside the flow folders is the same. *)
Beside(s, t) ==
  /\ DOMAIN t = DOMAIN s
  /\ \A f \in DOMAIN s : f \notin {"flows", "recent"} => t[f] = s[f]

(* t is s after a change of folder i, that now holds d *)
Changed(s, t, i, d) ==
  /\ Beside(s, t)
  /\ DOMAIN t.flows = DOMAIN s.flows
  /\ t.flows[i] = d
  /\ \A j \in DOMAIN s.flows : j # i => t.flows[j] = s.flows[j]

(* Nobody has touched an older folder: the order of time is that of names. *)
InOrder(s) ==
  /\ Len(s.recent) = Len(s.flows)
  /\ \A n \in 1..Len(s.flows) : s.recent[n] = Len(s.flows) + 1 - n

-----------------------------------------------------------------------------
(* Element k of a sequence is moved to its front.                          *)
Fronted(q, k) ==
  [n \in DOMAIN q |-> IF n = 1 THEN q[k] ELSE IF n <= k THEN q[n - 1] ELSE q[n]]

(* The elements of q are in r.                                             *)
Keeps(q, r) == \A n \in DOMAIN q : \E m \in DOMAIN r : r[m] = q[n]

LEMMA MovedToFront ==
  ASSUME NEW S, NEW q \in Seq(S), NEW k \in DOMAIN q
  PROVE  /\ Fronted(q, k) \in Seq(S) /\ Len(Fronted(q, k)) = Len(q)
         /\ Fronted(q, k) # <<>> /\ Fronted(q, k)[1] = q[k]
         /\ Keeps(q, Fronted(q, k))
         /\ k = 1 => Fronted(q, k) = q
<1> DEFINE r == Fronted(q, k)
<1>1. PICK l \in Nat : l = Len(q)
  OBVIOUS
<1>2. DOMAIN q = 1..l /\ k \in 1..l /\ q = [n \in 1..l |-> q[n]]
  BY <1>1
<1>3. \A n \in 1..l : q[n] \in S
  BY <1>1
<1>4. r = [n \in 1..l |-> IF n = 1 THEN q[k] ELSE IF n <= k THEN q[n - 1] ELSE q[n]]
  BY <1>2 DEF Fronted
<1> HIDE DEF r
<1>5. \A n \in 1..l : r[n] \in S
  <2> SUFFICES ASSUME NEW n \in 1..l PROVE r[n] \in S
    OBVIOUS
  <2>1. CASE n = 1
    BY <2>1, <1>2, <1>3, <1>4
  <2>2. CASE n # 1
    <3>1. n - 1 \in 1..l
      BY <2>2
    <3>2. QED
      BY <2>2, <3>1, <1>3, <1>4
  <2>3. QED
    BY <2>1, <2>2
<1>6. r \in [1..l -> S]
  BY <1>4, <1>5
<1>7. r \in Seq(S) /\ Len(r) = Len(q)
  BY <1>1, <1>6
<1>8. r # <<>> /\ r[1] = q[k]
  BY <1>2, <1>4, <1>7
<1>9. ASSUME NEW n \in DOMAIN q
      PROVE  \E m \in DOMAIN r : r[m] = q[n]
  <2>1. CASE n = k
    <3>1. 1 \in DOMAIN r /\ r[1] = q[n]
      BY <2>1, <1>2, <1>4
    <3>2. QED
      BY <3>1
  <2>2. CASE n < k
    <3>1. n + 1 \in DOMAIN r /\ r[n + 1] = q[n]
      BY <2>2, <1>2, <1>4
    <3>2. QED
      BY <3>1
  <2>3. CASE n > k
    <3>1. n \in DOMAIN r /\ r[n] = q[n]
      BY <2>3, <1>2, <1>4
    <3>2. QED
      BY <3>1
  <2>4. QED
    BY <2>1, <2>2, <2>3, <1>2
<1>10. ASSUME k = 1
       PROVE  r = q
  <2>1. \A n \in 1..l : r[n] = q[n]
    BY <1>10, <1>2, <1>4
  <2>2. r = [n \in 1..l |-> r[n]]
    BY <1>6
  <2>3. QED
    BY <2>1, <2>2, <1>2
<1>11. QED
  BY <1>7, <1>8, <1>9, <1>10 DEF r, Keeps

(* A set of numbers has a least one, and a greatest when it is bounded.    *)
LEMMA LeastOfSet ==
  ASSUME NEW S \in SUBSET Nat, S # {}
  PROVE  \E n \in S : \A m \in S : n <= m
<1> DEFINE R == OpToRel(<, Nat)
<1>1. \A m, n \in Nat : m < n => <<m, n>> \in R
  BY DEF OpToRel
<1>2. IsWellFoundedOn(R, Nat)
  BY NatLessThanWellFounded
<1> HIDE DEF R
<1>3. PICK n \in S : \A m \in S : ~ (<<m, n>> \in R)
  BY <1>2, WFMin
<1>4. ASSUME NEW m \in S
      PROVE  n <= m
  <2>1. ~ (m < n)
    BY <1>1, <1>3
  <2>2. m \in Nat /\ n \in Nat
    OBVIOUS
  <2>3. QED
    BY <2>1, <2>2
<1>5. QED
  BY <1>4

LEMMA GreatestOfSet ==
  ASSUME NEW l \in Nat, NEW S \in SUBSET (1..l), S # {}
  PROVE  \E n \in S : \A m \in S : m <= n
<1> DEFINE T == {l - n : n \in S}
<1>1. T \in SUBSET Nat /\ T # {}
  <2>1. \A n \in S : l - n \in Nat
    OBVIOUS
  <2>2. QED
    BY <2>1
<1> HIDE DEF T
<1>2. PICK t \in T : \A u \in T : t <= u
  BY <1>1, LeastOfSet
<1>3. PICK n \in S : t = l - n
  BY DEF T
<1>4. ASSUME NEW m \in S
      PROVE  m <= n
  <2>1. l - m \in T
    BY DEF T
  <2>2. l - n <= l - m
    BY <2>1, <1>2, <1>3
  <2>3. QED
    BY <2>2
<1>5. QED
  BY <1>4

(* Touch moves a folder to the front, and all folders stay in the order.   *)
LEMMA TouchMoves ==
  ASSUME NEW D, NEW s, FileSystem(s, D), NEW i \in Flows(s)
  PROVE  /\ FileSystem(Touch(s, i), D)
         /\ Beside(s, Touch(s, i))
         /\ Touch(s, i).flows = s.flows
         /\ ByTime(Touch(s, i)) = i
         /\ InOrder(s) /\ i = Len(s.flows) => Touch(s, i).recent = s.recent
<1> DEFINE k == CHOOSE n \in DOMAIN s.recent : s.recent[n] = i
           r == [n \in DOMAIN s.recent |->
                   IF n = 1 THEN i ELSE IF n <= k THEN s.recent[n - 1] ELSE s.recent[n]]
           t == Touch(s, i)
<1>1. t = [s EXCEPT !.recent = r]
  BY DEF Touch
<1>2. k \in DOMAIN s.recent /\ s.recent[k] = i
  BY DEF FileSystem, FoldersOK
<1>3. /\ s.recent \in Seq(Flows(s)) /\ s.flows \in Seq(D) /\ Len(s.recent) = Len(s.flows)
      /\ \A j \in Flows(s) : \E n \in DOMAIN s.recent : s.recent[n] = j
  BY DEF FileSystem, FoldersOK
<1> HIDE DEF k
<1>4. r = Fronted(s.recent, k)
  BY <1>2 DEF Fronted
<1> HIDE DEF r, t
<1>d. PICK q \in Seq(Flows(s)) : q = s.recent
  BY <1>3
<1>e. k \in DOMAIN q
  BY <1>2, <1>d
<1>f. /\ Fronted(q, k) \in Seq(Flows(s)) /\ Len(Fronted(q, k)) = Len(q)
      /\ Fronted(q, k) # <<>> /\ Fronted(q, k)[1] = q[k]
      /\ Keeps(q, Fronted(q, k))
      /\ k = 1 => Fronted(q, k) = q
  BY <1>e, MovedToFront
<1>5. /\ r \in Seq(Flows(s)) /\ Len(r) = Len(s.recent)
      /\ r # <<>> /\ r[1] = s.recent[k]
      /\ Keeps(s.recent, r)
      /\ k = 1 => r = s.recent
  BY <1>f, <1>4, <1>d
<1>a. /\ s = [f \in DOMAIN s |-> s[f]]
      /\ "flows" \in DOMAIN s /\ "recent" \in DOMAIN s
  BY DEF FileSystem
<1>b. t.recent = r
  BY <1>1, <1>a, Zenon
<1>c. t.flows = s.flows
  BY <1>1, <1>a, Zenon
<1>6. t.recent = r /\ t.flows = s.flows
  BY <1>b, <1>c
<1>7. Beside(s, t)
  BY <1>1 DEF FileSystem, Beside
<1>8. \A j \in Flows(s) : \E m \in DOMAIN r : r[m] = j
  BY <1>3, <1>5 DEF Keeps
<1>9. FoldersOK(t, D)
  BY <1>3, <1>5, <1>6, <1>8 DEF FoldersOK, Flows
<1>10. FileSystem(t, D)
  <2>1. t = [f \in DOMAIN s |-> IF f = "recent" THEN r ELSE s[f]]
    BY <1>1 DEF FileSystem
  <2>2. t = [f \in DOMAIN t |-> t[f]] /\ DOMAIN t = DOMAIN s
    BY <2>1
  <2>3. QED
    BY <2>2, <1>9 DEF FileSystem
<1>11. ByTime(t) = i
  BY <1>2, <1>5, <1>6 DEF ByTime
<1>12. ASSUME InOrder(s), i = Len(s.flows)
       PROVE  t.recent = s.recent
  <2>1. k \in 1..Len(s.flows) /\ Len(s.flows) \in Nat
    BY <1>2, <1>3
  <2>2. i = Len(s.flows) + 1 - k
    BY <2>1, <1>2, <1>12 DEF InOrder
  <2>3. k = 1
    BY <2>1, <2>2, <1>12
  <2>4. QED
    BY <2>3, <1>5, <1>6
<1>13. QED
  BY <1>6, <1>7, <1>10, <1>11, <1>12 DEF t

(* The folders by number, and the order of time in numbers                 *)
LEMMA FileSystemFacts ==
  ASSUME NEW D, NEW s, FileSystem(s, D)
  PROVE  /\ s.flows \in Seq(D) /\ Len(s.flows) \in Nat
         /\ Flows(s) = 1..Len(s.flows)
         /\ s.recent \in Seq(1..Len(s.flows)) /\ Len(s.recent) = Len(s.flows)
         /\ DOMAIN s.recent = 1..Len(s.flows)
         /\ \A j \in 1..Len(s.flows) : \E n \in DOMAIN s.recent : s.recent[n] = j
<1>1. s.flows \in Seq(D) /\ s.recent \in Seq(Flows(s))
  BY DEF FileSystem, FoldersOK
<1>2. Len(s.flows) \in Nat /\ Flows(s) = 1..Len(s.flows)
  BY <1>1 DEF Flows
<1>3. /\ Len(s.recent) = Len(s.flows)
      /\ \A j \in Flows(s) : \E n \in DOMAIN s.recent : s.recent[n] = j
  BY DEF FileSystem, FoldersOK
<1>4. DOMAIN s.recent = 1..Len(s.flows)
  BY <1>1, <1>3
<1>5. QED
  BY <1>1, <1>2, <1>3, <1>4

(* Each way picks a folder, when there is one.                             *)
LEMMA PickedIsThere ==
  ASSUME NEW D, NEW s, FileSystem(s, D)
  PROVE  /\ ByName(s) # 0 => ByName(s) \in Flows(s)
         /\ ByTime(s) # 0 => ByTime(s) \in Flows(s)
         /\ ByTime(s) = 0 <=> ByName(s) = 0
<1>1. /\ Len(s.flows) \in Nat /\ Flows(s) = 1..Len(s.flows)
      /\ s.recent \in Seq(1..Len(s.flows)) /\ Len(s.recent) = Len(s.flows)
  BY FileSystemFacts
<1>2. CASE s.recent = <<>>
  BY <1>1, <1>2 DEF ByName, ByTime
<1>3. CASE s.recent # <<>>
  <2>1. Len(s.flows) > 0 /\ s.recent[1] \in 1..Len(s.flows)
    BY <1>1, <1>3
  <2>2. QED
    BY <1>1, <1>3, <2>1 DEF ByName, ByTime
<1>4. QED
  BY <1>2, <1>3

(* One file of one folder gets other contents.                             *)
LEMMA FileChanged ==
  ASSUME NEW D, NEW s, FileSystem(s, D), NEW i \in Flows(s), NEW x, NEW v,
         [s.flows[i] EXCEPT ![x] = v] \in D
  PROVE  LET w == [s EXCEPT !.flows[i][x] = v] IN
         /\ FileSystem(w, D)
         /\ Changed(s, w, i, [s.flows[i] EXCEPT ![x] = v])
         /\ Len(w.flows) = Len(s.flows) /\ w.recent = s.recent
         /\ InOrder(s) => InOrder(w)
<1> DEFINE w == [s EXCEPT !.flows[i][x] = v]
           d == [s.flows[i] EXCEPT ![x] = v]
           fl == [s.flows EXCEPT ![i] = d]
<1>1. w = [s EXCEPT !.flows = fl]
  OBVIOUS
<1>2. /\ s = [f \in DOMAIN s |-> s[f]]
      /\ "flows" \in DOMAIN s /\ "recent" \in DOMAIN s
  BY DEF FileSystem
<1> HIDE DEF w, fl
<1>3. w.recent = s.recent
  BY <1>1, <1>2, Zenon
<1>4. w.flows = fl
  BY <1>1, <1>2, Zenon
<1>5. s.flows \in Seq(D) /\ i \in DOMAIN s.flows
  BY DEF FileSystem, FoldersOK, Flows
<1>6. w.flows = [s.flows EXCEPT ![i] = d]
  BY <1>4 DEF fl
<1>7. w.flows \in Seq(D) /\ Len(w.flows) = Len(s.flows) /\ DOMAIN w.flows = DOMAIN s.flows
  BY <1>5, <1>6
<1>8. FileSystem(w, D)
  BY <1>1, <1>3, <1>7 DEF FileSystem, FoldersOK, Flows
<1>9. Changed(s, w, i, d)
  BY <1>1, <1>5, <1>6, <1>7 DEF FileSystem, Changed, Beside
<1>10. InOrder(s) => InOrder(w)
  BY <1>3, <1>7 DEF InOrder
<1>11. QED
  BY <1>3, <1>7, <1>8, <1>9, <1>10 DEF w

(* Put writes one file of one folder; when that makes an entry, the folder *)
(* becomes the latest.                                                     *)
LEMMA PutWrites ==
  ASSUME NEW D, NEW s, FileSystem(s, D), NEW i \in Flows(s), NEW x, NEW v,
         [s.flows[i] EXCEPT ![x] = v] \in D
  PROVE  LET t == Put(s, i, x, v) IN
         /\ FileSystem(t, D)
         /\ Changed(s, t, i, [s.flows[i] EXCEPT ![x] = v])
         /\ Has(s, i, x) => t.recent = s.recent
         /\ ~Has(s, i, x) => ByTime(t) = i
         /\ InOrder(s) /\ i = Len(s.flows) => t.recent = s.recent
<1> DEFINE w == [s EXCEPT !.flows[i][x] = v]
           d == [s.flows[i] EXCEPT ![x] = v]
<1>1. /\ FileSystem(w, D) /\ Changed(s, w, i, d)
      /\ Len(w.flows) = Len(s.flows) /\ w.recent = s.recent
      /\ InOrder(s) => InOrder(w)
  BY FileChanged
<1>2. i \in Flows(w)
  BY <1>1 DEF Changed, Flows
<1> HIDE DEF w, d
<1>3. CASE Has(s, i, x)
  <2>1. Put(s, i, x, v) = w
    BY <1>3 DEF Put, w
  <2>2. QED
    BY <2>1, <1>1, <1>3 DEF d
<1>4. CASE ~Has(s, i, x)
  <2>1. Put(s, i, x, v) = Touch(w, i)
    BY <1>4 DEF Put, w
  <2>2. /\ FileSystem(Touch(w, i), D) /\ Beside(w, Touch(w, i)) /\ Touch(w, i).flows = w.flows
        /\ ByTime(Touch(w, i)) = i
        /\ InOrder(w) /\ i = Len(w.flows) => Touch(w, i).recent = w.recent
    BY <1>1, <1>2, TouchMoves
  <2>3. Changed(s, Touch(w, i), i, d)
    BY <2>2, <1>1 DEF Changed, Beside
  <2>4. QED
    BY <2>1, <2>2, <2>3, <1>1, <1>4 DEF d
<1>5. QED
  BY <1>3, <1>4

(* Remove deletes one file of one folder, which becomes the latest.        *)
LEMMA RemoveDeletes ==
  ASSUME NEW D, NEW s, FileSystem(s, D), NEW i \in Flows(s), NEW x,
         Has(s, i, x), [s.flows[i] EXCEPT ![x] = Absent] \in D
  PROVE  LET t == Remove(s, i, x) IN
         /\ FileSystem(t, D)
         /\ Changed(s, t, i, [s.flows[i] EXCEPT ![x] = Absent])
<1> DEFINE w == [s EXCEPT !.flows[i][x] = Absent]
           d == [s.flows[i] EXCEPT ![x] = Absent]
<1>1. FileSystem(w, D) /\ Changed(s, w, i, d)
  BY FileChanged
<1>2. i \in Flows(w)
  BY <1>1 DEF Changed, Flows
<1> HIDE DEF w, d
<1>3. FileSystem(Touch(w, i), D) /\ Beside(w, Touch(w, i)) /\ Touch(w, i).flows = w.flows
  BY <1>1, <1>2, TouchMoves
<1>4. Changed(s, Touch(w, i), i, d)
  BY <1>1, <1>3 DEF Changed, Beside
<1>5. Remove(s, i, x) = Touch(w, i)
  BY DEF Remove, w
<1>6. QED
  BY <1>3, <1>4, <1>5 DEF d

(* A new folder is empty, and the last by name and by time.                *)
LEMMA NewFlowMakes ==
  ASSUME NEW D, NEW s, FileSystem(s, D), NEW F, [x \in F |-> Absent] \in D
  PROVE  LET t == NewFlow(s, F) IN
         /\ FileSystem(t, D)
         /\ Beside(s, t)
         /\ t.flows = Append(s.flows, [x \in F |-> Absent])
         /\ ByTime(t) = ByName(t)
         /\ InOrder(s) => InOrder(t)
<1> DEFINE e == [x \in F |-> Absent]
           l == Len(s.flows)
           fl == Append(s.flows, e)
           re == <<l + 1>> \o s.recent
           t == NewFlow(s, F)
<1>1. t = [s EXCEPT !.flows = fl, !.recent = re]
  BY DEF NewFlow
<1>2. /\ s = [f \in DOMAIN s |-> s[f]]
      /\ "flows" \in DOMAIN s /\ "recent" \in DOMAIN s
  BY DEF FileSystem
<1>3. /\ s.flows \in Seq(D) /\ s.recent \in Seq(1..l) /\ Len(s.recent) = l
      /\ \A j \in 1..l : \E n \in DOMAIN s.recent : s.recent[n] = j
      /\ l \in Nat
  BY FileSystemFacts
<1> HIDE DEF e
<1>4. /\ fl \in Seq(D) /\ Len(fl) = l + 1
      /\ re \in Seq(1..l + 1) /\ Len(re) = l + 1
      /\ re # <<>> /\ re[1] = l + 1
      /\ \A n \in 1..l : re[n + 1] = s.recent[n]
      /\ DOMAIN re = 1..l + 1 /\ DOMAIN s.recent = 1..l
  <2>1. fl \in Seq(D) /\ Len(fl) = l + 1
    BY <1>3 DEF e
  <2>2. re \in Seq(1..l + 1) /\ Len(re) = l + 1
    <3>1. s.recent \in Seq(1..l + 1) /\ l + 1 \in 1..l + 1
      BY <1>3
    <3>2. QED
      BY <3>1, <1>3
  <2>3. re # <<>> /\ re[1] = l + 1
    BY <1>3
  <2>4. \A n \in 1..l : re[n + 1] = s.recent[n]
    BY <1>3
  <2>5. DOMAIN re = 1..l + 1 /\ DOMAIN s.recent = 1..l
    BY <1>3, <2>2
  <2>6. QED
    BY <2>1, <2>2, <2>3, <2>4, <2>5
<1> HIDE DEF fl, re
<1>5a. l \in Nat
  BY <1>3
<1>5. \A j \in 1..l + 1 : \E n \in DOMAIN re : re[n] = j
  <2> SUFFICES ASSUME NEW j \in 1..l + 1
               PROVE  \E n \in DOMAIN re : re[n] = j
    OBVIOUS
  <2>1. CASE j = l + 1
    <3>1. 1 \in DOMAIN re
      BY <1>3, <1>4
    <3>2. QED
      BY <2>1, <3>1, <1>4
  <2>2. CASE j # l + 1
    <3>1. PICK n \in 1..l : s.recent[n] = j
      <4>1. j \in 1..l
        BY <2>2, <1>3
      <4>2. \E n \in DOMAIN s.recent : s.recent[n] = j
        BY <4>1, <1>3, Zenon
      <4>3. QED
        BY <4>2, <1>4
    <3>a. DOMAIN re = 1..l + 1 /\ re[n + 1] = s.recent[n]
      BY <1>4, Zenon
    <3>2. re[n + 1] = j /\ n + 1 \in DOMAIN re
      BY <3>1, <3>a, <1>5a
    <3>3. QED
      BY <3>2
  <2>3. QED
    BY <2>1, <2>2
<1> HIDE DEF t
<1>6. t.flows = fl
  BY <1>1, <1>2, Zenon
<1>7. t.recent = re
  BY <1>1, <1>2, Zenon
<1>8. t = [f \in DOMAIN s |-> IF f = "recent" THEN re ELSE IF f = "flows" THEN fl ELSE s[f]]
  BY <1>1, <1>2, Zenon
<1>9. t = [f \in DOMAIN t |-> t[f]] /\ Beside(s, t)
  BY <1>8 DEF Beside
<1>10. FoldersOK(t, D)
  <2>1. Flows(t) = 1..l + 1
    BY <1>4, <1>6 DEF Flows
  <2>2. QED
    BY <2>1, <1>4, <1>5, <1>6, <1>7 DEF FoldersOK
<1>11. FileSystem(t, D)
  BY <1>2, <1>9, <1>10 DEF FileSystem, Beside
<1>12. ByTime(t) = ByName(t)
  BY <1>4, <1>6, <1>7 DEF ByTime, ByName
<1>13. ASSUME InOrder(s)
       PROVE  InOrder(t)
  <2>1. ASSUME NEW n \in 1..l + 1
        PROVE  re[n] = l + 1 + 1 - n
    <3>1. CASE n = 1
      BY <3>1, <1>3, <1>4
    <3>2. CASE n # 1
      <4>1. PICK m \in 1..l : n = m + 1
        BY <3>2, <1>3
      <4>2. re[n] = s.recent[m]
        BY <4>1, <1>4
      <4>3. s.recent[m] = l + 1 - m
        BY <1>13 DEF InOrder
      <4>4. QED
        BY <4>1, <4>2, <4>3, <1>3
    <3>3. QED
      BY <3>1, <3>2
  <2>2. QED
    BY <2>1, <1>4, <1>6, <1>7 DEF InOrder
<1>14. QED
  BY <1>6, <1>9, <1>11, <1>12, <1>13 DEF t, fl, e

(* In the order of time the first folder of a set: one of the set, unless  *)
(* it is empty; the latest of all, if that is one of them; and the last by *)
(* name, when the two orders agree.                                        *)
LEMMA FirstByTimeFinds ==
  ASSUME NEW D, NEW s, FileSystem(s, D), NEW S \in SUBSET Flows(s)
  PROVE  LET f == FirstByTime(s, S) IN
         /\ f = 0 <=> S = {}
         /\ f # 0 => f \in S
         /\ ByTime(s) \in S => f = ByTime(s)
         /\ InOrder(s) => \A j \in S : j <= f
<1> DEFINE hits == {n \in DOMAIN s.recent : s.recent[n] \in S}
           first == CHOOSE n \in hits : \A m \in hits : n <= m
           f == FirstByTime(s, S)
           l == Len(s.flows)
<1>1. /\ s.recent \in Seq(1..l) /\ Len(s.recent) = l /\ l \in Nat
      /\ \A j \in 1..l : \E n \in DOMAIN s.recent : s.recent[n] = j
      /\ S \subseteq 1..l
  BY FileSystemFacts
<1>a. l \in Nat
  BY <1>1
<1>2. CASE S = {}
  <2>1. hits = {} /\ ByTime(s) \notin S
    BY <1>2
  <2>2. f = 0
    BY <2>1 DEF FirstByTime
  <2>3. QED
    BY <2>1, <2>2, <1>2
<1>3. CASE S # {}
  <2>a. hits \in SUBSET Nat
    BY <1>1
  <2>b. hits # {}
    <3>1. PICK j \in S : TRUE
      BY <1>3
    <3>2. PICK n \in DOMAIN s.recent : s.recent[n] = j
      BY <1>1, Zenon
    <3>3. n \in hits
      BY <3>2
    <3>4. QED
      BY <3>3
  <2>1. \A n \in DOMAIN s.recent : n \in hits <=> s.recent[n] \in S
    OBVIOUS
  <2>d. DOMAIN s.recent = 1..l
    BY FileSystemFacts
  <2>c. hits \subseteq 1..l /\ DOMAIN s.recent = 1..l
    BY <2>d
  <2>4. f = s.recent[first]
    BY <2>b, Zenon DEF FirstByTime
  <2> HIDE DEF hits
  <2>2. \E n \in hits : \A m \in hits : n <= m
    BY <2>a, <2>b, LeastOfSet
  <2>3. first \in hits /\ \A m \in hits : first <= m
    BY <2>2, Zenon
  <2> HIDE DEF first, f
  <2>5. f \in S /\ f \in 1..l /\ f # 0
    <3>1. f \in S
      BY <2>1, <2>c, <2>3, <2>4, Zenon
    <3>2. QED
      BY <3>1, <1>1
  <2>6. ASSUME ByTime(s) \in S
        PROVE  f = ByTime(s)
    <3>1. s.recent # <<>> /\ 1 \in DOMAIN s.recent
      BY <1>1, <2>c, <2>3
    <3>a. ByTime(s) = s.recent[1]
      BY <3>1 DEF ByTime
    <3>2. 1 \in hits
      BY <3>1, <3>a, <2>6, <2>1
    <3>3. first = 1
      BY <3>2, <2>c, <2>3
    <3>4. QED
      BY <3>a, <3>3, <2>4
  <2>7. ASSUME InOrder(s), NEW j \in S
        PROVE  j <= f
    <3>1. PICK n \in DOMAIN s.recent : s.recent[n] = j
      BY <1>1, Zenon
    <3>2. n \in hits /\ n \in 1..l /\ first \in 1..l
      BY <3>1, <2>1, <2>c, <2>3
    <3>3. first <= n
      BY <3>2, <2>3
    <3>a. s.recent[n] = l + 1 - n /\ s.recent[first] = l + 1 - first
      BY <3>2, <2>7 DEF InOrder
    <3>4. j = l + 1 - n /\ f = l + 1 - first
      BY <3>1, <3>a, <2>4
    <3>5. QED
      BY <3>2, <3>3, <3>4, <1>a
  <2>8. QED
    BY <2>5, <2>6, <2>7, <1>3 DEF f
<1>4. QED
  BY <1>2, <1>3
==============================================================================
