------------------------- MODULE Pkcs11LibraryProofs -------------------------
(***************************************************************************)
(* What Pkcs11Library promises, for any keys and data, and any number of   *)
(* sessions, objects and chunks, proved.                                   *)
(***************************************************************************)
EXTENDS Pkcs11Library, SequenceTheorems, WellFoundedInduction, TLAPS

(* A session, whatever the bounds                                          *)
AnyOperation == [mech : Mechanism \cup {"none"}, key : Nat, data : Seq(Chunk)]
AnySearch == [on : BOOLEAN, results : Seq(Nat), index : Nat]
AnySession == [login : BOOLEAN, handles : Seq(Arn), sign : AnyOperation, verify : AnyOperation,
               digest : AnyOperation, find : AnySearch]

(* An operation has a key of the session; an inactive one has none.        *)
SoundOperation(s, op) == op.key <= Len(s.handles) /\ (Active(op) => op.key # 0)

(* The results of a search are handles of the session, all different.      *)
SoundSearch(s, f) ==
  /\ f.index <= Len(f.results)
  /\ Len(f.results) <= Len(s.handles)
  /\ \A i \in 1 .. Len(f.results) : f.results[i] \in 1 .. Len(s.handles)
  /\ \A i, j \in 1 .. Len(f.results) : f.results[i] = f.results[j] => i = j

Sound(s) ==
  /\ s \in AnySession
  /\ SoundOperation(s, s.sign) /\ SoundOperation(s, s.verify)
  /\ s.digest.key = 0
  /\ SoundSearch(s, s.find)

(* What a call that is not told to the history leaves of s: operations and *)
(* the search end or stay as they are.                                     *)
Continues(s, t) ==
  /\ Active(t.sign) => t.sign = s.sign
  /\ Active(t.digest) => t.digest = s.digest
  /\ t.find.on => t.find = s.find

(* Handles are never taken back.                                           *)
Extends(s, t) ==
  /\ Len(s.handles) <= Len(t.handles)
  /\ \A i \in 1 .. Len(s.handles) : t.handles[i] = s.handles[i]

-----------------------------------------------------------------------------
(* What the C_ functions do with a session                                 *)

LEMMA NewIsSound == Sound(NewSession) /\ Len(NewSession.handles) = 0
  BY DEF Sound, NewSession, Inactive, NoSearch, NoData, AnySession, AnyOperation, AnySearch,
         SoundOperation, SoundSearch, Active

LEMMA LoginCalls ==
  ASSUME NEW s, Sound(s), NEW ok \in BOOLEAN
  PROVE  /\ Sound(C_Login(s, ok).s) /\ Continues(s, C_Login(s, ok).s)
         /\ Sound(C_Logout(s, ok).s) /\ Continues(s, C_Logout(s, ok).s)
<1> USE DEF C_Login, C_Logout, Asked, Refuse, Return, Nothing, Sound, Continues, AnySession,
        SoundOperation, SoundSearch
<1>1. CASE ok = TRUE BY <1>1
<1>2. CASE ok = FALSE BY <1>2
<1> QED BY <1>1, <1>2

(* What is sound stays so when only operations change.                     *)
LEMMA OperationsChange ==
  ASSUME NEW s, Sound(s), NEW t \in AnySession, t.handles = s.handles, t.find = s.find,
         t.digest.key = 0,
         t.sign = s.sign \/ SoundOperation(s, t.sign),
         t.verify = s.verify \/ SoundOperation(s, t.verify)
  PROVE  Sound(t)
BY DEF Sound, SoundOperation, SoundSearch

LEMMA InitCalls ==
  ASSUME NEW s, Sound(s), NEW mech \in Mechanism, NEW key \in Nat
  PROVE  /\ Sound(C_SignInit(s, mech, key).s)
         /\ C_SignInit(s, mech, key).s.find = s.find
         /\ C_SignInit(s, mech, key).s.digest = s.digest
         /\ C_SignInit(s, mech, key).rv = "OK" => C_SignInit(s, mech, key).s.sign.data = NoData
         /\ C_SignInit(s, mech, key).rv # "OK" => C_SignInit(s, mech, key).s = s
         /\ Sound(C_VerifyInit(s, mech, key).s) /\ Continues(s, C_VerifyInit(s, mech, key).s)
<1> DEFINE op == [mech |-> mech, key |-> key, data |-> NoData]
<1>1. /\ C_SignInit(s, mech, key).s.find = s.find
      /\ C_SignInit(s, mech, key).s.digest = s.digest
      /\ C_SignInit(s, mech, key).rv = "OK" => C_SignInit(s, mech, key).s.sign.data = NoData
      /\ C_SignInit(s, mech, key).rv # "OK" => C_SignInit(s, mech, key).s = s
      /\ Continues(s, C_VerifyInit(s, mech, key).s)
  BY DEF Sound, Continues, C_SignInit, C_VerifyInit, Refuse, Return, AnySession
<1>2. op \in AnyOperation BY DEF AnyOperation, NoData
<1>3. Rejected(s, s.sign, mech, key) = "OK" => SoundOperation(s, op)
  BY DEF Rejected, Sound, AnySession, Handles, SoundOperation
<1>4. Rejected(s, s.verify, mech, key) = "OK" => SoundOperation(s, op)
  BY DEF Rejected, Sound, AnySession, Handles, SoundOperation
<1> HIDE DEF op
<1>5. Sound(C_SignInit(s, mech, key).s)
  <2>1. CASE Rejected(s, s.sign, mech, key) = "OK"
    <3>1. Sound([s EXCEPT !.sign = op])
      BY <1>2, <1>3, <2>1, OperationsChange DEF Sound, AnySession
    <3> QED BY <2>1, <3>1 DEF C_SignInit, Return, op
  <2>2. CASE Rejected(s, s.sign, mech, key) # "OK"
    BY <2>2 DEF C_SignInit, Refuse, Return
  <2> QED BY <2>1, <2>2
<1>6. Sound(C_VerifyInit(s, mech, key).s)
  <2>1. CASE Rejected(s, s.verify, mech, key) = "OK"
    <3>1. Sound([s EXCEPT !.verify = op])
      BY <1>2, <1>4, <2>1, OperationsChange DEF Sound, AnySession
    <3> QED BY <2>1, <3>1 DEF C_VerifyInit, Return, op
  <2>2. CASE Rejected(s, s.verify, mech, key) # "OK"
    BY <2>2 DEF C_VerifyInit, Refuse, Return
  <2> QED BY <2>1, <2>2
<1> QED BY <1>1, <1>5, <1>6

LEMMA InactiveIsSound ==
  ASSUME NEW s, Sound(s)
  PROVE  /\ Inactive \in AnyOperation /\ SoundOperation(s, Inactive) /\ ~Active(Inactive)
         /\ Inactive.key = 0
BY DEF Sound, AnySession, AnyOperation, Inactive, NoData, SoundOperation, Active

LEMMA SignSound ==
  ASSUME NEW s, Sound(s), NEW a
  PROVE  Sound(C_Sign(s, a).s) /\ Continues(s, C_Sign(s, a).s)
<1>1. Sound([s EXCEPT !.sign = Inactive]) /\ Continues(s, [s EXCEPT !.sign = Inactive])
  BY InactiveIsSound, OperationsChange DEF Sound, AnySession, Continues
<1>2. Continues(s, s) BY DEF Continues
<1>3. C_Sign(s, a).s \in {s, [s EXCEPT !.sign = Inactive]}
  BY DEF C_Sign, Asked, Refuse, Return
<1> QED BY <1>1, <1>2, <1>3

LEMMA VerifySound ==
  ASSUME NEW s, Sound(s), NEW a
  PROVE  Sound(C_Verify(s, a).s) /\ Continues(s, C_Verify(s, a).s)
<1>1. Sound([s EXCEPT !.verify = Inactive]) /\ Continues(s, [s EXCEPT !.verify = Inactive])
  BY InactiveIsSound, OperationsChange DEF Sound, AnySession, Continues
<1>2. Continues(s, s) BY DEF Continues
<1>3. C_Verify(s, a).s \in {s, [s EXCEPT !.verify = Inactive]}
  BY DEF C_Verify, Asked, Refuse, Return
<1> QED BY <1>1, <1>2, <1>3

LEMMA DigestSound ==
  ASSUME NEW s, Sound(s), NEW a
  PROVE  Sound(C_Digest(s, a).s) /\ Continues(s, C_Digest(s, a).s)
<1> DEFINE t == [s EXCEPT !.digest = Inactive]
           u == [s EXCEPT !.digest.mech = "none"]
<1>1. Sound(t) /\ Continues(s, t)
  BY InactiveIsSound, OperationsChange DEF Sound, AnySession, Continues
<1>2. Continues(s, s) BY DEF Continues
<1>3. Sound(u) /\ Continues(s, u)
  <2>1. u \in AnySession BY DEF Sound, AnySession, AnyOperation
  <2>2. /\ u.handles = s.handles /\ u.find = s.find /\ u.digest.key = 0 /\ u.sign = s.sign
        /\ u.verify = s.verify /\ u.digest.mech = "none"
    BY DEF Sound, AnySession, AnyOperation
  <2> HIDE DEF u
  <2> QED BY <2>1, <2>2, OperationsChange DEF Continues, Active
<1>4. C_Digest(s, a).s \in {s, t, u}
  BY DEF C_Digest, Refuse, Return
<1> QED BY <1>1, <1>2, <1>3, <1>4

(* The calls that collect data                                             *)
LEMMA SignUpdateSound ==
  ASSUME NEW s, Sound(s), NEW c \in Chunk
  PROVE  LET r == C_SignUpdate(s, c)
         IN  /\ Sound(r.s) /\ r.s.digest = s.digest /\ r.s.find = s.find
             /\ r.rv = "OK" => Active(s.sign) /\ r.s.sign.data = Append(s.sign.data, c)
             /\ r.rv # "OK" => r.s = s
<1> DEFINE t == [s EXCEPT !.sign.data = Append(@, c)]
<1>1. Append(s.sign.data, c) \in Seq(Chunk) BY DEF Sound, AnySession, AnyOperation
<1>2. /\ t \in AnySession
      /\ t.handles = s.handles /\ t.find = s.find /\ t.digest = s.digest /\ t.verify = s.verify
      /\ t.sign.mech = s.sign.mech /\ t.sign.key = s.sign.key
      /\ t.sign.data = Append(s.sign.data, c)
  BY <1>1 DEF Sound, AnySession, AnyOperation
<1> HIDE DEF t
<1>3. Sound(t) BY <1>2, OperationsChange DEF Sound, SoundOperation, Active
<1>4. CASE Active(s.sign)
  <2>1. C_SignUpdate(s, c).s = t /\ C_SignUpdate(s, c).rv = "OK"
    BY <1>4 DEF C_SignUpdate, Return, t
  <2> QED BY <1>2, <1>3, <1>4, <2>1
<1>5. CASE ~Active(s.sign) BY <1>5 DEF C_SignUpdate, Refuse, Return
<1> QED BY <1>4, <1>5

LEMMA DigestUpdateSound ==
  ASSUME NEW s, Sound(s), NEW c \in Chunk
  PROVE  LET r == C_DigestUpdate(s, c)
         IN  /\ Sound(r.s) /\ r.s.sign = s.sign /\ r.s.find = s.find
             /\ r.rv = "OK" => Active(s.digest) /\ r.s.digest.data = Append(s.digest.data, c)
             /\ r.rv # "OK" => r.s = s
<1> DEFINE t == [s EXCEPT !.digest.data = Append(@, c)]
<1>1. Append(s.digest.data, c) \in Seq(Chunk) BY DEF Sound, AnySession, AnyOperation
<1>2. /\ t \in AnySession
      /\ t.handles = s.handles /\ t.find = s.find /\ t.sign = s.sign /\ t.verify = s.verify
      /\ t.digest.key = s.digest.key
      /\ t.digest.data = Append(s.digest.data, c)
  BY <1>1 DEF Sound, AnySession, AnyOperation
<1> HIDE DEF t
<1>3. Sound(t) BY <1>2, OperationsChange DEF Sound
<1>4. CASE Active(s.digest)
  <2>1. C_DigestUpdate(s, c).s = t /\ C_DigestUpdate(s, c).rv = "OK"
    BY <1>4 DEF C_DigestUpdate, Return, t
  <2> QED BY <1>2, <1>3, <1>4, <2>1
<1>5. CASE ~Active(s.digest) BY <1>5 DEF C_DigestUpdate, Refuse, Return
<1> QED BY <1>4, <1>5

LEMMA DigestInitSound ==
  ASSUME NEW s, Sound(s), NEW mech \in Mechanism
  PROVE  LET r == C_DigestInit(s, mech)
         IN  /\ Sound(r.s) /\ r.s.sign = s.sign /\ r.s.find = s.find
             /\ r.rv = "OK" => r.s.digest.data = NoData
             /\ r.rv # "OK" => r.s = s
<1> DEFINE op == [mech |-> mech, key |-> 0, data |-> NoData]
           t == [s EXCEPT !.digest = op]
<1>1. op \in AnyOperation /\ op.key = 0 /\ op.data = NoData BY DEF AnyOperation, NoData
<1> HIDE DEF op
<1>2. Sound(t) BY <1>1, OperationsChange DEF Sound, AnySession
<1>3. t.sign = s.sign /\ t.find = s.find /\ t.digest = op BY DEF Sound, AnySession
<1> HIDE DEF t
<1>4. \/ C_DigestInit(s, mech).s = t /\ C_DigestInit(s, mech).rv = "OK"
      \/ C_DigestInit(s, mech).s = s /\ C_DigestInit(s, mech).rv # "OK"
  BY DEF C_DigestInit, Refuse, Return, t, op
<1> QED BY <1>1, <1>2, <1>3, <1>4

LEMMA AttributeSound ==
  ASSUME NEW s, NEW key, NEW attr, NEW a
  PROVE  C_GetAttributeValue(s, key, attr, a).s = s
BY DEF C_GetAttributeValue, Asked, Refuse, Return

(* More handles                                                            *)
Grown(s, t, more) ==
  /\ Sound(t) /\ Continues(s, t) /\ Extends(s, t)
  /\ Len(t.handles) = Len(s.handles) + Len(more)
  /\ \A i \in 1 .. Len(more) : t.handles[Len(s.handles) + i] = more[i]

LEMMA HandlesGrow ==
  ASSUME NEW s, Sound(s), NEW more \in Seq(Arn),
         NEW t, t = [s EXCEPT !.handles = @ \o more]
  PROVE  Grown(s, t, more)
<1>1. s.handles \in Seq(Arn) /\ s \in AnySession BY DEF Sound, AnySession
<1>2. /\ t \in AnySession
      /\ t.sign = s.sign /\ t.verify = s.verify /\ t.digest = s.digest /\ t.find = s.find
      /\ t.login = s.login /\ t.handles = s.handles \o more
  <2> DEFINE hs == s.handles \o more
  <2>1. hs \in Seq(Arn) BY <1>1, ConcatProperties
  <2>2. t = [s EXCEPT !.handles = hs] OBVIOUS
  <2> HIDE DEF hs
  <2>3. /\ t \in AnySession
        /\ t.sign = s.sign /\ t.verify = s.verify /\ t.digest = s.digest /\ t.find = s.find
        /\ t.login = s.login /\ t.handles = hs
    BY <1>1, <2>1, <2>2 DEF AnySession
  <2> QED BY <2>3 DEF hs
<1>3. /\ Len(t.handles) = Len(s.handles) + Len(more)
      /\ \A i \in 1 .. Len(s.handles) + Len(more) :
           t.handles[i] = IF i <= Len(s.handles) THEN s.handles[i] ELSE more[i - Len(s.handles)]
  BY <1>1, <1>2, ConcatProperties
<1>4. Len(s.handles) \in Nat /\ Len(more) \in Nat BY <1>1
<1>5. Sound(t)
  <2>1. \A op \in AnyOperation : SoundOperation(s, op) => SoundOperation(t, op)
    BY <1>3, <1>4 DEF SoundOperation, AnyOperation
  <2>2. SoundSearch(t, t.find)
    BY <1>1, <1>2, <1>3, <1>4 DEF Sound, SoundSearch, AnySession, AnySearch
  <2> QED BY <1>1, <1>2, <2>1, <2>2 DEF Sound, AnySession
<1>6. Continues(s, t) BY <1>2 DEF Continues
<1>7. Extends(s, t) BY <1>3, <1>4 DEF Extends
<1>8. \A i \in 1 .. Len(more) : t.handles[Len(s.handles) + i] = more[i]
  BY <1>3, <1>4
<1> QED BY <1>3, <1>5, <1>6, <1>7, <1>8 DEF Grown

LEMMA GenerateSound ==
  ASSUME NEW s, Sound(s), NEW mech \in Mechanism, NEW a, a.what = "pair" => a.by \in Arn
  PROVE  LET r == C_GenerateKeyPair(s, mech, a)
         IN  /\ Sound(r.s) /\ Continues(s, r.s) /\ Extends(s, r.s)
             /\ r.rv = "OK" => /\ r.out.private \in 1 .. Len(r.s.handles)
                               /\ r.s.handles[r.out.private] = a.by
                               /\ r.out.by = a.by
             /\ r.rv # "OK" => r.s = s
<1> DEFINE by == a.by
           t == [s EXCEPT !.handles = @ \o <<by, by>>]
<1>3. Len(s.handles) \in Nat BY DEF Sound, AnySession
<1>4. Continues(s, s) /\ Extends(s, s) BY DEF Continues, Extends
<1>5. CASE s.login /\ mech = "EC_KEY_PAIR_GEN" /\ a.what = "pair"
  <2>1. C_GenerateKeyPair(s, mech, a) =
          Return("OK", t, [what |-> "pair", private |-> Len(s.handles) + 1, by |-> by])
    BY <1>5 DEF C_GenerateKeyPair
  <2>2. PICK b \in Arn : b = by BY <1>5
  <2>3. <<b, b>> \in Seq(Arn) /\ Len(<<b, b>>) = 2 /\ <<b, b>>[1] = b OBVIOUS
  <2>4. PICK more \in Seq(Arn) : more = <<b, b>> BY <2>3
  <2>5. t = [s EXCEPT !.handles = @ \o more] BY <2>2, <2>4
  <2> HIDE DEF t, by
  <2>6. Grown(s, t, more) BY <2>5, HandlesGrow
  <2>7. /\ Sound(t) /\ Continues(s, t) /\ Extends(s, t)
        /\ Len(t.handles) = Len(s.handles) + 2
        /\ t.handles[Len(s.handles) + 1] = by
    BY <1>3, <2>2, <2>3, <2>4, <2>6 DEF Grown
  <2>8. /\ C_GenerateKeyPair(s, mech, a).s = t
        /\ C_GenerateKeyPair(s, mech, a).rv = "OK"
        /\ C_GenerateKeyPair(s, mech, a).out.private = Len(s.handles) + 1
        /\ C_GenerateKeyPair(s, mech, a).out.by = by
    BY <2>1 DEF Return
  <2>9. Len(s.handles) + 1 \in 1 .. Len(t.handles) BY <1>3, <2>7
  <2> QED BY <2>7, <2>8, <2>9 DEF by
<1>6. CASE ~(s.login /\ mech = "EC_KEY_PAIR_GEN" /\ a.what = "pair")
  <2>1. C_GenerateKeyPair(s, mech, a).s = s /\ C_GenerateKeyPair(s, mech, a).rv # "OK"
    BY <1>6 DEF C_GenerateKeyPair, Refuse, Return
  <2> QED BY <1>4, <2>1
<1> QED BY <1>5, <1>6

(* Every set of numbers that is not empty has a least one.                 *)
LEMMA LeastExists ==
  ASSUME NEW S, S \subseteq Nat, S # {}
  PROVE  \E h \in S : \A g \in S : h <= g
<1>1. \E h \in S : \A g \in S : ~(<<g, h>> \in OpToRel(<, Nat))
  BY WFMin, NatLessThanWellFounded
<1>2. PICK h \in S : \A g \in S : ~(<<g, h>> \in OpToRel(<, Nat)) BY <1>1
<1>3. ASSUME NEW g \in S PROVE h <= g
  <2>1. <<g, h>> \in Nat \X Nat OBVIOUS
  <2>2. ~(g < h) BY <1>2, <2>1 DEF OpToRel
  <2> QED BY <2>2
<1> QED BY <1>3

LEMMA RegisterSound ==
  ASSUME NEW s, Sound(s), NEW a \in Arn
  PROVE  LET r == register_key(s, a)
         IN  /\ Sound(r.s) /\ Continues(s, r.s) /\ Extends(s, r.s)
             /\ r.rv = "OK"
             /\ r.out.handle \in 1 .. Len(r.s.handles)
             /\ r.s.handles[r.out.handle] = a
             /\ r.s.login = s.login
             /\ r.s.sign = s.sign /\ r.s.verify = s.verify /\ r.s.digest = s.digest
<1> DEFINE known == {h \in Handles(s) : s.handles[h] = a}
           t == [s EXCEPT !.handles = Append(@, a)]
<1>1. s.handles \in Seq(Arn) /\ s \in AnySession BY DEF Sound, AnySession
<1>2. Handles(s) = 1 .. Len(s.handles) /\ Len(s.handles) \in Nat BY <1>1 DEF Handles
<1>3. Continues(s, s) /\ Extends(s, s) BY DEF Continues, Extends
<1>4. CASE known # {}
  <2>1. \E h \in known : \A g \in known : h <= g
    <3>1. known \subseteq Nat BY <1>2
    <3> HIDE DEF known
    <3> QED BY <1>4, <3>1, LeastExists
  <2>2. (CHOOSE h \in known : \A g \in known : h <= g) \in known BY <2>1
  <2> DEFINE least == CHOOSE h \in known : \A g \in known : h <= g
  <2>3. register_key(s, a) = Return("OK", s, [what |-> "handle", handle |-> least])
    BY <1>4 DEF register_key
  <2> HIDE DEF least
  <2>4. least \in 1 .. Len(s.handles) /\ s.handles[least] = a BY <1>2, <2>2 DEF least
  <2> QED BY <1>3, <2>3, <2>4 DEF Return
<1>5. CASE known = {}
  <2>1. register_key(s, a) =
          Return("OK", t, [what |-> "handle", handle |-> Len(s.handles) + 1])
    BY <1>5 DEF register_key
  <2>2. Append(s.handles, a) = s.handles \o <<a>> BY <1>1, AppendIsConcat
  <2>3. t = [s EXCEPT !.handles = @ \o <<a>>] BY <1>1, <2>2 DEF AnySession
  <2>4. <<a>> \in Seq(Arn) /\ Len(<<a>>) = 1 /\ <<a>>[1] = a OBVIOUS
  <2>5. t.login = s.login /\ t.sign = s.sign /\ t.verify = s.verify /\ t.digest = s.digest
    BY <1>1 DEF AnySession
  <2> HIDE DEF t
  <2>6. PICK more \in Seq(Arn) : more = <<a>> BY <2>4
  <2>7. Grown(s, t, more) BY <2>3, <2>6, HandlesGrow
  <2>8. /\ Sound(t) /\ Continues(s, t) /\ Extends(s, t)
        /\ Len(t.handles) = Len(s.handles) + 1 /\ t.handles[Len(s.handles) + 1] = a
    BY <1>2, <2>4, <2>6, <2>7 DEF Grown
  <2>9. Len(s.handles) + 1 \in 1 .. Len(t.handles) BY <1>2, <2>8
  <2> HIDE DEF known
  <2>10. /\ register_key(s, a).s = t /\ register_key(s, a).rv = "OK"
         /\ register_key(s, a).out.handle = Len(s.handles) + 1
    BY <2>1 DEF Return
  <2> QED BY <2>5, <2>8, <2>9, <2>10
<1> QED BY <1>4, <1>5

(* What is sound stays so when a new search begins.                        *)
LEMMA SearchChange ==
  ASSUME NEW s, Sound(s), NEW f \in AnySearch, SoundSearch(s, f),
         NEW t, t = [s EXCEPT !.find = f]
  PROVE  /\ Sound(t) /\ Extends(s, t) /\ t.find = f /\ t.handles = s.handles
         /\ t.sign = s.sign /\ t.digest = s.digest /\ t.verify = s.verify /\ t.login = s.login
<1>1. /\ t \in AnySession /\ t.handles = s.handles /\ t.find = f
      /\ t.sign = s.sign /\ t.digest = s.digest /\ t.verify = s.verify /\ t.login = s.login
  BY DEF Sound, AnySession
<1>2. SoundSearch(t, t.find) BY <1>1 DEF SoundSearch
<1>3. Sound(t) BY <1>1, <1>2 DEF Sound, SoundOperation
<1>4. Extends(s, t) BY <1>1 DEF Extends, Sound, AnySession
<1> QED BY <1>1, <1>3, <1>4

LEMMA FindInitSound ==
  ASSUME NEW s, Sound(s), NEW listed \in Seq(Arn), NEW ok \in BOOLEAN
  PROVE  LET r == C_FindObjectsInit(s, listed, ok)
         IN  /\ Sound(r.s) /\ r.s.sign = s.sign /\ r.s.digest = s.digest
             /\ s.find.on => r.s = s
             /\ ~s.find.on => r.s.find.index = 0
<1> DEFINE fresh == [i \in 1 .. Len(listed) |-> Len(s.handles) + i]
           f == [on |-> TRUE, index |-> 0, results |-> fresh]
           e == [on |-> TRUE, results |-> << >>, index |-> 0]
           t == [s EXCEPT !.handles = @ \o listed]
           u == [t EXCEPT !.find = f]
           v == [s EXCEPT !.find = e]
<1>0. s \in AnySession /\ Len(s.handles) \in Nat /\ Len(listed) \in Nat BY DEF Sound, AnySession
<1>1. fresh \in Seq(Nat) /\ Len(fresh) = Len(listed)
      /\ \A i \in 1 .. Len(listed) : fresh[i] = Len(s.handles) + i
  BY <1>0
<1> HIDE DEF fresh
<1>2. /\ f \in AnySearch /\ f.on /\ f.index = 0 /\ f.results = fresh
      /\ e \in AnySearch /\ e.on /\ e.index = 0 /\ Len(e.results) = 0
  BY <1>1 DEF AnySearch
<1>3. /\ Sound(t) /\ Len(t.handles) = Len(s.handles) + Len(listed)
      /\ t.sign = s.sign /\ t.digest = s.digest
  <2>1. t = [s EXCEPT !.handles = @ \o listed] OBVIOUS
  <2>2. t.sign = s.sign /\ t.digest = s.digest BY <1>0 DEF AnySession
  <2> HIDE DEF t
  <2>3. Grown(s, t, listed) BY <2>1, HandlesGrow
  <2> QED BY <2>2, <2>3 DEF Grown
<1> HIDE DEF f, e, t
<1>4. Sound(u) /\ u.sign = s.sign /\ u.digest = s.digest /\ u.find.index = 0
  <2>1. \A i \in 1 .. Len(f.results) : f.results[i] \in 1 .. Len(t.handles)
    BY <1>0, <1>1, <1>2, <1>3
  <2>2. \A i, j \in 1 .. Len(f.results) : f.results[i] = f.results[j] => i = j
    BY <1>0, <1>1, <1>2
  <2>3. Len(f.results) <= Len(t.handles) /\ f.index <= Len(f.results)
    BY <1>0, <1>1, <1>2, <1>3
  <2>4. SoundSearch(t, f) BY <2>1, <2>2, <2>3 DEF SoundSearch
  <2> QED BY <1>2, <1>3, <2>4, SearchChange
<1>5. Sound(v) /\ v.sign = s.sign /\ v.digest = s.digest /\ v.find.index = 0
  <2>1. SoundSearch(s, e) BY <1>0, <1>2 DEF SoundSearch
  <2> QED BY <1>2, <2>1, SearchChange
<1>6. CASE s.find.on
  BY <1>6 DEF C_FindObjectsInit, Refuse, Return
<1>7. CASE ~s.find.on /\ ~ok
  BY <1>5, <1>7 DEF C_FindObjectsInit, Refuse, Return, e
<1>8. CASE ~s.find.on /\ ok
  <2>1. C_FindObjectsInit(s, listed, ok).s =
          [s EXCEPT !.handles = @ \o listed, !.find = f]
    BY <1>8 DEF C_FindObjectsInit, Return, f, fresh
  <2>2. [s EXCEPT !.handles = @ \o listed, !.find = f] = u BY DEF t
  <2> QED BY <1>4, <1>8, <2>1, <2>2
<1> QED BY <1>6, <1>7, <1>8

LEMMA FindSound ==
  ASSUME NEW s, Sound(s), NEW count \in Nat
  PROVE  LET r == C_FindObjects(s, count)
         IN  /\ Sound(r.s) /\ r.s.sign = s.sign /\ r.s.digest = s.digest
             /\ r.rv = "OK" =>
                  /\ SubSeq(r.s.find.results, 1, r.s.find.index)
                    = SubSeq(s.find.results, 1, s.find.index) \o r.out.handles
                  /\ r.out.handles \in Seq(Nat) /\ s.find.on
             /\ r.rv # "OK" => r.s = s
<1> DEFINE last == Upto(s.find.index + count, Len(s.find.results))
           f == [s.find EXCEPT !.index = last]
           t == [s EXCEPT !.find.index = last]
<1>1. /\ s \in AnySession /\ s.find \in AnySearch
      /\ s.find.results \in Seq(Nat) /\ Len(s.find.results) \in Nat
      /\ s.find.index \in Nat /\ s.find.index <= Len(s.find.results)
  BY DEF Sound, SoundSearch, AnySession, AnySearch
<1>2. last \in s.find.index .. Len(s.find.results) BY <1>1 DEF Upto
<1> HIDE DEF last
<1>3. f \in AnySearch /\ f.results = s.find.results /\ f.index = last
  BY <1>1, <1>2 DEF AnySearch
<1>4. t = [s EXCEPT !.find = f] BY <1>1
<1> HIDE DEF f, t
<1>5. Sound(t) /\ t.sign = s.sign /\ t.digest = s.digest /\ t.find = f
  <2>1. /\ \A i \in 1 .. Len(f.results) : f.results[i] \in 1 .. Len(s.handles)
        /\ \A i, j \in 1 .. Len(f.results) : f.results[i] = f.results[j] => i = j
        /\ Len(f.results) <= Len(s.handles)
        /\ f.index <= Len(f.results)
    BY <1>1, <1>2, <1>3 DEF Sound, SoundSearch
  <2>2. SoundSearch(s, f) BY <2>1 DEF SoundSearch
  <2> QED BY <1>3, <1>4, <2>2, SearchChange
<1>6. SubSeq(s.find.results, 1, last)
        = SubSeq(s.find.results, 1, s.find.index) \o SubSeq(s.find.results, s.find.index + 1, last)
  <2>1. 1 \in 1 .. Len(s.find.results) + 1 /\ s.find.index \in 1 - 1 .. Len(s.find.results)
    BY <1>1
  <2> QED BY <1>1, <1>2, <2>1, ConcatAdjacentSubSeq
<1>6a. SubSeq(s.find.results, s.find.index + 1, last) \in Seq(Nat)
  <2>1. \A i \in s.find.index + 1 .. last : s.find.results[i] \in Nat BY <1>1, <1>2
  <2>2. s.find.index + 1 \in Int /\ last \in Int BY <1>1, <1>2
  <2> QED BY <2>1, <2>2, SubSeqProperties
<1>7. CASE ~s.find.on
  <2>1. C_FindObjects(s, count).s = s /\ C_FindObjects(s, count).rv # "OK"
    BY <1>7 DEF C_FindObjects, Refuse, Return
  <2> QED BY <2>1
<1>8. CASE s.find.on
  <2>1. /\ C_FindObjects(s, count).s = t /\ C_FindObjects(s, count).rv = "OK"
        /\ C_FindObjects(s, count).out.handles = SubSeq(s.find.results, s.find.index + 1, last)
    BY <1>8 DEF C_FindObjects, Return, t, last
  <2> QED BY <1>3, <1>5, <1>6, <1>6a, <1>8, <2>1
<1> QED BY <1>7, <1>8

LEMMA FindFinalSound ==
  ASSUME NEW s, Sound(s)
  PROVE  LET r == C_FindObjectsFinal(s)
         IN  Sound(r.s) /\ r.s.sign = s.sign /\ r.s.digest = s.digest /\ ~r.s.find.on
<1>1. NoSearch \in AnySearch /\ NoSearch.index = 0 /\ Len(NoSearch.results) = 0 /\ ~NoSearch.on
  BY DEF NoSearch, AnySearch
<1>2. Len(s.handles) \in Nat BY DEF Sound, AnySession
<1>3. SoundSearch(s, NoSearch) BY <1>1, <1>2 DEF SoundSearch
<1> QED BY <1>1, <1>3, SearchChange DEF C_FindObjectsFinal, Return

-----------------------------------------------------------------------------
(* The invariant                                                           *)

Given == [sign : Seq(Chunk), digest : Seq(Chunk)]

WellTyped ==
  /\ user \in {"application", "BrokerHSM"}
  /\ lib \in BOOLEAN
  /\ next \in 1 .. MaxSession + 1
  /\ DOMAIN sess \subseteq 1 .. next - 1
  /\ lib \/ DOMAIN sess = {}
  /\ sess \in [DOMAIN sess -> AnySession]
  /\ \A h \in DOMAIN sess : Sound(sess[h]) /\ Len(sess[h].handles) <= MaxKey
  /\ hsm \in [on : BOOLEAN, session : 0 .. MaxSession, keys : [Arn -> 0 .. MaxKey]]
  /\ late \in Seq(Result) /\ Len(late) <= MaxLate
  /\ given \in [Handle -> Given]
  /\ found \in [Handle -> Seq(Nat)]

(* The history tells what operations and searches have in progress.        *)
TrackedSession(s, g, f) ==
  /\ Active(s.sign) => s.sign.data = g.sign
  /\ Active(s.digest) => s.digest.data = g.digest
  /\ s.find.on => f = SubSeq(s.find.results, 1, s.find.index)

Tracked == \A h \in DOMAIN sess : TrackedSession(sess[h], given[h], found[h])

(* A client that is not connected has forgotten everything.                *)
Forgets ==
  /\ ~hsm.on => hsm = Off
  /\ user = "application" => ~hsm.on

IInv == WellTyped /\ Tracked /\ Forgets /\ ClientReady

LEMMA InitHolds == Init => IInv
<1> SUFFICES ASSUME Init PROVE IInv OBVIOUS
<1> USE LibraryAssumption DEF Init
<1>1. DOMAIN sess = {} /\ sess \in [DOMAIN sess -> AnySession] OBVIOUS
<1>2. WellTyped
  <2>1. hsm \in [on : BOOLEAN, session : 0 .. MaxSession, keys : [Arn -> 0 .. MaxKey]]
    BY DEF Off, NoKeys
  <2>2. NoneGiven \in Given BY DEF NoneGiven, Given, NoData
  <2>3. given \in [Handle -> Given] /\ found \in [Handle -> Seq(Nat)] BY <2>2
  <2>4. next \in 1 .. MaxSession + 1
    <3>1. 1 \in 1 .. MaxSession + 1 BY LibraryAssumption
    <3> QED BY <3>1
  <2>5. lib \in BOOLEAN OBVIOUS
  <2>6. late \in Seq(Result) /\ Len(late) <= MaxLate OBVIOUS
  <2> QED BY <1>1, <2>1, <2>3, <2>4, <2>5, <2>6 DEF WellTyped
<1>3. Tracked BY <1>1 DEF Tracked
<1>4. Forgets /\ ClientReady BY DEF Forgets, ClientReady, Off
<1> QED BY <1>2, <1>3, <1>4 DEF IInv

-----------------------------------------------------------------------------
(* The application's steps                                                 *)

App == user = "application" /\ UNCHANGED <<user, hsm, late, reply>>

(* A session becomes t; the history follows.                               *)
LEMMA SessionBecomes ==
  ASSUME IInv, App, NEW h \in DOMAIN sess, NEW t, Sound(t), Len(t.handles) <= MaxKey,
         sess' = [sess EXCEPT ![h] = t], UNCHANGED <<lib, next>>,
         NEW g \in Given, given' = [given EXCEPT ![h] = g],
         NEW f \in Seq(Nat), found' = [found EXCEPT ![h] = f],
         TrackedSession(t, g, f)
  PROVE  IInv'
<1>1. h \in Handle /\ DOMAIN sess' = DOMAIN sess
  BY LibraryAssumption DEF IInv, WellTyped, Handle
<1>2. /\ sess'[h] = t /\ given'[h] = g /\ found'[h] = f
      /\ \A k \in DOMAIN sess : k # h =>
           sess'[k] = sess[k] /\ given'[k] = given[k] /\ found'[k] = found[k]
  BY <1>1 DEF IInv, WellTyped
<1>3. WellTyped'
  <2>1. sess' \in [DOMAIN sess' -> AnySession] BY <1>1 DEF IInv, WellTyped, Sound
  <2>2. \A k \in DOMAIN sess' : Sound(sess'[k]) /\ Len(sess'[k].handles) <= MaxKey
    BY <1>1, <1>2 DEF IInv, WellTyped
  <2>3. given' \in [Handle -> Given] /\ found' \in [Handle -> Seq(Nat)]
    BY DEF IInv, WellTyped
  <2> QED BY <1>1, <2>1, <2>2, <2>3 DEF IInv, WellTyped, App
<1>4. Tracked' BY <1>1, <1>2 DEF IInv, Tracked
<1>5. Forgets' /\ ClientReady' BY DEF IInv, App, Forgets, ClientReady
<1> QED BY <1>3, <1>4, <1>5 DEF IInv

LEMMA CallStep ==
  ASSUME IInv, App, NEW h \in DOMAIN sess, NEW r, Sound(r.s), Continues(sess[h], r.s), Call(h, r)
  PROVE  IInv'
<1>1. h \in Handle /\ given[h] \in Given /\ found[h] \in Seq(Nat)
  BY LibraryAssumption DEF IInv, WellTyped, Handle
<1>2. given' = [given EXCEPT ![h] = given[h]] /\ found' = [found EXCEPT ![h] = found[h]]
  BY <1>1 DEF Call, history, IInv, WellTyped
<1>3. TrackedSession(sess[h], given[h], found[h]) BY DEF IInv, Tracked
<1>4. TrackedSession(r.s, given[h], found[h])
  BY <1>3 DEF TrackedSession, Continues, Active
<1>5. Len(r.s.handles) <= MaxKey /\ sess' = [sess EXCEPT ![h] = r.s] /\ UNCHANGED <<lib, next>>
  BY DEF Call, Becomes
<1> QED BY <1>1, <1>2, <1>4, <1>5, SessionBecomes

(* Give, for a call that began or continued an operation                   *)
LEMMA SignGiveStep ==
  ASSUME IInv, App, NEW h \in DOMAIN sess, NEW r, Sound(r.s), NEW chunks \in Seq(Chunk),
         Give(h, r, "sign", chunks),
         r.s.digest = sess[h].digest, r.s.find = sess[h].find,
         r.rv = "OK" => r.s.sign.data = chunks, r.rv # "OK" => r.s = sess[h]
  PROVE  IInv'
<1>1. h \in Handle /\ given[h] \in Given /\ found[h] \in Seq(Nat)
  BY LibraryAssumption DEF IInv, WellTyped, Handle
<1>2. TrackedSession(sess[h], given[h], found[h]) BY DEF IInv, Tracked
<1>3. /\ Len(r.s.handles) <= MaxKey /\ sess' = [sess EXCEPT ![h] = r.s] /\ UNCHANGED <<lib, next>>
      /\ found' = [found EXCEPT ![h] = found[h]]
  BY DEF Give, Becomes, IInv, WellTyped
<1>4. CASE r.rv = "OK"
  <2> DEFINE g == [given[h] EXCEPT !.sign = chunks]
  <2>1. g \in Given /\ g.sign = chunks /\ g.digest = given[h].digest BY <1>1 DEF Given
  <2>2. given' = [given EXCEPT ![h] = g] BY <1>4 DEF Give
  <2> HIDE DEF g
  <2>3. TrackedSession(r.s, g, found[h]) BY <1>2, <1>4, <2>1 DEF TrackedSession
  <2> QED BY <1>1, <1>3, <2>1, <2>2, <2>3, SessionBecomes
<1>5. CASE r.rv # "OK"
  <2>1. given' = [given EXCEPT ![h] = given[h]] BY <1>5 DEF Give, IInv, WellTyped
  <2>2. TrackedSession(r.s, given[h], found[h]) BY <1>2, <1>5
  <2> QED BY <1>1, <1>3, <2>1, <2>2, SessionBecomes
<1> QED BY <1>4, <1>5

LEMMA DigestGiveStep ==
  ASSUME IInv, App, NEW h \in DOMAIN sess, NEW r, Sound(r.s), NEW chunks \in Seq(Chunk),
         Give(h, r, "digest", chunks),
         r.s.sign = sess[h].sign, r.s.find = sess[h].find,
         r.rv = "OK" => r.s.digest.data = chunks, r.rv # "OK" => r.s = sess[h]
  PROVE  IInv'
<1>1. h \in Handle /\ given[h] \in Given /\ found[h] \in Seq(Nat)
  BY LibraryAssumption DEF IInv, WellTyped, Handle
<1>2. TrackedSession(sess[h], given[h], found[h]) BY DEF IInv, Tracked
<1>3. /\ Len(r.s.handles) <= MaxKey /\ sess' = [sess EXCEPT ![h] = r.s] /\ UNCHANGED <<lib, next>>
      /\ found' = [found EXCEPT ![h] = found[h]]
  BY DEF Give, Becomes, IInv, WellTyped
<1>4. CASE r.rv = "OK"
  <2> DEFINE g == [given[h] EXCEPT !.digest = chunks]
  <2>1. g \in Given /\ g.digest = chunks /\ g.sign = given[h].sign BY <1>1 DEF Given
  <2>2. given' = [given EXCEPT ![h] = g] BY <1>4 DEF Give
  <2> HIDE DEF g
  <2>3. TrackedSession(r.s, g, found[h]) BY <1>2, <1>4, <2>1 DEF TrackedSession
  <2> QED BY <1>1, <1>3, <2>1, <2>2, <2>3, SessionBecomes
<1>5. CASE r.rv # "OK"
  <2>1. given' = [given EXCEPT ![h] = given[h]] BY <1>5 DEF Give, IInv, WellTyped
  <2>2. TrackedSession(r.s, given[h], found[h]) BY <1>2, <1>5
  <2> QED BY <1>1, <1>3, <2>1, <2>2, SessionBecomes
<1> QED BY <1>4, <1>5

(* Find, for a call on the search                                          *)
LEMMA FindStep ==
  ASSUME IInv, App, NEW h \in DOMAIN sess, NEW r, Sound(r.s), NEW handles \in Seq(Nat),
         Find(h, r, handles),
         r.s.sign = sess[h].sign, r.s.digest = sess[h].digest,
         r.s.find.on => handles = SubSeq(r.s.find.results, 1, r.s.find.index)
  PROVE  IInv'
<1>1. h \in Handle /\ given[h] \in Given BY LibraryAssumption DEF IInv, WellTyped, Handle
<1>2. /\ Len(r.s.handles) <= MaxKey /\ sess' = [sess EXCEPT ![h] = r.s] /\ UNCHANGED <<lib, next>>
      /\ found' = [found EXCEPT ![h] = handles] /\ given' = [given EXCEPT ![h] = given[h]]
  BY DEF Find, Becomes, IInv, WellTyped
<1>3. TrackedSession(r.s, given[h], handles) BY DEF IInv, Tracked, TrackedSession
<1> QED BY <1>1, <1>2, <1>3, SessionBecomes

LEMMA SignCallsStep ==
  ASSUME IInv, App, NEW h \in DOMAIN sess, SignCalls(h)
  PROVE  IInv'
<1>0. Sound(sess[h]) /\ h \in Handle /\ given[h] \in Given
  BY LibraryAssumption DEF IInv, WellTyped, Handle
<1>1. ASSUME NEW mech \in Mechanism, NEW key \in 0 .. MaxKey,
             Give(h, C_SignInit(sess[h], mech, key), "sign", NoData)
      PROVE  IInv'
  <2>1. NoData \in Seq(Chunk) BY DEF NoData
  <2>2. key \in Nat OBVIOUS
  <2> QED BY <1>0, <1>1, <2>1, <2>2, InitCalls, SignGiveStep
<1>2. ASSUME NEW c \in Chunk,
             Give(h, C_SignUpdate(sess[h], c), "sign", Append(given[h].sign, c))
      PROVE  IInv'
  <2> DEFINE r == C_SignUpdate(sess[h], c)
  <2>1. Append(given[h].sign, c) \in Seq(Chunk) BY <1>0 DEF Given
  <2>2. /\ Sound(r.s) /\ r.s.digest = sess[h].digest /\ r.s.find = sess[h].find
        /\ r.rv = "OK" => Active(sess[h].sign) /\ r.s.sign.data = Append(sess[h].sign.data, c)
        /\ r.rv # "OK" => r.s = sess[h]
    BY <1>0, SignUpdateSound
  <2>3. Active(sess[h].sign) => sess[h].sign.data = given[h].sign
    BY DEF IInv, Tracked, TrackedSession
  <2>4. Give(h, r, "sign", Append(given[h].sign, c)) BY <1>2
  <2> HIDE DEF r
  <2> QED BY <2>1, <2>2, <2>3, <2>4, SignGiveStep
<1>3. ASSUME NEW a \in Response, Call(h, C_SignFinal(sess[h], a)) PROVE IInv'
  BY <1>0, <1>3, SignSound, CallStep DEF C_SignFinal
<1>4. ASSUME NEW a \in Response, Call(h, C_Sign(sess[h], a)) PROVE IInv'
  BY <1>0, <1>4, SignSound, CallStep
<1> QED BY <1>1, <1>2, <1>3, <1>4 DEF SignCalls

LEMMA DigestCallsStep ==
  ASSUME IInv, App, NEW h \in DOMAIN sess, DigestCalls(h)
  PROVE  IInv'
<1>0. Sound(sess[h]) /\ h \in Handle /\ given[h] \in Given
  BY LibraryAssumption DEF IInv, WellTyped, Handle
<1>1. ASSUME NEW mech \in Mechanism, Give(h, C_DigestInit(sess[h], mech), "digest", NoData)
      PROVE  IInv'
  <2>1. NoData \in Seq(Chunk) BY DEF NoData
  <2> QED BY <1>0, <1>1, <2>1, DigestInitSound, DigestGiveStep
<1>2. ASSUME NEW c \in Chunk,
             Give(h, C_DigestUpdate(sess[h], c), "digest", Append(given[h].digest, c))
      PROVE  IInv'
  <2> DEFINE r == C_DigestUpdate(sess[h], c)
  <2>1. Append(given[h].digest, c) \in Seq(Chunk) BY <1>0 DEF Given
  <2>2. /\ Sound(r.s) /\ r.s.sign = sess[h].sign /\ r.s.find = sess[h].find
        /\ r.rv = "OK" => Active(sess[h].digest) /\ r.s.digest.data = Append(sess[h].digest.data, c)
        /\ r.rv # "OK" => r.s = sess[h]
    BY <1>0, DigestUpdateSound
  <2>3. Active(sess[h].digest) => sess[h].digest.data = given[h].digest
    BY DEF IInv, Tracked, TrackedSession
  <2>4. Give(h, r, "digest", Append(given[h].digest, c)) BY <1>2
  <2> HIDE DEF r
  <2> QED BY <2>1, <2>2, <2>3, <2>4, DigestGiveStep
<1>3. ASSUME NEW a \in Response, Call(h, C_DigestFinal(sess[h], a)) PROVE IInv'
  BY <1>0, <1>3, DigestSound, CallStep DEF C_DigestFinal
<1>4. ASSUME NEW a \in Response, Call(h, C_Digest(sess[h], a)) PROVE IInv'
  BY <1>0, <1>4, DigestSound, CallStep
<1> QED BY <1>1, <1>2, <1>3, <1>4 DEF DigestCalls

LEMMA VerifyCallsStep ==
  ASSUME IInv, App, NEW h \in DOMAIN sess, VerifyCalls(h)
  PROVE  IInv'
<1>0. Sound(sess[h]) BY DEF IInv, WellTyped
<1>1. ASSUME NEW mech \in Mechanism, NEW key \in 0 .. MaxKey,
             Call(h, C_VerifyInit(sess[h], mech, key))
      PROVE  IInv'
  <2>1. key \in Nat OBVIOUS
  <2> QED BY <1>0, <1>1, <2>1, InitCalls, CallStep
<1>2. ASSUME NEW a \in Response, Call(h, C_Verify(sess[h], a)) PROVE IInv'
  BY <1>0, <1>2, VerifySound, CallStep
<1> QED BY <1>1, <1>2 DEF VerifyCalls

LEMMA LoginStep ==
  ASSUME IInv, App, NEW h \in DOMAIN sess, Login(h)
  PROVE  IInv'
<1>0. Sound(sess[h]) BY DEF IInv, WellTyped
<1>1. PICK ok \in BOOLEAN : Call(h, C_Login(sess[h], ok)) \/ Call(h, C_Logout(sess[h], ok))
  BY DEF Login
<1>2. CASE Call(h, C_Login(sess[h], ok)) BY <1>0, <1>2, LoginCalls, CallStep
<1>3. CASE Call(h, C_Logout(sess[h], ok)) BY <1>0, <1>3, LoginCalls, CallStep
<1> QED BY <1>1, <1>2, <1>3

LEMMA ObjectCallsStep ==
  ASSUME IInv, App, NEW h \in DOMAIN sess, ObjectCalls(h)
  PROVE  IInv'
<1>0. Sound(sess[h]) /\ h \in Handle /\ found[h] \in Seq(Nat)
  BY LibraryAssumption DEF IInv, WellTyped, Handle
<1>00. sess[h].find.on => found[h] = SubSeq(sess[h].find.results, 1, sess[h].find.index)
  BY DEF IInv, Tracked, TrackedSession
<1>1. ASSUME NEW key \in 0 .. MaxKey, NEW attr \in {"LABEL", "EC_POINT"}, NEW a \in Response,
             Call(h, C_GetAttributeValue(sess[h], key, attr, a))
      PROVE  IInv'
  <2>1. C_GetAttributeValue(sess[h], key, attr, a).s = sess[h] BY AttributeSound
  <2>2. Continues(sess[h], sess[h]) BY DEF Continues
  <2> QED BY <1>0, <1>1, <2>1, <2>2, CallStep
<1>2. ASSUME NEW listed \in {<<a>> : a \in Arn} \cup {<< >>} \cup (Arn \X Arn), NEW ok \in BOOLEAN,
             Find(h, C_FindObjectsInit(sess[h], listed, ok),
                  IF sess[h].find.on THEN found[h] ELSE << >>)
      PROVE  IInv'
  <2> DEFINE r == C_FindObjectsInit(sess[h], listed, ok)
             hs == IF sess[h].find.on THEN found[h] ELSE << >>
  <2>1. listed \in Seq(Arn)
    <3>1. CASE listed \in {<<a>> : a \in Arn} BY <3>1
    <3>2. CASE listed = << >> BY <3>2
    <3>3. CASE listed \in Arn \X Arn
      <4>1. PICK a \in Arn, b \in Arn : listed = <<a, b>> BY <3>3
      <4>2. <<a, b>> \in Seq(Arn) OBVIOUS
      <4> QED BY <4>1, <4>2
    <3> QED BY <3>1, <3>2, <3>3
  <2>2. /\ Sound(r.s) /\ r.s.sign = sess[h].sign /\ r.s.digest = sess[h].digest
        /\ sess[h].find.on => r.s = sess[h]
        /\ ~sess[h].find.on => r.s.find.index = 0
    BY <1>0, <2>1, FindInitSound
  <2>3. Find(h, r, hs) BY <1>2
  <2>4. hs \in Seq(Nat) BY <1>0
  <2> HIDE DEF r
  <2>5. SubSeq(r.s.find.results, 1, 0) = << >> BY SubSeqEmpty
  <2>6. hs = SubSeq(r.s.find.results, 1, r.s.find.index) \/ ~r.s.find.on
    BY <1>00, <2>2, <2>5
  <2> HIDE DEF hs
  <2> QED BY <2>2, <2>3, <2>4, <2>6, FindStep
<1>3. ASSUME NEW count \in 0 .. 2,
             Find(h, C_FindObjects(sess[h], count),
                  IF C_FindObjects(sess[h], count).rv = "OK"
                    THEN found[h] \o C_FindObjects(sess[h], count).out.handles ELSE found[h])
      PROVE  IInv'
  <2> DEFINE r == C_FindObjects(sess[h], count)
             hs == IF r.rv = "OK" THEN found[h] \o r.out.handles ELSE found[h]
  <2>1. /\ Sound(r.s) /\ r.s.sign = sess[h].sign /\ r.s.digest = sess[h].digest
        /\ r.rv = "OK" =>
             /\ SubSeq(r.s.find.results, 1, r.s.find.index)
                  = SubSeq(sess[h].find.results, 1, sess[h].find.index) \o r.out.handles
             /\ r.out.handles \in Seq(Nat) /\ sess[h].find.on
        /\ r.rv # "OK" => r.s = sess[h]
    <3>1. count \in Nat OBVIOUS
    <3> QED BY <1>0, <3>1, FindSound
  <2>2. Find(h, r, hs) BY <1>3
  <2> HIDE DEF r
  <2>3. hs \in Seq(Nat) BY <1>0, <2>1, ConcatProperties
  <2>4. r.s.find.on => hs = SubSeq(r.s.find.results, 1, r.s.find.index) BY <1>00, <2>1
  <2> HIDE DEF hs
  <2> QED BY <2>1, <2>2, <2>3, <2>4, FindStep
<1>4. ASSUME Find(h, C_FindObjectsFinal(sess[h]), << >>) PROVE IInv'
  <2>1. << >> \in Seq(Nat) OBVIOUS
  <2> QED BY <1>0, <1>4, <2>1, FindFinalSound, FindStep
<1>5. ASSUME NEW mech \in Mechanism, NEW a \in Response,
             Call(h, C_GenerateKeyPair(sess[h], mech, a))
      PROVE  IInv'
  <2>1. a.what = "pair" => a.by \in Arn BY DEF Response
  <2> QED BY <1>0, <1>5, <2>1, GenerateSound, CallStep
<1>6. ASSUME NEW a \in Arn, Call(h, register_key(sess[h], a)) PROVE IInv'
  BY <1>0, <1>6, RegisterSound, CallStep
<1> QED BY <1>1, <1>2, <1>3, <1>4, <1>5, <1>6 DEF ObjectCalls

(* Sessions come and go.                                                   *)
LEMMA SessionsStep ==
  ASSUME IInv, App,
         \/ C_Initialize \/ C_Finalize \/ C_OpenSession \/ C_CloseAllSessions
         \/ \E h \in Handle : C_CloseSession(h)
  PROVE  IInv'
<1>0. WellTyped /\ Tracked /\ Forgets BY DEF IInv
<1>1. Forgets' /\ ClientReady' BY <1>0 DEF App, Forgets, ClientReady
<1>2. UNCHANGED history
  BY DEF C_Initialize, C_Finalize, C_OpenSession, C_CloseAllSessions, C_CloseSession, CloseThese,
         history
<1>3. ASSUME DOMAIN sess' = {}, sess' \in [{} -> AnySession],
             lib' \in BOOLEAN, next' \in 1 .. MaxSession + 1
      PROVE  IInv'
  <2>1. WellTyped' BY <1>0, <1>2, <1>3 DEF WellTyped, App, history
  <2>2. Tracked' BY <1>3 DEF Tracked
  <2> QED BY <1>1, <2>1, <2>2 DEF IInv
<1>4. ASSUME NEW hs, CloseThese(hs) PROVE IInv'
  <2>1. /\ DOMAIN sess' = DOMAIN sess \ hs
        /\ \A k \in DOMAIN sess' : sess'[k] = sess[k]
        /\ sess' \in [DOMAIN sess' -> AnySession]
    BY <1>0, <1>4 DEF CloseThese, WellTyped
  <2>2. UNCHANGED <<lib, next>> BY <1>4 DEF CloseThese
  <2>3. WellTyped' BY <1>0, <1>2, <2>1, <2>2 DEF WellTyped, App, history
  <2>4. Tracked' BY <1>0, <1>2, <2>1 DEF Tracked, history
  <2> QED BY <1>1, <2>3, <2>4 DEF IInv
<1>5. CASE C_Initialize
  <2>1. DOMAIN sess' = {} /\ sess' \in [{} -> AnySession] BY <1>5 DEF C_Initialize
  <2>2. 1 \in 1 .. MaxSession + 1 BY LibraryAssumption
  <2> QED BY <1>3, <1>5, <2>1, <2>2 DEF C_Initialize
<1>6. CASE C_Finalize
  <2>1. DOMAIN sess' = {} /\ sess' \in [{} -> AnySession] BY <1>6 DEF C_Finalize
  <2> QED BY <1>0, <1>3, <1>6, <2>1 DEF C_Finalize, WellTyped
<1>7. CASE C_OpenSession
  <2>1. /\ DOMAIN sess' = DOMAIN sess \cup {next}
        /\ sess'[next] = NewSession
        /\ \A k \in DOMAIN sess : k # next => sess'[k] = sess[k]
        /\ sess' \in [DOMAIN sess' -> AnySession]
    BY <1>0, <1>7, NewIsSound DEF C_OpenSession, WellTyped, Sound
  <2>2. next \in 1 .. MaxSession /\ next' = next + 1 /\ lib' = TRUE
    BY <1>7, <1>0 DEF C_OpenSession, Handle, WellTyped
  <2>3. next' \in 1 .. MaxSession + 1 /\ DOMAIN sess' \subseteq 1 .. next' - 1
    BY <1>0, <2>1, <2>2, LibraryAssumption DEF WellTyped
  <2>4. \A k \in DOMAIN sess' : Sound(sess'[k]) /\ Len(sess'[k].handles) <= MaxKey
    BY <1>0, <2>1, NewIsSound, LibraryAssumption DEF WellTyped
  <2>5. WellTyped' BY <1>0, <1>2, <2>1, <2>2, <2>3, <2>4 DEF WellTyped, App, history
  <2>6. TrackedSession(NewSession, given[next], found[next])
    BY DEF TrackedSession, NewSession, Inactive, NoSearch, Active
  <2>7. Tracked' BY <1>0, <1>2, <2>1, <2>6 DEF Tracked, history
  <2> QED BY <1>1, <2>5, <2>7 DEF IInv
<1>8. CASE C_CloseAllSessions BY <1>4, <1>8 DEF C_CloseAllSessions
<1>9. CASE \E h \in Handle : C_CloseSession(h) BY <1>4, <1>9 DEF C_CloseSession
<1> QED BY <1>5, <1>6, <1>7, <1>8, <1>9

LEMMA ApplicationStep ==
  ASSUME IInv, Application
  PROVE  IInv'
<1>1. App BY DEF Application, App
<1>2. ASSUME NEW h \in Handle, SessionCalls(h) PROVE IInv'
  BY <1>1, <1>2, LoginStep, SignCallsStep, VerifyCallsStep, DigestCallsStep, ObjectCallsStep
  DEF SessionCalls
<1> QED BY <1>1, <1>2, SessionsStep DEF Application

-----------------------------------------------------------------------------
(* The client's steps: pairs of calls on a session without operations      *)

Ready(s) == s.login /\ ~Active(s.sign) /\ ~Active(s.verify) /\ ~Active(s.digest)

(* What a method leaves behind                                             *)
Leaves(s, t) == Sound(t) /\ Ready(t) /\ Continues(s, t) /\ Extends(s, t)

LEMMA SignBegins ==
  ASSUME NEW s, Sound(s), Ready(s), NEW mech \in SignMechanism, NEW key \in 1 .. Len(s.handles)
  PROVE  LET i == C_SignInit(s, mech, key)
         IN  /\ i.rv = "OK" /\ Sound(i.s) /\ Active(i.s.sign)
             /\ i.s.sign.key = key /\ i.s.sign.mech = mech
             /\ i.s.handles = s.handles /\ i.s.login = s.login /\ i.s.find = s.find
             /\ i.s.verify = s.verify /\ i.s.digest = s.digest
<1> DEFINE i == C_SignInit(s, mech, key)
           op == [mech |-> mech, key |-> key, data |-> NoData]
<1>0. s \in AnySession /\ Len(s.handles) \in Nat BY DEF Sound, AnySession
<1>1. mech \in Mechanism /\ key \in Nat /\ mech # "none" /\ key \in Handles(s)
  BY <1>0 DEF SignMechanism, Mechanism, Handles, AnySession
<1>2. Rejected(s, s.sign, mech, key) = "OK" BY <1>1 DEF Rejected, Ready
<1>3. Sound(i.s) /\ i.s.find = s.find BY <1>1, InitCalls
<1>4. i.rv = "OK" /\ i.s = [s EXCEPT !.sign = op] BY <1>2 DEF C_SignInit, Return
<1>5. /\ i.s.sign = op /\ i.s.handles = s.handles /\ i.s.login = s.login
      /\ i.s.verify = s.verify /\ i.s.digest = s.digest
  BY <1>0, <1>4 DEF AnySession
<1> HIDE DEF i
<1>6. Active(i.s.sign) BY <1>1, <1>5 DEF Active
<1>7. i.s.sign.key = key /\ i.s.sign.mech = mech BY <1>5
<1> QED BY <1>3, <1>4, <1>5, <1>6, <1>7 DEF i

LEMMA SignOnce ==
  ASSUME NEW s, Sound(s), Ready(s), NEW mech \in SignMechanism, NEW key \in 1 .. Len(s.handles),
         NEW a
  PROVE  LET r == C_Sign(C_SignInit(s, mech, key).s, a)
         IN  Leaves(s, r.s) /\ r.out = IF a.what = "signature" THEN a ELSE Nothing
<1> DEFINE i == C_SignInit(s, mech, key)
           r == C_Sign(i.s, a)
           u == [i.s EXCEPT !.sign = Inactive]
<1>1. /\ Sound(i.s) /\ Active(i.s.sign)
      /\ i.s.handles = s.handles /\ i.s.login = s.login /\ i.s.find = s.find
      /\ i.s.verify = s.verify /\ i.s.digest = s.digest
  BY SignBegins
<1> HIDE DEF i
<1>2. Sound(r.s) BY <1>1, SignSound
<1>3. r.s = u /\ r.out = IF a.what = "signature" THEN a ELSE Nothing
  BY <1>1 DEF C_Sign, Asked, Refuse, Return
<1>4. /\ u.sign = Inactive /\ u.handles = s.handles /\ u.login = s.login
      /\ u.verify = s.verify /\ u.digest = s.digest /\ u.find = s.find
  BY <1>1 DEF Sound, AnySession
<1> HIDE DEF r, u
<1>5. ~Active(Inactive) BY DEF Active, Inactive
<1>6. Leaves(s, r.s)
  BY <1>2, <1>3, <1>4, <1>5 DEF Leaves, Ready, Continues, Extends
<1> QED BY <1>3, <1>6 DEF i, r

LEMMA VerifyOnce ==
  ASSUME NEW s, Sound(s), Ready(s), NEW key \in 1 .. Len(s.handles), NEW a
  PROVE  LET i == C_VerifyInit(s, "ECDSA_SHA", key)
             r == C_Verify(i.s, a)
         IN  i.rv = "OK" /\ Leaves(s, r.s) /\ (r.rv = "OK" <=> Valid(a))
<1> DEFINE i == C_VerifyInit(s, "ECDSA_SHA", key)
           op == [mech |-> "ECDSA_SHA", key |-> key, data |-> NoData]
           r == C_Verify(i.s, a)
           u == [i.s EXCEPT !.verify = Inactive]
<1>0. s \in AnySession /\ Len(s.handles) \in Nat BY DEF Sound, AnySession
<1>1. "ECDSA_SHA" \in Mechanism /\ key \in Nat /\ "ECDSA_SHA" \in SignMechanism /\ key \in Handles(s)
  BY <1>0 DEF SignMechanism, Mechanism, Handles, AnySession
<1>2. Rejected(s, s.verify, "ECDSA_SHA", key) = "OK" BY <1>1 DEF Rejected, Ready
<1>3. Sound(i.s) BY <1>1, InitCalls
<1>4. i.rv = "OK" /\ i.s = [s EXCEPT !.verify = op] BY <1>2 DEF C_VerifyInit, Return
<1>5. /\ i.s.verify = op /\ i.s.handles = s.handles /\ i.s.login = s.login
      /\ i.s.sign = s.sign /\ i.s.digest = s.digest /\ i.s.find = s.find
  BY <1>0, <1>4 DEF AnySession
<1> HIDE DEF i
<1>6. Active(i.s.verify) BY <1>5 DEF Active
<1>8. Sound(r.s) BY <1>3, VerifySound
<1>9. r.s = u BY <1>6 DEF C_Verify, Asked, Refuse, Return
<1>10. /\ u.verify = Inactive /\ u.handles = s.handles /\ u.login = s.login
       /\ u.sign = s.sign /\ u.digest = s.digest /\ u.find = s.find
  BY <1>3, <1>5 DEF Sound, AnySession
<1>12. r.rv = "OK" <=> Valid(a)
  <2>1. Valid(a) => a.what # "nothing" BY DEF Valid
  <2> QED BY <1>6, <2>1 DEF C_Verify, Asked, Refuse, Return
<1> HIDE DEF r, u
<1>13. ~Active(Inactive) BY DEF Active, Inactive
<1>14. Leaves(s, r.s)
  BY <1>8, <1>9, <1>10, <1>13 DEF Leaves, Ready, Continues, Extends
<1> QED BY <1>4, <1>12, <1>14 DEF i, r

LEMMA GenerateOnce ==
  ASSUME NEW s, Sound(s), Ready(s), NEW a, a.what = "pair" => a.by \in Arn
  PROVE  LET r == C_GenerateKeyPair(s, "EC_KEY_PAIR_GEN", a)
         IN  /\ Leaves(s, r.s)
             /\ a.what = "pair" => /\ r.rv = "OK"
                                   /\ r.out.private \in 1 .. Len(r.s.handles)
                                   /\ r.s.handles[r.out.private] = a.by
                                   /\ r.out.by = a.by
             /\ a.what # "pair" => r.rv # "OK" /\ r.s = s
<1> DEFINE r == C_GenerateKeyPair(s, "EC_KEY_PAIR_GEN", a)
           t == [s EXCEPT !.handles = @ \o <<a.by, a.by>>]
<1>1. /\ Sound(r.s) /\ Continues(s, r.s) /\ Extends(s, r.s)
      /\ r.rv = "OK" => /\ r.out.private \in 1 .. Len(r.s.handles)
                        /\ r.s.handles[r.out.private] = a.by
                        /\ r.out.by = a.by
      /\ r.rv # "OK" => r.s = s
  BY GenerateSound DEF Mechanism
<1>2. /\ a.what = "pair" => r.rv = "OK" /\ r.s = t
      /\ a.what # "pair" => r.rv # "OK"
  BY DEF C_GenerateKeyPair, Refuse, Return, Ready
<1>3. /\ t.login = s.login /\ t.sign = s.sign /\ t.verify = s.verify /\ t.digest = s.digest
  BY DEF Sound, AnySession
<1> HIDE DEF r, t
<1>4. Leaves(s, r.s) BY <1>1, <1>2, <1>3 DEF Leaves, Ready
<1> QED BY <1>1, <1>2, <1>4 DEF r

LEMMA DigestOnce ==
  ASSUME NEW s, Sound(s), Ready(s), NEW a
  PROVE  LET i == C_DigestInit(s, "SHA")
             r == C_Digest(i.s, a)
         IN  /\ i.rv = "OK" /\ Leaves(s, r.s)
             /\ r.out = IF a.what = "digest" THEN a ELSE Nothing
<1> DEFINE i == C_DigestInit(s, "SHA")
           op == [mech |-> "SHA", key |-> 0, data |-> NoData]
           r == C_Digest(i.s, a)
           u == [i.s EXCEPT !.digest = Inactive]
           v == [i.s EXCEPT !.digest.mech = "none"]
<1>0. s \in AnySession BY DEF Sound
<1>3. Sound(i.s) BY DigestInitSound DEF Mechanism
<1>4. i.rv = "OK" /\ i.s = [s EXCEPT !.digest = op] BY DEF C_DigestInit, Return, Ready
<1>5. /\ i.s.digest = op /\ i.s.handles = s.handles /\ i.s.login = s.login
      /\ i.s.sign = s.sign /\ i.s.verify = s.verify /\ i.s.find = s.find
  BY <1>0, <1>4 DEF AnySession
<1> HIDE DEF i
<1>6. Active(i.s.digest) BY <1>5 DEF Active
<1>8. Sound(r.s) BY <1>3, DigestSound
<1>9. r.s \in {u, v} BY <1>6 DEF C_Digest, Refuse, Return
<1>10. /\ u.digest = Inactive /\ u.handles = s.handles /\ u.login = s.login
       /\ u.sign = s.sign /\ u.verify = s.verify /\ u.find = s.find
  BY <1>3, <1>5 DEF Sound, AnySession
<1>11. /\ v.digest.mech = "none" /\ v.handles = s.handles /\ v.login = s.login
       /\ v.sign = s.sign /\ v.verify = s.verify /\ v.find = s.find
  BY <1>3, <1>5 DEF Sound, AnySession, AnyOperation
<1>12. r.out = IF a.what = "digest" THEN a ELSE Nothing
  BY <1>6 DEF C_Digest, Refuse, Return
<1> HIDE DEF r, u, v
<1>13. ~Active(Inactive) BY DEF Active, Inactive
<1>14. Ready(r.s) /\ r.s.handles = s.handles /\ r.s.find = s.find /\ r.s.sign = s.sign
  BY <1>9, <1>10, <1>11, <1>13 DEF Ready, Active
<1>15. Leaves(s, r.s) BY <1>8, <1>14 DEF Leaves, Ready, Continues, Extends
<1> QED BY <1>4, <1>12, <1>15 DEF i, r

-----------------------------------------------------------------------------
(* The client's steps: its methods                                         *)

Own == sess[hsm.session]

Serving == user = "BrokerHSM" /\ hsm.on /\ UNCHANGED user

(* keys, in place of _key_handles, name the keys in the session s          *)
Remembers(keys, s) ==
  \A a \in Arn : keys[a] # 0 => keys[a] \in 1 .. Len(s.handles) /\ s.handles[keys[a]] = a

LEMMA OwnIsReady ==
  ASSUME IInv, hsm.on
  PROVE  /\ hsm.session \in DOMAIN sess /\ Sound(Own) /\ Ready(Own)
         /\ Remembers(hsm.keys, Own)
<1>1. Sound(Own) BY DEF IInv, WellTyped, ClientReady, Own
<1>2. Handles(Own) = 1 .. Len(Own.handles) BY <1>1 DEF Sound, AnySession, Handles
<1> QED BY <1>1, <1>2 DEF IInv, ClientReady, Own, Ready, Remembers

(* The session becomes t and the client remembers `keys'.                  *)
LEMMA MethodStep ==
  ASSUME IInv, Serving, NEW t, Leaves(Own, t), Len(t.handles) <= MaxKey,
         sess' = [sess EXCEPT ![hsm.session] = t], UNCHANGED <<lib, next, history>>,
         late' \in Seq(Result), Len(late') <= MaxLate,
         NEW keys \in [Arn -> 0 .. MaxKey], hsm' = [hsm EXCEPT !.keys = keys],
         Remembers(keys, t)
  PROVE  IInv'
<1>0. WellTyped /\ Tracked /\ Forgets /\ hsm.on BY DEF IInv, Serving
<1>1. hsm.session \in DOMAIN sess /\ Sound(Own) BY <1>0, OwnIsReady
<1>2. Sound(t) /\ Ready(t) /\ Continues(Own, t) BY DEF Leaves
<1>3. /\ DOMAIN sess' = DOMAIN sess /\ sess'[hsm.session] = t
      /\ \A k \in DOMAIN sess : k # hsm.session => sess'[k] = sess[k]
      /\ sess' \in [DOMAIN sess' -> AnySession]
  BY <1>0, <1>1, <1>2 DEF WellTyped, Sound
<1>4. /\ hsm'.on = hsm.on /\ hsm'.session = hsm.session /\ hsm'.keys = keys
      /\ hsm' \in [on : BOOLEAN, session : 0 .. MaxSession, keys : [Arn -> 0 .. MaxKey]]
  BY <1>0 DEF WellTyped
<1>5. WellTyped'
  <2>1. \A k \in DOMAIN sess' : Sound(sess'[k]) /\ Len(sess'[k].handles) <= MaxKey
    BY <1>0, <1>2, <1>3 DEF WellTyped
  <2> QED BY <1>0, <1>3, <1>4, <2>1 DEF WellTyped, Serving, history
<1>6. Tracked'
  <2>1. TrackedSession(t, given[hsm.session], found[hsm.session])
    BY <1>0, <1>1, <1>2 DEF Tracked, TrackedSession, Continues, Own
  <2> QED BY <1>0, <1>3, <2>1 DEF Tracked, history
<1>7. Forgets' BY <1>0, <1>4 DEF Forgets, Serving
<1>8. ClientReady'
  <2>1. lib /\ Handles(t) = 1 .. Len(t.handles)
    BY <1>0, <1>1, <1>2 DEF WellTyped, Handles, Sound, AnySession
  <2>2. lib' BY <2>1
  <2> QED BY <1>1, <1>2, <1>3, <1>4, <2>1, <2>2 DEF ClientReady, Ready, Remembers
<1> QED BY <1>5, <1>6, <1>7, <1>8 DEF IInv

(* The handle of a key                                                     *)
LEMMA KeyHandleSound ==
  ASSUME IInv, hsm.on, NEW a \in Arn
  PROVE  LET k == KeyHandle(Own, a)
         IN  /\ Leaves(Own, k.s)
             /\ k.out.handle \in 1 .. Len(k.s.handles)
             /\ k.s.handles[k.out.handle] = a
<1>1. /\ Sound(Own) /\ Ready(Own)
      /\ hsm.keys[a] # 0 => hsm.keys[a] \in 1 .. Len(Own.handles) /\ Own.handles[hsm.keys[a]] = a
  BY OwnIsReady DEF Remembers
<1>2. CASE hsm.keys[a] # 0
  <2>1. /\ KeyHandle(Own, a).s = Own
        /\ KeyHandle(Own, a).out.handle = hsm.keys[a]
    BY <1>2 DEF KeyHandle, Return
  <2>2. Leaves(Own, Own) BY <1>1 DEF Leaves, Continues, Extends
  <2> QED BY <1>1, <1>2, <2>1, <2>2
<1>3. CASE hsm.keys[a] = 0
  <2> DEFINE r == register_key(Own, a)
  <2>1. KeyHandle(Own, a) = r BY <1>3 DEF KeyHandle
  <2>2. /\ Sound(r.s) /\ Continues(Own, r.s) /\ Extends(Own, r.s)
        /\ r.out.handle \in 1 .. Len(r.s.handles)
        /\ r.s.handles[r.out.handle] = a
        /\ r.s.login = Own.login
        /\ r.s.sign = Own.sign /\ r.s.verify = Own.verify /\ r.s.digest = Own.digest
    BY <1>1, RegisterSound
  <2> HIDE DEF r
  <2>3. Leaves(Own, r.s) BY <1>1, <2>2 DEF Leaves, Ready
  <2> QED BY <2>1, <2>2, <2>3
<1> QED BY <1>2, <1>3

(* Two calls one after the other leave behind what one does.               *)
LEMMA LeavesTwice ==
  ASSUME NEW s, NEW t, NEW u, Sound(s), Leaves(s, t), Leaves(t, u)
  PROVE  Leaves(s, u)
<1>1. Continues(s, u) BY DEF Leaves, Continues, Active
<1>2. Extends(s, u)
  <2>1. Len(s.handles) \in Nat /\ Len(t.handles) \in Nat /\ Len(u.handles) \in Nat
    BY DEF Leaves, Sound, AnySession
  <2> QED BY <2>1 DEF Leaves, Extends
<1> QED BY <1>1, <1>2 DEF Leaves

(* A method that used the key `a' under the handle `key'                   *)
LEMMA RemembersStep ==
  ASSUME IInv, Serving, NEW q, NEW o, Returns(q, o), late' \in Seq(Result), Leaves(Own, o.r.s),
         NEW a \in Arn, NEW key \in 1 .. Len(o.r.s.handles), o.r.s.handles[key] = a,
         hsm' = Remembered(a, key)
  PROVE  IInv' /\ hsm'.on = hsm.on
<1> DEFINE keys == [hsm.keys EXCEPT ![a] = key]
           t == o.r.s
<1>0. WellTyped /\ hsm.on BY DEF IInv, Serving
<1>1. /\ Len(t.handles) <= MaxKey /\ sess' = [sess EXCEPT ![hsm.session] = t]
      /\ UNCHANGED <<lib, next, history>> /\ Len(late') <= MaxLate
  BY DEF Returns, history
<1>2. Len(t.handles) \in Nat BY DEF Leaves, Sound, AnySession
<1> HIDE DEF t
<1>3. key \in 0 .. MaxKey BY <1>1, <1>2, LibraryAssumption DEF t
<1>4. keys \in [Arn -> 0 .. MaxKey] BY <1>0, <1>3 DEF WellTyped
<1>5. hsm' = [hsm EXCEPT !.keys = keys] BY <1>0 DEF Remembered, WellTyped
<1>6. Remembers(keys, t)
  <2>1. Remembers(hsm.keys, Own) BY <1>0, OwnIsReady
  <2>2. Len(Own.handles) \in Nat BY <1>0, OwnIsReady DEF Sound, AnySession
  <2>3. \A b \in Arn : keys[b] = IF b = a THEN key ELSE hsm.keys[b] BY <1>0 DEF WellTyped
  <2> HIDE DEF keys
  <2>4. /\ Len(Own.handles) <= Len(t.handles)
        /\ \A i \in 1 .. Len(Own.handles) : t.handles[i] = Own.handles[i]
    BY DEF Leaves, Extends, t
  <2>5. key \in 1 .. Len(t.handles) /\ t.handles[key] = a BY DEF t
  <2>6. ASSUME NEW b \in Arn, keys[b] # 0
        PROVE  keys[b] \in 1 .. Len(t.handles) /\ t.handles[keys[b]] = b
    <3>1. CASE b = a BY <2>3, <2>5, <3>1
    <3>2. CASE b # a
      <4>1. keys[b] = hsm.keys[b] BY <2>3, <3>2
      <4>2. hsm.keys[b] \in 1 .. Len(Own.handles) /\ Own.handles[hsm.keys[b]] = b
        BY <2>1, <2>6, <4>1 DEF Remembers
      <4> QED BY <1>2, <2>2, <2>4, <4>1, <4>2
    <3> QED BY <3>1, <3>2
  <2> QED BY <2>6 DEF Remembers
<1> HIDE DEF keys
<1>7. Leaves(Own, t) BY DEF t
<1>8. IInv' BY <1>1, <1>4, <1>5, <1>6, <1>7, MethodStep
<1>9. hsm'.on = hsm.on BY <1>0, <1>5 DEF WellTyped
<1> QED BY <1>8, <1>9

(* A method that remembers no key                                          *)
LEMMA KeepsKeysStep ==
  ASSUME IInv, Serving, NEW q, NEW o, Returns(q, o), late' \in Seq(Result), Leaves(Own, o.r.s),
         UNCHANGED hsm
  PROVE  IInv'
<1> DEFINE t == o.r.s
<1>0. WellTyped /\ hsm.on BY DEF IInv, Serving
<1>1. /\ Len(t.handles) <= MaxKey /\ sess' = [sess EXCEPT ![hsm.session] = t]
      /\ UNCHANGED <<lib, next, history>> /\ Len(late') <= MaxLate
  BY DEF Returns, history
<1>7. Leaves(Own, t) OBVIOUS
<1> HIDE DEF t
<1>2. hsm' = [hsm EXCEPT !.keys = hsm.keys] /\ hsm.keys \in [Arn -> 0 .. MaxKey]
  BY <1>0 DEF WellTyped
<1>3. Remembers(hsm.keys, t)
  <2>1. Remembers(hsm.keys, Own) BY <1>0, OwnIsReady
  <2>2. Len(Own.handles) \in Nat BY <1>0, OwnIsReady DEF Sound, AnySession
  <2>3. Len(t.handles) \in Nat BY <1>7 DEF Leaves, Sound, AnySession
  <2> QED BY <1>7, <2>1, <2>2, <2>3 DEF Leaves, Extends, Remembers
<1>4. PICK keys \in [Arn -> 0 .. MaxKey] : keys = hsm.keys BY <1>2
<1>5. hsm' = [hsm EXCEPT !.keys = keys] BY <1>2, <1>4
<1>6. Remembers(keys, t) BY <1>3, <1>4
<1> QED BY <1>1, <1>5, <1>6, <1>7, MethodStep

-----------------------------------------------------------------------------
(* The client's steps: its exchanges with the broker                       *)

LEMMA RequestFields ==
  ASSUME NEW q \in Request
  PROVE  /\ q.op \in {"sign_digest", "sign_data", "verify", "hash", "public_key", "generate", "list"}
         /\ q.arn \in Arn
         /\ q.op \in {"sign_digest", "sign_data", "verify", "hash"} => q.data \in Seq(Chunk)
<1>1. CASE q \in [op : {"sign_digest", "sign_data", "verify", "hash"}, arn : Arn,
                  data : {<<c>> : c \in Chunk}]
  <2>1. PICK c \in Chunk : q.data = <<c>> BY <1>1
  <2>2. <<c>> \in Seq(Chunk) OBVIOUS
  <2> QED BY <1>1, <2>1, <2>2
<1>2. CASE q \in [op : {"public_key", "generate", "list"}, arn : Arn] BY <1>2
<1> QED BY <1>1, <1>2 DEF Request

(* What can come in a response                                             *)
LEMMA AnswersAreResults ==
  ASSUME NEW q \in Request
  PROVE  Answers(q) \cup {Nothing} \subseteq Result
<1> SUFFICES ASSUME NEW a \in Answers(q) PROVE a \in Result BY DEF Result
<1>0. q.arn \in Arn BY RequestFields
<1>1. CASE q.op \in {"sign_digest", "sign_data"}
  <2>1. q.data \in Seq(Chunk) BY <1>1, RequestFields
  <2>2. PICK b \in BOOLEAN : a = [what |-> "signature", by |-> q.arn, hashed |-> b, over |-> q.data]
    BY <1>1 DEF Answers, Signature
  <2>3. a \in [what : {"signature"}, by : Arn, hashed : BOOLEAN, over : Seq(Chunk)]
    BY <1>0, <2>1, <2>2
  <2> QED BY <2>3 DEF Result
<1>2. CASE q.op = "verify"
  <2>1. a \in [what : {"verdict"}, valid : BOOLEAN] BY <1>2 DEF Answers
  <2> QED BY <2>1 DEF Result
<1>3. CASE q.op = "hash"
  <2>1. q.data \in Seq(Chunk) BY <1>3, RequestFields
  <2>2. a = [what |-> "digest", over |-> q.data] BY <1>3 DEF Answers
  <2>3. a \in [what : {"digest"}, over : Seq(Chunk)] BY <2>1, <2>2
  <2> QED BY <2>3 DEF Result
<1>4. CASE q.op \in {"public_key", "generate"}
  <2>1. a \in {[what |-> "public_key", by |-> q.arn], [what |-> "pair", by |-> q.arn]}
    BY <1>4 DEF Answers
  <2>2. a \in [what : {"public_key", "pair"}, by : Arn] BY <1>0, <2>1
  <2> QED BY <2>2 DEF Result
<1>5. CASE q.op = "list"
  <2>1. a \in [what : {"keys"}, arns : SUBSET Arn] BY <1>5 DEF Answers
  <2> QED BY <2>1 DEF Result
<1> QED BY <1>1, <1>2, <1>3, <1>4, <1>5, RequestFields

(* What comes is a result that was sent.                                   *)
LEMMA ExchangeOfResults ==
  ASSUME IInv, NEW own \in Result, NEW x \in Exchange(own)
  PROVE  x.got \in Result /\ x.late \in Seq(Result)
<1> DEFINE coming == Append(late, own)
<1>1. coming \in Seq(Result) /\ coming # << >>
  <2>1. late \in Seq(Result) BY DEF IInv, WellTyped
  <2> QED BY <2>1, AppendProperties
<1>2. late \in Seq(Result) /\ Nothing \in Result BY DEF IInv, WellTyped, Result
<1> HIDE DEF coming
<1>3. Head(coming) \in Result /\ Tail(coming) \in Seq(Result) BY <1>1, HeadTailProperties
<1>4. x \in {[got |-> Head(coming), late |-> Tail(coming)]} \cup [got : {Nothing}, late : {late, coming}]
  BY DEF Exchange, coming
<1> QED BY <1>1, <1>2, <1>3, <1>4

LEMMA ResultFields ==
  ASSUME NEW a \in Result
  PROVE  a.what \in {"public_key", "pair"} => a.by \in Arn
BY DEF Result, Nothing

(* The request q is served by an exchange of which the broker makes one of *)
(* its answers, and hands out what it reads there.                         *)
Served(q, o) ==
  \E a \in Answers(q) \cup {Nothing} : \E x \in Exchange(a) :
    o.late = x.late /\ Handed(q, o.r) = Reading(q, x.got)

LEMMA ServedStep ==
  ASSUME IInv, Serving, NEW q \in Request, NEW o, Served(q, o), Returns(q, o)
  PROVE  /\ late' \in Seq(Result)
         /\ hsm'.on = hsm.on => Service!Serve(q)
<1>1. PICK a \in Answers(q) \cup {Nothing} : \E x \in Exchange(a) :
        o.late = x.late /\ Handed(q, o.r) = Reading(q, x.got)
  BY DEF Served
<1>2. PICK x \in Exchange(a) : o.late = x.late /\ Handed(q, o.r) = Reading(q, x.got) BY <1>1
<1>3. a \in Result BY AnswersAreResults
<1>4. late' = x.late BY <1>2 DEF Returns
<1>5. late' \in Seq(Result) BY <1>3, <1>4, ExchangeOfResults
<1>6. PICK got \in Reading(q, x.got) : reply' = [asked |-> q, got |-> got]
  BY <1>2 DEF Returns, Replies
<1>7. ASSUME hsm'.on = hsm.on PROVE Service!Serve(q)
  <2>1. hsm.on /\ UNCHANGED hsm.on BY <1>7 DEF Serving
  <2>2. Service!Take(q, a) \/ Service!GiveUp(q, a)
    <3> DEFINE coming == Append(late, a)
    <3>1. \/ x = [got |-> Head(coming), late |-> Tail(coming)]
          \/ x \in [got : {Nothing}, late : {late, coming}]
      BY DEF Exchange
    <3>2. CASE x = [got |-> Head(coming), late |-> Tail(coming)]
      <4>1. x.got = Head(coming) /\ x.late = Tail(coming) BY <3>2
      <4> QED BY <1>4, <1>6, <4>1 DEF Service!Take, Service!Gives
    <3>3. CASE x \in [got : {Nothing}, late : {late, coming}]
      <4>1. x.got = Nothing /\ x.late \in {late, coming} BY <3>3
      <4> QED BY <1>4, <1>6, <4>1 DEF Service!GiveUp, Service!Gives
    <3> QED BY <3>1, <3>2, <3>3
  <2> QED BY <2>1, <2>2 DEF Service!Serve
<1> QED BY <1>5, <1>7

(* An operation begun asks what its request is about, and finishes with    *)
(* what comes.                                                             *)
LEMMA OutcomeIsExchange ==
  ASSUME IInv, NEW s, NEW key, NEW q \in Request, NEW o \in Outcomes(s, key, q),
         NEW i, i = Begin(s, key, q), i.rv = "OK", Asking(i.s, key, q) = Answers(q)
  PROVE  \E own \in Answers(q) \cup {Nothing} : \E x \in Exchange(own) :
           x.got \in Result /\ o.r = Finish(i.s, key, q, x.got) /\ o.late = x.late
<1>1. PICK x \in Exchanges(Answers(q)) :
        o = [r |-> Finish(i.s, key, q, x.got), late |-> x.late]
  BY DEF Outcomes
<1>2. PICK own \in Answers(q) \cup {Nothing} : x \in Exchange(own) BY <1>1 DEF Exchanges
<1>3. own \in Result BY AnswersAreResults
<1>4. x.got \in Result BY <1>2, <1>3, ExchangeOfResults
<1>5. o.r = Finish(i.s, key, q, x.got) /\ o.late = x.late BY <1>1
<1> QED BY <1>2, <1>4, <1>5

LEMMA KeyOutcome ==
  ASSUME IInv, NEW s, Sound(s), Ready(s), NEW key \in 1 .. Len(s.handles), NEW q \in Request,
         q.op \in {"sign_digest", "sign_data", "verify", "public_key"},
         s.handles[key] = q.arn, NEW o \in Outcomes(s, key, q)
  PROVE  Leaves(s, o.r.s) /\ Served(q, o)
<1>1. ASSUME NEW mech \in SignMechanism, q.op \in {"sign_digest", "sign_data"},
             Begin(s, key, q) = C_SignInit(s, mech, key),
             Answers(q) = {Signature(q.arn, mech, q.data)}
      PROVE  Leaves(s, o.r.s) /\ Served(q, o)
  <2>1. PICK i : i = C_SignInit(s, mech, key) OBVIOUS
  <2>2. i.rv = "OK" /\ i.s.handles = s.handles /\ i.s.sign.key = key /\ i.s.sign.mech = mech
    BY <2>1, SignBegins
  <2>3. Asking(i.s, key, q) = Answers(q) BY <1>1, <2>2 DEF Asking
  <2>4. i = Begin(s, key, q) BY <1>1, <2>1
  <2>5. PICK own \in Answers(q) \cup {Nothing} : \E x \in Exchange(own) :
          x.got \in Result /\ o.r = Finish(i.s, key, q, x.got) /\ o.late = x.late
    BY <2>2, <2>3, <2>4, OutcomeIsExchange
  <2>6. PICK x \in Exchange(own) :
          x.got \in Result /\ o.r = Finish(i.s, key, q, x.got) /\ o.late = x.late
    BY <2>5
  <2>7. PICK a \in Result : a = x.got BY <2>6
  <2>8. PICK r : r = C_Sign(i.s, a) OBVIOUS
  <2>9. Leaves(s, r.s) /\ r.out = IF a.what = "signature" THEN a ELSE Nothing
    BY <2>1, <2>8, SignOnce
  <2>10. o.r = r BY <1>1, <2>6, <2>7, <2>8 DEF Finish
  <2>11. Handed(q, r) = {r.out} BY <1>1 DEF Handed
  <2>12. Reading(q, a) = {IF a.what = "signature" THEN a ELSE Nothing} BY <1>1 DEF Reading
  <2>13. Handed(q, o.r) = Reading(q, x.got) BY <2>7, <2>9, <2>10, <2>11, <2>12
  <2> QED BY <2>6, <2>9, <2>10, <2>13 DEF Served
<1>2. CASE q.op = "sign_digest"
  BY <1>1, <1>2 DEF Begin, Answers, SignMechanism
<1>3. CASE q.op = "sign_data"
  BY <1>1, <1>3 DEF Begin, Answers, SignMechanism
<1>4. CASE q.op = "verify"
  <2>1. PICK i : i = C_VerifyInit(s, "ECDSA_SHA", key) OBVIOUS
  <2>2. i.rv = "OK" BY <2>1, VerifyOnce
  <2>3. Asking(i.s, key, q) = Answers(q) BY <1>4 DEF Asking, Answers
  <2>4. i = Begin(s, key, q) BY <1>4, <2>1 DEF Begin
  <2>5. PICK own \in Answers(q) \cup {Nothing} : \E x \in Exchange(own) :
          x.got \in Result /\ o.r = Finish(i.s, key, q, x.got) /\ o.late = x.late
    BY <2>2, <2>3, <2>4, OutcomeIsExchange
  <2>6. PICK x \in Exchange(own) :
          x.got \in Result /\ o.r = Finish(i.s, key, q, x.got) /\ o.late = x.late
    BY <2>5
  <2>7. PICK a \in Result : a = x.got BY <2>6
  <2>8. PICK r : r = C_Verify(i.s, a) OBVIOUS
  <2>9. Leaves(s, r.s) /\ (r.rv = "OK" <=> Valid(a)) BY <2>1, <2>8, VerifyOnce
  <2>10. o.r = r BY <1>4, <2>6, <2>7, <2>8 DEF Finish
  <2>11. Handed(q, r) = {[what |-> "verdict", valid |-> r.rv = "OK"]} BY <1>4 DEF Handed
  <2>12. Reading(q, a) = {[what |-> "verdict", valid |-> Valid(a)]} BY <1>4 DEF Reading
  <2>13. (r.rv = "OK") = Valid(a) BY <2>9 DEF Valid
  <2>14. Handed(q, o.r) = Reading(q, x.got) BY <2>7, <2>10, <2>11, <2>12, <2>13
  <2> QED BY <2>6, <2>9, <2>10, <2>14 DEF Served
<1>5. CASE q.op = "public_key"
  <2>1. PICK i : i = Begin(s, key, q) OBVIOUS
  <2>2. i.rv = "OK" /\ i.s = s BY <1>5, <2>1 DEF Begin, Return
  <2>3. Asking(i.s, key, q) = Answers(q)
    <3>1. Handles(s) \cap {key} = {key} BY DEF Handles, Sound, AnySession
    <3>2. Asking(i.s, key, q) = {[what |-> "public_key", by |-> s.handles[h]] : h \in {key}}
      BY <1>5, <2>2, <3>1, Zenon DEF Asking
    <3>3. Answers(q) = {[what |-> "public_key", by |-> q.arn]} BY <1>5 DEF Answers
    <3> QED BY <3>2, <3>3
  <2>5. PICK own \in Answers(q) \cup {Nothing} : \E x \in Exchange(own) :
          x.got \in Result /\ o.r = Finish(i.s, key, q, x.got) /\ o.late = x.late
    BY <2>1, <2>2, <2>3, OutcomeIsExchange
  <2>6. PICK x \in Exchange(own) :
          x.got \in Result /\ o.r = Finish(i.s, key, q, x.got) /\ o.late = x.late
    BY <2>5
  <2>7. PICK a \in Result : a = x.got BY <2>6
  <2>8. PICK r : r = C_GetAttributeValue(s, key, "EC_POINT", a) OBVIOUS
  <2>9. key \in Handles(s) BY DEF Sound, AnySession, Handles
  <2>10. /\ r.s = s
         /\ a.what \in {"public_key", "pair"} =>
              r.rv = "OK" /\ r.out = [what |-> "public_key", by |-> a.by]
         /\ a.what \notin {"public_key", "pair"} => r.rv # "OK"
    BY <2>8, <2>9 DEF C_GetAttributeValue, Asked, Refuse, Return
  <2>11. o.r = r BY <1>5, <2>2, <2>6, <2>7, <2>8 DEF Finish
  <2>12. Leaves(s, s) BY DEF Leaves, Continues, Extends
  <2>13. Handed(q, r) = Reading(q, a) BY <1>5, <2>10 DEF Handed, Reading
  <2>14. Handed(q, o.r) = Reading(q, x.got) BY <2>7, <2>11, <2>13
  <2> QED BY <2>6, <2>10, <2>11, <2>12, <2>14 DEF Served
<1> QED BY <1>2, <1>3, <1>4, <1>5

LEMMA WithKeyStep ==
  ASSUME IInv, Serving, NEW q \in Request, WithKey(q)
  PROVE  IInv' /\ Service!Serve(q)
<1>0. hsm.on /\ q.arn \in Arn /\ q.op \in {"sign_digest", "sign_data", "verify", "public_key"}
  BY RequestFields DEF Serving, WithKey
<1> DEFINE k == KeyHandle(Own, q.arn)
           key == k.out.handle
<1>1. PICK o \in Outcomes(k.s, key, q) : Returns(q, o) BY DEF WithKey, Own
<1>2. hsm' = Remembered(q.arn, key) BY DEF WithKey, Own
<1>3. Leaves(Own, k.s) /\ key \in 1 .. Len(k.s.handles) /\ k.s.handles[key] = q.arn
  BY <1>0, KeyHandleSound
<1> HIDE DEF k, key
<1>4. Sound(k.s) /\ Ready(k.s) BY <1>3 DEF Leaves
<1>5. Leaves(k.s, o.r.s) /\ Served(q, o)
  <2>1. PICK s : s = k.s OBVIOUS
  <2>2. Leaves(s, o.r.s) /\ Served(q, o)
    BY <1>0, <1>1, <1>3, <1>4, <2>1, KeyOutcome
  <2> QED BY <2>1, <2>2
<1>6. Leaves(Own, o.r.s) BY <1>0, <1>3, <1>5, OwnIsReady, LeavesTwice
<1>7. key \in 1 .. Len(o.r.s.handles) /\ o.r.s.handles[key] = q.arn
  BY <1>3, <1>5 DEF Leaves, Extends, Sound, AnySession
<1>8. late' \in Seq(Result) /\ (hsm'.on = hsm.on => Service!Serve(q)) BY <1>1, <1>5, ServedStep
<1>9. IInv' /\ hsm'.on = hsm.on BY <1>0, <1>1, <1>2, <1>6, <1>7, <1>8, RemembersStep
<1> QED BY <1>8, <1>9

LEMMA HashStep ==
  ASSUME IInv, Serving, NEW q \in Request, HashData(q)
  PROVE  IInv' /\ Service!Serve(q)
<1>0. hsm.on /\ q.op = "hash" /\ UNCHANGED hsm BY DEF Serving, HashData
<1>1. PICK o \in Outcomes(Own, 0, q) : Returns(q, o) BY DEF HashData, Own
<1>2. Sound(Own) /\ Ready(Own) BY <1>0, OwnIsReady
<1>3. PICK s : s = Own OBVIOUS
<1>4. Leaves(s, o.r.s) /\ Served(q, o)
  <2>1. PICK i : i = C_DigestInit(s, "SHA") OBVIOUS
  <2>2. i.rv = "OK" BY <1>2, <1>3, <2>1, DigestOnce
  <2>3. Asking(i.s, 0, q) = Answers(q) BY <1>0 DEF Asking, Answers
  <2>4. i = Begin(s, 0, q) /\ o \in Outcomes(s, 0, q) BY <1>0, <1>3, <2>1 DEF Begin
  <2>5. PICK own \in Answers(q) \cup {Nothing} : \E x \in Exchange(own) :
          x.got \in Result /\ o.r = Finish(i.s, 0, q, x.got) /\ o.late = x.late
    BY <2>2, <2>3, <2>4, OutcomeIsExchange
  <2>6. PICK x \in Exchange(own) :
          x.got \in Result /\ o.r = Finish(i.s, 0, q, x.got) /\ o.late = x.late
    BY <2>5
  <2>7. PICK a \in Result : a = x.got BY <2>6
  <2>8. PICK r : r = C_Digest(i.s, a) OBVIOUS
  <2>9. Leaves(s, r.s) /\ r.out = IF a.what = "digest" THEN a ELSE Nothing
    BY <1>2, <1>3, <2>1, <2>8, DigestOnce
  <2>10. o.r = r BY <1>0, <2>6, <2>7, <2>8 DEF Finish
  <2>11. Handed(q, r) = {r.out} BY <1>0 DEF Handed
  <2>12. Reading(q, a) = {IF a.what = "digest" THEN a ELSE Nothing} BY <1>0 DEF Reading
  <2>13. Handed(q, o.r) = Reading(q, x.got) BY <2>7, <2>9, <2>10, <2>11, <2>12
  <2> QED BY <2>6, <2>9, <2>10, <2>13 DEF Served
<1>5. Leaves(Own, o.r.s) BY <1>3, <1>4
<1>6. late' \in Seq(Result) /\ Service!Serve(q) BY <1>0, <1>1, <1>4, ServedStep
<1>7. IInv' BY <1>0, <1>1, <1>5, <1>6, KeepsKeysStep
<1> QED BY <1>6, <1>7

LEMMA GenerateStep ==
  ASSUME IInv, Serving, NEW q \in Request, GenerateKeyPair(q)
  PROVE  IInv' /\ Service!Serve(q)
<1>0. hsm.on /\ q.op = "generate" BY DEF Serving, GenerateKeyPair
<1>1. PICK o \in Outcomes(Own, 0, q) :
        /\ Returns(q, o)
        /\ hsm' = IF o.r.rv = "OK" THEN Remembered(o.r.out.by, o.r.out.private) ELSE hsm
  BY DEF GenerateKeyPair, Own
<1>2. Sound(Own) /\ Ready(Own) BY <1>0, OwnIsReady
<1>3. PICK s : s = Own OBVIOUS
<1>4. PICK i : i = Begin(s, 0, q) OBVIOUS
<1>5. i.rv = "OK" /\ i.s = s BY <1>0, <1>4 DEF Begin, Return
<1>6. Asking(i.s, 0, q) = Answers(q) BY <1>0 DEF Asking, Answers
<1>7. o \in Outcomes(s, 0, q) BY <1>3
<1>8. PICK own \in Answers(q) \cup {Nothing} : \E x \in Exchange(own) :
        x.got \in Result /\ o.r = Finish(i.s, 0, q, x.got) /\ o.late = x.late
  BY <1>4, <1>5, <1>6, <1>7, OutcomeIsExchange
<1>8a. PICK x \in Exchange(own) :
        x.got \in Result /\ o.r = Finish(i.s, 0, q, x.got) /\ o.late = x.late
  BY <1>8
<1>8b. PICK a \in Result : a = x.got BY <1>8a
<1>9. /\ Leaves(s, o.r.s) /\ Served(q, o)
      /\ o.r.rv = "OK" => /\ o.r.out.by \in Arn
                          /\ o.r.out.private \in 1 .. Len(o.r.s.handles)
                          /\ o.r.s.handles[o.r.out.private] = o.r.out.by
  <2>1. PICK r : r = C_GenerateKeyPair(s, "EC_KEY_PAIR_GEN", a) OBVIOUS
  <2>2. a.what = "pair" => a.by \in Arn BY ResultFields
  <2>3. /\ Leaves(s, r.s)
        /\ a.what = "pair" => /\ r.rv = "OK"
                              /\ r.out.private \in 1 .. Len(r.s.handles)
                              /\ r.s.handles[r.out.private] = a.by
                              /\ r.out.by = a.by
        /\ a.what # "pair" => r.rv # "OK" /\ r.s = s
    BY <1>2, <1>3, <2>1, <2>2, GenerateOnce
  <2>4. o.r = r BY <1>0, <1>5, <1>8a, <1>8b, <2>1 DEF Finish
  <2>5. Handed(q, r) = {IF r.rv = "OK" THEN [what |-> "pair", by |-> r.out.by] ELSE Nothing}
    BY <1>0 DEF Handed
  <2>6. Reading(q, a) = {IF a.what = "pair" THEN a ELSE Nothing} BY <1>0 DEF Reading
  <2>7. a.what = "pair" => a = [what |-> "pair", by |-> a.by] BY DEF Result, Nothing
  <2>8. Handed(q, o.r) = Reading(q, x.got) BY <1>8b, <2>3, <2>4, <2>5, <2>6, <2>7
  <2> QED BY <1>8a, <2>2, <2>3, <2>4, <2>8 DEF Served
<1>10. o.r.rv = "OK" => /\ o.r.out.by \in Arn
                       /\ o.r.out.private \in 1 .. Len(o.r.s.handles)
                       /\ o.r.s.handles[o.r.out.private] = o.r.out.by
  BY <1>9
<1>11. Leaves(Own, o.r.s) BY <1>3, <1>9
<1>12. late' \in Seq(Result) /\ (hsm'.on = hsm.on => Service!Serve(q)) BY <1>1, <1>9, ServedStep
<1>13. CASE o.r.rv = "OK"
  <2>1. PICK arn \in Arn : arn = o.r.out.by BY <1>10, <1>13
  <2>2. PICK key \in 1 .. Len(o.r.s.handles) : key = o.r.out.private BY <1>10, <1>13
  <2>3. o.r.s.handles[key] = arn BY <1>10, <1>13, <2>1, <2>2
  <2>4. hsm' = Remembered(arn, key) BY <1>1, <1>13, <2>1, <2>2
  <2>5. IInv' /\ hsm'.on = hsm.on BY <1>1, <1>11, <1>12, <2>3, <2>4, RemembersStep
  <2> QED BY <1>12, <2>5
<1>14. CASE o.r.rv # "OK"
  <2>1. UNCHANGED hsm BY <1>1, <1>14
  <2>2. IInv' BY <1>1, <1>11, <1>12, <2>1, KeepsKeysStep
  <2> QED BY <1>12, <2>1, <2>2
<1> QED BY <1>13, <1>14

LEMMA ListStep ==
  ASSUME IInv, Serving, NEW q \in Request, ListKeys(q)
  PROVE  IInv' /\ Service!Serve(q)
<1>0. hsm.on /\ q.op = "list" /\ UNCHANGED <<lib, next, sess, hsm, given, found, user>>
  BY DEF Serving, ListKeys, library, history
<1>1. Asking(sess[hsm.session], 0, q) = Answers(q) BY <1>0 DEF Asking, Answers
<1>2. PICK x \in Exchanges(Answers(q)) :
        /\ Len(x.late) <= MaxLate /\ late' = x.late
        /\ reply' = [asked |-> q, got |-> [what |-> "keys", arns |-> Listed(x.got)]]
  BY <1>1 DEF ListKeys, Replies
<1>3. PICK own \in Answers(q) \cup {Nothing} : x \in Exchange(own) BY <1>2 DEF Exchanges
<1>4. own \in Result BY AnswersAreResults
<1>5. x.got \in Result /\ x.late \in Seq(Result) BY <1>3, <1>4, ExchangeOfResults
<1>6. IInv'
  <2>1. late' \in Seq(Result) /\ Len(late') <= MaxLate BY <1>2, <1>5
  <2> QED BY <1>0, <2>1 DEF IInv, WellTyped, Tracked, Forgets, ClientReady
<1>7. [what |-> "keys", arns |-> Listed(x.got)] \in Reading(q, x.got)
  <2>1. PICK a \in Result : a = x.got BY <1>5
  <2>2. Reading(q, a) = [what : {"keys"}, arns : IF a.what = "nothing" THEN SUBSET Arn
                                                  ELSE {IF a.what = "keys" THEN a.arns ELSE {}}]
    BY <1>0 DEF Reading
  <2>3. Listed(a) \in IF a.what = "nothing" THEN SUBSET Arn
                      ELSE {IF a.what = "keys" THEN a.arns ELSE {}}
    BY DEF Listed
  <2> QED BY <2>1, <2>2, <2>3
<1>8. Service!Take(q, own) \/ Service!GiveUp(q, own)
  <2> DEFINE coming == Append(late, own)
  <2>0. PICK got \in Reading(q, x.got) : reply' = [asked |-> q, got |-> got] BY <1>2, <1>7
  <2>1. \/ x = [got |-> Head(coming), late |-> Tail(coming)]
        \/ x \in [got : {Nothing}, late : {late, coming}]
    BY <1>3 DEF Exchange
  <2>2. CASE x = [got |-> Head(coming), late |-> Tail(coming)]
    <3>1. x.got = Head(coming) /\ x.late = Tail(coming) BY <2>2
    <3> QED BY <1>2, <2>0, <3>1 DEF Service!Take, Service!Gives
  <2>3. CASE x \in [got : {Nothing}, late : {late, coming}]
    <3>1. x.got = Nothing /\ x.late \in {late, coming} BY <2>3
    <3> QED BY <1>2, <2>0, <3>1 DEF Service!GiveUp, Service!Gives
  <2> QED BY <2>1, <2>2, <2>3
<1> QED BY <1>0, <1>6, <1>8 DEF Service!Serve

LEMMA CleanupStep ==
  ASSUME IInv, user = "BrokerHSM", Cleanup, UNCHANGED <<user, history>>
  PROVE  IInv' /\ hsm' = Off /\ late' = << >>
<1>0. WellTyped BY DEF IInv
<1>1. /\ lib' = FALSE /\ DOMAIN sess' = {} /\ sess' \in [{} -> AnySession] /\ hsm' = Off
      /\ next' = next /\ late' = << >>
  BY DEF Cleanup
<1>2. Off \in [on : BOOLEAN, session : 0 .. MaxSession, keys : [Arn -> 0 .. MaxKey]] /\ Off.on = FALSE
  BY LibraryAssumption DEF Off, NoKeys
<1>3. WellTyped'
  <2>1. late' \in Seq(Result) /\ Len(late') <= MaxLate BY <1>1, LibraryAssumption
  <2> QED BY <1>0, <1>1, <1>2, <2>1 DEF WellTyped, history
<1>4. Tracked' BY <1>1 DEF Tracked
<1>5. Forgets' /\ ClientReady' BY <1>1, <1>2 DEF Forgets, ClientReady
<1> QED BY <1>1, <1>3, <1>4, <1>5 DEF IInv

LEMMA DisconnectStep ==
  ASSUME IInv, user = "BrokerHSM", UNCHANGED user, Disconnect
  PROVE  IInv' /\ Service!Disconnect
<1>1. IInv' /\ hsm' = Off /\ late' = << >> BY CleanupStep DEF Disconnect, history
<1>2. hsm'.on = FALSE BY <1>1 DEF Off
<1> QED BY <1>1, <1>2 DEF Disconnect, Service!Disconnect

LEMMA ConnectStep ==
  ASSUME IInv, user = "BrokerHSM", UNCHANGED user, Connect
  PROVE  IInv' /\ Service!Connect
<1>0. WellTyped /\ ~hsm.on /\ hsm = Off /\ reply' = NoReply /\ UNCHANGED history
  BY DEF IInv, Forgets, Connect
<1>1. CASE Cleanup
  <2>1. IInv' /\ hsm' = Off /\ late' = << >> BY <1>0, <1>1, CleanupStep
  <2>2. hsm'.on = FALSE BY <2>1 DEF Off
  <2> QED BY <1>0, <2>1, <2>2 DEF Service!Connect
<1>2. CASE /\ lib' = TRUE /\ next' = 2
           /\ sess' = [h \in {1} |-> C_Login(NewSession, TRUE).s]
           /\ hsm' = [on |-> TRUE, session |-> 1, keys |-> hsm.keys]
           /\ late' = << >>
  <2> DEFINE t == C_Login(NewSession, TRUE).s
  <2>1. Sound(t) BY NewIsSound, LoginCalls
  <2>2. /\ t.login = TRUE /\ t.handles = << >> /\ ~Active(t.sign) /\ ~Active(t.verify)
        /\ ~Active(t.digest) /\ ~t.find.on
    BY DEF C_Login, NewSession, Asked, Return, Inactive, NoSearch, Active
  <2> HIDE DEF t
  <2>3. DOMAIN sess' = {1} /\ sess'[1] = t BY <1>2 DEF t
  <2>4. sess' \in [{1} -> AnySession] BY <1>2, <2>1 DEF Sound, t
  <2>5. NoKeys \in [Arn -> 0 .. MaxKey] /\ \A a \in Arn : NoKeys[a] = 0
    BY LibraryAssumption DEF NoKeys
  <2>6. hsm' = [on |-> TRUE, session |-> 1, keys |-> NoKeys] BY <1>0, <1>2 DEF Off
  <2>7. 1 \in 0 .. MaxSession /\ 2 \in 1 .. MaxSession + 1 /\ 1 \in 1 .. 2 - 1
    BY LibraryAssumption
  <2>8. hsm'.on = TRUE /\ hsm'.session = 1 /\ hsm'.keys = NoKeys BY <2>6
  <2>9. hsm' \in [on : BOOLEAN, session : 0 .. MaxSession, keys : [Arn -> 0 .. MaxKey]]
    BY <2>5, <2>6, <2>7
  <2>10. WellTyped'
    <3>1. Len(t.handles) <= MaxKey BY <2>2, LibraryAssumption
    <3>2. \A h \in DOMAIN sess' : Sound(sess'[h]) /\ Len(sess'[h].handles) <= MaxKey
      BY <2>1, <2>3, <3>1
    <3>3. given' \in [Handle -> Given] /\ found' \in [Handle -> Seq(Nat)]
      BY <1>0 DEF WellTyped, history
    <3>4. next' \in 1 .. MaxSession + 1 /\ DOMAIN sess' \subseteq 1 .. next' - 1 /\ lib'
      BY <1>2, <2>3, <2>7
    <3>5. late' \in Seq(Result) /\ Len(late') <= MaxLate BY <1>2, LibraryAssumption
    <3> QED BY <1>0, <1>2, <2>3, <2>4, <2>9, <3>2, <3>3, <3>4, <3>5 DEF WellTyped
  <2>11. Tracked' BY <2>2, <2>3 DEF Tracked, TrackedSession
  <2>12. Forgets' BY <2>8 DEF Forgets
  <2>13. ClientReady' BY <1>2, <2>2, <2>3, <2>5, <2>8 DEF ClientReady
  <2>14. hsm'.on \in BOOLEAN BY <2>8
  <2> QED BY <1>0, <1>2, <2>10, <2>11, <2>12, <2>13, <2>14 DEF IInv, Service!Connect
<1> QED BY <1>1, <1>2 DEF Connect

LEMMA ClientStep ==
  ASSUME IInv, Client
  PROVE  IInv' /\ Service!Next
<1>0. user = "BrokerHSM" /\ UNCHANGED user BY DEF Client
<1>1. CASE Connect BY <1>0, <1>1, ConnectStep DEF Service!Next
<1>2. CASE Disconnect BY <1>0, <1>2, DisconnectStep DEF Service!Next
<1>3. ASSUME hsm.on, NEW q \in Request, Methods(q) PROVE IInv' /\ Service!Next
  <2>1. Serving BY <1>0, <1>3 DEF Serving
  <2>2. IInv' /\ Service!Serve(q)
    BY <1>3, <2>1, WithKeyStep, HashStep, GenerateStep, ListStep DEF Methods
  <2> QED BY <2>2 DEF Service!Next
<1> QED BY <1>1, <1>2, <1>3 DEF Client

-----------------------------------------------------------------------------
(* The theorems                                                            *)

LEMMA StutterStep ==
  ASSUME IInv, UNCHANGED vars
  PROVE  IInv'
BY DEF vars, library, history, IInv, WellTyped, Tracked, Forgets, ClientReady

THEOREM IInvHolds == Spec => []IInv
<1>1. IInv /\ [Next]_vars => IInv'
  BY ApplicationStep, ClientStep, StutterStep DEF Next
<1> QED BY InitHolds, <1>1, PTL DEF Spec

(* Every session of the library is well typed, whatever calls an           *)
(* application makes in whatever order, and whichever of them fail.        *)
THEOREM LibraryTypeCorrect == Spec => []TypeOK
<1>1. IInv => TypeOK
  <2> SUFFICES ASSUME IInv PROVE TypeOK OBVIOUS
  <2>1. ASSUME NEW h \in DOMAIN sess PROVE sess[h] \in Session /\ Len(sess[h].handles) <= MaxKey
    <3> DEFINE s == sess[h]
    <3>1. Sound(s) /\ Len(s.handles) <= MaxKey BY DEF IInv, WellTyped
    <3> HIDE DEF s
    <3>2. s \in AnySession /\ Len(s.handles) \in Nat BY <3>1 DEF Sound, AnySession
    <3>3. s.sign \in Operation /\ s.verify \in Operation
      BY <3>1, <3>2, LibraryAssumption DEF Sound, SoundOperation, AnySession, AnyOperation, Operation
    <3>4. s.digest \in Operation
      BY <3>1, <3>2, LibraryAssumption DEF Sound, AnySession, AnyOperation, Operation
    <3>5. s.find \in Search
      <4>1. /\ s.find.results \in Seq(Nat) /\ s.find \in AnySearch
            /\ Len(s.find.results) \in Nat /\ s.find.index \in Nat
        BY <3>2 DEF AnySession, AnySearch
      <4>2. s.find.index \in 0 .. MaxKey
        BY <3>1, <3>2, <4>1, LibraryAssumption DEF Sound, SoundSearch
      <4>3. \A i \in 1 .. Len(s.find.results) : s.find.results[i] \in 1 .. MaxKey
        BY <3>1, <3>2, LibraryAssumption DEF Sound, SoundSearch
      <4>4. s.find.results \in Seq(1 .. MaxKey)
        <5>1. s.find.results \in [1 .. Len(s.find.results) -> Nat] BY <4>1, LenProperties
        <5>2. s.find.results \in [1 .. Len(s.find.results) -> 1 .. MaxKey] BY <4>3, <5>1
        <5>3. Seq(1 .. MaxKey) = UNION {[1 .. n -> 1 .. MaxKey] : n \in Nat} BY SeqDef
        <5>4. [1 .. Len(s.find.results) -> 1 .. MaxKey] \in {[1 .. n -> 1 .. MaxKey] : n \in Nat}
          BY <4>1
        <5> QED BY <5>2, <5>3, <5>4
      <4> QED BY <4>1, <4>2, <4>4 DEF AnySearch, Search
    <3>6. s \in Session BY <3>2, <3>3, <3>4, <3>5 DEF AnySession, Session
    <3> QED BY <3>1, <3>6 DEF s
  <2> QED BY <2>1 DEF IInv, WellTyped, TypeOK
<1> QED BY <1>1, IInvHolds, PTL

(* An operation under way has a key that exists and the chunks it was      *)
(* given since it began, none of an operation before it.                   *)
THEOREM OperationIsItsOwnHolds == Spec => []OperationIsItsOwn
<1>1. IInv => OperationIsItsOwn
  <2> SUFFICES ASSUME IInv, NEW h \in DOMAIN sess
               PROVE  LET s == sess[h]
                      IN  /\ Active(s.sign) => s.sign.key \in Handles(s) /\ s.sign.data = given[h].sign
                          /\ Active(s.verify) => s.verify.key \in Handles(s)
                          /\ Active(s.digest) => s.digest.data = given[h].digest
    BY DEF OperationIsItsOwn
  <2>1. Sound(sess[h]) /\ TrackedSession(sess[h], given[h], found[h]) BY DEF IInv, WellTyped, Tracked
  <2>2. Active(sess[h].sign) => sess[h].sign.key \in Handles(sess[h])
    BY <2>1 DEF Sound, SoundOperation, AnySession, AnyOperation, Handles
  <2>3. Active(sess[h].verify) => sess[h].verify.key \in Handles(sess[h])
    BY <2>1 DEF Sound, SoundOperation, AnySession, AnyOperation, Handles
  <2> QED BY <2>1, <2>2, <2>3 DEF TrackedSession
<1> QED BY <1>1, IInvHolds, PTL

(* C_FindObjects hands every handle of a search out once, in order, and    *)
(* each names a key of the session.                                        *)
THEOREM SearchOnceHolds == Spec => []SearchOnce
<1>1. IInv => SearchOnce
  <2> SUFFICES ASSUME IInv, NEW h \in DOMAIN sess, sess[h].find.on
               PROVE  LET f == sess[h].find
                      IN  /\ found[h] = SubSeq(f.results, 1, f.index)
                          /\ \A i, j \in DOMAIN found[h] : found[h][i] = found[h][j] => i = j
                          /\ \A i \in DOMAIN found[h] : found[h][i] \in Handles(sess[h])
    BY DEF SearchOnce
  <2> DEFINE s == sess[h]
             f == s.find
             given_out == SubSeq(f.results, 1, f.index)
  <2>1. Sound(s) /\ TrackedSession(s, given[h], found[h]) BY DEF IInv, WellTyped, Tracked
  <2>2. found[h] = given_out BY <2>1 DEF TrackedSession
  <2>3. /\ f.results \in Seq(Nat) /\ Len(f.results) \in Nat /\ f.index \in 0 .. Len(f.results)
        /\ Handles(s) = 1 .. Len(s.handles)
    BY <2>1 DEF Sound, SoundSearch, AnySession, AnySearch, Handles
  <2>4. /\ \A i \in 1 .. Len(f.results) : f.results[i] \in Handles(s)
        /\ \A i, j \in 1 .. Len(f.results) : f.results[i] = f.results[j] => i = j
    BY <2>1, <2>3 DEF Sound, SoundSearch
  <2> HIDE DEF s, f
  <2>5. /\ Len(given_out) = f.index /\ given_out \in Seq(Nat)
        /\ \A i \in 1 .. f.index : given_out[i] = f.results[i]
    <3>1. \A i \in 1 .. f.index : f.results[i] \in Nat BY <2>3
    <3>2. 1 \in Int /\ f.index \in Int BY <2>3
    <3>3. /\ given_out \in Seq(Nat)
          /\ Len(given_out) = IF 1 <= f.index THEN f.index - 1 + 1 ELSE 0
          /\ \A i \in 1 .. f.index - 1 + 1 : given_out[i] = f.results[1 + i - 1]
      BY <3>1, <3>2, SubSeqProperties
    <3> QED BY <2>3, <3>3
  <2> HIDE DEF given_out
  <2>6. DOMAIN found[h] = 1 .. f.index BY <2>2, <2>5
  <2>7. \A i \in DOMAIN found[h] : i \in 1 .. Len(f.results) /\ found[h][i] = f.results[i]
    <3>1. 1 .. f.index \subseteq 1 .. Len(f.results) BY <2>3
    <3> QED BY <2>2, <2>5, <2>6, <3>1
  <2>8. \A i, j \in DOMAIN found[h] : found[h][i] = found[h][j] => i = j
    BY <2>4, <2>7
  <2>9. \A i \in DOMAIN found[h] : found[h][i] \in Handles(s)
    BY <2>4, <2>7
  <2> QED BY <2>2, <2>8, <2>9 DEF s, f, given_out
<1> QED BY <1>1, IInvHolds, PTL

(* Between two calls a connected client has its session, logged in,        *)
(* without an operation left over, and the handles it remembers are those  *)
(* of its keys.                                                            *)
THEOREM ClientReadyHolds == Spec => []ClientReady
<1>1. IInv => ClientReady BY DEF IInv
<1> QED BY <1>1, IInvHolds, PTL

(* BrokerHSM is the key service without a state: what the broker makes of  *)
(* a request is by the key and over the data of that request, after any    *)
(* methods that failed, with or without a response left to come, and after *)
(* reconnecting; and a request gives what it reads from the first response *)
(* that comes, which is its own as long as no call of the connection was   *)
(* given up.                                                               *)
THEOREM ServiceImplemented == Spec => ImplementsKeyService
<1>1. Init => Service!Init
  BY DEF Init, Off, Service!Init
<1>2. IInv /\ [Next]_vars => [Service!Next]_<<hsm.on, late, reply>>
  <2> SUFFICES ASSUME IInv, [Next]_vars PROVE [Service!Next]_<<hsm.on, late, reply>> OBVIOUS
  <2>1. CASE Application BY <2>1 DEF Application
  <2>2. CASE Client BY <2>2, ClientStep
  <2>3. CASE UNCHANGED vars BY <2>3 DEF vars
  <2> QED BY <2>1, <2>2, <2>3 DEF Next
<1> QED BY <1>1, <1>2, IInvHolds, PTL DEF Spec, ImplementsKeyService, Service!Spec
=============================================================================
