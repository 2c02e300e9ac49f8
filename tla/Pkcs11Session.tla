--------------------------- MODULE Pkcs11Session ---------------------------
(***************************************************************************)
(* The PKCS#11 session of the library (security/broker/pkcs11/session.py)  *)
(* as a value: each C_ function takes a session and returns the code `rv', *)
(* the session it leaves behind and what it hands out.  `a' is the result in   *)
(* the response _broker_request received, and Nothing when it raised: the  *)
(* broker answered with an error, or the call was given up.  Nothing tells *)
(* a response that answers another request, so a call takes every result   *)
(* that has the member it looks for.                                       *)
(*                                                                         *)
(* Handles are given out from 1 and never taken back, so the dictionary    *)
(* _object_handles is the sequence of the keys registered so far.  Data    *)
(* are sequences of chunks.  A mechanism the code has no entry for is      *)
(* "other"; the three hashing ones differ in the hash only.                *)
(***************************************************************************)
EXTENDS Naturals, Sequences, FiniteSets

CONSTANTS Arn,    \* keys of the KMS
          Chunk   \* pieces of data

Mechanism == {"ECDSA", "ECDSA_SHA", "SHA", "EC_KEY_PAIR_GEN", "other"}
SignMechanism == {"ECDSA", "ECDSA_SHA"}

NoData == << >>
Inactive == [mech |-> "none", key |-> 0, data |-> NoData]
NoSearch == [on |-> FALSE, results |-> << >>, index |-> 0]

NewSession == [login |-> FALSE, handles |-> << >>, sign |-> Inactive, verify |-> Inactive,
               digest |-> Inactive, find |-> NoSearch]

Handles(s) == DOMAIN s.handles
Active(op) == op.mech # "none"

Nothing == [what |-> "nothing"]
Return(rv, s, out) == [rv |-> rv, s |-> s, out |-> out]
Refuse(rv, s) == Return(rv, s, Nothing)

(* The code of a call that takes a response or not, and what it hands out  *)
Asked(ok, s, out) == IF ok THEN Return("OK", s, out) ELSE Refuse("FUNCTION_FAILED", s)

-----------------------------------------------------------------------------
(* Any response that is no error will do for these two.                    *)
C_Login(s, ok) ==
  IF s.login THEN Refuse("USER_ALREADY_LOGGED_IN", s)
  ELSE Asked(ok, [s EXCEPT !.login = ok], Nothing)

(* An operation that is under way goes on.                                 *)
C_Logout(s, ok) ==
  IF ~s.login THEN Refuse("USER_NOT_LOGGED_IN", s)
  ELSE Asked(ok, [s EXCEPT !.login = ~ok], Nothing)

(* The checks C_SignInit and C_VerifyInit make, in their order             *)
Rejected(s, op, mech, key) ==
  IF ~s.login THEN "USER_NOT_LOGGED_IN"
  ELSE IF Active(op) THEN "OPERATION_ACTIVE"
  ELSE IF key \notin Handles(s) THEN "KEY_HANDLE_INVALID"
  ELSE IF mech \notin SignMechanism THEN "MECHANISM_INVALID"
  ELSE "OK"

C_SignInit(s, mech, key) ==
  LET rv == Rejected(s, s.sign, mech, key)
  IN  IF rv = "OK"
        THEN Return("OK", [s EXCEPT !.sign = [mech |-> mech, key |-> key, data |-> NoData]],
                    Nothing)
        ELSE Refuse(rv, s)

(* What the broker makes of sign_digest (the data are a digest) and sign   *)
Signature(arn, mech, data) ==
  [what |-> "signature", by |-> arn, hashed |-> mech # "ECDSA", over |-> data]

(* Mutation: a request that failed leaves the operation under way.         *)
C_Sign_KeepsOnError(s, a) ==
  IF ~Active(s.sign) THEN Refuse("OPERATION_NOT_INITIALIZED", s)
  ELSE Asked(a.what = "signature",
             IF a.what = "signature" THEN [s EXCEPT !.sign = Inactive] ELSE s, a)

C_Sign(s, a) ==
  IF ~Active(s.sign) THEN Refuse("OPERATION_NOT_INITIALIZED", s)
  ELSE Asked(a.what = "signature", [s EXCEPT !.sign = Inactive], a)

C_SignUpdate(s, chunk) ==
  IF ~Active(s.sign) THEN Refuse("OPERATION_NOT_INITIALIZED", s)
  ELSE Return("OK", [s EXCEPT !.sign.data = Append(@, chunk)], Nothing)

(* C_Sign sends its argument, whatever C_SignUpdate was given; C_SignFinal *)
(* gives it what was collected.                                            *)
C_SignFinal(s, a) == C_Sign(s, a)

C_VerifyInit(s, mech, key) ==
  LET rv == Rejected(s, s.verify, mech, key)
  IN  IF rv = "OK"
        THEN Return("OK", [s EXCEPT !.verify = [mech |-> mech, key |-> key, data |-> NoData]],
                    Nothing)
        ELSE Refuse(rv, s)

(* Its verdict is false when the result has none.                          *)
Valid(a) == a.what = "verdict" /\ a.valid

(* The mechanism does not matter, the broker always hashes.                *)
C_Verify(s, a) ==
  IF ~Active(s.verify) THEN Refuse("OPERATION_NOT_INITIALIZED", s)
  ELSE LET t == [s EXCEPT !.verify = Inactive]
       IN  IF a.what # "nothing" /\ ~Valid(a) THEN Refuse("SIGNATURE_INVALID", t)
           ELSE Asked(Valid(a), t, Nothing)

(* Mutation: the data of the operation before are still there.             *)
C_DigestInit_KeepsData(s, mech) ==
  IF Active(s.digest) THEN Refuse("OPERATION_ACTIVE", s)
  ELSE IF mech # "SHA" THEN Refuse("MECHANISM_INVALID", s)
  ELSE Return("OK", [s EXCEPT !.digest.mech = mech], Nothing)

(* It asks for no login.                                                   *)
C_DigestInit(s, mech) ==
  IF Active(s.digest) THEN Refuse("OPERATION_ACTIVE", s)
  ELSE IF mech # "SHA" THEN Refuse("MECHANISM_INVALID", s)
  ELSE Return("OK", [s EXCEPT !.digest = [mech |-> mech, key |-> 0, data |-> NoData]], Nothing)

(* A failure leaves the data behind, for C_DigestInit to clear.            *)
C_Digest(s, a) ==
  IF ~Active(s.digest) THEN Refuse("OPERATION_NOT_INITIALIZED", s)
  ELSE IF a.what = "digest" THEN Return("OK", [s EXCEPT !.digest = Inactive], a)
  ELSE Refuse("FUNCTION_FAILED", [s EXCEPT !.digest.mech = "none"])

C_DigestUpdate(s, chunk) ==
  IF ~Active(s.digest) THEN Refuse("OPERATION_NOT_INITIALIZED", s)
  ELSE Return("OK", [s EXCEPT !.digest.data = Append(@, chunk)], Nothing)

C_DigestFinal(s, a) == C_Digest(s, a)

-----------------------------------------------------------------------------
(* Only CKA_EC_POINT asks the broker; the label is the key's name.  The    *)
(* answer to a generation has a public key, too.                           *)
C_GetAttributeValue(s, key, attr, a) ==
  IF key \notin Handles(s) THEN Refuse("OBJECT_HANDLE_INVALID", s)
  ELSE IF attr = "EC_POINT"
         THEN Asked(a.what \in {"public_key", "pair"}, s, [what |-> "public_key", by |-> a.by])
         ELSE Return("OK", s, [what |-> "label", by |-> s.handles[key]])

(* Every search makes new handles for all keys the broker lists, whatever  *)
(* the template: `listed', none when the result is another's.  A failure   *)
(* (~ok) leaves the search open, without results.                          *)
C_FindObjectsInit(s, listed, ok) ==
  IF s.find.on THEN Refuse("OPERATION_ACTIVE", s)
  ELSE IF ~ok
         THEN Refuse("FUNCTION_FAILED",
                     [s EXCEPT !.find = [on |-> TRUE, results |-> << >>, index |-> 0]])
         ELSE Return("OK", [s EXCEPT
                !.handles = @ \o listed,
                !.find = [on |-> TRUE, index |-> 0,
                          results |-> [i \in 1 .. Len(listed) |-> Len(s.handles) + i]]], Nothing)

Upto(a, b) == IF a < b THEN a ELSE b

(* Mutation: the next call starts at the same place.                       *)
C_FindObjects_Again(s, count) ==
  IF ~s.find.on THEN Refuse("OPERATION_NOT_INITIALIZED", s)
  ELSE LET last == Upto(s.find.index + count, Len(s.find.results))
       IN  Return("OK", s, [what |-> "found",
                            handles |-> SubSeq(s.find.results, s.find.index + 1, last)])

C_FindObjects(s, count) ==
  IF ~s.find.on THEN Refuse("OPERATION_NOT_INITIALIZED", s)
  ELSE LET last == Upto(s.find.index + count, Len(s.find.results))
       IN  Return("OK", [s EXCEPT !.find.index = last],
                  [what |-> "found", handles |-> SubSeq(s.find.results, s.find.index + 1, last)])

C_FindObjectsFinal(s) == Return("OK", [s EXCEPT !.find = NoSearch], Nothing)

(* Two handles for the key the result names; what it tells of the key is   *)
(* kept under both.                                                        *)
C_GenerateKeyPair(s, mech, a) ==
  IF ~s.login THEN Refuse("USER_NOT_LOGGED_IN", s)
  ELSE IF mech # "EC_KEY_PAIR_GEN" THEN Refuse("MECHANISM_INVALID", s)
  ELSE IF a.what # "pair" THEN Refuse("FUNCTION_FAILED", s)
  ELSE Return("OK", [s EXCEPT !.handles = @ \o <<a.by, a.by>>],
              [what |-> "pair", private |-> Len(s.handles) + 1, by |-> a.by])

(* The handle of a key that has one is the first it got.                   *)
register_key(s, arn) ==
  LET known == {h \in Handles(s) : s.handles[h] = arn}
  IN  IF known # {}
        THEN Return("OK", s, [what |-> "handle",
                              handle |-> CHOOSE h \in known : \A g \in known : h <= g])
        ELSE Return("OK", [s EXCEPT !.handles = Append(@, arn)],
                    [what |-> "handle", handle |-> Len(s.handles) + 1])
=============================================================================
