--------------------------- MODULE Pkcs11Library ---------------------------
(***************************************************************************)
(* The PKCS#11 library in one process (lib.py, token.py) and the HSM       *)
(* client over it (security/hsm/broker_client.py).  A process uses the     *)
(* library in one of two ways, which `user' tells: through BrokerHSM, as   *)
(* the commands do, or by calling the C_ functions itself, as lib.py's     *)
(* header shows.  A call on a library that is not initialized, or on a     *)
(* session that is not open, changes nothing and is not an action.         *)
(*                                                                         *)
(* All calls of a process are made by one thread, one after the other, so  *)
(* a method of BrokerHSM is one step, made of the calls it makes.          *)
(***************************************************************************)
EXTENDS Pkcs11Session

CONSTANTS MaxSession,  \* bound: session handles the slot gives out
          MaxKey,      \* bound: object handles of a session
          MaxPart,     \* bound: chunks an operation accumulates
          MaxLate      \* bound: responses of given up calls under way

ASSUME LibraryAssumption ==
  MaxSession \in Nat \ {0} /\ MaxKey \in Nat /\ MaxPart \in Nat /\ MaxLate \in Nat

VARIABLES
  user,   \* how this process uses the library
  lib,    \* BrokerPKCS11Lib._initialized
  next,   \* Slot._next_session_handle
  sess,   \* Slot._sessions
  hsm,    \* BrokerHSM: initialized, _session_handle, _key_handles
  late,   \* the results of BrokerHSM's given up calls that the connection still brings
  reply,  \* history: the last request to BrokerHSM and what it gave
  given,  \* history: per session, the chunks given since C_SignInit and C_DigestInit
  found   \* history: per session, the handles given since C_FindObjectsInit

library == <<lib, next, sess>>
history == <<given, found>>
vars == <<user, library, hsm, late, reply, history>>

Handle == 1 .. MaxSession
NoKeys == [a \in Arn |-> 0]
Off == [on |-> FALSE, session |-> 0, keys |-> NoKeys]
NoReply == [what |-> "no reply"]
NoneGiven == [sign |-> NoData, digest |-> NoData]

Init ==
  /\ user \in {"application", "BrokerHSM"}
  /\ lib = FALSE
  /\ next = 1
  /\ sess = << >>
  /\ hsm = Off
  /\ late = << >>
  /\ reply = NoReply
  /\ given = [h \in Handle |-> NoneGiven]
  /\ found = [h \in Handle |-> << >>]

-----------------------------------------------------------------------------
(* The application's calls on the library ...                              *)

(* C_Initialize makes a new slot, so session handles start at 1 again.     *)
C_Initialize ==
  /\ ~lib
  /\ lib' = TRUE /\ next' = 1 /\ sess' = << >>
  /\ UNCHANGED history

C_Finalize ==
  /\ lib
  /\ lib' = FALSE /\ sess' = << >>
  /\ UNCHANGED <<next, history>>

(* Mutation: the next session gets the same handle.                        *)
C_OpenSession_SameHandle ==
  /\ lib /\ next \in Handle
  /\ sess' = [h \in DOMAIN sess \cup {next} |-> IF h = next THEN NewSession ELSE sess[h]]
  /\ UNCHANGED <<lib, next, history>>

C_OpenSession ==
  /\ lib /\ next \in Handle
  /\ sess' = [h \in DOMAIN sess \cup {next} |-> IF h = next THEN NewSession ELSE sess[h]]
  /\ next' = next + 1
  /\ UNCHANGED <<lib, history>>

CloseThese(hs) ==
  /\ sess' = [h \in DOMAIN sess \ hs |-> sess[h]]
  /\ UNCHANGED <<lib, next, history>>

C_CloseSession(h) == h \in DOMAIN sess /\ CloseThese({h})
C_CloseAllSessions == lib /\ CloseThese(DOMAIN sess)

(* ... and on one of its sessions.  Which request a result answers makes   *)
(* no difference to what a call leaves behind.                             *)

Response == [what : {"nothing", "signature", "digest"}] \cup [what : {"verdict"}, valid : BOOLEAN]
              \cup [what : {"public_key", "pair"}, by : Arn]

Becomes(h, r) ==
  /\ Len(r.s.handles) <= MaxKey
  /\ sess' = [sess EXCEPT ![h] = r.s]
  /\ UNCHANGED <<lib, next>>

Call(h, r) == Becomes(h, r) /\ UNCHANGED history

Give(h, r, op, chunks) ==
  /\ Becomes(h, r)
  /\ given' = IF r.rv = "OK" THEN [given EXCEPT ![h][op] = chunks] ELSE given
  /\ UNCHANGED found

Find(h, r, handles) ==
  /\ Becomes(h, r)
  /\ found' = [found EXCEPT ![h] = handles]
  /\ UNCHANGED given

Login(h) == \E ok \in BOOLEAN : Call(h, C_Login(sess[h], ok)) \/ Call(h, C_Logout(sess[h], ok))

SignCalls(h) ==
  \/ \E mech \in Mechanism, key \in 0 .. MaxKey :
        Give(h, C_SignInit(sess[h], mech, key), "sign", NoData)
  \/ \E c \in Chunk : Give(h, C_SignUpdate(sess[h], c), "sign", Append(given[h].sign, c))
  \/ \E a \in Response : Call(h, C_SignFinal(sess[h], a)) \/ Call(h, C_Sign(sess[h], a))

VerifyCalls(h) ==
  \/ \E mech \in Mechanism, key \in 0 .. MaxKey : Call(h, C_VerifyInit(sess[h], mech, key))
  \/ \E a \in Response : Call(h, C_Verify(sess[h], a))

DigestCalls(h) ==
  \/ \E mech \in Mechanism : Give(h, C_DigestInit(sess[h], mech), "digest", NoData)
  \/ \E c \in Chunk : Give(h, C_DigestUpdate(sess[h], c), "digest", Append(given[h].digest, c))
  \/ \E a \in Response : Call(h, C_DigestFinal(sess[h], a)) \/ Call(h, C_Digest(sess[h], a))

ObjectCalls(h) ==
  \/ \E key \in 0 .. MaxKey, attr \in {"LABEL", "EC_POINT"}, a \in Response :
        Call(h, C_GetAttributeValue(sess[h], key, attr, a))
  \/ \E listed \in {<<a>> : a \in Arn} \cup {<< >>} \cup (Arn \X Arn), ok \in BOOLEAN :
        Find(h, C_FindObjectsInit(sess[h], listed, ok),
             IF sess[h].find.on THEN found[h] ELSE << >>)
  \/ \E count \in 0 .. 2 :
        LET r == C_FindObjects(sess[h], count)
        IN  Find(h, r, IF r.rv = "OK" THEN found[h] \o r.out.handles ELSE found[h])
  \/ Find(h, C_FindObjectsFinal(sess[h]), << >>)
  \/ \E mech \in Mechanism, a \in Response : Call(h, C_GenerateKeyPair(sess[h], mech, a))
  \/ \E a \in Arn : Call(h, register_key(sess[h], a))

Bounded(h) == Len(sess[h].sign.data) <= MaxPart /\ Len(sess[h].digest.data) <= MaxPart

SessionCalls(h) ==
  /\ h \in DOMAIN sess
  /\ Login(h) \/ SignCalls(h) \/ VerifyCalls(h) \/ DigestCalls(h) \/ ObjectCalls(h)
  /\ Bounded(h)'

Application ==
  /\ user = "application"
  /\ \/ C_Initialize \/ C_Finalize \/ C_OpenSession \/ C_CloseAllSessions
     \/ \E h \in Handle : C_CloseSession(h) \/ SessionCalls(h)
  /\ UNCHANGED <<user, hsm, late, reply>>

-----------------------------------------------------------------------------
(* The HSM client.  It has a library of its own while it is connected.     *)

(* Mutation: the handles of the connection before are kept.                *)
Cleanup_KeepsKeys ==
  /\ lib' = FALSE /\ sess' = << >>
  /\ hsm' = [hsm EXCEPT !.on = FALSE, !.session = 0]
  /\ late' = << >>
  /\ UNCHANGED next

(* _cleanup, and `initialized' with it; the connection is closed           *)
Cleanup ==
  /\ lib' = FALSE /\ sess' = << >>
  /\ hsm' = Off
  /\ late' = << >>
  /\ UNCHANGED next

(* connect: C_Initialize, C_OpenSession and C_Login all succeed, or what   *)
(* has been done so far is cleaned up                                      *)
Connect ==
  /\ ~hsm.on
  /\ reply' = NoReply
  /\ \/ /\ lib' = TRUE /\ next' = 2
        /\ sess' = [h \in {1} |-> C_Login(NewSession, TRUE).s]
        /\ hsm' = [on |-> TRUE, session |-> 1, keys |-> hsm.keys]
        /\ late' = << >>
     \/ Cleanup
  /\ UNCHANGED history

(* disconnect goes on when C_Logout fails                                  *)
Disconnect == Cleanup /\ reply' = NoReply /\ UNCHANGED history

(* _get_key_handle                                                         *)
KeyHandle(s, arn) ==
  IF hsm.keys[arn] # 0 THEN Return("OK", s, [what |-> "handle", handle |-> hsm.keys[arn]])
  ELSE register_key(s, arn)

Remembered(arn, key) == [hsm EXCEPT !.keys[arn] = key]

Request ==
  [op : {"sign_digest", "sign_data", "verify", "hash"}, arn : Arn, data : {<<c>> : c \in Chunk}]
    \cup [op : {"public_key", "generate", "list"}, arn : Arn]

(* The call that begins the operation, where a method needs one            *)
Begin(s, key, q) ==
  CASE q.op = "sign_digest" -> C_SignInit(s, "ECDSA", key)
    [] q.op = "sign_data"   -> C_SignInit(s, "ECDSA_SHA", key)
    [] q.op = "verify"      -> C_VerifyInit(s, "ECDSA_SHA", key)
    [] q.op = "hash"        -> C_DigestInit(s, "SHA")
    [] OTHER                -> Return("OK", s, Nothing)

(* The results of what the next call asks of the broker                    *)
Asking(s, key, q) ==
  CASE q.op \in {"sign_digest", "sign_data"} ->
         {Signature(s.handles[s.sign.key], s.sign.mech, q.data)}
    [] q.op = "verify"     -> [what : {"verdict"}, valid : BOOLEAN]
    [] q.op = "hash"       -> {[what |-> "digest", over |-> q.data]}
    [] q.op = "public_key" -> {[what |-> "public_key", by |-> s.handles[h]] : h \in Handles(s) \cap {key}}
    [] q.op = "generate"   -> {[what |-> "pair", by |-> q.arn]}
    [] q.op = "list"       -> [what : {"keys"}, arns : SUBSET Arn]

Finish(s, key, q, a) ==
  CASE q.op \in {"sign_digest", "sign_data"} -> C_Sign(s, a)
    [] q.op = "verify"     -> C_Verify(s, a)
    [] q.op = "hash"       -> C_Digest(s, a)
    [] q.op = "public_key" -> C_GetAttributeValue(s, key, "EC_POINT", a)
    [] q.op = "generate"   -> C_GenerateKeyPair(s, "EC_KEY_PAIR_GEN", a)

(* A request whose result is `own' waits for the first response that       *)
(* comes, which is that of an earlier call when one was given up: the      *)
(* connection brings the responses in order.  A receive that times out     *)
(* leaves its own response to come, a broken connection does not.          *)
Exchange(own) ==
  LET coming == Append(late, own)
  IN  {[got |-> Head(coming), late |-> Tail(coming)]} \cup [got : {Nothing}, late : {late, coming}]

(* An error is the result Nothing.                                         *)
Exchanges(results) == UNION {Exchange(own) : own \in results \cup {Nothing}}

(* What the calls of a method on the session s may come to                 *)
Outcomes(s, key, q) ==
  LET i == Begin(s, key, q)
  IN  IF i.rv # "OK" THEN {[r |-> i, late |-> late]}
      ELSE {[r |-> Finish(i.s, key, q, x.got), late |-> x.late] :
              x \in Exchanges(Asking(i.s, key, q))}

(* What the method makes of the last call.  verify_signature does not tell *)
(* that it failed; get_public_key then asks the KMS itself.                *)
Handed(q, r) ==
  CASE q.op = "verify"     -> {[what |-> "verdict", valid |-> r.rv = "OK"]}
    [] q.op = "public_key" -> IF r.rv = "OK" THEN {r.out}
                              ELSE {Nothing, [what |-> "public_key", by |-> q.arn]}
    [] q.op = "generate"   -> {IF r.rv = "OK" THEN [what |-> "pair", by |-> r.out.by] ELSE Nothing}
    [] OTHER               -> {r.out}

Replies(q, got) == reply' = [asked |-> q, got |-> got]

Returns(q, o) ==
  /\ Len(o.r.s.handles) <= MaxKey /\ Len(o.late) <= MaxLate
  /\ sess' = [sess EXCEPT ![hsm.session] = o.r.s]
  /\ late' = o.late
  /\ \E got \in Handed(q, o.r) : Replies(q, got)
  /\ UNCHANGED <<lib, next, history>>

(* sign_digest, sign_data, verify_signature and get_public_key take the    *)
(* key's handle first                                                      *)
WithKey(q) ==
  /\ q.op \in {"sign_digest", "sign_data", "verify", "public_key"}
  /\ LET k == KeyHandle(sess[hsm.session], q.arn)
     IN  /\ \E o \in Outcomes(k.s, k.out.handle, q) : Returns(q, o)
         /\ hsm' = Remembered(q.arn, k.out.handle)

HashData(q) ==
  /\ q.op = "hash"
  /\ \E o \in Outcomes(sess[hsm.session], 0, q) : Returns(q, o)
  /\ UNCHANGED hsm

(* The private key's handle is remembered for the key the response named.  *)
GenerateKeyPair(q) ==
  /\ q.op = "generate"
  /\ \E o \in Outcomes(sess[hsm.session], 0, q) :
       /\ Returns(q, o)
       /\ hsm' = IF o.r.rv = "OK" THEN Remembered(o.r.out.by, o.r.out.private) ELSE hsm

(* list_keys asks the broker past the search.  It falls back on the keys   *)
(* used so far; another request's result lists none.                       *)
Listed(a) ==
  CASE a.what = "nothing" -> {k \in Arn : hsm.keys[k] # 0}
    [] a.what = "keys"    -> a.arns
    [] OTHER              -> {}

ListKeys(q) ==
  /\ q.op = "list"
  /\ \E x \in Exchanges(Asking(sess[hsm.session], 0, q)) :
       /\ Len(x.late) <= MaxLate
       /\ late' = x.late
       /\ Replies(q, [what |-> "keys", arns |-> Listed(x.got)])
  /\ UNCHANGED <<library, hsm, history>>

Methods(q) == WithKey(q) \/ HashData(q) \/ GenerateKeyPair(q) \/ ListKeys(q)

Client ==
  /\ user = "BrokerHSM"
  /\ Connect \/ Disconnect \/ (hsm.on /\ \E q \in Request : Methods(q))
  /\ UNCHANGED user

Next == Application \/ Client

Spec == Init /\ [][Next]_vars

-----------------------------------------------------------------------------
(* Properties.                                                             *)

Operation == [mech : Mechanism \cup {"none"}, key : 0 .. MaxKey, data : Seq(Chunk)]
Search == [on : BOOLEAN, results : Seq(1 .. MaxKey), index : 0 .. MaxKey]
Session == [login : BOOLEAN, handles : Seq(Arn), sign : Operation, verify : Operation,
            digest : Operation, find : Search]

Result ==
  {Nothing} \cup [what : {"signature"}, by : Arn, hashed : BOOLEAN, over : Seq(Chunk)]
    \cup [what : {"verdict"}, valid : BOOLEAN] \cup [what : {"digest"}, over : Seq(Chunk)]
    \cup [what : {"public_key", "pair"}, by : Arn] \cup [what : {"keys"}, arns : SUBSET Arn]

TypeOK ==
  /\ user \in {"application", "BrokerHSM"}
  /\ lib \in BOOLEAN
  /\ next \in 1 .. MaxSession + 1
  /\ DOMAIN sess \subseteq 1 .. next - 1
  /\ lib \/ DOMAIN sess = {}
  /\ \A h \in DOMAIN sess : sess[h] \in Session /\ Len(sess[h].handles) <= MaxKey
  /\ hsm \in [on : BOOLEAN, session : 0 .. MaxSession, keys : [Arn -> 0 .. MaxKey]]
  /\ late \in Seq(Result) /\ Len(late) <= MaxLate

(* session.py keeps the key, the mechanism and the data of an operation in *)
(* separate fields, which different calls and different error paths clear. *)
(* Whatever the order of the calls: an operation under way has a key that  *)
(* exists and exactly the chunks it was given since it began, none of an   *)
(* operation before it.                                                    *)
OperationIsItsOwn ==
  \A h \in DOMAIN sess :
    LET s == sess[h]
    IN  /\ Active(s.sign) => s.sign.key \in Handles(s) /\ s.sign.data = given[h].sign
        /\ Active(s.verify) => s.verify.key \in Handles(s)
        /\ Active(s.digest) => s.digest.data = given[h].digest

(* C_FindObjects hands every handle of a search out once, in the order of  *)
(* the search, and each names a key of the session.                        *)
SearchOnce ==
  \A h \in DOMAIN sess :
    LET f == sess[h].find
    IN  f.on => /\ found[h] = SubSeq(f.results, 1, f.index)
                /\ \A i, j \in DOMAIN found[h] : found[h][i] = found[h][j] => i = j
                /\ \A i \in DOMAIN found[h] : found[h][i] \in Handles(sess[h])

(* Between two calls a connected BrokerHSM has its session, logged in,     *)
(* with no operation left over by a call that failed, and the handles it   *)
(* remembers name the keys it remembers them for.                          *)
ClientReady ==
  hsm.on =>
    /\ lib /\ hsm.session \in DOMAIN sess
    /\ LET s == sess[hsm.session]
       IN  /\ s.login
           /\ ~Active(s.sign) /\ ~Active(s.verify) /\ ~Active(s.digest)
           /\ \A a \in Arn : hsm.keys[a] # 0 =>
                hsm.keys[a] \in Handles(s) /\ s.handles[hsm.keys[a]] = a

(* The results of a request, by the key and about the data it names        *)
Answers(q) ==
  CASE q.op = "sign_digest" -> {Signature(q.arn, "ECDSA", q.data)}
    [] q.op = "sign_data"   -> {Signature(q.arn, "ECDSA_SHA", q.data)}
    [] q.op = "verify"      -> [what : {"verdict"}, valid : BOOLEAN]
    [] q.op = "hash"        -> {[what |-> "digest", over |-> q.data]}
    [] q.op = "public_key"  -> {[what |-> "public_key", by |-> q.arn]}
    [] q.op = "generate"    -> {[what |-> "pair", by |-> q.arn]}
    [] q.op = "list"        -> [what : {"keys"}, arns : SUBSET Arn]

(* What a request may give when it received the result a                   *)
Reading(q, a) ==
  CASE q.op \in {"sign_digest", "sign_data"} -> {IF a.what = "signature" THEN a ELSE Nothing}
    [] q.op = "verify"     -> {[what |-> "verdict", valid |-> Valid(a)]}
    [] q.op = "hash"       -> {IF a.what = "digest" THEN a ELSE Nothing}
    [] q.op = "public_key" -> IF a.what \in {"public_key", "pair"}
                                THEN {[what |-> "public_key", by |-> a.by]}
                                ELSE {Nothing, [what |-> "public_key", by |-> q.arn]}
    [] q.op = "generate"   -> {IF a.what = "pair" THEN a ELSE Nothing}
    [] q.op = "list"       -> [what : {"keys"}, arns : IF a.what = "nothing" THEN SUBSET Arn
                                                       ELSE {IF a.what = "keys" THEN a.arns ELSE {}}]

Service == INSTANCE KeyService WITH on <- hsm.on, behind <- late, NoAnswer <- Nothing

(* BrokerHSM is built from a session with handles, mechanisms, data and    *)
(* operations in progress, which one method leaves to the next.  It is     *)
(* nevertheless the key service without such a state: what the broker      *)
(* makes of a request is by the key and over the data of that request,     *)
(* also when methods before it failed and after reconnecting.  The request *)
(* gives that result as long as no call on this connection was given up;   *)
(* from the first receive timeout on, it gives whatever it can read from   *)
(* the response to the request as many places before it as calls were      *)
(* given up, until the client reconnects.                                  *)
ImplementsKeyService == Service!Spec
=============================================================================
