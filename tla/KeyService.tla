----------------------------- MODULE KeyService -----------------------------
(***************************************************************************)
(* What an HSM client is for the commands that use it (security/hsm/       *)
(* base.py) while it is connected: the service behind it makes a result of *)
(* each request on its own, by the key the request names and about the     *)
(* data it gives.  The results come back in the order of the requests and  *)
(* are taken in that order, so a result that was not waited for is taken   *)
(* by a later request.  No earlier request has any other bearing on a      *)
(* request, and no earlier connection has any.                             *)
(***************************************************************************)
EXTENDS Sequences

CONSTANTS Request,        \* what can be asked
          Answers(_),     \* the results of a request
          Reading(_, _),  \* what a request may give that took a result
          NoAnswer,       \* instead of a result
          NoReply

VARIABLES on,      \* initialized
          behind,  \* results nobody waits for any more, in order
          reply    \* the last request, and what it gave

Init == on = FALSE /\ behind = << >> /\ reply = NoReply

Connect == on' \in BOOLEAN /\ ~on /\ behind' = << >> /\ reply' = NoReply

Disconnect == on' = FALSE /\ behind' = << >> /\ reply' = NoReply

Gives(q, a) == \E got \in Reading(q, a) : reply' = [asked |-> q, got |-> got]

(* The request takes the first result that comes ...                       *)
Take(q, a) ==
  LET coming == Append(behind, a)
  IN  Gives(q, Head(coming)) /\ behind' = Tail(coming)

(* ... or gives up, before its result has come or without one.             *)
GiveUp(q, a) == Gives(q, NoAnswer) /\ behind' \in {behind, Append(behind, a)}

Serve(q) ==
  /\ on /\ UNCHANGED on
  /\ \E a \in Answers(q) \cup {NoAnswer} : Take(q, a) \/ GiveUp(q, a)

Next == Connect \/ Disconnect \/ \E q \in Request : Serve(q)

Spec == Init /\ [][Next]_<<on, behind, reply>>
=============================================================================
