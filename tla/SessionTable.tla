---------------------------- MODULE SessionTable ----------------------------
(***************************************************************************)
(* What the broker's session manager promises, with neither locks, clocks  *)
(* nor connections: a bounded table of live sessions.  A session id enters *)
(* the table once in its life; it leaves it and never comes back.          *)
(***************************************************************************)
EXTENDS Naturals, FiniteSets

CONSTANTS Sid,          \* session ids
          MaxSessions   \* capacity of the table

VARIABLES live,   \* ids of the sessions in the table
          issued  \* ids that were ever in the table

table == <<live, issued>>

Init == live = {} /\ issued = {}

(* A new session takes a slot, possibly after others gave theirs up.       *)
Open(s) == /\ s \notin issued
           /\ issued' = issued \cup {s}
           /\ \E kept \in SUBSET live :
                 /\ Cardinality(kept) < MaxSessions
                 /\ live' = kept \cup {s}

(* Any sessions leave: closed, expired, or swept away by a shutdown.       *)
Leave == /\ live' \subseteq live
         /\ UNCHANGED issued

Next == (\E s \in Sid : Open(s)) \/ Leave

Spec == Init /\ [][Next]_table
=============================================================================
