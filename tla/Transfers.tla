----------------------------- MODULE Transfers ------------------------------
(***************************************************************************)
(* What the deadline of http_deadline.cpp promises to the tasks that       *)
(* download.  A connection is open, then guarded, and may be cut while it  *)
(* is guarded and at no other time; at most one is guarded at once.  One   *)
(* that was cut ends with the verdict that its time ran out.               *)
(***************************************************************************)
CONSTANT Owners

VARIABLES
  conn,     \* "none", "open", "guarded", "cut" or "ended"
  expired   \* the verdict of an ended connection

vars == <<conn, expired>>

Init ==
  /\ conn = [o \in Owners |-> "none"]
  /\ expired = [o \in Owners |-> FALSE]

Becomes(o, from, to) == conn[o] \in from /\ conn' = [conn EXCEPT ![o] = to]

Open(o) == Becomes(o, {"none"}, "open") /\ UNCHANGED expired

Guard(o) ==
  /\ \A p \in Owners : conn[p] \notin {"guarded", "cut"}
  /\ Becomes(o, {"open"}, "guarded")
  /\ UNCHANGED expired

Cut(o) == Becomes(o, {"guarded"}, "cut") /\ UNCHANGED expired

End(o, verdict) ==
  /\ Becomes(o, {"open", "guarded", "cut"}, "ended")
  /\ conn[o] = "cut" => verdict
  /\ expired' = [expired EXCEPT ![o] = verdict]

Close(o) ==
  /\ Becomes(o, {"ended"}, "none")
  /\ expired' = [expired EXCEPT ![o] = FALSE]

(* The board restarts. *)
Reset ==
  /\ conn' = [o \in Owners |-> "none"]
  /\ expired' = [o \in Owners |-> FALSE]

Next ==
  \/ \E o \in Owners :
       \/ Open(o) \/ Guard(o) \/ Cut(o) \/ Close(o)
       \/ \E verdict \in BOOLEAN : End(o, verdict)
  \/ Reset

Spec == Init /\ [][Next]_vars
=============================================================================
