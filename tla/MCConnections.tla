--------------------------- MODULE MCConnections ---------------------------
(* Instances of HttpDeadline and Links for TLC: a download's connection and *)
(* the board's, the one to end and the other to come back.  Both owners and *)
(* two descriptors, so that a closed one is reused at once.  The two share  *)
(* no variable: a behaviour is of one of them, and the other rests: nothing *)
(* is downloaded, or the setup portal is open.                              *)
EXTENDS HttpDeadline, Links, TLC

VARIABLE part

LinksRest ==
  /\ flash = [ssid |-> Nobody, backup |-> Nobody, active |-> FALSE, told |-> FALSE]
  /\ cfg = flash /\ keep = FALSE
  /\ boot = [AsksWire("portal") EXCEPT !.pc = "portal"]
  /\ sta = Off /\ gateway = Unproven /\ wire = [lease |-> FALSE, down |-> 0]
  /\ seen = Unseen(0)
MCInit ==
  /\ Init
  /\ \/ part = "deadline" /\ LinksRest
     \/ part = "links"    /\ LinkInit

MCNext ==
  \/ part = "deadline" /\ Next     /\ UNCHANGED <<part, linkVars>>
  \/ part = "links"    /\ LinkNext /\ UNCHANGED <<part, vars>>

MCSpec ==
  /\ MCInit /\ [][MCNext]_<<part, vars, linkVars>>
  /\ Fairness /\ LinkFairness
(* Each part keeps its shape.                                              *)
TypesOK == TypeOK /\ LinkTypeOK
=============================================================================
