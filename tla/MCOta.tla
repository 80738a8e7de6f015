------------------------------- MODULE MCOta --------------------------------
(* Ota and HomeHub for TLC.  The board leaves the factory with an image; an *)
(* update knows a newer one, too, after whose install the first is a        *)
(* downgrade, and a rebuild of the newer one that is not signed.  The two   *)
(* modules share no variable: a behaviour is of one, and the other rests.   *)
EXTENDS Ota, HomeHub, TLC

VARIABLE part

MCArtifacts == {"old", "new", "forged"}
MCVer == [a \in MCArtifacts |-> IF a = "old" THEN 1 ELSE 2]
MCSigned == {"old", "new"}

(* Where the bounds alone keep the gateway's task or form from going on.     *)
HubAtBound == turn.pc = "none" \/ rings.gen >= MaxRenamed

MCInit ==
  \/ part = "update" /\ Init /\ HubInit /\ saved = NoGateway
  \/ part = "hub"    /\ Init /\ HubInit /\ saved \notin Native
MCNext ==
  \/ part = "update" /\ Next    /\ UNCHANGED <<part, hubVars>>
  \/ part = "hub"    /\ HubNext /\ UNCHANGED <<part, vars>>
  \/ part = "hub"    /\ HubAtBound /\ UNCHANGED <<part, vars, hubVars>>
MCSpec == MCInit /\ [][MCNext]_<<part, vars, hubVars>> /\ Fairness
=============================================================================
