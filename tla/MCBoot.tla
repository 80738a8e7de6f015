------------------------------- MODULE MCBoot -------------------------------
(* Recovery and Config for TLC: what a boot decides before it starts its    *)
(* tasks, and the settings it loads and the forms change.  They share no    *)
(* variable: a behaviour is of one of them, and the other rests.            *)
EXTENDS Recovery, Config, TLC

VARIABLE part

MCGaps  == {1, 2}
MCPads  == 1..4
MCLinks == {{1, 2}, {3, 4}}
MCDefaultLink == {1, 2}
MCLedPads == {1, 3}
MCBtnPads == {1}
MCEnvPads == {3}

Perms == Permutations(Models)

RecoveryRests == Init /\ bootFails = 0 /\ heapRst = 0 /\ ~marker
ConfigRests == ConfigInit /\ cfgState = "absent" /\ cfgBlob = SeedBlob /\ linkState = "absent"
                          /\ linkBlob.link = DefaultLink

MCInit ==
  \/ part = "recovery" /\ Init /\ ConfigRests
  \/ part = "config"   /\ RecoveryRests /\ ConfigInit
MCNext ==
  \/ part = "recovery" /\ Next       /\ UNCHANGED <<part, configVars>>
  \/ part = "config"   /\ ConfigNext /\ UNCHANGED <<part, vars>>
MCSpec == MCInit /\ [][MCNext]_<<part, vars, configVars>>

(* Each part keeps its shape.                                               *)
TypesOK == TypeOK /\ ConfigTypeOK
=============================================================================
