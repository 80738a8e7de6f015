------------------------------ MODULE MCConfig ------------------------------
(* Instance of Config for TLC. *)
EXTENDS Config, TLC

MCPads  == 1..4
MCLinks == {{1, 2}, {3, 4}}
MCDefaultLink == {1, 2}
MCLedPads == {1, 3}
MCBtnPads == {1}
MCEnvPads == {3}

Perms == Permutations(Models)
=============================================================================
