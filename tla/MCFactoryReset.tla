--------------------------- MODULE MCFactoryReset ---------------------------
(* Instance of FactoryReset for TLC. *)
EXTENDS FactoryReset, TLC

MCSites == {"net", "ota"}
MCAskedTwice == {"net"}
=============================================================================
