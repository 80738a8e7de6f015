-------------------------- MODULE MCJournalRestore --------------------------
(* Instance of Journal for TLC: a full journal written by one source.       *)
EXTENDS Journal, TLC

OneSource == <<"modbus">>
=============================================================================
