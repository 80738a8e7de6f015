----------------------------- MODULE MCNetwork -----------------------------
(* Instances of FactoryReset, Network and Retained for TLC: what asks the   *)
(* others before it restarts the board, takes the heap or gives up a topic. *)
(* The three share no variable: a behaviour is of one of them, and the      *)
(* others rest: no reset is asked for, and no optional task was started, as *)
(* in safe mode.                                                            *)
EXTENDS FactoryReset, Network, Retained, TLC

VARIABLE part

MCSites      == {"net", "ota"}
MCAskedTwice == {"net"}
MCRows       == ("P" :> {"a", "b", "c"}) @@ ("Q" :> {"b", "d"})
MCWithheld   == ("P" :> {"c"}) @@ ("Q" :> {})

ResetRests   == Init /\ {wifi, crash, retire} = {"data"}
NetworkRests == NetStarts("off") /\ peer.kind = "none"
RetainedRests ==
  /\ record = "none" /\ broker = {}
  /\ config = [profile |-> "auto", modbus |-> FALSE, owes |-> FALSE]
  /\ task = [Fresh EXCEPT !.pc = "off"] /\ job = NoJob
  /\ delivery = NoDelivery /\ cleanup = NoCleanup
  /\ periodic = "no" /\ link = "stopped" /\ outbox = {} /\ ring = NoEvidence
  /\ budget = [changes |-> 0, faults |-> 0]

MCInit ==
  \/ part = "reset"    /\ Init       /\ NetworkRests /\ RetainedRests
  \/ part = "network"  /\ ResetRests /\ NetInit      /\ RetainedRests
  \/ part = "retained" /\ ResetRests /\ NetworkRests /\ RetInit

MCNext ==
  \/ part = "reset"    /\ Next    /\ UNCHANGED <<part, netVars, retVars>>
  \/ part = "network"  /\ NetNext /\ UNCHANGED <<part, vars, retVars>>
  \/ part = "retained" /\ RetNext /\ UNCHANGED <<part, vars, netVars>>

MCSpec ==
  /\ MCInit /\ [][MCNext]_<<part, vars, netVars, retVars>>
  /\ NetFairness /\ RetFairness
(* Each part keeps its shape.                                              *)
TypesOK == TypeOK /\ NetTypeOK /\ RetTypeOK
=============================================================================
