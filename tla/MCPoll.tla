------------------------------- MODULE MCPoll -------------------------------
(* Polling, Dwell, Probe, Checkup, Revisions and TankLoss for TLC: the poll *)
(* task and what it keeps of its sweeps.  They share no variable: a         *)
(* behaviour is of one of them, the others rest in a first state.           *)
EXTENDS Polling, Dwell, Probe, Checkup, Revisions, TankLoss, TLC

VARIABLE part

(* A unit that fits two profiles on the first wire, one that fits another   *)
(* on the second, and a profile that differs from the first by its range.   *)
MCUnits == ("l" :> [pages |-> {"a", "b"}, kw |-> 8]) @@ ("m" :> [pages |-> {"a"}, kw |-> 16])
MCSignatures == ("P" :> [pages |-> {"a", "b"}, lo |-> 4, hi |-> 8])
             @@ ("Q" :> [pages |-> {"a", "b"}, lo |-> 4, hi |-> 16])
             @@ ("R" :> [pages |-> {"a"}, lo |-> 0, hi |-> 0])
MCOrder == {<<"P", "Q">>, <<"Q", "R">>, <<"P", "R">>}
MCChoices == {<<"auto", "l">>, <<"auto", "m">>, <<"P", "l">>, <<"R", "m">>}

(* Runs for heating, for the tank, in a mode without a class, or unseen.    *)
MCSights == [rps : {"on"}, view : {"space", "dhw", "none", "stop"}]
       \cup [rps : {"off"}, view : {"space"}]
       \cup [rps : {"blind"}, view : {"none", "dhw"}]

(* A quiet, unread or charging tank; only a read one has a temperature that *)
(* is near the last, far from it, or implausible.                           *)
MCLooks == [heat : {"off", "unread"}, temp : {"near", "far", "unread", "bad"}]
      \cup [heat : {"on"}, temp : {"near"}]

DwellRests == DwellInit /\ inUse.set = "auto"
ProbeRests == ProbeInit /\ ~signal /\ drawn = 0

MCInit ==
  /\ PollInit /\ CheckupInit /\ RevisionsInit /\ TankInit
  /\ \/ part \in {"polling", "checkup", "journal", "tank"} /\ DwellRests /\ ProbeRests
     \/ part = "dwell" /\ DwellInit  /\ ProbeRests
     \/ part = "probe" /\ DwellRests /\ ProbeInit
MCNext ==
  \/ part = "polling" /\ PollNext  /\ UNCHANGED <<part, dwellVars, probeVars, checkupVars, revisionsVars, tankVars>>
  \/ part = "dwell"   /\ DwellNext /\ UNCHANGED <<part, pollVars, probeVars, checkupVars, revisionsVars, tankVars>>
  \/ part = "probe"   /\ ProbeNext /\ UNCHANGED <<part, pollVars, dwellVars, checkupVars, revisionsVars, tankVars>>
  \/ part = "checkup" /\ CheckupNext /\ UNCHANGED <<part, pollVars, dwellVars, probeVars, revisionsVars, tankVars>>
  \/ part = "journal" /\ RevisionsNext /\ UNCHANGED <<part, pollVars, dwellVars, probeVars, checkupVars, tankVars>>
  \/ part = "tank"    /\ TankNext  /\ UNCHANGED <<part, pollVars, dwellVars, probeVars, checkupVars, revisionsVars>>
MCSpec == MCInit /\ [][MCNext]_<<part, pollVars, dwellVars, probeVars, checkupVars,
                              revisionsVars, tankVars>>
=============================================================================
