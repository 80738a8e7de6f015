----------------------------- MODULE MCJournal -----------------------------
(* Instances of Journal and Rings for TLC: a full journal about to rotate,  *)
(* shared by two sources, and one ring over restarts.  They share no        *)
(* variable: a behaviour is of one of them, and the other rests.  Of the    *)
(* ring only invariants are asked, so that the journal's fairness, which a  *)
(* resting journal does not meet, takes nothing from what is checked.       *)
EXTENDS Journal, Rings

VARIABLE part

TwoSources == <<"x10a", "modbus">>

RingsRest ==
  /\ time = 0 /\ born = 0 /\ dated = FALSE /\ trend = <<>> /\ raster = NoRaster
  /\ sealed = [residual |-> 0, boots |-> 0] /\ pulse = NewPulse /\ filed = {}
  /\ writer = NewWriter(None) /\ seams = [count |-> 0, astray |-> FALSE]

MCInit ==
  /\ JournalInit
  /\ \/ part = "journal" /\ RingsRest
     \/ part = "rings"   /\ RingsInit

MCNext ==
  \/ part = "journal" /\ JournalNext /\ UNCHANGED <<part, ringsVars>>
  \/ part = "rings"   /\ RingsNext   /\ UNCHANGED <<part, journalVars>>

MCSpec == MCInit /\ [][MCNext]_<<part, journalVars, ringsVars>> /\ JournalFairness
=============================================================================
