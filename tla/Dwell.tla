------------------------------- MODULE Dwell -------------------------------
(***************************************************************************)
(* How long a switched row has stood (logic/state_dwell.hpp,               *)
(* state_dwell.cpp): one slot of the table, folded from the poll cycles,   *)
(* kept in uninitialised RAM over a reset that kept power.  Time is in     *)
(* ticks; a row reads 1 or 2, or is not read: 0.                           *)
(***************************************************************************)
EXTENDS Integers, Sequences, FiniteSets
Sets == INSTANCE FiniteSetsExt

CONSTANTS
  DwellModels,      \* profiles that have the row
  MaxGap,      \* DWELL_MAX_GAP_S
  Cadence,     \* the profile's longest time between two sweeps
  Reboot,      \* DWELL_REBOOT_BLIND_S
  Pauses,      \* ticks between two folds, or from the start of a boot to the first
  MaxLog,      \* folds and restarts of one unit that are followed
  MaxForms,    \* forms that name a model or ask for a detection
  RestartMidForm  \* a restart may come between a form and the next fold

ASSUME DwellAssumption ==
  /\ MaxGap \in Nat /\ Cadence \in Nat /\ Pauses \subseteq Nat /\ MaxLog \in Nat
  /\ Reboot \in Nat \ {0} /\ {"auto", "none"} \cap DwellModels = {}

VARIABLES
  tally,     \* the row's slot, in .noinit
  label,    \* model_fp of the record
  dwell,    \* RAM: s_last_us, s_reset_requested, s_adopt_detect_grace, s_model_fp
  inUse,    \* the configured model, and the one in use once detected
  forms,    \* forms so far, and what one has still to call
  shown,    \* the row as the last fold read it, 0 if it may not be shown
  log       \* ghost: the folds of the unit in use, and its restarts

dwellVars == <<tally, label, dwell, inUse, forms, shown, log>>

-----------------------------------------------------------------------------
(* A fold *)

Unused == [used |-> FALSE, code |-> 0, since |-> 0, blind |-> 0, gap |-> 0,
           gapped |-> FALSE, exact |-> FALSE, stale |-> FALSE]
Opened(code) == [Unused EXCEPT !.used = TRUE, !.code = code]

Blind(s, dt) ==
  [s EXCEPT !.gap = @ + dt, !.gapped = TRUE, !.since = @ + dt, !.blind = @ + dt,
            !.stale = s.gap + dt > MaxGap]

InGap(s) == s.gap # 0 \/ s.gapped
ObservedRead(s, code, dt) ==
  LET broken == s.stale \/ (InGap(s) /\ s.gap + dt > MaxGap)
  IN  IF broken \/ s.code # code THEN [Opened(code) EXCEPT !.exact = ~InGap(s)]
      ELSE [s EXCEPT !.since = @ + dt, !.blind = @ + (IF InGap(s) THEN dt ELSE 0),
                     !.gap = 0, !.gapped = FALSE]

Step(s, code, dt) ==
  LET w == IF s.used /\ ~s.stale /\ dt > MaxGap THEN Blind(s, dt) ELSE s
  IN  IF code # 0 THEN (IF s.used THEN ObservedRead(w, code, dt) ELSE Opened(code))
      ELSE IF ~w.used \/ w.stale THEN w
      ELSE Blind(w, dt)

(* A read that comes later than the sweeps of this profile can be apart is  *)
(* a gap and a read.                                                        *)
StepWithCadence(s, code, dt) ==
  IF code # 0 /\ dt > Cadence THEN Step(Step(s, 0, dt), code, 0) ELSE Step(s, code, dt)

AdoptedAfresh(s) ==                                           \* mutant
  IF ~s.used \/ s.stale THEN s
  ELSE [Blind(s, Reboot) EXCEPT !.gap = Reboot, !.stale = Reboot > MaxGap]
Adopted(s) ==
  IF ~s.used \/ s.stale THEN s
  ELSE [Blind(s, Reboot) EXCEPT !.gapped = s.gapped]

-----------------------------------------------------------------------------
(* A unit that is another than the log's starts a log of its own.           *)
LogOf(model) == log' = IF log.of = model THEN log ELSE [of |-> model, folds |-> <<>>]
F    == log.folds
Time == IF F = <<>> THEN 0 ELSE F[Len(F)].at
Logged(dt, code) ==
  log' = [log EXCEPT !.folds = Append(@, [at |-> Time + dt, code |-> code])]
Nothing == [of |-> "none", folds |-> <<>>]

DwellInit ==
  /\ tally = Unused /\ label = "none"
  /\ dwell = [last |-> FALSE, reset |-> FALSE, grace |-> FALSE, model |-> "none"]
  /\ \E m \in DwellModels \cup {"auto"} : inUse = [set |-> m, now |-> m]
  /\ forms = [made |-> 0, todo |-> <<>>]
  /\ shown = 0 /\ log = Nothing

(* dwell_record of a cycle of the current generation.  An unconfigured unit *)
(* is not read.  The cycle in which a reset is found is dropped whole.      *)
Fold ==
  /\ Len(log.folds) < MaxLog /\ forms.todo = <<>>
  /\ \E dt \in Pauses, code \in 0..2 :
       /\ inUse.now = "auto" => code = 0
       /\ IF dwell.reset
          THEN /\ dwell' = [dwell EXCEPT !.reset = FALSE, !.last = FALSE]
               /\ tally' = Unused /\ label' = dwell.model /\ shown' = 0
               /\ UNCHANGED log
          ELSE LET past == IF dwell.last THEN dt ELSE 0
               IN  /\ dwell' = [dwell EXCEPT !.last = TRUE]
                   /\ tally' = StepWithCadence(tally, code, past)
                   /\ label' = dwell.model
                   /\ shown' = code
                   /\ Logged(past, code)
  /\ UNCHANGED <<inUse, forms>>

(* set_hp and do_detect: saved, and the generation moves, then dwell_reset  *)
(* and dwell_reset_on_detect of a model that was named.                     *)
Form ==
  /\ forms.todo = <<>> /\ forms.made < MaxForms
  /\ \E m \in DwellModels \cup {"auto"} :
       /\ inUse' = [set |-> m, now |-> m]
       /\ forms' = [made |-> forms.made + 1,
                    todo |-> IF m = "auto" THEN <<"reset">> ELSE <<"reset", "on">>]
       /\ log' = [of |-> m, folds |-> <<>>]
  /\ shown' = 0
  /\ UNCHANGED <<tally, label, dwell>>

ResetOn(m) ==
  dwell' = IF dwell.grace /\ m = dwell.model THEN [dwell EXCEPT !.grace = FALSE]
           ELSE [dwell EXCEPT !.grace = FALSE, !.model = m, !.reset = TRUE]
FormCalls ==
  /\ forms.todo # <<>> /\ forms' = [forms EXCEPT !.todo = Tail(@)]
  /\ IF Head(forms.todo) = "reset" THEN dwell' = [dwell EXCEPT !.reset = TRUE]
     ELSE ResetOn(inUse.set)
  /\ UNCHANGED <<tally, label, inUse, shown, log>>

Detects ==
  /\ inUse.now = "auto" /\ forms.todo = <<>>
  /\ \E m \in DwellModels : /\ inUse' = [inUse EXCEPT !.now = m]
                       /\ ResetOn(m)
                       /\ LogOf(m)
  /\ UNCHANGED <<tally, label, forms, shown>>

(* A restart: RAM that kept power is adopted, unless its seal is broken or  *)
(* the boot is in safe mode.                                                *)
BoardRestarts ==
  /\ Len(log.folds) < MaxLog
  /\ dwell.reset \/ forms.todo # <<>> => RestartMidForm
  /\ \/ /\ tally' = Adopted(tally) /\ label' = label
        /\ dwell' = [last |-> TRUE, reset |-> FALSE, grace |-> TRUE, model |-> label]
        /\ Logged(Reboot, 0)
     \/ /\ tally' = Unused /\ label' = "none"
        /\ dwell' = [last |-> FALSE, reset |-> FALSE, grace |-> FALSE, model |-> "none"]
        /\ log' = [log EXCEPT !.folds = <<>>]
  /\ inUse' = [inUse EXCEPT !.now = inUse.set]
  /\ forms' = [forms EXCEPT !.todo = <<>>]
  /\ shown' = 0

DwellNext == Fold \/ Form \/ FormCalls \/ Detects \/ BoardRestarts
DwellSpec == DwellInit /\ [][DwellNext]_dwellVars

-----------------------------------------------------------------------------
(* Properties *)

DwellTypeOK ==
  /\ tally.code \in 0..2 /\ tally.since \in Nat /\ tally.blind \in 0..tally.since
  /\ label \in DwellModels \cup {"none"} /\ inUse.now \in DwellModels \cup {"auto"}
  /\ shown \in 0..2 /\ Len(log.folds) =< MaxLog

(* What is shown beside the row, and what the log of the unit allows.       *)
Reading ==
  IF dwell.reset \/ forms.todo # <<>> \/ tally.code # shown \/ tally.stale
  THEN [known |-> FALSE]
  ELSE [known |-> TRUE, exact |-> tally.exact, since |-> tally.since, blind |-> tally.blind]

(* A read follows another; a run begins at the first read, one after too    *)
(* long a time, and one that says something else.  A sweep watched the time *)
(* before a read if it read the row too and was not too long ago.           *)
Reads      == {i \in DOMAIN F : F[i].code # 0}
Before(i)  == {j \in Reads : j < i}
Prev(i)    == Sets!Max(Before(i))
TimeTo(i)  == F[i].at - F[Prev(i)].at
Watched(i) == Prev(i) = i - 1 /\ TimeTo(i) =< Cadence /\ TimeTo(i) =< MaxGap
Begins(i)  == Before(i) = {} \/ TimeTo(i) > MaxGap \/ F[Prev(i)].code # F[i].code
Unseen(i)  == (F[Prev(i)].at + 1)..F[i].at

Start   == Sets!Max({i \in Reads : Begins(i)})
Unwatched == UNION {Unseen(i) : i \in {j \in Reads : j > Start /\ ~Watched(j)}}
Allowed ==
  [known |-> TRUE,
   exact |-> Before(Start) # {} /\ Watched(Start),
   since |-> F[Sets!Max(Reads)].at - F[Start].at,
   blind |-> Cardinality(Unwatched)]

(* The age shown beside a row is the one its reads justify, over short and  *)
(* long gaps, late sweeps and restarts, and none is carried from one unit   *)
(* to another: it starts at the last change or break, counts as unwatched   *)
(* exactly the time no sweep watched, and is called exact only if the       *)
(* change was seen.                                                         *)
AgesExact ==
  /\ DwellTypeOK
  /\ (shown # 0 /\ ~dwell.reset /\ forms.todo = <<>> => Reading = Allowed)
=============================================================================
