------------------------------ MODULE TankLoss ------------------------------
(***************************************************************************)
(* The filter that times one quiet hour of the hot-water tank              *)
(* (logic/checkup.hpp, and its handoff in checkup.cpp).  A charge ends the *)
(* candidate, and a long one is waited out before the next; rows that did  *)
(* not answer and time nobody watched are blind time, of which a candidate *)
(* bears a little; a software restart carries the candidate on.            *)
(*                                                                         *)
(* Time is in ticks.  A sample shows whether the tank is charged (the two  *)
(* witnesses) and how its temperature lies to the one before; the rate and *)
(* the context marks of a window (pump, draw, circulation) are not here.   *)
(***************************************************************************)
EXTENDS Integers

CONSTANTS
  Quiet,      \* DHW_LOSS_WINDOW_S
  Grace,      \* DHW_LOSS_CLOSE_GRACE_S
  Settle,     \* DHW_LOSS_SETTLE_S
  ChargeMin,  \* DHW_LOSS_CHARGE_MIN_S
  BlindRun,   \* DHW_LOSS_BLIND_RUN_MAX_S
  BlindMax,   \* DHW_LOSS_BLIND_MAX_PCT of the window
  Lapse,      \* CHECKUP_MAX_GAP_S
  Down,       \* DHW_LOSS_REBOOT_BLIND_S, and the time a restart takes
  Looks,      \* what a sample may show: [heat, temp]
  LastMoment  \* bound of time

ASSUME TankAssumption ==
  /\ {Quiet, Grace, Settle, BlindRun, BlindMax, Down, LastMoment} \subseteq Nat
  /\ {ChargeMin, Lapse} \subseteq Nat \ {0}
  /\ Looks \subseteq [heat : {"on", "off", "unread"}, temp : {"near", "far", "unread", "bad"}]

VARIABLES
  moment, booted,   \* time, and the start of this boot
  sourced,          \* s_source_confirmed
  filter,           \* DhwLossState
  handoff,          \* PersistedDhwHandoff in .noinit
  counted,          \* the window this step counted
  told              \* ghost: what the samples showed

tankVars == <<moment, booted, sourced, filter, handoff, counted, told>>

-----------------------------------------------------------------------------
No == -1
Clock == moment - booted
Lower(a, b)  == IF a < b THEN a ELSE b
Higher(a, b) == IF a > b THEN a ELSE b

(* A fresh filter does not know whether a charge ended just before.         *)
FreshFilter ==
  [at |-> No, open |-> FALSE, begun |-> 0, carried |-> 0, blind |-> 0, blindRun |-> 0,
   charge |-> 0, settle |-> 0, hold |-> Settle, endKnown |-> FALSE]
NoHandoff == [valid |-> FALSE, open |-> FALSE, age |-> 0, blind |-> 0, blindRun |-> 0,
              charge |-> 0, settle |-> 0]
NoWindow == [from |-> No, to |-> No, observed |-> 0]

(* The ghost: since when the candidate runs and the longest and the whole   *)
(* time it was out of sight, not counting a gap that passes for watched,    *)
(* and one more for a restart; how long a charge may have lasted; and the   *)
(* time seen without one since the last long charge.                        *)
NewTale  == [from |-> No, good |-> No, spare |-> Lapse, worst |-> 0, dark |-> 0, rested |-> FALSE]
NewStory == [tale |-> NewTale, hot |-> FALSE, span |-> 0, rest |-> 0, last |-> No]

TankInit ==
  /\ moment = 0 /\ booted = 0 /\ sourced = FALSE
  /\ filter = FreshFilter /\ handoff = NoHandoff /\ counted = NoWindow /\ told = NewStory

-----------------------------------------------------------------------------
(* DhwLossState::reset_segment, and dhw_loss_abort without its statistics.  *)
Dropped(f) == [f EXCEPT !.open = FALSE, !.begun = 0, !.carried = 0, !.blind = 0]

(* dhw_loss_blind_ok, and the end of a candidate that was not seen enough.  *)
Blinded1(f, n) ==
  LET g == [f EXCEPT !.blindRun = @ + n, !.blind = @ + n]
  IN  IF g.blindRun =< BlindRun /\ g.blind =< BlindMax THEN g ELSE Dropped(g)

(* dhw_loss_age_s *)
Age(f) == Clock - f.begun + f.carried

(* A charge was witnessed: a long one, or one seen after a gap, is waited   *)
(* out; what was not read before it may have been charge.                   *)
Heated(f, seen) ==
  LET charge == Lower(f.charge + seen, ChargeMin)
  IN  Dropped([f EXCEPT !.blindRun = 0, !.charge = charge,
                        !.settle = IF charge >= ChargeMin THEN Settle ELSE @])

(* Both witnesses read, no charge: a short one with an unread tail may have *)
(* run on.                                                                  *)
Ceased(f) ==
  [f EXCEPT !.charge = 0,
            !.settle = IF f.charge > 0 /\ f.charge + f.blindRun >= ChargeMin THEN Settle ELSE @]

(* Settling is spent on samples that read both witnesses.                   *)
Settling(f, s, dt) ==
  Dropped(IF s.heat = "off"
          THEN [f EXCEPT !.settle = Higher(0, @ - dt), !.hold = Higher(0, @ - dt), !.blindRun = 0]
          ELSE [f EXCEPT !.blindRun = @ + dt])

Opens(f) == [f EXCEPT !.open = TRUE, !.begun = Clock, !.carried = 0]

(* The candidate after a sample that read everything, and whether it is     *)
(* counted: it is, at the first confirmed reading of the hour's end.        *)
Counts(f, confirmed) ==
  f.open /\ Age(f) \in Quiet..Quiet + Grace /\ confirmed
Attested(f, confirmed) ==
  LET g == [f EXCEPT !.blindRun = 0]
  IN  IF ~f.open THEN IF confirmed THEN Opens(g) ELSE g
      ELSE IF Age(f) > Quiet + Grace THEN Dropped(g)
      ELSE IF Counts(f, confirmed) THEN [Opens(g) EXCEPT !.blind = 0]
      ELSE g

(* dhw_loss_step *)
Step1(s) ==
  LET gap        == IF filter.at = No THEN 0 ELSE Clock - filter.at
      continuous == filter.at # No /\ gap =< Lapse
      confirmed  == continuous /\ filter.endKnown /\ s.temp = "near"
      f == [filter EXCEPT !.at = Clock, !.endKnown = s.temp \in {"near", "far"}]
      g == IF s.heat = "off" THEN Ceased(f) ELSE f
  IN  IF s.heat = "on" THEN [next |-> Heated(f, IF continuous THEN f.blindRun + gap ELSE ChargeMin),
                             counts |-> FALSE]
      ELSE IF ~continuous THEN [next |-> Blinded1(g, gap), counts |-> FALSE]
      ELSE IF g.settle > 0 \/ g.hold > 0 THEN [next |-> Settling(g, s, gap), counts |-> FALSE]
      ELSE IF s.temp = "bad" THEN [next |-> Dropped(g), counts |-> FALSE]
      ELSE IF s.heat = "unread" \/ s.temp = "unread"
           THEN [next |-> Blinded1(g, gap), counts |-> FALSE]
      ELSE [next |-> Attested(g, confirmed), counts |-> Counts(g, confirmed)]

-----------------------------------------------------------------------------
(* The ghost's account of a sample.  A charge may have lasted from the last *)
(* sample that showed none to the last that did not rule it out; beside an  *)
(* implausible temperature the code does not keep unread time (README).     *)
Saw(s) ==
  LET dt    == IF told.last = No THEN 0 ELSE moment - told.last
      near  == told.last # No /\ dt =< Lapse
      span  == IF s.heat = "off" \/ (s.heat = "unread" /\ s.temp = "bad")
               THEN told.span ELSE told.span + dt
      hot   == told.hot \/ s.heat = "on"
      long  == hot /\ span >= ChargeMin
  IN  [told EXCEPT
         !.last = moment,
         !.rest = Lower(Settle, (IF long THEN 0 ELSE @) + (IF s.heat = "off" /\ near THEN dt ELSE 0)),
         !.hot  = s.heat # "off" /\ hot,
         !.span = IF s.heat = "off" THEN 0 ELSE Lower(ChargeMin, span)]
Candidate(s, rest, opens) ==
  LET t == told.tale
      dark == Higher(0, moment - t.good - t.spare)
  IN  IF opens THEN [NewTale EXCEPT !.from = moment, !.good = moment, !.rested = rest >= Settle]
      ELSE IF s.heat = "off" /\ s.temp \in {"near", "far"}
      THEN [t EXCEPT !.good = moment, !.spare = Lapse, !.worst = Higher(@, dark), !.dark = @ + dark]
      ELSE t

-----------------------------------------------------------------------------
(* The actions *)

Moves ==
  /\ moment < LastMoment /\ moment' = moment + 1 /\ counted' = NoWindow
  /\ UNCHANGED <<booted, sourced, filter, handoff, told>>

(* checkup_record's call of dhw_loss_step *)
Samples(s) ==
  /\ sourced /\ filter.at < Clock
  /\ LET step  == Step1(s)
         shown == Saw(s)
         closed == Candidate(s, shown.rest, FALSE)
     IN  /\ filter' = step.next
         /\ counted' = IF step.counts
                       THEN [from |-> closed.from, to |-> moment, worst |-> closed.worst,
                             dark |-> closed.dark, rested |-> closed.rested,
                             observed |-> Age(filter) - Lower(Age(filter), filter.blind)]
                       ELSE NoWindow
         /\ told' = [shown EXCEPT !.tale =
              IF ~step.next.open THEN NewTale
              ELSE Candidate(s, shown.rest, step.counts \/ ~filter.open)]
  /\ UNCHANGED <<moment, booted, sourced, handoff>>

(* A reset of the source, of the consent or of the circulation witness, or  *)
(* an open hour that expired.                                               *)
StartsOver ==
  /\ sourced /\ filter' = FreshFilter /\ told' = NewStory /\ counted' = NoWindow
  /\ UNCHANGED <<moment, booted, sourced, handoff>>

(* dhw_loss_checkpoint *)
Checkpoint ==
  [valid |-> TRUE, open |-> filter.open, age |-> IF filter.open THEN Age(filter) ELSE 0,
   blind |-> filter.blind, blindRun |-> filter.blindRun, charge |-> filter.charge,
   settle |-> filter.settle]

(* A restart: checkup_reboot_save hands the filter on, a crash does not;    *)
(* without a confirmed source the next boot refuses the handoff.  The poll  *)
(* task cycles until the restart, even when it may not read.                *)
Restarts(saved) ==
  /\ moment + Down =< LastMoment /\ (saved => sourced /\ filter.at + Lapse >= Clock)
  /\ handoff' = IF saved THEN Checkpoint ELSE NoHandoff
  /\ moment' = moment + Down /\ booted' = moment' /\ sourced' = FALSE
  /\ filter' = FreshFilter /\ counted' = NoWindow
  /\ told' = IF saved THEN [told EXCEPT !.last = No, !.tale.spare = @ + Lapse,
                              !.rest = IF filter.hold > 0 THEN Settle - filter.settle ELSE @]
             ELSE NewStory

(* checkup_reset_on_detect, the first time, and dhw_loss_adopt: the time    *)
(* since the checkpoint is age of the candidate, and blind.                 *)
AdoptedBlindDown == Down   \* mutant: this boot's time is forgotten
AdoptedBlind == Clock + Down
Adopted1(h) ==
  LET f == [FreshFilter EXCEPT !.at = Clock, !.settle = h.settle, !.hold = 0, !.charge = h.charge,
                               !.blindRun = h.blindRun]
  IN  IF ~h.open THEN f
      ELSE Blinded1([f EXCEPT !.open = TRUE, !.begun = Clock, !.carried = h.age + AdoptedBlind,
                              !.blind = h.blind], AdoptedBlind)
Confirms(same) ==
  /\ ~sourced /\ sourced' = TRUE /\ handoff' = NoHandoff /\ counted' = NoWindow
  /\ IF handoff.valid /\ same
     THEN LET f == Adopted1(handoff)
          IN  /\ filter' = f
              /\ told' = [told EXCEPT !.last = moment, !.tale = IF f.open THEN @ ELSE NewTale]
     ELSE filter' = FreshFilter /\ told' = NewStory
  /\ UNCHANGED <<moment, booted>>

TankNext ==
  \/ Moves
  \/ \E s \in Looks : Samples(s)
  \/ StartsOver
  \/ \E b \in BOOLEAN : Restarts(b) \/ Confirms(b)

TankSpec == TankInit /\ [][TankNext]_tankVars

-----------------------------------------------------------------------------
TankTypeOK ==
  /\ moment \in 0..LastMoment /\ booted =< moment
  /\ filter.settle \in 0..Settle /\ filter.hold \in 0..Settle /\ filter.charge \in 0..ChargeMin
  /\ filter.open => filter.settle = 0 /\ filter.hold = 0

(* A counted window lasted an hour of real time and little more, across     *)
(* restarts too; it began only after the tank was seen at rest long enough  *)
(* since a fresh start or a charge that may have been long; and it was      *)
(* never out of sight for long, nor is that time told as observed.          *)
LossExact ==
  /\ TankTypeOK
  /\ counted # NoWindow =>
       /\ counted.from # No /\ counted.to - counted.from \in Quiet..Quiet + Grace
       /\ counted.rested
       /\ counted.worst =< BlindRun
       /\ counted.observed =< counted.to - counted.from - counted.dark
=============================================================================
