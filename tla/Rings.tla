------------------------------- MODULE Rings --------------------------------
(***************************************************************************)
(* The 24-hour trend ring over restarts (history.cpp, and the arithmetic   *)
(* of logic/history_persist.hpp): it fills on a raster of this boot's own  *)
(* clock, survives a reset that keeps power, is adopted with the time      *)
(* nobody watched booked as gaps, and is filed in the flash journal under  *)
(* wall-clock buckets, from where a ring that was lost is restored.        *)
(*                                                                         *)
(* Time is in ticks, Step of them a bucket.  A sample is the instant its   *)
(* bucket closed, so that where the ring or the journal puts it can be     *)
(* compared with where it belongs.  The ring is one of the shared raster   *)
(* that outlives a change of the unit.                                     *)
(***************************************************************************)
EXTENDS Integers, Sequences, FiniteSets, FiniteSetsExt

CONSTANTS
  Step,        \* HISTORY_DT_S
  RingSlots,   \* HISTORY_SAMPLES
  Allowance,   \* DWELL_REBOOT_BLIND_S
  Downtimes,   \* the time a reset may take
  Reach,       \* HISTORY_ADOPT_FLOOR_REACH_BUCKETS
  Phases,      \* where in a wall bucket the first boot starts
  LastTime,    \* bound of time, which starts a ring's length after 0
  MaxSeams     \* bound of restarts

ASSUME RingsAssumption ==
  /\ Step \in Nat /\ Step > 1 /\ RingSlots \in Nat \ {0} /\ Allowance \in Nat
  /\ Downtimes \subseteq Nat /\ Reach \in Nat /\ Phases \subseteq Nat /\ MaxSeams \in Nat

VARIABLES
  time, born,  \* time, and the start of this boot
  dated,       \* time_synced
  trend,       \* TrendRing, oldest first
  raster,      \* s_have_bucket, s_bucket, s_last_commit_us and the open bucket
  sealed,      \* PersistedHistory: residual_us, boots_since_commit
  pulse,       \* HistoryLiveness
  filed,       \* the journal's records of this ring
  writer,      \* the journal's cursor and restore state in RAM
  seams        \* ghost: restarts so far, and what the README says of the journal

ringsVars == <<time, born, dated, trend, raster, sealed, pulse, filed, writer, seams>>

-----------------------------------------------------------------------------
None == -1
Uptime == time - born
BucketOf(t) == t \div Step
Boundary(t) == BucketOf(t) * Step

(* A sample knows when its bucket closed, and (ghost) how far it may be off *)
(* by errors that are not those of rounding.                                *)
Unread == [closed |-> None, slack |-> 0]
Unreads(n) == [i \in 1..n |-> Unread]

(* TrendRing::push, commit and append_gaps                                  *)
Youngest(s) == IF Len(s) > RingSlots THEN SubSeq(s, Len(s) - RingSlots + 1, Len(s)) ELSE s

NoRaster == [open |-> FALSE, bucket |-> 0, commit |-> None, fresh |-> FALSE]
NewPulse == [sign |-> 0, commit |-> None]
Cursor == IF filed = {} THEN None ELSE Max({e.bucket : e \in filed})
NewWriter(booked) == [cursor |-> Cursor, restored |-> FALSE, seam |-> booked, floor |-> None]

RingsInit ==
  /\ time \in {RingSlots * Step + p : p \in Phases} /\ born = time /\ dated = FALSE
  /\ trend = <<>> /\ raster = NoRaster /\ sealed = [residual |-> 0, boots |-> 0]
  /\ pulse = NewPulse /\ filed = {}
  /\ writer = [cursor |-> None, restored |-> FALSE, seam |-> None, floor |-> None]
  /\ seams = [count |-> 0, astray |-> FALSE]

-----------------------------------------------------------------------------
(* The raster *)

(* The wall-clock bucket of the newest commit.                              *)
Anchor(commit) == BucketOf(born + commit)

(* history_liveness_commit and _touch *)
Signed(t) == [pulse EXCEPT !.sign = IF t > @ THEN t ELSE @]
Committed(t) == [Signed(t) EXCEPT !.commit = t]

(* advance_raster_locked: the first look fills the buckets that went by     *)
(* with gaps, a later one closes the open bucket, and one that comes with   *)
(* an older bucket than the raster's moves nothing.                         *)
Slides(t, b) ==
  raster.commit # None /\ Anchor(t) - Anchor(raster.commit) # b - raster.bucket
Overtaken(b) == b =< raster.bucket
Advances(t) ==
  LET b == BucketOf(t)
      reading == IF raster.fresh
                 THEN [closed |-> born + (raster.bucket + 1) * Step, slack |-> 0] ELSE Unread
  IN  IF ~raster.open
      THEN /\ trend' = Youngest(Unreads(b))
           /\ raster' = [raster EXCEPT !.open = TRUE, !.bucket = b, !.fresh = TRUE,
                                       !.commit = IF b > 0 THEN b * Step ELSE @]
           /\ pulse' = IF b > 0 THEN Committed(b * Step) ELSE pulse
           /\ UNCHANGED <<sealed, seams>>
      ELSE IF Overtaken(b)
      THEN raster' = [raster EXCEPT !.fresh = TRUE] /\ UNCHANGED <<trend, pulse, sealed, seams>>
      ELSE /\ trend' = Youngest(Append(trend, reading) \o Unreads(b - raster.bucket - 1))
           /\ raster' = [raster EXCEPT !.bucket = b, !.commit = t, !.fresh = TRUE]
           /\ pulse' = Committed(t) /\ sealed' = [sealed EXCEPT !.boots = 0]
           /\ seams' = [seams EXCEPT !.astray = @ \/ Slides(t, b)]

(* A producer records: it read the clock before it got the lock.            *)
Records(t) ==
  /\ Advances(t) /\ UNCHANGED <<time, born, dated, filed, writer>>

(* A cycle of the poll task, also one that may not read.                    *)
Signs ==
  /\ pulse' = Signed(Uptime) /\ UNCHANGED <<time, born, dated, trend, raster, sealed, filed, writer, seams>>

(* A change of the unit: this ring stays, the raster's remainder is dropped *)
(* and what the journal holds is of another identity.                       *)
Retires ==
  /\ raster.open /\ sealed.residual # 0
  /\ sealed' = [sealed EXCEPT !.residual = 0]
  /\ trend' = [i \in DOMAIN trend |-> [trend[i] EXCEPT !.slack = @ + Step \div 2]]
  /\ filed' = {} /\ writer' = [writer EXCEPT !.cursor = None, !.floor = None, !.seam = None]
  /\ UNCHANGED <<time, born, dated, raster, pulse, seams>>

-----------------------------------------------------------------------------
(* The journal *)

(* history_adopt_floor_bucket, _cursor: a cursor close behind the newest    *)
(* adopted sample says that the journal holds it already.                   *)
Real == BucketOf(born - writer.seam * Step)
Floor ==
  IF writer.seam = None THEN writer.floor
  ELSE IF writer.cursor # None /\ writer.cursor < Real /\ Real - writer.cursor =< Reach
  THEN Real ELSE None
(* Ghost: a journal further behind than that may hold some of them all the same. *)
Backlogged == writer.seam # None /\ writer.cursor # None /\ Real - writer.cursor > Reach
Lifted(floor) ==
  IF writer.cursor = None \/ writer.cursor >= floor THEN writer.cursor ELSE floor

(* flash_build_next_record and the append, which may fail: the sample that  *)
(* follows the cursor, at the age the anchor gives it.                      *)
Files(ok) ==
  /\ dated /\ writer.restored /\ raster.commit # None /\ trend # <<>>
  /\ LET anchor == Anchor(raster.commit)
         oldest == anchor - Len(trend) + 1
         from   == Lifted(Floor)
         target == IF from = None \/ from + 1 < oldest THEN oldest ELSE from + 1
         seen   == [writer EXCEPT !.floor = Floor, !.seam = None]
     IN  IF ok /\ target =< anchor
         THEN /\ filed' = filed \cup {[bucket |-> target, sample |-> trend[Len(trend) - (anchor - target)]]}
              /\ writer' = [seen EXCEPT !.cursor = target]
         ELSE writer' = seen /\ filed' = filed
  /\ seams' = [seams EXCEPT !.astray = @ \/ Backlogged]
  /\ UNCHANGED <<time, born, dated, trend, raster, sealed, pulse>>

(* history_splice: the journal's window behind the live samples, which win. *)
(* A sample rounds to a wall bucket when it is filed, which a late fold may *)
(* do one bucket off, and to this raster when it is restored; the remainder *)
(* of the boot that filed it is not that of the boot that restores it.      *)
At(b) == CHOOSE e \in filed : e.bucket = b
Old(b) == IF \E e \in filed : e.bucket = b
          THEN [At(b).sample EXCEPT !.slack = IF At(b).sample.closed = None THEN 0 ELSE @ + 3 * Step]
          ELSE Unread
Merged(anchor) ==
  LET liveOldest == anchor - Len(trend) + 1
      held == {e.bucket : e \in filed}
      begins == Max({Min({liveOldest} \cup held), anchor - RingSlots + 1})
  IN  IF Cursor > anchor \/ Cursor =< anchor - RingSlots THEN trend
      ELSE [i \in 1..(anchor - begins + 1) |->
              LET b == begins + i - 1
              IN  IF b >= liveOldest THEN trend[b - liveOldest + 1] ELSE Old(b)]

(* Ghost: behind an adopted ring, which the seam moved, the journal may put *)
(* a reading that the ring holds already.                                   *)
Doubled(r) == \E i, j \in DOMAIN r : i # j /\ r[i].closed # None /\ r[i].closed = r[j].closed

(* history_service_flash_restore: a source that closed no bucket yet is     *)
(* seeded at the last boundary of its own raster.  The tick that restores   *)
(* has just recorded, so the raster is at the clock's bucket (README).      *)
Restores ==
  /\ raster.open => raster.bucket = BucketOf(Uptime)
  /\ dated /\ ~writer.restored /\ writer' = [writer EXCEPT !.restored = TRUE]
  /\ LET seeds == raster.commit = None
         commit == IF seeds THEN Boundary(Uptime) ELSE raster.commit
         anchor == Anchor(commit)
     IN  IF filed = {} \/ (seeds /\ Cursor > anchor)
         THEN UNCHANGED <<trend, raster, pulse, seams>>
         ELSE /\ trend' = Merged(anchor)
              /\ seams' = [seams EXCEPT !.astray = @ \/ Doubled(trend')]
              /\ raster' = [raster EXCEPT !.commit = commit, !.open = TRUE,
                                          !.bucket = IF raster.open THEN @ ELSE BucketOf(Uptime)]
              /\ pulse' = IF seeds THEN Committed(commit) ELSE pulse
  /\ UNCHANGED <<time, born, dated, sealed, filed>>

-----------------------------------------------------------------------------
(* Restarts *)

(* history_adopt_booking: the stretch nobody measured, in whole buckets,    *)
(* and the remainder that goes to the next adoption.                        *)
Stretch == pulse.sign - Boundary(pulse.commit) + Allowance
UnwatchedAfresh == Stretch
Unwatched == Stretch + sealed.residual
Whole == (Unwatched + Step \div 2) \div Step
Booking == IF Whole >= RingSlots THEN [gaps |-> RingSlots, residual |-> 0]
           ELSE [gaps |-> Whole, residual |-> Unwatched - Whole * Step]

(* history_restore_verdict *)
Bookable == trend = <<>> \/ (pulse.commit >= 0 /\ pulse.sign >= pulse.commit)
Adoptable(kept) == kept /\ sealed.boots = 0 /\ Bookable

(* The ghost: what the sign of life and the allowance left out.             *)
Missed(down) == LET n == Uptime - pulse.sign + down - Allowance IN IF n < 0 THEN -n ELSE n

(* A reset, and history_start.                                              *)
Reboots(kept, down) ==
  /\ seams.count < MaxSeams /\ seams' = [seams EXCEPT !.count = @ + 1]
  /\ time' = time + down /\ born' = time' /\ dated' = FALSE
  /\ filed' = filed
  /\ IF Adoptable(kept)
     THEN LET booked == IF trend = <<>> THEN [gaps |-> 0, residual |-> 0] ELSE Booking
              old == [i \in DOMAIN trend |-> IF trend[i].closed = None THEN Unread
                                            ELSE [trend[i] EXCEPT !.slack = @ + Missed(down)]]
          IN  /\ trend' = IF trend = <<>> THEN trend ELSE Youngest(old \o Unreads(booked.gaps))
              /\ sealed' = [residual |-> booked.residual, boots |-> 1]
              /\ IF trend = <<>>
                 THEN raster' = NoRaster /\ pulse' = NewPulse /\ writer' = NewWriter(None)
                 ELSE /\ raster' = [NoRaster EXCEPT !.open = TRUE, !.commit = 0]
                      /\ pulse' = [NewPulse EXCEPT !.commit = 0]
                      /\ writer' = NewWriter(IF booked.gaps >= RingSlots THEN None ELSE booked.gaps)
     ELSE /\ trend' = <<>> /\ raster' = NoRaster /\ sealed' = [residual |-> 0, boots |-> 0]
          /\ pulse' = NewPulse /\ writer' = NewWriter(None)

-----------------------------------------------------------------------------
TimeGoesOn ==
  /\ time < LastTime /\ time' = time + 1
  /\ UNCHANGED <<born, dated, trend, raster, sealed, pulse, filed, writer, seams>>
Synchronises ==
  /\ ~dated /\ dated' = TRUE
  /\ UNCHANGED <<time, born, trend, raster, sealed, pulse, filed, writer, seams>>

RingsNext ==
  \/ TimeGoesOn \/ Synchronises \/ Signs \/ Retires \/ Restores
  \/ \E t \in {Uptime, Uptime - 1} : t >= 0 /\ Records(t)
  \/ \E ok \in BOOLEAN : Files(ok)
  \/ \E kept \in BOOLEAN, down \in Downtimes : time + down =< LastTime /\ Reboots(kept, down)

RingsSpec == RingsInit /\ [][RingsNext]_ringsVars

-----------------------------------------------------------------------------
RingsTypeOK ==
  /\ born =< time /\ Len(trend) =< RingSlots /\ seams.count =< MaxSeams
  /\ raster.bucket =< BucketOf(Uptime) /\ raster.commit =< Uptime /\ pulse.sign =< Uptime
  /\ sealed.residual \in -(Step \div 2)..(Step \div 2) /\ sealed.boots \in 0..1

(* Where the ring shows a sample is less than a bucket from where it        *)
(* belongs, over any number of restarts, but for what nobody could measure. *)
Distance(a, b) == IF a < b THEN b - a ELSE a - b
DatedExact ==
  \A i \in DOMAIN trend :
    trend[i].closed # None =>
      Distance(born + Boundary(raster.commit) - (Len(trend) - i) * Step, trend[i].closed)
        < Step + trend[i].slack

(* The journal holds no reading under two buckets.                          *)
FiledOnce ==
  ~seams.astray => \A e, f \in filed :
    e.sample.closed # None /\ e.sample.closed = f.sample.closed => e = f

(* The ring and its journal keep their samples in place.                   *)
TrendExact == RingsTypeOK /\ DatedExact /\ FiledOnce
=============================================================================
