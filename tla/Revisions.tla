----------------------------- MODULE Revisions -----------------------------
(***************************************************************************)
(* The flash journal of the checkup's hours (checkup.cpp,                  *)
(* logic/checkup_persist.hpp, and history.cpp's cursor, scan and restore). *)
(* A completed hour is appended under the wall-clock hour of its end.  A   *)
(* run that stops later still belongs to the hour in which it started:     *)
(* that hour is appended again, the cursor goes back to it and the later   *)
(* hours follow once more.  A software restart seals the open hour for the *)
(* last appends; a boot indexes the newest copy of each hour and restores  *)
(* them around the hours it has completed itself meanwhile.                *)
(*                                                                         *)
(* Time is wall time in half hours.  The contents of an hour are the runs  *)
(* booked into it and the circulation source its hot-water evidence was    *)
(* gathered under.  Not here: what an hour counts and when it expires      *)
(* (Checkup), sectors and slots (Journal), a clock that steps once set.    *)
(***************************************************************************)
EXTENDS Integers, Sequences, FiniteSets

CONSTANTS
  Slots,       \* CHECKUP_COMPLETED_BUCKETS
  LastWall,    \* bound of the wall time
  MaxBoots, MaxRuns, MaxMishaps,  \* bounds: boots, runs, changes and faults
  OneAtATime   \* no identity changes while the change of the other waits

ASSUME RevisionsAssumption == Slots \in Nat \ {0} /\ OneAtATime \in BOOLEAN

VARIABLES
  wall,       \* wall time, in half hours
  boot, raster, brink,  \* the boot, its start, and whether an hour's turn is about to come there
  ready,      \* the clock is set and the source confirmed
  opened,     \* CheckupState.bucket: the hour of the last sample
  pend,       \* CheckupRing.pending: its runs, its circulation source
  ring, commits, \* the completed hours, oldest first; s_live_commit_count
  runHour,    \* the hour the open run started in
  late,       \* s_revision
  ackedLabel, \* s_revision_acked
  offset,     \* s_journal_label_offset
  sealed,     \* s_seal_bucket
  cursor,     \* s_flash_last_bucket of the checkup
  due,        \* ~s_flash_checkup_restore_done
  retired,    \* s_persist_verdict is ModelChanged
  wiping,     \* s_reset_requested
  circ, circTold, circAsked, circFrom,
              \* s_dhw_source_fp, s_requested_dhw_source_fp, s_dhw_reset_requested,
              \* s_dhw_restart_bucket (Unset: not armed)
  records,    \* the journal: the records of the checkup
  scope,      \* the source and the consent generation in force
  held,       \* ghost: the scope the hours in memory were gathered in
  brought,    \* ghost: what the restore of this boot made, and when
  runs, mishaps  \* runs, changes of identity and unseen commits so far

clock     == <<wall, boot, raster, brink>>
hourly    == <<opened, pend, ring, commits, runHour, held>>
writer    == <<late, ackedLabel, offset, sealed, cursor>>
restoring == <<due, retired, brought>>
circulation == <<circ, circTold, circAsked, circFrom>>
revisionsVars == <<clock, ready, hourly, writer, restoring, wiping, circulation, records, scope,
                   runs, mishaps>>

-----------------------------------------------------------------------------
Unset == -1
RevisionSpan  == Slots - 1      \* CHECKUP_JOURNAL_REVISION_SPAN
Nobody == <<0, 0, 0>>

(* Evidence of hot water: of a circulation source, none gathered, or        *)
(* emptied when the source changed.                                         *)
Blank == 0
Voided == -1

NoHour == [id |-> Nobody, runs |-> 0, dhw |-> Blank]
Hour(k, n, d) == [id |-> <<boot, k, held>>, runs |-> n, dhw |-> d]
OnTime == [armed |-> FALSE, hour |-> 0, sent |-> Unset]
NothingBrought == [at |-> Unset, upto |-> 0, last |-> 0, own |-> {}, ring |-> <<>>]

HourNow == (wall - raster) \div 2
WallHour(t) == t \div 2
Largest(S) == CHOOSE x \in S : \A y \in S : y =< x
Least(S) == CHOOSE x \in S : \A y \in S : x =< y

Erased(of) ==
  /\ opened' = Unset /\ pend' = [runs |-> 0, dhw |-> circTold] /\ ring' = <<>> /\ commits' = 0
  /\ runHour' = Unset /\ late' = OnTime /\ sealed' = Unset /\ circFrom' = Unset
  /\ held' = of

RevisionsInit ==
  /\ wall = 1 /\ boot = 1 /\ raster = 1 /\ brink = FALSE /\ ready = FALSE
  /\ opened = Unset /\ pend = [runs |-> 0, dhw |-> 1] /\ ring = <<>> /\ commits = 0
  /\ runHour = Unset /\ late = OnTime /\ ackedLabel = Unset /\ offset = Unset /\ sealed = Unset
  /\ cursor = Unset /\ due = FALSE /\ retired = FALSE /\ brought = NothingBrought
  /\ wiping = FALSE /\ circ = 1 /\ circTold = 1 /\ circAsked = FALSE /\ circFrom = Unset
  /\ held = 1 /\ records = <<>> /\ scope = 1 /\ runs = 0 /\ mishaps = 0

-----------------------------------------------------------------------------
(* Samples *)

Passed ==
  /\ wall < LastWall /\ sealed = Unset /\ wall' = wall + 1
  /\ UNCHANGED <<boot, raster, brink, ready, hourly, writer, restoring, wiping, circulation,
                 records, scope, runs, mishaps>>

(* CheckupRing.commit: the open hour, and an empty one for each skipped.    *)
Committed(r, h, p) ==
  LET pushed == r \o [i \in 1..HourNow - h |->
                        IF i = 1 THEN Hour(h, p.runs, p.dhw) ELSE Hour(h + i - 1, 0, Blank)]
      more == Len(pushed) - Slots
  IN  IF more > 0 THEN SubSeq(pushed, more + 1, Len(pushed)) ELSE pushed

(* checkup_journal_revision_arm *)
Armed(l, h) == IF l.armed /\ h >= l.hour THEN l ELSE [armed |-> TRUE, hour |-> h, sent |-> Unset]

(* checkup_record: a requested reset takes the sample's place; a change of  *)
(* the circulation source empties the hot-water evidence; then the hours    *)
(* that ended are committed and a run may start or stop.                    *)
Sampled(event) ==
  /\ sealed = Unset
  /\ event = "starts" => runHour = Unset /\ runs < MaxRuns
  /\ event = "stops" => runHour # Unset
  /\ IF wiping
     THEN /\ event = "none" /\ wiping' = FALSE
          /\ Erased(scope) /\ circAsked' = FALSE
          /\ UNCHANGED <<circ, circTold, runs>>
     ELSE LET drained == [i \in DOMAIN ring |-> IF circAsked THEN [ring[i] EXCEPT !.dhw = Voided] ELSE ring[i]]
              old     == [pend EXCEPT !.dhw = IF circAsked THEN Voided ELSE @]
              moved   == opened # Unset /\ opened # HourNow
              hours   == IF moved THEN Committed(drained, opened, old) ELSE drained
              open    == IF moved THEN [runs |-> 0, dhw |-> circTold] ELSE [pend EXCEPT !.dhw = circTold]
              age     == HourNow - runHour
              inRing  == event = "stops" /\ age > 0 /\ age =< Len(hours)
              here    == event = "stops" /\ ~inRing
          IN  /\ IF circAsked THEN circ' = circTold /\ circFrom' = HourNow
                              ELSE UNCHANGED <<circ, circFrom>>
              /\ circAsked' = FALSE /\ opened' = HourNow
              /\ ring' = [i \in DOMAIN hours |-> IF inRing /\ i = Len(hours) + 1 - age
                                                 THEN [hours[i] EXCEPT !.runs = @ + 1] ELSE hours[i]]
              /\ pend' = IF here THEN [open EXCEPT !.runs = @ + 1] ELSE open
              /\ commits' = IF ~moved THEN commits
                         ELSE IF commits + HourNow - opened < Slots THEN commits + HourNow - opened ELSE Slots
              /\ runHour' = CASE event = "starts" -> HourNow
                              [] event = "stops" -> Unset
                              [] OTHER -> runHour
              /\ late' = IF inRing THEN Armed(late, runHour) ELSE late
              /\ runs' = IF event = "starts" THEN runs + 1 ELSE runs
              /\ UNCHANGED <<wiping, circTold, sealed, held>>
  /\ UNCHANGED <<clock, ready, ackedLabel, offset, cursor, restoring, records, scope, mishaps>>

-----------------------------------------------------------------------------
(* Labels *)

(* The half hour in which hour k of this boot ends.  On the brink of a wall *)
(* hour, whole seconds put that end on either side of it.                   *)
EndOf(k) == raster + 2 * (k + 1) - (IF brink THEN 1 ELSE 0)
Labels(k) == {WallHour(EndOf(k))} \cup IF brink THEN {WallHour(EndOf(k) + 1)} ELSE {}

Unlatched(newest, k) == newest - k                     \* mutant
(* checkup_journal_latched_newest *)
Latched(newest, k) ==
  IF offset = Unset \/ newest - (k + offset) \notin -1..1 THEN newest - k ELSE offset

(* checkup_journal_end_in_bucket *)
EndIn(label, t) ==
  IF t < 2 * label THEN 2 * label ELSE IF t > 2 * label + 1 THEN 2 * label + 1 ELSE t

LiveCount == IF commits < Len(ring) THEN commits ELSE Len(ring)

-----------------------------------------------------------------------------
(* Appending *)

(* checkup_journal_revision_bucket *)
LateLabel(newest, l) ==
  LET age == opened - 1 - l.hour
  IN  IF l.hour >= opened \/ LiveCount = 0 THEN Unset
      ELSE IF age >= LiveCount THEN newest - (LiveCount - 1) ELSE newest - age

(* checkup_journal_revision_take: a committed revision is over; one the     *)
(* cursor has not reached goes with the ordinary append.                    *)
Taken(newest) ==
  LET told == late.armed /\ late.sent # Unset /\ ackedLabel = late.sent
      at   == LateLabel(newest, late)
  IN  IF told \/ ~late.armed \/ at = Unset \/ cursor = Unset \/ at > cursor THEN OnTime ELSE late

(* checkup_journal_next_target and _next_live_bucket *)
NextLive(newest) ==
  LET oldest == newest - (LiveCount - 1)
      target == IF cursor = Unset THEN oldest ELSE cursor + 1
  IN  IF cursor >= newest THEN Unset ELSE IF target < oldest THEN oldest ELSE target
Target(newest, at) ==
  IF /\ at # Unset /\ cursor # Unset /\ at =< cursor /\ cursor =< newest
     /\ newest - at < LiveCount
  THEN at ELSE NextLive(newest)

(* checkup_journal_dhw_withheld *)
Withheld(k) == circFrom # Unset /\ k < circFrom

Filed(label, end, h, withheld) ==
  [label |-> label, end |-> EndIn(label, end), id |-> h.id, runs |-> h.runs, scope |-> scope,
   dhw |-> IF withheld THEN Voided ELSE h.dhw, circ |-> IF withheld THEN Blank ELSE circ]

(* flash_append_record_at: committed and read back, committed but not read  *)
(* back, or not committed.                                                  *)
Mishap == mishaps < MaxMishaps /\ mishaps' = mishaps + 1

AppendEnds == {"done", "unseen", "failed"}
Append1(r, outcome, confirmed) ==
  /\ records' = IF outcome = "failed" THEN records ELSE Append(records, r)
  /\ IF outcome = "unseen" THEN Mishap ELSE UNCHANGED mishaps
  /\ IF outcome = "done" THEN cursor' = r.label /\ ackedLabel' = r.label
                         ELSE ackedLabel' = confirmed /\ UNCHANGED cursor

(* history_flash_service_journal and checkup_flash_next: the live hours     *)
(* first, then the sealed one.                                              *)
CanAppend == ready /\ ~due /\ ~wiping
AppendsLive(computed, outcome) ==
  LET k      == opened - 1
      off    == Latched(computed, k)
      newest == k + off
      l      == Taken(newest)
      at     == IF l.armed THEN LateLabel(newest, l) ELSE Unset
      target == Target(newest, at)
      age    == newest - target
      sent   == at # Unset /\ target = at
      r      == Filed(target, EndOf(k) - 2 * age, ring[Len(ring) - age], Withheld(k - age))
  IN  /\ CanAppend /\ LiveCount > 0 /\ target # Unset
      /\ offset' = off
      /\ late' = IF sent THEN [l EXCEPT !.sent = target] ELSE l
      /\ Append1(r, outcome, IF sent THEN Unset ELSE ackedLabel)
      /\ UNCHANGED <<clock, ready, hourly, sealed, restoring, wiping, circulation, scope, runs>>

NothingLive(computed) ==
  LET newest == opened - 1 + Latched(computed, opened - 1)
      l      == Taken(newest)
      at     == IF l.armed THEN LateLabel(newest, l) ELSE Unset
  IN  LiveCount > 0 => Target(newest, at) = Unset
AppendsSealed(computed, outcome) ==
  /\ CanAppend /\ sealed # Unset /\ (cursor = Unset \/ sealed > cursor)
  /\ NothingLive(computed)
  /\ IF LiveCount > 0
     THEN /\ offset' = Latched(computed, opened - 1)
          /\ late' = Taken(opened - 1 + Latched(computed, opened - 1))
     ELSE UNCHANGED <<offset, late>>
  /\ Append1(Filed(sealed, wall, Hour(opened, pend.runs, pend.dhw), FALSE), outcome, ackedLabel)
  /\ UNCHANGED <<clock, ready, hourly, sealed, restoring, wiping, circulation, scope, runs>>
(* A revision already committed, or owned by the ordinary append, retires.  *)
Retires(computed) ==
  /\ CanAppend /\ LiveCount > 0 /\ NothingLive(computed)
  /\ sealed = Unset \/ ~(cursor = Unset \/ sealed > cursor)
  /\ offset' = Latched(computed, opened - 1)
  /\ late' = Taken(opened - 1 + Latched(computed, opened - 1))
  /\ UNCHANGED <<clock, ready, hourly, ackedLabel, sealed, cursor, restoring, wiping, circulation,
                 records, scope, runs, mishaps>>

-----------------------------------------------------------------------------
(* Restoring *)

(* checkup_journal_index_step over the records, newest first, and the clip  *)
(* to the window that ends at the newest hour kept.                         *)
IndexedAt(f) ==
  LET anchor  == f[Len(f)].label
      visited == {i \in DOMAIN f : \A j \in i..Len(f) : anchor - f[j].label =< 2 * RevisionSpan}
  IN  {i \in visited : /\ f[i].label - anchor \in -RevisionSpan..RevisionSpan
                       /\ \A j \in i + 1..Len(f) : f[j].label # f[i].label}
NewestIndexed(f) == Largest({f[i].label : i \in IndexedAt(f)})
Indexed(f) == {f[i] : i \in {j \in IndexedAt(f) : NewestIndexed(f) - f[j].label =< RevisionSpan}}

(* checkup_journal_in_window *)
InWindow(end) == end =< wall /\ end > wall - 2 * Slots
Admitted(f) == {r \in Indexed(f) : r.scope = scope /\ InWindow(r.end)}

(* checkup_flash_restore and checkup_journal_rebuild: each hour of the      *)
(* window is the live one, else the newest stored copy, else a gap.         *)
Restored(computed) ==
  LET k       == opened - 1
      off     == Latched(computed, k)
      newest  == k + off
      LiveAt(b) == newest - b \in 0..LiveCount - 1
                   /\ InWindow(EndIn(b, EndOf(k) - 2 * (newest - b)))
      shown   == IF LiveCount = 0 THEN {} ELSE {b \in newest - LiveCount + 1..newest : LiveAt(b)}
      stored  == Admitted(records)
      ends    == {r.label : r \in stored} \cup shown
      latest  == IF LiveCount = 0 /\ WallHour(wall) - 1 > Largest(ends)
                 THEN WallHour(wall) - 1 ELSE Largest(ends)
      first   == IF Least(ends) < latest - (Slots - 1) THEN latest - (Slots - 1) ELSE Least(ends)
      taken   == {r \in stored : r.label \in first..latest /\ r.label \notin shown}
      Of(r)   == [id |-> r.id, runs |-> r.runs,
                  dhw |-> IF circAsked \/ r.circ # circ THEN Voided ELSE r.dhw]
      At(b)   == IF b \in shown THEN [ring[Len(ring) - (newest - b)] EXCEPT
                                        !.dhw = IF circAsked THEN Blank ELSE @]
                 ELSE IF \E r \in taken : r.label = b THEN Of(CHOOSE r \in taken : r.label = b)
                 ELSE NoHour
  IN  /\ ready /\ due /\ ~retired /\ ~wiping
      /\ due' = FALSE
      /\ IF LiveCount > 0 THEN offset' = off ELSE UNCHANGED offset
      /\ ring' = IF stored = {} \/ taken = {} THEN ring
                 ELSE [i \in 1..latest - first + 1 |-> At(first + i - 1)]
      /\ brought' = [at |-> wall, upto |-> Len(records), own |-> shown, ring |-> ring',
                     last |-> IF ends = {} THEN 0 ELSE latest]
      /\ UNCHANGED <<clock, ready, opened, pend, commits, runHour, held, late, ackedLabel, sealed, cursor,
                     retired, wiping, circulation, records, scope, runs, mishaps>>
RestoreRetired ==
  /\ ready /\ due /\ retired /\ due' = FALSE
  /\ UNCHANGED <<clock, ready, hourly, writer, retired, brought, wiping, circulation, records,
                 scope, runs, mishaps>>

-----------------------------------------------------------------------------
(* The clock and the source; restarts; changes of identity *)

BecomesReady ==
  /\ ~ready /\ ready' = TRUE
  /\ UNCHANGED <<clock, hourly, writer, restoring, wiping, circulation, records, scope, runs, mishaps>>

(* checkup_reset_on_detect after checkup_reset, and checkup_set_diagnostics *)
(* with history_checkup_reset.                                              *)
SourceChanges ==
  /\ Mishap /\ sealed = Unset /\ (OneAtATime => ~circAsked)
  /\ scope' = scope + 1 /\ wiping' = TRUE /\ retired' = TRUE /\ ready' = FALSE
  /\ brought' = NothingBrought
  /\ UNCHANGED <<clock, hourly, writer, due, circulation, records, runs>>
GenerationChanges ==
  /\ Mishap /\ sealed = Unset /\ (OneAtATime => ~circAsked)
  /\ scope' = scope + 1 /\ wiping' = FALSE /\ circAsked' = TRUE
  /\ UNCHANGED <<circ, circTold>>
  /\ Erased(scope + 1) /\ cursor' = Unset /\ due' = FALSE /\ brought' = NothingBrought
  /\ UNCHANGED <<clock, ready, ackedLabel, offset, retired, records, runs>>
(* checkup_dhw_reset *)
CirculationChanges ==
  /\ Mishap /\ sealed = Unset /\ (OneAtATime => ~wiping)
  /\ circTold' = circTold + 1 /\ circAsked' = TRUE
  /\ UNCHANGED <<clock, ready, hourly, writer, restoring, wiping, circ, circFrom, records, scope, runs>>

(* seal_open_hour_locked, in the shutdown of a software restart             *)
Seals(computed) ==
  /\ sealed = Unset /\ ~wiping /\ ~circAsked /\ ready /\ opened = HourNow
  /\ LET off == IF LiveCount > 0 /\ commits > 0 THEN Latched(computed, opened - 1) ELSE offset
         label == WallHour(wall)
     IN  /\ commits > 0 => label > opened - 1 + off
         /\ offset' = off /\ sealed' = label
  /\ UNCHANGED <<clock, ready, hourly, late, ackedLabel, cursor, restoring, wiping, circulation, records,
                 scope, runs, mishaps>>

(* A boot after a restart or a loss of power; flash_journal_scan.           *)
Boots ==
  /\ boot < MaxBoots /\ wall < LastWall
  /\ wall' = wall + 1 /\ boot' = boot + 1 /\ raster' = wall + 1
  /\ brink' \in IF wall % 2 = 1 THEN BOOLEAN ELSE {FALSE}
  /\ ready' = FALSE /\ wiping' = FALSE /\ retired' = FALSE /\ brought' = NothingBrought
  /\ circ' = circTold /\ circAsked' = FALSE /\ UNCHANGED circTold
  /\ Erased(scope) /\ ackedLabel' = Unset /\ offset' = Unset
  /\ IF records = <<>> THEN cursor' = Unset /\ due' = FALSE
     ELSE cursor' = NewestIndexed(records) /\ due' = TRUE
  /\ UNCHANGED <<records, scope, runs, mishaps>>

Computed == IF opened > 0 THEN Labels(opened - 1) ELSE {Unset}
RevisionsNext ==
  \/ Passed \/ BecomesReady \/ Boots
  \/ \E e \in {"none", "starts", "stops"} : Sampled(e)
  \/ \E c \in Computed : \/ \E o \in AppendEnds : AppendsLive(c, o) \/ AppendsSealed(c, o)
                         \/ Retires(c) \/ Restored(c) \/ Seals(c)
  \/ RestoreRetired \/ SourceChanges \/ GenerationChanges \/ CirculationChanges

RevisionsSpec == RevisionsInit /\ [][RevisionsNext]_revisionsVars

-----------------------------------------------------------------------------
RevisionsTypeOK ==
  /\ wall \in 1..LastWall /\ boot \in 1..MaxBoots /\ raster =< wall
  /\ Len(ring) =< Slots /\ commits \in 0..Slots /\ runHour \in {Unset} \cup 0..LastWall
  /\ late.sent # Unset => late.armed
  /\ cursor \in {Unset} \cup 0..LastWall /\ sealed \in {Unset} \cup 0..LastWall

(* Two records of one label and one scope are copies of one hour, the later *)
(* one with no fewer runs.                                                  *)
Unreplaced ==
  \A i, j \in DOMAIN records :
    i < j /\ records[i].label = records[j].label /\ records[i].scope = records[j].scope =>
      records[i].id = records[j].id /\ records[i].runs =< records[j].runs

(* Once the writer finds nothing more to append, the newest copy of every   *)
(* hour of this boot still in the ring holds what the ring holds.           *)
Newest(label) == records[Largest({i \in DOMAIN records : records[i].label = label})]
HasLabel(label) == \E i \in DOMAIN records : records[i].label = label
Settled ==
  CanAppend /\ offset # Unset /\ LiveCount > 0
  /\ Target(opened - 1 + offset, LateLabel(opened - 1 + offset, late)) = Unset =>
    \A a \in 0..LiveCount - 1 :
      LET label == opened - 1 - a + offset
          h == ring[Len(ring) - a]
      IN  HasLabel(label) /\ Newest(label).id = h.id /\ Newest(label).runs = h.runs
          /\ Newest(label).scope = scope

(* A record names the scope its hour was gathered in, and a circulation     *)
(* source only for evidence gathered under it.                              *)
Scoped ==
  \A i \in DOMAIN records :
    LET r == records[i]
    IN  r.id[3] = r.scope /\ (r.circ # Blank => r.dhw \in {r.circ, Blank})

(* The restore put the newest copy of every stored hour of this scope and   *)
(* window, save those this boot has hours of its own for, at its place.     *)
Wanted ==
  LET f == SubSeq(records, 1, brought.upto)
      newestCopy == {i \in DOMAIN f : \A j \in i + 1..Len(f) : f[j].label # f[i].label}
  IN  {f[i] : i \in {n \in newestCopy :
         /\ f[n].scope = scope /\ f[n].label \notin brought.own
         /\ f[n].end =< brought.at /\ f[n].end > brought.at - 2 * Slots
         /\ brought.last - f[n].label < Slots}}
PutBack ==
  brought.at # Unset =>
    /\ \A r \in Wanted : LET i == Len(brought.ring) - (brought.last - r.label)
                        IN  i \in DOMAIN brought.ring /\ brought.ring[i].id = r.id
                            /\ brought.ring[i].runs = r.runs
    /\ Cardinality({i \in DOMAIN brought.ring : brought.ring[i].id[1] \notin {0, boot}}) =
         Cardinality(Wanted)

RevisionsExact == RevisionsTypeOK /\ Unreplaced /\ Settled /\ Scoped /\ PutBack
=============================================================================
