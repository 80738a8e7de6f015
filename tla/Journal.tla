------------------------------ MODULE Journal ------------------------------
(***************************************************************************)
(* The flash journal of the history rings (history.cpp, section "History   *)
(* flash journal", with the arithmetic of logic/history_persist.hpp).      *)
(*                                                                         *)
(* A partition of erase sectors, each of several slots, is written round   *)
(* and round: one record per source and completed bucket, with a manifest  *)
(* of the catalogue before it when one is due.  One append position serves *)
(* every source.  Erasing, programming and reading may fail and power may  *)
(* be lost between any two of them; at boot a scan finds the position and  *)
(* the records of each source that the rings are restored from.            *)
(*                                                                         *)
(* The payload of a record is left out, and of a ring only its length is   *)
(* kept; the buckets completed are numbered from one.                      *)
(***************************************************************************)
EXTENDS Naturals, Sequences, FiniteSets

CONSTANTS
  SourceSeq,     \* the trend sources in the order of their rings
  Targets,       \* physical identities a source can be bound to
  Sectors, PerSector,        \* the geometry of the partition
  Window,        \* HISTORY_SAMPLES: buckets of a ring
  RetryLimit, MaxAbandoned,  \* HISTORY_JOURNAL_SLOT_RETRY_LIMIT, .._MAX_ABANDONED_..
  Fill,          \* slots written before the first boot modelled
  MaxBucket, MaxSeq, MaxEvents  \* bounds: time, sequence numbers, mishaps

ASSUME JournalAssumption ==
  /\ Sectors \in Nat \ {0} /\ PerSector \in Nat \ {0} /\ Window \in Nat \ {0}
  /\ RetryLimit \in Nat \ {0} /\ MaxAbandoned \in Nat /\ MaxAbandoned + 1 < Sectors
  /\ SourceSeq \in Seq({SourceSeq[i] : i \in DOMAIN SourceSeq}) /\ SourceSeq # <<>>
  /\ Targets \subseteq Nat \ {0} /\ 1 \in Targets
  /\ Fill \in 0..(Sectors * PerSector)

VARIABLES
  chip,      \* what each slot holds
  nextSlot, nextSeq, turn,  \* s_flash_next_slot, _next_sequence, _service_source
  cursor,     \* s_flash_last_bucket; 0: none
  index,      \* s_flash_restore_slots
  manifest,   \* s_flash_manifest_current: its bucket and sequence
  target,     \* the identity records are scoped by; 0: none resolved
  pending,    \* a reset of the source's rings has not been consumed yet
  ring,       \* samples in the source's rings
  failSlot, failCount, skipped, \* s_flash_fail_slot, _count, _skipped
  resting,    \* paused, and the minute since the last attempt has not passed
  step, rec, spot,  \* the append in progress, under s_flash_mtx
  now,        \* the newest completed bucket
  scanOk, restoreAt,  \* s_flash_scan_ok, the source the restore has come to
  acked,      \* slot of the newest record read back, or found at boot
  events      \* faults, restarts and resets so far

place   == <<nextSlot, nextSeq, turn, acked>>
sources == <<cursor, index, manifest, target, pending, ring>>
episode == <<failSlot, failCount, skipped, resting>>
append  == <<step, rec, spot>>
ready   == <<scanOk, restoreAt>>
journalVars == <<chip, place, sources, episode, append, now, ready, events>>

-----------------------------------------------------------------------------
(* Geometry and records *)

Sources == {SourceSeq[i] : i \in DOMAIN SourceSeq}
Places   == 0..(Sectors * PerSector - 1)
NoSlot  == Sectors * PerSector

SectorOf(x)   == x \div PerSector
FirstOf(x)    == SectorOf(x) * PerSector
NextSector(x) == (FirstOf(x) + PerSector) % (Sectors * PerSector)
SlotAfter(x)  == (x + 1) % (Sectors * PerSector)

Record == [kind : {"data", "manifest"}, seq : Nat, src : Sources,
           bucket : Nat, scope : Nat]
Erased == [kind |-> "erased", seq |-> 0, src |-> SourceSeq[1], bucket |-> 0, scope |-> 0]
Torn   == [Erased EXCEPT !.kind = "torn"]

IsRecord(r) == r.kind \in {"data", "manifest"}
Max2(a, b)  == IF a > b THEN a ELSE b
Min2(a, b)  == IF a < b THEN a ELSE b

-----------------------------------------------------------------------------
(* The boot scan: what the flash content f says *)

Held(f) == {x \in Places : IsRecord(f[x])}
HeadSlot(f) == CHOOSE x \in Held(f) : \A y \in Held(f) : f[y].seq =< f[x].seq

(* How far behind the head h the walk of pass 2 meets a slot. *)
Behind(h, x) == (h + Sectors * PerSector - x) % (Sectors * PerSector)

Usable(f, s, t) == {x \in Places : f[x].kind = "data" /\ f[x].src = s /\ f[x].scope = t}
Newest(f, s, t) ==
  LET h == HeadSlot(f)
      u == Usable(f, s, t)
  IN  f[CHOOSE x \in u : \A y \in u : Behind(h, x) =< Behind(h, y)].bucket

BeforeWindow(r, n) == r.bucket + Window =< n

(* The records restored for source s bound to identity t: those of the      *)
(* window that ends with the first one met, up to the first one older than  *)
(* that window, and at most Window of them.                                 *)
Indexed(f, s, t) ==
  LET h     == HeadSlot(f)
      u     == Usable(f, s, t)
      n     == Newest(f, s, t)
      stops == {x \in u : BeforeWindow(f[x], n)}
      met   == {x \in u : /\ f[x].bucket =< n
                          /\ \A y \in stops : Behind(h, x) < Behind(h, y)}
  IN  {x \in met : Cardinality({y \in met : Behind(h, y) < Behind(h, x)}) < Window}

Manifests(f, s) == {x \in Places : f[x].kind = "manifest" /\ f[x].src = s}
CurrentManifest(f, s) ==
  IF Manifests(f, s) = {} THEN [bucket |-> 0, seq |-> 0]
  ELSE LET x == CHOOSE x \in Manifests(f, s) :
                  \A y \in Manifests(f, s) : f[y].seq =< f[x].seq
       IN  [bucket |-> f[x].bucket, seq |-> f[x].seq]

(* flash_journal_scan with every source bound to the identity in tg. *)
Scan(f, tg) ==
  /\ nextSlot' = IF Held(f) = {} THEN 0 ELSE SlotAfter(HeadSlot(f))
  /\ nextSeq' = IF Held(f) = {} THEN 1 ELSE f[HeadSlot(f)].seq + 1
  /\ acked' = IF Held(f) = {} THEN NoSlot ELSE HeadSlot(f)
  /\ cursor' = [s \in Sources |-> IF Usable(f, s, tg[s]) = {} THEN 0
                                  ELSE Newest(f, s, tg[s])]
  /\ index' = [s \in Sources |-> Indexed(f, s, tg[s])]
  /\ manifest' = [s \in Sources |-> CurrentManifest(f, s)]
  /\ restoreAt' = IF Held(f) = {} THEN Len(SourceSeq) + 1 ELSE 1

-----------------------------------------------------------------------------
(* The first boot modelled comes after Fill appends in turn by one source,  *)
(* a manifest before every Window-th bucket.                                *)
Written(i) ==
  LET lap == i \div (Window + 1)
      k   == i % (Window + 1)
  IN  [kind |-> IF k = 0 THEN "manifest" ELSE "data", seq |-> i + 1,
       src |-> SourceSeq[1], bucket |-> lap * Window + Max2(k, 1),
       scope |-> IF k = 0 THEN 0 ELSE 1]
Initial == [x \in Places |-> IF x < Fill THEN Written(x) ELSE Erased]

JournalInit ==
  /\ chip = Initial
  /\ nextSlot = Fill % NoSlot /\ nextSeq = Fill + 1 /\ turn = 0
  /\ acked = IF Fill = 0 THEN NoSlot ELSE Fill - 1
  /\ target = [s \in Sources |-> 1]
  /\ cursor = [s \in Sources |-> IF Usable(chip, s, 1) = {} THEN 0 ELSE Newest(chip, s, 1)]
  /\ index = [s \in Sources |-> Indexed(chip, s, 1)]
  /\ manifest = [s \in Sources |-> CurrentManifest(chip, s)]
  /\ pending = [s \in Sources |-> FALSE] /\ ring = [s \in Sources |-> 0]
  /\ failSlot = NoSlot /\ failCount = 0 /\ skipped = 0 /\ resting = FALSE
  /\ step = "idle" /\ rec = Erased /\ spot = 0
  /\ now = IF Fill = 0 THEN 1 ELSE Written(Fill - 1).bucket
  /\ scanOk = TRUE /\ restoreAt = IF Fill = 0 THEN Len(SourceSeq) + 1 ELSE 1
  /\ events = 0

(* A fault of the flash, a restart or a reset; their number is bounded. *)
Mishap == events < MaxEvents /\ events' = events + 1

-----------------------------------------------------------------------------
(* The rings *)

(* A bucket completes for every source; the board ring's tick advances them *)
(* all, measured or not.                                                    *)
Tick ==
  /\ now < MaxBucket /\ now' = now + 1
  /\ ring' = [s \in Sources |-> Min2(ring[s] + 1, Window)]
  /\ UNCHANGED <<chip, place, cursor, index, manifest, target, pending,
                 episode, append, ready, events>>

(* A reset binds the source to another identity, or to none for now, and    *)
(* forgets its cursor and its index under both locks; the rings themselves  *)
(* are cleared by the next cycle that records.                              *)
ResetRing(s, t) ==
  /\ step = "idle" /\ Mishap
  /\ target' = [target EXCEPT ![s] = t] /\ pending' = [pending EXCEPT ![s] = TRUE]
  /\ cursor' = [cursor EXCEPT ![s] = 0] /\ index' = [index EXCEPT ![s] = {}]
  /\ UNCHANGED <<chip, place, manifest, ring, episode, append, now, ready>>

(* history_reset_on_detect of the identity already known, past the grace of *)
(* an adopted boot, keeps the cursor and the index.                         *)
ResetSame(s) ==
  /\ step = "idle" /\ Mishap
  /\ target[s] # 0 /\ pending' = [pending EXCEPT ![s] = TRUE]
  /\ UNCHANGED <<chip, place, cursor, index, manifest, target, ring, episode,
                 append, now, ready>>

(* A completed cycle consumes the reset and clears the ring, which may then *)
(* be advanced again over the buckets since boot, as gaps.                  *)
Consume(s) ==
  /\ pending[s] /\ target[s] # 0
  /\ pending' = [pending EXCEPT ![s] = FALSE]
  /\ \E n \in 0..ring[s] : ring' = [ring EXCEPT ![s] = n]
  /\ UNCHANGED <<chip, place, cursor, index, manifest, target, episode, append,
                 now, ready, events>>

(* The restore takes the sources in the order of their rings.  It skips one *)
(* whose reset is pending, since nothing need ever consume that, and        *)
(* otherwise extends the ring back to its oldest indexed record; a window   *)
(* ahead of the clock, or wholly older than the ring, is refused.  A read   *)
(* that fails ends the restore.                                             *)
Spliced(s) ==
  LET b      == {chip[x].bucket : x \in index[s]}
      newest == CHOOSE n \in b : \A m \in b : m =< n
      oldest == CHOOSE n \in b : \A m \in b : n =< m
  IN  IF b # {} /\ newest =< now /\ now < newest + Window
      THEN Max2(ring[s], Min2(now + 1 - oldest, Window))
      ELSE ring[s]

Restored == restoreAt > Len(SourceSeq)

RestoreDueWaits ==
  step = "idle" /\ scanOk /\ ~Restored /\ ~pending[SourceSeq[restoreAt]]
RestoreDue == step = "idle" /\ scanOk /\ ~Restored

RestoreNext ==
  /\ RestoreDue
  /\ LET s == SourceSeq[restoreAt]
     IN  ring' = IF pending[s] THEN ring ELSE [ring EXCEPT ![s] = Spliced(s)]
  /\ restoreAt' = restoreAt + 1
  /\ UNCHANGED <<chip, place, cursor, index, manifest, target, pending, episode,
                 append, now, scanOk, events>>

RestoreFails ==
  /\ RestoreDue
  /\ ~pending[SourceSeq[restoreAt]] /\ index[SourceSeq[restoreAt]] # {}
  /\ Mishap /\ restoreAt' = Len(SourceSeq) + 1
  /\ UNCHANGED <<chip, place, sources, episode, append, now, scanOk>>

-----------------------------------------------------------------------------
(* One append *)

Oldest(s) == IF now + 1 > ring[s] THEN now + 1 - ring[s] ELSE 1
Wanted(s) == Max2(cursor[s] + 1, Oldest(s))

(* flash_build_next_record has something to build. *)
Due(s) == target[s] # 0 /\ ~pending[s] /\ ring[s] > 0 /\ Wanted(s) =< now

(* history_manifest_due *)
ManifestDue(s, b) ==
  \/ manifest[s].seq = 0
  \/ b < manifest[s].bucket
  \/ b >= manifest[s].bucket + Window

Turn(k) == SourceSeq[((turn + k) % Len(SourceSeq)) + 1]

(* The service takes the next source in turn that has a record to append    *)
(* and reserves the sequence number before any flash access.                *)
ReserveOnce == nextSeq' = IF failSlot = NoSlot THEN nextSeq + 1 ELSE nextSeq
Reserve == nextSeq' = nextSeq + 1

MayAppend == step = "idle" /\ scanOk /\ Restored /\ ~resting /\ nextSeq =< MaxSeq

Choose ==
  /\ MayAppend
  /\ \E k \in 0..(Len(SourceSeq) - 1) :
       LET s == Turn(k)
           m == ManifestDue(s, Wanted(s))
       IN  /\ Due(s) /\ \A j \in 0..(k - 1) : ~Due(Turn(j))
           /\ rec' = [kind |-> IF m THEN "manifest" ELSE "data", seq |-> nextSeq,
                      src |-> s, bucket |-> Wanted(s),
                      scope |-> IF m THEN 0 ELSE target[s]]
  /\ Reserve /\ step' = "prepare"
  /\ UNCHANGED <<chip, nextSlot, turn, acked, sources, episode, spot, now,
                 ready, events>>

(* A slot torn in the middle of a sector gives up the rest of that sector. *)
LandingHere == IF nextSlot % PerSector # 0 /\ chip[nextSlot] # Erased
               THEN FirstOf(nextSlot) ELSE nextSlot
Landing == IF nextSlot % PerSector # 0 /\ chip[nextSlot] # Erased
           THEN NextSector(nextSlot) ELSE nextSlot
Entered == Landing % PerSector = 0

Filled(x, r) == [y \in Places |-> IF SectorOf(y) = SectorOf(x) THEN r ELSE chip[y]]

(* What an erase of the sector of x leaves that was cut short or reported an *)
(* error: of each slot its content, damage, or nothing.                     *)
HalfErased(x) ==
  {[y \in Places |-> IF SectorOf(y) = SectorOf(x) /\ h[y - FirstOf(x)] # "kept"
                    THEN [Erased EXCEPT !.kind = h[y - FirstOf(x)]] ELSE chip[y]] :
     h \in [0..(PerSector - 1) -> {"kept", "torn", "erased"}]}

PrepareDone ==
  /\ step = "prepare" /\ step' = "program"
  /\ spot' = Landing /\ nextSlot' = Landing
  /\ chip' = IF Entered THEN Filled(Landing, Erased) ELSE chip
  /\ UNCHANGED <<nextSeq, turn, acked, sources, episode, rec, now, ready, events>>

(* flash_note_append_failure: the second failure in a row at a slot gives   *)
(* its sector up, as does moving on by itself; an episode that has given up *)
(* MaxAbandoned sectors stays where it is and tries once a minute.          *)
MovedOn(x)  == x # failSlot /\ failSlot # NoSlot
GivenUp(x)  == IF MovedOn(x) THEN skipped + 1 ELSE skipped
InARow(x)   == IF x = failSlot THEN failCount + 1 ELSE 1
Spent(x)    == GivenUp(x) >= MaxAbandoned
GivesUp(x)  == ~Spent(x) /\ InARow(x) >= RetryLimit

Return == step' = "idle" /\ rec' = Erased /\ spot' = 0

NoteFailure(x) ==
  /\ Return
  /\ nextSlot' = IF GivesUp(x) THEN NextSector(x) ELSE x
  /\ failSlot' = IF GivesUp(x) THEN NoSlot ELSE x
  /\ failCount' = IF GivesUp(x) THEN 0 ELSE InARow(x)
  /\ skipped' = IF GivesUp(x) THEN GivenUp(x) + 1 ELSE GivenUp(x)
  /\ resting' = (resting \/ Spent(x))
  /\ UNCHANGED <<nextSeq, turn, acked, sources, now, ready>>

(* The slot cannot be read, or the sector it opens cannot be read or erased; *)
(* an erase that failed may have changed the sector or not.                  *)
PrepareFails ==
  /\ step = "prepare" /\ Mishap
  /\ \/ /\ NoteFailure(nextSlot)
        /\ UNCHANGED chip
     \/ /\ Entered
        /\ NoteFailure(Landing)
        /\ chip' \in HalfErased(Landing)

(* Body, then commit word; a call that reports an error may have done its   *)
(* work, in part or not at all.                                             *)
Programmed == {chip, [chip EXCEPT ![spot] = Torn], [chip EXCEPT ![spot] = rec]}

(* The record read back decides, whatever the programming calls reported;   *)
(* so a call that errs and yet has done its work is no fault.               *)
Acknowledge ==
  /\ IF rec.kind = "manifest"
     THEN /\ manifest' = [manifest EXCEPT ![rec.src] = [bucket |-> rec.bucket, seq |-> rec.seq]]
          /\ turn' = (CHOOSE i \in DOMAIN SourceSeq : SourceSeq[i] = rec.src) - 1
          /\ UNCHANGED cursor
     ELSE /\ cursor' = [cursor EXCEPT ![rec.src] = rec.bucket]
          /\ turn' = (CHOOSE i \in DOMAIN SourceSeq : SourceSeq[i] = rec.src) % Len(SourceSeq)
          /\ UNCHANGED manifest
  /\ nextSlot' = SlotAfter(spot) /\ acked' = spot
  /\ failSlot' = NoSlot /\ failCount' = 0 /\ skipped' = 0 /\ resting' = FALSE

Program ==
  /\ step = "program" /\ chip' = [chip EXCEPT ![spot] = rec] /\ Acknowledge /\ Return
  /\ UNCHANGED <<nextSeq, index, target, pending, ring, now, ready, events>>

(* The record is not there, or could not be read back. *)
ProgramFails ==
  /\ step = "program" /\ Mishap /\ chip' \in Programmed /\ NoteFailure(spot)

(* HISTORY_JOURNAL_PAUSED_RETRY_S have passed since the last attempt. *)
MinutePasses ==
  /\ step = "idle" /\ resting /\ resting' = FALSE
  /\ UNCHANGED <<chip, place, sources, failSlot, failCount, skipped, append,
                 now, ready, events>>

-----------------------------------------------------------------------------
(* A restart at any point.  Power loss can leave a sector half erased or a  *)
(* slot half programmed; a reset that keeps RAM may keep the rings of some  *)
(* sources.  The identities are those of the settings then.                 *)
LeftBehind ==
  CASE step = "prepare" /\ Entered -> HalfErased(Landing)
    [] step = "program" -> Programmed
    [] OTHER -> {chip}

Restart ==
  /\ Mishap
  /\ chip' \in LeftBehind /\ target' \in [Sources -> Targets]
  /\ Scan(chip', target')
  /\ \E kept \in {{}, Sources} :
       ring' = [s \in Sources |-> IF s \in kept THEN ring[s] ELSE 0]
  /\ pending' = [s \in Sources |-> FALSE] /\ turn' = 0
  /\ failSlot' = NoSlot /\ failCount' = 0 /\ skipped' = 0 /\ resting' = FALSE
  /\ Return
  /\ scanOk' \in BOOLEAN
  /\ now' \in {now, Max2(now, 2) - 1}

-----------------------------------------------------------------------------
Service ==
  \/ RestoreNext
  \/ Choose
  \/ PrepareDone
  \/ PrepareFails
  \/ Program
  \/ ProgramFails

JournalNext ==
  \/ Tick
  \/ \E s \in Sources : \E t \in Targets \cup {0} : ResetRing(s, t)
  \/ \E s \in Sources : ResetSame(s)
  \/ \E s \in Sources : Consume(s)
  \/ RestoreFails
  \/ Service
  \/ MinutePasses
  \/ Restart

(* The poll task calls the service in every cycle and the clock runs on;  *)
(* no reset need ever be consumed, and no reading need ever arrive.         *)
JournalFairness == WF_journalVars(Service) /\ WF_journalVars(MinutePasses)

JournalSpec == JournalInit /\ [][JournalNext]_journalVars /\ JournalFairness

-----------------------------------------------------------------------------
JournalTypeOK ==
  /\ chip \in [Places -> Record \cup {Erased, Torn}]
  /\ nextSlot \in Places /\ nextSeq \in Nat \ {0}
  /\ turn \in 0..(Len(SourceSeq) - 1) /\ acked \in Places \cup {NoSlot}
  /\ cursor \in [Sources -> Nat] /\ index \in [Sources -> SUBSET Places]
  /\ manifest \in [Sources -> [bucket : Nat, seq : Nat]]
  /\ target \in [Sources -> Targets \cup {0}] /\ pending \in [Sources -> BOOLEAN]
  /\ ring \in [Sources -> 0..Window]
  /\ failSlot \in Places \cup {NoSlot} /\ failCount \in Nat /\ skipped \in Nat
  /\ resting \in BOOLEAN /\ step \in {"idle", "prepare", "program"}
  /\ rec \in Record \cup {Erased} /\ spot \in Places
  /\ now \in Nat
  /\ scanOk \in BOOLEAN /\ restoreAt \in 1..(Len(SourceSeq) + 1)
  /\ events \in Nat

(* No two records in the flash carry one sequence number, whatever attempts *)
(* failed unseen: the order of the records is never ambiguous.              *)
UniqueSeq ==
  \A x, y \in Held(chip) : chip[x].seq = chip[y].seq => x = y

(* A record is destroyed only in the few sectors after that of the newest   *)
(* acknowledged one: the damage of a flash that keeps failing, over any     *)
(* number of retries and restarts without progress, stays bounded, and the  *)
(* committed neighbours of a torn slot stay.                                *)
Ahead(x) == (SectorOf(x) + Sectors - SectorOf(acked)) % Sectors
EraseSparesWindow ==
  [][\A x \in Places : IsRecord(chip[x]) /\ chip'[x] # chip[x] /\ acked # NoSlot =>
       Ahead(x) \in 1..(MaxAbandoned + 1)]_journalVars

(* What a scan of the flash would index, at whatever moment power is lost,  *)
(* covers every bucket of the window that ends with the source's latest     *)
(* record: except those recorded before the cursor was set back, those      *)
(* beyond a sector whose old records a failed erase has left on the way of  *)
(* the walk, and the oldest of an index full of doubles.                    *)
Latest(u) == chip[CHOOSE x \in u : \A y \in u : chip[y].seq =< chip[x].seq].bucket
Rewound(u, x) ==
  \E y \in u : chip[x].seq < chip[y].seq /\ chip[y].bucket < chip[x].bucket
Leftover(h, x) ==
  \E y \in Held(chip) : /\ Behind(h, y) < Behind(h, x)
                         /\ chip[y].seq < chip[x].seq
Lost(s, t) ==
  LET u == Usable(chip, s, t)
      n == Latest(u)
      i == Indexed(chip, s, t)
      found == {chip[y].bucket : y \in i}
  IN  {x \in u : /\ n < chip[x].bucket + Window /\ chip[x].bucket =< n
                 /\ chip[x].bucket \notin found
                 /\ ~Rewound(u, x) /\ Cardinality(i) < Window}
WindowRestored ==
  \A s \in Sources : \A t \in Targets : \A x \in Lost(s, t) :
    Leftover(HeadSlot(chip), x)

(* The journal keeps its shape, says which record is the newest, and keeps  *)
(* a whole window.                                                          *)
JournalExact == JournalTypeOK /\ UniqueSeq /\ WindowRestored

(* The flash journal restores the compatible records of the window          *)
(* (docs/ARCHITECTURE.md).                                                  *)
CompatibleRestored == \A s \in Sources : \A t \in Targets : Lost(s, t) = {}

(* Whatever is due is journalled, or its source is reset: no fault that     *)
(* ends, no pending reset of another source and no manifest keeps it back.  *)
Owed(s) == scanOk /\ Due(s)
Catches == \A s \in Sources : Owed(s) ~> ~Owed(s)
=============================================================================
