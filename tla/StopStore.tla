----------------------------- MODULE StopStore -----------------------------
(***************************************************************************)
(* The store of stop observations (stop_observation_store.cpp with         *)
(* logic/observation_hourly.hpp) and the part of the checkup that feeds it *)
(* (checkup.cpp).                                                          *)
(*                                                                         *)
(* The poll task samples the plant; a stop it witnessed becomes evidence   *)
(* of the hour it happened in, some samples later.  Evidence of the open   *)
(* hour and of the queue lives in RAM; the owner of the flash journal      *)
(* appends it hour by hour, each record replacing the previous one of its  *)
(* hour, and rebuilds the sum of what is stored.  A report adds the three. *)
(* A change of source or consent, and a reset, withdraw all earlier        *)
(* evidence: RAM is cleared at once, and a fence appended to the journal   *)
(* keeps the records before it out of every later sum.                     *)
(*                                                                         *)
(* Every stop has a number, so a sum says how often each was counted.      *)
(* Left out: observed seconds (with them the seams between hours), the     *)
(* rotation of the journal (module Journal), the capacity of the index and *)
(* records damaged at boot, and the forgetting of a factory reset.         *)
(***************************************************************************)
EXTENDS Naturals, Sequences, FiniteSetsExt

CONSTANTS
  PumpSources,   \* fingerprints of source, model and schema, as one value
  FirstPlant,    \* the one wired at the first boot
  StopWindow,    \* hours a report looks back, the open one included
  QueueCap,      \* OBSERVATION_QUEUE_CAP
  MaxHour, MaxStops,                        \* bounds: hours, stops
  MaxEvents,     \* bound: resets, changes of consent, restarts and mishaps
  MaxTogether    \* bound: the hour and the events in one behaviour

ASSUME StopAssumption ==
  /\ FirstPlant \in PumpSources
  /\ {StopWindow, QueueCap, MaxHour} \subseteq Nat \ {0}
  /\ {MaxStops, MaxEvents, MaxTogether} \subseteq Nat

VARIABLES
  store,    \* stop_observation_store.cpp, under its mutex
  owner,    \* the flash owner's transaction, receipt and rebuild in progress
  known,    \* sequence numbers in the restore index
  journal,  \* the records; the sequence number of one is its place
  checkup,  \* checkup.cpp, under its mutex
  target,   \* s_target_generation of the poll engine
  plant,    \* the source the poll engine would detect
  sweep,    \* what a poll cycle captured that a handler has interrupted
  http,     \* the configuration handler: what it has still to call
  hour,     \* the wall clock
  stops,    \* what became of each stop booked
  stale,    \* of a sweep and a pending stop: which began before a withdrawal
  events    \* resets, changes of consent, restarts and mishaps so far

stopVars == <<store, owner, known, journal, checkup, target, plant, sweep, http,
              hour, stops, stale, events>>

-----------------------------------------------------------------------------
(* Evidence *)

NoSource == "unconfirmed"
Identity == [src : PumpSources \cup {NoSource}, consent : 0..MaxEvents]
Stops    == 1..MaxStops

(* Whole hours: the open one and those before it.                           *)
InWindow(h, now) == h > 0 /\ h =< now /\ h + StopWindow > now

Nothing    == [e \in Stops |-> 0]
Just(e)    == [Nothing EXCEPT ![e] = 1]
Plus(a, b) == [e \in Stops |-> a[e] + b[e]]
(* A sum over all of f: as many as there are pairs of a part and a count.   *)
Total(f)   == [e \in Stops |-> Cardinality(UNION {{i} \X (1..f[i][e]) : i \in DOMAIN f})]

NoHour    == [hour |-> 0, sum |-> Nothing]
NoEntry   == [hour |-> 0, sum |-> Nothing, claimed |-> FALSE]
Places    == 1..QueueCap
Emptied   == [sum |-> Nothing, expiry |-> 0, lost |-> FALSE, partial |-> TRUE]
NoPending == [hour |-> 0, gen |-> 0, id |-> [src |-> NoSource, consent |-> 0]]
NoSweep   == [on |-> FALSE, consent |-> 0, gen |-> 0]
NoReceipt == [kind |-> "none", ok |-> FALSE]
NoRecord  == [kind |-> "none", id |-> [src |-> NoSource, consent |-> 0],
              hour |-> 0, sum |-> Nothing, lost |-> FALSE]

-----------------------------------------------------------------------------
(* The store under its lock; s is its state *)

(* clear_live moves the epoch; what matters of it is whether it moved since *)
(* the flash owner captured it for a rebuild, a transaction or its receipt. *)
Captured == owner.pc # "idle" \/ owner.receipt # NoReceipt
ClearLive(s) ==
  [s EXCEPT !.open = NoHour, !.queue = [i \in Places |-> NoEntry], !.done = Emptied, !.owed = "none",
            !.sealed = FALSE, !.lost = FALSE, !.moved = Captured]

InvalidateClock(s) ==
  [ClearLive(s) EXCEPT !.clock = "bad", !.blocked = TRUE, !.restore = TRUE,
                       !.barrier = s.enabled /\ s.confirmed]

(* date_clock: whether the dates can be trusted, and what asking leaves.    *)
Dated(s)   == s.clock = "agrees"
Clocked(s) == IF s.clock = "moved" THEN InvalidateClock(s) ELSE s

Enqueue(s, h, sum) ==
  LET same == {i \in Places : s.queue[i].hour = h /\ ~s.queue[i].claimed}
      free == {i \in Places : s.queue[i].hour = 0}
  IN  IF same # {} THEN [s EXCEPT !.queue[Min(same)].sum = Plus(@, sum)]
      ELSE IF free # {}
      THEN [s EXCEPT !.queue[Min(free)] = [hour |-> h, sum |-> sum, claimed |-> FALSE]]
      ELSE [s EXCEPT !.lost = TRUE]

CloseOpen(s) ==
  IF s.open.hour = 0 THEN s
  ELSE [Enqueue(s, s.open.hour, s.open.sum) EXCEPT !.open = NoHour]

Expired(s) == s.done.expiry # 0 /\ hour >= s.done.expiry
ExpireLive(s) ==
  LET c == IF hour > s.open.hour THEN CloseOpen(s) ELSE s
      q == [c EXCEPT !.queue = [i \in Places |->
              IF InWindow(@[i].hour, hour) \/ @[i].claimed THEN @[i] ELSE NoEntry]]
  IN  IF ~Expired(q) THEN q
      ELSE [q EXCEPT !.done = [Emptied EXCEPT !.expiry = q.done.expiry], !.restore = TRUE]

ApplyReceipt(s, r) ==
  IF r = NoReceipt \/ s.moved THEN s
  ELSE [s EXCEPT
    !.owed    = "none",
    !.barrier = @ /\ ~(r.kind = "fence" /\ r.ok),
    !.blocked = @ /\ ~(r.kind = "fence" /\ r.ok),
    !.queue   = IF r.kind = "fence" THEN @
                ELSE IF r.ok THEN [i \in Places |-> IF @[i].claimed THEN NoEntry ELSE @[i]]
                ELSE [i \in Places |-> [@[i] EXCEPT !.claimed = FALSE]],
    !.restore = @ \/ r.ok]

Started(on, consent) ==
  [enabled |-> on, id |-> [src |-> NoSource, consent |-> consent], gen |-> 0,
   confirmed |-> FALSE, sealed |-> FALSE, restore |-> on, blocked |-> FALSE,
   barrier |-> FALSE, clock |-> "agrees", moved |-> FALSE, open |-> NoHour,
   queue |-> [i \in Places |-> NoEntry], done |-> Emptied, owed |-> "none", lost |-> FALSE]

Bind(s, src, gen, allow) ==
  LET id      == [s.id EXCEPT !.src = src]
      changed == s.confirmed /\ (s.id # id \/ s.gen # gen)
      c == IF changed THEN [ClearLive(s) EXCEPT !.clock = "agrees"] ELSE s
      fence == changed \/ ~allow
  IN  [c EXCEPT !.id = id, !.gen = gen,
                !.confirmed = s.enabled /\ src # NoSource,
                !.restore = s.enabled /\ src # NoSource,
                !.blocked = @ \/ fence, !.barrier = @ \/ fence]

SetStoreDiagnostics(s, on, consent) ==
  [ClearLive(s) EXCEPT !.enabled = on, !.id = [@ EXCEPT !.consent = consent],
                       !.confirmed = FALSE, !.blocked = TRUE, !.barrier = on,
                       !.restore = on, !.clock = "agrees"]

ResetStore(s) ==
  [ClearLive(s) EXCEPT !.clock = "agrees", !.confirmed = FALSE, !.blocked = TRUE,
                       !.barrier = s.enabled, !.restore = s.enabled]

(* stop_observation_record, with the finalised stops of E: at most one.     *)
Accepts(s) == s.enabled /\ s.confirmed /\ ~s.sealed
Book(s, e, p) ==
  IF p.gen # s.gen \/ ~InWindow(p.hour, hour) THEN [s EXCEPT !.lost = TRUE]
  ELSE IF p.hour = s.open.hour THEN [s EXCEPT !.open.sum = Plus(@, Just(e))]
  ELSE Enqueue(s, p.hour, Just(e))
OpenHour(s) ==
  LET x == ExpireLive(s)
  IN  IF x.open.hour = hour THEN x ELSE [CloseOpen(x) EXCEPT !.open = [NoHour EXCEPT !.hour = hour]]
RecordSample(s) ==
  IF ~Accepts(s) THEN s ELSE IF ~Dated(s) THEN Clocked(s) ELSE OpenHour(Clocked(s))
RecordStop(s, p) ==
  IF ~Accepts(s) THEN s
  ELSE IF ~Dated(s) THEN [Clocked(s) EXCEPT !.lost = TRUE]
  ELSE Book(OpenHour(Clocked(s)), Len(stops) + 1, p)

SealStore(s) == [CloseOpen(s) EXCEPT !.sealed = TRUE]

(* What the report counts, once ExpireLive has nothing left to do.          *)
Reported(s) ==
  IF ~(s.enabled /\ s.confirmed /\ Dated(s)) THEN Nothing
  ELSE Plus(IF Expired(s) THEN Nothing ELSE s.done.sum,
       Plus(IF InWindow(s.open.hour, hour) THEN s.open.sum ELSE Nothing,
            Total([i \in {j \in Places : InWindow(s.queue[j].hour, hour)} |-> s.queue[i].sum])))
Limited(s) == Expired(s) \/ s.restore \/ s.lost \/ s.done.lost \/ s.done.partial

-----------------------------------------------------------------------------
(* The journal as its index knows it *)

FenceOf(id)  == Max({0} \cup {n \in known : journal[n].kind = "fence" /\ journal[n].id = id})
HourRecords  == {n \in known : journal[n].kind = "hour"}
NewestOf(h)  == Max({0} \cup {n \in HourRecords : journal[n].hour = h})

(* Records that a rebuild for identity id at hour now sums up.              *)
Restorable(id, now) ==
  {n \in HourRecords : /\ n = NewestOf(journal[n].hour) /\ n > FenceOf(id)
                       /\ InWindow(journal[n].hour, now)}
RebuiltQuiet(id, now, unread) ==                              \* mutant
  LET R == {n \in Restorable(id, now) : n # unread /\ journal[n].id = id}
  IN  [sum |-> Total([n \in R |-> journal[n].sum]),
       expiry |-> IF R = {} THEN 0 ELSE Min({journal[n].hour : n \in R}) + StopWindow,
       lost |-> \E n \in R : journal[n].lost, partial |-> FALSE]
Rebuilt(id, now, unread) ==
  LET R == {n \in Restorable(id, now) : n # unread /\ journal[n].id = id}
  IN  [sum |-> Total([n \in R |-> journal[n].sum]),
       expiry |-> IF R = {} THEN 0 ELSE Min({journal[n].hour : n \in R}) + StopWindow,
       lost |-> \E n \in R : journal[n].lost,
       partial |-> unread \in Restorable(id, now)]

(* The record an hour's evidence is merged into before it is appended.      *)
BaseOfAny(r) == NewestOf(r.hour)                              \* mutant
BaseOf(r) == IF NewestOf(r.hour) > FenceOf(r.id) THEN NewestOf(r.hour) ELSE 0
Merged(r) ==
  LET b == BaseOf(r)
  IN  IF r.kind = "fence" \/ b = 0 \/ journal[b].id # r.id THEN r
      ELSE [r EXCEPT !.sum = Plus(@, journal[b].sum), !.lost = @ \/ journal[b].lost]

-----------------------------------------------------------------------------
(* Ghosts: which stops were withdrawn, and which for good *)

Withdrawn(q) == [i \in DOMAIN q |-> [q[i] EXCEPT !.gone = TRUE]]
WithdrawnBy(s, q) == IF s.clock = "moved" THEN Withdrawn(q) ELSE q
Sealed(q, id) ==
  [i \in DOMAIN q |-> [q[i] EXCEPT !.fenced = @ \/ (q[i].gone /\ q[i].id = id)]]

(* A withdrawal makes stale what is under way when it is over.              *)
Kept(S) == {x \in S : IF x = "sweep" THEN sweep'.on ELSE checkup'.pending # NoPending}
Withdraw == stops' = Withdrawn(stops) /\ stale' = Kept({"sweep", "pending"})
Unwithdrawn == stops' = stops /\ stale' = Kept(stale)

Event ==
  /\ events < MaxEvents /\ hour + events < MaxTogether
  /\ events' = events + 1

-----------------------------------------------------------------------------
(* Start of a boot with journal j *)

Idle == [pc |-> "idle", rec |-> NoRecord, hour |-> 0, receipt |-> NoReceipt, rebuild |-> TRUE]
Unbound == [source |-> NoSource, allow |-> TRUE, reset |-> FALSE, gen |-> 0,
            pending |-> NoPending, closed |-> FALSE]
Indexed(j) == {n \in DOMAIN j : j[n].kind # "none"}

StopInit ==
  /\ store = Started(TRUE, 0)
  /\ owner = Idle /\ journal = <<>> /\ known = Indexed(journal)
  /\ checkup = Unbound
  /\ target = 1 /\ sweep = NoSweep /\ plant = FirstPlant /\ http = "idle"
  /\ hour = 1 /\ stops = <<>> /\ stale = {} /\ events = 0

(* Power is lost, or an intended restart comes to its end: RAM is gone.     *)
Reboot ==
  /\ IF checkup.closed THEN events' = events ELSE Event
  /\ store' = Started(store.enabled, store.id.consent)
  /\ owner' = Idle /\ known' = Indexed(journal)
  /\ checkup' = Unbound
  /\ target' = 1 /\ sweep' = NoSweep /\ plant' = plant /\ http' = "idle"
  /\ stops' = [i \in DOMAIN stops |->
                 [stops[i] EXCEPT !.gone = stops[i].fenced, !.here = FALSE]]
  /\ stale' = {}
  /\ UNCHANGED <<journal, hour>>

-----------------------------------------------------------------------------
(* The poll task: detection and sweeps *)

checkupSide == <<owner, known, journal, plant, http, hour>>

(* checkup_reset_on_detect; Source is what detection or the user chose.     *)
ConfirmSource(src) ==
  LET first == checkup.source = NoSource
      allow == checkup.allow /\ first
      base  == IF first THEN store ELSE ResetStore(store)
  IN  /\ checkup' = [checkup EXCEPT !.source = src, !.gen = target, !.allow = allow,
                       !.pending = NoPending, !.reset = @ \/ ~first]
      /\ store' = Bind(base, src, target, allow)
      /\ IF first THEN Unwithdrawn ELSE Withdraw

Detect ==
  /\ ~sweep.on /\ checkup.source = NoSource
  /\ UNCHANGED <<owner, known, journal, target, plant, sweep, http, hour, events>>
  /\ ConfirmSource(plant)

(* A cycle captures consent and target before its first read.  One that no  *)
(* handler interrupts is a single step, so a cycle is kept only from just   *)
(* before a handler's step on.                                              *)
Captures == [on |-> TRUE, consent |-> store.id.consent, gen |-> target]
Cycle == IF sweep.on THEN sweep ELSE Captures
MayBegin == \/ sweep' = sweep
            \/ ~sweep.on /\ store.enabled /\ sweep' = Captures

Admitted ==
  /\ store.enabled /\ Cycle.consent = store.id.consent
  /\ Cycle.gen = target /\ ~checkup.closed

(* A sweep that outlived its consent or its target, or whose cycle a reset  *)
(* request takes, is dropped whole.                                         *)
DropSweep ==
  /\ sweep' = NoSweep
  /\ ~Admitted \/ checkup.source = NoSource \/ checkup.reset
  /\ checkup' = IF Admitted /\ checkup.reset
                THEN [checkup EXCEPT !.reset = FALSE, !.pending = NoPending]
                ELSE checkup
  /\ <<checkup, sweep>>' # <<checkup, sweep>>
  /\ Unwithdrawn
  /\ UNCHANGED <<store, target, events, checkupSide>>

(* A finalised stop p reaches the store s.                                  *)
Booked(s, p, q, old) ==
  IF ~Accepts(s) THEN q
  ELSE Append(WithdrawnBy(s, q),
              [hour |-> p.hour, id |-> p.id, fenced |-> FALSE, here |-> TRUE,
               gone |-> old])
CanWitness == Len(stops) + (IF checkup.pending = NoPending THEN 0 ELSE 1) < MaxStops

(* checkup_record of an admitted sample: the first of a new generation      *)
(* binds anew; then a stop is witnessed, or the pending one finalised.      *)
RecordSweep ==
  LET fresh == Cycle.gen # checkup.gen
      s0    == IF fresh THEN Bind(store, checkup.source, Cycle.gen, FALSE) ELSE store
      p0    == IF fresh THEN NoPending ELSE checkup.pending
      q0    == IF fresh THEN Withdrawn(stops) ELSE stops
      with(p) == [checkup EXCEPT !.gen = Cycle.gen, !.pending = p,
                                 !.allow = @ /\ ~fresh]
  IN  /\ Admitted /\ ~checkup.reset /\ checkup.source # NoSource
      /\ sweep' = NoSweep
      /\ \/ /\ checkup' = with(p0)
            /\ store' = RecordSample(s0)
            /\ stops' = WithdrawnBy(s0, q0)
            /\ stale' = Kept(IF fresh THEN {"pending"} ELSE stale)
         \/ /\ p0 = NoPending /\ CanWitness
            /\ checkup' = with([hour |-> hour, gen |-> Cycle.gen, id |-> s0.id])
            /\ store' = RecordSample(s0)
            /\ stops' = WithdrawnBy(s0, q0)
            /\ stale' = IF "sweep" \in stale THEN {"pending"} ELSE {}
         \/ /\ p0 # NoPending
            /\ checkup' = with(NoPending)
            /\ store' = RecordStop(s0, p0)
            /\ stops' = Booked(s0, p0, q0, "pending" \in stale)
            /\ stale' = {}
      /\ UNCHANGED <<target, events, checkupSide>>

(* checkup_stop_context_expire, from the history tick or a report.          *)
ExpirePending ==
  /\ UNCHANGED <<target, sweep, events, checkupSide>>
  /\ store.enabled /\ ~checkup.reset /\ ~checkup.closed
  /\ checkup.pending # NoPending
  /\ checkup' = [checkup EXCEPT !.pending = NoPending]
  /\ store' = RecordStop(store, checkup.pending)
  /\ stops' = Booked(store, checkup.pending, stops, "pending" \in stale)
  /\ stale' = Kept(stale)

(* checkup_reboot_save: an intended restart seals what is open.             *)
SealForRestart ==
  /\ Event
  /\ UNCHANGED <<target, sweep, checkupSide>>
  /\ store.enabled /\ ~checkup.closed
  /\ LET p == IF checkup.reset THEN NoPending ELSE checkup.pending
     IN  /\ store' = SealStore(IF p = NoPending THEN store ELSE RecordStop(store, p))
         /\ stops' = IF p = NoPending THEN stops
                     ELSE Booked(store, p, stops, "pending" \in stale)
  /\ checkup' = [checkup EXCEPT !.closed = TRUE, !.pending = NoPending, !.reset = FALSE]
  /\ stale' = Kept(stale)

(* stop_observation_report: its own effect on what it reads.                *)
Report ==
  /\ store.enabled /\ store.confirmed
  /\ store' = IF Dated(store) THEN ExpireLive(Clocked(store)) ELSE Clocked(store)
  /\ store' # store
  /\ stops' = WithdrawnBy(store, stops)
  /\ UNCHANGED <<checkup, target, sweep, stale, events, checkupSide>>

-----------------------------------------------------------------------------
(* The configuration handlers *)

(* A new link or a new detection: the target generation moves first ...     *)
Reconfigure ==
  /\ http = "idle" /\ Event
  /\ target' = target + 1 /\ http' = "reset"
  /\ plant' \in PumpSources
  /\ MayBegin
  /\ stale' = stale \cup (IF sweep'.on THEN {"sweep"} ELSE {})
  /\ UNCHANGED <<store, owner, known, journal, checkup, hour, stops>>

(* ... then checkup_reset, and a profile the user chose is confirmed.       *)
CheckupReset ==
  /\ http = "reset" /\ http' \in {"idle", "select"}
  /\ MayBegin
  /\ checkup' = [checkup EXCEPT !.source = NoSource, !.allow = FALSE, !.reset = TRUE,
                                !.pending = NoPending]
  /\ store' = ResetStore(store)
  /\ Withdraw
  /\ UNCHANGED <<owner, known, journal, target, plant, hour, events>>

Select ==
  /\ http = "select" /\ http' = "idle"
  /\ MayBegin
  /\ UNCHANGED <<owner, known, journal, target, plant, hour, events>>
  /\ ConfirmSource(plant)

(* The switch, saved with a new generation, takes effect.                   *)
SetDiagnostics ==
  /\ http = "idle" /\ Event
  /\ MayBegin
  /\ LET s == SetStoreDiagnostics(store, ~store.enabled, store.id.consent + 1)
     IN  store' = IF checkup.source = NoSource THEN s
                  ELSE Bind(s, checkup.source, checkup.gen, FALSE)
  /\ checkup' = [checkup EXCEPT !.allow = FALSE, !.reset = FALSE, !.pending = NoPending]
  /\ Withdraw
  /\ UNCHANGED <<owner, known, journal, target, plant, http, hour>>

-----------------------------------------------------------------------------
(* The flash owner *)

ownerSide == <<checkup, target, plant, sweep, http, hour, stale>>

(* stop_observation_flash_service, the part under the first lock.           *)
ServiceBegin ==
  /\ owner.pc = "idle" /\ store.enabled /\ store.confirmed
  /\ store.clock # "bad"
  /\ stops' = WithdrawnBy(store, stops)
  /\ IF ~Dated(store)
     THEN store' = Clocked(store) /\ owner' = owner
     ELSE LET s == ExpireLive(ApplyReceipt(Clocked(store), owner.receipt))
              due == owner.rebuild \/ s.restore \/ Expired(s)
          IN  /\ store' = [s EXCEPT !.moved = FALSE]
              /\ owner' = IF due /\ ~s.blocked
                          THEN [owner EXCEPT !.receipt = NoReceipt, !.pc = "rebuild",
                                             !.hour = hour]
                          ELSE [owner EXCEPT !.receipt = NoReceipt]
  /\ <<store, owner>>' # <<store, owner>>
  /\ UNCHANGED <<known, journal, events, ownerSide>>

Released == [owner EXCEPT !.pc = "idle", !.hour = 0]

(* ... and the sum it publishes under the second: not if the epoch moved,   *)
(* the lock is busy, or an hour expired meanwhile.  One record may be       *)
(* unreadable.                                                              *)
ServicePublish ==
  /\ owner.pc = "rebuild"
  /\ \E unread \in {0} \cup Restorable(store.id, owner.hour) :
       LET r     == Rebuilt(store.id, owner.hour, unread)
           late  == ~Dated(store) \/ (r.expiry # 0 /\ hour >= r.expiry)
           retry == [ExpireLive(Clocked(store)) EXCEPT !.restore = TRUE]
       IN  /\ IF unread = 0 THEN events' = events ELSE Event
           /\ IF store.moved
              THEN UNCHANGED stops /\ store' = [store EXCEPT !.moved = FALSE] /\ owner' = Released
              ELSE /\ store' = IF late THEN retry
                               ELSE [Clocked(store) EXCEPT !.done = r, !.restore = FALSE,
                                                           !.lost = @ \/ r.lost]
                   /\ stops' = WithdrawnBy(store, stops)
                   /\ owner' = [Released EXCEPT !.rebuild = late \/ unread # 0]
  /\ UNCHANGED <<known, journal, ownerSide>>

PublishBusy ==
  /\ owner.pc = "rebuild" /\ Event
  /\ owner' = Released
  /\ UNCHANGED <<store, stops, known, journal, ownerSide>>

(* stop_observation_flash_next: a fence first, else the oldest hour queued. *)
FenceRecord(s) == [NoRecord EXCEPT !.kind = "fence", !.id = s.id, !.hour = hour]
HourRecord(s, i) ==
  [kind |-> "hour", id |-> s.id, hour |-> s.queue[i].hour, sum |-> s.queue[i].sum,
   lost |-> s.lost]
Oldest(s) ==
  LET free == {i \in Places : s.queue[i].hour # 0 /\ ~s.queue[i].claimed}
  IN  {i \in free : \A j \in free : s.queue[i].hour =< s.queue[j].hour}

MayClaimOpen(s) ==                                            \* mutant
  s.enabled /\ s.confirmed /\ s.owed = "none" /\ ~s.blocked
MayClaim(s) == s.enabled /\ s.confirmed /\ s.owed = "none"

FlashNext ==
  /\ owner.pc = "idle"
  /\ LET r == ApplyReceipt(store, owner.receipt)
         ready == MayClaim(r)
         s == IF ~ready THEN r ELSE IF Dated(r) THEN ExpireLive(Clocked(r)) ELSE Clocked(r)
         told == [owner EXCEPT !.receipt = NoReceipt]
         claim(rec) == [told EXCEPT !.pc = "append", !.rec = rec]
     IN  /\ stops' = IF ready THEN WithdrawnBy(r, stops) ELSE stops
         /\ IF ready /\ s.barrier
            THEN /\ store' = [s EXCEPT !.owed = "fence", !.moved = FALSE]
                 /\ owner' = claim(FenceRecord(s))
            ELSE IF ready /\ Dated(s) /\ ~s.restore /\ Oldest(s) # {}
            THEN LET i == Min(Oldest(s))
                 IN  /\ store' = [s EXCEPT !.owed = "hour", !.queue[i].claimed = TRUE, !.moved = FALSE]
                     /\ owner' = claim(HourRecord(s, i))
            ELSE store' = [s EXCEPT !.moved = FALSE] /\ owner' = told
  /\ <<store, owner>>' # <<store, owner>>
  /\ UNCHANGED <<known, journal, events, ownerSide>>

(* The end of the transaction: the receipt is kept, and applied at once     *)
(* unless the store's lock is busy.                                         *)
Finish(ok, busy) ==
  LET r == [kind |-> owner.rec.kind, ok |-> ok]
  IN  /\ store' = IF busy THEN store ELSE [ApplyReceipt(store, r) EXCEPT !.moved = FALSE]
      /\ owner' = [owner EXCEPT !.pc = "idle", !.rec = NoRecord, !.rebuild = @ \/ ok,
                               !.receipt = IF busy THEN r ELSE NoReceipt]

Programmed(rec) ==
  /\ journal' = Append(journal, rec)
  /\ stops' = IF rec.kind = "fence" THEN Sealed(stops, rec.id) ELSE stops

(* flash_append_record: read back as committed, whatever the write said.    *)
AppendCommitted ==
  /\ owner.pc = "append"
  /\ Programmed(Merged(owner.rec))
  /\ known' = known \cup {Len(journal) + 1}
  /\ \/ Finish(TRUE, FALSE) /\ events' = events
     \/ Finish(TRUE, TRUE) /\ Event
  /\ UNCHANGED ownerSide

(* The base could not be read, the write failed, or only reading back did:  *)
(* then a record is in the journal that the index does not know.            *)
AppendFailed ==
  /\ owner.pc = "append" /\ Event
  /\ \/ UNCHANGED <<journal, stops>>
     \/ Programmed(Merged(owner.rec))
  /\ Finish(FALSE, FALSE)
  /\ UNCHANGED <<known, ownerSide>>

-----------------------------------------------------------------------------
NextHour ==
  /\ hour < MaxHour /\ hour + events < MaxTogether
  /\ hour' = hour + 1
  /\ UNCHANGED <<store, owner, known, journal, checkup, target, plant, sweep, http,
                 stops, stale, events>>

(* The wall clock is corrected by more than two seconds.                    *)
ClockMoves ==
  /\ store.clock = "agrees" /\ Event
  /\ store' = [store EXCEPT !.clock = "moved"]
  /\ UNCHANGED <<owner, known, journal, checkup, target, plant, sweep, http, hour,
                 stops, stale>>

FlashStep == ServiceBegin \/ ServicePublish \/ FlashNext \/ AppendCommitted
StopNext ==
  \/ Reboot \/ Detect \/ DropSweep \/ RecordSweep \/ ExpirePending
  \/ SealForRestart \/ Report \/ Reconfigure \/ CheckupReset \/ Select
  \/ SetDiagnostics \/ PublishBusy \/ AppendFailed
  \/ NextHour \/ ClockMoves \/ FlashStep

(* The poll task services the journal between its cycles.                   *)
StopFairness ==
  /\ WF_stopVars(ServiceBegin) /\ WF_stopVars(ServicePublish)
  /\ WF_stopVars(FlashNext) /\ WF_stopVars(AppendCommitted)
StopSpec == StopInit /\ [][StopNext]_stopVars /\ StopFairness

-----------------------------------------------------------------------------
(* Properties *)

(* The state keeps its shape: at most one entry of the queue is claimed,    *)
(* which is the transaction the flash owner owes an answer for.             *)
StopTypeOK ==
  /\ store.id \in Identity /\ store.open.hour \in 0..MaxHour
  /\ store.clock \in {"agrees", "moved", "bad"}
  /\ Cardinality({i \in Places : store.queue[i].claimed}) =
       (IF store.owed = "hour" THEN 1 ELSE 0)
  /\ owner.pc \in {"idle", "rebuild", "append"}
  /\ known \subseteq DOMAIN journal
  /\ checkup.source \in PumpSources \cup {NoSource}
  /\ http \in {"idle", "reset", "select"}

(* What a report counts was witnessed for the source and under the consent  *)
(* of today, and never withdrawn: no evidence from before a reset, a change *)
(* of source or of consent, of a sweep that began before one, or of a       *)
(* journal record a fence has cut off, in this boot or an earlier one.      *)
(* checkup.cpp: the checks of checkup_record; stop_observation_store.cpp:   *)
(* clear_live, the epochs and the fence in service and next.                *)
ReportScoped ==
  \A e \in DOMAIN stops : Reported(store)[e] > 0 =>
    ~stops[e].gone /\ stops[e].id = store.id

(* A stop is counted once: not both in the queue and in the sum restored,   *)
(* not twice in one hour's record when an append is retried, whether or not *)
(* the first attempt left its record behind.  stop_observation_store.cpp:   *)
(* apply_receipt, the base merged in flash_next, the newest record of an    *)
(* hour in the index.                                                       *)
CountedOnce ==
  /\ \A e \in DOMAIN stops : Reported(store)[e] =< 1
  /\ \A n \in DOMAIN journal, e \in DOMAIN stops : journal[n].sum[e] =< 1

(* A stop booked in this boot and not withdrawn is in every report of its   *)
(* day, or the report says it may be incomplete: evidence is never lost     *)
(* between open hour, queue, journal and restored sum without the dropped   *)
(* count, the pending restoration or the partial mark telling so.           *)
LossAdmitted ==
  \A e \in DOMAIN stops :
    /\ stops[e].here /\ ~stops[e].gone /\ InWindow(stops[e].hour, hour)
    /\ store.enabled /\ store.confirmed /\ Dated(store)
    => Reported(store)[e] = 1 \/ Limited(store)

(* Evidence is counted exactly, or admitted to be incomplete: the two above.*)
EvidenceExact == StopTypeOK /\ CountedOnce /\ LossAdmitted

(* Whatever is still owed to the journal gets there: a fence that is due is *)
(* committed, the queue drains and the stored sum is restored, however the  *)
(* appends, the try-locks and the epochs interleave.                        *)
Owing ==
  /\ store.enabled /\ store.confirmed
  /\ \/ store.barrier \/ (store.restore /\ Dated(store))
     \/ \E i \in Places : store.queue[i].hour # 0
EvidenceSettles == []<>~Owing
=============================================================================
