------------------------------ MODULE Checkup ------------------------------
(***************************************************************************)
(* The hours of the plant checkup (checkup.cpp, logic/checkup.hpp).  Every *)
(* poll cycle folds one sample into the open hour; completed hours wait in *)
(* a ring, an hour nobody watched is pushed empty.  A run of the           *)
(* compressor is booked when it stops, into the hour in which it started:  *)
(* under its class when everything about it was witnessed, cut off         *)
(* otherwise.  A report first drops what is older than the window.         *)
(*                                                                         *)
(* Time is uptime in ticks.  A sample is what the compressor row says and  *)
(* what the valve and the operating mode show; the other rows are counted  *)
(* by the same rule as the compressor row.  Counters do not saturate here. *)
(***************************************************************************)
EXTENDS Integers, Folds, Functions

CONSTANTS
  HourTicks,   \* CHECKUP_DT_S
  Completed,   \* CHECKUP_COMPLETED_BUCKETS
  LongestGap,      \* CHECKUP_MAX_GAP_S and CHECKUP_CYCLING_GAP_S, the same 15 s
  DhwTail,        \* CHECKUP_CYCLING_DHW_TAIL_S
  Sights,      \* what a sample may show: [rps, view]
  LastTick,    \* bound of uptime
  MaxResets    \* bound of target and consent changes

ASSUME CheckupAssumption ==
  /\ HourTicks \in Nat \ {0} /\ Completed \in Nat \ {0} /\ LongestGap \in 0..HourTicks
  /\ DhwTail \in Nat /\ LastTick \in Nat /\ MaxResets \in Nat
  /\ Sights \subseteq [rps : {"on", "off", "blind"}, view : {"space", "dhw", "cooling", "stop", "none"}]

VARIABLES
  uptime,   \* esp_timer_get_time
  watch,    \* CheckupState without the run: the previous sample
  run,      \* CheckupState: the open run
  hours,    \* CheckupRing: the slots, count, head and the open hour
  expires,  \* s_restored_expiry_us
  wipe,     \* s_reset_requested
  resets,   \* changes so far
  ledger,   \* ghost: what happened in each hour since the last reset
  story,    \* ghost: what the samples of the open run showed
  tape      \* ghost: the previous sample, and the last readable one of its stretch

ghosts      == <<ledger, story, tape>>
checkupVars == <<uptime, watch, run, hours, expires, wipe, resets, ghosts>>

-----------------------------------------------------------------------------
Never  == -1
Window == (Completed + 1) * HourTicks
HourOf(t) == t \div HourTicks
AllHours  == 0..HourOf(LastTick)
Ring      == 0..Completed - 1

(* An hour: seconds with both ends readable, seconds running, starts, the   *)
(* runs witnessed whole by class, their seconds, and the runs cut off.      *)
EmptyHour == [seen |-> 0, ran |-> 0, starts |-> 0, space |-> 0, dhw |-> 0,
              cooling |-> 0, secs |-> 0, cut |-> 0]
Added(h, field, n) == [h EXCEPT ![field] = @ + n]
Summed(a, b) == [f \in DOMAIN EmptyHour |-> a[f] + b[f]]

(* checkup_run_class: the tank valve, else the mode; "stop" is a room-side  *)
(* mode without a class.                                                    *)
Views == {"space", "dhw", "cooling", "stop", "none"}
Class(v) == IF v \in {"space", "dhw", "cooling"} THEN v ELSE "unknown"
Room(v)  == v \in {"space", "stop"}

NoWatch == [at |-> Never, rps |-> "blind", known |-> "none", view |-> "none", hour |-> Never]
NoRun   == [open |-> FALSE, pure |-> FALSE, class |-> "unknown", hour |-> 0, secs |-> 0,
            classAt |-> 0, rpsAt |-> 0, tailAt |-> Never, last |-> "unknown", blind |-> 0]
NoHours == [slot |-> [i \in Ring |-> EmptyHour], count |-> 0, head |-> 0, pending |-> EmptyHour]

(* The ghosts.  A run is perfect when every sample from the one before its  *)
(* start to the one after its end was readable and of one class; it is      *)
(* sound when nothing longer than a gap was hidden and the class held, a    *)
(* hot-water run's tail apart.                                              *)
Classes  == {"space", "dhw", "cooling"}
NoEvents == [seen |-> 0, ran |-> 0, starts |-> 0, ended |-> 0, secs |-> 0,
             perfect |-> [c \in Classes |-> 0], sound |-> [c \in Classes |-> 0]]
NoStory  == [open |-> FALSE, began |-> 0, class |-> "unknown", perfect |-> FALSE, sound |-> FALSE,
             lastOn |-> 0, shownAt |-> 0, strayed |-> Never]
NoTape   == [at |-> Never, rps |-> "blind", view |-> "none", before |-> "none"]

CheckupInit ==
  /\ uptime = 0
  /\ watch = NoWatch /\ run = NoRun /\ hours = NoHours
  /\ expires = [i \in Ring |-> 0]
  /\ wipe = FALSE /\ resets = 0
  /\ ledger = [h \in AllHours |-> NoEvents] /\ story = NoStory /\ tape = NoTape

-----------------------------------------------------------------------------
(* The ring *)

Pushed(r, h) == [r EXCEPT !.slot = [@ EXCEPT ![r.head] = h],
                          !.head = (@ + 1) % Completed,
                          !.count = IF @ < Completed THEN @ + 1 ELSE @]

(* commit: the open hour, then an empty one for every hour skipped.         *)
CommitHours(r, skipped) ==
  LET n == IF skipped < Completed THEN skipped ELSE Completed
      pushed[k \in 0..n] == IF k = 0 THEN Pushed(r, r.pending)
                            ELSE Pushed(pushed[k - 1], EmptyHour)
  IN  [pushed[n] EXCEPT !.pending = EmptyHour]

(* Every slot it overwrites loses its date; the hour it completed gets one. *)
Dated(x, r, hour, skipped) ==
  LET n == IF skipped < Completed THEN skipped ELSE Completed
      first == r.head
      after == {(r.head + k) % Completed : k \in 0..n}
  IN  [i \in Ring |-> IF i = first /\ skipped < Completed THEN hour * HourTicks + Window
                      ELSE IF i \in after THEN 0 ELSE x[i]]

(* retained_bucket: where the hour a run started in is kept.                *)
Held(r, h, cur) == h =< cur /\ cur - h =< r.count
SlotOf(r, h, cur) == (r.head + Completed - (cur - h)) % Completed
InHour(r, h, cur, field, n) ==
  IF h = cur THEN [r EXCEPT !.pending = Added(@, field, n)]
  ELSE [r EXCEPT !.slot[SlotOf(r, h, cur)] = Added(@, field, n)]

(* checkup_close_run: under its class, or cut off; a run whose hour is gone *)
(* is cut off in the hour that saw its end.                                 *)
BookWhereItEnded(r, u, cur) ==                         \* mutant
  IF u.pure THEN InHour(InHour(r, cur, cur, u.class, 1), cur, cur, "secs", u.secs)
  ELSE InHour(r, cur, cur, "cut", 1)
BookRun(r, u, cur) ==
  IF ~Held(r, u.hour, cur) THEN InHour(r, cur, cur, "cut", 1)
  ELSE IF u.pure THEN InHour(InHour(r, u.hour, cur, u.class, 1), u.hour, cur, "secs", u.secs)
  ELSE InHour(r, u.hour, cur, "cut", 1)

-----------------------------------------------------------------------------
(* One sample *)

(* A run once cut off stays so; of it only its hour matters then.           *)
Censored(u) == [NoRun EXCEPT !.open = TRUE, !.hour = u.hour]
CensoredIf(b, u) == IF b THEN Censored(u) ELSE u
Started(s, cur, now, witnessed) ==
  CensoredIf(~witnessed \/ Class(s.view) = "unknown",
             [NoRun EXCEPT !.open = TRUE, !.pure = TRUE, !.class = Class(s.view), !.hour = cur,
                !.classAt = now, !.rpsAt = now, !.last = Class(s.view)])

(* A sample that cannot be read while a run is open: a short gap may be     *)
(* bridged, unless the class moved in it or a tail was being timed.         *)
Blinded(u, s, now, dt) ==
  LET c == Class(s.view)
  IN  CensoredIf(\/ now - u.rpsAt > LongestGap
                 \/ c # "unknown" /\ c # u.last
                 \/ u.tailAt # Never,
                 [u EXCEPT !.blind = @ + dt])

(* The compressor runs: after a hot-water run the unit may pump on into the *)
(* room for a short tail; any other change of class ends the evidence.      *)
TailBegins(u, w, s) ==
  /\ u.tailAt = Never /\ Room(s.view) /\ u.class = "dhw" /\ u.last = "dhw"
  /\ w.rps = "on" /\ w.view # "none"
InTail(u, w, s, now) ==
  LET begins == TailBegins(u, w, s)
      since  == IF begins THEN now ELSE u.tailAt
      c      == Class(s.view)
  IN  CensoredIf(~Room(s.view) \/ (~begins /\ c # u.last) \/ now - since > DhwTail,
                 [u EXCEPT !.tailAt = since, !.last = c, !.classAt = now])
InClass(u, w, s, now) ==
  LET c      == Class(s.view)
      fade   == now - u.classAt > LongestGap
      unread == u.classAt < u.rpsAt
  IN  IF c = "unknown" THEN CensoredIf(fade, u)
      ELSE CensoredIf(\/ unread /\ (fade \/ c # u.last)
                      \/ c # u.last /\ ~unread /\ w.rps # "blind",
                      [u EXCEPT !.last = c, !.classAt = now])
Running(u, w, s, now, dt) ==
  IF w.rps = "blind" /\ (now - u.rpsAt > LongestGap \/ Class(s.view) # u.last) THEN Censored(u)
  ELSE LET v == [u EXCEPT !.secs = @ + (IF w.rps = "off" THEN 0 ELSE dt + u.blind), !.blind = 0]
           x == IF TailBegins(u, w, s) \/ u.tailAt # Never
                THEN InTail(v, w, s, now) ELSE InClass(v, w, s, now)
       IN  IF x.pure THEN [x EXCEPT !.rpsAt = now] ELSE x

Follow(u, w, s, now, dt) ==
  IF ~u.pure THEN u
  ELSE IF s.rps = "blind" THEN Blinded(u, s, now, dt)
  ELSE IF s.rps = "on" THEN Running(u, w, s, now, dt)
  ELSE CensoredIf(\/ w.rps # "on" \/ u.classAt < u.rpsAt
                  \/ u.tailAt # Never /\ now - u.tailAt > DhwTail, u)

(* checkup_step: seconds and edges only inside a gap that was watched; dt   *)
(* is 0 across an hour's end.                                               *)
Seconds(h, w, s, dt) ==
  IF s.rps = "blind" \/ w.rps = "blind" THEN h
  ELSE Added(Added(h, "seen", dt), "ran", IF s.rps = "on" /\ w.rps = "on" THEN dt ELSE 0)

Folded(r, u, w, s, now, watched, dt) ==
  LET cur  == HourOf(now)
      edge == watched /\ s.rps = "on" /\ w.known = "off"
      r1   == IF watched THEN [r EXCEPT !.pending = Seconds(@, w, s, dt)] ELSE r
      r2   == IF edge /\ u.open THEN BookRun(r1, Censored(u), cur) ELSE r1
      r3   == IF edge THEN InHour(r2, cur, cur, "starts", 1) ELSE r2
      u1   == IF edge THEN Started(s, cur, now, w.rps = "off") ELSE u
      u2   == IF ~u1.open THEN u1
              ELSE IF watched THEN Follow(u1, w, s, now, dt) ELSE Censored(u1)
      ends == u2.open /\ s.rps = "off"
      u3   == IF ends THEN NoRun ELSE u2
  IN  [hours |-> IF ends THEN BookRun(r3, u2, cur) ELSE r3,
       run   |-> IF ~u3.open /\ s.rps = "on" THEN Started(s, cur, now, FALSE) ELSE u3]

Remembered(w, s, now, watched) ==
  [at |-> now, rps |-> s.rps, hour |-> HourOf(now),
   view |-> IF s.rps = "on" THEN s.view ELSE "none",
   known |-> IF s.rps # "blind" THEN s.rps ELSE IF watched THEN w.known ELSE "none"]

-----------------------------------------------------------------------------
(* The ghosts' account of one sample *)

Greater(a, b) == IF a > b THEN a ELSE b

Near(now) == tape.at # Never /\ now - tape.at =< LongestGap
StoryOpened(s, now) ==
  LET c == Class(s.view)
      shown == Near(now) /\ tape.rps = "off" /\ c # "unknown"
  IN  [NoStory EXCEPT !.open = TRUE, !.began = now, !.class = c, !.perfect = shown,
         !.sound = shown, !.lastOn = now, !.shownAt = now]
Continued(y, s, now) ==
  LET c == Class(s.view)
      shows   == c # "unknown" \/ (s.view = "stop" /\ y.class = "dhw" /\ tape.view # "none")
      strays  == shows /\ c # y.class /\ y.strayed = Never
      strayed == strays \/ y.strayed # Never
  IN  IF s.rps = "blind" THEN [y EXCEPT !.perfect = FALSE, !.sound = @ /\ Near(now)]
      ELSE [y EXCEPT !.lastOn = now, !.strayed = IF strays THEN now ELSE @,
              !.shownAt = IF shows THEN now ELSE @,
              !.perfect = @ /\ Near(now) /\ c = y.class,
              !.sound   = /\ @ /\ Near(now) /\ now - y.lastOn =< LongestGap
                          /\ shows /\ ~strays => now - y.shownAt =< LongestGap
                          /\ strayed => y.class = "dhw" /\ Room(s.view)]
Ended(y, now) ==
  [y EXCEPT !.perfect = @ /\ Near(now) /\ tape.rps = "on",
            !.sound = /\ @ /\ Near(now) /\ tape.rps = "on" /\ y.shownAt = y.lastOn
                      /\ y.strayed # Never => now - y.strayed =< DhwTail]

(* A run belongs to the hour it started in; one that outlived the window is *)
(* an end of the hour that saw it.                                          *)
Told(l, y, now) ==
  LET h == IF HourOf(now) - HourOf(y.began) =< Completed THEN HourOf(y.began) ELSE HourOf(now)
      e == Ended(y, now)
      In(kind) == [c \in Classes |-> l[h][kind][c]
                     + (IF e[kind] /\ h = HourOf(y.began) /\ c = y.class THEN 1 ELSE 0)]
      told == [l[h] EXCEPT !.ended = @ + 1, !.perfect = In("perfect"), !.sound = In("sound"),
                           !.secs = @ + (IF e.sound THEN y.lastOn - y.began ELSE 0)]
  IN  [l EXCEPT ![h] = told]
Accounted(s, now) ==
  LET h == HourOf(now)
      both == Near(now) /\ HourOf(tape.at) = h /\ s.rps # "blind" /\ tape.rps # "blind"
      dt == now - tape.at
      l1 == [ledger EXCEPT ![h].seen = @ + (IF both THEN dt ELSE 0),
                           ![h].ran = @ + (IF both /\ s.rps = "on" /\ tape.rps = "on" THEN dt ELSE 0),
                           ![h].starts = @ + (IF s.rps = "on" /\ Near(now) /\ tape.before = "off" THEN 1 ELSE 0)]
  IN  IF story.open /\ s.rps = "off" THEN Told(l1, story, now) ELSE l1
Witness(s, now) ==
  /\ ledger' = Accounted(s, now)
  /\ story' = IF s.rps = "off" THEN NoStory
              ELSE IF story.open THEN Continued(story, s, now)
              ELSE IF s.rps = "on" THEN StoryOpened(s, now) ELSE story
  /\ tape' = [at |-> now, rps |-> s.rps, view |-> IF s.rps = "on" THEN s.view ELSE "none",
               before |-> IF s.rps # "blind" THEN s.rps
                          ELSE IF Near(now) THEN tape.before ELSE "none"]
LedgerCleared ==
  /\ ledger' = [h \in AllHours |-> NoEvents] /\ story' = NoStory /\ tape' = NoTape

-----------------------------------------------------------------------------
(* The actions *)

Emptied == /\ watch' = NoWatch /\ run' = NoRun /\ hours' = NoHours
           /\ expires' = [i \in Ring |-> 0]

Passes == /\ uptime < LastTick /\ uptime' = uptime + 1
          /\ UNCHANGED <<watch, run, hours, expires, wipe, resets, ghosts>>

(* checkup_record: a requested reset is applied instead of the sample;      *)
(* otherwise the hours that ended are closed, then the sample is folded.    *)
Record(s) ==
  /\ watch.at < uptime
  /\ UNCHANGED <<uptime, resets>>
  /\ IF wipe THEN Emptied /\ wipe' = FALSE /\ UNCHANGED ghosts
     ELSE LET cur     == HourOf(uptime)
              moved   == watch.hour # Never /\ watch.hour # cur
              skipped == cur - watch.hour - 1
              watched == watch.at # Never /\ uptime - watch.at =< LongestGap
              folded  == Folded(IF moved THEN CommitHours(hours, skipped) ELSE hours, run, watch, s,
                              uptime, watched, IF moved THEN 0 ELSE uptime - watch.at)
          IN  /\ hours' = folded.hours /\ run' = folded.run
              /\ expires' = IF moved THEN Dated(expires, hours, watch.hour, skipped) ELSE expires
              /\ watch' = Remembered(watch, s, uptime, watched)
              /\ UNCHANGED wipe
              /\ Witness(s, uptime)

(* checkup_report: expire_restored_locked, then checkup_aggregate.          *)
Expired(i) == expires[i] > 0 /\ uptime >= expires[i]
OpenExpired == watch.hour # Never /\ uptime >= watch.hour * HourTicks + Window
Fresh ==
  [hours EXCEPT !.slot = [i \in Ring |-> IF Expired(i) THEN EmptyHour ELSE @[i]],
                !.pending = IF OpenExpired THEN EmptyHour ELSE @]
Aggregate(r) ==
  FoldFunctionOnSet(Summed, r.pending, r.slot,
                    IF r.count < Completed THEN 0..r.count - 1 ELSE Ring)
Reports ==
  /\ ~wipe /\ UNCHANGED <<uptime, wipe, resets, ledger>>
  /\ hours' = Fresh
  /\ expires' = [i \in Ring |-> IF Expired(i) THEN 0 ELSE expires[i]]
  /\ IF OpenExpired
     THEN watch' = NoWatch /\ run' = NoRun /\ story' = NoStory /\ tape' = NoTape
     ELSE UNCHANGED <<watch, run, story, tape>>

(* A new target asks for the reset; a change of consent wipes at once.      *)
AsksReset ==
  /\ resets < MaxResets /\ resets' = resets + 1 /\ wipe' = TRUE
  /\ LedgerCleared /\ UNCHANGED <<uptime, watch, run, hours, expires>>
ConsentChanges ==
  /\ resets < MaxResets /\ resets' = resets + 1 /\ wipe' = FALSE
  /\ Emptied /\ LedgerCleared /\ UNCHANGED uptime

CheckupNext ==
  \/ Passes
  \/ \E s \in Sights : Record(s)
  \/ Reports
  \/ AsksReset
  \/ ConsentChanges

CheckupSpec == CheckupInit /\ [][CheckupNext]_checkupVars

-----------------------------------------------------------------------------
CheckupTypeOK ==
  /\ uptime \in 0..LastTick /\ wipe \in BOOLEAN /\ resets \in 0..MaxResets
  /\ watch.rps \in {"on", "off", "blind"} /\ watch.hour \in {Never} \cup AllHours
  /\ run.open \in BOOLEAN
  /\ run.pure => run.open /\ run.class \in Classes
  /\ hours.count \in 0..Completed /\ hours.head \in Ring
  /\ \A i \in Ring : DOMAIN hours.slot[i] = DOMAIN EmptyHour

(* What the ring keeps of an hour agrees with what happened in it: the      *)
(* seconds and the starts, every run that ended once and in its hour, whole *)
(* only on sound evidence, and always when the evidence was perfect.        *)
Agrees(b, e) ==
  /\ b.seen = e.seen /\ b.ran = e.ran /\ b.starts = e.starts
  /\ b.space + b.dhw + b.cooling + b.cut = e.ended
  /\ \A c \in Classes : e.perfect[c] =< b[c] /\ b[c] =< e.sound[c]
  /\ b.secs =< e.secs
Kept(h) == IF h = watch.hour THEN hours.pending ELSE hours.slot[SlotOf(hours, h, watch.hour)]
HoursAgree ==
  ~wipe /\ watch.hour # Never =>
    \A h \in AllHours : h =< watch.hour /\ Held(hours, h, watch.hour) =>
       \/ Agrees(Kept(h), ledger[h])
       \/ uptime >= h * HourTicks + Window /\ Kept(h) = EmptyHour
(* An answer counts the hours of the window, and no other.                  *)
EventsOf(hs) ==
  LET Plus(a, b) == [seen |-> a.seen + b.seen, ran |-> a.ran + b.ran, starts |-> a.starts + b.starts,
                     ended |-> a.ended + b.ended, secs |-> a.secs + b.secs,
                     perfect |-> [c \in Classes |-> a.perfect[c] + b.perfect[c]],
                     sound |-> [c \in Classes |-> a.sound[c] + b.sound[c]]]
  IN  FoldFunctionOnSet(Plus, NoEvents, ledger, hs)
ReportAgrees ==
  ~wipe => Agrees(Aggregate(Fresh), EventsOf({h \in AllHours : h * HourTicks + Window > uptime}))

HoursExact == CheckupTypeOK /\ HoursAgree /\ ReportAgrees
=============================================================================
