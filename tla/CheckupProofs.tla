--------------------------- MODULE CheckupProofs ----------------------------
(* Proofs about Checkup: CheckupIInv, what the ring, its dates and the open *)
(* run keep of the account of the samples, is inductive; with it every hour *)
(* kept agrees with what happened in it, and a report adds up to the hours  *)
(* of the window and no other.                                              *)
EXTENDS Checkup, FiniteSetTheorems, TLAPS

-----------------------------------------------------------------------------
(* The inductive invariant of Checkup *)

RpsReadings == {"on", "off", "blind"}
HourRecords == [DOMAIN EmptyHour -> Nat]
SinceBoot   == Nat \cup {Never}
HourEntries == [seen : Nat, ran : Nat, starts : Nat, ended : Nat, secs : Nat,
                perfect : [Classes -> Nat], sound : [Classes -> Nat]]
AnyClass    == Classes \cup {"unknown"}
Rings       == [slot : [Ring -> HourRecords], count : 0..Completed, head : Ring, pending : HourRecords]

WatchRecords == [at : SinceBoot, rps : RpsReadings, known : {"on", "off", "none"}, view : Views,
                 hour : SinceBoot]
RunRecords   == [open : BOOLEAN, pure : BOOLEAN, class : AnyClass, hour : Nat, secs : Nat, classAt : Nat,
                 rpsAt : Nat, tailAt : SinceBoot, last : AnyClass, blind : Nat]
StoryRecords == [open : BOOLEAN, began : Nat, class : AnyClass, perfect : BOOLEAN, sound : BOOLEAN,
                 lastOn : Nat, shownAt : Nat, strayed : SinceBoot]
TapeRecords  == [at : SinceBoot, rps : RpsReadings, view : Views, before : {"on", "off", "none"}]

CheckupShape ==
  /\ uptime \in 0..LastTick /\ wipe \in BOOLEAN /\ resets \in 0..MaxResets
  /\ watch \in WatchRecords /\ run \in RunRecords /\ hours \in Rings
  /\ expires \in [Ring -> Nat]
  /\ ledger \in [AllHours -> HourEntries]
  /\ story \in StoryRecords /\ tape \in TapeRecords

(* An hour is over for the reports.                                         *)
DateOf(h) == h * HourTicks + Window
Bygone(h) == uptime >= DateOf(h)

(* The slot a hours before the open one.                                    *)
Wrap(n) == n % Completed
Back(r, a) == Wrap((r.head + Completed) - a)

(* What is to be reset counts for nothing.                                  *)
WipedInv == wipe => ledger = [h \in AllHours |-> NoEvents] /\ story = NoStory /\ tape = NoTape

(* The previous sample, as the code and as the account have it.             *)
SampleInv ==
  /\ tape.at = watch.at /\ tape.rps = watch.rps /\ tape.view = watch.view /\ tape.before = watch.known
  /\ watch.at = Never => watch = NoWatch /\ run = NoRun /\ story = NoStory
  /\ watch.at # Never => watch.at =< uptime /\ watch.hour = HourOf(watch.at)
  /\ watch.rps # "blind" => watch.known = watch.rps
  /\ watch.view # "none" => watch.rps = "on"

(* The open run u is the one of the account y, after a sample w.            *)
OpenRunAt(u, y, w) ==
  /\ u.open = y.open /\ (u.pure => u.open)
  /\ w.known = "off" => ~u.open
  /\ u.open => u.hour = HourOf(y.began) /\ y.began =< y.lastOn /\ y.lastOn =< w.at

(* A run not cut off was witnessed so far; one that nothing was hidden of   *)
(* is not cut off.                                                          *)
PureRunAt(u, y, w) ==
  u.pure =>
    /\ y.sound /\ u.class = y.class /\ u.class \in Classes
    /\ u.rpsAt = y.lastOn /\ u.classAt = y.shownAt /\ u.tailAt = y.strayed
    /\ u.classAt =< u.rpsAt /\ y.began + u.secs =< u.rpsAt
    /\ u.rpsAt + u.blind =< w.at
    /\ w.rps = "on" => u.rpsAt = w.at
    /\ u.tailAt = Never => u.last = u.class
    /\ u.tailAt # Never => /\ u.class = "dhw" /\ w.rps = "on" /\ u.classAt = u.rpsAt
                           /\ Room(w.view)
PerfectRunAt(u, y, w) ==
  y.open /\ y.perfect => u.pure /\ w.rps = "on" /\ u.tailAt = Never /\ u.classAt = u.rpsAt

(* The hours r with the dates x, while hour c is open: what has no date is  *)
(* empty, and what has one is dated by its place.                           *)
RingAt(r, x, c) ==
  /\ r.count < Completed => r.head = r.count
  /\ c = Never => r.pending = EmptyHour
  /\ \A a \in 1..Completed :
       /\ x[Back(r, a)] = 0 => r.slot[Back(r, a)] = EmptyHour
       /\ x[Back(r, a)] # 0 => /\ c # Never /\ a =< r.count /\ a =< c
                               /\ x[Back(r, a)] = DateOf(c - a)

(* The hour k of the open run is in the ring as long as the ring reaches    *)
(* back to it.                                                              *)
HomeAt(r, x, c, k) ==
  /\ k =< c
  /\ c - k =< r.count \/ r.count = Completed
  /\ c - k \in 1..Completed => x[Back(r, c - k)] = DateOf(k) \/ Bygone(k)

(* Nothing happened in an hour that is not in the ring, or it is long ago.  *)
AbsentAt(r, c, l) ==
  \A h \in AllHours : c = Never \/ h > c \/ c - h > r.count => l[h] = NoEvents \/ Bygone(h)

(* HoursAgree for the hours r, while hour c is open, and the account l.     *)
PlaceOf(r, h, c) == IF h = c THEN r.pending ELSE r.slot[Back(r, c - h)]
AgreeAt(r, c, l) ==
  c # Never =>
    \A h \in AllHours : h =< c /\ c - h =< r.count =>
      \/ Agrees(PlaceOf(r, h, c), l[h])
      \/ Bygone(h) /\ PlaceOf(r, h, c) = EmptyHour

CheckupIInv ==
  /\ CheckupShape /\ WipedInv /\ RingAt(hours, expires, watch.hour)
  /\ ~wipe => /\ SampleInv
              /\ OpenRunAt(run, story, watch) /\ PureRunAt(run, story, watch)
              /\ PerfectRunAt(run, story, watch)
              /\ run.open => HomeAt(hours, expires, watch.hour, run.hour)
              /\ AbsentAt(hours, watch.hour, ledger) /\ AgreeAt(hours, watch.hour, ledger)

-----------------------------------------------------------------------------
(* Hours and places *)

LEMMA HourBounds ==
  ASSUME NEW t \in Nat
  PROVE  HourOf(t) \in Nat /\ HourOf(t) * HourTicks =< t /\ t < HourOf(t) * HourTicks + HourTicks
<1> DEFINE w == HourTicks
<1>1. w \in Nat \ {0} BY CheckupAssumption
<1> HIDE DEF w
<1>2. t \div w \in Nat /\ (t \div w) * w =< t /\ t < (t \div w) * w + w BY <1>1
<1> QED BY <1>2 DEF HourOf, w

LEMMA TimesGrows ==
  ASSUME NEW a \in Int, NEW b \in Int, a =< b
  PROVE  a * HourTicks \in Int /\ b * HourTicks \in Int /\ a * HourTicks =< b * HourTicks
<1> DEFINE w == HourTicks
<1>1. w \in Nat \ {0} BY CheckupAssumption
<1> HIDE DEF w
<1>2. a * w \in Int /\ b * w \in Int /\ a * w =< b * w BY <1>1
<1> QED BY <1>2 DEF w

LEMMA TimesAdds ==
  ASSUME NEW a \in Int, NEW b \in Int
  PROVE  (a + b) * HourTicks = a * HourTicks + b * HourTicks
<1> DEFINE w == HourTicks
<1>1. w \in Nat \ {0} BY CheckupAssumption
<1> HIDE DEF w
<1>2. (a + b) * w = a * w + b * w BY <1>1
<1> QED BY <1>2 DEF w

(* An hour is over once the ring's length and one more hour have passed.    *)
LEMMA GoneByHour ==
  ASSUME NEW t \in Nat, NEW h \in Int
  PROVE  DateOf(h) \in Int /\ (t >= DateOf(h) <=> HourOf(t) >= (h + Completed) + 1)
<1> DEFINE T(n) == n * HourTicks
           k == (h + Completed) + 1
           q == HourOf(t)
<1>1. HourTicks \in Nat \ {0} /\ Completed \in Nat \ {0} BY CheckupAssumption
<1>2. k \in Int /\ q \in Nat /\ Completed + 1 \in Int BY <1>1, HourBounds
<1>3. T(q) =< t /\ t < T(q) + HourTicks /\ T(q) \in Int
  BY <1>1, <1>2, HourBounds, TimesGrows
<1>4. DateOf(h) = T(k) /\ T(k) \in Int
  <2>1. k = h + (Completed + 1) BY <1>1
  <2>2. T(k) = h * HourTicks + (Completed + 1) * HourTicks BY <2>1, <1>2, TimesAdds
  <2>3. T(k) \in Int BY <1>2, TimesGrows
  <2> QED BY <2>2, <2>3 DEF DateOf, Window
<1>5. q >= k => t >= T(k)
  <2>1. q >= k => T(k) =< T(q) BY <1>2, TimesGrows
  <2> HIDE DEF T, k, q
  <2> QED BY <2>1, <1>2, <1>3, <1>4
<1>6. q < k => t < T(k)
  <2>1. q + 1 \in Int /\ T(q + 1) = T(q) + T(1) /\ T(1) = HourTicks BY <1>1, <1>2, TimesAdds
  <2>2. q + 1 =< k => T(q + 1) =< T(k) BY <1>2, <2>1, TimesGrows
  <2> HIDE DEF T, k, q
  <2> QED BY <2>1, <2>2, <1>1, <1>2, <1>3, <1>4
<1>7. DateOf(h) = T(k) /\ T(k) \in Int BY <1>4
<1> HIDE DEF T
<1>8. t >= T(k) <=> q >= k BY <1>2, <1>4, <1>5, <1>6
<1> QED BY <1>7, <1>8

LEMMA DatesDiffer ==
  ASSUME NEW h \in Nat, NEW k \in Nat
  PROVE  DateOf(h) \in Nat \ {0} /\ (DateOf(h) = DateOf(k) => h = k)
<1> DEFINE T(n) == n * HourTicks
<1>1. HourTicks \in Nat \ {0} /\ Completed \in Nat \ {0} BY CheckupAssumption
<1>2. Window >= HourTicks /\ Window \in Nat
  <2>1. T(Completed + 1) = T(Completed) + T(1) /\ T(1) = HourTicks BY <1>1, TimesAdds
  <2>2. T(Completed) \in Int /\ T(0) =< T(Completed) /\ T(0) = 0 BY <1>1, TimesGrows
  <2> HIDE DEF T
  <2>3. T(Completed + 1) >= HourTicks /\ T(Completed + 1) \in Nat BY <1>1, <2>1, <2>2
  <2> QED BY <2>3 DEF T, Window
<1>3. T(h) \in Int /\ T(0) =< T(h) /\ T(0) = 0 /\ T(k) \in Int BY <1>1, TimesGrows
<1>4. \A x, y \in Nat : x < y => T(x) < T(y)
  <2> SUFFICES ASSUME NEW x \in Nat, NEW y \in Nat, x < y PROVE T(x) < T(y) OBVIOUS
  <2>1. T(x + 1) = T(x) + T(1) /\ T(1) = HourTicks BY <1>1, TimesAdds
  <2>2. x + 1 =< y /\ T(x + 1) =< T(y) /\ T(x) \in Int /\ T(y) \in Int BY TimesGrows
  <2> HIDE DEF T
  <2> QED BY <1>1, <2>1, <2>2
<1>5. DateOf(h) = T(h) + Window /\ DateOf(k) = T(k) + Window BY DEF DateOf
<1> HIDE DEF T
<1>6. DateOf(h) \in Nat \ {0} BY <1>1, <1>2, <1>3, <1>5
<1>7. h # k => T(h) # T(k) BY <1>3, <1>4
<1> QED BY <1>2, <1>3, <1>5, <1>6, <1>7

LEMMA WrapIs ==
  ASSUME NEW n \in 0..2 * Completed - 1
  PROVE  Wrap(n) = (IF n < Completed THEN n ELSE n - Completed) /\ Wrap(n) \in Ring
<1> DEFINE c == Completed
<1>1. c \in Nat \ {0} /\ n \in Nat /\ n < 2 * c BY CheckupAssumption
<1> HIDE DEF c
<1>2. CASE n < c
  <2>1. n % c = n BY <1>1, <1>2
  <2> QED BY <1>1, <1>2, <2>1 DEF Wrap, c, Ring
<1>3. CASE n >= c
  <2>1. PICK m \in Nat : n = c + m /\ m < c BY <1>1, <1>3
  <2>2. (c + m) % c = m BY <1>1, <2>1
  <2> QED BY <1>1, <1>3, <2>1, <2>2 DEF Wrap, c, Ring
<1> QED BY <1>1, <1>2, <1>3

LEMMA BackIs ==
  ASSUME NEW r \in Rings, NEW a \in 1..Completed
  PROVE  Back(r, a) \in Ring /\ Back(r, a) = IF r.head >= a THEN r.head - a ELSE (r.head + Completed) - a
<1> DEFINE c == Completed
           n == (r.head + Completed) - a
<1>1. c \in Nat \ {0} /\ r.head \in 0..c - 1 /\ a \in 1..c BY CheckupAssumption DEF Rings, Ring
<1>2. n \in 0..2 * Completed - 1 BY <1>1
<1>3. Wrap(n) = (IF n < Completed THEN n ELSE n - Completed) /\ Wrap(n) \in Ring BY <1>2, WrapIs
<1>4. Back(r, a) = Wrap(n) BY DEF Back
<1> QED BY <1>1, <1>3, <1>4

LEMMA BackOnce ==
  ASSUME NEW r \in Rings, NEW a \in 1..Completed, NEW b \in 1..Completed, a # b
  PROVE  Back(r, a) # Back(r, b)
<1>1. Completed \in Nat \ {0} /\ r.head \in 0..Completed - 1 BY CheckupAssumption DEF Rings, Ring
<1> QED BY <1>1, BackIs

LEMMA BackAll ==
  ASSUME NEW r \in Rings, NEW i \in Ring
  PROVE  \E a \in 1..Completed : i = Back(r, a)
<1>1. Completed \in Nat \ {0} /\ r.head \in 0..Completed - 1 /\ i \in 0..Completed - 1
  BY CheckupAssumption DEF Rings, Ring
<1> DEFINE a == IF r.head > i THEN r.head - i ELSE (r.head + Completed) - i
<1>2. a \in 1..Completed BY <1>1
<1>3. i = Back(r, a) BY <1>1, <1>2, BackIs
<1> QED BY <1>2, <1>3

LEMMA SlotIsBack ==
  ASSUME NEW r \in Rings, NEW h \in Int, NEW c \in Int
  PROVE  SlotOf(r, h, c) = Back(r, c - h)
<1>1. Completed \in Nat /\ r.head \in Int BY CheckupAssumption DEF Rings, Ring
<1>2. (r.head + Completed - (c - h)) = (r.head + Completed) - (c - h) BY <1>1
<1> QED BY <1>2 DEF SlotOf, Back, Wrap

LEMMA EmptyRecord == EmptyHour \in HourRecords /\ DOMAIN EmptyHour = {"seen", "ran", "starts", "space", "dhw", "cooling", "secs", "cut"}
BY DEF EmptyHour, HourRecords

-----------------------------------------------------------------------------
(* Hours that end *)

(* The ring after the open hour and k empty ones were pushed.               *)
Behind(r, k, i) == \E j \in 1..k : i = Wrap(r.head + j)
PushedTo(r, k) ==
  [slot |-> [i \in Ring |-> IF Behind(r, k, i) THEN EmptyHour
                            ELSE IF i = r.head THEN r.pending ELSE r.slot[i]],
   count |-> IF (r.count + k) + 1 < Completed THEN (r.count + k) + 1 ELSE Completed,
   head |-> Wrap((r.head + k) + 1),
   pending |-> r.pending]

LEMMA PushedIs ==
  ASSUME NEW r \in Rings, NEW h \in HourRecords
  PROVE  Pushed(r, h) = [slot |-> [i \in Ring |-> IF i = r.head THEN h ELSE r.slot[i]],
                         count |-> IF r.count < Completed THEN r.count + 1 ELSE r.count,
                         head |-> Wrap(r.head + 1), pending |-> r.pending]
<1>1. r.slot \in [Ring -> HourRecords] /\ r.head \in Ring BY DEF Rings
<1>2. [r.slot EXCEPT ![r.head] = h] = [i \in Ring |-> IF i = r.head THEN h ELSE r.slot[i]]
  BY <1>1
<1>3. Pushed(r, h) = [r EXCEPT !.slot = [r.slot EXCEPT ![r.head] = h],
                          !.head = (r.head + 1) % Completed,
                          !.count = IF r.count < Completed THEN r.count + 1 ELSE r.count]
  BY DEF Pushed, Rings
<1>4. r = [slot |-> r.slot, count |-> r.count, head |-> r.head, pending |-> r.pending] BY DEF Rings
<1> QED BY <1>2, <1>3, <1>4 DEF Wrap

LEMMA PushedToFirst ==
  ASSUME NEW r \in Rings
  PROVE  PushedTo(r, 0) = Pushed(r, r.pending) /\ PushedTo(r, 0) \in Rings
<1>1. Completed \in Nat \ {0} /\ r.head \in Ring /\ r.count \in 0..Completed
      /\ r.pending \in HourRecords /\ r.slot \in [Ring -> HourRecords]
  BY CheckupAssumption DEF Rings
<1>2. \A i : ~Behind(r, 0, i) BY DEF Behind
<1>3. Pushed(r, r.pending) = [slot |-> [i \in Ring |-> IF i = r.head THEN r.pending ELSE r.slot[i]],
                         count |-> IF r.count < Completed THEN r.count + 1 ELSE r.count,
                         head |-> Wrap(r.head + 1), pending |-> r.pending]
  BY <1>1, PushedIs
<1>4. PushedTo(r, 0).slot = Pushed(r, r.pending).slot BY <1>2, <1>3 DEF PushedTo
<1>5. (r.head + 0) + 1 = r.head + 1 BY <1>1 DEF Ring
<1>6. PushedTo(r, 0).count = Pushed(r, r.pending).count BY <1>1, <1>3 DEF PushedTo
<1>7. PushedTo(r, 0) = Pushed(r, r.pending)
  BY <1>3, <1>4, <1>5, <1>6 DEF PushedTo
<1>8. r.head + 1 \in 0..2 * Completed - 1 BY <1>1 DEF Ring
<1>9. Wrap(r.head + 1) \in Ring BY <1>8, WrapIs
<1>10. [i \in Ring |-> IF i = r.head THEN r.pending ELSE r.slot[i]] \in [Ring -> HourRecords]
  BY <1>1
<1>11. (IF r.count < Completed THEN r.count + 1 ELSE r.count) \in 0..Completed BY <1>1
<1> QED BY <1>1, <1>3, <1>7, <1>9, <1>10, <1>11 DEF Rings

LEMMA PushedToNext ==
  ASSUME NEW r \in Rings, NEW k \in 0..Completed - 1, PushedTo(r, k) \in Rings
  PROVE  PushedTo(r, k + 1) = Pushed(PushedTo(r, k), EmptyHour) /\ PushedTo(r, k + 1) \in Rings
<1> DEFINE p == PushedTo(r, k)
<1>1. /\ Completed \in Nat \ {0} /\ r.head \in 0..Completed - 1 /\ r.count \in 0..Completed
      /\ r.pending \in HourRecords /\ r.slot \in [Ring -> HourRecords] /\ k \in Nat
      /\ p.head = Wrap((r.head + k) + 1) /\ p.pending = r.pending /\ p.slot \in [Ring -> HourRecords]
      /\ p.head \in Ring
  BY CheckupAssumption DEF Rings, Ring, PushedTo
<1>2. Pushed(p, EmptyHour) =
        [slot |-> [i \in Ring |-> IF i = p.head THEN EmptyHour ELSE p.slot[i]],
         count |-> IF p.count < Completed THEN p.count + 1 ELSE p.count,
         head |-> Wrap(p.head + 1), pending |-> p.pending]
  BY PushedIs, EmptyRecord
<1>3. \A i \in Ring : Behind(r, k + 1, i) <=> Behind(r, k, i) \/ i = p.head
  <2>1. \A j : j \in 1..k + 1 <=> j \in 1..k \/ j = k + 1 BY <1>1
  <2>2. r.head + (k + 1) = (r.head + k) + 1 BY <1>1
  <2> QED BY <1>1, <2>1, <2>2 DEF Behind
<1>4. \A i \in Ring : p.slot[i] = IF Behind(r, k, i) THEN EmptyHour
                            ELSE IF i = r.head THEN r.pending ELSE r.slot[i]
  BY DEF PushedTo
<1>5. PushedTo(r, k + 1).slot = [i \in Ring |-> IF i = p.head THEN EmptyHour ELSE p.slot[i]]
  <2>1. \A i \in Ring : (IF Behind(r, k + 1, i) THEN EmptyHour
                            ELSE IF i = r.head THEN r.pending ELSE r.slot[i])
                        = (IF i = p.head THEN EmptyHour ELSE p.slot[i])
    BY <1>3, <1>4
  <2> HIDE DEF p
  <2>2. [i \in Ring |-> IF Behind(r, k + 1, i) THEN EmptyHour
                            ELSE IF i = r.head THEN r.pending ELSE r.slot[i]]
        = [i \in Ring |-> IF i = p.head THEN EmptyHour ELSE p.slot[i]]
    BY <2>1
  <2> QED BY <2>2 DEF PushedTo
<1>6. Wrap(p.head + 1) = Wrap((r.head + (k + 1)) + 1) /\ Wrap(p.head + 1) \in Ring
  <2>1. /\ (r.head + k) + 1 \in 0..2 * Completed - 1 /\ p.head + 1 \in 0..2 * Completed - 1
    BY <1>1, SMTT(60) DEF Ring
  <2>2. p.head = (IF (r.head + k) + 1 < Completed THEN (r.head + k) + 1
                  ELSE ((r.head + k) + 1) - Completed)
    BY <1>1, <2>1, WrapIs
  <2>3. Wrap(p.head + 1) = (IF p.head + 1 < Completed THEN p.head + 1 ELSE (p.head + 1) - Completed)
        /\ Wrap(p.head + 1) \in Ring
    BY <2>1, WrapIs
  <2>4. CASE (r.head + (k + 1)) + 1 < 2 * Completed
    <3>1. (r.head + (k + 1)) + 1 \in 0..2 * Completed - 1 BY <1>1, <2>4
    <3>2. Wrap((r.head + (k + 1)) + 1) = IF (r.head + (k + 1)) + 1 < Completed THEN (r.head + (k + 1)) + 1
                                        ELSE ((r.head + (k + 1)) + 1) - Completed
      BY <3>1, WrapIs
    <3> DEFINE a == p.head
               b == (r.head + k) + 1
               d == Wrap(a + 1)
               e == Wrap((r.head + (k + 1)) + 1)
    <3>3. /\ (r.head + (k + 1)) + 1 = b + 1 /\ b \in Nat /\ b + 1 < 2 * Completed
          /\ a = (IF b < Completed THEN b ELSE b - Completed)
          /\ d = (IF a + 1 < Completed THEN a + 1 ELSE (a + 1) - Completed)
          /\ e = (IF b + 1 < Completed THEN b + 1 ELSE (b + 1) - Completed)
      BY <1>1, <2>2, <2>3, <2>4, <3>2
    <3>4. d \in Ring BY <2>3
    <3> HIDE DEF a, b, d, e
    <3>5. d = e BY <1>1, <3>3
    <3> QED BY <3>4, <3>5 DEF a, d, e
  <2>5. CASE (r.head + (k + 1)) + 1 = 2 * Completed
    <3>1. p.head + 1 = Completed BY <1>1, <2>2, <2>5
    <3>2. Wrap(p.head + 1) = 0 BY <1>1, <2>3, <3>1
    <3> DEFINE c == Completed
    <3>3. (2 * c) % c = 0
      <4>1. c \in Nat \ {0} BY <1>1
      <4> HIDE DEF c
      <4>2. 2 * c = c + c BY <4>1
      <4> QED BY <4>1, <4>2
    <3> QED BY <2>3, <2>5, <3>2, <3>3 DEF Wrap
  <2> QED BY <1>1, <2>4, <2>5
<1>7. PushedTo(r, k + 1).count = IF p.count < Completed THEN p.count + 1 ELSE p.count
  BY <1>1 DEF PushedTo
<1>8. PushedTo(r, k + 1) = Pushed(p, EmptyHour)
  <2>1. PushedTo(r, k + 1) = [slot |-> PushedTo(r, k + 1).slot, count |-> PushedTo(r, k + 1).count,
                              head |-> Wrap((r.head + (k + 1)) + 1), pending |-> r.pending]
    BY DEF PushedTo
  <2> HIDE DEF p
  <2> QED BY <1>1, <1>2, <1>5, <1>6, <1>7, <2>1
<1>9. [i \in Ring |-> IF i = p.head THEN EmptyHour ELSE p.slot[i]] \in [Ring -> HourRecords]
  <2> HIDE DEF p
  <2> QED BY <1>1, EmptyRecord
<1>10. (IF p.count < Completed THEN p.count + 1 ELSE p.count) \in 0..Completed
  BY <1>1 DEF Rings
<1> HIDE DEF p
<1> QED BY <1>1, <1>2, <1>6, <1>8, <1>9, <1>10 DEF Rings, p

LEMMA LeastOf ==
  ASSUME NEW T, T \subseteq Nat, T # {}
  PROVE  \E m \in T : \A y \in T : m =< y
<1> DEFINE R == OpToRel(<, Nat)
<1>1. IsWellFoundedOn(R, Nat) BY NatLessThanWellFounded
<1>2. \A x, y \in Nat : x < y => <<x, y>> \in R BY DEF OpToRel
<1> HIDE DEF R
<1>3. PICK n \in T : TRUE OBVIOUS
<1>4. PICK m \in T : \A y \in T : ~ (<<y, m>> \in R) BY <1>1, <1>3, WFMin
<1>5. ASSUME NEW y \in T PROVE m =< y
  <2>1. m \in Nat /\ y \in Nat OBVIOUS
  <2>2. ~ (y < m) BY <1>2, <1>4, <2>1
  <2> QED BY <2>1, <2>2
<1> QED BY <1>5

LEMMA PushedToIn ==
  ASSUME NEW r \in Rings, NEW n \in 0..Completed
  PROVE  PushedTo(r, n) \in Rings
<1> DEFINE T == {k \in 0..Completed : PushedTo(r, k) \notin Rings}
<1>1. Completed \in Nat BY CheckupAssumption
<1>2. SUFFICES ASSUME T # {} PROVE FALSE OBVIOUS
<1>3. T \subseteq Nat BY <1>1
<1> HIDE DEF T
<1>4. PICK m \in T : \A y \in T : m =< y BY <1>2, <1>3, LeastOf
<1>5. m \in 0..Completed /\ PushedTo(r, m) \notin Rings BY <1>4 DEF T
<1>6. m # 0 BY <1>5, PushedToFirst
<1>7. m - 1 \in 0..Completed - 1 /\ (m - 1) + 1 = m BY <1>1, <1>5, <1>6
<1>8. m - 1 \notin T BY <1>4, <1>5, <1>7
<1>9. PushedTo(r, m - 1) \in Rings BY <1>1, <1>7, <1>8 DEF T
<1> QED BY <1>5, <1>7, <1>9, PushedToNext

LEMMA CommitIs ==
  ASSUME NEW r \in Rings, NEW k \in Nat
  PROVE  LET n == IF k < Completed THEN k ELSE Completed
         IN  CommitHours(r, k) = [PushedTo(r, n) EXCEPT !.pending = EmptyHour]
<1> DEFINE n == IF k < Completed THEN k ELSE Completed
           G(f) == [j \in 0..n |-> IF j = 0 THEN Pushed(r, r.pending) ELSE Pushed(f[j - 1], EmptyHour)]
           F == [j \in 0..n |-> PushedTo(r, j)]
           g == CHOOSE f : f = G(f)
<1>1. Completed \in Nat /\ n \in 0..Completed BY CheckupAssumption
<1>2. CommitHours(r, k) = [g[n] EXCEPT !.pending = EmptyHour] BY DEF CommitHours
<1> HIDE DEF n
<1>3. ASSUME NEW j \in 1..n PROVE PushedTo(r, j) = Pushed(PushedTo(r, j - 1), EmptyHour)
  <2>1. j - 1 \in 0..Completed - 1 /\ (j - 1) + 1 = j /\ j - 1 \in 0..Completed BY <1>1
  <2>2. PushedTo(r, j - 1) \in Rings BY <2>1, PushedToIn
  <2> QED BY <2>1, <2>2, PushedToNext
<1>4. F = G(F)
  <2>1. ASSUME NEW j \in 0..n
        PROVE  PushedTo(r, j) = IF j = 0 THEN Pushed(r, r.pending) ELSE Pushed(F[j - 1], EmptyHour)
    <3>1. CASE j = 0 BY <3>1, PushedToFirst
    <3>2. CASE j # 0
      <4>1. j \in 1..n /\ j - 1 \in 0..n BY <1>1, <3>2
      <4>2. F[j - 1] = PushedTo(r, j - 1) BY <4>1
      <4> QED BY <1>3, <3>2, <4>1, <4>2
    <3> QED BY <3>1, <3>2
  <2> QED BY <2>1
<1> HIDE DEF F
<1>5. g = G(g) BY <1>4
<1> HIDE DEF g
<1>6. \A j \in 0..n : g[j] = IF j = 0 THEN Pushed(r, r.pending) ELSE Pushed(g[j - 1], EmptyHour)
  BY <1>5
<1> DEFINE T == {j \in 0..n : g[j] # PushedTo(r, j)}
<1>7. T \subseteq Nat BY <1>1
<1> HIDE DEF T
<1>8. T = {}
  <2> SUFFICES ASSUME T # {} PROVE FALSE OBVIOUS
  <2>1. PICK m \in T : \A y \in T : m =< y BY <1>7, LeastOf
  <2>2. m \in 0..n /\ g[m] # PushedTo(r, m) BY <2>1 DEF T
  <2>3. m # 0 BY <1>6, <2>2, PushedToFirst
  <2>4. m \in 1..n /\ m - 1 \in 0..n /\ ~ (m =< m - 1) BY <1>1, <2>2, <2>3
  <2>5. m - 1 \notin T BY <2>1, <2>4
  <2>6. g[m - 1] = PushedTo(r, m - 1) BY <2>4, <2>5 DEF T
  <2> QED BY <1>3, <1>6, <2>2, <2>3, <2>4, <2>6
<1>9. n \in 0..n /\ n \notin T BY <1>1, <1>8
<1>10. g[n] = PushedTo(r, n) BY <1>9 DEF T
<1> QED BY <1>2, <1>10 DEF n

(* Where the slot a hours before the open one lies once n + 1 were pushed.  *)
LEMMA BackOfPushed ==
  ASSUME NEW r \in Rings, NEW n \in 0..Completed, NEW q \in Rings, q.head = Wrap((r.head + n) + 1),
         NEW a \in 1..Completed
  PROVE  LET p == ((r.head + n) + 1) - a
         IN  Back(q, a) = IF p < 0 THEN p + Completed ELSE IF p < Completed THEN p ELSE p - Completed
<1> DEFINE c == Completed
           h == r.head
           p == ((h + n) + 1) - a
           m == (h + n) + 1
           g == q.head
           b == Back(q, a)
<1>1. c \in Nat \ {0} /\ h \in 0..c - 1 /\ n \in 0..c /\ a \in 1..c /\ g \in 0..c - 1
  BY CheckupAssumption DEF Rings, Ring
<1>2. b = IF g >= a THEN g - a ELSE (g + c) - a BY BackIs
<1>3. m < 2 * c => g = IF m < c THEN m ELSE m - c
  <2>1. m < 2 * c => m \in 0..2 * c - 1 BY <1>1
  <2> QED BY <2>1, WrapIs
<1>4. m = 2 * c => g = 0
  <2> SUFFICES ASSUME m = 2 * c PROVE g = 0 OBVIOUS
  <2>1. g = (2 * c) % c BY DEF Wrap
  <2>2. (2 * c) % c = 0
    <3> HIDE DEF c
    <3>1. 2 * c = c + c BY <1>1
    <3> QED BY <1>1, <3>1
  <2> QED BY <2>1, <2>2
<1>5. m \in Nat /\ m =< 2 * c /\ p = m - a BY <1>1
<1>6. b = IF p < 0 THEN p + c ELSE IF p < c THEN p ELSE p - c
  <2> HIDE DEF c, h, p, m, g, b
  <2> QED BY <1>1, <1>2, <1>3, <1>4, <1>5
<1> QED BY <1>6

(* The hours q with the dates y are r and x after hour c and k skipped ones. *)
Shifted(r, x, c, k, q, y) ==
  /\ q \in Rings /\ y \in [Ring -> Nat] /\ q.pending = EmptyHour
  /\ q.count = IF (r.count + k) + 1 < Completed THEN (r.count + k) + 1 ELSE Completed
  /\ (r.count < Completed => r.head = r.count) => (q.count < Completed => q.head = q.count)
  /\ \A a \in 1..Completed :
       /\ q.slot[Back(q, a)] = IF a =< k THEN EmptyHour ELSE IF a = k + 1 THEN r.pending
                               ELSE r.slot[Back(r, (a - k) - 1)]
       /\ y[Back(q, a)] = IF a =< k THEN 0 ELSE IF a = k + 1 THEN DateOf(c)
                          ELSE x[Back(r, (a - k) - 1)]

LEMMA CommitShift ==
  ASSUME NEW r \in Rings, NEW k \in Nat, NEW x \in [Ring -> Nat], NEW c \in Nat
  PROVE  Shifted(r, x, c, k, CommitHours(r, k), Dated(x, r, c, k))
<1> DEFINE C == Completed
           n == IF k < C THEN k ELSE C
           p == PushedTo(r, n)
           q == CommitHours(r, k)
           y == Dated(x, r, c, k)
           after == {(r.head + j) % C : j \in 0..n}
<1>1. C \in Nat \ {0} /\ n \in 0..C /\ r.head \in 0..C - 1 /\ r.head \in Nat /\ r.count \in 0..C
  BY CheckupAssumption DEF Rings, Ring
<1>2. q = [p EXCEPT !.pending = EmptyHour] /\ p \in Rings BY <1>1, CommitIs, PushedToIn
<1>3. /\ q \in Rings /\ q.pending = EmptyHour /\ q.slot = p.slot /\ q.count = p.count /\ q.head = p.head
  <2> HIDE DEF p, q
  <2> QED BY <1>2, EmptyRecord DEF Rings
<1>4. /\ q.head = Wrap((r.head + n) + 1)
      /\ q.count = IF (r.count + n) + 1 < C THEN (r.count + n) + 1 ELSE C
      /\ \A i \in Ring : q.slot[i] = IF Behind(r, n, i) THEN EmptyHour
                                     ELSE IF i = r.head THEN r.pending ELSE r.slot[i]
  BY <1>3 DEF PushedTo
<1>5. y = [i \in Ring |-> IF i = r.head /\ k < C THEN DateOf(c) ELSE IF i \in after THEN 0 ELSE x[i]]
  BY DEF Dated, DateOf
<1>6. y \in [Ring -> Nat]
  <2>1. DateOf(c) \in Nat BY DatesDiffer
  <2> HIDE DEF y, after
  <2> QED BY <1>5, <2>1
<1>7. q.count = IF (r.count + k) + 1 < C THEN (r.count + k) + 1 ELSE C
  <2> HIDE DEF q
  <2> QED BY <1>1, <1>4
<1>8. (r.count < C => r.head = r.count) => (q.count < C => q.head = q.count)
  <2> SUFFICES ASSUME r.count < C => r.head = r.count, q.count < C PROVE q.head = q.count OBVIOUS
  <2>1. (r.count + k) + 1 < C /\ q.count = (r.count + k) + 1 BY <1>1, <1>7
  <2>2. r.head = r.count /\ n = k BY <1>1, <2>1
  <2>3. (r.head + n) + 1 \in 0..2 * C - 1 /\ (r.head + n) + 1 < C BY <1>1, <2>1, <2>2
  <2>4. Wrap((r.head + n) + 1) = (r.head + n) + 1 BY <2>3, WrapIs
  <2> QED BY <1>4, <2>1, <2>2, <2>4
<1>9. ASSUME NEW a \in 1..C
      PROVE  /\ q.slot[Back(q, a)] = IF a =< k THEN EmptyHour ELSE IF a = k + 1 THEN r.pending
                                     ELSE r.slot[Back(r, (a - k) - 1)]
             /\ y[Back(q, a)] = IF a =< k THEN 0 ELSE IF a = k + 1 THEN DateOf(c)
                                ELSE x[Back(r, (a - k) - 1)]
  <2> DEFINE i == Back(q, a)
             z == ((r.head + n) + 1) - a
  <2>1. i \in Ring /\ a \in Nat BY <1>1, <1>3, BackIs
  <2>2. i = IF z < 0 THEN z + C ELSE IF z < C THEN z ELSE z - C BY <1>1, <1>3, <1>4, BackOfPushed
  <2>3. \A j \in 0..n : r.head + j < 2 * C =>
                        Wrap(r.head + j) = IF r.head + j < C THEN r.head + j ELSE (r.head + j) - C
    <3> TAKE j \in 0..n
    <3>1. r.head + j < 2 * C => r.head + j \in 0..2 * C - 1 BY <1>1
    <3> QED BY <3>1, WrapIs
  <2>4. \A j \in 0..n : r.head + j < 2 * C BY <1>1
  <2>5. i \in after <=> \E j \in 0..n : i = Wrap(r.head + j) BY DEF Wrap
  <2>6. CASE a =< k
    <3>1. a =< n /\ (n + 1) - a \in 1..n BY <1>1, <2>6
    <3> DEFINE j == (n + 1) - a
    <3>2. r.head + j = z /\ j \in 0..n /\ z >= 0 BY <1>1, <3>1
    <3>8. Wrap(r.head + j) = IF z < C THEN z ELSE z - C
      <4> HIDE DEF j, z, i
      <4>1. r.head + j < 2 * C BY <2>4, <3>2
      <4>2. Wrap(r.head + j) = IF r.head + j < C THEN r.head + j ELSE (r.head + j) - C BY <2>3, <3>2, <4>1
      <4> QED BY <3>2, <4>2
    <3>3. i = Wrap(r.head + j)
      <4> HIDE DEF j, z, i
      <4> QED BY <1>1, <2>2, <3>2, <3>8
    <3>4. Behind(r, n, i) /\ i \in after BY <2>5, <3>1, <3>2, <3>3 DEF Behind
    <3>5. k < C => i # r.head
      <4> SUFFICES ASSUME k < C PROVE i # r.head OBVIOUS
      <4>1. j \in 1..C - 1 /\ z = r.head + j BY <1>1, <3>1, <3>2
      <4> HIDE DEF i, z, j
      <4> QED BY <1>1, <2>2, <4>1
    <3>6. q.slot[i] = EmptyHour BY <1>4, <2>1, <3>4
    <3>7. y[i] = 0
      <4> HIDE DEF y, after, i
      <4> QED BY <1>5, <2>1, <3>4, <3>5
    <3> HIDE DEF q, y
    <3> QED BY <2>6, <3>6, <3>7
  <2>7. CASE a > k
    <3>1. n = k /\ k < C BY <1>1, <2>1, <2>7
    <3>2. z =< r.head /\ z > r.head - C BY <1>1, <3>1, <2>1, <2>7
    <3>3. ASSUME NEW j \in 1..n PROVE i # Wrap(r.head + j)
      <4> DEFINE w == Wrap(r.head + j)
      <4>1. w = IF r.head + j < C THEN r.head + j ELSE (r.head + j) - C
        <5>1. j \in 0..n BY <1>1
        <5> QED BY <2>3, <2>4, <5>1
      <4>2. (r.head + j) - z = ((j + a) - k) - 1 /\ ((j + a) - k) - 1 \in 1..C - 1
        BY <1>1, <2>1, <2>7, <3>1
      <4>3. z \in Int /\ j \in Nat BY <1>1, <2>1
      <4> HIDE DEF i, z, w
      <4> QED BY <1>1, <2>2, <3>2, <4>1, <4>2, <4>3 DEF w
    <3>4. ~Behind(r, n, i) BY <3>3 DEF Behind
    <3>5. CASE a = k + 1
      <4>1. z = r.head BY <1>1, <2>1, <3>1, <3>5
      <4>2. i = r.head BY <1>1, <2>2, <4>1
      <4>3. q.slot[i] = r.pending BY <1>4, <2>1, <3>4, <4>2
      <4>4. y[i] = DateOf(c)
        <5> HIDE DEF y, after, i
        <5> QED BY <1>5, <2>1, <3>1, <4>2
      <4> HIDE DEF q, y
      <4> QED BY <1>1, <2>1, <3>5, <4>3, <4>4
    <3>6. CASE a > k + 1
      <4> DEFINE e == (a - k) - 1
      <4>1. e \in 1..C /\ e < C /\ z = r.head - e BY <1>1, <2>1, <3>1, <3>6
      <4>2. Back(r, e) = IF r.head >= e THEN r.head - e ELSE (r.head + C) - e BY <4>1, BackIs
      <4>3. i = Back(r, e)
        <5> DEFINE u == Back(r, e)
        <5> HIDE DEF i, z, e, u
        <5> QED BY <1>1, <2>2, <4>1, <4>2 DEF u
      <4>4. i # r.head
        <5> HIDE DEF i, z, e
        <5> QED BY <1>1, <2>2, <4>1
      <4>5. Wrap(r.head + 0) = r.head
        <5>1. 0 \in 0..n /\ r.head + 0 = r.head BY <1>1
        <5> QED BY <1>1, <2>3, <2>4, <5>1
      <4>6. i \notin after
        <5>1. \A j : j \in 0..n => j = 0 \/ j \in 1..n BY <1>1
        <5> QED BY <2>5, <3>3, <4>4, <4>5, <5>1
      <4>7. q.slot[i] = r.slot[Back(r, e)] BY <1>4, <2>1, <3>4, <4>3, <4>4
      <4>8. y[i] = x[Back(r, e)]
        <5> HIDE DEF y, after, i
        <5> QED BY <1>5, <2>1, <4>3, <4>4, <4>6
      <4>9. ~ (a =< k) /\ a # k + 1 BY <1>1, <2>1, <3>6
      <4> HIDE DEF q, y
      <4> QED BY <4>7, <4>8, <4>9
    <3> QED BY <1>1, <2>1, <2>7, <3>5, <3>6
  <2> QED BY <1>1, <2>1, <2>6, <2>7
<1> HIDE DEF q, y, p, after, n
<1>10. Shifted(r, x, c, k, q, y) BY <1>3, <1>6, <1>7, <1>8, <1>9 DEF Shifted
<1> QED BY <1>10 DEF q, y
LEMMA NothingAgrees == Agrees(EmptyHour, NoEvents)
BY DEF Agrees, EmptyHour, NoEvents, Classes

LEMMA AbsentIsEmpty ==
  ASSUME NEW h, NEW e, e = NoEvents \/ Bygone(h)
  PROVE  Agrees(EmptyHour, e) \/ Bygone(h)
BY NothingAgrees

LEMMA MovesOn ==
  ASSUME NEW r \in Rings, NEW x \in [Ring -> Nat], NEW l, NEW c \in Nat, NEW cur \in Nat, c < cur,
         uptime \in Nat, HourOf(uptime) = cur
  PROVE  LET k == (cur - c) - 1
             q == CommitHours(r, k)
             y == Dated(x, r, c, k)
         IN  /\ q \in Rings /\ y \in [Ring -> Nat]
             /\ RingAt(r, x, c) => RingAt(q, y, cur)
             /\ AbsentAt(r, c, l) => AbsentAt(q, cur, l)
             /\ AbsentAt(r, c, l) /\ AgreeAt(r, c, l) => AgreeAt(q, cur, l)
             /\ \A m \in Nat : HomeAt(r, x, c, m) => HomeAt(q, y, cur, m)
<1> DEFINE C == Completed
           k == (cur - c) - 1
           q == CommitHours(r, k)
           y == Dated(x, r, c, k)
<1>1. /\ C \in Nat \ {0} /\ r.count \in 0..C /\ k \in Nat /\ cur = (c + k) + 1
      /\ \A a \in 1..C : a \in Nat /\ a >= 1 /\ a =< C
  BY CheckupAssumption DEF Rings
<1>2. /\ q \in Rings /\ y \in [Ring -> Nat] /\ q.pending = EmptyHour
      /\ q.count = IF (r.count + k) + 1 < C THEN (r.count + k) + 1 ELSE C
      /\ (r.count < C => r.head = r.count) => (q.count < C => q.head = q.count)
      /\ \A a \in 1..C :
           /\ q.slot[Back(q, a)] = IF a =< k THEN EmptyHour ELSE IF a = k + 1 THEN r.pending
                                   ELSE r.slot[Back(r, (a - k) - 1)]
           /\ y[Back(q, a)] = IF a =< k THEN 0 ELSE IF a = k + 1 THEN DateOf(c)
                              ELSE x[Back(r, (a - k) - 1)]
  <2>1. Shifted(r, x, c, k, q, y) BY <1>1, CommitShift
  <2> HIDE DEF q, y, k
  <2> QED BY <2>1 DEF Shifted
<1> HIDE DEF q, y, k
<1>3. DateOf(c) \in Nat \ {0} BY DatesDiffer
<1>4. \A h \in Int : Bygone(h) <=> cur >= (h + C) + 1 BY GoneByHour DEF Bygone
<1>5. ASSUME RingAt(r, x, c) PROVE RingAt(q, y, cur)
  <2>1. q.count < C => q.head = q.count BY <1>2, <1>5 DEF RingAt
  <2>2. ASSUME NEW a \in 1..C
        PROVE  /\ y[Back(q, a)] = 0 => q.slot[Back(q, a)] = EmptyHour
               /\ y[Back(q, a)] # 0 => /\ a =< q.count /\ a =< cur
                                       /\ y[Back(q, a)] = DateOf(cur - a)
    <3>1. CASE a =< k BY <1>2, <3>1
    <3>2. CASE a = k + 1
      <4>1. a =< q.count /\ a =< cur /\ cur - a = c BY <1>1, <1>2, <3>2
      <4>2. y[Back(q, a)] = DateOf(c) BY <1>1, <1>2, <3>2
      <4> QED BY <1>3, <4>1, <4>2
    <3>3. CASE a > k + 1
      <4> DEFINE b == (a - k) - 1
      <4>1. b \in 1..C /\ a = (b + k) + 1 /\ cur - a = c - b BY <1>1, <3>3
      <4>2. q.slot[Back(q, a)] = r.slot[Back(r, b)] /\ y[Back(q, a)] = x[Back(r, b)]
        BY <1>1, <1>2, <3>3
      <4>3. /\ x[Back(r, b)] = 0 => r.slot[Back(r, b)] = EmptyHour
            /\ x[Back(r, b)] # 0 => b =< r.count /\ b =< c /\ x[Back(r, b)] = DateOf(c - b)
        BY <1>5, <4>1 DEF RingAt
      <4> HIDE DEF b
      <4>4. b =< r.count => a =< q.count BY <1>1, <1>2, <4>1
      <4>5. b =< c => a =< cur BY <1>1, <4>1
      <4> QED BY <4>1, <4>2, <4>3, <4>4, <4>5
    <3> QED BY <1>1, <3>1, <3>2, <3>3
  <2>3. cur # Never BY DEF Never
  <2> QED BY <2>1, <2>2, <2>3 DEF RingAt
<1>6. ASSUME AbsentAt(r, c, l) PROVE AbsentAt(q, cur, l)
  <2> SUFFICES ASSUME NEW h \in AllHours, h > cur \/ cur - h > q.count PROVE l[h] = NoEvents \/ Bygone(h)
    BY DEF AbsentAt, Never
  <2>1. h \in Nat BY DEF AllHours
  <2>2. CASE h > cur
    <3>1. h > c BY <2>1, <2>2
    <3> QED BY <1>6, <3>1 DEF AbsentAt
  <2>3. CASE cur - h > C
    <3>1. Bygone(h) BY <1>1, <1>4, <2>1, <2>3
    <3> QED BY <3>1
  <2>4. CASE cur - h =< C /\ ~ (h > cur)
    <3>1. c - h > r.count BY <1>1, <1>2, <2>1, <2>4
    <3> QED BY <1>6, <3>1 DEF AbsentAt
  <2> QED BY <1>1, <2>1, <2>2, <2>3, <2>4
<1>7. ASSUME AbsentAt(r, c, l), AgreeAt(r, c, l) PROVE AgreeAt(q, cur, l)
  <2> SUFFICES ASSUME NEW h \in AllHours, h =< cur, cur - h =< q.count
               PROVE  \/ Agrees(PlaceOf(q, h, cur), l[h])
                      \/ Bygone(h) /\ PlaceOf(q, h, cur) = EmptyHour
    BY DEF AgreeAt
  <2>1. h \in Nat /\ c # Never BY DEF AllHours, Never
  <2>2. CASE h = cur
    <3>1. h > c BY <2>2
    <3>2. PlaceOf(q, h, cur) = EmptyHour BY <1>2, <2>2 DEF PlaceOf
    <3> QED BY <1>7, <3>1, <3>2, AbsentIsEmpty DEF AbsentAt
  <2>3. CASE h # cur
    <3> DEFINE a == cur - h
    <3>1. a \in 1..C /\ a = cur - h /\ a =< q.count BY <1>1, <1>2, <2>1, <2>3
    <3>2. PlaceOf(q, h, cur) = q.slot[Back(q, a)] BY <2>3 DEF PlaceOf
    <3> HIDE DEF a
    <3>3. CASE a =< k
      <4>1. h > c BY <1>1, <2>1, <3>1, <3>3
      <4>2. PlaceOf(q, h, cur) = EmptyHour BY <1>2, <3>1, <3>2, <3>3
      <4> QED BY <1>7, <4>1, <4>2, AbsentIsEmpty DEF AbsentAt
    <3>4. CASE a = k + 1
      <4>1. h = c /\ ~ (a =< k) BY <1>1, <2>1, <3>1, <3>4
      <4>2. PlaceOf(q, h, cur) = PlaceOf(r, h, c) BY <1>2, <3>1, <3>2, <3>4, <4>1 DEF PlaceOf
      <4>3. h =< c /\ c - h =< r.count BY <1>1, <2>1, <4>1
      <4> QED BY <1>7, <2>1, <4>2, <4>3 DEF AgreeAt
    <3>5. CASE a > k + 1
      <4>1. (a - k) - 1 = c - h /\ h < c /\ ~ (a =< k) /\ a # k + 1 BY <1>1, <2>1, <3>1, <3>5
      <4>2. c - h =< r.count BY <1>1, <1>2, <2>1, <3>1, <4>1
      <4>3. PlaceOf(q, h, cur) = PlaceOf(r, h, c) BY <1>2, <3>1, <3>2, <4>1 DEF PlaceOf
      <4> QED BY <1>7, <2>1, <4>1, <4>2, <4>3 DEF AgreeAt
    <3> QED BY <1>1, <3>1, <3>3, <3>4, <3>5
  <2> QED BY <2>2, <2>3
<1>8. ASSUME NEW m \in Nat, HomeAt(r, x, c, m) PROVE HomeAt(q, y, cur, m)
  <2>1. m =< c /\ (c - m =< r.count \/ r.count = C)
        /\ (c - m \in 1..C => x[Back(r, c - m)] = DateOf(m) \/ Bygone(m))
    BY <1>8 DEF HomeAt
  <2>2. m =< cur BY <2>1
  <2>3. cur - m =< q.count \/ q.count = C BY <1>1, <1>2, <2>1
  <2>4. ASSUME cur - m \in 1..C PROVE y[Back(q, cur - m)] = DateOf(m) \/ Bygone(m)
    <3> DEFINE a == cur - m
    <3>1. a \in 1..C /\ a = ((c - m) + k) + 1 BY <1>1, <2>1, <2>4
    <3>2. CASE c = m
      <4>1. a = k + 1 /\ ~ (a =< k) BY <1>1, <3>1, <3>2
      <4> QED BY <1>2, <3>1, <3>2, <4>1
    <3>3. CASE c # m
      <4>1. (a - k) - 1 = c - m /\ ~ (a =< k) /\ a # k + 1 /\ c - m \in 1..C
        BY <1>1, <2>1, <3>1, <3>3
      <4> QED BY <1>2, <2>1, <3>1, <4>1
    <3> QED BY <3>2, <3>3
  <2> QED BY <2>2, <2>3, <2>4 DEF HomeAt
<1> QED BY <1>2, <1>5, <1>6, <1>7, <1>8 DEF q, y, k

LEMMA FirstHour ==
  ASSUME NEW r \in Rings, NEW x \in [Ring -> Nat], NEW l, NEW cur \in Nat,
         uptime \in Nat, HourOf(uptime) = cur, RingAt(r, x, Never)
  PROVE  /\ RingAt(r, x, cur)
         /\ AbsentAt(r, Never, l) => AbsentAt(r, cur, l) /\ AgreeAt(r, cur, l)
<1>1. Completed \in Nat \ {0} /\ r.count \in 0..Completed BY CheckupAssumption DEF Rings
<1>2. \A a \in 1..Completed : x[Back(r, a)] = 0 /\ r.slot[Back(r, a)] = EmptyHour
  BY DEF RingAt
<1>3. RingAt(r, x, cur) BY <1>2 DEF RingAt, Never
<1>4. ASSUME AbsentAt(r, Never, l) PROVE AbsentAt(r, cur, l) /\ AgreeAt(r, cur, l)
  <2>1. \A h \in AllHours : l[h] = NoEvents \/ Bygone(h) BY <1>4 DEF AbsentAt
  <2>2. ASSUME NEW h \in AllHours, h =< cur, cur - h =< r.count PROVE PlaceOf(r, h, cur) = EmptyHour
    <3>1. h \in Nat BY DEF AllHours
    <3>2. CASE h = cur BY <3>2 DEF PlaceOf, RingAt
    <3>3. CASE h # cur
      <4>1. cur - h \in 1..Completed BY <1>1, <2>2, <3>1, <3>3
      <4> QED BY <1>2, <3>3, <4>1 DEF PlaceOf
    <3> QED BY <3>2, <3>3
  <2>3. AgreeAt(r, cur, l) BY <2>1, <2>2, AbsentIsEmpty DEF AgreeAt
  <2> QED BY <2>1, <2>3 DEF AbsentAt
<1> QED BY <1>3, <1>4

-----------------------------------------------------------------------------
(* The run and its account *)

Samples == [rps : RpsReadings, view : Views]
RunAgrees ==
  /\ uptime \in Nat /\ watch \in WatchRecords /\ run \in RunRecords /\ story \in StoryRecords
  /\ tape \in TapeRecords
  /\ SampleInv /\ OpenRunAt(run, story, watch) /\ PureRunAt(run, story, watch)
  /\ PerfectRunAt(run, story, watch)
Watched == watch.at # Never /\ uptime - watch.at =< LongestGap
After(s) == Remembered(watch, s, uptime, Watched)

LEMMA SampleBounds ==
  /\ LongestGap \in Nat /\ DhwTail \in Nat /\ HourTicks \in Nat \ {0} /\ Completed \in Nat \ {0}
  /\ Sights \subseteq Samples /\ Never = -1
BY CheckupAssumption DEF Samples, RpsReadings, Views, Never

LEMMA CensoredFields ==
  ASSUME NEW u \in RunRecords
  PROVE  /\ Censored(u) \in RunRecords /\ Censored(u).open = TRUE /\ Censored(u).pure = FALSE
         /\ Censored(u).hour = u.hour
BY DEF Censored, NoRun, RunRecords, AnyClass, SinceBoot, Never

LEMMA CensoredIfFields ==
  ASSUME NEW b \in BOOLEAN, NEW u \in RunRecords, u.open
  PROVE  /\ CensoredIf(b, u) \in RunRecords /\ CensoredIf(b, u).open /\ CensoredIf(b, u).hour = u.hour
         /\ CensoredIf(b, u).pure => ~b /\ CensoredIf(b, u) = u
         /\ ~b => CensoredIf(b, u) = u
BY CensoredFields DEF CensoredIf

LEMMA ClassIs ==
  ASSUME NEW v \in Views
  PROVE  Class(v) \in AnyClass /\ (v \in Classes => Class(v) = v) /\ (v \notin Classes => Class(v) = "unknown")
         /\ (Room(v) => v \in {"space", "stop"} /\ Class(v) \in {"space", "unknown"})
         /\ (Class(v) \in Classes <=> Class(v) # "unknown")
BY DEF Class, Views, AnyClass, Classes, Room

LEMMA AfterFields ==
  ASSUME RunAgrees, NEW s \in Samples
  PROVE  /\ After(s) \in WatchRecords /\ After(s).at = uptime /\ After(s).rps = s.rps
         /\ After(s).hour = HourOf(uptime)
         /\ s.rps = "on" => After(s).view = s.view
         /\ After(s).view # "none" => s.rps = "on"
         /\ After(s).known = IF s.rps # "blind" THEN s.rps ELSE IF Watched THEN watch.known ELSE "none"
         /\ Near(uptime) <=> Watched
<1>1. uptime \in Nat BY DEF RunAgrees
<1>2. HourOf(uptime) \in Nat BY <1>1, HourBounds
<1> QED BY <1>1, <1>2 DEF RunAgrees, After, Remembered, Near, Watched, SampleInv, WatchRecords, SinceBoot,
                          Samples, RpsReadings, Views

LEMMA ContinuedFields ==
  ASSUME RunAgrees, NEW s \in Samples, story.open
  PROVE  LET y == Continued(story, s, uptime)
         IN  y \in StoryRecords /\ y.open /\ y.began = story.began /\ y.class = story.class
             /\ (y.lastOn = story.lastOn \/ y.lastOn = uptime)
             /\ (y.perfect => story.perfect /\ Near(uptime) /\ s.rps # "blind" /\ Class(s.view) = story.class)
<1> DEFINE y == Continued(story, s, uptime)
<1>1. Class(s.view) \in AnyClass /\ story \in StoryRecords /\ uptime \in Nat
  BY ClassIs DEF Samples, RunAgrees
<1>2. CASE s.rps = "blind"
  <2>1. y = [story EXCEPT !.perfect = FALSE, !.sound = story.sound /\ Near(uptime)]
    BY <1>2 DEF Continued
  <2>2. PICK e \in BOOLEAN : y = [story EXCEPT !.perfect = FALSE, !.sound = e]
    <3>1. (story.sound /\ Near(uptime)) \in BOOLEAN OBVIOUS
    <3> HIDE DEF y
    <3> QED BY <2>1, <3>1
  <2> HIDE DEF y
  <2>3. y \in StoryRecords BY <1>1, <2>2 DEF StoryRecords
  <2>4. y.open = story.open /\ y.began = story.began /\ y.class = story.class /\ y.lastOn = story.lastOn
        /\ ~y.perfect
    BY <1>1, <2>2 DEF StoryRecords
  <2> QED BY <2>3, <2>4 DEF y
<1>3. CASE s.rps # "blind"
  <2>1. PICK a \in SinceBoot, b \in Nat, d \in BOOLEAN, e \in BOOLEAN :
          /\ y = [story EXCEPT !.lastOn = uptime, !.strayed = a, !.shownAt = b, !.perfect = d, !.sound = e]
          /\ d => story.perfect /\ Near(uptime) /\ Class(s.view) = story.class
    <3> DEFINE c == Class(s.view)
               shows   == c # "unknown" \/ (s.view = "stop" /\ story.class = "dhw" /\ tape.view # "none")
               strays  == shows /\ c # story.class /\ story.strayed = Never
               strayed == strays \/ story.strayed # Never
               a == IF strays THEN uptime ELSE story.strayed
               b == IF shows THEN uptime ELSE story.shownAt
               d == story.perfect /\ Near(uptime) /\ c = story.class
               e == /\ story.sound /\ Near(uptime) /\ uptime - story.lastOn =< LongestGap
                    /\ shows /\ ~strays => uptime - story.shownAt =< LongestGap
                    /\ strayed => story.class = "dhw" /\ Room(s.view)
    <3>1. y = [story EXCEPT !.lastOn = uptime, !.strayed = a, !.shownAt = b, !.perfect = d, !.sound = e]
      BY <1>3 DEF Continued
    <3>2. a \in SinceBoot /\ b \in Nat BY <1>1 DEF StoryRecords, SinceBoot
    <3>3. d \in BOOLEAN /\ e \in BOOLEAN OBVIOUS
    <3>4. d => story.perfect /\ Near(uptime) /\ c = story.class OBVIOUS
    <3> HIDE DEF a, b, d, e, y
    <3> QED BY <3>1, <3>2, <3>3, <3>4
  <2> HIDE DEF y
  <2>2. y \in StoryRecords BY <1>1, <2>1 DEF StoryRecords
  <2>3. y.open = story.open /\ y.began = story.began /\ y.class = story.class /\ y.lastOn = uptime
        /\ y.perfect = d
    BY <1>1, <2>1 DEF StoryRecords
  <2> QED BY <1>3, <2>1, <2>2, <2>3 DEF y
<1> QED BY <1>2, <1>3

(* What an open run that was witnessed so far looks like.                   *)
LEMMA PureFacts ==
  ASSUME RunAgrees, run.open, run.pure, Watched
  PROVE  /\ run \in RunRecords /\ story \in StoryRecords /\ uptime \in Nat /\ watch.at \in Nat
         /\ watch.at =< uptime /\ uptime - watch.at =< LongestGap /\ Near(uptime)
         /\ watch.rps # "off" /\ watch.rps \in RpsReadings /\ story.open /\ story.sound
         /\ run.class = story.class /\ run.class \in Classes
         /\ run.rpsAt = story.lastOn /\ run.classAt = story.shownAt /\ run.tailAt = story.strayed
         /\ run.classAt =< run.rpsAt /\ story.began + run.secs =< run.rpsAt
         /\ run.rpsAt + run.blind =< watch.at
         /\ watch.rps = "on" => run.rpsAt = watch.at
         /\ run.tailAt = Never => run.last = run.class
         /\ run.tailAt # Never => /\ run.class = "dhw" /\ watch.rps = "on" /\ run.classAt = run.rpsAt
                                  /\ Room(watch.view)
         /\ tape.view = watch.view /\ tape.rps = watch.rps /\ (watch.view # "none" => watch.rps = "on")
BY DEF RunAgrees, OpenRunAt, PureRunAt, SampleInv, Watched, Near, WatchRecords, SinceBoot

LEMMA BlindRun ==
  ASSUME RunAgrees, NEW s \in Samples, run.open, run.pure, s.rps = "blind", Watched,
         NEW d \in 0..(uptime - watch.at)
  PROVE  LET x == Blinded(run, s, uptime, d)
         IN  x \in RunRecords /\ x.open /\ x.hour = run.hour
             /\ PureRunAt(x, Continued(story, s, uptime), After(s))
<1> DEFINE c == Class(s.view)
           b == \/ uptime - run.rpsAt > LongestGap
                \/ c # "unknown" /\ c # run.last
                \/ run.tailAt # Never
           v == [run EXCEPT !.blind = @ + d]
           x == Blinded(run, s, uptime, d)
           y == Continued(story, s, uptime)
           w == After(s)
<1>1. b \in BOOLEAN /\ d \in Nat /\ d =< uptime - watch.at BY PureFacts
<1>2. v \in RunRecords /\ v.open /\ v.hour = run.hour /\ v.pure /\ v.class = run.class
      /\ v.rpsAt = run.rpsAt /\ v.classAt = run.classAt /\ v.tailAt = run.tailAt /\ v.secs = run.secs
      /\ v.blind = run.blind + d /\ v.last = run.last
  BY <1>1, PureFacts DEF RunRecords
<1>3. x = CensoredIf(b, v) BY DEF Blinded
<1>4. y.sound = (story.sound /\ Near(uptime)) /\ y.class = story.class /\ y.lastOn = story.lastOn
      /\ y.shownAt = story.shownAt /\ y.strayed = story.strayed /\ y.began = story.began
  BY PureFacts DEF Continued, StoryRecords
<1>5. w.rps = "blind" /\ w.at = uptime BY AfterFields
<1> HIDE DEF b, v, x, y, w
<1>6. x \in RunRecords /\ x.open /\ x.hour = run.hour /\ (x.pure => ~b /\ x = v)
  BY <1>1, <1>2, <1>3, CensoredIfFields
<1>7. ASSUME x.pure PROVE PureRunAt(x, y, w)
  <2>1. x = v /\ run.tailAt = Never BY <1>6, <1>7 DEF b
  <2>2. x.rpsAt + x.blind =< w.at BY <1>1, <1>2, <1>5, <2>1, PureFacts DEF RunRecords
  <2> QED BY <1>2, <1>4, <1>5, <2>1, <2>2, PureFacts DEF PureRunAt
<1>8. PureRunAt(x, y, w) BY <1>7 DEF PureRunAt
<1> QED BY <1>6, <1>8 DEF x, y, w

LEMMA EndingRun ==
  ASSUME RunAgrees, NEW s \in Samples, run.open, run.pure, s.rps = "off", Watched
  PROVE  LET x == CensoredIf(\/ watch.rps # "on" \/ run.classAt < run.rpsAt
                             \/ run.tailAt # Never /\ uptime - run.tailAt > DhwTail, run)
             e == Ended(story, uptime)
         IN  /\ x \in RunRecords /\ x.open /\ x.hour = run.hour
             /\ x.pure => /\ e.sound /\ x.class = story.class /\ x.class \in Classes
                          /\ x.secs =< story.lastOn - story.began
             /\ e.perfect => x.pure
<1> DEFINE b == \/ watch.rps # "on" \/ run.classAt < run.rpsAt
                \/ run.tailAt # Never /\ uptime - run.tailAt > DhwTail
           x == CensoredIf(b, run)
           e == Ended(story, uptime)
<1>1. b \in BOOLEAN /\ run \in RunRecords BY PureFacts
<1>2. x \in RunRecords /\ x.open /\ x.hour = run.hour /\ (x.pure => ~b /\ x = run) /\ (~b => x = run)
  BY <1>1, CensoredIfFields
<1>3. /\ e.sound = (/\ story.sound /\ Near(uptime) /\ tape.rps = "on" /\ story.shownAt = story.lastOn
                    /\ story.strayed # Never => uptime - story.strayed =< DhwTail)
      /\ e.perfect = (story.perfect /\ Near(uptime) /\ tape.rps = "on")
  BY PureFacts DEF Ended, StoryRecords
<1> HIDE DEF x, e
<1>4. ASSUME x.pure
      PROVE  e.sound /\ x.class = story.class /\ x.class \in Classes /\ x.secs =< story.lastOn - story.began
  <2>1. ~b /\ x = run BY <1>2, <1>4
  <2>2. run.classAt = run.rpsAt BY <2>1, PureFacts DEF RunRecords
  <2>3. run.tailAt # Never => uptime - run.tailAt =< DhwTail
    BY <2>1, PureFacts, SampleBounds DEF RunRecords, SinceBoot
  <2>4. e.sound BY <1>3, <2>1, <2>2, <2>3, PureFacts
  <2>5. x.secs =< story.lastOn - story.began BY <2>1, PureFacts DEF RunRecords, StoryRecords
  <2> QED BY <2>1, <2>4, <2>5, PureFacts
<1>5. ASSUME e.perfect PROVE x.pure
  <2>1. story.perfect BY <1>3, <1>5
  <2>2. run.tailAt = Never /\ run.classAt = run.rpsAt /\ watch.rps = "on"
    BY <2>1, PureFacts DEF RunAgrees, PerfectRunAt
  <2>3. ~b BY <2>2, PureFacts DEF RunRecords
  <2> QED BY <1>2, <2>3
<1> QED BY <1>2, <1>4, <1>5 DEF x, e, b

(* The account of a sample that shows the compressor running.               *)
LEMMA ContinuedOn ==
  ASSUME RunAgrees, NEW s \in Samples, s.rps = "on", run.open, run.pure, Watched
  PROVE  LET c == Class(s.view)
             y == Continued(story, s, uptime)
             shows   == c # "unknown" \/ (s.view = "stop" /\ run.class = "dhw" /\ watch.view # "none")
             strays  == shows /\ c # run.class /\ run.tailAt = Never
         IN  /\ y.lastOn = uptime /\ y.began = story.began /\ y.class = run.class
             /\ y.strayed = (IF strays THEN uptime ELSE run.tailAt)
             /\ y.shownAt = (IF shows THEN uptime ELSE run.classAt)
             /\ y.perfect <=> story.perfect /\ c = run.class
             /\ y.sound <=> /\ uptime - run.rpsAt =< LongestGap
                            /\ shows /\ ~strays => uptime - run.classAt =< LongestGap
                            /\ strays \/ run.tailAt # Never => run.class = "dhw" /\ Room(s.view)
BY PureFacts DEF Continued, StoryRecords

LEMMA TailRun ==
  ASSUME RunAgrees, NEW s \in Samples, s.rps = "on", run.open, run.pure, Watched,
         NEW v \in RunRecords, v = [run EXCEPT !.secs = v.secs, !.blind = 0],
         story.began + v.secs =< uptime, uptime - run.rpsAt =< LongestGap,
         TailBegins(run, watch, s) \/ run.tailAt # Never
  PROVE  LET x == InTail(v, watch, s, uptime)
             z == IF x.pure THEN [x EXCEPT !.rpsAt = uptime] ELSE x
             y == Continued(story, s, uptime)
         IN  z \in RunRecords /\ z.open /\ z.hour = run.hour /\ PureRunAt(z, y, After(s)) /\ ~y.perfect
<1> DEFINE c == Class(s.view)
           begins == TailBegins(run, watch, s)
           since == IF begins THEN uptime ELSE run.tailAt
           b == ~Room(s.view) \/ (~begins /\ c # run.last) \/ uptime - since > DhwTail
           g == [v EXCEPT !.tailAt = since, !.last = c, !.classAt = uptime]
           x == InTail(v, watch, s, uptime)
           z == IF x.pure THEN [x EXCEPT !.rpsAt = uptime] ELSE x
           y == Continued(story, s, uptime)
           w == After(s)
<1>1. /\ v.open = run.open /\ v.hour = run.hour /\ v.pure = run.pure /\ v.class = run.class
      /\ v.rpsAt = run.rpsAt /\ v.classAt = run.classAt /\ v.tailAt = run.tailAt
      /\ v.last = run.last /\ v.blind = 0
  BY PureFacts DEF RunRecords
<1>2. c \in AnyClass /\ s.view \in Views BY ClassIs DEF Samples
<1>3. TailBegins(v, watch, s) = begins BY <1>1 DEF TailBegins
<1>4. since \in SinceBoot /\ b \in BOOLEAN BY PureFacts DEF SinceBoot, RunRecords
<1>5. x = CensoredIf(b, g) BY <1>1, <1>3 DEF InTail
<1>6. g \in RunRecords /\ g.open /\ g.hour = run.hour /\ g.class = run.class /\ g.secs = v.secs
      /\ g.rpsAt = run.rpsAt /\ g.blind = 0 /\ g.tailAt = since /\ g.last = c /\ g.classAt = uptime
      /\ g.pure = run.pure
  BY <1>1, <1>2, <1>4, PureFacts DEF RunRecords
<1> HIDE DEF x, g
<1>7. x \in RunRecords /\ x.open /\ x.hour = run.hour /\ (x.pure => ~b /\ x = g)
  BY <1>4, <1>5, <1>6, CensoredIfFields
<1>8. z \in RunRecords /\ z.open /\ z.hour = run.hour /\ (z.pure => ~b /\ z = [g EXCEPT !.rpsAt = uptime])
  BY <1>7, PureFacts DEF RunRecords
<1>9. c # "dhw" \/ b BY <1>2, ClassIs
<1>10. run.class = "dhw" BY <1>3, PureFacts DEF TailBegins
<1>11. ~b => c # "unknown" \/ (s.view = "stop" /\ run.class = "dhw" /\ watch.view # "none")
  <2> SUFFICES ASSUME ~b PROVE c # "unknown" \/ (s.view = "stop" /\ watch.view # "none") BY <1>10
  <2>1. s.view \in {"space", "stop"} BY <1>2, ClassIs
  <2>2. s.view = "space" => c # "unknown" BY ClassIs, <1>2 DEF Classes
  <2>3. watch.view # "none"
    <3>1. CASE begins BY <3>1 DEF TailBegins
    <3>2. CASE run.tailAt # Never BY <3>2, PureFacts DEF Room
    <3> QED BY <3>1, <3>2
  <2> QED BY <2>1, <2>2, <2>3
<1>12. ~y.perfect
  <2>1. y.perfect => c = "dhw" /\ story.perfect BY <1>10, ContinuedOn
  <2>2. story.perfect => run.tailAt = Never BY PureFacts DEF RunAgrees, PerfectRunAt
  <2>3. begins => Room(s.view) BY DEF TailBegins
  <2>4. Room(s.view) => c # "dhw" BY <1>2, ClassIs
  <2> HIDE DEF y, c, begins
  <2>5. begins \/ run.tailAt # Never BY DEF begins
  <2> QED BY <2>1, <2>2, <2>3, <2>4, <2>5
<1>13. w.rps = "on" /\ w.at = uptime /\ w.view = s.view BY AfterFields
<1>14. ASSUME z.pure PROVE PureRunAt(z, y, w)
  <2>1. ~b /\ z = [g EXCEPT !.rpsAt = uptime] BY <1>8, <1>14
  <2>2. z.class = run.class /\ z.secs = v.secs /\ z.rpsAt = uptime /\ z.blind = 0 /\ z.tailAt = since
        /\ z.last = c /\ z.classAt = uptime
    BY <1>6, <2>1 DEF RunRecords
  <2>3. c # run.class BY <1>9, <1>10, <2>1
  <2>4. run.tailAt = Never <=> begins BY DEF TailBegins
  <2>5. /\ y.lastOn = uptime /\ y.began = story.began /\ y.class = run.class
        /\ y.strayed = since /\ y.shownAt = uptime
    BY <1>11, <2>1, <2>3, <2>4, ContinuedOn
  <2>6. y.sound
    <3>1. ~begins => uptime - run.classAt =< LongestGap BY <2>4, PureFacts
    <3>2. Room(s.view) BY <2>1
    <3> QED BY <1>10, <1>11, <2>1, <2>3, <2>4, <3>1, <3>2, ContinuedOn
  <2>7. since # Never BY <2>4, PureFacts, SampleBounds
  <2>8. Room(w.view) BY <1>13, <2>1
  <2>9. y.began + z.secs =< z.rpsAt /\ z.rpsAt + z.blind =< w.at
    BY <1>13, <2>2, <2>5, PureFacts
  <2>10. z.classAt =< z.rpsAt BY <2>2, PureFacts
  <2> HIDE DEF z, y, w, since, c, b
  <2> QED BY <1>10, <1>13, <2>2, <2>5, <2>6, <2>7, <2>8, <2>9, <2>10, PureFacts DEF PureRunAt
<1>15. PureRunAt(z, y, w) BY <1>14 DEF PureRunAt
<1> HIDE DEF z, y, w
<1> QED BY <1>8, <1>12, <1>15 DEF z, y, w, x

LEMMA ClassRun ==
  ASSUME RunAgrees, NEW s \in Samples, s.rps = "on", run.open, run.pure, Watched,
         NEW v \in RunRecords, v = [run EXCEPT !.secs = v.secs, !.blind = 0],
         story.began + v.secs =< uptime, uptime - run.rpsAt =< LongestGap,
         watch.rps = "blind" => Class(s.view) = run.last,
         ~TailBegins(run, watch, s), run.tailAt = Never
  PROVE  LET x == InClass(v, watch, s, uptime)
             z == IF x.pure THEN [x EXCEPT !.rpsAt = uptime] ELSE x
             y == Continued(story, s, uptime)
         IN  /\ z \in RunRecords /\ z.open /\ z.hour = run.hour /\ PureRunAt(z, y, After(s))
             /\ y.perfect => z.pure /\ z.tailAt = Never /\ z.classAt = z.rpsAt
<1> DEFINE c == Class(s.view)
           fade   == uptime - run.classAt > LongestGap
           unread == run.classAt < run.rpsAt
           b == IF c = "unknown" THEN fade
                ELSE \/ unread /\ (fade \/ c # run.last)
                     \/ c # run.last /\ ~unread /\ watch.rps # "blind"
           g == IF c = "unknown" THEN v ELSE [v EXCEPT !.last = c, !.classAt = uptime]
           x == InClass(v, watch, s, uptime)
           z == IF x.pure THEN [x EXCEPT !.rpsAt = uptime] ELSE x
           y == Continued(story, s, uptime)
           w == After(s)
           shows == c # "unknown" \/ (s.view = "stop" /\ run.class = "dhw" /\ watch.view # "none")
<1>1. /\ v.open = run.open /\ v.hour = run.hour /\ v.pure = run.pure /\ v.class = run.class
      /\ v.rpsAt = run.rpsAt /\ v.classAt = run.classAt /\ v.tailAt = run.tailAt
      /\ v.last = run.last /\ v.blind = 0
  BY PureFacts DEF RunRecords
<1>2. c \in AnyClass /\ s.view \in Views BY ClassIs DEF Samples
<1>3. b \in BOOLEAN
  <2>1. /\ fade \in BOOLEAN
        /\ ((unread /\ (fade \/ c # run.last)) \/ (c # run.last /\ ~unread /\ watch.rps # "blind")) \in BOOLEAN
    OBVIOUS
  <2> QED BY <2>1, Zenon
<1>4. x = CensoredIf(b, g) BY <1>1 DEF InClass
<1>5. g \in RunRecords /\ g.open /\ g.hour = run.hour /\ g.class = run.class /\ g.secs = v.secs
      /\ g.rpsAt = run.rpsAt /\ g.blind = 0 /\ g.tailAt = Never
      /\ g.last = (IF c = "unknown" THEN run.last ELSE c)
      /\ g.classAt = (IF c = "unknown" THEN run.classAt ELSE uptime) /\ g.pure = run.pure
  BY <1>1, <1>2, PureFacts DEF RunRecords
<1> HIDE DEF x, g
<1>6. x \in RunRecords /\ x.open /\ x.hour = run.hour /\ (x.pure => ~b /\ x = g) /\ (~b => x = g)
  BY <1>3, <1>4, <1>5, CensoredIfFields
<1>7. z \in RunRecords /\ z.open /\ z.hour = run.hour /\ (z.pure => ~b)
      /\ (~b => z = [g EXCEPT !.rpsAt = uptime])
  <2>1. z \in RunRecords /\ z.open /\ z.hour = run.hour /\ (z.pure => ~b)
    BY <1>6, PureFacts DEF RunRecords
  <2>2. ~b => x.pure BY <1>5, <1>6
  <2> QED BY <1>6, <2>1, <2>2
<1>8. run.last = run.class /\ run.class # "unknown" BY PureFacts DEF Classes
<1>9. w.rps = "on" /\ w.at = uptime BY AfterFields
<1>10. c = "unknown" => ~shows
  <2> SUFFICES ASSUME c = "unknown", shows PROVE FALSE OBVIOUS
  <2>1. s.view = "stop" /\ run.class = "dhw" /\ watch.view # "none" BY DEF shows
  <2>2. watch.rps = "on" BY <2>1, PureFacts
  <2>3. TailBegins(run, watch, s) BY <1>8, <2>1, <2>2 DEF TailBegins, Room
  <2> QED BY <2>3
<1>11. ~b => c = "unknown" \/ c = run.class
  <2> SUFFICES ASSUME ~b, c # "unknown", c # run.last PROVE FALSE BY <1>8
  <2> QED OBVIOUS
<1>12. /\ ~b => /\ y.lastOn = uptime /\ y.began = story.began /\ y.class = run.class
                /\ y.strayed = Never /\ y.shownAt = (IF c = "unknown" THEN run.classAt ELSE uptime)
       /\ ~b => y.sound
       /\ y.perfect => story.perfect /\ c = run.class
  <2>1. ASSUME ~b PROVE shows => uptime - run.classAt =< LongestGap
    <3> SUFFICES ASSUME shows PROVE uptime - run.classAt =< LongestGap OBVIOUS
    <3>1. c # "unknown" BY <1>10
    <3>2. unread => ~fade BY <2>1, <3>1
    <3> QED BY <3>2, PureFacts, SampleBounds DEF RunRecords
  <2> HIDE DEF b
  <2> QED BY <1>10, <1>11, <2>1, ContinuedOn
<1>13. ASSUME ~b PROVE PureRunAt(z, y, w) /\ z.pure /\ z.tailAt = Never
                       /\ z.rpsAt = uptime /\ z.classAt = (IF c = "unknown" THEN run.classAt ELSE uptime)
  <2>1. z.class = run.class /\ z.secs = v.secs /\ z.rpsAt = uptime /\ z.blind = 0 /\ z.tailAt = Never
        /\ z.last = (IF c = "unknown" THEN run.last ELSE c)
        /\ z.classAt = (IF c = "unknown" THEN run.classAt ELSE uptime) /\ z.pure
    BY <1>5, <1>7, <1>13, ZenonT(60) DEF RunRecords
  <2>2. z.last = run.class BY <1>8, <1>11, <1>13, <2>1
  <2>3. z.classAt =< z.rpsAt /\ z.rpsAt + z.blind =< w.at BY <1>9, <2>1, PureFacts DEF RunRecords
  <2>4. y.began + z.secs =< z.rpsAt BY <1>12, <1>13, <2>1
  <2> HIDE DEF z, y, w, c, b
  <2>5. PureRunAt(z, y, w)
    BY <1>9, <1>12, <1>13, <2>1, <2>2, <2>3, <2>4, PureFacts DEF PureRunAt
  <2> QED BY <2>1, <2>5
<1>14. b => PureRunAt(z, y, w) BY <1>7 DEF PureRunAt
<1>15. ASSUME y.perfect PROVE ~b /\ c # "unknown"
  <2>1. story.perfect /\ c = run.class BY <1>12, <1>15
  <2>2. run.classAt = run.rpsAt BY <2>1, PureFacts DEF RunAgrees, PerfectRunAt
  <2>3. ~unread BY <2>2, PureFacts DEF RunRecords
  <2> QED BY <1>8, <2>1, <2>3
<1> HIDE DEF z, y, w, b
<1>16. y.perfect => z.pure /\ z.tailAt = Never /\ z.classAt = z.rpsAt BY <1>13, <1>15
<1> QED BY <1>7, <1>13, <1>14, <1>16 DEF z, y, w, x

(* What Folded makes of the open run, and Witness of its account.           *)
Edge(s) == Watched /\ s.rps = "on" /\ watch.known = "off"
FirstRun(s) == IF Edge(s) THEN Started(s, HourOf(uptime), uptime, watch.rps = "off") ELSE run
NextRun(s, d) ==
  IF ~FirstRun(s).open THEN FirstRun(s)
  ELSE IF Watched THEN Follow(FirstRun(s), watch, s, uptime, d) ELSE Censored(FirstRun(s))
Ends(s, d) == NextRun(s, d).open /\ s.rps = "off"
LastRun(s, d) ==
  LET u == IF Ends(s, d) THEN NoRun ELSE NextRun(s, d)
  IN  IF ~u.open /\ s.rps = "on" THEN Started(s, HourOf(uptime), uptime, FALSE) ELSE u
NextStory(s) ==
  IF s.rps = "off" THEN NoStory
  ELSE IF story.open THEN Continued(story, s, uptime)
  ELSE IF s.rps = "on" THEN StoryOpened(s, uptime) ELSE story

(* A run under way, as the code and the account have it after a sample.     *)
Matches(u, y, w) ==
  /\ u \in RunRecords /\ y \in StoryRecords
  /\ OpenRunAt(u, y, w) /\ PureRunAt(u, y, w) /\ PerfectRunAt(u, y, w)
Closes(u) ==
  LET e == Ended(story, uptime)
  IN  /\ u.pure => /\ e.sound /\ u.class = story.class /\ u.class \in Classes
                   /\ u.secs =< story.lastOn - story.began
      /\ e.perfect => u.pure

LEMMA StartedFields ==
  ASSUME RunAgrees, NEW s \in Samples, NEW p \in BOOLEAN
  PROVE  LET u == Started(s, HourOf(uptime), uptime, p)
             g == [NoRun EXCEPT !.open = TRUE, !.pure = TRUE, !.class = Class(s.view), !.hour = HourOf(uptime),
                     !.classAt = uptime, !.rpsAt = uptime, !.last = Class(s.view)]
         IN  /\ u \in RunRecords /\ u.open /\ u.hour = HourOf(uptime)
             /\ u.pure => p /\ Class(s.view) # "unknown" /\ u = g
             /\ p /\ Class(s.view) # "unknown" => u = g /\ u.pure
             /\ g \in RunRecords
<1> DEFINE c == Class(s.view)
           g == [NoRun EXCEPT !.open = TRUE, !.pure = TRUE, !.class = c, !.hour = HourOf(uptime),
                     !.classAt = uptime, !.rpsAt = uptime, !.last = c]
           b == ~p \/ c = "unknown"
           u == Started(s, HourOf(uptime), uptime, p)
<1>1. c \in AnyClass /\ uptime \in Nat /\ HourOf(uptime) \in Nat
  BY ClassIs, HourBounds DEF Samples, RunAgrees
<1>2. NoRun \in RunRecords BY DEF NoRun, RunRecords, AnyClass, SinceBoot, Never
<1>3. g \in RunRecords /\ g.open /\ g.hour = HourOf(uptime) /\ g.pure
  BY <1>1, <1>2 DEF RunRecords
<1>4. u = CensoredIf(b, g) /\ b \in BOOLEAN BY DEF Started
<1> HIDE DEF g, u
<1> QED BY <1>3, <1>4, CensoredIfFields, ZenonT(60) DEF g, u

LEMMA StoryOpenedFields ==
  ASSUME RunAgrees, NEW s \in Samples
  PROVE  LET y == StoryOpened(s, uptime)
             shown == Near(uptime) /\ tape.rps = "off" /\ Class(s.view) # "unknown"
         IN  /\ y \in StoryRecords /\ y.open /\ y.began = uptime /\ y.class = Class(s.view)
             /\ (y.perfect <=> shown) /\ (y.sound <=> shown) /\ y.lastOn = uptime /\ y.shownAt = uptime
             /\ y.strayed = Never
<1> DEFINE c == Class(s.view)
           shown == Near(uptime) /\ tape.rps = "off" /\ Class(s.view) # "unknown"
           y == StoryOpened(s, uptime)
<1>1. c \in AnyClass /\ uptime \in Nat BY ClassIs DEF Samples, RunAgrees
<1>2. PICK p \in BOOLEAN : p <=> shown OBVIOUS
<1>3. p = shown BY <1>2
<1>4. y = [NoStory EXCEPT !.open = TRUE, !.began = uptime, !.class = c, !.perfect = p, !.sound = p,
                          !.lastOn = uptime, !.shownAt = uptime]
  BY <1>3 DEF StoryOpened
<1>5. NoStory \in StoryRecords /\ NoStory.strayed = Never
  BY DEF NoStory, StoryRecords, AnyClass, SinceBoot, Never
<1> HIDE DEF shown, y
<1>6. y \in StoryRecords BY <1>1, <1>4, <1>5 DEF StoryRecords
<1>7. y.open = TRUE /\ y.began = uptime /\ y.class = c /\ y.perfect = p /\ y.sound = p
      /\ y.lastOn = uptime /\ y.shownAt = uptime /\ y.strayed = Never
  BY <1>1, <1>4, <1>5 DEF StoryRecords
<1> QED BY <1>2, <1>6, <1>7 DEF shown, y

LEMMA NothingRuns == NoRun \in RunRecords /\ NoStory \in StoryRecords /\ ~NoRun.open /\ ~NoRun.pure
                     /\ ~NoStory.open
BY DEF NoRun, NoStory, RunRecords, StoryRecords, AnyClass, SinceBoot, Never

LEMMA EdgeRun ==
  ASSUME RunAgrees, NEW s \in Samples, Edge(s), NEW d
  PROVE  /\ ~run.open /\ NextRun(s, d) = FirstRun(s) /\ NextRun(s, d).open
         /\ NextRun(s, d).hour = HourOf(uptime) /\ Matches(NextRun(s, d), NextStory(s), After(s))
<1> DEFINE c == Class(s.view)
           u == FirstRun(s)
           x == NextRun(s, d)
           y == NextStory(s)
           w == After(s)
<1>1. Watched /\ s.rps = "on" /\ watch.known = "off" /\ ~run.open /\ ~story.open
      /\ uptime \in Nat /\ watch \in WatchRecords
  BY DEF Edge, RunAgrees, OpenRunAt
<1>2. watch.rps # "on" BY <1>1 DEF RunAgrees, SampleInv
<1>3. (watch.rps = "off") \in BOOLEAN /\ u = Started(s, HourOf(uptime), uptime, watch.rps = "off")
  BY DEF FirstRun
<1>4. /\ u \in RunRecords /\ u.open /\ u.hour = HourOf(uptime)
      /\ u.pure => /\ watch.rps = "off" /\ c # "unknown" /\ u.class = c /\ u.classAt = uptime
                   /\ u.rpsAt = uptime /\ u.last = c /\ u.secs = 0 /\ u.tailAt = Never /\ u.blind = 0
      /\ watch.rps = "off" /\ c # "unknown" => u.pure
  <2>1. NoRun.secs = 0 /\ NoRun.tailAt = Never /\ NoRun.blind = 0 /\ NoRun \in RunRecords
    BY DEF NoRun, RunRecords, AnyClass, SinceBoot, Never
  <2> DEFINE g == [NoRun EXCEPT !.open = TRUE, !.pure = TRUE, !.class = c, !.hour = HourOf(uptime),
                     !.classAt = uptime, !.rpsAt = uptime, !.last = c]
  <2>2. /\ g.class = c /\ g.classAt = uptime /\ g.rpsAt = uptime /\ g.last = c /\ g.secs = 0
        /\ g.tailAt = Never /\ g.blind = 0
    BY <2>1 DEF RunRecords
  <2>3. /\ u \in RunRecords /\ u.open /\ u.hour = HourOf(uptime)
        /\ u.pure => watch.rps = "off" /\ c # "unknown" /\ u = g
        /\ watch.rps = "off" /\ c # "unknown" => u = g /\ u.pure
    BY <1>3, StartedFields
  <2> HIDE DEF g, u
  <2> QED BY <2>2, <2>3
<1>5. y = StoryOpened(s, uptime) BY <1>1 DEF NextStory
<1>6. Near(uptime) /\ tape.rps = watch.rps BY <1>1, AfterFields DEF RunAgrees, SampleInv
<1>7. /\ y \in StoryRecords /\ y.open /\ y.began = uptime /\ y.class = c
      /\ (y.perfect <=> watch.rps = "off" /\ c # "unknown")
      /\ (y.sound <=> watch.rps = "off" /\ c # "unknown") /\ y.lastOn = uptime /\ y.shownAt = uptime
      /\ y.strayed = Never
  BY <1>5, <1>6, StoryOpenedFields
<1>8. x = u
  <2>1. CASE ~u.pure BY <1>1, <1>4, <2>1 DEF NextRun, Follow
  <2>2. CASE u.pure
    <3> DEFINE v == [u EXCEPT !.secs = @ + 0, !.blind = 0]
    <3>1. watch.rps = "off" /\ u.tailAt = Never BY <1>4, <2>2
    <3>2. v = u
      <4>1. u.secs + 0 = u.secs /\ u.blind = 0 /\ u \in RunRecords BY <1>4, <2>2
      <4> HIDE DEF u
      <4>2. v = [u EXCEPT !.secs = u.secs, !.blind = u.blind] BY <4>1
      <4> QED BY <4>1, <4>2 DEF RunRecords
    <3>3. ~TailBegins(u, watch, s) BY <3>1 DEF TailBegins
    <3>4. InClass(u, watch, s, uptime) = u
      <4>1. [u EXCEPT !.last = c, !.classAt = uptime] = u BY <1>4, <2>2 DEF RunRecords
      <4>2. ~ (u.classAt < u.rpsAt) BY <1>1, <1>4, <2>2
      <4> QED BY <1>4, <2>2, <4>1, <4>2 DEF InClass, CensoredIf
    <3>5. [u EXCEPT !.rpsAt = uptime] = u BY <1>4, <2>2 DEF RunRecords
    <3>6. Running(u, watch, s, uptime, d) = u
      <4>1. watch.rps # "blind" BY <3>1
      <4> HIDE DEF u
      <4> QED BY <2>2, <3>1, <3>2, <3>3, <3>4, <3>5, <4>1 DEF Running
    <3> QED BY <1>1, <1>4, <2>2, <3>6 DEF NextRun, Follow
  <2> QED BY <2>1, <2>2
<1>9. w.known = "on" /\ w.rps = "on" /\ w.at = uptime BY <1>1, AfterFields
<1> HIDE DEF u, x, y, w
<1>10. OpenRunAt(x, y, w)
  <2>1. x.open \in BOOLEAN /\ y.open \in BOOLEAN /\ x.open /\ y.open
    BY <1>4, <1>7, <1>8 DEF RunRecords, StoryRecords
  <2>2. x.open = y.open BY <2>1
  <2>3. x.hour = HourOf(y.began) /\ y.began =< y.lastOn /\ y.lastOn =< w.at
    BY <1>1, <1>4, <1>7, <1>8, <1>9
  <2>4. w.known # "off" BY <1>9
  <2> QED BY <2>1, <2>2, <2>3, <2>4 DEF OpenRunAt
<1>11. PureRunAt(x, y, w)
  <2> SUFFICES ASSUME u.pure PROVE PureRunAt(u, y, w) BY <1>8 DEF PureRunAt
  <2>1. c \in Classes BY <1>4, ClassIs DEF Samples
  <2> QED BY <1>1, <1>4, <1>7, <1>9, <2>1 DEF PureRunAt
<1>12. PerfectRunAt(x, y, w) BY <1>4, <1>7, <1>8, <1>9 DEF PerfectRunAt
<1> QED BY <1>1, <1>4, <1>7, <1>8, <1>10, <1>11, <1>12 DEF Matches, u, x, y, w

LEMMA OpenRun ==
  ASSUME RunAgrees, NEW s \in Samples, ~Edge(s), run.open, NEW d \in Int,
         Watched => d \in 0..(uptime - watch.at)
  PROVE  LET x == NextRun(s, d)
         IN  /\ x \in RunRecords /\ x.open /\ x.hour = run.hour
             /\ s.rps # "off" => Matches(x, NextStory(s), After(s))
             /\ s.rps = "off" => Closes(x)
<1> DEFINE x == NextRun(s, d)
           y == Continued(story, s, uptime)
           w == After(s)
<1>1. /\ run \in RunRecords /\ story.open /\ story \in StoryRecords /\ uptime \in Nat
      /\ run.hour = HourOf(story.began) /\ story.began =< story.lastOn /\ story.lastOn =< watch.at
      /\ FirstRun(s) = run /\ watch.known # "off" /\ watch.at # Never /\ watch.at =< uptime
      /\ watch.at \in Nat /\ watch \in WatchRecords
  BY NothingRuns DEF RunAgrees, OpenRunAt, SampleInv, FirstRun, WatchRecords, SinceBoot
<1>2. s.rps \in RpsReadings BY DEF Samples
<1>3. /\ y \in StoryRecords /\ y.open /\ y.began = story.began /\ (y.lastOn = story.lastOn \/ y.lastOn = uptime)
      /\ (y.perfect => story.perfect /\ Near(uptime) /\ s.rps # "blind" /\ Class(s.view) = story.class)
  BY <1>1, ContinuedFields
<1>4. w.at = uptime /\ w.rps = s.rps /\ (Near(uptime) <=> Watched)
      /\ w.known = (IF s.rps # "blind" THEN s.rps ELSE IF Watched THEN watch.known ELSE "none")
  BY AfterFields
<1>5. x = IF Watched THEN Follow(run, watch, s, uptime, d) ELSE Censored(run)
  BY <1>1 DEF NextRun
<1>6. s.rps # "off" => NextStory(s) = y BY <1>1 DEF NextStory
<1> HIDE DEF x, y, w
<1>7. ASSUME x \in RunRecords, x.open, x.hour = run.hour, s.rps # "off"
      PROVE  OpenRunAt(x, y, w)
  <2>1. x.open \in BOOLEAN /\ y.open \in BOOLEAN /\ x.open /\ y.open
    BY <1>3, <1>7 DEF RunRecords, StoryRecords
  <2>2. x.open = y.open BY <2>1
  <2>3. x.hour = HourOf(y.began) /\ y.began =< y.lastOn /\ y.lastOn =< w.at
    BY <1>1, <1>3, <1>4, <1>7 DEF StoryRecords
  <2>4. w.known # "off" BY <1>1, <1>4, <1>7
  <2> QED BY <2>1, <2>2, <2>3, <2>4 DEF OpenRunAt
(* Cut off: nothing is promised of it, if the account is not perfect. *)
<1>8. ASSUME x \in RunRecords, x.open, x.hour = run.hour, ~x.pure,
             s.rps # "off" => ~y.perfect, s.rps = "off" => ~Ended(story, uptime).perfect
      PROVE  /\ s.rps # "off" => Matches(x, NextStory(s), w)
             /\ s.rps = "off" => Closes(x)
  <2>1. s.rps # "off" => Matches(x, NextStory(s), w)
    BY <1>3, <1>6, <1>7, <1>8 DEF Matches, PureRunAt, PerfectRunAt
  <2>2. s.rps = "off" => Closes(x) BY <1>8 DEF Closes
  <2> QED BY <2>1, <2>2
<1>9. Ended(story, uptime).perfect => story.perfect /\ Near(uptime) BY <1>1 DEF Ended, StoryRecords
<1>10. CASE ~Watched
  <2>1. x \in RunRecords /\ x.open /\ x.hour = run.hour /\ ~x.pure
    BY <1>1, <1>5, <1>10, CensoredFields
  <2>2. ~y.perfect /\ ~Ended(story, uptime).perfect BY <1>3, <1>4, <1>9, <1>10
  <2> QED BY <1>8, <2>1, <2>2 DEF x, w
<1>11. CASE Watched /\ ~run.pure
  <2>1. x = run BY <1>5, <1>11 DEF Follow
  <2>2. ~story.perfect BY <1>1, <1>11 DEF RunAgrees, PerfectRunAt
  <2>3. ~y.perfect /\ ~Ended(story, uptime).perfect BY <1>3, <1>9, <2>2
  <2> QED BY <1>1, <1>8, <1>11, <2>1, <2>3 DEF x, w
<1>12. CASE Watched /\ run.pure /\ s.rps = "blind"
  <2>1. d \in 0..(uptime - watch.at) BY <1>12
  <2>2. x = Blinded(run, s, uptime, d) BY <1>5, <1>12 DEF Follow
  <2>3. x \in RunRecords /\ x.open /\ x.hour = run.hour /\ PureRunAt(x, y, w)
    BY <1>12, <2>1, <2>2, BlindRun DEF y, w
  <2>4. PerfectRunAt(x, y, w) BY <1>3, <1>12 DEF PerfectRunAt
  <2>5. Matches(x, y, w) BY <1>3, <1>7, <1>12, <2>3, <2>4 DEF Matches
  <2> QED BY <1>6, <1>12, <2>3, <2>5 DEF x, w
<1>13. CASE Watched /\ run.pure /\ s.rps = "off"
  <2>1. x = CensoredIf(\/ watch.rps # "on" \/ run.classAt < run.rpsAt
                       \/ run.tailAt # Never /\ uptime - run.tailAt > DhwTail, run)
    BY <1>5, <1>13 DEF Follow
  <2>2. x \in RunRecords /\ x.open /\ x.hour = run.hour /\ Closes(x)
    BY <1>13, <2>1, EndingRun DEF Closes
  <2> QED BY <1>13, <2>2 DEF x
<1>14. CASE Watched /\ run.pure /\ s.rps = "on"
  <2> DEFINE e == d + run.blind
             v == [run EXCEPT !.secs = @ + (IF watch.rps = "off" THEN 0 ELSE d + run.blind), !.blind = 0]
             hidden == watch.rps = "blind" /\ (uptime - run.rpsAt > LongestGap \/ Class(s.view) # run.last)
  <2>1. x = Running(run, watch, s, uptime, d) BY <1>5, <1>14 DEF Follow
  <2>2. d \in Nat /\ d =< uptime - watch.at BY <1>1, <1>14
  <2>3. watch.rps # "off" /\ story.began + run.secs =< run.rpsAt /\ run.rpsAt + run.blind =< watch.at
        /\ (watch.rps = "on" => run.rpsAt = watch.at) /\ uptime - watch.at =< LongestGap
        /\ watch.rps \in RpsReadings
    BY <1>14, PureFacts
  <2>4. CASE hidden
    <3>1. x = Censored(run) BY <2>1, <2>4 DEF Running
    <3>2. x \in RunRecords /\ x.open /\ x.hour = run.hour /\ ~x.pure BY <1>1, <3>1, CensoredFields
    <3>3. ~story.perfect BY <1>1, <2>4 DEF RunAgrees, PerfectRunAt
    <3> QED BY <1>3, <1>8, <1>9, <3>2, <3>3 DEF x, w
  <2>5. CASE ~hidden
    <3>1. v = [run EXCEPT !.secs = run.secs + e, !.blind = 0] BY <2>3
    <3>2. e \in Nat /\ run.secs + e \in Nat BY <1>1, <2>2 DEF RunRecords
    <3>3. v \in RunRecords /\ v.secs = run.secs + e BY <1>1, <3>1, <3>2 DEF RunRecords
    <3>4. v = [run EXCEPT !.secs = v.secs, !.blind = 0] BY <3>1, <3>3
    <3>5. story.began + v.secs =< uptime BY <1>1, <2>2, <2>3, <3>3 DEF RunRecords, StoryRecords
    <3>6. uptime - run.rpsAt =< LongestGap
      <4>1. CASE watch.rps = "on" BY <2>3, <4>1
      <4>2. CASE watch.rps = "blind" BY <1>1, <2>5, <4>2, SampleBounds DEF RunRecords
      <4> QED BY <2>3, <4>1, <4>2 DEF RpsReadings
    <3> DEFINE tail == TailBegins(run, watch, s) \/ run.tailAt # Never
               g == IF tail THEN InTail(v, watch, s, uptime) ELSE InClass(v, watch, s, uptime)
    <3>7. x = IF g.pure THEN [g EXCEPT !.rpsAt = uptime] ELSE g BY <2>1, <2>5 DEF Running
    <3> HIDE DEF v, hidden
    <3>8. CASE tail
      <4>1. x \in RunRecords /\ x.open /\ x.hour = run.hour /\ PureRunAt(x, y, w) /\ ~y.perfect
        BY <1>14, <3>3, <3>4, <3>5, <3>6, <3>7, <3>8, TailRun DEF y, w
      <4>2. Matches(x, y, w) BY <1>3, <1>7, <1>14, <4>1 DEF Matches, PerfectRunAt
      <4> QED BY <1>6, <1>14, <4>1, <4>2 DEF x, w
    <3>9. CASE ~tail
      <4>0. watch.rps = "blind" => Class(s.view) = run.last BY <2>5 DEF hidden
      <4>1. /\ x \in RunRecords /\ x.open /\ x.hour = run.hour /\ PureRunAt(x, y, w)
            /\ y.perfect => x.pure /\ x.tailAt = Never /\ x.classAt = x.rpsAt
        <5> DEFINE f == InClass(v, watch, s, uptime)
                   z == IF f.pure THEN [f EXCEPT !.rpsAt = uptime] ELSE f
        <5>1. ~TailBegins(run, watch, s) /\ run.tailAt = Never BY <3>9
        <5>2. g = f BY <3>9
        <5>3. x = z BY <3>7, <5>2, SMTT(60)
        <5> HIDE DEF f, g, tail
        <5>4. /\ z \in RunRecords /\ z.open /\ z.hour = run.hour
              /\ PureRunAt(z, Continued(story, s, uptime), After(s))
              /\ Continued(story, s, uptime).perfect => z.pure /\ z.tailAt = Never /\ z.classAt = z.rpsAt
          BY <1>14, <3>3, <3>4, <3>5, <3>6, <4>0, <5>1, ClassRun DEF f
        <5> HIDE DEF z
        <5> QED BY <5>3, <5>4 DEF y, w
      <4>2. PerfectRunAt(x, y, w) BY <1>4, <1>14, <4>1 DEF PerfectRunAt
      <4>3. Matches(x, y, w) BY <1>3, <1>7, <1>14, <4>1, <4>2 DEF Matches
      <4> QED BY <1>6, <1>14, <4>1, <4>3 DEF x, w
    <3> QED BY <3>8, <3>9
  <2> QED BY <2>4, <2>5
<1> QED BY <1>2, <1>10, <1>11, <1>12, <1>13, <1>14 DEF RpsReadings

LEMMA ClosedMatches ==
  ASSUME NEW u \in RunRecords, NEW y \in StoryRecords, NEW w, ~u.open, ~y.open, u.pure => u.open
  PROVE  Matches(u, y, w)
<1>1. u.open = FALSE /\ y.open = FALSE BY DEF RunRecords, StoryRecords
<1> QED BY <1>1 DEF Matches, OpenRunAt, PureRunAt, PerfectRunAt

LEMMA RunSampled ==
  ASSUME RunAgrees, NEW s \in Samples, NEW d \in Int, Watched => d \in 0..(uptime - watch.at)
  PROVE  LET x == NextRun(s, d)
             z == LastRun(s, d)
         IN  /\ x \in RunRecords /\ Matches(z, NextStory(s), After(s))
             /\ Edge(s) => ~run.open /\ ~story.open
             /\ Ends(s, d) <=> story.open /\ s.rps = "off"
             /\ Ends(s, d) => run.open /\ x.hour = run.hour /\ Closes(x)
             /\ z.open => z.hour = HourOf(uptime) \/ (run.open /\ z.hour = run.hour)
<1> DEFINE x == NextRun(s, d)
           z == LastRun(s, d)
           y == NextStory(s)
           w == After(s)
<1>1. /\ run \in RunRecords /\ story \in StoryRecords /\ uptime \in Nat /\ run.open = story.open
      /\ (run.pure => run.open)
  BY DEF RunAgrees, OpenRunAt
<1>2. CASE Edge(s)
  <2>1. s.rps = "on" BY <1>2 DEF Edge
  <2>2. /\ ~run.open /\ x.open /\ x.hour = HourOf(uptime) /\ Matches(x, y, w) BY <1>2, EdgeRun
  <2>3. ~Ends(s, d) BY <2>1 DEF Ends
  <2>4. z = x BY <2>2, <2>3 DEF LastRun
  <2>5. x \in RunRecords BY <2>2 DEF Matches
  <2> HIDE DEF x, y, z, w
  <2> QED BY <1>1, <2>1, <2>2, <2>3, <2>4, <2>5 DEF x, y, z, w
<1>3. CASE ~Edge(s) /\ run.open
  <2>1. /\ x \in RunRecords /\ x.open /\ x.hour = run.hour
        /\ s.rps # "off" => Matches(x, y, w)
        /\ s.rps = "off" => Closes(x)
    BY <1>3, OpenRun
  <2>2. Ends(s, d) <=> s.rps = "off" BY <2>1 DEF Ends
  <2>3. CASE s.rps = "off"
    <3>1. z = NoRun /\ y = NoStory BY <2>2, <2>3, NothingRuns DEF LastRun, NextStory
    <3>2. Matches(z, y, w) BY <3>1, NothingRuns, ClosedMatches
    <3> HIDE DEF x, y, z, w
    <3> QED BY <1>1, <1>3, <2>1, <2>2, <2>3, <3>1, <3>2, NothingRuns DEF x, y, z, w
  <2>4. CASE s.rps # "off"
    <3>1. z = x BY <2>1, <2>2, <2>4 DEF LastRun
    <3> HIDE DEF x, y, z, w
    <3> QED BY <1>1, <1>3, <2>1, <2>2, <2>4, <3>1 DEF x, y, z, w
  <2> QED BY <2>3, <2>4
<1>4. CASE ~Edge(s) /\ ~run.open
  <2>1. x = run BY <1>4 DEF NextRun, FirstRun
  <2>2. ~Ends(s, d) BY <1>4, <2>1 DEF Ends
  <2>3. ~story.open BY <1>1, <1>4
  <2>4. CASE s.rps = "on"
    <3>1. z = Started(s, HourOf(uptime), uptime, FALSE) /\ y = StoryOpened(s, uptime)
      BY <1>4, <2>1, <2>2, <2>3, <2>4 DEF LastRun, NextStory
    <3>2. z \in RunRecords /\ z.open /\ z.hour = HourOf(uptime) /\ ~z.pure BY <3>1, StartedFields
    <3>3. /\ y \in StoryRecords /\ y.open /\ y.began = uptime /\ y.lastOn = uptime
          /\ y.perfect => Near(uptime) /\ tape.rps = "off"
      BY <3>1, StoryOpenedFields
    <3>4. w.at = uptime /\ w.known = "on" BY <2>4, AfterFields
    <3>5. ~y.perfect
      <4>1. Near(uptime) /\ tape.rps = "off" => Edge(s)
        BY <2>4, AfterFields DEF RunAgrees, SampleInv, Edge
      <4> HIDE DEF y
      <4> QED BY <1>4, <3>3, <4>1
    <3>6. OpenRunAt(z, y, w)
      <4> HIDE DEF x, y, z, w
      <4>1. z.open = TRUE /\ y.open = TRUE BY <3>2, <3>3 DEF RunRecords, StoryRecords
      <4> QED BY <1>1, <3>2, <3>3, <3>4, <4>1 DEF OpenRunAt
    <3> HIDE DEF x, y, z, w
    <3>7. Matches(z, y, w) BY <3>2, <3>3, <3>5, <3>6 DEF Matches, PureRunAt, PerfectRunAt
    <3>8. x \in RunRecords BY <1>1, <2>1
    <3> QED BY <1>4, <2>2, <2>3, <2>4, <3>2, <3>7, <3>8 DEF x, y, z, w
  <2>5. CASE s.rps # "on"
    <3>1. z = run /\ (y = NoStory \/ y = story) BY <2>1, <2>2, <2>3, <2>5 DEF LastRun, NextStory
    <3>2. Matches(z, y, w) BY <1>1, <1>4, <2>3, <3>1, NothingRuns, ClosedMatches
    <3> HIDE DEF x, y, z, w
    <3>3. x \in RunRecords /\ ~z.open /\ ~Edge(s) BY <1>1, <1>4, <2>1, <3>1
    <3> QED BY <2>2, <2>3, <3>2, <3>3 DEF x, y, z, w
  <2> QED BY <2>4, <2>5
<1> QED BY <1>2, <1>3, <1>4

-----------------------------------------------------------------------------
(* What is booked *)

(* The hours r after hour h became p, while hour c is open.                 *)
PutAt(r, h, c, p) ==
  IF h = c THEN [r EXCEPT !.pending = p] ELSE [r EXCEPT !.slot[Back(r, c - h)] = p]

(* The books stay right when that hour's account becomes e.                 *)
BookedAs(r, x, l, c, h, p, e) ==
  LET q == PutAt(r, h, c, p)
      m == [l EXCEPT ![h] = e]
  IN  /\ q \in Rings /\ m \in [AllHours -> HourEntries]
      /\ RingAt(q, x, c) /\ AbsentAt(q, c, m) /\ AgreeAt(q, c, m)
      /\ q.count = r.count /\ q.head = r.head /\ (h # c => q.pending = r.pending)

LEMMA HourBooked ==
  ASSUME NEW r \in Rings, NEW x \in [Ring -> Nat], NEW l \in [AllHours -> HourEntries],
         NEW c \in AllHours, NEW h \in AllHours, h =< c, c - h =< r.count, ~Bygone(h),
         h # c => x[Back(r, c - h)] # 0,
         NEW p \in HourRecords, NEW e \in HourEntries,
         Agrees(PlaceOf(r, h, c), l[h]) => Agrees(p, e),
         RingAt(r, x, c), AbsentAt(r, c, l), AgreeAt(r, c, l)
  PROVE  BookedAs(r, x, l, c, h, p, e)
<1> DEFINE q == PutAt(r, h, c, p)
           m == [l EXCEPT ![h] = e]
<1>1. /\ Completed \in Nat \ {0} /\ r.count \in 0..Completed /\ h \in Nat /\ c \in Nat /\ c # Never
      /\ r.slot \in [Ring -> HourRecords]
  BY CheckupAssumption DEF AllHours, Rings, Never
<1>2. h # c => c - h \in 1..Completed /\ Back(r, c - h) \in Ring
  <2> SUFFICES ASSUME h # c PROVE c - h \in 1..Completed /\ Back(r, c - h) \in Ring OBVIOUS
  <2>1. c - h \in 1..Completed BY <1>1
  <2> QED BY <2>1, BackIs
<1>3. /\ q \in Rings /\ q.count = r.count /\ q.head = r.head
      /\ h = c => q.pending = p /\ q.slot = r.slot
      /\ h # c => q.pending = r.pending /\ q.slot = [r.slot EXCEPT ![Back(r, c - h)] = p]
  <2>1. CASE h = c BY <2>1 DEF PutAt, Rings
  <2>2. CASE h # c
    <3> DEFINE i == Back(r, c - h)
               t == [r.slot EXCEPT ![i] = p]
    <3>1. t \in [Ring -> HourRecords] BY <1>1
    <3>2. q = [r EXCEPT !.slot = t] BY <2>2 DEF PutAt, Rings
    <3> HIDE DEF t, q
    <3>3. q \in Rings /\ q.count = r.count /\ q.head = r.head /\ q.pending = r.pending /\ q.slot = t
      BY <3>1, <3>2 DEF Rings
    <3> QED BY <2>2, <3>3 DEF t
  <2> QED BY <2>1, <2>2
<1>4. m \in [AllHours -> HourEntries] /\ m[h] = e /\ \A k \in AllHours : k # h => m[k] = l[k]
  OBVIOUS
<1> HIDE DEF q, m
<1>5. \A a \in 1..Completed : Back(q, a) = Back(r, a) BY <1>3 DEF Back
<1>6. \A a \in 1..Completed : h = c \/ a # c - h => q.slot[Back(q, a)] = r.slot[Back(r, a)]
  <2> TAKE a \in 1..Completed
  <2>1. Back(r, a) \in Ring BY BackIs
  <2>2. h # c /\ a # c - h => Back(r, a) # Back(r, c - h) BY <1>2, BackOnce
  <2> QED BY <1>1, <1>2, <1>3, <1>5, <2>1, <2>2
<1>7. RingAt(q, x, c)
  <2>1. q.count < Completed => q.head = q.count BY <1>3 DEF RingAt
  <2>2. ASSUME NEW a \in 1..Completed
        PROVE  /\ x[Back(q, a)] = 0 => q.slot[Back(q, a)] = EmptyHour
               /\ x[Back(q, a)] # 0 => a =< q.count /\ a =< c /\ x[Back(q, a)] = DateOf(c - a)
    <3>1. /\ x[Back(r, a)] = 0 => r.slot[Back(r, a)] = EmptyHour
          /\ x[Back(r, a)] # 0 => a =< r.count /\ a =< c /\ x[Back(r, a)] = DateOf(c - a)
      BY DEF RingAt
    <3>2. CASE h = c \/ a # c - h BY <1>3, <1>5, <1>6, <3>1, <3>2
    <3>3. CASE h # c /\ a = c - h BY <1>3, <1>5, <3>1, <3>3
    <3> QED BY <3>2, <3>3
  <2> QED BY <1>1, <2>1, <2>2 DEF RingAt
<1>8. AbsentAt(q, c, m)
  <2> SUFFICES ASSUME NEW k \in AllHours, k > c \/ c - k > q.count PROVE m[k] = NoEvents \/ Bygone(k)
    BY <1>1 DEF AbsentAt
  <2>1. k # h BY <1>1, <1>3 DEF AllHours
  <2> QED BY <1>3, <1>4, <2>1 DEF AbsentAt
<1>9. AgreeAt(q, c, m)
  <2> SUFFICES ASSUME NEW k \in AllHours, k =< c, c - k =< q.count
               PROVE  \/ Agrees(PlaceOf(q, k, c), m[k])
                      \/ Bygone(k) /\ PlaceOf(q, k, c) = EmptyHour
    BY DEF AgreeAt
  <2>1. \/ Agrees(PlaceOf(r, k, c), l[k])
        \/ Bygone(k) /\ PlaceOf(r, k, c) = EmptyHour
    BY <1>1, <1>3 DEF AgreeAt
  <2>2. CASE k = h
    <3>1. PlaceOf(q, k, c) = p
      <4>1. h # c => Back(q, c - h) = Back(r, c - h) BY <1>2, <1>5
      <4> QED BY <1>1, <1>2, <1>3, <2>2, <4>1 DEF PlaceOf
    <3> QED BY <1>4, <2>1, <2>2, <3>1
  <2>3. CASE k # h
    <3>1. PlaceOf(q, k, c) = PlaceOf(r, k, c)
      <4>1. CASE k = c BY <1>3, <2>3, <4>1 DEF PlaceOf
      <4>2. CASE k # c
        <5>1. c - k \in 1..Completed /\ (h = c \/ c - k # c - h) BY <1>1, <1>3, <2>3, <4>2 DEF AllHours
        <5>2. q.slot[Back(q, c - k)] = r.slot[Back(r, c - k)] BY <1>6, <5>1
        <5> QED BY <4>2, <5>2 DEF PlaceOf
      <4> QED BY <4>1, <4>2
    <3> QED BY <1>4, <2>1, <2>3, <3>1
  <2> QED BY <2>2, <2>3
<1> QED BY <1>3, <1>4, <1>7, <1>8, <1>9 DEF q, m, BookedAs

LEMMA AddedFields ==
  ASSUME NEW b \in HourRecords, NEW f \in DOMAIN EmptyHour, NEW n \in Nat
  PROVE  Added(b, f, n) \in HourRecords /\ Added(b, f, n)[f] = b[f] + n
         /\ \A g \in DOMAIN EmptyHour : g # f => Added(b, f, n)[g] = b[g]
<1> HIDE DEF EmptyHour
<1> QED BY DEF Added, HourRecords

(* The seconds and the start that a sample adds to the open hour.           *)
SampleHours(r, s, d) ==
  LET r1 == IF Watched THEN [r EXCEPT !.pending = Seconds(@, watch, s, d)] ELSE r
  IN  IF Edge(s) THEN InHour(r1, HourOf(uptime), HourOf(uptime), "starts", 1) ELSE r1
SampleLedger(s) ==
  LET h == HourOf(uptime)
      both == Near(uptime) /\ HourOf(tape.at) = h /\ s.rps # "blind" /\ tape.rps # "blind"
      dt == uptime - tape.at
  IN  [ledger EXCEPT ![h].seen = @ + (IF both THEN dt ELSE 0),
                     ![h].ran = @ + (IF both /\ s.rps = "on" /\ tape.rps = "on" THEN dt ELSE 0),
                     ![h].starts = @ + (IF s.rps = "on" /\ Near(uptime) /\ tape.before = "off" THEN 1 ELSE 0)]

LEMMA LedgerCounted ==
  ASSUME NEW l \in [AllHours -> HourEntries], NEW h \in AllHours, NEW a \in Nat, NEW b \in Nat, NEW d \in Nat
  PROVE  LET m == [l EXCEPT ![h].seen = @ + a, ![h].ran = @ + b, ![h].starts = @ + d]
             e == [l[h] EXCEPT !.seen = @ + a, !.ran = @ + b, !.starts = @ + d]
         IN  m = [l EXCEPT ![h] = e] /\ e \in HourEntries
<1> DEFINE e == [l[h] EXCEPT !.seen = @ + a, !.ran = @ + b, !.starts = @ + d]
           l1 == [l EXCEPT ![h].seen = @ + a]
           l2 == [l1 EXCEPT ![h].ran = @ + b]
           m == [l EXCEPT ![h].seen = @ + a, ![h].ran = @ + b, ![h].starts = @ + d]
<1>1. l[h] \in HourEntries OBVIOUS
<1>2. e \in HourEntries
  <2> DEFINE g == l[h]
             i == g.seen + a
             j == g.ran + b
             k == g.starts + d
  <2>1. g \in HourEntries BY <1>1
  <2>2. i \in Nat /\ j \in Nat /\ k \in Nat BY <2>1 DEF HourEntries
  <2>3. e = [g EXCEPT !.seen = i, !.ran = j, !.starts = k] BY <2>1 DEF HourEntries
  <2> HIDE DEF g, e, i, j, k
  <2> QED BY <2>1, <2>2, <2>3 DEF HourEntries
<1>3. m = [l2 EXCEPT ![h].starts = @ + d] OBVIOUS
<1>4. l1 = [l EXCEPT ![h] = [l[h] EXCEPT !.seen = @ + a]] OBVIOUS
<1>5. l2 = [l EXCEPT ![h] = [l[h] EXCEPT !.seen = @ + a, !.ran = @ + b]] BY <1>4
<1>6. m = [l EXCEPT ![h] = e] BY <1>3, <1>5
<1> QED BY <1>2, <1>6

LEMMA SampleCounted ==
  ASSUME RunAgrees, NEW s \in Samples, NEW r \in Rings, NEW x \in [Ring -> Nat],
         ledger \in [AllHours -> HourEntries], NEW c \in AllHours, c = HourOf(uptime), NEW d \in Int,
         Watched => d = (IF watch.hour # c THEN 0 ELSE uptime - watch.at),
         RingAt(r, x, c), AbsentAt(r, c, ledger), AgreeAt(r, c, ledger)
  PROVE  LET q == SampleHours(r, s, d)
             m == SampleLedger(s)
         IN  /\ q \in Rings /\ m \in [AllHours -> HourEntries]
             /\ RingAt(q, x, c) /\ AbsentAt(q, c, m) /\ AgreeAt(q, c, m)
             /\ q.count = r.count /\ q.head = r.head
<1> DEFINE both == Watched /\ watch.hour = c /\ s.rps # "blind" /\ watch.rps # "blind"
           on == s.rps = "on" /\ watch.rps = "on"
           a == IF both THEN uptime - watch.at ELSE 0
           b == IF both /\ on THEN uptime - watch.at ELSE 0
           n == IF Edge(s) THEN 1 ELSE 0
           e == [ledger[c] EXCEPT !.seen = @ + a, !.ran = @ + b, !.starts = @ + n]
           r1 == IF Watched THEN [r EXCEPT !.pending = Seconds(@, watch, s, d)] ELSE r
           p1 == IF Watched THEN Seconds(r.pending, watch, s, d) ELSE r.pending
           p == IF Edge(s) THEN Added(p1, "starts", 1) ELSE p1
           q == SampleHours(r, s, d)
           m == SampleLedger(s)
<1>1. /\ uptime \in Nat /\ watch \in WatchRecords /\ (watch.at # Never => watch.at \in Nat /\ watch.at =< uptime
                                                          /\ watch.hour = HourOf(watch.at))
      /\ tape.at = watch.at /\ tape.rps = watch.rps /\ tape.before = watch.known
      /\ (Near(uptime) <=> Watched) /\ (Watched => watch.at # Never)
  BY AfterFields DEF RunAgrees, SampleInv, WatchRecords, SinceBoot, Watched
<1>2. a \in Nat /\ b \in Nat /\ n \in Nat BY <1>1, SMTT(60)
<1>3. m = [ledger EXCEPT ![c] = e] /\ e \in HourEntries
  <2>1. m = [ledger EXCEPT ![c].seen = @ + a, ![c].ran = @ + b, ![c].starts = @ + n]
    <3>1. (Near(uptime) /\ HourOf(tape.at) = c /\ s.rps # "blind" /\ tape.rps # "blind") = both BY <1>1
    <3>2. (IF s.rps = "on" /\ Near(uptime) /\ tape.before = "off" THEN 1 ELSE 0) = n BY <1>1 DEF Edge
    <3>3. (IF both THEN uptime - tape.at ELSE 0) = a BY <1>1
    <3>4. (IF both /\ s.rps = "on" /\ tape.rps = "on" THEN uptime - tape.at ELSE 0) = b BY <1>1
    <3> HIDE DEF both, a, b, n
    <3> QED BY <3>1, <3>2, <3>3, <3>4 DEF SampleLedger
  <2> HIDE DEF m, a, b, n
  <2> QED BY <1>2, <2>1, LedgerCounted
<1>4. \A f \in {"seen", "ran", "starts"} : f \in DOMAIN EmptyHour BY EmptyRecord
<1>5. r.pending \in HourRecords BY DEF Rings
<1>6. /\ p1 \in HourRecords /\ p1["seen"] = r.pending["seen"] + a /\ p1["ran"] = r.pending["ran"] + b
      /\ \A f \in DOMAIN EmptyHour : f \notin {"seen", "ran"} => p1[f] = r.pending[f]
  <2>1. CASE Watched /\ s.rps # "blind" /\ watch.rps # "blind"
    <3> DEFINE k == IF on THEN d ELSE 0
               h1 == Added(r.pending, "seen", d)
    <3>1. d \in Nat /\ a = d /\ b = k /\ k \in Nat BY <1>1, <2>1
    <3>2. p1 = Added(h1, "ran", k) BY <2>1 DEF Seconds
    <3>3. /\ h1 \in HourRecords /\ h1["seen"] = r.pending["seen"] + d
          /\ \A g \in DOMAIN EmptyHour : g # "seen" => h1[g] = r.pending[g]
      BY <1>4, <1>5, <3>1, AddedFields
    <3> HIDE DEF h1, k, a, b
    <3>4. /\ Added(h1, "ran", k) \in HourRecords /\ Added(h1, "ran", k)["ran"] = h1["ran"] + k
          /\ \A g \in DOMAIN EmptyHour : g # "ran" => Added(h1, "ran", k)[g] = h1[g]
      BY <1>4, <3>1, <3>3, AddedFields
    <3> HIDE DEF p1
    <3> QED BY <1>4, <3>1, <3>2, <3>3, <3>4
  <2>2. CASE ~ (Watched /\ s.rps # "blind" /\ watch.rps # "blind")
    <3>1. p1 = r.pending /\ a = 0 /\ b = 0 BY <2>2 DEF Seconds
    <3>2. r.pending["seen"] \in Nat /\ r.pending["ran"] \in Nat BY <1>4, <1>5 DEF HourRecords
    <3> HIDE DEF p1, a, b
    <3> QED BY <1>5, <3>1, <3>2
  <2> QED BY <2>1, <2>2
<1> HIDE DEF p1, a, b
<1>7. /\ p \in HourRecords /\ p["seen"] = r.pending["seen"] + a /\ p["ran"] = r.pending["ran"] + b
      /\ p["starts"] = r.pending["starts"] + n
      /\ \A f \in DOMAIN EmptyHour : f \notin {"seen", "ran", "starts"} => p[f] = r.pending[f]
  <2>1. CASE Edge(s)
    <3>1. p = Added(p1, "starts", 1) /\ n = 1 BY <2>1
    <3>2. /\ Added(p1, "starts", 1) \in HourRecords /\ Added(p1, "starts", 1)["starts"] = p1["starts"] + 1
          /\ \A g \in DOMAIN EmptyHour : g # "starts" => Added(p1, "starts", 1)[g] = p1[g]
      BY <1>4, <1>6, AddedFields
    <3> HIDE DEF p, n
    <3> QED BY <1>4, <1>6, <3>1, <3>2
  <2>2. CASE ~Edge(s)
    <3>1. p = p1 /\ n = 0 BY <2>2
    <3>2. p1["starts"] = r.pending["starts"] + 0
      <4>1. r.pending["starts"] \in Nat BY <1>4, <1>5 DEF HourRecords
      <4> QED BY <1>4, <1>6, <4>1
    <3> HIDE DEF p, n
    <3> QED BY <1>4, <1>6, <3>1, <3>2
  <2> QED BY <2>1, <2>2
<1>8. q = PutAt(r, c, c, p)
  <2>1. r1 = [r EXCEPT !.pending = p1] /\ r1.pending = p1 BY DEF p1, Rings
  <2>2. InHour(r1, c, c, "starts", 1) = [r1 EXCEPT !.pending = Added(p1, "starts", 1)]
    BY <2>1 DEF InHour, Rings
  <2>3. q = IF Edge(s) THEN InHour(r1, c, c, "starts", 1) ELSE r1 BY DEF SampleHours
  <2>4. q = [r EXCEPT !.pending = p]
    <3> HIDE DEF r1, q
    <3> QED BY <2>1, <2>2, <2>3 DEF Rings
  <2> QED BY <2>4 DEF PutAt
<1>9. Agrees(r.pending, ledger[c]) => Agrees(p, e)
  <2>1. /\ e.seen = ledger[c].seen + a /\ e.ran = ledger[c].ran + b /\ e.starts = ledger[c].starts + n
        /\ e.ended = ledger[c].ended /\ e.secs = ledger[c].secs
        /\ e.perfect = ledger[c].perfect /\ e.sound = ledger[c].sound
    <3> HIDE DEF n
    <3>1. ledger[c] \in HourEntries OBVIOUS
    <3> QED BY <3>1 DEF HourEntries
  <2>2. /\ \A f \in Classes \cup {"cut", "secs"} : p[f] = r.pending[f]
    BY <1>7, EmptyRecord DEF Classes
  <2> HIDE DEF p, e, n
  <2> QED BY <1>7, <2>1, <2>2 DEF Agrees, Classes
<1>10. ~Bygone(c) /\ c \in Nat
  <2>1. c \in Nat /\ Completed \in Nat BY CheckupAssumption DEF AllHours
  <2> QED BY <1>1, <2>1, GoneByHour DEF Bygone
<1>11. PlaceOf(r, c, c) = r.pending /\ c - c =< r.count BY <1>10 DEF PlaceOf, Rings
<1>12. c =< c BY <1>10
<1> HIDE DEF p, e, q, m, n
<1>13. /\ q \in Rings /\ m \in [AllHours -> HourEntries]
       /\ RingAt(q, x, c) /\ AbsentAt(q, c, m) /\ AgreeAt(q, c, m)
       /\ q.count = r.count /\ q.head = r.head
  <2>1. p \in HourRecords /\ e \in HourEntries BY <1>3, <1>7
  <2>2. Agrees(PlaceOf(r, c, c), ledger[c]) => Agrees(p, e) BY <1>9, <1>11
  <2>3. BookedAs(r, x, ledger, c, c, p, e)
    BY <1>10, <1>11, <1>12, <2>1, <2>2, HourBooked
  <2> QED BY <1>3, <1>8, <2>3 DEF BookedAs
<1> QED BY <1>13 DEF q, m

LEMMA PlacesPut ==
  ASSUME NEW r \in Rings, NEW c \in Nat, NEW h \in Nat, h =< c, c - h =< r.count, NEW p \in HourRecords
  PROVE  LET q == PutAt(r, h, c, p)
         IN  /\ q \in Rings /\ PlaceOf(q, h, c) = p /\ q.count = r.count
             /\ PlaceOf(r, h, c) \in HourRecords
             /\ \A g \in HourRecords : PutAt(q, h, c, g) = PutAt(r, h, c, g)
<1>1. Completed \in Nat \ {0} /\ r.count \in 0..Completed /\ r.slot \in [Ring -> HourRecords]
      /\ r.pending \in HourRecords
  BY CheckupAssumption DEF Rings
<1>2. CASE h = c BY <1>1, <1>2 DEF PutAt, PlaceOf, Rings
<1>3. CASE h # c
  <2> DEFINE i == Back(r, c - h)
             t == [r.slot EXCEPT ![i] = p]
             q == PutAt(r, h, c, p)
  <2>1. c - h \in 1..Completed BY <1>1, <1>3
  <2>2. i \in Ring BY <2>1, BackIs
  <2>3. t \in [Ring -> HourRecords] /\ t[i] = p BY <1>1, <2>2
  <2>4. q = [r EXCEPT !.slot = t] BY <1>3 DEF PutAt, Rings
  <2>5. \A g \in HourRecords : [t EXCEPT ![i] = g] = [r.slot EXCEPT ![i] = g] BY <1>1, <2>2
  <2> HIDE DEF t, q
  <2>6. q \in Rings /\ q.count = r.count /\ q.head = r.head /\ q.slot = t BY <2>3, <2>4 DEF Rings
  <2>7. Back(q, c - h) = i BY <2>6 DEF Back
  <2>8. PlaceOf(q, h, c) = p BY <1>3, <2>3, <2>6, <2>7 DEF PlaceOf
  <2>9. PlaceOf(r, h, c) \in HourRecords BY <1>1, <1>3, <2>2 DEF PlaceOf
  <2>10. ASSUME NEW g \in HourRecords PROVE PutAt(q, h, c, g) = PutAt(r, h, c, g)
    <3>1. PutAt(q, h, c, g) = [q EXCEPT !.slot = [t EXCEPT ![i] = g]]
      BY <1>3, <2>6, <2>7 DEF PutAt, Rings
    <3>2. PutAt(r, h, c, g) = [r EXCEPT !.slot = [r.slot EXCEPT ![i] = g]]
      BY <1>3 DEF PutAt, Rings
    <3>3. [t EXCEPT ![i] = g] = [r.slot EXCEPT ![i] = g] BY <2>5
    <3>4. [q EXCEPT !.slot = [t EXCEPT ![i] = g]] = [r EXCEPT !.slot = [t EXCEPT ![i] = g]]
      BY <2>4 DEF Rings
    <3> QED BY <3>1, <3>2, <3>3, <3>4
  <2> QED BY <2>6, <2>8, <2>9, <2>10 DEF q
<1> QED BY <1>2, <1>3

LEMMA PlaceTyped ==
  ASSUME NEW r \in Rings, NEW c \in Nat, NEW h \in Nat, h =< c, c - h =< r.count
  PROVE  PlaceOf(r, h, c) \in HourRecords
<1>1. Completed \in Nat \ {0} /\ r.count \in 0..Completed /\ r.slot \in [Ring -> HourRecords]
      /\ r.pending \in HourRecords
  BY CheckupAssumption DEF Rings
<1>2. h # c => c - h \in 1..Completed BY <1>1
<1>3. h # c => Back(r, c - h) \in Ring BY <1>2, BackIs
<1> QED BY <1>1, <1>3 DEF PlaceOf

LEMMA InHourIs ==
  ASSUME NEW r \in Rings, NEW c \in Nat, NEW h \in Nat, h =< c, NEW f \in DOMAIN EmptyHour, NEW n \in Nat
  PROVE  InHour(r, h, c, f, n) = PutAt(r, h, c, Added(PlaceOf(r, h, c), f, n))
<1>1. SlotOf(r, h, c) = Back(r, c - h) BY SlotIsBack
<1> QED BY <1>1 DEF InHour, PutAt, PlaceOf, Rings

LEMMA BookedIn ==
  ASSUME NEW r \in Rings, NEW c \in Nat, NEW h \in Nat, h =< c, c - h =< r.count,
         NEW f \in DOMAIN EmptyHour, NEW n \in Nat, NEW g \in DOMAIN EmptyHour, NEW k \in Nat
  PROVE  LET p == PlaceOf(r, h, c)
             p1 == Added(p, f, n)
             p2 == Added(p1, g, k)
         IN  /\ p \in HourRecords /\ p1 \in HourRecords /\ p2 \in HourRecords
             /\ InHour(r, h, c, f, n) = PutAt(r, h, c, p1)
             /\ InHour(InHour(r, h, c, f, n), h, c, g, k) = PutAt(r, h, c, p2)
<1> DEFINE p == PlaceOf(r, h, c)
           p1 == Added(p, f, n)
           p2 == Added(p1, g, k)
           q == PutAt(r, h, c, p1)
<1>1. p \in HourRecords BY PlaceTyped
<1>2. p1 \in HourRecords BY <1>1, AddedFields
<1>3. p2 \in HourRecords BY <1>2, AddedFields
<1>4. InHour(r, h, c, f, n) = q BY InHourIs
<1>5. q \in Rings /\ PlaceOf(q, h, c) = p1 BY <1>2, PlacesPut
<1> HIDE DEF q, p1
<1>6. InHour(q, h, c, g, k) = PutAt(q, h, c, p2) BY <1>5, InHourIs
<1>7. PutAt(q, h, c, p2) = PutAt(r, h, c, p2) BY <1>2, <1>3, PlacesPut DEF q
<1> QED BY <1>1, <1>2, <1>3, <1>4, <1>6, <1>7 DEF q, p1

(* The account of an hour in which a run e of class c ends.                 *)
EndTold(b, e, y, here) ==
  [b EXCEPT !.ended = @ + 1,
            !.perfect = [c \in Classes |-> b.perfect[c] + (IF e.perfect /\ here /\ c = y.class THEN 1 ELSE 0)],
            !.sound = [c \in Classes |-> b.sound[c] + (IF e.sound /\ here /\ c = y.class THEN 1 ELSE 0)],
            !.secs = @ + (IF e.sound THEN y.lastOn - y.began ELSE 0)]

ToldIn(t, b, e, y, here) ==
  /\ t \in HourEntries /\ t.ended = b.ended + 1
  /\ t.seen = b.seen /\ t.ran = b.ran /\ t.starts = b.starts
  /\ t.secs = b.secs + (IF e.sound THEN y.lastOn - y.began ELSE 0)
  /\ \A c \in Classes :
       /\ t.perfect[c] = b.perfect[c] + (IF e.perfect /\ here /\ c = y.class THEN 1 ELSE 0)
       /\ t.sound[c] = b.sound[c] + (IF e.sound /\ here /\ c = y.class THEN 1 ELSE 0)

LEMMA EndToldFields ==
  ASSUME NEW b \in HourEntries, NEW e \in StoryRecords, NEW y \in StoryRecords, y.began =< y.lastOn,
         NEW here \in BOOLEAN
  PROVE  ToldIn(EndTold(b, e, y, here), b, e, y, here)
<1> DEFINE pf == [c \in Classes |-> b.perfect[c] + (IF e.perfect /\ here /\ c = y.class THEN 1 ELSE 0)]
           so == [c \in Classes |-> b.sound[c] + (IF e.sound /\ here /\ c = y.class THEN 1 ELSE 0)]
           sd == IF e.sound THEN y.lastOn - y.began ELSE 0
           en == b.ended + 1
           sc == b.secs + sd
           t == EndTold(b, e, y, here)
<1>1. b.perfect \in [Classes -> Nat] /\ b.sound \in [Classes -> Nat] /\ sd \in Nat /\ b.ended \in Nat
      /\ b.secs \in Nat
  BY DEF HourEntries, StoryRecords
<1>2. pf \in [Classes -> Nat] /\ so \in [Classes -> Nat]
  <2>1. \A c \in Classes : b.perfect[c] + (IF e.perfect /\ here /\ c = y.class THEN 1 ELSE 0) \in Nat
    BY <1>1
  <2>2. \A c \in Classes : b.sound[c] + (IF e.sound /\ here /\ c = y.class THEN 1 ELSE 0) \in Nat
    BY <1>1
  <2> QED BY <2>1, <2>2
<1>3. en \in Nat /\ sc \in Nat BY <1>1
<1>4. t = [b EXCEPT !.ended = en, !.perfect = pf, !.sound = so, !.secs = sc] BY DEF EndTold, HourEntries
<1>5. \A c \in Classes :
        /\ pf[c] = b.perfect[c] + (IF e.perfect /\ here /\ c = y.class THEN 1 ELSE 0)
        /\ so[c] = b.sound[c] + (IF e.sound /\ here /\ c = y.class THEN 1 ELSE 0)
  OBVIOUS
<1>6. en = b.ended + 1 /\ sc = b.secs + sd OBVIOUS
<1> HIDE DEF pf, so, en, sc, t
<1>7. t \in HourEntries BY <1>2, <1>3, <1>4 DEF HourEntries
<1>8. t.ended = en /\ t.perfect = pf /\ t.sound = so /\ t.secs = sc
      /\ t.seen = b.seen /\ t.ran = b.ran /\ t.starts = b.starts
  BY <1>2, <1>3, <1>4 DEF HourEntries
<1> HIDE DEF sd
<1>9. ToldIn(t, b, e, y, here) BY <1>5, <1>6, <1>7, <1>8 DEF ToldIn, sd
<1> QED BY <1>9 DEF t
LEMMA CutAgrees ==
  ASSUME NEW p \in HourRecords, NEW b \in HourEntries, NEW e \in StoryRecords, NEW y \in StoryRecords,
         y.began =< y.lastOn, NEW here \in BOOLEAN, ~ (e.perfect /\ here), Agrees(p, b)
  PROVE  Agrees(Added(p, "cut", 1), EndTold(b, e, y, here))
<1> DEFINE q == Added(p, "cut", 1)
           t == EndTold(b, e, y, here)
<1>1. q \in HourRecords /\ q["cut"] = p["cut"] + 1
      /\ \A g \in DOMAIN EmptyHour : g # "cut" => q[g] = p[g]
  BY AddedFields, EmptyRecord
<1>2. q.seen = p.seen /\ q.ran = p.ran /\ q.starts = p.starts /\ q.space = p.space /\ q.dhw = p.dhw
      /\ q.cooling = p.cooling /\ q.secs = p.secs /\ q.cut = p.cut + 1
  BY <1>1, EmptyRecord
<1>3. /\ t.ended = b.ended + 1
      /\ t.seen = b.seen /\ t.ran = b.ran /\ t.starts = b.starts
      /\ t.secs = b.secs + (IF e.sound THEN y.lastOn - y.began ELSE 0)
      /\ \A c \in Classes :
           /\ t.perfect[c] = b.perfect[c] + (IF e.perfect /\ here /\ c = y.class THEN 1 ELSE 0)
           /\ t.sound[c] = b.sound[c] + (IF e.sound /\ here /\ c = y.class THEN 1 ELSE 0)
  <2>1. ToldIn(t, b, e, y, here) BY EndToldFields
  <2> HIDE DEF t
  <2> QED BY <2>1 DEF ToldIn
<1>4. /\ \A c \in Classes : b.perfect[c] \in Nat /\ b.sound[c] \in Nat
      /\ b.secs \in Nat /\ b.ended \in Nat
      /\ (IF e.sound THEN y.lastOn - y.began ELSE 0) \in Nat
      /\ \A f \in DOMAIN EmptyHour : p[f] \in Nat
  BY DEF HourEntries, StoryRecords, HourRecords
<1> HIDE DEF q, t
<1>5. ASSUME NEW c \in Classes PROVE t.perfect[c] =< q[c] /\ q[c] =< t.sound[c]
  <2>1. q[c] = p[c] /\ p[c] \in Nat BY <1>1, <1>4, EmptyRecord DEF Classes
  <2>2. b.perfect[c] =< p[c] /\ p[c] =< b.sound[c] BY DEF Agrees
  <2>3. t.perfect[c] = b.perfect[c] BY <1>3, <1>4
  <2> QED BY <1>3, <1>4, <2>1, <2>2, <2>3
<1>6. q.secs =< t.secs
  <2>1. p.secs =< b.secs /\ p.secs \in Nat BY <1>4, EmptyRecord DEF Agrees
  <2> QED BY <1>2, <1>3, <1>4, <2>1
<1>7. q.space + q.dhw + q.cooling + q.cut = t.ended
  <2>1. p.space + p.dhw + p.cooling + p.cut = b.ended BY DEF Agrees
  <2>2. p.space \in Nat /\ p.dhw \in Nat /\ p.cooling \in Nat /\ p.cut \in Nat BY <1>4, EmptyRecord
  <2> QED BY <1>2, <1>3, <1>4, <2>1, <2>2
<1>8. q.seen = t.seen /\ q.ran = t.ran /\ q.starts = t.starts BY <1>2, <1>3 DEF Agrees
<1> QED BY <1>5, <1>6, <1>7, <1>8 DEF Agrees, q, t

LEMMA ClassAgrees ==
  ASSUME NEW p \in HourRecords, NEW b \in HourEntries, NEW e \in StoryRecords, NEW y \in StoryRecords,
         y.began =< y.lastOn, e.sound, y.class \in Classes, NEW n \in Nat, n =< y.lastOn - y.began,
         NEW here \in BOOLEAN, here, Agrees(p, b)
  PROVE  Agrees(Added(Added(p, y.class, 1), "secs", n), EndTold(b, e, y, here))
<1> DEFINE f == y.class
           q1 == Added(p, f, 1)
           q == Added(q1, "secs", n)
           t == EndTold(b, e, y, here)
<1>1. f \in DOMAIN EmptyHour /\ "secs" \in DOMAIN EmptyHour /\ f # "secs" BY EmptyRecord DEF Classes
<1>2. q1 \in HourRecords /\ q1[f] = p[f] + 1 /\ \A g \in DOMAIN EmptyHour : g # f => q1[g] = p[g]
  BY <1>1, AddedFields, SMTT(60)
<1> HIDE DEF q1
<1>3. q["secs"] = q1["secs"] + n /\ \A g \in DOMAIN EmptyHour : g # "secs" => q[g] = q1[g]
  BY <1>1, <1>2, AddedFields
<1>4. /\ t.ended = b.ended + 1
      /\ t.seen = b.seen /\ t.ran = b.ran /\ t.starts = b.starts
      /\ t.secs = b.secs + (y.lastOn - y.began)
      /\ \A c \in Classes :
           /\ t.perfect[c] = b.perfect[c] + (IF e.perfect /\ c = y.class THEN 1 ELSE 0)
           /\ t.sound[c] = b.sound[c] + (IF c = y.class THEN 1 ELSE 0)
  <2>1. ToldIn(t, b, e, y, here) BY EndToldFields
  <2> HIDE DEF t
  <2> QED BY <2>1 DEF ToldIn
<1>5. /\ \A c \in Classes : b.perfect[c] \in Nat /\ b.sound[c] \in Nat
      /\ b.secs \in Nat /\ b.ended \in Nat /\ y.lastOn \in Nat /\ y.began \in Nat
      /\ \A g \in DOMAIN EmptyHour : p[g] \in Nat
  BY DEF HourEntries, StoryRecords, HourRecords
<1>6. /\ p.space \in Nat /\ p.dhw \in Nat /\ p.cooling \in Nat /\ p.cut \in Nat /\ p.secs \in Nat
  BY <1>5, EmptyRecord
<1> HIDE DEF q, t, f
<1>7. q.seen = p.seen /\ q.ran = p.ran /\ q.starts = p.starts /\ q.cut = p.cut /\ q.secs = p.secs + n
  <2>1. f \notin {"seen", "ran", "starts", "cut", "secs"} BY DEF f, Classes
  <2> QED BY <1>2, <1>3, <2>1, EmptyRecord
<1>8. \A c \in Classes : q[c] = p[c] + (IF c = f THEN 1 ELSE 0)
  <2> TAKE c \in Classes
  <2>1. c \in DOMAIN EmptyHour /\ c # "secs" /\ p[c] \in Nat BY <1>5, EmptyRecord DEF Classes
  <2> QED BY <1>2, <1>3, <2>1
<1>9. q.space + q.dhw + q.cooling + q.cut = t.ended
  <2>1. /\ q.space = p.space + (IF f = "space" THEN 1 ELSE 0)
        /\ q.dhw = p.dhw + (IF f = "dhw" THEN 1 ELSE 0)
        /\ q.cooling = p.cooling + (IF f = "cooling" THEN 1 ELSE 0)
    BY <1>8 DEF Classes
  <2>2. f \in {"space", "dhw", "cooling"} BY DEF f, Classes
  <2>3. p.space + p.dhw + p.cooling + p.cut = b.ended BY DEF Agrees
  <2> QED BY <1>4, <1>5, <1>6, <1>7, <2>1, <2>2, <2>3
<1>10. ASSUME NEW c \in Classes PROVE t.perfect[c] =< q[c] /\ q[c] =< t.sound[c]
  <2>1. p[c] \in Nat BY <1>5, EmptyRecord DEF Classes
  <2>2. b.perfect[c] =< p[c] /\ p[c] =< b.sound[c] BY DEF Agrees
  <2> QED BY <1>4, <1>5, <1>8, <2>1, <2>2 DEF f
<1>11. q.secs =< t.secs
  <2>1. p.secs =< b.secs BY DEF Agrees
  <2> QED BY <1>4, <1>5, <1>6, <1>7, <2>1
<1>12. q.seen = t.seen /\ q.ran = t.ran /\ q.starts = t.starts BY <1>4, <1>7 DEF Agrees
<1> QED BY <1>9, <1>10, <1>11, <1>12 DEF Agrees, q, t, q1, f

LEMMA ToldIs ==
  ASSUME NEW l \in [AllHours -> HourEntries], NEW h \in AllHours, story \in StoryRecords, uptime \in Nat,
         h = IF HourOf(uptime) - HourOf(story.began) =< Completed THEN HourOf(story.began) ELSE HourOf(uptime)
  PROVE  Told(l, story, uptime) =
           [l EXCEPT ![h] = EndTold(l[h], Ended(story, uptime), story, h = HourOf(story.began))]
<1> DEFINE e == Ended(story, uptime)
           t == EndTold(l[h], e, story, h = HourOf(story.began))
           In(kind) == [c \in Classes |-> l[h][kind][c]
                          + (IF e[kind] /\ h = HourOf(story.began) /\ c = story.class THEN 1 ELSE 0)]
           g == [l[h] EXCEPT !.ended = @ + 1, !.perfect = In("perfect"), !.sound = In("sound"),
                             !.secs = @ + (IF e.sound THEN story.lastOn - story.began ELSE 0)]
<1>1. Told(l, story, uptime) = [l EXCEPT ![h] = g] BY DEF Told
<1>2. In("perfect") = [c \in Classes |-> l[h].perfect[c]
                          + (IF e.perfect /\ h = HourOf(story.began) /\ c = story.class THEN 1 ELSE 0)]
      /\ In("sound") = [c \in Classes |-> l[h].sound[c]
                          + (IF e.sound /\ h = HourOf(story.began) /\ c = story.class THEN 1 ELSE 0)]
  OBVIOUS
<1> HIDE DEF In, e
<1>3. g = t BY <1>2 DEF EndTold
<1> HIDE DEF g, t
<1> QED BY <1>1, <1>3 DEF t, e

LEMMA EndedTyped ==
  ASSUME story \in StoryRecords
  PROVE  Ended(story, uptime) \in StoryRecords
<1> DEFINE a == story.perfect /\ Near(uptime) /\ tape.rps = "on"
           b == /\ story.sound /\ Near(uptime) /\ tape.rps = "on" /\ story.shownAt = story.lastOn
                /\ story.strayed # Never => uptime - story.strayed =< DhwTail
<1>1. Ended(story, uptime) = [story EXCEPT !.perfect = a, !.sound = b] BY DEF Ended
<1>2. a \in BOOLEAN /\ b \in BOOLEAN OBVIOUS
<1> HIDE DEF a, b
<1> QED BY <1>1, <1>2 DEF StoryRecords

(* The books stay right when the run u ends.                                *)
EndedAs(r, x, l, c, u) ==
  LET q == BookRun(r, u, c)
      m == Told(l, story, uptime)
  IN  /\ q \in Rings /\ m \in [AllHours -> HourEntries]
      /\ RingAt(q, x, c) /\ AbsentAt(q, c, m) /\ AgreeAt(q, c, m)
      /\ q.count = r.count /\ q.head = r.head

LEMMA RunBooked ==
  ASSUME RunAgrees, NEW r \in Rings, NEW x \in [Ring -> Nat], NEW l \in [AllHours -> HourEntries],
         NEW c \in AllHours, c = HourOf(uptime), RingAt(r, x, c), AbsentAt(r, c, l), AgreeAt(r, c, l),
         NEW u \in RunRecords, run.open, u.hour = run.hour, HomeAt(r, x, c, run.hour), Closes(u)
  PROVE  EndedAs(r, x, l, c, u)
<1> DEFINE k == run.hour
           e == Ended(story, uptime)
           h == IF c - k =< Completed THEN k ELSE c
           here == h = k
           t == EndTold(l[h], e, story, here)
           p == PlaceOf(r, h, c)
           s == Added(Added(p, u.class, 1), "secs", u.secs)
           d == Added(p, "cut", 1)
           g == IF Held(r, k, c) /\ u.pure THEN s ELSE d
<1>1. /\ Completed \in Nat \ {0} /\ r.count \in 0..Completed /\ c \in Nat /\ k \in Nat /\ uptime \in Nat
      /\ story \in StoryRecords /\ k = HourOf(story.began) /\ story.began =< story.lastOn
      /\ u.secs \in Nat /\ u.hour = k
  BY CheckupAssumption DEF RunAgrees, OpenRunAt, AllHours, Rings, RunRecords
<1>2. k =< c /\ (c - k =< r.count \/ r.count = Completed)
      /\ (c - k \in 1..Completed => x[Back(r, c - k)] = DateOf(k) \/ Bygone(k))
  BY DEF HomeAt
<1>3. Held(r, k, c) <=> c - k =< Completed BY <1>1, <1>2 DEF Held
<1>4. h \in AllHours /\ h =< c /\ h \in Nat /\ c - h =< r.count /\ c - h \in 0..Completed
      /\ (h # c => h = k /\ c - k \in 1..Completed)
  <2>1. c \in 0..HourOf(LastTick) /\ HourOf(LastTick) \in Nat
    BY CheckupAssumption, HourBounds DEF AllHours
  <2> QED BY <1>1, <1>2, <2>1, SMTT(60) DEF AllHours
<1>5. ~Bygone(h) BY <1>1, <1>4, GoneByHour, SMTT(60) DEF Bygone
<1>6. h # c => x[Back(r, c - h)] # 0
  <2> SUFFICES ASSUME h # c PROVE x[Back(r, c - k)] # 0 BY <1>4
  <2>1. x[Back(r, c - k)] = DateOf(k) BY <1>2, <1>4, <1>5
  <2> QED BY <1>1, <2>1, DatesDiffer
<1>7. p \in HourRecords BY <1>1, <1>4, PlaceTyped
<1>8. e \in StoryRecords BY <1>1, EndedTyped
<1>9. here \in BOOLEAN /\ (here <=> Held(r, k, c))
  <2>1. ~ (c - k =< Completed) => c # k BY <1>1
  <2> QED BY <1>3, <2>1
<1>10. Told(l, story, uptime) = [l EXCEPT ![h] = t] BY <1>1, <1>4, ToldIs
<1>11. l[h] \in HourEntries BY <1>4
<1> HIDE DEF h, p, e, here
<1>12. t \in HourEntries BY <1>1, <1>8, <1>9, <1>11, EndToldFields DEF ToldIn
<1> HIDE DEF t
<1>13. BookRun(r, u, c) = PutAt(r, h, c, g) /\ g \in HourRecords
  <2>1. "cut" \in DOMAIN EmptyHour /\ "secs" \in DOMAIN EmptyHour BY EmptyRecord
  <2>2. InHour(r, h, c, "cut", 1) = PutAt(r, h, c, d) /\ d \in HourRecords
    BY <1>4, <2>1, BookedIn DEF p
  <2>3. CASE ~Held(r, k, c)
    <3>1. h = c BY <1>1, <1>3, <2>3 DEF h
    <3> QED BY <1>1, <2>2, <2>3, <3>1 DEF BookRun
  <2>4. CASE Held(r, k, c) /\ ~u.pure
    <3>1. h = k BY <1>3, <2>4 DEF h
    <3> QED BY <1>1, <2>2, <2>4, <3>1 DEF BookRun
  <2>5. CASE Held(r, k, c) /\ u.pure
    <3>1. h = k BY <1>3, <2>5 DEF h
    <3>2. u.class \in DOMAIN EmptyHour BY <2>5, EmptyRecord DEF Closes, Classes
    <3>3. InHour(InHour(r, h, c, u.class, 1), h, c, "secs", u.secs) = PutAt(r, h, c, s) /\ s \in HourRecords
      BY <1>1, <1>4, <2>1, <3>2, BookedIn DEF p
    <3>4. BookRun(r, u, c) = InHour(InHour(r, h, c, u.class, 1), h, c, "secs", u.secs)
      BY <1>1, <2>5, <3>1 DEF BookRun
    <3> HIDE DEF s, d
    <3> QED BY <2>5, <3>3, <3>4
  <2> QED BY <2>3, <2>4, <2>5
<1>14. ASSUME Agrees(p, l[h]) PROVE Agrees(g, t)
  <2>1. CASE Held(r, k, c) /\ u.pure
    <3>1. here /\ e.sound /\ u.class = story.class /\ story.class \in Classes
          /\ u.secs =< story.lastOn - story.began
      BY <1>9, <2>1 DEF Closes, e
    <3> QED BY <1>1, <1>7, <1>8, <1>9, <1>11, <1>14, <2>1, <3>1, ClassAgrees DEF t
  <2>2. CASE ~ (Held(r, k, c) /\ u.pure)
    <3>1. ~ (e.perfect /\ here) BY <1>9, <2>2 DEF Closes, e
    <3> QED BY <1>1, <1>7, <1>8, <1>9, <1>11, <1>14, <2>2, <3>1, CutAgrees DEF t
  <2> QED BY <2>1, <2>2
<1> HIDE DEF g
<1>15. BookedAs(r, x, l, c, h, g, t)
  BY <1>4, <1>5, <1>6, <1>12, <1>13, <1>14, HourBooked DEF p
<1> QED BY <1>10, <1>13, <1>15 DEF BookedAs, EndedAs

-----------------------------------------------------------------------------
(* One sample *)

LEMMA HourGrows ==
  ASSUME NEW a \in Nat, NEW b \in Nat, a =< b
  PROVE  HourOf(a) =< HourOf(b)
<1> DEFINE T(n) == n * HourTicks
           p == HourOf(a)
           q == HourOf(b)
<1>1. p \in Nat /\ q \in Nat /\ T(p) =< a /\ b < T(q) + HourTicks /\ HourTicks \in Nat \ {0}
  BY HourBounds, CheckupAssumption
<1>2. T(q + 1) = T(q) + T(1) /\ T(1) = HourTicks BY <1>1, TimesAdds
<1>3. q + 1 =< p => T(q + 1) =< T(p) BY <1>1, TimesGrows
<1>4. T(p) \in Int /\ T(q) \in Int BY <1>1, TimesGrows
<1> HIDE DEF T, p, q
<1>5. ~ (q + 1 =< p) BY <1>1, <1>2, <1>3, <1>4
<1> QED BY <1>1, <1>5 DEF p, q

LEMMA HourListed ==
  ASSUME uptime \in 0..LastTick
  PROVE  HourOf(uptime) \in AllHours /\ HourOf(uptime) \in Nat
<1>1. uptime \in Nat /\ LastTick \in Nat /\ uptime =< LastTick BY CheckupAssumption
<1> QED BY <1>1, HourBounds, HourGrows DEF AllHours

Moved == watch.hour # Never /\ watch.hour # HourOf(uptime)
TurnedHours ==
  IF Moved THEN CommitHours(hours, HourOf(uptime) - watch.hour - 1) ELSE hours
TurnedDates ==
  IF Moved THEN Dated(expires, hours, watch.hour, HourOf(uptime) - watch.hour - 1) ELSE expires
Elapsed == IF Moved THEN 0 ELSE uptime - watch.at

LEMMA FoldedIs ==
  ASSUME RunAgrees, NEW s, NEW r, NEW d, Edge(s) => ~run.open
  PROVE  /\ Folded(r, run, watch, s, uptime, Watched, d).run = LastRun(s, d)
         /\ Folded(r, run, watch, s, uptime, Watched, d).hours =
              IF Ends(s, d) THEN BookRun(SampleHours(r, s, d), NextRun(s, d), HourOf(uptime))
              ELSE SampleHours(r, s, d)
BY DEF Folded, LastRun, Ends, NextRun, FirstRun, Edge, SampleHours

LEMMA IInvRuns ==
  ASSUME CheckupIInv, ~wipe
  PROVE  /\ RunAgrees /\ hours \in Rings /\ expires \in [Ring -> Nat]
         /\ ledger \in [AllHours -> HourEntries] /\ HourOf(uptime) \in AllHours /\ HourOf(uptime) \in Nat
         /\ RingAt(hours, expires, watch.hour) /\ AbsentAt(hours, watch.hour, ledger)
         /\ AgreeAt(hours, watch.hour, ledger)
         /\ run.open => HomeAt(hours, expires, watch.hour, run.hour)
         /\ watch.at \in SinceBoot /\ (watch.at # Never => watch.at \in Nat /\ watch.at =< uptime)
         /\ watch.hour # Never <=> watch.at # Never
         /\ watch.hour # Never => watch.hour \in Nat /\ watch.hour =< HourOf(uptime)
         /\ watch.hour = Never => ~run.open
<1>1. uptime \in 0..LastTick /\ uptime \in Nat BY CheckupAssumption DEF CheckupIInv, CheckupShape
<1>2. watch.at \in SinceBoot /\ watch \in WatchRecords BY DEF CheckupIInv, CheckupShape, WatchRecords
<1>3. /\ watch.at = Never => watch = NoWatch /\ run = NoRun
      /\ watch.at # Never => watch.at =< uptime /\ watch.hour = HourOf(watch.at)
  BY DEF CheckupIInv, SampleInv
<1>4. watch.at = Never => watch.hour = Never /\ ~run.open BY <1>3 DEF NoWatch, NoRun
<1>5. watch.at # Never => watch.at \in Nat BY <1>2 DEF SinceBoot
<1>6. watch.at # Never => watch.hour \in Nat /\ watch.hour =< HourOf(uptime)
  BY <1>1, <1>3, <1>5, HourBounds, HourGrows
<1>7. watch.hour \in Nat => watch.hour # Never BY DEF Never
<1>8. HourOf(uptime) \in AllHours /\ HourOf(uptime) \in Nat BY <1>1, HourListed
<1>9. RunAgrees BY <1>1 DEF CheckupIInv, CheckupShape, RunAgrees
<1> QED BY <1>2, <1>3, <1>4, <1>5, <1>6, <1>7, <1>8, <1>9 DEF CheckupIInv, CheckupShape

LEMMA HoursTurn ==
  ASSUME CheckupIInv, ~wipe
  PROVE  LET r == TurnedHours
             x == TurnedDates
             c == HourOf(uptime)
         IN  /\ r \in Rings /\ x \in [Ring -> Nat]
             /\ RingAt(r, x, c) /\ AbsentAt(r, c, ledger) /\ AgreeAt(r, c, ledger)
             /\ run.open => HomeAt(r, x, c, run.hour)
<1>1. CASE Moved
  <2> DEFINE k == (HourOf(uptime) - watch.hour) - 1
  <2>1. watch.hour \in Nat /\ watch.hour < HourOf(uptime) /\ uptime \in Nat /\ run.hour \in Nat
    BY <1>1, IInvRuns DEF Moved, RunAgrees, RunRecords
  <2>2. TurnedHours = CommitHours(hours, k) /\ TurnedDates = Dated(expires, hours, watch.hour, k)
    BY <1>1 DEF TurnedHours, TurnedDates
  <2> QED BY <2>1, <2>2, IInvRuns, MovesOn
<1>2. CASE ~Moved /\ watch.hour = Never
  <2>1. TurnedHours = hours /\ TurnedDates = expires BY <1>2 DEF TurnedHours, TurnedDates
  <2>2. uptime \in Nat BY IInvRuns DEF RunAgrees
  <2> QED BY <1>2, <2>1, <2>2, IInvRuns, FirstHour
<1>3. CASE ~Moved /\ watch.hour # Never
  <2>1. TurnedHours = hours /\ TurnedDates = expires /\ watch.hour = HourOf(uptime)
    BY <1>3 DEF TurnedHours, TurnedDates, Moved
  <2> QED BY <2>1, IInvRuns
<1> QED BY <1>1, <1>2, <1>3

LEMMA RecordIs ==
  ASSUME CheckupIInv, ~wipe, NEW s \in Samples, Record(s)
  PROVE  /\ uptime' = uptime /\ wipe' = wipe /\ resets' = resets
         /\ hours' = (IF Ends(s, Elapsed)
                      THEN BookRun(SampleHours(TurnedHours, s, Elapsed), NextRun(s, Elapsed), HourOf(uptime))
                      ELSE SampleHours(TurnedHours, s, Elapsed))
         /\ expires' = TurnedDates /\ run' = LastRun(s, Elapsed) /\ watch' = After(s)
         /\ ledger' = (IF story.open /\ s.rps = "off" THEN Told(SampleLedger(s), story, uptime)
                       ELSE SampleLedger(s))
         /\ story' = NextStory(s)
         /\ tape' = [at |-> uptime, rps |-> s.rps, view |-> IF s.rps = "on" THEN s.view ELSE "none",
                     before |-> IF s.rps # "blind" THEN s.rps
                                ELSE IF Near(uptime) THEN tape.before ELSE "none"]
<1>1. Edge(s) => ~run.open
  <2>1. RunAgrees BY IInvRuns
  <2> QED BY <2>1 DEF RunAgrees, OpenRunAt, Edge
<1>2. RunAgrees BY IInvRuns
<1> DEFINE f == Folded(TurnedHours, run, watch, s, uptime, Watched, Elapsed)
<1>3. /\ f.run = LastRun(s, Elapsed)
      /\ f.hours = IF Ends(s, Elapsed)
                   THEN BookRun(SampleHours(TurnedHours, s, Elapsed), NextRun(s, Elapsed), HourOf(uptime))
                   ELSE SampleHours(TurnedHours, s, Elapsed)
  BY <1>1, <1>2, FoldedIs
<1>4. /\ uptime' = uptime /\ wipe' = wipe /\ resets' = resets
      /\ hours' = f.hours /\ run' = f.run /\ expires' = TurnedDates /\ watch' = After(s)
      /\ Witness(s, uptime)
  BY DEF Record, TurnedHours, TurnedDates, Moved, Watched, Elapsed, After
<1> HIDE DEF f
<1>5. /\ ledger' = (IF story.open /\ s.rps = "off" THEN Told(SampleLedger(s), story, uptime)
                    ELSE SampleLedger(s))
      /\ story' = NextStory(s)
      /\ tape' = [at |-> uptime, rps |-> s.rps, view |-> IF s.rps = "on" THEN s.view ELSE "none",
                     before |-> IF s.rps # "blind" THEN s.rps
                                ELSE IF Near(uptime) THEN tape.before ELSE "none"]
  BY <1>4 DEF Witness, Accounted, SampleLedger, NextStory
<1> QED BY <1>3, <1>4, <1>5

LEMMA SampleNext ==
  ASSUME CheckupIInv, ~wipe, NEW s \in Samples, Record(s)
  PROVE  SampleInv' /\ tape' \in TapeRecords
<1> DEFINE w == After(s)
<1>1. /\ w \in WatchRecords /\ w.at = uptime /\ w.rps = s.rps /\ w.hour = HourOf(uptime)
      /\ s.rps = "on" => w.view = s.view
      /\ w.view # "none" => s.rps = "on"
      /\ w.known = IF s.rps # "blind" THEN s.rps ELSE IF Watched THEN watch.known ELSE "none"
      /\ Near(uptime) <=> Watched
  BY IInvRuns, AfterFields
<1>2. /\ RunAgrees /\ uptime \in Nat /\ tape.before = watch.known /\ tape \in TapeRecords
  BY IInvRuns DEF RunAgrees, SampleInv
<1>3. s.rps # "on" => w.view = "none" BY <1>1
<1>4. /\ uptime' = uptime /\ watch' = w
      /\ tape' = [at |-> uptime, rps |-> s.rps, view |-> IF s.rps = "on" THEN s.view ELSE "none",
                  before |-> IF s.rps # "blind" THEN s.rps
                             ELSE IF Near(uptime) THEN tape.before ELSE "none"]
  BY RecordIs
<1> HIDE DEF w
<1>5. tape'.at = w.at /\ tape'.rps = w.rps /\ tape'.view = w.view /\ tape'.before = w.known
  BY <1>1, <1>2, <1>3, <1>4
<1>6. tape' \in TapeRecords
  BY <1>2, <1>4 DEF TapeRecords, Samples, RpsReadings, Views, SinceBoot
<1>7. SampleInv'
  <2>1. w.at # Never BY <1>1, <1>2 DEF Never
  <2> QED BY <1>1, <1>2, <1>4, <1>5, <2>1 DEF SampleInv
<1> QED BY <1>6, <1>7

LEMMA BooksNext ==
  ASSUME CheckupIInv, ~wipe, NEW s \in Samples, Record(s)
  PROVE  /\ hours' \in Rings /\ expires' \in [Ring -> Nat] /\ ledger' \in [AllHours -> HourEntries]
         /\ RingAt(hours', expires', HourOf(uptime)) /\ AbsentAt(hours', HourOf(uptime), ledger')
         /\ AgreeAt(hours', HourOf(uptime), ledger')
         /\ run.open => HomeAt(hours', expires', HourOf(uptime), run.hour)
<1> DEFINE r == TurnedHours
           x == TurnedDates
           c == HourOf(uptime)
           d == Elapsed
           q == SampleHours(r, s, d)
           m == SampleLedger(s)
           u == NextRun(s, d)
<1>1. /\ r \in Rings /\ x \in [Ring -> Nat]
      /\ RingAt(r, x, c) /\ AbsentAt(r, c, ledger) /\ AgreeAt(r, c, ledger)
      /\ run.open => HomeAt(r, x, c, run.hour)
  BY HoursTurn
<1>2. /\ RunAgrees /\ c \in AllHours /\ c \in Nat /\ ledger \in [AllHours -> HourEntries]
      /\ (watch.at # Never => watch.at \in Nat /\ watch.at =< uptime) /\ uptime \in Nat
      /\ watch.at \in SinceBoot
      /\ (watch.hour # Never <=> watch.at # Never)
  BY IInvRuns DEF RunAgrees
<1>3. d \in Int /\ (Watched => d = (IF watch.hour # c THEN 0 ELSE uptime - watch.at))
      /\ (Watched => d \in 0..(uptime - watch.at))
  BY <1>2 DEF Elapsed, Moved, Watched, SinceBoot, Never
<1> HIDE DEF r, x, c, d, q, m, u
<1>4. /\ q \in Rings /\ m \in [AllHours -> HourEntries]
      /\ RingAt(q, x, c) /\ AbsentAt(q, c, m) /\ AgreeAt(q, c, m)
      /\ q.count = r.count /\ q.head = r.head
  BY <1>1, <1>2, <1>3, SampleCounted DEF q, m, c
<1>5. run.open => HomeAt(q, x, c, run.hour) BY <1>1, <1>4 DEF HomeAt, Back
<1>6. /\ u \in RunRecords /\ (Ends(s, d) <=> story.open /\ s.rps = "off")
      /\ Ends(s, d) => run.open /\ u.hour = run.hour /\ Closes(u)
  BY <1>2, <1>3, RunSampled DEF u
<1>7. /\ hours' = IF Ends(s, d) THEN BookRun(q, u, c) ELSE q
      /\ expires' = x
      /\ ledger' = IF story.open /\ s.rps = "off" THEN Told(m, story, uptime) ELSE m
  BY RecordIs DEF r, x, c, d, q, m, u
<1>8. CASE Ends(s, d)
  <2> DEFINE b == BookRun(q, u, c)
             t == Told(m, story, uptime)
  <2>1. /\ b \in Rings /\ t \in [AllHours -> HourEntries]
        /\ RingAt(b, x, c) /\ AbsentAt(b, c, t) /\ AgreeAt(b, c, t)
        /\ b.count = q.count /\ b.head = q.head
    <3>1. run.open /\ u.hour = run.hour /\ Closes(u) /\ c = HourOf(uptime) BY <1>6, <1>8 DEF c
    <3>2. x \in [Ring -> Nat] BY <1>1
    <3>3. HomeAt(q, x, c, run.hour) BY <1>5, <3>1
    <3>4. EndedAs(q, x, m, c, u) BY <1>2, <1>4, <1>6, <3>1, <3>2, <3>3, RunBooked
    <3> QED BY <3>4 DEF EndedAs
  <2> HIDE DEF b, t
  <2>2. hours' = b /\ ledger' = t BY <1>6, <1>7, <1>8 DEF b, t
  <2>3. run.open => HomeAt(b, x, c, run.hour) BY <1>5, <2>1 DEF HomeAt, Back
  <2>4. x \in [Ring -> Nat] BY <1>1
  <2> QED BY <1>7, <2>1, <2>2, <2>3, <2>4 DEF c
<1>9. CASE ~Ends(s, d)
  <2>1. hours' = q /\ ledger' = m BY <1>6, <1>7, <1>9
  <2> QED BY <1>1, <1>4, <1>5, <1>7, <2>1 DEF c
<1> QED BY <1>8, <1>9

-----------------------------------------------------------------------------
(* The steps *)

NoDates == [i \in Ring |-> 0]
NoLedger == [h \in AllHours |-> NoEvents]

LEMMA BlankFacts ==
  /\ NoWatch \in WatchRecords /\ NoRun \in RunRecords /\ NoHours \in Rings
  /\ NoDates \in [Ring -> Nat] /\ NoLedger \in [AllHours -> HourEntries]
  /\ NoStory \in StoryRecords /\ NoTape \in TapeRecords
  /\ RingAt(NoHours, NoDates, Never)
  /\ NoWatch.hour = Never /\ NoWatch.at = Never /\ ~NoRun.open
  /\ NoTape.at = NoWatch.at /\ NoTape.rps = NoWatch.rps /\ NoTape.view = NoWatch.view
  /\ NoTape.before = NoWatch.known /\ NoWatch.rps = "blind" /\ NoWatch.view = "none"
  /\ Matches(NoRun, NoStory, NoWatch)
<1>1. Completed \in Nat \ {0} BY CheckupAssumption
<1>2. NoHours \in Rings BY <1>1, EmptyRecord DEF NoHours, Rings, Ring
<1>3. NoEvents \in HourEntries BY DEF NoEvents, HourEntries, Classes
<1>4. NoDates \in [Ring -> Nat] /\ NoLedger \in [AllHours -> HourEntries] BY <1>3 DEF NoDates, NoLedger
<1>5. RingAt(NoHours, NoDates, Never)
  <2>1. NoHours.head = 0 /\ NoHours.count = 0 /\ NoHours.pending = EmptyHour BY DEF NoHours
  <2>2. \A a \in 1..Completed : NoDates[Back(NoHours, a)] = 0 /\ NoHours.slot[Back(NoHours, a)] = EmptyHour
    <3> TAKE a \in 1..Completed
    <3>1. Back(NoHours, a) \in Ring BY <1>2, BackIs
    <3> QED BY <3>1 DEF NoDates, NoHours
  <2> QED BY <2>1, <2>2 DEF RingAt
<1>6. NoWatch \in WatchRecords /\ NoTape \in TapeRecords
  BY DEF NoWatch, NoTape, WatchRecords, TapeRecords, RpsReadings, Views, SinceBoot, Never
<1>7. ~NoRun.open /\ ~NoStory.open /\ ~NoRun.pure /\ NoRun \in RunRecords /\ NoStory \in StoryRecords
  BY NothingRuns
<1>8. Matches(NoRun, NoStory, NoWatch) BY <1>7, ClosedMatches
<1> QED BY <1>2, <1>4, <1>5, <1>6, <1>7, <1>8 DEF NoWatch, NoTape

LEMMA CheckupInitIInv == ASSUME CheckupInit PROVE CheckupIInv
<1>1. uptime = 0 /\ watch = NoWatch /\ run = NoRun /\ hours = NoHours /\ expires = NoDates
      /\ wipe = FALSE /\ resets = 0 /\ ledger = NoLedger /\ story = NoStory /\ tape = NoTape
  BY DEF CheckupInit, NoDates, NoLedger
<1>2. 0 \in 0..LastTick /\ 0 \in 0..MaxResets BY CheckupAssumption
<1>3. CheckupShape BY <1>1, <1>2, BlankFacts DEF CheckupShape
<1>4. SampleInv BY <1>1, BlankFacts DEF SampleInv
<1>5. OpenRunAt(run, story, watch) /\ PureRunAt(run, story, watch) /\ PerfectRunAt(run, story, watch)
      /\ ~run.open
  BY <1>1, BlankFacts DEF Matches
<1>6. RingAt(hours, expires, watch.hour) /\ watch.hour = Never BY <1>1, BlankFacts
<1>7. AbsentAt(hours, watch.hour, ledger) BY <1>1 DEF AbsentAt, NoLedger
<1>8. AgreeAt(hours, watch.hour, ledger) BY <1>6 DEF AgreeAt
<1>9. WipedInv BY <1>1 DEF WipedInv
<1> QED BY <1>3, <1>4, <1>5, <1>6, <1>7, <1>8, <1>9 DEF CheckupIInv

LEMMA EmptiedIInv ==
  ASSUME Emptied, uptime \in 0..LastTick, uptime' = uptime, wipe' = FALSE, resets' \in 0..MaxResets,
         ledger' = NoLedger, story' = NoStory, tape' = NoTape
  PROVE  CheckupIInv'
<1>1. watch' = NoWatch /\ run' = NoRun /\ hours' = NoHours /\ expires' = NoDates
  BY DEF Emptied, NoDates
<1>3. CheckupShape' BY <1>1, BlankFacts DEF CheckupShape
<1>4. SampleInv' BY <1>1, BlankFacts DEF SampleInv
<1>5. OpenRunAt(run, story, watch)' /\ PureRunAt(run, story, watch)' /\ PerfectRunAt(run, story, watch)'
      /\ ~run'.open
  BY <1>1, BlankFacts DEF Matches
<1>6. RingAt(hours, expires, watch.hour)' /\ watch'.hour = Never BY <1>1, BlankFacts
<1>7. AbsentAt(hours, watch.hour, ledger)' BY DEF AbsentAt, NoLedger
<1>8. AgreeAt(hours, watch.hour, ledger)' BY <1>6 DEF AgreeAt
<1>9. WipedInv' BY DEF WipedInv
<1> QED BY <1>3, <1>4, <1>5, <1>6, <1>7, <1>8, <1>9 DEF CheckupIInv

LEMMA RecordWipesIInv == ASSUME CheckupIInv, wipe, NEW s \in Sights, Record(s) PROVE CheckupIInv'
<1>1. Emptied /\ wipe' = FALSE /\ uptime' = uptime /\ resets' = resets
      /\ ledger' = ledger /\ story' = story /\ tape' = tape
  BY DEF Record, ghosts
<1>2. ledger = NoLedger /\ story = NoStory /\ tape = NoTape BY DEF CheckupIInv, WipedInv, NoLedger
<1>3. uptime \in 0..LastTick /\ resets \in 0..MaxResets BY DEF CheckupIInv, CheckupShape
<1> QED BY <1>1, <1>2, <1>3, EmptiedIInv

LEMMA RecordSamplesIInv == ASSUME CheckupIInv, ~wipe, NEW s \in Sights, Record(s) PROVE CheckupIInv'
<1> DEFINE d == Elapsed
           z == LastRun(s, d)
<1>1. s \in Samples BY SampleBounds
<1>2. /\ RunAgrees /\ HourOf(uptime) \in Nat /\ (watch.at # Never => watch.at \in Nat /\ watch.at =< uptime)
      /\ uptime \in Nat /\ watch.at \in SinceBoot /\ (watch.hour # Never <=> watch.at # Never)
  BY IInvRuns DEF RunAgrees
<1>3. d \in Int /\ (Watched => d \in 0..(uptime - watch.at))
  BY <1>2 DEF Elapsed, Watched, SinceBoot, Never
<1>4. /\ Matches(z, NextStory(s), After(s))
      /\ z.open => z.hour = HourOf(uptime) \/ (run.open /\ z.hour = run.hour)
  <2> HIDE DEF d
  <2> QED BY <1>1, <1>2, <1>3, RunSampled
<1>5. /\ uptime' = uptime /\ wipe' = wipe /\ resets' = resets
      /\ run' = z /\ watch' = After(s) /\ story' = NextStory(s)
  BY <1>1, RecordIs
<1>6. After(s) \in WatchRecords /\ After(s).hour = HourOf(uptime) BY <1>1, <1>2, AfterFields
<1>7. SampleInv' /\ tape' \in TapeRecords BY <1>1, SampleNext
<1>8. /\ hours' \in Rings /\ expires' \in [Ring -> Nat] /\ ledger' \in [AllHours -> HourEntries]
      /\ RingAt(hours', expires', HourOf(uptime)) /\ AbsentAt(hours', HourOf(uptime), ledger')
      /\ AgreeAt(hours', HourOf(uptime), ledger')
      /\ run.open => HomeAt(hours', expires', HourOf(uptime), run.hour)
  BY <1>1, BooksNext
<1> HIDE DEF z, d
<1>9. CheckupShape'
  BY <1>4, <1>5, <1>6, <1>7, <1>8 DEF CheckupIInv, CheckupShape, Matches
<1>10. OpenRunAt(run, story, watch)' /\ PureRunAt(run, story, watch)' /\ PerfectRunAt(run, story, watch)'
  BY <1>4, <1>5 DEF Matches
<1>11. RingAt(hours, expires, watch.hour)' BY <1>5, <1>6, <1>8
<1>12. AbsentAt(hours, watch.hour, ledger)' BY <1>5, <1>6, <1>8 DEF AbsentAt, Bygone
<1>13. AgreeAt(hours, watch.hour, ledger)' BY <1>5, <1>6, <1>8 DEF AgreeAt, Bygone
<1>14. ASSUME run'.open PROVE HomeAt(hours, expires, watch.hour, run.hour)'
  <2>1. CASE z.hour = HourOf(uptime)
    <3>1. hours'.count \in 0..Completed /\ Completed \in Nat BY <1>8, CheckupAssumption DEF Rings
    <3>2. watch'.hour = HourOf(uptime) /\ run'.hour = HourOf(uptime) BY <1>5, <1>6, <2>1
    <3>3. HourOf(uptime) - HourOf(uptime) = 0 /\ 0 \notin 1..Completed BY <1>2, <3>1
    <3> QED BY <1>2, <3>1, <3>2, <3>3 DEF HomeAt
  <2>2. CASE run.open /\ z.hour = run.hour
    <3>1. HomeAt(hours', expires', HourOf(uptime), run.hour) BY <1>8, <2>2
    <3>2. watch'.hour = HourOf(uptime) /\ run'.hour = run.hour BY <1>5, <1>6, <2>2
    <3> QED BY <1>5, <3>1, <3>2 DEF HomeAt, Bygone
  <2> QED BY <1>4, <1>5, <1>14, <2>1, <2>2
<1>15. WipedInv' BY <1>5 DEF WipedInv
<1> QED BY <1>7, <1>9, <1>10, <1>11, <1>12, <1>13, <1>14, <1>15 DEF CheckupIInv

LEMMA BygoneLater ==
  ASSUME NEW h \in Nat, uptime \in Nat, uptime' \in Nat, uptime =< uptime', Bygone(h)
  PROVE  Bygone(h)'
BY DatesDiffer DEF Bygone

LEMMA PassesIInv == ASSUME CheckupIInv, Passes PROVE CheckupIInv'
<1>1. uptime' = uptime + 1 /\ uptime < LastTick
      /\ UNCHANGED <<watch, run, hours, expires, wipe, resets, ledger, story, tape>>
  BY DEF Passes, ghosts
<1>2. uptime \in 0..LastTick /\ LastTick \in Nat BY CheckupAssumption DEF CheckupIInv, CheckupShape
<1>3. uptime' \in 0..LastTick /\ uptime \in Nat /\ uptime' \in Nat /\ uptime =< uptime' BY <1>1, <1>2
<1>4. \A h \in Nat : Bygone(h) => Bygone(h)'
  <2>1. \A h \in Nat : DateOf(h) \in Nat BY DatesDiffer
  <2> QED BY <1>3, <2>1 DEF Bygone
<1>5. AllHours \subseteq Nat BY DEF AllHours
<1>6. CheckupShape' BY <1>1, <1>3 DEF CheckupIInv, CheckupShape
<1>7. WipedInv' BY <1>1 DEF CheckupIInv, WipedInv
<1>8. RingAt(hours, expires, watch.hour)' BY <1>1 DEF CheckupIInv
<1>9. ASSUME ~wipe'
      PROVE  /\ SampleInv' /\ OpenRunAt(run, story, watch)' /\ PureRunAt(run, story, watch)'
             /\ PerfectRunAt(run, story, watch)'
             /\ run'.open => HomeAt(hours, expires, watch.hour, run.hour)'
             /\ AbsentAt(hours, watch.hour, ledger)' /\ AgreeAt(hours, watch.hour, ledger)'
  <2>1. ~wipe BY <1>1, <1>9
  <2>2. SampleInv'
    <3>1. SampleInv BY <2>1 DEF CheckupIInv
    <3>2. watch.at # Never => watch.at \in Nat BY <2>1, IInvRuns
    <3>3. watch.at # Never => watch.at =< uptime BY <3>1 DEF SampleInv
    <3>4. watch.at # Never => watch.at =< uptime' BY <1>3, <3>2, <3>3
    <3> QED BY <1>1, <3>1, <3>4 DEF SampleInv
  <2>3. OpenRunAt(run, story, watch)' /\ PureRunAt(run, story, watch)' /\ PerfectRunAt(run, story, watch)'
    BY <1>1, <2>1 DEF CheckupIInv
  <2>4. run'.open => HomeAt(hours, expires, watch.hour, run.hour)'
    <3>1. run.open => HomeAt(hours, expires, watch.hour, run.hour) BY <2>1 DEF CheckupIInv
    <3>2. run.hour \in Nat BY DEF CheckupIInv, CheckupShape, RunRecords
    <3> QED BY <1>1, <1>4, <3>1, <3>2 DEF HomeAt
  <2>5. AbsentAt(hours, watch.hour, ledger)' BY <1>1, <1>4, <1>5, <2>1 DEF CheckupIInv, AbsentAt
  <2>6. AgreeAt(hours, watch.hour, ledger)' BY <1>1, <1>4, <1>5, <2>1 DEF CheckupIInv, AgreeAt
  <2> QED BY <2>2, <2>3, <2>4, <2>5, <2>6
<1> QED BY <1>6, <1>7, <1>8, <1>9 DEF CheckupIInv

-----------------------------------------------------------------------------
(* A report *)

FreshDates == [i \in Ring |-> IF Expired(i) THEN 0 ELSE expires[i]]

LEMMA FreshIs ==
  ASSUME CheckupIInv
  PROVE  /\ Fresh \in Rings /\ Fresh.head = hours.head /\ Fresh.count = hours.count
         /\ \A i \in Ring : Fresh.slot[i] = (IF Expired(i) THEN EmptyHour ELSE hours.slot[i])
         /\ Fresh.pending = (IF OpenExpired THEN EmptyHour ELSE hours.pending)
         /\ FreshDates \in [Ring -> Nat]
         /\ \A a : Back(Fresh, a) = Back(hours, a)
<1>1. hours \in Rings /\ expires \in [Ring -> Nat] BY DEF CheckupIInv, CheckupShape
<1> DEFINE s == [i \in Ring |-> IF Expired(i) THEN EmptyHour ELSE hours.slot[i]]
           p == IF OpenExpired THEN EmptyHour ELSE hours.pending
<1>2. /\ hours.slot \in [Ring -> HourRecords] /\ hours.pending \in HourRecords
      /\ hours = [slot |-> hours.slot, count |-> hours.count, head |-> hours.head, pending |-> hours.pending]
      /\ hours.count \in 0..Completed /\ hours.head \in Ring
  BY <1>1 DEF Rings
<1>3. s \in [Ring -> HourRecords] /\ p \in HourRecords BY <1>2, EmptyRecord
<1>4. Fresh = [hours EXCEPT !.slot = s, !.pending = p] BY DEF Fresh
<1>5. \A i \in Ring : s[i] = IF Expired(i) THEN EmptyHour ELSE hours.slot[i] OBVIOUS
<1>6. p = (IF OpenExpired THEN EmptyHour ELSE hours.pending) OBVIOUS
<1>7. FreshDates \in [Ring -> Nat] BY <1>1 DEF FreshDates
<1> HIDE DEF s, p
<1>8. Fresh = [slot |-> s, count |-> hours.count, head |-> hours.head, pending |-> p]
  BY <1>2, <1>4
<1>9. Fresh.head = hours.head /\ Fresh.count = hours.count /\ Fresh.slot = s /\ Fresh.pending = p
  BY <1>8
<1>10. Fresh \in Rings BY <1>2, <1>3, <1>8 DEF Rings
<1>11. \A a : Back(Fresh, a) = Back(hours, a) BY <1>9 DEF Back
<1> QED BY <1>5, <1>6, <1>7, <1>9, <1>10, <1>11

LEMMA ExpiredIs ==
  ASSUME CheckupIInv, NEW a \in 1..Completed
  PROVE  /\ Back(hours, a) \in Ring
         /\ expires[Back(hours, a)] = 0 => /\ hours.slot[Back(hours, a)] = EmptyHour
                                           /\ ~Expired(Back(hours, a))
         /\ expires[Back(hours, a)] # 0 =>
              /\ watch.hour # Never /\ a =< hours.count /\ watch.hour - a \in Nat
              /\ expires[Back(hours, a)] = DateOf(watch.hour - a)
              /\ Expired(Back(hours, a)) <=> Bygone(watch.hour - a)
<1>1. hours \in Rings /\ expires \in [Ring -> Nat] /\ watch.hour \in SinceBoot
      /\ RingAt(hours, expires, watch.hour)
  BY DEF CheckupIInv, CheckupShape, WatchRecords
<1>2. Back(hours, a) \in Ring BY <1>1, BackIs
<1> DEFINE i == Back(hours, a)
<1>3. /\ expires[i] = 0 => hours.slot[i] = EmptyHour
      /\ expires[i] # 0 => /\ watch.hour # Never /\ a =< hours.count /\ a =< watch.hour
                           /\ expires[i] = DateOf(watch.hour - a)
  BY <1>1 DEF RingAt
<1> HIDE DEF i
<1>4. a \in Nat /\ (watch.hour # Never => watch.hour \in Nat) BY <1>1, CheckupAssumption DEF SinceBoot
<1>5. expires[i] \in Nat BY <1>1, <1>2 DEF i
<1>6. expires[i] # 0 => watch.hour - a \in Nat BY <1>3, <1>4
<1>7. expires[i] = 0 => ~Expired(i) BY DEF Expired
<1>8. expires[i] # 0 => (Expired(i) <=> Bygone(watch.hour - a)) BY <1>3, <1>5 DEF Expired, Bygone
<1> QED BY <1>2, <1>3, <1>6, <1>7, <1>8 DEF i

(* When the open hour is over, or none is open, nothing is left to report.  *)
LEMMA FreshBlank ==
  ASSUME CheckupIInv, watch.hour = Never \/ OpenExpired
  PROVE  /\ \A i \in Ring : Fresh.slot[i] = EmptyHour /\ FreshDates[i] = 0
         /\ Fresh.pending = EmptyHour
<1>1. hours \in Rings /\ expires \in [Ring -> Nat] /\ watch.hour \in SinceBoot /\ uptime \in Nat
      /\ RingAt(hours, expires, watch.hour)
  BY CheckupAssumption DEF CheckupIInv, CheckupShape, WatchRecords
<1>2. ASSUME NEW i \in Ring PROVE Fresh.slot[i] = EmptyHour /\ FreshDates[i] = 0
  <2>1. PICK a \in 1..Completed : i = Back(hours, a) BY <1>1, BackAll
  <2>2. Fresh.slot[i] = IF Expired(i) THEN EmptyHour ELSE hours.slot[i] BY FreshIs
  <2>3. FreshDates[i] = IF Expired(i) THEN 0 ELSE expires[i] BY DEF FreshDates
  <2>4. CASE expires[i] = 0 BY <2>1, <2>2, <2>3, <2>4, ExpiredIs
  <2>5. CASE expires[i] # 0
    <3>1. watch.hour # Never /\ watch.hour - a \in Nat /\ (Expired(i) <=> Bygone(watch.hour - a))
      BY <2>1, <2>5, ExpiredIs
    <3>2. watch.hour \in Nat /\ a \in Nat BY <1>1, <3>1, CheckupAssumption DEF SinceBoot
    <3>3. Bygone(watch.hour) BY <3>1 DEF OpenExpired, Bygone, DateOf
    <3>4. HourOf(uptime) >= (watch.hour + Completed) + 1 BY <1>1, <3>2, <3>3, GoneByHour DEF Bygone
    <3>5. HourOf(uptime) >= ((watch.hour - a) + Completed) + 1
      BY <1>1, <3>2, <3>4, HourBounds, CheckupAssumption
    <3>6. Bygone(watch.hour - a) BY <1>1, <3>1, <3>5, GoneByHour DEF Bygone
    <3> QED BY <2>2, <2>3, <3>1, <3>6
  <2> QED BY <2>4, <2>5
<1>3. Fresh.pending = EmptyHour
  <2>1. watch.hour = Never => hours.pending = EmptyHour BY <1>1 DEF RingAt
  <2> QED BY <2>1, FreshIs
<1> QED BY <1>2, <1>3

LEMMA FreshRing ==
  ASSUME CheckupIInv
  PROVE  /\ RingAt(Fresh, FreshDates, IF OpenExpired THEN Never ELSE watch.hour)
         /\ ~OpenExpired => RingAt(Fresh, FreshDates, watch.hour)
<1>1. hours \in Rings /\ RingAt(hours, expires, watch.hour) BY DEF CheckupIInv, CheckupShape
<1>2. Fresh.head = hours.head /\ Fresh.count = hours.count /\ \A a : Back(Fresh, a) = Back(hours, a)
  BY FreshIs
<1>3. Fresh.count < Completed => Fresh.head = Fresh.count BY <1>1, <1>2 DEF RingAt
<1>4. CASE OpenExpired
  <2>1. \A a \in 1..Completed : Back(Fresh, a) \in Ring BY <1>1, <1>2, BackIs
  <2> QED BY <1>3, <1>4, <2>1, FreshBlank DEF RingAt
<1>5. CASE ~OpenExpired
  <2>1. watch.hour = Never => Fresh.pending = EmptyHour BY <1>1, <1>5, FreshIs DEF RingAt
  <2>2. ASSUME NEW a \in 1..Completed
        PROVE  LET i == Back(Fresh, a) IN
               /\ FreshDates[i] = 0 => Fresh.slot[i] = EmptyHour
               /\ FreshDates[i] # 0 => /\ watch.hour # Never /\ a =< Fresh.count /\ a =< watch.hour
                                       /\ FreshDates[i] = DateOf(watch.hour - a)
    <3> DEFINE i == Back(hours, a)
    <3>1. Back(Fresh, a) = i /\ i \in Ring BY <1>1, <1>2, BackIs
    <3>2. /\ expires[i] = 0 => hours.slot[i] = EmptyHour
          /\ expires[i] # 0 => /\ watch.hour # Never /\ a =< hours.count /\ a =< watch.hour
                               /\ expires[i] = DateOf(watch.hour - a)
      BY <1>1 DEF RingAt
    <3>3. FreshDates[i] = (IF Expired(i) THEN 0 ELSE expires[i])
          /\ Fresh.slot[i] = (IF Expired(i) THEN EmptyHour ELSE hours.slot[i])
      BY <3>1, FreshIs DEF FreshDates
    <3> HIDE DEF i
    <3> QED BY <1>2, <3>1, <3>2, <3>3
  <2> QED BY <1>3, <1>5, <2>1, <2>2 DEF RingAt
<1> QED BY <1>4, <1>5

LEMMA FreshAgrees ==
  ASSUME CheckupIInv, ~wipe, ~OpenExpired
  PROVE  /\ AgreeAt(Fresh, watch.hour, ledger) /\ AbsentAt(Fresh, watch.hour, ledger)
         /\ run.open => HomeAt(Fresh, FreshDates, watch.hour, run.hour)
<1>1. /\ hours \in Rings /\ watch.hour \in SinceBoot /\ run.hour \in Nat
      /\ AgreeAt(hours, watch.hour, ledger) /\ AbsentAt(hours, watch.hour, ledger)
      /\ run.open => HomeAt(hours, expires, watch.hour, run.hour)
  BY DEF CheckupIInv, CheckupShape, WatchRecords, RunRecords
<1>2. Fresh.count = hours.count /\ Fresh.pending = hours.pending /\ \A a : Back(Fresh, a) = Back(hours, a)
  BY FreshIs
<1>3. AbsentAt(Fresh, watch.hour, ledger) BY <1>1, <1>2 DEF AbsentAt
<1>4. Completed \in Nat /\ hours.count \in 0..Completed BY <1>1, CheckupAssumption DEF Rings
<1>5. AgreeAt(Fresh, watch.hour, ledger)
  <2> SUFFICES ASSUME watch.hour # Never, NEW h \in AllHours, h =< watch.hour,
                      watch.hour - h =< hours.count
               PROVE  \/ Agrees(PlaceOf(Fresh, h, watch.hour), ledger[h])
                      \/ Bygone(h) /\ PlaceOf(Fresh, h, watch.hour) = EmptyHour
    BY <1>2 DEF AgreeAt
  <2> DEFINE a == watch.hour - h
             i == Back(hours, a)
  <2>1. \/ Agrees(PlaceOf(hours, h, watch.hour), ledger[h])
        \/ Bygone(h) /\ PlaceOf(hours, h, watch.hour) = EmptyHour
    BY <1>1 DEF AgreeAt
  <2>2. CASE h = watch.hour
    <3>1. PlaceOf(Fresh, h, watch.hour) = PlaceOf(hours, h, watch.hour) BY <1>2, <2>2 DEF PlaceOf
    <3> QED BY <2>1, <3>1
  <2>3. CASE h # watch.hour
    <3>1. watch.hour \in Nat /\ h \in Nat BY <1>1 DEF SinceBoot, AllHours
    <3>2. a \in 1..Completed /\ watch.hour - a = h BY <1>4, <2>3, <3>1
    <3>3. PlaceOf(Fresh, h, watch.hour) = Fresh.slot[i] /\ PlaceOf(hours, h, watch.hour) = hours.slot[i]
      BY <1>2, <2>3 DEF PlaceOf
    <3> HIDE DEF a
    <3>4. i \in Ring BY <3>2, ExpiredIs
    <3>5. Fresh.slot[i] = IF Expired(i) THEN EmptyHour ELSE hours.slot[i] BY <3>4, FreshIs
    <3>6. Expired(i) => Bygone(h) BY <3>2, ExpiredIs
    <3> QED BY <2>1, <3>3, <3>5, <3>6
  <2> QED BY <2>2, <2>3
<1>6. ASSUME run.open PROVE HomeAt(Fresh, FreshDates, watch.hour, run.hour)
  <2> DEFINE a == watch.hour - run.hour
             i == Back(hours, a)
  <2>1. HomeAt(hours, expires, watch.hour, run.hour) BY <1>1, <1>6
  <2>2. ASSUME a \in 1..Completed PROVE FreshDates[i] = DateOf(run.hour) \/ Bygone(run.hour)
    <3>1. expires[i] = DateOf(run.hour) \/ Bygone(run.hour) BY <2>1, <2>2 DEF HomeAt
    <3>2. watch.hour \in Int /\ run.hour \in Int BY <1>1 DEF SinceBoot, Never
    <3>3. watch.hour - a = run.hour BY <3>2
    <3>4. DateOf(run.hour) # 0 BY <1>1, DatesDiffer
    <3> HIDE DEF a
    <3>5. i \in Ring /\ (expires[i] # 0 /\ Expired(i) => Bygone(run.hour)) BY <2>2, <3>3, ExpiredIs
    <3>6. FreshDates[i] = IF Expired(i) THEN 0 ELSE expires[i] BY <3>5 DEF FreshDates
    <3> QED BY <3>1, <3>4, <3>5, <3>6
  <2> QED BY <1>2, <2>1, <2>2 DEF HomeAt
<1> QED BY <1>3, <1>5, <1>6

(* When no hour is open, or the open one is over, nothing is recent.        *)
LEMMA NoneLeft ==
  ASSUME CheckupIInv, ~wipe, watch.hour = Never \/ OpenExpired, NEW h \in AllHours
  PROVE  ledger[h] = NoEvents \/ Bygone(h)
<1>1. AbsentAt(hours, watch.hour, ledger) BY DEF CheckupIInv
<1>2. watch.hour = Never \/ h > watch.hour => ledger[h] = NoEvents \/ Bygone(h) BY <1>1 DEF AbsentAt
<1>3. h \in Nat /\ uptime \in Nat BY CheckupAssumption DEF AllHours, CheckupIInv, CheckupShape
<1>4. watch.hour # Never => watch.hour \in Nat
  BY DEF CheckupIInv, CheckupShape, WatchRecords, SinceBoot
<1>5. ASSUME watch.hour # Never, h =< watch.hour PROVE Bygone(h)
  <2>1. Bygone(watch.hour) BY <1>5 DEF OpenExpired, Bygone, DateOf
  <2>2. HourOf(uptime) >= (watch.hour + Completed) + 1 BY <1>3, <1>4, <1>5, <2>1, GoneByHour DEF Bygone
  <2>3. HourOf(uptime) >= (h + Completed) + 1
    BY <1>3, <1>4, <1>5, <2>2, HourBounds, CheckupAssumption
  <2> QED BY <1>3, <2>3, GoneByHour DEF Bygone
<1> QED BY <1>2, <1>3, <1>4, <1>5

LEMMA ReportsIInv == ASSUME CheckupIInv, Reports PROVE CheckupIInv'
<1>1. /\ ~wipe /\ uptime' = uptime /\ wipe' = wipe /\ resets' = resets /\ ledger' = ledger
      /\ hours' = Fresh /\ expires' = FreshDates
  BY DEF Reports, FreshDates
<1>2. Fresh \in Rings /\ FreshDates \in [Ring -> Nat] BY FreshIs
<1>3. /\ uptime \in 0..LastTick /\ uptime \in Nat /\ watch.hour \in SinceBoot
      /\ watch \in WatchRecords /\ run \in RunRecords /\ story \in StoryRecords /\ tape \in TapeRecords
  BY CheckupAssumption DEF CheckupIInv, CheckupShape, WatchRecords
<1>4. WipedInv' BY <1>1 DEF WipedInv
<1>5. CASE OpenExpired
  <2>1. watch' = NoWatch /\ run' = NoRun /\ story' = NoStory /\ tape' = NoTape BY <1>5 DEF Reports
  <2>2. CheckupShape' BY <1>1, <1>2, <1>3, <2>1, BlankFacts DEF CheckupIInv, CheckupShape
  <2>3. SampleInv' BY <2>1, BlankFacts DEF SampleInv
  <2>4. OpenRunAt(run, story, watch)' /\ PureRunAt(run, story, watch)' /\ PerfectRunAt(run, story, watch)'
        /\ ~run'.open
    BY <2>1, BlankFacts DEF Matches
  <2>5. watch'.hour = Never BY <2>1, BlankFacts
  <2>6. RingAt(hours, expires, watch.hour)' BY <1>1, <1>5, <2>5, FreshRing
  <2>7. AgreeAt(hours, watch.hour, ledger)' BY <2>5 DEF AgreeAt
  <2>8. \A h \in AllHours : ledger[h] = NoEvents \/ Bygone(h) BY <1>1, <1>5, NoneLeft
  <2>9. AbsentAt(hours, watch.hour, ledger)' BY <1>1, <2>8 DEF AbsentAt, Bygone
  <2> QED BY <1>4, <2>2, <2>3, <2>4, <2>6, <2>7, <2>9 DEF CheckupIInv
<1>6. CASE ~OpenExpired
  <2>1. UNCHANGED <<watch, run, story, tape>> BY <1>6 DEF Reports
  <2>2. CheckupShape' BY <1>1, <1>2, <1>3, <2>1 DEF CheckupIInv, CheckupShape
  <2>3. SampleInv' BY <1>1, <2>1 DEF CheckupIInv, SampleInv
  <2>4. OpenRunAt(run, story, watch)' /\ PureRunAt(run, story, watch)' /\ PerfectRunAt(run, story, watch)'
    BY <1>1, <2>1 DEF CheckupIInv
  <2>5. RingAt(hours, expires, watch.hour)' BY <1>1, <1>6, <2>1, FreshRing
  <2>6. /\ AgreeAt(Fresh, watch.hour, ledger) /\ AbsentAt(Fresh, watch.hour, ledger)
        /\ run.open => HomeAt(Fresh, FreshDates, watch.hour, run.hour)
    BY <1>1, <1>6, FreshAgrees
  <2>7. AgreeAt(hours, watch.hour, ledger)' BY <1>1, <2>1, <2>6 DEF AgreeAt, Bygone
  <2>8. AbsentAt(hours, watch.hour, ledger)' BY <1>1, <2>1, <2>6 DEF AbsentAt, Bygone
  <2>9. run'.open => HomeAt(hours, expires, watch.hour, run.hour)'
    BY <1>1, <2>1, <2>6 DEF HomeAt, Bygone
  <2> QED BY <1>4, <2>2, <2>3, <2>4, <2>5, <2>7, <2>8, <2>9 DEF CheckupIInv
<1> QED BY <1>5, <1>6

LEMMA AsksResetIInv == ASSUME CheckupIInv, AsksReset PROVE CheckupIInv'
<1>1. /\ wipe' = TRUE /\ resets' = resets + 1 /\ resets < MaxResets /\ resets \in 0..MaxResets
      /\ ledger' = NoLedger /\ story' = NoStory /\ tape' = NoTape
      /\ UNCHANGED <<uptime, watch, run, hours, expires>>
  BY DEF AsksReset, LedgerCleared, NoLedger, CheckupIInv, CheckupShape
<1>2. resets' \in 0..MaxResets BY <1>1, CheckupAssumption
<1>3. CheckupShape' BY <1>1, <1>2, BlankFacts DEF CheckupIInv, CheckupShape
<1>4. WipedInv' BY <1>1 DEF WipedInv, NoLedger
<1>5. RingAt(hours, expires, watch.hour)' BY <1>1 DEF CheckupIInv
<1> QED BY <1>1, <1>3, <1>4, <1>5 DEF CheckupIInv

LEMMA ConsentIInv == ASSUME CheckupIInv, ConsentChanges PROVE CheckupIInv'
<1>1. /\ wipe' = FALSE /\ resets' = resets + 1 /\ resets < MaxResets /\ resets \in 0..MaxResets
      /\ ledger' = NoLedger /\ story' = NoStory /\ tape' = NoTape
      /\ uptime' = uptime /\ uptime \in 0..LastTick /\ Emptied
  BY DEF ConsentChanges, LedgerCleared, NoLedger, CheckupIInv, CheckupShape
<1>2. resets' \in 0..MaxResets BY <1>1, CheckupAssumption
<1> QED BY <1>1, <1>2, EmptiedIInv

LEMMA CheckupNextIInv == ASSUME CheckupIInv, [CheckupNext]_checkupVars PROVE CheckupIInv'
<1>1. CASE Passes BY <1>1, PassesIInv
<1>2. ASSUME NEW s \in Sights, Record(s) PROVE CheckupIInv'
  BY <1>2, RecordWipesIInv, RecordSamplesIInv
<1>3. CASE Reports BY <1>3, ReportsIInv
<1>4. CASE AsksReset BY <1>4, AsksResetIInv
<1>5. CASE ConsentChanges BY <1>5, ConsentIInv
<1>6. CASE UNCHANGED checkupVars
  BY <1>6 DEF checkupVars, ghosts, CheckupIInv, CheckupShape, WipedInv, RingAt, SampleInv, OpenRunAt,
    PureRunAt, PerfectRunAt, HomeAt, AbsentAt, AgreeAt, Bygone
<1> QED BY <1>1, <1>2, <1>3, <1>4, <1>5, <1>6 DEF CheckupNext

(* Checkup, whatever its constants: what the ring and the open run keep     *)
(* agrees with the account of what the samples showed, slot by slot, and    *)
(* what has no date is empty (checkup_record, checkup_report).              *)
THEOREM CheckupInductive == CheckupSpec => []CheckupIInv
<1>1. CheckupInit => CheckupIInv BY CheckupInitIInv
<1>2. CheckupIInv /\ [CheckupNext]_checkupVars => CheckupIInv' BY CheckupNextIInv
<1> QED BY <1>1, <1>2, PTL DEF CheckupSpec

-----------------------------------------------------------------------------
(* The hours one by one *)

(* What a reset is pending for has its types as well.                       *)
HeldInv ==
  /\ watch.hour \in {Never} \cup AllHours
  /\ run.pure => run.open /\ run.class \in Classes

LEMMA SampledHeld == ASSUME CheckupIInv, ~wipe PROVE HeldInv
<1>1. watch.hour \in {Never} \cup AllHours
  <2>1. watch.hour # Never => watch.hour \in Nat /\ watch.hour =< HourOf(uptime) BY IInvRuns
  <2>2. HourOf(uptime) \in 0..HourOf(LastTick) BY IInvRuns DEF AllHours
  <2>3. HourOf(LastTick) \in Nat BY HourBounds, CheckupAssumption
  <2> QED BY <2>1, <2>2, <2>3 DEF AllHours
<1>2. run.pure => run.open /\ run.class \in Classes
  BY DEF CheckupIInv, OpenRunAt, PureRunAt
<1> QED BY <1>1, <1>2 DEF HeldInv

LEMMA NextHeld ==
  ASSUME CheckupIInv, HeldInv, [CheckupNext]_checkupVars, wipe'
  PROVE  HeldInv'
<1>1. watch' = watch /\ run' = run
  <2>1. ASSUME NEW s \in Sights, Record(s) PROVE FALSE BY <2>1 DEF Record
  <2>2. CASE Passes BY <2>2 DEF Passes
  <2>3. CASE AsksReset BY <2>3 DEF AsksReset
  <2>4. CASE UNCHANGED checkupVars BY <2>4 DEF checkupVars
  <2>5. ~Reports /\ ~ConsentChanges BY DEF Reports, ConsentChanges
  <2> QED BY <2>1, <2>2, <2>3, <2>4, <2>5 DEF CheckupNext
<1> QED BY <1>1 DEF HeldInv

LEMMA CheckupHeld == CheckupSpec => [](CheckupIInv /\ HeldInv)
<1>1. CheckupInit => HeldInv BY DEF CheckupInit, HeldInv, NoWatch, NoRun
<1>2. CheckupIInv /\ ~wipe => HeldInv BY SampledHeld
<1>3. CheckupIInv /\ HeldInv /\ [CheckupNext]_checkupVars /\ wipe' => HeldInv' BY NextHeld
<1> QED BY <1>1, <1>2, <1>3, CheckupInductive, PTL DEF CheckupSpec

LEMMA TypesHold == ASSUME CheckupIInv, HeldInv PROVE CheckupTypeOK
<1>1. CheckupShape BY DEF CheckupIInv
<1>2. \A i \in Ring : DOMAIN hours.slot[i] = DOMAIN EmptyHour
  <2>1. hours.slot \in [Ring -> HourRecords] BY <1>1 DEF CheckupShape, Rings
  <2> QED BY <2>1 DEF HourRecords
<1>3. watch.rps \in {"on", "off", "blind"} BY <1>1 DEF CheckupShape, WatchRecords, RpsReadings
<1>4. hours.count \in 0..Completed /\ hours.head \in Ring BY <1>1 DEF CheckupShape, Rings
<1>5. run.open \in BOOLEAN BY <1>1 DEF CheckupShape, RunRecords
<1> QED BY <1>1, <1>2, <1>3, <1>4, <1>5 DEF CheckupShape, CheckupTypeOK, HeldInv

LEMMA EachHourAgrees == ASSUME CheckupIInv PROVE HoursAgree
<1> SUFFICES ASSUME ~wipe, watch.hour # Never, NEW h \in AllHours, h =< watch.hour,
                    Held(hours, h, watch.hour)
             PROVE  \/ Agrees(Kept(h), ledger[h])
                    \/ uptime >= h * HourTicks + Window /\ Kept(h) = EmptyHour
  BY DEF HoursAgree
<1>1. hours \in Rings /\ watch.hour \in Int /\ h \in Int /\ AgreeAt(hours, watch.hour, ledger)
  BY DEF CheckupIInv, CheckupShape, WatchRecords, SinceBoot, Never, AllHours
<1>2. Kept(h) = PlaceOf(hours, h, watch.hour)
  <2>1. SlotOf(hours, h, watch.hour) = Back(hours, watch.hour - h) BY <1>1, SlotIsBack
  <2> QED BY <2>1 DEF Kept, PlaceOf
<1>3. h =< watch.hour /\ watch.hour - h =< hours.count BY DEF Held
<1> QED BY <1>1, <1>2, <1>3 DEF AgreeAt, Bygone, DateOf

-----------------------------------------------------------------------------
(* Folds over a finite set *)

PickOf(s) == CHOOSE x \in s : TRUE

(* An operation that may be applied in any order, and a table of its folds  *)
(* as the community modules compute them: one element at a time.            *)
AnyOrder(op, D) ==
  /\ op \in [D -> [D -> D]]
  /\ \A a, b, c \in D : op[a][op[b][c]] = op[b][op[a][c]]
FoldStep(op, base, fun, it, t) ==
  IF t = {} THEN base ELSE op[fun[PickOf(t)]][it[t \ {PickOf(t)}]]
FoldTable(op, D, base, fun, S, it) ==
  /\ it[{}] = base
  /\ \A t \in SUBSET S : t # {} /\ it[t \ {PickOf(t)}] \in D => it[t] = FoldStep(op, base, fun, it, t)

LEMMA OpIn == ASSUME NEW D, NEW op, AnyOrder(op, D), NEW a \in D, NEW b \in D PROVE op[a][b] \in D
<1>1. op[a] \in [D -> D] BY DEF AnyOrder
<1> QED BY <1>1

LEMMA PickIs == ASSUME NEW s, s # {} PROVE PickOf(s) \in s
BY DEF PickOf

LEMMA SmallerSet ==
  ASSUME NEW s, IsFiniteSet(s), NEW x \in s
  PROVE  /\ IsFiniteSet(s \ {x}) /\ Cardinality(s) \in Nat \ {0}
         /\ Cardinality(s \ {x}) = Cardinality(s) - 1
<1>1. IsFiniteSet(s \ {x}) /\ Cardinality(s \ {x}) = Cardinality(s) - 1 /\ Cardinality(s) \in Nat
  BY FS_RemoveElement, FS_CardinalityType
<1>2. Cardinality(s) # 0 BY FS_EmptySet
<1> QED BY <1>1, <1>2

(* Whatever element is taken first, the fold is the same.                   *)
FoldsSmall(op, D, fun, S, it, n) ==
  \A s \in SUBSET S : Cardinality(s) = n =>
    it[s] \in D /\ \A x \in s : it[s] = op[fun[x]][it[s \ {x}]]

LEMMA FoldExchange ==
  ASSUME NEW D, NEW op, AnyOrder(op, D), NEW S, IsFiniteSet(S), NEW fun, \A x \in S : fun[x] \in D, NEW base \in D,
         NEW it, FoldTable(op, D, base, fun, S, it)
  PROVE  \A s \in SUBSET S : it[s] \in D /\ \A x \in s : it[s] = op[fun[x]][it[s \ {x}]]
<1> DEFINE T == {n \in Nat : ~FoldsSmall(op, D, fun, S, it, n)}
<1>1. \A s \in SUBSET S : IsFiniteSet(s) /\ Cardinality(s) \in Nat BY FS_Subset, FS_CardinalityType
<1>2. ASSUME NEW m \in T, \A y \in T : m =< y PROVE FALSE
  <2>1. m \in Nat /\ ~FoldsSmall(op, D, fun, S, it, m) OBVIOUS
  <2>2. m # 0 => m - 1 \notin T BY <1>2, <2>1
  <2>3. m # 0 => FoldsSmall(op, D, fun, S, it, m - 1) BY <2>1, <2>2
  <2> HIDE DEF T
  <2>4. PICK s \in SUBSET S : /\ Cardinality(s) = m
                              /\ ~ (it[s] \in D /\ \A x \in s : it[s] = op[fun[x]][it[s \ {x}]])
    BY <2>1 DEF FoldsSmall
  <2>5. s # {}
    <3>1. it[{}] \in D BY DEF FoldTable
    <3> QED BY <2>4, <3>1
  <2> DEFINE p == PickOf(s)
  <2>6. p \in s BY <2>5, PickIs
  <2>7. \A x \in s : Cardinality(s \ {x}) = m - 1 /\ m # 0
    <3> TAKE x \in s
    <3> QED BY <1>1, <2>4, SmallerSet
  <2>8. FoldsSmall(op, D, fun, S, it, m - 1) BY <2>3, <2>6, <2>7
  <2>9. \A x \in s : /\ fun[x] \in D /\ it[s \ {x}] \in D
                     /\ \A y \in s \ {x} : it[s \ {x}] = op[fun[y]][it[(s \ {x}) \ {y}]]
    <3> TAKE x \in s
    <3>1. s \ {x} \in SUBSET S /\ Cardinality(s \ {x}) = m - 1 /\ fun[x] \in D BY <2>7
    <3> QED BY <2>8, <3>1 DEF FoldsSmall
  <2>10. it[s] = op[fun[p]][it[s \ {p}]]
    <3>1. it[s \ {p}] \in D BY <2>6, <2>9
    <3> QED BY <2>5, <3>1 DEF FoldTable, FoldStep
  <2> HIDE DEF p
  <2>11. it[s] \in D
    <3>1. fun[p] \in D /\ it[s \ {p}] \in D BY <2>6, <2>9
    <3> QED BY <2>10, <3>1, OpIn
  <2>12. ASSUME NEW x \in s PROVE it[s] = op[fun[x]][it[s \ {x}]]
    <3>1. CASE x = p BY <2>10, <3>1
    <3>2. CASE x # p
      <4> DEFINE i == it[(s \ {p}) \ {x}]
      <4>1. (s \ {p}) \ {x} = (s \ {x}) \ {p} OBVIOUS
      <4>2. x \in s \ {p} /\ p \in s \ {x} BY <2>6, <3>2
      <4>3. it[s \ {p}] = op[fun[x]][i] BY <2>6, <2>9, <4>2
      <4>4. it[s \ {x}] = op[fun[p]][i] BY <2>9, <4>1, <4>2
      <4>5. i \in D
        <5>1. (s \ {p}) \ {x} \in SUBSET S OBVIOUS
        <5>2. IsFiniteSet(s \ {p}) /\ Cardinality(s \ {p}) = m - 1 BY <1>1, <2>6, <2>7
        <5>3. Cardinality((s \ {p}) \ {x}) = m - 2 /\ m - 1 \in Nat \ {0}
          BY <2>1, <4>2, <5>2, SmallerSet
        <5>4. m - 2 \in Nat /\ m - 2 < m BY <2>1, <5>3
        <5>5. m - 2 \notin T BY <1>2, <2>1, <5>4
        <5>6. FoldsSmall(op, D, fun, S, it, m - 2) BY <5>4, <5>5 DEF T
        <5> QED BY <5>1, <5>3, <5>6 DEF FoldsSmall
      <4> HIDE DEF i
      <4>6. fun[x] \in D /\ fun[p] \in D BY <2>6, <2>9
      <4>7. op[fun[p]][op[fun[x]][i]] = op[fun[x]][op[fun[p]][i]] BY <4>5, <4>6 DEF AnyOrder
      <4> QED BY <2>10, <4>3, <4>4, <4>7
    <3> QED BY <3>1, <3>2
  <2> QED BY <2>4, <2>11, <2>12
<1>3. T = {}
  <2> SUFFICES ASSUME T # {} PROVE FALSE OBVIOUS
  <2>1. T \subseteq Nat OBVIOUS
  <2> HIDE DEF T
  <2>2. PICK m \in T : \A y \in T : m =< y BY <2>1, LeastOf
  <2> QED BY <1>2, <2>2
<1>4. \A s \in SUBSET S : FoldsSmall(op, D, fun, S, it, Cardinality(s)) BY <1>1, <1>3
<1> QED BY <1>4 DEF FoldsSmall

(* The table exists: one that is right for the small sets gives one that is *)
(* right for the next size.                                                 *)
FoldedUpTo(op, D, base, fun, S, it, n) ==
  \A t \in SUBSET S : Cardinality(t) < n => it[t] = FoldStep(op, base, fun, it, t)

WholeTable(op, D, base, fun, S, it) ==
  it \in [SUBSET S -> D] /\ \A t \in SUBSET S : it[t] = FoldStep(op, base, fun, it, t)

LEMMA FoldExists ==
  ASSUME NEW D, NEW op, AnyOrder(op, D), NEW S, IsFiniteSet(S), NEW fun, \A x \in S : fun[x] \in D, NEW base \in D
  PROVE  \E it : WholeTable(op, D, base, fun, S, it)
<1> DEFINE P(n) == \E it \in [SUBSET S -> D] : FoldedUpTo(op, D, base, fun, S, it, n)
           T == {n \in Nat : ~P(n)}
<1>1. \A s \in SUBSET S : IsFiniteSet(s) /\ Cardinality(s) \in Nat BY FS_Subset, FS_CardinalityType
<1>2. P(0)
  <2> DEFINE it == [t \in SUBSET S |-> base]
  <2>1. it \in [SUBSET S -> D] OBVIOUS
  <2>2. FoldedUpTo(op, D, base, fun, S, it, 0) BY <1>1 DEF FoldedUpTo
  <2> HIDE DEF it
  <2> QED BY <2>1, <2>2
<1>3. ASSUME NEW n \in Nat, P(n) PROVE P(n + 1)
  <2>1. PICK it \in [SUBSET S -> D] : FoldedUpTo(op, D, base, fun, S, it, n) BY <1>3
  <2> DEFINE jt == [t \in SUBSET S |-> FoldStep(op, base, fun, it, t)]
  <2>2. ASSUME NEW t \in SUBSET S PROVE FoldStep(op, base, fun, it, t) \in D
    <3>1. CASE t = {} BY <3>1 DEF FoldStep
    <3>2. CASE t # {}
      <4>1. PickOf(t) \in t BY <3>2, PickIs
      <4>2. fun[PickOf(t)] \in D /\ it[t \ {PickOf(t)}] \in D BY <4>1
      <4>3. op[fun[PickOf(t)]][it[t \ {PickOf(t)}]] \in D BY <4>2, OpIn
      <4> QED BY <3>2, <4>3 DEF FoldStep
    <3> QED BY <3>1, <3>2
  <2>3. jt \in [SUBSET S -> D] BY <2>2
  <2>4. ASSUME NEW t \in SUBSET S, Cardinality(t) < n + 1 PROVE jt[t] = FoldStep(op, base, fun, jt, t)
    <3>1. jt[t] = FoldStep(op, base, fun, it, t) OBVIOUS
    <3>2. CASE t = {} BY <3>1, <3>2 DEF FoldStep
    <3>3. CASE t # {}
      <4> DEFINE u == t \ {PickOf(t)}
      <4>1. PickOf(t) \in t BY <3>3, PickIs
      <4>2. IsFiniteSet(t) /\ u \in SUBSET S BY <1>1
      <4>3. Cardinality(u) < n
        <5>1. Cardinality(t) \in Nat \ {0} /\ Cardinality(u) = Cardinality(t) - 1
          BY <4>1, <4>2, SmallerSet
        <5>2. Cardinality(t) < n + 1 /\ n \in Nat BY <1>3, <2>4
        <5> QED BY <5>1, <5>2
      <4>4. it[u] = jt[u] BY <2>1, <4>2, <4>3 DEF FoldedUpTo
      <4> HIDE DEF jt
      <4> QED BY <3>1, <3>3, <4>4 DEF FoldStep
    <3> QED BY <3>2, <3>3
  <2>5. FoldedUpTo(op, D, base, fun, S, jt, n + 1)
    <3> HIDE DEF jt
    <3> QED BY <2>4 DEF FoldedUpTo
  <2> HIDE DEF jt
  <2> QED BY <2>3, <2>5
<1> HIDE DEF P
<1>4. T = {}
  <2> SUFFICES ASSUME T # {} PROVE FALSE OBVIOUS
  <2>1. T \subseteq Nat OBVIOUS
  <2> HIDE DEF T
  <2>2. PICK m \in T : \A y \in T : m =< y BY <2>1, LeastOf
  <2>3. m \in Nat /\ ~P(m) BY <2>2 DEF T
  <2>4. m # 0 BY <1>2, <2>3
  <2>5. m - 1 \in Nat /\ m - 1 < m /\ (m - 1) + 1 = m BY <2>3, <2>4
  <2>6. m - 1 \notin T BY <2>2, <2>3, <2>5
  <2>7. P(m - 1) BY <2>5, <2>6 DEF T
  <2>8. P((m - 1) + 1) BY <1>3, <2>5, <2>7
  <2> QED BY <2>3, <2>5, <2>8
<1>5. Cardinality(S) + 1 \in Nat BY <1>1
<1>6. P(Cardinality(S) + 1) BY <1>4, <1>5
<1>7. PICK it \in [SUBSET S -> D] : FoldedUpTo(op, D, base, fun, S, it, Cardinality(S) + 1)
  BY <1>6 DEF P
<1>8. ASSUME NEW t \in SUBSET S PROVE it[t] = FoldStep(op, base, fun, it, t)
  <2>1. Cardinality(t) =< Cardinality(S) /\ Cardinality(t) \in Nat /\ Cardinality(S) \in Nat
    BY <1>1, FS_Subset
  <2>2. Cardinality(t) < Cardinality(S) + 1 BY <2>1
  <2> QED BY <1>7, <2>2 DEF FoldedUpTo
<1> QED BY <1>7, <1>8 DEF WholeTable

-----------------------------------------------------------------------------
(* The sums of a report *)

Joined(a, b) ==
  [seen |-> a.seen + b.seen, ran |-> a.ran + b.ran, starts |-> a.starts + b.starts,
   ended |-> a.ended + b.ended, secs |-> a.secs + b.secs,
   perfect |-> [c \in Classes |-> a.perfect[c] + b.perfect[c]],
   sound |-> [c \in Classes |-> a.sound[c] + b.sound[c]]]

LEMMA SummedIs ==
  ASSUME NEW a \in HourRecords, NEW b \in HourRecords
  PROVE  Summed(a, b) \in HourRecords /\ \A f \in DOMAIN EmptyHour : Summed(a, b)[f] = a[f] + b[f]
<1>1. \A f \in DOMAIN EmptyHour : a[f] + b[f] \in Nat BY DEF HourRecords
<1> QED BY <1>1 DEF Summed, HourRecords

LEMMA SummedSwaps ==
  ASSUME NEW a \in HourRecords, NEW b \in HourRecords, NEW c \in HourRecords
  PROVE  Summed(a, Summed(b, c)) = Summed(b, Summed(a, c))
<1>1. Summed(b, c) \in HourRecords /\ Summed(a, c) \in HourRecords BY SummedIs
<1>2. \A f \in DOMAIN EmptyHour : Summed(a, Summed(b, c))[f] = Summed(b, Summed(a, c))[f]
  <2> TAKE f \in DOMAIN EmptyHour
  <2>1. a[f] \in Nat /\ b[f] \in Nat /\ c[f] \in Nat BY DEF HourRecords
  <2>2. Summed(a, Summed(b, c))[f] = a[f] + (b[f] + c[f]) BY <1>1, SummedIs
  <2>3. Summed(b, Summed(a, c))[f] = b[f] + (a[f] + c[f]) BY <1>1, SummedIs
  <2> QED BY <2>1, <2>2, <2>3
<1>3. Summed(a, Summed(b, c)) \in HourRecords /\ Summed(b, Summed(a, c)) \in HourRecords
  BY <1>1, SummedIs
<1> QED BY <1>2, <1>3 DEF HourRecords

LEMMA JoinedIs ==
  ASSUME NEW a \in HourEntries, NEW b \in HourEntries
  PROVE  Joined(a, b) \in HourEntries
<1>1. /\ a.seen + b.seen \in Nat /\ a.ran + b.ran \in Nat /\ a.starts + b.starts \in Nat
      /\ a.ended + b.ended \in Nat /\ a.secs + b.secs \in Nat
  BY DEF HourEntries
<1>2. \A c \in Classes : a.perfect[c] + b.perfect[c] \in Nat /\ a.sound[c] + b.sound[c] \in Nat
  BY DEF HourEntries
<1>3. /\ [c \in Classes |-> a.perfect[c] + b.perfect[c]] \in [Classes -> Nat]
      /\ [c \in Classes |-> a.sound[c] + b.sound[c]] \in [Classes -> Nat]
  BY <1>2
<1> QED BY <1>1, <1>3 DEF Joined, HourEntries

LEMMA JoinedSwaps ==
  ASSUME NEW a \in HourEntries, NEW b \in HourEntries, NEW c \in HourEntries
  PROVE  Joined(a, Joined(b, c)) = Joined(b, Joined(a, c))
<1> DEFINE x == Joined(a, Joined(b, c))
           y == Joined(b, Joined(a, c))
<1>1. /\ a.seen \in Nat /\ a.ran \in Nat /\ a.starts \in Nat /\ a.ended \in Nat /\ a.secs \in Nat
      /\ b.seen \in Nat /\ b.ran \in Nat /\ b.starts \in Nat /\ b.ended \in Nat /\ b.secs \in Nat
      /\ c.seen \in Nat /\ c.ran \in Nat /\ c.starts \in Nat /\ c.ended \in Nat /\ c.secs \in Nat
  BY DEF HourEntries
<1>2. \A k \in Classes : /\ a.perfect[k] \in Nat /\ b.perfect[k] \in Nat /\ c.perfect[k] \in Nat
                         /\ a.sound[k] \in Nat /\ b.sound[k] \in Nat /\ c.sound[k] \in Nat
  BY DEF HourEntries
<1>3. x.seen = y.seen /\ x.ran = y.ran /\ x.starts = y.starts /\ x.ended = y.ended /\ x.secs = y.secs
  BY <1>1 DEF Joined
<1>4. x.perfect = y.perfect
  <2>1. x.perfect = [k \in Classes |-> a.perfect[k] + (b.perfect[k] + c.perfect[k])] BY DEF Joined
  <2>2. y.perfect = [k \in Classes |-> b.perfect[k] + (a.perfect[k] + c.perfect[k])] BY DEF Joined
  <2>3. \A k \in Classes : a.perfect[k] + (b.perfect[k] + c.perfect[k])
                           = b.perfect[k] + (a.perfect[k] + c.perfect[k])
    BY <1>2
  <2> HIDE DEF x, y
  <2> QED BY <2>1, <2>2, <2>3
<1>5. x.sound = y.sound
  <2>1. x.sound = [k \in Classes |-> a.sound[k] + (b.sound[k] + c.sound[k])] BY DEF Joined
  <2>2. y.sound = [k \in Classes |-> b.sound[k] + (a.sound[k] + c.sound[k])] BY DEF Joined
  <2>3. \A k \in Classes : a.sound[k] + (b.sound[k] + c.sound[k])
                           = b.sound[k] + (a.sound[k] + c.sound[k])
    BY <1>2
  <2> HIDE DEF x, y
  <2> QED BY <2>1, <2>2, <2>3
<1>6. x \in HourEntries /\ y \in HourEntries BY JoinedIs
<1> HIDE DEF x, y
<1>7. x = y BY <1>3, <1>4, <1>5, <1>6 DEF HourEntries
<1> QED BY <1>7 DEF x, y

LEMMA SumAgrees ==
  ASSUME NEW a \in HourRecords, NEW b \in HourRecords, NEW x \in HourEntries, NEW y \in HourEntries,
         Agrees(a, x), Agrees(b, y)
  PROVE  Agrees(Summed(a, b), Joined(x, y))
<1> DEFINE s == Summed(a, b)
           t == Joined(x, y)
<1>1. \A f \in DOMAIN EmptyHour : s[f] = a[f] + b[f] BY SummedIs
<1>2. /\ s.seen = a.seen + b.seen /\ s.ran = a.ran + b.ran /\ s.starts = a.starts + b.starts
      /\ s.space = a.space + b.space /\ s.dhw = a.dhw + b.dhw /\ s.cooling = a.cooling + b.cooling
      /\ s.cut = a.cut + b.cut /\ s.secs = a.secs + b.secs
  BY <1>1, EmptyRecord
<1>3. /\ t.seen = x.seen + y.seen /\ t.ran = x.ran + y.ran /\ t.starts = x.starts + y.starts
      /\ t.ended = x.ended + y.ended /\ t.secs = x.secs + y.secs
      /\ \A c \in Classes : t.perfect[c] = x.perfect[c] + y.perfect[c] /\ t.sound[c] = x.sound[c] + y.sound[c]
  BY DEF Joined
<1> HIDE DEF s, t
<1>4. /\ a.space \in Nat /\ a.dhw \in Nat /\ a.cooling \in Nat /\ a.cut \in Nat /\ a.secs \in Nat
      /\ b.space \in Nat /\ b.dhw \in Nat /\ b.cooling \in Nat /\ b.cut \in Nat /\ b.secs \in Nat
  BY EmptyRecord DEF HourRecords
<1>5. /\ x.ended \in Nat /\ y.ended \in Nat /\ x.secs \in Nat /\ y.secs \in Nat
      /\ \A c \in Classes : x.perfect[c] \in Nat /\ y.perfect[c] \in Nat /\ x.sound[c] \in Nat /\ y.sound[c] \in Nat
  BY DEF HourEntries
<1>6. t.seen = s.seen /\ t.ran = s.ran /\ t.starts = s.starts BY <1>2, <1>3 DEF Agrees
<1>7. s.space + s.dhw + s.cooling + s.cut = t.ended
  <2>1. a.space + a.dhw + a.cooling + a.cut = x.ended /\ b.space + b.dhw + b.cooling + b.cut = y.ended
    BY DEF Agrees
  <2> QED BY <1>2, <1>3, <1>4, <1>5, <2>1
<1>8. ASSUME NEW c \in Classes PROVE t.perfect[c] =< s[c] /\ s[c] =< t.sound[c]
  <2>1. s[c] = a[c] + b[c] /\ a[c] \in Nat /\ b[c] \in Nat
    <3>1. c \in DOMAIN EmptyHour BY EmptyRecord DEF Classes
    <3> QED BY <1>1, <3>1 DEF HourRecords
  <2>2. x.perfect[c] =< a[c] /\ a[c] =< x.sound[c] /\ y.perfect[c] =< b[c] /\ b[c] =< y.sound[c]
    BY DEF Agrees
  <2> QED BY <1>3, <1>5, <2>1, <2>2
<1>9. s.secs =< t.secs
  <2>1. a.secs =< x.secs /\ b.secs =< y.secs BY DEF Agrees
  <2> QED BY <1>2, <1>3, <1>4, <1>5, <2>1
<1>10. Agrees(s, t) BY <1>6, <1>7, <1>8, <1>9 DEF Agrees
<1> QED BY <1>10 DEF s, t

(* What a fold over a set is made of, element by element.                   *)
SumsOver(base, fun, S, it) ==
  it[{}] = base /\ \A s \in SUBSET S :
    it[s] \in HourRecords /\ \A x \in s : it[s] = Summed(fun[x], it[s \ {x}])
JoinsOver(fun, S, jt) ==
  jt[{}] = NoEvents /\ \A s \in SUBSET S :
    jt[s] \in HourEntries /\ \A x \in s : jt[s] = Joined(fun[x], jt[s \ {x}])

SumTable(base, fun, S, it) ==
  it = [t \in SUBSET S |-> IF t = {} THEN base ELSE Summed(fun[PickOf(t)], it[t \ {PickOf(t)}])]
JoinTable(fun, S, jt) ==
  jt = [t \in SUBSET S |-> IF t = {} THEN NoEvents ELSE Joined(fun[PickOf(t)], jt[t \ {PickOf(t)}])]

LEMMA SumsFold ==
  ASSUME NEW S, IsFiniteSet(S), NEW fun, \A x \in S : fun[x] \in HourRecords, NEW base \in HourRecords
  PROVE  \E it : SumsOver(base, fun, S, it) /\ FoldFunctionOnSet(Summed, base, fun, S) = it[S]
<1> DEFINE D == HourRecords
           op == [a \in D |-> [b \in D |-> Summed(a, b)]]
           jt == CHOOSE it : SumTable(base, fun, S, it)
<1>1. FoldFunctionOnSet(Summed, base, fun, S) = jt[S]
  BY DEF FoldFunctionOnSet, MapThenFoldSet, SumTable, PickOf
<1>2. \A a, b \in D : op[a][b] = Summed(a, b) OBVIOUS
<1>3. AnyOrder(op, D)
  <2>1. op \in [D -> [D -> D]] BY SummedIs
  <2>2. \A a, b, c \in D : op[a][op[b][c]] = op[b][op[a][c]]
    <3> TAKE a, b, c \in D
    <3>1. Summed(a, c) \in D /\ Summed(b, c) \in D BY SummedIs
    <3>2. op[a][op[b][c]] = Summed(a, Summed(b, c)) /\ op[b][op[a][c]] = Summed(b, Summed(a, c))
      BY <1>2, <3>1
    <3> QED BY <3>2, SummedSwaps
  <2> QED BY <2>1, <2>2 DEF AnyOrder
<1> HIDE DEF op, D
<1>0. (\A x \in S : fun[x] \in D) /\ base \in D BY DEF D
<1>4. PICK it : WholeTable(op, D, base, fun, S, it) BY <1>0, <1>3, FoldExists
<1>5. SumTable(base, fun, S, it)
  <2>1. \A t \in SUBSET S : it[t] = IF t = {} THEN base ELSE Summed(fun[PickOf(t)], it[t \ {PickOf(t)}])
    <3> TAKE t \in SUBSET S
    <3>1. t # {} => fun[PickOf(t)] \in D /\ it[t \ {PickOf(t)}] \in D
      BY <1>0, <1>4, PickIs DEF WholeTable
    <3> QED BY <1>2, <1>4, <3>1 DEF FoldStep, WholeTable
  <2>2. it = [t \in SUBSET S |-> it[t]] BY <1>4 DEF WholeTable
  <2> QED BY <2>1, <2>2 DEF SumTable
<1>6. SumTable(base, fun, S, jt) BY <1>5
<1> HIDE DEF jt
<1>7. /\ {} \in SUBSET S
      /\ \A t \in SUBSET S : jt[t] = IF t = {} THEN base ELSE Summed(fun[PickOf(t)], jt[t \ {PickOf(t)}])
  BY <1>6 DEF SumTable
<1>8. FoldTable(op, D, base, fun, S, jt)
  <2>1. ASSUME NEW t \in SUBSET S, t # {}, jt[t \ {PickOf(t)}] \in D
        PROVE  jt[t] = FoldStep(op, base, fun, jt, t)
    <3>1. fun[PickOf(t)] \in D BY <2>1, PickIs DEF D
    <3> QED BY <1>2, <1>7, <2>1, <3>1 DEF FoldStep
  <2> QED BY <1>7, <2>1 DEF FoldTable
<1>9. \A s \in SUBSET S : jt[s] \in D /\ \A x \in s : jt[s] = op[fun[x]][jt[s \ {x}]]
  BY <1>3, <1>8, FoldExchange DEF D
<1>10. SumsOver(base, fun, S, jt)
  <2>1. ASSUME NEW s \in SUBSET S, NEW x \in s PROVE jt[s] = Summed(fun[x], jt[s \ {x}])
    <3>1. fun[x] \in D /\ jt[s \ {x}] \in D BY <1>9 DEF D
    <3> QED BY <1>2, <1>9, <3>1
  <2> QED BY <1>7, <1>9, <2>1 DEF SumsOver, D
<1> QED BY <1>1, <1>10

LEMMA NoEventsIn == NoEvents \in HourEntries
BY DEF NoEvents, HourEntries, Classes

LEMMA JoinsFold ==
  ASSUME NEW S, IsFiniteSet(S), NEW fun, \A x \in S : fun[x] \in HourEntries
  PROVE  \E it : JoinsOver(fun, S, it) /\ FoldFunctionOnSet(Joined, NoEvents, fun, S) = it[S]
<1> DEFINE D == HourEntries
           op == [a \in D |-> [b \in D |-> Joined(a, b)]]
           jt == CHOOSE it : JoinTable(fun, S, it)
<1>1. FoldFunctionOnSet(Joined, NoEvents, fun, S) = jt[S]
  BY DEF FoldFunctionOnSet, MapThenFoldSet, JoinTable, PickOf
<1>2. \A a, b \in D : op[a][b] = Joined(a, b) OBVIOUS
<1>3. AnyOrder(op, D)
  <2>1. op \in [D -> [D -> D]] BY JoinedIs
  <2>2. \A a, b, c \in D : op[a][op[b][c]] = op[b][op[a][c]]
    <3> TAKE a, b, c \in D
    <3>1. Joined(a, c) \in D /\ Joined(b, c) \in D BY JoinedIs
    <3>2. op[a][op[b][c]] = Joined(a, Joined(b, c)) /\ op[b][op[a][c]] = Joined(b, Joined(a, c))
      BY <1>2, <3>1
    <3> QED BY <3>2, JoinedSwaps
  <2> QED BY <2>1, <2>2 DEF AnyOrder
<1> HIDE DEF op, D
<1>0. (\A x \in S : fun[x] \in D) /\ NoEvents \in D BY NoEventsIn DEF D
<1>4. PICK it : WholeTable(op, D, NoEvents, fun, S, it) BY <1>0, <1>3, FoldExists
<1>5. JoinTable(fun, S, it)
  <2>1. \A t \in SUBSET S : it[t] = IF t = {} THEN NoEvents ELSE Joined(fun[PickOf(t)], it[t \ {PickOf(t)}])
    <3> TAKE t \in SUBSET S
    <3>1. t # {} => fun[PickOf(t)] \in D /\ it[t \ {PickOf(t)}] \in D
      BY <1>0, <1>4, PickIs DEF WholeTable
    <3> QED BY <1>2, <1>4, <3>1 DEF FoldStep, WholeTable
  <2>2. it = [t \in SUBSET S |-> it[t]] BY <1>4 DEF WholeTable
  <2> QED BY <2>1, <2>2 DEF JoinTable
<1>6. JoinTable(fun, S, jt) BY <1>5
<1> HIDE DEF jt
<1>7. /\ {} \in SUBSET S
      /\ \A t \in SUBSET S : jt[t] = IF t = {} THEN NoEvents ELSE Joined(fun[PickOf(t)], jt[t \ {PickOf(t)}])
  BY <1>6 DEF JoinTable
<1>8. FoldTable(op, D, NoEvents, fun, S, jt)
  <2>1. ASSUME NEW t \in SUBSET S, t # {}, jt[t \ {PickOf(t)}] \in D
        PROVE  jt[t] = FoldStep(op, NoEvents, fun, jt, t)
    <3>1. fun[PickOf(t)] \in D BY <2>1, PickIs DEF D
    <3> QED BY <1>2, <1>7, <2>1, <3>1 DEF FoldStep
  <2> QED BY <1>7, <2>1 DEF FoldTable
<1>9. \A s \in SUBSET S : jt[s] \in D /\ \A x \in s : jt[s] = op[fun[x]][jt[s \ {x}]]
  BY <1>0, <1>3, <1>8, FoldExchange
<1>10. JoinsOver(fun, S, jt)
  <2>1. ASSUME NEW s \in SUBSET S, NEW x \in s PROVE jt[s] = Joined(fun[x], jt[s \ {x}])
    <3>1. fun[x] \in D /\ jt[s \ {x}] \in D BY <1>9 DEF D
    <3> QED BY <1>2, <1>9, <3>1
  <2> QED BY <1>7, <1>9, <2>1 DEF JoinsOver, D
<1> QED BY <1>1, <1>10

LEMMA EventsAre ==
  ASSUME NEW S \in SUBSET AllHours
  PROVE  EventsOf(S) = FoldFunctionOnSet(Joined, NoEvents, ledger, S)
BY DEF EventsOf, FoldFunctionOnSet, MapThenFoldSet, Joined

(* The ring r, whose open hour is w, adds up to the hours hs of an account  *)
(* l: what is kept of an hour of hs agrees with it, everything else kept is *)
(* empty, and nothing happened in an hour of hs that is not kept.           *)
AddsUp(r, w, l, hs) ==
  /\ r.count < Completed => r.head = r.count
  /\ \A a \in 1..r.count : IF w - a \in hs THEN Agrees(r.slot[Back(r, a)], l[w - a])
                           ELSE r.slot[Back(r, a)] = EmptyHour
  /\ IF w \in hs THEN Agrees(r.pending, l[w]) ELSE r.pending = EmptyHour
  /\ \A h \in hs : h > w \/ w - h > r.count => l[h] = NoEvents

KeptSlots(r) == IF r.count < Completed THEN 0..r.count - 1 ELSE Ring

LEMMA KeptAreBack ==
  ASSUME NEW r \in Rings, r.count < Completed => r.head = r.count
  PROVE  /\ KeptSlots(r) \subseteq Ring /\ IsFiniteSet(KeptSlots(r))
         /\ \A i \in KeptSlots(r) : \E a \in 1..r.count : i = Back(r, a)
         /\ \A a \in 1..r.count : Back(r, a) \in KeptSlots(r)
<1>1. Completed \in Nat \ {0} /\ r.count \in 0..Completed /\ r.head \in 0..Completed - 1
  BY CheckupAssumption DEF Rings, Ring
<1>2. CASE r.count < Completed
  <2>1. KeptSlots(r) = 0..r.count - 1 /\ r.head = r.count BY <1>2 DEF KeptSlots
  <2>2. \A a \in 1..r.count : Back(r, a) = r.count - a
    <3> TAKE a \in 1..r.count
    <3>1. a \in 1..Completed BY <1>1
    <3> QED BY <1>1, <2>1, <3>1, BackIs
  <2>3. ASSUME NEW i \in KeptSlots(r) PROVE \E a \in 1..r.count : i = Back(r, a)
    <3>1. r.count - i \in 1..r.count /\ r.count - (r.count - i) = i BY <1>1, <2>1
    <3> QED BY <2>2, <3>1
  <2>4. IsFiniteSet(0..r.count - 1)
    <3>1. 0 \in Int /\ r.count - 1 \in Int BY <1>1
    <3> QED BY <3>1, FS_Interval
  <2> QED BY <1>1, <2>1, <2>2, <2>3, <2>4 DEF Ring
<1>3. CASE r.count = Completed
  <2>1. KeptSlots(r) = Ring BY <1>1, <1>3 DEF KeptSlots
  <2>2. IsFiniteSet(0..Completed - 1) BY <1>1, FS_Interval
  <2> QED BY <1>3, <2>1, <2>2, BackIs, BackAll DEF Ring
<1> QED BY <1>1, <1>2, <1>3

(* The slots of the hours before n, and the hours of hs before n and the    *)
(* open one.                                                                *)
SlotsBefore(r, w, n) == {Back(r, a) : a \in {b \in 1..r.count : w - b < n}}
HoursBefore(hs, w, n) == {h \in hs : h = w \/ h < n}

LEMMA EmptySums ==
  ASSUME NEW b \in HourRecords, NEW e \in HourEntries
  PROVE  Summed(EmptyHour, b) = b /\ Joined(NoEvents, e) = e /\ Joined(e, NoEvents) = e
<1>1. Summed(EmptyHour, b) = b
  <2>1. \A f \in DOMAIN EmptyHour : EmptyHour[f] = 0
    <3> TAKE f \in DOMAIN EmptyHour
    <3> QED BY EmptyRecord DEF EmptyHour
  <2>2. \A f \in DOMAIN EmptyHour : Summed(EmptyHour, b)[f] = b[f]
    <3> TAKE f \in DOMAIN EmptyHour
    <3>1. b[f] \in Nat BY DEF HourRecords
    <3> QED BY <2>1, <3>1, EmptyRecord, SummedIs
  <2>3. Summed(EmptyHour, b) \in HourRecords BY EmptyRecord, SummedIs
  <2> QED BY <2>2, <2>3 DEF HourRecords
<1> DEFINE z == [c \in Classes |-> 0]
<1>2. /\ e.seen \in Nat /\ e.ran \in Nat /\ e.starts \in Nat /\ e.ended \in Nat /\ e.secs \in Nat
      /\ e.perfect \in [Classes -> Nat] /\ e.sound \in [Classes -> Nat]
      /\ e = [seen |-> e.seen, ran |-> e.ran, starts |-> e.starts, ended |-> e.ended, secs |-> e.secs,
              perfect |-> e.perfect, sound |-> e.sound]
  BY DEF HourEntries
<1>3. /\ NoEvents.seen = 0 /\ NoEvents.ran = 0 /\ NoEvents.starts = 0 /\ NoEvents.ended = 0
      /\ NoEvents.secs = 0 /\ NoEvents.perfect = z /\ NoEvents.sound = z
  BY DEF NoEvents
<1>4. /\ [c \in Classes |-> z[c] + e.perfect[c]] = e.perfect
      /\ [c \in Classes |-> e.perfect[c] + z[c]] = e.perfect
      /\ [c \in Classes |-> z[c] + e.sound[c]] = e.sound
      /\ [c \in Classes |-> e.sound[c] + z[c]] = e.sound
  BY <1>2
<1> HIDE DEF z
<1>5. /\ Joined(NoEvents, e) = e
  BY <1>2, <1>3, <1>4 DEF Joined
<1>6. /\ Joined(e, NoEvents) = e
  BY <1>2, <1>3, <1>4 DEF Joined
<1> QED BY <1>1, <1>5, <1>6

LEMMA NextHourAdds ==
  ASSUME NEW r \in Rings, NEW w \in Nat, NEW l \in [AllHours -> HourEntries], NEW hs \in SUBSET AllHours,
         AddsUp(r, w, l, hs),
         NEW it, SumsOver(r.pending, r.slot, KeptSlots(r), it), NEW jt, JoinsOver(l, hs, jt),
         NEW n \in Int, Agrees(it[SlotsBefore(r, w, n)], jt[HoursBefore(hs, w, n)])
  PROVE  Agrees(it[SlotsBefore(r, w, n + 1)], jt[HoursBefore(hs, w, n + 1)])
<1> DEFINE a == w - n
           x == Back(r, a)
           S == SlotsBefore(r, w, n)
           T == SlotsBefore(r, w, n + 1)
           G == HoursBefore(hs, w, n)
           H == HoursBefore(hs, w, n + 1)
<1>1. Completed \in Nat \ {0} /\ r.count \in 0..Completed /\ r.slot \in [Ring -> HourRecords]
  BY CheckupAssumption DEF Rings
<1>2. hs \subseteq Nat BY DEF AllHours
<1>3. \A b \in 1..r.count : b \in 1..Completed /\ Back(r, b) \in KeptSlots(r)
  BY <1>1, KeptAreBack DEF AddsUp
<1>4. S \in SUBSET KeptSlots(r) /\ T \in SUBSET KeptSlots(r) BY <1>3 DEF SlotsBefore
<1>5. G \in SUBSET hs /\ H \in SUBSET hs BY DEF HoursBefore
<1>6. it[S] \in HourRecords /\ it[T] \in HourRecords BY <1>4 DEF SumsOver
<1>7. jt[G] \in HourEntries /\ jt[H] \in HourEntries BY <1>5 DEF JoinsOver
<1>10. \A h \in hs : h < n + 1 <=> h < n \/ h = n
  <2> TAKE h \in hs
  <2>1. h \in Int BY <1>2
  <2> QED BY <2>1
<1>8. CASE n \in hs /\ n # w
  <2>1. n \in H /\ n \notin G /\ H \ {n} = G
    <3>1. n < n + 1 /\ ~ (n < n) OBVIOUS
    <3>2. n \in H BY <1>8, <3>1 DEF HoursBefore
    <3>3. n \notin G BY <1>8, <3>1 DEF HoursBefore
    <3>4. H \ {n} = G BY <1>8, <1>10, <3>3, Zenon DEF HoursBefore
    <3> QED BY <3>2, <3>3, <3>4
  <2>2. jt[H] = Joined(l[n], jt[G]) BY <1>5, <2>1 DEF JoinsOver
  <2>3. l[n] \in HourEntries BY <1>8
  <2>4. CASE a \in 1..r.count
    <3>1. x \in T /\ x \notin S /\ T \ {x} = S
      <4>1. w - a = n BY DEF a
      <4>2. \A b \in 1..r.count : w - b < n + 1 <=> w - b < n \/ b = a BY <1>1
      <4>3. \A b \in 1..r.count : b # a => Back(r, b) # x BY <1>3, <2>4, BackOnce
      <4>4. ~ (w - a < n) BY <4>1
      <4> HIDE DEF a
      <4> QED BY <2>4, <4>2, <4>3, <4>4 DEF SlotsBefore
    <3>2. it[T] = Summed(r.slot[x], it[S]) BY <1>4, <3>1 DEF SumsOver
    <3>3. w - a = n BY DEF a
    <3>4. Agrees(r.slot[x], l[n])
      <4> HIDE DEF a
      <4> QED BY <1>8, <2>4, <3>3 DEF AddsUp
    <3>5. r.slot[x] \in HourRecords
      <4>1. x \in Ring BY <1>3, <2>4, KeptAreBack DEF AddsUp
      <4> QED BY <1>1, <4>1
    <3> HIDE DEF a, x, S, T, G, H
    <3> QED BY <1>6, <1>7, <2>2, <2>3, <3>2, <3>4, <3>5, SumAgrees DEF S, T, G, H
  <2>5. CASE a \notin 1..r.count
    <3>1. T = S
      <4>1. \A b \in 1..r.count : w - b < n + 1 <=> w - b < n \/ b = a BY <1>1
      <4> QED BY <2>5, <4>1 DEF SlotsBefore
    <3>2. l[n] = NoEvents
      <4>1. n > w \/ w - n > r.count BY <1>1, <1>8, <2>5
      <4> QED BY <1>8, <4>1 DEF AddsUp
    <3>3. jt[H] = jt[G] BY <1>7, <2>2, <3>2, EmptyRecord, EmptySums
    <3> HIDE DEF S, T, G, H
    <3> QED BY <3>1, <3>3 DEF S, T, G, H
  <2> QED BY <2>4, <2>5
<1>9. CASE ~ (n \in hs /\ n # w)
  <2>1. H = G BY <1>9, <1>10, Zenon DEF HoursBefore
  <2>2. CASE a \in 1..r.count
    <3>1. x \in T /\ x \notin S /\ T \ {x} = S
      <4>1. w - a = n BY DEF a
      <4>2. \A b \in 1..r.count : w - b < n + 1 <=> w - b < n \/ b = a BY <1>1
      <4>3. \A b \in 1..r.count : b # a => Back(r, b) # x BY <1>3, <2>2, BackOnce
      <4>4. ~ (w - a < n) BY <4>1
      <4> HIDE DEF a
      <4> QED BY <2>2, <4>2, <4>3, <4>4 DEF SlotsBefore
    <3>2. it[T] = Summed(r.slot[x], it[S]) BY <1>4, <3>1 DEF SumsOver
    <3>3. w - a = n /\ n # w BY <1>1, <2>2 DEF a
    <3>4. r.slot[x] = EmptyHour
      <4> HIDE DEF a
      <4> QED BY <1>9, <2>2, <3>3 DEF AddsUp
    <3>5. it[T] = it[S] BY <1>6, <3>2, <3>4, NoEventsIn, EmptySums
    <3> HIDE DEF S, T, G, H
    <3> QED BY <2>1, <3>5 DEF S, T, G, H
  <2>3. CASE a \notin 1..r.count
    <3>1. T = S
      <4>1. \A b \in 1..r.count : w - b < n + 1 <=> w - b < n \/ b = a BY <1>1
      <4> QED BY <2>3, <4>1 DEF SlotsBefore
    <3> QED BY <2>1, <3>1
  <2> QED BY <2>2, <2>3
<1> QED BY <1>8, <1>9

LEMMA RingAddsUp ==
  ASSUME NEW r \in Rings, NEW w \in Nat, NEW l \in [AllHours -> HourEntries], NEW hs \in SUBSET AllHours,
         AddsUp(r, w, l, hs)
  PROVE  Agrees(FoldFunctionOnSet(Summed, r.pending, r.slot, KeptSlots(r)),
                FoldFunctionOnSet(Joined, NoEvents, l, hs))
<1>1. /\ Completed \in Nat \ {0} /\ r.count \in 0..Completed /\ r.slot \in [Ring -> HourRecords]
      /\ r.pending \in HourRecords /\ HourOf(LastTick) \in Nat
  BY CheckupAssumption, HourBounds DEF Rings
<1>2. hs \subseteq Nat /\ \A h \in hs : h =< HourOf(LastTick) BY <1>1 DEF AllHours
<1>3. IsFiniteSet(hs)
  <2>1. IsFiniteSet(0..HourOf(LastTick)) BY <1>1, FS_Interval
  <2> QED BY <2>1, FS_Subset DEF AllHours
<1>4. KeptSlots(r) \subseteq Ring /\ IsFiniteSet(KeptSlots(r)) BY KeptAreBack DEF AddsUp
<1>5. PICK it : /\ SumsOver(r.pending, r.slot, KeptSlots(r), it)
                /\ FoldFunctionOnSet(Summed, r.pending, r.slot, KeptSlots(r)) = it[KeptSlots(r)]
  <2>1. \A x \in KeptSlots(r) : r.slot[x] \in HourRecords BY <1>1, <1>4
  <2> QED BY <1>1, <1>4, <2>1, SumsFold
<1>6. PICK jt : /\ JoinsOver(l, hs, jt)
                /\ FoldFunctionOnSet(Joined, NoEvents, l, hs) = jt[hs]
  <2>1. \A x \in hs : l[x] \in HourEntries OBVIOUS
  <2> QED BY <1>3, <2>1, JoinsFold
<1> DEFINE M(k) == Agrees(it[SlotsBefore(r, w, k - Completed)], jt[HoursBefore(hs, w, k - Completed)])
           T == {k \in Nat : ~M(k)}
<1>7. M(0)
  <2>1. SlotsBefore(r, w, 0 - Completed) = {} BY <1>1 DEF SlotsBefore
  <2>2. HoursBefore(hs, w, 0 - Completed) = {h \in hs : h = w}
    <3>1. \A h \in hs : ~ (h < 0 - Completed)
      <4> TAKE h \in hs
      <4>1. h \in Nat BY <1>2
      <4> QED BY <1>1, <4>1
    <3> QED BY <3>1, Zenon DEF HoursBefore
  <2>3. it[{}] = r.pending /\ jt[{}] = NoEvents BY <1>5, <1>6 DEF SumsOver, JoinsOver
  <2>4. CASE w \in hs
    <3>1. {h \in hs : h = w} = {w} BY <2>4
    <3>2. {w} \in SUBSET hs /\ w \in {w} /\ {w} \ {w} = {} BY <2>4
    <3>3. jt[{w}] = Joined(l[w], jt[{}]) BY <1>6, <3>2 DEF JoinsOver
    <3>4. jt[{w}] = l[w] BY <1>1, <2>3, <2>4, <3>3, EmptySums
    <3>5. Agrees(r.pending, l[w]) BY <2>4 DEF AddsUp
    <3> QED BY <2>1, <2>2, <2>3, <3>1, <3>4, <3>5
  <2>5. CASE w \notin hs
    <3>1. {h \in hs : h = w} = {} BY <2>5
    <3>2. r.pending = EmptyHour BY <2>5 DEF AddsUp
    <3> QED BY <2>1, <2>2, <2>3, <3>1, <3>2, NothingAgrees
  <2> QED BY <2>4, <2>5
<1>8. ASSUME NEW k \in Nat, M(k) PROVE M(k + 1)
  <2>1. k - Completed \in Int /\ (k - Completed) + 1 = (k + 1) - Completed BY <1>1
  <2>2. Agrees(it[SlotsBefore(r, w, (k - Completed) + 1)], jt[HoursBefore(hs, w, (k - Completed) + 1)])
    BY <1>5, <1>6, <1>8, <2>1, NextHourAdds
  <2> QED BY <2>1, <2>2
<1> HIDE DEF M
<1>9. T = {}
  <2> SUFFICES ASSUME T # {} PROVE FALSE OBVIOUS
  <2>1. T \subseteq Nat OBVIOUS
  <2> HIDE DEF T
  <2>2. PICK m \in T : \A y \in T : m =< y BY <2>1, LeastOf
  <2>3. m \in Nat /\ ~M(m) BY <2>2 DEF T
  <2>4. m # 0 BY <1>7, <2>3
  <2>5. m - 1 \in Nat /\ m - 1 < m /\ (m - 1) + 1 = m BY <2>3, <2>4
  <2>6. m - 1 \notin T BY <2>2, <2>3, <2>5
  <2>7. M(m - 1) BY <2>5, <2>6 DEF T
  <2>8. M((m - 1) + 1) BY <1>8, <2>5, <2>7
  <2> QED BY <2>3, <2>5, <2>8
<1> DEFINE e == ((HourOf(LastTick) + w) + Completed) + 1
<1>10. e \in Nat /\ e - Completed = (HourOf(LastTick) + w) + 1 BY <1>1
<1>11. M(e) BY <1>9, <1>10
<1>12. SlotsBefore(r, w, e - Completed) = KeptSlots(r)
  <2>1. \A b \in 1..r.count : w - b < (HourOf(LastTick) + w) + 1 BY <1>1
  <2>2. /\ \A i \in KeptSlots(r) : \E a \in 1..r.count : i = Back(r, a)
        /\ \A a \in 1..r.count : Back(r, a) \in KeptSlots(r)
    BY KeptAreBack DEF AddsUp
  <2> HIDE DEF e
  <2> QED BY <1>10, <2>1, <2>2 DEF SlotsBefore
<1>13. HoursBefore(hs, w, e - Completed) = hs
  <2>1. \A h \in hs : h < (HourOf(LastTick) + w) + 1 BY <1>1, <1>2
  <2> HIDE DEF e
  <2> QED BY <1>10, <2>1 DEF HoursBefore
<1> QED BY <1>5, <1>6, <1>11, <1>12, <1>13 DEF M

Recent == {h \in AllHours : DateOf(h) > uptime}

LEMMA RecentIs == ASSUME uptime \in Nat, NEW h \in AllHours PROVE h \in Recent <=> ~Bygone(h)
<1>1. DateOf(h) \in Nat BY DatesDiffer DEF AllHours
<1> QED BY <1>1 DEF Recent, Bygone

LEMMA FreshAddsUp ==
  ASSUME CheckupIInv, ~wipe
  PROVE  \E w \in Nat : AddsUp(Fresh, w, ledger, Recent)
<1>1. /\ uptime \in Nat /\ hours \in Rings /\ watch.hour \in SinceBoot
      /\ RingAt(hours, expires, watch.hour) /\ AbsentAt(hours, watch.hour, ledger)
  BY CheckupAssumption DEF CheckupIInv, CheckupShape, WatchRecords
<1>2. Fresh \in Rings /\ Fresh.count = hours.count /\ Fresh.head = hours.head BY FreshIs
<1>3. Completed \in Nat \ {0} /\ hours.count \in 0..Completed BY <1>1, CheckupAssumption DEF Rings
<1>4. Fresh.count < Completed => Fresh.head = Fresh.count BY <1>1, <1>2 DEF RingAt
<1>5. \A a \in 1..Fresh.count : a \in 1..Completed /\ Back(Fresh, a) \in Ring BY <1>2, <1>3, BackIs
<1>6. Recent \subseteq AllHours BY DEF Recent
<1>7. CASE watch.hour = Never \/ OpenExpired
  <2>1. /\ \A a \in 1..Fresh.count : Fresh.slot[Back(Fresh, a)] = EmptyHour
        /\ Fresh.pending = EmptyHour
    BY <1>5, <1>7, FreshBlank
  <2>2. \A h \in Recent : ledger[h] = NoEvents BY <1>1, <1>6, <1>7, NoneLeft, RecentIs
  <2>3. AddsUp(Fresh, 0, ledger, Recent) BY <1>4, <2>1, <2>2, NothingAgrees DEF AddsUp
  <2> QED BY <2>3
<1>8. CASE watch.hour # Never /\ ~OpenExpired
  <2> DEFINE w == watch.hour
  <2>1. w \in Nat BY <1>1, <1>8 DEF SinceBoot
  <2>2. w \in AllHours BY <1>8, SampledHeld DEF HeldInv
  <2>3. AgreeAt(Fresh, w, ledger) BY <1>8, FreshAgrees
  <2>4. w \in Recent BY <1>1, <1>8, <2>2, RecentIs DEF OpenExpired, Bygone, DateOf
  <2>5. Agrees(Fresh.pending, ledger[w])
    <3>1. w =< w /\ w - w =< Fresh.count BY <1>2, <1>3, <2>1
    <3>2. \/ Agrees(PlaceOf(Fresh, w, w), ledger[w])
          \/ Bygone(w) /\ PlaceOf(Fresh, w, w) = EmptyHour
      BY <1>8, <2>2, <2>3, <3>1 DEF AgreeAt
    <3>3. ~Bygone(w) BY <1>1, <2>2, <2>4, RecentIs
    <3> QED BY <3>2, <3>3 DEF PlaceOf
  <2>6. ASSUME NEW a \in 1..Fresh.count
        PROVE  IF w - a \in Recent THEN Agrees(Fresh.slot[Back(Fresh, a)], ledger[w - a])
               ELSE Fresh.slot[Back(Fresh, a)] = EmptyHour
    <3> DEFINE h == w - a
               i == Back(hours, a)
    <3>1. a \in Nat \ {0} /\ a \in 1..Completed /\ a =< Fresh.count BY <1>2, <1>3, <1>5
    <3>2. h \in Int /\ h =< w /\ w - h = a /\ h # w BY <2>1, <3>1
    <3>3. Back(Fresh, a) = i /\ i \in Ring BY <1>5, FreshIs
    <3> HIDE DEF h, i
    <3>4. PlaceOf(Fresh, h, w) = Fresh.slot[i] BY <3>2, <3>3 DEF PlaceOf
    <3>5. ASSUME h \in Recent PROVE Agrees(Fresh.slot[i], ledger[h])
      <4>1. h \in AllHours /\ ~Bygone(h) BY <1>1, <1>6, <3>5, RecentIs
      <4> QED BY <1>8, <2>3, <3>1, <3>2, <3>4, <4>1 DEF AgreeAt
    <3>6. ASSUME h \notin Recent PROVE Fresh.slot[i] = EmptyHour
      <4>1. Fresh.slot[i] = IF Expired(i) THEN EmptyHour ELSE hours.slot[i] BY <3>3, FreshIs
      <4>2. CASE expires[i] = 0
        <5>1. hours.slot[i] = EmptyHour BY <3>1, <4>2, ExpiredIs DEF i
        <5> QED BY <4>1, <5>1
      <4>3. CASE expires[i] # 0
        <5>1. h \in Nat /\ (Expired(i) <=> Bygone(h)) BY <3>1, <4>3, ExpiredIs DEF i, h
        <5>2. h \in AllHours
          <6>1. w \in 0..HourOf(LastTick) /\ HourOf(LastTick) \in Nat
            BY <2>2, HourBounds, CheckupAssumption DEF AllHours
          <6> QED BY <3>2, <5>1, <6>1 DEF AllHours
        <5>3. Bygone(h) BY <1>1, <3>6, <5>2, RecentIs
        <5> QED BY <4>1, <5>1, <5>3
      <4> QED BY <4>2, <4>3
    <3> QED BY <3>3, <3>5, <3>6 DEF h
  <2>7. \A h \in Recent : h > w \/ w - h > Fresh.count => ledger[h] = NoEvents
    <3>1. AbsentAt(Fresh, w, ledger) BY <1>8, FreshAgrees
    <3> QED BY <1>1, <1>6, <3>1, RecentIs DEF AbsentAt
  <2>8. AddsUp(Fresh, w, ledger, Recent) BY <1>4, <2>4, <2>5, <2>6, <2>7 DEF AddsUp
  <2> QED BY <2>1, <2>8
<1> QED BY <1>7, <1>8

LEMMA ReportIsExact == ASSUME CheckupIInv PROVE ReportAgrees
<1> SUFFICES ASSUME ~wipe PROVE Agrees(Aggregate(Fresh), EventsOf(Recent))
  BY DEF ReportAgrees, Recent, DateOf
<1>1. PICK w \in Nat : AddsUp(Fresh, w, ledger, Recent) BY FreshAddsUp
<1>2. Fresh \in Rings /\ ledger \in [AllHours -> HourEntries] /\ Recent \in SUBSET AllHours
  BY FreshIs DEF Recent, CheckupIInv, CheckupShape
<1>3. Agrees(FoldFunctionOnSet(Summed, Fresh.pending, Fresh.slot, KeptSlots(Fresh)),
             FoldFunctionOnSet(Joined, NoEvents, ledger, Recent))
  BY <1>1, <1>2, RingAddsUp
<1>4. Aggregate(Fresh) = FoldFunctionOnSet(Summed, Fresh.pending, Fresh.slot, KeptSlots(Fresh))
  BY DEF Aggregate, KeptSlots
<1>5. EventsOf(Recent) = FoldFunctionOnSet(Joined, NoEvents, ledger, Recent) BY <1>2, EventsAre
<1> QED BY <1>3, <1>4, <1>5

(* HoursExact, whatever the constants: every hour the ring keeps agrees     *)
(* with what happened in it, and an answer counts the hours of the window   *)
(* and no other (checkup_record, checkup_report, checkup_aggregate).        *)
THEOREM HoursAlwaysExact == CheckupSpec => []HoursExact
<1>1. CheckupIInv /\ HeldInv => HoursExact BY TypesHold, EachHourAgrees, ReportIsExact DEF HoursExact
<1> QED BY <1>1, CheckupHeld, PTL
=============================================================================
