---------------------------- MODULE JournalProofs ----------------------------
(* Proofs about Journal: no two records in the flash carry one sequence     *)
(* number, and an erase spares all but the few sectors after that of the    *)
(* newest acknowledged record.  And about Rings: what the ring and the      *)
(* journal hold stays where it belongs on the time axis, over restarts.     *)
EXTENDS Journal, Rings, FiniteSetTheorems, WellFoundedInduction, TLAPS

-----------------------------------------------------------------------------
(* The inductive invariant *)

(* Every number in the flash was given out, and that of the append in       *)
(* progress is not in the flash yet.                                        *)
SeqInv == \A x \in Held(chip) : chip[x].seq < nextSeq
RecInv ==
  step # "idle" =>
    /\ rec \in Record /\ rec.seq < nextSeq
    /\ \A x \in Held(chip) : chip[x].seq # rec.seq

(* What is about to be programmed is erased, and it is where the position   *)
(* is.                                                                      *)
SpotInv == step = "program" => chip[spot] = Erased /\ spot = nextSlot

(* Slot x is a place for the next append: within the sector of the newest   *)
(* acknowledged record, or the first slot of a sector after it, by no more  *)
(* sectors than this episode has given up and one.                          *)
Nth(x)   == x % PerSector
Opens(x) == Nth(x) = 0
Allowed(x) ==
  acked # NoSlot =>
    \/ ~Opens(x) /\ SectorOf(x) = SectorOf(acked)
    \/ Opens(x) /\ Ahead(x) \in 1 .. (MaxAbandoned + 1) /\ Ahead(x) =< skipped + 1
PlaceInv == Allowed(nextSlot)

IInv == JournalTypeOK /\ UniqueSeq /\ SeqInv /\ RecInv /\ SpotInv /\ PlaceInv

-----------------------------------------------------------------------------
(* Geometry *)

LEMMA Constants ==
  /\ Sectors \in Nat \ {0} /\ PerSector \in Nat \ {0} /\ Window \in Nat \ {0}
  /\ RetryLimit \in Nat \ {0} /\ MaxAbandoned \in Nat /\ MaxAbandoned + 1 < Sectors
  /\ Targets \subseteq Nat \ {0} /\ 1 \in Targets
  /\ Fill \in 0 .. (Sectors * PerSector)
  /\ Sectors * PerSector \in Nat \ {0} /\ PerSector =< Sectors * PerSector
<1>1. Sectors * PerSector \in Nat \ {0} BY JournalAssumption
<1>2. PerSector =< Sectors * PerSector
  <2>1. Sectors - 1 \in Nat BY JournalAssumption
  <2>2. (Sectors - 1) * PerSector \in Nat BY <2>1, JournalAssumption
  <2>3. Sectors * PerSector = (Sectors - 1) * PerSector + PerSector BY JournalAssumption
  <2> QED BY <2>2, <2>3, JournalAssumption
<1> QED BY <1>1, <1>2, JournalAssumption

LEMMA SourcesIn ==
  /\ Len(SourceSeq) \in Nat \ {0} /\ DOMAIN SourceSeq = 1 .. Len(SourceSeq)
  /\ \A i \in 1 .. Len(SourceSeq) : SourceSeq[i] \in Sources
  /\ \A s \in Sources : \E i \in 1 .. Len(SourceSeq) : SourceSeq[i] = s
<1>1. SourceSeq \in Seq(Sources) /\ SourceSeq # <<>> BY JournalAssumption DEF Sources
<1>2. Len(SourceSeq) \in Nat \ {0} /\ DOMAIN SourceSeq = 1 .. Len(SourceSeq) BY <1>1
<1> QED BY <1>2 DEF Sources

(* A slot is the n-th of one sector only.                                   *)
LEMMA DivideOnce ==
  ASSUME NEW q \in Nat, NEW r \in Nat, r < PerSector
  PROVE  (q * PerSector + r) \div PerSector = q /\ (q * PerSector + r) % PerSector = r
<1> DEFINE a == q * PerSector + r
           d == a \div PerSector
           m == a % PerSector
<1>1. PerSector \in Nat \ {0} BY Constants
<1>2. a \in Nat /\ q * PerSector \in Nat BY <1>1
<1>3. d \in Nat /\ m \in 0 .. (PerSector - 1) /\ a = PerSector * d + m BY <1>1, <1>2
<1> HIDE DEF a, d, m
<1>4. a = PerSector * q + r BY <1>1 DEF a
<1>5. ~(d < q)
  <2> SUFFICES ASSUME d < q PROVE FALSE OBVIOUS
  <2>1. q - d - 1 \in Nat BY <1>3
  <2>2. PerSector * (q - d - 1) \in Nat BY <1>1, <2>1
  <2>3. PerSector * q = PerSector * (q - d - 1) + PerSector * d + PerSector BY <1>1, <1>3
  <2> QED BY <1>1, <1>3, <1>4, <2>2, <2>3
<1>6. ~(q < d)
  <2> SUFFICES ASSUME q < d PROVE FALSE OBVIOUS
  <2>1. d - q - 1 \in Nat BY <1>3
  <2>2. PerSector * (d - q - 1) \in Nat BY <1>1, <2>1
  <2>3. PerSector * d = PerSector * (d - q - 1) + PerSector * q + PerSector BY <1>1, <1>3
  <2> QED BY <1>1, <1>3, <1>4, <2>2, <2>3
<1>7. d = q BY <1>3, <1>5, <1>6
<1>8. m = r BY <1>1, <1>3, <1>4, <1>7
<1> QED BY <1>7, <1>8 DEF a, d, m

LEMMA Sector ==
  ASSUME NEW x \in Places
  PROVE  /\ x \in Nat /\ SectorOf(x) \in 0 .. (Sectors - 1)
         /\ Nth(x) \in 0 .. (PerSector - 1)
         /\ x = SectorOf(x) * PerSector + Nth(x)
         /\ FirstOf(x) = SectorOf(x) * PerSector /\ FirstOf(x) \in Places
<1> DEFINE d == x \div PerSector
           m == x % PerSector
<1>1. PerSector \in Nat \ {0} /\ Sectors \in Nat \ {0} /\ Sectors * PerSector \in Nat BY Constants
<1>2. x \in Nat /\ x < Sectors * PerSector BY <1>1 DEF Places
<1>3. d \in Nat /\ m \in 0 .. (PerSector - 1) /\ x = PerSector * d + m BY <1>1, <1>2
<1>4. SectorOf(x) = d /\ Nth(x) = m /\ FirstOf(x) = d * PerSector BY DEF SectorOf, FirstOf, Nth
<1> HIDE DEF d, m
<1>5. d < Sectors
  <2> SUFFICES ASSUME Sectors =< d PROVE FALSE BY <1>1, <1>3
  <2>1. d - Sectors \in Nat BY <1>1, <1>3
  <2>2. PerSector * (d - Sectors) \in Nat BY <1>1, <2>1
  <2>3. PerSector * d = PerSector * (d - Sectors) + Sectors * PerSector BY <1>1, <1>3
  <2> QED BY <1>1, <1>2, <1>3, <2>2, <2>3
<1>6. d * PerSector \in Nat /\ PerSector * d = d * PerSector BY <1>1, <1>3
<1>7. d * PerSector \in Places BY <1>1, <1>2, <1>3, <1>6 DEF Places
<1>8. SectorOf(x) \in 0 .. (Sectors - 1) BY <1>1, <1>3, <1>4, <1>5
<1>9. FirstOf(x) = SectorOf(x) * PerSector /\ FirstOf(x) \in Places BY <1>4, <1>7
<1>10. x = SectorOf(x) * PerSector + Nth(x) /\ Nth(x) \in 0 .. (PerSector - 1) BY <1>3, <1>4, <1>6
<1> QED BY <1>2, <1>8, <1>9, <1>10
(* The first slot of the sector after sector d.                             *)
LEMMA Round ==
  ASSUME NEW d \in 0 .. (Sectors - 1)
  PROVE  LET y == (d * PerSector + PerSector) % (Sectors * PerSector)
         IN  /\ y \in Places /\ Opens(y)
             /\ SectorOf(y) = (IF d + 1 < Sectors THEN d + 1 ELSE 0)
<1> DEFINE N == Sectors * PerSector
           b == d * PerSector + PerSector
           y == b % N
<1>1. PerSector \in Nat \ {0} /\ Sectors \in Nat \ {0} /\ N \in Nat \ {0} BY Constants
<1>2. b \in Nat /\ b = (d + 1) * PerSector BY <1>1
<1>3. CASE d + 1 < Sectors
  <2>1. Sectors - d - 1 \in Nat \ {0} BY <1>1, <1>3
  <2>2. (Sectors - d - 1) * PerSector \in Nat \ {0} BY <1>1, <2>1
  <2>3. N = b + (Sectors - d - 1) * PerSector BY <1>1, <1>2
  <2>4. b < N BY <1>1, <1>2, <2>2, <2>3
  <2>5. y = b
    <3> HIDE DEF N, b
    <3> QED BY <1>1, <1>2, <2>4
  <2>6. (d + 1) * PerSector + 0 = b /\ d + 1 \in Nat BY <1>1, <1>2
  <2>7. b \div PerSector = d + 1 /\ b % PerSector = 0
    BY <1>1, <2>6, DivideOnce
  <2> HIDE DEF y
  <2> QED BY <1>1, <1>2, <1>3, <2>4, <2>5, <2>7 DEF Places, SectorOf, Opens, Nth
<1>4. CASE ~(d + 1 < Sectors)
  <2>1. d + 1 = Sectors BY <1>1, <1>4
  <2>2. b = N BY <1>1, <1>2, <2>1
  <2>3. y = 0
    <3> HIDE DEF N, b
    <3> QED BY <1>1, <2>2
  <2>4. 0 \div PerSector = 0 /\ 0 % PerSector = 0 BY <1>1
  <2> HIDE DEF y
  <2> QED BY <1>1, <1>4, <2>3, <2>4 DEF Places, SectorOf, Opens, Nth
<1> QED BY <1>3, <1>4

LEMMA NextIn ==
  ASSUME NEW x \in Places
  PROVE  /\ NextSector(x) \in Places /\ Opens(NextSector(x))
         /\ SectorOf(NextSector(x)) = (IF SectorOf(x) + 1 < Sectors THEN SectorOf(x) + 1 ELSE 0)
<1>1. SectorOf(x) \in 0 .. (Sectors - 1) /\ FirstOf(x) = SectorOf(x) * PerSector BY Sector
<1> QED BY <1>1, Round DEF NextSector

LEMMA AfterIn ==
  ASSUME NEW x \in Places
  PROVE  /\ SlotAfter(x) \in Places
         /\ ~Opens(SlotAfter(x)) => SectorOf(SlotAfter(x)) = SectorOf(x)
         /\ Opens(SlotAfter(x)) =>
              SectorOf(SlotAfter(x)) = (IF SectorOf(x) + 1 < Sectors THEN SectorOf(x) + 1 ELSE 0)
<1> DEFINE d == SectorOf(x)
           m == Nth(x)
           N == Sectors * PerSector
<1>1. PerSector \in Nat \ {0} /\ Sectors \in Nat \ {0} /\ N \in Nat \ {0} BY Constants
<1>2. /\ x \in Nat /\ x < N /\ d \in 0 .. (Sectors - 1) /\ m \in 0 .. (PerSector - 1)
      /\ x = d * PerSector + m
  <2>1. x \in Nat /\ x < N BY <1>1 DEF Places
  <2> QED BY <2>1, Sector
<1>3. SlotAfter(x) = (x + 1) % N BY DEF SlotAfter
<1> HIDE DEF d, m
<1>4. CASE m + 1 = PerSector
  <2>1. x + 1 = d * PerSector + PerSector BY <1>1, <1>2, <1>4
  <2> QED BY <1>2, <1>3, <2>1, Round DEF d
<1>5. CASE m + 1 # PerSector
  <2>1. m + 1 \in Nat /\ m + 1 < PerSector BY <1>1, <1>2, <1>5
  <2>2. x + 1 = d * PerSector + (m + 1) BY <1>1, <1>2
  <2>3. (x + 1) \div PerSector = d /\ (x + 1) % PerSector = m + 1
    BY <1>2, <2>1, <2>2, DivideOnce
  <2>4. x + 1 < N
    <3>1. Sectors - 1 - d \in Nat BY <1>1, <1>2
    <3>2. (Sectors - 1 - d) * PerSector \in Nat BY <1>1, <3>1
    <3>3. N = (Sectors - 1 - d) * PerSector + d * PerSector + PerSector BY <1>1, <1>2
    <3>4. d * PerSector \in Nat BY <1>1, <1>2
    <3> QED BY <1>1, <1>2, <2>1, <2>2, <3>2, <3>3, <3>4
  <2>5. SlotAfter(x) = x + 1
    <3> HIDE DEF N
    <3> QED BY <1>1, <1>2, <1>3, <2>4
  <2> QED BY <1>1, <1>2, <2>1, <2>3, <2>4, <2>5 DEF Places, SectorOf, Opens, Nth, d
<1> QED BY <1>4, <1>5

(* How far a sector lies ahead, and one more.                               *)
LEMMA AheadNext ==
  ASSUME NEW x \in Places, NEW y \in Places, acked \in Places,
         SectorOf(y) = (IF SectorOf(x) + 1 < Sectors THEN SectorOf(x) + 1 ELSE 0)
  PROVE  /\ Ahead(x) \in 0 .. (Sectors - 1)
         /\ Ahead(x) + 1 < Sectors => Ahead(y) = Ahead(x) + 1
<1> DEFINE a == SectorOf(acked)
           d == SectorOf(x)
<1>1. Sectors \in Nat \ {0} /\ a \in 0 .. (Sectors - 1) /\ d \in 0 .. (Sectors - 1)
  BY Constants, Sector
<1>2. \A v \in 0 .. (Sectors - 1) :
        (v + Sectors - a) % Sectors = (IF v >= a THEN v - a ELSE v + Sectors - a)
  <2> HIDE DEF a, d
  <2> QED BY <1>1
<1>3. /\ Ahead(x) = (d + Sectors - a) % Sectors
      /\ Ahead(y) = ((IF d + 1 < Sectors THEN d + 1 ELSE 0) + Sectors - a) % Sectors
  BY DEF Ahead
<1> HIDE DEF a, d
<1>4. (IF d + 1 < Sectors THEN d + 1 ELSE 0) \in 0 .. (Sectors - 1) BY <1>1
<1>5. Ahead(x) = (IF d >= a THEN d - a ELSE d + Sectors - a) BY <1>1, <1>2, <1>3
<1>6. CASE d + 1 < Sectors
  <2>1. Ahead(y) = (IF d + 1 >= a THEN d + 1 - a ELSE d + 1 + Sectors - a)
    BY <1>1, <1>2, <1>3, <1>4, <1>6
  <2> QED BY <1>1, <1>5, <1>6, <2>1
<1>7. CASE ~(d + 1 < Sectors)
  <2>1. Ahead(y) = (IF 0 >= a THEN 0 - a ELSE 0 + Sectors - a) BY <1>1, <1>2, <1>3, <1>4, <1>7
  <2> QED BY <1>1, <1>5, <1>7, <2>1
<1> QED BY <1>6, <1>7

LEMMA AheadSame ==
  ASSUME NEW x \in Places, acked \in Places, SectorOf(x) = SectorOf(acked)
  PROVE  Ahead(x) = 0
<1>1. Sectors \in Nat \ {0} /\ SectorOf(acked) \in 0 .. (Sectors - 1) BY Constants, Sector
<1>2. Ahead(x) = (SectorOf(acked) + Sectors - SectorOf(acked)) % Sectors BY DEF Ahead
<1> HIDE DEF SectorOf
<1> QED BY <1>1, <1>2

-----------------------------------------------------------------------------
(* The content of the flash *)

(* Of finitely many things one has the greatest number.                     *)
LEMMA Highest ==
  ASSUME NEW S, IsFiniteSet(S), S # {}, NEW f \in [S -> Int]
  PROVE  \E x \in S : \A y \in S : f[y] =< f[x]
<1> DEFINE Above(x) == {y \in S : f[y] > f[x]}
           T == {Above(x) : x \in S}
           R == StrictSubsetOrdering(S)
<1>1. IsWellFoundedOn(R, FiniteSubsetsOf(S)) BY FS_StrictSubsetOrderingWellFounded
<1>2. \A x \in S : Above(x) \in FiniteSubsetsOf(S)
  <2> SUFFICES ASSUME NEW x \in S PROVE Above(x) \in FiniteSubsetsOf(S) OBVIOUS
  <2>1. Above(x) \in SUBSET S OBVIOUS
  <2>2. IsFiniteSet(Above(x)) BY <2>1, FS_Subset
  <2> QED BY <2>1, <2>2 DEF FiniteSubsetsOf
<1>3. \A x, y \in S : f[y] > f[x] => <<Above(y), Above(x)>> \in R
  <2> SUFFICES ASSUME NEW x \in S, NEW y \in S, f[y] > f[x] PROVE <<Above(y), Above(x)>> \in R
    OBVIOUS
  <2>1. Above(y) \in SUBSET S /\ Above(x) \in SUBSET S OBVIOUS
  <2>2. \A z \in S : f[z] \in Int OBVIOUS
  <2>3. y \in Above(x) /\ y \notin Above(y) BY <2>2
  <2>4. \A z \in Above(y) : z \in Above(x) BY <2>2
  <2> HIDE DEF Above
  <2> QED BY <2>1, <2>3, <2>4 DEF StrictSubsetOrdering
<1> HIDE DEF R, Above
<1>4. T \subseteq FiniteSubsetsOf(S) /\ T # {} BY <1>2
<1>5. PICK t \in T : \A u \in T : ~(<<u, t>> \in R) BY <1>1, <1>4, WFMin
<1>6. PICK x \in S : t = Above(x) BY <1>5
<1>7. \A y \in S : ~(f[y] > f[x]) BY <1>3, <1>5, <1>6
<1>8. \A y \in S : f[y] \in Int OBVIOUS
<1> QED BY <1>7, <1>8

Contents == Record \cup {Erased, Torn}
Flash    == [Places -> Contents]

LEMMA ContentsIn ==
  /\ Erased \in Contents /\ Torn \in Contents /\ Record \subseteq Contents
  /\ ~IsRecord(Erased) /\ ~IsRecord(Torn) /\ \A r \in Record : IsRecord(r)
  /\ \A k \in {"torn", "erased"} : [Erased EXCEPT !.kind = k] \in {Erased, Torn}
  /\ \A r \in Contents : /\ r.seq \in Nat /\ r.bucket \in Nat
                         /\ IsRecord(r) <=> r \in Record
<1>1. Erased.kind = "erased" /\ Erased.seq = 0 /\ Erased.bucket = 0 BY DEF Erased
<1>2. Torn.kind = "torn" /\ Torn.seq = 0 /\ Torn.bucket = 0 BY DEF Torn, Erased
<1>3. ~IsRecord(Erased) /\ ~IsRecord(Torn) BY <1>1, <1>2 DEF IsRecord
<1>4. \A r \in Record : IsRecord(r) /\ r.seq \in Nat /\ r.bucket \in Nat BY DEF Record, IsRecord
<1>5. \A k \in {"torn", "erased"} : [Erased EXCEPT !.kind = k] \in {Erased, Torn}
  BY DEF Erased, Torn
<1> HIDE DEF Erased, Torn
<1> QED BY <1>1, <1>2, <1>3, <1>4, <1>5 DEF Contents

LEMMA PlacesFinite == IsFiniteSet(Places) /\ NoSlot \in Nat /\ NoSlot \notin Places
<1>1. Sectors * PerSector \in Nat BY Constants
<1>2. Sectors * PerSector - 1 \in Int /\ 0 \in Int BY <1>1
<1>3. IsFiniteSet(Places) BY <1>2, FS_Interval DEF Places
<1> QED BY <1>1, <1>3 DEF Places, NoSlot

LEMMA HeadIn ==
  ASSUME NEW f \in Flash, Held(f) # {}
  PROVE  /\ HeadSlot(f) \in Held(f) /\ HeadSlot(f) \in Places
         /\ \A y \in Held(f) : f[y].seq =< f[HeadSlot(f)].seq
<1> DEFINE g == [x \in Held(f) |-> f[x].seq]
<1>1. Held(f) \subseteq Places BY DEF Held
<1>2. IsFiniteSet(Held(f)) BY <1>1, PlacesFinite, FS_Subset
<1>3. \A x \in Held(f) : f[x].seq \in Int BY <1>1, ContentsIn DEF Flash
<1>4. g \in [Held(f) -> Int] BY <1>3
<1>5. \E x \in Held(f) : \A y \in Held(f) : g[y] =< g[x]
  <2> HIDE DEF g
  <2> QED BY <1>2, <1>4, Highest
<1>6. \E x \in Held(f) : \A y \in Held(f) : f[y].seq =< f[x].seq BY <1>5
<1> QED BY <1>1, <1>6 DEF HeadSlot

LEMMA NewestIn ==
  ASSUME NEW f \in Flash, NEW s, NEW t, Usable(f, s, t) # {}
  PROVE  Newest(f, s, t) \in Nat
<1> DEFINE u == Usable(f, s, t)
           h == HeadSlot(f)
           g == [x \in u |-> -Behind(h, x)]
<1>1. u # {} /\ u \subseteq Places /\ u \subseteq Held(f) BY DEF Usable, Held, IsRecord
<1>2. IsFiniteSet(u) BY <1>1, PlacesFinite, FS_Subset
<1>3. h \in Places BY <1>1, HeadIn
<1>4. \A x \in Places : Behind(h, x) \in Int
  <2>1. Sectors * PerSector \in Nat \ {0} /\ h \in Int /\ \A x \in Places : x \in Int
    BY <1>3, Constants DEF Places
  <2> HIDE DEF h
  <2> QED BY <2>1 DEF Behind
<1>5. g \in [u -> Int] BY <1>1, <1>4
<1>6. \E x \in u : \A y \in u : g[y] =< g[x]
  <2> HIDE DEF g, u
  <2> QED BY <1>1, <1>2, <1>5, Highest
<1>7. \E x \in u : \A y \in u : Behind(h, x) =< Behind(h, y) BY <1>1, <1>4, <1>6
<1>8. (CHOOSE x \in u : \A y \in u : Behind(h, x) =< Behind(h, y)) \in Places BY <1>1, <1>7
<1>9. Newest(f, s, t) = f[CHOOSE x \in u : \A y \in u : Behind(h, x) =< Behind(h, y)].bucket
  BY DEF Newest
<1> HIDE DEF u, h
<1> QED BY <1>8, <1>9, ContentsIn DEF Flash

LEMMA ManifestIn ==
  ASSUME NEW f \in Flash, NEW s
  PROVE  CurrentManifest(f, s) \in [bucket : Nat, seq : Nat]
<1> DEFINE m == Manifests(f, s)
           g == [x \in m |-> f[x].seq]
<1>1. CASE m = {} BY <1>1 DEF CurrentManifest
<1>2. CASE m # {}
  <2>1. m \subseteq Places BY DEF Manifests
  <2>2. IsFiniteSet(m) BY <2>1, PlacesFinite, FS_Subset
  <2>3. g \in [m -> Int] BY <2>1, ContentsIn DEF Flash
  <2>4. \E x \in m : \A y \in m : g[y] =< g[x]
    <3> HIDE DEF g, m
    <3> QED BY <1>2, <2>2, <2>3, Highest
  <2>5. \E x \in m : \A y \in m : f[y].seq =< f[x].seq BY <2>4
  <2>6. PICK x \in Places : CurrentManifest(f, s) = [bucket |-> f[x].bucket, seq |-> f[x].seq]
    BY <1>2, <2>1, <2>5 DEF CurrentManifest
  <2> QED BY <2>6, ContentsIn DEF Flash
<1> QED BY <1>1, <1>2

LEMMA SplicedIn ==
  ASSUME JournalTypeOK, NEW s \in Sources
  PROVE  Spliced(s) \in 0 .. Window
<1> DEFINE b == {chip[x].bucket : x \in index[s]}
           g == [n \in b |-> n]
           k == [n \in b |-> -n]
           newest == CHOOSE n \in b : \A m \in b : m =< n
           oldest == CHOOSE n \in b : \A m \in b : n =< m
<1>1. ring[s] \in 0 .. Window /\ now \in Nat /\ Window \in Nat BY Constants DEF JournalTypeOK
<1>2. b \subseteq Nat
  <2>1. index[s] \subseteq Places /\ chip \in Flash BY DEF JournalTypeOK, Flash, Contents
  <2> QED BY <2>1, ContentsIn DEF Flash
<1>3. IsFiniteSet(b)
  <2>1. IsFiniteSet(index[s])
    <3>1. index[s] \subseteq Places BY DEF JournalTypeOK
    <3> QED BY <3>1, PlacesFinite, FS_Subset
  <2>2. [x \in index[s] |-> chip[x].bucket] \in Surjection(index[s], b) BY DEF Surjection
  <2> QED BY <2>1, <2>2, FS_Surjection
<1>4. g \in [b -> Int] /\ k \in [b -> Int] BY <1>2
<1>5. CASE b = {} BY <1>1, <1>5 DEF Spliced
<1>6. CASE b # {}
  <2>1. (\E n \in b : \A m \in b : g[m] =< g[n]) /\ (\E n \in b : \A m \in b : k[m] =< k[n])
    <3> HIDE DEF g, k, b
    <3> QED BY <1>3, <1>4, <1>6, Highest
  <2>2. (\E n \in b : \A m \in b : m =< n) /\ (\E n \in b : \A m \in b : n =< m)
    <3>1. \E n \in b : \A m \in b : m =< n BY <2>1
    <3>2. PICK n \in b : \A m \in b : k[m] =< k[n] BY <2>1
    <3>3. \A m \in b : -m =< -n /\ m \in Nat /\ n \in Nat BY <1>2, <3>2
    <3>4. \A m \in b : n =< m
      <4> HIDE DEF b
      <4> QED BY <3>3
    <3> QED BY <3>1, <3>4
  <2>3. newest \in Nat /\ oldest \in Nat /\ oldest =< newest BY <1>2, <2>2
  <2>4. Spliced(s) = IF b # {} /\ newest =< now /\ now < newest + Window
                     THEN Max2(ring[s], Min2(now + 1 - oldest, Window)) ELSE ring[s]
    BY DEF Spliced
  <2> HIDE DEF newest, oldest, b
  <2> QED BY <1>1, <2>3, <2>4 DEF Max2, Min2
<1> QED BY <1>5, <1>6

-----------------------------------------------------------------------------
(* What a step may make of the flash *)

(* Flash f holds no record that was not there; what is not in the sector of *)
(* x is as it was.                                                          *)
Thinned(f) == f \in Flash /\ \A y \in Places : IsRecord(f[y]) => f[y] = chip[y]
Beyond(f, x) == \A y \in Places : SectorOf(y) # SectorOf(x) => f[y] = chip[y]

(* The numbers of the records in f are unique and were given out.           *)
Numbered(f, n) ==
  /\ \A x, y \in Held(f) : f[x].seq = f[y].seq => x = y
  /\ \A x \in Held(f) : f[x].seq < n

LEMMA ThinnedHeld ==
  ASSUME NEW f, Thinned(f)
  PROVE  \A x \in Held(f) : x \in Held(chip) /\ f[x] = chip[x]
BY DEF Thinned, Held

LEMMA ThinnedNumbered ==
  ASSUME IInv, NEW f, Thinned(f) PROVE f \in Flash /\ Numbered(f, nextSeq)
<1>1. \A x \in Held(f) : x \in Held(chip) /\ f[x] = chip[x] BY ThinnedHeld
<1> QED BY <1>1 DEF IInv, UniqueSeq, SeqInv, Numbered, Thinned

LEMMA FilledThin ==
  ASSUME JournalTypeOK, NEW x \in Places
  PROVE  Thinned(Filled(x, Erased)) /\ Beyond(Filled(x, Erased), x)
<1>1. chip \in Flash BY DEF JournalTypeOK, Flash, Contents
<1>2. \A y \in Places : Filled(x, Erased)[y] = IF SectorOf(y) = SectorOf(x) THEN Erased ELSE chip[y]
  BY DEF Filled
<1>3. Filled(x, Erased) \in Flash BY <1>1, ContentsIn DEF Flash, Filled
<1> QED BY <1>2, <1>3, ContentsIn DEF Thinned, Beyond

LEMMA HalfThin ==
  ASSUME JournalTypeOK, NEW x \in Places, NEW f \in HalfErased(x)
  PROVE  Thinned(f) /\ Beyond(f, x)
<1>1. chip \in Flash BY DEF JournalTypeOK, Flash, Contents
<1>2. PICK h \in [0 .. (PerSector - 1) -> {"kept", "torn", "erased"}] :
        f = [y \in Places |-> IF SectorOf(y) = SectorOf(x) /\ h[y - FirstOf(x)] # "kept"
                              THEN [Erased EXCEPT !.kind = h[y - FirstOf(x)]] ELSE chip[y]]
  BY DEF HalfErased
<1>3. \A y \in Places : SectorOf(y) = SectorOf(x) => h[y - FirstOf(x)] \in {"kept", "torn", "erased"}
  <2> SUFFICES ASSUME NEW y \in Places, SectorOf(y) = SectorOf(x)
               PROVE  h[y - FirstOf(x)] \in {"kept", "torn", "erased"}
    OBVIOUS
  <2>1. /\ y = SectorOf(y) * PerSector + Nth(y) /\ Nth(y) \in 0 .. (PerSector - 1)
        /\ FirstOf(x) = SectorOf(x) * PerSector /\ FirstOf(x) \in Nat
    BY Sector
  <2>2. FirstOf(x) = SectorOf(y) * PerSector BY <2>1
  <2>3. y = FirstOf(x) + Nth(y) BY <2>1, <2>2
  <2>4. y - FirstOf(x) = Nth(y) BY <2>1, <2>3, Constants
  <2> QED BY <1>2, <2>1, <2>4
<1>4. \A y \in Places : f[y] = chip[y] \/ (SectorOf(y) = SectorOf(x) /\ f[y] \in {Erased, Torn})
  BY <1>2, <1>3, ContentsIn
<1>5. f \in Flash
  <2>1. f = [y \in Places |-> f[y]] BY <1>2
  <2>2. \A y \in Places : f[y] \in Contents BY <1>1, <1>4, ContentsIn DEF Flash
  <2> QED BY <2>1, <2>2 DEF Flash
<1> QED BY <1>4, <1>5, ContentsIn DEF Thinned, Beyond

(* Programming takes nothing from the flash but what it puts there.         *)
LEMMA ProgrammedIn ==
  ASSUME IInv, step = "program", NEW f \in Programmed
  PROVE  /\ f \in Flash /\ Numbered(f, nextSeq)
         /\ \A y \in Places : IsRecord(chip[y]) => f[y] = chip[y]
<1>1. /\ chip \in Flash /\ spot \in Places /\ rec \in Record /\ chip[spot] = Erased
      /\ nextSeq \in Nat /\ rec.seq < nextSeq /\ \A x \in Held(chip) : chip[x].seq # rec.seq
  BY DEF IInv, JournalTypeOK, Flash, Contents, SpotInv, RecInv
<1>2. ~IsRecord(chip[spot]) BY <1>1, ContentsIn
<1>3. CASE f = chip
  <2>1. Thinned(chip) BY <1>1 DEF Thinned
  <2> QED BY <1>3, <2>1, ThinnedNumbered
<1>4. CASE f = [chip EXCEPT ![spot] = Torn]
  <2>1. f \in Flash BY <1>1, <1>4, ContentsIn DEF Flash
  <2>2. \A y \in Places : f[y] = IF y = spot THEN Torn ELSE chip[y] BY <1>1, <1>4 DEF Flash
  <2>3. Thinned(f) BY <2>1, <2>2, ContentsIn DEF Thinned
  <2> QED BY <1>2, <2>2, <2>3, ThinnedNumbered
<1>5. CASE f = [chip EXCEPT ![spot] = rec]
  <2>1. f \in Flash BY <1>1, <1>5, ContentsIn DEF Flash
  <2>2. \A y \in Places : f[y] = IF y = spot THEN rec ELSE chip[y] BY <1>1, <1>5 DEF Flash
  <2>3. \A y \in Held(f) : y = spot \/ (y \in Held(chip) /\ f[y] = chip[y]) BY <2>2 DEF Held
  <2>4. f[spot] = rec BY <1>1, <2>2
  <2>5. Numbered(f, nextSeq)
    <3>1. \A x, y \in Held(chip) : chip[x].seq = chip[y].seq => x = y BY DEF IInv, UniqueSeq
    <3>2. \A x \in Held(chip) : chip[x].seq < nextSeq BY DEF IInv, SeqInv
    <3> QED BY <1>1, <2>3, <2>4, <3>1, <3>2 DEF Numbered
  <2> QED BY <1>2, <2>1, <2>2, <2>5
<1> QED BY <1>3, <1>4, <1>5 DEF Programmed

-----------------------------------------------------------------------------
(* The position *)

LEMMA LandingIn ==
  ASSUME IInv
  PROVE  /\ Landing \in Places /\ Allowed(Landing)
         /\ Entered <=> Opens(Landing)
         /\ ~Entered => Landing = nextSlot /\ chip[nextSlot] = Erased
<1>1. nextSlot \in Places /\ skipped \in Nat /\ acked \in Places \cup {NoSlot} /\ Allowed(nextSlot)
  BY DEF IInv, JournalTypeOK, PlaceInv
<1>2. Entered <=> Opens(Landing) BY DEF Entered, Opens, Nth
<1>3. CASE ~Opens(nextSlot) /\ chip[nextSlot] # Erased
  <2>1. Landing = NextSector(nextSlot) BY <1>3 DEF Landing, Opens, Nth
  <2>2. /\ Landing \in Places /\ Opens(Landing)
        /\ SectorOf(Landing) = (IF SectorOf(nextSlot) + 1 < Sectors THEN SectorOf(nextSlot) + 1 ELSE 0)
    BY <1>1, <2>1, NextIn
  <2>3. ASSUME acked # NoSlot
        PROVE  Ahead(Landing) \in 1 .. (MaxAbandoned + 1) /\ Ahead(Landing) =< skipped + 1
    <3>1. acked \in Places /\ SectorOf(nextSlot) = SectorOf(acked) BY <1>1, <1>3, <2>3 DEF Allowed
    <3>2. Ahead(nextSlot) = 0 BY <1>1, <3>1, AheadSame
    <3>3. 0 + 1 < Sectors BY Constants
    <3>4. Ahead(Landing) = 0 + 1 BY <1>1, <2>2, <3>1, <3>2, <3>3, AheadNext
    <3> QED BY <1>1, <3>4, Constants
  <2> QED BY <1>2, <2>2, <2>3 DEF Allowed
<1>4. CASE Opens(nextSlot) \/ chip[nextSlot] = Erased
  <2>1. Landing = nextSlot BY <1>4 DEF Landing, Opens, Nth
  <2> QED BY <1>1, <1>2, <1>4, <2>1
<1> QED BY <1>3, <1>4

LEMMA NotePlace ==
  ASSUME IInv, NEW x \in Places, Allowed(x), NoteFailure(x)
  PROVE  nextSlot' \in Places /\ PlaceInv'
<1>1. /\ skipped \in Nat /\ acked \in Places \cup {NoSlot} /\ acked' = acked
      /\ MaxAbandoned \in Nat /\ MaxAbandoned + 1 < Sectors
  BY Constants DEF IInv, JournalTypeOK, NoteFailure
<1>2. GivenUp(x) \in Nat /\ skipped =< GivenUp(x) BY <1>1 DEF GivenUp
<1>3. CASE GivesUp(x)
  <2>1. nextSlot' = NextSector(x) /\ skipped' = GivenUp(x) + 1 /\ GivenUp(x) < MaxAbandoned
    BY <1>1, <1>2, <1>3 DEF NoteFailure, GivesUp, Spent
  <2>2. /\ nextSlot' \in Places /\ Opens(nextSlot')
        /\ SectorOf(nextSlot') = (IF SectorOf(x) + 1 < Sectors THEN SectorOf(x) + 1 ELSE 0)
    BY <2>1, NextIn
  <2>3. PICK y \in Places : y = nextSlot' BY <2>2
  <2>4. ASSUME acked # NoSlot
        PROVE  Ahead(y) \in 1 .. (MaxAbandoned + 1) /\ Ahead(y) =< skipped' + 1
    <3>1. acked \in Places BY <1>1, <2>4
    <3>2. Ahead(x) \in 0 .. (MaxAbandoned + 1) /\ Ahead(x) =< skipped + 1
      <4>1. CASE Opens(x) BY <1>1, <2>4, <4>1 DEF Allowed
      <4>2. CASE ~Opens(x)
        <5>1. Ahead(x) = 0 BY <2>4, <3>1, <4>2, AheadSame DEF Allowed
        <5> QED BY <1>1, <5>1
      <4> QED BY <4>1, <4>2
    <3>3. Ahead(x) =< MaxAbandoned BY <1>1, <1>2, <2>1, <3>2
    <3>4. Ahead(x) + 1 < Sectors BY <1>1, <3>2, <3>3, Constants
    <3>5. Ahead(y) = Ahead(x) + 1 BY <2>2, <2>3, <3>1, <3>4, AheadNext
    <3> QED BY <1>1, <1>2, <2>1, <3>2, <3>3, <3>5
  <2> QED BY <1>1, <2>2, <2>3, <2>4 DEF PlaceInv, Allowed, Ahead
<1>4. CASE ~GivesUp(x)
  <2>1. nextSlot' = x /\ skipped' = GivenUp(x) BY <1>4 DEF NoteFailure
  <2> QED BY <1>1, <1>2, <2>1 DEF PlaceInv, Allowed, Ahead
<1> QED BY <1>3, <1>4

(* The slot after an acknowledged record is a place for the next one.       *)
LEMMA AfterAllowed ==
  ASSUME NEW a \in Places
  PROVE  \/ ~Opens(SlotAfter(a)) /\ SectorOf(SlotAfter(a)) = SectorOf(a)
         \/ Opens(SlotAfter(a)) /\ (SectorOf(SlotAfter(a)) + Sectors - SectorOf(a)) % Sectors = 1
<1> DEFINE s == SectorOf(a)
           y == SlotAfter(a)
<1>1. /\ ~Opens(y) => SectorOf(y) = s
      /\ Opens(y) => SectorOf(y) = (IF s + 1 < Sectors THEN s + 1 ELSE 0)
      /\ s \in 0 .. (Sectors - 1) /\ Sectors \in Nat /\ 1 < Sectors
  BY AfterIn, Sector, Constants
<1> HIDE DEF s, y
<1>2. (s + 1 + Sectors - s) % Sectors = 1 /\ (0 + Sectors - (Sectors - 1)) % Sectors = 1 BY <1>1
<1>3. CASE s + 1 < Sectors BY <1>1, <1>2, <1>3 DEF s, y
<1>4. CASE ~(s + 1 < Sectors)
  <2>1. s = Sectors - 1 BY <1>1, <1>4
  <2> QED BY <1>1, <1>2, <1>4, <2>1 DEF s, y
<1> QED BY <1>3, <1>4

(* A position that follows what is acknowledged, in the next state.         *)
LEMMA AfterPlace ==
  ASSUME NEW a \in Places, NEW k \in Nat, acked' = a, nextSlot' = SlotAfter(a), skipped' = k
  PROVE  PlaceInv'
<1>1. \/ ~Opens(nextSlot') /\ SectorOf(nextSlot') = SectorOf(acked')
      \/ Opens(nextSlot') /\ (SectorOf(nextSlot') + Sectors - SectorOf(acked')) % Sectors = 1
  BY AfterAllowed
<1>2. 1 \in 1 .. (MaxAbandoned + 1) /\ 1 =< k + 1
  <2>1. MaxAbandoned \in Nat BY Constants
  <2> QED BY <2>1
<1> QED BY <1>1, <1>2 DEF PlaceInv, Allowed, Ahead

-----------------------------------------------------------------------------
(* The initial states *)

LEMMA WrittenIn ==
  ASSUME NEW i \in Nat
  PROVE  Written(i) \in Record /\ Written(i).seq = i + 1 /\ Written(i).bucket \in Nat
<1> DEFINE w == Window + 1
           lap == i \div w
           k == i % w
           b == lap * Window + Max2(k, 1)
<1>1. w \in Nat \ {0} /\ Window \in Nat BY Constants
<1>2. lap \in Nat /\ k \in Nat
  <2> HIDE DEF w
  <2> QED BY <1>1
<1>3. b \in Nat
  <2> HIDE DEF lap, k
  <2> QED BY <1>1, <1>2 DEF Max2
<1>4. SourceSeq[1] \in Sources BY SourcesIn
<1>5. Written(i) = [kind |-> IF k = 0 THEN "manifest" ELSE "data", seq |-> i + 1,
                    src |-> SourceSeq[1], bucket |-> b, scope |-> IF k = 0 THEN 0 ELSE 1]
  BY DEF Written
<1> HIDE DEF b, k
<1> QED BY <1>3, <1>4, <1>5 DEF Record

LEMMA InitFlash ==
  /\ Initial \in Flash
  /\ Held(Initial) = {x \in Places : x < Fill} /\ \A x \in Held(Initial) : Initial[x].seq = x + 1
<1>1. \A x \in Places : x \in Nat /\ Written(x) \in Record /\ Written(x).seq = x + 1
  BY WrittenIn, Constants DEF Places
<1>2. Initial = [x \in Places |-> IF x < Fill THEN Written(x) ELSE Erased] BY DEF Initial
<1>3. Initial \in Flash BY <1>1, <1>2, ContentsIn DEF Flash
<1>4. \A x \in Places : IsRecord(Initial[x]) <=> x < Fill BY <1>1, <1>2, ContentsIn
<1> QED BY <1>1, <1>2, <1>3, <1>4 DEF Held

LEMMA InitIInv == JournalInit => IInv
<1> SUFFICES ASSUME JournalInit PROVE IInv OBVIOUS
<1> USE DEF JournalInit
<1>1. chip \in Flash /\ chip = Initial BY InitFlash
<1>2. /\ Fill \in Nat /\ NoSlot \in Nat \ {0} /\ Fill =< NoSlot /\ Places = 0 .. (NoSlot - 1)
  BY Constants DEF NoSlot, Places
<1>3. nextSlot \in Places /\ nextSeq \in Nat \ {0} /\ acked \in Places \cup {NoSlot}
  <2> HIDE DEF NoSlot, Places
  <2> QED BY <1>2
<1>4. /\ cursor \in [Sources -> Nat] /\ index \in [Sources -> SUBSET Places]
      /\ manifest \in [Sources -> [bucket : Nat, seq : Nat]]
  <2>1. \A s \in Sources : (IF Usable(chip, s, 1) = {} THEN 0 ELSE Newest(chip, s, 1)) \in Nat
    BY <1>1, NewestIn
  <2>2. \A s \in Sources : Indexed(chip, s, 1) \in SUBSET Places BY DEF Indexed, Usable
  <2>3. \A s \in Sources : CurrentManifest(chip, s) \in [bucket : Nat, seq : Nat]
    BY <1>1, ManifestIn
  <2> QED BY <2>1, <2>2, <2>3
<1>5. now \in Nat
  <2>1. Fill # 0 => Fill - 1 \in Nat BY <1>2
  <2> QED BY <2>1, WrittenIn
<1>6. JournalTypeOK
  <2>1. target \in [Sources -> Targets \cup {0}] BY Constants
  <2>2. ring \in [Sources -> 0 .. Window] BY Constants
  <2>3. turn \in 0 .. (Len(SourceSeq) - 1) /\ restoreAt \in 1 .. (Len(SourceSeq) + 1) BY SourcesIn
  <2>4. spot \in Places BY <1>2
  <2>5. pending \in [Sources -> BOOLEAN] /\ rec = Erased /\ scanOk \in BOOLEAN OBVIOUS
  <2>6. chip \in [Places -> Record \cup {Erased, Torn}] BY <1>1 DEF Flash, Contents
  <2>7. /\ failSlot = NoSlot /\ failCount = 0 /\ skipped = 0 /\ resting = FALSE /\ step = "idle"
        /\ events = 0
    OBVIOUS
  <2> HIDE DEF JournalInit
  <2> QED BY <1>3, <1>4, <1>5, <2>1, <2>2, <2>3, <2>4, <2>5, <2>6, <2>7 DEF JournalTypeOK
<1>7. UniqueSeq /\ SeqInv
  <2>1. \A x \in Held(chip) : x \in Nat /\ x < Fill /\ chip[x].seq = x + 1
    BY <1>1, InitFlash, Constants DEF Places
  <2> QED BY <1>2, <2>1 DEF UniqueSeq, SeqInv
<1>8. RecInv /\ SpotInv BY DEF RecInv, SpotInv
<1>9. PlaceInv
  <2> SUFFICES ASSUME acked # NoSlot PROVE PlaceInv BY DEF PlaceInv, Allowed
  <2>1. Fill # 0 /\ acked = Fill - 1 OBVIOUS
  <2>2. acked \in Places BY <1>2, <2>1
  <2>3. nextSlot = SlotAfter(acked)
    <3>1. (Fill - 1) + 1 = Fill BY <1>2
    <3> QED BY <2>1, <3>1 DEF SlotAfter, NoSlot
  <2>4. \/ ~Opens(nextSlot) /\ SectorOf(nextSlot) = SectorOf(acked)
        \/ Opens(nextSlot) /\ (SectorOf(nextSlot) + Sectors - SectorOf(acked)) % Sectors = 1
    BY <2>2, <2>3, AfterAllowed
  <2>5. 1 \in 1 .. (MaxAbandoned + 1) /\ 1 =< skipped + 1 BY Constants
  <2> HIDE DEF JournalInit
  <2> QED BY <2>4, <2>5 DEF PlaceInv, Allowed, Ahead
<1> QED BY <1>6, <1>7, <1>8, <1>9 DEF IInv

-----------------------------------------------------------------------------
(* One lemma per action *)

(* What leaves flash, numbers and position alone leaves the invariant.      *)
LEMMA Frame ==
  ASSUME IInv, UNCHANGED <<chip, nextSeq, step, rec, spot, nextSlot, acked, skipped>>, JournalTypeOK'
  PROVE  IInv'
BY DEF IInv, UniqueSeq, SeqInv, RecInv, SpotInv, PlaceInv, Allowed, Ahead, Held

LEMMA TickIn == ASSUME IInv, Tick PROVE IInv'
<1>1. JournalTypeOK BY DEF IInv
<1>2. now' \in Nat BY <1>1 DEF Tick, JournalTypeOK
<1>3. ring' \in [Sources -> 0 .. Window]
  <2>1. \A s \in Sources : Min2(ring[s] + 1, Window) \in 0 .. Window
    BY <1>1, Constants DEF JournalTypeOK, Min2
  <2> QED BY <2>1 DEF Tick
<1>4. JournalTypeOK'
  BY <1>1, <1>2, <1>3 DEF Tick, JournalTypeOK, place, episode, append, ready
<1> QED BY <1>4, Frame DEF Tick, place, episode, append

LEMMA ResetRingIn ==
  ASSUME IInv, NEW s \in Sources, NEW t \in Targets \cup {0}, ResetRing(s, t) PROVE IInv'
<1>1. JournalTypeOK BY DEF IInv
<1>2. JournalTypeOK'
  BY <1>1, SMTT(60) DEF ResetRing, Mishap, JournalTypeOK, place, episode, append, ready
<1> QED BY <1>2, Frame DEF ResetRing, place, episode, append

LEMMA ResetSameIn == ASSUME IInv, NEW s \in Sources, ResetSame(s) PROVE IInv'
<1>1. JournalTypeOK BY DEF IInv
<1>2. JournalTypeOK'
  BY <1>1, SMTT(60) DEF ResetSame, Mishap, JournalTypeOK, place, episode, append, ready
<1> QED BY <1>2, Frame DEF ResetSame, place, episode, append

LEMMA ConsumeIn == ASSUME IInv, NEW s \in Sources, Consume(s) PROVE IInv'
<1>1. JournalTypeOK BY DEF IInv
<1>2. PICK n \in 0 .. ring[s] : ring' = [ring EXCEPT ![s] = n] BY DEF Consume
<1>3. ring \in [Sources -> 0 .. Window] /\ n \in 0 .. Window BY <1>1, Constants DEF JournalTypeOK
<1>4. ring' \in [Sources -> 0 .. Window] BY <1>2, <1>3
<1>5. pending' \in [Sources -> BOOLEAN] BY <1>1 DEF Consume, JournalTypeOK
<1>6. JournalTypeOK'
  BY <1>1, <1>4, <1>5 DEF Consume, JournalTypeOK, place, episode, append, ready
<1> QED BY <1>6, Frame DEF Consume, place, episode, append

LEMMA RestoreNextIn == ASSUME IInv, RestoreNext PROVE IInv'
<1>1. JournalTypeOK BY DEF IInv
<1>2. restoreAt \in 1 .. Len(SourceSeq) /\ Len(SourceSeq) \in Nat
  BY <1>1, SourcesIn DEF RestoreNext, RestoreDue, Restored, JournalTypeOK
<1>3. PICK s \in Sources : s = SourceSeq[restoreAt] BY <1>2, SourcesIn
<1>4. ring \in [Sources -> 0 .. Window] /\ Spliced(s) \in 0 .. Window
  BY <1>1, SplicedIn DEF JournalTypeOK
<1>5. ring' = ring \/ ring' = [ring EXCEPT ![s] = Spliced(s)] BY <1>3 DEF RestoreNext
<1>6. ring' \in [Sources -> 0 .. Window] BY <1>4, <1>5
<1>7. restoreAt' \in 1 .. (Len(SourceSeq) + 1) BY <1>2 DEF RestoreNext
<1>8. JournalTypeOK'
  BY <1>1, <1>6, <1>7 DEF RestoreNext, JournalTypeOK, place, episode, append
<1> QED BY <1>8, Frame DEF RestoreNext, place, episode, append

LEMMA RestoreFailsIn == ASSUME IInv, RestoreFails PROVE IInv'
<1>1. JournalTypeOK BY DEF IInv
<1>2. restoreAt' \in 1 .. (Len(SourceSeq) + 1) BY SourcesIn DEF RestoreFails
<1>3. JournalTypeOK'
  <2>1. UNCHANGED <<chip, nextSlot, nextSeq, turn, acked, cursor, index, manifest, target, pending, ring,
                    failSlot, failCount, skipped, resting, step, rec, spot, now, scanOk>>
    BY DEF RestoreFails, place, sources, episode, append
  <2>2. events' \in Nat BY <1>1 DEF RestoreFails, Mishap, JournalTypeOK
  <2> QED BY <1>1, <1>2, <2>1, <2>2 DEF JournalTypeOK
<1> QED BY <1>3, Frame DEF RestoreFails, place, episode, append

LEMMA MinutePassesIn == ASSUME IInv, MinutePasses PROVE IInv'
<1>1. JournalTypeOK BY DEF IInv
<1>2. JournalTypeOK'
  BY <1>1 DEF MinutePasses, JournalTypeOK, place, sources, append, ready
<1> QED BY <1>2, Frame DEF MinutePasses, place, append

LEMMA ChooseIn == ASSUME IInv, Choose PROVE IInv'
<1>1. JournalTypeOK BY DEF IInv
<1>2. PICK k \in 0 .. (Len(SourceSeq) - 1) :
        LET m == ManifestDue(Turn(k), Wanted(Turn(k)))
        IN  rec' = [kind |-> IF m THEN "manifest" ELSE "data", seq |-> nextSeq,
                    src |-> Turn(k), bucket |-> Wanted(Turn(k)),
                    scope |-> IF m THEN 0 ELSE target[Turn(k)]]
  BY DEF Choose
<1>3. Turn(k) \in Sources
  <2>1. Len(SourceSeq) \in Nat \ {0} /\ turn \in Nat /\ k \in Nat
    BY <1>1, SourcesIn DEF JournalTypeOK
  <2>2. ((turn + k) % Len(SourceSeq)) + 1 \in 1 .. Len(SourceSeq)
    <3> DEFINE l == Len(SourceSeq)
    <3>1. l \in Nat \ {0} BY <2>1
    <3> HIDE DEF l
    <3>2. ((turn + k) % l) + 1 \in 1 .. l BY <2>1, <3>1
    <3> QED BY <3>2 DEF l
  <2> QED BY <2>2, SourcesIn DEF Turn
<1>4. PICK s \in Sources : s = Turn(k) BY <1>3
<1>5. Wanted(s) \in Nat
  <2>1. cursor[s] \in Nat /\ now \in Nat /\ ring[s] \in Nat
    BY <1>1, Constants DEF JournalTypeOK
  <2> QED BY <2>1, SMTT(60) DEF Wanted, Oldest, Max2
<1>6. target[s] \in Nat /\ nextSeq \in Nat \ {0}
  <2>1. target \in [Sources -> Targets \cup {0}] /\ nextSeq \in Nat \ {0} BY <1>1 DEF JournalTypeOK
  <2>2. \A t \in Targets \cup {0} : t \in Nat BY Constants
  <2> QED BY <2>1, <2>2
<1>7. rec' \in Record /\ rec'.seq = nextSeq
  <2>1. rec' = [kind |-> IF ManifestDue(s, Wanted(s)) THEN "manifest" ELSE "data", seq |-> nextSeq,
                src |-> s, bucket |-> Wanted(s),
                scope |-> IF ManifestDue(s, Wanted(s)) THEN 0 ELSE target[s]]
    BY <1>2, <1>4
  <2> QED BY <1>5, <1>6, <2>1 DEF Record
<1>8. nextSeq' = nextSeq + 1 /\ step' = "prepare" /\ UNCHANGED <<chip, nextSlot, acked, skipped, spot>>
  BY DEF Choose, Reserve, episode
<1>9. JournalTypeOK'
  <2>1. UNCHANGED <<turn, cursor, index, manifest, target, pending, ring, failSlot, failCount, resting,
                    now, scanOk, restoreAt, events>>
    BY DEF Choose, sources, episode, ready
  <2>2. nextSeq' \in Nat \ {0} BY <1>6, <1>8
  <2> QED BY <1>1, <1>7, <1>8, <2>1, <2>2 DEF JournalTypeOK
<1>10. UniqueSeq' /\ SeqInv' /\ RecInv'
  <2>1. \A x \in Held(chip) : chip[x].seq \in Nat /\ chip[x].seq < nextSeq
    BY <1>1, ContentsIn DEF IInv, SeqInv, Held, JournalTypeOK, Contents
  <2>2. UniqueSeq BY DEF IInv
  <2> QED BY <1>6, <1>7, <1>8, <2>1, <2>2 DEF UniqueSeq, SeqInv, RecInv, Held
<1>11. SpotInv' BY <1>8 DEF SpotInv
<1>12. PlaceInv' BY <1>8 DEF IInv, PlaceInv, Allowed, Ahead
<1> QED BY <1>9, <1>10, <1>11, <1>12 DEF IInv

LEMMA PrepareDoneIn == ASSUME IInv, PrepareDone PROVE IInv'
<1>1. JournalTypeOK BY DEF IInv
<1>2. /\ Landing \in Places /\ Allowed(Landing)
      /\ ~Entered => Landing = nextSlot /\ chip[nextSlot] = Erased
  BY LandingIn
<1>3. /\ spot' = Landing /\ nextSlot' = Landing /\ step = "prepare" /\ step' = "program"
      /\ UNCHANGED <<nextSeq, acked, skipped, rec>>
  BY DEF PrepareDone, episode
<1>4. Thinned(chip') /\ chip'[Landing] = Erased
  <2>1. CASE Entered
    <3>1. chip' = Filled(Landing, Erased) BY <2>1 DEF PrepareDone
    <3>2. chip'[Landing] = Erased BY <1>2, <3>1 DEF Filled
    <3> QED BY <1>1, <1>2, <3>1, <3>2, FilledThin
  <2>2. CASE ~Entered
    <3>1. chip' = chip /\ chip'[Landing] = Erased BY <1>2, <2>2 DEF PrepareDone
    <3>2. Thinned(chip) BY <1>1 DEF Thinned, JournalTypeOK, Flash, Contents
    <3> QED BY <3>1, <3>2
  <2> QED BY <2>1, <2>2
<1>5. chip' \in [Places -> Record \cup {Erased, Torn}] BY <1>4 DEF Thinned, Flash, Contents
<1>6. JournalTypeOK'
  BY <1>1, <1>2, <1>3, <1>5 DEF PrepareDone, JournalTypeOK, sources, episode, ready
<1>7. Numbered(chip', nextSeq) BY <1>4, ThinnedNumbered
<1>8. \A x \in Held(chip') : x \in Held(chip) /\ chip'[x] = chip[x] BY <1>4, ThinnedHeld
<1>9. UniqueSeq' /\ SeqInv' BY <1>3, <1>7 DEF Numbered, UniqueSeq, SeqInv, Held
<1>10. RecInv'
  <2>1. rec \in Record /\ rec.seq < nextSeq /\ \A x \in Held(chip) : chip[x].seq # rec.seq
    BY <1>3 DEF IInv, RecInv
  <2>2. \A x \in Held(chip') : chip'[x].seq # rec.seq BY <1>8, <2>1
  <2> QED BY <1>3, <2>1, <2>2 DEF RecInv, Held
<1>11. SpotInv' BY <1>3, <1>4 DEF SpotInv, Erased
<1>12. PlaceInv' BY <1>2, <1>3 DEF PlaceInv, Allowed, Ahead
<1> QED BY <1>6, <1>9, <1>10, <1>11, <1>12 DEF IInv

(* A failure: the position is allowed and the flash has numbers given out.  *)
LEMMA NoteIn ==
  ASSUME IInv, NEW x \in Places, Allowed(x), NoteFailure(x), Mishap,
         chip' \in Flash, Numbered(chip', nextSeq)
  PROVE  IInv'
<1>1. JournalTypeOK BY DEF IInv
<1>2. nextSlot' \in Places /\ PlaceInv' BY NotePlace
<1>3. skipped' \in Nat /\ failCount' \in Nat
  <2>1. skipped \in Nat /\ failCount \in Nat BY <1>1 DEF JournalTypeOK
  <2>2. GivenUp(x) \in Nat /\ InARow(x) \in Nat BY <2>1 DEF GivenUp, InARow
  <2> QED BY <2>2 DEF NoteFailure
<1>4. resting' \in BOOLEAN /\ failSlot' \in Places \cup {NoSlot}
  <2>1. resting \in BOOLEAN BY <1>1 DEF JournalTypeOK
  <2> QED BY <2>1 DEF NoteFailure, Spent
<1>5. chip' \in [Places -> Record \cup {Erased, Torn}] BY DEF Flash, Contents
<1>6. spot' \in Places
  <2>1. Sectors * PerSector \in Nat \ {0} BY Constants
  <2>2. spot' = 0 BY DEF NoteFailure, Return
  <2> QED BY <2>1, <2>2 DEF Places
<1>7. rec' = Erased /\ step' = "idle" /\ nextSeq' = nextSeq BY DEF NoteFailure, Return
<1>8. events' \in Nat BY <1>1 DEF Mishap, JournalTypeOK
<1>9. JournalTypeOK'
  BY <1>1, <1>2, <1>3, <1>4, <1>5, <1>6, <1>7, <1>8 DEF NoteFailure, JournalTypeOK, sources, ready
<1>10. UniqueSeq' /\ SeqInv' BY <1>7 DEF Numbered, UniqueSeq, SeqInv, Held
<1>11. RecInv' /\ SpotInv' BY <1>7 DEF RecInv, SpotInv
<1> QED BY <1>2, <1>9, <1>10, <1>11 DEF IInv

LEMMA PrepareFailsIn == ASSUME IInv, PrepareFails PROVE IInv'
<1>1. JournalTypeOK /\ Mishap BY DEF IInv, PrepareFails
<1>2. CASE NoteFailure(nextSlot) /\ UNCHANGED chip
  <2>1. Thinned(chip) BY <1>1 DEF Thinned, JournalTypeOK, Flash, Contents
  <2>2. chip' \in Flash /\ Numbered(chip', nextSeq) BY <1>2, <2>1, ThinnedNumbered
  <2>3. nextSlot \in Places /\ Allowed(nextSlot) BY <1>1 DEF IInv, PlaceInv, JournalTypeOK
  <2> QED BY <1>1, <1>2, <2>2, <2>3, NoteIn
<1>3. CASE NoteFailure(Landing) /\ chip' \in HalfErased(Landing)
  <2>1. Landing \in Places /\ Allowed(Landing) BY LandingIn
  <2>2. Thinned(chip') BY <1>1, <1>3, <2>1, HalfThin
  <2>3. chip' \in Flash /\ Numbered(chip', nextSeq) BY <2>2, ThinnedNumbered
  <2> QED BY <1>1, <1>3, <2>1, <2>3, NoteIn
<1> QED BY <1>2, <1>3 DEF PrepareFails

LEMMA ProgramFailsIn == ASSUME IInv, ProgramFails PROVE IInv'
<1>1. Mishap /\ NoteFailure(spot) /\ chip' \in Programmed /\ step = "program" BY DEF ProgramFails
<1>2. chip' \in Flash /\ Numbered(chip', nextSeq) BY <1>1, ProgrammedIn
<1>3. spot \in Places /\ Allowed(spot)
  <2>1. spot \in Places /\ spot = nextSlot /\ Allowed(nextSlot)
    BY <1>1 DEF IInv, SpotInv, PlaceInv, JournalTypeOK
  <2> QED BY <2>1
<1> QED BY <1>1, <1>2, <1>3, NoteIn

LEMMA ProgramIn == ASSUME IInv, Program PROVE IInv'
<1>1. JournalTypeOK BY DEF IInv
<1>2. step = "program" /\ spot \in Places /\ rec \in Record
  BY <1>1 DEF Program, IInv, RecInv, JournalTypeOK
<1>3. chip' \in Programmed BY DEF Program, Programmed
<1>4. chip' \in Flash /\ Numbered(chip', nextSeq) BY <1>2, <1>3, ProgrammedIn
<1>5. /\ nextSlot' = SlotAfter(spot) /\ acked' = spot /\ skipped' = 0 /\ failSlot' = NoSlot
      /\ failCount' = 0 /\ resting' = FALSE
      /\ step' = "idle" /\ rec' = Erased /\ spot' = 0 /\ nextSeq' = nextSeq
  BY DEF Program, Acknowledge, Return
<1>6. nextSlot' \in Places /\ PlaceInv' BY <1>2, <1>5, AfterIn, AfterPlace
<1>7. turn' \in 0 .. (Len(SourceSeq) - 1)
  <2> DEFINE i == CHOOSE i \in DOMAIN SourceSeq : SourceSeq[i] = rec.src
             l == Len(SourceSeq)
  <2>1. rec.src \in Sources BY <1>2 DEF Record
  <2>2. i \in 1 .. l /\ l \in Nat \ {0} BY <2>1, SourcesIn
  <2>3. turn' = i - 1 \/ turn' = i % l BY DEF Program, Acknowledge
  <2> HIDE DEF i, l
  <2>4. turn' \in 0 .. (l - 1) BY <2>2, <2>3
  <2> QED BY <2>4 DEF l
<1>8. /\ cursor' \in [Sources -> Nat] /\ manifest' \in [Sources -> [bucket : Nat, seq : Nat]]
  <2>1. /\ cursor \in [Sources -> Nat] /\ manifest \in [Sources -> [bucket : Nat, seq : Nat]]
    BY <1>1 DEF JournalTypeOK
  <2>2. rec.bucket \in Nat /\ rec.seq \in Nat /\ rec.src \in Sources BY <1>2 DEF Record
  <2>3. CASE rec.kind = "manifest"
    <3>1. /\ manifest' = [manifest EXCEPT ![rec.src] = [bucket |-> rec.bucket, seq |-> rec.seq]]
          /\ cursor' = cursor
      BY <2>3 DEF Program, Acknowledge
    <3> QED BY <2>1, <2>2, <3>1
  <2>4. CASE rec.kind # "manifest"
    <3>1. manifest' = manifest /\ cursor' = [cursor EXCEPT ![rec.src] = rec.bucket]
      BY <2>4 DEF Program, Acknowledge
    <3> QED BY <2>1, <2>2, <3>1
  <2> QED BY <2>3, <2>4
<1>9. chip' \in [Places -> Record \cup {Erased, Torn}] BY <1>4 DEF Flash, Contents
<1>10. 0 \in Places
  <2>1. Sectors * PerSector \in Nat \ {0} BY Constants
  <2> QED BY <2>1 DEF Places
<1>11. JournalTypeOK'
  BY <1>1, <1>2, <1>5, <1>6, <1>7, <1>8, <1>9, <1>10 DEF Program, JournalTypeOK, ready
<1>12. UniqueSeq' /\ SeqInv' BY <1>4, <1>5 DEF Numbered, UniqueSeq, SeqInv, Held
<1>13. RecInv' /\ SpotInv' BY <1>5 DEF RecInv, SpotInv
<1> QED BY <1>6, <1>11, <1>12, <1>13 DEF IInv

(* What a restart finds is the flash without more records than were given   *)
(* out.                                                                     *)
LEMMA LeftIn ==
  ASSUME IInv, NEW f \in LeftBehind PROVE f \in Flash /\ Numbered(f, nextSeq)
<1>1. JournalTypeOK BY DEF IInv
<1>2. CASE step = "prepare" /\ Entered
  <2>1. f \in HalfErased(Landing) /\ Landing \in Places BY <1>2, LandingIn DEF LeftBehind
  <2>2. Thinned(f) BY <1>1, <2>1, HalfThin
  <2> QED BY <2>2, ThinnedNumbered
<1>3. CASE step = "program"
  <2>1. f \in Programmed BY <1>3 DEF LeftBehind
  <2> QED BY <1>3, <2>1, ProgrammedIn
<1>4. CASE ~(step = "prepare" /\ Entered) /\ step # "program"
  <2>1. f = chip BY <1>4 DEF LeftBehind
  <2>2. Thinned(chip) BY <1>1 DEF Thinned, JournalTypeOK, Flash, Contents
  <2> QED BY <2>1, <2>2, ThinnedNumbered
<1> QED BY <1>2, <1>3, <1>4

LEMMA ScanIn ==
  ASSUME NEW f \in Flash, NEW tg \in [Sources -> Targets], Scan(f, tg)
  PROVE  /\ nextSlot' \in Places /\ nextSeq' \in Nat \ {0} /\ acked' \in Places \cup {NoSlot}
         /\ acked' # NoSlot => acked' \in Places /\ nextSlot' = SlotAfter(acked')
         /\ \A x \in Held(f) : f[x].seq < nextSeq'
         /\ cursor' \in [Sources -> Nat] /\ index' \in [Sources -> SUBSET Places]
         /\ manifest' \in [Sources -> [bucket : Nat, seq : Nat]]
         /\ restoreAt' \in 1 .. (Len(SourceSeq) + 1)
<1>1. \A s \in Sources : (IF Usable(f, s, tg[s]) = {} THEN 0 ELSE Newest(f, s, tg[s])) \in Nat
  BY NewestIn
<1>2. \A s \in Sources : Indexed(f, s, tg[s]) \in SUBSET Places BY DEF Indexed, Usable
<1>3. \A s \in Sources : CurrentManifest(f, s) \in [bucket : Nat, seq : Nat] BY ManifestIn
<1>4. /\ cursor' \in [Sources -> Nat] /\ index' \in [Sources -> SUBSET Places]
      /\ manifest' \in [Sources -> [bucket : Nat, seq : Nat]]
  BY <1>1, <1>2, <1>3 DEF Scan
<1>5. restoreAt' \in 1 .. (Len(SourceSeq) + 1) BY SourcesIn DEF Scan
<1>6. CASE Held(f) = {}
  <2>1. nextSlot' = 0 /\ nextSeq' = 1 /\ acked' = NoSlot BY <1>6 DEF Scan
  <2>2. 0 \in Places
    <3>1. Sectors * PerSector \in Nat \ {0} BY Constants
    <3> QED BY <3>1 DEF Places
  <2> QED BY <1>4, <1>5, <1>6, <2>1, <2>2
<1>7. CASE Held(f) # {}
  <2>1. PICK h \in Places : /\ h = HeadSlot(f) /\ h \in Held(f)
                            /\ \A y \in Held(f) : f[y].seq =< f[h].seq
    BY <1>7, HeadIn
  <2>2. nextSlot' = SlotAfter(h) /\ nextSeq' = f[h].seq + 1 /\ acked' = h BY <1>7, <2>1 DEF Scan
  <2>3. \A y \in Held(f) : f[y].seq \in Nat BY ContentsIn DEF Flash, Held
  <2>4. \A y \in Held(f) : f[y].seq < f[h].seq + 1 BY <2>1, <2>3
  <2>5. SlotAfter(h) \in Places /\ f[h].seq + 1 \in Nat \ {0} BY <2>1, <2>3, AfterIn
  <2> QED BY <1>4, <1>5, <2>2, <2>4, <2>5
<1> QED BY <1>6, <1>7

LEMMA RestartIn == ASSUME IInv, Restart PROVE IInv'
<1>1. JournalTypeOK BY DEF IInv
<1>2. chip' \in LeftBehind /\ target' \in [Sources -> Targets] /\ Scan(chip', target') BY DEF Restart
<1>3. PICK f \in Flash : f = chip' /\ Numbered(f, nextSeq) BY <1>2, LeftIn
<1>4. PICK tg \in [Sources -> Targets] : tg = target' BY <1>2
<1>5. Scan(f, tg) BY <1>2, <1>3, <1>4
<1>6. /\ nextSlot' \in Places /\ nextSeq' \in Nat \ {0} /\ acked' \in Places \cup {NoSlot}
      /\ acked' # NoSlot => acked' \in Places /\ nextSlot' = SlotAfter(acked')
      /\ \A x \in Held(f) : f[x].seq < nextSeq'
      /\ cursor' \in [Sources -> Nat] /\ index' \in [Sources -> SUBSET Places]
      /\ manifest' \in [Sources -> [bucket : Nat, seq : Nat]]
      /\ restoreAt' \in 1 .. (Len(SourceSeq) + 1)
  BY <1>5, ScanIn
<1>7. /\ failSlot' = NoSlot /\ failCount' = 0 /\ skipped' = 0 /\ resting' = FALSE /\ turn' = 0
      /\ step' = "idle" /\ rec' = Erased /\ spot' = 0 /\ scanOk' \in BOOLEAN
  BY DEF Restart, Return
<1>8. ring' \in [Sources -> 0 .. Window] /\ pending' \in [Sources -> BOOLEAN]
  <2>1. PICK kept \in {{}, Sources} : ring' = [s \in Sources |-> IF s \in kept THEN ring[s] ELSE 0]
    BY DEF Restart
  <2>2. ring \in [Sources -> 0 .. Window] /\ 0 \in 0 .. Window BY <1>1, Constants DEF JournalTypeOK
  <2>3. ring' \in [Sources -> 0 .. Window] BY <2>1, <2>2
  <2> QED BY <2>3 DEF Restart
<1>9. now' \in Nat /\ events' \in Nat
  <2>1. now \in Nat /\ events \in Nat BY <1>1 DEF JournalTypeOK
  <2> QED BY <2>1 DEF Restart, Mishap, Max2
<1>10. 0 \in Places /\ 0 \in 0 .. (Len(SourceSeq) - 1)
  <2>1. Sectors * PerSector \in Nat \ {0} BY Constants
  <2>2. 0 \in Places BY <2>1 DEF Places
  <2> QED BY <2>2, SourcesIn
<1>11. target' \in [Sources -> Targets \cup {0}] BY <1>2
<1>12. chip' \in [Places -> Record \cup {Erased, Torn}] BY <1>3 DEF Flash, Contents
<1>13. JournalTypeOK'
  BY <1>6, <1>7, <1>8, <1>9, <1>10, <1>11, <1>12 DEF JournalTypeOK
<1>14. UniqueSeq' /\ SeqInv' BY <1>3, <1>6 DEF Numbered, UniqueSeq, SeqInv, Held
<1>15. RecInv' /\ SpotInv' BY <1>7 DEF RecInv, SpotInv
<1>16. PlaceInv'
  <2>1. CASE acked' = NoSlot BY <2>1 DEF PlaceInv, Allowed, NoSlot
  <2>2. CASE acked' # NoSlot
    <3>1. PICK a \in Places : a = acked' BY <1>6, <2>2
    <3> QED BY <1>6, <1>7, <2>2, <3>1, AfterPlace
  <2> QED BY <2>1, <2>2
<1> QED BY <1>13, <1>14, <1>15, <1>16 DEF IInv

LEMMA NextIInv == IInv /\ [JournalNext]_journalVars => IInv'
<1> SUFFICES ASSUME IInv, [JournalNext]_journalVars PROVE IInv' OBVIOUS
<1>1. CASE UNCHANGED journalVars
  <2>1. JournalTypeOK' BY <1>1
    DEF IInv, JournalTypeOK, journalVars, place, sources, episode, append, ready
  <2> QED BY <1>1, <2>1, Frame DEF journalVars, place, episode, append
<1>2. CASE Tick BY <1>2, TickIn
<1>3. CASE \E s \in Sources : \E t \in Targets \cup {0} : ResetRing(s, t) BY <1>3, ResetRingIn
<1>4. CASE \E s \in Sources : ResetSame(s) BY <1>4, ResetSameIn
<1>5. CASE \E s \in Sources : Consume(s) BY <1>5, ConsumeIn
<1>6. CASE RestoreFails BY <1>6, RestoreFailsIn
<1>7. CASE Service
  BY <1>7, RestoreNextIn, ChooseIn, PrepareDoneIn, PrepareFailsIn, ProgramIn, ProgramFailsIn DEF Service
<1>8. CASE MinutePasses BY <1>8, MinutePassesIn
<1>9. CASE Restart BY <1>9, RestartIn
<1> QED BY <1>1, <1>2, <1>3, <1>4, <1>5, <1>6, <1>7, <1>8, <1>9 DEF JournalNext

-----------------------------------------------------------------------------
(* What a step destroys *)

Spared == \A x \in Places : IsRecord(chip[x]) /\ chip'[x] # chip[x] /\ acked # NoSlot =>
                           Ahead(x) \in 1 .. (MaxAbandoned + 1)

(* An erase of the sector the position enters, in whole or in part.         *)
LEMMA EraseSpares ==
  ASSUME IInv, Entered, Beyond(chip', Landing) PROVE Spared
<1> SUFFICES ASSUME NEW x \in Places, chip'[x] # chip[x], acked # NoSlot
             PROVE  Ahead(x) \in 1 .. (MaxAbandoned + 1)
  BY DEF Spared
<1>1. Landing \in Places /\ Allowed(Landing) /\ Opens(Landing) BY LandingIn
<1>2. SectorOf(x) = SectorOf(Landing) BY DEF Beyond
<1>3. Ahead(Landing) \in 1 .. (MaxAbandoned + 1) BY <1>1 DEF Allowed
<1> QED BY <1>2, <1>3 DEF Ahead

LEMMA ProgramSpares ==
  ASSUME IInv, step = "program", chip' \in Programmed PROVE Spared
<1>1. PICK f \in Programmed : f = chip' OBVIOUS
<1>2. \A y \in Places : IsRecord(chip[y]) => f[y] = chip[y] BY ProgrammedIn
<1> QED BY <1>1, <1>2 DEF Spared

LEMMA StepSpares ==
  ASSUME IInv, [JournalNext]_journalVars PROVE Spared
<1>1. JournalTypeOK BY DEF IInv
<1>2. CASE UNCHANGED chip BY <1>2 DEF Spared
<1>3. CASE PrepareDone
  <2>1. CASE Entered
    <3>1. chip' = Filled(Landing, Erased) BY <1>3, <2>1 DEF PrepareDone
    <3>2. Landing \in Places BY LandingIn
    <3>3. Beyond(chip', Landing) BY <1>1, <3>1, <3>2, FilledThin
    <3> QED BY <2>1, <3>3, EraseSpares
  <2>2. CASE ~Entered BY <1>2, <1>3, <2>2 DEF PrepareDone
  <2> QED BY <2>1, <2>2
<1>4. CASE Entered /\ chip' \in HalfErased(Landing)
  <2>1. Landing \in Places BY LandingIn
  <2>2. Beyond(chip', Landing) BY <1>1, <1>4, <2>1, HalfThin
  <2> QED BY <1>4, <2>2, EraseSpares
<1>5. CASE PrepareFails BY <1>2, <1>4, <1>5 DEF PrepareFails
<1>6. CASE Program \/ ProgramFails
  <2>1. step = "program" /\ chip' \in Programmed BY <1>6 DEF Program, ProgramFails, Programmed
  <2> QED BY <2>1, ProgramSpares
<1>7. CASE Restart
  <2>1. chip' \in LeftBehind BY <1>7 DEF Restart
  <2>2. CASE step = "prepare" /\ Entered BY <1>4, <2>1, <2>2 DEF LeftBehind
  <2>3. CASE step = "program" BY <2>1, <2>3, ProgramSpares DEF LeftBehind
  <2>4. CASE ~(step = "prepare" /\ Entered) /\ step # "program"
    BY <1>2, <2>1, <2>4 DEF LeftBehind
  <2> QED BY <2>2, <2>3, <2>4
<1>8. CASE UNCHANGED journalVars BY <1>2, <1>8 DEF journalVars
<1>9. CASE \/ Tick \/ RestoreFails \/ MinutePasses \/ RestoreNext \/ Choose
           \/ \E s \in Sources :
                ResetSame(s) \/ Consume(s) \/ \E t \in Targets \cup {0} : ResetRing(s, t)
  BY <1>2, <1>9 DEF Tick, RestoreFails, MinutePasses, RestoreNext, Choose, ResetSame, Consume, ResetRing
<1> QED BY <1>3, <1>5, <1>6, <1>7, <1>8, <1>9 DEF JournalNext, Service

-----------------------------------------------------------------------------
(* The theorems *)

(* The inductive invariant holds in every reachable state: every number in  *)
(* the flash was given out, what is about to be programmed is erased, and   *)
(* the position is no further from what was acknowledged than allowed.      *)
THEOREM JournalInductive == JournalSpec => []IInv
BY InitIInv, NextIInv, PTL DEF JournalSpec

(* No two records in the flash carry one sequence number, whatever appends  *)
(* fail unseen and wherever power is lost, so that the scan of              *)
(* flash_journal_scan never has two heads to choose from.                   *)
THEOREM HeadNeverAmbiguous == JournalSpec => [](JournalTypeOK /\ UniqueSeq)
<1>1. IInv => JournalTypeOK /\ UniqueSeq BY DEF IInv
<1> QED BY <1>1, JournalInductive, PTL

(* A failing flash costs no records but those of the MaxAbandoned + 1       *)
(* sectors after that of the newest acknowledged one (the bound that        *)
(* history_journal_failure_step and the landing of a torn slot promise).    *)
THEOREM EraseAlwaysSpares == JournalSpec => EraseSparesWindow
<1>1. IInv /\ [JournalNext]_journalVars => [Spared]_journalVars BY StepSpares
<1> QED BY <1>1, JournalInductive, PTL DEF JournalSpec, EraseSparesWindow, Spared

-----------------------------------------------------------------------------
(* Rings: buckets of a fixed length *)

Span(n) == n * Step
Half == Step \div 2

LEMMA SpanIn ==
  /\ \A a \in Int : Span(a) \in Int
  /\ \A a, b \in Int : Span(a + b) = Span(a) + Span(b) /\ Span(a - b) = Span(a) - Span(b)
  /\ \A a, b \in Int : a =< b => Span(a) =< Span(b)
  /\ \A a, b \in Int : a < b => Span(a) + Step =< Span(b)
  /\ \A a \in Nat : Span(a) \in Nat
  /\ Span(0) = 0 /\ Span(1) = Step
<1> USE RingsAssumption DEF Span
<1>1. \A a \in Int : Span(a) \in Int OBVIOUS
<1>2. \A a \in Nat : Span(a) \in Nat OBVIOUS
<1>3. \A a, b \in Int : Span(a + b) = Span(a) + Span(b) /\ Span(a - b) = Span(a) - Span(b)
  OBVIOUS
<1>4. Span(0) = 0 /\ Span(1) = Step OBVIOUS
<1>5. ASSUME NEW a \in Int, NEW b \in Int, a =< b PROVE Span(a) =< Span(b)
  <2>1. b - a \in Nat BY <1>5
  <2>2. Span(b - a) \in Nat BY <2>1, <1>2
  <2>3. Span(b - a) = Span(b) - Span(a) BY <1>3
  <2> HIDE DEF Span
  <2> QED BY <2>2, <2>3, <1>1
<1>6. ASSUME NEW a \in Int, NEW b \in Int, a < b PROVE Span(a) + Step =< Span(b)
  <2>1. a + 1 \in Int /\ a + 1 =< b BY <1>6
  <2>2. Span(a + 1) =< Span(b) BY <2>1, <1>5
  <2>3. Span(a + 1) = Span(a) + Span(1) BY <1>3
  <2> QED BY <2>2, <2>3, <1>4
<1> QED BY <1>1, <1>2, <1>3, <1>4, <1>5, <1>6

LEMMA HalfIn == Half \in Nat /\ 2 * Half =< Step /\ Step =< 2 * Half + 1 /\ Step \in Nat /\ 1 < Step
BY RingsAssumption DEF Half

LEMMA BucketIn ==
  ASSUME NEW t \in Int
  PROVE  /\ BucketOf(t) \in Int /\ Span(BucketOf(t)) =< t /\ t < Span(BucketOf(t)) + Step
         /\ Boundary(t) = Span(BucketOf(t))
         /\ t \in Nat => BucketOf(t) \in Nat
<1>1. BucketOf(t) \in Int /\ t = Step * BucketOf(t) + (t % Step) /\ t % Step \in 0 .. Step - 1
  BY RingsAssumption DEF BucketOf
<1>2. Step * BucketOf(t) = Span(BucketOf(t)) BY <1>1, RingsAssumption DEF Span
<1>3. Span(BucketOf(t)) \in Int BY <1>1, SpanIn
<1>4. Boundary(t) = Span(BucketOf(t)) BY DEF Boundary, Span
<1>5. Span(BucketOf(t)) =< t /\ t < Span(BucketOf(t)) + Step
  BY <1>1, <1>2, <1>3, RingsAssumption
<1>6. ASSUME t \in Nat, BucketOf(t) < 0 PROVE FALSE
  <2>1. Span(BucketOf(t)) + Step =< 0 BY <1>1, <1>6, SpanIn
  <2> QED BY <2>1, <1>3, <1>5, <1>6, HalfIn
<1> QED BY <1>1, <1>4, <1>5, <1>6

LEMMA BucketOnce ==
  ASSUME NEW t \in Int, NEW k \in Int, Span(k) =< t, t < Span(k) + Step
  PROVE  BucketOf(t) = k
<1>1. BucketOf(t) \in Int /\ Span(BucketOf(t)) =< t /\ t < Span(BucketOf(t)) + Step BY BucketIn
<1>2. Span(k) \in Int /\ Span(BucketOf(t)) \in Int BY <1>1, SpanIn
<1>3. ~ (k < BucketOf(t))
  <2>1. k < BucketOf(t) => Span(k) + Step =< Span(BucketOf(t)) BY <1>1, SpanIn
  <2> QED BY <2>1, <1>1, <1>2, RingsAssumption
<1>4. ~ (BucketOf(t) < k)
  <2>1. BucketOf(t) < k => Span(BucketOf(t)) + Step =< Span(k) BY <1>1, SpanIn
  <2> QED BY <2>1, <1>1, <1>2, RingsAssumption
<1> QED BY <1>1, <1>3, <1>4

LEMMA BucketsOrdered ==
  ASSUME NEW t \in Int, NEW u \in Int, t =< u PROVE BucketOf(t) =< BucketOf(u)
<1>1. BucketOf(t) \in Int /\ Span(BucketOf(t)) =< t BY BucketIn
<1>2. BucketOf(u) \in Int /\ u < Span(BucketOf(u)) + Step BY BucketIn
<1>3. BucketOf(u) < BucketOf(t) => Span(BucketOf(u)) + Step =< Span(BucketOf(t))
  BY <1>1, <1>2, SpanIn
<1>4. Span(BucketOf(t)) \in Int /\ Span(BucketOf(u)) \in Int BY <1>1, <1>2, SpanIn
<1> QED BY <1>1, <1>2, <1>3, <1>4, HalfIn

(* A wall bucket and a bucket of this boot's own are less than one apart.   *)
LEMMA Apart ==
  ASSUME NEW b \in Int, NEW c \in Int
  PROVE  LET wall == Span(BucketOf(b + c))
             own  == b + Boundary(c)
         IN  wall \in Int /\ own \in Int /\ wall - own < Step /\ own - wall < Step
<1>1. /\ BucketOf(b + c) \in Int /\ Span(BucketOf(b + c)) =< b + c
      /\ b + c < Span(BucketOf(b + c)) + Step
  BY BucketIn
<1>2. /\ BucketOf(c) \in Int /\ Span(BucketOf(c)) =< c /\ c < Span(BucketOf(c)) + Step
      /\ Boundary(c) = Span(BucketOf(c))
  BY BucketIn
<1>3. Span(BucketOf(b + c)) \in Int /\ Span(BucketOf(c)) \in Int BY <1>1, <1>2, SpanIn
<1> QED BY <1>1, <1>2, <1>3, RingsAssumption

LEMMA LeastIn ==
  ASSUME NEW T, T \subseteq Nat, NEW n \in T
  PROVE  Min(T) \in T /\ \A y \in T : Min(T) =< y
<1> DEFINE R == OpToRel(<, Nat)
<1>1. IsWellFoundedOn(R, Nat) BY NatLessThanWellFounded
<1>2. \A x, y \in Nat : x < y => <<x, y>> \in R BY DEF OpToRel
<1> HIDE DEF R
<1>3. PICK m \in T : \A y \in T : ~ (<<y, m>> \in R) BY <1>1, WFMin
<1>4. ASSUME NEW y \in T PROVE m =< y
  <2>1. m \in Nat /\ y \in Nat OBVIOUS
  <2>2. ~ (y < m) BY <1>2, <1>3, <2>1
  <2> QED BY <2>1, <2>2
<1>5. \A y \in T : m =< y BY <1>4
<1> QED BY <1>5 DEF Min
-----------------------------------------------------------------------------
(* What a ring keeps *)

Samples == [closed : Nat \cup {None}, slack : Nat]

LEMMA UnreadIn == Unread \in Samples /\ Unread.closed = None /\ Unread.slack = 0 /\ None = -1
BY DEF Samples, Unread, None

(* The readings of y are of s, all n places further from the end.           *)
From(y, s, n) ==
  \A i \in DOMAIN y : y[i].closed # None =>
    \E j \in DOMAIN s : y[i] = s[j] /\ Len(y) - i = Len(s) - j + n

LEMMA YoungestIn ==
  ASSUME NEW s \in Seq(Samples)
  PROVE  /\ Youngest(s) \in Seq(Samples) /\ Len(Youngest(s)) =< RingSlots
         /\ From(Youngest(s), s, 0)
<1> DEFINE y == Youngest(s)
<1>1. Len(s) \in Nat /\ RingSlots \in Nat \ {0} BY RingsAssumption
<1>2. CASE Len(s) =< RingSlots
  <2>1. y = s BY <1>1, <1>2 DEF Youngest
  <2> HIDE DEF y
  <2>2. From(y, s, 0) BY <2>1, <1>1 DEF From
  <2> QED BY <2>1, <2>2, <1>2 DEF y
<1>3. CASE Len(s) > RingSlots
  <2> DEFINE k == Len(s) - RingSlots
  <2>1. y = SubSeq(s, k + 1, Len(s)) /\ k \in Nat \ {0} BY <1>1, <1>3 DEF Youngest
  <2> HIDE DEF y
  <2>2. y \in Seq(Samples) /\ Len(y) = RingSlots BY <2>1, <1>1
  <2>3. \A i \in 1 .. RingSlots : i + k \in DOMAIN s /\ y[i] = s[i + k]
    BY <2>1, <1>1, <1>3
  <2>4. \A i \in DOMAIN y : y[i] = s[i + k] /\ Len(y) - i = Len(s) - (i + k) + 0
    <3>1. DOMAIN y = 1 .. RingSlots BY <2>2, <1>1
    <3> QED BY <3>1, <2>2, <2>3, <1>1, <1>3
  <2>5. From(y, s, 0) BY <2>2, <2>3, <2>4 DEF From
  <2> QED BY <2>2, <2>5, <1>1 DEF y
<1> QED BY <1>1, <1>2, <1>3

LEMMA UnreadsIn ==
  ASSUME NEW s \in Seq(Samples), NEW n \in Nat
  PROVE  s \o Unreads(n) \in Seq(Samples) /\ From(s \o Unreads(n), s, n)
<1> DEFINE u == Unreads(n)
           r == s \o u
<1>1. u \in Seq(Samples) /\ Len(u) = n /\ \A i \in 1 .. n : u[i] = Unread
  BY UnreadIn DEF Unreads
<1> HIDE DEF u
<1>2. r \in Seq(Samples) /\ Len(r) = Len(s) + n BY <1>1
<1>3. \A i \in 1 .. Len(s) : r[i] = s[i] BY <1>1
<1>4. \A i \in DOMAIN r : i > Len(s) => r[i] = Unread BY <1>1, <1>2
<1> HIDE DEF r
<1>5. ASSUME NEW i \in DOMAIN r, r[i].closed # None
      PROVE  \E j \in DOMAIN s : r[i] = s[j] /\ Len(r) - i = Len(s) - j + n
  <2>1. i \in Nat \ {0} /\ ~ (i > Len(s)) BY <1>2, <1>4, <1>5, UnreadIn
  <2>2. i \in DOMAIN s /\ r[i] = s[i] BY <2>1, <1>3
  <2> QED BY <2>1, <2>2, <1>2
<1>6. From(r, s, n) BY <1>5 DEF From
<1> QED BY <1>2, <1>6 DEF r, u

LEMMA FromFrom ==
  ASSUME NEW s \in Seq(Samples), NEW r \in Seq(Samples), NEW y \in Seq(Samples),
         NEW m \in Nat, NEW n \in Nat, From(y, r, m), From(r, s, n)
  PROVE  From(y, s, n + m)
<1> SUFFICES ASSUME NEW i \in DOMAIN y, y[i].closed # None
             PROVE  \E j \in DOMAIN s : y[i] = s[j] /\ Len(y) - i = Len(s) - j + (n + m)
  BY DEF From
<1>1. PICK k \in DOMAIN r : y[i] = r[k] /\ Len(y) - i = Len(r) - k + m BY DEF From
<1>2. PICK j \in DOMAIN s : r[k] = s[j] /\ Len(r) - k = Len(s) - j + n BY <1>1 DEF From
<1>3. j \in Nat /\ k \in Nat /\ i \in Nat OBVIOUS
<1> QED BY <1>1, <1>2, <1>3, SMTT(60)

LEMMA PushedIn ==
  ASSUME NEW s \in Seq(Samples), NEW n \in Nat, NEW y, y = Youngest(s \o Unreads(n))
  PROVE  y \in Seq(Samples) /\ Len(y) =< RingSlots /\ From(y, s, n)
<1> DEFINE r == s \o Unreads(n)
<1>1. r \in Seq(Samples) /\ From(r, s, n) BY UnreadsIn
<1> HIDE DEF r
<1>2. Youngest(r) \in Seq(Samples) /\ Len(Youngest(r)) =< RingSlots /\ From(Youngest(r), r, 0)
  BY <1>1, YoungestIn
<1>3. From(Youngest(r), s, n + 0) BY <1>1, <1>2, FromFrom
<1> QED BY <1>2, <1>3 DEF r

(* Two readings of y are as different as those of s they are.               *)
Single(s) ==
  \A i, j \in DOMAIN s : s[i].closed # None /\ s[i].closed = s[j].closed => i = j

LEMMA SingleFrom ==
  ASSUME NEW s \in Seq(Samples), NEW y \in Seq(Samples), NEW n \in Nat, From(y, s, n), Single(s)
  PROVE  Single(y)
<1> SUFFICES ASSUME NEW i \in DOMAIN y, NEW j \in DOMAIN y,
                    y[i].closed # None, y[i].closed = y[j].closed
             PROVE  i = j
  BY DEF Single
<1>1. PICK k \in DOMAIN s : y[i] = s[k] /\ Len(y) - i = Len(s) - k + n BY DEF From
<1>2. PICK l \in DOMAIN s : y[j] = s[l] /\ Len(y) - j = Len(s) - l + n BY DEF From
<1>3. k = l BY <1>1, <1>2 DEF Single
<1> QED BY <1>1, <1>2, <1>3
-----------------------------------------------------------------------------
(* The inductive invariant *)

Remainders == -Half .. Step - 1 - Half

RingShape ==
  /\ time \in Nat /\ born \in Nat /\ Span(RingSlots) =< born /\ born =< time
  /\ dated \in BOOLEAN
  /\ trend \in Seq(Samples) /\ Len(trend) =< RingSlots
  /\ raster \in [open : BOOLEAN, bucket : Nat, commit : Nat \cup {None}, fresh : BOOLEAN]
  /\ sealed \in [residual : Remainders, boots : 0 .. 1]
  /\ pulse \in [sign : Nat, commit : Nat \cup {None}]
  /\ filed \subseteq [bucket : Nat, sample : Samples]
  /\ writer \in [cursor : Nat \cup {None}, restored : BOOLEAN,
                 seam : 0 .. RingSlots - 1 \cup {None}, floor : Nat \cup {None}]
  /\ seams \in [count : 0 .. MaxSeams, astray : BOOLEAN]

(* The raster, the newest commit and the sign of life agree, and none of    *)
(* them is ahead of the clock.                                              *)
RasterInv ==
  /\ ~raster.open => raster.bucket = 0 /\ raster.commit = None
  /\ raster.commit = None => trend = <<>>
  /\ raster.commit # None => BucketOf(raster.commit) = raster.bucket /\ raster.commit =< Uptime
  /\ raster.bucket =< BucketOf(Uptime)
  /\ pulse.commit = raster.commit /\ pulse.sign =< Uptime

WriterInv ==
  /\ writer.cursor = None <=> filed = {}
  /\ writer.cursor # None => /\ \E e \in filed : e.bucket = writer.cursor
                             /\ \A e \in filed : e.bucket =< writer.cursor
  /\ writer.seam # None => writer.floor = None

(* A reading is off by the remainder of the boot that took it, less that of *)
(* the boot that shows it, and by what could not be measured.  The former   *)
(* is booked with every adoption, so that it never adds up.                 *)
Placed(s, end, remainder) ==
  \A i \in DOMAIN s : s[i].closed # None =>
    LET off == end - Span(Len(s) - i) - remainder - s[i].closed
    IN  Half + 1 - Step - s[i].slack =< off /\ off =< Half + s[i].slack
ShownInv == Placed(trend, born + Boundary(raster.commit), sealed.residual)

FiledInv ==
  \A e \in filed : e.sample.closed # None =>
    LET off == Span(e.bucket) - e.sample.closed
    IN  2 - 2 * Step - e.sample.slack =< off /\ off =< 2 * Step - 2 + e.sample.slack

(* Nothing is from after the open bucket, so that what closes it is new.    *)
Until(s, f, end) ==
  /\ \A i \in DOMAIN s : s[i].closed =< end
  /\ \A e \in f : e.sample.closed =< end
OrderInv == Until(trend, filed, born + Span(raster.bucket))

(* What the ring and the journal both hold, the writer has behind it.       *)
Passed(b, w, start) ==
  \/ b =< w.cursor
  \/ w.seam # None /\ b =< BucketOf(start - w.seam * Step)
  \/ w.floor # None /\ b =< w.floor
Shared(s, anchor, f, w, start) ==
  \A e \in f, i \in DOMAIN s :
    s[i].closed # None /\ s[i].closed = e.sample.closed => Passed(anchor - (Len(s) - i), w, start)
OnceInv ==
  ~seams.astray =>
    FiledOnce /\ Single(trend) /\ Shared(trend, Anchor(raster.commit), filed, writer, born)

RingIInv ==
  RingShape /\ RasterInv /\ WriterInv /\ ShownInv /\ FiledInv /\ OrderInv /\ OnceInv

LEMMA Setting ==
  ASSUME RingIInv
  PROVE  /\ Uptime \in Nat /\ Uptime = time - born /\ BucketOf(Uptime) \in Nat
         /\ time \in Nat /\ born \in Nat /\ Span(RingSlots) =< born /\ Span(RingSlots) \in Nat
         /\ trend \in Seq(Samples) /\ Len(trend) =< RingSlots /\ Len(trend) \in Nat
         /\ raster.bucket \in Nat /\ raster.open \in BOOLEAN /\ raster.fresh \in BOOLEAN
         /\ raster.commit \in Nat \cup {None} /\ raster.commit \in Int
         /\ sealed.residual \in Int /\ Half + sealed.residual >= 0
         /\ sealed.residual =< Step - 1 - Half
         /\ Span(raster.bucket) \in Nat /\ Boundary(raster.commit) \in Int
<1>1. /\ time \in Nat /\ born \in Nat /\ Span(RingSlots) =< born /\ born =< time
      /\ trend \in Seq(Samples) /\ Len(trend) =< RingSlots
      /\ raster.bucket \in Nat /\ raster.commit \in Nat \cup {None} /\ sealed.residual \in Remainders
      /\ raster.open \in BOOLEAN /\ raster.fresh \in BOOLEAN
  BY DEF RingIInv, RingShape
<1>2. Uptime \in Nat /\ Uptime = time - born BY <1>1 DEF Uptime
<1>3. raster.commit \in Int BY <1>1, UnreadIn
<1>4. /\ sealed.residual \in Int /\ Half + sealed.residual >= 0
      /\ sealed.residual =< Step - 1 - Half
  BY <1>1, HalfIn DEF Remainders
<1>5. BucketOf(Uptime) \in Nat BY <1>2, BucketIn
<1>6. Boundary(raster.commit) \in Int
  <2>1. BucketOf(raster.commit) \in Int /\ Boundary(raster.commit) = Span(BucketOf(raster.commit))
    BY <1>3, BucketIn
  <2> QED BY <2>1, SpanIn
<1>7. Span(RingSlots) \in Nat BY RingsAssumption, SpanIn
<1>8. Span(raster.bucket) \in Nat BY <1>1, SpanIn
<1>9. Len(trend) \in Nat BY <1>1
<1> QED BY <1>1, <1>2, <1>3, <1>4, <1>5, <1>6, <1>7, <1>8, <1>9

(* The newest bucket of the journal is the writer's cursor.                 *)
LEMMA CursorIs == ASSUME RingIInv PROVE Cursor = writer.cursor
<1>1. filed = {} => Cursor = writer.cursor BY DEF RingIInv, WriterInv, Cursor
<1>2. ASSUME filed # {} PROVE Cursor = writer.cursor
  <2> DEFINE S == {e.bucket : e \in filed}
  <2>1. S \subseteq Nat BY DEF RingIInv, RingShape
  <2>2. writer.cursor \in S /\ \A x \in S : x =< writer.cursor
    BY <1>2 DEF RingIInv, WriterInv
  <2>3. Cursor = Max(S) BY <1>2 DEF Cursor
  <2> HIDE DEF S
  <2>4. \E x \in S : \A y \in S : x >= y BY <2>1, <2>2
  <2>5. Max(S) \in S /\ \A y \in S : Max(S) >= y BY <2>4 DEF Max
  <2>6. Max(S) \in Nat /\ writer.cursor \in Nat BY <2>1, <2>2, <2>5
  <2> QED BY <2>2, <2>3, <2>5, <2>6
<1> QED BY <1>1, <1>2

-----------------------------------------------------------------------------
(* What a push preserves *)

LEMMA PlacedFrom ==
  ASSUME NEW s \in Seq(Samples), NEW y \in Seq(Samples), NEW n \in Nat, From(y, s, n),
         NEW a \in Int, NEW b \in Int, NEW p \in Int, NEW q \in Int,
         Placed(s, a, p), b - Span(n) - q = a - p
  PROVE  Placed(y, b, q)
<1> SUFFICES ASSUME NEW i \in DOMAIN y, y[i].closed # None
             PROVE  LET off == b - Span(Len(y) - i) - q - y[i].closed
                    IN  Half + 1 - Step - y[i].slack =< off /\ off =< Half + y[i].slack
  BY DEF Placed
<1>1. PICK j \in DOMAIN s : y[i] = s[j] /\ Len(y) - i = Len(s) - j + n BY DEF From
<1>2. LET off == a - Span(Len(s) - j) - p - s[j].closed
      IN  Half + 1 - Step - s[j].slack =< off /\ off =< Half + s[j].slack
  BY <1>1 DEF Placed
<1>3. Len(s) - j \in Int BY <1>1
<1>4. Span(Len(y) - i) = Span(Len(s) - j) + Span(n) BY <1>1, <1>3, SpanIn, SMTT(60)
<1>5. Span(Len(s) - j) \in Int /\ Span(n) \in Int BY <1>3, SpanIn, SMTT(60)
<1>6. s[j] \in Samples BY <1>1
<1>7. s[j].closed \in Int /\ s[j].slack \in Nat BY <1>6, UnreadIn DEF Samples
<1>8. y[i] = s[j] BY <1>1
<1>9. b - Span(Len(y) - i) - q - y[i].closed = a - Span(Len(s) - j) - p - s[j].closed
  <2> DEFINE u == Span(Len(s) - j)
             v == Span(n)
             c == s[j].closed
  <2>1. u \in Int /\ v \in Int /\ c \in Int BY <1>5, <1>7
  <2> HIDE DEF u, v, c
  <2>2. b - (u + v) - q - c = a - u - p - c
    <3>1. b - v - q = a - p BY DEF v
    <3> QED BY <3>1, <2>1
  <2> QED BY <1>4, <1>8, <2>2 DEF u, v, c
<1> QED BY <1>2, <1>8, <1>9

LEMMA UntilFrom ==
  ASSUME NEW s \in Seq(Samples), NEW y \in Seq(Samples), NEW n \in Nat, From(y, s, n),
         NEW f, \A e \in f : e.sample \in Samples,
         NEW a \in Nat, NEW b \in Nat, a =< b, Until(s, f, a)
  PROVE  Until(y, f, b)
<1>1. ASSUME NEW i \in DOMAIN y PROVE y[i].closed =< b
  <2>1. CASE y[i].closed = None BY <2>1, UnreadIn
  <2>2. CASE y[i].closed # None
    <3>1. PICK j \in DOMAIN s : y[i] = s[j] BY <2>2 DEF From
    <3>2. s[j].closed =< a /\ s[j] \in Samples BY DEF Until
    <3> QED BY <3>1, <3>2, UnreadIn, SMTT(60) DEF Samples
  <2> QED BY <2>1, <2>2
<1>2. ASSUME NEW e \in f PROVE e.sample.closed =< b
  <2>1. e.sample.closed =< a /\ e.sample \in Samples BY DEF Until
  <2>2. e.sample.closed \in Int BY <2>1, UnreadIn DEF Samples
  <2> QED BY <2>1, <2>2
<1> QED BY <1>1, <1>2 DEF Until

LEMMA SharedFrom ==
  ASSUME NEW s \in Seq(Samples), NEW y \in Seq(Samples), NEW n \in Nat, From(y, s, n),
         NEW f, NEW w, NEW start, NEW a \in Int, NEW b \in Int, b = a + n, Shared(s, a, f, w, start)
  PROVE  Shared(y, b, f, w, start)
<1> SUFFICES ASSUME NEW e \in f, NEW i \in DOMAIN y,
                    y[i].closed # None, y[i].closed = e.sample.closed
             PROVE  Passed(b - (Len(y) - i), w, start)
  BY DEF Shared
<1>1. PICK j \in DOMAIN s : y[i] = s[j] /\ Len(y) - i = Len(s) - j + n BY DEF From
<1>2. Passed(a - (Len(s) - j), w, start) BY <1>1 DEF Shared
<1>3. b - (Len(y) - i) = a - (Len(s) - j) BY <1>1
<1> QED BY <1>2, <1>3

LEMMA AppendedIn ==
  ASSUME NEW s \in Seq(Samples), NEW x \in Samples, NEW r, r = Append(s, x)
  PROVE  /\ r \in Seq(Samples) /\ Len(r) = Len(s) + 1 /\ r[Len(r)] = x
         /\ \A i \in DOMAIN r : i # Len(r) => i \in DOMAIN s /\ r[i] = s[i]
OBVIOUS
-----------------------------------------------------------------------------
(* Every step preserves the invariant *)

LEMMA InitRings == RingsInit => RingIInv
<1> SUFFICES ASSUME RingsInit PROVE RingIInv OBVIOUS
<1>1. PICK p \in Phases : time = RingSlots * Step + p BY DEF RingsInit
<1>2. Span(RingSlots) \in Nat /\ Span(RingSlots) = RingSlots * Step
  BY RingsAssumption, SpanIn DEF Span
<1>3. p \in Nat BY RingsAssumption
<1>4. time \in Nat /\ Span(RingSlots) =< time BY <1>1, <1>2, <1>3
<1>5. /\ born = time /\ dated = FALSE /\ trend = <<>> /\ raster = NoRaster
      /\ sealed = [residual |-> 0, boots |-> 0] /\ pulse = NewPulse /\ filed = {}
      /\ writer = [cursor |-> None, restored |-> FALSE, seam |-> None, floor |-> None]
      /\ seams = [count |-> 0, astray |-> FALSE]
  BY DEF RingsInit
<1>6. 0 \in Remainders BY HalfIn DEF Remainders
<1>7. trend \in Seq(Samples) /\ Len(trend) = 0 /\ DOMAIN trend = {} BY <1>5
<1>8. RingShape
  <2>1. time \in Nat /\ born \in Nat /\ Span(RingSlots) =< born /\ born =< time /\ dated \in BOOLEAN
    <3>1. dated \in BOOLEAN BY <1>5, Zenon
    <3>2. born = time BY <1>5
    <3> QED BY <1>4, <3>1, <3>2
  <2>2. trend \in Seq(Samples) /\ Len(trend) =< RingSlots BY <1>7, RingsAssumption
  <2>3. raster \in [open : BOOLEAN, bucket : Nat, commit : Nat \cup {None}, fresh : BOOLEAN]
    BY <1>5 DEF NoRaster
  <2>4. sealed \in [residual : Remainders, boots : 0 .. 1] BY <1>5, <1>6
  <2>5. pulse \in [sign : Nat, commit : Nat \cup {None}] BY <1>5 DEF NewPulse
  <2>6. filed \subseteq [bucket : Nat, sample : Samples] BY <1>5
  <2>7. writer \in [cursor : Nat \cup {None}, restored : BOOLEAN,
                    seam : 0 .. RingSlots - 1 \cup {None}, floor : Nat \cup {None}]
    BY <1>5
  <2>8. seams \in [count : 0 .. MaxSeams, astray : BOOLEAN] BY <1>5, RingsAssumption
  <2> QED BY <2>1, <2>2, <2>3, <2>4, <2>5, <2>6, <2>7, <2>8 DEF RingShape
<1>9. Uptime = 0 BY <1>4, <1>5 DEF Uptime
<1>10. BucketOf(0) \in Nat BY BucketIn
<1>11. RasterInv BY <1>5, <1>9, <1>10 DEF RasterInv, NoRaster, NewPulse
<1>12. WriterInv BY <1>5 DEF WriterInv
<1>13. ShownInv BY <1>7 DEF ShownInv, Placed
<1>14. FiledInv BY <1>5 DEF FiledInv
<1>15. OrderInv BY <1>5, <1>7 DEF OrderInv, Until
<1>16. OnceInv BY <1>5, <1>7 DEF OnceInv, FiledOnce, Single, Shared
<1> QED BY <1>8, <1>11, <1>12, <1>13, <1>14, <1>15, <1>16 DEF RingIInv

LEMMA StillIn ==
  ASSUME RingIInv, UNCHANGED <<born, trend, sealed, filed, writer, seams>>,
         raster'.commit = raster.commit, raster'.bucket = raster.bucket
  PROVE  WriterInv' /\ ShownInv' /\ FiledInv' /\ OrderInv' /\ OnceInv'
<1>1. WriterInv /\ ShownInv /\ FiledInv /\ OrderInv /\ OnceInv BY DEF RingIInv
<1>2. WriterInv' BY <1>1 DEF WriterInv
<1>3. ShownInv'
  <2>1. Boundary(raster.commit)' = Boundary(raster.commit) BY DEF Boundary, BucketOf
  <2> QED BY <1>1, <2>1 DEF ShownInv
<1>4. FiledInv' BY <1>1 DEF FiledInv
<1>5. OrderInv' BY <1>1 DEF OrderInv
<1>6. OnceInv'
  <2>1. Anchor(raster.commit)' = Anchor(raster.commit) BY DEF Anchor
  <2>2. Single(trend)' = Single(trend) OBVIOUS
  <2>3. Shared(trend, Anchor(raster.commit), filed, writer, born)'
          = Shared(trend, Anchor(raster.commit), filed, writer, born)
    BY <2>1
  <2>4. FiledOnce' = FiledOnce BY DEF FiledOnce
  <2> QED BY <1>1, <2>2, <2>3, <2>4 DEF OnceInv
<1> QED BY <1>2, <1>3, <1>4, <1>5, <1>6

LEMMA TimeGoesOnIn == ASSUME RingIInv, TimeGoesOn PROVE RingIInv'
<1>1. PICK k \in Nat : k = time + 1 /\ time' = k
  BY DEF TimeGoesOn, RingIInv, RingShape
<1>2. UNCHANGED <<born, dated, trend, raster, sealed, pulse, filed, writer, seams>>
  BY DEF TimeGoesOn
<1>3. Uptime \in Nat /\ Uptime = time - born /\ time \in Nat /\ born \in Nat /\ born =< time
  BY Setting DEF RingIInv, RingShape
<1>4. Uptime' = Uptime + 1 BY <1>1, <1>2, <1>3 DEF Uptime
<1>5. RingShape' BY <1>1, <1>2, <1>3 DEF RingIInv, RingShape
<1>6. BucketOf(Uptime) =< BucketOf(Uptime + 1) /\ BucketOf(Uptime) \in Nat
      /\ BucketOf(Uptime + 1) \in Nat
  BY <1>3, BucketsOrdered, BucketIn
<1>7. RasterInv'
  <2>1. raster.commit \in Int /\ raster.bucket \in Nat /\ pulse.sign \in Nat
    BY Setting DEF RingIInv, RingShape
  <2> QED BY <1>2, <1>3, <1>4, <1>6, <2>1 DEF RingIInv, RasterInv
<1> QED BY <1>2, <1>5, <1>7, StillIn DEF RingIInv

LEMMA SynchronisesIn == ASSUME RingIInv, Synchronises PROVE RingIInv'
<1>1. /\ dated' = TRUE
      /\ UNCHANGED <<time, born, trend, raster, sealed, pulse, filed, writer, seams>>
  BY DEF Synchronises
<1>2. RingShape' BY <1>1 DEF RingIInv, RingShape
<1>3. Uptime' = Uptime BY <1>1 DEF Uptime
<1>4. RasterInv' BY <1>1, <1>3 DEF RingIInv, RasterInv
<1> QED BY <1>1, <1>2, <1>4, StillIn DEF RingIInv

(* A sign of life, which is never later than the clock.                     *)
LEMMA SignedIn ==
  ASSUME RingIInv, NEW t \in Nat, t =< Uptime
  PROVE  /\ Signed(t) \in [sign : Nat, commit : Nat \cup {None}]
         /\ Signed(t).sign =< Uptime /\ Signed(t).commit = pulse.commit
         /\ Committed(t) \in [sign : Nat, commit : Nat \cup {None}]
         /\ Committed(t).sign =< Uptime /\ Committed(t).commit = t
<1>1. pulse \in [sign : Nat, commit : Nat \cup {None}] /\ pulse.sign =< Uptime
  BY DEF RingIInv, RingShape, RasterInv
<1> QED BY <1>1 DEF Signed, Committed

LEMMA SignsIn == ASSUME RingIInv, Signs PROVE RingIInv'
<1>1. /\ pulse' = Signed(Uptime)
      /\ UNCHANGED <<time, born, dated, trend, raster, sealed, filed, writer, seams>>
  BY DEF Signs
<1>2. Uptime \in Nat /\ Uptime' = Uptime BY <1>1, Setting DEF Uptime
<1>3. /\ pulse' \in [sign : Nat, commit : Nat \cup {None}]
      /\ pulse'.sign =< Uptime /\ pulse'.commit = pulse.commit
  BY <1>1, <1>2, SignedIn
<1>4. RingShape' BY <1>1, <1>3 DEF RingIInv, RingShape
<1>5. RasterInv' BY <1>1, <1>2, <1>3 DEF RingIInv, RasterInv
<1> QED BY <1>1, <1>4, <1>5, StillIn DEF RingIInv

LEMMA RetiresIn == ASSUME RingIInv, Retires PROVE RingIInv'
<1> DEFINE y == [i \in DOMAIN trend |-> [trend[i] EXCEPT !.slack = @ + Step \div 2]]
<1>1. /\ trend' = y /\ filed' = {} /\ raster.open
      /\ sealed' = [sealed EXCEPT !.residual = 0]
      /\ writer' = [writer EXCEPT !.cursor = None, !.floor = None, !.seam = None]
      /\ UNCHANGED <<time, born, dated, raster, pulse, seams>>
  BY DEF Retires
<1>2. trend \in Seq(Samples) /\ Len(trend) \in Nat BY Setting
<1>3. /\ y \in Seq(Samples) /\ Len(y) = Len(trend) /\ DOMAIN y = DOMAIN trend
      /\ \A i \in DOMAIN trend : y[i].closed = trend[i].closed /\ y[i].slack = trend[i].slack + Half
  <2>1. \A x \in Samples : [x EXCEPT !.slack = @ + Half] \in Samples
    BY HalfIn DEF Samples
  <2>2. \A i \in DOMAIN trend : y[i] = [trend[i] EXCEPT !.slack = @ + Half] /\ trend[i] \in Samples
    BY <1>2 DEF Half
  <2>3. y \in Seq(Samples) /\ Len(y) = Len(trend) /\ DOMAIN y = DOMAIN trend
    <3>1. DOMAIN y = 1 .. Len(trend) BY <1>2
    <3>2. \A i \in DOMAIN trend : [trend[i] EXCEPT !.slack = @ + Half] \in Samples
      <4> TAKE i \in DOMAIN trend
      <4>1. trend[i] \in Samples BY <1>2
      <4> QED BY <2>1, <4>1
    <3>3. y \in [DOMAIN trend -> Samples] BY <3>2, Zenon DEF Half
    <3> HIDE DEF y
    <3>4. y \in Seq(Samples)
      <4>1. DOMAIN trend = 1 .. Len(trend) BY <1>2
      <4> QED BY <1>2, <3>3, <4>1
    <3> HIDE DEF y
    <3> QED BY <1>2, <3>1, <3>4
  <2> HIDE DEF y
  <2> QED BY <2>2, <2>3 DEF Samples
<1> HIDE DEF y
<1>4. 0 \in Remainders BY HalfIn DEF Remainders
<1>5. RingShape'
  <2>1. Len(y) =< RingSlots BY <1>3 DEF RingIInv, RingShape
  <2> QED BY <1>1, <1>3, <1>4, <2>1 DEF RingIInv, RingShape
<1>6. Uptime' = Uptime BY <1>1 DEF Uptime
<1>7. RasterInv'
  <2>1. trend = <<>> => y = <<>> BY <1>2, <1>3
  <2> QED BY <1>1, <1>6, <2>1 DEF RingIInv, RasterInv
<1>8. WriterInv' BY <1>1 DEF WriterInv
<1>9. ShownInv'
  <2> DEFINE end == born + Boundary(raster.commit)
  <2>1. end \in Int /\ sealed.residual \in Int /\ Half + sealed.residual >= 0
        /\ sealed.residual =< Step - 1 - Half
    BY Setting
  <2>2. Placed(trend, end, sealed.residual) BY DEF RingIInv, ShownInv
  <2> HIDE DEF end
  <2>3. Placed(y, end, 0)
    <3> SUFFICES ASSUME NEW i \in DOMAIN y, y[i].closed # None
                 PROVE  LET off == end - Span(Len(y) - i) - 0 - y[i].closed
                        IN  Half + 1 - Step - y[i].slack =< off /\ off =< Half + y[i].slack
      BY DEF Placed
    <3>1. LET off == end - Span(Len(trend) - i) - sealed.residual - trend[i].closed
          IN  Half + 1 - Step - trend[i].slack =< off /\ off =< Half + trend[i].slack
      BY <1>3, <2>2 DEF Placed
    <3>2. Len(trend) - i \in Int /\ Len(y) = Len(trend) BY <1>2, <1>3
    <3>3. Span(Len(trend) - i) \in Int BY <3>2, SpanIn
    <3>4. trend[i] \in Samples BY <1>2, <1>3
    <3>5. trend[i].closed \in Int /\ trend[i].slack \in Nat BY <3>4, UnreadIn DEF Samples
    <3> DEFINE u == Span(Len(trend) - i)
               c == trend[i].closed
               l == trend[i].slack
               r == sealed.residual
    <3>6. /\ u \in Int /\ c \in Int /\ l \in Nat /\ r \in Int
          /\ Half + r >= 0 /\ r =< Step - 1 - Half
          /\ Half + 1 - Step - l =< end - u - r - c /\ end - u - r - c =< Half + l
      BY <2>1, <3>1, <3>3, <3>5
    <3>7. y[i].closed = c /\ y[i].slack = l + Half /\ Span(Len(y) - i) = u BY <1>3, <3>2
    <3> HIDE DEF u, c, l, r
    <3>8. Half + 1 - Step - (l + Half) =< end - u - 0 - c /\ end - u - 0 - c =< Half + (l + Half)
      BY <2>1, <3>6, HalfIn
    <3> QED BY <3>7, <3>8
  <2>4. ShownInv' = Placed(y, end, 0) BY <1>1 DEF ShownInv, end
  <2> QED BY <2>3, <2>4
<1>10. FiledInv' BY <1>1 DEF FiledInv
<1>11. OrderInv' BY <1>1, <1>3 DEF RingIInv, OrderInv, Until
<1>12. OnceInv'
  <2>1. Single(trend) => Single(y) BY <1>3 DEF Single
  <2> QED BY <1>1, <2>1 DEF RingIInv, OnceInv, FiledOnce, Shared
<1> QED BY <1>5, <1>7, <1>8, <1>9, <1>10, <1>11, <1>12 DEF RingIInv

LEMMA PushIn ==
  ASSUME RingIInv, NEW s \in Seq(Samples), NEW n \in Nat, trend' = Youngest(s \o Unreads(n)),
         NEW k \in Nat, raster'.bucket = k + n, raster'.commit \in Int,
         BucketOf(raster'.commit) = k + n,
         UNCHANGED <<born, filed, writer>>, sealed'.residual = sealed.residual,
         Placed(s, born + Span(k), sealed.residual), Until(s, filed, born + Span(k)),
         ~seams'.astray => /\ ~seams.astray
                           /\ Single(s) /\ Shared(s, Anchor(raster'.commit) - n, filed, writer, born)
  PROVE  trend' \in Seq(Samples) /\ Len(trend') =< RingSlots /\ ShownInv' /\ OrderInv' /\ OnceInv'
<1>1. trend' \in Seq(Samples) /\ Len(trend') =< RingSlots /\ From(trend', s, n) BY PushedIn
<1>2. /\ born \in Nat /\ Span(k) \in Nat /\ Span(k + n) \in Nat /\ Span(n) \in Nat
      /\ Span(k + n) = Span(k) + Span(n) /\ sealed.residual \in Int
  BY Setting, SpanIn
<1>3. Boundary(raster'.commit) = Span(k + n) BY BucketIn
<1>4. ShownInv'
  <2>1. Placed(trend', born + Span(k + n), sealed.residual)
    <3>1. (born + Span(k + n)) - Span(n) - sealed.residual = (born + Span(k)) - sealed.residual
      BY <1>2, SMTT(60)
    <3>2. born + Span(k) \in Int /\ born + Span(k + n) \in Int BY <1>2, SMTT(60)
    <3> QED BY <1>1, <1>2, <3>1, <3>2, PlacedFrom, SMTT(60)
  <2>2. Boundary(raster.commit)' = Span(k + n) BY <1>3 DEF Boundary, BucketOf
  <2> QED BY <2>1, <2>2 DEF ShownInv
<1>5. OrderInv'
  <2>1. born + Span(k) \in Nat /\ born + Span(k + n) \in Nat /\ born + Span(k) =< born + Span(k + n)
    BY <1>2, SMTT(60)
  <2>2. \A e \in filed : e.sample \in Samples BY DEF RingIInv, RingShape
  <2>3. Until(trend', filed, born + Span(k + n)) BY <1>1, <2>1, <2>2, UntilFrom
  <2>4. Span(raster.bucket)' = Span(k + n) BY DEF Span
  <2> QED BY <2>3, <2>4 DEF OrderInv
<1>6. OnceInv'
  <2> SUFFICES ASSUME ~seams'.astray
               PROVE  /\ FiledOnce' /\ Single(trend)'
                      /\ Shared(trend, Anchor(raster.commit), filed, writer, born)'
    BY DEF OnceInv
  <2>1. FiledOnce' BY DEF RingIInv, OnceInv, FiledOnce
  <2>2. Single(trend') BY <1>1, SingleFrom
  <2>3. Anchor(raster'.commit) \in Int
    <3>1. born + raster'.commit \in Int BY <1>2, SMTT(60)
    <3> QED BY <3>1, BucketIn DEF Anchor
  <2>4. Shared(trend', Anchor(raster'.commit), filed, writer, born)
    <3>1. Anchor(raster'.commit) - n \in Int /\ Anchor(raster'.commit) = (Anchor(raster'.commit) - n) + n
      BY <2>3
    <3> QED BY <1>1, <2>3, <3>1, SharedFrom
  <2>5. Anchor(raster.commit)' = Anchor(raster'.commit) BY DEF Anchor, BucketOf
  <2> QED BY <2>1, <2>2, <2>4, <2>5
<1> QED BY <1>1, <1>4, <1>5, <1>6

LEMMA FirstLookIn ==
  ASSUME RingIInv, NEW t \in Nat, t =< Uptime, Records(t), ~raster.open PROVE RingIInv'
<1> DEFINE b == BucketOf(t)
<1>1. /\ trend' = Youngest(Unreads(b))
      /\ raster' = [raster EXCEPT !.open = TRUE, !.bucket = b, !.fresh = TRUE,
                                  !.commit = IF b > 0 THEN b * Step ELSE @]
      /\ pulse' = IF b > 0 THEN Committed(b * Step) ELSE pulse
      /\ UNCHANGED <<time, born, dated, sealed, filed, writer, seams>>
  BY DEF Records, Advances
<1>2. b \in Nat /\ b =< BucketOf(Uptime) /\ Span(b) =< t /\ b * Step = Span(b) /\ Span(b) \in Nat
  <2>1. t \in Int /\ Uptime \in Int BY Setting
  <2>2. b \in Nat /\ Span(b) =< t BY <2>1, BucketIn
  <2>3. b =< BucketOf(Uptime) BY <2>1, BucketsOrdered
  <2> HIDE DEF b
  <2>4. b * Step = Span(b) BY DEF Span
  <2> QED BY <2>2, <2>3, <2>4, SpanIn
<1> HIDE DEF b
<1>3. raster.bucket = 0 /\ raster.commit = None /\ trend = <<>> /\ pulse.commit = None
  BY DEF RingIInv, RasterInv
<1>4. <<>> \in Seq(Samples) /\ Len(<<>>) = 0 /\ DOMAIN <<>> = {} OBVIOUS
<1>5. Unreads(b) = <<>> \o Unreads(b)
  <2>1. Unreads(b) \in Seq(Samples) BY <1>2, UnreadIn DEF Unreads
  <2> QED BY <2>1
<1>6. Uptime' = Uptime /\ Uptime \in Nat BY <1>1, Setting DEF Uptime
<1>7. Span(b) =< Uptime BY <1>2, <1>6
<1>8. /\ raster \in [open : BOOLEAN, bucket : Nat, commit : Nat \cup {None}, fresh : BOOLEAN]
      /\ pulse \in [sign : Nat, commit : Nat \cup {None}] /\ pulse.sign =< Uptime
  BY DEF RingIInv, RingShape, RasterInv
<1>9. /\ raster' \in [open : BOOLEAN, bucket : Nat, commit : Nat \cup {None}, fresh : BOOLEAN]
      /\ raster'.open /\ raster'.bucket = b
  BY <1>1, <1>2, <1>8
<1>10. b > 0 => raster'.commit = Span(b) BY <1>1, <1>2, <1>8
<1>11. b = 0 => raster'.commit = None BY <1>1, <1>3, <1>8
<1>12. /\ pulse' \in [sign : Nat, commit : Nat \cup {None}]
       /\ pulse'.commit = raster'.commit /\ pulse'.sign =< Uptime
  <2>1. CASE b > 0 BY <2>1, <1>1, <1>2, <1>7, <1>10, SignedIn
  <2>2. CASE b = 0 BY <2>2, <1>1, <1>3, <1>8, <1>11
  <2> QED BY <2>1, <2>2, <1>2
<1>13. BucketOf(Span(b)) = b
  BY <1>2, HalfIn, BucketOnce
<1>14. /\ trend' \in Seq(Samples) /\ Len(trend') =< RingSlots /\ ShownInv' /\ OrderInv' /\ OnceInv'
       /\ b = 0 => trend' = <<>>
  <2>1. CASE b > 0
    <3>1. Placed(<<>>, born + Span(0), sealed.residual) BY <1>4 DEF Placed
    <3>2. Until(<<>>, filed, born + Span(0)) BY <1>3, <1>4 DEF RingIInv, OrderInv, Until
    <3>3. Single(<<>>) /\ Shared(<<>>, Anchor(raster'.commit) - b, filed, writer, born)
      BY <1>4 DEF Single, Shared
    <3>4. raster'.bucket = 0 + b /\ BucketOf(raster'.commit) = 0 + b /\ raster'.commit \in Int
      BY <2>1, <1>2, <1>9, <1>10, <1>13
    <3>5. trend' = Youngest(<<>> \o Unreads(b)) BY <1>1, <1>5
    <3>6. sealed'.residual = sealed.residual /\ (~seams'.astray => ~seams.astray) BY <1>1
    <3>7. 0 \in Nat /\ UNCHANGED <<born, filed, writer>> BY <1>1
    <3>8. /\ trend' \in Seq(Samples) /\ Len(trend') =< RingSlots
          /\ ShownInv' /\ OrderInv' /\ OnceInv'
      BY <1>2, <1>4, <3>1, <3>2, <3>3, <3>4, <3>5, <3>6, <3>7, PushIn
    <3> QED BY <2>1, <3>8
  <2>2. CASE b = 0
    <3>1. Unreads(b) = <<>> BY <2>2 DEF Unreads
    <3>2. trend' = <<>> BY <1>1, <1>4, <3>1, RingsAssumption DEF Youngest
    <3>3. ShownInv' BY <1>4, <3>2 DEF ShownInv, Placed
    <3>4. Span(raster'.bucket) = Span(raster.bucket) BY <1>3, <1>9, <2>2
    <3>5. OrderInv' BY <1>1, <1>4, <3>2, <3>4 DEF RingIInv, OrderInv, Until, Span
    <3>6. OnceInv' BY <1>1, <1>4, <3>2 DEF RingIInv, OnceInv, FiledOnce, Single, Shared
    <3> QED BY <1>4, <3>2, <3>3, <3>5, <3>6, RingsAssumption
  <2> QED BY <2>1, <2>2, <1>2
<1>15. RingShape' BY <1>1, <1>9, <1>12, <1>14 DEF RingIInv, RingShape
<1>16. RasterInv'
  <2>1. raster'.commit # None => BucketOf(raster'.commit) = raster'.bucket /\ raster'.commit =< Uptime
    BY <1>2, <1>7, <1>9, <1>10, <1>11, <1>13
  <2>2. BucketOf(raster.commit)' = BucketOf(raster'.commit) /\ BucketOf(Uptime)' = BucketOf(Uptime)
    BY <1>6 DEF BucketOf
  <2>3. raster'.commit = None => trend' = <<>>
    BY <1>2, <1>10, <1>14, UnreadIn
  <2> QED BY <1>2, <1>6, <1>9, <1>12, <2>1, <2>2, <2>3 DEF RasterInv
<1>17. WriterInv' /\ FiledInv' BY <1>1 DEF RingIInv, WriterInv, FiledInv
<1> QED BY <1>14, <1>15, <1>16, <1>17 DEF RingIInv

LEMMA LateLookIn ==
  ASSUME RingIInv, NEW t \in Nat, t =< Uptime, Records(t), raster.open, Overtaken(BucketOf(t))
  PROVE  RingIInv'
<1>1. /\ raster' = [raster EXCEPT !.fresh = TRUE]
      /\ UNCHANGED <<time, born, dated, trend, pulse, sealed, filed, writer, seams>>
  BY DEF Records, Advances
<1>2. raster \in [open : BOOLEAN, bucket : Nat, commit : Nat \cup {None}, fresh : BOOLEAN]
  BY DEF RingIInv, RingShape
<1>3. /\ raster' \in [open : BOOLEAN, bucket : Nat, commit : Nat \cup {None}, fresh : BOOLEAN]
      /\ raster'.open = raster.open /\ raster'.bucket = raster.bucket /\ raster'.commit = raster.commit
  BY <1>1, <1>2
<1>4. RingShape' BY <1>1, <1>3 DEF RingIInv, RingShape
<1>5. Uptime' = Uptime BY <1>1 DEF Uptime
<1>6. RasterInv' BY <1>1, <1>3, <1>5 DEF RingIInv, RasterInv, BucketOf
<1> QED BY <1>1, <1>3, <1>4, <1>6, StillIn DEF RingIInv

LEMMA ClosesIn ==
  ASSUME RingIInv, NEW t \in Nat, t =< Uptime, Records(t), raster.open, ~Overtaken(BucketOf(t))
  PROVE  RingIInv'
<1> DEFINE b == BucketOf(t)
           k == raster.bucket + 1
           n == b - raster.bucket - 1
           x == IF raster.fresh
                THEN [closed |-> born + (raster.bucket + 1) * Step, slack |-> 0] ELSE Unread
           s == Append(trend, x)
<1>1. /\ trend' = Youngest(s \o Unreads(n))
      /\ raster' = [raster EXCEPT !.bucket = b, !.commit = t, !.fresh = TRUE]
      /\ pulse' = Committed(t) /\ sealed' = [sealed EXCEPT !.boots = 0]
      /\ seams' = [seams EXCEPT !.astray = @ \/ Slides(t, b)]
      /\ UNCHANGED <<time, born, dated, filed, writer>>
  BY DEF Records, Advances
<1>2. b \in Nat /\ b =< BucketOf(Uptime) /\ Span(b) =< t
  <2>1. t \in Int /\ Uptime \in Int BY Setting
  <2> QED BY <2>1, BucketIn, BucketsOrdered
<1>3. /\ raster.bucket \in Nat /\ born \in Nat /\ trend \in Seq(Samples) /\ Len(trend) \in Nat
      /\ sealed.residual \in Int /\ Half + sealed.residual >= 0
      /\ sealed.residual =< Step - 1 - Half /\ raster.commit \in Int
  BY Setting
<1>4. n \in Nat /\ k \in Nat /\ k + n = b
  <2>1. raster.bucket < b BY <1>2, <1>3 DEF Overtaken
  <2> HIDE DEF b
  <2> QED BY <2>1, <1>2, <1>3, SMTT(60)
<1>5. BucketOf(t) = b OBVIOUS
<1> HIDE DEF b
<1>6. Span(k) = Span(raster.bucket) + Step /\ Span(k) \in Nat /\ Span(raster.bucket) \in Nat
  <2>1. k = raster.bucket + 1 /\ raster.bucket \in Int /\ 1 \in Int BY <1>3
  <2> HIDE DEF k
  <2>2. Span(k) = Span(raster.bucket) + Span(1) BY <2>1, SpanIn
  <2> QED BY <1>3, <1>4, <2>2, SpanIn
<1>7. x \in Samples /\ (x.closed # None => x.closed = born + Span(k) /\ x.slack = 0)
  <2>1. (raster.bucket + 1) * Step = Span(k) BY DEF Span
  <2>2. born + Span(k) \in Nat BY <1>3, <1>6
  <2> HIDE DEF k
  <2>3. CASE raster.fresh BY <2>1, <2>2, <2>3 DEF Samples
  <2>4. CASE ~raster.fresh BY <2>4, UnreadIn
  <2> QED BY <2>3, <2>4
<1> HIDE DEF x
<1>8. /\ s \in Seq(Samples) /\ Len(s) = Len(trend) + 1 /\ s[Len(s)] = x
      /\ \A i \in DOMAIN s : i # Len(s) => i \in DOMAIN trend /\ s[i] = trend[i]
  BY <1>3, <1>7, AppendedIn
<1> HIDE DEF k, n, s
<1>9. Uptime' = Uptime /\ Uptime \in Nat BY <1>1, Setting DEF Uptime
<1>10. /\ raster' \in [open : BOOLEAN, bucket : Nat, commit : Nat \cup {None}, fresh : BOOLEAN]
       /\ raster'.open /\ raster'.bucket = b /\ raster'.commit = t
  BY <1>1, <1>2 DEF RingIInv, RingShape
<1>11. /\ pulse' \in [sign : Nat, commit : Nat \cup {None}]
       /\ pulse'.sign =< Uptime /\ pulse'.commit = t
  BY <1>1, SignedIn
<1>12. Placed(s, born + Span(k), sealed.residual)
  <2> SUFFICES ASSUME NEW i \in DOMAIN s, s[i].closed # None
               PROVE  LET off == (born + Span(k)) - Span(Len(s) - i) - sealed.residual - s[i].closed
                      IN  Half + 1 - Step - s[i].slack =< off /\ off =< Half + s[i].slack
    BY DEF Placed
  <2>1. CASE i = Len(s)
    <3>1. Len(s) - i = 0 BY <1>3, <1>8, <2>1
    <3>2. s[i].closed = born + Span(k) /\ s[i].slack = 0 BY <1>7, <1>8, <2>1
    <3> DEFINE d == Span(k)
               r == sealed.residual
    <3>3. d \in Nat /\ r \in Int /\ Half + r >= 0 /\ r =< Step - 1 - Half BY <1>3, <1>6
    <3> HIDE DEF d, r
    <3>4. Half + 1 - Step - 0 =< (born + d) - 0 - r - (born + d) /\ (born + d) - 0 - r - (born + d) =< Half + 0
      BY <1>3, <3>3, HalfIn
    <3> QED BY <3>1, <3>2, <3>4, SpanIn DEF d, r
  <2>2. CASE i # Len(s)
    <3>1. i \in DOMAIN trend /\ s[i] = trend[i] BY <1>8, <2>2
    <3>2. trend # <<>> BY <3>1
    <3>3. BucketOf(raster.commit) = raster.bucket BY <3>2 DEF RingIInv, RasterInv
    <3>4. Boundary(raster.commit) = Span(raster.bucket) BY <1>3, <3>3, BucketIn
    <3>5. LET off == (born + Span(raster.bucket)) - Span(Len(trend) - i) - sealed.residual - s[i].closed
          IN  Half + 1 - Step - s[i].slack =< off /\ off =< Half + s[i].slack
      BY <3>1, <3>4 DEF RingIInv, ShownInv, Placed
    <3>6. Len(trend) - i \in Int /\ Len(s) - i = (Len(trend) - i) + 1 BY <1>3, <1>8, <3>1
    <3>7. Span(Len(s) - i) = Span(Len(trend) - i) + Step /\ Span(Len(trend) - i) \in Int
      <4>1. Span((Len(trend) - i) + 1) = Span(Len(trend) - i) + Span(1) BY <3>6, SpanIn
      <4> QED BY <3>6, <4>1, SpanIn
    <3>8. s[i].closed \in Int
      <4>1. s[i] \in Samples BY <1>8
      <4> QED BY <4>1, UnreadIn DEF Samples
    <3> DEFINE u == Span(Len(trend) - i)
               d == Span(raster.bucket)
               c == s[i].closed
    <3>9. u \in Int /\ d \in Int /\ c \in Int BY <1>6, <3>7, <3>8
    <3> HIDE DEF u, d, c
    <3>10. (born + (d + Step)) - (u + Step) - sealed.residual - c = (born + d) - u - sealed.residual - c
      BY <1>3, <3>9, HalfIn
    <3>11. Span(k) = d + Step /\ Span(Len(s) - i) = u + Step BY <1>6, <3>7 DEF d, u
    <3>12. (born + Span(k)) - Span(Len(s) - i) - sealed.residual - c = (born + d) - u - sealed.residual - c
      BY <3>10, <3>11
    <3> QED BY <3>5, <3>12 DEF u, d, c
  <2> QED BY <2>1, <2>2
<1>13. Until(trend, filed, born + Span(raster.bucket)) BY DEF RingIInv, OrderInv
<1>14. Until(s, filed, born + Span(k))
  <2>1. ASSUME NEW i \in DOMAIN s PROVE s[i].closed =< born + Span(k)
    <3>1. s[i] \in Samples BY <1>8
    <3>2. s[i].closed \in Int BY <3>1, UnreadIn DEF Samples
    <3>3. CASE i = Len(s) BY <3>3, <1>3, <1>6, <1>7, <1>8, UnreadIn
    <3>4. CASE i # Len(s)
      <4>1. s[i].closed =< born + Span(raster.bucket) BY <3>4, <1>8, <1>13 DEF Until
      <4> QED BY <4>1, <3>2, <1>3, <1>6, HalfIn, SMTT(60)
    <3> QED BY <3>3, <3>4
  <2>2. ASSUME NEW e \in filed PROVE e.sample.closed =< born + Span(k)
    <3>1. e.sample.closed =< born + Span(raster.bucket) BY <1>13 DEF Until
    <3>2. e.sample \in Samples BY DEF RingIInv, RingShape
    <3>3. e.sample.closed \in Int BY <3>2, UnreadIn DEF Samples
    <3> QED BY <3>1, <3>3, <1>3, <1>6, HalfIn, SMTT(60)
  <2> QED BY <2>1, <2>2 DEF Until
<1>15. ASSUME ~seams'.astray
       PROVE  ~seams.astray /\ Single(s) /\ Shared(s, Anchor(raster'.commit) - n, filed, writer, born)
  <2>1. ~seams.astray /\ ~Slides(t, b)
    BY <1>1, <1>15 DEF RingIInv, RingShape
  <2>2. Single(trend) /\ Shared(trend, Anchor(raster.commit), filed, writer, born)
    BY <2>1 DEF RingIInv, OnceInv
  <2>3. \A y \in Samples : y.closed =< born + Span(raster.bucket) => y.closed < born + Span(k)
    <3> TAKE y \in Samples
    <3>1. y.closed \in Int BY UnreadIn DEF Samples
    <3> QED BY <3>1, <1>3, <1>6, HalfIn, SMTT(60)
  <2>4. \A i \in DOMAIN trend : trend[i].closed < born + Span(k)
    <3> TAKE i \in DOMAIN trend
    <3>1. trend[i] \in Samples BY <1>3
    <3> QED BY <3>1, <2>3, <1>13 DEF Until
  <2>5. \A e \in filed : e.sample.closed < born + Span(k)
    <3> TAKE e \in filed
    <3>1. e.sample \in Samples BY DEF RingIInv, RingShape
    <3> QED BY <3>1, <2>3, <1>13 DEF Until
  <2>6. born + Span(k) \in Int BY <1>3, <1>6
  <2>7. Single(s)
    <3> SUFFICES ASSUME NEW i \in DOMAIN s, NEW j \in DOMAIN s,
                        s[i].closed # None, s[i].closed = s[j].closed
                 PROVE  i = j
      BY DEF Single
    <3>1. CASE i = Len(s) /\ j # Len(s)
      <4>1. s[i].closed = born + Span(k) BY <3>1, <1>7, <1>8
      <4>2. s[j].closed < born + Span(k) BY <3>1, <1>8, <2>4
      <4> QED BY <4>1, <4>2, <2>6
    <3>2. CASE i # Len(s) /\ j = Len(s)
      <4>1. s[j].closed = born + Span(k) BY <3>2, <1>7, <1>8
      <4>2. s[i].closed < born + Span(k) BY <3>2, <1>8, <2>4
      <4> QED BY <4>1, <4>2, <2>6
    <3>3. CASE i # Len(s) /\ j # Len(s) BY <3>3, <1>8, <2>2 DEF Single
    <3> QED BY <3>1, <3>2, <3>3
  <2>8. Shared(s, Anchor(raster'.commit) - n, filed, writer, born)
    <3> SUFFICES ASSUME NEW e \in filed, NEW i \in DOMAIN s,
                        s[i].closed # None, s[i].closed = e.sample.closed
                 PROVE  Passed(Anchor(raster'.commit) - n - (Len(s) - i), writer, born)
      BY DEF Shared
    <3>1. i # Len(s)
      <4>1. i = Len(s) => s[i].closed = born + Span(k) BY <1>7, <1>8
      <4> QED BY <4>1, <2>5, <2>6
    <3>2. i \in DOMAIN trend /\ s[i] = trend[i] BY <3>1, <1>8
    <3>3. Passed(Anchor(raster.commit) - (Len(trend) - i), writer, born) BY <3>2, <2>2 DEF Shared
    <3>4. trend # <<>> BY <3>2
    <3>5. raster.commit # None BY <3>4 DEF RingIInv, RasterInv
    <3>6. Anchor(t) - Anchor(raster.commit) = b - raster.bucket BY <2>1, <3>5 DEF Slides
    <3>7. Anchor(t) \in Int /\ Anchor(raster.commit) \in Int
      <4>1. born + t \in Int /\ born + raster.commit \in Int BY <1>3
      <4> QED BY <4>1, BucketIn DEF Anchor
    <3>8. n = b - raster.bucket - 1 BY DEF n
    <3>9. Anchor(raster'.commit) - n - (Len(s) - i) = Anchor(raster.commit) - (Len(trend) - i)
      <4> DEFINE x1 == Anchor(t)
                 x0 == Anchor(raster.commit)
      <4>1. raster'.commit = t /\ b \in Int /\ raster.bucket \in Int
        <5>1. raster'.commit = t BY <1>10
        <5> QED BY <1>2, <1>3, <5>1
      <4>2. Len(trend) \in Nat /\ Len(s) = Len(trend) + 1 /\ i \in Int BY <1>3, <1>8, <3>2
      <4>3. x1 \in Int /\ x0 \in Int /\ x1 - x0 = b - raster.bucket BY <3>6, <3>7
      <4> HIDE DEF x0, x1
      <4>4. x1 - n - (Len(s) - i) = x0 - (Len(trend) - i) BY <3>8, <4>1, <4>2, <4>3, SMTT(60)
      <4> QED BY <4>1, <4>4 DEF x0, x1
    <3> QED BY <3>3, <3>9
  <2> QED BY <2>1, <2>7, <2>8
<1>16. /\ trend' \in Seq(Samples) /\ Len(trend') =< RingSlots /\ ShownInv' /\ OrderInv' /\ OnceInv'
  <2>1. raster'.bucket = k + n /\ BucketOf(raster'.commit) = k + n /\ raster'.commit \in Int
    BY <1>4, <1>5, <1>10
  <2>2. sealed'.residual = sealed.residual BY <1>1 DEF RingIInv, RingShape
  <2>3. UNCHANGED <<born, filed, writer>> BY <1>1
  <2> QED BY <1>1, <1>4, <1>8, <1>12, <1>14, <1>15, <2>1, <2>2, <2>3, PushIn
<1>17. RingShape'
  <2>1. sealed' \in [residual : Remainders, boots : 0 .. 1] BY <1>1 DEF RingIInv, RingShape
  <2>2. seams' \in [count : 0 .. MaxSeams, astray : BOOLEAN]
    BY <1>1 DEF RingIInv, RingShape, Slides
  <2> QED BY <1>1, <1>10, <1>11, <1>16, <2>1, <2>2 DEF RingIInv, RingShape
<1>18. RasterInv'
  <2>1. BucketOf(raster.commit)' = BucketOf(raster'.commit) /\ BucketOf(Uptime)' = BucketOf(Uptime)
    BY <1>9 DEF BucketOf
  <2>2. raster'.commit # None BY <1>10, UnreadIn
  <2> QED BY <1>2, <1>5, <1>9, <1>10, <1>11, <2>1, <2>2 DEF RasterInv
<1>19. WriterInv' /\ FiledInv' BY <1>1 DEF RingIInv, WriterInv, FiledInv
<1> QED BY <1>16, <1>17, <1>18, <1>19 DEF RingIInv

LEMMA RecordsIn ==
  ASSUME RingIInv, NEW t \in Nat, t =< Uptime, Records(t) PROVE RingIInv'
BY FirstLookIn, LateLookIn, ClosesIn

LEMMA FloorIn ==
  ASSUME RingIInv
  PROVE  /\ Real \in Int /\ (writer.seam # None => Real \in Nat)
         /\ Floor \in Nat \cup {None} /\ Lifted(Floor) \in Nat \cup {None}
         /\ writer.cursor =< Lifted(Floor)
         /\ Lifted(Floor) = writer.cursor \/ (Floor # None /\ Lifted(Floor) = Floor)
         /\ writer.cursor \in Int /\ writer.floor \in Int /\ Lifted(Floor) \in Int
<1>1. writer \in [cursor : Nat \cup {None}, restored : BOOLEAN,
                  seam : 0 .. RingSlots - 1 \cup {None}, floor : Nat \cup {None}]
  BY DEF RingIInv, RingShape
<1>2. born \in Nat /\ Span(RingSlots) =< born /\ Span(RingSlots) \in Nat BY Setting
<1>3. writer.seam # None => writer.seam \in Nat /\ writer.seam =< RingSlots BY <1>1, RingsAssumption
<1>4. writer.seam \in Int BY <1>1, <1>3, UnreadIn
<1>5. writer.seam * Step = Span(writer.seam) /\ Span(writer.seam) \in Int BY <1>4, SpanIn DEF Span
<1>6. born - writer.seam * Step \in Int BY <1>2, <1>5
<1>7. Real \in Int BY <1>6, BucketIn DEF Real
<1>8. writer.seam # None => Real \in Nat
  <2>1. writer.seam # None => Span(writer.seam) =< Span(RingSlots)
    <3>1. RingSlots \in Int BY RingsAssumption
    <3> QED BY <1>3, <1>4, <3>1, SpanIn
  <2>2. writer.seam # None => born - writer.seam * Step \in Nat BY <2>1, <1>2, <1>5
  <2> QED BY <1>6, <2>2, BucketIn DEF Real
<1>9. Floor \in Nat \cup {None} BY <1>1, <1>8 DEF Floor
<1> QED BY <1>1, <1>7, <1>8, <1>9, UnreadIn DEF Lifted

(* The record that is next lies after whatever the ring shares with the     *)
(* journal.                                                                 *)
LEMMA NextIsAfter ==
  ASSUME RingIInv, writer.cursor # None, ~Backlogged, NEW b \in Int, Passed(b, writer, born)
  PROVE  b =< Lifted(Floor)
<1>1. /\ Real \in Int /\ Floor \in Nat \cup {None} /\ Lifted(Floor) \in Int
      /\ writer.cursor =< Lifted(Floor) /\ writer.cursor \in Int /\ writer.floor \in Int
  BY FloorIn
<1>2. writer.seam # None => writer.floor = None BY DEF RingIInv, WriterInv
<1>3. CASE b =< writer.cursor BY <1>1, <1>3
<1>4. CASE writer.seam # None /\ b =< BucketOf(born - writer.seam * Step)
  <2>1. b =< Real BY <1>4 DEF Real
  <2>2. CASE writer.cursor < Real
    <3>1. Reach \in Nat BY RingsAssumption
    <3>2. Real - writer.cursor =< Reach BY <1>1, <1>4, <3>1 DEF Backlogged
    <3>3. Floor = Real BY <1>4, <2>2, <3>2 DEF Floor
    <3> QED BY <1>1, <2>1, <2>2, <3>3 DEF Lifted
  <2>3. CASE ~ (writer.cursor < Real) BY <1>1, <2>1, <2>3
  <2> QED BY <2>2, <2>3
<1>5. CASE writer.floor # None /\ b =< writer.floor
  <2>1. Floor = writer.floor BY <1>2, <1>5 DEF Floor
  <2> QED BY <1>1, <1>5, <2>1 DEF Lifted
<1> QED BY <1>3, <1>4, <1>5 DEF Passed

(* Every wall bucket of this boot is one after 0, and after a whole ring.   *)
LEMMA AnchorIn ==
  ASSUME RingIInv, NEW c \in Nat
  PROVE  Anchor(c) \in Nat /\ RingSlots =< Anchor(c)
<1>1. born \in Nat /\ Span(RingSlots) =< born /\ Span(RingSlots) \in Nat
  BY Setting
<1>2. Span(RingSlots) \in Int /\ born + c \in Int /\ Span(RingSlots) =< born + c
  BY <1>1
<1>3. BucketOf(Span(RingSlots)) =< Anchor(c) BY <1>2, BucketsOrdered DEF Anchor
<1>4. BucketOf(Span(RingSlots)) = RingSlots
  <2>1. RingSlots \in Int /\ Span(RingSlots) < Span(RingSlots) + Step BY <1>1, HalfIn, RingsAssumption
  <2> QED BY <1>1, <2>1, BucketOnce
<1>5. Anchor(c) \in Int BY <1>2, BucketIn DEF Anchor
<1> QED BY <1>3, <1>4, <1>5, RingsAssumption

(* A sample of the ring, filed at the wall bucket its place is in.          *)
LEMMA FiledAt ==
  ASSUME RingIInv, raster.commit # None, NEW i \in DOMAIN trend, trend[i].closed # None
  PROVE  LET off == Span(Anchor(raster.commit) - (Len(trend) - i)) - trend[i].closed
         IN  2 - 2 * Step - trend[i].slack =< off /\ off =< 2 * Step - 2 + trend[i].slack
<1> DEFINE wall == Span(Anchor(raster.commit))
           own == born + Boundary(raster.commit)
           u == Span(Len(trend) - i)
           c == trend[i].closed
           l == trend[i].slack
           r == sealed.residual
<1>1. /\ born \in Int /\ raster.commit \in Int /\ trend \in Seq(Samples) /\ Len(trend) \in Nat
      /\ r \in Int /\ Half + r >= 0 /\ r =< Step - 1 - Half
  BY Setting
<1>2. wall \in Int /\ own \in Int /\ wall - own < Step /\ own - wall < Step
  BY <1>1, Apart DEF Anchor
<1>3. Anchor(raster.commit) \in Int /\ Len(trend) - i \in Int
  <2>1. raster.commit \in Nat BY Setting
  <2>2. Anchor(raster.commit) \in Nat BY <2>1, AnchorIn
  <2>3. i \in Int BY <1>1
  <2> QED BY <1>1, <2>2, <2>3
<1>4. Span(Anchor(raster.commit) - (Len(trend) - i)) = wall - u /\ u \in Int BY <1>3, SpanIn
<1>5. c \in Int /\ l \in Nat
  <2>1. trend[i] \in Samples BY <1>1
  <2> QED BY <2>1, UnreadIn DEF Samples
<1>6. Half + 1 - Step - l =< own - u - r - c /\ own - u - r - c =< Half + l
  BY DEF RingIInv, ShownInv, Placed
<1> HIDE DEF wall, own, u, c, l, r
<1>7. 2 - 2 * Step - l =< (wall - u) - c /\ (wall - u) - c =< 2 * Step - 2 + l
  BY <1>1, <1>2, <1>4, <1>5, <1>6, HalfIn
<1> QED BY <1>4, <1>7 DEF c, l

LEMMA FilesIn == ASSUME RingIInv, NEW ok \in BOOLEAN, Files(ok) PROVE RingIInv'
<1> DEFINE anchor == Anchor(raster.commit)
           oldest == anchor - Len(trend) + 1
           from == Lifted(Floor)
           due == IF from = None \/ from + 1 < oldest THEN oldest ELSE from + 1
           j == Len(trend) - (anchor - due)
           new == [bucket |-> due, sample |-> trend[j]]
           seen == [writer EXCEPT !.floor = Floor, !.seam = None]
           files == ok /\ due =< anchor
<1>1. /\ dated /\ writer.restored /\ raster.commit # None /\ trend # <<>>
      /\ files => filed' = filed \cup {new} /\ writer' = [seen EXCEPT !.cursor = due]
      /\ ~files => writer' = seen /\ filed' = filed
      /\ seams' = [seams EXCEPT !.astray = @ \/ Backlogged]
      /\ UNCHANGED <<time, born, dated, trend, raster, sealed, pulse>>
  BY DEF Files
<1>2. /\ trend \in Seq(Samples) /\ Len(trend) \in Nat /\ Len(trend) =< RingSlots /\ Len(trend) # 0
      /\ DOMAIN trend = 1 .. Len(trend)
  BY <1>1, Setting
<1>3. anchor \in Nat /\ RingSlots =< anchor
  <2>1. raster.commit \in Nat BY <1>1, Setting
  <2> QED BY <2>1, AnchorIn
<1>4. /\ from \in Nat \cup {None} /\ from \in Int /\ writer.cursor =< from /\ writer.cursor \in Int
      /\ Floor \in Nat \cup {None} /\ (from = writer.cursor \/ (Floor # None /\ from = Floor))
  BY FloorIn
<1> HIDE DEF anchor, from
<1>5. oldest \in Nat /\ oldest >= 1 BY <1>2, <1>3, RingsAssumption
<1>6. due \in Nat /\ due >= oldest /\ from < due BY <1>4, <1>5, UnreadIn
<1>7. files => /\ j \in DOMAIN trend /\ anchor - (Len(trend) - j) = due
  <2> HIDE DEF due
  <2> QED BY <1>2, <1>3, <1>6
<1> HIDE DEF due
<1>8. /\ writer \in [cursor : Nat \cup {None}, restored : BOOLEAN,
                     seam : 0 .. RingSlots - 1 \cup {None}, floor : Nat \cup {None}]
      /\ filed \subseteq [bucket : Nat, sample : Samples]
  BY DEF RingIInv, RingShape
<1>9. /\ writer' \in [cursor : Nat \cup {None}, restored : BOOLEAN,
                      seam : 0 .. RingSlots - 1 \cup {None}, floor : Nat \cup {None}]
      /\ writer'.seam = None /\ writer'.floor = Floor
      /\ files => writer'.cursor = due
      /\ ~files => writer'.cursor = writer.cursor
  <2>1. CASE files BY <2>1, <1>1, <1>4, <1>6, <1>8
  <2>2. CASE ~files BY <2>2, <1>1, <1>4, <1>8
  <2> QED BY <2>1, <2>2
<1>10. files => new \in [bucket : Nat, sample : Samples] /\ new.bucket = due /\ new.sample = trend[j]
  BY <1>2, <1>6, <1>7
<1>11. filed' \subseteq [bucket : Nat, sample : Samples] BY <1>1, <1>8, <1>10
<1> HIDE DEF files, new, j
<1>12. RingShape'
  <2>1. seams' \in [count : 0 .. MaxSeams, astray : BOOLEAN]
    BY <1>1 DEF RingIInv, RingShape, Backlogged
  <2> QED BY <1>1, <1>9, <1>11, <2>1 DEF RingIInv, RingShape
<1>13. RasterInv'
  <2>1. Uptime' = Uptime BY <1>1 DEF Uptime
  <2> QED BY <1>1, <2>1 DEF RingIInv, RasterInv, BucketOf
<1>14. WriterInv'
  <2>1. CASE files
    <3>1. \A e \in filed : e.bucket =< due
      <4> TAKE e \in filed
      <4>1. e.bucket =< writer.cursor /\ e.bucket \in Nat
        BY <1>8 DEF RingIInv, WriterInv
      <4> QED BY <4>1, <1>4, <1>6
    <3>2. new \in filed' /\ new.bucket = due /\ writer'.cursor = due /\ due # None
      BY <2>1, <1>1, <1>6, <1>9, <1>10, UnreadIn
    <3>3. \A e \in filed' : e.bucket =< due BY <2>1, <3>1, <3>2, <1>1, <1>6
    <3> QED BY <1>9, <3>2, <3>3 DEF WriterInv
  <2>2. CASE ~files
    <3>1. filed' = filed /\ writer'.cursor = writer.cursor BY <2>2, <1>1, <1>9
    <3> QED BY <1>9, <3>1 DEF RingIInv, WriterInv
  <2> QED BY <2>1, <2>2
<1>15. ShownInv'
  <2>1. Boundary(raster.commit)' = Boundary(raster.commit) BY <1>1 DEF Boundary, BucketOf
  <2> QED BY <1>1, <2>1 DEF RingIInv, ShownInv
<1>16. FiledInv'
  <2> SUFFICES ASSUME NEW e \in filed', e.sample.closed # None
               PROVE  LET off == Span(e.bucket) - e.sample.closed
                      IN  2 - 2 * Step - e.sample.slack =< off /\ off =< 2 * Step - 2 + e.sample.slack
    BY DEF FiledInv, Span
  <2>1. CASE e \in filed BY <2>1 DEF RingIInv, FiledInv
  <2>2. CASE e \notin filed
    <3>1. files /\ e = new BY <2>2, <1>1
    <3>2. e.bucket = anchor - (Len(trend) - j) /\ e.sample = trend[j] /\ j \in DOMAIN trend
      BY <3>1, <1>7, <1>10
    <3> QED BY <3>2, <1>1, FiledAt DEF anchor
  <2> QED BY <2>1, <2>2
<1>17. OrderInv'
  <2>1. Until(trend, filed, born + Span(raster.bucket)) BY DEF RingIInv, OrderInv
  <2>2. Until(trend, filed', born + Span(raster.bucket))
    <3>1. \A e \in filed' : e.sample.closed =< born + Span(raster.bucket)
      <4> TAKE e \in filed'
      <4>1. CASE e \in filed BY <4>1, <2>1 DEF Until
      <4>2. CASE e \notin filed
        <5>1. files /\ e = new BY <4>2, <1>1
        <5> QED BY <5>1, <1>7, <1>10, <2>1 DEF Until
      <4> QED BY <4>1, <4>2
    <3> QED BY <2>1, <3>1 DEF Until
  <2>3. Span(raster.bucket)' = Span(raster.bucket) BY <1>1 DEF Span
  <2> QED BY <1>1, <2>2, <2>3 DEF OrderInv
<1>18. OnceInv'
  <2> SUFFICES ASSUME ~seams'.astray
               PROVE  /\ FiledOnce' /\ Single(trend)'
                      /\ Shared(trend, Anchor(raster.commit), filed, writer, born)'
    BY DEF OnceInv
  <2>1. ~seams.astray /\ ~Backlogged BY <1>1 DEF RingIInv, RingShape
  <2>2. FiledOnce /\ Single(trend) /\ Shared(trend, anchor, filed, writer, born)
    BY <2>1 DEF RingIInv, OnceInv, anchor
  <2>3. ASSUME NEW e \in filed, NEW i \in DOMAIN trend, trend[i].closed # None,
               trend[i].closed = e.sample.closed
        PROVE  anchor - (Len(trend) - i) =< from
    <3>1. Passed(anchor - (Len(trend) - i), writer, born) BY <2>2, <2>3 DEF Shared
    <3>2. writer.cursor # None BY <2>3 DEF RingIInv, WriterInv
    <3>3. anchor - (Len(trend) - i) \in Int BY <1>2, <1>3
    <3> QED BY <2>1, <3>1, <3>2, <3>3, NextIsAfter DEF from
  <2>4. \A e \in filed : files /\ e.sample.closed # None => e.sample.closed # trend[j].closed
    <3> SUFFICES ASSUME NEW e \in filed, files, e.sample.closed # None,
                        e.sample.closed = trend[j].closed
                 PROVE  FALSE
      OBVIOUS
    <3>1. j \in DOMAIN trend /\ anchor - (Len(trend) - j) = due BY <1>7
    <3>2. due =< from BY <2>3, <3>1
    <3> QED BY <3>2, <1>4, <1>6
  <2>5. FiledOnce'
    <3> SUFFICES ASSUME NEW e \in filed', NEW f \in filed',
                        e.sample.closed # None, e.sample.closed = f.sample.closed
                 PROVE  e = f
      BY DEF FiledOnce
    <3>1. CASE e \in filed /\ f \in filed BY <3>1, <2>1, <2>2 DEF FiledOnce
    <3>2. CASE e \notin filed /\ f \in filed BY <3>2, <1>1, <1>10, <2>4
    <3>3. CASE e \in filed /\ f \notin filed BY <3>3, <1>1, <1>10, <2>4
    <3>4. CASE e \notin filed /\ f \notin filed BY <3>4, <1>1
    <3> QED BY <3>1, <3>2, <3>3, <3>4
  <2>6. Shared(trend, anchor, filed', writer', born)
    <3> SUFFICES ASSUME NEW e \in filed', NEW i \in DOMAIN trend,
                        trend[i].closed # None, trend[i].closed = e.sample.closed
                 PROVE  Passed(anchor - (Len(trend) - i), writer', born)
      BY DEF Shared
    <3>1. CASE e \in filed
      <4>1. anchor - (Len(trend) - i) =< from /\ anchor - (Len(trend) - i) \in Int
        BY <3>1, <2>3, <1>2, <1>3
      <4>2. CASE files BY <4>1, <4>2, <1>4, <1>6, <1>9 DEF Passed
      <4>3. CASE ~files BY <4>1, <4>3, <1>4, <1>9 DEF Passed
      <4> QED BY <4>2, <4>3
    <3>2. CASE e \notin filed
      <4>1. files /\ e = new BY <3>2, <1>1
      <4>2. i = j BY <4>1, <1>7, <1>10, <2>2 DEF Single
      <4>3. anchor - (Len(trend) - i) = due BY <4>1, <4>2, <1>7
      <4> QED BY <4>1, <4>3, <1>6, <1>9 DEF Passed
    <3> QED BY <3>1, <3>2
  <2>7. Anchor(raster.commit)' = anchor BY <1>1 DEF Anchor, anchor, BucketOf
  <2>8. Single(trend)' = Single(trend) BY <1>1
  <2> QED BY <1>1, <2>2, <2>5, <2>6, <2>7, <2>8
<1> QED BY <1>12, <1>13, <1>14, <1>15, <1>16, <1>17, <1>18 DEF RingIInv

LEMMA LargerOf ==
  ASSUME NEW a \in Int, NEW b \in Int
  PROVE  /\ Max({a, b}) \in Int /\ a =< Max({a, b}) /\ b =< Max({a, b})
         /\ Max({a, b}) = a \/ Max({a, b}) = b
<1> DEFINE S == {a, b}
<1>1. \E x \in S : \A y \in S : x >= y OBVIOUS
<1>2. a \in S /\ b \in S /\ \A x \in S : x = a \/ x = b OBVIOUS
<1> HIDE DEF S
<1>3. Max(S) \in S /\ \A y \in S : Max(S) >= y BY <1>1 DEF Max
<1>4. Max(S) = a \/ Max(S) = b BY <1>2, <1>3
<1>5. Max(S) \in Int /\ a =< Max(S) /\ b =< Max(S) BY <1>2, <1>3, <1>4
<1> QED BY <1>4, <1>5 DEF S

(* What a restore puts where no live sample is, is of the bucket it filed.  *)
LEMMA MergedIn ==
  ASSUME RingIInv, filed # {}, NEW anchor \in Nat, RingSlots =< anchor,
         NEW r, r = Merged(anchor)
  PROVE  /\ r \in Seq(Samples) /\ Len(r) =< RingSlots
         /\ \A i \in DOMAIN r : r[i].closed # None =>
              \/ \E j \in DOMAIN trend : r[i] = trend[j] /\ Len(r) - i = Len(trend) - j
              \/ \E e \in filed : /\ e.bucket = anchor - (Len(r) - i)
                                  /\ r[i].closed = e.sample.closed
                                  /\ r[i].slack = e.sample.slack + 3 * Step
<1> DEFINE live == anchor - Len(trend) + 1
           held == {e.bucket : e \in filed}
           least == Min({live} \cup held)
           begins == Max({least, anchor - RingSlots + 1})
           sampleAt(i) == LET b == begins + i - 1
                          IN  IF b >= live THEN trend[b - live + 1] ELSE Old(b)
<1>1. /\ trend \in Seq(Samples) /\ Len(trend) \in Nat /\ Len(trend) =< RingSlots
      /\ DOMAIN trend = 1 .. Len(trend) /\ RingSlots \in Nat \ {0}
  BY Setting, RingsAssumption
<1>2. filed \subseteq [bucket : Nat, sample : Samples] BY DEF RingIInv, RingShape
<1>3. Cursor = writer.cursor BY CursorIs
<1>4. CASE Cursor > anchor \/ Cursor =< anchor - RingSlots
  <2>1. r = trend BY <1>4 DEF Merged
  <2> QED BY <2>1, <1>1
<1>5. CASE ~ (Cursor > anchor \/ Cursor =< anchor - RingSlots)
  <2>1. r = [i \in 1 .. (anchor - begins + 1) |-> sampleAt(i)] BY <1>5 DEF Merged
  <2>2. live \in Nat /\ live = anchor - Len(trend) + 1 /\ anchor - RingSlots + 1 =< live BY <1>1
  <2>3. writer.cursor \in Nat /\ writer.cursor \in held BY <1>2 DEF RingIInv, WriterInv
  <2>4. held \subseteq Nat BY <1>2
  <2> HIDE DEF live, held
  <2>5. least \in Nat /\ least =< live /\ least =< writer.cursor
    <3>1. {live} \cup held \subseteq Nat /\ live \in {live} \cup held BY <2>2, <2>4
    <3>2. least \in {live} \cup held /\ \A y \in {live} \cup held : least =< y BY <3>1, LeastIn
    <3> QED BY <3>1, <3>2, <2>3
  <2>6. writer.cursor =< anchor BY <1>3, <1>5, <2>3
  <2> HIDE DEF least
  <2>7. /\ begins \in Int /\ least =< begins /\ anchor - RingSlots + 1 =< begins
        /\ begins = least \/ begins = anchor - RingSlots + 1
    <3>1. least \in Int /\ anchor - RingSlots + 1 \in Int BY <1>1, <2>5
    <3> QED BY <3>1, LargerOf
  <2> HIDE DEF begins
  <2>8. begins =< live /\ begins =< anchor BY <1>1, <2>2, <2>3, <2>5, <2>6, <2>7
  <2>9. anchor - begins + 1 \in Nat /\ anchor - begins + 1 =< RingSlots BY <1>1, <2>7, <2>8
  <2>10. ASSUME NEW b \in Int, b < live
         PROVE  /\ Old(b) \in Samples
                /\ Old(b).closed # None =>
                     \E e \in filed : /\ e.bucket = b /\ Old(b).closed = e.sample.closed
                                      /\ Old(b).slack = e.sample.slack + 3 * Step
    <3>1. CASE \E e \in filed : e.bucket = b
      <4>1. At(b) \in filed /\ At(b).bucket = b BY <3>1 DEF At
      <4>2. At(b).sample \in Samples BY <4>1, <1>2
      <4> DEFINE x == At(b).sample
                 l == IF x.closed = None THEN 0 ELSE x.slack + 3 * Step
      <4>3. Old(b) = [x EXCEPT !.slack = l] BY <3>1 DEF Old
      <4>4. l \in Nat BY <4>2, HalfIn DEF Samples
      <4> HIDE DEF l
      <4>5. Old(b) \in Samples /\ Old(b).closed = x.closed /\ Old(b).slack = l
        BY <4>2, <4>3, <4>4 DEF Samples
      <4>6. x.closed # None => l = x.slack + 3 * Step BY DEF l
      <4> QED BY <4>1, <4>5, <4>6
    <3>2. CASE ~ \E e \in filed : e.bucket = b
      <4>1. Old(b) = Unread BY <3>2 DEF Old
      <4> QED BY <4>1, UnreadIn
    <3> QED BY <3>1, <3>2
  <2>11. ASSUME NEW i \in 1 .. (anchor - begins + 1)
         PROVE  /\ sampleAt(i) \in Samples
                /\ sampleAt(i).closed # None =>
                     \/ \E j \in DOMAIN trend : /\ sampleAt(i) = trend[j]
                                                /\ (anchor - begins + 1) - i = Len(trend) - j
                     \/ \E e \in filed : /\ e.bucket = anchor - ((anchor - begins + 1) - i)
                                         /\ sampleAt(i).closed = e.sample.closed
                                         /\ sampleAt(i).slack = e.sample.slack + 3 * Step
    <3> DEFINE b == begins + i - 1
    <3>1. b \in Int /\ i \in Int /\ b =< anchor /\ b = anchor - ((anchor - begins + 1) - i)
      BY <2>7, <2>9
    <3>2. CASE b >= live
      <4> DEFINE j == b - live + 1
      <4>1. sampleAt(i) = trend[j] BY <3>2
      <4>2. j \in 1 .. Len(trend) /\ (anchor - begins + 1) - i = Len(trend) - j
        BY <1>1, <2>2, <2>7, <3>1, <3>2
      <4> HIDE DEF j
      <4>3. trend[j] \in Samples BY <1>1, <4>2
      <4> HIDE DEF sampleAt
      <4> QED BY <1>1, <4>1, <4>2, <4>3
    <3>3. CASE ~ (b >= live)
      <4>1. sampleAt(i) = Old(b) BY <3>3
      <4>2. b < live BY <2>2, <3>1, <3>3
      <4> HIDE DEF sampleAt, b
      <4> QED BY <2>10, <3>1, <4>1, <4>2
    <3> QED BY <3>2, <3>3
  <2> HIDE DEF sampleAt
  <2>12. /\ r \in Seq(Samples) /\ Len(r) = anchor - begins + 1 /\ DOMAIN r = 1 .. (anchor - begins + 1)
         /\ \A i \in DOMAIN r : r[i] = sampleAt(i)
    <3>1. DOMAIN r = 1 .. (anchor - begins + 1) /\ \A i \in DOMAIN r : r[i] = sampleAt(i)
      BY <2>1
    <3>2. r \in [1 .. (anchor - begins + 1) -> Samples] BY <2>1, <2>11
    <3>3. r \in Seq(Samples) BY <2>9, <3>2
    <3> QED BY <2>9, <3>1, <3>3
  <2> QED BY <2>9, <2>11, <2>12
<1> QED BY <1>4, <1>5

(* A wall bucket filed less than two buckets off is, shown at the ring's    *)
(* own place for it, less than three and the remainder off.                 *)
LEMMA ShownAt ==
  ASSUME RingIInv, NEW commit \in Nat, NEW n \in Int, NEW e \in filed, e.sample.closed # None,
         e.bucket = Anchor(commit) - n, NEW x \in Samples, x.closed = e.sample.closed,
         x.slack = e.sample.slack + 3 * Step
  PROVE  LET off == (born + Boundary(commit)) - Span(n) - sealed.residual - x.closed
         IN  Half + 1 - Step - x.slack =< off /\ off =< Half + x.slack
<1> DEFINE wall == Span(Anchor(commit))
           own == born + Boundary(commit)
           u == Span(n)
           c == e.sample.closed
           l == e.sample.slack
           r == sealed.residual
<1>1. born \in Int /\ r \in Int /\ Half + r >= 0 /\ r =< Step - 1 - Half BY Setting, SMTT(60)
<1>2. wall \in Int /\ own \in Int /\ wall - own < Step /\ own - wall < Step
  <2>1. commit \in Int OBVIOUS
  <2>2. wall = Span(BucketOf(born + commit)) BY DEF Anchor
  <2> HIDE DEF wall
  <2> QED BY <1>1, <2>1, <2>2, Apart
<1>3. Anchor(commit) \in Int BY AnchorIn
<1>4. Span(e.bucket) = wall - u /\ u \in Int BY <1>3, SpanIn
<1>5. c \in Int /\ l \in Nat
  <2>1. e.sample \in Samples BY DEF RingIInv, RingShape
  <2> QED BY <2>1, UnreadIn DEF Samples
<1>6. 2 - 2 * Step - l =< Span(e.bucket) - c /\ Span(e.bucket) - c =< 2 * Step - 2 + l
  BY DEF RingIInv, FiledInv
<1> HIDE DEF wall, own, u, c, l, r
<1>7. 2 - 2 * Step - l =< (wall - u) - c /\ (wall - u) - c =< 2 * Step - 2 + l BY <1>4, <1>6
<1>8. Half + 1 - Step - (l + 3 * Step) =< own - u - r - c /\ own - u - r - c =< Half + (l + 3 * Step)
  BY <1>1, <1>2, <1>4, <1>5, <1>7, HalfIn
<1>9. x.closed = c /\ x.slack = l + 3 * Step BY DEF c, l
<1> QED BY <1>8, <1>9 DEF own, u, r

LEMMA RestoresIn == ASSUME RingIInv, Restores PROVE RingIInv'
<1> DEFINE seeds == raster.commit = None
           commit == IF seeds THEN Boundary(Uptime) ELSE raster.commit
           anchor == Anchor(commit)
           still == filed = {} \/ (seeds /\ Cursor > anchor)
<1>1. /\ raster.open => raster.bucket = BucketOf(Uptime)
      /\ dated /\ ~writer.restored /\ writer' = [writer EXCEPT !.restored = TRUE]
      /\ still => UNCHANGED <<trend, raster, pulse, seams>>
      /\ ~still => /\ trend' = Merged(anchor)
                   /\ seams' = [seams EXCEPT !.astray = @ \/ Doubled(trend')]
                   /\ raster' = [raster EXCEPT !.commit = commit, !.open = TRUE,
                                               !.bucket = IF raster.open THEN @ ELSE BucketOf(Uptime)]
                   /\ pulse' = IF seeds THEN Committed(commit) ELSE pulse
      /\ UNCHANGED <<time, born, dated, sealed, filed>>
  BY DEF Restores
<1>2. /\ writer \in [cursor : Nat \cup {None}, restored : BOOLEAN,
                     seam : 0 .. RingSlots - 1 \cup {None}, floor : Nat \cup {None}]
      /\ filed \subseteq [bucket : Nat, sample : Samples]
      /\ raster \in [open : BOOLEAN, bucket : Nat, commit : Nat \cup {None}, fresh : BOOLEAN]
      /\ pulse \in [sign : Nat, commit : Nat \cup {None}]
      /\ seams \in [count : 0 .. MaxSeams, astray : BOOLEAN]
  BY DEF RingIInv, RingShape
<1>3. /\ writer' \in [cursor : Nat \cup {None}, restored : BOOLEAN,
                      seam : 0 .. RingSlots - 1 \cup {None}, floor : Nat \cup {None}]
      /\ writer'.cursor = writer.cursor /\ writer'.seam = writer.seam
      /\ writer'.floor = writer.floor
  BY <1>1, <1>2
<1>4. WriterInv' /\ FiledInv'
  <2>1. WriterInv' BY <1>1, <1>3 DEF RingIInv, WriterInv
  <2> QED BY <2>1, <1>1 DEF RingIInv, FiledInv, Span
<1>5. \A b, start : Passed(b, writer, start) = Passed(b, writer', start)
  BY <1>3 DEF Passed
<1>6. \A s, a : Shared(s, a, filed, writer, born) => Shared(s, a, filed, writer', born)
  BY <1>5 DEF Shared
<1>7. Uptime' = Uptime /\ Uptime \in Nat BY <1>1, Setting DEF Uptime
<1>8. CASE still
  <2>1. UNCHANGED <<time, born, dated, trend, raster, sealed, pulse, filed, seams>> BY <1>1, <1>8
  <2> HIDE DEF still
  <2>2. RingShape' BY <2>1, <1>3 DEF RingIInv, RingShape
  <2>3. RasterInv' BY <2>1, <1>7 DEF RingIInv, RasterInv, BucketOf
  <2>4. ShownInv' BY <2>1 DEF RingIInv, ShownInv, Boundary, BucketOf
  <2>5. OrderInv' BY <2>1 DEF RingIInv, OrderInv, Span
  <2>6. OnceInv'
    <3> SUFFICES ASSUME ~seams.astray
                 PROVE  /\ FiledOnce' /\ Single(trend)'
                        /\ Shared(trend, Anchor(raster.commit), filed, writer, born)'
      BY <2>1 DEF OnceInv
    <3>1. FiledOnce /\ Single(trend) /\ Shared(trend, Anchor(raster.commit), filed, writer, born)
      BY DEF RingIInv, OnceInv
    <3>2. Anchor(raster.commit)' = Anchor(raster.commit) BY <2>1 DEF Anchor, BucketOf
    <3>3. Single(trend)' = Single(trend) BY <2>1
    <3>4. FiledOnce' = FiledOnce BY <2>1 DEF FiledOnce
    <3>5. Shared(trend, Anchor(raster.commit), filed, writer', born) BY <3>1, <1>6
    <3> QED BY <2>1, <3>1, <3>2, <3>3, <3>4, <3>5
  <2> QED BY <2>2, <2>3, <2>4, <2>5, <2>6, <1>4 DEF RingIInv
<1>9. CASE ~still
  <2>1. filed # {} BY <1>9
  <2>2. /\ trend' = Merged(anchor)
        /\ seams' = [seams EXCEPT !.astray = @ \/ Doubled(trend')]
        /\ raster' = [raster EXCEPT !.commit = commit, !.open = TRUE,
                                    !.bucket = IF raster.open THEN @ ELSE BucketOf(Uptime)]
        /\ pulse' = IF seeds THEN Committed(commit) ELSE pulse
    BY <1>1, <1>9
  <2> HIDE DEF still
  <2>3. BucketOf(Uptime) \in Nat /\ Boundary(Uptime) = Span(BucketOf(Uptime))
        /\ Boundary(Uptime) \in Nat /\ Boundary(Uptime) =< Uptime
    <3>1. Uptime \in Int BY <1>7
    <3> QED BY <1>7, <3>1, BucketIn, SpanIn
  <2>4. BucketOf(Boundary(Uptime)) = BucketOf(Uptime)
    <3>1. Boundary(Uptime) \in Int /\ BucketOf(Uptime) \in Int /\ Span(BucketOf(Uptime)) =< Boundary(Uptime)
          /\ Boundary(Uptime) < Span(BucketOf(Uptime)) + Step
      BY <2>3, HalfIn
    <3> QED BY <3>1, BucketOnce
  <2>5. /\ ~raster.open => raster.bucket = 0 /\ raster.commit = None
        /\ raster.commit = None => trend = <<>>
        /\ raster.commit # None => BucketOf(raster.commit) = raster.bucket /\ raster.commit =< Uptime
        /\ raster.bucket =< BucketOf(Uptime)
        /\ pulse.commit = raster.commit /\ pulse.sign =< Uptime
    BY DEF RingIInv, RasterInv
  <2>6. commit \in Nat /\ commit =< Uptime BY <1>2, <2>3, <2>5
  <2>7. trend # <<>> => raster.commit # None /\ commit = raster.commit BY <2>5
  <2>8. BucketOf(commit) = IF raster.open THEN raster.bucket ELSE BucketOf(Uptime)
    <3>1. CASE seeds BY <3>1, <1>1, <2>4
    <3>2. CASE ~seeds BY <3>2, <2>5
    <3> QED BY <3>1, <3>2
  <2>9. pulse' \in [sign : Nat, commit : Nat \cup {None}]
        /\ pulse'.sign =< Uptime /\ pulse'.commit = commit
    <3>1. CASE seeds BY <3>1, <2>2, <2>6, SignedIn
    <3>2. CASE ~seeds BY <3>2, <2>2, <2>5, <1>2
    <3> QED BY <3>1, <3>2
  <2> HIDE DEF commit
  <2>10. /\ raster' \in [open : BOOLEAN, bucket : Nat, commit : Nat \cup {None}, fresh : BOOLEAN]
         /\ raster'.open /\ raster'.commit = commit /\ raster'.bucket = BucketOf(commit)
         /\ raster.bucket =< raster'.bucket /\ raster'.bucket =< BucketOf(Uptime)
    <3> DEFINE q == IF raster.open THEN raster.bucket ELSE BucketOf(Uptime)
    <3>1. q \in Nat /\ raster.bucket =< q /\ q =< BucketOf(Uptime) BY <1>2, <2>3, <2>5
    <3>2. raster' = [raster EXCEPT !.commit = commit, !.open = TRUE, !.bucket = q] BY <1>2, <2>2
    <3>3. BucketOf(commit) = q BY <2>8
    <3> HIDE DEF q
    <3> QED BY <1>2, <2>6, <3>1, <3>2, <3>3
  <2>11. anchor \in Nat /\ RingSlots =< anchor BY <2>6, AnchorIn
  <2>12. raster'.commit # None BY <2>6, <2>10, UnreadIn
  <2>13. anchor = Anchor(commit) OBVIOUS
  <2> HIDE DEF anchor
  <2>14. /\ trend' \in Seq(Samples) /\ Len(trend') =< RingSlots
         /\ \A i \in DOMAIN trend' : trend'[i].closed # None =>
              \/ \E j \in DOMAIN trend : trend'[i] = trend[j] /\ Len(trend') - i = Len(trend) - j
              \/ \E e \in filed : /\ e.bucket = anchor - (Len(trend') - i)
                                  /\ trend'[i].closed = e.sample.closed
                                  /\ trend'[i].slack = e.sample.slack + 3 * Step
    BY <2>1, <2>2, <2>11, MergedIn
  <2>15. RingShape'
    <3>1. seams' \in [count : 0 .. MaxSeams, astray : BOOLEAN] BY <1>2, <2>2 DEF Doubled
    <3> QED BY <1>1, <1>3, <2>9, <2>10, <2>14, <3>1 DEF RingIInv, RingShape
  <2>16. RasterInv'
    <3>1. BucketOf(raster.commit)' = BucketOf(commit) /\ BucketOf(Uptime)' = BucketOf(Uptime)
      BY <1>7, <2>10 DEF BucketOf
    <3> QED BY <1>7, <2>6, <2>9, <2>10, <2>12, <3>1 DEF RasterInv
  <2>17. ShownInv'
    <3>1. Placed(trend', born + Boundary(commit), sealed.residual)
      <4> SUFFICES ASSUME NEW i \in DOMAIN trend', trend'[i].closed # None
                   PROVE  LET off == (born + Boundary(commit)) - Span(Len(trend') - i)
                                       - sealed.residual - trend'[i].closed
                          IN  Half + 1 - Step - trend'[i].slack =< off /\ off =< Half + trend'[i].slack
        BY DEF Placed
      <4>1. CASE \E j \in DOMAIN trend : trend'[i] = trend[j] /\ Len(trend') - i = Len(trend) - j
        <5>1. PICK j \in DOMAIN trend : trend'[i] = trend[j] /\ Len(trend') - i = Len(trend) - j
          BY <4>1
        <5>2. trend # <<>> BY <5>1
        <5>3. Placed(trend, born + Boundary(commit), sealed.residual)
          BY <2>7, <5>2 DEF RingIInv, ShownInv
        <5> QED BY <5>1, <5>3 DEF Placed
      <4>2. CASE \E e \in filed : /\ e.bucket = anchor - (Len(trend') - i)
                                  /\ trend'[i].closed = e.sample.closed
                                  /\ trend'[i].slack = e.sample.slack + 3 * Step
        <5>1. PICK e \in filed : /\ e.bucket = anchor - (Len(trend') - i)
                                 /\ trend'[i].closed = e.sample.closed
                                 /\ trend'[i].slack = e.sample.slack + 3 * Step
          BY <4>2
        <5>2. trend'[i] \in Samples /\ Len(trend') - i \in Int BY <2>14
        <5> QED BY <2>6, <2>13, <5>1, <5>2, ShownAt
      <4> QED BY <2>14, <4>1, <4>2
    <3>2. Boundary(raster.commit)' = Boundary(commit) BY <2>10 DEF Boundary, BucketOf
    <3> QED BY <1>1, <3>1, <3>2 DEF ShownInv
  <2>18. OrderInv'
    <3>1. Until(trend, filed, born + Span(raster.bucket)) BY DEF RingIInv, OrderInv
    <3>2. Until(trend', filed, born + Span(raster.bucket))
      <4>1. \A i \in DOMAIN trend' : trend'[i].closed =< born + Span(raster.bucket)
        <5> TAKE i \in DOMAIN trend'
        <5>1. CASE trend'[i].closed = None
          <6>1. born + Span(raster.bucket) \in Nat BY Setting, SMTT(60)
          <6> QED BY <5>1, <6>1, UnreadIn
        <5>2. CASE trend'[i].closed # None BY <5>2, <2>14, <3>1 DEF Until
        <5> QED BY <5>1, <5>2
      <4> QED BY <4>1, <3>1 DEF Until
    <3>3. Until(trend', filed, born + Span(raster'.bucket))
      <4>1. /\ born \in Nat /\ Span(raster.bucket) \in Int /\ Span(raster'.bucket) \in Int
            /\ Span(raster.bucket) =< Span(raster'.bucket)
        <5>1. raster.bucket \in Int /\ raster'.bucket \in Int BY <1>2, <2>10
        <5> QED BY <2>10, <5>1, Setting, SpanIn
      <4>2. \A y \in Samples : y.closed =< born + Span(raster.bucket) => y.closed =< born + Span(raster'.bucket)
        <5> TAKE y \in Samples
        <5>1. y.closed \in Int BY UnreadIn DEF Samples
        <5> QED BY <4>1, <5>1
      <4>3. /\ \A i \in DOMAIN trend' : trend'[i] \in Samples
            /\ \A e \in filed : e.sample \in Samples
        BY <1>2, <2>14
      <4> QED BY <3>2, <4>2, <4>3 DEF Until
    <3>4. Span(raster.bucket)' = Span(raster'.bucket) BY DEF Span
    <3> QED BY <1>1, <3>3, <3>4 DEF OrderInv
  <2>19. OnceInv'
    <3> SUFFICES ASSUME ~seams'.astray
                 PROVE  /\ FiledOnce' /\ Single(trend)'
                        /\ Shared(trend, Anchor(raster.commit), filed, writer, born)'
      BY DEF OnceInv
    <3>1. ~seams.astray /\ ~Doubled(trend') BY <1>2, <2>2
    <3>2. FiledOnce /\ Shared(trend, Anchor(raster.commit), filed, writer, born)
      BY <3>1 DEF RingIInv, OnceInv
    <3>3. Single(trend') BY <3>1 DEF Single, Doubled
    <3>4. Shared(trend', anchor, filed, writer', born)
      <4> SUFFICES ASSUME NEW e \in filed, NEW i \in DOMAIN trend',
                          trend'[i].closed # None, trend'[i].closed = e.sample.closed
                   PROVE  Passed(anchor - (Len(trend') - i), writer', born)
        BY DEF Shared
      <4>1. CASE \E j \in DOMAIN trend : trend'[i] = trend[j] /\ Len(trend') - i = Len(trend) - j
        <5>1. PICK j \in DOMAIN trend : trend'[i] = trend[j] /\ Len(trend') - i = Len(trend) - j
          BY <4>1
        <5>2. trend # <<>> BY <5>1
        <5>3. Anchor(raster.commit) = anchor BY <2>7, <2>13, <5>2
        <5>4. Passed(anchor - (Len(trend) - j), writer, born) BY <3>2, <5>1, <5>3 DEF Shared
        <5> QED BY <5>1, <5>4, <1>5
      <4>2. CASE \E f \in filed : f.bucket = anchor - (Len(trend') - i)
        <5>1. PICK f \in filed : f.bucket = anchor - (Len(trend') - i) BY <4>2
        <5>2. f.bucket =< writer'.cursor BY <5>1, <1>3 DEF RingIInv, WriterInv
        <5> QED BY <5>1, <5>2 DEF Passed
      <4> QED BY <2>14, <4>1, <4>2
    <3>5. Anchor(raster.commit)' = anchor BY <1>1, <2>10, <2>13 DEF Anchor, BucketOf
    <3>6. FiledOnce' BY <1>1, <3>1, <3>2 DEF FiledOnce
    <3>7. Single(trend)' = Single(trend') BY DEF Single
    <3> QED BY <1>1, <3>3, <3>4, <3>5, <3>6, <3>7
  <2> QED BY <2>15, <2>16, <2>17, <2>18, <2>19, <1>4 DEF RingIInv
<1> QED BY <1>8, <1>9

LEMMA BucketShift ==
  ASSUME NEW t \in Int, NEW n \in Int PROVE BucketOf(t - n * Step) = BucketOf(t) - n
<1>1. /\ BucketOf(t) \in Int /\ Span(BucketOf(t)) =< t /\ t < Span(BucketOf(t)) + Step
  BY BucketIn
<1>2. n * Step = Span(n) /\ Span(n) \in Int BY SpanIn DEF Span
<1>3. Span(BucketOf(t) - n) = Span(BucketOf(t)) - Span(n) /\ Span(BucketOf(t)) \in Int
  BY <1>1, SpanIn
<1>4. t - n * Step \in Int /\ BucketOf(t) - n \in Int BY <1>1, <1>2
<1>5. Span(BucketOf(t) - n) =< t - n * Step /\ t - n * Step < Span(BucketOf(t) - n) + Step
  BY <1>1, <1>2, <1>3, HalfIn
<1> QED BY <1>4, <1>5, BucketOnce

(* Nothing that a boot leaves behind is from after its end.                 *)
LEMMA EndsBefore ==
  ASSUME RingIInv, NEW u \in Nat, time =< u
  PROVE  Until(trend, filed, u)
<1>1. Until(trend, filed, born + Span(raster.bucket)) BY DEF RingIInv, OrderInv
<1>2. born + Span(raster.bucket) \in Nat /\ born + Span(raster.bucket) =< u
  <2>1. /\ Uptime \in Int /\ Uptime = time - born /\ time \in Nat /\ born \in Nat
        /\ raster.bucket \in Int /\ BucketOf(Uptime) \in Int /\ Span(raster.bucket) \in Nat
    BY Setting
  <2>2. raster.bucket =< BucketOf(Uptime) BY DEF RingIInv, RasterInv
  <2>3. Span(raster.bucket) =< Span(BucketOf(Uptime)) BY <2>1, <2>2, SpanIn
  <2>4. Span(BucketOf(Uptime)) =< Uptime /\ Span(BucketOf(Uptime)) \in Int BY <2>1, BucketIn, SpanIn
  <2> QED BY <2>1, <2>3, <2>4
<1>3. \A x \in Samples : x.closed =< born + Span(raster.bucket) => x.closed =< u
  <2> TAKE x \in Samples
  <2>1. x.closed \in Int BY UnreadIn DEF Samples
  <2> QED BY <2>1, <1>2
<1>4. (\A i \in DOMAIN trend : trend[i] \in Samples) /\ (\A e \in filed : e.sample \in Samples)
  BY DEF RingIInv, RingShape
<1> QED BY <1>1, <1>3, <1>4 DEF Until

(* The parts of a restart that are the same for an adopted and a lost ring. *)
LEMMA RebootsIn ==
  ASSUME RingIInv, NEW kept \in BOOLEAN, NEW down \in Downtimes, Reboots(kept, down)
  PROVE  /\ time' \in Nat /\ time' = time + down /\ born' = time' /\ Uptime' = 0
         /\ time =< time' /\ Span(RingSlots) =< born' /\ dated' = FALSE /\ filed' = filed
         /\ seams' \in [count : 0 .. MaxSeams, astray : BOOLEAN] /\ seams'.astray = seams.astray
         /\ BucketOf(0) = 0 /\ Boundary(0) = 0
         /\ FiledInv' /\ (~seams'.astray => FiledOnce')
<1>1. /\ seams.count < MaxSeams /\ seams' = [seams EXCEPT !.count = @ + 1]
      /\ time' = time + down /\ born' = time' /\ dated' = FALSE /\ filed' = filed
  BY DEF Reboots
<1>2. down \in Nat BY RingsAssumption
<1>3. time \in Nat /\ born \in Nat /\ born =< time /\ Span(RingSlots) =< born /\ Span(RingSlots) \in Nat
  BY Setting DEF RingIInv, RingShape
<1>4. PICK k \in Nat : k = time + down /\ time' = k BY <1>1, <1>2, <1>3
<1>5. Uptime' = 0 BY <1>1, <1>4 DEF Uptime
<1>6. seams' \in [count : 0 .. MaxSeams, astray : BOOLEAN] /\ seams'.astray = seams.astray
  <2>1. seams \in [count : 0 .. MaxSeams, astray : BOOLEAN] /\ MaxSeams \in Nat
    BY RingsAssumption DEF RingIInv, RingShape
  <2>2. seams.count \in 0 .. MaxSeams /\ seams.count + 1 \in 0 .. MaxSeams BY <1>1, <2>1
  <2> QED BY <1>1, <2>1, <2>2
<1>7. BucketOf(0) = 0 /\ Boundary(0) = 0
  <2>1. 0 \in Int /\ Span(0) =< 0 /\ 0 < Span(0) + Step BY SpanIn, HalfIn
  <2>2. BucketOf(0) = 0 BY <2>1, BucketOnce
  <2>3. Boundary(0) = Span(BucketOf(0)) BY <2>1, BucketIn
  <2> QED BY <2>2, <2>3, SpanIn
<1>8. FiledInv' BY <1>1 DEF RingIInv, FiledInv, Span
<1>9. ~seams'.astray => FiledOnce' BY <1>1, <1>6 DEF RingIInv, OnceInv, FiledOnce
<1>10. time =< time' /\ Span(RingSlots) =< born' BY <1>1, <1>2, <1>3, <1>4
<1> QED BY <1>1, <1>4, <1>5, <1>6, <1>7, <1>8, <1>9, <1>10

LEMMA StartsEmpty ==
  ASSUME RingIInv, NEW kept \in BOOLEAN, NEW down \in Downtimes, Reboots(kept, down),
         ~Adoptable(kept) \/ trend = <<>>
  PROVE  RingIInv'
<1>1. /\ trend' = <<>> /\ raster' = NoRaster /\ pulse' = NewPulse /\ writer' = NewWriter(None)
      /\ sealed'.residual = 0 /\ sealed' \in [residual : {0}, boots : 0 .. 1]
  <2>1. CASE Adoptable(kept) BY <2>1 DEF Reboots
  <2>2. CASE ~Adoptable(kept) BY <2>2 DEF Reboots
  <2> QED BY <2>1, <2>2
<1>2. /\ time' \in Nat /\ born' = time' /\ Uptime' = 0
      /\ time =< time' /\ Span(RingSlots) =< born' /\ dated' = FALSE /\ filed' = filed
      /\ seams' \in [count : 0 .. MaxSeams, astray : BOOLEAN]
      /\ BucketOf(0) = 0
      /\ FiledInv' /\ (~seams'.astray => FiledOnce')
  BY RebootsIn
<1>3. writer'.cursor = writer.cursor /\ writer'.seam = None /\ writer'.floor = None
  BY <1>1, CursorIs DEF NewWriter
<1>4. <<>> \in Seq(Samples) /\ Len(<<>>) = 0 /\ DOMAIN <<>> = {} OBVIOUS
<1>5. RingShape'
  <2>1. raster' \in [open : BOOLEAN, bucket : Nat, commit : Nat \cup {None}, fresh : BOOLEAN]
    BY <1>1 DEF NoRaster
  <2>2. pulse' \in [sign : Nat, commit : Nat \cup {None}] BY <1>1 DEF NewPulse
  <2>3. writer' \in [cursor : Nat \cup {None}, restored : BOOLEAN,
                     seam : 0 .. RingSlots - 1 \cup {None}, floor : Nat \cup {None}]
    <3>1. writer.cursor \in Nat \cup {None} BY DEF RingIInv, RingShape
    <3> QED BY <1>1, <3>1, CursorIs DEF NewWriter
  <2>4. 0 \in Remainders BY HalfIn DEF Remainders
  <2>5. sealed' \in [residual : Remainders, boots : 0 .. 1] BY <1>1, <2>4
  <2>6. filed \subseteq [bucket : Nat, sample : Samples] BY DEF RingIInv, RingShape
  <2>7. trend' \in Seq(Samples) /\ Len(trend') =< RingSlots BY <1>1, <1>4, RingsAssumption
  <2>8. dated' \in BOOLEAN BY <1>2, Zenon
  <2>9. Span(RingSlots)' = Span(RingSlots) BY DEF Span
  <2>10. time' \in Nat /\ born' \in Nat /\ Span(RingSlots) =< born' /\ born' =< time' BY <1>2
  <2> QED BY <1>2, <2>1, <2>2, <2>3, <2>5, <2>6, <2>7, <2>8, <2>9, <2>10 DEF RingShape
<1>6. RasterInv'
  <2>1. BucketOf(Uptime)' = BucketOf(0) BY <1>2 DEF BucketOf
  <2> QED BY <1>1, <1>2, <2>1 DEF RasterInv, NoRaster, NewPulse
<1>7. WriterInv' BY <1>2, <1>3 DEF RingIInv, WriterInv
<1>8. ShownInv' BY <1>1, <1>4 DEF ShownInv, Placed
<1>9. OrderInv'
  <2>1. Until(trend, filed, time') BY <1>2, EndsBefore
  <2>2. Span(raster.bucket)' = 0 BY <1>1, SpanIn DEF NoRaster, Span
  <2>3. born' + Span(raster.bucket)' = time'
    <3>1. PICK k \in Nat : time' = k BY <1>2
    <3> QED BY <1>2, <2>2, <3>1
  <2>4. Until(trend', filed, time') BY <2>1, <1>1, <1>4 DEF Until
  <2> QED BY <1>2, <2>3, <2>4 DEF OrderInv
<1>10. OnceInv' BY <1>1, <1>2, <1>4 DEF OnceInv, Single, Shared
<1> QED BY <1>2, <1>5, <1>6, <1>7, <1>8, <1>9, <1>10 DEF RingIInv

(* What an adoption books: whole buckets, and less than half of one more.   *)
LEMMA BookingIn ==
  ASSUME RingIInv, pulse.commit >= 0, pulse.sign >= pulse.commit
  PROVE  /\ Stretch \in Int /\ Unwatched \in Int /\ Booking.gaps \in Nat
         /\ Booking.gaps =< RingSlots /\ Booking.residual \in Remainders
         /\ Booking.gaps < RingSlots => Booking.residual = Unwatched - Span(Booking.gaps)
         /\ Booking.residual \in Int
<1>1. pulse.sign \in Nat /\ pulse.commit \in Nat
  BY UnreadIn DEF RingIInv, RingShape
<1>2. Boundary(pulse.commit) \in Int /\ Boundary(pulse.commit) =< pulse.commit
  <2>1. pulse.commit \in Int BY <1>1
  <2>2. /\ BucketOf(pulse.commit) \in Int /\ Span(BucketOf(pulse.commit)) =< pulse.commit
        /\ Boundary(pulse.commit) = Span(BucketOf(pulse.commit))
    BY <2>1, BucketIn
  <2> QED BY <2>2, SpanIn
<1>3. Stretch \in Nat BY <1>1, <1>2, RingsAssumption DEF Stretch
<1>4. sealed.residual \in Int /\ Half + sealed.residual >= 0 BY Setting
<1>5. Unwatched \in Int /\ Unwatched + Half \in Nat BY <1>3, <1>4, HalfIn DEF Unwatched
<1>6. Whole = BucketOf(Unwatched + Half) BY DEF Whole, BucketOf, Half
<1>7. /\ Whole \in Nat /\ Span(Whole) =< Unwatched + Half /\ Unwatched + Half < Span(Whole) + Step
      /\ Span(Whole) \in Int /\ Whole * Step = Span(Whole)
  <2>1. Unwatched + Half \in Int BY <1>5
  <2>2. Whole \in Nat /\ Span(Whole) =< Unwatched + Half /\ Unwatched + Half < Span(Whole) + Step
    BY <1>5, <1>6, <2>1, BucketIn
  <2> QED BY <2>2, SpanIn DEF Span
<1>8. CASE Whole >= RingSlots
  <2>1. Booking = [gaps |-> RingSlots, residual |-> 0] BY <1>8 DEF Booking
  <2> QED BY <1>3, <1>5, <2>1, HalfIn, RingsAssumption DEF Remainders
<1>9. CASE ~ (Whole >= RingSlots)
  <2>1. Booking = [gaps |-> Whole, residual |-> Unwatched - Whole * Step] BY <1>9 DEF Booking
  <2>2. Unwatched - Span(Whole) \in Remainders BY <1>5, <1>7, HalfIn DEF Remainders
  <2>3. Booking.gaps = Whole /\ Booking.residual = Unwatched - Span(Whole) BY <1>7, <2>1
  <2>4. Whole =< RingSlots BY <1>7, <1>9, RingsAssumption
  <2>5. Unwatched - Span(Whole) \in Int BY <1>5, <1>7
  <2> QED BY <1>3, <1>5, <1>7, <2>2, <2>3, <2>4, <2>5
<1> QED BY <1>8, <1>9

(* How far a restart moves the ring is what the ghost says was missed.      *)
LEMMA MissedIn ==
  ASSUME RingIInv, pulse.commit >= 0, pulse.sign >= pulse.commit, NEW down \in Downtimes
  PROVE  LET d == (time + down) - (born + Boundary(raster.commit)) - Stretch
         IN  Missed(down) \in Nat /\ d \in Int /\ -Missed(down) =< d /\ d =< Missed(down)
<1>1. pulse.sign \in Nat /\ pulse.commit = raster.commit
  BY DEF RingIInv, RingShape, RasterInv
<1>2. /\ time \in Nat /\ born \in Nat /\ Uptime = time - born /\ Boundary(raster.commit) \in Int
  BY Setting
<1>3. down \in Nat /\ Allowance \in Nat BY RingsAssumption
<1>4. Stretch = pulse.sign - Boundary(raster.commit) + Allowance BY <1>1 DEF Stretch
<1>5. Missed(down) = LET n == (time - born) - pulse.sign + down - Allowance IN IF n < 0 THEN -n ELSE n
  BY <1>2 DEF Missed
<1> DEFINE q == Boundary(raster.commit)
<1>6. q \in Int BY <1>2
<1> HIDE DEF q
<1>7. (time + down) - (born + q) - (pulse.sign - q + Allowance)
        = (time - born) - pulse.sign + down - Allowance
  BY <1>1, <1>2, <1>3, <1>6
<1> DEFINE n == (time - born) - pulse.sign + down - Allowance
<1>8. n \in Int BY <1>1, <1>2, <1>3
<1>9. (time + down) - (born + Boundary(raster.commit)) - Stretch = n BY <1>4, <1>7 DEF q
<1>10. Missed(down) = IF n < 0 THEN -n ELSE n BY <1>5
<1> HIDE DEF n
<1>11. Missed(down) \in Nat /\ -Missed(down) =< n /\ n =< Missed(down) BY <1>8, <1>10
<1> QED BY <1>8, <1>9, <1>11

LEMMA AdoptsIn ==
  ASSUME RingIInv, NEW kept \in BOOLEAN, NEW down \in Downtimes, Reboots(kept, down),
         Adoptable(kept), trend # <<>>
  PROVE  RingIInv'
<1> DEFINE gaps == Booking.gaps
           m == Missed(down)
           aged(i) == IF trend[i].closed = None THEN Unread ELSE [trend[i] EXCEPT !.slack = @ + m]
           old == [i \in DOMAIN trend |-> aged(i)]
           y == Youngest(old \o Unreads(gaps))
           wall == time'
<1>1. /\ trend' = y
      /\ sealed' = [residual |-> Booking.residual, boots |-> 1]
      /\ raster' = [NoRaster EXCEPT !.open = TRUE, !.commit = 0]
      /\ pulse' = [NewPulse EXCEPT !.commit = 0]
      /\ writer' = NewWriter(IF gaps >= RingSlots THEN None ELSE gaps)
  BY DEF Reboots
<1>2. /\ time' \in Nat /\ time' = time + down /\ born' = time' /\ Uptime' = 0
      /\ time =< time' /\ Span(RingSlots) =< born' /\ dated' = FALSE /\ filed' = filed
      /\ seams' \in [count : 0 .. MaxSeams, astray : BOOLEAN] /\ seams'.astray = seams.astray
      /\ BucketOf(0) = 0 /\ Boundary(0) = 0
      /\ FiledInv' /\ (~seams'.astray => FiledOnce')
  BY RebootsIn
<1>3. pulse.commit >= 0 /\ pulse.sign >= pulse.commit BY DEF Adoptable, Bookable
<1>4. /\ Stretch \in Int /\ Unwatched \in Int /\ gaps \in Nat
      /\ gaps =< RingSlots /\ Booking.residual \in Remainders
      /\ gaps < RingSlots => Booking.residual = Unwatched - Span(gaps)
      /\ Booking.residual \in Int
  BY <1>3, BookingIn
<1>5. LET d == (time + down) - (born + Boundary(raster.commit)) - Stretch
      IN  m \in Nat /\ d \in Int /\ -m =< d /\ d =< m
  BY <1>3, MissedIn
<1>6. trend \in Seq(Samples) /\ Len(trend) \in Nat /\ DOMAIN trend = 1 .. Len(trend) BY Setting
<1> HIDE DEF m, gaps
<1>7. /\ old \in Seq(Samples) /\ Len(old) = Len(trend) /\ DOMAIN old = DOMAIN trend
      /\ \A i \in DOMAIN old : /\ old[i].closed = trend[i].closed
                               /\ old[i].closed # None => old[i].slack = trend[i].slack + m
  <2>1. \A x \in Samples : /\ [x EXCEPT !.slack = @ + m] \in Samples
                           /\ [x EXCEPT !.slack = @ + m].closed = x.closed
                           /\ [x EXCEPT !.slack = @ + m].slack = x.slack + m
    BY <1>5 DEF Samples
  <2>2. \A i \in DOMAIN trend : /\ aged(i) \in Samples /\ aged(i).closed = trend[i].closed
                                /\ aged(i).closed # None => aged(i).slack = trend[i].slack + m
    <3> TAKE i \in DOMAIN trend
    <3>1. trend[i] \in Samples BY <1>6
    <3>2. CASE trend[i].closed = None BY <3>2, UnreadIn
    <3>3. CASE trend[i].closed # None BY <2>1, <3>1, <3>3
    <3> QED BY <3>2, <3>3
  <2> HIDE DEF aged
  <2>3. old \in [DOMAIN trend -> Samples] BY <2>2, Zenon
  <2>4. \A i \in DOMAIN trend : old[i] = aged(i) OBVIOUS
  <2>5. DOMAIN old = DOMAIN trend OBVIOUS
  <2> HIDE DEF old
  <2>6. old \in Seq(Samples) /\ Len(old) = Len(trend) BY <1>6, <2>3, <2>5
  <2> QED BY <2>2, <2>4, <2>5, <2>6
<1> HIDE DEF aged, old
<1>8. y \in Seq(Samples) /\ Len(y) =< RingSlots /\ From(y, old, gaps) BY <1>4, <1>7, PushedIn
<1>9. ASSUME gaps >= RingSlots, NEW i \in DOMAIN y, y[i].closed # None PROVE FALSE
  <2>1. PICK j \in DOMAIN old : Len(y) - i = Len(old) - j + gaps BY <1>8, <1>9 DEF From
  <2>2. j \in Nat /\ j =< Len(old) /\ Len(old) \in Nat /\ i \in Nat /\ i >= 1 /\ Len(y) \in Nat
    BY <1>7, <1>8
  <2> HIDE DEF y
  <2> QED BY <1>4, <1>8, <1>9, <2>1, <2>2, RingsAssumption
<1> HIDE DEF y
<1>10. PICK w \in Nat : w = time + down /\ time' = w /\ born' = w BY <1>2
<1>11. Placed(y, w, Booking.residual)
  <2>1. CASE gaps >= RingSlots BY <2>1, <1>9 DEF Placed
  <2>2. CASE ~ (gaps >= RingSlots)
    <3> DEFINE own == born + Boundary(raster.commit)
               r == sealed.residual
    <3>1. own \in Int /\ r \in Int /\ Unwatched = Stretch + r
      BY Setting DEF Unwatched
    <3>2. Placed(trend, own, r) BY DEF RingIInv, ShownInv
    <3>3. m \in Nat /\ -m =< w - own - Stretch /\ w - own - Stretch =< m BY <1>5, <1>10
    <3> HIDE DEF own, r
    <3>4. w - Stretch \in Int BY <1>4
    <3>5. Placed(old, w - Stretch, r)
      <4> SUFFICES ASSUME NEW i \in DOMAIN old, old[i].closed # None
                   PROVE  LET off == (w - Stretch) - Span(Len(old) - i) - r - old[i].closed
                          IN  Half + 1 - Step - old[i].slack =< off /\ off =< Half + old[i].slack
        BY DEF Placed
      <4> DEFINE u == Span(Len(trend) - i)
                 c == trend[i].closed
                 l == trend[i].slack
      <4>1. i \in DOMAIN trend /\ old[i].closed = c /\ old[i].slack = l + m /\ Span(Len(old) - i) = u
        BY <1>7
      <4>2. Half + 1 - Step - l =< own - u - r - c /\ own - u - r - c =< Half + l
        BY <4>1, <3>2 DEF Placed
      <4>3. u \in Int
        <5>1. Len(trend) - i \in Int BY <1>6, <4>1
        <5> QED BY <5>1, SpanIn
      <4>4. c \in Int /\ l \in Nat
        <5>1. trend[i] \in Samples BY <1>6, <4>1
        <5> QED BY <5>1, UnreadIn DEF Samples
      <4> HIDE DEF u, c, l
      <4>5. Half + 1 - Step - (l + m) =< (w - Stretch) - u - r - c
            /\ (w - Stretch) - u - r - c =< Half + (l + m)
        BY <1>4, <3>1, <3>3, <4>2, <4>3, <4>4, HalfIn
      <4> QED BY <4>1, <4>5
    <3>6. gaps < RingSlots BY <1>4, <2>2, RingsAssumption
    <3>7. Span(gaps) \in Int BY <1>4, SpanIn
    <3>8. w - Span(gaps) - Booking.residual = (w - Stretch) - r
      <4> DEFINE p == Booking.residual
                 v == Span(gaps)
      <4>1. p = (Stretch + r) - v /\ v \in Int BY <1>4, <3>1, <3>6, <3>7
      <4> HIDE DEF p, v
      <4>2. w - v - p = (w - Stretch) - r BY <1>4, <3>1, <4>1
      <4> QED BY <4>2 DEF p, v
    <3>9. w \in Int /\ Booking.residual \in Int /\ w - Stretch \in Int /\ r \in Int
      BY <1>4, <3>1, <3>4
    <3> QED BY <1>4, <1>7, <1>8, <3>5, <3>8, <3>9, PlacedFrom
  <2> QED BY <2>1, <2>2
<1>12. Until(y, filed, w)
  <2>1. Until(trend, filed, w) BY <1>2, <1>10, EndsBefore
  <2>2. Until(old, filed, w) BY <2>1, <1>7 DEF Until
  <2>3. \A e \in filed : e.sample \in Samples BY DEF RingIInv, RingShape
  <2> QED BY <1>4, <1>7, <1>8, <2>2, <2>3, UntilFrom
<1>13. RingShape'
  <2>1. raster' \in [open : BOOLEAN, bucket : Nat, commit : Nat \cup {None}, fresh : BOOLEAN]
    BY <1>1 DEF NoRaster
  <2>2. pulse' \in [sign : Nat, commit : Nat \cup {None}] BY <1>1 DEF NewPulse
  <2>3. writer' \in [cursor : Nat \cup {None}, restored : BOOLEAN,
                     seam : 0 .. RingSlots - 1 \cup {None}, floor : Nat \cup {None}]
    <3>1. writer.cursor \in Nat \cup {None} BY DEF RingIInv, RingShape
    <3>2. (IF gaps >= RingSlots THEN None ELSE gaps) \in 0 .. RingSlots - 1 \cup {None}
      BY <1>4, RingsAssumption
    <3> QED BY <1>1, <3>1, <3>2, CursorIs DEF NewWriter
  <2>4. sealed' \in [residual : Remainders, boots : 0 .. 1] BY <1>1, <1>4
  <2>5. filed \subseteq [bucket : Nat, sample : Samples] BY DEF RingIInv, RingShape
  <2>6. trend' \in Seq(Samples) /\ Len(trend') =< RingSlots BY <1>1, <1>8
  <2>7. dated' \in BOOLEAN BY <1>2, Zenon
  <2>8. Span(RingSlots)' = Span(RingSlots) BY DEF Span
  <2>9. time' \in Nat /\ born' \in Nat /\ Span(RingSlots) =< born' /\ born' =< time' BY <1>2, <1>10
  <2> QED BY <1>2, <2>1, <2>2, <2>3, <2>4, <2>5, <2>6, <2>7, <2>8, <2>9 DEF RingShape
<1>14. raster'.open /\ raster'.bucket = 0 /\ raster'.commit = 0 BY <1>1 DEF NoRaster
<1>15. RasterInv'
  <2>1. BucketOf(Uptime)' = 0 BY <1>2 DEF BucketOf
  <2>2. BucketOf(raster.commit)' = 0 BY <1>2, <1>14 DEF BucketOf
  <2>3. pulse'.sign = 0 /\ pulse'.commit = 0 BY <1>1 DEF NewPulse
  <2> QED BY <1>2, <1>14, <2>1, <2>2, <2>3, UnreadIn DEF RasterInv
<1>16. /\ writer'.cursor = writer.cursor /\ writer'.floor = None
       /\ gaps < RingSlots => writer'.seam = gaps
  BY <1>1, <1>4, CursorIs, RingsAssumption DEF NewWriter
<1>17. WriterInv' BY <1>2, <1>16 DEF RingIInv, WriterInv
<1>18. ShownInv'
  <2>1. Boundary(raster.commit)' = 0 BY <1>2, <1>14 DEF Boundary, BucketOf
  <2>2. born' + Boundary(raster.commit)' = w BY <2>1, <1>10
  <2>3. sealed'.residual = Booking.residual BY <1>1
  <2> QED BY <1>1, <1>11, <2>2, <2>3 DEF ShownInv
<1>19. OrderInv'
  <2>1. Span(raster.bucket)' = 0 BY <1>14, SpanIn DEF Span
  <2>2. born' + Span(raster.bucket)' = w BY <2>1, <1>10
  <2> QED BY <1>1, <1>2, <1>12, <2>2 DEF OrderInv
<1>20. OnceInv'
  <2> SUFFICES ASSUME ~seams'.astray
               PROVE  /\ FiledOnce' /\ Single(trend)'
                      /\ Shared(trend, Anchor(raster.commit), filed, writer, born)'
    BY DEF OnceInv
  <2>1. Single(trend) BY <1>2 DEF RingIInv, OnceInv
  <2>2. Single(old) BY <2>1, <1>7 DEF Single
  <2>3. Single(y) BY <1>4, <1>7, <1>8, <2>2, SingleFrom
  <2>4. Shared(y, BucketOf(w), filed, writer', w)
    <3> SUFFICES ASSUME NEW e \in filed, NEW i \in DOMAIN y,
                        y[i].closed # None, y[i].closed = e.sample.closed
                 PROVE  Passed(BucketOf(w) - (Len(y) - i), writer', w)
      BY DEF Shared
    <3>1. gaps < RingSlots BY <1>4, <1>9, RingsAssumption
    <3>2. writer'.seam = gaps /\ writer'.seam # None BY <1>4, <1>16, <3>1, UnreadIn
    <3>3. BucketOf(w) \in Int /\ BucketOf(w - gaps * Step) = BucketOf(w) - gaps
      <4>1. w \in Int /\ gaps \in Int BY <1>4
      <4>2. BucketOf(w) \in Int BY <4>1, BucketIn
      <4> QED BY <4>1, <4>2, BucketShift
    <3>4. PICK j \in DOMAIN old : Len(y) - i = Len(old) - j + gaps BY <1>8 DEF From
    <3>5. j \in Nat /\ j =< Len(old) /\ Len(old) \in Nat BY <1>7
    <3>6. BucketOf(w) - (Len(y) - i) =< BucketOf(w) - gaps BY <1>4, <3>3, <3>4, <3>5, SMTT(60)
    <3> QED BY <3>2, <3>3, <3>6 DEF Passed
  <2>5. Anchor(raster.commit)' = BucketOf(w)
    <3>1. Anchor(raster.commit)' = BucketOf(w + 0) BY <1>10, <1>14 DEF Anchor, BucketOf
    <3> QED BY <1>10, <3>1
  <2>6. Single(trend)' = Single(y) BY <1>1 DEF Single
  <2> QED BY <1>1, <1>2, <1>10, <2>3, <2>4, <2>5, <2>6
<1> QED BY <1>2, <1>13, <1>15, <1>17, <1>18, <1>19, <1>20 DEF RingIInv

LEMMA UnchangedIn == ASSUME RingIInv, UNCHANGED ringsVars PROVE RingIInv'
<1>1. UNCHANGED <<time, born, dated, trend, raster, sealed, pulse, filed, writer, seams>>
  BY DEF ringsVars
<1>2. RingShape' BY <1>1 DEF RingIInv, RingShape
<1>3. Uptime' = Uptime BY <1>1 DEF Uptime
<1>4. RasterInv' BY <1>1, <1>3 DEF RingIInv, RasterInv, BucketOf
<1> QED BY <1>1, <1>2, <1>4, StillIn DEF RingIInv

(* history.cpp and logic/history_persist.hpp: the raster, what is booked at *)
(* an adoption, the journal's cursor and the samples stay consistent, over  *)
(* any number of restarts of any length.                                    *)
THEOREM RingsInductive == RingsSpec => []RingIInv
<1>1. RingsInit => RingIInv BY InitRings
<1>2. RingIInv /\ [RingsNext]_ringsVars => RingIInv'
  <2> SUFFICES ASSUME RingIInv, [RingsNext]_ringsVars PROVE RingIInv' OBVIOUS
  <2>1. CASE TimeGoesOn BY <2>1, TimeGoesOnIn
  <2>2. CASE Synchronises BY <2>2, SynchronisesIn
  <2>3. CASE Signs BY <2>3, SignsIn
  <2>4. CASE Retires BY <2>4, RetiresIn
  <2>5. CASE Restores BY <2>5, RestoresIn
  <2>6. CASE \E t \in {Uptime, Uptime - 1} : t >= 0 /\ Records(t)
    <3>1. PICK t \in {Uptime, Uptime - 1} : t >= 0 /\ Records(t) BY <2>6
    <3>2. t \in Nat /\ t =< Uptime
      <4>1. Uptime \in Nat BY Setting
      <4> QED BY <3>1, <4>1
    <3> QED BY <3>1, <3>2, RecordsIn
  <2>7. CASE \E ok \in BOOLEAN : Files(ok) BY <2>7, FilesIn
  <2>8. CASE \E kept \in BOOLEAN, down \in Downtimes : time + down =< LastTime /\ Reboots(kept, down)
    <3>1. PICK kept \in BOOLEAN, down \in Downtimes : Reboots(kept, down) BY <2>8
    <3> QED BY <3>1, StartsEmpty, AdoptsIn
  <2>9. CASE UNCHANGED ringsVars BY <2>9, UnchangedIn
  <2> QED BY <2>1, <2>2, <2>3, <2>4, <2>5, <2>6, <2>7, <2>8, <2>9 DEF RingsNext
<1> QED BY <1>1, <1>2, PTL DEF RingsSpec

(* A reading is off by its two remainders, which are less than a bucket     *)
(* apart, and by what could not be measured.                                *)
LEMMA InvIsExact == RingIInv => TrendExact
<1> SUFFICES ASSUME RingIInv PROVE TrendExact OBVIOUS
<1>1. /\ born \in Nat /\ trend \in Seq(Samples) /\ Len(trend) \in Nat /\ Len(trend) =< RingSlots
      /\ sealed.residual \in Int /\ Half + sealed.residual >= 0
      /\ sealed.residual =< Step - 1 - Half /\ Boundary(raster.commit) \in Int /\ Uptime \in Nat
  BY Setting
<1>2. RingsTypeOK
  <2>1. /\ born =< time /\ seams.count \in 0 .. MaxSeams /\ sealed.boots \in 0 .. 1
        /\ raster.commit \in Nat \cup {None}
    BY DEF RingIInv, RingShape
  <2>2. seams.count =< MaxSeams BY <2>1, RingsAssumption
  <2>3. /\ raster.bucket =< BucketOf(Uptime) /\ pulse.sign =< Uptime
        /\ raster.commit # None => raster.commit =< Uptime
    BY DEF RingIInv, RasterInv
  <2>4. raster.commit =< Uptime BY <1>1, <2>1, <2>3, UnreadIn
  <2>5. sealed.residual \in -(Step \div 2) .. (Step \div 2)
    <3>1. sealed.residual \in -Half .. Half BY <1>1, HalfIn
    <3> QED BY <3>1 DEF Half
  <2> QED BY <1>1, <2>1, <2>2, <2>3, <2>4, <2>5 DEF RingsTypeOK
<1>3. DatedExact
  <2> SUFFICES ASSUME NEW i \in DOMAIN trend, trend[i].closed # None
               PROVE  Distance(born + Boundary(raster.commit) - (Len(trend) - i) * Step,
                               trend[i].closed) < Step + trend[i].slack
    BY DEF DatedExact
  <2> DEFINE own == born + Boundary(raster.commit)
             u == Span(Len(trend) - i)
             c == trend[i].closed
             l == trend[i].slack
             r == sealed.residual
  <2>1. Half + 1 - Step - l =< own - u - r - c /\ own - u - r - c =< Half + l
    BY DEF RingIInv, ShownInv, Placed
  <2>2. own \in Int /\ r \in Int /\ Half + r >= 0 /\ r =< Step - 1 - Half BY <1>1
  <2>3. u \in Int /\ (Len(trend) - i) * Step = u
    <3>1. Len(trend) - i \in Int BY <1>1
    <3> QED BY <3>1, SpanIn DEF Span
  <2>4. c \in Int /\ l \in Nat
    <3>1. trend[i] \in Samples BY <1>1
    <3> QED BY <3>1, UnreadIn DEF Samples
  <2>5. born + Boundary(raster.commit) - u = own - u
    <3> HIDE DEF u
    <3> QED BY <1>1, <2>3
  <2> HIDE DEF own, u, c, l, r
  <2>6. /\ own - u < c => c - (own - u) < Step + l
        /\ own - u >= c => (own - u) - c < Step + l
    BY <2>1, <2>2, <2>3, <2>4, HalfIn
  <2>7. Distance(own - u, c) < Step + l BY <2>2, <2>3, <2>4, <2>6 DEF Distance
  <2> QED BY <2>3, <2>5, <2>7 DEF c, l
<1>4. FiledOnce BY DEF RingIInv, OnceInv, FiledOnce
<1> QED BY <1>2, <1>3, <1>4 DEF TrendExact

(* The README: samples keep their place on the time axis over restarts, and *)
(* the journal files each once.  For every length of a bucket and of the    *)
(* ring, every downtime and any number of restarts.                         *)
THEOREM TrendAlwaysExact == RingsSpec => []TrendExact
<1>1. RingIInv => TrendExact BY InvIsExact
<1> QED BY <1>1, RingsInductive, PTL
=============================================================================
