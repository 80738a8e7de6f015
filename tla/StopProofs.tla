----------------------------- MODULE StopProofs -----------------------------
(* Proofs about StopStore: a report counts only stops witnessed for the     *)
(* source and under the consent of today that were never withdrawn; it      *)
(* counts each once; and one that should be in it is counted, or the report *)
(* admits that it may be incomplete.                                        *)
EXTENDS StopStore, FiniteSetTheorems, WellFoundedInduction, TLAPS

-----------------------------------------------------------------------------
(* The inductive invariant: shapes *)

Srcs  == PumpSources \cup {NoSource}
Sums  == [Stops -> Nat]
Ids   == [src : Srcs, consent : Nat]
Kinds == {"none", "fence", "hour"}

Hours   == [hour : Nat, sum : Sums]
Entries == [hour : Nat, sum : Sums, claimed : BOOLEAN]
Dones   == [sum : Sums, expiry : Nat, lost : BOOLEAN, partial : BOOLEAN]
Stores  ==
  [enabled : BOOLEAN, id : Ids, gen : Nat, confirmed : BOOLEAN, sealed : BOOLEAN,
   restore : BOOLEAN, blocked : BOOLEAN, barrier : BOOLEAN, clock : {"agrees", "moved", "bad"},
   moved : BOOLEAN, open : Hours, queue : [Places -> Entries], done : Dones,
   owed : Kinds, lost : BOOLEAN]
Records  == [kind : Kinds, id : Ids, hour : Nat, sum : Sums, lost : BOOLEAN]
Receipts == [kind : Kinds, ok : BOOLEAN]
Owners   == [pc : {"idle", "rebuild", "append"}, rec : Records, hour : Nat,
             receipt : Receipts, rebuild : BOOLEAN]
Pendings == [hour : Nat, gen : Nat, id : Ids]
Checkups == [source : Srcs, allow : BOOLEAN, reset : BOOLEAN, gen : Nat, pending : Pendings,
             closed : BOOLEAN]
Sweeps   == [on : BOOLEAN, consent : Nat, gen : Nat]
Seen     == [hour : Nat, id : Ids, fenced : BOOLEAN, here : BOOLEAN, gone : BOOLEAN]

StoreShape == store \in Stores /\ owner \in Owners /\ hour \in Nat \ {0}
FlashShape == journal \in Seq(Records) /\ known \subseteq DOMAIN journal
PollShape  == checkup \in Checkups /\ sweep \in Sweeps /\ target \in Nat /\ plant \in PumpSources
GhostShape == stops \in Seq(Seen) /\ Len(stops) <= MaxStops /\ stale \subseteq {"sweep", "pending"}

-----------------------------------------------------------------------------
(* The inductive invariant: what is live is valid *)

(* Store s counts stop e: in the open hour, the queue or the restored sum.  *)
Live(s, e) ==
  s.open.sum[e] > 0 \/ s.done.sum[e] > 0 \/ \E i \in Places : s.queue[i].sum[e] > 0
Valid(e) == e \in DOMAIN stops /\ ~stops[e].gone /\ stops[e].id = store.id
LiveInv  == \A e \in Stops : Live(store, e) => store.confirmed /\ Valid(e)

(* What was cleared stays barred until its fence is committed, and a        *)
(* transaction, a receipt or a rebuild that was under way knows it.         *)
Carrying == owner.pc = "append" /\ owner.rec.kind = "hour"
EpochInv ==
  /\ store.moved => store.blocked
  /\ Captured /\ ~store.confirmed => store.moved
  /\ owner.pc = "rebuild" \/ Carrying => store.moved \/ ~store.blocked
  /\ owner.pc # "idle" => owner.receipt = NoReceipt
  /\ store.enabled /\ store.blocked => store.barrier
  /\ store.confirmed => store.enabled

(* The journal: a record holds stops of its own identity, and a fence lies  *)
(* behind every record that holds a stop fenced off; a known one, of what   *)
(* was withdrawn under the identity that is not barred any more.            *)
Holds(n, e) == journal[n].sum[e] > 0
Covered(e, n, K) ==
  \E m \in K : n < m /\ journal[m].kind = "fence" /\ journal[m].id = stops[e].id
Cut(e, K) == \A n \in DOMAIN journal : Holds(n, e) => Covered(e, n, K)
JournalInv ==
  \A n \in DOMAIN journal :
    /\ journal[n].kind # "none"
    /\ \A e \in Stops : Holds(n, e) =>
         journal[n].kind = "hour" /\ e \in DOMAIN stops /\ stops[e].id = journal[n].id
Unbarred == ~store.blocked \/ (owner.receipt = [kind |-> "fence", ok |-> TRUE] /\ ~store.moved)
FenceInv ==
  /\ \A e \in DOMAIN stops : stops[e].fenced => stops[e].gone /\ Cut(e, DOMAIN journal)
  /\ Unbarred => \A e \in DOMAIN stops : stops[e].gone /\ stops[e].id = store.id => Cut(e, known)

(* What a record under way holds.                                           *)
ClaimInv ==
  owner.pc = "append" =>
    /\ owner.rec.kind \in {"fence", "hour"}
    /\ owner.rec.kind = "fence" => owner.rec.sum = Nothing
    /\ ~store.moved => owner.rec.id = store.id
    /\ \A e \in Stops : owner.rec.sum[e] > 0 =>
         /\ e \in DOMAIN stops /\ stops[e].id = owner.rec.id /\ ~stops[e].fenced
         /\ ~store.moved => Valid(e)
    /\ owner.rec.kind = "hour" =>
         \A e \in DOMAIN stops : stops[e].fenced /\ stops[e].id = owner.rec.id => Cut(e, known)
EvidenceInv == LiveInv /\ EpochInv /\ JournalInv /\ FenceInv /\ ClaimInv

-----------------------------------------------------------------------------
(* The inductive invariant: the checkup and its sweeps *)

SourceInv ==
  /\ store.gen = checkup.gen
  /\ store.confirmed <=> store.enabled /\ checkup.source # NoSource
  /\ store.sealed => checkup.closed

(* Before the first source of a boot nothing has been withdrawn in it.      *)
FreshInv ==
  checkup.source = NoSource /\ checkup.allow =>
    ~Captured /\ \A e \in DOMAIN stops : stops[e].gone => Cut(e, known)

(* A sweep that began before a withdrawal is never admitted.                *)
StaleInv ==
  /\ sweep.on => sweep.consent <= store.id.consent /\ sweep.gen <= target
  /\ "pending" \notin stale
  /\ "sweep" \in stale =>
       /\ sweep.on
       /\ \/ checkup.reset \/ checkup.closed
          \/ sweep.consent # store.id.consent \/ sweep.gen # target

Pends == IF checkup.pending = NoPending THEN 0 ELSE 1
PendingInv ==
  /\ checkup.pending # NoPending => checkup.pending.id = store.id
  /\ Len(stops) + Pends <= MaxStops
CheckupInv == SourceInv /\ FreshInv /\ StaleInv /\ PendingInv

StopShape == StoreShape /\ FlashShape /\ PollShape /\ GhostShape
StopIInv  == StopShape /\ EvidenceInv /\ CheckupInv

-----------------------------------------------------------------------------
(* Least numbers, and sums *)

LEMMA Bounds ==
  /\ StopWindow \in Nat \ {0} /\ QueueCap \in Nat \ {0} /\ MaxHour \in Nat \ {0}
  /\ MaxStops \in Nat /\ MaxEvents \in Nat /\ MaxTogether \in Nat
BY StopAssumption

(* A set of numbers has a least one: the sets 0..n are well-founded.        *)
LEMMA LeastExists ==
  ASSUME NEW S \in SUBSET Nat, S # {}
  PROVE  \E m \in S : \A n \in S : m =< n
<1> DEFINE T == {0 .. n : n \in S}
           R == StrictSubsetOrdering(Nat)
<1>1. IsWellFoundedOn(R, FiniteSubsetsOf(Nat)) BY FS_StrictSubsetOrderingWellFounded
<1>2. \A n \in S : 0 .. n \in FiniteSubsetsOf(Nat)
  <2> SUFFICES ASSUME NEW n \in S PROVE 0 .. n \in FiniteSubsetsOf(Nat) OBVIOUS
  <2>1. IsFiniteSet(0 .. n) BY FS_Interval
  <2>2. 0 .. n \in SUBSET Nat OBVIOUS
  <2> QED BY <2>1, <2>2 DEF FiniteSubsetsOf
<1>3. T \subseteq FiniteSubsetsOf(Nat) /\ T # {} BY <1>2
<1>4. \A m, n \in S : n < m => <<0 .. n, 0 .. m>> \in R
  <2> SUFFICES ASSUME NEW m \in S, NEW n \in S, n < m PROVE <<0 .. n, 0 .. m>> \in R OBVIOUS
  <2>1. 0 .. n \subseteq 0 .. m /\ 0 .. n # 0 .. m
    <3>1. m \in 0 .. m /\ m \notin 0 .. n OBVIOUS
    <3>2. \A k \in 0 .. n : k \in 0 .. m OBVIOUS
    <3> QED BY <3>1, <3>2
  <2>2. 0 .. n \in SUBSET Nat /\ 0 .. m \in SUBSET Nat OBVIOUS
  <2> QED BY <2>1, <2>2 DEF StrictSubsetOrdering
<1> HIDE DEF R
<1>5. PICK x \in T : \A y \in T : ~(<<y, x>> \in R) BY <1>1, <1>3, WFMin
<1>6. PICK m \in S : x = 0 .. m BY <1>5
<1>7. \A n \in S : ~(n < m) BY <1>4, <1>5, <1>6
<1> QED BY <1>7

LEMMA MinIn ==
  ASSUME NEW S \in SUBSET Nat, S # {}
  PROVE  Min(S) \in S /\ \A n \in S : Min(S) =< n
BY LeastExists DEF Min

LEMMA MaxIn ==
  ASSUME NEW k \in Nat, NEW S \in SUBSET (0 .. k), S # {}
  PROVE  Max(S) \in S /\ \A n \in S : n =< Max(S)
<1> DEFINE T == {k - n : n \in S}
<1>1. T \in SUBSET Nat /\ T # {}
  <2>1. PICK n \in S : TRUE OBVIOUS
  <2>2. k - n \in T BY <2>1
  <2> QED BY <2>2
<1>2. PICK m \in T : \A n \in T : m =< n BY <1>1, LeastExists
<1>3. PICK x \in S : m = k - x BY <1>2
<1>4. \A n \in S : x >= n
  <2> SUFFICES ASSUME NEW n \in S PROVE x >= n OBVIOUS
  <2>1. m =< k - n BY <1>2
  <2> QED BY <1>3, <2>1
<1> QED BY <1>4 DEF Max

LEMMA SumsIn ==
  /\ Nothing \in Sums /\ \A e \in Stops : ~(Nothing[e] > 0)
  /\ \A e : Just(e) \in Sums /\ \A d \in Stops : Just(e)[d] > 0 => d = e
  /\ \A a, b \in Sums :
       Plus(a, b) \in Sums /\ \A e \in Stops : Plus(a, b)[e] > 0 => a[e] > 0 \/ b[e] > 0
<1>1. Nothing \in Sums /\ \A e \in Stops : ~(Nothing[e] > 0) BY DEF Nothing, Sums
<1>2. ASSUME NEW e PROVE Just(e) \in Sums /\ \A d \in Stops : Just(e)[d] > 0 => d = e
  BY <1>1 DEF Just, Nothing, Sums
<1>3. ASSUME NEW a \in Sums, NEW b \in Sums
      PROVE  Plus(a, b) \in Sums /\ \A e \in Stops : Plus(a, b)[e] > 0 => a[e] > 0 \/ b[e] > 0
  BY DEF Plus, Sums
<1> QED BY <1>1, <1>2, <1>3

LEMMA TotalFinite ==
  ASSUME NEW I, IsFiniteSet(I), NEW f \in [I -> Sums], NEW e \in Stops
  PROVE  IsFiniteSet(UNION {{i} \X (1 .. f[i][e]) : i \in I})
<1> DEFINE C == {{i} \X (1 .. f[i][e]) : i \in I}
           g == [i \in I |-> {i} \X (1 .. f[i][e])]
<1>1. g \in Surjection(I, C) BY DEF Surjection
<1>2. IsFiniteSet(C) BY <1>1, FS_Surjection
<1>3. \A i \in I : IsFiniteSet({i} \X (1 .. f[i][e]))
  <2> SUFFICES ASSUME NEW i \in I PROVE IsFiniteSet({i} \X (1 .. f[i][e])) OBVIOUS
  <2>1. f[i][e] \in Nat BY DEF Sums
  <2>2. IsFiniteSet(1 .. f[i][e]) BY <2>1, FS_Interval
  <2>3. IsFiniteSet({i}) BY FS_Singleton
  <2> QED BY <2>2, <2>3, FS_Product
<1>4. \A T \in C : IsFiniteSet(T) BY <1>3
<1> QED BY <1>2, <1>4, FS_UNION

LEMMA TotalIn ==
  ASSUME NEW I, IsFiniteSet(I), NEW f \in [I -> Sums]
  PROVE  Total(f) \in Sums
<1> SUFFICES ASSUME NEW e \in Stops
             PROVE  Cardinality(UNION {{i} \X (1 .. f[i][e]) : i \in I}) \in Nat
  BY DEF Total, Sums
<1> QED BY TotalFinite, FS_CardinalityType

LEMMA TotalPositive ==
  ASSUME NEW I, NEW f \in [I -> Sums], NEW e \in Stops, Total(f)[e] > 0
  PROVE  \E i \in I : f[i][e] > 0
<1> SUFFICES ASSUME \A i \in I : ~(f[i][e] > 0) PROVE FALSE OBVIOUS
<1>1. \A i \in I : {i} \X (1 .. f[i][e]) = {}
  <2> SUFFICES ASSUME NEW i \in I PROVE 1 .. f[i][e] = {} OBVIOUS
  <2>1. f[i][e] \in Nat BY DEF Sums
  <2> QED BY <2>1
<1>2. UNION {{i} \X (1 .. f[i][e]) : i \in I} = {} BY <1>1
<1>3. Total(f)[e] = 0 BY <1>2, FS_EmptySet DEF Total
<1> QED BY <1>3

(* Of parts that hold a stop once, and at most one of them, the sum does so *)
(* too; and what a part holds is in the sum.                                *)
LEMMA TotalMost ==
  ASSUME NEW I, NEW f \in [I -> Sums], NEW e \in Stops, \A i \in I : f[i][e] =< 1,
         \A i, j \in I : f[i][e] > 0 /\ f[j][e] > 0 => i = j
  PROVE  Total(f)[e] =< 1
<1> DEFINE U == UNION {{i} \X (1 .. f[i][e]) : i \in I}
<1>1. Total(f)[e] = Cardinality(U) BY DEF Total
<1>2. CASE \A i \in I : ~(f[i][e] > 0)
  <2>1. \A i \in I : {i} \X (1 .. f[i][e]) = {}
    <3> SUFFICES ASSUME NEW i \in I PROVE 1 .. f[i][e] = {} OBVIOUS
    <3>1. f[i][e] \in Nat BY DEF Sums
    <3> QED BY <1>2, <3>1
  <2>2. U = {} BY <2>1
  <2> HIDE DEF U
  <2> QED BY <1>1, <2>2, FS_EmptySet
<1>3. CASE \E i \in I : f[i][e] > 0
  <2>1. PICK i \in I : f[i][e] > 0 BY <1>3
  <2>2. \A j \in I : f[j][e] \in Nat BY DEF Sums
  <2>3. f[i][e] = 1 /\ \A j \in I : j # i => f[j][e] = 0 BY <2>1, <2>2
  <2>4. U = {<<i, 1>>}
    <3>1. {i} \X (1 .. f[i][e]) = {<<i, 1>>} BY <2>3
    <3>2. \A j \in I : j # i => {j} \X (1 .. f[j][e]) = {} BY <2>3
    <3>3. \A u \in U : u = <<i, 1>> BY <3>1, <3>2
    <3>4. <<i, 1>> \in U BY <2>1, <3>1
    <3> QED BY <3>3, <3>4
  <2> HIDE DEF U
  <2>5. Cardinality({<<i, 1>>}) = 1 BY FS_Singleton
  <2> QED BY <1>1, <2>4, <2>5
<1> QED BY <1>2, <1>3

LEMMA TotalLeast ==
  ASSUME NEW I, IsFiniteSet(I), NEW f \in [I -> Sums], NEW e \in Stops, NEW i \in I, f[i][e] > 0
  PROVE  Total(f)[e] > 0
<1> DEFINE U == UNION {{j} \X (1 .. f[j][e]) : j \in I}
<1>1. Total(f)[e] = Cardinality(U) BY DEF Total
<1>2. IsFiniteSet(U) BY TotalFinite
<1>3. U # {}
  <2>1. f[i][e] \in Nat BY DEF Sums
  <2>2. <<i, 1>> \in {i} \X (1 .. f[i][e]) BY <2>1
  <2> QED BY <2>2
<1> HIDE DEF U
<1>4. Cardinality(U) \in Nat /\ Cardinality(U) # 0 BY <1>2, <1>3, FS_EmptySet, FS_CardinalityType
<1> QED BY <1>1, <1>4

-----------------------------------------------------------------------------
(* The operations of the store *)

(* t is s as far as identity, epoch and barriers go, and counts no stop     *)
(* that s does not.                                                         *)
Same(s, t) ==
  /\ t.id = s.id /\ t.gen = s.gen /\ (t.enabled <=> s.enabled) /\ (t.confirmed <=> s.confirmed)
  /\ (t.blocked <=> s.blocked) /\ (t.barrier <=> s.barrier) /\ (t.moved <=> s.moved)
  /\ (t.sealed <=> s.sealed)
Within(s, t) == \A e \in Stops : Live(t, e) => Live(s, e)
Tame(s, t)   == t \in Stores /\ Same(s, t) /\ Within(s, t)
Empty(s)     == \A e \in Stops : ~Live(s, e)
(* t is s with all it counted withdrawn.                                    *)
Cleared(s, t) ==
  /\ t \in Stores /\ Empty(t) /\ t.id.consent >= s.id.consent /\ t.blocked
  /\ (Captured => t.moved) /\ (t.enabled => t.barrier) /\ (t.confirmed => t.enabled)

LEMMA TameTrans ==
  ASSUME NEW s, NEW t, NEW u, Tame(s, t), Tame(t, u)
  PROVE  Tame(s, u)
BY DEF Tame, Same, Within

LEMMA EmptyParts ==
  /\ NoHour \in Hours /\ NoEntry \in Entries /\ Emptied \in Dones
  /\ [i \in Places |-> NoEntry] \in [Places -> Entries]
  /\ \A s : s.open = NoHour /\ s.queue = [i \in Places |-> NoEntry] /\ s.done = Emptied => Empty(s)
<1>1. Nothing \in Sums /\ \A e \in Stops : ~(Nothing[e] > 0) BY SumsIn
<1> QED BY <1>1 DEF NoHour, NoEntry, Emptied, Hours, Entries, Dones, Empty, Live

LEMMA ClearIn ==
  ASSUME NEW s \in Stores
  PROVE  LET t == ClearLive(s)
         IN  /\ t \in Stores /\ Empty(t) /\ (t.moved <=> Captured) /\ ~t.sealed
             /\ t.id = s.id /\ t.gen = s.gen /\ (t.enabled <=> s.enabled) /\ t.clock = s.clock
             /\ (t.confirmed <=> s.confirmed) /\ (t.blocked <=> s.blocked) /\ (t.barrier <=> s.barrier)
<1> DEFINE t == ClearLive(s)
<1>1. NoHour \in Hours /\ Emptied \in Dones /\ [i \in Places |-> NoEntry] \in [Places -> Entries]
  BY EmptyParts
<1>2. "none" \in Kinds /\ Captured \in BOOLEAN BY DEF Kinds, Captured
<1>3. t \in Stores BY <1>1, <1>2 DEF ClearLive, Stores
<1>4. /\ t.open = NoHour /\ t.queue = [i \in Places |-> NoEntry] /\ t.done = Emptied
      /\ (t.moved <=> Captured) /\ ~t.sealed
      /\ t.id = s.id /\ t.gen = s.gen /\ (t.enabled <=> s.enabled) /\ t.clock = s.clock
      /\ (t.confirmed <=> s.confirmed) /\ (t.blocked <=> s.blocked) /\ (t.barrier <=> s.barrier)
  BY DEF ClearLive, Stores
<1> HIDE DEF t
<1>5. Empty(t) BY <1>3, <1>4, EmptyParts
<1> QED BY <1>3, <1>4, <1>5 DEF t

LEMMA InvalidateIn ==
  ASSUME NEW s \in Stores
  PROVE  LET t == InvalidateClock(s)
         IN  /\ t \in Stores /\ Empty(t) /\ (t.moved <=> Captured) /\ ~t.sealed
             /\ t.id = s.id /\ t.gen = s.gen /\ (t.enabled <=> s.enabled) /\ t.clock = "bad"
             /\ (t.confirmed <=> s.confirmed) /\ t.blocked
             /\ (t.barrier <=> s.enabled /\ s.confirmed)
<1> DEFINE c == ClearLive(s)
           t == InvalidateClock(s)
<1>1. c \in Stores /\ Empty(c) /\ (c.moved <=> Captured) /\ ~c.sealed /\ c.id = s.id /\ c.gen = s.gen
      /\ (c.enabled <=> s.enabled) /\ (c.confirmed <=> s.confirmed)
  BY ClearIn
<1>2. t = [c EXCEPT !.clock = "bad", !.blocked = TRUE, !.restore = TRUE,
                    !.barrier = s.enabled /\ s.confirmed]
  BY DEF InvalidateClock
<1> HIDE DEF c, t
<1>3. t \in Stores BY <1>1, <1>2, ZenonT(60) DEF Stores
<1>4. /\ t.open = c.open /\ t.queue = c.queue /\ t.done = c.done /\ (t.moved <=> c.moved) /\ ~t.sealed
      /\ t.id = c.id /\ t.gen = c.gen /\ (t.enabled <=> c.enabled) /\ t.clock = "bad"
      /\ (t.confirmed <=> c.confirmed) /\ t.blocked /\ (t.barrier <=> s.enabled /\ s.confirmed)
  BY <1>1, <1>2 DEF Stores
<1>5. Empty(t) BY <1>1, <1>4 DEF Empty, Live
<1> QED BY <1>1, <1>3, <1>4, <1>5 DEF t

(* A clock that has moved clears the store, any other leaves it.            *)
LEMMA ClockedIn ==
  ASSUME NEW s \in Stores
  PROVE  /\ s.clock # "moved" => Clocked(s) = s
         /\ s.clock = "moved" => Clocked(s) = InvalidateClock(s)
BY DEF Clocked

LEMMA EnqueueIn ==
  ASSUME NEW s \in Stores, NEW h \in Nat, NEW sum \in Sums
  PROVE  LET t == Enqueue(s, h, sum)
         IN  /\ t \in Stores /\ Same(s, t) /\ t.clock = s.clock /\ t.open = s.open /\ t.done = s.done
             /\ \A e \in Stops : Live(t, e) => Live(s, e) \/ sum[e] > 0
<1> DEFINE same == {i \in Places : s.queue[i].hour = h /\ ~s.queue[i].claimed}
           free == {i \in Places : s.queue[i].hour = 0}
           t == Enqueue(s, h, sum)
<1>1. s.queue \in [Places -> Entries] BY DEF Stores
<1>2. ASSUME NEW q \in [Places -> Entries], t = [s EXCEPT !.queue = q],
             \A i \in Places, e \in Stops : q[i].sum[e] > 0 => s.queue[i].sum[e] > 0 \/ sum[e] > 0
      PROVE  /\ t \in Stores /\ Same(s, t) /\ t.clock = s.clock /\ t.open = s.open /\ t.done = s.done
             /\ \A e \in Stops : Live(t, e) => Live(s, e) \/ sum[e] > 0
  <2> HIDE DEF t
  <2>1. t \in Stores BY <1>2 DEF Stores
  <2>2. t.queue = q /\ t.open = s.open /\ t.done = s.done /\ t.clock = s.clock /\ Same(s, t)
    BY <1>2 DEF Stores, Same
  <2> QED BY <2>1, <2>2, <1>2 DEF Live
<1>3. CASE same # {}
  <2> DEFINE k == Min(same)
             q == [s.queue EXCEPT ![k].sum = Plus(@, sum)]
  <2>1. t = [s EXCEPT !.queue = q] BY <1>3 DEF Enqueue, Stores
  <2> HIDE DEF k
  <2>2. \A i \in Places : Plus(s.queue[i].sum, sum) \in Sums
          /\ \A e \in Stops : Plus(s.queue[i].sum, sum)[e] > 0 => s.queue[i].sum[e] > 0 \/ sum[e] > 0
    BY <1>1, SumsIn DEF Entries
  <2>3. q \in [Places -> Entries] BY <1>1, <2>2 DEF Entries
  <2>4. \A i \in Places : q[i].sum = (IF i = k THEN Plus(s.queue[i].sum, sum) ELSE s.queue[i].sum)
    BY <1>1 DEF Entries
  <2> HIDE DEF q
  <2> QED BY <1>2, <2>1, <2>2, <2>3, <2>4
<1>4. CASE same = {} /\ free # {}
  <2> DEFINE k == Min(free)
             new == [hour |-> h, sum |-> sum, claimed |-> FALSE]
             q == [s.queue EXCEPT ![k] = new]
  <2>1. t = [s EXCEPT !.queue = q] BY <1>4 DEF Enqueue, Stores
  <2> HIDE DEF k
  <2>2. new \in Entries BY DEF Entries
  <2>3. q \in [Places -> Entries] BY <1>1, <2>2
  <2>4. \A i \in Places : q[i].sum = (IF i = k THEN sum ELSE s.queue[i].sum) BY <1>1
  <2> HIDE DEF q
  <2> QED BY <1>2, <2>1, <2>3, <2>4
<1>5. CASE same = {} /\ free = {}
  <2>1. t = [s EXCEPT !.lost = TRUE] BY <1>5 DEF Enqueue
  <2> HIDE DEF t
  <2>2. t \in Stores BY <2>1 DEF Stores
  <2>3. t.queue = s.queue /\ t.open = s.open /\ t.done = s.done /\ t.clock = s.clock /\ Same(s, t)
    BY <2>1 DEF Stores, Same
  <2> QED BY <2>2, <2>3 DEF Live, t
<1> QED BY <1>3, <1>4, <1>5

LEMMA CloseIn ==
  ASSUME NEW s \in Stores
  PROVE  Tame(s, CloseOpen(s)) /\ CloseOpen(s).clock = s.clock /\ CloseOpen(s).done = s.done
<1>1. CASE s.open.hour = 0 BY <1>1 DEF CloseOpen, Tame, Same, Within
<1>2. CASE s.open.hour # 0
  <2> DEFINE c == Enqueue(s, s.open.hour, s.open.sum)
             t == CloseOpen(s)
  <2>1. s.open.hour \in Nat /\ s.open.sum \in Sums BY DEF Stores, Hours
  <2>2. /\ c \in Stores /\ Same(s, c) /\ c.clock = s.clock /\ c.open = s.open /\ c.done = s.done
        /\ \A e \in Stops : Live(c, e) => Live(s, e) \/ s.open.sum[e] > 0
    BY <2>1, EnqueueIn
  <2>3. t = [c EXCEPT !.open = NoHour] BY <1>2 DEF CloseOpen
  <2> HIDE DEF c, t
  <2>4. NoHour \in Hours /\ \A e \in Stops : ~(NoHour.sum[e] > 0) BY EmptyParts, SumsIn DEF NoHour
  <2>5. t \in Stores BY <2>2, <2>3, <2>4 DEF Stores
  <2>6. t.open = NoHour /\ t.queue = c.queue /\ t.done = c.done /\ t.clock = c.clock /\ Same(c, t)
    BY <2>2, <2>3 DEF Stores, Same
  <2>7. Same(s, t) BY <2>2, <2>6 DEF Same
  <2>8. \A e \in Stops : Live(t, e) => Live(c, e) BY <2>4, <2>6 DEF Live
  <2>9. \A e \in Stops : Live(c, e) => Live(s, e) BY <2>2 DEF Live
  <2> QED BY <2>2, <2>5, <2>6, <2>7, <2>8, <2>9 DEF Tame, Within, t
<1> QED BY <1>1, <1>2

(* Entries that are kept or emptied.                                        *)
LEMMA ThinnedIn ==
  ASSUME NEW s \in Stores, NEW K,
         NEW q, q = [i \in Places |-> IF i \in K THEN s.queue[i] ELSE NoEntry]
  PROVE  q \in [Places -> Entries] /\ \A i \in Places, e \in Stops : q[i].sum[e] > 0 => s.queue[i].sum[e] > 0
<1>1. NoEntry \in Entries /\ \A e \in Stops : ~(NoEntry.sum[e] > 0) BY EmptyParts, SumsIn DEF NoEntry
<1>2. s.queue \in [Places -> Entries] BY DEF Stores
<1>3. q \in [Places -> Entries] BY <1>1, <1>2
<1>4. \A i \in Places : q[i] = s.queue[i] \/ q[i] = NoEntry OBVIOUS
<1> QED BY <1>1, <1>3, <1>4

LEMMA ExpireIn ==
  ASSUME NEW s \in Stores, hour \in Nat
  PROVE  Tame(s, ExpireLive(s)) /\ ExpireLive(s).clock = s.clock
<1> DEFINE c == IF hour > s.open.hour THEN CloseOpen(s) ELSE s
           r == [i \in Places |-> IF InWindow(c.queue[i].hour, hour) \/ c.queue[i].claimed
                                  THEN c.queue[i] ELSE NoEntry]
           q == [c EXCEPT !.queue = r]
           t == ExpireLive(s)
<1>1. c \in Stores /\ Tame(s, c) /\ c.clock = s.clock
  <2>1. Tame(s, s) BY DEF Tame, Same, Within
  <2> QED BY <2>1, CloseIn DEF Tame
<1>2. t = IF ~Expired(q) THEN q
          ELSE [q EXCEPT !.done = [Emptied EXCEPT !.expiry = q.done.expiry], !.restore = TRUE]
  BY DEF ExpireLive
<1> HIDE DEF c, t
<1>3. r \in [Places -> Entries] /\ \A i \in Places, e \in Stops : r[i].sum[e] > 0 => c.queue[i].sum[e] > 0
  <2> DEFINE K == {i \in Places : InWindow(c.queue[i].hour, hour) \/ c.queue[i].claimed}
  <2>1. r = [i \in Places |-> IF i \in K THEN c.queue[i] ELSE NoEntry] OBVIOUS
  <2> HIDE DEF K, r
  <2> QED BY <1>1, <2>1, ThinnedIn
<1> HIDE DEF r
<1>4. q \in Stores BY <1>1, <1>3 DEF Stores
<1>5. /\ q.queue = r /\ q.open = c.open /\ q.done = c.done /\ q.clock = c.clock /\ Same(c, q)
  BY <1>1 DEF Stores, Same
<1> HIDE DEF q
<1>6. Tame(c, q) BY <1>3, <1>4, <1>5 DEF Tame, Within, Live
<1>7. Tame(s, q) /\ q.clock = s.clock BY <1>1, <1>5, <1>6, TameTrans
<1>8. CASE ~Expired(q) BY <1>2, <1>7, <1>8 DEF t
<1>9. CASE Expired(q)
  <2> DEFINE d == [Emptied EXCEPT !.expiry = q.done.expiry]
  <2>1. q.done.expiry \in Nat BY <1>4 DEF Stores, Dones
  <2>2. d \in Dones /\ d.sum = Nothing BY <2>1, EmptyParts DEF Emptied, Dones
  <2> HIDE DEF d
  <2>3. t = [q EXCEPT !.done = d, !.restore = TRUE] BY <1>2, <1>9 DEF d
  <2>4. t \in Stores BY <1>4, <2>2, <2>3 DEF Stores
  <2>5. t.queue = q.queue /\ t.open = q.open /\ t.done = d /\ t.clock = q.clock /\ Same(q, t)
    BY <1>4, <2>3 DEF Stores, Same
  <2>6. \A e \in Stops : ~(t.done.sum[e] > 0) BY <2>2, <2>5, SumsIn
  <2>7. Tame(q, t) BY <2>4, <2>5, <2>6 DEF Tame, Within, Live
  <2> QED BY <1>7, <2>5, <2>7, TameTrans DEF t
<1> QED BY <1>8, <1>9

LEMMA ReceiptIn ==
  ASSUME NEW s \in Stores, NEW r \in Receipts
  PROVE  LET t == ApplyReceipt(s, r)
             sealed == r.kind = "fence" /\ r.ok /\ ~s.moved
         IN  /\ t \in Stores /\ Within(s, t) /\ t.clock = s.clock
             /\ t.id = s.id /\ t.gen = s.gen /\ (t.enabled <=> s.enabled)
             /\ (t.confirmed <=> s.confirmed) /\ (t.moved <=> s.moved) /\ (t.sealed <=> s.sealed)
             /\ (t.blocked <=> s.blocked /\ ~sealed) /\ (t.barrier <=> s.barrier /\ ~sealed)
<1> DEFINE t == ApplyReceipt(s, r)
           q == IF r.kind = "fence" THEN s.queue
                ELSE IF r.ok THEN [i \in Places |-> IF s.queue[i].claimed THEN NoEntry ELSE s.queue[i]]
                ELSE [i \in Places |-> [s.queue[i] EXCEPT !.claimed = FALSE]]
<1>1. CASE r = NoReceipt \/ s.moved
  <2>1. t = s /\ ~(r.kind = "fence" /\ r.ok /\ ~s.moved) BY <1>1 DEF ApplyReceipt, NoReceipt
  <2> QED BY <2>1 DEF Within
<1>2. CASE ~(r = NoReceipt \/ s.moved)
  <2>1. t = [s EXCEPT !.owed = "none", !.barrier = s.barrier /\ ~(r.kind = "fence" /\ r.ok),
                      !.blocked = s.blocked /\ ~(r.kind = "fence" /\ r.ok), !.queue = q,
                      !.restore = s.restore \/ r.ok]
    BY <1>2 DEF ApplyReceipt, Stores
  <2> HIDE DEF t
  <2>2. q \in [Places -> Entries] /\ \A i \in Places, e \in Stops : q[i].sum[e] > 0 => s.queue[i].sum[e] > 0
    <3>1. s.queue \in [Places -> Entries] BY DEF Stores
    <3>2. CASE r.kind = "fence" BY <3>1, <3>2
    <3>3. CASE r.kind # "fence" /\ r.ok
      <4> DEFINE K == {i \in Places : ~s.queue[i].claimed}
      <4>1. q = [i \in Places |-> IF i \in K THEN s.queue[i] ELSE NoEntry] BY <3>3
      <4> HIDE DEF K, q
      <4> QED BY <4>1, ThinnedIn
    <3>4. CASE r.kind # "fence" /\ ~r.ok
      <4>1. q = [i \in Places |-> [s.queue[i] EXCEPT !.claimed = FALSE]] BY <3>4
      <4> HIDE DEF q
      <4>2. q \in [Places -> Entries] BY <3>1, <4>1 DEF Entries
      <4>3. \A i \in Places : q[i].sum = s.queue[i].sum BY <3>1, <4>1 DEF Entries
      <4> QED BY <4>2, <4>3
    <3> QED BY <3>2, <3>3, <3>4
  <2> HIDE DEF q
  <2>3. "none" \in Kinds /\ r.ok \in BOOLEAN BY DEF Kinds, Receipts
  <2>4. t \in Stores
    <3> DEFINE barrier == s.barrier /\ ~(r.kind = "fence" /\ r.ok)
               blocked == s.blocked /\ ~(r.kind = "fence" /\ r.ok)
               restore == s.restore \/ r.ok
    <3>1. barrier \in BOOLEAN /\ blocked \in BOOLEAN /\ restore \in BOOLEAN OBVIOUS
    <3>2. t = [s EXCEPT !.owed = "none", !.barrier = barrier, !.blocked = blocked, !.queue = q,
                        !.restore = restore]
      BY <2>1
    <3> HIDE DEF barrier, blocked, restore
    <3> QED BY <2>2, <2>3, <3>1, <3>2, ZenonT(60) DEF Stores
  <2>5. /\ t.queue = q /\ t.open = s.open /\ t.done = s.done /\ t.clock = s.clock
        /\ t.id = s.id /\ t.gen = s.gen /\ (t.enabled <=> s.enabled)
        /\ (t.confirmed <=> s.confirmed) /\ (t.moved <=> s.moved) /\ (t.sealed <=> s.sealed)
        /\ (t.blocked <=> s.blocked /\ ~(r.kind = "fence" /\ r.ok))
        /\ (t.barrier <=> s.barrier /\ ~(r.kind = "fence" /\ r.ok))
    BY <2>1 DEF Stores
  <2>6. Within(s, t) BY <2>2, <2>5 DEF Within, Live
  <2> QED BY <1>2, <2>4, <2>5, <2>6 DEF t
<1> QED BY <1>1, <1>2

LEMMA BindIn ==
  ASSUME NEW s \in Stores, NEW src \in Srcs, NEW gen \in Nat, NEW allow \in BOOLEAN
  PROVE  LET t == Bind(s, src, gen, allow)
             id == [s.id EXCEPT !.src = src]
             changed == s.confirmed /\ (s.id # id \/ s.gen # gen)
         IN  /\ t \in Stores /\ Within(s, t) /\ (changed => Empty(t))
             /\ t.id = id /\ t.gen = gen /\ (t.enabled <=> s.enabled) /\ (t.sealed => s.sealed)
             /\ (t.confirmed <=> s.enabled /\ src # NoSource)
             /\ (t.blocked <=> s.blocked \/ changed \/ ~allow)
             /\ (t.barrier <=> s.barrier \/ changed \/ ~allow)
             /\ (t.moved <=> IF changed THEN Captured ELSE s.moved)
             /\ (changed => t.clock = "agrees")
<1> DEFINE id == [s.id EXCEPT !.src = src]
           changed == s.confirmed /\ (s.id # id \/ s.gen # gen)
           l == ClearLive(s)
           c == IF changed THEN [l EXCEPT !.clock = "agrees"] ELSE s
           t == Bind(s, src, gen, allow)
           confirmed == s.enabled /\ src # NoSource
           fence == changed \/ ~allow
<1>1. id \in Ids /\ s.id \in Ids BY DEF Ids, Stores
<1>2. confirmed \in BOOLEAN /\ fence \in BOOLEAN /\ changed \in BOOLEAN BY DEF Stores
<1>3. l \in Stores /\ Empty(l) /\ (l.moved <=> Captured) /\ ~l.sealed /\ (l.enabled <=> s.enabled)
      /\ (l.blocked <=> s.blocked) /\ (l.barrier <=> s.barrier)
  BY ClearIn
<1>4. t = [c EXCEPT !.id = id, !.gen = gen, !.confirmed = confirmed, !.restore = confirmed,
                    !.blocked = @ \/ fence, !.barrier = @ \/ fence]
  BY DEF Bind
<1>5. c \in Stores /\ (c.enabled <=> s.enabled) /\ (c.sealed => s.sealed) /\ Within(s, c)
      /\ (c.blocked <=> s.blocked) /\ (c.barrier <=> s.barrier) /\ (changed => Empty(c))
      /\ (c.moved <=> IF changed THEN Captured ELSE s.moved) /\ (changed => c.clock = "agrees")
  <2>1. CASE changed
    <3>1. c = [l EXCEPT !.clock = "agrees"] BY <2>1
    <3> HIDE DEF c, l, changed
    <3>2. c \in Stores BY <1>3, <3>1 DEF Stores
    <3>3. /\ c.open = l.open /\ c.queue = l.queue /\ c.done = l.done /\ (c.moved <=> l.moved)
          /\ (c.enabled <=> l.enabled) /\ (c.sealed <=> l.sealed)
          /\ (c.blocked <=> l.blocked) /\ (c.barrier <=> l.barrier) /\ c.clock = "agrees"
      BY <1>3, <3>1 DEF Stores
    <3>4. Empty(c) BY <1>3, <3>3 DEF Empty, Live
    <3> QED BY <2>1, <1>3, <3>2, <3>3, <3>4 DEF Within, Empty
  <2>2. CASE ~changed
    <3>1. c = s BY <2>2
    <3> HIDE DEF c, changed
    <3> QED BY <2>2, <3>1 DEF Within
  <2> QED BY <2>1, <2>2
<1> HIDE DEF c, confirmed, fence, t, id, l
<1>6. (c.blocked \/ fence) \in BOOLEAN /\ (c.barrier \/ fence) \in BOOLEAN OBVIOUS
<1>7. t \in Stores
  <2> DEFINE blocked == c.blocked \/ fence
             barrier == c.barrier \/ fence
  <2>1. t = [c EXCEPT !.id = id, !.gen = gen, !.confirmed = confirmed, !.restore = confirmed,
                      !.blocked = blocked, !.barrier = barrier]
    BY <1>4, <1>5 DEF Stores
  <2>2. blocked \in BOOLEAN /\ barrier \in BOOLEAN OBVIOUS
  <2> HIDE DEF blocked, barrier
  <2> QED BY <1>1, <1>2, <1>5, <2>1, <2>2, ZenonT(60) DEF Stores
<1>8. /\ t.open = c.open /\ t.queue = c.queue /\ t.done = c.done /\ (t.moved <=> c.moved)
      /\ (t.enabled <=> c.enabled) /\ (t.sealed <=> c.sealed) /\ t.id = id /\ t.gen = gen
      /\ t.clock = c.clock
      /\ (t.confirmed <=> confirmed)
      /\ (t.blocked <=> c.blocked \/ fence) /\ (t.barrier <=> c.barrier \/ fence)
  BY <1>4, <1>5 DEF Stores
<1>9. Within(s, t) /\ (changed => Empty(t)) BY <1>5, <1>8 DEF Within, Empty, Live
<1> QED BY <1>5, <1>7, <1>8, <1>9 DEF confirmed, fence, t, id

LEMMA ResetIn ==
  ASSUME NEW s \in Stores
  PROVE  LET t == ResetStore(s)
         IN  /\ t \in Stores /\ Empty(t) /\ (t.moved <=> Captured) /\ ~t.sealed
             /\ t.id = s.id /\ t.gen = s.gen /\ (t.enabled <=> s.enabled) /\ ~t.confirmed
             /\ t.blocked /\ (t.barrier <=> s.enabled)
<1> DEFINE c == ClearLive(s)
           t == ResetStore(s)
<1>1. c \in Stores /\ Empty(c) /\ (c.moved <=> Captured) /\ ~c.sealed /\ c.id = s.id
      /\ c.gen = s.gen /\ (c.enabled <=> s.enabled)
  BY ClearIn
<1>2. t = [c EXCEPT !.clock = "agrees", !.confirmed = FALSE, !.blocked = TRUE,
                    !.barrier = s.enabled, !.restore = s.enabled]
  BY DEF ResetStore
<1> HIDE DEF c, t
<1>3. t \in Stores BY <1>1, <1>2 DEF Stores
<1>4. /\ t.open = c.open /\ t.queue = c.queue /\ t.done = c.done /\ (t.moved <=> c.moved)
      /\ t.id = c.id /\ t.gen = c.gen /\ (t.enabled <=> c.enabled) /\ (t.sealed <=> c.sealed)
      /\ ~t.confirmed /\ t.blocked /\ (t.barrier <=> s.enabled)
  BY <1>1, <1>2 DEF Stores
<1>5. Empty(t) BY <1>1, <1>4 DEF Empty, Live
<1> QED BY <1>1, <1>3, <1>4, <1>5 DEF t

LEMMA DiagnosticsIn ==
  ASSUME NEW s \in Stores, NEW on \in BOOLEAN, NEW n \in Nat
  PROVE  LET t == SetStoreDiagnostics(s, on, n)
         IN  /\ t \in Stores /\ Empty(t) /\ (t.moved <=> Captured) /\ ~t.sealed
             /\ t.id = [s.id EXCEPT !.consent = n] /\ t.gen = s.gen /\ (t.enabled <=> on)
             /\ ~t.confirmed /\ t.blocked /\ (t.barrier <=> on)
<1> DEFINE c == ClearLive(s)
           id == [s.id EXCEPT !.consent = n]
           t == SetStoreDiagnostics(s, on, n)
<1>1. c \in Stores /\ Empty(c) /\ (c.moved <=> Captured) /\ ~c.sealed /\ c.gen = s.gen /\ c.id = s.id
  BY ClearIn
<1>2. t = [c EXCEPT !.enabled = on, !.id = id, !.confirmed = FALSE, !.blocked = TRUE,
                    !.barrier = on, !.restore = on, !.clock = "agrees"]
  BY <1>1 DEF SetStoreDiagnostics, Stores
<1>3. id \in Ids BY DEF Ids, Stores
<1> HIDE DEF c, t, id
<1>4. t \in Stores BY <1>1, <1>2, <1>3, ZenonT(60) DEF Stores
<1>5. /\ t.open = c.open /\ t.queue = c.queue /\ t.done = c.done /\ (t.moved <=> c.moved)
      /\ t.id = id /\ t.gen = c.gen /\ (t.enabled <=> on) /\ (t.sealed <=> c.sealed)
      /\ ~t.confirmed /\ t.blocked /\ (t.barrier <=> on)
  BY <1>1, <1>2 DEF Stores
<1>6. Empty(t) BY <1>1, <1>5 DEF Empty, Live
<1> QED BY <1>1, <1>4, <1>5, <1>6 DEF t, id

LEMMA LostIn ==
  ASSUME NEW s \in Stores
  PROVE  LET t == [s EXCEPT !.lost = TRUE]
         IN  Tame(s, t) /\ t.clock = s.clock /\ (Empty(s) => Empty(t))
<1> DEFINE t == [s EXCEPT !.lost = TRUE]
<1>1. t \in Stores BY DEF Stores
<1>2. t.queue = s.queue /\ t.open = s.open /\ t.done = s.done /\ t.clock = s.clock /\ Same(s, t)
  BY DEF Stores, Same
<1> HIDE DEF t
<1> QED BY <1>1, <1>2 DEF t, Tame, Within, Empty, Live

LEMMA OpenHourIn ==
  ASSUME NEW s \in Stores, hour \in Nat
  PROVE  Tame(s, OpenHour(s)) /\ OpenHour(s).clock = s.clock
<1> DEFINE x == ExpireLive(s)
           c == CloseOpen(x)
           new == [NoHour EXCEPT !.hour = hour]
           t == OpenHour(s)
<1>1. Tame(s, x) /\ x.clock = s.clock /\ x \in Stores BY ExpireIn DEF Tame
<1>2. Tame(x, c) /\ c.clock = x.clock /\ c \in Stores BY <1>1, CloseIn DEF Tame
<1>3. t = IF x.open.hour = hour THEN x ELSE [c EXCEPT !.open = new] BY DEF OpenHour
<1>4. new \in Hours /\ \A e \in Stops : ~(new.sum[e] > 0)
  BY SumsIn DEF NoHour, Hours
<1> HIDE DEF x, c, new
<1>5. CASE x.open.hour = hour BY <1>1, <1>3, <1>5
<1>6. CASE x.open.hour # hour
  <2>1. t = [c EXCEPT !.open = new] BY <1>3, <1>6
  <2> HIDE DEF t
  <2>2. t \in Stores BY <1>2, <1>4, <2>1 DEF Stores
  <2>3. t.open = new /\ t.queue = c.queue /\ t.done = c.done /\ t.clock = c.clock /\ Same(c, t)
    BY <1>2, <2>1 DEF Stores, Same
  <2>4. Tame(c, t) BY <1>4, <2>2, <2>3 DEF Tame, Within, Live
  <2> QED BY <1>1, <1>2, <2>3, <2>4, TameTrans DEF t
<1> QED BY <1>5, <1>6

(* A stop booked is the only one that gets live.                            *)
LEMMA BookIn ==
  ASSUME NEW s \in Stores, hour \in Nat, NEW e, NEW p \in Pendings
  PROVE  LET t == Book(s, e, p)
         IN  /\ t \in Stores /\ Same(s, t) /\ t.clock = s.clock
             /\ \A d \in Stops : Live(t, d) => Live(s, d) \/ d = e
<1> DEFINE t == Book(s, e, p)
<1>1. p.hour \in Nat BY DEF Pendings
<1>2. Just(e) \in Sums /\ \A d \in Stops : Just(e)[d] > 0 => d = e BY SumsIn
<1>3. CASE p.gen # s.gen \/ ~InWindow(p.hour, hour)
  BY <1>3, LostIn DEF Book, Tame, Within
<1>4. CASE ~(p.gen # s.gen \/ ~InWindow(p.hour, hour)) /\ p.hour = s.open.hour
  <2> DEFINE sum == Plus(s.open.sum, Just(e))
             o == [s.open EXCEPT !.sum = sum]
  <2>1. t = [s EXCEPT !.open = o] BY <1>4 DEF Book, Stores
  <2>2. s.open.sum \in Sums /\ s.open \in Hours BY DEF Stores, Hours
  <2>3. sum \in Sums /\ \A d \in Stops : sum[d] > 0 => s.open.sum[d] > 0 \/ d = e
    BY <1>2, <2>2, SumsIn
  <2> HIDE DEF sum, t
  <2>4. o \in Hours /\ o.sum = sum BY <2>2, <2>3 DEF Hours
  <2> HIDE DEF o
  <2>5. t \in Stores BY <2>1, <2>4 DEF Stores
  <2>6. t.open = o /\ t.queue = s.queue /\ t.done = s.done /\ t.clock = s.clock /\ Same(s, t)
    BY <2>1 DEF Stores, Same
  <2> QED BY <2>3, <2>4, <2>5, <2>6 DEF Live, t
<1>5. CASE ~(p.gen # s.gen \/ ~InWindow(p.hour, hour)) /\ p.hour # s.open.hour
  <2>1. t = Enqueue(s, p.hour, Just(e)) BY <1>5 DEF Book
  <2> QED BY <1>1, <1>2, <2>1, EnqueueIn
<1> QED BY <1>3, <1>4, <1>5

(* A sample, and a stop finalised with it, in a store that accepts them.    *)
LEMMA SampleIn ==
  ASSUME NEW s \in Stores, hour \in Nat
  PROVE  /\ ~Accepts(s) => RecordSample(s) = s
         /\ Accepts(s) /\ s.clock = "moved" => RecordSample(s) = InvalidateClock(s)
         /\ s.clock # "moved" => Tame(s, RecordSample(s))
<1>1. Tame(s, s) BY DEF Tame, Same, Within
<1>2. Tame(s, OpenHour(s)) BY OpenHourIn
<1> QED BY <1>1, <1>2, ClockedIn DEF RecordSample, Dated

LEMMA StopIn ==
  ASSUME NEW s \in Stores, hour \in Nat, NEW p \in Pendings
  PROVE  LET t == RecordStop(s, p)
         IN  /\ ~Accepts(s) => t = s
             /\ Accepts(s) /\ s.clock = "moved" => Tame(InvalidateClock(s), t)
             /\ s.clock # "moved" =>
                  /\ t \in Stores /\ Same(s, t)
                  /\ \A d \in Stops : Live(t, d) => Live(s, d) \/ d = Len(stops) + 1
<1> DEFINE t == RecordStop(s, p)
<1>1. CASE ~Accepts(s) BY <1>1 DEF RecordStop, Same
<1>2. CASE Accepts(s) /\ s.clock = "moved"
  <2>1. InvalidateClock(s) \in Stores BY InvalidateIn
  <2>2. t = [InvalidateClock(s) EXCEPT !.lost = TRUE] BY <1>2, ClockedIn DEF RecordStop, Dated
  <2> QED BY <1>2, <2>1, <2>2, LostIn
<1>3. CASE Accepts(s) /\ s.clock # "moved"
  <2>1. CASE ~Dated(s)
    <3>1. t = [s EXCEPT !.lost = TRUE] BY <1>3, <2>1, ClockedIn DEF RecordStop
    <3> QED BY <1>3, <3>1, LostIn, SMTT(60) DEF Tame, Within
  <2>2. CASE Dated(s)
    <3> DEFINE o == OpenHour(s)
    <3>1. t = Book(o, Len(stops) + 1, p) BY <1>3, <2>2, ClockedIn DEF RecordStop
    <3>2. Tame(s, o) /\ o \in Stores BY OpenHourIn DEF Tame
    <3> HIDE DEF o
    <3>3. /\ t \in Stores /\ Same(o, t)
          /\ \A d \in Stops : Live(t, d) => Live(o, d) \/ d = Len(stops) + 1
      BY <3>1, <3>2, BookIn
    <3> QED BY <1>3, <3>2, <3>3 DEF Tame, Within, Same
  <2> QED BY <2>1, <2>2
<1> QED BY <1>1, <1>2, <1>3

LEMMA SealIn ==
  ASSUME NEW s \in Stores
  PROVE  LET t == SealStore(s)
         IN  /\ t \in Stores /\ Within(s, t) /\ t.id = s.id /\ t.gen = s.gen
             /\ (t.enabled <=> s.enabled) /\ (t.confirmed <=> s.confirmed)
             /\ (t.blocked <=> s.blocked) /\ (t.barrier <=> s.barrier) /\ (t.moved <=> s.moved)
<1> DEFINE c == CloseOpen(s)
           t == SealStore(s)
<1>1. c \in Stores /\ Same(s, c) /\ Within(s, c) BY CloseIn DEF Tame
<1>2. t = [c EXCEPT !.sealed = TRUE] BY DEF SealStore
<1> HIDE DEF c, t
<1>3. t \in Stores BY <1>1, <1>2 DEF Stores
<1>4. /\ t.open = c.open /\ t.queue = c.queue /\ t.done = c.done /\ (t.moved <=> c.moved)
      /\ t.id = c.id /\ t.gen = c.gen /\ (t.enabled <=> c.enabled) /\ (t.confirmed <=> c.confirmed)
      /\ (t.blocked <=> c.blocked) /\ (t.barrier <=> c.barrier)
  BY <1>1, <1>2 DEF Stores
<1>5. Within(c, t) BY <1>4 DEF Within, Live
<1> QED BY <1>1, <1>3, <1>4, <1>5 DEF t, Same, Within

LEMMA StartedIn ==
  ASSUME NEW on \in BOOLEAN, NEW n \in Nat
  PROVE  LET t == Started(on, n)
         IN  /\ t \in Stores /\ Empty(t) /\ t.id = [src |-> NoSource, consent |-> n] /\ t.gen = 0
             /\ (t.enabled <=> on) /\ ~t.confirmed /\ ~t.sealed /\ ~t.blocked /\ ~t.moved
             /\ t.clock = "agrees"
<1> DEFINE t == Started(on, n)
<1>1. NoHour \in Hours /\ Emptied \in Dones /\ [i \in Places |-> NoEntry] \in [Places -> Entries]
  BY EmptyParts
<1>2. t \in Stores BY <1>1 DEF Started, Stores, Ids, Srcs, Kinds
<1>3. t.open = NoHour /\ t.queue = [i \in Places |-> NoEntry] /\ t.done = Emptied BY DEF Started
<1>4. Empty(t) BY <1>2, <1>3, EmptyParts
<1> QED BY <1>2, <1>4 DEF Started

-----------------------------------------------------------------------------
(* Steps of the poll task and the handlers, as far as evidence goes         *)

(* No stop is forgotten: one booked is new, one withdrawn stays so.         *)
Grown ==
  /\ stops' \in Seq(Seen) /\ Len(stops) <= Len(stops') /\ Len(stops') <= MaxStops
  /\ \A e \in DOMAIN stops :
       /\ stops'[e].id = stops[e].id /\ (stops'[e].fenced <=> stops[e].fenced)
       /\ stops[e].gone => stops'[e].gone
  /\ \A e \in DOMAIN stops' : e \notin DOMAIN stops => ~stops'[e].fenced

LEMMA GrownKeeps ==
  ASSUME StopShape, JournalInv, Grown, UNCHANGED <<known, journal>>
  PROVE  /\ JournalInv' /\ DOMAIN stops \subseteq DOMAIN stops' /\ DOMAIN stops' \subseteq Stops
         /\ \A e \in DOMAIN stops : /\ Cut(e, known) => Cut(e, known)'
                                    /\ Cut(e, DOMAIN journal) => Cut(e, DOMAIN journal)'
         /\ \A e \in DOMAIN stops' : e \notin DOMAIN stops => Cut(e, known)' /\ Cut(e, DOMAIN journal)'
<1>1. DOMAIN stops \subseteq DOMAIN stops' /\ DOMAIN stops' \subseteq Stops
  <2>1. stops \in Seq(Seen) /\ stops' \in Seq(Seen) /\ Len(stops) <= Len(stops') /\ Len(stops') <= MaxStops
    BY DEF StopShape, GhostShape, Grown
  <2> QED BY <2>1, Bounds DEF Stops
<1>2. journal' = journal /\ known' = known OBVIOUS
<1>3. JournalInv' BY <1>1, <1>2 DEF JournalInv, Holds, Grown
<1>4. ASSUME NEW e \in DOMAIN stops
      PROVE  (Cut(e, known) => Cut(e, known)') /\ (Cut(e, DOMAIN journal) => Cut(e, DOMAIN journal)')
  BY <1>2 DEF Cut, Holds, Covered, Grown
<1>5. ASSUME NEW e \in DOMAIN stops', e \notin DOMAIN stops
      PROVE  Cut(e, known)' /\ Cut(e, DOMAIN journal)'
  BY <1>1, <1>2, <1>5 DEF Cut, Holds, JournalInv
<1> QED BY <1>1, <1>3, <1>4, <1>5

(* Nothing is withdrawn, and what gets live was just booked.                *)
LEMMA CalmSide ==
  ASSUME StopShape, EvidenceInv, Grown, UNCHANGED <<owner, known, journal>>,
         store'.id = store.id, store'.enabled <=> store.enabled, store'.confirmed <=> store.confirmed,
         store'.blocked <=> store.blocked, store'.barrier <=> store.barrier,
         store'.moved <=> store.moved,
         \A e \in DOMAIN stops : stops'[e].gone => stops[e].gone,
         \A e \in Stops : Live(store', e) =>
           Live(store, e) \/ (store'.confirmed /\ e \in DOMAIN stops' /\ ~stops'[e].gone
                              /\ stops'[e].id = store'.id)
  PROVE  EvidenceInv'
<1>1. /\ JournalInv' /\ DOMAIN stops \subseteq DOMAIN stops' /\ DOMAIN stops' \subseteq Stops
      /\ \A e \in DOMAIN stops : /\ Cut(e, known) => Cut(e, known)'
                                 /\ Cut(e, DOMAIN journal) => Cut(e, DOMAIN journal)'
      /\ \A e \in DOMAIN stops' : e \notin DOMAIN stops => Cut(e, known)' /\ Cut(e, DOMAIN journal)'
  BY GrownKeeps DEF EvidenceInv
<1>2. owner' = owner OBVIOUS
<1>3. LiveInv' BY <1>1 DEF EvidenceInv, LiveInv, Valid, Grown
<1>4. EpochInv' BY <1>2 DEF EvidenceInv, EpochInv, Captured, Carrying
<1>5. FenceInv' BY <1>1, <1>2 DEF EvidenceInv, FenceInv, Unbarred, Grown
<1>6. ClaimInv'
  <2> SUFFICES ASSUME owner.pc = "append" PROVE ClaimInv' BY <1>2 DEF ClaimInv
  <2>1. /\ owner.rec.kind \in {"fence", "hour"}
        /\ owner.rec.kind = "fence" => owner.rec.sum = Nothing
        /\ ~store.moved => owner.rec.id = store.id
        /\ \A e \in Stops : owner.rec.sum[e] > 0 =>
             /\ e \in DOMAIN stops /\ stops[e].id = owner.rec.id /\ ~stops[e].fenced
             /\ ~store.moved => Valid(e)
        /\ owner.rec.kind = "hour" =>
             \A e \in DOMAIN stops : stops[e].fenced /\ stops[e].id = owner.rec.id => Cut(e, known)
    BY DEF EvidenceInv, ClaimInv
  <2>2. \A e \in DOMAIN stops : Valid(e) => Valid(e)' BY <1>1 DEF Valid, Grown
  <2>3. \A e \in DOMAIN stops' : stops'[e].fenced => e \in DOMAIN stops /\ stops[e].fenced
    BY <1>1 DEF Grown
  <2> QED BY <1>1, <1>2, <2>1, <2>2, <2>3 DEF ClaimInv, Grown
<1> QED BY <1>1, <1>3, <1>4, <1>5, <1>6 DEF EvidenceInv

(* All that was counted is withdrawn.                                       *)
LEMMA WithdrawnSide ==
  ASSUME StopShape, EvidenceInv, Grown, UNCHANGED <<owner, known, journal>>,
         Empty(store'), store'.blocked, Captured => store'.moved,
         store'.enabled => store'.barrier, store'.confirmed => store'.enabled
  PROVE  EvidenceInv'
<1>1. /\ JournalInv' /\ DOMAIN stops \subseteq DOMAIN stops' /\ DOMAIN stops' \subseteq Stops
      /\ \A e \in DOMAIN stops : /\ Cut(e, known) => Cut(e, known)'
                                 /\ Cut(e, DOMAIN journal) => Cut(e, DOMAIN journal)'
      /\ \A e \in DOMAIN stops' : e \notin DOMAIN stops => Cut(e, known)' /\ Cut(e, DOMAIN journal)'
  BY GrownKeeps DEF EvidenceInv
<1>2. owner' = owner /\ (Captured => store'.moved) OBVIOUS
<1>3. LiveInv' BY DEF LiveInv, Empty
<1>4. EpochInv' BY <1>2 DEF EvidenceInv, EpochInv, Captured, Carrying
<1>5. FenceInv'
  <2>1. ~Unbarred' BY <1>2 DEF Unbarred, Captured, NoReceipt
  <2> QED BY <1>1, <1>2, <2>1 DEF EvidenceInv, FenceInv, Grown
<1>6. ClaimInv'
  <2> SUFFICES ASSUME owner.pc = "append" PROVE ClaimInv' BY <1>2 DEF ClaimInv
  <2>1. /\ owner.rec.kind \in {"fence", "hour"}
        /\ owner.rec.kind = "fence" => owner.rec.sum = Nothing
        /\ \A e \in Stops : owner.rec.sum[e] > 0 =>
             e \in DOMAIN stops /\ stops[e].id = owner.rec.id /\ ~stops[e].fenced
        /\ owner.rec.kind = "hour" =>
             \A e \in DOMAIN stops : stops[e].fenced /\ stops[e].id = owner.rec.id => Cut(e, known)
    BY DEF EvidenceInv, ClaimInv
  <2>2. store'.moved BY <1>2 DEF Captured
  <2>3. \A e \in DOMAIN stops' : stops'[e].fenced => e \in DOMAIN stops /\ stops[e].fenced
    BY <1>1 DEF Grown
  <2> QED BY <1>1, <1>2, <2>1, <2>2, <2>3 DEF ClaimInv, Grown
<1> QED BY <1>1, <1>3, <1>4, <1>5, <1>6 DEF EvidenceInv

LEMMA GrownBy ==
  ASSUME StopShape, NEW q, q \in {stops, Withdrawn(stops)}
  PROVE  /\ q \in Seq(Seen) /\ Len(q) = Len(stops) /\ DOMAIN q = DOMAIN stops
         /\ stops' = q => Grown
         /\ \A new \in Seen : ~new.fenced /\ Len(stops) + 1 <= MaxStops /\ stops' = Append(q, new) =>
              /\ Grown /\ stops'[Len(stops) + 1] = new /\ Len(stops') = Len(stops) + 1
              /\ DOMAIN stops' = DOMAIN stops \cup {Len(stops) + 1}
              /\ \A e \in DOMAIN stops : stops'[e] = q[e]
<1>1. stops \in Seq(Seen) /\ Len(stops) <= MaxStops /\ Len(stops) \in Nat
  BY DEF StopShape, GhostShape
<1>2. /\ q \in Seq(Seen) /\ Len(q) = Len(stops) /\ DOMAIN q = DOMAIN stops
      /\ \A e \in DOMAIN stops : q[e].id = stops[e].id /\ (q[e].fenced <=> stops[e].fenced)
                                 /\ (stops[e].gone => q[e].gone)
  <2>1. CASE q = stops BY <1>1, <2>1
  <2>2. CASE q = Withdrawn(stops)
    <3>1. q = [i \in 1 .. Len(stops) |-> [stops[i] EXCEPT !.gone = TRUE]]
      BY <1>1, <2>2 DEF Withdrawn
    <3>2. \A i \in 1 .. Len(stops) : stops[i] \in Seen BY <1>1
    <3>3. \A i \in 1 .. Len(stops) :
            /\ [stops[i] EXCEPT !.gone = TRUE] \in Seen /\ [stops[i] EXCEPT !.gone = TRUE].gone
            /\ [stops[i] EXCEPT !.gone = TRUE].id = stops[i].id
            /\ ([stops[i] EXCEPT !.gone = TRUE].fenced <=> stops[i].fenced)
      BY <3>2 DEF Seen
    <3>4. q \in [1 .. Len(stops) -> Seen] BY <3>1, <3>3
    <3>5. q \in Seq(Seen) /\ Len(q) = Len(stops) /\ DOMAIN q = 1 .. Len(stops) BY <1>1, <3>4
    <3>6. \A i \in 1 .. Len(stops) : q[i] = [stops[i] EXCEPT !.gone = TRUE] BY <3>1
    <3>7. DOMAIN stops = 1 .. Len(stops) BY <1>1
    <3> QED BY <3>3, <3>5, <3>6, <3>7
  <2> QED BY <2>1, <2>2
<1>3. stops' = q => Grown BY <1>1, <1>2 DEF Grown
<1>4. ASSUME NEW new \in Seen, ~new.fenced, Len(stops) + 1 <= MaxStops, stops' = Append(q, new)
      PROVE  /\ Grown /\ stops'[Len(stops) + 1] = new /\ Len(stops') = Len(stops) + 1
             /\ DOMAIN stops' = DOMAIN stops \cup {Len(stops) + 1}
             /\ \A e \in DOMAIN stops : stops'[e] = q[e]
  <2>1. /\ stops' \in Seq(Seen) /\ Len(stops') = Len(stops) + 1 /\ stops'[Len(stops) + 1] = new
        /\ \A e \in 1 .. Len(stops) : stops'[e] = q[e]
    BY <1>1, <1>2, <1>4
  <2>2. DOMAIN stops = 1 .. Len(stops) /\ DOMAIN stops' = 1 .. (Len(stops) + 1) BY <1>1, <2>1
  <2>3. DOMAIN stops' = DOMAIN stops \cup {Len(stops) + 1} BY <1>1, <2>2
  <2>4. Grown BY <1>1, <1>2, <1>4, <2>1, <2>2, <2>3 DEF Grown
  <2> QED BY <2>1, <2>2, <2>3, <2>4
<1> QED BY <1>2, <1>3, <1>4

LEMMA WithdrawnGone ==
  ASSUME NEW e \in DOMAIN stops
  PROVE  Withdrawn(stops)[e] = [stops[e] EXCEPT !.gone = TRUE]
BY DEF Withdrawn

LEMMA FreshSide ==
  ASSUME StopShape, EvidenceInv, FreshInv, Grown, UNCHANGED <<owner, known, journal>>,
         checkup'.source = NoSource /\ checkup'.allow =>
           /\ checkup.source = NoSource /\ checkup.allow
           /\ \A e \in DOMAIN stops : stops'[e].gone => stops[e].gone
  PROVE  FreshInv'
<1>1. /\ \A e \in DOMAIN stops : Cut(e, known) => Cut(e, known)'
      /\ \A e \in DOMAIN stops' : e \notin DOMAIN stops => Cut(e, known)'
  BY GrownKeeps DEF EvidenceInv
<1>2. owner' = owner OBVIOUS
<1> QED BY <1>1, <1>2 DEF FreshInv, Captured

(* The store and the stops stay as they are.                                *)
LEMMA StillSide ==
  ASSUME StopShape, EvidenceInv, UNCHANGED <<owner, known, journal, stops, store>>
  PROVE  EvidenceInv' /\ Grown
<1>1. Grown BY GrownBy
<1>2. store' = store /\ stops' = stops OBVIOUS
<1>3. EvidenceInv' BY <1>1, <1>2, CalmSide
<1> QED BY <1>1, <1>3

LEMMA KeptIn ==
  ASSUME NEW S
  PROVE  /\ Kept(S) \subseteq S /\ ("sweep" \in Kept(S) => sweep'.on)
         /\ ("pending" \in Kept(S) => checkup'.pending # NoPending)
         /\ ("sweep" \in S /\ sweep'.on => "sweep" \in Kept(S))
BY DEF Kept

LEMMA NothingIn == NoSweep \in Sweeps /\ NoPending \in Pendings
BY DEF NoSweep, Sweeps, NoPending, Pendings, Ids, Srcs

LEMMA DropSweepKeeps == ASSUME StopIInv, DropSweep PROVE StopIInv'
<1>1. /\ StopShape /\ EvidenceInv /\ checkup \in Checkups /\ sweep' = NoSweep
      /\ stops' = stops /\ stale' = Kept(stale)
      /\ UNCHANGED <<store, target, events, owner, known, journal, plant, http, hour>>
      /\ checkup' = checkup \/ checkup' = [checkup EXCEPT !.reset = FALSE, !.pending = NoPending]
  BY DEF StopIInv, StopShape, PollShape, DropSweep, Unwithdrawn, checkupSide
<1>2. checkup' \in Checkups /\ checkup'.source = checkup.source /\ (checkup'.allow <=> checkup.allow)
      /\ checkup'.gen = checkup.gen /\ (checkup'.closed <=> checkup.closed)
      /\ checkup'.pending \in {checkup.pending, NoPending}
  BY <1>1, NothingIn DEF Checkups
<1>3. EvidenceInv' /\ Grown BY <1>1, StillSide
<1>4. stale' \subseteq stale /\ "sweep" \notin stale' /\ ~NoSweep.on BY <1>1, KeptIn DEF NoSweep
<1>5. StopShape'
  BY <1>1, <1>2, <1>4, NothingIn
     DEF StopShape, StoreShape, FlashShape, PollShape, GhostShape
<1>6. SourceInv' BY <1>1, <1>2 DEF StopIInv, CheckupInv, SourceInv
<1>7. FreshInv' BY <1>1, <1>2, <1>3, FreshSide DEF StopIInv, CheckupInv
<1>8. StaleInv' BY <1>1, <1>2, <1>4 DEF StopIInv, CheckupInv, StaleInv
<1>9. PendingInv'
  <2>1. Pends' <= Pends BY <1>2 DEF Pends
  <2>2. Pends \in Nat /\ Pends' \in Nat /\ Len(stops) \in Nat
    BY <1>1 DEF Pends, StopShape, GhostShape
  <2>3. Len(stops) + Pends <= MaxStops BY DEF StopIInv, CheckupInv, PendingInv
  <2>4. Len(stops') + Pends' <= MaxStops BY <1>1, <2>1, <2>2, <2>3, Bounds
  <2> QED BY <1>1, <1>2, <2>4 DEF StopIInv, CheckupInv, PendingInv
<1> QED BY <1>3, <1>5, <1>6, <1>7, <1>8, <1>9 DEF StopIInv, CheckupInv

LEMMA TimeKeeps ==
  ASSUME StopIInv, NextHour \/ ClockMoves
  PROVE  StopIInv'
<1>1. /\ StopShape /\ EvidenceInv /\ store \in Stores
      /\ UNCHANGED <<owner, known, journal, checkup, target, plant, sweep, http, stops, stale>>
      /\ store' = store \/ store' = [store EXCEPT !.clock = "moved"]
      /\ hour' = hour \/ hour' = hour + 1
  BY DEF StopIInv, StopShape, StoreShape, NextHour, ClockMoves
<1>2. store' \in Stores /\ Same(store, store') /\ Within(store, store')
  <2>1. CASE store' = store BY <1>1, <2>1 DEF Same, Within
  <2>2. CASE store' = [store EXCEPT !.clock = "moved"]
    <3>1. store' \in Stores BY <1>1, <2>2 DEF Stores
    <3>2. /\ store'.open = store.open /\ store'.queue = store.queue /\ store'.done = store.done
          /\ Same(store, store')
      BY <1>1, <2>2 DEF Stores, Same
    <3> QED BY <3>1, <3>2 DEF Within, Live
  <2> QED BY <1>1, <2>1, <2>2
<1>3. Grown BY <1>1, GrownBy
<1>4. EvidenceInv' BY <1>1, <1>2, <1>3, CalmSide DEF Same, Within
<1>5. StopShape' BY <1>1, <1>2 DEF StopShape, StoreShape, FlashShape, PollShape, GhostShape
<1>6. SourceInv' BY <1>1, <1>2 DEF StopIInv, CheckupInv, SourceInv, Same
<1>7. FreshInv' BY <1>1, <1>3, FreshSide DEF StopIInv, CheckupInv
<1>8. StaleInv' /\ PendingInv'
  BY <1>1, <1>2 DEF StopIInv, CheckupInv, StaleInv, PendingInv, Pends, Same
<1> QED BY <1>4, <1>5, <1>6, <1>7, <1>8 DEF StopIInv, CheckupInv

(* What is left to show of a step that leaves the checkup alone.            *)
LEMMA StoreSide ==
  ASSUME StopIInv, Grown, EvidenceInv', store' \in Stores, store'.id = store.id,
         store'.gen = store.gen, store'.enabled <=> store.enabled,
         store'.confirmed <=> store.confirmed, store'.sealed => store.sealed,
         Len(stops') = Len(stops), hour' = hour,
         UNCHANGED <<owner, known, journal, checkup, target, plant, sweep, stale>>,
         store.confirmed \/ stops' = stops
  PROVE  StopIInv'
<1>1. StopShape /\ SourceInv /\ FreshInv /\ EvidenceInv BY DEF StopIInv, CheckupInv
<1>2. StopShape' BY <1>1 DEF StopShape, StoreShape, FlashShape, PollShape, GhostShape, Grown
<1>3. SourceInv' BY <1>1 DEF SourceInv
<1>4. FreshInv'
  <2>1. checkup'.source = NoSource => stops' = stops BY <1>1 DEF SourceInv
  <2> QED BY <1>1, <2>1, FreshSide
<1>5. StaleInv' /\ PendingInv' BY DEF StopIInv, CheckupInv, StaleInv, PendingInv, Pends
<1> QED BY <1>2, <1>3, <1>4, <1>5 DEF StopIInv, CheckupInv

LEMMA ReportKeeps == ASSUME StopIInv, Report PROVE StopIInv'
<1>1. /\ StopShape /\ EvidenceInv /\ store \in Stores /\ hour \in Nat /\ store.confirmed
      /\ stops' = WithdrawnBy(store, stops) /\ hour' = hour
      /\ UNCHANGED <<owner, known, journal, checkup, target, plant, sweep, stale>>
      /\ store' = IF Dated(store) THEN ExpireLive(Clocked(store)) ELSE Clocked(store)
  BY DEF StopIInv, StopShape, StoreShape, Report, checkupSide
<1>2. CASE store.clock = "moved"
  <2>1. store' = InvalidateClock(store) /\ stops' = Withdrawn(stops)
    BY <1>1, <1>2, ClockedIn DEF Dated, WithdrawnBy
  <2>2. Grown /\ Len(stops') = Len(stops) BY <1>1, <2>1, GrownBy
  <2>3. /\ store' \in Stores /\ Empty(store') /\ (store'.moved <=> Captured)
        /\ store'.id = store.id /\ store'.gen = store.gen /\ (store'.enabled <=> store.enabled)
        /\ (store'.confirmed <=> store.confirmed) /\ store'.blocked /\ ~store'.sealed
        /\ (store'.barrier <=> store.enabled /\ store.confirmed)
    BY <1>1, <2>1, InvalidateIn
  <2>4. store.confirmed => store.enabled BY <1>1 DEF EvidenceInv, EpochInv
  <2>5. EvidenceInv' BY <1>1, <2>2, <2>3, <2>4, WithdrawnSide
  <2> QED BY <1>1, <2>2, <2>3, <2>5, StoreSide
<1>3. CASE store.clock # "moved"
  <2>1. stops' = stops /\ store' \in {store, ExpireLive(store)}
    BY <1>1, <1>3, ClockedIn DEF WithdrawnBy
  <2>2. Tame(store, store') BY <1>1, <2>1, ExpireIn DEF Tame, Same, Within
  <2>3. Grown BY <1>1, <2>1, GrownBy
  <2>4. EvidenceInv' BY <1>1, <2>1, <2>2, <2>3, CalmSide DEF Tame, Same, Within
  <2> QED BY <1>1, <2>1, <2>2, <2>3, <2>4, StoreSide DEF Tame, Same
<1> QED BY <1>2, <1>3

(* The pending stop, finalised.                                             *)
LEMMA BookedIn ==
  ASSUME StopShape, EvidenceInv, PendingInv, checkup.pending # NoPending,
         stops' = Booked(store, checkup.pending, stops, FALSE),
         NEW t, t = RecordStop(store, checkup.pending)
  PROVE  /\ Grown /\ Len(stops') <= Len(stops) + 1 /\ (store.confirmed \/ stops' = stops)
         /\ t \in Stores /\ t.id = store.id /\ t.gen = store.gen /\ (t.enabled <=> store.enabled)
         /\ (t.confirmed <=> store.confirmed) /\ (t.sealed => store.sealed)
         /\ \/ /\ Same(store, t) /\ \A e \in DOMAIN stops : stops'[e].gone => stops[e].gone
               /\ \A e \in Stops : Live(t, e) =>
                    Live(store, e) \/ (store.confirmed /\ e \in DOMAIN stops' /\ ~stops'[e].gone
                                       /\ stops'[e].id = store.id)
            \/ /\ Empty(t) /\ t.blocked /\ (Captured => t.moved) /\ (t.enabled => t.barrier)
<1> DEFINE p == checkup.pending
           new == [hour |-> p.hour, id |-> p.id, fenced |-> FALSE, here |-> TRUE, gone |-> FALSE]
<1>1. store \in Stores /\ hour \in Nat /\ p \in Pendings /\ p.id = store.id /\ Len(stops) \in Nat
  BY DEF StopShape, StoreShape, PollShape, GhostShape, Checkups, PendingInv
<1>2. Len(stops) + 1 <= MaxStops BY DEF PendingInv, Pends
<1> HIDE DEF p
<1>7. \A n : n = Len(stops) \/ n = Len(stops) + 1 => n <= Len(stops) + 1
  <2>1. Len(stops) \in Nat BY <1>1
  <2> QED BY <2>1
<1> USE DEF p
<1>3. new \in Seen /\ ~new.fenced /\ ~new.gone /\ new.id = store.id BY <1>1 DEF Seen, Pendings
<1>4. CASE ~Accepts(store)
  <2>1. stops' = stops /\ t = store BY <1>1, <1>4, StopIn DEF Booked
  <2>2. Grown /\ Len(stops') <= Len(stops) + 1 BY <1>7, <2>1, GrownBy
  <2>3. Same(store, t) BY <2>1 DEF Same
  <2>4. \A e \in DOMAIN stops : stops'[e].gone => stops[e].gone BY <2>1
  <2> QED BY <1>1, <2>1, <2>2, <2>3, <2>4
<1>5. CASE Accepts(store) /\ store.clock = "moved"
  <2>1. stops' = Append(Withdrawn(stops), new) BY <1>5 DEF Booked, WithdrawnBy
  <2>2. Grown /\ Len(stops') = Len(stops) + 1
    <3> HIDE DEF new
    <3> QED BY <1>2, <1>3, <2>1, GrownBy
  <2> DEFINE i == InvalidateClock(store)
  <2>3. /\ i \in Stores /\ Empty(i) /\ (i.moved <=> Captured) /\ i.id = store.id
        /\ i.gen = store.gen /\ (i.enabled <=> store.enabled) /\ ~i.sealed
        /\ (i.confirmed <=> store.confirmed) /\ i.blocked
        /\ (i.barrier <=> store.enabled /\ store.confirmed)
    BY <1>1, InvalidateIn
  <2>4. Tame(i, t) BY <1>1, <1>5, StopIn
  <2>5. store.confirmed /\ store.enabled BY <1>5 DEF Accepts
  <2> HIDE DEF i
  <2>6. Empty(t) BY <2>3, <2>4 DEF Tame, Within, Empty
  <2>7. /\ t \in Stores /\ t.id = store.id /\ t.gen = store.gen /\ (t.enabled <=> store.enabled)
        /\ (t.confirmed <=> store.confirmed) /\ ~t.sealed /\ t.blocked /\ (Captured => t.moved)
        /\ (t.enabled => t.barrier)
    BY <2>3, <2>4, <2>5 DEF Tame, Same
  <2>8. Len(stops') <= Len(stops) + 1 BY <1>7, <2>2
  <2> QED BY <2>2, <2>5, <2>6, <2>7, <2>8
<1>6. CASE Accepts(store) /\ store.clock # "moved"
  <2>1. stops' = Append(stops, new) BY <1>6 DEF Booked, WithdrawnBy
  <2>2. /\ Grown /\ stops'[Len(stops) + 1] = new /\ Len(stops') = Len(stops) + 1
        /\ DOMAIN stops' = DOMAIN stops \cup {Len(stops) + 1}
        /\ \A e \in DOMAIN stops : stops'[e] = stops[e]
    <3> HIDE DEF new
    <3> QED BY <1>2, <1>3, <2>1, GrownBy
  <2>3. /\ t \in Stores /\ Same(store, t)
        /\ \A d \in Stops : Live(t, d) => Live(store, d) \/ d = Len(stops) + 1
    BY <1>1, <1>6, StopIn
  <2>4. store.confirmed BY <1>6 DEF Accepts
  <2> HIDE DEF new
  <2>5. ASSUME NEW e \in Stops, Live(t, e)
        PROVE  Live(store, e) \/ (store.confirmed /\ e \in DOMAIN stops' /\ ~stops'[e].gone
                                  /\ stops'[e].id = store.id)
    BY <1>3, <2>2, <2>3, <2>4, <2>5
  <2>6. /\ t.id = store.id /\ t.gen = store.gen /\ (t.enabled <=> store.enabled)
        /\ (t.confirmed <=> store.confirmed) /\ (t.sealed => store.sealed)
    BY <2>3 DEF Same
  <2>7. Len(stops') <= Len(stops) + 1 BY <1>7, <2>2
  <2>8. \A e \in DOMAIN stops : stops'[e].gone => stops[e].gone BY <2>2
  <2> QED BY <2>2, <2>3, <2>4, <2>5, <2>6, <2>7, <2>8
<1> QED BY <1>4, <1>5, <1>6

LEMMA BookedEvidence ==
  ASSUME StopIInv, checkup.pending # NoPending, UNCHANGED <<owner, known, journal>>,
         stops' = Booked(store, checkup.pending, stops, FALSE),
         store' \in {RecordStop(store, checkup.pending),
                     SealStore(RecordStop(store, checkup.pending))}
  PROVE  /\ EvidenceInv' /\ Grown /\ (store.confirmed \/ stops' = stops)
         /\ store' \in Stores /\ store'.id = store.id /\ store'.gen = store.gen
         /\ (store'.enabled <=> store.enabled) /\ (store'.confirmed <=> store.confirmed)
         /\ (store' = RecordStop(store, checkup.pending) => (store'.sealed => store.sealed))
<1> DEFINE t == RecordStop(store, checkup.pending)
<1>1. StopShape /\ EvidenceInv /\ PendingInv BY DEF StopIInv, CheckupInv
<1>2. /\ Grown /\ Len(stops') <= Len(stops) + 1 /\ (store.confirmed \/ stops' = stops)
      /\ t \in Stores /\ t.id = store.id /\ t.gen = store.gen /\ (t.enabled <=> store.enabled)
      /\ (t.confirmed <=> store.confirmed) /\ (t.sealed => store.sealed)
      /\ \/ /\ Same(store, t) /\ \A e \in DOMAIN stops : stops'[e].gone => stops[e].gone
            /\ \A e \in Stops : Live(t, e) =>
                 Live(store, e) \/ (store.confirmed /\ e \in DOMAIN stops' /\ ~stops'[e].gone
                                    /\ stops'[e].id = store.id)
         \/ /\ Empty(t) /\ t.blocked /\ (Captured => t.moved) /\ (t.enabled => t.barrier)
  BY <1>1, BookedIn
<1>3. store' \in {t, SealStore(t)} OBVIOUS
<1> HIDE DEF t
<1>4. /\ store' \in Stores /\ Within(t, store') /\ store'.id = t.id /\ store'.gen = t.gen
      /\ (store'.enabled <=> t.enabled) /\ (store'.confirmed <=> t.confirmed)
      /\ (store'.blocked <=> t.blocked) /\ (store'.barrier <=> t.barrier)
      /\ (store'.moved <=> t.moved)
  BY <1>2, <1>3, SealIn DEF Within
<1>5. EvidenceInv'
  <2>1. CASE /\ Same(store, t) /\ \A e \in DOMAIN stops : stops'[e].gone => stops[e].gone
             /\ \A e \in Stops : Live(t, e) =>
                  Live(store, e) \/ (store.confirmed /\ e \in DOMAIN stops' /\ ~stops'[e].gone
                                     /\ stops'[e].id = store.id)
    <3>1. /\ store'.id = store.id /\ (store'.enabled <=> store.enabled)
          /\ (store'.confirmed <=> store.confirmed) /\ (store'.blocked <=> store.blocked)
          /\ (store'.barrier <=> store.barrier) /\ (store'.moved <=> store.moved)
      BY <1>4, <2>1 DEF Same
    <3>2. \A e \in Stops : Live(store', e) =>
            Live(store, e) \/ (store'.confirmed /\ e \in DOMAIN stops' /\ ~stops'[e].gone
                               /\ stops'[e].id = store'.id)
      BY <1>4, <2>1, <3>1 DEF Within
    <3> QED BY <1>1, <1>2, <2>1, <3>1, <3>2, CalmSide
  <2>2. CASE Empty(t) /\ t.blocked /\ (Captured => t.moved) /\ (t.enabled => t.barrier)
    <3>1. Empty(store') BY <1>4, <2>2 DEF Empty, Within
    <3>2. store.confirmed => store.enabled BY <1>1 DEF EvidenceInv, EpochInv
    <3> QED BY <1>1, <1>2, <1>4, <2>2, <3>1, <3>2, WithdrawnSide
  <2> QED BY <1>2, <2>1, <2>2
<1> QED BY <1>2, <1>4, <1>5 DEF t

(* What is left to show of a step that gives the pending stop up.           *)
LEMMA PendingSide ==
  ASSUME StopIInv, Grown, EvidenceInv', store' \in Stores, store'.id = store.id,
         store'.gen = store.gen, store'.enabled <=> store.enabled,
         store'.confirmed <=> store.confirmed, hour' = hour, stale' = Kept(stale),
         checkup' \in Checkups, checkup'.source = checkup.source,
         checkup'.allow <=> checkup.allow, checkup'.gen = checkup.gen,
         checkup'.pending = NoPending, checkup.closed => checkup'.closed,
         checkup'.closed \/ (checkup.reset => checkup'.reset),
         store'.sealed => checkup'.closed,
         UNCHANGED <<owner, known, journal, target, plant, sweep>>,
         store.confirmed \/ stops' = stops
  PROVE  StopIInv'
<1>1. StopShape /\ SourceInv /\ FreshInv /\ EvidenceInv BY DEF StopIInv, CheckupInv
<1>2. stale' \subseteq stale /\ "pending" \notin stale' BY KeptIn
<1>3. StopShape' BY <1>1, <1>2 DEF StopShape, StoreShape, FlashShape, PollShape, GhostShape, Grown
<1>4. SourceInv' BY <1>1 DEF SourceInv
<1>5. FreshInv'
  <2>1. checkup'.source = NoSource => stops' = stops BY <1>1 DEF SourceInv
  <2> QED BY <1>1, <2>1, FreshSide
<1>6. StaleInv' BY <1>2 DEF StopIInv, CheckupInv, StaleInv
<1>7. PendingInv'
  <2>1. stops' \in Seq(Seen) /\ Len(stops') <= MaxStops BY DEF Grown
  <2>2. Len(stops') \in Nat BY <2>1
  <2>3. Pends' = 0 BY DEF Pends
  <2> QED BY <2>1, <2>2, <2>3, Bounds DEF PendingInv
<1> QED BY <1>3, <1>4, <1>5, <1>6, <1>7 DEF StopIInv, CheckupInv

LEMMA ExpirePendingKeeps == ASSUME StopIInv, ExpirePending PROVE StopIInv'
<1>1. /\ checkup \in Checkups /\ "pending" \notin stale /\ SourceInv
      /\ UNCHANGED <<target, sweep, owner, known, journal, plant, hour>>
      /\ checkup.pending # NoPending /\ stale' = Kept(stale)
      /\ checkup' = [checkup EXCEPT !.pending = NoPending]
      /\ store' = RecordStop(store, checkup.pending)
      /\ stops' = Booked(store, checkup.pending, stops, "pending" \in stale)
  BY DEF StopIInv, StopShape, PollShape, CheckupInv, StaleInv, ExpirePending, checkupSide
<1>2. stops' = Booked(store, checkup.pending, stops, FALSE)
  <2>1. ("pending" \in stale) = FALSE BY <1>1
  <2> QED BY <1>1, <2>1, Zenon
<1>3. /\ checkup' \in Checkups /\ checkup'.source = checkup.source
      /\ (checkup'.allow <=> checkup.allow) /\ checkup'.gen = checkup.gen
      /\ checkup'.pending = NoPending /\ (checkup'.closed <=> checkup.closed)
      /\ (checkup'.reset <=> checkup.reset)
  BY <1>1, NothingIn DEF Checkups
<1>4. /\ EvidenceInv' /\ Grown /\ (store.confirmed \/ stops' = stops)
      /\ store' \in Stores /\ store'.id = store.id /\ store'.gen = store.gen
      /\ (store'.enabled <=> store.enabled) /\ (store'.confirmed <=> store.confirmed)
      /\ (store'.sealed => store.sealed)
  BY <1>1, <1>2, BookedEvidence
<1>5. store'.sealed => checkup'.closed BY <1>1, <1>3, <1>4 DEF SourceInv
<1> QED BY <1>1, <1>3, <1>4, <1>5, PendingSide

LEMMA SealForRestartKeeps == ASSUME StopIInv, SealForRestart PROVE StopIInv'
<1>1. /\ StopShape /\ EvidenceInv /\ checkup \in Checkups /\ store \in Stores
      /\ "pending" \notin stale
      /\ UNCHANGED <<target, sweep, owner, known, journal, plant, hour>>
      /\ stale' = Kept(stale)
      /\ checkup' = [checkup EXCEPT !.closed = TRUE, !.pending = NoPending, !.reset = FALSE]
  BY DEF StopIInv, StopShape, StoreShape, PollShape, CheckupInv, StaleInv, SealForRestart, checkupSide
<1>2. \/ store' = SealStore(store) /\ stops' = stops
      \/ /\ checkup.pending # NoPending
         /\ store' = SealStore(RecordStop(store, checkup.pending))
         /\ stops' = Booked(store, checkup.pending, stops, "pending" \in stale)
  <2> DEFINE p == IF checkup.reset THEN NoPending ELSE checkup.pending
  <2>1. /\ store' = SealStore(IF p = NoPending THEN store ELSE RecordStop(store, p))
        /\ stops' = IF p = NoPending THEN stops ELSE Booked(store, p, stops, "pending" \in stale)
    BY DEF SealForRestart
  <2>2. CASE p = NoPending BY <2>1, <2>2
  <2>3. CASE p # NoPending
    <3>1. p = checkup.pending BY <2>3
    <3> QED BY <2>1, <2>3, <3>1
  <2> QED BY <2>2, <2>3
<1>3. /\ checkup' \in Checkups /\ checkup'.source = checkup.source
      /\ (checkup'.allow <=> checkup.allow) /\ checkup'.gen = checkup.gen
      /\ checkup'.pending = NoPending /\ checkup'.closed
  BY <1>1, NothingIn DEF Checkups
<1>4. CASE store' = SealStore(store) /\ stops' = stops
  <2>1. /\ store' \in Stores /\ Within(store, store') /\ store'.id = store.id
        /\ store'.gen = store.gen
        /\ (store'.enabled <=> store.enabled) /\ (store'.confirmed <=> store.confirmed)
        /\ (store'.blocked <=> store.blocked) /\ (store'.barrier <=> store.barrier)
        /\ (store'.moved <=> store.moved)
    BY <1>1, <1>4, SealIn
  <2>2. Grown BY <1>1, <1>4, GrownBy
  <2>3. EvidenceInv' BY <1>1, <1>4, <2>1, <2>2, CalmSide DEF Within
  <2> QED BY <1>1, <1>3, <1>4, <2>1, <2>2, <2>3, PendingSide
<1>5. CASE /\ checkup.pending # NoPending
           /\ store' = SealStore(RecordStop(store, checkup.pending))
           /\ stops' = Booked(store, checkup.pending, stops, "pending" \in stale)
  <2>1. stops' = Booked(store, checkup.pending, stops, FALSE)
    <3>1. ("pending" \in stale) = FALSE BY <1>1
    <3> QED BY <1>5, <3>1, Zenon
  <2>2. /\ EvidenceInv' /\ Grown /\ (store.confirmed \/ stops' = stops)
        /\ store' \in Stores /\ store'.id = store.id /\ store'.gen = store.gen
        /\ (store'.enabled <=> store.enabled) /\ (store'.confirmed <=> store.confirmed)
    BY <1>1, <1>5, <2>1, BookedEvidence
  <2> QED BY <1>1, <1>3, <2>2, PendingSide
<1> QED BY <1>2, <1>4, <1>5

(* A sample without a stop.                                                 *)
LEMMA SampleSide ==
  ASSUME StopIInv, Accepts(store), store' = RecordSample(store),
         stops' = WithdrawnBy(store, stops), UNCHANGED <<owner, known, journal>>
  PROVE  /\ EvidenceInv' /\ Grown /\ Len(stops') = Len(stops)
         /\ store' \in Stores /\ store'.id = store.id /\ store'.gen = store.gen
         /\ store'.enabled /\ store'.confirmed /\ (store'.sealed => store.sealed)
<1>1. /\ StopShape /\ EvidenceInv /\ store \in Stores /\ hour \in Nat
      /\ store.enabled /\ store.confirmed
  BY DEF StopIInv, StopShape, StoreShape, Accepts
<1>2. CASE store.clock = "moved"
  <2>1. store' = InvalidateClock(store) /\ stops' = Withdrawn(stops)
    BY <1>1, <1>2, SampleIn DEF WithdrawnBy
  <2>2. Grown /\ Len(stops') = Len(stops) BY <1>1, <2>1, GrownBy
  <2>3. /\ store' \in Stores /\ Empty(store') /\ (store'.moved <=> Captured)
        /\ store'.id = store.id /\ store'.gen = store.gen /\ (store'.enabled <=> store.enabled)
        /\ (store'.confirmed <=> store.confirmed) /\ store'.blocked /\ ~store'.sealed
        /\ (store'.barrier <=> store.enabled /\ store.confirmed)
    BY <1>1, <2>1, InvalidateIn
  <2>4. EvidenceInv' BY <1>1, <2>2, <2>3, WithdrawnSide
  <2> QED BY <1>1, <2>2, <2>3, <2>4
<1>3. CASE store.clock # "moved"
  <2>1. stops' = stops BY <1>3 DEF WithdrawnBy
  <2>2. Tame(store, store') BY <1>1, <1>3, SampleIn
  <2>3. Grown BY <1>1, <2>1, GrownBy
  <2>4. EvidenceInv' BY <1>1, <2>1, <2>2, <2>3, CalmSide DEF Tame, Same, Within
  <2> QED BY <1>1, <2>1, <2>2, <2>3, <2>4 DEF Tame, Same
<1> QED BY <1>2, <1>3

(* What is left to show of a sample admitted.                               *)
LEMMA RecordTail ==
  ASSUME StopIInv, Grown, EvidenceInv', store' \in Stores, checkup' \in Checkups,
         checkup'.source # NoSource, store'.gen = checkup'.gen, store'.enabled, store'.confirmed,
         ~store'.sealed, sweep' = NoSweep, stale' = {}, PendingInv',
         UNCHANGED <<owner, known, journal, target, plant, hour>>
  PROVE  StopIInv'
<1>1. StopShape BY DEF StopIInv
<1>2. ~NoSweep.on BY DEF NoSweep
<1>3. StopShape'
  BY <1>1, NothingIn DEF StopShape, StoreShape, FlashShape, PollShape, GhostShape, Grown
<1>4. SourceInv' BY DEF SourceInv
<1>5. FreshInv' BY DEF FreshInv
<1>6. StaleInv' BY <1>2 DEF StaleInv
<1> QED BY <1>3, <1>4, <1>5, <1>6 DEF StopIInv, CheckupInv

(* Bound anew to another target, a store with a source is cleared.          *)
LEMMA BindFresh ==
  ASSUME NEW s \in Stores, NEW src \in Srcs, NEW gen \in Nat, s.confirmed, s.gen # gen,
         NEW allow \in BOOLEAN, ~allow
  PROVE  LET t == Bind(s, src, gen, allow)
         IN  /\ t \in Stores /\ Empty(t) /\ t.gen = gen /\ (t.enabled <=> s.enabled)
             /\ (t.sealed => s.sealed) /\ (t.confirmed <=> s.enabled /\ src # NoSource)
             /\ t.blocked /\ t.barrier /\ (t.moved <=> Captured) /\ t.clock = "agrees"
<1> DEFINE t == Bind(s, src, gen, allow)
           id == [s.id EXCEPT !.src = src]
           changed == s.confirmed /\ (s.id # id \/ s.gen # gen)
<1>1. /\ t \in Stores /\ (changed => Empty(t)) /\ t.gen = gen /\ (t.enabled <=> s.enabled)
      /\ (t.sealed => s.sealed) /\ (t.confirmed <=> s.enabled /\ src # NoSource)
      /\ (t.blocked <=> s.blocked \/ changed \/ ~allow)
      /\ (t.barrier <=> s.barrier \/ changed \/ ~allow)
      /\ (t.moved <=> IF changed THEN Captured ELSE s.moved) /\ (changed => t.clock = "agrees")
  BY BindIn
<1>2. changed OBVIOUS
<1> HIDE DEF changed, t
<1> QED BY <1>1, <1>2 DEF t

LEMMA RecordSweepKeeps == ASSUME StopIInv, RecordSweep PROVE StopIInv'
<1> DEFINE fresh == Cycle.gen # checkup.gen
           s0 == IF fresh THEN Bind(store, checkup.source, Cycle.gen, FALSE) ELSE store
           p0 == IF fresh THEN NoPending ELSE checkup.pending
           q0 == IF fresh THEN Withdrawn(stops) ELSE stops
           with(p) == [checkup EXCEPT !.gen = Cycle.gen, !.pending = p, !.allow = @ /\ ~fresh]
           witnessed == [hour |-> hour, gen |-> Cycle.gen, id |-> s0.id]
<1>1. /\ StopShape /\ EvidenceInv /\ SourceInv /\ store \in Stores /\ hour \in Nat \ {0}
      /\ checkup \in Checkups /\ sweep \in Sweeps /\ target \in Nat /\ "pending" \notin stale
      /\ UNCHANGED <<target, owner, known, journal, plant, hour>> /\ sweep' = NoSweep
      /\ Admitted /\ ~checkup.reset /\ checkup.source # NoSource /\ stale \subseteq {"sweep", "pending"}
      /\ stops \in Seq(Seen) /\ Len(stops) <= MaxStops
  BY DEF StopIInv, StopShape, StoreShape, PollShape, GhostShape, CheckupInv, StaleInv,
         RecordSweep, checkupSide
<1>2. \/ /\ checkup' = with(p0) /\ store' = RecordSample(s0) /\ stops' = WithdrawnBy(s0, q0)
         /\ stale' = Kept(IF fresh THEN {"pending"} ELSE stale)
      \/ /\ p0 = NoPending /\ CanWitness /\ checkup' = with(witnessed)
         /\ store' = RecordSample(s0) /\ stops' = WithdrawnBy(s0, q0)
         /\ stale' = IF "sweep" \in stale THEN {"pending"} ELSE {}
      \/ /\ p0 # NoPending /\ checkup' = with(NoPending)
         /\ store' = RecordStop(s0, p0) /\ stops' = Booked(s0, p0, q0, "pending" \in stale)
         /\ stale' = {}
  BY DEF RecordSweep
<1>3. store.enabled /\ Cycle.gen = target /\ ~checkup.closed /\ Cycle.consent = store.id.consent
  BY <1>1 DEF Admitted
<1>4. Accepts(store) BY <1>1, <1>3 DEF SourceInv, Accepts
<1>5. stale = {}
  <2>1. "sweep" \in stale => sweep.on /\ Cycle = sweep BY DEF StopIInv, CheckupInv, StaleInv, Cycle
  <2>2. "sweep" \notin stale BY <1>1, <1>3, <2>1 DEF StopIInv, CheckupInv, StaleInv
  <2> QED BY <1>1, <2>2
<1>6. s0 \in Stores /\ s0.enabled /\ s0.confirmed /\ ~s0.sealed /\ s0.gen = target
      /\ (fresh => Empty(s0) /\ s0.blocked /\ s0.barrier /\ (Captured => s0.moved)
                   /\ s0.clock = "agrees")
  <2>1. CASE ~fresh BY <1>1, <1>3, <1>4, <2>1 DEF Accepts, SourceInv
  <2>2. CASE fresh
    <3>1. store.confirmed /\ ~store.sealed /\ store.gen # target
      BY <1>1, <1>3, <1>4, <2>2 DEF Accepts, SourceInv
    <3>2. checkup.source \in Srcs BY <1>1 DEF Checkups
    <3>3. s0 = Bind(store, checkup.source, target, FALSE) BY <1>3, <2>2
    <3> HIDE DEF s0, fresh
    <3>4. /\ s0 \in Stores /\ Empty(s0) /\ s0.gen = target /\ (s0.enabled <=> store.enabled)
          /\ (s0.sealed => store.sealed)
          /\ (s0.confirmed <=> store.enabled /\ checkup.source # NoSource)
          /\ s0.blocked /\ s0.barrier /\ (s0.moved <=> Captured) /\ s0.clock = "agrees"
      <4>1. PICK allow \in BOOLEAN : allow = FALSE OBVIOUS
      <4>2. s0 = Bind(store, checkup.source, target, allow) BY <3>3, <4>1, Zenon
      <4>3. store \in Stores /\ target \in Nat /\ ~allow BY <1>1, <4>1
      <4> QED BY <3>1, <3>2, <4>2, <4>3, BindFresh
    <3> QED BY <1>1, <1>3, <3>1, <3>4
  <2> QED BY <2>1, <2>2
<1>7. ASSUME NEW p \in Pendings, checkup' = with(p)
      PROVE  /\ checkup' \in Checkups /\ checkup'.source = checkup.source /\ checkup'.gen = target
             /\ checkup'.pending = p
  <2> DEFINE allow == checkup.allow /\ ~fresh
  <2>1. checkup' = [checkup EXCEPT !.gen = target, !.pending = p, !.allow = allow]
    BY <1>1, <1>3, <1>7 DEF Checkups
  <2>2. allow \in BOOLEAN OBVIOUS
  <2> HIDE DEF allow
  <2> QED BY <1>1, <2>1, <2>2 DEF Checkups
<1>8. p0 \in Pendings BY <1>1, NothingIn DEF Checkups
<1>9. witnessed \in Pendings /\ witnessed # NoPending
  <2>1. s0.id \in Ids BY <1>6 DEF Stores
  <2> HIDE DEF s0
  <2> QED BY <1>1, <1>3, <2>1 DEF Pendings, NoPending
<1>10. Len(stops) \in Nat BY <1>1
<1> HIDE DEF with
<1>11. CASE /\ store' = RecordSample(s0) /\ stops' = WithdrawnBy(s0, q0)
            /\ \/ checkup' = with(p0) /\ stale' = Kept(IF fresh THEN {"pending"} ELSE stale)
               \/ /\ CanWitness /\ checkup' = with(witnessed)
                  /\ stale' = IF "sweep" \in stale THEN {"pending"} ELSE {}
  <2>1. /\ EvidenceInv' /\ Grown /\ Len(stops') = Len(stops) /\ store' \in Stores
        /\ store'.id = s0.id /\ store'.gen = s0.gen /\ store'.enabled /\ store'.confirmed
        /\ ~store'.sealed
    <3>1. CASE ~fresh
      <4>1. s0 = store /\ q0 = stops BY <3>1
      <4> QED BY <1>1, <1>4, <1>6, <1>11, <4>1, SampleSide
    <3>2. CASE fresh
      <4>1. stops' = Withdrawn(stops) BY <1>6, <1>11, <3>2 DEF WithdrawnBy
      <4>2. Grown /\ Len(stops') = Len(stops) BY <1>1, <4>1, GrownBy
      <4> HIDE DEF s0, fresh
      <4>3. Tame(s0, store') BY <1>1, <1>6, <1>11, <3>2, SampleIn
      <4>4. /\ store' \in Stores /\ Empty(store') /\ store'.blocked /\ store'.barrier
            /\ (Captured => store'.moved) /\ store'.enabled /\ store'.confirmed /\ ~store'.sealed
            /\ store'.id = s0.id /\ store'.gen = s0.gen
        BY <1>6, <3>2, <4>3 DEF Tame, Same, Within, Empty
      <4>5. EvidenceInv' BY <1>1, <4>2, <4>4, WithdrawnSide
      <4> QED BY <4>2, <4>4, <4>5
    <3> QED BY <3>1, <3>2
  <2>2. CASE checkup' = with(p0) /\ stale' = Kept(IF fresh THEN {"pending"} ELSE stale)
    <3>1. /\ checkup' \in Checkups /\ checkup'.source = checkup.source /\ checkup'.gen = target
          /\ checkup'.pending = p0
      BY <1>7, <1>8, <2>2
    <3>2. stale' = {}
      <4>1. CASE fresh BY <2>2, <3>1, <4>1, KeptIn
      <4>2. CASE ~fresh BY <1>5, <2>2, <4>2, KeptIn
      <4> QED BY <4>1, <4>2
    <3>3. PendingInv'
      <4>1. CASE fresh
        <5>1. Pends' = 0 /\ checkup'.pending = NoPending BY <3>1, <4>1 DEF Pends
        <5> QED BY <1>1, <1>10, <2>1, <5>1, Bounds DEF PendingInv
      <4>2. CASE ~fresh
        <5>1. Pends' = Pends /\ checkup'.pending = checkup.pending /\ store'.id = store.id
          BY <2>1, <3>1, <4>2 DEF Pends
        <5> QED BY <2>1, <5>1 DEF StopIInv, CheckupInv, PendingInv
      <4> QED BY <4>1, <4>2
    <3> QED BY <1>1, <1>6, <2>1, <3>1, <3>2, <3>3, RecordTail
  <2>3. CASE /\ CanWitness /\ checkup' = with(witnessed)
             /\ stale' = IF "sweep" \in stale THEN {"pending"} ELSE {}
    <3>1. /\ checkup' \in Checkups /\ checkup'.source = checkup.source /\ checkup'.gen = target
          /\ checkup'.pending = witnessed
      BY <1>7, <1>9, <2>3
    <3>2. stale' = {} BY <1>5, <2>3
    <3>3. PendingInv'
      <4>1. Pends' = 1 /\ checkup'.pending.id = s0.id
        <5> HIDE DEF s0
        <5>1. witnessed.id = s0.id OBVIOUS
        <5> HIDE DEF witnessed
        <5> QED BY <1>9, <3>1, <5>1 DEF Pends
      <4>2. Len(stops) + 1 <= MaxStops BY <1>10, <2>3, Bounds DEF CanWitness
      <4> QED BY <2>1, <4>1, <4>2 DEF PendingInv
    <3> QED BY <1>1, <1>6, <2>1, <3>1, <3>2, <3>3, RecordTail
  <2> QED BY <1>11, <2>2, <2>3
<1>12. CASE /\ p0 # NoPending /\ checkup' = with(NoPending)
            /\ store' = RecordStop(s0, p0) /\ stops' = Booked(s0, p0, q0, "pending" \in stale)
            /\ stale' = {}
  <2>1. s0 = store /\ q0 = stops /\ p0 = checkup.pending BY <1>12
  <2>2. stops' = Booked(store, checkup.pending, stops, FALSE)
    <3>1. ("pending" \in stale) = FALSE BY <1>1
    <3>2. stops' = Booked(store, checkup.pending, stops, "pending" \in stale) BY <1>12, <2>1
    <3> QED BY <3>1, <3>2, Zenon
  <2>3. /\ EvidenceInv' /\ Grown /\ store' \in Stores /\ store'.id = store.id
        /\ store'.gen = store.gen /\ (store'.enabled <=> store.enabled)
        /\ (store'.confirmed <=> store.confirmed) /\ (store'.sealed => store.sealed)
    BY <1>1, <1>12, <2>1, <2>2, BookedEvidence
  <2>4. /\ checkup' \in Checkups /\ checkup'.source = checkup.source /\ checkup'.gen = target
        /\ checkup'.pending = NoPending
    BY <1>7, <1>12, NothingIn
  <2>5. PendingInv'
    <3>1. Pends' = 0 BY <2>4 DEF Pends
    <3>2. stops' \in Seq(Seen) /\ Len(stops') <= MaxStops BY <2>3 DEF Grown
    <3>3. Len(stops') \in Nat BY <3>2
    <3> QED BY <2>4, <3>1, <3>2, <3>3, Bounds DEF PendingInv
  <2> QED BY <1>1, <1>4, <1>6, <1>12, <2>1, <2>3, <2>4, <2>5, RecordTail DEF Accepts
<1> QED BY <1>2, <1>11, <1>12

(* A cycle a handler's step interrupts.                                     *)
LEMMA BeginIn ==
  ASSUME StopIInv, MayBegin
  PROVE  /\ sweep' \in Sweeps
         /\ sweep'.on => sweep'.consent <= store.id.consent /\ sweep'.gen <= target
         /\ "sweep" \in stale => sweep' = sweep /\ sweep.on
<1>1. /\ store \in Stores /\ sweep \in Sweeps /\ target \in Nat /\ store.id \in Ids
      /\ sweep.on => sweep.consent <= store.id.consent /\ sweep.gen <= target
      /\ "sweep" \in stale => sweep.on
  BY DEF StopIInv, StopShape, StoreShape, PollShape, CheckupInv, StaleInv, Stores
<1>2. CASE sweep' = sweep BY <1>1, <1>2
<1>3. CASE ~sweep.on /\ sweep' = Captures
  <2>1. store.id.consent \in Nat BY <1>1 DEF Ids
  <2>2. sweep' = [on |-> TRUE, consent |-> store.id.consent, gen |-> target] BY <1>3 DEF Captures
  <2>3. sweep' \in Sweeps BY <1>1, <2>1, <2>2 DEF Sweeps
  <2>4. sweep'.consent = store.id.consent /\ sweep'.gen = target BY <2>2
  <2> QED BY <1>1, <1>3, <2>1, <2>3, <2>4
<1> QED BY <1>2, <1>3 DEF MayBegin

LEMMA ReconfigureKeeps == ASSUME StopIInv, Reconfigure PROVE StopIInv'
<1>1. /\ StopShape /\ EvidenceInv /\ target \in Nat /\ target' = target + 1 /\ plant' \in PumpSources
      /\ MayBegin /\ stale' = stale \cup (IF sweep'.on THEN {"sweep"} ELSE {})
      /\ stale \subseteq {"sweep", "pending"} /\ "pending" \notin stale
      /\ UNCHANGED <<store, owner, known, journal, checkup, hour, stops>>
  BY DEF StopIInv, StopShape, PollShape, GhostShape, CheckupInv, StaleInv, Reconfigure
<1>2. /\ sweep' \in Sweeps
      /\ sweep'.on => sweep'.consent <= store.id.consent /\ sweep'.gen <= target
      /\ "sweep" \in stale => sweep' = sweep /\ sweep.on
  BY <1>1, BeginIn
<1>3. EvidenceInv' /\ Grown BY <1>1, StillSide
<1>4. stale' \subseteq {"sweep", "pending"} /\ "pending" \notin stale' BY <1>1
<1>5. target' \in Nat BY <1>1
<1>6. StopShape'
  BY <1>1, <1>2, <1>4, <1>5 DEF StopShape, StoreShape, FlashShape, PollShape, GhostShape
<1>7. SourceInv' BY <1>1 DEF StopIInv, CheckupInv, SourceInv
<1>8. FreshInv' BY <1>1, <1>3, FreshSide DEF StopIInv, CheckupInv
<1>9. StaleInv'
  <2>1. sweep'.gen \in Nat BY <1>2 DEF Sweeps
  <2>2. sweep'.on => sweep'.gen <= target' /\ sweep'.gen # target' BY <1>1, <1>2, <2>1
  <2>3. "sweep" \in stale' => sweep'.on BY <1>1, <1>2
  <2> QED BY <1>1, <1>2, <1>4, <2>2, <2>3 DEF StaleInv
<1>10. PendingInv' BY <1>1 DEF StopIInv, CheckupInv, PendingInv, Pends
<1> QED BY <1>3, <1>6, <1>7, <1>8, <1>9, <1>10 DEF StopIInv, CheckupInv

(* What is left to show of a handler that leaves no stop pending.           *)
LEMMA HandlerTail ==
  ASSUME StopIInv, Grown, EvidenceInv', SourceInv', FreshInv', StaleInv',
         store' \in Stores, checkup' \in Checkups, checkup'.pending = NoPending,
         Len(stops') = Len(stops), sweep' \in Sweeps, stale' \subseteq {"sweep", "pending"},
         target' \in Nat, plant' \in PumpSources, UNCHANGED <<owner, known, journal, hour>>
  PROVE  StopIInv'
<1>1. StopShape /\ Len(stops) \in Nat /\ Len(stops) <= MaxStops
  BY DEF StopIInv, StopShape, GhostShape
<1>2. StopShape'
  BY <1>1 DEF StopShape, StoreShape, FlashShape, PollShape, GhostShape, Grown
<1>3. PendingInv'
  <2>1. Pends' = 0 BY DEF Pends
  <2> QED BY <1>1, <2>1, Bounds DEF PendingInv
<1> QED BY <1>2, <1>3 DEF StopIInv, CheckupInv

(* A sweep under way when its store is withdrawn is not admitted later.     *)
LEMMA WithdrawnStale ==
  ASSUME StopIInv, MayBegin, stale' = Kept({"sweep", "pending"}), checkup'.pending = NoPending,
         target' = target, store' \in Stores,
         \/ store'.id.consent = store.id.consent /\ checkup'.reset
         \/ store'.id.consent = store.id.consent + 1
  PROVE  StaleInv' /\ stale' \subseteq {"sweep", "pending"} /\ sweep' \in Sweeps
<1>1. /\ sweep' \in Sweeps
      /\ sweep'.on => sweep'.consent <= store.id.consent /\ sweep'.gen <= target
  BY BeginIn
<1>2. sweep'.consent \in Nat BY <1>1 DEF Sweeps
<1>3. store.id.consent \in Nat BY DEF StopIInv, StopShape, StoreShape, Stores, Ids
<1>4. stale' \subseteq {"sweep", "pending"} /\ ("sweep" \in stale' => sweep'.on) /\ "pending" \notin stale'
  BY KeptIn
<1>5. sweep'.on => sweep'.consent <= store'.id.consent /\ sweep'.gen <= target'
  BY <1>1, <1>2, <1>3
<1>6. sweep'.on => checkup'.reset \/ sweep'.consent # store'.id.consent
  BY <1>1, <1>2, <1>3
<1> QED BY <1>1, <1>4, <1>5, <1>6 DEF StaleInv

LEMMA CheckupResetKeeps == ASSUME StopIInv, CheckupReset PROVE StopIInv'
<1>1. /\ StopShape /\ EvidenceInv /\ SourceInv /\ store \in Stores /\ checkup \in Checkups
      /\ target \in Nat /\ plant \in PumpSources /\ MayBegin
      /\ checkup' = [checkup EXCEPT !.source = NoSource, !.allow = FALSE, !.reset = TRUE,
                                    !.pending = NoPending]
      /\ store' = ResetStore(store) /\ stops' = Withdrawn(stops) /\ stale' = Kept({"sweep", "pending"})
      /\ UNCHANGED <<owner, known, journal, target, plant, hour>>
  BY DEF StopIInv, StopShape, StoreShape, PollShape, CheckupInv, CheckupReset, Withdraw
<1>2. /\ checkup' \in Checkups /\ checkup'.source = NoSource /\ ~checkup'.allow /\ checkup'.reset
      /\ checkup'.pending = NoPending /\ checkup'.gen = checkup.gen
  BY <1>1, NothingIn DEF Checkups, Srcs
<1>3. /\ store' \in Stores /\ Empty(store') /\ (store'.moved <=> Captured) /\ ~store'.sealed
      /\ store'.id = store.id /\ store'.gen = store.gen /\ (store'.enabled <=> store.enabled)
      /\ ~store'.confirmed /\ store'.blocked /\ (store'.barrier <=> store.enabled)
  BY <1>1, ResetIn
<1>4. Grown /\ Len(stops') = Len(stops) BY <1>1, GrownBy
<1>5. EvidenceInv' BY <1>1, <1>3, <1>4, WithdrawnSide
<1>6. SourceInv' BY <1>1, <1>2, <1>3 DEF SourceInv
<1>7. FreshInv' BY <1>2 DEF FreshInv
<1>8. StaleInv' /\ stale' \subseteq {"sweep", "pending"} /\ sweep' \in Sweeps
  BY <1>1, <1>2, <1>3, WithdrawnStale
<1> QED BY <1>1, <1>2, <1>3, <1>4, <1>5, <1>6, <1>7, <1>8, HandlerTail

(* Bound while it has no source, a store keeps what little it counts.       *)
LEMMA BindUnbound ==
  ASSUME NEW s \in Stores, NEW src \in Srcs, NEW gen \in Nat, NEW allow \in BOOLEAN, ~s.confirmed
  PROVE  LET t == Bind(s, src, gen, allow)
         IN  /\ t \in Stores /\ Within(s, t)
             /\ t.id.consent = s.id.consent /\ t.gen = gen
             /\ (t.enabled <=> s.enabled) /\ (t.sealed => s.sealed)
             /\ (t.confirmed <=> s.enabled /\ src # NoSource)
             /\ (t.blocked <=> s.blocked \/ ~allow) /\ (t.barrier <=> s.barrier \/ ~allow)
             /\ (t.moved <=> s.moved)
<1> DEFINE t == Bind(s, src, gen, allow)
           id == [s.id EXCEPT !.src = src]
           changed == s.confirmed /\ (s.id # id \/ s.gen # gen)
<1>1. /\ t \in Stores /\ Within(s, t) /\ t.id = id /\ t.gen = gen /\ (t.enabled <=> s.enabled)
      /\ (t.sealed => s.sealed) /\ (t.confirmed <=> s.enabled /\ src # NoSource)
      /\ (t.blocked <=> s.blocked \/ changed \/ ~allow)
      /\ (t.barrier <=> s.barrier \/ changed \/ ~allow)
      /\ (t.moved <=> IF changed THEN Captured ELSE s.moved)
  BY BindIn
<1>2. ~changed OBVIOUS
<1>3. s.id \in Ids /\ id.consent = s.id.consent BY DEF Stores, Ids
<1> HIDE DEF changed, t, id
<1> QED BY <1>1, <1>2, <1>3 DEF t, id

LEMMA SetDiagnosticsKeeps == ASSUME StopIInv, SetDiagnostics PROVE StopIInv'
<1> DEFINE n == store.id.consent + 1
<1>1. /\ StopShape /\ EvidenceInv /\ SourceInv /\ store \in Stores /\ checkup \in Checkups
      /\ target \in Nat /\ plant \in PumpSources /\ MayBegin
      /\ checkup' = [checkup EXCEPT !.allow = FALSE, !.reset = FALSE, !.pending = NoPending]
      /\ stops' = Withdrawn(stops) /\ stale' = Kept({"sweep", "pending"})
      /\ UNCHANGED <<owner, known, journal, target, plant, hour>>
  BY DEF StopIInv, StopShape, StoreShape, PollShape, CheckupInv, SetDiagnostics, Withdraw
<1>2. PICK on \in BOOLEAN : on = ~store.enabled OBVIOUS
<1> DEFINE s == SetStoreDiagnostics(store, on, n)
<1>3. store' = IF checkup.source = NoSource THEN s ELSE Bind(s, checkup.source, checkup.gen, FALSE)
  <2>1. LET d == SetStoreDiagnostics(store, ~store.enabled, store.id.consent + 1)
        IN  store' = IF checkup.source = NoSource THEN d
                     ELSE Bind(d, checkup.source, checkup.gen, FALSE)
    BY DEF SetDiagnostics
  <2> QED BY <1>2, <2>1, Zenon
<1>4. n \in Nat /\ n = store.id.consent + 1 /\ store.id \in Ids BY <1>1 DEF Stores, Ids
<1> HIDE DEF n
<1>5. /\ s \in Stores /\ Empty(s) /\ (s.moved <=> Captured) /\ ~s.sealed
      /\ s.id = [store.id EXCEPT !.consent = n] /\ s.gen = store.gen /\ (s.enabled <=> on)
      /\ ~s.confirmed /\ s.blocked /\ (s.barrier <=> on)
  BY <1>1, <1>2, <1>4, DiagnosticsIn, ZenonT(60)
<1>6. s.id.consent = n BY <1>4, <1>5 DEF Ids
<1> HIDE DEF s
<1>7. /\ store' \in Stores /\ Empty(store') /\ (store'.moved <=> Captured) /\ ~store'.sealed
      /\ store'.id.consent = n /\ store'.gen = store.gen /\ (store'.enabled <=> on)
      /\ (store'.confirmed <=> on /\ checkup.source # NoSource) /\ store'.blocked
      /\ (store'.enabled => store'.barrier)
  <2>1. CASE checkup.source = NoSource BY <1>3, <1>5, <1>6, <2>1
  <2>2. CASE checkup.source # NoSource
    <3>1. PICK allow \in BOOLEAN : allow = FALSE OBVIOUS
    <3>2. store' = Bind(s, checkup.source, checkup.gen, allow) BY <1>3, <2>2, <3>1, Zenon
    <3>3. checkup.source \in Srcs /\ checkup.gen \in Nat /\ checkup.gen = store.gen /\ ~allow
      BY <1>1, <3>1 DEF Checkups, SourceInv
    <3>4. /\ store' \in Stores /\ Within(s, store') /\ store'.id.consent = s.id.consent
          /\ store'.gen = checkup.gen /\ (store'.enabled <=> s.enabled) /\ (store'.sealed => s.sealed)
          /\ (store'.confirmed <=> s.enabled /\ checkup.source # NoSource)
          /\ (store'.blocked <=> s.blocked \/ ~allow) /\ (store'.barrier <=> s.barrier \/ ~allow)
          /\ (store'.moved <=> s.moved)
      <4>1. s \in Stores /\ ~s.confirmed BY <1>5
      <4> QED BY <4>1, <3>2, <3>3, BindUnbound
    <3> QED BY <1>5, <1>6, <2>2, <3>3, <3>4 DEF Within, Empty
  <2> QED BY <2>1, <2>2
<1>8. /\ checkup' \in Checkups /\ checkup'.source = checkup.source /\ ~checkup'.allow
      /\ checkup'.pending = NoPending /\ checkup'.gen = checkup.gen
  BY <1>1, NothingIn DEF Checkups, Srcs
<1>9. Grown /\ Len(stops') = Len(stops) BY <1>1, GrownBy
<1>10. EvidenceInv' BY <1>1, <1>7, <1>9, WithdrawnSide
<1>11. SourceInv' BY <1>1, <1>7, <1>8 DEF SourceInv
<1>12. FreshInv' BY <1>8 DEF FreshInv
<1>13. StaleInv' /\ stale' \subseteq {"sweep", "pending"} /\ sweep' \in Sweeps
  BY <1>1, <1>4, <1>7, <1>8, WithdrawnStale
<1> QED BY <1>1, <1>7, <1>8, <1>9, <1>10, <1>11, <1>12, <1>13, HandlerTail

(* The first source of a boot, found where nothing is in doubt: its store   *)
(* may take up what the journal has of it.                                  *)
LEMMA FirstSide ==
  ASSUME StopShape, EvidenceInv, FreshInv, checkup.source = NoSource, checkup.allow,
         UNCHANGED <<owner, known, journal, stops>>, Empty(store'),
         store'.enabled <=> store.enabled, store'.confirmed => store'.enabled,
         store'.blocked <=> store.blocked, store'.barrier <=> store.barrier,
         store'.moved <=> store.moved
  PROVE  EvidenceInv'
<1>1. Grown BY GrownBy
<1>2. /\ JournalInv'
      /\ \A e \in DOMAIN stops : /\ Cut(e, known) => Cut(e, known)'
                                 /\ Cut(e, DOMAIN journal) => Cut(e, DOMAIN journal)'
  BY <1>1, GrownKeeps DEF EvidenceInv
<1>3. ~Captured /\ \A e \in DOMAIN stops : stops[e].gone => Cut(e, known) BY DEF FreshInv
<1>4. owner' = owner /\ stops' = stops OBVIOUS
<1>5. LiveInv' BY DEF LiveInv, Empty
<1>6. EpochInv' BY <1>3, <1>4 DEF EvidenceInv, EpochInv, Captured, Carrying
<1>7. FenceInv' BY <1>2, <1>3, <1>4 DEF EvidenceInv, FenceInv
<1>8. ClaimInv' BY <1>3, <1>4 DEF ClaimInv, Captured
<1> QED BY <1>2, <1>5, <1>6, <1>7, <1>8 DEF EvidenceInv

LEMMA ConfirmKeeps ==
  ASSUME StopIInv, NEW src \in PumpSources, ConfirmSource(src), MayBegin, plant' = plant,
         UNCHANGED <<owner, known, journal, target, hour>>
  PROVE  StopIInv'
<1> DEFINE first == checkup.source = NoSource
           base == IF first THEN store ELSE ResetStore(store)
<1>1. /\ StopShape /\ EvidenceInv /\ SourceInv /\ FreshInv /\ LiveInv /\ EpochInv
      /\ store \in Stores /\ checkup \in Checkups /\ target \in Nat /\ plant \in PumpSources
  BY DEF StopIInv, StopShape, StoreShape, PollShape, CheckupInv, EvidenceInv
<1>2. PICK allow \in BOOLEAN : allow = (checkup.allow /\ first) OBVIOUS
<1>3. /\ checkup' = [checkup EXCEPT !.source = src, !.gen = target, !.allow = allow,
                                    !.pending = NoPending, !.reset = checkup.reset \/ ~first]
      /\ store' = Bind(base, src, target, allow)
      /\ IF first THEN Unwithdrawn ELSE Withdraw
  <2>1. LET a == checkup.allow /\ first
        IN  /\ checkup' = [checkup EXCEPT !.source = src, !.gen = target, !.allow = a,
                                          !.pending = NoPending, !.reset = checkup.reset \/ ~first]
            /\ store' = Bind(base, src, target, a)
            /\ IF first THEN Unwithdrawn ELSE Withdraw
    BY DEF ConfirmSource
  <2> HIDE DEF first, base
  <2> QED BY <1>2, <2>1, Zenon
<1>4. /\ checkup' \in Checkups /\ checkup'.source = src /\ checkup'.gen = target
      /\ (checkup'.allow <=> checkup.allow /\ first) /\ checkup'.pending = NoPending
      /\ (checkup'.reset <=> checkup.reset \/ ~first) /\ (checkup'.closed <=> checkup.closed)
  <2> DEFINE reset == checkup.reset \/ ~first
  <2>1. reset \in BOOLEAN OBVIOUS
  <2>2. checkup' = [checkup EXCEPT !.source = src, !.gen = target, !.allow = allow,
                                   !.pending = NoPending, !.reset = reset]
    BY <1>3
  <2> HIDE DEF reset
  <2>3. /\ checkup' \in Checkups /\ checkup'.source = src /\ checkup'.gen = target
        /\ (checkup'.allow <=> allow) /\ checkup'.pending = NoPending
        /\ (checkup'.reset <=> reset) /\ (checkup'.closed <=> checkup.closed)
    BY <1>1, <2>1, <2>2, NothingIn DEF Checkups, Srcs
  <2> QED BY <1>2, <2>3 DEF reset
<1>5. src \in Srcs BY DEF Srcs
<1>6. base \in Stores /\ ~base.confirmed /\ Empty(base)
      /\ base.id = store.id /\ (base.enabled <=> store.enabled) /\ (base.sealed => store.sealed)
      /\ (first => base = store)
      /\ (~first => (base.moved <=> Captured) /\ base.blocked /\ (base.barrier <=> base.enabled))
  <2>1. CASE first
    <3>1. ~store.confirmed BY <1>1, <2>1 DEF SourceInv
    <3>2. Empty(store) BY <1>1, <3>1 DEF LiveInv, Empty
    <3> QED BY <1>1, <2>1, <3>1, <3>2
  <2>2. CASE ~first
    <3>1. base = ResetStore(store) BY <2>2
    <3> HIDE DEF base, first
    <3> QED BY <1>1, <2>2, <3>1, ResetIn
  <2> QED BY <2>1, <2>2
<1> HIDE DEF base
<1>7. /\ store' \in Stores /\ Within(base, store') /\ store'.id.consent = base.id.consent
      /\ store'.gen = target /\ (store'.enabled <=> base.enabled) /\ (store'.sealed => base.sealed)
      /\ (store'.confirmed <=> base.enabled /\ src # NoSource)
      /\ (store'.blocked <=> base.blocked \/ ~allow) /\ (store'.barrier <=> base.barrier \/ ~allow)
      /\ (store'.moved <=> base.moved)
  <2>1. base \in Stores /\ ~base.confirmed /\ store' = Bind(base, src, target, allow) BY <1>3, <1>6
  <2> QED BY <1>1, <1>5, <2>1, BindUnbound
<1>8. Empty(store') /\ store'.id.consent = store.id.consent BY <1>6, <1>7 DEF Empty, Within
<1>9. SourceInv' BY <1>1, <1>4, <1>6, <1>7 DEF SourceInv
<1>10. CASE first
  <2>1. stops' = stops /\ stale' = Kept(stale) BY <1>3, <1>10 DEF Unwithdrawn
  <2>2. Grown /\ Len(stops') = Len(stops) BY <1>1, <2>1, GrownBy
  <2>3. EvidenceInv'
    <3>1. CASE checkup.allow
      <4>1. allow BY <1>2, <1>10, <3>1
      <4> QED BY <1>1, <1>6, <1>7, <1>8, <1>10, <2>1, <3>1, <4>1, FirstSide
    <3>2. CASE ~checkup.allow
      <4>1. ~allow BY <1>2, <3>2
      <4>2. Captured => store.moved BY <1>1, <1>6, <1>10 DEF EpochInv
      <4> QED BY <1>1, <1>6, <1>7, <1>8, <1>10, <2>2, <4>1, <4>2, WithdrawnSide
    <3> QED BY <3>1, <3>2
  <2>4. FreshInv' BY <1>1, <1>4, <1>10, <2>1, <2>2, FreshSide
  <2>5. stale' \subseteq stale /\ ("sweep" \in stale' => sweep'.on) /\ stale \subseteq {"sweep", "pending"}
    BY <2>1, KeptIn DEF StopIInv, StopShape, GhostShape
  <2>6. /\ sweep' \in Sweeps
        /\ sweep'.on => sweep'.consent <= store.id.consent /\ sweep'.gen <= target
        /\ "sweep" \in stale => sweep' = sweep /\ sweep.on
    BY BeginIn
  <2>7. StaleInv' BY <1>4, <1>8, <2>5, <2>6 DEF StopIInv, CheckupInv, StaleInv
  <2> QED BY <1>1, <1>4, <1>7, <1>9, <2>2, <2>3, <2>4, <2>5, <2>6, <2>7, HandlerTail
<1>11. CASE ~first
  <2>1. stops' = Withdrawn(stops) /\ stale' = Kept({"sweep", "pending"}) BY <1>3, <1>11 DEF Withdraw
  <2>2. Grown /\ Len(stops') = Len(stops) BY <1>1, <2>1, GrownBy
  <2>3. EvidenceInv' BY <1>1, <1>6, <1>7, <1>8, <1>11, <2>2, WithdrawnSide
  <2>4. FreshInv' BY <1>4, <1>11 DEF FreshInv
  <2>5. StaleInv' /\ stale' \subseteq {"sweep", "pending"} /\ sweep' \in Sweeps
    BY <1>1, <1>4, <1>7, <1>8, <1>11, <2>1, WithdrawnStale
  <2> QED BY <1>1, <1>4, <1>7, <1>9, <2>2, <2>3, <2>4, <2>5, HandlerTail
<1> QED BY <1>10, <1>11

LEMMA DetectKeeps == ASSUME StopIInv, Detect PROVE StopIInv'
<1>1. plant \in PumpSources BY DEF StopIInv, StopShape, PollShape
<1>2. /\ ConfirmSource(plant) /\ MayBegin /\ UNCHANGED <<owner, known, journal, target, hour, plant>>
  BY DEF Detect, MayBegin
<1> QED BY <1>1, <1>2, ConfirmKeeps

LEMMA SelectKeeps == ASSUME StopIInv, Select PROVE StopIInv'
<1>1. plant \in PumpSources BY DEF StopIInv, StopShape, PollShape
<1>2. /\ ConfirmSource(plant) /\ MayBegin /\ UNCHANGED <<owner, known, journal, target, hour, plant>>
  BY DEF Select
<1> QED BY <1>1, <1>2, ConfirmKeeps

-----------------------------------------------------------------------------
(* Boots *)

LEMMA StartIn ==
  /\ Idle \in Owners /\ Idle.pc = "idle" /\ Idle.receipt = NoReceipt
  /\ Unbound \in Checkups /\ Unbound.source = NoSource /\ Unbound.gen = 0
  /\ Unbound.pending = NoPending /\ NoSweep \in Sweeps /\ ~NoSweep.on
<1>1. Nothing \in Sums BY SumsIn
<1>2. NoRecord \in Records BY <1>1 DEF NoRecord, Records, Kinds, Ids, Srcs
<1>3. NoReceipt \in Receipts BY DEF NoReceipt, Receipts, Kinds
<1>4. Idle \in Owners BY <1>2, <1>3 DEF Idle, Owners
<1>5. Unbound \in Checkups BY NothingIn DEF Unbound, Checkups, Srcs
<1> QED BY <1>4, <1>5, NothingIn DEF Idle, Unbound, NoSweep

(* A boot keeps of the evidence what no fence has cut off.                  *)
LEMMA RebootKeeps == ASSUME StopIInv, Reboot PROVE StopIInv'
<1>1. /\ owner' = Idle /\ known' = Indexed(journal) /\ checkup' = Unbound /\ target' = 1
      /\ sweep' = NoSweep /\ plant' = plant /\ stale' = {} /\ journal' = journal /\ hour' = hour
      /\ store' = Started(store.enabled, store.id.consent)
  BY DEF Reboot
<1>0. /\ StopShape /\ EvidenceInv /\ store \in Stores /\ stops \in Seq(Seen) /\ Len(stops) <= MaxStops
      /\ journal \in Seq(Records) /\ plant \in PumpSources
  BY DEF StopIInv, StopShape, StoreShape, FlashShape, PollShape, GhostShape
<1>a. Len(stops) \in Nat /\ DOMAIN stops = 1 .. Len(stops) BY <1>0
<1>2. /\ store' \in Stores /\ Empty(store') /\ store'.gen = 0 /\ ~store'.confirmed
      /\ ~store'.sealed /\ ~store'.blocked /\ ~store'.moved
  <2>1. store.enabled \in BOOLEAN /\ store.id.consent \in Nat BY <1>0 DEF Stores, Ids
  <2>2. PICK on \in BOOLEAN : on = store.enabled BY <2>1
  <2>3. store' = Started(on, store.id.consent) BY <1>1, <2>2
  <2> QED BY <2>1, <2>3, StartedIn
<1>3. /\ stops' \in Seq(Seen) /\ Len(stops') = Len(stops) /\ DOMAIN stops' = DOMAIN stops
      /\ \A e \in DOMAIN stops : /\ stops'[e].id = stops[e].id
                                 /\ (stops'[e].fenced <=> stops[e].fenced)
                                 /\ (stops'[e].gone <=> stops[e].fenced)
  <2> DEFINE new(i) == [stops[i] EXCEPT !.gone = stops[i].fenced, !.here = FALSE]
  <2>1. \A i \in 1 .. Len(stops) : stops[i] \in Seen BY <1>0
  <2>2. \A i \in 1 .. Len(stops) :
          /\ new(i) \in Seen /\ new(i).id = stops[i].id /\ (new(i).fenced <=> stops[i].fenced)
          /\ (new(i).gone <=> stops[i].fenced)
    BY <2>1 DEF Seen
  <2>3. stops' = [i \in 1 .. Len(stops) |-> new(i)] BY <1>a DEF Reboot
  <2> HIDE DEF new
  <2>4. stops' \in [1 .. Len(stops) -> Seen] BY <2>2, <2>3
  <2>5. stops' \in Seq(Seen) /\ Len(stops') = Len(stops) /\ DOMAIN stops' = 1 .. Len(stops)
    BY <1>a, <2>4
  <2>6. \A i \in 1 .. Len(stops) : stops'[i] = new(i) BY <2>3
  <2> QED BY <1>a, <2>2, <2>5, <2>6
<1>4. known' = DOMAIN journal BY <1>0, <1>1 DEF EvidenceInv, JournalInv, Indexed
<1>5. JournalInv' BY <1>0, <1>1, <1>3 DEF EvidenceInv, JournalInv, Holds
<1>6. \A e \in DOMAIN stops : Cut(e, DOMAIN journal) => Cut(e, DOMAIN journal)' /\ Cut(e, known)'
  BY <1>1, <1>3, <1>4 DEF Cut, Holds, Covered
<1>7. EvidenceInv'
  <2>1. LiveInv' BY <1>2 DEF LiveInv, Empty
  <2>2. EpochInv' BY <1>1, <1>2, StartIn DEF EpochInv, Captured, Carrying
  <2>3. FenceInv'
    <3>1. \A e \in DOMAIN stops : stops[e].fenced => Cut(e, DOMAIN journal)
      BY <1>0 DEF EvidenceInv, FenceInv
    <3> QED BY <1>3, <1>6, <3>1 DEF FenceInv
  <2>4. ClaimInv' BY <1>1, StartIn DEF ClaimInv
  <2> QED BY <1>5, <2>1, <2>2, <2>3, <2>4 DEF EvidenceInv
<1>8. StopShape'
  BY <1>0, <1>1, <1>2, <1>3, <1>4, StartIn DEF StopShape, StoreShape, FlashShape, PollShape, GhostShape
<1>9. SourceInv' BY <1>1, <1>2, StartIn DEF SourceInv
<1>10. FreshInv' BY <1>0, <1>1, <1>3, <1>6, StartIn DEF FreshInv, Captured, EvidenceInv, FenceInv
<1>11. StaleInv' BY <1>1, StartIn DEF StaleInv
<1>12. PendingInv'
  <2>1. Pends' = 0 BY <1>1, StartIn DEF Pends
  <2> QED BY <1>0, <1>1, <1>a, <1>3, <2>1, StartIn, Bounds DEF PendingInv
<1> QED BY <1>7, <1>8, <1>9, <1>10, <1>11, <1>12 DEF StopIInv, CheckupInv

LEMMA StopInitIInv == ASSUME StopInit PROVE StopIInv
<1>1. /\ owner = Idle /\ journal = <<>> /\ known = Indexed(journal) /\ checkup = Unbound
      /\ target = 1 /\ sweep = NoSweep /\ plant = FirstPlant /\ hour = 1 /\ stops = <<>> /\ stale = {}
      /\ store = Started(TRUE, 0)
  BY DEF StopInit
<1>2. /\ store \in Stores /\ Empty(store) /\ store.gen = 0 /\ ~store.confirmed
      /\ ~store.sealed /\ ~store.blocked /\ ~store.moved
  <2>1. PICK on \in BOOLEAN : on = TRUE OBVIOUS
  <2>2. store = Started(on, 0) BY <1>1, <2>1, Zenon
  <2> QED BY <2>2, StartedIn
<1>3. /\ stops \in Seq(Seen) /\ Len(stops) = 0 /\ DOMAIN stops = {}
      /\ journal \in Seq(Records) /\ DOMAIN journal = {}
  BY <1>1
<1>4. known = {} BY <1>1, <1>3 DEF Indexed
<1>5. EvidenceInv
  <2>1. LiveInv BY <1>2 DEF LiveInv, Empty
  <2>2. EpochInv BY <1>1, <1>2, StartIn DEF EpochInv, Captured, Carrying
  <2>3. JournalInv /\ FenceInv BY <1>3 DEF JournalInv, FenceInv
  <2>4. ClaimInv BY <1>1, StartIn DEF ClaimInv
  <2> QED BY <2>1, <2>2, <2>3, <2>4 DEF EvidenceInv
<1>6. StopShape
  <2>1. {} \subseteq {"sweep", "pending"} /\ FirstPlant \in PumpSources /\ 0 <= MaxStops
    BY StopAssumption, Bounds
  <2>2. StoreShape
    <3>1. hour \in Nat \ {0} BY <1>1
    <3>2. owner \in Owners BY <1>1, StartIn
    <3> QED BY <1>2, <3>1, <3>2 DEF StoreShape
  <2>3. FlashShape BY <1>3, <1>4 DEF FlashShape
  <2>4. PollShape BY <1>1, <2>1, StartIn DEF PollShape
  <2>5. stale \subseteq {"sweep", "pending"} BY <1>1, <2>1
  <2>6. GhostShape BY <1>3, <2>1, <2>5 DEF GhostShape
  <2> QED BY <2>2, <2>3, <2>4, <2>6 DEF StopShape
<1>7. SourceInv BY <1>1, <1>2, StartIn DEF SourceInv
<1>8. FreshInv BY <1>1, <1>3, StartIn DEF FreshInv, Captured
<1>9. StaleInv BY <1>1, StartIn DEF StaleInv
<1>10. PendingInv
  <2>1. Pends = 0 BY <1>1, StartIn DEF Pends
  <2> QED BY <1>1, <1>3, <2>1, StartIn, Bounds DEF PendingInv
<1> QED BY <1>5, <1>6, <1>7, <1>8, <1>9, <1>10 DEF StopIInv, CheckupInv

-----------------------------------------------------------------------------
(* Steps of the flash owner *)

(* What is left to show of a step of the owner.                             *)
LEMMA OwnerTail ==
  ASSUME StopIInv, EvidenceInv', FreshInv', store' \in Stores, store'.id = store.id,
         store'.gen = store.gen, store'.enabled <=> store.enabled,
         store'.confirmed <=> store.confirmed, store'.sealed => store.sealed,
         owner' \in Owners, journal' \in Seq(Records), known' \subseteq DOMAIN journal',
         stops' \in Seq(Seen), Len(stops') = Len(stops), UNCHANGED ownerSide
  PROVE  StopIInv'
<1>1. StopShape /\ SourceInv BY DEF StopIInv, CheckupInv
<1>2. UNCHANGED <<checkup, target, plant, sweep, hour, stale>> BY DEF ownerSide
<1>3. StopShape' BY <1>1, <1>2 DEF StopShape, StoreShape, FlashShape, PollShape, GhostShape
<1>4. SourceInv' BY <1>1, <1>2 DEF SourceInv
<1>5. StaleInv' /\ PendingInv' BY <1>2 DEF StopIInv, CheckupInv, StaleInv, PendingInv, Pends
<1> QED BY <1>3, <1>4, <1>5 DEF StopIInv, CheckupInv

(* A step that leaves the owner without a transaction.                      *)
LEMMA RestSide ==
  ASSUME StopShape, EvidenceInv, Grown, UNCHANGED <<known, journal>>, LiveInv',
         owner'.pc \in {"idle", "rebuild"}, owner'.receipt = NoReceipt,
         owner'.pc = "rebuild" => store'.moved \/ ~store'.blocked,
         owner'.pc = "rebuild" /\ ~store'.confirmed => store'.moved,
         store'.moved => store'.blocked, store'.enabled /\ store'.blocked => store'.barrier,
         store'.confirmed => store'.enabled,
         ~store'.blocked => Unbarred /\ store'.id = store.id
                            /\ \A e \in DOMAIN stops : stops'[e].gone => stops[e].gone
  PROVE  EvidenceInv'
<1>1. /\ JournalInv' /\ DOMAIN stops \subseteq DOMAIN stops' /\ DOMAIN stops' \subseteq Stops
      /\ \A e \in DOMAIN stops : /\ Cut(e, known) => Cut(e, known)'
                                 /\ Cut(e, DOMAIN journal) => Cut(e, DOMAIN journal)'
      /\ \A e \in DOMAIN stops' : e \notin DOMAIN stops => Cut(e, known)' /\ Cut(e, DOMAIN journal)'
  BY GrownKeeps DEF EvidenceInv
<1>2. EpochInv' BY DEF EpochInv, Captured, Carrying
<1>3. FenceInv'
  <2>1. Unbarred' => ~store'.blocked BY DEF Unbarred, NoReceipt
  <2>2. \A e \in DOMAIN stops : stops[e].fenced => stops[e].gone /\ Cut(e, DOMAIN journal)
    BY DEF EvidenceInv, FenceInv
  <2>3. Unbarred => \A e \in DOMAIN stops : stops[e].gone /\ stops[e].id = store.id => Cut(e, known)
    BY DEF EvidenceInv, FenceInv
  <2>4. \A e \in DOMAIN stops' : stops'[e].fenced => stops'[e].gone /\ Cut(e, DOMAIN journal)'
    BY <1>1, <2>2 DEF Grown
  <2>5. ~store'.blocked =>
          \A e \in DOMAIN stops' : stops'[e].gone /\ stops'[e].id = store'.id => Cut(e, known)'
    BY <1>1, <2>3 DEF Grown
  <2> QED BY <2>1, <2>4, <2>5 DEF FenceInv
<1>4. ClaimInv' BY DEF ClaimInv
<1> QED BY <1>1, <1>2, <1>3, <1>4 DEF EvidenceInv

(* The owner takes the epoch of the store that it works for.                *)
LEMMA TakenIn ==
  ASSUME NEW s \in Stores
  PROVE  LET t == [s EXCEPT !.moved = FALSE]
         IN  /\ t \in Stores /\ Within(s, t) /\ ~t.moved /\ t.id = s.id /\ t.gen = s.gen
             /\ (t.enabled <=> s.enabled) /\ (t.confirmed <=> s.confirmed)
             /\ (t.sealed <=> s.sealed) /\ (t.blocked <=> s.blocked) /\ (t.barrier <=> s.barrier)
<1> DEFINE t == [s EXCEPT !.moved = FALSE]
<1>1. t \in Stores BY DEF Stores
<1>2. /\ t.open = s.open /\ t.queue = s.queue /\ t.done = s.done
      /\ ~t.moved /\ t.id = s.id /\ t.gen = s.gen
      /\ (t.enabled <=> s.enabled) /\ (t.confirmed <=> s.confirmed)
      /\ (t.sealed <=> s.sealed) /\ (t.blocked <=> s.blocked) /\ (t.barrier <=> s.barrier)
  BY DEF Stores
<1> HIDE DEF t
<1>3. Within(s, t) BY <1>2 DEF Within, Live
<1> QED BY <1>1, <1>2, <1>3 DEF t

LEMMA WithinLive ==
  ASSUME LiveInv, Within(store, store'), store'.id = store.id, store'.confirmed <=> store.confirmed,
         stops' = stops
  PROVE  LiveInv'
BY DEF LiveInv, Within, Valid

LEMMA ServiceBeginKeeps == ASSUME StopIInv, ServiceBegin PROVE StopIInv'
<1>1. /\ StopShape /\ EvidenceInv /\ LiveInv /\ EpochInv /\ SourceInv /\ store \in Stores
      /\ owner \in Owners /\ hour \in Nat
      /\ store.enabled /\ store.confirmed /\ owner.pc = "idle" /\ store.clock # "bad"
      /\ stops \in Seq(Seen) /\ journal \in Seq(Records) /\ known \subseteq DOMAIN journal
      /\ stops' = WithdrawnBy(store, stops) /\ UNCHANGED <<known, journal>> /\ UNCHANGED ownerSide
  BY DEF StopIInv, StopShape, StoreShape, FlashShape, GhostShape, CheckupInv, EvidenceInv,
         ServiceBegin
<1>2. checkup.source # NoSource /\ checkup' = checkup BY <1>1 DEF SourceInv, ownerSide
<1>3. FreshInv' BY <1>2 DEF FreshInv
<1>4. CASE store.clock = "moved"
  <2>1. store' = InvalidateClock(store) /\ owner' = owner /\ stops' = Withdrawn(stops)
    BY <1>1, <1>4, ClockedIn DEF ServiceBegin, Dated, WithdrawnBy
  <2>2. Grown /\ Len(stops') = Len(stops) /\ stops' \in Seq(Seen) BY <1>1, <2>1, GrownBy
  <2>3. /\ store' \in Stores /\ Empty(store') /\ (store'.moved <=> Captured)
        /\ store'.id = store.id /\ store'.gen = store.gen /\ (store'.enabled <=> store.enabled)
        /\ (store'.confirmed <=> store.confirmed) /\ store'.blocked /\ ~store'.sealed
        /\ (store'.barrier <=> store.enabled /\ store.confirmed)
    BY <1>1, <2>1, InvalidateIn
  <2>4. EvidenceInv' BY <1>1, <2>1, <2>2, <2>3, WithdrawnSide
  <2> QED BY <1>1, <1>3, <2>1, <2>2, <2>3, <2>4, OwnerTail
<1>5. CASE store.clock # "moved"
  <2> DEFINE a == ApplyReceipt(store, owner.receipt)
             s == ExpireLive(a)
             due == owner.rebuild \/ s.restore \/ Expired(s)
  <2>1. Dated(store) /\ stops' = stops /\ Clocked(store) = store
    BY <1>1, <1>5, ClockedIn DEF Dated, WithdrawnBy, Stores
  <2>2. /\ store' = [s EXCEPT !.moved = FALSE]
        /\ owner' = IF due /\ ~s.blocked
                    THEN [owner EXCEPT !.receipt = NoReceipt, !.pc = "rebuild", !.hour = hour]
                    ELSE [owner EXCEPT !.receipt = NoReceipt]
    BY <2>1 DEF ServiceBegin
  <2>3. owner.receipt \in Receipts BY <1>1 DEF Owners
  <2> DEFINE sealed == owner.receipt.kind = "fence" /\ owner.receipt.ok /\ ~store.moved
  <2>4. /\ a \in Stores /\ Within(store, a) /\ a.id = store.id /\ a.gen = store.gen
        /\ (a.enabled <=> store.enabled) /\ (a.confirmed <=> store.confirmed)
        /\ (a.sealed <=> store.sealed)
        /\ (a.blocked <=> store.blocked /\ ~sealed) /\ (a.barrier <=> store.barrier /\ ~sealed)
    BY <1>1, <2>3, ReceiptIn
  <2> HIDE DEF a
  <2>5. Tame(a, s) BY <1>1, <2>4, ExpireIn
  <2>6. s \in Stores BY <2>5 DEF Tame
  <2> HIDE DEF s, due
  <2>7. /\ store' \in Stores /\ Within(s, store') /\ ~store'.moved /\ store'.id = s.id
        /\ store'.gen = s.gen /\ (store'.enabled <=> s.enabled) /\ (store'.confirmed <=> s.confirmed)
        /\ (store'.sealed <=> s.sealed) /\ (store'.blocked <=> s.blocked)
        /\ (store'.barrier <=> s.barrier)
    BY <2>2, <2>6, TakenIn
  <2>8. /\ Within(store, store') /\ store'.id = store.id /\ store'.gen = store.gen
        /\ (store'.enabled <=> store.enabled) /\ (store'.confirmed <=> store.confirmed)
        /\ (store'.sealed => store.sealed)
        /\ (store'.blocked <=> store.blocked /\ ~sealed) /\ (store'.barrier <=> store.barrier /\ ~sealed)
    BY <2>4, <2>5, <2>7 DEF Tame, Same, Within
  <2>9. NoReceipt \in Receipts BY DEF NoReceipt, Receipts, Kinds
  <2>10. /\ owner' \in Owners /\ owner'.pc \in {"idle", "rebuild"} /\ owner'.receipt = NoReceipt
         /\ owner'.pc = "rebuild" => ~s.blocked
    <3>1. CASE due /\ ~s.blocked
      <4>1. owner' = [owner EXCEPT !.receipt = NoReceipt, !.pc = "rebuild", !.hour = hour]
        BY <2>2, <3>1
      <4> QED BY <1>1, <2>9, <3>1, <4>1 DEF Owners
    <3>2. CASE ~(due /\ ~s.blocked)
      <4>1. owner' = [owner EXCEPT !.receipt = NoReceipt] BY <2>2, <3>2
      <4> QED BY <1>1, <2>9, <4>1 DEF Owners
    <3> QED BY <3>1, <3>2
  <2>11. Grown /\ Len(stops') = Len(stops) BY <1>1, <2>1, GrownBy
  <2>12. LiveInv' BY <1>1, <2>1, <2>8, WithinLive
  <2>13. ~store'.blocked => Unbarred
    <3>1. sealed => owner.receipt = [kind |-> "fence", ok |-> TRUE] BY <2>3 DEF Receipts
    <3> QED BY <2>8, <3>1 DEF Unbarred
  <2> HIDE DEF sealed
  <2>14. store'.enabled /\ store'.blocked => store'.barrier BY <1>1, <2>8 DEF EpochInv
  <2>15. EvidenceInv'
    BY <1>1, <2>1, <2>7, <2>8, <2>10, <2>11, <2>12, <2>13, <2>14, RestSide
  <2>16. journal' \in Seq(Records) /\ known' \subseteq DOMAIN journal' /\ stops' \in Seq(Seen)
    BY <1>1, <2>1
  <2> QED BY <1>1, <1>3, <2>7, <2>8, <2>10, <2>11, <2>15, <2>16, OwnerTail
<1> QED BY <1>4, <1>5

LEMMA PublishBusyKeeps == ASSUME StopIInv, PublishBusy PROVE StopIInv'
<1>1. /\ StopShape /\ EvidenceInv /\ LiveInv /\ EpochInv /\ store \in Stores /\ owner \in Owners
      /\ stops \in Seq(Seen) /\ journal \in Seq(Records) /\ known \subseteq DOMAIN journal
      /\ owner.pc = "rebuild" /\ owner.receipt = NoReceipt /\ FreshInv
      /\ owner' = [owner EXCEPT !.pc = "idle", !.hour = 0]
      /\ UNCHANGED <<store, stops, known, journal>> /\ UNCHANGED ownerSide
  BY DEF StopIInv, StopShape, StoreShape, FlashShape, GhostShape, EvidenceInv, EpochInv,
         CheckupInv, PublishBusy, Released
<1>2. owner' \in Owners /\ owner'.pc = "idle" /\ owner'.receipt = NoReceipt BY <1>1 DEF Owners
<1>3. Grown BY <1>1, GrownBy
<1>4. LiveInv' BY <1>1 DEF LiveInv, Valid
<1>5. EvidenceInv' BY <1>1, <1>2, <1>3, <1>4, RestSide DEF EpochInv, Unbarred
<1>6. Captured BY <1>1 DEF Captured
<1>7. FreshInv' BY <1>1, <1>6 DEF FreshInv, ownerSide
<1> QED BY <1>1, <1>2, <1>5, <1>7, OwnerTail

(* What the index tells of fences and of an hour's newest record.           *)
LEMMA FenceOfIn ==
  ASSUME FlashShape, NEW id
  PROVE  /\ FenceOf(id) \in Nat
         /\ \A m \in known : journal[m].kind = "fence" /\ journal[m].id = id => m <= FenceOf(id)
<1> DEFINE S == {n \in known : journal[n].kind = "fence" /\ journal[n].id = id}
           T == {0} \cup S
<1>0. journal \in Seq(Records) /\ known \subseteq DOMAIN journal BY DEF FlashShape
<1>1. PICK k \in Nat : known \subseteq 1 .. k
  <2>1. Len(journal) \in Nat /\ DOMAIN journal = 1 .. Len(journal) BY <1>0
  <2> QED BY <1>0, <2>1
<1>2. T \in SUBSET (0 .. k) /\ T # {}
  <2>1. \A n \in T : n = 0 \/ n \in known OBVIOUS
  <2>2. 0 \in T OBVIOUS
  <2> HIDE DEF T
  <2>3. ASSUME NEW n \in T PROVE n \in 0 .. k
    <3>1. n = 0 \/ n \in 1 .. k BY <1>1, <2>1
    <3>2. \A x \in 1 .. k : x \in 0 .. k OBVIOUS
    <3>3. 0 \in 0 .. k OBVIOUS
    <3> QED BY <3>1, <3>2, <3>3
  <2> QED BY <2>2, <2>3
<1>3. FenceOf(id) = Max(T) BY DEF FenceOf
<1>4. \A m \in known : journal[m].kind = "fence" /\ journal[m].id = id => m \in T OBVIOUS
<1> HIDE DEF T
<1>5. Max(T) \in T /\ \A m \in T : m =< Max(T) BY <1>1, <1>2, MaxIn
<1>6. Max(T) \in Nat
  <2>1. Max(T) \in 0 .. k BY <1>2, <1>5
  <2>2. \A x \in 0 .. k : x \in Nat OBVIOUS
  <2> QED BY <2>1, <2>2
<1> QED BY <1>3, <1>4, <1>5, <1>6

LEMMA NewestIn ==
  ASSUME FlashShape, NEW h, NewestOf(h) # 0
  PROVE  NewestOf(h) \in HourRecords /\ journal[NewestOf(h)].hour = h
<1> DEFINE S == {n \in HourRecords : journal[n].hour = h}
           T == {0} \cup S
<1>0. journal \in Seq(Records) /\ known \subseteq DOMAIN journal BY DEF FlashShape
<1>1. PICK k \in Nat : known \subseteq 1 .. k
  <2>1. Len(journal) \in Nat /\ DOMAIN journal = 1 .. Len(journal) BY <1>0
  <2> QED BY <1>0, <2>1
<1>2. T \in SUBSET (0 .. k) /\ T # {}
  <2>1. \A n \in T : n = 0 \/ n \in known BY DEF HourRecords
  <2>2. 0 \in T OBVIOUS
  <2> HIDE DEF T
  <2>3. ASSUME NEW n \in T PROVE n \in 0 .. k
    <3>1. n = 0 \/ n \in 1 .. k BY <1>1, <2>1
    <3>2. \A x \in 1 .. k : x \in 0 .. k OBVIOUS
    <3>3. 0 \in 0 .. k OBVIOUS
    <3> QED BY <3>1, <3>2, <3>3
  <2> QED BY <2>2, <2>3
<1>3. NewestOf(h) = Max(T) BY DEF NewestOf
<1>4. \A n \in T : n = 0 \/ (n \in HourRecords /\ journal[n].hour = h) OBVIOUS
<1> HIDE DEF T
<1>5. Max(T) \in T BY <1>1, <1>2, MaxIn
<1> QED BY <1>3, <1>4, <1>5

(* A record beyond the fence of its identity holds no stop that a fence of  *)
(* the index cuts off.                                                      *)
LEMMA BeyondFence ==
  ASSUME StopShape, JournalInv, NEW n \in known, NEW e \in Stops, Holds(n, e),
         n > FenceOf(journal[n].id)
  PROVE  e \in DOMAIN stops /\ stops[e].id = journal[n].id /\ ~Cut(e, known)
<1>1. n \in DOMAIN journal /\ FlashShape /\ n \in Nat BY DEF StopShape, FlashShape
<1>2. e \in DOMAIN stops /\ stops[e].id = journal[n].id BY <1>1 DEF JournalInv
<1>3. ASSUME Cut(e, known) PROVE FALSE
  <2>1. PICK m \in known : n < m /\ journal[m].kind = "fence" /\ journal[m].id = stops[e].id
    BY <1>1, <1>3 DEF Cut, Covered
  <2>2. m <= FenceOf(journal[n].id) /\ FenceOf(journal[n].id) \in Nat /\ m \in Nat
    BY <1>1, <1>2, <2>1, FenceOfIn DEF FlashShape
  <2> QED BY <1>1, <2>1, <2>2
<1> QED BY <1>2, <1>3

(* What a rebuild sums up is beyond the fence, and of the identity asked.   *)
LEMMA RebuiltIn ==
  ASSUME StopShape, JournalInv, NEW id, NEW now \in Nat, NEW unread
  PROVE  /\ Rebuilt(id, now, unread) \in Dones
         /\ \A e \in Stops : Rebuilt(id, now, unread).sum[e] > 0 =>
              e \in DOMAIN stops /\ stops[e].id = id /\ ~Cut(e, known)
<1> DEFINE R == {n \in Restorable(id, now) : n # unread /\ journal[n].id = id}
           f == [n \in R |-> journal[n].sum]
           H == {journal[n].hour : n \in R}
           expiry == IF R = {} THEN 0 ELSE Min(H) + StopWindow
           lost == \E n \in R : journal[n].lost
           partial == unread \in Restorable(id, now)
           r == Rebuilt(id, now, unread)
<1>1. r = [sum |-> Total(f), expiry |-> expiry, lost |-> lost, partial |-> partial]
  BY DEF Rebuilt
<1>2. /\ R \subseteq known /\ known \subseteq 1 .. Len(journal) /\ Len(journal) \in Nat
      /\ journal \in Seq(Records)
  BY DEF Restorable, HourRecords, StopShape, FlashShape
<1>3. IsFiniteSet(R)
  <2>1. IsFiniteSet(1 .. Len(journal)) BY <1>2, FS_Interval
  <2>2. R \subseteq 1 .. Len(journal) BY <1>2
  <2> HIDE DEF R
  <2> QED BY <2>1, <2>2, FS_Subset
<1>4. \A n \in R : journal[n] \in Records
  <2>1. \A n \in R : n \in 1 .. Len(journal) BY <1>2
  <2> HIDE DEF R
  <2> QED BY <1>2, <2>1
<1>5. f \in [R -> Sums] BY <1>4 DEF Records
<1>6. Total(f) \in Sums
  <2> HIDE DEF f, R
  <2> QED BY <1>3, <1>5, TotalIn
<1>7. expiry \in Nat
  <2>1. CASE R = {} BY <2>1
  <2>2. CASE R # {}
    <3>1. H \in SUBSET Nat /\ H # {} BY <1>4, <2>2 DEF Records
    <3> HIDE DEF H
    <3>2. Min(H) \in Nat BY <3>1, MinIn
    <3> QED BY <2>2, <3>2, Bounds
  <2> QED BY <2>1, <2>2
<1>8. lost \in BOOLEAN /\ partial \in BOOLEAN OBVIOUS
<1>9. ASSUME NEW e \in Stops, Total(f)[e] > 0
      PROVE  e \in DOMAIN stops /\ stops[e].id = id /\ ~Cut(e, known)
  <2>1. \A n \in R : f[n] = journal[n].sum OBVIOUS
  <2>2. \A n \in R : journal[n].id = id /\ n > FenceOf(id) BY DEF Restorable
  <2> HIDE DEF f, R
  <2>3. PICK n \in R : f[n][e] > 0 BY <1>5, <1>9, TotalPositive
  <2>4. n \in known /\ Holds(n, e) /\ n > FenceOf(journal[n].id) /\ journal[n].id = id
    BY <1>2, <2>1, <2>2, <2>3 DEF Holds
  <2> QED BY <2>4, BeyondFence
<1> HIDE DEF f, expiry, lost, partial, r
<1>10. r \in Dones BY <1>1, <1>6, <1>7, <1>8 DEF Dones
<1>11. r.sum = Total(f) BY <1>1
<1> QED BY <1>9, <1>10, <1>11 DEF r

(* The sum published as the store's own.                                    *)
LEMMA PublishedIn ==
  ASSUME NEW s \in Stores, NEW r \in Dones, NEW t,
         t = [s EXCEPT !.done = r, !.restore = FALSE, !.lost = @ \/ r.lost]
  PROVE  /\ t \in Stores /\ Same(s, t)
         /\ \A e \in Stops : Live(t, e) => Live(s, e) \/ r.sum[e] > 0
<1> DEFINE lost == s.lost \/ r.lost
<1>1. lost \in BOOLEAN OBVIOUS
<1>2. t = [s EXCEPT !.done = r, !.restore = FALSE, !.lost = lost] BY DEF Stores
<1> HIDE DEF lost
<1>3. t \in Stores BY <1>1, <1>2 DEF Stores
<1>4. t.open = s.open /\ t.queue = s.queue /\ t.done = r /\ Same(s, t) BY <1>2 DEF Stores, Same
<1> QED BY <1>3, <1>4 DEF Live

LEMMA RestoreIn ==
  ASSUME NEW s \in Stores
  PROVE  Tame(s, [s EXCEPT !.restore = TRUE])
<1> DEFINE t == [s EXCEPT !.restore = TRUE]
<1>1. t \in Stores BY DEF Stores
<1>2. t.open = s.open /\ t.queue = s.queue /\ t.done = s.done /\ Same(s, t) BY DEF Stores, Same
<1> HIDE DEF t
<1> QED BY <1>1, <1>2 DEF t, Tame, Within, Live

LEMMA ServicePublishKeeps == ASSUME StopIInv, ServicePublish PROVE StopIInv'
<1>1. /\ StopShape /\ EvidenceInv /\ LiveInv /\ EpochInv /\ JournalInv /\ FenceInv /\ SourceInv
      /\ store \in Stores /\ owner \in Owners /\ hour \in Nat
      /\ stops \in Seq(Seen) /\ journal \in Seq(Records) /\ known \subseteq DOMAIN journal
      /\ owner.pc = "rebuild" /\ owner.receipt = NoReceipt /\ owner.hour \in Nat
      /\ UNCHANGED <<known, journal>> /\ UNCHANGED ownerSide
  BY DEF StopIInv, StopShape, StoreShape, FlashShape, GhostShape, EvidenceInv, EpochInv,
         CheckupInv, ServicePublish, Owners
<1>2. PICK unread :
        LET r     == Rebuilt(store.id, owner.hour, unread)
            late  == ~Dated(store) \/ (r.expiry # 0 /\ hour >= r.expiry)
            retry == [ExpireLive(Clocked(store)) EXCEPT !.restore = TRUE]
        IN  IF store.moved
            THEN UNCHANGED stops /\ store' = [store EXCEPT !.moved = FALSE] /\ owner' = Released
            ELSE /\ store' = IF late THEN retry
                             ELSE [Clocked(store) EXCEPT !.done = r, !.restore = FALSE,
                                                         !.lost = @ \/ r.lost]
                 /\ stops' = WithdrawnBy(store, stops)
                 /\ owner' = [Released EXCEPT !.rebuild = late \/ unread # 0]
  BY DEF ServicePublish
<1>3. Captured BY <1>1 DEF Captured
<1>4. FreshInv'
  <2>1. FreshInv BY DEF StopIInv, CheckupInv
  <2> QED BY <1>1, <1>3, <2>1 DEF FreshInv, ownerSide
<1>5. Released \in Owners /\ Released.pc = "idle" /\ Released.receipt = NoReceipt
  BY <1>1 DEF Released, Owners
<1>6. journal' \in Seq(Records) /\ known' \subseteq DOMAIN journal' BY <1>1
<1>7. CASE store.moved
  <2>1. store' = [store EXCEPT !.moved = FALSE] /\ owner' = Released /\ stops' = stops
    BY <1>2, <1>7
  <2>2. /\ store' \in Stores /\ Within(store, store') /\ ~store'.moved /\ store'.id = store.id
        /\ store'.gen = store.gen /\ (store'.enabled <=> store.enabled)
        /\ (store'.confirmed <=> store.confirmed) /\ (store'.sealed <=> store.sealed)
        /\ (store'.blocked <=> store.blocked) /\ (store'.barrier <=> store.barrier)
    BY <1>1, <2>1, TakenIn
  <2>3. Grown /\ Len(stops') = Len(stops) BY <1>1, <2>1, GrownBy
  <2>4. LiveInv' BY <1>1, <2>1, <2>2, WithinLive
  <2>5. EvidenceInv'
    BY <1>1, <1>5, <2>1, <2>2, <2>3, <2>4, RestSide DEF EpochInv, Unbarred
  <2> QED BY <1>1, <1>4, <1>5, <1>6, <2>1, <2>2, <2>3, <2>5, OwnerTail
<1>8. CASE ~store.moved
  <2> DEFINE r     == Rebuilt(store.id, owner.hour, unread)
             late  == ~Dated(store) \/ (r.expiry # 0 /\ hour >= r.expiry)
             retry == [ExpireLive(Clocked(store)) EXCEPT !.restore = TRUE]
             again == late \/ unread # 0
  <2>1. /\ store' = IF late THEN retry
                    ELSE [Clocked(store) EXCEPT !.done = r, !.restore = FALSE, !.lost = @ \/ r.lost]
        /\ stops' = WithdrawnBy(store, stops)
        /\ owner' = [Released EXCEPT !.rebuild = again]
    BY <1>2, <1>8
  <2>2. store.confirmed /\ ~store.blocked BY <1>1, <1>3, <1>8 DEF EpochInv
  <2>3. r \in Dones /\ \A e \in Stops : r.sum[e] > 0 => Valid(e)
    <3>1. /\ r \in Dones
          /\ \A e \in Stops : r.sum[e] > 0 =>
               e \in DOMAIN stops /\ stops[e].id = store.id /\ ~Cut(e, known)
      BY <1>1, RebuiltIn
    <3> HIDE DEF r
    <3>2. \A e \in DOMAIN stops : stops[e].gone /\ stops[e].id = store.id => Cut(e, known)
      BY <1>1, <2>2 DEF FenceInv, Unbarred
    <3> QED BY <3>1, <3>2 DEF Valid
  <2>4. again \in BOOLEAN OBVIOUS
  <2> HIDE DEF r, again
  <2>5. owner' \in Owners /\ owner'.pc = "idle" /\ owner'.receipt = NoReceipt
    BY <1>5, <2>1, <2>4 DEF Owners
  <2>6. CASE store.clock = "moved"
    <3>1. late /\ stops' = Withdrawn(stops) BY <2>1, <2>6 DEF Dated, WithdrawnBy
    <3> DEFINE i == InvalidateClock(store)
               x == ExpireLive(i)
    <3>2. store' = [x EXCEPT !.restore = TRUE] BY <1>1, <2>1, <2>6, <3>1, ClockedIn
    <3> HIDE DEF late
    <3>3. /\ i \in Stores /\ Empty(i) /\ (i.moved <=> Captured)
          /\ i.id = store.id /\ i.gen = store.gen /\ (i.enabled <=> store.enabled)
          /\ (i.confirmed <=> store.confirmed) /\ i.blocked /\ ~i.sealed
          /\ (i.barrier <=> store.enabled /\ store.confirmed)
      BY <1>1, InvalidateIn
    <3> HIDE DEF i
    <3>4. Tame(i, x) BY <1>1, <3>3, ExpireIn
    <3> HIDE DEF x
    <3>5. Tame(x, store') BY <3>2, <3>4, RestoreIn DEF Tame
    <3>6. Tame(i, store') BY <3>4, <3>5, TameTrans
    <3>7. /\ store' \in Stores /\ Empty(store') /\ store'.id = store.id /\ store'.gen = store.gen
          /\ (store'.enabled <=> store.enabled) /\ (store'.confirmed <=> store.confirmed)
          /\ store'.blocked /\ ~store'.sealed
          /\ (store'.barrier <=> store.enabled /\ store.confirmed)
      BY <3>3, <3>6 DEF Tame, Same, Within, Empty
    <3>8. Grown /\ Len(stops') = Len(stops) /\ stops' \in Seq(Seen) BY <1>1, <3>1, GrownBy
    <3>9. LiveInv' BY <3>7 DEF LiveInv, Empty
    <3>10. store'.confirmed => store'.enabled BY <1>1, <3>7 DEF EpochInv
    <3>11. store'.enabled => store'.barrier BY <2>2, <3>7
    <3>12. EvidenceInv' BY <1>1, <2>5, <3>7, <3>8, <3>9, <3>10, <3>11, RestSide
    <3> QED BY <1>1, <1>4, <1>6, <2>5, <3>7, <3>8, <3>12, OwnerTail
  <2>7. CASE store.clock # "moved"
    <3>1. stops' = stops /\ Clocked(store) = store BY <1>1, <2>1, <2>7, ClockedIn DEF WithdrawnBy
    <3>2. /\ store' \in Stores /\ Same(store, store')
          /\ \A e \in Stops : Live(store', e) => Live(store, e) \/ r.sum[e] > 0
      <4>1. CASE late
        <5> DEFINE x == ExpireLive(store)
        <5>1. store' = [x EXCEPT !.restore = TRUE] BY <2>1, <3>1, <4>1
        <5> HIDE DEF late
        <5>2. Tame(store, x) BY <1>1, ExpireIn
        <5> HIDE DEF x
        <5>3. Tame(x, store') BY <5>1, <5>2, RestoreIn DEF Tame
        <5> QED BY <5>2, <5>3, TameTrans DEF Tame, Within
      <4>2. CASE ~late
        <5>1. store' = [store EXCEPT !.done = r, !.restore = FALSE, !.lost = @ \/ r.lost]
          BY <2>1, <3>1, <4>2
        <5> HIDE DEF late
        <5> QED BY <1>1, <2>3, <5>1, PublishedIn
      <4> QED BY <4>1, <4>2
    <3> HIDE DEF late
    <3>3. Grown /\ Len(stops') = Len(stops) BY <1>1, <3>1, GrownBy
    <3>4. LiveInv' BY <1>1, <2>2, <2>3, <3>1, <3>2 DEF LiveInv, Valid, Same
    <3>5. EvidenceInv'
      BY <1>1, <1>8, <2>2, <2>5, <3>1, <3>2, <3>3, <3>4, RestSide DEF EpochInv, Unbarred, Same
    <3>6. stops' \in Seq(Seen) BY <1>1, <3>1
    <3> QED BY <1>1, <1>4, <1>6, <2>5, <3>2, <3>3, <3>5, <3>6, OwnerTail DEF Same
  <2> QED BY <2>6, <2>7
<1> QED BY <1>7, <1>8

(* A step that hands the owner a record to append.                          *)
LEMMA ClaimSide ==
  ASSUME StopShape, EvidenceInv, Grown, UNCHANGED <<known, journal>>, LiveInv',
         owner'.pc = "append", owner'.receipt = NoReceipt, ~store'.moved, store'.confirmed,
         store'.enabled, store'.blocked => store'.barrier,
         owner'.rec.kind \in {"fence", "hour"}, owner'.rec.id = store'.id,
         owner'.rec.kind = "fence" => owner'.rec.sum = Nothing,
         owner'.rec.kind = "hour" =>
           ~store'.blocked /\ \A e \in Stops : owner'.rec.sum[e] > 0 => Live(store', e),
         ~store'.blocked => Unbarred /\ store'.id = store.id
                            /\ \A e \in DOMAIN stops : stops'[e].gone => stops[e].gone
  PROVE  EvidenceInv'
<1>1. /\ JournalInv' /\ DOMAIN stops \subseteq DOMAIN stops' /\ DOMAIN stops' \subseteq Stops
      /\ \A e \in DOMAIN stops : /\ Cut(e, known) => Cut(e, known)'
                                 /\ Cut(e, DOMAIN journal) => Cut(e, DOMAIN journal)'
      /\ \A e \in DOMAIN stops' : e \notin DOMAIN stops => Cut(e, known)' /\ Cut(e, DOMAIN journal)'
  BY GrownKeeps DEF EvidenceInv
<1>2. EpochInv' BY DEF EpochInv, Captured, Carrying
<1>3. \A e \in DOMAIN stops' : stops'[e].fenced => stops'[e].gone /\ Cut(e, DOMAIN journal)'
  BY <1>1 DEF Grown, EvidenceInv, FenceInv
<1>4. ~store'.blocked =>
        \A e \in DOMAIN stops' : stops'[e].gone /\ stops'[e].id = store'.id => Cut(e, known)'
  <2>1. Unbarred => \A e \in DOMAIN stops : stops[e].gone /\ stops[e].id = store.id => Cut(e, known)
    BY DEF EvidenceInv, FenceInv
  <2> QED BY <1>1, <2>1 DEF Grown
<1>5. FenceInv'
  <2>1. Unbarred' => ~store'.blocked BY DEF Unbarred, NoReceipt
  <2> QED BY <1>3, <1>4, <2>1 DEF FenceInv
<1>6. ClaimInv'
  <2>1. \A e \in Stops : owner'.rec.sum[e] > 0 =>
          e \in DOMAIN stops' /\ ~stops'[e].gone /\ stops'[e].id = store'.id
    BY SumsIn DEF LiveInv, Valid
  <2>2. \A e \in Stops : owner'.rec.sum[e] > 0 => ~stops'[e].fenced BY <1>3, <2>1
  <2>3. owner'.rec.kind = "hour" =>
          \A e \in DOMAIN stops' : stops'[e].fenced /\ stops'[e].id = owner'.rec.id => Cut(e, known)'
    BY <1>3, <1>4
  <2> QED BY <2>1, <2>2, <2>3 DEF ClaimInv, Valid
<1> QED BY <1>1, <1>2, <1>5, <1>6 DEF EvidenceInv

(* The queue's entry that the owner claims.                                 *)
LEMMA ClaimIn ==
  ASSUME NEW s \in Stores, NEW i \in Places
  PROVE  LET t == [s EXCEPT !.owed = "hour", !.queue[i].claimed = TRUE, !.moved = FALSE]
         IN  /\ t \in Stores /\ Within(s, t) /\ ~t.moved /\ t.id = s.id /\ t.gen = s.gen
             /\ (t.enabled <=> s.enabled) /\ (t.confirmed <=> s.confirmed)
             /\ (t.sealed <=> s.sealed) /\ (t.blocked <=> s.blocked) /\ (t.barrier <=> s.barrier)
             /\ t.queue[i].sum = s.queue[i].sum
<1> DEFINE entry == [s.queue[i] EXCEPT !.claimed = TRUE]
           q == [s.queue EXCEPT ![i] = entry]
           t == [s EXCEPT !.owed = "hour", !.queue[i].claimed = TRUE, !.moved = FALSE]
<1>1. s.queue \in [Places -> Entries] BY DEF Stores
<1>2. entry \in Entries /\ entry.sum = s.queue[i].sum BY <1>1 DEF Entries
<1>3. t = [s EXCEPT !.owed = "hour", !.queue = q, !.moved = FALSE] BY DEF Stores
<1> HIDE DEF entry, t
<1>4. q \in [Places -> Entries] /\ q[i] = entry /\ \A j \in Places : q[j].sum = s.queue[j].sum
  BY <1>1, <1>2
<1> HIDE DEF q
<1>5. t \in Stores BY <1>3, <1>4 DEF Stores, Kinds
<1>6. /\ t.open = s.open /\ t.queue = q /\ t.done = s.done
      /\ ~t.moved /\ t.id = s.id /\ t.gen = s.gen
      /\ (t.enabled <=> s.enabled) /\ (t.confirmed <=> s.confirmed)
      /\ (t.sealed <=> s.sealed) /\ (t.blocked <=> s.blocked) /\ (t.barrier <=> s.barrier)
  BY <1>3 DEF Stores
<1>7. Within(s, t) /\ t.queue[i].sum = s.queue[i].sum BY <1>4, <1>6 DEF Within, Live
<1> QED BY <1>5, <1>6, <1>7 DEF t

LEMMA OweIn ==
  ASSUME NEW s \in Stores
  PROVE  LET t == [s EXCEPT !.owed = "fence", !.moved = FALSE]
         IN  /\ t \in Stores /\ Within(s, t) /\ ~t.moved /\ t.id = s.id /\ t.gen = s.gen
             /\ (t.enabled <=> s.enabled) /\ (t.confirmed <=> s.confirmed)
             /\ (t.sealed <=> s.sealed) /\ (t.blocked <=> s.blocked) /\ (t.barrier <=> s.barrier)
<1> DEFINE t == [s EXCEPT !.owed = "fence", !.moved = FALSE]
<1>1. t \in Stores BY DEF Stores, Kinds
<1>2. /\ t.open = s.open /\ t.queue = s.queue /\ t.done = s.done
      /\ ~t.moved /\ t.id = s.id /\ t.gen = s.gen
      /\ (t.enabled <=> s.enabled) /\ (t.confirmed <=> s.confirmed)
      /\ (t.sealed <=> s.sealed) /\ (t.blocked <=> s.blocked) /\ (t.barrier <=> s.barrier)
  BY DEF Stores
<1> HIDE DEF t
<1>3. Within(s, t) BY <1>2 DEF Within, Live
<1> QED BY <1>1, <1>2, <1>3 DEF t

LEMMA OldestIn ==
  ASSUME NEW s \in Stores, Oldest(s) # {}
  PROVE  Min(Oldest(s)) \in Places
<1>1. Oldest(s) \in SUBSET Nat /\ Oldest(s) \subseteq Places BY Bounds DEF Oldest, Places
<1> QED BY <1>1, MinIn

LEMMA FlashNextKeeps == ASSUME StopIInv, FlashNext PROVE StopIInv'
<1> DEFINE r == ApplyReceipt(store, owner.receipt)
           ready == MayClaim(r)
           s == IF ~ready THEN r ELSE IF Dated(r) THEN ExpireLive(Clocked(r)) ELSE Clocked(r)
           told == [owner EXCEPT !.receipt = NoReceipt]
           sealed == owner.receipt.kind = "fence" /\ owner.receipt.ok /\ ~store.moved
           fences == ready /\ s.barrier
           claims == ready /\ Dated(s) /\ ~s.restore /\ Oldest(s) # {}
           i == Min(Oldest(s))
<1>1. /\ StopShape /\ EvidenceInv /\ LiveInv /\ EpochInv /\ JournalInv /\ FenceInv /\ SourceInv
      /\ store \in Stores /\ owner \in Owners /\ hour \in Nat /\ owner.receipt \in Receipts
      /\ stops \in Seq(Seen) /\ journal \in Seq(Records) /\ known \subseteq DOMAIN journal
      /\ owner.pc = "idle" /\ UNCHANGED <<known, journal>> /\ UNCHANGED ownerSide
  BY DEF StopIInv, StopShape, StoreShape, FlashShape, GhostShape, EvidenceInv, EpochInv,
         CheckupInv, FlashNext, Owners
<1>2. /\ stops' = IF ready THEN WithdrawnBy(r, stops) ELSE stops
      /\ IF fences
         THEN /\ store' = [s EXCEPT !.owed = "fence", !.moved = FALSE]
              /\ owner' = [told EXCEPT !.pc = "append", !.rec = FenceRecord(s)]
         ELSE IF claims
         THEN /\ store' = [s EXCEPT !.owed = "hour", !.queue[i].claimed = TRUE, !.moved = FALSE]
              /\ owner' = [told EXCEPT !.pc = "append", !.rec = HourRecord(s, i)]
         ELSE store' = [s EXCEPT !.moved = FALSE] /\ owner' = told
  BY DEF FlashNext
<1>3. told \in Owners /\ told.pc = "idle" /\ told.receipt = NoReceipt
  <2>1. NoReceipt \in Receipts BY DEF NoReceipt, Receipts, Kinds
  <2> QED BY <1>1, <2>1 DEF Owners
<1>4. /\ r \in Stores /\ Within(store, r) /\ r.clock = store.clock /\ r.id = store.id
      /\ r.gen = store.gen /\ (r.enabled <=> store.enabled) /\ (r.confirmed <=> store.confirmed)
      /\ (r.sealed <=> store.sealed)
      /\ (r.blocked <=> store.blocked /\ ~sealed) /\ (r.barrier <=> store.barrier /\ ~sealed)
  BY <1>1, ReceiptIn
<1>5. ready => r.enabled /\ r.confirmed BY DEF MayClaim
<1>6. ~r.blocked => Unbarred
  <2>1. sealed => owner.receipt = [kind |-> "fence", ok |-> TRUE] BY <1>1 DEF Receipts
  <2> QED BY <1>4, <2>1 DEF Unbarred
<1>7. ready => FreshInv'
  <2>1. ready => checkup.source # NoSource BY <1>1, <1>4, <1>5 DEF SourceInv
  <2> QED BY <1>1, <2>1 DEF FreshInv, ownerSide
<1>8. journal' \in Seq(Records) /\ known' \subseteq DOMAIN journal' BY <1>1
<1>9. r.enabled /\ r.blocked => r.barrier BY <1>1, <1>4 DEF EpochInv
<1> HIDE DEF sealed, told, r
<1>10. CASE ready /\ r.clock = "moved"
  <2>1. s = InvalidateClock(r) /\ stops' = Withdrawn(stops)
    BY <1>2, <1>4, <1>10, ClockedIn DEF Dated, WithdrawnBy
  <2> HIDE DEF ready, s
  <2>2. /\ s \in Stores /\ Empty(s) /\ s.id = r.id /\ s.gen = r.gen /\ (s.enabled <=> r.enabled)
        /\ (s.confirmed <=> r.confirmed) /\ s.blocked /\ ~s.sealed
        /\ (s.barrier <=> r.enabled /\ r.confirmed)
    BY <1>4, <2>1, InvalidateIn
  <2>3. /\ store' = [s EXCEPT !.owed = "fence", !.moved = FALSE]
        /\ owner' = [told EXCEPT !.pc = "append", !.rec = FenceRecord(s)]
    BY <1>2, <1>5, <1>10, <2>2
  <2>4. /\ FenceRecord(s) \in Records /\ FenceRecord(s).kind = "fence" /\ FenceRecord(s).id = s.id
        /\ FenceRecord(s).sum = Nothing
    BY <1>1, <2>2, SumsIn DEF FenceRecord, NoRecord, Records, Kinds, Stores
  <2>5. /\ owner' \in Owners /\ owner'.pc = "append" /\ owner'.receipt = NoReceipt
        /\ owner'.rec = FenceRecord(s)
    BY <1>3, <2>3, <2>4 DEF Owners
  <2>6. /\ store' \in Stores /\ Within(s, store') /\ ~store'.moved /\ store'.id = s.id
        /\ store'.gen = s.gen /\ (store'.enabled <=> s.enabled)
        /\ (store'.confirmed <=> s.confirmed) /\ (store'.sealed <=> s.sealed)
        /\ (store'.blocked <=> s.blocked) /\ (store'.barrier <=> s.barrier)
    BY <2>2, <2>3, OweIn
  <2>7. Grown /\ Len(stops') = Len(stops) /\ stops' \in Seq(Seen) BY <1>1, <2>1, GrownBy
  <2>8. LiveInv' BY <2>2, <2>6 DEF LiveInv, Empty, Within
  <2>9. EvidenceInv'
    BY <1>1, <1>5, <1>10, <2>2, <2>4, <2>5, <2>6, <2>7, <2>8, ClaimSide
  <2> QED BY <1>1, <1>4, <1>7, <1>8, <1>10, <2>2, <2>5, <2>6, <2>7, <2>9, OwnerTail
<1>11. CASE ~(ready /\ r.clock = "moved")
  <2>1. stops' = stops BY <1>2, <1>11 DEF WithdrawnBy
  <2>2. Tame(r, s)
    <3>1. s \in {r, ExpireLive(r)} BY <1>4, <1>11, ClockedIn
    <3> QED BY <1>1, <1>4, <3>1, ExpireIn DEF Tame, Same, Within
  <2> HIDE DEF ready, s
  <2>3. /\ s \in Stores /\ Within(store, s) /\ s.id = store.id /\ s.gen = store.gen
        /\ (s.enabled <=> store.enabled) /\ (s.confirmed <=> store.confirmed)
        /\ (s.sealed <=> store.sealed) /\ (s.blocked <=> r.blocked) /\ (s.barrier <=> r.barrier)
    BY <1>4, <2>2 DEF Tame, Same, Within
  <2>4. Grown /\ Len(stops') = Len(stops) /\ stops' \in Seq(Seen) BY <1>1, <2>1, GrownBy
  <2>5. CASE fences
    <3>1. /\ store' = [s EXCEPT !.owed = "fence", !.moved = FALSE]
          /\ owner' = [told EXCEPT !.pc = "append", !.rec = FenceRecord(s)]
      BY <1>2, <2>5
    <3>2. /\ FenceRecord(s) \in Records /\ FenceRecord(s).kind = "fence" /\ FenceRecord(s).id = s.id
          /\ FenceRecord(s).sum = Nothing
      BY <1>1, <2>3, SumsIn DEF FenceRecord, NoRecord, Records, Kinds, Stores
    <3>3. /\ owner' \in Owners /\ owner'.pc = "append" /\ owner'.receipt = NoReceipt
          /\ owner'.rec = FenceRecord(s)
      BY <1>3, <3>1, <3>2 DEF Owners
    <3>4. /\ store' \in Stores /\ Within(s, store') /\ ~store'.moved /\ store'.id = s.id
          /\ store'.gen = s.gen /\ (store'.enabled <=> s.enabled)
          /\ (store'.confirmed <=> s.confirmed) /\ (store'.sealed <=> s.sealed)
          /\ (store'.blocked <=> s.blocked) /\ (store'.barrier <=> s.barrier)
      BY <2>3, <3>1, OweIn
    <3>5. Within(store, store') BY <2>3, <3>4 DEF Within
    <3>6. LiveInv' BY <1>1, <2>1, <2>3, <3>4, <3>5, WithinLive
    <3>7. EvidenceInv'
      BY <1>1, <1>4, <1>5, <1>6, <2>1, <2>3, <2>4, <2>5, <3>2, <3>3, <3>4, <3>6, ClaimSide
    <3> QED BY <1>1, <1>7, <1>8, <2>3, <2>4, <2>5, <3>3, <3>4, <3>7, OwnerTail
  <2>6. CASE ~fences /\ claims
    <3>1. /\ store' = [s EXCEPT !.owed = "hour", !.queue[i].claimed = TRUE, !.moved = FALSE]
          /\ owner' = [told EXCEPT !.pc = "append", !.rec = HourRecord(s, i)]
      BY <1>2, <2>6
    <3>2. i \in Places BY <2>3, <2>6, OldestIn
    <3> HIDE DEF i
    <3>3. /\ HourRecord(s, i) \in Records /\ HourRecord(s, i).kind = "hour"
          /\ HourRecord(s, i).id = s.id /\ HourRecord(s, i).sum = s.queue[i].sum
      <4>1. s.queue[i] \in Entries BY <2>3, <3>2 DEF Stores
      <4> QED BY <2>3, <4>1 DEF HourRecord, Records, Kinds, Stores, Entries
    <3>4. /\ owner' \in Owners /\ owner'.pc = "append" /\ owner'.receipt = NoReceipt
          /\ owner'.rec = HourRecord(s, i)
      BY <1>3, <3>1, <3>3 DEF Owners
    <3>5. /\ store' \in Stores /\ Within(s, store') /\ ~store'.moved /\ store'.id = s.id
          /\ store'.gen = s.gen /\ (store'.enabled <=> s.enabled)
          /\ (store'.confirmed <=> s.confirmed) /\ (store'.sealed <=> s.sealed)
          /\ (store'.blocked <=> s.blocked) /\ (store'.barrier <=> s.barrier)
          /\ store'.queue[i].sum = s.queue[i].sum
      BY <2>3, <3>1, <3>2, ClaimIn
    <3>6. Within(store, store') BY <2>3, <3>5 DEF Within
    <3>7. LiveInv' BY <1>1, <2>1, <2>3, <3>5, <3>6, WithinLive
    <3>8. ~store'.blocked /\ store'.enabled /\ store'.confirmed
      BY <1>4, <1>5, <1>9, <2>3, <2>6, <3>5
    <3>9. \A e \in Stops : owner'.rec.sum[e] > 0 => Live(store', e)
      BY <3>2, <3>3, <3>4, <3>5 DEF Live
    <3>10. EvidenceInv'
      BY <1>1, <1>6, <2>1, <2>3, <2>4, <3>3, <3>4, <3>5, <3>7, <3>8, <3>9, ClaimSide
    <3> QED BY <1>1, <1>7, <1>8, <2>3, <2>4, <2>6, <3>4, <3>5, <3>10, OwnerTail
  <2>7. CASE ~fences /\ ~claims
    <3>1. store' = [s EXCEPT !.moved = FALSE] /\ owner' = told BY <1>2, <2>7
    <3>2. /\ store' \in Stores /\ Within(s, store') /\ ~store'.moved /\ store'.id = s.id
          /\ store'.gen = s.gen /\ (store'.enabled <=> s.enabled)
          /\ (store'.confirmed <=> s.confirmed) /\ (store'.sealed <=> s.sealed)
          /\ (store'.blocked <=> s.blocked) /\ (store'.barrier <=> s.barrier)
      BY <2>3, <3>1, TakenIn
    <3>3. Within(store, store') BY <2>3, <3>2 DEF Within
    <3>4. LiveInv' BY <1>1, <2>1, <2>3, <3>2, <3>3, WithinLive
    <3>5. store'.confirmed => store'.enabled BY <1>1, <2>3, <3>2 DEF EpochInv
    <3>6. EvidenceInv'
      BY <1>1, <1>3, <1>4, <1>6, <1>9, <2>1, <2>3, <2>4, <3>1, <3>2, <3>4, <3>5, RestSide
    <3>7. FreshInv'
      <4>1. ~Captured' BY <1>3, <3>1 DEF Captured
      <4>2. FreshInv BY DEF StopIInv, CheckupInv
      <4>3. \A e \in DOMAIN stops : Cut(e, known) => Cut(e, known)' BY <1>1, <2>4, GrownKeeps
      <4> QED BY <1>1, <2>1, <4>1, <4>2, <4>3 DEF FreshInv, ownerSide
    <3> QED BY <1>1, <1>3, <1>8, <2>3, <2>4, <3>1, <3>2, <3>6, <3>7, OwnerTail
  <2> QED BY <2>5, <2>6, <2>7
<1> QED BY <1>10, <1>11

(* A record is merged only with what no fence of its identity cuts off.     *)
LEMMA MergedIn ==
  ASSUME StopShape, JournalInv, NEW r \in Records
  PROVE  /\ Merged(r) \in Records /\ Merged(r).kind = r.kind /\ Merged(r).id = r.id
         /\ r.kind = "fence" => Merged(r) = r
         /\ \A e \in Stops : Merged(r).sum[e] > 0 =>
              r.sum[e] > 0 \/ (e \in DOMAIN stops /\ stops[e].id = r.id /\ ~Cut(e, known))
<1> DEFINE b == BaseOf(r)
<1>1. FlashShape BY DEF StopShape
<1>2. Merged(r) = IF r.kind = "fence" \/ b = 0 \/ journal[b].id # r.id THEN r
                  ELSE [r EXCEPT !.sum = Plus(@, journal[b].sum), !.lost = @ \/ journal[b].lost]
  BY DEF Merged
<1>3. b = 0 \/ (b = NewestOf(r.hour) /\ b > FenceOf(r.id)) BY DEF BaseOf
<1> HIDE DEF b
<1>4. CASE r.kind = "fence" \/ b = 0 \/ journal[b].id # r.id BY <1>2, <1>4
<1>5. CASE ~(r.kind = "fence" \/ b = 0 \/ journal[b].id # r.id)
  <2>1. b \in known BY <1>1, <1>3, <1>5, NewestIn DEF HourRecords
  <2>2. journal[b] \in Records BY <1>1, <2>1 DEF FlashShape
  <2> DEFINE sum == Plus(r.sum, journal[b].sum)
             lost == r.lost \/ journal[b].lost
  <2>3. sum \in Sums /\ \A e \in Stops : sum[e] > 0 => r.sum[e] > 0 \/ journal[b].sum[e] > 0
    BY <2>2, SumsIn DEF Records
  <2>4. lost \in BOOLEAN OBVIOUS
  <2>5. Merged(r) = [r EXCEPT !.sum = sum, !.lost = lost] BY <1>2, <1>5 DEF Records
  <2> HIDE DEF sum, lost
  <2>6. /\ Merged(r) \in Records /\ Merged(r).kind = r.kind /\ Merged(r).id = r.id
        /\ Merged(r).sum = sum
    BY <2>3, <2>4, <2>5 DEF Records
  <2>7. ASSUME NEW e \in Stops, journal[b].sum[e] > 0
        PROVE  e \in DOMAIN stops /\ stops[e].id = r.id /\ ~Cut(e, known)
    <3>1. Holds(b, e) /\ b > FenceOf(journal[b].id) /\ journal[b].id = r.id
      BY <1>3, <1>5, <2>7 DEF Holds
    <3> QED BY <2>1, <3>1, BeyondFence
  <2> QED BY <1>5, <2>3, <2>6, <2>7
<1> QED BY <1>4, <1>5

LEMMA SealedIn ==
  ASSUME StopShape, NEW id, stops' \in {stops, Sealed(stops, id)}
  PROVE  /\ stops' \in Seq(Seen) /\ Len(stops') = Len(stops) /\ DOMAIN stops' = DOMAIN stops
         /\ \A e \in DOMAIN stops :
              /\ stops'[e].id = stops[e].id /\ (stops'[e].gone <=> stops[e].gone)
              /\ stops[e].fenced => stops'[e].fenced
              /\ stops'[e].fenced => stops[e].fenced \/ (stops[e].gone /\ stops[e].id = id)
<1>1. stops \in Seq(Seen) /\ Len(stops) \in Nat /\ DOMAIN stops = 1 .. Len(stops)
  BY DEF StopShape, GhostShape
<1>2. CASE stops' = stops BY <1>1, <1>2
<1>3. CASE stops' = Sealed(stops, id)
  <2> DEFINE new(i) == [stops[i] EXCEPT !.fenced = stops[i].fenced \/ (stops[i].gone /\ stops[i].id = id)]
  <2>1. \A i \in 1 .. Len(stops) : stops[i] \in Seen BY <1>1
  <2>2. ASSUME NEW i \in 1 .. Len(stops)
        PROVE  /\ new(i) \in Seen /\ new(i).id = stops[i].id /\ (new(i).gone <=> stops[i].gone)
               /\ (new(i).fenced <=> stops[i].fenced \/ (stops[i].gone /\ stops[i].id = id))
    <3> DEFINE fenced == stops[i].fenced \/ (stops[i].gone /\ stops[i].id = id)
    <3>1. fenced \in BOOLEAN /\ stops[i] \in Seen BY <2>1
    <3>2. new(i) = [stops[i] EXCEPT !.fenced = fenced] OBVIOUS
    <3> HIDE DEF fenced, new
    <3>3. /\ new(i) \in Seen /\ new(i).id = stops[i].id /\ (new(i).gone <=> stops[i].gone)
          /\ (new(i).fenced <=> fenced)
      BY <3>1, <3>2 DEF Seen
    <3> QED BY <3>3 DEF fenced
  <2>3. stops' = [i \in 1 .. Len(stops) |-> new(i)]
    <3>1. Sealed(stops, id) = [i \in 1 .. Len(stops) |-> new(i)] BY <1>1, <2>1 DEF Sealed, Seen
    <3> QED BY <1>3, <3>1
  <2> HIDE DEF new
  <2>4. stops' \in [1 .. Len(stops) -> Seen] BY <2>2, <2>3
  <2>5. stops' \in Seq(Seen) /\ Len(stops') = Len(stops) /\ DOMAIN stops' = 1 .. Len(stops)
    BY <1>1, <2>4
  <2>6. \A i \in 1 .. Len(stops) : stops'[i] = new(i) BY <2>3
  <2> QED BY <1>1, <2>2, <2>5, <2>6
<1> QED BY <1>2, <1>3

(* The journal with one more record: it holds nothing a fence has cut off,  *)
(* and a fence cuts off all that was withdrawn under its identity.          *)
LEMMA AppendIn ==
  ASSUME StopShape, EvidenceInv, owner.pc = "append", owner.rec \in Records,
         Programmed(Merged(owner.rec))
  PROVE  LET n == Len(journal) + 1
         IN  /\ journal' \in Seq(Records) /\ DOMAIN journal' = DOMAIN journal \cup {n}
             /\ \A m \in DOMAIN journal : m < n /\ journal'[m] = journal[m]
             /\ journal'[n] = Merged(owner.rec) /\ n \notin DOMAIN journal
             /\ stops' \in Seq(Seen) /\ Len(stops') = Len(stops) /\ DOMAIN stops' = DOMAIN stops
             /\ \A e \in DOMAIN stops :
                  /\ stops'[e].id = stops[e].id /\ (stops'[e].gone <=> stops[e].gone)
                  /\ stops[e].fenced => stops'[e].fenced
                  /\ stops'[e].fenced => \/ stops[e].fenced
                                         \/ /\ owner.rec.kind = "fence"
                                            /\ stops[e].gone /\ stops[e].id = owner.rec.id
<1> DEFINE n == Len(journal) + 1
           rec == Merged(owner.rec)
<1>1. journal \in Seq(Records) /\ JournalInv BY DEF StopShape, FlashShape, EvidenceInv
<1>2. rec \in Records /\ rec.kind = owner.rec.kind /\ rec.id = owner.rec.id BY <1>1, MergedIn
<1>3. journal' = Append(journal, rec) BY DEF Programmed
<1> HIDE DEF rec
<1>4. /\ journal' \in Seq(Records) /\ Len(journal') = Len(journal) + 1
      /\ \A m \in 1 .. Len(journal) : journal'[m] = journal[m]
      /\ journal'[Len(journal) + 1] = rec
  BY <1>1, <1>2, <1>3
<1>5. /\ DOMAIN journal = 1 .. Len(journal) /\ DOMAIN journal' = 1 .. (Len(journal) + 1)
      /\ Len(journal) \in Nat
  BY <1>1, <1>4
<1>6. /\ DOMAIN journal' = DOMAIN journal \cup {n} /\ n \notin DOMAIN journal
      /\ \A m \in DOMAIN journal : m < n
  BY <1>5
<1>7. stops' = IF rec.kind = "fence" THEN Sealed(stops, rec.id) ELSE stops BY DEF Programmed, rec
<1>8. stops' \in {stops, Sealed(stops, rec.id)} BY <1>7
<1>9. /\ stops' \in Seq(Seen) /\ Len(stops') = Len(stops) /\ DOMAIN stops' = DOMAIN stops
      /\ \A e \in DOMAIN stops :
           /\ stops'[e].id = stops[e].id /\ (stops'[e].gone <=> stops[e].gone)
           /\ stops[e].fenced => stops'[e].fenced
           /\ stops'[e].fenced => stops[e].fenced \/ (stops[e].gone /\ stops[e].id = rec.id)
  BY <1>8, SealedIn
<1>10. rec.kind # "fence" => stops' = stops BY <1>7
<1> QED BY <1>2, <1>4, <1>5, <1>6, <1>9, <1>10 DEF rec

LEMMA AppendSide ==
  ASSUME StopShape, EvidenceInv, owner.pc = "append", owner.rec \in Records,
         Programmed(Merged(owner.rec)), LiveInv', owner'.pc = "idle", store'.id = store.id,
         known' \in {known, known \cup {Len(journal) + 1}},
         store'.moved => store'.blocked, store'.enabled /\ store'.blocked => store'.barrier,
         store'.confirmed => store'.enabled, Captured' /\ ~store'.confirmed => store'.moved,
         Unbarred' => \/ ~store.blocked
                      \/ /\ owner.rec.kind = "fence" /\ ~store.moved
                         /\ known' = known \cup {Len(journal) + 1}
  PROVE  EvidenceInv'
<1> DEFINE n == Len(journal) + 1
           rec == Merged(owner.rec)
<1>1. /\ journal' \in Seq(Records) /\ DOMAIN journal' = DOMAIN journal \cup {n}
      /\ \A m \in DOMAIN journal : m < n /\ journal'[m] = journal[m]
      /\ journal'[n] = rec /\ n \notin DOMAIN journal
      /\ DOMAIN stops' = DOMAIN stops
      /\ \A e \in DOMAIN stops :
           /\ stops'[e].id = stops[e].id /\ (stops'[e].gone <=> stops[e].gone)
           /\ stops[e].fenced => stops'[e].fenced
           /\ stops'[e].fenced => \/ stops[e].fenced
                                  \/ /\ owner.rec.kind = "fence"
                                     /\ stops[e].gone /\ stops[e].id = owner.rec.id
  BY AppendIn
<1>2. /\ JournalInv /\ FenceInv /\ ClaimInv /\ EpochInv /\ known \subseteq DOMAIN journal
      /\ DOMAIN stops \subseteq Stops
  <2>1. stops \in Seq(Seen) /\ Len(stops) <= MaxStops BY DEF StopShape, GhostShape
  <2> QED BY <2>1, Bounds DEF EvidenceInv, StopShape, FlashShape, Stops
<1>3. /\ rec \in Records /\ rec.kind = owner.rec.kind /\ rec.id = owner.rec.id
      /\ owner.rec.kind = "fence" => rec = owner.rec
      /\ \A e \in Stops : rec.sum[e] > 0 =>
           owner.rec.sum[e] > 0 \/ (e \in DOMAIN stops /\ stops[e].id = owner.rec.id /\ ~Cut(e, known))
  BY <1>2, MergedIn
<1>4. /\ owner.rec.kind \in {"fence", "hour"}
      /\ owner.rec.kind = "fence" => owner.rec.sum = Nothing
      /\ ~store.moved => owner.rec.id = store.id
      /\ \A e \in Stops : owner.rec.sum[e] > 0 =>
           /\ e \in DOMAIN stops /\ stops[e].id = owner.rec.id /\ ~stops[e].fenced
           /\ ~store.moved => Valid(e)
      /\ owner.rec.kind = "hour" =>
           \A e \in DOMAIN stops : stops[e].fenced /\ stops[e].id = owner.rec.id => Cut(e, known)
  BY <1>2 DEF ClaimInv
<1> HIDE DEF rec, n
<1>5. ASSUME NEW e \in Stops, rec.sum[e] > 0
      PROVE  /\ owner.rec.kind = "hour" /\ e \in DOMAIN stops /\ stops[e].id = owner.rec.id
             /\ ~stops[e].fenced /\ (stops[e].gone /\ ~store.moved => ~Cut(e, known))
  <2>1. owner.rec.kind = "hour"
    <3>1. owner.rec.kind = "fence" => ~(rec.sum[e] > 0) BY <1>3, <1>4, SumsIn
    <3> QED BY <1>4, <1>5, <3>1
  <2>2. CASE owner.rec.sum[e] > 0 BY <1>4, <2>1, <2>2 DEF Valid
  <2>3. CASE ~(owner.rec.sum[e] > 0) BY <1>3, <1>4, <1>5, <2>1, <2>3
  <2> QED BY <2>2, <2>3
<1>6. JournalInv'
  <2>1. ASSUME NEW m \in DOMAIN journal, NEW e \in Stops, Holds(m, e)
        PROVE  journal[m].kind = "hour" /\ e \in DOMAIN stops /\ stops[e].id = journal[m].id
    BY <1>2, <2>1 DEF JournalInv
  <2>2. \A m \in DOMAIN journal : journal[m].kind # "none" BY <1>2 DEF JournalInv
  <2>3. rec.kind # "none" BY <1>3, <1>4
  <2> QED BY <1>1, <1>3, <1>5, <2>1, <2>2, <2>3 DEF JournalInv, Holds
(* Cut off in what is known, a stop that the record does not hold stays so. *)
<1>7. ASSUME NEW e \in DOMAIN stops, ~(rec.sum[e] > 0)
      PROVE  /\ Cut(e, DOMAIN journal) => Cut(e, DOMAIN journal)'
             /\ Cut(e, known) => Cut(e, known)'
  <2>1. known \subseteq known' OBVIOUS
  <2> QED BY <1>1, <1>2, <1>7, <2>1 DEF Cut, Covered, Holds
<1>8. ASSUME NEW e \in DOMAIN stops, ~(rec.sum[e] > 0), owner.rec.kind = "fence",
             stops[e].id = owner.rec.id
      PROVE  Cut(e, DOMAIN journal)' /\ (n \in known' => Cut(e, known)')
  BY <1>1, <1>3, <1>8 DEF Cut, Covered, Holds
<1>9. \A e \in DOMAIN stops : owner.rec.kind = "fence" \/ stops[e].fenced => ~(rec.sum[e] > 0)
  BY <1>2, <1>4, <1>5
<1>10. \A e \in DOMAIN stops' : stops'[e].fenced => stops'[e].gone /\ Cut(e, DOMAIN journal)'
  BY <1>1, <1>2, <1>7, <1>8, <1>9 DEF FenceInv
<1>11. ASSUME Unbarred', NEW e \in DOMAIN stops, stops[e].gone, stops[e].id = store.id
       PROVE  Cut(e, known)'
  <2>1. CASE ~store.blocked
    <3>1. Cut(e, known) BY <1>2, <1>11, <2>1 DEF FenceInv, Unbarred
    <3>2. ~store.moved BY <1>2, <2>1 DEF EpochInv
    <3>3. ~(rec.sum[e] > 0) BY <1>2, <1>5, <1>11, <3>1, <3>2
    <3> QED BY <1>7, <3>1, <3>3
  <2>2. CASE /\ owner.rec.kind = "fence" /\ ~store.moved /\ known' = known \cup {Len(journal) + 1}
    <3>1. n \in known' /\ owner.rec.id = store.id BY <1>4, <2>2 DEF n
    <3> QED BY <1>8, <1>9, <1>11, <2>2, <3>1
  <2> QED BY <1>11, <2>1, <2>2
<1>12. FenceInv' BY <1>1, <1>10, <1>11 DEF FenceInv
<1>13. EpochInv' BY DEF EpochInv, Carrying
<1>14. ClaimInv' BY DEF ClaimInv
<1> QED BY <1>6, <1>12, <1>13, <1>14 DEF EvidenceInv

(* The end of a transaction, its receipt applied or kept for later.         *)
LEMMA FinishIn ==
  ASSUME StopIInv, owner.pc = "append", NEW ok \in BOOLEAN, NEW busy \in BOOLEAN, Finish(ok, busy)
  PROVE  /\ owner' \in Owners /\ owner'.pc = "idle"
         /\ store' \in Stores /\ Within(store, store') /\ store'.id = store.id
         /\ store'.gen = store.gen /\ (store'.enabled <=> store.enabled)
         /\ (store'.confirmed <=> store.confirmed) /\ (store'.sealed => store.sealed)
         /\ (store'.moved => store'.blocked) /\ (store'.enabled /\ store'.blocked => store'.barrier)
         /\ (store'.confirmed => store'.enabled) /\ (Captured' /\ ~store'.confirmed => store'.moved)
         /\ Unbarred' => ~store.blocked \/ (owner.rec.kind = "fence" /\ ok /\ ~store.moved)
         /\ ~busy => owner'.receipt = NoReceipt
<1> DEFINE r == [kind |-> owner.rec.kind, ok |-> ok]
           a == ApplyReceipt(store, r)
           rebuild == owner.rebuild \/ ok
           receipt == IF busy THEN r ELSE NoReceipt
           sealed == r.kind = "fence" /\ r.ok /\ ~store.moved
<1>1. /\ store \in Stores /\ owner \in Owners /\ EpochInv
  BY DEF StopIInv, StopShape, StoreShape, EvidenceInv
<1>2. r \in Receipts /\ NoReceipt \in Receipts /\ NoRecord \in Records
  BY <1>1, SumsIn DEF Receipts, Owners, Records, NoReceipt, NoRecord, Kinds, Ids, Srcs
<1>3. rebuild \in BOOLEAN /\ receipt \in Receipts BY <1>2
<1>4. /\ owner' = [owner EXCEPT !.pc = "idle", !.rec = NoRecord, !.rebuild = rebuild,
                                !.receipt = receipt]
      /\ store' = IF busy THEN store ELSE [a EXCEPT !.moved = FALSE]
  BY <1>1 DEF Finish, Owners
<1> HIDE DEF rebuild, receipt
<1>5. owner' \in Owners /\ owner'.pc = "idle" /\ owner'.receipt = receipt
  BY <1>1, <1>2, <1>3, <1>4 DEF Owners
<1>6. Captured => store.moved \/ store.confirmed BY <1>1 DEF EpochInv
<1>7. Captured BY DEF Captured
<1>8. CASE busy
  <2>1. store' = store /\ receipt = r BY <1>4, <1>8 DEF receipt
  <2>2. Within(store, store') BY <2>1 DEF Within
  <2>3. Unbarred' => ~store.blocked \/ (owner.rec.kind = "fence" /\ ok /\ ~store.moved)
    <3>1. r = [kind |-> "fence", ok |-> TRUE] => owner.rec.kind = "fence" /\ ok OBVIOUS
    <3> QED BY <1>5, <2>1, <3>1 DEF Unbarred
  <2> QED BY <1>1, <1>5, <1>6, <1>7, <1>8, <2>1, <2>2, <2>3 DEF EpochInv
<1>9. CASE ~busy
  <2>1. /\ a \in Stores /\ Within(store, a) /\ a.id = store.id
        /\ a.gen = store.gen /\ (a.enabled <=> store.enabled) /\ (a.confirmed <=> store.confirmed)
        /\ (a.sealed <=> store.sealed)
        /\ (a.blocked <=> store.blocked /\ ~sealed) /\ (a.barrier <=> store.barrier /\ ~sealed)
    BY <1>1, <1>2, ReceiptIn
  <2>2. sealed => owner.rec.kind = "fence" /\ ok /\ ~store.moved OBVIOUS
  <2> HIDE DEF a, r, sealed
  <2>3. store' = [a EXCEPT !.moved = FALSE] /\ receipt = NoReceipt BY <1>4, <1>9 DEF receipt
  <2>4. /\ store' \in Stores /\ Within(a, store') /\ ~store'.moved /\ store'.id = a.id
        /\ store'.gen = a.gen /\ (store'.enabled <=> a.enabled) /\ (store'.confirmed <=> a.confirmed)
        /\ (store'.sealed <=> a.sealed) /\ (store'.blocked <=> a.blocked)
        /\ (store'.barrier <=> a.barrier)
    BY <2>1, <2>3, TakenIn
  <2>5. Within(store, store') BY <2>1, <2>4 DEF Within
  <2>6. ~Captured' BY <1>5, <2>3 DEF Captured
  <2>7. Unbarred' => ~store.blocked \/ (owner.rec.kind = "fence" /\ ok /\ ~store.moved)
    BY <1>5, <2>1, <2>2, <2>3, <2>4 DEF Unbarred, NoReceipt
  <2>8. /\ store'.enabled /\ store'.blocked => store'.barrier
        /\ store'.confirmed => store'.enabled
    BY <1>1, <2>1, <2>4 DEF EpochInv
  <2> QED BY <1>5, <2>1, <2>3, <2>4, <2>5, <2>6, <2>7, <2>8
<1> QED BY <1>8, <1>9

LEMMA AppendSetting ==
  ASSUME StopIInv, owner.pc = "append"
  PROVE  /\ StopShape /\ EvidenceInv /\ LiveInv /\ owner.rec \in Records /\ Captured
         /\ stops \in Seq(Seen) /\ journal \in Seq(Records) /\ known \subseteq DOMAIN journal
         /\ FreshInv
BY DEF StopIInv, StopShape, StoreShape, FlashShape, GhostShape, EvidenceInv, Owners, Captured,
       CheckupInv

LEMMA AppendedLive ==
  ASSUME LiveInv, Within(store, store'), store'.id = store.id, store'.confirmed <=> store.confirmed,
         DOMAIN stops' = DOMAIN stops,
         \A e \in DOMAIN stops : stops'[e].id = stops[e].id /\ (stops'[e].gone <=> stops[e].gone)
  PROVE  LiveInv'
BY DEF LiveInv, Within, Valid

(* A record programmed, which the index may know or not.                    *)
LEMMA ProgrammedKeeps ==
  ASSUME StopIInv, owner.pc = "append", Programmed(Merged(owner.rec)),
         NEW ok \in BOOLEAN, NEW busy \in BOOLEAN, Finish(ok, busy), UNCHANGED ownerSide,
         known' = (IF ok THEN known \cup {Len(journal) + 1} ELSE known)
  PROVE  StopIInv'
<1>1. /\ StopShape /\ EvidenceInv /\ LiveInv /\ owner.rec \in Records /\ Captured
      /\ journal \in Seq(Records) /\ known \subseteq DOMAIN journal /\ FreshInv
  BY AppendSetting
<1>2. /\ journal' \in Seq(Records) /\ DOMAIN journal' = DOMAIN journal \cup {Len(journal) + 1}
      /\ stops' \in Seq(Seen) /\ Len(stops') = Len(stops) /\ DOMAIN stops' = DOMAIN stops
      /\ \A e \in DOMAIN stops : stops'[e].id = stops[e].id /\ (stops'[e].gone <=> stops[e].gone)
  BY <1>1, AppendIn
<1>3. /\ owner' \in Owners /\ owner'.pc = "idle"
      /\ store' \in Stores /\ Within(store, store') /\ store'.id = store.id
      /\ store'.gen = store.gen /\ (store'.enabled <=> store.enabled)
      /\ (store'.confirmed <=> store.confirmed) /\ (store'.sealed => store.sealed)
      /\ (store'.moved => store'.blocked) /\ (store'.enabled /\ store'.blocked => store'.barrier)
      /\ (store'.confirmed => store'.enabled) /\ (Captured' /\ ~store'.confirmed => store'.moved)
      /\ Unbarred' => ~store.blocked \/ (owner.rec.kind = "fence" /\ ok /\ ~store.moved)
  BY FinishIn
<1>4. LiveInv' BY <1>1, <1>2, <1>3, AppendedLive
<1>5. known' \in {known, known \cup {Len(journal) + 1}} /\ known' \subseteq DOMAIN journal'
  BY <1>1, <1>2
<1>6. Unbarred' => \/ ~store.blocked
                   \/ /\ owner.rec.kind = "fence" /\ ~store.moved
                      /\ known' = known \cup {Len(journal) + 1}
  BY <1>3
<1>7. EvidenceInv' BY <1>1, <1>3, <1>4, <1>5, <1>6, AppendSide
<1>8. FreshInv' BY <1>1 DEF FreshInv, ownerSide
<1> QED BY <1>2, <1>3, <1>5, <1>7, <1>8, OwnerTail

LEMMA AppendCommittedKeeps == ASSUME StopIInv, AppendCommitted PROVE StopIInv'
<1>1. /\ owner.pc = "append" /\ Programmed(Merged(owner.rec)) /\ UNCHANGED ownerSide
      /\ known' = known \cup {Len(journal) + 1}
      /\ Finish(TRUE, FALSE) \/ Finish(TRUE, TRUE)
  BY DEF AppendCommitted
<1>2. PICK ok \in BOOLEAN : ok = TRUE OBVIOUS
<1>3. PICK no \in BOOLEAN : no = FALSE OBVIOUS
<1>4. Finish(ok, no) \/ Finish(ok, ok) BY <1>1, <1>2, <1>3, Zenon
<1> QED BY <1>1, <1>2, <1>4, ProgrammedKeeps

LEMMA AppendFailedKeeps == ASSUME StopIInv, AppendFailed PROVE StopIInv'
<1>1. /\ owner.pc = "append" /\ UNCHANGED ownerSide /\ known' = known
      /\ UNCHANGED <<journal, stops>> \/ Programmed(Merged(owner.rec))
      /\ Finish(FALSE, FALSE)
  BY DEF AppendFailed
<1>2. PICK no \in BOOLEAN : no = FALSE OBVIOUS
<1>3. Finish(no, no) BY <1>1, <1>2, Zenon
<1>4. CASE Programmed(Merged(owner.rec)) BY <1>1, <1>2, <1>3, <1>4, ProgrammedKeeps
<1>5. CASE UNCHANGED <<journal, stops>>
  <2>1. /\ StopShape /\ EvidenceInv /\ LiveInv /\ Captured /\ stops \in Seq(Seen)
        /\ journal \in Seq(Records) /\ known \subseteq DOMAIN journal /\ FreshInv
    BY <1>1, AppendSetting
  <2>2. /\ owner' \in Owners /\ owner'.pc = "idle" /\ owner'.receipt = NoReceipt
        /\ store' \in Stores /\ Within(store, store') /\ store'.id = store.id
        /\ store'.gen = store.gen /\ (store'.enabled <=> store.enabled)
        /\ (store'.confirmed <=> store.confirmed) /\ (store'.sealed => store.sealed)
        /\ (store'.moved => store'.blocked) /\ (store'.enabled /\ store'.blocked => store'.barrier)
        /\ (store'.confirmed => store'.enabled)
        /\ Unbarred' => ~store.blocked \/ (owner.rec.kind = "fence" /\ no /\ ~store.moved)
    BY <1>1, <1>2, <1>3, FinishIn
  <2>3. Grown BY <1>5, <2>1, GrownBy
  <2>4. LiveInv' BY <1>5, <2>1, <2>2, WithinLive
  <2>5. ~store'.blocked => Unbarred BY <1>2, <2>2 DEF Unbarred
  <2>6. EvidenceInv' BY <1>1, <1>5, <2>1, <2>2, <2>3, <2>4, <2>5, RestSide
  <2>7. FreshInv' BY <1>1, <2>1 DEF FreshInv, ownerSide
  <2> QED BY <1>1, <1>5, <2>1, <2>2, <2>6, <2>7, OwnerTail
<1> QED BY <1>1, <1>4, <1>5

-----------------------------------------------------------------------------
(* The invariant, and what it gives *)

(* A report counts nothing that is not in the open hour, the queue or the   *)
(* restored sum.                                                            *)
LEMMA ReportedLive ==
  ASSUME NEW s \in Stores, NEW e \in Stops, Reported(s)[e] > 0
  PROVE  Live(s, e)
<1> DEFINE I == {j \in Places : InWindow(s.queue[j].hour, hour)}
           f == [i \in I |-> s.queue[i].sum]
           done == IF Expired(s) THEN Nothing ELSE s.done.sum
           open == IF InWindow(s.open.hour, hour) THEN s.open.sum ELSE Nothing
           counted == s.enabled /\ s.confirmed /\ Dated(s)
<1>1. Reported(s) = IF ~counted THEN Nothing ELSE Plus(done, Plus(open, Total(f)))
  BY DEF Reported
<1>2. s.queue \in [Places -> Entries] /\ s.done.sum \in Sums /\ s.open.sum \in Sums
  BY DEF Stores, Dones, Hours
<1>3. Nothing \in Sums /\ ~(Nothing[e] > 0) BY SumsIn
<1>4. /\ done \in Sums /\ (done[e] > 0 => s.done.sum[e] > 0)
      /\ open \in Sums /\ (open[e] > 0 => s.open.sum[e] > 0)
  BY <1>2, <1>3
<1>5. f \in [I -> Sums] /\ I \subseteq Places /\ \A i \in I : f[i] = s.queue[i].sum
  BY <1>2 DEF Entries
<1>6. IsFiniteSet(I)
  <2>1. IsFiniteSet(Places) BY Bounds, FS_Interval DEF Places
  <2> HIDE DEF I
  <2> QED BY <1>5, <2>1, FS_Subset
<1> HIDE DEF I, f, done, open
<1>7. Total(f) \in Sums BY <1>5, <1>6, TotalIn
<1>8. Total(f)[e] > 0 => \E i \in I : f[i][e] > 0 BY <1>5, TotalPositive
<1>9. counted BY <1>1, <1>3
<1>10. Plus(open, Total(f)) \in Sums BY <1>4, <1>7, SumsIn
<1>11. done[e] > 0 \/ open[e] > 0 \/ Total(f)[e] > 0
  BY <1>1, <1>4, <1>7, <1>9, <1>10, SumsIn
<1> QED BY <1>4, <1>5, <1>8, <1>11 DEF Live

(* Every step of the system keeps the invariant.                            *)
THEOREM StopInductive == StopIInv /\ [StopNext]_stopVars => StopIInv'
<1> SUFFICES ASSUME StopIInv, [StopNext]_stopVars PROVE StopIInv' OBVIOUS
<1>1. CASE UNCHANGED stopVars
  <2>1. UNCHANGED <<store, owner, known, journal, checkup, target, plant, sweep, hour, stops, stale>>
    BY <1>1 DEF stopVars
  <2>2. StopShape' BY <2>1 DEF StopIInv, StopShape, StoreShape, FlashShape, PollShape, GhostShape
  <2>3. EvidenceInv' BY <2>1, StillSide DEF StopIInv
  <2>4. CheckupInv'
    BY <2>1 DEF StopIInv, CheckupInv, SourceInv, FreshInv, StaleInv, PendingInv, Pends, Captured,
                Cut, Holds, Covered
  <2> QED BY <2>2, <2>3, <2>4 DEF StopIInv
<1>2. CASE Reboot \/ Detect \/ DropSweep \/ RecordSweep \/ ExpirePending
  BY <1>2, RebootKeeps, DetectKeeps, DropSweepKeeps, RecordSweepKeeps, ExpirePendingKeeps
<1>3. CASE SealForRestart \/ Report \/ Reconfigure \/ CheckupReset \/ Select
  BY <1>3, SealForRestartKeeps, ReportKeeps, ReconfigureKeeps, CheckupResetKeeps, SelectKeeps
<1>4. CASE SetDiagnostics \/ PublishBusy \/ AppendFailed \/ NextHour \/ ClockMoves
  BY <1>4, SetDiagnosticsKeeps, PublishBusyKeeps, AppendFailedKeeps, TimeKeeps
<1>5. CASE FlashStep
  BY <1>5, ServiceBeginKeeps, ServicePublishKeeps, FlashNextKeeps, AppendCommittedKeeps DEF FlashStep
<1> QED BY <1>1, <1>2, <1>3, <1>4, <1>5 DEF StopNext

(* What a report counts was witnessed for the source and under the consent  *)
(* of today and never withdrawn, whatever handlers, sweeps, restarts, clock *)
(* corrections and failed appends come between (stop_observation_store.cpp, *)
(* checkup.cpp).                                                            *)
THEOREM ReportsOwn == StopSpec => []ReportScoped
<1>1. StopInit => StopIInv BY StopInitIInv
<1>2. StopIInv => ReportScoped
  <2> SUFFICES ASSUME StopIInv, NEW e \in DOMAIN stops, Reported(store)[e] > 0
               PROVE  ~stops[e].gone /\ stops[e].id = store.id
    BY DEF ReportScoped
  <2>1. store \in Stores /\ LiveInv /\ stops \in Seq(Seen) /\ Len(stops) <= MaxStops
    BY DEF StopIInv, StopShape, StoreShape, GhostShape, EvidenceInv
  <2>2. e \in Stops BY <2>1, Bounds DEF Stops
  <2>3. Live(store, e) BY <2>1, <2>2, ReportedLive
  <2> QED BY <2>1, <2>2, <2>3 DEF LiveInv, Valid
<1>3. StopIInv /\ [StopNext]_stopVars => StopIInv' BY StopInductive
<1> QED BY <1>1, <1>2, <1>3, PTL DEF StopSpec

(* A fence that is due is never forgotten: what a reset, a change of source *)
(* or of consent has cleared in RAM stays barred from the journal's sum     *)
(* until a fence behind it is committed, and what such a fence has cut off  *)
(* is behind it in the journal (stop_observation_store.cpp: blocked_until_  *)
(* barrier and the barrier's receipt).                                      *)
THEOREM FencesHold == StopSpec => [](EpochInv /\ FenceInv)
<1>1. StopInit => StopIInv BY StopInitIInv
<1>2. StopIInv => EpochInv /\ FenceInv BY DEF StopIInv, EvidenceInv
<1>3. StopIInv /\ [StopNext]_stopVars => StopIInv' BY StopInductive
<1> QED BY <1>1, <1>2, <1>3, PTL DEF StopSpec

-----------------------------------------------------------------------------
(* Sums: a stop is counted once, or the report admits that it may be        *)
(* incomplete.  The invariant is stated of a store, an owner and what       *)
(* became of the stops, since most steps pass through several.              *)

(* A free place is empty, the owner claims at most one place, and a stop is *)
(* in one part of the store, once.                                          *)
Loose(s, e) ==
  s.open.sum[e] > 0 \/ \E i \in Places : s.queue[i].sum[e] > 0 /\ ~s.queue[i].claimed
InRam(s, e) == s.open.sum[e] > 0 \/ \E i \in Places : s.queue[i].sum[e] > 0
Free(s) ==
  /\ s.open.hour = 0 => s.open.sum = Nothing
  /\ \A i \in Places : s.queue[i].hour = 0 => s.queue[i].sum = Nothing /\ ~s.queue[i].claimed
Claims(s) ==
  /\ \A i, j \in Places : s.queue[i].claimed /\ s.queue[j].claimed => i = j
  /\ s.owed = "hour" <=> \E i \in Places : s.queue[i].claimed
Once(s) ==
  \A e \in Stops :
    /\ s.open.sum[e] =< 1 /\ s.done.sum[e] =< 1
    /\ \A i \in Places : s.queue[i].sum[e] =< 1
    /\ \A i, j \in Places : s.queue[i].sum[e] > 0 /\ s.queue[j].sum[e] > 0 => i = j
    /\ s.open.sum[e] > 0 => \A i \in Places : ~(s.queue[i].sum[e] > 0)
    /\ s.done.sum[e] > 0 => ~InRam(s, e)

(* The hour of a part is that of the stops it holds.                        *)
HeldIn(x, e, q) == x.sum[e] > 0 => x.hour = q[e].hour
Timed(s, q) ==
  /\ s.open.hour =< hour
  /\ \A e \in Stops : HeldIn(s.open, e, q) /\ \A i \in Places : HeldIn(s.queue[i], e, q)
Fit(s, q) == Free(s) /\ Claims(s) /\ Once(s) /\ Timed(s, q)

(* Records hold a stop once, and under its hour.                            *)
Recorded(o, q) ==
  /\ \A e \in Stops : o.rec.sum[e] =< 1 /\ HeldIn(o.rec, e, q)
  /\ \A n \in DOMAIN journal, e \in Stops : journal[n].sum[e] =< 1 /\ HeldIn(journal[n], e, q)

(* What the store owes the owner, who knows.                                *)
Owed(s, o) ==
  /\ o.receipt # NoReceipt => o.receipt.ok /\ o.receipt.kind \in {"fence", "hour"}
  /\ o.receipt.kind = "hour" => s.moved \/ ~s.blocked
  /\ o.pc = "append" /\ o.rec.kind = "fence" => s.blocked
  /\ s.barrier => s.blocked
  /\ s.owed # "none" =>
       ~s.moved /\ (o.receipt.kind = s.owed \/ (o.pc = "append" /\ o.rec.kind = s.owed))
  /\ o.pc = "append" => \A i \in Places : s.queue[i].claimed => o.rec.sum = s.queue[i].sum

(* What is known to be in the journal is in no other part but the one the   *)
(* owner has claimed, once it has answered.                                 *)
InIndex(e) == \E n \in known : Holds(n, e)
Apart(s, o) ==
  \A e \in Stops :
    /\ s.done.sum[e] > 0 => InIndex(e)
    /\ InIndex(e) => ~Loose(s, e)
    /\ o.pc = "append" /\ o.rec.sum[e] > 0 => ~Loose(s, e) /\ ~InIndex(e)

(* A stop to be counted is in RAM or, beyond every fence, in the newest     *)
(* record of its hour, and there it is in the sum or the sum is to be made. *)
Stored(s, e, q) ==
  LET b == NewestOf(q[e].hour)
  IN  b \in known /\ Holds(b, e) /\ journal[b].id = s.id /\ b > FenceOf(s.id)
Wanted(e, q) == q[e].here /\ ~q[e].gone /\ InWindow(q[e].hour, hour)
Summed(s, e) == s.done.sum[e] > 0 \/ s.restore \/ s.done.partial
Placed(s, o, q) ==
  /\ ~s.confirmed => \A e \in DOMAIN q : q[e].here => q[e].gone
  /\ \A e \in DOMAIN q : Wanted(e, q) =>
       s.lost \/ InRam(s, e) \/ (Stored(s, e, q) /\ ~s.blocked /\ Summed(s, e))
  /\ o.receipt.kind = "hour" =>
       \A i \in Places, e \in Stops : s.queue[i].claimed /\ s.queue[i].sum[e] > 0 => Stored(s, e, q)

Good(s, o, q) == Fit(s, q) /\ Recorded(o, q) /\ Owed(s, o) /\ Apart(s, o) /\ Placed(s, o, q)

(* The clock and the counters of the model.                                 *)
TimeInv ==
  /\ hour \in 1..MaxHour /\ checkup.pending.hour =< hour
  /\ \A e \in DOMAIN stops : stops[e].hour =< hour
  /\ owner.pc = "rebuild" =>
       owner.hour =< hour /\ \A n \in DOMAIN journal, e \in Stops :
                               Holds(n, e) => stops[e].hour =< owner.hour
  /\ events \in 0..MaxEvents /\ store.id.consent =< events
  /\ http \in {"idle", "reset", "select"}
  /\ owner.pc # "append" => owner.rec = NoRecord
SumInv == Good(store, owner, stops) /\ TimeInv
SumIInv == StopIInv /\ SumInv

LEMMA SumsAt ==
  /\ \A e \in Stops : Nothing[e] = 0
  /\ \A d, e \in Stops : Just(e)[d] = IF d = e THEN 1 ELSE 0
  /\ \A a, b \in Sums : \A e \in Stops :
       Plus(a, b)[e] = a[e] + b[e] /\ a[e] \in Nat /\ b[e] \in Nat
<1>1. \A e \in Stops : Nothing[e] = 0 BY DEF Nothing
<1>2. \A d, e \in Stops : Just(e)[d] = IF d = e THEN 1 ELSE 0 BY <1>1 DEF Just, Nothing
<1> QED BY <1>1, <1>2 DEF Plus, Sums

(* A store's parts are sums.                                                *)
LEMMA PartsIn ==
  ASSUME NEW s \in Stores
  PROVE  /\ s.open \in Hours /\ s.queue \in [Places -> Entries] /\ s.done \in Dones
         /\ s.open.hour \in Nat /\ s.open.sum \in Sums /\ s.done.sum \in Sums
         /\ \A i \in Places : s.queue[i].hour \in Nat /\ s.queue[i].sum \in Sums
                              /\ s.queue[i].claimed \in BOOLEAN
         /\ \A e \in Stops : s.open.sum[e] \in Nat /\ s.done.sum[e] \in Nat
                             /\ \A i \in Places : s.queue[i].sum[e] \in Nat
<1>1. s.open \in Hours /\ s.queue \in [Places -> Entries] /\ s.done \in Dones BY DEF Stores
<1>2. s.open.hour \in Nat /\ s.open.sum \in Sums /\ s.done.sum \in Sums
  BY <1>1 DEF Hours, Dones
<1>3. \A i \in Places : s.queue[i].hour \in Nat /\ s.queue[i].sum \in Sums
                        /\ s.queue[i].claimed \in BOOLEAN
  BY <1>1 DEF Entries
<1> QED BY <1>1, <1>2, <1>3 DEF Sums

(* Evidence put into the queue goes to a place of its hour or a free one.   *)
PutAt(s, q, k, h, sum) ==
  /\ q \in [Places -> Entries] /\ k \in Places /\ \A i \in Places \ {k} : q[i] = s.queue[i]
  /\ ~s.queue[k].claimed /\ (s.queue[k].hour = h \/ s.queue[k].sum = Nothing)
  /\ q[k].hour = h /\ q[k].sum = Plus(s.queue[k].sum, sum) /\ ~q[k].claimed
LEMMA EnqueueIs ==
  ASSUME NEW s \in Stores, Free(s), NEW h \in Nat \ {0}, NEW sum \in Sums
  PROVE  \/ Enqueue(s, h, sum) = [s EXCEPT !.lost = TRUE]
         \/ \E k, q : PutAt(s, q, k, h, sum) /\ Enqueue(s, h, sum) = [s EXCEPT !.queue = q]
<1> DEFINE same == {i \in Places : s.queue[i].hour = h /\ ~s.queue[i].claimed}
           free == {i \in Places : s.queue[i].hour = 0}
<1>1. s.queue \in [Places -> Entries] BY PartsIn
<1>2. same \in SUBSET Nat /\ free \in SUBSET Nat BY Bounds DEF Places
<1>3. CASE same # {}
  <2>1. PICK k \in same : k = Min(same) BY <1>2, <1>3, MinIn
  <2> DEFINE v == Plus(s.queue[k].sum, sum)
             q == [s.queue EXCEPT ![k].sum = v]
  <2>2. Enqueue(s, h, sum) = [s EXCEPT !.queue = q] BY <1>3, <2>1 DEF Enqueue, Stores
  <2>3. v \in Sums BY <1>1, <2>1, SumsIn DEF Entries
  <2> HIDE DEF v
  <2>4. q \in [Places -> Entries] BY <1>1, <2>1, <2>3 DEF Entries
  <2>5. q[k].hour = h /\ q[k].sum = v /\ ~q[k].claimed BY <1>1, <2>1 DEF Entries
  <2>6. PutAt(s, q, k, h, sum)
    <3>1. k \in Places /\ s.queue[k].hour = h /\ ~s.queue[k].claimed BY <2>1
    <3>2. \A i \in Places \ {k} : q[i] = s.queue[i] BY <1>1, <3>1
    <3>3. v = Plus(s.queue[k].sum, sum) BY DEF v
    <3> HIDE DEF q, same, free
    <3> QED BY <2>4, <2>5, <3>1, <3>2, <3>3 DEF PutAt
  <2> QED BY <2>2, <2>6
<1>4. CASE same = {} /\ free # {}
  <2>1. PICK k \in free : k = Min(free) BY <1>2, <1>4, MinIn
  <2> DEFINE new == [hour |-> h, sum |-> sum, claimed |-> FALSE]
             q == [s.queue EXCEPT ![k] = new]
  <2>2. Enqueue(s, h, sum) = [s EXCEPT !.queue = q] BY <1>4, <2>1 DEF Enqueue, Stores
  <2>3. s.queue[k].sum = Nothing /\ ~s.queue[k].claimed BY <2>1 DEF Free
  <2>4. Plus(Nothing, sum) = sum
    <3>1. \A e \in Stops : Nothing[e] + sum[e] = sum[e] BY SumsAt DEF Sums
    <3> QED BY <3>1 DEF Plus, Sums
  <2>5. new \in Entries BY DEF Entries
  <2>6. q \in [Places -> Entries] BY <1>1, <2>1, <2>5
  <2>7. PutAt(s, q, k, h, sum) BY <1>1, <2>1, <2>3, <2>4, <2>6, SMTT(60) DEF PutAt
  <2> QED BY <2>2, <2>7
<1>5. CASE same = {} /\ free = {} BY <1>5 DEF Enqueue
<1> QED BY <1>3, <1>4, <1>5

(* t is s with its evidence moved within RAM, out of the window or given up *)
(* as lost, and with that of the stops N.                                   *)
Evolves(s, t, q, N) ==
  /\ t \in Stores /\ t.id = s.id /\ (t.confirmed <=> s.confirmed) /\ (t.moved <=> s.moved)
  /\ (t.blocked <=> s.blocked) /\ (t.barrier <=> s.barrier)
  /\ Fit(t, q) /\ t.owed = s.owed
  /\ \A i \in Places : /\ t.queue[i].claimed <=> s.queue[i].claimed
                       /\ s.queue[i].claimed => t.queue[i].sum = s.queue[i].sum
  /\ \A e \in Stops : Loose(t, e) => Loose(s, e) \/ e \in N
  /\ (s.lost => t.lost) /\ (s.restore => t.restore)
  /\ t.done = s.done \/ (t.done.sum = Nothing /\ t.restore)
  /\ \A e \in Stops : InRam(s, e) /\ InWindow(q[e].hour, hour) => t.lost \/ InRam(t, e)

LEMMA EvolvesSelf ==
  ASSUME NEW s \in Stores, NEW q, Fit(s, q), NEW N
  PROVE  Evolves(s, s, q, N)
BY DEF Evolves

LEMMA EvolvesTrans ==
  ASSUME NEW s, NEW t, NEW u, NEW q, NEW N, Evolves(s, t, q, N), Evolves(t, u, q, N)
  PROVE  Evolves(s, u, q, N)
BY DEF Evolves

(* A store that differs only in what the sums do not depend on.             *)
LEMMA EvolvesLike ==
  ASSUME NEW s \in Stores, NEW t \in Stores, NEW q, NEW N, Fit(s, q),
         t.id = s.id, t.confirmed <=> s.confirmed, t.moved <=> s.moved,
         t.blocked <=> s.blocked, t.barrier <=> s.barrier, t.owed = s.owed,
         t.open = s.open, t.queue = s.queue, t.done = s.done,
         s.lost => t.lost, s.restore => t.restore
  PROVE  Evolves(s, t, q, N)
<1>1. Fit(t, q) BY DEF Fit, Free, Claims, Once, Timed, InRam
<1> QED BY <1>1 DEF Evolves, Loose, InRam

(* Evidence put into the queue: that of the open hour or some not counted.  *)
Puts(s, t, q, h, sum) ==
  /\ Fit(s, q) /\ h \in Nat \ {0} /\ sum \in Sums /\ \E k : PutAt(s, t.queue, k, h, sum)
  /\ t.open = s.open \/ (t.open = NoHour /\ sum = s.open.sum)
  /\ t.done = s.done /\ t.owed = s.owed
  /\ \A e \in Stops : sum[e] > 0 =>
       /\ sum[e] = 1 /\ q[e].hour = h /\ ~(s.done.sum[e] > 0)
       /\ \A i \in Places : ~(s.queue[i].sum[e] > 0)
       /\ t.open = s.open => ~(s.open.sum[e] > 0)
LEMMA PutIn ==
  ASSUME NEW s \in Stores, NEW t \in Stores, hour \in Nat, NEW q, NEW h, NEW sum,
         Puts(s, t, q, h, sum)
  PROVE  /\ Fit(t, q)
         /\ \A i \in Places : /\ t.queue[i].claimed <=> s.queue[i].claimed
                              /\ s.queue[i].claimed => t.queue[i].sum = s.queue[i].sum
         /\ \A e \in Stops : Loose(t, e) => Loose(s, e) \/ sum[e] > 0
         /\ \A e \in Stops : sum[e] > 0 \/ InRam(s, e) => InRam(t, e)
<1>0. /\ Fit(s, q) /\ h \in Nat \ {0} /\ sum \in Sums
      /\ t.open = s.open \/ (t.open = NoHour /\ sum = s.open.sum)
      /\ t.done = s.done /\ t.owed = s.owed
      /\ \A e \in Stops : sum[e] > 0 =>
           /\ sum[e] = 1 /\ q[e].hour = h /\ ~(s.done.sum[e] > 0)
           /\ \A i \in Places : ~(s.queue[i].sum[e] > 0)
           /\ t.open = s.open => ~(s.open.sum[e] > 0)
  BY DEF Puts
<1> PICK k : PutAt(s, t.queue, k, h, sum) BY DEF Puts
<1> USE <1>0
<1>1. /\ k \in Places /\ \A i \in Places \ {k} : t.queue[i] = s.queue[i]
      /\ ~s.queue[k].claimed /\ (s.queue[k].hour = h \/ s.queue[k].sum = Nothing)
      /\ t.queue[k].hour = h /\ t.queue[k].sum = Plus(s.queue[k].sum, sum) /\ ~t.queue[k].claimed
  BY DEF PutAt
<1>2. /\ s.queue[k].sum \in Sums
      /\ \A e \in Stops : /\ s.open.sum[e] \in Nat /\ s.done.sum[e] \in Nat /\ sum[e] \in Nat
                          /\ \A i \in Places : s.queue[i].sum[e] \in Nat
  BY <1>1, PartsIn DEF Sums
<1>3. NoHour.hour = 0 /\ NoHour.sum = Nothing /\ \A e \in Stops : Nothing[e] = 0
  BY SumsAt DEF NoHour
<1>4. \A e \in Stops : t.queue[k].sum[e] = s.queue[k].sum[e] + sum[e] BY <1>1, <1>2, SumsAt
(* Seen from one stop.                                                      *)
<1>5. ASSUME NEW e \in Stops, sum[e] = 0
      PROVE  /\ \A i \in Places : t.queue[i].sum[e] = s.queue[i].sum[e]
             /\ t.open.sum[e] = s.open.sum[e] \/ (t.open.sum[e] = 0 /\ s.open.sum[e] = 0)
  BY <1>1, <1>2, <1>3, <1>4, <1>5
<1>6. ASSUME NEW e \in Stops, sum[e] > 0
      PROVE  /\ t.queue[k].sum[e] = 1 /\ \A i \in Places \ {k} : t.queue[i].sum[e] = 0
             /\ t.open.sum[e] = 0 /\ t.done.sum[e] = 0 /\ q[e].hour = h
  <2>1. t.queue[k].sum[e] = 1 BY <1>1, <1>2, <1>4, <1>6
  <2>2. t.open.sum[e] = 0 BY <1>2, <1>3, <1>6
  <2> QED BY <1>1, <1>2, <1>6, <2>1, <2>2
<1>7. \A e \in Stops : sum[e] = 0 \/ sum[e] > 0 BY <1>2
<1>8. \A i \in Places : /\ t.queue[i].claimed <=> s.queue[i].claimed
                        /\ s.queue[i].claimed => t.queue[i] = s.queue[i]
  BY <1>1
<1>9. Free(t)
  <2>1. t.open.hour = 0 => t.open.sum = Nothing BY <1>3 DEF Fit, Free
  <2>2. \A i \in Places : t.queue[i].hour = 0 => t.queue[i].sum = Nothing /\ ~t.queue[i].claimed
    BY <1>1 DEF Fit, Free
  <2> QED BY <2>1, <2>2 DEF Free
<1>10. Claims(t) BY <1>8 DEF Fit, Claims
<1>11. Once(t)
  <2> SUFFICES ASSUME NEW e \in Stops
               PROVE  /\ t.open.sum[e] =< 1 /\ t.done.sum[e] =< 1
                      /\ \A i \in Places : t.queue[i].sum[e] =< 1
                      /\ \A i, j \in Places : t.queue[i].sum[e] > 0 /\ t.queue[j].sum[e] > 0 => i = j
                      /\ t.open.sum[e] > 0 => \A i \in Places : ~(t.queue[i].sum[e] > 0)
                      /\ t.done.sum[e] > 0 => ~InRam(t, e)
    BY DEF Once
  <2>1. CASE sum[e] = 0 BY <1>2, <1>5, <2>1 DEF Fit, Once, InRam
  <2>2. CASE sum[e] > 0
    <3>1. /\ t.queue[k].sum[e] = 1 /\ \A i \in Places \ {k} : t.queue[i].sum[e] = 0
          /\ t.open.sum[e] = 0 /\ t.done.sum[e] = 0
      BY <1>6, <2>2
    <3> QED BY <3>1
  <2> QED BY <1>7, <2>1, <2>2
<1>12. Timed(t, q)
  <2>1. t.open.hour =< hour
    <3>1. s.open.hour =< hour /\ s.open.hour \in Nat BY PartsIn DEF Fit, Timed
    <3>2. CASE t.open = s.open BY <3>1, <3>2
    <3>3. CASE t.open = NoHour BY <1>3, <3>3
    <3> QED BY <3>2, <3>3
  <2>2. ASSUME NEW e \in Stops PROVE HeldIn(t.open, e, q) BY <1>2, <1>3 DEF Fit, Timed, HeldIn
  <2>3. ASSUME NEW e \in Stops, NEW i \in Places PROVE HeldIn(t.queue[i], e, q)
    <3>1. CASE i # k BY <1>1, <3>1 DEF Fit, Timed
    <3>2. CASE i = k /\ sum[e] > 0 BY <1>1, <1>6, <3>2 DEF HeldIn
    <3>3. CASE i = k /\ sum[e] = 0
      <4>1. t.queue[i].sum[e] = s.queue[k].sum[e] BY <1>5, <3>3
      <4>2. s.queue[k].sum = Nothing => ~(t.queue[i].sum[e] > 0) BY <1>3, <4>1
      <4> QED BY <1>1, <3>3, <4>1, <4>2 DEF Fit, Timed, HeldIn
    <3> QED BY <1>7, <3>1, <3>2, <3>3
  <2> QED BY <2>1, <2>2, <2>3 DEF Timed
<1>13. Fit(t, q) BY <1>9, <1>10, <1>11, <1>12 DEF Fit
<1>14. \A e \in Stops : Loose(t, e) => Loose(s, e) \/ sum[e] > 0
  BY <1>5, <1>7, <1>8, <1>2 DEF Loose
<1>15. \A e \in Stops : sum[e] > 0 \/ InRam(s, e) => InRam(t, e)
  <2> SUFFICES ASSUME NEW e \in Stops, sum[e] > 0 \/ InRam(s, e) PROVE InRam(t, e) OBVIOUS
  <2>1. CASE sum[e] > 0
    <3>1. t.queue[k].sum[e] > 0 BY <1>6, <2>1
    <3> QED BY <1>1, <3>1 DEF InRam
  <2>2. CASE sum[e] = 0
    <3>1. \A i \in Places : t.queue[i].sum[e] = s.queue[i].sum[e] BY <1>5, <2>2
    <3>2. s.open.sum[e] > 0 => t.open.sum[e] > 0 BY <1>2, <1>5, <2>2
    <3> QED BY <2>2, <3>1, <3>2, <1>2 DEF InRam
  <2> QED BY <1>7, <2>1, <2>2
<1> QED BY <1>8, <1>13, <1>14, <1>15

(* Parts kept, emptied or no longer claimed.                                *)
LEMMA DropIn ==
  ASSUME NEW s \in Stores, NEW t \in Stores, NEW q, hour \in Nat,
         Free(s), Once(s), Timed(s, q),
         t.open = s.open \/ t.open = NoHour,
         \A i \in Places :
           \/ /\ t.queue[i].sum = s.queue[i].sum /\ t.queue[i].hour = s.queue[i].hour
              /\ t.queue[i].claimed => s.queue[i].claimed
           \/ t.queue[i] = NoEntry,
         t.done.sum = s.done.sum \/ t.done.sum = Nothing
  PROVE  /\ Free(t) /\ Once(t) /\ Timed(t, q)
         /\ \A e \in Stops : InRam(t, e) => InRam(s, e)
<1>1. \A e \in Stops : Nothing[e] = 0 BY SumsAt
<1>2. /\ NoHour.hour = 0 /\ NoHour.sum = Nothing
      /\ NoEntry.hour = 0 /\ NoEntry.sum = Nothing /\ ~NoEntry.claimed
  BY DEF NoHour, NoEntry
<1>3. /\ s.open.hour \in Nat
      /\ \A e \in Stops : /\ s.open.sum[e] \in Nat /\ s.done.sum[e] \in Nat
                          /\ \A i \in Places : s.queue[i].sum[e] \in Nat
  BY PartsIn
<1>4. \A e \in Stops :
        /\ t.open.sum[e] = s.open.sum[e] \/ t.open.sum[e] = 0
        /\ t.done.sum[e] = s.done.sum[e] \/ t.done.sum[e] = 0
        /\ \A i \in Places : t.queue[i].sum[e] = s.queue[i].sum[e] \/ t.queue[i].sum[e] = 0
  BY <1>1, <1>2
<1>5. Free(t) BY <1>2 DEF Free
<1>6. \A e \in Stops :
        /\ t.open.sum[e] > 0 => s.open.sum[e] > 0 /\ t.open.sum[e] = s.open.sum[e]
        /\ t.done.sum[e] > 0 => s.done.sum[e] > 0 /\ t.done.sum[e] = s.done.sum[e]
        /\ \A i \in Places : t.queue[i].sum[e] > 0 => s.queue[i].sum[e] > 0 /\ t.queue[i].sum[e] = s.queue[i].sum[e]
  BY <1>3, <1>4
<1>7. \A e \in Stops : InRam(t, e) => InRam(s, e) BY <1>6 DEF InRam
<1>8. Once(t)
  <2>1. \A e \in Stops : /\ t.open.sum[e] =< 1 /\ t.done.sum[e] =< 1
                         /\ \A i \in Places : t.queue[i].sum[e] =< 1
    BY <1>3, <1>4 DEF Once
  <2>2. \A e \in Stops, i, j \in Places : t.queue[i].sum[e] > 0 /\ t.queue[j].sum[e] > 0 => i = j
    BY <1>6 DEF Once
  <2>3. \A e \in Stops : t.open.sum[e] > 0 => \A i \in Places : ~(t.queue[i].sum[e] > 0)
    BY <1>6 DEF Once
  <2>4. \A e \in Stops : t.done.sum[e] > 0 => ~InRam(t, e) BY <1>6, <1>7 DEF Once
  <2> QED BY <2>1, <2>2, <2>3, <2>4 DEF Once
<1>9. Timed(t, q)
  <2>1. t.open.hour =< hour
    <3>1. CASE t.open = s.open BY <3>1 DEF Timed
    <3>2. CASE t.open = NoHour BY <1>2, <3>2
    <3> QED BY <3>1, <3>2
  <2>2. ASSUME NEW e \in Stops PROVE HeldIn(t.open, e, q)
    <3>1. CASE t.open = s.open BY <3>1 DEF Timed
    <3>2. CASE t.open = NoHour BY <1>1, <1>2, <3>2 DEF HeldIn
    <3> QED BY <3>1, <3>2
  <2>3. ASSUME NEW e \in Stops, NEW i \in Places PROVE HeldIn(t.queue[i], e, q)
    <3>1. CASE t.queue[i].sum = s.queue[i].sum /\ t.queue[i].hour = s.queue[i].hour
      BY <3>1 DEF Timed, HeldIn
    <3>2. CASE t.queue[i] = NoEntry BY <1>1, <1>2, <3>2 DEF HeldIn
    <3> QED BY <3>1, <3>2
  <2> QED BY <2>1, <2>2, <2>3 DEF Timed
<1> QED BY <1>5, <1>7, <1>8, <1>9

LEMMA CloseEvolves ==
  ASSUME NEW s \in Stores, NEW q, Fit(s, q), NEW N, hour \in Nat
  PROVE  Evolves(s, CloseOpen(s), q, N)
<1> DEFINE t == CloseOpen(s)
           h == s.open.hour
           sum == s.open.sum
           c == Enqueue(s, h, sum)
<1>1. CASE h = 0 BY <1>1, EvolvesSelf DEF CloseOpen
<1>2. CASE h # 0
  <2>1. t = [c EXCEPT !.open = NoHour] BY <1>2 DEF CloseOpen
  <2>2. h \in Nat \ {0} /\ sum \in Sums BY <1>2, PartsIn
  <2>3. t \in Stores BY CloseIn DEF Tame
  <2>4. \/ c = [s EXCEPT !.lost = TRUE]
        \/ \E k, r : PutAt(s, r, k, h, sum) /\ c = [s EXCEPT !.queue = r]
    BY <2>2, EnqueueIs, ZenonT(60) DEF Fit
  <2> HIDE DEF t, c
  <2>5. CASE c = [s EXCEPT !.lost = TRUE]
    <3>1. /\ t.open = NoHour /\ t.queue = s.queue /\ t.done = s.done /\ t.owed = s.owed /\ t.lost
          /\ t.id = s.id /\ (t.confirmed <=> s.confirmed) /\ (t.moved <=> s.moved)
          /\ (t.blocked <=> s.blocked) /\ (t.barrier <=> s.barrier) /\ (t.restore <=> s.restore)
      BY <2>1, <2>5 DEF Stores
    <3>2. Free(t) /\ Once(t) /\ Timed(t, q) BY <2>3, <3>1, DropIn DEF Fit
    <3>3. Claims(t) BY <3>1 DEF Fit, Claims
    <3>4. \A e \in Stops : ~(t.open.sum[e] > 0) BY <3>1, SumsAt DEF NoHour
    <3> QED BY <2>3, <3>1, <3>2, <3>3, <3>4 DEF Evolves, Fit, Loose, t
  <2>6. CASE \E k, r : PutAt(s, r, k, h, sum) /\ c = [s EXCEPT !.queue = r]
    <3>1. PICK k, r : PutAt(s, r, k, h, sum) /\ c = [s EXCEPT !.queue = r] BY <2>6
    <3>2. /\ t.open = NoHour /\ t.queue = r /\ t.done = s.done /\ t.owed = s.owed /\ (t.lost <=> s.lost)
          /\ t.id = s.id /\ (t.confirmed <=> s.confirmed) /\ (t.moved <=> s.moved)
          /\ (t.blocked <=> s.blocked) /\ (t.barrier <=> s.barrier) /\ (t.restore <=> s.restore)
      BY <2>1, <3>1 DEF Stores
    <3>3. \A e \in Stops : sum[e] > 0 =>
            /\ sum[e] = 1 /\ q[e].hour = h /\ ~(s.done.sum[e] > 0)
            /\ \A i \in Places : ~(s.queue[i].sum[e] > 0)
      <4> SUFFICES ASSUME NEW e \in Stops, sum[e] > 0
                   PROVE  /\ sum[e] = 1 /\ q[e].hour = h /\ ~(s.done.sum[e] > 0)
                          /\ \A i \in Places : ~(s.queue[i].sum[e] > 0)
        OBVIOUS
      <4>1. sum[e] \in Nat BY <2>2 DEF Sums
      <4>2. sum[e] =< 1 /\ ~(s.done.sum[e] > 0) /\ \A i \in Places : ~(s.queue[i].sum[e] > 0)
        BY DEF Fit, Once, InRam
      <4>3. q[e].hour = h BY DEF Fit, Timed, HeldIn
      <4> QED BY <4>1, <4>2, <4>3
    <3>5. t.open = s.open => \A e \in Stops : ~(s.open.sum[e] > 0)
      BY <3>2, SumsAt DEF NoHour
    <3>6. PutAt(s, t.queue, k, h, sum) BY <3>1, <3>2
    <3>7. \A e \in Stops : sum[e] > 0 =>
            /\ sum[e] = 1 /\ q[e].hour = h /\ ~(s.done.sum[e] > 0)
            /\ \A i \in Places : ~(s.queue[i].sum[e] > 0)
            /\ t.open = s.open => ~(s.open.sum[e] > 0)
      BY <3>3, <3>5
    <3>8. t.open = NoHour /\ sum = s.open.sum BY <3>2
    <3> HIDE DEF h, sum
    <3>4. /\ Fit(t, q)
          /\ \A i \in Places : /\ t.queue[i].claimed <=> s.queue[i].claimed
                               /\ s.queue[i].claimed => t.queue[i].sum = s.queue[i].sum
          /\ \A e \in Stops : Loose(t, e) => Loose(s, e) \/ sum[e] > 0
          /\ \A e \in Stops : sum[e] > 0 \/ InRam(s, e) => InRam(t, e)
      <4>1. t.done = s.done /\ t.owed = s.owed BY <3>2
      <4>2. Puts(s, t, q, h, sum) BY <2>2, <3>6, <3>7, <3>8, <4>1 DEF Puts
      <4> QED BY <2>3, <4>2, PutIn
    <3> QED BY <2>3, <3>2, <3>4 DEF Evolves, Loose, t, sum
  <2> QED BY <2>4, <2>5, <2>6
<1> QED BY <1>1, <1>2

LEMMA ExpireEvolves ==
  ASSUME NEW s \in Stores, NEW q, Fit(s, q), NEW N, hour \in Nat
  PROVE  Evolves(s, ExpireLive(s), q, N)
<1> DEFINE c == IF hour > s.open.hour THEN CloseOpen(s) ELSE s
           r == [i \in Places |-> IF InWindow(c.queue[i].hour, hour) \/ c.queue[i].claimed
                                  THEN c.queue[i] ELSE NoEntry]
           x == [c EXCEPT !.queue = r]
           t == ExpireLive(s)
<1>1. c \in Stores /\ Evolves(s, c, q, N)
  <2>1. Evolves(s, c, q, N) BY EvolvesSelf, CloseEvolves
  <2> QED BY <2>1 DEF Evolves
<1>2. t = IF ~Expired(x) THEN x
          ELSE [x EXCEPT !.done = [Emptied EXCEPT !.expiry = x.done.expiry], !.restore = TRUE]
  BY DEF ExpireLive
<1> HIDE DEF c, t
<1>3. r \in [Places -> Entries]
  <2> DEFINE K == {i \in Places : InWindow(c.queue[i].hour, hour) \/ c.queue[i].claimed}
  <2>1. r = [i \in Places |-> IF i \in K THEN c.queue[i] ELSE NoEntry] OBVIOUS
  <2> HIDE DEF K, r
  <2> QED BY <1>1, <2>1, ThinnedIn
<1>4. \A i \in Places :
        /\ c.queue[i].claimed => r[i] = c.queue[i]
        /\ r[i] = c.queue[i] \/ r[i] = NoEntry
        /\ InWindow(c.queue[i].hour, hour) => r[i] = c.queue[i]
  OBVIOUS
<1> HIDE DEF r
<1>5. x \in Stores BY <1>1, <1>3 DEF Stores
<1>6. /\ x.queue = r /\ x.open = c.open /\ x.done = c.done /\ x.owed = c.owed
      /\ x.id = c.id /\ (x.confirmed <=> c.confirmed) /\ (x.moved <=> c.moved)
      /\ (x.blocked <=> c.blocked) /\ (x.barrier <=> c.barrier)
      /\ (x.lost <=> c.lost) /\ (x.restore <=> c.restore)
  BY <1>1 DEF Stores
<1> HIDE DEF x
<1>7. Fit(c, q) BY <1>1 DEF Evolves
<1>8. ~NoEntry.claimed /\ \A e \in Stops : ~(NoEntry.sum[e] > 0) BY SumsAt DEF NoEntry
<1>9. Evolves(c, x, q, N)
  <2>1. Free(x) /\ Once(x) /\ Timed(x, q) BY <1>1, <1>4, <1>5, <1>6, <1>7, DropIn DEF Fit
  <2>2. \A i \in Places : /\ x.queue[i].claimed <=> c.queue[i].claimed
                          /\ c.queue[i].claimed => x.queue[i].sum = c.queue[i].sum
    BY <1>4, <1>6, <1>8
  <2>3. Claims(x) BY <1>6, <1>7, <2>2 DEF Fit, Claims
  <2>4. \A e \in Stops : Loose(x, e) => Loose(c, e) BY <1>4, <1>6, <1>8 DEF Loose
  <2>5. ASSUME NEW e \in Stops, InRam(c, e), InWindow(q[e].hour, hour) PROVE InRam(x, e)
    <3>1. CASE c.open.sum[e] > 0 BY <1>6, <3>1 DEF InRam
    <3>2. CASE \E i \in Places : c.queue[i].sum[e] > 0
      <4>1. PICK i \in Places : c.queue[i].sum[e] > 0 BY <3>2
      <4>2. c.queue[i].hour = q[e].hour BY <1>7, <4>1 DEF Fit, Timed, HeldIn
      <4>3. x.queue[i] = c.queue[i] BY <1>4, <1>6, <2>5, <4>2
      <4> QED BY <4>1, <4>3 DEF InRam
    <3> QED BY <2>5, <3>1, <3>2 DEF InRam
  <2> QED BY <1>5, <1>6, <2>1, <2>2, <2>3, <2>4, <2>5 DEF Evolves, Fit
<1>10. Evolves(s, x, q, N) BY <1>1, <1>9, EvolvesTrans
<1>11. CASE ~Expired(x) BY <1>2, <1>10, <1>11 DEF t
<1>12. CASE Expired(x)
  <2> DEFINE d == [Emptied EXCEPT !.expiry = x.done.expiry]
  <2>1. x.done.expiry \in Nat BY <1>5 DEF Stores, Dones
  <2>2. d \in Dones /\ d.sum = Nothing BY <2>1, EmptyParts DEF Emptied, Dones
  <2> HIDE DEF d
  <2>3. t = [x EXCEPT !.done = d, !.restore = TRUE] BY <1>2, <1>12 DEF d
  <2> HIDE DEF t
  <2>4. t \in Stores BY <1>5, <2>2, <2>3 DEF Stores
  <2>5. /\ t.queue = x.queue /\ t.open = x.open /\ t.done = d /\ t.owed = x.owed
        /\ t.id = x.id /\ (t.confirmed <=> x.confirmed) /\ (t.moved <=> x.moved)
        /\ (t.blocked <=> x.blocked) /\ (t.barrier <=> x.barrier)
        /\ (t.lost <=> x.lost) /\ t.restore
    BY <1>5, <2>3 DEF Stores
  <2>6. Fit(x, q) BY <1>9 DEF Evolves
  <2>7. Free(t) /\ Once(t) /\ Timed(t, q) BY <1>5, <2>2, <2>4, <2>5, <2>6, DropIn DEF Fit
  <2>8. Claims(t) BY <2>5, <2>6 DEF Fit, Claims
  <2>9. Evolves(x, t, q, N) BY <2>2, <2>4, <2>5, <2>7, <2>8 DEF Evolves, Fit, Loose, InRam
  <2> QED BY <1>10, <2>9, EvolvesTrans DEF t
<1> QED BY <1>11, <1>12

LEMMA LostEvolves ==
  ASSUME NEW s \in Stores, NEW q, Fit(s, q), NEW N
  PROVE  Evolves(s, [s EXCEPT !.lost = TRUE], q, N) /\ [s EXCEPT !.lost = TRUE].lost
<1> DEFINE t == [s EXCEPT !.lost = TRUE]
<1>1. t \in Stores BY DEF Stores
<1>2. /\ t.id = s.id /\ (t.confirmed <=> s.confirmed) /\ (t.moved <=> s.moved)
      /\ (t.blocked <=> s.blocked) /\ (t.barrier <=> s.barrier) /\ t.owed = s.owed
      /\ t.open = s.open /\ t.queue = s.queue /\ t.done = s.done
      /\ t.lost /\ (t.restore <=> s.restore)
  BY DEF Stores
<1> HIDE DEF t
<1> QED BY <1>1, <1>2, EvolvesLike DEF t

LEMMA SealEvolves ==
  ASSUME NEW s \in Stores, NEW q, Fit(s, q), NEW N, hour \in Nat
  PROVE  Evolves(s, SealStore(s), q, N)
<1> DEFINE c == CloseOpen(s)
           t == SealStore(s)
<1>1. Evolves(s, c, q, N) BY CloseEvolves
<1>2. c \in Stores /\ Fit(c, q) BY <1>1 DEF Evolves
<1>3. t = [c EXCEPT !.sealed = TRUE] BY DEF SealStore
<1> HIDE DEF c, t
<1>4. t \in Stores BY <1>2, <1>3 DEF Stores
<1>5. /\ t.id = c.id /\ (t.confirmed <=> c.confirmed) /\ (t.moved <=> c.moved)
      /\ (t.blocked <=> c.blocked) /\ (t.barrier <=> c.barrier) /\ t.owed = c.owed
      /\ t.open = c.open /\ t.queue = c.queue /\ t.done = c.done
      /\ (t.lost <=> c.lost) /\ (t.restore <=> c.restore)
  BY <1>2, <1>3 DEF Stores
<1>6. Evolves(c, t, q, N) BY <1>2, <1>4, <1>5, EvolvesLike
<1> QED BY <1>1, <1>6, EvolvesTrans DEF t

LEMMA OpenHourEvolves ==
  ASSUME NEW s \in Stores, NEW q, Fit(s, q), NEW N, hour \in Nat
  PROVE  Evolves(s, OpenHour(s), q, N)
<1> DEFINE x == ExpireLive(s)
           c == CloseOpen(x)
           new == [NoHour EXCEPT !.hour = hour]
           t == OpenHour(s)
<1>1. Evolves(s, x, q, N) BY ExpireEvolves
<1>2. x \in Stores /\ Fit(x, q) BY <1>1 DEF Evolves
<1>3. Evolves(x, c, q, N) BY <1>2, CloseEvolves
<1>4. c \in Stores /\ Fit(c, q) BY <1>3 DEF Evolves
<1>5. t = IF x.open.hour = hour THEN x ELSE [c EXCEPT !.open = new] BY DEF OpenHour
<1>6. new \in Hours /\ new.hour = hour /\ new.sum = Nothing BY EmptyParts DEF NoHour, Hours
<1>7. c.open.sum = Nothing
  <2>1. CASE x.open.hour = 0
    <3>1. c = x BY <2>1 DEF CloseOpen
    <3> QED BY <1>2, <2>1, <3>1 DEF Fit, Free
  <2>2. CASE x.open.hour # 0
    <3> DEFINE y == Enqueue(x, x.open.hour, x.open.sum)
    <3>1. c = [y EXCEPT !.open = NoHour] BY <2>2 DEF CloseOpen
    <3>2. x.open.hour \in Nat /\ x.open.sum \in Sums BY <1>2, PartsIn
    <3>3. y \in Stores BY <1>2, <3>2, EnqueueIn
    <3> HIDE DEF y, c
    <3>4. c.open = NoHour BY <3>1, <3>3 DEF Stores
    <3> QED BY <3>4 DEF NoHour
  <2> QED BY <2>1, <2>2
<1> HIDE DEF x, c, new, t
<1>8. CASE x.open.hour = hour BY <1>1, <1>5, <1>8 DEF t
<1>9. CASE x.open.hour # hour
  <2>1. t = [c EXCEPT !.open = new] BY <1>5, <1>9
  <2>2. t \in Stores BY <1>4, <1>6, <2>1 DEF Stores
  <2>3. /\ t.open = new /\ t.queue = c.queue /\ t.done = c.done /\ t.owed = c.owed
        /\ t.id = c.id /\ (t.confirmed <=> c.confirmed) /\ (t.moved <=> c.moved)
        /\ (t.blocked <=> c.blocked) /\ (t.barrier <=> c.barrier)
        /\ (t.lost <=> c.lost) /\ (t.restore <=> c.restore)
    BY <1>4, <2>1 DEF Stores
  <2>4. t.open.sum = c.open.sum /\ t.open.hour = hour BY <1>6, <1>7, <2>3
  <2>5. \A e \in Stops : ~(t.open.sum[e] > 0) BY <1>6, <2>3, SumsAt
  <2>6. Fit(t, q)
    <3>1. Free(t) BY <1>4, <1>6, <2>3 DEF Fit, Free
    <3>2. Claims(t) BY <1>4, <2>3 DEF Fit, Claims
    <3>3. Once(t) BY <1>4, <2>3, <2>4 DEF Fit, Once, InRam
    <3>4. Timed(t, q) BY <1>4, <2>3, <2>4, <2>5 DEF Fit, Timed, HeldIn
    <3> QED BY <3>1, <3>2, <3>3, <3>4 DEF Fit
  <2>7. Evolves(c, t, q, N) BY <2>2, <2>3, <2>4, <2>6 DEF Evolves, Loose, InRam
  <2>8. Evolves(s, c, q, N) BY <1>1, <1>3, EvolvesTrans
  <2> QED BY <2>7, <2>8, EvolvesTrans DEF t
<1> QED BY <1>8, <1>9

(* A stop that the store counts nowhere.                                    *)
Out(s, e) == ~InRam(s, e) /\ ~(s.done.sum[e] > 0)
LEMMA EvolvesOut ==
  ASSUME NEW s \in Stores, NEW t, NEW q, NEW N, Evolves(s, t, q, N),
         NEW e \in Stops, e \notin N, Out(s, e)
  PROVE  Out(t, e)
<1>1. \A i \in Places : s.queue[i].claimed \in BOOLEAN BY PartsIn
<1>2. ~Loose(s, e) /\ ~Loose(t, e) BY DEF Evolves, Out, Loose, InRam
<1>3. \A i \in Places : ~(t.queue[i].sum[e] > 0)
  <2> SUFFICES ASSUME NEW i \in Places, t.queue[i].sum[e] > 0 PROVE FALSE OBVIOUS
  <2>1. t.queue[i].claimed BY <1>2 DEF Loose
  <2>2. s.queue[i].sum[e] > 0 BY <2>1 DEF Evolves
  <2> QED BY <2>2 DEF Out, InRam
<1>4. ~InRam(t, e) BY <1>2, <1>3 DEF InRam, Loose
<1>5. ~(t.done.sum[e] > 0) BY SumsAt DEF Evolves, Out
<1> QED BY <1>4, <1>5 DEF Out

(* A stop booked is in RAM or given up as lost.                             *)
LEMMA BookEvolves ==
  ASSUME NEW s \in Stores, NEW q, Fit(s, q), hour \in Nat, NEW e \in Stops, Out(s, e),
         NEW p \in Pendings, q[e].hour = p.hour
  PROVE  LET t == Book(s, e, p) IN Evolves(s, t, q, {e}) /\ (t.lost \/ InRam(t, e))
<1> DEFINE t == Book(s, e, p)
           sum == Just(e)
           h == p.hour
<1>1. h \in Nat BY DEF Pendings
<1>2. sum \in Sums /\ \A d \in Stops : sum[d] = (IF d = e THEN 1 ELSE 0) BY SumsIn, SumsAt
<1>3. \A d \in Stops : sum[d] > 0 => d = e /\ sum[d] = 1 BY <1>2
<1>4. sum[e] = 1 BY <1>2
<1>5. t \in Stores BY BookIn
<1> HIDE DEF sum
<1>6. CASE p.gen # s.gen \/ ~InWindow(h, hour)
  <2>1. t = [s EXCEPT !.lost = TRUE] BY <1>6 DEF Book
  <2> QED BY <2>1, LostEvolves
<1>7. CASE ~(p.gen # s.gen \/ ~InWindow(h, hour)) /\ h = s.open.hour
  <2> DEFINE o == [s.open EXCEPT !.sum = Plus(s.open.sum, sum)]
  <2>1. t = [s EXCEPT !.open = o] BY <1>7 DEF Book, Stores, sum
  <2> HIDE DEF t
  <2>2. s.open.sum \in Sums /\ s.open \in Hours BY PartsIn
  <2>3. o.hour = s.open.hour /\ o.sum = Plus(s.open.sum, sum) BY <2>2 DEF Hours
  <2> HIDE DEF o
  <2>4. /\ t.open = o /\ t.queue = s.queue /\ t.done = s.done /\ t.owed = s.owed
        /\ t.id = s.id /\ (t.confirmed <=> s.confirmed) /\ (t.moved <=> s.moved)
        /\ (t.blocked <=> s.blocked) /\ (t.barrier <=> s.barrier)
        /\ (t.lost <=> s.lost) /\ (t.restore <=> s.restore)
    BY <2>1 DEF Stores
  <2>5. \A d \in Stops : s.open.sum[d] \in Nat /\ t.open.sum[d] = s.open.sum[d] + sum[d]
    BY <1>2, <2>2, <2>3, <2>4, SumsAt
  <2>6. s.open.sum[e] = 0 /\ t.open.sum[e] = 1 BY <1>4, <2>5 DEF Out, InRam
  <2>7. \A d \in Stops : d # e => t.open.sum[d] = s.open.sum[d] BY <1>2, <2>5
  <2>8. h > 0 BY <1>7 DEF InWindow
  <2>9. Free(t) BY <1>7, <2>3, <2>4, <2>8 DEF Fit, Free
  <2>10. Claims(t) BY <2>4 DEF Fit, Claims
  <2>11. Once(t)
    <3> SUFFICES ASSUME NEW d \in Stops
                 PROVE  /\ t.open.sum[d] =< 1 /\ t.done.sum[d] =< 1
                        /\ \A i \in Places : t.queue[i].sum[d] =< 1
                        /\ \A i, j \in Places : t.queue[i].sum[d] > 0 /\ t.queue[j].sum[d] > 0 => i = j
                        /\ t.open.sum[d] > 0 => \A i \in Places : ~(t.queue[i].sum[d] > 0)
                        /\ t.done.sum[d] > 0 => ~InRam(t, d)
      BY DEF Once
    <3>1. CASE d = e BY <2>4, <2>6, <3>1 DEF Fit, Once, Out, InRam
    <3>2. CASE d # e BY <2>4, <2>7, <3>2 DEF Fit, Once, InRam
    <3> QED BY <3>1, <3>2
  <2>12. Timed(t, q)
    <3>1. t.open.hour =< hour BY <2>3, <2>4 DEF Fit, Timed
    <3>2. \A d \in Stops : HeldIn(t.open, d, q)
      BY <1>7, <2>3, <2>4, <2>7 DEF Fit, Timed, HeldIn
    <3> QED BY <2>4, <3>1, <3>2 DEF Fit, Timed
  <2>13. \A d \in Stops : Loose(t, d) => Loose(s, d) \/ d = e BY <2>4, <2>7 DEF Loose
  <2>14. \A d \in Stops : InRam(s, d) => InRam(t, d) BY <2>4, <2>6, <2>7 DEF InRam
  <2>15. InRam(t, e) BY <2>6 DEF InRam
  <2> HIDE DEF h
  <2> QED BY <1>5, <2>4, <2>9, <2>10, <2>11, <2>12, <2>13, <2>14, <2>15 DEF Evolves, Fit, t
<1>8. CASE ~(p.gen # s.gen \/ ~InWindow(h, hour)) /\ h # s.open.hour
  <2>1. h \in Nat \ {0} BY <1>1, <1>8 DEF InWindow
  <2> DEFINE c == Enqueue(s, h, sum)
  <2>2. t = c BY <1>8 DEF Book, sum
  <2> HIDE DEF t, h
  <2>3. \/ c = [s EXCEPT !.lost = TRUE]
        \/ \E k, r : PutAt(s, r, k, h, sum) /\ c = [s EXCEPT !.queue = r]
    BY <1>2, <2>1, EnqueueIs DEF Fit
  <2> HIDE DEF c
  <2>4. CASE c = [s EXCEPT !.lost = TRUE] BY <2>2, <2>4, LostEvolves DEF t
  <2>5. CASE \E k, r : PutAt(s, r, k, h, sum) /\ c = [s EXCEPT !.queue = r]
    <3>1. PICK k, r : PutAt(s, r, k, h, sum) /\ c = [s EXCEPT !.queue = r] BY <2>5
    <3>2. /\ t.open = s.open /\ t.queue = r /\ t.done = s.done /\ t.owed = s.owed
          /\ t.id = s.id /\ (t.confirmed <=> s.confirmed) /\ (t.moved <=> s.moved)
          /\ (t.blocked <=> s.blocked) /\ (t.barrier <=> s.barrier)
          /\ (t.lost <=> s.lost) /\ (t.restore <=> s.restore)
      BY <2>2, <3>1 DEF Stores
    <3>3. \A d \in Stops : sum[d] > 0 =>
            /\ sum[d] = 1 /\ q[d].hour = h /\ ~(s.done.sum[d] > 0)
            /\ \A i \in Places : ~(s.queue[i].sum[d] > 0)
            /\ t.open = s.open => ~(s.open.sum[d] > 0)
      BY <1>3 DEF Out, InRam, h
    <3>4. Puts(s, t, q, h, sum) BY <1>2, <2>1, <3>1, <3>2, <3>3 DEF Puts
    <3>5. /\ Fit(t, q)
          /\ \A i \in Places : /\ t.queue[i].claimed <=> s.queue[i].claimed
                               /\ s.queue[i].claimed => t.queue[i].sum = s.queue[i].sum
          /\ \A d \in Stops : Loose(t, d) => Loose(s, d) \/ sum[d] > 0
          /\ \A d \in Stops : sum[d] > 0 \/ InRam(s, d) => InRam(t, d)
      BY <1>5, <3>4, PutIn
    <3>6. \A d \in Stops : Loose(t, d) => Loose(s, d) \/ d \in {e} BY <1>3, <3>5
    <3>7. InRam(t, e) BY <1>4, <3>5
    <3> QED BY <1>5, <3>2, <3>5, <3>6, <3>7 DEF Evolves, t
  <2> QED BY <2>3, <2>4, <2>5
<1> QED BY <1>6, <1>7, <1>8

(* A sample, and a stop finalised with it.                                  *)
LEMMA SampleEvolves ==
  ASSUME NEW s \in Stores, NEW q, Fit(s, q), NEW N, hour \in Nat, s.clock # "moved"
  PROVE  Evolves(s, RecordSample(s), q, N)
BY EvolvesSelf, OpenHourEvolves, ClockedIn DEF RecordSample, Dated

LEMMA StopEvolves ==
  ASSUME NEW s \in Stores, NEW q, Fit(s, q), hour \in Nat, s.clock # "moved", Accepts(s),
         NEW p \in Pendings, NEW e \in Stops, e = Len(stops) + 1, Out(s, e), q[e].hour = p.hour
  PROVE  LET t == RecordStop(s, p) IN Evolves(s, t, q, {e}) /\ (t.lost \/ InRam(t, e))
<1> DEFINE t == RecordStop(s, p)
           o == OpenHour(s)
<1>1. CASE ~Dated(s)
  <2>1. t = [s EXCEPT !.lost = TRUE] BY <1>1, ClockedIn DEF RecordStop
  <2> QED BY <2>1, LostEvolves
<1>2. CASE Dated(s)
  <2>1. t = Book(o, e, p) BY <1>2, ClockedIn DEF RecordStop
  <2>2. Evolves(s, o, q, {}) /\ Evolves(s, o, q, {e}) BY OpenHourEvolves
  <2>3. o \in Stores /\ Fit(o, q) BY <2>2 DEF Evolves
  <2> HIDE DEF o, t
  <2>4. Out(o, e) BY <2>2, EvolvesOut
  <2>5. Evolves(o, t, q, {e}) /\ (t.lost \/ InRam(t, e)) BY <2>1, <2>3, <2>4, BookEvolves
  <2> QED BY <2>2, <2>5, EvolvesTrans DEF t
<1> QED BY <1>1, <1>2

-----------------------------------------------------------------------------
(* Sums: steps that leave owner and journal alone                           *)

(* r is q with more stops booked and more withdrawn.                        *)
Extends(q, r) ==
  /\ DOMAIN q \subseteq DOMAIN r /\ DOMAIN r \subseteq Stops
  /\ \A e \in DOMAIN q : /\ r[e].hour = q[e].hour /\ (r[e].here <=> q[e].here)
                         /\ q[e].gone => r[e].gone
(* All that is held anywhere is a stop of q.                                *)
Backed(o, q) ==
  \A e \in Stops : (o.rec.sum[e] > 0 \/ \E n \in DOMAIN journal : Holds(n, e)) => e \in DOMAIN q

LEMMA StoredAs ==
  ASSUME NEW s, NEW t, NEW q, NEW r, NEW e, Stored(s, e, q), t.id = s.id, r[e].hour = q[e].hour
  PROVE  Stored(t, e, r)
BY DEF Stored

LEMMA RecordedAs ==
  ASSUME NEW o, NEW q, NEW r, Recorded(o, q), Backed(o, q), Extends(q, r)
  PROVE  Recorded(o, r)
<1>1. \A e \in Stops : o.rec.sum[e] > 0 => r[e].hour = q[e].hour BY DEF Backed, Extends
<1>2. \A n \in DOMAIN journal, e \in Stops : journal[n].sum[e] > 0 => r[e].hour = q[e].hour
  BY DEF Backed, Extends, Holds
<1> QED BY <1>1, <1>2 DEF Recorded, HeldIn

LEMMA EvolvesGood ==
  ASSUME NEW s \in Stores, NEW t, NEW o, NEW q, NEW r, NEW N,
         Good(s, o, q), Evolves(s, t, r, N), Extends(q, r), Backed(o, q), known \subseteq DOMAIN journal,
         \A e \in Stops : Live(s, e) => e \in DOMAIN q,
         \A e \in N : e \notin DOMAIN q,
         \A e \in DOMAIN r : e \notin DOMAIN q /\ Wanted(e, r) => t.lost \/ InRam(t, e),
         s.confirmed \/ DOMAIN r = DOMAIN q
  PROVE  Good(t, o, r)
<1>1. Fit(t, r) /\ t \in Stores BY DEF Evolves
<1>2. Recorded(o, r) BY RecordedAs DEF Good
<1>3. Owed(t, o) BY DEF Good, Owed, Evolves
<1>4. Apart(t, o)
  <2> SUFFICES ASSUME NEW e \in Stops
               PROVE  /\ t.done.sum[e] > 0 => InIndex(e)
                      /\ InIndex(e) => ~Loose(t, e)
                      /\ o.pc = "append" /\ o.rec.sum[e] > 0 => ~Loose(t, e) /\ ~InIndex(e)
    BY DEF Apart
  <2>1. t.done.sum[e] > 0 => s.done.sum[e] > 0 BY SumsAt DEF Evolves
  <2>2. Loose(t, e) => Loose(s, e) \/ e \notin DOMAIN q BY DEF Evolves
  <2>3. InIndex(e) \/ o.rec.sum[e] > 0 => e \in DOMAIN q BY DEF Backed, InIndex
  <2> QED BY <2>1, <2>2, <2>3 DEF Good, Apart
<1>5. Placed(t, o, r)
  <2>1. ~t.confirmed => \A e \in DOMAIN r : r[e].here => r[e].gone
    BY DEF Good, Placed, Evolves, Extends
  <2>2. ASSUME NEW e \in DOMAIN r, Wanted(e, r)
        PROVE  t.lost \/ InRam(t, e) \/ (Stored(t, e, r) /\ ~t.blocked /\ Summed(t, e))
    <3>1. CASE e \notin DOMAIN q BY <2>2, <3>1
    <3>2. CASE e \in DOMAIN q
      <4>1. e \in Stops /\ r[e].hour = q[e].hour /\ Wanted(e, q) BY <2>2, <3>2 DEF Extends, Wanted
      <4>2. s.lost \/ InRam(s, e) \/ (Stored(s, e, q) /\ ~s.blocked /\ Summed(s, e))
        BY <3>2, <4>1 DEF Good, Placed
      <4>3. InRam(s, e) => t.lost \/ InRam(t, e) BY <2>2, <4>1 DEF Evolves, Wanted
      <4>4. Stored(s, e, q) => Stored(t, e, r) BY <4>1, StoredAs DEF Evolves
      <4>5. Summed(s, e) => Summed(t, e) BY DEF Evolves, Summed
      <4> QED BY <4>2, <4>3, <4>4, <4>5 DEF Evolves
    <3> QED BY <3>1, <3>2
  <2>3. ASSUME o.receipt.kind = "hour", NEW i \in Places, NEW e \in Stops,
               t.queue[i].claimed, t.queue[i].sum[e] > 0
        PROVE  Stored(t, e, r)
    <3>1. s.queue[i].claimed /\ s.queue[i].sum[e] > 0 BY <2>3 DEF Evolves
    <3>2. Stored(s, e, q) BY <2>3, <3>1 DEF Good, Placed
    <3>3. e \in DOMAIN q BY <3>1 DEF Live
    <3> QED BY <3>2, <3>3, StoredAs DEF Evolves, Extends
  <2> QED BY <2>1, <2>2, <2>3 DEF Placed
<1> QED BY <1>1, <1>2, <1>3, <1>4, <1>5 DEF Good

(* A store that counts nothing.                                             *)
Bare(t, q) == t \in Stores /\ Fit(t, q) /\ Empty(t) /\ t.owed = "none"
LEMMA BareGood ==
  ASSUME NEW s, NEW t, NEW o, NEW q, NEW r,
         Good(s, o, q), Bare(t, r), Extends(q, r), Backed(o, q),
         t.blocked \/ (o.pc = "idle" /\ o.receipt = NoReceipt), t.barrier => t.blocked,
         o.pc # "idle" \/ o.receipt # NoReceipt => t.moved,
         \A e \in DOMAIN r : Wanted(e, r) => t.lost,
         ~t.confirmed => \A e \in DOMAIN r : r[e].here => r[e].gone
  PROVE  Good(t, o, r)
<1>1. Recorded(o, r) BY RecordedAs DEF Good
<1>2. \A i \in Places : ~t.queue[i].claimed BY DEF Bare, Fit, Claims
<1>3. Owed(t, o)
  <2>1. o.receipt # NoReceipt => o.receipt.ok /\ o.receipt.kind \in {"fence", "hour"}
    BY DEF Good, Owed
  <2>2. o.receipt.kind = "hour" => t.moved BY DEF NoReceipt
  <2> QED BY <1>2, <2>1, <2>2 DEF Owed, Bare
<1>4. Apart(t, o) BY DEF Good, Apart, Bare, Empty, Live, Loose
<1>5. Placed(t, o, r) BY <1>2 DEF Placed
<1> QED BY <1>1, <1>3, <1>4, <1>5 DEF Good, Bare

(* A store just cleared.                                                    *)
Blank(t) ==
  t.open = NoHour /\ t.queue = [i \in Places |-> NoEntry] /\ t.done = Emptied /\ t.owed = "none"
LEMMA BlankBare ==
  ASSUME NEW t \in Stores, Blank(t), hour \in Nat, NEW q
  PROVE  Bare(t, q)
<1>1. /\ \A i \in Places : t.queue[i] = NoEntry
      /\ NoEntry.hour = 0 /\ NoEntry.sum = Nothing /\ ~NoEntry.claimed
      /\ NoHour.hour = 0 /\ NoHour.sum = Nothing /\ Emptied.sum = Nothing
      /\ \A e \in Stops : Nothing[e] = 0
  BY SumsAt DEF Blank, NoEntry, NoHour, Emptied
<1>2. Empty(t) BY EmptyParts DEF Blank
<1>3. Free(t) BY <1>1 DEF Free, Blank
<1>4. Claims(t) BY <1>1 DEF Claims, Blank
<1>5. Once(t) BY <1>1 DEF Once, Blank, InRam
<1>6. Timed(t, q) BY <1>1 DEF Timed, Blank, HeldIn
<1> QED BY <1>2, <1>3, <1>4, <1>5, <1>6 DEF Bare, Fit, Blank

LEMMA BlankIn ==
  ASSUME NEW s \in Stores, NEW on \in BOOLEAN, NEW n \in Nat
  PROVE  /\ Blank(ClearLive(s)) /\ Blank(InvalidateClock(s)) /\ Blank(ResetStore(s))
         /\ Blank(SetStoreDiagnostics(s, on, n)) /\ Blank(Started(on, n))
<1>1. Blank(ClearLive(s)) BY DEF ClearLive, Blank, Stores
<1>2. Blank(InvalidateClock(s)) BY DEF InvalidateClock, ClearLive, Blank, Stores
<1>3. Blank(ResetStore(s)) BY DEF ResetStore, ClearLive, Blank, Stores
<1>4. Blank(SetStoreDiagnostics(s, on, n)) BY DEF SetStoreDiagnostics, ClearLive, Blank, Stores
<1>5. Blank(Started(on, n)) BY DEF Started, Blank
<1> QED BY <1>1, <1>2, <1>3, <1>4, <1>5

(* Binding clears the store or leaves its evidence alone.                   *)
LEMMA BindParts ==
  ASSUME NEW s \in Stores, NEW src \in Srcs, NEW gen \in Nat, NEW allow \in BOOLEAN
  PROVE  LET t == Bind(s, src, gen, allow)
             changed == s.confirmed /\ (s.id # [s.id EXCEPT !.src = src] \/ s.gen # gen)
         IN  /\ changed => Blank(t)
             /\ ~changed => /\ t.open = s.open /\ t.queue = s.queue /\ t.done = s.done
                            /\ t.owed = s.owed /\ (t.lost <=> s.lost)
<1> DEFINE id == [s.id EXCEPT !.src = src]
           changed == s.confirmed /\ (s.id # id \/ s.gen # gen)
           l == ClearLive(s)
           c == IF changed THEN [l EXCEPT !.clock = "agrees"] ELSE s
           t == Bind(s, src, gen, allow)
           confirmed == s.enabled /\ src # NoSource
           fence == changed \/ ~allow
<1>1. t = [c EXCEPT !.id = id, !.gen = gen, !.confirmed = confirmed, !.restore = confirmed,
                    !.blocked = @ \/ fence, !.barrier = @ \/ fence]
  BY DEF Bind
<1>2. l \in Stores /\ Blank(l) BY ClearIn, BlankIn
<1> HIDE DEF l, id, changed, fence, confirmed
<1>3. c \in Stores /\ (changed => Blank(c)) /\ (~changed => c = s) BY <1>2 DEF Stores, Blank
<1> HIDE DEF c, t
<1>4. t.open = c.open /\ t.queue = c.queue /\ t.done = c.done /\ t.owed = c.owed /\ t.lost = c.lost
  BY <1>1, <1>3 DEF Stores
<1>5. (changed => Blank(t)) /\ (~changed => t.open = s.open /\ t.queue = s.queue /\ t.done = s.done
                                /\ t.owed = s.owed /\ t.lost = s.lost)
  BY <1>3, <1>4 DEF Blank
<1> QED BY <1>5 DEF t, changed, id

LEMMA BindKeeps ==
  ASSUME NEW s \in Stores, NEW src \in Srcs, NEW gen \in Nat, NEW allow \in BOOLEAN,
         ~s.confirmed, NEW t, t = Bind(s, src, gen, allow)
  PROVE  t.open = s.open /\ t.queue = s.queue /\ t.done = s.done /\ t.owed = s.owed
<1> DEFINE u == Bind(s, src, gen, allow)
<1> DEFINE changed == s.confirmed /\ (s.id # [s.id EXCEPT !.src = src] \/ s.gen # gen)
<1>0. /\ changed => Blank(u)
      /\ ~changed => /\ u.open = s.open /\ u.queue = s.queue /\ u.done = s.done
                     /\ u.owed = s.owed /\ (u.lost <=> s.lost)
  BY BindParts
<1>3. ~changed OBVIOUS
<1> HIDE DEF changed, u
<1>1. u.open = s.open /\ u.queue = s.queue /\ u.done = s.done /\ u.owed = s.owed BY <1>0, <1>3
<1>2. t = u BY DEF u
<1> QED BY <1>1, <1>2

(* The invariant of the next state, whose journal and hour are today's.     *)
LEMMA Rebase ==
  ASSUME UNCHANGED <<known, journal, hour>>,
         NEW s, s = store', NEW o, o = owner', NEW q, q = stops', Good(s, o, q)
  PROVE  Good(store, owner, stops)'
<1>1. Fit(store, stops)'
  BY DEF Good, Fit, Free, Claims, Once, Timed, HeldIn, InRam
<1>2. Recorded(owner, stops)' BY DEF Good, Recorded, HeldIn
<1>3. Owed(store, owner)' BY DEF Good, Owed
<1>4. Apart(store, owner)' BY DEF Good, Apart, InIndex, Loose, Holds
<1>5. Placed(store, owner, stops)'
  <2>1. \A h : NewestOf(h)' = NewestOf(h) BY DEF NewestOf, HourRecords
  <2>2. \A id : FenceOf(id)' = FenceOf(id) BY DEF FenceOf
  <2>3. \A e : Stored(store, e, stops)' <=> Stored(s, e, q) BY <2>1, <2>2 DEF Stored, Holds
  <2>4. \A e : Wanted(e, stops)' <=> Wanted(e, q) BY DEF Wanted, InWindow
  <2>5. \A e : (InRam(store, e)' <=> InRam(s, e)) /\ (Summed(store, e)' <=> Summed(s, e))
    BY DEF InRam, Summed
  <2> QED BY <2>3, <2>4, <2>5 DEF Good, Placed
<1> QED BY <1>1, <1>2, <1>3, <1>4, <1>5 DEF Good

(* What every step starts from.                                             *)
Ready(s, o, q) ==
  /\ s \in Stores /\ Good(s, o, q) /\ Backed(o, q) /\ DOMAIN q \subseteq Stops
  /\ \A e \in Stops : Live(s, e) => e \in DOMAIN q
Now == known \subseteq DOMAIN journal /\ hour \in Nat
LEMMA Setting ==
  ASSUME StopIInv, SumInv
  PROVE  /\ Ready(store, owner, stops) /\ Now /\ "pending" \notin stale /\ DOMAIN stops = 1 .. Len(stops)
         /\ Len(stops) \in Nat /\ checkup.pending \in Pendings /\ stops \in Seq(Seen)
<1>1. /\ store \in Stores /\ owner \in Owners /\ hour \in Nat /\ known \subseteq DOMAIN journal
      /\ stops \in Seq(Seen) /\ Len(stops) <= MaxStops /\ checkup \in Checkups
  BY DEF StopIInv, StopShape, StoreShape, FlashShape, GhostShape, PollShape
<1>2. DOMAIN stops = 1 .. Len(stops) /\ Len(stops) \in Nat /\ DOMAIN stops \subseteq Stops
  BY <1>1, Bounds DEF Stops
<1>3. \A e \in Stops : Live(store, e) => e \in DOMAIN stops
  BY DEF StopIInv, EvidenceInv, LiveInv, Valid
<1>4. Backed(owner, stops)
  <2>1. \A e \in Stops : ~(NoRecord.sum[e] > 0) BY SumsAt DEF NoRecord
  <2>2. \A e \in Stops : owner.rec.sum[e] > 0 => e \in DOMAIN stops
    BY <2>1 DEF StopIInv, EvidenceInv, ClaimInv, SumInv, TimeInv
  <2>3. \A e \in Stops, n \in DOMAIN journal : Holds(n, e) => e \in DOMAIN stops
    BY DEF StopIInv, EvidenceInv, JournalInv
  <2> QED BY <2>2, <2>3 DEF Backed
<1>5. checkup.pending \in Pendings BY <1>1 DEF Checkups
<1>6. "pending" \notin stale BY DEF StopIInv, CheckupInv, StaleInv
<1> QED BY <1>1, <1>2, <1>3, <1>4, <1>5, <1>6 DEF Ready, Now, SumInv

LEMMA ExtendsSelf == ASSUME NEW q, DOMAIN q \subseteq Stops PROVE Extends(q, q)
BY DEF Extends
LEMMA ExtendsGone ==
  ASSUME StopShape
  PROVE  LET q == Withdrawn(stops)
         IN  Extends(stops, q) /\ DOMAIN q = DOMAIN stops /\ \A e \in DOMAIN q : q[e].gone
<1>1. stops \in Seq(Seen) /\ Len(stops) \in Nat /\ Len(stops) <= MaxStops
  BY DEF StopShape, GhostShape
<1>2. DOMAIN stops = 1 .. Len(stops) /\ DOMAIN stops \subseteq Stops BY <1>1, Bounds DEF Stops
<1>3. \A e \in DOMAIN stops : stops[e] \in Seen BY <1>1
<1>4. DOMAIN Withdrawn(stops) = DOMAIN stops BY DEF Withdrawn
<1>5. \A e \in DOMAIN stops :
        /\ Withdrawn(stops)[e].gone /\ Withdrawn(stops)[e].hour = stops[e].hour
        /\ (Withdrawn(stops)[e].here <=> stops[e].here)
  BY <1>3, WithdrawnGone DEF Seen
<1> QED BY <1>2, <1>4, <1>5 DEF Extends

LEMMA ExtendsMore ==
  ASSUME StopShape, NEW q, q \in {stops, Withdrawn(stops)}, NEW new, new \in Seen,
         Len(stops) + 1 <= MaxStops
  PROVE  LET r == Append(q, new)
         IN  /\ Extends(stops, r) /\ DOMAIN r = DOMAIN stops \cup {Len(stops) + 1}
             /\ r[Len(stops) + 1] = new /\ \A e \in DOMAIN stops : r[e] = q[e]
             /\ Len(stops) + 1 \in Stops /\ Len(stops) + 1 \notin DOMAIN stops
<1>1. stops \in Seq(Seen) /\ Len(stops) \in Nat BY DEF StopShape, GhostShape
<1>2. DOMAIN stops = 1 .. Len(stops) /\ Len(stops) + 1 \in Stops /\ DOMAIN stops \subseteq Stops
  BY <1>1, Bounds DEF Stops
<1>3. q \in Seq(Seen) /\ Len(q) = Len(stops) BY GrownBy
<1>4. Extends(stops, q) BY <1>2, ExtendsSelf, ExtendsGone
<1> DEFINE r == Append(q, new)
<1>5. r \in Seq(Seen) /\ Len(r) = Len(stops) + 1 /\ r[Len(stops) + 1] = new
      /\ \A e \in 1 .. Len(stops) : r[e] = q[e]
  BY <1>1, <1>3
<1>6. DOMAIN r = 1 .. (Len(stops) + 1) BY <1>1, <1>5
<1>7. DOMAIN r = DOMAIN stops \cup {Len(stops) + 1} /\ Len(stops) + 1 \notin DOMAIN stops
  BY <1>1, <1>2, <1>6
<1> HIDE DEF r
<1>8. Extends(stops, r) BY <1>2, <1>4, <1>5, <1>7 DEF Extends
<1> QED BY <1>2, <1>5, <1>7, <1>8 DEF r

(* Evidence moves within the store, and stop e may be booked.               *)
LEMMA CalmSum ==
  ASSUME NEW s, NEW o, NEW q, NEW t, NEW r, NEW N, Ready(s, o, q), Now,
         Evolves(s, t, r, N), Extends(q, r), N \cap DOMAIN q = {},
         \A e \in DOMAIN r : e \notin DOMAIN q => t.lost \/ InRam(t, e),
         s.confirmed \/ DOMAIN r = DOMAIN q
  PROVE  Good(t, o, r)
BY EvolvesGood DEF Ready, Now

(* All is withdrawn, and of what was booked the loss is admitted.           *)
LEMMA WithdrawnSum ==
  ASSUME NEW s, NEW o, NEW q, NEW t \in Stores, NEW r, Ready(s, o, q), Now,
         Blank(t), t.blocked, o.pc # "idle" \/ o.receipt # NoReceipt => t.moved,
         Extends(q, r),
         (\A e \in DOMAIN r : r[e].gone) \/ (t.lost /\ t.confirmed)
  PROVE  Good(t, o, r)
<1>1. Bare(t, r) BY BlankBare DEF Now
<1>2. \A e \in DOMAIN r : Wanted(e, r) => t.lost BY DEF Wanted
<1> QED BY <1>1, <1>2, BareGood DEF Ready

(* A store and what was booked stay as they are.                            *)
LEMMA StillSum ==
  ASSUME StopIInv, SumInv, UNCHANGED <<known, journal, hour, stops>>,
         owner'.rec = owner.rec, owner'.receipt = owner.receipt,
         owner'.pc = owner.pc \/ (owner.pc # "append" /\ owner'.pc # "append"),
         store' = store \/ store' = [store EXCEPT !.clock = "moved"]
  PROVE  Good(store, owner, stops)'
<1>1. Ready(store, owner, stops) /\ Now BY Setting
<1> PICK t : t = store' OBVIOUS
<1> PICK o : o = owner' OBVIOUS
<1>2. t \in Stores BY <1>1 DEF Ready, Stores
<1>3. /\ t.id = store.id /\ (t.confirmed <=> store.confirmed) /\ (t.moved <=> store.moved)
      /\ (t.blocked <=> store.blocked) /\ (t.barrier <=> store.barrier) /\ t.owed = store.owed
      /\ t.open = store.open /\ t.queue = store.queue /\ t.done = store.done
      /\ (store.lost => t.lost) /\ (store.restore => t.restore)
  BY <1>1 DEF Ready, Stores
<1>4. Evolves(store, t, stops, {}) BY <1>1, <1>2, <1>3, EvolvesLike DEF Ready, Good
<1>5. Good(t, owner, stops) BY <1>1, <1>4, CalmSum, ExtendsSelf DEF Ready
<1>6. Good(t, o, stops)
  <2>1. o.pc = "append" <=> owner.pc = "append" OBVIOUS
  <2> QED BY <1>5, <2>1 DEF Good, Recorded, Owed, Apart, Placed
<1> QED BY <1>6, Rebase

(* What is left to show of a step within the hour.                          *)
LEMMA TimeSide ==
  ASSUME StopIInv, SumInv, UNCHANGED <<journal, hour>>, Extends(stops, stops'),
         owner' = owner \/ (owner'.pc # "rebuild" /\ (owner'.pc # "append" => owner'.rec = NoRecord)),
         checkup'.pending \in {checkup.pending, NoPending} \/ checkup'.pending.hour = hour,
         \A e \in DOMAIN stops' : e \notin DOMAIN stops => stops'[e].hour = checkup.pending.hour,
         \/ store'.id.consent = store.id.consent /\ (events' = events \/ Event)
         \/ store'.id.consent = store.id.consent + 1 /\ Event,
         http' \in {"idle", "reset", "select"}
  PROVE  TimeInv'
<1>1. /\ hour \in 1 .. MaxHour /\ checkup.pending.hour =< hour
      /\ \A e \in DOMAIN stops : stops[e].hour =< hour
      /\ owner.pc = "rebuild" =>
           owner.hour =< hour /\ \A n \in DOMAIN journal, e \in Stops :
                                   Holds(n, e) => stops[e].hour =< owner.hour
      /\ events \in 0 .. MaxEvents /\ store.id.consent =< events
      /\ (owner.pc # "append" => owner.rec = NoRecord)
  BY DEF SumInv, TimeInv
<1>2. Backed(owner, stops) /\ store.id.consent \in Nat
  <2>1. store \in Stores BY DEF StopIInv, StopShape, StoreShape
  <2> QED BY <2>1, Setting DEF Ready, Stores, Ids
<1>3. /\ events' \in 0 .. MaxEvents /\ events =< events'
      /\ events' = events \/ events' = events + 1
  BY <1>1, Bounds DEF Event
<1>4. checkup'.pending.hour =< hour
  <2>1. NoPending.hour =< hour BY <1>1, Bounds DEF NoPending
  <2> QED BY <1>1, <2>1, Bounds
<1>5. \A e \in DOMAIN stops' : stops'[e].hour =< hour BY <1>1 DEF Extends
<1>6. store'.id.consent =< events' BY <1>1, <1>2, <1>3, Bounds DEF Event
<1>7. owner'.pc = "rebuild" =>
        owner'.hour =< hour /\ \A n \in DOMAIN journal, e \in Stops :
                                 Holds(n, e) => stops'[e].hour =< owner'.hour
  BY <1>1, <1>2 DEF Backed, Extends
<1>8. \A n, e : Holds(n, e)' = Holds(n, e) BY DEF Holds
<1> QED BY <1>1, <1>3, <1>4, <1>5, <1>6, <1>7, <1>8 DEF TimeInv

LEMMA DropSweepSum == ASSUME StopIInv, SumInv, DropSweep PROVE SumInv'
<1>1. /\ UNCHANGED <<store, stops, events, owner, known, journal, hour, http>>
      /\ checkup \in Checkups
      /\ checkup' = checkup \/ checkup' = [checkup EXCEPT !.reset = FALSE, !.pending = NoPending]
  BY DEF DropSweep, Unwithdrawn, checkupSide, StopIInv, StopShape, PollShape
<1>2. checkup'.pending \in {checkup.pending, NoPending} BY <1>1 DEF Checkups
<1>3. Good(store, owner, stops)' BY <1>1, StillSum
<1>4. Extends(stops, stops') BY <1>1, Setting, ExtendsSelf DEF Ready
<1>5. http' \in {"idle", "reset", "select"} BY <1>1 DEF SumInv, TimeInv
<1>6. TimeInv' BY <1>1, <1>2, <1>4, <1>5, TimeSide
<1> QED BY <1>3, <1>6 DEF SumInv

LEMMA ClockMovesSum == ASSUME StopIInv, SumInv, ClockMoves PROVE SumInv'
<1>1. /\ UNCHANGED <<checkup, stops, owner, known, journal, hour, http>> /\ Event
      /\ store' = [store EXCEPT !.clock = "moved"] /\ store \in Stores
  BY DEF ClockMoves, StopIInv, StopShape, StoreShape
<1>2. store'.id = store.id BY <1>1 DEF Stores
<1>3. Good(store, owner, stops)' BY <1>1, StillSum
<1>4. Extends(stops, stops') BY <1>1, Setting, ExtendsSelf DEF Ready
<1>5. http' \in {"idle", "reset", "select"} BY <1>1 DEF SumInv, TimeInv
<1>6. TimeInv' BY <1>1, <1>2, <1>4, <1>5, TimeSide
<1> QED BY <1>3, <1>6 DEF SumInv

LEMMA ReconfigureSum == ASSUME StopIInv, SumInv, Reconfigure PROVE SumInv'
<1>1. UNCHANGED <<checkup, stops, owner, known, journal, hour, store>> /\ Event /\ http' = "reset"
  BY DEF Reconfigure
<1>2. Good(store, owner, stops)' BY <1>1, StillSum
<1>3. Extends(stops, stops') BY <1>1, Setting, ExtendsSelf DEF Ready
<1>4. TimeInv' BY <1>1, <1>3, TimeSide
<1> QED BY <1>2, <1>4 DEF SumInv

LEMMA PublishBusySum == ASSUME StopIInv, SumInv, PublishBusy PROVE SumInv'
<1>1. /\ UNCHANGED <<checkup, stops, known, journal, hour, store, http>> /\ Event
      /\ owner' = [owner EXCEPT !.pc = "idle", !.hour = 0] /\ owner \in Owners
      /\ owner.pc = "rebuild"
  BY DEF PublishBusy, Released, ownerSide, StopIInv, StopShape, StoreShape
<1>2. /\ owner'.rec = owner.rec /\ owner'.receipt = owner.receipt /\ owner'.pc = "idle"
      /\ owner.rec = NoRecord
  BY <1>1 DEF Owners, SumInv, TimeInv
<1>3. Good(store, owner, stops)' BY <1>1, <1>2, StillSum
<1>4. Extends(stops, stops') BY <1>1, Setting, ExtendsSelf DEF Ready
<1>5. http' \in {"idle", "reset", "select"} BY <1>1 DEF SumInv, TimeInv
<1>6. TimeInv' BY <1>1, <1>2, <1>4, <1>5, TimeSide
<1> QED BY <1>3, <1>6 DEF SumInv

LEMMA NextHourSum == ASSUME StopIInv, SumInv, NextHour PROVE SumInv'
<1>1. /\ UNCHANGED <<store, owner, known, journal, checkup, http, stops, events>>
      /\ hour' = hour + 1 /\ hour < MaxHour
  BY DEF NextHour
<1>2. hour \in 1 .. MaxHour /\ hour' \in 1 .. MaxHour BY <1>1, Bounds DEF SumInv, TimeInv
<1>3. /\ store.open.hour \in Nat /\ DOMAIN stops \subseteq Stops /\ Good(store, owner, stops)
      /\ checkup.pending.hour \in Nat /\ \A e \in DOMAIN stops : stops[e].hour \in Nat
  <2>1. /\ Ready(store, owner, stops) /\ checkup.pending \in Pendings /\ stops \in Seq(Seen)
    BY Setting
  <2>2. store.open.hour \in Nat BY <2>1, PartsIn DEF Ready
  <2>3. checkup.pending.hour \in Nat BY <2>1 DEF Pendings
  <2>4. \A e \in DOMAIN stops : stops[e] \in Seen BY <2>1
  <2>5. \A e \in DOMAIN stops : stops[e].hour \in Nat BY <2>4 DEF Seen
  <2> QED BY <2>1, <2>2, <2>3, <2>5 DEF Ready
<1>4. Fit(store, stops)'
  BY <1>1, <1>2, <1>3, Bounds DEF Good, Fit, Free, Claims, Once, Timed, HeldIn, InRam
<1>5. Recorded(owner, stops)' BY <1>1, <1>3 DEF Good, Recorded, HeldIn
<1>6. Owed(store, owner)' BY <1>1, <1>3 DEF Good, Owed
<1>7. Apart(store, owner)' BY <1>1, <1>3 DEF Good, Apart, InIndex, Loose, Holds
<1>8. Placed(store, owner, stops)'
  <2>1. \A h : NewestOf(h)' = NewestOf(h) BY <1>1 DEF NewestOf, HourRecords
  <2>2. \A id : FenceOf(id)' = FenceOf(id) BY <1>1 DEF FenceOf
  <2>3. \A e : Stored(store, e, stops)' <=> Stored(store, e, stops) BY <1>1, <2>1, <2>2 DEF Stored, Holds
  <2>4. \A e \in DOMAIN stops : Wanted(e, stops)' => Wanted(e, stops)
    <3>1. \A e \in DOMAIN stops : stops[e].hour =< hour BY DEF SumInv, TimeInv
    <3> QED BY <1>1, <1>2, <1>3, <3>1, Bounds DEF Wanted, InWindow
  <2>5. \A e : (InRam(store, e)' <=> InRam(store, e)) /\ (Summed(store, e)' <=> Summed(store, e))
    BY <1>1 DEF InRam, Summed
  <2> QED BY <1>1, <1>3, <2>3, <2>4, <2>5 DEF Good, Placed
<1>9. TimeInv'
  <2>1. \A e \in DOMAIN stops : stops[e].hour =< hour' BY <1>1, <1>2, <1>3, Bounds DEF SumInv, TimeInv
  <2>2. owner \in Owners BY DEF StopIInv, StopShape, StoreShape
  <2>3. owner.pc = "rebuild" => owner.hour =< hour'
    BY <1>1, <1>2, <2>2, Bounds DEF SumInv, TimeInv, Owners
  <2>4. checkup.pending.hour =< hour' BY <1>1, <1>2, <1>3, Bounds DEF SumInv, TimeInv
  <2>5. \A n, e : Holds(n, e)' = Holds(n, e) BY <1>1 DEF Holds
  <2> QED BY <1>1, <1>2, <2>1, <2>3, <2>4, <2>5 DEF SumInv, TimeInv
<1> QED BY <1>4, <1>5, <1>6, <1>7, <1>8, <1>9 DEF Good, SumInv

(* A sample without a stop, or a stop finalised: t is the store then.       *)
LEMMA SampleSum ==
  ASSUME StopIInv, SumInv, Accepts(store)
  PROVE  Good(RecordSample(store), owner, WithdrawnBy(store, stops))
<1>1. Ready(store, owner, stops) /\ Now /\ StopShape BY Setting DEF StopIInv
<1> DEFINE t == RecordSample(store)
           r == WithdrawnBy(store, stops)
<1>2. store \in Stores /\ Fit(store, stops) /\ DOMAIN stops \subseteq Stops
  BY <1>1 DEF Ready, Good
<1>3. CASE store.clock = "moved"
  <2>1. t = InvalidateClock(store) /\ r = Withdrawn(stops)
    BY <1>1, <1>2, <1>3, SampleIn DEF WithdrawnBy, Now
  <2> HIDE DEF t, r
  <2>2. t \in Stores /\ t.blocked /\ (t.moved <=> Captured) /\ Blank(t)
    BY <1>2, <2>1, InvalidateIn, BlankIn
  <2>3. Extends(stops, r) /\ \A e \in DOMAIN r : r[e].gone BY <1>1, <2>1, ExtendsGone
  <2> QED BY <1>1, <2>2, <2>3, WithdrawnSum DEF Captured, t, r
<1>4. CASE store.clock # "moved"
  <2>1. r = stops BY <1>4 DEF WithdrawnBy
  <2>2. Evolves(store, t, stops, {}) BY <1>1, <1>2, <1>4, SampleEvolves DEF Now
  <2> HIDE DEF t, r
  <2>3. Extends(stops, stops) BY <1>2, ExtendsSelf
  <2>4. Good(t, owner, stops) BY <1>1, <2>2, <2>3, CalmSum
  <2> QED BY <2>1, <2>4 DEF t, r
<1> QED BY <1>3, <1>4

LEMMA StopSum ==
  ASSUME StopIInv, SumInv, checkup.pending # NoPending
  PROVE  LET t == RecordStop(store, checkup.pending)
             r == Booked(store, checkup.pending, stops, FALSE)
         IN  /\ Good(t, owner, r) /\ Extends(stops, r)
             /\ \A e \in DOMAIN r : e \notin DOMAIN stops => r[e].hour = checkup.pending.hour
<1> DEFINE p == checkup.pending
           t == RecordStop(store, p)
           r == Booked(store, p, stops, FALSE)
           new == [hour |-> p.hour, id |-> p.id, fenced |-> FALSE, here |-> TRUE, gone |-> FALSE]
           e == Len(stops) + 1
<1>1. /\ Ready(store, owner, stops) /\ Now /\ StopShape /\ p \in Pendings /\ Len(stops) + 1 <= MaxStops
      /\ store \in Stores /\ Fit(store, stops) /\ DOMAIN stops \subseteq Stops
  BY Setting DEF StopIInv, CheckupInv, PendingInv, Pends, Ready, Good
<1>2. new \in Seen /\ new.hour = p.hour BY <1>1 DEF Pendings, Seen
<1> HIDE DEF p, new
<1>3. CASE ~Accepts(store)
  <2>1. t = store /\ r = stops BY <1>3 DEF RecordStop, Booked
  <2> QED BY <1>1, <2>1, ExtendsSelf DEF Ready, p
<1>4. CASE Accepts(store) /\ store.clock = "moved"
  <2>1. t = [InvalidateClock(store) EXCEPT !.lost = TRUE] /\ r = Append(Withdrawn(stops), new)
    BY <1>4, ClockedIn, <1>1 DEF RecordStop, Booked, WithdrawnBy, Dated, new
  <2> DEFINE i == InvalidateClock(store)
  <2>2. /\ i \in Stores /\ i.blocked /\ (i.moved <=> Captured) /\ Blank(i) /\ (i.confirmed <=> store.confirmed)
    BY <1>1, InvalidateIn, BlankIn
  <2> HIDE DEF i, t
  <2>3. t \in Stores /\ t.blocked /\ (t.moved <=> Captured) /\ Blank(t) /\ t.confirmed /\ t.lost
    BY <1>4, <2>1, <2>2 DEF Stores, Blank, Accepts, i
  <2> HIDE DEF r
  <2>4. Extends(stops, r) /\ DOMAIN r = DOMAIN stops \cup {e} /\ r[e] = new
    <3> PICK q : q = Withdrawn(stops) OBVIOUS
    <3>1. StopShape /\ q \in {stops, Withdrawn(stops)} /\ new \in Seen /\ Len(stops) + 1 <= MaxStops
      BY <1>1, <1>2
    <3>2. r = Append(q, new) BY <2>1
    <3> QED BY <3>1, <3>2, ExtendsMore
  <2>5. Good(t, owner, r) BY <1>1, <2>3, <2>4, WithdrawnSum DEF Captured
  <2> QED BY <1>2, <2>4, <2>5 DEF t, r, p
<1>5. CASE Accepts(store) /\ store.clock # "moved"
  <2>1. r = Append(stops, new) BY <1>5 DEF Booked, WithdrawnBy, new
  <2> HIDE DEF r
  <2>2. /\ Extends(stops, r) /\ DOMAIN r = DOMAIN stops \cup {e} /\ r[e] = new
        /\ \A d \in DOMAIN stops : r[d] = stops[d]
        /\ e \in Stops /\ e \notin DOMAIN stops
    <3> PICK q : q = stops OBVIOUS
    <3>1. StopShape /\ q \in {stops, Withdrawn(stops)} /\ new \in Seen /\ Len(stops) + 1 <= MaxStops
      BY <1>1, <1>2
    <3>2. r = Append(q, new) BY <2>1
    <3> QED BY <3>1, <3>2, ExtendsMore
  <2> HIDE DEF e
  <2>3. Out(store, e) BY <1>1, <2>2 DEF Ready, Live, Out, InRam
  <2>4. Fit(store, r)
    <3>1. \A d \in Stops : Live(store, d) => r[d].hour = stops[d].hour BY <1>1, <2>2 DEF Ready
    <3>2. Timed(store, r) BY <1>1, <3>1 DEF Fit, Timed, HeldIn, Live
    <3> QED BY <1>1, <3>2 DEF Fit
  <2>5. Evolves(store, t, r, {e}) /\ (t.lost \/ InRam(t, e))
    BY <1>1, <1>2, <1>5, <2>2, <2>3, <2>4, StopEvolves DEF Now, e
  <2> HIDE DEF t
  <2>6. Good(t, owner, r) BY <1>1, <1>5, <2>2, <2>5, CalmSum DEF Accepts
  <2> QED BY <1>2, <2>2, <2>6 DEF t, r, p
<1> QED BY <1>3, <1>4, <1>5

LEMMA ReadyNext ==
  ASSUME NEW s, NEW o, NEW q, Ready(s, o, q), NEW t \in Stores, NEW r, Extends(q, r), Good(t, o, r),
         \A e \in Stops : Live(t, e) => e \in DOMAIN r
  PROVE  Ready(t, o, r)
BY DEF Ready, Backed, Extends

LEMMA ExpirePendingSum == ASSUME StopIInv, SumInv, ExpirePending PROVE SumInv'
<1>1. /\ UNCHANGED <<owner, known, journal, hour, http, events>> /\ checkup \in Checkups
      /\ checkup.pending # NoPending /\ checkup' = [checkup EXCEPT !.pending = NoPending]
      /\ store' = RecordStop(store, checkup.pending)
      /\ stops' = Booked(store, checkup.pending, stops, "pending" \in stale)
  BY DEF ExpirePending, checkupSide, StopIInv, StopShape, PollShape
<1>2. stops' = Booked(store, checkup.pending, stops, FALSE)
  <2>1. ("pending" \in stale) = FALSE BY Setting
  <2> QED BY <1>1, <2>1, Zenon
<1>3. /\ Good(store', owner, stops') /\ Extends(stops, stops')
      /\ \A e \in DOMAIN stops' : e \notin DOMAIN stops => stops'[e].hour = checkup.pending.hour
  BY <1>1, <1>2, StopSum
<1>4. Good(store, owner, stops)'
  <2> PICK t, r : t = store' /\ r = stops' OBVIOUS
  <2> QED BY <1>1, <1>3, Rebase
<1>5. store'.id = store.id BY <1>1, <1>2, BookedEvidence
<1>6. TimeInv'
  <2>1. checkup'.pending = NoPending BY <1>1 DEF Checkups
  <2>2. http' \in {"idle", "reset", "select"} BY <1>1 DEF SumInv, TimeInv
  <2> QED BY <1>1, <1>3, <1>5, <2>1, <2>2, TimeSide
<1> QED BY <1>4, <1>6 DEF SumInv

LEMMA SealForRestartSum == ASSUME StopIInv, SumInv, SealForRestart PROVE SumInv'
<1>1. /\ UNCHANGED <<owner, known, journal, hour, http>> /\ Event /\ checkup \in Checkups
      /\ checkup' = [checkup EXCEPT !.closed = TRUE, !.pending = NoPending, !.reset = FALSE]
  BY DEF SealForRestart, checkupSide, StopIInv, StopShape, PollShape
<1>2. \/ store' = SealStore(store) /\ stops' = stops
      \/ /\ checkup.pending # NoPending
         /\ store' = SealStore(RecordStop(store, checkup.pending))
         /\ stops' = Booked(store, checkup.pending, stops, "pending" \in stale)
  <2> DEFINE p == IF checkup.reset THEN NoPending ELSE checkup.pending
  <2>1. /\ store' = SealStore(IF p = NoPending THEN store ELSE RecordStop(store, p))
        /\ stops' = IF p = NoPending THEN stops ELSE Booked(store, p, stops, "pending" \in stale)
    BY DEF SealForRestart
  <2>2. CASE p = NoPending BY <2>1, <2>2
  <2>3. CASE p # NoPending
    <3>1. p = checkup.pending BY <2>3
    <3> QED BY <2>1, <2>3, <3>1
  <2> QED BY <2>2, <2>3
<1>3. Ready(store, owner, stops) /\ Now BY Setting
<1>4. PICK t : /\ store' = SealStore(t) /\ t \in Stores /\ Good(t, owner, stops')
               /\ t.id = store.id
               /\ Extends(stops, stops') /\ \A e \in Stops : Live(t, e) => e \in DOMAIN stops'
               /\ \A e \in DOMAIN stops' : e \notin DOMAIN stops => stops'[e].hour = checkup.pending.hour
  <2>1. CASE store' = SealStore(store) /\ stops' = stops
    <3>1. store \in Stores BY <1>3 DEF Ready
    <3> QED BY <1>3, <2>1, <3>1, ExtendsSelf DEF Ready
  <2>2. CASE /\ checkup.pending # NoPending
             /\ store' = SealStore(RecordStop(store, checkup.pending))
             /\ stops' = Booked(store, checkup.pending, stops, "pending" \in stale)
    <3> DEFINE t == RecordStop(store, checkup.pending)
    <3>1. stops' = Booked(store, checkup.pending, stops, FALSE)
      <4>1. ("pending" \in stale) = FALSE BY Setting
      <4> QED BY <2>2, <4>1, Zenon
    <3>2. /\ Good(t, owner, stops') /\ Extends(stops, stops')
          /\ \A e \in DOMAIN stops' : e \notin DOMAIN stops => stops'[e].hour = checkup.pending.hour
      BY <2>2, <3>1, StopSum
    <3>3. StopShape /\ EvidenceInv /\ PendingInv BY DEF StopIInv, CheckupInv
    <3>4. /\ t \in Stores /\ t.id = store.id
          /\ \/ \A e \in Stops : Live(t, e) => Live(store, e) \/ e \in DOMAIN stops'
             \/ Empty(t)
      BY <2>2, <3>1, <3>3, BookedIn
    <3> HIDE DEF t
    <3>5. \A e \in Stops : Live(t, e) => e \in DOMAIN stops'
      BY <1>3, <3>2, <3>4 DEF Empty, Ready, Extends
    <3> QED BY <2>2, <3>2, <3>4, <3>5 DEF t
  <2> QED BY <1>2, <2>1, <2>2
<1>5. Ready(t, owner, stops') BY <1>3, <1>4, ReadyNext
<1>6. Evolves(t, store', stops', {}) BY <1>3, <1>4, SealEvolves DEF Good, Now
<1>7. Good(store', owner, stops')
  <2> PICK u, r : u = store' /\ r = stops' OBVIOUS
  <2>1. Extends(r, r) BY <1>5, ExtendsSelf DEF Ready
  <2> QED BY <1>3, <1>5, <1>6, <2>1, CalmSum
<1>8. Good(store, owner, stops)'
  <2> PICK u, r : u = store' /\ r = stops' OBVIOUS
  <2> QED BY <1>1, <1>7, Rebase
<1>9. TimeInv'
  <2>1. checkup'.pending = NoPending BY <1>1 DEF Checkups
  <2>2. http' \in {"idle", "reset", "select"} BY <1>1 DEF SumInv, TimeInv
  <2>3. store'.id = store.id BY <1>4, SealIn
  <2> QED BY <1>1, <1>4, <2>1, <2>2, <2>3, TimeSide
<1> QED BY <1>8, <1>9 DEF SumInv

LEMMA ReportSum == ASSUME StopIInv, SumInv, Report PROVE SumInv'
<1>1. /\ UNCHANGED <<owner, known, journal, hour, http, checkup, events>>
      /\ stops' = WithdrawnBy(store, stops) /\ store.confirmed
      /\ store' = IF Dated(store) THEN ExpireLive(Clocked(store)) ELSE Clocked(store)
      /\ Ready(store, owner, stops) /\ Now /\ StopShape
      /\ store \in Stores /\ Fit(store, stops) /\ DOMAIN stops \subseteq Stops
  BY Setting DEF Report, checkupSide, StopIInv, Ready, Good
<1>2. Good(store', owner, stops') /\ Extends(stops, stops') /\ DOMAIN stops' = DOMAIN stops
      /\ store'.id = store.id
  <2>1. CASE store.clock = "moved"
    <3>1. store' = InvalidateClock(store) /\ stops' = Withdrawn(stops)
      BY <1>1, <2>1, ClockedIn DEF Dated, WithdrawnBy
    <3> PICK t, r : t = store' /\ r = stops' OBVIOUS
    <3>2. t \in Stores /\ t.blocked /\ (t.moved <=> Captured) /\ Blank(t) /\ t.id = store.id
      BY <1>1, <3>1, InvalidateIn, BlankIn
    <3>3. Extends(stops, r) /\ DOMAIN r = DOMAIN stops /\ \A e \in DOMAIN r : r[e].gone
      BY <1>1, <3>1, ExtendsGone
    <3>4. Good(t, owner, r) BY <1>1, <3>2, <3>3, WithdrawnSum DEF Captured
    <3> QED BY <3>2, <3>3, <3>4
  <2>2. CASE store.clock # "moved"
    <3>1. stops' = stops /\ store' \in {store, ExpireLive(store)}
      BY <1>1, <2>2, ClockedIn DEF WithdrawnBy
    <3> PICK t : t = store' OBVIOUS
    <3>2. Evolves(store, t, stops, {})
      BY <1>1, <3>1, ExpireEvolves, EvolvesSelf DEF Now
    <3>3. Extends(stops, stops) BY <1>1, ExtendsSelf
    <3>4. Good(t, owner, stops) BY <1>1, <3>2, <3>3, CalmSum
    <3> QED BY <3>1, <3>2, <3>3, <3>4 DEF Evolves
  <2> QED BY <2>1, <2>2
<1>3. Good(store, owner, stops)'
  <2> PICK u, r : u = store' /\ r = stops' OBVIOUS
  <2> QED BY <1>1, <1>2, Rebase
<1>4. http' \in {"idle", "reset", "select"} BY <1>1 DEF SumInv, TimeInv
<1>5. TimeInv' BY <1>1, <1>2, <1>4, TimeSide
<1> QED BY <1>3, <1>5 DEF SumInv

(* The first sample after the target changed: bound anew.                   *)
LEMMA FreshSum ==
  ASSUME StopIInv, SumInv, store.confirmed, checkup.source # NoSource, store.gen # target,
         NEW allow \in BOOLEAN, ~allow, NEW s, s = Bind(store, checkup.source, target, allow)
  PROVE  LET t == RecordSample(s)
             r == Withdrawn(stops)
         IN  /\ WithdrawnBy(s, r) = r /\ Good(t, owner, r) /\ Extends(stops, r)
             /\ DOMAIN r = DOMAIN stops /\ s.id.consent = store.id.consent
             /\ t.id = s.id
<1> DEFINE r == Withdrawn(stops)
           t == RecordSample(s)
           id == [store.id EXCEPT !.src = checkup.source]
<1>1. /\ Ready(store, owner, stops) /\ Now /\ StopShape /\ store \in Stores /\ store.id \in Ids
      /\ checkup.source \in Srcs /\ target \in Nat
  BY Setting DEF StopIInv, StopShape, PollShape, StoreShape, Checkups, Stores
<1>2. store \in Stores /\ checkup.source \in Srcs /\ target \in Nat BY <1>1
<1>5. /\ s \in Stores /\ Empty(s) /\ s.blocked /\ (s.moved <=> Captured) /\ s.clock = "agrees"
  <2>1. LET b == Bind(store, checkup.source, target, allow)
        IN  /\ b \in Stores /\ Empty(b) /\ b.gen = target /\ (b.enabled <=> store.enabled)
            /\ (b.sealed => store.sealed)
            /\ (b.confirmed <=> store.enabled /\ checkup.source # NoSource)
            /\ b.blocked /\ b.barrier /\ (b.moved <=> Captured) /\ b.clock = "agrees"
    BY <1>2, BindFresh
  <2> QED BY <2>1
<1>6. Blank(s) /\ s.id = id
  <2>1. Blank(Bind(store, checkup.source, target, allow)) BY <1>2, BindParts
  <2>2. Bind(store, checkup.source, target, allow).id = id BY <1>2, BindIn
  <2> QED BY <2>1, <2>2
<1>7. s.id = id BY <1>6
<1>8. id.consent = store.id.consent BY <1>1 DEF Ids
<1>9. WithdrawnBy(s, r) = r BY <1>5 DEF WithdrawnBy
<1>10. Extends(stops, r) /\ DOMAIN r = DOMAIN stops /\ \A e \in DOMAIN r : r[e].gone
  BY <1>1, ExtendsGone
<1> HIDE DEF r, t, id
<1>11. Good(s, owner, r) BY <1>1, <1>5, <1>6, <1>10, WithdrawnSum DEF Captured
<1>12. Ready(s, owner, r) BY <1>1, <1>5, <1>10, <1>11, ReadyNext DEF Empty
<1>13. Evolves(s, t, r, {}) BY <1>1, <1>5, <1>12, SampleEvolves DEF Ready, Good, Now, t
<1>14. Extends(r, r) BY <1>12, ExtendsSelf DEF Ready
<1>15. Good(t, owner, r)
  <2>1. \A e \in DOMAIN r : e \notin DOMAIN r => t.lost \/ InRam(t, e) OBVIOUS
  <2>2. {} \cap DOMAIN r = {} OBVIOUS
  <2> QED BY <1>1, <1>12, <1>13, <1>14, <2>1, <2>2, CalmSum
<1>16. t.id = s.id BY <1>13 DEF Evolves
<1> QED BY <1>7, <1>8, <1>9, <1>10, <1>15, <1>16 DEF r, t

LEMMA RecordSweepSum == ASSUME StopIInv, SumInv, RecordSweep PROVE SumInv'
<1> DEFINE fresh == Cycle.gen # checkup.gen
           s0 == IF fresh THEN Bind(store, checkup.source, Cycle.gen, FALSE) ELSE store
           p0 == IF fresh THEN NoPending ELSE checkup.pending
           q0 == IF fresh THEN Withdrawn(stops) ELSE stops
           with(p) == [checkup EXCEPT !.gen = Cycle.gen, !.pending = p, !.allow = @ /\ ~fresh]
           witnessed == [hour |-> hour, gen |-> Cycle.gen, id |-> s0.id]
<1>1. /\ SourceInv /\ store \in Stores /\ checkup \in Checkups
      /\ UNCHANGED <<owner, known, journal, hour, http, events>>
      /\ Admitted /\ checkup.source # NoSource
      /\ Ready(store, owner, stops) /\ Now /\ "pending" \notin stale
  BY Setting DEF StopIInv, StopShape, StoreShape, PollShape, CheckupInv, RecordSweep, checkupSide
<1>2. \/ /\ checkup' = with(p0) /\ store' = RecordSample(s0) /\ stops' = WithdrawnBy(s0, q0)
      \/ /\ checkup' = with(witnessed) /\ store' = RecordSample(s0) /\ stops' = WithdrawnBy(s0, q0)
      \/ /\ p0 # NoPending /\ checkup' = with(NoPending)
         /\ store' = RecordStop(s0, p0) /\ stops' = Booked(s0, p0, q0, "pending" \in stale)
  BY DEF RecordSweep
<1>3. store.enabled /\ store.confirmed /\ ~store.sealed /\ Cycle.gen = target /\ store.gen = checkup.gen
  BY <1>1 DEF Admitted, SourceInv
<1>4. Accepts(store) BY <1>3 DEF Accepts
<1>5. \A p : with(p).pending = p BY <1>1 DEF Checkups
<1>6. checkup'.pending \in {checkup.pending, NoPending} \/ checkup'.pending.hour = hour
  <2>1. checkup'.pending \in {p0, witnessed, NoPending}
    <3> HIDE DEF with, p0, witnessed
    <3> QED BY <1>2, <1>5
  <2>2. witnessed.hour = hour OBVIOUS
  <2>3. p0 \in {checkup.pending, NoPending} OBVIOUS
  <2> HIDE DEF p0, witnessed
  <2> QED BY <2>1, <2>2, <2>3
<1>7. /\ Good(store', owner, stops') /\ Extends(stops, stops')
      /\ \A e \in DOMAIN stops' : e \notin DOMAIN stops => stops'[e].hour = checkup.pending.hour
      /\ store'.id.consent = store.id.consent
  <2>1. CASE fresh
    <3> PICK allow \in BOOLEAN : allow = FALSE OBVIOUS
    <3>0. s0 = Bind(store, checkup.source, target, FALSE) BY <1>3, <2>1
    <3>1. /\ store' = RecordSample(s0) /\ stops' = WithdrawnBy(s0, Withdrawn(stops))
          /\ s0 = Bind(store, checkup.source, target, allow) /\ store.gen # target
      <4>1. store' = RecordSample(s0) /\ stops' = WithdrawnBy(s0, Withdrawn(stops)) /\ store.gen # target
        BY <1>2, <1>3, <2>1
      <4>2. s0 = Bind(store, checkup.source, target, allow) BY <3>0, Zenon
      <4> QED BY <4>1, <4>2
    <3> HIDE DEF s0
    <3>2. /\ WithdrawnBy(s0, Withdrawn(stops)) = Withdrawn(stops)
          /\ Good(RecordSample(s0), owner, Withdrawn(stops)) /\ Extends(stops, Withdrawn(stops))
          /\ DOMAIN Withdrawn(stops) = DOMAIN stops
          /\ s0.id.consent = store.id.consent /\ RecordSample(s0).id = s0.id
      BY <1>1, <1>3, <3>1, FreshSum
    <3> QED BY <3>1, <3>2
  <2>2. CASE ~fresh
    <3>1. s0 = store /\ q0 = stops /\ p0 = checkup.pending BY <2>2
    <3>2. CASE store' = RecordSample(s0) /\ stops' = WithdrawnBy(s0, q0)
      <4>1. Good(store', owner, stops') BY <1>4, <3>1, <3>2, SampleSum
      <4>2. Extends(stops, stops') /\ DOMAIN stops' = DOMAIN stops
        <5>1. StopShape BY DEF StopIInv
        <5>2. stops' \in {stops, Withdrawn(stops)} BY <3>1, <3>2 DEF WithdrawnBy
        <5> QED BY <1>1, <5>1, <5>2, ExtendsSelf, ExtendsGone DEF Ready
      <4>3. store'.id = store.id
        <5>1. store' = RecordSample(store) /\ hour \in Nat BY <1>1, <3>1, <3>2 DEF Now
        <5> HIDE DEF s0, q0, p0, fresh, with, witnessed
        <5>2. store.clock = "moved" => store' = InvalidateClock(store)
          BY <1>1, <1>4, <5>1, SampleIn
        <5>3. store.clock # "moved" => Tame(store, RecordSample(store)) BY <1>1, <5>1, SampleIn
        <5> QED BY <1>1, <5>1, <5>2, <5>3, InvalidateIn DEF Tame, Same
      <4> QED BY <4>1, <4>2, <4>3
    <3>3. CASE /\ p0 # NoPending
               /\ store' = RecordStop(s0, p0) /\ stops' = Booked(s0, p0, q0, "pending" \in stale)
      <4>1. stops' = Booked(store, checkup.pending, stops, FALSE)
        <5>1. ("pending" \in stale) = FALSE BY <1>1
        <5> QED BY <3>1, <3>3, <5>1, Zenon
      <4>2. store' = RecordStop(store, checkup.pending) /\ checkup.pending # NoPending BY <3>1, <3>3
      <4>3. /\ Good(store', owner, stops') /\ Extends(stops, stops')
            /\ \A e \in DOMAIN stops' : e \notin DOMAIN stops => stops'[e].hour = checkup.pending.hour
        BY <4>1, <4>2, StopSum
      <4>4. store'.id = store.id BY <1>1, <4>1, <4>2, BookedEvidence
      <4> QED BY <4>3, <4>4
    <3> QED BY <1>2, <3>2, <3>3
  <2> QED BY <2>1, <2>2
<1>8. Good(store, owner, stops)'
  <2> PICK u, r : u = store' /\ r = stops' OBVIOUS
  <2> QED BY <1>1, <1>7, Rebase
<1>9. http' \in {"idle", "reset", "select"} BY <1>1 DEF SumInv, TimeInv
<1>10. TimeInv' BY <1>1, <1>6, <1>7, <1>9, TimeSide
<1> QED BY <1>8, <1>10 DEF SumInv

(* A handler that withdraws what there is.                                  *)
LEMMA HandlerSum ==
  ASSUME StopIInv, SumInv, UNCHANGED <<owner, known, journal, hour>>,
         store' \in Stores, Blank(store'), store'.blocked, Captured => store'.moved,
         stops' = Withdrawn(stops), checkup'.pending = NoPending,
         \/ store'.id.consent = store.id.consent /\ (events' = events \/ Event)
         \/ store'.id.consent = store.id.consent + 1 /\ Event,
         http' \in {"idle", "reset", "select"}
  PROVE  SumInv'
<1>1. Ready(store, owner, stops) /\ Now /\ StopShape BY Setting DEF StopIInv
<1>2. Extends(stops, stops') /\ DOMAIN stops' = DOMAIN stops /\ \A e \in DOMAIN stops' : stops'[e].gone
  BY <1>1, ExtendsGone
<1>3. Good(store, owner, stops)'
  <2> PICK t, r : t = store' /\ r = stops' OBVIOUS
  <2>1. Blank(t) BY DEF Blank
  <2>2. Good(t, owner, r) BY <1>1, <1>2, <2>1, WithdrawnSum DEF Captured
  <2> QED BY <2>2, Rebase
<1>4. TimeInv' BY <1>2, TimeSide
<1> QED BY <1>3, <1>4 DEF SumInv

LEMMA CheckupResetSum == ASSUME StopIInv, SumInv, CheckupReset PROVE SumInv'
<1>1. /\ store \in Stores /\ checkup \in Checkups /\ UNCHANGED <<owner, known, journal, hour, events>>
      /\ checkup' = [checkup EXCEPT !.source = NoSource, !.allow = FALSE, !.reset = TRUE,
                                    !.pending = NoPending]
      /\ store' = ResetStore(store) /\ stops' = Withdrawn(stops) /\ http' \in {"idle", "select"}
  BY DEF StopIInv, StopShape, StoreShape, PollShape, CheckupReset, Withdraw
<1>2. checkup'.pending = NoPending BY <1>1 DEF Checkups
<1>3. store' \in Stores /\ (store'.moved <=> Captured) /\ store'.id = store.id /\ store'.blocked
  BY <1>1, ResetIn
<1>4. Blank(store') BY <1>1, BlankIn DEF Blank
<1> QED BY <1>1, <1>2, <1>3, <1>4, HandlerSum

LEMMA SetDiagnosticsSum == ASSUME StopIInv, SumInv, SetDiagnostics PROVE SumInv'
<1> DEFINE n == store.id.consent + 1
<1>1. /\ store \in Stores /\ checkup \in Checkups /\ SourceInv
      /\ UNCHANGED <<owner, known, journal, hour, http>> /\ Event
      /\ checkup' = [checkup EXCEPT !.allow = FALSE, !.reset = FALSE, !.pending = NoPending]
      /\ stops' = Withdrawn(stops)
  BY DEF StopIInv, StopShape, StoreShape, PollShape, CheckupInv, SetDiagnostics, Withdraw
<1>2. PICK on \in BOOLEAN : on = ~store.enabled OBVIOUS
<1> DEFINE s == SetStoreDiagnostics(store, on, n)
<1>3. store' = IF checkup.source = NoSource THEN s ELSE Bind(s, checkup.source, checkup.gen, FALSE)
  <2>1. LET d == SetStoreDiagnostics(store, ~store.enabled, store.id.consent + 1)
        IN  store' = IF checkup.source = NoSource THEN d
                     ELSE Bind(d, checkup.source, checkup.gen, FALSE)
    BY DEF SetDiagnostics
  <2> QED BY <1>2, <2>1, Zenon
<1>4. n \in Nat /\ n = store.id.consent + 1 /\ store.id \in Ids BY <1>1 DEF Stores, Ids
<1> HIDE DEF n
<1>5. /\ s \in Stores /\ (s.moved <=> Captured) /\ s.id = [store.id EXCEPT !.consent = n]
      /\ ~s.confirmed /\ s.blocked /\ Blank(s)
  BY <1>1, <1>2, <1>4, DiagnosticsIn, BlankIn
<1>6. s.id.consent = n BY <1>4, <1>5 DEF Ids
<1> HIDE DEF s
<1>7. /\ store' \in Stores /\ (store'.moved <=> Captured) /\ store'.id.consent = n /\ store'.blocked
      /\ Blank(store')
  <2>1. CASE checkup.source = NoSource BY <1>3, <1>5, <1>6, <2>1 DEF Blank
  <2>2. CASE checkup.source # NoSource
    <3>1. PICK allow \in BOOLEAN : allow = FALSE OBVIOUS
    <3>2. store' = Bind(s, checkup.source, checkup.gen, allow) BY <1>3, <2>2, <3>1, Zenon
    <3>3. checkup.source \in Srcs /\ checkup.gen \in Nat BY <1>1 DEF Checkups
    <3>4. s \in Stores /\ ~s.confirmed BY <1>5
    <3> PICK t : t = store' OBVIOUS
    <3>5. /\ t \in Stores /\ t.id.consent = s.id.consent
          /\ (t.blocked <=> s.blocked \/ ~allow) /\ (t.moved <=> s.moved)
      BY <3>2, <3>3, <3>4, BindUnbound
    <3>6. t.open = s.open /\ t.queue = s.queue /\ t.done = s.done /\ t.owed = s.owed
      BY <3>2, <3>3, <3>4, BindKeeps
    <3>7. Blank(t) BY <1>5, <3>6 DEF Blank
    <3> QED BY <1>5, <1>6, <3>5, <3>7 DEF Blank
  <2> QED BY <2>1, <2>2
<1>8. checkup'.pending = NoPending BY <1>1 DEF Checkups
<1>9. http' \in {"idle", "reset", "select"} BY <1>1 DEF SumInv, TimeInv
<1> QED BY <1>1, <1>4, <1>7, <1>8, <1>9, HandlerSum

LEMMA FitLike ==
  ASSUME NEW s, NEW t, NEW q, Fit(s, q), t.open = s.open, t.queue = s.queue, t.done = s.done,
         t.owed = s.owed
  PROVE  Fit(t, q)
BY DEF Fit, Free, Claims, Once, Timed, InRam

LEMMA ConfirmSum ==
  ASSUME StopIInv, SumInv, NEW src \in PumpSources, ConfirmSource(src),
         UNCHANGED <<owner, known, journal, target, hour, events>>,
         http' \in {"idle", "reset", "select"}
  PROVE  SumInv'
<1> DEFINE first == checkup.source = NoSource
           base == IF first THEN store ELSE ResetStore(store)
<1>1. /\ SourceInv /\ FreshInv /\ LiveInv /\ EpochInv
      /\ store \in Stores /\ checkup \in Checkups /\ target \in Nat /\ owner \in Owners
      /\ Ready(store, owner, stops) /\ Now
  BY Setting DEF StopIInv, StopShape, StoreShape, PollShape, CheckupInv, EvidenceInv
<1>2. PICK allow \in BOOLEAN : allow = (checkup.allow /\ first) OBVIOUS
<1>3. /\ checkup' = [checkup EXCEPT !.source = src, !.gen = target, !.allow = allow,
                                    !.pending = NoPending, !.reset = checkup.reset \/ ~first]
      /\ store' = Bind(base, src, target, allow)
      /\ IF first THEN Unwithdrawn ELSE Withdraw
  <2>1. LET a == checkup.allow /\ first
        IN  /\ checkup' = [checkup EXCEPT !.source = src, !.gen = target, !.allow = a,
                                          !.pending = NoPending, !.reset = checkup.reset \/ ~first]
            /\ store' = Bind(base, src, target, a)
            /\ IF first THEN Unwithdrawn ELSE Withdraw
    BY DEF ConfirmSource
  <2> HIDE DEF first, base
  <2> QED BY <1>2, <2>1, Zenon
<1>4. checkup'.pending = NoPending BY <1>1, <1>3 DEF Checkups
<1>5. src \in Srcs BY DEF Srcs
<1>6. /\ base \in Stores /\ ~base.confirmed /\ base.id = store.id
      /\ first => base = store
      /\ ~first => (base.moved <=> Captured) /\ base.blocked /\ Blank(base)
  <2>1. CASE first BY <1>1, <2>1 DEF SourceInv
  <2>2. CASE ~first
    <3>1. base = ResetStore(store) BY <2>2
    <3> HIDE DEF base, first
    <3> QED BY <1>1, <2>2, <3>1, ResetIn, BlankIn
  <2> QED BY <2>1, <2>2
<1> HIDE DEF base
<1> PICK t : t = store' OBVIOUS
<1>7. /\ t \in Stores /\ t.id.consent = base.id.consent
      /\ (t.confirmed <=> base.enabled /\ src # NoSource)
      /\ (t.blocked <=> base.blocked \/ ~allow) /\ (t.barrier <=> base.barrier \/ ~allow)
      /\ (t.moved <=> base.moved) /\ Within(base, t)
  <2>1. base \in Stores /\ ~base.confirmed /\ t = Bind(base, src, target, allow) BY <1>3, <1>6
  <2> QED BY <1>1, <1>5, <2>1, BindUnbound
<1>8. t.open = base.open /\ t.queue = base.queue /\ t.done = base.done /\ t.owed = base.owed
  <2>1. base \in Stores /\ ~base.confirmed /\ t = Bind(base, src, target, allow) BY <1>3, <1>6
  <2> QED BY <1>1, <1>5, <2>1, BindKeeps
<1>9. CASE ~first
  <2>1. stops' = Withdrawn(stops) BY <1>3, <1>9 DEF Withdraw
  <2>2. Blank(t) BY <1>6, <1>8, <1>9 DEF Blank
  <2>3. Blank(store') BY <2>2 DEF Blank
  <2>4. /\ store' \in Stores /\ store'.blocked /\ (Captured => store'.moved)
        /\ store'.id.consent = store.id.consent
    BY <1>6, <1>7, <1>9
  <2> QED BY <1>4, <2>1, <2>3, <2>4, HandlerSum
<1>10. CASE first
  <2>1. stops' = stops BY <1>3, <1>10 DEF Unwithdrawn
  <2>2. ~store.confirmed /\ base = store BY <1>6, <1>10
  <2>3. Empty(t) BY <1>1, <1>7, <2>2 DEF LiveInv, Empty, Within
  <2>4. Captured => store.moved BY <1>1, <2>2 DEF EpochInv
  <2>5. store.owed = "none"
    <3>1. store.owed # "none" =>
            ~store.moved /\ (owner.receipt.kind = store.owed \/ owner.pc = "append")
      BY <1>1 DEF Ready, Good, Owed
    <3>2. ~Captured => owner.receipt.kind = "none" /\ owner.pc # "append" BY DEF Captured, NoReceipt
    <3> QED BY <2>4, <3>1, <3>2
  <2>6. Bare(t, stops)
    <3>1. Fit(t, stops) BY <1>1, <1>8, <2>2, FitLike DEF Ready, Good
    <3> QED BY <1>7, <1>8, <2>2, <2>3, <2>5, <3>1 DEF Bare
  <2>7. t.blocked \/ ~Captured BY <1>1, <1>2, <1>7, <1>10 DEF FreshInv
  <2>8. t.barrier => t.blocked BY <1>1, <1>7, <2>2 DEF Ready, Good, Owed
  <2>9. \A e \in DOMAIN stops : stops[e].here => stops[e].gone
    BY <1>1, <2>2 DEF Ready, Good, Placed
  <2>10. \A e \in DOMAIN stops : ~Wanted(e, stops) BY <2>9 DEF Wanted
  <2>11. Extends(stops, stops) BY <1>1, ExtendsSelf DEF Ready
  <2>12. Captured => t.moved BY <1>7, <2>2, <2>4
  <2>13. Good(t, owner, stops)
    BY <1>1, <2>6, <2>7, <2>8, <2>9, <2>10, <2>11, <2>12, BareGood DEF Ready, Captured
  <2>14. Good(store, owner, stops)' BY <2>1, <2>13, Rebase
  <2>15. store'.id.consent = store.id.consent BY <1>6, <1>7
  <2>16. TimeInv' BY <1>4, <2>1, <2>11, <2>15, TimeSide
  <2> QED BY <2>14, <2>16 DEF SumInv
<1> QED BY <1>9, <1>10

LEMMA DetectSum == ASSUME StopIInv, SumInv, Detect PROVE SumInv'
<1>1. plant \in PumpSources BY DEF StopIInv, StopShape, PollShape
<1>2. http' \in {"idle", "reset", "select"} BY DEF Detect, SumInv, TimeInv
<1>3. ConfirmSource(plant) /\ UNCHANGED <<owner, known, journal, target, hour, events>> BY DEF Detect
<1> QED BY <1>1, <1>2, <1>3, ConfirmSum

LEMMA SelectSum == ASSUME StopIInv, SumInv, Select PROVE SumInv'
<1>1. plant \in PumpSources BY DEF StopIInv, StopShape, PollShape
<1>2. http' \in {"idle", "reset", "select"} BY DEF Select
<1>3. ConfirmSource(plant) /\ UNCHANGED <<owner, known, journal, target, hour, events>> BY DEF Select
<1> QED BY <1>1, <1>2, <1>3, ConfirmSum

(* A boot starts with nothing counted, and what is stored is not its own.   *)
LEMMA RebootSum == ASSUME StopIInv, SumInv, Reboot PROVE SumInv'
<1>1. /\ owner' = Idle /\ known' = Indexed(journal) /\ checkup' = Unbound
      /\ journal' = journal /\ hour' = hour /\ http' = "idle" /\ (events' = events \/ Event)
      /\ store' = Started(store.enabled, store.id.consent)
      /\ stops' = [i \in DOMAIN stops |-> [stops[i] EXCEPT !.gone = stops[i].fenced, !.here = FALSE]]
  BY DEF Reboot
<1>2. /\ store \in Stores /\ Ready(store, owner, stops) /\ Now /\ stops \in Seq(Seen)
  BY Setting DEF StopIInv, StopShape, StoreShape
<1>3. /\ store' \in Stores /\ ~store'.confirmed /\ ~store'.blocked /\ ~store'.barrier /\ Blank(store')
      /\ store'.id.consent = store.id.consent
  <2>1. store.enabled \in BOOLEAN /\ store.id.consent \in Nat BY <1>2 DEF Stores, Ids
  <2>2. PICK on \in BOOLEAN : on = store.enabled BY <2>1
  <2>3. store' = Started(on, store.id.consent) BY <1>1, <2>2
  <2> PICK t : t = store' OBVIOUS
  <2>4. /\ t \in Stores /\ ~t.confirmed /\ ~t.blocked /\ Blank(t)
        /\ t.id = [src |-> NoSource, consent |-> store.id.consent]
    BY <1>2, <2>1, <2>3, StartedIn, BlankIn
  <2>5. ~t.barrier BY <2>3 DEF Started
  <2> QED BY <2>4, <2>5 DEF Blank
<1>4. /\ DOMAIN stops' = DOMAIN stops
      /\ \A e \in DOMAIN stops : stops'[e].hour = stops[e].hour /\ ~stops'[e].here
  <2>1. \A i \in DOMAIN stops : stops[i] \in Seen BY <1>2
  <2> QED BY <1>1, <2>1 DEF Seen
<1>5. /\ store'.done.sum = Nothing /\ store'.open = NoHour /\ store'.owed = "none"
      /\ \A i \in Places : store'.queue[i] = NoEntry
  BY <1>3 DEF Blank, Emptied
<1>6. /\ NoEntry.hour = 0 /\ NoEntry.sum = Nothing /\ ~NoEntry.claimed
      /\ NoHour.hour = 0 /\ NoHour.sum = Nothing /\ \A e \in Stops : Nothing[e] = 0
  BY SumsAt DEF NoEntry, NoHour
<1>7. /\ owner'.pc = "idle" /\ owner'.receipt = NoReceipt /\ owner'.rec = NoRecord
      /\ NoRecord.sum = Nothing
  BY <1>1 DEF Idle, NoRecord
<1>8. Fit(store, stops)'
  <2>1. Free(store)' BY <1>5, <1>6 DEF Free
  <2>2. Claims(store)' BY <1>5, <1>6 DEF Claims
  <2>3. Once(store)' BY <1>5, <1>6 DEF Once, InRam
  <2>4. Timed(store, stops)'
    <3>5. store'.open.hour = 0 /\ store'.open.sum = Nothing BY <1>5, <1>6
    <3>6. hour \in Nat /\ hour' = hour BY <1>1, <1>2 DEF Now
    <3>7. 0 =< hour' BY <3>6
    <3>1. store'.open.hour =< hour' /\ store'.open.sum = Nothing BY <3>5, <3>7
    <3>2. \A i \in Places : store'.queue[i].sum = Nothing BY <1>5, <1>6
    <3>3. \A e \in Stops : ~(Nothing[e] > 0) BY <1>6
    <3> QED BY <3>1, <3>2, <3>3 DEF Timed, HeldIn
  <2> QED BY <2>1, <2>2, <2>3, <2>4 DEF Fit
<1>9. Recorded(owner, stops)'
  <2>1. \A n \in DOMAIN journal, e \in Stops :
          journal[n].sum[e] =< 1 /\ (journal[n].sum[e] > 0 => stops'[e].hour = stops[e].hour)
    BY <1>2, <1>4 DEF Ready, Backed, Holds, Good, Recorded
  <2>2. \A n \in DOMAIN journal, e \in Stops : journal[n].sum[e] > 0 => journal[n].hour = stops[e].hour
    BY <1>2 DEF Ready, Good, Recorded, HeldIn
  <2>3. \A e \in Stops : owner'.rec.sum[e] = 0 BY <1>6, <1>7
  <2>4. \A e \in Stops : owner'.rec.sum[e] =< 1 /\ ~(owner'.rec.sum[e] > 0) BY <2>3
  <2>5. \A n \in DOMAIN journal, e \in Stops : journal[n].sum[e] > 0 => journal[n].hour = stops'[e].hour
    BY <2>1, <2>2
  <2>6. \A n \in DOMAIN journal', e \in Stops :
          journal'[n].sum[e] =< 1 /\ (journal'[n].sum[e] > 0 => journal'[n].hour = stops'[e].hour)
    BY <1>1, <2>1, <2>5
  <2> QED BY <2>4, <2>6 DEF Recorded, HeldIn
<1>10. Owed(store, owner)' BY <1>3, <1>5, <1>7 DEF Owed, NoReceipt
<1>11. Apart(store, owner)' BY <1>5, <1>6, <1>7 DEF Apart, Loose
<1>12. Placed(store, owner, stops)' BY <1>4, <1>7 DEF Placed, Wanted, NoReceipt
<1>13. TimeInv'
  <2>1. Extends(stops, stops) BY <1>2, ExtendsSelf DEF Ready
  <2>2. checkup'.pending = NoPending BY <1>1 DEF Unbound
  <2>3. NoPending.hour = 0 BY DEF NoPending
  <2>4. hour \in 1 .. MaxHour /\ events \in 0 .. MaxEvents /\ store.id.consent =< events
        /\ \A e \in DOMAIN stops : stops[e].hour =< hour
    BY DEF SumInv, TimeInv
  <2>5. events' \in 0 .. MaxEvents /\ store'.id.consent =< events'
    <3>1. store.id.consent \in Nat BY <1>2 DEF Stores, Ids
    <3>2. events' = events \/ (events < MaxEvents /\ events' = events + 1) BY <1>1 DEF Event
    <3>3. MaxEvents \in Nat /\ events \in Nat BY <2>4, Bounds
    <3>4. events' \in 0 .. MaxEvents BY <2>4, <3>2, <3>3
    <3>5. store.id.consent =< events' BY <2>4, <3>1, <3>2, <3>3
    <3> QED BY <1>3, <3>4, <3>5
  <2>6. hour \in Nat /\ hour' = hour /\ hour' \in 1 .. MaxHour BY <1>1, <1>2, <2>4 DEF Now
  <2>7. checkup'.pending.hour =< hour' BY <2>2, <2>3, <2>6
  <2>8. \A e \in DOMAIN stops' : stops'[e].hour =< hour' BY <1>4, <2>4, <2>6
  <2>9. owner'.pc # "rebuild" /\ owner'.rec = NoRecord BY <1>7
  <2> QED BY <1>1, <2>5, <2>6, <2>7, <2>8, <2>9 DEF TimeInv
<1> QED BY <1>8, <1>9, <1>10, <1>11, <1>12, <1>13 DEF Good, SumInv

LEMMA SumInit == ASSUME StopInit PROVE SumInv
<1>1. /\ owner = Idle /\ journal = <<>> /\ checkup = Unbound
      /\ hour = 1 /\ stops = <<>> /\ events = 0 /\ http = "idle" /\ store = Started(TRUE, 0)
  BY DEF StopInit
<1>2. PICK t : t = store OBVIOUS
<1>3. /\ t \in Stores /\ ~t.confirmed /\ ~t.blocked /\ ~t.barrier /\ Blank(t) /\ t.id.consent = 0
  <2>1. PICK on \in BOOLEAN : on = TRUE OBVIOUS
  <2>2. store = Started(on, 0) BY <1>1, <2>1, Zenon
  <2>3. store \in Stores BY <2>2, StartedIn
  <2>4. /\ t \in Stores /\ ~t.confirmed /\ ~t.blocked /\ Blank(t)
        /\ t.id = [src |-> NoSource, consent |-> 0]
    BY <1>2, <2>2, <2>3, StartedIn, BlankIn
  <2>5. ~t.barrier BY <1>2, <2>2 DEF Started
  <2> QED BY <2>4, <2>5
<1>4. Bare(t, stops) BY <1>1, <1>3, BlankBare
<1>5. /\ owner.pc = "idle" /\ owner.receipt = NoReceipt /\ owner.rec = NoRecord
      /\ NoRecord.sum = Nothing /\ \A e \in Stops : Nothing[e] = 0
  BY <1>1, SumsAt DEF Idle, NoRecord
<1>6. DOMAIN stops = {} /\ DOMAIN journal = {} BY <1>1
<1>7. Recorded(owner, stops) BY <1>5, <1>6 DEF Recorded, HeldIn
<1>8. Owed(t, owner) BY <1>3, <1>4, <1>5 DEF Owed, Bare, NoReceipt
<1>9. Apart(t, owner) BY <1>4, <1>5 DEF Apart, Bare, Empty, Live, Loose
<1>10. Placed(t, owner, stops) BY <1>5, <1>6 DEF Placed, NoReceipt
<1>11. TimeInv
  <2>1. NoPending.hour = 0 /\ checkup.pending = NoPending BY <1>1 DEF NoPending, Unbound
  <2>2. hour \in 1 .. MaxHour /\ events \in 0 .. MaxEvents BY <1>1, Bounds
  <2>5. store.id.consent = 0 /\ events = 0 BY <1>1, <1>2, <1>3
  <2>3. store.id.consent =< events BY <2>5
  <2>4. checkup.pending.hour =< hour BY <1>1, <2>1
  <2> QED BY <1>1, <1>5, <1>6, <2>2, <2>3, <2>4 DEF TimeInv
<1> QED BY <1>2, <1>4, <1>7, <1>8, <1>9, <1>10, <1>11 DEF Good, SumInv, Bare

-----------------------------------------------------------------------------
(* Sums: steps of the flash owner                                           *)

(* The stores that differ in the epoch only.                                *)
LEMMA CaughtUpSum ==
  ASSUME NEW s, NEW o, NEW q, Good(s, o, q), s \in Stores, o.receipt = NoReceipt
  PROVE  Good([s EXCEPT !.moved = FALSE], o, q)
<1> DEFINE t == [s EXCEPT !.moved = FALSE]
<1>1. /\ t.open = s.open /\ t.queue = s.queue /\ t.done = s.done /\ t.owed = s.owed
      /\ t.id = s.id /\ (t.confirmed <=> s.confirmed) /\ ~t.moved
      /\ (t.blocked <=> s.blocked) /\ (t.barrier <=> s.barrier)
      /\ (t.lost <=> s.lost) /\ (t.restore <=> s.restore)
  BY DEF Stores
<1> HIDE DEF t
<1>2. NoReceipt.kind = "none" BY DEF NoReceipt
<1>3. Fit(t, q) BY <1>1, FitLike DEF Good
<1>4. Recorded(o, q) BY DEF Good
<1>5. Owed(t, o) BY <1>1, <1>2 DEF Good, Owed
<1>6. Apart(t, o) BY <1>1 DEF Good, Apart, Loose
<1>7. Placed(t, o, q) BY <1>1 DEF Good, Placed, InRam, Stored, Summed
<1> QED BY <1>3, <1>4, <1>5, <1>6, <1>7 DEF Good, t

(* The receipt of a fence lifts the barrier; that of an hour drops from the *)
(* queue what the index holds.                                              *)
ReceiptApplies ==
  \A s, o, q, p :
    /\ Ready(s, o, q) /\ Now /\ o.pc = "idle" /\ o.receipt \in Receipts
    /\ p.pc # "append" /\ p.rec = o.rec /\ p.receipt = NoReceipt
    => Good(ApplyReceipt(s, o.receipt), p, q)
LEMMA ReceiptSum == ReceiptApplies
<1> SUFFICES ASSUME NEW s, NEW o, NEW q, NEW p, Ready(s, o, q), Now, o.pc = "idle",
                    o.receipt \in Receipts, p.pc # "append", p.rec = o.rec, p.receipt = NoReceipt
             PROVE  Good(ApplyReceipt(s, o.receipt), p, q)
  BY DEF ReceiptApplies
<1> DEFINE r == o.receipt
           t == ApplyReceipt(s, r)
<1>1. /\ s \in Stores /\ Fit(s, q) /\ Recorded(o, q) /\ Owed(s, o) /\ Apart(s, o) /\ Placed(s, o, q)
      /\ hour \in Nat
  BY DEF Ready, Good, Now
<1>2. NoReceipt.kind = "none" BY DEF NoReceipt
<1>3. Recorded(p, q) BY <1>1 DEF Recorded, HeldIn
<1>4. CASE r = NoReceipt \/ s.moved
  <2>1. t = s BY <1>4 DEF ApplyReceipt
  <2>2. s.owed = "none" BY <1>1, <1>2, <1>4 DEF Owed
  <2>3. Owed(s, p) BY <1>1, <1>2, <2>2 DEF Owed
  <2>4. Apart(s, p) BY <1>1 DEF Apart
  <2>5. Placed(s, p, q) BY <1>1, <1>2 DEF Placed
  <2> QED BY <1>1, <1>3, <2>1, <2>3, <2>4, <2>5 DEF Good
<1>5. CASE ~(r = NoReceipt \/ s.moved)
  <2> DEFINE x == IF r.kind = "fence" THEN s.queue
                  ELSE [i \in Places |-> IF s.queue[i].claimed THEN NoEntry ELSE s.queue[i]]
             open == s.blocked /\ r.kind # "fence"
             bar == s.barrier /\ r.kind # "fence"
  <2>1. r.ok /\ r.kind \in {"fence", "hour"} /\ ~s.moved BY <1>1, <1>5 DEF Owed
  <2>2. t = [s EXCEPT !.owed = "none", !.barrier = s.barrier /\ ~(r.kind = "fence" /\ r.ok),
                      !.blocked = s.blocked /\ ~(r.kind = "fence" /\ r.ok),
                      !.queue = IF r.kind = "fence" THEN s.queue
                                ELSE IF r.ok THEN [i \in Places |-> IF s.queue[i].claimed THEN NoEntry ELSE s.queue[i]]
                                ELSE [i \in Places |-> [s.queue[i] EXCEPT !.claimed = FALSE]],
                      !.restore = s.restore \/ r.ok]
    BY <1>1, <1>5 DEF ApplyReceipt, Stores
  <2>3. /\ t.queue = x /\ t.open = s.open /\ t.done = s.done /\ t.owed = "none"
        /\ t.id = s.id /\ (t.confirmed <=> s.confirmed) /\ (t.moved <=> s.moved)
        /\ (t.blocked <=> open) /\ (t.barrier <=> bar) /\ (t.lost <=> s.lost) /\ t.restore
    <3> HIDE DEF t
    <3> QED BY <1>1, <2>1, <2>2 DEF Stores
  <2>4. t \in Stores BY <1>1, ReceiptIn
  <2> HIDE DEF t
  <2>5. \A i \in Places :
          \/ t.queue[i] = s.queue[i] /\ ~t.queue[i].claimed
          \/ t.queue[i] = NoEntry /\ s.queue[i].claimed /\ r.kind = "hour"
    <3>1. CASE r.kind = "fence"
      <4>1. s.owed # "hour" BY <1>1, <3>1 DEF Owed
      <4>2. \A i \in Places : ~s.queue[i].claimed BY <1>1, <4>1 DEF Fit, Claims
      <4> QED BY <2>3, <3>1, <4>2
    <3>2. CASE r.kind = "hour" BY <2>3, <3>2
    <3> QED BY <2>1, <3>1, <3>2
  <2> HIDE DEF x
  <2>6. ~NoEntry.claimed /\ \A e \in Stops : ~(NoEntry.sum[e] > 0) BY SumsAt DEF NoEntry
  <2>7. Free(t) /\ Once(t) /\ Timed(t, q) /\ \A e \in Stops : InRam(t, e) => InRam(s, e)
    BY <1>1, <2>3, <2>4, <2>5, DropIn DEF Fit
  <2>8. Claims(t) BY <2>3, <2>5, <2>6 DEF Claims
  <2>9. Owed(t, p) BY <1>1, <1>2, <2>3 DEF Owed
  <2>10. \A e \in Stops : Loose(t, e) => Loose(s, e) BY <2>3, <2>5, <2>6 DEF Loose
  <2>11. Apart(t, p) BY <1>1, <2>3, <2>10 DEF Apart
  <2>12. Placed(t, p, q)
    <3>1. ASSUME NEW e \in DOMAIN q, Wanted(e, q)
          PROVE  t.lost \/ InRam(t, e) \/ (Stored(t, e, q) /\ ~t.blocked /\ Summed(t, e))
      <4>1. e \in Stops BY DEF Ready
      <4>2. s.lost \/ InRam(s, e) \/ (Stored(s, e, q) /\ ~s.blocked) BY <1>1, <3>1 DEF Placed
      <4>3. Stored(s, e, q) => Stored(t, e, q) BY <2>3 DEF Stored
      <4>4. InRam(s, e) => InRam(t, e) \/ (Stored(s, e, q) /\ r.kind = "hour")
        <5> SUFFICES ASSUME NEW i \in Places, s.queue[i].sum[e] > 0
                     PROVE  InRam(t, e) \/ (Stored(s, e, q) /\ r.kind = "hour")
          BY <2>3 DEF InRam
        <5>1. CASE t.queue[i] = s.queue[i] BY <5>1 DEF InRam
        <5>2. CASE s.queue[i].claimed /\ r.kind = "hour" BY <1>1, <4>1, <5>2 DEF Placed
        <5> QED BY <2>5, <5>1, <5>2
      <4>5. r.kind = "hour" => ~s.blocked BY <1>1, <2>1 DEF Owed
      <4>6. Summed(t, e) BY <2>3 DEF Summed
      <4> QED BY <2>3, <4>2, <4>3, <4>4, <4>5, <4>6
    <3>2. ~t.confirmed => \A e \in DOMAIN q : q[e].here => q[e].gone BY <1>1, <2>3 DEF Placed
    <3> QED BY <1>2, <3>1, <3>2 DEF Placed
  <2> QED BY <1>3, <2>7, <2>8, <2>9, <2>11, <2>12 DEF Good, Fit, t
<1> QED BY <1>4, <1>5

LEMMA ReceiptReady ==
  ASSUME NEW s, NEW o, NEW q, NEW p, Ready(s, o, q), Now, o.pc = "idle", o.receipt \in Receipts,
         p.pc # "append", p.rec = o.rec, p.receipt = NoReceipt
  PROVE  LET t == ApplyReceipt(s, o.receipt)
         IN  Ready(t, p, q) /\ t.id = s.id /\ (t.confirmed <=> s.confirmed) /\ t.clock = s.clock
<1>1. Good(ApplyReceipt(s, o.receipt), p, q) BY ReceiptSum DEF ReceiptApplies
<1>2. s \in Stores BY DEF Ready
<1>3. LET t == ApplyReceipt(s, o.receipt)
      IN  t \in Stores /\ Within(s, t) /\ t.id = s.id /\ (t.confirmed <=> s.confirmed)
          /\ t.clock = s.clock
  BY <1>2, ReceiptIn
<1> QED BY <1>1, <1>3 DEF Ready, Backed, Within

(* A withdrawal, and a quiet step within the store, keep all in place.      *)
LEMMA WithdrawnReady ==
  ASSUME StopIInv, NEW s, NEW o, Ready(s, o, stops), Now,
         o.pc # "idle" \/ o.receipt # NoReceipt => Captured
  PROVE  LET t == InvalidateClock(s)
             r == Withdrawn(stops)
         IN  /\ Ready(t, o, r) /\ Extends(stops, r) /\ DOMAIN r = DOMAIN stops /\ t.id = s.id
             /\ t.blocked /\ t.owed = "none" /\ t.restore /\ t.clock = "bad"
<1> DEFINE t == InvalidateClock(s)
           r == Withdrawn(stops)
<1>1. s \in Stores /\ StopShape BY DEF Ready, StopIInv
<1>2. /\ t \in Stores /\ t.blocked /\ (t.moved <=> Captured) /\ Blank(t) /\ t.id = s.id /\ Empty(t)
      /\ t.clock = "bad"
  BY <1>1, InvalidateIn, BlankIn
<1>3. Extends(stops, r) /\ DOMAIN r = DOMAIN stops /\ \A e \in DOMAIN r : r[e].gone
  BY <1>1, ExtendsGone
<1>4. t.restore BY <1>1, ClearIn DEF InvalidateClock, Stores
<1> HIDE DEF t, r
<1>5. Good(t, o, r) BY <1>1, <1>2, <1>3, WithdrawnSum
<1>6. Ready(t, o, r) BY <1>2, <1>3, <1>5, ReadyNext DEF Empty
<1> QED BY <1>2, <1>3, <1>4, <1>6 DEF t, r, Blank

LEMMA CalmReady ==
  ASSUME NEW s, NEW o, NEW q, NEW t, Ready(s, o, q), Now, Evolves(s, t, q, {}), Within(s, t)
  PROVE  Ready(t, o, q) /\ t.id = s.id /\ (t.confirmed <=> s.confirmed) /\ t.owed = s.owed
         /\ (t.blocked <=> s.blocked) /\ (t.barrier <=> s.barrier)
<1>1. Extends(q, q) BY ExtendsSelf DEF Ready
<1>2. Good(t, o, q) BY <1>1, CalmSum
<1> QED BY <1>2 DEF Ready, Evolves, Within

LEMMA ServiceBeginSum == ASSUME StopIInv, SumInv, ServiceBegin PROVE SumInv'
<1>1. /\ StopShape /\ EpochInv /\ store \in Stores /\ owner \in Owners /\ owner.receipt \in Receipts
      /\ owner.pc = "idle" /\ store.clock # "bad"
      /\ stops' = WithdrawnBy(store, stops) /\ UNCHANGED <<known, journal, events, checkup, http, hour>>
      /\ Ready(store, owner, stops) /\ Now /\ owner.rec = NoRecord
  BY Setting DEF StopIInv, StopShape, StoreShape, EvidenceInv, ServiceBegin, ownerSide, Owners,
                 SumInv, TimeInv
<1>2. http' \in {"idle", "reset", "select"} BY <1>1 DEF SumInv, TimeInv
<1>3. CASE store.clock = "moved"
  <2>1. store' = InvalidateClock(store) /\ owner' = owner /\ stops' = Withdrawn(stops)
    BY <1>1, <1>3, ClockedIn DEF ServiceBegin, Dated, WithdrawnBy
  <2>2. /\ Ready(InvalidateClock(store), owner, Withdrawn(stops)) /\ Extends(stops, Withdrawn(stops))
        /\ DOMAIN Withdrawn(stops) = DOMAIN stops /\ InvalidateClock(store).id = store.id
    BY <1>1, WithdrawnReady DEF Captured
  <2>3. Good(store', owner, stops') BY <2>1, <2>2 DEF Ready
  <2>4. Good(store, owner, stops)'
    <3> PICK t, q : t = store' /\ q = stops' OBVIOUS
    <3> QED BY <1>1, <2>1, <2>3, Rebase
  <2>5. TimeInv' BY <1>1, <1>2, <2>1, <2>2, TimeSide
  <2> QED BY <2>4, <2>5 DEF SumInv
<1>4. CASE store.clock # "moved"
  <2> DEFINE a == ApplyReceipt(store, owner.receipt)
             s == ExpireLive(a)
             t == [s EXCEPT !.moved = FALSE]
             due == owner.rebuild \/ s.restore \/ Expired(s)
  <2>1. Dated(store) /\ stops' = stops /\ Clocked(store) = store
    BY <1>1, <1>4, ClockedIn DEF Dated, WithdrawnBy, Stores
  <2>2. /\ store' = t
        /\ owner' = IF due /\ ~s.blocked
                    THEN [owner EXCEPT !.receipt = NoReceipt, !.pc = "rebuild", !.hour = hour]
                    ELSE [owner EXCEPT !.receipt = NoReceipt]
    BY <2>1 DEF ServiceBegin
  <2> HIDE DEF due
  <2>3. /\ owner'.rec = NoRecord /\ owner'.receipt = NoReceipt /\ owner'.pc \in {"idle", "rebuild"}
        /\ owner'.pc = "rebuild" => owner'.hour = hour
    BY <1>1, <2>2 DEF Owners
  <2> PICK p : p = owner' OBVIOUS
  <2>4. Ready(a, p, stops) /\ a.id = store.id
    <3>1. p.pc # "append" /\ p.rec = owner.rec /\ p.receipt = NoReceipt BY <1>1, <2>3
    <3> QED BY <1>1, <3>1, ReceiptReady
  <2> HIDE DEF a
  <2>5. Evolves(a, s, stops, {}) /\ Within(a, s)
    BY <1>1, <2>4, ExpireEvolves, ExpireIn DEF Ready, Good, Now, Tame
  <2> HIDE DEF s
  <2>6. Ready(s, p, stops) /\ s.id = a.id BY <1>1, <2>4, <2>5, CalmReady
  <2>7. Good(t, p, stops) BY <2>3, <2>6, CaughtUpSum DEF Ready
  <2>8. t.id = store.id BY <2>4, <2>6 DEF Ready, Stores
  <2> HIDE DEF t
  <2>9. Good(store, owner, stops)' BY <1>1, <2>1, <2>2, <2>7, Rebase
  <2>10. TimeInv'
    <3>1. \A n \in DOMAIN journal, e \in Stops : Holds(n, e) => stops[e].hour =< hour
      BY <1>1 DEF Ready, Backed, SumInv, TimeInv
    <3>2. \A n, e : Holds(n, e)' = Holds(n, e) BY <1>1 DEF Holds
    <3>3. hour =< hour BY <1>1 DEF Now
    <3> QED BY <1>1, <1>2, <2>1, <2>2, <2>3, <2>8, <3>1, <3>2, <3>3 DEF SumInv, TimeInv
  <2> QED BY <2>9, <2>10 DEF SumInv
<1> QED BY <1>3, <1>4

(* The claim of a fence, and of an hour's entry in the queue.               *)
LEMMA FenceClaimSum ==
  ASSUME NEW s, NEW o, NEW q, NEW p, Ready(s, o, q), s.owed = "none", s.blocked, o.receipt = NoReceipt,
         p.pc = "append", p.rec.kind = "fence", p.rec.sum = Nothing, p.receipt = NoReceipt
  PROVE  Good([s EXCEPT !.owed = "fence", !.moved = FALSE], p, q)
<1> DEFINE t == [s EXCEPT !.owed = "fence", !.moved = FALSE]
<1>1. s \in Stores /\ Fit(s, q) /\ Recorded(o, q) /\ Owed(s, o) /\ Apart(s, o) /\ Placed(s, o, q)
  BY DEF Ready, Good
<1>2. /\ t.open = s.open /\ t.queue = s.queue /\ t.done = s.done /\ t.owed = "fence"
      /\ t.id = s.id /\ (t.confirmed <=> s.confirmed) /\ ~t.moved
      /\ (t.blocked <=> s.blocked) /\ (t.barrier <=> s.barrier)
      /\ (t.lost <=> s.lost) /\ (t.restore <=> s.restore)
  BY <1>1 DEF Stores
<1> HIDE DEF t
<1>3. \A i \in Places : ~s.queue[i].claimed BY <1>1 DEF Fit, Claims
<1>4. NoReceipt.kind = "none" /\ \A e \in Stops : p.rec.sum[e] = 0 BY SumsAt DEF NoReceipt
<1>5. Fit(t, q)
  <2>1. Free(t) BY <1>1, <1>2 DEF Fit, Free
  <2>2. Claims(t) BY <1>2, <1>3 DEF Claims
  <2>3. Once(t) BY <1>1, <1>2 DEF Fit, Once, InRam
  <2>4. Timed(t, q) BY <1>1, <1>2 DEF Fit, Timed
  <2> QED BY <2>1, <2>2, <2>3, <2>4 DEF Fit
<1>6. Recorded(p, q) BY <1>1, <1>4 DEF Recorded, HeldIn
<1>7. Owed(t, p) BY <1>2, <1>3, <1>4 DEF Owed
<1>8. Apart(t, p) BY <1>1, <1>2, <1>4 DEF Apart, Loose
<1>9. Placed(t, p, q) BY <1>1, <1>2, <1>4 DEF Placed, InRam
<1> QED BY <1>5, <1>6, <1>7, <1>8, <1>9 DEF Good, t

ClaimedHour(s, i) == [s EXCEPT !.owed = "hour", !.queue[i].claimed = TRUE, !.moved = FALSE]
LEMMA HourClaimSum ==
  ASSUME NEW s, NEW o, NEW q, NEW p, Ready(s, o, q), s.owed = "none", ~s.blocked, o.receipt = NoReceipt,
         NEW i \in Places, s.queue[i].hour # 0,
         p.pc = "append", p.rec.kind = "hour", p.rec.sum = s.queue[i].sum,
         p.rec.hour = s.queue[i].hour, p.receipt = NoReceipt
  PROVE  Good(ClaimedHour(s, i), p, q)
<1> DEFINE t == ClaimedHour(s, i)
           entry == [s.queue[i] EXCEPT !.claimed = TRUE]
           x == [s.queue EXCEPT ![i] = entry]
<1>1. /\ s \in Stores /\ Fit(s, q) /\ Recorded(o, q) /\ Owed(s, o) /\ Apart(s, o) /\ Placed(s, o, q)
      /\ s.queue \in [Places -> Entries]
  BY DEF Ready, Good, Stores
<1>2. /\ t.open = s.open /\ t.queue = x /\ t.done = s.done /\ t.owed = "hour"
      /\ t.id = s.id /\ (t.confirmed <=> s.confirmed) /\ ~t.moved
      /\ (t.blocked <=> s.blocked) /\ (t.barrier <=> s.barrier)
      /\ (t.lost <=> s.lost) /\ (t.restore <=> s.restore)
  BY <1>1 DEF ClaimedHour, Stores
<1> HIDE DEF t
<1>3. \A j \in Places : ~s.queue[j].claimed BY <1>1 DEF Fit, Claims
<1>4. NoReceipt.kind = "none" BY DEF NoReceipt
<1>5. \A j \in Places : /\ t.queue[j].sum = s.queue[j].sum /\ t.queue[j].hour = s.queue[j].hour
                        /\ t.queue[j].claimed <=> j = i
  <2>1. entry.claimed /\ entry.sum = s.queue[i].sum /\ entry.hour = s.queue[i].hour
    BY <1>1 DEF Entries
  <2> HIDE DEF entry
  <2>2. x[i] = entry /\ \A j \in Places : j # i => x[j] = s.queue[j] BY <1>1
  <2> QED BY <1>2, <1>3, <2>1, <2>2
<1> HIDE DEF x
<1>6. Fit(t, q)
  <2>1. Free(t) BY <1>1, <1>2, <1>5 DEF Fit, Free
  <2>2. Claims(t) BY <1>2, <1>5 DEF Claims
  <2>3. Once(t) BY <1>1, <1>2, <1>5 DEF Fit, Once, InRam
  <2>4. Timed(t, q) BY <1>1, <1>2, <1>5 DEF Fit, Timed, HeldIn
  <2> QED BY <2>1, <2>2, <2>3, <2>4 DEF Fit
<1>7. Recorded(p, q)
  <2>1. \A e \in Stops : s.queue[i].sum[e] =< 1 /\ (s.queue[i].sum[e] > 0 => s.queue[i].hour = q[e].hour)
    BY <1>1 DEF Fit, Once, Timed, HeldIn
  <2> QED BY <1>1, <2>1 DEF Recorded, HeldIn
<1>8. Owed(t, p)
  <2>1. t.barrier => t.blocked BY <1>1, <1>2 DEF Owed
  <2> QED BY <1>2, <1>4, <1>5, <2>1 DEF Owed
<1>9. Apart(t, p)
  <2>1. \A e \in Stops : Loose(t, e) => Loose(s, e) BY <1>2, <1>3, <1>5 DEF Loose
  <2>2. ASSUME NEW e \in Stops, p.rec.sum[e] > 0 PROVE ~Loose(t, e) /\ ~InIndex(e)
    <3>1. Loose(s, e) BY <1>3, <2>2 DEF Loose
    <3>2. ~InIndex(e) BY <1>1, <3>1 DEF Apart
    <3>3. \A j \in Places : s.queue[j].sum[e] > 0 => j = i BY <1>1, <2>2 DEF Fit, Once
    <3>4. ~(s.open.sum[e] > 0) BY <1>1, <2>2 DEF Fit, Once
    <3> QED BY <1>2, <1>5, <3>2, <3>3, <3>4 DEF Loose
  <2> QED BY <1>1, <1>2, <2>1, <2>2 DEF Apart
<1>10. Placed(t, p, q)
  <2>1. \A e \in Stops : InRam(s, e) => InRam(t, e) BY <1>2, <1>5 DEF InRam
  <2>2. DOMAIN q \subseteq Stops BY DEF Ready
  <2> QED BY <1>1, <1>2, <1>4, <2>1, <2>2 DEF Placed, Stored, Summed
<1> QED BY <1>6, <1>7, <1>8, <1>9, <1>10 DEF Good, t

LEMMA FlashNextSum == ASSUME StopIInv, SumInv, FlashNext PROVE SumInv'
<1> DEFINE r == ApplyReceipt(store, owner.receipt)
           ready == MayClaim(r)
           s == IF ~ready THEN r ELSE IF Dated(r) THEN ExpireLive(Clocked(r)) ELSE Clocked(r)
           told == [owner EXCEPT !.receipt = NoReceipt]
           fences == ready /\ s.barrier
           claims == ready /\ Dated(s) /\ ~s.restore /\ Oldest(s) # {}
           i == Min(Oldest(s))
<1>1. /\ StopShape /\ EpochInv /\ store \in Stores /\ owner \in Owners /\ owner.receipt \in Receipts
      /\ owner.pc = "idle" /\ UNCHANGED <<known, journal, events, checkup, http, hour>>
      /\ Ready(store, owner, stops) /\ Now /\ owner.rec = NoRecord
  BY Setting DEF StopIInv, StopShape, StoreShape, EvidenceInv, FlashNext, ownerSide, Owners,
                 SumInv, TimeInv
<1>2. /\ stops' = IF ready THEN WithdrawnBy(r, stops) ELSE stops
      /\ IF fences
         THEN /\ store' = [s EXCEPT !.owed = "fence", !.moved = FALSE]
              /\ owner' = [told EXCEPT !.pc = "append", !.rec = FenceRecord(s)]
         ELSE IF claims
         THEN /\ store' = [s EXCEPT !.owed = "hour", !.queue[i].claimed = TRUE, !.moved = FALSE]
              /\ owner' = [told EXCEPT !.pc = "append", !.rec = HourRecord(s, i)]
         ELSE store' = [s EXCEPT !.moved = FALSE] /\ owner' = told
  BY DEF FlashNext
<1>3. told \in Owners /\ told.pc = "idle" /\ told.rec = NoRecord /\ told.receipt = NoReceipt
  <2>1. NoReceipt \in Receipts BY DEF NoReceipt, Receipts, Kinds
  <2> QED BY <1>1, <2>1 DEF Owners
<1>4. Ready(r, told, stops) /\ r.id = store.id /\ (r.confirmed <=> store.confirmed) /\ r \in Stores
  <2>1. told.pc # "append" /\ told.rec = owner.rec BY <1>1, <1>3
  <2> HIDE DEF told
  <2>2. Ready(r, told, stops) /\ r.id = store.id /\ (r.confirmed <=> store.confirmed)
    BY <1>1, <1>3, <2>1, ReceiptReady
  <2> QED BY <2>2 DEF Ready
<1>5. r.enabled /\ r.blocked => r.barrier
  <2> DEFINE sealed == owner.receipt.kind = "fence" /\ owner.receipt.ok /\ ~store.moved
  <2>1. /\ (r.enabled <=> store.enabled)
        /\ (r.blocked <=> store.blocked /\ ~sealed) /\ (r.barrier <=> store.barrier /\ ~sealed)
    BY <1>1, ReceiptIn
  <2> QED BY <1>1, <2>1 DEF EpochInv
<1>6. ready => r.enabled /\ r.owed = "none" BY DEF MayClaim
<1> HIDE DEF r, told
<1> PICK q : q = stops' OBVIOUS
<1>7. /\ Ready(s, told, q) /\ Extends(stops, q) /\ DOMAIN q = DOMAIN stops
      /\ s \in Stores /\ s.id = store.id
      /\ ready => s.owed = "none" /\ (s.blocked <=> s.barrier)
  <2>1. CASE ready /\ r.clock = "moved"
    <3>1. s = InvalidateClock(r) /\ q = Withdrawn(stops)
      BY <1>2, <1>4, <2>1, ClockedIn DEF Dated, WithdrawnBy
    <3> HIDE DEF s, ready
    <3>2. /\ Ready(s, told, q) /\ Extends(stops, q) /\ DOMAIN q = DOMAIN stops /\ s.id = r.id
          /\ s.blocked /\ s.owed = "none"
      BY <1>1, <1>3, <1>4, <3>1, WithdrawnReady
    <3>3. s.barrier <=> r.enabled /\ r.confirmed BY <1>4, <3>1, InvalidateIn
    <3>4. r.confirmed BY <2>1 DEF MayClaim, ready
    <3> QED BY <1>4, <1>6, <2>1, <3>2, <3>3, <3>4 DEF Ready
  <2>2. CASE ~(ready /\ r.clock = "moved")
    <3>1. s \in {r, ExpireLive(r)} /\ q = stops BY <1>2, <1>4, <2>2, ClockedIn DEF WithdrawnBy
    <3> HIDE DEF s, ready
    <3>2. Evolves(r, s, stops, {}) /\ Within(r, s)
      <4>1. Fit(r, stops) BY <1>4 DEF Ready, Good
      <4>2. Within(r, r) BY DEF Within
      <4> QED BY <1>1, <1>4, <3>1, <4>1, <4>2, EvolvesSelf, ExpireEvolves, ExpireIn DEF Now, Tame
    <3>3. Ready(s, told, stops) /\ s.id = r.id /\ s.owed = r.owed
          /\ (s.blocked <=> r.blocked) /\ (s.barrier <=> r.barrier)
      BY <1>1, <1>4, <3>2, CalmReady
    <3>4. Extends(stops, stops) BY <1>4, ExtendsSelf DEF Ready
    <3>5. r.barrier => r.blocked BY <1>4 DEF Ready, Good, Owed
    <3> QED BY <1>4, <1>5, <1>6, <3>1, <3>3, <3>4, <3>5 DEF Ready
  <2> QED BY <2>1, <2>2
<1> HIDE DEF s, ready
<1> PICK t, p : t = store' /\ p = owner' OBVIOUS
<1>8. Good(t, p, q) /\ t.id = s.id /\ p.pc # "rebuild" /\ (p.pc # "append" => p.rec = NoRecord)
  <2>1. CASE fences
    <3>1. /\ t = [s EXCEPT !.owed = "fence", !.moved = FALSE]
          /\ p = [told EXCEPT !.pc = "append", !.rec = FenceRecord(s)]
      BY <1>2, <2>1
    <3>2. FenceRecord(s).kind = "fence" /\ FenceRecord(s).sum = Nothing
      BY DEF FenceRecord, NoRecord
    <3>3. p.pc = "append" /\ p.receipt = NoReceipt /\ p.rec = FenceRecord(s)
      BY <1>3, <3>1 DEF Owners
    <3>4. s.owed = "none" /\ s.blocked BY <1>7, <2>1
    <3>5. Good([s EXCEPT !.owed = "fence", !.moved = FALSE], p, q)
      BY <1>3, <1>7, <3>2, <3>3, <3>4, FenceClaimSum
    <3>6. t.id = s.id BY <1>7, <3>1 DEF Stores
    <3> QED BY <3>1, <3>3, <3>5, <3>6
  <2>2. CASE ~fences /\ claims
    <3>1. t = ClaimedHour(s, i) /\ p = [told EXCEPT !.pc = "append", !.rec = HourRecord(s, i)]
      BY <1>2, <2>2 DEF ClaimedHour
    <3>2. i \in Places /\ s.queue[i].hour # 0
      <4>1. Oldest(s) \in SUBSET Nat /\ Oldest(s) # {} BY <2>2, Bounds DEF Oldest, Places
      <4>2. i \in Oldest(s) BY <4>1, MinIn
      <4> HIDE DEF i
      <4> QED BY <4>2 DEF Oldest
    <3> HIDE DEF i
    <3>3. /\ HourRecord(s, i).kind = "hour" /\ HourRecord(s, i).sum = s.queue[i].sum
          /\ HourRecord(s, i).hour = s.queue[i].hour
      BY DEF HourRecord
    <3>4. p.pc = "append" /\ p.receipt = NoReceipt /\ p.rec = HourRecord(s, i)
      BY <1>3, <3>1 DEF Owners
    <3>5. s.owed = "none" /\ ~s.blocked BY <1>7, <2>2
    <3>6. Good(ClaimedHour(s, i), p, q)
      <4>1. /\ Ready(s, told, q) /\ told.receipt = NoReceipt /\ p.receipt = NoReceipt
            /\ p.pc = "append" /\ p.rec.kind = "hour" /\ p.rec.sum = s.queue[i].sum
            /\ p.rec.hour = s.queue[i].hour
        BY <1>3, <1>7, <3>3, <3>4
      <4> HIDE DEF fences, claims
      <4> QED BY <3>2, <3>5, <4>1, HourClaimSum
    <3>7. t.id = s.id BY <1>7, <3>1 DEF ClaimedHour, Stores
    <3> QED BY <3>1, <3>4, <3>6, <3>7
  <2>3. CASE ~fences /\ ~claims
    <3>1. t = [s EXCEPT !.moved = FALSE] /\ p = told BY <1>2, <2>3
    <3>2. Good([s EXCEPT !.moved = FALSE], told, q) BY <1>3, <1>7, CaughtUpSum DEF Ready
    <3>3. t.id = s.id BY <1>7, <3>1 DEF Stores
    <3> QED BY <1>3, <3>1, <3>2, <3>3
  <2> QED BY <2>1, <2>2, <2>3
<1> HIDE DEF fences, claims, i
<1>9. Good(store, owner, stops)' BY <1>1, <1>8, Rebase
<1>10. http' \in {"idle", "reset", "select"} BY <1>1 DEF SumInv, TimeInv
<1>11. TimeInv' BY <1>1, <1>7, <1>8, <1>10, TimeSide
<1> QED BY <1>9, <1>11 DEF SumInv

(* A rebuild counts a stop once, and all that is restorable unless it says  *)
(* that its sum is partial.                                                 *)
LEMMA RebuiltOnce ==
  ASSUME StopShape, NEW id, NEW now, NEW unread, NEW o, NEW q, Recorded(o, q),
         NEW r, r = Rebuilt(id, now, unread)
  PROVE  \A e \in Stops :
           /\ r.sum[e] =< 1
           /\ r.sum[e] > 0 => InIndex(e)
           /\ \A n \in Restorable(id, now) :
                Holds(n, e) /\ journal[n].id = id => r.sum[e] > 0 \/ r.partial
<1> DEFINE T == Restorable(id, now)
           R == {n \in T : n # unread /\ journal[n].id = id}
           f == [n \in R |-> journal[n].sum]
<1>1. r.sum = Total(f) /\ (r.partial <=> unread \in T) BY DEF Rebuilt
<1>2. /\ T \subseteq known /\ known \subseteq 1 .. Len(journal) /\ Len(journal) \in Nat
      /\ journal \in Seq(Records)
      /\ \A n \in T : n = NewestOf(journal[n].hour)
  BY DEF Restorable, HourRecords, StopShape, FlashShape
<1>3. \A n \in 1 .. Len(journal) : journal[n].sum \in Sums /\ n \in DOMAIN journal
  <2>1. \A n \in 1 .. Len(journal) : journal[n] \in Records /\ n \in DOMAIN journal BY <1>2
  <2> QED BY <2>1 DEF Records
<1> HIDE DEF T
<1>4. R \subseteq T /\ R \subseteq known /\ R \subseteq 1 .. Len(journal) BY <1>2
<1>5. IsFiniteSet(R)
  <2>1. IsFiniteSet(1 .. Len(journal)) BY <1>2, FS_Interval
  <2> HIDE DEF R
  <2> QED BY <1>4, <2>1, FS_Subset
<1>6. f \in [R -> Sums] /\ \A n \in R : f[n] = journal[n].sum BY <1>3, <1>4
<1>7. \A n \in T : n # unread /\ journal[n].id = id => n \in R OBVIOUS
<1> HIDE DEF R, f
<1> TAKE e \in Stops
<1>8. \A n \in R : f[n][e] =< 1 BY <1>3, <1>4, <1>6 DEF Recorded
<1>9. \A n, m \in R : f[n][e] > 0 /\ f[m][e] > 0 => n = m
  <2> SUFFICES ASSUME NEW n \in R, NEW m \in R, f[n][e] > 0, f[m][e] > 0 PROVE n = m OBVIOUS
  <2>1. journal[n].hour = q[e].hour /\ journal[m].hour = q[e].hour
    BY <1>3, <1>4, <1>6 DEF Recorded, HeldIn
  <2> QED BY <1>2, <1>4, <2>1
<1>10. Total(f)[e] =< 1 BY <1>6, <1>8, <1>9, TotalMost
<1>11. Total(f)[e] > 0 => InIndex(e)
  <2> SUFFICES ASSUME Total(f)[e] > 0 PROVE InIndex(e) OBVIOUS
  <2>1. PICK n \in R : f[n][e] > 0 BY <1>6, TotalPositive
  <2> QED BY <1>4, <1>6, <2>1 DEF InIndex, Holds
<1>12. ASSUME NEW n \in T, Holds(n, e), journal[n].id = id PROVE Total(f)[e] > 0 \/ r.partial
  <2>1. CASE n = unread BY <1>1, <1>12, <2>1
  <2>2. CASE n # unread
    <3>1. n \in R BY <1>7, <1>12, <2>2
    <3>2. f[n][e] > 0 BY <1>6, <1>12, <3>1 DEF Holds
    <3> QED BY <1>5, <1>6, <3>1, <3>2, TotalLeast
  <2> QED BY <2>1, <2>2
<1> QED BY <1>1, <1>10, <1>11, <1>12 DEF T

(* The sum published while no transaction is under way.                     *)
LEMMA PublishSum ==
  ASSUME NEW s, NEW o, NEW q, NEW r \in Dones, NEW t, Ready(s, o, q), s.owed = "none",
         t = [s EXCEPT !.done = r, !.restore = FALSE, !.lost = @ \/ r.lost],
         \A e \in Stops : r.sum[e] =< 1 /\ (r.sum[e] > 0 => InIndex(e)),
         \A e \in DOMAIN q : Wanted(e, q) /\ Stored(s, e, q) => r.sum[e] > 0 \/ r.partial
  PROVE  Good(t, o, q)
<1>1. /\ s \in Stores /\ Fit(s, q) /\ Recorded(o, q) /\ Owed(s, o) /\ Apart(s, o) /\ Placed(s, o, q)
      /\ DOMAIN q \subseteq Stops
  BY DEF Ready, Good
<1>2. /\ t.open = s.open /\ t.queue = s.queue /\ t.done = r /\ t.owed = s.owed
      /\ t.id = s.id /\ (t.confirmed <=> s.confirmed) /\ (t.moved <=> s.moved)
      /\ (t.blocked <=> s.blocked) /\ (t.barrier <=> s.barrier) /\ (s.lost => t.lost)
  BY <1>1 DEF Stores
<1>3. \A i \in Places : ~s.queue[i].claimed BY <1>1 DEF Fit, Claims
<1>4. \A e \in Stops : InRam(s, e) => Loose(s, e) BY <1>3 DEF InRam, Loose
<1>5. Fit(t, q)
  <2>1. Free(t) BY <1>1, <1>2 DEF Fit, Free
  <2>2. Claims(t) BY <1>1, <1>2 DEF Fit, Claims
  <2>3. Once(t)
    <3>1. \A e \in Stops : r.sum[e] > 0 => ~InRam(s, e) BY <1>1, <1>4 DEF Apart
    <3> QED BY <1>1, <1>2, <3>1 DEF Fit, Once, InRam
  <2>4. Timed(t, q) BY <1>1, <1>2 DEF Fit, Timed
  <2> QED BY <2>1, <2>2, <2>3, <2>4 DEF Fit
<1>6. Owed(t, o) BY <1>1, <1>2 DEF Owed
<1>7. Apart(t, o) BY <1>1, <1>2 DEF Apart, Loose
<1>8. Placed(t, o, q)
  <2>1. \A e \in Stops : InRam(s, e) => InRam(t, e) BY <1>2 DEF InRam
  <2>2. \A e : Stored(s, e, q) <=> Stored(t, e, q) BY <1>2 DEF Stored
  <2>3. ASSUME NEW e \in DOMAIN q, Wanted(e, q)
        PROVE  t.lost \/ InRam(t, e) \/ (Stored(t, e, q) /\ ~t.blocked /\ Summed(t, e))
    <3>1. s.lost \/ InRam(s, e) \/ (Stored(s, e, q) /\ ~s.blocked) BY <1>1, <2>3 DEF Placed
    <3>2. Stored(s, e, q) => Summed(t, e) BY <1>2, <2>3 DEF Summed
    <3> QED BY <1>1, <1>2, <2>1, <2>2, <3>1, <3>2
  <2> QED BY <1>1, <1>2, <1>3, <2>3 DEF Placed
<1> QED BY <1>1, <1>5, <1>6, <1>7, <1>8 DEF Good

(* What is stored for today's report is restorable.                         *)
LEMMA StoredRestorable ==
  ASSUME StopIInv, SumInv, owner.pc = "rebuild", NEW e \in DOMAIN stops,
         Wanted(e, stops), Stored(store, e, stops)
  PROVE  \E n \in Restorable(store.id, owner.hour) : Holds(n, e) /\ journal[n].id = store.id
<1> DEFINE h == stops[e].hour
           n == NewestOf(h)
<1>1. n \in known /\ Holds(n, e) /\ journal[n].id = store.id /\ n > FenceOf(store.id)
  BY DEF Stored
<1>2. FlashShape /\ owner.hour \in Nat /\ hour \in Nat /\ stops[e] \in Seen /\ e \in Stops
  <2>1. /\ FlashShape /\ owner \in Owners /\ hour \in Nat /\ stops \in Seq(Seen)
        /\ DOMAIN stops \subseteq Stops
    BY Setting DEF StopIInv, StopShape, StoreShape, Ready
  <2> QED BY <2>1 DEF Owners
<1>3. n \in DOMAIN journal /\ n # 0
  <2>1. known \subseteq DOMAIN journal /\ DOMAIN journal = 1 .. Len(journal) /\ Len(journal) \in Nat
    BY <1>2 DEF FlashShape
  <2> QED BY <1>1, <2>1
<1>4. n \in HourRecords /\ journal[n].hour = h BY <1>2, <1>3, NewestIn
<1>5. owner.hour =< hour /\ h =< owner.hour BY <1>1, <1>2, <1>3 DEF SumInv, TimeInv
<1>6. InWindow(h, owner.hour)
  <2>1. h > 0 /\ h + StopWindow > hour /\ h \in Nat BY <1>2 DEF Wanted, InWindow, Seen
  <2> QED BY <1>2, <1>5, <2>1, Bounds DEF InWindow
<1>7. n = NewestOf(journal[n].hour) BY <1>4
<1> HIDE DEF n, h
<1> QED BY <1>1, <1>4, <1>6, <1>7 DEF Restorable

LEMMA ServicePublishSum == ASSUME StopIInv, SumInv, ServicePublish PROVE SumInv'
<1>1. /\ StopShape /\ EpochInv /\ store \in Stores /\ owner \in Owners
      /\ owner.pc = "rebuild" /\ owner.receipt = NoReceipt /\ owner.hour \in Nat
      /\ UNCHANGED <<known, journal, checkup, http, hour>> /\ (events' = events \/ Event)
      /\ Ready(store, owner, stops) /\ Now /\ owner.rec = NoRecord
  BY Setting, SMTT(60) DEF StopIInv, StopShape, StoreShape, EvidenceInv, EpochInv, ServicePublish, ownerSide,
                 Owners, SumInv, TimeInv
<1>2. PICK unread :
        LET r     == Rebuilt(store.id, owner.hour, unread)
            late  == ~Dated(store) \/ (r.expiry # 0 /\ hour >= r.expiry)
            retry == [ExpireLive(Clocked(store)) EXCEPT !.restore = TRUE]
        IN  IF store.moved
            THEN UNCHANGED stops /\ store' = [store EXCEPT !.moved = FALSE] /\ owner' = Released
            ELSE /\ store' = IF late THEN retry
                             ELSE [Clocked(store) EXCEPT !.done = r, !.restore = FALSE,
                                                         !.lost = @ \/ r.lost]
                 /\ stops' = WithdrawnBy(store, stops)
                 /\ owner' = [Released EXCEPT !.rebuild = late \/ unread # 0]
  BY DEF ServicePublish
<1>3. http' \in {"idle", "reset", "select"} BY <1>1 DEF SumInv, TimeInv
<1> PICK t, p, q : t = store' /\ p = owner' /\ q = stops' OBVIOUS
<1>4. p.pc = "idle" /\ p.rec = NoRecord /\ p.receipt = NoReceipt
  <2>1. Released.pc = "idle" /\ Released.rec = NoRecord /\ Released.receipt = NoReceipt /\ Released \in Owners
    BY <1>1 DEF Released, Owners
  <2>2. \E b \in BOOLEAN : p = Released \/ p = [Released EXCEPT !.rebuild = b] BY <1>2
  <2> QED BY <2>1, <2>2 DEF Owners
<1>5. Ready(store, p, stops)
  <2>1. Good(store, owner, stops) BY <1>1 DEF Ready
  <2>2. p.pc # "append" /\ owner.pc # "append" /\ p.rec = owner.rec /\ p.receipt = owner.receipt
    BY <1>1, <1>4
  <2>3. Good(store, p, stops) BY <2>1, <2>2 DEF Good, Recorded, Owed, Apart, Placed
  <2> QED BY <1>1, <2>2, <2>3 DEF Ready, Backed
<1>6. Good(t, p, q) /\ t.id = store.id /\ Extends(stops, q) /\ DOMAIN q = DOMAIN stops
  <2>0. Extends(stops, stops) BY <1>1, ExtendsSelf DEF Ready
  <2>1. CASE store.moved
    <3>1. t = [store EXCEPT !.moved = FALSE] /\ q = stops BY <1>2, <2>1
    <3>2. t.id = store.id BY <1>1, <3>1 DEF Stores
    <3> QED BY <1>1, <1>4, <1>5, <2>0, <3>1, <3>2, CaughtUpSum DEF Ready
  <2>2. CASE ~store.moved
    <3> DEFINE r     == Rebuilt(store.id, owner.hour, unread)
               late  == ~Dated(store) \/ (r.expiry # 0 /\ hour >= r.expiry)
               c     == Clocked(store)
               x     == ExpireLive(c)
    <3>1. /\ t = IF late THEN [x EXCEPT !.restore = TRUE]
                 ELSE [c EXCEPT !.done = r, !.restore = FALSE, !.lost = @ \/ r.lost]
          /\ q = WithdrawnBy(store, stops)
      BY <1>2, <2>2
    <3>2. store.confirmed /\ ~store.blocked BY <1>1, <2>2 DEF EpochInv, Captured
    <3>3. store.clock = "moved" => late BY DEF Dated
    <3>4. /\ r \in Dones /\ JournalInv
          /\ \A e \in Stops : r.sum[e] =< 1 /\ (r.sum[e] > 0 => InIndex(e))
          /\ \A e \in DOMAIN stops : Wanted(e, stops) /\ Stored(store, e, stops) => r.sum[e] > 0 \/ r.partial
      <4>1. JournalInv /\ Recorded(owner, stops) /\ DOMAIN stops \subseteq Stops
        BY <1>1 DEF StopIInv, EvidenceInv, Ready, Good
      <4>2. r \in Dones BY <1>1, <4>1, RebuiltIn
      <4>3. \A e \in Stops :
              /\ r.sum[e] =< 1
              /\ r.sum[e] > 0 => InIndex(e)
              /\ \A n \in Restorable(store.id, owner.hour) :
                   Holds(n, e) /\ journal[n].id = store.id => r.sum[e] > 0 \/ r.partial
        BY <1>1, <4>1, RebuiltOnce
      <4>4. \A e \in DOMAIN stops : Wanted(e, stops) /\ Stored(store, e, stops) =>
              \E n \in Restorable(store.id, owner.hour) : Holds(n, e) /\ journal[n].id = store.id
        BY <1>1, StoredRestorable
      <4> HIDE DEF r
      <4> QED BY <4>1, <4>2, <4>3, <4>4
    <3> HIDE DEF late, r
    <3>5. Ready(c, p, q) /\ c.id = store.id /\ Extends(stops, q) /\ DOMAIN q = DOMAIN stops
          /\ (store.clock # "moved" => c = store /\ q = stops)
      <4>1. CASE store.clock = "moved"
        <5>1. c = InvalidateClock(store) /\ q = Withdrawn(stops) BY <1>1, <3>1, <4>1, ClockedIn DEF WithdrawnBy
        <5> HIDE DEF c
        <5> QED BY <1>1, <1>4, <1>5, <4>1, <5>1, WithdrawnReady
      <4>2. CASE store.clock # "moved"
        <5>1. c = store /\ q = stops BY <1>1, <3>1, <4>2, ClockedIn DEF WithdrawnBy
        <5> HIDE DEF c
        <5> QED BY <1>5, <2>0, <5>1
      <4> QED BY <4>1, <4>2
    <3> HIDE DEF c
    <3>6. CASE late
      <4>1. t = [x EXCEPT !.restore = TRUE] BY <3>1, <3>6
      <4>2. Evolves(c, x, q, {}) /\ Within(c, x)
        BY <1>1, <3>5, ExpireEvolves, ExpireIn DEF Ready, Good, Now, Tame
      <4> HIDE DEF x
      <4>3. Ready(x, p, q) /\ x.id = c.id BY <1>1, <3>5, <4>2, CalmReady
      <4>4. x \in Stores /\ Fit(x, q) BY <4>3 DEF Ready, Good
      <4>5. Tame(x, t) BY <4>1, <4>4, RestoreIn
      <4>6. /\ t.id = x.id /\ (t.confirmed <=> x.confirmed) /\ (t.moved <=> x.moved)
            /\ (t.blocked <=> x.blocked) /\ (t.barrier <=> x.barrier) /\ t.owed = x.owed
            /\ t.open = x.open /\ t.queue = x.queue /\ t.done = x.done
            /\ (x.lost => t.lost) /\ (x.restore => t.restore)
        BY <4>1, <4>4 DEF Stores
      <4>7. Evolves(x, t, q, {}) BY <4>4, <4>5, <4>6, EvolvesLike DEF Tame
      <4>8. Ready(t, p, q) BY <1>1, <4>3, <4>5, <4>7, CalmReady DEF Tame
      <4> QED BY <3>5, <4>3, <4>6, <4>8 DEF Ready
    <3>7. CASE ~late
      <4>1. c = store /\ q = stops BY <3>3, <3>5, <3>7
      <4>2. t = [store EXCEPT !.done = r, !.restore = FALSE, !.lost = @ \/ r.lost] BY <3>1, <3>7, <4>1
      <4>3. store.owed = "none"
        <5>1. Owed(store, p) /\ NoReceipt.kind = "none" BY <1>5 DEF Ready, Good, NoReceipt
        <5> QED BY <1>4, <5>1 DEF Owed
      <4>4. Good(t, p, stops) BY <1>5, <3>4, <4>2, <4>3, PublishSum
      <4>5. t.id = store.id BY <1>1, <4>2 DEF Stores
      <4> QED BY <2>0, <4>1, <4>4, <4>5
    <3> QED BY <3>6, <3>7
  <2> QED BY <2>1, <2>2
<1>7. Good(store, owner, stops)' BY <1>1, <1>6, Rebase
<1>8. TimeInv' BY <1>1, <1>3, <1>4, <1>6, TimeSide
<1> QED BY <1>7, <1>8 DEF SumInv

-----------------------------------------------------------------------------
(* Sums: appending a record                                                 *)

(* What a record of the journal changes of the stops: whether they are      *)
(* fenced.                                                                  *)
Refenced(q, r) ==
  /\ DOMAIN r = DOMAIN q
  /\ \A e \in DOMAIN q : /\ r[e].hour = q[e].hour /\ (r[e].here <=> q[e].here)
                         /\ r[e].gone <=> q[e].gone
LEMMA RefencedBy ==
  ASSUME StopShape, Programmed(Merged(owner.rec))
  PROVE  Refenced(stops, stops')
<1> DEFINE id == Merged(owner.rec).id
<1>1. stops \in Seq(Seen) /\ stops' \in {stops, Sealed(stops, id)}
  BY DEF StopShape, GhostShape, Programmed
<1>2. CASE stops' = stops BY <1>2 DEF Refenced
<1>3. CASE stops' = Sealed(stops, id)
  <2> DEFINE new(i) == [stops[i] EXCEPT !.fenced = @ \/ (stops[i].gone /\ stops[i].id = id)]
  <2>1. \A i \in DOMAIN stops : stops[i] \in Seen BY <1>1
  <2>2. \A i \in DOMAIN stops : /\ new(i).hour = stops[i].hour /\ (new(i).here <=> stops[i].here)
                                /\ new(i).gone <=> stops[i].gone
    BY <2>1 DEF Seen
  <2>3. stops' = [i \in DOMAIN stops |-> new(i)] BY <1>3 DEF Sealed
  <2> HIDE DEF new
  <2> QED BY <2>2, <2>3 DEF Refenced
<1> QED BY <1>1, <1>2, <1>3

(* A merged record holds a stop once and under its hour; what it holds is   *)
(* of the entry claimed or of the record that it supersedes.                *)
LEMMA MergedOnce ==
  ASSUME StopIInv, SumInv, owner.pc = "append", NEW m, m = Merged(owner.rec)
  PROVE  /\ m.hour = owner.rec.hour
         /\ \A e \in Stops :
              /\ m.sum[e] =< 1 /\ HeldIn(m, e, stops)
              /\ owner.rec.sum[e] > 0 => m.sum[e] > 0
              /\ m.sum[e] > 0 => owner.rec.sum[e] > 0 \/ InIndex(e)
         /\ \A e \in Stops :
              LET b == NewestOf(owner.rec.hour)
              IN  /\ owner.rec.kind = "hour" /\ b \in known /\ Holds(b, e)
                  /\ journal[b].id = owner.rec.id /\ b > FenceOf(owner.rec.id)
                  => m.sum[e] > 0
<1> DEFINE r == owner.rec
           b == NewestOf(r.hour)
           extends == ~(r.kind = "fence" \/ BaseOf(r) = 0 \/ journal[BaseOf(r)].id # r.id)
<1>1. /\ r \in Records /\ FlashShape /\ Recorded(owner, stops) /\ Apart(store, owner)
  BY Setting, AppendSetting DEF StopShape, Ready, Good
<1>2. m = IF ~extends THEN r
          ELSE [r EXCEPT !.sum = Plus(@, journal[BaseOf(r)].sum), !.lost = @ \/ journal[BaseOf(r)].lost]
  BY DEF Merged
<1>3. BaseOf(r) = IF b > FenceOf(r.id) THEN b ELSE 0 BY DEF BaseOf
<1>4. \A k \in known : k # 0 /\ k \in DOMAIN journal /\ journal[k] \in Records
  <2>1. journal \in Seq(Records) /\ known \subseteq 1 .. Len(journal) /\ Len(journal) \in Nat
    BY <1>1 DEF FlashShape
  <2> QED BY <2>1
<1>5. \A e \in Stops : r.sum[e] \in Nat /\ r.sum[e] =< 1 /\ HeldIn(r, e, stops)
  BY <1>1 DEF Recorded, Records, Sums
<1> HIDE DEF r, b
<1>6. CASE extends
  <2>1. b # 0 /\ BaseOf(r) = b /\ journal[b].id = r.id BY <1>3, <1>6
  <2>2. b \in HourRecords /\ journal[b].hour = r.hour BY <1>1, <2>1, NewestIn DEF b
  <2>3. b \in known /\ journal[b] \in Records BY <1>4, <2>2 DEF HourRecords
  <2> DEFINE sum == Plus(r.sum, journal[b].sum)
             lost == r.lost \/ journal[b].lost
  <2>4. m = [r EXCEPT !.sum = sum, !.lost = lost] BY <1>1, <1>2, <1>6, <2>1 DEF r, Records
  <2>5. \A e \in Stops : sum[e] = r.sum[e] + journal[b].sum[e] /\ journal[b].sum[e] \in Nat
    BY <1>1, <2>3, SumsAt DEF r, Records, Sums
  <2> HIDE DEF sum, lost
  <2>6. m.hour = r.hour /\ m.sum = sum BY <1>1, <2>4 DEF r, Records
  <2>7. \A e \in Stops : journal[b].sum[e] > 0 => InIndex(e) BY <2>3 DEF InIndex, Holds
  <2>8. \A e \in Stops : r.sum[e] > 0 => ~InIndex(e) BY <1>1 DEF Apart, r
  <2>9. \A e \in Stops : journal[b].sum[e] =< 1 /\ (journal[b].sum[e] > 0 => r.hour = stops[e].hour)
    BY <1>1, <1>4, <2>2, <2>3 DEF Recorded, HeldIn
  <2>10. ASSUME NEW e \in Stops
         PROVE  /\ m.sum[e] =< 1 /\ HeldIn(m, e, stops)
                /\ r.sum[e] > 0 => m.sum[e] > 0
                /\ m.sum[e] > 0 => r.sum[e] > 0 \/ InIndex(e)
                /\ Holds(b, e) => m.sum[e] > 0
    <3>1. /\ m.sum[e] = r.sum[e] + journal[b].sum[e]
          /\ r.sum[e] \in Nat /\ journal[b].sum[e] \in Nat
          /\ r.sum[e] =< 1 /\ journal[b].sum[e] =< 1
      BY <1>5, <2>5, <2>6, <2>9
    <3>2. r.sum[e] = 0 \/ journal[b].sum[e] = 0 BY <2>7, <2>8, <3>1
    <3>3. m.sum[e] =< 1 BY <3>1, <3>2
    <3>4. m.sum[e] > 0 => r.sum[e] > 0 \/ journal[b].sum[e] > 0 BY <3>1
    <3>5. HeldIn(m, e, stops) BY <1>5, <2>6, <2>9, <3>4 DEF HeldIn
    <3> QED BY <2>7, <3>1, <3>3, <3>4, <3>5 DEF Holds
  <2> QED BY <2>6, <2>10 DEF r, b
<1>7. CASE ~extends
  <2>1. m = r BY <1>2, <1>7
  <2>2. \A e \in Stops :
          ~(r.kind = "hour" /\ b \in known /\ Holds(b, e) /\ journal[b].id = r.id /\ b > FenceOf(r.id))
    BY <1>3, <1>4, <1>7
  <2> QED BY <1>5, <2>1, <2>2 DEF r, b
<1> QED BY <1>6, <1>7

(* The index with one more record.                                          *)
LEMMA NewestAppended ==
  ASSUME FlashShape, NEW m \in Records, journal' = Append(journal, m), m.kind = "hour",
         NEW n, n = Len(journal) + 1, known' = known \cup {n}
  PROVE  /\ NewestOf(m.hour)' = n /\ \A h : h # m.hour => NewestOf(h)' = NewestOf(h)
         /\ \A id : FenceOf(id)' = FenceOf(id) /\ n > FenceOf(id)
<1>1. /\ journal \in Seq(Records) /\ known \subseteq DOMAIN journal /\ Len(journal) \in Nat
      /\ DOMAIN journal = 1 .. Len(journal)
  BY DEF FlashShape
<1>2. n \in Nat /\ known \subseteq 1 .. Len(journal) /\ n \notin known BY <1>1
<1>3. journal'[n] = m /\ \A k \in known : journal'[k] = journal[k] BY <1>1, <1>2
<1>4. \A h : h # m.hour => NewestOf(h)' = NewestOf(h)
  <2> SUFFICES ASSUME NEW h, h # m.hour PROVE NewestOf(h)' = NewestOf(h) OBVIOUS
  <2>1. {k \in HourRecords' : journal'[k].hour = h} = {k \in HourRecords : journal[k].hour = h}
    BY <1>2, <1>3 DEF HourRecords
  <2> QED BY <2>1 DEF NewestOf
<1>5. ASSUME NEW id PROVE FenceOf(id)' = FenceOf(id) /\ n > FenceOf(id)
  <2> DEFINE T == {0} \cup {k \in known : journal[k].kind = "fence" /\ journal[k].id = id}
  <2>1. {k \in known' : journal'[k].kind = "fence" /\ journal'[k].id = id}
        = {k \in known : journal[k].kind = "fence" /\ journal[k].id = id}
    BY <1>2, <1>3
  <2>2. FenceOf(id)' = FenceOf(id) BY <2>1 DEF FenceOf
  <2>3. T \in SUBSET (0 .. Len(journal)) /\ T # {} BY <1>1, <1>2
  <2>4. FenceOf(id) = Max(T) BY DEF FenceOf
  <2> HIDE DEF T
  <2>5. FenceOf(id) \in 0 .. Len(journal) BY <1>1, <2>3, <2>4, MaxIn
  <2> QED BY <1>1, <2>2, <2>5
<1>6. NewestOf(m.hour)' = n
  <2> DEFINE T == {0} \cup {k \in HourRecords' : journal'[k].hour = m.hour}
  <2>1. n \in T BY <1>3 DEF HourRecords
  <2>2. T \in SUBSET (0 .. n) BY <1>1, <1>2 DEF HourRecords
  <2>3. NewestOf(m.hour)' = Max(T) BY DEF NewestOf
  <2> HIDE DEF T
  <2>4. Max(T) \in 0 .. n /\ n =< Max(T) BY <1>2, <2>1, <2>2, MaxIn
  <2> QED BY <1>2, <2>3, <2>4
<1> QED BY <1>4, <1>5, <1>6

LEMMA NewestUnknown ==
  ASSUME FlashShape, NEW m \in Records, journal' = Append(journal, m), known' = known
  PROVE  /\ \A h : NewestOf(h)' = NewestOf(h)
         /\ \A id : FenceOf(id)' = FenceOf(id)
         /\ \A k \in known : journal'[k] = journal[k]
<1>1. /\ journal \in Seq(Records) /\ known \subseteq DOMAIN journal /\ Len(journal) \in Nat
      /\ DOMAIN journal = 1 .. Len(journal)
  BY DEF FlashShape
<1>2. \A k \in known : journal'[k] = journal[k] BY <1>1
<1>3. \A h : NewestOf(h)' = NewestOf(h)
  <2> SUFFICES ASSUME NEW h PROVE NewestOf(h)' = NewestOf(h) OBVIOUS
  <2>1. {k \in HourRecords' : journal'[k].hour = h} = {k \in HourRecords : journal[k].hour = h}
    BY <1>2 DEF HourRecords
  <2> QED BY <2>1 DEF NewestOf
<1>4. \A id : FenceOf(id)' = FenceOf(id)
  <2> SUFFICES ASSUME NEW id PROVE FenceOf(id)' = FenceOf(id) OBVIOUS
  <2>1. {k \in known' : journal'[k].kind = "fence" /\ journal'[k].id = id}
        = {k \in known : journal[k].kind = "fence" /\ journal[k].id = id}
    BY <1>2
  <2> QED BY <2>1 DEF FenceOf
<1> QED BY <1>2, <1>3, <1>4

LEMMA FitRefenced ==
  ASSUME NEW s \in Stores, NEW q, NEW r, Fit(s, q), Refenced(q, r),
         \A e \in Stops : Live(s, e) => e \in DOMAIN q
  PROVE  Fit(s, r)
<1>1. \A e \in Stops : s.open.sum[e] > 0 => r[e].hour = q[e].hour BY DEF Live, Refenced
<1>2. \A e \in Stops, i \in Places : s.queue[i].sum[e] > 0 => r[e].hour = q[e].hour
  BY DEF Live, Refenced
<1>3. Timed(s, r) BY <1>1, <1>2 DEF Fit, Timed, HeldIn
<1> QED BY <1>3 DEF Fit

(* A record the index knows: it takes the place of its hour's newest, or it *)
(* is a fence, and then nothing stored was wanted.                          *)
LEMMA AppendedSum ==
  ASSUME StopIInv, SumInv, owner.pc = "append", Programmed(Merged(owner.rec)),
         known' = known \cup {Len(journal) + 1}, hour' = hour,
         NEW s, s = store, NEW q, q = stops',
         NEW o, o.pc = "idle", o.rec = NoRecord, o.receipt.ok, o.receipt.kind = owner.rec.kind
  PROVE  Ready(s, o, q)' /\ Now'
<1> PICK n, r, m : n = Len(journal) + 1 /\ r = owner.rec /\ m = Merged(owner.rec) OBVIOUS
<1>1. /\ StopShape /\ EvidenceInv /\ r \in Records /\ FlashShape /\ JournalInv /\ ClaimInv /\ EpochInv
      /\ s \in Stores /\ Fit(s, stops) /\ Recorded(owner, stops) /\ Owed(s, owner) /\ Apart(s, owner)
      /\ Placed(s, owner, stops) /\ Backed(owner, stops) /\ DOMAIN stops \subseteq Stops
      /\ \A e \in Stops : Live(s, e) => e \in DOMAIN stops
      /\ hour \in Nat /\ known \subseteq DOMAIN journal
  BY Setting, AppendSetting DEF StopShape, EvidenceInv, Ready, Good, Now
<1>2. Refenced(stops, q) BY <1>1, RefencedBy
<1>3. /\ m \in Records /\ m.kind = r.kind /\ m.id = r.id /\ (r.kind = "fence" => m = r) BY <1>1, MergedIn
<1>4. /\ m.hour = r.hour
      /\ \A e \in Stops :
           /\ m.sum[e] =< 1 /\ HeldIn(m, e, stops)
           /\ r.sum[e] > 0 => m.sum[e] > 0
           /\ m.sum[e] > 0 => r.sum[e] > 0 \/ InIndex(e)
      /\ \A e \in Stops :
           LET b == NewestOf(r.hour)
           IN  /\ r.kind = "hour" /\ b \in known /\ Holds(b, e)
               /\ journal[b].id = r.id /\ b > FenceOf(r.id)
               => m.sum[e] > 0
  BY MergedOnce
<1>5. /\ DOMAIN journal' = DOMAIN journal \cup {n} /\ journal'[n] = m
      /\ \A k \in DOMAIN journal : journal'[k] = journal[k]
  BY <1>1, AppendIn
<1>6. /\ r.kind \in {"fence", "hour"} /\ (~s.moved => r.id = s.id)
      /\ owner.receipt = NoReceipt /\ (s.moved => s.blocked)
      /\ r.kind = "hour" => s.moved \/ ~s.blocked
      /\ r.kind = "fence" => s.blocked
  BY <1>1 DEF ClaimInv, EpochInv, Carrying, Owed
<1>7. journal' = Append(journal, m) BY DEF Programmed
<1>8. r.kind = "hour" =>
        /\ NewestOf(r.hour)' = n /\ \A h : h # r.hour => NewestOf(h)' = NewestOf(h)
        /\ \A id : FenceOf(id)' = FenceOf(id) /\ n > FenceOf(id)
  <2> SUFFICES ASSUME r.kind = "hour"
               PROVE  /\ NewestOf(m.hour)' = n /\ \A h : h # m.hour => NewestOf(h)' = NewestOf(h)
                      /\ \A id : FenceOf(id)' = FenceOf(id) /\ n > FenceOf(id)
    BY <1>4
  <2> QED BY <1>1, <1>3, <1>7, NewestAppended
<1>9. \A e \in Stops : o.rec.sum[e] = 0 BY SumsAt DEF NoRecord
<1>10. NoReceipt.kind = "none" BY DEF NoReceipt
<1>11. /\ DOMAIN q = DOMAIN stops
       /\ \A e \in DOMAIN stops : /\ q[e].hour = stops[e].hour /\ (q[e].here <=> stops[e].here)
                                  /\ q[e].gone <=> stops[e].gone
  BY <1>2 DEF Refenced
<1>12. \A e \in Stops : r.sum[e] > 0 => e \in DOMAIN stops BY <1>1 DEF Backed
<1>13. \A e \in Stops : InIndex(e) => e \in DOMAIN stops BY <1>1 DEF Backed, InIndex
<1>14. \A e \in Stops : m.sum[e] > 0 => e \in DOMAIN stops BY <1>4, <1>12, <1>13
<1>15. Fit(s, q)'
  <2>1. Fit(s, q) BY <1>1, <1>2, FitRefenced
  <2> QED BY <2>1 DEF Fit, Free, Claims, Once, Timed, HeldIn, InRam
<1>16. Recorded(o, q)'
  <2>1. ASSUME NEW k \in DOMAIN journal', NEW e \in Stops
        PROVE  journal'[k].sum[e] =< 1 /\ (journal'[k].sum[e] > 0 => journal'[k].hour = q[e].hour)
    <3>1. CASE k \in DOMAIN journal
      <4>1. journal[k].sum[e] =< 1 /\ (journal[k].sum[e] > 0 => journal[k].hour = stops[e].hour)
        BY <1>1, <3>1 DEF Recorded, HeldIn
      <4>2. journal[k].sum[e] > 0 => e \in DOMAIN stops BY <1>1, <3>1 DEF Backed, Holds
      <4> QED BY <1>5, <1>11, <3>1, <4>1, <4>2
    <3>2. CASE k = n BY <1>4, <1>5, <1>11, <1>14, <3>2 DEF HeldIn
    <3> QED BY <1>5, <3>1, <3>2
  <2> QED BY <1>9, <2>1 DEF Recorded, HeldIn
<1>17. Owed(s, o)'
  <2>1. s.owed # "none" => ~s.moved /\ r.kind = s.owed BY <1>1, <1>6, <1>10 DEF Owed
  <2>2. s.barrier => s.blocked BY <1>1 DEF Owed
  <2> QED BY <1>6, <2>1, <2>2 DEF Owed
<1>18. \A e \in Stops : InIndex(e)' <=> InIndex(e) \/ m.sum[e] > 0
  <2>1. known' = known \cup {n} OBVIOUS
  <2>2. \A e \in Stops, k \in known : Holds(k, e)' <=> Holds(k, e) BY <1>1, <1>5 DEF Holds
  <2>3. \A e \in Stops : Holds(n, e)' <=> m.sum[e] > 0 BY <1>5 DEF Holds
  <2> QED BY <2>1, <2>2, <2>3 DEF InIndex
<1>19. Apart(s, o)'
  <2>1. \A e \in Stops : m.sum[e] > 0 => ~Loose(s, e) BY <1>1, <1>4 DEF Apart
  <2> QED BY <1>1, <1>18, <2>1 DEF Apart, Loose
(* What was stored and is wanted stays so, and the entry claimed is stored. *)
<1>20. ASSUME r.kind = "hour", NEW e \in DOMAIN stops, r.id = s.id,
              Stored(s, e, stops) \/ (r.sum[e] > 0 /\ stops[e].hour = r.hour)
       PROVE  Stored(s, e, q)'
  <2>1. e \in Stops /\ n \in known' /\ s.id = r.id BY <1>1, <1>20
  <2>2. CASE stops[e].hour = r.hour
    <3>1. m.sum[e] > 0
      <4>1. CASE r.sum[e] > 0 BY <1>4, <2>1, <4>1
      <4>2. CASE Stored(s, e, stops)
        <5>1. /\ NewestOf(r.hour) \in known /\ Holds(NewestOf(r.hour), e)
              /\ journal[NewestOf(r.hour)].id = r.id /\ NewestOf(r.hour) > FenceOf(r.id)
          BY <2>1, <2>2, <4>2 DEF Stored
        <5> QED BY <1>4, <1>20, <2>1, <5>1
      <4> QED BY <1>20, <4>1, <4>2
    <3>2. NewestOf(q[e].hour)' = n BY <1>8, <1>11, <1>20, <2>2
    <3>3. n > FenceOf(s.id)' BY <1>8, <1>20
    <3>4. Holds(n, e)' BY <1>5, <3>1 DEF Holds
    <3>5. journal'[n].id = s.id BY <1>3, <1>5, <2>1
    <3> QED BY <2>1, <3>2, <3>3, <3>4, <3>5 DEF Stored, Holds
  <2>3. CASE stops[e].hour # r.hour
    <3> DEFINE b == NewestOf(stops[e].hour)
    <3>1. b \in known /\ Holds(b, e) /\ journal[b].id = s.id /\ b > FenceOf(s.id)
      BY <1>20, <2>3 DEF Stored
    <3>2. NewestOf(q[e].hour)' = b /\ FenceOf(s.id)' = FenceOf(s.id) BY <1>8, <1>11, <1>20, <2>3
    <3> HIDE DEF b
    <3>3. b \in known' /\ journal'[b] = journal[b] BY <1>1, <1>5, <3>1
    <3> QED BY <3>1, <3>2, <3>3 DEF Stored, Holds
  <2> QED BY <2>2, <2>3
<1>21. Placed(s, o, q)'
  <2>1. ASSUME ~s.confirmed, NEW e \in DOMAIN q, q[e].here PROVE q[e].gone
    BY <1>1, <1>11, <2>1 DEF Placed
  <2>2. ASSUME NEW e \in DOMAIN q, Wanted(e, q)'
        PROVE  s.lost \/ InRam(s, e) \/ (Stored(s, e, q)' /\ ~s.blocked /\ Summed(s, e))
    <3>1. Wanted(e, stops) BY <1>11, <2>2 DEF Wanted, InWindow
    <3>2. s.lost \/ InRam(s, e) \/ (Stored(s, e, stops) /\ ~s.blocked /\ Summed(s, e))
      BY <1>1, <1>11, <3>1 DEF Placed
    <3>3. ~s.blocked => r.kind = "hour" /\ r.id = s.id BY <1>6
    <3> QED BY <1>11, <1>20, <3>2, <3>3
  <2>3. ASSUME o.receipt.kind = "hour", NEW i \in Places, NEW e \in Stops,
               s.queue[i].claimed, s.queue[i].sum[e] > 0
        PROVE  Stored(s, e, q)'
    <3>1. r.kind = "hour" /\ r.sum[e] > 0 BY <1>1, <2>3 DEF Owed
    <3>2. ~s.moved
      <4>1. s.owed = "hour" BY <1>1, <2>3 DEF Fit, Claims
      <4> QED BY <1>1, <4>1 DEF Owed
    <3>3. e \in DOMAIN stops /\ stops[e].hour = r.hour
      BY <1>1, <1>12, <3>1 DEF Recorded, HeldIn
    <3> QED BY <1>6, <1>20, <3>1, <3>2, <3>3
  <2> QED BY <2>1, <2>2, <2>3 DEF Placed, InRam, Summed
<1>22. Backed(o, q)'
  <2>1. \A e \in Stops, k \in DOMAIN journal : Holds(k, e) => e \in DOMAIN stops BY <1>1 DEF Backed
  <2> QED BY <1>5, <1>9, <1>11, <1>14, <2>1 DEF Backed, Holds
<1>23. Now' BY <1>1, <1>5 DEF Now
<1>24. Good(s, o, q)' BY <1>15, <1>16, <1>17, <1>19, <1>21 DEF Good
<1> QED BY <1>1, <1>11, <1>22, <1>23, <1>24 DEF Ready, Live

(* The invariant of a next state whose journal has grown.                   *)
LEMMA GoodNext ==
  ASSUME NEW s, s = store', NEW o, o = owner', NEW q, q = stops', Good(s, o, q)'
  PROVE  Good(store, owner, stops)'
<1>1. Fit(store, stops)' BY DEF Good, Fit, Free, Claims, Once, Timed, HeldIn, InRam
<1>2. Recorded(owner, stops)' BY DEF Good, Recorded, HeldIn
<1>3. Owed(store, owner)' BY DEF Good, Owed
<1>4. Apart(store, owner)' BY DEF Good, Apart, InIndex, Loose, Holds
<1>5. Placed(store, owner, stops)' BY DEF Good, Placed, Stored, Wanted, InRam, Summed
<1> QED BY <1>1, <1>2, <1>3, <1>4, <1>5 DEF Good

CatchesUp ==
  \A s, o, q : Good(s, o, q) /\ s \in Stores /\ o.receipt = NoReceipt
               => Good([s EXCEPT !.moved = FALSE], o, q)
LEMMA ReceiptNext ==
  ASSUME ReceiptApplies', NEW s, NEW o, NEW q, NEW p, Ready(s, o, q)', Now', o.pc = "idle",
         o.receipt \in Receipts, p.pc # "append", p.rec = o.rec, p.receipt = NoReceipt
  PROVE  Good(ApplyReceipt(s, o.receipt), p, q)'
BY DEF ReceiptApplies
LEMMA CatchesUpSum == CatchesUp
BY CaughtUpSum DEF CatchesUp

(* The clock and the counters when a transaction ends.                      *)
LEMMA TimeAppended ==
  ASSUME StopIInv, SumInv, Refenced(stops, stops'), owner'.pc = "idle", owner'.rec = NoRecord,
         store'.id = store.id, events' = events \/ Event, UNCHANGED <<checkup, hour, http>>
  PROVE  TimeInv'
<1>1. /\ hour \in 1 .. MaxHour /\ checkup.pending.hour =< hour
      /\ \A e \in DOMAIN stops : stops[e].hour =< hour
      /\ events \in 0 .. MaxEvents /\ store.id.consent =< events
      /\ http \in {"idle", "reset", "select"}
  BY DEF SumInv, TimeInv
<1>2. store.id.consent \in Nat
  <2>1. store \in Stores BY DEF StopIInv, StopShape, StoreShape
  <2> QED BY <2>1 DEF Stores, Ids
<1>3. events' \in 0 .. MaxEvents /\ store'.id.consent =< events'
  <2>1. events' = events \/ (events < MaxEvents /\ events' = events + 1) BY DEF Event
  <2>2. MaxEvents \in Nat /\ events \in Nat BY <1>1, Bounds
  <2>3. events' \in 0 .. MaxEvents BY <1>1, <2>1, <2>2
  <2> QED BY <1>1, <1>2, <2>1, <2>2, <2>3
<1>4. \A e \in DOMAIN stops' : stops'[e].hour =< hour BY <1>1 DEF Refenced
<1>5. owner'.pc # "rebuild" OBVIOUS
<1> QED BY <1>1, <1>3, <1>4, <1>5 DEF TimeInv

LEMMA AppendCommittedSum == ASSUME StopIInv, SumInv, AppendCommitted PROVE SumInv'
<1>1. /\ owner.pc = "append" /\ Programmed(Merged(owner.rec)) /\ UNCHANGED ownerSide
      /\ known' = known \cup {Len(journal) + 1}
      /\ (Finish(TRUE, FALSE) /\ events' = events) \/ (Finish(TRUE, TRUE) /\ Event)
  BY DEF AppendCommitted
<1>2. /\ store \in Stores /\ owner \in Owners /\ StopShape /\ owner.rec.kind \in Kinds
  BY DEF StopIInv, StopShape, StoreShape, Owners, Records
<1>3. PICK ok \in BOOLEAN : ok = TRUE OBVIOUS
<1>4. PICK no \in BOOLEAN : no = FALSE OBVIOUS
<1>5. PICK busy \in BOOLEAN : Finish(ok, busy) /\ (events' = events \/ Event)
  <2>1. Finish(ok, no) \/ Finish(ok, ok) BY <1>1, <1>3, <1>4, Zenon
  <2> QED BY <1>1, <2>1
<1> DEFINE r == [kind |-> owner.rec.kind, ok |-> ok]
           again == owner.rebuild \/ ok
<1>a. PICK o : o = [owner EXCEPT !.pc = "idle", !.rec = NoRecord, !.rebuild = again, !.receipt = r] OBVIOUS
<1>b. PICK s, q : s = store /\ q = stops' OBVIOUS
<1>6. NoRecord \in Records BY SumsIn DEF Records, NoRecord, Kinds, Ids, Srcs
<1>7. r \in Receipts /\ r.ok /\ r.kind = owner.rec.kind /\ r # NoReceipt
      /\ again \in BOOLEAN
  BY <1>2, <1>3 DEF Receipts, NoReceipt
<1>8. o.pc = "idle" /\ o.rec = NoRecord /\ o.receipt = r /\ o \in Owners
  <2> HIDE DEF r, again
  <2> QED BY <1>2, <1>6, <1>7, <1>a DEF Owners
<1>9. hour' = hour BY <1>1 DEF ownerSide
<1>10. Ready(s, o, q)' /\ Now' BY <1>1, <1>7, <1>8, <1>9, <1>b, AppendedSum
<1>11. Good(store, owner, stops)' /\ owner'.pc = "idle" /\ owner'.rec = NoRecord /\ store'.id = store.id
  <2> DEFINE a == ApplyReceipt(s, r)
             p0 == [owner EXCEPT !.pc = "idle", !.rec = NoRecord, !.rebuild = again, !.receipt = NoReceipt]
  <2>1. /\ store' = IF busy THEN s ELSE [a EXCEPT !.moved = FALSE]
        /\ owner' = IF busy THEN o ELSE p0
    BY <1>2, <1>5, <1>a, <1>b DEF Finish, Owners
  <2>2. CASE busy
    <3>1. store' = s /\ owner' = o BY <2>1, <2>2
    <3>2. Good(s, o, q)' BY <1>10 DEF Ready
    <3> QED BY <1>8, <1>b, <3>1, <3>2, GoodNext
  <2>3. CASE ~busy
    <3>1. store' = [a EXCEPT !.moved = FALSE] /\ owner' = p0 BY <2>1, <2>3
    <3>2. p0.pc = "idle" /\ p0.rec = NoRecord /\ p0.receipt = NoReceipt BY <1>2 DEF Owners
    <3>c. PICK p, c, t : p = p0 /\ c = r /\ t = store' OBVIOUS
    <3>3. ReceiptApplies' BY ReceiptSum, PTL
    <3>4. CatchesUp' BY CatchesUpSum, PTL
    <3>5. Good(ApplyReceipt(s, c), p, q)'
      <4>1. o.receipt \in Receipts /\ p.pc # "append" /\ p.rec = o.rec /\ p.receipt = NoReceipt
            /\ o.pc = "idle" /\ o.receipt = c
        BY <1>7, <1>8, <3>2, <3>c
      <4>2. Good(ApplyReceipt(s, o.receipt), p, q)' BY <1>10, <3>3, <4>1, ReceiptNext
      <4> QED BY <4>1, <4>2
    <3>6. ApplyReceipt(s, c) \in Stores /\ ApplyReceipt(s, c).id = s.id
      BY <1>2, <1>7, <1>b, <3>c, ReceiptIn
    <3>d. PICK x : x = ApplyReceipt(s, c) OBVIOUS
    <3>7. x \in Stores /\ x.id = s.id /\ t = [x EXCEPT !.moved = FALSE] BY <1>b, <3>1, <3>6, <3>c, <3>d
    <3>8. Good(x, p, q)' BY <3>5, <3>d
    <3>12. p.receipt = NoReceipt BY <3>2, <3>c
    <3>9. Good([x EXCEPT !.moved = FALSE], p, q)' BY <3>12, <3>4, <3>7, <3>8 DEF CatchesUp
    <3>10. Good(t, p, q)' BY <3>7, <3>9
    <3>11. t.id = store.id BY <1>b, <3>7 DEF Stores
    <3> QED BY <1>b, <3>1, <3>2, <3>10, <3>11, <3>c, GoodNext
  <2> QED BY <2>2, <2>3
<1>12. Refenced(stops, stops') BY <1>1, <1>2, RefencedBy
<1>13. UNCHANGED <<checkup, hour, http>> BY <1>1 DEF ownerSide
<1>14. TimeInv' BY <1>5, <1>11, <1>12, <1>13, TimeAppended
<1> QED BY <1>11, <1>14 DEF SumInv

(* A failed append gives the entry it claimed back to the queue.            *)
Told(s, c) == [ApplyReceipt(s, c) EXCEPT !.moved = FALSE]
Refuses(o, c) == /\ o.pc = "append" /\ o.receipt = NoReceipt
                 /\ c \in Receipts /\ ~c.ok /\ c.kind = o.rec.kind /\ c.kind \in {"fence", "hour"}
Rested(p) == p.pc = "idle" /\ p.rec = NoRecord /\ p.receipt = NoReceipt
LEMMA UnclaimSum ==
  ASSUME NEW s, NEW o, NEW q, NEW p, NEW c, Ready(s, o, q), Now, Refuses(o, c), Rested(p),
         NEW t, t = Told(s, c)
  PROVE  Good(t, p, q) /\ t \in Stores /\ t.id = s.id
<1>1. /\ s \in Stores /\ Fit(s, q) /\ Recorded(o, q) /\ Owed(s, o) /\ Apart(s, o) /\ Placed(s, o, q)
      /\ hour \in Nat
  BY DEF Ready, Good, Now
<1>0. /\ o.pc = "append" /\ o.receipt = NoReceipt
      /\ c \in Receipts /\ ~c.ok /\ c.kind = o.rec.kind /\ c.kind \in {"fence", "hour"}
      /\ p.pc = "idle" /\ p.rec = NoRecord /\ p.receipt = NoReceipt
  BY DEF Refuses, Rested
<1>2. NoReceipt.kind = "none" /\ \A e \in Stops : NoRecord.sum[e] = 0
  BY SumsAt DEF NoReceipt, NoRecord
<1> DEFINE a == ApplyReceipt(s, c)
<1>3. a \in Stores BY <1>0, <1>1, ReceiptIn
<1>4. c # NoReceipt BY <1>0, <1>2
<1>5. /\ a.open = s.open /\ a.done = s.done /\ a.owed = "none"
      /\ a.id = s.id /\ (a.confirmed <=> s.confirmed)
      /\ (a.blocked <=> s.blocked) /\ (a.barrier <=> s.barrier)
      /\ (a.lost <=> s.lost) /\ (a.restore <=> s.restore)
      /\ \A i \in Places : /\ a.queue[i].sum = s.queue[i].sum /\ a.queue[i].hour = s.queue[i].hour
                           /\ ~a.queue[i].claimed
  <2>1. s.owed # "none" => ~s.moved /\ c.kind = s.owed BY <1>0, <1>1, <1>2 DEF Owed
  <2>2. s.moved \/ c.kind = "fence" => \A i \in Places : ~s.queue[i].claimed
    BY <1>1, <2>1 DEF Fit, Claims
  <2>3. CASE s.moved
    <3>1. a = s BY <2>3 DEF ApplyReceipt
    <3> HIDE DEF a
    <3> QED BY <2>1, <2>2, <2>3, <3>1
  <2>4. CASE ~s.moved
    <3> DEFINE x == IF c.kind = "fence" THEN s.queue
                    ELSE [i \in Places |-> [s.queue[i] EXCEPT !.claimed = FALSE]]
    <3>1. a = [s EXCEPT !.owed = "none", !.barrier = s.barrier /\ ~(c.kind = "fence" /\ c.ok),
                        !.blocked = s.blocked /\ ~(c.kind = "fence" /\ c.ok),
                        !.queue = x, !.restore = s.restore \/ c.ok]
      BY <1>0, <1>1, <1>4, <2>4 DEF ApplyReceipt, Stores
    <3>2. \A i \in Places : /\ x[i].sum = s.queue[i].sum /\ x[i].hour = s.queue[i].hour
                            /\ ~x[i].claimed
      <4>1. CASE c.kind = "fence" BY <2>2, <4>1
      <4>2. CASE c.kind # "fence"
        <5> SUFFICES ASSUME NEW i \in Places
                     PROVE  /\ x[i].sum = s.queue[i].sum /\ x[i].hour = s.queue[i].hour
                            /\ ~x[i].claimed
          OBVIOUS
        <5>1. s.queue[i] \in Entries BY <1>1 DEF Stores
        <5>2. x[i] = [s.queue[i] EXCEPT !.claimed = FALSE] BY <4>2
        <5> QED BY <5>1, <5>2 DEF Entries
      <4> QED BY <4>1, <4>2
    <3> HIDE DEF x, a
    <3>3. /\ a.open = s.open /\ a.done = s.done /\ a.owed = "none" /\ a.queue = x
          /\ a.id = s.id /\ (a.confirmed <=> s.confirmed)
          /\ (a.blocked <=> s.blocked) /\ (a.barrier <=> s.barrier)
          /\ (a.lost <=> s.lost) /\ (a.restore <=> s.restore)
      BY <1>0, <1>1, <3>1 DEF Stores
    <3> QED BY <3>2, <3>3
  <2> QED BY <2>3, <2>4
<1>6. t = [a EXCEPT !.moved = FALSE] BY DEF Told
<1> HIDE DEF a
<1>7. /\ t.open = s.open /\ t.done = s.done /\ t.owed = "none"
      /\ t.id = s.id /\ (t.confirmed <=> s.confirmed)
      /\ (t.blocked <=> s.blocked) /\ (t.barrier <=> s.barrier)
      /\ (t.lost <=> s.lost) /\ (t.restore <=> s.restore) /\ t.queue = a.queue
  BY <1>3, <1>5, <1>6 DEF Stores
<1>8. \A i \in Places : /\ t.queue[i].sum = s.queue[i].sum /\ t.queue[i].hour = s.queue[i].hour
                        /\ ~t.queue[i].claimed
  BY <1>5, <1>7
<1>9. t \in Stores BY <1>3, <1>6 DEF Stores
<1>10. Fit(t, q)
  <2>1. \A i \in Places : /\ t.queue[i].sum = s.queue[i].sum /\ t.queue[i].hour = s.queue[i].hour
                          /\ t.queue[i].claimed => s.queue[i].claimed
    BY <1>8
  <2>2. Free(t) /\ Once(t) /\ Timed(t, q) BY <1>1, <1>7, <1>9, <2>1, DropIn DEF Fit
  <2>3. Claims(t) BY <1>7, <1>8 DEF Claims
  <2> QED BY <2>2, <2>3 DEF Fit
<1>11. Recorded(p, q) BY <1>0, <1>1, <1>2 DEF Recorded, HeldIn
<1>12. Owed(t, p) BY <1>0, <1>1, <1>2, <1>7 DEF Owed
<1>13. Apart(t, p)
  <2> SUFFICES ASSUME NEW e \in Stops PROVE /\ t.done.sum[e] > 0 => InIndex(e)
                                            /\ InIndex(e) => ~Loose(t, e)
    BY <1>0 DEF Apart
  <2>1. Loose(t, e) => Loose(s, e) \/ o.rec.sum[e] > 0 BY <1>0, <1>1, <1>7, <1>8 DEF Loose, Owed
  <2> QED BY <1>0, <1>1, <1>7, <2>1 DEF Apart
<1>14. Placed(t, p, q)
  <2>1. \A e : InRam(s, e) => InRam(t, e) BY <1>7, <1>8 DEF InRam
  <2>2. \A e : Stored(s, e, q) => Stored(t, e, q) BY <1>7 DEF Stored
  <2>3. \A e : Summed(s, e) => Summed(t, e) BY <1>7 DEF Summed
  <2> QED BY <1>0, <1>1, <1>2, <1>7, <2>1, <2>2, <2>3 DEF Placed
<1> QED BY <1>7, <1>9, <1>10, <1>11, <1>12, <1>13, <1>14 DEF Good

(* A record the index does not know changes nothing that is counted.        *)
LEMMA UnknownSum ==
  ASSUME StopIInv, SumInv, owner.pc = "append", Programmed(Merged(owner.rec)),
         known' = known, hour' = hour,
         NEW s \in Stores, NEW o, o.rec = NoRecord, NEW q, q = stops', Good(s, o, stops),
         \A e \in Stops : Live(s, e) => e \in DOMAIN stops
  PROVE  Good(s, o, q)'
<1>1. /\ StopShape /\ EvidenceInv /\ owner.rec \in Records /\ FlashShape /\ JournalInv
      /\ Backed(owner, stops) /\ DOMAIN stops \subseteq Stops /\ known \subseteq DOMAIN journal
  BY Setting, AppendSetting DEF StopShape, EvidenceInv, Ready, Now
<1>2. PICK n, r, m : n = Len(journal) + 1 /\ r = owner.rec /\ m = Merged(owner.rec) OBVIOUS
<1>3. Refenced(stops, q) BY <1>1, RefencedBy
<1>4. /\ DOMAIN q = DOMAIN stops
      /\ \A e \in DOMAIN stops : /\ q[e].hour = stops[e].hour /\ (q[e].here <=> stops[e].here)
                                 /\ q[e].gone <=> stops[e].gone
  BY <1>3 DEF Refenced
<1>5. \A e \in Stops :
        /\ m.sum[e] =< 1 /\ HeldIn(m, e, stops)
        /\ m.sum[e] > 0 => r.sum[e] > 0 \/ InIndex(e)
  BY <1>2, MergedOnce
<1>6. /\ DOMAIN journal' = DOMAIN journal \cup {n} /\ journal'[n] = m
      /\ \A k \in DOMAIN journal : journal'[k] = journal[k]
  BY <1>1, <1>2, AppendIn
<1>7. \A e \in Stops : m.sum[e] > 0 => e \in DOMAIN stops
  BY <1>1, <1>2, <1>5 DEF Backed, InIndex
<1>8. /\ \A h : NewestOf(h)' = NewestOf(h)
      /\ \A id : FenceOf(id)' = FenceOf(id)
      /\ \A k \in known : journal'[k] = journal[k]
  <2>1. m \in Records BY <1>1, <1>2, MergedIn
  <2>2. journal' = Append(journal, m) BY <1>2 DEF Programmed
  <2> QED BY <1>1, <2>1, <2>2, NewestUnknown
<1>9. Fit(s, q)'
  <2>1. Fit(s, q) BY <1>3, FitRefenced DEF Good
  <2> QED BY <2>1 DEF Fit, Free, Claims, Once, Timed, HeldIn, InRam
<1>10. Recorded(o, q)'
  <2>1. ASSUME NEW k \in DOMAIN journal', NEW e \in Stops
        PROVE  journal'[k].sum[e] =< 1 /\ (journal'[k].sum[e] > 0 => journal'[k].hour = q[e].hour)
    <3>1. CASE k \in DOMAIN journal
      <4>1. journal[k].sum[e] =< 1 /\ (journal[k].sum[e] > 0 => journal[k].hour = stops[e].hour)
        BY <3>1 DEF Good, Recorded, HeldIn
      <4>2. journal[k].sum[e] > 0 => e \in DOMAIN stops BY <1>1, <3>1 DEF Backed, Holds
      <4> QED BY <1>4, <1>6, <3>1, <4>1, <4>2
    <3>2. CASE k = n BY <1>4, <1>5, <1>6, <1>7, <3>2 DEF HeldIn
    <3> QED BY <1>6, <3>1, <3>2
  <2>2. \A e \in Stops : o.rec.sum[e] = 0 BY SumsAt DEF NoRecord
  <2> QED BY <2>1, <2>2 DEF Recorded, HeldIn
<1>11. Owed(s, o)' BY DEF Good, Owed
<1>12. \A e : InIndex(e)' <=> InIndex(e) BY <1>8 DEF InIndex, Holds
<1>13. Apart(s, o)' BY <1>12 DEF Good, Apart, Loose
<1>14. Placed(s, o, q)'
  <2>1. \A e \in DOMAIN stops : Wanted(e, q)' <=> Wanted(e, stops) BY <1>4 DEF Wanted, InWindow
  <2>2. \A e \in DOMAIN stops : Stored(s, e, stops) => Stored(s, e, q)'
    <3> SUFFICES ASSUME NEW e \in DOMAIN stops, Stored(s, e, stops) PROVE Stored(s, e, q)' OBVIOUS
    <3> DEFINE b == NewestOf(stops[e].hour)
    <3>1. b \in known /\ Holds(b, e) /\ journal[b].id = s.id /\ b > FenceOf(s.id) BY DEF Stored
    <3>2. NewestOf(q[e].hour)' = b /\ FenceOf(s.id)' = FenceOf(s.id) BY <1>4, <1>8
    <3> HIDE DEF b
    <3>3. journal'[b] = journal[b] BY <1>8, <3>1
    <3> QED BY <3>1, <3>2, <3>3 DEF Stored, Holds
  <2>3. ASSUME ~s.confirmed, NEW e \in DOMAIN q, q[e].here PROVE q[e].gone
    BY <1>4, <2>3 DEF Good, Placed
  <2>4. ASSUME NEW e \in DOMAIN q, Wanted(e, q)'
        PROVE  s.lost \/ InRam(s, e) \/ (Stored(s, e, q)' /\ ~s.blocked /\ Summed(s, e))
    BY <1>4, <2>1, <2>2, <2>4 DEF Good, Placed
  <2>5. ASSUME o.receipt.kind = "hour", NEW i \in Places, NEW e \in Stops,
               s.queue[i].claimed, s.queue[i].sum[e] > 0
        PROVE  Stored(s, e, q)'
    <3>1. Stored(s, e, stops) BY <2>5 DEF Good, Placed
    <3>2. e \in DOMAIN stops BY <2>5 DEF Live
    <3> QED BY <2>2, <3>1, <3>2
  <2> QED BY <2>3, <2>4, <2>5 DEF Placed, InRam, Summed
<1> QED BY <1>9, <1>10, <1>11, <1>13, <1>14 DEF Good

LEMMA AppendFailedSum == ASSUME StopIInv, SumInv, AppendFailed PROVE SumInv'
<1>1. /\ owner.pc = "append" /\ UNCHANGED ownerSide /\ known' = known /\ Event
      /\ UNCHANGED <<journal, stops>> \/ Programmed(Merged(owner.rec))
      /\ Finish(FALSE, FALSE)
  BY DEF AppendFailed
<1>2. /\ store \in Stores /\ owner \in Owners /\ StopShape /\ owner.rec.kind \in Kinds
      /\ owner.receipt = NoReceipt /\ owner.rec.kind \in {"fence", "hour"}
      /\ Ready(store, owner, stops) /\ Now
  BY <1>1, Setting DEF StopIInv, StopShape, StoreShape, Owners, Records, EvidenceInv, EpochInv, ClaimInv
<1>3. PICK no \in BOOLEAN : no = FALSE OBVIOUS
<1>4. Finish(no, no) BY <1>1, <1>3, Zenon
<1> DEFINE r == [kind |-> owner.rec.kind, ok |-> no]
           again == owner.rebuild \/ no
<1>a. PICK t, p, c : t = store' /\ p = owner' /\ c = r OBVIOUS
<1>5. c \in Receipts /\ ~c.ok /\ c.kind = owner.rec.kind BY <1>2, <1>3, <1>a DEF Receipts
<1>6. /\ t = [ApplyReceipt(store, c) EXCEPT !.moved = FALSE]
      /\ p = [owner EXCEPT !.pc = "idle", !.rec = NoRecord, !.rebuild = again, !.receipt = NoReceipt]
  BY <1>2, <1>3, <1>4, <1>a DEF Finish, Owners
<1>7. p.pc = "idle" /\ p.rec = NoRecord /\ p.receipt = NoReceipt BY <1>2, <1>6 DEF Owners
<1> HIDE DEF r, again
<1>8. Good(t, p, stops) /\ t \in Stores /\ t.id = store.id
  <2>a. PICK s : s = store OBVIOUS
  <2>b. PICK o : o = owner OBVIOUS
  <2>c. PICK q : q = stops OBVIOUS
  <2>1. Ready(s, o, q) BY <1>2, <2>a, <2>b, <2>c
  <2>2. Now BY <1>2
  <2>3. Refuses(o, c) BY <1>1, <1>2, <1>5, <2>b DEF Refuses
  <2>4. Rested(p) BY <1>7 DEF Rested
  <2>6. t = Told(s, c) BY <1>6, <2>a DEF Told
  <2>7. Good(t, p, q) /\ t \in Stores /\ t.id = s.id
    BY <2>1, <2>2, <2>3, <2>4, <2>6, UnclaimSum
  <2> QED BY <2>7, <2>a, <2>c
<1>9. UNCHANGED <<checkup, hour, http>> BY <1>1 DEF ownerSide
<1>10. CASE UNCHANGED <<journal, stops>>
  <2>1. Good(store, owner, stops)'
    <3>b. PICK q : q = stops' OBVIOUS
    <3>1. Good(t, p, q) /\ UNCHANGED <<known, journal, hour>> BY <1>1, <1>8, <1>9, <1>10, <3>b
    <3> QED BY <1>a, <3>b, <3>1, Rebase
  <2>2. Refenced(stops, stops') BY <1>10 DEF Refenced
  <2>3. TimeInv' BY <1>1, <1>7, <1>8, <1>9, <1>a, <2>2, TimeAppended
  <2> QED BY <2>1, <2>3 DEF SumInv
<1>11. CASE Programmed(Merged(owner.rec))
  <2>1. Within(store, t) BY <1>1, <1>3, <1>4, <1>a, FinishIn
  <2>2. \A e \in Stops : Live(t, e) => e \in DOMAIN stops BY <1>2, <2>1 DEF Ready, Within
  <2>b. PICK q : q = stops' OBVIOUS
  <2>3. Good(t, p, q)' BY <1>1, <1>7, <1>8, <1>9, <1>11, <2>2, <2>b, UnknownSum
  <2>4. Good(store, owner, stops)' BY <1>a, <2>3, <2>b, GoodNext
  <2>5. Refenced(stops, stops') BY <1>2, <1>11, RefencedBy
  <2>6. TimeInv' BY <1>1, <1>7, <1>8, <1>9, <1>a, <2>5, TimeAppended
  <2> QED BY <2>4, <2>6 DEF SumInv
<1> QED BY <1>1, <1>10, <1>11

-----------------------------------------------------------------------------
(* Every step of the system keeps the sums.                                 *)
LEMMA StutterSum == ASSUME StopIInv, SumInv, UNCHANGED stopVars PROVE SumInv'
<1>1. UNCHANGED <<known, journal, hour, stops>> /\ owner' = owner /\ store' = store
      /\ checkup' = checkup /\ events' = events /\ http' = http
  BY DEF stopVars
<1>2. Good(store, owner, stops)' BY <1>1, StillSum
<1>3. Extends(stops, stops')
  <2>1. DOMAIN stops \subseteq Stops BY Setting DEF Ready
  <2> QED BY <1>1, <2>1 DEF Extends
<1>4. http' \in {"idle", "reset", "select"} BY <1>1 DEF SumInv, TimeInv
<1>5. TimeInv' BY <1>1, <1>3, <1>4, TimeSide
<1> QED BY <1>2, <1>5 DEF SumInv

THEOREM SumInductive == SumIInv /\ [StopNext]_stopVars => SumIInv'
<1> SUFFICES ASSUME SumIInv, [StopNext]_stopVars PROVE SumIInv' OBVIOUS
<1>0. StopIInv /\ SumInv /\ StopIInv' BY StopInductive DEF SumIInv
<1>1. CASE UNCHANGED stopVars BY <1>0, <1>1, StutterSum DEF SumIInv
<1>2. CASE Reboot \/ Detect \/ DropSweep \/ RecordSweep \/ ExpirePending
  BY <1>0, <1>2, RebootSum, DetectSum, DropSweepSum, RecordSweepSum, ExpirePendingSum DEF SumIInv
<1>3. CASE SealForRestart \/ Report \/ Reconfigure \/ CheckupReset \/ Select
  BY <1>0, <1>3, SealForRestartSum, ReportSum, ReconfigureSum, CheckupResetSum, SelectSum DEF SumIInv
<1>4. CASE SetDiagnostics \/ PublishBusy \/ AppendFailed \/ NextHour \/ ClockMoves
  BY <1>0, <1>4, SetDiagnosticsSum, PublishBusySum, AppendFailedSum, NextHourSum, ClockMovesSum
     DEF SumIInv
<1>5. CASE FlashStep
  BY <1>0, <1>5, ServiceBeginSum, ServicePublishSum, FlashNextSum, AppendCommittedSum
     DEF SumIInv, FlashStep
<1> QED BY <1>1, <1>2, <1>3, <1>4, <1>5 DEF StopNext

(* What a report counts of one stop: the three parts it adds.               *)
LEMMA ReportedParts ==
  ASSUME NEW s \in Stores, NEW e \in Stops, Once(s), hour \in Nat
  PROVE  /\ Reported(s)[e] \in 0 .. 1
         /\ s.enabled /\ s.confirmed /\ Dated(s) =>
              /\ ~Expired(s) /\ s.done.sum[e] > 0 => Reported(s)[e] = 1
              /\ InWindow(s.open.hour, hour) /\ s.open.sum[e] > 0 => Reported(s)[e] = 1
              /\ \A i \in Places : InWindow(s.queue[i].hour, hour) /\ s.queue[i].sum[e] > 0
                                   => Reported(s)[e] = 1
<1> DEFINE I == {j \in Places : InWindow(s.queue[j].hour, hour)}
           f == [i \in I |-> s.queue[i].sum]
           done == IF Expired(s) THEN Nothing ELSE s.done.sum
           open == IF InWindow(s.open.hour, hour) THEN s.open.sum ELSE Nothing
           counted == s.enabled /\ s.confirmed /\ Dated(s)
<1>1. Reported(s) = IF ~counted THEN Nothing ELSE Plus(done, Plus(open, Total(f)))
  BY DEF Reported
<1>2. /\ s.done.sum \in Sums /\ s.open.sum \in Sums
      /\ \A i \in Places : s.queue[i].sum \in Sums
      /\ s.open.sum[e] \in Nat /\ s.done.sum[e] \in Nat
      /\ \A i \in Places : s.queue[i].sum[e] \in Nat
  BY PartsIn
<1>3. Nothing \in Sums /\ Nothing[e] = 0 BY SumsIn, SumsAt
<1>4. /\ done \in Sums /\ done[e] = (IF Expired(s) THEN 0 ELSE s.done.sum[e])
      /\ open \in Sums /\ open[e] = (IF InWindow(s.open.hour, hour) THEN s.open.sum[e] ELSE 0)
  BY <1>2, <1>3
<1>5. /\ f \in [I -> Sums] /\ I \subseteq Places /\ \A i \in I : f[i] = s.queue[i].sum
      /\ \A i \in Places : InWindow(s.queue[i].hour, hour) => i \in I
  BY <1>2
<1>6. IsFiniteSet(I)
  <2>1. IsFiniteSet(Places) BY Bounds, FS_Interval DEF Places
  <2> HIDE DEF I
  <2> QED BY <1>5, <2>1, FS_Subset
<1> HIDE DEF I, f, done, open
<1>7. Total(f) \in Sums BY <1>5, <1>6, TotalIn
<1>8. Plus(open, Total(f)) \in Sums BY <1>4, <1>7, SumsIn
<1>9. /\ Plus(open, Total(f))[e] = open[e] + Total(f)[e] /\ Total(f)[e] \in Nat
      /\ Plus(done, Plus(open, Total(f)))[e] = done[e] + Plus(open, Total(f))[e]
  BY <1>4, <1>7, <1>8, SumsAt
<1>10. /\ s.open.sum[e] =< 1 /\ s.done.sum[e] =< 1
       /\ \A i \in Places : s.queue[i].sum[e] =< 1
       /\ \A i, j \in Places : s.queue[i].sum[e] > 0 /\ s.queue[j].sum[e] > 0 => i = j
       /\ s.open.sum[e] > 0 => \A i \in Places : ~(s.queue[i].sum[e] > 0)
       /\ s.done.sum[e] > 0 => ~(s.open.sum[e] > 0) /\ \A i \in Places : ~(s.queue[i].sum[e] > 0)
  BY DEF Once, InRam
<1>11. Total(f)[e] =< 1
  <2>1. \A i \in I : f[i][e] =< 1 BY <1>5, <1>10
  <2>2. \A i, j \in I : f[i][e] > 0 /\ f[j][e] > 0 => i = j BY <1>5, <1>10
  <2> QED BY <1>5, <2>1, <2>2, TotalMost
<1>12. Total(f)[e] > 0 => \E i \in Places : s.queue[i].sum[e] > 0 BY <1>5, TotalPositive
<1>13. \A i \in I : s.queue[i].sum[e] > 0 => Total(f)[e] > 0
  <2> SUFFICES ASSUME NEW i \in I, s.queue[i].sum[e] > 0 PROVE Total(f)[e] > 0 OBVIOUS
  <2>1. f[i][e] > 0 BY <1>5
  <2> QED BY <1>5, <1>6, <2>1, TotalLeast
<1>14. counted => Reported(s)[e] = done[e] + (open[e] + Total(f)[e]) BY <1>1, <1>9
<1>15. done[e] + (open[e] + Total(f)[e]) \in 0 .. 1
  BY <1>2, <1>4, <1>9, <1>10, <1>11, <1>12
<1>16. Reported(s)[e] \in 0 .. 1 BY <1>1, <1>3, <1>9, <1>15
<1>17. ASSUME counted PROVE
              /\ ~Expired(s) /\ s.done.sum[e] > 0 => Reported(s)[e] = 1
              /\ InWindow(s.open.hour, hour) /\ s.open.sum[e] > 0 => Reported(s)[e] = 1
              /\ \A i \in Places : InWindow(s.queue[i].hour, hour) /\ s.queue[i].sum[e] > 0
                                   => Reported(s)[e] = 1
  <2>1. done[e] \in Nat /\ open[e] \in Nat BY <1>2, <1>4
  <2>2. done[e] > 0 \/ open[e] > 0 \/ Total(f)[e] > 0 => Reported(s)[e] = 1
    BY <1>9, <1>14, <1>15, <1>17, <2>1
  <2> QED BY <1>4, <1>5, <1>13, <2>2
<1> QED BY <1>16, <1>17

(* At most one place is claimed, and it is the hour the store is owed.      *)
LEMMA ClaimedPlaces ==
  ASSUME NEW s \in Stores, Claims(s)
  PROVE  Cardinality({i \in Places : s.queue[i].claimed}) = (IF s.owed = "hour" THEN 1 ELSE 0)
<1> DEFINE C == {i \in Places : s.queue[i].claimed}
<1>1. CASE s.owed = "hour"
  <2>1. PICK i \in Places : s.queue[i].claimed BY <1>1 DEF Claims
  <2>2. C = {i} BY <2>1 DEF Claims
  <2> QED BY <1>1, <2>2, FS_Singleton
<1>2. CASE s.owed # "hour"
  <2>1. C = {} BY <1>2 DEF Claims
  <2> QED BY <1>2, <2>1, FS_EmptySet
<1> QED BY <1>1, <1>2

(* The sums and the shape give what a reader of the report relies on.       *)
LEMMA ExactFromSums == ASSUME SumIInv PROVE EvidenceExact
<1>1. /\ store \in Stores /\ owner \in Owners /\ known \subseteq DOMAIN journal
      /\ checkup \in Checkups /\ hour \in Nat
  BY DEF SumIInv, StopIInv, StopShape, StoreShape, FlashShape, PollShape, GhostShape
<1>2. DOMAIN stops \subseteq Stops BY Setting DEF SumIInv, Ready
<1>3. /\ Claims(store) /\ Once(store) /\ Timed(store, stops) /\ Recorded(owner, stops)
      /\ Placed(store, owner, stops)
  BY DEF SumIInv, SumInv, Good, Fit
<1>4. /\ hour \in 1 .. MaxHour /\ events \in 0 .. MaxEvents /\ store.id.consent =< events
      /\ http \in {"idle", "reset", "select"}
  BY DEF SumIInv, SumInv, TimeInv
<1>5. StopTypeOK
  <2>1. store.id \in Identity
    <3>1. store.id \in Ids BY <1>1 DEF Stores
    <3>2. store.id.consent \in 0 .. MaxEvents BY <1>4, <3>1, Bounds DEF Ids
    <3> QED BY <3>1, <3>2 DEF Ids, Srcs, Identity
  <2>2. store.open.hour \in 0 .. MaxHour BY <1>1, <1>3, <1>4, PartsIn, Bounds DEF Timed
  <2>3. store.clock \in {"agrees", "moved", "bad"} BY <1>1 DEF Stores
  <2>4. owner.pc \in {"idle", "rebuild", "append"} BY <1>1 DEF Owners
  <2>5. checkup.source \in PumpSources \cup {NoSource} BY <1>1 DEF Checkups, Srcs
  <2>6. Cardinality({i \in Places : store.queue[i].claimed})
          = (IF store.owed = "hour" THEN 1 ELSE 0)
    BY <1>1, <1>3, ClaimedPlaces
  <2> QED BY <1>1, <1>4, <2>1, <2>2, <2>3, <2>4, <2>5, <2>6 DEF StopTypeOK
<1>6. CountedOnce
  <2>1. \A e \in DOMAIN stops : Reported(store)[e] =< 1
    <3> SUFFICES ASSUME NEW e \in DOMAIN stops PROVE Reported(store)[e] =< 1 OBVIOUS
    <3>1. Reported(store)[e] \in 0 .. 1 BY <1>1, <1>2, <1>3, ReportedParts
    <3> QED BY <3>1
  <2>2. \A n \in DOMAIN journal, e \in DOMAIN stops : journal[n].sum[e] =< 1
    BY <1>2, <1>3 DEF Recorded
  <2> QED BY <2>1, <2>2 DEF CountedOnce
<1>7. LossAdmitted
  <2> SUFFICES ASSUME NEW e \in DOMAIN stops, stops[e].here, ~stops[e].gone,
                      InWindow(stops[e].hour, hour),
                      store.enabled, store.confirmed, Dated(store), ~Limited(store)
               PROVE  Reported(store)[e] = 1
    BY DEF LossAdmitted
  <2>1. e \in Stops BY <1>2
  <2>2. ~Expired(store) /\ ~store.restore /\ ~store.lost /\ ~store.done.partial BY DEF Limited
  <2>3. InRam(store, e) \/ store.done.sum[e] > 0
    BY <1>3, <2>2 DEF Placed, Wanted, Summed
  <2>4. store.open.sum[e] > 0 => InWindow(store.open.hour, hour)
    BY <1>3, <2>1 DEF Timed, HeldIn
  <2>5. \A i \in Places : store.queue[i].sum[e] > 0 => InWindow(store.queue[i].hour, hour)
    BY <1>3, <2>1 DEF Timed, HeldIn
  <2>6. /\ ~Expired(store) /\ store.done.sum[e] > 0 => Reported(store)[e] = 1
        /\ InWindow(store.open.hour, hour) /\ store.open.sum[e] > 0 => Reported(store)[e] = 1
        /\ \A i \in Places : InWindow(store.queue[i].hour, hour) /\ store.queue[i].sum[e] > 0
                             => Reported(store)[e] = 1
    BY <1>1, <1>3, <2>1, ReportedParts
  <2> QED BY <2>2, <2>3, <2>4, <2>5, <2>6 DEF InRam
<1> QED BY <1>5, <1>6, <1>7 DEF EvidenceExact

(* A stop is counted once, in a report as in every record of the journal,   *)
(* and one that is not withdrawn is counted or the report admits that it    *)
(* may be incomplete, whatever expires, overflows, restarts, is appended    *)
(* twice or not at all meanwhile (stop_observation_store.cpp: expire_live,  *)
(* apply_receipt, service and next).                                        *)
THEOREM EvidenceAlwaysExact == StopSpec => []EvidenceExact
<1>1. StopInit => SumIInv BY StopInitIInv, SumInit DEF SumIInv
<1>2. SumIInv => EvidenceExact BY ExactFromSums
<1>3. SumIInv /\ [StopNext]_stopVars => SumIInv' BY SumInductive
<1> QED BY <1>1, <1>2, <1>3, PTL DEF StopSpec
=============================================================================
