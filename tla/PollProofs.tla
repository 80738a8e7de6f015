----------------------------- MODULE PollProofs -----------------------------
(* Proofs about the poll task: Polling, that nobody reads one unit under    *)
(* the name of another and that a detection settles on what its last sweeps *)
(* have named; Probe, that whatever times out and however late the task is, *)
(* a caller is answered about the register it asked; Dwell, that the age of *)
(* a row is the one its reads justify; and TankLoss, that a counted window  *)
(* of the tank's losses was earned.                                         *)
EXTENDS Polling, Dwell, Probe, TankLoss, FiniteSetTheorems, SequenceTheorems, TLAPS

-----------------------------------------------------------------------------
(* The inductive invariant of Polling *)

FormWork == {<<"other">>, <<"forget", "ask", "bump", "ages", "rings">>,
             <<"save", "ask", "bump", "ages", "rings">>,
             <<"save", "ask", "bump", "ages", "rings", "agesOn", "ringsOn">>,
             <<"ask", "bump", "ages", "rings", "agesOn", "ringsOn">>,
             <<"bump", "ages", "rings", "agesOn", "ringsOn">>,
             <<"ages", "rings", "agesOn", "ringsOn">>, <<"rings", "agesOn", "ringsOn">>,
             <<"agesOn", "ringsOn">>, <<"ringsOn">>,
             <<"ask", "bump", "ages", "rings">>, <<"bump", "ages", "rings">>,
             <<"ages", "rings">>, <<"rings">>, <<>>}
TaskWork == {<<>>, <<"gap">>, <<"gap", "begin">>, <<"begin">>, <<"expect">>, <<"detect">>,
             <<"decide">>, <<"link", "agesOn", "ringsOn", "model">>, <<"agesOn", "ringsOn", "model">>,
             <<"ringsOn", "model">>, <<"model">>, <<"copy">>, <<"read">>,
             <<"rings", "identity", "ages", "commit">>, <<"identity", "ages", "commit">>,
             <<"ages", "commit">>, <<"commit">>}

(* Where the task and the handler are.                                      *)
On(steps) == task.todo # <<>> /\ Head(task.todo) \in steps
Calling(steps) == form.todo # <<>> /\ Head(form.todo) \in steps
Decides  == {"detect", "decide"}
Settles  == {"link", "agesOn", "ringsOn", "model"}
Stores   == {"rings", "identity", "ages", "commit"}
Sweeps   == {"read"} \cup Stores
Saved    == Calling({"ask", "bump"})                     \* the generation is still to move
Bumped   == Calling({"ages", "rings", "agesOn", "ringsOn"})
Current  == task.gen = engine.gen
Doomed   == task.beside /\ Saved                         \* Current, but not for long

Profiles == Catalogue \cup {"auto"}
Inventory == Catalogue \X Wires
Sources  == (Catalogue \cup {""}) \X Wires
Configs  == [profile: Profiles, link: Wires, src: Sources, rev: Nat]
Results  == [kind: {"silent", "answer"}, link: Wires, model: DOMAIN Signatures \cup {NoModel}, firm: BOOLEAN]
Carry    == [src: Sources, gen: Nat]
Identities == [src: (Profiles \cup {""}) \X Sources, gen: Nat, rev: 0..Revisions - 1]
Tasks    == [todo: TaskWork, gen: Nat, cfg: Configs \cup {[profile |-> "auto"]}, out: Results,
             sat: Carry, rps: Carry, pending: Identities, beside: BOOLEAN, old: BOOLEAN]
Engines  == [gen: Nat, ask: BOOLEAN, unmatched: 0..Twice, shaky: 0..Twice,
             tracked: DOMAIN Signatures \cup {NoModel}]
Caches   == [id: Identities, rows: SUBSET Inventory, sat: SUBSET Sources, recent: BOOLEAN]
RingSets == [target: Sources, reset: BOOLEAN, held: SUBSET Inventory]
Tables   == [model: Profiles \cup {""}, reset: BOOLEAN, held: SUBSET Inventory, shown: Identities]
Forms    == [todo: FormWork, profile: Profiles, link: Wires]
Sweep    == [model: Catalogue, firm: BOOLEAN]

PollShape ==
  /\ cfg \in Configs /\ engine \in Engines /\ cache \in Caches /\ carried \in [sat: Carry, rps: Carry]
  /\ rings \in RingSets /\ ages \in Tables /\ task \in Tasks /\ form \in Forms
  /\ asked \in 0..MaxRequests /\ seen \in Seq(Sweep) /\ Len(seen) <= Twice
  /\ task.gen <= engine.gen /\ carried.sat.gen <= engine.gen /\ carried.rps.gen <= engine.gen

(* What a handler has made of the configuration it is about.                *)
FormInv ==
  /\ cfg.profile # "auto" => cfg.src = SourceOf(cfg)
  /\ Saved \/ Bumped => cfg.profile = form.profile /\ (form.profile # "auto" => cfg.link = form.link)
  /\ form.todo # <<>> => (form.profile # "auto" <=> form.todo[Len(form.todo)] = "ringsOn")
  /\ ~Saved /\ ~Bumped /\ cfg.profile # "auto" => rings.target = cfg.src
  /\ ~rings.reset => rings.held \subseteq {rings.target}
  /\ Calling({"ages"}) => ~cache.recent

(* The sources of everything kept of this generation.                       *)
Shown   == cache.rows \cup cache.sat \cup (IF cache.recent THEN {cache.id.src[2]} ELSE {})
Kept(c) == IF c.gen = engine.gen THEN {c.src} \ {NoSource} ELSE {}
Aged    == IF ages.reset \/ Calling({"ages"}) THEN {} ELSE ages.held
Swept   == IF On(Sweeps) /\ Current
           THEN ({task.sat.src, task.rps.src} \ {NoSource})
                \cup (IF Doomed THEN {} ELSE {SourceOf(task.cfg)})
           ELSE {}
Live == Shown \cup Kept(carried.sat) \cup Kept(carried.rps) \cup Aged \cup Swept

(* The source a generation is about: once a handler has saved another one,  *)
(* it is that of the rings until the generation moves.                      *)
Used == IF Saved THEN {rings.target}
        ELSE IF cfg.profile = "auto" THEN {} ELSE {cfg.src}
ScopeInv == Live \subseteq Used /\ cache.rows \cup cache.sat \subseteq {cache.id.src[2]}

(* The task: a sweep is of a configuration; one that went on beside a       *)
(* handler is read only when that is done.                                  *)
TaskInv ==
  /\ On(Sweeps) => task.cfg \in Configs /\ task.cfg.profile # "auto" /\ task.cfg.src = SourceOf(task.cfg)
  /\ On(Stores \cup Settles \cup {"decide"}) => ~task.beside
  /\ On(Decides \cup Settles \cup Sweeps) /\ Current /\ Bumped => task.beside
  /\ On({"ages", "commit"}) => task.pending.src = <<task.cfg.profile, task.cfg.src>>

(* A detection: as long as the configuration is the one it saw, nothing has *)
(* asked for another; nothing of this generation is kept yet.               *)
Unchanged == task.cfg.rev = cfg.rev
DetectInv ==
  /\ On(Settles) => Current
  /\ On(Decides \cup Settles) => task.cfg \in Configs /\ task.cfg.rev <= cfg.rev
  /\ On(Decides \cup Settles) /\ Current /\ ~Doomed =>
       Live = {} /\ (Saved \/ cfg.profile = "auto") /\ (Unchanged => ~Saved /\ cfg = task.cfg)
  /\ On(Settles \ {"link"}) /\ Unchanged => cfg.src = Detected /\ cfg.link = Detected[2]
  /\ On({"model"}) /\ Unchanged => rings.target = Detected

(* The counts of a detection are of its last sweeps, unless a handler has   *)
(* asked for a new one, which the next to begin will see.                   *)
Trailing(s, k, p) == k <= Len(s) /\ \A i \in Len(s) - k + 1..Len(s) : s[i].model = p
Blank == engine.unmatched = 0 /\ engine.shaky = 0
Excused == engine.ask \/ Calling({"ask"})
CountInv ==
  /\ ~Excused => Trailing(seen, engine.unmatched, Generic) /\ Trailing(seen, engine.shaky, engine.tracked)
  /\ On({"expect"} \cup Decides) /\ ~Current => engine.ask \/ Blank
  /\ Calling({"bump"}) => engine.ask \/ Blank
  /\ On(Decides \cup Settles) /\ Calling({"bump"}) => task.beside \/ engine.ask
  /\ task.old => On(Decides \cup Settles \cup {"gap"}) /\ (On(Decides) => Excused)
  /\ task.todo = <<"gap", "begin">> => ~task.old
  /\ On({"expect"}) /\ Current /\ ~Saved => ~engine.ask
  /\ On(Decides) /\ Current /\ ~Doomed /\ Unchanged => ~engine.ask
  /\ On(Settles) /\ Unchanged => Earned(Detected[1])

PollIInv == PollShape /\ FormInv /\ ScopeInv /\ TaskInv /\ DetectInv /\ CountInv

-----------------------------------------------------------------------------
(* Places *)

LEMMA LimitsPoll ==
  /\ Tries \in Nat /\ Twice \in Nat /\ Revisions \in Nat /\ Twice > 0 /\ Revisions > 0
  /\ FirstWire \in Wires /\ MaxRequests \in Nat /\ "auto" \notin Catalogue
BY PollAssumption

LEMMA TaskPlaces ==
  ASSUME NEW t \in TaskWork, t # <<>>
  PROVE  \/ t = <<"gap">> /\ Head(t) = "gap" /\ Tail(t) = <<>>
         \/ t = <<"gap", "begin">> /\ Head(t) = "gap" /\ Tail(t) = <<"begin">>
         \/ t = <<"begin">> /\ Head(t) = "begin"
         \/ t = <<"expect">> /\ Head(t) = "expect"
         \/ t = <<"detect">> /\ Head(t) = "detect"
         \/ t = <<"decide">> /\ Head(t) = "decide"
         \/ t = <<"link", "agesOn", "ringsOn", "model">> /\ Head(t) = "link"
              /\ Tail(t) = <<"agesOn", "ringsOn", "model">>
         \/ t = <<"agesOn", "ringsOn", "model">> /\ Head(t) = "agesOn" /\ Tail(t) = <<"ringsOn", "model">>
         \/ t = <<"ringsOn", "model">> /\ Head(t) = "ringsOn" /\ Tail(t) = <<"model">>
         \/ t = <<"model">> /\ Head(t) = "model"
         \/ t = <<"copy">> /\ Head(t) = "copy"
         \/ t = <<"read">> /\ Head(t) = "read"
         \/ t = <<"rings", "identity", "ages", "commit">> /\ Head(t) = "rings"
              /\ Tail(t) = <<"identity", "ages", "commit">>
         \/ t = <<"identity", "ages", "commit">> /\ Head(t) = "identity" /\ Tail(t) = <<"ages", "commit">>
         \/ t = <<"ages", "commit">> /\ Head(t) = "ages" /\ Tail(t) = <<"commit">>
         \/ t = <<"commit">> /\ Head(t) = "commit"
<1>1. CASE t = <<"gap">> BY <1>1
<1>2. CASE t = <<"gap", "begin">> BY <1>2
<1>3. CASE t = <<"begin">> BY <1>3
<1>4. CASE t = <<"expect">> BY <1>4
<1>5. CASE t = <<"detect">> BY <1>5
<1>6. CASE t = <<"decide">> BY <1>6
<1>7. CASE t = <<"link", "agesOn", "ringsOn", "model">> BY <1>7
<1>8. CASE t = <<"agesOn", "ringsOn", "model">> BY <1>8
<1>9. CASE t = <<"ringsOn", "model">> BY <1>9
<1>10. CASE t = <<"model">> BY <1>10
<1>11. CASE t = <<"copy">> BY <1>11
<1>12. CASE t = <<"read">> BY <1>12
<1>13. CASE t = <<"rings", "identity", "ages", "commit">> BY <1>13
<1>14. CASE t = <<"identity", "ages", "commit">> BY <1>14
<1>15. CASE t = <<"ages", "commit">> BY <1>15
<1>16. CASE t = <<"commit">> BY <1>16
<1> QED BY <1>1, <1>2, <1>3, <1>4, <1>5, <1>6, <1>7, <1>8, <1>9, <1>10, <1>11, <1>12, <1>13,
           <1>14, <1>15, <1>16 DEF TaskWork

LEMMA FormPlaces ==
  ASSUME NEW t \in FormWork, t # <<>>
  PROVE  \/ t = <<"other">> /\ Head(t) = "other" /\ Len(t) = 1
         \/ Head(t) = "save" /\ Len(t) > 1 /\ Head(Tail(t)) = "ask"
         \/ Head(t) = "forget" /\ Len(t) > 1 /\ Head(Tail(t)) = "ask"
         \/ Head(t) = "ask" /\ Len(t) > 1 /\ Head(Tail(t)) = "bump"
         \/ Head(t) = "bump" /\ Len(t) > 1 /\ Head(Tail(t)) = "ages"
         \/ Head(t) = "ages" /\ Len(t) > 1 /\ Head(Tail(t)) = "rings"
         \/ t = <<"rings">> /\ Head(t) = "rings" /\ Len(t) = 1
         \/ Head(t) = "rings" /\ Len(t) > 1 /\ Head(Tail(t)) = "agesOn"
         \/ Head(t) = "agesOn" /\ Len(t) > 1 /\ Head(Tail(t)) = "ringsOn"
         \/ t = <<"ringsOn">> /\ Head(t) = "ringsOn" /\ Len(t) = 1
<1>1. CASE t = <<"other">> BY <1>1
<1>2. CASE t = <<"forget", "ask", "bump", "ages", "rings">> BY <1>2
<1>3. CASE t = <<"save", "ask", "bump", "ages", "rings">> BY <1>3
<1>4. CASE t = <<"save", "ask", "bump", "ages", "rings", "agesOn", "ringsOn">> BY <1>4
<1>5. CASE t = <<"ask", "bump", "ages", "rings", "agesOn", "ringsOn">> BY <1>5
<1>6. CASE t = <<"bump", "ages", "rings", "agesOn", "ringsOn">> BY <1>6
<1>7. CASE t = <<"ages", "rings", "agesOn", "ringsOn">> BY <1>7
<1>8. CASE t = <<"rings", "agesOn", "ringsOn">> BY <1>8
<1>9. CASE t = <<"agesOn", "ringsOn">> BY <1>9
<1>10. CASE t = <<"ringsOn">> BY <1>10
<1>11. CASE t = <<"ask", "bump", "ages", "rings">> BY <1>11
<1>12. CASE t = <<"bump", "ages", "rings">> BY <1>12
<1>13. CASE t = <<"ages", "rings">> BY <1>13
<1>14. CASE t = <<"rings">> BY <1>14
<1> QED BY <1>1, <1>2, <1>3, <1>4, <1>5, <1>6, <1>7, <1>8, <1>9, <1>10, <1>11, <1>12, <1>13, <1>14 DEF FormWork

LEMMA MoreThanOne == \A n \in Nat : n > 1 => n # 1
OBVIOUS

LEMMA FormLengths == ASSUME NEW t \in FormWork PROVE Len(t) \in Nat
BY DEF FormWork

LEMMA FormTails ==
  ASSUME NEW t \in FormWork, Len(t) > 1
  PROVE  Tail(t) \in FormWork /\ Tail(t) # <<>> /\ Tail(t)[Len(Tail(t))] = t[Len(t)]
<1>1. CASE t = <<"other">> BY <1>1 DEF FormWork
<1>2. CASE t = <<"forget", "ask", "bump", "ages", "rings">> BY <1>2 DEF FormWork
<1>3. CASE t = <<"save", "ask", "bump", "ages", "rings">> BY <1>3 DEF FormWork
<1>4. CASE t = <<"save", "ask", "bump", "ages", "rings", "agesOn", "ringsOn">> BY <1>4 DEF FormWork
<1>5. CASE t = <<"ask", "bump", "ages", "rings", "agesOn", "ringsOn">> BY <1>5 DEF FormWork
<1>6. CASE t = <<"bump", "ages", "rings", "agesOn", "ringsOn">> BY <1>6 DEF FormWork
<1>7. CASE t = <<"ages", "rings", "agesOn", "ringsOn">> BY <1>7 DEF FormWork
<1>8. CASE t = <<"rings", "agesOn", "ringsOn">> BY <1>8 DEF FormWork
<1>9. CASE t = <<"agesOn", "ringsOn">> BY <1>9 DEF FormWork
<1>10. CASE t = <<"ringsOn">> BY <1>10 DEF FormWork
<1>11. CASE t = <<"ask", "bump", "ages", "rings">> BY <1>11 DEF FormWork
<1>12. CASE t = <<"bump", "ages", "rings">> BY <1>12 DEF FormWork
<1>13. CASE t = <<"ages", "rings">> BY <1>13 DEF FormWork
<1>14. CASE t = <<"rings">> BY <1>14 DEF FormWork
<1>15. t # <<>> OBVIOUS
<1> QED BY <1>1, <1>2, <1>3, <1>4, <1>5, <1>6, <1>7, <1>8, <1>9, <1>10, <1>11, <1>12, <1>13,
           <1>14, <1>15 DEF FormWork

-----------------------------------------------------------------------------
(* Types *)

LEMMA NothingIn ==
  /\ NoSource \in Sources /\ NoIdentity \in Identities /\ NoneCarried \in Carry
  /\ Silent \in Results /\ Resting \in Tasks /\ NoCall \in Forms /\ EmptyCache \in Caches
<1>1. NoSource \in Sources BY LimitsPoll DEF NoSource, Sources
<1>2. NoIdentity \in Identities
  <2>1. <<"", NoSource>> \in (Profiles \cup {""}) \X Sources BY <1>1
  <2>2. 0 \in 0..Revisions - 1 BY LimitsPoll
  <2> QED BY <2>1, <2>2 DEF NoIdentity, Identities
<1>3. NoneCarried \in Carry BY <1>1 DEF NoneCarried, Carry
<1>4. Silent \in Results BY LimitsPoll DEF Silent, Results
<1>5. Resting \in Tasks
  <2>1. <<>> \in TaskWork BY DEF TaskWork
  <2> QED BY <2>1, <1>2, <1>3, <1>4 DEF Resting, Tasks
<1>6. NoCall \in Forms
  <2>1. <<>> \in FormWork BY DEF FormWork
  <2> QED BY <2>1, LimitsPoll DEF NoCall, Forms, Profiles
<1>7. EmptyCache \in Caches BY <1>2 DEF EmptyCache, Caches
<1> QED BY <1>1, <1>2, <1>3, <1>4, <1>5, <1>6, <1>7

(* What a sweep yields is of one of the two links, and of a known profile.  *)
LEMMA OutcomesIn == ASSUME NEW c \in Configs PROVE Outcomes(c) \subseteq Results
<1> SUFFICES ASSUME NEW o \in Outcomes(c) PROVE o \in Results OBVIOUS
<1>1. CASE o = Silent BY <1>1, NothingIn
<1>2. CASE o \in UNION {{[kind |-> "answer", link |-> l, model |-> Best(fp), firm |-> fp.firm]
                        : fp \in Fingerprints(l)} : l \in Answering(c)}
  <2>0. PICK l \in Answering(c) :
          o \in {[kind |-> "answer", link |-> l, model |-> Best(fp), firm |-> fp.firm]
                 : fp \in Fingerprints(l)}
    BY <1>2
  <2>1. PICK fp \in Fingerprints(l) :
          o = [kind |-> "answer", link |-> l, model |-> Best(fp), firm |-> fp.firm]
    BY <2>0
  <2>2. l \in Wires BY LimitsPoll DEF Answering, Configs
  <2>3. Best(fp) \in DOMAIN Signatures \cup {NoModel} BY <2>2, PollAssumption
  <2>4. fp.firm \in BOOLEAN
    <3>1. PICK r \in [Pages -> PageResults] :
            fp = [pages |-> {p \in Pages : r[p] = "read"},
                  kw    |-> IF r[Rating] = "read" THEN Units[l].kw ELSE 0,
                  firm  |-> \A p \in Pages : r[p] # "failed"]
      BY DEF Fingerprints
    <3> QED BY <3>1
  <2> QED BY <2>1, <2>2, <2>3, <2>4 DEF Results
<1> QED BY <1>1, <1>2 DEF Outcomes

LEMMA NamedIn ==
  ASSUME NEW o \in Results
  PROVE  Named(o) \in Catalogue /\ <<Named(o), o.link>> \in Inventory
BY DEF Named, Results, Catalogue, Inventory

LEMMA InSources == Inventory \subseteq Sources
BY DEF Inventory, Sources

LEMMA InitPoll == PollInit => PollIInv
<1> SUFFICES ASSUME PollInit PROVE PollIInv OBVIOUS
<1>1. task.todo = <<>> /\ form.todo = <<>> /\ ~task.old BY DEF PollInit, Resting, NoCall
<1>2. PollShape
  <2>1. cfg \in Configs BY NothingIn, LimitsPoll DEF PollInit, Configs, Profiles
  <2>0. 0 \in 0..Twice /\ 0 \in 0..MaxRequests BY LimitsPoll
  <2>2. engine \in Engines BY <2>0 DEF PollInit, Engines
  <2>3. carried \in [sat: Carry, rps: Carry] BY NothingIn DEF PollInit
  <2>4. rings \in RingSets /\ ages \in Tables BY NothingIn DEF PollInit, RingSets, Tables
  <2>5. seen \in Seq(Sweep) /\ Len(seen) <= Twice
    <3>1. seen = <<>> BY DEF PollInit
    <3> QED BY <3>1, LimitsPoll
  <2>6. task.gen <= engine.gen /\ carried.sat.gen <= engine.gen /\ carried.rps.gen <= engine.gen
        /\ asked \in 0..MaxRequests
    <3>1. engine.gen = 1 /\ carried.sat = NoneCarried /\ carried.rps = NoneCarried /\ task = Resting
          /\ asked = 0
      BY DEF PollInit
    <3>2. Resting.gen = 0 /\ NoneCarried.gen = 0 BY DEF Resting, NoneCarried
    <3> QED BY <2>0, <3>1, <3>2
  <2> QED BY <2>1, <2>2, <2>3, <2>4, <2>5, <2>6, NothingIn DEF PollInit, PollShape
<1>3. FormInv BY <1>1 DEF PollInit, FormInv, Saved, Bumped, Calling
<1>4. ScopeInv
  <2>1. Shown = {} BY DEF PollInit, Shown, EmptyCache
  <2>2. Kept(carried.sat) = {} /\ Kept(carried.rps) = {} BY DEF PollInit, Kept, NoneCarried
  <2>3. Aged = {} BY DEF PollInit, Aged
  <2>4. Swept = {} BY <1>1 DEF Swept, On
  <2> QED BY <2>1, <2>2, <2>3, <2>4 DEF ScopeInv, Live, Shown
<1>5. TaskInv BY <1>1 DEF TaskInv, On
<1>6. DetectInv BY <1>1 DEF DetectInv, On
<1>7. CountInv
  <2>1. seen = <<>> /\ engine.unmatched = 0 /\ engine.shaky = 0 BY DEF PollInit
  <2>2. Trailing(seen, 0, Generic) /\ Trailing(seen, 0, engine.tracked) BY <2>1 DEF Trailing
  <2> QED BY <1>1, <2>1, <2>2 DEF CountInv, On, Calling
<1> QED BY <1>2, <1>3, <1>4, <1>5, <1>6, <1>7 DEF PollIInv

-----------------------------------------------------------------------------
(* What a step leaves alone *)

LEMMA PlacesNow ==
  ASSUME PollShape
  PROVE  /\ task.todo \in TaskWork /\ form.todo \in FormWork
         /\ engine.gen \in Nat /\ task.gen \in Nat /\ cfg.rev \in Nat
BY DEF PollShape, Tasks, Forms, Engines, Configs

Busy == Decides \cup Settles \cup Sweeps

LEMMA TaskFree == ASSUME ~On(Busy)' PROVE TaskInv' /\ DetectInv'
BY DEF TaskInv, DetectInv, On, Busy, Sweeps, Stores, Settles, Decides

LEMMA FormFrame ==
  ASSUME FormInv, UNCHANGED <<cfg, form, rings>>, cache'.recent => cache.recent \/ ~Calling({"ages"})
  PROVE  FormInv'
BY DEF FormInv, Saved, Bumped, Calling, SourceOf

LEMMA ScopeFrame ==
  ASSUME ScopeInv, UNCHANGED <<cfg, form, cache>>, rings'.target = rings.target, Live' \subseteq Live
  PROVE  ScopeInv'
BY DEF ScopeInv, Used, Saved, Calling

LEMMA KeptNone == Kept(NoneCarried) = {} /\ Kept(NoneCarried)' = {}
BY DEF Kept, NoneCarried

(* The task sweeps no more, and at most forgets.                            *)
LEMMA LiveShrinks ==
  ASSUME UNCHANGED <<cache, form>>, engine'.gen = engine.gen,
         carried'.sat \in {carried.sat, NoneCarried}, carried'.rps = carried.rps,
         Aged' \subseteq Aged, Swept' \subseteq Swept
  PROVE  Live' \subseteq Live
<1>1. Shown' = Shown BY DEF Shown
<1>2. Kept(carried.rps)' = Kept(carried.rps) BY DEF Kept
<1>3. Kept(carried.sat)' \subseteq Kept(carried.sat)
  <2>1. CASE carried'.sat = carried.sat BY <2>1 DEF Kept
  <2>2. CASE carried'.sat = NoneCarried BY <2>2 DEF Kept, NoneCarried
  <2> QED BY <2>1, <2>2
<1> QED BY <1>1, <1>2, <1>3 DEF Live

LEMMA SameAged == ASSUME UNCHANGED <<ages, form>> PROVE Aged' = Aged
BY DEF Aged, Calling

LEMMA NotSwept == ASSUME ~On(Sweeps)' PROVE Swept' = {}
BY DEF Swept

LEMMA IdlePoll ==
  ASSUME PollIInv, PollShape', CountInv', UNCHANGED <<cfg, cache, rings, form>>,
         engine'.gen = engine.gen, carried'.sat \in {carried.sat, NoneCarried},
         carried'.rps = carried.rps, Aged' \subseteq Aged, ~On(Busy)'
  PROVE  PollIInv'
<1>1. Live' \subseteq Live
  <2>1. Swept' = {}
    <3>1. ~On(Sweeps)' BY DEF On, Busy
    <3> QED BY <3>1, NotSwept
  <2> QED BY <2>1, LiveShrinks
<1>2. FormInv' BY FormFrame DEF PollIInv
<1>3. ScopeInv' BY <1>1, ScopeFrame DEF PollIInv
<1> QED BY <1>2, <1>3, TaskFree DEF PollIInv

LEMMA CountIdle ==
  ASSUME CountInv, UNCHANGED <<engine, form, seen>>, ~On({"expect"} \cup Decides \cup Settles)',
         ~task'.old
  PROVE  CountInv'
<1>1. Excused' = Excused /\ Blank' = Blank /\ Calling({"bump"})' = Calling({"bump"})
  BY DEF Excused, Blank, Calling
<1>2. ~On({"expect"})' /\ ~On(Decides)' /\ ~On(Settles)' BY DEF On
<1>3. Trailing(seen, engine.unmatched, Generic)' = Trailing(seen, engine.unmatched, Generic)
      /\ Trailing(seen, engine.shaky, engine.tracked)' = Trailing(seen, engine.shaky, engine.tracked)
  BY DEF Trailing
<1> QED BY <1>1, <1>2, <1>3 DEF CountInv, On

-----------------------------------------------------------------------------
(* The cycles that only begin *)

LEMMA BeginsPoll == ASSUME PollIInv, StandsAside \/ Wake \/ Capture PROVE PollIInv'
<1>1. PollShape /\ CountInv BY DEF PollIInv
<1>2. PICK t \in {<<"gap">>, <<"gap", "begin">>, <<"copy">>} :
        task' = [Resting EXCEPT !.todo = t, !.gen = engine.gen]
  BY DEF StandsAside, Wake, Capture
<1>3. UNCHANGED <<cfg, engine, cache, rings, ages, form, asked, seen>>
      /\ (carried' = carried \/ carried' = [carried EXCEPT !.sat = NoneCarried])
  BY DEF StandsAside, Wake, Capture
<1>4. task' \in Tasks /\ task'.todo = t /\ task'.gen = engine.gen /\ ~task'.old
  <2>1. t \in TaskWork BY DEF TaskWork
  <2>2. Resting \in Tasks /\ engine.gen \in Nat BY <1>1, NothingIn, PlacesNow
  <2>3. task' \in Tasks /\ task'.todo = t /\ task'.gen = engine.gen BY <1>2, <2>1, <2>2 DEF Tasks
  <2>4. task'.old = FALSE BY <1>2 DEF Resting
  <2> QED BY <2>3, <2>4
<1>5. carried' \in [sat: Carry, rps: Carry] /\ carried'.sat \in {carried.sat, NoneCarried}
      /\ carried'.rps = carried.rps
  BY <1>1, <1>3, NothingIn DEF PollShape
<1>6. PollShape'
  <2>1. carried'.sat.gen <= engine.gen
    BY <1>1, <1>5, PlacesNow DEF PollShape, NoneCarried
  <2> QED BY <1>1, <1>3, <1>4, <1>5, <2>1, PlacesNow DEF PollShape
<1>7. Head(t) \in {"gap", "copy"} OBVIOUS
<1>8. ~On(Busy)' /\ ~On({"expect"} \cup Decides \cup Settles)'
  BY <1>4, <1>7 DEF On, Busy, Decides, Settles, Sweeps, Stores
<1>9. CountInv' BY <1>1, <1>3, <1>4, <1>8, CountIdle
<1>10. Aged' = Aged BY <1>3, SameAged
<1> QED BY <1>3, <1>5, <1>6, <1>8, <1>9, <1>10, IdlePoll

LEMMA AtPlaces ==
  ASSUME PollShape, NEW step, At(step)
  PROVE  /\ step = "gap" => Done \in {<<>>, <<"begin">>} /\ (Done = <<"begin">> => task.todo = <<"gap", "begin">>)
         /\ step = "link" => Done = <<"agesOn", "ringsOn", "model">>
         /\ step = "rings" => Done = <<"identity", "ages", "commit">>
         /\ step = "identity" => Done = <<"ages", "commit">>
         /\ step = "ages" => Done = <<"commit">>
         /\ step = "agesOn" => Done = <<"ringsOn", "model">>
         /\ step = "ringsOn" => Done = <<"model">>
         /\ \A P : On(P) <=> step \in P
<1>1. task.todo \in TaskWork /\ task.todo # <<>> /\ Head(task.todo) = step BY PlacesNow DEF At
<1>2. \A P : On(P) <=> step \in P BY <1>1 DEF On
<1> QED BY <1>1, <1>2, TaskPlaces, SMTT(60) DEF Done

LEMMA AgesTyped ==
  ASSUME PollShape, NEW S \in SUBSET Inventory, NEW p \in Identities, AgesRecord(task.gen, S, p)
  PROVE  ages' \in Tables
BY NothingIn DEF PollShape, AgesRecord, Tables

LEMMA GapPoll == ASSUME PollIInv, Gap PROVE PollIInv'
<1>1. PollShape /\ CountInv /\ At("gap") /\ AgesRecord(task.gen, {}, NoIdentity)
      /\ UNCHANGED <<cfg, engine, cache, carried, rings, form, asked, seen>>
  BY DEF PollIInv, Gap
<1>2. Done = <<>> \/ (Done = <<"begin">> /\ task.todo = <<"gap", "begin">>) BY <1>1, AtPlaces
<1>3. task' \in Tasks /\ task'.gen <= engine.gen /\ task'.todo \in {<<>>, <<"begin">>} /\ ~task'.old
  <2>1. CASE Done = <<>>
    <3>1. task' = Resting BY <2>1 DEF Gap
    <3> QED BY <1>1, <3>1, NothingIn, PlacesNow DEF Resting
  <2>2. CASE Done = <<"begin">> /\ task.todo = <<"gap", "begin">>
    <3>1. <<"begin">> # <<>> /\ <<"begin">> \in TaskWork BY DEF TaskWork
    <3>2. task' = [task EXCEPT !.todo = <<"begin">>] BY <2>2, <3>1 DEF Gap
    <3>3. task' \in Tasks /\ task'.todo = <<"begin">> /\ task'.gen = task.gen /\ (task'.old <=> task.old)
      BY <1>1, <3>1, <3>2 DEF PollShape, Tasks
    <3>4. ~task.old BY <1>1, <2>2 DEF CountInv
    <3> QED BY <1>1, <3>3, <3>4 DEF PollShape
  <2> QED BY <1>2, <2>1, <2>2
<1>4. ages' \in Tables BY <1>1, NothingIn, AgesTyped
<1>5. PollShape' BY <1>1, <1>3, <1>4 DEF PollShape
<1>6. ~On(Busy)' /\ ~On({"expect"} \cup Decides \cup Settles)'
  BY <1>3 DEF On, Busy, Decides, Settles, Sweeps, Stores
<1>7. CountInv' BY <1>1, <1>3, <1>6, CountIdle
<1>8. Aged' \subseteq Aged
  <2>1. CASE ages' = ages BY <1>1, <2>1, SameAged
  <2>2. CASE ages.reset /\ ages'.held = {} BY <2>2 DEF Aged
  <2>3. CASE ~ages.reset /\ ages'.held = ages.held
    <3>1. Calling({"ages"})' = Calling({"ages"}) BY <1>1 DEF Calling
    <3> QED BY <2>3, <3>1 DEF Aged
  <2>4. ages' = ages \/ (ages.reset /\ ages'.held = {}) \/ (~ages.reset /\ ages'.held = ages.held)
    BY <1>1 DEF AgesRecord, PollShape, Tables
  <2> QED BY <2>1, <2>2, <2>3, <2>4
<1> QED BY <1>1, <1>5, <1>6, <1>7, <1>8, IdlePoll

LEMMA BeginPoll == ASSUME PollIInv, Begin PROVE PollIInv'
<1>1. PollShape /\ CountInv /\ At("begin") /\ UNCHANGED <<cfg, cache, carried, rings, ages, form, asked, seen>>
  BY DEF PollIInv, Begin
<1>2. engine \in Engines /\ task \in Tasks BY <1>1 DEF PollShape
<1>3. engine' \in Engines /\ engine'.gen = engine.gen /\ ~engine'.ask
      /\ (engine.ask => engine'.unmatched = 0 /\ engine'.shaky = 0) /\ (~engine.ask => engine' = engine)
  <2>1. CASE engine.ask
    <3>1. engine' = [Forgotten EXCEPT !.ask = FALSE] BY <2>1 DEF Begin
    <3>2. 0 \in 0..Twice BY LimitsPoll
    <3>3. Forgotten \in Engines /\ Forgotten.gen = engine.gen /\ Forgotten.unmatched = 0 /\ Forgotten.shaky = 0
      BY <1>2, <3>2 DEF Forgotten, Engines
    <3>4. engine' \in Engines /\ engine'.gen = engine.gen /\ engine'.unmatched = 0 /\ engine'.shaky = 0
      BY <3>1, <3>3 DEF Engines
    <3>5. ~engine'.ask BY <3>1, <3>3 DEF Engines
    <3> QED BY <2>1, <3>4, <3>5
  <2>2. CASE ~engine.ask BY <1>2, <2>2 DEF Begin
  <2> QED BY <2>1, <2>2
<1>4. task' \in Tasks /\ task'.todo = <<"expect">> /\ task'.gen = engine.gen /\ (task'.old <=> task.old)
  <2>1. <<"expect">> \in TaskWork BY DEF TaskWork
  <2> QED BY <1>1, <1>2, <2>1, PlacesNow DEF Begin, Tasks
<1>5. PollShape' BY <1>1, <1>3, <1>4, PlacesNow DEF PollShape
<1>6. ~On(Busy)' /\ ~On(Decides \cup Settles)' /\ Current'
  BY <1>3, <1>4 DEF On, Busy, Decides, Settles, Sweeps, Stores, Current
<1>7. ~task'.old
  <2>1. On({"begin"}) /\ ~On(Decides \cup Settles \cup {"gap"})
    BY <1>1, AtPlaces DEF Decides, Settles
  <2> QED BY <1>1, <1>4, <2>1 DEF CountInv
<1>8. CountInv'
  <2>1. Excused' = Calling({"ask"}) /\ Calling({"bump"})' = Calling({"bump"})
    BY <1>1, <1>3 DEF Excused, Calling
  <2>2. ~Excused' => Trailing(seen, engine.unmatched, Generic)' /\ Trailing(seen, engine.shaky, engine.tracked)'
    <3>1. CASE engine.ask
      <4>1. Len(seen) \in Nat BY <1>1 DEF PollShape
      <4> QED BY <1>1, <1>3, <3>1, <4>1 DEF Trailing
    <3>2. CASE ~engine.ask BY <1>1, <1>3, <2>1, <3>2 DEF CountInv, Excused, Trailing
    <3> QED BY <3>1, <3>2
  <2>3. Calling({"bump"})' => Blank' BY <1>1, <1>3, <2>1 DEF CountInv, Blank
  <2>4. ~On(Decides)' /\ ~On(Settles)' BY <1>6 DEF On
  <2> QED BY <1>3, <1>4, <1>6, <1>7, <2>2, <2>3, <2>4 DEF CountInv, On, Current
<1>9. Aged' = Aged BY <1>1, SameAged
<1> QED BY <1>1, <1>3, <1>5, <1>6, <1>8, <1>9, IdlePoll

-----------------------------------------------------------------------------
(* A detection *)

LEMMA ExpectPoll == ASSUME PollIInv, Expect PROVE PollIInv'
<1>1. PollShape /\ CountInv /\ At("expect") /\ UNCHANGED <<cfg, engine, cache, carried, rings, ages, form, asked, seen>>
  BY DEF PollIInv, Expect
<1>2. cfg \in Configs /\ task \in Tasks BY <1>1 DEF PollShape
<1>3. Aged' = Aged BY <1>1, SameAged
<1>4. CASE cfg.profile # "auto"
  <2>1. task' = Resting BY <1>4 DEF Expect
  <2>2. task'.todo = <<>> /\ ~task'.old /\ task'.gen = 0 BY <2>1 DEF Resting
  <2>3. PollShape' BY <1>1, <2>1, <2>2, NothingIn, PlacesNow DEF PollShape
  <2>4. ~On(Busy)' /\ ~On({"expect"} \cup Decides \cup Settles)' BY <2>2 DEF On
  <2>5. CountInv' BY <1>1, <2>2, <2>4, CountIdle
  <2> QED BY <1>1, <1>3, <2>3, <2>4, <2>5, IdlePoll
<1>5. CASE cfg.profile = "auto"
  <2>1. task' = [task EXCEPT !.cfg = cfg, !.beside = Beside, !.todo = <<"detect">>]
    BY <1>5 DEF Expect
  <2>2. task' \in Tasks /\ task'.cfg = cfg /\ task'.todo = <<"detect">> /\ task'.gen = task.gen
        /\ (task'.beside <=> Beside) /\ (task'.old <=> task.old)
    <3>1. <<"detect">> \in TaskWork BY DEF TaskWork
    <3>2. Beside \in BOOLEAN BY DEF Beside
    <3>3. task' \in Tasks BY <1>2, <2>1, <3>1, <3>2 DEF Tasks
    <3> QED BY <1>2, <2>1, <3>3 DEF Tasks
  <2>3. PollShape' BY <1>1, <2>2 DEF PollShape
  <2>4. ~On(Sweeps)' /\ ~On(Settles)' /\ ~On({"decide"})' /\ ~On({"expect"})' /\ On(Decides)'
    BY <2>2 DEF On, Decides, Settles, Sweeps, Stores
  <2>5. Live' \subseteq Live
    <3>1. Swept' = {} BY <2>4, NotSwept
    <3> QED BY <1>1, <1>3, <3>1, LiveShrinks
  <2>6. FormInv' /\ ScopeInv' BY <1>1, <2>5, FormFrame, ScopeFrame DEF PollIInv
  <2>7. Saved' = Saved /\ Bumped' = Bumped /\ (Saved \/ Bumped => Beside)
        /\ Calling({"bump"})' = Calling({"bump"}) /\ Calling({"ask"})' = Calling({"ask"})
        /\ (Calling({"bump"}) => Saved)
    BY <1>1 DEF Saved, Bumped, Calling, Beside
  <2>8. TaskInv'
    <3>1. ~On(Stores \cup Settles \cup {"decide"})' /\ ~On({"ages", "commit"})'
      BY <2>4 DEF On, Sweeps, Stores
    <3> QED BY <2>2, <2>4, <2>7, <3>1 DEF TaskInv, On
  <2>9. ~Doomed' => ~Saved BY <2>2, <2>7 DEF Doomed
  <2>10. DetectInv'
    <3>1. ~Saved => Live' = {} BY <1>5, <2>5 DEF PollIInv, ScopeInv, Used
    <3>2. ~On(Settles \ {"link"})' /\ ~On({"model"})' BY <2>4 DEF On, Settles
    <3> QED BY <1>1, <1>2, <1>5, <2>2, <2>4, <2>7, <2>9, <3>1, <3>2, PlacesNow DEF DetectInv
  <2>11. CountInv'
    <3>1. On({"expect"}) /\ ~On(Decides \cup Settles \cup {"gap"})
      BY <1>1, AtPlaces DEF Decides, Settles
    <3>2. ~task'.old BY <2>2, <3>1, <1>1 DEF CountInv
    <3>3. Excused' = Excused /\ Blank' = Blank /\ Current' = Current
      BY <1>1, <2>2 DEF Excused, Blank, Calling, Current
    <3>4. Trailing(seen, engine.unmatched, Generic)' = Trailing(seen, engine.unmatched, Generic)
          /\ Trailing(seen, engine.shaky, engine.tracked)' = Trailing(seen, engine.shaky, engine.tracked)
      BY <1>1 DEF Trailing
    <3>5. ~Current => engine.ask \/ Blank
      <4>1. On({"expect"} \cup Decides) BY <3>1 DEF On
      <4> QED BY <1>1, <4>1 DEF CountInv
    <3>6. Current /\ ~Saved => ~engine.ask BY <1>1, <3>1 DEF CountInv
    <3>7. Calling({"bump"})' => task'.beside BY <2>2, <2>7
    <3>8. task'.todo # <<"gap", "begin">> BY <2>2
    <3> QED BY <1>1, <2>4, <2>7, <2>9, <3>2, <3>3, <3>4, <3>5, <3>6, <3>7, <3>8 DEF CountInv
  <2> QED BY <2>3, <2>6, <2>8, <2>10, <2>11 DEF PollIInv
<1> QED BY <1>4, <1>5

LEMMA DetectPoll == ASSUME PollIInv, Detect PROVE PollIInv'
<1>1. PollShape /\ CountInv /\ At("detect") /\ ~task.beside
      /\ UNCHANGED <<cfg, engine, cache, carried, rings, ages, form, asked, seen>>
  BY DEF PollIInv, Detect
<1>2. On({"detect"}) /\ On(Decides) /\ ~On(Settles) /\ ~On(Sweeps) /\ ~On({"decide"})
  BY <1>1, AtPlaces DEF Decides, Settles, Sweeps, Stores
<1>3. PICK o \in Outcomes(task.cfg) : task' = [task EXCEPT !.out = o, !.todo = <<"decide">>]
  BY DEF Detect
<1>4. task.cfg \in Configs BY <1>2 DEF PollIInv, DetectInv, On
<1>5. o \in Results BY <1>3, <1>4, OutcomesIn
<1>6. task' \in Tasks /\ task'.todo = <<"decide">> /\ task'.cfg = task.cfg /\ task'.gen = task.gen
      /\ (task'.beside <=> task.beside) /\ (task'.old <=> task.old)
  <2>1. <<"decide">> \in TaskWork /\ task \in Tasks BY <1>1 DEF TaskWork, PollShape
  <2>2. task' \in Tasks BY <1>3, <1>5, <2>1 DEF Tasks
  <2> QED BY <1>3, <2>1, <2>2 DEF Tasks
<1>7. PollShape' BY <1>1, <1>6 DEF PollShape
<1>8. ~On(Sweeps)' /\ ~On(Settles)' /\ ~On({"expect"})' /\ On(Decides)'
  BY <1>6 DEF On, Decides, Settles, Sweeps, Stores
<1>9. Live' \subseteq Live
  <2>1. Swept' = {} /\ Aged' = Aged BY <1>1, <1>8, NotSwept, SameAged
  <2> QED BY <1>1, <2>1, LiveShrinks
<1>10. FormInv' /\ ScopeInv' BY <1>1, <1>9, FormFrame, ScopeFrame DEF PollIInv
<1>11. TaskInv'
  <2>1. ~On({"ages", "commit"})' BY <1>6 DEF On
  <2>2. Current' = Current /\ Bumped' = Bumped BY <1>1, <1>6 DEF Current, Bumped, Calling
  <2>3. Current /\ Bumped => task.beside
    <3>1. On(Decides \cup Settles \cup Sweeps) BY <1>2 DEF On
    <3> QED BY <3>1 DEF PollIInv, TaskInv
  <2> QED BY <1>1, <1>6, <1>8, <2>1, <2>2, <2>3 DEF TaskInv
<1>12. Saved' = Saved /\ Doomed' = Doomed /\ Unchanged' = Unchanged /\ Current' = Current
  BY <1>1, <1>6 DEF Saved, Calling, Doomed, Unchanged, Current
<1>13. On(Decides \cup Settles) BY <1>2 DEF On
<1>14. DetectInv'
  <2>1. ~On(Settles \ {"link"})' /\ ~On({"model"})' BY <1>8 DEF On, Settles
  <2>2. /\ task.cfg.rev <= cfg.rev
        /\ Current /\ ~Doomed =>
              Live = {} /\ (Saved \/ cfg.profile = "auto") /\ (Unchanged => ~Saved /\ cfg = task.cfg)
    BY <1>13 DEF PollIInv, DetectInv
  <2> QED BY <1>1, <1>4, <1>6, <1>8, <1>9, <1>12, <2>1, <2>2 DEF DetectInv
<1>15. CountInv'
  <2>1. Excused' = Excused /\ Blank' = Blank /\ Calling({"bump"})' = Calling({"bump"})
    BY <1>1 DEF Excused, Blank, Calling
  <2>2. Trailing(seen, engine.unmatched, Generic)' = Trailing(seen, engine.unmatched, Generic)
        /\ Trailing(seen, engine.shaky, engine.tracked)' = Trailing(seen, engine.shaky, engine.tracked)
    BY <1>1 DEF Trailing
  <2>3. On({"expect"} \cup Decides) BY <1>2 DEF On
  <2>4. task'.todo # <<"gap", "begin">> BY <1>6
  <2>5. On(Decides \cup Settles \cup {"gap"})' BY <1>8 DEF On
  <2> QED BY <1>1, <1>2, <1>6, <1>8, <1>12, <1>13, <2>1, <2>2, <2>3, <2>4, <2>5 DEF CountInv
<1> QED BY <1>7, <1>10, <1>11, <1>14, <1>15 DEF PollIInv

(* Of the sweeps one more is kept, and of those before it all but the       *)
(* oldest.                                                                  *)
Trimmed(all) == SubSeq(all, IF Len(all) > Twice THEN 2 ELSE 1, Len(all))
LEMMA TrimmedIn ==
  ASSUME NEW s \in Seq(Sweep), Len(s) <= Twice, NEW r \in Sweep,
         NEW t, t = Trimmed(Append(s, r))
  PROVE  /\ t \in Seq(Sweep)
         /\ Len(t) = IF Len(s) + 1 > Twice THEN Twice ELSE Len(s) + 1
         /\ t[Len(t)] = r
         /\ \A i \in 1..Len(t) - 1 : t[i] = s[i + (Len(s) + 1 - Len(t))]
<1> DEFINE all == Append(s, r)
           m == IF Len(all) > Twice THEN 2 ELSE 1
<1>1. all \in Seq(Sweep) /\ Len(all) = Len(s) + 1 /\ Len(s) \in Nat OBVIOUS
<1>2. all[Len(s) + 1] = r /\ \A i \in 1..Len(s) : all[i] = s[i] OBVIOUS
<1>3. t = SubSeq(all, m, Len(all)) BY DEF Trimmed
<1> HIDE DEF all
<1>4. m \in 1..2 /\ m <= Len(all) + 1 /\ (m = 2 => Len(s) + 1 > Twice) /\ (m = 1 => Len(s) + 1 <= Twice)
  BY <1>1, LimitsPoll
<1> HIDE DEF m
<1>5. /\ t \in Seq(Sweep) /\ Len(t) = Len(all) - m + 1
      /\ \A i \in 1..Len(t) : t[i] = all[m + i - 1]
  BY <1>1, <1>3, <1>4, SubSeqProperties
<1>6. Len(t) = IF Len(s) + 1 > Twice THEN Twice ELSE Len(s) + 1
  BY <1>1, <1>4, <1>5, LimitsPoll
<1>7. Len(t) \in 1..Len(s) + 1 /\ m = Len(s) + 1 - Len(t) + 1 BY <1>1, <1>4, <1>5, <1>6, LimitsPoll
<1>8. t[Len(t)] = r BY <1>1, <1>2, <1>5, <1>7
<1>9. \A i \in 1..Len(t) - 1 : t[i] = s[i + (Len(s) + 1 - Len(t))]
  BY <1>1, <1>2, <1>5, <1>7, SMTT(60)
<1>10. t \in Seq(Sweep) BY <1>5
<1> QED BY <1>6, <1>8, <1>9, <1>10

(* The trailing sweeps that name p are one more, if the new one does too.   *)
LEMMA TrailingNext ==
  ASSUME PollShape, NEW r \in Sweep, seen' = Trimmed(Append(seen, r)),
         NEW k \in 0..Twice, NEW p, r.model = p, k > 0 => Trailing(seen, k, p)
  PROVE  /\ \A j \in 0..Twice : j <= k + 1 => Trailing(seen', j, p)
         /\ seen' \in Seq(Sweep) /\ Len(seen') <= Twice /\ Len(seen') > 0 /\ seen'[Len(seen')] = r
         /\ k + 1 >= Twice => Len(seen') >= Twice
              /\ \A i \in Len(seen') - Twice + 1..Len(seen') : seen'[i].model = p
<1>1. seen \in Seq(Sweep) /\ Len(seen) <= Twice /\ Len(seen) \in Nat BY DEF PollShape
<1>2. /\ seen' \in Seq(Sweep)
      /\ Len(seen') = IF Len(seen) + 1 > Twice THEN Twice ELSE Len(seen) + 1
      /\ seen'[Len(seen')] = r
      /\ \A i \in 1..Len(seen') - 1 : seen'[i] = seen[i + (Len(seen) + 1 - Len(seen'))]
  <2> DEFINE t == Trimmed(Append(seen, r))
  <2>1. /\ t \in Seq(Sweep)
        /\ Len(t) = IF Len(seen) + 1 > Twice THEN Twice ELSE Len(seen) + 1
        /\ t[Len(t)] = r
        /\ \A i \in 1..Len(t) - 1 : t[i] = seen[i + (Len(seen) + 1 - Len(t))]
    BY <1>1, TrimmedIn, ZenonT(60)
  <2>2. seen' = t OBVIOUS
  <2> HIDE DEF t
  <2> QED BY <2>1, <2>2
<1>3. Len(seen') \in Nat /\ Len(seen') <= Twice /\ Len(seen') > 0 /\ Len(seen') <= Len(seen) + 1
  BY <1>1, <1>2, LimitsPoll
<1>4. k <= Len(seen) /\ \A i \in Len(seen) - k + 1..Len(seen) : seen[i].model = p
  BY <1>1 DEF Trailing
<1>5. ASSUME NEW j \in 0..Twice, j <= k + 1
      PROVE  j <= Len(seen') /\ \A i \in Len(seen') - j + 1..Len(seen') : seen'[i].model = p
  <2>1. j <= Len(seen') BY <1>1, <1>2, <1>4, <1>5, LimitsPoll
  <2>2. ASSUME NEW i \in Len(seen') - j + 1..Len(seen') PROVE seen'[i].model = p
    <3>1. CASE i = Len(seen') BY <1>2, <3>1
    <3>2. CASE i # Len(seen')
      <4>1. i \in 1..Len(seen') - 1 BY <1>3, <2>1, <3>2, LimitsPoll
      <4>2. i + (Len(seen) + 1 - Len(seen')) \in Len(seen) - k + 1..Len(seen)
        BY <1>1, <1>3, <1>5, <3>2, LimitsPoll
      <4> QED BY <1>2, <1>4, <4>1, <4>2
    <3> QED BY <3>1, <3>2
  <2> QED BY <2>1, <2>2
<1>6. \A j \in 0..Twice : j <= k + 1 => Trailing(seen', j, p) BY <1>5 DEF Trailing
<1>7. k + 1 >= Twice => Len(seen') >= Twice
        /\ \A i \in Len(seen') - Twice + 1..Len(seen') : seen'[i].model = p
  <2>1. Twice \in 0..Twice BY LimitsPoll
  <2>2. k + 1 >= Twice => Twice <= k + 1 BY LimitsPoll
  <2> QED BY <1>5, <2>1, <2>2
<1> QED BY <1>2, <1>3, <1>6, <1>7

SaturatedAt(n) == IF n > Twice THEN Twice ELSE n
LEMMA SaturatedIn == ASSUME NEW n \in Nat PROVE SaturatedAt(n) \in 0..Twice /\ SaturatedAt(n) <= n
BY LimitsPoll DEF SaturatedAt

(* The new sweep as it is noted, and the counts it leaves.                  *)
Noted(o) == [model |-> Named(o), firm |-> o.firm /\ o.model # NoModel]

LEMMA DecidePlaces ==
  ASSUME PollIInv, Decide
  PROVE  /\ PollShape /\ CountInv /\ At("decide") /\ task \in Tasks /\ engine \in Engines
         /\ task.out \in Results /\ ~task.beside
         /\ On({"decide"}) /\ On(Decides) /\ ~On(Settles) /\ ~On(Sweeps) /\ ~On({"expect"})
         /\ UNCHANGED <<cfg, cache, carried, rings, ages, form, asked>>
         /\ seen' \in Seq(Sweep) /\ Len(seen') <= Twice
         /\ seen' = <<>> \/ seen' = seen \/ seen' = Trimmed(Append(seen, Noted(task.out)))
         /\ ~task.old => IF task.out.kind = "silent" THEN seen' = <<>>
                         ELSE seen' = Trimmed(Append(seen, Noted(task.out)))
<1>1. PollShape /\ CountInv /\ At("decide") /\ UNCHANGED <<cfg, cache, carried, rings, ages, form, asked>>
  BY DEF PollIInv, Decide
<1>2. task \in Tasks /\ engine \in Engines /\ task.out \in Results BY <1>1 DEF PollShape, Tasks
<1>3. On({"decide"}) /\ On(Decides) /\ ~On(Settles) /\ ~On(Sweeps) /\ ~On({"expect"})
  BY <1>1, AtPlaces DEF Decides, Settles, Sweeps, Stores
<1>4. ~task.beside
  <2>1. On(Stores \cup Settles \cup {"decide"}) BY <1>3 DEF On
  <2> QED BY <2>1 DEF PollIInv, TaskInv
<1>5. seen' = IF task.out.kind = "silent" THEN <<>>
              ELSE IF task.old THEN seen ELSE Trimmed(Append(seen, Noted(task.out)))
  BY DEF Decide, Trimmed, Noted
<1>6. seen' \in Seq(Sweep) /\ Len(seen') <= Twice
  <2>1. Noted(task.out) \in Sweep BY <1>2, NamedIn DEF Noted, Sweep, Results
  <2>2. seen \in Seq(Sweep) /\ Len(seen) <= Twice BY <1>1 DEF PollShape
  <2>3. Trimmed(Append(seen, Noted(task.out))) \in Seq(Sweep)
        /\ Len(Trimmed(Append(seen, Noted(task.out)))) <= Twice
    <3>1. Len(seen) \in Nat BY <2>2
    <3> QED BY <2>1, <2>2, <3>1, TrimmedIn, LimitsPoll
  <2>4. <<>> \in Seq(Sweep) /\ Len(<<>>) <= Twice BY LimitsPoll
  <2> QED BY <1>5, <2>2, <2>3, <2>4
<1> QED BY <1>1, <1>2, <1>3, <1>4, <1>5, <1>6


EarnedBy(s, p) ==
  /\ Len(s) > 0 /\ s[Len(s)].model = p
  /\ s[Len(s)].firm \/ (Len(s) >= Twice /\ \A i \in Len(s) - Twice + 1..Len(s) : s[i].model = p)

(* The counts after a sweep that is decided on are those of the last        *)
(* sweeps, and what they confirm the last sweeps have earned.               *)
LEMMA CountedRight ==
  ASSUME PollIInv, Decide, Current
  PROVE  /\ engine' \in Engines /\ engine'.gen = engine.gen /\ (engine'.ask <=> engine.ask)
         /\ ~Excused => Trailing(seen', engine'.unmatched, Generic) /\ Trailing(seen', engine'.shaky, engine'.tracked)
         /\ ~Excused /\ Confirmed(task.out, Counted(task.out)) => EarnedBy(seen', Named(task.out))
<1> DEFINE o == task.out
           e == Counted(o)
           r == Noted(o)
<1>1. PollShape /\ CountInv /\ engine \in Engines /\ o \in Results /\ On(Decides)
      /\ seen' \in Seq(Sweep) /\ Len(seen') <= Twice
      /\ (~task.old => IF o.kind = "silent" THEN seen' = <<>> ELSE seen' = Trimmed(Append(seen, r)))
  BY DecidePlaces
<1>2. engine' = [e EXCEPT !.unmatched = SaturatedAt(@), !.shaky = SaturatedAt(@)]
  BY DEF Decide, Current, SaturatedAt
<1>3. e.unmatched \in Nat /\ e.shaky \in Nat /\ e.tracked \in DOMAIN Signatures \cup {NoModel}
      /\ e.gen = engine.gen /\ (e.ask <=> engine.ask)
      /\ engine' \in Engines /\ engine'.gen = engine.gen /\ (engine'.ask <=> engine.ask)
      /\ engine'.unmatched = SaturatedAt(e.unmatched) /\ engine'.shaky = SaturatedAt(e.shaky)
      /\ engine'.tracked = e.tracked
  <2> DEFINE EngineRecords == [gen: Nat, ask: BOOLEAN, unmatched: Nat, shaky: Nat,
                        tracked: DOMAIN Signatures \cup {NoModel}]
  <2>1. engine \in EngineRecords /\ Engines \subseteq EngineRecords BY <1>1, LimitsPoll DEF Engines
  <2>2. Forgotten \in EngineRecords /\ Forgotten.gen = engine.gen /\ Forgotten.ask = engine.ask
    BY <2>1 DEF Forgotten
  <2>3. e \in EngineRecords /\ e.gen = engine.gen /\ e.ask = engine.ask
    <3>1. CASE o.kind = "silent" BY <2>2, <3>1 DEF Counted
    <3>2. CASE o.kind = "answer" /\ o.model = NoModel
      <4>1. e = [engine EXCEPT !.unmatched = @ + 1, !.shaky = 0, !.tracked = NoModel]
        BY <3>2 DEF Counted
      <4>2. PICK n \in Nat : n = engine.unmatched + 1 BY <2>1
      <4> HIDE DEF e
      <4>0. e = [engine EXCEPT !.unmatched = n, !.shaky = 0, !.tracked = NoModel] BY <4>1, <4>2
      <4>3. e \in EngineRecords BY <2>1, <4>0
      <4>4. e.gen = engine.gen BY <2>1, <4>1
      <4>5. e.ask = engine.ask BY <2>1, <4>1
      <4> QED BY <4>3, <4>4, <4>5
    <3>3. CASE o.kind = "answer" /\ o.model # NoModel /\ ~o.firm
      <4>1. e = [engine EXCEPT !.unmatched = 0, !.tracked = o.model,
                      !.shaky = IF engine.tracked = o.model THEN @ + 1 ELSE 1]
        BY <3>3 DEF Counted
      <4>2. o.model \in DOMAIN Signatures \cup {NoModel}
            /\ (IF engine.tracked = o.model THEN engine.shaky + 1 ELSE 1) \in Nat
        BY <1>1, <2>1 DEF Results
      <4> DEFINE n == IF engine.tracked = o.model THEN engine.shaky + 1 ELSE 1
      <4> HIDE DEF e, n, o
      <4>0. e = [engine EXCEPT !.unmatched = 0, !.tracked = o.model, !.shaky = n]
        BY <4>1 DEF n
      <4>6. n \in Nat BY <4>2 DEF n
      <4>3. e \in EngineRecords BY <2>1, <4>0, <4>2, <4>6
      <4>4. e.gen = engine.gen BY <2>1, <4>1
      <4>5. e.ask = engine.ask BY <2>1, <4>1
      <4> QED BY <4>3, <4>4, <4>5
    <3>4. CASE o.kind = "answer" /\ o.model # NoModel /\ o.firm BY <2>2, <3>4 DEF Counted
    <3> QED BY <1>1, <3>1, <3>2, <3>3, <3>4 DEF Results
  <2> HIDE DEF e
  <2>4. SaturatedAt(e.unmatched) \in 0..Twice /\ SaturatedAt(e.shaky) \in 0..Twice
    BY <2>3, SaturatedIn
  <2>5. engine' \in Engines BY <1>2, <2>3, <2>4 DEF Engines
  <2> QED BY <1>2, <2>3, <2>4, <2>5 DEF Engines
<1>4. \/ o.kind = "silent" /\ e.unmatched = 0 /\ e.shaky = 0
      \/ o.kind = "answer" /\ o.model = NoModel /\ e.unmatched = engine.unmatched + 1 /\ e.shaky = 0
      \/ o.kind = "answer" /\ o.model # NoModel /\ ~o.firm /\ e.unmatched = 0 /\ e.tracked = o.model
           /\ e.shaky = (IF engine.tracked = o.model THEN engine.shaky + 1 ELSE 1)
      \/ o.kind = "answer" /\ o.model # NoModel /\ o.firm /\ e.unmatched = 0 /\ e.shaky = 0
  BY <1>1 DEF Counted, Forgotten, Results, Engines
<1> HIDE DEF e
<1>5. ASSUME ~Excused
      PROVE  /\ Trailing(seen', engine'.unmatched, Generic) /\ Trailing(seen', engine'.shaky, engine'.tracked)
             /\ Confirmed(o, e) => EarnedBy(seen', Named(o))
  <2>1. ~task.old /\ Trailing(seen, engine.unmatched, Generic) /\ Trailing(seen, engine.shaky, engine.tracked)
        /\ engine.unmatched \in 0..Twice /\ engine.shaky \in 0..Twice
    BY <1>1, <1>5 DEF CountInv, Engines
  <2>2. Trailing(seen', 0, Generic) /\ Trailing(seen', 0, engine'.tracked)
    <3>1. Len(seen') \in Nat BY <1>1
    <3> QED BY <3>1 DEF Trailing
  <2>3. SaturatedAt(0) = 0 BY LimitsPoll DEF SaturatedAt
  <2>4. CASE o.kind = "silent"
    <3>1. engine'.unmatched = 0 /\ engine'.shaky = 0 /\ ~Confirmed(o, e)
      BY <1>3, <1>4, <2>3, <2>4 DEF Confirmed
    <3> QED BY <2>2, <3>1
  <2>5. o.kind # "silent" => r \in Sweep /\ seen' = Trimmed(Append(seen, r)) /\ r.model = Named(o)
    BY <1>1, <2>1, NamedIn DEF Noted, Sweep, Results
  <2>6. CASE o.kind = "answer" /\ o.model = NoModel
    <3>1. engine'.shaky = 0 /\ r.model = Generic /\ Named(o) = Generic
      BY <1>3, <1>4, <2>3, <2>6 DEF Noted, Named
    <3>2. /\ \A j \in 0..Twice : j <= engine.unmatched + 1 => Trailing(seen', j, Generic)
          /\ Len(seen') > 0 /\ seen'[Len(seen')] = r
          /\ engine.unmatched + 1 >= Twice => Len(seen') >= Twice
               /\ \A i \in Len(seen') - Twice + 1..Len(seen') : seen'[i].model = Generic
      BY <1>1, <2>1, <2>5, <2>6, <3>1, TrailingNext
    <3>3. engine'.unmatched \in 0..Twice /\ engine'.unmatched <= engine.unmatched + 1
      BY <1>3, <1>4, <2>6, SaturatedIn
    <3>4. Trailing(seen', engine'.unmatched, Generic) BY <3>2, <3>3
    <3>5. Confirmed(o, e) => engine.unmatched + 1 >= Twice BY <1>4, <2>6 DEF Confirmed
    <3> QED BY <2>2, <3>1, <3>2, <3>4, <3>5 DEF EarnedBy
  <2>7. CASE o.kind = "answer" /\ o.model # NoModel /\ ~o.firm
    <3>1. engine'.unmatched = 0 /\ engine'.tracked = o.model /\ r.model = o.model /\ Named(o) = o.model
      BY <1>3, <1>4, <2>3, <2>7 DEF Noted, Named
    <3> DEFINE k == IF engine.tracked = o.model THEN engine.shaky ELSE 0
    <3>2. k \in 0..Twice /\ (k > 0 => Trailing(seen, k, o.model)) /\ e.shaky = k + 1
      <4>1. e.shaky = (IF engine.tracked = o.model THEN engine.shaky + 1 ELSE 1) BY <1>4, <2>7
      <4>2. CASE engine.tracked = o.model BY <2>1, <4>1, <4>2
      <4>3. CASE engine.tracked # o.model BY <4>1, <4>3, LimitsPoll
      <4> QED BY <4>2, <4>3
    <3> HIDE DEF k
    <3>3. /\ \A j \in 0..Twice : j <= k + 1 => Trailing(seen', j, o.model)
          /\ Len(seen') > 0 /\ seen'[Len(seen')] = r
          /\ k + 1 >= Twice => Len(seen') >= Twice
               /\ \A i \in Len(seen') - Twice + 1..Len(seen') : seen'[i].model = o.model
      BY <1>1, <2>5, <2>7, <3>1, <3>2, TrailingNext
    <3>4. engine'.shaky \in 0..Twice /\ engine'.shaky <= k + 1
      BY <1>3, <3>2, SaturatedIn
    <3>5. Trailing(seen', engine'.shaky, engine'.tracked) BY <3>1, <3>3, <3>4
    <3>6. Confirmed(o, e) => k + 1 >= Twice BY <2>7, <3>2 DEF Confirmed
    <3> QED BY <2>2, <3>1, <3>3, <3>5, <3>6 DEF EarnedBy
  <2>8. CASE o.kind = "answer" /\ o.model # NoModel /\ o.firm
    <3>1. engine'.unmatched = 0 /\ engine'.shaky = 0 BY <1>3, <1>4, <2>3, <2>8
    <3>2. r.firm /\ r.model = Named(o) BY <2>8 DEF Noted
    <3>3. 0 \in 0..Twice BY LimitsPoll
    <3>4. Len(seen') > 0 /\ seen'[Len(seen')] = r
      BY <1>1, <2>5, <2>8, <3>2, <3>3, TrailingNext
    <3> QED BY <2>2, <3>1, <3>2, <3>4 DEF EarnedBy
  <2> QED BY <1>1, <2>4, <2>6, <2>7, <2>8 DEF Results
<1> QED BY <1>3, <1>5 DEF e

LEMMA DecidePoll == ASSUME PollIInv, Decide PROVE PollIInv'
<1>1. /\ PollShape /\ CountInv /\ At("decide") /\ task \in Tasks /\ engine \in Engines
      /\ task.out \in Results /\ ~task.beside
      /\ On({"decide"}) /\ On(Decides) /\ ~On(Settles) /\ ~On(Sweeps) /\ ~On({"expect"})
      /\ UNCHANGED <<cfg, cache, carried, rings, ages, form, asked>>
      /\ seen' \in Seq(Sweep) /\ Len(seen') <= Twice
  BY DecidePlaces
<1>2. Aged' = Aged BY <1>1, SameAged
<1>3. Calling({"bump"})' = Calling({"bump"}) /\ Calling({"ask"})' = Calling({"ask"}) /\ Saved' = Saved
      /\ Bumped' = Bumped /\ (Calling({"ask"}) => Saved)
  BY <1>1 DEF Saved, Bumped, Calling
<1>4. Calling({"bump"}) => engine.ask
  <2>1. On(Decides \cup Settles) BY <1>1 DEF On
  <2> QED BY <1>1, <2>1 DEF CountInv
<1>5. engine' \in Engines /\ engine'.gen = engine.gen /\ (engine'.ask <=> engine.ask)
      /\ (~Excused => Trailing(seen', engine'.unmatched, Generic) /\ Trailing(seen', engine'.shaky, engine'.tracked))
  <2>1. CASE Current BY <2>1, CountedRight
  <2>2. CASE ~Current
    <3>1. engine' = engine BY <2>2 DEF Decide, Current
    <3>2. On({"expect"} \cup Decides) BY <1>1 DEF On
    <3>3. engine.ask \/ Blank BY <1>1, <2>2, <3>2 DEF CountInv
    <3>4. Len(seen') \in Nat BY <1>1
    <3>5. Blank => Trailing(seen', engine'.unmatched, Generic) /\ Trailing(seen', engine'.shaky, engine'.tracked)
      BY <3>1, <3>4 DEF Blank, Trailing
    <3> QED BY <1>1, <3>1, <3>3, <3>5 DEF Excused
  <2> QED BY <2>1, <2>2
<1>6. Excused' = Excused BY <1>3, <1>5 DEF Excused
<1>7. CASE task' = Resting
  <2>1. task'.todo = <<>> /\ ~task'.old /\ task'.gen = 0 BY <1>7 DEF Resting
  <2>2. PollShape' BY <1>1, <1>5, <1>7, <2>1, NothingIn, PlacesNow DEF PollShape
  <2>3. ~On(Busy)' /\ ~On({"expect"} \cup Decides \cup Settles)' /\ ~On(Decides)' /\ ~On(Settles)'
        /\ ~On({"expect"})' /\ ~On({"expect"} \cup Decides)' /\ ~On(Decides \cup Settles)'
    BY <2>1 DEF On
  <2>4. CountInv'
    <3>1. Calling({"bump"})' => engine'.ask BY <1>3, <1>4, <1>5
    <3> QED BY <1>5, <1>6, <2>1, <2>3, <3>1 DEF CountInv
  <2> QED BY <1>1, <1>2, <1>5, <2>2, <2>3, <2>4, IdlePoll
<1>8. CASE /\ Current /\ Confirmed(task.out, Counted(task.out))
           /\ task' = [task EXCEPT !.todo = <<"link", "agesOn", "ringsOn", "model">>]
  <2> DEFINE t == <<"link", "agesOn", "ringsOn", "model">>
  <2>1. t \in TaskWork /\ Head(t) = "link" /\ t # <<>> BY DEF TaskWork
  <2> HIDE DEF t
  <2>2. task' = [task EXCEPT !.todo = t] BY <1>8 DEF t
  <2>3. task' \in Tasks /\ task'.todo = t /\ task'.cfg = task.cfg /\ task'.gen = task.gen
        /\ task'.out = task.out /\ (task'.beside <=> task.beside) /\ (task'.old <=> task.old)
    <3>1. task' \in Tasks BY <1>1, <2>1, <2>2 DEF Tasks
    <3> QED BY <1>1, <2>2, <3>1 DEF Tasks
  <2>4. PollShape' BY <1>1, <1>5, <2>3 DEF PollShape
  <2>5. ~On(Sweeps)' /\ ~On(Decides)' /\ ~On({"expect"})' /\ On(Settles)' /\ ~On({"model"})'
        /\ ~On(Settles \ {"link"})' /\ ~On({"ages", "commit"})'
    BY <2>1, <2>3 DEF On, Decides, Settles, Sweeps, Stores
  <2>6. Live' \subseteq Live
    <3>1. Swept' = {} BY <2>5, NotSwept
    <3> QED BY <1>1, <1>2, <1>5, <3>1, LiveShrinks
  <2>7. FormInv' /\ ScopeInv' BY <1>1, <2>6, FormFrame, ScopeFrame DEF PollIInv
  <2>8. Current' /\ Current /\ ~Doomed /\ ~Doomed' /\ Unchanged' = Unchanged
    BY <1>1, <1>5, <1>8, <2>3 DEF Current, Doomed, Unchanged
  <2>9. On(Decides \cup Settles) BY <1>1 DEF On
  <2>10. /\ task.cfg \in Configs /\ task.cfg.rev <= cfg.rev /\ Live = {}
         /\ Unchanged => ~Saved /\ cfg = task.cfg
         /\ Saved \/ cfg.profile = "auto"
    BY <2>8, <2>9 DEF PollIInv, DetectInv
  <2>11. TaskInv'
    <3>1. ~Bumped'
      <4>1. On(Decides \cup Settles \cup Sweeps) BY <1>1 DEF On
      <4> QED BY <1>1, <1>3, <2>8, <4>1 DEF PollIInv, TaskInv
    <3> QED BY <1>1, <2>3, <2>5, <3>1 DEF TaskInv
  <2>12. DetectInv' BY <1>1, <1>3, <2>3, <2>5, <2>6, <2>8, <2>10 DEF DetectInv
  <2>13. CountInv'
    <3>1. Unchanged => EarnedBy(seen', Named(task.out))
      <4>1. Unchanged => ~engine.ask BY <1>1, <2>8 DEF CountInv
      <4>2. Unchanged => ~Excused BY <1>3, <2>10, <4>1 DEF Excused
      <4> QED BY <1>8, <4>2, CountedRight
    <3>2. EarnedBy(seen', Named(task.out)) => Earned(Detected[1])'
      <4>1. Detected'[1] = Named(task.out) BY <2>3 DEF Detected
      <4> QED BY <4>1 DEF EarnedBy, Earned
    <3>3. task'.todo # <<"gap", "begin">> BY <2>1, <2>3
    <3>4. On(Decides \cup Settles \cup {"gap"})' BY <2>5 DEF On
    <3> QED BY <1>3, <1>4, <1>5, <1>6, <2>3, <2>5, <2>8, <3>1, <3>2, <3>3, <3>4 DEF CountInv
  <2> QED BY <2>4, <2>7, <2>11, <2>12, <2>13 DEF PollIInv
<1> QED BY <1>7, <1>8 DEF Decide, Current

-----------------------------------------------------------------------------
(* What a detection settles, step by step; the generation cannot move now   *)

LEMMA SettlePlaces ==
  ASSUME PollIInv, NEW step \in Settles, At(step)
  PROVE  /\ PollShape /\ CountInv /\ task \in Tasks /\ cfg \in Configs /\ task.out \in Results
         /\ On({step}) /\ On(Settles) /\ ~On(Decides) /\ ~On(Sweeps) /\ ~task.beside /\ Current
         /\ ~Bumped /\ Live = {} /\ task.cfg \in Configs /\ task.cfg.rev <= cfg.rev
         /\ Saved \/ cfg.profile = "auto"
         /\ Unchanged => ~Saved /\ cfg = task.cfg /\ Earned(Detected[1])
<1>1. PollShape /\ CountInv /\ task \in Tasks /\ cfg \in Configs /\ task.out \in Results
  BY DEF PollIInv, PollShape, Tasks
<1>2. On({step}) /\ On(Settles) /\ ~On(Decides) /\ ~On(Sweeps)
  BY <1>1, AtPlaces DEF Decides, Settles, Sweeps, Stores
<1>3. ~task.beside /\ Current
  <2>1. On(Stores \cup Settles \cup {"decide"}) BY <1>2 DEF On
  <2> QED BY <1>2, <2>1 DEF PollIInv, TaskInv, DetectInv
<1>4. ~Bumped
  <2>1. On(Decides \cup Settles \cup Sweeps) BY <1>2 DEF On
  <2> QED BY <1>3, <2>1 DEF PollIInv, TaskInv
<1>5. /\ Live = {} /\ task.cfg \in Configs /\ task.cfg.rev <= cfg.rev
      /\ Saved \/ cfg.profile = "auto"
      /\ Unchanged => ~Saved /\ cfg = task.cfg
  <2>1. On(Decides \cup Settles) BY <1>2 DEF On
  <2> QED BY <1>3, <2>1 DEF PollIInv, DetectInv, Doomed
<1> QED BY <1>1, <1>2, <1>3, <1>4, <1>5 DEF CountInv

(* The step is given up: the task rests, nothing else changes.              *)
LEMMA RestsPoll ==
  ASSUME PollIInv, task' = Resting,
         UNCHANGED <<cfg, engine, cache, rings, ages, form, asked, seen>>,
         carried' \in [sat: Carry, rps: Carry],
         carried'.sat \in {carried.sat, NoneCarried}, carried'.rps = carried.rps
  PROVE  PollIInv'
<1>1. task'.todo = <<>> /\ ~task'.old /\ task'.gen = 0 BY DEF Resting
<1>2. PollShape /\ CountInv BY DEF PollIInv
<1>3. carried'.sat.gen <= engine.gen BY <1>2, PlacesNow DEF PollShape, NoneCarried
<1>4. PollShape' BY <1>1, <1>2, <1>3, NothingIn, PlacesNow DEF PollShape
<1>5. ~On(Busy)' /\ ~On({"expect"} \cup Decides \cup Settles)' BY <1>1 DEF On
<1>6. CountInv' BY <1>1, <1>2, <1>5, CountIdle
<1>7. Aged' = Aged BY SameAged
<1> QED BY <1>4, <1>5, <1>6, <1>7, IdlePoll

LEMMA SettleLinkPoll == ASSUME PollIInv, SettleLink PROVE PollIInv'
<1>1. At("link") /\ UNCHANGED <<engine, cache, carried, rings, ages, form, asked, seen>> BY DEF SettleLink
<1>2. /\ PollShape /\ CountInv /\ task \in Tasks /\ cfg \in Configs /\ task.out \in Results
      /\ On(Settles) /\ ~On(Decides) /\ ~task.beside /\ Current
      /\ ~Bumped /\ Live = {} /\ (Saved \/ cfg.profile = "auto")
      /\ Unchanged => ~Saved /\ cfg = task.cfg /\ Earned(Detected[1])
  BY <1>1, SettlePlaces DEF Settles
<1>3. carried' \in [sat: Carry, rps: Carry] BY <1>1, <1>2 DEF PollShape
<1>4. CASE ~Unchanged
  <2>1. cfg' = cfg /\ task' = Resting BY <1>4 DEF SettleLink, Unchanged
  <2> QED BY <1>1, <1>3, <2>1, RestsPoll
<1>5. CASE Unchanged
  <2>1. cfg' = [cfg EXCEPT !.link = task.out.link, !.src = Detected, !.rev = @ + 1]
        /\ task' = [task EXCEPT !.cfg = cfg', !.todo = Done]
    BY <1>5 DEF SettleLink, Unchanged
  <2>2. Done = <<"agesOn", "ringsOn", "model">> BY <1>1, <1>2, AtPlaces
  <2>3. Detected \in Sources /\ Detected[2] = task.out.link
    BY <1>2, NamedIn, InSources DEF Detected
  <2>4. cfg' \in Configs /\ cfg'.profile = "auto" /\ cfg'.src = Detected /\ cfg'.link = Detected[2]
        /\ cfg'.rev \in Nat
    <3>1. PICK n \in Nat : n = cfg.rev + 1 BY <1>2, PlacesNow
    <3>2. PICK l \in Wires : l = task.out.link BY <1>2 DEF Results
    <3>3. PICK d \in Sources : d = Detected BY <2>3
    <3>4. cfg.profile = "auto" BY <1>2, <1>5
    <3>5. cfg' = [cfg EXCEPT !.link = l, !.src = d, !.rev = n] BY <2>1, <3>1, <3>2, <3>3
    <3>6. cfg' \in Configs BY <1>2, <3>5 DEF Configs
    <3>7. cfg'.profile = cfg.profile /\ cfg'.src = d /\ cfg'.link = l /\ cfg'.rev = n
      BY <1>2, <3>5 DEF Configs
    <3> QED BY <2>3, <3>2, <3>3, <3>4, <3>6, <3>7
  <2> DEFINE t == <<"agesOn", "ringsOn", "model">>
  <2>5. t \in TaskWork /\ Head(t) = "agesOn" /\ t # <<>> BY DEF TaskWork
  <2>6. Done = t BY <2>2
  <2> HIDE DEF t
  <2>7. task' \in Tasks /\ task'.todo = t /\ task'.cfg = cfg' /\ task'.gen = task.gen
        /\ task'.out = task.out /\ (task'.beside <=> task.beside) /\ (task'.old <=> task.old)
    <3>1. task' \in Tasks BY <1>2, <2>1, <2>4, <2>5, <2>6 DEF Tasks
    <3> QED BY <1>2, <2>1, <2>6, <3>1 DEF Tasks
  <2>8. PollShape' BY <1>1, <1>2, <2>4, <2>7 DEF PollShape
  <2>9. ~On(Sweeps)' /\ ~On(Decides)' /\ ~On({"expect"})' /\ On(Settles)' /\ ~On({"model"})'
        /\ ~On({"ages", "commit"})' /\ ~On({"expect"} \cup Decides)' /\ ~On(Stores)'
    BY <2>5, <2>7 DEF On, Decides, Settles, Sweeps, Stores
  <2>10. Live' = {}
    <3>1. Swept' = {} /\ Aged' = Aged BY <1>1, <2>9, NotSwept, SameAged
    <3> QED BY <1>1, <1>2, <3>1, LiveShrinks
  <2>11. Saved' = Saved /\ Bumped' = Bumped /\ ~Saved /\ ~Calling({"bump"}) /\ ~Calling({"bump"})'
         /\ Excused' = Excused
    BY <1>1, <1>2, <1>5 DEF Saved, Bumped, Calling, Excused
  <2>12. FormInv'
    <3>1. Calling({"ages"})' = Calling({"ages"}) BY <1>1 DEF Calling
    <3> QED BY <1>1, <1>2, <2>4, <2>11, <3>1 DEF PollIInv, FormInv
  <2>13. ScopeInv' BY <1>1, <2>10 DEF PollIInv, ScopeInv
  <2>14. TaskInv' BY <1>2, <2>7, <2>9, <2>11 DEF TaskInv
  <2>15. Detected' = Detected BY <2>7 DEF Detected
  <2>16. DetectInv'
    <3>1. Current' BY <1>1, <1>2, <2>7 DEF Current
    <3> QED BY <2>4, <2>7, <2>9, <2>10, <2>11, <2>15, <3>1 DEF DetectInv
  <2>17. CountInv'
    <3>1. Trailing(seen, engine.unmatched, Generic)' = Trailing(seen, engine.unmatched, Generic)
          /\ Trailing(seen, engine.shaky, engine.tracked)' = Trailing(seen, engine.shaky, engine.tracked)
      BY <1>1
    <3>2. Earned(Detected[1])' BY <1>1, <1>2, <1>5, <2>15 DEF Earned
    <3>3. task'.todo # <<"gap", "begin">> BY <2>5, <2>7
    <3>4. On(Decides \cup Settles \cup {"gap"})' BY <2>9 DEF On
    <3> QED BY <1>2, <2>9, <2>11, <3>1, <3>2, <3>3, <3>4 DEF CountInv
  <2> QED BY <2>8, <2>12, <2>13, <2>14, <2>16, <2>17 DEF PollIInv
<1> QED BY <1>4, <1>5

LEMMA SettleModelPoll ==
  ASSUME PollIInv, SettleModel
  PROVE  PollIInv' /\ (cfg'.profile # cfg.profile => Earned(cfg'.profile))
<1>1. At("model") /\ task' = Resting /\ UNCHANGED <<engine, cache, carried, rings, ages, form, asked, seen>>
  BY DEF SettleModel
<1>2. /\ PollShape /\ CountInv /\ task \in Tasks /\ cfg \in Configs /\ task.out \in Results
      /\ On({"model"}) /\ ~Bumped /\ Live = {}
      /\ Unchanged => ~Saved /\ cfg = task.cfg /\ Earned(Detected[1])
  BY <1>1, SettlePlaces DEF Settles
<1>3. carried' \in [sat: Carry, rps: Carry] BY <1>1, <1>2 DEF PollShape
<1>4. CASE ~Unchanged
  <2>1. cfg' = cfg BY <1>4 DEF SettleModel, Unchanged
  <2> QED BY <1>1, <1>3, <2>1, RestsPoll
<1>5. CASE Unchanged
  <2>1. cfg' = [cfg EXCEPT !.profile = Detected[1], !.rev = @ + 1] BY <1>5 DEF SettleModel, Unchanged
  <2>2. Detected[1] \in Catalogue /\ Detected = <<Detected[1], Detected[2]>>
    BY <1>2, NamedIn DEF Detected
  <2>3. cfg' \in Configs /\ cfg'.profile = Detected[1] /\ cfg'.src = cfg.src /\ cfg'.link = cfg.link
    <3>1. PICK n \in Nat : n = cfg.rev + 1 BY <1>2, PlacesNow
    <3>2. PICK p \in Profiles : p = Detected[1] BY <2>2 DEF Profiles
    <3>3. cfg' = [cfg EXCEPT !.profile = p, !.rev = n] BY <2>1, <3>1, <3>2
    <3>4. cfg' \in Configs BY <1>2, <3>3 DEF Configs
    <3> QED BY <1>2, <3>2, <3>3, <3>4 DEF Configs
  <2>4. cfg.src = Detected /\ cfg.link = Detected[2] /\ rings.target = Detected
    <3>1. On(Settles \ {"link"}) BY <1>2 DEF On, Settles
    <3> QED BY <1>2, <1>5, <3>1 DEF PollIInv, DetectInv
  <2>5. task'.todo = <<>> /\ ~task'.old /\ task'.gen = 0 BY <1>1 DEF Resting
  <2>6. PollShape' BY <1>1, <1>2, <2>3, <2>5, NothingIn, PlacesNow DEF PollShape
  <2>7. ~On(Busy)' /\ ~On({"expect"} \cup Decides \cup Settles)' /\ ~On(Sweeps)' BY <2>5 DEF On
  <2>8. CountInv' BY <1>1, <1>2, <2>5, <2>7, CountIdle
  <2>9. Live' = {}
    <3>1. Swept' = {} /\ Aged' = Aged BY <1>1, <2>7, NotSwept, SameAged
    <3> QED BY <1>1, <1>2, <3>1, LiveShrinks
  <2>10. Saved' = Saved /\ Bumped' = Bumped /\ ~Saved /\ ~Bumped /\ Calling({"ages"})' = Calling({"ages"})
    BY <1>1, <1>2, <1>5 DEF Saved, Bumped, Calling
  <2>11. FormInv'
    <3>1. SourceOf(cfg)' = cfg'.src BY <2>2, <2>3, <2>4 DEF SourceOf
    <3> QED BY <1>1, <2>3, <2>4, <2>10, <3>1 DEF PollIInv, FormInv
  <2>12. ScopeInv' BY <1>1, <2>9 DEF PollIInv, ScopeInv
  <2>13. PollIInv' BY <2>6, <2>7, <2>8, <2>11, <2>12, TaskFree DEF PollIInv
  <2> QED BY <1>2, <1>5, <2>3, <2>13
<1> QED BY <1>4, <1>5

LEMMA ObservePoll == ASSUME PollIInv, ObserveSettled PROVE PollIInv'
<1>1. /\ task' = [task EXCEPT !.todo = Done] /\ UNCHANGED <<cfg, engine, cache, carried, form, asked, seen>>
      /\ \/ At("agesOn") /\ ages' = [ages EXCEPT !.reset = TRUE, !.model = Detected[1]] /\ rings' = rings
         \/ At("ringsOn") /\ rings' = [rings EXCEPT !.target = Detected, !.reset = TRUE] /\ ages' = ages
  BY DEF ObserveSettled, AgesResetOn, RingsResetOn
<1>2. /\ PollShape /\ CountInv /\ task \in Tasks /\ cfg \in Configs /\ task.out \in Results
      /\ On(Settles) /\ ~On(Decides) /\ ~On(Sweeps) /\ ~task.beside /\ Current
      /\ ~Bumped /\ Live = {} /\ task.cfg \in Configs /\ task.cfg.rev <= cfg.rev
      /\ Saved \/ cfg.profile = "auto"
      /\ Unchanged => ~Saved /\ cfg = task.cfg /\ Earned(Detected[1])
  <2>1. CASE At("agesOn") BY <2>1, SettlePlaces DEF Settles
  <2>2. CASE At("ringsOn") BY <2>2, SettlePlaces DEF Settles
  <2> QED BY <1>1, <2>1, <2>2
<1>3. PICK t \in TaskWork : /\ Done = t /\ t # <<>> /\ Head(t) \in {"ringsOn", "model"}
                            /\ Head(t) = "model" => At("ringsOn")
                            /\ t # <<"gap", "begin">>
  <2>1. CASE At("agesOn")
    <3>1. Done = <<"ringsOn", "model">> BY <1>2, <2>1, AtPlaces
    <3> QED BY <3>1 DEF TaskWork
  <2>2. CASE At("ringsOn")
    <3>1. Done = <<"model">> BY <1>2, <2>2, AtPlaces
    <3> QED BY <3>1, <2>2 DEF TaskWork
  <2> QED BY <1>1, <2>1, <2>2
<1>4. task' \in Tasks /\ task'.todo = t /\ task'.cfg = task.cfg /\ task'.gen = task.gen
      /\ task'.out = task.out /\ (task'.beside <=> task.beside) /\ (task'.old <=> task.old)
  <2>1. task' \in Tasks BY <1>1, <1>2, <1>3 DEF Tasks
  <2> QED BY <1>1, <1>2, <1>3, <2>1 DEF Tasks
<1>5. Detected \in Sources /\ Detected[1] \in Catalogue BY <1>2, NamedIn, InSources DEF Detected
<1>6. ages' \in Tables /\ (ages' = ages \/ ages'.reset)
  <2>1. ages \in Tables BY <1>2 DEF PollShape
  <2>2. PICK m \in Profiles : m = Detected[1] BY <1>5 DEF Profiles
  <2> QED BY <1>1, <2>1, <2>2 DEF Tables
<1>7. rings' \in RingSets /\ (rings' = rings \/ rings'.reset) /\ (At("ringsOn") => rings'.target = Detected)
  <2>1. rings \in RingSets BY <1>2 DEF PollShape
  <2>2. PICK d \in Sources : d = Detected BY <1>5
  <2>3. CASE rings' = [rings EXCEPT !.target = Detected, !.reset = TRUE]
    <3>1. rings' = [rings EXCEPT !.target = d, !.reset = TRUE] BY <2>2, <2>3
    <3> QED BY <2>1, <2>2, <3>1 DEF RingSets
  <2>4. CASE At("agesOn") /\ rings' = rings BY <2>1, <2>4 DEF At
  <2> QED BY <1>1, <2>3, <2>4
<1>8. PollShape' BY <1>1, <1>2, <1>4, <1>6, <1>7 DEF PollShape
<1>9. ~On(Sweeps)' /\ ~On(Decides)' /\ ~On({"expect"})' /\ On(Settles)'
      /\ ~On({"ages", "commit"})' /\ ~On({"expect"} \cup Decides)' /\ (On({"model"})' => At("ringsOn"))
  BY <1>3, <1>4 DEF On, Decides, Settles, Sweeps, Stores
<1>10. Live' = {}
  <2>1. Aged' \subseteq Aged
    <3>1. CASE ages' = ages BY <1>1, <3>1, SameAged
    <3>2. CASE ages'.reset BY <3>2 DEF Aged
    <3> QED BY <1>6, <3>1, <3>2
  <2>2. Swept' = {} BY <1>9, NotSwept
  <2> QED BY <1>1, <1>2, <2>1, <2>2, LiveShrinks
<1>11. Saved' = Saved /\ Bumped' = Bumped /\ Calling({"bump"})' = Calling({"bump"}) /\ Excused' = Excused
       /\ Calling({"ages"})' = Calling({"ages"}) /\ Unchanged' = Unchanged
  BY <1>1, <1>4 DEF Saved, Bumped, Calling, Excused, Unchanged
<1>12. FormInv'
  <2>1. ~rings'.reset => rings' = rings BY <1>7
  <2> QED BY <1>1, <1>2, <1>11, <2>1 DEF PollIInv, FormInv, SourceOf
<1>13. ScopeInv' BY <1>1, <1>10 DEF PollIInv, ScopeInv
<1>14. TaskInv' BY <1>2, <1>4, <1>9, <1>11 DEF TaskInv
<1>15. Detected' = Detected BY <1>4 DEF Detected
<1>16. DetectInv'
  <2>1. Current' BY <1>1, <1>2, <1>4 DEF Current
  <2>2. On(Settles \ {"link"}) BY <1>1 DEF On, At, Settles
  <2>3. Unchanged => cfg.src = Detected /\ cfg.link = Detected[2] BY <2>2 DEF PollIInv, DetectInv
  <2>4. On({"model"})' => rings'.target = Detected BY <1>7, <1>9
  <2> QED BY <1>1, <1>2, <1>4, <1>9, <1>10, <1>11, <1>15, <2>1, <2>3, <2>4 DEF DetectInv
<1>17. CountInv'
  <2>1. Trailing(seen, engine.unmatched, Generic)' = Trailing(seen, engine.unmatched, Generic)
        /\ Trailing(seen, engine.shaky, engine.tracked)' = Trailing(seen, engine.shaky, engine.tracked)
    BY <1>1
  <2>2. Unchanged' => Earned(Detected[1])'
    <3>1. Earned(Detected[1])' = Earned(Detected[1]) BY <1>1, <1>15 DEF Earned
    <3> QED BY <1>2, <1>11, <3>1
  <2>3. task'.todo # <<"gap", "begin">> BY <1>3, <1>4
  <2>4. On(Decides \cup Settles \cup {"gap"})' /\ On(Decides \cup Settles) BY <1>2, <1>9 DEF On
  <2> QED BY <1>1, <1>2, <1>4, <1>9, <1>11, <2>1, <2>2, <2>3, <2>4 DEF CountInv
<1> QED BY <1>8, <1>12, <1>13, <1>14, <1>16, <1>17 DEF PollIInv

-----------------------------------------------------------------------------
(* A cycle that reads *)

LEMMA SweepPlaces ==
  ASSUME PollIInv, NEW step \in Sweeps, At(step)
  PROVE  /\ PollShape /\ CountInv /\ task \in Tasks
         /\ On({step}) /\ On(Sweeps) /\ ~On(Decides) /\ ~On(Settles) /\ ~On({"expect"}) /\ ~task.old
         /\ task.cfg \in Configs /\ SourceOf(task.cfg) \in Inventory /\ task.cfg.src = SourceOf(task.cfg)
         /\ Current /\ Bumped => task.beside
         /\ step \in Stores => ~task.beside
<1>1. PollShape /\ CountInv /\ task \in Tasks BY DEF PollIInv, PollShape
<1>2. On({step}) /\ On(Sweeps) /\ ~On(Decides) /\ ~On(Settles) /\ ~On({"expect"})
      /\ ~On(Decides \cup Settles \cup {"gap"})
  BY <1>1, AtPlaces DEF Decides, Settles, Sweeps, Stores
<1>3. ~task.old BY <1>1, <1>2 DEF CountInv
<1>4. task.cfg \in Configs /\ task.cfg.profile # "auto" /\ task.cfg.src = SourceOf(task.cfg)
  BY <1>2 DEF PollIInv, TaskInv
<1>5. SourceOf(task.cfg) \in Inventory BY <1>4 DEF SourceOf, Inventory, Configs, Profiles
<1>6. Current /\ Bumped => task.beside
  <2>1. On(Decides \cup Settles \cup Sweeps) BY <1>2 DEF On
  <2> QED BY <2>1 DEF PollIInv, TaskInv
<1>7. step \in Stores => ~task.beside
  <2>1. step \in Stores => On(Stores \cup Settles \cup {"decide"}) BY <1>2 DEF On
  <2> QED BY <2>1 DEF PollIInv, TaskInv
<1> QED BY <1>1, <1>2, <1>3, <1>4, <1>5, <1>6, <1>7

(* The sweep goes on to its stores.                                         *)
LEMMA StoresFrame ==
  ASSUME PollIInv, NEW step \in Sweeps, At(step), ~task.beside,
         UNCHANGED <<cfg, engine, form, seen>>,
         NEW t, task'.todo = t, t # <<>>, Head(t) \in Stores,
         task'.cfg = task.cfg, task'.gen = task.gen, ~task'.beside, ~task'.old,
         task'.sat \in {task.sat, NoneCarried}, task'.rps = task.rps,
         Head(t) \in {"ages", "commit"} => task'.pending.src = <<task.cfg.profile, task.cfg.src>>
  PROVE  TaskInv' /\ DetectInv' /\ CountInv' /\ Swept' \subseteq Swept
<1>1. /\ CountInv /\ On(Sweeps) /\ (Current /\ Bumped => task.beside)
      /\ task.cfg \in Configs /\ SourceOf(task.cfg) \in Inventory /\ task.cfg.src = SourceOf(task.cfg)
      /\ task.cfg.profile # "auto"
  <2>1. task.cfg.profile # "auto" BY SweepPlaces DEF PollIInv, TaskInv
  <2> QED BY <2>1, SweepPlaces
<1>2. On(Stores)' /\ On(Sweeps)' /\ ~On(Decides)' /\ ~On(Settles)' /\ ~On({"decide"})' /\ ~On({"expect"})'
      /\ ~On({"expect"} \cup Decides \cup Settles)' /\ ~On(Decides \cup Settles)' /\ ~On({"model"})'
      /\ ~On(Settles \ {"link"})'
  BY DEF On, Decides, Settles, Sweeps, Stores
<1>3. Current' = Current /\ Bumped' = Bumped /\ Saved' = Saved /\ Doomed' = Doomed
  BY DEF Current, Bumped, Saved, Calling, Doomed
<1>4. TaskInv'
  <2>1. On({"ages", "commit"})' => task'.pending.src = <<task.cfg.profile, task.cfg.src>> BY DEF On
  <2>2. SourceOf(task.cfg)' = SourceOf(task.cfg) BY DEF SourceOf
  <2> QED BY <1>1, <1>3, <2>1, <2>2 DEF TaskInv
<1>5. DetectInv' BY <1>2 DEF DetectInv
<1>6. CountInv' BY <1>1, <1>2, CountIdle
<1>7. Swept' \subseteq Swept
  <2>1. SourceOf(task.cfg)' = SourceOf(task.cfg) BY DEF SourceOf
  <2>2. NoneCarried.src = NoSource BY DEF NoneCarried
  <2> QED BY <1>1, <1>2, <1>3, <2>1, <2>2 DEF Swept
<1> QED BY <1>4, <1>5, <1>6, <1>7

LEMMA CopyPoll == ASSUME PollIInv, Copy PROVE PollIInv'
<1>1. PollShape /\ CountInv /\ At("copy") /\ UNCHANGED <<cfg, engine, cache, rings, ages, form, asked, seen>>
  BY DEF PollIInv, Copy
<1>2. cfg \in Configs /\ task \in Tasks /\ carried \in [sat: Carry, rps: Carry] BY <1>1 DEF PollShape
<1>3. CASE cfg.profile = "auto"
  <2>1. task' = Resting /\ carried' = [carried EXCEPT !.sat = NoneCarried] BY <1>3 DEF Copy
  <2>2. carried' \in [sat: Carry, rps: Carry] /\ carried'.sat = NoneCarried /\ carried'.rps = carried.rps
    BY <1>2, <2>1, NothingIn
  <2> QED BY <1>1, <2>1, <2>2, RestsPoll
<1>4. CASE cfg.profile # "auto"
  <2> DEFINE sat == IF carried.sat.gen = task.gen THEN carried.sat ELSE NoneCarried
             rps == IF carried.rps.gen = task.gen THEN carried.rps ELSE NoneCarried
  <2>1. task' = [task EXCEPT !.cfg = cfg, !.beside = Beside, !.todo = <<"read">>, !.sat = sat, !.rps = rps]
        /\ carried' = carried
    BY <1>4 DEF Copy, Copies
  <2>2. sat \in Carry /\ rps \in Carry BY <1>2, NothingIn
  <2> HIDE DEF sat, rps
  <2>3. task' \in Tasks /\ task'.cfg = cfg /\ task'.todo = <<"read">> /\ task'.gen = task.gen
        /\ (task'.beside <=> Beside) /\ (task'.old <=> task.old) /\ task'.sat = sat /\ task'.rps = rps
    <3>1. <<"read">> \in TaskWork /\ Beside \in BOOLEAN BY DEF TaskWork, Beside
    <3>2. task' \in Tasks BY <1>2, <2>1, <2>2, <3>1 DEF Tasks
    <3> QED BY <1>2, <2>1, <3>2 DEF Tasks
  <2>4. PollShape' BY <1>1, <2>1, <2>3 DEF PollShape
  <2>5. ~On({"expect"} \cup Decides \cup Settles)' /\ ~On(Stores \cup Settles \cup {"decide"})'
        /\ ~On({"ages", "commit"})' /\ On(Sweeps)' /\ ~On(Decides \cup Settles)'
        /\ ~On(Settles)' /\ ~On(Settles \ {"link"})' /\ ~On({"model"})'
    BY <2>3 DEF On, Decides, Settles, Sweeps, Stores
  <2>6. ~task.old
    <3>1. ~On(Decides \cup Settles \cup {"gap"}) BY <1>1, AtPlaces DEF Decides, Settles
    <3> QED BY <1>1, <3>1 DEF CountInv
  <2>7. CountInv' BY <1>1, <2>3, <2>5, <2>6, CountIdle
  <2>8. Saved' = Saved /\ Bumped' = Bumped /\ (Saved \/ Bumped => Beside)
    BY <1>1 DEF Saved, Bumped, Calling, Beside
  <2>9. cfg.src = SourceOf(cfg) BY <1>4 DEF PollIInv, FormInv
  <2>10. FormInv' BY <1>1, FormFrame DEF PollIInv
  <2>11. TaskInv'
    <3>1. SourceOf(task.cfg)' = SourceOf(cfg) BY <2>3 DEF SourceOf
    <3> QED BY <1>2, <1>4, <2>3, <2>5, <2>8, <2>9, <3>1 DEF TaskInv
  <2>12. DetectInv' BY <2>5 DEF DetectInv
  <2>13. ScopeInv'
    <3>1. Shown' = Shown /\ Kept(carried.sat)' = Kept(carried.sat) /\ Kept(carried.rps)' = Kept(carried.rps)
          /\ Aged' = Aged
      BY <1>1, <2>1, SameAged DEF Shown, Kept
    <3>2. SourceOf(task.cfg)' = cfg.src BY <2>3, <2>9 DEF SourceOf
    <3>3. ~Doomed' => cfg.src \in Used BY <1>4, <2>3, <2>8 DEF Doomed, Used
    <3>4. Current' => {sat.src, rps.src} \ {NoSource} \subseteq Kept(carried.sat) \cup Kept(carried.rps)
      BY <1>1, <2>3 DEF sat, rps, Current, Kept, NoneCarried
    <3>5. Swept' \subseteq Kept(carried.sat) \cup Kept(carried.rps) \cup Used
      BY <2>3, <3>2, <3>3, <3>4 DEF Swept
    <3>6. Live' \subseteq Live \cup Used BY <3>1, <3>5 DEF Live
    <3>7. Used' = Used BY <1>1, <2>8 DEF Used
    <3> QED BY <1>1, <3>6, <3>7 DEF PollIInv, ScopeInv
  <2> QED BY <2>4, <2>7, <2>10, <2>11, <2>12, <2>13 DEF PollIInv
<1> QED BY <1>3, <1>4

LEMMA ReadPoll == ASSUME PollIInv, Read PROVE PollIInv'
<1>1. At("read") /\ ~task.beside /\ UNCHANGED <<cfg, engine, cache, rings, ages, form, asked, seen>>
  BY DEF Read
<1>2. /\ PollShape /\ CountInv /\ task \in Tasks /\ On(Sweeps) /\ ~task.old /\ SourceOf(task.cfg) \in Inventory
      /\ task.sat \in Carry /\ task.gen \in Nat /\ task.gen <= engine.gen
      /\ carried \in [sat: Carry, rps: Carry]
  BY <1>1, SweepPlaces DEF Sweeps, PollShape, Tasks
<1> DEFINE here == [src |-> SourceOf(task.cfg), gen |-> task.gen]
           t == <<"rings", "identity", "ages", "commit">>
<1>3. PICK sat \in {task.sat, NoneCarried}, rps \in {"unknown", "runs", "stands"} :
        /\ task' = [task EXCEPT !.sat = sat, !.todo = t]
        /\ carried' = [carried EXCEPT !.rps = CASE rps = "unknown" -> carried.rps
                                                [] rps = "runs" -> [here EXCEPT !.src = NoSource]
                                                [] rps = "stands" -> here]
  BY DEF Read
<1>4. PICK c \in Carry : /\ carried' = [carried EXCEPT !.rps = c]
                         /\ c = carried.rps \/ c = [src |-> NoSource, gen |-> task.gen] \/ c = here
  <2>1. here \in Carry /\ [here EXCEPT !.src = NoSource] = [src |-> NoSource, gen |-> task.gen]
        /\ [src |-> NoSource, gen |-> task.gen] \in Carry
    BY <1>2, NothingIn, InSources DEF Carry
  <2>2. CASE rps = "unknown" BY <1>2, <1>3, <2>2
  <2>3. CASE rps = "runs" BY <1>3, <2>1, <2>3
  <2>4. CASE rps = "stands" BY <1>3, <2>1, <2>4
  <2> QED BY <1>3, <2>2, <2>3, <2>4
<1>5. t \in TaskWork /\ t # <<>> /\ Head(t) = "rings" BY DEF TaskWork
<1> HIDE DEF t
<1>6. task' \in Tasks /\ task'.cfg = task.cfg /\ task'.todo = t /\ task'.gen = task.gen
      /\ (task'.beside <=> task.beside) /\ (task'.old <=> task.old) /\ task'.sat = sat /\ task'.rps = task.rps
  <2>1. sat \in Carry BY <1>2, NothingIn
  <2>2. task' \in Tasks BY <1>2, <1>3, <1>5, <2>1 DEF Tasks
  <2> QED BY <1>2, <1>3, <2>2 DEF Tasks
<1>7. carried' \in [sat: Carry, rps: Carry] /\ carried'.sat = carried.sat /\ carried'.rps = c
      /\ c.gen <= engine.gen
  <2>1. c.gen = carried.rps.gen \/ c.gen = task.gen BY <1>4
  <2> QED BY <1>2, <1>4, <2>1 DEF PollShape
<1>8. PollShape' BY <1>1, <1>2, <1>6, <1>7 DEF PollShape
<1>9. TaskInv' /\ DetectInv' /\ CountInv' /\ Swept' \subseteq Swept
  BY <1>1, <1>2, <1>5, <1>6, StoresFrame DEF Sweeps, Stores
<1>10. FormInv' BY <1>1, FormFrame DEF PollIInv
<1>11. ScopeInv'
  <2>1. Kept(carried.rps)' \subseteq Kept(carried.rps) \cup Swept
    <3>1. CASE c = carried.rps BY <1>1, <1>7, <3>1 DEF Kept
    <3>2. CASE c = [src |-> NoSource, gen |-> task.gen] BY <1>7, <3>2 DEF Kept
    <3>3. CASE c = here
      <4>1. Current => SourceOf(task.cfg) \in Swept BY <1>1, <1>2 DEF Swept, Doomed
      <4> QED BY <1>1, <1>7, <3>3, <4>1 DEF Kept, Current
    <3> QED BY <1>4, <3>1, <3>2, <3>3
  <2>2. Shown' = Shown /\ Kept(carried.sat)' = Kept(carried.sat) /\ Aged' = Aged
    BY <1>1, <1>7, SameAged DEF Shown, Kept
  <2>3. Live' \subseteq Live BY <1>9, <2>1, <2>2 DEF Live
  <2> QED BY <1>1, <2>3, ScopeFrame DEF PollIInv
<1> QED BY <1>8, <1>9, <1>10, <1>11 DEF PollIInv

LEMMA FailsPoll == ASSUME PollIInv, Fails PROVE PollIInv'
<1>1. /\ At("read") \/ At("detect")
      /\ task' = [task EXCEPT !.todo = <<"gap">>, !.gen = engine.gen]
      /\ carried' = [carried EXCEPT !.sat = NoneCarried]
      /\ engine' = IF At("detect") /\ Current THEN Forgotten ELSE engine
      /\ seen' = IF At("detect") THEN <<>> ELSE seen
      /\ UNCHANGED <<cfg, cache, rings, ages, form, asked>>
  BY DEF Fails, Current
<1>2. PollShape /\ CountInv /\ task \in Tasks /\ engine \in Engines /\ carried \in [sat: Carry, rps: Carry]
  BY DEF PollIInv, PollShape
<1>3. task' \in Tasks /\ task'.todo = <<"gap">> /\ task'.gen = engine.gen
  <2>1. <<"gap">> \in TaskWork BY DEF TaskWork
  <2>2. task' \in Tasks BY <1>1, <1>2, <2>1, PlacesNow DEF Tasks
  <2> QED BY <1>1, <1>2, <2>2 DEF Tasks
<1>4. carried' \in [sat: Carry, rps: Carry] /\ carried'.sat = NoneCarried /\ carried'.rps = carried.rps
  BY <1>1, <1>2, NothingIn
<1>5. Forgotten \in Engines /\ Forgotten.gen = engine.gen /\ (Forgotten.ask <=> engine.ask)
      /\ Forgotten.unmatched = 0 /\ Forgotten.shaky = 0
  <2>1. 0 \in 0..Twice BY LimitsPoll
  <2>2. Forgotten \in Engines BY <1>2, <2>1 DEF Forgotten, Engines
  <2> QED BY <1>2, <2>2 DEF Forgotten, Engines
<1>6. engine' \in Engines /\ engine'.gen = engine.gen /\ (engine'.ask <=> engine.ask)
      /\ (Blank => engine'.unmatched = 0 /\ engine'.shaky = 0)
  BY <1>1, <1>2, <1>5 DEF Blank
<1>7. PollShape'
  <2>1. seen' \in Seq(Sweep) /\ Len(seen') <= Twice
    <3>1. CASE At("detect")
      <4>1. seen' = <<>> BY <1>1, <3>1
      <4> QED BY <4>1, LimitsPoll
    <3>2. CASE ~At("detect") BY <1>1, <1>2, <3>2 DEF PollShape
    <3> QED BY <3>1, <3>2
  <2>2. carried'.sat.gen <= engine.gen BY <1>2, <1>4, PlacesNow DEF NoneCarried
  <2> QED BY <1>1, <1>2, <1>3, <1>4, <1>6, <2>1, <2>2, PlacesNow DEF PollShape
<1>8. ~On(Busy)' /\ ~On({"expect"})' /\ ~On(Decides)' /\ ~On(Settles)' /\ ~On({"expect"} \cup Decides)'
      /\ ~On(Decides \cup Settles)' /\ On(Decides \cup Settles \cup {"gap"})'
  BY <1>3 DEF On, Busy, Decides, Settles, Sweeps, Stores
<1>9. CountInv'
  <2>1. Excused' = Excused /\ Calling({"bump"})' = Calling({"bump"})
    BY <1>1, <1>6 DEF Excused, Calling
  <2>2. ~Excused' => Trailing(seen', engine'.unmatched, Generic) /\ Trailing(seen', engine'.shaky, engine'.tracked)
    <3>1. CASE ~At("detect")
      <4>1. engine' = engine /\ seen' = seen BY <1>1, <3>1
      <4> QED BY <1>2, <2>1, <4>1 DEF CountInv
    <3>2. CASE At("detect")
      <4>1. On({"expect"} \cup Decides) BY <1>2, <3>2, AtPlaces DEF Decides
      <4>2. engine.ask \/ (engine'.unmatched = 0 /\ engine'.shaky = 0)
        <5>1. CASE Current BY <1>1, <1>5, <3>2, <5>1
        <5>2. CASE ~Current BY <1>2, <1>6, <4>1, <5>2 DEF CountInv
        <5> QED BY <5>1, <5>2
      <4>3. seen' = <<>> BY <1>1, <3>2
      <4>4. Trailing(seen', 0, Generic) /\ Trailing(seen', 0, engine'.tracked) BY <4>3 DEF Trailing
      <4> QED BY <2>1, <4>2, <4>4 DEF Excused
    <3> QED BY <3>1, <3>2
  <2>3. Calling({"bump"})' => engine'.ask \/ (engine'.unmatched = 0 /\ engine'.shaky = 0)
    BY <1>2, <1>6, <2>1 DEF CountInv
  <2>4. task'.todo # <<"gap", "begin">> BY <1>3
  <2> QED BY <1>8, <2>2, <2>3, <2>4 DEF CountInv, Blank
<1>10. Aged' = Aged BY <1>1, SameAged
<1> QED BY <1>1, <1>4, <1>6, <1>7, <1>8, <1>9, <1>10, IdlePoll

LEMMA RecordRingsPoll == ASSUME PollIInv, RecordRings PROVE PollIInv'
<1>1. At("rings") /\ task' = [task EXCEPT !.todo = Done]
      /\ UNCHANGED <<cfg, engine, cache, carried, ages, form, asked, seen>>
  BY DEF RecordRings
<1>2. /\ PollShape /\ CountInv /\ task \in Tasks /\ On(Sweeps) /\ ~task.old /\ SourceOf(task.cfg) \in Inventory
      /\ ~task.beside /\ (Current => ~Bumped) /\ rings \in RingSets
  BY <1>1, SweepPlaces DEF Sweeps, Stores, PollShape
<1> DEFINE src == SourceOf(task.cfg)
           t == <<"identity", "ages", "commit">>
<1>3. t \in TaskWork /\ t # <<>> /\ Head(t) = "identity" BY DEF TaskWork
<1>4. Done = t BY <1>1, <1>2, AtPlaces
<1> HIDE DEF t
<1>5. task' \in Tasks /\ task'.cfg = task.cfg /\ task'.todo = t /\ task'.gen = task.gen
      /\ (task'.beside <=> task.beside) /\ (task'.old <=> task.old) /\ task'.sat = task.sat /\ task'.rps = task.rps
  <2>1. task' \in Tasks BY <1>1, <1>2, <1>3, <1>4 DEF Tasks
  <2> QED BY <1>1, <1>2, <1>4, <2>1 DEF Tasks
<1>6. PICK spelled \in BOOLEAN : RingsRecord(task.gen, src, spelled) BY DEF RecordRings
<1>7. PICK H \in SUBSET Inventory :
        \/ rings' = rings
        \/ /\ Current /\ rings' = [rings EXCEPT !.reset = FALSE, !.held = H \cup {src}]
           /\ H = {} \/ (~rings.reset /\ H = rings.held)
  <2>1. CASE rings.reset \/ (spelled /\ \E s \in rings.held : s[1] # src[1])
    BY <1>6, <2>1 DEF RingsRecord, Current
  <2>2. CASE ~(rings.reset \/ (spelled /\ \E s \in rings.held : s[1] # src[1]))
    BY <1>2, <1>6, <2>2 DEF RingsRecord, Current, RingSets
  <2> QED BY <2>1, <2>2, ZenonT(60)
<1>8. /\ rings' \in RingSets /\ rings'.target = rings.target
      /\ \/ rings' = rings
         \/ /\ Current /\ rings'.held = H \cup {src} /\ (H = {} \/ (~rings.reset /\ H = rings.held))
  BY <1>2, <1>7 DEF RingSets
<1>9. PollShape' BY <1>1, <1>2, <1>5, <1>8 DEF PollShape
<1>10. TaskInv' /\ DetectInv' /\ CountInv' /\ Swept' \subseteq Swept
  BY <1>1, <1>2, <1>3, <1>5, StoresFrame DEF Sweeps, Stores
<1>11. Current => src = rings.target
  <2>1. Current => src \in Used
    <3>1. Current => src \in Swept BY <1>2 DEF Swept, Doomed
    <3> QED BY <3>1 DEF PollIInv, ScopeInv, Live
  <2> QED BY <1>2, <2>1 DEF Used, PollIInv, FormInv
<1>12. FormInv'
  <2>1. ~rings'.reset => rings'.held \subseteq {rings'.target}
    BY <1>8, <1>11 DEF PollIInv, FormInv
  <2>2. Saved' = Saved /\ Bumped' = Bumped /\ Calling({"ages"})' = Calling({"ages"})
    BY <1>1 DEF Saved, Bumped, Calling
  <2> QED BY <1>1, <1>8, <2>1, <2>2 DEF PollIInv, FormInv, SourceOf
<1>13. ScopeInv'
  <2>1. Aged' = Aged BY <1>1, SameAged
  <2>2. Live' \subseteq Live BY <1>1, <1>10, <2>1, LiveShrinks
  <2> QED BY <1>1, <1>8, <2>2, ScopeFrame DEF PollIInv
<1> QED BY <1>9, <1>10, <1>12, <1>13 DEF PollIInv

LEMMA NextRevision == ASSUME PollShape PROVE (cache.id.rev + 1) % Revisions \in 0..Revisions - 1
<1>1. cache.id.rev \in 0..Revisions - 1 BY DEF PollShape, Caches, Identities
<1>2. cache.id.rev \in Nat BY <1>1, LimitsPoll
<1> QED BY <1>2, LimitsPoll

LEMMA IdentifyPoll == ASSUME PollIInv, Identify PROVE PollIInv'
<1>1. At("identity") /\ UNCHANGED <<cfg, engine, cache, carried, rings, ages, form, asked, seen>>
  BY DEF Identify
<1>2. /\ PollShape /\ CountInv /\ task \in Tasks /\ On(Sweeps) /\ ~task.old /\ SourceOf(task.cfg) \in Inventory
      /\ ~task.beside /\ (Current => ~Bumped) /\ task.cfg \in Configs
      /\ carried \in [sat: Carry, rps: Carry]
  BY <1>1, SweepPlaces DEF Sweeps, Stores, PollShape
<1>3. CASE ~Current
  <2>1. task' = Resting BY <1>3 DEF Identify, Current
  <2> QED BY <1>1, <1>2, <2>1, RestsPoll
<1>4. CASE Current
  <2> DEFINE p == [src |-> <<task.cfg.profile, task.cfg.src>>, gen |-> task.gen,
                   rev |-> (cache.id.rev + 1) % Revisions]
             t == <<"ages", "commit">>
  <2>1. task' = [task EXCEPT !.todo = Done, !.pending = p] BY <1>4 DEF Identify, Current
  <2>2. p \in Identities /\ p.src = <<task.cfg.profile, task.cfg.src>>
    <3>1. <<task.cfg.profile, task.cfg.src>> \in (Profiles \cup {""}) \X Sources BY <1>2 DEF Configs
    <3> QED BY <1>2, <3>1, NextRevision, PlacesNow DEF Identities
  <2>3. t \in TaskWork /\ t # <<>> /\ Head(t) = "ages" BY DEF TaskWork
  <2>4. Done = t BY <1>1, <1>2, AtPlaces
  <2> HIDE DEF p, t
  <2>5. task' \in Tasks /\ task'.cfg = task.cfg /\ task'.todo = t /\ task'.gen = task.gen
        /\ (task'.beside <=> task.beside) /\ (task'.old <=> task.old) /\ task'.sat = task.sat
        /\ task'.rps = task.rps /\ task'.pending = p
    <3>1. task' \in Tasks BY <1>2, <2>1, <2>2, <2>3, <2>4 DEF Tasks
    <3> QED BY <1>2, <2>1, <2>4, <3>1 DEF Tasks
  <2>6. PollShape' BY <1>1, <1>2, <2>5 DEF PollShape
  <2>7. TaskInv' /\ DetectInv' /\ CountInv' /\ Swept' \subseteq Swept
    BY <1>1, <1>2, <2>2, <2>3, <2>5, StoresFrame DEF Sweeps, Stores
  <2>8. FormInv' BY <1>1, FormFrame DEF PollIInv
  <2>9. Aged' = Aged BY <1>1, SameAged
  <2>10. Live' \subseteq Live BY <1>1, <2>7, <2>9, LiveShrinks
  <2>11. ScopeInv' BY <1>1, <2>10, ScopeFrame DEF PollIInv
  <2> QED BY <2>6, <2>7, <2>8, <2>11 DEF PollIInv
<1> QED BY <1>3, <1>4

LEMMA RecordAgesPoll == ASSUME PollIInv, RecordAges PROVE PollIInv'
<1>1. At("ages") /\ task' = [task EXCEPT !.todo = Done] /\ AgesRecord(task.gen, {SourceOf(task.cfg)}, task.pending)
      /\ UNCHANGED <<cfg, engine, cache, carried, rings, form, asked, seen>>
  BY DEF RecordAges
<1>2. /\ PollShape /\ CountInv /\ task \in Tasks /\ On(Sweeps) /\ ~task.old /\ SourceOf(task.cfg) \in Inventory
      /\ ~task.beside /\ (Current => ~Bumped) /\ task.pending \in Identities
      /\ task.pending.src = <<task.cfg.profile, task.cfg.src>>
  <2>1. task.pending \in Identities /\ task.pending.src = <<task.cfg.profile, task.cfg.src>>
    <3>1. On({"ages", "commit"}) BY <1>1, AtPlaces DEF PollIInv
    <3> QED BY <3>1 DEF PollIInv, TaskInv, PollShape, Tasks
  <2> QED BY <1>1, <2>1, SweepPlaces DEF Sweeps, Stores
<1> DEFINE src == SourceOf(task.cfg)
           t == <<"commit">>
<1>3. t \in TaskWork /\ t # <<>> /\ Head(t) = "commit" BY DEF TaskWork
<1>4. Done = t BY <1>1, <1>2, AtPlaces
<1> HIDE DEF t
<1>5. task' \in Tasks /\ task'.cfg = task.cfg /\ task'.todo = t /\ task'.gen = task.gen
      /\ (task'.beside <=> task.beside) /\ (task'.old <=> task.old) /\ task'.sat = task.sat
      /\ task'.rps = task.rps /\ task'.pending = task.pending
  <2>1. task' \in Tasks BY <1>1, <1>2, <1>3, <1>4 DEF Tasks
  <2> QED BY <1>1, <1>2, <1>4, <2>1 DEF Tasks
<1>6. ages' \in Tables BY <1>1, <1>2, AgesTyped
<1>7. PollShape' BY <1>1, <1>2, <1>5, <1>6 DEF PollShape
<1>8. TaskInv' /\ DetectInv' /\ CountInv' /\ Swept' \subseteq Swept
  BY <1>1, <1>2, <1>3, <1>5, StoresFrame DEF Sweeps, Stores
<1>9. FormInv' BY <1>1, FormFrame DEF PollIInv
<1>10. Aged' \subseteq Aged \cup Swept
  <2>1. Current => src \in Swept BY <1>2 DEF Swept, Doomed
  <2>2. \/ ages' = ages
        \/ ages.reset /\ ages'.held = {}
        \/ Current /\ ~ages.reset /\ ages'.held = ages.held \cup {src}
    BY <1>1, <1>2 DEF AgesRecord, PollShape, Tables, Current
  <2>3. Calling({"ages"})' = Calling({"ages"}) BY <1>1 DEF Calling
  <2> QED BY <2>1, <2>2, <2>3 DEF Aged
<1>11. ScopeInv'
  <2>1. Shown' = Shown /\ Kept(carried.sat)' = Kept(carried.sat) /\ Kept(carried.rps)' = Kept(carried.rps)
    BY <1>1 DEF Shown, Kept
  <2>2. Live' \subseteq Live BY <1>8, <1>10, <2>1 DEF Live
  <2> QED BY <1>1, <2>2, ScopeFrame DEF PollIInv
<1> QED BY <1>7, <1>8, <1>9, <1>11 DEF PollIInv

LEMMA CommitPoll == ASSUME PollIInv, Commit PROVE PollIInv'
<1>1. At("commit") /\ task' = Resting /\ UNCHANGED <<cfg, engine, rings, ages, form, asked, seen>>
  BY DEF Commit
<1>2. /\ PollShape /\ CountInv /\ task \in Tasks /\ On(Sweeps) /\ ~task.old /\ SourceOf(task.cfg) \in Inventory
      /\ ~task.beside /\ (Current => ~Bumped) /\ task.cfg.src = SourceOf(task.cfg)
      /\ carried \in [sat: Carry, rps: Carry]
  BY <1>1, SweepPlaces DEF Sweeps, Stores, PollShape
<1>3. CASE ~Current
  <2>1. carried' = carried /\ cache' = cache BY <1>3 DEF Commit, CommitAdmitted, Current
  <2> QED BY <1>1, <1>2, <2>1, RestsPoll
<1>4. CASE Current
  <2> DEFINE src == SourceOf(task.cfg)
             id == [task.pending EXCEPT !.rev = (cache.id.rev + 1) % Revisions]
             old == {task.sat.src, task.rps.src} \ {NoSource}
             mine == [src |-> src, gen |-> task.gen]
  <2>1. PICK ok \in BOOLEAN, sat \in BOOLEAN :
          /\ cache' = [id |-> id, rows |-> IF ok THEN {src} ELSE {}, sat |-> old, recent |-> cache.recent \/ ok]
          /\ carried' = [carried EXCEPT !.sat = IF sat THEN mine ELSE NoneCarried]
    BY <1>4 DEF Commit, CommitAdmitted, Current
  <2>2. id \in Identities /\ id.src[2] = src
    <3>1. task.pending \in Identities /\ task.pending.src = <<task.cfg.profile, task.cfg.src>>
      <4>1. On({"ages", "commit"}) BY <1>1, <1>2, AtPlaces
      <4> QED BY <4>1 DEF PollIInv, TaskInv, PollShape, Tasks
    <3>2. PICK n \in 0..Revisions - 1 : n = (cache.id.rev + 1) % Revisions BY <1>2, NextRevision
    <3>3. id = [task.pending EXCEPT !.rev = n] BY <3>2
    <3> HIDE DEF id
    <3>4. id \in Identities /\ id.src = task.pending.src BY <3>1, <3>3 DEF Identities
    <3> QED BY <1>2, <3>1, <3>4
  <2>3. old \subseteq Sources /\ mine \in Carry /\ cache.recent \in BOOLEAN
    BY <1>2, InSources DEF PollShape, Tasks, Carry, Caches
  <2>4. src \in Used /\ Live \subseteq Used /\ old \cup {src} \subseteq Swept /\ Swept \subseteq Live
    <3>1. old \cup {src} = Swept BY <1>2, <1>4 DEF Swept, Doomed
    <3> QED BY <3>1 DEF PollIInv, ScopeInv, Live
  <2>5. old \subseteq {src} BY <2>4 DEF Used
  <2> HIDE DEF id, old, mine, src
  <2>6. /\ cache' \in Caches /\ cache'.id = id /\ cache'.rows \subseteq {src} /\ cache'.sat = old
        /\ src \in Inventory
    <3>1. src \in Inventory BY <1>2 DEF src
    <3>2. PICK R \in SUBSET Inventory : R = (IF ok THEN {src} ELSE {}) /\ R \subseteq {src} BY <3>1
    <3>3. PICK b \in BOOLEAN : b = (cache.recent \/ ok) BY <2>3
    <3>4. cache' = [id |-> id, rows |-> R, sat |-> old, recent |-> b] BY <2>1, <3>2, <3>3
    <3> QED BY <2>2, <2>3, <3>1, <3>2, <3>4 DEF Caches
  <2>7. /\ carried' \in [sat: Carry, rps: Carry] /\ carried'.rps = carried.rps
        /\ carried'.sat \in {mine, NoneCarried}
    BY <1>2, <2>1, <2>3, NothingIn
  <2>8. task'.todo = <<>> /\ ~task'.old /\ task'.gen = 0 BY <1>1 DEF Resting
  <2>9. mine.gen = engine.gen /\ mine.src = src BY <1>4 DEF mine, Current
  <2>10. PollShape'
    <3>1. carried'.sat.gen <= engine.gen BY <1>2, <2>7, <2>9, PlacesNow DEF NoneCarried
    <3> QED BY <1>1, <1>2, <2>6, <2>7, <2>8, <3>1, NothingIn, PlacesNow DEF PollShape
  <2>11. ~On(Busy)' /\ ~On({"expect"} \cup Decides \cup Settles)' /\ ~On(Sweeps)' BY <2>8 DEF On
  <2>12. CountInv' BY <1>1, <1>2, <2>8, <2>11, CountIdle
  <2>13. FormInv'
    <3>1. ~Calling({"ages"}) BY <1>2, <1>4 DEF Bumped, Calling
    <3> QED BY <1>1, <3>1, FormFrame DEF PollIInv
  <2>14. ScopeInv'
    <3>1. Shown' \subseteq {src} BY <2>2, <2>5, <2>6 DEF Shown
    <3>2. Kept(carried.sat)' \subseteq {src} BY <1>1, <2>7, <2>9 DEF Kept, NoneCarried
    <3>3. Kept(carried.rps)' = Kept(carried.rps) BY <1>1, <2>7 DEF Kept
    <3>4. Aged' = Aged /\ Swept' = {} BY <1>1, <2>11, SameAged, NotSwept
    <3>5. Live' \subseteq Used BY <2>4, <3>1, <3>2, <3>3, <3>4 DEF Live
    <3>6. Used' = Used BY <1>1 DEF Used, Saved, Calling
    <3> QED BY <2>2, <2>5, <2>6, <3>5, <3>6 DEF ScopeInv
  <2> QED BY <2>10, <2>11, <2>12, <2>13, <2>14, TaskFree DEF PollIInv
<1> QED BY <1>3, <1>4

(* What a cycle has committed ages.                                         *)
LEMMA AgesPoll == ASSUME PollIInv, Ages PROVE PollIInv'
<1>1. cache' = [cache EXCEPT !.recent = FALSE]
      /\ UNCHANGED <<cfg, engine, carried, rings, ages, task, form, asked, seen>>
  BY DEF Ages
<1>2. PollShape BY DEF PollIInv
<1>3. cache' \in Caches /\ ~cache'.recent /\ cache'.id = cache.id /\ cache'.rows = cache.rows
      /\ cache'.sat = cache.sat
  BY <1>1, <1>2 DEF PollShape, Caches
<1>4. PollShape' BY <1>1, <1>2, <1>3 DEF PollShape
<1>5. Current' = Current /\ Saved' = Saved /\ Bumped' = Bumped /\ Doomed' = Doomed /\ Unchanged' = Unchanged
      /\ Used' = Used
  BY <1>1 DEF Current, Saved, Bumped, Calling, Doomed, Unchanged, Used
<1>6. Live' \subseteq Live
  <2>1. Shown' \subseteq Shown BY <1>3 DEF Shown
  <2>2. Kept(carried.sat)' = Kept(carried.sat) /\ Kept(carried.rps)' = Kept(carried.rps) BY <1>1 DEF Kept
  <2>3. Aged' = Aged BY <1>1, SameAged
  <2>4. Swept' = Swept BY <1>1, <1>5 DEF Swept, On, SourceOf
  <2> QED BY <2>1, <2>2, <2>3, <2>4 DEF Live
<1>7. FormInv' BY <1>1, <1>3, FormFrame DEF PollIInv
<1>8. ScopeInv' BY <1>3, <1>5, <1>6 DEF PollIInv, ScopeInv
<1>9. TaskInv' BY <1>1, <1>5 DEF PollIInv, TaskInv, On, SourceOf
<1>10. DetectInv' BY <1>1, <1>5, <1>6 DEF PollIInv, DetectInv, On, Detected
<1>11. CountInv' BY <1>1, <1>5 DEF PollIInv, CountInv, On, Detected, Excused, Calling, Trailing, Blank, Earned
<1> QED BY <1>4, <1>7, <1>8, <1>9, <1>10, <1>11 DEF PollIInv

-----------------------------------------------------------------------------
(* The handlers *)

LEMMA AsksPoll == ASSUME PollIInv, Asks PROVE PollIInv'
<1>1. form.todo = <<>> /\ asked < MaxRequests /\ asked' = asked + 1
      /\ UNCHANGED <<cfg, engine, cache, carried, rings, ages, task, seen>>
  BY DEF Asks
<1>2. PollShape BY DEF PollIInv
<1>3. PICK t \in FormWork, p \in Profiles, l \in Wires :
        /\ form' = [todo |-> t, profile |-> p, link |-> l]
        /\ t # <<>> /\ Head(t) \in {"save", "forget", "other"}
        /\ p # "auto" <=> t[Len(t)] = "ringsOn"
  <2>1. ASSUME NEW c \in Choices,
               form' = [todo |-> <<"save", "ask", "bump", "ages", "rings">> \o
                            (IF c[1] = "auto" THEN <<>> ELSE <<"agesOn", "ringsOn">>),
                        profile |-> c[1], link |-> c[2]]
        PROVE  \E t \in FormWork, p \in Profiles, l \in Wires :
                 /\ form' = [todo |-> t, profile |-> p, link |-> l]
                 /\ t # <<>> /\ Head(t) \in {"save", "forget", "other"}
                 /\ p # "auto" <=> t[Len(t)] = "ringsOn"
    <3>1. c[1] \in Profiles /\ c[2] \in Wires BY PollAssumption DEF Profiles
    <3>2. CASE c[1] = "auto"
      <4> DEFINE t == <<"save", "ask", "bump", "ages", "rings">>
      <4>1. t \in FormWork /\ t # <<>> /\ Head(t) = "save" /\ t[Len(t)] # "ringsOn" BY DEF FormWork
      <4>2. t \o <<>> = t OBVIOUS
      <4> HIDE DEF t
      <4>3. form' = [todo |-> t, profile |-> c[1], link |-> c[2]] BY <2>1, <3>2, <4>2 DEF t
      <4> QED BY <3>1, <3>2, <4>1, <4>3
    <3>3. CASE c[1] # "auto"
      <4> DEFINE t == <<"save", "ask", "bump", "ages", "rings", "agesOn", "ringsOn">>
      <4>1. t \in FormWork /\ t # <<>> /\ Head(t) = "save" /\ t[Len(t)] = "ringsOn" BY DEF FormWork
      <4>2. <<"save", "ask", "bump", "ages", "rings">> \o <<"agesOn", "ringsOn">> = t
        <5> DEFINE u == <<"save", "ask", "bump", "ages", "rings">>
                   v == <<"agesOn", "ringsOn">>
                   S == {"save", "ask", "bump", "ages", "rings", "agesOn", "ringsOn"}
        <5>1. u \in Seq(S) /\ v \in Seq(S) /\ t \in Seq(S) OBVIOUS
        <5>2. Len(u) = 5 /\ Len(v) = 2 /\ Len(t) = 7 OBVIOUS
        <5>3. /\ t[1] = u[1] /\ t[2] = u[2] /\ t[3] = u[3] /\ t[4] = u[4] /\ t[5] = u[5]
              /\ t[6] = v[1] /\ t[7] = v[2]
          OBVIOUS
        <5> HIDE DEF t, u, v, S
        <5>0. /\ u \o v \in Seq(S) /\ Len(u \o v) = Len(u) + Len(v)
              /\ \A i \in 1..Len(u) + Len(v) : (u \o v)[i] = IF i <= Len(u) THEN u[i] ELSE v[i - Len(u)]
          BY <5>1, ConcatProperties, Zenon
        <5>4. u \o v \in Seq(S) /\ Len(u \o v) = 7 BY <5>0, <5>2
        <5>5. ASSUME NEW i \in 1..7 PROVE (u \o v)[i] = t[i]
          <6>1. (u \o v)[i] = IF i <= 5 THEN u[i] ELSE v[i - 5] BY <5>0, <5>2
          <6>2. i = 1 \/ i = 2 \/ i = 3 \/ i = 4 \/ i = 5 \/ i = 6 \/ i = 7 OBVIOUS
          <6> QED BY <5>3, <6>1, <6>2
        <5>6. u \o v = t BY <5>1, <5>2, <5>4, <5>5, SeqEqual
        <5> QED BY <5>6 DEF u, v
      <4> HIDE DEF t
      <4>3. form' = [todo |-> t, profile |-> c[1], link |-> c[2]] BY <2>1, <3>3, <4>2
      <4> QED BY <3>1, <3>3, <4>1, <4>3
    <3> QED BY <3>2, <3>3
  <2>2. ASSUME NEW t \in {<<"forget", "ask", "bump", "ages", "rings">>, <<"other">>},
               form' = [NoCall EXCEPT !.todo = t]
        PROVE  \E u \in FormWork, p \in Profiles, l \in Wires :
                 /\ form' = [todo |-> u, profile |-> p, link |-> l]
                 /\ u # <<>> /\ Head(u) \in {"save", "forget", "other"}
                 /\ p # "auto" <=> u[Len(u)] = "ringsOn"
    <3>1. t \in FormWork BY DEF FormWork
    <3>2. t # <<>> /\ Head(t) \in {"forget", "other"} /\ t[Len(t)] # "ringsOn"
      <4>1. CASE t = <<"other">> BY <4>1
      <4>2. CASE t = <<"forget", "ask", "bump", "ages", "rings">> BY <4>2
      <4> QED BY <4>1, <4>2
    <3>3. form' = [todo |-> t, profile |-> "auto", link |-> FirstWire] BY <2>2 DEF NoCall
    <3>4. "auto" \in Profiles /\ FirstWire \in Wires BY LimitsPoll DEF Profiles
    <3> QED BY <3>1, <3>2, <3>3, <3>4
  <2> QED BY <2>1, <2>2 DEF Asks
<1>4. form' \in Forms /\ form'.todo = t /\ form'.profile = p /\ form'.link = l BY <1>3 DEF Forms
<1>5. PollShape'
  <2>1. asked' \in 0..MaxRequests BY <1>1, <1>2, LimitsPoll DEF PollShape
  <2> QED BY <1>1, <1>2, <1>4, <2>1 DEF PollShape
<1>6. ~Saved /\ ~Bumped /\ ~Saved' /\ ~Bumped' /\ ~Calling({"ages"}) /\ ~Calling({"ages"})'
      /\ ~Calling({"bump"}) /\ ~Calling({"bump"})' /\ ~Calling({"ask"}) /\ ~Calling({"ask"})'
  BY <1>1, <1>3, <1>4 DEF Saved, Bumped, Calling
<1>7. Live' = Live
  <2>1. Shown' = Shown /\ Kept(carried.sat)' = Kept(carried.sat) /\ Kept(carried.rps)' = Kept(carried.rps)
    BY <1>1 DEF Shown, Kept
  <2>2. Aged' = Aged /\ Swept' = Swept BY <1>1, <1>6 DEF Aged, Swept, On, Current, Doomed, SourceOf
  <2> QED BY <2>1, <2>2 DEF Live
<1>8. FormInv' BY <1>1, <1>3, <1>4, <1>6 DEF PollIInv, FormInv, SourceOf
<1>9. ScopeInv' BY <1>1, <1>6, <1>7 DEF PollIInv, ScopeInv, Used
<1>10. TaskInv' BY <1>1, <1>6 DEF PollIInv, TaskInv, On, SourceOf, Current
<1>11. DetectInv' BY <1>1, <1>6, <1>7 DEF PollIInv, DetectInv, On, Detected, Current, Doomed, Unchanged
<1>12. CountInv'
  BY <1>1, <1>6 DEF PollIInv, CountInv, On, Detected, Excused, Trailing, Blank, Earned, Current, Doomed, Unchanged
<1> QED BY <1>5, <1>8, <1>9, <1>10, <1>11, <1>12 DEF PollIInv

(* What a call of the handler leaves to do, and what it does to the task.   *)
LEMMA CallPlaces ==
  ASSUME PollIInv, Called, NEW step, Calls(step)
  PROVE  /\ \A P : Calling(P) <=> step \in P
         /\ step \in {"save", "forget", "ask", "bump", "ages", "agesOn"} => Len(form.todo) > 1
         /\ step \in {"save", "forget"} => \A P : Calling(P)' <=> "ask" \in P
         /\ step = "ask" => \A P : Calling(P)' <=> "bump" \in P
         /\ step = "bump" => \A P : Calling(P)' <=> "ages" \in P
         /\ step = "ages" => \A P : Calling(P)' <=> "rings" \in P
         /\ step = "agesOn" => \A P : Calling(P)' <=> "ringsOn" \in P
         /\ step \in {"other", "ringsOn"} => Len(form.todo) = 1
         /\ step = "rings" => form.todo = <<"rings">> \/ (Len(form.todo) > 1 /\ \A P : Calling(P)' <=> "agesOn" \in P)
         /\ step = "ringsOn" => form.todo = <<"ringsOn">>
<1>1. form.todo \in FormWork /\ form.todo # <<>> /\ Head(form.todo) = step BY PlacesNow DEF PollIInv, Calls
<1>2. \A P : Calling(P) <=> step \in P BY <1>1 DEF Calling
<1>3. Len(form.todo) > 1 => form'.todo = Tail(form.todo) /\ form'.todo # <<>>
  <2>1. form \in Forms BY DEF PollIInv, PollShape
  <2>2. ASSUME Len(form.todo) > 1 PROVE form'.todo = Tail(form.todo) /\ form'.todo # <<>>
    <3>0. Len(form.todo) \in Nat BY <1>1, FormLengths
    <3>1. Len(form.todo) # 1 BY <2>2, <3>0, MoreThanOne, Zenon
    <3>2. form' = [form EXCEPT !.todo = Tail(@)] BY <3>1 DEF Called
    <3>3. form'.todo = Tail(form.todo) BY <2>1, <3>2 DEF Forms
    <3> QED BY <1>1, <2>2, <3>3, FormTails
  <2> QED BY <2>2
<1>4. ASSUME NEW next, Len(form.todo) > 1, Head(Tail(form.todo)) = next
      PROVE  \A P : Calling(P)' <=> next \in P
  BY <1>3, <1>4 DEF Calling
<1> QED BY <1>1, <1>2, <1>4, FormPlaces

LEMMA CalledFrame ==
  ASSUME PollIInv, Called
  PROVE  /\ PollShape /\ form' \in Forms /\ asked' = asked
         /\ Len(form.todo) = 1 => form' = NoCall /\ form'.todo = <<>> /\ \A P : ~Calling(P)'
         /\ Len(form.todo) > 1 => /\ form'.todo # <<>> /\ form'.profile = form.profile /\ form'.link = form.link
                                  /\ form'.todo[Len(form'.todo)] = form.todo[Len(form.todo)]
         /\ Len(form.todo) = 1 \/ Len(form.todo) > 1
         /\ task' \in Tasks /\ task'.todo = task.todo /\ task'.gen = task.gen /\ task'.cfg = task.cfg
         /\ task'.out = task.out /\ task'.sat = task.sat /\ task'.rps = task.rps /\ task'.pending = task.pending
         /\ task'.beside <=> (task.beside /\ Len(form.todo) > 1)
         /\ task'.old <=> (task.old \/ (Sweeping /\ Calling({"save", "forget"})))
         /\ \A P : On(P)' <=> On(P)
         /\ Sweeping <=> On(Decides)
<1>1. PollShape /\ form \in Forms /\ task \in Tasks /\ form.todo \in FormWork /\ form.todo # <<>> /\ asked' = asked
  BY PlacesNow DEF PollIInv, PollShape, Called
<1>2. Len(form.todo) = 1 \/ Len(form.todo) > 1 BY <1>1, FormPlaces
<1>3. ASSUME Len(form.todo) = 1
      PROVE  form' \in Forms /\ form' = NoCall /\ form'.todo = <<>> /\ \A P : ~Calling(P)'
  <2>1. form' = NoCall BY <1>3 DEF Called
  <2>2. form'.todo = <<>> BY <2>1 DEF NoCall
  <2>3. \A P : ~Calling(P)' BY <2>2 DEF Calling
  <2>4. form' \in Forms BY <2>1, NothingIn
  <2> QED BY <2>1, <2>2, <2>3, <2>4
<1>4. ASSUME Len(form.todo) > 1
      PROVE  /\ form' \in Forms
             /\ form'.todo # <<>> /\ form'.profile = form.profile /\ form'.link = form.link
             /\ form'.todo[Len(form'.todo)] = form.todo[Len(form.todo)]
  <2>0. Len(form.todo) \in Nat BY <1>1, FormLengths
  <2>1. Len(form.todo) # 1 BY <1>4, <2>0, MoreThanOne, Zenon
  <2>2. form' = [form EXCEPT !.todo = Tail(@)] BY <2>1 DEF Called
  <2>3. /\ Tail(form.todo) \in FormWork /\ Tail(form.todo) # <<>>
        /\ Tail(form.todo)[Len(Tail(form.todo))] = form.todo[Len(form.todo)]
    BY <1>1, <1>4, FormTails
  <2>4. form' \in Forms /\ form'.todo = Tail(form.todo) /\ form'.profile = form.profile /\ form'.link = form.link
    BY <1>1, <2>2, <2>3 DEF Forms
  <2> QED BY <2>3, <2>4
<1>5. /\ task' \in Tasks /\ task'.todo = task.todo /\ task'.gen = task.gen /\ task'.cfg = task.cfg
      /\ task'.out = task.out /\ task'.sat = task.sat /\ task'.rps = task.rps /\ task'.pending = task.pending
      /\ task'.beside <=> (task.beside /\ Len(form.todo) > 1)
      /\ task'.old <=> (task.old \/ (Sweeping /\ Head(form.todo) \in {"save", "forget"}))
  <2>1. PICK b \in BOOLEAN : b <=> (task.beside /\ Len(form.todo) > 1) OBVIOUS
  <2>2. PICK o \in BOOLEAN : o <=> (task.old \/ (Sweeping /\ Head(form.todo) \in {"save", "forget"})) OBVIOUS
  <2>3. task.beside \in BOOLEAN /\ task.old \in BOOLEAN BY <1>1 DEF Tasks
  <2>4. b = (task.beside /\ Len(form.todo) > 1)
        /\ o = (task.old \/ (Sweeping /\ Head(form.todo) \in {"save", "forget"}))
    BY <2>1, <2>2, <2>3
  <2>5. task' = [task EXCEPT !.beside = b, !.old = o] BY <2>4 DEF Called
  <2>6. task' \in Tasks BY <1>1, <2>5 DEF Tasks
  <2>7. (task'.beside <=> b) /\ (task'.old <=> o) BY <1>1, <2>5, <2>6 DEF Tasks
  <2> QED BY <1>1, <2>1, <2>2, <2>5, <2>6, <2>7 DEF Tasks
<1>6. \A P : On(P)' <=> On(P) BY <1>5 DEF On
<1>7. Sweeping <=> On(Decides) BY DEF Sweeping, At, On, Decides
<1>8. Calling({"save", "forget"}) <=> Head(form.todo) \in {"save", "forget"} BY <1>1 DEF Calling
<1> QED BY <1>1, <1>2, <1>3, <1>4, <1>5, <1>6, <1>7, <1>8

LEMMA SavesPoll == ASSUME PollIInv, Saves PROVE PollIInv'
<1>1. Called /\ UNCHANGED <<engine, cache, carried, rings, ages>> BY DEF Saves
<1>2. PICK step \in {"save", "forget", "other"} :
        /\ Calls(step)
        /\ step = "save" => /\ cfg' = [profile |-> form.profile, link |-> form.link, rev |-> cfg.rev + 1,
                                       src |-> IF form.profile = "auto" THEN NoSource
                                               ELSE <<form.profile, form.link>>]
                            /\ seen' = <<>>
        /\ step = "forget" => cfg' = [cfg EXCEPT !.profile = "auto", !.rev = @ + 1] /\ seen' = <<>>
        /\ step = "other" => cfg' = [cfg EXCEPT !.rev = @ + 1] /\ seen' = seen
  BY DEF Saves
<1>3. /\ PollShape /\ form' \in Forms /\ asked' = asked
      /\ task' \in Tasks /\ task'.todo = task.todo /\ task'.gen = task.gen /\ task'.cfg = task.cfg
      /\ task'.out = task.out /\ task'.sat = task.sat /\ task'.rps = task.rps /\ task'.pending = task.pending
      /\ task'.beside <=> (task.beside /\ Len(form.todo) > 1)
      /\ task'.old <=> (task.old \/ (On(Decides) /\ Calling({"save", "forget"})))
      /\ \A P : On(P)' <=> On(P)
  BY <1>1, CalledFrame
<1>4. cfg \in Configs /\ form \in Forms BY <1>3 DEF PollShape
<1>5. \A P : Calling(P) <=> step \in P BY <1>1, <1>2, CallPlaces
<1>6. ~Saved /\ ~Bumped /\ ~Doomed /\ ~Calling({"ask"}) /\ ~Calling({"bump"}) BY <1>5 DEF Saved, Bumped, Doomed
<1>7. step # "other" => /\ Saved' /\ ~Bumped' /\ Calling({"ask"})' /\ ~Calling({"bump"})' /\ ~Calling({"ages"})'
                        /\ (task'.beside <=> task.beside)
                        /\ form'.todo # <<>> /\ form'.profile = form.profile /\ form'.link = form.link
                        /\ form'.todo[Len(form'.todo)] = form.todo[Len(form.todo)]
  <2>1. step # "other" => (\A P : Calling(P)' <=> "ask" \in P) /\ Len(form.todo) > 1 BY <1>1, <1>2, CallPlaces
  <2>2. step # "other" => Saved' /\ ~Bumped' /\ Calling({"ask"})' /\ ~Calling({"bump"})' /\ ~Calling({"ages"})'
    BY <2>1 DEF Saved, Bumped
  <2> QED BY <1>1, <1>3, <2>1, <2>2, CalledFrame
<1>8. step = "other" => /\ form'.todo = <<>> /\ ~Saved' /\ ~Bumped' /\ ~Calling({"ask"})' /\ ~Calling({"bump"})'
                        /\ ~Calling({"ages"})'
  <2>1. step = "other" => (\A P : ~Calling(P)') /\ form'.todo = <<>> BY <1>1, <1>2, CalledFrame, CallPlaces
  <2> QED BY <2>1 DEF Saved, Bumped
<1>9. step # "other" => cfg'.profile = form.profile /\ (form.profile # "auto" => cfg'.link = form.link)
        /\ (form.profile # "auto" => cfg'.src = SourceOf(cfg'))
  <2>1. CASE step = "save" BY <1>2, <2>1 DEF SourceOf
  <2>2. CASE step = "forget"
    <3>1. cfg'.profile = "auto" BY <1>2, <1>4, <2>2 DEF Configs
    <3>2. form.todo # <<>> /\ Head(form.todo) = "forget" /\ form.todo \in FormWork
      BY <1>2, <1>3, <2>2, PlacesNow DEF Calls
    <3>3. form.todo[Len(form.todo)] # "ringsOn"
      <4> DEFINE t == <<"forget", "ask", "bump", "ages", "rings">>
      <4>1. form.todo = t BY <3>2 DEF FormWork
      <4>2. t[Len(t)] # "ringsOn" OBVIOUS
      <4> HIDE DEF t
      <4> QED BY <4>1, <4>2
    <3>4. form.profile = "auto" BY <3>2, <3>3 DEF PollIInv, FormInv
    <3> QED BY <3>1, <3>4
  <2> QED BY <2>1, <2>2
<1>10. cfg' \in Configs /\ cfg'.rev = cfg.rev + 1 /\ cfg.rev \in Nat
       /\ (step = "other" => cfg'.profile = cfg.profile /\ cfg'.src = cfg.src /\ cfg'.link = cfg.link)
  <2>1. PICK n \in Nat : n = cfg.rev + 1 BY <1>3, PlacesNow
  <2>2. CASE step = "save"
    <3>1. PICK s \in Sources : s = IF form.profile = "auto" THEN NoSource ELSE <<form.profile, form.link>>
      BY <1>4, NothingIn DEF Sources, Forms, Profiles
    <3>2. cfg' = [profile |-> form.profile, link |-> form.link, rev |-> n, src |-> s] BY <1>2, <2>1, <2>2, <3>1
    <3> QED BY <1>3, <1>4, <2>1, <2>2, <3>2, PlacesNow DEF Configs, Forms
  <2>3. CASE step = "forget"
    <3>1. cfg' = [cfg EXCEPT !.profile = "auto", !.rev = n] BY <1>2, <2>1, <2>3
    <3>2. cfg' \in Configs BY <1>4, <3>1 DEF Configs, Profiles
    <3> QED BY <1>3, <1>4, <2>1, <2>3, <3>1, <3>2, PlacesNow DEF Configs
  <2>4. CASE step = "other"
    <3>1. cfg' = [cfg EXCEPT !.rev = n] BY <1>2, <2>1, <2>4
    <3>2. cfg' \in Configs BY <1>4, <3>1 DEF Configs
    <3> QED BY <1>3, <1>4, <2>1, <2>4, <3>1, <3>2, PlacesNow DEF Configs
  <2> QED BY <2>2, <2>3, <2>4
<1>11. PollShape'
  <2>1. seen' \in Seq(Sweep) /\ Len(seen') <= Twice
    <3>1. CASE seen' = <<>> BY <3>1, LimitsPoll
    <3>2. CASE seen' = seen BY <1>3, <3>2 DEF PollShape
    <3> QED BY <1>2, <3>1, <3>2
  <2> QED BY <1>1, <1>3, <1>10, <2>1 DEF PollShape
<1>12. Live' \subseteq Live /\ Current' = Current
  <2>1. Shown' = Shown /\ Kept(carried.sat)' = Kept(carried.sat) /\ Kept(carried.rps)' = Kept(carried.rps)
    BY <1>1 DEF Shown, Kept
  <2>2. Aged' = Aged
    <3>1. ~Calling({"ages"}) /\ ~Calling({"ages"})' BY <1>5, <1>7, <1>8
    <3> QED BY <1>1, <3>1 DEF Aged
  <2>3. Current' = Current BY <1>1, <1>3 DEF Current
  <2>4. Swept' \subseteq Swept
    <3>1. SourceOf(task.cfg)' = SourceOf(task.cfg) BY <1>3 DEF SourceOf
    <3> QED BY <1>3, <1>6, <2>3, <3>1 DEF Swept
  <2> QED BY <2>1, <2>2, <2>3, <2>4 DEF Live
<1>13. FormInv'
  <2>1. CASE step # "other"
    <3>1. Saved' /\ ~Bumped' /\ ~Calling({"ages"})' BY <1>7, <2>1
    <3>2. cfg'.profile # "auto" => cfg'.src = SourceOf(cfg)' BY <1>9, <2>1 DEF SourceOf
    <3>3. form'.profile # "auto" <=> form'.todo[Len(form'.todo)] = "ringsOn"
      <4>1. form.todo # <<>> BY <1>2 DEF Calls
      <4> QED BY <1>7, <2>1, <4>1 DEF PollIInv, FormInv
    <3> QED BY <1>1, <1>7, <1>9, <2>1, <3>1, <3>2, <3>3 DEF PollIInv, FormInv
  <2>2. CASE step = "other"
    <3>1. SourceOf(cfg)' = SourceOf(cfg) BY <1>10, <2>2 DEF SourceOf
    <3> QED BY <1>1, <1>6, <1>8, <1>10, <2>2, <3>1 DEF PollIInv, FormInv
  <2> QED BY <2>1, <2>2
<1>14. ScopeInv'
  <2>1. CASE step # "other"
    <3>1. Used \subseteq Used' BY <1>1, <1>6, <1>7, <2>1 DEF PollIInv, FormInv, Used
    <3> QED BY <1>1, <1>12, <3>1 DEF PollIInv, ScopeInv
  <2>2. CASE step = "other"
    <3>1. Used' = Used BY <1>6, <1>8, <1>10, <2>2 DEF Used
    <3> QED BY <1>1, <1>12, <3>1 DEF PollIInv, ScopeInv
  <2> QED BY <2>1, <2>2
<1>15. TaskInv'
  <2>1. ~Bumped' BY <1>7, <1>8
  <2>2. SourceOf(task.cfg)' = SourceOf(task.cfg) BY <1>3 DEF SourceOf
  <2> QED BY <1>3, <2>1, <2>2 DEF PollIInv, TaskInv
<1>16. On(Decides \cup Settles) => ~Unchanged' /\ task.cfg.rev <= cfg'.rev /\ task.cfg \in Configs
  <2>1. On(Decides \cup Settles) => task.cfg \in Configs /\ task.cfg.rev <= cfg.rev BY DEF PollIInv, DetectInv
  <2>2. ASSUME NEW r \in Nat, r <= cfg.rev PROVE r # cfg'.rev /\ r <= cfg'.rev BY <1>10, <2>2
  <2>3. On(Decides \cup Settles) => task.cfg.rev \in Nat BY <2>1 DEF Configs
  <2> QED BY <1>3, <2>1, <2>2, <2>3 DEF Unchanged
<1>17. (On(Settles) => On(Decides \cup Settles)) /\ (On(Decides) => On(Decides \cup Settles))
       /\ (On(Settles \ {"link"}) => On(Settles)) /\ (On({"model"}) => On(Settles))
  BY DEF On, Settles
<1>18. DetectInv'
  <2>1. Saved' \/ (cfg'.profile = "auto" <=> cfg.profile = "auto") BY <1>7, <1>8, <1>10
  <2> QED BY <1>3, <1>6, <1>12, <1>16, <1>17, <2>1 DEF PollIInv, DetectInv
<1>19. CountInv'
  <2>1. ~Calling({"bump"})' /\ (step # "other" => Excused') /\ (step = "other" => Excused' = Excused)
    BY <1>1, <1>6, <1>7, <1>8 DEF Excused
  <2>2. ~Excused' => Trailing(seen', engine'.unmatched, Generic) /\ Trailing(seen', engine'.shaky, engine'.tracked)
    BY <1>1, <1>2, <2>1 DEF PollIInv, CountInv
  <2>3. task'.old => task.old \/ (On(Decides) /\ step # "other") BY <1>3, <1>5
  <2>4. On(Decides) => task.todo # <<"gap", "begin">>
    <3>1. CASE task.todo = <<"gap", "begin">>
      <4>1. Head(task.todo) = "gap" BY <3>1
      <4> QED BY <4>1 DEF On, Decides
    <3> QED BY <3>1
  <2>5. On(Decides) => On(Decides \cup Settles \cup {"gap"}) BY DEF On
  <2>6. step = "other" => ~Saved' /\ ~Saved BY <1>6, <1>8
  <2>7. step # "other" => Saved' BY <1>7
  <2>8. Blank' = Blank BY <1>1 DEF Blank
  <2> QED BY <1>1, <1>3, <1>12, <1>16, <1>17, <2>1, <2>2, <2>3, <2>4, <2>5, <2>6, <2>7, <2>8 DEF PollIInv, CountInv
<1> QED BY <1>11, <1>13, <1>14, <1>15, <1>18, <1>19 DEF PollIInv

LEMMA AskPoll ==
  ASSUME PollIInv, Called, Calls("ask"), engine' = [engine EXCEPT !.ask = TRUE],
         UNCHANGED <<cfg, cache, carried, rings, ages, seen>>
  PROVE  PollIInv'
<1>1. /\ PollShape /\ form' \in Forms /\ asked' = asked
      /\ task' \in Tasks /\ task'.todo = task.todo /\ task'.gen = task.gen /\ task'.cfg = task.cfg
      /\ task'.out = task.out /\ task'.sat = task.sat /\ task'.rps = task.rps /\ task'.pending = task.pending
      /\ task'.beside <=> (task.beside /\ Len(form.todo) > 1)
      /\ task'.old <=> (task.old \/ (On(Decides) /\ Calling({"save", "forget"})))
      /\ \A P : On(P)' <=> On(P)
  BY CalledFrame
<1>2. (\A P : Calling(P) <=> "ask" \in P) /\ (\A P : Calling(P)' <=> "bump" \in P) /\ Len(form.todo) > 1
  BY CallPlaces
<1>3. Saved /\ ~Bumped /\ Saved' /\ ~Bumped' /\ Calling({"bump"})' /\ ~Calling({"ages"}) /\ ~Calling({"ages"})'
      /\ ~Calling({"save", "forget"})
  BY <1>2 DEF Saved, Bumped
<1>4. /\ form'.todo # <<>> /\ form'.profile = form.profile /\ form'.link = form.link
      /\ form'.todo[Len(form'.todo)] = form.todo[Len(form.todo)]
      /\ (task'.beside <=> task.beside) /\ (task'.old <=> task.old) /\ form.todo # <<>>
  BY <1>1, <1>2, <1>3, CalledFrame DEF Called
<1>5. engine' \in Engines /\ engine'.gen = engine.gen /\ engine'.ask
  <2>1. engine \in Engines BY <1>1 DEF PollShape
  <2>2. engine' \in Engines BY <2>1 DEF Engines
  <2> QED BY <2>1, <2>2 DEF Engines
<1>6. PollShape' BY <1>1, <1>5 DEF PollShape
<1>7. Current' = Current /\ Doomed' = Doomed /\ Unchanged' = Unchanged /\ Used' = Used
  BY <1>1, <1>3, <1>4, <1>5 DEF Current, Doomed, Unchanged, Used
<1>8. Live' = Live
  <2>1. Shown' = Shown /\ Kept(carried.sat)' = Kept(carried.sat) /\ Kept(carried.rps)' = Kept(carried.rps)
    BY <1>5 DEF Shown, Kept
  <2>2. Aged' = Aged BY <1>3 DEF Aged
  <2>3. Swept' = Swept
    <3>1. SourceOf(task.cfg)' = SourceOf(task.cfg) BY <1>1 DEF SourceOf
    <3> QED BY <1>1, <1>7, <3>1 DEF Swept
  <2> QED BY <2>1, <2>2, <2>3 DEF Live
<1>9. FormInv' BY <1>3, <1>4 DEF PollIInv, FormInv, SourceOf
<1>10. ScopeInv' BY <1>7, <1>8 DEF PollIInv, ScopeInv
<1>11. TaskInv'
  <2>1. SourceOf(task.cfg)' = SourceOf(task.cfg) BY <1>1 DEF SourceOf
  <2> QED BY <1>1, <1>3, <1>4, <2>1 DEF PollIInv, TaskInv
<1>12. Detected' = Detected BY <1>1 DEF Detected
<1>13. DetectInv' BY <1>1, <1>3, <1>7, <1>8, <1>12 DEF PollIInv, DetectInv
<1>14. CountInv'
  <2>1. Excused' BY <1>5 DEF Excused
  <2>2. On(Decides) => On(Decides \cup Settles) BY DEF On
  <2>3. Earned(Detected[1])' = Earned(Detected[1]) BY <1>12 DEF Earned
  <2>4. On(Decides) /\ Current /\ ~Doomed /\ Unchanged => ~Saved BY <2>2 DEF PollIInv, DetectInv
  <2> QED BY <1>1, <1>3, <1>4, <1>5, <1>7, <2>1, <2>3, <2>4 DEF PollIInv, CountInv
<1> QED BY <1>6, <1>9, <1>10, <1>11, <1>13, <1>14 DEF PollIInv

LEMMA BlankCache ==
  ASSUME NEW i \in Identities
  PROVE  [id |-> i, rows |-> {}, sat |-> {}, recent |-> FALSE] \in Caches
BY DEF Caches

LEMMA BumpPoll ==
  ASSUME PollIInv, Called, Calls("bump"),
         ~\E s \in {"link", "agesOn", "ringsOn", "model"} : At(s),
         engine' = [engine EXCEPT !.gen = @ + 1],
         cache' = [EmptyCache EXCEPT !.id.rev = (cache.id.rev + 1) % Revisions],
         UNCHANGED <<cfg, carried, rings, ages, seen>>
  PROVE  PollIInv'
<1>1. /\ PollShape /\ form' \in Forms /\ asked' = asked
      /\ task' \in Tasks /\ task'.todo = task.todo /\ task'.gen = task.gen /\ task'.cfg = task.cfg
      /\ task'.out = task.out /\ task'.pending = task.pending
      /\ task'.beside <=> (task.beside /\ Len(form.todo) > 1)
      /\ task'.old <=> (task.old \/ (On(Decides) /\ Calling({"save", "forget"})))
      /\ \A P : On(P)' <=> On(P)
  BY CalledFrame
<1>2. (\A P : Calling(P) <=> "bump" \in P) /\ (\A P : Calling(P)' <=> "ages" \in P) /\ Len(form.todo) > 1
  BY CallPlaces
<1>3. Saved /\ ~Saved' /\ Bumped' /\ ~Calling({"bump"})' /\ Calling({"bump"}) /\ ~Calling({"ask"})
      /\ ~Calling({"ask"})' /\ Calling({"ages"})' /\ ~Calling({"save", "forget"})
  BY <1>2 DEF Saved, Bumped
<1>4. /\ form'.todo # <<>> /\ form'.profile = form.profile /\ form'.link = form.link
      /\ form'.todo[Len(form'.todo)] = form.todo[Len(form.todo)]
      /\ (task'.beside <=> task.beside) /\ (task'.old <=> task.old) /\ form.todo # <<>>
  BY <1>1, <1>2, <1>3, CalledFrame DEF Called
<1>5. /\ engine' \in Engines /\ engine'.gen = engine.gen + 1 /\ (engine'.ask <=> engine.ask)
      /\ engine'.unmatched = engine.unmatched /\ engine'.shaky = engine.shaky /\ engine'.tracked = engine.tracked
  <2>1. engine \in Engines BY <1>1 DEF PollShape
  <2>2. PICK n \in Nat : n = engine.gen + 1 BY <1>1, PlacesNow
  <2>3. engine' = [engine EXCEPT !.gen = n] BY <2>2
  <2>4. engine' \in Engines BY <2>1, <2>3 DEF Engines
  <2> QED BY <2>1, <2>2, <2>3, <2>4 DEF Engines
<1>6. cache' \in Caches /\ cache'.rows = {} /\ cache'.sat = {} /\ ~cache'.recent
  <2>1. PICK n \in 0..Revisions - 1 : n = (cache.id.rev + 1) % Revisions BY <1>1, NextRevision
  <2>2. cache' = [EmptyCache EXCEPT !.id.rev = n] BY <2>1
  <2>3. cache' = [EmptyCache EXCEPT !.id = [EmptyCache.id EXCEPT !.rev = n]] BY <2>2 DEF EmptyCache, NoIdentity
  <2>4. PICK i \in Identities : i = [EmptyCache.id EXCEPT !.rev = n]
    BY NothingIn DEF EmptyCache, Identities
  <2>5. cache' = [id |-> i, rows |-> {}, sat |-> {}, recent |-> FALSE] BY <2>3, <2>4 DEF EmptyCache
  <2>6. cache' \in Caches BY <2>4, <2>5, BlankCache, Zenon
  <2>7. cache'.rows = {} /\ cache'.sat = {} /\ cache'.recent = FALSE BY <2>5
  <2> QED BY <2>6, <2>7
<1>7. task.gen \in Nat /\ engine.gen \in Nat /\ task.gen <= engine.gen
      /\ carried.sat.gen \in Nat /\ carried.sat.gen <= engine.gen
      /\ carried.rps.gen \in Nat /\ carried.rps.gen <= engine.gen
  BY <1>1, PlacesNow DEF PollShape, Carry
<1>8. PollShape'
  <2>1. task'.gen <= engine'.gen /\ carried.sat.gen <= engine'.gen /\ carried.rps.gen <= engine'.gen
    BY <1>1, <1>5, <1>7
  <2> QED BY <1>1, <1>5, <1>6, <2>1 DEF PollShape
<1>9. ~Current' /\ carried.sat.gen # engine'.gen /\ carried.rps.gen # engine'.gen
  BY <1>1, <1>5, <1>7 DEF Current
<1>10. Live' = {}
  <2>1. Shown' = {} BY <1>6 DEF Shown
  <2>2. Kept(carried.sat)' = {} /\ Kept(carried.rps)' = {} BY <1>9 DEF Kept
  <2>3. Aged' = {} /\ Swept' = {} BY <1>3, <1>9 DEF Aged, Swept
  <2> QED BY <2>1, <2>2, <2>3 DEF Live
<1>11. FormInv' BY <1>3, <1>4, <1>6 DEF PollIInv, FormInv, SourceOf
<1>12. ScopeInv' BY <1>6, <1>10 DEF ScopeInv
<1>13. ~On(Settles) /\ ~On(Settles)'
  <2>1. ~On(Settles) BY DEF At, On, Settles
  <2> QED BY <1>1, <2>1
<1>14. TaskInv'
  <2>1. SourceOf(task.cfg)' = SourceOf(task.cfg) BY <1>1 DEF SourceOf
  <2> QED BY <1>1, <1>4, <1>9, <2>1 DEF PollIInv, TaskInv
<1>15. DetectInv'
  <2>1. ~On(Settles \ {"link"})' /\ ~On({"model"})' BY <1>13 DEF On, Settles
  <2> QED BY <1>1, <1>9, <1>13, <2>1 DEF PollIInv, DetectInv
<1>16. CountInv'
  <2>1. Excused' = Excused BY <1>3, <1>5 DEF Excused
  <2>2. Blank' = Blank BY <1>5 DEF Blank
  <2> QED BY <1>1, <1>3, <1>4, <1>5, <1>9, <1>13, <2>1, <2>2 DEF PollIInv, CountInv
<1> QED BY <1>8, <1>11, <1>12, <1>14, <1>15, <1>16 DEF PollIInv

LEMMA ReconfiguresPoll == ASSUME PollIInv, Reconfigures PROVE PollIInv'
BY AskPoll, BumpPoll DEF Reconfigures

LEMMA ResetsPoll == ASSUME PollIInv, Resets PROVE PollIInv'
<1>1. Called /\ UNCHANGED <<cfg, engine, cache, carried, seen>> BY DEF Resets
<1>2. PICK step \in {"ages", "rings", "agesOn", "ringsOn"} :
        /\ Calls(step)
        /\ step = "ages" => ages' = [ages EXCEPT !.reset = TRUE] /\ rings' = rings
        /\ step = "agesOn" => ages' = [ages EXCEPT !.reset = TRUE, !.model = form.profile] /\ rings' = rings
        /\ step = "rings" => rings' = [rings EXCEPT !.target = NoSource, !.reset = TRUE] /\ ages' = ages
        /\ step = "ringsOn" => rings' = [rings EXCEPT !.target = <<form.profile, form.link>>, !.reset = TRUE]
                               /\ ages' = ages
  BY DEF Resets, AgesReset, RingsReset, AgesResetOn, RingsResetOn
<1>3. /\ PollShape /\ form' \in Forms /\ asked' = asked
      /\ task' \in Tasks /\ task'.todo = task.todo /\ task'.gen = task.gen /\ task'.cfg = task.cfg
      /\ task'.out = task.out /\ task'.sat = task.sat /\ task'.rps = task.rps /\ task'.pending = task.pending
      /\ task'.beside <=> (task.beside /\ Len(form.todo) > 1)
      /\ task'.old <=> (task.old \/ (On(Decides) /\ Calling({"save", "forget"})))
      /\ \A P : On(P)' <=> On(P)
      /\ Len(form.todo) = 1 => form'.todo = <<>> /\ \A P : ~Calling(P)'
      /\ Len(form.todo) > 1 => /\ form'.todo # <<>> /\ form'.profile = form.profile /\ form'.link = form.link
                               /\ form'.todo[Len(form'.todo)] = form.todo[Len(form.todo)]
      /\ Len(form.todo) = 1 \/ Len(form.todo) > 1
  BY <1>1, CalledFrame
<1>4. \A P : Calling(P) <=> step \in P BY <1>1, <1>2, CallPlaces
<1>5. ~Saved /\ Bumped /\ ~Doomed /\ ~Calling({"ask"}) /\ ~Calling({"bump"}) /\ ~Calling({"save", "forget"})
      /\ form.todo # <<>>
  BY <1>2, <1>4 DEF Saved, Bumped, Doomed, Calls
<1>6. ~Saved' /\ ~Calling({"ask"})' /\ ~Calling({"bump"})' /\ ~Calling({"ages"})'
      /\ (Len(form.todo) > 1 => Bumped') /\ (Len(form.todo) = 1 => ~Bumped')
  <2>1. CASE Len(form.todo) = 1 BY <1>3, <2>1 DEF Saved, Bumped
  <2>2. CASE Len(form.todo) # 1
    <3>1. PICK n \in {"rings", "agesOn", "ringsOn"} : \A P : Calling(P)' <=> n \in P
      BY <1>1, <1>2, <2>2, <1>3, CallPlaces
    <3> QED BY <2>2, <3>1 DEF Saved, Bumped
  <2> QED BY <2>1, <2>2
<1>7. step = "ages" \/ step = "agesOn" => Len(form.todo) > 1 BY <1>1, <1>2, CallPlaces
<1>8. step = "rings" \/ step = "ringsOn" =>
        (Len(form.todo) = 1 => (form.profile # "auto" <=> step = "ringsOn"))
  <2>1. form.profile # "auto" <=> form.todo[Len(form.todo)] = "ringsOn" BY <1>5 DEF PollIInv, FormInv
  <2>2. CASE step = "rings" /\ Len(form.todo) = 1
    <3>1. form.todo = <<"rings">> BY <1>1, <1>2, <2>2, CallPlaces
    <3>2. form.todo[Len(form.todo)] = "rings" BY <3>1
    <3> QED BY <2>1, <2>2, <3>2
  <2>3. CASE step = "ringsOn"
    <3>1. form.todo = <<"ringsOn">> BY <1>1, <1>2, <2>3, CallPlaces
    <3>2. form.todo[Len(form.todo)] = "ringsOn" BY <3>1
    <3> QED BY <2>1, <2>3, <3>2
  <2> QED BY <2>2, <2>3
<1>9. step = "ringsOn" => Len(form.todo) = 1 BY <1>1, <1>2, CallPlaces
<1>10. ages' \in Tables /\ (ages' = ages \/ ages'.reset)
  <2>1. ages \in Tables /\ form.profile \in Profiles BY <1>3 DEF PollShape, Forms
  <2> QED BY <1>2, <2>1 DEF Tables
<1>11. /\ rings' \in RingSets /\ (rings' = rings \/ rings'.reset)
       /\ step = "ringsOn" => rings'.target = <<form.profile, form.link>>
  <2>1. rings \in RingSets BY <1>3 DEF PollShape
  <2>2. CASE step = "ringsOn"
    <3>1. form.profile # "auto" /\ form \in Forms BY <1>3, <1>8, <1>9, <2>2 DEF PollShape
    <3>2. PICK s \in Sources : s = <<form.profile, form.link>> BY <3>1 DEF Forms, Profiles, Sources
    <3>3. rings' = [rings EXCEPT !.target = s, !.reset = TRUE] BY <1>2, <2>2, <3>2
    <3> QED BY <2>1, <2>2, <3>2, <3>3 DEF RingSets
  <2>3. CASE step = "rings" BY <1>2, <2>1, <2>3, NothingIn DEF RingSets
  <2>4. CASE step \in {"ages", "agesOn"} BY <1>2, <2>1, <2>4
  <2> QED BY <2>2, <2>3, <2>4
<1>12. PollShape' BY <1>1, <1>3, <1>10, <1>11 DEF PollShape
<1>13. Current' = Current /\ ~Doomed' /\ Unchanged' = Unchanged /\ Used' = Used
  BY <1>1, <1>3, <1>5, <1>6 DEF Current, Doomed, Unchanged, Used
<1>14. Live' \subseteq Live
  <2>1. Shown' = Shown /\ Kept(carried.sat)' = Kept(carried.sat) /\ Kept(carried.rps)' = Kept(carried.rps)
    BY <1>1 DEF Shown, Kept
  <2>2. Aged' \subseteq Aged
    <3>1. CASE ages'.reset BY <3>1 DEF Aged
    <3>2. CASE ages' = ages /\ ~Calling({"ages"}) BY <3>2 DEF Aged
    <3>3. Calling({"ages"}) => step = "ages" BY <1>4
    <3>4. step = "ages" => ages'.reset
      <4>1. ages \in Tables BY <1>3 DEF PollShape
      <4> QED BY <1>2, <4>1 DEF Tables
    <3> QED BY <1>10, <3>1, <3>2, <3>3, <3>4
  <2>3. Swept' = Swept
    <3>1. SourceOf(task.cfg)' = SourceOf(task.cfg) BY <1>3 DEF SourceOf
    <3> QED BY <1>3, <1>5, <1>13, <3>1 DEF Swept
  <2> QED BY <2>1, <2>2, <2>3 DEF Live
<1>15. FormInv'
  <2>1. cfg.profile = form.profile /\ (form.profile # "auto" => cfg.link = form.link)
        /\ (cfg.profile # "auto" => cfg.src = SourceOf(cfg))
    BY <1>5 DEF PollIInv, FormInv
  <2>2. ~Bumped' => (cfg.profile # "auto" => rings'.target = cfg.src)
    <3>1. CASE Len(form.todo) = 1
      <4>1. step = "rings" \/ step = "ringsOn" BY <1>2, <1>3, <1>7, <3>1
      <4>2. CASE step = "ringsOn" BY <1>8, <1>11, <2>1, <3>1, <4>2 DEF SourceOf
      <4>3. CASE step = "rings" BY <1>8, <2>1, <3>1, <4>3
      <4> QED BY <4>1, <4>2, <4>3
    <3>2. CASE Len(form.todo) > 1 BY <1>6, <3>2
    <3> QED BY <1>3, <3>1, <3>2
  <2>3. ~rings'.reset => rings'.held \subseteq {rings'.target} BY <1>11 DEF PollIInv, FormInv
  <2>4. form'.todo # <<>> => (form'.profile # "auto" <=> form'.todo[Len(form'.todo)] = "ringsOn")
    BY <1>3, <1>5 DEF PollIInv, FormInv
  <2>5. Bumped' => cfg.profile = form'.profile /\ (form'.profile # "auto" => cfg.link = form'.link)
    BY <1>3, <1>6, <2>1
  <2>6. SourceOf(cfg)' = SourceOf(cfg) BY <1>1 DEF SourceOf
  <2> QED BY <1>1, <1>6, <2>1, <2>2, <2>3, <2>4, <2>5, <2>6 DEF FormInv
<1>16. ScopeInv' BY <1>1, <1>13, <1>14 DEF PollIInv, ScopeInv
<1>17. On(Decides \cup Settles \cup Sweeps) /\ Current => task.beside BY <1>5 DEF PollIInv, TaskInv
<1>18. ~On(Settles) /\ ~On(Settles \ {"link"}) /\ ~On({"model"})
  <2>1. On(Settles) => On(Decides \cup Settles \cup Sweeps) /\ On(Stores \cup Settles \cup {"decide"}) /\ Current
    BY DEF On, PollIInv, DetectInv
  <2>2. ~On(Settles) BY <1>17, <2>1 DEF PollIInv, TaskInv
  <2> QED BY <2>2 DEF On, Settles
<1>19. TaskInv'
  <2>1. SourceOf(task.cfg)' = SourceOf(task.cfg) BY <1>3 DEF SourceOf
  <2>2. Bumped' => (task'.beside <=> task.beside) BY <1>3, <1>6
  <2> QED BY <1>3, <1>13, <1>17, <2>1, <2>2 DEF PollIInv, TaskInv
<1>20. DetectInv' BY <1>1, <1>3, <1>5, <1>6, <1>13, <1>14, <1>18 DEF PollIInv, DetectInv
<1>21. CountInv'
  <2>1. Excused' = Excused BY <1>1, <1>5, <1>6 DEF Excused
  <2>2. Blank' = Blank BY <1>1 DEF Blank
  <2> QED BY <1>1, <1>3, <1>5, <1>6, <1>13, <1>18, <2>1, <2>2 DEF PollIInv, CountInv
<1> QED BY <1>12, <1>15, <1>16, <1>19, <1>20, <1>21 DEF PollIInv

-----------------------------------------------------------------------------
(* The theorems *)

LEMMA StillPoll == ASSUME PollIInv, UNCHANGED pollVars PROVE PollIInv'
<1>1. UNCHANGED <<cfg, engine, cache, carried, rings, ages, task, form, asked, seen>> BY DEF pollVars
<1>2. Live' = Live
  <2>1. Shown' = Shown /\ Kept(carried.sat)' = Kept(carried.sat) /\ Kept(carried.rps)' = Kept(carried.rps)
    BY <1>1 DEF Shown, Kept
  <2>2. Aged' = Aged BY <1>1, SameAged
  <2>3. Swept' = Swept BY <1>1 DEF Swept, On, Current, Doomed, Saved, Calling, SourceOf
  <2> QED BY <2>1, <2>2, <2>3 DEF Live
<1>3. PollShape' BY <1>1 DEF PollIInv, PollShape
<1>4. FormInv' BY <1>1, FormFrame DEF PollIInv
<1>5. ScopeInv' BY <1>1, <1>2, ScopeFrame DEF PollIInv
<1>6. TaskInv' BY <1>1 DEF PollIInv, TaskInv, On, Current, Bumped, Calling, SourceOf
<1>7. DetectInv'
  BY <1>1, <1>2 DEF PollIInv, DetectInv, On, Current, Doomed, Saved, Calling, Unchanged, Detected
<1>8. CountInv'
  BY <1>1 DEF PollIInv, CountInv, On, Current, Doomed, Saved, Calling, Unchanged, Detected, Excused, Blank,
              Trailing, Earned
<1> QED BY <1>3, <1>4, <1>5, <1>6, <1>7, <1>8 DEF PollIInv

LEMMA NextPoll == ASSUME PollIInv, [PollNext]_pollVars PROVE PollIInv'
<1>1. CASE UNCHANGED pollVars BY <1>1, StillPoll
<1>2. CASE PollNext
  <2>1. CASE StandsAside \/ Gap \/ Wake \/ Begin \/ Expect \/ Detect \/ Decide
    BY <2>1, BeginsPoll, GapPoll, BeginPoll, ExpectPoll, DetectPoll, DecidePoll
  <2>2. CASE SettleLink \/ ObserveSettled \/ SettleModel
    BY <2>2, SettleLinkPoll, ObservePoll, SettleModelPoll
  <2>3. CASE Capture \/ Copy \/ Read \/ Fails BY <2>3, BeginsPoll, CopyPoll, ReadPoll, FailsPoll
  <2>4. CASE RecordRings \/ Identify \/ RecordAges \/ Commit \/ Ages
    BY <2>4, RecordRingsPoll, IdentifyPoll, RecordAgesPoll, CommitPoll, AgesPoll
  <2>5. CASE Asks \/ Saves \/ Reconfigures \/ Resets BY <2>5, AsksPoll, SavesPoll, ReconfiguresPoll, ResetsPoll
  <2> QED BY <1>2, <2>1, <2>2, <2>3, <2>4, <2>5 DEF PollNext
<1> QED BY <1>1, <1>2

(* The inductive invariant: everything kept of the generation in force, in  *)
(* whichever store and by whichever cycle, is of one source.                *)
THEOREM PollInductive == PollSpec => []PollIInv
<1>1. PollInit => PollIInv BY InitPoll
<1>2. PollIInv /\ [PollNext]_pollVars => PollIInv' BY NextPoll
<1> QED BY <1>1, <1>2, PTL DEF PollSpec

LEMMA ScopeNow == PollIInv => SourceScoped
<1> SUFFICES ASSUME PollIInv PROVE SourceScoped OBVIOUS
<1>1. PollShape /\ FormInv /\ ScopeInv BY DEF PollIInv
<1>2. PollTypeOK
  <2>1. cfg.profile \in Catalogue \cup {"auto"} /\ cfg.link \in Wires
    BY <1>1 DEF PollShape, Configs, Profiles
  <2>2. engine.unmatched \in 0..Twice /\ engine.shaky \in 0..Twice BY <1>1 DEF PollShape, Engines
  <2>3. rings.held \cup ages.held \cup cache.rows \subseteq Catalogue \X Wires
    BY <1>1 DEF PollShape, RingSets, Tables, Caches, Inventory
  <2>4. cache.id.rev \in 0..Revisions - 1 BY <1>1 DEF PollShape, Caches, Identities
  <2>5. task.gen \in 0..engine.gen BY <1>1, PlacesNow DEF PollShape
  <2> QED BY <1>1, <2>1, <2>2, <2>3, <2>4, <2>5 DEF PollShape, PollTypeOK
<1>3. cache.rows \subseteq Used /\ (cache.recent => cache.id.src[2] \in Used) /\ Aged \subseteq Used
  BY <1>1 DEF ScopeInv, Live, Shown
<1>4. form.todo = <<>> => ~Saved /\ ~Bumped BY DEF Saved, Bumped, Calling
<1>5. form.todo = <<>> => cache.rows \subseteq {SourceOf(cfg)}
  BY <1>1, <1>3, <1>4 DEF Used, FormInv
<1>6. cache.recent /\ ~ages.reset /\ ages.shown = cache.id => ages.held \subseteq {cache.id.src[2]}
  <2>1. cache.recent /\ ~ages.reset => ages.held \subseteq Used BY <1>1, <1>3 DEF Aged, FormInv
  <2> QED BY <1>3, <2>1 DEF Used
<1> QED BY <1>1, <1>2, <1>4, <1>5, <1>6 DEF SourceScoped, FormInv, ScopeInv

(* Nobody reads one unit under the name of another, however a cycle is      *)
(* overtaken by a handler or by a detection of its own.                     *)
THEOREM ScopeKept == PollSpec => []SourceScoped
BY PollInductive, ScopeNow, PTL

LEMMA EarnedNow ==
  ASSUME PollIInv, [PollNext]_pollVars, At("model"), task'.todo # task.todo, cfg'.profile # cfg.profile
  PROVE  Earned(cfg'.profile)
<1>1. PollNext BY DEF pollVars
<1>2. CASE SettleModel BY <1>2, SettleModelPoll
<1>3. ~Saves
  <2>1. Saves => Called BY DEF Saves
  <2> QED BY <2>1, CalledFrame
<1>4. ~SettleLink BY DEF SettleLink, At
<1>5. CASE StandsAside \/ Gap \/ Wake \/ Begin \/ Expect
  BY <1>5 DEF StandsAside, Gap, Wake, Begin, Expect
<1>6. CASE Detect \/ Decide \/ ObserveSettled BY <1>6 DEF Detect, Decide, ObserveSettled
<1>7. CASE Capture \/ Copy \/ Read \/ Fails BY <1>7 DEF Capture, Copy, Read, Fails
<1>8. CASE RecordRings \/ Identify \/ RecordAges \/ Commit
  BY <1>8 DEF RecordRings, Identify, RecordAges, Commit
<1>9. CASE Ages \/ Asks \/ Reconfigures \/ Resets BY <1>9 DEF Ages, Asks, Reconfigures, Resets
<1> QED BY <1>1, <1>2, <1>3, <1>4, <1>5, <1>6, <1>7, <1>8, <1>9 DEF PollNext

(* A detection settles on what its last sweeps have named.                  *)
THEOREM ModelIsEarned == PollSpec => ModelEarned
<1>1. PollIInv /\ [PollNext]_pollVars =>
        [At("model") /\ task'.todo # task.todo /\ cfg'.profile # cfg.profile => Earned(cfg'.profile)]_pollVars
  BY EarnedNow
<1> QED BY <1>1, PollInductive, PTL DEF PollSpec, ModelEarned

-----------------------------------------------------------------------------
(* The inductive invariant of Probe *)

Requests == [ticket : 0..Tickets, reg : Registers \cup {"none"}]
Replies  == [status : {"none", "Ok", "ShortReply", "NoReply", "NoLink", "Timeout", "torn"},
             reg : Registers \cup {"none"}]

ProbeShape ==
  /\ caller \in [Callers -> [pc : {"away", "arm", "wait", "copy"}, mine : Requests, got : Replies]]
  /\ gate \in Callers \cup {"free"} /\ signal \in BOOLEAN
  /\ pending \in Requests /\ reply \in Replies
  /\ drawn \in 0..Tickets /\ stamp \in 0..Tickets
  /\ service \in [pc : {"idle", "query", "write", "stamp", "clear", "give"},
                  req : Requests, answer : Replies]
  /\ probes \in 0..MaxProbes

GateInv == \A c \in Callers : caller[c].pc # "away" <=> gate = c

(* A reply about the register asked, or about the missing link.             *)
Fits(answer, req) ==
  /\ answer.status \in {"Ok", "ShortReply", "NoReply", "NoLink"}
  /\ answer.status # "NoLink" => answer.reg = req.reg

(* A ticket drawn since the poll task last began to serve, or the one drawn *)
(* just before: fewer than there are, so the next one is none of them.      *)
Recent(t) ==
  /\ t \in 1..Tickets
  /\ IF t <= drawn THEN drawn - t <= probes ELSE drawn + Tickets - t <= probes

ServiceInv ==
  /\ service.pc # "idle" => Recent(service.req.ticket) /\ Fits(service.answer, service.req)
  /\ service.pc \in {"stamp", "clear", "give"} => reply = service.answer
  /\ service.pc \in {"clear", "give"} => stamp = service.req.ticket
  /\ service.pc = "give" => pending # service.req

(* The reply is the caller's: what was armed is being taken down, or is.    *)
Answered(c) ==
  /\ stamp = caller[c].mine.ticket
  /\ Fits(reply, caller[c].mine)
  /\ \/ service.pc = "clear" /\ service.req = caller[c].mine /\ pending = caller[c].mine
     \/ service.pc \in {"give", "idle"} /\ pending = NoRequest

(* Nothing is armed but what the poll task is about to take down.           *)
Withdrawn ==
  pending = NoRequest \/ (service.pc = "clear" /\ pending = service.req)

HolderInv(c) ==
  /\ caller[c].mine.ticket = drawn /\ drawn # 0
  /\ service.pc # "idle" /\ service.req.ticket = drawn => service.req = caller[c].mine
  /\ caller[c].pc = "arm" =>
       /\ Withdrawn
       /\ service.pc # "idle" => service.req.ticket # drawn
       /\ signal => stamp # drawn
  /\ caller[c].pc = "wait" =>
       /\ pending = caller[c].mine \/ Answered(c)
       /\ signal /\ stamp = drawn => Answered(c)
  /\ caller[c].pc = "copy" => Answered(c)

GotInv ==
  \A c \in Callers : caller[c].got.status \notin {"none", "Timeout", "NoLink"} =>
                       Fits(caller[c].got, caller[c].mine)

IInv ==
  /\ ProbeShape /\ GateInv /\ ServiceInv /\ GotInv
  /\ \A c \in Callers : gate = c => HolderInv(c)
  /\ gate = "free" => Withdrawn

-----------------------------------------------------------------------------
LEMMA InitIInv == ProbeInit => IInv
<1> SUFFICES ASSUME ProbeInit PROVE IInv OBVIOUS
<1> USE ProbeAssumption DEF ProbeInit, Away, NoRequest, NoAnswer, NotServing
<1>1. ProbeShape BY DEF ProbeShape, Requests, Replies
<1>2. GateInv /\ ServiceInv /\ GotInv BY DEF GateInv, ServiceInv, GotInv
<1> QED BY <1>1, <1>2 DEF IInv, Withdrawn

(* The counter comes round to no ticket the poll task may still hold.       *)
LEMMA NextTicketNew ==
  ASSUME drawn \in 0..Tickets, probes \in 0..MaxProbes, drawn' = NextTicket
  PROVE  /\ drawn' \in 1..Tickets
         /\ \A t : Recent(t) /\ probes < MaxProbes /\ probes' = probes + 1
                     => t # drawn' /\ Recent(t)'
<1> USE ProbeAssumption DEF NextTicket
<1>1. drawn' \in 1..Tickets OBVIOUS
<1>2. ASSUME NEW t, Recent(t), probes < MaxProbes, probes' = probes + 1
      PROVE  t # drawn' /\ Recent(t)'
  <2>1. CASE drawn = Tickets BY <1>2, <2>1 DEF Recent
  <2>2. CASE drawn # Tickets BY <1>2, <2>2 DEF Recent
  <2> QED BY <2>1, <2>2
<1> QED BY <1>1, <1>2

LEMMA ShapeNext == IInv /\ ProbeNext => ProbeShape'
<1> SUFFICES ASSUME IInv, ProbeNext PROVE ProbeShape' OBVIOUS
<1> USE ProbeAssumption DEF IInv, ProbeShape
<1>0. NoRequest \in Requests /\ \A r \in Registers \cup {"none"} : Answers(r) \subseteq Replies
  BY DEF NoRequest, Requests, Answers, Replies
<1>1. ASSUME NEW c \in Callers, Take(c) PROVE ProbeShape'
  <2>1. drawn' \in 1..Tickets BY <1>1, NextTicketNew DEF Take
  <2>2. PICK r \in Registers : caller' = [caller EXCEPT ![c] =
          [pc |-> "arm", mine |-> [ticket |-> drawn', reg |-> r], got |-> NoAnswer]]
    BY <1>1 DEF Take
  <2>3. [pc |-> "arm", mine |-> [ticket |-> drawn', reg |-> r], got |-> NoAnswer]
          \in [pc : {"away", "arm", "wait", "copy"}, mine : Requests, got : Replies]
    BY <2>1 DEF NoAnswer, Requests, Replies
  <2>4. caller' \in [Callers -> [pc : {"away", "arm", "wait", "copy"}, mine : Requests, got : Replies]]
    BY <2>2, <2>3
  <2>5. probes' \in 0..MaxProbes
    <3>1. CASE service.pc = "idle" BY <1>1, <3>1 DEF Take
    <3>2. CASE service.pc # "idle" BY <1>1, <3>2 DEF Take
    <3> QED BY <3>1, <3>2
  <2>6. gate' = c /\ signal' = FALSE /\ UNCHANGED <<pending, reply, stamp, service>>
    BY <1>1 DEF Take
  <2>7. drawn' \in 0..Tickets BY <2>1
  <2> QED BY <2>4, <2>5, <2>6, <2>7, Zenon
<1>2. ASSUME NEW c \in Callers, Arm(c) PROVE ProbeShape' BY <1>2 DEF Arm
<1>3. ASSUME NEW c \in Callers, Woken(c) PROVE ProbeShape' BY <1>3 DEF Woken
<1>4. ASSUME NEW c \in Callers, TimesOut(c) PROVE ProbeShape'
  <2>1. TimedOut
          \in [pc : {"away", "arm", "wait", "copy"}, mine : Requests, got : Replies]
    BY DEF TimedOut, NoRequest, Requests, Replies
  <2>2. caller' \in [Callers -> [pc : {"away", "arm", "wait", "copy"}, mine : Requests, got : Replies]]
    BY <1>4, <2>1 DEF TimesOut
  <2> QED BY <1>0, <1>4, <2>2 DEF TimesOut
<1>5. ASSUME NEW c \in Callers, CopiesReply(c) PROVE ProbeShape' BY <1>5 DEF CopiesReply
<1>6. CASE Serve
  <2>1. PICK a \in Answers(pending.reg) : service' = [pc |-> "query", req |-> pending, answer |-> a]
    BY <1>6 DEF Serve
  <2>2. a \in Replies BY <1>0 DEF Requests
  <2> QED BY <1>6, <2>1, <2>2 DEF Serve
<1>7. CASE Throws
  <2>1. [status |-> "NoLink", reg |-> "none"] \in Replies /\ NoAnswer \in Replies
        /\ [status |-> "torn", reg |-> "none"] \in Replies
    BY DEF Replies, NoAnswer
  <2> QED BY <1>0, <1>7, <2>1 DEF Throws, NotServing
<1>8. CASE BeginWrite BY <1>8 DEF BeginWrite, Replies
<1>9. CASE EndWrite BY <1>9 DEF EndWrite
<1>10. CASE Stamps BY <1>10 DEF Stamps, Requests
<1>11. CASE Clears BY <1>0, <1>11 DEF Clears
<1>12. CASE Gives
  <2>1. NoAnswer \in Replies BY DEF NoAnswer, Replies
  <2> QED BY <1>0, <1>12, <2>1 DEF Gives, NotServing
<1> QED
  BY <1>1, <1>2, <1>3, <1>4, <1>5, <1>6, <1>7, <1>8, <1>9, <1>10, <1>11, <1>12 DEF ProbeNext

-----------------------------------------------------------------------------
(* The steps of the caller that holds the gate.  Everyone else is away.     *)

CallerStep(c) == Take(c) \/ Arm(c) \/ Woken(c) \/ TimesOut(c) \/ CopiesReply(c)
ServiceStep   == Serve \/ Throws \/ BeginWrite \/ EndWrite \/ Stamps \/ Clears \/ Gives

LEMMA TakeIInv == ASSUME IInv, NEW c \in Callers, Take(c) PROVE IInv'
<1> USE DEF IInv, ProbeShape
<1>1. ProbeShape' BY ShapeNext DEF ProbeNext
<1>2. PICK r \in Registers : caller' = [caller EXCEPT ![c] =
        [pc |-> "arm", mine |-> [ticket |-> drawn', reg |-> r], got |-> NoAnswer]]
  BY DEF Take
<1>3. /\ caller'[c].pc = "arm" /\ caller'[c].mine.ticket = drawn' /\ caller'[c].got = NoAnswer
      /\ \A d \in Callers \ {c} : caller'[d] = caller[d]
  BY <1>2
<1>4. gate = "free" /\ gate' = c /\ ~signal' /\ UNCHANGED <<pending, reply, stamp, service>>
  BY DEF Take
<1>5. GateInv'
  <2>1. \A d \in Callers : caller[d].pc = "away" BY <1>4, ProbeAssumption DEF GateInv
  <2>2. \A d \in Callers : caller'[d].pc # "away" <=> d = c BY <1>3, <2>1
  <2> QED BY <1>4, <2>2, Zenon DEF GateInv
<1>6. /\ drawn' \in 1..Tickets
      /\ service.pc # "idle" => Recent(service.req.ticket)' /\ service.req.ticket # drawn'
  <2>1. drawn' \in 1..Tickets BY NextTicketNew DEF Take
  <2>2. CASE service.pc # "idle"
    <3>1. probes < MaxProbes /\ probes' = probes + 1 /\ drawn' = NextTicket BY <2>2 DEF Take
    <3>2. Recent(service.req.ticket) BY <2>2 DEF ServiceInv
    <3>3. Recent(service.req.ticket)' BY <1>4, <3>1, <3>2, NextTicketNew
    <3> QED BY <2>1, <3>1, <3>2, <3>3, NextTicketNew
  <2> QED BY <2>1, <2>2
<1>7. ServiceInv' BY <1>4, <1>6 DEF ServiceInv, Fits
<1>8. GotInv' BY <1>3 DEF GotInv, Fits, NoAnswer
<1>9. HolderInv(c)'
  <2>1. Withdrawn' BY <1>4 DEF Withdrawn
  <2> QED BY <1>3, <1>4, <1>6, <2>1 DEF HolderInv
<1> QED BY <1>1, <1>4, <1>5, <1>7, <1>8, <1>9, ProbeAssumption

LEMMA HolderIInv ==
  ASSUME IInv, NEW c \in Callers, Arm(c) \/ Woken(c) \/ TimesOut(c) \/ CopiesReply(c)
  PROVE  IInv'
<1> USE DEF IInv, ProbeShape
<1>1. ProbeShape' BY ShapeNext DEF ProbeNext
<1>2. gate = c /\ HolderInv(c) BY DEF GateInv, Arm, Woken, TimesOut, CopiesReply
<1>3. UNCHANGED <<drawn, reply, stamp, service, probes>>
  BY DEF Arm, Woken, TimesOut, CopiesReply
<1>4. \A d \in Callers \ {c} : caller'[d] = caller[d]
  BY DEF Arm, Woken, TimesOut, CopiesReply
<1>5. CASE Arm(c)
  <2>1. /\ caller[c].pc = "arm" /\ caller'[c].pc = "wait" /\ caller'[c].mine = caller[c].mine
        /\ caller'[c].got = caller[c].got
        /\ pending' = caller[c].mine /\ gate' = gate /\ signal' = signal
    BY <1>5 DEF Arm
  <2>2. GateInv' BY <1>2, <1>4, <2>1 DEF GateInv
  <2>3. ServiceInv' BY <1>2, <1>3, <2>1 DEF ServiceInv, HolderInv, Fits, Recent
  <2>4. GotInv' BY <1>4, <2>1 DEF GotInv, Fits
  <2>5. HolderInv(c)' BY <1>2, <1>3, <2>1 DEF HolderInv
  <2> QED BY <1>1, <1>2, <2>1, <2>2, <2>3, <2>4, <2>5, ProbeAssumption
<1>6. CASE Woken(c)
  <2>1. /\ caller[c].pc = "wait" /\ signal /\ ~signal' /\ gate' = gate /\ pending' = pending
        /\ caller'[c].mine = caller[c].mine /\ caller'[c].got = caller[c].got
        /\ caller'[c].pc = IF stamp = caller[c].mine.ticket THEN "copy" ELSE "wait"
    BY <1>6 DEF Woken, MatchesReply
  <2>2. GateInv' BY <1>2, <1>4, <2>1 DEF GateInv
  <2>3. ServiceInv' BY <1>2, <1>3, <2>1 DEF ServiceInv, Fits, Recent
  <2>4. GotInv' BY <1>4, <2>1 DEF GotInv, Fits
  <2>5. Answered(c) => Answered(c)' BY <1>3, <2>1 DEF Answered, Fits
  <2>6. HolderInv(c)' BY <1>2, <1>3, <2>1, <2>5 DEF HolderInv
  <2> QED BY <1>1, <1>2, <2>1, <2>2, <2>3, <2>4, <2>6, ProbeAssumption
<1>7. CASE TimesOut(c)
  <2>1. /\ caller[c].pc = "wait" /\ caller'[c] = TimedOut /\ gate' = "free" /\ signal' = signal
        /\ pending' = IF pending = caller[c].mine THEN NoRequest ELSE pending
    BY <1>7 DEF TimesOut
  <2>2. GateInv' BY <1>2, <1>4, <2>1, ProbeAssumption DEF GateInv, TimedOut
  <2>3. Withdrawn' BY <1>2, <1>3, <2>1 DEF Withdrawn, HolderInv, Answered
  <2>4. ServiceInv'
    <3>1. service.pc = "give" => pending' # service.req
      BY <2>1 DEF ServiceInv, NoRequest, Recent
    <3> QED BY <1>3, <3>1 DEF ServiceInv, Fits, Recent
  <2>5. GotInv' BY <1>4, <2>1 DEF GotInv, Fits, TimedOut
  <2> QED BY <1>1, <2>1, <2>2, <2>3, <2>4, <2>5, ProbeAssumption
<1>8. CASE CopiesReply(c)
  <2>1. /\ caller[c].pc = "copy" /\ caller'[c].pc = "away" /\ caller'[c].got = reply
        /\ caller'[c].mine = caller[c].mine
        /\ gate' = "free" /\ signal' = signal /\ pending' = pending
    BY <1>8 DEF CopiesReply
  <2>2. GateInv' BY <1>2, <1>4, <2>1, ProbeAssumption DEF GateInv
  <2>3. Withdrawn' BY <1>2, <1>3, <2>1 DEF Withdrawn, HolderInv, Answered
  <2>4. ServiceInv' BY <1>3, <2>1 DEF ServiceInv, Fits, Recent
  <2>5. GotInv' BY <1>2, <1>4, <2>1 DEF GotInv, HolderInv, Answered, Fits
  <2> QED BY <1>1, <2>1, <2>2, <2>3, <2>4, <2>5, ProbeAssumption
<1> QED BY <1>5, <1>6, <1>7, <1>8

-----------------------------------------------------------------------------
(* The steps of the poll task; no caller moves.                             *)

LEMMA ServiceIInv == ASSUME IInv, ServiceStep PROVE IInv'
<1> USE DEF IInv, ProbeShape
<1>1. ProbeShape' BY ShapeNext DEF ProbeNext, ServiceStep
<1>2. UNCHANGED <<caller, gate, drawn>>
  BY DEF ServiceStep, Serve, Throws, BeginWrite, EndWrite, Stamps, Clears, Gives
<1>3. GateInv' /\ GotInv' BY <1>2 DEF GateInv, GotInv, Fits
<1>4. CASE Serve
  <2>1. /\ service.pc = "idle" /\ pending # NoRequest
        /\ service'.pc = "query" /\ service'.req = pending /\ Fits(service'.answer, pending)
        /\ probes' = 0 /\ UNCHANGED <<signal, pending, reply, stamp>>
    BY <1>4 DEF Serve, Answers, Fits
  <2>2. gate \in Callers /\ HolderInv(gate) BY <2>1 DEF Withdrawn
  <2>3. caller[gate].pc = "wait" /\ pending = caller[gate].mine
    BY <2>1, <2>2, ProbeAssumption DEF GateInv, HolderInv, Withdrawn, Answered
  <2>4. pending.ticket = drawn /\ drawn # 0 BY <2>2, <2>3 DEF HolderInv
  <2>5. ServiceInv' BY <1>2, <2>1, <2>4, ProbeAssumption DEF ServiceInv, Recent, Fits
  <2>6. ~Answered(gate) BY <2>1 DEF Answered
  <2>7. HolderInv(gate)' BY <1>2, <2>1, <2>2, <2>3, <2>6 DEF HolderInv
  <2> QED BY <1>1, <1>2, <1>3, <2>2, <2>5, <2>7, ProbeAssumption
<1>5. CASE Throws \/ BeginWrite \/ EndWrite
  <2>1. /\ service.pc \in {"query", "write"} /\ service'.pc \in {"idle", "write", "stamp"}
        /\ UNCHANGED <<signal, pending, stamp, probes>>
    BY <1>5 DEF Throws, BeginWrite, EndWrite, NotServing
  <2>2. \A c \in Callers : ~Answered(c) BY <2>1 DEF Answered
  <2>3. Withdrawn => Withdrawn' BY <2>1 DEF Withdrawn
  <2>4. service'.pc # "idle" =>
          /\ service'.req = service.req \/ (service'.req = pending /\ pending # NoRequest)
          /\ Fits(service'.answer, service'.req)
          /\ service'.pc = "stamp" => reply' = service'.answer
    <3>1. CASE Throws BY <1>5, <3>1 DEF Throws, NotServing, Fits
    <3>2. CASE BeginWrite BY <3>2 DEF BeginWrite, ServiceInv, Fits
    <3>3. CASE EndWrite BY <3>3 DEF EndWrite, ServiceInv, Fits
    <3> QED BY <1>5, <3>1, <3>2, <3>3
  <2>5. pending # NoRequest =>
          gate \in Callers /\ caller[gate].pc = "wait" /\ pending = caller[gate].mine
            /\ pending.ticket = drawn /\ drawn # 0
    BY <2>1, <2>2, ProbeAssumption DEF GateInv, HolderInv, Withdrawn
  <2>6. service'.pc # "idle" => Recent(service.req.ticket)'
    <3>1. CASE service'.req = service.req BY <1>2, <2>1, <3>1 DEF Recent, ServiceInv
    <3>2. CASE service'.req = pending /\ pending # NoRequest
      BY <1>1, <1>2, <2>1, <2>5, <3>2, ProbeAssumption DEF Recent
    <3> QED BY <2>4, <3>1, <3>2
  <2>7. ServiceInv'
    <3>1. service'.pc # "idle" => Fits(service.answer, service.req)' BY <2>4 DEF Fits
    <3> QED BY <2>1, <2>4, <2>6, <3>1 DEF ServiceInv
  <2>8. ASSUME NEW c \in Callers, gate = c PROVE HolderInv(c)'
    BY <1>2, <2>1, <2>2, <2>3, <2>4, <2>5, <2>8 DEF HolderInv, Answered
  <2> QED BY <1>1, <1>2, <1>3, <2>3, <2>7, <2>8
<1>6. CASE Stamps
  <2>1. /\ service.pc = "stamp" /\ service' = [service EXCEPT !.pc = "clear"]
        /\ stamp' = service.req.ticket /\ UNCHANGED <<signal, pending, reply, probes>>
    BY <1>6 DEF Stamps
  <2>2. ServiceInv' BY <1>2, <2>1 DEF ServiceInv, Fits, Recent
  <2>3. Withdrawn => Withdrawn' BY <2>1 DEF Withdrawn
  <2>4. ASSUME NEW c \in Callers, gate = c PROVE HolderInv(c)'
    <3>1. HolderInv(c) /\ ~Answered(c) BY <2>1, <2>4 DEF Answered
    <3>2. Fits(service.answer, service.req) /\ reply = service.answer BY <2>1 DEF ServiceInv
    <3>3. caller[c].pc = "wait" /\ stamp' = drawn => Answered(c)'
      BY <1>2, <2>1, <3>1, <3>2 DEF Answered, HolderInv, Fits
    <3> QED BY <1>2, <2>1, <2>3, <3>1, <3>3 DEF HolderInv
  <2> QED BY <1>1, <1>2, <1>3, <2>2, <2>3, <2>4
<1>7. CASE Clears
  <2>1. /\ service.pc = "clear" /\ service' = [service EXCEPT !.pc = "give"]
        /\ pending' = IF pending = service.req THEN NoRequest ELSE pending
        /\ UNCHANGED <<signal, stamp, reply, probes>>
    BY <1>7 DEF Clears
  <2>2. ServiceInv' BY <1>2, <2>1 DEF ServiceInv, Fits, Recent, NoRequest
  <2>3. Withdrawn => Withdrawn' BY <2>1 DEF Withdrawn
  <2>4. ASSUME NEW c \in Callers, gate = c PROVE HolderInv(c)'
    <3>1. HolderInv(c) BY <2>4
    <3>2. Answered(c) => Answered(c)' BY <1>2, <2>1 DEF Answered, Fits
    <3>3. caller[c].pc = "wait" /\ pending = caller[c].mine =>
            pending' = caller[c].mine \/ Answered(c)'
      BY <1>2, <2>1, <3>1 DEF Answered, HolderInv, ServiceInv, Fits
    <3> QED BY <1>2, <2>1, <2>3, <3>1, <3>2, <3>3 DEF HolderInv
  <2> QED BY <1>1, <1>2, <1>3, <2>2, <2>3, <2>4
<1>8. CASE Gives
  <2>1. /\ service.pc = "give" /\ service' = NotServing /\ signal'
        /\ UNCHANGED <<pending, reply, stamp, probes>>
    BY <1>8 DEF Gives
  <2>2. ServiceInv' BY <2>1 DEF ServiceInv, NotServing
  <2>3. Withdrawn => Withdrawn' BY <2>1 DEF Withdrawn
  <2>4. ASSUME NEW c \in Callers, gate = c PROVE HolderInv(c)'
    <3>1. HolderInv(c) BY <2>4
    <3>2. Answered(c) => Answered(c)' BY <1>2, <2>1 DEF Answered, Fits, NotServing
    <3>3. stamp = service.req.ticket /\ pending # service.req BY <2>1 DEF ServiceInv
    <3>4. caller[c].pc = "wait" /\ stamp = drawn => Answered(c)
      BY <2>1, <3>1, <3>3 DEF HolderInv
    <3> QED BY <1>2, <2>1, <2>3, <3>1, <3>2, <3>3, <3>4 DEF HolderInv, NotServing
  <2> QED BY <1>1, <1>2, <1>3, <2>2, <2>3, <2>4
<1> QED BY <1>4, <1>5, <1>6, <1>7, <1>8 DEF ServiceStep

-----------------------------------------------------------------------------
LEMMA NextIInv == IInv /\ [ProbeNext]_probeVars => IInv'
<1> SUFFICES ASSUME IInv, [ProbeNext]_probeVars PROVE IInv' OBVIOUS
<1>1. ASSUME NEW c \in Callers, CallerStep(c) PROVE IInv'
  BY <1>1, TakeIInv, HolderIInv, Zenon DEF CallerStep
<1>2. CASE ServiceStep BY <1>2, ServiceIInv
<1>3. CASE UNCHANGED probeVars
  BY <1>3 DEF probeVars, IInv, ProbeShape, GateInv, ServiceInv, GotInv, HolderInv, Answered, Fits,
              Recent, Withdrawn
<1> QED BY <1>1, <1>2, <1>3, Zenon DEF ProbeNext, CallerStep, ServiceStep

(* The handshake's inductive invariant, for any number of callers and of    *)
(* probes, however often the ticket counter wraps.                          *)
THEOREM ProbeInductive == ProbeSpec => []IInv
BY InitIInv, NextIInv, PTL DEF ProbeSpec

(* Whoever times out and whoever asks next, a caller is answered about its  *)
(* own register from a complete reply, and stays armed until answered or    *)
(* given up by itself.                                                      *)
THEOREM CallersAnsweredTheirOwn == ProbeSpec => []AnswersOwn
<1>1. IInv => AnswersOwn
  <2> SUFFICES ASSUME IInv PROVE AnswersOwn OBVIOUS
  <2> USE DEF IInv, ProbeShape
  <2>1. ProbeTypeOK BY DEF ProbeTypeOK, GateInv, Requests
  <2>2. ASSUME NEW c \in Callers
        PROVE  caller[c].got.status \notin {"none", "Timeout", "NoLink"} =>
                 caller[c].got.status # "torn" /\ caller[c].got.reg = caller[c].mine.reg
    BY DEF GotInv, Fits
  <2>3. ASSUME NEW c \in Callers, caller[c].pc = "wait", stamp # caller[c].mine.ticket
        PROVE  pending = caller[c].mine
    BY <2>3 DEF GateInv, HolderInv, Answered
  <2> QED BY <2>1, <2>2, <2>3 DEF AnswersOwn
<1> QED BY <1>1, ProbeInductive, PTL

-----------------------------------------------------------------------------
(* Dwell: what the slot says of the log *)

Slot     == [used : BOOLEAN, code : 0..2, since : Nat, blind : Nat, gap : Nat,
             gapped : BOOLEAN, exact : BOOLEAN, stale : BOOLEAN]
FoldLog  == Seq([at : Nat, code : 0..2])
HasMax(S) == \E m \in S : \A j \in S : j =< m
Starts   == {i \in Reads : Begins(i)}
LastRead == Sets!Max(Reads)
Between  == dwell.reset \/ forms.todo # <<>>

SlotInv ==
  /\ tally \in Slot /\ tally.blind =< tally.since
  /\ tally.stale => InGap(tally)
LogInv ==
  /\ log \in [of : DwellModels \cup {"auto", "none"}, folds : FoldLog] /\ Len(F) =< MaxLog
  /\ \A i, j \in DOMAIN F : i < j => F[i].at =< F[j].at
  /\ Reads # {} => HasMax(Reads) /\ HasMax(Starts)
  /\ \A i \in Reads : Before(i) # {} => HasMax(Before(i))

(* The time since the last read, or the age, its unwatched part and whether *)
(* its start was seen, are those of the log.                                *)
SlotOfLog ==
  /\ Reads = {} => tally = Unused
  /\ Reads # {} =>
       /\ tally.used /\ tally.code = F[LastRead].code
       /\ tally.stale <=> Time - F[LastRead].at > MaxGap
       /\ InGap(tally) <=> LastRead # Len(F)
       /\ tally.exact <=> Before(Start) # {} /\ Watched(Start)
       /\ ~tally.stale =>
            /\ tally.gap = Time - F[LastRead].at
            /\ tally.since = Time - F[Start].at
            /\ tally.blind = Cardinality(Unwatched) + (Time - F[LastRead].at)

(* Whose the log and the slot are.                                          *)
UnitInv ==
  /\ inUse \in [set : DwellModels \cup {"auto"}, now : DwellModels \cup {"auto"}]
  /\ inUse.set # "auto" => inUse.now = inUse.set
  /\ dwell \in [last : BOOLEAN, reset : BOOLEAN, grace : BOOLEAN, model : DwellModels \cup {"none"}]
  /\ label \in DwellModels \cup {"none"} /\ DOMAIN forms = {"made", "todo"}
  /\ forms.todo \in {<<>>, <<"reset">>, <<"reset", "on">>, <<"on">>}
  /\ forms.todo = <<"on">> => dwell.reset
  /\ inUse.set = "auto" => forms.todo \in {<<>>, <<"reset">>}
  /\ Between => Reads = {}
  /\ Between \/ inUse.now = "auto" => shown = 0
  /\ inUse.set = "auto" /\ inUse.now # "auto" => log.of = inUse.now /\ dwell.model = inUse.now
  /\ inUse.set = "auto" /\ Reads # {} =>
       /\ log.of \in DwellModels /\ dwell.model = log.of /\ label = log.of
       /\ inUse.now = "auto" => dwell.grace

ShownInv ==
  /\ shown \in 0..2
  /\ shown # 0 => F # <<>> /\ F[Len(F)].code = shown

DwellIInv == SlotInv /\ LogInv /\ UnitInv /\ ShownInv /\ (~Between => SlotOfLog)

-----------------------------------------------------------------------------
(* Dwell: the step of a slot *)

USE DwellAssumption

LEMMA MaxIs ==
  ASSUME NEW S \in SUBSET Nat, HasMax(S)
  PROVE  Sets!Max(S) \in S /\ \A j \in S : j =< Sets!Max(S)
BY DEF HasMax, Sets!Max

LEMMA MaxOnly ==
  ASSUME NEW S \in SUBSET Nat, NEW m \in S, \A j \in S : j =< m
  PROVE  Sets!Max(S) = m
<1>1. HasMax(S) BY DEF HasMax
<1>2. Sets!Max(S) \in Nat /\ m \in Nat /\ Sets!Max(S) =< m /\ m =< Sets!Max(S) BY <1>1, MaxIs
<1> QED BY <1>2

LEMMA UnusedSlot == Unused \in Slot /\ ~Unused.stale /\ ~InGap(Unused) /\ Unused.blind =< Unused.since
BY DEF Unused, Slot, InGap

LEMMA BlindSlot ==
  ASSUME NEW s \in Slot, NEW dt \in Nat
  PROVE  /\ Blind(s, dt) \in Slot /\ InGap(Blind(s, dt))
         /\ Blind(s, dt).used = s.used /\ Blind(s, dt).code = s.code
         /\ Blind(s, dt).exact = s.exact
         /\ Blind(s, dt).since = s.since + dt /\ Blind(s, dt).blind = s.blind + dt
         /\ Blind(s, dt).gap = s.gap + dt /\ Blind(s, dt).stale = (s.gap + dt > MaxGap)
<1> DEFINE r == Blind(s, dt)
           fields == {"used", "code", "since", "blind", "gap", "gapped", "exact", "stale"}
<1>1. DOMAIN s = fields BY DEF Slot
<1>2. DOMAIN r = fields /\ r = [f \in fields |-> r[f]] BY <1>1 DEF Blind
<1>3. r.used = s.used /\ r.code = s.code /\ r.exact = s.exact BY <1>1 DEF Blind
<1>4. r.since = s.since + dt /\ r.blind = s.blind + dt /\ r.gap = s.gap + dt BY <1>1 DEF Blind
<1>5. r.gapped = TRUE /\ r.stale = (s.gap + dt > MaxGap) BY <1>1 DEF Blind
<1> HIDE DEF r
<1>6. r \in Slot
  <2>1. /\ s.used \in BOOLEAN /\ s.code \in 0..2 /\ s.exact \in BOOLEAN
        /\ s.since \in Nat /\ s.blind \in Nat /\ s.gap \in Nat
    BY DEF Slot
  <2>2. /\ r.used \in BOOLEAN /\ r.code \in 0..2 /\ r.exact \in BOOLEAN /\ r.gapped \in BOOLEAN
        /\ r.stale \in BOOLEAN
    <3>1. r.used \in BOOLEAN /\ r.code \in 0..2 /\ r.exact \in BOOLEAN /\ r.gapped \in BOOLEAN
      BY <1>3, <1>5, <2>1
    <3>2. (s.gap + dt > MaxGap) \in BOOLEAN OBVIOUS
    <3> QED BY <1>5, <3>1, <3>2
  <2>3. r.since \in Nat /\ r.blind \in Nat /\ r.gap \in Nat BY <1>4, <2>1
  <2>4. r = [used |-> r.used, code |-> r.code, since |-> r.since, blind |-> r.blind, gap |-> r.gap,
             gapped |-> r.gapped, exact |-> r.exact, stale |-> r.stale]
    BY <1>2
  <2> QED BY <2>2, <2>3, <2>4 DEF Slot
<1>7. InGap(r) BY <1>5 DEF InGap
<1> QED BY <1>3, <1>4, <1>5, <1>6, <1>7 DEF r

(* A fold that does not read the row adds unwatched time to a slot that     *)
(* still says something (the last loop of dwell_step).                      *)
LEMMA UnreadStep ==
  ASSUME NEW s \in Slot, NEW dt \in Nat
  PROVE  Step(s, 0, dt) = IF ~s.used \/ s.stale THEN s ELSE Blind(s, dt)
<1>1. CASE ~s.used \/ s.stale BY <1>1 DEF Step
<1>2. CASE s.used /\ ~s.stale /\ dt > MaxGap
  <2>1. Blind(s, dt).stale = (s.gap + dt > MaxGap) BY BlindSlot
  <2>2. Blind(s, dt).stale BY <1>2, <2>1 DEF Slot
  <2> QED BY <1>2, <2>2 DEF Step
<1>3. CASE s.used /\ ~s.stale /\ ~(dt > MaxGap) BY <1>3 DEF Step
<1> QED BY <1>1, <1>2, <1>3 DEF Slot

(* A fold that reads the row opens a run, or adds to it; the time before it *)
(* is watched if there was no gap and it is not too long.                   *)
Broken(s, code, dt) == s.stale \/ s.gap + dt > MaxGap \/ s.code # code
Seen(s, dt) == ~InGap(s) /\ dt =< Cadence /\ dt =< MaxGap

AfterRead(s, code, dt) ==
  IF Broken(s, code, dt) THEN [Opened(code) EXCEPT !.exact = Seen(s, dt)]
  ELSE [s EXCEPT !.since = @ + dt, !.blind = @ + (IF Seen(s, dt) THEN 0 ELSE dt),
                 !.gap = 0, !.gapped = FALSE]

LEMMA ReadStep ==
  ASSUME NEW s \in Slot, NEW dt \in Nat, NEW code \in {1, 2},
         s.used, s.stale => InGap(s)
  PROVE  StepWithCadence(s, code, dt) = AfterRead(s, code, dt)
<1> USE DEF AfterRead
<1>1. CASE dt =< Cadence
  <2>1. StepWithCadence(s, code, dt) = Step(s, code, dt) BY <1>1 DEF StepWithCadence
  <2>2. CASE ~s.stale /\ dt > MaxGap
    <3>1. Step(s, code, dt) = ObservedRead(Blind(s, dt), code, dt) BY <2>2 DEF Step
    <3>2. Blind(s, dt).stale /\ InGap(Blind(s, dt)) BY <2>2 DEF Blind, InGap, Slot
    <3>3. ObservedRead(Blind(s, dt), code, dt) = [Opened(code) EXCEPT !.exact = FALSE]
      BY <3>2 DEF ObservedRead
    <3>4. Broken(s, code, dt) BY <2>2 DEF Broken, Slot
    <3>5. Seen(s, dt) = FALSE BY <2>2 DEF Seen
    <3> QED BY <2>1, <3>1, <3>3, <3>4, <3>5
  <2>3. CASE s.stale \/ dt =< MaxGap
    <3>1. Step(s, code, dt) = ObservedRead(s, code, dt) BY <2>3 DEF Step
    <3>2. (s.stale \/ (InGap(s) /\ s.gap + dt > MaxGap)) \/ s.code # code <=> Broken(s, code, dt)
      BY <2>3 DEF Broken, InGap, Slot
    <3>3. Seen(s, dt) = ~InGap(s) \/ s.stale BY <1>1, <2>3 DEF Seen, InGap, Slot
    <3>4. CASE Broken(s, code, dt)
      <4>1. Step(s, code, dt) = [Opened(code) EXCEPT !.exact = ~InGap(s)]
        BY <3>1, <3>2, <3>4 DEF ObservedRead
      <4>2. ~InGap(s) <=> Seen(s, dt) BY <1>1, <2>3 DEF Seen
      <4> QED BY <2>1, <3>4, <4>1, <4>2 DEF Seen, InGap
    <3>5. CASE ~Broken(s, code, dt)
      <4>1. Step(s, code, dt) = [s EXCEPT !.since = @ + dt, !.blind = @ + (IF InGap(s) THEN dt ELSE 0),
                                          !.gap = 0, !.gapped = FALSE]
        BY <3>1, <3>2, <3>5 DEF ObservedRead
      <4>2. ~InGap(s) <=> Seen(s, dt) BY <1>1, <2>3, <3>5 DEF Seen, Broken
      <4> QED BY <2>1, <3>5, <4>1, <4>2
    <3> QED BY <3>4, <3>5
  <2> QED BY <2>2, <2>3 DEF Slot
<1>2. CASE dt > Cadence
  <2> DEFINE w == Step(s, 0, dt)
             t == [s EXCEPT !.since = @ + dt, !.blind = @ + dt, !.gap = 0, !.gapped = FALSE]
  <2>1. StepWithCadence(s, code, dt) = Step(w, code, 0) BY <1>2 DEF StepWithCadence
  <2>2. w = IF s.stale THEN s ELSE Blind(s, dt) BY UnreadStep
  <2>3. w \in Slot /\ w.used /\ InGap(w) /\ w.code = s.code
        /\ (w.stale <=> s.stale \/ s.gap + dt > MaxGap)
        /\ (~s.stale => w.gap = s.gap + dt)
    <3>1. CASE s.stale BY <2>2, <3>1
    <3>2. CASE ~s.stale
      <4>1. w = Blind(s, dt) BY <2>2, <3>2
      <4> HIDE DEF w
      <4>2. /\ Blind(s, dt) \in Slot /\ InGap(Blind(s, dt))
            /\ Blind(s, dt).used = s.used /\ Blind(s, dt).code = s.code
            /\ Blind(s, dt).gap = s.gap + dt /\ Blind(s, dt).stale = (s.gap + dt > MaxGap)
        BY BlindSlot
      <4> QED BY <3>2, <4>1, <4>2
    <3> QED BY <3>1, <3>2
  <2> HIDE DEF w
  <2>4. Step(w, code, 0) = ObservedRead(w, code, 0) BY <2>3 DEF Step
  <2>5. Seen(s, dt) = FALSE BY <1>2 DEF Seen
  <2>6. CASE Broken(s, code, dt)
    <3>1. w.stale \/ w.code # code BY <2>3, <2>6 DEF Broken
    <3>2. ObservedRead(w, code, 0) = [Opened(code) EXCEPT !.exact = FALSE]
      BY <2>3, <3>1 DEF ObservedRead
    <3> QED BY <2>1, <2>4, <2>5, <2>6, <3>2
  <2>7. CASE ~Broken(s, code, dt)
    <3>1. ~s.stale /\ ~(s.gap + dt > MaxGap) /\ s.code = code BY <2>7 DEF Broken
    <3>2. w = Blind(s, dt) BY <2>2, <3>1
    <3>3. ~w.stale /\ w.code = code /\ ~(w.gap + 0 > MaxGap) BY <2>3, <3>1 DEF Slot
    <3>4. ObservedRead(w, code, 0) = [w EXCEPT !.since = @ + 0, !.blind = @ + 0, !.gap = 0, !.gapped = FALSE]
      BY <2>3, <3>3 DEF ObservedRead
    <3>5. [w EXCEPT !.since = @ + 0, !.blind = @ + 0, !.gap = 0, !.gapped = FALSE]
          = [w EXCEPT !.gap = 0, !.gapped = FALSE]
      <4>1. w.since + 0 = w.since /\ w.blind + 0 = w.blind BY <2>3 DEF Slot
      <4>2. DOMAIN w = {"used", "code", "since", "blind", "gap", "gapped", "exact", "stale"} BY <2>3 DEF Slot
      <4> QED BY <4>1, <4>2
    <3>6. [w EXCEPT !.gap = 0, !.gapped = FALSE] = t
      <4>1. DOMAIN s = {"used", "code", "since", "blind", "gap", "gapped", "exact", "stale"} BY DEF Slot
      <4>2. w.stale = FALSE /\ s.stale = FALSE BY <2>3, <3>1, <3>3 DEF Slot
      <4>3. w = [s EXCEPT !.since = @ + dt, !.blind = @ + dt, !.gap = @ + dt, !.gapped = TRUE]
        BY <3>2, <4>1, <4>2 DEF Blind
      <4> QED BY <4>1, <4>3
    <3> QED BY <2>1, <2>4, <2>5, <2>7, <3>4, <3>5, <3>6
  <2> QED BY <2>6, <2>7
<1> QED BY <1>1, <1>2

LEMMA OpenedSlot ==
  ASSUME NEW c \in {1, 2}, NEW e \in BOOLEAN
  PROVE  /\ Opened(c) \in Slot /\ Opened(c).blind =< Opened(c).since /\ ~Opened(c).stale
         /\ [Opened(c) EXCEPT !.exact = e] \in Slot
         /\ [Opened(c) EXCEPT !.exact = e].blind =< [Opened(c) EXCEPT !.exact = e].since
         /\ ~[Opened(c) EXCEPT !.exact = e].stale
<1> DEFINE o == Opened(c)
           fields == {"used", "code", "since", "blind", "gap", "gapped", "exact", "stale"}
<1>1. DOMAIN Unused = fields BY DEF Unused
<1>2. DOMAIN o = fields /\ o = [f \in fields |-> o[f]] BY <1>1 DEF Opened
<1>3. o.used = TRUE /\ o.code = c BY <1>1 DEF Opened
<1>4. /\ o.since = 0 /\ o.blind = 0 /\ o.gap = 0 /\ o.gapped = FALSE /\ o.exact = FALSE
      /\ o.stale = FALSE
  BY <1>1 DEF Opened, Unused
<1> HIDE DEF o
<1>5. o = [used |-> o.used, code |-> o.code, since |-> o.since, blind |-> o.blind, gap |-> o.gap,
           gapped |-> o.gapped, exact |-> o.exact, stale |-> o.stale]
  BY <1>2
<1>6. o \in Slot
  <2>1. c \in 0..2 /\ 0 \in Nat OBVIOUS
  <2>2. o = [used |-> TRUE, code |-> c, since |-> 0, blind |-> 0, gap |-> 0, gapped |-> FALSE,
             exact |-> FALSE, stale |-> FALSE]
    BY <1>3, <1>4, <1>5
  <2> QED BY <2>1, <2>2 DEF Slot
<1>7. [o EXCEPT !.exact = e] \in Slot BY <1>6 DEF Slot
<1>8. /\ [o EXCEPT !.exact = e].blind = o.blind /\ [o EXCEPT !.exact = e].since = o.since
      /\ [o EXCEPT !.exact = e].stale = o.stale
  BY <1>2
<1> QED BY <1>4, <1>6, <1>7, <1>8 DEF o

LEMMA OpenedStep ==
  ASSUME NEW c \in {1, 2}, NEW dt \in Nat
  PROVE  StepWithCadence(Unused, c, dt) = Opened(c)
<1>1. Unused \in Slot /\ ~Unused.used /\ ~Unused.stale BY UnusedSlot DEF Unused
<1>2. \A d \in Nat : Step(Unused, 0, d) = Unused BY <1>1, UnreadStep
<1>3. \A d \in Nat : Step(Unused, c, d) = Opened(c) BY <1>1 DEF Step
<1> QED BY <1>2, <1>3 DEF StepWithCadence

-----------------------------------------------------------------------------
(* Dwell: the log grows by a fold *)

LEMMA Instants ==
  ASSUME LogInv
  PROVE  /\ F \in FoldLog /\ Len(F) \in Nat /\ Time \in Nat
         /\ \A i \in DOMAIN F : /\ i \in Nat /\ F[i].at \in Nat /\ F[i].code \in 0..2 /\ F[i].at =< Time
         /\ Reads \subseteq DOMAIN F /\ Reads \in SUBSET Nat /\ Starts \subseteq Reads
         /\ \A i : Before(i) \subseteq Reads
<1>1. F \in FoldLog BY DEF LogInv, F
<1>2. Len(F) \in Nat /\ DOMAIN F = 1..Len(F) BY <1>1, LenProperties DEF FoldLog
<1>3. \A i \in DOMAIN F : i \in Nat /\ F[i] \in [at : Nat, code : 0..2]
  <2> SUFFICES ASSUME NEW i \in 1..Len(F) PROVE F[i] \in [at : Nat, code : 0..2] BY <1>2
  <2> QED BY <1>1, ElementOfSeq DEF FoldLog
<1>4. \A i \in DOMAIN F : i \in Nat /\ F[i].at \in Nat /\ F[i].code \in 0..2 BY <1>3
<1>5. F = <<>> <=> Len(F) = 0 BY <1>1, EmptySeq DEF FoldLog
<1>6. Time \in Nat BY <1>2, <1>4, <1>5 DEF Time
<1>7. \A i \in DOMAIN F : F[i].at =< Time
  <2> SUFFICES ASSUME NEW i \in DOMAIN F PROVE F[i].at =< Time OBVIOUS
  <2>1. Time = F[Len(F)].at /\ Len(F) \in DOMAIN F /\ (i = Len(F) \/ i < Len(F)) BY <1>2, <1>5 DEF Time
  <2> QED BY <1>4, <2>1 DEF LogInv
<1>8. Reads \subseteq DOMAIN F /\ Starts \subseteq Reads BY DEF Reads, Starts
<1>9. \A i : Before(i) \subseteq Reads BY DEF Before
<1> QED BY <1>1, <1>2, <1>4, <1>6, <1>7, <1>8, <1>9

LEMMA Maxima ==
  ASSUME LogInv
  PROVE  /\ Reads # {} => LastRead \in Reads /\ \A i \in Reads : i =< LastRead
         /\ Reads # {} => Start \in Starts /\ \A i \in Starts : i =< Start
         /\ \A i \in Reads : Before(i) # {} => Prev(i) \in Before(i) /\ \A j \in Before(i) : j =< Prev(i)
<1>1. Reads \in SUBSET Nat /\ Starts \in SUBSET Nat /\ \A i : Before(i) \in SUBSET Nat BY Instants
<1>2. Reads # {} => HasMax(Reads) /\ HasMax(Starts) BY DEF LogInv
<1>3. \A i \in Reads : Before(i) # {} => HasMax(Before(i)) BY DEF LogInv
<1>4. Start = Sets!Max(Starts) BY DEF Start, Starts
<1>5. Reads # {} => LastRead \in Reads /\ \A i \in Reads : i =< LastRead BY <1>1, <1>2, MaxIs DEF LastRead
<1>6. Reads # {} => Start \in Starts /\ \A i \in Starts : i =< Start BY <1>1, <1>2, <1>4, MaxIs
<1>7. \A i \in Reads : Before(i) # {} => Prev(i) \in Before(i) /\ \A j \in Before(i) : j =< Prev(i)
  BY <1>1, <1>3, MaxIs DEF Prev
<1> QED BY <1>5, <1>6, <1>7

LEMMA LogGrows ==
  ASSUME LogInv, NEW dt \in Nat, NEW c \in 0..2, Logged(dt, c)
  PROVE  /\ log'.of = log.of /\ F' \in FoldLog
         /\ log' \in [of : DwellModels \cup {"auto", "none"}, folds : FoldLog]
         /\ Len(F') = Len(F) + 1 /\ DOMAIN F' = DOMAIN F \cup {Len(F) + 1}
         /\ Len(F) + 1 \notin DOMAIN F /\ F' # <<>>
         /\ \A i \in DOMAIN F : F'[i] = F[i] /\ i < Len(F) + 1
         /\ F'[Len(F) + 1] = [at |-> Time + dt, code |-> c]
         /\ Time' = Time + dt
<1> DEFINE e == [at |-> Time + dt, code |-> c]
<1>1. F \in FoldLog /\ Time \in Nat /\ Len(F) \in Nat BY Instants
<1>2. e \in [at : Nat, code : 0..2] BY <1>1
<1>3. log' = [log EXCEPT !.folds = Append(F, e)] BY DEF Logged, F
<1>4. F' = Append(F, e) /\ log'.of = log.of BY <1>3 DEF F, LogInv
<1> HIDE DEF e
<1>5. Append(F, e) \in FoldLog BY <1>1, <1>2, AppendProperties DEF FoldLog
<1>6. log' \in [of : DwellModels \cup {"auto", "none"}, folds : FoldLog] BY <1>3, <1>5 DEF LogInv
<1>7. /\ Len(Append(F, e)) = Len(F) + 1 /\ Append(F, e)[Len(F) + 1] = e
      /\ \A i \in 1..Len(F) : Append(F, e)[i] = F[i]
  BY <1>1, <1>2, AppendProperties DEF FoldLog
<1>8. DOMAIN F = 1..Len(F) /\ DOMAIN F' = 1..(Len(F) + 1)
  BY <1>1, <1>4, <1>5, <1>7, LenProperties DEF FoldLog
<1>9. DOMAIN F' = DOMAIN F \cup {Len(F) + 1} /\ Len(F) + 1 \notin DOMAIN F /\ \A i \in DOMAIN F : i < Len(F) + 1
  BY <1>1, <1>8
<1>10. F' # <<>> BY <1>1, <1>4, <1>7
<1>11. Time' = Time + dt BY <1>4, <1>7, <1>10 DEF Time, e
<1> QED BY <1>4, <1>5, <1>6, <1>7, <1>8, <1>9, <1>10, <1>11 DEF e

LEMMA ReadsGrow ==
  ASSUME LogInv, NEW dt \in Nat, NEW c \in 0..2, Logged(dt, c),
         NEW n \in Nat, n = Len(F) + 1
  PROVE  /\ Reads' = Reads \cup (IF c = 0 THEN {} ELSE {n})
         /\ \A i \in DOMAIN F : Before(i)' = Before(i) /\ Prev(i)' = Prev(i)
         /\ Before(n)' = Reads /\ Prev(n)' = LastRead
         /\ \A i \in Reads : Before(i) # {} =>
              TimeTo(i)' = TimeTo(i) /\ Unseen(i)' = Unseen(i) /\ (Watched(i)' <=> Watched(i))
         /\ \A i \in Reads : Begins(i)' <=> Begins(i)
<1>1. /\ DOMAIN F' = DOMAIN F \cup {n}
      /\ \A i \in DOMAIN F : F'[i] = F[i] /\ i < n
      /\ F'[n].code = c
  <2>1. F'[n] = [at |-> Time + dt, code |-> c] BY LogGrows
  <2>2. F'[n].code = c BY <2>1
  <2>3. DOMAIN F' = DOMAIN F \cup {n} /\ \A i \in DOMAIN F : F'[i] = F[i] /\ i < n BY LogGrows
  <2> QED BY <2>2, <2>3
<1>2. Reads \subseteq DOMAIN F /\ DOMAIN F \subseteq Nat /\ Len(F) \in Nat BY Instants
<1>3. Reads' = Reads \cup (IF c = 0 THEN {} ELSE {n})
  BY <1>1 DEF Reads
<1>4. \A i \in DOMAIN F : Before(i)' = Before(i)
  <2> SUFFICES ASSUME NEW i \in DOMAIN F PROVE Before(i)' = Before(i) OBVIOUS
  <2>1. ~(n < i) BY <1>1, <1>2
  <2> QED BY <1>3, <2>1 DEF Before
<1>5. Before(n)' = Reads
  <2>1. \A j \in Reads : j < n BY <1>1, <1>2
  <2>2. ~(n < n) BY <1>2
  <2> QED BY <1>3, <2>1, <2>2 DEF Before
<1>6. \A i \in DOMAIN F : Prev(i)' = Prev(i) BY <1>4 DEF Prev
<1>7. Prev(n)' = LastRead BY <1>5 DEF Prev, LastRead
<1>8. ASSUME NEW i \in Reads, Before(i) # {}
      PROVE  F'[i] = F[i] /\ F'[Prev(i)'] = F[Prev(i)] /\ Prev(i)' = Prev(i)
  <2>1. Prev(i) \in DOMAIN F BY <1>2, <1>8, Maxima, Instants
  <2> QED BY <1>1, <1>2, <1>6, <2>1
<1>9. \A i \in Reads : Before(i) # {} =>
        TimeTo(i)' = TimeTo(i) /\ Unseen(i)' = Unseen(i) /\ (Watched(i)' <=> Watched(i))
  BY <1>8 DEF TimeTo, Unseen, Watched
<1>10. \A i \in Reads : Begins(i)' <=> Begins(i)
  BY <1>2, <1>4, <1>8, <1>9 DEF Begins
<1> QED BY <1>3, <1>4, <1>5, <1>6, <1>7, <1>9, <1>10

(* A read begins a run unless the one before says the same and is near.     *)
LEMMA RunsGrow ==
  ASSUME LogInv, NEW dt \in Nat, NEW c \in 0..2, Logged(dt, c),
         NEW n \in Nat, n = Len(F) + 1
  PROVE  /\ c = 0 => Starts' = Starts
         /\ c # 0 => Starts' = Starts \cup (IF Begins(n)' THEN {n} ELSE {})
         /\ Begins(n)' <=>
              Reads = {} \/ Time + dt - F[LastRead].at > MaxGap \/ F[LastRead].code # c
         /\ Reads # {} =>
              /\ TimeTo(n)' = Time + dt - F[LastRead].at
              /\ Unseen(n)' = (F[LastRead].at + 1)..(Time + dt)
              /\ Watched(n)' <=>
                   /\ LastRead = Len(F)
                   /\ Time + dt - F[LastRead].at =< Cadence /\ Time + dt - F[LastRead].at =< MaxGap
<1>1. /\ Reads' = Reads \cup (IF c = 0 THEN {} ELSE {n})
      /\ Before(n)' = Reads /\ Prev(n)' = LastRead
      /\ \A i \in Reads : Begins(i)' <=> Begins(i)
  BY ReadsGrow
<1>2. /\ F'[n] = [at |-> Time + dt, code |-> c] /\ n \notin DOMAIN F
      /\ \A i \in DOMAIN F : F'[i] = F[i]
  BY LogGrows
<1>3. Reads \subseteq DOMAIN F /\ Len(F) \in Nat BY Instants
<1>4. c = 0 => Starts' = Starts BY <1>1 DEF Starts
<1>5. c # 0 => Starts' = Starts \cup (IF Begins(n)' THEN {n} ELSE {})
  BY <1>1 DEF Starts
<1>6. ASSUME Reads # {} PROVE F'[LastRead] = F[LastRead] /\ LastRead \in Nat
  BY <1>2, <1>3, <1>6, Maxima, Instants
<1>7. ASSUME Reads # {}
      PROVE  TimeTo(n)' = Time + dt - F[LastRead].at
             /\ Unseen(n)' = (F[LastRead].at + 1)..(Time + dt)
  <2>1. F'[n].at = Time + dt BY <1>2
  <2>2. F'[Prev(n)'] = F[LastRead] BY <1>1, <1>6, <1>7
  <2>3. TimeTo(n)' = F'[n].at - F'[Prev(n)'].at BY DEF TimeTo
  <2>4. Unseen(n)' = (F'[Prev(n)'].at + 1)..F'[n].at BY DEF Unseen
  <2>5. F'[Prev(n)'].at = F[LastRead].at BY <2>2
  <2>6. TimeTo(n)' = Time + dt - F[LastRead].at
    <3>1. LastRead \in DOMAIN F BY <1>3, <1>7, Maxima
    <3>2. Time \in Nat /\ F[LastRead].at \in Nat BY <3>1, Instants
    <3> QED BY <2>1, <2>3, <2>5, <3>2
  <2>7. Unseen(n)' = (F[LastRead].at + 1)..(Time + dt) BY <2>1, <2>4, <2>5
  <2> QED BY <2>6, <2>7
<1>8. Begins(n)' <=> Reads = {} \/ Time + dt - F[LastRead].at > MaxGap \/ F[LastRead].code # c
  BY <1>1, <1>2, <1>6, <1>7 DEF Begins
<1>9. Reads # {} =>
        (Watched(n)' <=> /\ LastRead = Len(F)
                         /\ Time + dt - F[LastRead].at =< Cadence /\ Time + dt - F[LastRead].at =< MaxGap)
  <2>1. n - 1 = Len(F) BY <1>3
  <2> QED BY <1>1, <1>3, <1>7, <2>1 DEF Watched
<1> QED BY <1>4, <1>5, <1>7, <1>8, <1>9

(* The log keeps its order and its maxima.                                  *)
LEMMA LogKept ==
  ASSUME LogInv, Len(F) < MaxLog, NEW dt \in Nat, NEW c \in 0..2, Logged(dt, c)
  PROVE  LogInv'
<1>1. /\ F \in FoldLog /\ Len(F) \in Nat /\ Time \in Nat
      /\ \A i \in DOMAIN F : i \in Nat /\ F[i].at \in Nat /\ F[i].at =< Time
      /\ Reads \subseteq DOMAIN F /\ Reads \in SUBSET Nat /\ Starts \subseteq Reads
  BY Instants
<1>0. PICK n \in Nat : n = Len(F) + 1 BY <1>1
<1>2. /\ log' \in [of : DwellModels \cup {"auto", "none"}, folds : FoldLog]
      /\ Len(F') = n /\ DOMAIN F' = DOMAIN F \cup {n}
      /\ \A i \in DOMAIN F : F'[i] = F[i] /\ i < n
      /\ F'[n] = [at |-> Time + dt, code |-> c]
  BY <1>0, LogGrows
<1>3. n \in Nat /\ Len(F') =< MaxLog BY <1>0, <1>1, <1>2
<1>4. F'[n].at = Time + dt BY <1>2
<1>5. \A i, j \in DOMAIN F' : i < j => F'[i].at =< F'[j].at
  <2> SUFFICES ASSUME NEW i \in DOMAIN F', NEW j \in DOMAIN F', i < j PROVE F'[i].at =< F'[j].at
    OBVIOUS
  <2>1. i \in DOMAIN F
    <3> SUFFICES ASSUME i = n PROVE FALSE BY <1>2
    <3>1. CASE j = n BY <1>3, <3>1
    <3>2. CASE j \in DOMAIN F
      <4>1. j < n /\ j \in Nat BY <1>1, <1>2, <3>2
      <4> QED BY <1>3, <4>1
    <3> QED BY <1>2, <3>1, <3>2
  <2>2. CASE j \in DOMAIN F BY <1>2, <2>1, <2>2 DEF LogInv
  <2>3. CASE j = n
    <3>1. F[i].at =< Time /\ F[i].at \in Nat BY <1>1, <2>1
    <3>2. F'[i].at = F[i].at BY <1>2, <2>1
    <3> QED BY <1>1, <1>4, <2>3, <3>1, <3>2
  <2> QED BY <1>2, <2>2, <2>3
<1>6. /\ Reads' = Reads \cup (IF c = 0 THEN {} ELSE {n})
      /\ \A i \in DOMAIN F : Before(i)' = Before(i)
      /\ Before(n)' = Reads
  BY <1>0, ReadsGrow
<1>7. /\ c = 0 => Starts' = Starts
      /\ c # 0 => Starts' = Starts \cup (IF Begins(n)' THEN {n} ELSE {})
      /\ Reads = {} => Begins(n)'
  BY <1>0, RunsGrow
<1>8. \A i \in Reads : i < n /\ i \in Nat BY <1>1, <1>2
<1>9. ASSUME NEW S, S \subseteq Reads PROVE HasMax(S \cup {n})
  <2>1. n =< n /\ \A i \in S : i =< n BY <1>3, <1>8, <1>9
  <2> QED BY <2>1 DEF HasMax
<1>10. Reads' # {} => HasMax(Reads)' /\ HasMax(Starts)'
  <2> SUFFICES ASSUME Reads' # {} PROVE HasMax(Reads') /\ HasMax(Starts') BY DEF HasMax
  <2>1. CASE c = 0 BY <1>6, <1>7, <2>1 DEF LogInv
  <2>2. CASE c # 0
    <3>1. HasMax(Reads') BY <1>6, <1>9, <2>2
    <3>2. CASE Begins(n)'
      <4>1. Starts' = Starts \cup {n} BY <1>7, <2>2, <3>2
      <4>2. HasMax(Starts \cup {n}) BY <1>1, <1>9
      <4> QED BY <3>1, <4>1, <4>2
    <3>3. CASE ~Begins(n)'
      <4>1. Reads # {} /\ Starts' = Starts BY <1>7, <2>2, <3>3
      <4> QED BY <3>1, <4>1 DEF LogInv
    <3> QED BY <3>1, <3>2, <3>3
  <2> QED BY <2>1, <2>2
<1>11. \A i \in Reads' : Before(i)' # {} => HasMax(Before(i)')
  <2> SUFFICES ASSUME NEW i \in Reads', Before(i)' # {} PROVE HasMax(Before(i)') OBVIOUS
  <2>1. CASE i \in Reads BY <1>1, <1>6, <2>1 DEF LogInv
  <2>2. CASE i = n BY <1>6, <2>2 DEF LogInv
  <2> QED BY <1>6, <2>1, <2>2
<1>12. \A i \in Reads' : Before(i)' # {} => HasMax(Before(i))' BY <1>11 DEF HasMax
<1> QED BY <1>2, <1>3, <1>5, <1>10, <1>12 DEF LogInv

(* The unwatched times lie before the last read.                            *)
LEMMA UnwatchedBefore ==
  ASSUME LogInv, Reads # {}
  PROVE  /\ Unwatched \subseteq 1..F[LastRead].at /\ F[LastRead].at \in Nat /\ LastRead \in DOMAIN F
         /\ IsFiniteSet(Unwatched) /\ Cardinality(Unwatched) \in Nat
         /\ \A j \in Reads : j > Start => Before(j) # {}
<1>1. LastRead \in Reads /\ \A i \in Reads : i =< LastRead BY Maxima
<1>2. Start \in Reads /\ Reads \in SUBSET Nat BY Maxima, Instants
<1>3. F[LastRead].at \in Nat /\ LastRead \in DOMAIN F BY <1>1, Instants
<1>4. \A j \in Reads : j > Start => Before(j) # {}
  <2> SUFFICES ASSUME NEW j \in Reads, j > Start PROVE Before(j) # {} OBVIOUS
  <2>1. Start \in Before(j) BY <1>2 DEF Before
  <2> QED BY <2>1
<1>5. \A j \in Reads : j > Start => Unseen(j) \subseteq 1..F[LastRead].at
  <2> SUFFICES ASSUME NEW j \in Reads, j > Start PROVE Unseen(j) \subseteq 1..F[LastRead].at OBVIOUS
  <2>1. Prev(j) \in DOMAIN F BY <1>4, Maxima, Instants
  <2>2. F[Prev(j)].at \in Nat BY <2>1, Instants
  <2>3. j \in DOMAIN F /\ LastRead \in DOMAIN F /\ F[j].at \in Nat BY <1>1, Instants
  <2>4. F[j].at =< F[LastRead].at
    <3>1. j = LastRead \/ j < LastRead BY <1>1, <1>2
    <3> QED BY <2>3, <3>1 DEF LogInv
  <2> QED BY <1>3, <2>2, <2>3, <2>4 DEF Unseen
<1>6. Unwatched \subseteq 1..F[LastRead].at BY <1>5 DEF Unwatched
<1>7. IsFiniteSet(1..F[LastRead].at) BY <1>3, FS_Interval
<1>8. IsFiniteSet(Unwatched) BY <1>6, <1>7, FS_Subset
<1> QED BY <1>3, <1>4, <1>6, <1>8, FS_CardinalityType

-----------------------------------------------------------------------------
(* Dwell: the slot keeps up with the log *)

Followed(s) ==
  /\ s.used /\ s.code = F[LastRead].code
  /\ s.stale <=> Time - F[LastRead].at > MaxGap
  /\ InGap(s) <=> LastRead # Len(F)
  /\ s.exact <=> Before(Start) # {} /\ Watched(Start)
  /\ ~s.stale =>
       /\ s.gap = Time - F[LastRead].at
       /\ s.since = Time - F[Start].at
       /\ s.blind = Cardinality(Unwatched) + (Time - F[LastRead].at)

LEMMA FollowedIs == SlotOfLog <=> (Reads = {} => tally = Unused) /\ (Reads # {} => Followed(tally))
BY DEF SlotOfLog, Followed

(* A fold that did not read the row: the gap grows, or the slot is stale    *)
(* and stays so.                                                            *)
LEMMA UnreadKept ==
  ASSUME SlotInv, LogInv, SlotOfLog, NEW dt \in Nat, Logged(dt, 0),
         NEW s \in Slot,
         ~tally.used \/ tally.stale => s = tally,
         tally.used /\ ~tally.stale =>
           /\ s.used = tally.used /\ s.code = tally.code /\ s.exact = tally.exact
           /\ s.since = tally.since + dt /\ s.blind = tally.blind + dt /\ s.gap = tally.gap + dt
           /\ s.stale = (tally.gap + dt > MaxGap) /\ InGap(s)
  PROVE  (Reads' = {} => s = Unused) /\ (Reads' # {} => Followed(s)')
<1>0. PICK n \in Nat : n = Len(F) + 1 BY Instants
<1>1. /\ Reads' = Reads
      /\ \A i \in DOMAIN F : Before(i)' = Before(i)
      /\ \A i \in Reads : Before(i) # {} => Unseen(i)' = Unseen(i) /\ (Watched(i)' <=> Watched(i))
  <2>1. 0 \in 0..2 OBVIOUS
  <2> QED BY <1>0, <2>1, ReadsGrow
<1>2. /\ Len(F') = n /\ Time' = Time + dt /\ \A i \in DOMAIN F : F'[i] = F[i] /\ i < n
  <2>1. 0 \in 0..2 OBVIOUS
  <2> QED BY <1>0, <2>1, LogGrows
<1>3. Starts' = Starts
  <2>1. 0 \in 0..2 OBVIOUS
  <2> QED BY <1>0, <2>1, RunsGrow
<1>4. LastRead' = LastRead /\ Start' = Start BY <1>1, <1>3 DEF LastRead, Start, Starts
<1>5. CASE Reads = {}
  <2>1. tally = Unused BY <1>5 DEF SlotOfLog
  <2>2. ~tally.used BY <2>1 DEF Unused
  <2> QED BY <1>1, <1>5, <2>1, <2>2
<1>6. CASE Reads # {}
  <2>1. LastRead \in DOMAIN F /\ Start \in Reads /\ Start \in DOMAIN F /\ LastRead < n
    BY <1>2, <1>6, Maxima, Instants
  <2>2. F'[LastRead] = F[LastRead] /\ F'[Start] = F[Start] BY <1>2, <2>1
  <2>3. Unwatched' = Unwatched
    <3>1. \A j \in Reads : j > Start =>
            Unseen(j)' = Unseen(j) /\ (Watched(j)' <=> Watched(j))
      BY <1>1, <1>6, UnwatchedBefore
    <3> QED BY <1>1, <1>4, <3>1 DEF Unwatched
  <2>4. Before(Start)' = Before(Start) /\ (Before(Start) # {} => (Watched(Start)' <=> Watched(Start)))
    <3> PICK m : m = Start OBVIOUS
    <3>1. Before(m)' = Before(m) /\ (Before(m) # {} => (Watched(m)' <=> Watched(m))) BY <1>1, <2>1
    <3> QED BY <1>4, <3>1 DEF Before, Watched, Prev, TimeTo
  <2>5. LastRead # Len(F)' BY <1>2, <2>1, Instants
  <2>6. Time \in Nat /\ F[LastRead].at \in Nat /\ F[Start].at \in Nat /\ Cardinality(Unwatched) \in Nat
    BY <1>6, <2>1, Instants, UnwatchedBefore
  <2>7. Followed(tally) BY <1>6, FollowedIs
  <2>8. s.exact = tally.exact /\ s.used /\ s.code = tally.code BY <2>7 DEF Followed, SlotInv
  <2>9. InGap(s) BY <2>7 DEF Followed, SlotInv
  <2>10. CASE tally.stale
    <3>1. s = tally BY <2>10
    <3>2. Time - F[LastRead].at > MaxGap BY <2>7, <2>10 DEF Followed
    <3>3. Time' - F[LastRead].at > MaxGap BY <1>2, <2>6, <3>2
    <3> QED BY <1>1, <1>4, <1>6, <2>2, <2>4, <2>5, <2>7, <2>8, <2>9, <2>10, <3>1, <3>3 DEF Followed
  <2>11. CASE ~tally.stale
    <3>1. /\ s.since = tally.since + dt /\ s.blind = tally.blind + dt /\ s.gap = tally.gap + dt
          /\ s.stale = (tally.gap + dt > MaxGap)
      BY <2>7, <2>11 DEF Followed
    <3>2. /\ tally.gap = Time - F[LastRead].at /\ tally.since = Time - F[Start].at
          /\ tally.blind = Cardinality(Unwatched) + (Time - F[LastRead].at)
      BY <2>7, <2>11 DEF Followed
    <3>3. /\ s.gap = Time' - F[LastRead].at /\ s.since = Time' - F[Start].at
          /\ s.blind = Cardinality(Unwatched) + (Time' - F[LastRead].at)
      BY <1>2, <2>6, <3>1, <3>2, SMTT(60)
    <3>4. s.stale <=> Time' - F[LastRead].at > MaxGap
      <4>1. tally.gap + dt = Time' - F[LastRead].at BY <1>2, <2>6, <3>2
      <4> QED BY <3>1, <4>1
    <3> QED BY <1>1, <1>4, <1>6, <2>2, <2>3, <2>4, <2>5, <2>7, <2>8, <2>9, <3>3, <3>4 DEF Followed
  <2> QED BY <2>10, <2>11
<1> QED BY <1>5, <1>6

(* A fold that read the row: it ends the gap, and opens a run where the log *)
(* begins one.                                                              *)
LEMMA ReadKept ==
  ASSUME SlotInv, LogInv, SlotOfLog, NEW dt \in Nat, NEW c \in {1, 2}, Logged(dt, c),
         NEW s, s = StepWithCadence(tally, c, dt)
  PROVE  Reads' # {} /\ Followed(s)'
<1>0. PICK n \in Nat : n = Len(F) + 1 BY Instants
<1>1. c \in 0..2 /\ c # 0 OBVIOUS
<1>2. /\ Reads' = Reads \cup {n}
      /\ \A i \in DOMAIN F : Before(i)' = Before(i)
      /\ Before(n)' = Reads
      /\ \A i \in Reads : Before(i) # {} => Unseen(i)' = Unseen(i) /\ (Watched(i)' <=> Watched(i))
  BY <1>0, <1>1, ReadsGrow
<1>3. /\ Len(F') = n /\ Time' = Time + dt /\ \A i \in DOMAIN F : F'[i] = F[i] /\ i < n
      /\ F'[n].at = Time + dt /\ F'[n].code = c
  <2>1. F'[n] = [at |-> Time + dt, code |-> c] BY <1>0, <1>1, LogGrows
  <2>2. Len(F') = n /\ Time' = Time + dt /\ \A i \in DOMAIN F : F'[i] = F[i] /\ i < n
    BY <1>0, <1>1, LogGrows
  <2> QED BY <2>1, <2>2
<1>4. /\ Starts' = Starts \cup (IF Begins(n)' THEN {n} ELSE {})
      /\ Begins(n)' <=> Reads = {} \/ Time + dt - F[LastRead].at > MaxGap \/ F[LastRead].code # c
      /\ Reads # {} =>
           /\ Unseen(n)' = (F[LastRead].at + 1)..(Time + dt)
           /\ Watched(n)' <=>
                /\ LastRead = Len(F)
                /\ Time + dt - F[LastRead].at =< Cadence /\ Time + dt - F[LastRead].at =< MaxGap
  BY <1>0, <1>1, RunsGrow
<1>5. Reads \subseteq DOMAIN F /\ Starts \subseteq Reads /\ Len(F) \in Nat /\ Time \in Nat
      /\ \A i \in Reads : i \in Nat /\ i < n
  BY <1>3, Instants
<1>6. LastRead' = n
  <2>1. Reads \cup {n} \in SUBSET Nat /\ \A i \in Reads \cup {n} : i =< n BY <1>5
  <2>2. Sets!Max(Reads \cup {n}) = n BY <2>1, MaxOnly
  <2> QED BY <1>2, <2>2 DEF LastRead
<1>7. Time' - F'[LastRead'].at = 0 BY <1>3, <1>5, <1>6
<1>8. CASE Begins(n)'
  <2>1. Starts' = Starts \cup {n} BY <1>4, <1>8
  <2>2. Start' = n
    <3>1. Starts \cup {n} \in SUBSET Nat /\ \A i \in Starts \cup {n} : i =< n BY <1>5
    <3>2. Sets!Max(Starts \cup {n}) = n BY <3>1, MaxOnly
    <3> QED BY <2>1, <3>2 DEF Start, Starts
  <2>3. \A j \in Reads' : ~(j > Start') BY <1>2, <1>5, <2>2
  <2>4. Unwatched' = {} BY <2>3 DEF Unwatched
  <2>5. Cardinality(Unwatched') = 0 BY <2>4, FS_EmptySet
  <2>6. Before(Start)' = Reads /\ (Watched(Start)' <=> Watched(n)')
    BY <1>2, <2>2 DEF Before, Watched, Prev, TimeTo
  <2>7. /\ s.used = TRUE /\ s.code = c /\ s.stale = FALSE /\ s.gap = 0 /\ s.gapped = FALSE
        /\ s.since = 0 /\ s.blind = 0 /\ (s.exact <=> Reads # {} /\ Watched(n)')
    <3>1. CASE Reads = {}
      <4>1. tally = Unused BY <3>1 DEF SlotOfLog
      <4>2. s = Opened(c) BY <4>1, OpenedStep
      <4> QED BY <3>1, <4>2 DEF Opened, Unused
    <3>2. CASE Reads # {}
      <4>1. Followed(tally) BY <3>2, FollowedIs
      <4>2. LastRead \in DOMAIN F /\ F[LastRead].at \in Nat BY <3>2, UnwatchedBefore
      <4>3. Broken(tally, c, dt)
        <5>1. Time + dt - F[LastRead].at > MaxGap \/ F[LastRead].code # c BY <1>4, <1>8, <3>2
        <5> QED BY <1>5, <4>1, <4>2, <5>1, SMTT(60) DEF Broken, Followed
      <4>4. s = [Opened(c) EXCEPT !.exact = Seen(tally, dt)]
        <5>1. tally \in Slot /\ tally.used /\ (tally.stale => InGap(tally))
          BY <4>1 DEF SlotInv, Followed
        <5>2. s = AfterRead(tally, c, dt) BY <5>1, ReadStep
        <5> QED BY <4>3, <5>2 DEF AfterRead
      <4>5. Seen(tally, dt) <=> Watched(n)'
        <5>1. CASE LastRead = Len(F)
          <6>1. Time = F[LastRead].at
            <7>1. F # <<>> BY <1>5, <4>2, <5>1
            <7> QED BY <5>1, <7>1 DEF Time
          <6>2. ~InGap(tally) BY <4>1, <5>1 DEF Followed
          <6> QED BY <1>4, <1>5, <3>2, <4>2, <5>1, <6>1, <6>2, SMTT(60) DEF Seen
        <5>2. CASE LastRead # Len(F)
          <6>1. InGap(tally) BY <4>1, <5>2 DEF Followed
          <6> QED BY <1>4, <3>2, <5>2, <6>1 DEF Seen
        <5> QED BY <5>1, <5>2
      <4> QED BY <3>2, <4>4, <4>5 DEF Opened, Unused
    <3> QED BY <3>1, <3>2
  <2>8. F'[Start'].at = F'[LastRead'].at BY <1>6, <2>2
  <2>9. ~InGap(s) BY <2>7 DEF InGap
  <2>10. s.since = Time' - F'[Start'].at /\ s.gap = Time' - F'[LastRead'].at
         /\ s.blind = Cardinality(Unwatched') + (Time' - F'[LastRead'].at)
    BY <1>7, <2>5, <2>7, <2>8
  <2>11. ~(Time' - F'[LastRead'].at > MaxGap) BY <1>7
  <2>12. s.exact <=> Before(Start)' # {} /\ Watched(Start)' BY <2>6, <2>7
  <2> QED BY <1>2, <1>3, <1>6, <2>7, <2>9, <2>10, <2>11, <2>12 DEF Followed
<1>9. CASE ~Begins(n)'
  <2>1. Reads # {} /\ Starts' = Starts /\ ~(Time + dt - F[LastRead].at > MaxGap) /\ F[LastRead].code = c
    BY <1>4, <1>9
  <2>2. Start' = Start BY <2>1 DEF Start, Starts
  <2>3. Followed(tally) BY <2>1, FollowedIs
  <2>4. LastRead \in DOMAIN F /\ F[LastRead].at \in Nat /\ IsFiniteSet(Unwatched)
        /\ Unwatched \subseteq 1..F[LastRead].at /\ Cardinality(Unwatched) \in Nat
    BY <2>1, UnwatchedBefore
  <2>5. Start \in Reads /\ Start \in DOMAIN F /\ F[Start].at \in Nat /\ Start < n
    BY <1>3, <2>1, Maxima, Instants
  <2>6. ~Broken(tally, c, dt)
    <3>1. ~tally.stale
      <4>1. ~(Time - F[LastRead].at > MaxGap) BY <1>5, <2>1, <2>4, SMTT(60)
      <4> QED BY <2>3, <4>1 DEF Followed
    <3>2. tally.gap = Time - F[LastRead].at /\ tally.code = c BY <2>1, <2>3, <3>1 DEF Followed
    <3>3. ~(tally.gap + dt > MaxGap) BY <1>5, <2>1, <2>4, <3>2
    <3> QED BY <3>1, <3>2, <3>3 DEF Broken
  <2>7. ~tally.stale BY <2>6 DEF Broken
  <2>8. s = [tally EXCEPT !.since = @ + dt, !.blind = @ + (IF Seen(tally, dt) THEN 0 ELSE dt),
                          !.gap = 0, !.gapped = FALSE]
    <3>1. tally \in Slot /\ tally.used /\ (tally.stale => InGap(tally))
      BY <2>3 DEF SlotInv, Followed
    <3>2. s = AfterRead(tally, c, dt) BY <3>1, ReadStep
    <3> QED BY <2>6, <3>2 DEF AfterRead
  <2>9. /\ s.used = tally.used /\ s.code = tally.code /\ s.stale = tally.stale /\ s.exact = tally.exact
        /\ s.gap = 0 /\ s.gapped = FALSE /\ s.since = tally.since + dt
        /\ s.blind = tally.blind + (IF Seen(tally, dt) THEN 0 ELSE dt)
    BY <2>8 DEF SlotInv, Slot
  <2>10. ~InGap(s) BY <2>9 DEF InGap
  <2>11. Before(Start)' = Before(Start) /\ (Before(Start) # {} => (Watched(Start)' <=> Watched(Start)))
    <3> PICK m : m = Start OBVIOUS
    <3>1. Before(m)' = Before(m) /\ (Before(m) # {} => (Watched(m)' <=> Watched(m))) BY <1>2, <2>5
    <3> QED BY <2>2, <3>1 DEF Before, Watched, Prev, TimeTo
  <2>12. Seen(tally, dt) <=> Watched(n)'
    <3>1. CASE LastRead = Len(F)
      <4>1. Time = F[LastRead].at
        <5>1. F # <<>> BY <1>5, <2>4, <3>1
        <5> QED BY <3>1, <5>1 DEF Time
      <4>2. ~InGap(tally) BY <2>3, <3>1 DEF Followed
      <4>3. Time + dt - F[LastRead].at = dt BY <2>4, <4>1
      <4>4. Watched(n)' <=> Time + dt - F[LastRead].at =< Cadence /\ Time + dt - F[LastRead].at =< MaxGap
        BY <1>4, <2>1, <3>1
      <4> QED BY <4>2, <4>3, <4>4 DEF Seen
    <3>2. CASE LastRead # Len(F)
      <4>1. InGap(tally) BY <2>3, <3>2 DEF Followed
      <4> QED BY <1>4, <2>1, <3>2, <4>1 DEF Seen
    <3> QED BY <3>1, <3>2
  <2>13. Unwatched' = Unwatched \cup (IF Watched(n)' THEN {} ELSE (F[LastRead].at + 1)..(Time + dt))
    <3>1. \A j \in Reads : j > Start => Unseen(j)' = Unseen(j) /\ (Watched(j)' <=> Watched(j))
      BY <1>2, <2>1, UnwatchedBefore
    <3>2. n > Start /\ n \notin Reads /\ Unseen(n)' = (F[LastRead].at + 1)..(Time + dt)
      BY <1>4, <1>5, <2>1, <2>5
    <3> DEFINE A == {j \in Reads : j > Start /\ ~Watched(j)}
               B == {j \in Reads' : j > Start' /\ ~Watched(j)'}
    <3>3. B = A \cup (IF Watched(n)' THEN {} ELSE {n}) BY <1>2, <2>2, <3>1, <3>2
    <3>4. \A j \in A : Unseen(j)' = Unseen(j) BY <3>1
    <3>5. \A x : x \in Unwatched <=> \E j \in A : x \in Unseen(j) BY DEF Unwatched
    <3>6. \A x : x \in Unwatched' <=> \E j \in B : x \in Unseen(j)' BY DEF Unwatched
    <3> HIDE DEF A, B
    <3>7. ASSUME NEW x
          PROVE  x \in Unwatched' <=> x \in Unwatched \/ (~Watched(n)' /\ x \in Unseen(n)')
      BY <3>3, <3>4, <3>5, <3>6
    <3> QED BY <3>2, <3>7
  <2>14. Cardinality(Unwatched') = tally.blind + (IF Seen(tally, dt) THEN 0 ELSE dt)
    <3>1. tally.blind = Cardinality(Unwatched) + (Time - F[LastRead].at) BY <2>3, <2>7 DEF Followed
    <3>2. CASE Watched(n)'
      <4>1. Time - F[LastRead].at = 0
        <5>1. LastRead = Len(F) BY <1>4, <2>1, <3>2
        <5>2. F # <<>> BY <1>5, <2>4, <5>1
        <5>3. Time = F[LastRead].at BY <5>1, <5>2 DEF Time
        <5> QED BY <1>5, <5>3
      <4>2. Unwatched' = Unwatched BY <2>13, <3>2
      <4> QED BY <2>4, <2>12, <3>1, <3>2, <4>1, <4>2
    <3>3. CASE ~Watched(n)'
      <4> DEFINE I == (F[LastRead].at + 1)..(Time + dt)
      <4>1. Unwatched' = Unwatched \cup I BY <2>13, <3>3
      <4>2. Unwatched \cap I = {} BY <2>4
      <4>3. F[LastRead].at =< Time BY <2>4, Instants
      <4>4. IsFiniteSet(I) /\ Cardinality(I) = Time + dt - F[LastRead].at
        <5>1. F[LastRead].at + 1 \in Int /\ Time + dt \in Int BY <1>5, <2>4
        <5> PICK a, b \in Int : a = F[LastRead].at + 1 /\ b = Time + dt BY <5>1
        <5>2. IsFiniteSet(a..b) /\ Cardinality(a..b) = IF a > b THEN 0 ELSE b - a + 1 BY FS_Interval
        <5>3. I = a..b OBVIOUS
        <5> HIDE DEF I
        <5> QED BY <1>5, <2>4, <4>3, <5>2, <5>3, SMTT(60)
      <4> HIDE DEF I
      <4>5. Cardinality(Unwatched \cup I) = Cardinality(Unwatched) + Cardinality(I) - Cardinality({})
        BY <2>4, <4>2, <4>4, FS_Union
      <4>6. Cardinality({}) = 0 BY FS_EmptySet
      <4> QED BY <1>5, <2>4, <2>12, <3>1, <3>3, <4>1, <4>4, <4>5, <4>6, SMTT(60)
    <3> QED BY <3>2, <3>3
  <2>15. s.since = Time' - F'[Start'].at
    <3>1. tally.since = Time - F[Start].at BY <2>3, <2>7 DEF Followed
    <3>2. F'[Start'] = F[Start] BY <1>3, <2>2, <2>5
    <3> QED BY <1>3, <1>5, <2>5, <2>9, <3>1, <3>2
  <2>16. s.gap = Time' - F'[LastRead'].at
         /\ s.blind = Cardinality(Unwatched') + (Time' - F'[LastRead'].at)
    <3>1. Cardinality(Unwatched') \in Nat BY <2>9, <2>14 DEF SlotInv, Slot
    <3> QED BY <1>7, <2>9, <2>14, <3>1
  <2>17. ~(Time' - F'[LastRead'].at > MaxGap) BY <1>7
  <2>18. s.exact <=> Before(Start)' # {} /\ Watched(Start)' BY <2>3, <2>9, <2>11 DEF Followed
  <2>19. s.used /\ s.code = F'[LastRead'].code BY <1>3, <1>6, <2>1, <2>3, <2>9 DEF Followed
  <2> QED BY <1>2, <1>3, <1>6, <2>7, <2>9, <2>10, <2>15, <2>16, <2>17, <2>18, <2>19 DEF Followed
<1> QED BY <1>8, <1>9

LEMMA SameLog ==
  ASSUME UNCHANGED log
  PROVE  /\ Reads' = Reads /\ F' = F
         /\ LogInv => LogInv'
         /\ SlotOfLog /\ tally' = tally => SlotOfLog'
         /\ ShownInv /\ (shown' = shown \/ shown' = 0) => ShownInv'
<1>1. F' = F /\ Reads' = Reads /\ Time' = Time BY DEF F, Reads, Time
<1>2. \A i : Before(i)' = Before(i) BY <1>1 DEF Before
<1>3. \A i : Prev(i)' = Prev(i) BY <1>2 DEF Prev
<1>4. \A i : TimeTo(i)' = TimeTo(i) /\ Unseen(i)' = Unseen(i) BY <1>1, <1>3 DEF TimeTo, Unseen
<1>5. \A i : Watched(i)' <=> Watched(i) BY <1>3, <1>4 DEF Watched
<1>6. \A i : Begins(i)' <=> Begins(i) BY <1>1, <1>2, <1>3, <1>4 DEF Begins
<1>7. Starts' = Starts BY <1>1, <1>6 DEF Starts
<1>8. Start' = Start /\ LastRead' = LastRead BY <1>1, <1>6 DEF Start, LastRead
<1>9. Unwatched' = Unwatched BY <1>1, <1>4, <1>5, <1>8 DEF Unwatched
<1>10. Before(Start)' = Before(Start) /\ (Watched(Start)' <=> Watched(Start))
  <2> PICK m : m = Start OBVIOUS
  <2>1. Before(m)' = Before(m) /\ (Watched(m)' <=> Watched(m)) BY <1>2, <1>5
  <2> QED BY <1>8, <2>1 DEF Before, Watched, Prev, TimeTo
<1>11. LogInv => LogInv' BY <1>1, <1>2, <1>7 DEF LogInv, HasMax
<1>12. SlotOfLog /\ tally' = tally => SlotOfLog'
  BY <1>1, <1>8, <1>9, <1>10 DEF SlotOfLog, InGap
<1>13. ShownInv /\ (shown' = shown \/ shown' = 0) => ShownInv' BY <1>1 DEF ShownInv
<1> QED BY <1>1, <1>11, <1>12, <1>13

LEMMA EmptyLog ==
  ASSUME NEW m \in DwellModels \cup {"auto", "none"}, log' = [of |-> m, folds |-> <<>>]
  PROVE  LogInv' /\ Reads' = {} /\ log'.of = m /\ (shown' = 0 => ShownInv')
<1>1. F' = <<>> BY DEF F
<1>2. <<>> \in FoldLog /\ Len(<<>>) = 0 /\ DOMAIN <<>> = {} BY DEF FoldLog
<1>3. Reads' = {} BY <1>1, <1>2 DEF Reads
<1>4. log' \in [of : DwellModels \cup {"auto", "none"}, folds : FoldLog] BY <1>2
<1>5. LogInv' BY <1>1, <1>2, <1>3, <1>4 DEF LogInv
<1> QED BY <1>1, <1>3, <1>5 DEF ShownInv

LEMMA ReadSlot ==
  ASSUME NEW s \in Slot, NEW dt \in Nat, NEW c \in {1, 2}, s.blind =< s.since
  PROVE  /\ AfterRead(s, c, dt) \in Slot /\ ~AfterRead(s, c, dt).stale
         /\ AfterRead(s, c, dt).blind =< AfterRead(s, c, dt).since
<1> DEFINE r == AfterRead(s, c, dt)
<1>1. CASE Broken(s, c, dt)
  <2>1. Seen(s, dt) \in BOOLEAN BY DEF Seen
  <2>2. r = [Opened(c) EXCEPT !.exact = Seen(s, dt)] BY <1>1 DEF AfterRead
  <2> QED BY <2>1, <2>2, OpenedSlot
<1>2. CASE ~Broken(s, c, dt)
  <2>1. r = [s EXCEPT !.since = @ + dt, !.blind = @ + (IF Seen(s, dt) THEN 0 ELSE dt),
                      !.gap = 0, !.gapped = FALSE]
    BY <1>2 DEF AfterRead
  <2>2. s.stale = FALSE BY <1>2 DEF Broken, Slot
  <2>3. PICK b \in Nat : b = (IF Seen(s, dt) THEN 0 ELSE dt) /\ b =< dt OBVIOUS
  <2>4. DOMAIN s = {"used", "code", "since", "blind", "gap", "gapped", "exact", "stale"} BY DEF Slot
  <2>5. r = [used |-> s.used, code |-> s.code, since |-> s.since + dt, blind |-> s.blind + b, gap |-> 0,
             gapped |-> FALSE, exact |-> s.exact, stale |-> FALSE]
    BY <2>1, <2>2, <2>3, <2>4
  <2>6. /\ s.used \in BOOLEAN /\ s.code \in 0..2 /\ s.exact \in BOOLEAN
        /\ s.since + dt \in Nat /\ s.blind + b \in Nat /\ s.blind + b =< s.since + dt
    BY <2>3 DEF Slot
  <2> HIDE DEF r
  <2>7. r \in Slot BY <2>5, <2>6 DEF Slot
  <2>8. r.blind =< r.since /\ ~r.stale BY <2>5, <2>6
  <2> QED BY <2>7, <2>8 DEF r
<1> QED BY <1>1, <1>2

-----------------------------------------------------------------------------
(* Dwell: every step keeps the invariant *)

LEMMA DwellInitIInv == DwellInit => DwellIInv
<1> SUFFICES ASSUME DwellInit PROVE DwellIInv OBVIOUS
<1>1. F = <<>> BY DEF DwellInit, Nothing, F
<1>2. <<>> \in FoldLog /\ Len(<<>>) = 0 /\ DOMAIN <<>> = {} BY DEF FoldLog
<1>3. Reads = {} BY <1>1, <1>2 DEF Reads
<1>4. log \in [of : DwellModels \cup {"auto", "none"}, folds : FoldLog] BY <1>2 DEF DwellInit, Nothing
<1>5. LogInv BY <1>1, <1>2, <1>3, <1>4 DEF LogInv
<1>6. SlotInv /\ SlotOfLog BY <1>3, UnusedSlot DEF DwellInit, SlotInv, SlotOfLog, Unused
<1>7. UnitInv BY <1>3 DEF DwellInit, UnitInv, Between
<1>8. ShownInv BY DEF DwellInit, ShownInv
<1> QED BY <1>5, <1>6, <1>7, <1>8 DEF DwellIInv

LEMMA FoldKept == DwellIInv /\ Fold => DwellIInv'
<1> SUFFICES ASSUME DwellIInv, Fold PROVE DwellIInv' OBVIOUS
<1>1. SlotInv /\ LogInv /\ UnitInv /\ ShownInv /\ (~Between => SlotOfLog) BY DEF DwellIInv
<1>2. Len(F) < MaxLog /\ forms.todo = <<>> /\ UNCHANGED <<inUse, forms>> BY DEF Fold, F
<1>3. CASE dwell.reset
  <2>1. /\ dwell' = [dwell EXCEPT !.reset = FALSE, !.last = FALSE] /\ tally' = Unused
        /\ label' = dwell.model /\ shown' = 0 /\ UNCHANGED log
    BY <1>3 DEF Fold
  <2>2. Reads = {} BY <1>1, <1>3 DEF UnitInv, Between
  <2>3. LogInv' /\ ShownInv' /\ Reads' = {} BY <1>1, <2>1, <2>2, SameLog
  <2>4. SlotInv' /\ SlotOfLog' BY <2>1, <2>3, UnusedSlot DEF SlotInv, SlotOfLog
  <2>5. UnitInv'
    <3>1. /\ dwell'.reset = FALSE /\ dwell'.model = dwell.model /\ dwell'.grace = dwell.grace
          /\ dwell' \in [last : BOOLEAN, reset : BOOLEAN, grace : BOOLEAN, model : DwellModels \cup {"none"}]
      BY <1>1, <2>1 DEF UnitInv
    <3>2. label' \in DwellModels \cup {"none"} /\ log'.of = log.of BY <1>1, <2>1, <3>1 DEF UnitInv
    <3>3. shown' = 0 /\ ~Between' BY <1>2, <2>1, <3>1 DEF Between
    <3> QED BY <1>1, <1>2, <2>3, <3>1, <3>2, <3>3, SMTT(60) DEF UnitInv
  <2> QED BY <2>3, <2>4, <2>5 DEF DwellIInv
<1>4. CASE ~dwell.reset
  <2>1. SlotOfLog BY <1>1, <1>2, <1>4 DEF Between
  <2>2. PICK dt \in Nat, code \in 0..2 :
          /\ inUse.now = "auto" => code = 0
          /\ dwell' = [dwell EXCEPT !.last = TRUE]
          /\ tally' = StepWithCadence(tally, code, dt)
          /\ label' = dwell.model /\ shown' = code /\ Logged(dt, code)
    <3>1. PICK p \in Pauses, code \in 0..2 :
            /\ inUse.now = "auto" => code = 0
            /\ dwell' = [dwell EXCEPT !.last = TRUE]
            /\ tally' = StepWithCadence(tally, code, IF dwell.last THEN p ELSE 0)
            /\ label' = dwell.model /\ shown' = code /\ Logged(IF dwell.last THEN p ELSE 0, code)
      BY <1>4 DEF Fold
    <3>2. (IF dwell.last THEN p ELSE 0) \in Nat OBVIOUS
    <3> QED BY <3>1, <3>2
  <2>3. LogInv' BY <1>1, <1>2, <2>2, LogKept
  <2>4. Reads' = Reads \cup (IF code = 0 THEN {} ELSE {Len(F) + 1}) /\ log'.of = log.of
    <3> PICK n \in Nat : n = Len(F) + 1 BY <1>1, Instants
    <3> QED BY <1>1, <2>2, ReadsGrow, LogGrows
  <2>5. ShownInv'
    <3>1. Len(F') = Len(F) + 1 /\ F'[Len(F) + 1] = [at |-> Time + dt, code |-> code] /\ F' # <<>>
      BY <1>1, <2>2, LogGrows
    <3>2. F'[Len(F')].code = code BY <3>1
    <3> QED BY <2>2, <3>1, <3>2 DEF ShownInv
  <2>6. SlotInv' /\ SlotOfLog'
    <3>1. PICK s : s = tally' OBVIOUS
    <3>2. tally \in Slot /\ tally.blind =< tally.since /\ (tally.stale => InGap(tally))
      BY <1>1 DEF SlotInv
    <3>3. CASE code = 0
      <4>1. s = IF ~tally.used \/ tally.stale THEN tally ELSE Blind(tally, dt)
        <5>1. s = Step(tally, 0, dt) BY <2>2, <3>1, <3>3 DEF StepWithCadence
        <5> QED BY <3>2, <5>1, UnreadStep
      <4>2. CASE ~tally.used \/ tally.stale
        <5>1. s = tally BY <4>1, <4>2
        <5>2. (Reads' = {} => s = Unused) /\ (Reads' # {} => Followed(s)')
          BY <1>1, <2>1, <2>2, <3>2, <3>3, <4>2, <5>1, UnreadKept
        <5> QED BY <3>1, <3>2, <5>1, <5>2 DEF SlotInv, SlotOfLog, Followed, InGap
      <4>3. CASE ~(~tally.used \/ tally.stale)
        <5>1. s = Blind(tally, dt) BY <4>1, <4>3
        <5>2. /\ s \in Slot /\ InGap(s) /\ s.used = tally.used /\ s.code = tally.code
              /\ s.exact = tally.exact /\ s.since = tally.since + dt /\ s.blind = tally.blind + dt
              /\ s.gap = tally.gap + dt /\ s.stale = (tally.gap + dt > MaxGap)
          BY <3>2, <5>1, BlindSlot
        <5>3. (Reads' = {} => s = Unused) /\ (Reads' # {} => Followed(s)')
          BY <1>1, <2>1, <2>2, <3>2, <3>3, <4>3, <5>2, UnreadKept
        <5>4. s.blind =< s.since BY <3>2, <5>2 DEF Slot
        <5> QED BY <3>1, <5>2, <5>3, <5>4 DEF SlotInv, SlotOfLog, Followed, InGap
      <4> QED BY <4>2, <4>3
    <3>4. CASE code # 0
      <4>1. code \in {1, 2} /\ s = StepWithCadence(tally, code, dt) BY <2>2, <3>1, <3>4
      <4>2. Reads' # {} /\ Followed(s)' BY <1>1, <2>1, <2>2, <4>1, ReadKept
      <4>3. s \in Slot /\ s.blind =< s.since /\ ~s.stale
        <5>1. CASE tally.used
          <6>1. s = AfterRead(tally, code, dt) BY <3>2, <4>1, <5>1, ReadStep
          <6> QED BY <3>2, <4>1, <6>1, ReadSlot
        <5>2. CASE ~tally.used
          <6>1. ~tally.used /\ tally = Unused BY <2>1, <5>2 DEF SlotOfLog
          <6>2. s = Opened(code) BY <4>1, <6>1, OpenedStep
          <6> QED BY <4>1, <6>2, OpenedSlot
        <5> QED BY <5>1, <5>2
      <4> QED BY <3>1, <4>2, <4>3 DEF SlotInv, SlotOfLog, Followed, InGap
    <3> QED BY <3>3, <3>4
  <2>7. UnitInv'
    <3>1. ~Between' BY <1>2, <1>4, <2>2 DEF Between
    <3>2. dwell'.model = dwell.model /\ dwell'.grace = dwell.grace /\ dwell'.reset = dwell.reset
      BY <2>2
    <3> QED BY <1>1, <1>2, <2>2, <2>4, <3>1, <3>2 DEF UnitInv
  <2> QED BY <2>3, <2>5, <2>6, <2>7 DEF DwellIInv
<1> QED BY <1>3, <1>4

LEMMA FormKept == DwellIInv /\ Form => DwellIInv'
<1> SUFFICES ASSUME DwellIInv, Form PROVE DwellIInv' OBVIOUS
<1>1. SlotInv /\ UnitInv BY DEF DwellIInv
<1>2. PICK m \in DwellModels \cup {"auto"} :
        /\ inUse' = [set |-> m, now |-> m]
        /\ forms' = [made |-> forms.made + 1,
                     todo |-> IF m = "auto" THEN <<"reset">> ELSE <<"reset", "on">>]
        /\ log' = [of |-> m, folds |-> <<>>] /\ shown' = 0 /\ UNCHANGED <<tally, label, dwell>>
  BY DEF Form
<1>3. LogInv' /\ Reads' = {} /\ ShownInv' BY <1>2, EmptyLog
<1>4. forms'.todo = (IF m = "auto" THEN <<"reset">> ELSE <<"reset", "on">>) /\ DOMAIN forms' = {"made", "todo"}
  BY <1>2
<1>5. forms'.todo # <<>> /\ forms'.todo # <<"on">> BY <1>4
<1>6. Between' BY <1>5 DEF Between
<1>7. SlotInv' BY <1>1, <1>2 DEF SlotInv, InGap
<1>8. UnitInv' BY <1>1, <1>2, <1>3, <1>4, <1>5 DEF UnitInv
<1> QED BY <1>3, <1>6, <1>7, <1>8 DEF DwellIInv

LEMMA ResetOnIs ==
  ASSUME UnitInv, NEW m \in DwellModels, ResetOn(m)
  PROVE  /\ dwell' \in [last : BOOLEAN, reset : BOOLEAN, grace : BOOLEAN, model : DwellModels \cup {"none"}]
         /\ dwell'.model = m
         /\ IF dwell.grace /\ m = dwell.model THEN dwell'.reset = dwell.reset ELSE dwell'.reset = TRUE
BY DEF UnitInv, ResetOn

LEMMA FormCallsKept == DwellIInv /\ FormCalls => DwellIInv'
<1> SUFFICES ASSUME DwellIInv, FormCalls PROVE DwellIInv' OBVIOUS
<1>1. SlotInv /\ UnitInv /\ LogInv /\ ShownInv BY DEF DwellIInv
<1>2. /\ forms.todo # <<>> /\ forms' = [forms EXCEPT !.todo = Tail(@)]
      /\ IF Head(forms.todo) = "reset" THEN dwell' = [dwell EXCEPT !.reset = TRUE]
         ELSE ResetOn(inUse.set)
      /\ UNCHANGED <<tally, label, inUse, shown, log>>
  BY DEF FormCalls
<1>3. Reads = {} /\ Between BY <1>1, <1>2 DEF UnitInv, Between
<1>4. LogInv' /\ ShownInv' /\ Reads' = {} BY <1>1, <1>2, <1>3, SameLog
<1>5. SlotInv' BY <1>1, <1>2 DEF SlotInv, InGap
<1>6. forms'.todo = Tail(forms.todo) /\ DOMAIN forms' = {"made", "todo"} BY <1>1, <1>2 DEF UnitInv
<1>7. CASE forms.todo \in {<<"reset">>, <<"reset", "on">>}
  <2>1. Head(forms.todo) = "reset"
        /\ Tail(forms.todo) = IF forms.todo = <<"reset">> THEN <<>> ELSE <<"on">>
    <3>1. CASE forms.todo = <<"reset">> BY <3>1
    <3>2. CASE forms.todo = <<"reset", "on">> BY <3>2
    <3> QED BY <1>7, <3>1, <3>2
  <2>2. dwell' = [dwell EXCEPT !.reset = TRUE] BY <1>2, <2>1
  <2>3. /\ dwell'.reset = TRUE /\ dwell'.model = dwell.model
        /\ dwell' \in [last : BOOLEAN, reset : BOOLEAN, grace : BOOLEAN, model : DwellModels \cup {"none"}]
    BY <1>1, <2>2 DEF UnitInv
  <2>4. forms.todo = <<"reset">> => Tail(forms.todo) = <<>> BY <2>1
  <2>5. forms.todo # <<"reset">> => Tail(forms.todo) = <<"on">> /\ inUse.set # "auto"
    BY <1>1, <1>7, <2>1 DEF UnitInv
  <2>6. Between' BY <2>3 DEF Between
  <2>7. UnitInv' BY <1>1, <1>2, <1>3, <1>4, <1>6, <2>3, <2>4, <2>5 DEF UnitInv
  <2> QED BY <1>4, <1>5, <2>6, <2>7 DEF DwellIInv
<1>8. CASE forms.todo = <<"on">>
  <2>1. Head(forms.todo) # "reset" /\ Tail(forms.todo) = <<>> BY <1>8
  <2>2. dwell.reset /\ inUse.set # "auto" /\ inUse.set \in DwellModels BY <1>1, <1>8 DEF UnitInv
  <2>3. ResetOn(inUse.set) BY <1>2, <2>1
  <2>4. /\ dwell' \in [last : BOOLEAN, reset : BOOLEAN, grace : BOOLEAN, model : DwellModels \cup {"none"}]
        /\ dwell'.reset
    BY <1>1, <2>2, <2>3, ResetOnIs
  <2>5. Between' BY <2>4 DEF Between
  <2>6. UnitInv' BY <1>1, <1>2, <1>3, <1>4, <1>6, <2>1, <2>2, <2>4 DEF UnitInv
  <2> QED BY <1>4, <1>5, <2>5, <2>6 DEF DwellIInv
<1> QED BY <1>1, <1>2, <1>7, <1>8 DEF UnitInv

LEMMA DetectsKept == DwellIInv /\ Detects => DwellIInv'
<1> SUFFICES ASSUME DwellIInv, Detects PROVE DwellIInv' OBVIOUS
<1>1. SlotInv /\ UnitInv /\ LogInv /\ ShownInv /\ (~Between => SlotOfLog) BY DEF DwellIInv
<1>2. PICK m \in DwellModels : inUse' = [inUse EXCEPT !.now = m] /\ ResetOn(m) /\ LogOf(m)
  BY DEF Detects
<1>3. inUse.now = "auto" /\ forms.todo = <<>> /\ UNCHANGED <<tally, label, forms, shown>> BY DEF Detects
<1>4. /\ inUse.set = "auto" /\ shown = 0 /\ m # "auto"
      /\ inUse'.set = "auto" /\ inUse'.now = m
      /\ inUse' \in [set : DwellModels \cup {"auto"}, now : DwellModels \cup {"auto"}]
  BY <1>1, <1>2, <1>3 DEF UnitInv
<1>5. /\ dwell' \in [last : BOOLEAN, reset : BOOLEAN, grace : BOOLEAN, model : DwellModels \cup {"none"}]
      /\ dwell'.model = m
      /\ IF dwell.grace /\ m = dwell.model THEN dwell'.reset = dwell.reset ELSE dwell'.reset = TRUE
  BY <1>1, <1>2, ResetOnIs
<1>6. SlotInv' BY <1>1, <1>3 DEF SlotInv, InGap
<1>7. CASE log.of = m
  <2>1. UNCHANGED log BY <1>2, <1>7 DEF LogOf
  <2>2. LogInv' /\ ShownInv' /\ Reads' = Reads /\ (SlotOfLog => SlotOfLog') BY <1>1, <1>3, <2>1, SameLog
  <2>3. Reads # {} => ~Between /\ dwell.model = m /\ label = m /\ dwell.grace
    BY <1>1, <1>3, <1>4, <1>7 DEF UnitInv
  <2>4. Reads # {} => dwell'.reset = dwell.reset BY <1>5, <2>3
  <2>5. Between' => Reads = {} BY <1>3, <2>3, <2>4 DEF Between
  <2>6. UnitInv' BY <1>1, <1>3, <1>4, <1>5, <1>7, <2>1, <2>2, <2>3, <2>5 DEF UnitInv
  <2>7. ~Between' => SlotOfLog'
    <3> SUFFICES ASSUME ~Between' PROVE SlotOfLog' OBVIOUS
    <3>1. ~dwell'.reset BY DEF Between
    <3>2. ~dwell.reset BY <1>5, <3>1
    <3> QED BY <1>1, <1>3, <2>2, <3>2 DEF Between
  <2> QED BY <1>6, <2>2, <2>6, <2>7 DEF DwellIInv
<1>8. CASE log.of # m
  <2>1. log' = [of |-> m, folds |-> <<>>] BY <1>2, <1>8 DEF LogOf
  <2>2. LogInv' /\ ShownInv' /\ Reads' = {} /\ log'.of = m BY <1>3, <1>4, <2>1, EmptyLog
  <2>3. UnitInv' BY <1>1, <1>3, <1>4, <1>5, <2>2 DEF UnitInv
  <2>4. ~Between' => SlotOfLog'
    <3> SUFFICES ASSUME ~Between' PROVE SlotOfLog' OBVIOUS
    <3>1. ~dwell'.reset BY DEF Between
    <3>2. ~dwell.reset /\ m = dwell.model BY <1>5, <3>1
    <3>3. Reads = {} BY <1>1, <1>3, <1>4, <1>8, <3>2 DEF UnitInv
    <3>4. tally = Unused BY <1>1, <1>3, <3>2, <3>3 DEF Between, SlotOfLog
    <3> QED BY <1>3, <2>2, <3>4 DEF SlotOfLog
  <2> QED BY <1>6, <2>2, <2>3, <2>4 DEF DwellIInv
<1> QED BY <1>7, <1>8

LEMMA AdoptedSlot ==
  ASSUME NEW s \in Slot, s.used, ~s.stale, s.blind =< s.since
  PROVE  /\ Adopted(s) \in Slot /\ InGap(Adopted(s)) /\ Adopted(s).blind =< Adopted(s).since
         /\ Adopted(s).used = s.used /\ Adopted(s).code = s.code /\ Adopted(s).exact = s.exact
         /\ Adopted(s).since = s.since + Reboot /\ Adopted(s).blind = s.blind + Reboot
         /\ Adopted(s).gap = s.gap + Reboot /\ Adopted(s).stale = (s.gap + Reboot > MaxGap)
<1> DEFINE b == Blind(s, Reboot)
           r == [b EXCEPT !.gapped = s.gapped]
<1>1. /\ b \in Slot /\ b.used = s.used /\ b.code = s.code /\ b.exact = s.exact
      /\ b.since = s.since + Reboot /\ b.blind = s.blind + Reboot
      /\ b.gap = s.gap + Reboot /\ b.stale = (s.gap + Reboot > MaxGap)
  BY BlindSlot
<1> HIDE DEF b
<1>2. Adopted(s) = r BY DEF Adopted, b
<1>3. DOMAIN b = {"used", "code", "since", "blind", "gap", "gapped", "exact", "stale"} BY <1>1 DEF Slot
<1>4. /\ r.used = b.used /\ r.code = b.code /\ r.exact = b.exact /\ r.since = b.since
      /\ r.blind = b.blind /\ r.gap = b.gap /\ r.stale = b.stale
  BY <1>3
<1>5. r \in Slot BY <1>1 DEF Slot
<1> HIDE DEF r
<1>6. s.gap \in Nat /\ s.blind \in Nat /\ s.since \in Nat BY DEF Slot
<1>7. r.gap # 0 /\ r.blind =< r.since BY <1>1, <1>4, <1>6
<1>8. InGap(r) BY <1>7 DEF InGap
<1> QED BY <1>1, <1>2, <1>4, <1>5, <1>7, <1>8

LEMMA BoardRestartsKept ==
  ASSUME ~RestartMidForm, DwellIInv, BoardRestarts PROVE DwellIInv'
<1>1. SlotInv /\ UnitInv /\ LogInv /\ ShownInv /\ (~Between => SlotOfLog) BY DEF DwellIInv
<1>2. /\ Len(F) < MaxLog /\ ~Between /\ shown' = 0
      /\ inUse' = [inUse EXCEPT !.now = inUse.set] /\ forms' = [forms EXCEPT !.todo = <<>>]
  BY DEF BoardRestarts, Between, F
<1>3. /\ forms'.todo = <<>> /\ DOMAIN forms' = {"made", "todo"}
      /\ inUse'.set = inUse.set /\ inUse'.now = inUse.set
      /\ inUse' \in [set : DwellModels \cup {"auto"}, now : DwellModels \cup {"auto"}]
  BY <1>1, <1>2 DEF UnitInv
<1>4. CASE /\ tally' = Adopted(tally) /\ label' = label
           /\ dwell' = [last |-> TRUE, reset |-> FALSE, grace |-> TRUE, model |-> label]
           /\ Logged(Reboot, 0)
  <2>1. 0 \in 0..2 /\ Reboot \in Nat OBVIOUS
  <2>2. LogInv' BY <1>1, <1>2, <1>4, <2>1, LogKept
  <2>3. Reads' = Reads /\ log'.of = log.of
    <3> PICK n \in Nat : n = Len(F) + 1 BY <1>1, Instants
    <3> QED BY <1>1, <1>4, <2>1, ReadsGrow, LogGrows
  <2>4. tally \in Slot /\ tally.blind =< tally.since BY <1>1 DEF SlotInv
  <2>5. SlotInv' /\ SlotOfLog'
    <3>1. PICK s : s = tally' OBVIOUS
    <3>2. CASE ~tally.used \/ tally.stale
      <4>1. s = tally BY <1>4, <3>1, <3>2 DEF Adopted
      <4>2. (Reads' = {} => s = Unused) /\ (Reads' # {} => Followed(s)')
        BY <1>1, <1>2, <1>4, <2>1, <2>4, <3>2, <4>1, UnreadKept
      <4> QED BY <1>1, <3>1, <4>1, <4>2 DEF SlotInv, SlotOfLog, Followed, InGap
    <3>3. CASE ~(~tally.used \/ tally.stale)
      <4>1. /\ s \in Slot /\ InGap(s) /\ s.blind =< s.since
            /\ s.used = tally.used /\ s.code = tally.code /\ s.exact = tally.exact
            /\ s.since = tally.since + Reboot /\ s.blind = tally.blind + Reboot
            /\ s.gap = tally.gap + Reboot /\ s.stale = (tally.gap + Reboot > MaxGap)
        BY <1>4, <2>4, <3>1, <3>3, AdoptedSlot
      <4>2. (Reads' = {} => s = Unused) /\ (Reads' # {} => Followed(s)')
        BY <1>1, <1>2, <1>4, <2>1, <3>3, <4>1, UnreadKept
      <4> QED BY <3>1, <4>1, <4>2 DEF SlotInv, SlotOfLog, Followed, InGap
    <3> QED BY <3>2, <3>3
  <2>6. UnitInv'
    <3>1. /\ dwell'.model = label /\ dwell'.grace = TRUE /\ dwell'.reset = FALSE
          /\ dwell' \in [last : BOOLEAN, reset : BOOLEAN, grace : BOOLEAN, model : DwellModels \cup {"none"}]
      BY <1>1, <1>4 DEF UnitInv
    <3> QED BY <1>1, <1>2, <1>3, <1>4, <2>3, <3>1 DEF UnitInv, Between
  <2>7. ShownInv' BY <1>2 DEF ShownInv
  <2> QED BY <2>2, <2>5, <2>6, <2>7 DEF DwellIInv
<1>5. CASE /\ tally' = Unused /\ label' = "none"
           /\ dwell' = [last |-> FALSE, reset |-> FALSE, grace |-> FALSE, model |-> "none"]
           /\ log' = [log EXCEPT !.folds = <<>>]
  <2>1. log.of \in DwellModels \cup {"auto", "none"} /\ log' = [of |-> log.of, folds |-> <<>>]
    BY <1>1, <1>5 DEF LogInv
  <2>2. LogInv' /\ Reads' = {} /\ ShownInv' /\ log'.of = log.of BY <1>2, <2>1, EmptyLog
  <2>3. SlotInv' /\ SlotOfLog' BY <1>5, <2>2, UnusedSlot DEF SlotInv, SlotOfLog, InGap
  <2>4. dwell'.reset = FALSE
        /\ dwell' \in [last : BOOLEAN, reset : BOOLEAN, grace : BOOLEAN, model : DwellModels \cup {"none"}]
    BY <1>5
  <2>5. UnitInv' BY <1>1, <1>2, <1>3, <1>5, <2>2, <2>4 DEF UnitInv, Between
  <2> QED BY <2>2, <2>3, <2>5 DEF DwellIInv
<1> QED BY <1>4, <1>5 DEF BoardRestarts

LEMMA DwellStutters == DwellIInv /\ UNCHANGED dwellVars => DwellIInv'
<1> SUFFICES ASSUME DwellIInv, UNCHANGED dwellVars PROVE DwellIInv' OBVIOUS
<1>1. UNCHANGED <<tally, label, dwell, inUse, forms, shown, log>> BY DEF dwellVars
<1>2. LogInv' /\ ShownInv' /\ Reads' = Reads /\ (SlotOfLog => SlotOfLog') BY <1>1, SameLog DEF DwellIInv
<1>3. SlotInv' /\ (Between' <=> Between) BY <1>1 DEF DwellIInv, SlotInv, InGap, Between
<1>4. UnitInv' BY <1>1, <1>2, <1>3 DEF DwellIInv, UnitInv
<1> QED BY <1>2, <1>3, <1>4 DEF DwellIInv

(* The slot follows the log of its unit through every fold, form, detection *)
(* and restart, unless a restart falls between a form and the next fold.    *)
THEOREM DwellInductive ==
  ASSUME ~RestartMidForm PROVE DwellIInv /\ [DwellNext]_dwellVars => DwellIInv'
BY FoldKept, FormKept, FormCallsKept, DetectsKept, BoardRestartsKept, DwellStutters DEF DwellNext

LEMMA DwellIInvExact == DwellIInv => AgesExact
<1> SUFFICES ASSUME DwellIInv PROVE AgesExact OBVIOUS
<1>1. SlotInv /\ LogInv /\ UnitInv /\ ShownInv /\ (~Between => SlotOfLog) BY DEF DwellIInv
<1>2. DwellTypeOK
  BY <1>1 DEF DwellTypeOK, SlotInv, Slot, LogInv, UnitInv, ShownInv, F
<1>3. ASSUME shown # 0, ~dwell.reset, forms.todo = <<>> PROVE Reading = Allowed
  <2>1. SlotOfLog BY <1>1, <1>3 DEF Between
  <2>2. F # <<>> /\ F[Len(F)].code = shown /\ Len(F) \in Nat BY <1>1, <1>3, Instants DEF ShownInv
  <2>3. DOMAIN F = 1..Len(F) /\ Len(F) # 0 BY <1>1, <2>2, Instants, LenProperties, EmptySeq DEF FoldLog
  <2>4. Len(F) \in Reads /\ \A i \in Reads : i =< Len(F) BY <1>3, <2>2, <2>3 DEF Reads
  <2>5. LastRead = Len(F) BY <1>1, <2>4, MaxOnly, Instants DEF LastRead
  <2>6. Followed(tally) /\ Reads # {} BY <2>1, <2>4, FollowedIs
  <2>7. Time = F[LastRead].at /\ F[LastRead].at \in Nat BY <1>1, <2>2, <2>4, <2>5, Instants DEF Time
  <2>8. Time - F[LastRead].at = 0 /\ ~(Time - F[LastRead].at > MaxGap) BY <2>7
  <2>9. ~tally.stale /\ tally.code = shown BY <2>2, <2>5, <2>6, <2>8 DEF Followed
  <2>10. Reading = [known |-> TRUE, exact |-> tally.exact, since |-> tally.since, blind |-> tally.blind]
    BY <1>3, <2>9 DEF Reading
  <2>11. Cardinality(Unwatched) \in Nat BY <1>1, <2>6, UnwatchedBefore
  <2>12. tally.since = F[Sets!Max(Reads)].at - F[Start].at /\ tally.blind = Cardinality(Unwatched)
    BY <2>6, <2>7, <2>8, <2>9, <2>11 DEF Followed, LastRead
  <2>13. tally.exact = (Before(Start) # {} /\ Watched(Start))
    <3>1. tally.exact \in BOOLEAN BY <1>1 DEF SlotInv, Slot
    <3>2. (Before(Start) # {} /\ Watched(Start)) \in BOOLEAN BY DEF Watched
    <3> QED BY <2>6, <3>1, <3>2 DEF Followed
  <2> QED BY <2>10, <2>12, <2>13 DEF Allowed
<1> QED BY <1>2, <1>3 DEF AgesExact

(* The age shown beside a switched row is the one its reads justify, for    *)
(* every gap limit, cadence and set of pauses: where it begins, how much of *)
(* it no sweep watched, and whether its beginning was seen                  *)
(* (logic/state_dwell.hpp, dwell_step and its adoption after a reset).      *)
THEOREM AgesAlwaysExact == ASSUME ~RestartMidForm PROVE DwellSpec => []AgesExact
<1>1. DwellInit => DwellIInv BY DwellInitIInv
<1>2. DwellIInv /\ [DwellNext]_dwellVars => DwellIInv' BY DwellInductive
<1>3. DwellIInv => AgesExact BY DwellIInvExact
<1> QED BY <1>1, <1>2, <1>3, PTL DEF DwellSpec

-----------------------------------------------------------------------------
-----------------------------------------------------------------------------
(* TankLoss: what the filter says of the ghost *)

Filters  == [at : Int, open : BOOLEAN, begun : Int, carried : Int, blind : Nat, blindRun : Nat,
             charge : 0..ChargeMin, settle : 0..Settle, hold : 0..Settle, endKnown : BOOLEAN]
Handoffs == [valid : BOOLEAN, open : BOOLEAN, age : Int, blind : Nat, blindRun : Nat,
             charge : 0..ChargeMin, settle : 0..Settle]
Tales    == [from : Int, good : Int, spare : Int, worst : Int, dark : Int, rested : BOOLEAN]
Stories  == [tale : Tales, hot : BOOLEAN, span : Nat, rest : Nat, last : Int]
TankShape ==
  /\ moment \in 0..LastMoment /\ booted \in 0..moment /\ sourced \in BOOLEAN
  /\ filter \in Filters /\ handoff \in Handoffs /\ told \in Stories

(* The filter's last sample is the ghost's.                                 *)
LastSeen == booted + filter.at
SampleInv ==
  sourced => IF filter.at = No THEN told.last = No /\ ~filter.open
             ELSE told.last = LastSeen /\ filter.at \in 0..Clock

(* What may have been a long charge is waited out: either the filter will   *)
(* say so once it reads that the charge is over, or what is left to wait is *)
(* as long as what the tank has not rested yet.                             *)
LongCharge(f) == f.charge > 0 /\ f.charge + f.blindRun >= ChargeMin
ChargeInv(f, hold, y) ==
  /\ y.span =< f.charge + f.blindRun /\ (y.hot => f.charge > 0)
  /\ LongCharge(f) \/ y.rest + f.settle >= Settle \/ y.rest + hold >= Settle
  /\ f.open => y.tale.rested /\ f.charge = 0 /\ f.settle = 0 /\ hold = 0

(* The candidate's age is real time, and what it was out of sight since the *)
(* last good sample is blind.                                               *)
Gone(t, last) == Higher(0, last - t.good - (t.spare - Lapse))
TaleInv(f, age, last, t) ==
  f.open =>
    /\ t.from \in 0..t.good /\ t.good =< last /\ age = last - t.from
    /\ t.spare >= Lapse /\ t.worst \in 0..BlindRun /\ t.dark \in 0..(t.good - t.from)
    /\ Gone(t, last) =< f.blindRun /\ t.dark + Gone(t, last) =< f.blind
FilterInv ==
  sourced =>
    /\ ChargeInv(filter, filter.hold, told)
    /\ TaleInv(filter, filter.at - filter.begun + filter.carried, LastSeen, told.tale)
    /\ filter.open => filter.blindRun =< BlindRun
HandoffInv ==
  handoff.valid =>
    /\ ~sourced /\ booted >= Down
    /\ ChargeInv(handoff, 0, told)
    /\ TaleInv(handoff, handoff.age, booted - Down, told.tale)
RestInv == ~sourced => filter = FreshFilter
WindowInv ==
  \/ counted = NoWindow
  \/ /\ counted.from # No /\ counted.to - counted.from \in Quiet..Quiet + Grace
     /\ counted.rested /\ counted.worst =< BlindRun
     /\ counted.observed =< counted.to - counted.from - counted.dark
TankIInv == TankShape /\ SampleInv /\ FilterInv /\ HandoffInv /\ RestInv /\ WindowInv

-----------------------------------------------------------------------------
(* TankLoss: a sample *)

LEMMA TankBounds ==
  /\ Quiet \in Nat /\ Grace \in Nat /\ Settle \in Nat /\ BlindRun \in Nat /\ BlindMax \in Nat
  /\ Down \in Nat /\ LastMoment \in Nat /\ ChargeMin \in Nat \ {0} /\ Lapse \in Nat \ {0}
BY TankAssumption

LEMMA TankFresh ==
  /\ FreshFilter \in Filters /\ NoHandoff \in Handoffs /\ NewStory \in Stories /\ NewTale \in Tales
  /\ ~FreshFilter.open /\ ~NoHandoff.valid /\ FreshFilter.at = No /\ NewStory.last = No
  /\ ChargeInv(FreshFilter, FreshFilter.hold, NewStory)
<1>1. NewTale \in Tales BY TankBounds DEF NewTale, Tales, No
<1>2. NewStory \in Stories BY <1>1 DEF NewStory, Stories, No
<1>3. FreshFilter \in Filters /\ NoHandoff \in Handoffs
  BY TankBounds DEF FreshFilter, NoHandoff, Filters, Handoffs, No
<1>4. ChargeInv(FreshFilter, FreshFilter.hold, NewStory)
  BY TankBounds DEF ChargeInv, FreshFilter, NewStory, LongCharge
<1> QED BY <1>1, <1>2, <1>3, <1>4 DEF FreshFilter, NoHandoff, NewStory

(* What the ghost makes of a sample, and how long ago the last one was.     *)
SinceLast == IF filter.at = No THEN 0 ELSE Clock - filter.at
Near      == filter.at # No /\ SinceLast =< Lapse
SpanTold(s) == told.span + (IF s.heat = "off" \/ (s.heat = "unread" /\ s.temp = "bad")
                            THEN 0 ELSE SinceLast)
HotTold(s)  == told.hot \/ s.heat = "on"
LongTold(s) == HotTold(s) /\ SpanTold(s) >= ChargeMin
LEMMA Looking ==
  ASSUME TankIInv, sourced, filter.at < Clock, NEW s \in Looks
  PROVE  LET y == Saw(s)
         IN  /\ SinceLast \in Nat /\ Near \in BOOLEAN
             /\ filter.at # No => SinceLast > 0 /\ moment = LastSeen + SinceLast
             /\ y \in Stories /\ y.last = moment /\ y.tale = told.tale
             /\ y.span = IF s.heat = "off" THEN 0 ELSE Lower(ChargeMin, SpanTold(s))
             /\ y.hot <=> s.heat # "off" /\ HotTold(s)
             /\ y.rest = Lower(Settle, (IF LongTold(s) THEN 0 ELSE told.rest)
                                         + (IF s.heat = "off" /\ Near THEN SinceLast ELSE 0))
<1>1. /\ moment \in Nat /\ booted \in 0..moment /\ filter \in Filters /\ told \in Stories
      /\ IF filter.at = No THEN told.last = No
         ELSE told.last = booted + filter.at /\ filter.at \in 0..Clock
  BY TankBounds DEF TankIInv, TankShape, SampleInv, LastSeen
<1>2. filter.at \in Int /\ Clock \in Nat BY <1>1 DEF Filters, Clock
<1>3. told.last \in Int /\ told.span \in Nat /\ told.rest \in Nat /\ told.hot \in BOOLEAN
      /\ told.tale \in Tales
  BY <1>1 DEF Stories
<1> DEFINE dt == IF told.last = No THEN 0 ELSE moment - told.last
<1>4. dt = SinceLast BY <1>1, <1>2 DEF SinceLast, Clock, No
<1>5. SinceLast \in Nat /\ (filter.at # No => SinceLast > 0 /\ moment = LastSeen + SinceLast)
  BY <1>1, <1>2 DEF SinceLast, LastSeen, Clock
<1>6. told.last # No <=> filter.at # No BY <1>1 DEF No
<1> DEFINE rest == Lower(Settle, (IF LongTold(s) THEN 0 ELSE told.rest)
                                  + (IF s.heat = "off" /\ Near THEN SinceLast ELSE 0))
           span1 == IF s.heat = "off" THEN 0 ELSE Lower(ChargeMin, SpanTold(s))
           hot1 == s.heat # "off" /\ HotTold(s)
<1>7. SpanTold(s) = IF s.heat = "off" \/ (s.heat = "unread" /\ s.temp = "bad")
                    THEN told.span ELSE told.span + dt
  BY <1>3, <1>4 DEF SpanTold
<1>8. Saw(s) = [told EXCEPT !.last = moment, !.rest = rest, !.hot = hot1, !.span = span1]
  BY <1>4, <1>6, <1>7 DEF Saw, LongTold, HotTold, Near
<1>9. rest \in Nat /\ span1 \in Nat /\ hot1 \in BOOLEAN
  BY <1>3, <1>5, TankBounds DEF Lower, SpanTold, HotTold
<1> HIDE DEF rest, span1, hot1
<1>10. PICK x \in BOOLEAN : x = hot1 BY <1>9
<1>11. PICK r \in Nat, n \in Nat : r = rest /\ n = span1 BY <1>9
<1>12. Saw(s) = [told EXCEPT !.last = moment, !.rest = r, !.hot = x, !.span = n]
  BY <1>8, <1>10, <1>11
<1>13. Saw(s) \in Stories
  <2>1. moment \in Int BY <1>1
  <2>2. Saw(s) = [tale |-> told.tale, hot |-> x, span |-> n, rest |-> r, last |-> moment]
    BY <1>1, <1>12 DEF Stories
  <2> QED BY <1>3, <2>1, <2>2 DEF Stories
<1>14. /\ Saw(s).last = moment /\ Saw(s).tale = told.tale
       /\ Saw(s).span = n /\ Saw(s).hot = x /\ Saw(s).rest = r
  BY <1>1, <1>12 DEF Stories
<1>15. Near \in BOOLEAN BY DEF Near
<1> QED BY <1>5, <1>10, <1>11, <1>13, <1>14, <1>15 DEF rest, span1, hot1

FilterNames == {"at", "open", "begun", "carried", "blind", "blindRun", "charge", "settle", "hold",
                "endKnown"}
Shaped(r) == DOMAIN r = FilterNames /\ r = [n \in FilterNames |-> r[n]]
Typed(r) ==
  /\ r.at \in Int /\ r.open \in BOOLEAN /\ r.begun \in Int /\ r.carried \in Int
  /\ r.blind \in Nat /\ r.blindRun \in Nat /\ r.charge \in 0..ChargeMin
  /\ r.settle \in 0..Settle /\ r.hold \in 0..Settle /\ r.endKnown \in BOOLEAN
LEMMA FilterIs ==
  ASSUME NEW r, Shaped(r), Typed(r)
  PROVE  r \in Filters
<1>1. r = [at |-> r.at, open |-> r.open, begun |-> r.begun, carried |-> r.carried,
           blind |-> r.blind, blindRun |-> r.blindRun, charge |-> r.charge, settle |-> r.settle,
           hold |-> r.hold, endKnown |-> r.endKnown]
  BY DEF Shaped, FilterNames
<1> QED BY <1>1 DEF Filters, Typed

LEMMA FilterFields ==
  ASSUME NEW f \in Filters
  PROVE  Shaped(f) /\ Typed(f) /\ DOMAIN f = FilterNames
BY DEF Filters, Shaped, Typed, FilterNames

(* The filter once the sample's own witnesses are read.                     *)
ReadInto(s) ==
  LET f == [filter EXCEPT !.at = Clock, !.endKnown = s.temp \in {"near", "far"}]
  IN  IF s.heat = "off" THEN Ceased(f) ELSE f
LEMMA ReadIn ==
  ASSUME filter \in Filters, Clock \in Nat, NEW s \in Looks
  PROVE  LET g == ReadInto(s)
         IN  /\ g \in Filters /\ g.at = Clock /\ (g.open <=> filter.open) /\ g.begun = filter.begun
             /\ g.carried = filter.carried /\ g.blind = filter.blind /\ g.blindRun = filter.blindRun
             /\ g.hold = filter.hold
             /\ s.heat = "off" => /\ g.charge = 0
                                  /\ g.settle = IF LongCharge(filter) THEN Settle ELSE filter.settle
             /\ s.heat # "off" => g.charge = filter.charge /\ g.settle = filter.settle
<1> DEFINE f == [filter EXCEPT !.at = Clock, !.endKnown = s.temp \in {"near", "far"}]
           g == ReadInto(s)
<1>1. PICK k \in BOOLEAN : k = (s.temp \in {"near", "far"})
  <2>1. (s.temp \in {"near", "far"}) = TRUE \/ (s.temp \in {"near", "far"}) = FALSE OBVIOUS
  <2> QED BY <2>1
<1>2. f = [filter EXCEPT !.at = Clock, !.endKnown = k] BY <1>1
<1>3. f \in Filters
  <2>1. Shaped(f) BY <1>2, FilterFields DEF Shaped, FilterNames
  <2>2. Typed(f) BY <1>2, FilterFields DEF Typed, FilterNames
  <2> QED BY <2>1, <2>2, FilterIs
<1>4. /\ f.at = Clock /\ (f.open <=> filter.open) /\ f.begun = filter.begun
      /\ f.carried = filter.carried /\ f.blind = filter.blind /\ f.blindRun = filter.blindRun
      /\ f.hold = filter.hold /\ f.charge = filter.charge /\ f.settle = filter.settle
  BY <1>2 DEF Filters
<1>5. g = IF s.heat = "off" THEN Ceased(f) ELSE f BY DEF ReadInto
<1> HIDE DEF f, g
<1>6. PICK n \in 0..Settle : n = IF f.charge > 0 /\ f.charge + f.blindRun >= ChargeMin THEN Settle ELSE f.settle
  BY <1>3, TankBounds DEF Filters
<1>7. Ceased(f) = [f EXCEPT !.charge = 0, !.settle = n] BY <1>3, <1>6 DEF Ceased, Filters
<1>8. Ceased(f) \in Filters
  <2>1. Shaped(Ceased(f)) BY <1>3, <1>7, FilterFields DEF Shaped, FilterNames
  <2>2. Typed(Ceased(f)) BY <1>3, <1>7, TankBounds, FilterFields DEF Typed, FilterNames
  <2> QED BY <2>1, <2>2, FilterIs
<1>9. LET c == Ceased(f)
      IN  /\ c.at = f.at /\ (c.open <=> f.open) /\ c.begun = f.begun /\ c.carried = f.carried
          /\ c.blind = f.blind /\ c.blindRun = f.blindRun /\ c.hold = f.hold
          /\ c.charge = 0 /\ c.settle = n
  BY <1>3, <1>7 DEF Filters
<1>10. n = IF LongCharge(filter) THEN Settle ELSE filter.settle BY <1>4, <1>6 DEF LongCharge
<1>11. CASE s.heat = "off"
  <2>1. g = Ceased(f) BY <1>5, <1>11
  <2> QED BY <1>4, <1>8, <1>9, <1>10, <1>11, <2>1 DEF g
<1>12. CASE s.heat # "off"
  <2>1. g = f BY <1>5, <1>12
  <2> QED BY <1>3, <1>4, <1>12, <2>1 DEF g
<1> QED BY <1>11, <1>12

LEMMA DroppedIn ==
  ASSUME NEW f \in Filters
  PROVE  LET d == Dropped(f)
         IN  /\ d \in Filters /\ d.at = f.at /\ ~d.open /\ d.blindRun = f.blindRun
             /\ d.charge = f.charge /\ d.settle = f.settle /\ d.hold = f.hold
<1> DEFINE d == Dropped(f)
<1>1. d \in Filters
  <2>1. Shaped(d) BY FilterFields DEF Shaped, FilterNames, Dropped
  <2>2. Typed(d) BY FilterFields, TankBounds DEF Typed, FilterNames, Dropped
  <2> QED BY <2>1, <2>2, FilterIs
<1> QED BY <1>1 DEF Dropped, Filters

LEMMA BlindedIn ==
  ASSUME NEW f \in Filters, NEW n \in Nat
  PROVE  LET b == Blinded1(f, n)
         IN  /\ b \in Filters /\ b.at = f.at /\ b.blindRun = f.blindRun + n
             /\ b.charge = f.charge /\ b.settle = f.settle /\ b.hold = f.hold
             /\ b.open => /\ f.open /\ b.begun = f.begun /\ b.carried = f.carried
                          /\ b.blind = f.blind + n /\ b.blindRun =< BlindRun
<1> DEFINE g == [f EXCEPT !.blindRun = @ + n, !.blind = @ + n]
           b == Blinded1(f, n)
<1>1. g \in Filters
  <2>1. Shaped(g) BY FilterFields DEF Shaped, FilterNames
  <2>2. Typed(g) BY FilterFields DEF Typed, FilterNames
  <2> QED BY <2>1, <2>2, FilterIs
<1>2. /\ g.at = f.at /\ g.blindRun = f.blindRun + n /\ g.charge = f.charge /\ g.settle = f.settle
      /\ g.hold = f.hold /\ (g.open <=> f.open) /\ g.begun = f.begun /\ g.carried = f.carried
      /\ g.blind = f.blind + n
  BY DEF Filters
<1>3. b = IF g.blindRun =< BlindRun /\ g.blind =< BlindMax THEN g ELSE Dropped(g) BY DEF Blinded1
<1> HIDE DEF g, b
<1>4. CASE g.blindRun =< BlindRun /\ g.blind =< BlindMax
  <2>1. b = g BY <1>3, <1>4
  <2> QED BY <1>1, <1>2, <1>4, <2>1 DEF b
<1>5. CASE ~(g.blindRun =< BlindRun /\ g.blind =< BlindMax)
  <2>1. b = Dropped(g) BY <1>3, <1>5
  <2> QED BY <1>1, <1>2, <2>1, DroppedIn DEF b
<1> QED BY <1>4, <1>5

LEMMA HeatedIn ==
  ASSUME NEW f \in Filters, NEW n \in Nat
  PROVE  LET h == Heated(f, n)
         IN  /\ h \in Filters /\ h.at = f.at /\ ~h.open /\ h.blindRun = 0 /\ h.hold = f.hold
             /\ h.charge = Lower(f.charge + n, ChargeMin)
             /\ h.settle = IF f.charge + n >= ChargeMin THEN Settle ELSE f.settle
<1> DEFINE h == Heated(f, n)
<1>1. PICK c \in 0..ChargeMin : c = Lower(f.charge + n, ChargeMin) BY TankBounds DEF Filters, Lower
<1>2. c >= ChargeMin <=> f.charge + n >= ChargeMin BY <1>1, TankBounds DEF Lower, Filters
<1>3. PICK d \in 0..Settle : d = IF c >= ChargeMin THEN Settle ELSE f.settle BY TankBounds DEF Filters
<1> DEFINE g == [f EXCEPT !.blindRun = 0, !.charge = c, !.settle = d]
<1>4. g \in Filters /\ g.at = f.at /\ g.blindRun = 0 /\ g.hold = f.hold /\ g.charge = c /\ g.settle = d
  BY DEF Filters
<1>5. h = Dropped(g) BY <1>1, <1>3 DEF Heated, Filters
<1> HIDE DEF g, h
<1>6. /\ h \in Filters /\ h.at = g.at /\ ~h.open /\ h.blindRun = g.blindRun
      /\ h.charge = g.charge /\ h.settle = g.settle /\ h.hold = g.hold
  BY <1>4, <1>5, DroppedIn
<1> QED BY <1>1, <1>2, <1>3, <1>4, <1>6 DEF h

LEMMA SettlingIn ==
  ASSUME NEW f \in Filters, NEW s \in Looks, NEW n \in Nat
  PROVE  LET t == Settling(f, s, n)
         IN  /\ t \in Filters /\ t.at = f.at /\ ~t.open /\ t.charge = f.charge
             /\ s.heat = "off" => /\ t.blindRun = 0 /\ t.settle = Higher(0, f.settle - n)
                                  /\ t.hold = Higher(0, f.hold - n)
             /\ s.heat # "off" => /\ t.blindRun = f.blindRun + n /\ t.settle = f.settle
                                  /\ t.hold = f.hold
<1> DEFINE t == Settling(f, s, n)
<1>1. PICK a \in 0..Settle : a = Higher(0, f.settle - n) BY TankBounds DEF Filters, Higher
<1>2. PICK b \in 0..Settle : b = Higher(0, f.hold - n) BY TankBounds DEF Filters, Higher
<1> DEFINE g == [f EXCEPT !.settle = a, !.hold = b, !.blindRun = 0]
           h == [f EXCEPT !.blindRun = @ + n]
<1>3. g \in Filters /\ g.at = f.at /\ g.charge = f.charge /\ g.blindRun = 0 /\ g.settle = a /\ g.hold = b
  BY TankBounds DEF Filters
<1>4. h \in Filters /\ h.at = f.at /\ h.charge = f.charge /\ h.blindRun = f.blindRun + n
      /\ h.settle = f.settle /\ h.hold = f.hold
  BY DEF Filters
<1>5. t = Dropped(IF s.heat = "off" THEN g ELSE h) BY <1>1, <1>2 DEF Settling, Filters
<1> HIDE DEF g, h, t
<1>6. CASE s.heat = "off" BY <1>1, <1>2, <1>3, <1>5, <1>6, DroppedIn DEF t
<1>7. CASE s.heat # "off" BY <1>4, <1>5, <1>7, DroppedIn DEF t
<1> QED BY <1>6, <1>7

(* A sample that read everything: the candidate goes on, is dropped, or a   *)
(* new one opens, also when the old one is counted.                         *)
LEMMA AttestedIn ==
  ASSUME NEW f \in Filters, Clock \in Nat, NEW c \in BOOLEAN
  PROVE  LET t == Attested(f, c)
         IN  /\ t \in Filters /\ t.at = f.at /\ t.blindRun = 0 /\ t.charge = f.charge
             /\ t.settle = f.settle /\ t.hold = f.hold
             /\ t.open => \/ /\ f.open /\ ~Counts(f, c) /\ t.begun = f.begun
                             /\ t.carried = f.carried /\ t.blind = f.blind
                          \/ (~f.open \/ Counts(f, c)) /\ t.begun = Clock /\ t.carried = 0
<1> DEFINE g == [f EXCEPT !.blindRun = 0]
           o == Opens(g)
           t == Attested(f, c)
<1>1. /\ g \in Filters /\ g.at = f.at /\ g.blindRun = 0 /\ g.charge = f.charge /\ (g.open <=> f.open)
      /\ g.settle = f.settle /\ g.hold = f.hold /\ g.begun = f.begun /\ g.carried = f.carried
      /\ g.blind = f.blind
  BY DEF Filters
<1>2. t = IF ~f.open THEN IF c THEN o ELSE g
          ELSE IF Age(f) > Quiet + Grace THEN Dropped(g)
          ELSE IF Counts(f, c) THEN [o EXCEPT !.blind = 0] ELSE g
  BY DEF Attested
<1>3. o = [g EXCEPT !.open = TRUE, !.begun = Clock, !.carried = 0] BY DEF Opens
<1> HIDE DEF g, o, t
<1>11. o \in Filters
  <2>1. Shaped(o) BY <1>1, <1>3, FilterFields DEF Shaped, FilterNames
  <2>2. Typed(o) BY <1>1, <1>3, FilterFields DEF Typed, FilterNames
  <2> QED BY <2>1, <2>2, FilterIs
<1>4. /\ o \in Filters /\ o.at = g.at /\ o.blindRun = g.blindRun /\ o.charge = g.charge /\ o.open
      /\ o.settle = g.settle /\ o.hold = g.hold /\ o.begun = Clock /\ o.carried = 0
  BY <1>1, <1>3, <1>11 DEF Filters
<1>5. LET p == [o EXCEPT !.blind = 0]
      IN  /\ p \in Filters /\ p.at = o.at /\ p.blindRun = o.blindRun /\ p.charge = o.charge
          /\ p.settle = o.settle /\ p.hold = o.hold /\ p.begun = Clock /\ p.carried = 0
  BY <1>4 DEF Filters
<1>6. /\ Dropped(g) \in Filters /\ Dropped(g).at = g.at /\ ~Dropped(g).open
      /\ Dropped(g).blindRun = g.blindRun /\ Dropped(g).charge = g.charge
      /\ Dropped(g).settle = g.settle /\ Dropped(g).hold = g.hold
  BY <1>1, DroppedIn
<1>7. CASE t = o /\ ~f.open BY <1>1, <1>4, <1>7 DEF t
<1>8. CASE t = g /\ (f.open => ~Counts(f, c)) /\ (t.open => f.open) BY <1>1, <1>8 DEF t
<1>9. CASE t = Dropped(g) BY <1>1, <1>6, <1>9 DEF t
<1>10. CASE t = [o EXCEPT !.blind = 0] /\ Counts(f, c) BY <1>1, <1>4, <1>5, <1>10 DEF t
<1> QED BY <1>1, <1>2, <1>7, <1>8, <1>9, <1>10

(* The six ways a sample goes.                                              *)
Heats(s, g, n)    == s.heat = "on" /\ n = Heated(g, IF Near THEN g.blindRun + SinceLast ELSE ChargeMin)
Blinds(s, g, n)   == s.heat # "on" /\ n = Blinded1(g, SinceLast)
Misses(s)         == ~Near \/ s.heat = "unread" \/ s.temp = "unread"
SettlesOn(s, g, n) == s.heat # "on" /\ Near /\ (g.settle > 0 \/ g.hold > 0) /\ n = Settling(g, s, SinceLast)
Drops(s, g, n)    == s.heat # "on" /\ Near /\ s.temp = "bad" /\ n = Dropped(g)
                     /\ g.settle = 0 /\ g.hold = 0
Attests(s, g, n, k) ==
  /\ s.heat = "off" /\ s.temp \in {"near", "far"} /\ Near /\ g.settle = 0 /\ g.hold = 0
  /\ \E c \in BOOLEAN : n = Attested(g, c) /\ k = Counts(g, c)

LEMMA Sampled ==
  ASSUME filter \in Filters, Clock \in Nat, NEW s \in Looks
  PROVE  LET g == ReadInto(s)
             n == Step1(s).next
             k == Step1(s).counts
         IN  \/ Heats(s, g, n) /\ k = FALSE
             \/ Blinds(s, g, n) /\ Misses(s) /\ k = FALSE
             \/ SettlesOn(s, g, n) /\ k = FALSE
             \/ Drops(s, g, n) /\ k = FALSE
             \/ Attests(s, g, n, k)
<1> DEFINE f == [filter EXCEPT !.at = Clock, !.endKnown = s.temp \in {"near", "far"}]
           g == ReadInto(s)
           c == Near /\ f.endKnown /\ s.temp = "near"
<1>1. f.blindRun = filter.blindRun /\ f.at = Clock BY DEF Filters
<1>2. g = IF s.heat = "off" THEN Ceased(f) ELSE f BY DEF ReadInto
<1>3. /\ s.heat \in {"on", "off", "unread"} /\ s.temp \in {"near", "far", "unread", "bad"}
  BY TankAssumption
<1>4. g \in Filters /\ g.settle \in Nat /\ g.hold \in Nat BY ReadIn, FilterFields, TankBounds DEF Typed
<1> DEFINE c1 == Near /\ filter.endKnown /\ s.temp = "near"
<1>5. Step1(s) =
        IF s.heat = "on" THEN [next |-> Heated(f, IF Near THEN f.blindRun + SinceLast ELSE ChargeMin),
                               counts |-> FALSE]
        ELSE IF ~Near THEN [next |-> Blinded1(g, SinceLast), counts |-> FALSE]
        ELSE IF g.settle > 0 \/ g.hold > 0 THEN [next |-> Settling(g, s, SinceLast), counts |-> FALSE]
        ELSE IF s.temp = "bad" THEN [next |-> Dropped(g), counts |-> FALSE]
        ELSE IF s.heat = "unread" \/ s.temp = "unread"
             THEN [next |-> Blinded1(g, SinceLast), counts |-> FALSE]
        ELSE [next |-> Attested(g, c1), counts |-> Counts(g, c1)]
  BY <1>2 DEF Step1, Near, SinceLast
<1>6. c1 = TRUE \/ c1 = FALSE OBVIOUS
<1> HIDE DEF f, g, c, c1
<1>7. CASE s.heat = "on"
  <2>1. g = f BY <1>2, <1>7
  <2>2. Step1(s).next = Heated(g, IF Near THEN g.blindRun + SinceLast ELSE ChargeMin)
        /\ Step1(s).counts = FALSE
    BY <1>5, <1>7, <2>1
  <2>3. Heats(s, g, Step1(s).next) BY <1>7, <2>2 DEF Heats
  <2> QED BY <2>2, <2>3 DEF g
<1>8. CASE s.heat # "on" /\ ~Near
  <2>1. Step1(s).next = Blinded1(g, SinceLast) /\ Step1(s).counts = FALSE BY <1>5, <1>8
  <2> QED BY <1>8, <2>1 DEF g, Blinds, Misses
<1>9. CASE s.heat # "on" /\ Near /\ (g.settle > 0 \/ g.hold > 0)
  <2>1. Step1(s).next = Settling(g, s, SinceLast) /\ Step1(s).counts = FALSE BY <1>5, <1>9
  <2> QED BY <1>9, <2>1 DEF g, SettlesOn
<1>10. CASE s.heat # "on" /\ Near /\ ~(g.settle > 0 \/ g.hold > 0)
  <2>1. g.settle = 0 /\ g.hold = 0 BY <1>4, <1>10
  <2>2. CASE s.temp = "bad"
    <3>1. Step1(s).next = Dropped(g) /\ Step1(s).counts = FALSE BY <1>5, <1>10, <2>2
    <3> QED BY <1>10, <2>1, <2>2, <3>1 DEF g, Drops
  <2>3. CASE s.temp # "bad" /\ (s.heat = "unread" \/ s.temp = "unread")
    <3>1. Step1(s).next = Blinded1(g, SinceLast) /\ Step1(s).counts = FALSE BY <1>5, <1>10, <2>3
    <3> QED BY <1>10, <2>1, <2>3, <3>1 DEF g, Blinds, Misses
  <2>4. CASE s.temp # "bad" /\ ~(s.heat = "unread" \/ s.temp = "unread")
    <3>1. Step1(s).next = Attested(g, c1) /\ Step1(s).counts = Counts(g, c1) BY <1>5, <1>10, <2>4
    <3>2. s.heat = "off" /\ s.temp \in {"near", "far"} BY <1>3, <1>10, <2>4
    <3>3. c1 \in BOOLEAN BY <1>6
    <3>4. Attests(s, g, Step1(s).next, Step1(s).counts) BY <1>10, <2>1, <3>1, <3>2, <3>3 DEF Attests
    <3> QED BY <3>4 DEF g
  <2> QED BY <2>2, <2>3, <2>4
<1> QED BY <1>7, <1>8, <1>9, <1>10

(* What is left to wait keeps up with what may have been a long charge.     *)
LEMMA SampleCharge ==
  ASSUME TankIInv, sourced, filter.at < Clock, NEW s \in Looks
  PROVE  LET n == Step1(s).next
             y == Saw(s)
         IN  /\ n \in Filters /\ n.at = Clock
             /\ y.span =< n.charge + n.blindRun /\ (y.hot => n.charge > 0)
             /\ LongCharge(n) \/ y.rest + n.settle >= Settle \/ y.rest + n.hold >= Settle
             /\ n.open => n.charge = 0 /\ n.settle = 0 /\ n.hold = 0
             /\ Attests(s, ReadInto(s), n, Step1(s).counts) => y.rest >= Settle
<1> DEFINE n == Step1(s).next
           y == Saw(s)
           g == ReadInto(s)
<1>1. filter \in Filters /\ moment \in Nat /\ booted \in 0..moment /\ Clock \in Nat
  BY TankBounds DEF TankIInv, TankShape, Clock
<1>2. ChargeInv(filter, filter.hold, told) /\ told \in Stories BY DEF TankIInv, TankShape, FilterInv
<1>3. told.span \in Nat /\ told.rest \in Nat /\ told.hot \in BOOLEAN BY <1>2 DEF Stories
<1>4. /\ SinceLast \in Nat /\ Near \in BOOLEAN /\ y \in Stories
      /\ filter.at # No => SinceLast > 0
      /\ y.span = IF s.heat = "off" THEN 0 ELSE Lower(ChargeMin, SpanTold(s))
      /\ y.hot <=> s.heat # "off" /\ HotTold(s)
      /\ y.rest = Lower(Settle, (IF LongTold(s) THEN 0 ELSE told.rest)
                                  + (IF s.heat = "off" /\ Near THEN SinceLast ELSE 0))
  BY Looking
<1>5. /\ g \in Filters /\ g.at = Clock /\ (g.open <=> filter.open) /\ g.blindRun = filter.blindRun
      /\ g.hold = filter.hold
      /\ s.heat = "off" => /\ g.charge = 0
                           /\ g.settle = IF LongCharge(filter) THEN Settle ELSE filter.settle
      /\ s.heat # "off" => g.charge = filter.charge /\ g.settle = filter.settle
  BY <1>1, ReadIn
<1>6. Typed(g) /\ Typed(filter) BY <1>1, <1>5, FilterFields
<1>7. /\ filter.charge \in Nat /\ filter.blindRun \in Nat /\ filter.settle \in Nat /\ filter.hold \in Nat
      /\ g.charge \in Nat /\ g.blindRun \in Nat /\ g.settle \in Nat /\ g.hold \in Nat
      /\ filter.charge =< ChargeMin /\ filter.settle =< Settle /\ filter.hold =< Settle
  BY <1>6, TankBounds DEF Typed
<1>8. /\ told.span =< filter.charge + filter.blindRun /\ (told.hot => filter.charge > 0)
      /\ LongCharge(filter) \/ told.rest + filter.settle >= Settle \/ told.rest + filter.hold >= Settle
      /\ filter.open => filter.charge = 0 /\ filter.settle = 0 /\ filter.hold = 0
  BY <1>2 DEF ChargeInv
<1>9. Near => SinceLast =< Lapse /\ SinceLast > 0 BY <1>4 DEF Near
<1>10. LongTold(s) /\ s.heat = "off" => LongCharge(filter)
  BY <1>3, <1>7, <1>8, TankBounds DEF LongTold, HotTold, SpanTold, LongCharge
<1> HIDE DEF n, y, g
<1>11. CASE Heats(s, g, n)
  <2> DEFINE m == IF Near THEN g.blindRun + SinceLast ELSE ChargeMin
  <2>1. m \in Nat /\ m > 0 BY <1>4, <1>7, <1>9, TankBounds
  <2>2. n = Heated(g, m) /\ s.heat = "on" BY <1>11 DEF Heats
  <2>3. /\ n \in Filters /\ n.at = Clock /\ ~n.open /\ n.blindRun = 0 /\ n.hold = filter.hold
        /\ n.charge = Lower(filter.charge + m, ChargeMin)
        /\ n.settle = IF filter.charge + m >= ChargeMin THEN Settle ELSE filter.settle
    BY <1>5, <2>1, <2>2, HeatedIn
  <2>4. SpanTold(s) =< filter.charge + m \/ filter.charge + m >= ChargeMin
    BY <1>3, <1>4, <1>5, <1>7, <1>8, <2>2, TankBounds DEF SpanTold
  <2>5. LongTold(s) => filter.charge + m >= ChargeMin BY <1>3, <1>4, <1>7, <2>1, <2>2, <2>4, TankBounds DEF LongTold, SpanTold
  <2>6. LongCharge(filter) => filter.charge + m >= ChargeMin
    BY <1>4, <1>5, <1>7, <2>1, TankBounds DEF LongCharge
  <2> HIDE DEF m
  <2>7. SpanTold(s) \in Nat BY <1>3, <1>4 DEF SpanTold
  <2>8. y.span =< n.charge + n.blindRun /\ n.charge > 0
    BY <1>4, <1>7, <2>1, <2>2, <2>3, <2>4, <2>7, TankBounds DEF Lower
  <2>9. y.rest \in Nat /\ (~(filter.charge + m >= ChargeMin) => y.rest = Lower(Settle, told.rest))
    BY <1>3, <1>4, <2>2, <2>5, TankBounds DEF Lower
  <2>10. y.rest + n.settle >= Settle \/ y.rest + n.hold >= Settle
    BY <1>3, <1>7, <1>8, <2>3, <2>6, <2>9, TankBounds DEF Lower
  <2> QED BY <2>2, <2>3, <2>8, <2>10 DEF n, y, g, Attests
<1>12. s.heat \in {"on", "off", "unread"} BY TankAssumption
<1>13. CASE s.heat = "off"
  <2>1. y.span = 0 /\ ~y.hot /\ y.rest \in Nat /\ g.charge = 0
    BY <1>3, <1>4, <1>5, <1>13, TankBounds DEF Lower
  <2>2. ~LongCharge(filter) =>
          /\ g.settle = filter.settle /\ y.rest >= Lower(Settle, told.rest)
          /\ Near => y.rest = Lower(Settle, told.rest + SinceLast)
    BY <1>3, <1>4, <1>5, <1>10, <1>13, TankBounds DEF Lower
  <2>3. LongCharge(filter) => g.settle = Settle BY <1>5, <1>13
  <2>4. y.rest + g.settle >= Settle \/ y.rest + g.hold >= Settle
    BY <1>3, <1>5, <1>7, <1>8, <2>1, <2>2, <2>3, TankBounds DEF Lower
  <2>5. g.open => g.charge = 0 /\ g.settle = 0 /\ g.hold = 0
    BY <1>5, <1>7, <1>8, <1>13, <2>1 DEF LongCharge
  <2>6. LongTold(s) => LongCharge(filter) BY <1>10, <1>13
  <2>7. CASE Blinds(s, g, n)
    <3>1. /\ n \in Filters /\ n.at = Clock /\ n.blindRun = g.blindRun + SinceLast
          /\ n.charge = g.charge /\ n.settle = g.settle /\ n.hold = g.hold /\ (n.open => g.open)
      BY <1>4, <1>5, <2>7, BlindedIn DEF Blinds
    <3>3. n.charge + n.blindRun >= 0 BY <1>4, <1>7, <3>1
    <3>2. Attests(s, g, n, Step1(s).counts) => y.rest >= Settle
      BY <1>7, <2>1, <2>4 DEF Attests
    <3> QED BY <2>1, <2>4, <2>5, <3>1, <3>2, <3>3 DEF n, y, g
  <2>8. CASE SettlesOn(s, g, n)
    <3>1. /\ n \in Filters /\ n.at = Clock /\ ~n.open /\ n.charge = 0 /\ n.blindRun = 0
          /\ n.settle = Higher(0, g.settle - SinceLast) /\ n.hold = Higher(0, g.hold - SinceLast)
          /\ Near
      BY <1>4, <1>5, <1>13, <2>8, SettlingIn DEF SettlesOn
    <3>2. y.rest = Lower(Settle, (IF LongTold(s) THEN 0 ELSE told.rest) + SinceLast)
      BY <1>4, <1>13, <3>1
    <3>3. LongCharge(filter) => y.rest + n.settle >= Settle
      BY <1>3, <1>4, <1>7, <2>3, <3>1, <3>2, TankBounds DEF Lower, Higher
    <3>4. ~LongCharge(filter) => y.rest + n.settle >= Settle \/ y.rest + n.hold >= Settle
      BY <1>3, <1>4, <1>5, <1>7, <1>8, <2>2, <3>1, TankBounds DEF Lower, Higher
    <3>5. ~Attests(s, g, n, Step1(s).counts) \/ y.rest >= Settle
      BY <1>7, <2>1, <2>4 DEF Attests
    <3> QED BY <2>1, <3>1, <3>3, <3>4, <3>5 DEF n, y, g
  <2>9. CASE Drops(s, g, n)
    <3>1. /\ n \in Filters /\ n.at = Clock /\ n.blindRun = g.blindRun /\ n.charge = g.charge
          /\ n.settle = g.settle /\ n.hold = g.hold /\ ~n.open
      BY <1>5, <2>9, DroppedIn DEF Drops
    <3>2. Attests(s, g, n, Step1(s).counts) => y.rest >= Settle
      BY <1>7, <2>1, <2>4 DEF Attests
    <3> QED BY <1>7, <2>1, <2>4, <3>1, <3>2 DEF n, y, g
  <2>10. CASE Attests(s, g, n, Step1(s).counts)
    <3>1. PICK c \in BOOLEAN : n = Attested(g, c) BY <2>10 DEF Attests
    <3>2. /\ n \in Filters /\ n.at = Clock /\ n.blindRun = 0 /\ n.charge = g.charge
          /\ n.settle = g.settle /\ n.hold = g.hold
      BY <1>1, <1>5, <3>1, AttestedIn
    <3>3. g.settle = 0 /\ g.hold = 0 BY <2>10 DEF Attests
    <3>4. y.rest >= Settle BY <2>1, <2>4, <3>3
    <3> QED BY <1>7, <2>1, <2>4, <3>2, <3>3, <3>4 DEF n, y, g
  <2> QED BY <1>1, <1>11, <1>13, <2>7, <2>8, <2>9, <2>10, Sampled DEF n, g
<1>14. CASE s.heat = "unread"
  <2>1. g.charge = filter.charge /\ g.settle = filter.settle BY <1>5, <1>14
  <2>2. y.hot => filter.charge > 0 BY <1>3, <1>4, <1>8, <1>14 DEF HotTold
  <2>3. y.rest = Lower(Settle, IF LongTold(s) THEN 0 ELSE told.rest) /\ y.rest \in Nat
    BY <1>3, <1>4, <1>14, TankBounds DEF Lower
  <2>4. SpanTold(s) \in Nat /\ y.span \in Nat /\ y.span =< SpanTold(s) BY <1>3, <1>4, <1>14, TankBounds DEF SpanTold, Lower
  <2>5. ASSUME NEW m \in Nat, SpanTold(s) =< told.span + m, n \in Filters, n.at = Clock,
               n.blindRun = filter.blindRun + m, n.charge = filter.charge, n.settle = filter.settle,
               n.hold = filter.hold, n.open => filter.open
        PROVE  /\ y.span =< n.charge + n.blindRun /\ (y.hot => n.charge > 0)
               /\ LongCharge(n) \/ y.rest + n.settle >= Settle \/ y.rest + n.hold >= Settle
               /\ n.open => n.charge = 0 /\ n.settle = 0 /\ n.hold = 0
    <3>1. y.span =< n.charge + n.blindRun BY <1>3, <1>7, <1>8, <2>4, <2>5
    <3>2. LongCharge(filter) => LongCharge(n)
      <4>1. n.charge = filter.charge /\ n.blindRun >= filter.blindRun /\ n.blindRun \in Nat
        BY <1>7, <2>5
      <4> QED BY <1>7, <4>1, TankBounds DEF LongCharge
    <3>3. LongTold(s) => LongCharge(n)
      BY <1>3, <1>7, <1>8, <1>14, <2>4, <2>5, TankBounds DEF LongTold, HotTold, LongCharge
    <3>4. ~LongTold(s) => y.rest = Lower(Settle, told.rest) BY <2>3
    <3>5. LongCharge(n) \/ y.rest + n.settle >= Settle \/ y.rest + n.hold >= Settle
      BY <1>3, <1>7, <1>8, <2>5, <3>2, <3>3, <3>4, TankBounds DEF Lower
    <3> QED BY <1>8, <2>2, <2>5, <3>1, <3>5
  <2>6. ~Attests(s, g, n, Step1(s).counts) BY <1>14 DEF Attests
  <2>7. CASE Blinds(s, g, n)
    <3>1. /\ n \in Filters /\ n.at = Clock /\ n.blindRun = filter.blindRun + SinceLast
          /\ n.charge = g.charge /\ n.settle = g.settle /\ n.hold = filter.hold
          /\ (n.open => filter.open)
      BY <1>4, <1>5, <2>7, BlindedIn DEF Blinds
    <3>2. SpanTold(s) =< told.span + SinceLast BY <1>3, <1>4 DEF SpanTold
    <3> QED BY <1>4, <2>1, <2>5, <2>6, <3>1, <3>2 DEF n, y, g
  <2>8. CASE SettlesOn(s, g, n)
    <3>1. /\ n \in Filters /\ n.at = Clock /\ n.blindRun = filter.blindRun + SinceLast
          /\ n.charge = g.charge /\ n.settle = g.settle /\ n.hold = filter.hold /\ ~n.open
      BY <1>4, <1>5, <1>14, <2>8, SettlingIn DEF SettlesOn
    <3>2. SpanTold(s) =< told.span + SinceLast BY <1>3, <1>4 DEF SpanTold
    <3> QED BY <1>4, <2>1, <2>5, <2>6, <3>1, <3>2 DEF n, y, g
  <2>9. CASE Drops(s, g, n)
    <3>1. /\ n \in Filters /\ n.at = Clock /\ n.blindRun = filter.blindRun /\ n.charge = g.charge
          /\ n.settle = g.settle /\ n.hold = filter.hold /\ ~n.open
      BY <1>5, <2>9, DroppedIn DEF Drops
    <3>2. SpanTold(s) = told.span BY <1>3, <1>14, <2>9 DEF Drops, SpanTold
    <3>3. PICK m \in Nat : m = 0 OBVIOUS
    <3>4. SpanTold(s) =< told.span + m /\ n.blindRun = filter.blindRun + m
      BY <1>3, <1>7, <3>1, <3>2, <3>3
    <3> QED BY <2>1, <2>5, <2>6, <3>1, <3>4 DEF n, y, g
  <2> QED BY <1>1, <1>11, <1>14, <2>6, <2>7, <2>8, <2>9, Sampled DEF n, g
<1>15. CASE s.heat = "on"
  <2>1. Heats(s, g, n)
    BY <1>1, <1>15, Sampled DEF n, g, Blinds, SettlesOn, Drops, Attests
  <2> QED BY <1>11, <2>1
<1> QED BY <1>12, <1>13, <1>14, <1>15

(* The tale of a candidate that goes on, and of one that opens.             *)
GoesOn(s) ==
  LET t == told.tale
      dark == Higher(0, moment - t.good - t.spare)
  IN  IF s.heat = "off" /\ s.temp \in {"near", "far"}
      THEN [t EXCEPT !.good = moment, !.spare = Lapse, !.worst = Higher(@, dark), !.dark = @ + dark]
      ELSE t
OpensNow(rest) == [NewTale EXCEPT !.from = moment, !.good = moment, !.rested = rest >= Settle]

LEMMA OpensNowIn ==
  ASSUME moment \in Nat, NEW rest \in Nat
  PROVE  LET t == OpensNow(rest)
         IN  /\ t \in Tales /\ t.from = moment /\ t.good = moment /\ t.spare = Lapse /\ t.worst = 0
             /\ t.dark = 0 /\ t.rested = (rest >= Settle)
<1>1. PICK b \in BOOLEAN : b = (rest >= Settle)
  <2>1. (rest >= Settle) = TRUE \/ (rest >= Settle) = FALSE OBVIOUS
  <2> QED BY <2>1
<1>3. OpensNow(rest) = [NewTale EXCEPT !.from = moment, !.good = moment, !.rested = b] BY <1>1 DEF OpensNow
<1>2. OpensNow(rest) = [from |-> moment, good |-> moment, spare |-> Lapse, worst |-> 0, dark |-> 0,
                        rested |-> b]
  BY <1>3 DEF NewTale
<1> QED BY <1>1, <1>2, TankBounds DEF Tales

LEMMA GoesOnIn ==
  ASSUME moment \in Nat, told \in Stories, NEW s
  PROVE  LET t == told.tale
             u == GoesOn(s)
             dark == Higher(0, moment - t.good - t.spare)
         IN  /\ u \in Tales /\ u.from = t.from /\ u.rested = t.rested
             /\ s.heat = "off" /\ s.temp \in {"near", "far"} =>
                  /\ u.good = moment /\ u.spare = Lapse /\ u.worst = Higher(t.worst, dark)
                  /\ u.dark = t.dark + dark
             /\ ~(s.heat = "off" /\ s.temp \in {"near", "far"}) => u = t
<1> DEFINE t == told.tale
<1>1. /\ t \in Tales /\ t.from \in Int /\ t.good \in Int /\ t.spare \in Int /\ t.worst \in Int
      /\ t.dark \in Int /\ t.rested \in BOOLEAN
  BY DEF Stories, Tales
<1> HIDE DEF t
<1>2. CASE ~(s.heat = "off" /\ s.temp \in {"near", "far"})
  <2>1. GoesOn(s) = t BY <1>2 DEF GoesOn, t
  <2> QED BY <1>1, <1>2, <2>1 DEF t
<1>3. CASE s.heat = "off" /\ s.temp \in {"near", "far"}
  <2>1. PICK d \in Nat : d = Higher(0, moment - t.good - t.spare) BY <1>1 DEF Higher
  <2>2. PICK w \in Int : w = Higher(t.worst, d) BY <1>1 DEF Higher
  <2>3. GoesOn(s) = [t EXCEPT !.good = moment, !.spare = Lapse, !.worst = w, !.dark = @ + d]
    BY <1>1, <1>3, <2>1, <2>2 DEF GoesOn, Tales, t
  <2>4. GoesOn(s) = [from |-> t.from, good |-> moment, spare |-> Lapse, worst |-> w,
                     dark |-> t.dark + d, rested |-> t.rested]
    BY <1>1, <2>3 DEF Tales
  <2>5. GoesOn(s) \in Tales BY <1>1, <2>4, TankBounds DEF Tales
  <2> QED BY <2>1, <2>2, <2>4, <2>5, <1>3 DEF t
<1> QED BY <1>2, <1>3

LEMMA CandidateIs ==
  ASSUME NEW s, NEW rest, NEW opens \in BOOLEAN
  PROVE  Candidate(s, rest, opens) = IF opens THEN OpensNow(rest) ELSE GoesOn(s)
BY DEF Candidate, OpensNow, GoesOn

(* An open candidate's tale keeps up with what the filter says of it.       *)
Tale(s) == IF ~Step1(s).next.open THEN NewTale
           ELSE Candidate(s, Saw(s).rest, Step1(s).counts \/ ~filter.open)
LEMMA SampleTale ==
  ASSUME TankIInv, sourced, filter.at < Clock, NEW s \in Looks
  PROVE  LET n == Step1(s).next
             u == Tale(s)
             c == GoesOn(s)
         IN  /\ u \in Tales /\ Step1(s).counts \in BOOLEAN
             /\ TaleInv(n, n.at - n.begun + n.carried, moment, u)
             /\ n.open => u.rested /\ n.blindRun =< BlindRun
             /\ Step1(s).counts =>
                  /\ c.from # No /\ moment - c.from \in Quiet..Quiet + Grace /\ c.rested
                  /\ c.worst =< BlindRun
                  /\ Age(filter) - Lower(Age(filter), filter.blind) =< moment - c.from - c.dark
<1> DEFINE n == Step1(s).next
           g == ReadInto(s)
           t == told.tale
           y == Saw(s)
           u == Tale(s)
           c == GoesOn(s)
           gap == SinceLast
<1>20. \/ Heats(s, g, n) /\ Step1(s).counts = FALSE
       \/ Blinds(s, g, n) /\ Misses(s) /\ Step1(s).counts = FALSE
       \/ SettlesOn(s, g, n) /\ Step1(s).counts = FALSE
       \/ Drops(s, g, n) /\ Step1(s).counts = FALSE
       \/ Attests(s, g, n, Step1(s).counts)
  <2>1. filter \in Filters /\ Clock \in Nat BY TankBounds DEF TankIInv, TankShape, Clock
  <2> QED BY <2>1, Sampled
<1>21. Step1(s).counts \in BOOLEAN
  <2>1. \A x, b : Counts(x, b) \in BOOLEAN BY DEF Counts
  <2> QED BY <1>20, <2>1 DEF Attests
<1>22. PICK k \in BOOLEAN : k = Step1(s).counts BY <1>21
<1>1. filter \in Filters /\ moment \in Nat /\ booted \in 0..moment /\ Clock \in Nat /\ told \in Stories
  BY TankBounds DEF TankIInv, TankShape, Clock
<1>2. /\ t \in Tales /\ t.from \in Int /\ t.good \in Int /\ t.spare \in Int /\ t.worst \in Int
      /\ t.dark \in Int
  BY <1>1 DEF Stories, Tales
<1>3. /\ filter.open => filter.at # No /\ t.rested /\ filter.blindRun =< BlindRun
      /\ TaleInv(filter, filter.at - filter.begun + filter.carried, LastSeen, t)
  BY DEF TankIInv, SampleInv, FilterInv, ChargeInv
<1>4. /\ gap \in Nat /\ (filter.at # No => gap > 0 /\ moment = LastSeen + gap)
      /\ y \in Stories
  BY Looking
<1>5. /\ g \in Filters /\ g.at = Clock /\ (g.open <=> filter.open) /\ g.begun = filter.begun
      /\ g.carried = filter.carried /\ g.blind = filter.blind /\ g.blindRun = filter.blindRun
  BY <1>1, ReadIn
<1>6. Typed(g) /\ Typed(filter) BY <1>1, <1>5, FilterFields
<1>7. /\ filter.at \in Int /\ filter.begun \in Int /\ filter.carried \in Int
      /\ filter.blind \in Nat /\ filter.blindRun \in Nat
  BY <1>6 DEF Typed
<1>8. y.rest \in Nat BY <1>4 DEF Stories
<1>9. /\ c \in Tales /\ c.from = t.from /\ c.rested = t.rested
      /\ s.heat = "off" /\ s.temp \in {"near", "far"} =>
           /\ c.good = moment /\ c.spare = Lapse
           /\ c.worst = Higher(t.worst, Higher(0, moment - t.good - t.spare))
           /\ c.dark = t.dark + Higher(0, moment - t.good - t.spare)
      /\ ~(s.heat = "off" /\ s.temp \in {"near", "far"}) => c = t
  BY <1>1, GoesOnIn
<1>10. LET o == OpensNow(y.rest)
       IN  /\ o \in Tales /\ o.from = moment /\ o.good = moment /\ o.spare = Lapse /\ o.worst = 0
           /\ o.dark = 0 /\ o.rested = (y.rest >= Settle)
  BY <1>1, <1>8, OpensNowIn
<1>11. Clock = moment - booted /\ LastSeen = booted + filter.at BY DEF Clock, LastSeen
<1>12. NewTale \in Tales BY TankFresh
<1>13. filter.open =>
         /\ t.from \in 0..t.good /\ t.good =< LastSeen
         /\ filter.at - filter.begun + filter.carried = LastSeen - t.from
         /\ t.spare >= Lapse /\ t.worst \in 0..BlindRun /\ t.dark \in 0..(t.good - t.from)
         /\ Gone(t, LastSeen) =< filter.blindRun /\ t.dark + Gone(t, LastSeen) =< filter.blind
  BY <1>3 DEF TaleInv
<1>14. filter.open => Age(filter) = moment - t.from /\ Age(g) = Age(filter) /\ moment = LastSeen + gap /\ gap > 0
  <2>1. Age(g) = Age(filter) BY <1>5 DEF Age
  <2>2. Age(filter) = Clock - filter.begun + filter.carried BY DEF Age
  <2>3. filter.open => moment = LastSeen + gap /\ gap > 0 BY <1>3, <1>4
  <2>4. filter.open => Clock = filter.at + gap BY <1>1, <1>4, <1>7, <1>11, <2>3
  <2>5. filter.open => Age(filter) = moment - t.from
    BY <1>1, <1>2, <1>4, <1>7, <1>11, <1>13, <2>2, <2>3, <2>4
  <2> QED BY <2>1, <2>3, <2>5
<1> HIDE DEF n, g, t, y, u, c, gap
<1>15. u = IF ~n.open THEN NewTale ELSE Candidate(s, y.rest, k \/ ~filter.open)
  BY <1>22 DEF u, Tale, n, y
<1>16. CASE ~n.open /\ ~k
  <2>1. u = NewTale BY <1>15, <1>16
  <2> QED BY <1>12, <1>16, <1>22, <2>1 DEF TaleInv, n, u
<1>17. CASE Blinds(s, g, n) /\ Misses(s) /\ n.open /\ ~k
  <2>1. /\ n.at = Clock /\ n.blindRun = filter.blindRun + gap /\ filter.open
        /\ n.begun = filter.begun /\ n.carried = filter.carried
        /\ n.blind = filter.blind + gap /\ n.blindRun =< BlindRun
    BY <1>4, <1>5, <1>17, BlindedIn DEF Blinds, gap
  <2>2. u = c BY <1>15, <1>17, <2>1, CandidateIs DEF c
  <2>3. n.at - n.begun + n.carried = moment - t.from
    BY <1>14, <2>1 DEF Age
  <2>4. LastSeen \in Int BY <1>1, <1>7, <1>11
  <2>5. CASE s.heat = "off" /\ s.temp \in {"near", "far"}
    <3>1. gap > Lapse BY <1>3, <1>4, <1>17, <2>1, <2>5, TankBounds DEF Misses, Near, gap
    <3>2. Gone(c, moment) = 0 BY <1>1, <1>9, <2>5, TankBounds DEF Gone, Higher
    <3>7. PICK d : d = Higher(0, moment - t.good - t.spare) OBVIOUS
    <3>8. PICK e \in Nat : e = Gone(t, LastSeen) BY <1>2, <2>4, TankBounds DEF Gone, Higher
    <3>3. d \in Nat /\ d =< e + gap /\ d =< moment - t.good /\ d =< BlindRun
      BY <3>7, <3>8, <1>1, <1>2, <1>4, <1>7, <1>13, <1>14, <2>1, <2>4, <3>1, TankBounds DEF Gone, Higher
    <3>4. c.worst \in 0..BlindRun BY <1>2, <1>9, <1>13, <2>1, <2>5, <3>3, <3>7, TankBounds DEF Higher
    <3>5. c.dark \in 0..(moment - c.from) /\ c.dark + 0 =< n.blind
      <4>1. c.dark = t.dark + d /\ c.from = t.from /\ t.dark + e =< filter.blind
        BY <1>9, <1>13, <2>1, <2>5, <3>7, <3>8
      <4>2. t.dark \in 0..(t.good - t.from) BY <1>13, <2>1
      <4> QED BY <1>1, <1>2, <1>4, <1>7, <2>1, <3>3, <4>1, <4>2
    <3>6. TaleInv(n, n.at - n.begun + n.carried, moment, c)
      BY <1>1, <1>2, <1>4, <1>7, <1>9, <1>13, <1>14, <2>1, <2>3, <2>4, <2>5, <3>2, <3>4, <3>5, TankBounds
      DEF TaleInv
    <3> QED BY <1>3, <1>9, <1>22, <1>17, <2>1, <2>2, <3>6 DEF n, u
  <2>6. CASE ~(s.heat = "off" /\ s.temp \in {"near", "far"})
    <3>1. c = t BY <1>9, <2>6
    <3>2. Gone(t, moment) =< Gone(t, LastSeen) + gap /\ Gone(t, LastSeen) \in Nat /\ Gone(t, moment) \in Nat
      BY <1>1, <1>2, <1>4, <1>14, <2>1, <2>4, TankBounds DEF Gone, Higher
    <3>3. TaleInv(n, n.at - n.begun + n.carried, moment, t)
      BY <1>1, <1>2, <1>4, <1>7, <1>13, <1>14, <2>1, <2>3, <2>4, <3>2, TankBounds DEF TaleInv
    <3> QED BY <1>3, <1>9, <1>22, <1>17, <2>1, <2>2, <3>1, <3>3 DEF n, u
  <2> QED BY <2>5, <2>6
<1>18. CASE Attests(s, g, n, k)
  <2>1. PICK b \in BOOLEAN : n = Attested(g, b) /\ k = Counts(g, b) BY <1>18 DEF Attests
  <2>2. /\ n.at = Clock /\ n.blindRun = 0 /\ n \in Filters
        /\ n.open => \/ /\ g.open /\ ~Counts(g, b) /\ n.begun = g.begun
                        /\ n.carried = g.carried /\ n.blind = g.blind
                     \/ (~g.open \/ Counts(g, b)) /\ n.begun = Clock /\ n.carried = 0
    BY <1>1, <1>5, <2>1, AttestedIn
  <2>3. n.blind \in Nat BY <2>2, FilterFields DEF Typed
  <2>4. y.rest >= Settle BY <1>18, <1>22, SampleCharge DEF n, y, g
  <2>5. s.heat = "off" /\ s.temp \in {"near", "far"} /\ Near BY <1>18 DEF Attests
  <2>6. LastSeen \in Int BY <1>1, <1>7, <1>11
  <2>7. filter.open =>
          LET d == Higher(0, moment - t.good - t.spare)
          IN  d \in Nat /\ d =< Gone(t, LastSeen) /\ d =< moment - t.good
    BY <1>1, <1>2, <1>4, <1>13, <1>14, <2>5, <2>6, TankBounds DEF Gone, Higher, Near, gap
  <2>8. filter.open => /\ c.worst \in 0..BlindRun /\ c.dark \in 0..(moment - c.from)
                       /\ c.dark =< filter.blind
    BY <1>1, <1>2, <1>3, <1>7, <1>9, <1>13, <2>5, <2>6, <2>7, TankBounds DEF Gone, Higher
  <2>9. k \in BOOLEAN BY <2>1 DEF Counts
  <2>10. k => /\ filter.open /\ Age(filter) \in Quiet..Quiet + Grace
    BY <1>5, <1>14, <2>1 DEF Counts
  <2>11. k => /\ c.from # No /\ moment - c.from \in Quiet..Quiet + Grace /\ c.rested
              /\ c.worst =< BlindRun
              /\ Age(filter) - Lower(Age(filter), filter.blind) =< moment - c.from - c.dark
    BY <1>1, <1>2, <1>3, <1>7, <1>9, <1>13, <1>14, <2>8, <2>10, TankBounds DEF Lower, No
  <2>12. CASE ~n.open
    <3>1. u = NewTale BY <1>15, <2>12
    <3> QED BY <1>12, <1>22, <2>9, <2>11, <2>12, <3>1 DEF TaleInv, n, u, c
  <2>13. CASE n.open /\ ~k /\ filter.open
    <3>1. u = c BY <1>15, <2>9, <2>13, CandidateIs DEF c
    <3>2. n.begun = filter.begun /\ n.carried = filter.carried /\ n.blind = filter.blind
      BY <1>5, <2>1, <2>2, <2>13
    <3>3. n.at - n.begun + n.carried = moment - c.from
      BY <1>9, <1>14, <2>2, <2>13, <3>2 DEF Age
    <3>4. Gone(c, moment) = 0 BY <1>1, <1>9, <2>5, TankBounds DEF Gone, Higher
    <3>5. TaleInv(n, n.at - n.begun + n.carried, moment, c)
      BY <1>1, <1>2, <1>4, <1>7, <1>9, <1>13, <1>14, <2>2, <2>5, <2>6, <2>8, <2>13, <3>2, <3>3, <3>4, TankBounds
      DEF TaleInv
    <3> QED BY <1>3, <1>9, <1>22, <2>2, <2>9, <2>13, <3>1, <3>5, TankBounds DEF n, u
  <2>14. CASE n.open /\ (k \/ ~filter.open)
    <3>1. u = OpensNow(y.rest) BY <1>15, <2>9, <2>14, CandidateIs
    <3>2. n.begun = Clock /\ n.carried = 0 BY <1>5, <2>1, <2>2, <2>14
    <3>3. n.at - n.begun + n.carried = 0 BY <1>1, <2>2, <3>2
    <3>4. u \in Tales /\ u.from = moment /\ u.good = moment /\ u.spare = Lapse /\ u.worst = 0
          /\ u.dark = 0 /\ u.rested = (y.rest >= Settle)
      BY <1>10, <3>1
    <3>5. Gone(u, moment) = 0 BY <1>1, <3>4, TankBounds DEF Gone, Higher
    <3>6. TaleInv(n, n.at - n.begun + n.carried, moment, u)
      BY <1>1, <2>2, <2>3, <3>3, <3>4, <3>5, TankBounds DEF TaleInv
    <3>7. u.rested BY <2>4, <3>4
    <3> QED BY <1>22, <2>2, <2>9, <2>11, <3>4, <3>6, <3>7, TankBounds DEF n, u, c
  <2> QED BY <2>9, <2>12, <2>13, <2>14
<1>19. CASE (Heats(s, g, n) \/ SettlesOn(s, g, n) \/ Drops(s, g, n)) /\ ~k
  <2>1. CASE Heats(s, g, n)
    <3>1. g.blindRun + gap \in Nat BY <1>4, <1>5, <1>7
    <3>2. (IF Near THEN g.blindRun + SinceLast ELSE ChargeMin) \in Nat BY <3>1, TankBounds DEF gap
    <3>3. ~n.open BY <1>5, <2>1, <3>2, HeatedIn DEF Heats
    <3> QED BY <1>16, <1>19, <3>3
  <2>2. CASE SettlesOn(s, g, n)
    <3>1. ~n.open BY <1>4, <1>5, <2>2, SettlingIn DEF SettlesOn, gap
    <3> QED BY <1>16, <1>19, <3>1
  <2>3. CASE Drops(s, g, n)
    <3>1. ~n.open BY <1>5, <2>3, DroppedIn DEF Drops
    <3> QED BY <1>16, <1>19, <3>1
  <2> QED BY <1>19, <2>1, <2>2, <2>3
<1>23. CASE k = FALSE BY <1>16, <1>17, <1>18, <1>19, <1>20, <1>22, <1>23 DEF n, g
<1>24. CASE k = TRUE BY <1>18, <1>20, <1>22, <1>24 DEF n, g
<1> QED BY <1>23, <1>24

-----------------------------------------------------------------------------
(* TankLoss: every step keeps the invariant *)

LEMMA TankInitIInv == TankInit => TankIInv
<1> SUFFICES ASSUME TankInit PROVE TankIInv OBVIOUS
<1>1. TankShape
  <2>0. moment = 0 /\ booted = 0 /\ sourced = FALSE BY DEF TankInit
  <2>3. 0 \in 0..LastMoment /\ 0 \in 0..0 BY TankBounds
  <2>1. moment \in 0..LastMoment /\ booted \in 0..moment /\ sourced \in BOOLEAN BY <2>0, <2>3
  <2>2. filter \in Filters /\ handoff \in Handoffs /\ told \in Stories BY TankFresh DEF TankInit
  <2> QED BY <2>1, <2>2 DEF TankShape
<1>2. SampleInv /\ FilterInv /\ RestInv /\ WindowInv
  BY DEF TankInit, SampleInv, FilterInv, RestInv, WindowInv
<1>3. HandoffInv BY TankFresh DEF TankInit, HandoffInv
<1> QED BY <1>1, <1>2, <1>3 DEF TankIInv

LEMMA MovesKeeps == TankIInv /\ Moves => TankIInv'
<1> SUFFICES ASSUME TankIInv, Moves PROVE TankIInv' OBVIOUS
<1>1. /\ moment < LastMoment /\ moment' = moment + 1 /\ counted' = NoWindow
      /\ UNCHANGED <<booted, sourced, filter, handoff, told>>
  BY DEF Moves
<1>2. TankShape /\ SampleInv /\ FilterInv /\ HandoffInv /\ RestInv BY DEF TankIInv
<1>3. TankShape' BY <1>1, <1>2, TankBounds DEF TankShape
<1>4. SampleInv'
  <2>1. moment \in Nat /\ booted \in 0..moment /\ (filter.at \in 0..Clock => filter.at \in 0..Clock')
    BY <1>1, <1>2, TankBounds DEF TankShape, Clock
  <2> QED BY <1>1, <1>2, <2>1 DEF SampleInv, LastSeen
<1>5. FilterInv' BY <1>1, <1>2 DEF FilterInv, ChargeInv, TaleInv, LastSeen, Gone, LongCharge
<1>6. HandoffInv' BY <1>1, <1>2 DEF HandoffInv, ChargeInv, TaleInv, Gone, LongCharge
<1>7. RestInv' /\ WindowInv' BY <1>1, <1>2 DEF RestInv, WindowInv
<1> QED BY <1>3, <1>4, <1>5, <1>6, <1>7 DEF TankIInv

LEMMA SamplesKeeps == ASSUME TankIInv, NEW s \in Looks, Samples(s) PROVE TankIInv'
<1> DEFINE n == Step1(s).next
           y == Saw(s)
           u == Tale(s)
           c == GoesOn(s)
<1>1. /\ sourced /\ filter.at < Clock /\ filter' = n /\ told' = [y EXCEPT !.tale = u]
      /\ counted' = IF Step1(s).counts
                    THEN [from |-> c.from, to |-> moment, worst |-> c.worst, dark |-> c.dark,
                          rested |-> c.rested,
                          observed |-> Age(filter) - Lower(Age(filter), filter.blind)]
                    ELSE NoWindow
      /\ UNCHANGED <<moment, booted, sourced, handoff>>
  <2>1. Candidate(s, y.rest, FALSE) = c BY CandidateIs
  <2> HIDE DEF c, y
  <2> QED BY <2>1 DEF Samples, Tale, y
<1>2. TankShape /\ SampleInv /\ FilterInv /\ HandoffInv /\ RestInv BY DEF TankIInv
<1>3. /\ n \in Filters /\ n.at = Clock
      /\ y.span =< n.charge + n.blindRun /\ (y.hot => n.charge > 0)
      /\ LongCharge(n) \/ y.rest + n.settle >= Settle \/ y.rest + n.hold >= Settle
      /\ n.open => n.charge = 0 /\ n.settle = 0 /\ n.hold = 0
  BY <1>1, SampleCharge
<1>4. /\ u \in Tales /\ TaleInv(n, n.at - n.begun + n.carried, moment, u)
      /\ n.open => u.rested /\ n.blindRun =< BlindRun
      /\ Step1(s).counts =>
           /\ c.from # No /\ moment - c.from \in Quiet..Quiet + Grace /\ c.rested
           /\ c.worst =< BlindRun
           /\ Age(filter) - Lower(Age(filter), filter.blind) =< moment - c.from - c.dark
  BY <1>1, SampleTale
<1>5. y \in Stories /\ y.last = moment BY <1>1, Looking
<1> HIDE DEF n, y, u, c
<1>6. /\ told' \in Stories /\ told'.tale = u /\ told'.last = moment /\ told'.span = y.span
      /\ told'.hot = y.hot /\ told'.rest = y.rest
  BY <1>1, <1>4, <1>5 DEF Stories
<1>7. moment \in Nat /\ booted \in 0..moment /\ Clock \in Nat /\ Clock = moment - booted
  BY <1>2, TankBounds DEF TankShape, Clock
<1>8. TankShape' BY <1>1, <1>2, <1>3, <1>6 DEF TankShape
<1>9. LastSeen' = moment /\ Clock' = Clock BY <1>1, <1>3, <1>7 DEF LastSeen, Clock
<1>10. SampleInv'
  <2>1. filter'.at # No BY <1>1, <1>3, <1>7 DEF No
  <2> QED BY <1>1, <1>3, <1>6, <1>7, <1>9, <2>1 DEF SampleInv
<1>11. ChargeInv(filter', filter'.hold, told')
  BY <1>1, <1>3, <1>4, <1>6 DEF ChargeInv
<1>12. TaleInv(filter', filter'.at - filter'.begun + filter'.carried, LastSeen', told'.tale)
  BY <1>1, <1>4, <1>6, <1>9
<1>13. FilterInv' BY <1>1, <1>4, <1>11, <1>12 DEF FilterInv, ChargeInv, TaleInv, Gone, LongCharge
<1>14. HandoffInv' BY <1>1, <1>2 DEF HandoffInv
<1>15. RestInv' BY <1>1 DEF RestInv
<1>16. WindowInv' BY <1>1, <1>4 DEF WindowInv
<1> QED BY <1>8, <1>10, <1>13, <1>14, <1>15, <1>16 DEF TankIInv

(* A filter that starts afresh, of a confirmed source.                      *)
LEMMA FreshKeeps ==
  ASSUME TankIInv, UNCHANGED <<moment, booted>>, sourced' = TRUE, filter' = FreshFilter,
         told' = NewStory, counted' = NoWindow, handoff' \in Handoffs, ~handoff'.valid
  PROVE  TankIInv'
<1>1. TankShape' BY TankFresh DEF TankIInv, TankShape
<1>2. SampleInv' BY TankFresh DEF SampleInv
<1>3. ChargeInv(filter', filter'.hold, told') BY TankFresh
<1>4. FilterInv' BY TankFresh, <1>3 DEF FilterInv, ChargeInv, TaleInv, LongCharge
<1>5. HandoffInv' /\ RestInv' /\ WindowInv' BY DEF HandoffInv, RestInv, WindowInv
<1> QED BY <1>1, <1>2, <1>4, <1>5 DEF TankIInv

LEMMA StartsOverKeeps == TankIInv /\ StartsOver => TankIInv'
<1> SUFFICES ASSUME TankIInv, StartsOver PROVE TankIInv' OBVIOUS
<1>1. ~handoff.valid BY DEF TankIInv, HandoffInv, StartsOver
<1>2. handoff \in Handoffs BY DEF TankIInv, TankShape
<1> QED BY <1>1, <1>2, FreshKeeps DEF StartsOver

LEMMA RestartsKeeps == ASSUME TankIInv, NEW saved \in BOOLEAN, Restarts(saved) PROVE TankIInv'
<1>1. /\ moment + Down =< LastMoment /\ (saved => sourced /\ filter.at + Lapse >= Clock)
      /\ handoff' = IF saved THEN Checkpoint ELSE NoHandoff
      /\ moment' = moment + Down /\ booted' = moment' /\ sourced' = FALSE
      /\ filter' = FreshFilter /\ counted' = NoWindow
      /\ told' = IF saved THEN [told EXCEPT !.last = No, !.tale.spare = @ + Lapse,
                                  !.rest = IF filter.hold > 0 THEN Settle - filter.settle ELSE @]
                 ELSE NewStory
  BY DEF Restarts
<1>2. TankShape /\ SampleInv /\ FilterInv BY DEF TankIInv
<1>3. moment \in Nat /\ booted \in 0..moment /\ filter \in Filters /\ told \in Stories
  BY <1>2, TankBounds DEF TankShape
<1>4. SampleInv' /\ FilterInv' /\ RestInv' /\ WindowInv'
  BY <1>1 DEF SampleInv, FilterInv, RestInv, WindowInv
<1>7. /\ moment' \in 0..LastMoment /\ booted' \in 0..moment' /\ sourced' \in BOOLEAN
      /\ filter' \in Filters
  <2>1. moment' \in Nat /\ moment' =< LastMoment /\ booted' = moment' BY <1>1, <1>3, TankBounds
  <2>2. filter' \in Filters /\ sourced' \in BOOLEAN BY <1>1, TankFresh
  <2> QED BY <2>1, <2>2, TankBounds
<1>5. CASE ~saved
  <2>1. handoff' = NoHandoff /\ told' = NewStory BY <1>1, <1>5
  <2>2. TankShape' BY <1>7, <2>1, TankFresh DEF TankShape
  <2>3. HandoffInv' BY <2>1, TankFresh DEF HandoffInv
  <2> QED BY <1>4, <2>2, <2>3 DEF TankIInv
<1>6. CASE saved
  <2>1. Typed(filter) BY <1>3, FilterFields
  <2>2. /\ filter.at \in Int /\ filter.begun \in Int /\ filter.carried \in Int /\ filter.open \in BOOLEAN
        /\ filter.blind \in Nat /\ filter.blindRun \in Nat /\ filter.charge \in 0..ChargeMin
        /\ filter.settle \in 0..Settle /\ filter.hold \in 0..Settle
    BY <2>1 DEF Typed
  <2>3. /\ told.tale \in Tales /\ told.hot \in BOOLEAN /\ told.span \in Nat /\ told.rest \in Nat
    BY <1>3 DEF Stories
  <2> DEFINE t == told.tale
  <2>4. /\ t.from \in Int /\ t.good \in Int /\ t.spare \in Int /\ t.worst \in Int /\ t.dark \in Int
        /\ t.rested \in BOOLEAN
    BY <2>3 DEF Tales
  <2>5. PICK r \in Nat : r = IF filter.hold > 0 THEN Settle - filter.settle ELSE told.rest
    BY <2>2, <2>3, TankBounds
  <2>6. told' = [told EXCEPT !.last = No, !.tale.spare = @ + Lapse, !.rest = r] BY <1>1, <1>6, <2>5
  <2> DEFINE v == [t EXCEPT !.spare = @ + Lapse]
  <2>7. v = [from |-> t.from, good |-> t.good, spare |-> t.spare + Lapse, worst |-> t.worst,
             dark |-> t.dark, rested |-> t.rested]
    BY <2>3 DEF Tales
  <2>8. v \in Tales BY <2>4, <2>7, TankBounds DEF Tales
  <2>9. told' = [told EXCEPT !.last = No, !.tale = v, !.rest = r] BY <1>3, <2>6 DEF Stories
  <2>10. v.from = t.from /\ v.good = t.good /\ v.spare = t.spare + Lapse /\ v.worst = t.worst
         /\ v.dark = t.dark /\ v.rested = t.rested
    BY <2>7
  <2> HIDE DEF v, t
  <2>11. told' = [tale |-> v, hot |-> told.hot, span |-> told.span, rest |-> r, last |-> No]
    BY <1>3, <2>9 DEF Stories
  <2>12. told' \in Stories BY <2>3, <2>5, <2>8, <2>11 DEF Stories, No
  <2>13. told'.tale = v /\ told'.hot = told.hot /\ told'.span = told.span /\ told'.rest = r
    BY <2>11
  <2>14. sourced /\ filter.at + Lapse >= Clock /\ handoff' = Checkpoint BY <1>1, <1>6
  <2>15. PICK age \in Int : age = IF filter.open THEN Age(filter) ELSE 0
    BY <1>3, <2>2 DEF Age, Clock
  <2>16. handoff' = [valid |-> TRUE, open |-> filter.open, age |-> age, blind |-> filter.blind,
                     blindRun |-> filter.blindRun, charge |-> filter.charge, settle |-> filter.settle]
    BY <2>14, <2>15 DEF Checkpoint
  <2>17. handoff' \in Handoffs BY <2>2, <2>15, <2>16 DEF Handoffs
  <2>18. TankShape' BY <1>7, <2>12, <2>17 DEF TankShape
  <2>19. ChargeInv(filter, filter.hold, told) BY <1>2, <2>14 DEF FilterInv
  <2>20. ChargeInv(handoff', 0, told')
    BY <2>2, <2>3, <2>5, <2>10, <2>13, <2>16, <2>19, TankBounds DEF ChargeInv, LongCharge, t
  <2>21. booted' - Down = moment /\ booted' >= Down BY <1>1, <1>3, TankBounds
  <2>22. TaleInv(handoff', handoff'.age, booted' - Down, told'.tale)
    <3> SUFFICES ASSUME filter.open
                 PROVE  /\ v.from \in 0..v.good /\ v.good =< moment /\ age = moment - v.from
                        /\ v.spare >= Lapse /\ v.worst \in 0..BlindRun
                        /\ v.dark \in 0..(v.good - v.from)
                        /\ Gone(v, moment) =< filter.blindRun
                        /\ v.dark + Gone(v, moment) =< filter.blind
      BY <2>13, <2>16, <2>21 DEF TaleInv
    <3>1. /\ t.from \in 0..t.good /\ t.good =< LastSeen
          /\ filter.at - filter.begun + filter.carried = LastSeen - t.from
          /\ t.spare >= Lapse /\ t.worst \in 0..BlindRun /\ t.dark \in 0..(t.good - t.from)
          /\ Gone(t, LastSeen) =< filter.blindRun /\ t.dark + Gone(t, LastSeen) =< filter.blind
      BY <1>2, <2>14 DEF FilterInv, TaleInv, t
    <3>2. filter.at \in 0..Clock /\ Clock = moment - booted /\ LastSeen = booted + filter.at
      BY <1>2, <2>14 DEF SampleInv, Clock, LastSeen
    <3>3. age = Clock - filter.begun + filter.carried BY <2>15 DEF Age
    <3>4. moment - LastSeen \in 0..Lapse /\ LastSeen \in Int BY <1>3, <2>2, <2>14, <3>2, TankBounds
    <3>5. age = moment - t.from BY <1>3, <2>2, <2>4, <3>1, <3>2, <3>3
    <3>6. Gone(v, moment) =< Gone(t, LastSeen) /\ Gone(t, LastSeen) \in Nat /\ Gone(v, moment) \in Nat
      BY <1>3, <2>4, <2>10, <3>4, TankBounds DEF Gone, Higher
    <3> QED BY <1>3, <2>2, <2>4, <2>10, <3>1, <3>4, <3>5, <3>6, TankBounds
  <2>23. HandoffInv' BY <1>1, <2>16, <2>20, <2>21, <2>22 DEF HandoffInv, ChargeInv, TaleInv, Gone, LongCharge
  <2> QED BY <1>4, <2>18, <2>23 DEF TankIInv
<1> QED BY <1>5, <1>6

(* A handoff adopted: what time has passed since the checkpoint is blind.   *)
LEMMA AdoptedIn ==
  ASSUME NEW h \in Handoffs, Clock \in Nat
  PROVE  LET a == Adopted1(h)
             n == Clock + Down
         IN  /\ a \in Filters /\ a.at = Clock /\ a.charge = h.charge /\ a.settle = h.settle
             /\ a.hold = 0 /\ a.blindRun >= h.blindRun
             /\ a.open => /\ h.open /\ a.begun = Clock /\ a.carried = h.age + n
                          /\ a.blind = h.blind + n /\ a.blindRun = h.blindRun + n
                          /\ a.blindRun =< BlindRun
<1> DEFINE f == [FreshFilter EXCEPT !.at = Clock, !.settle = h.settle, !.hold = 0,
                                    !.charge = h.charge, !.blindRun = h.blindRun]
           n == Clock + Down
           g == [f EXCEPT !.open = TRUE, !.begun = Clock, !.carried = h.age + n, !.blind = h.blind]
           a == Adopted1(h)
<1>1. /\ h.open \in BOOLEAN /\ h.age \in Int /\ h.blind \in Nat /\ h.blindRun \in Nat
      /\ h.charge \in 0..ChargeMin /\ h.settle \in 0..Settle
  BY DEF Handoffs
<1>2. n \in Nat BY TankBounds
<1>3. /\ f.at = Clock /\ f.open = FALSE /\ f.begun = 0 /\ f.carried = 0 /\ f.blind = 0
      /\ f.blindRun = h.blindRun /\ f.charge = h.charge /\ f.settle = h.settle
      /\ f.hold = 0 /\ f.endKnown = FALSE
  BY DEF FreshFilter
<1>4. f \in Filters
  <2>1. Shaped(f) BY DEF FreshFilter, Shaped, FilterNames
  <2>2. Typed(f)
    <3> HIDE DEF f
    <3>1. f.open \in BOOLEAN /\ f.endKnown \in BOOLEAN BY <1>3
    <3>2. f.at \in Int /\ f.begun \in Int /\ f.carried \in Int /\ f.blind \in Nat BY <1>3
    <3>3. f.blindRun \in Nat /\ f.charge \in 0..ChargeMin BY <1>1, <1>3
    <3>4. f.settle \in 0..Settle /\ f.hold \in 0..Settle BY <1>1, <1>3, TankBounds
    <3> QED BY <3>1, <3>2, <3>3, <3>4 DEF Typed
  <2> HIDE DEF f
  <2> QED BY <2>1, <2>2, FilterIs
<1> HIDE DEF f
<1>5. /\ f.at = Clock /\ ~f.open /\ f.blindRun = h.blindRun /\ f.charge = h.charge
      /\ f.settle = h.settle /\ f.hold = 0
  BY <1>3
<1>6. PICK m \in Int : m = h.age + n BY <1>1, <1>2
<1>7. g = [f EXCEPT !.open = TRUE, !.begun = Clock, !.carried = m, !.blind = h.blind] BY <1>6
<1>8. a = IF ~h.open THEN f ELSE Blinded1(g, n) BY DEF Adopted1, AdoptedBlind, f
<1> HIDE DEF g, a, n
<1>9. g \in Filters
  <2>1. Shaped(g) BY <1>4, <1>7, FilterFields DEF Shaped, FilterNames
  <2>2. Typed(g) BY <1>1, <1>4, <1>6, <1>7, FilterFields DEF Typed, FilterNames
  <2> QED BY <2>1, <2>2, FilterIs
<1>10. /\ g.at = Clock /\ g.open /\ g.begun = Clock /\ g.carried = m /\ g.blind = h.blind
       /\ g.blindRun = h.blindRun /\ g.charge = h.charge /\ g.settle = h.settle /\ g.hold = 0
  BY <1>4, <1>5, <1>7 DEF Filters
<1>11. CASE ~h.open
  <2>1. a = f BY <1>8, <1>11
  <2> QED BY <1>1, <1>4, <1>5, <2>1 DEF a
<1>12. CASE h.open
  <2>1. a = Blinded1(g, n) BY <1>8, <1>12
  <2>2. /\ a \in Filters /\ a.at = g.at /\ a.blindRun = g.blindRun + n
        /\ a.charge = g.charge /\ a.settle = g.settle /\ a.hold = g.hold
        /\ a.open => /\ g.open /\ a.begun = g.begun /\ a.carried = g.carried
                     /\ a.blind = g.blind + n /\ a.blindRun =< BlindRun
    BY <1>2, <1>9, <2>1, BlindedIn
  <2>3. a.blindRun >= h.blindRun BY <1>1, <1>2, <1>10, <2>2
  <2> QED BY <1>6, <1>10, <1>12, <2>2, <2>3 DEF a, n
<1> QED BY <1>11, <1>12

LEMMA ConfirmsKeeps == ASSUME TankIInv, NEW same \in BOOLEAN, Confirms(same) PROVE TankIInv'
<1>1. /\ ~sourced /\ sourced' = TRUE /\ handoff' = NoHandoff /\ counted' = NoWindow
      /\ UNCHANGED <<moment, booted>>
      /\ handoff.valid /\ same =>
           /\ filter' = Adopted1(handoff)
           /\ told' = [told EXCEPT !.last = moment,
                                   !.tale = IF Adopted1(handoff).open THEN @ ELSE NewTale]
      /\ ~(handoff.valid /\ same) => filter' = FreshFilter /\ told' = NewStory
  BY DEF Confirms
<1>2. TankShape /\ HandoffInv BY DEF TankIInv
<1>3. /\ moment \in Nat /\ booted \in 0..moment /\ handoff \in Handoffs /\ told \in Stories
      /\ Clock \in Nat /\ Clock = moment - booted
  BY <1>2, TankBounds DEF TankShape, Clock
<1>4. CASE ~(handoff.valid /\ same)
  <2>1. handoff' \in Handoffs /\ ~handoff'.valid BY <1>1, TankFresh
  <2> QED BY <1>1, <1>4, <2>1, FreshKeeps
<1>5. CASE handoff.valid /\ same
  <2> DEFINE h == handoff
             a == Adopted1(h)
             n == Clock + Down
             t == told.tale
             u == IF a.open THEN t ELSE NewTale
  <2>1. /\ a \in Filters /\ a.at = Clock /\ a.charge = h.charge /\ a.settle = h.settle
        /\ a.hold = 0 /\ a.blindRun >= h.blindRun
        /\ a.open => /\ h.open /\ a.begun = Clock /\ a.carried = h.age + n
                     /\ a.blind = h.blind + n /\ a.blindRun = h.blindRun + n
                     /\ a.blindRun =< BlindRun
    BY <1>3, AdoptedIn
  <2>2. /\ h.open \in BOOLEAN /\ h.age \in Int /\ h.blind \in Nat /\ h.blindRun \in Nat
        /\ h.charge \in Nat /\ h.settle \in Nat
    BY <1>3, TankBounds DEF Handoffs
  <2>3. /\ t \in Tales /\ t.from \in Int /\ t.good \in Int /\ t.spare \in Int /\ t.worst \in Int
        /\ t.dark \in Int /\ told.span \in Nat /\ told.rest \in Nat /\ told.hot \in BOOLEAN
    BY <1>3 DEF Stories, Tales
  <2>4. filter' = a /\ told' = [told EXCEPT !.last = moment, !.tale = u] BY <1>1, <1>5
  <2>5. u \in Tales BY <2>3, TankFresh
  <2>6. a.blindRun \in Nat BY <2>1, FilterFields DEF Typed
  <2>7. /\ booted >= Down /\ ChargeInv(h, 0, told)
        /\ h.open => /\ t.from \in 0..t.good /\ t.good =< booted - Down /\ h.age = booted - Down - t.from
                     /\ t.spare >= Lapse /\ t.worst \in 0..BlindRun /\ t.dark \in 0..(t.good - t.from)
                     /\ Gone(t, booted - Down) =< h.blindRun
                     /\ t.dark + Gone(t, booted - Down) =< h.blind
    BY <1>2, <1>5 DEF HandoffInv, TaleInv
  <2> HIDE DEF a, t, u, h, n
  <2>8. /\ told' \in Stories /\ told'.tale = u /\ told'.last = moment /\ told'.span = told.span
        /\ told'.hot = told.hot /\ told'.rest = told.rest
    <3>1. told' = [tale |-> u, hot |-> told.hot, span |-> told.span, rest |-> told.rest,
                   last |-> moment]
      BY <1>3, <2>4 DEF Stories
    <3>2. told' \in Stories BY <1>3, <2>3, <2>5, <3>1 DEF Stories
    <3> QED BY <3>1, <3>2
  <2>9. TankShape' BY <1>1, <1>2, <2>1, <2>4, <2>8, TankFresh DEF TankShape
  <2>10. LastSeen' = moment /\ Clock' = Clock BY <1>1, <1>3, <2>1, <2>4 DEF LastSeen, Clock
  <2>11. SampleInv'
    <3>1. filter'.at # No BY <1>3, <2>1, <2>4 DEF No
    <3> QED BY <1>3, <2>1, <2>4, <2>8, <2>10, <3>1 DEF SampleInv
  <2>12. ChargeInv(filter', filter'.hold, told')
    <3>1. /\ told.span =< h.charge + h.blindRun /\ (told.hot => h.charge > 0)
          /\ LongCharge(h) \/ told.rest + h.settle >= Settle \/ told.rest + 0 >= Settle
          /\ h.open => told.tale.rested /\ h.charge = 0 /\ h.settle = 0
      BY <2>7 DEF ChargeInv
    <3>2. LongCharge(h) => LongCharge(a) BY <2>1, <2>2, <2>6, TankBounds DEF LongCharge
    <3>3. told.span =< a.charge + a.blindRun BY <2>1, <2>2, <2>3, <2>6, <3>1
    <3>4. a.open => u.rested BY <2>1, <3>1 DEF u, t
    <3> QED BY <2>1, <2>4, <2>8, <3>1, <3>2, <3>3, <3>4 DEF ChargeInv
  <2>13. TaleInv(filter', filter'.at - filter'.begun + filter'.carried, LastSeen', told'.tale)
    <3> SUFFICES ASSUME a.open
                 PROVE  /\ t.from \in 0..t.good /\ t.good =< moment
                        /\ a.at - a.begun + a.carried = moment - t.from
                        /\ t.spare >= Lapse /\ t.worst \in 0..BlindRun
                        /\ t.dark \in 0..(t.good - t.from)
                        /\ Gone(t, moment) =< a.blindRun /\ t.dark + Gone(t, moment) =< a.blind
      BY <2>4, <2>8, <2>10 DEF TaleInv, u
    <3>1. n \in Nat /\ moment = booted - Down + n BY <1>3, TankBounds DEF n
    <3>2. a.at - a.begun + a.carried = moment - t.from
      BY <1>3, <2>1, <2>2, <2>3, <2>7, <3>1, TankBounds
    <3>3. Gone(t, moment) =< Gone(t, booted - Down) + n /\ Gone(t, moment) \in Nat
          /\ Gone(t, booted - Down) \in Nat
      BY <1>3, <2>3, <3>1, TankBounds DEF Gone, Higher
    <3> QED BY <1>3, <2>1, <2>2, <2>3, <2>7, <3>1, <3>2, <3>3, TankBounds
  <2>14. FilterInv' BY <2>1, <2>4, <2>12, <2>13 DEF FilterInv, ChargeInv, TaleInv, Gone, LongCharge
  <2>15. HandoffInv' /\ RestInv' /\ WindowInv' BY <1>1, TankFresh DEF HandoffInv, RestInv, WindowInv
  <2> QED BY <2>9, <2>11, <2>14, <2>15 DEF TankIInv
<1> QED BY <1>4, <1>5

THEOREM TankInductive == TankIInv /\ [TankNext]_tankVars => TankIInv'
<1> SUFFICES ASSUME TankIInv, [TankNext]_tankVars PROVE TankIInv' OBVIOUS
<1>1. CASE UNCHANGED tankVars
  <2>1. UNCHANGED <<moment, booted, sourced, filter, handoff, counted, told>> BY <1>1 DEF tankVars
  <2> QED BY <2>1 DEF TankIInv, TankShape, SampleInv, FilterInv, HandoffInv, RestInv, WindowInv,
                      ChargeInv, TaleInv, LastSeen, Gone, LongCharge, Clock
<1>2. CASE Moves BY <1>2, MovesKeeps
<1>3. CASE \E s \in Looks : Samples(s) BY <1>3, SamplesKeeps
<1>4. CASE StartsOver BY <1>4, StartsOverKeeps
<1>5. CASE \E b \in BOOLEAN : Restarts(b) \/ Confirms(b) BY <1>5, RestartsKeeps, ConfirmsKeeps
<1> QED BY <1>1, <1>2, <1>3, <1>4, <1>5 DEF TankNext

(* A counted loss window lasted an hour of real time and little more, also  *)
(* across restarts; before it the tank was seen at rest for as long as a    *)
(* long charge asks; and it was out of sight no longer than a candidate     *)
(* bears, nor is that time called observed (dhw_loss_step, dhw_loss_adopt). *)
THEOREM WindowsAlwaysEarned == TankSpec => []LossExact
<1>1. TankInit => TankIInv BY TankInitIInv
<1>2. TankIInv => LossExact
  <2> SUFFICES ASSUME TankIInv PROVE LossExact OBVIOUS
  <2>1. TankShape /\ FilterInv /\ RestInv /\ WindowInv BY DEF TankIInv
  <2>2. filter.settle \in 0..Settle /\ filter.hold \in 0..Settle /\ filter.charge \in 0..ChargeMin
    BY <2>1, FilterFields DEF TankShape, Typed
  <2>3. filter.open => filter.settle = 0 /\ filter.hold = 0
    BY <2>1, TankFresh DEF FilterInv, ChargeInv, RestInv, TankShape
  <2>4. moment \in 0..LastMoment /\ booted =< moment BY <2>1, TankBounds DEF TankShape
  <2>5. TankTypeOK BY <2>2, <2>3, <2>4 DEF TankTypeOK
  <2> QED BY <2>1, <2>5 DEF LossExact, WindowInv
<1>3. TankIInv /\ [TankNext]_tankVars => TankIInv' BY TankInductive
<1> QED BY <1>1, <1>2, <1>3, PTL DEF TankSpec

=============================================================================
