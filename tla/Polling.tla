------------------------------ MODULE Polling ------------------------------
(***************************************************************************)
(* The X10A poll task (hp_poll.cpp) with its detection (hp_detect.cpp,     *)
(* logic/detect.hpp) beside the configuration handlers.  A cycle captures  *)
(* the target generation, then the configuration, reads the unit without   *)
(* a lock and hands what it read to the history rings, the state ages and  *)
(* the value cache, one after the other; a handler that changes the        *)
(* target saves, asks for a new detection, moves the generation and resets *)
(* the observers, one after the other as well.                             *)
(*                                                                         *)
(* A profile is a catalogue entry, a link a pair of pins with a protocol.  *)
(* What is read is known by its source, the profile it was decoded with    *)
(* and the link it came over.                                              *)
(***************************************************************************)
EXTENDS Integers, Sequences, FiniteSets

CONSTANTS
  Wires,        \* pin pairs with a protocol
  FirstWire,    \* the build's default pins
  Units,        \* link -> the pages the unit there has, its capacity; no pages: no unit
  Pages,        \* PROBE_PAGES_*
  Rating,       \* the page that carries the capacity
  Signatures,   \* profile -> pages it needs, its capacity range (0: any)
  Generic,      \* the profile that fits everything
  Order,        \* strcmp of two profile names
  Tries,        \* DETECT_PAGE_TRIES
  Twice,        \* DETECT_NO_MATCH_CONFIRMATIONS, DETECT_INCOMPLETE_CONFIRMATIONS
  Revisions,    \* the width of the cache revision
  Choices,      \* profile and link a form may ask for
  MaxRequests   \* requests of the handlers

VARIABLES
  cfg,      \* g_cfg: the profile, the link, the identity and the revision
  engine,   \* s_target_generation, s_detect_reset and the two counts
  cache,    \* s_cache with its identity and s_last_ok_us
  carried,  \* s_sat_witness, s_rps_stopped_*: what one cycle leaves the next
  rings,    \* the X10A rings of history.cpp, and s_x10a_target_fp
  ages,     \* the table of state_dwell.cpp
  task,     \* the poll task
  form,     \* the handler: what it has still to call
  asked,    \* requests so far
  seen      \* ghost: what the last sweeps of this configuration said

pollVars == <<cfg, engine, cache, carried, rings, ages, task, form, asked, seen>>

-----------------------------------------------------------------------------
(* Detection *)

Catalogue == DOMAIN Signatures \cup {Generic}
NoModel  == "none"

(* One page, tried until it is read or refused.                             *)
PageReplies == {"ok", "refused", "quiet", "noise"}
PageOf(k) ==
  LET end == CHOOSE n \in 1..Tries + 1 :
               /\ n =< Tries => k[n] \in {"ok", "refused"}
               /\ \A m \in 1..n - 1 : k[m] \notin {"ok", "refused"}
  IN  IF end =< Tries THEN (IF k[end] = "ok" THEN "read" ELSE "absent")
      ELSE IF \E n \in 1..Tries : k[n] = "noise" THEN "failed" ELSE "absent"
PageResults == {PageOf(k) : k \in [1..Tries -> PageReplies]}

(* What a sweep of a link may yield.                                        *)
Fingerprints(l) ==
  LET possible == {r \in [Pages -> PageResults] :
                     \A p \in Pages : r[p] = "read" => p \in Units[l].pages}
  IN  {[pages |-> {p \in Pages : r[p] = "read"},
        kw    |-> IF r[Rating] = "read" THEN Units[l].kw ELSE 0,
        firm  |-> \A p \in Pages : r[p] # "failed"] : r \in possible}

Contains(s, kw)   == kw # 0 /\ s.lo # 0 /\ kw \in s.lo..s.hi
Consistent(s, fp) == /\ s.pages \subseteq fp.pages
                     /\ fp.kw # 0 /\ s.lo # 0 => Contains(s, fp.kw)
Span(s)  == IF s.lo = 0 THEN 1000 ELSE s.hi - s.lo
Better(p, q, fp) ==
  LET s == Signatures[p]  t == Signatures[q]
      Match(x) == IF Contains(x, fp.kw) THEN 1 ELSE 0
      key(x) == <<Cardinality(x.pages), Match(x), -Span(x)>>
      Above(i) == /\ key(s)[i] > key(t)[i]
                  /\ \A j \in 1..i - 1 : key(s)[j] = key(t)[j]
  IN  \/ \E i \in 1..3 : Above(i)
      \/ key(s) = key(t) /\ <<p, q>> \in Order
Best(fp) ==
  LET C == {p \in DOMAIN Signatures : Consistent(Signatures[p], fp)}
  IN  IF C = {} THEN NoModel ELSE CHOOSE p \in C : \A q \in C \ {p} : Better(p, q, fp)

(* The order leaves no tie: of the profiles that fit, one is better than    *)
(* all others.  No profile is called as its absence.                        *)
ASSUME PollAssumption ==
  /\ FirstWire \in Wires /\ MaxRequests \in Nat
  /\ {Tries, Twice, Revisions} \subseteq Nat \ {0}
  /\ "auto" \notin Catalogue
  /\ Choices \subseteq (Catalogue \cup {"auto"}) \X Wires
  /\ \A l \in Wires : \A fp \in Fingerprints(l) : Best(fp) \in DOMAIN Signatures \cup {NoModel}

(* hp_detect_run: the configured pins first, then the build's.              *)
Silent == [kind |-> "silent", link |-> FirstWire, model |-> NoModel, firm |-> TRUE]
Answering(c) == {l \in {c.link, FirstWire} : Units[l].pages # {}}
Outcomes(c) ==
  {Silent} \cup UNION {{[kind |-> "answer", link |-> l, model |-> Best(fp), firm |-> fp.firm]
                        : fp \in Fingerprints(l)} : l \in Answering(c)}

-----------------------------------------------------------------------------
(* Start, with the configuration and what each store is about *)

NoSource == <<"", FirstWire>>
NoIdentity == [src |-> <<"", NoSource>>, gen |-> 0, rev |-> 0]
EmptyCache == [id |-> NoIdentity, rows |-> {}, sat |-> {}, recent |-> FALSE]
NoneCarried == [src |-> NoSource, gen |-> 0]
Resting == [todo |-> <<>>, gen |-> 0, cfg |-> [profile |-> "auto"], out |-> Silent,
            sat |-> NoneCarried, rps |-> NoneCarried, pending |-> NoIdentity, beside |-> FALSE, old |-> FALSE]
NoCall == [todo |-> <<>>, profile |-> "auto", link |-> FirstWire]

PollInit ==
  /\ cfg = [profile |-> "auto", link |-> FirstWire, src |-> NoSource, rev |-> 1]
  /\ engine = [gen |-> 1, ask |-> FALSE, unmatched |-> 0, shaky |-> 0, tracked |-> NoModel]
  /\ cache = EmptyCache
  /\ carried = [sat |-> NoneCarried, rps |-> NoneCarried]
  /\ rings = [target |-> NoSource, reset |-> FALSE, held |-> {}]
  /\ ages = [model |-> "", reset |-> FALSE, held |-> {}, shown |-> NoIdentity]
  /\ task = Resting /\ form = NoCall /\ asked = 0 /\ seen = <<>>

-----------------------------------------------------------------------------
(* The stores, each under its own lock *)

(* history_record: rows under other labels than the rings' are another unit *)
(* whatever was reset; profiles may also spell their rows alike.            *)
RingsRecord(gen, src, spelled) ==
  LET clear == rings.reset \/ (spelled /\ \E s \in rings.held : s[1] # src[1])
  IN  rings' = IF gen # engine.gen \/ rings.target = NoSource THEN rings
               ELSE [rings EXCEPT !.reset = FALSE,
                                  !.held = (IF clear THEN {} ELSE @) \cup {src}]
RingsReset == rings' = [rings EXCEPT !.target = NoSource, !.reset = TRUE]
RingsResetOn(src) == rings' = [rings EXCEPT !.target = src, !.reset = TRUE]

(* dwell_record; S is empty when nothing was read.                          *)
AgesRecord(gen, S, pending) ==
  ages' = IF gen # engine.gen THEN ages
          ELSE IF ages.reset
          THEN [ages EXCEPT !.reset = FALSE, !.held = {}, !.shown = NoIdentity]
          ELSE [ages EXCEPT !.held = @ \cup S, !.shown = pending]
AgesReset == ages' = [ages EXCEPT !.reset = TRUE]
AgesResetOn(p) == ages' = [ages EXCEPT !.reset = TRUE, !.model = p]

-----------------------------------------------------------------------------
(* The poll task *)

At(step) == task.todo # <<>> /\ Head(task.todo) = step
Done == Tail(task.todo)
SourceOf(c) == <<c.profile, c.link>>

(* hp_poll_network_quiesced and an exception: nothing was read, and nothing *)
(* of the last cycle is carried on.                                         *)
StandsAside ==
  /\ task.todo = <<>>
  /\ task' = [Resting EXCEPT !.todo = <<"gap">>, !.gen = engine.gen]
  /\ carried' = [carried EXCEPT !.sat = NoneCarried]
  /\ UNCHANGED <<cfg, engine, cache, rings, ages, form, asked, seen>>

Gap ==
  /\ At("gap")
  /\ task' = IF Done = <<>> THEN Resting ELSE [task EXCEPT !.todo = Done]
  /\ AgesRecord(task.gen, {}, NoIdentity)
  /\ UNCHANGED <<cfg, engine, cache, carried, rings, form, asked, seen>>

(* The wait of an unconfigured unit: a gap, then a detection.               *)
Wake ==
  /\ task.todo = <<>> /\ cfg.profile = "auto"
  /\ task' = [Resting EXCEPT !.todo = <<"gap", "begin">>, !.gen = engine.gen]
  /\ carried' = [carried EXCEPT !.sat = NoneCarried]
  /\ UNCHANGED <<cfg, engine, cache, rings, ages, form, asked, seen>>

Forgotten == [engine EXCEPT !.unmatched = 0, !.shaky = 0, !.tracked = NoModel]
Begin ==
  /\ At("begin")
  /\ engine' = IF engine.ask THEN [Forgotten EXCEPT !.ask = FALSE] ELSE engine
  /\ task' = [task EXCEPT !.todo = <<"expect">>, !.gen = engine.gen]
  /\ UNCHANGED <<cfg, cache, carried, rings, ages, form, asked, seen>>

(* A handler whose calls go on past the start of a sweep has made them      *)
(* before its end: a sweep takes seconds.                                   *)
Beside == form.todo # <<>> /\ Head(form.todo) # "save"
Expect ==
  /\ At("expect")
  /\ task' = IF cfg.profile # "auto" THEN Resting
             ELSE [task EXCEPT !.cfg = cfg, !.beside = Beside, !.todo = <<"detect">>]
  /\ UNCHANGED <<cfg, engine, cache, carried, rings, ages, form, asked, seen>>

Detect ==
  /\ At("detect") /\ ~task.beside
  /\ \E o \in Outcomes(task.cfg) : task' = [task EXCEPT !.out = o, !.todo = <<"decide">>]
  /\ UNCHANGED <<cfg, engine, cache, carried, rings, ages, form, asked, seen>>

(* poll_detect under s_mtx.  An unmatched or an incomplete sweep has to be  *)
(* confirmed by the next one.                                               *)
CountedOn(o) ==                                               \* mutant
  CASE o.kind = "silent" -> Forgotten
    [] o.kind = "answer" /\ o.model = NoModel ->
       [engine EXCEPT !.unmatched = @ + 1, !.shaky = 0, !.tracked = NoModel]
    [] o.kind = "answer" /\ o.model # NoModel /\ ~o.firm ->
       [engine EXCEPT !.unmatched = 0, !.shaky = @ + 1, !.tracked = o.model]
    [] OTHER -> Forgotten
Counted(o) ==
  CASE o.kind = "silent" -> Forgotten
    [] o.kind = "answer" /\ o.model = NoModel ->
       [engine EXCEPT !.unmatched = @ + 1, !.shaky = 0, !.tracked = NoModel]
    [] o.kind = "answer" /\ o.model # NoModel /\ ~o.firm ->
       [engine EXCEPT !.unmatched = 0, !.tracked = o.model,
                      !.shaky = IF engine.tracked = o.model THEN @ + 1 ELSE 1]
    [] OTHER -> Forgotten

Confirmed(o, e) ==
  /\ o.kind = "answer"
  /\ o.model = NoModel => e.unmatched >= Twice
  /\ o.model # NoModel /\ ~o.firm => e.shaky >= Twice
Named(o) == IF o.model = NoModel THEN Generic ELSE o.model

Decide ==
  /\ At("decide")
  /\ IF task.gen # engine.gen
     THEN engine' = engine /\ task' = Resting
     ELSE LET e == Counted(task.out)
              Saturated(n) == IF n > Twice THEN Twice ELSE n
          IN  /\ engine' = [e EXCEPT !.unmatched = Saturated(@), !.shaky = Saturated(@)]
              /\ task' = IF ~Confirmed(task.out, e) THEN Resting
                         ELSE [task EXCEPT !.todo = <<"link", "agesOn", "ringsOn", "model">>]
  /\ seen' = IF task.out.kind = "silent" THEN <<>>
             ELSE IF task.old THEN seen
             ELSE LET all == Append(seen, [model |-> Named(task.out),
                                           firm |-> task.out.firm /\ task.out.model # NoModel])
                  IN  SubSeq(all, IF Len(all) > Twice THEN 2 ELSE 1, Len(all))
  /\ UNCHANGED <<cfg, cache, carried, rings, ages, form, asked>>

Detected == <<Named(task.out), task.out.link>>
SettleLink ==
  /\ At("link")
  /\ IF task.cfg.rev # cfg.rev
     THEN cfg' = cfg /\ task' = Resting
     ELSE /\ cfg' = [cfg EXCEPT !.link = task.out.link, !.src = Detected, !.rev = @ + 1]
          /\ task' = [task EXCEPT !.cfg = cfg', !.todo = Done]
  /\ UNCHANGED <<engine, cache, carried, rings, ages, form, asked, seen>>
ObserveSettled ==
  /\ \/ At("agesOn")  /\ AgesResetOn(Detected[1]) /\ UNCHANGED rings
     \/ At("ringsOn") /\ RingsResetOn(Detected)   /\ UNCHANGED ages
  /\ task' = [task EXCEPT !.todo = Done]
  /\ UNCHANGED <<cfg, engine, cache, carried, form, asked, seen>>
SettleModel ==
  /\ At("model")
  /\ cfg' = IF task.cfg.rev # cfg.rev THEN cfg
            ELSE [cfg EXCEPT !.profile = Detected[1], !.rev = @ + 1]
  /\ task' = Resting
  /\ UNCHANGED <<engine, cache, carried, rings, ages, form, asked, seen>>

(* poll_once: the generation is captured before the configuration is read.  *)
Capture ==
  /\ task.todo = <<>> /\ cfg.profile # "auto"
  /\ task' = [Resting EXCEPT !.todo = <<"copy">>, !.gen = engine.gen]
  /\ UNCHANGED <<cfg, engine, cache, carried, rings, ages, form, asked, seen>>
Copies(step) ==
  task' = [task EXCEPT !.cfg = cfg, !.beside = Beside, !.todo = step,
             !.sat = IF carried.sat.gen = task.gen THEN carried.sat ELSE NoneCarried,
             !.rps = IF carried.rps.gen = task.gen THEN carried.rps ELSE NoneCarried]
Copy ==
  /\ At("copy")
  /\ IF cfg.profile = "auto"
     THEN /\ task' = Resting
          /\ carried' = [carried EXCEPT !.sat = NoneCarried]
     ELSE /\ Copies(<<"read">>) /\ UNCHANGED carried
  /\ UNCHANGED <<cfg, engine, cache, rings, ages, form, asked, seen>>

(* The sweep is over: what was carried may have become too old in it; RPS   *)
(* told whether the unit stands still.                                      *)
Read ==
  /\ At("read") /\ ~task.beside
  /\ \E sat \in {task.sat, NoneCarried}, rps \in {"unknown", "runs", "stands"} :
       LET here == [src |-> SourceOf(task.cfg), gen |-> task.gen]
       IN  /\ task' = [task EXCEPT !.sat = sat, !.todo = <<"rings", "identity", "ages", "commit">>]
           /\ carried' = [carried EXCEPT !.rps = CASE rps = "unknown" -> carried.rps
                                                   [] rps = "runs" -> [here EXCEPT !.src = NoSource]
                                                   [] rps = "stands" -> here]
  /\ UNCHANGED <<cfg, engine, cache, rings, ages, form, asked, seen>>

(* hp_uart_init fails or memory runs out: a gap.                            *)
Fails ==
  /\ At("read") \/ At("detect")
  /\ task' = [task EXCEPT !.todo = <<"gap">>, !.gen = engine.gen]
  /\ carried' = [carried EXCEPT !.sat = NoneCarried]
  /\ engine' = IF At("detect") /\ task.gen = engine.gen THEN Forgotten ELSE engine
  /\ seen' = IF At("detect") THEN <<>> ELSE seen
  /\ UNCHANGED <<cfg, cache, rings, ages, form, asked>>

RecordRings ==
  /\ At("rings")
  /\ \E spelled \in BOOLEAN : RingsRecord(task.gen, SourceOf(task.cfg), spelled)
  /\ task' = [task EXCEPT !.todo = Done]
  /\ UNCHANGED <<cfg, engine, cache, carried, ages, form, asked, seen>>

Identify ==
  /\ At("identity")
  /\ task' = IF task.gen # engine.gen THEN Resting
             ELSE [task EXCEPT !.todo = Done,
                     !.pending = [src |-> <<task.cfg.profile, task.cfg.src>>, gen |-> task.gen,
                                  rev |-> (cache.id.rev + 1) % Revisions]]
  /\ UNCHANGED <<cfg, engine, cache, carried, rings, ages, form, asked, seen>>

RecordAges ==
  /\ At("ages")
  /\ AgesRecord(task.gen, {SourceOf(task.cfg)}, task.pending)
  /\ task' = [task EXCEPT !.todo = Done]
  /\ UNCHANGED <<cfg, engine, cache, carried, rings, form, asked, seen>>

(* Some registers may have gone unanswered, or all: then the last success   *)
(* stays what it was.                                                       *)
CommitAlways == TRUE                                          \* mutant
CommitAdmitted == task.gen = engine.gen
Commit ==
  /\ At("commit")
  /\ task' = Resting
  /\ \E ok \in BOOLEAN, sat \in BOOLEAN :
       /\ sat => ok
       /\ IF CommitAdmitted
          THEN /\ cache' = [id |-> [task.pending EXCEPT !.rev = (cache.id.rev + 1) % Revisions],
                            rows |-> IF ok THEN {SourceOf(task.cfg)} ELSE {},
                            sat  |-> {task.sat.src, task.rps.src} \ {NoSource},
                            recent |-> cache.recent \/ ok]
               /\ carried' = [carried EXCEPT !.sat = IF sat
                                THEN [src |-> SourceOf(task.cfg), gen |-> task.gen] ELSE NoneCarried]
          ELSE UNCHANGED <<cache, carried>>
  /\ UNCHANGED <<cfg, engine, rings, ages, form, asked, seen>>

(* 15 s without an answer.                                                  *)
Ages ==
  /\ cache.recent /\ cache' = [cache EXCEPT !.recent = FALSE]
  /\ UNCHANGED <<cfg, engine, carried, rings, ages, task, form, asked, seen>>

-----------------------------------------------------------------------------
(* The configuration handlers *)

(* set_hp, do_detect, or another form's save.                               *)
Asks ==
  /\ form.todo = <<>> /\ asked < MaxRequests /\ asked' = asked + 1
  /\ \/ \E c \in Choices :
          form' = [todo |-> <<"save", "ask", "bump", "ages", "rings">> \o
                            (IF c[1] = "auto" THEN <<>> ELSE <<"agesOn", "ringsOn">>),
                   profile |-> c[1], link |-> c[2]]
     \/ form' = [NoCall EXCEPT !.todo = <<"forget", "ask", "bump", "ages", "rings">>]
     \/ form' = [NoCall EXCEPT !.todo = <<"other">>]
  /\ UNCHANGED <<cfg, engine, cache, carried, rings, ages, task, seen>>

Calls(step) == form.todo # <<>> /\ Head(form.todo) = step
Sweeping == At("detect") \/ At("decide")
Called ==
  /\ form.todo # <<>>
  /\ form' = IF Len(form.todo) = 1 THEN NoCall ELSE [form EXCEPT !.todo = Tail(@)]
  /\ task' = [task EXCEPT !.beside = @ /\ Len(form.todo) > 1,
                          !.old = @ \/ (Sweeping /\ Head(form.todo) \in {"save", "forget"})]
  /\ UNCHANGED asked

Saves ==
  /\ Called
  /\ \/ /\ Calls("save")
        /\ cfg' = [profile |-> form.profile, link |-> form.link, rev |-> cfg.rev + 1,
                   src |-> IF form.profile = "auto" THEN NoSource
                           ELSE <<form.profile, form.link>>]
        /\ seen' = <<>>
     \/ /\ Calls("forget")
        /\ cfg' = [cfg EXCEPT !.profile = "auto", !.rev = @ + 1]
        /\ seen' = <<>>
     \/ /\ Calls("other")
        /\ cfg' = [cfg EXCEPT !.rev = @ + 1] /\ UNCHANGED seen
  /\ UNCHANGED <<engine, cache, carried, rings, ages>>

(* hp_poll_reconfigure: the wish for a new detection, then under s_mtx,     *)
(* which a detection holds from its decision to its commit.                 *)
Reconfigures ==
  /\ Called
  /\ \/ /\ Calls("ask")
        /\ engine' = [engine EXCEPT !.ask = TRUE] /\ UNCHANGED cache
     \/ /\ Calls("bump")
        /\ ~\E s \in {"link", "agesOn", "ringsOn", "model"} : At(s)
        /\ engine' = [engine EXCEPT !.gen = @ + 1]
        /\ cache' = [EmptyCache EXCEPT !.id.rev = (cache.id.rev + 1) % Revisions]
  /\ UNCHANGED <<cfg, carried, rings, ages, seen>>

Resets ==
  /\ Called
  /\ \/ Calls("ages")    /\ AgesReset /\ UNCHANGED rings
     \/ Calls("rings")   /\ RingsReset /\ UNCHANGED ages
     \/ Calls("agesOn")  /\ AgesResetOn(form.profile) /\ UNCHANGED rings
     \/ Calls("ringsOn") /\ RingsResetOn(<<form.profile, form.link>>) /\ UNCHANGED ages
  /\ UNCHANGED <<cfg, engine, cache, carried, seen>>

-----------------------------------------------------------------------------
PollNext ==
  \/ StandsAside \/ Gap \/ Wake \/ Begin \/ Expect \/ Detect \/ Decide
  \/ SettleLink \/ ObserveSettled \/ SettleModel
  \/ Capture \/ Copy \/ Read \/ Fails \/ RecordRings \/ Identify \/ RecordAges
  \/ Commit \/ Ages \/ Asks \/ Saves \/ Reconfigures \/ Resets
PollSpec == PollInit /\ [][PollNext]_pollVars

-----------------------------------------------------------------------------
(* Properties *)

PollTypeOK ==
  /\ cfg.profile \in Catalogue \cup {"auto"} /\ cfg.link \in Wires
  /\ engine.unmatched \in 0..Twice /\ engine.shaky \in 0..Twice
  /\ rings.held \cup ages.held \cup cache.rows \subseteq Catalogue \X Wires
  /\ cache.id.rev \in 0..Revisions - 1 /\ task.gen \in 0..engine.gen
  /\ asked \in 0..MaxRequests /\ Len(seen) =< Twice

(* Whatever a cycle was overtaken by, nobody reads one unit under the name  *)
(* of another: a value of the cache, and what was carried over to decode    *)
(* it, are of the source the cache names, which is the one in use once the  *)
(* handler is done; the rings hold samples of their target only; a state    *)
(* age is shown beside a value of its own source; and a unit in use is the  *)
(* one the rings are recording.                                             *)
SourceScoped ==
  /\ PollTypeOK
  /\ cache.rows \cup cache.sat \subseteq {cache.id.src[2]}
  /\ form.todo = <<>> => cache.rows \subseteq {SourceOf(cfg)}
  /\ ~rings.reset => rings.held \subseteq {rings.target}
  /\ cache.recent /\ ~ages.reset /\ ages.shown = cache.id => ages.held \subseteq {cache.id.src[2]}
  /\ task.todo = <<>> /\ form.todo = <<>> /\ cfg.profile # "auto" => rings.target = cfg.src

(* A detection settles on a model only when its last sweep named it without *)
(* a page lost, or when the last two named it one after the other, with no  *)
(* silence, failure or new target between them.                             *)
Earned(p) ==
  LET n == Len(seen)
  IN  /\ n > 0 /\ seen[n].model = p
      /\ seen[n].firm \/ (n >= Twice /\ \A i \in n - Twice + 1..n : seen[i].model = p)
ModelEarned ==
  [][At("model") /\ task'.todo # task.todo /\ cfg'.profile # cfg.profile => Earned(cfg'.profile)]_pollVars
=============================================================================
