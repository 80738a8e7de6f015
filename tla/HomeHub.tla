------------------------------ MODULE HomeHub -------------------------------
(***************************************************************************)
(* The HomeHub gateway (hp_modbus.cpp, logic/modbus_profile.hpp,           *)
(* modbus_plan.hpp, modbus_snapshot.hpp): a task that polls the saved      *)
(* gateway over a socket it alone owns, publishing into a status, a value  *)
(* cache and the trend rings, each behind a lock of its own, while the     *)
(* settings form names another gateway and /values takes snapshots.        *)
(*                                                                         *)
(* A row, a gate, an error and a sample carry the gateway they were read   *)
(* from.  One step is what happens under one lock or between two replies.  *)
(***************************************************************************)
EXTENDS Integers, FiniteSets

CONSTANTS
  Gateways,    \* addresses that may be saved
  Native,      \* those that answer the native register map
  NoGateway,   \* the empty address
  FullTicks,   \* MB_FULL_CYCLE_TICKS
  ProbeTries,  \* MODBUS_PROBE_MAX_RETRIES
  Prompt,      \* no request is answered while the form is between its calls
  MaxForms,    \* bound of settings saved
  MaxRenamed,  \* bound of the rings' changes of identity
  MaxFaults    \* bound of what goes wrong

ASSUME HubAssumption ==
  /\ Native \subseteq Gateways /\ NoGateway \notin Gateways
  /\ {FullTicks, ProbeTries} \subseteq Nat \ {0} /\ MaxForms \in Nat /\ Prompt \in BOOLEAN

VARIABLES
  saved,       \* the address in the configuration
  form,        \* the settings handler: its step, the address before it, how many ran
  enabled, targetGen,  \* s_target_enabled, s_target_generation
  taken, running, parting,  \* s_task is taken, s_mb_task_running, retired tasks yet to look back
  turn,        \* the task's cycle
  sock, ticks, \* the gateway the open socket is of; s_cycle_tick
  tracker,     \* ModbusProbeTracker
  profile,     \* s_active_profile
  shown,       \* s_status and s_link_generation
  cache,       \* s_cache and its generations
  rings,       \* the trend rings and their identity
  reader,      \* the tokens of a snapshot that copied the cache and has yet to look at the link
  faults

hubVars == <<saved, form, enabled, targetGen, taken, running, parting, turn, sock, ticks,
             tracker, profile, shown, cache, rings, reader, faults>>
taskVars == <<turn, sock, ticks, tracker, profile>>
formVars == <<saved, form, enabled, targetGen>>
lifeVars == <<taken, running, parting>>

-----------------------------------------------------------------------------
Regs == {"gate", "row"}
Rested == [pc |-> "none", gen |-> 0, of |-> NoGateway, ringGen |-> 0, link |-> 0,
           fresh |-> {}, map |-> "Auto", error |-> "none", broken |-> FALSE, current |-> FALSE,
           promoted |-> FALSE]
Cleared == [connected |-> FALSE, observed |-> FALSE, gate |-> NoGateway, error |-> NoGateway,
            map |-> "Auto", of |-> NoGateway, values |-> 0]
Empty == [rows |-> {}, of |-> NoGateway, map |-> "Auto", link |-> 0, gen |-> 0]
Unread == [of |-> NoGateway, link |-> 0, gen |-> 0]
Untracked == [of |-> NoGateway, active |-> "Auto", affirmed |-> "Auto", failures |-> 0, wait |-> "no"]

HubInit ==
  /\ saved \in Gateways \cup {NoGateway}
  /\ form = [pc |-> "idle", old |-> saved, runs |-> 0]
  /\ enabled = (saved # NoGateway) /\ targetGen = 1
  /\ taken = enabled /\ running = FALSE /\ parting = 0
  /\ turn = [Rested EXCEPT !.pc = IF enabled THEN "entry" ELSE "none"]
  /\ sock = NoGateway /\ ticks = 0 /\ tracker = Untracked /\ profile = "Auto"
  /\ shown = [s |-> Cleared, link |-> 0] /\ cache = Empty
  /\ rings = [gen |-> 1, of |-> saved, pending |-> FALSE, samples |-> {}]
  /\ reader = Unread /\ faults = 0

Fault == faults < MaxFaults /\ faults' = faults + 1
At(pc) == turn.pc = pc
Goes(pc) == turn' = [turn EXCEPT !.pc = pc]
Shows(s) == shown' = [shown EXCEPT !.s = s]
Ours == targetGen = turn.gen

-----------------------------------------------------------------------------
(* The task's life *)

(* mb_task_start_if_enabled *)
StartsTask ==
  IF enabled /\ ~taken THEN taken' = TRUE /\ turn' = [Rested EXCEPT !.pc = "entry"]
  ELSE UNCHANGED <<taken, turn>>

Enters ==
  /\ At("entry") /\ running' = TRUE /\ Goes("idle")
  /\ UNCHANGED <<formVars, taken, parting, sock, ticks, tracker, profile, shown, cache, rings, reader, faults>>

(* The loop's break, and mb_disconnect. *)
Retires ==
  /\ At("idle") /\ ~enabled /\ Goes("retiring") /\ sock' = NoGateway
  /\ Shows([shown.s EXCEPT !.connected = FALSE, !.observed = FALSE])
  /\ UNCHANGED <<formVars, lifeVars, ticks, tracker, profile, cache, rings, reader, faults>>
Clears ==
  /\ At("retiring") /\ Goes("cleared") /\ cache' = Empty
  /\ UNCHANGED <<formVars, lifeVars, sock, ticks, tracker, profile, shown, rings, reader, faults>>
Leaves ==
  /\ At("cleared") /\ turn' = Rested /\ taken' = FALSE /\ running' = FALSE /\ parting' = parting + 1
  /\ Shows([shown.s EXCEPT !.values = 0, !.observed = FALSE])
  /\ UNCHANGED <<formVars, sock, ticks, tracker, profile, cache, rings, reader, faults>>
LeavesForGood ==                                                \* mutant
  /\ parting > 0 /\ parting' = parting - 1 /\ UNCHANGED <<taken, turn>>
  /\ UNCHANGED <<formVars, running, sock, ticks, tracker, profile, shown, cache, rings, reader, faults>>
LooksBack ==
  /\ parting > 0 /\ parting' = parting - 1 /\ StartsTask
  /\ UNCHANGED <<formVars, running, sock, ticks, tracker, profile, shown, cache, rings, reader, faults>>

-----------------------------------------------------------------------------
(* The settings form: the save, then the rings', the task's and the cache's *)
(* change of identity, one after the other.                                 *)
InForm(pc, next) == form.pc = pc /\ form' = [form EXCEPT !.pc = next]

(* history_modbus_reset *)
NewRings(g) == [rings EXCEPT !.gen = @ + 1, !.of = g, !.pending = TRUE]

Saves(g) ==
  /\ form.pc = "idle" /\ form.runs < MaxForms /\ g # saved /\ saved' = g
  /\ form' = [pc |-> "saved", old |-> saved, runs |-> form.runs + 1]
  /\ UNCHANGED <<enabled, targetGen, lifeVars, taskVars, shown, cache, rings, reader, faults>>
FormResets ==
  /\ InForm("saved", "reset") /\ rings' = NewRings(saved)
  /\ UNCHANGED <<saved, enabled, targetGen, lifeVars, taskVars, shown, cache, reader, faults>>
FormEnables ==
  /\ InForm("reset", "enabled") /\ enabled' = (saved # NoGateway)
  /\ UNCHANGED <<saved, targetGen, lifeVars, taskVars, shown, cache, rings, reader, faults>>
FormBumps ==
  /\ InForm("enabled", "bumped") /\ targetGen' = targetGen + 1 /\ Shows(Cleared)
  /\ UNCHANGED <<saved, enabled, lifeVars, taskVars, cache, rings, reader, faults>>
FormClears ==
  /\ InForm("bumped", "starts") /\ cache' = Empty
  /\ UNCHANGED <<saved, enabled, targetGen, lifeVars, taskVars, shown, rings, reader, faults>>
FormStarts ==
  /\ InForm("starts", "idle") /\ StartsTask
  /\ UNCHANGED <<saved, enabled, targetGen, running, parting, sock, ticks, tracker, profile,
                 shown, cache, rings, reader, faults>>

-----------------------------------------------------------------------------
(* A cycle: which gateway *)
Begins ==
  /\ At("idle") /\ enabled /\ turn' = [Rested EXCEPT !.pc = "begun", !.gen = targetGen]
  /\ UNCHANGED <<formVars, lifeVars, sock, ticks, tracker, profile, shown, cache, rings, reader, faults>>

(* The configured address, and the rings' change when it is a new one.      *)
Targets ==
  /\ At("begun") /\ turn' = [turn EXCEPT !.pc = "aimed", !.of = saved]
  /\ IF sock # NoGateway /\ sock # saved
     THEN rings.gen < MaxRenamed /\ rings' = NewRings(saved)
     ELSE UNCHANGED rings
  /\ UNCHANGED <<formVars, lifeVars, sock, ticks, tracker, profile, shown, cache, reader, faults>>
Captures ==
  /\ At("aimed") /\ turn' = [turn EXCEPT !.pc = "dial", !.ringGen = rings.gen]
  /\ UNCHANGED <<formVars, lifeVars, sock, ticks, tracker, profile, shown, cache, rings, reader, faults>>

(* mb_ensure_connected *)
Reuses ==
  /\ At("dial") /\ Ours /\ turn.of # NoGateway /\ sock = turn.of /\ Goes("linked")
  /\ UNCHANGED <<formVars, lifeVars, sock, ticks, tracker, profile, shown, cache, rings, reader, faults>>
Refused ==
  /\ At("dial") /\ (~Ours \/ turn.of = NoGateway) /\ Goes("failed")
  /\ Shows(IF Ours THEN [shown.s EXCEPT !.connected = FALSE, !.error = turn.of] ELSE shown.s)
  /\ UNCHANGED <<formVars, lifeVars, sock, ticks, tracker, profile, cache, rings, reader, faults>>
Dials ==
  /\ At("dial") /\ Ours /\ turn.of # NoGateway /\ sock # turn.of
  /\ sock' = NoGateway /\ Goes("dialling")
  /\ Shows([shown.s EXCEPT !.connected = FALSE, !.observed = FALSE, !.error = NoGateway])
  /\ UNCHANGED <<formVars, lifeVars, ticks, tracker, profile, cache, rings, reader, faults>>
Unreached ==
  /\ At("dialling") /\ Fault /\ Goes("failed")
  /\ Shows(IF Ours THEN [shown.s EXCEPT !.connected = FALSE, !.error = turn.of] ELSE shown.s)
  /\ UNCHANGED <<formVars, lifeVars, sock, ticks, tracker, profile, cache, rings, reader>>

(* ModbusProbeTracker::on_socket_open *)
Opened ==
  IF tracker.of # turn.of THEN [Untracked EXCEPT !.of = turn.of]
  ELSE IF tracker.affirmed # "Auto" THEN [tracker EXCEPT !.active = tracker.affirmed]
  ELSE IF tracker.wait = "yes" THEN [tracker EXCEPT !.active = "HomeHub"]
  ELSE [tracker EXCEPT !.active = "Auto", !.wait = "no",
                       !.failures = IF tracker.wait = "over" THEN 0 ELSE @]

(* The generation is looked at before the socket is kept, and again under   *)
(* the lock of status_socket_open, after the tracker was told.              *)
Outdated ==
  /\ At("dialling") /\ ~Ours /\ Goes("failed")
  /\ UNCHANGED <<formVars, lifeVars, sock, ticks, tracker, profile, shown, cache, rings, reader, faults>>
Connects ==
  /\ At("dialling") /\ Ours /\ Goes("opening") /\ sock' = turn.of /\ ticks' = 0
  /\ tracker' = Opened /\ profile' = tracker'.active
  /\ UNCHANGED <<formVars, lifeVars, shown, cache, rings, reader, faults>>
Opens ==
  /\ At("opening")
  /\ IF Ours
     THEN /\ Goes("linked") /\ UNCHANGED sock
          /\ shown' = [s |-> [shown.s EXCEPT !.connected = FALSE, !.observed = FALSE,
                                              !.map = profile, !.of = turn.of],
                        link |-> shown.link + 1]
     ELSE Goes("failed") /\ sock' = NoGateway /\ UNCHANGED shown
  /\ UNCHANGED <<formVars, lifeVars, ticks, tracker, profile, cache, rings, reader, faults>>

(* The cache goes with the link, and the rings get a gap.                   *)
Consumed(sample) ==
  IF turn.ringGen # rings.gen THEN rings
  ELSE [rings EXCEPT !.pending = FALSE, !.samples = (IF rings.pending THEN {} ELSE @) \cup sample]
GivesUp ==
  /\ At("failed") /\ Goes("idle") /\ cache' = Empty /\ Shows([shown.s EXCEPT !.values = 0])
  /\ rings' = Consumed({})
  /\ UNCHANGED <<formVars, lifeVars, sock, ticks, tracker, profile, reader, faults>>

-----------------------------------------------------------------------------
(* A cycle: the sweep *)
Full == ticks % FullTicks = 0
MayAnswer == ~Prompt \/ form.pc \in {"idle", "bumped", "starts"}

(* Some registers answer an exception; or the link breaks on the way.  A    *)
(* fast cycle reads the gates and keeps no row.                             *)
Asked == IF Full THEN Regs ELSE {"gate"}
Sweeps(got, broken) ==
  /\ At("linked") /\ MayAnswer
  /\ IF broken \/ got # Asked THEN Fault ELSE UNCHANGED faults
  /\ turn' = [turn EXCEPT !.pc = "swept", !.link = shown.link, !.fresh = got, !.map = profile,
                          !.broken = broken,
                          !.error = IF broken THEN "link" ELSE IF got # Asked THEN "register" ELSE "none"]
  /\ sock' = IF broken THEN NoGateway ELSE sock
  /\ Shows(IF broken THEN [shown.s EXCEPT !.connected = FALSE] ELSE shown.s)
  /\ UNCHANGED <<formVars, lifeVars, ticks, tracker, profile, cache, rings, reader>>

(* An allocation fails on the way: no reply of this cycle counts.           *)
Throws ==
  /\ turn.pc \in {"begun", "aimed", "dial", "linked"} /\ Fault /\ Goes("idle")
  /\ Shows([shown.s EXCEPT !.observed = FALSE])
  /\ UNCHANGED <<formVars, lifeVars, sock, ticks, tracker, profile, cache, rings, reader>>

(* should_probe *)
MayProbe == tracker.affirmed = "Auto" /\ tracker.wait # "yes"
Probing == Full /\ ~turn.broken /\ (turn.map = "Auto" \/ MayProbe)

(* What a gateway may answer to the probe of a native register.             *)
ProbeAnswers(g) ==
  {"busy", "other", "lost"} \cup (IF g \in Native THEN {"pressure"} ELSE {"unsupported"})

(* evaluate_probe: an affirmative answer stays for as long as the gateway   *)
(* is the same; a few that say nothing make a fallback, to be tried again.  *)
Affirmed(map) ==
  [tracker EXCEPT !.active = map, !.affirmed = map, !.failures = 0, !.wait = "no"]
Missed ==
  IF tracker.failures + 1 < ProbeTries THEN [tracker EXCEPT !.failures = @ + 1]
  ELSE [tracker EXCEPT !.active = "HomeHub", !.failures = 0, !.wait = "yes"]
Judged(a) ==
  CASE a = "pressure"    -> Affirmed("Altherma4")
    [] a = "unsupported" -> Affirmed("HomeHub")
    [] a = "busy"        -> tracker
    [] OTHER             -> Missed

(* A baseline read as the other map is not published; the probe's row is.   *)
Probes(a) ==
  /\ At("swept") /\ Probing /\ MayAnswer /\ tracker' = Judged(a)
  /\ IF a \in {"busy", "other", "lost"} THEN Fault ELSE UNCHANGED faults
  /\ profile' = IF tracker'.affirmed # "Auto" \/ (tracker'.wait = "yes" /\ tracker.wait # "yes")
                THEN tracker'.active ELSE profile
  /\ LET promoted == a = "pressure" /\ turn.map # "Altherma4"
     IN  turn' = [turn EXCEPT !.pc = "probed", !.broken = a = "lost", !.promoted = promoted,
                              !.fresh = IF promoted THEN {"row"} ELSE @,
                              !.map = IF promoted THEN "Altherma4" ELSE @]
  /\ sock' = IF a = "lost" THEN NoGateway ELSE sock
  /\ Shows(IF a = "lost" THEN [shown.s EXCEPT !.connected = FALSE] ELSE shown.s)
  /\ UNCHANGED <<formVars, lifeVars, ticks, cache, rings, reader>>
Unprobed ==
  /\ At("swept") /\ ~Probing /\ Goes("probed")
  /\ UNCHANGED <<formVars, lifeVars, sock, ticks, tracker, profile, shown, cache, rings, reader, faults>>
RetryDue ==
  /\ tracker.wait = "yes" /\ tracker' = [tracker EXCEPT !.wait = "over"]
  /\ UNCHANGED <<formVars, lifeVars, turn, sock, ticks, profile, shown, cache, rings, reader, faults>>

-----------------------------------------------------------------------------
(* A cycle: what it publishes, each under its own lock *)
CurrentLink == sock # NoGateway /\ shown.link = turn.link        \* mutant
Current == sock # NoGateway /\ shown.link = turn.link /\ Ours

Judges ==
  /\ At("probed")
  /\ turn' = [turn EXCEPT !.pc = IF Full THEN "judged" ELSE "cached", !.current = Current]
  /\ UNCHANGED <<formVars, lifeVars, sock, ticks, tracker, profile, shown, cache, rings, reader, faults>>
Records ==
  /\ At("judged") /\ Goes("recorded")
  /\ rings' = Consumed(IF turn.current /\ "row" \in turn.fresh THEN {turn.of} ELSE {})
  /\ UNCHANGED <<formVars, lifeVars, sock, ticks, tracker, profile, shown, cache, reader, faults>>
Caches ==
  /\ At("recorded") /\ Goes("cached")
  /\ cache' = IF Ours
              THEN [rows |-> turn.fresh, of |-> turn.of, map |-> turn.map, link |-> turn.link, gen |-> turn.gen]
              ELSE Empty
  /\ UNCHANGED <<formVars, lifeVars, sock, ticks, tracker, profile, shown, rings, reader, faults>>

(* The status takes what was read only while the session and the target are *)
(* still those of the cycle.                                                *)
Published ==
  [shown.s EXCEPT
     !.connected = Current, !.observed = Current,
     !.gate = IF Current /\ "gate" \in turn.fresh /\ ~turn.promoted THEN turn.of ELSE NoGateway,
     !.values = IF ~Current THEN 0 ELSE IF Full THEN Cardinality(turn.fresh) ELSE @,
     !.map = IF Ours THEN profile ELSE @, !.of = IF Ours THEN turn.of ELSE @]
Publishes ==
  /\ At("cached") /\ Shows(Published)
  /\ turn' = [turn EXCEPT !.pc = "published", !.current = Current]
  /\ UNCHANGED <<formVars, lifeVars, sock, ticks, tracker, profile, cache, rings, reader, faults>>

(* status_error, status_recovered: one error stands for the whole map, and  *)
(* only a full cycle proves that it is over.                                *)
Reported ==
  IF ~Ours THEN shown.s
  ELSE IF turn.error # "none"
       THEN [shown.s EXCEPT !.error = turn.of, !.connected = IF turn.current THEN @ ELSE FALSE]
  ELSE IF Full /\ turn.current THEN [shown.s EXCEPT !.error = NoGateway] ELSE shown.s
Reports ==
  /\ At("published") /\ Shows(Reported) /\ turn' = [Rested EXCEPT !.pc = "idle"]
  /\ ticks' = IF turn.promoted THEN 0 ELSE (ticks + 1) % FullTicks
  /\ UNCHANGED <<formVars, lifeVars, sock, tracker, profile, cache, rings, reader, faults>>

-----------------------------------------------------------------------------
(* mb_values_snapshot: the copy, and the look at the link after it.         *)
Copies ==
  /\ cache.rows # {} /\ reader = Unread
  /\ reader' = [of |-> cache.of, link |-> cache.link, gen |-> cache.gen]
  /\ UNCHANGED <<formVars, lifeVars, taskVars, shown, cache, rings, faults>>
Answers ==
  /\ reader # Unread /\ reader' = Unread
  /\ UNCHANGED <<formVars, lifeVars, taskVars, shown, cache, rings, faults>>

(* modbus_cache_is_live *)
Live(copy) ==
  /\ shown.s.connected /\ shown.s.observed /\ shown.link # 0
  /\ copy.link = shown.link /\ copy.gen = targetGen

-----------------------------------------------------------------------------
HubTask ==
  \/ Enters \/ Retires \/ Clears \/ Leaves \/ Begins \/ Targets \/ Captures
  \/ Reuses \/ Refused \/ Dials \/ Unreached \/ Outdated \/ Connects \/ Opens \/ GivesUp
  \/ \E broken \in BOOLEAN : \E got \in SUBSET Asked : Sweeps(got, broken)
  \/ \E a \in ProbeAnswers(turn.of) : Probes(a)
  \/ Unprobed \/ Throws \/ Judges \/ Records \/ Caches \/ Publishes \/ Reports
HubForm ==
  \/ \E g \in Gateways \cup {NoGateway} : Saves(g)
  \/ FormResets \/ FormEnables \/ FormBumps \/ FormClears \/ FormStarts
HubNext == HubTask \/ HubForm \/ LooksBack \/ RetryDue \/ Copies \/ Answers

HubSpec == HubInit /\ [][HubNext]_hubVars

-----------------------------------------------------------------------------
HubTypeOK ==
  /\ saved \in Gateways \cup {NoGateway} /\ sock \in Gateways \cup {NoGateway}
  /\ parting \in 0..MaxForms /\ ticks \in 0..(FullTicks - 1)
  /\ turn.fresh \subseteq Regs /\ cache.rows \subseteq Regs
  /\ tracker.failures \in 0..(ProbeTries - 1) /\ rings.samples \subseteq Gateways

(* The gateways the user may expect to see: the saved one, and while the    *)
(* handler that saved it has not come to say so, the one before.            *)
Expected == {saved} \cup (IF form.pc \in {"saved", "reset", "enabled"} THEN {form.old} ELSE {})

(* A snapshot that passes for live is of the gateway that is saved, from    *)
(* the session that is open, decoded by the map this gateway answers.       *)
ServedCurrent ==
  /\ Live(reader) => reader.of \in Expected
  /\ cache.map = "Altherma4" => cache.of \in Native

(* What the status says is of the saved gateway.                            *)
StatusScoped ==
  LET s == shown.s
  IN  /\ {s.gate, s.error} \subseteq Expected \cup {NoGateway}
      /\ s.connected => s.of \in Expected
      /\ s.map = "Altherma4" => s.of \in Native

(* The rings hold the samples of one gateway, the one they are named for.   *)
RingsScoped ==
  /\ form.pc \notin {"saved"} => rings.of = saved
  /\ ~rings.pending => rings.samples \subseteq {rings.of}

HubScoped == HubTypeOK /\ ServedCurrent /\ StatusScoped /\ RingsScoped

(* A saved gateway has its one task as soon as the handlers and the retired *)
(* tasks are through, and a task at work says that it is running.           *)
OneHubTask ==
  /\ form.pc = "idle" /\ parting = 0 => (enabled => taken)
  /\ taken <=> turn.pc # "none"
  /\ turn.pc \notin {"none", "entry"} => running
=============================================================================
