------------------------------ MODULE Retained ------------------------------
(***************************************************************************)
(* What the MQTT publisher leaves at the broker (mqtt_ha.cpp).  Discovery  *)
(* configs and state topics are retained: whoever announced a topic has to *)
(* delete it again, one acknowledged tombstone at a time, over lost        *)
(* connections, stopped transports and reboots.  Three jobs share the one  *)
(* tombstone esp-mqtt may own: the cutover from one X10A profile to        *)
(* another, whose predecessor a record in NVS remembers; the periodic      *)
(* deletion of retired discovery; and the cleanup of a source switched off *)
(* (logic/mqtt_cleanup.hpp, logic/mqtt_retirement.hpp).                    *)
(*                                                                         *)
(* mqtt_task runs its cycle; esp-mqtt's task delivers, acknowledges,       *)
(* expires and reports into a bounded ring; the HTTP task changes profile  *)
(* and source.  HomeHub stands for the three sources, one retired topic    *)
(* for each ledger.  Left out: the frozen label aliases (another ledger    *)
(* behind the same slot), the probes of four raw topics, the ownership     *)
(* check of a preserved base, and the X10A observation gate.               *)
(***************************************************************************)
EXTENDS Naturals, Sequences, FiniteSets

CONSTANTS
  Profiles,    \* the X10A models
  Rows,        \* the discovery topics of each
  Withheld,    \* those of them this firmware no longer publishes
  RingCap,     \* 32 in the code
  TornSaves,   \* whether a record's save that fails may have written it
  MaxChanges,  \* bound: changes of the profile or the source,
  MaxFaults    \* ... and losses: connection, transport, expiry, save, reboot

ASSUME RetAssumption ==
  /\ \A p \in Profiles : Withheld[p] \subseteq Rows[p]
  /\ Profiles \cap {"none", "auto"} = {} /\ TornSaves \in BOOLEAN
  /\ \A p \in Profiles : Rows[p] \cap {"state", "retired"} = {}
  /\ RingCap \in Nat \ {0} /\ {MaxChanges, MaxFaults} \subseteq Nat

VARIABLES
  config,    \* the saved profile and source, and a request HTTP still owes
  record,    \* the retirement record in NVS
  task,      \* mqtt_task: its place, its copies, what it remembers
  job,       \* the profile cutover under way
  delivery,  \* MqttRetirementDelivery
  cleanup,   \* MqttCleanupScheduler, with what it serves
  periodic,  \* the retired-discovery pass
  link,      \* the transport
  outbox,    \* esp-mqtt's tombstones
  ring,      \* delivery evidence for mqtt_task, and whether some was lost
  broker,    \* the topics retained there
  budget

retVars == <<config, record, task, job, delivery, cleanup, periodic, link, outbox, ring,
             broker, budget>>

State == "state"        \* the source's topic
Retired == "retired"    \* a discovery topic of the source, no longer used
StepTopics == <<State, Retired>>
Published(p) == Rows[p] \ Withheld[p]
Configs == UNION {Rows[p] : p \in Profiles}

Faulty == budget.faults < MaxFaults
Fault == budget' = [budget EXCEPT !.faults = @ + 1]

-----------------------------------------------------------------------------
NoJob == [target |-> "none", now |-> "previous", todo |-> {}]
Fresh == [pc |-> "top", prof |-> "auto", held |-> FALSE, loaded |-> FALSE,
          record |-> "none", discovered |-> "none", announced |-> "none",
          retired |-> "none", known |-> FALSE, cleaned |-> FALSE, announce |-> FALSE]
NoDelivery == [owner |-> "none", id |-> 0, confirmed |-> FALSE]
NoCleanup == [client |-> FALSE, requested |-> FALSE, pending |-> FALSE, active |-> FALSE,
              step |-> 1, id |-> 0, ended |-> FALSE]
NoEvidence == [seen |-> <<>>, lost |-> FALSE]

(* What the record names may be at the broker; without one, nothing of ours *)
(* is: an older unknown profile is the owner's to migrate.                  *)
RetInit ==
  /\ record \in Profiles \cup {"none"}
  /\ \E p \in Profiles, on \in BOOLEAN : config = [profile |-> p, modbus |-> on, owes |-> FALSE]
  /\ broker = {State, Retired} \cup (IF record = "none" THEN {} ELSE Rows[record])
  /\ task = Fresh /\ job = NoJob /\ delivery = NoDelivery /\ cleanup = NoCleanup
  /\ periodic = "no" /\ link = "down" /\ outbox = {} /\ ring = NoEvidence
  /\ budget = [changes |-> 0, faults |-> 0]

-----------------------------------------------------------------------------
(* Evidence and the one slot *)

(* service_source_cleanup_evidence: everything in the ring, in order; an    *)
(* id that is not in flight is somebody else's message.                     *)
Reported(id, ok) == id # 0 /\ \E i \in DOMAIN ring.seen : ring.seen[i] = [id |-> id, ok |-> ok]
DrainedDelivery ==
  IF Reported(delivery.id, TRUE) THEN [delivery EXCEPT !.id = 0, !.confirmed = TRUE]
  ELSE IF Reported(delivery.id, FALSE) THEN [delivery EXCEPT !.id = 0] ELSE delivery
Advances == Reported(cleanup.id, TRUE)
Completes == Advances /\ cleanup.step = Len(StepTopics)
DrainedCleanup ==
  IF Completes
  THEN [cleanup EXCEPT !.id = 0, !.step = 1, !.active = FALSE, !.ended = TRUE]
  ELSE IF Advances THEN [cleanup EXCEPT !.id = 0, !.step = @ + 1]
  ELSE IF Reported(cleanup.id, FALSE) THEN [cleanup EXCEPT !.id = 0] ELSE cleanup
Served(t) == IF Completes THEN [t EXCEPT !.cleaned = TRUE, !.known = FALSE] ELSE t
Drained == ring' = [ring EXCEPT !.seen = <<>>]

Suppressed(c) == c.pending \/ c.active \/ c.ended
Free(id) == \A item \in outbox : item.id # id
NextId == IF Free(1) THEN 1 ELSE 2
Enqueued(topic) == outbox \cup {[topic |-> topic, id |-> NextId, done |-> FALSE]}

(* retire_exact_topic, for a cursor whose next topic is given: confirmed    *)
(* the cursor moves on, and otherwise the tombstone is queued if the slot   *)
(* is free.  A source that waits has the next free slot.                    *)
ConfirmedQueued(owner) ==                                \* mutant
  DrainedDelivery.owner = owner /\ (DrainedDelivery.confirmed \/ DrainedDelivery.id # 0)
Confirmed(owner) == DrainedDelivery.confirmed /\ DrainedDelivery.owner = owner
Admits(owner) ==
  /\ link = "up" /\ DrainedCleanup.id = 0
  /\ Suppressed(DrainedCleanup) => DrainedDelivery.owner # "none"
  /\ DrainedDelivery.id = 0 /\ ~DrainedDelivery.confirmed
  /\ DrainedDelivery.owner \in {"none", owner}
Retires(owner, topic) ==
  IF Admits(owner)
  THEN /\ outbox' = Enqueued(topic)
       /\ delivery' = [owner |-> owner, id |-> NextId, confirmed |-> FALSE]
  ELSE outbox' = outbox /\ delivery' = DrainedDelivery

-----------------------------------------------------------------------------
(* The profile cutover *)

Head1(topics) == CHOOSE t \in topics : TRUE
Previous(target) ==
  IF task.discovered \in {"none", target} THEN {} ELSE Rows[task.discovered] \ Rows[target]

(* retract_profile_cutover as far as one call gets: `then' is the place     *)
(* after it, by whether the cutover to id is complete.                      *)
Begun(id) ==
  IF job.target # "none" THEN job
  ELSE [target |-> id, now |-> "previous", todo |-> Previous(id)]
Moved(j) ==
  LET k == IF Confirmed("profile") THEN [j EXCEPT !.todo = @ \ {Head1(@)}] ELSE j
  IN  IF k.todo = {} /\ k.now = "previous"
      THEN [k EXCEPT !.now = "target", !.todo = Withheld[k.target]] ELSE k
Cuts(id, done, undone) ==
  LET j == Moved(Begun(id))
      t == [Served(task) EXCEPT !.announced = "none"]
  IN  /\ Drained /\ cleanup' = DrainedCleanup
      /\ IF j.todo = {}
         THEN /\ job' = NoJob
              /\ task' = [t EXCEPT !.retired = j.target,
                                   !.pc = IF j.target = id THEN done ELSE undone]
              /\ outbox' = outbox
              /\ delivery' = IF Confirmed("profile") THEN NoDelivery ELSE DrainedDelivery
         ELSE /\ job' = j /\ task' = [t EXCEPT !.pc = undone]
              /\ IF Confirmed("profile")
                 THEN /\ outbox' = IF link = "up" /\ DrainedCleanup.id = 0
                                      /\ ~Suppressed(DrainedCleanup)
                                   THEN Enqueued(Head1(j.todo)) ELSE outbox
                      /\ delivery' = IF outbox' = outbox THEN NoDelivery
                                     ELSE [NoDelivery EXCEPT !.owner = "profile", !.id = NextId]
                 ELSE Retires("profile", Head1(j.todo))

-----------------------------------------------------------------------------
(* mqtt_task, one cycle *)

At(pc) == task.pc = pc
OnTo(pc) == [task EXCEPT !.pc = pc]
Stays == UNCHANGED <<config, link, budget>>

(* A stop joins esp-mqtt's task and empties its outbox without a report.    *)
Forgotten ==
  /\ link' = "stopped" /\ outbox' = {} /\ ring' = NoEvidence
  /\ delivery' = [delivery EXCEPT !.id = 0] /\ cleanup' = [cleanup EXCEPT !.id = 0]
(* An update or a forecast asks for the stop, or lost evidence does.        *)
Stops ==
  /\ At("top") /\ link # "stopped"
  /\ IF ring.lost THEN budget' = budget ELSE Faulty /\ Fault
  /\ Forgotten
  /\ UNCHANGED <<config, record, task, job, periodic, broker>>

Begins ==
  /\ At("top") /\ ~ring.lost
  /\ link' = IF link = "stopped" THEN "down" ELSE link
  /\ task' = [Served(task) EXCEPT !.pc = "cleanup", !.prof = config.profile]
  /\ Drained /\ delivery' = DrainedDelivery /\ cleanup' = DrainedCleanup
  /\ UNCHANGED <<config, record, job, periodic, outbox, broker, budget>>

(* The first client of a boot cleans every source once more.               *)
Requested ==
  LET c == [DrainedCleanup EXCEPT !.ended = Completes, !.requested = FALSE,
                                  !.pending = @ \/ DrainedCleanup.requested]
  IN  IF link = "up" /\ ~cleanup.client THEN [c EXCEPT !.client = TRUE, !.pending = TRUE] ELSE c
Loads(ok) ==
  IF ~task.loaded /\ ok
  THEN [Served(task) EXCEPT !.loaded = TRUE, !.record = record, !.discovered = record]
  ELSE Served(task)
Cleans ==
  /\ At("cleanup")
  /\ Drained /\ delivery' = DrainedDelivery /\ cleanup' = Requested
  /\ \/ task' = [Loads(TRUE) EXCEPT !.pc = "pending"] /\ budget' = budget
     \/ Faulty /\ ~task.loaded /\ Fault /\ task' = [Loads(FALSE) EXCEPT !.pc = "pending"]
  /\ UNCHANGED <<config, record, job, periodic, link, outbox, broker>>

(* A cutover that has begun goes on to its own target.                      *)
Continues ==
  /\ At("pending")
  /\ IF job.target = "none"
     THEN task' = OnTo("periodic") /\ UNCHANGED <<job, delivery, cleanup, outbox, ring>>
     ELSE Cuts(job.target, "periodic", "periodic")
  /\ UNCHANGED <<record, periodic, broker>> /\ Stays

Asked(p) == IF p = "no" THEN "once" ELSE "again"
Repeats ==
  /\ At("periodic")
  /\ IF periodic = "no"
     THEN task' = OnTo("source") /\ UNCHANGED <<periodic, delivery, cleanup, outbox, ring>>
     ELSE /\ Drained /\ cleanup' = DrainedCleanup
          /\ task' = [Served(task) EXCEPT !.pc = "source"]
          /\ IF Confirmed("periodic")
             THEN /\ periodic' = IF periodic = "again" THEN "once" ELSE "no"
                  /\ delivery' = NoDelivery /\ outbox' = outbox
             ELSE periodic' = periodic /\ Retires("periodic", Retired)
  /\ UNCHANGED <<record, job, broker>> /\ Stays

(* next_action and publish_queued.                                          *)
Selected ==
  IF cleanup.active \/ ~cleanup.pending THEN cleanup
  ELSE [cleanup EXCEPT !.pending = FALSE, !.active = TRUE, !.step = 1]
Withdraws ==
  /\ At("source")
  /\ LET may == link = "up" /\ cleanup.client /\ cleanup.id = 0 /\ delivery.owner = "none"
         c == IF may THEN Selected ELSE cleanup
     IN  /\ IF may /\ c.active
            THEN outbox' = Enqueued(StepTopics[c.step]) /\ cleanup' = [c EXCEPT !.id = NextId]
            ELSE outbox' = outbox /\ cleanup' = c
         /\ task' = [task EXCEPT !.held = Suppressed(c),
                                 !.pc = IF link = "up" THEN "announce" ELSE "top"]
  /\ UNCHANGED <<record, job, delivery, periodic, ring, broker>> /\ Stays

(* Consumes the reconnect; the timer repeats the retired pass on its own.   *)
RenewedX10a(t) == [t EXCEPT !.announce = FALSE, !.known = FALSE]   \* mutant
Renewed(t) == [t EXCEPT !.announce = FALSE, !.announced = "none", !.known = FALSE]
Announces ==
  /\ At("announce")
  /\ \/ /\ task.announce /\ periodic' = Asked(periodic)
        /\ task' = [Renewed(task) EXCEPT !.pc = "x10a"]
     \/ ~task.announce /\ task' = OnTo("x10a") /\ periodic' = periodic
     \/ ~task.announce /\ task' = OnTo("x10a") /\ periodic = "no" /\ ~task.held
        /\ periodic' = "once"
  /\ UNCHANGED <<record, job, delivery, cleanup, outbox, ring, broker>> /\ Stays

(* publish_x10a_discovery reads the profile anew.                           *)
Discovers ==
  /\ At("x10a")
  /\ IF task.prof \in {"auto", task.announced} \/ config.profile = "auto" \/ ~task.loaded
     THEN task' = OnTo("state") /\ UNCHANGED <<job, delivery, cleanup, outbox, ring>>
     ELSE IF job.target = "none" /\ task.retired = config.profile
     THEN /\ task' = OnTo("save")
          /\ UNCHANGED <<job, delivery, cleanup, outbox, ring>>
     ELSE Cuts(config.profile, "save", "state")
  /\ UNCHANGED <<record, periodic, broker>> /\ Stays

(* save_retirement_provenance, before the first replacement is announced.   *)
SavesRecord ==
  /\ At("save")
  /\ LET id == task.retired IN
     \/ /\ record' = IF task.record = id THEN record ELSE id
        /\ task' = [task EXCEPT !.record = id, !.discovered = id, !.pc = "emit"]
        /\ budget' = budget
     \/ /\ task.record # id /\ Faulty /\ Fault
        /\ record' \in {record} \cup (IF TornSaves THEN {id} ELSE {})
        /\ task' = OnTo("state")
  /\ UNCHANGED <<config, job, delivery, cleanup, periodic, link, outbox, ring, broker>>

(* Synchronous writes: a prefix of them may arrive before the connection is *)
(* gone.  Accepted, they are remembered under the cycle's own profile.      *)
Emits ==
  /\ At("emit")
  /\ \/ /\ link = "up"
        /\ broker' = broker \cup Published(task.discovered)
        /\ task' = [task EXCEPT !.announced = task.prof, !.pc = "state"]
        /\ UNCHANGED <<link, budget>>
     \/ /\ link # "up" /\ UNCHANGED <<broker, link, budget>>
        /\ task' = [task EXCEPT !.pc = "state"]
     \/ /\ link = "up" /\ Faulty /\ Fault /\ link' = "down"
        /\ \E part \in SUBSET Published(task.discovered), named \in {task.announced, task.prof} :
             /\ broker' = broker \cup part
             /\ task' = [task EXCEPT !.announced = named, !.pc = "state"]
  /\ UNCHANGED <<config, record, job, delivery, cleanup, periodic, outbox, ring>>

(* The HomeHub part of the cycle: the target's intent, then the write.      *)
Intends ==
  /\ At("state")
  /\ IF task.held
     THEN task' = OnTo("top") /\ cleanup' = cleanup
     ELSE IF config.modbus
     THEN task' = [task EXCEPT !.cleaned = FALSE, !.pc = IF task.known THEN "top" ELSE "write"]
          /\ cleanup' = cleanup
     ELSE task' = OnTo("top") /\ cleanup' = [cleanup EXCEPT !.requested = @ \/ ~task.cleaned]
  /\ UNCHANGED <<record, job, delivery, periodic, outbox, ring, broker>> /\ Stays
Writes ==
  /\ At("write")
  /\ IF link = "up"
     THEN broker' = broker \cup {State} /\ task' = [task EXCEPT !.known = TRUE, !.pc = "top"]
     ELSE broker' = broker /\ task' = OnTo("top")
  /\ UNCHANGED <<record, job, delivery, cleanup, periodic, outbox, ring>> /\ Stays

Cycle ==
  \/ Begins \/ Cleans \/ Continues \/ Repeats \/ Withdraws \/ Announces \/ Discovers
  \/ SavesRecord \/ Emits \/ Intends \/ Writes

-----------------------------------------------------------------------------
(* esp-mqtt's task and the broker *)

TaskOnly == UNCHANGED <<config, record, job, delivery, cleanup, periodic>>
Reports(id, ok) ==
  IF Len(ring.seen) < RingCap
  THEN ring' = [ring EXCEPT !.seen = Append(@, [id |-> id, ok |-> ok])]
  ELSE ring' = [ring EXCEPT !.lost = TRUE]

Connects ==
  /\ link = "down" /\ link' = "up" /\ task' = [task EXCEPT !.announce = TRUE]
  /\ UNCHANGED <<outbox, ring, broker, budget>> /\ TaskOnly
(* The same client keeps its outbox, and sends again.                       *)
Drops ==
  /\ link = "up" /\ Faulty /\ Fault /\ link' = "down"
  /\ outbox' = {[item EXCEPT !.done = FALSE] : item \in outbox}
  /\ UNCHANGED <<task, ring, broker>> /\ TaskOnly
Deletes ==
  /\ link = "up"
  /\ \E item \in outbox :
       /\ ~item.done
       /\ broker' = broker \ {item.topic}
       /\ outbox' = (outbox \ {item}) \cup {[item EXCEPT !.done = TRUE]}
  /\ UNCHANGED <<task, link, ring, budget>> /\ TaskOnly
Acknowledges ==
  /\ link = "up"
  /\ \E item \in outbox :
       item.done /\ outbox' = outbox \ {item} /\ Reports(item.id, TRUE)
  /\ UNCHANGED <<task, link, broker, budget>> /\ TaskOnly
Expires ==
  /\ Faulty /\ Fault
  /\ \E item \in outbox : outbox' = outbox \ {item} /\ Reports(item.id, FALSE)
  /\ UNCHANGED <<task, link, broker>> /\ TaskOnly
(* The acknowledgement of an availability message.                          *)
ReportsOther ==
  /\ link = "up" /\ Faulty /\ Fault /\ Reports(0, TRUE)
  /\ UNCHANGED <<task, link, outbox, broker>> /\ TaskOnly

-----------------------------------------------------------------------------
(* The HTTP task, and a reboot *)

Changes == budget.changes < MaxChanges /\ budget' = [budget EXCEPT !.changes = @ + 1]
SetOnly == UNCHANGED <<record, task, job, delivery, periodic, link, outbox, ring, broker>>
SetsProfile ==
  /\ Changes /\ \E p \in (Profiles \cup {"auto"}) \ {config.profile} :
                  config' = [config EXCEPT !.profile = p]
  /\ cleanup' = cleanup /\ SetOnly
(* set_hp: the target first, then the request.                              *)
SetsSource ==
  /\ Changes /\ ~config.owes
  /\ config' = [config EXCEPT !.modbus = ~@, !.owes = config.modbus]
  /\ cleanup' = cleanup /\ SetOnly
RequestsCleanup ==
  /\ config.owes /\ config' = [config EXCEPT !.owes = FALSE]
  /\ cleanup' = [cleanup EXCEPT !.requested = TRUE]
  /\ budget' = budget /\ SetOnly

Reboots ==
  /\ Faulty /\ Fault
  /\ config' = [config EXCEPT !.owes = FALSE]
  /\ task' = Fresh /\ job' = NoJob /\ delivery' = NoDelivery /\ cleanup' = NoCleanup
  /\ periodic' = "no" /\ link' = "down" /\ outbox' = {} /\ ring' = NoEvidence
  /\ UNCHANGED <<record, broker>>

RetNext ==
  \/ Cycle \/ Stops
  \/ Connects \/ Drops \/ Deletes \/ Acknowledges \/ Expires \/ ReportsOther
  \/ SetsProfile \/ SetsSource \/ RequestsCleanup \/ Reboots

(* The publisher's loop runs, its transport connects, the broker answers.   *)
RetFairness ==
  /\ WF_retVars(Cycle) /\ WF_retVars(Stops /\ ring.lost) /\ WF_retVars(RequestsCleanup)
  /\ WF_retVars(Connects) /\ WF_retVars(Deletes) /\ WF_retVars(Acknowledges)
RetSpec == RetInit /\ [][RetNext]_retVars /\ RetFairness

-----------------------------------------------------------------------------
(* Properties *)

(* One tombstone at esp-mqtt at most, whoever asked for it, and what is in  *)
(* flight is always still to be heard of: queued, reported or lost with a   *)
(* report that forces the transport to stop.                                *)
Heard(id) ==
  \/ \E item \in outbox : item.id = id
  \/ \E i \in DOMAIN ring.seen : ring.seen[i].id = id
  \/ ring.lost
RetTypeOK ==
  /\ Cardinality(outbox) <= 1 /\ Len(ring.seen) <= RingCap
  /\ delivery.id # 0 => Heard(delivery.id)
  /\ cleanup.id # 0 => Heard(cleanup.id)
  /\ ~(delivery.id # 0 /\ cleanup.id # 0)
  /\ delivery.owner = "profile" => job.todo # {}
  /\ record \in Profiles \cup {"none"}
  /\ broker \subseteq Configs \cup {State, Retired}

(* Nothing retained is forgotten: a config at the broker is one of the      *)
(* profile the record names, so that the boot after a reset at any point    *)
(* still deletes it; and the state of a source that is off is owed its      *)
(* deletion.                                                                *)
NoOrphan ==
  /\ broker \cap Configs \subseteq (IF record = "none" THEN {} ELSE Rows[record])
  /\ State \in broker /\ ~config.modbus =>
       \/ ~task.cleaned \/ cleanup.requested \/ cleanup.pending \/ cleanup.active
       \/ config.owes

(* A profile remembered as announced is at the broker in full.              *)
Reannounced ==
  link = "up" /\ ~task.announce /\ At("top") /\ task.announced = config.profile
    => Published(config.profile) \subseteq broker

(* After the last change and the last fault the broker ends up with exactly *)
(* what the profile announces and the source's state if it is on.           *)
Right ==
  /\ config.profile # "auto" => broker \cap Configs = Published(config.profile)
  /\ State \in broker <=> config.modbus
  /\ Retired \notin broker
Converges == <>[]Right
=============================================================================
