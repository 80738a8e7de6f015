# Verification of daikin-altherma-esp32

TLA+ models of the ESP32 firmware in `src/main`, the TLC runs that check them on
small instances, and TLAPS proofs that hold for every value of the constants.

Read `PROJECT.json` beside this file: `components` says what is modelled, `hazards`
what is hard to test and which property watches it, `map` which lines each definition
stands for, `runs`, `mutants` and `theorems` what is checked and proved.

## The system

A dual-core ESP32 reads a Daikin Altherma heat pump over the X10A service UART
(and, optionally, a HomeHub over Modbus TCP), records trends, publishes to MQTT
and serves a web UI. Everything runs as FreeRTOS tasks in one address space
(`docs/ARCHITECTURE.md`, "Concurrency"); state is shared under mutexes and
atomics, and survives a reset in NVS, in raw flash (the history journal) and in
`.noinit` RAM.

| part | state it keeps | operations | what is hard about it | module |
|---|---|---|---|---|
| boot recovery (`safe_mode.cpp`, `heap_guard.cpp`) | two counters in NVS, a `.noinit` marker, the safe-mode latch | classify the reset, count, latch, healthy timer, watchdog sample and restart | resets between any two steps, lost writes, two counters fed by one classification | `Recovery` |
| configuration (`config.cpp`, `http_config.cpp`, `logic/config_transaction.hpp`) | `g_cfg`, its revision, the yield record; entries `cfg` and `link` | load, service save, X10A save, detection commits, re-detect | two writers with stale snapshots, two entries, failing writes | `Config` |
| poll task and detection (`hp_poll.cpp`, `hp_detect.cpp`) | target generation, value cache, detection counts, what one cycle leaves the next | sweep, decide, commit, reconfigure, reset the observers | a sweep lasts seconds and may be overtaken at each of its steps | `Polling` |
| register probe (`hp_poll.cpp`, `logic/hp_probe.hpp`) | one slot, one reply, a ticket, a semaphore | arm, serve, answer, give up | callers time out while the poll task is inside their query; no lock covers the slot | `Probe` |
| state ages (`state_dwell.cpp`) | a `.noinit` table | fold, reset, adopt | gaps, late sweeps, restarts that kept power, changes of unit | `Dwell` |
| checkup (`checkup.cpp`, `logic/checkup.hpp`, `logic/checkup_persist.hpp`) | hours, the open run, the journal's cursor, the loss filter and its handoff | record, report, reset, append, seal, restore | a run booked hours after it began, over gaps, restarts and identity changes | `Checkup`, `Revisions`, `TankLoss` |
| stop observations (`stop_observation_store.cpp`) | open hour, queue, stored sum, fence, index of the journal | record, claim, append, rebuild, reset, report | a receipt and a reset cross; a fence and an older claim cross | `StopStore` |
| trend rings and flash journal (`history.cpp`, `logic/history_persist.hpp`) | rings, raster, residual, sector ring, cursor | fold, adopt, append, rotate, scan, restore | torn slots, abandoned sectors, rounding that adds up over restarts | `Rings`, `Journal` |
| OTA (`ota_update.cpp`, `http_ota.cpp`) | check generation, lease, slots, pending image | check, install, upload, health gate, rollback | the feed changes, a reset before the image is confirmed | `Ota` |
| network heap (`logic/ota_quiesce.hpp`, `weather_forecast.cpp`, `mqtt_ha.cpp`) | flags, an admission, acknowledgements, refresh tokens | claim, look again, stand aside, release, save a source | flags and second looks in place of a lock; a result older than its source | `Network` |
| HTTP deadlines (`http_deadline.cpp`) | one timer, one published descriptor | arm, disarm, cut | the transfer ends while the supervisor cuts it; descriptors are reused | `HttpDeadline`, `Transfers` |
| links (`net.cpp`, `wifi.cpp`) | stored and backup credentials, lease, watchdog counts | boot window, trial, rollback, reconnect, fallback | timeouts racing a late lease; a link that is up and carries nothing | `Links` |
| MQTT discovery (`mqtt_ha.cpp`) | retirement record, cutover, delivery slot, cleanup, evidence ring | announce, retire, confirm, clean up | acknowledgements of another connection, loss between save and tombstone | `Retained` |
| factory reset (`recovery_button.cpp`, `nvs_storage.cpp`) | the NVS latch | erase each store, seed, restart | one store failing, other tasks saving and restarting | `FactoryReset` |
| HomeHub (`hp_modbus.cpp`) | task slot, socket, map, status, cache, rings, tokens | start, retire, poll, probe, publish, snapshot | five things published under five locks while the form names another gateway | `HomeHub` |
| rendering, decoding, tables, LED, ENV III, captive portal | none that another task acts on | | pure functions or output | not modelled |

How they interact. The httpd task saves settings and then calls, one after the other,
the poll engine, the rings, the ages and the checkup; the poll task reads without a
lock and hands each observer what it read, with the generation it began under; the
publisher and the servers read. The NVS latch of `nvs_storage.cpp` is asked by whoever
writes or restarts. A TLS session needs one large block of heap, so OTA, forecast and
`/values` ask everybody else to stand aside.

How the modules relate: each holds one component and shows its neighbours by the few
facts they can observe. The latch is a variable of `FactoryReset` (its owner), `Recovery`
and `Ota` (which only ask it); the fallback of `net.cpp` is a restart site of `FactoryReset`,
a pair of actions in `Ota` and a period in `Links`. `Config` has the two writers of the
settings with flash, `Polling` the same handlers as the poll cycle sees them.
`Transfers` is the abstract side of `HttpDeadline`; `Ota` sees a transfer only as one that
ends, which `TransferEnds` justifies. `Journal` has sectors and slots for the trend
sources, `Revisions` what the checkup writes through them, `StopStore` the records of
stops, each with the journal as a sequence of records.

## The plan

| step | state |
|---|---|
| `Recovery`, `Config`, `FactoryReset`, `Ota`, `HttpDeadline`/`Transfers` | modelled, checked, proved |
| `Network`, `Probe`, `HomeHub`, `Retained` | modelled, checked, proved |
| `Polling`, `Links`, `Dwell`, `TankLoss` | modelled, checked, proved |
| `StopStore` | modelled, checked, proved |
| `Journal` | modelled, checked, its order and its erases proved |
| `Rings` | modelled, checked, proved |
| `Checkup` | modelled, checked, proved |
| `Revisions` | modelled, checked |
| further proofs | `Revisions` and the restore of `Journal`; see "What stays with TLC" |
| not begun | the lease of the release notes, the stores of ENV III, the journal's room records, Modbus discovery |

## Modules

Each module is one component. Ghosts, which no action of the program reads, are named
as such where they are declared. Text, layouts, wording and numeric data are left out
everywhere.

### Recovery

One device over many boots. `phase` follows the boot: `reset` → `SafeModeBegin` →
`counted` → `HeapGuardBegin` → `laddered` → `StartTasks` → `running`. `bootFails` and
`heapRst` are the NVS counters, `marker` the `.noinit` word of `heap_restart_marker_arm`,
`safeMode` and `kind` what the boot decided. `Sample` is one second of
`heap_guard_sample`: the largest free block, an OTA in flight, and the time since the
last sample on a clock that wraps at `Wrap` (2^32 in the code). A restart goes through
`PersistRestart`, the drain, `ArmMarker` (the second look at the latch) and
`WatchdogRestart`; a reset of any kind may come between them. NVS may be down for a
boot, each write may fail, and the factory erase removes the counters one after the
other. Ghosts: `streak` (crashes in a row), `wdRuns` (watchdog restarts in this
shortage), `due` (safe mode was earned), `held` (how long the shortage lasted), and
whether a count write was lost.

### Config

RAM (`live`, `rev`, `yield`), the two NVS entries, and the two writers. The httpd task
derives a request from a snapshot (`want`, `wantRev`) and saves it later:
`ServiceWrite` and `ServicePublish` are `save_whole` for a service save, split where a
reset can separate the `cfg` entry from the `link` entry and from the publication;
`HpRequest`, `HpDerive`, `LinkSave` are `set_hp` with its retries, followed by
`Reconfigure`, `ResetObservers` and `Rescope`. The poll task goes `PollBegin`, `Sweep`,
`CommitLink`, `ObserveDetected`, `CommitModel`. `g_mtx` is held while http is `wrote`; the
poll task's mutex is held in `observe` and `model`.

Abstractions: one value for all service fields, one pad each for indicator, button and
ENV III, a link is its set of two pads. Blob layouts and limits are left out.

### Polling

The poll cycle as a list of calls (`task.todo`), each its own step, and the handler's
(`form.todo`) beside it: capture the generation, the configuration, read, `RecordRings`,
`Identify`, `RecordAges`, `Commit`; in a detection cycle `Detect`, `Decide`, `SettleLink`,
`ObserveSettled`, `SettleModel`. A page answers, refuses, stays quiet or is noise;
signatures are matched as `hp_detect.cpp` does, with the confirmations and the count of
incomplete sweeps. The cache has its identity and a revision that wraps. `seen` is a
ghost: what the last sweeps of this configuration said.

Timing assumption `Beside`: a detection does not commit its model while a handler is
between two of its calls other than the save. Without it the late `history_reset` leaves
the recorders without an identity, which is the finding of run `config_scope`; and a save
of another form between the commits of link and model uses up the boot's graces.

Left out: frames, the backoff of the detection, raw captures, the service record.

### Dwell

One slot of `state_dwell.cpp`'s table: `Fold` is one poll cycle's step for the row (with a
read of 0 when it did not answer), `Form`, `FormCalls`, `Detects` the changes of unit, and
`BoardRestarts` a reset that kept power. `log` is a ghost with the folds of the unit in
use and their instants, from which `Allowed` says what may be shown. `RestartMidForm = FALSE`: with a restart
between a form and the next fold `dwell_restart` (`state_dwell.cpp:167-175`) adopts the
slot of the unit before, against `state_dwell.hpp:22-25`.

### Probe

`Take` to `Gives` are the callers of `hp_probe_request`, `Serve` to `Clears` the poll task's
half; the query writes the reply in two steps (`torn` between them), so that a caller who
reads without the stamp would see it. Tickets wrap; `ProbeAssumption` says that a query
ends before its callers' timeouts have used up all tickets (2^24 - 1 in the code).

### Checkup, Revisions, TankLoss

`Checkup`: one sample per poll cycle folded into the open hour (`Record`), the hours that
are pushed (`CommitHours`), the open run with its classes, gaps and the tail after hot
water (`Follow`), a report that first drops what is expired (`Reports`), resets by source
or consent. The ghosts `ledger`, `story` and `tape` keep what was shown, in which hour.
A run cut off keeps only its hour; the other rows, minima, flags and saturation are left
out (the rows are counted by the same rule).

`Revisions`: the journal of those hours on a wall clock of half hours: `AppendsLive` with
the latched label and the late revision (`late`, `offset`, `ackedLabel`), `Seals` and
`AppendsSealed` at a software restart, `Restored` at boot, and the three changes of
identity. The clock does not step once set; a shutdown takes no time; `ready` is clock and
source together. `OneAtATime`: no identity changes while the change of the other waits.

`TankLoss`: the filter that times a quiet hour (`Step1`), its checkpoint in `.noinit` RAM and
its adoption after a restart (`Adopted1`). `told` is a ghost with what the samples showed.
Left out: pump row, rate, draw and circulation marks, samples before the source is
confirmed; a restart takes exactly `Down`.

### StopStore

A stop goes from `RecordSweep` through the pending confirmation into the open hour, the
queue, a claimed record, the journal and the restored sum. `ServiceBegin`, `ServicePublish`
and `FlashNext` / `AppendCommitted` / `AppendFailed` are the flash owner's transaction,
`ResetStore`, `Bind` and the fence withdraw evidence, `Reboot` drops RAM and keeps the
journal. The queue is a function from places to entries, `NoEntry` where one is free, as the
code's array. Every stop has a number, so sums are functions from stops to counts. Left out:
observed seconds, rotation, the capacity of the index, damaged records.

### Rings

One ring on the raster of this boot's clock: `Records` closes buckets, `Reboots` may keep or
lose the ring and books the unwatched time as whole gaps with a carried remainder
(`Booking`), `Files` puts a bucket into the journal under its wall clock bucket, `Restores`
merges the journal with what the ring has gathered. A sample is the instant its bucket
closed, and time starts a ring's length after 0, so that every wall bucket the ring shows is one.
Left out: the rasters of HomeHub and ENV III, safe mode, sectors and slots.
`FiledOnce` exempts rings that `seams.astray` marks: a restore behind an adopted ring that
the seam has shifted (see "Disagreements").

### Journal

`chip` is the partition, `Sectors` of `PerSector` slots, each erased, torn, or a record
with its sequence number, source, bucket and scope. `Choose` is the service picking the
next source in turn that has a bucket to file, and building the record or the manifest
due before it; `PrepareDone` is `flash_prepare_next_slot`, `Program` the body, the commit
word and the readback, `PrepareFails` and `ProgramFails` their failures with what they
leave behind, both followed by `flash_note_append_failure`. `Restart` may strike between
any two of them and runs `flash_journal_scan` on what is there. `RestoreNext` restores one
source, `ResetRing`, `ResetSame` and `Consume` are the identity resets and the cycle that
consumes them, `MinutePasses` lets a paused journal try again. `acked` is for the
properties: where the newest acknowledged record lies.

`JournalAssumption` asks for more than `MaxAbandoned + 1` sectors (2 and 1024 in the code): with
fewer, an episode could come round to the newest record itself.

Left out: the checkup, stop-context, room and ENV III records; old catalogs; the samples
themselves (a ring is its number of buckets); the cursor lifted over an adopted ring; the
wait for the clock; the factory erase. A source is restored in one step, where the code
takes four rings at a time.

### Ota

Requests come from the one httpd task (`Check`, `Update`, `Upload`, all through
`start_locked`), the worker is `ota_task` (`pc` follows `run_check`, `run_update`,
`run_upload` and `activate_update`), `Gate` is `health_gate_task`, `FallbackDecides` to
`FallbackRestart` the task of `net.cpp` that restarts into the wired fallback. An artifact
stands for version, hash and bytes together; the feed may serve another one at every
fetch. `BootLoader` is ESP-IDF's: an image on probation that was not committed is rolled
back, one that does not verify is passed over. `Reset` may strike at any point, and
`Latch` is the factory reset seen from here. `Fail` stands for every error return of the
worker, the exhausted waits and resumes of the transfer included.

### HomeHub

The gateway's task (`turn`: target, socket, sweep, probe, judge, rings, cache, status),
the settings form with its calls (`Saves` to `FormStarts`), the task slot with its
retirement and `LooksBack`, and a `/values` snapshot that copies the cache and then looks at
the link. Everything carries the gateway it was read from. `shown.s.of` is a ghost.
`Throws` is a failed allocation; `Judges` the last look at the generation before the
rings. Timing assumption `Prompt`: no request is answered while the form is between its
calls (see "Disagreements"). Left out: discovery, batching, pacing, ages, backoff, the
OTA hold-off (which `Network` has), failing task creation.

### HttpDeadline and Transfers

The tasks that download (`Owners`) share one timer, one watchdog task and one published
descriptor. `pc` follows an owner through `arm`, the transfer, `disarm` and the close; the
alarm is `armed`, then in `dispatch`, then `notified`, then in the watchdog's hands (`wd`),
then acknowledged (`done`, a binary semaphore), and `disarm` may find it at each of these
places. `Open` gives any free descriptor, so one that was just closed may be the other
task's at once. The alarm may go off before `arm` has recorded its owner. A refused
`shutdown` aborts; the board restarts.

`Transfers` states what the owners rely on: one guarded connection at a time, cut only
while it is guarded, and one that was cut ends as expired. `Conn` and `Expired` are the
refinement mapping: a connection is `guarded` from the moment the timer runs.

Assumption outside the repository: only `esp_http_client_close` gives the descriptor
back, as the comment at `ota_update.cpp:490` has it; a redirection that closed the
connection by itself (`ota_update.cpp:488`, before `disarm`) would break it.

### Links

A boot asks the wire, then the station, then opens the portal (`boot.pc`); `Judges` is a
checkpoint of the boot window, `RollsBack` the trial's end, `ProbeEnds` the gateway watchdog
(`logic/link_watch.hpp`), `FallbackPeriod` the wired fallback. `SetsWifi` and `SavesAll` are
the forms, with the three ways a save may end. `seen` is history: what the access point
said and for how long.

### Network

Two owners (`ota`, `weather`) and a `/values` stream claim the heap; `peer` is one task that
stands aside: the X10A poll, MQTT with its transport, the HomeHub poll or syslog. They
share nothing with each other, so one at a time is enough. `admission` also lets a handler
replace the forecast's source (`BeginsChange` to `ReleasesChange`), `refresh` holds the
tokens. Timing assumption `LeadOver`: the lead of 1.1 s before an owner looks is longer than
the poll task needs from its look at the flags to its acknowledgement. The forecast's
release clears the transport pause also when an update's lease has set it; the update
then times out on the transport and fails closed.

### Retained

`mqtt_task`'s cycle step by step (`task.pc`), the transport (`link`), esp-mqtt's outbox with
one tombstone, the bounded evidence `ring`, the broker's retained topics, the record in NVS,
and three users of the delivery slot: the cutover (`job`), the retired-discovery pass
(`periodic`) and the cleanup of a source switched off (`cleanup`). `TornSaves = FALSE`: a failed
save of the record leaves the old one; with a save that fails after writing,
`mqtt_ha.cpp:1137` returns where the comment at 1134-1135 expects the record to be
re-read.

### FactoryReset

`factory_reset` erases five stores in turn (`step`): the settings in NVS behind the latch,
the WiFi driver's own namespace, the history journal, the core dump, and the MQTT
retirement record; then it writes the board-hardware seed and restarts. Each erase may
fail; the reset then stops where the code stops, and the next hold of the button starts
it again (`gone` and `released` record what an earlier attempt of the boot did).
Meanwhile `SaveSettings`, `AppendHistory` and `RetireSaveBegin` / `RetireSaveEnd` are the
other tasks' writers, each behind the flag it asks, and `WantRestart`, `LastCheck`,
`OtherRestart` the restart sites, which look at the latch before the wait (`AskedTwice`)
and after it, or only after it.

## Runs

Components that share no variable share a run: an MC module extends them, a variable
`part` says of which one a behaviour is, and the others rest in a first state. A run's state
space is the sum of its parts', and each property is about one part. `CHECK_DEADLOCK FALSE`
in these runs, because a part at its bounds has no step; `ota` keeps the deadlock check (its
HomeHub part may stutter at its bounds only, `HubAtBound`).

| run | parts | properties | what they say |
|---|---|---|---|
| `boot` | `Recovery`, `Config` | `SafeModeExact`, `WatchdogExact`, `CommitsKept`, `PinsKept`, `IdentityScope`, `FlashKept`, `TypesOK` | minimal boots exactly when due; no answered save and no proved link lost; no pad used twice; observers under the right identity; unreadable settings never overwritten |
| `poll` | `Polling`, `Dwell`, `Probe`, `Checkup`, `Revisions`, `TankLoss` | `SourceScoped`, `ModelEarned`, `AgesExact`, `AnswersOwn`, `HoursExact`, `RevisionsExact`, `LossExact` | values, rings and ages of one unit; a detected model was earned; ages equal what the folds justify; callers get their register; every run counted once, in its hour, over late revisions and restarts; a loss window was quiet |
| `ota` | `Ota`, `HomeHub` | `AlwaysBoots`, `InstallExact`, `OtaSettles`, `HubScoped`, `OneHubTask`, `TypeOK` | a reset at any point boots a verified image; what is installed was asked for and checked; operations end; nothing of one gateway under another's name; one task |
| `connections` | `HttpDeadline`, `Links` | `CutsOwnConnection`, `ImplementsTransfers`, `TransferEnds`, `GoodCredentialsKept`, `LinkRecovers`, `TypesOK` | the supervisor cuts only a guarded connection, refines `Transfers`; good credentials survive; the bridge is never stranded |
| `network` | `FactoryReset`, `Network`, `Retained` | `ResetExact`, `TlsAlone`, `ResultsBound`, `RefreshSettled`, `NoOrphan`, `Converges`, `TypesOK` | a reset is whole or not; one TLS user of the heap; results belong to the saved source and the token asked; no retained topic is forgotten, and the broker converges |
| `journal` | `Journal`, `Rings` | `JournalExact`, `EraseSparesWindow`, `Catches`, `TrendExact` | scan and restore find what was acknowledged; an erase spares the window; the journal catches up; a reading stands where it belongs, in ring and journal |
| `stop` | `StopStore` | `ReportScoped`, `EvidenceExact`, `EvidenceSettles` | nothing withdrawn is reported; a stop counts once or the report says it is incomplete; what is owed is written |
| `config_scope`, `factory_latch`, `ota_fallback`, `retained_reannounce`, `journal_restore` | one module each | one each | the disagreements below |

### Bounds, and why they are enough

- `boot`: threshold 3, cap 4, two watchdog restarts, a hold of 2 on a clock of 4: threshold and
  cap differ, the clock wraps inside one hold, both ladders can be climbed in one
  behaviour. Four pads and two links, so that a detected link can land on either local
  part and a yielded pad be claimed by another; two service values, two models
  (symmetric), two save attempts, three revisions per boot (also checked: four). Resets are
  unbounded.
- `poll`: two wires, a unit that fits two profiles and one that fits a third; one request of a
  handler (two were checked once, 31 million states). `Dwell`: pauses below, at and beyond the
  cadence and the gap, four folds or restarts. `Probe`: two callers, two registers, three
  tickets, one probe asked beside the one being served (also checked: two), without end.
  `Checkup`: an hour of two ticks, two completed hours, six ticks, one reset. `Revisions`: three slots, five half hours, two boots, one run, one
  mishap (also checked: six to nine half hours, two runs). `TankLoss`: an hour of four ticks,
  nine moments (also checked: 5 to 15).
- `ota`: the artifact of the factory, a newer one, which makes the first a downgrade once it
  runs, and an unsigned rebuild of the newer one under its version: every way a fetched
  artifact can relate to the checked and to the running one (also checked: four artifacts); two
  generations, so that the counter wraps; a base window of 1 and a cap of 2. `HomeHub`: two
  gateways of different maps, two forms, one fault, three changes of the rings' identity (also
  checked: two faults and two retries, 6.9 million states).
- `connections`: two owners and two descriptors (with more, reuse becomes rarer); a grace of four
  windows of two ticks, every watchdog limit at least 2, so that counting is visible.
- `network`: two restart sites, one of each kind; a hold cap of 2; two requests (one beside a
  standing-aside task); two profiles with a shared and a withheld topic, a ring of one, one
  change and one fault.
- `journal`: a full journal of four sectors of two slots, so that the next append rotates onto old
  records; two sources with a window of two buckets; one sector may be given up; three
  mishaps. `MaxSeq` is never reached. `Rings`: a bucket of four ticks, five slots, two restarts,
  thirteen ticks after the twenty of a first ring's length (also checked: six slots, 21 ticks,
  three restarts, 9.1 million states; its inductive invariant with downtimes of none and one tick,
  4.8 million).
- `stop`: two sources, a window of two hours, a queue of one, three hours, one stop, and at most
  four hours and events together.

Every count of faults, forms and events is a guard on the environment, never on the
program; the bounds are constants of the modules, each with its comment.

### Fairness, and why the code justifies it

- `Ota`: `WF(Worker)` — every wait of `ota_task` has a timeout or an attempt cap, and its
  transfers end; `WF(Gate)` — the gate is a periodic loop. Nothing of clients, latch, fallback.
- `HttpDeadline`: weak, on the owners outside the transfer, timer and watchdog; on `BodyEnds`
  only once the connection is cut: a read on a socket that was shut down returns.
- `Links`: the tasks run and the timers fire; strong fairness that a due restart is not held
  by an update or a reset every time it comes up.
- `Network`: weak on every task's own steps; strong on `WeatherClaims`, since an idle admission
  that comes up again and again is met by the worker's loop.
- `Retained`: weak on the cycle, the transport and the broker; faults are bounded by guards.
- `Journal`: `WF(Service)` — the poll task calls restore and service at the top of every cycle,
  whether or not the bus answers; its failing outcomes are among the steps. `WF(MinutePasses)`
  — the clock runs. No reset need ever be consumed and no bucket ever complete.
- `StopStore`: weak on the steps of the flash owner; appends that fail are mishaps and bounded.

## Disagreements between code and words

Runs with `expect: violation` show five, each against a line quoted in `PROJECT.json`:
`config_scope` (`http_config.cpp:1398`: a detection may commit between `hp_poll_reconfigure` and
`history_reset`), `factory_latch` (`nvs_storage.cpp:122`: a second hold whose settings erase fails
gives the latch back), `ota_fallback` (`net.cpp:603`: an upload accepted in the drain of the
fallback is restarted), `retained_reannounce` (`mqtt_ha.cpp:3457`: the announced profile is
remembered under the name the cycle read), `journal_restore` (`history.cpp:2123`: a sector given up
ends the backward walk early).

Met while modelling, reproduced with a constant set the other way or excluded by a named
guard or assumption, and not given a run:

- HomeHub, `Prompt = FALSE`: between `config_save` and `history_modbus_reset`, or before
  `mb_reconfigure` (`http_config.cpp:1040-1058`), a whole sweep can fold one gateway's sample
  under the other's identity, against the comment at `history.cpp:1116-1122`. A cycle whose
  target is empty keeps the old socket and resets the rings each time until the form goes on.
- Revisions, `OneAtATime = FALSE` with two mishaps: the circulation identity is dropped
  (`apply_reset_locked`, `checkup.cpp:303-308`) against `docs/PLANT.md:63-65`; and a rebuild with
  `dhw_reset_requested` empties live hot-water buckets, against `checkup.cpp:980-982`.
- TankLoss: a fresh hold is lost by a software restart (`checkup.hpp:863` against 713-717,
  `docs/DIAGNOSTIC_EVIDENCE.md:174-175`, `docs/PLANT.md:60-61`); a gap longer than the maximum right after
  a short witness, and boot time without an open candidate, do not count as charge time; the
  checkpoint does not book the time since the last sample as blind; an implausible temperature
  returns (`checkup.hpp:1022-1025`) before unread witnesses are booked blind (741-742).
- Checkup: `docs/DIAGNOSTICS.md:123-124` says the tail lasts "at most 30 seconds"; `checkup.hpp:1355-1383`
  ends it at the first sample after them.
- Rings: the anchor uses the instant of the fold, so a late fold jitters
  (`history_persist.hpp:22-24`); a restore behind an adopted ring shifted by the seam may put a
  reading twice; a bucket boundary between `history_record_board` and
  `seed_source_timeline_locked` leaves `s_bucket` stale (excluded in `Restores`).
- Dwell (`RestartMidForm`) and Retained (`TornSaves`): see the modules.

## Proofs

Every theorem holds for every value of the constants that satisfies the assumption named
in the module (`HeapAssumption`, `RetAssumption` and so on); no bound of a run enters, except
that a bound guards the environment as in the model. The properties are seldom inductive.
Each proof module states the inductive invariant at its beginning (`Recovery`, `FactoryReset`,
`Ota` and `HttpDeadline` at the end of the model, where the runs used to check it), has one
lemma per action, or per action and conjunct where the conjuncts are large, and ends with
the theorems. Each invariant was checked by TLC on an instance before it was proved.
The leaves that need more than a second or so of a prover name it with a time limit
(`SMTT(60)`, `ZenonT(60)`), so that whether they are proved does not depend on the machine.

| module | proved | inductive invariant: what the property needs besides itself |
|---|---|---|
| `BootProofs` | `SafeModeExact`, `WatchdogExact` and their nine parts | what flash holds before the boot has counted, whether the marker was armed, that both counters were classified alike: `BootOrder`, `MarkerInv`, `CountInv`, `LadderInv`, `DueInv`, `HoldInv` |
| | `CommitsKept`, `PinsKept`, `IdentityScope`, `FlashKept` | `RestInv`, what the poll task may be in the middle of while a handler holds the mutex; `BoardInv`, every record a request can carry is a legal board; `FormInv`, what a handler derived from a snapshot still is true of the live record unless the revision has moved; `TailInv`, which calls of a handler or of a commit are outstanding when RAM and flash, or RAM and observers, differ; `SweepInv`, what a sweep in flight may still commit |
| `PollProofs` | `SourceScoped`, `ModelEarned` (`Polling`) | `ScopeInv`: all that is kept of the generation in force (cache, what a cycle carries on, state ages, the sweep in hand: `Live`) is of one source (`Used`), which is that of the rings from a handler's save until it moves the generation; `FormInv`, what a handler has made of the configuration; `TaskInv` and `DetectInv`, a detection under way finds nothing kept of its generation, and as long as the revision is the one it saw, no form is between its save and its bump; `CountInv`, the counts are of the last sweeps unless a new detection is asked for |
| | `AnswersOwn` (`Probe`) | `GateInv` and `HolderInv`, who holds the slot; `ServiceInv`, that a query writes under the ticket it copied; `Recent`, that a ticket still in use was not given out again; `GotInv`, that a reply carries the register of the ticket it is stamped with |
| | `AgesExact` (`Dwell`) | `SlotOfLog`, the slot has the age, gap and unwatched part that the log gives; `LogInv`, instants do not go back; `UnitInv`, whose log and slot are, through forms, detections and the grace of an adopted boot |
| | `LossExact` (`TankLoss`) | `SampleInv`, the filter's last sample is the last one shown; `ChargeInv`, a charge that may have been long is still to be waited out, by the settling time or by the hold of a fresh filter, unless the tank has rested as long; `TaleInv`, a candidate's age is the real time since it began, and its blind time covers all that was out of sight (`Gone`); `HandoffInv`, the same of the checkpoint, as of the moment the restart began |
| `CheckupProofs` | `HoursExact`, with `CheckupTypeOK` | `RingAt`, a slot is dated by its distance from the open hour, and one without a date is empty; `AgreeAt` and `AbsentAt`, every hour of the account is in its slot, or over, or nothing happened in it; `HomeAt`, the hour an open run began in is in the ring as long as the ring reaches back to it; `OpenRunAt`, `PureRunAt`, `PerfectRunAt`, what is kept of the open run against what its samples showed |
| `OtaProofs` | `AlwaysBoots`, `InstallExact`, `TypeOK` (`Ota`) | `BootInv`, the other slot is selected exactly while an install is complete or held, and the running image is then committed; `WorkInv`, what each step of the worker has established; `OfferInv`, offer, last check and request agree; `GateInv`, the gate works on a pending image only |
| | `HubScoped`, `OneHubTask` (`HomeHub`) | `LifeInv`, slot, retirement and handshake; `ScopeInv`, under which gateway each of map, cache, status and snapshot was stamped; `SweptInv`, what the sweep in hand read; `RingsScoped` |
| `NetworkProofs` | `TlsAlone`, `ResultsBound` | `HeapInv`: `OwnersShape`, `PeerInv`, `OtaInv`, `WeatherInv` say for every place of an owner which flag is up and who has looked since, `MarkInv` that a status said to be fetching is of the attempt; `CycleInv`, the token and generation an attempt carries |
| | `ResetExact` and its three parts | `StepInv`, what the reset has behind it at each step; `GoneInv`, an erased store's writer is kept off; `RaceInv`, no site passes its last look under the latch |
| | `NoOrphan`, `RetTypeOK` (`Retained`) | `SlotInv`, one tombstone, of the one cursor that waits for it, and its evidence is queued, in the ring or lost; `ForgottenInv`, a tombstone on its way back, its evidence, and a cursor that took it each mean that the topic is not at the broker; `CutInv`, a cutover leaves nothing of the profile before it but what is on its list; `CleanInv`, no cycle writes the state of a source while its cleanup runs |
| `ConnectionProofs` | `CutsOwnConnection`, and `ImplementsTransfers`: `HttpDeadline` implements `Transfers` | `FdInv`, a descriptor has one holder; `OwnInv`, who is armed, holds the mutex, is published; `AlarmInv`, the alarm is in one place and nowhere once stopped or joined; `FiredInv`, who follows the callback finds its verdict. The initial states map to initial states; the owners' steps and the cut have a lemma each, all others stutter |
| | `GoodCredentialsKept`, `LinkTypeOK` (`Links`) | `LinkCounts`, a boot's counts are what the access point said, and a checkpoint is a whole window after the last; `TrialInv`, a trial is of a change under way and given up on evidence only, and a change has cost no restart yet |
| `StopProofs` | `ReportScoped`, and that a due fence is never forgotten (`FencesHold`) | `LiveInv`, a stop in RAM was captured under the scope of today or the store is closed to it; `EpochInv`, a store that was cleared in the middle is barred until a fence is down; `JournalInv` and `FenceInv`, a record holds stops of one identity, and what a fence has cut off lies before it; `ClaimInv`, what a record under way holds; `SourceInv`, `FreshInv`, `StaleInv`, `PendingInv`, which of source, consent and generation a sweep and a pending stop may still carry |
| | `EvidenceExact` | `Once`, a stop is in one part of the store at most; `Recorded`, a record holds it once, under its hour; `Owed`, what store and owner think of the record under way agrees; `Apart`, what is in the journal is in no part but the one claimed for it; `Placed`, a stop to be counted is in RAM, or in the newest record of its hour beyond every fence, and then in the sum or the sum is to be made again |
| `JournalProofs` | `EraseSparesWindow`; `JournalTypeOK` and `UniqueSeq`, parts of `JournalExact` | `SeqInv` and `RecInv`, every number in the flash was given out, and that of the append under way is not there yet; `SpotInv`, what is about to be programmed is erased; `PlaceInv`, the position is in the sector of the newest acknowledged record, or opens a sector after it, by no more sectors than this episode has given up and one |
| | `TrendExact` (`Rings`) | `RasterInv`, the raster, the newest commit and the sign of life agree; `Placed`, how far a reading is off (below); `FiledInv`, and how far in the journal; `OrderInv`, nothing is from after the open bucket, so that what closes it is new; `Shared`, what ring and journal both hold the writer has passed (`Passed`: cursor, seam or floor) |

In `Rings` the remainder of a reading runs between one half less than a bucket and half a
bucket, `Placed`: what the boot that took it left over, less what the boot that shows it has
carried. Every adoption books the former, so that roundings cancel over any number of restarts
instead of adding up; that is what `Booking` carries its residual for, and `Placed` without the
residual is not inductive. A reading that comes back from the journal has been rounded twice
besides, and shown under another remainder: the invariant allows it three buckets more (`Old`).
That the journal files nothing twice rests on `Shared`, not on the cursor alone: a restart moves
what ring and journal both hold to other buckets, and `NextIsAfter` is the proof that the floor
set at the adoption follows it, unless the journal was further behind than `Reach`.

`Places` of the store are summed by an operator over a set, not by recursion: `Total` counts
the pairs of a place and a number below its share. That is what brings `EvidenceExact` within
reach of the provers: that a sum is at most one (`TotalMost`) and at least one of its terms
(`TotalLeast`) are facts about cardinalities, which the library's theorems on finite sets give
without an induction of our own.

A report of `Checkup` does fold: over the slots, and its account over the hours. Since no
induction theorem can be instantiated, `CheckupProofs` does without one. The function the
community modules compute a fold by is shown to exist (`FoldExists`) and not to depend on the
order of the elements (`FoldExchange`), each by the least cardinality of a set for which it
would fail, with the operation given as a function on its domain. The two folds are then
walked side by side, hour by hour from before the ring to the end of time (`NextHourAdds`):
an hour is in the ring and in the window, and slot and account agree; or in the ring only, and
its slot is empty; or in the window only, and nothing happened in it. `FreshAddsUp` gives these
three cases for what a report reads. That is where the dates matter: they are what makes a
report drop exactly the hours that left the window, whatever was skipped since.

That a run ends in the right slot needs `HomeAt`: between its start and its end any number of
hours may be pushed, and the slot of its hour is found by distance alone. Of the run itself the
invariant keeps two directions apart: a run that is not cut off was witnessed throughout
(`PureRunAt`), so nothing unsound is booked under a class; and one of which nothing was hidden
is not cut off (`PerfectRunAt`), so no evidence is thrown away.

Some theorems are conditional, each on what is described with its module above and
excluded nowhere else: `HubIsOfTheSavedGateway` assumes `Prompt`; those about `Retained`
assume `~TornSaves`, `AgesAlwaysExact` assumes `~RestartMidForm`; `AnswersOwn` rests on the ticket clause of `ProbeAssumption`, `TlsAlone`
on the step `LeadOver` of the model, `SourceScoped` and `ModelEarned` on `Beside`. `OneHubTask` needs no assumption. TLC shows
that the first two cannot be dropped.

`Used` shows which calls of a form need which order. From the save to the bump the observers
still hold the unit before, under a generation that is still in force; that is harmless
because the rings' target, the last thing the form replaces, still names that unit. After
the bump nothing kept is of the generation in force, so that the order of the resets does
not matter for the values, only for the ages: they are not shown until the cache has
committed again, which `FormInv` needs the bump to precede the reset of the ages for.

`CutInv` shows what the order in the code is for: `NoOrphan` needs the record to be written
before the first topic is published and the cutover to be complete before the record is
written; neither is enough alone.

### What stays with TLC

- Liveness: `OtaSettles`, `TransferEnds`, `LinkRecovers`, `RefreshSettled`, `Converges`, `Catches`,
  `EvidenceSettles`. Fairness and ENABLED are beyond the provers.
- `RevisionsExact` (`Revisions`): it compares the copies of an hour in the journal, and what a
  restore takes of them, with what the ring holds, over boots and changes of identity; its
  inductive form was not found. Induction as such is no obstacle as long as it can be put as the least
  element that fails (`LeastExists`, `LeastOf`, `Highest`); the library's induction theorems
  cannot be instantiated by the installed provers.
- `WindowRestored`, the third part of `JournalExact`: which slots the backward walk meets in which
  order, over several rounds. Its exceptions (`Rewound`, `Leftover`) were found on the instances;
  an inductive form of them was not.
- `TypesOK` of a run is the conjunction of its modules' type invariants; those of `Recovery`,
  `Config`, `HttpDeadline`, `Links`, `FactoryReset`, `Network`, `Retained`, `Ota`, `HomeHub`, `Polling`
  and `Probe` are parts of the theorems above, the others are only checked.

## Not modelled

- Whole components: HTTP status and values, the ENV III sensor's task, crash information, logs
  and LED, frame decoding, the diagnosis models, provisioning and the captive portal, the
  board catalogue and generated tables. They are pure functions or output, or keep no state
  another task acts on; `components` has a reason for each.
- Everywhere: byte formats, text, rendering, numeric conversion.
- The byte transfer of an update with its resumes (one failure each); the lease of the release
  notes; the press recogniser and LED of the recovery button; the boot's creation of the
  deadline's task and timer; Modbus discovery, batching and pacing; the owner probe and the
  frozen label aliases of MQTT; the journal's room records.
