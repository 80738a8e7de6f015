------------------------------ MODULE Recovery ------------------------------
(***************************************************************************)
(* The unattended-recovery chain of the firmware: the crash-loop guard     *)
(* (logic/boot_guard.hpp, safe_mode.cpp) and the heap watchdog             *)
(* (logic/heap_watchdog.hpp, heap_guard.cpp), in the order main.cpp runs   *)
(* them.                                                                   *)
(*                                                                         *)
(* Two counters live in flash.  bootFails counts consecutive crash boots   *)
(* and latches safe mode at a threshold; heapRst counts consecutive        *)
(* deliberate restarts of the heap watchdog and makes the boot minimal at  *)
(* a cap.  A marker in uninitialised RAM tells the boot that a software    *)
(* reset was the watchdog's own.  The device may crash, lose power or be   *)
(* restarted between any two steps, and every flash write may fail.        *)
(*                                                                         *)
(* An operator marked "mutant" is a plausible wrong version of the         *)
(* definition after it; no specification uses it.                          *)
(***************************************************************************)
EXTENDS Integers

CONSTANTS
  FailThreshold,  \* BOOT_FAIL_THRESHOLD: crash boots that latch safe mode
  FailMax,        \* BOOT_FAIL_MAX: the stored crash count saturates here
  MaxRestarts,    \* HEAP_MAX_CONSECUTIVE_RESTARTS
  Hold,           \* HEAP_CRITICAL_HOLD_MS, in clock ticks
  Wrap,           \* the clock is a counter modulo Wrap (2^32 ms in the code)
  Gaps            \* ticks that may pass between two samples of the poll task

ASSUME FailAssumption ==
  /\ FailThreshold \in Nat \ {0}
  /\ FailMax \in Nat
  /\ FailThreshold <= FailMax
ASSUME HeapAssumption ==
  /\ MaxRestarts \in Nat \ {0}
  /\ Hold \in Nat \ {0}
  /\ Wrap \in Nat
  /\ Hold < Wrap
  /\ Gaps \subseteq 0 .. Wrap - 1

VARIABLES
  bootFails,  \* NVS "boot_fails" as stored, whatever build wrote it
  heapRst,    \* NVS "heap_rst" as stored
  nvsUp,      \* nvs_flash_init succeeded in this boot
  latched,    \* s_writes_disabled: a factory reset refuses every setter
  erasing,    \* nvs_erase_all holds the write mutex
  marker,     \* HeapRestartMarker reads as armed
  reason,     \* esp_reset_reason() of this boot
  phase,      \* how far boot_sequence has come
  kind,       \* s_boot_kind
  safeMode,   \* s_safe_mode
  restarts,   \* heap_guard.cpp's s_restarts
  timer,      \* the one-shot healthy timer
  critical,   \* HeapWatchdog.critical
  age,        \* now_ms - since_ms of the critical run, modulo Wrap
  wd,         \* where the poll task is inside heap_guard_sample
  \* History, read by no action of the program:
  streak,     \* crash boots since the last clean boot or heal
  wdRuns,     \* watchdog restarts since the last clean boot
  bumpLost,   \* a crash boot of this streak was not recorded, or erased
  clearLost,  \* a clean boot left a stale crash count behind
  stepLost,   \* a watchdog restart of this run was not recorded, or erased
  due,        \* a boot latched safe mode; no clean boot or erase followed
  blind,      \* a boot since then could not read NVS
  prevArmed,  \* the watchdog had armed the marker when this reset came
  held        \* true length of the critical run, saturating at Hold

stored  == <<bootFails, heapRst>>
bootVars == <<nvsUp, reason, phase, kind, safeMode, restarts, prevArmed>>
watch   == <<critical, age, held>>
ghosts  == <<streak, wdRuns, bumpLost, clearLost, stepLost, due, blind>>
vars    == <<bootFails, heapRst, nvsUp, latched, erasing, marker, reason, phase, kind,
             safeMode, restarts, timer, critical, age, wd, streak, wdRuns,
             bumpLost, clearLost, stepLost, due, blind, prevArmed, held>>

-----------------------------------------------------------------------------
(* Reset reasons, by how boot_classify and the marker tell them apart:      *)
(* PANIC stands for the five reasons that count as a crash, EXT for every   *)
(* other reset that keeps RAM powered.                                      *)
Reasons == {"POWERON", "EXT", "SW", "PANIC"}
Kinds   == {"Clean", "Crash", "HeapWatchdogRestart"}
Phases  == {"reset", "counted", "laddered", "running"}
Blocks  == {"low", "band", "clear"}   \* < 4096 B, < 8192 B, at least that

AtMost(n, cap) == IF n > cap THEN cap ELSE n

(* boot_fail_count_sane and heap_restart_count_sane: a stored value outside *)
(* the counter's range counts as none.                                      *)
FailCountSane(n)    == IF n < 0 \/ n > FailMax THEN 0 ELSE n
RestartCountUnbounded(n) == IF n < 0 THEN 0 ELSE n   \* mutant
RestartCountSane(n) == IF n < 0 \/ n > MaxRestarts THEN 0 ELSE n

ResetWasCrash(r) == r = "PANIC"

BootClassify(r, armed) ==
  IF ResetWasCrash(r) THEN "Crash"
  ELSE IF armed /\ r = "SW" THEN "HeapWatchdogRestart" ELSE "Clean"

CrashCountUnsaturated(k, n) ==                         \* mutant
  CASE k = "Crash" -> FailCountSane(n) + 1
    [] k = "HeapWatchdogRestart" -> FailCountSane(n)
    [] OTHER -> 0

(* boot_crash_counter_step: what the boot counts, whether that is written,  *)
(* and whether it latches safe mode.  A watchdog restart carries the count, *)
(* any other start that was no crash clears it.                             *)
CrashCount(k, n) ==
  CASE k = "Crash" -> AtMost(FailCountSane(n) + 1, FailMax)
    [] k = "HeapWatchdogRestart" -> FailCountSane(n)
    [] OTHER -> 0

CrashCountWritten(k, n) == k = "Crash" \/ (k = "Clean" /\ n # 0)

CrashLoop(k, n) == k = "Crash" /\ CrashCount(k, n) >= FailThreshold

(* boot_heap_ladder_step: the inherited restarts this boot honours, and     *)
(* whether it clears the stored count.                                      *)
HeapHonoured(k, n) == IF k = "Clean" THEN 0 ELSE RestartCountSane(n)

HeapCleared(k, n) == k = "Clean" /\ n # 0

HeapMayRestartAtCap(n)   == n <= MaxRestarts           \* mutant
HeapMayRestart(n)        == n < MaxRestarts
HeapBootMustBeMinimal(n) == ~HeapMayRestart(n)
HealthyTimerArms(safe)   == ~safe

(* A difference of two clock readings, in unsigned arithmetic modulo Wrap.   *)
Elapsed(t) == IF t >= Wrap THEN t - Wrap ELSE t

(* heap_watch.  An OTA or a block at the recovery mark ends the critical    *)
(* run; inside the band an open run stays open and none is opened; after    *)
(* the hold every sample says restart.  elapsed is now_ms - since_ms.       *)
HeapWatch(open, elapsed, block, otaBusy) ==
  IF otaBusy \/ block = "clear" THEN "ended"
  ELSE IF open THEN (IF elapsed >= Hold THEN "restart" ELSE "watching")
  ELSE IF block = "band" THEN "ok" ELSE "armed"

-----------------------------------------------------------------------------
(* nvs_get_i32 falls back to 0 when NVS is unavailable.                     *)
NvsGet(n) == IF nvsUp THEN n ELSE 0
(* A setter waits for the write mutex; it succeeds only with NVS up and no   *)
(* factory reset latched, and even then may fail.                           *)
NvsSet(ok) == ~erasing /\ (ok => nvsUp /\ ~latched)

Init ==
  /\ bootFails \in {-1, 0, FailMax, FailMax + 1}
  /\ heapRst \in {-1, 0, MaxRestarts, MaxRestarts + 1}
  /\ marker \in BOOLEAN
  /\ reason = "POWERON"
  /\ nvsUp = FALSE /\ latched = FALSE /\ erasing = FALSE
  /\ phase = "reset" /\ kind = "Clean" /\ safeMode = FALSE
  /\ restarts = 0 /\ timer = "off" /\ wd = "idle"
  /\ critical = FALSE /\ age = 0 /\ held = 0
  /\ streak = FailCountSane(bootFails)
  /\ wdRuns = RestartCountSane(heapRst)
  /\ bumpLost = FALSE /\ clearLost = FALSE /\ stepLost = FALSE
  /\ due = FALSE /\ blind = FALSE /\ prevArmed = FALSE

-----------------------------------------------------------------------------
(* Resets.  RAM is lost; flash and, unless power was lost, the marker stay. *)
ResetTo(r) ==
  /\ phase' = "reset"
  /\ reason' = r
  /\ prevArmed' = (wd = "armed")
  /\ nvsUp' = FALSE /\ latched' = FALSE /\ erasing' = FALSE
  /\ kind' = "Clean" /\ safeMode' = FALSE /\ restarts' = 0
  /\ timer' = "off" /\ wd' = "idle"
  /\ critical' = FALSE /\ age' = 0 /\ held' = 0
  /\ UNCHANGED <<stored, ghosts>>

(* Any step of any task may panic, hang or brown out, and esp_restart may   *)
(* panic in a shutdown handler.                                             *)
Crash == ResetTo("PANIC") /\ UNCHANGED marker

PowerCycle == ResetTo("POWERON") /\ marker' \in BOOLEAN

ExternalReset == ResetTo("EXT") /\ UNCHANGED marker

(* A rebooting save, an OTA install, a WiFi rollback...: refused while a    *)
(* factory reset is latched.                                                *)
IntentionalRestart ==
  /\ phase \in {"laddered", "running"}
  /\ ~latched
  /\ ResetTo("SW") /\ UNCHANGED marker

(* The factory reset's own restart, after every erase succeeded. *)
FactoryRestart ==
  /\ latched /\ ~erasing
  /\ ResetTo("SW") /\ UNCHANGED marker

-----------------------------------------------------------------------------
(* The boot sequence *)

(* nvs_flash_init and safe_mode_begin: take the marker, classify, count,    *)
(* and write the count before anything that can crash.                      *)
SafeModeBegin(up, ok) ==
  LET k    == BootClassify(reason, marker)
      n    == IF up THEN bootFails ELSE 0
      kept == CrashCountWritten(k, n) /\ ok
  IN  /\ phase = "reset"
      /\ ok => up
      /\ nvsUp' = up
      /\ marker' = FALSE
      /\ kind' = k
      /\ safeMode' = CrashLoop(k, n)
      /\ bootFails' = IF kept THEN CrashCount(k, n) ELSE bootFails
      /\ phase' = "counted"
      /\ streak' = CASE k = "Clean" -> 0
                     [] k = "Crash" -> AtMost(streak + 1, FailMax)
                     [] OTHER -> streak
      /\ wdRuns' = IF k = "Clean" THEN 0 ELSE wdRuns
      /\ bumpLost' = (k # "Clean" /\ (bumpLost \/ (k = "Crash" /\ ~kept)))
      /\ clearLost' = IF k = "Clean" THEN bootFails' # 0 ELSE clearLost
      /\ stepLost' = (k # "Clean" /\ stepLost)
      /\ due' = ((k # "Clean" /\ due) \/ CrashLoop(k, n))
      /\ blind' = (k # "Clean" /\ (blind \/ ~up))
      /\ UNCHANGED <<heapRst, latched, erasing, reason, restarts, timer, watch, wd,
                     prevArmed>>

(* heap_guard_begin: honour or clear the inherited restarts; at the cap the *)
(* boot latches the minimal mode.  The count is carried, not consumed.      *)
HeapGuardBegin(ok) ==
  LET n       == HeapHonoured(kind, NvsGet(heapRst))
      minimal == n # 0 /\ HeapBootMustBeMinimal(n)
  IN  /\ phase = "counted"
      /\ NvsSet(ok)
      /\ restarts' = n
      /\ heapRst' = IF HeapCleared(kind, NvsGet(heapRst)) /\ ok THEN 0 ELSE heapRst
      /\ safeMode' = (safeMode \/ minimal)
      /\ due' = (due \/ minimal)
      /\ phase' = "laddered"
      /\ UNCHANGED <<bootFails, nvsUp, latched, erasing, marker, reason, kind, timer,
                     watch, wd, streak, wdRuns, bumpLost, clearLost, stepLost,
                     blind, prevArmed>>

(* hp_poll_start (skipped in safe mode, see Sample) and the other services. *)
StartTasks ==
  /\ phase = "laddered"
  /\ phase' = "running"
  /\ UNCHANGED <<stored, nvsUp, latched, erasing, marker, reason, kind, safeMode,
                 restarts, timer, watch, wd, ghosts, prevArmed>>

(* safe_mode_arm_healthy, the last step of the boot; creating or starting   *)
(* the timer may fail, which leaves it "off" for the rest of the boot.      *)
ArmHealthy ==
  /\ phase = "running"
  /\ timer = "off"
  /\ HealthyTimerArms(safeMode)
  /\ timer' = "armed"
  /\ UNCHANGED <<stored, bootVars, latched, erasing, marker, watch, wd, ghosts>>

(* healthy_timer_cb *)
HealthyTimerFires(ok) ==
  /\ timer = "armed"
  /\ NvsSet(ok)
  /\ timer' = "spent"
  /\ IF NvsGet(bootFails) # 0 /\ ok
     THEN bootFails' = 0 /\ streak' = 0
     ELSE UNCHANGED <<bootFails, streak>>
  /\ UNCHANGED <<heapRst, bootVars, latched, erasing, marker, watch, wd, wdRuns,
                 bumpLost, clearLost, stepLost, due, blind>>

-----------------------------------------------------------------------------
(* The heap watchdog, inside the poll task *)

(* heap_guard_sample up to its first latch check: d ticks after the         *)
(* previous sample, with this block and this OTA state.                     *)
Sample(block, otaBusy, d) ==
  LET now     == IF critical THEN Elapsed(age + d) ELSE 0
      verdict == HeapWatch(critical, now, block, otaBusy)
      open    == verdict \in {"armed", "watching", "restart"}
  IN  /\ phase = "running"
      /\ ~safeMode
      /\ wd = "idle"
      /\ critical' = open
      /\ age' = IF open THEN now ELSE 0
      /\ held' = IF critical /\ block # "clear" /\ ~otaBusy
                 THEN AtMost(held + d, Hold) ELSE 0
      /\ wd' = IF verdict = "restart" /\ HeapMayRestart(restarts) /\ ~latched
               THEN "decided" ELSE "idle"
      /\ UNCHANGED <<stored, bootVars, latched, erasing, marker, timer, ghosts>>

(* The best-effort count of the restart about to happen. *)
PersistRestart(ok) ==
  /\ wd = "decided"
  /\ NvsSet(ok)
  /\ heapRst' = IF ok THEN restarts + 1 ELSE heapRst
  /\ stepLost' = (stepLost \/ ~ok)
  /\ wd' = "draining"
  /\ UNCHANGED <<bootFails, bootVars, latched, erasing, marker, timer, watch, streak,
                 wdRuns, bumpLost, clearLost, due, blind>>

(* After the 300 ms drain: the second latch check, then the marker. *)
ArmMarker ==
  /\ wd = "draining"
  /\ IF latched
     THEN wd' = "idle" /\ UNCHANGED <<marker, wdRuns>>
     ELSE /\ wd' = "armed"
          /\ marker' = TRUE
          /\ wdRuns' = AtMost(wdRuns + 1, MaxRestarts + 1)
  /\ UNCHANGED <<stored, bootVars, latched, erasing, timer, watch, streak, bumpLost,
                 clearLost, stepLost, due, blind>>

(* esp_restart returns from its shutdown handlers and resets the chip. *)
WatchdogRestart ==
  /\ wd = "armed"
  /\ ResetTo("SW") /\ UNCHANGED marker

(* The recovery button's nvs_erase_all, in its own task: the latch, then     *)
(* the entries one by one, then the verdict.  A failed erase releases the   *)
(* latch whatever it already removed; a retry starts over.  (The button     *)
(* needs a hold of seconds, so it cannot latch before the ladder is read.)  *)
FactoryLatch ==
  /\ phase \in {"laddered", "running"}
  /\ ~erasing
  /\ latched' = TRUE /\ erasing' = TRUE
  /\ UNCHANGED <<stored, bootVars, marker, timer, watch, wd, ghosts>>

EraseBootFails ==
  /\ erasing /\ nvsUp
  /\ bootFails' = 0
  /\ bumpLost' = TRUE /\ due' = FALSE
  /\ UNCHANGED <<heapRst, bootVars, latched, erasing, marker, timer, watch, wd,
                 streak, wdRuns, clearLost, stepLost, blind>>

EraseHeapRst ==
  /\ erasing /\ nvsUp
  /\ heapRst' = 0
  /\ stepLost' = TRUE /\ due' = FALSE
  /\ UNCHANGED <<bootFails, bootVars, latched, erasing, marker, timer, watch,
                 wd, streak, wdRuns, bumpLost, clearLost, blind>>

FactoryErased(ok) ==
  /\ erasing
  /\ ok => nvsUp /\ bootFails = 0 /\ heapRst = 0
  /\ erasing' = FALSE
  /\ latched' = ok
  /\ UNCHANGED <<stored, bootVars, marker, timer, watch, wd, ghosts>>

-----------------------------------------------------------------------------
Next ==
  \/ Crash \/ PowerCycle \/ ExternalReset
  \/ IntentionalRestart \/ FactoryRestart \/ WatchdogRestart
  \/ \E up, ok \in BOOLEAN : SafeModeBegin(up, ok)
  \/ \E ok \in BOOLEAN : HeapGuardBegin(ok)
  \/ StartTasks
  \/ ArmHealthy
  \/ \E ok \in BOOLEAN : HealthyTimerFires(ok)
  \/ \E block \in Blocks, otaBusy \in BOOLEAN, d \in Gaps :
       Sample(block, otaBusy, d)
  \/ \E ok \in BOOLEAN : PersistRestart(ok)
  \/ ArmMarker
  \/ FactoryLatch \/ EraseBootFails \/ EraseHeapRst
  \/ \E ok \in BOOLEAN : FactoryErased(ok)

Spec == Init /\ [][Next]_vars

-----------------------------------------------------------------------------
CountersOK ==
  /\ bootFails \in -1 .. FailMax + 1
  /\ heapRst \in -1 .. MaxRestarts + 1
  /\ restarts \in 0 .. MaxRestarts
  /\ age \in 0 .. Wrap - 1
  /\ held \in 0 .. Hold
  /\ streak \in 0 .. FailMax
  /\ wdRuns \in 0 .. MaxRestarts + 1

FlagsOK ==
  /\ reason \in Reasons /\ kind \in Kinds /\ phase \in Phases
  /\ timer \in {"off", "armed", "spent"}
  /\ wd \in {"idle", "decided", "draining", "armed"}
  /\ nvsUp \in BOOLEAN /\ latched \in BOOLEAN /\ erasing \in BOOLEAN
  /\ marker \in BOOLEAN
  /\ safeMode \in BOOLEAN /\ critical \in BOOLEAN
  /\ bumpLost \in BOOLEAN /\ clearLost \in BOOLEAN /\ stepLost \in BOOLEAN
  /\ due \in BOOLEAN /\ blind \in BOOLEAN /\ prevArmed \in BOOLEAN

(* Every variable keeps its type, whatever an earlier build left in flash.  *)
TypeOK == CountersOK /\ FlagsOK

(* A crash loop latches safe mode: once FailThreshold crash boots have come *)
(* without a clean boot or a heal between them, whatever watchdog restarts  *)
(* are interleaved, a crash boot is a safe-mode boot, unless a count was    *)
(* not written or was erased (safe_mode_begin, boot_crash_counter_step).    *)
CrashLoopLatches ==
  phase # "reset" /\ kind = "Crash" /\ streak >= FailThreshold /\ ~bumpLost
    => safeMode

(* Safe mode is earned: it is latched only after FailThreshold crash boots  *)
(* or MaxRestarts watchdog restarts, unless a clean boot failed to clear    *)
(* the old count.  A burst of provisioning restarts can never add up to it. *)
SafeModeEarned ==
  safeMode /\ ~clearLost
    => streak >= FailThreshold \/ restarts = MaxRestarts

(* Only a clean boot (or a factory reset) leads out of safe mode: staying   *)
(* up, crashing again or a late timer does not, as long as NVS can be read  *)
(* (boot_healthy_timer_arms).                                               *)
SafeModeSticky ==
  due /\ ~blind /\ phase \in {"laddered", "running"} => safeMode

(* The way back is always open: a clean boot is never minimal, even when    *)
(* every attempt to clear the two counters fails.                           *)
CleanBootNeverMinimal == kind = "Clean" => ~safeMode

(* A boot ends up in safe mode exactly when it should: the four above.      *)
SafeModeExact ==
  CrashLoopLatches /\ SafeModeEarned /\ SafeModeSticky /\ CleanBootNeverMinimal

(* The marker explains exactly one reset: a software reset is taken for the *)
(* watchdog's own if and only if the watchdog had armed the marker in the   *)
(* boot that reset, whatever RAM held at power-on and whatever crashed in   *)
(* between (heap_restart_marker_take).                                      *)
MarkerExplainsOneReset ==
  phase # "reset" => (kind = "HeapWatchdogRestart"
                        <=> reason = "SW" /\ prevArmed)

(* The watchdog cannot restart the device for ever: between two clean boots *)
(* it restarts at most MaxRestarts times, crashes in between included,      *)
(* unless a count was not written or was erased (heap_guard_sample).        *)
WatchdogRestartsBounded == ~stepLost => wdRuns <= MaxRestarts

(* A shortage the restarts did not cure ends in a minimal boot, whether the *)
(* boots between were watchdog restarts or crashes.                         *)
ShortageEndsMinimal ==
  phase \in {"laddered", "running"} /\ nvsUp /\ ~stepLost
    /\ wdRuns >= MaxRestarts /\ wd # "armed" => safeMode

(* A restart is decided only after the shortage held for Hold without one   *)
(* sample at the recovery mark or under an OTA, wrap of the 32-bit clock    *)
(* included (heap_watch).                                                   *)
RestartNeedsHold == wd # "idle" => held >= Hold

(* The watchdog's restarts are its own, wanted and few: the four above.     *)
WatchdogExact ==
  /\ MarkerExplainsOneReset /\ RestartNeedsHold
  /\ WatchdogRestartsBounded /\ ShortageEndsMinimal

-----------------------------------------------------------------------------
(* The inductive invariant behind the properties above (BootProofs).    *)

(* What has not started yet in an early phase, and what safe mode keeps off *)
BootOrder ==
  /\ phase \in {"reset", "counted"} => wd = "idle" /\ ~latched /\ ~erasing
                                     /\ restarts = 0
  /\ phase = "reset" => ~safeMode /\ kind = "Clean"
  /\ phase # "running" => timer = "off"
  /\ safeMode => wd = "idle" /\ timer = "off"
  /\ phase = "counted" /\ kind = "Clean" => wdRuns = 0
  /\ phase \in {"laddered", "running"} /\ restarts = MaxRestarts => safeMode

MarkerInv ==
  /\ phase = "reset" /\ reason = "SW" => (marker <=> prevArmed)
  /\ phase # "reset" => (marker <=> wd = "armed")
  /\ phase # "reset" => (kind = "HeapWatchdogRestart"
                           <=> reason = "SW" /\ prevArmed)

CountInv ==
  /\ ~bumpLost => streak <= FailCountSane(bootFails)
  /\ ~clearLost => FailCountSane(bootFails) <= streak

LadderInv ==
  /\ ~stepLost => wdRuns <= RestartCountSane(heapRst)
  /\ ~stepLost /\ nvsUp /\ wd # "armed" /\ phase \in {"laddered", "running"}
       => wdRuns <= restarts
  /\ wd \in {"decided", "draining"} => restarts < MaxRestarts
  /\ wd = "draining" /\ ~stepLost
       => nvsUp /\ heapRst = restarts + 1

(* While safe mode is due, flash still holds the count that latches it.     *)
DueInv ==
  due /\ ~blind =>
    /\ \/ FailCountSane(bootFails) + 1 >= FailThreshold
       \/ RestartCountSane(heapRst) = MaxRestarts
    /\ phase = "reset" => ~prevArmed
    /\ phase # "reset" => nvsUp /\ kind # "Clean"
    /\ phase = "counted" => safeMode \/ RestartCountSane(heapRst) = MaxRestarts
    /\ phase \in {"laddered", "running"} => safeMode

HoldInv ==
  /\ critical => AtMost(age, Hold) <= held
  /\ wd # "idle" => held >= Hold

IInv ==
  /\ TypeOK /\ BootOrder /\ MarkerInv /\ CountInv /\ LadderInv /\ DueInv
  /\ HoldInv /\ CrashLoopLatches /\ SafeModeEarned /\ CleanBootNeverMinimal

=============================================================================
