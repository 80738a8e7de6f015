---------------------------- MODULE FactoryReset ----------------------------
(***************************************************************************)
(* The factory reset behind the recovery button (recovery_button.cpp),     *)
(* erasing one store after the other while the other tasks keep running:   *)
(* settings are saved, history is appended, the MQTT retirement record is  *)
(* written, and six more places want to restart the board.  Each erase may *)
(* fail, and the board may lose power at any point.                        *)
(*                                                                         *)
(* A store holds "data" of its owner or is "erased"; the settings may also *)
(* be partly erased, or hold the board-hardware seed alone.                *)
(***************************************************************************)
EXTENDS Naturals, FiniteSets

CONSTANTS
  Sites,        \* the other restart sites: heap, net, ota, ota gate, wifi, config
  AskedTwice    \* those that ask for the latch before their wait as well

ASSUME SitesAssumption == AskedTwice \subseteq Sites

VARIABLES
  ready,      \* s_flash_forget_ready
  latch,      \* s_writes_disabled
  forgotten,  \* s_flash_forgotten: history producers are off for this boot
  cfg, wifi, hist, crash, retire, \* the five stores
  haveSeed,   \* config_factory_seed_blob succeeded
  step,       \* where factory_reset is
  saving,     \* a retirement save is past its latch check, holding its mutex
  other,      \* per site: "idle", "wait" or "go" (past its last check)
  \* History of this boot:
  gone,       \* stores a reset of this boot has erased
  released,   \* a later attempt failed and gave the latch back
  raced       \* a site was past its last check when the latch was set

vars == <<ready, latch, forgotten, cfg, wifi, hist, crash, retire, haveSeed,
          step, saving, other, gone, released, raced>>
stores == <<cfg, wifi, hist, crash, retire>>
boot   == <<ready, latch, forgotten, haveSeed, step, saving, other, gone,
            released, raced>>

-----------------------------------------------------------------------------
Stores == {"cfg", "wifi", "hist", "crash", "retire"}
Steps  == {"idle", "nvs", "wifi", "hist", "crash", "retire", "seed", "restart"}

Init ==
  /\ ready = FALSE /\ latch = FALSE /\ forgotten = FALSE /\ haveSeed = FALSE
  /\ step = "idle" /\ saving = FALSE /\ other = [s \in Sites |-> "idle"]
  /\ gone = {} /\ released = FALSE /\ raced = FALSE
  /\ cfg = "data" /\ wifi \in {"data", "erased"} /\ hist = "data"
  /\ crash \in {"data", "erased"} /\ retire \in {"data", "erased"}

(* Every restart: RAM is gone. *)
Reboot ==
  /\ ready' = FALSE /\ latch' = FALSE /\ forgotten' = FALSE /\ haveSeed' = FALSE
  /\ step' = "idle" /\ saving' = FALSE /\ other' = [s \in Sites |-> "idle"]
  /\ gone' = {} /\ released' = FALSE /\ raced' = FALSE

(* Power loss, or a panic, which writes a core dump. *)
PowerLoss == Reboot /\ UNCHANGED stores
Panic     == Reboot /\ crash' = "data" /\ UNCHANGED <<cfg, wifi, hist, retire>>

(* history_flash_start has scanned the journal; with no usable partition it *)
(* never does, and this boot refuses to reset.                              *)
HistoryStarted ==
  /\ ~ready /\ ready' = TRUE
  /\ UNCHANGED <<latch, forgotten, stores, haveSeed, step, saving, other, gone,
                 released, raced>>

-----------------------------------------------------------------------------
(* The reset *)

(* history_flash_forget_ready, then the seed is built from RAM. *)
Fire ==
  /\ step = "idle" /\ ready
  /\ haveSeed' \in BOOLEAN
  /\ step' = "nvs"
  /\ UNCHANGED <<ready, latch, forgotten, stores, saving, other, gone, released,
                 raced>>

(* nvs_erase_all: the latch is set under the write mutex, which waits out   *)
(* any running setter, and stays set across the erase ...                   *)
LatchNvs ==
  /\ step = "nvs" /\ ~latch
  /\ latch' = TRUE
  /\ raced' = (raced \/ \E s \in Sites : other[s] = "go")
  /\ UNCHANGED <<ready, forgotten, stores, haveSeed, step, saving, other, gone,
                 released>>

(* ... which removes the entries one by one ...                             *)
EraseSome ==
  /\ step = "nvs" /\ latch /\ cfg # "erased"
  /\ cfg' = "part"
  /\ UNCHANGED <<wifi, hist, crash, retire, boot>>

(* ... and a failure gives the latch back.                                  *)
LatchAfter(ok) == ok

(* An erase that reports a failure may still have removed everything.       *)
Erased(ok, store) == IF ok THEN {"erased"} ELSE {store, "erased"}

NvsErased(ok) ==
  /\ step = "nvs" /\ latch
  /\ cfg' \in Erased(ok, cfg)
  /\ latch' = LatchAfter(ok)
  /\ gone' = IF ok THEN gone \cup {"cfg"} ELSE gone
  /\ released' = (released \/ (~ok /\ "cfg" \in gone))
  /\ step' = IF ok THEN "wifi" ELSE "idle"
  /\ UNCHANGED <<ready, forgotten, wifi, hist, crash, retire, haveSeed, saving,
                 other, raced>>

(* A required erase failed: stay up, latched, until the next hold.          *)
NextStep(ok, next) == IF ok THEN next ELSE "idle"

WifiErased(ok) ==
  /\ step = "wifi"
  /\ wifi' \in Erased(ok, wifi)
  /\ gone' = IF ok THEN gone \cup {"wifi"} ELSE gone
  /\ step' = NextStep(ok, "hist")
  /\ UNCHANGED <<ready, latch, forgotten, cfg, hist, crash, retire, haveSeed,
                 saving, other, released, raced>>

(* history_flash_forget: producers are off first, then the journal goes,    *)
(* under the flash mutex.                                                   *)
Forget ==
  /\ step = "hist" /\ ~forgotten
  /\ forgotten' = TRUE
  /\ UNCHANGED <<ready, latch, stores, haveSeed, step, saving, other, gone,
                 released, raced>>

HistErased(ok) ==
  /\ step = "hist" /\ forgotten
  /\ hist' \in Erased(ok, hist)
  /\ gone' = IF ok THEN gone \cup {"hist"} ELSE gone
  /\ step' = NextStep(ok, "crash")
  /\ UNCHANGED <<ready, latch, forgotten, cfg, wifi, crash, retire, haveSeed,
                 saving, other, released, raced>>

(* diag_crash_forget *)
CrashErased(ok) ==
  /\ step = "crash"
  /\ crash' \in Erased(ok, crash)
  /\ gone' = IF ok THEN gone \cup {"crash"} ELSE gone
  /\ step' = NextStep(ok, "retire")
  /\ UNCHANGED <<ready, latch, forgotten, cfg, wifi, hist, retire, haveSeed,
                 saving, other, released, raced>>

(* mqtt_retirement_forget failing is as final as the others. *)
AfterRetire(ok, next) == NextStep(ok, next)

(* mqtt_retirement_forget, which waits for a save in progress. *)
RetireErased(ok) ==
  /\ step = "retire" /\ ~saving
  /\ retire' \in Erased(ok, retire)
  /\ gone' = IF ok THEN gone \cup {"retire"} ELSE gone
  /\ step' = AfterRetire(ok, "seed")
  /\ UNCHANGED <<ready, latch, forgotten, cfg, wifi, hist, crash, haveSeed,
                 saving, other, released, raced>>

(* nvs_set_blob_after_factory_reset: the one write behind the latch, best   *)
(* effort.                                                                  *)
WriteSeed(ok) ==
  /\ step = "seed"
  /\ cfg' = IF ok /\ haveSeed /\ latch THEN "seed" ELSE cfg
  /\ step' = "restart"
  /\ UNCHANGED <<ready, latch, forgotten, wifi, hist, crash, retire, haveSeed,
                 saving, other, gone, released, raced>>

OwnRestart == step = "restart" /\ Reboot /\ UNCHANGED stores

-----------------------------------------------------------------------------
(* The other tasks *)

SetterAlways == latch \in BOOLEAN                         \* mutant

(* The latch is asked under the write mutex that nvs_erase_all holds. *)
SetterAllowed == ~latch

(* A settings save, which rewrites the whole blob from RAM. *)
SaveSettings ==
  /\ SetterAllowed
  /\ cfg' = "data"
  /\ UNCHANGED <<wifi, hist, crash, retire, boot>>

(* A journal append, under the flash mutex. *)
AppendHistory ==
  /\ ~forgotten
  /\ hist' = "data"
  /\ UNCHANGED <<cfg, wifi, crash, retire, boot>>

(* mqtt_retirement_store_save: the latch is asked and the record written    *)
(* under the record's own mutex.                                            *)
RetireSaveBegin ==
  /\ ~saving /\ ~latch
  /\ saving' = TRUE
  /\ UNCHANGED <<ready, latch, forgotten, stores, haveSeed, step, other, gone,
                 released, raced>>

RetireSaveEnd(ok) ==
  /\ saving
  /\ saving' = FALSE
  /\ retire' = IF ok THEN "data" ELSE retire
  /\ UNCHANGED <<ready, latch, forgotten, cfg, wifi, hist, crash, haveSeed, step,
                 other, gone, released, raced>>

(* A site decides to restart and lets its last log line drain. *)
WantRestart(s) ==
  /\ other[s] = "idle"
  /\ s \in AskedTwice => ~latch
  /\ other' = [other EXCEPT ![s] = "wait"]
  /\ UNCHANGED <<ready, latch, forgotten, stores, haveSeed, step, saving, gone,
                 released, raced>>

(* nvs_restart_held_by_factory_reset, immediately before esp_restart. *)
Held(s) == latch

LastCheck(s) ==
  /\ other[s] = "wait"
  /\ other' = [other EXCEPT ![s] = IF Held(s) THEN "idle" ELSE "go"]
  /\ UNCHANGED <<ready, latch, forgotten, stores, haveSeed, step, saving, gone,
                 released, raced>>

OtherRestart(s) == other[s] = "go" /\ Reboot /\ UNCHANGED stores

-----------------------------------------------------------------------------
Next ==
  \/ PowerLoss \/ Panic \/ HistoryStarted
  \/ Fire \/ LatchNvs \/ EraseSome \/ Forget \/ OwnRestart
  \/ \E ok \in BOOLEAN :
       \/ NvsErased(ok) \/ WifiErased(ok) \/ HistErased(ok) \/ CrashErased(ok)
       \/ RetireErased(ok) \/ WriteSeed(ok) \/ RetireSaveEnd(ok)
  \/ SaveSettings \/ AppendHistory \/ RetireSaveBegin
  \/ \E s \in Sites : WantRestart(s) \/ LastCheck(s) \/ OtherRestart(s)

Spec == Init /\ [][Next]_vars

-----------------------------------------------------------------------------
(* Properties *)

TypeOK ==
  /\ ready \in BOOLEAN /\ latch \in BOOLEAN /\ forgotten \in BOOLEAN
  /\ haveSeed \in BOOLEAN /\ saving \in BOOLEAN
  /\ released \in BOOLEAN /\ raced \in BOOLEAN
  /\ cfg \in {"data", "part", "erased", "seed"}
  /\ wifi \in {"data", "erased"} /\ hist \in {"data", "erased"}
  /\ crash \in {"data", "erased"} /\ retire \in {"data", "erased"}
  /\ step \in Steps
  /\ other \in [Sites -> {"idle", "wait", "go"}]
  /\ gone \subseteq Stores

(* The reset restarts the board only when nothing of the owner is left: the *)
(* settings are erased or hold the seed, and no task has refilled any store *)
(* since its erase, a save caught in the middle by the latch included.      *)
OwnRestartComplete ==
  step = "restart" =>
    /\ cfg \in {"erased", "seed"}
    /\ wifi = "erased" /\ hist = "erased" /\ crash = "erased"
    /\ retire = "erased"

(* While a reset that did not finish waits for the next hold, what it has   *)
(* erased stays erased in this boot, unless a later attempt has given the   *)
(* latch back (nvs_storage.cpp, history.cpp, mqtt_retirement_store.cpp).    *)
GoneStaysGone ==
  /\ "hist" \in gone => hist = "erased"
  /\ ~released =>
       /\ "cfg" \in gone => cfg # "data"
       /\ "retire" \in gone => retire = "erased"

(* No other restart is decided in a boot whose settings a reset has erased, *)
(* which would make a partial reset look like a finished one; except by a   *)
(* site already past its last check, or after the latch was given back.     *)
OthersHeld ==
  "cfg" \in gone /\ ~raced /\ ~released =>
    latch /\ \A s \in Sites : other[s] # "go"

(* The reset is whole or it is not taken for one: the three above.          *)
ResetExact == OwnRestartComplete /\ GoneStaysGone /\ OthersHeld

(* What nvs_storage.cpp:104-106 says of the latch: once the settings are    *)
(* erased it stays set, even if a later erase keeps this boot alive.        *)
LatchKept == "cfg" \in gone => latch

-----------------------------------------------------------------------------
(* The inductive invariant behind them (FactoryResetProofs).                *)

(* What the reset has behind it at each step.                               *)
StepInv ==
  /\ step \notin {"idle", "nvs"} => latch /\ "cfg" \in gone
  /\ step \in {"wifi", "hist", "crash", "retire", "seed"} => cfg = "erased"
  /\ step = "restart" => cfg \in {"erased", "seed"}
  /\ step \in {"hist", "crash", "retire", "seed", "restart"} => wifi = "erased"
  /\ step \in {"crash", "retire", "seed", "restart"}
       => hist = "erased" /\ forgotten
  /\ step \in {"retire", "seed", "restart"} => crash = "erased"
  /\ step \in {"seed", "restart"} => retire = "erased" /\ ~saving

GoneInv ==
  /\ "hist" \in gone => hist = "erased" /\ forgotten
  /\ ~released =>
       /\ "cfg" \in gone => latch /\ cfg # "data"
       /\ "retire" \in gone => "cfg" \in gone /\ retire = "erased" /\ ~saving

RaceInv == latch /\ ~raced => \A s \in Sites : other[s] # "go"

IInv == TypeOK /\ StepInv /\ GoneInv /\ RaceInv

=============================================================================
