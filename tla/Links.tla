------------------------------- MODULE Links -------------------------------
(***************************************************************************)
(* How the bridge gets a network (net.cpp, wifi.cpp).  A boot asks the     *)
(* wire, then the station, then opens the setup portal.  POST /set_wifi    *)
(* keeps the old credentials as a one-shot backup; the next boot is the    *)
(* trial of the new ones and may give them up.  Once online, a drop is     *)
(* reconnected for ever, a watchdog breaks an association that lives on    *)
(* without a network, and a board whose wire is gone restarts onto WiFi.   *)
(*                                                                         *)
(* A driver event and its handler are one step, and so is a save; the      *)
(* waits, the decisions after them and the probes are steps of their own.  *)
(* Left out: the pins and the SPI probe of the wired controller, mDNS, the *)
(* failure to create one of the tasks, and the scan.                       *)
(***************************************************************************)
EXTENDS Integers

CONSTANTS
  Creds,       \* SSIDs with their passwords
  MaxRetry,    \* MAX_RETRY: attempts of a boot that was never online
  Window,      \* WIFI_BOOT_WINDOW_S, in clock ticks
  Grace,       \* WIFI_ROLLBACK_GRACE_S, in boot windows
  AuthLimit,   \* WIFI_AUTH_TO_ROLLBACK
  SilentLimit, \* WD_UNREACHABLE_TO_REASSOC
  BlindLimit,  \* WD_BLIND_TO_REASSOC
  DownLimit    \* ETH_FALLBACK_PERIODS

ASSUME LinksAssumption ==
  /\ {MaxRetry, Window, Grace, AuthLimit, SilentLimit, BlindLimit, DownLimit} \subseteq Nat \ {0}
  /\ AuthLimit <= Grace

VARIABLES
  flash,    \* the stored settings, as far as they name a network
  cfg,      \* the same in RAM
  keep,     \* config_stored_blob_unreadable(): cfg is only a fallback
  boot,     \* how far the boot task has come, and its locals
  sta,      \* the station, with what on_wifi keeps of its events
  gateway,  \* the gateway watchdog, and whether the LAN is dead
  wire,     \* the Ethernet lease, and the periods without it
  seen      \* history: what the access point said, and for how long

linkVars == <<flash, cfg, keep, boot, sta, gateway, wire, seen>>

Nobody == "none"
Settings == [ssid: Creds \cup {Nobody}, backup: Creds \cup {Nobody},
             active: BOOLEAN, told: BOOLEAN]
Serving == {"online", "wired", "portal"}

Capped(n, cap) == IF n > cap THEN cap ELSE n
Leased == sta.at = "leased"
Carries(link) == link \in {boot.pc} \cup (IF boot.pc = "restart" THEN {boot.back} ELSE {})

Off     == [at |-> "off", trying |-> FALSE, ever |-> FALSE, retry |-> 0,
            fail |-> FALSE, reason |-> "none"]
AsksWire(back) == [pc |-> "wire", back |-> back, lease |-> FALSE, fail |-> FALSE,
                   trial |-> FALSE, ticks |-> 0, elapsed |-> 0, auth |-> 0]
Unproven == [probing |-> FALSE, silent |-> 0, blind |-> 0, verified |-> FALSE, dead |-> FALSE]
Unseen(n) == [said |-> "none", age |-> 0, refusals |-> 0, rollbacks |-> n]

LinkInit ==
  /\ \E c \in Creds \cup {Nobody} :
       flash = [ssid |-> c, backup |-> Nobody, active |-> FALSE, told |-> FALSE]
  /\ cfg = flash /\ keep = FALSE
  /\ boot = AsksWire("portal") /\ sta = Off /\ gateway = Unproven
  /\ wire = [lease |-> FALSE, down |-> 0]
  /\ seen = Unseen(0)

-----------------------------------------------------------------------------
(* Resets and the settings                                                  *)

(* A stored blob that cannot be used is kept, and older settings run.       *)
Boots ==
  /\ keep' \in BOOLEAN
  /\ cfg' \in IF keep' THEN {[ssid |-> a, backup |-> b, active |-> TRUE, told |-> FALSE] :
                                a, b \in Creds} ELSE {flash}
  /\ boot' = AsksWire("portal") /\ sta' = Off /\ gateway' = Unproven
  /\ wire' = [lease |-> FALSE, down |-> 0]
  /\ seen' = Unseen(seen.rollbacks)
  /\ UNCHANGED flash

(* Power or any other reset; and the restart a task asked for.              *)
Loses     == boot.pc # "restart" /\ Boots
LRestarts == boot.pc = "restart" /\ Boots

(* nvs_restart_held_by_factory_reset: the restart is the reset's own.       *)
LHeld ==
  /\ boot.pc = "restart" /\ boot' = [boot EXCEPT !.pc = boot.back]
  /\ sta' = IF boot.back = "portal" THEN Off ELSE sta
  /\ UNCHANGED <<flash, cfg, keep, gateway, wire, seen>>

(* config_save: it lands, or fails, or fails and is written all the same.   *)
Saved(new, how) ==
  /\ flash' = IF how = "failed" THEN flash ELSE new
  /\ cfg' = IF how = "ok" THEN new ELSE cfg
Outcomes == {"ok", "failed", "through"}

Changed(c) ==
  [ssid |-> c, backup |-> cfg.ssid, active |-> cfg.ssid # Nobody, told |-> FALSE]

(* POST /set_wifi.                                                          *)
SetsWifi ==
  /\ boot.pc \in Serving
  /\ \E c \in Creds, how \in Outcomes :
       /\ Saved(Changed(c), how)
       /\ keep' = (keep /\ how # "ok")
       /\ boot' = IF how = "ok" THEN [boot EXCEPT !.pc = "restart", !.back = boot.pc] ELSE boot
       /\ seen' = [seen EXCEPT !.rollbacks = IF how = "failed" THEN @ ELSE 0]
  /\ UNCHANGED <<sta, gateway, wire>>

(* Any other save writes the whole configuration, a change under trial in   *)
(* it too.                                                                  *)
SavesAll ==
  /\ boot.pc \in Serving
  /\ flash' = cfg /\ keep' = FALSE
  /\ seen' = [seen EXCEPT !.rollbacks = IF cfg.active THEN 0 ELSE @]
  /\ UNCHANGED <<cfg, boot, sta, gateway, wire>>

-----------------------------------------------------------------------------
(* The wire                                                                 *)

WireOnly == UNCHANGED <<flash, cfg, keep, sta, gateway, seen>>

WireLeases == ~wire.lease /\ wire' = [wire EXCEPT !.lease = TRUE] /\ WireOnly /\ UNCHANGED boot
WireLost   == wire.lease /\ wire' = [wire EXCEPT !.lease = FALSE] /\ WireOnly /\ UNCHANGED boot

(* The event bit follows the lease; the wait returns it as it was.          *)
WireWaits ==
  /\ boot.pc = "wire"
  /\ boot' = [boot EXCEPT !.pc = "wired?", !.lease = wire.lease]
  /\ UNCHANGED wire /\ WireOnly

EthBootReady(got) == got /\ wire.lease

Station == [Off EXCEPT !.at = "seeking", !.trying = TRUE]
Trial   == cfg.active /\ cfg.backup # Nobody

(* net_eth_boot_ready, then net_wifi_start_needed and net_portal_needed;    *)
(* the station may have no memory to start with.                            *)
WireJudged ==
  /\ boot.pc = "wired?"
  /\ \E starts \in BOOLEAN :
       LET pc == IF EthBootReady(boot.lease) THEN "wired"
                 ELSE IF cfg.ssid # Nobody /\ starts THEN "waiting" ELSE "portal"
       IN  /\ boot' = [boot EXCEPT !.pc = pc, !.lease = FALSE, !.trial = pc = "waiting" /\ Trial]
           /\ sta' = IF pc = "waiting" THEN Station ELSE Off
  /\ UNCHANGED <<flash, cfg, keep, gateway, wire, seen>>

Fallback(n) == IF n + 1 < DownLimit THEN n + 1 ELSE 0

(* eth_fallback_task: an update under way defers the restart, and the watch *)
(* earns its verdict anew.                                                  *)
FallbackPeriod(busy) ==
  /\ Carries("wired")
  /\ IF wire.lease \/ cfg.ssid = Nobody
     THEN wire' = [wire EXCEPT !.down = 0] /\ UNCHANGED boot
     ELSE /\ wire' = [wire EXCEPT !.down = Fallback(@)]
          /\ boot' = IF wire.down + 1 >= DownLimit /\ ~busy
                     THEN [boot EXCEPT !.pc = "restart", !.back = "wired"] ELSE boot
  /\ WireOnly

-----------------------------------------------------------------------------
(* on_wifi                                                                  *)

StaOnly == UNCHANGED <<flash, cfg, keep, boot, wire>>

Associated(s) == [s EXCEPT !.at = "associated", !.trying = FALSE, !.reason = "none"]

Associates ==
  /\ sta.trying
  /\ sta' = Associated(sta)
  /\ seen' = [seen EXCEPT !.said = "accepted"]
  /\ UNCHANGED gateway /\ StaOnly

Dropped(s, why, trial) ==
  IF ~s.ever /\ s.retry >= MaxRetry /\ ~trial
  THEN [s EXCEPT !.at = "seeking", !.trying = FALSE, !.reason = why, !.fail = TRUE]
  ELSE [s EXCEPT !.at = "seeking", !.trying = TRUE, !.reason = why, !.retry = Capped(@ + 1, MaxRetry)]

Disconnected(why) ==
  /\ sta.trying \/ sta.at \in {"associated", "leased"}
  /\ sta' = Dropped(sta, why, boot.trial)
  /\ seen' = [seen EXCEPT !.said = why]
  /\ gateway' = [gateway EXCEPT !.dead = FALSE]

Disconnects(why) == Disconnected(why) /\ StaOnly

Leases ==
  /\ sta.at = "associated"
  /\ sta' = [sta EXCEPT !.at = "leased", !.ever = TRUE, !.retry = 0]
  /\ UNCHANGED <<gateway, seen>> /\ StaOnly

(* DHCP gets the next lease by itself.                                      *)
LosesLease ==
  /\ Leased
  /\ sta' = [sta EXCEPT !.at = "associated"]
  /\ gateway' = [gateway EXCEPT !.dead = FALSE]
  /\ UNCHANGED seen /\ StaOnly

(* A missed deauthentication: the link claims to be up and is not.          *)
GoesGhost ==
  /\ Leased /\ Carries("online")
  /\ gateway' = [gateway EXCEPT !.dead = TRUE]
  /\ UNCHANGED <<sta, seen>> /\ StaOnly

-----------------------------------------------------------------------------
(* wifi_wait_sta_connected                                                  *)

BootOnly == UNCHANGED <<flash, cfg, keep, sta, gateway, wire>>

Ticks ==
  /\ boot.pc \in {"waiting", "judging"} /\ boot.ticks < Window
  /\ boot' = [boot EXCEPT !.ticks = @ + 1]
  /\ seen' = [seen EXCEPT !.age = Capped(@ + 1, Grace * Window)]
  /\ BootOnly

Wakes ==
  /\ boot.pc = "waiting" /\ (Leased \/ sta.fail \/ boot.ticks = Window)
  /\ boot' = [boot EXCEPT !.pc = "judging", !.lease = Leased, !.fail = sta.fail]
  /\ UNCHANGED seen /\ BootOnly

WaitsOn(b) == [b EXCEPT !.pc = "waiting", !.lease = FALSE]

(* rollback_step, at a checkpoint of a trial.                               *)
StreakKept(n, why) == IF why = "refused" THEN n + 1 ELSE n   \* mutant
Streak(n, why) == IF why = "refused" THEN n + 1 ELSE 0
GivesUp(n, elapsed) == n >= AuthLimit \/ elapsed >= Grace

(* A lease that came and went is neither success nor a checkpoint.          *)
Judges ==
  /\ boot.pc = "judging"
  /\ IF boot.lease /\ Leased
     THEN boot' = [boot EXCEPT !.pc = "succeeded"] /\ UNCHANGED seen
     ELSE IF ~boot.fail /\ boot.ticks < Window
     THEN boot' = WaitsOn(boot) /\ UNCHANGED seen
     ELSE LET n    == Streak(boot.auth, sta.reason)
              over == boot.fail \/ ~boot.trial \/ GivesUp(n, boot.elapsed + 1)
          IN  /\ boot' = [boot EXCEPT
                   !.pc = IF ~over THEN "waiting" ELSE IF boot.trial THEN "failed" ELSE "portal",
                   !.lease = FALSE, !.ticks = 0, !.elapsed = Capped(@ + 1, Grace),
                   !.auth = Capped(n, AuthLimit)]
              /\ seen' = [seen EXCEPT
                   !.refusals = IF seen.said = "refused" THEN Capped(@ + 1, AuthLimit) ELSE 0]
  /\ sta' = IF boot'.pc = "portal" THEN Off ELSE sta
  /\ UNCHANGED <<flash, cfg, keep, gateway, wire>>

Restored == [ssid |-> cfg.backup, backup |-> Nobody, active |-> FALSE, told |-> TRUE]

AfterRollback(how) == IF how = "ok" THEN "restart" ELSE "portal"

(* wifi_finish_sta_rollback; a lease that came meanwhile is given up too.   *)
RollsBack ==
  /\ boot.pc = "failed"
  /\ \E how \in IF keep THEN {"failed"} ELSE Outcomes :
       /\ Saved(Restored, how)
       /\ boot' = [boot EXCEPT !.pc = AfterRollback(how), !.back = "portal"]
       /\ sta' = IF boot'.pc = "portal" THEN Off ELSE sta
       /\ seen' = [seen EXCEPT !.rollbacks = IF boot'.pc = "restart" THEN Capped(@ + 1, 2) ELSE @]
  /\ UNCHANGED <<keep, gateway, wire>>

Committed == [cfg EXCEPT !.backup = Nobody, !.active = FALSE]

(* wifi_finish_sta_success; the watchdog starts now.                        *)
Succeeds ==
  /\ boot.pc = "succeeded"
  /\ IF cfg.active /\ ~keep THEN \E how \in Outcomes : Saved(Committed, how)
                            ELSE UNCHANGED <<flash, cfg>>
  /\ boot' = [boot EXCEPT !.pc = "online", !.lease = FALSE, !.trial = FALSE,
                          !.ticks = 0, !.elapsed = 0, !.auth = 0]
  /\ seen' = Unseen(seen.rollbacks)
  /\ UNCHANGED <<keep, sta, gateway, wire>>

-----------------------------------------------------------------------------
(* The gateway watchdog                                                     *)

ProbeBegins ==
  /\ Carries("online") /\ ~gateway.probing
  /\ gateway' = IF Leased THEN [gateway EXCEPT !.probing = TRUE]
                          ELSE [gateway EXCEPT !.silent = 0, !.blind = 0]
  /\ UNCHANGED <<sta, seen>> /\ StaOnly

(* link_watch_step.                                                         *)
StepLaunders(g, probe) ==                                \* mutant
  IF probe = "reachable" THEN [g EXCEPT !.silent = 0, !.blind = 0, !.verified = TRUE]
  ELSE IF probe = "silent" THEN [g EXCEPT !.blind = 0, !.silent = Capped(@ + 1, SilentLimit)]
  ELSE [g EXCEPT !.silent = 0, !.blind = Capped(@ + 1, BlindLimit)]
LinkWatchStep(g, probe) ==
  IF probe = "reachable" THEN [g EXCEPT !.silent = 0, !.blind = 0, !.verified = TRUE]
  ELSE IF probe = "silent" THEN [g EXCEPT !.blind = 0, !.silent = Capped(@ + 1, SilentLimit)]
  ELSE [g EXCEPT !.blind = Capped(@ + 1, BlindLimit)]
Due(g) == g.verified /\ (g.silent >= SilentLimit \/ g.blind >= BlindLimit)
Spent(g) == [g EXCEPT !.silent = IF @ >= SilentLimit THEN 0 ELSE @,
                      !.blind  = IF @ >= BlindLimit THEN 0 ELSE @]

(* The link may have changed since the probe began; the disconnect is       *)
(* reported like any other, and on_wifi connects anew.                      *)
ProbeEnds(probe) ==
  /\ Carries("online") /\ gateway.probing
  /\ probe = "reachable" => Leased /\ ~gateway.dead
  /\ LET g == [LinkWatchStep(gateway, probe) EXCEPT !.probing = FALSE]
     IN  IF Due(g) /\ probe # "reachable"
         THEN /\ gateway' = [Spent(g) EXCEPT !.dead = FALSE]
              /\ sta' = Dropped(sta, "silent", FALSE)
         ELSE gateway' = g /\ UNCHANGED sta
  /\ UNCHANGED seen /\ StaOnly

-----------------------------------------------------------------------------
LinkNext ==
  \/ Loses \/ LRestarts \/ LHeld \/ SetsWifi \/ SavesAll
  \/ WireLeases \/ WireLost \/ WireWaits \/ WireJudged
  \/ \E busy \in BOOLEAN : FallbackPeriod(busy)
  \/ Associates \/ \E why \in {"refused", "silent"} : Disconnects(why)
  \/ Leases \/ LosesLease \/ GoesGhost
  \/ Ticks \/ Wakes \/ Judges \/ RollsBack \/ Succeeds
  \/ ProbeBegins \/ \E probe \in {"reachable", "silent", "unmeasured"} : ProbeEnds(probe)

(* Tasks run, their timers fire, and an update or a factory reset does not  *)
(* hold every restart.                                                      *)
LinkFairness ==
  /\ WF_linkVars(WireWaits) /\ WF_linkVars(WireJudged)
  /\ WF_linkVars(Ticks) /\ WF_linkVars(Wakes) /\ WF_linkVars(Judges)
  /\ WF_linkVars(RollsBack) /\ WF_linkVars(Succeeds)
  /\ WF_linkVars(ProbeBegins)
  /\ WF_linkVars(\E probe \in {"reachable", "silent", "unmeasured"} : ProbeEnds(probe))
  /\ WF_linkVars(LRestarts \/ LHeld)
  /\ WF_linkVars(\E busy \in BOOLEAN : FallbackPeriod(busy))
  /\ SF_linkVars(wire.down + 1 >= DownLimit /\ FallbackPeriod(FALSE))

LinkSpec == LinkInit /\ [][LinkNext]_linkVars /\ LinkFairness

-----------------------------------------------------------------------------
LinkTypeOK ==
  /\ {flash, cfg} \subseteq Settings /\ keep \in BOOLEAN
  /\ boot \in [pc: Serving \cup {"wire", "wired?", "waiting", "judging", "failed",
                               "succeeded", "restart"},
               back: Serving, lease: BOOLEAN, fail: BOOLEAN, trial: BOOLEAN,
               ticks: 0 .. Window, elapsed: 0 .. Grace, auth: 0 .. AuthLimit]
  /\ sta \in [at: {"off", "seeking", "associated", "leased"}, trying: BOOLEAN, ever: BOOLEAN,
              retry: 0 .. MaxRetry, fail: BOOLEAN, reason: {"none", "refused", "silent"}]
  /\ gateway \in [probing: BOOLEAN, silent: 0 .. SilentLimit, blind: 0 .. BlindLimit,
                  verified: BOOLEAN, dead: BOOLEAN]
  /\ wire \in [lease: BOOLEAN, down: 0 .. DownLimit - 1]
  /\ seen \in [said: {"none", "accepted", "refused", "silent"}, age: 0 .. Grace * Window,
               refusals: 0 .. AuthLimit, rollbacks: 0 .. 2]

(* New credentials are given up only after the access point's own refusal   *)
(* stood at two checkpoints a window apart, or the whole grace went by      *)
(* without a lease; a transient refusal, a lease that flickers or settings  *)
(* that could not be read never cost them.  What comes back is the backup.  *)
(* And one change of credentials costs one such restart: a restore that was *)
(* not saved opens the portal, it never loops (docs/API.md:500).            *)
Evident ==
  \/ seen.age >= Grace * Window
  \/ seen.refusals >= AuthLimit /\ seen.age >= AuthLimit * Window
GoodCredentialsKept ==
  [][/\ boot.pc = "failed" /\ flash' # flash => ~keep /\ Evident /\ flash'.ssid = cfg.backup
     /\ seen'.rollbacks <= 1]_linkVars

(* The bridge is never stranded.  A boot that is not cut off comes to a     *)
(* network or to the setup portal, however a lease flickers meanwhile; a    *)
(* link once up is always being reconnected while it is down; the watchdog  *)
(* breaks an association to a dead network, whatever mixture of silent and  *)
(* unmeasurable probes it gets; and a wire gone for good is left for a      *)
(* configured WiFi (logic/link_watch.hpp:68, wifi.cpp:110).                 *)
Uncut == <>[][boot'.pc = "wire" => boot.pc \in {"wire", "restart"}]_linkVars
LinkRecovers ==
  /\ Uncut => []<>(boot.pc \in Serving)
  /\ [](Carries("online") /\ sta.at = "seeking" => sta.trying)
  /\ (gateway.dead /\ gateway.verified) ~> ~gateway.dead
  /\ ~<>[](boot.pc = "wired" /\ ~wire.lease /\ cfg.ssid # Nobody)
=============================================================================
