-------------------------------- MODULE Ota --------------------------------
(***************************************************************************)
(* Firmware updates (ota_update.cpp): HTTP clients ask for a check, for    *)
(* the install of what a check found, or for a local upload; one worker    *)
(* runs one operation at a time; a fresh image is on probation under the   *)
(* health gate until it is committed.  The feed may serve another artifact *)
(* at every fetch, every step may fail, and the board may reset at any     *)
(* point.  The latch of a factory reset holds restarts and new operations. *)
(*                                                                         *)
(* An artifact stands for its version, its SHA-256 and its bytes; a slot   *)
(* holds an artifact, or None when it is erased or partly written.         *)
(***************************************************************************)
EXTENDS Naturals

CONSTANTS
  Artifacts, None,
  Ver,            \* version of each artifact
  Signed,         \* those with a valid signature and structure
  Factory,        \* the image of a new board
  MaxGen,         \* UINT32_MAX
  BaseWindow,     \* kHealthBaseWindowS, in gate cycles
  HardCap         \* kHealthHardCapS, in gate cycles

ASSUME OtaAssumption ==
  /\ None \notin Artifacts /\ Ver \in [Artifacts -> Nat]
  /\ Signed \subseteq Artifacts /\ Factory \in Signed
  /\ MaxGen \in Nat \ {0} /\ BaseWindow \in Nat /\ HardCap \in Nat
  /\ BaseWindow < HardCap

VARIABLES
  slot, img,      \* flash: content and otadata state of the two slots
  sel,            \* flash: the slot otadata selects
  run,            \* the slot this boot runs from
  busy, gen,      \* s_busy, s_generation
  mode, offerGen, offerArt,         \* s_task_args: its mode and its offer
  state, avail, newer, older,       \* s_status
  pc,             \* the worker
  got,            \* the artifact the worker has fetched or is writing
  uploading,      \* an accepted upload still owes its HTTP answer
  heldInstall,    \* s_install_held
  latch,          \* nvs_factory_reset_latched
  gate, gaveUp, age,  \* health_gate_task: its step, gave_up, elapsed cycles
  netWait,        \* eth_fallback_task has decided to restart
  \* History:
  named,          \* the artifact the accepted request names
  ckGen, ckArt    \* what the last check published, until superseded

flash  == <<slot, img, sel, run>>
task   == <<busy, gen, mode, offerGen, offerArt, named>>
status == <<state, avail, newer, older>>
work   == <<pc, got, uploading, heldInstall>>
health == <<gate, gaveUp, age>>
check  == <<ckGen, ckArt>>
vars   == <<flash, task, status, work, latch, health, netWait, check>>

-----------------------------------------------------------------------------
Slots      == {0, 1}
Other(s)   == 1 - s
Installs   == {"update", "down"}

(* ota_install_allowed *)
InstallAllowed(a, downgrade) ==
  IF downgrade THEN Ver[a] # Ver[slot[run]] ELSE Ver[a] > Ver[slot[run]]

Fresh ==
  /\ busy = FALSE /\ gen = 0 /\ mode = "check" /\ offerGen = 0 /\ offerArt = None
  /\ state = "idle" /\ avail = None /\ newer = FALSE /\ older = FALSE
  /\ pc = "idle" /\ got = None /\ uploading = FALSE /\ heldInstall = FALSE
  /\ latch = FALSE /\ gaveUp = FALSE /\ age = 0 /\ netWait = FALSE
  /\ named = None /\ ckGen = 0 /\ ckArt = None

Init ==
  /\ slot = [s \in Slots |-> IF s = 0 THEN Factory ELSE None]
  /\ img = [s \in Slots |-> IF s = 0 THEN "valid" ELSE "aborted"]
  /\ sel = 0 /\ run = 0
  /\ Fresh /\ gate = "off"

-----------------------------------------------------------------------------
(* Restarts *)

(* The boot loader: a selected image that was on probation already is       *)
(* rolled back, one that does not verify is passed over, and a new one      *)
(* starts its probation.                                                    *)
Bootable(s) == slot[s] \in Signed

Boots ==
  LET first == IF img[sel] = "pending" THEN Other(sel) ELSE sel
  IN IF Bootable(first) THEN first ELSE Other(first)

BootLoader ==
  /\ run' = Boots /\ sel' = Boots /\ slot' = slot
  /\ img' = [s \in Slots |->
       IF img[s] = "pending" THEN "aborted"
       ELSE IF s = Boots /\ img[s] = "new" THEN "pending"
       ELSE img[s]]

(* Whatever restarts the board.  ota_health_gate_arm may fail to create its *)
(* task.                                                                    *)
Reset ==
  /\ BootLoader
  /\ busy' = FALSE /\ gen' = 0 /\ mode' = "check" /\ offerGen' = 0
  /\ offerArt' = None /\ named' = None
  /\ state' = "idle" /\ avail' = None /\ newer' = FALSE /\ older' = FALSE
  /\ pc' = "idle" /\ got' = None /\ uploading' = FALSE /\ heldInstall' = FALSE
  /\ latch' = FALSE /\ gaveUp' = FALSE /\ age' = 0 /\ netWait' = FALSE
  /\ ckGen' = 0 /\ ckArt' = None
  /\ gate' \in IF img'[run'] = "pending" THEN {"watch", "off"} ELSE {"off"}

(* nvs_erase_all sets the latch, and gives it back on failure. *)
Latch ==
  /\ latch' = ~latch
  /\ UNCHANGED <<flash, task, status, work, health, netWait, check>>

-----------------------------------------------------------------------------
(* Requests, on the one httpd task *)

NextGenerationPlain == gen + 1                            \* mutant
NextGeneration == IF gen = MaxGen THEN 1 ELSE gen + 1

StartAllowedHeld == ~busy /\ ~latch                       \* mutant
StartAllowed     == ~busy /\ ~heldInstall /\ ~latch

(* start_locked *)
Start(m) ==
  /\ StartAllowed
  /\ busy' = TRUE /\ gen' = NextGeneration /\ mode' = m
  /\ pc' = "accepted" /\ got' = None
  /\ UNCHANGED <<flash, avail, newer, older, heldInstall, latch, health, netWait>>

(* start_check *)
Check ==
  /\ Start("check")
  /\ offerGen' = 0 /\ offerArt' = None /\ named' = None
  /\ ckGen' = 0 /\ ckArt' = None
  /\ UNCHANGED <<state, uploading>>

(* start_update: the request names the generation of the check it saw and   *)
(* the artifact; both have to be the retained offer's.                      *)
Offered(after, art, downgrade) ==
  /\ gen = after /\ state = "idle" /\ avail = art
  /\ newer \/ (downgrade /\ older)
  /\ offerGen = after /\ offerArt = art

Update(after, art, downgrade) ==
  /\ Offered(after, art, downgrade)
  /\ Start(IF downgrade THEN "down" ELSE "update")
  /\ named' = art
  /\ UNCHANGED <<offerGen, offerArt, state, uploading, check>>

(* ota_upload_async *)
Upload(art) ==
  /\ Start("upload")
  /\ offerGen' = 0 /\ offerArt' = art /\ named' = art
  /\ ckGen' = 0 /\ ckArt' = None
  /\ state' = "updating" /\ uploading' = TRUE

-----------------------------------------------------------------------------
(* The worker *)

(* Every return with set_state("error"), and the catch clauses of ota_task. *)
Fail ==
  /\ pc \in {"accepted", "manifest", "publish", "begin", "write", "verify",
             "select"}
  /\ state' = "error" /\ pc' = "finish"
  /\ UNCHANGED <<flash, task, avail, newer, older, got, uploading, heldInstall,
                 latch, health, netWait, check>>

(* Everybody has quiesced; run_check, run_update or run_upload begins. *)
Dispatch ==
  /\ pc = "accepted"
  /\ pc' = IF mode = "upload" THEN "begin" ELSE "manifest"
  /\ state' = IF mode = "upload" THEN "updating" ELSE "checking"
  /\ avail' = IF mode = "upload" THEN None ELSE avail
  /\ newer' = (newer /\ mode # "upload")
  /\ older' = (older /\ mode # "upload")
  /\ UNCHANGED <<flash, task, got, uploading, heldInstall, latch, health,
                 netWait, check>>

(* run_check: the manifest is fetched, then its notes ... *)
CheckFetch ==
  /\ pc = "manifest" /\ mode = "check"
  /\ got' \in Artifacts
  /\ pc' = "publish"
  /\ UNCHANGED <<flash, task, status, uploading, heldInstall, latch, health,
                 netWait, check>>

(* ... a failure withdraws the previous offer ... *)
CheckFails ==
  /\ pc \in {"manifest", "publish"} /\ mode = "check"
  /\ state' = "error" /\ avail' = None /\ newer' = FALSE /\ older' = FALSE
  /\ offerGen' = 0 /\ offerArt' = None
  /\ pc' = "finish"
  /\ UNCHANGED <<flash, busy, gen, mode, named, got, uploading, heldInstall,
                 latch, health, netWait, check>>

(* ... and the offer, the status and the generation change together. *)
CheckPublish ==
  /\ pc = "publish"
  /\ state' = "idle" /\ avail' = got
  /\ newer' = InstallAllowed(got, FALSE)
  /\ older' = (~InstallAllowed(got, FALSE) /\ InstallAllowed(got, TRUE))
  /\ offerGen' = gen /\ offerArt' = got /\ ckGen' = gen /\ ckArt' = got
  /\ pc' = "finish"
  /\ UNCHANGED <<flash, busy, gen, mode, named, got, uploading, heldInstall,
                 latch, health, netWait>>

(* run_update: the feed must still serve the artifact that was checked, and *)
(* the downgrade gate is asked again.                                       *)
UpdateManifest ==
  LET allowed == InstallAllowed(offerArt, mode = "down")
  IN /\ pc = "manifest" /\ mode \in Installs
     /\ avail' = offerArt /\ newer' = allowed /\ got' = None
     /\ state' = IF allowed THEN "updating" ELSE "error"
     /\ pc' = IF allowed THEN "begin" ELSE "finish"
     /\ UNCHANGED <<flash, task, older, uploading, heldInstall, latch, health,
                    netWait, check>>

(* The header of the image decides before the slot is touched: it must      *)
(* carry the version of the manifest, which an upload has none of.          *)
HeaderAccepted(a) ==
  mode \in Installs =>
    /\ Ver[a] = Ver[avail]
    /\ InstallAllowed(a, mode = "down")

(* esp_ota_begin refuses while the running image is on probation. *)
BeginAllowed == img[run] # "pending"

(* The first write erases the other slot. *)
WriteBegin ==
  /\ pc = "begin" /\ BeginAllowed
  /\ got' \in {a \in Artifacts : HeaderAccepted(a)}
  /\ slot' = [slot EXCEPT ![Other(run)] = None]
  /\ pc' = "write"
  /\ UNCHANGED <<img, sel, run, task, status, uploading, heldInstall, latch,
                 health, netWait, check>>

(* Another version in the header: refused, and the offer withdrawn. *)
HeaderRefused ==
  /\ pc = "begin" /\ BeginAllowed
  /\ \E a \in Artifacts : ~HeaderAccepted(a)
  /\ newer' = FALSE /\ state' = "error" /\ pc' = "finish"
  /\ UNCHANGED <<flash, task, avail, older, got, uploading, heldInstall, latch,
                 health, netWait, check>>

HashAny == got \in Artifacts                              \* mutant

(* The SHA-256 of the bytes received is the one the request named. *)
HashMatches == got = offerArt

WriteEnd ==
  /\ pc = "write"
  /\ slot' = [slot EXCEPT ![Other(run)] = got]
  /\ pc' = IF HashMatches THEN "verify" ELSE "finish"
  /\ state' = IF HashMatches THEN state ELSE "error"
  /\ UNCHANGED <<img, sel, run, task, avail, newer, older, got, uploading,
                 heldInstall, latch, health, netWait, check>>

(* activate_update: esp_ota_end verifies the image ... *)
Verify ==
  /\ pc = "verify" /\ got \in Signed
  /\ pc' = "select"
  /\ UNCHANGED <<flash, task, status, got, uploading, heldInstall, latch, health,
                 netWait, check>>

(* ... esp_ota_set_boot_partition selects it, and an upload is answered ... *)
Select ==
  /\ pc = "select"
  /\ sel' = Other(run) /\ img' = [img EXCEPT ![Other(run)] = "new"]
  /\ state' = "done" /\ uploading' = FALSE
  /\ pc' = "done"
  /\ UNCHANGED <<slot, run, task, avail, newer, older, got, heldInstall, latch,
                 health, netWait, check>>

(* ... and the board restarts, unless a factory reset holds it. *)
InstallRestart == pc = "done" /\ ~latch /\ Reset

InstallHeld ==
  /\ pc = "done" /\ latch
  /\ heldInstall' = TRUE /\ pc' = "finish"
  /\ UNCHANGED <<flash, task, status, got, uploading, latch, health, netWait,
                 check>>

(* The tail of ota_task. *)
Finish ==
  /\ pc = "finish"
  /\ uploading' = FALSE /\ busy' = FALSE /\ pc' = "idle" /\ got' = None
  /\ UNCHANGED <<flash, gen, mode, offerGen, offerArt, named, status,
                 heldInstall, latch, health, netWait, check>>

Worker ==
  \/ Fail \/ Dispatch \/ CheckFetch \/ CheckFails \/ CheckPublish
  \/ UpdateManifest \/ WriteBegin \/ HeaderRefused \/ WriteEnd
  \/ Verify \/ Select \/ InstallRestart \/ InstallHeld \/ Finish

-----------------------------------------------------------------------------
(* The health gate *)

(* health_gate_decide *)
Decide(healthy) ==
  IF age >= BaseWindow /\ healthy THEN "commit"
  ELSE IF age >= HardCap THEN "giveup" ELSE "wait"

Verdict(healthy) == IF gaveUp THEN "giveup" ELSE Decide(healthy)

GateCommit(healthy, ok) ==
  /\ gate = "watch" /\ Verdict(healthy) = "commit"
  /\ img' = IF ok THEN [img EXCEPT ![run] = "valid"] ELSE img
  /\ gate' = "end"
  /\ UNCHANGED <<slot, sel, run, task, status, work, latch, gaveUp, age, netWait,
                 check>>

GateWait(healthy) ==
  /\ gate = "watch" /\ Verdict(healthy) = "wait"
  /\ age' = age + 1
  /\ UNCHANGED <<flash, task, status, work, latch, gate, gaveUp, netWait, check>>

GateGiveUp(healthy) ==
  /\ gate = "watch" /\ Verdict(healthy) = "giveup"
  /\ gaveUp' = TRUE /\ gate' = "ask"
  /\ UNCHANGED <<flash, task, status, work, latch, age, netWait, check>>

(* The restart a second later, for which it keeps asking. *)
GateRestart == gate = "ask" /\ ~latch /\ Reset

GateHeldEnds ==                                           \* mutant
  /\ gate = "ask" /\ latch
  /\ gate' = "end"
  /\ UNCHANGED <<flash, task, status, work, latch, gaveUp, age, netWait, check>>

GateHeld ==
  /\ gate = "ask" /\ latch
  /\ gate' = "watch"
  /\ UNCHANGED <<flash, task, status, work, latch, gaveUp, age, netWait, check>>

Gate ==
  \/ \E healthy \in BOOLEAN :
       \/ GateWait(healthy) \/ GateGiveUp(healthy)
       \/ \E ok \in BOOLEAN : GateCommit(healthy, ok)
  \/ GateRestart \/ GateHeld

-----------------------------------------------------------------------------
(* eth_fallback_task: an update in progress or a latched factory reset      *)
(* defers its restart; after a drain of 500 ms only the latch is asked      *)
(* again.                                                                   *)
FallbackDecides ==
  /\ ~netWait /\ state # "updating" /\ ~latch
  /\ netWait' = TRUE
  /\ UNCHANGED <<flash, task, status, work, latch, health, check>>

FallbackHeld ==
  /\ netWait /\ latch
  /\ netWait' = FALSE
  /\ UNCHANGED <<flash, task, status, work, latch, health, check>>

FallbackRestart == netWait /\ ~latch /\ Reset

-----------------------------------------------------------------------------
Next ==
  \/ Reset \/ Latch \/ Check
  \/ \E after \in 1..MaxGen, art \in Artifacts, downgrade \in BOOLEAN :
       Update(after, art, downgrade)
  \/ \E art \in Artifacts : Upload(art)
  \/ Worker \/ Gate
  \/ FallbackDecides \/ FallbackHeld \/ FallbackRestart

(* Every wait of the worker is bounded, and both tasks are always scheduled. *)
Fairness == WF_vars(Worker) /\ WF_vars(Gate)

Spec == Init /\ [][Next]_vars /\ Fairness

-----------------------------------------------------------------------------
(* Properties *)

DataOK ==
  /\ slot \in [Slots -> Artifacts \cup {None}]
  /\ img \in [Slots -> {"valid", "new", "pending", "aborted"}]
  /\ sel \in Slots /\ run \in Slots
  /\ gen \in 0..MaxGen /\ offerGen \in 0..MaxGen /\ ckGen \in 0..MaxGen
  /\ mode \in {"check", "update", "down", "upload"}
  /\ offerArt \in Artifacts \cup {None} /\ named \in Artifacts \cup {None}
  /\ avail \in Artifacts \cup {None} /\ got \in Artifacts \cup {None}
  /\ ckArt \in Artifacts \cup {None}
  /\ state \in {"idle", "checking", "updating", "done", "error"}
  /\ pc \in {"idle", "accepted", "manifest", "publish", "begin", "write",
             "verify", "select", "done", "finish"}
  /\ gate \in {"off", "watch", "ask", "end"}
  /\ age \in 0..HardCap

FlagsOK ==
  /\ busy \in BOOLEAN /\ newer \in BOOLEAN /\ older \in BOOLEAN
  /\ uploading \in BOOLEAN /\ heldInstall \in BOOLEAN /\ latch \in BOOLEAN
  /\ gaveUp \in BOOLEAN /\ netWait \in BOOLEAN

(* Every variable has its type; the generation stays within its width.      *)
TypeOK == DataOK /\ FlagsOK

(* At every moment a reset boots a verified image: the selected slot is     *)
(* whole and signed, and while its image has not been committed the other   *)
(* slot is too, and valid.  An install whose restart a factory reset holds  *)
(* must not be overwritten by the next one (s_install_held).                *)
AlwaysBoots ==
  /\ Bootable(sel)
  /\ img[sel] # "valid" => Bootable(Other(sel)) /\ img[Other(sel)] = "valid"

(* What a feed install selects is the artifact its request named, that the  *)
(* last published check had found, and newer than the running one unless    *)
(* the request asked for a downgrade; although the feed may change between  *)
(* check, manifest and image.                                               *)
InstalledAsChecked ==
  pc = "done" /\ mode \in Installs =>
    /\ slot[sel] = named /\ named = ckArt /\ offerGen = ckGen
    /\ mode = "update" => Ver[slot[sel]] > Ver[slot[run]]
    /\ Ver[slot[sel]] # Ver[slot[run]]

(* An image the gate has given up on is not committed, however long a       *)
(* factory reset holds the restart and however healthy it looks meanwhile.  *)
GivenUpNotCommitted == gaveUp => img[run] = "pending"

(* Only what was asked for is installed, and only what proved itself kept.  *)
InstallExact == InstalledAsChecked /\ GivenUpNotCommitted

(* Every accepted operation ends, and every accepted upload is answered.    *)
OperationEnds == (busy \/ uploading) ~> (~busy /\ ~uploading)

(* The gate reaches a verdict, and one of giving up is carried out by a     *)
(* restart, except while a factory reset holds it: a reset that failed and  *)
(* gave the latch back must still see the bad image rolled back.            *)
ProbationEnds ==
  (gate = "watch" \/ gaveUp) ~> (latch \/ (gate # "watch" /\ ~gaveUp))

(* Neither the worker nor the gate waits for ever: the two above.           *)
OtaSettles == OperationEnds /\ ProbationEnds

(* What net.cpp:585-588 says: a fallback restart does not interrupt a       *)
(* download or an install.                                                  *)
FallbackSparesInstall == [][FallbackRestart => state # "updating"]_vars
-----------------------------------------------------------------------------
(* The strengthening that is inductive (OtaProofs) *)

(* The running slot boots; once an install has selected the other slot, and *)
(* only then, that one does too.                                            *)
BootInv ==
  /\ Bootable(run) /\ img[run] \in {"valid", "pending"}
  /\ img[run] = "pending" => Bootable(Other(run)) /\ img[Other(run)] = "valid"
  /\ sel # run => Bootable(sel) /\ img[sel] = "new" /\ img[run] = "valid"
  /\ sel # run => pc = "done" \/ heldInstall
  /\ pc = "done" \/ heldInstall => sel # run

(* What each step of the worker has established. *)
WorkInv ==
  /\ pc # "idle" => busy
  /\ heldInstall => pc \in {"finish", "idle"}
  /\ pc \in {"write", "verify", "select", "done"} => img[run] = "valid"
  /\ pc \in {"verify", "select"} => slot[Other(run)] = got
  /\ pc \in {"verify", "select", "done"} => got = offerArt
  /\ pc = "publish" => got \in Artifacts
  /\ pc = "select" => got \in Signed
  /\ pc = "done" => slot[sel] = got

(* The retained offer, the last check and the accepted request agree. *)
OfferInv ==
  /\ offerGen # 0 => offerGen = ckGen /\ offerArt = ckArt
  /\ pc = "publish" => mode = "check"
  /\ mode \in Installs => offerGen # 0 /\ named = offerArt /\ offerArt \in Artifacts
  /\ mode \in Installs /\ pc \in {"begin", "write", "verify", "select", "done"}
       => InstallAllowed(offerArt, mode = "down")

GateInv ==
  /\ gate \in {"watch", "ask"} => img[run] = "pending"
  /\ gaveUp => gate \in {"watch", "ask"}

IInv == TypeOK /\ BootInv /\ WorkInv /\ OfferInv /\ GateInv

=============================================================================
