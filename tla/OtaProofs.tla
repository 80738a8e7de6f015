----------------------------- MODULE OtaProofs ------------------------------
(* Proofs about the two modules of the run ota.  About Ota: IInv is         *)
(* inductive and implies the safety properties.  About HomeHub: HubIInv is, *)
(* a saved gateway has its one task, and what is served, shown and recorded *)
(* is of the gateway that is saved.  The two models share no variable.      *)
EXTENDS Ota, HomeHub, FiniteSetTheorems, TLAPS

(* The steps of Next within a boot, by the task that takes them; every      *)
(* other step is a restart.                                                 *)
RequestStep ==
  \/ Latch \/ Check
  \/ \E after \in 1..MaxGen, art \in Artifacts, downgrade \in BOOLEAN :
       Update(after, art, downgrade)
  \/ \E art \in Artifacts : Upload(art)

WorkerStep ==
  \/ Fail \/ Dispatch \/ CheckFetch \/ CheckFails \/ CheckPublish
  \/ UpdateManifest \/ WriteBegin \/ HeaderRefused \/ WriteEnd
  \/ Verify \/ Select \/ InstallHeld \/ Finish

GateStep ==
  \/ \E healthy \in BOOLEAN :
       \/ GateWait(healthy) \/ GateGiveUp(healthy)
       \/ \E ok \in BOOLEAN : GateCommit(healthy, ok)
  \/ GateHeld
  \/ FallbackDecides \/ FallbackHeld

LEMMA NextSplit == Next => Reset \/ RequestStep \/ WorkerStep \/ GateStep
BY Zenon DEF Next, Worker, Gate, RequestStep, WorkerStep, GateStep,
             InstallRestart, GateRestart, FallbackRestart

LEMMA AllowedIsBoolean ==
  ASSUME DataOK, BootInv, NEW a \in Artifacts, NEW d \in BOOLEAN
  PROVE  InstallAllowed(a, d) \in BOOLEAN
<1>1. Ver[a] \in Nat /\ Ver[slot[run]] \in Nat
  BY OtaAssumption DEF BootInv, Bootable
<1>2. CASE d BY <1>2, Zenon DEF InstallAllowed
<1>3. CASE ~d
  <2>1. InstallAllowed(a, d) <=> Ver[a] > Ver[slot[run]] BY <1>3 DEF InstallAllowed
  <2> QED BY <1>1, <1>3, <2>1 DEF InstallAllowed
<1> QED BY <1>2, <1>3

LEMMA SlotFacts ==
  /\ \A s \in Slots : Other(s) \in Slots /\ Other(s) # s /\ Other(Other(s)) = s
  /\ \A s, t \in Slots : t # s => t = Other(s)
BY DEF Slots, Other

-----------------------------------------------------------------------------
(* A new board, and every restart. *)
LEMMA InitIInv == Init => IInv
<1> SUFFICES ASSUME Init PROVE IInv OBVIOUS
<1> USE OtaAssumption DEF Init, Fresh, Slots, Other
<1>1. DataOK BY DEF DataOK
<1>2. FlagsOK BY DEF FlagsOK
<1>3. BootInv BY DEF BootInv, Bootable
<1>4. WorkInv BY DEF WorkInv
<1>5. OfferInv BY DEF OfferInv, Installs
<1>6. GateInv BY DEF GateInv
<1> QED BY <1>1, <1>2, <1>3, <1>4, <1>5, <1>6 DEF IInv, TypeOK

(* The boot loader finds a verified image, and leaves the other slot whole  *)
(* and valid when the one it starts is on probation.                        *)
LEMMA BootLoaderSafe ==
  ASSUME DataOK, BootInv, BootLoader
  PROVE  /\ run' \in Slots /\ sel' = run' /\ slot' = slot
         /\ img' \in [Slots -> {"valid", "new", "pending", "aborted"}]
         /\ slot[run'] \in Signed /\ img'[run'] \in {"valid", "pending"}
         /\ img'[run'] = "pending" =>
              slot[Other(run')] \in Signed /\ img'[Other(run')] = "valid"
<1> USE DEF DataOK, BootInv, Bootable, Slots, Other
<1>1. CASE sel = run /\ img[run] = "pending"
  <2>1. Boots = Other(run) BY <1>1 DEF Boots
  <2> QED BY <1>1, <2>1 DEF BootLoader
<1>2. CASE sel = run /\ img[run] = "valid"
  <2>1. Boots = run BY <1>2 DEF Boots
  <2> QED BY <1>2, <2>1 DEF BootLoader
<1>3. CASE sel # run
  <2>1. Boots = sel /\ sel = Other(run) BY <1>3 DEF Boots
  <2> QED BY <1>3, <2>1 DEF BootLoader
<1> QED BY <1>1, <1>2, <1>3

LEMMA ResetIInv == IInv /\ Reset => IInv'
<1> SUFFICES ASSUME IInv, Reset PROVE IInv' OBVIOUS
<1>0. /\ run' \in Slots /\ sel' = run' /\ slot' = slot
      /\ img' \in [Slots -> {"valid", "new", "pending", "aborted"}]
      /\ slot[run'] \in Signed /\ img'[run'] \in {"valid", "pending"}
      /\ img'[run'] = "pending" =>
           slot[Other(run')] \in Signed /\ img'[Other(run')] = "valid"
  BY BootLoaderSafe DEF IInv, TypeOK, Reset
<1>1. gate' \in {"watch", "off"} /\ (gate' = "watch" => img'[run'] = "pending")
  BY DEF Reset
<1>2. DataOK'
  BY <1>0, <1>1, OtaAssumption DEF Reset, IInv, TypeOK, DataOK
<1>3. FlagsOK' BY DEF Reset, FlagsOK
<1>4. BootInv' BY <1>0 DEF Reset, BootInv, Bootable
<1>5. WorkInv' BY DEF Reset, WorkInv
<1>6. OfferInv' BY DEF Reset, OfferInv, Installs
<1>7. GateInv' BY <1>1 DEF Reset, GateInv
<1> QED BY <1>2, <1>3, <1>4, <1>5, <1>6, <1>7 DEF IInv, TypeOK

-----------------------------------------------------------------------------
(* Type correctness of the steps within a boot.                             *)
LEMMA RequestType == TypeOK /\ RequestStep => TypeOK'
<1> SUFFICES ASSUME TypeOK, RequestStep PROVE TypeOK' OBVIOUS
<1> USE OtaAssumption DEF TypeOK, flash, task, status, work, health, check
<1>1. CASE Latch
  <2>1. DataOK' BY <1>1 DEF Latch, DataOK
  <2>2. FlagsOK' BY <1>1 DEF Latch, FlagsOK
  <2> QED BY <2>1, <2>2
<1>2. ASSUME NEW m \in {"check", "update", "down", "upload"}, Start(m)
      PROVE /\ gen' \in 0..MaxGen /\ mode' = m /\ pc' = "accepted"
            /\ got' = None /\ busy' = TRUE
  BY <1>2 DEF Start, NextGeneration, DataOK
<1>3. CASE Check
  <2>1. Start("check") BY <1>3 DEF Check
  <2>2. DataOK' BY <1>2, <1>3, <2>1 DEF Check, Start, DataOK
  <2>3. FlagsOK' BY <1>3 DEF Check, Start, FlagsOK
  <2> QED BY <2>2, <2>3
<1>4. ASSUME NEW after \in 1..MaxGen, NEW art \in Artifacts,
             NEW downgrade \in BOOLEAN, Update(after, art, downgrade)
      PROVE TypeOK'
  <2> DEFINE m == IF downgrade THEN "down" ELSE "update"
  <2>1. Start(m) BY <1>4 DEF Update
  <2>2. DataOK' BY <1>2, <1>4, <2>1 DEF Update, Start, DataOK
  <2>3. FlagsOK' BY <1>4 DEF Update, Start, FlagsOK
  <2> QED BY <2>2, <2>3
<1>5. ASSUME NEW art \in Artifacts, Upload(art) PROVE TypeOK'
  <2>1. Start("upload") BY <1>5 DEF Upload
  <2>2. DataOK' BY <1>2, <1>5, <2>1 DEF Upload, Start, DataOK
  <2>3. FlagsOK' BY <1>5 DEF Upload, Start, FlagsOK
  <2> QED BY <2>2, <2>3
<1> QED BY <1>1, <1>3, <1>4, <1>5, Zenon DEF RequestStep

LEMMA WorkerType == IInv /\ WorkerStep => TypeOK'
<1> SUFFICES ASSUME IInv, WorkerStep PROVE TypeOK' OBVIOUS
<1> USE OtaAssumption DEF IInv, TypeOK, flash, task, status, work, health, check
<1>1. CASE Fail
  <2>1. DataOK' BY <1>1 DEF Fail, DataOK
  <2>2. FlagsOK' BY <1>1 DEF Fail, FlagsOK
  <2> QED BY <2>1, <2>2
<1>2. CASE Dispatch
  <2>1. newer' \in BOOLEAN /\ older' \in BOOLEAN BY <1>2, Zenon DEF Dispatch
  <2>2. DataOK' BY <1>2, <2>1 DEF Dispatch, DataOK
  <2>3. FlagsOK' BY <1>2, <2>1 DEF Dispatch, FlagsOK
  <2> QED BY <2>2, <2>3
<1>3. CASE CheckFetch
  <2>1. DataOK' BY <1>3 DEF CheckFetch, DataOK
  <2>2. FlagsOK' BY <1>3 DEF CheckFetch, FlagsOK
  <2> QED BY <2>1, <2>2
<1>4. CASE CheckFails
  <2>1. DataOK' BY <1>4 DEF CheckFails, DataOK
  <2>2. FlagsOK' BY <1>4 DEF CheckFails, FlagsOK
  <2> QED BY <2>1, <2>2
<1>5. CASE CheckPublish
  <2>1. newer' \in BOOLEAN BY <1>5, AllowedIsBoolean DEF CheckPublish, WorkInv
  <2>2. older' \in BOOLEAN BY <1>5, Zenon DEF CheckPublish
  <2>3. DataOK' BY <1>5, <2>1, <2>2 DEF CheckPublish, DataOK
  <2>4. FlagsOK' BY <1>5, <2>1, <2>2 DEF CheckPublish, FlagsOK
  <2> QED BY <2>3, <2>4
<1>6. CASE UpdateManifest
  <2>1. newer' \in BOOLEAN 
    <3>1. offerArt \in Artifacts BY <1>6 DEF UpdateManifest, OfferInv
    <3>2. InstallAllowed(offerArt, mode = "down") \in BOOLEAN
      BY <3>1, AllowedIsBoolean, Zenon
    <3> QED BY <1>6, <3>2, Zenon DEF UpdateManifest
  <2>2. DataOK' BY <1>6, <2>1 DEF UpdateManifest, DataOK
  <2>3. FlagsOK' BY <1>6, <2>1 DEF UpdateManifest, FlagsOK
  <2> QED BY <2>2, <2>3
<1>7. CASE WriteBegin
  <2>1. got' \in Artifacts /\ slot' \in [Slots -> Artifacts \cup {None}]
    BY <1>7, SlotFacts DEF WriteBegin, DataOK
  <2>2. DataOK' BY <1>7, <2>1 DEF WriteBegin, DataOK
  <2>3. FlagsOK' BY <1>7, <2>1 DEF WriteBegin, FlagsOK
  <2> QED BY <2>2, <2>3
<1>8. CASE HeaderRefused
  <2>1. DataOK' BY <1>8 DEF HeaderRefused, DataOK
  <2>2. FlagsOK' BY <1>8 DEF HeaderRefused, FlagsOK
  <2> QED BY <2>1, <2>2
<1>9. CASE WriteEnd
  <2>1. slot' \in [Slots -> Artifacts \cup {None}] BY <1>9 DEF WriteEnd, DataOK
  <2>2. DataOK' BY <1>9, <2>1 DEF WriteEnd, DataOK
  <2>3. FlagsOK' BY <1>9, <2>1 DEF WriteEnd, FlagsOK
  <2> QED BY <2>2, <2>3
<1>10. CASE Verify
  <2>1. DataOK' BY <1>10 DEF Verify, DataOK
  <2>2. FlagsOK' BY <1>10 DEF Verify, FlagsOK
  <2> QED BY <2>1, <2>2
<1>11. CASE Select
  <2>1. sel' \in Slots /\ img' \in [Slots -> {"valid", "new", "pending", "aborted"}]
    BY <1>11, SlotFacts DEF Select, DataOK
  <2>2. DataOK' BY <1>11, <2>1 DEF Select, DataOK
  <2>3. FlagsOK' BY <1>11, <2>1 DEF Select, FlagsOK
  <2> QED BY <2>2, <2>3
<1>12. CASE InstallHeld
  <2>1. DataOK' BY <1>12 DEF InstallHeld, DataOK
  <2>2. FlagsOK' BY <1>12 DEF InstallHeld, FlagsOK
  <2> QED BY <2>1, <2>2
<1>13. CASE Finish
  <2>1. DataOK' BY <1>13 DEF Finish, DataOK
  <2>2. FlagsOK' BY <1>13 DEF Finish, FlagsOK
  <2> QED BY <2>1, <2>2
<1> QED BY <1>1, <1>2, <1>3, <1>4, <1>5, <1>6, <1>7, <1>8, <1>9, <1>10, <1>11,
           <1>12, <1>13, Zenon DEF WorkerStep

LEMMA GateType == TypeOK /\ GateStep => TypeOK'
<1> SUFFICES ASSUME TypeOK, GateStep PROVE TypeOK' OBVIOUS
<1> USE OtaAssumption DEF TypeOK, flash, task, status, work, health, check
<1>1. ASSUME NEW healthy \in BOOLEAN, GateWait(healthy) PROVE TypeOK'
  <2>1. age' \in 0..HardCap
    BY <1>1 DEF GateWait, Verdict, Decide, DataOK
  <2>2. DataOK' BY <1>1, <2>1 DEF GateWait, DataOK
  <2>3. FlagsOK' BY <1>1, <2>1 DEF GateWait, FlagsOK
  <2> QED BY <2>2, <2>3
<1>2. ASSUME NEW healthy \in BOOLEAN, GateGiveUp(healthy) PROVE TypeOK'
  <2>1. DataOK' BY <1>2 DEF GateGiveUp, DataOK
  <2>2. FlagsOK' BY <1>2 DEF GateGiveUp, FlagsOK
  <2> QED BY <2>1, <2>2
<1>3. ASSUME NEW healthy \in BOOLEAN, NEW ok \in BOOLEAN, GateCommit(healthy, ok)
      PROVE TypeOK'
  <2>1. img' \in [Slots -> {"valid", "new", "pending", "aborted"}]
    BY <1>3 DEF GateCommit, DataOK
  <2>2. DataOK' BY <1>3, <2>1 DEF GateCommit, DataOK
  <2>3. FlagsOK' BY <1>3, <2>1 DEF GateCommit, FlagsOK
  <2> QED BY <2>2, <2>3
<1>4. CASE GateHeld
  <2>1. DataOK' BY <1>4 DEF GateHeld, DataOK
  <2>2. FlagsOK' BY <1>4 DEF GateHeld, FlagsOK
  <2> QED BY <2>1, <2>2
<1>5. CASE FallbackDecides
  <2>1. DataOK' BY <1>5 DEF FallbackDecides, DataOK
  <2>2. FlagsOK' BY <1>5 DEF FallbackDecides, FlagsOK
  <2> QED BY <2>1, <2>2
<1>6. CASE FallbackHeld
  <2>1. DataOK' BY <1>6 DEF FallbackHeld, DataOK
  <2>2. FlagsOK' BY <1>6 DEF FallbackHeld, FlagsOK
  <2> QED BY <2>1, <2>2
<1> QED BY <1>1, <1>2, <1>3, <1>4, <1>5, <1>6, Zenon DEF GateStep

-----------------------------------------------------------------------------
(* The rest of the invariant.                                               *)
LEMMA RequestIInv == IInv /\ RequestStep => IInv'
<1> SUFFICES ASSUME IInv, RequestStep PROVE IInv' OBVIOUS
<1>0. TypeOK' BY RequestType DEF IInv
<1> SUFFICES BootInv' /\ WorkInv' /\ OfferInv' /\ GateInv' BY <1>0 DEF IInv
<1> USE DEF IInv, BootInv, WorkInv, OfferInv, GateInv, Bootable, Installs,
            flash, task, status, work, health, check
<1>1. CASE Latch
  <2>1. BootInv' /\ WorkInv' /\ GateInv' BY <1>1 DEF Latch
  <2>2. OfferInv' BY <1>1 DEF Latch, InstallAllowed
  <2> QED BY <2>1, <2>2
<1>2. CASE Check BY <1>2 DEF Check, Start, StartAllowed
<1>3. ASSUME NEW after \in 1..MaxGen, NEW art \in Artifacts,
             NEW downgrade \in BOOLEAN, Update(after, art, downgrade)
      PROVE BootInv' /\ WorkInv' /\ OfferInv' /\ GateInv'
  <2>1. after # 0 BY OtaAssumption
  <2> QED BY <1>3, <2>1 DEF Update, Offered, Start, StartAllowed
<1>4. ASSUME NEW art \in Artifacts, Upload(art)
      PROVE BootInv' /\ WorkInv' /\ OfferInv' /\ GateInv'
  BY <1>4 DEF Upload, Start, StartAllowed
<1> QED BY <1>1, <1>2, <1>3, <1>4, Zenon DEF RequestStep

(* Only Select and the writes touch the flash, and the writes only the      *)
(* other slot.                                                              *)
LEMMA WorkerBoot == IInv /\ WorkerStep => BootInv' /\ GateInv'
<1> SUFFICES ASSUME IInv, WorkerStep PROVE BootInv' /\ GateInv' OBVIOUS
<1>0. DataOK /\ SlotFacts!1 /\ SlotFacts!2 BY SlotFacts DEF IInv, TypeOK
<1> USE <1>0 DEF IInv, BootInv, WorkInv, GateInv, Bootable, flash, work, health
<1>1. CASE Fail BY <1>1 DEF Fail
<1>2. CASE Dispatch BY <1>2 DEF Dispatch
<1>3. CASE CheckFetch BY <1>3 DEF CheckFetch
<1>4. CASE CheckFails BY <1>4 DEF CheckFails
<1>5. CASE CheckPublish BY <1>5 DEF CheckPublish
<1>6. CASE UpdateManifest BY <1>6 DEF UpdateManifest
<1>7. CASE WriteBegin BY <1>7 DEF WriteBegin, BeginAllowed, DataOK
<1>8. CASE HeaderRefused BY <1>8 DEF HeaderRefused
<1>9. CASE WriteEnd BY <1>9 DEF WriteEnd, DataOK
<1>10. CASE Verify BY <1>10 DEF Verify
<1>11. CASE Select BY <1>11 DEF Select, DataOK
<1>12. CASE InstallHeld BY <1>12 DEF InstallHeld
<1>13. CASE Finish BY <1>13 DEF Finish
<1> QED BY <1>1, <1>2, <1>3, <1>4, <1>5, <1>6, <1>7, <1>8, <1>9, <1>10, <1>11,
           <1>12, <1>13, Zenon DEF WorkerStep

LEMMA WorkerWork == IInv /\ WorkerStep => WorkInv'
<1> SUFFICES ASSUME IInv, WorkerStep PROVE WorkInv' OBVIOUS
<1>0. DataOK /\ SlotFacts!1 /\ SlotFacts!2 BY SlotFacts DEF IInv, TypeOK
<1> USE <1>0 DEF IInv, BootInv, WorkInv, flash, task, work
<1>1. CASE Fail BY <1>1 DEF Fail
<1>2. CASE Dispatch BY <1>2 DEF Dispatch
<1>3. CASE CheckFetch BY <1>3 DEF CheckFetch
<1>4. CASE CheckFails BY <1>4 DEF CheckFails
<1>5. CASE CheckPublish BY <1>5 DEF CheckPublish
<1>6. CASE UpdateManifest BY <1>6 DEF UpdateManifest
<1>7. CASE WriteBegin BY <1>7 DEF WriteBegin, BeginAllowed
<1>8. CASE HeaderRefused BY <1>8 DEF HeaderRefused
<1>9. CASE WriteEnd BY <1>9 DEF WriteEnd, HashMatches, DataOK
<1>10. CASE Verify BY <1>10 DEF Verify
<1>11. CASE Select BY <1>11 DEF Select, DataOK
<1>12. CASE InstallHeld BY <1>12 DEF InstallHeld
<1>13. CASE Finish BY <1>13 DEF Finish
<1> QED BY <1>1, <1>2, <1>3, <1>4, <1>5, <1>6, <1>7, <1>8, <1>9, <1>10, <1>11,
           <1>12, <1>13, Zenon DEF WorkerStep

(* What the running slot holds decides InstallAllowed; no step but a        *)
(* restart changes it.                                                      *)
LEMMA WorkerRun == IInv /\ WorkerStep => slot'[run'] = slot[run] /\ run' = run
<1> SUFFICES ASSUME IInv, WorkerStep PROVE slot'[run'] = slot[run] /\ run' = run
    OBVIOUS
<1>0. DataOK /\ SlotFacts!1 BY SlotFacts DEF IInv, TypeOK
<1> USE <1>0 DEF flash
<1>1. CASE WriteBegin BY <1>1 DEF WriteBegin, DataOK
<1>2. CASE WriteEnd BY <1>2 DEF WriteEnd, DataOK
<1>3. CASE Select BY <1>3 DEF Select
<1> QED BY <1>1, <1>2, <1>3
        DEF WorkerStep, Fail, Dispatch, CheckFetch, CheckFails, CheckPublish,
            UpdateManifest, HeaderRefused, Verify, InstallHeld, Finish

LEMMA WorkerOffer == IInv /\ WorkerStep => OfferInv'
<1> SUFFICES ASSUME IInv, WorkerStep PROVE OfferInv' OBVIOUS
<1>0. slot'[run'] = slot[run] BY WorkerRun
<1> USE <1>0 DEF IInv, OfferInv, Installs, InstallAllowed, task, check
<1>1. CASE Fail BY <1>1 DEF Fail
<1>2. CASE Dispatch BY <1>2 DEF Dispatch
<1>3. CASE CheckFetch BY <1>3 DEF CheckFetch
<1>4. CASE CheckFails BY <1>4 DEF CheckFails
<1>5. CASE CheckPublish BY <1>5 DEF CheckPublish
<1>6. CASE UpdateManifest BY <1>6 DEF UpdateManifest
<1>7. CASE WriteBegin BY <1>7 DEF WriteBegin
<1>8. CASE HeaderRefused BY <1>8 DEF HeaderRefused
<1>9. CASE WriteEnd BY <1>9 DEF WriteEnd
<1>10. CASE Verify BY <1>10 DEF Verify
<1>11. CASE Select BY <1>11 DEF Select
<1>12. CASE InstallHeld BY <1>12 DEF InstallHeld
<1>13. CASE Finish BY <1>13 DEF Finish
<1> QED BY <1>1, <1>2, <1>3, <1>4, <1>5, <1>6, <1>7, <1>8, <1>9, <1>10, <1>11,
           <1>12, <1>13, Zenon DEF WorkerStep

(* The gate commits only the running image, and only before it has given    *)
(* up.                                                                      *)
LEMMA GateIInv == IInv /\ GateStep => IInv'
<1> SUFFICES ASSUME IInv, GateStep PROVE IInv' OBVIOUS
<1>0. TypeOK' BY GateType DEF IInv
<1> DEFINE Rest == BootInv /\ WorkInv /\ OfferInv /\ GateInv
<1> SUFFICES Rest' BY <1>0 DEF IInv
<1>a. DataOK /\ SlotFacts!1 /\ SlotFacts!2 BY SlotFacts DEF IInv, TypeOK
<1> USE DEF IInv, BootInv, WorkInv, OfferInv, GateInv, Bootable, InstallAllowed,
            Installs, flash, task, status, work, health, check
<1>1. ASSUME NEW healthy \in BOOLEAN, GateWait(healthy) PROVE Rest'
  BY <1>1 DEF GateWait
<1>2. ASSUME NEW healthy \in BOOLEAN, GateGiveUp(healthy) PROVE Rest'
  BY <1>2 DEF GateGiveUp
<1>3. ASSUME NEW healthy \in BOOLEAN, NEW ok \in BOOLEAN, GateCommit(healthy, ok)
      PROVE Rest'
  <2>1. ~gaveUp BY <1>3 DEF GateCommit, Verdict
  <2>2. gate' = "end" /\ ~gaveUp' /\ slot' = slot /\ sel' = sel /\ run' = run
    BY <1>3, <2>1 DEF GateCommit
  <2>3. img[run] = "pending" /\ sel = run BY <1>3 DEF GateCommit
  <2>4. img'[run] \in {"valid", "pending"} /\ img'[Other(run)] = img[Other(run)]
    BY <1>3, <2>3, <1>a DEF GateCommit, DataOK
  <2>5. UNCHANGED <<task, work, check>> BY <1>3 DEF GateCommit
  <2>6. BootInv' BY <2>2, <2>3, <2>4, <2>5
  <2>7. WorkInv' BY <2>2, <2>3, <2>5
  <2>8. OfferInv' BY <2>2, <2>5
  <2>9. GateInv' BY <2>2
  <2> QED BY <2>6, <2>7, <2>8, <2>9
<1>4. CASE GateHeld BY <1>4 DEF GateHeld
<1>5. CASE FallbackDecides BY <1>5 DEF FallbackDecides
<1>6. CASE FallbackHeld BY <1>6 DEF FallbackHeld
<1> QED BY <1>1, <1>2, <1>3, <1>4, <1>5, <1>6, Zenon DEF GateStep

LEMMA StutterIInv == IInv /\ UNCHANGED vars => IInv'
BY DEF IInv, TypeOK, DataOK, FlagsOK, BootInv, WorkInv, OfferInv, GateInv,
       Bootable, InstallAllowed, vars, flash, task, status, work, health, check

-----------------------------------------------------------------------------
(* The strengthened invariant holds in every reachable state of             *)
(* ota_update.cpp, for every set of artifacts and every feed.               *)
THEOREM Inductive == Spec => []IInv
<1>1. IInv /\ [Next]_vars => IInv'
  BY NextSplit, ResetIInv, RequestIInv, GateIInv, StutterIInv, WorkerType,
     WorkerBoot, WorkerWork, WorkerOffer DEF IInv
<1> QED BY InitIInv, <1>1, PTL DEF Spec

(* Every reachable state is well typed, however often the generation wraps. *)
THEOREM TypeCorrect == Spec => []TypeOK
<1>1. IInv => TypeOK BY DEF IInv
<1> QED BY Inductive, <1>1, PTL

(* activate_update and the held install never leave a board that cannot     *)
(* boot, at whatever point it restarts.                                     *)
THEOREM BoardAlwaysBoots == Spec => []AlwaysBoots
<1>1. IInv => AlwaysBoots
  <2> SUFFICES ASSUME IInv PROVE AlwaysBoots OBVIOUS
  <2> USE DEF IInv, BootInv, AlwaysBoots, Bootable
  <2>1. CASE sel = run BY <2>1
  <2>2. CASE sel # run
    <3>1. Other(sel) = run BY <2>2, SlotFacts DEF TypeOK, DataOK
    <3> QED BY <2>2, <3>1
  <2> QED BY <2>1, <2>2
<1> QED BY Inductive, <1>1, PTL

(* What a feed install selects is what its request named and the last check *)
(* found, for every feed (start_update, run_update).                        *)
THEOREM InstallsWhatWasChecked == Spec => []InstalledAsChecked
<1>1. IInv => InstalledAsChecked
  <2> SUFFICES ASSUME IInv, pc = "done", mode \in Installs
               PROVE  /\ slot[sel] = named /\ named = ckArt /\ offerGen = ckGen
                      /\ mode = "update" => Ver[slot[sel]] > Ver[slot[run]]
                      /\ Ver[slot[sel]] # Ver[slot[run]]
    BY DEF InstalledAsChecked
  <2>1. /\ slot[sel] = offerArt /\ named = offerArt /\ offerArt = ckArt
        /\ offerGen = ckGen /\ offerArt \in Artifacts
    BY DEF IInv, WorkInv, OfferInv
  <2>2. InstallAllowed(offerArt, mode = "down") BY DEF IInv, OfferInv
  <2>3. Ver[offerArt] \in Nat /\ Ver[slot[run]] \in Nat
    BY <2>1, OtaAssumption DEF IInv, BootInv, Bootable
  <2> QED BY <2>1, <2>2, <2>3 DEF InstallAllowed, Installs
<1> QED BY Inductive, <1>1, PTL

(* health_gate_task never commits an image it has given up on.              *)
THEOREM GivenUpIsNeverCommitted == Spec => []GivenUpNotCommitted
<1>1. IInv => GivenUpNotCommitted
  BY DEF IInv, GateInv, GivenUpNotCommitted
<1> QED BY Inductive, <1>1, PTL

(* Only what was asked for is installed, and only what proved itself kept.  *)
THEOREM InstallAlwaysExact == Spec => []InstallExact
  BY InstallsWhatWasChecked, GivenUpIsNeverCommitted, PTL DEF InstallExact

-----------------------------------------------------------------------------
(* The inductive invariant: the task's life *)

Named == Gateways \cup {NoGateway}
Maps  == {"Auto", "HomeHub", "Altherma4"}

(* Where the task is once it is aimed at a gateway it has reached.          *)
Linked  == {"opening", "linked", "swept", "probed", "judged", "recorded", "cached", "published"}
Aimed   == {"aimed", "dial", "dialling", "failed"} \cup Linked
Working == {"idle", "begun"} \cup Aimed
Parting == {"retiring", "cleared"}

Turns ==
  [pc : {"none", "entry"} \cup Working \cup Parting, gen : Nat, of : Named, ringGen : Nat,
   link : Nat, fresh : SUBSET Regs, map : Maps, error : {"none", "link", "register"},
   broken : BOOLEAN, current : BOOLEAN, promoted : BOOLEAN]
Forms ==
  [pc : {"idle", "saved", "reset", "enabled", "bumped", "starts"}, old : Named, runs : Nat]
FormShape == saved \in Named /\ form \in Forms /\ enabled \in BOOLEAN /\ targetGen \in Nat \ {0}
LifeShape == taken \in BOOLEAN /\ running \in BOOLEAN /\ parting \in Nat

(* The retirements under way and to come until the task is started again.   *)
Leaving == taken /\ (~enabled \/ turn.pc \in Parting)
Retirements == parting + (IF Leaving THEN 1 ELSE 0)

LifeInv ==
  /\ FormShape /\ LifeShape /\ turn \in Turns
  /\ taken <=> turn.pc # "none"
  /\ turn.pc \notin {"none", "entry"} => running
  /\ form.pc \in {"idle", "saved", "reset"} /\ enabled => taken \/ parting > 0
  /\ form.runs <= MaxForms
  /\ Retirements <= form.runs
  /\ form.pc \in {"saved", "reset"} => Retirements < form.runs

-----------------------------------------------------------------------------
(* The inductive invariant: whose readings they are *)

Trackers ==
  [of : Named, active : Maps, affirmed : Maps, failures : 0..(ProbeTries - 1),
   wait : {"no", "yes", "over"}]
Statuses ==
  [connected : BOOLEAN, observed : BOOLEAN, gate : Named, error : Named, map : Maps, of : Named,
   values : Nat]
DataShape ==
  /\ sock \in Named /\ ticks \in 0..(FullTicks - 1) /\ profile \in Maps
  /\ tracker \in Trackers
  /\ shown \in [s : Statuses, link : Nat]
  /\ cache \in [rows : SUBSET Regs, of : Named, map : Maps, link : Nat, gen : Nat]
  /\ rings \in [gen : Nat, of : Named, pending : BOOLEAN, samples : SUBSET Gateways]
  /\ reader \in [of : Named, link : Nat, gen : Nat]

(* What carries the target's generation is of a gateway to be expected.     *)
Stamped(of, stamp) == stamp <= targetGen /\ (stamp = targetGen => of \in Expected)
StampInv ==
  /\ Stamped(cache.of, cache.gen) /\ Stamped(reader.of, reader.gen)
  /\ turn.gen <= targetGen
  /\ turn.pc \in Aimed => Stamped(turn.of, turn.gen)

(* The register map in use is one that this gateway answered.               *)
MapInv ==
  /\ sock # NoGateway => tracker.of = sock
  /\ turn.pc \in Linked => turn.of \in Gateways /\ tracker.of = turn.of
  /\ turn.pc = "dialling" => turn.of \in Gateways
  /\ tracker.active = "Altherma4" => tracker.affirmed = "Altherma4"
  /\ tracker.affirmed = "Altherma4" => tracker.of \in Native
  /\ profile = "Altherma4" => tracker.of \in Native
  /\ turn.map = "Altherma4" => turn.of \in Native
  /\ turn.pc = "begun" => turn.map = "Auto"
  /\ cache.map = "Altherma4" => cache.of \in Native
  /\ shown.s.map = "Altherma4" => shown.s.of \in Native

ShownInv ==
  /\ {shown.s.gate, shown.s.error} \subseteq Expected \cup {NoGateway}
  /\ shown.s.connected => shown.s.of \in Expected

(* A sweep that the rings would take is of the gateway they are named for.  *)
SweptInv ==
  /\ turn.ringGen <= rings.gen
  /\ turn.pc \in {"swept", "probed"} /\ turn.ringGen = rings.gen /\ Ours => turn.of = rings.of
  /\ turn.pc = "judged" /\ turn.ringGen = rings.gen /\ turn.current => turn.of = rings.of

ScopeInv == DataShape /\ StampInv /\ MapInv /\ ShownInv

HubIInv == LifeInv /\ ScopeInv /\ SweptInv /\ RingsScoped

-----------------------------------------------------------------------------
LEMMA RegsFinite == IsFiniteSet(Regs)
<1>1. IsFiniteSet({"gate"}) BY FS_EmptySet, FS_AddElement, {} \cup {"gate"} = {"gate"}
<1>2. Regs = {"gate"} \cup {"row"} BY DEF Regs
<1> QED BY <1>1, <1>2, FS_AddElement

LEMMA HubInitIInv == HubInit => HubIInv
<1> SUFFICES ASSUME HubInit PROVE HubIInv OBVIOUS
<1> USE HubAssumption DEF HubInit, Named, Maps
<1>1. turn = [Rested EXCEPT !.pc = IF enabled THEN "entry" ELSE "none"] OBVIOUS
<1>2. Rested \in Turns /\ Rested.map = "Auto" /\ Rested.gen = 0 /\ Rested.ringGen = 0
  BY DEF Rested, Turns, Regs
<1>3. turn \in Turns /\ turn.pc = (IF enabled THEN "entry" ELSE "none")
      /\ turn.map = "Auto" /\ turn.gen = 0 /\ turn.ringGen = 0
  BY <1>1, <1>2 DEF Turns
<1>4. LifeInv
  <2>1. enabled \in BOOLEAN /\ taken \in BOOLEAN /\ running \in BOOLEAN BY Zenon
  <2> HIDE DEF HubInit
  <2>2. FormShape /\ LifeShape BY <2>1 DEF HubInit, FormShape, LifeShape, Forms
  <2>3. ~Leaving BY <1>3 DEF HubInit, Leaving, Parting
  <2> QED BY <1>3, <2>2, <2>3 DEF HubInit, LifeInv, Retirements
<1>5. DataShape
  BY DEF DataShape, Trackers, Untracked, Statuses, Cleared, Empty, Unread, Regs
<1>6. StampInv BY <1>3 DEF StampInv, Stamped, Empty, Unread, Aimed, Linked
<1>7. MapInv BY <1>3 DEF MapInv, Linked, Untracked, Empty, Cleared
<1>8. ShownInv /\ SweptInv /\ RingsScoped
  BY <1>3 DEF ShownInv, Cleared, Expected, SweptInv, RingsScoped
<1> QED BY <1>4, <1>5, <1>6, <1>7, <1>8 DEF HubIInv, ScopeInv

-----------------------------------------------------------------------------
(* The steps of a cycle leave the form and the task's life alone. *)

CycleStep ==
  \/ Begins \/ Targets \/ Captures \/ Reuses \/ Refused \/ Dials \/ Unreached \/ Outdated
  \/ Connects \/ Opens \/ GivesUp \/ Throws \/ Judges \/ Records \/ Caches \/ Publishes \/ Reports
  \/ Unprobed
  \/ \E broken \in BOOLEAN : \E answered \in SUBSET Asked : Sweeps(answered, broken)
  \/ \E a \in ProbeAnswers(turn.of) : Probes(a)

(* Where a step of a cycle starts and ends, and what of the cycle it keeps. *)
LEMMA CycleTurn ==
  ASSUME LifeInv, ScopeInv, CycleStep
  PROVE  /\ UNCHANGED <<formVars, lifeVars, reader>>
         /\ turn' \in Turns /\ turn.pc \in Working /\ turn'.pc \in Working
<1> USE DEF LifeInv, ScopeInv, DataShape, Working, Aimed, Linked, At, Goes
<1>0. Rested \in Turns BY HubAssumption DEF Rested, Turns, Named, Maps, Regs
<1>1. CASE Begins
  <2>1. turn' = [Rested EXCEPT !.pc = "begun", !.gen = targetGen] BY <1>1 DEF Begins
  <2>2. turn' \in Turns /\ turn'.pc = "begun" BY <1>0, <2>1 DEF Turns, FormShape
  <2> QED BY <1>1, <2>2 DEF Begins
<1>2. CASE Targets BY <1>2 DEF Targets, Turns, FormShape
<1>3. CASE Captures BY <1>3 DEF Captures, Turns
<1>4. CASE Reuses \/ Refused \/ Dials \/ Unreached \/ Outdated
  BY <1>4 DEF Reuses, Refused, Dials, Unreached, Outdated, Turns
<1>5. CASE Connects \/ Opens \/ GivesUp \/ Unprobed
  BY <1>5 DEF Connects, Opens, GivesUp, Unprobed, Turns
<1>6. CASE Throws BY <1>6 DEF Throws, Turns
<1>7. CASE Records \/ Caches BY <1>7 DEF Records, Caches, Turns
<1>8. CASE Judges \/ Publishes
  <2> DEFINE current == Current
  <2>1. current \in BOOLEAN BY DEF Current
  <2>2. \E step \in {"judged", "cached", "published"} :
          turn' = [turn EXCEPT !.pc = step, !.current = current]
    BY <1>8 DEF Judges, Publishes
  <2>3. turn.pc \in Working /\ UNCHANGED <<formVars, lifeVars, reader>>
    BY <1>8 DEF Judges, Publishes
  <2> HIDE DEF current
  <2> QED BY <2>1, <2>2, <2>3, ZenonT(60) DEF Turns
<1>9. CASE Reports
  <2>1. turn' = [Rested EXCEPT !.pc = "idle"] BY <1>9 DEF Reports
  <2>2. turn' \in Turns /\ turn'.pc = "idle" BY <1>0, <2>1 DEF Turns
  <2> QED BY <1>9, <2>2 DEF Reports
<1>10. ASSUME NEW broken \in BOOLEAN, NEW answered \in SUBSET Asked, Sweeps(answered, broken)
       PROVE  /\ UNCHANGED <<formVars, lifeVars, reader>>
              /\ turn' \in Turns /\ turn.pc \in Working /\ turn'.pc \in Working
  <2>1. answered \in SUBSET Regs BY DEF Asked, Regs
  <2>2. PICK error \in {"none", "link", "register"} :
          turn' = [turn EXCEPT !.pc = "swept", !.link = shown.link, !.fresh = answered,
                               !.map = profile, !.broken = broken, !.error = error]
    BY <1>10 DEF Sweeps
  <2>3. shown.link \in Nat OBVIOUS
  <2>4. turn' \in Turns /\ turn'.pc = "swept" BY <2>1, <2>2, <2>3 DEF Turns
  <2> QED BY <1>10, <2>4 DEF Sweeps
<1>11. ASSUME NEW a \in ProbeAnswers(turn.of), Probes(a)
       PROVE  /\ UNCHANGED <<formVars, lifeVars, reader>>
              /\ turn' \in Turns /\ turn.pc \in Working /\ turn'.pc \in Working
  <2> DEFINE promoted == a = "pressure" /\ turn.map # "Altherma4"
             lost     == a = "lost"
             fresh    == IF promoted THEN {"row"} ELSE turn.fresh
             map      == IF promoted THEN "Altherma4" ELSE turn.map
  <2>1. turn' = [turn EXCEPT !.pc = "probed", !.broken = lost, !.promoted = promoted,
                             !.fresh = fresh, !.map = map]
    BY <1>11 DEF Probes
  <2>2. promoted \in BOOLEAN /\ lost \in BOOLEAN OBVIOUS
  <2>3. fresh \in SUBSET Regs /\ map \in Maps BY DEF Turns, Regs, Maps
  <2> HIDE DEF promoted, lost, fresh, map
  <2>4. turn' \in Turns /\ turn'.pc = "probed" BY <2>1, <2>2, <2>3 DEF Turns
  <2> QED BY <1>11, <2>4 DEF Probes
<1> QED
  BY <1>1, <1>2, <1>3, <1>4, <1>5, <1>6, <1>7, <1>8, <1>9, <1>10, <1>11, Zenon DEF CycleStep

(* The task is started and retires, and the form moves on: its life.        *)
LifeStep == Enters \/ Retires \/ Clears \/ Leaves \/ LooksBack
FormStep ==
  \/ \E g \in Named : Saves(g)
  \/ FormResets \/ FormEnables \/ FormBumps \/ FormClears \/ FormStarts

LEMMA StartTurn ==
  ASSUME LifeInv, StartsTask
  PROVE  /\ turn' \in Turns /\ taken' \in BOOLEAN
         /\ \/ turn' = turn /\ taken' = taken /\ ~(enabled /\ ~taken)
            \/ turn' = [Rested EXCEPT !.pc = "entry"] /\ turn'.pc = "entry" /\ enabled
                 /\ taken' /\ turn.pc = "none" /\ ~taken
<1> USE DEF LifeInv, StartsTask
<1>1. Rested \in Turns BY HubAssumption DEF Rested, Turns, Named, Maps, Regs
<1>2. CASE enabled /\ ~taken
  <2>1. turn' = [Rested EXCEPT !.pc = "entry"] /\ taken' BY <1>2
  <2>2. turn' \in Turns /\ turn'.pc = "entry" BY <1>1, <2>1 DEF Turns
  <2> QED BY <1>2, <2>1, <2>2
<1>3. CASE ~(enabled /\ ~taken) BY <1>3 DEF LifeShape
<1> QED BY <1>2, <1>3

LEMMA LifeNext ==
  ASSUME LifeInv, ScopeInv, LifeStep \/ FormStep \/ CycleStep
  PROVE  LifeInv'
<1> USE HubAssumption DEF LifeInv, At, Goes, Parting
<1>1. CASE CycleStep
  <2>1. /\ UNCHANGED <<formVars, lifeVars>>
        /\ turn' \in Turns /\ turn.pc \in Working /\ turn'.pc \in Working
    BY <1>1, CycleTurn
  <2>2. Leaving' = Leaving BY <2>1 DEF Leaving, formVars, lifeVars, Working, Aimed, Linked
  <2> QED
    BY <2>1, <2>2 DEF FormShape, LifeShape, formVars, lifeVars, Retirements, Working, Aimed, Linked
<1>2. CASE Enters
  <2>1. /\ turn' = [turn EXCEPT !.pc = "idle"] /\ turn.pc = "entry" /\ running'
        /\ UNCHANGED <<formVars, taken, parting>>
    BY <1>2 DEF Enters
  <2>2. turn' \in Turns /\ turn'.pc = "idle" BY <2>1 DEF Turns, Working
  <2> QED BY <2>1, <2>2 DEF FormShape, LifeShape, formVars, Retirements, Leaving
<1>3. CASE Retires
  <2>1. /\ turn' = [turn EXCEPT !.pc = "retiring"] /\ turn.pc = "idle" /\ ~enabled
        /\ UNCHANGED <<formVars, lifeVars>>
    BY <1>3 DEF Retires
  <2>2. turn' \in Turns /\ turn'.pc = "retiring" BY <2>1 DEF Turns
  <2> QED BY <2>1, <2>2 DEF FormShape, LifeShape, formVars, lifeVars, Retirements, Leaving
<1>4. CASE Clears
  <2>1. /\ turn' = [turn EXCEPT !.pc = "cleared"] /\ turn.pc = "retiring"
        /\ UNCHANGED <<formVars, lifeVars>>
    BY <1>4 DEF Clears
  <2>2. turn' \in Turns /\ turn'.pc = "cleared" BY <2>1 DEF Turns
  <2> QED BY <2>1, <2>2 DEF FormShape, LifeShape, formVars, lifeVars, Retirements, Leaving
<1>5. CASE Leaves
  <2>1. /\ turn' = Rested /\ turn.pc = "cleared" /\ taken' = FALSE /\ running' = FALSE
        /\ parting' = parting + 1 /\ UNCHANGED formVars
    BY <1>5 DEF Leaves
  <2>2. turn' \in Turns /\ turn'.pc = "none" BY <2>1 DEF Turns, Rested, Named, Maps, Regs
  <2>3. Leaving /\ ~Leaving' BY <2>1, <2>2 DEF Leaving
  <2>4. Retirements' = Retirements BY <2>1, <2>3 DEF Retirements, LifeShape
  <2>5. FormShape' /\ LifeShape' /\ parting' > 0
    <3>1. FormShape' BY <2>1 DEF FormShape, formVars
    <3>2. parting \in Nat BY DEF LifeShape
    <3>3. parting' \in Nat /\ parting' > 0 BY <2>1, <3>2
    <3>4. taken' \in BOOLEAN /\ running' \in BOOLEAN BY <2>1, Zenon
    <3> QED BY <3>1, <3>3, <3>4 DEF LifeShape
  <2> HIDE DEF LifeInv
  <2>6. LifeInv BY <2>1
  <2> QED BY <2>1, <2>2, <2>4, <2>5, <2>6 DEF LifeInv, formVars
<1>6. CASE LooksBack
  <2>1. parting > 0 /\ parting' = parting - 1 /\ StartsTask /\ UNCHANGED <<formVars, running>>
    BY <1>6 DEF LooksBack
  <2>2. FormShape' /\ LifeShape' BY <2>1, StartTurn DEF FormShape, formVars, LifeShape
  <2>3. Retirements' <= Retirements BY <2>1, StartTurn DEF Retirements, Leaving, LifeShape
  <2>4. enabled => taken' BY <2>1, StartTurn
  <2>5. Retirements \in Int /\ Retirements' \in Int BY <2>2 DEF Retirements, LifeShape
  <2>6. form' = form /\ enabled' = enabled /\ running' = running BY <2>1 DEF formVars
  <2>7. turn' \in Turns /\ (taken' <=> turn'.pc # "none")
        /\ (turn'.pc \notin {"none", "entry"} => running)
    BY <2>1, StartTurn
  <2> QED BY <2>2, <2>3, <2>4, <2>5, <2>6, <2>7 DEF FormShape, Forms
<1>7. ASSUME NEW g \in Named, Saves(g) PROVE LifeInv'
  <2>1. /\ form.pc = "idle" /\ form' = [pc |-> "saved", old |-> saved, runs |-> form.runs + 1]
        /\ form.runs < MaxForms /\ saved' = g /\ UNCHANGED <<enabled, targetGen, lifeVars, turn>>
    BY <1>7 DEF Saves, taskVars
  <2>2. FormShape' BY <2>1 DEF FormShape, Forms
  <2> QED BY <2>1, <2>2 DEF FormShape, Forms, LifeShape, lifeVars, Retirements, Leaving
<1>8. CASE FormResets \/ FormBumps \/ FormClears
  <2>1. /\ \/ form.pc = "saved" /\ form' = [form EXCEPT !.pc = "reset"] /\ targetGen' = targetGen
           \/ form.pc = "enabled" /\ form' = [form EXCEPT !.pc = "bumped"]
                /\ targetGen' = targetGen + 1
           \/ form.pc = "bumped" /\ form' = [form EXCEPT !.pc = "starts"] /\ targetGen' = targetGen
        /\ UNCHANGED <<saved, enabled, lifeVars, turn>>
    BY <1>8 DEF FormResets, FormBumps, FormClears, InForm, taskVars
  <2>2. FormShape' BY <2>1 DEF FormShape, Forms
  <2> QED BY <2>1, <2>2 DEF FormShape, Forms, LifeShape, lifeVars, Retirements, Leaving
<1>9. CASE FormEnables
  <2>1. /\ form.pc = "reset" /\ form' = [form EXCEPT !.pc = "enabled"]
        /\ enabled' \in BOOLEAN /\ UNCHANGED <<saved, targetGen, lifeVars, turn>>
    BY <1>9, Zenon DEF FormEnables, InForm, taskVars
  <2>2. FormShape' BY <2>1 DEF FormShape, Forms
  <2> QED BY <2>1, <2>2 DEF FormShape, Forms, LifeShape, lifeVars, Retirements, Leaving
<1>10. CASE FormStarts
  <2>1. /\ form.pc = "starts" /\ form' = [form EXCEPT !.pc = "idle"] /\ StartsTask
        /\ UNCHANGED <<saved, enabled, targetGen, running, parting>>
    BY <1>10 DEF FormStarts, InForm
  <2>2. FormShape' BY <2>1 DEF FormShape, Forms
  <2> QED BY <2>1, <2>2, StartTurn DEF FormShape, Forms, LifeShape, Retirements, Leaving
<1> QED
  BY <1>1, <1>2, <1>3, <1>4, <1>5, <1>6, <1>7, <1>8, <1>9, <1>10, Zenon DEF LifeStep, FormStep

-----------------------------------------------------------------------------
(* The shape of what the task, the form and the readers write.              *)

LEMMA StatusShape ==
  ASSUME LifeInv, DataShape
  PROVE  Cleared \in Statuses /\ Published \in Statuses /\ Reported \in Statuses
<1> USE HubAssumption DEF LifeInv, DataShape
<1>1. Cleared \in Statuses BY DEF Cleared, Statuses, Named, Maps
<1>2. Published \in Statuses
  <2> DEFINE current == Current
             gated  == IF Current /\ "gate" \in turn.fresh /\ ~turn.promoted THEN turn.of
                       ELSE NoGateway
             values == IF ~Current THEN 0 ELSE IF Full THEN Cardinality(turn.fresh)
                       ELSE shown.s.values
             map    == IF Ours THEN profile ELSE shown.s.map
             of     == IF Ours THEN turn.of ELSE shown.s.of
  <2>1. current \in BOOLEAN BY DEF Current
  <2>2. gated \in Named /\ map \in Maps /\ of \in Named BY DEF Turns, Statuses, Named
  <2>3. Cardinality(turn.fresh) \in Nat
    BY FS_CardinalityType, FS_Subset, RegsFinite DEF Turns
  <2>4. values \in Nat BY <2>3 DEF Statuses
  <2>5. Published = [shown.s EXCEPT !.connected = current, !.observed = current, !.gate = gated,
                                    !.values = values, !.map = map, !.of = of]
    BY DEF Published
  <2> HIDE DEF current, gated, values, map, of
  <2> QED BY <2>1, <2>2, <2>4, <2>5 DEF Statuses
<1>3. Reported \in Statuses
  <2>1. CASE ~Ours BY <2>1 DEF Reported
  <2>2. CASE Ours /\ turn.error # "none"
    <3> DEFINE connected == IF turn.current THEN shown.s.connected ELSE FALSE
    <3>1. connected \in BOOLEAN BY DEF Statuses
    <3>2. Reported = [shown.s EXCEPT !.error = turn.of, !.connected = connected]
      BY <2>2 DEF Reported
    <3> HIDE DEF connected
    <3> QED BY <3>1, <3>2 DEF Statuses, Turns
  <2>3. CASE Ours /\ turn.error = "none" BY <2>3 DEF Reported, Statuses, Named
  <2> QED BY <2>1, <2>2, <2>3
<1> QED BY <1>1, <1>2, <1>3

LEMMA JudgedShape ==
  ASSUME DataShape, NEW a PROVE Judged(a) \in Trackers /\ Judged(a).of = tracker.of
<1> USE HubAssumption DEF DataShape
<1>0. 0 \in 0..(ProbeTries - 1) /\ tracker.failures \in 0..(ProbeTries - 1) BY DEF Trackers
<1>1. ASSUME NEW map \in Maps PROVE Affirmed(map) \in Trackers /\ Affirmed(map).of = tracker.of
  BY <1>0 DEF Affirmed, Trackers
<1>2. Missed \in Trackers /\ Missed.of = tracker.of
  <2>1. CASE tracker.failures + 1 < ProbeTries
    <3>1. tracker.failures + 1 \in 0..(ProbeTries - 1) BY <1>0, <2>1
    <3>2. Missed = [tracker EXCEPT !.failures = tracker.failures + 1] BY <2>1 DEF Missed
    <3> QED BY <3>1, <3>2 DEF Trackers
  <2>2. CASE ~(tracker.failures + 1 < ProbeTries)
    <3>1. Missed = [tracker EXCEPT !.active = "HomeHub", !.failures = 0, !.wait = "yes"]
      BY <2>2 DEF Missed
    <3> QED BY <1>0, <3>1 DEF Trackers, Maps
  <2> QED BY <2>1, <2>2
<1>3. "Altherma4" \in Maps /\ "HomeHub" \in Maps BY DEF Maps
<1> QED BY <1>1, <1>2, <1>3 DEF Judged

LEMMA OpenedShape ==
  ASSUME LifeInv, DataShape PROVE Opened \in Trackers /\ Opened.of = turn.of
<1> USE HubAssumption DEF DataShape
<1>0. /\ 0 \in 0..(ProbeTries - 1) /\ tracker.failures \in 0..(ProbeTries - 1)
      /\ turn.of \in Named /\ "Auto" \in Maps /\ "HomeHub" \in Maps
      /\ tracker.affirmed \in Maps /\ tracker \in Trackers
  BY DEF LifeInv, Turns, Trackers, Maps
<1>1. CASE tracker.of # turn.of BY <1>0, <1>1 DEF Opened, Untracked, Trackers
<1>2. CASE tracker.of = turn.of
  <2> DEFINE failures == IF tracker.wait = "over" THEN 0 ELSE tracker.failures
  <2>1. failures \in 0..(ProbeTries - 1) BY <1>0
  <2>2. \/ Opened = [tracker EXCEPT !.active = tracker.affirmed]
        \/ Opened = [tracker EXCEPT !.active = "HomeHub"]
        \/ Opened = [tracker EXCEPT !.active = "Auto", !.wait = "no", !.failures = failures]
    BY <1>2 DEF Opened
  <2> HIDE DEF failures
  <2> QED BY <1>0, <1>2, <2>1, <2>2, ZenonT(60) DEF Trackers
<1> QED BY <1>1, <1>2

LEMMA ConsumedShape ==
  ASSUME DataShape, NEW sample \in SUBSET Gateways
  PROVE  /\ Consumed(sample) \in [gen : Nat, of : Named, pending : BOOLEAN, samples : SUBSET Gateways]
         /\ Consumed(sample).gen = rings.gen /\ Consumed(sample).of = rings.of
<1> USE DEF DataShape
<1>1. CASE turn.ringGen # rings.gen BY <1>1 DEF Consumed
<1>2. CASE turn.ringGen = rings.gen
  <2> DEFINE samples == (IF rings.pending THEN {} ELSE rings.samples) \cup sample
  <2>1. samples \in SUBSET Gateways OBVIOUS
  <2>2. Consumed(sample) = [rings EXCEPT !.pending = FALSE, !.samples = samples]
    BY <1>2 DEF Consumed
  <2> HIDE DEF samples
  <2> QED BY <2>1, <2>2
<1> QED BY <1>1, <1>2

LEMMA RingsShape ==
  ASSUME DataShape, NEW g \in Named
  PROVE  /\ NewRings(g) \in [gen : Nat, of : Named, pending : BOOLEAN, samples : SUBSET Gateways]
         /\ NewRings(g).gen = rings.gen + 1 /\ NewRings(g).of = g /\ NewRings(g).pending
<1>1. rings.gen + 1 \in Nat BY DEF DataShape
<1>2. NewRings(g) = [rings EXCEPT !.gen = rings.gen + 1, !.of = g, !.pending = TRUE] BY DEF NewRings
<1> QED BY <1>1, <1>2 DEF DataShape

LEMMA CycleShape == ASSUME LifeInv, ScopeInv, CycleStep PROVE DataShape'
<1> USE DEF ScopeInv, DataShape
<1>0. /\ UNCHANGED reader /\ saved \in Named
      /\ \A s \in Statuses : [shown EXCEPT !.s = s] \in [s : Statuses, link : Nat]
      /\ NoGateway \in Named /\ 0 \in 0..(FullTicks - 1) /\ (ticks + 1) % FullTicks \in 0..(FullTicks - 1)
  BY CycleTurn, HubAssumption DEF Named, LifeInv, FormShape
<1>1. CASE Begins \/ Captures \/ Reuses \/ Outdated \/ Judges \/ Unprobed
  BY <1>0, <1>1 DEF Begins, Captures, Reuses, Outdated, Judges, Unprobed
<1>2. CASE Targets
  <2>1. NewRings(saved) \in [gen : Nat, of : Named, pending : BOOLEAN, samples : SUBSET Gateways]
    BY <1>0, RingsShape
  <2> QED BY <1>0, <1>2, <2>1 DEF Targets
<1>3. CASE Refused \/ Unreached
  <2>1. turn.of \in Named BY DEF LifeInv, Turns
  <2>2. [shown.s EXCEPT !.connected = FALSE, !.error = turn.of] \in Statuses
    BY <2>1 DEF Statuses
  <2>3. shown' \in [s : Statuses, link : Nat] BY <1>0, <1>3, <2>2 DEF Refused, Unreached, Shows
  <2> QED BY <1>0, <1>3, <2>3 DEF Refused, Unreached
<1>4. CASE Dials
  <2>1. [shown.s EXCEPT !.connected = FALSE, !.observed = FALSE, !.error = NoGateway] \in Statuses
    BY <1>0 DEF Statuses
  <2> QED BY <1>0, <1>4, <2>1 DEF Dials, Shows
<1>5. CASE Connects
  <2>1. tracker' \in Trackers /\ profile' \in Maps BY <1>5, OpenedShape DEF Connects, Trackers
  <2>2. turn.of \in Named BY DEF LifeInv, Turns
  <2> QED BY <1>0, <1>5, <2>1, <2>2 DEF Connects
<1>6. CASE Opens
  <2>1. turn.of \in Named BY DEF LifeInv, Turns
  <2>2. [shown.s EXCEPT !.connected = FALSE, !.observed = FALSE, !.map = profile, !.of = turn.of]
          \in Statuses
    BY <2>1 DEF Statuses
  <2>3. shown' \in [s : Statuses, link : Nat] BY <1>6, <2>2 DEF Opens
  <2> QED BY <1>0, <1>6, <2>3 DEF Opens
<1>7. CASE GivesUp
  <2>1. [shown.s EXCEPT !.values = 0] \in Statuses BY DEF Statuses
  <2>2. Empty \in [rows : SUBSET Regs, of : Named, map : Maps, link : Nat, gen : Nat]
    BY DEF Empty, Named, Maps
  <2> QED BY <1>0, <1>7, <2>1, <2>2, ConsumedShape DEF GivesUp, Shows
<1>8. CASE Throws
  <2>1. [shown.s EXCEPT !.observed = FALSE] \in Statuses BY DEF Statuses
  <2> QED BY <1>0, <1>8, <2>1 DEF Throws, Shows
<1>9. CASE Records
  <2> DEFINE sample == IF turn.current /\ "row" \in turn.fresh THEN {turn.of} ELSE {}
  <2>1. sample \in SUBSET Gateways
    BY <1>9 DEF Records, At, MapInv, Linked
  <2>2. rings' = Consumed(sample) BY <1>9 DEF Records
  <2> HIDE DEF sample
  <2> QED BY <1>0, <1>9, <2>1, <2>2, ConsumedShape, ZenonT(60) DEF Records
<1>10. CASE Caches
  <2>1. turn.fresh \in SUBSET Regs /\ turn.of \in Named /\ turn.map \in Maps /\ turn.link \in Nat
        /\ turn.gen \in Nat
    BY DEF LifeInv, Turns
  <2>2. cache' \in [rows : SUBSET Regs, of : Named, map : Maps, link : Nat, gen : Nat]
    BY <1>10, <2>1 DEF Caches, Empty, Named, Maps
  <2> QED BY <1>0, <1>10, <2>2 DEF Caches
<1>11. CASE Publishes BY <1>0, <1>11, StatusShape DEF Publishes, Shows
<1>12. CASE Reports BY <1>0, <1>12, StatusShape DEF Reports, Shows
<1>13. ASSUME NEW broken \in BOOLEAN, NEW answered \in SUBSET Asked, Sweeps(answered, broken)
       PROVE  DataShape'
  <2>1. [shown.s EXCEPT !.connected = FALSE] \in Statuses BY DEF Statuses
  <2>2. shown' \in [s : Statuses, link : Nat] BY <1>0, <1>13, <2>1 DEF Sweeps, Shows
  <2> QED BY <1>0, <1>13, <2>2 DEF Sweeps
<1>14. ASSUME NEW a \in ProbeAnswers(turn.of), Probes(a) PROVE DataShape'
  <2>1. [shown.s EXCEPT !.connected = FALSE] \in Statuses BY DEF Statuses
  <2>2. shown' \in [s : Statuses, link : Nat] BY <1>0, <1>14, <2>1 DEF Probes, Shows
  <2>3. tracker' \in Trackers BY <1>14, JudgedShape DEF Probes
  <2>4. profile' \in Maps BY <1>14, <2>3 DEF Probes, Trackers
  <2> QED BY <1>0, <1>14, <2>2, <2>3, <2>4 DEF Probes
<1> QED
  BY <1>1, <1>2, <1>3, <1>4, <1>5, <1>6, <1>7, <1>8, <1>9, <1>10, <1>11, <1>12, <1>13, <1>14,
     Zenon DEF CycleStep

(* What only looks on or waits: a retry falls due, a snapshot is taken.     *)
AsideStep == RetryDue \/ Copies \/ Answers

LEMMA AsideLife == ASSUME LifeInv, AsideStep PROVE LifeInv'
<1>1. UNCHANGED <<formVars, lifeVars, turn>>
  BY DEF AsideStep, RetryDue, Copies, Answers, taskVars
<1> QED
  BY <1>1 DEF LifeInv, FormShape, LifeShape, formVars, lifeVars, Retirements, Leaving

LEMMA OtherShape ==
  ASSUME LifeInv, ScopeInv, LifeStep \/ FormStep \/ AsideStep PROVE DataShape'
<1> USE DEF ScopeInv, DataShape
<1>0. /\ saved \in Named /\ NoGateway \in Named
      /\ \A s \in Statuses : [shown EXCEPT !.s = s] \in [s : Statuses, link : Nat]
      /\ Empty \in [rows : SUBSET Regs, of : Named, map : Maps, link : Nat, gen : Nat]
  BY DEF Named, LifeInv, FormShape, Empty, Maps
<1>1. CASE Enters \/ LooksBack \/ FormEnables \/ FormStarts
  BY <1>1 DEF Enters, LooksBack, FormEnables, FormStarts, taskVars
<1>2. CASE Retires
  <2>1. [shown.s EXCEPT !.connected = FALSE, !.observed = FALSE] \in Statuses BY DEF Statuses
  <2> QED BY <1>0, <1>2, <2>1 DEF Retires, Shows
<1>3. CASE Clears \/ FormClears BY <1>0, <1>3, Zenon DEF Clears, FormClears, taskVars
<1>4. CASE Leaves
  <2>1. [shown.s EXCEPT !.values = 0, !.observed = FALSE] \in Statuses BY DEF Statuses
  <2> QED BY <1>0, <1>4, <2>1 DEF Leaves, Shows
<1>5. ASSUME NEW g \in Named, Saves(g) PROVE DataShape' BY <1>5 DEF Saves, taskVars
<1>6. CASE FormResets BY <1>0, <1>6, RingsShape DEF FormResets, taskVars
<1>7. CASE FormBumps BY <1>0, <1>7, StatusShape DEF FormBumps, Shows, taskVars
<1>8. CASE RetryDue
  <2>1. tracker' \in Trackers BY <1>8 DEF RetryDue, Trackers
  <2> QED BY <1>8, <2>1 DEF RetryDue
<1>9. CASE Copies \/ Answers BY <1>0, <1>9 DEF Copies, Answers, Unread, taskVars
<1> QED
  BY <1>1, <1>2, <1>3, <1>4, <1>5, <1>6, <1>7, <1>8, <1>9, Zenon
     DEF LifeStep, FormStep, AsideStep

-----------------------------------------------------------------------------
(* What carries the target's generation is of a gateway to be expected.     *)

(* A cycle aims once; until it is over it keeps its gateway and generation. *)
LEMMA CycleAims ==
  ASSUME LifeInv, StampInv, CycleStep
  PROVE  \/ turn'.pc \notin Aimed /\ turn'.gen <= targetGen
         \/ turn'.pc \in Aimed /\ turn'.of = saved /\ turn'.gen = turn.gen
         \/ turn.pc \in Aimed /\ turn'.of = turn.of /\ turn'.gen = turn.gen
<1> USE DEF At, Goes, Aimed, Linked, Turns
<1>0. turn \in Turns /\ targetGen \in Nat /\ turn.gen <= targetGen
  BY DEF LifeInv, FormShape, StampInv
<1>1. CASE Begins BY <1>0, <1>1 DEF Begins, Rested
<1>2. CASE Targets BY <1>0, <1>2 DEF Targets
<1>3. CASE Captures BY <1>0, <1>3 DEF Captures
<1>4. CASE Reuses \/ Refused \/ Dials \/ Unreached \/ Outdated
  BY <1>0, <1>4 DEF Reuses, Refused, Dials, Unreached, Outdated
<1>5. CASE Connects \/ Opens \/ GivesUp \/ Unprobed
  BY <1>0, <1>5 DEF Connects, Opens, GivesUp, Unprobed
<1>6. CASE Throws \/ Records \/ Caches BY <1>0, <1>6 DEF Throws, Records, Caches
<1>7. CASE Judges \/ Publishes BY <1>0, <1>7 DEF Judges, Publishes
<1>8. CASE Reports BY <1>0, <1>8 DEF Reports, Rested, FormShape, LifeInv
<1>9. ASSUME NEW broken \in BOOLEAN, NEW answered \in SUBSET Asked, Sweeps(answered, broken)
      PROVE  turn.pc \in Aimed /\ turn'.of = turn.of /\ turn'.gen = turn.gen
  BY <1>0, <1>9 DEF Sweeps
<1>10. ASSUME NEW a \in ProbeAnswers(turn.of), Probes(a)
       PROVE  turn.pc \in Aimed /\ turn'.of = turn.of /\ turn'.gen = turn.gen
  BY <1>0, <1>10 DEF Probes
<1> QED
  BY <1>1, <1>2, <1>3, <1>4, <1>5, <1>6, <1>7, <1>8, <1>9, <1>10, Zenon DEF CycleStep

LEMMA CycleCache ==
  ASSUME CycleStep
  PROVE  \/ cache' = cache
         \/ cache' = Empty
         \/ /\ turn.pc = "recorded" /\ Ours
            /\ cache' = [rows |-> turn.fresh, of |-> turn.of, map |-> turn.map,
                         link |-> turn.link, gen |-> turn.gen]
BY DEF CycleStep, Begins, Targets, Captures, Reuses, Refused, Dials, Unreached, Outdated, Connects,
       Opens, GivesUp, Unprobed, Throws, Judges, Records, Caches, Publishes, Reports, Sweeps,
       Probes, At

LEMMA StampNext ==
  ASSUME LifeInv, ScopeInv, CycleStep \/ LifeStep \/ FormStep \/ AsideStep
  PROVE  StampInv'
<1> USE DEF ScopeInv
<1>0. /\ turn \in Turns /\ targetGen \in Nat /\ targetGen > 0 /\ turn.gen \in Nat
      /\ cache.gen \in Nat /\ reader.gen \in Nat /\ saved \in Expected
      /\ Empty.gen = 0 /\ Unread.gen = 0 /\ Rested.gen = 0
  BY DEF LifeInv, FormShape, DataShape, Turns, Expected, Empty, Unread, Rested
<1>1. CASE CycleStep
  <2>1. Expected' = Expected /\ targetGen' = targetGen /\ reader' = reader
    BY <1>1, CycleTurn DEF Expected, formVars
  <2>2. Stamped(cache.of, cache.gen)' BY <1>0, <1>1, <2>1, CycleCache
    DEF StampInv, Stamped, Ours, Aimed, Linked
  <2>3. Stamped(reader.of, reader.gen)' BY <2>1 DEF StampInv, Stamped
  <2>4. turn'.gen <= targetGen' /\ (turn'.pc \in Aimed => Stamped(turn.of, turn.gen)')
    BY <1>0, <1>1, <2>1, CycleAims DEF StampInv, Stamped
  <2> QED BY <2>2, <2>3, <2>4 DEF StampInv
<1>2. CASE LifeStep
  <2>1. /\ Expected' = Expected /\ targetGen' = targetGen /\ reader' = reader
        /\ cache' = cache \/ cache' = Empty
    BY <1>2 DEF LifeStep, Enters, Retires, Clears, Leaves, LooksBack, Expected, formVars
  <2>2. (turn'.pc \notin Aimed /\ turn'.gen <= targetGen) \/ turn' = turn
    <3>1. CASE Enters \/ Retires \/ Clears
      BY <1>0, <3>1 DEF Enters, Retires, Clears, Goes, Turns, Aimed, Linked, StampInv
    <3>2. CASE Leaves BY <1>0, <3>2 DEF Leaves, Rested, Aimed, Linked
    <3>3. CASE LooksBack
      BY <1>0, <3>3 DEF LooksBack, StartsTask, Rested, Aimed, Linked
    <3> QED BY <1>2, <3>1, <3>2, <3>3 DEF LifeStep
  <2> QED BY <1>0, <2>1, <2>2 DEF StampInv, Stamped
<1>3. ASSUME NEW g \in Named, Saves(g) PROVE StampInv'
  <2>1. /\ saved' = g /\ form.pc = "idle" /\ form' = [pc |-> "saved", old |-> saved, runs |-> form.runs + 1]
        /\ UNCHANGED <<targetGen, turn, cache, reader>>
    BY <1>3 DEF Saves, taskVars
  <2>2. Expected \subseteq Expected' BY <2>1 DEF Expected
  <2> QED BY <2>1, <2>2 DEF StampInv, Stamped
<1>4. CASE FormResets \/ FormEnables
  <2>1. /\ UNCHANGED <<saved, targetGen, turn, cache, reader>>
        /\ \/ form.pc = "saved" /\ form' = [form EXCEPT !.pc = "reset"]
           \/ form.pc = "reset" /\ form' = [form EXCEPT !.pc = "enabled"]
    BY <1>4 DEF FormResets, FormEnables, InForm, taskVars
  <2>2. Expected' = Expected BY <2>1 DEF Expected, LifeInv, FormShape, Forms
  <2> QED BY <2>1, <2>2 DEF StampInv, Stamped
<1>5. CASE FormBumps
  <2>1. targetGen' = targetGen + 1 /\ UNCHANGED <<turn, cache, reader>>
    BY <1>5 DEF FormBumps, taskVars
  <2> QED BY <1>0, <2>1 DEF StampInv, Stamped
<1>6. CASE FormClears \/ FormStarts
  <2>1. /\ UNCHANGED <<saved, targetGen, reader>>
        /\ cache' = cache \/ cache' = Empty
        /\ \/ form.pc = "bumped" /\ form' = [form EXCEPT !.pc = "starts"]
           \/ form.pc = "starts" /\ form' = [form EXCEPT !.pc = "idle"]
        /\ turn' = turn \/ turn' = [Rested EXCEPT !.pc = "entry"]
    BY <1>6 DEF FormClears, FormStarts, StartsTask, InForm, taskVars
  <2>2. Expected' = Expected BY <2>1 DEF Expected, LifeInv, FormShape, Forms
  <2>3. turn' = turn \/ (turn'.gen = 0 /\ turn'.pc \notin Aimed)
    BY <2>1 DEF Rested, Aimed, Linked
  <2> QED BY <1>0, <2>1, <2>2, <2>3 DEF StampInv, Stamped
<1>7. CASE AsideStep
  <2>1. /\ UNCHANGED <<saved, form, targetGen, cache, turn>>
        /\ \/ reader' = reader
           \/ reader' = [of |-> cache.of, link |-> cache.link, gen |-> cache.gen]
           \/ reader' = Unread
    BY <1>7 DEF AsideStep, RetryDue, Copies, Answers, formVars, taskVars
  <2>2. Expected' = Expected BY <2>1 DEF Expected
  <2> QED BY <1>0, <2>1, <2>2 DEF StampInv, Stamped
<1> QED BY <1>1, <1>2, <1>3, <1>4, <1>5, <1>6, <1>7, Zenon DEF FormStep

-----------------------------------------------------------------------------
(* The register map in use is one that this gateway answered.               *)

(* A probe that the gateway affirms is one it can answer.                   *)
LEMMA ShownStatus ==
  ASSUME DataShape, NEW s, Shows(s) PROVE shown'.s = s /\ shown'.link = shown.link
BY DEF DataShape, Shows

LEMMA JudgedMap ==
  ASSUME LifeInv, ScopeInv, turn.pc \in Linked, NEW a \in ProbeAnswers(turn.of)
  PROVE  /\ a = "pressure" => turn.of \in Native
         /\ Judged(a).active = "Altherma4" => Judged(a).affirmed = "Altherma4"
         /\ Judged(a).affirmed = "Altherma4" => turn.of \in Native
<1> USE DEF ScopeInv, DataShape
<1>1. /\ tracker.of = turn.of /\ tracker \in Trackers
      /\ tracker.active = "Altherma4" => tracker.affirmed = "Altherma4"
      /\ tracker.affirmed = "Altherma4" => turn.of \in Native
  BY DEF MapInv
<1>2. a = "pressure" => turn.of \in Native BY DEF ProbeAnswers
<1>3. CASE a = "pressure" BY <1>1, <1>2, <1>3 DEF Judged, Affirmed, Trackers
<1>4. CASE a = "unsupported" BY <1>1, <1>4 DEF Judged, Affirmed, Trackers
<1>5. CASE a = "busy" BY <1>1, <1>5 DEF Judged
<1>6. CASE a \notin {"pressure", "unsupported", "busy"}
  <2>1. Judged(a) = Missed BY <1>6 DEF Judged
  <2>2. /\ Missed.active = tracker.active \/ Missed.active = "HomeHub"
        /\ Missed.affirmed = tracker.affirmed
    BY <1>1 DEF Missed, Trackers
  <2> QED BY <1>1, <1>6, <2>1, <2>2
<1> QED BY <1>2, <1>3, <1>4, <1>5, <1>6

LEMMA OpenedMap ==
  ASSUME LifeInv, ScopeInv
  PROVE  /\ Opened.active = "Altherma4" => Opened.affirmed = "Altherma4"
         /\ Opened.affirmed = "Altherma4" => turn.of \in Native
<1>1. tracker \in Trackers BY DEF ScopeInv, DataShape
<1>2. CASE tracker.of # turn.of BY <1>2 DEF Opened, Untracked
<1>3. CASE tracker.of = turn.of
  <2>1. /\ Opened.affirmed = tracker.affirmed
        /\ Opened.active \in {tracker.affirmed, "HomeHub", "Auto"}
    BY <1>1, <1>3 DEF Opened, Trackers
  <2> QED BY <1>3, <2>1 DEF ScopeInv, MapInv
<1> QED BY <1>2, <1>3

(* What the steps of a cycle do to the map, the tracker and the socket.     *)
Quiet == Begins \/ Targets \/ Captures \/ Reuses \/ Refused \/ Dials \/ Unreached \/ Outdated
         \/ GivesUp \/ Throws \/ Judges \/ Records \/ Caches \/ Reports \/ Unprobed

LEMMA QuietMap ==
  ASSUME LifeInv, ScopeInv, Quiet
  PROVE  /\ UNCHANGED <<tracker, profile>>
         /\ sock' = sock \/ sock' = NoGateway
         /\ shown'.s.map = shown.s.map /\ shown'.s.of = shown.s.of
         /\ turn'.map = turn.map \/ turn'.map = "Auto"
         /\ turn'.pc = "begun" => turn'.map = "Auto"
         /\ turn'.of = turn.of \/ turn'.map = "Auto"
         /\ turn'.pc = "dialling" => turn'.of \in Gateways
         /\ turn'.pc \in Linked => /\ turn'.of = turn.of
                                   /\ turn.pc \in Linked \/ (turn.of # NoGateway /\ sock = turn.of)
<1> USE DEF At, Goes, Shows, Linked, ScopeInv, DataShape
<1>0. /\ turn \in Turns /\ shown \in [s : Statuses, link : Nat] /\ saved \in Named
      /\ turn.pc = "begun" => turn.map = "Auto"
      /\ turn.pc = "dialling" => turn.of \in Gateways
      /\ turn.of \in Gateways \/ turn.of = NoGateway
  BY DEF LifeInv, MapInv, FormShape, Turns, Named
<1>1. CASE Begins BY <1>0, <1>1 DEF Begins, Rested, Turns
<1>2. CASE Targets BY <1>0, <1>2 DEF Targets, Turns
<1>3. CASE Captures \/ Reuses \/ Outdated \/ Unprobed
  BY <1>0, <1>3, ZenonT(60) DEF Captures, Reuses, Outdated, Unprobed, Turns
<1>4. CASE Refused \/ Unreached
  <2> HIDE DEF Shows
  <2>1. shown.s \in Statuses BY <1>0
  <2>2. PICK s : /\ Shows(s) /\ Goes("failed") /\ UNCHANGED <<tracker, profile, sock>>
                 /\ s \in {shown.s, [shown.s EXCEPT !.connected = FALSE, !.error = turn.of]}
    BY <1>4 DEF Refused, Unreached
  <2>3. shown'.s = s BY <2>2, ShownStatus
  <2>4. s.map = shown.s.map /\ s.of = shown.s.of BY <2>1, <2>2 DEF Statuses
  <2> QED BY <1>0, <2>2, <2>3, <2>4 DEF Turns
<1>5. CASE Dials BY <1>0, <1>5 DEF Dials, Turns, Statuses
<1>6. CASE GivesUp \/ Throws BY <1>0, <1>6 DEF GivesUp, Throws, Turns, Statuses
<1>7. CASE Records \/ Caches BY <1>0, <1>7 DEF Records, Caches, Turns
<1>8. CASE Judges BY <1>0, <1>8 DEF Judges, Turns
<1>9. CASE Reports
  <2>1. Reported.map = shown.s.map /\ Reported.of = shown.s.of BY <1>0 DEF Reported, Statuses
  <2> QED BY <1>0, <1>9, <2>1 DEF Reports, Rested
<1> QED BY <1>1, <1>2, <1>3, <1>4, <1>5, <1>6, <1>7, <1>8, <1>9 DEF Quiet

LEMMA CycleMap == ASSUME LifeInv, ScopeInv, CycleStep PROVE MapInv'
<1> USE DEF ScopeInv
<1>0. turn \in Turns /\ MapInv /\ DataShape /\ NoGateway \notin Gateways
  BY HubAssumption DEF LifeInv
<1>1. cache'.map = "Altherma4" => cache'.of \in Native
  BY <1>0, CycleCache DEF Empty, MapInv
<1>2. CASE Quiet
  BY <1>0, <1>1, <1>2, QuietMap DEF MapInv, Turns, Named
<1>3. CASE Connects
  <2>1. /\ turn.pc = "dialling" /\ turn'.pc = "opening" /\ turn'.of = turn.of
        /\ turn'.map = turn.map /\ sock' = turn.of /\ shown' = shown
        /\ tracker' = Opened /\ profile' = Opened.active
    BY <1>0, <1>3 DEF Connects, At, Goes, Turns
  <2> QED BY <1>0, <1>1, <2>1, OpenedMap, OpenedShape DEF MapInv
<1>4. CASE Opens
  <2>1. /\ turn.pc = "opening" /\ turn'.of = turn.of /\ turn'.map = turn.map
        /\ turn'.pc \in {"linked", "failed"}
        /\ sock' = sock \/ sock' = NoGateway
        /\ UNCHANGED <<tracker, profile>>
    BY <1>0, <1>4 DEF Opens, At, Goes, Turns
  <2>2. \/ shown' = shown
        \/ shown'.s.map = profile /\ shown'.s.of = turn.of
    <3>1. CASE Ours
      <4>1. shown.s \in Statuses BY DEF DataShape
      <4>2. shown'.s = [shown.s EXCEPT !.connected = FALSE, !.observed = FALSE, !.map = profile,
                                       !.of = turn.of]
        BY <1>4, <3>1 DEF Opens
      <4> QED BY <4>1, <4>2 DEF Statuses
    <3>2. CASE ~Ours BY <1>4, <3>2 DEF Opens
    <3> QED BY <3>1, <3>2
  <2> QED BY <1>0, <1>1, <2>1, <2>2 DEF MapInv, Linked
<1>5. CASE Publishes
  <2>1. /\ turn.pc = "cached" /\ turn'.pc = "published" /\ turn'.of = turn.of /\ turn'.map = turn.map
        /\ shown'.s = Published /\ UNCHANGED <<sock, tracker, profile>>
    BY <1>0, <1>5 DEF Publishes, At, Shows, Turns, DataShape
  <2>2. \/ Published.map = profile /\ Published.of = turn.of
        \/ Published.map = shown.s.map /\ Published.of = shown.s.of
    BY <1>0 DEF Published, DataShape, Statuses
  <2> QED BY <1>0, <1>1, <2>1, <2>2 DEF MapInv, Linked
<1>6. ASSUME NEW broken \in BOOLEAN, NEW answered \in SUBSET Asked, Sweeps(answered, broken) PROVE MapInv'
  <2>1. /\ turn.pc = "linked" /\ turn'.pc = "swept" /\ turn'.of = turn.of /\ turn'.map = profile
        /\ sock' = sock \/ sock' = NoGateway
        /\ UNCHANGED <<tracker, profile>>
    BY <1>0, <1>6 DEF Sweeps, At, Turns
  <2>2. shown'.s.map = shown.s.map /\ shown'.s.of = shown.s.of
    BY <1>0, <1>6 DEF Sweeps, Shows, DataShape, Statuses
  <2> QED BY <1>0, <1>1, <2>1, <2>2 DEF MapInv, Linked
<1>7. ASSUME NEW a \in ProbeAnswers(turn.of), Probes(a) PROVE MapInv'
  <2>1. /\ turn.pc = "swept" /\ turn'.pc = "probed" /\ turn'.of = turn.of
        /\ turn'.map = turn.map \/ (turn'.map = "Altherma4" /\ a = "pressure")
        /\ sock' = sock \/ sock' = NoGateway
        /\ tracker' = Judged(a) /\ profile' \in {profile, Judged(a).active}
    BY <1>0, <1>7 DEF Probes, At, Turns
  <2>2. shown'.s.map = shown.s.map /\ shown'.s.of = shown.s.of
    BY <1>0, <1>7 DEF Probes, Shows, DataShape, Statuses
  <2> QED BY <1>0, <1>1, <2>1, <2>2, JudgedMap, JudgedShape DEF MapInv, Linked
<1> QED BY <1>2, <1>3, <1>4, <1>5, <1>6, <1>7, Zenon DEF CycleStep, Quiet

LEMMA OtherMap ==
  ASSUME LifeInv, ScopeInv, LifeStep \/ FormStep \/ AsideStep PROVE MapInv'
<1> USE DEF ScopeInv
<1>0. turn \in Turns /\ MapInv /\ DataShape BY DEF LifeInv
<1>1. cache' = cache \/ cache' = Empty
  BY DEF LifeStep, Enters, Retires, Clears, Leaves, LooksBack, FormStep, Saves, FormResets,
         FormEnables, FormBumps, FormClears, FormStarts, AsideStep, RetryDue, Copies, Answers
<1>2. /\ profile' = profile
      /\ sock' = sock \/ sock' = NoGateway
      /\ tracker' = tracker \/ tracker' = [tracker EXCEPT !.wait = "over"]
  BY DEF LifeStep, Enters, Retires, Clears, Leaves, LooksBack, FormStep, Saves, FormResets,
         FormEnables, FormBumps, FormClears, FormStarts, AsideStep, RetryDue, Copies, Answers,
         taskVars
<1>3. tracker'.of = tracker.of /\ tracker'.active = tracker.active
      /\ tracker'.affirmed = tracker.affirmed
  BY <1>0, <1>2 DEF DataShape, Trackers
<1>4. shown' = shown \/ (shown'.s.map = shown.s.map /\ shown'.s.of = shown.s.of)
        \/ shown'.s.map = "Auto"
  <2>1. CASE Retires \/ Leaves
    <3>1. shown.s \in Statuses BY <1>0 DEF DataShape
    <3>2. PICK s \in {[shown.s EXCEPT !.connected = FALSE, !.observed = FALSE],
                      [shown.s EXCEPT !.values = 0, !.observed = FALSE]} : Shows(s)
      BY <2>1 DEF Retires, Leaves
    <3>3. s.map = shown.s.map /\ s.of = shown.s.of BY <3>1, <3>2 DEF Statuses
    <3> QED BY <1>0, <3>2, <3>3, ShownStatus
  <2>2. CASE FormBumps BY <1>0, <2>2 DEF FormBumps, Shows, Cleared, DataShape
  <2>3. CASE ~(Retires \/ Leaves \/ FormBumps)
    BY <2>3 DEF LifeStep, Enters, Clears, LooksBack, FormStep, Saves, FormResets,
         FormEnables, FormClears, FormStarts, AsideStep, RetryDue, Copies, Answers
  <2> QED BY <2>1, <2>2, <2>3
<1>5. \/ turn' = turn
      \/ turn'.map = "Auto" /\ turn'.pc \notin Linked \cup {"dialling"}
      \/ turn'.map = turn.map /\ turn'.of = turn.of /\ turn'.pc \in {"idle", "retiring", "cleared"}
  <2>1. CASE Enters \/ Retires \/ Clears
    BY <1>0, <2>1 DEF Enters, Retires, Clears, Goes, Turns
  <2>2. CASE Leaves BY <2>2 DEF Leaves, Rested, Linked
  <2>3. CASE LooksBack \/ FormStarts
    BY <2>3 DEF LooksBack, FormStarts, StartsTask, Rested, Linked
  <2>4. CASE ~(Enters \/ Retires \/ Clears \/ Leaves \/ LooksBack \/ FormStarts)
    BY <2>4 DEF LifeStep, FormStep, Saves, FormResets, FormEnables, FormBumps, FormClears,
         AsideStep, RetryDue, Copies, Answers, taskVars
  <2> QED BY <2>1, <2>2, <2>3, <2>4
<1>6. /\ (sock # NoGateway => tracker.of = sock)'
      /\ (tracker.active = "Altherma4" => tracker.affirmed = "Altherma4")'
      /\ (tracker.affirmed = "Altherma4" => tracker.of \in Native)'
      /\ (profile = "Altherma4" => tracker.of \in Native)'
  BY <1>0, <1>2, <1>3 DEF MapInv
<1>7. (cache.map = "Altherma4" => cache.of \in Native)' BY <1>0, <1>1 DEF MapInv, Empty
<1>8. (shown.s.map = "Altherma4" => shown.s.of \in Native)' BY <1>0, <1>4 DEF MapInv
<1>9. /\ (turn.pc \in Linked => turn.of \in Gateways /\ tracker.of = turn.of)'
      /\ (turn.pc = "dialling" => turn.of \in Gateways)'
      /\ (turn.map = "Altherma4" => turn.of \in Native)'
      /\ (turn.pc = "begun" => turn.map = "Auto")'
  BY <1>0, <1>3, <1>5 DEF MapInv, Linked
<1> QED BY <1>6, <1>7, <1>8, <1>9 DEF MapInv

-----------------------------------------------------------------------------
(* What the status says is of a gateway to be expected.                     *)

LEMMA ExpectedKept ==
  ASSUME LifeInv, CycleStep \/ LifeStep \/ FormStep \/ AsideStep, ScopeInv, ~FormBumps
  PROVE  Expected \subseteq Expected'
<1> USE DEF Expected
<1>1. CASE CycleStep BY <1>1, CycleTurn DEF formVars
<1>2. CASE LifeStep \/ AsideStep
  BY <1>2 DEF LifeStep, Enters, Retires, Clears, Leaves, LooksBack, AsideStep, RetryDue, Copies,
              Answers, formVars
<1>3. CASE \E g \in Named : Saves(g) BY <1>3 DEF Saves
<1>4. CASE FormResets \/ FormEnables \/ FormClears \/ FormStarts
  BY <1>4 DEF FormResets, FormEnables, FormClears, FormStarts, InForm, LifeInv, FormShape, Forms
<1> QED BY <1>1, <1>2, <1>3, <1>4 DEF FormStep

(* A step that writes no gate, no error and no new gateway into the status, *)
(* or the one whose generation the status' lock found to be the target's.   *)
LEMMA ShownSteps ==
  ASSUME LifeInv, ScopeInv, CycleStep \/ LifeStep \/ FormStep \/ AsideStep
  PROVE  \/ shown'.s = Cleared
         \/ /\ shown'.s.gate = shown.s.gate \/ shown'.s.gate = NoGateway
                 \/ (Ours /\ turn.pc \in Aimed /\ shown'.s.gate = turn.of)
            /\ shown'.s.error = shown.s.error \/ shown'.s.error = NoGateway
                 \/ (Ours /\ turn.pc \in Aimed /\ shown'.s.error = turn.of)
            /\ shown'.s.connected =>
                 \/ Ours /\ turn.pc \in Aimed /\ shown'.s.of = turn.of
                 \/ shown.s.connected /\ shown'.s.of = shown.s.of
<1> DEFINE Goal ==
      \/ shown'.s = Cleared
      \/ /\ shown'.s.gate = shown.s.gate \/ shown'.s.gate = NoGateway
              \/ (Ours /\ turn.pc \in Aimed /\ shown'.s.gate = turn.of)
         /\ shown'.s.error = shown.s.error \/ shown'.s.error = NoGateway
              \/ (Ours /\ turn.pc \in Aimed /\ shown'.s.error = turn.of)
         /\ shown'.s.connected =>
              \/ Ours /\ turn.pc \in Aimed /\ shown'.s.of = turn.of
              \/ shown.s.connected /\ shown'.s.of = shown.s.of
<1> SUFFICES Goal OBVIOUS
<1>0. DataShape /\ shown.s \in Statuses BY DEF ScopeInv, DataShape
<1>1. CASE shown' = shown BY <1>1
<1>2. CASE FormBumps BY <1>0, <1>2, ShownStatus DEF FormBumps
<1>3. CASE Retires \/ Dials \/ Leaves \/ GivesUp \/ Throws
  <2>1. PICK s : /\ Shows(s)
                 /\ \/ s = [shown.s EXCEPT !.connected = FALSE, !.observed = FALSE]
                    \/ s = [shown.s EXCEPT !.values = 0, !.observed = FALSE]
                    \/ s = [shown.s EXCEPT !.connected = FALSE, !.observed = FALSE, !.error = NoGateway]
                    \/ s = [shown.s EXCEPT !.values = 0]
                    \/ s = [shown.s EXCEPT !.observed = FALSE]
    BY <1>3 DEF Retires, Dials, Leaves, GivesUp, Throws
  <2>2. shown'.s = s BY <1>0, <2>1, ShownStatus
  <2>3. /\ s.gate = shown.s.gate /\ s.of = shown.s.of
        /\ s.error = shown.s.error \/ s.error = NoGateway
        /\ s.connected => shown.s.connected
    BY <1>0, <2>1 DEF Statuses
  <2> QED BY <2>2, <2>3
<1>4. CASE Refused \/ Unreached
  <2>1. PICK s : /\ Shows(s) /\ turn.pc \in Aimed
                 /\ s = IF Ours THEN [shown.s EXCEPT !.connected = FALSE, !.error = turn.of]
                        ELSE shown.s
    BY <1>4 DEF Refused, Unreached, At, Aimed
  <2>2. shown'.s = s BY <1>0, <2>1, ShownStatus
  <2>3. \/ s = shown.s
        \/ Ours /\ s.gate = shown.s.gate /\ s.error = turn.of /\ s.connected = FALSE
    BY <1>0, <2>1 DEF Statuses
  <2> QED BY <2>1, <2>2, <2>3
<1>5. CASE Opens
  <2>1. CASE ~Ours BY <1>5, <2>1 DEF Opens
  <2>2. CASE Ours
    <3>1. shown'.s = [shown.s EXCEPT !.connected = FALSE, !.observed = FALSE, !.map = profile,
                                     !.of = turn.of]
      BY <1>5, <2>2 DEF Opens
    <3>2. shown'.s.gate = shown.s.gate /\ shown'.s.error = shown.s.error /\ shown'.s.connected = FALSE
      BY <1>0, <3>1 DEF Statuses
    <3> QED BY <3>2
  <2> QED BY <2>1, <2>2
<1>6. ASSUME NEW broken \in BOOLEAN, NEW answered \in SUBSET Asked, Sweeps(answered, broken) PROVE Goal
  <2>1. PICK s : /\ Shows(s)
                 /\ s = IF broken THEN [shown.s EXCEPT !.connected = FALSE] ELSE shown.s
    BY <1>6 DEF Sweeps
  <2>2. shown'.s = s BY <1>0, <2>1, ShownStatus
  <2>3. s = shown.s \/ (s.gate = shown.s.gate /\ s.error = shown.s.error /\ s.connected = FALSE)
    BY <1>0, <2>1 DEF Statuses
  <2> QED BY <2>2, <2>3
<1>7. ASSUME NEW a \in ProbeAnswers(turn.of), Probes(a) PROVE Goal
  <2>1. PICK s : /\ Shows(s)
                 /\ s = IF a = "lost" THEN [shown.s EXCEPT !.connected = FALSE] ELSE shown.s
    BY <1>7 DEF Probes
  <2>2. shown'.s = s BY <1>0, <2>1, ShownStatus
  <2>3. s = shown.s \/ (s.gate = shown.s.gate /\ s.error = shown.s.error /\ s.connected = FALSE)
    BY <1>0, <2>1 DEF Statuses
  <2> QED BY <2>2, <2>3
<1>8. CASE Publishes
  <2>1. shown'.s = Published /\ turn.pc \in Aimed
    BY <1>0, <1>8, ShownStatus DEF Publishes, At, Aimed, Linked
  <2>2. Published.error = shown.s.error BY <1>0 DEF Published, Statuses
  <2>3. Published.gate = NoGateway \/ (Ours /\ Published.gate = turn.of)
    BY <1>0 DEF Published, Current, Statuses
  <2>4. Published.connected => Ours /\ Published.of = turn.of
    BY <1>0 DEF Published, Current, Statuses
  <2> QED BY <2>1, <2>2, <2>3, <2>4
<1>9. CASE Reports
  <2>1. shown'.s = Reported /\ turn.pc \in Aimed
    BY <1>0, <1>9, ShownStatus DEF Reports, At, Aimed, Linked
  <2>2. /\ Reported.gate = shown.s.gate /\ Reported.of = shown.s.of
        /\ Reported.connected => shown.s.connected
        /\ \/ Reported.error = shown.s.error \/ Reported.error = NoGateway
           \/ Ours /\ Reported.error = turn.of
    <3>1. CASE ~Ours BY <3>1 DEF Reported
    <3>2. CASE Ours /\ turn.error # "none" BY <1>0, <3>2 DEF Reported, Statuses
    <3>3. CASE Ours /\ turn.error = "none" BY <1>0, <3>3 DEF Reported, Statuses
    <3> QED BY <3>1, <3>2, <3>3
  <2> QED BY <2>1, <2>2
<1>10. CASE ~(FormBumps \/ Retires \/ Dials \/ Leaves \/ GivesUp \/ Throws \/ Refused \/ Unreached
              \/ Opens \/ Publishes \/ Reports)
       /\ ~(\E broken \in BOOLEAN : \E answered \in SUBSET Asked : Sweeps(answered, broken))
       /\ ~(\E a \in ProbeAnswers(turn.of) : Probes(a))
  <2>1. shown' = shown
    BY <1>10 DEF CycleStep, Begins, Targets, Captures, Reuses, Outdated, Connects, Judges, Records,
         Caches, Unprobed, LifeStep, Enters, Clears, LooksBack, FormStep, Saves, FormResets,
         FormEnables, FormClears, FormStarts, AsideStep, RetryDue, Copies, Answers
  <2> QED BY <1>1, <2>1
<1> HIDE DEF Goal
<1> QED BY <1>2, <1>3, <1>4, <1>5, <1>6, <1>7, <1>8, <1>9, <1>10

LEMMA ShownNext ==
  ASSUME LifeInv, ScopeInv, CycleStep \/ LifeStep \/ FormStep \/ AsideStep
  PROVE  ShownInv'
<1>1. ShownInv /\ StampInv BY DEF ScopeInv
<1>2. turn.pc \in Aimed /\ Ours => turn.of \in Expected BY <1>1 DEF StampInv, Stamped, Ours
<1>3. CASE FormBumps
  <2>1. shown'.s = Cleared BY <1>3, ShownStatus DEF FormBumps, ScopeInv
  <2> QED BY <2>1 DEF ShownInv, Cleared
<1>4. CASE ~FormBumps
  <2>1. Expected \subseteq Expected' BY <1>4, ExpectedKept
  <2>2. CASE shown'.s = Cleared BY <2>2 DEF ShownInv, Cleared
  <2>3. CASE shown'.s # Cleared
    BY <1>1, <1>2, <2>1, <2>3, ShownSteps DEF ShownInv
  <2> QED BY <2>2, <2>3
<1> QED BY <1>3, <1>4

(* The invariant of what is served and shown, with the task's life.         *)
LEMMA ScopeNext ==
  ASSUME LifeInv, ScopeInv, HubNext PROVE LifeInv' /\ ScopeInv'
<1>1. CycleStep \/ LifeStep \/ FormStep \/ AsideStep
  BY Zenon DEF HubNext, HubTask, HubForm, CycleStep, LifeStep, FormStep, AsideStep, Named
<1>2. LifeInv' BY <1>1, LifeNext, AsideLife
<1>3. DataShape' BY <1>1, CycleShape, OtherShape
<1>4. StampInv' BY <1>1, StampNext
<1>5. MapInv' BY <1>1, CycleMap, OtherMap
<1>6. ShownInv' BY <1>1, ShownNext
<1> QED BY <1>2, <1>3, <1>4, <1>5, <1>6 DEF ScopeInv

-----------------------------------------------------------------------------
(* What the rings take is of the gateway they are named for, when no        *)
(* request is answered while the form is between its calls.                 *)

LEMMA RingsNext ==
  ASSUME Prompt, HubIInv, HubNext PROVE SweptInv' /\ RingsScoped'
<1> USE DEF At, Goes
<1>0. /\ turn \in Turns /\ DataShape /\ SweptInv /\ RingsScoped /\ targetGen \in Nat
      /\ rings.gen \in Nat /\ turn.ringGen \in Nat /\ rings.of \in Named
      /\ form \in Forms /\ saved \in Named /\ turn.gen <= targetGen /\ turn.gen \in Nat
      /\ rings.samples \in SUBSET Gateways
  BY DEF HubIInv, LifeInv, ScopeInv, FormShape, DataShape, Turns, StampInv
<1> DEFINE Goal == SweptInv' /\ RingsScoped'
<1> SUFFICES Goal OBVIOUS
<1>A. ASSUME UNCHANGED <<saved, form, targetGen, rings>>, turn'.ringGen <= rings.gen,
             turn'.pc \notin {"swept", "probed", "judged"}
      PROVE  Goal
  BY <1>0, <1>A DEF SweptInv, RingsScoped
<1>B. ASSUME UNCHANGED <<saved, form, targetGen, turn, rings>> PROVE Goal
  BY <1>0, <1>B DEF SweptInv, RingsScoped, Ours
<1>1. CASE Begins \/ Reports \/ Leaves
  <2>1. turn'.ringGen = 0 /\ turn'.pc \notin {"swept", "probed", "judged"}
    <3>1. \/ turn' = [Rested EXCEPT !.pc = "begun", !.gen = targetGen]
          \/ turn' = [Rested EXCEPT !.pc = "idle"]
          \/ turn' = Rested
      BY <1>1 DEF Begins, Reports, Leaves
    <3>2. Rested \in Turns /\ Rested.ringGen = 0 /\ Rested.pc = "none"
      BY HubAssumption DEF Rested, Turns, Named, Maps, Regs
    <3> QED BY <3>1, <3>2 DEF Turns
  <2>2. UNCHANGED <<saved, form, targetGen, rings>>
    BY <1>1 DEF Begins, Reports, Leaves, formVars
  <2> QED BY <1>0, <2>1, <2>2, <1>A
<1>2. CASE Captures \/ Reuses \/ Refused \/ Dials \/ Unreached \/ Outdated \/ Connects \/ Throws
           \/ Caches \/ Publishes \/ Enters \/ Retires \/ Clears
  <2>1. turn'.ringGen <= rings.gen /\ turn'.pc \notin {"swept", "probed", "judged"}
    <3>1. CASE Captures BY <1>0, <3>1 DEF Captures, Turns
    <3>2. CASE Publishes BY <1>0, <3>2 DEF Publishes, SweptInv, Turns
    <3>3. CASE ~(Captures \/ Publishes)
      <4>1. \E step \in {"linked", "failed", "dialling", "opening", "idle", "cached", "retiring",
                       "cleared"} : Goes(step)
        BY <1>2, <3>3 DEF Reuses, Refused, Dials, Unreached, Outdated, Connects, Throws, Caches,
           Enters, Retires, Clears
      <4> QED BY <1>0, <4>1 DEF SweptInv, Turns
    <3> QED BY <3>1, <3>2, <3>3
  <2>2. UNCHANGED <<saved, form, targetGen, rings>>
    BY <1>2 DEF Captures, Reuses, Refused, Dials, Unreached, Outdated, Connects, Throws, Caches,
       Publishes, Enters, Retires, Clears, formVars
  <2> QED BY <2>1, <2>2, <1>A
<1>3. CASE Opens
  <2>1. turn'.ringGen <= rings.gen /\ turn'.pc \in {"linked", "failed"}
    BY <1>0, <1>3 DEF Opens, SweptInv, Turns
  <2> QED BY <1>3, <2>1, <1>A DEF Opens, formVars
<1>4. CASE Targets
  <2>1. /\ turn'.pc = "aimed" /\ turn'.ringGen = turn.ringGen
        /\ rings' = rings \/ rings' = NewRings(saved)
        /\ UNCHANGED <<saved, form, targetGen>>
    BY <1>0, <1>4 DEF Targets, Turns, formVars
  <2>2. CASE rings' = rings BY <1>0, <2>1, <2>2, <1>A DEF SweptInv
  <2>3. CASE rings' = NewRings(saved)
    BY <1>0, <2>1, <2>3, RingsShape DEF SweptInv, RingsScoped
  <2> QED BY <2>1, <2>2, <2>3
<1>5. CASE GivesUp
  <2>1. /\ turn'.pc = "idle" /\ turn'.ringGen = turn.ringGen /\ rings' = Consumed({})
        /\ UNCHANGED <<saved, form, targetGen>>
    BY <1>0, <1>5 DEF GivesUp, Turns, formVars
  <2>2. rings'.gen = rings.gen /\ rings'.of = rings.of BY <1>0, <2>1, ConsumedShape
  <2>3. SweptInv' BY <1>0, <2>1, <2>2 DEF SweptInv
  <2>4. ~rings'.pending => rings'.samples \subseteq {rings.of}
    BY <1>0, <2>1 DEF Consumed, RingsScoped, DataShape
  <2> QED BY <1>0, <2>1, <2>2, <2>3, <2>4 DEF RingsScoped
<1>6. ASSUME NEW broken \in BOOLEAN, NEW answered \in SUBSET Asked, Sweeps(answered, broken) PROVE Goal
  <2>1. /\ turn.pc = "linked" /\ turn'.pc = "swept" /\ turn'.ringGen = turn.ringGen
        /\ turn'.of = turn.of /\ turn'.gen = turn.gen /\ MayAnswer
        /\ UNCHANGED <<saved, form, targetGen, rings>>
    BY <1>0, <1>6 DEF Sweeps, Turns, formVars
  <2>2. Ours => turn.of \in Expected
    BY <2>1 DEF HubIInv, ScopeInv, StampInv, Stamped, Ours, Aimed, Linked
  <2>3. Ours => turn.of = rings.of BY <1>0, <2>1, <2>2 DEF MayAnswer, Expected, RingsScoped
  <2> QED BY <1>0, <2>1, <2>3 DEF SweptInv, RingsScoped, Ours
<1>7. CASE Unprobed \/ \E a \in ProbeAnswers(turn.of) : Probes(a)
  <2>1. /\ turn.pc = "swept" /\ turn'.pc = "probed" /\ turn'.ringGen = turn.ringGen
        /\ turn'.of = turn.of /\ turn'.gen = turn.gen
        /\ UNCHANGED <<saved, form, targetGen, rings>>
    BY <1>0, <1>7, ZenonT(60) DEF Unprobed, Probes, Turns, formVars
  <2> QED BY <1>0, <2>1 DEF SweptInv, RingsScoped, Ours
<1>8. CASE Judges
  <2> DEFINE current == Current
  <2>1. /\ turn.pc = "probed" /\ UNCHANGED <<saved, form, targetGen, rings>>
        /\ \E step \in {"judged", "cached"} : turn' = [turn EXCEPT !.pc = step, !.current = current]
        /\ current => Ours
    BY <1>8 DEF Judges, Current, formVars
  <2> HIDE DEF current
  <2>2. /\ turn'.pc \in {"judged", "cached"} /\ turn'.ringGen = turn.ringGen /\ turn'.of = turn.of
        /\ turn'.current = current
    BY <1>0, <2>1 DEF Turns
  <2> QED BY <1>0, <2>1, <2>2 DEF SweptInv, RingsScoped
<1>9. CASE Records
  <2> DEFINE sample == IF turn.current /\ "row" \in turn.fresh THEN {turn.of} ELSE {}
  <2>1. /\ turn.pc = "judged" /\ turn'.pc = "recorded" /\ turn'.ringGen = turn.ringGen
        /\ rings' = Consumed(sample) /\ UNCHANGED <<saved, form, targetGen>>
    BY <1>0, <1>9 DEF Records, Turns, formVars
  <2>2. sample \in SUBSET Gateways
    BY <2>1 DEF HubIInv, ScopeInv, MapInv, Linked
  <2>3. turn.ringGen = rings.gen => sample \subseteq {rings.of} BY <1>0, <2>1 DEF SweptInv
  <2> HIDE DEF sample
  <2>4. rings'.gen = rings.gen /\ rings'.of = rings.of BY <1>0, <2>1, <2>2, ConsumedShape
  <2>5. SweptInv' BY <1>0, <2>1, <2>4 DEF SweptInv
  <2>6. ~rings'.pending => rings'.samples \subseteq {rings.of}
    BY <1>0, <2>1, <2>3 DEF Consumed, RingsScoped, DataShape
  <2> QED BY <1>0, <2>1, <2>4, <2>5, <2>6 DEF RingsScoped
<1>10. CASE LooksBack \/ FormStarts
  <2>1. /\ turn' = turn \/ turn' = [Rested EXCEPT !.pc = "entry"]
        /\ UNCHANGED <<saved, targetGen, rings>>
        /\ form' = form \/ (form.pc = "starts" /\ form' = [form EXCEPT !.pc = "idle"])
    BY <1>10 DEF LooksBack, FormStarts, StartsTask, InForm, formVars
  <2>2. RingsScoped' BY <1>0, <2>1 DEF RingsScoped
  <2>3. turn' = turn \/ (turn'.pc = "entry" /\ turn'.ringGen = 0) BY <2>1 DEF Rested
  <2> QED BY <1>0, <2>1, <2>2, <2>3 DEF SweptInv, Ours
<1>11. ASSUME NEW g \in Named, Saves(g) PROVE Goal
  BY <1>0, <1>11 DEF Saves, taskVars, SweptInv, RingsScoped, Ours
<1>12. CASE FormResets
  <2>1. rings' = NewRings(saved) /\ UNCHANGED <<saved, turn>> BY <1>12 DEF FormResets, taskVars
  <2> QED BY <1>0, <2>1, RingsShape DEF SweptInv, RingsScoped
<1>13. CASE FormEnables \/ FormClears
  <2>1. /\ UNCHANGED <<saved, targetGen, turn, rings>> /\ form.pc # "saved"
    BY <1>13 DEF FormEnables, FormClears, InForm, taskVars
  <2> QED BY <1>0, <2>1 DEF SweptInv, RingsScoped, Ours
<1>14. CASE FormBumps
  <2>1. /\ UNCHANGED <<saved, turn, rings>> /\ form.pc # "saved" /\ targetGen' = targetGen + 1
    BY <1>14 DEF FormBumps, InForm, taskVars
  <2> QED BY <1>0, <2>1 DEF SweptInv, RingsScoped, Ours
<1>15. CASE RetryDue \/ Copies \/ Answers
  BY <1>15, <1>B DEF RetryDue, Copies, Answers, formVars, taskVars
<1> HIDE DEF Goal
<1> QED
  BY <1>1, <1>2, <1>3, <1>4, <1>5, <1>6, <1>7, <1>8, <1>9, <1>10, <1>11, <1>12, <1>13, <1>14, <1>15,
     Zenon DEF HubNext, HubTask, HubForm, Named

-----------------------------------------------------------------------------
LEMMA HubStutter ==
  ASSUME UNCHANGED hubVars
  PROVE  /\ LifeInv => LifeInv' /\ (ScopeInv => ScopeInv')
         /\ HubIInv => HubIInv'
<1> USE DEF hubVars
<1>1. LifeInv => LifeInv' BY DEF LifeInv, FormShape, LifeShape, Retirements, Leaving
<1>2. ScopeInv => ScopeInv'
  <2>1. DataShape => DataShape' BY DEF DataShape
  <2>2. StampInv => StampInv' BY DEF StampInv, Stamped, Expected
  <2>3. MapInv => MapInv' BY DEF MapInv
  <2>4. ShownInv => ShownInv' BY DEF ShownInv, Expected
  <2> QED BY <2>1, <2>2, <2>3, <2>4 DEF ScopeInv
<1>3. SweptInv => SweptInv' BY DEF SweptInv, Ours
<1>4. RingsScoped => RingsScoped' BY DEF RingsScoped
<1> QED BY <1>1, <1>2, <1>3, <1>4 DEF HubIInv

(* A saved gateway has its one task as soon as the handlers and the retired *)
(* tasks are through (mb_task_start_if_enabled, the end of mb_task), with   *)
(* any number of saves and whatever the requests meet.                      *)
THEOREM SavedGatewayIsServed == HubSpec => []OneHubTask
<1>1. HubInit => LifeInv /\ ScopeInv BY HubInitIInv DEF HubIInv
<1>2. LifeInv /\ ScopeInv /\ [HubNext]_hubVars => (LifeInv /\ ScopeInv)'
  BY ScopeNext, HubStutter
<1>3. LifeInv => OneHubTask BY DEF LifeInv, LifeShape, OneHubTask
<1> QED BY <1>1, <1>2, <1>3, PTL DEF HubSpec

(* The inductive invariant, when no request is answered while the form is   *)
(* between its calls.                                                       *)
THEOREM HubInductive == ASSUME Prompt PROVE HubSpec => []HubIInv
<1>1. HubInit => HubIInv BY HubInitIInv
<1>2. HubIInv /\ [HubNext]_hubVars => HubIInv'
  BY ScopeNext, RingsNext, HubStutter DEF HubIInv
<1> QED BY <1>1, <1>2, PTL DEF HubSpec

(* A snapshot that passes for live, the status and the trend rings are of   *)
(* the gateway that is saved (mb_values_snapshot, status_after_cycle,       *)
(* history_record_modbus), when no request is answered while the form is    *)
(* between its calls.                                                       *)
THEOREM HubIsOfTheSavedGateway == ASSUME Prompt PROVE HubSpec => []HubScoped
<1>1. HubIInv => HubScoped
  <2> SUFFICES ASSUME HubIInv PROVE HubScoped OBVIOUS
  <2> USE DEF HubIInv, LifeInv, ScopeInv
  <2>1. HubTypeOK
    <3>1. parting \in 0..MaxForms
      BY HubAssumption DEF LifeShape, Retirements, Leaving, FormShape, Forms
    <3> QED BY <3>1 DEF HubTypeOK, FormShape, Named, DataShape, Turns, Trackers
  <2>2. ServedCurrent BY DEF ServedCurrent, Live, StampInv, Stamped, MapInv
  <2>3. StatusScoped BY DEF StatusScoped, ShownInv, MapInv
  <2> QED BY <2>1, <2>2, <2>3 DEF HubScoped
<1>2. HubSpec => []HubIInv BY HubInductive
<1> QED BY <1>1, <1>2, PTL
=============================================================================
