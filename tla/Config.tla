------------------------------- MODULE Config -------------------------------
(***************************************************************************)
(* The runtime configuration and its two writers: the httpd task, whose    *)
(* handlers save whole snapshots, and the poll task, whose detection sweep *)
(* commits the X10A link and then the model it proved (config.cpp,         *)
(* logic/config_transaction.hpp, logic/config_model.hpp, hp_poll.cpp).     *)
(*                                                                         *)
(* Flash holds two atomic entries: "cfg" with the service settings and     *)
(* "link" with the link cache.  The model is never stored.  Every write    *)
(* may fail, and the device may reset between any two steps.               *)
(*                                                                         *)
(* Abstractions: one value stands for all service fields a form carries    *)
(* together, one pad each for the indicator, the button and an enabled     *)
(* ENV III (None: absent), and a link is its set of two pads, RX/TX order  *)
(* and protocol left out.                                                  *)
(***************************************************************************)
EXTENDS Integers, FiniteSets

CONSTANTS
  Pads, None,             \* GPIO pads; "absent" (-1)
  LedPads, BtnPads, EnvPads, \* pads the forms try for each local part
  Links, DefaultLink,     \* pad pairs, and the build's default pair
  SeedLed,                \* the build's default indicator (pad or None)
  Values, DefaultValue,   \* what a service form may hold
  Models, AutoModel,      \* profiles, and the "auto" sentinel
  NoId,                   \* identity fingerprint 0: no identity
  Keep,                   \* a /set_hp key that was not sent
  Attempts,               \* SET_HP_SAVE_ATTEMPTS
  MaxRev                  \* bound on config revisions in one boot

ASSUME PadsAssumption ==
  /\ None \notin Pads
  /\ LedPads \subseteq Pads /\ BtnPads \subseteq Pads /\ EnvPads \subseteq Pads
  /\ Links \subseteq SUBSET Pads
  /\ DefaultLink \in Links
  /\ SeedLed \in Pads \cup {None}
ASSUME ValuesAssumption ==
  /\ DefaultValue \in Values
  /\ AutoModel \notin Models /\ Keep \notin Models \cup {AutoModel} \cup Links
  /\ NoId \notin Models \X Links
  /\ {Attempts, MaxRev} \subseteq Nat \ {0}

VARIABLES
  stage,      \* "off", "booting" (config_load .. http_start), "running"
  live, rev,  \* g_cfg and its runtime_revision
  unreadable, \* s_cfg_blob_unreadable
  yield,      \* s_load_yield: the pads load took from led and btn
  cfgState, cfgBlob,    \* the "cfg" entry: "absent", "bad" or "ok"
  linkState, linkBlob,  \* the "link" entry
  gen,        \* s_target_generation
  obs,        \* s_x10a_target_fp: the identity the observers record under
  http,       \* where the httpd task is; it holds g_mtx in "wrote"
  want, wantRev,  \* the request derived from its snapshot
  patch,      \* the parsed X10A /set_hp request
  attempt,    \* its save attempts so far
  tailId,     \* identity the handler's resets end on
  poll,       \* where the poll task is; it holds s_mtx in observe, model
  cycleGen, expRev, found, \* what the sweep captured, what it proved
  \* History, read by no action of the program:
  sess,       \* service value this boot runs on
  acked,      \* service value last loaded or answered "ok"
  doubt,      \* service value whose write has begun, else acked
  proven,     \* the link and identity last loaded, proved or stated
  linkLost    \* flash may hold another link: a write failed, or none loaded

flash  == <<cfgState, cfgBlob, linkState, linkBlob>>
config == <<live, rev, unreadable, yield>>
httpV  == <<http, want, wantRev, patch, attempt, tailId>>
pollV  == <<poll, cycleGen, expRev, found>>
promises == <<sess, acked, doubt, proven, linkLost>>
configVars == <<stage, config, flash, gen, obs, httpV, pollV, promises>>

-----------------------------------------------------------------------------
Parts      == Pads \cup {None}
Profiles   == Models \cup {AutoModel}
Identities == (Models \X Links) \cup {NoId}

Configs == [svc : Values, led : Parts, btn : Parts, env : Parts,
            link : Links, fp : Identities, profile : Profiles]
Blobs     == [svc : Values, led : Parts, btn : Parts, env : Parts]
LinkBlobs == [link : Links, fp : Identities]

SeedBlob == [svc |-> DefaultValue, led |-> SeedLed, btn |-> None, env |-> None]

(* history_x10a_identity: a profile and a link name one observed unit.      *)
Ident(m, l) == <<m, l>>

(* config_reserved_pins and, the other way round, a part on the link.       *)
Reserved(c) == {c.led, c.btn, c.env} \ {None}
CollidesWithLink(c) == Reserved(c) \cap c.link # {}

(* board_hw_valid without the link: no two local parts share a pad.         *)
BoardOK(c) ==
  /\ c.led # None => c.led \notin {c.btn, c.env}
  /\ c.btn # None => c.btn # c.env

-----------------------------------------------------------------------------
(* What a save does with a snapshot and with this boot's yields *)

StandingIgnoresClaims(y, c) ==                         \* mutant
  [led |-> IF c.led = None THEN y.led ELSE None,
   btn |-> IF c.btn = None THEN y.btn ELSE None]

(* config_yield_standing: a yield ends once the part is stated again or its *)
(* pad goes to another part.                                                *)
Standing(y, c) ==
  [led |-> IF c.led = None /\ y.led \notin {c.btn, c.env} THEN y.led ELSE None,
   btn |-> IF c.btn = None /\ y.btn \notin {c.led, c.env} THEN y.btn ELSE None]

BlobOfRam(c, y) ==                                     \* mutant
  [svc |-> c.svc, led |-> IF y = y THEN c.led ELSE None, btn |-> c.btn,
   env |-> c.env]

(* config_blob_from and config_blob_keep_yielded_pins.                      *)
BlobFrom(c, y) ==
  LET s == Standing(y, c)
  IN  [svc |-> c.svc,
       led |-> IF c.led = None THEN s.led ELSE c.led,
       btn |-> IF c.btn = None THEN s.btn ELSE c.btn,
       env |-> c.env]

(* reconcile_detected_config: a service save carries the detected link and  *)
(* model forward.                                                           *)
Reconciled(c, now) ==
  [c EXCEPT !.link = now.link, !.fp = now.fp, !.profile = now.profile]

(* config_reconcile_breaks_local_pins *)
BreaksLocalPins(c, r) == r.link # c.link /\ CollidesWithLink(r)

Restated(c, p) == p.profile # Keep \/ (p.link # Keep /\ p.link # c.link)

(* set_hp_apply_x10a and the identity set_hp derives: a new profile or link *)
(* starts a new identity, known at once when the profile is concrete.       *)
Applied(c, p) ==
  LET m == IF p.profile = Keep THEN c.profile ELSE p.profile
      l == IF p.link = Keep THEN c.link ELSE p.link
  IN  [c EXCEPT !.profile = m, !.link = l,
                !.fp = IF ~Restated(c, p) THEN c.fp
                       ELSE IF m = AutoModel THEN NoId ELSE Ident(m, l)]

-----------------------------------------------------------------------------
Idle == [svc |-> DefaultValue, led |-> None, btn |-> None, env |-> None,
         link |-> DefaultLink, fp |-> NoId, profile |-> AutoModel]
NoYield == [led |-> None, btn |-> None]
NoPatch == [profile |-> Keep, link |-> Keep]
NoFind  == [profile |-> AutoModel, link |-> DefaultLink]

(* A request or a sweep returned: its locals are gone.                      *)
Returned(id) == /\ want' = Idle /\ wantRev' = 0 /\ patch' = NoPatch
                /\ attempt' = 0 /\ tailId' = id
RequestOver == http' = "idle" /\ Returned(NoId)
SweepOver == poll' = "idle" /\ cycleGen' = 0 /\ expRev' = 0 /\ found' = NoFind

(* Flash as an earlier build left it: nothing, an entry this build cannot   *)
(* read, or settings whose local parts may sit on the link.                 *)
ConfigInit ==
  /\ stage = "off"
  /\ live = Idle /\ rev = 0 /\ unreadable = FALSE /\ yield = NoYield
  /\ gen = 1 /\ obs = NoId
  /\ http = "idle" /\ want = Idle /\ wantRev = 0 /\ patch = NoPatch
  /\ attempt = 0 /\ tailId = NoId
  /\ poll = "idle" /\ cycleGen = 0 /\ expRev = 0 /\ found = NoFind
  /\ cfgState \in {"absent", "bad", "ok"}
  /\ cfgBlob \in {SeedBlob} \cup
       [svc : {DefaultValue}, led : LedPads, btn : BtnPads, env : {None}]
  /\ linkState \in {"absent", "ok"}
  /\ linkBlob \in [link : Links, fp : {NoId}]
  /\ sess = DefaultValue /\ acked = cfgBlob.svc /\ doubt = cfgBlob.svc
  /\ proven = linkBlob /\ linkLost = TRUE

(* Any reset: a crash, a power cut or a rebooting save's esp_restart.       *)
Reset ==
  /\ stage # "off"
  /\ stage' = "off"
  /\ live' = Idle /\ rev' = 0 /\ unreadable' = FALSE /\ yield' = NoYield
  /\ gen' = 1 /\ obs' = NoId
  /\ RequestOver /\ SweepOver
  /\ UNCHANGED <<flash, promises>>

-----------------------------------------------------------------------------
(* Boot *)

(* config_load.  cfgRead and linkRead say whether NVS could be read.        *)
Load(cfgRead, linkRead) ==
  LET stored == cfgState = "ok" /\ cfgRead
      cached == linkState = "ok" /\ linkRead
      b      == IF stored THEN cfgBlob ELSE SeedBlob
      seeded == [b EXCEPT !.led = SeedLed, !.btn = None]
      board  == IF BoardOK(b) THEN b
                ELSE IF BoardOK(seeded) THEN seeded
                ELSE [seeded EXCEPT !.led = None]
      link   == IF cached THEN linkBlob.link ELSE DefaultLink
      fp     == IF cached THEN linkBlob.fp ELSE NoId
      Taken(pad) == pad \in link
  IN  /\ stage = "off"
      /\ stage' = "booting"
      /\ unreadable' = (~cfgRead \/ cfgState = "bad")
      /\ yield' = [led |-> IF Taken(board.led) THEN board.led ELSE None,
                   btn |-> IF Taken(board.btn) THEN board.btn ELSE None]
      /\ live' = [svc |-> board.svc,
                  led |-> IF Taken(board.led) THEN None ELSE board.led,
                  btn |-> IF Taken(board.btn) THEN None ELSE board.btn,
                  env |-> IF Taken(board.env) THEN None ELSE board.env,
                  link |-> link, fp |-> fp, profile |-> AutoModel]
      /\ rev' = 1
      /\ sess' = board.svc
      /\ IF stored THEN acked' = board.svc /\ doubt' = board.svc
                   ELSE UNCHANGED <<acked, doubt>>
      /\ proven' = [link |-> link, fp |-> fp]
      /\ linkLost' = ~cached
      /\ UNCHANGED <<flash, gen, obs, httpV, pollV>>

(* config_stored_blob_unreadable, asked by every automatic writer.          *)
AutoSaveAllowed == ~unreadable

(* The saves nobody asked for: WiFi rollback and success, first HomeHub     *)
(* discovery.  They finish before http_start and hp_poll_start.             *)
AutoSave(v) ==
  /\ stage = "booting" /\ http = "idle"
  /\ AutoSaveAllowed
  /\ http' = "service" /\ want' = [live EXCEPT !.svc = v] /\ wantRev' = rev
  /\ UNCHANGED <<stage, config, flash, gen, obs, patch, attempt, tailId, pollV,
                 promises>>

(* history_start: the observers begin under the stored identity.            *)
StartServices ==
  /\ stage = "booting" /\ http = "idle"
  /\ stage' = "running"
  /\ obs' = live.fp
  /\ UNCHANGED <<config, flash, gen, httpV, pollV, promises>>

-----------------------------------------------------------------------------
(* The httpd task *)

Mutex == http # "wrote"   \* g_mtx is free

(* A service form, validated against the snapshot it was derived from: the  *)
(* settings, the board's parts (set_board) or ENV III (set_env3).           *)
ServiceRequest(c) ==
  /\ stage = "running" /\ http = "idle"
  /\ BoardOK(c) /\ ~CollidesWithLink(c)
  /\ http' = "service" /\ want' = c /\ wantRev' = rev
  /\ UNCHANGED <<stage, config, flash, gen, obs, patch, attempt, tailId, pollV,
                 promises>>

SettingsForm == \E v \in Values : ServiceRequest([live EXCEPT !.svc = v])
BoardForm == \E l \in LedPads \cup {None}, b \in BtnPads \cup {None} :
               ServiceRequest([live EXCEPT !.led = l, !.btn = b])
EnvForm == \E e \in EnvPads \cup {None} : ServiceRequest([live EXCEPT !.env = e])

(* save_whole for a service save, up to the "cfg" write; ok is the write's  *)
(* outcome.  The refused and the failed save change nothing.                *)
ServiceWrite(ok) ==
  LET r == IF wantRev = rev THEN want ELSE Reconciled(want, live)
  IN  /\ http = "service" /\ rev < MaxRev
      /\ IF BreaksLocalPins(want, r) \/ ~ok
         THEN RequestOver /\ UNCHANGED <<cfgState, cfgBlob, doubt>>
         ELSE /\ cfgState' = "ok" /\ cfgBlob' = BlobFrom(r, yield)
              /\ want' = r /\ doubt' = want.svc
              /\ http' = "wrote"
              /\ UNCHANGED <<wantRev, patch, attempt, tailId>>
      /\ UNCHANGED <<stage, config, linkState, linkBlob, gen, obs, pollV, sess,
                     acked, proven, linkLost>>

(* The rest of it, under the same lock: the best-effort "link" write, the   *)
(* publication, and the yields the save restated.                           *)
ServicePublish(ok) ==
  /\ http = "wrote"
  /\ IF ok THEN linkState' = "ok"
                /\ linkBlob' = [link |-> want.link, fp |-> want.fp]
           ELSE UNCHANGED <<linkState, linkBlob>>
  /\ live' = want /\ rev' = rev + 1
  /\ yield' = Standing(yield, want)
  /\ unreadable' = FALSE
  /\ RequestOver
  /\ sess' = doubt /\ acked' = doubt
  /\ linkLost' = (linkLost /\ ~ok)
  /\ UNCHANGED <<stage, cfgState, cfgBlob, gen, obs, pollV, doubt, proven>>

(* An X10A /set_hp: parsed once, derived from a snapshot, saved, and        *)
(* derived again when a detection commit came in between.                   *)
HpRequest(p) ==
  /\ stage = "running" /\ http = "idle"
  /\ p # NoPatch
  /\ http' = "patch" /\ patch' = p /\ attempt' = 0
  /\ UNCHANGED <<stage, config, flash, gen, obs, want, wantRev, tailId, pollV,
                 promises>>

HpDerive ==
  LET c == Applied(live, patch)
  IN  /\ http = "patch"
      /\ IF CollidesWithLink(c)
         THEN RequestOver
         ELSE /\ http' = "link" /\ want' = c /\ wantRev' = rev
              /\ attempt' = attempt + 1
              /\ UNCHANGED <<patch, tailId>>
      /\ UNCHANGED <<stage, config, flash, gen, obs, pollV, promises>>

SnapshotAlwaysCurrent == wantRev \in Nat               \* mutant

(* config_save_revision for a save that owns the link.                      *)
SnapshotCurrent == wantRev = rev

(* config_save_link *)
LinkSave(ok) ==
  /\ http = "link" /\ rev < MaxRev
  /\ \/ /\ ~SnapshotCurrent /\ attempt < Attempts
        /\ http' = "patch"
        /\ UNCHANGED <<live, rev, linkState, linkBlob, want, wantRev, patch,
                       attempt, tailId, proven, linkLost>>
     \/ /\ IF SnapshotCurrent THEN ~ok ELSE attempt = Attempts
        /\ RequestOver
        /\ UNCHANGED <<live, rev, linkState, linkBlob, proven, linkLost>>
     \/ /\ SnapshotCurrent /\ ok
        /\ linkState' = "ok"
        /\ linkBlob' = [link |-> want.link, fp |-> want.fp]
        /\ live' = want /\ rev' = rev + 1
        /\ IF Restated(live, patch)
           THEN http' = "reconfigure" /\ Returned(want.fp)
           ELSE RequestOver
        /\ LET stated == Applied(live, patch)
           IN  proven' = [link |-> stated.link, fp |-> stated.fp]
        /\ linkLost' = FALSE
  /\ UNCHANGED <<stage, unreadable, yield, cfgState, cfgBlob, gen, obs, pollV,
                 sess, acked, doubt>>

(* POST /detect: config_reset_detection, then the same resets.              *)
DetectRequest ==
  /\ stage = "running" /\ http = "idle" /\ rev < MaxRev
  /\ live' = [live EXCEPT !.profile = AutoModel] /\ rev' = rev + 1
  /\ http' = "reconfigure" /\ tailId' = NoId
  /\ UNCHANGED <<stage, unreadable, yield, flash, gen, obs, want, wantRev,
                 patch, attempt, pollV, promises>>

(* hp_poll_reconfigure, which waits for s_mtx. *)
Reconfigure ==
  /\ http = "reconfigure"
  /\ poll \notin {"observe", "model"}
  /\ gen' = gen + 1
  /\ http' = "reset"
  /\ UNCHANGED <<stage, config, flash, obs, want, wantRev, patch, attempt,
                 tailId, pollV, promises>>

(* history_reset (checkup_reset and dwell_reset alike), then, for a pinned  *)
(* profile, history_reset_on_detect.                                        *)
ResetObservers ==
  /\ http = "reset"
  /\ obs' = NoId
  /\ IF tailId = NoId THEN RequestOver
     ELSE http' = "rescope" /\ UNCHANGED <<want, wantRev, patch, attempt, tailId>>
  /\ UNCHANGED <<stage, config, flash, gen, pollV, promises>>

Rescope ==
  /\ http = "rescope"
  /\ obs' = tailId
  /\ RequestOver
  /\ UNCHANGED <<stage, config, flash, gen, pollV, promises>>

-----------------------------------------------------------------------------
(* The poll task *)

(* poll_detect captures the generation first, then the config. *)
PollBegin ==
  /\ stage = "running" /\ poll = "idle"
  /\ poll' = "begun" /\ cycleGen' = gen
  /\ UNCHANGED <<stage, config, flash, gen, obs, httpV, expRev, found, promises>>

(* hp_detect_run's candidates: the cached and the default pair, as far as   *)
(* no local part holds one of their pads.                                   *)
Candidates(c) == {l \in {c.link, DefaultLink} : l \cap Reserved(c) = {}}

(* The sweep proves a link and a profile.  (hp_detect_run takes a second    *)
(* snapshot; if it differs the revision does, and nothing is committed.)    *)
Sweep(m, l) ==
  /\ poll = "begun" /\ Mutex
  /\ live.profile = AutoModel
  /\ l \in Candidates(live)
  /\ poll' = "swept" /\ expRev' = rev
  /\ found' = [profile |-> m, link |-> l]
  /\ UNCHANGED <<stage, config, flash, gen, obs, httpV, cycleGen, promises>>

(* No answer, an unconfirmed sweep, or a concrete profile by now. *)
PollAbandon ==
  /\ poll \in {"begun", "swept"}
  /\ SweepOver
  /\ UNCHANGED <<stage, config, flash, gen, obs, httpV, promises>>

SweepAlwaysCurrent == gen = cycleGen \/ rev # 0        \* mutant
SweepCurrent == gen = cycleGen /\ rev = expRev

(* config_commit_detected_link under s_mtx, which stays held. *)
CommitLink(ok) ==
  LET id      == Ident(found.profile, found.link)
      changed == live.link # found.link \/ live.fp # id
  IN  /\ poll = "swept" /\ Mutex /\ rev < MaxRev
      /\ IF SweepCurrent
         THEN /\ IF changed /\ ok
                 THEN linkState' = "ok"
                      /\ linkBlob' = [link |-> found.link, fp |-> id]
                 ELSE UNCHANGED <<linkState, linkBlob>>
              /\ live' = [live EXCEPT !.link = found.link, !.fp = id]
              /\ rev' = rev + 1 /\ expRev' = rev + 1
              /\ poll' = "observe"
              /\ UNCHANGED <<cycleGen, found>>
              /\ proven' = [link |-> found.link, fp |-> id]
              /\ linkLost' = IF changed THEN ~ok ELSE linkLost
         ELSE /\ SweepOver
              /\ UNCHANGED <<live, rev, linkState, linkBlob, proven, linkLost>>
      /\ UNCHANGED <<stage, unreadable, yield, cfgState, cfgBlob, gen, obs,
                     httpV, sess, acked, doubt>>

Observed(id) == id

(* checkup_, dwell_ and history_reset_on_detect *)
ObserveDetected ==
  /\ poll = "observe"
  /\ obs' = Observed(Ident(found.profile, found.link))
  /\ poll' = "model"
  /\ UNCHANGED <<stage, config, flash, gen, httpV, cycleGen, expRev, found,
                 promises>>

ModelCurrent == rev = expRev

(* config_commit_detected_model, then s_mtx is released. *)
CommitModel ==
  /\ poll = "model" /\ Mutex /\ rev < MaxRev
  /\ IF ModelCurrent
     THEN live' = [live EXCEPT !.profile = found.profile] /\ rev' = rev + 1
     ELSE UNCHANGED <<live, rev>>
  /\ SweepOver
  /\ UNCHANGED <<stage, unreadable, yield, flash, gen, obs, httpV, promises>>

-----------------------------------------------------------------------------
ConfigNext ==
  \/ Reset
  \/ \E cfgRead, linkRead \in BOOLEAN : Load(cfgRead, linkRead)
  \/ \E v \in Values : AutoSave(v)
  \/ StartServices
  \/ SettingsForm \/ BoardForm \/ EnvForm
  \/ \E ok \in BOOLEAN : ServiceWrite(ok)
  \/ \E ok \in BOOLEAN : ServicePublish(ok)
  \/ \E m \in Profiles \cup {Keep}, l \in Links \cup {Keep} :
       HpRequest([profile |-> m, link |-> l])
  \/ HpDerive
  \/ \E ok \in BOOLEAN : LinkSave(ok)
  \/ DetectRequest \/ Reconfigure \/ ResetObservers \/ Rescope
  \/ PollBegin
  \/ \E m \in Models, l \in Links : Sweep(m, l)
  \/ PollAbandon
  \/ \E ok \in BOOLEAN : CommitLink(ok)
  \/ ObserveDetected \/ CommitModel

ConfigSpec == ConfigInit /\ [][ConfigNext]_configVars

-----------------------------------------------------------------------------
(* Properties *)

ConfigTypeOK ==
  /\ stage \in {"off", "booting", "running"}
  /\ live \in Configs /\ rev \in 0..MaxRev
  /\ unreadable \in BOOLEAN
  /\ yield \in [led : Parts, btn : Parts]
  /\ cfgState \in {"absent", "bad", "ok"} /\ cfgBlob \in Blobs
  /\ linkState \in {"absent", "bad", "ok"} /\ linkBlob \in LinkBlobs
  /\ gen \in Nat /\ obs \in Identities
  /\ http \in {"idle", "service", "wrote", "patch", "link", "reconfigure",
               "reset", "rescope"}
  /\ want \in Configs /\ wantRev \in 0..MaxRev
  /\ patch \in [profile : Profiles \cup {Keep}, link : Links \cup {Keep}]
  /\ attempt \in 0..Attempts /\ tailId \in Identities
  /\ poll \in {"idle", "begun", "swept", "observe", "model"}
  /\ cycleGen \in Nat /\ expRev \in 0..MaxRev
  /\ found \in [profile : Profiles, link : Links]
  /\ sess \in Values /\ acked \in Values /\ doubt \in Values
  /\ proven \in LinkBlobs /\ linkLost \in BOOLEAN

(* Whatever detection commits in between, a service save that answered "ok" *)
(* is what the boot runs on, and after any crash flash holds the last       *)
(* answered service settings or those whose write had begun (save_whole).   *)
SettingsKept ==
  /\ stage # "off" => live.svc = sess
  /\ cfgState = "ok" => cfgBlob.svc \in {acked, doubt}

(* No save built from an older snapshot reverts the link the poll task has  *)
(* proved since, in RAM, and none leaves flash with another link unless a   *)
(* link write failed (reconcile_detected_config, SnapshotStale).            *)
LinkKept ==
  /\ stage # "off" => live.link = proven.link /\ live.fp = proven.fp
  /\ ~linkLost => linkState = "ok" /\ linkBlob = proven

(* No commit is lost to another one: the two above.                         *)
CommitsKept == SettingsKept /\ LinkKept

(* The UART never comes to drive a pad that the indicator, the button or    *)
(* ENV III holds: not at boot, not after a form raced with a detection.     *)
LocalPinsNeverOnLink == stage # "off" => ~CollidesWithLink(live)

(* A concrete profile is always published with the identity of that very    *)
(* profile on the link in use: commit_detected_link and commit_detected_model *)
(* are two saves, and a request may come between them.                      *)
IdentityCoupled ==
  live.profile # AutoModel => live.fp = Ident(live.profile, live.link)

(* Outside a reset sequence the observers never record one unit's data      *)
(* under the identity of another (hp_poll.cpp, poll_detect's commit block). *)
ObserverScope ==
  http \notin {"reconfigure", "reset", "rescope"} /\ live.profile # AutoModel
    => obs \in {NoId, live.fp}

(* Data, profile and identity are of one unit: the two above.               *)
IdentityScope == IdentityCoupled /\ ObserverScope

(* Nothing automatic overwrites settings this build could not read, which   *)
(* another build may still read (config_stored_blob_unreadable).            *)
UnreadableKept == unreadable /\ stage = "booting" => UNCHANGED <<cfgState, cfgBlob>>

(* A part that yielded its pad to the link at load stays in flash, through  *)
(* every save, until a form states it again or claims its pad               *)
(* (config_blob_keep_yielded_pins).                                         *)
YieldKept ==
  cfgState = "ok" /\ ~unreadable /\ http # "wrote" /\ BoardOK(cfgBlob) =>
    /\ yield.led # None => cfgBlob.led = yield.led
    /\ yield.btn # None => cfgBlob.btn = yield.btn

(* Every part has its pad, now and at the next boot.                        *)
PinsKept == LocalPinsNeverOnLink /\ YieldKept

(* No save stores two parts on one pad, so the next boot never throws the   *)
(* stored board away: a kept yield must give way to a newer claim.          *)
StoredBoardLoads == cfgBlob' # cfgBlob => BoardOK(cfgBlob')

(* What is stored can be used again, by this build or the other: the two    *)
(* above, of every step.                                                    *)
FlashKept == [][UnreadableKept /\ StoredBoardLoads]_configVars

(* What hp_poll.cpp:720-722 says of its commit block: a reconfigure happens *)
(* wholly before or wholly after it, so in a quiet state the observers      *)
(* record under the identity of the committed model.                        *)
RecorderScoped ==
  stage = "running" /\ http = "idle" /\ poll = "idle" /\ live.profile # AutoModel
    => obs = live.fp

=============================================================================
