----------------------------- MODULE BootProofs -----------------------------
(***************************************************************************)
(* Proofs about the two modules of a boot.  About Config: whatever         *)
(* detection, forms, failed writes and resets interleave, no commit is     *)
(* lost, every part keeps its pad, data, profile and identity stay of one  *)
(* unit, and what is stored can be loaded again.  About Recovery: safe     *)
(* mode and the watchdog, for every threshold, cap, hold, wrap and set of  *)
(* sample gaps that its assumptions allow.                                 *)
(***************************************************************************)
EXTENDS Recovery, Config, TLAPS

-----------------------------------------------------------------------------
(* The inductive invariant *)

Tail    == {"reconfigure", "reset", "rescope"}
Yields  == [led : Parts, btn : Parts]
Patches == [profile : Profiles \cup {Keep}, link : Links \cup {Keep}]

SameUnit(c, d) == c.link = d.link /\ c.fp = d.fp /\ c.profile = d.profile
Coupled(c) == c.profile # AutoModel => c.fp = Ident(c.profile, c.link)
Distinct(y) == y.led # None => y.led # y.btn

(* Before the services start there is one writer at most, and none for      *)
(* settings that could not be read.                                         *)
RestInv ==
  /\ stage = "off" => http = "idle" /\ poll = "idle" /\ yield = NoYield /\ rev = 0
  /\ stage = "booting" =>
       /\ http \in {"idle", "service", "wrote"} /\ poll = "idle"
       /\ unreadable => http = "idle"

BoardInv ==
  /\ stage # "off" => BoardOK(live)
  /\ Distinct(yield)

(* What a request holds: valid, and as recent as its revision says.         *)
FormInv ==
  /\ wantRev <= rev
  /\ http \in {"service", "wrote"} => BoardOK(want)
  /\ http \in {"service", "wrote", "link"} => ~CollidesWithLink(want)
  /\ http = "service" /\ wantRev = rev => SameUnit(want, live)
  /\ http = "wrote" => /\ SameUnit(want, live) /\ want.svc = doubt
                       /\ cfgState = "ok" /\ cfgBlob = BlobFrom(want, yield)
                       /\ rev < MaxRev
  /\ http = "patch" => attempt < Attempts
  /\ http = "link" /\ wantRev = rev => want = Applied(live, patch)

(* A reset sequence that ends on an identity ends on the live one.          *)
TailInv == http \in Tail /\ tailId # NoId => live.fp = tailId /\ live.profile # AutoModel

(* What the sweep holds is as recent as its revision says, and a concrete   *)
(* profile between its two saves is a request's that waits for the poll     *)
(* task's mutex.                                                            *)
SweepInv ==
  /\ expRev <= rev
  /\ poll \in {"swept", "observe", "model"} => found.profile \in Models
  /\ poll \in {"swept", "observe", "model"} /\ expRev = rev => live.profile = AutoModel
  /\ poll = "swept" /\ expRev = rev => found.link \cap Reserved(live) = {}
  /\ poll \in {"observe", "model"} /\ expRev = rev =>
       live.link = found.link /\ live.fp = Ident(found.profile, found.link)
  /\ poll \in {"observe", "model"} => live.profile = AutoModel \/ http = "reconfigure"
  /\ poll = "model" /\ expRev = rev => obs \in {NoId, Ident(found.profile, found.link)}

ConfigIInv ==
  /\ ConfigTypeOK /\ RestInv /\ BoardInv /\ FormInv /\ TailInv /\ SweepInv
  /\ SettingsKept /\ LinkKept /\ LocalPinsNeverOnLink /\ YieldKept
  /\ IdentityCoupled /\ ObserverScope

-----------------------------------------------------------------------------
(* What the helpers return *)

LEMMA Constants ==
  /\ NoId \in Identities /\ AutoModel \in Profiles /\ None \in Parts /\ AutoModel \notin Models
  /\ SeedLed \in Parts /\ 0 \in 0..MaxRev /\ 1 \in 0..MaxRev /\ 0 \in 0..Attempts
  /\ SeedBlob \in Blobs /\ Idle \in Configs /\ NoYield \in Yields /\ NoPatch \in Patches
  /\ NoFind \in [profile : Profiles, link : Links]
  /\ Attempts \in Nat /\ MaxRev \in Nat /\ Attempts > 0 /\ MaxRev > 0
  /\ Distinct(NoYield)
<1> USE PadsAssumption, ValuesAssumption
<1>1. /\ NoId \in Identities /\ AutoModel \in Profiles /\ None \in Parts /\ AutoModel \notin Models
      /\ DefaultLink \in Links /\ SeedLed \in Parts /\ DefaultValue \in Values
  <2>1. NoId \in Identities BY DEF Identities
  <2>2. AutoModel \in Profiles /\ None \in Parts /\ SeedLed \in Parts BY DEF Profiles, Parts
  <2>3. AutoModel \notin Models OBVIOUS
  <2>4. DefaultLink \in Links /\ DefaultValue \in Values OBVIOUS
  <2> QED BY <2>1, <2>2, <2>3, <2>4
<1>2. /\ Attempts \in Nat /\ MaxRev \in Nat /\ Attempts > 0 /\ MaxRev > 0
      /\ 0 \in 0..MaxRev /\ 1 \in 0..MaxRev /\ 0 \in 0..Attempts
  OBVIOUS
<1>3. SeedBlob \in Blobs BY <1>1, Zenon DEF SeedBlob, Blobs
<1>4. Idle \in Configs BY <1>1, Zenon DEF Idle, Configs
<1>5. NoYield \in Yields /\ Distinct(NoYield) BY <1>1 DEF NoYield, Yields, Distinct
<1>6. NoPatch \in Patches BY DEF NoPatch, Patches
<1>7. NoFind \in [profile : Profiles, link : Links] BY <1>1, Zenon DEF NoFind
<1> QED BY <1>1, <1>2, <1>3, <1>4, <1>5, <1>6, <1>7

LEMMA IdentType == \A m \in Models, l \in Links : Ident(m, l) \in Identities /\ Ident(m, l) # NoId
BY ValuesAssumption DEF Ident, Identities

LEMMA ReconciledFacts ==
  ASSUME NEW c \in Configs, NEW now \in Configs
  PROVE  /\ Reconciled(c, now) \in Configs /\ SameUnit(Reconciled(c, now), now)
         /\ Reconciled(c, now).svc = c.svc /\ Reserved(Reconciled(c, now)) = Reserved(c)
         /\ BoardOK(c) => BoardOK(Reconciled(c, now))
         /\ ~CollidesWithLink(c) /\ ~BreaksLocalPins(c, Reconciled(c, now)) =>
              ~CollidesWithLink(Reconciled(c, now))
<1> DEFINE r == Reconciled(c, now)
<1>1. /\ r \in Configs /\ r.svc = c.svc /\ r.led = c.led /\ r.btn = c.btn /\ r.env = c.env
      /\ r.link = now.link /\ r.fp = now.fp /\ r.profile = now.profile
  BY DEF Reconciled, Configs
<1> HIDE DEF r
<1>2. Reserved(r) = Reserved(c) BY <1>1 DEF Reserved
<1>3. BoardOK(c) => BoardOK(r) BY <1>1 DEF BoardOK
<1>4. ~CollidesWithLink(c) /\ ~BreaksLocalPins(c, r) => ~CollidesWithLink(r)
  BY <1>1, <1>2 DEF CollidesWithLink, BreaksLocalPins
<1> QED BY <1>1, <1>2, <1>3, <1>4 DEF SameUnit, r

LEMMA AppliedFacts ==
  ASSUME NEW c \in Configs, NEW p \in Patches
  PROVE  /\ Applied(c, p) \in Configs /\ Applied(c, p).svc = c.svc
         /\ BoardOK(c) => BoardOK(Applied(c, p))
         /\ Reserved(Applied(c, p)) = Reserved(c)
         /\ ~Restated(c, p) => SameUnit(Applied(c, p), c)
         /\ Restated(c, p) => Coupled(Applied(c, p))
         /\ Restated(c, p) /\ Applied(c, p).fp # NoId => Applied(c, p).profile # AutoModel
<1> DEFINE m == IF p.profile = Keep THEN c.profile ELSE p.profile
           l == IF p.link = Keep THEN c.link ELSE p.link
           fp == IF ~Restated(c, p) THEN c.fp ELSE IF m = AutoModel THEN NoId ELSE Ident(m, l)
           a == Applied(c, p)
<1>1. m \in Profiles /\ l \in Links BY DEF Configs, Patches
<1>2. fp \in Identities BY <1>1, Constants, IdentType DEF Configs, Profiles
<1>3. a = [c EXCEPT !.profile = m, !.link = l, !.fp = fp] 
  <2>1. CASE ~Restated(c, p) BY <2>1 DEF Applied
  <2>2. CASE Restated(c, p) BY <2>2 DEF Applied
  <2> QED BY <2>1, <2>2
<1>4. ~Restated(c, p) => m = c.profile /\ l = c.link BY DEF Restated
<1>5. Restated(c, p) => /\ m # AutoModel => fp = Ident(m, l)
                        /\ m = AutoModel => fp = NoId
  OBVIOUS
<1>6. ~Restated(c, p) => fp = c.fp OBVIOUS
<1> HIDE DEF m, l, fp, a
<1>7. /\ a \in Configs /\ a.svc = c.svc /\ a.led = c.led /\ a.btn = c.btn /\ a.env = c.env
      /\ a.profile = m /\ a.link = l /\ a.fp = fp
  BY <1>1, <1>2, <1>3 DEF Configs
<1>8. BoardOK(c) => BoardOK(a) BY <1>7 DEF BoardOK
<1>9. Reserved(a) = Reserved(c) BY <1>7 DEF Reserved
<1> QED BY <1>4, <1>5, <1>6, <1>7, <1>8, <1>9 DEF SameUnit, Coupled, a

LEMMA BlobFacts ==
  ASSUME NEW c \in Configs, NEW y \in Yields
  PROVE  /\ Standing(y, c) \in Yields /\ BlobFrom(c, y) \in Blobs /\ BlobFrom(c, y).svc = c.svc
         /\ Distinct(y) => Distinct(Standing(y, c))
         /\ Distinct(y) /\ BoardOK(c) => BoardOK(BlobFrom(c, y))
         /\ Standing(y, c).led # None => BlobFrom(c, y).led = Standing(y, c).led
         /\ Standing(y, c).btn # None => BlobFrom(c, y).btn = Standing(y, c).btn
<1> DEFINE s == Standing(y, c)
           led == IF c.led = None THEN s.led ELSE c.led
           btn == IF c.btn = None THEN s.btn ELSE c.btn
           b == BlobFrom(c, y)
<1>1. /\ s \in Yields
      /\ s.led = IF c.led = None /\ y.led \notin {c.btn, c.env} THEN y.led ELSE None
      /\ s.btn = IF c.btn = None /\ y.btn \notin {c.led, c.env} THEN y.btn ELSE None
  BY Constants DEF Standing, Yields
<1>2. b = [svc |-> c.svc, led |-> led, btn |-> btn, env |-> c.env] BY DEF BlobFrom
<1> HIDE DEF s, b
<1>3. /\ led = IF c.led # None THEN c.led
               ELSE IF y.led \notin {c.btn, c.env} THEN y.led ELSE None
      /\ btn = IF c.btn # None THEN c.btn
               ELSE IF y.btn \notin {c.led, c.env} THEN y.btn ELSE None
  BY <1>1
<1>4. led \in Parts /\ btn \in Parts BY <1>1 DEF Configs, Yields
<1>5. (s.led # None => led = s.led) /\ (s.btn # None => btn = s.btn) BY <1>1
<1> HIDE DEF led, btn
<1>6. b \in Blobs /\ b.svc = c.svc /\ b.led = led /\ b.btn = btn /\ b.env = c.env
  BY <1>2, <1>4 DEF Blobs, Configs
<1>7. Distinct(y) => Distinct(s) BY <1>1 DEF Distinct
<1>8. Distinct(y) /\ BoardOK(c) => BoardOK(b) BY <1>3, <1>6 DEF Distinct, BoardOK
<1> QED BY <1>1, <1>5, <1>6, <1>7, <1>8 DEF s, b

-----------------------------------------------------------------------------
LEMMA InitConfigIInv == ConfigInit => ConfigIInv
<1> SUFFICES ASSUME ConfigInit PROVE ConfigIInv OBVIOUS
<1> USE Constants DEF ConfigInit
<1>1. cfgBlob \in Blobs
  BY PadsAssumption, ValuesAssumption DEF Blobs, Parts
<1>2. linkBlob \in LinkBlobs BY DEF LinkBlobs
<1>3. cfgBlob.svc \in Values BY <1>1 DEF Blobs
<1>4. ConfigTypeOK
  <2>1. unreadable \in BOOLEAN /\ linkLost \in BOOLEAN BY Zenon
  <2>2. cfgBlob \in Blobs /\ linkBlob \in LinkBlobs /\ sess \in Values /\ acked \in Values
        /\ doubt \in Values /\ proven \in LinkBlobs
    BY <1>1, <1>2, <1>3, ValuesAssumption
  <2> QED BY <2>1, <2>2 DEF ConfigTypeOK, Yields, Patches
<1>5. RestInv /\ BoardInv /\ FormInv /\ TailInv /\ SweepInv
  BY DEF RestInv, BoardInv, FormInv, TailInv, SweepInv, Tail
<1>6. SettingsKept /\ LinkKept /\ LocalPinsNeverOnLink /\ YieldKept /\ IdentityCoupled /\ ObserverScope
  BY DEF SettingsKept, LinkKept, LocalPinsNeverOnLink, YieldKept, NoYield, IdentityCoupled,
         ObserverScope, Idle
<1> QED BY <1>4, <1>5, <1>6 DEF ConfigIInv

(* A request is over, or the sweep is: their locals are well typed again.   *)
LEMMA ReturnedType ==
  ASSUME NEW id, Returned(id)
  PROVE  /\ want' \in Configs /\ wantRev' = 0 /\ patch' \in Patches /\ attempt' = 0 /\ tailId' = id
BY Constants DEF Returned

-----------------------------------------------------------------------------
(* Resets and boots *)

LEMMA ResetStep == ASSUME ConfigIInv, Reset PROVE ConfigIInv'
<1> USE Constants DEF ConfigIInv, Reset
<1>0. /\ http' = "idle" /\ want' \in Configs /\ wantRev' = 0 /\ patch' \in Patches /\ attempt' = 0
      /\ tailId' = NoId /\ poll' = "idle" /\ cycleGen' = 0 /\ expRev' = 0 /\ found' = NoFind
      /\ UNCHANGED <<cfgState, cfgBlob, linkState, linkBlob, sess, acked, doubt, proven, linkLost>>
      /\ stage' = "off" /\ live' = Idle /\ rev' = 0 /\ unreadable' = FALSE /\ yield' = NoYield
      /\ gen' = 1 /\ obs' = NoId
  BY ReturnedType DEF RequestOver, SweepOver, flash, promises
<1> HIDE DEF Reset
<1>1. ConfigTypeOK'
  <2>1. unreadable' \in BOOLEAN BY <1>0, Zenon
  <2>2. ConfigTypeOK OBVIOUS
  <2> HIDE DEF ConfigIInv
  <2> QED BY <1>0, <2>1, <2>2 DEF ConfigTypeOK, Yields, Patches
<1>2. (RestInv /\ BoardInv /\ FormInv /\ TailInv /\ SweepInv)'
  BY <1>0 DEF RestInv, BoardInv, FormInv, TailInv, SweepInv, Tail
<1>3. (SettingsKept /\ LinkKept /\ LocalPinsNeverOnLink)'
  BY <1>0 DEF SettingsKept, LinkKept, LocalPinsNeverOnLink
<1>4. (YieldKept /\ IdentityCoupled /\ ObserverScope)'
  BY <1>0 DEF YieldKept, NoYield, IdentityCoupled, ObserverScope, Idle
<1> QED BY <1>1, <1>2, <1>3, <1>4

(* What load keeps of the board, and what it takes from it.                 *)
LEMMA LoadStep ==
  ASSUME ConfigIInv, NEW cfgRead \in BOOLEAN, NEW linkRead \in BOOLEAN, Load(cfgRead, linkRead)
  PROVE  ConfigIInv'
<1> USE Constants DEF ConfigIInv
<1> DEFINE readable == cfgState = "ok" /\ cfgRead
           cached == linkState = "ok" /\ linkRead
           b      == IF readable THEN cfgBlob ELSE SeedBlob
           seeded == [b EXCEPT !.led = SeedLed, !.btn = None]
           board  == IF BoardOK(b) THEN b
                     ELSE IF BoardOK(seeded) THEN seeded
                     ELSE [seeded EXCEPT !.led = None]
           link   == IF cached THEN linkBlob.link ELSE DefaultLink
           fp     == IF cached THEN linkBlob.fp ELSE NoId
           led    == IF board.led \in link THEN None ELSE board.led
           btn    == IF board.btn \in link THEN None ELSE board.btn
           env    == IF board.env \in link THEN None ELSE board.env
           yLed   == IF board.led \in link THEN board.led ELSE None
           yBtn   == IF board.btn \in link THEN board.btn ELSE None
<1>1. b \in Blobs BY DEF ConfigTypeOK
<1>2. /\ seeded \in Blobs /\ seeded.btn = None /\ seeded.svc = b.svc
      /\ [seeded EXCEPT !.led = None] \in Blobs /\ [seeded EXCEPT !.led = None].led = None
      /\ [seeded EXCEPT !.led = None].btn = None /\ [seeded EXCEPT !.led = None].svc = b.svc
  <2> HIDE DEF b
  <2>1. seeded \in Blobs /\ seeded.btn = None /\ seeded.svc = b.svc BY <1>1 DEF Blobs
  <2> HIDE DEF seeded
  <2> QED BY <2>1 DEF Blobs
<1>3. board \in Blobs /\ BoardOK(board) /\ board.svc = b.svc /\ (BoardOK(b) => board = b)
  BY <1>1, <1>2 DEF BoardOK
<1>4. link \in Links /\ fp \in Identities /\ None \notin link
  BY PadsAssumption, ValuesAssumption DEF ConfigTypeOK, LinkBlobs
<1>5. /\ live' = [svc |-> board.svc, led |-> led, btn |-> btn, env |-> env,
                  link |-> link, fp |-> fp, profile |-> AutoModel]
      /\ yield' = [led |-> yLed, btn |-> yBtn] /\ stage = "off" /\ stage' = "booting" /\ rev' = 1
      /\ unreadable' = (~cfgRead \/ cfgState = "bad") /\ sess' = board.svc
      /\ IF readable THEN acked' = board.svc /\ doubt' = board.svc ELSE UNCHANGED <<acked, doubt>>
      /\ proven' = [link |-> link, fp |-> fp] /\ linkLost' = ~cached
      /\ UNCHANGED <<cfgState, cfgBlob, linkState, linkBlob, gen, obs, http, want, wantRev, patch,
                     attempt, tailId, poll, cycleGen, expRev, found>>
  BY DEF Load, flash, httpV, pollV
<1>6. readable => b = cfgBlob OBVIOUS
<1>7. cached => linkState = "ok" /\ proven' = linkBlob
  BY <1>5 DEF ConfigTypeOK, LinkBlobs
<1>8. cached \in BOOLEAN /\ readable \in BOOLEAN /\ unreadable' \in BOOLEAN BY <1>5
<1>9. (cfgState = "ok" /\ ~unreadable') => readable BY <1>5
<1> HIDE DEF readable, cached, b, seeded, board, link, fp
<1>10. led \in Parts /\ btn \in Parts /\ env \in Parts /\ yLed \in Parts /\ yBtn \in Parts
  BY <1>3 DEF Blobs
<1>11. /\ {led, btn, env} \cap link \subseteq {None}
       /\ BoardOK([svc |-> board.svc, led |-> led, btn |-> btn, env |-> env, link |-> link,
                   fp |-> fp, profile |-> AutoModel])
       /\ yLed # None => yLed = board.led /\ yLed # yBtn
       /\ yBtn # None => yBtn = board.btn
  BY <1>3 DEF BoardOK
<1> HIDE DEF led, btn, env, yLed, yBtn
<1>12. /\ live' \in Configs /\ live'.svc = board.svc /\ live'.link = link /\ live'.fp = fp
       /\ live'.profile = AutoModel /\ live'.led = led /\ live'.btn = btn /\ live'.env = env
  BY <1>3, <1>4, <1>5, <1>10 DEF Configs, Blobs
<1>13. yield' \in Yields /\ yield'.led = yLed /\ yield'.btn = yBtn BY <1>5, <1>10 DEF Yields
<1>14. proven' \in LinkBlobs /\ proven'.link = link /\ proven'.fp = fp
  BY <1>4, <1>5 DEF LinkBlobs
<1>15. board.svc \in Values BY <1>3 DEF Blobs
<1>16. http = "idle" /\ poll = "idle" BY <1>5 DEF RestInv
<1>17. ConfigTypeOK'
  BY <1>5, <1>8, <1>12, <1>13, <1>14, <1>15 DEF ConfigTypeOK, Yields
<1>18. RestInv' BY <1>5, <1>16 DEF RestInv
<1>19. BoardInv' BY <1>5, <1>11, <1>13 DEF BoardInv, Distinct
<1>20. (FormInv /\ TailInv /\ SweepInv)'
  <2>1. wantRev <= 1 /\ expRev <= 1
    BY <1>5 DEF RestInv, FormInv, SweepInv, ConfigTypeOK
  <2> QED BY <1>5, <1>16, <2>1 DEF FormInv, TailInv, SweepInv, Tail
<1>21. SettingsKept' BY <1>3, <1>5, <1>6, <1>8, <1>12 DEF SettingsKept
<1>22. LinkKept' BY <1>5, <1>7, <1>12, <1>14 DEF LinkKept
<1>23. LocalPinsNeverOnLink'
  BY <1>4, <1>11, <1>12 DEF LocalPinsNeverOnLink, CollidesWithLink, Reserved
<1>24. YieldKept' BY <1>3, <1>5, <1>6, <1>9, <1>11, <1>13 DEF YieldKept
<1>25. (IdentityCoupled /\ ObserverScope)' BY <1>12 DEF IdentityCoupled, ObserverScope
<1> QED BY <1>17, <1>18, <1>19, <1>20, <1>21, <1>22, <1>23, <1>24, <1>25

LEMMA StartStep == ASSUME ConfigIInv, StartServices PROVE ConfigIInv'
<1> USE DEF ConfigIInv
<1>0. /\ stage = "booting" /\ http = "idle" /\ stage' = "running" /\ obs' = live.fp
      /\ UNCHANGED <<live, rev, unreadable, yield, flash, gen, httpV, pollV, promises>>
  BY DEF StartServices, config
<1>1. ConfigTypeOK'
  BY <1>0 DEF ConfigTypeOK, flash, httpV, pollV, promises, Configs
<1>2. (RestInv /\ BoardInv /\ FormInv /\ TailInv)'
  BY <1>0 DEF RestInv, BoardInv, FormInv, TailInv, flash, httpV, pollV, promises
<1>3. SweepInv' BY <1>0 DEF RestInv, SweepInv, httpV, pollV
<1>4. (SettingsKept /\ LinkKept /\ LocalPinsNeverOnLink /\ YieldKept /\ IdentityCoupled)'
  BY <1>0 DEF SettingsKept, LinkKept, LocalPinsNeverOnLink, YieldKept, IdentityCoupled,
              flash, httpV, promises
<1>5. ObserverScope' BY <1>0 DEF ObserverScope
<1> QED BY <1>1, <1>2, <1>3, <1>4, <1>5

-----------------------------------------------------------------------------
(* Requests: what changes neither the configuration nor flash               *)

LEMMA ServiceBegins ==
  ASSUME ConfigIInv, NEW c \in Configs, http = "idle", stage # "off", stage = "booting" => ~unreadable,
         BoardOK(c), ~CollidesWithLink(c), SameUnit(c, live),
         http' = "service", want' = c, wantRev' = rev,
         UNCHANGED <<stage, config, flash, gen, obs, patch, attempt, tailId, pollV, promises>>
  PROVE  ConfigIInv'
<1> USE DEF ConfigIInv, config, flash, pollV, promises
<1>1. ConfigTypeOK' BY DEF ConfigTypeOK
<1>2. (RestInv /\ BoardInv)' BY DEF RestInv, BoardInv
<1>3. FormInv' BY DEF FormInv, ConfigTypeOK
<1>4. (TailInv /\ SweepInv)' BY DEF TailInv, SweepInv, Tail
<1>5. (SettingsKept /\ LinkKept /\ LocalPinsNeverOnLink)'
  BY DEF SettingsKept, LinkKept, LocalPinsNeverOnLink
<1>6. (YieldKept /\ IdentityCoupled /\ ObserverScope)'
  BY DEF YieldKept, IdentityCoupled, ObserverScope
<1> QED BY <1>1, <1>2, <1>3, <1>4, <1>5, <1>6

LEMMA AutoSaveStep == ASSUME ConfigIInv, NEW v \in Values, AutoSave(v) PROVE ConfigIInv'
<1> DEFINE c == [live EXCEPT !.svc = v]
<1>1. live \in Configs /\ BoardOK(live) /\ ~CollidesWithLink(live)
  BY DEF ConfigIInv, ConfigTypeOK, BoardInv, LocalPinsNeverOnLink, AutoSave
<1>2. /\ c \in Configs /\ c.led = live.led /\ c.btn = live.btn /\ c.env = live.env
      /\ SameUnit(c, live)
  BY <1>1 DEF Configs, SameUnit
<1>3. /\ http = "idle" /\ stage = "booting" /\ ~unreadable
      /\ http' = "service" /\ want' = c /\ wantRev' = rev
      /\ UNCHANGED <<stage, config, flash, gen, obs, patch, attempt, tailId, pollV, promises>>
  BY DEF AutoSave, AutoSaveAllowed
<1> HIDE DEF c
<1>4. BoardOK(c) /\ ~CollidesWithLink(c)
  BY <1>1, <1>2 DEF BoardOK, CollidesWithLink, Reserved, SameUnit
<1> QED BY <1>2, <1>3, <1>4, ServiceBegins

LEMMA ServiceFormStep ==
  ASSUME ConfigIInv, SettingsForm \/ BoardForm \/ EnvForm PROVE ConfigIInv'
<1>1. live \in Configs /\ LedPads \cup {None} \subseteq Parts /\ BtnPads \cup {None} \subseteq Parts
      /\ EnvPads \cup {None} \subseteq Parts
  BY PadsAssumption DEF ConfigIInv, ConfigTypeOK, Parts
<1>2. PICK c \in Configs : ServiceRequest(c) /\ SameUnit(c, live)
  <2>1. CASE SettingsForm
    <3>1. PICK v \in Values : ServiceRequest([live EXCEPT !.svc = v]) BY <2>1 DEF SettingsForm
    <3>2. [live EXCEPT !.svc = v] \in Configs /\ SameUnit([live EXCEPT !.svc = v], live)
      BY <1>1 DEF Configs, SameUnit
    <3> QED BY <3>1, <3>2
  <2>2. CASE BoardForm
    <3>1. PICK l \in LedPads \cup {None}, b \in BtnPads \cup {None} :
            ServiceRequest([live EXCEPT !.led = l, !.btn = b])
      BY <2>2 DEF BoardForm
    <3>2. /\ [live EXCEPT !.led = l, !.btn = b] \in Configs
          /\ SameUnit([live EXCEPT !.led = l, !.btn = b], live)
      <4>1. l \in Parts /\ b \in Parts BY <1>1
      <4> QED BY <1>1, <4>1 DEF Configs, SameUnit
    <3> QED BY <3>1, <3>2
  <2>3. CASE EnvForm
    <3>1. PICK e \in EnvPads \cup {None} : ServiceRequest([live EXCEPT !.env = e])
      BY <2>3 DEF EnvForm
    <3>2. [live EXCEPT !.env = e] \in Configs /\ SameUnit([live EXCEPT !.env = e], live)
      <4>1. e \in Parts BY <1>1
      <4> QED BY <1>1, <4>1 DEF Configs, SameUnit
    <3> QED BY <3>1, <3>2
  <2> QED BY <2>1, <2>2, <2>3
<1>3. /\ http = "idle" /\ stage = "running" /\ BoardOK(c) /\ ~CollidesWithLink(c)
      /\ http' = "service" /\ want' = c /\ wantRev' = rev
      /\ UNCHANGED <<stage, config, flash, gen, obs, patch, attempt, tailId, pollV, promises>>
  BY <1>2 DEF ServiceRequest
<1> QED BY <1>2, <1>3, ServiceBegins

(* A request that returns leaves nothing behind.                            *)
LEMMA RequestReturns ==
  ASSUME ConfigIInv, RequestOver, stage # "off",
         http \notin Tail,
         UNCHANGED <<stage, config, flash, gen, obs, pollV, promises>>,
         http = "wrote" => FALSE
  PROVE  ConfigIInv'
<1> USE DEF ConfigIInv, config, flash, pollV, promises
<1>0. /\ http' = "idle" /\ want' \in Configs /\ wantRev' = 0 /\ patch' \in Patches /\ attempt' = 0
      /\ tailId' = NoId
  BY ReturnedType DEF RequestOver
<1>1. ConfigTypeOK' BY <1>0, Constants DEF ConfigTypeOK, Patches
<1>2. (RestInv /\ BoardInv)' BY <1>0 DEF RestInv, BoardInv
<1>3. FormInv' BY <1>0 DEF FormInv, ConfigTypeOK
<1>4. (TailInv /\ SweepInv)' BY <1>0 DEF TailInv, SweepInv, Tail
<1>5. (SettingsKept /\ LinkKept /\ LocalPinsNeverOnLink)'
  BY <1>0 DEF SettingsKept, LinkKept, LocalPinsNeverOnLink
<1>6. (YieldKept /\ IdentityCoupled /\ ObserverScope)'
  BY <1>0 DEF YieldKept, IdentityCoupled, ObserverScope, Tail
<1> QED BY <1>1, <1>2, <1>3, <1>4, <1>5, <1>6

LEMMA HpRequestStep ==
  ASSUME ConfigIInv, NEW p \in Patches, HpRequest(p) PROVE ConfigIInv'
<1> USE DEF ConfigIInv, config, flash, pollV, promises
<1>0. /\ stage = "running" /\ http = "idle" /\ http' = "patch" /\ patch' = p /\ attempt' = 0
      /\ UNCHANGED <<stage, config, flash, gen, obs, want, wantRev, tailId, pollV, promises>>
  BY DEF HpRequest
<1>1. ConfigTypeOK' BY <1>0, Constants DEF ConfigTypeOK, Patches
<1>2. (RestInv /\ BoardInv)' BY <1>0 DEF RestInv, BoardInv
<1>3. FormInv' BY <1>0, Constants DEF FormInv, ConfigTypeOK
<1>4. (TailInv /\ SweepInv)' BY <1>0 DEF TailInv, SweepInv, Tail
<1>5. (SettingsKept /\ LinkKept /\ LocalPinsNeverOnLink)'
  BY <1>0 DEF SettingsKept, LinkKept, LocalPinsNeverOnLink
<1>6. (YieldKept /\ IdentityCoupled /\ ObserverScope)'
  BY <1>0 DEF YieldKept, IdentityCoupled, ObserverScope, Tail
<1> QED BY <1>1, <1>2, <1>3, <1>4, <1>5, <1>6

LEMMA HpDeriveStep == ASSUME ConfigIInv, HpDerive PROVE ConfigIInv'
<1> DEFINE c == Applied(live, patch)
<1>0. /\ http = "patch" /\ UNCHANGED <<stage, config, flash, gen, obs, pollV, promises>>
      /\ IF CollidesWithLink(c) THEN RequestOver
         ELSE /\ http' = "link" /\ want' = c /\ wantRev' = rev /\ attempt' = attempt + 1
              /\ UNCHANGED <<patch, tailId>>
  BY DEF HpDerive
<1>1. stage # "off" BY <1>0 DEF ConfigIInv, RestInv
<1>2. CASE CollidesWithLink(c) BY <1>0, <1>1, <1>2, RequestReturns DEF Tail
<1>3. CASE ~CollidesWithLink(c)
  <2> USE DEF ConfigIInv, config, flash, pollV, promises
  <2>0. c \in Configs /\ attempt + 1 \in 0..Attempts
    BY <1>0, AppliedFacts, Constants, SMTT(60) DEF ConfigTypeOK, Patches, FormInv
  <2>1. ConfigTypeOK' BY <1>0, <1>3, <2>0 DEF ConfigTypeOK
  <2>2. (RestInv /\ BoardInv)' BY <1>0, <1>3 DEF RestInv, BoardInv
  <2>3. FormInv' BY <1>0, <1>3, <2>0 DEF FormInv, ConfigTypeOK
  <2>4. (TailInv /\ SweepInv)' BY <1>0, <1>3 DEF TailInv, SweepInv, Tail
  <2>5. (SettingsKept /\ LinkKept /\ LocalPinsNeverOnLink)'
    BY <1>0, <1>3 DEF SettingsKept, LinkKept, LocalPinsNeverOnLink
  <2>6. (YieldKept /\ IdentityCoupled /\ ObserverScope)'
    BY <1>0, <1>3 DEF YieldKept, IdentityCoupled, ObserverScope, Tail
  <2> QED BY <2>1, <2>2, <2>3, <2>4, <2>5, <2>6
<1> QED BY <1>2, <1>3

-----------------------------------------------------------------------------
(* Saves of the settings *)

LEMMA ServiceWriteStep == ASSUME ConfigIInv, NEW ok \in BOOLEAN, ServiceWrite(ok) PROVE ConfigIInv'
<1> DEFINE r == IF wantRev = rev THEN want ELSE Reconciled(want, live)
<1>0. /\ http = "service" /\ rev < MaxRev
      /\ UNCHANGED <<stage, config, linkState, linkBlob, gen, obs, pollV, sess, acked, proven,
                     linkLost>>
      /\ IF BreaksLocalPins(want, r) \/ ~ok
         THEN RequestOver /\ UNCHANGED <<cfgState, cfgBlob, doubt>>
         ELSE /\ cfgState' = "ok" /\ cfgBlob' = BlobFrom(r, yield) /\ want' = r
              /\ doubt' = want.svc /\ http' = "wrote" /\ UNCHANGED <<wantRev, patch, attempt, tailId>>
  BY DEF ServiceWrite
<1>1. stage # "off" BY <1>0 DEF ConfigIInv, RestInv
<1>2. CASE BreaksLocalPins(want, r) \/ ~ok
  BY <1>0, <1>1, <1>2, RequestReturns DEF Tail, flash, promises
<1>3. CASE ~(BreaksLocalPins(want, r) \/ ~ok)
  <2>0. want \in Configs /\ live \in Configs /\ BoardOK(want) /\ ~CollidesWithLink(want)
        /\ yield \in Yields /\ Distinct(yield)
    BY <1>0 DEF ConfigIInv, ConfigTypeOK, FormInv, BoardInv, Yields
  <2>1. r \in Configs /\ SameUnit(r, live) /\ r.svc = want.svc /\ BoardOK(r) /\ ~CollidesWithLink(r)
    <3>1. CASE wantRev = rev BY <1>0, <2>0, <3>1 DEF ConfigIInv, FormInv
    <3>2. CASE wantRev # rev BY <1>3, <2>0, <3>2, ReconciledFacts
    <3> QED BY <3>1, <3>2
  <2>2. /\ cfgState' = "ok" /\ cfgBlob' = BlobFrom(r, yield) /\ want' = r
        /\ doubt' = want.svc /\ http' = "wrote" /\ UNCHANGED <<wantRev, patch, attempt, tailId>>
    BY <1>0, <1>3
  <2> HIDE DEF r
  <2>3. cfgBlob' \in Blobs /\ cfgBlob'.svc = want.svc BY <2>0, <2>1, <2>2, BlobFacts
  <2>4. want.svc \in Values BY <2>0 DEF Configs
  <2> USE DEF ConfigIInv, config, pollV
  <2>5. ConfigTypeOK' BY <1>0, <2>1, <2>2, <2>3, <2>4 DEF ConfigTypeOK
  <2>6. (RestInv /\ BoardInv)' BY <1>0, <1>1, <2>2 DEF RestInv, BoardInv
  <2>7. FormInv' BY <1>0, <2>1, <2>2 DEF FormInv, SameUnit
  <2>8. (TailInv /\ SweepInv)' BY <1>0, <2>2 DEF TailInv, SweepInv, Tail
  <2>9. (SettingsKept /\ LinkKept /\ LocalPinsNeverOnLink)'
    BY <1>0, <2>2, <2>3 DEF SettingsKept, LinkKept, LocalPinsNeverOnLink
  <2>10. (YieldKept /\ IdentityCoupled /\ ObserverScope)'
    BY <1>0, <2>2 DEF YieldKept, IdentityCoupled, ObserverScope, Tail
  <2> QED BY <2>5, <2>6, <2>7, <2>8, <2>9, <2>10
<1> QED BY <1>2, <1>3

LEMMA ServicePublishStep == ASSUME ConfigIInv, NEW ok \in BOOLEAN, ServicePublish(ok) PROVE ConfigIInv'
<1> USE DEF ConfigIInv
<1>0. /\ http = "wrote" /\ live' = want /\ rev' = rev + 1 /\ yield' = Standing(yield, want)
      /\ unreadable' = FALSE /\ sess' = doubt /\ acked' = doubt
      /\ linkLost' = (linkLost /\ ~ok)
      /\ UNCHANGED <<stage, cfgState, cfgBlob, gen, obs, pollV, doubt, proven>>
      /\ ok => linkState' = "ok" /\ linkBlob' = [link |-> want.link, fp |-> want.fp]
      /\ ~ok => UNCHANGED <<linkState, linkBlob>>
      /\ http' = "idle" /\ want' \in Configs /\ wantRev' = 0 /\ patch' \in Patches /\ attempt' = 0
      /\ tailId' = NoId
  BY ReturnedType DEF ServicePublish, RequestOver
<1>1. stage # "off" BY <1>0 DEF RestInv
<1>2. /\ want \in Configs /\ yield \in Yields /\ BoardOK(want) /\ ~CollidesWithLink(want)
      /\ SameUnit(want, live) /\ want.svc = doubt /\ cfgState = "ok"
      /\ cfgBlob = BlobFrom(want, yield) /\ Distinct(yield)
  BY <1>0 DEF ConfigTypeOK, FormInv, Yields, BoardInv
<1>3. rev + 1 \in 0..MaxRev /\ rev \in Nat /\ expRev \in Nat
  BY <1>0, Constants DEF FormInv, ConfigTypeOK
<1>4. linkBlob' \in LinkBlobs /\ linkState' \in {"absent", "bad", "ok"}
      /\ (ok => linkBlob'.link = want.link /\ linkBlob'.fp = want.fp)
  BY <1>0, <1>2 DEF ConfigTypeOK, LinkBlobs, Configs
<1>5. unreadable' \in BOOLEAN /\ linkLost' \in BOOLEAN BY <1>0, Zenon
<1>6. yield' \in Yields BY <1>0, <1>2, BlobFacts
<1>7. ConfigTypeOK'
  BY <1>0, <1>2, <1>3, <1>4, <1>5, <1>6, Constants DEF ConfigTypeOK, Yields, Patches, pollV
<1>8. RestInv' BY <1>0, <1>1 DEF RestInv, pollV
<1>9. BoardInv' BY <1>0, <1>2, BlobFacts DEF BoardInv
<1>10. FormInv' BY <1>0, <1>3 DEF FormInv
<1>11. TailInv' BY <1>0 DEF TailInv, Tail
<1>12. SweepInv' BY <1>0, <1>2, <1>3 DEF SweepInv, pollV, SameUnit, ConfigTypeOK
<1>13. SettingsKept' BY <1>0, <1>2, BlobFacts DEF SettingsKept
<1>14. LinkKept'
  <2>1. live.link = proven.link /\ live.fp = proven.fp BY <1>1 DEF LinkKept
  <2>2. proven \in LinkBlobs BY DEF ConfigTypeOK
  <2>3. ok => linkState' = "ok" /\ linkBlob' = proven
    BY <1>0, <1>2, <2>1, <2>2 DEF SameUnit, LinkBlobs
  <2> QED BY <1>0, <1>2, <2>1, <2>3 DEF LinkKept, SameUnit
<1>15. LocalPinsNeverOnLink' BY <1>0, <1>2 DEF LocalPinsNeverOnLink
<1>16. YieldKept' BY <1>0, <1>2, BlobFacts DEF YieldKept
<1>17. (IdentityCoupled /\ ObserverScope)'
  BY <1>0, <1>2 DEF IdentityCoupled, ObserverScope, SameUnit, Tail
<1> QED
  BY <1>7, <1>8, <1>9, <1>10, <1>11, <1>12, <1>13, <1>14, <1>15, <1>16, <1>17

-----------------------------------------------------------------------------
(* Saves of the link *)

LEMMA LinkSaveStep == ASSUME ConfigIInv, NEW ok \in BOOLEAN, LinkSave(ok) PROVE ConfigIInv'
<1>0. /\ http = "link" /\ rev < MaxRev
      /\ UNCHANGED <<stage, unreadable, yield, cfgState, cfgBlob, gen, obs, pollV, sess, acked, doubt>>
  BY DEF LinkSave
<1>1. stage = "running" BY <1>0 DEF ConfigIInv, RestInv, ConfigTypeOK
<1>2. CASE /\ attempt < Attempts /\ http' = "patch"
           /\ UNCHANGED <<live, rev, linkState, linkBlob, want, wantRev, patch, attempt, tailId,
                          proven, linkLost>>
  <2> USE DEF ConfigIInv, pollV
  <2>1. ConfigTypeOK' BY <1>0, <1>2 DEF ConfigTypeOK
  <2>2. (RestInv /\ BoardInv)' BY <1>0, <1>1, <1>2 DEF RestInv, BoardInv
  <2>3. FormInv' BY <1>0, <1>2 DEF FormInv
  <2>4. (TailInv /\ SweepInv)' BY <1>0, <1>2 DEF TailInv, SweepInv, Tail
  <2>5. (SettingsKept /\ LinkKept /\ LocalPinsNeverOnLink)'
    BY <1>0, <1>2 DEF SettingsKept, LinkKept, LocalPinsNeverOnLink
  <2>6. (YieldKept /\ IdentityCoupled /\ ObserverScope)'
    BY <1>0, <1>2 DEF YieldKept, IdentityCoupled, ObserverScope, Tail
  <2> QED BY <2>1, <2>2, <2>3, <2>4, <2>5, <2>6
<1>3. CASE RequestOver /\ UNCHANGED <<live, rev, linkState, linkBlob, proven, linkLost>>
  BY <1>0, <1>1, <1>3, RequestReturns DEF Tail, config, flash, promises
<1>4. CASE /\ SnapshotCurrent /\ linkState' = "ok"
           /\ linkBlob' = [link |-> want.link, fp |-> want.fp]
           /\ live' = want /\ rev' = rev + 1
           /\ IF Restated(live, patch) THEN http' = "reconfigure" /\ Returned(want.fp) ELSE RequestOver
           /\ proven' = [link |-> Applied(live, patch).link, fp |-> Applied(live, patch).fp]
           /\ linkLost' = FALSE
  <2> USE DEF ConfigIInv
  <2>0. /\ want = Applied(live, patch) /\ ~CollidesWithLink(want) /\ live \in Configs
        /\ patch \in Patches
    BY <1>0, <1>4 DEF FormInv, SnapshotCurrent, ConfigTypeOK, Patches
  <2>1. /\ want \in Configs /\ want.svc = live.svc /\ BoardOK(want)
        /\ Reserved(want) = Reserved(live)
        /\ ~Restated(live, patch) => SameUnit(want, live)
        /\ Restated(live, patch) => Coupled(want)
        /\ Restated(live, patch) /\ want.fp # NoId => want.profile # AutoModel
    BY <1>1, <2>0, AppliedFacts DEF BoardInv
  <2>2. /\ want' \in Configs /\ wantRev' = 0 /\ patch' \in Patches /\ attempt' = 0
        /\ \/ http' = "reconfigure" /\ tailId' = want.fp /\ Restated(live, patch)
           \/ http' = "idle" /\ tailId' = NoId /\ SameUnit(want, live)
    BY <1>4, <2>1, ReturnedType DEF RequestOver
  <2>3. rev + 1 \in 0..MaxRev /\ rev \in Nat /\ expRev \in Nat BY <1>0, Constants DEF ConfigTypeOK
  <2>4. linkBlob' \in LinkBlobs /\ linkBlob' = proven' /\ proven'.link = want.link
        /\ proven'.fp = want.fp
    BY <1>4, <2>0, <2>1 DEF LinkBlobs, Configs
  <2>5. want.fp \in Identities /\ linkLost' \in BOOLEAN BY <1>4, <2>1, Zenon DEF Configs
  <2>6. live' = want /\ rev' = rev + 1 /\ linkState' = "ok" /\ linkLost' = FALSE BY <1>4
  <2>7. ConfigTypeOK'
    BY <1>0, <2>1, <2>2, <2>3, <2>4, <2>5, <2>6, Constants DEF ConfigTypeOK, Patches, pollV
  <2>8. RestInv' BY <1>0, <1>1, <2>2 DEF RestInv, pollV
  <2>9. BoardInv' BY <1>0, <2>1, <2>6 DEF BoardInv
  <2>10. FormInv' BY <2>2, <2>3, <2>6 DEF FormInv
  <2>11. TailInv' BY <2>1, <2>2, <2>6 DEF TailInv, Tail
  <2>12. SweepInv'
    BY <1>0, <2>1, <2>2, <2>3, <2>6 DEF SweepInv, pollV, SameUnit
  <2>13. SettingsKept' BY <1>0, <1>1, <2>1, <2>6 DEF SettingsKept
  <2>14. LinkKept' BY <2>4, <2>6 DEF LinkKept
  <2>15. LocalPinsNeverOnLink' BY <2>0, <2>6 DEF LocalPinsNeverOnLink
  <2>16. YieldKept' BY <1>0, <2>2 DEF YieldKept
  <2>17. IdentityCoupled' BY <2>1, <2>2, <2>6 DEF IdentityCoupled, Coupled, SameUnit
  <2>18. ObserverScope' BY <1>0, <2>1, <2>2, <2>6 DEF ObserverScope, SameUnit, Tail
  <2> QED
    BY <2>7, <2>8, <2>9, <2>10, <2>11, <2>12, <2>13, <2>14, <2>15, <2>16, <2>17, <2>18
<1> QED BY <1>2, <1>3, <1>4 DEF LinkSave

LEMMA DetectRequestStep == ASSUME ConfigIInv, DetectRequest PROVE ConfigIInv'
<1> USE DEF ConfigIInv
<1>0. /\ stage = "running" /\ http = "idle" /\ rev < MaxRev
      /\ live' = [live EXCEPT !.profile = AutoModel] /\ rev' = rev + 1
      /\ http' = "reconfigure" /\ tailId' = NoId
      /\ UNCHANGED <<stage, unreadable, yield, flash, gen, obs, want, wantRev, patch, attempt, pollV,
                     promises>>
  BY DEF DetectRequest
<1>1. /\ live' \in Configs /\ live'.svc = live.svc /\ live'.led = live.led /\ live'.btn = live.btn
      /\ live'.env = live.env /\ live'.link = live.link /\ live'.fp = live.fp
      /\ live'.profile = AutoModel
  BY <1>0, Constants DEF ConfigTypeOK, Configs
<1>2. rev + 1 \in 0..MaxRev /\ rev \in Nat /\ wantRev \in Nat /\ expRev \in Nat
  BY <1>0, Constants DEF ConfigTypeOK
<1>3. ConfigTypeOK' BY <1>0, <1>1, <1>2, Constants DEF ConfigTypeOK, flash, pollV, promises
<1>4. (RestInv /\ BoardInv)'
  BY <1>0, <1>1 DEF RestInv, BoardInv, pollV, BoardOK
<1>5. (FormInv /\ TailInv)' BY <1>0, <1>2 DEF FormInv, TailInv
<1>6. SweepInv' BY <1>0, <1>1, <1>2 DEF SweepInv, pollV
<1>7. (SettingsKept /\ LinkKept)' BY <1>0, <1>1 DEF SettingsKept, LinkKept, flash, promises
<1>8. LocalPinsNeverOnLink'
  BY <1>0, <1>1 DEF LocalPinsNeverOnLink, CollidesWithLink, Reserved
<1>9. (YieldKept /\ IdentityCoupled /\ ObserverScope)'
  BY <1>0, <1>1 DEF YieldKept, IdentityCoupled, ObserverScope, flash
<1> QED BY <1>3, <1>4, <1>5, <1>6, <1>7, <1>8, <1>9

-----------------------------------------------------------------------------
(* The reset sequence of a handler *)

LEMMA ReconfigureStep == ASSUME ConfigIInv, Reconfigure PROVE ConfigIInv'
<1> USE DEF ConfigIInv, config, flash, pollV, promises
<1>0. /\ http = "reconfigure" /\ poll \notin {"observe", "model"} /\ gen' = gen + 1 /\ http' = "reset"
      /\ UNCHANGED <<stage, config, flash, obs, want, wantRev, patch, attempt, tailId, pollV, promises>>
  BY DEF Reconfigure
<1>1. ConfigTypeOK' BY <1>0 DEF ConfigTypeOK
<1>2. (RestInv /\ BoardInv /\ FormInv)' BY <1>0 DEF RestInv, BoardInv, FormInv
<1>3. (TailInv /\ SweepInv)' BY <1>0 DEF TailInv, SweepInv, Tail
<1>4. (SettingsKept /\ LinkKept /\ LocalPinsNeverOnLink)'
  BY <1>0 DEF SettingsKept, LinkKept, LocalPinsNeverOnLink
<1>5. (YieldKept /\ IdentityCoupled /\ ObserverScope)'
  BY <1>0 DEF YieldKept, IdentityCoupled, ObserverScope
<1> QED BY <1>1, <1>2, <1>3, <1>4, <1>5

(* A reset of the observers, to no identity or to the live one.             *)
LEMMA ObserversStep == ASSUME ConfigIInv, ResetObservers \/ Rescope PROVE ConfigIInv'
<1> USE DEF ConfigIInv, config, flash, pollV, promises
<1>0. /\ http \in {"reset", "rescope"} /\ obs' \in {NoId, tailId}
      /\ http = "reset" => obs' = NoId
      /\ UNCHANGED <<stage, config, flash, gen, pollV, promises>>
      /\ \/ RequestOver
         \/ http = "reset" /\ http' = "rescope" /\ UNCHANGED <<want, wantRev, patch, attempt, tailId>>
  BY DEF ResetObservers, Rescope
<1>1. /\ want' \in Configs /\ wantRev' \in 0..MaxRev /\ wantRev' <= rev /\ patch' \in Patches
      /\ attempt' \in 0..Attempts /\ http' \in {"idle", "rescope"}
      /\ http' = "rescope" => tailId' = tailId
      /\ http' = "idle" => tailId' = NoId
  BY <1>0, Constants, ReturnedType DEF RequestOver, ConfigTypeOK, Patches, FormInv
<1>2. tailId \in Identities /\ stage = "running" /\ rev \in Nat
  BY <1>0 DEF ConfigTypeOK, RestInv
<1>3. obs' = NoId \/ (obs' = live.fp /\ live.profile # AutoModel)
  BY <1>0 DEF TailInv, Tail
<1>4. ConfigTypeOK' BY <1>0, <1>1, <1>2, Constants DEF ConfigTypeOK, Patches
<1>5. (RestInv /\ BoardInv /\ FormInv)' BY <1>0, <1>1, <1>2 DEF RestInv, BoardInv, FormInv
<1>6. TailInv' BY <1>0, <1>1 DEF TailInv, Tail
<1>7. SweepInv' BY <1>0, <1>3 DEF SweepInv
<1>8. (SettingsKept /\ LinkKept /\ LocalPinsNeverOnLink)'
  BY <1>0 DEF SettingsKept, LinkKept, LocalPinsNeverOnLink
<1>9. YieldKept' BY <1>0, <1>1 DEF YieldKept
<1>10. (IdentityCoupled /\ ObserverScope)' BY <1>0, <1>3 DEF IdentityCoupled, ObserverScope
<1> QED BY <1>4, <1>5, <1>6, <1>7, <1>8, <1>9, <1>10

-----------------------------------------------------------------------------
(* The poll task *)

(* A step of the sweep that commits nothing.                                *)
LEMMA SweepOnly ==
  ASSUME ConfigIInv, UNCHANGED <<stage, config, flash, gen, obs, httpV, promises>>,
         poll' \in {"idle", "begun", "swept"}, cycleGen' \in Nat, expRev' \in 0..MaxRev,
         expRev' <= rev, found' \in [profile : Profiles, link : Links],
         stage = "booting" \/ stage = "off" => poll' = "idle",
         poll' = "swept" => /\ found'.profile \in Models /\ live.profile = AutoModel
                            /\ found'.link \cap Reserved(live) = {}
  PROVE  ConfigIInv'
<1> USE DEF ConfigIInv, config, flash, httpV, promises
<1>1. ConfigTypeOK' BY DEF ConfigTypeOK
<1>2. (RestInv /\ BoardInv /\ FormInv)' BY DEF RestInv, BoardInv, FormInv
<1>3. (TailInv /\ SweepInv)' BY DEF TailInv, SweepInv, Tail
<1>4. (SettingsKept /\ LinkKept /\ LocalPinsNeverOnLink)'
  BY DEF SettingsKept, LinkKept, LocalPinsNeverOnLink
<1>5. (YieldKept /\ IdentityCoupled /\ ObserverScope)'
  BY DEF YieldKept, IdentityCoupled, ObserverScope
<1> QED BY <1>1, <1>2, <1>3, <1>4, <1>5

LEMMA SweepStep ==
  ASSUME ConfigIInv, PollBegin \/ PollAbandon \/ \E m \in Models, l \in Links : Sweep(m, l)
  PROVE  ConfigIInv'
<1>0. gen \in Nat /\ rev \in 0..MaxRev /\ expRev \in 0..MaxRev /\ expRev <= rev
      /\ found \in [profile : Profiles, link : Links] /\ live \in Configs /\ cycleGen \in Nat
  BY DEF ConfigIInv, ConfigTypeOK, SweepInv
<1>1. CASE PollBegin BY <1>0, <1>1, SweepOnly DEF PollBegin
<1>2. CASE PollAbandon
  <2>1. /\ poll' = "idle" /\ cycleGen' = 0 /\ expRev' = 0 /\ found' = NoFind
        /\ UNCHANGED <<stage, config, flash, gen, obs, httpV, promises>>
    BY <1>2 DEF PollAbandon, SweepOver
  <2> QED BY <1>0, <2>1, Constants, SweepOnly
<1>3. ASSUME NEW m \in Models, NEW l \in Links, Sweep(m, l) PROVE ConfigIInv'
  <2>1. /\ poll = "begun" /\ live.profile = AutoModel /\ l \cap Reserved(live) = {}
        /\ poll' = "swept" /\ expRev' = rev /\ found' = [profile |-> m, link |-> l]
        /\ UNCHANGED <<stage, config, flash, gen, obs, httpV, cycleGen, promises>>
    BY <1>3 DEF Sweep, Candidates
  <2>2. /\ found' \in [profile : Profiles, link : Links] /\ found'.profile = m /\ found'.link = l
    BY <2>1 DEF Profiles
  <2>3. ~(stage = "booting" \/ stage = "off") BY <2>1 DEF ConfigIInv, RestInv
  <2>4. rev <= rev BY <1>0
  <2> QED BY <1>0, <2>1, <2>2, <2>3, <2>4, SweepOnly
<1> QED BY <1>1, <1>2, <1>3

LEMMA CommitLinkStep == ASSUME ConfigIInv, NEW ok \in BOOLEAN, CommitLink(ok) PROVE ConfigIInv'
<1> DEFINE id == Ident(found.profile, found.link)
           changed == live.link # found.link \/ live.fp # id
<1>0. /\ poll = "swept" /\ http # "wrote" /\ rev < MaxRev
      /\ UNCHANGED <<stage, unreadable, yield, cfgState, cfgBlob, gen, obs, httpV, sess, acked, doubt>>
      /\ IF SweepCurrent
         THEN /\ IF changed /\ ok
                 THEN linkState' = "ok" /\ linkBlob' = [link |-> found.link, fp |-> id]
                 ELSE UNCHANGED <<linkState, linkBlob>>
              /\ live' = [live EXCEPT !.link = found.link, !.fp = id]
              /\ rev' = rev + 1 /\ expRev' = rev + 1 /\ poll' = "observe"
              /\ UNCHANGED <<cycleGen, found>>
              /\ proven' = [link |-> found.link, fp |-> id]
              /\ linkLost' = IF changed THEN ~ok ELSE linkLost
         ELSE /\ SweepOver /\ UNCHANGED <<live, rev, linkState, linkBlob, proven, linkLost>>
  BY DEF CommitLink, Mutex
<1>1. stage = "running" /\ found.profile \in Models /\ found.link \in Links /\ live \in Configs
      /\ rev \in Nat
  BY <1>0 DEF ConfigIInv, RestInv, ConfigTypeOK, SweepInv
<1>2. CASE ~SweepCurrent
  <2>1. /\ poll' = "idle" /\ cycleGen' = 0 /\ expRev' = 0 /\ found' = NoFind
        /\ UNCHANGED <<stage, config, flash, gen, obs, httpV, promises>>
    BY <1>0, <1>2 DEF SweepOver, config, flash, promises
  <2>2. 0 <= rev /\ 0 \in Nat BY <1>1
  <2> QED BY <1>1, <2>1, <2>2, Constants, SweepOnly
<1>3. CASE SweepCurrent
  <2> USE DEF ConfigIInv
  <2>0. id \in Identities BY <1>1, IdentType
  <2>1. /\ live' = [live EXCEPT !.link = found.link, !.fp = id]
        /\ rev' = rev + 1 /\ expRev' = rev + 1 /\ poll' = "observe" /\ UNCHANGED <<cycleGen, found>>
        /\ proven' = [link |-> found.link, fp |-> id]
        /\ linkLost' = IF changed THEN ~ok ELSE linkLost
        /\ changed /\ ok => linkState' = "ok" /\ linkBlob' = [link |-> found.link, fp |-> id]
        /\ ~(changed /\ ok) => UNCHANGED <<linkState, linkBlob>>
    BY <1>0, <1>3
  <2>2. live.profile = AutoModel /\ found.link \cap Reserved(live) = {}
    BY <1>0, <1>3 DEF SweepInv, SweepCurrent
  <2>3. ~changed => live.link = found.link /\ live.fp = id OBVIOUS
  <2>4. changed \in BOOLEAN OBVIOUS
  <2> HIDE DEF changed
  <2>5. linkLost' \in BOOLEAN BY <2>1, <2>4 DEF ConfigTypeOK
  <2>6. /\ live' \in Configs /\ live'.svc = live.svc /\ live'.led = live.led /\ live'.btn = live.btn
        /\ live'.env = live.env /\ live'.profile = live.profile /\ live'.link = found.link
        /\ live'.fp = id
    BY <1>1, <2>0, <2>1 DEF Configs
  <2>7. proven' \in LinkBlobs /\ proven'.link = found.link /\ proven'.fp = id
    BY <1>1, <2>0, <2>1 DEF LinkBlobs
  <2>8. linkBlob' \in LinkBlobs /\ linkState' \in {"absent", "bad", "ok"}
    BY <2>1, <2>7 DEF ConfigTypeOK
  <2>9. rev + 1 \in 0..MaxRev BY <1>0, <1>1, Constants
  <2>10. ConfigTypeOK'
    BY <1>0, <2>1, <2>5, <2>6, <2>7, <2>8, <2>9 DEF ConfigTypeOK, httpV
  <2>11. (RestInv /\ BoardInv)' BY <1>0, <1>1, <2>6 DEF RestInv, BoardInv, BoardOK, httpV
  <2>12. FormInv'
    <3>1. wantRev \in Nat /\ wantRev <= rev BY DEF FormInv, ConfigTypeOK
    <3> QED BY <1>0, <1>1, <2>1, <3>1 DEF FormInv, httpV
  <2>13. TailInv' BY <1>0, <2>2 DEF TailInv, httpV
  <2>14. SweepInv' BY <1>1, <2>1, <2>2, <2>6 DEF SweepInv
  <2>15. SettingsKept' BY <1>0, <1>1, <2>6 DEF SettingsKept
  <2>16. LinkKept'
    <3>1. CASE changed BY <2>1, <2>6, <2>7, <3>1 DEF LinkKept
    <3>2. CASE ~changed
      <4>1. proven \in LinkBlobs /\ proven.link = found.link /\ proven.fp = id
        BY <1>1, <2>3, <3>2 DEF LinkKept, ConfigTypeOK
      <4>2. proven' = proven BY <2>7, <4>1 DEF LinkBlobs
      <4> QED BY <2>1, <2>6, <2>7, <3>2, <4>2 DEF LinkKept
    <3> QED BY <3>1, <3>2
  <2>17. LocalPinsNeverOnLink'
    BY <2>2, <2>6 DEF LocalPinsNeverOnLink, CollidesWithLink, Reserved
  <2>18. YieldKept' BY <1>0 DEF YieldKept, httpV
  <2>19. (IdentityCoupled /\ ObserverScope)' BY <2>2, <2>6 DEF IdentityCoupled, ObserverScope
  <2> QED
    BY <2>10, <2>11, <2>12, <2>13, <2>14, <2>15, <2>16, <2>17, <2>18, <2>19
<1> QED BY <1>2, <1>3

LEMMA ObserveStep == ASSUME ConfigIInv, ObserveDetected PROVE ConfigIInv'
<1> USE DEF ConfigIInv, config, flash, httpV, promises
<1>0. /\ poll = "observe" /\ obs' = Ident(found.profile, found.link) /\ poll' = "model"
      /\ UNCHANGED <<stage, config, flash, gen, httpV, cycleGen, expRev, found, promises>>
  BY DEF ObserveDetected, Observed
<1>1. obs' \in Identities BY <1>0, IdentType DEF SweepInv, ConfigTypeOK
<1>2. ConfigTypeOK' BY <1>0, <1>1 DEF ConfigTypeOK
<1>3. (RestInv /\ BoardInv /\ FormInv /\ TailInv)'
  BY <1>0 DEF RestInv, BoardInv, FormInv, TailInv
<1>4. SweepInv' BY <1>0 DEF SweepInv
<1>5. (SettingsKept /\ LinkKept /\ LocalPinsNeverOnLink /\ YieldKept /\ IdentityCoupled)'
  BY <1>0 DEF SettingsKept, LinkKept, LocalPinsNeverOnLink, YieldKept, IdentityCoupled
<1>6. ObserverScope' BY <1>0 DEF ObserverScope, SweepInv
<1> QED BY <1>1, <1>2, <1>3, <1>4, <1>5, <1>6

LEMMA CommitModelStep == ASSUME ConfigIInv, CommitModel PROVE ConfigIInv'
<1>0. /\ poll = "model" /\ http # "wrote" /\ rev < MaxRev
      /\ UNCHANGED <<stage, unreadable, yield, flash, gen, obs, httpV, promises>>
      /\ poll' = "idle" /\ cycleGen' = 0 /\ expRev' = 0 /\ found' = NoFind
      /\ IF ModelCurrent THEN live' = [live EXCEPT !.profile = found.profile] /\ rev' = rev + 1
         ELSE UNCHANGED <<live, rev>>
  BY DEF CommitModel, Mutex, SweepOver
<1>1. /\ stage = "running" /\ found.profile \in Models /\ live \in Configs /\ rev \in Nat
      /\ wantRev \in Nat /\ wantRev <= rev
  BY <1>0 DEF ConfigIInv, RestInv, ConfigTypeOK, SweepInv, FormInv
<1>2. CASE ~ModelCurrent
  <2>1. UNCHANGED <<stage, config, flash, gen, obs, httpV, promises>> /\ 0 <= rev /\ 0 \in Nat
    BY <1>0, <1>1, <1>2 DEF config
  <2> QED BY <1>0, <1>1, <2>1, Constants, SweepOnly
<1>3. CASE ModelCurrent
  <2> USE DEF ConfigIInv
  <2>1. live' = [live EXCEPT !.profile = found.profile] /\ rev' = rev + 1 BY <1>0, <1>3
  <2>2. /\ live.profile = AutoModel /\ live.link = found.link
        /\ live.fp = Ident(found.profile, found.link) /\ obs \in {NoId, live.fp}
    BY <1>0, <1>3 DEF SweepInv, ModelCurrent
  <2>3. /\ live' \in Configs /\ live'.svc = live.svc /\ live'.led = live.led /\ live'.btn = live.btn
        /\ live'.env = live.env /\ live'.profile = found.profile /\ live'.link = live.link
        /\ live'.fp = live.fp
    BY <1>1, <2>1 DEF Configs, Profiles
  <2>4. rev + 1 \in 0..MaxRev BY <1>0, <1>1, Constants
  <2>5. ConfigTypeOK'
    BY <1>0, <2>1, <2>3, <2>4, Constants DEF ConfigTypeOK, httpV, flash, promises
  <2>6. (RestInv /\ BoardInv)' BY <1>0, <1>1, <2>3 DEF RestInv, BoardInv, BoardOK, httpV
  <2>7. FormInv' BY <1>0, <1>1, <2>1 DEF FormInv, httpV, flash, promises
  <2>8. TailInv' BY <1>0, <2>2 DEF TailInv, httpV
  <2>9. SweepInv' BY <1>0, <1>1, <2>1 DEF SweepInv
  <2>10. (SettingsKept /\ LinkKept)' BY <1>0, <1>1, <2>3 DEF SettingsKept, LinkKept, flash, promises
  <2>11. LocalPinsNeverOnLink'
    BY <1>0, <2>3 DEF LocalPinsNeverOnLink, CollidesWithLink, Reserved
  <2>12. YieldKept' BY <1>0 DEF YieldKept, httpV, flash
  <2>13. (IdentityCoupled /\ ObserverScope)'
    BY <1>0, <2>2, <2>3 DEF IdentityCoupled, ObserverScope
  <2> QED BY <2>5, <2>6, <2>7, <2>8, <2>9, <2>10, <2>11, <2>12, <2>13
<1> QED BY <1>2, <1>3

-----------------------------------------------------------------------------
LEMMA NextConfigIInv == ASSUME ConfigIInv, [ConfigNext]_configVars PROVE ConfigIInv'
<1>1. CASE UNCHANGED configVars
  BY <1>1 DEF ConfigIInv, configVars, config, flash, httpV, pollV, promises, ConfigTypeOK, RestInv,
     BoardInv, FormInv, TailInv, SweepInv, SettingsKept, LinkKept, LocalPinsNeverOnLink, YieldKept,
     IdentityCoupled, ObserverScope
<1>2. \A m \in Profiles \cup {Keep}, l \in Links \cup {Keep} :
        [profile |-> m, link |-> l] \in Patches
  BY DEF Patches
<1>3. CASE ConfigNext
  BY <1>2, <1>3, ResetStep, LoadStep, AutoSaveStep, StartStep, ServiceFormStep, ServiceWriteStep,
     ServicePublishStep, HpRequestStep, HpDeriveStep, LinkSaveStep, DetectRequestStep,
     ReconfigureStep, ObserversStep, SweepStep, CommitLinkStep, ObserveStep, CommitModelStep, Zenon
     DEF ConfigNext
<1> QED BY <1>1, <1>3

(* Every reachable state satisfies the strengthened invariant.              *)
THEOREM ConfigInductive == ConfigSpec => []ConfigIInv
BY InitConfigIInv, NextConfigIInv, PTL DEF ConfigSpec

(* Whatever detections, forms, failed writes and resets interleave, no      *)
(* answered save of the settings is lost and no older snapshot puts the     *)
(* proved link back (config_save_transaction, the two detection commits).   *)
THEOREM NoCommitIsLost == ConfigSpec => []CommitsKept
<1>1. ConfigIInv => CommitsKept BY DEF ConfigIInv, CommitsKept
<1> QED BY <1>1, ConfigInductive, PTL

(* No local part ever shares a pad with the link, and a part that yielded   *)
(* its pad at load stays in flash until a form speaks of it.                *)
THEOREM EveryPartKeepsItsPad == ConfigSpec => []PinsKept
<1>1. ConfigIInv => PinsKept BY DEF ConfigIInv, PinsKept
<1> QED BY <1>1, ConfigInductive, PTL

(* A concrete profile carries the identity of that profile on that link,    *)
(* and outside a handler's reset sequence the observers record under it or  *)
(* under none.                                                              *)
THEOREM DataStaysOfOneUnit == ConfigSpec => []IdentityScope
<1>1. ConfigIInv => IdentityScope BY DEF ConfigIInv, IdentityScope
<1> QED BY <1>1, ConfigInductive, PTL

(* No step overwrites settings unread before the services start, and none   *)
(* stores a board whose parts share a pad.                                  *)
THEOREM WhatIsStoredLoads == ConfigSpec => FlashKept
<1>1. ASSUME ConfigIInv, ConfigNext PROVE UnreadableKept /\ StoredBoardLoads
  <2>1. CASE \E ok \in BOOLEAN : ServiceWrite(ok)
    <3> DEFINE r == IF wantRev = rev THEN want ELSE Reconciled(want, live)
    <3>1. http = "service" /\ (cfgBlob' = cfgBlob \/ cfgBlob' = BlobFrom(r, yield))
      BY <2>1 DEF ServiceWrite
    <3>2. ~(unreadable /\ stage = "booting") BY <1>1, <3>1 DEF ConfigIInv, RestInv
    <3>3. want \in Configs /\ live \in Configs /\ BoardOK(want) /\ yield \in Yields /\ Distinct(yield)
      BY <1>1, <3>1 DEF ConfigIInv, ConfigTypeOK, FormInv, BoardInv, Yields
    <3>4. r \in Configs /\ BoardOK(r) BY <3>3, ReconciledFacts
    <3> HIDE DEF r
    <3> QED BY <3>1, <3>2, <3>3, <3>4, BlobFacts DEF UnreadableKept, StoredBoardLoads
  <2>2. CASE ~\E ok \in BOOLEAN : ServiceWrite(ok)
    <3>1. UNCHANGED <<cfgState, cfgBlob>>
      BY <1>1, <2>2, ZenonT(60) DEF ConfigNext, Reset, Load, AutoSave, StartServices, SettingsForm, BoardForm,
         EnvForm, ServiceRequest, ServicePublish, HpRequest, HpDerive, LinkSave, DetectRequest,
         Reconfigure, ResetObservers, Rescope, PollBegin, Sweep, PollAbandon, CommitLink,
         ObserveDetected, CommitModel, flash
    <3> QED BY <3>1 DEF UnreadableKept, StoredBoardLoads
  <2> QED BY <2>1, <2>2
<1>2. ConfigIInv /\ [ConfigNext]_configVars => [UnreadableKept /\ StoredBoardLoads]_configVars BY <1>1
<1> QED BY <1>2, ConfigInductive, PTL DEF ConfigSpec, FlashKept

-----------------------------------------------------------------------------
(* Recovery: safe mode and the heap watchdog *)

USE FailAssumption, HeapAssumption

(* A count read back is within the counter's range, whatever flash holds.   *)
LEMMA SaneCounts ==
  ASSUME NEW n \in Int
  PROVE  /\ FailCountSane(n) \in 0 .. FailMax
         /\ RestartCountSane(n) \in 0 .. MaxRestarts
         /\ n \in 0 .. FailMax => FailCountSane(n) = n
         /\ n \in 0 .. MaxRestarts => RestartCountSane(n) = n
  BY DEF FailCountSane, RestartCountSane

(* A clock modulo Wrap never runs ahead of the time that really passed.     *)
LEMMA WrappedClock ==
  ASSUME NEW a \in 0 .. Wrap - 1, NEW d \in Gaps
  PROVE  /\ Elapsed(a + d) \in 0 .. Wrap - 1
         /\ Elapsed(a + d) <= a + d
  BY DEF Elapsed

(* What a boot counts is within range, so it is read back as written.       *)
LEMMA CountInRange ==
  ASSUME NEW k \in Kinds, NEW n \in Int
  PROVE  CrashCount(k, n) \in 0 .. FailMax
<1>1. FailCountSane(n) \in 0 .. FailMax
  BY SaneCounts
<1>2. QED
  BY <1>1 DEF CrashCount, AtMost, Kinds

-----------------------------------------------------------------------------
(* Type correctness *)

LEMMA CountersInit == Init => CountersOK
<1> SUFFICES ASSUME Init PROVE CountersOK
  OBVIOUS
<1>1. bootFails \in -1 .. FailMax + 1 /\ heapRst \in -1 .. MaxRestarts + 1
  BY DEF Init
<1>2. streak \in 0 .. FailMax /\ wdRuns \in 0 .. MaxRestarts + 1
  BY <1>1, SaneCounts DEF Init
<1>3. restarts \in 0 .. MaxRestarts /\ age \in 0 .. Wrap - 1
      /\ held \in 0 .. Hold
  BY DEF Init
<1>4. QED
  BY <1>1, <1>2, <1>3 DEF CountersOK

LEMMA FlagsInit == Init => FlagsOK
  BY DEF Init, FlagsOK, Reasons, Kinds, Phases

(* A reset keeps what the types ask of flash and of the history.            *)
LEMMA CountersReset ==
  ASSUME CountersOK, NEW r \in Reasons, ResetTo(r)
  PROVE  CountersOK'
<1>1. restarts' \in 0 .. MaxRestarts /\ age' \in 0 .. Wrap - 1
      /\ held' \in 0 .. Hold
  BY DEF ResetTo
<1>2. QED
  BY <1>1 DEF CountersOK, ResetTo, stored, ghosts

LEMMA FlagsReset ==
  ASSUME FlagsOK, NEW r \in Reasons, ResetTo(r), marker' \in BOOLEAN
  PROVE  FlagsOK'
  BY DEF FlagsOK, ResetTo, ghosts, Kinds, Phases

(* The six resets, as one: where they lead and what becomes of the marker.  *)
Resets == \/ Crash \/ PowerCycle \/ ExternalReset
          \/ IntentionalRestart \/ FactoryRestart \/ WatchdogRestart

LEMMA ResetCases ==
  ASSUME Resets
  PROVE  \E r \in Reasons :
           /\ ResetTo(r)
           /\ r # "POWERON" => marker' = marker
           /\ r = "POWERON" => marker' \in BOOLEAN
  BY DEF Resets, Crash, PowerCycle, ExternalReset, IntentionalRestart,
         FactoryRestart, WatchdogRestart, Reasons

(* The factory reset's erase, as one: it may lose a count, it never forges  *)
(* one, and it leaves the rest of the boot alone.                           *)
Erases == \/ FactoryLatch \/ EraseBootFails \/ EraseHeapRst
          \/ \E ok \in BOOLEAN : FactoryErased(ok)

LEMMA EraseSteps ==
  ASSUME Erases
  PROVE  /\ UNCHANGED <<nvsUp, reason, phase, kind, safeMode, restarts,
                        prevArmed, marker, timer, critical, age, held, wd,
                        streak, wdRuns, clearLost, blind>>
         /\ bootFails' = bootFails \/ (bootFails' = 0 /\ bumpLost' /\ ~due')
         /\ heapRst' = heapRst \/ (heapRst' = 0 /\ stepLost' /\ ~due')
         /\ bumpLost => bumpLost'
         /\ stepLost => stepLost'
         /\ due' => due
         /\ erasing \/ phase \in {"laddered", "running"}
  BY DEF Erases, FactoryLatch, EraseBootFails, EraseHeapRst, FactoryErased,
         stored, bootVars, watch, ghosts

LEMMA CountersNext == CountersOK /\ [Next]_vars => CountersOK'
<1> SUFFICES ASSUME CountersOK, [Next]_vars PROVE CountersOK'
  OBVIOUS
<1>1. CASE Resets
  BY <1>1, ResetCases, CountersReset
<1>2. ASSUME NEW up \in BOOLEAN, NEW ok \in BOOLEAN, SafeModeBegin(up, ok)
      PROVE  CountersOK'
  <2> DEFINE n == IF up THEN bootFails ELSE 0
             k == BootClassify(reason, marker)
  <2>1. n \in Int /\ k \in Kinds
    BY DEF CountersOK, BootClassify, Kinds
  <2>2. CrashCount(k, n) \in 0 .. FailMax
    BY <2>1, CountInRange
  <2> HIDE DEF n, k
  <2>4. bootFails' \in -1 .. FailMax + 1
    BY <1>2, <2>2 DEF SafeModeBegin, CountersOK, n, k
  <2>5. streak' \in 0 .. FailMax
    BY <1>2 DEF SafeModeBegin, CountersOK, AtMost
  <2>6. wdRuns' \in 0 .. MaxRestarts + 1
    BY <1>2 DEF SafeModeBegin, CountersOK
  <2>7. QED
    BY <1>2, <2>4, <2>5, <2>6 DEF SafeModeBegin, CountersOK, watch
<1>3. ASSUME NEW ok \in BOOLEAN, HeapGuardBegin(ok) PROVE CountersOK'
  <2>1. NvsGet(heapRst) \in Int
    BY DEF NvsGet, CountersOK
  <2>2. HeapHonoured(kind, NvsGet(heapRst)) \in 0 .. MaxRestarts
    BY <2>1, SaneCounts DEF HeapHonoured
  <2>3. restarts' \in 0 .. MaxRestarts
    BY <1>3, <2>2 DEF HeapGuardBegin
  <2>4. heapRst' \in -1 .. MaxRestarts + 1
    BY <1>3 DEF HeapGuardBegin, CountersOK
  <2>5. QED
    BY <1>3, <2>3, <2>4 DEF HeapGuardBegin, CountersOK, watch
<1>4. CASE StartTasks \/ ArmHealthy
  BY <1>4 DEF StartTasks, ArmHealthy, CountersOK, stored, bootVars, watch,
              ghosts
<1>5. ASSUME NEW ok \in BOOLEAN, HealthyTimerFires(ok) PROVE CountersOK'
  <2>1. bootFails' \in -1 .. FailMax + 1 /\ streak' \in 0 .. FailMax
    BY <1>5 DEF HealthyTimerFires, CountersOK
  <2>2. QED
    BY <1>5, <2>1 DEF HealthyTimerFires, CountersOK, bootVars, watch
<1>6. ASSUME NEW block \in Blocks, NEW otaBusy \in BOOLEAN, NEW d \in Gaps,
             Sample(block, otaBusy, d)
      PROVE  CountersOK'
  <2>1. d \in Nat /\ Elapsed(age + d) \in 0 .. Wrap - 1
    BY WrappedClock DEF CountersOK
  <2>2. age' \in 0 .. Wrap - 1
    BY <1>6, <2>1 DEF Sample
  <2>3. held' \in 0 .. Hold
    BY <1>6, <2>1 DEF Sample, CountersOK, AtMost
  <2>4. QED
    BY <1>6, <2>2, <2>3 DEF Sample, CountersOK, stored, bootVars, ghosts
<1>7. ASSUME NEW ok \in BOOLEAN, PersistRestart(ok) PROVE CountersOK'
  BY <1>7 DEF PersistRestart, CountersOK, bootVars, watch
<1>8. CASE ArmMarker
  <2>1. wdRuns' \in 0 .. MaxRestarts + 1
    BY <1>8 DEF ArmMarker, CountersOK, AtMost
  <2>2. QED
    BY <1>8, <2>1 DEF ArmMarker, CountersOK, stored, bootVars, watch
<1>9. CASE Erases
  <2>1. bootFails' \in {bootFails, 0} /\ heapRst' \in {heapRst, 0}
        /\ UNCHANGED <<restarts, age, held, streak, wdRuns>>
    BY <1>9 DEF Erases, FactoryLatch, EraseBootFails, EraseHeapRst,
       FactoryErased, stored, bootVars, watch, ghosts
  <2>2. QED
    BY <2>1 DEF CountersOK
<1>10. CASE UNCHANGED vars
  BY <1>10 DEF vars, CountersOK
<1>11. QED
  BY <1>1, <1>2, <1>3, <1>4, <1>5, <1>6, <1>7, <1>8, <1>9, <1>10
     DEF Next, Resets, Erases

LEMMA FlagsNext == TypeOK /\ [Next]_vars => FlagsOK'
<1> SUFFICES ASSUME TypeOK, [Next]_vars PROVE FlagsOK'
  OBVIOUS
<1> USE DEF TypeOK
<1>1. CASE Resets
  BY <1>1, ResetCases, FlagsReset DEF FlagsOK
<1>2. ASSUME NEW up \in BOOLEAN, NEW ok \in BOOLEAN, SafeModeBegin(up, ok)
      PROVE  FlagsOK'
  <2> DEFINE k == BootClassify(reason, marker)
             n == IF up THEN bootFails ELSE 0
  <2>1. k \in Kinds
    BY DEF BootClassify, Kinds
  <2>2. CrashLoop(k, n) \in BOOLEAN
    BY DEF CrashLoop
  <2>3. kind' \in Kinds /\ safeMode' \in BOOLEAN /\ phase' \in Phases
        /\ nvsUp' \in BOOLEAN /\ marker' \in BOOLEAN
    BY <1>2, <2>1, <2>2 DEF SafeModeBegin, Phases
  <2>4. bumpLost' \in BOOLEAN /\ clearLost' \in BOOLEAN
        /\ stepLost' \in BOOLEAN /\ due' \in BOOLEAN /\ blind' \in BOOLEAN
    BY <1>2, <2>2 DEF SafeModeBegin, FlagsOK
  <2>5. QED
    BY <1>2, <2>3, <2>4 DEF SafeModeBegin, FlagsOK, watch
<1>3. ASSUME NEW ok \in BOOLEAN, HeapGuardBegin(ok) PROVE FlagsOK'
  BY <1>3 DEF HeapGuardBegin, FlagsOK, watch, Phases
<1>4. CASE StartTasks \/ ArmHealthy
  BY <1>4 DEF StartTasks, ArmHealthy, FlagsOK, bootVars, watch, ghosts, Phases
<1>5. ASSUME NEW ok \in BOOLEAN, HealthyTimerFires(ok) PROVE FlagsOK'
  BY <1>5 DEF HealthyTimerFires, FlagsOK, bootVars, watch
<1>6. ASSUME NEW block \in Blocks, NEW otaBusy \in BOOLEAN, NEW d \in Gaps,
             Sample(block, otaBusy, d)
      PROVE  FlagsOK'
  BY <1>6 DEF Sample, FlagsOK, bootVars, ghosts
<1>7. ASSUME NEW ok \in BOOLEAN, PersistRestart(ok) PROVE FlagsOK'
  BY <1>7 DEF PersistRestart, FlagsOK, bootVars, watch
<1>8. CASE ArmMarker
  <2>1. marker' \in BOOLEAN /\ wd' \in {"idle", "decided", "draining", "armed"}
    BY <1>8 DEF ArmMarker, FlagsOK
  <2>2. QED
    BY <1>8, <2>1 DEF ArmMarker, FlagsOK, bootVars, watch
<1>9. CASE Erases
  <2>1. UNCHANGED <<reason, kind, phase, timer, wd, nvsUp, marker, safeMode,
                    critical, clearLost, blind, prevArmed>>
    BY <1>9, EraseSteps
  <2>2. /\ latched' \in BOOLEAN /\ erasing' \in BOOLEAN
        /\ bumpLost' \in BOOLEAN /\ stepLost' \in BOOLEAN /\ due' \in BOOLEAN
    BY <1>9 DEF Erases, FactoryLatch, EraseBootFails, EraseHeapRst,
       FactoryErased, ghosts, FlagsOK
  <2>3. QED
    BY <2>1, <2>2 DEF FlagsOK
<1>10. CASE UNCHANGED vars
  BY <1>10 DEF vars, FlagsOK
<1>11. QED
  BY <1>1, <1>2, <1>3, <1>4, <1>5, <1>6, <1>7, <1>8, <1>9, <1>10
     DEF Next, Resets, Erases

LEMMA TypeNext == TypeOK /\ [Next]_vars => TypeOK'
  BY CountersNext, FlagsNext DEF TypeOK

(* Every variable keeps its type, whatever was stored by an earlier build.  *)
THEOREM TypeCorrect == Spec => []TypeOK
<1>1. Init => TypeOK
  BY CountersInit, FlagsInit DEF TypeOK
<1>2. QED
  BY <1>1, TypeNext, PTL DEF Spec

-----------------------------------------------------------------------------
(* The inductive invariant, one part at a time *)

LEMMA BootOrderNext ==
  TypeOK /\ BootOrder /\ CleanBootNeverMinimal /\ [Next]_vars => BootOrder'
<1> SUFFICES ASSUME TypeOK, BootOrder, CleanBootNeverMinimal, [Next]_vars
             PROVE  BootOrder'
  OBVIOUS
<1> USE DEF BootOrder
<1>1. CASE Resets
  <2>1. PICK r \in Reasons : ResetTo(r)
    BY <1>1, ResetCases
  <2>2. QED
    BY <2>1 DEF ResetTo
<1>2. ASSUME NEW up \in BOOLEAN, NEW ok \in BOOLEAN, SafeModeBegin(up, ok)
      PROVE  BootOrder'
  BY <1>2 DEF SafeModeBegin
<1>3. ASSUME NEW ok \in BOOLEAN, HeapGuardBegin(ok) PROVE BootOrder'
  <2>1. restarts' = MaxRestarts => safeMode'
    <3> DEFINE n == HeapHonoured(kind, NvsGet(heapRst))
    <3>1. restarts' = n
      BY <1>3 DEF HeapGuardBegin
    <3>2. n # 0 /\ ~(n < MaxRestarts) => safeMode'
      BY <1>3, Zenon DEF HeapGuardBegin, HeapBootMustBeMinimal, HeapMayRestart
    <3>3. QED
      BY <3>1, <3>2
  <2>2. QED
    BY <1>3, <2>1 DEF HeapGuardBegin
<1>4. CASE StartTasks
  BY <1>4 DEF StartTasks
<1>5. CASE ArmHealthy
  BY <1>5 DEF ArmHealthy, HealthyTimerArms, bootVars
<1>6. ASSUME NEW ok \in BOOLEAN, HealthyTimerFires(ok) PROVE BootOrder'
  BY <1>6 DEF HealthyTimerFires, bootVars
<1>7. ASSUME NEW block \in Blocks, NEW otaBusy \in BOOLEAN, NEW d \in Gaps,
             Sample(block, otaBusy, d)
      PROVE  BootOrder'
  BY <1>7 DEF Sample, bootVars, ghosts
<1>8. ASSUME NEW ok \in BOOLEAN, PersistRestart(ok) PROVE BootOrder'
  BY <1>8 DEF PersistRestart, bootVars
<1>9. CASE ArmMarker
  BY <1>9 DEF ArmMarker, bootVars
<1>10. CASE Erases
  BY <1>10, EraseSteps
<1>11. CASE UNCHANGED vars
  BY <1>11 DEF vars
<1>12. QED
  BY <1>1, <1>2, <1>3, <1>4, <1>5, <1>6, <1>7, <1>8, <1>9, <1>10, <1>11
     DEF Next, Resets, Erases

LEMMA MarkerNext ==
  TypeOK /\ BootOrder /\ MarkerInv /\ [Next]_vars => MarkerInv'
<1> SUFFICES ASSUME TypeOK, BootOrder, MarkerInv, [Next]_vars
             PROVE  MarkerInv'
  OBVIOUS
<1> USE DEF MarkerInv
<1>1. CASE Resets
  <2>1. PICK r \in Reasons : ResetTo(r) /\ (r = "SW" => marker' = marker)
    BY <1>1, ResetCases
  <2>2. r = "SW" => phase # "reset"
    BY <1>1, <2>1 DEF Resets, Crash, PowerCycle, ExternalReset, ResetTo,
       IntentionalRestart, FactoryRestart, WatchdogRestart, BootOrder
  <2>3. QED
    BY <2>1, <2>2 DEF ResetTo, TypeOK, FlagsOK
<1>2. ASSUME NEW up \in BOOLEAN, NEW ok \in BOOLEAN, SafeModeBegin(up, ok)
      PROVE  MarkerInv'
  <2>1. wd = "idle"
    BY <1>2 DEF SafeModeBegin, BootOrder
  <2>2. kind' = "HeapWatchdogRestart" <=> reason = "SW" /\ marker
    BY <1>2 DEF SafeModeBegin, BootClassify, ResetWasCrash
  <2>3. QED
    BY <1>2, <2>1, <2>2 DEF SafeModeBegin
<1>3. ASSUME NEW ok \in BOOLEAN, HeapGuardBegin(ok) PROVE MarkerInv'
  BY <1>3 DEF HeapGuardBegin
<1>4. CASE StartTasks
  BY <1>4 DEF StartTasks
<1>5. CASE ArmHealthy
  BY <1>5 DEF ArmHealthy, bootVars
<1>6. ASSUME NEW ok \in BOOLEAN, HealthyTimerFires(ok) PROVE MarkerInv'
  BY <1>6 DEF HealthyTimerFires, bootVars
<1>7. ASSUME NEW block \in Blocks, NEW otaBusy \in BOOLEAN, NEW d \in Gaps,
             Sample(block, otaBusy, d)
      PROVE  MarkerInv'
  BY <1>7 DEF Sample, bootVars
<1>8. ASSUME NEW ok \in BOOLEAN, PersistRestart(ok) PROVE MarkerInv'
  BY <1>8 DEF PersistRestart, bootVars
<1>9. CASE ArmMarker
  BY <1>9 DEF ArmMarker, bootVars, BootOrder
<1>10. CASE Erases
  BY <1>10, EraseSteps
<1>11. CASE UNCHANGED vars
  BY <1>11 DEF vars
<1>12. QED
  BY <1>1, <1>2, <1>3, <1>4, <1>5, <1>6, <1>7, <1>8, <1>9, <1>10, <1>11
     DEF Next, Resets, Erases

(* A clean boot never becomes minimal: nothing latches safe mode in one.    *)
LEMMA CleanNext ==
  TypeOK /\ BootOrder /\ CleanBootNeverMinimal /\ [Next]_vars
    => CleanBootNeverMinimal'
<1> SUFFICES ASSUME TypeOK, BootOrder, CleanBootNeverMinimal, [Next]_vars
             PROVE  CleanBootNeverMinimal'
  OBVIOUS
<1> USE DEF CleanBootNeverMinimal
<1>1. CASE Resets
  <2>1. PICK r \in Reasons : ResetTo(r)
    BY <1>1, ResetCases
  <2>2. QED
    BY <2>1 DEF ResetTo
<1>2. ASSUME NEW up \in BOOLEAN, NEW ok \in BOOLEAN, SafeModeBegin(up, ok)
      PROVE  CleanBootNeverMinimal'
  BY <1>2 DEF SafeModeBegin, CrashLoop
<1>3. ASSUME NEW ok \in BOOLEAN, HeapGuardBegin(ok)
      PROVE  CleanBootNeverMinimal'
  BY <1>3 DEF HeapGuardBegin, HeapHonoured
<1>4. CASE UNCHANGED <<kind, safeMode>>
  BY <1>4
<1>5. CASE Erases
  BY <1>5, EraseSteps
<1>6. QED
  BY <1>1, <1>2, <1>3, <1>4, <1>5 DEF Next, Resets, Erases, StartTasks,
     ArmHealthy, HealthyTimerFires, Sample, PersistRestart, ArmMarker,
     bootVars, vars

-----------------------------------------------------------------------------
(* The crash counter against the crashes that really happened *)

(* One crash boot advances the stored count and the history alike.          *)
LEMMA CrashBootCounts ==
  ASSUME NEW f \in Int, NEW up \in BOOLEAN, NEW s \in 0 .. FailMax,
         NEW n, n = IF up THEN f ELSE 0
  PROVE  /\ CrashCount("Crash", n) \in 0 .. FailMax
         /\ up /\ s <= FailCountSane(f)
              => AtMost(s + 1, FailMax) <= CrashCount("Crash", n)
         /\ FailCountSane(f) <= s
              => CrashCount("Crash", n) <= AtMost(s + 1, FailMax)
  BY DEF CrashCount, AtMost, FailCountSane

LEMMA CountNext ==
  TypeOK /\ BootOrder /\ CountInv /\ [Next]_vars => CountInv'
<1> SUFFICES ASSUME TypeOK, BootOrder, CountInv, [Next]_vars PROVE CountInv'
  OBVIOUS
<1> USE DEF CountInv
<1>0. FailCountSane(0) = 0
  BY DEF FailCountSane
<1>1. CASE Resets
  <2>1. PICK r \in Reasons : ResetTo(r)
    BY <1>1, ResetCases
  <2>2. QED
    BY <2>1 DEF ResetTo, stored, ghosts, FailCountSane
<1>2. ASSUME NEW up \in BOOLEAN, NEW ok \in BOOLEAN, SafeModeBegin(up, ok)
      PROVE  CountInv'
  <2> DEFINE n == IF up THEN bootFails ELSE 0
             k == BootClassify(reason, marker)
  <2>1. bootFails \in Int /\ streak \in 0 .. FailMax /\ k \in Kinds
    BY DEF TypeOK, CountersOK, BootClassify, Kinds
  <2>2. CASE k = "Crash"
    <3>1. streak' = AtMost(streak + 1, FailMax) /\ clearLost' = clearLost
      BY <1>2, <2>2 DEF SafeModeBegin
    <3>2. CASE ok
      <4>1. up /\ bootFails' = CrashCount("Crash", n)
        BY <1>2, <2>2, <3>2 DEF SafeModeBegin, CrashCountWritten
      <4>2. bootFails' \in 0 .. FailMax
        BY <2>1, <4>1, CrashBootCounts
      <4>3. FailCountSane(bootFails)' = bootFails'
        BY <4>2 DEF FailCountSane
      <4>4. bumpLost' => bumpLost
        BY <1>2, <2>2, <3>2 DEF SafeModeBegin, CrashCountWritten
      <4>5. ~bumpLost' => streak' <= FailCountSane(bootFails)'
        BY <2>1, <3>1, <4>1, <4>3, <1>2, <2>2, CrashBootCounts
           DEF SafeModeBegin
      <4>6. ~clearLost' => FailCountSane(bootFails)' <= streak'
        BY <2>1, <3>1, <4>1, <4>3, CrashBootCounts
      <4>7. QED
        BY <4>5, <4>6
    <3>3. CASE ~ok
      <4>1. bumpLost' /\ bootFails' = bootFails
        BY <1>2, <2>2, <3>3 DEF SafeModeBegin, CrashCountWritten
      <4>2. streak <= streak' /\ FailCountSane(bootFails)' = FailCountSane(bootFails)
        BY <2>1, <3>1, <4>1 DEF AtMost, FailCountSane
      <4>3. FailCountSane(bootFails) \in Int /\ streak' \in Int
        BY <2>1, <3>1, SaneCounts DEF AtMost
      <4>4. QED
        BY <2>1, <3>1, <4>1, <4>2, <4>3
    <3>4. QED
      BY <3>2, <3>3
  <2>3. CASE k = "HeapWatchdogRestart"
    <3>1. bootFails' = bootFails /\ streak' = streak
          /\ (bumpLost' => bumpLost) /\ (~bumpLost' => ~bumpLost)
          /\ clearLost' = clearLost
      BY <1>2, <2>3 DEF SafeModeBegin, CrashCountWritten, TypeOK, FlagsOK
    <3>2. QED
      BY <3>1 DEF FailCountSane
  <2>4. CASE k = "Clean"
    <3>1. streak' = 0 /\ (~clearLost' => bootFails' = 0)
      BY <1>2, <2>4 DEF SafeModeBegin
    <3>2. bootFails' \in Int
      BY TypeNext DEF TypeOK, CountersOK
    <3>3. FailCountSane(bootFails)' \in 0 .. FailMax
      BY <3>2 DEF FailCountSane
    <3>4. ~clearLost' => FailCountSane(bootFails)' = 0
      BY <3>1 DEF FailCountSane
    <3>5. QED
      BY <3>1, <3>3, <3>4
  <2>5. QED
    BY <2>1, <2>2, <2>3, <2>4 DEF Kinds
<1>3. ASSUME NEW ok \in BOOLEAN, HealthyTimerFires(ok) PROVE CountInv'
  BY <1>3, <1>0 DEF HealthyTimerFires, FailCountSane
<1>4. CASE Erases
  <2>1. /\ UNCHANGED <<streak, clearLost>> /\ (bumpLost => bumpLost')
        /\ bootFails' = bootFails \/ (bootFails' = 0 /\ bumpLost')
    BY <1>4, EraseSteps
  <2>2. bootFails' = bootFails
          => FailCountSane(bootFails)' = FailCountSane(bootFails)
    BY DEF FailCountSane
  <2>3. bootFails' = 0 => FailCountSane(bootFails)' = 0
    BY <1>0 DEF FailCountSane
  <2>4. streak \in 0 .. FailMax
    BY DEF TypeOK, CountersOK
  <2>5. QED
    BY <2>1, <2>2, <2>3, <2>4
<1>5. CASE UNCHANGED <<bootFails, streak, bumpLost, clearLost>>
  BY <1>5 DEF FailCountSane
<1>6. QED
  BY <1>1, <1>2, <1>3, <1>4, <1>5 DEF Next, Resets, Erases, StartTasks, ArmHealthy,
     HeapGuardBegin, Sample, PersistRestart, ArmMarker, stored, ghosts, vars

LEMMA LatchNext ==
  TypeOK /\ BootOrder /\ CountInv /\ CrashLoopLatches /\ [Next]_vars
    => CrashLoopLatches'
<1> SUFFICES ASSUME TypeOK, BootOrder, CountInv, CrashLoopLatches, [Next]_vars
             PROVE  CrashLoopLatches'
  OBVIOUS
<1> USE DEF CrashLoopLatches
<1>1. CASE Resets
  <2>1. PICK r \in Reasons : ResetTo(r)
    BY <1>1, ResetCases
  <2>2. QED
    BY <2>1 DEF ResetTo
<1>2. ASSUME NEW up \in BOOLEAN, NEW ok \in BOOLEAN, SafeModeBegin(up, ok)
      PROVE  CrashLoopLatches'
  <2> DEFINE n == IF up THEN bootFails ELSE 0
             k == BootClassify(reason, marker)
  <2>1. bootFails \in Int /\ streak \in 0 .. FailMax
    BY DEF TypeOK, CountersOK
  <2>2. SUFFICES ASSUME k = "Crash", streak' >= FailThreshold, ~bumpLost'
                 PROVE  safeMode'
    BY <1>2 DEF SafeModeBegin
  <2>3. streak' = AtMost(streak + 1, FailMax) /\ up /\ ~bumpLost
    BY <1>2, <2>2 DEF SafeModeBegin, CrashCountWritten
  <2>4. CrashCount("Crash", n) >= FailThreshold
    <3>1. AtMost(streak + 1, FailMax) <= CrashCount("Crash", n)
          /\ CrashCount("Crash", n) \in 0 .. FailMax
      BY <2>1, <2>3, CrashBootCounts DEF CountInv
    <3>2. QED
      BY <2>1, <2>2, <2>3, <3>1 DEF AtMost
  <2>5. QED
    BY <1>2, <2>2, <2>4 DEF SafeModeBegin, CrashLoop
<1>3. ASSUME NEW ok \in BOOLEAN, HeapGuardBegin(ok) PROVE CrashLoopLatches'
  BY <1>3 DEF HeapGuardBegin
<1>4. ASSUME NEW ok \in BOOLEAN, HealthyTimerFires(ok)
      PROVE  CrashLoopLatches'
  BY <1>4 DEF HealthyTimerFires, bootVars, BootOrder
<1>5. CASE Erases
  BY <1>5, EraseSteps
<1>6. CASE StartTasks
  BY <1>6 DEF StartTasks, ghosts
<1>7. CASE UNCHANGED <<phase, kind, streak, bumpLost, safeMode>>
  BY <1>7
<1>8. QED
  BY <1>1, <1>2, <1>3, <1>4, <1>5, <1>6, <1>7 DEF Next, Resets, Erases, ArmHealthy,
     Sample, PersistRestart, ArmMarker, bootVars, ghosts, vars

LEMMA EarnedNext ==
  TypeOK /\ BootOrder /\ CountInv /\ SafeModeEarned /\ [Next]_vars
    => SafeModeEarned'
<1> SUFFICES ASSUME TypeOK, BootOrder, CountInv, SafeModeEarned, [Next]_vars
             PROVE  SafeModeEarned'
  OBVIOUS
<1> USE DEF SafeModeEarned
<1>1. CASE Resets
  <2>1. PICK r \in Reasons : ResetTo(r)
    BY <1>1, ResetCases
  <2>2. QED
    BY <2>1 DEF ResetTo
<1>2. ASSUME NEW up \in BOOLEAN, NEW ok \in BOOLEAN, SafeModeBegin(up, ok)
      PROVE  SafeModeEarned'
  <2> DEFINE n == IF up THEN bootFails ELSE 0
             k == BootClassify(reason, marker)
  <2>1. bootFails \in Int /\ streak \in 0 .. FailMax
    BY DEF TypeOK, CountersOK
  <2>2. SUFFICES ASSUME k = "Crash", CrashCount("Crash", n) >= FailThreshold,
                        ~clearLost'
                 PROVE  streak' >= FailThreshold
    BY <1>2 DEF SafeModeBegin, CrashLoop
  <2>3. streak' = AtMost(streak + 1, FailMax) /\ ~clearLost
    BY <1>2, <2>2 DEF SafeModeBegin
  <2>4. CrashCount("Crash", n) <= AtMost(streak + 1, FailMax)
        /\ CrashCount("Crash", n) \in 0 .. FailMax
    BY <2>1, <2>3, CrashBootCounts DEF CountInv
  <2>5. QED
    BY <2>1, <2>2, <2>3, <2>4 DEF AtMost
<1>3. ASSUME NEW ok \in BOOLEAN, HeapGuardBegin(ok) PROVE SafeModeEarned'
  <2> DEFINE n == HeapHonoured(kind, NvsGet(heapRst))
  <2>1. n \in 0 .. MaxRestarts
    BY SaneCounts DEF HeapHonoured, NvsGet, TypeOK, CountersOK
  <2>2. restarts' = n
    BY <1>3 DEF HeapGuardBegin
  <2>3. safeMode' => safeMode \/ ~(n < MaxRestarts)
    BY <1>3, Zenon DEF HeapGuardBegin, HeapBootMustBeMinimal, HeapMayRestart
  <2>4. CASE safeMode
    <3>1. phase = "counted" /\ UNCHANGED <<streak, clearLost, latched>>
      BY <1>3 DEF HeapGuardBegin
    <3>2. restarts = 0
      BY <3>1 DEF BootOrder
    <3>3. QED
      BY <2>4, <3>1, <3>2
  <2>5. CASE ~safeMode
    BY <2>1, <2>2, <2>3, <2>5
  <2>6. QED
    BY <2>4, <2>5
<1>4. ASSUME NEW ok \in BOOLEAN, HealthyTimerFires(ok) PROVE SafeModeEarned'
  BY <1>4 DEF HealthyTimerFires, bootVars, BootOrder
<1>5. CASE Erases
  BY <1>5, EraseSteps
<1>6. CASE StartTasks
  BY <1>6 DEF StartTasks, ghosts
<1>7. CASE UNCHANGED <<safeMode, clearLost, latched, streak, restarts>>
  BY <1>7
<1>8. QED
  BY <1>1, <1>2, <1>3, <1>4, <1>5, <1>6, <1>7 DEF Next, Resets, Erases, ArmHealthy,
     Sample, PersistRestart, ArmMarker, bootVars, ghosts, vars

-----------------------------------------------------------------------------
(* The heap watchdog: its hold and its ladder *)

LEMMA HoldNext == TypeOK /\ HoldInv /\ [Next]_vars => HoldInv'
<1> SUFFICES ASSUME TypeOK, HoldInv, [Next]_vars PROVE HoldInv'
  OBVIOUS
<1> USE DEF HoldInv
<1>1. CASE Resets
  <2>1. PICK r \in Reasons : ResetTo(r)
    BY <1>1, ResetCases
  <2>2. QED
    BY <2>1 DEF ResetTo
<1>2. ASSUME NEW block \in Blocks, NEW otaBusy \in BOOLEAN, NEW d \in Gaps,
             Sample(block, otaBusy, d)
      PROVE  HoldInv'
  <2> DEFINE now == IF critical THEN Elapsed(age + d) ELSE 0
             verdict == HeapWatch(critical, now, block, otaBusy)
  <2>1. /\ age \in 0 .. Wrap - 1 /\ held \in 0 .. Hold /\ d \in Nat
        /\ Elapsed(age + d) \in Nat /\ Elapsed(age + d) <= age + d
    <3>1. age \in 0 .. Wrap - 1 /\ held \in 0 .. Hold /\ d \in Nat
      BY DEF TypeOK, CountersOK
    <3>2. Elapsed(age + d) \in 0 .. Wrap - 1 /\ Elapsed(age + d) <= age + d
      BY <3>1, WrappedClock, Zenon
    <3>3. QED
      BY <3>1, <3>2
  <2>2. CASE ~critical \/ otaBusy \/ block = "clear"
    <3>2. verdict # "restart"
      BY <2>2 DEF HeapWatch, Blocks
    <3>3. wd' = "idle"
      BY <1>2, <3>2 DEF Sample
    <3>4. critical' => AtMost(age', Hold) <= held'
      <4>1. CASE otaBusy \/ block = "clear"
        <5>1. verdict = "ended"
          BY <4>1 DEF HeapWatch
        <5>2. ~critical'
          BY <1>2, <5>1 DEF Sample
        <5>3. QED
          BY <5>2
      <4>2. CASE ~critical
        <5>1. age' = 0 /\ held' = 0
          BY <1>2, <4>2 DEF Sample
        <5>2. QED
          BY <5>1 DEF AtMost
      <4>3. QED
        BY <2>2, <4>1, <4>2
    <3>5. QED
      BY <3>3, <3>4
  <2>3. CASE critical /\ ~otaBusy /\ block # "clear"
    <3>1. held' = AtMost(held + d, Hold)
      BY <1>2, <2>3 DEF Sample
    <3>2. verdict = IF now >= Hold THEN "restart" ELSE "watching"
      BY <2>3 DEF HeapWatch
    <3>3. age' = now
      BY <1>2, <3>2 DEF Sample
    <3>4. now <= age + d /\ now \in Nat
      BY <2>1, <2>3
    <3>5. AtMost(now, Hold) <= AtMost(held + d, Hold)
      BY <2>1, <2>3, <3>4 DEF AtMost
    <3>6. wd' # "idle" => now >= Hold
      BY <1>2, <3>2 DEF Sample
    <3>7. QED
      BY <2>1, <3>1, <3>3, <3>4, <3>5, <3>6 DEF AtMost
  <2>4. QED
    BY <2>2, <2>3
<1>3. CASE UNCHANGED watch /\ (wd' # "idle" => wd # "idle")
  BY <1>3 DEF watch, AtMost
<1>4. QED
  BY <1>1, <1>2, <1>3 DEF Next, Resets, Erases, SafeModeBegin, HeapGuardBegin,
     StartTasks, ArmHealthy, HealthyTimerFires, PersistRestart, ArmMarker,
     FactoryLatch, EraseBootFails, EraseHeapRst, FactoryErased, vars, watch

LEMMA LadderNext ==
  TypeOK /\ BootOrder /\ LadderInv /\ [Next]_vars => LadderInv'
<1> SUFFICES ASSUME TypeOK, BootOrder, LadderInv, [Next]_vars PROVE LadderInv'
  OBVIOUS
<1> USE DEF LadderInv
<1>0. /\ heapRst \in Int /\ restarts \in 0 .. MaxRestarts /\ wdRuns \in Nat
      /\ RestartCountSane(heapRst) \in 0 .. MaxRestarts
      /\ RestartCountSane(0) = 0
  BY SaneCounts DEF TypeOK, CountersOK, RestartCountSane
<1>1. CASE Resets
  <2>1. PICK r \in Reasons : ResetTo(r)
    BY <1>1, ResetCases
  <2>2. QED
    BY <2>1 DEF ResetTo, stored, ghosts, RestartCountSane
<1>2. ASSUME NEW up \in BOOLEAN, NEW ok \in BOOLEAN, SafeModeBegin(up, ok)
      PROVE  LadderInv'
  <2>1. /\ heapRst' = heapRst /\ phase' = "counted" /\ wd' = "idle"
        /\ (wdRuns' = 0 \/ (wdRuns' = wdRuns /\ (stepLost => stepLost')))
    BY <1>2 DEF SafeModeBegin, BootOrder
  <2>2. RestartCountSane(heapRst)' = RestartCountSane(heapRst)
    BY <2>1 DEF RestartCountSane
  <2>3. QED
    BY <1>0, <2>1, <2>2
<1>3. ASSUME NEW ok \in BOOLEAN, HeapGuardBegin(ok) PROVE LadderInv'
  <2>1. /\ restarts' = HeapHonoured(kind, NvsGet(heapRst))
        /\ wd' = "idle" /\ wdRuns' = wdRuns /\ stepLost' = stepLost
        /\ nvsUp' = nvsUp
    BY <1>3 DEF HeapGuardBegin, BootOrder
  <2>2. CASE kind = "Clean"
    <3>1. wdRuns = 0 /\ restarts' = 0 /\ heapRst' \in {0, heapRst}
      BY <1>3, <2>1, <2>2 DEF HeapGuardBegin, BootOrder, HeapHonoured
    <3>2. RestartCountSane(heapRst)' \in 0 .. MaxRestarts
      BY <1>0, <3>1 DEF RestartCountSane
    <3>3. QED
      BY <2>1, <3>1, <3>2
  <2>3. CASE kind # "Clean"
    <3>1. heapRst' = heapRst
      BY <1>3, <2>3 DEF HeapGuardBegin, HeapCleared
    <3>2. RestartCountSane(heapRst)' = RestartCountSane(heapRst)
      BY <3>1 DEF RestartCountSane
    <3>3. nvsUp => restarts' = RestartCountSane(heapRst)
      BY <2>1, <2>3 DEF HeapHonoured, NvsGet
    <3>4. QED
      BY <1>0, <2>1, <3>2, <3>3
  <2>4. QED
    BY <2>2, <2>3
<1>4. CASE StartTasks
  BY <1>4 DEF StartTasks, stored, ghosts, RestartCountSane
<1>5. ASSUME NEW block \in Blocks, NEW otaBusy \in BOOLEAN, NEW d \in Gaps,
             Sample(block, otaBusy, d)
      PROVE  LadderInv'
  <2>1. wd' = "decided" => restarts < MaxRestarts
    BY <1>5 DEF Sample, HeapMayRestart
  <2>2. wd = "idle" /\ wd' \in {"idle", "decided"}
        /\ UNCHANGED <<heapRst, restarts, wdRuns, stepLost, nvsUp, phase,
                       latched>>
    BY <1>5 DEF Sample, stored, bootVars, ghosts
  <2>3. QED
    BY <2>1, <2>2 DEF RestartCountSane
<1>6. ASSUME NEW ok \in BOOLEAN, PersistRestart(ok) PROVE LadderInv'
  <2>1. /\ wd = "decided" /\ wd' = "draining" /\ restarts < MaxRestarts
        /\ UNCHANGED <<restarts, wdRuns, nvsUp, phase, latched>>
    BY <1>6 DEF PersistRestart, bootVars
  <2>2. CASE ok
    <3>1. heapRst' = restarts + 1 /\ nvsUp /\ (stepLost => stepLost')
      BY <1>6, <2>2 DEF PersistRestart, NvsSet
    <3>2. RestartCountSane(heapRst)' = restarts + 1
      BY <1>0, <2>1, <3>1 DEF RestartCountSane
    <3>3. phase \in {"laddered", "running"}
      BY <2>1 DEF BootOrder, TypeOK, FlagsOK, Phases
    <3>4. QED
      BY <1>0, <2>1, <3>1, <3>2, <3>3
  <2>3. CASE ~ok
    <3>1. stepLost'
      BY <1>6, <2>3 DEF PersistRestart
    <3>2. QED
      BY <2>1, <3>1
  <2>4. QED
    BY <2>2, <2>3
<1>7. CASE ArmMarker
  <2>1. wd = "draining" /\ restarts < MaxRestarts
        /\ UNCHANGED <<heapRst, restarts, stepLost, nvsUp, phase, latched>>
    BY <1>7 DEF ArmMarker, stored, bootVars
  <2>2. RestartCountSane(heapRst)' = RestartCountSane(heapRst)
    BY <2>1 DEF RestartCountSane
  <2>3. CASE latched
    BY <1>7, <2>1, <2>2, <2>3 DEF ArmMarker
  <2>4. CASE ~latched
    <3>1. wd' = "armed" /\ wdRuns' = AtMost(wdRuns + 1, MaxRestarts + 1)
      BY <1>7, <2>4 DEF ArmMarker
    <3>2. phase \in {"laddered", "running"}
      BY <2>1 DEF BootOrder, TypeOK, FlagsOK, Phases
    <3>3. ~stepLost => wdRuns + 1 <= heapRst /\ heapRst \in 0 .. MaxRestarts
      BY <1>0, <2>1, <2>4, <3>2
    <3>4. ~stepLost => wdRuns' <= RestartCountSane(heapRst)
      BY <1>0, <3>1, <3>3 DEF AtMost, RestartCountSane
    <3>5. QED
      BY <2>1, <2>2, <3>1, <3>4
  <2>5. QED
    BY <2>3, <2>4
<1>8. CASE Erases
  <2>1. UNCHANGED <<restarts, wdRuns, nvsUp, wd, phase>>
        /\ (stepLost => stepLost')
        /\ (heapRst' = heapRst \/ stepLost')
    BY <1>8, EraseSteps
  <2>2. heapRst' = heapRst
          => RestartCountSane(heapRst)' = RestartCountSane(heapRst)
    BY DEF RestartCountSane
  <2>3. QED
    BY <2>1, <2>2
<1>9. CASE UNCHANGED <<heapRst, restarts, wdRuns, stepLost, nvsUp, wd, phase,
                       latched>>
  BY <1>9 DEF RestartCountSane
<1>10. QED
  BY <1>1, <1>2, <1>3, <1>4, <1>5, <1>6, <1>7, <1>8, <1>9 DEF Next, Resets, Erases,
     ArmHealthy, HealthyTimerFires, stored, bootVars, ghosts, vars

-----------------------------------------------------------------------------
(* Safe mode stays due until a clean boot *)

(* A count flash holds after a crash boot still latches at the next one.    *)
LEMMA LoopStands ==
  ASSUME NEW f \in Int, FailCountSane(f) + 1 >= FailThreshold
  PROVE  /\ CrashCount("Crash", f) >= FailThreshold
         /\ FailCountSane(CrashCount("Crash", f)) + 1 >= FailThreshold
  BY DEF CrashCount, AtMost, FailCountSane

LEMMA DueNext ==
  TypeOK /\ BootOrder /\ MarkerInv /\ CleanBootNeverMinimal /\ DueInv
    /\ [Next]_vars => DueInv'
<1> SUFFICES ASSUME TypeOK, BootOrder, MarkerInv, CleanBootNeverMinimal,
                    DueInv, [Next]_vars, due', ~blind'
             PROVE  /\ \/ FailCountSane(bootFails)' + 1 >= FailThreshold
                       \/ RestartCountSane(heapRst)' = MaxRestarts
                    /\ phase' = "reset" => ~prevArmed'
                    /\ phase' # "reset" => nvsUp' /\ kind' # "Clean"
                    /\ phase' = "counted" =>
                         safeMode' \/ RestartCountSane(heapRst)' = MaxRestarts
                    /\ phase' \in {"laddered", "running"} => safeMode'
  BY DEF DueInv
<1> USE DEF DueInv
<1>0. bootFails \in Int /\ heapRst \in Int /\ phase \in Phases
  BY DEF TypeOK, CountersOK, FlagsOK
<1>1. CASE Resets
  <2>1. PICK r \in Reasons : ResetTo(r)
    BY <1>1, ResetCases
  <2>2. /\ due /\ ~blind /\ bootFails' = bootFails /\ heapRst' = heapRst
        /\ phase' = "reset" /\ (prevArmed' => wd = "armed")
    BY <2>1 DEF ResetTo, stored, ghosts
  <2>3. wd # "armed"
    BY <1>0, <2>2 DEF BootOrder, Phases
  <2>4. QED
    BY <2>2, <2>3 DEF FailCountSane, RestartCountSane
<1>2. ASSUME NEW up \in BOOLEAN, NEW ok \in BOOLEAN, SafeModeBegin(up, ok)
      PROVE  /\ \/ FailCountSane(bootFails)' + 1 >= FailThreshold
                \/ RestartCountSane(heapRst)' = MaxRestarts
             /\ phase' = "counted" /\ nvsUp' /\ kind' # "Clean"
             /\ safeMode' \/ RestartCountSane(heapRst)' = MaxRestarts
  <2> DEFINE n == IF up THEN bootFails ELSE 0
             k == BootClassify(reason, marker)
  <2>1. /\ phase = "reset" /\ phase' = "counted" /\ nvsUp' = up /\ kind' = k
        /\ heapRst' = heapRst /\ (safeMode' <=> CrashLoop(k, n))
        /\ bootFails' = IF CrashCountWritten(k, n) /\ ok
                        THEN CrashCount(k, n) ELSE bootFails
    BY <1>2 DEF SafeModeBegin, CrashLoop
  <2>2. k # "Clean" /\ up /\ (due \/ CrashLoop(k, n)) /\ (due => ~blind)
    BY <1>2 DEF SafeModeBegin, CrashLoop
  <2>3. k # "HeapWatchdogRestart"
    <3>1. CASE due
      BY <2>1, <2>2, <3>1 DEF MarkerInv, BootClassify, ResetWasCrash
    <3>2. CASE ~due
      BY <2>2, <3>2 DEF CrashLoop
    <3>3. QED
      BY <3>1, <3>2
  <2>4. k = "Crash" /\ n = bootFails
    BY <2>2, <2>3 DEF BootClassify
  <2>5. RestartCountSane(heapRst)' = RestartCountSane(heapRst)
    BY <2>1 DEF RestartCountSane
  <2>6. CASE FailCountSane(bootFails) + 1 >= FailThreshold
    <3>1. /\ CrashCount("Crash", bootFails) >= FailThreshold
          /\ FailCountSane(CrashCount("Crash", bootFails)) + 1 >= FailThreshold
      BY <1>0, <2>6, LoopStands
    <3>2. safeMode'
      BY <2>1, <2>4, <3>1 DEF CrashLoop
    <3>3. bootFails' \in {bootFails, CrashCount("Crash", bootFails)}
      BY <2>1, <2>4
    <3>4. FailCountSane(bootFails)' + 1 >= FailThreshold
      BY <2>6, <3>1, <3>3 DEF FailCountSane
    <3>5. QED
      BY <2>1, <2>2, <3>2, <3>4
  <2>7. CASE ~(FailCountSane(bootFails) + 1 >= FailThreshold)
    <3>1. ~CrashLoop(k, n)
      <4>1. CrashCount("Crash", bootFails) < FailThreshold
        BY <1>0, <2>7 DEF CrashCount, AtMost, FailCountSane
      <4>2. QED
        BY <1>0, <2>4, <4>1, CountInRange DEF CrashLoop, Kinds
    <3>2. RestartCountSane(heapRst) = MaxRestarts
      BY <2>2, <2>7, <3>1
    <3>3. QED
      BY <2>1, <2>2, <2>5, <3>2
  <2>8. QED
    BY <2>6, <2>7
<1>3. ASSUME NEW ok \in BOOLEAN, HeapGuardBegin(ok)
      PROVE  /\ \/ FailCountSane(bootFails)' + 1 >= FailThreshold
                \/ RestartCountSane(heapRst)' = MaxRestarts
             /\ phase' = "laddered" /\ nvsUp' /\ kind' # "Clean"
             /\ safeMode'
  <2> DEFINE n == HeapHonoured(kind, NvsGet(heapRst))
             minimal == n # 0 /\ HeapBootMustBeMinimal(n)
  <2>1. /\ phase = "counted" /\ phase' = "laddered" /\ bootFails' = bootFails
        /\ nvsUp' = nvsUp /\ kind' = kind /\ ~blind
        /\ (kind # "Clean" => heapRst' = heapRst)
    BY <1>3 DEF HeapGuardBegin, HeapCleared
  <2>2. (safeMode' <=> safeMode \/ minimal) /\ (due' <=> due \/ minimal)
    BY <1>3, Zenon DEF HeapGuardBegin
  <2>3. minimal => kind # "Clean" /\ nvsUp /\ RestartCountSane(heapRst) = n
    BY DEF HeapHonoured, NvsGet, RestartCountSane
  <2>4. n \in 0 .. MaxRestarts
    BY <1>0, SaneCounts DEF HeapHonoured, NvsGet
  <2>5. minimal => n = MaxRestarts
    BY <2>4 DEF HeapBootMustBeMinimal, HeapMayRestart
  <2>6. kind # "Clean" /\ nvsUp
    BY <2>1, <2>2, <2>3
  <2>7. /\ RestartCountSane(heapRst)' = RestartCountSane(heapRst)
        /\ FailCountSane(bootFails)' = FailCountSane(bootFails)
    BY <2>1, <2>6 DEF RestartCountSane, FailCountSane
  <2>8. RestartCountSane(heapRst) = MaxRestarts => minimal
    BY <2>6 DEF HeapHonoured, NvsGet, HeapBootMustBeMinimal, HeapMayRestart
  <2>9. \/ FailCountSane(bootFails) + 1 >= FailThreshold
        \/ RestartCountSane(heapRst) = MaxRestarts
    BY <2>1, <2>2, <2>3, <2>5
  <2>10. safeMode'
    BY <2>1, <2>2, <2>8
  <2>11. QED
    BY <2>1, <2>6, <2>7, <2>9, <2>10
<1>4. CASE StartTasks
  BY <1>4 DEF StartTasks, stored, ghosts, FailCountSane, RestartCountSane
<1>5. ASSUME NEW ok \in BOOLEAN, HealthyTimerFires(ok) PROVE FALSE
  <2>1. timer = "armed" /\ due /\ ~blind
    BY <1>5 DEF HealthyTimerFires
  <2>2. phase = "running" /\ ~safeMode
    BY <2>1 DEF BootOrder
  <2>3. QED
    BY <2>1, <2>2
<1>6. ASSUME NEW ok \in BOOLEAN, PersistRestart(ok) PROVE FALSE
  <2>1. wd = "decided" /\ due /\ ~blind
    BY <1>6 DEF PersistRestart
  <2>2. phase \in {"laddered", "running"} /\ ~safeMode
    BY <1>0, <2>1 DEF BootOrder, Phases
  <2>3. QED
    BY <2>1, <2>2
<1>7. CASE Erases
  <2>1. /\ UNCHANGED <<phase, prevArmed, nvsUp, kind, safeMode, blind>>
        /\ due /\ bootFails' = bootFails /\ heapRst' = heapRst
    BY <1>7, EraseSteps
  <2>2. QED
    BY <2>1 DEF FailCountSane, RestartCountSane
<1>8. CASE UNCHANGED <<bootFails, heapRst, due, blind, phase, prevArmed, nvsUp,
                       kind, safeMode>>
  BY <1>8 DEF FailCountSane, RestartCountSane
<1>9. QED
  BY <1>1, <1>2, <1>3, <1>4, <1>5, <1>6, <1>7, <1>8 DEF Next, Resets, Erases,
     ArmHealthy, Sample, ArmMarker, stored, bootVars, ghosts, vars

-----------------------------------------------------------------------------
(* The theorems *)

LEMMA InvInit == Init => IInv
<1> SUFFICES ASSUME Init PROVE IInv
  OBVIOUS
<1>1. TypeOK
  BY CountersInit, FlagsInit DEF TypeOK
<1>2. BootOrder /\ MarkerInv /\ DueInv /\ CrashLoopLatches
      /\ SafeModeEarned /\ CleanBootNeverMinimal
  BY DEF Init, BootOrder, MarkerInv, DueInv, CrashLoopLatches,
         SafeModeEarned, CleanBootNeverMinimal
<1>3. CountInv /\ LadderInv
  <2>1. FailCountSane(bootFails) \in Int /\ RestartCountSane(heapRst) \in Int
    BY <1>1, SaneCounts DEF TypeOK, CountersOK
  <2>2. streak = FailCountSane(bootFails) /\ wdRuns = RestartCountSane(heapRst)
        /\ wd = "idle" /\ phase = "reset"
    BY DEF Init
  <2>3. QED
    BY <2>1, <2>2 DEF CountInv, LadderInv
<1>4. HoldInv
  BY DEF Init, HoldInv
<1>5. QED
  BY <1>1, <1>2, <1>3, <1>4 DEF IInv

LEMMA InvNext == IInv /\ [Next]_vars => IInv'
  BY TypeNext, BootOrderNext, MarkerNext, CleanNext, CountNext, LatchNext,
     EarnedNext, HoldNext, LadderNext, DueNext DEF IInv

(* The strengthening every safety theorem below rests on.                   *)
THEOREM Inductive == Spec => []IInv
  BY InvInit, InvNext, PTL DEF Spec

(* A crash loop latches safe mode unless flash lost one of its counts.      *)
THEOREM CrashLoopAlwaysLatches == Spec => []CrashLoopLatches
<1>1. IInv => CrashLoopLatches
  BY DEF IInv
<1>2. QED
  BY <1>1, Inductive, PTL

(* Safe mode is never latched without the crashes or restarts it stands for.*)
THEOREM SafeModeAlwaysEarned == Spec => []SafeModeEarned
<1>1. IInv => SafeModeEarned
  BY DEF IInv
<1>2. QED
  BY <1>1, Inductive, PTL

(* Only a clean boot or a factory reset leads out of safe mode.             *)
THEOREM SafeModeAlwaysSticky == Spec => []SafeModeSticky
<1>1. IInv => SafeModeSticky
  BY DEF IInv, DueInv, SafeModeSticky
<1>2. QED
  BY <1>1, Inductive, PTL

(* A clean boot is never minimal: the way back is always open.              *)
THEOREM CleanBootAlwaysFull == Spec => []CleanBootNeverMinimal
<1>1. IInv => CleanBootNeverMinimal
  BY DEF IInv
<1>2. QED
  BY <1>1, Inductive, PTL

(* The marker explains exactly the reset that followed its arming.          *)
THEOREM MarkerAlwaysExact == Spec => []MarkerExplainsOneReset
<1>1. IInv => MarkerExplainsOneReset
  BY DEF IInv, MarkerInv, MarkerExplainsOneReset
<1>2. QED
  BY <1>1, Inductive, PTL

(* Between two clean boots the watchdog restarts at most MaxRestarts times. *)
THEOREM WatchdogAlwaysBounded == Spec => []WatchdogRestartsBounded
<1>1. IInv => WatchdogRestartsBounded
  <2>1. SUFFICES ASSUME IInv, ~stepLost PROVE wdRuns <= MaxRestarts
    BY DEF WatchdogRestartsBounded
  <2>2. RestartCountSane(heapRst) \in 0 .. MaxRestarts /\ wdRuns \in Nat
    BY <2>1, SaneCounts DEF IInv, TypeOK, CountersOK
  <2>3. wdRuns <= RestartCountSane(heapRst)
    BY <2>1 DEF IInv, LadderInv
  <2>4. QED
    BY <2>2, <2>3
<1>2. QED
  BY <1>1, Inductive, PTL

(* A shortage the restarts did not cure ends in a minimal boot.             *)
THEOREM ShortageAlwaysEndsMinimal == Spec => []ShortageEndsMinimal
<1>1. IInv => ShortageEndsMinimal
  <2>1. SUFFICES ASSUME IInv, phase \in {"laddered", "running"}, nvsUp,
                        ~stepLost, wdRuns >= MaxRestarts, wd # "armed"
                 PROVE  safeMode
    BY DEF ShortageEndsMinimal
  <2>2. restarts \in 0 .. MaxRestarts /\ wdRuns \in Nat
    BY <2>1 DEF IInv, TypeOK, CountersOK
  <2>3. wdRuns <= restarts
    BY <2>1 DEF IInv, LadderInv
  <2>4. restarts = MaxRestarts
    BY <2>1, <2>2, <2>3
  <2>5. QED
    BY <2>1, <2>4 DEF IInv, BootOrder
<1>2. QED
  BY <1>1, Inductive, PTL

(* A restart is decided only after a whole hold of unbroken shortage.       *)
THEOREM RestartAlwaysNeedsHold == Spec => []RestartNeedsHold
<1>1. IInv => RestartNeedsHold
  BY DEF IInv, HoldInv, RestartNeedsHold
<1>2. QED
  BY <1>1, Inductive, PTL

(* Which boots are minimal, and what the watchdog may do, as the runs state *)
(* it: the theorems above, together.                                        *)
THEOREM SafeModeAlwaysExact == Spec => []SafeModeExact
  BY CrashLoopAlwaysLatches, SafeModeAlwaysEarned, SafeModeAlwaysSticky,
     CleanBootAlwaysFull, PTL DEF SafeModeExact

THEOREM WatchdogAlwaysExact == Spec => []WatchdogExact
  BY MarkerAlwaysExact, RestartAlwaysNeedsHold, WatchdogAlwaysBounded,
     ShortageAlwaysEndsMinimal, PTL DEF WatchdogExact
=============================================================================
