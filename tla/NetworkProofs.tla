--------------------------- MODULE NetworkProofs ---------------------------
(* Proofs about FactoryReset, Network and Retained, what asks the others    *)
(* before it acts.  Whoever holds a TLS session holds the heap alone, no    *)
(* flag is left to an owner that is gone, and no forecast is shown, nor a   *)
(* refresh answered, for a source or a request it was not fetched for; a    *)
(* reset restarts only when every store is erased, with no other task       *)
(* before it; and no topic the publisher left at the broker is ever         *)
(* forgotten, over lost connections, lost evidence and reboots, as long as  *)
(* a save of the record that fails has written nothing.                     *)
EXTENDS FactoryReset, Network, Retained, FiniteSetTheorems, TLAPS

-----------------------------------------------------------------------------
(* The inductive invariant *)

WeatherAt ==
  Fetching \cup {"off", "begin", "config", "claim", "admit", "judge", "settle", "finish"}

OwnersShape ==
  /\ ota \in [pc : {"idle", "ask", "lead", "peer", "transport", "weather", "transfer",
                    "resume", "lower"}, runs : Nat]
  /\ admission \in {"Idle", "Network", "SourceChange", "SourceChangePending"}
  /\ values \in [tls : BOOLEAN, readers : Nat]
  /\ http \in {"idle", "entered", "counted", "stream", "pending"} \cup Changing
WeatherShape ==
  weather \in [pc : WeatherAt, gen : Nat, cfg : Nat, token : Nat, asked : Nat,
               why : SUBSET {"source", "busy", "ota"}, ok : BOOLEAN]
ForecastShape ==
  /\ forecast \in [id : Nat \ {0}, on : BOOLEAN]
  /\ status \in [gen : Nat, shown : Nat, asof : Nat, fetching : BOOLEAN]
  /\ refresh \in [requested : Nat, started : Nat, completed : Nat, success : Nat]
PeerShape ==
  peer \in [kind : Peers, pc : {"off", "top", "clear", "claimed", "work"}, ack : BOOLEAN,
            aside : BOOLEAN, held : 0..HoldCap, link : {"running", "connecting", "stopped"}]

(* A task past its look holds no more cycles than it was let through with,  *)
(* and tells that it is quiet only while it holds nothing.                  *)
PeerInv ==
  /\ peer.pc \in {"clear", "claimed", "work"} => peer.held \in {0, HoldCap}
  /\ peer.kind = "syslog" => peer.held = 0
  /\ peer.ack => peer.pc \in {"off", "top", "clear"}
  /\ peer.kind = "none" <=> peer.pc = "off"

Through == peer.held = HoldCap
Claims  == peer.pc = "clear" => Through
Stands  == peer.pc \in {"off", "top"} \/ Through

(* How far each owner has come in making sure of the others.                *)
OtaInv ==
  /\ ota.pc \in {"peer", "transport", "weather", "transfer"} => Claims
  /\ ota.pc \in {"transport", "weather", "transfer"} => Stands
  /\ ota.pc \in {"weather", "transfer"} => TransportQuiet \/ Through
  /\ ota.pc = "transfer" => weather.pc \notin {"readers", "fetch"}
  /\ ota.pc = "transfer" /\ weather.pc = "identity" => weather.why # {}
Phase == {"identity", "readers", "fetch"}
WeatherInv ==
  /\ weather.pc \in {"readers", "fetch"} => weather.why = {}
  /\ weather.pc \in {"peer", "transport", "again"} \cup Phase => Claims
  /\ weather.pc \in {"transport", "again"} \cup Phase /\ "busy" \notin weather.why => Stands
  /\ weather.pc \in {"again"} \cup Phase /\ "busy" \notin weather.why =>
       TransportQuiet \/ Through
  /\ weather.pc = "fetch" => http \notin {"counted", "stream"}

(* The mark of a fetch under way goes with the source it was set for.       *)
MarkInv == status.fetching => Same

HeapInv ==
  /\ MarkInv /\ OwnersShape /\ WeatherShape /\ ForecastShape /\ PeerShape
  /\ NetTypeOK /\ PeerInv /\ OtaInv /\ WeatherInv

(* What a cycle has taken down, as long as its generation is the current    *)
(* one and no save is about to be committed.                                *)
CycleInv ==
  /\ weather.gen <= status.gen
  /\ weather.token # 0 => weather.token = weather.asked
  /\ weather.asked <= refresh.requested
  /\ weather.pc \notin {"off", "begin", "config"} => weather.cfg # 0
  /\ weather.pc = "settle" /\ Same /\ http # "saved" =>
       forecast.on /\ forecast.id = weather.cfg
  /\ weather.pc = "finish" /\ weather.ok /\ weather.token # 0
       /\ refresh.requested = weather.token /\ refresh.completed # weather.token =>
         status.shown # 0 /\ status.asof >= weather.token

NetIInv == HeapInv /\ CycleInv /\ ForecastCurrent

-----------------------------------------------------------------------------
(* The owners and the tasks that stand aside *)

LEMMA NoAttemptShape ==
  NoAttempt \in [pc : WeatherAt, gen : Nat, cfg : Nat, token : Nat, asked : Nat,
                 why : SUBSET {"source", "busy", "ota"}, ok : BOOLEAN]
BY DEF NoAttempt, WeatherAt

LEMMA InitNetIInv == NetInit => NetIInv
<1> SUFFICES ASSUME NetInit PROVE NetIInv OBVIOUS
<1> USE NetworkAssumption DEF NetInit, NetStarts, NoAttempt, Peers
<1>1. OwnersShape /\ ForecastShape BY DEF OwnersShape, ForecastShape
<1>6. WeatherShape
  <2>1. weather.pc = "begin" /\ weather = [NoAttempt EXCEPT !.pc = "begin"] OBVIOUS
  <2> QED BY <2>1, NoAttemptShape DEF WeatherShape, WeatherAt
<1>2. PeerShape /\ PeerInv BY DEF PeerShape, PeerInv
<1>3. NetTypeOK BY DEF NetTypeOK, WeatherActive, Fetching, Changing
<1>4. OtaInv /\ WeatherInv BY DEF OtaInv, WeatherInv, Phase
<1>5. CycleInv /\ ForecastCurrent BY DEF CycleInv, ForecastCurrent, Same
<1>7. MarkInv BY DEF MarkInv
<1> QED BY <1>1, <1>2, <1>3, <1>4, <1>5, <1>6, <1>7 DEF NetIInv, HeapInv

LEMMA OtaHeap == HeapInv /\ (OtaRaises \/ OtaStep) => HeapInv'
<1> SUFFICES ASSUME HeapInv, OtaRaises \/ OtaStep PROVE HeapInv' OBVIOUS
<1> USE NetworkAssumption DEF HeapInv, OtaOnly, OtaTo
<1>0. UNCHANGED <<weather, admission, values, http, forecast, status, refresh, peer>>
  BY DEF OtaRaises, OtaStep, OtaAsksPause, OtaLeads, OtaWaits, OtaWait, OtaEnds,
     OtaResumes, OtaLowers
<1>1. OwnersShape'
  BY <1>0 DEF OwnersShape, OtaRaises, OtaStep, OtaAsksPause, OtaLeads, OtaWaits, OtaWait,
     OtaEnds,
              OtaResumes, OtaLowers
<1>2. WeatherShape' /\ ForecastShape' /\ PeerShape' /\ NetTypeOK' /\ PeerInv' /\ WeatherInv'
  BY <1>0 DEF WeatherShape, ForecastShape, PeerShape, NetTypeOK, PeerInv, WeatherInv,
     Claims,
              Stands, Through, TransportQuiet, WeatherActive
<1>3. OtaInv'
  <2> USE <1>0 DEF OtaInv, Claims, Stands, Through, TransportQuiet, OwnersShape
  <2>1. CASE OtaRaises BY <2>1 DEF OtaRaises
  <2>2. CASE OtaAsksPause BY <2>2 DEF OtaAsksPause
  <2>3. CASE OtaLeads BY <2>3 DEF OtaLeads, LeadOver, PeerInv
  <2>4. CASE OtaWaits
    <3>1. CASE ota.pc = "peer"
      <4>1. ota'.pc = IF Quiet("ota") THEN "transport" ELSE "resume"
        BY <2>4, <3>1 DEF OtaWaits, OtaWait, OwnersShape
      <4> QED BY <3>1, <4>1 DEF Quiet, PeerInv
    <3>2. CASE ota.pc = "transport"
      <4>1. ota'.pc = IF TransportQuiet THEN "weather" ELSE "resume"
        BY <2>4, <3>2 DEF OtaWaits, OtaWait, OwnersShape
      <4> QED BY <3>2, <4>1
    <3>3. CASE ota.pc = "weather"
      <4>1. ota'.pc = IF ~WeatherActive THEN "transfer" ELSE "resume"
        BY <2>4, <3>3 DEF OtaWaits, OtaWait, OwnersShape
      <4> QED BY <3>3, <4>1 DEF NetTypeOK, Fetching
    <3> QED BY <2>4, <3>1, <3>2, <3>3 DEF OtaWaits, OtaWait
  <2>5. CASE OtaEnds BY <2>5 DEF OtaEnds
  <2>6. CASE OtaResumes BY <2>6 DEF OtaResumes
  <2>7. CASE OtaLowers BY <2>7 DEF OtaLowers
  <2> QED BY <2>1, <2>2, <2>3, <2>4, <2>5, <2>6, <2>7 DEF OtaStep
<1>4. MarkInv' BY <1>0 DEF MarkInv, Same
<1> QED BY <1>1, <1>2, <1>3, <1>4

(* A task that stands aside, step by step.                                  *)
LEMMA PeerHeap == HeapInv /\ (PeerStep \/ TransportEvent) => HeapInv'
<1> SUFFICES ASSUME HeapInv, PeerStep \/ TransportEvent PROVE HeapInv' OBVIOUS
<1> USE NetworkAssumption DEF HeapInv
<1>0. UNCHANGED <<ota, weather, admission, pause, values, http, forecast, status, refresh>>
  BY DEF PeerStep, TransportEvent, PeerHolds, PeerPasses, PeerClaims, PeerLooksAgain,
     PeerEnds,
         TransportResumes, PeerOnly
<1>1. OwnersShape' /\ WeatherShape' /\ ForecastShape'
  BY <1>0 DEF OwnersShape, WeatherShape, ForecastShape
<1>2. PeerShape' /\ PeerInv'
  <2> USE DEF PeerShape, PeerInv, Budgeted, Rechecks
  <2>1. CASE PeerHolds
    <3>1. PICK to \in {"running", "connecting", "stopped"} :
            peer' = [peer EXCEPT !.held = @ + 1, !.ack = TRUE, !.aside = TRUE,
               !.link = to]
      BY <2>1 DEF PeerHolds
    <3>2. peer.held + 1 \in 0..HoldCap BY <2>1 DEF PeerHolds
    <3>3. PeerShape' BY <3>1, <3>2
    <3>4. PeerInv' BY <2>1, <3>1 DEF PeerHolds
    <3> QED BY <3>3, <3>4
  <2>2. CASE PeerPasses
    <3> DEFINE held == IF Heeded THEN peer.held ELSE 0
               pc   == IF peer.kind = "modbus" /\ WeatherActive THEN "top" ELSE "clear"
    <3>1. /\ peer' = [peer EXCEPT !.held = held, !.aside = FALSE, !.pc = pc]
          /\ held \in {0, peer.held} /\ pc \in {"top", "clear"}
      BY <2>2, Zenon DEF PeerPasses
    <3>5. held \in 0..HoldCap OBVIOUS
    <3> HIDE DEF held, pc
    <3>2. PeerShape' BY <3>1, <3>5
    <3>3. peer'.pc = "clear" => peer'.held \in {0, HoldCap}
      BY <2>2 DEF PeerPasses, Heeded, Busy
    <3>4. PeerInv' BY <2>2, <3>1, <3>3 DEF PeerPasses
    <3> QED BY <3>2, <3>4
  <2>3. CASE PeerClaims BY <2>3 DEF PeerClaims
  <2>4. CASE PeerLooksAgain BY <2>4 DEF PeerLooksAgain
  <2>5. CASE PeerEnds BY <2>5 DEF PeerEnds
  <2>6. CASE TransportResumes BY <2>6 DEF TransportResumes
  <2>7. CASE TransportEvent BY <2>7 DEF TransportEvent
  <2> QED BY <2>1, <2>2, <2>3, <2>4, <2>5, <2>6, <2>7 DEF PeerStep
<1>3. NetTypeOK' BY <1>0, <1>2 DEF NetTypeOK, WeatherActive, PeerShape
<1>4. OtaActive \/ WeatherActive =>
        /\ Claims => Claims'
        /\ Claims /\ Stands => Stands'
        /\ Claims /\ Stands /\ (TransportQuiet \/ Through) => (TransportQuiet \/ Through)'
  <2> SUFFICES ASSUME Busy, Claims
               PROVE  /\ Claims' /\ (Stands => Stands')
                      /\ Stands /\ (TransportQuiet \/ Through) => (TransportQuiet \/ Through)'
    BY Zenon DEF Busy
  <2> USE DEF Claims, Stands, Through, TransportQuiet, PeerShape, PeerInv
  <2>1. CASE PeerHolds BY <2>1 DEF PeerHolds
  <2>2. CASE PeerPasses BY <2>2 DEF PeerPasses, Budgeted, Heeded, Busy
  <2>3. CASE PeerClaims BY <2>3 DEF PeerClaims
  <2>4. CASE PeerLooksAgain BY <2>4 DEF PeerLooksAgain
  <2>5. CASE PeerEnds BY <2>5 DEF PeerEnds
  <2>6. CASE TransportResumes BY <2>6 DEF TransportResumes
  <2>7. CASE TransportEvent BY <2>7 DEF TransportEvent
  <2> QED BY <2>1, <2>2, <2>3, <2>4, <2>5, <2>6, <2>7 DEF PeerStep
<1>5. OtaInv' /\ WeatherInv'
  <2>1. OtaInv' BY <1>0, <1>4 DEF OtaInv, OtaActive
  <2>2. WeatherInv' BY <1>0, <1>4 DEF WeatherInv, NetTypeOK, Fetching, Phase
  <2> QED BY <2>1, <2>2
<1>6. MarkInv' BY <1>0 DEF MarkInv, Same
<1> QED BY <1>1, <1>2, <1>3, <1>5, <1>6

(* The forecast worker's cycle, step by step.                               *)
WeatherCycle == WeatherStep \/ WeatherOffline \/ WeatherClaims

LEMMA HiddenFacts ==
  ASSUME ForecastShape
  PROVE  /\ Hidden \in [gen : Nat, shown : Nat, asof : Nat, fetching : BOOLEAN]
         /\ Hidden.gen = status.gen /\ Hidden.shown = 0 /\ Hidden.fetching = FALSE
BY DEF ForecastShape, Hidden

LEMMA WeatherHeap == HeapInv /\ WeatherCycle => HeapInv'
<1> SUFFICES ASSUME HeapInv, WeatherCycle PROVE HeapInv' OBVIOUS
<1> USE NetworkAssumption DEF HeapInv, WeatherOnly, To
<1>0. UNCHANGED <<ota, http, forecast, peer>>
  BY DEF WeatherCycle, WeatherStep, WeatherBegins, WeatherConfig, WeatherAdmit, WeatherPauses,
     WeatherLooks, SecondLook, RaisesTls, WaitsForReaders, Fetches, WeatherResumes,
     WeatherReleases, WeatherJudges, Settles, Finishes, WeatherOffline, WeatherClaims,
     WeatherLook
<1>w. WeatherShape /\ ForecastShape /\ OwnersShape BY DEF HeapInv
<1>1. WeatherShape'
  <2> HIDE DEF HeapInv
  <2> USE <1>w DEF WeatherShape, WeatherAt, Fetching, ForecastShape
  <2>0. \A reason \in {"source", "busy", "ota"} :
          Because(reason) \in [pc : WeatherAt, gen : Nat, cfg : Nat, token : Nat,
             asked : Nat,
                              why : SUBSET {"source", "busy", "ota"}, ok : BOOLEAN]
    BY DEF Because
  <2>1. CASE WeatherBegins BY <2>1 DEF WeatherBegins
  <2>2. CASE WeatherConfig BY <2>2, NoAttemptShape DEF WeatherConfig, Hidden
  <2>3. CASE WeatherAdmit BY <2>3, <2>0 DEF WeatherAdmit
  <2>4. CASE WeatherPauses BY <2>4, <2>0 DEF WeatherPauses, Released
  <2>5. CASE WeatherLooks BY <2>5, <2>0 DEF WeatherLooks, WeatherLook
  <2>6. CASE SecondLook BY <2>6, <2>0 DEF SecondLook
  <2>7. CASE RaisesTls BY <2>7 DEF RaisesTls
  <2>8. CASE WaitsForReaders BY <2>8, <2>0 DEF WaitsForReaders
  <2>9. CASE Fetches BY <2>9, ZenonT(60) DEF Fetches
  <2>10. CASE WeatherResumes BY <2>10 DEF WeatherResumes
  <2>11. CASE WeatherReleases BY <2>11 DEF WeatherReleases, Released
  <2>12. CASE WeatherJudges
    <3>1. CASE Changed BY <2>12, <3>1, ZenonT(60) DEF WeatherJudges, Hidden
    <3>2. CASE ~Changed BY <2>12, <3>2 DEF WeatherJudges, Hidden
    <3> QED BY <3>1, <3>2
  <2>13. CASE Settles BY <2>13, NoAttemptShape DEF Settles, Settled
  <2>14. CASE Finishes BY <2>14, NoAttemptShape DEF Finishes, Complete
  <2>15. CASE WeatherOffline BY <2>15, NoAttemptShape DEF WeatherOffline, Settled
  <2>16. CASE WeatherClaims
    <3> DEFINE token == IF Outstanding THEN refresh.requested ELSE 0
    <3>1. CASE Same
      <4>1. weather' = [weather EXCEPT !.pc = "admit", !.asked = refresh.requested,
         !.token = token]
        BY <2>16, <3>1 DEF WeatherClaims
      <4>2. token \in Nat OBVIOUS
      <4> HIDE DEF token
      <4> QED BY <4>1, <4>2
    <3>2. CASE ~Same BY <2>16, <3>2, NoAttemptShape DEF WeatherClaims
    <3> QED BY <3>1, <3>2
  <2> QED
    BY <2>1, <2>2, <2>3, <2>4, <2>5, <2>6, <2>7, <2>8, <2>9, <2>10, <2>11, <2>12, <2>13,
       <2>14, <2>15, <2>16
    DEF WeatherStep, WeatherCycle
<1>2. OwnersShape' /\ ForecastShape'
  <2> HIDE DEF HeapInv
  <2> USE <1>0, <1>w DEF OwnersShape, ForecastShape, WeatherShape
  <2>1. CASE WeatherBegins BY <2>1 DEF WeatherBegins
  <2>2. CASE WeatherConfig BY <2>2, ZenonT(60) DEF WeatherConfig, Hidden, NoAttempt
  <2>3. CASE WeatherAdmit BY <2>3 DEF WeatherAdmit, Because
  <2>4. CASE WeatherPauses BY <2>4 DEF WeatherPauses, Because, Released
  <2>5. CASE WeatherLooks BY <2>5 DEF WeatherLooks, WeatherLook, Because
  <2>6. CASE SecondLook BY <2>6 DEF SecondLook, Because
  <2>7. CASE RaisesTls BY <2>7, ZenonT(60) DEF RaisesTls
  <2>8. CASE WaitsForReaders BY <2>8, ZenonT(60) DEF WaitsForReaders, Because
  <2>9. CASE Fetches BY <2>9, ZenonT(60) DEF Fetches
  <2>10. CASE WeatherResumes BY <2>10 DEF WeatherResumes
  <2>11. CASE WeatherReleases BY <2>11 DEF WeatherReleases, Released
  <2>12. CASE WeatherJudges
    <3>1. /\ weather.pc = "judge"
          /\ status' = status \/ status' = Hidden
          /\ UNCHANGED <<admission, pause, values, refresh>>
      BY <2>12 DEF WeatherJudges
    <3> QED BY <3>1, HiddenFacts
  <2>13. CASE Settles BY <2>13, ZenonT(60) DEF Settles, Settled, NoAttempt
  <2>14. CASE Finishes BY <2>14, ZenonT(60) DEF Finishes, Complete, NoAttempt
  <2>15. CASE WeatherOffline BY <2>15, ZenonT(60) DEF WeatherOffline, Settled, NoAttempt
  <2>16. CASE WeatherClaims
    <3>1. CASE Same
      <4>1. /\ values' = values /\ admission' = admission
            /\ refresh' = refresh \/ refresh' = [refresh EXCEPT !.started = refresh.requested]
            /\ status' = [status EXCEPT !.fetching = TRUE]
        BY <2>16, <3>1 DEF WeatherClaims
      <4> QED BY <4>1, ZenonT(60)
    <3>2. CASE ~Same BY <2>16, <3>2 DEF WeatherClaims
    <3> QED BY <3>1, <3>2
  <2> QED
    BY <2>1, <2>2, <2>3, <2>4, <2>5, <2>6, <2>7, <2>8, <2>9, <2>10, <2>11, <2>12, <2>13,
       <2>14, <2>15, <2>16
    DEF WeatherStep, WeatherCycle
<1>3. NetTypeOK'
  <2> USE <1>0 DEF NetTypeOK, WeatherActive, Fetching, Changing, WeatherShape,
     ForecastShape, OwnersShape
  <2>1. CASE WeatherBegins BY <2>1 DEF WeatherBegins
  <2>2. CASE WeatherConfig BY <2>2 DEF WeatherConfig, Hidden, NoAttempt
  <2>3. CASE WeatherAdmit
    <3>1. CASE admission = "Idle"
      <4>1. weather'.pc = "admitted" /\ admission' = "Network"
        BY <2>3, <3>1 DEF WeatherAdmit, Because, To
      <4> QED BY <2>3, <4>1 DEF WeatherAdmit, To
    <3>2. CASE admission # "Idle"
      <4>1. weather'.pc = "judge" /\ admission' = admission
        BY <2>3, <3>2, ZenonT(60) DEF WeatherAdmit, Because, To
      <4> QED BY <2>3, <4>1 DEF WeatherAdmit, Because
    <3> QED BY <3>1, <3>2
  <2>4. CASE WeatherPauses
    <3>1. CASE Same
      <4>1. weather.pc = "admitted" /\ weather'.pc = "lead" /\ UNCHANGED <<admission,
         values, status>>
        BY <2>4, <3>1 DEF WeatherPauses
      <4> QED BY <4>1
    <3>2. CASE ~Same
      <4>1. /\ weather.pc = "admitted" /\ admission' = Released
            /\ weather' = [Because("source") EXCEPT !.pc = "judge"]
            /\ UNCHANGED <<values, status>>
        BY <2>4, <3>2, Zenon DEF WeatherPauses
      <4>2. weather'.pc = "judge" BY <4>1 DEF Because
      <4> QED BY <4>1, <4>2 DEF Released
    <3> QED BY <3>1, <3>2
  <2>5. CASE WeatherLooks BY <2>5 DEF WeatherLooks, WeatherLook, Because
  <2>6. CASE SecondLook BY <2>6 DEF SecondLook, Because
  <2>7. CASE RaisesTls BY <2>7 DEF RaisesTls
  <2>8. CASE WaitsForReaders
    <3>1. CASE values.readers = 0 BY <2>8, <3>1 DEF WaitsForReaders
    <3>2. CASE values.readers # 0
      <4>1. /\ weather.pc = "readers" /\ weather'.pc = "resume"
            /\ values' = [values EXCEPT !.tls = FALSE] /\ UNCHANGED <<admission, status>>
        BY <2>8, <3>2, ZenonT(60) DEF WaitsForReaders, Because
      <4> QED BY <4>1
    <3> QED BY <3>1, <3>2
  <2>9. CASE Fetches BY <2>9 DEF Fetches
  <2>10. CASE WeatherResumes BY <2>10 DEF WeatherResumes
  <2>11. CASE WeatherReleases BY <2>11 DEF WeatherReleases, Released
  <2>12. CASE WeatherJudges
    <3>1. /\ weather.pc = "judge"
          /\ IF Changed THEN weather'.pc = "finish" ELSE weather'.pc = "settle"
          /\ status' = IF Changed /\ Same THEN Hidden ELSE status
          /\ UNCHANGED <<admission, pause, values, refresh>>
      BY <2>12, ZenonT(60) DEF WeatherJudges
    <3> QED BY <3>1, HiddenFacts DEF MarkInv
  <2>13. CASE Settles
    <3>1. CASE Same
      <4>1. weather.pc = "settle" /\ weather'.pc \in {"begin", "finish"} /\ status'.fetching = FALSE
        BY <2>13, <3>1 DEF Settles, Settled, NoAttempt
      <4>2. UNCHANGED <<admission, values>> BY <2>13 DEF Settles
      <4> QED BY <4>1, <4>2
    <3>2. CASE ~Same
      <4>1. weather.pc = "settle" /\ weather'.pc = "finish" /\ UNCHANGED <<admission, values, status>>
        BY <2>13, <3>2 DEF Settles, Settled, NoAttempt
      <4> QED BY <3>2, <4>1 DEF MarkInv
    <3> QED BY <3>1, <3>2
  <2>14. CASE Finishes BY <2>14 DEF Finishes, Complete, NoAttempt
  <2>15. CASE WeatherOffline BY <2>15 DEF WeatherOffline, Settled, NoAttempt
  <2>16. CASE WeatherClaims
    <3>1. CASE Same
      <4>1. weather'.pc = "admit" BY <2>16, <3>1, ZenonT(60) DEF WeatherClaims
      <4> QED BY <2>16, <4>1 DEF WeatherClaims, To
    <3>2. CASE ~Same
      <4>1. weather' = NoAttempt /\ status' = status BY <2>16, <3>2 DEF WeatherClaims
      <4> QED BY <2>16, <4>1 DEF WeatherClaims, NoAttempt
    <3> QED BY <3>1, <3>2
  <2> QED
    BY <2>1, <2>2, <2>3, <2>4, <2>5, <2>6, <2>7, <2>8, <2>9, <2>10, <2>11, <2>12, <2>13,
       <2>14, <2>15, <2>16
    DEF WeatherStep, WeatherCycle
<1>4. OtaInv'
  <2> USE <1>0 DEF OtaInv, Claims, Stands, Through, TransportQuiet, WeatherShape, OtaActive
  <2>1. CASE WeatherBegins BY <2>1 DEF WeatherBegins
  <2>2. CASE WeatherConfig BY <2>2 DEF WeatherConfig, Hidden, NoAttempt
  <2>3. CASE WeatherAdmit BY <2>3 DEF WeatherAdmit, Because
  <2>4. CASE WeatherPauses BY <2>4 DEF WeatherPauses, Because, Released
  <2>5. CASE WeatherLooks BY <2>5 DEF WeatherLooks, WeatherLook, Because
  <2>6. CASE SecondLook BY <2>6 DEF SecondLook, Because
  <2>7. CASE RaisesTls BY <2>7 DEF RaisesTls
  <2>8. CASE WaitsForReaders BY <2>8 DEF WaitsForReaders, Because
  <2>9. CASE Fetches BY <2>9 DEF Fetches
  <2>10. CASE WeatherResumes BY <2>10 DEF WeatherResumes
  <2>11. CASE WeatherReleases BY <2>11 DEF WeatherReleases, Released
  <2>12. CASE WeatherJudges
    <3>1. CASE Changed BY <2>12, <3>1 DEF WeatherJudges, Hidden
    <3>2. CASE ~Changed BY <2>12, <3>2 DEF WeatherJudges, Hidden
    <3> QED BY <3>1, <3>2
  <2>13. CASE Settles BY <2>13 DEF Settles, Settled, NoAttempt
  <2>14. CASE Finishes BY <2>14 DEF Finishes, Complete, NoAttempt
  <2>15. CASE WeatherOffline BY <2>15 DEF WeatherOffline, Settled, NoAttempt
  <2>16. CASE WeatherClaims
    <3>1. CASE Same BY <2>16, <3>1 DEF WeatherClaims, NoAttempt
    <3>2. CASE ~Same BY <2>16, <3>2 DEF WeatherClaims, NoAttempt
    <3> QED BY <3>1, <3>2
  <2> QED
    BY <2>1, <2>2, <2>3, <2>4, <2>5, <2>6, <2>7, <2>8, <2>9, <2>10, <2>11, <2>12, <2>13,
       <2>14, <2>15, <2>16
    DEF WeatherStep, WeatherCycle
<1>5. WeatherInv'
  <2> USE <1>0 DEF WeatherInv, Claims, Stands, Through, TransportQuiet, WeatherShape, Phase
  <2>1. CASE WeatherBegins BY <2>1 DEF WeatherBegins
  <2>2. CASE WeatherConfig BY <2>2 DEF WeatherConfig, Hidden, NoAttempt
  <2>3. CASE WeatherAdmit BY <2>3 DEF WeatherAdmit, Because
  <2>4. CASE WeatherPauses BY <2>4, ZenonT(60) DEF WeatherPauses, Because, Released
  <2>5. CASE WeatherLooks
    <3>1. CASE LeadOver /\ WeatherLook("lead", TRUE, "peer")
      BY <3>1 DEF WeatherLook, LeadOver, PeerInv
    <3>2. CASE WeatherLook("peer", Quiet("weather"), "transport")
      BY <3>2 DEF WeatherLook, Because, Quiet, PeerInv
    <3>3. CASE WeatherLook("transport", TransportQuiet, "again")
      BY <3>3 DEF WeatherLook, Because
    <3> QED BY <2>5, <3>1, <3>2, <3>3 DEF WeatherLooks
  <2>6. CASE SecondLook BY <2>6 DEF SecondLook, Because
  <2>7. CASE RaisesTls BY <2>7 DEF RaisesTls
  <2>8. CASE WaitsForReaders
    <3>1. CASE values.readers = 0 BY <2>8, <3>1 DEF WaitsForReaders, Because, NetTypeOK
    <3>2. CASE values.readers # 0 BY <2>8, <3>2 DEF WaitsForReaders, Because, NetTypeOK
    <3> QED BY <3>1, <3>2
  <2>9. CASE Fetches BY <2>9 DEF Fetches
  <2>10. CASE WeatherResumes BY <2>10 DEF WeatherResumes
  <2>11. CASE WeatherReleases BY <2>11 DEF WeatherReleases, Released
  <2>12. CASE WeatherJudges
    <3>1. CASE Changed BY <2>12, <3>1 DEF WeatherJudges, Hidden
    <3>2. CASE ~Changed BY <2>12, <3>2 DEF WeatherJudges, Hidden
    <3> QED BY <3>1, <3>2
  <2>13. CASE Settles BY <2>13 DEF Settles, Settled, NoAttempt
  <2>14. CASE Finishes BY <2>14 DEF Finishes, Complete, NoAttempt
  <2>15. CASE WeatherOffline BY <2>15 DEF WeatherOffline, Settled, NoAttempt
  <2>16. CASE WeatherClaims
    <3>1. CASE Same BY <2>16, <3>1 DEF WeatherClaims, NoAttempt
    <3>2. CASE ~Same BY <2>16, <3>2 DEF WeatherClaims, NoAttempt
    <3> QED BY <3>1, <3>2
  <2> QED
    BY <2>1, <2>2, <2>3, <2>4, <2>5, <2>6, <2>7, <2>8, <2>9, <2>10, <2>11, <2>12, <2>13,
       <2>14, <2>15, <2>16
    DEF WeatherStep, WeatherCycle
<1>6. PeerShape' /\ PeerInv' BY <1>0 DEF PeerShape, PeerInv
<1>7. MarkInv'
  <2> USE DEF MarkInv, Same, WeatherShape, ForecastShape, NetTypeOK, Fetching
  <2>1. CASE WeatherBegins BY <2>1 DEF WeatherBegins
  <2>2. CASE WeatherConfig
    <3>1. status'.fetching = FALSE BY <2>2 DEF WeatherConfig, Hidden
    <3> QED BY <3>1
  <2>3. CASE WeatherAdmit \/ WeatherPauses \/ WeatherLooks \/ SecondLook \/ RaisesTls
              \/ WaitsForReaders \/ Fetches \/ WeatherResumes \/ WeatherReleases
    <3>1. status' = status /\ weather'.gen = weather.gen
      <4> USE DEF Because
      <4>1. CASE WeatherAdmit \/ WeatherPauses BY <4>1, ZenonT(60) DEF WeatherAdmit, WeatherPauses
      <4>2. CASE WeatherLooks BY <4>2 DEF WeatherLooks, WeatherLook
      <4>3. CASE SecondLook \/ RaisesTls BY <4>3, ZenonT(60) DEF SecondLook, RaisesTls
      <4>4. CASE WaitsForReaders \/ Fetches BY <4>4, ZenonT(60) DEF WaitsForReaders, Fetches
      <4>5. CASE WeatherResumes \/ WeatherReleases
        BY <4>5 DEF WeatherResumes, WeatherReleases
      <4> QED BY <2>3, <4>1, <4>2, <4>3, <4>4, <4>5
    <3> QED BY <3>1
  <2>4. CASE WeatherJudges
    <3>1. weather'.gen = weather.gen /\ status' \in {status, Hidden}
      BY <2>4, ZenonT(60) DEF WeatherJudges
    <3> QED BY <3>1, HiddenFacts
  <2>5. CASE Settles \/ Finishes \/ WeatherOffline
    <3>1. status'.fetching = FALSE BY <2>5, ZenonT(60) DEF Settles, Finishes, WeatherOffline, Settled
    <3> QED BY <3>1
  <2>6. CASE WeatherClaims
    <3>1. CASE Same BY <2>6, <3>1, ZenonT(60) DEF WeatherClaims
    <3>2. CASE ~Same
      <4>1. status'.fetching = FALSE BY <2>6, <3>2 DEF WeatherClaims
      <4> QED BY <4>1
    <3> QED BY <3>1, <3>2
  <2> QED BY <2>1, <2>2, <2>3, <2>4, <2>5, <2>6 DEF WeatherStep, WeatherCycle
<1> QED BY <1>1, <1>2, <1>3, <1>4, <1>5, <1>6, <1>7

(* The server's task, step by step.                                         *)
ServerStep == HttpStep \/ Enters \/ Requests \/ BeginsChange \/ GivesUp

LEMMA ServerHeap == HeapInv /\ ServerStep => HeapInv'
<1> SUFFICES ASSUME HeapInv, ServerStep PROVE HeapInv' OBVIOUS
<1> USE NetworkAssumption DEF HeapInv, ServerStep, HttpOnly
<1>0. UNCHANGED <<ota, weather, pause, peer>>
  BY DEF HttpStep, ReadsTls, ReadsOta, StreamEnds, HandedOver, Saves, Commit,
     ReleasesChange, Enters, Requests, BeginsChange, GivesUp
<1>1. WeatherShape' /\ PeerShape' /\ PeerInv' BY <1>0 DEF WeatherShape, PeerShape, PeerInv
<1>2. OwnersShape'
  <2> USE <1>0 DEF OwnersShape, NetTypeOK, Changing
  <2>1. CASE ReadsTls BY <2>1 DEF ReadsTls, Leaves
  <2>2. CASE ReadsOta BY <2>2 DEF ReadsOta, Leaves
  <2>3. CASE StreamEnds BY <2>3 DEF StreamEnds, Leaves
  <2>4. CASE HandedOver BY <2>4 DEF HandedOver
  <2>5. CASE Saves BY <2>5 DEF Saves
  <2>6. CASE Commit BY <2>6 DEF Commit, Hidden
  <2>7. CASE ReleasesChange BY <2>7 DEF ReleasesChange
  <2>8. CASE Enters BY <2>8 DEF Enters
  <2>9. CASE Requests BY <2>9 DEF Requests
  <2>10. CASE BeginsChange BY <2>10 DEF BeginsChange
  <2>11. CASE GivesUp BY <2>11 DEF GivesUp
  <2> QED
    BY <2>1, <2>2, <2>3, <2>4, <2>5, <2>6, <2>7, <2>8, <2>9, <2>10, <2>11
    DEF HttpStep
<1>3. ForecastShape'
  <2> USE <1>0 DEF ForecastShape
  <2>1. CASE ReadsTls BY <2>1 DEF ReadsTls, Leaves
  <2>2. CASE ReadsOta BY <2>2 DEF ReadsOta, Leaves
  <2>3. CASE StreamEnds BY <2>3 DEF StreamEnds, Leaves
  <2>4. CASE HandedOver BY <2>4 DEF HandedOver
  <2>5. CASE Saves BY <2>5 DEF Saves
  <2>6. CASE Commit
    <3>1. /\ forecast' = forecast /\ status' = [Hidden EXCEPT !.gen = Hidden.gen + 1]
          /\ refresh' = [refresh EXCEPT !.completed = refresh.requested]
      BY <2>6 DEF Commit
    <3> QED BY <3>1, HiddenFacts
  <2>7. CASE ReleasesChange BY <2>7 DEF ReleasesChange
  <2>8. CASE Enters BY <2>8 DEF Enters
  <2>9. CASE Requests BY <2>9 DEF Requests
  <2>10. CASE BeginsChange BY <2>10 DEF BeginsChange
  <2>11. CASE GivesUp BY <2>11 DEF GivesUp
  <2> QED
    BY <2>1, <2>2, <2>3, <2>4, <2>5, <2>6, <2>7, <2>8, <2>9, <2>10, <2>11
    DEF HttpStep
<1>4. NetTypeOK'
  <2> USE <1>0 DEF NetTypeOK, WeatherActive, Fetching, Changing, ForecastShape, OwnersShape
  <2>1. CASE ReadsTls BY <2>1 DEF ReadsTls, Leaves
  <2>2. CASE ReadsOta BY <2>2 DEF ReadsOta, Leaves
  <2>3. CASE StreamEnds BY <2>3 DEF StreamEnds, Leaves
  <2>4. CASE HandedOver BY <2>4 DEF HandedOver
  <2>5. CASE Saves BY <2>5 DEF Saves
  <2>6. CASE Commit BY <2>6 DEF Commit, Hidden
  <2>7. CASE ReleasesChange BY <2>7 DEF ReleasesChange
  <2>8. CASE Enters BY <2>8 DEF Enters
  <2>9. CASE Requests BY <2>9 DEF Requests
  <2>10. CASE BeginsChange BY <2>10 DEF BeginsChange
  <2>11. CASE GivesUp BY <2>11 DEF GivesUp
  <2> QED
    BY <2>1, <2>2, <2>3, <2>4, <2>5, <2>6, <2>7, <2>8, <2>9, <2>10, <2>11
    DEF HttpStep
<1>5. OtaInv' BY <1>0 DEF OtaInv, Claims, Stands, Through, TransportQuiet
<1>6. WeatherInv'
  <2> USE <1>0 DEF WeatherInv, Claims, Stands, Through, TransportQuiet, NetTypeOK, Changing
  <2>1. CASE ReadsTls BY <2>1 DEF ReadsTls, Leaves
  <2>2. CASE ReadsOta BY <2>2 DEF ReadsOta, Leaves
  <2>3. CASE StreamEnds BY <2>3 DEF StreamEnds, Leaves
  <2>4. CASE HandedOver BY <2>4 DEF HandedOver
  <2>5. CASE Saves BY <2>5 DEF Saves
  <2>6. CASE Commit BY <2>6 DEF Commit, Hidden
  <2>7. CASE ReleasesChange BY <2>7 DEF ReleasesChange
  <2>8. CASE Enters BY <2>8 DEF Enters
  <2>9. CASE Requests BY <2>9 DEF Requests
  <2>10. CASE BeginsChange BY <2>10 DEF BeginsChange
  <2>11. CASE GivesUp BY <2>11 DEF GivesUp
  <2> QED
    BY <2>1, <2>2, <2>3, <2>4, <2>5, <2>6, <2>7, <2>8, <2>9, <2>10, <2>11
    DEF HttpStep
<1>7. MarkInv'
  <2> USE <1>0 DEF MarkInv, Same, ForecastShape
  <2>1. CASE ReadsTls BY <2>1 DEF ReadsTls, Leaves
  <2>2. CASE ReadsOta BY <2>2 DEF ReadsOta, Leaves
  <2>3. CASE StreamEnds BY <2>3 DEF StreamEnds, Leaves
  <2>4. CASE HandedOver BY <2>4 DEF HandedOver
  <2>5. CASE Saves BY <2>5 DEF Saves
  <2>6. CASE Commit BY <2>6 DEF Commit, Hidden
  <2>7. CASE ReleasesChange BY <2>7 DEF ReleasesChange
  <2>8. CASE Enters BY <2>8 DEF Enters
  <2>9. CASE Requests BY <2>9 DEF Requests
  <2>10. CASE BeginsChange BY <2>10 DEF BeginsChange
  <2>11. CASE GivesUp BY <2>11 DEF GivesUp
  <2> QED
    BY <2>1, <2>2, <2>3, <2>4, <2>5, <2>6, <2>7, <2>8, <2>9, <2>10, <2>11
    DEF HttpStep
<1> QED BY <1>1, <1>2, <1>3, <1>4, <1>5, <1>6, <1>7

-----------------------------------------------------------------------------
(* The forecast shown and the refresh tokens *)

LEMMA ServerCycle == HeapInv /\ CycleInv /\ ForecastCurrent /\ ServerStep => CycleInv' /\ ForecastCurrent'
<1> SUFFICES ASSUME HeapInv, CycleInv, ForecastCurrent, ServerStep
             PROVE  CycleInv' /\ ForecastCurrent'
  OBVIOUS
<1> USE DEF HeapInv, ServerStep, HttpOnly, WeatherShape, ForecastShape, CycleInv,
   ForecastCurrent,
            Same
<1>1. CASE ReadsTls \/ ReadsOta \/ StreamEnds \/ HandedOver \/ ReleasesChange \/ Enters
           \/ BeginsChange \/ GivesUp
  <2>1. /\ UNCHANGED <<weather, forecast, status, refresh>>
        /\ http # "saved" /\ http' # "saved"
    BY <1>1 DEF ReadsTls, ReadsOta, StreamEnds, HandedOver, ReleasesChange, Enters,
       BeginsChange,
                GivesUp, Leaves
  <2> QED BY <2>1
<1>2. CASE Requests BY <1>2 DEF Requests, Outstanding
<1>3. CASE Saves BY <1>3 DEF Saves
<1>4. CASE Commit
  <2>1. /\ weather' = weather /\ forecast' = forecast
        /\ status'.gen = status.gen + 1 /\ status'.shown = 0
        /\ refresh'.completed = refresh'.requested /\ refresh'.requested = refresh.requested
    BY <1>4 DEF Commit, Hidden
  <2> QED BY <2>1
<1> QED BY <1>1, <1>2, <1>3, <1>4 DEF HttpStep

LEMMA WeatherCycleInv ==
  HeapInv /\ CycleInv /\ ForecastCurrent /\ WeatherCycle => CycleInv' /\ ForecastCurrent'
<1> SUFFICES ASSUME HeapInv, CycleInv, ForecastCurrent, WeatherCycle
             PROVE  CycleInv' /\ ForecastCurrent'
  OBVIOUS
<1> USE DEF HeapInv, WeatherOnly, WeatherShape, ForecastShape, CycleInv,
            ForecastCurrent, Same, To
<1>1. CASE WeatherBegins BY <1>1 DEF WeatherBegins
<1>2. CASE WeatherConfig BY <1>2 DEF WeatherConfig, Hidden, NoAttempt
<1>3. CASE WeatherAdmit \/ WeatherPauses \/ WeatherLooks \/ SecondLook \/ RaisesTls
           \/ WaitsForReaders \/ Fetches \/ WeatherResumes \/ WeatherReleases
  <2>1. /\ UNCHANGED <<http, forecast, status, refresh>>
        /\ UNCHANGED <<weather.gen, weather.cfg, weather.token, weather.asked>>
        /\ weather.pc \notin {"off", "begin", "config"} /\ weather'.pc \notin {"settle",
           "finish"}
    <3> USE DEF Because
    <3>1. CASE WeatherAdmit \/ WeatherPauses BY <3>1, ZenonT(60) DEF WeatherAdmit, WeatherPauses
    <3>2. CASE WeatherLooks BY <3>2 DEF WeatherLooks, WeatherLook
    <3>3. CASE SecondLook \/ RaisesTls BY <3>3, ZenonT(60) DEF SecondLook, RaisesTls
    <3>4. CASE WaitsForReaders \/ Fetches BY <3>4, ZenonT(60) DEF WaitsForReaders, Fetches
    <3>5. CASE WeatherResumes \/ WeatherReleases BY <3>5 DEF WeatherResumes, WeatherReleases
    <3> QED BY <1>3, <3>1, <3>2, <3>3, <3>4, <3>5
  <2> QED BY <2>1
<1>4. CASE WeatherJudges
  <2>1. /\ weather.pc = "judge" /\ UNCHANGED <<http, forecast, refresh>>
        /\ UNCHANGED <<weather.gen, weather.cfg, weather.token, weather.asked>>
        /\ status' \in {status, Hidden}
        /\ weather'.pc = IF Changed THEN "finish" ELSE "settle"
        /\ Changed => ~weather'.ok
    BY <1>4, ZenonT(60) DEF WeatherJudges
  <2> QED BY <2>1, HiddenFacts DEF Changed
<1>5. CASE Settles
  <2> DEFINE ok == weather.ok /\ Same
  <2>1. /\ weather.pc = "settle" /\ UNCHANGED <<http, forecast, refresh>>
        /\ status'.gen = status.gen
        /\ weather' = NoAttempt \/ weather' = [weather EXCEPT !.ok = ok, !.pc = "finish"]
    BY <1>5 DEF Settles, Settled
  <2>2. /\ weather'.pc # "settle" /\ weather'.gen <= status'.gen
        /\ weather'.asked <= refresh'.requested
        /\ weather'.token # 0 => weather'.token = weather'.asked
        /\ weather'.pc = "finish" => weather'.ok = ok /\ weather'.token = weather.token
        /\ weather'.pc \notin {"off", "begin", "config"} => weather'.cfg # 0
    <3> HIDE DEF ok
    <3>1. CASE weather' = NoAttempt BY <2>1, <3>1 DEF NoAttempt
    <3>2. CASE weather' = [weather EXCEPT !.ok = ok, !.pc = "finish"] BY <2>1, <3>2
    <3> QED BY <2>1, <3>1, <3>2
  <2>3. CASE Same /\ weather.ok
    <3>1. status'.shown = weather.cfg /\ status'.asof = weather.asked
      BY <1>5, <2>3 DEF Settles, Settled
    <3>2. weather'.pc = "finish" => weather'.token = weather.token BY <2>2
    <3>3. weather.cfg # 0 BY <2>1
    <3>4. http # "saved" => forecast.on /\ forecast.id = weather.cfg BY <2>1, <2>3
    <3> QED BY <2>1, <2>2, <3>1, <3>2, <3>3, <3>4
  <2>4. CASE ~(Same /\ weather.ok)
    <3>1. status'.shown = status.shown BY <1>5, <2>4 DEF Settles, Settled
    <3>2. weather'.pc = "finish" => ~weather'.ok BY <2>2, <2>4
    <3> QED BY <2>1, <2>2, <3>1, <3>2
  <2> QED BY <2>3, <2>4
<1>6. CASE Finishes BY <1>6 DEF Finishes, Complete, NoAttempt
<1>7. CASE WeatherOffline BY <1>7 DEF WeatherOffline, Settled, NoAttempt
<1>8. CASE WeatherClaims
  <2>1. CASE Same
    <3>1. /\ weather.pc = "claim" /\ UNCHANGED <<http, forecast>>
          /\ status'.gen = status.gen /\ status'.shown = status.shown
          /\ refresh'.requested = refresh.requested
          /\ weather'.pc = "admit" /\ weather'.gen = weather.gen /\ weather'.cfg = weather.cfg
          /\ weather'.asked = refresh.requested
          /\ weather'.token \in {0, refresh.requested}
      BY <1>8, <2>1, ZenonT(60) DEF WeatherClaims
    <3> QED BY <3>1
  <2>2. CASE ~Same BY <1>8, <2>2 DEF WeatherClaims, NoAttempt
  <2> QED BY <2>1, <2>2
<1> QED BY <1>1, <1>2, <1>3, <1>4, <1>5, <1>6, <1>7, <1>8 DEF WeatherStep, WeatherCycle

LEMMA OthersCycle ==
  CycleInv /\ ForecastCurrent /\ (OtaRaises \/ OtaStep \/ PeerStep \/ TransportEvent)
    => CycleInv' /\ ForecastCurrent'
<1> SUFFICES ASSUME CycleInv, ForecastCurrent,
   OtaRaises \/ OtaStep \/ PeerStep \/ TransportEvent
             PROVE  CycleInv' /\ ForecastCurrent'
  OBVIOUS
<1>1. UNCHANGED <<weather, http, forecast, status, refresh>>
  <2>1. CASE OtaRaises \/ OtaStep
    BY <2>1 DEF OtaRaises, OtaStep, OtaAsksPause, OtaLeads, OtaWaits, OtaWait, OtaEnds,
       OtaResumes,
                OtaLowers, OtaOnly
  <2>2. CASE PeerStep \/ TransportEvent
    BY <2>2 DEF PeerStep, TransportEvent, PeerHolds, PeerPasses, PeerClaims, PeerLooksAgain,
                PeerEnds, TransportResumes, PeerOnly
  <2> QED BY <2>1, <2>2
<1> QED BY <1>1 DEF CycleInv, ForecastCurrent, Same

-----------------------------------------------------------------------------
(* The theorems *)

LEMMA NextNetIInv == NetIInv /\ [NetNext]_netVars => NetIInv'
<1> SUFFICES ASSUME NetIInv, [NetNext]_netVars PROVE NetIInv' OBVIOUS
<1>1. CASE OtaRaises \/ OtaStep BY <1>1, OtaHeap, OthersCycle, Zenon DEF NetIInv
<1>2. CASE WeatherCycle BY <1>2, WeatherHeap, WeatherCycleInv, Zenon DEF NetIInv
<1>3. CASE ServerStep BY <1>3, ServerHeap, ServerCycle, Zenon DEF NetIInv
<1>4. CASE PeerStep \/ TransportEvent BY <1>4, PeerHeap, OthersCycle, Zenon DEF NetIInv
<1>5. CASE UNCHANGED netVars
  BY <1>5 DEF netVars, NetIInv, HeapInv, MarkInv, OwnersShape, WeatherShape, ForecastShape,
     PeerShape,
              NetTypeOK, WeatherActive, PeerInv, OtaInv, WeatherInv, Claims, Stands,
                 Through,
              TransportQuiet, CycleInv, ForecastCurrent, Same
<1> QED BY <1>1, <1>2, <1>3, <1>4, <1>5, Zenon DEF NetNext, WeatherCycle, ServerStep

(* The inductive invariant holds in every reachable state: in particular    *)
(* NetTypeOK, that an admission always has the owner its value names, so    *)
(* that no release or commit ever aborts.                                   *)
THEOREM NetworkInductive == NetSpec => []NetIInv
BY InitNetIInv, NextNetIInv, PTL DEF NetSpec

(* For every hold cap and any number of updates, saves, refreshes and       *)
(* responses: an update, a forecast request and a /values stream never hold *)
(* the heap together, and the task beside them stands aside or has spent    *)
(* its budget.                                                              *)
THEOREM HeapHeldAlone == NetSpec => []TlsAlone
<1>1. NetIInv => TlsAlone
  <2> SUFFICES ASSUME NetIInv PROVE TlsAlone OBVIOUS
  <2> USE DEF NetIInv, HeapInv
  <2>1. ~(ota.pc = "transfer" /\ weather.pc = "fetch") BY DEF OtaInv
  <2>2. ~(weather.pc = "fetch" /\ http = "stream") BY DEF WeatherInv
  <2>3. ota.pc = "transfer" \/ weather.pc = "fetch" => Stands /\ (TransportQuiet \/ Through)
    BY DEF OtaInv, WeatherInv, Phase
  <2>4. Through => Budgeted BY NetworkAssumption DEF Through, Budgeted, PeerInv
  <2> QED BY <2>1, <2>2, <2>3, <2>4 DEF TlsAlone, Stands, Through
<1> QED BY <1>1, NetworkInductive, PTL

(* No forecast is shown for a source but the saved one, and no refresh is   *)
(* answered with success by an older attempt or another source's.           *)
THEOREM ResultsAlwaysBound == NetSpec => ResultsBound
<1>1. NetIInv /\ NetIInv' /\ [NetNext]_netVars => [ForecastCurrent' /\ RefreshHonest]_netVars
  <2> SUFFICES ASSUME NetIInv, NetIInv', NetNext PROVE ForecastCurrent' /\ RefreshHonest
    OBVIOUS
  <2>1. ForecastCurrent' BY DEF NetIInv
  <2>2. RefreshHonest
    <3> USE DEF RefreshHonest, NetIInv, HeapInv, ForecastShape
    <3>1. CASE Finishes
      BY <3>1 DEF Finishes, Complete, CycleInv
    <3>2. CASE ~Finishes
      <4>1. refresh'.success = refresh.success
        <5> SUFFICES refresh' = refresh \/ \E n \in Nat :
              \/ refresh' = [refresh EXCEPT !.started = n]
              \/ refresh' = [refresh EXCEPT !.requested = n]
              \/ refresh' = [refresh EXCEPT !.completed = n]
          OBVIOUS
        <5>1. CASE OtaRaises \/ OtaStep
          BY <5>1 DEF OtaRaises, OtaStep, OtaAsksPause, OtaLeads, OtaWaits, OtaWait,
             OtaEnds,
                      OtaResumes, OtaLowers, OtaOnly
        <5>2. CASE PeerStep \/ TransportEvent
          BY <5>2 DEF PeerStep, TransportEvent, PeerHolds, PeerPasses, PeerClaims,
             PeerLooksAgain,
                      PeerEnds, TransportResumes, PeerOnly
        <5>3. CASE WeatherClaims BY <5>3 DEF WeatherClaims
        <5>4. CASE WeatherStep \/ WeatherOffline
          BY <5>4, <3>2 DEF WeatherStep, WeatherOffline, WeatherBegins, WeatherConfig,
             WeatherAdmit,
             WeatherPauses, WeatherLooks, WeatherLook, SecondLook, RaisesTls,
                WaitsForReaders,
             Fetches, WeatherResumes, WeatherReleases, WeatherJudges, Settles
        <5>5. CASE ServerStep
          BY <5>5 DEF ServerStep, HttpStep, ReadsTls, ReadsOta, StreamEnds, HandedOver,
             Saves,
             Commit, ReleasesChange, Enters, Requests, BeginsChange, GivesUp, HttpOnly
        <5> QED BY <5>1, <5>2, <5>3, <5>4, <5>5, Zenon DEF NetNext, ServerStep
      <4> QED BY <4>1
    <3> QED BY <3>1, <3>2
  <2> QED BY <2>1, <2>2
<1> QED BY <1>1, NetworkInductive, PTL DEF NetSpec, ResultsBound

-----------------------------------------------------------------------------
(* The factory reset against the tasks that could restart the board *)

(* The actions of the reset itself; the others leave its steps alone.       *)
ResetStep ==
  \/ Fire \/ LatchNvs \/ EraseSome \/ Forget
  \/ \E ok \in BOOLEAN :
       \/ NvsErased(ok) \/ WifiErased(ok) \/ HistErased(ok) \/ CrashErased(ok)
       \/ RetireErased(ok) \/ WriteSeed(ok)

TaskStep ==
  \/ HistoryStarted
  \/ \E ok \in BOOLEAN : RetireSaveEnd(ok)
  \/ SaveSettings \/ AppendHistory \/ RetireSaveBegin
  \/ \E s \in Sites : WantRestart(s) \/ LastCheck(s)

Restart ==
  /\ Reboot
  /\ \/ UNCHANGED stores
     \/ crash' = "data" /\ UNCHANGED <<cfg, wifi, hist, retire>>

(* Every step of Next belongs to one of the three groups.                   *)
LEMMA NextSplit == Next => ResetStep \/ TaskStep \/ Restart
BY Zenon DEF Next, ResetStep, TaskStep, Restart, PowerLoss, Panic, OwnRestart, OtherRestart

-----------------------------------------------------------------------------
(* A board that has just booted satisfies the invariant whatever it stores. *)
LEMMA InitIInv == Init => IInv
<1> SUFFICES ASSUME Init PROVE IInv OBVIOUS
<1> USE DEF Init
<1>1. TypeOK BY DEF TypeOK, Steps, Stores
<1>2. StepInv BY DEF StepInv
<1>3. GoneInv BY DEF GoneInv
<1>4. RaceInv BY DEF RaceInv
<1> QED BY <1>1, <1>2, <1>3, <1>4 DEF IInv

LEMMA RestartIInv == IInv /\ Restart => IInv'
<1> SUFFICES ASSUME IInv, Restart PROVE IInv' OBVIOUS
<1> USE DEF IInv, Restart, Reboot, stores
<1>1. TypeOK' BY DEF TypeOK, Steps, Stores
<1>2. StepInv' BY DEF StepInv
<1>3. GoneInv' BY DEF GoneInv
<1>4. RaceInv' BY DEF RaceInv
<1> QED BY <1>1, <1>2, <1>3, <1>4

-----------------------------------------------------------------------------
(* Type correctness of the steps within a boot.                             *)
LEMMA ResetType == TypeOK /\ ResetStep => TypeOK'
<1> SUFFICES ASSUME TypeOK, ResetStep PROVE TypeOK' OBVIOUS
<1> USE DEF TypeOK, Steps, Stores, stores, boot
<1>1. CASE Fire BY <1>1 DEF Fire
<1>2. CASE LatchNvs BY <1>2, ZenonT(60) DEF LatchNvs
<1>3. CASE EraseSome BY <1>3 DEF EraseSome
<1>4. CASE Forget BY <1>4 DEF Forget
<1>5. ASSUME NEW ok \in BOOLEAN, NvsErased(ok) PROVE TypeOK'
  <2>1. latch' \in BOOLEAN /\ released' \in BOOLEAN
    BY <1>5, Zenon DEF NvsErased, LatchAfter
  <2> QED BY <1>5, <2>1 DEF NvsErased, Erased
<1>6. ASSUME NEW ok \in BOOLEAN, WifiErased(ok) PROVE TypeOK'
  BY <1>6 DEF WifiErased, NextStep, Erased
<1>7. ASSUME NEW ok \in BOOLEAN, HistErased(ok) PROVE TypeOK'
  BY <1>7 DEF HistErased, NextStep, Erased
<1>8. ASSUME NEW ok \in BOOLEAN, CrashErased(ok) PROVE TypeOK'
  BY <1>8 DEF CrashErased, NextStep, Erased
<1>9. ASSUME NEW ok \in BOOLEAN, RetireErased(ok) PROVE TypeOK'
  BY <1>9 DEF RetireErased, AfterRetire, NextStep, Erased
<1>10. ASSUME NEW ok \in BOOLEAN, WriteSeed(ok) PROVE TypeOK'
  BY <1>10 DEF WriteSeed
<1> QED BY <1>1, <1>2, <1>3, <1>4, <1>5, <1>6, <1>7, <1>8, <1>9, <1>10, Zenon
        DEF ResetStep

LEMMA TaskType == TypeOK /\ TaskStep => TypeOK'
<1> SUFFICES ASSUME TypeOK, TaskStep PROVE TypeOK' OBVIOUS
<1> USE DEF TypeOK, Steps, Stores, stores, boot
<1>1. CASE HistoryStarted BY <1>1 DEF HistoryStarted
<1>2. ASSUME NEW ok \in BOOLEAN, RetireSaveEnd(ok) PROVE TypeOK'
  <2>1. retire' \in {"data", "erased"} BY <1>2 DEF RetireSaveEnd
  <2>2. saving' \in BOOLEAN BY <1>2, Zenon DEF RetireSaveEnd
  <2> QED BY <1>2, <2>1, <2>2 DEF RetireSaveEnd
<1>3. CASE SaveSettings BY <1>3 DEF SaveSettings
<1>4. CASE AppendHistory BY <1>4 DEF AppendHistory
<1>5. CASE RetireSaveBegin BY <1>5 DEF RetireSaveBegin
<1>6. ASSUME NEW s \in Sites, WantRestart(s) PROVE TypeOK'
  BY <1>6 DEF WantRestart
<1>7. ASSUME NEW s \in Sites, LastCheck(s) PROVE TypeOK'
  BY <1>7 DEF LastCheck
<1> QED BY <1>1, <1>2, <1>3, <1>4, <1>5, <1>6, <1>7, Zenon DEF TaskStep

-----------------------------------------------------------------------------
(* The rest of the invariant.                                               *)
LEMMA ResetIInv == IInv /\ ResetStep => IInv'
<1> SUFFICES ASSUME IInv, ResetStep PROVE IInv' OBVIOUS
<1>0. TypeOK' BY ResetType DEF IInv
<1> SUFFICES StepInv' /\ GoneInv' /\ RaceInv' BY <1>0 DEF IInv
<1> USE DEF IInv, TypeOK, StepInv, GoneInv, RaceInv, stores, boot
<1>1. CASE Fire BY <1>1 DEF Fire
<1>2. CASE LatchNvs BY <1>2 DEF LatchNvs
<1>3. CASE EraseSome BY <1>3 DEF EraseSome
<1>4. CASE Forget BY <1>4 DEF Forget
<1>5. ASSUME NEW ok \in BOOLEAN, NvsErased(ok) PROVE StepInv' /\ GoneInv' /\ RaceInv'
  BY <1>5 DEF NvsErased, LatchAfter, Erased
<1>6. ASSUME NEW ok \in BOOLEAN, WifiErased(ok) PROVE StepInv' /\ GoneInv' /\ RaceInv'
  BY <1>6 DEF WifiErased, NextStep, Erased
<1>7. ASSUME NEW ok \in BOOLEAN, HistErased(ok) PROVE StepInv' /\ GoneInv' /\ RaceInv'
  BY <1>7 DEF HistErased, NextStep, Erased
<1>8. ASSUME NEW ok \in BOOLEAN, CrashErased(ok) PROVE StepInv' /\ GoneInv' /\ RaceInv'
  BY <1>8 DEF CrashErased, NextStep, Erased
<1>9. ASSUME NEW ok \in BOOLEAN, RetireErased(ok) PROVE StepInv' /\ GoneInv' /\ RaceInv'
  BY <1>9 DEF RetireErased, AfterRetire, NextStep, Erased
<1>10. ASSUME NEW ok \in BOOLEAN, WriteSeed(ok) PROVE StepInv' /\ GoneInv' /\ RaceInv'
  BY <1>10 DEF WriteSeed
<1> QED BY <1>1, <1>2, <1>3, <1>4, <1>5, <1>6, <1>7, <1>8, <1>9, <1>10, Zenon
        DEF ResetStep

LEMMA TaskIInv == IInv /\ TaskStep => IInv'
<1> SUFFICES ASSUME IInv, TaskStep PROVE IInv' OBVIOUS
<1>0. TypeOK' BY TaskType DEF IInv
<1> SUFFICES StepInv' /\ GoneInv' /\ RaceInv' BY <1>0 DEF IInv
<1> USE DEF IInv, TypeOK, StepInv, GoneInv, RaceInv, stores, boot
<1>1. CASE HistoryStarted BY <1>1 DEF HistoryStarted
<1>2. ASSUME NEW ok \in BOOLEAN, RetireSaveEnd(ok) PROVE StepInv' /\ GoneInv' /\ RaceInv'
  BY <1>2 DEF RetireSaveEnd
<1>3. CASE SaveSettings BY <1>3 DEF SaveSettings, SetterAllowed
<1>4. CASE AppendHistory BY <1>4 DEF AppendHistory
<1>5. CASE RetireSaveBegin BY <1>5 DEF RetireSaveBegin
<1>6. ASSUME NEW s \in Sites, WantRestart(s) PROVE StepInv' /\ GoneInv' /\ RaceInv'
  BY <1>6 DEF WantRestart
<1>7. ASSUME NEW s \in Sites, LastCheck(s) PROVE StepInv' /\ GoneInv' /\ RaceInv'
  BY <1>7 DEF LastCheck, Held
<1> QED BY <1>1, <1>2, <1>3, <1>4, <1>5, <1>6, <1>7, Zenon DEF TaskStep

-----------------------------------------------------------------------------
(* The strengthened invariant holds in every reachable state of             *)
(* recovery_button.cpp and the tasks beside it.                             *)
THEOREM ResetInductive == Spec => []IInv
<1>1. IInv /\ [Next]_vars => IInv'
  <2> SUFFICES ASSUME IInv, [Next]_vars PROVE IInv' OBVIOUS
  <2>1. CASE Next BY <2>1, NextSplit, RestartIInv, ResetIInv, TaskIInv
  <2>2. CASE UNCHANGED vars
    BY <2>2 DEF vars, IInv, TypeOK, StepInv, GoneInv, RaceInv, stores
  <2> QED BY <2>1, <2>2
<1> QED BY InitIInv, <1>1, PTL DEF Spec

(* Every reachable state is well typed.                                     *)
THEOREM ResetTypeCorrect == Spec => []TypeOK
<1>1. IInv => TypeOK BY DEF IInv
<1> QED BY ResetInductive, <1>1, PTL

(* factory_reset restarts the board only with every store erased.           *)
THEOREM OwnRestartAlwaysComplete == Spec => []OwnRestartComplete
<1>1. IInv => OwnRestartComplete BY DEF IInv, StepInv, OwnRestartComplete
<1> QED BY ResetInductive, <1>1, PTL

(* What an attempt has erased is not refilled in the same boot, while the   *)
(* latch was not given back.                                                *)
THEOREM GoneAlwaysStaysGone == Spec => []GoneStaysGone
<1>1. IInv => GoneStaysGone BY DEF IInv, GoneInv, GoneStaysGone
<1> QED BY ResetInductive, <1>1, PTL

(* No other restart is decided behind the latch.                            *)
THEOREM OthersAlwaysHeld == Spec => []OthersHeld
<1>1. IInv => OthersHeld BY DEF IInv, GoneInv, RaceInv, OthersHeld
<1> QED BY ResetInductive, <1>1, PTL

(* The reset is whole, or it is not taken for one: the three above.         *)
THEOREM ResetAlwaysExact == Spec => []ResetExact
  BY OwnRestartAlwaysComplete, GoneAlwaysStaysGone, OthersAlwaysHeld, PTL DEF ResetExact

-----------------------------------------------------------------------------
(* Retained topics: the inductive invariant *)

Topics   == Configs \cup {State, Retired}
Evidence == [id : 0..2, ok : BOOLEAN]
Known    == Profiles \cup {"none"}
Places   == {"top", "cleanup", "pending", "periodic", "source", "announce", "x10a",
             "save", "emit", "state", "write"}

Configurations == [profile : Profiles \cup {"auto"}, modbus : BOOLEAN, owes : BOOLEAN]
Cycles == [pc : Places, prof : Profiles \cup {"auto"}, held : BOOLEAN, loaded : BOOLEAN,
           record : Known, discovered : Known, announced : Known \cup {"auto"},
           retired : Known, known : BOOLEAN, cleaned : BOOLEAN, announce : BOOLEAN]
Jobs       == [target : Known, now : {"previous", "target"}, todo : SUBSET Configs]
Deliveries == [owner : {"none", "profile", "periodic"}, id : 0..2, confirmed : BOOLEAN]
Cleanups   == [client : BOOLEAN, requested : BOOLEAN, pending : BOOLEAN, active : BOOLEAN,
               step : 1..2, id : 0..2, ended : BOOLEAN]
Tombstones == [topic : Topics, id : 1..2, done : BOOLEAN]
Rings      == [seen : Seq(Evidence), lost : BOOLEAN]

RetShape ==
  /\ config \in Configurations /\ record \in Known /\ task \in Cycles /\ job \in Jobs
  /\ delivery \in Deliveries /\ cleanup \in Cleanups
  /\ periodic \in {"no", "once", "again"} /\ link \in {"up", "down", "stopped"}
  /\ outbox \subseteq Tombstones /\ ring \in Rings /\ broker \subseteq Topics

(* The topic a cursor waits for: of the source's cleanup, of the profile    *)
(* cutover, or of the periodic pass.                                        *)
Tombstone(d, c, j) ==
  IF c.id # 0 THEN StepTopics[c.step]
  ELSE IF d.owner = "profile" THEN Head1(j.todo) ELSE Retired

(* One tombstone, of the one cursor that waits for it: it is queued, or its *)
(* evidence is in the ring, or that was lost.                               *)
HeardOf(id, o, r) ==
  \/ \E item \in o : item.id = id
  \/ \E i \in DOMAIN r.seen : r.seen[i].id = id
  \/ r.lost
Slot(d, c, o, r, j) ==
  /\ ~(d.id # 0 /\ c.id # 0)
  /\ d.owner = "none" => d.id = 0 /\ ~d.confirmed
  /\ d.confirmed => d.id = 0
  /\ d.owner = "profile" => j.todo # {}
  /\ \A item \in o : item.id \in {d.id, c.id} /\ item.topic = Tombstone(d, c, j)
  /\ \A item, sibling \in o : item = sibling
  /\ \A i \in DOMAIN r.seen : r.seen[i].id \in {d.id, c.id, 0}
  /\ \A i \in DOMAIN r.seen, item \in o : r.seen[i].id # item.id
  /\ d.id # 0 => HeardOf(d.id, o, r)
  /\ c.id # 0 => HeardOf(c.id, o, r)

(* What was deleted is gone: by a tombstone on its way back, by its         *)
(* evidence, and by what the cursor has taken from it.                      *)
Gone(d, c, o, r, j, b) ==
  /\ \A item \in o : item.done => item.topic \notin b
  /\ \A i \in DOMAIN r.seen : r.seen[i].id # 0 /\ r.seen[i].ok => Tombstone(d, c, j) \notin b
  /\ d.confirmed /\ d.owner = "profile" => Head1(j.todo) \notin b

SlotInv == Slot(delivery, cleanup, outbox, ring, job) /\ Len(ring.seen) <= RingCap
ForgottenInv == Gone(delivery, cleanup, outbox, ring, job, broker)

(* The cutover leaves nothing of the profile before it.                     *)
Left == broker \cap Configs
RowsOf(p) == IF p = "none" THEN {} ELSE Rows[p]
CutInv ==
  /\ Left \subseteq RowsOf(record)
  /\ IF task.loaded THEN task.record = record /\ task.discovered = record
     ELSE task.retired = "none" /\ job = NoJob
  /\ job.target = "none" => job = NoJob /\ (task.retired # "none" => Left \subseteq Rows[task.retired])
  /\ job.target # "none" => Left \subseteq Rows[job.target] \cup (IF job.now = "previous" THEN job.todo ELSE {})
  /\ task.pc \in {"save", "emit"} => task.loaded /\ job = NoJob /\ task.retired # "none"
  /\ task.pc = "emit" => task.retired = record

(* A source's state is written only by a cycle that does not clean it up.   *)
AfterSource == {"announce", "x10a", "save", "emit", "state", "write"}
CleanInv ==
  /\ cleanup.id # 0 => cleanup.active
  /\ cleanup.active /\ task.pc \in AfterSource => task.held
  /\ task.pc = "write" => ~task.held /\ ~task.cleaned
  /\ cleanup.active /\ cleanup.step = 2 => State \notin broker
  /\ State \in broker /\ ~config.modbus =>
       ~task.cleaned \/ cleanup.requested \/ cleanup.pending \/ cleanup.active \/ config.owes

RetIInv == RetShape /\ SlotInv /\ ForgottenInv /\ CutInv /\ CleanInv

-----------------------------------------------------------------------------
(* Operators *)

LEMMA HeadIn == ASSUME NEW S, S # {} PROVE Head1(S) \in S
BY DEF Head1

LEMMA Apart == State \notin Configs /\ Retired \notin Configs /\ State # Retired
BY RetAssumption DEF State, Retired, Configs

LEMMA RowsIn ==
  ASSUME NEW p \in Profiles
  PROVE  Rows[p] \subseteq Configs /\ Withheld[p] \subseteq Rows[p]
BY RetAssumption DEF Configs

LEMMA StepTopicsAre == StepTopics[1] = State /\ StepTopics[2] = Retired /\ Len(StepTopics) = 2
BY DEF StepTopics

LEMMA NextIdIn == NextId \in 1..2
BY DEF NextId

LEMMA DrainedIn ==
  ASSUME RetShape
  PROVE  /\ DrainedDelivery \in Deliveries /\ DrainedCleanup \in Cleanups
         /\ DrainedDelivery.owner = delivery.owner
         /\ DrainedDelivery.id = (IF Reported(delivery.id, TRUE) \/ Reported(delivery.id, FALSE)
                                  THEN 0 ELSE delivery.id)
         /\ DrainedDelivery.confirmed <=> (delivery.confirmed \/ Reported(delivery.id, TRUE))
         /\ DrainedCleanup.id = (IF Reported(cleanup.id, TRUE) \/ Reported(cleanup.id, FALSE)
                                 THEN 0 ELSE cleanup.id)
         /\ DrainedCleanup.active <=> (cleanup.active /\ ~Completes)
         /\ DrainedCleanup.step = (IF Completes THEN 1 ELSE IF Advances THEN 2 ELSE cleanup.step)
         /\ DrainedCleanup.requested <=> cleanup.requested
         /\ DrainedCleanup.pending <=> cleanup.pending
<1>1. delivery \in Deliveries /\ cleanup \in Cleanups BY DEF RetShape
<1>0. 0 \in 0..2 /\ 1 \in 1..2 /\ 2 \in 1..2 OBVIOUS
<1>2. DrainedDelivery \in Deliveries
  <2>1. CASE Reported(delivery.id, TRUE)
    <3>1. DrainedDelivery = [delivery EXCEPT !.id = 0, !.confirmed = TRUE]
      BY <2>1 DEF DrainedDelivery
    <3> QED BY <3>1, <1>1, <1>0 DEF Deliveries
  <2>2. CASE ~Reported(delivery.id, TRUE) /\ Reported(delivery.id, FALSE)
    BY <1>1, <2>2 DEF DrainedDelivery, Deliveries
  <2>3. CASE ~Reported(delivery.id, TRUE) /\ ~Reported(delivery.id, FALSE)
    BY <1>1, <2>3 DEF DrainedDelivery, Deliveries
  <2> QED BY <2>1, <2>2, <2>3
<1>3. /\ DrainedDelivery.owner = delivery.owner
      /\ DrainedDelivery.id = (IF Reported(delivery.id, TRUE) \/ Reported(delivery.id, FALSE)
                                  THEN 0 ELSE delivery.id)
      /\ DrainedDelivery.confirmed <=> (delivery.confirmed \/ Reported(delivery.id, TRUE))
  BY <1>1 DEF DrainedDelivery, Deliveries
<1>4. Advances => cleanup.step = 1 \/ Completes
  BY <1>1, StepTopicsAre DEF Completes, Cleanups
<1>5. Advances <=> Reported(cleanup.id, TRUE) BY DEF Advances
<1>6. Completes => Advances BY DEF Completes
<1>7. CASE Completes
  <2>1. DrainedCleanup = [cleanup EXCEPT !.id = 0, !.step = 1, !.active = FALSE, !.ended = TRUE]
    BY <1>7 DEF DrainedCleanup
  <2>2. DrainedCleanup \in Cleanups BY <2>1, <1>1, <1>0 DEF Cleanups
  <2>3. DrainedCleanup.id = 0 /\ DrainedCleanup.step = 1 /\ DrainedCleanup.active = FALSE
        /\ DrainedCleanup.requested = cleanup.requested /\ DrainedCleanup.pending = cleanup.pending
    BY <2>1, <1>1 DEF Cleanups
  <2>6. DrainedCleanup.id = (IF Reported(cleanup.id, TRUE) \/ Reported(cleanup.id, FALSE)
                             THEN 0 ELSE cleanup.id)
    BY <2>2, <2>3, <1>5, <1>6, <1>7
  <2>7. DrainedCleanup.step = (IF Completes THEN 1 ELSE IF Advances THEN 2 ELSE cleanup.step)
    BY <2>2, <2>3, <1>5, <1>6, <1>7
  <2>8. DrainedCleanup.active <=> (cleanup.active /\ ~Completes)
    BY <2>2, <2>3, <1>5, <1>6, <1>7, Zenon
  <2>9. (DrainedCleanup.requested <=> cleanup.requested) /\ (DrainedCleanup.pending <=> cleanup.pending)
    BY <2>2, <2>3, Zenon
  <2> QED BY <2>2, <2>6, <2>7, <2>8, <2>9, <1>2, <1>3, Zenon
<1>8. CASE Advances /\ ~Completes
  <2>1. DrainedCleanup = [cleanup EXCEPT !.id = 0, !.step = @ + 1] /\ cleanup.step = 1
    BY <1>8, <1>4 DEF DrainedCleanup
  <2>5. DrainedCleanup = [cleanup EXCEPT !.id = 0, !.step = 2] BY <2>1
  <2>2. DrainedCleanup \in Cleanups BY <2>5, <1>1, <1>0 DEF Cleanups
  <2>3. DrainedCleanup.id = 0 /\ DrainedCleanup.step = cleanup.step + 1
        /\ DrainedCleanup.active = cleanup.active
        /\ DrainedCleanup.requested = cleanup.requested /\ DrainedCleanup.pending = cleanup.pending
    BY <2>1, <1>1 DEF Cleanups
  <2>4. DrainedCleanup.step = 2 BY <2>1, <2>3
  <2>6. DrainedCleanup.id = (IF Reported(cleanup.id, TRUE) \/ Reported(cleanup.id, FALSE)
                             THEN 0 ELSE cleanup.id)
    BY <2>2, <2>3, <2>4, <1>5, <1>8
  <2>7. DrainedCleanup.step = (IF Completes THEN 1 ELSE IF Advances THEN 2 ELSE cleanup.step)
    BY <2>2, <2>3, <2>4, <1>5, <1>8
  <2>8. DrainedCleanup.active <=> (cleanup.active /\ ~Completes)
    BY <2>2, <2>3, <2>4, <1>5, <1>8, Zenon
  <2>9. (DrainedCleanup.requested <=> cleanup.requested) /\ (DrainedCleanup.pending <=> cleanup.pending)
    BY <2>2, <2>3, <2>4, Zenon
  <2> QED BY <2>2, <2>6, <2>7, <2>8, <2>9, <1>2, <1>3, Zenon
<1>9. CASE ~Advances /\ Reported(cleanup.id, FALSE)
  <2>1. DrainedCleanup = [cleanup EXCEPT !.id = 0]
    BY <1>9, <1>6 DEF DrainedCleanup
  <2>2. DrainedCleanup \in Cleanups BY <2>1, <1>1, <1>0 DEF Cleanups
  <2>3. DrainedCleanup.id = 0 /\ DrainedCleanup.step = cleanup.step
        /\ DrainedCleanup.active = cleanup.active
        /\ DrainedCleanup.requested = cleanup.requested /\ DrainedCleanup.pending = cleanup.pending
    BY <2>1, <1>1 DEF Cleanups
  <2>6. DrainedCleanup.id = (IF Reported(cleanup.id, TRUE) \/ Reported(cleanup.id, FALSE)
                             THEN 0 ELSE cleanup.id)
    BY <2>2, <2>3, <1>5, <1>6, <1>9
  <2>7. DrainedCleanup.step = (IF Completes THEN 1 ELSE IF Advances THEN 2 ELSE cleanup.step)
    BY <2>2, <2>3, <1>5, <1>6, <1>9
  <2>8. DrainedCleanup.active <=> (cleanup.active /\ ~Completes)
    BY <2>2, <2>3, <1>5, <1>6, <1>9, Zenon
  <2>9. (DrainedCleanup.requested <=> cleanup.requested) /\ (DrainedCleanup.pending <=> cleanup.pending)
    BY <2>2, <2>3, Zenon
  <2> QED BY <2>2, <2>6, <2>7, <2>8, <2>9, <1>2, <1>3, Zenon
<1>10. CASE ~Advances /\ ~Reported(cleanup.id, FALSE)
  <2>1. DrainedCleanup = cleanup BY <1>10, <1>6 DEF DrainedCleanup
  <2>6. DrainedCleanup.id = (IF Reported(cleanup.id, TRUE) \/ Reported(cleanup.id, FALSE)
                             THEN 0 ELSE cleanup.id)
    BY <2>1, <1>1, <1>5, <1>6, <1>10
  <2>7. DrainedCleanup.step = (IF Completes THEN 1 ELSE IF Advances THEN 2 ELSE cleanup.step)
    BY <2>1, <1>1, <1>5, <1>6, <1>10
  <2>8. DrainedCleanup.active <=> (cleanup.active /\ ~Completes)
    BY <2>1, <1>1, <1>5, <1>6, <1>10, Zenon
  <2>9. (DrainedCleanup.requested <=> cleanup.requested) /\ (DrainedCleanup.pending <=> cleanup.pending)
    BY <2>1, <1>1, Zenon
  <2> QED BY <2>1, <1>1, <2>6, <2>7, <2>8, <2>9, <1>2, <1>3, Zenon
<1> QED BY <1>7, <1>8, <1>9, <1>10

(* Evidence in the ring is of the tombstone in flight, which is then no     *)
(* longer queued: drained, the slot is as it was.                           *)
Emptied == [ring EXCEPT !.seen = <<>>]
LEMMA DrainedSlot ==
  ASSUME RetShape, SlotInv, ForgottenInv
  PROVE  /\ Slot(DrainedDelivery, DrainedCleanup, outbox, Emptied, job)
         /\ Gone(DrainedDelivery, DrainedCleanup, outbox, Emptied, job, broker)
         /\ Reported(cleanup.id, TRUE) => StepTopics[cleanup.step] \notin broker
<1> DEFINE d == DrainedDelivery  c == DrainedCleanup
<1>1. delivery \in Deliveries /\ cleanup \in Cleanups /\ outbox \subseteq Tombstones
      /\ ring \in Rings /\ job \in Jobs
  BY DEF RetShape
<1>2. Slot(delivery, cleanup, outbox, ring, job) BY DEF SlotInv
<1>3. Gone(delivery, cleanup, outbox, ring, job, broker) BY DEF ForgottenInv
<1>4. /\ d.owner = delivery.owner
      /\ d.id = (IF Reported(delivery.id, TRUE) \/ Reported(delivery.id, FALSE)
                                  THEN 0 ELSE delivery.id)
      /\ d.confirmed <=> (delivery.confirmed \/ Reported(delivery.id, TRUE))
      /\ c.id = (IF Reported(cleanup.id, TRUE) \/ Reported(cleanup.id, FALSE)
                                 THEN 0 ELSE cleanup.id)
      /\ c.step = (IF Completes THEN 1 ELSE IF Advances THEN 2 ELSE cleanup.step)
  BY DrainedIn
<1> HIDE DEF d, c
<1>5. Emptied.seen = <<>> /\ Emptied.lost = ring.lost /\ DOMAIN Emptied.seen = {}
  BY <1>1 DEF Emptied, Rings
<1>6. \A i \in DOMAIN ring.seen : ring.seen[i] \in Evidence
  BY <1>1 DEF Rings
<1>7. \A id : /\ Reported(id, TRUE) =>
                 id # 0 /\ \E i \in DOMAIN ring.seen : ring.seen[i].id = id /\ ring.seen[i].ok
              /\ Reported(id, FALSE) =>
                 id # 0 /\ \E i \in DOMAIN ring.seen : ring.seen[i].id = id
  BY DEF Reported
<1>8. \A id \in 1..2 : (\E i \in DOMAIN ring.seen : ring.seen[i].id = id)
                         => Reported(id, TRUE) \/ Reported(id, FALSE)
  <2> SUFFICES ASSUME NEW id \in 1..2, NEW i \in DOMAIN ring.seen, ring.seen[i].id = id
               PROVE  Reported(id, TRUE) \/ Reported(id, FALSE) OBVIOUS
  <2>1. id # 0 /\ ring.seen[i] = [id |-> id, ok |-> ring.seen[i].ok]
        /\ ring.seen[i].ok \in BOOLEAN
    BY <1>6 DEF Evidence
  <2>2. CASE ring.seen[i].ok = TRUE BY <2>1, <2>2, Zenon DEF Reported
  <2>3. CASE ring.seen[i].ok = FALSE BY <2>1, <2>3, Zenon DEF Reported
  <2> QED BY <2>1, <2>2, <2>3
<1>9. \A item \in outbox : ~Reported(item.id, TRUE) /\ ~Reported(item.id, FALSE)
  <2>1. \A i \in DOMAIN ring.seen, item \in outbox : ring.seen[i].id # item.id
    BY <1>2 DEF Slot
  <2> SUFFICES ASSUME NEW item \in outbox PROVE ~Reported(item.id, TRUE) /\ ~Reported(item.id, FALSE)
    OBVIOUS
  <2>2. ~\E i \in DOMAIN ring.seen : ring.seen[i].id = item.id BY <2>1, Zenon
  <2> QED BY <2>2, <1>7, Zenon
<1>10. \A item \in outbox : item.id \in 1..2
  BY <1>1 DEF Tombstones
<1>11. Completes => Advances BY DEF Completes
<1>12. Advances <=> Reported(cleanup.id, TRUE) BY DEF Advances
<1>13. delivery.id \in 0..2 /\ cleanup.id \in 0..2 /\ delivery.confirmed \in BOOLEAN
  BY <1>1 DEF Deliveries, Cleanups
<1>14. ASSUME NEW item \in outbox
       PROVE  /\ item.id \in {d.id, c.id} /\ item.topic = Tombstone(d, c, job)
  <2>1. item.id \in {delivery.id, cleanup.id} /\ item.topic = Tombstone(delivery, cleanup, job)
        /\ item.id # 0 /\ ~Reported(item.id, TRUE) /\ ~Reported(item.id, FALSE)
        /\ ~(delivery.id # 0 /\ cleanup.id # 0)
    <3>1. \A x \in outbox : x.id \in {delivery.id, cleanup.id}
                              /\ x.topic = Tombstone(delivery, cleanup, job)
      BY <1>2, Zenon DEF Slot
    <3>2. ~(delivery.id # 0 /\ cleanup.id # 0) BY <1>2 DEF Slot
    <3>3. item.id # 0 BY <1>10
    <3> QED BY <3>1, <3>2, <3>3, <1>9, Zenon
  <2>2. CASE item.id = cleanup.id
    <3>1. c.id = cleanup.id /\ c.step = cleanup.step
      BY <2>1, <2>2, <1>4, <1>11, <1>12
    <3> QED BY <3>1, <2>1, <2>2, <1>4 DEF Tombstone
  <2>3. CASE item.id = delivery.id
    <3>1. d.id = delivery.id /\ cleanup.id = 0 /\ c.id = 0
      BY <2>1, <2>3, <1>4
    <3> QED BY <3>1, <2>1, <2>3, <1>4 DEF Tombstone
  <2> QED BY <2>1, <2>2, <2>3
<1>15. d.id # 0 => d.id = delivery.id /\ ~Reported(delivery.id, TRUE) /\ ~Reported(delivery.id, FALSE)
  BY <1>4
<1>16. c.id # 0 => c.id = cleanup.id /\ ~Reported(cleanup.id, TRUE) /\ ~Reported(cleanup.id, FALSE)
  BY <1>4
<1>17. d.id # 0 => HeardOf(d.id, outbox, Emptied)
  <2> SUFFICES ASSUME d.id # 0 PROVE HeardOf(d.id, outbox, Emptied) OBVIOUS
  <2>1. HeardOf(delivery.id, outbox, ring) BY <1>15, <1>2 DEF Slot
  <2>2. delivery.id \in 1..2 BY <1>15, <1>13
  <2>3. ~\E i \in DOMAIN ring.seen : ring.seen[i].id = delivery.id
    BY <2>2, <1>15, <1>8, Zenon
  <2>4. (\E item \in outbox : item.id = delivery.id) \/ ring.lost
    BY <2>1, <2>3, Zenon DEF HeardOf
  <2> QED BY <2>4, <1>15, <1>5, Zenon DEF HeardOf
<1>18. c.id # 0 => HeardOf(c.id, outbox, Emptied)
  <2> SUFFICES ASSUME c.id # 0 PROVE HeardOf(c.id, outbox, Emptied) OBVIOUS
  <2>1. HeardOf(cleanup.id, outbox, ring) BY <1>16, <1>2 DEF Slot
  <2>2. cleanup.id \in 1..2 BY <1>16, <1>13
  <2>3. ~\E i \in DOMAIN ring.seen : ring.seen[i].id = cleanup.id
    BY <2>2, <1>16, <1>8, Zenon
  <2>4. (\E item \in outbox : item.id = cleanup.id) \/ ring.lost
    BY <2>1, <2>3, Zenon DEF HeardOf
  <2> QED BY <2>4, <1>16, <1>5, Zenon DEF HeardOf
<1>19. d.confirmed => d.id = 0
  BY <1>2, <1>4, <1>13 DEF Slot
<1>20. d.owner = "none" => d.id = 0 /\ ~d.confirmed
  BY <1>2, <1>4, <1>7 DEF Slot
<1>21. \A item, sibling \in outbox : item = sibling
  BY <1>2 DEF Slot
<1>22. Slot(d, c, outbox, Emptied, job)
  <2>1. ~(d.id # 0 /\ c.id # 0) BY <1>2, <1>15, <1>16 DEF Slot
  <2>2. d.owner = "profile" => job.todo # {} BY <1>2, <1>4 DEF Slot
  <2> QED BY <2>1, <2>2, <1>14, <1>17, <1>18, <1>19, <1>20, <1>21, <1>5 DEF Slot
<1>23. Reported(delivery.id, TRUE) /\ delivery.owner = "profile" => Head1(job.todo) \notin broker
  <2> SUFFICES ASSUME Reported(delivery.id, TRUE), delivery.owner = "profile"
               PROVE  Head1(job.todo) \notin broker OBVIOUS
  <2>1. cleanup.id = 0 BY <1>7, <1>2 DEF Slot
  <2>2. Tombstone(delivery, cleanup, job) = Head1(job.todo) BY <2>1 DEF Tombstone
  <2>3. PICK i \in DOMAIN ring.seen : ring.seen[i].id = delivery.id /\ ring.seen[i].ok
    BY <1>7, Zenon
  <2>4. ring.seen[i].id # 0 /\ ring.seen[i].ok BY <2>3, <1>7
  <2> QED BY <2>2, <2>4, <1>3, Zenon DEF Gone
<1>24. Gone(d, c, outbox, Emptied, job, broker)
  BY <1>3, <1>4, <1>5, <1>23 DEF Gone
<1>25. Reported(cleanup.id, TRUE) => StepTopics[cleanup.step] \notin broker
  <2> SUFFICES ASSUME Reported(cleanup.id, TRUE)
               PROVE  StepTopics[cleanup.step] \notin broker OBVIOUS
  <2>1. Tombstone(delivery, cleanup, job) = StepTopics[cleanup.step] BY <1>7 DEF Tombstone
  <2>2. PICK i \in DOMAIN ring.seen : ring.seen[i].id = cleanup.id /\ ring.seen[i].ok
    BY <1>7, Zenon
  <2>3. ring.seen[i].id # 0 /\ ring.seen[i].ok BY <2>2, <1>7
  <2> QED BY <2>1, <2>3, <1>3, Zenon DEF Gone
<1> QED BY <1>22, <1>24, <1>25 DEF d, c

LEMMA EmptiedIn ==
  ASSUME RetShape
  PROVE  Emptied \in Rings /\ Emptied.seen = <<>> /\ DOMAIN Emptied.seen = {}
         /\ Len(Emptied.seen) = 0 /\ Emptied.lost = ring.lost
<1>1. ring \in Rings BY DEF RetShape
<1>2. <<>> \in Seq(Evidence) /\ Len(<<>>) = 0 /\ DOMAIN <<>> = {} OBVIOUS
<1>3. Emptied.seen = <<>> /\ Emptied.lost = ring.lost BY <1>1 DEF Emptied, Rings
<1>4. Emptied = [seen |-> <<>>, lost |-> ring.lost] BY <1>1 DEF Emptied, Rings
<1>5. ring.lost \in BOOLEAN BY <1>1 DEF Rings
<1>6. Emptied \in Rings BY <1>2, <1>4, <1>5 DEF Rings
<1> QED BY <1>2, <1>3, <1>6

(* A free slot has nothing queued.                                          *)
LEMMA FreeSlot ==
  ASSUME RetShape, NEW d, NEW c, NEW r, NEW j, Slot(d, c, outbox, r, j), d.id = 0, c.id = 0
  PROVE  outbox = {} /\ \A i \in DOMAIN r.seen : r.seen[i].id = 0
<1>1. \A item \in outbox : item.id \in {d.id, c.id} BY DEF Slot
<1>2. \A item \in outbox : item.id # 0 BY DEF RetShape, Tombstones
<1>3. \A i \in DOMAIN r.seen : r.seen[i].id \in {d.id, c.id, 0} BY DEF Slot
<1> QED BY <1>1, <1>2, <1>3

(* A tombstone just queued is all there is, and has deleted nothing yet.    *)
LEMMA QueuedSlot ==
  ASSUME outbox = {}, NEW d, NEW c, NEW r, NEW j, NEW b, NEW topic \in Topics,
         \A i \in DOMAIN r.seen : r.seen[i].id = 0,
         (d.id = NextId /\ c.id = 0) \/ (d.id = 0 /\ c.id = NextId),
         ~d.confirmed, d.owner = "none" => d.id = 0, d.owner = "profile" => j.todo # {},
         Tombstone(d, c, j) = topic
  PROVE  /\ Slot(d, c, Enqueued(topic), r, j) /\ Gone(d, c, Enqueued(topic), r, j, b)
         /\ Enqueued(topic) \subseteq Tombstones /\ Enqueued(topic) # {}
<1> DEFINE new == [topic |-> topic, id |-> NextId, done |-> FALSE]
<1>1. Enqueued(topic) = {new} BY DEF Enqueued
<1>2. NextId \in 1..2 /\ NextId # 0 BY NextIdIn
<1>3. new.id = NextId /\ new.topic = topic /\ new.done = FALSE OBVIOUS
<1>4. new \in Tombstones BY <1>2 DEF Tombstones
<1> HIDE DEF new
<1>5. \A item \in Enqueued(topic) : item = new BY <1>1
<1>6. HeardOf(NextId, Enqueued(topic), r) BY <1>1, <1>3 DEF HeardOf
<1>7. \A item, sibling \in Enqueued(topic) : item = sibling BY <1>5
<1>8. \A item \in Enqueued(topic) : item.id \in {d.id, c.id} /\ item.topic = Tombstone(d, c, j)
  BY <1>5, <1>3
<1>9. \A i \in DOMAIN r.seen, item \in Enqueued(topic) : r.seen[i].id # item.id
  BY <1>5, <1>3, <1>2
<1>10. ~(d.id # 0 /\ c.id # 0) /\ (d.id # 0 => d.id = NextId) /\ (c.id # 0 => c.id = NextId)
  BY <1>2
<1>11. Slot(d, c, Enqueued(topic), r, j)
  BY <1>6, <1>7, <1>8, <1>9, <1>10 DEF Slot
<1>12. Gone(d, c, Enqueued(topic), r, j, b)
  BY <1>5, <1>3 DEF Gone
<1> QED BY <1>11, <1>12, <1>1, <1>4

(* What a stop forgets.                                                     *)
LEMMA ForgottenSlot ==
  ASSUME RetShape, SlotInv, ForgottenInv, Forgotten, job' = job, broker' = broker
  PROVE  /\ delivery' \in Deliveries /\ cleanup' \in Cleanups /\ outbox' \subseteq Tombstones
         /\ ring' \in Rings /\ SlotInv' /\ ForgottenInv'
         /\ cleanup' = [cleanup EXCEPT !.id = 0]
<1>1. delivery \in Deliveries /\ cleanup \in Cleanups /\ RingCap \in Nat
  BY RetAssumption DEF RetShape
<1>2. outbox' = {} /\ ring' = NoEvidence /\ delivery' = [delivery EXCEPT !.id = 0]
      /\ cleanup' = [cleanup EXCEPT !.id = 0]
  BY DEF Forgotten
<1>3. delivery' \in Deliveries /\ delivery'.id = 0 /\ delivery'.owner = delivery.owner
      /\ delivery'.confirmed = delivery.confirmed
  BY <1>1, <1>2 DEF Deliveries
<1>4. cleanup' \in Cleanups /\ cleanup'.id = 0
  BY <1>1, <1>2 DEF Cleanups
<1>5. ring' \in Rings /\ ring'.seen = <<>> /\ DOMAIN ring'.seen = {} /\ Len(ring'.seen) = 0
  BY <1>2 DEF Rings, NoEvidence
<1>6. Slot(delivery, cleanup, outbox, ring, job) BY DEF SlotInv
<1>7. Slot(delivery', cleanup', outbox', ring', job')
  <2>1. delivery.owner = "none" => ~delivery.confirmed BY <1>6 DEF Slot
  <2>2. delivery.owner = "profile" => job.todo # {} BY <1>6 DEF Slot
  <2> QED BY <2>1, <2>2, <1>2, <1>3, <1>4, <1>5 DEF Slot
<1>8. Gone(delivery, cleanup, outbox, ring, job, broker) BY DEF ForgottenInv
<1>9. Gone(delivery', cleanup', outbox', ring', job', broker')
  <2>1. delivery.confirmed /\ delivery.owner = "profile" => Head1(job.todo) \notin broker
    BY <1>8 DEF Gone
  <2> QED BY <2>1, <1>2, <1>3, <1>5 DEF Gone
<1>10. Len(ring'.seen) <= RingCap BY <1>5, <1>1
<1> QED BY <1>2, <1>3, <1>4, <1>5, <1>7, <1>9, <1>10 DEF SlotInv, ForgottenInv

-----------------------------------------------------------------------------
(* The cutover *)

JobLeft(j) == Left \subseteq Rows[j.target] \cup (IF j.now = "previous" THEN j.todo ELSE {})

(* The job a call works on: begun, its confirmed topic taken off, its       *)
(* second half entered.                                                     *)
LEMMA MovedJob ==
  ASSUME RetIInv, NEW id \in Profiles, task.loaded
  PROVE  LET j == Moved(Begun(id)) IN
         /\ j \in Jobs /\ j.target \in Profiles /\ JobLeft(j)
         /\ job.target # "none" => j.target = job.target
         /\ job.target = "none" => j.target = id
         /\ ~Confirmed("profile") /\ job.todo # {} => j = job
<1> DEFINE g == Begun(id)  j == Moved(g)
<1>1. job \in Jobs /\ task \in Cycles /\ record \in Known BY DEF RetIInv, RetShape
<1>2. job.target = "none" => job = NoJob BY DEF RetIInv, CutInv
<1>3. job.target # "none" => JobLeft(job) BY DEF RetIInv, CutInv, JobLeft
<1>4. task.discovered = record /\ Left \subseteq RowsOf(record) BY DEF RetIInv, CutInv
<1>5. Configs = UNION {Rows[p] : p \in Profiles} BY DEF Configs
<1>6. "none" \notin Profiles BY RetAssumption
<1>7. g \in Jobs /\ g.target \in Profiles /\ JobLeft(g)
      /\ g.target = (IF job.target = "none" THEN id ELSE job.target)
  <2>1. CASE job.target # "none"
    <3>1. g = job BY <2>1 DEF Begun
    <3>2. job.target \in Profiles BY <1>1, <2>1 DEF Jobs, Known
    <3> QED BY <3>1, <3>2, <1>1, <1>3, <2>1
  <2>2. CASE job.target = "none"
    <3>1. g = [target |-> id, now |-> "previous", todo |-> Previous(id)] BY <2>2 DEF Begun
    <3>2. Previous(id) \subseteq Configs
      <4>1. CASE task.discovered \in {"none", id} BY <4>1 DEF Previous
      <4>2. CASE task.discovered \notin {"none", id}
        <5>1. task.discovered \in Profiles BY <1>1, <4>2 DEF Cycles, Known
        <5> QED BY <5>1, <4>2, RowsIn DEF Previous
      <4> QED BY <4>1, <4>2
    <3>3. Left \subseteq Rows[id] \cup Previous(id)
      <4>1. CASE task.discovered \in {"none", id}
        BY <4>1, <1>4 DEF RowsOf
      <4>2. CASE task.discovered \notin {"none", id}
        BY <4>2, <1>4 DEF RowsOf, Previous
      <4> QED BY <4>1, <4>2
    <3>4. g \in Jobs BY <3>1, <3>2 DEF Jobs, Known
    <3>5. g.target = id /\ g.now = "previous" /\ g.todo = Previous(id) BY <3>1
    <3>6. JobLeft(g) BY <3>3, <3>5 DEF JobLeft
    <3> QED BY <3>4, <3>5, <3>6, <2>2
  <2> QED BY <2>1, <2>2
<1> DEFINE k == IF Confirmed("profile") THEN [g EXCEPT !.todo = @ \ {Head1(@)}] ELSE g
<1>8. Confirmed("profile") => Head1(g.todo) \notin broker
  <2> SUFFICES ASSUME Confirmed("profile") PROVE Head1(g.todo) \notin broker OBVIOUS
  <2>1. DrainedDelivery.confirmed /\ DrainedDelivery.owner = "profile" BY DEF Confirmed
  <2>2. /\ Slot(DrainedDelivery, DrainedCleanup, outbox, Emptied, job)
        /\ Gone(DrainedDelivery, DrainedCleanup, outbox, Emptied, job, broker)
    BY DrainedSlot DEF RetIInv
  <2>3. job.todo # {} /\ Head1(job.todo) \notin broker BY <2>1, <2>2 DEF Slot, Gone
  <2>4. job.target # "none" BY <2>3, <1>2 DEF NoJob
  <2> QED BY <2>3, <2>4 DEF Begun
<1>9. k \in Jobs /\ k.target = g.target /\ k.now = g.now /\ JobLeft(k)
  <2>1. CASE ~Confirmed("profile") BY <2>1, <1>7
  <2>2. CASE Confirmed("profile")
    <3>1. k = [g EXCEPT !.todo = @ \ {Head1(@)}] BY <2>2
    <3>2. k \in Jobs /\ k.target = g.target /\ k.now = g.now /\ k.todo = g.todo \ {Head1(g.todo)}
      BY <3>1, <1>7 DEF Jobs
    <3>3. Head1(g.todo) \notin Left BY <2>2, <1>8 DEF Left
    <3> QED BY <3>2, <3>3, <1>7 DEF JobLeft
  <2> QED BY <2>1, <2>2
<1>10. j = IF k.todo = {} /\ k.now = "previous"
           THEN [k EXCEPT !.now = "target", !.todo = Withheld[k.target]] ELSE k
  BY DEF Moved
<1> HIDE DEF g, k, j
<1>11. j \in Jobs /\ j.target = g.target /\ JobLeft(j)
  <2>1. CASE ~(k.todo = {} /\ k.now = "previous") BY <2>1, <1>9, <1>10
  <2>2. CASE k.todo = {} /\ k.now = "previous"
    <3>1. Withheld[k.target] \subseteq Configs BY <1>7, <1>9, RowsIn
    <3>2. j = [k EXCEPT !.now = "target", !.todo = Withheld[k.target]] BY <2>2, <1>10
    <3>3. j \in Jobs /\ j.target = k.target /\ j.now = "target" BY <3>1, <3>2, <1>9 DEF Jobs
    <3> QED BY <3>3, <2>2, <1>9 DEF JobLeft
  <2> QED BY <2>1, <2>2
<1>12. ~Confirmed("profile") /\ job.todo # {} => j = job
  <2> SUFFICES ASSUME ~Confirmed("profile"), job.todo # {} PROVE j = job OBVIOUS
  <2>1. job.target # "none" BY <1>2 DEF NoJob
  <2>2. g = job BY <2>1 DEF g, Begun
  <2>3. k = g BY DEF k
  <2> QED BY <2>2, <2>3, <1>10
<1> QED BY <1>7, <1>11, <1>12 DEF j, g

LEMMA ServedIn ==
  ASSUME task \in Cycles
  PROVE  /\ Served(task) \in Cycles
         /\ Served(task).cleaned <=> (Completes \/ task.cleaned)
         /\ Served(task).pc = task.pc /\ Served(task).held = task.held
         /\ Served(task).loaded = task.loaded /\ Served(task).record = task.record
         /\ Served(task).discovered = task.discovered /\ Served(task).retired = task.retired
<1>1. CASE Completes
  <2>1. Served(task) = [task EXCEPT !.cleaned = TRUE, !.known = FALSE] BY <1>1 DEF Served
  <2>2. Served(task) \in Cycles /\ Served(task).cleaned = TRUE
        /\ Served(task).pc = task.pc /\ Served(task).held = task.held
        /\ Served(task).loaded = task.loaded /\ Served(task).record = task.record
        /\ Served(task).discovered = task.discovered /\ Served(task).retired = task.retired
    BY <2>1 DEF Cycles
  <2> QED BY <2>2, <1>1, Zenon
<1>2. CASE ~Completes
  <2>1. Served(task) = task BY <1>2 DEF Served
  <2> QED BY <2>1, <1>2, Zenon
<1> QED BY <1>1, <1>2

LEMMA QueuedDelivery ==
  ASSUME NEW id \in 1..2
  PROVE  LET d == [NoDelivery EXCEPT !.owner = "profile", !.id = id] IN
         d \in Deliveries /\ d.owner = "profile" /\ d.id = id /\ ~d.confirmed
<1> DEFINE d == [NoDelivery EXCEPT !.owner = "profile", !.id = id]
<1>1. NoDelivery \in Deliveries /\ NoDelivery.confirmed = FALSE BY DEF NoDelivery, Deliveries
<1>2. id \in 0..2 OBVIOUS
<1>3. d \in Deliveries BY <1>1, <1>2 DEF Deliveries
<1>4. d.owner = "profile" /\ d.id = id /\ d.confirmed = NoDelivery.confirmed BY <1>1 DEF Deliveries
<1>5. ~d.confirmed BY <1>1, <1>4, Zenon
<1> QED BY <1>3, <1>4, <1>5

(* One call of the cutover.                                                 *)
LEMMA CutsSlot ==
  ASSUME RetIInv, NEW id \in Profiles, task.loaded, NEW done \in Places, NEW undone \in Places,
         Cuts(id, done, undone), broker' = broker
  PROVE  /\ delivery' \in Deliveries /\ cleanup' \in Cleanups /\ outbox' \subseteq Tombstones
         /\ ring' \in Rings /\ job' \in Jobs /\ task' \in Cycles
         /\ SlotInv' /\ ForgottenInv'
         /\ cleanup' = DrainedCleanup
         /\ task'.held = task.held /\ task'.loaded = task.loaded /\ task'.record = task.record
         /\ task'.discovered = task.discovered
         /\ task'.cleaned <=> (Completes \/ task.cleaned)
         /\ IF job' = NoJob
            THEN task'.retired \in Profiles /\ Left \subseteq Rows[task'.retired]
                 /\ task'.pc \in {done, undone}
            ELSE job'.target \in Profiles /\ JobLeft(job') /\ task'.pc = undone
<1> DEFINE j == Moved(Begun(id))
           t == [Served(task) EXCEPT !.announced = "none"]
           D == DrainedDelivery
           C == DrainedCleanup
<1>1. RetShape /\ SlotInv /\ ForgottenInv /\ task \in Cycles /\ job \in Jobs /\ ring \in Rings
      /\ outbox \subseteq Tombstones
  BY DEF RetIInv, RetShape
<1>2. D \in Deliveries /\ C \in Cleanups BY <1>1, DrainedIn
<1>3. Slot(D, C, outbox, Emptied, job) /\ Gone(D, C, outbox, Emptied, job, broker)
  BY <1>1, DrainedSlot
<1>4. /\ j \in Jobs /\ j.target \in Profiles /\ JobLeft(j)
      /\ ~Confirmed("profile") /\ job.todo # {} => j = job
  BY MovedJob
<1>5. t \in Cycles /\ t.held = task.held /\ t.loaded = task.loaded /\ t.record = task.record
      /\ t.discovered = task.discovered /\ (t.cleaned <=> (Completes \/ task.cleaned))
  <2>1. Served(task) \in Cycles /\ "none" \in Known BY <1>1, ServedIn DEF Known
  <2>2. t \in Cycles /\ t.held = Served(task).held /\ t.loaded = Served(task).loaded
        /\ t.record = Served(task).record /\ t.discovered = Served(task).discovered
        /\ t.cleaned = Served(task).cleaned
    BY <2>1 DEF Cycles
  <2> QED BY <2>2, <1>1, ServedIn, Zenon
<1>6. ring' = Emptied /\ cleanup' = C BY DEF Cuts, Drained, Emptied
<1>7. Emptied \in Rings /\ Emptied.seen = <<>> /\ DOMAIN Emptied.seen = {} /\ Len(Emptied.seen) = 0
  BY <1>1, EmptiedIn
<1>8. Len(ring'.seen) <= RingCap BY <1>6, <1>7, RetAssumption
<1>9. Confirmed("profile") <=> D.confirmed /\ D.owner = "profile" BY DEF Confirmed
<1>10. D.confirmed => D.id = 0 BY <1>3 DEF Slot
<1>11. "none" \notin Profiles BY RetAssumption
<1>12. \A item \in outbox : item.id # 0 BY <1>1 DEF Tombstones
<1>13. NoDelivery \in Deliveries /\ NoDelivery.id = 0 /\ NoDelivery.owner = "none"
       /\ ~NoDelivery.confirmed
  BY DEF NoDelivery, Deliveries
<1>14. ASSUME Confirmed("profile"), NEW jj PROVE Slot(NoDelivery, C, outbox, Emptied, jj)
                                      /\ Gone(NoDelivery, C, outbox, Emptied, jj, broker)
  <2>1. D.id = 0 BY <1>14, <1>9, <1>10
  <2>2. \A item \in outbox : item.id \in {0, C.id} /\ item.topic = Tombstone(D, C, job)
    BY <1>3, <2>1 DEF Slot
  <2>3. \A item \in outbox : item.id \in {0, C.id} /\ item.topic = Tombstone(NoDelivery, C, jj)
    BY <2>2, <1>12 DEF Tombstone
  <2>4. \A item, sibling \in outbox : item = sibling BY <1>3 DEF Slot
  <2>5. C.id # 0 => HeardOf(C.id, outbox, Emptied) BY <1>3 DEF Slot
  <2>6. Slot(NoDelivery, C, outbox, Emptied, jj) BY <2>3, <2>4, <2>5, <1>7, <1>13 DEF Slot
  <2>7. \A item \in outbox : item.done => item.topic \notin broker BY <1>3 DEF Gone
  <2> QED BY <2>6, <2>7, <1>7, <1>13 DEF Gone
<1>15. ASSUME NEW jj, ~Confirmed("profile"), D.owner = "profile" => jj = job
       PROVE  Slot(D, C, outbox, Emptied, jj) /\ Gone(D, C, outbox, Emptied, jj, broker)
  <2>1. CASE D.owner = "profile" BY <2>1, <1>15, <1>3
  <2>2. CASE D.owner # "profile"
    <3>1. Tombstone(D, C, jj) = Tombstone(D, C, job) BY <2>2 DEF Tombstone
    <3>2. Slot(D, C, outbox, Emptied, jj) BY <3>1, <2>2, <1>3, <1>7 DEF Slot
    <3> QED BY <3>1, <3>2, <2>2, <1>3, <1>7 DEF Gone
  <2> QED BY <2>1, <2>2
<1>16. ASSUME NEW d \in Deliveries, D.id = 0, C.id = 0,
              d.owner = "profile", d.id = NextId, ~d.confirmed, j.todo # {}
       PROVE  LET o == Enqueued(Head1(j.todo)) IN
              /\ o # outbox /\ o \subseteq Tombstones /\ Slot(d, C, o, Emptied, j)
              /\ Gone(d, C, o, Emptied, j, broker)
  <2>1. outbox = {} BY <1>1, <1>3, <1>16, FreeSlot
  <2>2. Head1(j.todo) \in Topics
    <3>1. Head1(j.todo) \in j.todo BY <1>16, HeadIn
    <3> QED BY <3>1, <1>4 DEF Jobs, Topics
  <2>3. Tombstone(d, C, j) = Head1(j.todo) BY <1>16 DEF Tombstone
  <2>4. \A i \in DOMAIN Emptied.seen : Emptied.seen[i].id = 0 BY <1>7
  <2> HIDE DEF j, D, C
  <2> QED BY <2>1, <2>2, <2>3, <2>4, <1>16, QueuedSlot
<1> HIDE DEF j, D, C, t
<1>17. CASE j.todo = {}
  <2>1. /\ job' = NoJob /\ outbox' = outbox
        /\ task' = [t EXCEPT !.retired = j.target,
                             !.pc = IF j.target = id THEN done ELSE undone]
        /\ delivery' = IF Confirmed("profile") THEN NoDelivery ELSE D
    BY <1>17 DEF Cuts, j, t, D
  <2>2. ~Confirmed("profile") => D.owner # "profile"
    <3>1. D.owner = "profile" => job.todo # {} BY <1>3 DEF Slot
    <3> QED BY <3>1, <1>4, <1>17
  <2>3. Slot(delivery', C, outbox, Emptied, NoJob) /\ Gone(delivery', C, outbox, Emptied, NoJob, broker)
    BY <2>1, <2>2, <1>14, <1>15, Zenon
  <2>4. delivery' \in Deliveries BY <2>1, <1>2, <1>13
  <2>5. j.target \in Known /\ (IF j.target = id THEN done ELSE undone) \in Places BY <1>4 DEF Known
  <2>6. /\ task' \in Cycles /\ task'.held = t.held /\ task'.loaded = t.loaded /\ task'.record = t.record
        /\ task'.discovered = t.discovered /\ task'.cleaned = t.cleaned
        /\ task'.retired = j.target /\ task'.pc \in {done, undone}
    BY <2>1, <2>5, <1>5 DEF Cycles
  <2>7. Left \subseteq Rows[j.target] BY <1>4, <1>17 DEF JobLeft
  <2>8. SlotInv' /\ ForgottenInv' BY <2>1, <2>3, <1>6, <1>8 DEF SlotInv, ForgottenInv
  <2>9. job' \in Jobs BY <2>1 DEF NoJob, Jobs, Known
  <2>10. task'.cleaned <=> (Completes \/ task.cleaned) BY <2>6, <1>5, Zenon
  <2>11. task'.held = task.held /\ task'.loaded = task.loaded /\ task'.record = task.record
         /\ task'.discovered = task.discovered
    BY <2>6, <1>5
  <2> QED BY <2>1, <2>4, <2>6, <2>7, <2>8, <2>9, <2>10, <2>11, <1>1, <1>2, <1>4, <1>6, <1>7 DEF C
<1>18. CASE j.todo # {}
  <2>1. /\ job' = j /\ task' = [t EXCEPT !.pc = undone] BY <1>18 DEF Cuts, j, t
  <2>2. /\ delivery' \in Deliveries /\ outbox' \subseteq Tombstones
        /\ Slot(delivery', C, outbox', Emptied, j) /\ Gone(delivery', C, outbox', Emptied, j, broker)
    <3>1. CASE Confirmed("profile")
      <4>1. /\ outbox' = IF link = "up" /\ C.id = 0 /\ ~Suppressed(C)
                                   THEN Enqueued(Head1(j.todo)) ELSE outbox
            /\ delivery' = IF outbox' = outbox THEN NoDelivery
                                     ELSE [NoDelivery EXCEPT !.owner = "profile", !.id = NextId]
        BY <1>18, <3>1 DEF Cuts, j, C
      <4>2. D.id = 0 BY <3>1, <1>9, <1>10
      <4>3. CASE link = "up" /\ C.id = 0 /\ ~Suppressed(C)
        <5> DEFINE d == [NoDelivery EXCEPT !.owner = "profile", !.id = NextId]
        <5>1. d \in Deliveries /\ d.owner = "profile" /\ d.id = NextId /\ ~d.confirmed
          BY NextIdIn, QueuedDelivery
        <5> HIDE DEF d
        <5>2. LET o == Enqueued(Head1(j.todo)) IN
              /\ o # outbox /\ o \subseteq Tombstones /\ Slot(d, C, o, Emptied, j)
              /\ Gone(d, C, o, Emptied, j, broker)
          BY <5>1, <4>2, <4>3, <1>16, <1>18
        <5>3. outbox' = Enqueued(Head1(j.todo)) /\ delivery' = d BY <4>1, <4>3, <5>2 DEF d
        <5> QED BY <5>1, <5>2, <5>3
      <4>4. CASE ~(link = "up" /\ C.id = 0 /\ ~Suppressed(C))
        <5>1. outbox' = outbox /\ delivery' = NoDelivery BY <4>1, <4>4
        <5> QED BY <5>1, <3>1, <1>1, <1>13, <1>14
      <4> QED BY <4>3, <4>4
    <3>2. CASE ~Confirmed("profile")
      <4>1. IF Admits("profile")
            THEN /\ outbox' = Enqueued(Head1(j.todo))
                 /\ delivery' = [owner |-> "profile", id |-> NextId, confirmed |-> FALSE]
            ELSE outbox' = outbox /\ delivery' = D
        BY <1>18, <3>2 DEF Cuts, Retires, j, D
      <4>2. CASE Admits("profile")
        <5>1. C.id = 0 /\ D.id = 0 BY <4>2 DEF Admits, C, D
        <5>2. delivery' = [owner |-> "profile", id |-> NextId, confirmed |-> FALSE]
              /\ outbox' = Enqueued(Head1(j.todo))
          BY <4>1, <4>2
        <5> DEFINE d == [owner |-> "profile", id |-> NextId, confirmed |-> FALSE]
        <5>3. d \in Deliveries /\ d.owner = "profile" /\ d.id = NextId /\ ~d.confirmed
          BY NextIdIn DEF Deliveries
        <5>5. delivery' = d BY <5>2
        <5> HIDE DEF d
        <5>4. LET o == Enqueued(Head1(j.todo)) IN
              /\ o # outbox /\ o \subseteq Tombstones /\ Slot(d, C, o, Emptied, j)
              /\ Gone(d, C, o, Emptied, j, broker)
          BY <5>1, <5>3, <1>16, <1>18
        <5> QED BY <5>2, <5>3, <5>4, <5>5
      <4>3. CASE ~Admits("profile")
        <5>1. D.owner = "profile" => j = job
          <6>1. D.owner = "profile" => job.todo # {} BY <1>3 DEF Slot
          <6> QED BY <6>1, <1>4, <3>2
        <5> QED BY <5>1, <4>1, <4>3, <3>2, <1>15, <1>1, <1>2
      <4> QED BY <4>2, <4>3
    <3> QED BY <3>1, <3>2
  <2>3. /\ task' \in Cycles /\ task'.held = t.held /\ task'.loaded = t.loaded /\ task'.record = t.record
        /\ task'.discovered = t.discovered /\ task'.cleaned = t.cleaned
        /\ task'.pc = undone
    BY <2>1, <1>5 DEF Cycles
  <2>4. SlotInv' /\ ForgottenInv' BY <2>1, <2>2, <1>6, <1>8 DEF SlotInv, ForgottenInv
  <2>5. j # NoJob BY <1>18 DEF NoJob
  <2>6. task'.cleaned <=> (Completes \/ task.cleaned) BY <2>3, <1>5, Zenon
  <2>7. task'.held = task.held /\ task'.loaded = task.loaded /\ task'.record = task.record
         /\ task'.discovered = task.discovered
    BY <2>3, <1>5
  <2> QED BY <2>1, <2>2, <2>3, <2>4, <2>5, <2>6, <2>7, <1>2, <1>4, <1>6, <1>7 DEF C
<1> QED BY <1>17, <1>18

-----------------------------------------------------------------------------
(* The cycle: what it drains, and each of its places *)

LEMMA DrainedClean ==
  ASSUME RetIInv
  PROVE  /\ DrainedCleanup.id # 0 => DrainedCleanup.active
         /\ DrainedCleanup.active => cleanup.active
         /\ DrainedCleanup.active /\ DrainedCleanup.step = 2 => State \notin broker
         /\ Completes => State \notin broker
         /\ State \in broker /\ ~config.modbus =>
              ~(Completes \/ task.cleaned) \/ DrainedCleanup.requested \/ DrainedCleanup.pending
              \/ DrainedCleanup.active \/ config.owes
<1>1. RetShape /\ SlotInv /\ ForgottenInv /\ CleanInv BY DEF RetIInv
<1>2. cleanup \in Cleanups BY <1>1 DEF RetShape
<1>3. Reported(cleanup.id, TRUE) => StepTopics[cleanup.step] \notin broker BY <1>1, DrainedSlot
<1>4. Reported(cleanup.id, TRUE) => cleanup.id # 0 BY DEF Reported
<1>5. cleanup.id # 0 => cleanup.active BY <1>1 DEF CleanInv
<1>6. cleanup.active /\ cleanup.step = 2 => State \notin broker BY <1>1 DEF CleanInv
<1>7. cleanup.step \in {1, 2} BY <1>2 DEF Cleanups
<1>8. /\ DrainedCleanup.id = (IF Reported(cleanup.id, TRUE) \/ Reported(cleanup.id, FALSE)
                                 THEN 0 ELSE cleanup.id)
      /\ DrainedCleanup.active <=> (cleanup.active /\ ~Completes)
      /\ DrainedCleanup.step = (IF Completes THEN 1 ELSE IF Advances THEN 2 ELSE cleanup.step)
      /\ DrainedCleanup.requested <=> cleanup.requested
      /\ DrainedCleanup.pending <=> cleanup.pending
  BY <1>1, DrainedIn
<1>9. Advances <=> Reported(cleanup.id, TRUE) BY DEF Advances
<1>10. Completes => Advances /\ cleanup.step = 2 BY StepTopicsAre DEF Completes
<1>11. Completes => State \notin broker BY <1>10, <1>9, <1>4, <1>5, <1>6
<1>12. DrainedCleanup.id # 0 => DrainedCleanup.active BY <1>8, <1>9, <1>10, <1>5
<1>13. DrainedCleanup.active /\ DrainedCleanup.step = 2 => State \notin broker
  <2>1. CASE Advances
    <3>1. ~Completes => cleanup.step = 1
      BY <2>1, <1>7, StepTopicsAre DEF Completes
    <3> QED BY <3>1, <2>1, <1>3, <1>8, <1>9, StepTopicsAre
  <2>2. CASE ~Advances BY <2>2, <1>6, <1>8, <1>10
  <2> QED BY <2>1, <2>2
<1>14. State \in broker /\ ~config.modbus =>
         ~task.cleaned \/ cleanup.requested \/ cleanup.pending \/ cleanup.active \/ config.owes
  BY <1>1 DEF CleanInv
<1> QED BY <1>8, <1>11, <1>12, <1>13, <1>14, Zenon

(* The cursors' part of a step that does nothing but drain.                 *)
LEMMA DrainsSlot ==
  ASSUME RetShape, SlotInv, ForgottenInv, Drained, delivery' = DrainedDelivery, NEW c \in Cleanups,
         cleanup' = c, c.id = DrainedCleanup.id, c.step = DrainedCleanup.step,
         outbox' = outbox, job' = job, broker' = broker
  PROVE  /\ delivery' \in Deliveries /\ ring' \in Rings /\ SlotInv' /\ ForgottenInv'
<1>1. Slot(DrainedDelivery, DrainedCleanup, outbox, Emptied, job)
      /\ Gone(DrainedDelivery, DrainedCleanup, outbox, Emptied, job, broker)
  BY DrainedSlot
<1>2. delivery' \in Deliveries BY DrainedIn
<1>3. ring' = Emptied BY DEF Drained, Emptied
<1>4. Emptied \in Rings /\ Len(Emptied.seen) = 0 BY EmptiedIn
<1>5. Tombstone(DrainedDelivery, c, job) = Tombstone(DrainedDelivery, DrainedCleanup, job)
  BY DEF Tombstone
<1>6. Slot(delivery', c, outbox, Emptied, job) BY <1>1, <1>5 DEF Slot
<1>7. Gone(delivery', c, outbox, Emptied, job, broker) BY <1>1, <1>5 DEF Gone
<1>8. 0 <= RingCap BY RetAssumption
<1> QED BY <1>2, <1>3, <1>4, <1>6, <1>7, <1>8 DEF SlotInv, ForgottenInv

LEMMA BeginsIInv == ASSUME RetIInv, Begins PROVE RetIInv'
<1> USE DEF Begins
<1>1. RetShape /\ SlotInv /\ ForgottenInv /\ CutInv /\ CleanInv /\ task \in Cycles
      /\ config \in Configurations
  BY DEF RetIInv, RetShape
<1>2. /\ Served(task) \in Cycles /\ (Served(task).cleaned <=> (Completes \/ task.cleaned))
      /\ Served(task).loaded = task.loaded /\ Served(task).record = task.record
      /\ Served(task).discovered = task.discovered /\ Served(task).retired = task.retired
  BY <1>1, ServedIn
<1>3. config.profile \in Profiles \cup {"auto"} /\ "cleanup" \in Places
  BY <1>1 DEF Configurations, Places
<1>4. /\ task' \in Cycles /\ task'.pc = "cleanup" /\ task'.cleaned = Served(task).cleaned
      /\ task'.loaded = task.loaded /\ task'.record = task.record
      /\ task'.discovered = task.discovered /\ task'.retired = task.retired
  BY <1>2, <1>3 DEF Cycles
<1>5. /\ delivery' \in Deliveries /\ cleanup' \in Cleanups /\ ring' \in Rings /\ SlotInv' /\ ForgottenInv'
  BY <1>1, DrainedIn, DrainsSlot
<1>6. RetShape' BY <1>1, <1>4, <1>5 DEF RetShape
<1>7. CutInv' BY <1>1, <1>4 DEF CutInv, Left, NoJob
<1>8. CleanInv'
  <2>1. task'.cleaned <=> (Completes \/ task.cleaned) BY <1>2, <1>4, Zenon
  <2>2. task'.pc \notin AfterSource /\ task'.pc # "write" BY <1>4 DEF AfterSource
  <2> QED BY <2>1, <2>2, DrainedClean, Zenon DEF CleanInv
<1> QED BY <1>5, <1>6, <1>7, <1>8 DEF RetIInv

LEMMA RequestedIn ==
  ASSUME RetShape
  PROVE  /\ Requested \in Cleanups /\ Requested.id = DrainedCleanup.id
         /\ Requested.step = DrainedCleanup.step
         /\ Requested.active <=> DrainedCleanup.active
         /\ DrainedCleanup.pending \/ DrainedCleanup.requested => Requested.pending
<1> DEFINE c == [DrainedCleanup EXCEPT !.ended = Completes, !.requested = FALSE,
                                       !.pending = @ \/ DrainedCleanup.requested]
           e == [c EXCEPT !.client = TRUE, !.pending = TRUE]
<1>1. DrainedCleanup \in Cleanups BY DrainedIn
<1>2. Completes \in BOOLEAN BY DEF Completes, Advances, Reported
<1>3. (DrainedCleanup.pending \/ DrainedCleanup.requested) \in BOOLEAN OBVIOUS
<1>4. /\ c \in Cleanups /\ c.id = DrainedCleanup.id /\ c.step = DrainedCleanup.step
      /\ c.active = DrainedCleanup.active
      /\ c.pending = (DrainedCleanup.pending \/ DrainedCleanup.requested)
  BY <1>1, <1>2, <1>3 DEF Cleanups
<1>5. /\ e \in Cleanups /\ e.id = c.id /\ e.step = c.step /\ e.active = c.active
      /\ e.pending = TRUE
  BY <1>4, ZenonT(60) DEF Cleanups
<1>6. Requested = e \/ Requested = c BY DEF Requested
<1> HIDE DEF c, e
<1>7. CASE Requested = c
  <2>1. (c.active <=> DrainedCleanup.active)
        /\ (DrainedCleanup.pending \/ DrainedCleanup.requested => c.pending)
    BY <1>4, Zenon
  <2> QED BY <1>4, <1>7, <2>1
<1>8. CASE Requested = e
  <2>1. (e.active <=> DrainedCleanup.active) /\ e.pending BY <1>4, <1>5, Zenon
  <2> QED BY <1>4, <1>5, <1>8, <2>1
<1> QED BY <1>6, <1>7, <1>8

LEMMA CleansIInv == ASSUME RetIInv, Cleans PROVE RetIInv'
<1> USE DEF Cleans
<1>1. RetShape /\ SlotInv /\ ForgottenInv /\ CutInv /\ CleanInv /\ task \in Cycles /\ record \in Known
  BY DEF RetIInv, RetShape
<1>2. /\ Served(task) \in Cycles /\ (Served(task).cleaned <=> (Completes \/ task.cleaned))
      /\ Served(task).loaded = task.loaded /\ Served(task).record = task.record
      /\ Served(task).discovered = task.discovered /\ Served(task).retired = task.retired
  BY <1>1, ServedIn
<1>3. "pending" \in Places BY DEF Places
<1>4. ASSUME NEW ok \in BOOLEAN, task' = [Loads(ok) EXCEPT !.pc = "pending"]
      PROVE  /\ task' \in Cycles /\ task'.pc = "pending" /\ task'.cleaned = Served(task).cleaned
             /\ task'.retired = task.retired
             /\ IF ~task.loaded /\ ok
                THEN task'.loaded /\ task'.record = record /\ task'.discovered = record
                ELSE /\ task'.loaded = task.loaded /\ task'.record = task.record
                     /\ task'.discovered = task.discovered
  <2>1. CASE ~task.loaded /\ ok
    <3>1. task' = [[Served(task) EXCEPT !.loaded = TRUE, !.record = record, !.discovered = record]
                     EXCEPT !.pc = "pending"]
      BY <2>1, <1>4 DEF Loads
    <3>2. /\ task' \in Cycles /\ task'.pc = "pending" /\ task'.cleaned = Served(task).cleaned
          /\ task'.retired = task.retired
          /\ task'.loaded = TRUE /\ task'.record = record /\ task'.discovered = record
      BY <3>1, <1>1, <1>2, <1>3 DEF Cycles
    <3> QED BY <3>2, <2>1
  <2>2. CASE ~(~task.loaded /\ ok)
    <3>1. task' = [Served(task) EXCEPT !.pc = "pending"] BY <2>2, <1>4 DEF Loads
    <3>2. /\ task' \in Cycles /\ task'.pc = "pending" /\ task'.cleaned = Served(task).cleaned
          /\ task'.retired = task.retired
          /\ task'.loaded = task.loaded /\ task'.record = task.record
          /\ task'.discovered = task.discovered
      BY <3>1, <1>2, <1>3 DEF Cycles
    <3> QED BY <3>2, <2>2
  <2> QED BY <2>1, <2>2
<1>5. PICK ok \in BOOLEAN : task' = [Loads(ok) EXCEPT !.pc = "pending"] BY Zenon
<1>6. /\ task' \in Cycles /\ task'.pc = "pending" /\ task'.cleaned = Served(task).cleaned
      /\ task'.retired = task.retired
      /\ IF ~task.loaded /\ ok
         THEN task'.loaded /\ task'.record = record /\ task'.discovered = record
         ELSE /\ task'.loaded = task.loaded /\ task'.record = task.record
              /\ task'.discovered = task.discovered
  BY <1>4, <1>5
<1>7. /\ Requested \in Cleanups /\ Requested.id = DrainedCleanup.id
      /\ Requested.step = DrainedCleanup.step
      /\ Requested.active <=> DrainedCleanup.active
      /\ DrainedCleanup.pending \/ DrainedCleanup.requested => Requested.pending
  BY <1>1, RequestedIn
<1>8. /\ cleanup' = Requested /\ delivery' = DrainedDelivery /\ Drained
      /\ UNCHANGED <<config, record, job, periodic, link, outbox, broker>>
  OBVIOUS
<1>9. /\ delivery' \in Deliveries /\ ring' \in Rings /\ SlotInv' /\ ForgottenInv'
  BY <1>1, <1>7, <1>8, DrainsSlot
<1>10. RetShape' BY <1>1, <1>6, <1>7, <1>8, <1>9 DEF RetShape
<1>11. CutInv'
  <2>1. CASE task.loaded BY <2>1, <1>1, <1>6, <1>8 DEF CutInv, Left, NoJob, RowsOf
  <2>2. CASE ~task.loaded
    <3>1. task.retired = "none" /\ job = NoJob BY <2>2, <1>1 DEF CutInv
    <3>2. task'.retired = "none" /\ job' = NoJob BY <3>1, <1>6, <1>8
    <3>3. IF task'.loaded THEN task'.record = record' /\ task'.discovered = record'
          ELSE task'.retired = "none" /\ job' = NoJob
      BY <3>2, <2>2, <1>6, <1>8
    <3>4. Left' \subseteq RowsOf(record)' BY <1>1, <1>8 DEF CutInv, Left, RowsOf
    <3> QED BY <3>2, <3>3, <3>4, <1>6, <1>8 DEF CutInv, NoJob
  <2> QED BY <2>1, <2>2
<1>12. CleanInv'
  <2>1. task'.cleaned <=> (Completes \/ task.cleaned) BY <1>2, <1>6, Zenon
  <2>2. task'.pc \notin AfterSource /\ task'.pc # "write" BY <1>6 DEF AfterSource
  <2>3. cleanup'.id = DrainedCleanup.id /\ cleanup'.step = DrainedCleanup.step BY <1>7, <1>8
  <2>4. (cleanup'.active <=> DrainedCleanup.active)
        /\ (DrainedCleanup.pending \/ DrainedCleanup.requested => cleanup'.pending)
    BY <1>7, <1>8, Zenon
  <2> QED BY <1>1, <1>8, <2>1, <2>2, <2>3, <2>4, DrainedClean, Zenon DEF CleanInv
<1> QED BY <1>9, <1>10, <1>11, <1>12 DEF RetIInv

(* A call of the cutover, from either of its places.                        *)
LEMMA CutsIInv ==
  ASSUME RetIInv, NEW id \in Profiles, task.loaded, NEW done \in Places, NEW undone \in Places,
         Cuts(id, done, undone), Stays, UNCHANGED <<record, periodic, broker>>,
         {done, undone} \cap {"emit", "write"} = {}, undone # "save",
         task.pc \in AfterSource \/ {done, undone} \cap AfterSource = {}
  PROVE  RetIInv'
<1>1. RetShape /\ SlotInv /\ ForgottenInv /\ CutInv /\ CleanInv BY DEF RetIInv
<1>2. /\ delivery' \in Deliveries /\ cleanup' \in Cleanups /\ outbox' \subseteq Tombstones
      /\ ring' \in Rings /\ job' \in Jobs /\ task' \in Cycles
      /\ SlotInv' /\ ForgottenInv'
      /\ cleanup' = DrainedCleanup
      /\ task'.held = task.held /\ task'.loaded = task.loaded /\ task'.record = task.record
      /\ task'.discovered = task.discovered
      /\ task'.cleaned <=> (Completes \/ task.cleaned)
      /\ IF job' = NoJob
         THEN task'.retired \in Profiles /\ Left \subseteq Rows[task'.retired]
              /\ task'.pc \in {done, undone}
         ELSE job'.target \in Profiles /\ JobLeft(job') /\ task'.pc = undone
  BY CutsSlot
<1>3. UNCHANGED <<config, record, periodic, link, broker, budget>> BY DEF Stays
<1>4. RetShape' BY <1>1, <1>2, <1>3 DEF RetShape
<1>5. "none" \notin Profiles BY RetAssumption
<1>6. CutInv'
  <2>1. Left' = Left /\ RowsOf(record)' = RowsOf(record) BY <1>3 DEF Left, RowsOf
  <2>2. task'.loaded /\ task'.record = record' /\ task'.discovered = record'
    BY <1>1, <1>2, <1>3 DEF CutInv
  <2>3. Left \subseteq RowsOf(record) BY <1>1 DEF CutInv
  <2>4. task'.pc # "emit" BY <1>2
  <2>5. CASE job' = NoJob
    <3>1. job'.target = "none" BY <2>5 DEF NoJob
    <3> QED BY <3>1, <2>1, <2>2, <2>3, <2>4, <2>5, <1>2, <1>5 DEF CutInv
  <2>6. CASE job' # NoJob
    <3>1. job'.target # "none" /\ JobLeft(job') BY <2>6, <1>2, <1>5
    <3>2. task'.pc \notin {"save", "emit"} BY <2>6, <1>2
    <3>3. Left' \subseteq Rows[job'.target] \cup (IF job'.now = "previous" THEN job'.todo ELSE {})
      BY <3>1, <2>1 DEF JobLeft
    <3> QED BY <3>1, <3>2, <3>3, <2>1, <2>2, <2>3 DEF CutInv
  <2> QED BY <2>5, <2>6
<1>7. CleanInv'
  <2>1. task'.pc # "write" BY <1>2
  <2>2. task'.pc \in AfterSource => task.pc \in AfterSource BY <1>2
  <2>3. cleanup'.active => cleanup.active BY <1>2, DrainedClean, Zenon
  <2>4. cleanup'.active /\ task'.pc \in AfterSource => task'.held
    BY <2>2, <2>3, <1>1, <1>2, Zenon DEF CleanInv
  <2> QED BY <1>2, <1>3, <2>1, <2>4, DrainedClean, Zenon DEF CleanInv
<1> QED BY <1>2, <1>4, <1>6, <1>7 DEF RetIInv

(* A step of the task that moves on and touches nothing the cursors use.    *)
LEMMA MovesIInv ==
  ASSUME RetIInv, NEW pc \in Places, task' = [task EXCEPT !.pc = pc],
         UNCHANGED <<config, record, job, delivery, cleanup, link, outbox, ring, broker>>,
         periodic' \in {"no", "once", "again"},
         pc = "save" => task.loaded /\ job = NoJob /\ task.retired # "none",
         pc \notin {"emit", "write"},
         task.pc \in AfterSource \/ pc \notin AfterSource
  PROVE  RetIInv'
<1>1. RetShape /\ SlotInv /\ ForgottenInv /\ CutInv /\ CleanInv /\ task \in Cycles
  BY DEF RetIInv, RetShape
<1>2. /\ task' \in Cycles /\ task'.pc = pc /\ task'.held = task.held /\ task'.loaded = task.loaded
      /\ task'.record = task.record /\ task'.discovered = task.discovered
      /\ task'.retired = task.retired /\ task'.cleaned = task.cleaned
  BY <1>1 DEF Cycles
<1>3. RetShape' BY <1>1, <1>2 DEF RetShape
<1>4. SlotInv' /\ ForgottenInv' BY <1>1 DEF SlotInv, ForgottenInv
<1>5. CutInv' BY <1>1, <1>2 DEF CutInv, Left, RowsOf, NoJob
<1>6. CleanInv' BY <1>1, <1>2 DEF CleanInv
<1> QED BY <1>3, <1>4, <1>5, <1>6 DEF RetIInv

LEMMA ContinuesIInv == ASSUME RetIInv, Continues PROVE RetIInv'
<1> USE DEF Continues
<1>1. RetShape /\ CutInv /\ "periodic" \in Places /\ periodic' \in {"no", "once", "again"}
  BY DEF RetIInv, RetShape, Places
<1>2. CASE job.target = "none"
  <2>1. /\ task' = [task EXCEPT !.pc = "periodic"]
        /\ UNCHANGED <<config, record, job, delivery, cleanup, link, outbox, ring, broker>>
    BY <1>2 DEF OnTo, Stays
  <2> QED BY <1>1, <2>1, MovesIInv DEF AfterSource
<1>3. CASE job.target # "none"
  <2>1. Cuts(job.target, "periodic", "periodic") BY <1>3
  <2>2. job.target \in Profiles BY <1>1, <1>3 DEF RetShape, Jobs, Known
  <2>3. task.loaded BY <1>1, <1>3 DEF CutInv, NoJob
  <2> QED BY <1>1, <2>1, <2>2, <2>3, CutsIInv DEF AfterSource
<1> QED BY <1>2, <1>3

LEMMA DiscoversIInv == ASSUME RetIInv, Discovers PROVE RetIInv'
<1> USE DEF Discovers
<1>1. RetShape /\ CutInv /\ {"state", "save"} \subseteq Places
      /\ periodic' \in {"no", "once", "again"} /\ task.pc \in AfterSource
  BY DEF RetIInv, RetShape, Places, At, AfterSource
<1>2. CASE task.prof \in {"auto", task.announced} \/ config.profile = "auto" \/ ~task.loaded
  <2>1. /\ task' = [task EXCEPT !.pc = "state"]
        /\ UNCHANGED <<config, record, job, delivery, cleanup, link, outbox, ring, broker>>
    BY <1>2 DEF OnTo, Stays
  <2> QED BY <1>1, <2>1, MovesIInv
<1>3. CASE /\ ~(task.prof \in {"auto", task.announced} \/ config.profile = "auto" \/ ~task.loaded)
           /\ job.target = "none" /\ task.retired = config.profile
  <2>1. /\ task' = [task EXCEPT !.pc = "save"]
        /\ UNCHANGED <<config, record, job, delivery, cleanup, link, outbox, ring, broker>>
    BY <1>3 DEF OnTo, Stays
  <2>2. config.profile \in Profiles /\ "none" \notin Profiles
    BY <1>1, <1>3, RetAssumption DEF RetShape, Configurations
  <2>3. task.loaded /\ job = NoJob /\ task.retired # "none"
    BY <1>1, <1>3, <2>2 DEF CutInv
  <2> QED BY <1>1, <2>1, <2>3, MovesIInv
<1>4. CASE /\ ~(task.prof \in {"auto", task.announced} \/ config.profile = "auto" \/ ~task.loaded)
           /\ ~(job.target = "none" /\ task.retired = config.profile)
  <2>1. Cuts(config.profile, "save", "state") BY <1>4
  <2>2. config.profile \in Profiles BY <1>1, <1>4 DEF RetShape, Configurations
  <2> QED BY <1>1, <1>4, <2>1, <2>2, CutsIInv
<1> QED BY <1>2, <1>3, <1>4

LEMMA AnnouncesIInv == ASSUME RetIInv, Announces PROVE RetIInv'
<1> USE DEF Announces
<1>1. RetShape /\ SlotInv /\ ForgottenInv /\ CutInv /\ CleanInv /\ task \in Cycles
      /\ task.pc = "announce" /\ "x10a" \in Places
  BY DEF RetIInv, RetShape, Places, At
<1>2. UNCHANGED <<config, record, job, delivery, cleanup, link, outbox, ring, broker>>
  BY DEF Stays
<1>3. periodic' \in {"no", "once", "again"} BY <1>1 DEF RetShape, Asked
<1>4. CASE task' = OnTo("x10a")
  BY <1>1, <1>2, <1>3, <1>4, MovesIInv DEF OnTo, AfterSource
<1>5. CASE task' = [Renewed(task) EXCEPT !.pc = "x10a"]
  <2>1. /\ task' \in Cycles /\ task'.pc = "x10a" /\ task'.held = task.held
        /\ task'.loaded = task.loaded
        /\ task'.record = task.record /\ task'.discovered = task.discovered
        /\ task'.retired = task.retired /\ task'.cleaned = task.cleaned
    BY <1>1, <1>5 DEF Cycles, Renewed, Known
  <2>2. RetShape' BY <1>1, <1>2, <1>3, <2>1 DEF RetShape
  <2>3. SlotInv' /\ ForgottenInv' BY <1>1, <1>2 DEF SlotInv, ForgottenInv
  <2>4. CutInv' BY <1>1, <1>2, <2>1 DEF CutInv, Left, RowsOf, NoJob
  <2>5. CleanInv' BY <1>1, <1>2, <2>1 DEF CleanInv, AfterSource
  <2> QED BY <2>2, <2>3, <2>4, <2>5 DEF RetIInv
<1> QED BY <1>4, <1>5

LEMMA RepeatsSlot ==
  ASSUME RetIInv, Repeats, periodic # "no"
  PROVE  /\ delivery' \in Deliveries /\ outbox' \subseteq Tombstones /\ ring' \in Rings
         /\ SlotInv' /\ ForgottenInv'
<1> USE DEF Repeats
<1> DEFINE D == DrainedDelivery
           C == DrainedCleanup
<1>1. RetShape /\ SlotInv /\ ForgottenInv /\ outbox \subseteq Tombstones BY DEF RetIInv, RetShape
<1>2. D \in Deliveries /\ C \in Cleanups BY <1>1, DrainedIn
<1>3. Slot(D, C, outbox, Emptied, job) /\ Gone(D, C, outbox, Emptied, job, broker)
  BY <1>1, DrainedSlot
<1>4. /\ ring' = Emptied /\ cleanup' = C /\ job' = job /\ broker' = broker
  BY DEF Drained, Emptied
<1>5. /\ Emptied \in Rings /\ Emptied.seen = <<>> /\ DOMAIN Emptied.seen = {}
      /\ Len(Emptied.seen) = 0 /\ 0 <= RingCap
  BY <1>1, EmptiedIn, RetAssumption
<1>6. CASE Confirmed("periodic")
  <2>1. delivery' = NoDelivery /\ outbox' = outbox BY <1>6
  <2>2. D.id = 0 BY <1>3, <1>6 DEF Slot, Confirmed
  <2>3. NoDelivery \in Deliveries /\ NoDelivery.id = 0 /\ NoDelivery.owner = "none"
        /\ ~NoDelivery.confirmed
    BY DEF NoDelivery, Deliveries
  <2>4. \A item \in outbox : item.id \in {0, C.id} /\ item.topic = Tombstone(D, C, job)
    BY <1>3, <2>2 DEF Slot
  <2>5. \A item \in outbox : item.id # 0 BY <1>1 DEF Tombstones
  <2>6. \A item \in outbox : item.topic = Tombstone(NoDelivery, C, job)
    BY <2>4, <2>5 DEF Tombstone
  <2>7. \A item, sibling \in outbox : item = sibling BY <1>3 DEF Slot
  <2>8. C.id # 0 => HeardOf(C.id, outbox, Emptied) BY <1>3 DEF Slot
  <2>9. Slot(NoDelivery, C, outbox, Emptied, job)
    BY <2>3, <2>4, <2>6, <2>7, <2>8, <1>5 DEF Slot
  <2>10. \A item \in outbox : item.done => item.topic \notin broker BY <1>3 DEF Gone
  <2>11. Gone(NoDelivery, C, outbox, Emptied, job, broker) BY <2>3, <2>10, <1>5 DEF Gone
  <2> QED BY <2>1, <2>3, <2>9, <2>11, <1>1, <1>4, <1>5 DEF SlotInv, ForgottenInv
<1>7. CASE ~Confirmed("periodic") /\ Admits("periodic")
  <2>1. /\ outbox' = Enqueued(Retired)
        /\ delivery' = [owner |-> "periodic", id |-> NextId, confirmed |-> FALSE]
    BY <1>7 DEF Retires
  <2>2. D.id = 0 /\ C.id = 0 BY <1>7 DEF Admits
  <2>3. outbox = {} /\ \A i \in DOMAIN Emptied.seen : Emptied.seen[i].id = 0
    BY <1>1, <1>3, <2>2, FreeSlot
  <2>4. delivery' \in Deliveries /\ delivery'.owner = "periodic" /\ delivery'.id = NextId
        /\ ~delivery'.confirmed
    BY <2>1, NextIdIn DEF Deliveries
  <2>5. Retired \in Topics BY DEF Topics
  <2>6. Tombstone(delivery', C, job) = Retired BY <2>2, <2>4 DEF Tombstone
  <2> HIDE DEF D, C
  <2>7. /\ Slot(delivery', C, Enqueued(Retired), Emptied, job)
        /\ Gone(delivery', C, Enqueued(Retired), Emptied, job, broker)
        /\ Enqueued(Retired) \subseteq Tombstones
    BY <2>2, <2>3, <2>4, <2>5, <2>6, QueuedSlot
  <2> QED BY <2>1, <2>4, <2>7, <1>4, <1>5 DEF SlotInv, ForgottenInv, C
<1>8. CASE ~Confirmed("periodic") /\ ~Admits("periodic")
  <2>1. delivery' = D /\ outbox' = outbox BY <1>8 DEF Retires
  <2> QED BY <2>1, <1>1, <1>2, <1>3, <1>4, <1>5 DEF SlotInv, ForgottenInv
<1> QED BY <1>6, <1>7, <1>8

LEMMA RepeatsIInv == ASSUME RetIInv, Repeats PROVE RetIInv'
<1> USE DEF Repeats
<1>1. RetShape /\ SlotInv /\ ForgottenInv /\ CutInv /\ CleanInv /\ task \in Cycles
      /\ "source" \in Places /\ periodic \in {"no", "once", "again"}
  BY DEF RetIInv, RetShape, Places
<1>2. CASE periodic = "no"
  <2>1. /\ task' = [task EXCEPT !.pc = "source"]
        /\ UNCHANGED <<config, record, job, delivery, cleanup, link, outbox, ring, broker>>
        /\ periodic' = periodic
    BY <1>2 DEF OnTo, Stays
  <2> QED BY <1>1, <2>1, MovesIInv DEF AfterSource
<1>3. CASE periodic # "no"
  <2>1. /\ delivery' \in Deliveries /\ outbox' \subseteq Tombstones /\ ring' \in Rings
        /\ SlotInv' /\ ForgottenInv'
    BY <1>3, RepeatsSlot
  <2>2. /\ cleanup' = DrainedCleanup /\ task' = [Served(task) EXCEPT !.pc = "source"]
        /\ UNCHANGED <<config, record, job, link, broker>>
        /\ periodic' \in {"no", "once", "again"}
    BY <1>1, <1>3 DEF Stays
  <2>3. /\ Served(task) \in Cycles /\ (Served(task).cleaned <=> (Completes \/ task.cleaned))
        /\ Served(task).loaded = task.loaded /\ Served(task).record = task.record
        /\ Served(task).discovered = task.discovered /\ Served(task).retired = task.retired
    BY <1>1, ServedIn
  <2>4. /\ task' \in Cycles /\ task'.pc = "source" /\ task'.cleaned = Served(task).cleaned
        /\ task'.loaded = task.loaded /\ task'.record = task.record
        /\ task'.discovered = task.discovered /\ task'.retired = task.retired
    BY <1>1, <2>2, <2>3 DEF Cycles
  <2>5. cleanup' \in Cleanups BY <2>2, <1>1, DrainedIn
  <2>6. RetShape' BY <1>1, <2>1, <2>2, <2>4, <2>5 DEF RetShape
  <2>7. CutInv' BY <1>1, <2>2, <2>4 DEF CutInv, Left, RowsOf, NoJob
  <2>8. task'.cleaned <=> (Completes \/ task.cleaned) BY <2>3, <2>4, Zenon
  <2>9. task'.pc \notin AfterSource /\ task'.pc # "write" BY <2>4 DEF AfterSource
  <2>10. CleanInv' BY <2>2, <2>8, <2>9, DrainedClean, Zenon DEF CleanInv
  <2> QED BY <2>1, <2>6, <2>7, <2>10 DEF RetIInv
<1> QED BY <1>2, <1>3

LEMMA SelectedIn ==
  ASSUME cleanup \in Cleanups
  PROVE  /\ Selected \in Cleanups /\ Selected.id = cleanup.id
         /\ Selected.requested = cleanup.requested
         /\ cleanup.active => Selected = cleanup
         /\ Selected.active => cleanup.active \/ Selected.step = 1
         /\ cleanup.active \/ cleanup.pending => Selected.active
<1>1. CASE cleanup.active \/ ~cleanup.pending
  <2>1. Selected = cleanup BY <1>1 DEF Selected
  <2> QED BY <1>1, <2>1
<1>2. CASE ~(cleanup.active \/ ~cleanup.pending)
  <2>1. Selected = [cleanup EXCEPT !.pending = FALSE, !.active = TRUE, !.step = 1]
    BY <1>2 DEF Selected
  <2>2. 1 \in 1..2 OBVIOUS
  <2>3. /\ Selected \in Cleanups /\ Selected.id = cleanup.id /\ Selected.step = 1
        /\ Selected.requested = cleanup.requested /\ Selected.active = TRUE
    BY <2>1, <2>2 DEF Cleanups
  <2> QED BY <2>3, <1>2
<1> QED BY <1>1, <1>2

LEMMA WithdrawsIInv == ASSUME RetIInv, Withdraws PROVE RetIInv'
<1> USE DEF Withdraws
<1> DEFINE may == link = "up" /\ cleanup.client /\ cleanup.id = 0 /\ delivery.owner = "none"
           c == IF may THEN Selected ELSE cleanup
<1>1. /\ RetShape /\ SlotInv /\ ForgottenInv /\ CutInv /\ CleanInv /\ task \in Cycles
      /\ cleanup \in Cleanups /\ delivery \in Deliveries /\ outbox \subseteq Tombstones
      /\ ring \in Rings
  BY DEF RetIInv, RetShape
<1>2. /\ IF may /\ c.active
         THEN outbox' = Enqueued(StepTopics[c.step]) /\ cleanup' = [c EXCEPT !.id = NextId]
         ELSE outbox' = outbox /\ cleanup' = c
      /\ task' = [task EXCEPT !.held = Suppressed(c),
                              !.pc = IF link = "up" THEN "announce" ELSE "top"]
      /\ UNCHANGED <<config, record, job, delivery, periodic, link, ring, broker>>
  BY DEF Stays
<1>3. /\ c \in Cleanups /\ c.id = cleanup.id /\ c.requested = cleanup.requested
      /\ cleanup.active => c = cleanup
      /\ c.active => cleanup.active \/ c.step = 1
      /\ cleanup.active \/ cleanup.pending => c.active \/ c.pending
  BY <1>1, SelectedIn
<1> HIDE DEF c
<1>4. Slot(delivery, cleanup, outbox, ring, job) /\ Len(ring.seen) <= RingCap
      /\ Gone(delivery, cleanup, outbox, ring, job, broker)
  BY <1>1 DEF SlotInv, ForgottenInv
<1>5. /\ cleanup' \in Cleanups /\ cleanup'.step = c.step /\ cleanup'.active = c.active
      /\ cleanup'.pending = c.pending /\ cleanup'.requested = c.requested
      /\ cleanup'.id # 0 => cleanup'.active
      /\ outbox' \subseteq Tombstones
      /\ Slot(delivery, cleanup', outbox', ring, job)
      /\ Gone(delivery, cleanup', outbox', ring, job, broker)
  <2>1. CASE may /\ c.active
    <3>1. outbox' = Enqueued(StepTopics[c.step]) /\ cleanup' = [c EXCEPT !.id = NextId]
      BY <2>1, <1>2
    <3>2. /\ cleanup' \in Cleanups /\ cleanup'.step = c.step /\ cleanup'.active = c.active
          /\ cleanup'.pending = c.pending /\ cleanup'.requested = c.requested
          /\ cleanup'.id = NextId
      BY <3>1, <1>3, NextIdIn DEF Cleanups
    <3>3. delivery.id = 0 /\ ~delivery.confirmed /\ cleanup.id = 0 /\ delivery.owner = "none"
      BY <2>1, <1>4 DEF Slot
    <3>4. outbox = {} /\ \A i \in DOMAIN ring.seen : ring.seen[i].id = 0
      BY <1>1, <1>4, <3>3, FreeSlot
    <3>5. c.step \in {1, 2} BY <1>3 DEF Cleanups
    <3>6. StepTopics[c.step] \in Topics BY <3>5, StepTopicsAre DEF Topics
    <3>7. Tombstone(delivery, cleanup', job) = StepTopics[c.step]
      BY <3>2, NextIdIn DEF Tombstone
    <3>8. /\ Slot(delivery, cleanup', Enqueued(StepTopics[c.step]), ring, job)
          /\ Gone(delivery, cleanup', Enqueued(StepTopics[c.step]), ring, job, broker)
          /\ Enqueued(StepTopics[c.step]) \subseteq Tombstones
      BY <3>2, <3>3, <3>4, <3>6, <3>7, QueuedSlot
    <3> QED BY <3>1, <3>2, <3>8, <2>1
  <2>2. CASE ~(may /\ c.active)
    <3>1. outbox' = outbox /\ cleanup' = c BY <2>2, <1>2
    <3>2. c.id # 0 => c = cleanup BY <1>1, <1>3 DEF CleanInv
    <3>3. Tombstone(delivery, c, job) = Tombstone(delivery, cleanup, job)
      BY <3>2, <1>3 DEF Tombstone
    <3>4. Slot(delivery, c, outbox, ring, job) BY <3>3, <1>3, <1>4 DEF Slot
    <3>5. Gone(delivery, c, outbox, ring, job, broker) BY <3>3, <1>4 DEF Gone
    <3>6. c.id # 0 => c.active BY <3>2, <1>1 DEF CleanInv
    <3> QED BY <3>1, <3>4, <3>5, <3>6, <1>1, <1>3
  <2> QED BY <2>1, <2>2
<1>6. SlotInv' /\ ForgottenInv' BY <1>2, <1>4, <1>5 DEF SlotInv, ForgottenInv
<1>7. /\ task' \in Cycles /\ (task'.held <=> Suppressed(c))
      /\ task'.pc = (IF link = "up" THEN "announce" ELSE "top")
      /\ task'.loaded = task.loaded
      /\ task'.record = task.record /\ task'.discovered = task.discovered
      /\ task'.retired = task.retired /\ (task'.cleaned <=> task.cleaned)
  <2>1. Suppressed(c) \in BOOLEAN BY <1>3 DEF Suppressed, Cleanups
  <2>2. (IF link = "up" THEN "announce" ELSE "top") \in Places BY DEF Places
  <2>3. /\ task' \in Cycles /\ task'.held = Suppressed(c)
        /\ task'.pc = (IF link = "up" THEN "announce" ELSE "top")
        /\ task'.loaded = task.loaded
        /\ task'.record = task.record /\ task'.discovered = task.discovered
        /\ task'.retired = task.retired /\ task'.cleaned = task.cleaned
    BY <1>1, <1>2, <2>1, <2>2 DEF Cycles
  <2> QED BY <2>3
<1>8. RetShape' BY <1>1, <1>2, <1>5, <1>7 DEF RetShape
<1>9. CutInv'
  <2>1. task'.pc \notin {"save", "emit"} BY <1>7
  <2> QED BY <2>1, <1>1, <1>2, <1>7 DEF CutInv, Left, RowsOf, NoJob
<1>10. CleanInv'
  <2>1. task'.pc # "write" BY <1>7
  <2>2. cleanup'.active => task'.held BY <1>5, <1>7, Zenon DEF Suppressed
  <2>3. cleanup'.active /\ cleanup'.step = 2 => State \notin broker'
    <3>1. c.active /\ c.step = 2 => cleanup.active /\ cleanup.step = 2
      BY <1>3
    <3>2. cleanup.active /\ cleanup.step = 2 => State \notin broker BY <1>1 DEF CleanInv
    <3> QED BY <3>1, <3>2, <1>2, <1>5, Zenon
  <2>4. State \in broker' /\ ~config'.modbus =>
         ~task'.cleaned \/ cleanup'.requested \/ cleanup'.pending \/ cleanup'.active \/ config'.owes
    <3>1. State \in broker /\ ~config.modbus =>
           ~task.cleaned \/ cleanup.requested \/ cleanup.pending \/ cleanup.active \/ config.owes
      BY <1>1 DEF CleanInv
    <3>2. cleanup'.requested = cleanup.requested
          /\ (cleanup.active \/ cleanup.pending => cleanup'.active \/ cleanup'.pending)
      BY <1>3, <1>5, Zenon
    <3> QED BY <3>1, <3>2, <1>2, <1>7, Zenon
  <2> QED BY <2>1, <2>2, <2>3, <2>4, <1>5 DEF CleanInv
<1> QED BY <1>6, <1>8, <1>9, <1>10 DEF RetIInv

(* What a cursor waits for.                                                 *)
LEMMA TombstoneIs ==
  ASSUME RetShape, SlotInv
  PROVE  /\ cleanup.id = 0 => Tombstone(delivery, cleanup, job) # State
         /\ job.todo = {} => /\ Tombstone(delivery, cleanup, job) \in {State, Retired}
                             /\ delivery.owner # "profile"
         /\ delivery.owner = "profile" => Head1(job.todo) \in Configs
<1>1. delivery.owner = "profile" => job.todo # {} BY DEF SlotInv, Slot
<1>2. job.todo # {} => Head1(job.todo) \in Configs
  <2>1. job.todo \subseteq Configs BY DEF RetShape, Jobs
  <2> QED BY <2>1, HeadIn
<1>3. cleanup.step \in {1, 2} BY DEF RetShape, Cleanups
<1>4. StepTopics[cleanup.step] \in {State, Retired} BY <1>3, StepTopicsAre
<1> QED BY <1>1, <1>2, <1>4, Apart DEF Tombstone

(* What the task publishes is no topic whose tombstone is under way.        *)
LEMMA GrowsGone ==
  ASSUME SlotInv, ForgottenInv, NEW part, Tombstone(delivery, cleanup, job) \notin part,
         delivery.owner = "profile" => Head1(job.todo) \notin part,
         broker' = broker \cup part,
         UNCHANGED <<delivery, cleanup, outbox, ring, job>>
  PROVE  SlotInv' /\ ForgottenInv'
<1>1. \A item \in outbox : item.topic = Tombstone(delivery, cleanup, job)
  BY DEF SlotInv, Slot
<1>2. Gone(delivery, cleanup, outbox, ring, job, broker) BY DEF ForgottenInv
<1>3. \A item \in outbox : item.done => item.topic \notin broker \cup part
  BY <1>1, <1>2 DEF Gone
<1>4. \A i \in DOMAIN ring.seen : ring.seen[i].id # 0 /\ ring.seen[i].ok =>
        Tombstone(delivery, cleanup, job) \notin broker \cup part
  BY <1>2 DEF Gone
<1>5. delivery.confirmed /\ delivery.owner = "profile" => Head1(job.todo) \notin broker \cup part
  BY <1>2 DEF Gone
<1>6. Gone(delivery, cleanup, outbox, ring, job, broker \cup part)
  BY <1>3, <1>4, <1>5, Zenon DEF Gone
<1> QED BY <1>6 DEF SlotInv, ForgottenInv

LEMMA SavesRecordIInv == ASSUME RetIInv, SavesRecord, ~TornSaves PROVE RetIInv'
<1> USE DEF SavesRecord
<1>1. RetShape /\ SlotInv /\ ForgottenInv /\ CutInv /\ CleanInv /\ task \in Cycles
      /\ task.pc = "save" /\ task.pc \in AfterSource /\ {"emit", "state"} \subseteq Places
      /\ {"emit", "state"} \subseteq AfterSource
  BY DEF RetIInv, RetShape, At, AfterSource, Places
<1>2. task.loaded /\ job = NoJob /\ task.retired # "none" /\ Left \subseteq Rows[task.retired]
      /\ task.record = record /\ task.discovered = record /\ Left \subseteq RowsOf(record)
  BY <1>1 DEF CutInv, NoJob
<1>3. UNCHANGED <<config, job, delivery, cleanup, periodic, link, outbox, ring, broker>>
  OBVIOUS
<1>4. SlotInv' /\ ForgottenInv' BY <1>1, <1>3 DEF SlotInv, ForgottenInv
<1>5. task.retired \in Known BY <1>1 DEF Cycles
<1>6. CASE task' = [task EXCEPT !.record = task.retired, !.discovered = task.retired, !.pc = "emit"]
           /\ record' = IF task.record = task.retired THEN record ELSE task.retired
  <2>1. record' = task.retired BY <1>2, <1>6
  <2>2. /\ task' \in Cycles /\ task'.pc = "emit" /\ task'.held = task.held
        /\ task'.loaded = task.loaded
        /\ task'.record = task.retired /\ task'.discovered = task.retired
        /\ task'.retired = task.retired /\ task'.cleaned = task.cleaned
    BY <1>1, <1>5, <1>6 DEF Cycles
  <2>3. RetShape' BY <1>1, <1>3, <1>5, <2>1, <2>2 DEF RetShape
  <2>4. CutInv' BY <1>2, <1>3, <2>1, <2>2 DEF CutInv, Left, RowsOf, NoJob
  <2>5. CleanInv' BY <1>1, <1>3, <2>2 DEF CleanInv
  <2> QED BY <1>4, <2>3, <2>4, <2>5 DEF RetIInv
<1>7. CASE task' = OnTo("state") /\ record' \in {record} \cup (IF TornSaves THEN {task.retired} ELSE {})
  <2>1. record' = record BY <1>7
  <2> QED BY <1>1, <1>3, <1>7, <2>1, MovesIInv DEF OnTo, RetShape
<1> QED BY <1>6, <1>7

LEMMA EmitsIInv == ASSUME RetIInv, Emits PROVE RetIInv'
<1> USE DEF Emits
<1>1. RetShape /\ SlotInv /\ ForgottenInv /\ CutInv /\ CleanInv /\ task \in Cycles
      /\ task.pc = "emit" /\ task.pc \in AfterSource /\ "state" \in Places /\ "state" \in AfterSource
  BY DEF RetIInv, RetShape, At, AfterSource, Places
<1>2. task.loaded /\ job = NoJob /\ task.retired # "none" /\ Left \subseteq Rows[task.retired]
      /\ task.record = record /\ task.discovered = record /\ Left \subseteq RowsOf(record)
      /\ task.retired = record
  BY <1>1 DEF CutInv, NoJob
<1>3. UNCHANGED <<config, record, job, delivery, cleanup, periodic, outbox, ring>>
  OBVIOUS
<1>4. record \in Profiles BY <1>1, <1>2 DEF RetShape, Known
<1>5. Published(task.discovered) \subseteq Rows[record] /\ Rows[record] \subseteq Configs
  BY <1>2, <1>4, RowsIn DEF Published
<1>6. /\ link' \in {"up", "down", "stopped"}
      /\ \E part \in SUBSET Published(task.discovered), named \in {task.announced, task.prof} :
           /\ broker' = broker \cup part
           /\ task' = [task EXCEPT !.announced = named, !.pc = "state"]
  <2>1. task = [task EXCEPT !.announced = task.announced] BY <1>1 DEF Cycles
  <2>2. CASE task' = [task EXCEPT !.announced = task.prof, !.pc = "state"] /\ link' = link
             /\ broker' = broker \cup Published(task.discovered)
    BY <2>2, <1>1 DEF RetShape
  <2>3. CASE task' = [task EXCEPT !.pc = "state"] /\ link' = link /\ broker' = broker
    <3>1. task' = [task EXCEPT !.announced = task.announced, !.pc = "state"]
      BY <2>3, <1>1 DEF Cycles
    <3>2. {} \in SUBSET Published(task.discovered) /\ broker' = broker \cup {} BY <2>3
    <3> QED BY <2>3, <3>1, <3>2, <1>1 DEF RetShape
  <2>4. CASE link' = "down" /\ \E part \in SUBSET Published(task.discovered),
                                  named \in {task.announced, task.prof} :
           /\ broker' = broker \cup part
           /\ task' = [task EXCEPT !.announced = named, !.pc = "state"]
    BY <2>4
  <2> QED BY <2>2, <2>3, <2>4
<1>7. PICK part \in SUBSET Published(task.discovered), named \in {task.announced, task.prof} :
        /\ broker' = broker \cup part
        /\ task' = [task EXCEPT !.announced = named, !.pc = "state"]
  BY <1>6
<1>8. named \in Known \cup {"auto"} BY <1>1 DEF Cycles, Known
<1>9. /\ task' \in Cycles /\ task'.pc = "state" /\ task'.held = task.held
      /\ task'.loaded = task.loaded
      /\ task'.record = task.record /\ task'.discovered = task.discovered
      /\ task'.retired = task.retired /\ task'.cleaned = task.cleaned
  BY <1>1, <1>7, <1>8 DEF Cycles
<1>10. part \subseteq Rows[record] /\ part \subseteq Configs /\ State \notin part /\ Retired \notin part
  BY <1>5, Apart
<1>11. SlotInv' /\ ForgottenInv'
  <2>1. job.todo = {} BY <1>2 DEF NoJob
  <2>2. Tombstone(delivery, cleanup, job) \in {State, Retired} /\ delivery.owner # "profile"
    BY <1>1, <2>1, TombstoneIs
  <2> QED BY <1>1, <1>3, <1>7, <1>10, <2>2, GrowsGone
<1>12. RetShape'
  <2>1. broker' \subseteq Topics BY <1>1, <1>7, <1>10 DEF RetShape, Topics
  <2> QED BY <2>1, <1>1, <1>3, <1>6, <1>9 DEF RetShape
<1>13. CutInv'
  <2>1. Left' = Left \cup part BY <1>7, <1>10 DEF Left
  <2>2. RowsOf(record)' = Rows[record] /\ Left' \subseteq Rows[record]
    BY <2>1, <1>2, <1>3, <1>10 DEF RowsOf
  <2> QED BY <2>2, <1>2, <1>3, <1>9 DEF CutInv, NoJob
<1>14. CleanInv'
  <2>1. State \in broker' <=> State \in broker BY <1>7, <1>10
  <2> QED BY <2>1, <1>1, <1>3, <1>9 DEF CleanInv
<1> QED BY <1>11, <1>12, <1>13, <1>14 DEF RetIInv

LEMMA WritesIInv == ASSUME RetIInv, Writes PROVE RetIInv'
<1> USE DEF Writes
<1>1. RetShape /\ SlotInv /\ ForgottenInv /\ CutInv /\ CleanInv /\ task \in Cycles
      /\ task.pc = "write" /\ task.pc \in AfterSource /\ "top" \in Places /\ "top" \notin AfterSource
  BY DEF RetIInv, RetShape, At, AfterSource, Places
<1>2. UNCHANGED <<config, record, job, delivery, cleanup, periodic, link, outbox, ring>>
  BY DEF Stays
<1>3. ~task.held /\ ~task.cleaned /\ ~cleanup.active /\ cleanup.id = 0
  BY <1>1 DEF CleanInv
<1>4. \E part \in {{}, {State}} : broker' = broker \cup part
  BY Zenon
<1>5. PICK part \in {{}, {State}} : broker' = broker \cup part BY <1>4
<1>6. /\ task' \in Cycles /\ task'.pc = "top" /\ task'.held = task.held
      /\ task'.loaded = task.loaded
      /\ task'.record = task.record /\ task'.discovered = task.discovered
      /\ task'.retired = task.retired /\ task'.cleaned = task.cleaned
  <2>1. CASE task' = [task EXCEPT !.known = TRUE, !.pc = "top"] BY <2>1, <1>1 DEF Cycles
  <2>2. CASE task' = OnTo("top") BY <2>2, <1>1 DEF Cycles, OnTo
  <2> QED BY <2>1, <2>2
<1>7. SlotInv' /\ ForgottenInv'
  <2>1. Tombstone(delivery, cleanup, job) # State /\ (delivery.owner = "profile" => Head1(job.todo) # State)
    BY <1>1, <1>3, TombstoneIs, Apart
  <2> QED BY <1>1, <1>2, <1>5, <2>1, GrowsGone
<1>8. RetShape'
  <2>1. broker' \subseteq Topics BY <1>1, <1>5 DEF RetShape, Topics
  <2> QED BY <2>1, <1>1, <1>2, <1>6 DEF RetShape
<1>9. CutInv'
  <2>1. Left' = Left BY <1>5, Apart DEF Left
  <2> QED BY <2>1, <1>1, <1>2, <1>6 DEF CutInv, RowsOf, NoJob
<1>10. CleanInv' BY <1>1, <1>2, <1>3, <1>6 DEF CleanInv
<1> QED BY <1>7, <1>8, <1>9, <1>10 DEF RetIInv

LEMMA IntendsIInv == ASSUME RetIInv, Intends PROVE RetIInv'
<1> USE DEF Intends
<1>1. RetShape /\ SlotInv /\ ForgottenInv /\ CutInv /\ CleanInv /\ task \in Cycles /\ cleanup \in Cleanups
      /\ task.pc \in AfterSource /\ {"top", "write"} \subseteq Places /\ "top" \notin AfterSource
      /\ config \in Configurations
  BY DEF RetIInv, RetShape, At, AfterSource, Places
<1>2. UNCHANGED <<config, record, job, delivery, periodic, link, outbox, ring, broker>>
  BY DEF Stays
<1>3. CASE task.held
  BY <1>1, <1>2, <1>3, MovesIInv DEF OnTo, RetShape
<1>4. CASE ~task.held /\ config.modbus
  <2>1. /\ task' \in Cycles /\ task'.pc \in {"top", "write"} /\ task'.held = task.held
        /\ task'.loaded = task.loaded
        /\ task'.record = task.record /\ task'.discovered = task.discovered
        /\ task'.retired = task.retired /\ task'.cleaned = FALSE
    BY <1>1, <1>4 DEF Cycles
  <2>2. cleanup' = cleanup BY <1>4
  <2>3. RetShape' BY <1>1, <1>2, <2>1, <2>2 DEF RetShape
  <2>4. SlotInv' /\ ForgottenInv' BY <1>1, <1>2, <2>2 DEF SlotInv, ForgottenInv
  <2>5. CutInv' BY <1>1, <1>2, <2>1 DEF CutInv, Left, RowsOf, NoJob
  <2>6. ~task'.cleaned /\ ~task'.held BY <2>1, <1>4, Zenon
  <2>7. ~cleanup.active BY <1>1, <1>4 DEF CleanInv
  <2>8. CleanInv' BY <1>1, <1>2, <2>2, <2>6, <2>7, Zenon DEF CleanInv
  <2> QED BY <2>3, <2>4, <2>5, <2>8 DEF RetIInv
<1>5. CASE ~task.held /\ ~config.modbus
  <2>1. /\ task' = OnTo("top") /\ cleanup' = [cleanup EXCEPT !.requested = @ \/ ~task.cleaned]
    BY <1>5
  <2>2. /\ task' \in Cycles /\ task'.pc = "top" /\ task'.held = task.held
        /\ task'.loaded = task.loaded
        /\ task'.record = task.record /\ task'.discovered = task.discovered
        /\ task'.retired = task.retired /\ task'.cleaned = task.cleaned
    BY <1>1, <2>1 DEF Cycles, OnTo
  <2>3. (cleanup.requested \/ ~task.cleaned) \in BOOLEAN OBVIOUS
  <2>4. /\ cleanup' \in Cleanups /\ cleanup'.id = cleanup.id /\ cleanup'.step = cleanup.step
        /\ cleanup'.active = cleanup.active /\ cleanup'.pending = cleanup.pending
        /\ cleanup'.requested = (cleanup.requested \/ ~task.cleaned)
    BY <1>1, <2>1, <2>3 DEF Cleanups
  <2>5. RetShape' BY <1>1, <1>2, <2>2, <2>4 DEF RetShape
  <2>6. Tombstone(delivery, cleanup', job) = Tombstone(delivery, cleanup, job)
    BY <2>4 DEF Tombstone
  <2>7. Slot(delivery, cleanup, outbox, ring, job) /\ Gone(delivery, cleanup, outbox, ring, job, broker)
        /\ Len(ring.seen) <= RingCap
    BY <1>1 DEF SlotInv, ForgottenInv
  <2>8. Slot(delivery, cleanup', outbox, ring, job) BY <2>4, <2>6, <2>7 DEF Slot
  <2>9. Gone(delivery, cleanup', outbox, ring, job, broker) BY <2>4, <2>6, <2>7 DEF Gone
  <2>10. SlotInv' /\ ForgottenInv' BY <1>2, <2>7, <2>8, <2>9 DEF SlotInv, ForgottenInv
  <2>11. CutInv' BY <1>1, <1>2, <2>2 DEF CutInv, Left, RowsOf, NoJob
  <2>12. task'.pc \notin AfterSource /\ task'.pc # "write" BY <2>2, <1>1
  <2>13. (cleanup'.active <=> cleanup.active) /\ (cleanup'.requested <=> cleanup.requested \/ ~task.cleaned)
         /\ (task'.cleaned <=> task.cleaned)
    BY <2>2, <2>4, Zenon
  <2>14. CleanInv' BY <1>1, <1>2, <2>4, <2>12, <2>13 DEF CleanInv
  <2> QED BY <2>5, <2>10, <2>11, <2>14 DEF RetIInv
<1> QED BY <1>3, <1>4, <1>5

-----------------------------------------------------------------------------
(* esp-mqtt's task, the HTTP task, a reboot *)

LEMMA StopsIInv == ASSUME RetIInv, Stops PROVE RetIInv'
<1> USE DEF Stops
<1>1. RetShape /\ SlotInv /\ ForgottenInv /\ CutInv /\ CleanInv /\ cleanup \in Cleanups
  BY DEF RetIInv, RetShape
<1>2. UNCHANGED <<config, record, task, job, periodic, broker>> /\ link' = "stopped"
  BY DEF Forgotten
<1>3. /\ delivery' \in Deliveries /\ cleanup' \in Cleanups /\ outbox' \subseteq Tombstones
      /\ ring' \in Rings /\ SlotInv' /\ ForgottenInv'
      /\ cleanup' = [cleanup EXCEPT !.id = 0]
  BY <1>1, <1>2, ForgottenSlot
<1>4. RetShape' BY <1>1, <1>2, <1>3 DEF RetShape
<1>5. CutInv' BY <1>1, <1>2 DEF CutInv, Left, RowsOf, NoJob
<1>6. /\ cleanup'.id = 0 /\ cleanup'.active = cleanup.active /\ cleanup'.step = cleanup.step
      /\ cleanup'.pending = cleanup.pending /\ cleanup'.requested = cleanup.requested
  BY <1>1, <1>3 DEF Cleanups
<1>7. CleanInv' BY <1>1, <1>2, <1>6 DEF CleanInv
<1> QED BY <1>3, <1>4, <1>5, <1>7 DEF RetIInv

LEMMA ConnectsIInv == ASSUME RetIInv, Connects PROVE RetIInv'
<1> USE DEF Connects
<1>1. RetShape /\ SlotInv /\ ForgottenInv /\ CutInv /\ CleanInv /\ task \in Cycles
  BY DEF RetIInv, RetShape
<1>2. /\ UNCHANGED <<config, record, job, delivery, cleanup, periodic, outbox, ring, broker>>
      /\ link' = "up"
  BY DEF TaskOnly
<1>3. /\ task' \in Cycles /\ task'.pc = task.pc /\ task'.held = task.held
      /\ task'.loaded = task.loaded
      /\ task'.record = task.record /\ task'.discovered = task.discovered
      /\ task'.retired = task.retired /\ task'.cleaned = task.cleaned
  BY <1>1 DEF Cycles
<1>4. RetShape' BY <1>1, <1>2, <1>3 DEF RetShape
<1>5. SlotInv' /\ ForgottenInv' BY <1>1, <1>2 DEF SlotInv, ForgottenInv
<1>6. CutInv' BY <1>1, <1>2, <1>3 DEF CutInv, Left, RowsOf, NoJob
<1>7. CleanInv' BY <1>1, <1>2, <1>3 DEF CleanInv
<1> QED BY <1>4, <1>5, <1>6, <1>7 DEF RetIInv

(* A step of esp-mqtt's task or the broker: the cursors are not touched,    *)
(* and at the broker topics only go.                                        *)
LEMMA TaskOnlyIInv ==
  ASSUME RetIInv, TaskOnly, task' = task, link' \in {"up", "down", "stopped"},
         outbox' \subseteq Tombstones, ring' \in Rings, broker' \subseteq broker,
         SlotInv', ForgottenInv'
  PROVE  RetIInv'
<1>1. RetShape /\ CutInv /\ CleanInv BY DEF RetIInv
<1>2. UNCHANGED <<config, record, job, delivery, cleanup, periodic>> BY DEF TaskOnly
<1>3. RetShape' BY <1>1, <1>2 DEF RetShape
<1>4. CutInv'
  <2>1. Left' \subseteq Left BY DEF Left
  <2> QED BY <2>1, <1>1, <1>2 DEF CutInv, RowsOf, NoJob
<1>5. CleanInv' BY <1>1, <1>2 DEF CleanInv
<1> QED BY <1>3, <1>4, <1>5 DEF RetIInv

(* The one tombstone, sent again or delivered: changed in what is done.     *)
LEMMA SentSlot ==
  ASSUME RetShape, SlotInv, ForgottenInv, NEW o, NEW b, NEW done \in BOOLEAN,
         o = {[item EXCEPT !.done = done] : item \in outbox}, b \subseteq broker,
         done => \A item \in outbox : item.topic \notin b,
         outbox' = o, broker' = b, UNCHANGED <<delivery, cleanup, ring, job>>
  PROVE  o \subseteq Tombstones /\ SlotInv' /\ ForgottenInv'
<1>1. outbox \subseteq Tombstones BY DEF RetShape
<1>2. \A new \in o : \E item \in outbox : new \in Tombstones /\ new.id = item.id
                                           /\ new.topic = item.topic /\ new.done = done
  <2> SUFFICES ASSUME NEW item \in outbox
               PROVE  LET new == [item EXCEPT !.done = done]
                      IN  new \in Tombstones /\ new.id = item.id /\ new.topic = item.topic
                          /\ new.done = done
    BY Zenon
  <2> QED BY <1>1 DEF Tombstones
<1>3. \A item \in outbox : \E new \in o : new.id = item.id
  <2> SUFFICES ASSUME NEW item \in outbox PROVE \E new \in o : new.id = item.id OBVIOUS
  <2>1. [item EXCEPT !.done = done] \in o OBVIOUS
  <2>2. [item EXCEPT !.done = done].id = item.id BY <1>1 DEF Tombstones
  <2> QED BY <2>1, <2>2
<1>4. \A new, sibling \in o : new = sibling
  <2> SUFFICES ASSUME NEW x \in outbox, NEW y \in outbox
               PROVE  [x EXCEPT !.done = done] = [y EXCEPT !.done = done]
    BY Zenon
  <2>1. x = y BY DEF SlotInv, Slot
  <2> QED BY <2>1
<1>5. Slot(delivery, cleanup, outbox, ring, job) /\ Len(ring.seen) <= RingCap BY DEF SlotInv
<1>6. Gone(delivery, cleanup, outbox, ring, job, broker) BY DEF ForgottenInv
<1>7. \A id : HeardOf(id, outbox, ring) => HeardOf(id, o, ring)
  BY <1>3, Zenon DEF HeardOf
<1>8. \A new \in o : new.id \in {delivery.id, cleanup.id} /\ new.topic = Tombstone(delivery, cleanup, job)
  <2>1. \A item \in outbox : item.id \in {delivery.id, cleanup.id}
                              /\ item.topic = Tombstone(delivery, cleanup, job)
    BY <1>5 DEF Slot
  <2> SUFFICES ASSUME NEW new \in o
               PROVE  new.id \in {delivery.id, cleanup.id}
                      /\ new.topic = Tombstone(delivery, cleanup, job)
    OBVIOUS
  <2>2. PICK item \in outbox : new.id = item.id /\ new.topic = item.topic BY <1>2
  <2> QED BY <2>1, <2>2
<1>9. \A i \in DOMAIN ring.seen, new \in o : ring.seen[i].id # new.id
  <2>1. \A i \in DOMAIN ring.seen, item \in outbox : ring.seen[i].id # item.id
    BY <1>5 DEF Slot
  <2> SUFFICES ASSUME NEW i \in DOMAIN ring.seen, NEW new \in o PROVE ring.seen[i].id # new.id
    OBVIOUS
  <2>2. PICK item \in outbox : new.id = item.id BY <1>2
  <2> QED BY <2>1, <2>2
<1>10. Slot(delivery, cleanup, o, ring, job)
  BY <1>4, <1>5, <1>7, <1>8, <1>9 DEF Slot
<1>11. \A new \in o : new.done => new.topic \notin b BY <1>2, Zenon
<1>12. Gone(delivery, cleanup, o, ring, job, b)
  BY <1>6, <1>11 DEF Gone
<1> QED BY <1>2, <1>5, <1>10, <1>12 DEF SlotInv, ForgottenInv

LEMMA DropsIInv == ASSUME RetIInv, Drops PROVE RetIInv'
<1> USE DEF Drops
<1>1. RetShape /\ SlotInv /\ ForgottenInv BY DEF RetIInv
<1>2. UNCHANGED <<delivery, cleanup, ring, job, broker, task>> /\ link' = "down" BY DEF TaskOnly
<1>3. outbox' = {[item EXCEPT !.done = FALSE] : item \in outbox} OBVIOUS
<1>4. outbox' \subseteq Tombstones /\ SlotInv' /\ ForgottenInv'
  BY <1>1, <1>2, <1>3, SentSlot
<1>5. ring' \in Rings BY <1>1, <1>2 DEF RetShape
<1> QED BY <1>1, <1>2, <1>4, <1>5, TaskOnlyIInv

LEMMA DeletesIInv == ASSUME RetIInv, Deletes PROVE RetIInv'
<1> USE DEF Deletes
<1>1. RetShape /\ SlotInv /\ ForgottenInv BY DEF RetIInv
<1>2. UNCHANGED <<delivery, cleanup, ring, job, task, link>> BY DEF TaskOnly
<1>3. PICK item \in outbox :
        /\ broker' = broker \ {item.topic}
        /\ outbox' = (outbox \ {item}) \cup {[item EXCEPT !.done = TRUE]}
  OBVIOUS
<1>4. \A x \in outbox : x = item BY <1>1 DEF SlotInv, Slot
<1>5. outbox' = {[x EXCEPT !.done = TRUE] : x \in outbox}
  <2>1. outbox = {item} BY <1>4
  <2> QED BY <2>1, <1>3
<1>6. broker' \subseteq broker /\ \A x \in outbox : x.topic \notin broker' BY <1>3, <1>4
<1>7. outbox' \subseteq Tombstones /\ SlotInv' /\ ForgottenInv'
  BY <1>1, <1>2, <1>5, <1>6, SentSlot
<1>8. ring' \in Rings /\ link' \in {"up", "down", "stopped"} BY <1>1, <1>2 DEF RetShape
<1> QED BY <1>1, <1>2, <1>6, <1>7, <1>8, TaskOnlyIInv

(* Evidence comes in: of the tombstone that leaves the outbox, or of a      *)
(* message of somebody else.                                                *)
LEMMA ReportsRing ==
  ASSUME RetShape, NEW id \in 0..2, NEW ok \in BOOLEAN, Reports(id, ok),
         Len(ring.seen) <= RingCap
  PROVE  /\ ring' \in Rings /\ Len(ring'.seen) <= RingCap
         /\ \A i \in DOMAIN ring'.seen : \/ i \in DOMAIN ring.seen /\ ring'.seen[i] = ring.seen[i]
                                         \/ ring'.seen[i].id = id /\ ring'.seen[i].ok = ok
         /\ \A i \in DOMAIN ring.seen : i \in DOMAIN ring'.seen /\ ring'.seen[i] = ring.seen[i]
         /\ ring.lost => ring'.lost
         /\ ring'.lost \/ \E i \in DOMAIN ring'.seen : ring'.seen[i].id = id
<1>1. ring \in Rings /\ ring.seen \in Seq(Evidence) /\ RingCap \in Nat
  BY RetAssumption DEF RetShape, Rings
<1> DEFINE e == [id |-> id, ok |-> ok]
<1>2. e \in Evidence /\ e.id = id /\ e.ok = ok BY DEF Evidence
<1> HIDE DEF e
<1>3. CASE Len(ring.seen) < RingCap
  <2>1. ring' = [ring EXCEPT !.seen = Append(ring.seen, e)] BY <1>3 DEF Reports, e
  <2>2. /\ Append(ring.seen, e) \in Seq(Evidence)
        /\ Len(Append(ring.seen, e)) = Len(ring.seen) + 1
        /\ \A i \in 1..Len(ring.seen) : Append(ring.seen, e)[i] = ring.seen[i]
        /\ Append(ring.seen, e)[Len(ring.seen) + 1] = e
        /\ DOMAIN ring.seen = 1..Len(ring.seen) /\ Len(ring.seen) \in Nat
        /\ DOMAIN Append(ring.seen, e) = 1..(Len(ring.seen) + 1)
    BY <1>1, <1>2
  <2>3. ring' \in Rings /\ ring'.seen = Append(ring.seen, e) /\ ring'.lost = ring.lost
    BY <2>1, <2>2, <1>1 DEF Rings
  <2>4. \A i \in 1..(Len(ring.seen) + 1) : i \in 1..Len(ring.seen) \/ i = Len(ring.seen) + 1
    BY <2>2
  <2>5. Len(ring'.seen) <= RingCap BY <2>2, <2>3, <1>1, <1>3
  <2>6. \A i \in DOMAIN ring'.seen : \/ i \in DOMAIN ring.seen /\ ring'.seen[i] = ring.seen[i]
                                     \/ ring'.seen[i].id = id /\ ring'.seen[i].ok = ok
    BY <2>2, <2>3, <2>4, <1>2
  <2>7. \A i \in DOMAIN ring.seen : i \in DOMAIN ring'.seen /\ ring'.seen[i] = ring.seen[i]
    BY <2>2, <2>3
  <2>8. \E i \in DOMAIN ring'.seen : ring'.seen[i].id = id
    <3>1. Len(ring.seen) + 1 \in DOMAIN ring'.seen BY <2>2, <2>3
    <3>2. ring'.seen[Len(ring.seen) + 1].id = id BY <2>2, <2>3, <1>2
    <3> QED BY <3>1, <3>2
  <2> QED BY <2>3, <2>5, <2>6, <2>7, <2>8
<1>4. CASE ~(Len(ring.seen) < RingCap)
  <2>1. ring' = [ring EXCEPT !.lost = TRUE] BY <1>4 DEF Reports
  <2>2. ring' \in Rings /\ ring'.seen = ring.seen /\ ring'.lost = TRUE BY <2>1, <1>1 DEF Rings
  <2> QED BY <2>2
<1> QED BY <1>3, <1>4

LEMMA HeardLater ==
  ASSUME RetShape, NEW id \in 0..2, NEW ok \in BOOLEAN, Reports(id, ok),
         Len(ring.seen) <= RingCap, NEW o, \A item \in outbox : item \in o \/ item.id = id
  PROVE  \A x : HeardOf(x, outbox, ring) => HeardOf(x, o, ring')
<1>1. /\ \A i \in DOMAIN ring.seen : i \in DOMAIN ring'.seen /\ ring'.seen[i] = ring.seen[i]
      /\ ring.lost => ring'.lost
      /\ ring'.lost \/ \E i \in DOMAIN ring'.seen : ring'.seen[i].id = id
  BY ReportsRing
<1> SUFFICES ASSUME NEW x, HeardOf(x, outbox, ring) PROVE HeardOf(x, o, ring') OBVIOUS
<1>2. CASE \E item \in outbox : item.id = x
  BY <1>1, <1>2, Zenon DEF HeardOf
<1>3. CASE \E i \in DOMAIN ring.seen : ring.seen[i].id = x
  <2>1. PICK i \in DOMAIN ring.seen : ring.seen[i].id = x BY <1>3
  <2>2. i \in DOMAIN ring'.seen /\ ring'.seen[i].id = x BY <1>1, <2>1
  <2> QED BY <2>2 DEF HeardOf
<1>4. CASE ring.lost BY <1>1, <1>4 DEF HeardOf
<1> QED BY <1>2, <1>3, <1>4 DEF HeardOf

LEMMA HeardTombstone ==
  ASSUME RetShape, SlotInv, ForgottenInv, NEW item \in outbox, NEW ok \in BOOLEAN,
         outbox' = outbox \ {item}, Reports(item.id, ok), ok => item.topic \notin broker,
         UNCHANGED <<delivery, cleanup, job, broker>>
  PROVE  outbox' \subseteq Tombstones /\ ring' \in Rings /\ SlotInv' /\ ForgottenInv'
<1>1. outbox \subseteq Tombstones BY DEF RetShape
<1>2. item.id \in 1..2 /\ item.id \in 0..2 /\ item.id # 0 BY <1>1 DEF Tombstones
<1>3. Slot(delivery, cleanup, outbox, ring, job) /\ Len(ring.seen) <= RingCap
      /\ Gone(delivery, cleanup, outbox, ring, job, broker)
  BY DEF SlotInv, ForgottenInv
<1>4. /\ ring' \in Rings /\ Len(ring'.seen) <= RingCap
      /\ \A i \in DOMAIN ring'.seen : \/ i \in DOMAIN ring.seen /\ ring'.seen[i] = ring.seen[i]
                                      \/ ring'.seen[i].id = item.id /\ ring'.seen[i].ok = ok
  BY <1>2, <1>3, ReportsRing
<1>5. outbox' = {} BY <1>3 DEF Slot
<1>6. item.id \in {delivery.id, cleanup.id} /\ item.topic = Tombstone(delivery, cleanup, job)
  BY <1>3 DEF Slot
<1>7. \A x : HeardOf(x, outbox, ring) => HeardOf(x, outbox', ring')
  <2>1. \A y \in outbox : y \in outbox' \/ y.id = item.id OBVIOUS
  <2> QED BY <2>1, <1>2, <1>3, HeardLater
<1>8. \A i \in DOMAIN ring'.seen : ring'.seen[i].id \in {delivery.id, cleanup.id, 0}
  <2>1. \A i \in DOMAIN ring.seen : ring.seen[i].id \in {delivery.id, cleanup.id, 0}
    BY <1>3 DEF Slot
  <2> QED BY <2>1, <1>4, <1>6
<1>9. Slot(delivery, cleanup, outbox', ring', job)
  BY <1>3, <1>5, <1>7, <1>8 DEF Slot
<1>10. \A i \in DOMAIN ring'.seen : ring'.seen[i].id # 0 /\ ring'.seen[i].ok =>
         Tombstone(delivery, cleanup, job) \notin broker
  <2>1. \A i \in DOMAIN ring.seen : ring.seen[i].id # 0 /\ ring.seen[i].ok =>
         Tombstone(delivery, cleanup, job) \notin broker
    BY <1>3 DEF Gone
  <2> SUFFICES ASSUME NEW i \in DOMAIN ring'.seen, ring'.seen[i].id # 0, ring'.seen[i].ok
               PROVE  Tombstone(delivery, cleanup, job) \notin broker
    OBVIOUS
  <2>2. CASE i \in DOMAIN ring.seen /\ ring'.seen[i] = ring.seen[i] BY <2>1, <2>2
  <2>3. CASE ring'.seen[i].ok = ok
    <3>1. ok BY <2>3, Zenon
    <3> QED BY <3>1, <1>6
  <2> QED BY <2>2, <2>3, <1>4
<1>11. Gone(delivery, cleanup, outbox', ring', job, broker)
  BY <1>3, <1>5, <1>10 DEF Gone
<1> QED BY <1>4, <1>5, <1>9, <1>11 DEF SlotInv, ForgottenInv

LEMMA AcknowledgesIInv == ASSUME RetIInv, Acknowledges PROVE RetIInv'
<1> USE DEF Acknowledges
<1>1. RetShape /\ SlotInv /\ ForgottenInv BY DEF RetIInv
<1>2. UNCHANGED <<delivery, cleanup, job, broker, task, link>> BY DEF TaskOnly
<1>3. PICK item \in outbox : item.done /\ outbox' = outbox \ {item} /\ Reports(item.id, TRUE)
  OBVIOUS
<1>4. item.topic \notin broker BY <1>1, <1>3 DEF ForgottenInv, Gone
<1>5. outbox' \subseteq Tombstones /\ ring' \in Rings /\ SlotInv' /\ ForgottenInv'
  BY <1>1, <1>2, <1>3, <1>4, HeardTombstone
<1>6. link' \in {"up", "down", "stopped"} BY <1>1, <1>2 DEF RetShape
<1> QED BY <1>2, <1>5, <1>6, TaskOnlyIInv

LEMMA ExpiresIInv == ASSUME RetIInv, Expires PROVE RetIInv'
<1> USE DEF Expires
<1>1. RetShape /\ SlotInv /\ ForgottenInv BY DEF RetIInv
<1>2. UNCHANGED <<delivery, cleanup, job, broker, task, link>> BY DEF TaskOnly
<1>3. PICK item \in outbox : outbox' = outbox \ {item} /\ Reports(item.id, FALSE)
  OBVIOUS
<1>5. outbox' \subseteq Tombstones /\ ring' \in Rings /\ SlotInv' /\ ForgottenInv'
  BY <1>1, <1>2, <1>3, HeardTombstone
<1>6. link' \in {"up", "down", "stopped"} BY <1>1, <1>2 DEF RetShape
<1> QED BY <1>2, <1>5, <1>6, TaskOnlyIInv

LEMMA ReportsOtherIInv == ASSUME RetIInv, ReportsOther PROVE RetIInv'
<1> USE DEF ReportsOther
<1>1. RetShape /\ SlotInv /\ ForgottenInv /\ outbox \subseteq Tombstones BY DEF RetIInv, RetShape
<1>2. UNCHANGED <<delivery, cleanup, job, broker, task, link, outbox>> BY DEF TaskOnly
<1>3. Slot(delivery, cleanup, outbox, ring, job) /\ Len(ring.seen) <= RingCap
      /\ Gone(delivery, cleanup, outbox, ring, job, broker)
  BY <1>1 DEF SlotInv, ForgottenInv
<1>4. 0 \in 0..2 /\ TRUE \in BOOLEAN OBVIOUS
<1>5. /\ ring' \in Rings /\ Len(ring'.seen) <= RingCap
      /\ \A i \in DOMAIN ring'.seen : \/ i \in DOMAIN ring.seen /\ ring'.seen[i] = ring.seen[i]
                                      \/ ring'.seen[i].id = 0
  BY <1>1, <1>3, <1>4, ReportsRing
<1>6. \A x : HeardOf(x, outbox, ring) => HeardOf(x, outbox, ring')
  <2>1. \A y \in outbox : y \in outbox \/ y.id = 0 OBVIOUS
  <2> QED BY <2>1, <1>1, <1>3, <1>4, HeardLater
<1>7. \A item \in outbox : item.id # 0 BY <1>1 DEF Tombstones
<1>8. \A i \in DOMAIN ring'.seen : ring'.seen[i].id \in {delivery.id, cleanup.id, 0}
  <2>1. \A i \in DOMAIN ring.seen : ring.seen[i].id \in {delivery.id, cleanup.id, 0}
    BY <1>3 DEF Slot
  <2> QED BY <2>1, <1>5
<1>9. \A i \in DOMAIN ring'.seen, item \in outbox : ring'.seen[i].id # item.id
  <2>1. \A i \in DOMAIN ring.seen, item \in outbox : ring.seen[i].id # item.id
    BY <1>3 DEF Slot
  <2> QED BY <2>1, <1>5, <1>7
<1>10. Slot(delivery, cleanup, outbox, ring', job)
  BY <1>3, <1>6, <1>8, <1>9 DEF Slot
<1>11. Gone(delivery, cleanup, outbox, ring', job, broker)
  BY <1>3, <1>5 DEF Gone
<1>12. SlotInv' /\ ForgottenInv' BY <1>2, <1>5, <1>10, <1>11 DEF SlotInv, ForgottenInv
<1>13. link' \in {"up", "down", "stopped"} /\ outbox' \subseteq Tombstones
  BY <1>1, <1>2 DEF RetShape
<1> QED BY <1>2, <1>5, <1>12, <1>13, TaskOnlyIInv

LEMMA SetsProfileIInv == ASSUME RetIInv, SetsProfile PROVE RetIInv'
<1> USE DEF SetsProfile
<1>1. RetShape /\ SlotInv /\ ForgottenInv /\ CutInv /\ CleanInv /\ config \in Configurations
  BY DEF RetIInv, RetShape
<1>2. UNCHANGED <<record, task, job, delivery, cleanup, periodic, link, outbox, ring, broker>>
  BY DEF SetOnly
<1>3. PICK p \in Profiles \cup {"auto"} : config' = [config EXCEPT !.profile = p] OBVIOUS
<1>4. config' \in Configurations /\ config'.modbus = config.modbus /\ config'.owes = config.owes
  BY <1>1, <1>3 DEF Configurations
<1>5. RetShape' BY <1>1, <1>2, <1>4 DEF RetShape
<1>6. SlotInv' /\ ForgottenInv' BY <1>1, <1>2 DEF SlotInv, ForgottenInv
<1>7. CutInv' BY <1>1, <1>2 DEF CutInv, Left, RowsOf, NoJob
<1>8. CleanInv' BY <1>1, <1>2, <1>4 DEF CleanInv
<1> QED BY <1>5, <1>6, <1>7, <1>8 DEF RetIInv

LEMMA SetsSourceIInv == ASSUME RetIInv, SetsSource PROVE RetIInv'
<1> USE DEF SetsSource
<1>1. RetShape /\ SlotInv /\ ForgottenInv /\ CutInv /\ CleanInv /\ config \in Configurations
  BY DEF RetIInv, RetShape
<1>2. UNCHANGED <<record, task, job, delivery, cleanup, periodic, link, outbox, ring, broker>>
  BY DEF SetOnly
<1>3. config' = [config EXCEPT !.modbus = ~@, !.owes = config.modbus] OBVIOUS
<1>4. config' \in Configurations /\ config'.modbus = ~config.modbus /\ config'.owes = config.modbus
  BY <1>1, <1>3 DEF Configurations
<1>5. RetShape' BY <1>1, <1>2, <1>4 DEF RetShape
<1>6. SlotInv' /\ ForgottenInv' BY <1>1, <1>2 DEF SlotInv, ForgottenInv
<1>7. CutInv' BY <1>1, <1>2 DEF CutInv, Left, RowsOf, NoJob
<1>8. ~config'.modbus => config'.owes BY <1>4, Zenon
<1>9. CleanInv' BY <1>1, <1>2, <1>8 DEF CleanInv
<1> QED BY <1>5, <1>6, <1>7, <1>9 DEF RetIInv

LEMMA RequestsCleanupIInv == ASSUME RetIInv, RequestsCleanup PROVE RetIInv'
<1> USE DEF RequestsCleanup
<1>1. RetShape /\ SlotInv /\ ForgottenInv /\ CutInv /\ CleanInv /\ config \in Configurations
      /\ cleanup \in Cleanups
  BY DEF RetIInv, RetShape
<1>2. UNCHANGED <<record, task, job, delivery, periodic, link, outbox, ring, broker>>
  BY DEF SetOnly
<1>3. config' \in Configurations /\ config'.modbus = config.modbus BY <1>1 DEF Configurations
<1>4. /\ cleanup' \in Cleanups /\ cleanup'.id = cleanup.id /\ cleanup'.step = cleanup.step
      /\ cleanup'.active = cleanup.active /\ cleanup'.requested = TRUE
  BY <1>1 DEF Cleanups
<1>5. RetShape' BY <1>1, <1>2, <1>3, <1>4 DEF RetShape
<1>6. Tombstone(delivery, cleanup', job) = Tombstone(delivery, cleanup, job)
  BY <1>4 DEF Tombstone
<1>7. Slot(delivery, cleanup, outbox, ring, job) /\ Gone(delivery, cleanup, outbox, ring, job, broker)
      /\ Len(ring.seen) <= RingCap
  BY <1>1 DEF SlotInv, ForgottenInv
<1>8. Slot(delivery, cleanup', outbox, ring, job) BY <1>4, <1>6, <1>7 DEF Slot
<1>9. Gone(delivery, cleanup', outbox, ring, job, broker) BY <1>6, <1>7 DEF Gone
<1>10. SlotInv' /\ ForgottenInv' BY <1>2, <1>7, <1>8, <1>9 DEF SlotInv, ForgottenInv
<1>11. CutInv' BY <1>1, <1>2 DEF CutInv, Left, RowsOf, NoJob
<1>12. (cleanup'.active <=> cleanup.active) /\ cleanup'.requested BY <1>4, Zenon
<1>13. CleanInv' BY <1>1, <1>2, <1>4, <1>12 DEF CleanInv
<1> QED BY <1>5, <1>10, <1>11, <1>13 DEF RetIInv

(* Nothing in flight: the state of a boot.                                  *)
LEMMA FreshIn ==
  /\ Fresh \in Cycles /\ NoJob \in Jobs /\ NoDelivery \in Deliveries /\ NoCleanup \in Cleanups
  /\ NoEvidence \in Rings /\ DOMAIN NoEvidence.seen = {} /\ Len(NoEvidence.seen) = 0
  /\ Fresh.pc = "top" /\ ~Fresh.loaded /\ ~Fresh.cleaned /\ Fresh.retired = "none"
<1>1. Fresh \in Cycles BY DEF Fresh, Cycles, Places, Known
<1>2. NoJob \in Jobs BY DEF NoJob, Jobs, Known
<1>3. 0 \in 0..2 /\ 1 \in 1..2 OBVIOUS
<1>4. NoDelivery \in Deliveries BY <1>3 DEF NoDelivery, Deliveries
<1>5. NoCleanup \in Cleanups BY <1>3 DEF NoCleanup, Cleanups
<1>6. <<>> \in Seq(Evidence) /\ Len(<<>>) = 0 /\ DOMAIN <<>> = {} OBVIOUS
<1>7. NoEvidence \in Rings /\ NoEvidence.seen = <<>> BY <1>6 DEF NoEvidence, Rings
<1>8. Fresh.pc = "top" /\ ~Fresh.loaded /\ ~Fresh.cleaned /\ Fresh.retired = "none" BY DEF Fresh
<1> QED BY <1>1, <1>2, <1>4, <1>5, <1>6, <1>7, <1>8

LEMMA FreshIInv ==
  ASSUME task = Fresh, job = NoJob, delivery = NoDelivery, cleanup = NoCleanup, periodic = "no",
         link = "down", outbox = {}, ring = NoEvidence, config \in Configurations,
         record \in Known, broker \subseteq Topics, Left \subseteq RowsOf(record)
  PROVE  RetIInv
<1>1. RetShape BY FreshIn DEF RetShape
<1>2. SlotInv
  <2>1. Len(ring.seen) <= RingCap BY FreshIn, RetAssumption
  <2>2. Slot(NoDelivery, NoCleanup, {}, NoEvidence, NoJob)
    BY FreshIn DEF Slot, NoDelivery, NoCleanup
  <2> QED BY <2>1, <2>2 DEF SlotInv
<1>3. ForgottenInv
  <2>1. Gone(NoDelivery, NoCleanup, {}, NoEvidence, NoJob, broker)
    BY FreshIn DEF Gone, NoDelivery
  <2> QED BY <2>1 DEF ForgottenInv
<1>4. CutInv BY FreshIn DEF CutInv, NoJob
<1>5. CleanInv
  <2>1. cleanup.id = 0 /\ ~cleanup.active BY DEF NoCleanup
  <2> QED BY <2>1, FreshIn DEF CleanInv
<1> QED BY <1>1, <1>2, <1>3, <1>4, <1>5 DEF RetIInv

LEMMA RetInitIInv == RetInit => RetIInv
<1> SUFFICES ASSUME RetInit PROVE RetIInv OBVIOUS
<1>1. record \in Known BY DEF RetInit, Known
<1>2. config \in Configurations
  <2>1. PICK p \in Profiles, on \in BOOLEAN : config = [profile |-> p, modbus |-> on, owes |-> FALSE]
    BY DEF RetInit
  <2> QED BY <2>1 DEF Configurations
<1>3. broker = {State, Retired} \cup RowsOf(record) BY DEF RetInit, RowsOf
<1>4. RowsOf(record) \subseteq Configs BY <1>1, RowsIn DEF RowsOf, Known
<1>5. broker \subseteq Topics BY <1>3, <1>4 DEF Topics
<1>6. Left \subseteq RowsOf(record) BY <1>3, Apart DEF Left
<1> QED BY <1>1, <1>2, <1>5, <1>6, FreshIInv DEF RetInit

LEMMA RebootsIInv == ASSUME RetIInv, Reboots PROVE RetIInv'
<1> USE DEF Reboots
<1>1. RetShape /\ CutInv /\ config \in Configurations BY DEF RetIInv, RetShape
<1>2. config' \in Configurations BY <1>1 DEF Configurations
<1>3. record' = record /\ broker' = broker OBVIOUS
<1>4. task' = Fresh /\ job' = NoJob /\ delivery' = NoDelivery /\ cleanup' = NoCleanup
      /\ periodic' = "no" /\ link' = "down" /\ outbox' = {} /\ ring' = NoEvidence
  OBVIOUS
<1>5. RetShape' BY <1>1, <1>2, <1>3, <1>4, FreshIn DEF RetShape
<1>6. SlotInv'
  <2>1. Len(ring'.seen) <= RingCap BY <1>4, FreshIn, RetAssumption
  <2>2. Slot(NoDelivery, NoCleanup, {}, NoEvidence, NoJob)
    BY FreshIn DEF Slot, NoDelivery, NoCleanup
  <2> QED BY <2>1, <2>2, <1>4 DEF SlotInv
<1>7. ForgottenInv'
  <2>1. Gone(NoDelivery, NoCleanup, {}, NoEvidence, NoJob, broker)
    BY FreshIn DEF Gone, NoDelivery
  <2> QED BY <2>1, <1>3, <1>4 DEF ForgottenInv
<1>8. CutInv' BY <1>1, <1>3, <1>4, FreshIn DEF CutInv, NoJob, Left, RowsOf
<1>9. CleanInv'
  <2>1. cleanup'.id = 0 /\ ~cleanup'.active BY <1>4 DEF NoCleanup
  <2> QED BY <2>1, <1>4, FreshIn DEF CleanInv
<1> QED BY <1>5, <1>6, <1>7, <1>8, <1>9 DEF RetIInv

-----------------------------------------------------------------------------
(* Theorems *)

LEMMA NextIInv == ASSUME ~TornSaves, RetIInv, [RetNext]_retVars PROVE RetIInv'
<1>1. CASE Cycle
  BY <1>1, BeginsIInv, CleansIInv, ContinuesIInv, RepeatsIInv, WithdrawsIInv, AnnouncesIInv,
     DiscoversIInv, SavesRecordIInv, EmitsIInv, IntendsIInv, WritesIInv
     DEF Cycle
<1>2. CASE Stops \/ Connects \/ Drops \/ Deletes \/ Acknowledges \/ Expires \/ ReportsOther
  BY <1>2, StopsIInv, ConnectsIInv, DropsIInv, DeletesIInv, AcknowledgesIInv, ExpiresIInv,
     ReportsOtherIInv
<1>3. CASE SetsProfile \/ SetsSource \/ RequestsCleanup \/ Reboots
  BY <1>3, SetsProfileIInv, SetsSourceIInv, RequestsCleanupIInv, RebootsIInv
<1>4. CASE UNCHANGED retVars
  <2>1. UNCHANGED <<config, record, task, job, delivery, cleanup, periodic, link, outbox, ring, broker>>
    BY <1>4 DEF retVars
  <2>2. RetShape' BY <2>1 DEF RetIInv, RetShape
  <2>3. SlotInv' /\ ForgottenInv' BY <2>1 DEF RetIInv, SlotInv, ForgottenInv
  <2>4. CutInv' BY <2>1 DEF RetIInv, CutInv, Left, RowsOf, NoJob
  <2>5. CleanInv' BY <2>1 DEF RetIInv, CleanInv
  <2> QED BY <2>2, <2>3, <2>4, <2>5 DEF RetIInv
<1> QED BY <1>1, <1>2, <1>3, <1>4 DEF RetNext

(* What the publisher keeps true of the broker, the record, the cursors and *)
(* the tombstone in flight, as long as a failed save has written nothing.   *)
THEOREM RetainedInductive == ASSUME ~TornSaves PROVE RetSpec => []RetIInv
<1>1. RetIInv /\ [RetNext]_retVars => RetIInv' BY NextIInv
<1> QED BY <1>1, RetInitIInv, PTL DEF RetSpec

(* One tombstone at esp-mqtt at most, and one in flight is always still to  *)
(* be heard of (the delivery slot of logic/mqtt_retirement.hpp).            *)
THEOREM OneTombstone == ASSUME ~TornSaves PROVE RetSpec => []RetTypeOK
<1>1. RetIInv => RetTypeOK
  <2> SUFFICES ASSUME RetIInv PROVE RetTypeOK OBVIOUS
  <2>1. RetShape /\ Slot(delivery, cleanup, outbox, ring, job) /\ Len(ring.seen) <= RingCap
    BY DEF RetIInv, SlotInv
  <2>2. Cardinality(outbox) <= 1
    <3>1. CASE outbox = {} BY <3>1, FS_EmptySet
    <3>2. CASE outbox # {}
      <4>1. PICK item \in outbox : outbox = {item} BY <3>2, <2>1 DEF Slot
      <4>2. Cardinality({item}) = 1 BY FS_Singleton
      <4> QED BY <4>1, <4>2
    <3> QED BY <3>1, <3>2
  <2>3. \A id : HeardOf(id, outbox, ring) => Heard(id) BY DEF Heard, HeardOf
  <2>4. /\ ~(delivery.id # 0 /\ cleanup.id # 0)
        /\ delivery.owner = "profile" => job.todo # {}
        /\ delivery.id # 0 => HeardOf(delivery.id, outbox, ring)
        /\ cleanup.id # 0 => HeardOf(cleanup.id, outbox, ring)
    BY <2>1 DEF Slot
  <2>5. record \in Profiles \cup {"none"} /\ broker \subseteq Configs \cup {State, Retired}
    BY <2>1 DEF RetShape, Known, Topics
  <2> QED BY <2>1, <2>2, <2>3, <2>4, <2>5 DEF RetTypeOK
<1> QED BY <1>1, RetainedInductive, PTL

(* Nothing retained is forgotten: what is at the broker is what the record  *)
(* names, and the state of a source that is off is owed its deletion        *)
(* (retract_profile_cutover, save_retirement_provenance, MqttCleanup).      *)
THEOREM NothingIsForgotten == ASSUME ~TornSaves PROVE RetSpec => []NoOrphan
<1>1. RetIInv => NoOrphan BY DEF RetIInv, CutInv, CleanInv, NoOrphan, Left, RowsOf
<1> QED BY <1>1, RetainedInductive, PTL
=============================================================================
