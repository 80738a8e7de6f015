------------------------------ MODULE Network ------------------------------
(***************************************************************************)
(* Who may use the network heap.  The OTA worker (ota_update.cpp), the     *)
(* forecast worker (weather_forecast.cpp) and a /values response           *)
(* (http_status.cpp) each claim the one large block a TLS session needs;   *)
(* the X10A poll, the MQTT publisher with its transport, the HomeHub poll  *)
(* and the syslog task hold allocations of their own and stand aside       *)
(* meanwhile.  There is no lock: each side raises a flag and then looks at *)
(* the others.  The same admission lets a configuration handler replace    *)
(* the forecast's source while no request for the old one is under way,    *)
(* and an explicit refresh gets a token that one attempt answers.          *)
(*                                                                         *)
(* A task that stands aside reads the two owners' flags and writes its own *)
(* acknowledgement; it shares nothing with another such task.  So a        *)
(* behaviour has one of them, any one, or none: the others are quiet.      *)
(* Left out: MQTT's startup claim and the broker's availability topic, the *)
(* heap gates beyond a failed fetch, and the progress of a transfer.       *)
(***************************************************************************)
EXTENDS Naturals

CONSTANTS
  HoldCap,     \* OTA_QUIESCE_MAX_CYCLES: cycles a task stands aside at most
  MaxAsked,    \* bound: updates, saves of the source and explicit refreshes,
  MaxBeside    \* ... and the same where a task stands aside

ASSUME NetworkAssumption ==
  HoldCap \in Nat \ {0} /\ {MaxAsked, MaxBeside} \subseteq Nat

VARIABLES
  ota,        \* the OTA worker: where it is, and how often it ran
  weather,    \* the forecast worker's cycle
  admission,  \* s_source_admission
  pause,      \* s_transport_pause_requested
  values,     \* ValuesTlsExclusion
  http,       \* the server's only task
  forecast,   \* the saved source of the forecast
  status,     \* s_source_generation, and the forecast shown
  refresh,    \* the refresh tokens
  peer        \* the task that stands aside

netVars == <<ota, weather, admission, pause, values, http, forecast, status, refresh, peer>>

Peers == {"none", "poll", "mqtt", "modbus", "syslog"}

-----------------------------------------------------------------------------
(* What the flags say *)

OtaActive     == ota.pc # "idle"                     \* ota_download_active
WeatherActive == admission \in {"Network", "SourceChangePending"}
Busy          == OtaActive \/ WeatherActive

MoreAsked ==
  ota.runs + (forecast.id - 1) + refresh.requested <
    (IF peer.kind = "none" THEN MaxAsked ELSE MaxBeside)

(* The HomeHub task acknowledges an update apart from its own activity.     *)
Quiet(owner) ==
  /\ peer.ack
  /\ peer.kind = "mqtt" => peer.link # "connecting"
  /\ peer.kind = "modbus" /\ owner = "ota" => peer.held > 0 /\ peer.aside
TransportQuiet == peer.kind = "mqtt" => peer.link = "stopped"

(* The lead of 1.1 s is longer than any task needs from its look at the     *)
(* flags to its own: who looked before they rose has claimed by its end.    *)
LeadOver == ~(peer.pc = "clear" /\ peer.held = 0)

-----------------------------------------------------------------------------
NoAttempt == [pc |-> "begin", gen |-> 0, cfg |-> 0, token |-> 0, asked |-> 0,
              why |-> {}, ok |-> FALSE]

(* The forecast worker begins its first cycle, or is not started at all.    *)
NetStarts(at) ==
  /\ ota = [pc |-> "idle", runs |-> 0]
  /\ weather = [NoAttempt EXCEPT !.pc = at]
  /\ admission = "Idle" /\ pause = FALSE
  /\ values = [tls |-> FALSE, readers |-> 0]
  /\ http = "idle"
  /\ forecast = [id |-> 1, on |-> TRUE]
  /\ status = [gen |-> 0, shown |-> 0, asof |-> 0, fetching |-> FALSE]
  /\ refresh = [requested |-> 0, started |-> 0, completed |-> 0, success |-> 0]
  /\ \E k \in Peers :
       peer = [kind |-> k, pc |-> IF k = "none" THEN "off" ELSE "top",
               ack |-> k \in {"none", "modbus", "syslog"},
               aside |-> FALSE, held |-> 0,
               link |-> IF k = "mqtt" THEN "running" ELSE "stopped"]
NetInit == NetStarts("begin")

-----------------------------------------------------------------------------
(* The tasks that stand aside *)

PeerOnly == UNCHANGED <<ota, weather, admission, pause, values, http, forecast, status, refresh>>
Rechecks == peer.kind \in {"modbus", "syslog"}
Budgeted == peer.kind # "syslog"
(* The HomeHub task spends its budget on updates alone.                     *)
Heeded == IF peer.kind = "modbus" THEN OtaActive ELSE Busy

(* ota_quiesce_step; the publisher stops its transport when asked to, and   *)
(* the stop may fail.                                                       *)
PeerHolds ==
  /\ peer.pc = "top" /\ Budgeted /\ Heeded /\ peer.held < HoldCap
  /\ \E link \in {peer.link} \cup (IF pause /\ peer.link # "stopped" THEN {"stopped"} ELSE {}) :
       peer' = [peer EXCEPT !.held = @ + 1, !.ack = TRUE, !.aside = TRUE, !.link = link]
  /\ PeerOnly

PeerPasses ==
  /\ peer.pc = "top"
  /\ IF Budgeted THEN ~Heeded \/ peer.held = HoldCap ELSE ~Busy
  /\ peer' = [peer EXCEPT !.held = IF Heeded THEN @ ELSE 0, !.aside = FALSE,
                          !.pc = IF peer.kind = "modbus" /\ WeatherActive THEN "top" ELSE "clear"]
  /\ peer' # peer
  /\ PeerOnly

PeerClaims ==
  /\ peer.pc = "clear"
  /\ peer' = [peer EXCEPT !.ack = FALSE, !.pc = IF Rechecks THEN "claimed" ELSE "work"]
  /\ PeerOnly

PeerLooksAgain ==
  /\ peer.pc = "claimed"
  /\ peer' = IF Busy THEN [peer EXCEPT !.ack = TRUE, !.pc = "top"] ELSE [peer EXCEPT !.pc = "work"]
  /\ PeerOnly

(* The X10A poll keeps its flag down until it next stands aside.            *)
PeerEnds ==
  /\ peer.pc = "work"
  /\ peer' = [peer EXCEPT !.pc = "top", !.ack = peer.kind # "poll"]
  /\ PeerOnly

(* mqtt_transport_resume_step, at the start of the publisher's cycle.       *)
TransportResumes ==
  /\ peer.kind = "mqtt" /\ peer.pc = "work" /\ peer.link = "stopped" /\ ~pause
  /\ peer' = [peer EXCEPT !.link = "running"]
  /\ PeerOnly

(* esp-mqtt's own task: BEFORE_CONNECT, CONNECTED, DISCONNECTED.            *)
TransportEvent ==
  /\ peer.link # "stopped"
  /\ peer' = [peer EXCEPT !.link = IF @ = "running" THEN "connecting" ELSE "running"]
  /\ PeerOnly

-----------------------------------------------------------------------------
(* The OTA worker: OtaNetworkFlag around one whole operation *)

OtaOnly == UNCHANGED <<weather, admission, values, http, forecast, status, refresh, peer>>
OtaTo(pc) == ota' = [ota EXCEPT !.pc = pc]

OtaRaises ==
  /\ ota.pc = "idle" /\ MoreAsked
  /\ ota' = [pc |-> "ask", runs |-> ota.runs + 1]
  /\ pause' = pause /\ OtaOnly
OtaAsksPause == ota.pc = "ask" /\ OtaTo("lead") /\ pause' = TRUE /\ OtaOnly
OtaLeads == ota.pc = "lead" /\ LeadOver /\ OtaTo("peer") /\ pause' = pause /\ OtaOnly

(* Each wait ends when its task is quiet, or in an error at its deadline.   *)
OtaWait(at, met, next) ==
  /\ ota.pc = at
  /\ OtaTo(IF met THEN next ELSE "resume")
  /\ pause' = pause /\ OtaOnly
OtaWaits ==
  \/ OtaWait("peer", Quiet("ota"), "transport")
  \/ OtaWait("transport", TransportQuiet, "weather")
  \/ OtaWait("weather", ~WeatherActive, "transfer")
OtaEnds == ota.pc = "transfer" /\ OtaTo("resume") /\ pause' = pause /\ OtaOnly
OtaResumes == ota.pc = "resume" /\ OtaTo("lower") /\ pause' = FALSE /\ OtaOnly
OtaLowers == ota.pc = "lower" /\ OtaTo("idle") /\ pause' = pause /\ OtaOnly

OtaStep == OtaAsksPause \/ OtaLeads \/ OtaWaits \/ OtaEnds \/ OtaResumes \/ OtaLowers

-----------------------------------------------------------------------------
(* The forecast worker: weather_cycle *)

WeatherOnly == UNCHANGED <<ota, http, forecast, peer>>
Same == status.gen = weather.gen
To(pc) == weather' = [weather EXCEPT !.pc = pc]
Because(reason) == [weather EXCEPT !.why = @ \cup {reason}]
Hidden == [status EXCEPT !.shown = 0, !.asof = 0, !.fetching = FALSE]
Settled == [status EXCEPT !.fetching = FALSE]

WeatherBegins ==
  /\ weather.pc = "begin" /\ ~OtaActive
  /\ weather' = [weather EXCEPT !.pc = "config", !.gen = status.gen]
  /\ UNCHANGED <<admission, pause, values, status, refresh>> /\ WeatherOnly

(* A source that is off, or another one, hides what was shown.              *)
WeatherConfig ==
  /\ weather.pc = "config"
  /\ weather' = IF forecast.on /\ Same
                THEN [weather EXCEPT !.pc = "claim", !.cfg = forecast.id] ELSE NoAttempt
  /\ status' = IF Same /\ (~forecast.on \/ status.shown # forecast.id) THEN Hidden ELSE status
  /\ UNCHANGED <<admission, pause, values, refresh>> /\ WeatherOnly

WeatherOffline ==
  /\ weather.pc = "claim"
  /\ weather' = NoAttempt
  /\ status' = IF Same THEN Settled ELSE status
  /\ UNCHANGED <<admission, pause, values, refresh>> /\ WeatherOnly

Outstanding == refresh.requested # refresh.completed
WeatherClaims ==
  /\ weather.pc = "claim"
  /\ IF Same
     THEN /\ weather' = [weather EXCEPT !.pc = "admit", !.asked = refresh.requested,
                           !.token = IF Outstanding THEN refresh.requested ELSE 0]
          /\ refresh' = IF Outstanding THEN [refresh EXCEPT !.started = refresh.requested]
                        ELSE refresh
          /\ status' = [status EXCEPT !.fetching = TRUE]
     ELSE weather' = NoAttempt /\ UNCHANGED <<refresh, status>>
  /\ UNCHANGED <<admission, pause, values>> /\ WeatherOnly

WeatherAdmit ==
  /\ weather.pc = "admit"
  /\ IF admission = "Idle"
     THEN admission' = "Network" /\ To("admitted")
     ELSE admission' = admission /\ weather' = [Because("source") EXCEPT !.pc = "judge"]
  /\ UNCHANGED <<pause, values, status, refresh>> /\ WeatherOnly

(* A waiting handler gets the admission handed over.                        *)
ReleasedIdle == "Idle"                                        \* mutant
Released == IF admission = "SourceChangePending" THEN "SourceChange" ELSE "Idle"
WeatherPauses ==
  /\ weather.pc = "admitted"
  /\ IF Same
     THEN pause' = TRUE /\ admission' = admission /\ To("lead")
     ELSE pause' = pause /\ admission' = Released
          /\ weather' = [Because("source") EXCEPT !.pc = "judge"]
  /\ UNCHANGED <<values, status, refresh>> /\ WeatherOnly

(* The waits end when all are quiet, at a deadline, or when the source has  *)
(* been replaced; then each acknowledgement is read once more.              *)
WeatherLook(at, met, next) ==
  /\ weather.pc = at
  /\ weather' = [(IF met THEN weather ELSE Because("busy")) EXCEPT !.pc = next]
  /\ UNCHANGED <<admission, pause, values, status, refresh>> /\ WeatherOnly
WeatherLooks ==
  \/ LeadOver /\ WeatherLook("lead", TRUE, "peer")
  \/ WeatherLook("peer", Quiet("weather"), "transport")
  \/ WeatherLook("transport", TransportQuiet, "again")

NoSecondLook ==                                               \* mutant
  /\ weather.pc = "again"
  /\ To("identity")
  /\ UNCHANGED <<admission, pause, values, status, refresh>> /\ WeatherOnly
SecondLook ==
  /\ weather.pc = "again"
  /\ weather' = [(IF OtaActive THEN Because("ota") ELSE weather) EXCEPT !.pc = "identity"]
  /\ UNCHANGED <<admission, pause, values, status, refresh>> /\ WeatherOnly

Changed == ~forecast.on \/ forecast.id # weather.cfg
RaisesTls ==
  /\ weather.pc = "identity"
  /\ LET why == weather.why \cup (IF Same /\ ~Changed THEN {} ELSE {"source"})
     IN  /\ weather' = [weather EXCEPT !.why = why,
                                       !.pc = IF why = {} THEN "readers" ELSE "resume"]
         /\ values' = [values EXCEPT !.tls = (why = {})]
  /\ UNCHANGED <<admission, pause, status, refresh>> /\ WeatherOnly

WaitsForReaders ==
  /\ weather.pc = "readers"
  /\ IF values.readers = 0
     THEN To("fetch") /\ values' = values
     ELSE /\ weather' = [Because("busy") EXCEPT !.pc = "resume"]
          /\ values' = [values EXCEPT !.tls = FALSE]
  /\ UNCHANGED <<admission, pause, status, refresh>> /\ WeatherOnly

Fetches ==
  /\ weather.pc = "fetch"
  /\ \E ok \in BOOLEAN : weather' = [weather EXCEPT !.ok = ok, !.pc = "resume"]
  /\ values' = [values EXCEPT !.tls = FALSE]
  /\ UNCHANGED <<admission, pause, status, refresh>> /\ WeatherOnly

WeatherResumes ==
  /\ weather.pc = "resume"
  /\ pause' = FALSE /\ To("release")
  /\ UNCHANGED <<admission, values, status, refresh>> /\ WeatherOnly
WeatherReleases ==
  /\ weather.pc = "release"
  /\ admission' = Released /\ To("judge")
  /\ UNCHANGED <<pause, values, status, refresh>> /\ WeatherOnly

(* The result is for the source the cycle began with, or for nothing.       *)
WeatherJudges ==
  /\ weather.pc = "judge"
  /\ IF Changed
     THEN /\ status' = IF Same THEN Hidden ELSE status
          /\ weather' = [weather EXCEPT !.ok = FALSE, !.pc = "finish"]
     ELSE status' = status /\ To("settle")
  /\ UNCHANGED <<admission, pause, values, refresh>> /\ WeatherOnly

SettlesAny ==                                                 \* mutant
  /\ weather.pc = "settle"
  /\ status' = IF weather.ok
               THEN [Settled EXCEPT !.shown = weather.cfg, !.asof = weather.asked]
               ELSE Settled
  /\ weather' = IF "source" \notin weather.why /\ "ota" \in weather.why
                THEN NoAttempt ELSE [weather EXCEPT !.pc = "finish"]
  /\ UNCHANGED <<admission, pause, values, refresh>> /\ WeatherOnly
(* An attempt an update preempted leaves its token outstanding.             *)
Settles ==
  /\ weather.pc = "settle"
  /\ status' = IF ~Same THEN status
               ELSE IF weather.ok
               THEN [Settled EXCEPT !.shown = weather.cfg, !.asof = weather.asked]
               ELSE Settled
  /\ weather' = IF Same /\ "source" \notin weather.why /\ "ota" \in weather.why
                THEN NoAttempt
                ELSE [weather EXCEPT !.ok = @ /\ Same, !.pc = "finish"]
  /\ UNCHANGED <<admission, pause, values, refresh>> /\ WeatherOnly

(* weather_refresh_complete.                                                *)
Complete(token, ok) ==
  IF token # 0 /\ refresh.requested = token /\ refresh.started = token
     /\ refresh.completed # token
  THEN [refresh EXCEPT !.completed = token, !.success = IF ok THEN token ELSE @]
  ELSE refresh
Finishes ==
  /\ weather.pc = "finish"
  /\ refresh' = Complete(weather.token, weather.ok)
  /\ weather' = NoAttempt
  /\ UNCHANGED <<admission, pause, values, status>> /\ WeatherOnly

WeatherStep ==
  \/ WeatherBegins \/ WeatherConfig \/ WeatherAdmit \/ WeatherPauses \/ WeatherLooks
  \/ SecondLook \/ RaisesTls \/ WaitsForReaders \/ Fetches \/ WeatherResumes
  \/ WeatherReleases \/ WeatherJudges \/ Settles \/ Finishes

-----------------------------------------------------------------------------
(* The server's task: a /values response, a refresh, or a save *)

HttpOnly == UNCHANGED <<ota, weather, pause, peer>>

Enters ==
  /\ http = "idle" /\ ~OtaActive
  /\ http' = "entered" /\ values' = [values EXCEPT !.readers = @ + 1]
  /\ UNCHANGED <<admission, forecast, status, refresh>> /\ HttpOnly
Leaves ==
  /\ http' = "idle" /\ values' = [values EXCEPT !.readers = @ - 1]
(* try_enter_reader's second half; a wait tries again.                      *)
ReadsTls ==
  /\ http = "entered"
  /\ IF values.tls THEN Leaves ELSE http' = "counted" /\ values' = values
  /\ UNCHANGED <<admission, forecast, status, refresh>> /\ HttpOnly
ReadsOta ==
  /\ http = "counted"
  /\ IF OtaActive THEN Leaves ELSE http' = "stream" /\ values' = values
  /\ UNCHANGED <<admission, forecast, status, refresh>> /\ HttpOnly
StreamEnds ==
  /\ http = "stream" /\ Leaves
  /\ UNCHANGED <<admission, forecast, status, refresh>> /\ HttpOnly

Requests ==
  /\ http = "idle" /\ forecast.on /\ ~Outstanding /\ MoreAsked
  /\ refresh' = [refresh EXCEPT !.requested = @ + 1]
  /\ UNCHANGED <<http, admission, values, forecast, status>> /\ HttpOnly

(* begin_source_change, first with no claim and then with one.              *)
BeginsChange ==
  /\ http = "idle" /\ MoreAsked
  /\ \/ admission = "Idle" /\ admission' = "SourceChange" /\ http' = "held"
     \/ admission = "Network" /\ admission' = "SourceChangePending" /\ http' = "pending"
  /\ UNCHANGED <<values, forecast, status, refresh>> /\ HttpOnly
HandedOver ==
  /\ http = "pending" /\ admission = "SourceChange"
  /\ http' = "held"
  /\ UNCHANGED <<admission, values, forecast, status, refresh>> /\ HttpOnly
GivesUp ==
  /\ http = "pending" /\ admission = "SourceChangePending"
  /\ http' = "idle" /\ admission' = "Network"
  /\ UNCHANGED <<values, forecast, status, refresh>> /\ HttpOnly

Saves ==
  /\ http = "held"
  /\ \/ \E on \in BOOLEAN : forecast' = [id |-> forecast.id + 1, on |-> on] /\ http' = "saved"
     \/ forecast' = forecast /\ http' = "release"
  /\ UNCHANGED <<admission, values, status, refresh>> /\ HttpOnly
CommitQuiet ==                                                \* mutant
  /\ http = "saved" /\ http' = "release"
  /\ status' = [Hidden EXCEPT !.gen = @ + 1]
  /\ UNCHANGED <<admission, values, forecast, refresh>> /\ HttpOnly
Commit ==
  /\ http = "saved" /\ http' = "release"
  /\ status' = [Hidden EXCEPT !.gen = @ + 1]
  /\ refresh' = [refresh EXCEPT !.completed = refresh.requested]
  /\ UNCHANGED <<admission, values, forecast>> /\ HttpOnly
ReleasesChange ==
  /\ http = "release" /\ http' = "idle" /\ admission' = "Idle"
  /\ UNCHANGED <<values, forecast, status, refresh>> /\ HttpOnly

HttpStep == ReadsTls \/ ReadsOta \/ StreamEnds \/ HandedOver \/ Saves \/ Commit \/ ReleasesChange

-----------------------------------------------------------------------------
PeerStep ==
  PeerHolds \/ PeerPasses \/ PeerClaims \/ PeerLooksAgain \/ PeerEnds \/ TransportResumes

NetNext ==
  \/ OtaRaises \/ OtaStep
  \/ WeatherStep \/ WeatherOffline \/ WeatherClaims
  \/ HttpStep \/ Enters \/ Requests \/ BeginsChange \/ GivesUp
  \/ PeerStep \/ TransportEvent

(* Tasks run; the network is up again and again when the forecast needs it, *)
(* also between updates.                                                    *)
NetFairness ==
  /\ WF_netVars(OtaStep) /\ WF_netVars(WeatherStep) /\ WF_netVars(HttpStep)
  /\ WF_netVars(PeerStep) /\ SF_netVars(WeatherClaims)
NetSpec == NetInit /\ [][NetNext]_netVars /\ NetFairness

-----------------------------------------------------------------------------
(* Properties *)

Fetching == {"admitted", "lead", "peer", "transport", "again", "identity", "readers",
             "fetch", "resume", "release"}
Changing == {"held", "saved", "release"}

(* The admission always has the owner its value names: the states in which  *)
(* release_admission, begin_source_change, release_source_change and commit *)
(* would abort are never reached, whoever gives up while being served.      *)
NetTypeOK ==
  /\ WeatherActive <=> weather.pc \in Fetching
  /\ admission = "SourceChangePending" => http = "pending"
  /\ http = "pending" => admission \in {"SourceChangePending", "SourceChange"}
  /\ http \in Changing => admission = "SourceChange"
  /\ admission = "SourceChange" => http \in Changing \cup {"pending"}
  /\ values.readers = (IF http \in {"entered", "counted", "stream"} THEN 1 ELSE 0)
  /\ values.tls <=> weather.pc \in {"readers", "fetch"}
  /\ peer.kind \in Peers /\ peer.held \in 0..HoldCap
  /\ status.fetching => weather.pc \in Fetching \cup {"admit", "judge", "settle"}

(* A TLS session has the heap to itself: an update and a forecast request   *)
(* never run together, a forecast request and a /values stream never do,    *)
(* and beside either the other tasks are idle with the MQTT transport       *)
(* stopped, unless one has stood aside for all the cycles it ever will.     *)
(* Two flags raised before they are read, in every order.                   *)
TlsAlone ==
  /\ ~(ota.pc = "transfer" /\ weather.pc = "fetch")
  /\ ~(weather.pc = "fetch" /\ http = "stream")
  /\ ota.pc = "transfer" \/ weather.pc = "fetch" =>
       \/ peer.pc # "work" /\ TransportQuiet
       \/ Budgeted /\ peer.held = HoldCap

(* What is shown is a forecast of the source saved, once the save has been  *)
(* committed; and a refresh is answered with success only while a forecast  *)
(* is shown that was fetched for this source after the refresh was asked    *)
(* for: neither an attempt already under way, nor one of the source before, *)
(* answers it.  weather_cycle's generation checks and the tokens.           *)
ForecastCurrent ==
  status.shown # 0 /\ http # "saved" => forecast.on /\ status.shown = forecast.id
RefreshHonest ==
  refresh'.success # refresh.success =>
    status.shown # 0 /\ status.asof >= refresh'.success
ResultsBound == [][ForecastCurrent' /\ RefreshHonest]_netVars

(* An explicit refresh is answered, by success or failure, whatever updates *)
(* preempt it and whatever sources replace the one it was for, so that      *)
(* another can be asked for.                                                *)
RefreshSettled == Outstanding ~> ~Outstanding
=============================================================================
