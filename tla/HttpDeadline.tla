---------------------------- MODULE HttpDeadline ----------------------------
(***************************************************************************)
(* The absolute deadline of an HTTP transfer (http_deadline.cpp).  One     *)
(* timer, one watchdog task and one published descriptor serve the tasks   *)
(* that download.  The timer wakes the watchdog, which shuts the published *)
(* socket down, so that a read that would block for ever returns.  The     *)
(* owner must not close its descriptor, which the next connection reuses,  *)
(* while the watchdog can still act on it.                                 *)
(***************************************************************************)
EXTENDS Naturals

CONSTANTS
  Owners,  \* the tasks that download: OTA and weather
  Fds,     \* socket descriptors
  None     \* nobody; the descriptor -1

ASSUME DeadlineAssumption == None \notin Owners \cup Fds

VARIABLES
  pc,          \* each owner's step
  fd, cut,     \* its connection, and whether that has been shut down
  active, latched,               \* active_, expired_latched_
  mutex, owner,                  \* owner_mutex, s_deadline.owner
  socket, fired, failed, done,   \* ... socket, fired, shutdown_failed, completion
  armed, dispatch,               \* the timer runs; its callback is about to
  notified, wd, wfd,             \* the watchdog: notification, step, descriptor
  aborted      \* "no", "shutdown" (refused by lwIP) or "unprovable"

client == <<pc, fd, cut, active, latched>>
shared == <<mutex, owner, socket, fired, failed>>
timer  == <<armed, dispatch>>
dog    == <<notified, wd, wfd>>
vars   == <<client, shared, done, timer, dog, aborted>>

Init ==
  /\ pc = [o \in Owners |-> "idle"] /\ fd = [o \in Owners |-> None]
  /\ cut = [o \in Owners |-> FALSE] /\ active = [o \in Owners |-> FALSE]
  /\ latched = [o \in Owners |-> FALSE]
  /\ mutex = None /\ owner = None /\ socket = None
  /\ fired = FALSE /\ failed = FALSE /\ done = FALSE
  /\ armed = FALSE /\ dispatch = FALSE
  /\ notified = FALSE /\ wd = "wait" /\ wfd = None
  /\ aborted = "no"

Runs == aborted = "no"

Goes(o, from, to) == Runs /\ pc[o] = from /\ pc' = [pc EXCEPT ![o] = to]

-----------------------------------------------------------------------------
(* The owners *)

(* lwIP hands out any free descriptor; the deadline object is new, or that  *)
(* of the interrupted transfer which this one resumes.                      *)
Open(o) ==
  /\ Goes(o, "idle", "open")
  /\ \E f \in Fds \ {fd[p] : p \in Owners} : fd' = [fd EXCEPT ![o] = f]
  /\ latched' \in {latched, [latched EXCEPT ![o] = FALSE]}
  /\ UNCHANGED <<cut, active, shared, done, timer, dog, aborted>>

(* arm refuses: no time left, another owner, or no socket. *)
ArmRefused(o) ==
  /\ Goes(o, "open", "close")
  /\ \E late \in BOOLEAN : latched' = [latched EXCEPT ![o] = late]
  /\ UNCHANGED <<fd, cut, active, shared, done, timer, dog, aborted>>

ArmAllowedShared == mutex = None                          \* mutant
ArmAllowed       == mutex = None /\ owner = None

(* arm: an old acknowledgement is drained before the socket is published. *)
ArmPublish(o) ==
  /\ ArmAllowed
  /\ Goes(o, "open", "publish")
  /\ mutex' = o /\ done' = FALSE /\ socket' = fd[o]
  /\ fired' = FALSE /\ failed' = FALSE
  /\ UNCHANGED <<fd, cut, active, latched, owner, timer, dog, aborted>>

(* The timer may run out before the owner is recorded; latched_ is cleared  *)
(* after that, fired is not.                                                *)
ArmStart(o) ==
  /\ ~armed
  /\ Goes(o, "publish", "arming")
  /\ armed' = TRUE
  /\ UNCHANGED <<fd, cut, active, latched, shared, done, dispatch, dog, aborted>>

ArmOwn(o) ==
  /\ Goes(o, "arming", "body")
  /\ owner' = o /\ mutex' = None
  /\ active' = [active EXCEPT ![o] = TRUE]
  /\ latched' = [latched EXCEPT ![o] = FALSE]
  /\ UNCHANGED <<fd, cut, socket, fired, failed, done, timer, dog, aborted>>

ArmFails(o) ==
  /\ Goes(o, "publish", "close")
  /\ socket' = None /\ mutex' = None
  /\ UNCHANGED <<fd, cut, active, latched, owner, fired, failed, done, timer, dog,
                 aborted>>

(* The response is complete or the transfer is given up. *)
BodyEnds(o) ==
  /\ Goes(o, "body", "lock")
  /\ UNCHANGED <<fd, cut, active, latched, shared, done, timer, dog, aborted>>

(* disarm takes the mutex; a foreign owner would abort ... *)
DisarmLock(o) ==
  /\ mutex = None /\ mutex' = o
  /\ Goes(o, "lock", "stop")
  /\ aborted' = IF owner = o THEN aborted ELSE "unprovable"
  /\ UNCHANGED <<fd, cut, active, latched, owner, socket, fired, failed, done,
                 timer, dog>>

(* ... stops the timer, or finds that it has run out ... *)
DisarmStopOnly(o) ==                                      \* mutant
  /\ Goes(o, "stop", "settle")
  /\ armed' = FALSE
  /\ UNCHANGED <<fd, cut, active, latched, shared, done, dispatch, dog, aborted>>

DisarmStop(o) ==
  /\ Goes(o, "stop", IF armed THEN "settle" ELSE "join")
  /\ armed' = FALSE
  /\ UNCHANGED <<fd, cut, active, latched, shared, done, dispatch, dog, aborted>>

(* ... and then waits for the watchdog's acknowledgement. *)
DisarmJoin(o) ==
  /\ done /\ done' = FALSE
  /\ Goes(o, "join", "settle")
  /\ UNCHANGED <<fd, cut, active, latched, shared, timer, dog, aborted>>

VerdictOfClock(o, reached) == latched[o] \/ failed \/ reached     \* mutant
Verdict(o, reached) == latched[o] \/ fired \/ failed \/ reached

DisarmSettle(o) ==
  /\ Goes(o, "settle", "close")
  /\ \E reached \in BOOLEAN :
       latched' = [latched EXCEPT ![o] = Verdict(o, reached)]
  /\ socket' = None /\ owner' = None /\ mutex' = None
  /\ active' = [active EXCEPT ![o] = FALSE]
  /\ UNCHANGED <<fd, cut, fired, failed, done, timer, dog, aborted>>

(* close_http_client and HttpClientCleanup: the descriptor is free again. *)
Close(o) ==
  /\ Goes(o, "close", "idle")
  /\ fd' = [fd EXCEPT ![o] = None] /\ cut' = [cut EXCEPT ![o] = FALSE]
  /\ UNCHANGED <<active, latched, shared, done, timer, dog, aborted>>

Proceeds(o) ==
  \/ ArmRefused(o) \/ ArmPublish(o) \/ ArmStart(o) \/ ArmOwn(o) \/ ArmFails(o)
  \/ DisarmLock(o) \/ DisarmStop(o) \/ DisarmJoin(o)
  \/ DisarmSettle(o) \/ Close(o)

-----------------------------------------------------------------------------
(* The timer takes the one-shot off its list, and then calls back. *)
Alarm ==
  /\ Runs /\ armed /\ armed' = FALSE /\ dispatch' = TRUE
  /\ UNCHANGED <<client, shared, done, dog, aborted>>

Callback ==
  /\ Runs /\ dispatch /\ dispatch' = FALSE
  /\ fired' = TRUE /\ notified' = TRUE
  /\ UNCHANGED <<client, mutex, owner, socket, failed, done, armed, wd, wfd,
                 aborted>>

(* The watchdog task *)
WdLoad ==
  /\ Runs /\ wd = "wait" /\ notified
  /\ notified' = FALSE /\ wfd' = socket
  /\ wd' = IF socket = None THEN "wait" ELSE "cut"
  /\ failed' = (failed \/ socket = None)
  /\ aborted' = IF socket = None THEN "unprovable" ELSE aborted
  /\ UNCHANGED <<client, mutex, owner, socket, fired, done, timer>>

Shutdown == cut' = [o \in Owners |-> cut[o] \/ fd[o] = wfd]

WdCutOnly ==                                              \* mutant
  /\ Runs /\ wd = "cut" /\ wd' = "wait"
  /\ Shutdown
  /\ UNCHANGED <<pc, fd, active, latched, shared, done, timer, notified, wfd,
                 aborted>>

WdCut ==
  /\ Runs /\ wd = "cut" /\ wd' = "ack"
  /\ Shutdown
  /\ UNCHANGED <<pc, fd, active, latched, shared, done, timer, notified, wfd,
                 aborted>>

WdCutFails ==
  /\ Runs /\ wd = "cut"
  /\ failed' = TRUE /\ aborted' = "shutdown"
  /\ UNCHANGED <<client, mutex, owner, socket, fired, done, timer, dog>>

(* The acknowledgement is a binary semaphore: a second one would abort. *)
WdAck ==
  /\ Runs /\ wd = "ack" /\ wd' = "wait"
  /\ done' = TRUE /\ failed' = (failed \/ done)
  /\ aborted' = IF done THEN "unprovable" ELSE aborted
  /\ UNCHANGED <<client, mutex, owner, socket, fired, timer, notified, wfd>>

Watchdog == WdLoad \/ WdCut \/ WdCutFails \/ WdAck

(* std::abort restarts the board. *)
Restart ==
  /\ ~Runs /\ aborted' = "no"
  /\ pc' = [o \in Owners |-> "idle"] /\ fd' = [o \in Owners |-> None]
  /\ cut' = [o \in Owners |-> FALSE] /\ active' = [o \in Owners |-> FALSE]
  /\ latched' = [o \in Owners |-> FALSE]
  /\ mutex' = None /\ owner' = None /\ socket' = None
  /\ fired' = FALSE /\ failed' = FALSE /\ done' = FALSE
  /\ armed' = FALSE /\ dispatch' = FALSE
  /\ notified' = FALSE /\ wd' = "wait" /\ wfd' = None

-----------------------------------------------------------------------------
Next ==
  \/ \E o \in Owners : Open(o) \/ BodyEnds(o) \/ Proceeds(o)
  \/ Alarm \/ Callback \/ Watchdog \/ Restart

(* Every task is scheduled; a peer may stay silent for ever, but a read on  *)
(* a socket that was shut down returns.                                     *)
Fairness ==
  /\ WF_vars(Alarm) /\ WF_vars(Callback) /\ WF_vars(Watchdog) /\ WF_vars(Restart)
  /\ \A o \in Owners :
       WF_vars(Proceeds(o)) /\ WF_vars(cut[o] /\ BodyEnds(o))

Spec == Init /\ [][Next]_vars /\ Fairness

-----------------------------------------------------------------------------
(* Properties *)

Armed == {"arming", "body", "lock", "stop", "join", "settle"}
Held  == {"publish", "arming", "stop", "join", "settle"}

(* Every variable has its type, and active_ is kept by the owner alone.     *)
TypeOK ==
  /\ pc \in [Owners -> {"idle", "open", "publish", "close"} \cup Armed]
  /\ fd \in [Owners -> Fds \cup {None}] /\ cut \in [Owners -> BOOLEAN]
  /\ active \in [Owners -> BOOLEAN] /\ latched \in [Owners -> BOOLEAN]
  /\ mutex \in Owners \cup {None} /\ owner \in Owners \cup {None}
  /\ socket \in Fds \cup {None} /\ wfd \in Fds \cup {None}
  /\ fired \in BOOLEAN /\ failed \in BOOLEAN /\ done \in BOOLEAN
  /\ armed \in BOOLEAN /\ dispatch \in BOOLEAN /\ notified \in BOOLEAN
  /\ wd \in {"wait", "cut", "ack"} /\ aborted \in {"no", "shutdown", "unprovable"}
  /\ \A o \in Owners : active[o] => owner = o

(* The watchdog shuts down only the connection whose owner armed it and has *)
(* not disarmed yet, never a descriptor reused by another; and the checks   *)
(* that abort because this could not be proven never strike.                *)
CutsOwnConnection ==
  /\ wd = "cut" => \E o \in Owners : pc[o] \in Armed /\ fd[o] = wfd
  /\ aborted # "unprovable"

(* The owners see what Transfers promises: above all, a connection is cut  *)
(* only while guarded, and one that was cut ends with the expired verdict,  *)
(* so that a body truncated by the deadline is never taken for complete.    *)
ConnOf(o) ==
  IF pc[o] = "idle" THEN "none"
  ELSE IF pc[o] = "close" THEN "ended"
  ELSE IF cut[o] THEN "cut"
  ELSE IF pc[o] \in Armed THEN "guarded" ELSE "open"

Conn == [o \in Owners |-> ConnOf(o)]

Expired == [o \in Owners |-> pc[o] = "close" /\ latched[o]]

Promise == INSTANCE Transfers WITH conn <- Conn, expired <- Expired

ImplementsTransfers == Promise!Spec

(* An armed transfer ends although its peer stays silent, and its disarm    *)
(* does not wait for ever for the acknowledgement.                          *)
TransferEnds == \A o \in Owners : active[o] ~> ~active[o]
-----------------------------------------------------------------------------
(* The strengthening that is inductive (ConnectionProofs) *)

(* A descriptor has one holder, and only an armed connection is ever cut.   *)
FdInv ==
  /\ \A o \in Owners : fd[o] = None <=> pc[o] = "idle"
  /\ \A o, p \in Owners : o # p /\ fd[o] # None => fd[o] # fd[p]
  /\ \A o \in Owners : cut[o] => pc[o] \in Armed \cup {"close"}

OwnInv ==
  /\ \A o \in Owners : active[o] <=> pc[o] \in Armed \ {"arming"}
  /\ \A o \in Owners : owner = o <=> pc[o] \in Armed \ {"arming"}
  /\ \A o \in Owners : mutex = o <=> pc[o] \in Held
  /\ \A o \in Owners : pc[o] \in {"publish", "arming"} => owner = None
  /\ \A o \in Owners : pc[o] \in Armed \cup {"publish"} => socket = fd[o]

(* The alarm is in one place at a time: running, on its way to the          *)
(* watchdog, in its hands, or acknowledged; and nowhere once the owner has  *)
(* stopped or joined it.                                                    *)
AlarmInv ==
  /\ armed => ~dispatch /\ ~notified /\ wd = "wait" /\ ~done
  /\ dispatch => ~notified /\ wd = "wait" /\ ~done
  /\ notified => wd = "wait" /\ ~done
  /\ wd # "wait" => ~done
  /\ armed \/ dispatch \/ notified \/ wd # "wait" \/ done
       => \E o \in Owners : pc[o] \in Armed \ {"settle"}
  /\ armed => \A o \in Owners : pc[o] # "join"
  /\ wd = "cut" => wfd = socket

(* Whatever follows the callback finds its verdict published. *)
FiredInv ==
  /\ notified \/ wd # "wait" \/ done => fired
  /\ \A o \in Owners : cut[o] /\ pc[o] \in Armed => fired
  /\ \A o \in Owners : cut[o] /\ pc[o] = "close" => latched[o]

IInv == TypeOK /\ FdInv /\ OwnInv /\ AlarmInv /\ FiredInv /\ aborted # "unprovable"

=============================================================================
