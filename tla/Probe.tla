------------------------------- MODULE Probe -------------------------------
(* The register probe of hp_poll.cpp (logic/hp_probe.hpp): an HTTP handler  *)
(* arms one register, the poll task queries it at the end of a cycle, and   *)
(* the handler waits no longer than its timeout.  The slot, the reply, its  *)
(* ticket and the semaphore are all that the two share; no lock covers      *)
(* them.  A caller who finds the gate taken, or no poll task, is told so at *)
(* once and changes nothing.                                                *)
EXTENDS Naturals

CONSTANTS
  Callers,     \* HTTP workers
  Registers,
  Tickets,     \* PROBE_TICKET_MASK
  MaxProbes    \* bound: no more are asked while one is being served

(* A query ends long before its callers' timeouts have used up the tickets. *)
ASSUME ProbeAssumption ==
  /\ Tickets \in Nat /\ MaxProbes \in Nat /\ MaxProbes < Tickets
  /\ "free" \notin Callers

VARIABLES
  caller,    \* caller -> where it is, what it asked, what it was answered
  gate,      \* s_probe_gate: who holds it
  signal,    \* s_probe_done
  pending,   \* s_probe_pending; ticket 0: no request
  drawn,     \* s_probe_ticket
  reply,     \* s_probe_reply
  stamp,     \* s_probe_reply_ticket
  service,   \* the poll task
  probes     \* probes asked since it last began to serve

probeVars == <<caller, gate, signal, pending, drawn, reply, stamp, service, probes>>

-----------------------------------------------------------------------------
NoRequest == [ticket |-> 0, reg |-> "none"]
NoAnswer  == [status |-> "none", reg |-> "none"]
Away      == [pc |-> "away", mine |-> NoRequest, got |-> NoAnswer]
TimedOut  == [pc |-> "away", mine |-> NoRequest, got |-> [status |-> "Timeout", reg |-> "none"]]
NotServing == [pc |-> "idle", req |-> NoRequest, answer |-> NoAnswer]

(* Some probes were answered before, none was given up.                     *)
ProbeInit ==
  /\ caller = [c \in Callers |-> Away]
  /\ gate = "free" /\ signal \in BOOLEAN
  /\ pending = NoRequest
  /\ drawn \in 0..Tickets /\ stamp = drawn
  /\ reply = NoAnswer
  /\ service = NotServing /\ probes = 0

-----------------------------------------------------------------------------
(* hp_probe_run *)

(* Zero is no ticket: the counter passes over it.                           *)
NextTicket == IF drawn = Tickets THEN 1 ELSE drawn + 1

Take(c) ==
  /\ caller[c].pc = "away" /\ gate = "free"
  /\ IF service.pc = "idle" THEN probes' = probes ELSE probes < MaxProbes /\ probes' = probes + 1
  /\ gate' = c /\ signal' = FALSE /\ drawn' = NextTicket
  /\ \E r \in Registers :
       caller' = [caller EXCEPT ![c] =
         [pc |-> "arm", mine |-> [ticket |-> drawn', reg |-> r], got |-> NoAnswer]]
  /\ UNCHANGED <<pending, reply, stamp, service>>

Arm(c) ==
  /\ caller[c].pc = "arm"
  /\ pending' = caller[c].mine
  /\ caller' = [caller EXCEPT ![c].pc = "wait"]
  /\ UNCHANGED <<gate, signal, drawn, reply, stamp, service, probes>>

MatchesAny(c)   == stamp # 0 /\ caller[c].pc = "wait"         \* mutant
MatchesReply(c) == stamp = caller[c].mine.ticket

Woken(c) ==
  /\ caller[c].pc = "wait" /\ signal
  /\ signal' = FALSE
  /\ caller' = IF MatchesReply(c) THEN [caller EXCEPT ![c].pc = "copy"] ELSE caller
  /\ UNCHANGED <<gate, pending, drawn, reply, stamp, service, probes>>

(* The time is up, also when a signal comes with it: withdrawn, unless the  *)
(* poll task has taken it down or armed it for another caller.              *)
TimesOut(c) ==
  /\ caller[c].pc = "wait"
  /\ pending' = IF pending = caller[c].mine THEN NoRequest ELSE pending
  /\ caller' = [caller EXCEPT ![c] = TimedOut]
  /\ gate' = "free"
  /\ UNCHANGED <<signal, drawn, reply, stamp, service, probes>>

CopiesReply(c) ==
  /\ caller[c].pc = "copy"
  /\ caller' = [caller EXCEPT ![c].pc = "away", ![c].got = reply]
  /\ gate' = "free"
  /\ UNCHANGED <<signal, pending, drawn, reply, stamp, service, probes>>

-----------------------------------------------------------------------------
(* poll_probe_service *)

Answers(r) == [status : {"Ok", "ShortReply", "NoReply"}, reg : {r}] \cup
              {[status |-> "NoLink", reg |-> "none"]}

Serve ==
  /\ service.pc = "idle" /\ pending # NoRequest
  /\ \E a \in Answers(pending.reg) :
       service' = [pc |-> "query", req |-> pending, answer |-> a]
  /\ probes' = 0
  /\ UNCHANGED <<caller, gate, signal, pending, drawn, reply, stamp>>

(* An exception: whatever is pending then is told that there is no link.    *)
Throws ==
  /\ service.pc = "query"
  /\ service' = IF pending = NoRequest THEN NotServing
                ELSE [pc |-> "write", req |-> pending,
                      answer |-> [status |-> "NoLink", reg |-> "none"]]
  /\ reply' = IF pending = NoRequest THEN reply ELSE [status |-> "torn", reg |-> "none"]
  /\ UNCHANGED <<caller, gate, signal, pending, drawn, stamp, probes>>

BeginWrite ==
  /\ service.pc = "query"
  /\ service' = [service EXCEPT !.pc = "write"]
  /\ reply' = [status |-> "torn", reg |-> "none"]
  /\ UNCHANGED <<caller, gate, signal, pending, drawn, stamp, probes>>

EndWrite ==
  /\ service.pc = "write"
  /\ service' = [service EXCEPT !.pc = "stamp"]
  /\ reply' = service.answer
  /\ UNCHANGED <<caller, gate, signal, pending, drawn, stamp, probes>>

Stamps ==
  /\ service.pc = "stamp"
  /\ service' = [service EXCEPT !.pc = "clear"]
  /\ stamp' = service.req.ticket
  /\ UNCHANGED <<caller, gate, signal, pending, drawn, reply, probes>>

(* Only the request that was served is taken down.                          *)
Clears ==
  /\ service.pc = "clear"
  /\ service' = [service EXCEPT !.pc = "give"]
  /\ pending' = IF pending = service.req THEN NoRequest ELSE pending
  /\ UNCHANGED <<caller, gate, signal, drawn, reply, stamp, probes>>

Gives ==
  /\ service.pc = "give"
  /\ service' = NotServing /\ signal' = TRUE
  /\ UNCHANGED <<caller, gate, pending, drawn, reply, stamp, probes>>

ProbeNext ==
  \/ \E c \in Callers : Take(c) \/ Arm(c) \/ Woken(c) \/ TimesOut(c) \/ CopiesReply(c)
  \/ Serve \/ Throws \/ BeginWrite \/ EndWrite \/ Stamps \/ Clears \/ Gives
ProbeSpec == ProbeInit /\ [][ProbeNext]_probeVars

-----------------------------------------------------------------------------
(* Properties *)

ProbeTypeOK ==
  /\ gate \in Callers \cup {"free"} /\ signal \in BOOLEAN
  /\ pending.ticket \in 0..Tickets /\ drawn \in 0..Tickets /\ stamp \in 0..Tickets
  /\ \A c \in Callers : caller[c].pc # "away" <=> gate = c

(* Whoever times out and whoever asks next, and however late the poll task  *)
(* is with the request before: a caller is answered about the register it   *)
(* asked, from a reply that is complete, and its request stays armed until  *)
(* it is answered or given up by itself.                                    *)
AnswersOwn ==
  /\ ProbeTypeOK
  /\ \A c \in Callers :
       /\ caller[c].got.status \notin {"none", "Timeout", "NoLink"} =>
            caller[c].got.status # "torn" /\ caller[c].got.reg = caller[c].mine.reg
       /\ caller[c].pc = "wait" /\ stamp # caller[c].mine.ticket => pending = caller[c].mine
=============================================================================
