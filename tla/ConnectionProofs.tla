-------------------------- MODULE ConnectionProofs --------------------------
(* Proofs about HttpDeadline: IInv is inductive, and every step of the      *)
(* deadline is a step of Transfers or changes nothing there.  And about     *)
(* Links: LinkIInv is inductive, and a trial of new credentials ends only   *)
(* on evidence.  The two models share no variable.                          *)
EXTENDS HttpDeadline, Links, TLAPS

(* The steps of one owner; the others are the timer's, the watchdog's and   *)
(* the restart.                                                             *)
OwnerStep(o) == Open(o) \/ BodyEnds(o) \/ Proceeds(o)
DogStep      == Alarm \/ Callback \/ Watchdog

LEMMA NextSplit == Next => (\E o \in Owners : OwnerStep(o)) \/ DogStep \/ Restart
BY Zenon DEF Next, OwnerStep, DogStep

-----------------------------------------------------------------------------
LEMMA InitIInv == Init => IInv
<1> SUFFICES ASSUME Init PROVE IInv OBVIOUS
<1> USE DeadlineAssumption DEF Init, Armed, Held
<1>1. TypeOK BY DEF TypeOK
<1>2. FdInv BY DEF FdInv
<1>3. OwnInv BY DEF OwnInv
<1>4. AlarmInv BY DEF AlarmInv
<1>5. FiredInv BY DEF FiredInv
<1> QED BY <1>1, <1>2, <1>3, <1>4, <1>5 DEF IInv, Init

LEMMA RestartIInv == Restart => IInv'
<1> SUFFICES ASSUME Restart PROVE IInv' OBVIOUS
<1> USE DeadlineAssumption DEF Restart, Armed, Held
<1>1. TypeOK' BY DEF TypeOK
<1>2. FdInv' BY DEF FdInv
<1>3. OwnInv' BY DEF OwnInv
<1>4. AlarmInv' BY DEF AlarmInv
<1>5. FiredInv' BY DEF FiredInv
<1> QED BY <1>1, <1>2, <1>3, <1>4, <1>5 DEF IInv, Restart

-----------------------------------------------------------------------------
(* Type correctness. *)
LEMMA OwnerType == ASSUME IInv, NEW o \in Owners, OwnerStep(o) PROVE TypeOK'
<1> USE DEF IInv, TypeOK, Goes, Armed, client, shared, timer, dog
<1>1. CASE Open(o)
  <2>1. latched' \in [Owners -> BOOLEAN] BY <1>1 DEF Open
  <2>2. pc' \in [Owners -> {"idle", "open", "publish", "close"} \cup Armed]
    BY <1>1 DEF Open
  <2>3. fd' \in [Owners -> Fds \cup {None}] BY <1>1 DEF Open
  <2>4. UNCHANGED <<cut, active, shared, done, timer, dog, aborted>>
    BY <1>1 DEF Open
  <2> QED BY <2>1, <2>2, <2>3, <2>4
<1>2. CASE BodyEnds(o) BY <1>2 DEF BodyEnds
<1>3. CASE ArmRefused(o) BY <1>3 DEF ArmRefused
<1>4. CASE ArmPublish(o) BY <1>4 DEF ArmPublish
<1>5. CASE ArmStart(o) BY <1>5 DEF ArmStart
<1>6. CASE ArmFails(o) BY <1>6 DEF ArmFails
<1>7. CASE DisarmLock(o) BY <1>7 DEF DisarmLock
<1>8. CASE DisarmStop(o)
  <2>1. PICK to \in {"settle", "join"} : pc' = [pc EXCEPT ![o] = to]
    BY <1>8 DEF DisarmStop
  <2>2. pc' \in [Owners -> {"idle", "open", "publish", "close"} \cup Armed]
    BY <2>1
  <2>3. UNCHANGED <<fd, cut, active, latched, shared, done, dispatch, dog, aborted>>
        /\ armed' = FALSE
    BY <1>8 DEF DisarmStop
  <2> QED BY <2>2, <2>3, ZenonT(60)
<1>9. CASE DisarmJoin(o) BY <1>9, ZenonT(60) DEF DisarmJoin
<1>10. CASE DisarmSettle(o)
  <2>1. latched' \in [Owners -> BOOLEAN] BY <1>10 DEF DisarmSettle, Verdict
  <2> QED BY <1>10, <2>1 DEF DisarmSettle, OwnInv
<1>11. CASE Close(o) BY <1>11 DEF Close
<1>12. CASE ArmOwn(o)
  <2>1. \A p \in Owners : ~active[p]
    BY <1>12, DeadlineAssumption DEF ArmOwn, OwnInv
  <2>2. active' = [active EXCEPT ![o] = TRUE] /\ owner' = o BY <1>12 DEF ArmOwn
  <2>3. \A p \in Owners : active'[p] => owner' = p BY <2>1, <2>2
  <2> QED BY <1>12, <2>3 DEF ArmOwn
<1> QED BY <1>1, <1>2, <1>3, <1>4, <1>5, <1>6, <1>7, <1>8, <1>9, <1>10, <1>11,
           <1>12, Zenon DEF OwnerStep, Proceeds

LEMMA DogType == IInv /\ DogStep => TypeOK'
<1> SUFFICES ASSUME IInv, DogStep PROVE TypeOK' OBVIOUS
<1> USE DEF IInv, TypeOK, Armed, client, shared, timer, dog
<1>1. CASE Alarm BY <1>1, ZenonT(60) DEF Alarm
<1>2. CASE Callback BY <1>2 DEF Callback
<1>3. CASE WdLoad
  <2>1. failed' \in BOOLEAN BY <1>3, Zenon DEF WdLoad
  <2> QED BY <1>3, <2>1 DEF WdLoad
<1>4. CASE WdCut
  <2>1. cut' \in [Owners -> BOOLEAN] BY <1>4, Zenon DEF WdCut, Shutdown
  <2> QED BY <1>4, <2>1 DEF WdCut
<1>5. CASE WdCutFails BY <1>5 DEF WdCutFails
<1>6. CASE WdAck
  <2>1. failed' \in BOOLEAN BY <1>6, Zenon DEF WdAck
  <2> QED BY <1>6, <2>1 DEF WdAck
<1> QED BY <1>1, <1>2, <1>3, <1>4, <1>5, <1>6, Zenon DEF DogStep, Watchdog

-----------------------------------------------------------------------------
(* The rest of the invariant.                                               *)
LEMMA OwnerFd ==
  ASSUME IInv, NEW o \in Owners, OwnerStep(o) PROVE FdInv' /\ aborted' # "unprovable"
<1> USE DeadlineAssumption
    DEF IInv, TypeOK, FdInv, OwnInv, Goes, Armed, Held, client, shared, timer, dog
<1>1. CASE Open(o) BY <1>1 DEF Open
<1>2. CASE BodyEnds(o) BY <1>2 DEF BodyEnds
<1>3. CASE ArmRefused(o) BY <1>3 DEF ArmRefused
<1>4. CASE ArmPublish(o) BY <1>4 DEF ArmPublish
<1>5. CASE ArmStart(o) BY <1>5 DEF ArmStart
<1>6. CASE ArmFails(o) BY <1>6 DEF ArmFails
<1>7. CASE DisarmLock(o) BY <1>7 DEF DisarmLock
<1>8. CASE DisarmStop(o) BY <1>8 DEF DisarmStop
<1>9. CASE DisarmJoin(o) BY <1>9 DEF DisarmJoin
<1>10. CASE DisarmSettle(o) BY <1>10 DEF DisarmSettle
<1>11. CASE Close(o) BY <1>11 DEF Close
<1>12. CASE ArmOwn(o) BY <1>12 DEF ArmOwn
<1> QED BY <1>1, <1>2, <1>3, <1>4, <1>5, <1>6, <1>7, <1>8, <1>9, <1>10, <1>11,
           <1>12, Zenon DEF OwnerStep, Proceeds

LEMMA OwnerOwn == ASSUME IInv, NEW o \in Owners, OwnerStep(o) PROVE OwnInv'
<1> USE DeadlineAssumption
    DEF IInv, TypeOK, OwnInv, Goes, Armed, Held, client, shared, timer, dog
<1>1. CASE Open(o) BY <1>1 DEF Open
<1>2. CASE BodyEnds(o) BY <1>2 DEF BodyEnds
<1>3. CASE ArmRefused(o) BY <1>3 DEF ArmRefused
<1>4. CASE ArmPublish(o) BY <1>4 DEF ArmPublish, ArmAllowed
<1>5. CASE ArmStart(o) BY <1>5 DEF ArmStart
<1>6. CASE ArmFails(o) BY <1>6 DEF ArmFails
<1>7. CASE DisarmLock(o) BY <1>7 DEF DisarmLock
<1>8. CASE DisarmStop(o) BY <1>8 DEF DisarmStop
<1>9. CASE DisarmJoin(o) BY <1>9 DEF DisarmJoin
<1>10. CASE DisarmSettle(o) BY <1>10 DEF DisarmSettle
<1>11. CASE Close(o) BY <1>11 DEF Close
<1>12. CASE ArmOwn(o) BY <1>12 DEF ArmOwn
<1> QED BY <1>1, <1>2, <1>3, <1>4, <1>5, <1>6, <1>7, <1>8, <1>9, <1>10, <1>11,
           <1>12, Zenon DEF OwnerStep, Proceeds

(* The owner stops the alarm, or joins it, before it lets go.               *)
LEMMA OwnerAlarm ==
  ASSUME IInv, NEW o \in Owners, OwnerStep(o) PROVE AlarmInv' /\ FiredInv'
<1> USE DeadlineAssumption
    DEF IInv, TypeOK, FdInv, OwnInv, AlarmInv, FiredInv, Goes, Armed, Held,
        client, shared, timer, dog
<1>1. CASE Open(o) BY <1>1 DEF Open
<1>2. CASE BodyEnds(o) BY <1>2 DEF BodyEnds
<1>3. CASE ArmRefused(o) BY <1>3 DEF ArmRefused
<1>4. CASE ArmPublish(o) BY <1>4 DEF ArmPublish, ArmAllowed
<1>5. CASE ArmStart(o) BY <1>5 DEF ArmStart
<1>6. CASE ArmFails(o) BY <1>6 DEF ArmFails
<1>7. CASE DisarmLock(o) BY <1>7 DEF DisarmLock
<1>8. CASE DisarmStop(o) BY <1>8 DEF DisarmStop
<1>9. CASE DisarmJoin(o) BY <1>9 DEF DisarmJoin
<1>10. CASE DisarmSettle(o) BY <1>10 DEF DisarmSettle, Verdict
<1>11. CASE Close(o) BY <1>11 DEF Close
<1>12. CASE ArmOwn(o) BY <1>12 DEF ArmOwn
<1> QED BY <1>1, <1>2, <1>3, <1>4, <1>5, <1>6, <1>7, <1>8, <1>9, <1>10, <1>11,
           <1>12, Zenon DEF OwnerStep, Proceeds

(* The watchdog cuts the connection of the owner that waits for it.         *)
LEMMA DogIInv == IInv /\ DogStep => IInv'
<1> SUFFICES ASSUME IInv, DogStep PROVE IInv' OBVIOUS
<1>0. TypeOK' BY DogType
<1> DEFINE Rest == /\ FdInv /\ OwnInv /\ AlarmInv /\ FiredInv
                   /\ aborted # "unprovable"
<1> SUFFICES Rest' BY <1>0 DEF IInv
<1> USE DeadlineAssumption
    DEF IInv, TypeOK, FdInv, OwnInv, AlarmInv, FiredInv, Armed, Held,
        client, shared, timer, dog
<1>1. CASE Alarm BY <1>1 DEF Alarm
<1>2. CASE Callback BY <1>2 DEF Callback
<1>3. CASE WdLoad
  <2>1. socket # None BY <1>3 DEF WdLoad
  <2> QED BY <1>3, <2>1 DEF WdLoad
<1>4. CASE WdCut BY <1>4 DEF WdCut, Shutdown
<1>5. CASE WdCutFails BY <1>5 DEF WdCutFails
<1>6. CASE WdAck BY <1>6 DEF WdAck
<1> QED BY <1>1, <1>2, <1>3, <1>4, <1>5, <1>6, Zenon DEF DogStep, Watchdog

LEMMA StutterIInv == IInv /\ UNCHANGED vars => IInv'
BY DEF IInv, TypeOK, FdInv, OwnInv, AlarmInv, FiredInv, Armed, Held,
       vars, client, shared, timer, dog

(* The strengthened invariant holds in every reachable state of             *)
(* http_deadline.cpp, for any number of owners and descriptors.             *)
THEOREM Inductive == Spec => []IInv
<1>1. IInv /\ [Next]_vars => IInv'
  <2> SUFFICES ASSUME IInv, [Next]_vars PROVE IInv' OBVIOUS
  <2>1. ASSUME NEW o \in Owners, OwnerStep(o) PROVE IInv'
    BY <2>1, OwnerType, OwnerFd, OwnerOwn, OwnerAlarm DEF IInv
  <2> QED BY <2>1, NextSplit, RestartIInv, DogIInv, StutterIInv
<1> QED BY InitIInv, <1>1, PTL DEF Spec

(* Every reachable state is well typed, and active_ is the owner's.         *)
THEOREM TypeCorrect == Spec => []TypeOK
<1>1. IInv => TypeOK BY DEF IInv
<1> QED BY Inductive, <1>1, PTL

(* socket_deadline_watchdog_task shuts down no connection but the armed     *)
(* one, and no check of the exclusion ever aborts.                          *)
THEOREM CutsOnlyItsOwn == Spec => []CutsOwnConnection
<1>1. IInv => CutsOwnConnection
  BY DEF IInv, OwnInv, AlarmInv, CutsOwnConnection
<1> QED BY Inductive, <1>1, PTL

-----------------------------------------------------------------------------
(* Refinement: what the owners see is a behaviour of Transfers.             *)

(* A step that leaves the view of every owner but o alone, and what it does *)
(* to that of o.                                                            *)
LEMMA ViewStep ==
  ASSUME NEW o \in Owners, NEW c, NEW v \in BOOLEAN,
         ConnOf(o)' = c, (pc[o] = "close" /\ latched[o])' = v,
         \A p \in Owners \ {o} :
           /\ ConnOf(p)' = ConnOf(p)
           /\ (pc[p] = "close" /\ latched[p])' = (pc[p] = "close" /\ latched[p])
  PROVE  /\ Conn' = [Conn EXCEPT ![o] = c]
         /\ Expired' = [Expired EXCEPT ![o] = v]
<1>1. Conn' = [Conn EXCEPT ![o] = c] BY DEF Conn
<1>2. Expired' = [Expired EXCEPT ![o] = v] BY DEF Expired
<1> QED BY <1>1, <1>2

(* Only pc, latched and cut decide the view.                                *)
LEMMA OthersView ==
  ASSUME TypeOK, NEW o \in Owners, NEW from, NEW to, Goes(o, from, to),
         cut' = cut \/ (\E b \in BOOLEAN : cut' = [cut EXCEPT ![o] = b]),
         latched' = latched \/ (\E b \in BOOLEAN : latched' = [latched EXCEPT ![o] = b])
  PROVE  \A p \in Owners \ {o} :
           /\ ConnOf(p)' = ConnOf(p)
           /\ (pc[p] = "close" /\ latched[p])' = (pc[p] = "close" /\ latched[p])
<1> SUFFICES ASSUME NEW p \in Owners \ {o}
             PROVE  /\ ConnOf(p)' = ConnOf(p)
                    /\ (pc[p] = "close" /\ latched[p])' = (pc[p] = "close" /\ latched[p])
    OBVIOUS
<1>1. pc'[p] = pc[p] BY DEF TypeOK, Goes
<1>2. cut'[p] = cut[p] BY DEF TypeOK
<1>3. latched'[p] = latched[p] BY DEF TypeOK
<1> QED BY <1>1, <1>2, <1>3 DEF ConnOf

LEMMA OwnerRefines ==
  ASSUME IInv, NEW o \in Owners, OwnerStep(o)
  PROVE  [Promise!Next]_(Promise!vars)
<1> USE DEF IInv
<1>p. pc[o] \in {"idle", "open", "publish", "close"} \cup Armed BY DEF TypeOK
<1>a. pc \in [Owners -> {"idle", "open", "publish", "close"} \cup Armed] BY DEF TypeOK
<1>c. pc[o] \in {"idle", "open", "publish"} => ~cut[o] BY DEF FdInv, Armed
<1>q. \A p \in Owners : Conn[p] = ConnOf(p) BY DEF Conn
<1> DEFINE Mine(b) == (pc[o] = "close" /\ latched[o])' = b
<1>1. ASSUME NEW from, NEW to, Goes(o, from, to), UNCHANGED <<cut, latched>>,
             ConnOf(o)' = ConnOf(o), from # "close", to # "close"
      PROVE  UNCHANGED Promise!vars
  <2>1. \A p \in Owners : ConnOf(p)' = ConnOf(p)
    BY <1>1, OthersView
  <2>2. Conn' = Conn BY <2>1 DEF Conn
  <2>3. \A p \in Owners :
          (pc[p] = "close" /\ latched[p])' = (pc[p] = "close" /\ latched[p])
    BY <1>1, <1>a, OthersView DEF Goes
  <2>4. Expired' = Expired BY <2>3 DEF Expired
  <2> QED BY <2>2, <2>4 DEF Promise!vars
<1>2. CASE Open(o)
  <2>1. Goes(o, "idle", "open") /\ pc'[o] = "open" /\ cut' = cut
    BY <1>2, <1>a DEF Open, Goes
  <2>2. ConnOf(o)' = "open" /\ ConnOf(o) = "none" /\ Mine(FALSE)
    BY <2>1, <1>c DEF ConnOf, Goes, Armed
  <2>0. latched' = latched \/ (\E b \in BOOLEAN : latched' = [latched EXCEPT ![o] = b])
    BY <1>2 DEF Open
  <2>3. Conn' = [Conn EXCEPT ![o] = "open"] /\ Expired' = [Expired EXCEPT ![o] = FALSE]
    BY <2>0, <2>1, <2>2, OthersView, ViewStep
  <2>4. Expired' = Expired BY <2>1, <2>3 DEF Expired, Goes
  <2>5. Promise!Open(o) BY <1>q, <2>2, <2>3, <2>4 DEF Promise!Open, Promise!Becomes
  <2> QED BY <2>5 DEF Promise!Next
<1>3. CASE BodyEnds(o)
  BY <1>1, <1>3, <1>a DEF BodyEnds, ConnOf, Goes, Armed
<1>4. CASE ArmPublish(o)
  BY <1>1, <1>4, <1>a, <1>c DEF ArmPublish, ConnOf, Goes, Armed
<1>5. CASE DisarmLock(o)
  BY <1>1, <1>5, <1>a DEF DisarmLock, ConnOf, Goes, Armed
<1>6. CASE DisarmStop(o)
  BY <1>1, <1>6, <1>a DEF DisarmStop, ConnOf, Goes, Armed
<1>7. CASE DisarmJoin(o)
  BY <1>1, <1>7, <1>a DEF DisarmJoin, ConnOf, Goes, Armed
<1>8. CASE ArmStart(o)
  <2>1. Goes(o, "publish", "arming") /\ pc'[o] = "arming" /\ cut' = cut
    BY <1>8, <1>a DEF ArmStart, Goes
  <2>2. ConnOf(o)' = "guarded" /\ ConnOf(o) = "open" /\ Mine(FALSE)
    BY <2>1, <1>c DEF ConnOf, Goes, Armed
  <2>3. Conn' = [Conn EXCEPT ![o] = "guarded"] /\ Expired' = [Expired EXCEPT ![o] = FALSE]
    BY <1>8, <2>1, <2>2, OthersView, ViewStep DEF ArmStart
  <2>4. Expired' = Expired BY <2>1, <2>3 DEF Expired, Goes
  <2>5. \A p \in Owners : pc[p] \notin Armed
    BY <2>1, DeadlineAssumption DEF Goes, OwnInv, Held
  <2>6. \A p \in Owners : ConnOf(p) \notin {"guarded", "cut"}
    BY <2>5 DEF ConnOf, FdInv
  <2>7. Promise!Guard(o)
    BY <1>q, <2>2, <2>3, <2>4, <2>6 DEF Promise!Guard, Promise!Becomes
  <2> QED BY <2>7 DEF Promise!Next
<1>14. CASE ArmOwn(o)
  <2>1. Goes(o, "arming", "body") /\ pc'[o] = "body" /\ cut' = cut
    BY <1>14, <1>a DEF ArmOwn, Goes
  <2>2. ConnOf(o)' = ConnOf(o) /\ Mine(FALSE)
    BY <2>1 DEF ConnOf, Goes, Armed
  <2>3. Conn' = [Conn EXCEPT ![o] = ConnOf(o)] /\ Expired' = [Expired EXCEPT ![o] = FALSE]
    BY <1>14, <2>1, <2>2, OthersView, ViewStep DEF ArmOwn
  <2>4. Expired' = Expired BY <2>1, <2>3 DEF Expired, Goes
  <2>5. Conn' = Conn BY <2>3 DEF Conn
  <2> QED BY <2>4, <2>5 DEF Promise!vars
<1>9. ASSUME NEW from, Goes(o, from, "close"), cut' = cut,
             ConnOf(o) \in {"open", "guarded", "cut"},
             NEW v \in BOOLEAN, latched'[o] = v,
             latched' = latched \/ (\E b \in BOOLEAN : latched' = [latched EXCEPT ![o] = b]),
             cut[o] => v
      PROVE  Promise!Next
  <2>1. pc'[o] = "close" BY <1>9, <1>a DEF Goes
  <2>2. ConnOf(o)' = "ended" BY <2>1 DEF ConnOf
  <2>3. Mine(v) BY <1>9, <2>1
  <2>4. Conn' = [Conn EXCEPT ![o] = "ended"] /\ Expired' = [Expired EXCEPT ![o] = v]
    BY <1>9, <2>2, <2>3, OthersView, ViewStep
  <2>5. ConnOf(o) = "cut" => v BY <1>9 DEF ConnOf
  <2>6. Promise!End(o, v)
    BY <1>9, <1>q, <2>4, <2>5 DEF Promise!End, Promise!Becomes
  <2> QED BY <2>6 DEF Promise!Next
<1>10. CASE ArmRefused(o)
  <2>1. Goes(o, "open", "close") /\ cut' = cut BY <1>10 DEF ArmRefused
  <2>2. PICK late \in BOOLEAN : latched' = [latched EXCEPT ![o] = late]
    BY <1>10 DEF ArmRefused
  <2>3. latched'[o] = late BY <2>2 DEF TypeOK
  <2>4. ConnOf(o) = "open" BY <2>1, <1>c DEF Goes, ConnOf, Armed
  <2>5. ~cut[o] BY <2>1, <1>c DEF Goes
  <2> QED BY <1>9, <2>1, <2>2, <2>3, <2>4, <2>5
<1>11. CASE ArmFails(o)
  <2>1. Goes(o, "publish", "close") /\ cut' = cut /\ latched' = latched
    BY <1>11 DEF ArmFails
  <2>2. latched'[o] \in BOOLEAN BY <2>1 DEF TypeOK
  <2>3. ConnOf(o) = "open" BY <2>1, <1>c DEF Goes, ConnOf, Armed
  <2>4. ~cut[o] BY <2>1, <1>c DEF Goes
  <2> QED BY <1>9, <2>1, <2>2, <2>3, <2>4
<1>12. CASE DisarmSettle(o)
  <2>1. Goes(o, "settle", "close") /\ cut' = cut BY <1>12 DEF DisarmSettle
  <2>2. PICK reached \in BOOLEAN :
          latched' = [latched EXCEPT ![o] = Verdict(o, reached)]
    BY <1>12 DEF DisarmSettle
  <2>3. Verdict(o, reached) \in BOOLEAN BY Zenon DEF Verdict
  <2>4. latched'[o] = Verdict(o, reached) BY <2>2 DEF TypeOK
  <2>5. cut[o] => Verdict(o, reached)
    BY <2>1 DEF FiredInv, Verdict, Goes, Armed
  <2>6. ConnOf(o) \in {"guarded", "cut"} BY <2>1 DEF ConnOf, Goes, Armed
  <2> QED BY <1>9, <2>1, <2>2, <2>3, <2>4, <2>5, <2>6
<1>13. CASE Close(o)
  <2>1. Goes(o, "close", "idle") /\ pc'[o] = "idle" /\ latched' = latched
        /\ cut' = [cut EXCEPT ![o] = FALSE]
    BY <1>13, <1>a DEF Close, Goes
  <2>2. ConnOf(o)' = "none" /\ ConnOf(o) = "ended" /\ Mine(FALSE)
    BY <2>1 DEF ConnOf, Goes
  <2>3. Conn' = [Conn EXCEPT ![o] = "none"] /\ Expired' = [Expired EXCEPT ![o] = FALSE]
    BY <2>1, <2>2, OthersView, ViewStep
  <2>4. Promise!Close(o) BY <1>q, <2>2, <2>3 DEF Promise!Close, Promise!Becomes
  <2> QED BY <2>4 DEF Promise!Next
<1> QED BY <1>2, <1>3, <1>4, <1>5, <1>6, <1>7, <1>8, <1>10, <1>11, <1>12, <1>13,
           <1>14, Zenon DEF OwnerStep, Proceeds

LEMMA SameView ==
  ASSUME UNCHANGED <<pc, cut, latched>> PROVE UNCHANGED Promise!vars
<1>1. Conn' = Conn BY DEF Conn, ConnOf
<1>2. Expired' = Expired BY DEF Expired
<1> QED BY <1>1, <1>2 DEF Promise!vars

(* The watchdog cuts exactly one connection, and that one is guarded.       *)
LEMMA CutRefines ==
  ASSUME IInv, WdCut PROVE [Promise!Next]_(Promise!vars)
<1> USE DEF IInv
<1>1. PICK o \in Owners : pc[o] \in Armed /\ fd[o] = wfd
  BY DEF WdCut, AlarmInv, OwnInv
<1>2. \A p \in Owners \ {o} : fd[p] # wfd
  BY <1>1, DeadlineAssumption DEF FdInv, Armed
<1>3. cut' = [cut EXCEPT ![o] = TRUE] /\ pc' = pc /\ latched' = latched
  BY <1>1, <1>2 DEF WdCut, Shutdown, TypeOK
<1>4. \A p \in Owners \ {o} : ConnOf(p)' = ConnOf(p)
  BY <1>3 DEF ConnOf, TypeOK
<1>5. ConnOf(o)' = "cut" /\ ConnOf(o) \in {"guarded", "cut"}
  BY <1>1, <1>3 DEF ConnOf, Armed, TypeOK
<1>6. Conn' = [Conn EXCEPT ![o] = "cut"] BY <1>4, <1>5 DEF Conn
<1>7. Expired' = Expired BY <1>3 DEF Expired
<1>8. CASE ConnOf(o) = "guarded"
  <2>1. Promise!Cut(o)
    BY <1>6, <1>7, <1>8 DEF Promise!Cut, Promise!Becomes, Conn
  <2> QED BY <2>1 DEF Promise!Next
<1>9. CASE ConnOf(o) = "cut"
  <2>1. Conn' = Conn BY <1>6, <1>9 DEF Conn
  <2> QED BY <2>1, <1>7 DEF Promise!vars
<1> QED BY <1>5, <1>8, <1>9

(* http_deadline.cpp implements Transfers, for any number of owners and     *)
(* descriptors: initial states map to initial states, every step to a step  *)
(* or a stutter.                                                            *)
THEOREM Implements == Spec => ImplementsTransfers
<1>1. Init => Promise!Init
  BY DEF Init, Promise!Init, Conn, ConnOf, Expired
<1>2. IInv /\ [Next]_vars => [Promise!Next]_(Promise!vars)
  <2> SUFFICES ASSUME IInv, [Next]_vars PROVE [Promise!Next]_(Promise!vars)
      OBVIOUS
  <2>1. CASE Restart
    <3>1. Promise!Reset BY <2>1 DEF Restart, Promise!Reset, Conn, ConnOf, Expired
    <3> QED BY <3>1 DEF Promise!Next
  <2>2. CASE DogStep
    <3>1. WdCut \/ UNCHANGED <<pc, cut, latched>>
      BY <2>2 DEF DogStep, Watchdog, Alarm, Callback, WdLoad, WdCutFails, WdAck, client
    <3> QED BY <3>1, CutRefines, SameView
  <2>3. CASE UNCHANGED vars BY <2>3, SameView DEF vars, client
  <2> QED BY <2>1, <2>2, <2>3, NextSplit, OwnerRefines
<1> QED BY Inductive, <1>1, <1>2, PTL DEF Spec, ImplementsTransfers, Promise!Spec


-----------------------------------------------------------------------------
(* The inductive invariant of Links *)

BootPlaces == Serving \cup {"wire", "wired?", "waiting", "judging", "failed", "succeeded", "restart"}
Booting  == [pc: BootPlaces, back: Serving, lease: BOOLEAN, fail: BOOLEAN, trial: BOOLEAN,
             ticks: 0 .. Window, elapsed: 0 .. Grace, auth: 0 .. AuthLimit]
Stations == [at: {"off", "seeking", "associated", "leased"}, trying: BOOLEAN, ever: BOOLEAN,
             retry: 0 .. MaxRetry, fail: BOOLEAN, reason: {"none", "refused", "silent"}]
Gateways == [probing: BOOLEAN, silent: 0 .. SilentLimit, blind: 0 .. BlindLimit,
             verified: BOOLEAN, dead: BOOLEAN]
Cables   == [lease: BOOLEAN, down: 0 .. DownLimit - 1]
Saids    == [said: {"none", "accepted", "refused", "silent"}, age: 0 .. Grace * Window,
             refusals: 0 .. AuthLimit, rollbacks: 0 .. 2]

LinkShape ==
  /\ flash \in Settings /\ cfg \in Settings /\ keep \in BOOLEAN
  /\ boot \in Booting /\ sta \in Stations /\ gateway \in Gateways /\ wire \in Cables
  /\ seen \in Saids

(* What a boot's counts say of what the access point said: a checkpoint is  *)
(* a window apart from the last one, and a refusal it counts is one.        *)
Waits == {"waiting", "judging"}
LinkCounts ==
  /\ boot.pc \in {"wire", "wired?"} => boot.ticks = 0 /\ boot.elapsed = 0 /\ boot.auth = 0 /\ ~boot.fail
  /\ boot.pc \in Waits /\ sta.reason = "refused" => seen.said = "refused"
  /\ boot.auth <= seen.refusals /\ boot.auth <= boot.elapsed
  /\ boot.pc \in Waits =>
       seen.age >= Grace * Window \/ seen.age >= boot.elapsed * Window + boot.ticks

(* A trial is of a change under way, and is given up on evidence; a change  *)
(* under way has not cost a restart yet.                                    *)
TrialInv ==
  /\ boot.pc \in Waits /\ boot.trial => ~sta.fail /\ ~boot.fail /\ cfg.active
  /\ boot.pc = "failed" => cfg.active /\ Evident
  /\ flash.active => seen.rollbacks = 0
  /\ cfg.active /\ ~keep => seen.rollbacks = 0
  /\ seen.rollbacks <= 1

LinkIInv == LinkShape /\ LinkCounts /\ TrialInv

-----------------------------------------------------------------------------
LEMMA LimitsIn ==
  /\ MaxRetry \in Nat /\ Window \in Nat /\ Grace \in Nat /\ AuthLimit \in Nat
  /\ SilentLimit \in Nat /\ BlindLimit \in Nat /\ DownLimit \in Nat
  /\ MaxRetry > 0 /\ Window > 0 /\ Grace > 0 /\ AuthLimit > 0
  /\ SilentLimit > 0 /\ BlindLimit > 0 /\ DownLimit > 0 /\ AuthLimit <= Grace
BY LinksAssumption

LEMMA CappedIn ==
  ASSUME NEW n \in Nat, NEW cap \in Nat
  PROVE  Capped(n, cap) \in 0..cap /\ Capped(n, cap) <= n /\ (Capped(n, cap) = n \/ Capped(n, cap) = cap)
BY DEF Capped

LEMMA Times ==
  ASSUME NEW a \in Nat, NEW b \in Nat, NEW w \in Nat, a <= b
  PROVE  a * w <= b * w /\ (a + 1) * w = a * w + w /\ a * w \in Nat
<1>1. a * w \in Nat /\ b * w \in Nat /\ (b - a) \in Nat OBVIOUS
<1>2. (b - a) * w >= 0 BY <1>1
<1>3. (b - a) * w = b * w - a * w BY <1>1
<1> QED BY <1>1, <1>2, <1>3

LEMMA InitLink == LinkInit => LinkIInv
<1> SUFFICES ASSUME LinkInit PROVE LinkIInv OBVIOUS
<1>1. PICK c \in Creds \cup {Nobody} :
        flash = [ssid |-> c, backup |-> Nobody, active |-> FALSE, told |-> FALSE]
  BY DEF LinkInit
<1>2. flash \in Settings /\ ~flash.active /\ cfg = flash BY <1>1 DEF Settings, LinkInit
<1>3. Grace * Window \in Nat BY LimitsIn
<1>4. LinkShape
  <2>1. boot \in Booting BY LimitsIn DEF LinkInit, AsksWire, Booting, BootPlaces, Serving
  <2>2. sta \in Stations BY LimitsIn DEF LinkInit, Off, Stations
  <2>3. gateway \in Gateways BY LimitsIn DEF LinkInit, Unproven, Gateways
  <2>4. wire \in Cables BY LimitsIn DEF LinkInit, Cables
  <2>5. seen \in Saids BY LimitsIn, <1>3 DEF LinkInit, Unseen, Saids
  <2> QED BY <1>2, <2>1, <2>2, <2>3, <2>4, <2>5 DEF LinkShape, LinkInit
<1>5. boot.pc = "wire" /\ boot.ticks = 0 /\ boot.elapsed = 0 /\ boot.auth = 0 /\ sta.reason = "none"
      /\ ~boot.fail /\ seen.refusals = 0 /\ seen.rollbacks = 0
  BY DEF LinkInit, AsksWire, Off, Unseen
<1>6. LinkCounts BY <1>5 DEF LinkCounts, Waits
<1>7. TrialInv BY <1>2, <1>5 DEF TrialInv, Waits
<1> QED BY <1>4, <1>6, <1>7 DEF LinkIInv

LEMMA BootsLink == ASSUME LinkIInv, Boots PROVE LinkIInv'
<1> USE DEF Boots
<1>1. LinkShape /\ TrialInv /\ flash \in Settings /\ flash' = flash BY DEF LinkIInv, LinkShape
<1>2. cfg' \in Settings /\ (~keep' => cfg' = flash)
  <2>1. CASE keep'
    <3>1. PICK a \in Creds, b \in Creds :
            cfg' = [ssid |-> a, backup |-> b, active |-> TRUE, told |-> FALSE]
      BY <2>1
    <3> QED BY <2>1, <3>1 DEF Settings
  <2>2. CASE ~keep' BY <1>1, <2>2
  <2> QED BY <2>1, <2>2
<1>3. Grace * Window \in Nat BY LimitsIn
<1>4. LinkShape'
  <2>1. boot' \in Booting BY LimitsIn DEF AsksWire, Booting, BootPlaces, Serving
  <2>2. sta' \in Stations BY LimitsIn DEF Off, Stations
  <2>3. gateway' \in Gateways BY LimitsIn DEF Unproven, Gateways
  <2>4. wire' \in Cables BY LimitsIn DEF Cables
  <2>5. seen' \in Saids BY <1>1, LimitsIn, <1>3 DEF Unseen, Saids, LinkShape
  <2> QED BY <1>1, <1>2, <2>1, <2>2, <2>3, <2>4, <2>5 DEF LinkShape
<1>5. boot'.pc = "wire" /\ boot'.ticks = 0 /\ boot'.elapsed = 0 /\ boot'.auth = 0
      /\ ~boot'.fail /\ sta'.reason = "none" /\ seen'.refusals = 0 /\ seen'.rollbacks = seen.rollbacks
  BY DEF AsksWire, Off, Unseen
<1>6. LinkCounts' BY <1>5 DEF LinkCounts, Waits
<1>7. TrialInv' BY <1>1, <1>2, <1>5 DEF TrialInv, Waits
<1> QED BY <1>4, <1>6, <1>7 DEF LinkIInv

(* A step that moves the boot to a place where it neither waits nor gives   *)
(* up, and leaves its counts and the station's verdict alone.               *)
LEMMA ServesLink ==
  ASSUME LinkIInv, LinkShape', boot'.pc \notin Waits \cup {"failed", "wire", "wired?"},
         boot'.auth = boot.auth, boot'.elapsed = boot.elapsed, seen'.refusals = seen.refusals,
         flash'.active => seen'.rollbacks = 0,
         cfg'.active /\ ~keep' => seen'.rollbacks = 0,
         seen'.rollbacks <= 1
  PROVE  LinkIInv'
BY DEF LinkIInv, LinkCounts, TrialInv, Waits

LEMMA LHeldLink == ASSUME LinkIInv, LHeld PROVE LinkIInv'
<1> USE DEF LHeld
<1>1. LinkShape /\ boot \in Booting /\ sta \in Stations BY DEF LinkIInv, LinkShape
<1>2. UNCHANGED <<flash, cfg, keep, gateway, wire, seen>> OBVIOUS
<1>3. boot' \in Booting /\ boot'.pc = boot.back /\ boot'.auth = boot.auth /\ boot'.elapsed = boot.elapsed
      /\ boot.back \in Serving
  BY <1>1 DEF Booting, BootPlaces
<1>4. sta' \in Stations /\ (sta'.reason = sta.reason \/ sta'.reason = "none")
  BY <1>1, LimitsIn DEF Stations, Off
<1>5. LinkShape' BY <1>1, <1>2, <1>3, <1>4 DEF LinkShape
<1>7. (flash'.active => seen'.rollbacks = 0) /\ (cfg'.active /\ ~keep' => seen'.rollbacks = 0)
      /\ seen'.rollbacks <= 1
  BY <1>2 DEF LinkIInv, TrialInv
<1> QED BY <1>2, <1>3, <1>5, <1>7, ServesLink DEF Serving, Waits

(* A step that leaves the settings and the boot alone: the station's        *)
(* verdict stays bound to what the access point said, and a trial's station *)
(* has not failed.                                                          *)
LEMMA StationLink ==
  ASSUME LinkIInv, UNCHANGED <<flash, cfg, keep, boot>>,
         sta' \in Stations, gateway' \in Gateways, wire' \in Cables, seen' \in Saids,
         seen'.age = seen.age, seen'.refusals = seen.refusals, seen'.rollbacks = seen.rollbacks,
         boot.pc \in Waits /\ sta'.reason = "refused" => seen'.said = "refused",
         boot.pc \in Waits /\ boot.trial => ~sta'.fail
  PROVE  LinkIInv'
<1>1. LinkShape' BY DEF LinkIInv, LinkShape
<1>2. LinkCounts' BY DEF LinkIInv, LinkCounts
<1>3. TrialInv' BY DEF LinkIInv, TrialInv, Evident
<1> QED BY <1>1, <1>2, <1>3 DEF LinkIInv

LEMMA SetsWifiLink == ASSUME LinkIInv, SetsWifi PROVE LinkIInv'
<1>1. PICK c \in Creds, how \in Outcomes :
        /\ Saved(Changed(c), how)
        /\ keep' = (keep /\ how # "ok")
        /\ boot' = IF how = "ok" THEN [boot EXCEPT !.pc = "restart", !.back = boot.pc] ELSE boot
        /\ seen' = [seen EXCEPT !.rollbacks = IF how = "failed" THEN @ ELSE 0]
  BY DEF SetsWifi
<1>2. LinkShape /\ boot \in Booting /\ seen \in Saids /\ cfg \in Settings /\ flash \in Settings
      /\ keep \in BOOLEAN /\ boot.pc \in Serving
  BY DEF LinkIInv, LinkShape, SetsWifi
<1>3. UNCHANGED <<sta, gateway, wire>> BY DEF SetsWifi
<1>4. Changed(c) \in Settings BY <1>2 DEF Changed, Settings
<1>5. flash' \in Settings /\ cfg' \in Settings BY <1>1, <1>2, <1>4 DEF Saved
<1>6. boot' \in Booting /\ boot'.auth = boot.auth /\ boot'.elapsed = boot.elapsed
      /\ boot'.pc \in Serving \cup {"restart"}
  BY <1>1, <1>2 DEF Booting, BootPlaces
<1>7. seen' \in Saids /\ seen'.refusals = seen.refusals
      /\ seen'.rollbacks = IF how = "failed" THEN seen.rollbacks ELSE 0
  BY <1>1, <1>2 DEF Saids
<1>8. keep' \in BOOLEAN BY <1>1
<1>9. LinkShape' BY <1>2, <1>3, <1>5, <1>6, <1>7, <1>8 DEF LinkShape
<1>10. /\ flash'.active => seen'.rollbacks = 0
       /\ cfg'.active /\ ~keep' => seen'.rollbacks = 0
       /\ seen'.rollbacks <= 1
  <2>1. CASE how = "failed"
    BY <1>1, <1>7, <2>1 DEF Saved, LinkIInv, TrialInv
  <2>2. CASE how # "failed" BY <1>7, <2>2
  <2> QED BY <2>1, <2>2
<1> QED BY <1>6, <1>7, <1>9, <1>10, ServesLink DEF Serving, Waits

LEMMA SavesAllLink == ASSUME LinkIInv, SavesAll PROVE LinkIInv'
<1>1. LinkShape /\ seen \in Saids /\ boot.pc \in Serving /\ seen.rollbacks <= 1
  BY DEF LinkIInv, LinkShape, SavesAll, TrialInv
<1>2. seen' \in Saids /\ seen'.refusals = seen.refusals
      /\ seen'.rollbacks = IF cfg.active THEN 0 ELSE seen.rollbacks
  BY <1>1 DEF SavesAll, Saids
<1>3. LinkShape' BY <1>1, <1>2 DEF LinkShape, SavesAll
<1>4. flash' = cfg /\ cfg' = cfg /\ boot' = boot BY DEF SavesAll
<1> QED BY <1>1, <1>2, <1>3, <1>4, ServesLink DEF Serving, Waits

-----------------------------------------------------------------------------
(* The wire *)

LEMMA WireStepsLink ==
  ASSUME LinkIInv, WireLeases \/ WireLost
  PROVE  LinkIInv'
<1> USE DEF WireLeases, WireLost, WireOnly
<1>1. LinkShape BY DEF LinkIInv
<1>2. wire' \in Cables BY <1>1 DEF LinkShape, Cables
<1> QED BY <1>1, <1>2, StationLink DEF LinkShape, LinkIInv, LinkCounts, TrialInv

LEMMA WireWaitsLink == ASSUME LinkIInv, WireWaits PROVE LinkIInv'
<1>1. LinkShape /\ boot \in Booting /\ wire \in Cables /\ boot.pc = "wire"
      /\ UNCHANGED <<flash, cfg, keep, sta, gateway, wire, seen>>
  BY DEF LinkIInv, LinkShape, WireWaits, WireOnly
<1>2. boot' \in Booting /\ boot'.pc = "wired?" /\ boot'.ticks = boot.ticks
      /\ boot'.elapsed = boot.elapsed /\ boot'.auth = boot.auth /\ (boot'.fail <=> boot.fail)
  BY <1>1 DEF WireWaits, Booting, BootPlaces, Cables
<1>3. LinkShape' BY <1>1, <1>2 DEF LinkShape
<1>4. LinkCounts' BY <1>1, <1>2 DEF LinkIInv, LinkCounts, Waits
<1>5. TrialInv' BY <1>1, <1>2 DEF LinkIInv, TrialInv, Waits
<1> QED BY <1>3, <1>4, <1>5 DEF LinkIInv

LEMMA WireJudgedLink == ASSUME LinkIInv, WireJudged PROVE LinkIInv'
<1>1. LinkShape /\ boot \in Booting /\ boot.pc = "wired?" /\ seen \in Saids
      /\ UNCHANGED <<flash, cfg, keep, gateway, wire, seen>>
  BY DEF LinkIInv, LinkShape, WireJudged
<1>2. PICK next \in {"wired", "waiting", "portal"} :
        /\ boot' = [boot EXCEPT !.pc = next, !.lease = FALSE, !.trial = next = "waiting" /\ Trial]
        /\ sta' = IF next = "waiting" THEN Station ELSE Off
  BY DEF WireJudged
<1>3. boot' \in Booting BY <1>1, <1>2 DEF Booting, BootPlaces, Serving
<1>4. boot'.pc = next /\ boot'.ticks = 0 /\ boot'.elapsed = 0 /\ boot'.auth = 0
  BY <1>1, <1>2 DEF LinkIInv, LinkCounts, Booting
<1>5. ~boot'.fail BY <1>1, <1>2 DEF LinkIInv, LinkCounts, Booting
<1>6. boot'.trial => Trial BY <1>1, <1>2 DEF Booting
<1>7. sta' \in Stations /\ sta'.reason = "none" /\ ~sta'.fail
  <2>1. Off \in Stations /\ Off.reason = "none" /\ ~Off.fail
    BY LimitsIn DEF Off, Stations
  <2>2. Station \in Stations /\ Station.reason = "none" /\ ~Station.fail
    BY <2>1 DEF Station, Stations
  <2>3. sta' \in {Station, Off} BY <1>2
  <2> QED BY <2>1, <2>2, <2>3
<1>8. LinkShape' BY <1>1, <1>3, <1>7 DEF LinkShape
<1>9. seen.age \in Nat /\ seen.refusals \in Nat /\ Grace * Window \in Nat /\ 0 * Window = 0
  BY <1>1, LimitsIn DEF Saids
<1>10. LinkCounts' BY <1>1, <1>4, <1>5, <1>7, <1>9 DEF LinkCounts, Waits
<1>11. TrialInv' BY <1>1, <1>4, <1>5, <1>6, <1>7 DEF LinkIInv, TrialInv, Waits, Trial
<1> QED BY <1>8, <1>10, <1>11 DEF LinkIInv

LEMMA FallbackLink ==
  ASSUME LinkIInv, NEW busy \in BOOLEAN, FallbackPeriod(busy)
  PROVE  LinkIInv'
<1>1. LinkShape /\ boot \in Booting /\ wire \in Cables /\ sta \in Stations /\ seen \in Saids
      /\ gateway \in Gateways /\ UNCHANGED <<flash, cfg, keep, sta, gateway, seen>>
  BY DEF LinkIInv, LinkShape, FallbackPeriod, WireOnly
<1>2. wire' \in Cables
  <2>1. wire.down \in 0 .. DownLimit - 1 /\ Fallback(wire.down) \in 0 .. DownLimit - 1
        /\ 0 \in 0 .. DownLimit - 1
    BY <1>1, LimitsIn DEF Cables, Fallback
  <2> QED BY <1>1, <2>1 DEF FallbackPeriod, Cables
<1>3. CASE boot' = boot
  BY <1>1, <1>2, <1>3, StationLink DEF LinkIInv, LinkCounts, TrialInv
<1>4. CASE boot' = [boot EXCEPT !.pc = "restart", !.back = "wired"]
  <2>1. boot' \in Booting /\ boot'.pc = "restart" /\ boot'.auth = boot.auth
        /\ boot'.elapsed = boot.elapsed
    BY <1>1, <1>4 DEF Booting, BootPlaces, Serving
  <2>2. LinkShape' BY <1>1, <1>2, <2>1 DEF LinkShape
  <2> QED BY <1>1, <2>1, <2>2, ServesLink DEF Waits, LinkIInv, TrialInv
<1> QED BY <1>3, <1>4 DEF FallbackPeriod

-----------------------------------------------------------------------------
(* on_wifi *)

(* A lost link is tried again, or is given up by a boot that is no trial.   *)
LEMMA DroppedIn ==
  ASSUME NEW s \in Stations, NEW why \in {"refused", "silent"}, NEW trial \in BOOLEAN
  PROVE  /\ Dropped(s, why, trial) \in Stations
         /\ Dropped(s, why, trial).reason = why
         /\ trial => (Dropped(s, why, trial).fail <=> s.fail)
<1> DEFINE gone == [s EXCEPT !.at = "seeking", !.trying = FALSE, !.reason = why, !.fail = TRUE]
           again == [s EXCEPT !.at = "seeking", !.trying = TRUE, !.reason = why,
                              !.retry = Capped(@ + 1, MaxRetry)]
<1>1. gone \in Stations /\ gone.reason = why BY DEF Stations
<1>2. Capped(s.retry + 1, MaxRetry) \in 0 .. MaxRetry
  <2>1. s.retry + 1 \in Nat BY LimitsIn DEF Stations
  <2> QED BY <2>1, LimitsIn, CappedIn
<1>3. again \in Stations /\ again.reason = why /\ again.fail = s.fail BY <1>2 DEF Stations
<1>4. Dropped(s, why, trial) = IF ~s.ever /\ s.retry >= MaxRetry /\ ~trial THEN gone ELSE again
  BY DEF Dropped
<1> HIDE DEF gone, again
<1>5. CASE ~s.ever /\ s.retry >= MaxRetry /\ ~trial BY <1>1, <1>4, <1>5
<1>6. CASE ~(~s.ever /\ s.retry >= MaxRetry /\ ~trial) BY <1>3, <1>4, <1>6
<1> QED BY <1>5, <1>6

LEMMA AssociatesLink == ASSUME LinkIInv, Associates PROVE LinkIInv'
<1>1. LinkShape /\ UNCHANGED <<flash, cfg, keep, boot, gateway, wire>>
  BY DEF LinkIInv, Associates, StaOnly
<1>2. sta' \in Stations /\ sta'.reason = "none" /\ (sta'.fail <=> sta.fail)
  BY <1>1 DEF Associates, Associated, LinkShape, Stations
<1>3. seen' \in Saids /\ seen'.age = seen.age /\ seen'.refusals = seen.refusals
      /\ seen'.rollbacks = seen.rollbacks
  BY <1>1 DEF Associates, LinkShape, Saids
<1> QED BY <1>1, <1>2, <1>3, StationLink DEF LinkShape, LinkIInv, TrialInv

LEMMA DisconnectsLink ==
  ASSUME LinkIInv, NEW why \in {"refused", "silent"}, Disconnects(why)
  PROVE  LinkIInv'
<1>1. LinkShape /\ boot.trial \in BOOLEAN /\ UNCHANGED <<flash, cfg, keep, boot, wire>>
  BY DEF LinkIInv, LinkShape, Booting, Disconnects, StaOnly
<1>2. sta' = Dropped(sta, why, boot.trial) /\ sta \in Stations
  BY <1>1 DEF Disconnects, Disconnected, LinkShape
<1>3. sta' \in Stations /\ sta'.reason = why /\ (boot.trial => (sta'.fail <=> sta.fail))
  BY <1>1, <1>2, DroppedIn
<1>4. seen' \in Saids /\ seen'.age = seen.age /\ seen'.refusals = seen.refusals
      /\ seen'.rollbacks = seen.rollbacks /\ seen'.said = why
  BY <1>1 DEF Disconnects, Disconnected, LinkShape, Saids
<1>5. gateway' \in Gateways BY <1>1 DEF Disconnects, Disconnected, LinkShape, Gateways
<1>6. boot.pc \in Waits /\ boot.trial => ~sta'.fail BY <1>3 DEF LinkIInv, TrialInv
<1> QED BY <1>1, <1>3, <1>4, <1>5, <1>6, StationLink DEF LinkShape

LEMMA LeaseStepsLink ==
  ASSUME LinkIInv, Leases \/ LosesLease \/ GoesGhost
  PROVE  LinkIInv'
<1> USE DEF Leases, LosesLease, GoesGhost, StaOnly
<1>1. LinkShape /\ UNCHANGED <<flash, cfg, keep, boot, wire, seen>> BY DEF LinkIInv
<1>2. sta' \in Stations /\ sta'.reason = sta.reason /\ (sta'.fail <=> sta.fail)
  <2>1. sta \in Stations /\ 0 \in 0 .. MaxRetry BY <1>1, LimitsIn DEF LinkShape
  <2>2. CASE Leases BY <2>1, <2>2 DEF Stations
  <2>3. CASE LosesLease BY <2>1, <2>3 DEF Stations
  <2>4. CASE GoesGhost BY <2>1, <2>4
  <2> QED BY <2>2, <2>3, <2>4
<1>3. gateway' \in Gateways BY <1>1 DEF LinkShape, Gateways
<1>4. boot.pc \in Waits /\ sta'.reason = "refused" => seen'.said = "refused"
  BY <1>1, <1>2 DEF LinkIInv, LinkCounts
<1>5. boot.pc \in Waits /\ boot.trial => ~sta'.fail BY <1>2 DEF LinkIInv, TrialInv
<1>6. wire' \in Cables /\ seen' \in Saids BY <1>1 DEF LinkShape
<1> HIDE DEF Leases, LosesLease, GoesGhost, StaOnly
<1> QED BY <1>1, <1>2, <1>3, <1>4, <1>5, <1>6, StationLink

-----------------------------------------------------------------------------
(* wifi_wait_sta_connected *)

LEMMA TicksLink == ASSUME LinkIInv, Ticks PROVE LinkIInv'
<1>1. LinkShape /\ boot \in Booting /\ seen \in Saids /\ boot.pc \in Waits /\ boot.ticks < Window
      /\ UNCHANGED <<flash, cfg, keep, sta, gateway, wire>>
  BY DEF LinkIInv, LinkShape, Ticks, BootOnly, Waits
<1>2. boot' \in Booting /\ boot'.pc = boot.pc /\ boot'.ticks = boot.ticks + 1
      /\ boot'.elapsed = boot.elapsed /\ boot'.auth = boot.auth
      /\ (boot'.fail <=> boot.fail) /\ (boot'.trial <=> boot.trial)
  <2>1. boot.ticks + 1 \in 0 .. Window BY <1>1, LimitsIn DEF Booting
  <2> QED BY <1>1, <2>1 DEF Ticks, Booting
<1>3. Grace * Window \in Nat /\ seen.age \in Nat /\ seen.age + 1 \in Nat /\ seen.age <= Grace * Window
  BY <1>1, LimitsIn DEF Saids
<1>4. Capped(seen.age + 1, Grace * Window) \in 0 .. Grace * Window
      /\ Capped(seen.age + 1, Grace * Window) \in {seen.age + 1, Grace * Window}
  BY <1>3, CappedIn
<1>5. seen' \in Saids /\ seen'.age = Capped(seen.age + 1, Grace * Window)
      /\ seen'.refusals = seen.refusals /\ seen'.rollbacks = seen.rollbacks /\ seen'.said = seen.said
  BY <1>1, <1>4 DEF Ticks, Saids
<1>6. LinkShape' BY <1>1, <1>2, <1>5 DEF LinkShape
<1>7. LinkCounts'
  <2>1. boot.elapsed * Window \in Nat /\ boot.ticks \in Nat BY <1>1, LimitsIn DEF Booting
  <2>2. seen'.age >= Grace * Window \/ seen'.age >= boot'.elapsed * Window + boot'.ticks
    <3>1. seen.age >= Grace * Window \/ seen.age >= boot.elapsed * Window + boot.ticks
      BY <1>1 DEF LinkIInv, LinkCounts
    <3>2. CASE seen'.age = Grace * Window BY <1>3, <3>2
    <3>3. CASE seen'.age = seen.age + 1
      BY <1>2, <1>3, <2>1, <3>1, <3>3
    <3> QED BY <1>4, <1>5, <3>2, <3>3
  <2> QED BY <1>1, <1>2, <1>5, <2>2 DEF LinkIInv, LinkCounts, Waits
<1>8. TrialInv' BY <1>1, <1>2, <1>5 DEF LinkIInv, TrialInv, Waits
<1> QED BY <1>6, <1>7, <1>8 DEF LinkIInv

LEMMA WakesLink == ASSUME LinkIInv, Wakes PROVE LinkIInv'
<1>1. LinkShape /\ boot \in Booting /\ boot.pc = "waiting" /\ sta \in Stations
      /\ UNCHANGED <<flash, cfg, keep, sta, gateway, wire, seen>>
  BY DEF LinkIInv, LinkShape, Wakes, BootOnly
<1>2. Leased \in BOOLEAN /\ sta.fail \in BOOLEAN BY <1>1 DEF Leased, Stations
<1>3. boot' \in Booting /\ boot'.pc = "judging" /\ boot'.ticks = boot.ticks
      /\ boot'.elapsed = boot.elapsed /\ boot'.auth = boot.auth
      /\ (boot'.fail <=> sta.fail) /\ (boot'.trial <=> boot.trial)
  BY <1>1, <1>2 DEF Wakes, Booting, BootPlaces
<1>4. LinkShape' BY <1>1, <1>3 DEF LinkShape
<1>5. LinkCounts' BY <1>1, <1>3 DEF LinkIInv, LinkCounts, Waits
<1>6. TrialInv' BY <1>1, <1>3 DEF LinkIInv, TrialInv, Waits
<1> QED BY <1>4, <1>5, <1>6 DEF LinkIInv

(* A checkpoint of a trial.  A streak of refusals is one the access point   *)
(* said, and each is a window apart.                                        *)
LEMMA JudgesLink == ASSUME LinkIInv, Judges PROVE LinkIInv'
<1>1. LinkShape /\ boot \in Booting /\ seen \in Saids /\ sta \in Stations /\ boot.pc = "judging"
      /\ UNCHANGED <<flash, cfg, keep, gateway, wire>>
  BY DEF LinkIInv, LinkShape, Judges
<1>2. sta' \in Stations /\ (boot'.pc # "portal" => sta' = sta)
  <2>1. Off \in Stations BY LimitsIn DEF Off, Stations
  <2> QED BY <1>1, <2>1 DEF Judges
<1>3. CASE boot' = [boot EXCEPT !.pc = "succeeded"] /\ UNCHANGED seen
  <2>1. boot' \in Booting /\ boot'.pc = "succeeded" /\ boot'.auth = boot.auth
        /\ boot'.elapsed = boot.elapsed
    BY <1>1, <1>3 DEF Booting, BootPlaces
  <2>2. LinkShape' BY <1>1, <1>2, <1>3, <2>1 DEF LinkShape
  <2> QED BY <1>1, <1>3, <2>1, <2>2, ServesLink DEF LinkIInv, TrialInv, Waits
<1>4. CASE boot' = WaitsOn(boot) /\ UNCHANGED seen
  <2>1. boot' \in Booting /\ boot'.pc = "waiting" /\ boot'.auth = boot.auth
        /\ boot'.elapsed = boot.elapsed /\ boot'.ticks = boot.ticks
        /\ (boot'.fail <=> boot.fail) /\ (boot'.trial <=> boot.trial)
    BY <1>1, <1>4 DEF WaitsOn, Booting, BootPlaces
  <2>2. LinkShape' BY <1>1, <1>2, <1>4, <2>1 DEF LinkShape
  <2>3. LinkCounts' BY <1>1, <1>2, <1>4, <2>1 DEF LinkIInv, LinkCounts, Waits
  <2>4. TrialInv' BY <1>1, <1>2, <1>4, <2>1 DEF LinkIInv, TrialInv, Waits
  <2> QED BY <2>2, <2>3, <2>4 DEF LinkIInv
<1>5. CASE (boot.fail \/ ~(boot.ticks < Window)) /\ ~(boot' = [boot EXCEPT !.pc = "succeeded"] /\ UNCHANGED seen)
  <2> DEFINE n    == Streak(boot.auth, sta.reason)
             over == boot.fail \/ ~boot.trial \/ GivesUp(n, boot.elapsed + 1)
             next == IF ~over THEN "waiting" ELSE IF boot.trial THEN "failed" ELSE "portal"
             elapsed == Capped(boot.elapsed + 1, Grace)
             auth == Capped(n, AuthLimit)
             refusals == IF seen.said = "refused" THEN Capped(seen.refusals + 1, AuthLimit) ELSE 0
  <2>1. /\ boot' = [boot EXCEPT !.pc = next, !.lease = FALSE, !.ticks = 0, !.elapsed = elapsed, !.auth = auth]
        /\ seen' = [seen EXCEPT !.refusals = refusals]
    BY <1>1, <1>5 DEF Judges
  <2>2. boot.auth \in Nat /\ boot.elapsed \in Nat /\ boot.ticks \in Nat /\ seen.refusals \in Nat
        /\ seen.age \in Nat /\ boot.ticks <= Window /\ boot.elapsed <= Grace /\ boot.auth <= AuthLimit
        /\ boot.fail \in BOOLEAN /\ boot.trial \in BOOLEAN
    BY <1>1, LimitsIn DEF Booting, Saids
  <2>3. /\ boot.auth <= seen.refusals /\ boot.auth <= boot.elapsed
        /\ sta.reason = "refused" => seen.said = "refused"
        /\ seen.age >= Grace * Window \/ seen.age >= boot.elapsed * Window + boot.ticks
    BY <1>1 DEF LinkIInv, LinkCounts, Waits
  <2>4. n = (IF sta.reason = "refused" THEN boot.auth + 1 ELSE 0) /\ n \in Nat
    BY <2>2 DEF Streak
  <2> HIDE DEF n
  <2>5. /\ elapsed \in 0 .. Grace /\ elapsed <= boot.elapsed + 1 /\ elapsed \in {boot.elapsed + 1, Grace}
        /\ auth \in 0 .. AuthLimit /\ auth <= n /\ auth \in {n, AuthLimit}
    <3>1. boot.elapsed + 1 \in Nat /\ n \in Nat BY <2>2, <2>4
    <3>2. /\ Capped(boot.elapsed + 1, Grace) \in 0 .. Grace
          /\ Capped(boot.elapsed + 1, Grace) <= boot.elapsed + 1
          /\ Capped(boot.elapsed + 1, Grace) \in {boot.elapsed + 1, Grace}
      BY <3>1, LimitsIn, CappedIn
    <3>3. /\ Capped(n, AuthLimit) \in 0 .. AuthLimit /\ Capped(n, AuthLimit) <= n
          /\ Capped(n, AuthLimit) \in {n, AuthLimit}
      BY <3>1, LimitsIn, CappedIn
    <3> QED BY <3>2, <3>3 DEF elapsed, auth
  <2>6. refusals \in 0 .. AuthLimit
        /\ (seen.said = "refused" => refusals = AuthLimit \/ refusals = seen.refusals + 1)
    <3>1. seen.refusals + 1 \in Nat BY <2>2
    <3>2. /\ Capped(seen.refusals + 1, AuthLimit) \in 0 .. AuthLimit
          /\ Capped(seen.refusals + 1, AuthLimit) \in {seen.refusals + 1, AuthLimit}
      BY <3>1, LimitsIn, CappedIn
    <3> QED BY <3>2, LimitsIn DEF refusals
  <2>7. next \in {"waiting", "failed", "portal"} OBVIOUS
  <2> HIDE DEF next, elapsed, auth, refusals
  <2>8. boot' \in Booting /\ boot'.pc = next /\ boot'.ticks = 0 /\ boot'.elapsed = elapsed
        /\ boot'.auth = auth /\ (boot'.fail <=> boot.fail) /\ (boot'.trial <=> boot.trial)
    <3>1. next \in BootPlaces /\ 0 \in 0 .. Window BY <2>7, LimitsIn DEF BootPlaces, Serving
    <3>2. elapsed \in 0 .. Grace /\ auth \in 0 .. AuthLimit BY <2>5
    <3>3. boot' \in Booting BY <1>1, <2>1, <3>1, <3>2 DEF Booting
    <3> QED BY <1>1, <2>1, <3>3 DEF Booting
  <2>9. seen' \in Saids /\ seen'.refusals = refusals /\ seen'.age = seen.age
        /\ seen'.said = seen.said /\ seen'.rollbacks = seen.rollbacks
    BY <1>1, <2>1, <2>6 DEF Saids
  <2>10. LinkShape' BY <1>1, <1>2, <2>8, <2>9 DEF LinkShape
  <2>11. auth <= refusals /\ auth <= elapsed
    <3>1. CASE sta.reason = "refused"
      <4>1. n = boot.auth + 1 /\ seen.said = "refused" BY <2>3, <2>4, <3>1
      <4>2. auth <= boot.auth + 1 /\ auth <= AuthLimit BY <2>5, <4>1
      <4>3. auth <= refusals BY <2>2, <2>3, <2>5, <2>6, <4>1, <4>2
      <4>4. auth <= elapsed BY <2>2, <2>3, <2>5, <4>2, LimitsIn
      <4> QED BY <4>3, <4>4
    <3>2. CASE sta.reason # "refused" BY <2>4, <2>5, <2>6, <3>2
    <3> QED BY <3>1, <3>2
  <2>12. ~boot.fail => seen.age >= Grace * Window \/ seen.age >= (boot.elapsed + 1) * Window
    <3>1. (boot.elapsed + 1) * Window = boot.elapsed * Window + Window /\ boot.elapsed * Window \in Nat
      BY <2>2, Times, LimitsIn
    <3>2. ~boot.fail => boot.ticks = Window BY <1>5, <2>2, LimitsIn
    <3> QED BY <2>2, <2>3, <3>1, <3>2
  <2>13. next # "portal" => (next = "failed" <=> over) /\ (~over => ~boot.fail)
    BY DEF next
  <2>14. next = "failed" => boot.trial BY DEF next
  <2>15. LinkCounts'
    <3>1. next = "waiting" => seen'.age >= Grace * Window \/ seen'.age >= elapsed * Window + 0
      <4> SUFFICES ASSUME next = "waiting"
                   PROVE  seen.age >= Grace * Window \/ seen.age >= elapsed * Window + 0
        BY <2>9
      <4>1. seen.age >= Grace * Window \/ seen.age >= (boot.elapsed + 1) * Window BY <2>12, <2>13
      <4>2. elapsed * Window <= (boot.elapsed + 1) * Window /\ elapsed * Window \in Nat
            /\ (boot.elapsed + 1) * Window \in Nat
        <5>1. elapsed \in Nat /\ boot.elapsed + 1 \in Nat /\ elapsed <= boot.elapsed + 1 BY <2>2, <2>5
        <5> QED BY <5>1, Times, LimitsIn
      <4> QED BY <2>2, <4>1, <4>2
    <3>2. next = "waiting" /\ sta'.reason = "refused" => seen'.said = "refused"
      BY <1>2, <2>3, <2>8, <2>9
    <3> QED BY <2>7, <2>8, <2>9, <2>11, <3>1, <3>2 DEF LinkCounts, Waits
  <2>16. TrialInv'
    <3>1. boot.trial => ~boot.fail /\ ~sta.fail /\ cfg.active BY <1>1 DEF LinkIInv, TrialInv, Waits
    <3>2. next = "failed" => \/ seen.age >= Grace * Window
                           \/ (refusals >= AuthLimit /\ seen.age >= AuthLimit * Window)
      <4> SUFFICES ASSUME next = "failed", ~(seen.age >= Grace * Window)
                   PROVE  refusals >= AuthLimit /\ seen.age >= AuthLimit * Window
        OBVIOUS
      <4>1. boot.trial /\ ~boot.fail /\ GivesUp(n, boot.elapsed + 1) BY <2>13, <2>14, <3>1
      <4>2. seen.age >= (boot.elapsed + 1) * Window BY <2>12, <4>1
      <4>3. ~(boot.elapsed + 1 >= Grace)
        <5> SUFFICES ASSUME boot.elapsed + 1 >= Grace PROVE FALSE OBVIOUS
        <5>1. Grace * Window <= (boot.elapsed + 1) * Window /\ Grace * Window \in Nat
              /\ (boot.elapsed + 1) * Window \in Nat
          <6>1. boot.elapsed + 1 \in Nat /\ Grace <= boot.elapsed + 1 BY <2>2, LimitsIn
          <6>2. (boot.elapsed + 1) * Window \in Nat BY <6>1, Times, LimitsIn
          <6> QED BY <6>1, <6>2, Times, LimitsIn
        <5> QED BY <2>2, <4>2, <5>1
      <4>4. n >= AuthLimit BY <4>1, <4>3 DEF GivesUp
      <4>5. sta.reason = "refused" /\ n = boot.auth + 1 /\ seen.said = "refused"
        BY <2>3, <2>4, <4>4, LimitsIn
      <4>6. refusals >= AuthLimit BY <2>2, <2>3, <2>6, <4>4, <4>5, LimitsIn
      <4>7. AuthLimit * Window <= (boot.elapsed + 1) * Window /\ AuthLimit * Window \in Nat
            /\ (boot.elapsed + 1) * Window \in Nat
        <5>1. boot.elapsed + 1 \in Nat /\ AuthLimit <= boot.elapsed + 1
          BY <2>2, <2>3, <4>4, <4>5, LimitsIn
        <5>2. (boot.elapsed + 1) * Window \in Nat BY <5>1, Times, LimitsIn
        <5> QED BY <5>1, <5>2, Times, LimitsIn
      <4> QED BY <2>2, <4>2, <4>6, <4>7
    <3>3. next = "failed" => cfg.active /\ Evident'
      BY <2>9, <2>14, <3>1, <3>2 DEF Evident
    <3>4. next = "waiting" /\ boot.trial => ~sta'.fail /\ ~boot.fail /\ cfg.active
      BY <1>2, <2>8, <3>1
    <3>5. boot'.pc \in Waits /\ boot'.trial => ~sta'.fail /\ ~boot'.fail /\ cfg'.active
      BY <1>1, <2>7, <2>8, <3>4 DEF Waits
    <3>6. boot'.pc = "failed" => cfg'.active /\ Evident' BY <1>1, <2>8, <3>3
    <3> QED BY <1>1, <2>9, <3>5, <3>6 DEF LinkIInv, TrialInv
  <2> QED BY <2>10, <2>15, <2>16 DEF LinkIInv
<1> QED BY <1>3, <1>4, <1>5 DEF Judges

(* The old credentials come back in a save that may fail; only one that     *)
(* succeeded restarts, and its change has not cost a restart before.        *)
LEMMA RollsBackLink ==
  ASSUME LinkIInv, RollsBack
  PROVE  /\ LinkIInv'
         /\ flash' # flash => ~keep /\ Evident /\ flash'.ssid = cfg.backup
<1>1. PICK how \in IF keep THEN {"failed"} ELSE Outcomes :
        /\ Saved(Restored, how)
        /\ boot' = [boot EXCEPT !.pc = AfterRollback(how), !.back = "portal"]
        /\ sta' = IF boot'.pc = "portal" THEN Off ELSE sta
        /\ seen' = [seen EXCEPT !.rollbacks = IF boot'.pc = "restart" THEN Capped(@ + 1, 2) ELSE @]
  BY DEF RollsBack
<1>2. LinkShape /\ boot \in Booting /\ seen \in Saids /\ sta \in Stations /\ cfg \in Settings
      /\ flash \in Settings /\ boot.pc = "failed" /\ UNCHANGED <<keep, gateway, wire>>
  BY DEF LinkIInv, LinkShape, RollsBack
<1>3. /\ cfg.active /\ Evident
      /\ flash.active => seen.rollbacks = 0
      /\ cfg.active /\ ~keep => seen.rollbacks = 0
      /\ seen.rollbacks <= 1
  BY <1>2 DEF LinkIInv, TrialInv
<1>4. Restored \in Settings /\ ~Restored.active /\ Restored.ssid = cfg.backup
  BY <1>2 DEF Restored, Settings
<1>5. how \in Outcomes /\ (keep => how = "failed") BY <1>1 DEF Outcomes
<1>6. /\ flash' = (IF how = "failed" THEN flash ELSE Restored)
      /\ cfg' = (IF how = "ok" THEN Restored ELSE cfg)
  BY <1>1 DEF Saved
<1>7. flash' \in Settings /\ cfg' \in Settings BY <1>2, <1>4, <1>6
<1>8. boot' \in Booting /\ boot'.auth = boot.auth /\ boot'.elapsed = boot.elapsed
      /\ boot'.pc = (IF how = "ok" THEN "restart" ELSE "portal")
  BY <1>1, <1>2 DEF Booting, BootPlaces, Serving, AfterRollback
<1>9. sta' \in Stations
  <2>1. Off \in Stations BY LimitsIn DEF Off, Stations
  <2> QED BY <1>1, <1>2, <2>1
<1>10. seen' \in Saids /\ seen'.refusals = seen.refusals
       /\ seen'.rollbacks = (IF how = "ok" THEN Capped(seen.rollbacks + 1, 2) ELSE seen.rollbacks)
  <2>1. seen.rollbacks + 1 \in Nat /\ seen.rollbacks \in 0 .. 2 BY <1>2 DEF Saids
  <2>2. Capped(seen.rollbacks + 1, 2) \in 0 .. 2 BY <2>1, CappedIn
  <2> QED BY <1>1, <1>2, <1>8, <2>1, <2>2 DEF Saids
<1>11. LinkShape' BY <1>2, <1>7, <1>8, <1>9, <1>10 DEF LinkShape
<1>12. /\ flash'.active => seen'.rollbacks = 0
       /\ cfg'.active /\ ~keep' => seen'.rollbacks = 0
       /\ seen'.rollbacks <= 1
  <2>1. CASE how = "ok"
    <3>1. Capped(seen.rollbacks + 1, 2) <= 1
      <4>1. seen.rollbacks = 0 BY <1>3, <1>5, <2>1
      <4> QED BY <4>1 DEF Capped
    <3> QED BY <1>4, <1>6, <1>10, <2>1, <3>1
  <2>2. CASE how # "ok" BY <1>2, <1>3, <1>4, <1>6, <1>10, <2>2
  <2> QED BY <2>1, <2>2
<1>13. LinkIInv' BY <1>8, <1>10, <1>11, <1>12, ServesLink DEF Waits
<1>14. flash' # flash => ~keep /\ Evident /\ flash'.ssid = cfg.backup BY <1>3, <1>4, <1>5, <1>6
<1> QED BY <1>13, <1>14

LEMMA SucceedsLink == ASSUME LinkIInv, Succeeds PROVE LinkIInv'
<1>1. LinkShape /\ boot \in Booting /\ seen \in Saids /\ cfg \in Settings /\ flash \in Settings
      /\ boot.pc = "succeeded" /\ UNCHANGED <<keep, sta, gateway, wire>>
  BY DEF LinkIInv, LinkShape, Succeeds
<1>2. Committed \in Settings /\ ~Committed.active BY <1>1 DEF Committed, Settings
<1>3. /\ flash' = flash \/ flash' = Committed
      /\ cfg' = cfg \/ cfg' = Committed
  BY DEF Succeeds, Saved
<1>4. boot' \in Booting /\ boot'.pc = "online" /\ boot'.auth = 0 /\ boot'.elapsed = 0
  <2>1. 0 \in 0 .. Window /\ 0 \in 0 .. Grace /\ 0 \in 0 .. AuthLimit BY LimitsIn
  <2>2. boot' = [boot EXCEPT !.pc = "online", !.lease = FALSE, !.trial = FALSE,
                             !.ticks = 0, !.elapsed = 0, !.auth = 0]
    BY DEF Succeeds
  <2>3. boot' \in Booting BY <1>1, <2>1, <2>2 DEF Booting, BootPlaces, Serving
  <2> QED BY <1>1, <2>2, <2>3 DEF Booting
<1>5. seen' \in Saids /\ seen'.refusals = 0 /\ seen'.rollbacks = seen.rollbacks
  <2>1. 0 \in 0 .. Grace * Window /\ 0 \in 0 .. AuthLimit BY LimitsIn
  <2> QED BY <1>1, <2>1 DEF Succeeds, Unseen, Saids
<1>6. LinkShape' BY <1>1, <1>2, <1>3, <1>4, <1>5 DEF LinkShape
<1>7. LinkCounts' BY <1>4, <1>5 DEF LinkCounts, Waits
<1>8. TrialInv' BY <1>1, <1>2, <1>3, <1>4, <1>5 DEF LinkIInv, TrialInv, Waits
<1> QED BY <1>6, <1>7, <1>8 DEF LinkIInv

-----------------------------------------------------------------------------
(* The gateway watchdog *)

LEMMA ProbeBeginsLink == ASSUME LinkIInv, ProbeBegins PROVE LinkIInv'
<1>1. LinkShape /\ UNCHANGED <<flash, cfg, keep, boot, wire, sta, seen>>
  BY DEF LinkIInv, ProbeBegins, StaOnly
<1>2. gateway' \in Gateways
  <2>1. gateway \in Gateways /\ 0 \in 0 .. SilentLimit /\ 0 \in 0 .. BlindLimit
    BY <1>1, LimitsIn DEF LinkShape
  <2> QED BY <2>1 DEF ProbeBegins, Gateways
<1> QED BY <1>1, <1>2, StationLink DEF LinkShape, LinkIInv, LinkCounts, TrialInv

LEMMA SteppedIn ==
  ASSUME NEW g \in Gateways, NEW probe \in {"reachable", "silent", "unmeasured"}
  PROVE  LinkWatchStep(g, probe) \in Gateways /\ Spent(g) \in Gateways
<1>1. g.silent + 1 \in Nat /\ g.blind + 1 \in Nat /\ 0 \in 0 .. SilentLimit /\ 0 \in 0 .. BlindLimit
  BY LimitsIn DEF Gateways
<1>2. Capped(g.silent + 1, SilentLimit) \in 0 .. SilentLimit
      /\ Capped(g.blind + 1, BlindLimit) \in 0 .. BlindLimit
  BY <1>1, LimitsIn, CappedIn
<1>3. LinkWatchStep(g, probe) \in Gateways
  <2>1. CASE probe = "reachable" BY <1>1, <2>1 DEF LinkWatchStep, Gateways
  <2>2. CASE probe = "silent" BY <1>1, <1>2, <2>2 DEF LinkWatchStep, Gateways
  <2>3. CASE probe = "unmeasured" BY <1>2, <2>3 DEF LinkWatchStep, Gateways
  <2> QED BY <2>1, <2>2, <2>3
<1>4. Spent(g) \in Gateways
  <2>1. (IF g.silent >= SilentLimit THEN 0 ELSE g.silent) \in 0 .. SilentLimit
        /\ (IF g.blind >= BlindLimit THEN 0 ELSE g.blind) \in 0 .. BlindLimit
    BY <1>1 DEF Gateways
  <2> QED BY <2>1 DEF Spent, Gateways
<1> QED BY <1>3, <1>4

(* The watchdog runs only on a board that is online, or was until it        *)
(* restarts, so the station it drops is no trial's.                         *)
LEMMA ProbeEndsLink ==
  ASSUME LinkIInv, NEW probe \in {"reachable", "silent", "unmeasured"}, ProbeEnds(probe)
  PROVE  LinkIInv'
<1> DEFINE g == [LinkWatchStep(gateway, probe) EXCEPT !.probing = FALSE]
<1>1. LinkShape /\ gateway \in Gateways /\ sta \in Stations
      /\ UNCHANGED <<flash, cfg, keep, boot, wire, seen>>
  BY DEF LinkIInv, LinkShape, ProbeEnds, StaOnly
<1>2. boot.pc \notin Waits BY DEF ProbeEnds, Carries, Waits
<1>3. g \in Gateways
  <2>1. LinkWatchStep(gateway, probe) \in Gateways BY <1>1, SteppedIn
  <2> QED BY <2>1 DEF Gateways
<1>4. (gateway' = [Spent(g) EXCEPT !.dead = FALSE] /\ sta' = Dropped(sta, "silent", FALSE))
      \/ (gateway' = g /\ sta' = sta)
  BY DEF ProbeEnds
<1> HIDE DEF g
<1>5. Spent(g) \in Gateways BY <1>3, SteppedIn
<1>6. [Spent(g) EXCEPT !.dead = FALSE] \in Gateways BY <1>5 DEF Gateways
<1>7. Dropped(sta, "silent", FALSE) \in Stations BY <1>1, DroppedIn
<1>8. gateway' \in Gateways /\ sta' \in Stations BY <1>1, <1>3, <1>4, <1>6, <1>7
<1> QED BY <1>1, <1>2, <1>8, StationLink DEF LinkShape

-----------------------------------------------------------------------------
LEMMA NextLink == ASSUME LinkIInv, [LinkNext]_linkVars PROVE LinkIInv'
<1>1. CASE Loses BY <1>1, BootsLink DEF Loses
<1>2. CASE LRestarts BY <1>2, BootsLink DEF LRestarts
<1>3. CASE LHeld BY <1>3, LHeldLink
<1>4. CASE SetsWifi BY <1>4, SetsWifiLink
<1>5. CASE SavesAll BY <1>5, SavesAllLink
<1>6. CASE WireLeases \/ WireLost BY <1>6, WireStepsLink
<1>7. CASE WireWaits BY <1>7, WireWaitsLink
<1>8. CASE WireJudged BY <1>8, WireJudgedLink
<1>9. CASE \E busy \in BOOLEAN : FallbackPeriod(busy) BY <1>9, FallbackLink
<1>10. CASE Associates BY <1>10, AssociatesLink
<1>11. CASE \E why \in {"refused", "silent"} : Disconnects(why) BY <1>11, DisconnectsLink
<1>12. CASE Leases \/ LosesLease \/ GoesGhost BY <1>12, LeaseStepsLink
<1>13. CASE Ticks BY <1>13, TicksLink
<1>14. CASE Wakes BY <1>14, WakesLink
<1>15. CASE Judges BY <1>15, JudgesLink
<1>16. CASE RollsBack BY <1>16, RollsBackLink
<1>17. CASE Succeeds BY <1>17, SucceedsLink
<1>18. CASE ProbeBegins BY <1>18, ProbeBeginsLink
<1>19. CASE \E probe \in {"reachable", "silent", "unmeasured"} : ProbeEnds(probe)
  BY <1>19, ProbeEndsLink
<1>20. CASE UNCHANGED linkVars
  BY <1>20 DEF linkVars, LinkIInv, LinkShape, LinkCounts, TrialInv, Evident
<1> QED BY <1>1, <1>2, <1>3, <1>4, <1>5, <1>6, <1>7, <1>8, <1>9, <1>10, <1>11, <1>12, <1>13,
           <1>14, <1>15, <1>16, <1>17, <1>18, <1>19, <1>20 DEF LinkNext

(* Every boot, drop, wait, save and probe keeps the counts of a trial bound *)
(* to what the access point said and to the time that went by.              *)
THEOREM LinkInductive == LinkSpec => []LinkIInv
<1>1. LinkInit => LinkIInv BY InitLink
<1>2. LinkIInv /\ [LinkNext]_linkVars => LinkIInv' BY NextLink
<1> QED BY <1>1, <1>2, PTL DEF LinkSpec

THEOREM LinkTypeCorrect == LinkSpec => []LinkTypeOK
<1>1. LinkIInv => LinkTypeOK
  BY DEF LinkIInv, LinkShape, LinkTypeOK, Booting, BootPlaces, Stations, Gateways, Cables, Saids
<1> QED BY <1>1, LinkInductive, PTL

(* New credentials are given up only on a refusal that stood at AuthLimit   *)
(* checkpoints a window apart, or after the whole grace; what comes back is *)
(* the backup; and a change of credentials costs at most one such restart,  *)
(* whatever the windows and the limits.                                     *)
THEOREM CredentialsKept == LinkSpec => GoodCredentialsKept
<1> DEFINE Kept == /\ boot.pc = "failed" /\ flash' # flash
                        => ~keep /\ Evident /\ flash'.ssid = cfg.backup
                   /\ seen'.rollbacks <= 1
<1>1. LinkIInv /\ [LinkNext]_linkVars => [Kept]_linkVars
  <2> SUFFICES ASSUME LinkIInv, LinkNext PROVE Kept OBVIOUS
  <2>1. seen'.rollbacks <= 1 BY NextLink DEF LinkIInv, TrialInv
  <2>2. ASSUME boot.pc = "failed", flash' # flash
        PROVE  ~keep /\ Evident /\ flash'.ssid = cfg.backup
    <3>1. ~SetsWifi /\ ~SavesAll /\ ~Succeeds BY <2>2 DEF SetsWifi, SavesAll, Succeeds, Serving
    <3>2. ~Loses /\ ~LRestarts /\ ~LHeld BY <2>2 DEF Loses, LRestarts, LHeld, Boots
    <3>3. ~WireLeases /\ ~WireLost /\ ~WireWaits /\ ~WireJudged
      BY <2>2 DEF WireLeases, WireLost, WireWaits, WireJudged, WireOnly
    <3>4. ~\E busy \in BOOLEAN : FallbackPeriod(busy) BY <2>2 DEF FallbackPeriod, WireOnly
    <3>5. ~Associates /\ ~(\E why \in {"refused", "silent"} : Disconnects(why))
      BY <2>2 DEF Associates, Disconnects, StaOnly
    <3>6. ~Leases /\ ~LosesLease /\ ~GoesGhost BY <2>2 DEF Leases, LosesLease, GoesGhost, StaOnly
    <3>7. ~Ticks /\ ~Wakes /\ ~Judges BY <2>2 DEF Ticks, Wakes, Judges, BootOnly
    <3>8. ~ProbeBegins /\ ~\E probe \in {"reachable", "silent", "unmeasured"} : ProbeEnds(probe)
      BY <2>2 DEF ProbeBegins, ProbeEnds, StaOnly
    <3>9. RollsBack BY <3>1, <3>2, <3>3, <3>4, <3>5, <3>6, <3>7, <3>8 DEF LinkNext
    <3> QED BY <2>2, <3>9, RollsBackLink
  <2> QED BY <2>1, <2>2
<1>2. [][Kept]_linkVars <=> GoodCredentialsKept BY DEF GoodCredentialsKept
<1> QED BY <1>1, <1>2, LinkInductive, PTL DEF LinkSpec
=============================================================================
