------------------------- MODULE CommissioningProofs -------------------------
(***************************************************************************)
(* Proofs about module Commissioning, for every size of the ring, number   *)
(* of attempts, set of lossy answers and bound: types, that find and bind  *)
(* leaves nothing behind (FindIsTidy), that an attempt under way can       *)
(* always go on (AttemptGoesOn), by the invariant GoesOn, and that a       *)
(* device without a network tries again (NetworkIsRetried), by Starting,   *)
(* LeavingIsLast and WillTry.                                              *)
(***************************************************************************)
EXTENDS Commissioning, TLAPS

-----------------------------------------------------------------------------
(* A task of a set is scheduled in s.                                       *)
On(s, set) == \E k \in 1..Len(s) : s[k] \in set

(* The inductive invariant behind AttemptGoesOn, which needs FindIsTidy     *)
(* beside it: a steering attempt never meets a timer of find and bind under *)
(* the shared handle.  No result is "in progress"; a start that is          *)
(* scheduled never meets a stack that leaves; a steering attempt waits for  *)
(* a leave only with something else under way; and a descriptor request     *)
(* that waits to be sent has its timer set, or was robbed of it.            *)
GoesOn ==
  /\ bdb.status # "inProgress"
  /\ bdb.state = "init" => /\ bdb.commissioningStatus # "inProgress"
                           /\ On(tasks, {"initDone"}) \/ stack.net = "rejoining"
  /\ bdb.state = "idle" /\ bdb.commissioningStatus = "inProgress"
       => On(tasks, {"start"})
  /\ On(tasks, {"start"}) => stack.net # "leaving"
  /\ bdb.state = "steer"
       => \/ On(tasks, {"tclk", "permit", "permitConfirm", "steerDone"})
          \/ "delayTclk" \in timers \/ "delayPermit" \in timers
          \/ "tcStart" \in timers \/ bdb.identifyTimer = "retrieve"
          \/ stack.net \in {"joining", "rejoining"}
          \/ bdb.robbed
  /\ bdb.state = "find"
       => \/ On(tasks, {"send", "findDone"}) \/ bdb.identifyTimer \in FindTimers
          \/ bdb.match \/ bdb.robbed
  /\ bdb.match /\ "ieeeAddr" \notin Lossy => "ieeeAddr" \in awaited

-----------------------------------------------------------------------------
(* Lemmas.                                                                  *)

LEMMA OnAppend ==
  ASSUME NEW s \in Seq(Tasks), NEW t \in Tasks
  PROVE  /\ Append(s, t) \in Seq(Tasks)
         /\ \A set : On(Append(s, t), set) <=> On(s, set) \/ t \in set
<1>1. Append(s, t) \in Seq(Tasks)  OBVIOUS
<1>2. ASSUME NEW set PROVE On(Append(s, t), set) <=> On(s, set) \/ t \in set
  <2>1. Len(Append(s, t)) = Len(s) + 1 /\ Append(s, t)[Len(s) + 1] = t  OBVIOUS
  <2>2. \A k \in 1..Len(s) : Append(s, t)[k] = s[k]  OBVIOUS
  <2>3. 1..(Len(s) + 1) = 1..Len(s) \cup {Len(s) + 1}  OBVIOUS
  <2> QED BY <2>1, <2>2, <2>3 DEF On
<1> QED BY <1>1, <1>2

LEMMA OnTail ==
  ASSUME NEW s \in Seq(Tasks), s # <<>>
  PROVE  /\ Tail(s) \in Seq(Tasks) /\ Head(s) \in Tasks
         /\ \A set : On(s, set) <=> Head(s) \in set \/ On(Tail(s), set)
<1>1. Tail(s) \in Seq(Tasks) /\ Head(s) \in Tasks  OBVIOUS
<1>2. ASSUME NEW set PROVE On(s, set) <=> Head(s) \in set \/ On(Tail(s), set)
  <2>1. Len(Tail(s)) = Len(s) - 1 /\ Len(s) \in Nat \ {0} /\ Head(s) = s[1]  OBVIOUS
  <2>2. \A k \in 1..(Len(s) - 1) : Tail(s)[k] = s[k + 1]  OBVIOUS
  <2>3. ASSUME On(s, set) PROVE Head(s) \in set \/ On(Tail(s), set)
    <3>1. PICK k \in 1..Len(s) : s[k] \in set  BY <2>3 DEF On
    <3>2. CASE k = 1  BY <3>1, <3>2, <2>1
    <3>3. CASE k # 1
      <4>1. k - 1 \in 1..(Len(s) - 1) /\ (k - 1) + 1 = k  BY <3>3, <2>1
      <4> QED BY <4>1, <2>1, <2>2, <3>1 DEF On
    <3> QED BY <3>2, <3>3
  <2>4. ASSUME Head(s) \in set PROVE On(s, set)
    BY <2>1, <2>4 DEF On
  <2>5. ASSUME On(Tail(s), set) PROVE On(s, set)
    <3>1. PICK k \in 1..(Len(s) - 1) : Tail(s)[k] \in set  BY <2>5, <2>1 DEF On
    <3>2. k + 1 \in 1..Len(s) /\ s[k + 1] \in set  BY <3>1, <2>1, <2>2
    <3> QED BY <3>2 DEF On
  <2> QED BY <2>3, <2>4, <2>5
<1> QED BY <1>1, <1>2

(* What a confirmation that finds the device idle posts.                    *)
LEMMA OnBoth ==
  ASSUME NEW s \in Seq(Tasks)
  PROVE  LET t == s \o <<"infoSave", "rejoinDone">>
         IN  /\ t \in Seq(Tasks)
             /\ \A set : On(t, set) <=> On(s, set) \/ "infoSave" \in set
                                                 \/ "rejoinDone" \in set
<1> DEFINE u == Append(s, "infoSave")
<1>1. s \o <<"infoSave", "rejoinDone">> = Append(u, "rejoinDone")  OBVIOUS
<1>2. "infoSave" \in Tasks /\ "rejoinDone" \in Tasks  BY DEF Tasks, Events
<1>3. u \in Seq(Tasks)
      /\ \A set : On(u, set) <=> On(s, set) \/ "infoSave" \in set
  BY <1>2, OnAppend
<1>4. Append(u, "rejoinDone") \in Seq(Tasks)
      /\ \A set : On(Append(u, "rejoinDone"), set) <=> On(u, set) \/ "rejoinDone" \in set
  BY <1>2, <1>3, OnAppend
<1> QED BY <1>1, <1>3, <1>4

(* The application only ever adds or drops its own timers, and the stack    *)
(* only ever begins a rejoin.                                               *)
LEMMA CbKeeps ==
  ASSUME TypeOK, NEW st \in Statuses, CommissioningCb(st)
  PROVE  /\ net_steer_start' \in BOOLEAN
         /\ timers' \subseteq Timers
         /\ timers' \ {"steer", "rejoin"} = timers \ {"steer", "rejoin"}
         /\ stack' \in StackStates
         /\ stack'.net = stack.net \/ (stack.net = "idle" /\ stack'.net = "rejoining")
<1>1. /\ stack' \in StackStates
      /\ stack'.net = stack.net \/ (stack.net = "idle" /\ stack'.net = "rejoining")
  BY DEF TypeOK, CommissioningCb, Request, StackStates
<1>2. /\ timers' \subseteq Timers
      /\ timers' \ {"steer", "rejoin"} = timers \ {"steer", "rejoin"}
  BY DEF TypeOK, CommissioningCb, Timers
<1>3. net_steer_start' \in BOOLEAN
  BY Zenon DEF TypeOK, CommissioningCb
<1> QED BY <1>1, <1>2, <1>3

-----------------------------------------------------------------------------
(* Types.                                                                   *)

LEMMA FindBindType ==
  ASSUME NEW b \in BdbStates
  PROVE  FindBind(b) \in BdbStates
<1> DEFINE t == IF b.identifyTimer # "none" THEN b.identifyTimer
                ELSE IF b.role = "target" THEN "identify" ELSE "query"
<1> DEFINE x == b.identifyTimer # "none"
<1>1. t \in IdentifyTimers  BY DEF BdbStates, IdentifyTimers, FindTimers
<1>2. FindBind(b) = [b EXCEPT !.state = "find", !.identifyTimer = t, !.robbed = x]
  BY DEF FindBind
<1>3. x \in BOOLEAN  BY ONLY Zenon
<1> HIDE DEF t, x
<1> QED BY <1>1, <1>2, <1>3 DEF BdbStates

LEMMA TopLevelType ==
  ASSUME TypeOK, NEW b \in BdbStates, NEW r \in {"initiator", "target"},
         TopLevel(b, r)
  PROVE  bdb' \in BdbStates /\ tasks' \in Seq(Tasks)
<1>1. [b EXCEPT !.role = r, !.commissioningStatus = "inProgress", !.robbed = FALSE]
        \in BdbStates
  BY ONLY b \in BdbStates, r \in {"initiator", "target"}, FALSE \in BOOLEAN
  DEF BdbStates, Statuses
<1>2. "start" \in Tasks  BY DEF Tasks, Events
<1> QED BY <1>1, <1>2, OnAppend DEF TopLevel, TypeOK

LEMMA KeyDoneType ==
  ASSUME NEW b \in BdbStates
  PROVE  KeyDone(b, TRUE) \in BdbStates /\ KeyDone(b, FALSE) \in BdbStates
<1> DEFINE x == b.robbed \/ b.identifyTimer \in FindTimers
<1>1. KeyDone(b, TRUE) = [b EXCEPT !.status = "success", !.onNetwork = TRUE,
                                   !.identifyTimer = "none", !.robbed = x]
  BY DEF KeyDone
<1>2. KeyDone(b, FALSE) = [b EXCEPT !.status = "tclkFailure", !.onNetwork = FALSE,
                                    !.identifyTimer = "none", !.robbed = x]
  BY DEF KeyDone
<1>3. TRUE \in BOOLEAN /\ FALSE \in BOOLEAN  OBVIOUS
<1>4. x \in BOOLEAN  BY ONLY Zenon
<1> HIDE DEF x
<1> QED BY ZenonT(60), <1>1, <1>2, <1>3, <1>4 DEF BdbStates, Statuses, IdentifyTimers, FindTimers

LEMMA CancelledType ==
  ASSUME NEW b \in BdbStates
  PROVE  Cancelled(b) \in BdbStates
<1> DEFINE x == b.robbed \/ (b.state = "steer" /\ b.identifyTimer = "retrieve")
<1>1. Cancelled(b) = [b EXCEPT !.identifyTimer = "none", !.robbed = x]  BY DEF Cancelled
<1>2. x \in BOOLEAN  BY ONLY Zenon
<1> HIDE DEF x
<1> QED BY <1>1, <1>2 DEF BdbStates, IdentifyTimers, FindTimers

LEMMA ConfirmedType ==
  ASSUME NEW b \in BdbStates
  PROVE  Confirmed(b) \in BdbStates
<1>1. FALSE \in BOOLEAN /\ b.status \in Statuses  BY DEF BdbStates
<1> QED BY <1>1 DEF Confirmed, BdbStates, IdentifyTimers, FindTimers

LEMMA TypeInit == Init => TypeOK
<1> SUFFICES ASSUME Init PROVE TypeOK  OBVIOUS
<1> USE CommissioningConstantsOK
<1>0. stack = FactoryNew \/ stack = Known
  <2>1. stack \in {FactoryNew, Known}  BY Zenon DEF Init
  <2> QED BY <2>1
<1>1. stack \in StackStates
  <2>1. FactoryNew \in StackStates  BY DEF FactoryNew, StackStates
  <2>2. Known \in StackStates  BY DEF Known, StackStates
  <2> QED BY <1>0, <2>1, <2>2
<1>2. bdb \in BdbStates
  <2> DEFINE new == stack.factoryNew
  <2>1. bdb = [state |-> "init", commissioningStatus |-> "success",
            status |-> "success", networkSteer |-> TRUE, findOrBind |-> FALSE,
            role |-> "initiator", onNetwork |-> ~new,
            initOk |-> TRUE, identifyTimer |-> "none", queue |-> 0,
            match |-> FALSE, attempts |-> 0, leaveDoing |-> FALSE,
            robbed |-> FALSE]
    BY Zenon DEF Init
  <2>2. new \in BOOLEAN  BY <1>1 DEF StackStates
  <2> HIDE DEF new
  <2>3. (~new) \in BOOLEAN  BY Zenon, <2>2
  <2> QED BY <2>1, <2>2, <2>3 DEF BdbStates, Statuses, IdentifyTimers, FindTimers
<1>3. tasks \in Seq(Tasks)
  <2>1. tasks = <<"initDone">> \/ tasks = <<>>  BY DEF Init
  <2>2. "initDone" \in Tasks  BY DEF Tasks, Events
  <2>3. <<"initDone">> \in Seq(Tasks)  BY <2>2
  <2>4. <<>> \in Seq(Tasks)  OBVIOUS
  <2> QED BY ONLY <2>1, <2>3, <2>4
<1>4. count \in Counts  BY DEF Init, Counts
<1>5. timers \subseteq Timers  BY <1>0 DEF Init, Timers, FactoryNew, Known
<1>6. net_steer_start \in BOOLEAN
  <2>1. net_steer_start = stack.factoryNew  BY Zenon DEF Init
  <2> QED BY <1>1, <2>1 DEF StackStates
<1> QED BY <1>1, <1>2, <1>3, <1>4, <1>5, <1>6 DEF TypeOK, Init

(* What every task does with the queue of tasks.                            *)
LEMMA TypeTasks ==
  ASSUME TypeOK, tasks # <<>>
  PROVE  /\ Tail(tasks) \in Seq(Tasks) /\ Head(tasks) \in Tasks
         /\ \A t \in Tasks : Append(Tail(tasks), t) \in Seq(Tasks)
  BY OnTail, OnAppend DEF TypeOK

LEMMA TypeRun ==
  ASSUME TypeOK, RunTask
  PROVE  TypeOK'
<1> USE CommissioningConstantsOK DEF TypeOK, Asking, Runs, Confirmed, BdbStates,
        StackStates, Statuses, IdentifyTimers, FindTimers
<1>0. tasks # <<>> /\ Tail(tasks) \in Seq(Tasks)
      /\ (\A t \in Tasks : Append(Tail(tasks), t) \in Seq(Tasks))
  BY TypeTasks DEF RunTask, InitDone, StartSteering, StartFinding, StartNothing,
     RejoinDone, RetrieveKey, PermitJoin, SteerDone, SimpleDescReq, FindDone,
     Dropped, SimpleDescReqSend, MgmtPermitJoiningConfirm, CommissioningInfoSave
<1>t. \A t \in {"infoSave", "permitConfirm", "descReq", "findDone", "steerDone"} :
        Append(Tail(tasks), t) \in Seq(Tasks)
  BY <1>0 DEF Tasks, Events
<1>1. CASE InitDone  BY ZenonT(60), <1>0, <1>t, <1>1 DEF InitDone, Timers
<1>2. CASE StartSteering
  <2>1. stack' \in StackStates  BY ZenonT(60), <1>2 DEF StartSteering, Request
  <2>2. tasks' \in Seq(Tasks)  BY <1>0, <1>t, <1>2 DEF StartSteering
  <2>3. bdb' \in BdbStates  BY <1>2 DEF StartSteering
  <2> QED BY <1>2, <2>1, <2>2, <2>3 DEF StartSteering
<1>3. CASE StartFinding
  <2>1. bdb' = FindBind(bdb)  BY <1>3 DEF StartFinding
  <2>2. bdb' \in BdbStates  BY <2>1, FindBindType
  <2> QED BY <1>0, <1>3, <2>2 DEF StartFinding
<1>4. CASE StartNothing  BY ZenonT(60), <1>0, <1>4, CbKeeps DEF StartNothing
<1>5. CASE RejoinDone  BY ZenonT(60), <1>0, <1>5, CbKeeps DEF RejoinDone
<1>6. CASE RetrieveKey  BY <1>0, <1>6 DEF RetrieveKey, Timers
<1>7. CASE PermitJoin  BY <1>0, <1>t, <1>7 DEF PermitJoin
<1>8. CASE SteerDone  BY ZenonT(60), <1>0, <1>8, CbKeeps DEF SteerDone, FindBind
<1>9. CASE SimpleDescReq  BY <1>0, <1>9 DEF SimpleDescReq
<1>10. CASE FindDone
  <2>1. Confirmed(bdb) \in BdbStates
    <3>1. bdb \in BdbStates  BY ONLY TypeOK DEF TypeOK
    <3> HIDE DEF Confirmed, BdbStates
    <3> QED BY ONLY <3>1, ConfirmedType
  <2>2. bdb' = [Confirmed(bdb) EXCEPT !.state = "idle", !.queue = 0]
    BY ONLY <1>10 DEF FindDone
  <2>3. 0 \in 0..(FIND_BIND_QUEUE_SIZE - 1)  OBVIOUS
  <2>4. bdb' \in BdbStates  BY ONLY ZenonT(60), <2>1, <2>2, <2>3 DEF BdbStates
  <2> QED BY SMTT(30), <1>0, <1>10, <2>4, CbKeeps DEF FindDone
<1>11. CASE Dropped  BY ZenonT(60), <1>0, <1>11 DEF Dropped
<1>12. CASE SimpleDescReqSend
  <2>1. CASE bdb.queue > 0
    <3>1. bdb.queue - 1 \in 0..(FIND_BIND_QUEUE_SIZE - 1)  BY <2>1
    <3>2. bdb' = [bdb EXCEPT !.queue = bdb.queue - 1, !.identifyTimer = "desc",
                             !.robbed = FALSE]
      BY <1>12, <2>1 DEF SimpleDescReqSend
    <3>3. bdb' \in BdbStates
      BY ONLY ZenonT(60), TypeOK, <3>1, <3>2, FALSE \in BOOLEAN DEF TypeOK, BdbStates, IdentifyTimers, FindTimers
    <3> QED BY ZenonT(60), <1>0, <1>t, <1>12, <3>3 DEF SimpleDescReqSend
  <2>2. CASE bdb.queue = 0
    <3>1. bdb' = [bdb EXCEPT !.status = "success"]  BY <1>12, <2>2 DEF SimpleDescReqSend
    <3>2. bdb' \in BdbStates  BY ONLY TypeOK, <3>1 DEF TypeOK, BdbStates, Statuses
    <3> QED BY ZenonT(60), <1>0, <1>t, <1>12, <3>2 DEF SimpleDescReqSend
  <2> QED BY <2>1, <2>2
<1>13. CASE MgmtPermitJoiningConfirm
  BY ZenonT(60), <1>0, <1>t, <1>13 DEF MgmtPermitJoiningConfirm, InfoSaved
<1>14. CASE CommissioningInfoSave  BY <1>0, <1>14 DEF CommissioningInfoSave, InfoSaved
<1> QED BY <1>1, <1>2, <1>3, <1>4, <1>5, <1>6, <1>7, <1>8, <1>9, <1>10, <1>11,
           <1>12, <1>13, <1>14 DEF RunTask

LEMMA TypeTimeouts ==
  ASSUME TypeOK, Timeouts
  PROVE  TypeOK'
<1> USE CommissioningConstantsOK DEF TypeOK, Asking, OnlyPosts, Post, Expires,
        BdbStates, StackStates, Statuses, IdentifyTimers, FindTimers
<1>t. \A t \in {"send", "findDone", "tclk", "permit", "steerDone", "start"} :
        Append(tasks, t) \in Seq(Tasks)
  BY OnAppend DEF Tasks, Events
<1>1. CASE IdentifyQueryTimeout  BY ZenonT(60), <1>t, <1>1 DEF IdentifyQueryTimeout
<1>2. CASE SimpleDescReqTimeout  BY <1>t, <1>2 DEF SimpleDescReqTimeout
<1>3. CASE IdentifyTimeout  BY <1>t, <1>3 DEF IdentifyTimeout
<1>4. CASE TaskDelay
  <2>1. tasks' \in Seq(Tasks) /\ timers' \subseteq Timers  BY <1>t, <1>4 DEF TaskDelay
  <2>2. UNCHANGED <<bdb, net_steer_start, stack, descs, awaited, count>>
    BY <1>4 DEF TaskDelay
  <2> HIDE DEF BdbStates, StackStates
  <2> QED BY ONLY TypeOK, <2>1, <2>2 DEF TypeOK
<1>5. CASE RetrieveTcLinkKeyStart
  <2>1. timers' \subseteq Timers  BY <1>5 DEF RetrieveTcLinkKeyStart, Timers
  <2>2. awaited' \subseteq Answers \ {"simpleDesc"}
    BY <1>5 DEF RetrieveTcLinkKeyStart, Answers
  <2>3. bdb' \in BdbStates
    <3> DEFINE t == IF bdb.identifyTimer = "none" THEN "retrieve" ELSE bdb.identifyTimer
    <3>1. bdb' = [bdb EXCEPT !.attempts = 0, !.leaveDoing = FALSE, !.identifyTimer = t]
      BY <1>5 DEF RetrieveTcLinkKeyStart
    <3>2. 0 \in 0..(ATTEMPTS_MAX + 1) /\ FALSE \in BOOLEAN /\ t \in IdentifyTimers
      OBVIOUS
    <3> HIDE DEF t
    <3> QED BY ONLY ZenonT(60), TypeOK, <3>1, <3>2 DEF TypeOK, BdbStates
  <2> QED BY <1>5, <2>1, <2>2, <2>3 DEF RetrieveTcLinkKeyStart
<1>6. CASE RetrieveTcLinkKeyTimeout
  <2>1. stack' \in StackStates  BY ZenonT(60), <1>6 DEF RetrieveTcLinkKeyTimeout, Request
  <2>2. awaited' \subseteq Answers \ {"simpleDesc"}
    BY <1>6 DEF RetrieveTcLinkKeyTimeout, Answers
  <2>3. tasks' \in Seq(Tasks) /\ timers' \subseteq Timers
    BY <1>t, <1>6 DEF RetrieveTcLinkKeyTimeout, KeyDoneEvent
  <2>4. \A n \in 0..(ATTEMPTS_MAX + 1) : Tried(n) \in 0..(ATTEMPTS_MAX + 1)
    BY DEF Tried
  <2> DEFINE going == bdb.leaveDoing \/ stack.net = "idle"
  <2>5. going \in BOOLEAN  BY ONLY Zenon
  <2>6. CASE bdb' = [bdb EXCEPT !.attempts = Tried(@)]
    <3>1. bdb' = [bdb EXCEPT !.attempts = Tried(bdb.attempts)]  BY ONLY <2>6
    <3>2. bdb.attempts \in 0..(ATTEMPTS_MAX + 1)  OBVIOUS
    <3>3. bdb' \in BdbStates  BY ONLY TypeOK, <2>4, <3>1, <3>2 DEF TypeOK, BdbStates
    <3> QED BY <1>6, <2>1, <2>2, <2>3, <3>3 DEF RetrieveTcLinkKeyTimeout
  <2>7. CASE bdb' = [KeyDone(bdb, FALSE) EXCEPT !.attempts = 0]
    <3>1. KeyDone(bdb, FALSE) \in BdbStates  BY KeyDoneType
    <3>2. 0 \in 0..(ATTEMPTS_MAX + 1)  OBVIOUS
    <3>3. bdb' \in BdbStates  BY ONLY <2>7, <3>1, <3>2 DEF BdbStates
    <3> QED BY <1>6, <2>1, <2>2, <2>3, <3>3 DEF RetrieveTcLinkKeyTimeout
  <2>8. CASE bdb' = [bdb EXCEPT !.attempts = Tried(@), !.leaveDoing = going]
    <3>1. bdb' = [bdb EXCEPT !.attempts = Tried(bdb.attempts), !.leaveDoing = going]
      BY ONLY <2>8
    <3>2. bdb.attempts \in 0..(ATTEMPTS_MAX + 1)  OBVIOUS
    <3> HIDE DEF going
    <3>3. bdb' \in BdbStates
      BY ONLY TypeOK, <2>4, <2>5, <3>1, <3>2 DEF TypeOK, BdbStates
    <3> QED BY <1>6, <2>1, <2>2, <2>3, <3>3 DEF RetrieveTcLinkKeyTimeout
  <2>9. \/ bdb' = [bdb EXCEPT !.attempts = Tried(@)]
        \/ bdb' = [KeyDone(bdb, FALSE) EXCEPT !.attempts = 0]
        \/ bdb' = [bdb EXCEPT !.attempts = Tried(@),
                             !.leaveDoing = @ \/ stack.net = "idle"]
    BY ONLY <1>6 DEF RetrieveTcLinkKeyTimeout
  <2> QED BY <2>6, <2>7, <2>8, <2>9
<1>7. CASE SteerTimer
  <2> DEFINE b == [bdb EXCEPT !.networkSteer = TRUE, !.findOrBind = FALSE]
  <2>1. b \in BdbStates
    BY ONLY TypeOK, TRUE \in BOOLEAN, FALSE \in BOOLEAN DEF TypeOK, BdbStates
  <2>2. TopLevel(b, "target")  BY <1>7 DEF SteerTimer
  <2>3. bdb' \in BdbStates /\ tasks' \in Seq(Tasks)
    BY <1>t, <2>1, <2>2, TopLevelType
  <2>4. timers' \subseteq Timers  BY <1>7 DEF SteerTimer
  <2> QED BY <1>7, <2>3, <2>4 DEF SteerTimer
<1>8. CASE FindTimer
  <2> DEFINE b == [bdb EXCEPT !.networkSteer = FALSE, !.findOrBind = TRUE]
  <2>1. b \in BdbStates
    BY ONLY TypeOK, TRUE \in BOOLEAN, FALSE \in BOOLEAN DEF TypeOK, BdbStates
  <2>2. TopLevel(b, "initiator")  BY <1>8 DEF FindTimer
  <2>3. bdb' \in BdbStates /\ tasks' \in Seq(Tasks)
    BY <1>t, <2>1, <2>2, TopLevelType
  <2>4. timers' \subseteq Timers  BY <1>8 DEF FindTimer
  <2> QED BY <1>8, <2>3, <2>4 DEF FindTimer
<1>9. CASE RejoinBackoff
  <2>1. stack' \in StackStates  BY <1>9 DEF RejoinBackoff, Request
  <2>2. timers' \subseteq Timers  BY <1>9 DEF RejoinBackoff
  <2> QED BY <1>9, <2>1, <2>2 DEF RejoinBackoff
<1>10. CASE NetSteerStartOff
  <2>1. net_steer_start' \in BOOLEAN  BY ONLY <1>10 DEF NetSteerStartOff
  <2>2. timers' \subseteq Timers  BY <1>10 DEF NetSteerStartOff
  <2> QED BY <1>10, <2>1, <2>2 DEF NetSteerStartOff
<1> QED BY <1>1, <1>2, <1>3, <1>4, <1>5, <1>6, <1>7, <1>8, <1>9, <1>10 DEF Timeouts

(* However a join ends.                                                     *)
LEMMA TypeCnf ==
  ASSUME TypeOK, NEW r \in {"success", "rejoinFailure", "parentLost"},
         NEW s \in StackStates, StartDevCnf(r, s), count' \in Counts
  PROVE  TypeOK'
<1> USE CommissioningConstantsOK DEF TypeOK, StartDevCnf, Post, BdbStates, Statuses
<1>t. \A t \in {"rejoinDone", "initDone", "steerDone"} : Append(tasks, t) \in Seq(Tasks)
  BY OnAppend DEF Tasks, Events
<1>b. tasks \o <<"infoSave", "rejoinDone">> \in Seq(Tasks)  BY OnBoth
<1>1. CASE bdb.state = "idle"
  <2>1. tasks' \in Seq(Tasks)  BY <1>t, <1>b, <1>1
  <2> DEFINE on == bdb.onNetwork \/ r = "success"
  <2>2. on \in BOOLEAN  BY ONLY Zenon
  <2>3. bdb' = [bdb EXCEPT !.onNetwork = on, !.status = r]  BY <1>1
  <2> HIDE DEF on
  <2>4. bdb' \in BdbStates
    BY ONLY TypeOK, <2>2, <2>3, r \in {"success", "rejoinFailure", "parentLost"}
    DEF TypeOK, BdbStates, Statuses
  <2> QED BY <1>1, <2>1, <2>4
<1>2. CASE bdb.state = "init"
  <2>1. tasks' \in Seq(Tasks)  BY <1>t, <1>2
  <2>2. bdb' = [bdb EXCEPT !.initOk = (r = "success")]  BY <1>2
  <2>3. (r = "success") \in BOOLEAN  BY Zenon
  <2>4. bdb' \in BdbStates  BY <2>2, <2>3
  <2> QED BY <1>2, <2>1, <2>4
<1>3. CASE bdb.state = "steer" /\ r = "success"
  <2>1. bdb' = [bdb EXCEPT !.onNetwork = TRUE, !.status = "success"]  BY <1>3
  <2>2. bdb' \in BdbStates
    BY ONLY TypeOK, <2>1, TRUE \in BOOLEAN DEF TypeOK, BdbStates, Statuses
  <2>3. timers' \subseteq Timers  BY <1>3 DEF Timers
  <2> QED BY <1>3, <2>2, <2>3
<1>4. CASE bdb.state = "steer" /\ r # "success"  BY ZenonT(60), <1>t, <1>4
<1>5. CASE bdb.state = "find"  BY <1>5
<1> QED BY <1>1, <1>2, <1>3, <1>4, <1>5

LEMMA TypeEnvironment ==
  ASSUME TypeOK, Environment
  PROVE  TypeOK'
<1> USE CommissioningConstantsOK DEF TypeOK, Post, BdbStates, StackStates, Statuses,
        IdentifyTimers, Answers
<1>t. \A t \in {"send", "findDone", "permit"} : Append(tasks, t) \in Seq(Tasks)
  BY OnAppend DEF Tasks, Events
<1>1. CASE JoinEnds
  <2>1. count' \in Counts  BY SMTT(30), <1>1 DEF JoinEnds, Lost, Counts
  <2>2. PICK ok \in BOOLEAN :
          StartDevCnf(IF ok THEN "success" ELSE "rejoinFailure",
                      [stack EXCEPT !.net = "idle", !.joined = ok])
    BY <1>1 DEF JoinEnds
  <2>3. [stack EXCEPT !.net = "idle", !.joined = ok] \in StackStates  OBVIOUS
  <2>4. CASE ok  BY <2>1, <2>2, <2>3, <2>4, TypeCnf
  <2>5. CASE ~ok  BY <2>1, <2>2, <2>3, <2>5, TypeCnf
  <2> QED BY <2>4, <2>5
<1>2. CASE ParentLost
  <2>1. count' \in Counts  BY SMTT(30), <1>2 DEF ParentLost, Lost, Counts
  <2>2. [stack EXCEPT !.joined = FALSE] \in StackStates  OBVIOUS
  <2> QED BY <1>2, <2>1, <2>2, TypeCnf DEF ParentLost
<1>12. CASE LeaveFails  BY <1>12 DEF LeaveFails
<1>3. CASE LeaveEnds
  <2>1. timers' \subseteq Timers  BY <1>3 DEF LeaveEnds, Timers
  <2>2. awaited' \subseteq Answers \ {"simpleDesc"}  BY <1>3 DEF LeaveEnds
  <2>3. stack' \in StackStates  BY <1>3 DEF LeaveEnds
  <2> QED BY <1>3, <2>1, <2>2, <2>3 DEF LeaveEnds
<1>4. CASE IdentifyQueryResp
  <2>1. count.heard \in 0..MaxHeard /\ count.heard < MaxHeard
    BY <1>4 DEF IdentifyQueryResp, Counts
  <2>2. count.heard + 1 \in 0..MaxHeard  BY <2>1
  <2>3. count' = [count EXCEPT !.heard = count.heard + 1]
    BY <1>4 DEF IdentifyQueryResp
  <2>4. count' \in Counts  BY ONLY TypeOK, <2>2, <2>3 DEF TypeOK, Counts
  <2>5. Pushed(bdb.queue) \in 0..(FIND_BIND_QUEUE_SIZE - 1)  BY DEF Pushed
  <2>6. bdb' = [bdb EXCEPT !.queue = Pushed(bdb.queue)]  BY <1>4 DEF IdentifyQueryResp
  <2>7. bdb' \in BdbStates  BY ONLY TypeOK, <2>5, <2>6 DEF TypeOK, BdbStates
  <2> QED BY <1>4, <2>4, <2>7 DEF IdentifyQueryResp
<1>5. CASE SimpleDescResp
  <2> DEFINE b == Cancelled(bdb)
  <2>1. descs' \in Nat  BY <1>5 DEF SimpleDescResp
  <2>2. b \in BdbStates  BY CancelledType
  <2>3. [b EXCEPT !.match = FALSE] \in BdbStates
        /\ [b EXCEPT !.match = TRUE] \in BdbStates
        /\ [b EXCEPT !.match = FALSE, !.status = "tableFull"] \in BdbStates
    BY ONLY ZenonT(60), <2>2, TRUE \in BOOLEAN, FALSE \in BOOLEAN DEF BdbStates, Statuses
  <2>4. \/ UNCHANGED <<bdb, tasks, awaited>>
        \/ bdb' = b /\ Post("send") /\ UNCHANGED awaited
        \/ Binding(b) /\ UNCHANGED awaited
        \/ /\ bdb' = [b EXCEPT !.match = TRUE]
           /\ awaited' = awaited \cup {"ieeeAddr"}
           /\ UNCHANGED tasks
    BY ONLY <1>5 DEF SimpleDescResp
  <2> HIDE DEF b
  <2>5. bdb' \in BdbStates  BY ZenonT(60), <2>2, <2>3, <2>4 DEF Binding
  <2>6. tasks' \in Seq(Tasks)  BY <1>t, <2>4 DEF Binding
  <2>7. awaited' \subseteq Answers \ {"simpleDesc"}  BY <2>4
  <2> QED BY <1>5, <2>1, <2>5, <2>6, <2>7 DEF SimpleDescResp
<1>6. CASE SimpleDescRespFails
  <2>1. descs' \in Nat  BY <1>6 DEF SimpleDescRespFails
  <2>2. tasks' \in Seq(Tasks)  BY <1>t, <1>6 DEF SimpleDescRespFails
  <2> QED BY <1>6, <2>1, <2>2 DEF SimpleDescRespFails
<1>7. CASE IeeeAddrResp
  <2>0. bdb' = [bdb EXCEPT !.match = FALSE]
        \/ bdb' = [bdb EXCEPT !.match = FALSE, !.status = "tableFull"]
    BY ONLY <1>7 DEF IeeeAddrResp, Binding
  <2>1. bdb' \in BdbStates
    BY ONLY ZenonT(60), TypeOK, <2>0 DEF TypeOK, BdbStates, Statuses
  <2>2. tasks' \in Seq(Tasks)  BY <1>t, <1>7 DEF IeeeAddrResp, Binding
  <2>3. awaited' \subseteq Answers \ {"simpleDesc"}
    BY <1>7 DEF IeeeAddrResp, Answered
  <2> QED BY <1>7, <2>1, <2>2, <2>3 DEF IeeeAddrResp
<1>8. CASE NodeDescResp
  <2>0. bdb' = [bdb EXCEPT !.onNetwork = FALSE] \/ bdb' = KeyDone(bdb, TRUE)
    BY ONLY <1>8 DEF NodeDescResp
  <2>00. ASSUME bdb' = [bdb EXCEPT !.onNetwork = FALSE]
         PROVE  bdb' \in BdbStates
    <3> DEFINE on == FALSE
    <3>1. on \in BOOLEAN  OBVIOUS
    <3>2. bdb' = [bdb EXCEPT !.onNetwork = on]  BY <2>00
    <3> HIDE DEF on
    <3> QED BY ONLY ZenonT(60), TypeOK, <3>1, <3>2 DEF TypeOK, BdbStates
  <2>01. ASSUME bdb' = KeyDone(bdb, TRUE) PROVE bdb' \in BdbStates
    <3> HIDE DEF BdbStates
    <3> QED BY ONLY TypeOK, <2>01, KeyDoneType DEF TypeOK
  <2>1. bdb' \in BdbStates  BY ONLY <2>0, <2>00, <2>01
  <2>2. tasks' \in Seq(Tasks)  BY <1>t, <1>8 DEF NodeDescResp, KeyDoneEvent
  <2>3. timers' \subseteq Timers  BY <1>8 DEF NodeDescResp
  <2>4. awaited' \subseteq Answers \ {"simpleDesc"}  BY <1>8 DEF NodeDescResp
  <2> QED BY <1>8, <2>1, <2>2, <2>3, <2>4 DEF NodeDescResp
<1>9. CASE KeyResp
  <2>1. bdb' \in BdbStates  BY ONLY TypeOK, <1>9, KeyDoneType DEF TypeOK, KeyResp
  <2>2. awaited' \subseteq Answers \ {"simpleDesc"}  BY <1>9 DEF KeyResp, Answered
  <2> QED BY <1>t, <1>9, <2>1, <2>2 DEF KeyResp, KeyDoneEvent
<1>10. CASE AnswerLost
  <2>1. descs' \in Nat  BY <1>10 DEF AnswerLost
  <2>2. awaited' \subseteq Answers \ {"simpleDesc"}  BY <1>10 DEF AnswerLost
  <2> QED BY <1>10, <2>1, <2>2 DEF AnswerLost
<1>11. CASE FindBindStart
  <2>1. count.finds \in 0..MaxFinds /\ count.finds < MaxFinds
    BY <1>11 DEF FindBindStart, Counts
  <2>2. count.finds + 1 \in 0..MaxFinds  BY <2>1
  <2>3. count' = [count EXCEPT !.finds = count.finds + 1]
    BY <1>11 DEF FindBindStart
  <2>4. count' \in Counts  BY ONLY TypeOK, <2>2, <2>3 DEF TypeOK, Counts
  <2>5. timers' \subseteq Timers  BY <1>11 DEF FindBindStart, Timers
  <2> QED BY <1>11, <2>4, <2>5 DEF FindBindStart
<1> QED BY <1>1, <1>2, <1>3, <1>4, <1>5, <1>6, <1>7, <1>8, <1>9, <1>10, <1>11, <1>12
        DEF Environment

LEMMA TypeNext == TypeOK /\ [Next]_vars => TypeOK'
<1> SUFFICES ASSUME TypeOK, [Next]_vars PROVE TypeOK'  OBVIOUS
<1>1. CASE UNCHANGED vars  BY <1>1 DEF vars, TypeOK
<1> QED BY <1>1, TypeRun, TypeTimeouts, TypeEnvironment DEF Next

(* The remote's commissioning state keeps its types: the ring of devices    *)
(* found never runs over its last slot, attempts stay in bounds, and no     *)
(* unknown task is scheduled, whatever comes in whichever order.            *)
THEOREM TypeCorrect == Spec => []TypeOK
  BY TypeInit, TypeNext, PTL DEF Spec

-----------------------------------------------------------------------------
(* Nothing of find and bind is left outside of it.                          *)

LEMMA TidyNext ==
  ASSUME TypeOK, FindIsTidy, [Next]_vars
  PROVE  FindIsTidy'
<1> USE DEF FindIsTidy, FindTimers, TypeOK, BdbStates
<1>1. CASE InitDone  BY <1>1 DEF InitDone
<1>2. CASE StartSteering  BY <1>2 DEF StartSteering
<1>3. CASE StartFinding  BY <1>3 DEF StartFinding, FindBind
<1>4. CASE StartNothing  BY <1>4 DEF StartNothing
<1>5. CASE RejoinDone  BY <1>5 DEF RejoinDone, Confirmed
<1>6. CASE RetrieveKey  BY <1>6 DEF RetrieveKey
<1>7. CASE PermitJoin  BY <1>7 DEF PermitJoin
<1>8. CASE SteerDone  BY <1>8 DEF SteerDone, Confirmed, FindBind
<1>9. CASE SimpleDescReq  BY <1>9 DEF SimpleDescReq
<1>10. CASE FindDone  BY <1>10 DEF FindDone, Confirmed
<1>11. CASE Dropped  BY <1>11 DEF Dropped
<1>12. CASE SimpleDescReqSend
  <2>1. CASE bdb.queue > 0
    <3>1. bdb.state = "find"  BY <2>1
    <3> QED BY <3>1, <2>1, <1>12 DEF SimpleDescReqSend
  <2>2. CASE bdb.queue = 0  BY <2>2, <1>12 DEF SimpleDescReqSend
  <2> QED BY <2>1, <2>2
<1>13. CASE MgmtPermitJoiningConfirm  BY <1>13 DEF MgmtPermitJoiningConfirm, InfoSaved
<1>14. CASE CommissioningInfoSave  BY <1>14 DEF CommissioningInfoSave, InfoSaved
<1>15. CASE IdentifyQueryTimeout  BY <1>15 DEF IdentifyQueryTimeout
<1>16. CASE SimpleDescReqTimeout  BY <1>16 DEF SimpleDescReqTimeout
<1>17. CASE IdentifyTimeout  BY <1>17 DEF IdentifyTimeout
<1>18. CASE TaskDelay  BY <1>18 DEF TaskDelay
<1>19. CASE RetrieveTcLinkKeyStart  BY <1>19 DEF RetrieveTcLinkKeyStart
<1>20. CASE RetrieveTcLinkKeyTimeout  BY <1>20 DEF RetrieveTcLinkKeyTimeout, KeyDone
<1>21. CASE SteerTimer  BY <1>21 DEF SteerTimer, TopLevel
<1>22. CASE FindTimer  BY <1>22 DEF FindTimer, TopLevel
<1>23. CASE RejoinBackoff  BY <1>23 DEF RejoinBackoff
<1>24. CASE NetSteerStartOff  BY <1>24 DEF NetSteerStartOff
<1>25. CASE JoinEnds  BY ZenonT(60), <1>25 DEF JoinEnds, StartDevCnf
<1>26. CASE ParentLost  BY <1>26 DEF ParentLost, StartDevCnf
<1>27. CASE LeaveEnds \/ LeaveFails  BY <1>27 DEF LeaveEnds, LeaveFails
<1>28. CASE IdentifyQueryResp  BY <1>28 DEF IdentifyQueryResp
<1>29. CASE SimpleDescResp
  <2>1. bdb'.state = bdb.state /\ bdb'.queue = bdb.queue
    BY <1>29 DEF SimpleDescResp, Binding, Cancelled
  <2>2. bdb'.identifyTimer \in {bdb.identifyTimer, "none"}
    BY <1>29 DEF SimpleDescResp, Binding, Cancelled
  <2> QED BY <2>1, <2>2
<1>30. CASE SimpleDescRespFails  BY <1>30 DEF SimpleDescRespFails
<1>31. CASE IeeeAddrResp  BY <1>31 DEF IeeeAddrResp, Binding
<1>32. CASE NodeDescResp  BY <1>32 DEF NodeDescResp, KeyDone
<1>33. CASE KeyResp  BY <1>33 DEF KeyResp, KeyDone
<1>34. CASE AnswerLost  BY <1>34 DEF AnswerLost
<1>35. CASE FindBindStart  BY <1>35 DEF FindBindStart
<1>36. CASE UNCHANGED vars  BY <1>36 DEF vars
<1> QED BY <1>1, <1>2, <1>3, <1>4, <1>5, <1>6, <1>7, <1>8, <1>9, <1>10, <1>11,
       <1>12, <1>13, <1>14, <1>15, <1>16, <1>17, <1>18, <1>19, <1>20, <1>21,
       <1>22, <1>23, <1>24, <1>25, <1>26, <1>27, <1>28, <1>29, <1>30, <1>31,
       <1>32, <1>33, <1>34, <1>35, <1>36
        DEF Next, RunTask, Timeouts, Environment

(* However find and bind ends, and whatever answers come late, none of its  *)
(* timers runs under the shared handle and its ring is empty outside of it. *)
THEOREM FindTidy == Spec => []FindIsTidy
<1>1. Init => FindIsTidy  BY DEF Init, FindIsTidy, FindTimers
<1> QED BY <1>1, TidyNext, TypeCorrect, PTL DEF Spec

-----------------------------------------------------------------------------
(* An attempt under way can go on.                                          *)

(* The tasks and the states that a step which only adds other work keeps.   *)
KeepsTasks ==
  /\ On(tasks', {"start"}) <=> On(tasks, {"start"})
  /\ On(tasks, {"initDone"}) => On(tasks', {"initDone"})
  /\ On(tasks, {"tclk", "permit", "permitConfirm", "steerDone"})
       => On(tasks', {"tclk", "permit", "permitConfirm", "steerDone"})
  /\ On(tasks, {"send", "findDone"}) => On(tasks', {"send", "findDone"})

KeepsState ==
  /\ bdb'.state = bdb.state /\ bdb'.status # "inProgress"
  /\ bdb'.commissioningStatus = bdb.commissioningStatus

LEMMA GoesOnRun ==
  ASSUME TypeOK, FindIsTidy, GoesOn, RunTask
  PROVE  GoesOn'
<1> USE DEF TypeOK, GoesOn, BdbStates, StackStates, Statuses, Asking
<1> USE DEF Runs
<1>0. tasks # <<>> /\ Tail(tasks) \in Seq(Tasks)
  BY TypeTasks DEF RunTask, InitDone, StartSteering, StartFinding, StartNothing,
     RejoinDone, RetrieveKey, PermitJoin, SteerDone, SimpleDescReq, FindDone,
     Dropped, SimpleDescReqSend, MgmtPermitJoiningConfirm, CommissioningInfoSave
<1>h. \A set : On(tasks, set) <=> Head(tasks) \in set \/ On(Tail(tasks), set)
  BY <1>0, OnTail
<1>a. \A t \in {"infoSave", "permitConfirm", "descReq", "findDone", "steerDone"} :
        \A set : On(Append(Tail(tasks), t), set) <=> On(Tail(tasks), set) \/ t \in set
  BY <1>0, OnAppend DEF Tasks, Events
<1>1. CASE InitDone
  <2>1. /\ bdb'.state = "idle" /\ bdb'.commissioningStatus = bdb.commissioningStatus
        /\ bdb'.status = bdb.status /\ bdb'.match = bdb.match
    BY <1>1 DEF InitDone
  <2>2. bdb.state = "init" /\ stack' = stack /\ awaited' = awaited  BY <1>1 DEF InitDone
  <2>t. tasks' = Tail(tasks) \/ tasks' = Append(Tail(tasks), "infoSave")
    BY <1>1 DEF InitDone
  <2>3. On(tasks', {"start"}) => On(tasks, {"start"})
    <3>1. On(Append(Tail(tasks), "infoSave"), {"start"}) <=> On(Tail(tasks), {"start"})
      BY ONLY <1>a
    <3> QED BY ONLY <1>h, <2>t, <3>1
  <2> QED BY ONLY GoesOn, <2>1, <2>2, <2>3 DEF GoesOn
<1>2. CASE StartSteering
  <2>1. /\ bdb'.state = "steer" /\ bdb'.status = bdb.status /\ bdb'.match = bdb.match
        /\ awaited' = awaited
    BY <1>2 DEF StartSteering
  <2>2. On(tasks, {"start"})  BY <1>h, <1>2 DEF StartSteering
  <2>3. CASE bdb.onNetwork
    <3>0. stack' = stack /\ tasks' = Append(Tail(tasks), "permitConfirm")
      BY <1>2, <2>3 DEF StartSteering
    <3>1. stack' = stack /\ On(tasks', {"tclk", "permit", "permitConfirm", "steerDone"})
      BY ONLY <1>a, <3>0
    <3> QED BY ONLY GoesOn, <2>1, <2>2, <3>1 DEF GoesOn
  <2>4. CASE ~bdb.onNetwork
    <3>1. stack' = Request(stack, "joining")  BY <1>2, <2>4 DEF StartSteering
    <3>2. stack'.net = IF stack.net = "idle" THEN "joining" ELSE stack.net
      BY ONLY <3>1, TypeOK DEF TypeOK, StackStates, Request
    <3>3. stack.net \in {"idle", "joining", "rejoining", "leaving"}  OBVIOUS
    <3> QED BY ONLY GoesOn, <2>1, <2>2, <3>2, <3>3 DEF GoesOn
  <2> QED BY <2>3, <2>4
<1>3. CASE StartFinding
  BY ZenonT(60), <1>h, <1>a, <1>3 DEF StartFinding, FindBind, FindTimers
<1>4. CASE StartNothing
  BY <1>h, <1>a, CbKeeps, <1>4 DEF StartNothing
<1>5. CASE RejoinDone
  BY <1>h, <1>a, CbKeeps, <1>5 DEF RejoinDone, Confirmed
<1>6. CASE RetrieveKey
  BY <1>h, <1>a, <1>6 DEF RetrieveKey
<1>7. CASE PermitJoin
  BY <1>h, <1>a, <1>7 DEF PermitJoin
<1>8. CASE SteerDone
  <2>1. CASE bdb' = FindBind(bdb) /\ UNCHANGED <<timers, net_steer_start, stack>>
    <3>1. /\ bdb'.state = "find" /\ bdb'.status = bdb.status /\ bdb'.match = bdb.match
          /\ bdb'.commissioningStatus = bdb.commissioningStatus
          /\ bdb'.identifyTimer \in FindTimers \/ bdb'.robbed
      BY <2>1 DEF FindBind, FindTimers
    <3>2. tasks' = Tail(tasks) /\ awaited' = awaited  BY <1>8 DEF SteerDone
    <3>3. On(tasks', {"start"}) => On(tasks, {"start"})  BY ONLY <1>h, <3>2
    <3> QED BY ONLY GoesOn, <2>1, <3>1, <3>2, <3>3 DEF GoesOn
  <2>2. CASE bdb' = [Confirmed(bdb) EXCEPT !.state = "idle"] /\ CommissioningCb(bdb.status)
    BY <1>h, CbKeeps, <1>8, <2>2 DEF SteerDone, Confirmed
  <2> QED BY ONLY <1>8, <2>1, <2>2 DEF SteerDone
<1>9. CASE SimpleDescReq
  BY <1>h, <1>a, <1>9 DEF SimpleDescReq
<1>10. CASE FindDone
  BY <1>h, <1>a, CbKeeps, <1>10 DEF FindDone, Confirmed
<1>11. CASE Dropped
  <2>1. /\ bdb'.state = IF bdb.state = "init" THEN "idle" ELSE bdb.state
        /\ bdb'.commissioningStatus = bdb.commissioningStatus
        /\ bdb'.status = bdb.status /\ bdb'.match = bdb.match
        /\ bdb'.identifyTimer = bdb.identifyTimer /\ bdb'.robbed = bdb.robbed
    BY <1>11 DEF Dropped
  <2>2. stack' = stack /\ awaited' = awaited /\ timers' = timers  BY <1>11 DEF Dropped
  <2>3. tasks' = Tail(tasks) /\ Head(tasks) \in Events /\ ~Handled(Head(tasks))
    BY <1>11 DEF Dropped
  <2>4. On(tasks', {"start"}) => On(tasks, {"start"})  BY ONLY <1>h, <2>3
  <2>5. bdb.state = "idle" => (On(tasks, {"start"}) => On(tasks', {"start"}))
    BY ONLY <1>h, <2>3 DEF Handled
  <2>6. bdb.state = "steer" =>
          (On(tasks, {"tclk", "permit", "permitConfirm", "steerDone"})
             => On(tasks', {"tclk", "permit", "permitConfirm", "steerDone"}))
    <3>1. bdb.state = "steer"
            => Head(tasks) \notin {"tclk", "permit", "permitConfirm", "steerDone"}
      BY ONLY <2>3 DEF Handled, Events
    <3> QED BY ONLY <1>h, <2>3, <3>1
  <2>7. bdb.state = "find" =>
          (On(tasks, {"send", "findDone"}) => On(tasks', {"send", "findDone"}))
    <3>1. bdb.state = "find" => Head(tasks) \notin {"send", "findDone"}
      BY ONLY <2>3 DEF Handled, Events
    <3> QED BY ONLY <1>h, <2>3, <3>1
  <2> QED BY ONLY GoesOn, <2>1, <2>2, <2>4, <2>5, <2>6, <2>7 DEF GoesOn
<1>12. CASE SimpleDescReqSend
  <2>1. KeepsState /\ bdb'.match = bdb.match
    BY <1>12 DEF SimpleDescReqSend, KeepsState
  <2>2. stack' = stack /\ awaited' = awaited /\ timers' = timers
    BY <1>12 DEF SimpleDescReqSend
  <2>3. \E t \in {"descReq", "findDone"} : tasks' = Append(Tail(tasks), t)
    BY <1>12 DEF SimpleDescReqSend
  <2>4. Head(tasks) = "send"  BY <1>12 DEF SimpleDescReqSend
  <2>5. On(tasks', {"start"}) <=> On(tasks, {"start"})
    BY ONLY <1>h, <1>a, <2>3, <2>4
  <2>6. On(tasks, {"initDone"}) => On(tasks', {"initDone"})
    BY ONLY <1>h, <1>a, <2>3, <2>4
  <2>7. On(tasks, {"tclk", "permit", "permitConfirm", "steerDone"})
          => On(tasks', {"tclk", "permit", "permitConfirm", "steerDone"})
    BY ONLY <1>h, <1>a, <2>3, <2>4
  <2>8. CASE bdb.queue > 0
    <3>0. bdb' = [bdb EXCEPT !.queue = bdb.queue - 1, !.identifyTimer = "desc",
                             !.robbed = FALSE]
      BY ONLY <1>12, <2>8 DEF SimpleDescReqSend
    <3>1. bdb'.identifyTimer = "desc"  BY ONLY TypeOK, <3>0 DEF TypeOK, BdbStates
    <3>2. bdb.state = "find"  BY <2>8 DEF FindIsTidy
    <3> QED BY ONLY GoesOn, <2>1, <2>2, <2>5, <3>1, <3>2
            DEF GoesOn, KeepsState, FindTimers
  <2>9. CASE ~(bdb.queue > 0)
    <3>1. tasks' = Append(Tail(tasks), "findDone")
      BY <1>12, <2>9 DEF SimpleDescReqSend
    <3>2. On(Append(Tail(tasks), "findDone"), {"send", "findDone"})
      BY ONLY <1>a
    <3>3. bdb'.identifyTimer = bdb.identifyTimer /\ bdb'.robbed = bdb.robbed
      BY <1>12, <2>9 DEF SimpleDescReqSend
    <3> QED BY ONLY GoesOn, <2>1, <2>2, <2>5, <2>6, <2>7, <3>1, <3>2, <3>3
            DEF GoesOn, KeepsState
  <2> QED BY <2>8, <2>9
<1>13. CASE MgmtPermitJoiningConfirm
  <2>1. /\ KeepsState /\ bdb'.match = bdb.match
        /\ bdb'.identifyTimer = bdb.identifyTimer /\ bdb'.robbed = bdb.robbed
    BY <1>13 DEF MgmtPermitJoiningConfirm, InfoSaved, KeepsState
  <2>2. stack'.net = stack.net /\ awaited' = awaited /\ timers' = timers
    BY <1>13 DEF MgmtPermitJoiningConfirm
  <2>3. Head(tasks) = "permitConfirm"
        /\ tasks' = IF bdb.state = "steer" THEN Append(Tail(tasks), "steerDone")
                                           ELSE Tail(tasks)
    BY <1>13 DEF MgmtPermitJoiningConfirm
  <2>4. CASE bdb.state = "steer"
    <3>1. On(Append(Tail(tasks), "steerDone"), {"start"}) <=> On(Tail(tasks), {"start"})
      BY ONLY <1>a
    <3>2. On(Append(Tail(tasks), "steerDone"),
             {"tclk", "permit", "permitConfirm", "steerDone"})
      BY ONLY <1>a
    <3>3. On(tasks', {"start"}) => On(tasks, {"start"})
      BY ONLY <1>h, <2>3, <2>4, <3>1
    <3> QED BY ONLY <2>1, <2>2, <2>3, <2>4, <3>2, <3>3, GoesOn DEF GoesOn, KeepsState
  <2>5. CASE bdb.state # "steer"
    <3>1. /\ On(tasks', {"start"}) <=> On(tasks, {"start"})
          /\ On(tasks, {"initDone"}) => On(tasks', {"initDone"})
          /\ On(tasks, {"send", "findDone"}) => On(tasks', {"send", "findDone"})
      BY ONLY <1>h, <2>3, <2>5
    <3> QED BY ONLY <2>1, <2>2, <2>5, <3>1, GoesOn DEF GoesOn, KeepsState
  <2> QED BY <2>4, <2>5
<1>14. CASE CommissioningInfoSave
  BY ZenonT(60), <1>h, <1>a, <1>14 DEF CommissioningInfoSave, InfoSaved
<1> QED BY <1>1, <1>2, <1>3, <1>4, <1>5, <1>6, <1>7, <1>8, <1>9, <1>10, <1>11, <1>12, <1>13, <1>14
        DEF RunTask

LEMMA GoesOnTimeouts ==
  ASSUME TypeOK, FindIsTidy, GoesOn, Timeouts
  PROVE  GoesOn'
<1> USE DEF TypeOK, GoesOn, BdbStates, StackStates, Statuses, Asking
<1>a. \A t \in {"send", "findDone", "tclk", "permit", "steerDone", "start"} :
        \A set : On(Append(tasks, t), set) <=> On(tasks, set) \/ t \in set
  BY OnAppend DEF Tasks, Events
<1>e. tasks = <<>> => \A set : ~On(tasks, set)  BY DEF On
<1>k. \A t \in {"send", "findDone", "tclk", "permit", "steerDone"} :
        Post(t) => /\ KeepsTasks
                   /\ t \in {"send", "findDone"} => On(tasks', {"send", "findDone"})
                   /\ t \in {"tclk", "permit", "permitConfirm", "steerDone"}
                        => On(tasks', {"tclk", "permit", "permitConfirm", "steerDone"})
                   /\ t = "initDone" => On(tasks', {"initDone"})
  <2> SUFFICES ASSUME NEW t \in {"send", "findDone", "tclk", "permit", "steerDone"}, Post(t)
               PROVE  /\ KeepsTasks
                      /\ t \in {"send", "findDone"} => On(tasks', {"send", "findDone"})
                      /\ t \in {"tclk", "permit", "permitConfirm", "steerDone"}
                           => On(tasks', {"tclk", "permit", "permitConfirm", "steerDone"})
                      /\ t = "initDone" => On(tasks', {"initDone"})
    OBVIOUS
  <2>1. \A set : On(tasks', set) <=> On(tasks, set) \/ t \in set  BY <1>a DEF Post
  <2>2. t # "start"  OBVIOUS
  <2> QED BY ONLY <2>1, <2>2 DEF KeepsTasks
<1>1. CASE IdentifyQueryTimeout
  <2>1. KeepsState /\ bdb'.match = bdb.match /\ bdb'.robbed = bdb.robbed
    BY ZenonT(60), <1>1 DEF IdentifyQueryTimeout, KeepsState
  <2>0. bdb.identifyTimer # "retrieve"  BY <1>1 DEF IdentifyQueryTimeout
  <2>2. stack' = stack /\ awaited' = awaited /\ timers' = timers
    BY <1>1 DEF IdentifyQueryTimeout, OnlyPosts
  <2>3. KeepsTasks /\ On(tasks', {"send", "findDone"})
    BY <1>k, <1>1 DEF IdentifyQueryTimeout
  <2> QED BY ONLY <2>0, <2>1, <2>2, <2>3, GoesOn DEF GoesOn, KeepsState, KeepsTasks
<1>2. CASE SimpleDescReqTimeout
  BY <1>a, <1>e, <1>2 DEF SimpleDescReqTimeout, OnlyPosts, Post
<1>3. CASE IdentifyTimeout
  BY <1>a, <1>e, <1>3 DEF IdentifyTimeout, OnlyPosts, Post
<1>4. CASE TaskDelay
  <2>1. bdb' = bdb /\ stack' = stack /\ awaited' = awaited  BY <1>4 DEF TaskDelay
  <2>2. KeepsTasks /\ On(tasks', {"tclk", "permit", "permitConfirm", "steerDone"})
    BY <1>k, <1>4 DEF TaskDelay
  <2> QED BY ONLY <2>1, <2>2, GoesOn DEF GoesOn, KeepsTasks
<1>5. CASE RetrieveTcLinkKeyStart
  <2>1. KeepsState /\ bdb'.match = bdb.match /\ bdb'.robbed = bdb.robbed
    BY <1>5 DEF RetrieveTcLinkKeyStart, KeepsState
  <2>2. bdb.state = "steer" => bdb'.identifyTimer = "retrieve"
    BY <1>5 DEF RetrieveTcLinkKeyStart, FindIsTidy, IdentifyTimers
  <2>3. bdb.identifyTimer \in FindTimers => bdb'.identifyTimer \in FindTimers
    BY <1>5 DEF RetrieveTcLinkKeyStart, FindTimers
  <2>4. stack' = stack /\ tasks' = tasks /\ ("ieeeAddr" \in awaited => "ieeeAddr" \in awaited')
    BY <1>5 DEF RetrieveTcLinkKeyStart
  <2> QED BY ONLY GoesOn, <2>1, <2>2, <2>3, <2>4 DEF GoesOn, KeepsState
<1>6. CASE RetrieveTcLinkKeyTimeout
  <2>1. KeepsState /\ bdb'.match = bdb.match
    BY ZenonT(60), <1>6 DEF RetrieveTcLinkKeyTimeout, KeyDone, KeepsState
  <2>0. bdb.identifyTimer = "retrieve" /\ bdb.identifyTimer \notin FindTimers
    BY <1>6 DEF RetrieveTcLinkKeyTimeout, FindTimers
  <2>5. bdb'.robbed = bdb.robbed
    BY <1>6, <2>0 DEF RetrieveTcLinkKeyTimeout, KeyDone
  <2>2. "ieeeAddr" \in awaited => "ieeeAddr" \in awaited'
    BY <1>6 DEF RetrieveTcLinkKeyTimeout
  <2>3. CASE bdb.attempts >= ATTEMPTS_MAX /\ ~stack.joined
    <3>1. stack' = stack  BY <1>6, <2>3 DEF RetrieveTcLinkKeyTimeout
    <3>0. ~(bdb.attempts < ATTEMPTS_MAX)  BY <2>3, CommissioningConstantsOK
    <3>2. Post(KeyDoneEvent(FALSE))
      BY ONLY <1>6, <2>3, <3>0 DEF RetrieveTcLinkKeyTimeout
    <3>4. KeyDoneEvent(FALSE) = "steerDone"  BY DEF KeyDoneEvent
    <3>3. KeepsTasks /\ On(tasks', {"tclk", "permit", "permitConfirm", "steerDone"})
      BY <3>2, <3>4, <1>k
    <3> QED BY ONLY <2>0, <2>1, <2>2, <2>5, <3>1, <3>3, GoesOn
            DEF GoesOn, KeepsState, KeepsTasks
  <2>4. CASE ~(bdb.attempts >= ATTEMPTS_MAX /\ ~stack.joined)
    <3>1. tasks = <<>> /\ tasks' = tasks /\ timers' = timers
          /\ bdb'.identifyTimer = bdb.identifyTimer
      BY <1>6, <2>4 DEF RetrieveTcLinkKeyTimeout
    <3>2. stack'.net = stack.net \/ (stack.net = "idle" /\ stack'.net = "leaving")
      BY <1>6, <2>4 DEF RetrieveTcLinkKeyTimeout, Request
    <3>3. ~On(tasks, {"start"})  BY <1>e, <3>1
    <3> QED BY ONLY <2>0, <2>1, <2>2, <2>5, <3>1, <3>2, <3>3, GoesOn DEF GoesOn, KeepsState
  <2> QED BY <2>3, <2>4
<1>7. CASE SteerTimer
  <2>1. stack' = stack /\ awaited' = awaited  BY <1>7 DEF SteerTimer
  <2>2. \A t \in {"delayTclk", "delayPermit", "tcStart"} :
          t \in timers => t \in timers'
    BY <1>7 DEF SteerTimer, Expires
  <2>3. /\ bdb'.state = bdb.state /\ bdb'.status = bdb.status
        /\ bdb'.match = bdb.match /\ bdb'.identifyTimer = bdb.identifyTimer
    BY ZenonT(60), <1>7 DEF SteerTimer, TopLevel
  <2>4. CASE Accepts
    <3>1. Post("start")  BY <1>7, <2>4 DEF SteerTimer, TopLevel, Post
    <3>2. On(tasks', {"start"})  BY <1>a, <3>1 DEF Post
    <3>3. stack.net = "idle" /\ bdb.state = "idle"  BY <2>4 DEF Accepts, IsIdle
    <3> QED BY ONLY <2>1, <2>2, <2>3, <3>2, <3>3, GoesOn DEF GoesOn
  <2>5. CASE ~Accepts
    <3>1. /\ tasks' = tasks /\ bdb'.robbed = bdb.robbed
          /\ bdb'.commissioningStatus = bdb.commissioningStatus
      BY <1>7, <2>5 DEF SteerTimer, TopLevel
    <3> QED BY ONLY <2>1, <2>2, <2>3, <3>1, GoesOn DEF GoesOn
  <2> QED BY <2>4, <2>5
<1>8. CASE FindTimer
  <2>1. stack' = stack /\ awaited' = awaited  BY <1>8 DEF FindTimer
  <2>2. \A t \in {"delayTclk", "delayPermit", "tcStart"} :
          t \in timers => t \in timers'
    BY <1>8 DEF FindTimer, Expires
  <2>3. /\ bdb'.state = bdb.state /\ bdb'.status = bdb.status
        /\ bdb'.match = bdb.match /\ bdb'.identifyTimer = bdb.identifyTimer
    BY ZenonT(60), <1>8 DEF FindTimer, TopLevel
  <2>4. CASE Accepts
    <3>1. Post("start")  BY <1>8, <2>4 DEF FindTimer, TopLevel, Post
    <3>2. On(tasks', {"start"})  BY <1>a, <3>1 DEF Post
    <3>3. stack.net = "idle" /\ bdb.state = "idle"  BY <2>4 DEF Accepts, IsIdle
    <3> QED BY ONLY <2>1, <2>2, <2>3, <3>2, <3>3, GoesOn DEF GoesOn
  <2>5. CASE ~Accepts
    <3>1. /\ tasks' = tasks /\ bdb'.robbed = bdb.robbed
          /\ bdb'.commissioningStatus = bdb.commissioningStatus
      BY <1>8, <2>5 DEF FindTimer, TopLevel
    <3> QED BY ONLY <2>1, <2>2, <2>3, <3>1, GoesOn DEF GoesOn
  <2> QED BY <2>4, <2>5
<1>9. CASE RejoinBackoff
  BY <1>a, <1>e, <1>9 DEF RejoinBackoff, Request
<1>10. CASE NetSteerStartOff
  BY <1>a, <1>e, <1>10 DEF NetSteerStartOff, Expires
<1> QED BY <1>1, <1>2, <1>3, <1>4, <1>5, <1>6, <1>7, <1>8, <1>9, <1>10
        DEF Timeouts

LEMMA GoesOnCnf ==
  ASSUME TypeOK, GoesOn, NEW r \in {"success", "rejoinFailure", "parentLost"},
         NEW s \in StackStates, s.net = "idle", StartDevCnf(r, s)
  PROVE  GoesOn'
<1> USE DEF TypeOK, BdbStates
<1>a. \A t \in {"send", "findDone", "permit", "rejoinDone", "initDone", "steerDone"} :
        \A set : On(Append(tasks, t), set) <=> On(tasks, set) \/ t \in set
  BY OnAppend DEF Tasks, Events
<1>b. \A set : On(tasks, set) => On(tasks \o <<"infoSave", "rejoinDone">>, set)
  BY OnBoth
<1>c. ~On(tasks, {"start"}) => ~On(tasks \o <<"infoSave", "rejoinDone">>, {"start"})
  BY OnBoth
<1>k. \A t \in {"send", "findDone", "permit", "rejoinDone", "initDone", "steerDone"} :
        Post(t) => /\ KeepsTasks
                   /\ t \in {"send", "findDone"} => On(tasks', {"send", "findDone"})
                   /\ t \in {"tclk", "permit", "permitConfirm", "steerDone"}
                        => On(tasks', {"tclk", "permit", "permitConfirm", "steerDone"})
                   /\ t = "initDone" => On(tasks', {"initDone"})
  <2> SUFFICES ASSUME NEW t \in {"send", "findDone", "permit", "rejoinDone", "initDone", "steerDone"}, Post(t)
               PROVE  /\ KeepsTasks
                      /\ t \in {"send", "findDone"} => On(tasks', {"send", "findDone"})
                      /\ t \in {"tclk", "permit", "permitConfirm", "steerDone"}
                           => On(tasks', {"tclk", "permit", "permitConfirm", "steerDone"})
                      /\ t = "initDone" => On(tasks', {"initDone"})
    OBVIOUS
  <2>1. \A set : On(tasks', set) <=> On(tasks, set) \/ t \in set  BY <1>a DEF Post
  <2>2. t # "start"  OBVIOUS
  <2> QED BY ONLY <2>1, <2>2 DEF KeepsTasks
<1>s. stack'.net = "idle" /\ awaited' = awaited  BY DEF StartDevCnf
<1>1. CASE bdb.state = "idle"
  <2>1. /\ bdb'.state = "idle" /\ bdb'.status # "inProgress" /\ bdb'.match = bdb.match
        /\ bdb'.commissioningStatus = bdb.commissioningStatus
    BY <1>1 DEF StartDevCnf
  <2>2. Post("rejoinDone") \/ tasks' = tasks \o <<"infoSave", "rejoinDone">>
    BY <1>1 DEF StartDevCnf, Post
  <2>3. On(tasks, {"start"}) => On(tasks', {"start"})
    BY ONLY <1>b, <1>k, <2>2 DEF KeepsTasks
  <2> QED BY ONLY <1>1, <1>s, <2>1, <2>3, GoesOn DEF GoesOn
<1>2. CASE bdb.state = "init"
  <2>1. /\ bdb'.state = "init" /\ bdb'.status # "inProgress" /\ bdb'.match = bdb.match
        /\ bdb'.commissioningStatus = bdb.commissioningStatus
    BY <1>2, GoesOn DEF StartDevCnf, GoesOn
  <2>2. Post("initDone")  BY <1>2 DEF StartDevCnf
  <2>3. KeepsTasks /\ On(tasks', {"initDone"})  BY <1>k, <2>2
  <2> QED BY ONLY <1>2, <1>s, <2>1, <2>3, GoesOn DEF GoesOn, KeepsTasks
<1>3. CASE bdb.state = "steer" /\ r = "success"
  <2>1. /\ bdb'.state = "steer" /\ bdb'.status # "inProgress" /\ bdb'.match = bdb.match
        /\ tasks' = tasks
        /\ "delayTclk" \in timers' \/ "delayPermit" \in timers'
    BY <1>3 DEF StartDevCnf
  <2> QED BY ONLY <1>3, <1>s, <2>1, GoesOn DEF GoesOn
<1>4. CASE bdb.state = "steer" /\ r # "success"
  <2>1. /\ bdb'.state = "steer" /\ bdb'.status # "inProgress" /\ bdb'.match = bdb.match
    BY <1>4 DEF StartDevCnf
  <2>2. Post("steerDone")  BY <1>4 DEF StartDevCnf
  <2>3. KeepsTasks /\ On(tasks', {"tclk", "permit", "permitConfirm", "steerDone"})
    BY <1>k, <2>2
  <2> QED BY ONLY <1>4, <1>s, <2>1, <2>3, GoesOn DEF GoesOn, KeepsTasks
<1>5. CASE bdb.state = "find"
  <2>1. bdb' = bdb /\ tasks' = tasks  BY <1>5 DEF StartDevCnf
  <2> QED BY ONLY <1>5, <1>s, <2>1, GoesOn DEF GoesOn
<1> QED BY <1>1, <1>2, <1>3, <1>4, <1>5

LEMMA GoesOnEnvironment ==
  ASSUME TypeOK, FindIsTidy, GoesOn, Environment
  PROVE  GoesOn'
<1> USE DEF TypeOK, GoesOn, BdbStates, StackStates, Statuses, Asking
<1>a. \A t \in {"send", "findDone", "permit", "rejoinDone", "initDone", "steerDone"} :
        \A set : On(Append(tasks, t), set) <=> On(tasks, set) \/ t \in set
  BY OnAppend DEF Tasks, Events
<1>k. \A t \in {"send", "findDone", "permit", "rejoinDone", "initDone", "steerDone"} :
        Post(t) => /\ KeepsTasks
                   /\ t \in {"send", "findDone"} => On(tasks', {"send", "findDone"})
                   /\ t \in {"tclk", "permit", "permitConfirm", "steerDone"}
                        => On(tasks', {"tclk", "permit", "permitConfirm", "steerDone"})
                   /\ t = "initDone" => On(tasks', {"initDone"})
  <2> SUFFICES ASSUME NEW t \in {"send", "findDone", "permit", "rejoinDone", "initDone", "steerDone"}, Post(t)
               PROVE  /\ KeepsTasks
                      /\ t \in {"send", "findDone"} => On(tasks', {"send", "findDone"})
                      /\ t \in {"tclk", "permit", "permitConfirm", "steerDone"}
                           => On(tasks', {"tclk", "permit", "permitConfirm", "steerDone"})
                      /\ t = "initDone" => On(tasks', {"initDone"})
    OBVIOUS
  <2>1. \A set : On(tasks', set) <=> On(tasks, set) \/ t \in set  BY <1>a DEF Post
  <2>2. t # "start"  OBVIOUS
  <2> QED BY ONLY <2>1, <2>2 DEF KeepsTasks
<1>1. CASE JoinEnds
  <2>1. PICK ok \in BOOLEAN :
          StartDevCnf(IF ok THEN "success" ELSE "rejoinFailure",
                      [stack EXCEPT !.net = "idle", !.joined = ok])
    BY <1>1 DEF JoinEnds
  <2>2. /\ [stack EXCEPT !.net = "idle", !.joined = ok] \in StackStates
        /\ [stack EXCEPT !.net = "idle", !.joined = ok].net = "idle"
    OBVIOUS
  <2>3. CASE ok  BY ONLY TypeOK, GoesOn, <2>1, <2>2, <2>3, GoesOnCnf
  <2>4. CASE ~ok  BY ONLY TypeOK, GoesOn, <2>1, <2>2, <2>4, GoesOnCnf
  <2> QED BY <2>3, <2>4
<1>2. CASE ParentLost
  <2>1. /\ [stack EXCEPT !.joined = FALSE] \in StackStates
        /\ [stack EXCEPT !.joined = FALSE].net = "idle"
    BY <1>2 DEF ParentLost
  <2>2. StartDevCnf("parentLost", [stack EXCEPT !.joined = FALSE])
    BY <1>2 DEF ParentLost
  <2> QED BY ONLY TypeOK, GoesOn, <2>1, <2>2, GoesOnCnf
<1>3. CASE LeaveEnds
  BY <1>a, <1>3 DEF LeaveEnds
<1>12. CASE LeaveFails
  BY <1>12 DEF LeaveFails
<1>4. CASE IdentifyQueryResp
  BY <1>a, <1>4 DEF IdentifyQueryResp
<1>5. CASE SimpleDescResp
  <2> DEFINE b == Cancelled(bdb)
  <2>1. stack' = stack /\ timers' = timers  BY <1>5 DEF SimpleDescResp
  <2>2. \/ bdb.match /\ UNCHANGED <<bdb, tasks, awaited>>
        \/ bdb' = b /\ Post("send") /\ UNCHANGED awaited
        \/ Binding(b) /\ UNCHANGED awaited
        \/ /\ bdb' = [b EXCEPT !.match = TRUE] /\ UNCHANGED tasks
           /\ awaited' = awaited \cup {"ieeeAddr"}
    BY ONLY <1>5 DEF SimpleDescResp
  <2>3. CASE bdb.match /\ UNCHANGED <<bdb, tasks, awaited>>
    BY ONLY <2>1, <2>3, GoesOn DEF GoesOn
  <2>4. CASE bdb' = b /\ Post("send") /\ UNCHANGED awaited
    <3>1. KeepsState /\ bdb'.match = bdb.match  BY <2>4 DEF KeepsState, Cancelled
    <3>3. bdb.state = "steer" /\ (bdb.identifyTimer = "retrieve" \/ bdb.robbed) => bdb'.robbed
      BY <2>4 DEF Cancelled
    <3>2. KeepsTasks /\ On(tasks', {"send", "findDone"})  BY <1>k, <2>4
    <3> QED BY ONLY <2>1, <2>4, <3>1, <3>2, <3>3, GoesOn DEF GoesOn, KeepsState, KeepsTasks
  <2>5. CASE Binding(b) /\ UNCHANGED awaited
    <3>0. \/ bdb' = [b EXCEPT !.match = FALSE]
          \/ bdb' = [b EXCEPT !.match = FALSE, !.status = "tableFull"]
      BY <2>5 DEF Binding
    <3>00. /\ b \in BdbStates /\ b.state = bdb.state /\ b.status = bdb.status
           /\ b.commissioningStatus = bdb.commissioningStatus
      BY ZenonT(60), CancelledType DEF Cancelled
    <3>1. KeepsState /\ bdb'.match = FALSE
      <4> HIDE DEF b
      <4> QED BY ONLY GoesOn, <3>0, <3>00 DEF KeepsState, BdbStates, GoesOn
    <3>4. bdb.state = "steer" /\ (bdb.identifyTimer = "retrieve" \/ bdb.robbed) => bdb'.robbed
      BY <2>5 DEF Binding, Cancelled
    <3>2. Post("send") \/ Post("findDone")  BY <2>5 DEF Binding
    <3>3. KeepsTasks /\ On(tasks', {"send", "findDone"})  BY <1>k, <3>2
    <3> QED BY ONLY <2>1, <2>5, <3>1, <3>3, <3>4, GoesOn DEF GoesOn, KeepsState, KeepsTasks
  <2>6. CASE /\ bdb' = [b EXCEPT !.match = TRUE] /\ UNCHANGED tasks
             /\ awaited' = awaited \cup {"ieeeAddr"}
    <3>1. KeepsState /\ bdb'.match /\ "ieeeAddr" \in awaited'
      BY <2>6 DEF KeepsState, Cancelled
    <3>2. bdb.state = "steer" /\ (bdb.identifyTimer = "retrieve" \/ bdb.robbed) => bdb'.robbed
      BY <2>6 DEF Cancelled
    <3> QED BY ONLY <2>1, <2>6, <3>1, <3>2, GoesOn DEF GoesOn, KeepsState
  <2> QED BY <2>2, <2>3, <2>4, <2>5, <2>6
<1>6. CASE SimpleDescRespFails
  BY <1>a, <1>6 DEF SimpleDescRespFails, Post
<1>7. CASE IeeeAddrResp
  <2>1. stack' = stack /\ timers' = timers  BY <1>7 DEF IeeeAddrResp
  <2>2. KeepsState /\ bdb'.match = FALSE /\ bdb'.robbed = bdb.robbed
        /\ bdb'.identifyTimer = bdb.identifyTimer
    BY ZenonT(60), <1>7 DEF IeeeAddrResp, Binding, KeepsState
  <2>3. Post("send") \/ Post("findDone")  BY <1>7 DEF IeeeAddrResp, Binding
  <2>4. KeepsTasks /\ On(tasks', {"send", "findDone"})  BY <1>k, <2>3
  <2> QED BY ONLY <2>1, <2>2, <2>4, GoesOn DEF GoesOn, KeepsState, KeepsTasks
<1>8. CASE NodeDescResp
  <2>1. /\ stack' = stack
        /\ "ieeeAddr" \in awaited => "ieeeAddr" \in awaited'
    BY <1>8 DEF NodeDescResp
  <2>2. KeepsState /\ bdb'.match = bdb.match /\ timers' = timers
    BY ZenonT(60), <1>8 DEF NodeDescResp, KeyDone, KeepsState
  <2>3. CASE bdb' = [bdb EXCEPT !.onNetwork = FALSE] /\ UNCHANGED tasks
    <3>1. bdb'.identifyTimer = bdb.identifyTimer /\ bdb'.robbed = bdb.robbed
      BY <2>3
    <3> QED BY ONLY <2>1, <2>2, <2>3, <3>1, GoesOn DEF GoesOn, KeepsState
  <2>4. CASE bdb' = KeyDone(bdb, TRUE) /\ Post(KeyDoneEvent(TRUE))
    <3>3. bdb.identifyTimer \in FindTimers \/ bdb.robbed => bdb'.robbed
      BY <2>4 DEF KeyDone
    <3>1. KeyDoneEvent(TRUE) = "permit"  BY DEF KeyDoneEvent
    <3>2. KeepsTasks /\ On(tasks', {"tclk", "permit", "permitConfirm", "steerDone"})
      BY <1>k, <2>4, <3>1
    <3> QED BY ONLY <2>1, <2>2, <3>2, <3>3, GoesOn DEF GoesOn, KeepsState, KeepsTasks
  <2> QED BY ONLY <1>8, <2>3, <2>4 DEF NodeDescResp
<1>9. CASE KeyResp
  <2>1. /\ stack' = stack /\ timers' = timers
        /\ "ieeeAddr" \in awaited => "ieeeAddr" \in awaited'
        /\ bdb' = KeyDone(bdb, TRUE) /\ Post(KeyDoneEvent(TRUE))
    BY <1>9 DEF KeyResp, Answered
  <2>2. /\ KeepsState /\ bdb'.match = bdb.match
        /\ bdb.identifyTimer \in FindTimers \/ bdb.robbed => bdb'.robbed
    BY <2>1 DEF KeyDone, KeepsState
  <2>3. KeyDoneEvent(TRUE) = "permit"  BY DEF KeyDoneEvent
  <2>4. KeepsTasks /\ On(tasks', {"tclk", "permit", "permitConfirm", "steerDone"})
    BY <1>k, <2>1, <2>3
  <2> QED BY ONLY <2>1, <2>2, <2>4, GoesOn DEF GoesOn, KeepsState, KeepsTasks
<1>10. CASE AnswerLost
  BY <1>a, <1>10 DEF AnswerLost
<1>11. CASE FindBindStart
  BY <1>a, <1>11 DEF FindBindStart
<1> QED BY <1>1, <1>2, <1>3, <1>4, <1>5, <1>6, <1>7, <1>8, <1>9, <1>10, <1>11, <1>12
        DEF Environment

LEMMA GoesOnNext ==
  ASSUME TypeOK, FindIsTidy, GoesOn, [Next]_vars
  PROVE  GoesOn'
<1>1. CASE UNCHANGED vars  BY <1>1 DEF vars, GoesOn
<1> QED BY <1>1, GoesOnRun, GoesOnTimeouts, GoesOnEnvironment DEF Next

LEMMA GoesOnInit == Init => GoesOn
<1> SUFFICES ASSUME Init PROVE GoesOn  OBVIOUS
<1>1. /\ bdb.state = "init" /\ bdb.status = "success" /\ ~bdb.match
      /\ bdb.commissioningStatus = "success"
  BY DEF Init
<1>2. stack = FactoryNew \/ stack = Known  BY DEF Init
<1>3. CASE stack = FactoryNew
  <2>1. tasks = <<"initDone">>  BY <1>3 DEF Init, FactoryNew
  <2>2. On(tasks, {"initDone"}) /\ stack.net = "idle"  BY <1>3, <2>1 DEF On, FactoryNew
  <2> QED BY ONLY <1>1, <2>2 DEF GoesOn
<1>4. CASE stack = Known
  <2>1. stack.net = "rejoining"  BY <1>4 DEF Known
  <2> QED BY ONLY <1>1, <2>1 DEF GoesOn
<1> QED BY <1>2, <1>3, <1>4

(* There is always a task, a timer, a job of the stack or an answer not yet *)
(* come that carries an attempt further, whatever was lost or came late,    *)
(* unless the shared handle has robbed the attempt of its timer.            *)
THEOREM AttemptsGoOn == Spec => []AttemptGoesOn
<1>1. Init => GoesOn  BY GoesOnInit
<1>2. TypeOK /\ GoesOn => AttemptGoesOn
  <2> SUFFICES ASSUME TypeOK, GoesOn PROVE AttemptGoesOn  OBVIOUS
  <2>1. \A set : Scheduled(set) <=> On(tasks, set)  BY DEF Scheduled, On
  <2>2. On(tasks, {"send", "findDone"}) => On(tasks, {"send", "descReq", "findDone"})
    BY DEF On
  <2>3. stack.net \in {"joining", "rejoining"} => stack.net # "idle"  OBVIOUS
  <2> QED BY <2>1, <2>2, <2>3, GoesOn DEF GoesOn, AttemptGoesOn
<1> QED BY <1>1, <1>2, GoesOnNext, TypeCorrect, FindTidy, PTL DEF Spec


-----------------------------------------------------------------------------
(* A device without a network tries again.  The tasks that matter: those    *)
(* that lead to another attempt or to another result, those that end one,   *)
(* and those after which the device counts as on a network it may rejoin.   *)
Coming(s) == On(s, {"start", "rejoinDone"})
Resuming(s) == On(s, {"rejoinDone"})
Ending(s) == On(s, {"findDone", "steerDone"})
Saving(s) == On(s, {"infoSave", "permitConfirm"})

(* The inductive invariant behind NetworkIsRetried.  A device that steers   *)
(* begins with nothing but its first task.                                  *)
Starting ==
  bdb.state = "init"
    => /\ bdb.commissioningStatus = "success"
       /\ net_steer_start
            => /\ bdb.initOk /\ ~bdb.onNetwork
               /\ ~stack.joined /\ stack.net = "idle"
               /\ tasks = <<"initDone">> /\ timers \subseteq {"window", "find"}

(* A leave begins with no task waiting: while it lasts no result of a       *)
(* rejoin is told, and afterwards the device does not take itself for one   *)
(* on a network.                                                            *)
LeavingIsLast ==
  stack.net = "leaving"
    => /\ ~Resuming(tasks)
       /\ bdb.status \in {"rejoinFailure", "parentLost"} => ~Ending(tasks)
       /\ bdb.state = "idle" /\ bdb.commissioningStatus = "rejoinFailure"
            => ~Saving(tasks)

(* Between attempts there is a timer, a job of the stack or a task that     *)
(* leads to the next one or to another result.                              *)
WillTry ==
  bdb.state = "idle"
    => /\ /\ ~stack.joined /\ net_steer_start
          /\ bdb.commissioningStatus \in {"success", "noNetwork", "tclkFailure"}
          => "steer" \in timers \/ stack.net # "idle" \/ Coming(tasks)
       /\ ~stack.joined /\ bdb.commissioningStatus = "rejoinFailure"
          => \/ "rejoin" \in timers \/ stack.net # "idle" \/ Coming(tasks)
             \/ stack.factoryNew /\ ~Saving(tasks)
       /\ bdb.commissioningStatus = "parentLost"
          => stack.net \in {"joining", "rejoining"} \/ Coming(tasks)

(* Only a device on a network leaves it.                                    *)
OnlyMembersLeave == stack.net = "leaving" => stack.joined

LEMMA TailSays ==
  ASSUME NEW s \in Seq(Tasks), s # <<>>
  PROVE  /\ Coming(s) <=> Head(s) \in {"start", "rejoinDone"} \/ Coming(Tail(s))
         /\ Resuming(s) <=> Head(s) = "rejoinDone" \/ Resuming(Tail(s))
         /\ Ending(s) <=> Head(s) \in {"findDone", "steerDone"} \/ Ending(Tail(s))
         /\ Saving(s) <=> Head(s) \in {"infoSave", "permitConfirm"} \/ Saving(Tail(s))
<1>1. \A set : On(s, set) <=> Head(s) \in set \/ On(Tail(s), set)  BY OnTail
<1> QED BY <1>1 DEF Coming, Resuming, Ending, Saving

LEMMA AppendSays ==
  ASSUME NEW s \in Seq(Tasks), NEW t \in Tasks
  PROVE  /\ Coming(Append(s, t)) <=> t \in {"start", "rejoinDone"} \/ Coming(s)
         /\ Resuming(Append(s, t)) <=> t = "rejoinDone" \/ Resuming(s)
         /\ Ending(Append(s, t)) <=> t \in {"findDone", "steerDone"} \/ Ending(s)
         /\ Saving(Append(s, t)) <=> t \in {"infoSave", "permitConfirm"} \/ Saving(s)
<1>1. \A set : On(Append(s, t), set) <=> On(s, set) \/ t \in set  BY OnAppend
<1> QED BY <1>1 DEF Coming, Resuming, Ending, Saving

LEMMA BothSay ==
  ASSUME NEW s \in Seq(Tasks), NEW t, t = s \o <<"infoSave", "rejoinDone">>
  PROVE  Coming(t) /\ Resuming(t) /\ (Ending(t) <=> Ending(s))
<1>1. \A set : On(t, set) <=> On(s, set) \/ "infoSave" \in set \/ "rejoinDone" \in set
  BY OnBoth
<1> QED BY <1>1 DEF Coming, Resuming, Ending, Saving

LEMMA EmptySays ==
  ~Coming(<<>>) /\ ~Resuming(<<>>) /\ ~Ending(<<>>) /\ ~Saving(<<>>)
<1>1. 1..Len(<<>>) = {}  OBVIOUS
<1>2. ASSUME NEW set PROVE ~On(<<>>, set)  BY <1>1 DEF On
<1> QED BY <1>2 DEF Coming, Resuming, Ending, Saving

(* What telling the application a result leaves behind.                     *)
LEMMA CbSays ==
  ASSUME TypeOK, NEW st \in Statuses, CommissioningCb(st)
  PROVE  /\ net_steer_start' => net_steer_start /\ st # "success"
         /\ net_steer_start' /\ st \in {"noNetwork", "tclkFailure"} => "steer" \in timers'
         /\ st = "rejoinFailure" => "rejoin" \in timers'
         /\ stack'.joined = stack.joined /\ stack'.factoryNew = stack.factoryNew
         /\ stack'.net = stack.net \/ (stack.net = "idle" /\ stack'.net = "rejoining")
         /\ st = "parentLost" /\ stack.net # "leaving"
              => stack'.net \in {"joining", "rejoining"}
<1>1. net_steer_start' => net_steer_start /\ st # "success"
  BY Zenon DEF CommissioningCb
<1>2. net_steer_start' /\ st \in {"noNetwork", "tclkFailure"} => "steer" \in timers'
  <2> SUFFICES ASSUME net_steer_start', st \in {"noNetwork", "tclkFailure"}
               PROVE  "steer" \in timers'
    OBVIOUS
  <2>1. net_steer_start  BY <1>1
  <2> QED BY <2>1 DEF CommissioningCb
<1>3. st = "rejoinFailure" => "rejoin" \in timers'  BY DEF CommissioningCb
<1>4. stack' = stack \/ (stack.net = "idle" /\ stack' = [stack EXCEPT !.net = "rejoining"])
  BY DEF CommissioningCb, Request
<1>5. st = "parentLost" /\ stack.net = "idle" => stack'.net = "rejoining"
  BY DEF CommissioningCb, Request, TypeOK, StackStates
<1> QED BY <1>1, <1>2, <1>3, <1>4, <1>5 DEF TypeOK, StackStates

(* After a result has been told the device tries again.                     *)
LEMMA ToldWillTry ==
  ASSUME TypeOK, NEW st \in Statuses, CommissioningCb(st), st # "inProgress",
         bdb'.commissioningStatus = st,
         st = "parentLost" => stack.net # "leaving"
  PROVE  WillTry'
  BY CbSays DEF WillTry

(* A step that changes nothing the two depend on.                           *)
LEMMA QuietWillTry ==
  ASSUME WillTry, stack' = stack, net_steer_start' => net_steer_start,
         bdb'.state = "idle"
           => /\ bdb.state = "idle"
              /\ bdb'.commissioningStatus = bdb.commissioningStatus
              /\ Saving(tasks') => Saving(tasks),
         Coming(tasks) => Coming(tasks'),
         "steer" \in timers => "steer" \in timers',
         "rejoin" \in timers => "rejoin" \in timers'
  PROVE  WillTry'
  BY DEF WillTry

LEMMA QuietLeaving ==
  ASSUME LeavingIsLast, stack'.net = "leaving" => stack.net = "leaving",
         Resuming(tasks') => Resuming(tasks),
         bdb'.status \in {"rejoinFailure", "parentLost"} /\ Ending(tasks')
           => bdb.status \in {"rejoinFailure", "parentLost"} /\ Ending(tasks),
         bdb'.state = "idle" /\ bdb'.commissioningStatus = "rejoinFailure"
           => /\ bdb.state = "idle" /\ bdb.commissioningStatus = "rejoinFailure"
              /\ Saving(tasks') => Saving(tasks)
  PROVE  LeavingIsLast'
  BY DEF LeavingIsLast

(* What has not started yet stays as it was.                                *)
LEMMA StartingNext ==
  ASSUME TypeOK, FindIsTidy, Starting, [Next]_vars
  PROVE  Starting'
<1> SUFFICES ASSUME bdb'.state = "init"
             PROVE  /\ bdb'.commissioningStatus = "success"
                    /\ net_steer_start'
                         => /\ bdb'.initOk /\ ~bdb'.onNetwork
                            /\ ~stack'.joined /\ stack'.net = "idle"
                            /\ tasks' = <<"initDone">> /\ timers' \subseteq {"window", "find"}
  BY DEF Starting
<1> USE DEF TypeOK, BdbStates
<1>1. bdb.state = "init" /\ bdb'.commissioningStatus = bdb.commissioningStatus
  <2>1. CASE RunTask
    BY <2>1 DEF RunTask, InitDone, StartSteering, StartFinding, StartNothing,
       RejoinDone, RetrieveKey, PermitJoin, SteerDone, SimpleDescReq, FindDone,
       Dropped, SimpleDescReqSend, MgmtPermitJoiningConfirm, CommissioningInfoSave,
       FindBind, Confirmed, InfoSaved
  <2>2. CASE Timeouts
    BY ZenonT(60), <2>2 DEF Timeouts, IdentifyQueryTimeout, SimpleDescReqTimeout, IdentifyTimeout,
       TaskDelay, RetrieveTcLinkKeyStart, RetrieveTcLinkKeyTimeout, KeyDone,
       SteerTimer, FindTimer, TopLevel, Accepts, IsIdle, RejoinBackoff, NetSteerStartOff
  <2>3. CASE JoinEnds \/ ParentLost  BY <2>3 DEF JoinEnds, ParentLost, StartDevCnf
  <2>4. CASE Environment /\ ~JoinEnds /\ ~ParentLost
    BY ZenonT(60), <2>4 DEF Environment, LeaveEnds, LeaveFails, IdentifyQueryResp, SimpleDescResp, Binding,
       Cancelled, SimpleDescRespFails, IeeeAddrResp, NodeDescResp, KeyDone, KeyResp, AnswerLost,
       FindBindStart
  <2>5. CASE UNCHANGED vars  BY <2>5 DEF vars
  <2> QED BY <2>1, <2>2, <2>3, <2>4, <2>5 DEF Next
<1>2. bdb'.commissioningStatus = "success"  BY <1>1 DEF Starting
<1>3. ASSUME net_steer_start'
      PROVE  /\ bdb'.initOk /\ ~bdb'.onNetwork
             /\ ~stack'.joined /\ stack'.net = "idle"
             /\ tasks' = <<"initDone">> /\ timers' \subseteq {"window", "find"}
  <2>0. net_steer_start
    BY <1>3, <1>1 DEF Next, vars, RunTask, InitDone, StartSteering, StartFinding, StartNothing,
       RejoinDone, RetrieveKey, PermitJoin, SteerDone, SimpleDescReq, FindDone,
       Dropped, SimpleDescReqSend, MgmtPermitJoiningConfirm, CommissioningInfoSave,
       CommissioningCb, Timeouts, IdentifyQueryTimeout, SimpleDescReqTimeout, IdentifyTimeout,
       TaskDelay, RetrieveTcLinkKeyStart, RetrieveTcLinkKeyTimeout, OnlyPosts,
       SteerTimer, FindTimer, RejoinBackoff, NetSteerStartOff,
       Environment, JoinEnds, ParentLost, StartDevCnf, LeaveEnds, LeaveFails, IdentifyQueryResp,
       SimpleDescResp, SimpleDescRespFails, IeeeAddrResp, NodeDescResp, KeyResp, AnswerLost,
       FindBindStart
  <2>1. /\ bdb.initOk /\ ~bdb.onNetwork /\ ~stack.joined /\ stack.net = "idle"
        /\ tasks = <<"initDone">> /\ timers \subseteq {"window", "find"}
    BY <1>1, <2>0 DEF Starting
  <2>2. tasks # <<>> /\ Head(tasks) = "initDone"  BY <2>1
  <2>3. bdb.identifyTimer \notin {"query", "desc", "identify"}
    BY <1>1 DEF FindIsTidy, FindTimers
  <2>4. ~RunTask
    <3>1. ~InitDone  BY DEF InitDone
    <3>2. ~Dropped  BY <1>1, <2>2 DEF Dropped, Handled
    <3> QED BY <2>2, <3>1, <3>2 DEF RunTask, StartSteering, StartFinding, StartNothing,
       RejoinDone, RetrieveKey, PermitJoin, SteerDone, SimpleDescReq, FindDone,
       SimpleDescReqSend, MgmtPermitJoiningConfirm, CommissioningInfoSave, Runs
  <2>5. CASE Timeouts
    <3>1. SteerTimer \/ FindTimer \/ NetSteerStartOff \/ RetrieveTcLinkKeyTimeout \/ RejoinBackoff
      BY <2>1, <2>3, <2>5 DEF Timeouts, IdentifyQueryTimeout, SimpleDescReqTimeout, IdentifyTimeout,
         TaskDelay, Expires, RetrieveTcLinkKeyStart
    <3>2. FindTimer \/ NetSteerStartOff
      BY <2>1, <3>1 DEF SteerTimer, Expires, RetrieveTcLinkKeyTimeout, RejoinBackoff
    <3>3. ~Accepts  BY <1>1 DEF Accepts, IsIdle
    <3>4. bdb'.initOk = bdb.initOk /\ bdb'.onNetwork = bdb.onNetwork
          /\ stack' = stack /\ tasks' = tasks /\ timers' \subseteq timers
      BY <3>2, <3>3 DEF FindTimer, NetSteerStartOff, TopLevel, Expires
    <3> QED BY <2>1, <3>4
  <2>6. CASE Environment
    <3>1. AnswerLost \/ FindBindStart
      BY <1>1, <2>1, <2>6 DEF Environment, JoinEnds, ParentLost, LeaveEnds, LeaveFails,
         IdentifyQueryResp, SimpleDescResp, SimpleDescRespFails, IeeeAddrResp, Answered, NodeDescResp, KeyResp
    <3> QED BY <2>1, <3>1 DEF AnswerLost, FindBindStart
  <2>7. CASE UNCHANGED vars  BY <2>1, <2>7 DEF vars
  <2> QED BY <2>4, <2>5, <2>6, <2>7 DEF Next
<1> QED BY <1>2, <1>3

LEMMA LeavingRun ==
  ASSUME TypeOK, GoesOn, Starting, LeavingIsLast, RunTask
  PROVE  LeavingIsLast'
<1> USE DEF TypeOK, BdbStates, Runs
<1>0. /\ tasks # <<>> /\ tasks \in Seq(Tasks) /\ Tail(tasks) \in Seq(Tasks)
      /\ {"infoSave", "permitConfirm", "descReq", "findDone", "steerDone"} \subseteq Tasks
  BY TypeTasks DEF RunTask, InitDone, StartSteering, StartFinding, StartNothing,
     RejoinDone, RetrieveKey, PermitJoin, SteerDone, SimpleDescReq, FindDone,
     Dropped, SimpleDescReqSend, MgmtPermitJoiningConfirm, CommissioningInfoSave,
     Tasks, Events
<1>h. /\ Resuming(tasks) <=> Head(tasks) = "rejoinDone" \/ Resuming(Tail(tasks))
      /\ Ending(tasks) <=> Head(tasks) \in {"findDone", "steerDone"} \/ Ending(Tail(tasks))
      /\ Saving(tasks) <=> Head(tasks) \in {"infoSave", "permitConfirm"} \/ Saving(Tail(tasks))
  BY <1>0, TailSays
<1>a. \A t \in {"infoSave", "permitConfirm", "descReq", "findDone", "steerDone"} :
        LET s == Append(Tail(tasks), t)
        IN  /\ Resuming(s) <=> Resuming(Tail(tasks))
            /\ Ending(s) <=> t \in {"findDone", "steerDone"} \/ Ending(Tail(tasks))
            /\ Saving(s) <=> t \in {"infoSave", "permitConfirm"} \/ Saving(Tail(tasks))
  BY <1>0, AppendSays
<1>s. Head(tasks) = "start" => stack.net # "leaving"
  <2>1. On(tasks, {"start"}) <=> Head(tasks) \in {"start"} \/ On(Tail(tasks), {"start"})
    BY <1>0, OnTail
  <2> QED BY <2>1 DEF GoesOn
<1>1. CASE InitDone
  BY <1>h, <1>a, <1>1 DEF InitDone, Starting, LeavingIsLast
<1>2. CASE StartSteering
  <2>1. stack.net # "leaving" /\ stack'.net # "leaving"
    BY <1>s, <1>2 DEF StartSteering, Request, StackStates
  <2> QED BY <2>1 DEF LeavingIsLast
<1>3. CASE StartFinding  BY <1>s, <1>3 DEF StartFinding, LeavingIsLast
<1>4. CASE StartNothing
  <2>1. stack.net # "leaving" /\ CommissioningCb("noNetwork")  BY <1>s, <1>4 DEF StartNothing
  <2>2. stack'.net # "leaving"  BY <2>1, CbSays DEF Statuses
  <2> QED BY <2>2 DEF LeavingIsLast
<1>5. CASE RejoinDone
  <2>1. stack.net # "leaving"  BY <1>h, <1>5 DEF RejoinDone, LeavingIsLast
  <2>2. stack'.net # "leaving"  BY <2>1, <1>5, CbSays DEF RejoinDone
  <2> QED BY <2>2 DEF LeavingIsLast
<1>6. CASE RetrieveKey  BY <1>h, <1>6, QuietLeaving DEF RetrieveKey
<1>7. CASE PermitJoin
  <2>1. tasks' = Append(Tail(tasks), "permitConfirm") /\ bdb' = bdb /\ stack' = stack
        /\ bdb.state = "steer"
    BY <1>7 DEF PermitJoin
  <2> QED BY ONLY LeavingIsLast, <1>h, <1>a, <2>1 DEF LeavingIsLast
<1>8. CASE SteerDone
  <2>1. tasks' = Tail(tasks) /\ Head(tasks) = "steerDone"  BY <1>8 DEF SteerDone
  <2>2. CASE bdb'.state = "find"
    <3>1. stack' = stack /\ bdb'.status = bdb.status
      BY <1>8, <2>2 DEF SteerDone, FindBind, Confirmed
    <3> QED BY <2>1, <2>2, <3>1, <1>h, QuietLeaving
  <2>3. CASE bdb'.state # "find"
    <3>1. /\ CommissioningCb(bdb.status) /\ bdb'.status = bdb.status
          /\ bdb'.commissioningStatus = bdb.status
      BY <1>8, <2>3 DEF SteerDone, FindBind, Confirmed
    <3>2. stack'.net = "leaving" => stack.net = "leaving"  BY <3>1, CbSays
    <3> QED BY <2>1, <3>1, <3>2, <1>h DEF LeavingIsLast
  <2> QED BY <2>2, <2>3
<1>9. CASE SimpleDescReq  BY <1>h, <1>9, QuietLeaving DEF SimpleDescReq
<1>10. CASE FindDone
  <2>1. tasks' = Tail(tasks) /\ Head(tasks) = "findDone"  BY <1>10 DEF FindDone
  <2>2. /\ CommissioningCb(bdb.status) /\ bdb'.status = bdb.status
        /\ bdb'.commissioningStatus = bdb.status
    BY <1>10 DEF FindDone, Confirmed
  <2>3. stack'.net = "leaving" => stack.net = "leaving"  BY <2>2, CbSays
  <2> QED BY <2>1, <2>2, <2>3, <1>h DEF LeavingIsLast
<1>11. CASE Dropped
  <2>1. /\ tasks' = Tail(tasks) /\ stack' = stack /\ bdb'.status = bdb.status
        /\ bdb'.commissioningStatus = bdb.commissioningStatus
        /\ bdb'.state = IF bdb.state = "init" THEN "idle" ELSE bdb.state
    BY <1>11 DEF Dropped
  <2> QED BY <2>1, <1>h DEF LeavingIsLast, Starting
<1>12. CASE SimpleDescReqSend
  <2>1. /\ stack' = stack /\ bdb'.state = bdb.state
        /\ bdb'.commissioningStatus = bdb.commissioningStatus
        /\ \/ tasks' = Append(Tail(tasks), "descReq") /\ bdb'.status = bdb.status
           \/ tasks' = Append(Tail(tasks), "findDone") /\ bdb'.status = "success"
    BY <1>12 DEF SimpleDescReqSend
  <2> QED BY ONLY <2>1, <1>h, <1>a, LeavingIsLast DEF LeavingIsLast
<1>13. CASE MgmtPermitJoiningConfirm
  <2>1. /\ stack'.net = stack.net /\ bdb'.state = bdb.state /\ bdb'.status = "success"
        /\ bdb'.commissioningStatus = bdb.commissioningStatus
        /\ tasks' = Append(Tail(tasks), "steerDone") \/ tasks' = Tail(tasks)
    BY <1>13 DEF MgmtPermitJoiningConfirm, InfoSaved, StackStates
  <2> QED BY ONLY <2>1, <1>h, <1>a, LeavingIsLast DEF LeavingIsLast
<1>14. CASE CommissioningInfoSave
  <2>1. /\ stack'.net = stack.net /\ bdb'.state = bdb.state /\ bdb'.status = bdb.status
        /\ bdb'.commissioningStatus = bdb.commissioningStatus
        /\ tasks' = Tail(tasks)
    BY <1>14 DEF CommissioningInfoSave, InfoSaved, StackStates
  <2> QED BY <2>1, <1>h, QuietLeaving
<1> QED BY <1>1, <1>2, <1>3, <1>4, <1>5, <1>6, <1>7, <1>8, <1>9, <1>10, <1>11,
           <1>12, <1>13, <1>14 DEF RunTask

LEMMA WillTryRun ==
  ASSUME TypeOK, GoesOn, Starting, LeavingIsLast, WillTry, RunTask
  PROVE  WillTry'
<1> USE DEF TypeOK, BdbStates, Runs
<1>0. /\ tasks # <<>> /\ tasks \in Seq(Tasks) /\ Tail(tasks) \in Seq(Tasks)
      /\ {"infoSave", "permitConfirm", "descReq", "findDone", "steerDone"} \subseteq Tasks
  BY TypeTasks DEF RunTask, InitDone, StartSteering, StartFinding, StartNothing,
     RejoinDone, RetrieveKey, PermitJoin, SteerDone, SimpleDescReq, FindDone,
     Dropped, SimpleDescReqSend, MgmtPermitJoiningConfirm, CommissioningInfoSave,
     Tasks, Events
<1>h. /\ Coming(tasks) <=> Head(tasks) \in {"start", "rejoinDone"} \/ Coming(Tail(tasks))
      /\ Resuming(tasks) <=> Head(tasks) = "rejoinDone" \/ Resuming(Tail(tasks))
      /\ Ending(tasks) <=> Head(tasks) \in {"findDone", "steerDone"} \/ Ending(Tail(tasks))
      /\ Saving(tasks) <=> Head(tasks) \in {"infoSave", "permitConfirm"} \/ Saving(Tail(tasks))
  BY <1>0, TailSays
<1>a. \A t \in {"infoSave", "permitConfirm", "descReq", "findDone", "steerDone"} :
        LET s == Append(Tail(tasks), t)
        IN  /\ Coming(s) <=> Coming(Tail(tasks))
            /\ Saving(s) <=> t \in {"infoSave", "permitConfirm"} \/ Saving(Tail(tasks))
  BY <1>0, AppendSays
<1>r. bdb.status \in Statuses /\ bdb.status # "inProgress"  BY DEF GoesOn
<1>1. CASE InitDone
  <2>1. bdb.state = "init" /\ bdb'.commissioningStatus = "success"
    BY <1>1 DEF InitDone, Starting
  <2>2. ASSUME net_steer_start' PROVE "steer" \in timers'
    <3>1. net_steer_start  BY <1>1, <2>2 DEF InitDone
    <3>2. bdb.initOk /\ ~bdb.onNetwork  BY <2>1, <3>1 DEF Starting
    <3> QED BY <1>1, <3>1, <3>2 DEF InitDone
  <2> QED BY <2>1, <2>2 DEF WillTry
<1>2. CASE StartSteering  BY <1>2 DEF StartSteering, WillTry
<1>3. CASE StartFinding  BY <1>3 DEF StartFinding, FindBind, WillTry
<1>4. CASE StartNothing
  <2>1. CommissioningCb("noNetwork") /\ bdb'.commissioningStatus = "noNetwork"
    BY <1>4 DEF StartNothing
  <2> QED BY <2>1, ToldWillTry DEF Statuses
<1>5. CASE RejoinDone
  <2>1. stack.net # "leaving"  BY <1>h, <1>5 DEF RejoinDone, LeavingIsLast
  <2>2. CommissioningCb(bdb.status) /\ bdb'.commissioningStatus = bdb.status
    BY <1>5 DEF RejoinDone, Confirmed
  <2> QED BY <1>r, <2>1, <2>2, ToldWillTry
<1>6. CASE RetrieveKey  BY <1>6 DEF RetrieveKey, WillTry
<1>7. CASE PermitJoin  BY <1>7 DEF PermitJoin, WillTry
<1>8. CASE SteerDone
  <2>1. CASE bdb'.state = "find"  BY <2>1 DEF WillTry
  <2>2. CASE bdb'.state # "find"
    <3>1. CommissioningCb(bdb.status) /\ bdb'.commissioningStatus = bdb.status
      BY <1>8, <2>2 DEF SteerDone, FindBind, Confirmed
    <3>2. bdb.status = "parentLost" => stack.net # "leaving"
      BY <1>h, <1>8 DEF SteerDone, LeavingIsLast
    <3> QED BY <1>r, <3>1, <3>2, ToldWillTry
  <2> QED BY <2>1, <2>2
<1>9. CASE SimpleDescReq  BY <1>9 DEF SimpleDescReq, WillTry
<1>10. CASE FindDone
  <2>1. CommissioningCb(bdb.status) /\ bdb'.commissioningStatus = bdb.status
    BY <1>10 DEF FindDone, Confirmed
  <2>2. bdb.status = "parentLost" => stack.net # "leaving"
    BY <1>h, <1>10 DEF FindDone, LeavingIsLast
  <2> QED BY <1>r, <2>1, <2>2, ToldWillTry
<1>11. CASE Dropped
  <2>1. CASE bdb.state = "init"
    <3>1. bdb'.commissioningStatus = "success" /\ net_steer_start' = net_steer_start
      BY <1>11, <2>1 DEF Dropped, Starting
    <3>2. ~net_steer_start
      <4>1. SUFFICES ASSUME net_steer_start PROVE FALSE  OBVIOUS
      <4>2. tasks = <<"initDone">>  BY <2>1, <4>1 DEF Starting
      <4>3. Head(tasks) = "initDone"  BY <4>2
      <4> QED BY <1>11, <2>1, <4>3 DEF Dropped, Handled
    <3> QED BY <3>1, <3>2 DEF WillTry
  <2>2. CASE bdb.state = "idle"
    <3>1. /\ Head(tasks) \notin {"start", "rejoinDone"}
          /\ tasks' = Tail(tasks) /\ stack' = stack /\ timers' = timers
          /\ bdb'.state = bdb.state
          /\ bdb'.commissioningStatus = bdb.commissioningStatus
          /\ net_steer_start' = net_steer_start
      BY <1>11, <2>2 DEF Dropped, Handled
    <3> QED BY <3>1, <2>2, <1>h, QuietWillTry
  <2>3. CASE bdb.state \in {"steer", "find"}  BY <1>11, <2>3 DEF Dropped, WillTry
  <2> QED BY <2>1, <2>2, <2>3
<1>12. CASE SimpleDescReqSend
  <2>1. /\ stack' = stack /\ timers' = timers /\ bdb'.state = bdb.state
        /\ bdb'.commissioningStatus = bdb.commissioningStatus
        /\ net_steer_start' = net_steer_start
        /\ tasks' \in {Append(Tail(tasks), "descReq"), Append(Tail(tasks), "findDone")}
        /\ Head(tasks) = "send"
    BY <1>12 DEF SimpleDescReqSend, Asking
  <2>2. (Coming(tasks) => Coming(tasks')) /\ (Saving(tasks') => Saving(tasks))
    BY ONLY <2>1, <1>h, <1>a
  <2> QED BY <2>1, <2>2, QuietWillTry
<1>13. CASE MgmtPermitJoiningConfirm
  <2>1. /\ stack'.net = stack.net /\ stack'.joined = stack.joined /\ timers' = timers
        /\ bdb'.state = bdb.state /\ bdb'.commissioningStatus = bdb.commissioningStatus
        /\ net_steer_start' = net_steer_start
        /\ tasks' \in {Append(Tail(tasks), "steerDone"), Tail(tasks)}
        /\ Head(tasks) = "permitConfirm"
    BY <1>13 DEF MgmtPermitJoiningConfirm, InfoSaved, Asking, StackStates
  <2>2. (Coming(tasks) => Coming(tasks')) /\ Saving(tasks)
    BY ONLY <2>1, <1>h, <1>a
  <2> QED BY ONLY <2>1, <2>2, WillTry DEF WillTry
<1>14. CASE CommissioningInfoSave
  <2>1. /\ stack'.net = stack.net /\ stack'.joined = stack.joined /\ timers' = timers
        /\ bdb'.state = bdb.state /\ bdb'.commissioningStatus = bdb.commissioningStatus
        /\ net_steer_start' = net_steer_start
        /\ tasks' = Tail(tasks) /\ Head(tasks) = "infoSave"
    BY <1>14 DEF CommissioningInfoSave, InfoSaved, Asking, StackStates
  <2>2. (Coming(tasks) => Coming(tasks')) /\ Saving(tasks)
    BY ONLY <2>1, <1>h
  <2> QED BY ONLY <2>1, <2>2, WillTry DEF WillTry
<1> QED BY <1>1, <1>2, <1>3, <1>4, <1>5, <1>6, <1>7, <1>8, <1>9, <1>10, <1>11,
           <1>12, <1>13, <1>14 DEF RunTask

LEMMA LeavingTimeouts ==
  ASSUME TypeOK, GoesOn, LeavingIsLast, Timeouts
  PROVE  LeavingIsLast'
<1> USE DEF TypeOK, BdbStates
<1>0. /\ tasks \in Seq(Tasks)
      /\ {"send", "findDone", "tclk", "permit", "steerDone", "start"} \subseteq Tasks
  BY DEF Tasks, Events
<1>a. \A t \in {"send", "findDone", "tclk", "permit", "steerDone", "start"} :
        Post(t) => /\ Resuming(tasks') <=> Resuming(tasks)
                   /\ Ending(tasks') <=> t \in {"findDone", "steerDone"} \/ Ending(tasks)
                   /\ Saving(tasks') <=> Saving(tasks)
  BY <1>0, AppendSays DEF Post
<1>1. CASE IdentifyQueryTimeout
  <2>1. /\ stack' = stack /\ bdb'.state = bdb.state
        /\ bdb'.commissioningStatus = bdb.commissioningStatus
        /\ \/ Post("send") /\ bdb'.status = bdb.status
           \/ Post("findDone") /\ bdb'.status = "noResponse"
    BY <1>1 DEF IdentifyQueryTimeout, OnlyPosts
  <2> QED BY ONLY <2>1, <1>a, LeavingIsLast DEF LeavingIsLast
<1>2. CASE SimpleDescReqTimeout
  <2>1. /\ stack' = stack /\ bdb'.state = bdb.state /\ bdb'.status = bdb.status
        /\ bdb'.commissioningStatus = bdb.commissioningStatus /\ Post("send")
    BY <1>2 DEF SimpleDescReqTimeout, OnlyPosts
  <2> QED BY ONLY <2>1, <1>a, LeavingIsLast DEF LeavingIsLast
<1>3. CASE IdentifyTimeout
  <2>1. /\ stack' = stack /\ bdb'.state = bdb.state /\ bdb'.status = "success"
        /\ bdb'.commissioningStatus = bdb.commissioningStatus /\ Post("findDone")
    BY <1>3 DEF IdentifyTimeout, OnlyPosts
  <2> QED BY ONLY <2>1, <1>a, LeavingIsLast DEF LeavingIsLast
<1>4. CASE TaskDelay
  <2>1. stack' = stack /\ bdb' = bdb /\ (Post("tclk") \/ Post("permit"))
    BY <1>4 DEF TaskDelay
  <2> QED BY ONLY <2>1, <1>a, LeavingIsLast DEF LeavingIsLast
<1>5. CASE RetrieveTcLinkKeyStart
  BY <1>5, QuietLeaving DEF RetrieveTcLinkKeyStart
<1>6. CASE RetrieveTcLinkKeyTimeout
  <2>1. tasks = <<>> /\ bdb'.state = bdb.state
        /\ bdb'.commissioningStatus = bdb.commissioningStatus
    BY <1>6 DEF RetrieveTcLinkKeyTimeout, KeyDone
  <2>2. ~Resuming(tasks) /\ ~Ending(tasks) /\ ~Saving(tasks)  BY <2>1, EmptySays
  <2>3. tasks' = tasks \/ (Post("steerDone") /\ bdb'.status = "tclkFailure")
    BY <1>6 DEF RetrieveTcLinkKeyTimeout, KeyDone, KeyDoneEvent
  <2> QED BY ONLY <2>1, <2>2, <2>3, <1>a, LeavingIsLast DEF LeavingIsLast
<1>7. CASE SteerTimer \/ FindTimer
  <2>1. /\ stack' = stack /\ bdb'.state = bdb.state /\ bdb'.status = bdb.status
        /\ \/ /\ tasks' = tasks
              /\ bdb'.commissioningStatus = bdb.commissioningStatus
           \/ Post("start") /\ bdb'.commissioningStatus = "inProgress"
    BY ZenonT(60), <1>7 DEF SteerTimer, FindTimer, TopLevel, Post
  <2> QED BY ONLY <2>1, <1>a, LeavingIsLast DEF LeavingIsLast
<1>8. CASE RejoinBackoff
  <2>1. stack'.net = "leaving" => stack.net = "leaving"
    BY <1>8 DEF RejoinBackoff, Request, StackStates
  <2> QED BY <1>8, <2>1, QuietLeaving DEF RejoinBackoff
<1>9. CASE NetSteerStartOff  BY <1>9, QuietLeaving DEF NetSteerStartOff
<1> QED BY <1>1, <1>2, <1>3, <1>4, <1>5, <1>6, <1>7, <1>8, <1>9 DEF Timeouts

LEMMA WillTryTimeouts ==
  ASSUME TypeOK, GoesOn, WillTry, Timeouts
  PROVE  WillTry'
<1> USE DEF TypeOK, BdbStates
<1>0. /\ tasks \in Seq(Tasks)
      /\ {"send", "findDone", "tclk", "permit", "steerDone", "start"} \subseteq Tasks
  BY DEF Tasks, Events
<1>a. \A t \in {"send", "findDone", "tclk", "permit", "steerDone", "start"} :
        Post(t) => /\ Coming(tasks') <=> t = "start" \/ Coming(tasks)
                   /\ Saving(tasks') <=> Saving(tasks)
  BY <1>0, AppendSays DEF Post
<1>1. CASE IdentifyQueryTimeout \/ SimpleDescReqTimeout \/ IdentifyTimeout
  <2>1. /\ stack' = stack /\ timers' = timers /\ net_steer_start' = net_steer_start
        /\ bdb'.state = bdb.state
        /\ bdb'.commissioningStatus = bdb.commissioningStatus
        /\ Post("send") \/ Post("findDone")
    BY <1>1 DEF IdentifyQueryTimeout, SimpleDescReqTimeout, IdentifyTimeout, OnlyPosts
  <2>2. (Coming(tasks) => Coming(tasks')) /\ (Saving(tasks') => Saving(tasks))
    BY ONLY <2>1, <1>a
  <2> QED BY <2>1, <2>2, QuietWillTry
<1>2. CASE TaskDelay
  <2>1. /\ stack' = stack /\ bdb' = bdb /\ net_steer_start' = net_steer_start
        /\ "steer" \in timers => "steer" \in timers'
        /\ "rejoin" \in timers => "rejoin" \in timers'
        /\ Post("tclk") \/ Post("permit")
    BY <1>2 DEF TaskDelay, Expires
  <2>2. (Coming(tasks) => Coming(tasks')) /\ (Saving(tasks') => Saving(tasks))
    BY ONLY <2>1, <1>a
  <2> QED BY <2>1, <2>2, QuietWillTry
<1>3. CASE RetrieveTcLinkKeyStart
  BY <1>3, QuietWillTry DEF RetrieveTcLinkKeyStart
<1>4. CASE RetrieveTcLinkKeyTimeout
  <2>1. /\ tasks = <<>> /\ bdb'.state = bdb.state
        /\ bdb'.commissioningStatus = bdb.commissioningStatus
        /\ net_steer_start' = net_steer_start
        /\ "steer" \in timers => "steer" \in timers'
        /\ "rejoin" \in timers => "rejoin" \in timers'
    BY <1>4 DEF RetrieveTcLinkKeyTimeout, KeyDone
  <2>2. ~Coming(tasks) /\ ~Saving(tasks)  BY <2>1, EmptySays
  <2>3. CASE stack' = stack
    <3>1. tasks' = tasks \/ Post("steerDone")
      BY <1>4 DEF RetrieveTcLinkKeyTimeout, KeyDoneEvent
    <3>2. Saving(tasks') => Saving(tasks)  BY ONLY <3>1, <1>a
    <3> QED BY <2>1, <2>2, <2>3, <3>2, QuietWillTry
  <2>4. CASE stack' # stack
    <3>1. stack.joined /\ stack.net = "idle" /\ stack' = [stack EXCEPT !.net = "leaving"]
      BY <1>4, <2>4 DEF RetrieveTcLinkKeyTimeout, Request
    <3>2. stack'.joined  BY <3>1 DEF StackStates
    <3>3. ~(bdb.state = "idle" /\ bdb.commissioningStatus = "parentLost")
      BY <2>2, <3>1 DEF WillTry
    <3> QED BY ONLY <2>1, <3>2, <3>3 DEF WillTry
  <2> QED BY <2>3, <2>4
<1>5. CASE SteerTimer
  <2>1. /\ stack' = stack /\ net_steer_start' = net_steer_start
        /\ bdb'.state = bdb.state
        /\ "rejoin" \in timers => "rejoin" \in timers'
    BY <1>5 DEF SteerTimer, Expires, TopLevel
  <2>2. CASE Accepts
    <3>1. Post("start")  BY <1>5, <2>2 DEF SteerTimer, TopLevel, Post
    <3>2. Coming(tasks')  BY <1>a, <3>1
    <3> QED BY <3>2 DEF WillTry
  <2>3. CASE ~Accepts
    <3>1. /\ tasks' = tasks
          /\ bdb'.commissioningStatus = bdb.commissioningStatus
      BY <1>5, <2>3 DEF SteerTimer, TopLevel
    <3>2. bdb.state = "idle" /\ bdb.commissioningStatus # "inProgress"
            => stack.net # "idle"
      BY <2>3 DEF Accepts, IsIdle
    <3> QED BY ONLY WillTry, <2>1, <3>1, <3>2 DEF WillTry
  <2> QED BY <2>2, <2>3
<1>6. CASE FindTimer
  <2>1. /\ stack' = stack /\ net_steer_start' = net_steer_start
        /\ bdb'.state = bdb.state
        /\ "steer" \in timers => "steer" \in timers'
        /\ "rejoin" \in timers => "rejoin" \in timers'
    BY <1>6 DEF FindTimer, TopLevel
  <2>2. CASE Accepts
    <3>1. Post("start")  BY <1>6, <2>2 DEF FindTimer, TopLevel, Post
    <3>2. Coming(tasks')  BY <1>a, <3>1
    <3> QED BY <3>2 DEF WillTry
  <2>3. CASE ~Accepts
    <3>1. /\ tasks' = tasks
          /\ bdb'.commissioningStatus = bdb.commissioningStatus
      BY <1>6, <2>3 DEF FindTimer, TopLevel
    <3> QED BY <2>1, <3>1, QuietWillTry
  <2> QED BY <2>2, <2>3
<1>7. CASE RejoinBackoff
  <2>0. /\ tasks = <<>> /\ tasks' = tasks /\ bdb' = bdb
        /\ net_steer_start' = net_steer_start
        /\ "steer" \in timers => "steer" \in timers'
    BY <1>7 DEF RejoinBackoff
  <2>1. ~Coming(tasks) /\ ~Saving(tasks)  BY <2>0, EmptySays
  <2>2. CASE stack.factoryNew
    <3>1. stack' = stack  BY <1>7, <2>2 DEF RejoinBackoff
    <3> QED BY ONLY WillTry, <2>0, <2>1, <2>2, <3>1 DEF WillTry
  <2>3. CASE ~stack.factoryNew
    <3>1. /\ timers' = timers /\ stack'.joined = stack.joined
          /\ stack'.net # "idle"
          /\ stack.net # "idle" => stack'.net = stack.net
      BY <1>7, <2>3 DEF RejoinBackoff, Request, StackStates
    <3> QED BY ONLY WillTry, <2>0, <2>1, <3>1 DEF WillTry
  <2> QED BY <2>2, <2>3
<1>8. CASE NetSteerStartOff
  <2>1. ~net_steer_start'  BY <1>8 DEF NetSteerStartOff
  <2> QED BY <1>8, <2>1, QuietWillTry DEF NetSteerStartOff, Expires
<1> QED BY <1>1, <1>2, <1>3, <1>4, <1>5, <1>6, <1>7, <1>8 DEF Timeouts

(* However a join ends, or when the parent is lost: an idle device will be  *)
(* told, and nothing is leaving.                                            *)
LEMMA WillTryCnf ==
  ASSUME TypeOK, WillTry, NEW r \in {"success", "rejoinFailure", "parentLost"},
         NEW s \in StackStates, s.net = "idle", StartDevCnf(r, s)
  PROVE  WillTry' /\ LeavingIsLast'
<1> USE DEF TypeOK, BdbStates
<1>1. stack'.net = "idle"  BY DEF StartDevCnf
<1>2. LeavingIsLast'  BY <1>1 DEF LeavingIsLast
<1>3. CASE bdb.state = "idle"
  <2>1. Post("rejoinDone") \/ tasks' = tasks \o <<"infoSave", "rejoinDone">>
    BY <1>3 DEF StartDevCnf, Post
  <2>2. CASE Post("rejoinDone")
    <3>1. "rejoinDone" \in Tasks  BY DEF Tasks, Events
    <3> QED BY <1>2, <2>2, <3>1, AppendSays DEF Post, WillTry
  <2>3. CASE tasks' = tasks \o <<"infoSave", "rejoinDone">>
    <3>1. Coming(tasks')  BY <2>3, BothSay
    <3> QED BY <1>2, <3>1 DEF WillTry
  <2> QED BY <2>1, <2>2, <2>3
<1>4. CASE bdb.state # "idle"
  <2>1. bdb'.state # "idle"  BY <1>4 DEF StartDevCnf
  <2> QED BY <1>2, <2>1 DEF WillTry
<1> QED BY <1>3, <1>4

LEMMA WillTryEnvironment ==
  ASSUME TypeOK, GoesOn, OnlyMembersLeave, LeavingIsLast, WillTry, Environment
  PROVE  LeavingIsLast' /\ WillTry'
<1> USE DEF TypeOK, BdbStates
<1>0. tasks \in Seq(Tasks) /\ {"send", "findDone", "permit"} \subseteq Tasks
  BY DEF Tasks, Events
<1>a. \A t \in {"send", "findDone", "permit"} :
        Post(t) => /\ Coming(tasks') <=> Coming(tasks)
                   /\ Resuming(tasks') <=> Resuming(tasks)
                   /\ Ending(tasks') <=> t = "findDone" \/ Ending(tasks)
                   /\ Saving(tasks') <=> Saving(tasks)
  BY <1>0, AppendSays DEF Post
(* An answer: the stack and what is told stay, at most a task is added.     *)
<1>q. ASSUME /\ stack' = stack /\ timers' \subseteq timers
             /\ net_steer_start' = net_steer_start
             /\ "steer" \in timers => "steer" \in timers'
             /\ "rejoin" \in timers => "rejoin" \in timers'
             /\ bdb'.state = bdb.state
             /\ bdb'.commissioningStatus = bdb.commissioningStatus
             /\ \/ tasks' = tasks /\ bdb'.status = bdb.status
                \/ Post("send") /\ bdb'.status = bdb.status
                \/ Post("findDone") /\ bdb'.status = "tableFull"
                \/ Post("permit") /\ bdb'.status \in {"success", bdb.status}
      PROVE  LeavingIsLast' /\ WillTry'
  <2>1. /\ Coming(tasks') <=> Coming(tasks)
        /\ Resuming(tasks') <=> Resuming(tasks)
        /\ bdb'.status = "tableFull" \/ (Ending(tasks') <=> Ending(tasks))
        /\ Saving(tasks') <=> Saving(tasks)
        /\ bdb'.status \in {bdb.status, "success", "tableFull"}
    BY ONLY <1>q, <1>a
  <2>2. LeavingIsLast'  BY ONLY <1>q, <2>1, LeavingIsLast DEF LeavingIsLast
  <2>3. WillTry'  BY <1>q, <2>1, QuietWillTry
  <2> QED BY <2>2, <2>3
<1>1. CASE JoinEnds
  <2>1. PICK ok \in BOOLEAN :
          StartDevCnf(IF ok THEN "success" ELSE "rejoinFailure",
                      [stack EXCEPT !.net = "idle", !.joined = ok])
    BY <1>1 DEF JoinEnds
  <2>2. /\ [stack EXCEPT !.net = "idle", !.joined = ok] \in StackStates
        /\ [stack EXCEPT !.net = "idle", !.joined = ok].net = "idle"
    BY DEF StackStates
  <2>3. CASE ok  BY ONLY TypeOK, WillTry, <2>1, <2>2, <2>3, WillTryCnf
  <2>4. CASE ~ok  BY ONLY TypeOK, WillTry, <2>1, <2>2, <2>4, WillTryCnf
  <2> QED BY <2>3, <2>4
<1>2. CASE ParentLost
  <2>1. /\ [stack EXCEPT !.joined = FALSE] \in StackStates
        /\ [stack EXCEPT !.joined = FALSE].net = "idle"
    BY <1>2 DEF ParentLost, StackStates
  <2>2. StartDevCnf("parentLost", [stack EXCEPT !.joined = FALSE])
    BY <1>2 DEF ParentLost
  <2> QED BY ONLY TypeOK, WillTry, <2>1, <2>2, WillTryCnf
<1>3. CASE LeaveEnds
  <2>1. /\ stack.net = "leaving" /\ stack'.net = "idle" /\ stack'.factoryNew
        /\ "steer" \in timers' /\ bdb' = bdb /\ tasks' = tasks
    BY <1>3 DEF LeaveEnds
  <2>2. LeavingIsLast'  BY <2>1 DEF LeavingIsLast
  <2>3. WillTry'  BY ONLY <2>1, LeavingIsLast, WillTry DEF LeavingIsLast, WillTry
  <2> QED BY <2>2, <2>3
<1>12. CASE LeaveFails
  <2>1. /\ stack.net = "leaving" /\ stack'.net = "idle" /\ bdb' = bdb /\ tasks' = tasks
        /\ stack'.joined = stack.joined
    BY <1>12 DEF LeaveFails, StackStates
  <2>3. stack.joined  BY <2>1 DEF OnlyMembersLeave
  <2>2. LeavingIsLast'  BY <2>1 DEF LeavingIsLast
  <2> QED BY ONLY <2>1, <2>2, <2>3, LeavingIsLast, WillTry, <1>12
          DEF LeavingIsLast, WillTry, LeaveFails
<1>4. CASE IdentifyQueryResp  BY <1>q, <1>4 DEF IdentifyQueryResp
<1>5. CASE SimpleDescResp  BY <1>q, <1>5 DEF SimpleDescResp, Binding, Cancelled
<1>6. CASE SimpleDescRespFails  BY <1>q, <1>6 DEF SimpleDescRespFails
<1>7. CASE IeeeAddrResp  BY <1>q, <1>7 DEF IeeeAddrResp, Binding
<1>8. CASE NodeDescResp  BY <1>q, <1>8 DEF NodeDescResp, KeyDone, KeyDoneEvent
<1>9. CASE KeyResp  BY <1>q, <1>9 DEF KeyResp, KeyDone, KeyDoneEvent
<1>10. CASE AnswerLost  BY <1>q, <1>10 DEF AnswerLost
<1>11. CASE FindBindStart
  <2>1. /\ stack' = stack /\ bdb' = bdb /\ tasks' = tasks
        /\ net_steer_start' = net_steer_start /\ timers \subseteq timers'
    BY <1>11 DEF FindBindStart
  <2> QED BY <2>1, QuietWillTry, QuietLeaving
<1> QED BY <1>1, <1>2, <1>3, <1>4, <1>5, <1>6, <1>7, <1>8, <1>9, <1>10, <1>11, <1>12
        DEF Environment

LEMMA MembersNext ==
  ASSUME TypeOK, OnlyMembersLeave, [Next]_vars
  PROVE  OnlyMembersLeave'
<1> USE DEF OnlyMembersLeave, TypeOK, StackStates, Asking
<1>s. stack' = stack => OnlyMembersLeave'  OBVIOUS
<1>r. \A what \in {"joining", "rejoining"} :
        stack' = Request(stack, what) => OnlyMembersLeave'
  BY DEF Request
<1>c. ASSUME NEW st, CommissioningCb(st) PROVE OnlyMembersLeave'
  BY ONLY <1>c, <1>s, <1>r DEF CommissioningCb
<1>1. CASE RunTask
  <2>1. CASE InitDone \/ RetrieveKey \/ PermitJoin \/ SimpleDescReq \/ Dropped
             \/ SimpleDescReqSend \/ StartFinding
    BY ONLY <1>s, <2>1
       DEF InitDone, RetrieveKey, PermitJoin, SimpleDescReq, Dropped,
           SimpleDescReqSend, StartFinding
  <2>2. CASE StartSteering  BY ONLY <1>s, <1>r, <2>2 DEF StartSteering
  <2>3. CASE StartNothing \/ RejoinDone \/ FindDone
    BY ONLY <1>c, <2>3 DEF StartNothing, RejoinDone, FindDone
  <2>4. CASE SteerDone  BY ONLY <1>s, <1>c, <2>4 DEF SteerDone
  <2>5. CASE MgmtPermitJoiningConfirm \/ CommissioningInfoSave
    BY <2>5 DEF MgmtPermitJoiningConfirm, CommissioningInfoSave
  <2> QED BY ONLY <1>1, <2>1, <2>2, <2>3, <2>4, <2>5 DEF RunTask
<1>2. CASE Timeouts
  <2>1. CASE IdentifyQueryTimeout \/ SimpleDescReqTimeout \/ IdentifyTimeout
             \/ TaskDelay \/ RetrieveTcLinkKeyStart \/ SteerTimer \/ FindTimer
             \/ NetSteerStartOff
    BY ONLY <1>s, <2>1
       DEF IdentifyQueryTimeout, SimpleDescReqTimeout, IdentifyTimeout, OnlyPosts,
           TaskDelay, RetrieveTcLinkKeyStart, SteerTimer, FindTimer, NetSteerStartOff
  <2>2. CASE RejoinBackoff  BY ONLY <1>s, <1>r, <2>2 DEF RejoinBackoff
  <2>3. CASE RetrieveTcLinkKeyTimeout
    BY <1>s, <2>3 DEF RetrieveTcLinkKeyTimeout, Request
  <2> QED BY ONLY <1>2, <2>1, <2>2, <2>3 DEF Timeouts
<1>3. CASE Environment
  <2>1. CASE IdentifyQueryResp \/ SimpleDescResp \/ SimpleDescRespFails
             \/ IeeeAddrResp \/ NodeDescResp \/ KeyResp \/ AnswerLost
             \/ FindBindStart
    BY ONLY <1>s, <2>1
       DEF IdentifyQueryResp, SimpleDescResp, SimpleDescRespFails, IeeeAddrResp,
           NodeDescResp, KeyResp, AnswerLost, FindBindStart
  <2>2. CASE JoinEnds \/ ParentLost
    <3>1. CASE JoinEnds
      <4>1. \E b \in BOOLEAN : stack' = [stack EXCEPT !.net = "idle", !.joined = b]
        BY ONLY <3>1 DEF JoinEnds, StartDevCnf
      <4> QED BY <4>1
    <3>2. CASE ParentLost
      <4>1. stack' = [stack EXCEPT !.joined = FALSE] /\ stack.net = "idle"
        BY ONLY <3>2 DEF ParentLost, StartDevCnf
      <4> QED BY <4>1
    <3> QED BY <2>2, <3>1, <3>2
  <2>3. CASE LeaveEnds \/ LeaveFails
    BY <2>3 DEF LeaveEnds, LeaveFails
  <2> QED BY ONLY <1>3, <2>1, <2>2, <2>3 DEF Environment
<1> QED BY <1>1, <1>2, <1>3 DEF Next, vars

(* A device at rest without a network has the timer set that lets it steer  *)
(* or rejoin again, however its last attempt ended, unless that was a find  *)
(* and bind; and a lost parent never is the last result.                    *)
THEOREM TriesAgain == Spec => []NetworkIsRetried
<1>0. Init => OnlyMembersLeave  BY DEF Init, OnlyMembersLeave, FactoryNew, Known
<1>1. Init => Starting /\ LeavingIsLast /\ WillTry
  <2> SUFFICES ASSUME Init PROVE Starting /\ LeavingIsLast /\ WillTry  OBVIOUS
  <2>1. /\ bdb.state = "init" /\ bdb.commissioningStatus = "success" /\ bdb.initOk
        /\ stack \in {FactoryNew, Known}
    BY DEF Init
  <2>2. LeavingIsLast /\ WillTry  BY <2>1 DEF LeavingIsLast, WillTry, FactoryNew, Known
  <2>3. ASSUME net_steer_start
        PROVE  /\ ~bdb.onNetwork /\ ~stack.joined /\ stack.net = "idle"
               /\ tasks = <<"initDone">> /\ timers \subseteq {"window", "find"}
    <3>1. net_steer_start = stack.factoryNew  BY Zenon DEF Init
    <3>2. stack.factoryNew  BY Zenon, <2>3, <3>1
    <3>3. stack = FactoryNew  BY <2>1, <3>2 DEF FactoryNew, Known
    <3>4. ~bdb.onNetwork  BY <3>2 DEF Init
    <3>5. timers = {"window"} /\ tasks = <<"initDone">>  BY <3>2 DEF Init
    <3> QED BY <3>3, <3>4, <3>5 DEF FactoryNew
  <2> QED BY <2>1, <2>2, <2>3 DEF Starting
<1>2. TypeOK /\ FindIsTidy /\ GoesOn /\ OnlyMembersLeave /\ Starting
        /\ LeavingIsLast /\ WillTry /\ [Next]_vars
        => Starting' /\ LeavingIsLast' /\ WillTry'
  <2> SUFFICES ASSUME TypeOK, FindIsTidy, GoesOn, OnlyMembersLeave, Starting,
                      LeavingIsLast, WillTry, [Next]_vars
               PROVE  Starting' /\ LeavingIsLast' /\ WillTry'
    OBVIOUS
  <2>1. Starting'  BY StartingNext
  <2>2. CASE RunTask  BY <2>1, <2>2, LeavingRun, WillTryRun
  <2>3. CASE Timeouts  BY <2>1, <2>3, LeavingTimeouts, WillTryTimeouts
  <2>4. CASE Environment  BY <2>1, <2>4, WillTryEnvironment
  <2>5. CASE UNCHANGED vars
    <3>1. bdb' = bdb /\ stack' = stack /\ tasks' = tasks /\ timers' = timers
          /\ net_steer_start' = net_steer_start
      BY <2>5 DEF vars
    <3> QED BY <2>1, <3>1, QuietLeaving, QuietWillTry
  <2> QED BY <2>2, <2>3, <2>4, <2>5 DEF Next
<1>3. TypeOK /\ WillTry => NetworkIsRetried
  <2> SUFFICES ASSUME TypeOK, WillTry, ~stack.joined, stack.net = "idle", IsIdle, tasks = <<>>
               PROVE  /\ net_steer_start
                           /\ bdb.commissioningStatus \in {"success", "noNetwork", "tclkFailure"}
                         => "steer" \in timers
                      /\ bdb.commissioningStatus = "rejoinFailure"
                         => "rejoin" \in timers \/ stack.factoryNew
                      /\ bdb.commissioningStatus # "parentLost"
    BY DEF NetworkIsRetried
  <2>1. ~Coming(tasks)  BY EmptySays
  <2> QED BY <2>1 DEF WillTry, IsIdle
<1>4. Init => GoesOn  BY GoesOnInit
<1> QED BY <1>0, <1>1, <1>2, <1>3, <1>4, TypeCorrect, FindTidy, GoesOnNext,
           MembersNext, PTL DEF Spec
=============================================================================
