---------------------------- MODULE Commissioning ----------------------------
(***************************************************************************)
(* Commissioning of the remote (src/src/zigbee/bdb/bdb.c with the          *)
(* application's callbacks in zb_appCb.c and app_findbind.c): the state    *)
(* machine that joins a network (steering, with the exchange of the trust  *)
(* centre's link key), rejoins it, and finds and binds lamps.              *)
(*                                                                         *)
(* The machine is driven from four sides: its own events, which pass       *)
(* through the FIFO of scheduled tasks; its timers and the application's;  *)
(* the confirmations of the stack; the answers of other devices, which may *)
(* be late or, for the kinds in Lossy, never come.  Which lamp is bound to *)
(* which endpoint is left out; how many are waiting is kept.               *)
(*                                                                         *)
(* The model begins with bdb_init: after a factory reset (the device is    *)
(* factory new and steers for 1.5 minutes) or on a known network.          *)
(* Touchlink is switched off in app_cfg.h and nothing starts a formation.  *)
(***************************************************************************)
EXTENDS Naturals, Sequences

CONSTANTS
  FIND_BIND_QUEUE_SIZE,  \* slots of the ring of devices found; one stays free
  ATTEMPTS_MAX,          \* tcLinkKeyExchangeAttemptsMax
  Lossy,                 \* the answers that may fail or never come, and the leave
  MaxFinds,              \* bound: find and bind gestures
  MaxHeard,              \* bound: answers to the identify query
  MaxLosses              \* bound: times the parent is lost

Answers == {"simpleDesc", "ieeeAddr", "nodeDesc", "key"}
MayFail == Answers \cup {"leave"}

ASSUME CommissioningConstantsOK ==
  /\ FIND_BIND_QUEUE_SIZE \in Nat \ {0}
  /\ ATTEMPTS_MAX \in Nat
  /\ Lossy \subseteq MayFail
  /\ MaxFinds \in Nat /\ MaxHeard \in Nat /\ MaxLosses \in Nat

VARIABLES
  bdb,              \* g_bdbCtx and g_bdbAttrs
  tasks,            \* the scheduled tasks, first to run first
  timers,           \* the running timers other than the one of bdb
  net_steer_start,  \* the application steers until this is cleared
  stack,            \* what the Zigbee stack does and knows
  descs,            \* simple descriptor requests not yet answered
  awaited,          \* the other requests not yet answered
  count             \* bounds: gestures, answers and losses so far

vars == <<bdb, tasks, timers, net_steer_start, stack, descs, awaited, count>>

Statuses == {"success", "inProgress", "noNetwork", "tclkFailure", "noResponse",
             "tableFull", "parentLost", "rejoinFailure"}

\* The events of bdb_task, and the three other functions that are scheduled.
Events == {"initDone", "start", "tclk", "permit", "steerDone", "descReq",
           "findDone", "rejoinDone"}
Tasks == Events \cup {"send", "permitConfirm", "infoSave"}

\* identifyTimer and retrieveTcLkKeyTimer are one handle, a union: three
\* callbacks of find and bind share it with the exchange of the link key.
FindTimers == {"query", "desc", "identify"}
IdentifyTimers == FindTimers \cup {"none", "retrieve"}

Timers == {"delayTclk", "delayPermit", "tcStart", "steer", "find", "rejoin",
           "window"}

\* robbed is no variable of the code: it notes that the attempt under way was
\* refused its timer, or lost it, over the shared handle.  No action reads it.
BdbStates ==
  [state : {"init", "idle", "steer", "find"},
   commissioningStatus : Statuses, status : Statuses,
   networkSteer : BOOLEAN, findOrBind : BOOLEAN,
   role : {"initiator", "target"},
   onNetwork : BOOLEAN, initOk : BOOLEAN,
   identifyTimer : IdentifyTimers,
   queue : 0..(FIND_BIND_QUEUE_SIZE - 1),
   match : BOOLEAN,
   attempts : 0..(ATTEMPTS_MAX + 1), leaveDoing : BOOLEAN,
   robbed : BOOLEAN]

StackStates ==
  [net : {"idle", "joining", "rejoining", "leaving"}, joined : BOOLEAN,
   factoryNew : BOOLEAN]

Counts == [finds : 0..MaxFinds, heard : 0..MaxHeard, losses : 0..MaxLosses]

-----------------------------------------------------------------------------
(* Requests to the stack: it does one thing at a time.                      *)

Request(s, what) == IF s.net = "idle" THEN [s EXCEPT !.net = what] ELSE s

(* bdb_isIdle: only then does app_task report and sleep.                    *)
IsIdle == bdb.state = "idle" /\ bdb.commissioningStatus # "inProgress"

(* Mutant of CommissioningCb: a failed key exchange does not steer again.   *)
CommissioningCbForgetsKey(st) ==
  /\ net_steer_start' = (net_steer_start /\ st # "success")
  /\ timers' =
       CASE st = "success" -> timers \ {"steer", "rejoin"}
         [] st = "noNetwork" /\ net_steer_start -> timers \cup {"steer"}
         [] st = "rejoinFailure" -> timers \cup {"rejoin"}
         [] OTHER -> timers
  /\ stack' = IF st = "parentLost" \/ (st = "success" /\ ~stack.joined)
                THEN Request(stack, "rejoining") ELSE stack

(* zb_bdbCommissioningCb: what the application does with a result.          *)
CommissioningCb(st) ==
  /\ net_steer_start' = (net_steer_start /\ st # "success")
  /\ timers' =
       CASE st = "success" -> timers \ {"steer", "rejoin"}
         [] st \in {"noNetwork", "tclkFailure"} /\ net_steer_start
              -> timers \cup {"steer"}
         [] st = "rejoinFailure" -> timers \cup {"rejoin"}
         [] OTHER -> timers
  /\ stack' = IF st = "parentLost" \/ (st = "success" /\ ~stack.joined)
                THEN Request(stack, "rejoining") ELSE stack

(* Mutant of Confirmed: the timer runs on.                                  *)
ConfirmedKeepsTimer(b) ==
  [b EXCEPT !.commissioningStatus = b.status, !.robbed = FALSE]

(* bdb_topLevelCommissiongConfirm: the result is kept, the timer under the  *)
(* shared handle is cancelled, whosever it is, and the application is told. *)
Confirmed(b) ==
  [b EXCEPT !.commissioningStatus = b.status, !.identifyTimer = "none",
            !.robbed = FALSE]

(* bdb_commissioningFindBind: the initiator listens for answers to its      *)
(* identify query, the target identifies itself.  While the key's timer has *)
(* the handle no timer is set.                                              *)
FindBindAllowed == bdb.findOrBind /\ bdb.onNetwork

FindBind(b) ==
  [b EXCEPT !.state = "find",
            !.identifyTimer = IF @ # "none" THEN @
                              ELSE IF b.role = "target" THEN "identify" ELSE "query",
            !.robbed = b.identifyTimer # "none"]

(* bdb_topLevelCommissioning: an attempt begins unless one is under way or  *)
(* the stack is busy.  The caller has set the mode before.                  *)
Accepts == IsIdle /\ stack.net = "idle"

TopLevel(b, r) ==
  IF Accepts
    THEN /\ bdb' = [b EXCEPT !.role = r, !.commissioningStatus = "inProgress",
                            !.robbed = FALSE]
         /\ tasks' = Append(tasks, "start")
    ELSE bdb' = b /\ UNCHANGED tasks

(* bdb_commissioningInfoSave.                                               *)
InfoSaved(b) == [b EXCEPT !.networkSteer = TRUE]

(* bdb_retrieveTcLinkKeyDone with bdb_retrieveTcLinkKeyTimerStop: whatever  *)
(* runs under the shared handle is cancelled, a find's timer too.           *)
KeyDone(b, ok) ==
  [b EXCEPT !.status = IF ok THEN "success" ELSE "tclkFailure", !.onNetwork = ok,
            !.identifyTimer = "none", !.robbed = @ \/ b.identifyTimer \in FindTimers]

KeyDoneEvent(ok) == IF ok THEN "permit" ELSE "steerDone"

-----------------------------------------------------------------------------
(* bdb_init, after a factory reset or on a known network.                   *)
FactoryNew ==
  [net |-> "idle", joined |-> FALSE, factoryNew |-> TRUE]
Known ==
  [net |-> "rejoining", joined |-> FALSE, factoryNew |-> FALSE]

Init ==
  /\ stack \in {FactoryNew, Known}
  /\ bdb = [state |-> "init", commissioningStatus |-> "success",
            status |-> "success", networkSteer |-> TRUE, findOrBind |-> FALSE,
            role |-> "initiator", onNetwork |-> ~stack.factoryNew,
            initOk |-> TRUE, identifyTimer |-> "none", queue |-> 0,
            match |-> FALSE, attempts |-> 0, leaveDoing |-> FALSE,
            robbed |-> FALSE]
  /\ net_steer_start = stack.factoryNew
  /\ tasks = IF stack.factoryNew THEN <<"initDone">> ELSE <<>>
  /\ timers = IF stack.factoryNew THEN {"window"} ELSE {}
  /\ descs = 0
  /\ awaited = {}
  /\ count = [finds |-> 0, heard |-> 0, losses |-> 0]

-----------------------------------------------------------------------------
(* The scheduled tasks.                                                     *)

Runs(task) == tasks # <<>> /\ Head(tasks) = task

Asking == <<descs, awaited, count>>

(* BDB_EVT_INIT_DONE with zb_bdbInitCb.  Whether there is something to save *)
(* (a new key, channel or parent) is the stack's.                           *)
InitDone ==
  /\ Runs("initDone") /\ bdb.state = "init"
  /\ bdb' = [bdb EXCEPT !.state = "idle"]
  /\ net_steer_start' = (net_steer_start /\ ~(bdb.initOk /\ bdb.onNetwork))
  /\ timers' = IF bdb.initOk
                 THEN IF ~bdb.onNetwork /\ net_steer_start
                        THEN timers \cup {"steer"} ELSE timers
                 ELSE IF bdb.onNetwork THEN timers \cup {"rejoin"} ELSE timers
  /\ \/ tasks' = Tail(tasks)
     \/ /\ bdb.initOk /\ bdb.onNetwork
        /\ tasks' = Append(Tail(tasks), "infoSave")
  /\ UNCHANGED <<stack, Asking>>

(* BDB_EVT_COMMISSIONING_START: steering, or with the bit not set finding,  *)
(* or nothing that can be done.                                             *)
StartSteering ==
  /\ Runs("start") /\ bdb.state = "idle" /\ bdb.networkSteer
  /\ bdb' = [bdb EXCEPT !.state = "steer"]
  /\ IF bdb.onNetwork
       THEN /\ tasks' = Append(Tail(tasks), "permitConfirm")
            /\ UNCHANGED stack
       ELSE /\ tasks' = Tail(tasks)
            /\ stack' = Request(stack, "joining")
  /\ UNCHANGED <<timers, net_steer_start, Asking>>

StartFinding ==
  /\ Runs("start") /\ bdb.state = "idle" /\ ~bdb.networkSteer
  /\ FindBindAllowed
  /\ bdb' = FindBind(bdb)
  /\ tasks' = Tail(tasks)
  /\ UNCHANGED <<timers, net_steer_start, stack, Asking>>

StartNothing ==
  /\ Runs("start") /\ bdb.state = "idle" /\ ~bdb.networkSteer
  /\ ~FindBindAllowed
  /\ bdb' = [bdb EXCEPT !.commissioningStatus = "noNetwork"]
  /\ CommissioningCb("noNetwork")
  /\ tasks' = Tail(tasks)
  /\ UNCHANGED Asking

RejoinDone ==
  /\ Runs("rejoinDone") /\ bdb.state = "idle"
  /\ bdb' = Confirmed(bdb)
  /\ CommissioningCb(bdb.status)
  /\ tasks' = Tail(tasks)
  /\ UNCHANGED Asking

(* The link key is asked for a second after joining.                        *)
RetrieveKey ==
  /\ Runs("tclk") /\ bdb.state = "steer"
  /\ timers' = timers \cup {"tcStart"}
  /\ tasks' = Tail(tasks)
  /\ UNCHANGED <<bdb, net_steer_start, stack, Asking>>

PermitJoin ==
  /\ Runs("permit") /\ bdb.state = "steer"
  /\ tasks' = Append(Tail(tasks), "permitConfirm")
  /\ UNCHANGED <<bdb, timers, net_steer_start, stack, Asking>>

(* BDB_EVT_COMMISSIONING_NETWORK_STEER_FINISH: finding, if the mode asks    *)
(* for it by now, or the end.                                               *)
SteerDone ==
  /\ Runs("steerDone") /\ bdb.state = "steer"
  /\ tasks' = Tail(tasks)
  /\ \/ /\ FindBindAllowed
        /\ bdb' = FindBind(bdb)
        /\ UNCHANGED <<timers, net_steer_start, stack>>
     \/ /\ ~FindBindAllowed
        /\ bdb' = [Confirmed(bdb) EXCEPT !.state = "idle"]
        /\ CommissioningCb(bdb.status)
  /\ UNCHANGED Asking

(* bdb_commissioningFindBindSimpleDescReq.                                  *)
SimpleDescReq ==
  /\ Runs("descReq") /\ bdb.state = "find"
  /\ descs' = IF bdb.role = "initiator" THEN descs + 1 ELSE descs
  /\ tasks' = Tail(tasks)
  /\ UNCHANGED <<bdb, timers, net_steer_start, stack, awaited, count>>

(* bdb_findBindRst and the end.                                             *)
FindDone ==
  /\ Runs("findDone") /\ bdb.state = "find"
  /\ bdb' = [Confirmed(bdb) EXCEPT !.state = "idle", !.queue = 0]
  /\ CommissioningCb(bdb.status)
  /\ tasks' = Tail(tasks)
  /\ UNCHANGED Asking

(* Which events bdb_task handles in which state; the others are dropped.    *)
Handled(e) ==
  CASE bdb.state = "init" -> e = "initDone"
    [] bdb.state = "idle" -> e \in {"start", "rejoinDone"}
    [] bdb.state = "steer" -> e \in {"tclk", "permit", "steerDone"}
    [] bdb.state = "find" -> e \in {"descReq", "findDone"}

Dropped ==
  /\ tasks # <<>> /\ Head(tasks) \in Events /\ ~Handled(Head(tasks))
  /\ bdb' = [bdb EXCEPT !.state = IF @ = "init" THEN "idle" ELSE @]
  /\ tasks' = Tail(tasks)
  /\ UNCHANGED <<timers, net_steer_start, stack, Asking>>

(* bdb_simpleDescReqSend: the next device found is asked, or all are done.  *)
SimpleDescReqSend ==
  /\ Runs("send")
  /\ \/ /\ bdb.queue > 0
        /\ bdb' = [bdb EXCEPT !.queue = @ - 1, !.identifyTimer = "desc",
                              !.robbed = FALSE]
        /\ tasks' = Append(Tail(tasks), "descReq")
     \/ /\ bdb.queue = 0
        /\ bdb' = [bdb EXCEPT !.status = "success"]
        /\ tasks' = Append(Tail(tasks), "findDone")
  /\ UNCHANGED <<timers, net_steer_start, stack, Asking>>

(* bdb_mgmtPermitJoiningConfirm.                                            *)
MgmtPermitJoiningConfirm ==
  /\ Runs("permitConfirm")
  /\ LET b == [bdb EXCEPT !.status = "success"]
     IN  bdb' = IF bdb.onNetwork THEN InfoSaved(b) ELSE b
  /\ tasks' = IF bdb.state = "steer" THEN Append(Tail(tasks), "steerDone")
                                     ELSE Tail(tasks)
  /\ stack' = [stack EXCEPT !.factoryNew = @ /\ ~bdb.onNetwork]
  /\ UNCHANGED <<timers, net_steer_start, Asking>>

CommissioningInfoSave ==
  /\ Runs("infoSave")
  /\ bdb' = InfoSaved(bdb)
  /\ stack' = [stack EXCEPT !.factoryNew = FALSE]
  /\ tasks' = Tail(tasks)
  /\ UNCHANGED <<timers, net_steer_start, Asking>>

RunTask ==
  \/ InitDone \/ StartSteering \/ StartFinding \/ StartNothing \/ RejoinDone
  \/ RetrieveKey \/ PermitJoin \/ SteerDone \/ SimpleDescReq \/ FindDone
  \/ Dropped \/ SimpleDescReqSend \/ MgmtPermitJoiningConfirm
  \/ CommissioningInfoSave

-----------------------------------------------------------------------------
(* The timers.                                                              *)

Post(t) == tasks' = Append(tasks, t)
OnlyPosts == UNCHANGED <<timers, net_steer_start, stack, Asking>>

(* bdb_findBindIdentifyQueryTimeout.                                        *)
IdentifyQueryTimeout ==
  /\ bdb.identifyTimer = "query"
  /\ \/ /\ bdb.queue = 0
        /\ bdb' = [bdb EXCEPT !.identifyTimer = "none", !.status = "noResponse"]
        /\ Post("findDone")
     \/ /\ bdb.queue > 0
        /\ bdb' = [bdb EXCEPT !.identifyTimer = "none"]
        /\ Post("send")
  /\ OnlyPosts

(* bdb_simpleDescReqTimeoutCb: the next device gets its turn.               *)
SimpleDescReqTimeout ==
  /\ bdb.identifyTimer = "desc"
  /\ bdb' = [bdb EXCEPT !.identifyTimer = "none"]
  /\ Post("send")
  /\ OnlyPosts

(* bdb_findBindIdentifyTimeout, when the identify time has run out.         *)
IdentifyTimeout ==
  /\ bdb.identifyTimer = "identify"
  /\ bdb' = [bdb EXCEPT !.identifyTimer = "none", !.status = "success"]
  /\ Post("findDone")
  /\ OnlyPosts

Expires(t) == t \in timers /\ timers' = timers \ {t}

(* bdb_task_delay: 200 ms after joining.                                    *)
TaskDelay ==
  /\ \/ Expires("delayTclk") /\ Post("tclk")
     \/ Expires("delayPermit") /\ Post("permit")
  /\ UNCHANGED <<bdb, net_steer_start, stack, Asking>>

(* bdb_retrieveTcLinkKeyStart, a second after it was asked for: no task     *)
(* waits that long.  Its timer is set unless the shared handle is in use.   *)
RetrieveTcLinkKeyStart ==
  /\ "tcStart" \in timers /\ tasks = <<>>
  /\ timers' = timers \ {"tcStart"}
  /\ bdb' = [bdb EXCEPT !.attempts = 0, !.leaveDoing = FALSE,
                        !.identifyTimer = IF @ = "none" THEN "retrieve" ELSE @]
  /\ awaited' = awaited \cup {"nodeDesc"}
  /\ UNCHANGED <<tasks, net_steer_start, stack, descs, count>>

(* Mutant of Tried: attempts are not counted.                               *)
TriedUncounted(n) == n

(* tcLinkKeyExchangeAttempts++; one above the maximum stands for the rest.  *)
Tried(n) == IF n > ATTEMPTS_MAX THEN n ELSE n + 1

(* bdb_retrieveTcLinkKeyTimeout, every 5 s: asks again; after the last      *)
(* attempt the device leaves and, once it has left, the exchange has failed.*)
RetrieveTcLinkKeyTimeout ==
  /\ bdb.identifyTimer = "retrieve" /\ tasks = <<>>
  /\ \/ /\ bdb.attempts < ATTEMPTS_MAX
        /\ bdb' = [bdb EXCEPT !.attempts = Tried(@)]
        /\ awaited' = awaited \cup {"nodeDesc"}
        /\ UNCHANGED <<tasks, stack>>
     \/ /\ bdb.attempts >= ATTEMPTS_MAX /\ ~stack.joined
        /\ bdb' = [KeyDone(bdb, FALSE) EXCEPT !.attempts = 0]
        /\ Post(KeyDoneEvent(FALSE))
        /\ UNCHANGED <<awaited, stack>>
     \/ /\ bdb.attempts >= ATTEMPTS_MAX /\ stack.joined
        /\ stack' = IF bdb.leaveDoing THEN stack ELSE Request(stack, "leaving")
        /\ bdb' = [bdb EXCEPT !.attempts = Tried(@),
                              !.leaveDoing = @ \/ stack.net = "idle"]
        /\ UNCHANGED <<tasks, awaited>>
  /\ UNCHANGED <<timers, net_steer_start, descs, count>>

(* app_bdbNetworkSteerStart: the answer BUSY is not looked at.  The mode is *)
(* set before it is known whether the attempt is accepted.                  *)
SteerTimer ==
  /\ Expires("steer")
  /\ TopLevel([bdb EXCEPT !.networkSteer = TRUE, !.findOrBind = FALSE], "target")
  /\ UNCHANGED <<net_steer_start, stack, Asking>>

(* app_bdbFindAndBindStart: tried again every 2.5 s until it is accepted.   *)
FindTimer ==
  /\ "find" \in timers
  /\ timers' = IF Accepts THEN timers \ {"find"} ELSE timers
  /\ TopLevel([bdb EXCEPT !.networkSteer = FALSE, !.findOrBind = TRUE], "initiator")
  /\ UNCHANGED <<net_steer_start, stack, Asking>>

(* app_rejoinBackoff, once a minute: no task waits that long.               *)
RejoinBackoff ==
  /\ "rejoin" \in timers
  /\ tasks = <<>>
  /\ \/ /\ stack.factoryNew
        /\ timers' = timers \ {"rejoin"}
        /\ UNCHANGED stack
     \/ /\ ~stack.factoryNew
        /\ stack' = Request(stack, "rejoining")
        /\ UNCHANGED timers
  /\ UNCHANGED <<bdb, tasks, net_steer_start, Asking>>

(* net_steer_start_offCb.                                                   *)
NetSteerStartOff ==
  /\ Expires("window")
  /\ net_steer_start' = FALSE
  /\ UNCHANGED <<bdb, tasks, stack, Asking>>

-----------------------------------------------------------------------------
(* The stack's confirmations.                                               *)

(* bdb_zdoStartDevCnf: how a join or rejoin ended, or that the parent is    *)
(* lost.  s is the stack afterwards.                                        *)
StartDevCnf(result, s) ==
  /\ stack' = s
  /\ LET ok == result = "success"
     IN  CASE bdb.state = "idle" ->
                /\ bdb' = [bdb EXCEPT !.onNetwork = @ \/ ok, !.status = result]
                /\ \/ tasks' = Append(tasks, "rejoinDone")
                   \/ /\ ok
                      /\ tasks' = tasks \o <<"infoSave", "rejoinDone">>
                /\ UNCHANGED timers
           [] bdb.state = "init" ->
                /\ bdb' = [bdb EXCEPT !.initOk = ok]
                /\ Post("initDone")
                /\ UNCHANGED timers
           [] bdb.state = "steer" /\ ok ->
                /\ bdb' = [bdb EXCEPT !.onNetwork = TRUE, !.status = "success"]
                /\ \E t \in {"delayTclk", "delayPermit"} : timers' = timers \cup {t}
                /\ UNCHANGED tasks
           [] bdb.state = "steer" /\ ~ok ->
                /\ bdb' = [bdb EXCEPT !.status = "noNetwork"]
                /\ Post("steerDone")
                /\ UNCHANGED timers
           [] bdb.state = "find" -> UNCHANGED <<bdb, tasks, timers>>
  /\ UNCHANGED <<net_steer_start, descs, awaited>>

(* A device on a network that rejoins and fails has lost its parent too.    *)
Lost == count.losses < MaxLosses /\ count' = [count EXCEPT !.losses = @ + 1]

JoinEnds ==
  /\ stack.net \in {"joining", "rejoining"}
  /\ \/ /\ StartDevCnf("success", [stack EXCEPT !.net = "idle", !.joined = TRUE])
        /\ UNCHANGED count
     \/ /\ StartDevCnf("rejoinFailure",
                       [stack EXCEPT !.net = "idle", !.joined = FALSE])
        /\ IF stack.joined THEN Lost ELSE UNCHANGED count

ParentLost ==
  /\ stack.joined /\ stack.net = "idle"
  /\ Lost
  /\ StartDevCnf("parentLost", [stack EXCEPT !.joined = FALSE])

(* app_leaveCnfHandler, which does nothing when the leave has failed.  The  *)
(* trust centre of a network that was left no longer answers.               *)
LeaveFails ==
  /\ "leave" \in Lossy
  /\ stack.net = "leaving"
  /\ stack' = [stack EXCEPT !.net = "idle"]
  /\ UNCHANGED <<bdb, tasks, timers, net_steer_start, descs, awaited, count>>

LeaveEnds ==
  /\ stack.net = "leaving"
  /\ stack' = [net |-> "idle", joined |-> FALSE, factoryNew |-> TRUE]
  /\ timers' = (timers \ {"rejoin"}) \cup {"steer"}
  /\ awaited' = awaited \ {"nodeDesc", "key"}
  /\ UNCHANGED <<bdb, tasks, net_steer_start, descs, count>>

-----------------------------------------------------------------------------
(* Answers of other devices, which reach only a device on a network, and    *)
(* the user.                                                                *)

(* Mutant of Pushed: the ring is full one device later.                     *)
PushedOneMore(n) == IF n < FIND_BIND_QUEUE_SIZE THEN n + 1 ELSE n

(* app_zclIdentifyQueryRspCmdHandler and bdb_addIdentifyActiveEpForFB: a    *)
(* device is put in the ring unless that is full.                           *)
Pushed(n) == IF n + 1 < FIND_BIND_QUEUE_SIZE THEN n + 1 ELSE n

IdentifyQueryResp ==
  /\ stack.joined
  /\ count.heard < MaxHeard
  /\ bdb.state = "find" /\ bdb.role = "initiator"
  /\ bdb' = [bdb EXCEPT !.queue = Pushed(@)]
  /\ count' = [count EXCEPT !.heard = @ + 1]
  /\ UNCHANGED <<tasks, timers, net_steer_start, stack, descs, awaited>>

(* bdb_binding: the list of clusters is given back; then the next device,   *)
(* unless the binding table is full.                                        *)
Binding(b) ==
  \/ /\ bdb' = [b EXCEPT !.match = FALSE]
     /\ Post("send")
  \/ /\ bdb' = [b EXCEPT !.match = FALSE, !.status = "tableFull"]
     /\ Post("findDone")

(* The timer under the shared handle is cancelled: when it is the key's,    *)
(* the steering under way loses it.                                         *)
Cancelled(b) ==
  [b EXCEPT !.identifyTimer = "none",
            !.robbed = @ \/ (b.state = "steer" /\ b.identifyTimer = "retrieve")]

(* Mutant of SimpleDescResp: without a matching cluster nobody gets a turn. *)
SimpleDescRespForgets ==
  /\ stack.joined /\ descs > 0
  /\ descs' = descs - 1
  /\ LET b == Cancelled(bdb)
     IN  \/ bdb.match /\ UNCHANGED <<bdb, tasks, awaited>>
         \/ ~bdb.match /\ bdb' = b /\ UNCHANGED <<tasks, awaited>>
         \/ ~bdb.match /\ Binding(b) /\ UNCHANGED awaited
         \/ /\ ~bdb.match
            /\ bdb' = [b EXCEPT !.match = TRUE]
            /\ awaited' = awaited \cup {"ieeeAddr"}
            /\ UNCHANGED tasks
  /\ UNCHANGED <<timers, net_steer_start, stack, count>>

(* bdb_SimpleDescResp: nothing while another device waits to be bound;      *)
(* without a matching cluster the next device; else the binding, for which  *)
(* the long address may have to be asked for.                               *)
SimpleDescResp ==
  /\ stack.joined /\ descs > 0
  /\ descs' = descs - 1
  /\ LET b == Cancelled(bdb)
     IN  \/ bdb.match /\ UNCHANGED <<bdb, tasks, awaited>>
         \/ ~bdb.match /\ bdb' = b /\ Post("send") /\ UNCHANGED awaited
         \/ ~bdb.match /\ Binding(b) /\ UNCHANGED awaited
         \/ /\ ~bdb.match
            /\ bdb' = [b EXCEPT !.match = TRUE]
            /\ awaited' = awaited \cup {"ieeeAddr"}
            /\ UNCHANGED tasks
  /\ UNCHANGED <<timers, net_steer_start, stack, count>>

(* The same with a status other than success.                               *)
SimpleDescRespFails ==
  /\ "simpleDesc" \in Lossy
  /\ stack.joined /\ descs > 0
  /\ descs' = descs - 1
  /\ Post("send")
  /\ UNCHANGED <<bdb, timers, net_steer_start, stack, awaited, count>>

Answered(a) == stack.joined /\ a \in awaited /\ awaited' = awaited \ {a}

(* bdb_ieeeAddrResp; with a status other than success it does nothing,      *)
(* which is AnswerLost.                                                     *)
IeeeAddrResp ==
  /\ Answered("ieeeAddr")
  /\ Binding(bdb)
  /\ UNCHANGED <<timers, net_steer_start, stack, descs, count>>

(* bdb_nodeDescRespHandler: a trust centre of revision 21 is asked for the  *)
(* key, an older one has none.  With another status it does nothing.        *)
NodeDescResp ==
  /\ stack.joined /\ "nodeDesc" \in awaited
  /\ \/ /\ bdb' = [bdb EXCEPT !.onNetwork = FALSE]
        /\ awaited' = (awaited \ {"nodeDesc"}) \cup {"key"}
        /\ UNCHANGED tasks
     \/ /\ bdb' = KeyDone(bdb, TRUE)
        /\ Post(KeyDoneEvent(TRUE))
        /\ awaited' = awaited \ {"nodeDesc"}
  /\ UNCHANGED <<timers, net_steer_start, stack, descs, count>>

(* With a verified key the stack calls bdb_retrieveTcLinkKeyDone.           *)
KeyResp ==
  /\ Answered("key")
  /\ bdb' = KeyDone(bdb, TRUE)
  /\ Post(KeyDoneEvent(TRUE))
  /\ UNCHANGED <<timers, net_steer_start, stack, descs, count>>

AnswerLost ==
  /\ \/ "simpleDesc" \in Lossy /\ descs > 0 /\ descs' = descs - 1 /\ UNCHANGED awaited
     \/ /\ \E a \in Lossy \cap awaited : awaited' = awaited \ {a}
        /\ UNCHANGED descs
  /\ UNCHANGED <<bdb, tasks, timers, net_steer_start, stack, count>>

(* app_findBindStart.                                                       *)
FindBindStart ==
  /\ "find" \notin timers
  /\ count.finds < MaxFinds
  /\ count' = [count EXCEPT !.finds = @ + 1]
  /\ timers' = timers \cup {"find"}
  /\ UNCHANGED <<bdb, tasks, net_steer_start, stack, descs, awaited>>

Timeouts ==
  \/ IdentifyQueryTimeout \/ SimpleDescReqTimeout \/ IdentifyTimeout
  \/ TaskDelay \/ RetrieveTcLinkKeyStart \/ RetrieveTcLinkKeyTimeout
  \/ SteerTimer \/ FindTimer \/ RejoinBackoff \/ NetSteerStartOff

Environment ==
  \/ JoinEnds \/ ParentLost \/ LeaveEnds \/ LeaveFails
  \/ IdentifyQueryResp \/ SimpleDescResp \/ SimpleDescRespFails
  \/ IeeeAddrResp \/ NodeDescResp \/ KeyResp \/ AnswerLost
  \/ FindBindStart

Next == RunTask \/ Timeouts \/ Environment

Spec == Init /\ [][Next]_vars

(* The loop runs scheduled tasks and due timers; the stack ends what it     *)
(* began; an answer that is not in Lossy comes.  The user and the devices   *)
(* that could be found owe nothing.                                         *)
Fairness ==
  /\ WF_vars(RunTask)
  /\ WF_vars(IdentifyQueryTimeout) /\ WF_vars(SimpleDescReqTimeout)
  /\ WF_vars(IdentifyTimeout) /\ WF_vars(TaskDelay)
  /\ WF_vars(RetrieveTcLinkKeyStart) /\ WF_vars(RetrieveTcLinkKeyTimeout)
  /\ WF_vars(JoinEnds) /\ WF_vars(LeaveEnds \/ LeaveFails)
  /\ WF_vars(IeeeAddrResp)

FairSpec == Spec /\ Fairness

-----------------------------------------------------------------------------
TypeOK ==
  /\ bdb \in BdbStates
  /\ tasks \in Seq(Tasks)
  /\ timers \subseteq Timers
  /\ net_steer_start \in BOOLEAN
  /\ stack \in StackStates
  /\ descs \in Nat
  /\ awaited \subseteq Answers \ {"simpleDesc"}
  /\ count \in Counts

Scheduled(set) == \E k \in 1..Len(tasks) : tasks[k] \in set

(* An attempt that is under way can always go on: in each state there is a  *)
(* task, a timer, a job of the stack or an answer that will carry it        *)
(* further.  This is what keeps the remote from waiting for ever with       *)
(* bdb_isIdle false, neither reporting nor sleeping.  The one way it may    *)
(* come to stand still is over the handle that find and bind shares with    *)
(* the exchange of the link key: when that has robbed it of its timer.      *)
AttemptGoesOn ==
  /\ bdb.state = "init" => Scheduled({"initDone"}) \/ stack.net = "rejoining"
  /\ bdb.state = "idle" /\ bdb.commissioningStatus = "inProgress"
       => Scheduled({"start"})
  /\ bdb.state = "steer"
       => \/ Scheduled({"tclk", "permit", "permitConfirm", "steerDone"})
          \/ timers \cap {"delayTclk", "delayPermit", "tcStart"} # {}
          \/ bdb.identifyTimer = "retrieve"
          \/ stack.net # "idle"
          \/ bdb.robbed
  /\ bdb.state = "find"
       => \/ Scheduled({"send", "descReq", "findDone"})
          \/ bdb.identifyTimer \in FindTimers
          \/ bdb.match
          \/ bdb.robbed
  /\ bdb.match /\ "ieeeAddr" \notin Lossy => "ieeeAddr" \in awaited

(* Outside find and bind none of its timers runs under the shared handle    *)
(* and no device waits in the ring, however the attempt ended and whatever  *)
(* answers came late.                                                       *)
FindIsTidy ==
  bdb.state # "find" => bdb.identifyTimer \notin FindTimers /\ bdb.queue = 0

(* A device at rest without a network tries again, although a refused start *)
(* (BUSY) is not looked at: within the 1.5 minutes after a factory reset    *)
(* the steering timer is set when the last attempt found no network or the  *)
(* exchange of the key failed; after a failed rejoin its timer is set,      *)
(* unless the device has left; and a lost parent is never the last word.    *)
(* After a find and bind that ended without a lamp nothing is promised.     *)
NetworkIsRetried ==
  ~stack.joined /\ stack.net = "idle" /\ IsIdle /\ tasks = <<>>
    => /\ net_steer_start
            /\ bdb.commissioningStatus \in {"success", "noNetwork", "tclkFailure"}
          => "steer" \in timers
       /\ bdb.commissioningStatus = "rejoinFailure"
          => "rejoin" \in timers \/ stack.factoryNew
       /\ bdb.commissioningStatus # "parentLost"

(* The exchange of the key has given up, but the network was not left:      *)
(* leaveDoing keeps it from asking again.                                   *)
LeaveFailed ==
  /\ bdb.leaveDoing /\ bdb.identifyTimer = "retrieve"
  /\ stack.joined /\ stack.net = "idle"

(* Every attempt comes to an end, and with it the remote may report and     *)
(* sleep again, although lamps and the trust centre may never answer and    *)
(* the parent may be lost.  There are three exceptions, all in the code: a  *)
(* device off the network with the question for a long address open, which  *)
(* nothing times out; an attempt robbed of its timer over the shared        *)
(* handle; and a leave that failed, which is not asked for again.           *)
AttemptEnds ==
  ~IsIdle ~> \/ IsIdle
             \/ bdb.match /\ ~stack.joined
             \/ bdb.robbed
             \/ LeaveFailed

(* README.md:125: a remote whose keys are left alone falls asleep until the *)
(* next report, and again after it.  app_task does both when bdb_isIdle().  *)
(* An attempt robbed of its timer is left aside, so that the run shows the  *)
(* other way to stay awake: the question for a long address has no answer.  *)
FallsAsleep == []<>(IsIdle \/ bdb.robbed)
=============================================================================
