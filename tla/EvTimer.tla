-------------------------------- MODULE EvTimer --------------------------------
(***************************************************************************)
(* The software timers (ev_timer.c) and the way their clients use them.    *)
(* A fixed pool of timer events forms a linked list; once per turn of the  *)
(* main loop ev_timer_process counts the timeouts down and walks the list  *)
(* to call back those that are due.  A callback may schedule and cancel    *)
(* timers while the walk stands on its own entry; its return value says    *)
(* whether the timer goes on.  A client keeps the pointer to its event in  *)
(* a handle, by which it restarts and cancels the timer.                   *)
(*                                                                         *)
(* Time is in ticks of the system clock, TICKS to a millisecond.           *)
(***************************************************************************)
EXTENDS Naturals, FiniteSetsExt, Functions

CONSTANTS
  TIMER_EVENT_NUM,  (* the events of the pool                                *)
  Clients,          (* the modules that own a timer                          *)
  Forgetful,        (* those whose callback ends its timer but not its handle *)
  Sleepers,         (* those whose timer ends the long sleep                 *)
  TICKS,            (* ticks per millisecond                                 *)
  Timeouts,         (* per client, the timeouts it asks for                  *)
  MaxLag,           (* bound: ticks between two turns of the loop            *)
  None              (* no timer                                              *)

ASSUME EvConstantsOK ==
  /\ TIMER_EVENT_NUM \in Nat \ {0} /\ TICKS \in Nat \ {0}
  /\ Forgetful \subseteq Clients /\ Sleepers \subseteq Clients /\ None \notin Clients
  /\ Timeouts \in [Clients -> SUBSET (Nat \ {0})] /\ MaxLag \in Nat
  /\ None \notin [client : Clients, period : Nat]

VARIABLES
  ev_timer,   (* timer_head, timer_nearest, used_num and the events evt      *)
  pc,         (* where the main loop is                                      *)
  timerEvt,   (* the walk of ev_timer_executeCB: its event, and the head     *)
  prev_head,  (*   it last saw                                               *)
  handle,     (* per client, its pointer to an event                         *)
  lag,        (* ticks since prevSysTick                                     *)
  remSysTick, (* the ticks that made no whole millisecond yet                *)
  waited      (* per event, ticks since it was started                       *)

vars == <<ev_timer, pc, timerEvt, prev_head, handle, lag, remSysTick, waited>>

Slots == 1..TIMER_EVENT_NUM
NULL == 0
AllTimeouts == UNION Range(Timeouts)
Unused == [used |-> FALSE, isBusy |-> FALSE, isRunning |-> FALSE, cb |-> None,
           timeout |-> 0, period |-> 0, next |-> NULL]

Init ==
  /\ ev_timer = [timer_head |-> NULL, timer_nearest |-> NULL, used_num |-> 0,
                 evt |-> [s \in Slots |-> Unused]]
  /\ pc = "loop"
  /\ timerEvt = NULL /\ prev_head = NULL
  /\ handle = [c \in Clients |-> NULL]
  /\ lag = 0 /\ remSysTick = 0
  /\ waited = [s \in Slots |-> 0]

-----------------------------------------------------------------------------
(* The events from one on, by the pointers: no set that next does not leave *)
(* holds the one but not the other.  The list begins at its head.           *)
Closed(t, C) == \A s \in C : t.evt[s].next \in C \cup {NULL}
From(t, h) ==
  {s \in Slots : \A C \in SUBSET (Slots \ {s}) : h \in C \cup {NULL} => ~Closed(t, C)}
Listed(t) == From(t, t.timer_head)

(* Mutant: the head of the list, whichever it is.                           *)
NearestIsHead(t) == [t EXCEPT !.timer_nearest = t.timer_head]
(* ev_timer_nearestUpdate takes the first of the earliest.                  *)
Earliest(t, L, s) ==
  \A q \in L : \/ t.evt[s].timeout < t.evt[q].timeout
               \/ t.evt[s].timeout = t.evt[q].timeout /\ q \in From(t, s)
NearestUpdate(t) ==
  LET L == Listed(t)
  IN  [t EXCEPT !.timer_nearest = IF L = {} THEN NULL ELSE CHOOSE s \in L : Earliest(t, L, s)]

(* LIST_ADD, LIST_DELETE                                                    *)
ListAdd(t, s) == [t EXCEPT !.evt[s].next = t.timer_head, !.timer_head = s]
(* Mutant: the head is not taken out.                                       *)
ListDeleteButHead(t, s) ==
  [t EXCEPT !.evt = [q \in Slots |->
     IF q \in Listed(t) /\ t.evt[q].next = s
     THEN [t.evt[q] EXCEPT !.next = t.evt[s].next] ELSE t.evt[q]]]
ListDelete(t, s) ==
  IF t.timer_head = s THEN [t EXCEPT !.timer_head = t.evt[s].next]
  ELSE [t EXCEPT !.evt = [q \in Slots |->
          IF t.evt[q].next = s /\ q \in Listed(t)
          THEN [t.evt[q] EXCEPT !.next = t.evt[s].next] ELSE t.evt[q]]]

Free(t) == {s \in Slots : ~t.evt[s].used}
Full(t) == t.used_num >= TIMER_EVENT_NUM \/ Free(t) = {}

(* ev_timer_add: ev_timer_freeGet takes the first free event, ev_on_timer   *)
(* puts it in front of the list.                                            *)
FreeGet(t) == CHOOSE s \in Free(t) : \A q \in Free(t) : s <= q
Add(t, c, ms) ==
  LET s == FreeGet(t)
      u == [t EXCEPT !.used_num = @ + 1,
                     !.evt[s] = [@ EXCEPT !.used = TRUE, !.cb = c, !.isBusy = FALSE,
                                          !.period = ms, !.timeout = ms]]
  IN  NearestUpdate(IF s \in Listed(t) THEN u ELSE ListAdd(u, s))

(* ev_unon_timer, ev_timer_poolDelUpdate; what else a freed event holds is  *)
(* overwritten before it is read.                                           *)
Unon(t, s) ==
  IF s \notin Listed(t) THEN t
  ELSE LET u == [ListDelete(t, s) EXCEPT !.evt[s] = Unused,
                    !.used_num = IF t.evt[s].used THEN @ - 1 ELSE @]
       IN  NearestUpdate(u)

(* Mutant: a callback may cancel its own timer.                             *)
CancelsBusy(t, s) == s # NULL /\ t.evt[s].used
(* ev_timer_taskCancel does its work only on an event in use that is not    *)
(* the one whose callback runs; then it clears the handle, too.             *)
Cancels(t, s) == s # NULL /\ t.evt[s].used /\ ~t.evt[s].isBusy

-----------------------------------------------------------------------------
(* The calls of the clients, from the main loop or from a callback.         *)
MayCall == pc \in {"loop", "callback", "passed"}
Loop == <<pc, timerEvt, prev_head, lag, remSysTick>>

(* Mutant: the handle stays.                                                *)
CancelTimerKeepsHandle(c) ==
  /\ MayCall /\ handle[c] # NULL
  /\ IF Cancels(ev_timer, handle[c])
     THEN /\ ev_timer' = Unon(ev_timer, handle[c])
          /\ waited' = [waited EXCEPT ![handle[c]] = 0]
     ELSE UNCHANGED <<ev_timer, waited>>
  /\ UNCHANGED <<Loop, handle>>
CancelTimer(c) ==
  /\ MayCall /\ handle[c] # NULL
  /\ IF Cancels(ev_timer, handle[c])
     THEN /\ ev_timer' = Unon(ev_timer, handle[c])
          /\ handle' = [handle EXCEPT ![c] = NULL]
          /\ waited' = [waited EXCEPT ![handle[c]] = 0]
     ELSE UNCHANGED <<ev_timer, handle, waited>>
  /\ UNCHANGED Loop

(* Clients schedule in two ways: restarting the timer their handle points   *)
(* to, or only when they have none.  When the pool is exhausted the         *)
(* exception handler resets the device.                                     *)
Cancelled(c) == IF Cancels(ev_timer, handle[c]) THEN Unon(ev_timer, handle[c]) ELSE ev_timer
ScheduleTimer(c, ms) ==
  /\ MayCall
  /\ ~Full(Cancelled(c))
  /\ LET s == FreeGet(Cancelled(c))
     IN  /\ ev_timer' = Add(Cancelled(c), c, ms)
         /\ handle' = [handle EXCEPT ![c] = s]
         /\ waited' = [waited EXCEPT ![s] = 0,
                         ![IF Cancels(ev_timer, handle[c]) THEN handle[c] ELSE s] = 0]
  /\ UNCHANGED Loop
Exhausted(c) ==
  /\ MayCall /\ Full(Cancelled(c))
  /\ ev_timer' = [timer_head |-> NULL, timer_nearest |-> NULL, used_num |-> 0,
                  evt |-> [s \in Slots |-> Unused]]
  /\ pc' = "loop" /\ timerEvt' = NULL /\ prev_head' = NULL
  /\ handle' = [q \in Clients |-> NULL]
  /\ lag' = 0 /\ remSysTick' = 0 /\ waited' = [s \in Slots |-> 0]

-----------------------------------------------------------------------------
(* ev_timer_update: an event that was scheduled since the last time counts  *)
(* from then on; since holds how long ago that was.                         *)
MonusWithoutFloor(a, b) == a - b  \* mutant
Monus(a, b) == IF a > b THEN a - b ELSE 0
(* Mutant: also a timer scheduled just now is charged the whole lag.        *)
UpdateAllAlike(t, ms, since) ==
  IF ms = 0 THEN t
  ELSE [t EXCEPT !.evt = [s \in Slots |->
          IF s \notin Listed(t) THEN t.evt[s]
          ELSE [t.evt[s] EXCEPT !.isRunning = TRUE, !.timeout = Monus(@, ms)]]]
Update(t, ms, since) ==
  IF ms = 0 THEN t
  ELSE LET L == Listed(t)
       IN  [t EXCEPT !.evt = [s \in Slots |->
              IF s \notin L THEN t.evt[s]
              ELSE [t.evt[s] EXCEPT !.isRunning = TRUE,
                      !.timeout = Monus(@, IF t.evt[s].isRunning THEN ms
                                           ELSE since[s] \div TICKS)]]]

(* Waiting longer than the period is not told apart.                        *)
Waited(ticks) ==
  [s \in Slots |-> LET enough == ev_timer.evt[s].period * TICKS
                   IN  IF waited[s] + ticks < enough THEN waited[s] + ticks ELSE enough]
Tick ==
  /\ lag < MaxLag /\ pc # "scan"
  /\ lag' = lag + 1
  /\ waited' = Waited(1)
  /\ UNCHANGED <<ev_timer, pc, timerEvt, prev_head, handle, remSysTick>>

(* ev_timer_process, up to the walk.                                        *)
(* Mutant: the ticks that make no whole millisecond are lost.               *)
ProcessWithoutRemainder ==
  /\ pc = "loop" /\ lag # 0
  /\ ev_timer' = Update(ev_timer, lag \div TICKS, waited)
  /\ lag' = 0
  /\ pc' = "scan"
  /\ timerEvt' = ev_timer.timer_head /\ prev_head' = ev_timer.timer_head
  /\ UNCHANGED <<handle, waited, remSysTick>>
Process ==
  /\ pc = "loop" /\ lag # 0
  /\ LET sum == remSysTick + (lag % TICKS)
     IN  /\ ev_timer' = Update(ev_timer, (lag \div TICKS) + (sum \div TICKS), waited)
         /\ remSysTick' = sum % TICKS
  /\ lag' = 0
  /\ pc' = "scan"
  /\ timerEvt' = ev_timer.timer_head /\ prev_head' = ev_timer.timer_head
  /\ UNCHANGED <<handle, waited>>

(* ev_timer_executeCB                                                       *)
Due(s) == ev_timer.evt[s].timeout = 0
Skip ==
  /\ pc = "scan" /\ timerEvt # NULL /\ ~Due(timerEvt)
  /\ timerEvt' = ev_timer.evt[timerEvt].next
  /\ UNCHANGED <<ev_timer, pc, prev_head, handle, lag, remSysTick, waited>>
Execute ==
  /\ pc = "scan" /\ timerEvt # NULL /\ Due(timerEvt)
  /\ ev_timer' = [ev_timer EXCEPT !.evt[timerEvt].isBusy = TRUE]
  /\ pc' = "callback"
  /\ UNCHANGED <<timerEvt, prev_head, handle, lag, remSysTick, waited>>

(* The callback returns t < 0, or the next period, 0 for the same one.  One *)
(* that ends its timer has cleared the handle of its client, unless the     *)
(* client forgets it.  A period counts from the start of the pass on; the   *)
(* walk goes on to the event after, which LIST_DELETE leaves as it was.     *)
Client == ev_timer.evt[timerEvt].cb
NotBusy(t) == [t EXCEPT !.evt[timerEvt].isBusy = FALSE]
Proceed ==
  /\ pc' = "scan"
  /\ IF prev_head # ev_timer'.timer_head
     THEN timerEvt' = ev_timer'.timer_head /\ prev_head' = ev_timer'.timer_head
     ELSE timerEvt' = ev_timer.evt[timerEvt].next /\ UNCHANGED prev_head
  /\ UNCHANGED <<lag, remSysTick>>
ReturnEnd ==
  /\ pc = "callback"
  /\ ev_timer' = NotBusy(Unon(ev_timer, timerEvt))
  /\ Proceed
  /\ handle' = IF Client \in Forgetful THEN handle ELSE [handle EXCEPT ![Client] = NULL]
  /\ waited' = [waited EXCEPT ![timerEvt] = 0]
(* Mutant: the timer is not loaded again.                                   *)
ReturnAgainUnloaded(p) ==
  /\ pc = "callback" /\ p \in Timeouts[Client]
  /\ ev_timer' = NotBusy([ev_timer EXCEPT !.evt[timerEvt].period = p])
  /\ Proceed
  /\ waited' = [waited EXCEPT ![timerEvt] = IF lag < p * TICKS THEN lag ELSE p * TICKS]
  /\ UNCHANGED handle
ReturnAgain(p) ==
  /\ pc = "callback" /\ p \in Timeouts[Client]
  /\ ev_timer' = NotBusy([ev_timer EXCEPT !.evt[timerEvt].period = p,
                                          !.evt[timerEvt].timeout = p])
  /\ Proceed
  /\ waited' = [waited EXCEPT ![timerEvt] = IF lag < p * TICKS THEN lag ELSE p * TICKS]
  /\ UNCHANGED handle
EndPass ==
  /\ pc = "scan" /\ timerEvt = NULL
  /\ ev_timer' = NearestUpdate(ev_timer)
  /\ pc' = "passed" /\ prev_head' = NULL
  /\ UNCHANGED <<timerEvt, handle, lag, remSysTick, waited>>

(* The rest of the turn.  The device may sleep: until the nearest timer is  *)
(* due, or in the long sleep until one the application names, the battery's *)
(* (drv_pm_lowPowerEnter, app_lowPowerEnter); a key may end either early.   *)
(* When it wakes the time it slept is counted and prevSysTick set to now.   *)
NextTurn ==
  /\ pc = "passed" /\ pc' = "loop"
  /\ UNCHANGED <<ev_timer, timerEvt, prev_head, handle, lag, remSysTick, waited>>
Sleep(s, ms) ==
  /\ pc = "passed"
  /\ s # NULL /\ ms <= ev_timer.evt[s].timeout
  /\ waited' = Waited(ms * TICKS)
  /\ ev_timer' = Update(ev_timer, ms, waited')
  /\ lag' = 0
  /\ pc' = "loop"
  /\ UNCHANGED <<timerEvt, prev_head, handle, remSysTick>>
WakeTimers == {ev_timer.timer_nearest} \cup {handle[c] : c \in Sleepers}

Next ==
  \/ \E c \in Clients : CancelTimer(c) \/ Exhausted(c) \/ \E ms \in Timeouts[c] : ScheduleTimer(c, ms)
  \/ Tick \/ Process \/ Skip \/ Execute \/ ReturnEnd \/ \E p \in AllTimeouts : ReturnAgain(p)
  \/ EndPass \/ NextTurn \/ \E s \in WakeTimers, ms \in AllTimeouts : Sleep(s, ms)

Spec == Init /\ [][Next]_vars

(* The main loop never stops, time passes, and callbacks return.            *)
MainLoop == Process \/ Skip \/ Execute \/ EndPass \/ NextTurn
CallbacksReturn == []<>(pc # "callback")
Fairness == WF_vars(Tick) /\ WF_vars(MainLoop) /\ CallbacksReturn
FairSpec == Spec /\ Fairness

-----------------------------------------------------------------------------
(* Every variable keeps its type: no timeout runs below zero, nor is it     *)
(* ever longer than the period it counts down.                              *)
Event ==
  [used : BOOLEAN, isBusy : BOOLEAN, isRunning : BOOLEAN, cb : Clients \cup {None},
   timeout : Nat, period : AllTimeouts \cup {0}, next : Slots \cup {NULL}]
Table ==
  [timer_head : Slots \cup {NULL}, timer_nearest : Slots \cup {NULL},
   used_num : 0..TIMER_EVENT_NUM, evt : [Slots -> Event]]
TypeOK ==
  /\ ev_timer \in Table
  /\ \A s \in Slots : ev_timer.evt[s].timeout <= ev_timer.evt[s].period
  /\ pc \in {"loop", "scan", "callback", "passed"}
  /\ timerEvt \in Slots \cup {NULL} /\ prev_head \in Slots \cup {NULL}
  /\ handle \in [Clients -> Slots \cup {NULL}]
  /\ lag \in 0..MaxLag /\ remSysTick \in 0..(TICKS - 1)
  /\ waited \in [Slots -> Nat]
  /\ \A s \in Slots : waited[s] <= ev_timer.evt[s].period * TICKS

(* The list, the used flags and the counter agree whatever callbacks did    *)
(* while the list was walked (LIST_ADD and LIST_DELETE of utlist.h,         *)
(* ev_timer_freeGet, ev_timer_poolDelUpdate): no event is lost to the list  *)
(* while it counts as used, and none is on the list that may be given out.  *)
UsedSlots == {s \in Slots : ev_timer.evt[s].used}
PoolIsConsistent ==
  /\ Listed(ev_timer) = UsedSlots
  /\ ev_timer.used_num = Cardinality(UsedSlots)

(* The walk of ev_timer_executeCB never stands on an event that was freed,  *)
(* nor on one that a callback gave to another client meanwhile.             *)
WalkIsSafe ==
  /\ pc = "scan" /\ timerEvt # NULL => timerEvt \in UsedSlots
  /\ pc = "callback" => timerEvt \in UsedSlots /\ ev_timer.evt[timerEvt].isBusy
  /\ \A s \in UsedSlots : ev_timer.evt[s].isBusy => pc = "callback" /\ s = timerEvt

(* When the device may sleep, timer_nearest is the timer due first, so that *)
(* the short sleep oversleeps no timer (ev_timer_nearestUpdate).            *)
NearestIsFirst ==
  pc = "passed" =>
    /\ UsedSlots = {} <=> ev_timer.timer_nearest = NULL
    /\ UsedSlots # {} =>
         /\ ev_timer.timer_nearest \in UsedSlots
         /\ \A s \in UsedSlots :
              ev_timer.evt[ev_timer.timer_nearest].timeout <= ev_timer.evt[s].timeout

(* A pass leaves no timer due behind, whatever callbacks did to the list    *)
(* under the walk: else the device would not sleep (drv_pm_lowPowerEnter).  *)
NothingDueIsLeft == pc = "passed" => \A s \in UsedSlots : ev_timer.evt[s].timeout > 0

(* A handle that is not NULL names a timer of its client, so that by it no  *)
(* other's timer is cancelled.  A client loses such a handle only in two    *)
(* ways: its own callback ends the timer and forgets the handle, as         *)
(* app_getCoordinatorExtAddrCb does, or a client whose handle is lost       *)
(* already cancels by it the timer it now names (ev_timer_taskCancel).      *)
HandleIsOwn(c) ==
  handle[c] # NULL => ev_timer.evt[handle[c]].used /\ ev_timer.evt[handle[c]].cb = c
Calls(c) == CancelTimer(c) \/ \E ms \in Timeouts[c] : ScheduleTimer(c, ms)
LosesHandle(c) ==
  \/ ReturnEnd /\ Client = c /\ c \in Forgetful
  \/ \E d \in Clients \ {c} : Calls(d) /\ ~HandleIsOwn(d) /\ handle[d] = handle[c]
OnlyForgettersLoseHandles ==
  [][\A c \in Clients : HandleIsOwn(c) => HandleIsOwn(c)' \/ LosesHandle(c)]_vars

(* A timer that is neither restarted nor cancelled has its callback run.    *)
Pending(s) == ev_timer.evt[s].used /\ waited[s] > 0
Runs(s) == pc = "callback" /\ timerEvt = s
EveryTimerRuns == \A s \in Slots : Pending(s) ~> (~Pending(s) \/ Runs(s))

(* The list of timers implements the set of timers TimerSet: a call of a    *)
(* client whose handle is its own touches only its timers, no call touches  *)
(* the running one, a callback runs for a timer that is armed and not more  *)
(* than a millisecond before its time.                                      *)
Promise == INSTANCE TimerSet WITH
  armed <- [s \in Slots |-> IF ev_timer.evt[s].used
                            THEN [client |-> ev_timer.evt[s].cb, period |-> ev_timer.evt[s].period]
                            ELSE None],
  running <- IF pc = "callback" THEN timerEvt ELSE 0,
  good <- {c \in Clients : HandleIsOwn(c)}
TimersKeepPromise == Promise!Spec
=============================================================================
