-------------------------------- MODULE Button --------------------------------
(***************************************************************************)
(* The buttons of the remote (app_button.c) and the flag that keeps it     *)
(* awake, g_appCtx.not_sleep, with the timers that write that flag         *)
(* (app_utility.c, app_findbind.c, zb_appCb.c).                            *)
(*                                                                         *)
(* Every pass of the event loop polls the buttons.  One poll of a button   *)
(* (read_button_toggle, _multifunction, _level, _color_temp, _scene) reads *)
(* the key once and runs three stages: Held (a press that lasts 500 ms),   *)
(* Debounced (a press or a release is recognised) and Finished (500 ms     *)
(* after the last press the gesture is acted upon).  The stages are        *)
(* operators on a record of the poll and Poll composes them in one action. *)
(* When nothing is in progress and not_sleep is clear, the device enters   *)
(* its long sleep.  Time is abstract: a timer may expire whenever it is    *)
(* armed, and a button is "recent" until its 500 ms have passed.           *)
(***************************************************************************)
EXTENDS Integers, Sequences, FiniteSets

CONSTANTS
  Buttons,               (* the buttons of the model                         *)
  DEBOUNCE_BUTTON,       (* polls for debounce (16)                          *)
  BATTERY_COUNTER,       (* presses for battery report / find and bind (4)   *)
  FR_COUNTER_MAX,        (* presses for the factory reset gesture (5)        *)
  RESET_DEVICE_COUNTER,  (* presses for a reboot (10)                        *)
  SwitchTypes,           (* the switch types in use, a part of Kinds         *)
  Disturbances,          (* what the environment may do, a part of AllEvents *)
  Watched,               (* the switch types whose history open is kept      *)
  MaxCounter,            (* bound: no key goes down at this press count      *)
  MaxWindows             (* bound: poll-rate windows opened by others        *)

Kinds == {"toggle", "momentary", "multifunction", "levelMove", "levelUpDown",
          "colorMove", "colorUpDown", "scene"}
OnPress == {"toggle", "momentary", "scene"}   (* a command at the press itself *)
Moving == Kinds \ OnPress                    (* a command at hold and release  *)

AllEvents == {"glitch", "modelWrite", "typeWrite", "network", "ota"}

ASSUME ButtonConstantsOK ==
  /\ DEBOUNCE_BUTTON \in Nat /\ DEBOUNCE_BUTTON > 1
  /\ {BATTERY_COUNTER, FR_COUNTER_MAX, RESET_DEVICE_COUNTER} \subseteq Nat
  /\ 3 < BATTERY_COUNTER
  /\ BATTERY_COUNTER < FR_COUNTER_MAX
  /\ FR_COUNTER_MAX < RESET_DEVICE_COUNTER
  /\ SwitchTypes \subseteq Kinds /\ Watched \subseteq Kinds
  /\ Disturbances \subseteq AllEvents
  /\ MaxCounter \in Nat /\ MaxWindows \in Nat

VARIABLES
  button,      (* app_button[i]                                               *)
  app,         (* the flags and timers of app_button.c and g_appCtx           *)
  switchType,  (* device_settings.switchType[i]                               *)
  key,         (* is the key of button i down (its GPIO reads 0)              *)
  net,         (* joined, lost (not joined, not factory new) or new           *)
  open,        (* history: per button, opening commands minus closing ones    *)
  windows      (* history: poll-rate windows opened by other components       *)

vars == <<button, app, switchType, key, net, open, windows>>

HOLD_NOT_PRESENT == 0
HOLD_PRESENT == 1
HOLD_FIX == 2

(* The one-shot timers, by what they clear or start.  leakedFindBind is a   *)
(* clearFindBindFlag timer whose handle was overwritten (app_findBindStart  *)
(* cancels the old one only when there is none).                            *)
Timers == {"clearSleep", "factoryReset", "buttonFindBind", "setPollRate",
           "bdbFindBind", "clearFindBindFlag", "leakedFindBind"}

(* recent: pressed_time (and hold_time, always set with it) is at most      *)
(* 500 ms ago.                                                              *)
ButtonStates == [debounce : 1..DEBOUNCE_BUTTON, pressed : BOOLEAN,
                 released : BOOLEAN, hold : 0..2, counter : Nat,
                 recent : BOOLEAN]

(* repeats: repeat_cmd_num is not 0 (module RepeatCmd).  stray, a history   *)
(* field: not_sleep is still set from "boot", or since a "modelWrite" threw *)
(* away the gesture that was to clear it.  download: the OTA client of the  *)
(* SDK is downloading; ota is the flag of the application.                  *)
AppStates == [not_sleep : BOOLEAN, factory_reset : BOOLEAN,
              buttonFindBindFlag : BOOLEAN, ota : BOOLEAN, download : BOOLEAN,
              repeats : BOOLEAN,
              stray : {"no", "boot", "modelWrite"}, timers : SUBSET Timers]

InitialButton == [debounce |-> 1, pressed |-> FALSE, released |-> FALSE,
                  hold |-> HOLD_NOT_PRESENT, counter |-> 0, recent |-> TRUE]
InitialApp == [not_sleep |-> TRUE, factory_reset |-> FALSE,
               buttonFindBindFlag |-> FALSE, ota |-> FALSE, download |-> FALSE,
               repeats |-> FALSE, stray |-> "boot", timers |-> {}]

-----------------------------------------------------------------------------
(* Helpers on the app record.                                               *)

Arm(a, t) == [a EXCEPT !.timers = @ \cup {t}]
Cancel(a, t) == [a EXCEPT !.timers = @ \ {t}]
AllowSleep(a) == [a EXCEPT !.not_sleep = FALSE, !.stray = "no"]

(* app_setPollRate: opens a window in which the device polls its parent;    *)
(* none is opened during an OTA download.                                   *)
SetPollRate(a) ==
  LET awake == [a EXCEPT !.not_sleep = TRUE]
  IN  IF a.ota THEN Cancel(awake, "setPollRate") ELSE Arm(awake, "setPollRate")

(* Mutant of MaySleep: the poll-rate window is forgotten.                   *)
MaySleepInWindow(a) == ~a.ota /\ ~a.buttonFindBindFlag

(* clearSleepCb and clearButtonSleepTimer: sleep is allowed unless a window *)
(* is open, a download runs or the find-and-bind gesture waits.             *)
MaySleep(a) == "setPollRate" \notin a.timers /\ ~a.ota /\ ~a.buttonFindBindFlag
ClearButtonSleepTimer(a) == IF MaySleep(a) THEN AllowSleep(a) ELSE a

(* app_findBindStart *)
FindBindStart(a) ==
  IF "bdbFindBind" \in a.timers THEN a
  ELSE [a EXCEPT !.timers = @ \cup {"bdbFindBind", "clearFindBindFlag"} \cup
                   (IF "clearFindBindFlag" \in @ THEN {"leakedFindBind"} ELSE {})]

(* button_factory_reset_start *)
FactoryResetStart(a) == SetPollRate([a EXCEPT !.factory_reset = FALSE])

(* BATTERY_COUNTER presses: the find-and-bind gesture is open for 3 s and   *)
(* the device polls for 20 s, unless a window is open already.              *)
FindBindGesture(a) ==
  LET b == [a EXCEPT !.buttonFindBindFlag = TRUE]
  IN  Arm(IF "setPollRate" \in b.timers THEN b ELSE SetPollRate(b), "buttonFindBind")

(* FR_COUNTER_MAX presses: the factory reset gesture is open for 3 s.       *)
FactoryResetGesture(a) == Arm([a EXCEPT !.factory_reset = TRUE], "factoryReset")

-----------------------------------------------------------------------------
(* One poll of button i, of type k, as a record: b its button record, a the *)
(* app record, open the history of the button.  rec says whether a command  *)
(* sent in this poll enters the repeat table (reports never do).            *)

Start(i) == [b |-> button[i], a |-> app, open |-> open[i]]

Clamp(n) == IF n > 2 THEN 2 ELSE IF n < -1 THEN -1 ELSE n

Send(s, k, rec) == [s EXCEPT !.a.repeats = @ \/ (rec /\ k # "multifunction")]
Watch(s, k, n) == IF k \in Watched THEN [s EXCEPT !.open = Clamp(@ + n)] ELSE s
Open(s, k, rec) == Watch(Send(s, k, rec), k, 1)
Close(s, k, rec) == Watch(Send(s, k, rec), k, -1)

(* The press lasts: the first time, it starts find and bind or a factory    *)
(* reset when their gesture is open, else a movement or a HOLD report.      *)
Held(s, k, rec, down) ==
  LET h == [s EXCEPT !.b.hold = HOLD_PRESENT]
  IN  CASE ~(down /\ s.b.pressed /\ ~s.b.recent /\ s.b.hold = HOLD_NOT_PRESENT) -> s
        [] OTHER ->
             CASE s.a.buttonFindBindFlag ->
                    [h EXCEPT !.a = FindBindStart(Cancel(
                       [@ EXCEPT !.buttonFindBindFlag = FALSE], "buttonFindBind"))]
               [] ~s.a.buttonFindBindFlag /\ s.a.factory_reset ->
                    [h EXCEPT !.a = FactoryResetStart(Cancel(@, "factoryReset"))]
               [] ~s.a.buttonFindBindFlag /\ ~s.a.factory_reset ->
                    IF k \in Moving THEN Open(h, k, rec) ELSE h

(* A press of a button that sends at the press: the first one sends (or     *)
(* asks to rejoin a lost network), quick further ones are counted.          *)
PressedOnPress(s, k, rec) ==
  LET first == [s EXCEPT !.b.pressed = TRUE, !.b.counter = 1, !.a.not_sleep = TRUE]
      p == CASE s.b.counter = 0 /\ net = "joined" ->
                  IF k = "momentary" THEN Open(first, k, rec) ELSE Send(first, k, rec)
             [] s.b.counter = 0 /\ net = "lost" -> [first EXCEPT !.a = SetPollRate(@)]
             [] s.b.counter = 0 /\ net = "new" -> first
             [] s.b.counter # 0 ->
                  [s EXCEPT !.b.counter = IF s.b.pressed /\ s.b.recent THEN @ + 1 ELSE @]
  IN  [p EXCEPT !.b.recent = TRUE]

(* A press of the other buttons: counted when it comes within 500 ms of the *)
(* one before, else it begins a new count.                                  *)
PressedMoving(s) ==
  LET p == [s EXCEPT !.b.pressed = TRUE, !.a.not_sleep = TRUE,
                     !.b.counter = IF s.b.recent THEN @ + 1 ELSE 1,
                     !.b.recent = TRUE]
  IN  IF ~s.b.recent /\ net = "lost" THEN [p EXCEPT !.a = SetPollRate(@)] ELSE p

(* A release.  A momentary button sends its second command here.            *)
Released(s, k, rec) ==
  LET heard == s.b.pressed \/ (s.b.hold = HOLD_FIX /\ k # "scene")
      r == [s EXCEPT !.b.released = TRUE, !.a.not_sleep = @ \/ k # "scene"]
      second == /\ k = "momentary" /\ net = "joined"
                /\ s.b.counter = 1 \/ s.b.hold = HOLD_FIX
  IN  CASE ~heard -> s
        [] heard /\ second -> Close(r, k, rec)
        [] heard /\ ~second -> r

(* Mutant of Debounced: the counter has no floor.                           *)
DebouncedWithoutFloor(s, k, rec, down) ==
  LET d == s.b.debounce
      up == [s EXCEPT !.b.debounce = d + 1]
      dn == [s EXCEPT !.b.debounce = d - 1]
  IN  CASE down /\ d = DEBOUNCE_BUTTON -> s
        [] down /\ d # DEBOUNCE_BUTTON /\ d + 1 # DEBOUNCE_BUTTON -> up
        [] down /\ d # DEBOUNCE_BUTTON /\ d + 1 = DEBOUNCE_BUTTON ->
             IF k \in OnPress THEN PressedOnPress(up, k, rec) ELSE PressedMoving(up)
        [] ~down /\ d - 1 # 1 -> dn
        [] ~down /\ d - 1 = 1 -> Released(dn, k, rec)

(* The key counts towards DEBOUNCE_BUTTON while down, towards 1 while up.   *)
Debounced(s, k, rec, down) ==
  LET d == s.b.debounce
      up == [s EXCEPT !.b.debounce = d + 1]
      dn == [s EXCEPT !.b.debounce = d - 1]
  IN  CASE down /\ d = DEBOUNCE_BUTTON -> s
        [] down /\ d # DEBOUNCE_BUTTON /\ d + 1 # DEBOUNCE_BUTTON -> up
        [] down /\ d # DEBOUNCE_BUTTON /\ d + 1 = DEBOUNCE_BUTTON ->
             IF k \in OnPress THEN PressedOnPress(up, k, rec) ELSE PressedMoving(up)
        [] ~down /\ d = 1 -> s
        [] ~down /\ d # 1 /\ d - 1 # 1 -> dn
        [] ~down /\ d # 1 /\ d - 1 = 1 -> Released(dn, k, rec)

(* Mutant of ClearSleepTimer: the test of the repeats is inverted.          *)
ClearSleepTimerInverted(s, k) ==
  IF s.a.repeats /\ k # "multifunction" THEN [s EXCEPT !.a = Arm(@, "clearSleep")]
  ELSE s

(* clearSleepTimer, which the repeat table defers until it is empty.        *)
ClearSleepTimer(s, k) ==
  IF s.a.repeats /\ k # "multifunction" THEN s
  ELSE [s EXCEPT !.a = Arm(@, "clearSleep")]

(* Mutant of EndGesture: the press counter is not reset.                    *)
EndGestureKeepsCounter(s) == [s EXCEPT !.b.pressed = FALSE, !.b.released = FALSE,
                                       !.b.hold = HOLD_NOT_PRESENT]

EndGesture(s) == [s EXCEPT !.b.counter = 0, !.b.pressed = FALSE,
                           !.b.released = FALSE, !.b.hold = HOLD_NOT_PRESENT]

(* Does the gesture send something when it is over: level buttons for one   *)
(* press, and for two (a step) unless one button moves both ways; colour    *)
(* buttons a step for one; multifunction buttons a report for one to three. *)
Sends(k, n) ==
  \/ k \in {"levelMove", "levelUpDown", "multifunction", "colorUpDown"} /\ n = 1
  \/ k \in {"levelUpDown", "multifunction"} /\ n = 2
  \/ k = "multifunction" /\ n = 3

FinishedMoving(s, k, rec) ==
  LET n == s.b.counter
  IN  CASE n >= FR_COUNTER_MAX -> [s EXCEPT !.a = FactoryResetGesture(@)]
        [] n < FR_COUNTER_MAX /\ s.b.hold # HOLD_NOT_PRESENT ->
             ClearSleepTimer(Close(s, k, rec), k)
        [] n < FR_COUNTER_MAX /\ s.b.hold = HOLD_NOT_PRESENT ->
             ClearSleepTimer(
               CASE n = BATTERY_COUNTER -> [s EXCEPT !.a = FindBindGesture(@)]
                 [] n # BATTERY_COUNTER ->
                      IF Sends(k, n) THEN Send(s, k, rec) ELSE s, k)

FinishedOnPress(s, k) ==
  LET n == s.b.counter
  IN  ClearSleepTimer(
        CASE n = BATTERY_COUNTER -> [s EXCEPT !.a = FindBindGesture(@)]
          [] n >= FR_COUNTER_MAX ->
               [s EXCEPT !.a = FactoryResetGesture([@ EXCEPT !.not_sleep = TRUE])]
          [] n # BATTERY_COUNTER /\ n < FR_COUNTER_MAX -> s, k)

Rests(s) == s.b.released /\ ~s.b.recent
Reboots(s) == Rests(s) /\ s.b.counter = RESET_DEVICE_COUNTER

(* The gesture is over 500 ms after its last press; a long single press is  *)
(* parked (HOLD_FIX) so that the device can sleep while the key stays down. *)
Finished(s, k, rec) ==
  LET parks == /\ s.b.pressed /\ s.b.counter = 1 /\ s.b.hold = HOLD_PRESENT
               /\ k # "scene"
  IN  CASE Rests(s) -> EndGesture(IF k \in OnPress THEN FinishedOnPress(s, k)
                                                   ELSE FinishedMoving(s, k, rec))
        [] ~Rests(s) /\ parks ->
             ClearSleepTimer([s EXCEPT !.b.hold = HOLD_FIX, !.b.counter = 0,
                                       !.b.pressed = FALSE], k)
        [] ~Rests(s) /\ ~parks -> s

-----------------------------------------------------------------------------
Init ==
  /\ button = [i \in Buttons |-> InitialButton]
  /\ app = InitialApp
  /\ switchType \in [Buttons -> SwitchTypes]
  /\ key = [i \in Buttons |-> FALSE]
  /\ net \in IF "network" \in Disturbances THEN {"joined", "new"} ELSE {"joined"}
  /\ open = [i \in Buttons |-> 0]
  /\ windows = 0

(* zb_resetDevice or the watchdog: RAM starts over; keys stay as they are.  *)
Boot ==
  /\ button' = [i \in Buttons |-> InitialButton]
  /\ app' = InitialApp
  /\ open' = [i \in Buttons |-> 0]

(* button_handler reads button i.                                           *)
Poll(i) ==
  /\ \E rec \in BOOLEAN :
       LET k == switchType[i]
           s == Debounced(Held(Start(i), k, rec, key[i]), k, rec, key[i])
           f == Finished(s, k, rec)
       IN  IF Reboots(s) THEN Boot
           ELSE /\ button' = [button EXCEPT ![i] = f.b]
                /\ app' = f.a
                /\ open' = [open EXCEPT ![i] = f.open]
  /\ UNCHANGED <<switchType, key, net, windows>>

(* 500 ms have passed since the last press of button i.                     *)
Elapse(i) ==
  /\ button[i].recent
  /\ button' = [button EXCEPT ![i].recent = FALSE]
  /\ UNCHANGED <<app, switchType, key, net, open, windows>>

OnlyApp == UNCHANGED <<button, switchType, key, net, open, windows>>

(* Timer callbacks, run by ev_timer_process.                                *)
ClearSleepFires ==
  /\ "clearSleep" \in app.timers
  /\ app' = ClearButtonSleepTimer(Cancel(app, "clearSleep"))
  /\ OnlyApp

(* Mutant of FactoryResetFires: the flag of the gesture stays.              *)
FactoryResetFiresKeepsFlag ==
  /\ "factoryReset" \in app.timers
  /\ LET a == Cancel(app, "factoryReset")
     IN  app' = IF a.ota THEN a ELSE AllowSleep(a)
  /\ OnlyApp

(* factoryResetCb *)
FactoryResetFires ==
  /\ "factoryReset" \in app.timers
  /\ LET a == [Cancel(app, "factoryReset") EXCEPT !.factory_reset = FALSE]
     IN  app' = IF a.ota THEN a ELSE AllowSleep(a)
  /\ OnlyApp

(* clearButtonFindBindFlagCb *)
ButtonFindBindFires ==
  /\ "buttonFindBind" \in app.timers
  /\ app' = Arm([Cancel(app, "buttonFindBind") EXCEPT !.buttonFindBindFlag = FALSE],
                "clearSleep")
  /\ OnlyApp

(* set_pollRateCb *)
SetPollRateFires ==
  /\ "setPollRate" \in app.timers
  /\ app' = AllowSleep(Cancel(app, "setPollRate"))
  /\ OnlyApp

(* app_bdbFindAndBindStart has started find and bind (it repeats until the  *)
(* commissioning layer is idle, which is not modelled here).                *)
BdbFindBindFires ==
  /\ "bdbFindBind" \in app.timers
  /\ app' = Cancel(app, "bdbFindBind")
  /\ OnlyApp

(* app_clearFindBindFlagCb, 3 minutes after app_findBindStart; a leaked     *)
(* timer takes the handle of its successor away.                            *)
ClearFindBindFlagFires(t) ==
  /\ t \in app.timers
  /\ LET lost == t = "leakedFindBind" /\ "clearFindBindFlag" \in app.timers
         b == [app EXCEPT !.timers = (@ \ {"clearFindBindFlag", "leakedFindBind"}) \cup
                  (IF lost \/ (t # "leakedFindBind" /\ "leakedFindBind" \in @)
                   THEN {"leakedFindBind"} ELSE {})]
     IN  app' = IF app.ota THEN b ELSE AllowSleep(b)
  /\ OnlyApp

(* zb_bdbCommissioningCb reports the outcome of find and bind:              *)
(* stop_timerClearFindBindFlag.                                             *)
FindBindEnds ==
  /\ "clearFindBindFlag" \in app.timers
  /\ LET a == Cancel(app, "clearFindBindFlag")
     IN  app' = IF a.ota THEN a ELSE AllowSleep(a)
  /\ OnlyApp

(* afApsAckCb and the watchdog of the repeat table (module RepeatCmd): when *)
(* nothing is left to be confirmed the device may sleep.                    *)
CommandsSettle ==
  /\ app.repeats
  /\ app' = ClearButtonSleepTimer([app EXCEPT !.repeats = FALSE])
  /\ OnlyApp

(* afApsAckCb for a frame that is not in the table: a group command, a      *)
(* repeat, a report.                                                        *)
OtherConfirm ==
  /\ ~app.repeats
  /\ app' = ClearButtonSleepTimer(app)
  /\ OnlyApp

(* app_lowPowerEnter, the branch that enters the long sleep: button_idle    *)
(* (which is TRUE when a button is busy) lets it, and so do not_sleep and   *)
(* the find-and-bind timer.                                                 *)
Busy(i) == \/ button[i].debounce \notin {1, DEBOUNCE_BUTTON}
           \/ button[i].pressed
           \/ button[i].counter # 0
           \/ app.factory_reset
           \/ app.buttonFindBindFlag
LongSleep ==
  /\ \A i \in Buttons : ~Busy(i)
  /\ ~app.not_sleep
  /\ "clearFindBindFlag" \notin app.timers
  /\ app' = Cancel([app EXCEPT !.repeats = FALSE], "clearSleep")
  /\ OnlyApp

-----------------------------------------------------------------------------
(* The environment.                                                         *)

(* A key moves.  Unless it may bounce ("glitch") it holds each level for as *)
(* long as the debouncing takes.                                            *)
KeyMoves(i) ==
  /\ "glitch" \in Disturbances \/ button[i].debounce = IF key[i] THEN DEBOUNCE_BUTTON ELSE 1
  /\ key[i] \/ button[i].counter < MaxCounter
  /\ key' = [key EXCEPT ![i] = ~@]
  /\ UNCHANGED <<button, app, switchType, net, open, windows>>

(* zb_bdbInitCb on a network: the first poll-rate window.                   *)
BdbInit ==
  /\ app.stray = "boot" /\ net = "joined"
  /\ windows < MaxWindows
  /\ windows' = windows + 1
  /\ app' = [SetPollRate(app) EXCEPT !.stray = "no"]
  /\ UNCHANGED <<button, switchType, key, net, open>>

(* The other callers of app_setPollRate: the descriptor requests of a       *)
(* coordinator, a battery reporting configuration, commissioning.           *)
OthersSetPollRate ==
  /\ windows < MaxWindows
  /\ windows' = windows + 1
  /\ app' = SetPollRate(app)
  /\ UNCHANGED <<button, switchType, key, net, open>>

NetworkChanges ==
  /\ "network" \in Disturbances
  /\ net' \in {"joined", "lost", "new"}
  /\ UNCHANGED <<button, app, switchType, key, open, windows>>

(* app_zclWriteReqCmd, attribute SWITCH_TYPE.                               *)
WriteSwitchType(i) ==
  /\ "typeWrite" \in Disturbances
  /\ \E k \in SwitchTypes : switchType' = [switchType EXCEPT ![i] = k]
  /\ open' = [open EXCEPT ![i] = 0]
  /\ UNCHANGED <<button, app, key, net, windows>>

(* app_zclWriteReqCmd, attribute DEVICE_MODEL: device_model_init resets     *)
(* every button and the repeat table, but not the table's counter.          *)
DeviceModelInit ==
  /\ "modelWrite" \in Disturbances
  /\ button' = [i \in Buttons |-> InitialButton]
  /\ app' = IF /\ app.not_sleep /\ app.stray = "no"
               /\ \E i \in Buttons : button[i].pressed \/ button[i].released
            THEN [app EXCEPT !.stray = "modelWrite"] ELSE app
  /\ open' = [i \in Buttons |-> 0]
  /\ UNCHANGED <<switchType, key, net, windows>>

(* app_otaProcessMsgHandler: a download begins, and ends.  A failed one      *)
(* leaves ota set.                                                          *)
OtaStart ==
  /\ "ota" \in Disturbances
  /\ ~app.download
  /\ app' = Cancel([app EXCEPT !.not_sleep = TRUE, !.ota = TRUE, !.download = TRUE],
                   "setPollRate")
  /\ OnlyApp
OtaComplete(success) ==
  /\ app.download
  /\ IF success THEN Boot
     ELSE /\ app' = SetPollRate([app EXCEPT !.download = FALSE])
          /\ UNCHANGED <<button, open>>
  /\ UNCHANGED <<switchType, key, net, windows>>

Next ==
  \/ \E i \in Buttons : Poll(i) \/ Elapse(i) \/ KeyMoves(i) \/ WriteSwitchType(i)
  \/ ClearSleepFires
  \/ FactoryResetFires
  \/ ButtonFindBindFires
  \/ SetPollRateFires
  \/ BdbFindBindFires
  \/ FindBindEnds
  \/ \E t \in {"clearFindBindFlag", "leakedFindBind"} : ClearFindBindFlagFires(t)
  \/ CommandsSettle
  \/ OtherConfirm
  \/ LongSleep
  \/ BdbInit
  \/ OthersSetPollRate
  \/ NetworkChanges
  \/ DeviceModelInit
  \/ OtaStart
  \/ \E success \in BOOLEAN : OtaComplete(success)

Spec == Init /\ [][Next]_vars

(* The loop keeps polling, time passes, armed timers expire, and the repeat *)
(* table drains (RepeatCmd).  Nothing is assumed of keys, hosts or network. *)
Fairness ==
  /\ \A i \in Buttons : WF_vars(Poll(i)) /\ WF_vars(Elapse(i))
  /\ WF_vars(ClearSleepFires) /\ WF_vars(FactoryResetFires)
  /\ WF_vars(ButtonFindBindFires) /\ WF_vars(SetPollRateFires)
  /\ WF_vars(BdbFindBindFires) /\ WF_vars(CommandsSettle)
  /\ \A t \in {"clearFindBindFlag", "leakedFindBind"} : WF_vars(ClearFindBindFlagFires(t))
FairSpec == Spec /\ Fairness

-----------------------------------------------------------------------------
TypeOK ==
  /\ button \in [Buttons -> ButtonStates]
  /\ app \in AppStates
  /\ switchType \in [Buttons -> Kinds]
  /\ key \in [Buttons -> BOOLEAN]
  /\ net \in {"joined", "lost", "new"}
  /\ open \in [Buttons -> -1..2]
  /\ windows \in Nat

(* No gesture can stall between two polls: a recognised release still has   *)
(* its press or its parked hold, a press whose key is fully up has been     *)
(* recognised as released, and presses are counted exactly while one is in  *)
(* progress.  Otherwise button_idle would keep the device from sleeping for *)
(* ever, or a gesture would be acted upon a press too late.                 *)
GestureCannotStall ==
  \A i \in Buttons :
    LET b == button[i] IN
      /\ b.released => b.pressed \/ b.hold = HOLD_FIX
      /\ b.pressed /\ b.debounce = 1 => b.released
      /\ b.pressed <=> b.counter # 0

(* factory_reset and buttonFindBindFlag, which turn the next long press of  *)
(* ANY button into a factory reset or a find-and-bind, are set exactly      *)
(* while the 3 s timer that clears them runs.                               *)
FlagsHaveTimers ==
  /\ app.factory_reset <=> "factoryReset" \in app.timers
  /\ app.buttonFindBindFlag <=> "buttonFindBind" \in app.timers

(* Whatever keeps the device awake will let go of it: when not_sleep is set *)
(* there is a button in progress, a timer whose callback clears it, a       *)
(* command waiting for its confirmation or an OTA download.                 *)
Reason(a) ==
  \/ a.repeats \/ a.ota
  \/ {"clearSleep", "factoryReset", "buttonFindBind", "setPollRate",
      "clearFindBindFlag", "leakedFindBind"} \cap a.timers # {}
InProgress(b) == b.pressed \/ b.released
Owned == (\E i \in Buttons : InProgress(button[i])) \/ Reason(app)
AwakeHasReason == app.not_sleep => Owned \/ app.stray # "no"

(* A window is cut short only by the other gestures: by the end of a        *)
(* factory reset gesture or of find and bind, never by a command, a         *)
(* confirmation or a 100 ms timer left over from an earlier press.          *)
OnlyGesturesCutWindows ==
  [][/\ "setPollRate" \in app.timers \cap app'.timers
     /\ app.not_sleep /\ ~app'.not_sleep
     => \/ "factoryReset" \in app.timers
        \/ {"clearFindBindFlag", "leakedFindBind"} \cap app.timers # {}]_vars

(* The commands of a momentary button alternate: one at each press, one at  *)
(* each release.                                                            *)
EdgesAlternate ==
  \A i \in Buttons : switchType[i] = "momentary" => open[i] \in {0, 1}

(* A key that stays up leaves its button idle.                              *)
KeyUpSettles ==
  \A i \in Buttons :
    <>[]~key[i] => <>[](button[i].counter = 0 /\ ~button[i].pressed
                        /\ button[i].debounce = 1)

KeysUp == \A i \in Buttons : ~key[i]

(* Keys left alone, the device gets to sleep again and again.               *)
EventuallySleeps ==
  <>[]KeysUp => []<>(~app.not_sleep \/ app.stray # "no" \/ app.ota)

(* The same when a download has ended, one way or the other.                *)
SleepsAfterOta ==
  <>[](KeysUp /\ ~app.download) => []<>(~app.not_sleep \/ app.stray # "no")
=============================================================================
