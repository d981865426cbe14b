# TLA+ model of the Tuya TS004x battery switch firmware

The repository is firmware for battery remotes with one to four buttons (Zigbee
sleepy end devices on a Telink TLSR825x). A key is polled, its presses are
turned into ZCL commands or reports, commands that were not acknowledged are
sent a second time, and the rest of the time the device sleeps. Everything runs
in one event loop: there are no threads, but there are many callbacks, timers and
shared flags, and the order in which they meet is what a test hardly reaches. What
has to survive a flat battery is written to flash piece by piece.

All paths below are relative to `src/` of the repository (so the firmware's own
C files are in `src/src/`).

## 1. Inventory

| Component | State it keeps | Operations | Status |
|---|---|---|---|
| Repeat table (`app_repeat_cmd.c`, `afApsAckCb` in `app_main.c`) | `repeat_cmd[16]`, `repeat_cmd_num`, `timerRepeatCmdNumClearEvt` | add, find, reset, confirm and repeat, 30 s watchdog | modelled (`RepeatCmd`) |
| Command senders (`app_on_off.c`, `app_level.c`, `app_color_temp.c`, `app_scene.c`) | none (direction flags in `app_level.c` and friends) | send to every group and binding of a button, record in the table, repeat | partly (`RepeatCmd`; direction abstracted) |
| Buttons (`app_button.c`) | `app_button[]` (debounce, pressed, released, hold, counter, times), `factory_reset`, `buttonFindBindFlag`, their timers | poll, debounce, count presses, hold, release, the 4, 5 and 10 press gestures | modelled but for `dir_up` (`Button`) |
| Sleep permission (`app_utility.c`, `app_pm.c`) | `g_appCtx.not_sleep`, `timerSetPollRateEvt` | open a poll-rate window, close it, enter the long sleep | partly (`Button`, `RepeatCmd`, `EvTimer`) |
| Event loop (`app_main.c`, `common/main.c`) | `g_appCtx` | poll buttons, run timers and tasks, try to sleep | partly |
| Find and bind (`app_findbind.c`) | `timerBdbFindBindEvt`, `timerClearFindBindFlagEvt`, coordinator address timer | start, 3 minute limit, outcome | partly (`Button`, `Commissioning`) |
| Network and OTA callbacks (`zb_appCb.c`) | `g_appCtx.ota`, rejoin and steering timers | BDB init, commissioning outcome, steer again, rejoin, leave, OTA start and end | partly (`Button`, `Commissioning`) |
| BDB commissioning (`zigbee/bdb/bdb.c`) | `g_bdbCtx`, `g_bdbAttrs`, its scheduled tasks and timers | initialise, steer and exchange the link key, rejoin, find and bind | partly (`Commissioning`) |
| ZCL callbacks (`zcl_appCb.c`) | attributes | write switch type, write model, reporting configuration, answers to the identify query | partly (`Button`, `RepeatCmd`, `Commissioning`) |
| Device settings and model (`app_device.c`) | `device_settings`, model sector in flash | initialise a model, save, restore | partly: `device_model_init`; the settings as an item of `NvStore` |
| Item store (`drv_nv.c`, `drv_flash.c` of the SDK) | two sectors of flash per module | write and read an item, change sectors, repair after a power loss | partly (`NvStore`) |
| Frame counter (`drv_nv.c`) | two more sectors, `ss_ib.outgoingFrameCounter` | save, restore, back off from a damaged count | modelled (`FrameCount`) |
| SDK timers (`ev_timer.c`, the sleep of `drv_pm.c`) | pool of 24 events, their list, `timer_nearest`, the handles of the clients | schedule, cancel, count down, walk and call back, sleep | partly (`EvTimer`) |
| ZDP responses (`zigbee/zdo/zdp.c`) | none | opens a poll-rate window | partly: that call |
| Reporting and battery (`app_reporting.c`, `app_battery.c`) | reporting entries, battery timer | measure, report | not modelled |
| LED (`app_led.c`) | blink counter, LED timer | start, stop, blink | not modelled: output only |
| Factory reset by power cycling (`common/factory_reset.c`) | a counter in flash | count restarts | not modelled: it is compiled and never called |
| Endpoint tables (`app_endpoint_cfg.c`, `zcl_onoffSwitchCfg.c`) | constant tables | none | not modelled: data |
| Zigbee stack, drivers, boot loader, tools, converters | | | not modelled: libraries, I/O, build and host code |

**How they interact.** The parts share variables rather than exchange messages:

- `g_appCtx.not_sleep` is set by every button press, by `app_setPollRate` and by
  OTA, and cleared by eight callbacks in four files, each with its own idea of
  who else may still need it;
- `repeat_cmd_num` is read by the buttons (do not start the 100 ms sleep timer
  while commands are unconfirmed) and by `afApsAckCb` (let the device sleep when
  it becomes zero); three places reset it and one resets only the table;
- `timerSetPollRateEvt` says that a poll-rate window is open;
- `factory_reset` and `buttonFindBindFlag` are set by one button's gesture and
  consumed by a long press of any button;
- a coordinator that writes an attribute calls into the button and repeat code;
- everything that waits waits in the pool of SDK timers, through handles that the
  clients keep and must clear themselves;
- find and bind and the exchange of the link key keep their timers under one handle, a
  union (`tl_zigbee_sdk/zigbee/bdb/includes/bdb.h:389`): each tests, cancels and clears what
  may be the other's timer;
- `bdb.c` speaks with itself through the FIFO of scheduled tasks and with the
  application through two callbacks, in which the application starts timers that
  start the next attempt; `app_task` reports and sleeps only if `bdb_isIdle()`;
- settings and network data share the item store; the frame counter has sectors of
  its own and is saved by `bdb.c` and by the stack.

**What is hard.** Presses that come while an earlier gesture is being closed;
confirmations out of order, late, or never; the resources of one component reset by
another between two steps; timers that outlive what they were started for; a flag
set on one path and not cleared on another; sleeping while something is
outstanding; answers that come after their timeout, or never; the power going between
two writes to flash; a list walked while callbacks change it. `PROJECT.json` lists each
hazard at its line with the properties
that guard it, and says why where there is none yet.

**What makes each part correct.**

- *Repeat table:* the counter covers the table, nothing stays in it, a repeat goes
  to the lamp that was addressed and no command goes out a third time; a command
  reported lost is repeated, and what is repeated is what was sent.
- *Buttons:* a gesture never stalls, presses, releases, holds and their reports
  match, and flags shared by the buttons do not outlive their timers.
- *Sleep permission:* the device is awake only for a reason that will go away, it
  gets to sleep again, and it does not sleep inside a poll-rate window.
- *Find and bind, OTA, commissioning:* the permission to sleep comes back however
  they end, an attempt under way always has something that will carry it on, and
  a device without a network tries again.
- *Item store:* wherever the power goes (but for one moment, see the divergences) an item
  has its old or its new value and the others have theirs; what a power loss damaged is
  never read, copied or written behind.
- *Frame counter:* a restart never takes up a count below the last one saved, with the same
  exception.
- *SDK timers:* list and pool agree; a handle goes bad only where a client forgets it; no
  timer is lost, run early or run for someone else; the device does not oversleep one.

## 2. Modules

| Module | What it is |
|---|---|
| `RepeatCmd.tla` | the repeat table, the senders and the confirmation callback |
| `RepeatOnce.tla` | abstract promise of the table: a command that is pending may be given up or repeated, each command is repeated at most once, and only after it was sent |
| `MCRepeatCmd.tla` | an instance: the bindings of one endpoint |
| `RepeatCmdProofs.tla` | the theorems about `RepeatCmd` |
| `Button.tla` | the buttons, the sleep flag and every timer that writes it |
| `MCButton.tla` | instances, symmetry of the buttons |
| `ButtonProofs.tla` | the theorems about `Button` |
| `Commissioning.tla` | the state machine of `bdb.c` with the application's callbacks, timers and the answers of other devices |
| `CommissioningProofs.tla` | the theorems about `Commissioning` |
| `EvTimer.tla` | the pool and the list of SDK timers, their clients, and the sleep |
| `TimerSet.tla` | abstract promise of the timers: a set of armed timers, each its client's, that fire one at a time and not early, and how far a bad handle reaches |
| `MCEvTimer.tla` | an instance: the periods of two clients |
| `EvTimerProofs.tla`, `EvTimerRefinementProofs.tla` | the theorems about `EvTimer`; that it implements `TimerSet` |
| `NvStore.tla` | the item store, one flash operation per action |
| `NvMap.tla` | abstract promise of the store: a map on which a write is atomic, and which a torn sector flag empties at once |
| `MCNvStore.tla` | an instance, symmetry of items and values |
| `NvStoreProofs.tla`, `NvRefinementProofs.tla` | the invariant of `NvStore`; that it implements `NvMap` |
| `FrameCount.tla` | the frame counter in flash |
| `FrameCountProofs.tla` | the theorems about `FrameCount` |

### RepeatCmd

| Code | Model |
|---|---|
| `repeat_cmd[i]`, `used == false` | `repeat_cmd[s]`, `NoEntry` |
| `repeat_cmd_num` (`uint8_t`) | `repeat_cmd_num`, modulo `COUNT_MOD` |
| `app_cmdOnOff`, `app_*_level`, `app_color_*`, `app_scene_send` with `app_add_repeat_cmd` | `SendCommand`: the whole loop over groups and bindings is one action |
| `app_find_repeat_cmd` | `Matching`, `FirstOf` |
| `afApsAckCb` and `app_repeatCmd*` | `UnmatchedConfirm`, `MatchedConfirm` |
| `timerRepeatCmdNumClearCb` | `ClearTimerFires` |
| `app_lowPowerEnter`, long sleep | `LongSleep` |
| `device_model_init` | `DeviceModelInit`: the table is reset and the counter is not |
| reset | `Reboot` |

`air` holds the frames given to the stack that are not yet confirmed. Which
frames the stack accepts (the senders ignore its status), which confirmation
comes next and how it ends are free choices. `sent`, `failed` and `repeated` are
history and guard nothing but the bound `MaxSent`. Frames and entries carry a
number the firmware does not have; matching never looks at it, which is the
point of several properties.

### Button

One poll of a button is the action `Poll(i)`; the stages of the code's
`read_button_*` functions are operators on a record of the poll (`b` the
button, `a` the application's flags and timers): `Held` (500 ms press),
`Debounced` (recognition of a press or release), `Finished` (the end of a gesture).
The five `read_button_*` functions have this one shape and differ in what they
send; `OnPress` and `Moving` name the two families and `Sends` the commands.
`button_handler` with 10 presses reboots (`Reboots`).

| Code | Model |
|---|---|
| `app_button[i]` | `button[i]`; `recent` stands for `!clock_time_exceed(pressed_time, 500 ms)` |
| `g_appCtx.*` and the file's static timers | `app`, a record; `app.timers` the armed timers |
| `device_settings.switchType[i]` | `switchType[i]` |
| GPIO level | `key[i]` |
| `clearSleepCb`, `factoryResetCb`, `clearButtonFindBindFlagCb`, `set_pollRateCb`, `app_clearFindBindFlagCb` | `ClearSleepFires`, `FactoryResetFires`, `ButtonFindBindFires`, `SetPollRateFires`, `ClearFindBindFlagFires` |
| `app_setPollRate`, `app_findBindStart`, `clearButtonSleepTimer` | operators `SetPollRate`, `FindBindStart`, `ClearButtonSleepTimer` |
| `app_lowPowerEnter`, long sleep; `button_idle` | `LongSleep`; `Busy` (the C function returns TRUE when a button is busy) |
| `app_zclWriteReqCmd` | `WriteSwitchType`, `DeviceModelInit` |
| `app_otaProcessMsgHandler` | `OtaStart`, `OtaComplete` |
| repeat table as the buttons see it | `app.repeats`, `CommandsSettle`, `OtherConfirm` |

`app_findBindStart` tests the handle the wrong way round before it cancels
(`src/app_findbind.c:61`), so a second start leaves the first timer
running without a handle: that is the timer `leakedFindBind`. One leaked
timer is kept at a time.

### Commissioning

| Code | Model |
|---|---|
| `g_bdbCtx`, `g_bdbAttrs` | `bdb`, a record; `queue` the number of devices in the ring, `match` whether `matchClusterList` is set, `networkSteer` and `findOrBind` the bits of `commissioningMode` |
| `TL_SCHEDULE_TASK` | `tasks`, a FIFO; one action per event of `bdb_task` in the state that handles it, `Dropped` for the others |
| `identifyTimer` and `retrieveTcLkKeyTimer`, one handle for four callbacks | `bdb.identifyTimer`, which of them it is; `Confirmed`, `KeyDone` and `Cancelled` cancel it whichever it is, `FindBind` and `RetrieveTcLinkKeyStart` set theirs only if there is none |
| the other timers of `bdb.c`, `steerTimerEvt`, `rejoinBackoffTimerEvt`, `timerBdbFindBindEvt`, the end of `net_steer_start` | `timers` |
| `zb_bdbInitCb`, `zb_bdbCommissioningCb`, `app_leaveCnfHandler` | part of `InitDone`; `CommissioningCb`, part of every action that ends an attempt; `LeaveEnds`, and `LeaveFails` for a confirmation with a failure, at which the callback does nothing |
| `bdb_zdoStartDevCnf` | `StartDevCnf`, by `JoinEnds` and `ParentLost` |
| requests to other devices | `descs` and `awaited`: what is not yet answered |

The order of the code decides much here, and the model keeps it: the mode is set before
it is known whether the attempt is accepted (`TopLevel`), so a find and bind request
refused during steering turns that steering into find and bind when it ends
(`SteerDone`). `bdb.robbed` is no variable of the code: it notes that the attempt under way
was refused its timer, or lost it, over the shared handle, and no action reads it.

### EvTimer

`ev_timer` is the pool and the list (`next` pointers as in `utlist.h`), `pc` the place
of the main loop. What is on the list is what every set closed under `next` holds that
holds the first event (`From`, `Listed`), so that no length appears. `Process` is
`ev_timer_process` up to the walk; the walk of
`ev_timer_executeCB` is `Skip`, `Execute`, `ReturnEnd`, `ReturnAgain`, `EndPass`, one step
per event, and while `pc` is `"callback"` the clients may call. `handle[c]` is what a
client keeps; `Cancels` is the condition under which `ev_timer_taskCancel` does anything.
`Sleep` is both sleeps: until `timer_nearest`, or in the long sleep until the timer of a
client in `Sleepers` (the battery's). `waited` is the time since a timer was started, and
history except that `isRunning` and `curSysTick` of the code are read from it.

### NvStore and FrameCount

One action is one flash operation with the reads and choices that follow it; `pc` names
the next one, so that `Crash` can come between any two. A crash in the middle of the
write of an index entry leaves the entry `torn` (`TornEntry`); of a count, `Torn`
(`TornCount`); of the flag that makes a ready sector valid, two bytes under no checksum, the
sector `torn` (`TornFlag`).

| Code | Model |
|---|---|
| `nv_sector_read` | `ReadSector`, `Invalidate`, `Validate` (the repair) |
| `nv_flashWriteNewHandler` | `Erase`, `AppendEntry`, `ChangeSector`, `Dedup`, `CopyNext`, `CopyEnd`, `DeleteOld`, `SetReady`, `SetFirst` |
| `nv_write_item` | `WriteIndex`, `WritePayload`, `WriteHeader`, `WriteState` |
| `nv_flashReadNew` | `Read`, `Lookup` |
| low voltage in `flash_writeWithCheck`, and the read-back that fails | `Refused`, `IndexRefused`, in `FrameCount` also `NotErased` |
| `nv_nwkFrameCountSaveToFlash`, its handler | `Save`, `Search`, `WriteLast`, `WriteCount`, `WriteReady`, `WriteOld`, `WriteValid`, `Fail` |
| `nv_nwkFrameCountFromFlash` | `Start`, `Restore`, then the handler with `forceChgSec` |

`Stored` and `Recovered` say what a device that starts now would find: they are the
refinement mapping to `NvMap` and the quantity `CountIsKept` bounds.

## 3. Abstractions and bounds

**RepeatCmd and Button**

- Time: a timer may expire at any moment it is armed, and `recent` may end at any
  moment. Every ordering the real durations allow is included, and some they do not
  allow; so invariants that hold here hold for the code, and each
  counterexample was read back against the durations.
- One clock instant per poll, where the code reads the clock several times within
  microseconds.
- Buttons are polled in any order; in the code the order is fixed.
- The direction a movement goes (`dir_up`) is left out; a command of a gesture is an
  opening one, a closing one, or other.
- `bool` is an unsigned char in this SDK, so `hold = HOLD_FIX` (2) really is stored.
- The number of buttons polled is fixed; the model number in the code can change it.
- `open` counts reports also while the device has no network.
- The stack is a library: what it refuses, confirms and in which order is free;
  whether it counts an unacknowledged frame as busy is not known, so `LongSleep`
  may happen with frames outstanding.
- `app_del_repeat_cmd` is never called and has no action.
- Bounds: `MaxSent`, commands sent in a behaviour; four are two more than the table of
  two slots holds, so that it overflows and refills. `DriftBound` (in `DeviceModelInit`): a
  model write empties the table and leaves the counter, so repeated writes let the counter
  drift upwards; it would wrap only after 15 writes with full tables within one 30 s
  watchdog period, which the guard excludes, and the theorems hold under it. `MaxCounter`: no
  key goes down at that press count; it is 6, where the reboot gesture ends a series, and 5
  (`FR_COUNTER_MAX`) in `button_two`; the wrap of the 8 bit counter is beyond it.
  `MaxWindows`: poll-rate windows opened by other components.

**Commissioning**

- It begins with `bdb_init`, after a factory reset or on a known network; touchlink is
  off in `app_cfg.h`, nothing forms a network, and `tl_bdbReset` is not modelled.
- Which lamp is asked and bound is left out: only how many wait.
- The three slow timers (rejoin 1 min, 5 s between attempts for the key, 1 s before
  the first) expire only while no task waits, because the loop runs a task in
  microseconds; the others may expire at any moment.
- The stack does one thing at a time, and a request made while it is busy is ignored.
  A failed rejoin of a device that was joined counts as a loss of the parent.
- Answers reach only a device that is joined. Those in `Lossy` may be lost or negative,
  and with `leave` in it a leave may fail.
- The identify attribute is registered for every endpoint (`src/app_endpoint_cfg.c`), so
  `bdb_findBindIdentifyTimeout` never returns at `src/zigbee/bdb/bdb.c:684`.
  A device that left does not get the key of the network it left.
- `tcLinkKeyExchangeAttempts` stops at one above its maximum; only the comparison is used.
- The model rests when nobody presses a key, so the deadlock check is off.
- Bounds: a ring of 2 slots, 1 further attempt for the key, `MaxFinds` 1, `MaxHeard` 2
  (one more than the ring holds), `MaxLosses` 1. `TypeOK`, `FindIsTidy`, `AttemptGoesOn`
  and `NetworkIsRetried` are proved for all of them. `AttemptEnds` is not, and with two
  gestures and a lost parent it holds only in real time: without durations the one-minute
  rejoin timer may come again inside every exchange of the key, which takes about 21
  seconds, and so keep the exchange from ending.

**EvTimer**

- Time passes in ticks, `TICKS` to a millisecond; `MaxLag` ticks at most between two
  passes. With `TICKS` 2 and `MaxLag` 1 a pass sees half a millisecond to carry, or that
  and the half carried before, which make a whole one; a sleep counts one or two. A pass
  that comes later than that, and with it a whole millisecond in `lag` itself, is covered
  by the proofs alone, which hold for every `MaxLag` and `TICKS`.
- Interrupts are off where the code touches the list, so a call is one step.
- An exhausted pool raises an exception that resets the device (`Exhausted`).
- Clients follow one of the two idioms of the application: cancel and schedule again,
  or schedule when the handle is null. `Forgetful` clients leave the handle behind when
  their callback ends the timer; in the run one of the two does (the one with the longer
  period, which also ends the long sleep), as
  `app_getCoordinatorExtAddrCb` does (see the divergences below).
- Bounds: three events (24 in the code), two clients with periods of 1 and 2 ms.
  Three events are enough for one at the head, one under the walk and one that comes or goes.

**NvStore and FrameCount**

- An erasure happens or not. A write that the power cuts short leaves a prefix of its bytes,
  in order. Of an index entry or a count that is a torn one; of the flag that turns a
  sector from ready (0xFAFA) to valid (0x7A7A) it is 0xFA7A, neither of the two
  (`TornFlag`); an old sector set invalid (0x5050) is dead with its first byte; a new
  sector's header, and what begins with it, does not pass its checksum before it is whole;
  a state is one byte. Nothing rots.
- All callers in `src/` pass `single = 1`. Payload sizes are left out: a sector may be full
  before its entries are, so `ChangeSector` is always possible.
- A write where the flash was not erased fails its read-back. What an invalid entry or
  sector holds is never looked at again and forgotten.
- `FrameCount`: two saves are at most `UPDATE_FRAMECOUNT_THRES` apart and never go down, as
  the closed stack must ensure for the back-off of `nv_nwkFrameCountFromFlash` to make
  sense; the wrap of the 32 bit counter is beyond the bound; a count written in part has its
  high bytes 0xff (`Torn`).
- `MaxRefused` writes are refused for low voltage. The code ignores some refusals
  (`tl_zigbee_sdk/proj/drivers/drv_nv.c:397`), so `AtomicMap`, `CountIsKept` and
  `CounterIsFresh` promise nothing after one; `CurrentIsSound` holds all the same.
- A torn sector flag loses what was stored. `AtomicMap` allows it as one step of `NvMap`
  (`Tear`), in which everything goes at once and nothing is half there; in `FrameCount` the
  record `saved` goes back to 0 with it, so that `CountIsKept` and `CounterIsFresh` speak of
  the saves that come after.
- Bounds: two items, two values and three entries (a sector overflows at the fourth write
  and a copied sector has room for the new value); counts up to 6, a threshold of 2 and
  four counts per sector (the back-off needs three); one refusal.

## 4. Runs

Constants of the code that only set a length are made small: `DEBOUNCE_BUTTON` is 2
or 3 (16 in the code; 3 is the smallest value at which a key can turn back in
the middle of debouncing), `REPEAT_CMD_NUM` is 2 and `COUNT_MOD` 6 (16 and 256).
`BATTERY_COUNTER` 4 and `FR_COUNTER_MAX` 5 are those of the code, and
`RESET_DEVICE_COUNTER` is 6 (10 in the code), the first count above them; `button_two`
stops at 5 presses and leaves the reboot to the runs with one button.
Proofs cover the other values.

| Run | Question | Answer |
|---|---|---|
| `repeat_table` | Do the counter, the table, the watchdog and the repeats agree, with a lamp, a group and step commands, overflow, resets and lost confirmations? Is a lost command repeated when no other for the same lamp is in the table? Does the table implement `RepeatOnce`? With the watchdog fair, does the counter return to zero whatever the radio does? | yes |
| `button_types` | One button of the momentary, multifunction and movement types, bouncing keys, model writes, one window: does a gesture ever stall, is the device awake for nothing, is a window respected? | properties hold |
| `button_env` | One button of the other types, type and model writes, network loss, OTA: the flags, the sleep, the window | properties hold |
| `button_two` | Two buttons sharing gesture flags and timers | properties hold |
| `button_live` | Does a released key leave its button idle, and does the device get to sleep? | yes |
| `commissioning` | Two lamps heard, one gesture, one lost parent, answers late or never, a leave that fails: does every attempt go on and end, is find and bind left tidy, does a device without a network try again? | yes, but for the attempts robbed over the shared handle and the two other exceptions below |
| `ev_timer` | Do list, pool, walk and sleep agree while callbacks change the list and one client forgets its handle? How does a handle go bad? Do the timers implement `TimerSet`, and does every timer run? | yes; only by the forgetting callback, and from there through the bad handle |
| `nv_store` | Does the store implement `NvMap` with a power loss at any operation, and does the sector in use stay sound even when a write is refused? | yes; `NvMap` has a step for the torn flag |
| `frame_count` | Does a restart ever go below the count last saved? | no, until a write is refused or a sector flag is torn |
| `find_stuck` | Does the device get to sleep when the answer to an address request is lost? | **no** |
| `ota_failure` | Does it after a failed download? | **no** |
| `momentary_edges` | Do press and release commands alternate? | **no** |

Deadlock is checked in every run but those of `Commissioning`: elsewhere the loop always
has a next step. `repeat_table`, `ev_timer` and `commissioning` put FairSpec, not Spec, in
their cfg for the sake of their liveness property; the difference is only in liveness.

### Fairness

Weak fairness stands for facts of the code: the loop in `common/main.c` never
stops calling `app_task`, which polls every button (`Poll`), and `ev_timer_process`, which
runs every timer that is due (the `*Fires` actions, `MainLoop`, the timeouts of
`Commissioning`), and the scheduled tasks (`RunTask`); time passes (`Elapse`, `Tick`);
callbacks return (`CallbacksReturn`); the stack ends a join, rejoin or leave it has begun; and
the repeat table drains (`CommandsSettle`), which is what `Drains` shows of `RepeatCmd`
from the watchdog alone. No fairness is assumed of keys, hosts, the OTA server, lamps to be
found or the trust centre: `EventuallySleeps` speaks of behaviours in which the keys stay
up from some point on. In `commissioning` an address request is answered (it is not in
`Lossy` there); that this assumption is needed is what `find_stuck` shows. A leave ends
with success or failure, and which is not fair.

### What the failing runs show

1. `find_stuck`: `FallsAsleep` leaves aside attempts robbed over the shared handle, which is
   the other way to stay awake (below). The identify timer is cancelled before a lamp's long
   address is asked for,
   and nothing times the question out (`src/zigbee/bdb/bdb.c:421`). Find and bind never
   ends, later descriptors are ignored because the list of clusters is still set, and
   `bdb_isIdle()` stays false, so the device neither reports nor sleeps.
2. `ota_failure`: `g_appCtx.ota` is set and never cleared (`src/zb_appCb.c:341`).
3. `momentary_edges`: a press recognised as the first one's 500 ms end is taken
   for a hold, and two closing commands follow one opening (`src/app_button.c:639`).

### Known divergences without a run

The models contain these behaviours; the properties are stated so that they except them,
or are silent about them.

- A confirmation is matched by endpoint, cluster and address. When On and Off go to one
  lamp in quick succession and the frame of On was refused, the failure of Off
  finds the entry of On: On is sent again and Off is not (`src/app_repeat_cmd.c:34`).
  `LoneLossIsRepeated` is therefore about a command alone under its key.
- `app_step_level` sends step-with-on-off and records step (`src/app_level.c:293`).
- `button_init`, called when the model is written, throws the open gesture away and with it
  the timer that would have cleared `not_sleep` (`src/app_device.c:46`); `AwakeHasReason`
  excepts it.
- The ends of find and bind and of the factory reset gesture clear `not_sleep` inside a
  window (`src/app_findbind.c:103`, `src/app_button.c:75`); `OnlyGesturesCutWindows` shows
  that nothing else does.
- A hold on the fifth press is reported and its release is not (`src/app_button.c:436`).
- The hold test uses `pressed` and `hold_time` of the press before while the next one is
  still being debounced (`src/app_button.c:378`), so a second press that has only begun
  can count as a hold.
- `app_getCoordinatorExtAddrCb` ends its timer and keeps the handle
  (`src/app_findbind.c:91`); the next commissioning cancels by it whatever timer has the
  event by then, and the client of that timer is left with a bad handle as well. The run
  `ev_timer` has such a client; `LosesHandle` names these two ways to a bad handle.
- Find and bind and the key exchange share one timer handle (`bdb.h:389`), by which each may
  leave the other standing still. `bdb_isIdle()` stays false then: the device neither
  reports nor sleeps, against `README.md:125`, and the timer that
  `src/zigbee/bdb/bdb.c:758` announces is not there. The model reaches three ways.
  The parent is lost while the key's timer runs: the steering ends and, with a gesture
  queued, turns into find and bind, for which no timer is set (`bdb.c:759`); when the key's
  timer ends nothing is left. Or the question for the trust centre's node descriptor is
  answered a second time after the key has come: `bdb_retrieveTcLinkKeyTimerStop` cancels
  the timer of the find and bind begun meanwhile (`bdb.c:873`), and for this no
  answer has to be lost. Or a lamp's descriptor comes late, in the next steering, and
  cancels the key's timer (`bdb.c:515`). `AttemptGoesOn`, `AttemptEnds` and `FallsAsleep`
  except these attempts (`robbed`) and no others; that nothing of find and bind outlives it
  (`FindIsTidy`) and that the network is tried again (`NetworkIsRetried`) holds all the same.
- A leave whose confirmation reports a failure is not asked for again, since `leaveDoing`
  stays set (`bdb.c:979`), and the steering waits for it for ever (`LeaveFailed`).
- The power loss between the two bytes of a new sector's mark (`drv_nv.c:228`, `765`, `968`)
  leaves 0xFA7A, which `nv_sector_read` takes for no sector, when the old one is invalid
  already: all settings, or the frame counter, are gone.
- `nv_write_item` ignores a refused write of the state and reports success
  (`tl_zigbee_sdk/proj/drivers/drv_nv.c:397`).
- A torn second count of a sector is not recognised, since the comparison begins with the
  third (`drv_nv.c:1005`): the counter jumps to nearly its end. Nothing goes below what was
  saved.
- After a failed save the second try is told that the bad sector is number 255
  (`drv_nv.c:977`) and marks an address outside of the two sectors; the bad sector stays
  valid.
- A start that `bdb.c` refuses because it is busy is not looked at, and the steering timer
  that asked for it is gone (`src/zb_appCb.c:79`). The attempt it met sets the timer again
  when it ends as a steering; a find and bind that ends without a lamp, or with its table
  full, after the device has left does not, and the device stays without a network until
  the next gesture. `NetworkIsRetried` promises nothing after these results.
- A device that leaves drops its rejoin timer. When a rejoin asked for before fails only
  then, its result is told as a failed rejoin and nothing is set: a device that has left is
  the exception in the second part of `NetworkIsRetried`.

## 5. Proofs

The theorems hold for every value of the constants that the named assumptions of the
modules allow.

**`RepeatCmdProofs`**: any table size, counter width above it, endpoints, binding
layout and number of commands. `TypeCorrect`, `CountIsSafe`
(`CountCoversTable`), `WatchdogGuards` (`WatchdogArmed`), `TableIsFaithful`
(`TableRecordsSent`), `RepeatsAreAddressed` (`RepeatsToSameTarget`),
`NeverThreeTimes` (`AtMostOneRepeat`), `LoneLossRepeats` (`LoneLossIsRepeated`) and
`Refinement` (`RepeatsOnce`) follow from
`Invariance`. The checked invariants are not inductive as they stand. Two
conjuncts are added: *RepeatedIsForgotten* (an entry in the table has not been
repeated, which is why a repeat is always the first one) and *AirRecordsSent*
(every frame under way agrees with the command it was made from, which is why an
entry that matches a confirmation names the same lamp as the frame). The
part that needs work is adding to the table: the k-th recorded target takes the
k-th free slot, and lemmas about ranks in finite sets show that slots and targets pair
one to one, so that ids stay distinct and the counter grows by the number of new
entries.

**`ButtonProofs`**: any number of buttons, any debounce length above 1, any
gesture counters in their order. `TypeCorrect`, `NoGestureStalls`
(`GestureCannotStall`), `FlagsAreTimed` (`FlagsHaveTimers`),
`NeverAwakeForNothing` (`AwakeHasReason`) follow from `Invariance`;
`WindowsAreRespected` is the action property `OnlyGesturesCutWindows`. The invariant is the
conjunction of the four; what has to be found is what holds in the middle of a poll.
`PollGood` is the invariant of one poll's record: it survives `Held`, `Debounced`
and `Finished` one after the other, and one lemma per stage says so.

**`NvStoreProofs`, `NvRefinementProofs`**: any items, values and number of entries above 1.
The invariant has two parts. `SInv` holds whatever is refused: both sectors are sound, and
the entry being written is the one after the last in use; it gives `TypeCorrect` and
`CurrentSound`. `RInv` holds until a write is refused and says what each flash operation
has reached: appending in place (`InPlace`: an old entry is deleted only when a newer one of
its item is valid) or copying (`InUpdate`: the new sector holds what the old one holds up to
the entry dealt with). One lemma per action shows that it keeps `RInv` and leaves what is
found unchanged, or makes the update take effect; together they are `Refinement`
(`AtomicMap`). The effect of a write is the write of its state byte in place, and the
header of the new sector, or the mark on the old one that comes first in the search, in a
change of sectors. `FlagTorn` and `TearLoses` are the exception: a flag is torn only where the
other sector is invalid, so that nothing is found afterwards, and `OnlyCrashTears` says that
no other step tears one.

**`FrameCountProofs`**: any threshold, sector size above 2 and bounds. `TypeCorrect`;
`CountSurvives` (`CountIsKept`) and `CounterStaysFresh` (`CounterIsFresh`) from `Sound`, which
says for each flash operation what both sectors hold (`Stage`): the sector given up is still
the one a start would read, or the new one is complete; and the count it would restore is
at least the last saved. After a torn flag neither sector is read and `saved` is 0.

**`CommissioningProofs`**: any ring, number of attempts, set of lossy answers and bounds.
`TypeCorrect`, `FindTidy` (`FindIsTidy`) and `AttemptsGoOn` (`AttemptGoesOn`). The last
needs `GoesOn`: no result of an attempt is "in progress", or an idle device would look
busy; a scheduled start never meets a stack that is leaving, or steering would begin with
its request to join ignored; and find and bind has a task that leads on, its timer, or a
match, which (unless the answer is lossy) means that the address is still awaited; or it
was robbed. Who may cancel a timer that is not his is settled by `FindIsTidy`: outside find and
bind the shared handle can hold the key's timer only, so an attempt that loses it is a
steering.

`TriesAgain` (`NetworkIsRetried`) is about a device at rest, and says nothing while one of
the many steps between two attempts is still to come; `WillTry` says at each of them what
will bring the next attempt or another result: a timer, a job of the stack, a start or a
failed rejoin among the tasks. Where it is a task or a job it needs to know what that will
find. `Starting`: a device that begins without a network is joined by nothing before its
first task has run. `LeavingIsLast`: while the stack leaves, no failed rejoin is about to be
told, and no task will make the device take itself for one on a network again, or the end
of the leave could set neither timer. Steps that tell the application a result and the
quiet steps between them are one lemma each (`ToldWillTry`, `QuietWillTry`).

**`EvTimerProofs`**: any pool, clients, timeouts, ticks per millisecond and lag.
`TypeCorrect`, `PoolStaysConsistent` (`PoolIsConsistent`), `WalkStaysSafe` (`WalkIsSafe`),
`NearestStaysFirst` (`NearestIsFirst`), `NothingDueStaysLeft` (`NothingDueIsLeft`) and
`HandlesStayOwn` (`OnlyForgettersLoseHandles`, an action property). A linked list of any
length invites induction along the
pointers, which the provers cannot do; the argument is over sets instead. `IsList` says
that from the first event the pointers leave every set but the whole list, and leave each
part of it, so there is no circle; that adding at the head and deleting anywhere keep this,
and which events lie behind a given one before and after, are lemmas about pointers alone
(`AddIsList`, `DeleteIsList`, `AddKeepsPath`, `DeleteKeepsPath`). That an earliest event
exists, which `timer_nearest` must be, needs that a nonempty set of numbers has a least
one; `LeastExists` proves it from finite sets. The invariant is `TInv` (types, the list, where the
walk may stand) and `PInv`, in which `DueIsAhead` is added to the checked properties: an
event that is due while the walk is under way is the next one or behind it.
`HandlesStayOwn` holds whichever clients are in `Forgetful`: a call changes the free events
and the one its handle names, so a handle of another client goes bad only if it names the
same event, which then one of the two does not own.

**`EvTimerRefinementProofs`**: `PromiseIsKept` (`TimersKeepPromise`), whichever clients forget
their handles. What has to be found is why a timer does not fire early, as
`ev_timer_update` charges all timers at once with the whole milliseconds since the last pass and
carries a remainder: `Counted` keeps the account of each timer in ticks. One that was not
counted yet has its whole period before it; of one that was, what has been taken off is at
most what it waited, up to less than a millisecond of remainder from before it was first
counted. Then each step maps to a step of `TimerSet` or a stutter, action by action.

**Only model-checked**: the liveness properties (`Drains`, `KeyUpSettles`,
`EventuallySleeps`, `AttemptEnds`, `EveryTimerRuns`; fairness and ENABLED are outside the
prover's reach). Every invariant and every action property of the passing runs is proved,
and so is each of the three refinements.

## 6. Not modelled

- *Reporting and battery*: the table of intervals; periods of zero
  (`src/zcl_appCb.c:326`). *LED*: output only.
- *The sector of the device model* (`src/app_device.c:188`): erased and written directly,
  with nothing that would repair an interruption.
- *Composition* of `Button` and `RepeatCmd` with lamps: the final state of a lamp after
  commands and repeats (`src/app_main.c:124`), the network lost between press and
  release (`src/app_button.c:652`). `Button` keeps of the repeat table only whether
  commands wait (`app.repeats`), and what it assumes of it is `Drains`.
- `dir_up`, and the 32 bit clock (`src/app_button.c:248`).
- In `bdb.c`: touchlink, formation, install codes, `tl_bdbReset` with the timer handles it
  loses (`src/zigbee/bdb/bdb.c:1899`), which lamp is bound to which endpoint
  (`src/zcl_appCb.c:488`).
- In `drv_nv.c`: removal of a single item, resets of whole modules, items with several values.
- The Zigbee stack proper is a binary library; its effect is in the free choices of the
  environment.

Most of the repository's lines are the vendored SDK: drivers and register headers of
several chip families, of which the firmware uses one, the ZCL cluster library, Green
Power and the boot loader. They hold no state of this application and are not modelled, so the
part of the repository the definitions stand for is small. Of `app_button.c`,
`app_repeat_cmd.c`, `zb_appCb.c`, `drv_nv.c` and `ev_timer.c` it is more than half, of
`bdb.c` about half; of `zcl_appCb.c` and `app_endpoint_cfg.c`, which are tables and
assignments, next to nothing.

Next in line would be the reporting table, and then the composition with lamps.
