------------------------------ MODULE RepeatCmd ------------------------------
(***************************************************************************)
(* The repeat table of the remote (app_repeat_cmd.c) together with its two *)
(* users: the functions that send a command to every binding of a button   *)
(* (app_on_off.c, app_level.c, app_color_temp.c, app_scene.c) and the      *)
(* APS confirmation callback (afApsAckCb, app_main.c).                     *)
(*                                                                         *)
(* A command sent to a unicast binding is recorded in the table.  When its *)
(* APS confirmation reports a failure the recorded command is sent a       *)
(* second time, without an acknowledgement request, and the entry is       *)
(* freed.  A 30 s watchdog empties the table if confirmations stay away,   *)
(* and a long sleep discards it.  The firmware is one event loop, so each  *)
(* handler is one atomic action; the radio and the peer are the            *)
(* environment that chooses which confirmation comes next and how it ends. *)
(***************************************************************************)
EXTENDS Naturals, Sequences, FiniteSets

CONSTANTS
  REPEAT_CMD_NUM,  (* slots of the table (16 in the firmware)                *)
  COUNT_MOD,       (* repeat_cmd_num is a uint8_t: 256 in the firmware       *)
  Endpoints,       (* the button endpoints                                   *)
  Commands,        (* the commands the buttons send, a part of CommandNames  *)
  Targets,         (* Targets[ep][cl]: where the commands of endpoint ep on  *)
                   (* cluster cl go: its groups, then its bindings, in order *)
  MaxSent          (* bound on the number of commands sent                   *)

-----------------------------------------------------------------------------
CommandNames == {"off", "on", "toggle", "moveToLevel", "moveToLevelWithOnOff",
                 "moveWithOnOff", "stop", "step", "stepWithOnOff",
                 "moveToColorTemp", "stopMoveStep", "stepColorTemp",
                 "recallScene"}

Cluster == [c \in CommandNames |->
              CASE c \in {"off", "on", "toggle"} -> "onoff"
                [] c \in {"moveToColorTemp", "stopMoveStep", "stepColorTemp"}
                     -> "color"
                [] c = "recallScene" -> "scenes"
                [] OTHER -> "level"]
Clusters == {"onoff", "level", "color", "scenes"}

(* The command the table remembers for a command sent: app_step_level sends *)
(* step-with-on-off and records step; the others record what they send.     *)
Stored(c) == IF c = "stepWithOnOff" THEN "step" ELSE c

(* A target: a lamp or a group, reached through a binding or (groups only)  *)
(* through the group table of the endpoint.                                 *)
Target == [name : STRING, group : BOOLEAN, binding : BOOLEAN]

Slots == 1..REPEAT_CMD_NUM
Ids == 1..MaxSent

ASSUME ConstantsOK ==
  /\ REPEAT_CMD_NUM \in Nat \ {0}
  /\ COUNT_MOD \in Nat /\ COUNT_MOD > REPEAT_CMD_NUM
  /\ MaxSent \in Nat
  /\ Commands \subseteq CommandNames
  /\ Targets \in [Endpoints -> [Clusters -> Seq(Target)]]

VARIABLES
  repeat_cmd,                 (* the table: an entry, or NoEntry when !used   *)
  repeat_cmd_num,             (* the counter beside it                        *)
  timerRepeatCmdNumClearEvt,  (* is the 30 s watchdog armed                   *)
  not_sleep,                  (* g_appCtx.not_sleep                           *)
  air,                        (* frames given to the stack, not yet confirmed *)
  sent,                       (* history: the commands sent, by number        *)
  failed,                     (* history: recorded commands reported lost     *)
  repeated                    (* history: commands sent a second time         *)

vars == <<repeat_cmd, repeat_cmd_num, timerRepeatCmdNumClearEvt, not_sleep,
          air, sent, failed, repeated>>

(* What a slot remembers and what a frame carries.  id numbers the command, *)
(* a history field: the firmware has no such number, which is why a         *)
(* confirmation is matched by endpoint, cluster and destination alone.      *)
(* cause is the number of the frame whose failure made this one go out.     *)
NoEntry == [used |-> FALSE]
Sendings == [ep : Endpoints, cluster : Clusters, dest : Target, cmd : CommandNames]
Entries == [used : {TRUE}, id : Ids, ep : Endpoints, cluster : Clusters,
            dest : Target, cmd : CommandNames]
Frames == [id : Ids, ep : Endpoints, cluster : Clusters, dest : Target,
           cmd : CommandNames, repeat : BOOLEAN, cause : Ids]

Used == {s \in Slots : repeat_cmd[s].used}
Free == Slots \ Used

U8(n) == IF n < COUNT_MOD THEN n ELSE n - COUNT_MOD

-----------------------------------------------------------------------------
(* Position of x in the increasing enumeration of the set S.                *)
Rank(S, x) == Cardinality({y \in S : y <= x})

(* The targets recorded: bindings; app_cmdOnOff leaves out group bindings,  *)
(* the level, colour and scene functions record them too.                   *)
Recorded(ep, cl) ==
  {i \in DOMAIN Targets[ep][cl] :
     /\ Targets[ep][cl][i].binding
     /\ cl = "onoff" => ~Targets[ep][cl][i].group}

(* app_add_repeat_cmd takes the first free slot, once per recorded target   *)
(* in order: the k-th of them gets the k-th free slot, and when the slots   *)
(* run out the rest is not recorded.                                        *)
Takes(ep, cl, s, i) == Rank(Recorded(ep, cl), i) = Rank(Free, s)
Added(ep, cl) == {s \in Free : \E i \in Recorded(ep, cl) : Takes(ep, cl, s, i)}

(* Mutant of NewEntry: every entry records the first target.                *)
NewEntryOfFirst(ep, c, i) ==
  [used |-> TRUE, id |-> Len(sent) + i, ep |-> ep, cluster |-> Cluster[c],
   dest |-> Targets[ep][Cluster[c]][1], cmd |-> Stored(c)]

NewEntry(ep, c, i) ==
  [used |-> TRUE, id |-> Len(sent) + i, ep |-> ep, cluster |-> Cluster[c],
   dest |-> Targets[ep][Cluster[c]][i], cmd |-> Stored(c)]

(* Mutant of AddEntries: the watchdog is not started.                       *)
AddEntriesUnwatched(ep, c) ==
  LET cl == Cluster[c]
      taker(s) == CHOOSE i \in Recorded(ep, cl) : Takes(ep, cl, s, i)
  IN  /\ repeat_cmd' = [s \in Slots |->
                          IF s \in Added(ep, cl) THEN NewEntry(ep, c, taker(s))
                                                 ELSE repeat_cmd[s]]
      /\ repeat_cmd_num' = U8(repeat_cmd_num + Cardinality(Added(ep, cl)))
      /\ UNCHANGED timerRepeatCmdNumClearEvt

AddEntries(ep, c) ==
  LET cl == Cluster[c]
      taker(s) == CHOOSE i \in Recorded(ep, cl) : Takes(ep, cl, s, i)
  IN  /\ repeat_cmd' = [s \in Slots |->
                          IF s \in Added(ep, cl) THEN NewEntry(ep, c, taker(s))
                                                 ELSE repeat_cmd[s]]
      /\ repeat_cmd_num' = U8(repeat_cmd_num + Cardinality(Added(ep, cl)))
      /\ timerRepeatCmdNumClearEvt' =
           (timerRepeatCmdNumClearEvt \/ (repeat_cmd_num = 0 /\ Added(ep, cl) # {}))

(* app_reset_repeat_cmd *)
ResetTable == repeat_cmd' = [s \in Slots |-> NoEntry]

(* clearButtonSleepTimer: clears not_sleep unless a poll-rate window, an    *)
(* OTA download or the find-and-bind gesture (other components) forbids it. *)
ClearButtonSleepTimer == \E allowed \in BOOLEAN :
                            not_sleep' = (not_sleep /\ ~allowed)

-----------------------------------------------------------------------------
Init ==
  /\ repeat_cmd = [s \in Slots |-> NoEntry]
  /\ repeat_cmd_num = 0
  /\ timerRepeatCmdNumClearEvt = FALSE
  /\ not_sleep = FALSE
  /\ air = {}
  /\ sent = <<>>
  /\ failed = {}
  /\ repeated = {}

(* A button sends command c to all its targets: app_cmdOnOff,               *)
(* app_move_to_level, app_move_level, app_stop_level, app_step_level,       *)
(* app_color_*, app_scene_send.  The status the stack returns is ignored,   *)
(* so any subset of the frames may have been refused and never be           *)
(* confirmed.                                                               *)
SendCommand(ep, c) ==
  LET to == Targets[ep][Cluster[c]]
      frame(i) == [id |-> Len(sent) + i, ep |-> ep, cluster |-> Cluster[c],
                   dest |-> to[i], cmd |-> c, repeat |-> FALSE,
                   cause |-> Len(sent) + i]
  IN  /\ Len(sent) + Len(to) <= MaxSent
      /\ AddEntries(ep, c)
      /\ \E accepted \in SUBSET DOMAIN to :
           air' = air \cup {frame(i) : i \in accepted}
      /\ sent' = sent \o [i \in DOMAIN to |->
                            [ep |-> ep, cluster |-> Cluster[c], dest |-> to[i],
                             cmd |-> c]]
      /\ UNCHANGED <<not_sleep, failed, repeated>>

(* Mutant of Matching: the destination is not compared.                     *)
MatchingAnyDest(f) == {s \in Used : /\ repeat_cmd[s].ep = f.ep
                                    /\ repeat_cmd[s].cluster = f.cluster}

(* app_find_repeat_cmd: the used slots whose endpoint, cluster and          *)
(* destination are those of the confirmation, and the first of them.        *)
Matching(f) == {s \in Used : /\ repeat_cmd[s].ep = f.ep
                             /\ repeat_cmd[s].cluster = f.cluster
                             /\ repeat_cmd[s].dest.name = f.dest.name
                             /\ repeat_cmd[s].dest.group = f.dest.group}
FirstOf(S) == CHOOSE s \in S : \A t \in S : s <= t

(* app_repeatCmdOnOff / Level / Scene / ColorCtrl: what the entry e         *)
(* remembers goes out again because frame f was not acknowledged.           *)
RepeatFrame(e, f) == [id |-> e.id, ep |-> e.ep, cluster |-> e.cluster,
                      dest |-> e.dest, cmd |-> e.cmd, repeat |-> TRUE,
                      cause |-> f.id]

(* Mutants of UnmatchedConfirm: the counter goes down for every confirmation, *)
(* with the test for zero and without it.                                   *)
UnmatchedConfirmCounts(f) ==
  /\ f.dest.group \/ Matching(f) = {}
  /\ air' = air \ {f}
  /\ repeat_cmd_num' = IF repeat_cmd_num > 0 THEN repeat_cmd_num - 1 ELSE 0
  /\ UNCHANGED <<repeat_cmd, timerRepeatCmdNumClearEvt, not_sleep, sent,
                 failed, repeated>>
UnmatchedConfirmUnderflows(f) ==
  /\ f.dest.group \/ Matching(f) = {}
  /\ air' = air \ {f}
  /\ repeat_cmd_num' = repeat_cmd_num - 1
  /\ UNCHANGED <<repeat_cmd, timerRepeatCmdNumClearEvt, not_sleep, sent,
                 failed, repeated>>

(* afApsAckCb for a confirmation that matches no entry; the endpoint in the *)
(* confirmation of a group frame is the stack's choice, so that one may     *)
(* match nothing even when its entry is there.                              *)
UnmatchedConfirm(f) ==
  /\ f.dest.group \/ Matching(f) = {}
  /\ air' = air \ {f}
  /\ IF repeat_cmd_num = 0 THEN ClearButtonSleepTimer ELSE UNCHANGED not_sleep
  /\ UNCHANGED <<repeat_cmd, repeat_cmd_num, timerRepeatCmdNumClearEvt, sent,
                 failed, repeated>>

(* Mutant of MatchedConfirm: the entry stays in the table.                  *)
MatchedConfirmKeepsEntry(f, success) ==
  /\ Matching(f) # {}
  /\ LET e == repeat_cmd[FirstOf(Matching(f))]
         retry == ~success /\ ~f.dest.group
     IN  /\ air' = (air \ {f}) \cup (IF retry THEN {RepeatFrame(e, f)} ELSE {})
         /\ repeated' = IF retry THEN repeated \cup {e.id} ELSE repeated
  /\ UNCHANGED <<repeat_cmd, repeat_cmd_num, timerRepeatCmdNumClearEvt,
                 not_sleep, sent, failed>>

(* afApsAckCb for a confirmation that matches an entry; a repeated frame    *)
(* that the stack refuses is never confirmed.                               *)
MatchedConfirm(f, success) ==
  /\ Matching(f) # {}
  /\ LET s == FirstOf(Matching(f))
         e == repeat_cmd[s]
         retry == ~success /\ ~f.dest.group
     IN  /\ \E accepted \in BOOLEAN :
              air' = (air \ {f}) \cup
                     (IF retry /\ accepted THEN {RepeatFrame(e, f)} ELSE {})
         /\ failed' = IF retry /\ ~f.repeat /\ \E t \in Used : repeat_cmd[t].id = f.id
                      THEN failed \cup {f.id} ELSE failed
         /\ repeated' = IF retry THEN repeated \cup {e.id} ELSE repeated
         /\ repeat_cmd' = [repeat_cmd EXCEPT ![s] = NoEntry]
         /\ repeat_cmd_num' = IF repeat_cmd_num > 0 THEN repeat_cmd_num - 1 ELSE 0
         /\ IF repeat_cmd_num' = 0 THEN ClearButtonSleepTimer
                                   ELSE UNCHANGED not_sleep
  /\ UNCHANGED <<timerRepeatCmdNumClearEvt, sent>>

(* afApsAckCb runs for any confirmation of a frame from a button endpoint   *)
ApsConfirm == \E f \in air : \/ UnmatchedConfirm(f)
                             \/ \E success \in BOOLEAN : MatchedConfirm(f, success)

(* timerRepeatCmdNumClearCb: the watchdog expires *)
ClearTimerFires ==
  /\ timerRepeatCmdNumClearEvt
  /\ repeat_cmd_num' = 0
  /\ ResetTable
  /\ ClearButtonSleepTimer
  /\ timerRepeatCmdNumClearEvt' = FALSE
  /\ UNCHANGED <<air, sent, failed, repeated>>

(* app_lowPowerEnter, the branch that enters the long deep sleep: the table *)
(* and its watchdog go.  Whether the stack counts a frame that waits for    *)
(* its acknowledgement as busy is the library's secret: both are allowed.   *)
LongSleep ==
  /\ ~not_sleep
  /\ ResetTable
  /\ repeat_cmd_num' = 0
  /\ timerRepeatCmdNumClearEvt' = FALSE
  /\ UNCHANGED <<not_sleep, air, sent, failed, repeated>>

(* device_model_init (a model attribute written over the air): the table    *)
(* goes, the counter stays.  DriftBound: the counter does not run over its  *)
(* width, which would take 15 such writes within one 30 s watchdog period.  *)
DriftBound == repeat_cmd_num + REPEAT_CMD_NUM < COUNT_MOD
DeviceModelInit ==
  /\ DriftBound
  /\ ResetTable
  /\ UNCHANGED <<repeat_cmd_num, timerRepeatCmdNumClearEvt, not_sleep, air,
                 sent, failed, repeated>>

(* The buttons and the timers of other components write not_sleep.          *)
OthersWriteNotSleep ==
  /\ not_sleep' = ~not_sleep
  /\ UNCHANGED <<repeat_cmd, repeat_cmd_num, timerRepeatCmdNumClearEvt, air,
                 sent, failed, repeated>>

(* zb_resetDevice or a power cycle: RAM starts over, frames are gone.       *)
Reboot ==
  /\ ResetTable
  /\ repeat_cmd_num' = 0
  /\ timerRepeatCmdNumClearEvt' = FALSE
  /\ not_sleep' = FALSE
  /\ air' = {}
  /\ UNCHANGED <<sent, failed, repeated>>

Next ==
  \/ \E ep \in Endpoints, c \in Commands : SendCommand(ep, c)
  \/ ApsConfirm
  \/ ClearTimerFires
  \/ LongSleep
  \/ DeviceModelInit
  \/ OthersWriteNotSleep
  \/ Reboot

Spec == Init /\ [][Next]_vars

(* The event loop runs every timer that is due (ev_timer_process).          *)
FairSpec == Spec /\ WF_vars(ClearTimerFires)

-----------------------------------------------------------------------------
TypeOK ==
  /\ repeat_cmd \in [Slots -> Entries \cup {NoEntry}]
  /\ repeat_cmd_num \in 0..(COUNT_MOD - 1)
  /\ timerRepeatCmdNumClearEvt \in BOOLEAN
  /\ not_sleep \in BOOLEAN
  /\ air \subseteq Frames
  /\ sent \in Seq(Sendings) /\ Len(sent) <= MaxSent
  /\ failed \subseteq Ids
  /\ repeated \subseteq Ids

(* The counter never falls below the number of occupied slots, whatever     *)
(* order confirmations, resets and new commands come in, and adding to the  *)
(* table never takes it over its width.  The buttons and afApsAckCb test    *)
(* only the counter before they let the device sleep, so a smaller counter  *)
(* would put it to sleep with confirmations outstanding.                    *)
CountCoversTable ==
  /\ Cardinality(Used) <= repeat_cmd_num
  /\ repeat_cmd_num + REPEAT_CMD_NUM < COUNT_MOD + Cardinality(Used)

(* Whenever the counter or the table holds something, the 30 s watchdog     *)
(* (timerRepeatCmdNumClearEvt) is armed: entries whose confirmation never   *)
(* comes cannot stay, although the timer is only started when the counter   *)
(* becomes 1.                                                               *)
WatchdogArmed ==
  repeat_cmd_num > 0 \/ Used # {} => timerRepeatCmdNumClearEvt

(* Every entry belongs to a command that was sent to the recorded target,   *)
(* and no two entries to the same sending.                                  *)
TableRecordsSent ==
  /\ \A s \in Used :
       LET e == repeat_cmd[s] IN
         /\ e.id <= Len(sent)
         /\ e.ep = sent[e.id].ep
         /\ e.cluster = sent[e.id].cluster
         /\ e.dest = sent[e.id].dest
  /\ \A s, t \in Used : repeat_cmd[s].id = repeat_cmd[t].id => s = t

(* A repeat goes to the lamp that did not acknowledge: it repeats a command *)
(* once sent to that same lamp from the same endpoint and cluster, never to *)
(* a group (app_find_repeat_cmd, afApsAckCb).                               *)
RepeatsToSameTarget ==
  \A f \in air : f.repeat =>
    LET lost == sent[f.cause]  original == sent[f.id]
    IN  /\ <<original.ep, original.cluster, original.dest>>
              = <<f.ep, f.cluster, f.dest>>
        /\ <<lost.ep, lost.cluster, lost.dest.name, lost.dest.group>>
              = <<f.ep, f.cluster, f.dest.name, FALSE>>

(* No command is sent a third time: a repeat only goes out for a command    *)
(* that was never repeated before, in whatever order the confirmations of   *)
(* first and second transmissions come.                                     *)
AtMostOneRepeat ==
  [][\A f \in air' \ air : f.repeat => f.id \notin repeated]_vars

(* The table implements the abstract promise.                               *)
Once == INSTANCE RepeatOnce
          WITH seen <- 1..Len(sent),
               pending <- {repeat_cmd[s].id : s \in Used}
RepeatsOnce == Once!Spec

(* Whatever confirmations are lost, refused or late, the table drains: the  *)
(* counter that keeps the device awake comes back to zero.                  *)
Drains == repeat_cmd_num > 0 ~> repeat_cmd_num = 0

(* While no other command of the same button and cluster to the same lamp   *)
(* is in the table, a command reported lost is the one that is sent again,  *)
(* whatever was sent to other lamps, confirmed late or dropped in between   *)
(* (app_find_repeat_cmd).  With another one in the table it need not be.    *)
Alone(n) == \A s \in Used :
              /\ repeat_cmd[s].ep = sent[n].ep
              /\ repeat_cmd[s].cluster = sent[n].cluster
              /\ repeat_cmd[s].dest.name = sent[n].dest.name
              /\ repeat_cmd[s].dest.group = sent[n].dest.group
              => repeat_cmd[s].id = n
LoneLossIsRepeated ==
  [][\A n \in failed' \ failed : Alone(n) => n \in repeated']_vars
=============================================================================
