----------------------------- MODULE ButtonProofs -----------------------------
(***************************************************************************)
(* Proofs about module Button, for every number of buttons and every value *)
(* of its constants.  A poll is a composition of three stages, so the      *)
(* inductive invariant is stated on the record of a poll (PollGood) and    *)
(* shown to survive each stage; the invariant of the state is what         *)
(* PollGood says of every button.                                          *)
(***************************************************************************)
EXTENDS Button, TLAPS

-----------------------------------------------------------------------------
PollStates == [b : ButtonStates, a : AppStates, open : -1..2]

Gesture(b) == /\ b.released => b.pressed \/ b.hold = HOLD_FIX
              /\ b.pressed /\ b.debounce = 1 => b.released
              /\ b.pressed <=> b.counter # 0
Flags(a) == /\ a.factory_reset <=> "factoryReset" \in a.timers
            /\ a.buttonFindBindFlag <=> "buttonFindBind" \in a.timers
Excused(a) == Reason(a) \/ a.stray # "no"

(* What holds of the record of a poll between its stages; others says that  *)
(* another button is in progress.                                           *)
PollGood(s, others) == /\ s \in PollStates
                       /\ Gesture(s.b)
                       /\ Flags(s.a)
                       /\ s.a.not_sleep => InProgress(s.b) \/ others \/ Excused(s.a)

(* A stage never lets the device sleep.                                     *)
KeepsAwake(s, t) == s.a.not_sleep => t.a.not_sleep

-----------------------------------------------------------------------------
(* The operations on the app record.                                        *)

(* Arming or cancelling a timer that belongs to no flag.                    *)
LEMMA ArmClearSleep ==
  ASSUME NEW a \in AppStates, Flags(a)
  PROVE  /\ Arm(a, "clearSleep") \in AppStates
         /\ Flags(Arm(a, "clearSleep"))
         /\ Excused(Arm(a, "clearSleep"))
         /\ Arm(a, "clearSleep").not_sleep = a.not_sleep
  BY DEF Arm, AppStates, Flags, Excused, Reason, Timers

(* app_setPollRate leaves a reason to be awake: its own timer, or a         *)
(* download.                                                                *)
LEMMA SetPollRateAwake ==
  ASSUME NEW a \in AppStates
  PROVE  /\ SetPollRate(a) \in AppStates
         /\ Flags(a) => Flags(SetPollRate(a))
         /\ Excused(SetPollRate(a))
         /\ SetPollRate(a).not_sleep
         /\ SetPollRate(a).factory_reset = a.factory_reset
         /\ SetPollRate(a).buttonFindBindFlag = a.buttonFindBindFlag
         /\ SetPollRate(a).timers \subseteq Timers
         /\ \A t \in Timers \ {"setPollRate"} :
              t \in SetPollRate(a).timers <=> t \in a.timers
  BY DEF SetPollRate, Arm, Cancel, AppStates, Flags, Excused, Reason, Timers

(* The find-and-bind gesture sets its flag with its timer.                  *)
LEMMA FindBindGestureAwake ==
  ASSUME NEW a \in AppStates, Flags(a)
  PROVE  /\ FindBindGesture(a) \in AppStates
         /\ Flags(FindBindGesture(a))
         /\ Excused(FindBindGesture(a))
         /\ a.not_sleep => FindBindGesture(a).not_sleep
<1> DEFINE b == [a EXCEPT !.buttonFindBindFlag = TRUE]
           c == IF "setPollRate" \in b.timers THEN b ELSE SetPollRate(b)
<1>1. /\ b \in AppStates
      /\ b.buttonFindBindFlag
      /\ b.factory_reset <=> "factoryReset" \in b.timers
      /\ b.not_sleep = a.not_sleep
  BY DEF AppStates, Flags
<1>2. /\ c \in AppStates
      /\ c.buttonFindBindFlag
      /\ c.factory_reset <=> "factoryReset" \in c.timers
      /\ a.not_sleep => c.not_sleep
  <2> HIDE DEF b
  <2>1. CASE "setPollRate" \in b.timers
    BY <1>1, <2>1
  <2>2. CASE "setPollRate" \notin b.timers
    BY <1>1, <2>2, SetPollRateAwake DEF Timers
  <2> QED BY <2>1, <2>2
<1>3. FindBindGesture(a) = Arm(c, "buttonFindBind")
  BY DEF FindBindGesture
<1> HIDE DEF c
<1> QED BY <1>2, <1>3 DEF Arm, AppStates, Flags, Excused, Reason, Timers

(* The factory reset gesture sets its flag with its timer.                  *)
LEMMA FactoryResetGestureAwake ==
  ASSUME NEW a \in AppStates, Flags(a)
  PROVE  /\ FactoryResetGesture(a) \in AppStates
         /\ Flags(FactoryResetGesture(a))
         /\ Excused(FactoryResetGesture(a))
         /\ FactoryResetGesture(a).not_sleep = a.not_sleep
  BY DEF FactoryResetGesture, Arm, AppStates, Flags, Excused, Reason, Timers

(* A long press consumes the find-and-bind gesture.                         *)
LEMMA FindBindStartAwake ==
  ASSUME NEW a \in AppStates, Flags(a),
         NEW f, f = FindBindStart(Cancel([a EXCEPT !.buttonFindBindFlag = FALSE],
                                         "buttonFindBind"))
  PROVE  f \in AppStates /\ Flags(f) /\ f.not_sleep = a.not_sleep
  BY DEF FindBindStart, Cancel, AppStates, Flags, Timers

(* A long press consumes the factory reset gesture.                         *)
LEMMA FactoryResetStartAwake ==
  ASSUME NEW a \in AppStates, Flags(a),
         NEW f, f = FactoryResetStart(Cancel(a, "factoryReset"))
  PROVE  f \in AppStates /\ Flags(f) /\ f.not_sleep
<1> DEFINE c == [Cancel(a, "factoryReset") EXCEPT !.factory_reset = FALSE]
<1>1. c \in AppStates /\ Flags(c)
  BY DEF Cancel, AppStates, Flags, Timers
<1>2. f = SetPollRate(c)
  BY DEF FactoryResetStart
<1> HIDE DEF c
<1> QED BY <1>1, <1>2, SetPollRateAwake

-----------------------------------------------------------------------------
(* The stages of a poll.                                                    *)

(* Sending only ever adds a reason to be awake, and touches nothing else of *)
(* a poll but the history.                                                  *)
LEMMA SendKeeps ==
  ASSUME NEW s \in PollStates, NEW k, NEW rec \in BOOLEAN, NEW n \in {-1, 1},
         NEW others \in BOOLEAN,
         NEW t, t = Send(s, k, rec) \/ t = Watch(Send(s, k, rec), k, n)
  PROVE  /\ t \in PollStates
         /\ t.b = s.b
         /\ KeepsAwake(s, t)
         /\ PollGood(s, others) => PollGood(t, others)
<1> DEFINE u == Send(s, k, rec)
<1>1. /\ u \in PollStates /\ u.b = s.b /\ u.open = s.open
      /\ u.a = [s.a EXCEPT !.repeats = @ \/ (rec /\ k # "multifunction")]
  BY DEF Send, PollStates, AppStates
<1>2. t.b = u.b /\ t.a = u.a /\ t \in PollStates
  <2> HIDE DEF u
  <2>1. CASE t = u
    BY <1>1, <2>1
  <2>2. CASE t = Watch(u, k, n)
    BY <1>1, <2>2 DEF Watch, Clamp, PollStates
  <2> QED BY <2>1, <2>2 DEF u
<1> HIDE DEF u
<1>3. /\ t.a \in AppStates
      /\ t.a.not_sleep = s.a.not_sleep /\ t.a.timers = s.a.timers
      /\ t.a.factory_reset = s.a.factory_reset
      /\ t.a.buttonFindBindFlag = s.a.buttonFindBindFlag
      /\ t.a.ota = s.a.ota /\ t.a.stray = s.a.stray
      /\ s.a.repeats => t.a.repeats
  BY <1>1, <1>2 DEF PollStates, AppStates
<1>4. Reason(s.a) => Reason(t.a)
  BY <1>3 DEF Reason
<1>5. PollGood(s, others) => PollGood(t, others)
  BY <1>1, <1>2, <1>3, <1>4 DEF PollGood, Flags, Excused
<1> QED BY <1>1, <1>2, <1>3, <1>5 DEF KeepsAwake

(* Replacing the app record of a poll by one that is as good.               *)
LEMMA NewApp ==
  ASSUME NEW s \in PollStates, NEW others \in BOOLEAN, PollGood(s, others),
         NEW a \in AppStates, Flags(a),
         a.not_sleep => InProgress(s.b) \/ others \/ Excused(a),
         NEW t, t = [s EXCEPT !.a = a]
  PROVE  PollGood(t, others) /\ t.b = s.b /\ t.a = a
<1>1. t \in PollStates /\ t.b = s.b /\ t.a = a
  BY DEF PollStates
<1> QED BY <1>1 DEF PollGood

(* A long press.                                                            *)
LEMMA HeldKeeps ==
  ASSUME NEW s \in PollStates, NEW k \in Kinds, NEW rec \in BOOLEAN,
         NEW down \in BOOLEAN, NEW others \in BOOLEAN, PollGood(s, others)
  PROVE  /\ Held(s, k, rec, down) \in PollStates
         /\ PollGood(Held(s, k, rec, down), others)
         /\ KeepsAwake(s, Held(s, k, rec, down))
<1> DEFINE t == Held(s, k, rec, down)
           h == [s EXCEPT !.b.hold = HOLD_PRESENT]
           holds == down /\ s.b.pressed /\ ~s.b.recent /\ s.b.hold = HOLD_NOT_PRESENT
<1>1. CASE ~holds
  <2>1. t = s
    BY <1>1 DEF Held
  <2> QED BY <2>1 DEF KeepsAwake
<1>2. CASE holds
  <2>1. /\ h \in PollStates /\ h.a = s.a
        /\ h.b.released = s.b.released /\ h.b.pressed = s.b.pressed
        /\ h.b.counter = s.b.counter /\ h.b.debounce = s.b.debounce
        /\ h.b.pressed
    <3>1. /\ s.b \in ButtonStates /\ s.a \in AppStates /\ s.open \in -1..2
          /\ h.b = [s.b EXCEPT !.hold = HOLD_PRESENT]
          /\ h.a = s.a /\ h.open = s.open
          /\ h = [s EXCEPT !.b = [s.b EXCEPT !.hold = HOLD_PRESENT]]
      BY DEF PollStates
    <3>2. h.b \in ButtonStates
      BY <3>1 DEF ButtonStates, HOLD_PRESENT
    <3>3. h \in PollStates
      BY <3>1, <3>2 DEF PollStates
    <3>4. /\ h.b.released = s.b.released /\ h.b.pressed = s.b.pressed
          /\ h.b.counter = s.b.counter /\ h.b.debounce = s.b.debounce
      BY <3>1 DEF ButtonStates
    <3> QED BY <1>2, <3>1, <3>3, <3>4
  <2>2. PollGood(h, others)
    BY <2>1 DEF PollGood, Gesture, Flags, InProgress
  <2>3. s.a \in AppStates /\ Flags(s.a) /\ InProgress(h.b)
    BY <2>1 DEF PollGood, PollStates, InProgress
  <2> DEFINE f == FindBindStart(Cancel([s.a EXCEPT !.buttonFindBindFlag = FALSE],
                                       "buttonFindBind"))
             g == FactoryResetStart(Cancel(s.a, "factoryReset"))
  <2>4. CASE s.a.buttonFindBindFlag
    <3>1. t = [h EXCEPT !.a = f]
      BY <1>2, <2>1, <2>4 DEF Held
    <3>2. f \in AppStates /\ Flags(f) /\ f.not_sleep = s.a.not_sleep
      <4>1. f = FindBindStart(Cancel([s.a EXCEPT !.buttonFindBindFlag = FALSE],
                                     "buttonFindBind"))
        OBVIOUS
      <4> HIDE DEF f
      <4> QED BY <2>3, <4>1, FindBindStartAwake
    <3> HIDE DEF f, h, t
    <3>4. PollGood(t, others) /\ t.a = f
      BY <2>1, <2>2, <2>3, <3>1, <3>2, NewApp
    <3> QED BY <3>2, <3>4 DEF PollGood, KeepsAwake, t
  <2>5. CASE ~s.a.buttonFindBindFlag /\ s.a.factory_reset
    <3>1. t = [h EXCEPT !.a = g]
      BY <1>2, <2>1, <2>5 DEF Held
    <3>2. g \in AppStates /\ Flags(g) /\ g.not_sleep
      <4>1. g = FactoryResetStart(Cancel(s.a, "factoryReset"))
        OBVIOUS
      <4> HIDE DEF g
      <4> QED BY <2>3, <4>1, FactoryResetStartAwake
    <3> HIDE DEF g, h, t
    <3>4. PollGood(t, others) /\ t.a = g
      BY <2>1, <2>2, <2>3, <3>1, <3>2, NewApp
    <3> QED BY <3>2, <3>4 DEF PollGood, KeepsAwake, t
  <2>6. CASE ~s.a.buttonFindBindFlag /\ ~s.a.factory_reset
    <3>1. t = IF k \in Moving THEN Watch(Send(h, k, rec), k, 1) ELSE h
      BY <1>2, <2>6 DEF Held, Open
    <3> HIDE DEF h, t
    <3>2. CASE k \in Moving
      BY <2>1, <2>2, <3>1, <3>2, SendKeeps DEF KeepsAwake, t
    <3>3. CASE k \notin Moving
      BY <2>1, <2>2, <3>1, <3>3 DEF KeepsAwake, t
    <3> QED BY <3>2, <3>3
  <2> QED BY <2>4, <2>5, <2>6
<1> QED BY <1>1, <1>2

(* A press or a release that is recognised leaves a gesture in progress.    *)
LEMMA GestureBegins ==
  ASSUME NEW s \in PollStates, NEW others \in BOOLEAN, PollGood(s, others),
         NEW t \in PollStates, t.a = s.a \/ t.a = [s.a EXCEPT !.not_sleep = TRUE],
         Gesture(t.b), InProgress(t.b)
  PROVE  PollGood(t, others) /\ KeepsAwake(s, t)
<1>1. Flags(t.a)
  BY DEF PollGood, Flags, PollStates, AppStates
<1>2. KeepsAwake(s, t)
  BY DEF KeepsAwake, PollStates, AppStates
<1> QED BY <1>1, <1>2 DEF PollGood

(* The same when the press opens a poll-rate window to rejoin the network.  *)
LEMMA GestureRejoins ==
  ASSUME NEW s \in PollStates, NEW others \in BOOLEAN, PollGood(s, others)
  PROVE  /\ PollGood([s EXCEPT !.a = SetPollRate(@)], others)
         /\ KeepsAwake(s, [s EXCEPT !.a = SetPollRate(@)])
         /\ [s EXCEPT !.a = SetPollRate(@)] \in PollStates
<1>1. s.a \in AppStates /\ Flags(s.a)
  BY DEF PollGood, PollStates
<1> DEFINE a == SetPollRate(s.a)
           t == [s EXCEPT !.a = SetPollRate(@)]
<1>2. a \in AppStates /\ Flags(a) /\ Excused(a) /\ a.not_sleep
  BY <1>1, SetPollRateAwake
<1>3. t = [s EXCEPT !.a = a]
  BY DEF PollStates
<1> HIDE DEF a, t
<1>4. PollGood(t, others) /\ t.a = a
  BY <1>2, <1>3, NewApp
<1>5. t \in PollStates
  BY <1>4 DEF PollGood
<1> QED BY <1>2, <1>4, <1>5 DEF KeepsAwake, t

(* A press of a button that sends at the press.                             *)
LEMMA PressedOnPressKeeps ==
  ASSUME NEW s \in PollStates, NEW k \in Kinds, NEW rec \in BOOLEAN,
         NEW others \in BOOLEAN, PollGood(s, others), s.b.debounce # 1,
         net \in {"joined", "lost", "new"}
  PROVE  /\ PressedOnPress(s, k, rec) \in PollStates
         /\ PollGood(PressedOnPress(s, k, rec), others)
         /\ KeepsAwake(s, PressedOnPress(s, k, rec))
<1> DEFINE first == [s EXCEPT !.b.pressed = TRUE, !.b.counter = 1, !.a.not_sleep = TRUE]
           again == [s EXCEPT !.b.counter = IF s.b.pressed /\ s.b.recent THEN @ + 1 ELSE @]
           p == CASE s.b.counter = 0 /\ net = "joined" ->
                       IF k = "momentary" THEN Open(first, k, rec) ELSE Send(first, k, rec)
                  [] s.b.counter = 0 /\ net = "lost" -> [first EXCEPT !.a = SetPollRate(@)]
                  [] s.b.counter = 0 /\ net = "new" -> first
                  [] s.b.counter # 0 -> again
           Well(u) == u \in PollStates /\ PollGood(u, others) /\ KeepsAwake(s, u)
<1>1. Well(first)
  <2>1. /\ first \in PollStates /\ Gesture(first.b) /\ InProgress(first.b)
        /\ first.a = [s.a EXCEPT !.not_sleep = TRUE]
    <3>1. /\ s.b \in ButtonStates /\ s.a \in AppStates /\ s.open \in -1..2
          /\ first.b = [s.b EXCEPT !.pressed = TRUE, !.counter = 1]
          /\ first.a = [s.a EXCEPT !.not_sleep = TRUE]
          /\ first = [[s EXCEPT !.b = [s.b EXCEPT !.pressed = TRUE, !.counter = 1]]
                          EXCEPT !.a = [s.a EXCEPT !.not_sleep = TRUE]]
      BY DEF PollStates
    <3>2. first.b \in ButtonStates /\ Gesture(first.b) /\ InProgress(first.b)
      <4> DEFINE b == s.b  c == first.b
      <4>1. b \in ButtonStates /\ b.debounce # 1
        BY <3>1
      <4>2. c = [b EXCEPT !.pressed = TRUE, !.counter = 1]
        BY <3>1
      <4> HIDE DEF b, c
      <4>3. /\ c \in ButtonStates
            /\ c.pressed /\ c.counter = 1 /\ c.debounce # 1
        BY <4>1, <4>2 DEF ButtonStates
      <4> QED BY <4>3 DEF c, Gesture, InProgress
    <3>3. first.a \in AppStates
      <4> DEFINE a == s.a  c == first.a
      <4>1. a \in AppStates /\ c = [a EXCEPT !.not_sleep = TRUE]
        BY <3>1
      <4> HIDE DEF a, c
      <4>2. c \in AppStates
        BY <4>1 DEF AppStates
      <4> QED BY <4>2 DEF c
    <3> HIDE DEF first
    <3>4. first \in PollStates
      BY <3>1, <3>2, <3>3 DEF PollStates
    <3> QED BY <3>1, <3>2, <3>4
  <2> HIDE DEF first
  <2> QED BY <2>1, GestureBegins
<1>2. s.b.counter # 0 => Well(again)
  <2> SUFFICES ASSUME s.b.counter # 0 PROVE Well(again)
    OBVIOUS
  <2>1. again \in PollStates /\ again.a = s.a /\ Gesture(again.b) /\ InProgress(again.b)
    BY DEF PollGood, PollStates, ButtonStates, Gesture, InProgress
  <2> HIDE DEF again
  <2> QED BY <2>1, GestureBegins
<1>3. Well(p)
  <2> HIDE DEF first, again
  <2>1. CASE s.b.counter = 0 /\ net = "joined"
    <3>1. p = Watch(Send(first, k, rec), k, 1) \/ p = Send(first, k, rec)
      BY <2>1 DEF Open
    <3>2. p \in PollStates /\ KeepsAwake(first, p) /\ PollGood(p, others)
      <4> HIDE DEF p
      <4> QED BY <1>1, <3>1, SendKeeps
    <3> QED BY <1>1, <3>2 DEF KeepsAwake
  <2>2. CASE s.b.counter = 0 /\ net = "lost"
    <3>1. p = [first EXCEPT !.a = SetPollRate(@)]
      BY <2>2
    <3>2. p \in PollStates /\ KeepsAwake(first, p) /\ PollGood(p, others)
      <4> HIDE DEF p
      <4> QED BY <1>1, <3>1, GestureRejoins
    <3> QED BY <1>1, <3>2 DEF KeepsAwake
  <2>3. CASE s.b.counter = 0 /\ net = "new"
    <3>1. p = first
      BY <2>3
    <3> QED BY <1>1, <3>1
  <2>4. CASE s.b.counter # 0
    <3>1. p = again
      BY <2>4
    <3> QED BY <1>2, <2>4, <3>1
  <2> QED BY <2>1, <2>2, <2>3, <2>4
<1> DEFINE r == [p EXCEPT !.b.recent = TRUE]
<1>4. PressedOnPress(s, k, rec) = r
  BY DEF PressedOnPress
<1> HIDE DEF p
<1>5. /\ r \in PollStates /\ r.a = p.a
      /\ r.b.released = p.b.released /\ r.b.pressed = p.b.pressed
      /\ r.b.counter = p.b.counter /\ r.b.debounce = p.b.debounce
      /\ r.b.hold = p.b.hold
  BY <1>3 DEF PollStates, ButtonStates
<1>6. PollGood(r, others) /\ KeepsAwake(s, r)
  <2> HIDE DEF r
  <2> QED BY <1>3, <1>5 DEF PollGood, Gesture, InProgress, KeepsAwake
<1> QED BY <1>4, <1>5, <1>6

(* A press of a button that sends at hold and release.                      *)
LEMMA PressedMovingKeeps ==
  ASSUME NEW s \in PollStates, NEW others \in BOOLEAN, PollGood(s, others),
         s.b.debounce # 1
  PROVE  /\ PressedMoving(s) \in PollStates
         /\ PollGood(PressedMoving(s), others)
         /\ KeepsAwake(s, PressedMoving(s))
<1> DEFINE p == [s EXCEPT !.b.pressed = TRUE, !.a.not_sleep = TRUE,
                          !.b.counter = IF s.b.recent THEN @ + 1 ELSE 1,
                          !.b.recent = TRUE]
<1>1. /\ p \in PollStates /\ p.a = [s.a EXCEPT !.not_sleep = TRUE]
      /\ Gesture(p.b) /\ InProgress(p.b)
  <2> DEFINE b == [s.b EXCEPT !.pressed = TRUE,
                              !.counter = IF s.b.recent THEN @ + 1 ELSE 1,
                              !.recent = TRUE]
  <2>1. /\ s.b \in ButtonStates /\ s.a \in AppStates /\ s.open \in -1..2
        /\ p.b = b /\ p.a = [s.a EXCEPT !.not_sleep = TRUE]
        /\ p = [[s EXCEPT !.b = b] EXCEPT !.a = [s.a EXCEPT !.not_sleep = TRUE]]
    BY DEF PollStates
  <2>2. b \in ButtonStates /\ Gesture(b) /\ InProgress(b)
    <3> DEFINE c == s.b
               n == IF c.recent THEN c.counter + 1 ELSE 1
    <3>1. c \in ButtonStates /\ c.debounce # 1 /\ n \in Nat \ {0}
      <4>1. c \in ButtonStates
        BY <2>1
      <4> HIDE DEF c
      <4>2. n \in Nat \ {0}
        BY <4>1 DEF ButtonStates
      <4> QED BY <4>1, <4>2 DEF c
    <3>2. b = [c EXCEPT !.pressed = TRUE, !.counter = n, !.recent = TRUE]
      OBVIOUS
    <3> HIDE DEF b, c, p, n
    <3>3. /\ b \in ButtonStates
          /\ b.pressed /\ b.counter # 0 /\ b.debounce # 1
      BY <3>1, <3>2 DEF ButtonStates
    <3> QED BY <3>3 DEF Gesture, InProgress
  <2>3. p.a \in AppStates
    <3> DEFINE a == s.a  c == p.a
    <3>1. a \in AppStates /\ c = [a EXCEPT !.not_sleep = TRUE]
      BY <2>1
    <3> HIDE DEF a, c, p
    <3>2. c \in AppStates
      BY <3>1 DEF AppStates
    <3> QED BY <3>2 DEF c
  <2> HIDE DEF b, p
  <2>4. p \in PollStates
    BY <2>1, <2>2, <2>3 DEF PollStates
  <2> QED BY <2>1, <2>2, <2>4
<1>2. PressedMoving(s) = IF ~s.b.recent /\ net = "lost"
                         THEN [p EXCEPT !.a = SetPollRate(@)] ELSE p
  BY DEF PressedMoving
<1> HIDE DEF p
<1>3. PollGood(p, others) /\ KeepsAwake(s, p)
  BY <1>1, GestureBegins
<1>4. CASE ~s.b.recent /\ net = "lost"
  <2> DEFINE q == [p EXCEPT !.a = SetPollRate(@)]
  <2>1. PollGood(q, others) /\ KeepsAwake(p, q) /\ q \in PollStates
    BY <1>1, <1>3, GestureRejoins
  <2> QED BY <1>2, <1>3, <1>4, <2>1 DEF KeepsAwake
<1>5. CASE ~(~s.b.recent /\ net = "lost")
  BY <1>1, <1>2, <1>3, <1>5
<1> QED BY <1>4, <1>5

(* A release.                                                               *)
LEMMA ReleasedKeeps ==
  ASSUME NEW s \in PollStates, NEW k \in Kinds, NEW rec \in BOOLEAN,
         NEW others \in BOOLEAN, s.b.debounce = 1,
         s.b.released => s.b.pressed \/ s.b.hold = HOLD_FIX,
         s.b.pressed <=> s.b.counter # 0,
         Flags(s.a),
         s.a.not_sleep => InProgress(s.b) \/ others \/ Excused(s.a)
  PROVE  /\ Released(s, k, rec) \in PollStates
         /\ PollGood(Released(s, k, rec), others)
         /\ KeepsAwake(s, Released(s, k, rec))
<1> DEFINE heard == s.b.pressed \/ (s.b.hold = HOLD_FIX /\ k # "scene")
           second == /\ k = "momentary" /\ net = "joined"
                     /\ s.b.counter = 1 \/ s.b.hold = HOLD_FIX
           awake == s.a.not_sleep \/ k # "scene"
           rb == [s.b EXCEPT !.released = TRUE]
           ra == [s.a EXCEPT !.not_sleep = awake]
           r == [s EXCEPT !.b.released = TRUE, !.a.not_sleep = @ \/ k # "scene"]
           t == Released(s, k, rec)
<1>1. t = IF ~heard THEN s
          ELSE IF second THEN Watch(Send(r, k, rec), k, -1) ELSE r
  BY DEF Released, Close
<1>2. /\ s.b \in ButtonStates /\ s.a \in AppStates /\ s.open \in -1..2
      /\ r.b = rb /\ r.a = ra
      /\ r = [[s EXCEPT !.b = rb] EXCEPT !.a = ra]
  BY DEF PollStates
<1>3. CASE ~heard
  <2>1. Gesture(s.b)
    BY <1>3 DEF Gesture
  <2>2. t = s
    BY <1>1, <1>3
  <2> QED BY <2>1, <2>2 DEF PollGood, KeepsAwake
<1>4. CASE heard
  <2>1. rb \in ButtonStates /\ Gesture(rb) /\ InProgress(rb)
    <3>1. /\ rb \in ButtonStates /\ rb.released /\ rb.pressed = s.b.pressed
          /\ rb.hold = s.b.hold /\ rb.counter = s.b.counter
      <4> DEFINE c == s.b
      <4>1. c \in ButtonStates /\ rb = [c EXCEPT !.released = TRUE]
        BY <1>2
      <4> HIDE DEF c, rb
      <4>2. /\ rb \in ButtonStates /\ rb.released /\ rb.pressed = c.pressed
            /\ rb.hold = c.hold /\ rb.counter = c.counter
        BY <4>1 DEF ButtonStates
      <4> QED BY <4>2 DEF c
    <3> HIDE DEF rb
    <3> QED BY <1>4, <3>1 DEF Gesture, InProgress
  <2>2. /\ ra \in AppStates /\ Flags(ra) /\ ra.not_sleep = awake
    <3> DEFINE c == s.a
    <3>1. c \in AppStates /\ Flags(c) /\ awake \in BOOLEAN
          /\ ra = [c EXCEPT !.not_sleep = awake]
      BY <1>2 DEF AppStates
    <3> HIDE DEF c, ra, awake
    <3> QED BY <3>1 DEF AppStates, Flags
  <2> HIDE DEF ra, rb, r, awake
  <2>3. r \in PollStates
    BY <1>2, <2>1, <2>2 DEF PollStates
  <2>4. PollGood(r, others)
    BY <1>2, <2>1, <2>2, <2>3 DEF PollGood
  <2>5. KeepsAwake(s, r)
    BY <1>2, <2>2 DEF KeepsAwake, awake
  <2> HIDE DEF t
  <2>6. CASE second
    <3>1. t = Watch(Send(r, k, rec), k, -1)
      BY <1>1, <1>4, <2>6
    <3>2. t \in PollStates /\ KeepsAwake(r, t) /\ PollGood(t, others)
      BY <2>3, <2>4, <3>1, SendKeeps
    <3> QED BY <2>5, <3>2 DEF KeepsAwake, t
  <2>7. CASE ~second
    <3>1. t = r
      BY <1>1, <1>4, <2>7
    <3> QED BY <2>3, <2>4, <2>5, <3>1 DEF t
  <2> QED BY <2>6, <2>7
<1> QED BY <1>3, <1>4

(* Debouncing.                                                              *)
LEMMA DebouncedKeeps ==
  ASSUME NEW s \in PollStates, NEW k \in Kinds, NEW rec \in BOOLEAN,
         NEW down \in BOOLEAN, NEW others \in BOOLEAN, PollGood(s, others),
         net \in {"joined", "lost", "new"}
  PROVE  /\ Debounced(s, k, rec, down) \in PollStates
         /\ PollGood(Debounced(s, k, rec, down), others)
         /\ KeepsAwake(s, Debounced(s, k, rec, down))
<1> DEFINE d == s.b.debounce
           up == [s EXCEPT !.b.debounce = d + 1]
           dn == [s EXCEPT !.b.debounce = d - 1]
           t == Debounced(s, k, rec, down)
           Moved(u, n) == /\ u \in PollStates /\ u.a = s.a
                          /\ u.b.debounce = n
                          /\ u.b.pressed = s.b.pressed /\ u.b.released = s.b.released
                          /\ u.b.hold = s.b.hold /\ u.b.counter = s.b.counter
<1>1. s.b \in ButtonStates /\ d \in 1..DEBOUNCE_BUTTON
  BY DEF PollStates, ButtonStates
<1>2. ASSUME NEW n \in 1..DEBOUNCE_BUTTON, NEW u, u = [s EXCEPT !.b.debounce = n]
      PROVE  Moved(u, n)
  <2> DEFINE c == s.b
             e == u.b
  <2>1. /\ c \in ButtonStates /\ e = [c EXCEPT !.debounce = n]
        /\ u.a = s.a /\ u = [s EXCEPT !.b = e]
    BY <1>2 DEF PollStates
  <2> HIDE DEF c, e
  <2>2. /\ e \in ButtonStates /\ e.debounce = n
        /\ e.pressed = c.pressed /\ e.released = c.released
        /\ e.hold = c.hold /\ e.counter = c.counter
    BY <2>1 DEF ButtonStates
  <2>3. u \in PollStates
    BY <2>1, <2>2 DEF PollStates
  <2> QED BY <2>1, <2>2, <2>3 DEF c, e
<1>3. ASSUME NEW n \in 2..DEBOUNCE_BUTTON, NEW u, Moved(u, n)
      PROVE  PollGood(u, others) /\ KeepsAwake(s, u)
  <2>1. n # 1
    OBVIOUS
  <2> QED BY <1>3, <2>1 DEF PollGood, Gesture, InProgress, KeepsAwake
<1>4. CASE down /\ d # DEBOUNCE_BUTTON
  <2>1. d + 1 \in 2..DEBOUNCE_BUTTON /\ d + 1 \in 1..DEBOUNCE_BUTTON /\ d + 1 # 1
    BY <1>1, <1>4, ButtonConstantsOK
  <2>2. t = IF d + 1 # DEBOUNCE_BUTTON THEN up
            ELSE IF k \in OnPress THEN PressedOnPress(up, k, rec) ELSE PressedMoving(up)
    BY <1>4 DEF Debounced
  <2>3. Moved(up, d + 1)
    BY <1>2, <2>1
  <2> HIDE DEF d, up, t
  <2>4. up \in PollStates /\ PollGood(up, others) /\ KeepsAwake(s, up)
        /\ up.b.debounce # 1
    BY <1>3, <2>1, <2>3
  <2>5. CASE d + 1 # DEBOUNCE_BUTTON
    BY <2>2, <2>4, <2>5 DEF t
  <2>6. CASE d + 1 = DEBOUNCE_BUTTON /\ k \in OnPress
    <3>1. t \in PollStates /\ PollGood(t, others) /\ KeepsAwake(up, t)
      BY <2>2, <2>4, <2>6, PressedOnPressKeeps
    <3> QED BY <2>4, <3>1 DEF KeepsAwake, t
  <2>7. CASE d + 1 = DEBOUNCE_BUTTON /\ k \notin OnPress
    <3>1. t \in PollStates /\ PollGood(t, others) /\ KeepsAwake(up, t)
      BY <2>2, <2>4, <2>7, PressedMovingKeeps
    <3> QED BY <2>4, <3>1 DEF KeepsAwake, t
  <2> QED BY <2>5, <2>6, <2>7
<1>5. CASE ~down /\ d # 1
  <2>1. d - 1 \in 1..DEBOUNCE_BUTTON /\ (d - 1 # 1 => d - 1 \in 2..DEBOUNCE_BUTTON)
    BY <1>1, <1>5, ButtonConstantsOK
  <2>2. t = IF d - 1 # 1 THEN dn ELSE Released(dn, k, rec)
    BY <1>5 DEF Debounced
  <2>3. Moved(dn, d - 1)
    BY <1>2, <2>1
  <2> HIDE DEF d, dn, t
  <2>4. CASE d - 1 # 1
    <3>1. dn \in PollStates /\ PollGood(dn, others) /\ KeepsAwake(s, dn)
      BY <1>3, <2>1, <2>3, <2>4
    <3> QED BY <2>2, <2>4, <3>1 DEF t
  <2>5. CASE d - 1 = 1
    <3>1. /\ dn \in PollStates /\ dn.b.debounce = 1
          /\ dn.b.released => dn.b.pressed \/ dn.b.hold = HOLD_FIX
          /\ dn.b.pressed <=> dn.b.counter # 0
          /\ Flags(dn.a)
          /\ dn.a.not_sleep => InProgress(dn.b) \/ others \/ Excused(dn.a)
          /\ KeepsAwake(s, dn)
      BY <2>3, <2>5 DEF PollGood, Gesture, InProgress, KeepsAwake
    <3>2. t \in PollStates /\ PollGood(t, others) /\ KeepsAwake(dn, t)
      BY <2>2, <2>5, <3>1, ReleasedKeeps
    <3> QED BY <3>1, <3>2 DEF KeepsAwake, t
  <2> QED BY <2>4, <2>5
<1>6. CASE (down /\ d = DEBOUNCE_BUTTON) \/ (~down /\ d = 1)
  <2>1. t = s
    BY <1>6 DEF Debounced
  <2> QED BY <2>1 DEF KeepsAwake
<1> QED BY <1>4, <1>5, <1>6

-----------------------------------------------------------------------------
(* The end of a gesture: every way through it leaves a reason to be awake   *)
(* that does not depend on the button, which is idle afterwards.            *)
Excuses(s, u) == /\ u \in PollStates /\ u.b = s.b
                 /\ Flags(u.a) /\ Excused(u.a)
                 /\ KeepsAwake(s, u)

(* clearSleepTimer, armed or deferred to the end of the repeats.            *)
LEMMA ClearSleepTimerExcuses ==
  ASSUME NEW s \in PollStates, NEW k, Flags(s.a)
  PROVE  Excuses(s, ClearSleepTimer(s, k))
<1> DEFINE t == ClearSleepTimer(s, k)
           a == Arm(s.a, "clearSleep")
<1>1. CASE s.a.repeats /\ k # "multifunction"
  <2>1. t = s
    BY <1>1 DEF ClearSleepTimer
  <2> QED BY <1>1, <2>1 DEF Excuses, KeepsAwake, Excused, Reason
<1>2. CASE ~(s.a.repeats /\ k # "multifunction")
  <2>1. s.a \in AppStates /\ t = [s EXCEPT !.a = a]
    BY <1>2 DEF ClearSleepTimer, PollStates
  <2>2. a \in AppStates /\ Flags(a) /\ Excused(a) /\ a.not_sleep = s.a.not_sleep
    BY <2>1, ArmClearSleep
  <2> HIDE DEF a, t
  <2>3. t \in PollStates /\ t.a = a /\ t.b = s.b
    BY <2>1, <2>2 DEF PollStates
  <2> QED BY <2>2, <2>3 DEF Excuses, KeepsAwake, t
<1> QED BY <1>1, <1>2

(* Replacing the app record at the end of a gesture.                        *)
LEMMA NewAppExcuses ==
  ASSUME NEW s \in PollStates, NEW a \in AppStates, Flags(a), Excused(a),
         s.a.not_sleep => a.not_sleep,
         NEW u, u = [s EXCEPT !.a = a]
  PROVE  Excuses(s, u)
<1>1. u \in PollStates /\ u.a = a /\ u.b = s.b
  BY DEF PollStates
<1> QED BY <1>1 DEF Excuses, KeepsAwake

(* A button that sends at hold and release.                                 *)
LEMMA FinishedMovingExcuses ==
  ASSUME NEW s \in PollStates, NEW k \in Kinds, NEW rec \in BOOLEAN,
         NEW others \in BOOLEAN, PollGood(s, others)
  PROVE  Excuses(s, FinishedMoving(s, k, rec))
<1> DEFINE n == s.b.counter
           t == FinishedMoving(s, k, rec)
           g == FactoryResetGesture(s.a)
           f == FindBindGesture(s.a)
           uf == [s EXCEPT !.a = f]
           cl == Watch(Send(s, k, rec), k, -1)
           sd == Send(s, k, rec)
<1>1. /\ s.a \in AppStates /\ Flags(s.a) /\ n \in Nat
      /\ FR_COUNTER_MAX \in Nat /\ BATTERY_COUNTER \in Nat
  BY ButtonConstantsOK DEF PollGood, PollStates, ButtonStates
<1>2. g \in AppStates /\ Flags(g) /\ Excused(g) /\ g.not_sleep = s.a.not_sleep
  BY <1>1, FactoryResetGestureAwake
<1>3. f \in AppStates /\ Flags(f) /\ Excused(f) /\ (s.a.not_sleep => f.not_sleep)
  BY <1>1, FindBindGestureAwake
<1>4. /\ cl \in PollStates /\ cl.b = s.b /\ KeepsAwake(s, cl) /\ PollGood(cl, others)
      /\ sd \in PollStates /\ sd.b = s.b /\ KeepsAwake(s, sd) /\ PollGood(sd, others)
  <2> HIDE DEF cl, sd
  <2>1. cl \in PollStates /\ cl.b = s.b /\ KeepsAwake(s, cl) /\ PollGood(cl, others)
    <3>1. cl = Send(s, k, rec) \/ cl = Watch(Send(s, k, rec), k, -1)
      BY DEF cl
    <3> QED BY <3>1, SendKeeps
  <2>2. sd \in PollStates /\ sd.b = s.b /\ KeepsAwake(s, sd) /\ PollGood(sd, others)
    <3>1. sd = Send(s, k, rec) \/ sd = Watch(Send(s, k, rec), k, -1)
      BY DEF sd
    <3> QED BY <3>1, SendKeeps
  <2> QED BY <2>1, <2>2
<1>5. ASSUME NEW v, v \in PollStates, v.b = s.b, Flags(v.a), KeepsAwake(s, v),
             t = ClearSleepTimer(v, k)
      PROVE  Excuses(s, t)
  <2>1. Excuses(v, ClearSleepTimer(v, k))
    BY <1>5, ClearSleepTimerExcuses
  <2> HIDE DEF t
  <2> QED BY <1>5, <2>1 DEF Excuses, KeepsAwake
<1>6. CASE n >= FR_COUNTER_MAX
  <2>1. t = [s EXCEPT !.a = g]
    BY <1>1, <1>6 DEF FinishedMoving, PollStates
  <2> HIDE DEF g, t
  <2>2. Excuses(s, t)
    BY <1>2, <2>1, NewAppExcuses
  <2> QED BY <2>2 DEF t
<1>7. CASE n < FR_COUNTER_MAX /\ s.b.hold # HOLD_NOT_PRESENT
  <2>1. t = ClearSleepTimer(cl, k)
    BY <1>1, <1>7 DEF FinishedMoving, Close
  <2> HIDE DEF cl, t
  <2>2. Excuses(s, t)
    BY <1>4, <1>5, <2>1 DEF PollGood
  <2> QED BY <2>2 DEF t
<1>8. CASE n < FR_COUNTER_MAX /\ s.b.hold = HOLD_NOT_PRESENT /\ n = BATTERY_COUNTER
  <2>1. t = ClearSleepTimer(uf, k)
    BY <1>1, <1>8 DEF FinishedMoving, PollStates
  <2>2. uf = [s EXCEPT !.a = f]
    OBVIOUS
  <2> HIDE DEF f, uf, t
  <2>3. Excuses(s, uf)
    BY <1>3, <2>2, NewAppExcuses
  <2>4. Excuses(s, t)
    BY <1>5, <2>1, <2>3 DEF Excuses
  <2> QED BY <2>4 DEF t
<1>9. CASE n < FR_COUNTER_MAX /\ s.b.hold = HOLD_NOT_PRESENT /\ n # BATTERY_COUNTER
  <2>1. t = ClearSleepTimer(IF Sends(k, n) THEN sd ELSE s, k)
    BY <1>1, <1>9 DEF FinishedMoving
  <2> HIDE DEF sd, t
  <2>2. CASE Sends(k, n)
    <3>1. Excuses(s, t)
      BY <1>4, <1>5, <2>1, <2>2 DEF PollGood
    <3> QED BY <3>1 DEF t
  <2>3. CASE ~Sends(k, n)
    <3>1. Excuses(s, t)
      BY <1>1, <1>5, <2>1, <2>3 DEF KeepsAwake
    <3> QED BY <3>1 DEF t
  <2> QED BY <2>2, <2>3
<1>10. n >= FR_COUNTER_MAX \/ n < FR_COUNTER_MAX
  BY <1>1
<1> QED BY <1>6, <1>7, <1>8, <1>9, <1>10

(* A button that has sent at the press.                                     *)
LEMMA FinishedOnPressExcuses ==
  ASSUME NEW s \in PollStates, NEW k \in Kinds,
         NEW others \in BOOLEAN, PollGood(s, others)
  PROVE  Excuses(s, FinishedOnPress(s, k))
<1> DEFINE n == s.b.counter
           t == FinishedOnPress(s, k)
           a == [s.a EXCEPT !.not_sleep = TRUE]
           g == FactoryResetGesture(a)
           f == FindBindGesture(s.a)
           u == CASE n = BATTERY_COUNTER -> [s EXCEPT !.a = f]
                  [] n >= FR_COUNTER_MAX -> [s EXCEPT !.a = g]
                  [] n # BATTERY_COUNTER /\ n < FR_COUNTER_MAX -> s
<1>1. /\ s.a \in AppStates /\ Flags(s.a) /\ n \in Nat
      /\ FR_COUNTER_MAX \in Nat /\ BATTERY_COUNTER \in Nat
      /\ BATTERY_COUNTER < FR_COUNTER_MAX
  BY ButtonConstantsOK DEF PollGood, PollStates, ButtonStates
<1>2. a \in AppStates /\ Flags(a) /\ a.not_sleep
  <2> DEFINE c == s.a
  <2>1. c \in AppStates /\ Flags(c) /\ a = [c EXCEPT !.not_sleep = TRUE]
    BY <1>1
  <2> HIDE DEF c, a
  <2> QED BY <2>1 DEF AppStates, Flags
<1>3. g \in AppStates /\ Flags(g) /\ Excused(g) /\ g.not_sleep
  <2> HIDE DEF a
  <2> QED BY <1>2, FactoryResetGestureAwake
<1>4. f \in AppStates /\ Flags(f) /\ Excused(f) /\ (s.a.not_sleep => f.not_sleep)
  BY <1>1, FindBindGestureAwake
<1>5. t = ClearSleepTimer(u, k)
  BY DEF FinishedOnPress, PollStates
<1>6. u \in PollStates /\ u.b = s.b /\ Flags(u.a) /\ KeepsAwake(s, u)
  <2> HIDE DEF f, g, n
  <2>1. CASE n = BATTERY_COUNTER
    <3>1. u = [s EXCEPT !.a = f]
      BY <1>1, <2>1
    <3> HIDE DEF u
    <3> QED BY <1>4, <3>1, NewAppExcuses DEF Excuses
  <2>2. CASE n >= FR_COUNTER_MAX
    <3>1. u = [s EXCEPT !.a = g]
      BY <1>1, <2>2
    <3> HIDE DEF u
    <3> QED BY <1>3, <3>1, NewAppExcuses DEF Excuses
  <2>3. CASE n # BATTERY_COUNTER /\ n < FR_COUNTER_MAX
    <3>1. u = s
      BY <1>1, <2>3
    <3> HIDE DEF u
    <3> QED BY <1>1, <3>1 DEF KeepsAwake
  <2>4. n >= FR_COUNTER_MAX \/ n < FR_COUNTER_MAX
    BY <1>1
  <2> QED BY <2>1, <2>2, <2>3, <2>4
<1> HIDE DEF u, t
<1>7. Excuses(u, t)
  BY <1>5, <1>6, ClearSleepTimerExcuses
<1>8. Excuses(s, t)
  BY <1>6, <1>7 DEF Excuses, KeepsAwake
<1> QED BY <1>8 DEF t

(* The last stage of a poll.                                                *)
LEMMA FinishedKeeps ==
  ASSUME NEW s \in PollStates, NEW k \in Kinds, NEW rec \in BOOLEAN,
         NEW others \in BOOLEAN, PollGood(s, others)
  PROVE  /\ PollGood(Finished(s, k, rec), others)
         /\ KeepsAwake(s, Finished(s, k, rec))
<1> DEFINE t == Finished(s, k, rec)
           parks == /\ s.b.pressed /\ s.b.counter = 1 /\ s.b.hold = HOLD_PRESENT
                    /\ k # "scene"
<1>1. CASE Rests(s)
  <2> DEFINE u == IF k \in OnPress THEN FinishedOnPress(s, k)
                                   ELSE FinishedMoving(s, k, rec)
  <2>1. Excuses(s, u)
    BY FinishedOnPressExcuses, FinishedMovingExcuses
  <2>2. t = EndGesture(u)
    BY <1>1 DEF Finished
  <2> HIDE DEF u, t
  <2>3. /\ t \in PollStates /\ t.a = u.a
        /\ ~t.b.pressed /\ ~t.b.released /\ t.b.counter = 0
    <3> DEFINE b == u.b
               c == [b EXCEPT !.counter = 0, !.pressed = FALSE,
                              !.released = FALSE, !.hold = HOLD_NOT_PRESENT]
    <3>1. /\ u \in PollStates /\ b \in ButtonStates
          /\ t = [u EXCEPT !.b = c]
      BY <2>1, <2>2 DEF Excuses, PollStates, EndGesture
    <3> HIDE DEF b
    <3>2. c \in ButtonStates /\ ~c.pressed /\ ~c.released /\ c.counter = 0
      <4>1. /\ b \in ButtonStates
            /\ c = [b EXCEPT !.counter = 0, !.pressed = FALSE,
                             !.released = FALSE, !.hold = HOLD_NOT_PRESENT]
        BY <3>1
      <4> HIDE DEF c
      <4>2. c = [debounce |-> b.debounce, pressed |-> FALSE, released |-> FALSE,
                 hold |-> HOLD_NOT_PRESENT, counter |-> 0, recent |-> b.recent]
        BY <4>1 DEF ButtonStates
      <4>3. c \in ButtonStates
        <5>1. b \in ButtonStates
          BY <4>1
        <5> QED BY <4>2, <5>1 DEF ButtonStates, HOLD_NOT_PRESENT
      <4>4. ~c.pressed /\ ~c.released /\ c.counter = 0
        BY <4>1 DEF ButtonStates
      <4> QED BY <4>3, <4>4
    <3> HIDE DEF c
    <3> QED BY <3>1, <3>2 DEF PollStates
  <2>4. PollGood(t, others) /\ KeepsAwake(s, t)
    BY <2>1, <2>3 DEF PollGood, Gesture, Excuses, KeepsAwake
  <2> QED BY <2>4 DEF t
<1>2. CASE ~Rests(s) /\ parks
  <2> DEFINE v == [s EXCEPT !.b.hold = HOLD_FIX, !.b.counter = 0, !.b.pressed = FALSE]
  <2>1. t = ClearSleepTimer(v, k)
    BY <1>2 DEF Finished
  <2>2. /\ v \in PollStates /\ v.a = s.a
        /\ v.b.hold = HOLD_FIX /\ v.b.counter = 0 /\ ~v.b.pressed
    <3> DEFINE b == s.b
               c == [b EXCEPT !.hold = HOLD_FIX, !.counter = 0, !.pressed = FALSE]
    <3>1. b \in ButtonStates /\ v = [s EXCEPT !.b = c]
      BY DEF PollStates
    <3> HIDE DEF b, v
    <3>2. c \in ButtonStates /\ c.hold = HOLD_FIX /\ ~c.pressed /\ c.counter = 0
      <4>1. /\ b \in ButtonStates
            /\ c = [b EXCEPT !.hold = HOLD_FIX, !.counter = 0, !.pressed = FALSE]
        BY <3>1
      <4> HIDE DEF c
      <4>2. c = [debounce |-> b.debounce, pressed |-> FALSE,
                 released |-> b.released, hold |-> HOLD_FIX, counter |-> 0,
                 recent |-> b.recent]
        BY <4>1 DEF ButtonStates
      <4>3. c \in ButtonStates
        <5>1. b \in ButtonStates
          BY <4>1
        <5> QED BY <4>2, <5>1 DEF ButtonStates, HOLD_FIX
      <4>4. c.hold = HOLD_FIX /\ ~c.pressed /\ c.counter = 0
        BY <4>1 DEF ButtonStates
      <4> QED BY <4>3, <4>4
    <3> HIDE DEF c
    <3> QED BY <3>1, <3>2 DEF PollStates
  <2> HIDE DEF v, t
  <2>3. Excuses(v, t)
    BY <2>1, <2>2, ClearSleepTimerExcuses DEF PollGood
  <2>4. PollGood(t, others) /\ KeepsAwake(s, t)
    BY <2>2, <2>3 DEF PollGood, Gesture, Excuses, KeepsAwake
  <2> QED BY <2>4 DEF t
<1>3. CASE ~Rests(s) /\ ~parks
  <2>1. t = s
    BY <1>3 DEF Finished
  <2> QED BY <2>1 DEF KeepsAwake
<1> QED BY <1>1, <1>2, <1>3

-----------------------------------------------------------------------------
(* The invariant of the state.                                              *)

IInv == TypeOK /\ GestureCannotStall /\ FlagsHaveTimers /\ AwakeHasReason

(* A button is in progress.                                                 *)
SomeInProgress == \E i \in Buttons : InProgress(button[i])

(* The invariant in the terms of the poll.                                  *)
LEMMA IInvByParts ==
  IInv <=> /\ TypeOK
           /\ \A i \in Buttons : Gesture(button[i])
           /\ Flags(app)
           /\ app.not_sleep => SomeInProgress \/ Excused(app)
BY DEF IInv, GestureCannotStall, Gesture, FlagsHaveTimers, Flags, AwakeHasReason,
       Owned, SomeInProgress, Excused

(* The same after a step.                                                   *)
LEMMA IInvByPartsNext ==
  IInv' <=> /\ TypeOK'
            /\ \A i \in Buttons : Gesture(button'[i])
            /\ Flags(app')
            /\ app'.not_sleep => SomeInProgress' \/ Excused(app')
BY DEF IInv, GestureCannotStall, Gesture, FlagsHaveTimers, Flags, AwakeHasReason,
       Owned, SomeInProgress, Excused, Reason

(* A button at rest is a legal button.                                      *)
LEMMA InitialButtonGood ==
  InitialButton \in ButtonStates /\ Gesture(InitialButton)
BY ButtonConstantsOK DEF InitialButton, ButtonStates, Gesture, HOLD_NOT_PRESENT

(* The app record of a device that starts is legal and excused.             *)
LEMMA InitialAppGood ==
  InitialApp \in AppStates /\ Flags(InitialApp) /\ Excused(InitialApp)
BY DEF InitialApp, AppStates, Flags, Excused, Timers

(* The initial states satisfy the invariant.                                *)
LEMMA InitEstablishes == Init => IInv
<1> SUFFICES ASSUME Init PROVE IInv
  OBVIOUS
<1>1. app = InitialApp /\ button = [i \in Buttons |-> InitialButton]
  BY DEF Init
<1>2. TypeOK
  BY <1>1, InitialButtonGood, InitialAppGood, ButtonConstantsOK DEF Init, TypeOK
<1> QED BY <1>1, <1>2, InitialButtonGood, InitialAppGood, IInvByParts

(* A step that changes the app record, and perhaps counts a window.         *)
LEMMA AppStep ==
  ASSUME IInv, UNCHANGED <<button, switchType, key, open>>,
         net' \in {"joined", "lost", "new"}, windows' \in Nat,
         app' \in AppStates, Flags(app'),
         app'.not_sleep => SomeInProgress \/ Excused(app')
  PROVE  IInv'
<1>1. TypeOK'
  BY DEF IInv, TypeOK
<1>2. SomeInProgress' <=> SomeInProgress
  BY DEF SomeInProgress, InProgress
<1> QED BY <1>1, <1>2, IInvByParts, IInvByPartsNext

(* A restart satisfies the invariant.                                       *)
LEMMA BootKeeps ==
  ASSUME IInv, Boot, UNCHANGED <<switchType, key, net, windows>>
  PROVE  IInv'
<1>1. /\ app' = InitialApp /\ button' = [i \in Buttons |-> InitialButton]
      /\ open' = [i \in Buttons |-> 0]
  BY DEF Boot
<1>2. TypeOK'
  BY <1>1, InitialButtonGood, InitialAppGood DEF IInv, TypeOK
<1> QED BY <1>1, <1>2, InitialButtonGood, InitialAppGood, IInvByPartsNext

(* The three stages of a poll, one after the other.                         *)
LEMMA PollKeeps ==
  ASSUME IInv, NEW i \in Buttons, Poll(i)
  PROVE  IInv' /\ (Boot \/ (app.not_sleep => app'.not_sleep))
<1> PICK rec \in BOOLEAN :
      LET k == switchType[i]
          s == Debounced(Held(Start(i), k, rec, key[i]), k, rec, key[i])
          f == Finished(s, k, rec)
      IN  IF Reboots(s) THEN Boot
          ELSE /\ button' = [button EXCEPT ![i] = f.b]
               /\ app' = f.a
               /\ open' = [open EXCEPT ![i] = f.open]
  BY DEF Poll
<1> DEFINE k == switchType[i]
           down == key[i]
           others == \E j \in Buttons \ {i} : InProgress(button[j])
           s == Start(i)
           h == Held(s, k, rec, down)
           d == Debounced(h, k, rec, down)
           f == Finished(d, k, rec)
<1>1. /\ k \in Kinds /\ down \in BOOLEAN /\ others \in BOOLEAN
      /\ net \in {"joined", "lost", "new"}
  BY DEF IInv, TypeOK
<1>2. /\ s \in PollStates /\ s.a = app /\ s.b = button[i]
      /\ app.not_sleep => InProgress(s.b) \/ others \/ Excused(s.a)
  BY IInvByParts DEF Start, PollStates, IInv, TypeOK, SomeInProgress
<1>3. PollGood(s, others)
  BY <1>2, IInvByParts DEF PollGood
<1>4. UNCHANGED <<switchType, key, net, windows>>
  BY DEF Poll
<1>5. IF Reboots(d) THEN Boot
      ELSE /\ button' = [button EXCEPT ![i] = f.b]
           /\ app' = f.a
           /\ open' = [open EXCEPT ![i] = f.open]
  OBVIOUS
<1> HIDE DEF s, k, down, others
<1>6. h \in PollStates /\ PollGood(h, others) /\ KeepsAwake(s, h)
  BY <1>1, <1>2, <1>3, HeldKeeps
<1> HIDE DEF h
<1>7. d \in PollStates /\ PollGood(d, others) /\ KeepsAwake(h, d)
  BY <1>1, <1>6, DebouncedKeeps
<1> HIDE DEF d
<1>8. PollGood(f, others) /\ KeepsAwake(d, f)
  BY <1>1, <1>7, FinishedKeeps
<1> HIDE DEF f
<1>9. CASE Reboots(d)
  BY <1>4, <1>5, <1>9, BootKeeps
<1>10. CASE ~Reboots(d)
  <2>1. /\ button' = [button EXCEPT ![i] = f.b] /\ app' = f.a
        /\ open' = [open EXCEPT ![i] = f.open]
        /\ f.b \in ButtonStates /\ f.a \in AppStates /\ f.open \in -1..2
    BY <1>5, <1>8, <1>10 DEF PollGood, PollStates
  <2>2. TypeOK'
    BY <1>4, <2>1 DEF IInv, TypeOK
  <2>3. /\ button'[i] = f.b
        /\ \A j \in Buttons \ {i} : button'[j] = button[j]
    BY <2>1 DEF IInv, TypeOK
  <2>4. \A j \in Buttons : Gesture(button'[j])
    BY <1>8, <2>3, IInvByParts DEF PollGood
  <2>5. app'.not_sleep => SomeInProgress' \/ Excused(app')
    <3>1. app'.not_sleep => InProgress(f.b) \/ others \/ Excused(app')
      BY <1>8, <2>1 DEF PollGood
    <3>2. InProgress(f.b) => SomeInProgress'
      BY <2>3 DEF SomeInProgress, InProgress
    <3>3. others => SomeInProgress'
      BY <2>3 DEF SomeInProgress, InProgress, others
    <3> QED BY <3>1, <3>2, <3>3
  <2>6. app.not_sleep => app'.not_sleep
    BY <1>2, <1>6, <1>7, <1>8, <2>1 DEF KeepsAwake
  <2>7. Flags(app')
    BY <1>8, <2>1 DEF PollGood
  <2> QED BY <2>2, <2>4, <2>5, <2>6, <2>7, IInvByPartsNext
<1> QED BY <1>9, <1>10

(* clearButtonSleepTimer either lets the device sleep or has a reason not   *)
(* to.                                                                      *)
LEMMA ClearButtonSleepTimerExcused ==
  ASSUME NEW a \in AppStates, Flags(a), NEW c, c = ClearButtonSleepTimer(a)
  PROVE  c \in AppStates /\ Flags(c) /\ (c.not_sleep => Excused(c))
BY DEF ClearButtonSleepTimer, MaySleep, AllowSleep, AppStates, Flags, Excused, Reason

(* Letting the device sleep.                                                *)
LEMMA AllowSleepGood ==
  ASSUME NEW a \in AppStates, Flags(a), NEW c, c = AllowSleep(a)
  PROVE  c \in AppStates /\ Flags(c) /\ ~c.not_sleep
BY DEF AllowSleep, AppStates, Flags

(* Letting it sleep unless a download runs.                                 *)
LEMMA UnlessOta ==
  ASSUME NEW a \in AppStates, Flags(a), NEW c, c = IF a.ota THEN a ELSE AllowSleep(a)
  PROVE  c \in AppStates /\ Flags(c) /\ (c.not_sleep => Excused(c))
BY AllowSleepGood DEF Excused, Reason

-----------------------------------------------------------------------------
(* The steps.                                                               *)

(* The timers of app_button.c.                                              *)
LEMMA ButtonTimersKeep ==
  ASSUME IInv, ClearSleepFires \/ FactoryResetFires \/ ButtonFindBindFires
  PROVE  IInv'
<1>1. /\ app \in AppStates /\ Flags(app)
      /\ UNCHANGED <<button, switchType, key, open>>
      /\ net' \in {"joined", "lost", "new"} /\ windows' \in Nat
  BY IInvByParts DEF IInv, TypeOK, ClearSleepFires, FactoryResetFires,
     ButtonFindBindFires, OnlyApp
<1>2. CASE ClearSleepFires
  <2> DEFINE a == Cancel(app, "clearSleep")
  <2>1. a \in AppStates /\ Flags(a)
    BY <1>1 DEF Cancel, AppStates, Flags
  <2>2. app' = ClearButtonSleepTimer(a)
    BY <1>2 DEF ClearSleepFires
  <2> HIDE DEF a
  <2> QED BY <1>1, <2>1, <2>2, ClearButtonSleepTimerExcused, AppStep
<1>3. CASE FactoryResetFires
  <2> DEFINE a == [Cancel(app, "factoryReset") EXCEPT !.factory_reset = FALSE]
  <2>1. a \in AppStates /\ Flags(a)
    BY <1>1 DEF Cancel, AppStates, Flags
  <2>2. app' = IF a.ota THEN a ELSE AllowSleep(a)
    BY <1>3 DEF FactoryResetFires
  <2> HIDE DEF a
  <2> QED BY <1>1, <2>1, <2>2, UnlessOta, AppStep
<1>4. CASE ButtonFindBindFires
  <2> DEFINE a == [Cancel(app, "buttonFindBind") EXCEPT !.buttonFindBindFlag = FALSE]
  <2>1. a \in AppStates /\ Flags(a)
    BY <1>1 DEF Cancel, AppStates, Flags
  <2>2. app' = Arm(a, "clearSleep")
    BY <1>4 DEF ButtonFindBindFires
  <2> HIDE DEF a
  <2> QED BY <1>1, <2>1, <2>2, ArmClearSleep, AppStep
<1> QED BY <1>2, <1>3, <1>4

(* The timers of app_utility.c and app_findbind.c.                          *)
LEMMA OtherTimersKeep ==
  ASSUME IInv,
         \/ SetPollRateFires \/ BdbFindBindFires \/ FindBindEnds
         \/ \E t \in {"clearFindBindFlag", "leakedFindBind"} : ClearFindBindFlagFires(t)
  PROVE  IInv'
<1>1. /\ app \in AppStates /\ Flags(app)
      /\ app.not_sleep => SomeInProgress \/ Excused(app)
      /\ UNCHANGED <<button, switchType, key, open>>
      /\ net' \in {"joined", "lost", "new"} /\ windows' \in Nat
  BY IInvByParts DEF IInv, TypeOK, SetPollRateFires, BdbFindBindFires, FindBindEnds,
     ClearFindBindFlagFires, OnlyApp
<1>2. CASE SetPollRateFires
  <2> DEFINE a == Cancel(app, "setPollRate")
  <2>1. a \in AppStates /\ Flags(a)
    BY <1>1 DEF Cancel, AppStates, Flags
  <2>2. app' = AllowSleep(a)
    BY <1>2 DEF SetPollRateFires
  <2> HIDE DEF a
  <2> QED BY <1>1, <2>1, <2>2, AllowSleepGood, AppStep
<1>3. CASE BdbFindBindFires
  <2>1. app' = Cancel(app, "bdbFindBind")
    BY <1>3 DEF BdbFindBindFires
  <2>2. /\ app' \in AppStates /\ Flags(app') /\ app'.not_sleep = app.not_sleep
        /\ Excused(app) => Excused(app')
    BY <1>1, <2>1 DEF Cancel, AppStates, Flags, Excused, Reason
  <2> QED BY <1>1, <2>2, AppStep
<1>4. CASE FindBindEnds
  <2> DEFINE a == Cancel(app, "clearFindBindFlag")
  <2>1. a \in AppStates /\ Flags(a)
    BY <1>1 DEF Cancel, AppStates, Flags
  <2>2. app' = IF a.ota THEN a ELSE AllowSleep(a)
    BY <1>4 DEF FindBindEnds
  <2> HIDE DEF a
  <2> QED BY <1>1, <2>1, <2>2, UnlessOta, AppStep
<1>5. ASSUME NEW t \in {"clearFindBindFlag", "leakedFindBind"}, ClearFindBindFlagFires(t)
      PROVE  IInv'
  <2> DEFINE lost == t = "leakedFindBind" /\ "clearFindBindFlag" \in app.timers
             left == IF lost \/ (t # "leakedFindBind" /\ "leakedFindBind" \in app.timers)
                     THEN {"leakedFindBind"} ELSE {}
             a == [app EXCEPT !.timers =
                     (@ \ {"clearFindBindFlag", "leakedFindBind"}) \cup left]
  <2>1. app' = IF app.ota THEN a ELSE AllowSleep(a)
    BY <1>1, <1>5 DEF ClearFindBindFlagFires, AppStates
  <2>2. left \subseteq {"leakedFindBind"}
    OBVIOUS
  <2> HIDE DEF left
  <2>3. a \in AppStates /\ Flags(a) /\ a.ota = app.ota
    BY <1>1, <2>2 DEF AppStates, Flags, Timers
  <2> HIDE DEF a
  <2> QED BY <1>1, <2>1, <2>3, UnlessOta, AppStep
<1> QED BY <1>2, <1>3, <1>4, <1>5

(* Confirmations, and the device going to its long sleep.                   *)
LEMMA ConfirmsKeep ==
  ASSUME IInv, CommandsSettle \/ OtherConfirm \/ LongSleep
  PROVE  IInv'
<1>1. /\ app \in AppStates /\ Flags(app)
      /\ UNCHANGED <<button, switchType, key, open>>
      /\ net' \in {"joined", "lost", "new"} /\ windows' \in Nat
  BY IInvByParts DEF IInv, TypeOK, CommandsSettle, OtherConfirm, LongSleep, OnlyApp
<1>2. CASE CommandsSettle
  <2> DEFINE a == [app EXCEPT !.repeats = FALSE]
  <2>1. a \in AppStates /\ Flags(a)
    BY <1>1 DEF AppStates, Flags
  <2>2. app' = ClearButtonSleepTimer(a)
    BY <1>2 DEF CommandsSettle
  <2> HIDE DEF a
  <2> QED BY <1>1, <2>1, <2>2, ClearButtonSleepTimerExcused, AppStep
<1>3. CASE OtherConfirm
  <2>1. app' = ClearButtonSleepTimer(app)
    BY <1>3 DEF OtherConfirm
  <2> QED BY <1>1, <2>1, ClearButtonSleepTimerExcused, AppStep
<1>4. CASE LongSleep
  <2>1. /\ app' = Cancel([app EXCEPT !.repeats = FALSE], "clearSleep")
        /\ ~app.not_sleep
    BY <1>4 DEF LongSleep
  <2>2. app' \in AppStates /\ Flags(app') /\ ~app'.not_sleep
    BY <1>1, <2>1 DEF Cancel, AppStates, Flags
  <2> QED BY <1>1, <2>2, AppStep
<1> QED BY <1>2, <1>3, <1>4

(* Windows opened by others, and downloads.                                 *)
LEMMA WindowsKeep ==
  ASSUME IInv,
         \/ BdbInit \/ OthersSetPollRate \/ OtaStart
         \/ \E success \in BOOLEAN : OtaComplete(success)
  PROVE  IInv'
<1>1. app \in AppStates /\ Flags(app)
  BY IInvByParts DEF IInv, TypeOK
<1>2. CASE BdbInit
  <2> DEFINE a == SetPollRate(app)
  <2>1. a \in AppStates /\ Flags(a) /\ Excused(a) /\ a.not_sleep
    BY <1>1, SetPollRateAwake
  <2>2. /\ app' = [a EXCEPT !.stray = "no"]
        /\ UNCHANGED <<button, switchType, key, open>>
        /\ net' \in {"joined", "lost", "new"} /\ windows' \in Nat
    BY <1>2 DEF BdbInit, IInv, TypeOK
  <2>3. Reason(a)
    BY <1>1 DEF SetPollRate, Arm, Cancel, AppStates, Reason
  <2> HIDE DEF a
  <2>4. app' \in AppStates /\ Flags(app') /\ Reason(app')
    BY <2>1, <2>2, <2>3 DEF AppStates, Flags, Reason
  <2> QED BY <2>2, <2>4, AppStep DEF Excused
<1>3. CASE OthersSetPollRate
  <2>1. /\ app' = SetPollRate(app)
        /\ UNCHANGED <<button, switchType, key, open>>
        /\ net' \in {"joined", "lost", "new"} /\ windows' \in Nat
    BY <1>3 DEF OthersSetPollRate, IInv, TypeOK
  <2> QED BY <1>1, <2>1, SetPollRateAwake, AppStep
<1>4. CASE OtaStart
  <2>1. /\ app' = Cancel([app EXCEPT !.not_sleep = TRUE, !.ota = TRUE,
                                     !.download = TRUE], "setPollRate")
        /\ UNCHANGED <<button, switchType, key, open>>
        /\ net' \in {"joined", "lost", "new"} /\ windows' \in Nat
    BY <1>4 DEF OtaStart, OnlyApp, IInv, TypeOK
  <2>2. app' \in AppStates /\ Flags(app') /\ Excused(app')
    BY <1>1, <2>1 DEF Cancel, AppStates, Flags, Excused, Reason
  <2> QED BY <2>1, <2>2, AppStep
<1>5. CASE OtaComplete(TRUE)
  BY <1>5, BootKeeps DEF OtaComplete
<1>6. CASE OtaComplete(FALSE)
  <2> DEFINE a == [app EXCEPT !.download = FALSE]
  <2>1. a \in AppStates /\ Flags(a)
    BY <1>1 DEF AppStates, Flags
  <2>2. /\ app' = SetPollRate(a)
        /\ UNCHANGED <<button, switchType, key, open>>
        /\ net' \in {"joined", "lost", "new"} /\ windows' \in Nat
    BY <1>6 DEF OtaComplete, IInv, TypeOK
  <2> HIDE DEF a
  <2> QED BY <2>1, <2>2, SetPollRateAwake, AppStep
<1> QED BY <1>2, <1>3, <1>4, <1>5, <1>6

(* Time, keys, the network and the settings.                                *)
LEMMA EnvironmentKeeps ==
  ASSUME IInv,
         \/ \E i \in Buttons : Elapse(i) \/ KeyMoves(i) \/ WriteSwitchType(i)
         \/ NetworkChanges \/ DeviceModelInit
  PROVE  IInv'
<1>1. CASE \E i \in Buttons : Elapse(i)
  <2>1. PICK i \in Buttons : Elapse(i)
    BY <1>1
  <2>2. button' = [button EXCEPT ![i].recent = FALSE]
        /\ UNCHANGED <<app, switchType, key, net, open, windows>>
    BY <2>1 DEF Elapse
  <2>3. \A j \in Buttons : /\ button'[j] \in ButtonStates
                           /\ button'[j].pressed = button[j].pressed
                           /\ button'[j].released = button[j].released
                           /\ button'[j].counter = button[j].counter
                           /\ button'[j].debounce = button[j].debounce
                           /\ button'[j].hold = button[j].hold
    <3> TAKE j \in Buttons
    <3>1. button[j] \in ButtonStates
      BY DEF IInv, TypeOK
    <3>2. button'[j] = button[j] \/ button'[j] = [button[j] EXCEPT !.recent = FALSE]
      BY <2>2 DEF IInv, TypeOK
    <3> QED BY <3>1, <3>2 DEF ButtonStates
  <2>4. button' \in [Buttons -> ButtonStates]
    BY <2>2, <2>3 DEF IInv, TypeOK
  <2>5. TypeOK'
    BY <2>2, <2>4 DEF IInv, TypeOK
  <2>6. \A j \in Buttons : Gesture(button'[j])
    BY <2>3, IInvByParts DEF Gesture
  <2>7. SomeInProgress' <=> SomeInProgress
    BY <2>3 DEF SomeInProgress, InProgress
  <2> QED BY <2>2, <2>5, <2>6, <2>7, IInvByParts, IInvByPartsNext
<1>2. CASE \/ NetworkChanges
           \/ \E i \in Buttons : KeyMoves(i) \/ WriteSwitchType(i)
  <2>1. button' = button /\ app' = app
    BY <1>2 DEF NetworkChanges, KeyMoves, WriteSwitchType
  <2>2. TypeOK'
    <3>1. CASE NetworkChanges
      BY <3>1 DEF NetworkChanges, IInv, TypeOK
    <3>2. ASSUME NEW i \in Buttons, KeyMoves(i) PROVE TypeOK'
      BY <3>2 DEF KeyMoves, IInv, TypeOK
    <3>3. ASSUME NEW i \in Buttons, WriteSwitchType(i) PROVE TypeOK'
      BY <3>3, ButtonConstantsOK DEF WriteSwitchType, IInv, TypeOK
    <3> QED BY <1>2, <3>1, <3>2, <3>3
  <2>3. SomeInProgress' <=> SomeInProgress
    BY <2>1 DEF SomeInProgress, InProgress
  <2> QED BY <2>1, <2>2, <2>3, IInvByParts, IInvByPartsNext
<1>3. CASE DeviceModelInit
  <2> DEFINE thrown == /\ app.not_sleep /\ app.stray = "no"
                       /\ \E i \in Buttons : button[i].pressed \/ button[i].released
  <2>1. /\ button' = [i \in Buttons |-> InitialButton]
        /\ app' = IF thrown THEN [app EXCEPT !.stray = "modelWrite"] ELSE app
        /\ open' = [i \in Buttons |-> 0]
        /\ UNCHANGED <<switchType, key, net, windows>>
    BY <1>3 DEF DeviceModelInit
  <2>2. app' \in AppStates /\ Flags(app')
    BY <2>1, IInvByParts DEF IInv, TypeOK, AppStates, Flags
  <2>3. TypeOK'
    BY <2>1, <2>2, InitialButtonGood DEF IInv, TypeOK
  <2>4. app'.not_sleep => Excused(app')
    <3>1. CASE thrown
      BY <2>1, <3>1 DEF IInv, TypeOK, AppStates, Excused
    <3>2. CASE ~thrown
      BY <2>1, <3>2, IInvByParts DEF SomeInProgress, InProgress, Excused
    <3> QED BY <3>1, <3>2
  <2> QED BY <2>1, <2>2, <2>3, <2>4, InitialButtonGood, IInvByPartsNext
<1> QED BY <1>1, <1>2, <1>3

(* The invariant is inductive.                                              *)
LEMMA NextKeeps == IInv /\ [Next]_vars => IInv'
<1> SUFFICES ASSUME IInv, [Next]_vars PROVE IInv'
  OBVIOUS
<1>1. CASE UNCHANGED vars
  BY <1>1 DEF vars, IInv, TypeOK, GestureCannotStall, FlagsHaveTimers, AwakeHasReason,
     Owned, Reason, InProgress
<1>2. CASE Next
  BY <1>2, PollKeeps, ButtonTimersKeep, OtherTimersKeep, ConfirmsKeep, WindowsKeep,
     EnvironmentKeeps DEF Next
<1> QED BY <1>1, <1>2

(* The inductive invariant holds in every reachable state.                  *)
THEOREM Invariance == Spec => []IInv
  BY InitEstablishes, NextKeeps, PTL DEF Spec

(* Every variable keeps its type: the debounce counter stays in             *)
(* 1..DEBOUNCE_BUTTON and the hold in its three values.                     *)
THEOREM TypeCorrect == Spec => []TypeOK
<1>1. IInv => TypeOK
  BY DEF IInv
<1> QED BY <1>1, Invariance, PTL

(* No gesture stalls, for any number of buttons, any debounce length and    *)
(* any bouncing of the keys (the gesture flags of app_button_t).            *)
THEOREM NoGestureStalls == Spec => []GestureCannotStall
<1>1. IInv => GestureCannotStall
  BY DEF IInv
<1> QED BY <1>1, Invariance, PTL

(* factory_reset and buttonFindBindFlag are set exactly while the timer     *)
(* that clears them runs.                                                   *)
THEOREM FlagsAreTimed == Spec => []FlagsHaveTimers
<1>1. IInv => FlagsHaveTimers
  BY DEF IInv
<1> QED BY <1>1, Invariance, PTL

(* g_appCtx.not_sleep is never set without something that will clear it,    *)
(* but for a start without a network and a write of the device model in the *)
(* middle of a gesture.                                                     *)
THEOREM NeverAwakeForNothing == Spec => []AwakeHasReason
<1>1. IInv => AwakeHasReason
  BY DEF IInv
<1> QED BY <1>1, Invariance, PTL

(* A step of the device cuts a poll-rate window only when a gesture timer   *)
(* was armed: clearButtonSleepTimer looks at the window first.              *)
LEMMA NextCuts ==
  ASSUME IInv, [Next]_vars,
         "setPollRate" \in app.timers \cap app'.timers,
         app.not_sleep, ~app'.not_sleep
  PROVE  \/ "factoryReset" \in app.timers
         \/ {"clearFindBindFlag", "leakedFindBind"} \cap app.timers # {}
<1>1. app \in AppStates
  BY DEF IInv, TypeOK
<1>2. ~Boot
  BY DEF Boot, InitialApp
<1>3. ASSUME NEW i \in Buttons, Poll(i) PROVE FALSE
  BY <1>2, <1>3, PollKeeps
<1>4. CASE ClearSleepFires \/ CommandsSettle \/ OtherConfirm
  BY <1>1, <1>4 DEF ClearSleepFires, CommandsSettle, OtherConfirm,
     ClearButtonSleepTimer, MaySleep, AllowSleep, Cancel, AppStates
<1>5. CASE ButtonFindBindFires \/ BdbFindBindFires
  BY <1>1, <1>5 DEF ButtonFindBindFires, BdbFindBindFires, Arm, Cancel, AppStates
<1>6. CASE SetPollRateFires
  BY <1>1, <1>6 DEF SetPollRateFires, AllowSleep, Cancel, AppStates
<1>7. CASE BdbInit \/ OthersSetPollRate
  <2> DEFINE a == SetPollRate(app)
  <2>1. a \in AppStates /\ a.not_sleep
    BY <1>1, SetPollRateAwake
  <2>2. app' = a \/ app' = [a EXCEPT !.stray = "no"]
    BY <1>7 DEF BdbInit, OthersSetPollRate
  <2> HIDE DEF a
  <2> QED BY <2>1, <2>2 DEF AppStates
<1>8. CASE OtaStart
  BY <1>1, <1>8 DEF OtaStart, Cancel, AppStates
<1>9. ASSUME NEW success \in BOOLEAN, OtaComplete(success) PROVE FALSE
  <2> DEFINE a == [app EXCEPT !.download = FALSE]
  <2>1. a \in AppStates /\ app' = SetPollRate(a)
    BY <1>1, <1>2, <1>9 DEF OtaComplete, AppStates
  <2> HIDE DEF a
  <2> QED BY <2>1, SetPollRateAwake
<1>10. CASE \/ UNCHANGED vars \/ NetworkChanges \/ LongSleep
            \/ \E i \in Buttons : Elapse(i) \/ KeyMoves(i) \/ WriteSwitchType(i)
  BY <1>10 DEF vars, NetworkChanges, LongSleep, Elapse, KeyMoves, WriteSwitchType
<1>11. CASE DeviceModelInit
  BY <1>1, <1>11 DEF DeviceModelInit, AppStates
<1>12. CASE \/ FactoryResetFires \/ FindBindEnds
            \/ \E t \in {"clearFindBindFlag", "leakedFindBind"} : ClearFindBindFlagFires(t)
  BY <1>12 DEF FactoryResetFires, FindBindEnds, ClearFindBindFlagFires
<1> QED BY <1>3, <1>4, <1>5, <1>6, <1>7, <1>8, <1>9, <1>10, <1>11, <1>12 DEF Next

(* While a poll-rate window stays open the device is not allowed to sleep   *)
(* by a command, a confirmation or a timer left over from an earlier press. *)
THEOREM WindowsAreRespected == Spec => OnlyGesturesCutWindows
<1>1. IInv /\ [Next]_vars =>
        [/\ "setPollRate" \in app.timers \cap app'.timers
         /\ app.not_sleep /\ ~app'.not_sleep
         => \/ "factoryReset" \in app.timers
            \/ {"clearFindBindFlag", "leakedFindBind"} \cap app.timers # {}]_vars
  BY NextCuts
<1> QED BY <1>1, Invariance, PTL DEF Spec, OnlyGesturesCutWindows
=============================================================================
