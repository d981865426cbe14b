------------------------ MODULE EvTimerRefinementProofs ------------------------
(***************************************************************************)
(* The list of timers implements the set of timers TimerSet.  Calls and    *)
(* returns map to steps of the client and of the callback by what          *)
(* EvTimerProofs says of their effect.  That a timer does not fire early   *)
(* needs an invariant of its own: how much a timeout has been charged.     *)
(***************************************************************************)
EXTENDS EvTimerProofs

(***************************************************************************)
(* How much of a timer is counted.  A timer that was not counted yet has    *)
(* its whole period before it.  One that was has been charged no more than  *)
(* it waited, but for the ticks that remSysTick held when it was counted    *)
(* first: less than a millisecond.                                          *)
(***************************************************************************)
Counted(e, w, l) ==
  /\ e.cb \in Clients /\ e.period # 0
  /\ ~e.isRunning => e.timeout = e.period
  /\ e.isRunning =>
       \/ w = e.period * TICKS
       \/ e.period * TICKS + l <= e.timeout * TICKS + w + (TICKS - 1)
NInv == \A s \in UsedSlots : Counted(ev_timer.evt[s], waited[s], lag + remSysTick)
Inv == TInv /\ PInv /\ NInv

-----------------------------------------------------------------------------
(* Arithmetic of ticks and milliseconds, each product one number.           *)
LEMMA TicksAre == TICKS \in Nat /\ TICKS >= 1
BY EvConstantsOK DEF EvConstantsOK

LEMMA Whole ==
  ASSUME NEW n \in Nat
  PROVE  /\ n \div TICKS \in Nat
         /\ n % TICKS \in 0..(TICKS - 1)
         /\ n = (n \div TICKS) * TICKS + (n % TICKS)
<1>1. n = TICKS * (n \div TICKS) + (n % TICKS)
  BY TicksAre
<1> QED BY <1>1, TicksAre

LEMMA SumOfTicks ==
  ASSUME NEW a \in Nat, NEW b \in Nat
  PROVE  (a + b) * TICKS = a * TICKS + b * TICKS
BY TicksAre

LEMMA MoreTicks ==
  ASSUME NEW a \in Nat, NEW b \in Nat, a <= b
  PROVE  a * TICKS <= b * TICKS
<1> DEFINE d == b - a
<1>1. d \in Nat /\ b = a + d
  OBVIOUS
<1> HIDE DEF d
<1>2. b * TICKS = a * TICKS + d * TICKS
  BY <1>1, SumOfTicks
<1> DEFINE A == a * TICKS
           B == b * TICKS
           D == d * TICKS
<1>3. A \in Nat /\ B \in Nat /\ D \in Nat /\ B = A + D
  BY <1>1, <1>2, Products
<1> HIDE DEF A, B, D
<1>4. A <= B
  BY <1>3
<1> QED BY <1>4 DEF A, B

(* What is charged comes off the timeout, as far as it reaches.             *)
LEMMA ChargedTicks ==
  ASSUME NEW a \in Nat, NEW b \in Nat
  PROVE  Monus(a, b) \in Nat /\ a * TICKS <= Monus(a, b) * TICKS + b * TICKS
<1> DEFINE m == Monus(a, b)
<1>1. m \in Nat /\ a <= m + b /\ m + b \in Nat
  BY DEF Monus
<1> HIDE DEF m
<1>2. a * TICKS <= (m + b) * TICKS
  BY <1>1, MoreTicks
<1>3. (m + b) * TICKS = m * TICKS + b * TICKS
  BY <1>1, SumOfTicks
<1>4. a * TICKS <= m * TICKS + b * TICKS
  BY <1>2, <1>3
<1> QED BY <1>1, <1>4 DEF m

(* ev_timer_process charges the lag and the remainder but for what it keeps *)
(* as the new remainder.                                                    *)
LEMMA ProcessCharges ==
  ASSUME TypeOK
  PROVE  LET sum == remSysTick + (lag % TICKS)
             ms == (lag \div TICKS) + (sum \div TICKS)
         IN  ms \in Nat /\ ms * TICKS + (sum % TICKS) = lag + remSysTick
<1> DEFINE a == lag \div TICKS
           b == lag % TICKS
           sum == remSysTick + b
           c == sum \div TICKS
           d == sum % TICKS
<1>1. lag \in Nat /\ remSysTick \in Nat
  BY EvConstantsOK DEF TypeOK, EvConstantsOK
<1>2. a \in Nat /\ b \in Nat /\ lag = a * TICKS + b
  BY <1>1, Whole, TicksAre
<1>3. sum \in Nat
  BY <1>1, <1>2
<1>4. c \in Nat /\ d \in Nat /\ sum = c * TICKS + d
  <2> HIDE DEF sum
  <2> QED BY <1>3, Whole, TicksAre
<1>5. sum = remSysTick + b
  OBVIOUS
<1> HIDE DEF a, b, c, d, sum
<1>6. (a + c) * TICKS = a * TICKS + c * TICKS
  BY <1>2, <1>4, SumOfTicks
<1> DEFINE A == a * TICKS
           C == c * TICKS
           M == (a + c) * TICKS
<1>7. A \in Nat /\ C \in Nat /\ M = A + C /\ lag = A + b /\ sum = C + d
  BY <1>2, <1>4, <1>6, Products
<1> HIDE DEF A, C, M
<1>8. M + d = lag + remSysTick
  BY <1>1, <1>2, <1>4, <1>5, <1>7
<1>9. a + c \in Nat /\ (a + c) * TICKS + d = lag + remSysTick
  BY <1>2, <1>4, <1>8 DEF M
<1> QED BY <1>9 DEF a, b, c, d, sum
-----------------------------------------------------------------------------
(* A timer counted before: the charge is time that passed, out of the lag   *)
(* or on top of what the timer waited.                                      *)
LEMMA CountedOn ==
  ASSUME NEW E \in Nat, NEW a \in Nat, NEW b \in Nat,
         NEW l \in Nat, NEW m \in Nat, NEW w \in Nat, NEW v \in Nat,
         E + l <= a * TICKS + w + (TICKS - 1),
         b * TICKS + m + w <= l + v
  PROVE  E + m <= Monus(a, b) * TICKS + v + (TICKS - 1)
<1>1. Monus(a, b) \in Nat /\ a * TICKS <= Monus(a, b) * TICKS + b * TICKS
  BY ChargedTicks
<1> DEFINE A == a * TICKS
           B == b * TICKS
           M == Monus(a, b) * TICKS
<1>2. A \in Nat /\ B \in Nat /\ M \in Nat
  BY <1>1, Products
<1>3. A <= M + B /\ E + l <= A + w + (TICKS - 1) /\ B + m + w <= l + v
  BY <1>1
<1> HIDE DEF A, B, M
<1>4. E + m <= M + v + (TICKS - 1)
  BY <1>2, <1>3, TicksAre
<1> QED BY <1>4 DEF M

(* A timer counted for the first time: the charge is what it waited in      *)
(* whole milliseconds.                                                      *)
LEMMA CountedFirst ==
  ASSUME NEW a \in Nat, NEW v \in Nat, NEW m \in 0..(TICKS - 1)
  PROVE  a * TICKS + m <= Monus(a, v \div TICKS) * TICKS + v + (TICKS - 1)
<1> DEFINE b == v \div TICKS
           r == v % TICKS
<1>1. b \in Nat /\ r \in 0..(TICKS - 1) /\ v = b * TICKS + r
  BY Whole
<1> HIDE DEF b, r
<1>2. Monus(a, b) \in Nat /\ a * TICKS <= Monus(a, b) * TICKS + b * TICKS
  BY <1>1, ChargedTicks
<1> DEFINE A == a * TICKS
           B == b * TICKS
           M == Monus(a, b) * TICKS
<1>3. A \in Nat /\ B \in Nat /\ M \in Nat
  BY <1>1, <1>2, Products
<1>4. A <= M + B /\ v = B + r
  BY <1>1, <1>2
<1> HIDE DEF A, B, M
<1>5. A + m <= M + v + (TICKS - 1)
  BY <1>1, <1>3, <1>4, TicksAre
<1> QED BY <1>5 DEF M, A, b

(* ev_timer_update keeps the account, be it after a turn of the loop or     *)
(* after a sleep.                                                           *)
LEMMA UpdateKeepsCount ==
  ASSUME Inv, NEW ms \in Nat, NEW v \in [Slots -> Nat], NEW m \in 0..(TICKS - 1),
         \A s \in UsedSlots :
            \/ v[s] = ev_timer.evt[s].period * TICKS
            \/ /\ waited[s] # ev_timer.evt[s].period * TICKS
               /\ ms * TICKS + m + waited[s] <= lag + remSysTick + v[s]
  PROVE  LET u == Update(ev_timer, ms, v)
         IN  \A s \in Used(u) : Counted(u.evt[s], v[s], m)
<1> DEFINE u == Update(ev_timer, ms, v)
<1>1. /\ Used(u) = UsedSlots
      /\ \A s \in Slots : u.evt[s].period = ev_timer.evt[s].period
                          /\ u.evt[s].cb = ev_timer.evt[s].cb
      /\ ms = 0 => u = ev_timer
      /\ ms # 0 => \A s \in UsedSlots :
           /\ u.evt[s].isRunning
           /\ u.evt[s].timeout = Monus(ev_timer.evt[s].timeout, Charge(ev_timer, ms, v, s))
  BY Updated, UsedIsUsedSlots DEF Inv, TInv
<1> HIDE DEF u
<1> SUFFICES ASSUME NEW s \in UsedSlots PROVE Counted(u.evt[s], v[s], m)
  BY <1>1 DEF u
<1> DEFINE p == ev_timer.evt[s].period
           a == ev_timer.evt[s].timeout
           E == p * TICKS
           l == lag + remSysTick
           w == waited[s]
<1>2. s \in Slots /\ p \in Nat /\ p # 0 /\ a \in Nat /\ E \in Nat /\ l \in Nat /\ w \in Nat
      /\ v[s] \in Nat /\ m \in Nat
  <2>1. TypeOK /\ s \in Slots
    BY DEF Inv, TInv, UsedSlots
  <2>2. lag \in Nat /\ remSysTick \in Nat
    BY <2>1, EvConstantsOK DEF TypeOK, EvConstantsOK
  <2>3. a \in Nat /\ p \in Nat /\ E \in Nat /\ w \in Nat
    BY <2>1, TypedTimers DEF Event
  <2>4. p # 0
    BY DEF Inv, NInv, Counted
  <2>5. m \in Nat
    BY TicksAre
  <2> QED BY <2>1, <2>2, <2>3, <2>4, <2>5
<1>3. u.evt[s].period = p /\ u.evt[s].cb \in Clients
  BY <1>1, <1>2 DEF Inv, NInv, Counted
<1>4. /\ ~ev_timer.evt[s].isRunning => a = p
      /\ ev_timer.evt[s].isRunning => w = E \/ E + l <= a * TICKS + w + (TICKS - 1)
  BY DEF Inv, NInv, Counted
<1>5. \/ v[s] = E
      \/ w # E /\ ms * TICKS + m + w <= l + v[s]
  BY DEF l
<1>6. CASE ms = 0
  <2>1. u.evt[s].timeout = a /\ u.evt[s].isRunning = ev_timer.evt[s].isRunning
    BY <1>1, <1>6
  <2>2. 0 * TICKS = 0 /\ Monus(a, 0) = a
    BY <1>2, Products DEF Monus
  <2>3. ASSUME ev_timer.evt[s].isRunning, v[s] # E
        PROVE  E + m <= a * TICKS + v[s] + (TICKS - 1)
    <3>1. E + l <= a * TICKS + w + (TICKS - 1)
      BY <1>4, <1>5, <2>3
    <3>2. 0 * TICKS + m + w <= l + v[s]
      BY <1>5, <1>6, <2>3
    <3> HIDE DEF E, l, a, w
    <3>3. E + m <= Monus(a, 0) * TICKS + v[s] + (TICKS - 1)
      BY <1>2, <3>1, <3>2, CountedOn
    <3> QED BY <2>2, <3>3
  <2> QED BY <1>2, <1>3, <1>4, <2>1, <2>3 DEF Counted
<1>7. CASE ms # 0
  <2>1. u.evt[s].isRunning /\ u.evt[s].timeout = Monus(a, Charge(ev_timer, ms, v, s))
    BY <1>1, <1>7
  <2>2. ASSUME ev_timer.evt[s].isRunning, v[s] # E
        PROVE  E + m <= Monus(a, ms) * TICKS + v[s] + (TICKS - 1)
    <3>1. E + l <= a * TICKS + w + (TICKS - 1)
      BY <1>4, <1>5, <2>2
    <3>2. ms * TICKS + m + w <= l + v[s]
      BY <1>5, <2>2
    <3> HIDE DEF E, l, a, w
    <3> QED BY <1>2, <3>1, <3>2, CountedOn
  <2>3. ASSUME ~ev_timer.evt[s].isRunning
        PROVE  E + m <= Monus(a, v[s] \div TICKS) * TICKS + v[s] + (TICKS - 1)
    <3>1. a * TICKS + m <= Monus(a, v[s] \div TICKS) * TICKS + v[s] + (TICKS - 1)
      BY <1>2, CountedFirst
    <3>2. a = p
      BY <1>4, <2>3
    <3> QED BY <3>1, <3>2
  <2>4. v[s] = E \/ E + m <= u.evt[s].timeout * TICKS + v[s] + (TICKS - 1)
    BY <2>1, <2>2, <2>3 DEF Charge
  <2> QED BY <1>2, <1>3, <2>1, <2>4 DEF Counted
<1> QED BY <1>6, <1>7

-----------------------------------------------------------------------------
(* The account is kept by every step.                                       *)

(* A timer that another step does not touch keeps its account.              *)
LEMMA SameCount ==
  ASSUME NEW e, NEW f, SameTimer(f, e), NEW w, NEW l, Counted(e, w, l)
  PROVE  Counted(f, w, l)
BY DEF SameTimer, Counted

LEMMA NewCount ==
  ASSUME NEW e, NEW c \in Clients, NEW ms \in Timeouts[c], IsNew(e, c, ms), NEW w, NEW l
  PROVE  Counted(e, w, l)
BY TimeoutsArePositive DEF IsNew, Counted

LEMMA CallKeepsCount ==
  ASSUME Inv, NEW c \in Clients, NEW T, CallEffect(c, T)
  PROVE  NInv'
<1>1. lag' = lag /\ remSysTick' = remSysTick
  BY DEF CallEffect, Loop
<1> SUFFICES ASSUME NEW s \in UsedSlots'
             PROVE  Counted(ev_timer'.evt[s], waited'[s], lag + remSysTick)
  BY <1>1 DEF NInv
<1>2. CASE s \in T
  <2>1. \E ms \in Timeouts[c] : IsNew(ev_timer'.evt[s], c, ms)
    BY <1>2 DEF CallEffect, UsedSlots, Unused
  <2> QED BY <2>1, NewCount
<1>3. CASE s \notin T
  <2>1. s \in Slots \ T
    BY <1>3 DEF UsedSlots
  <2>2. SameTimer(ev_timer'.evt[s], ev_timer.evt[s]) /\ waited'[s] = waited[s]
    BY <2>1 DEF CallEffect
  <2>3. s \in UsedSlots
    BY <2>1, <2>2 DEF SameTimer, UsedSlots
  <2> QED BY <2>2, <2>3, SameCount DEF Inv, NInv
<1> QED BY <1>2, <1>3

LEMMA TickKeepsCount ==
  ASSUME Inv, Tick
  PROVE  NInv'
<1>1. /\ ev_timer' = ev_timer /\ remSysTick' = remSysTick /\ lag' = lag + 1
      /\ waited' = Waited(1) /\ UsedSlots' = UsedSlots
  BY DEF Tick, UsedSlots
<1> SUFFICES ASSUME NEW s \in UsedSlots
             PROVE  Counted(ev_timer.evt[s], waited'[s], lag + 1 + remSysTick)
  BY <1>1 DEF NInv
<1> DEFINE e == ev_timer.evt[s]
           E == e.period * TICKS
           A == e.timeout * TICKS
           w == waited[s]
           v == waited'[s]
           l == lag + remSysTick
<1>2. s \in Slots /\ TypeOK
  BY DEF UsedSlots, Inv, TInv
<1>3. E \in Nat /\ A \in Nat /\ w \in Nat /\ l \in Nat /\ lag \in Nat /\ remSysTick \in Nat
  <2>1. lag \in Nat /\ remSysTick \in Nat
    BY <1>2, EvConstantsOK DEF TypeOK, EvConstantsOK
  <2>2. E \in Nat /\ w \in Nat /\ e.timeout \in Nat
    BY <1>2, TypedTimers DEF Event
  <2>3. A \in Nat
    BY <2>2, Products
  <2> QED BY <2>1, <2>2, <2>3
<1>4. v = IF w + 1 < E THEN w + 1 ELSE E
  BY <1>1, <1>2 DEF Waited
<1>5. /\ e.cb \in Clients /\ e.period # 0
      /\ ~e.isRunning => e.timeout = e.period
      /\ e.isRunning => w = E \/ E + l <= A + w + (TICKS - 1)
  BY DEF Inv, NInv, Counted
<1> HIDE DEF E, A, w, v, l
<1>6. ASSUME w = E \/ E + l <= A + w + (TICKS - 1)
      PROVE  v = E \/ E + (l + 1) <= A + v + (TICKS - 1)
  BY <1>3, <1>4, <1>6, TicksAre
<1>7. l + 1 = lag + 1 + remSysTick
  BY <1>3 DEF l
<1>8. e.isRunning => v = E \/ E + (lag + 1 + remSysTick) <= A + v + (TICKS - 1)
  BY <1>5, <1>6, <1>7
<1> QED BY <1>5, <1>8 DEF Counted, E, A, v

LEMMA ProcessKeepsCount ==
  ASSUME Inv, Process
  PROVE  NInv'
<1> DEFINE sum == remSysTick + (lag % TICKS)
           ms == (lag \div TICKS) + (sum \div TICKS)
           m == sum % TICKS
<1>1. TypeOK /\ waited \in [Slots -> Nat] /\ lag \in Nat /\ remSysTick \in Nat
  BY EvConstantsOK DEF Inv, TInv, TypeOK, EvConstantsOK
<1>2. ms \in Nat /\ ms * TICKS + m = lag + remSysTick /\ m \in 0..(TICKS - 1)
  BY <1>1, ProcessCharges, ProcessMs
<1>3. /\ ev_timer' = Update(ev_timer, ms, waited)
      /\ lag' = 0 /\ remSysTick' = m /\ waited' = waited
  BY DEF Process
<1> HIDE DEF sum, ms, m
<1>4. ASSUME NEW s \in UsedSlots
      PROVE  ms * TICKS + m + waited[s] <= lag + remSysTick + waited[s]
  <2>1. waited[s] \in Nat
    BY <1>1 DEF UsedSlots
  <2> QED BY <1>1, <1>2, <2>1
<1>5. \A s \in Used(ev_timer') : Counted(ev_timer'.evt[s], waited[s], m)
  BY <1>1, <1>2, <1>3, <1>4, UpdateKeepsCount
<1>6. lag' + remSysTick' = m
  BY <1>2, <1>3, TicksAre
<1> QED BY <1>3, <1>5, <1>6, UsedIsUsedSlots DEF NInv

LEMMA SleepKeepsCount ==
  ASSUME Inv, NEW n \in WakeTimers, NEW ms \in AllTimeouts, Sleep(n, ms)
  PROVE  NInv'
<1> DEFINE M == ms * TICKS
           m == remSysTick
<1>1. TypeOK /\ lag \in Nat /\ m \in 0..(TICKS - 1) /\ ms \in Nat /\ M \in Nat
  BY Products, EvConstantsOK DEF Inv, TInv, TypeOK, EvConstantsOK, AllTimeouts, Range
<1>2. /\ ev_timer' = Update(ev_timer, ms, waited') /\ waited' = Waited(M)
      /\ lag' = 0 /\ remSysTick' = m
  BY DEF Sleep
<1>3. waited' \in [Slots -> Nat]
  BY <1>1, <1>2, WaitedType
<1>4. ASSUME NEW s \in UsedSlots, waited'[s] # ev_timer.evt[s].period * TICKS
      PROVE  /\ waited[s] # ev_timer.evt[s].period * TICKS
             /\ M + m + waited[s] <= lag + remSysTick + waited'[s]
  <2> DEFINE E == ev_timer.evt[s].period * TICKS
             w == waited[s]
  <2>1. E \in Nat /\ w \in Nat /\ s \in Slots
    BY <1>1, TypedTimers DEF UsedSlots
  <2>2. waited'[s] = IF w + M < E THEN w + M ELSE E
    BY <1>2, <2>1 DEF Waited
  <2>3. waited'[s] # E
    BY <1>4
  <2> HIDE DEF E, w, M
  <2>4. waited'[s] = w + M /\ w # E
    BY <1>1, <2>1, <2>2, <2>3
  <2>5. M + m + w <= lag + m + waited'[s]
    BY <1>1, <2>1, <2>4, TicksAre
  <2> QED BY <2>4, <2>5 DEF E, w
<1>5. \A s \in Used(ev_timer') : Counted(ev_timer'.evt[s], waited'[s], m)
  BY <1>1, <1>2, <1>3, <1>4, UpdateKeepsCount
<1>6. lag' + remSysTick' = m
  BY <1>1, <1>2, TicksAre
<1> QED BY <1>5, <1>6, UsedIsUsedSlots DEF NInv

LEMMA ReturnEndKeepsCount ==
  ASSUME Inv, ReturnEnd
  PROVE  NInv'
<1>1. /\ ReturnEffect /\ ev_timer'.evt[timerEvt] = Unused
      /\ lag' = lag /\ remSysTick' = remSysTick
      /\ waited' = [waited EXCEPT ![timerEvt] = 0]
  BY ReturnEndEffect DEF Inv, ReturnEnd, Proceed
<1> SUFFICES ASSUME NEW s \in UsedSlots'
             PROVE  Counted(ev_timer'.evt[s], waited'[s], lag + remSysTick)
  BY <1>1 DEF NInv
<1>2. s \in Slots \ {timerEvt}
  BY <1>1 DEF UsedSlots, Unused
<1>3. SameTimer(ev_timer'.evt[s], ev_timer.evt[s]) /\ s \in UsedSlots
  BY <1>1, <1>2 DEF ReturnEffect
<1>4. waited'[s] = waited[s]
  BY <1>1, <1>2 DEF Inv, TInv, TypeOK
<1> QED BY <1>3, <1>4, SameCount DEF Inv, NInv

LEMMA ReturnAgainKeepsCount ==
  ASSUME Inv, NEW p \in AllTimeouts, ReturnAgain(p)
  PROVE  NInv'
<1>1. /\ ReturnEffect /\ UsedSlots' = UsedSlots
      /\ ev_timer'.evt[timerEvt].period = p /\ ev_timer'.evt[timerEvt].timeout = p
      /\ ev_timer'.evt[timerEvt].cb = ev_timer.evt[timerEvt].cb
      /\ lag' = lag /\ remSysTick' = remSysTick
      /\ waited' = [waited EXCEPT ![timerEvt] = IF lag < p * TICKS THEN lag ELSE p * TICKS]
  BY ReturnAgainEffect DEF Inv, ReturnAgain, Proceed
<1> SUFFICES ASSUME NEW s \in UsedSlots
             PROVE  Counted(ev_timer'.evt[s], waited'[s], lag + remSysTick)
  BY <1>1 DEF NInv
<1>2. CASE s # timerEvt
  <2>1. s \in Slots \ {timerEvt}
    BY <1>2 DEF UsedSlots
  <2>2. SameTimer(ev_timer'.evt[s], ev_timer.evt[s])
    BY <1>1, <2>1 DEF ReturnEffect
  <2>3. waited'[s] = waited[s]
    BY <1>1, <2>1 DEF Inv, TInv, TypeOK
  <2> QED BY <2>2, <2>3, SameCount DEF Inv, NInv
<1>3. CASE s = timerEvt
  <2> DEFINE E == p * TICKS
             w == waited'[s]
  <2>1. p \in Nat /\ p # 0 /\ E \in Nat /\ lag \in Nat /\ remSysTick \in 0..(TICKS - 1)
    BY Products, EvConstantsOK DEF Inv, TInv, TypeOK, EvConstantsOK, AllTimeouts, Range
  <2>2. w = IF lag < E THEN lag ELSE E
    BY <1>1, <1>3 DEF Inv, TInv, TypeOK, UsedSlots
  <2> HIDE DEF E, w
  <2>3. w = E \/ E + (lag + remSysTick) <= E + w + (TICKS - 1)
    BY <2>1, <2>2, TicksAre
  <2>4. ev_timer'.evt[timerEvt].cb \in Clients
    BY <1>1, <1>3 DEF Inv, NInv, Counted
  <2> QED BY <1>1, <1>3, <2>1, <2>3, <2>4 DEF Counted, E, w
<1> QED BY <1>2, <1>3

LEMMA StepKeepsCount ==
  ASSUME Inv, [Next]_vars
  PROVE  NInv'
<1>1. ASSUME NEW c \in Clients, CancelTimer(c) \/ \E ms \in Timeouts[c] : ScheduleTimer(c, ms)
      PROVE  NInv'
  BY <1>1, CancelEffect, ScheduleEffect, CallKeepsCount DEF Inv
<1>2. ASSUME NEW c \in Clients, Exhausted(c)
      PROVE  NInv'
  BY <1>2 DEF Exhausted, NInv, UsedSlots, Unused
<1>3. ASSUME UNCHANGED <<lag, remSysTick, waited>>,
             \A s \in Slots : /\ ev_timer'.evt[s].used = ev_timer.evt[s].used
                              /\ ev_timer'.evt[s].cb = ev_timer.evt[s].cb
                              /\ ev_timer'.evt[s].isRunning = ev_timer.evt[s].isRunning
                              /\ ev_timer'.evt[s].timeout = ev_timer.evt[s].timeout
                              /\ ev_timer'.evt[s].period = ev_timer.evt[s].period
      PROVE  NInv'
  BY <1>3 DEF Inv, NInv, Counted, UsedSlots
<1>4. CASE Execute
  <2>1. timerEvt \in Slots /\ ev_timer \in Table
    BY <1>4 DEF Execute, Inv, TInv, TypeOK
  <2>2. \A s \in Slots : /\ ev_timer'.evt[s].used = ev_timer.evt[s].used
                         /\ ev_timer'.evt[s].cb = ev_timer.evt[s].cb
                         /\ ev_timer'.evt[s].isRunning = ev_timer.evt[s].isRunning
                         /\ ev_timer'.evt[s].timeout = ev_timer.evt[s].timeout
                         /\ ev_timer'.evt[s].period = ev_timer.evt[s].period
    BY <1>4, <2>1 DEF Execute, Table, Event
  <2> QED BY <1>3, <1>4, <2>2 DEF Execute
<1>5. CASE EndPass
  <2>1. ev_timer'.evt = ev_timer.evt
    BY <1>5, NearestUpdated DEF Inv, TInv, EndPass
  <2> QED BY <1>3, <1>5, <2>1 DEF EndPass
<1>6. CASE Skip \/ NextTurn \/ UNCHANGED vars
  BY <1>3, <1>6 DEF Skip, NextTurn, vars
<1> QED BY <1>1, <1>2, <1>4, <1>5, <1>6, TickKeepsCount, ProcessKeepsCount, SleepKeepsCount,
           ReturnEndKeepsCount, ReturnAgainKeepsCount DEF Next

LEMMA InvHoldsToo == Spec => []Inv
<1>1. Init => NInv
  BY DEF Init, NInv, UsedSlots, Unused
<1>2. TInv /\ PInv /\ NInv /\ [Next]_vars => NInv'
  BY StepKeepsCount DEF Inv
<1>3. TInv /\ PInv /\ NInv => Inv
  BY DEF Inv
<1> QED BY <1>1, <1>2, <1>3, InvHolds, PTL DEF Spec

-----------------------------------------------------------------------------
(***************************************************************************)
(* The steps of the set of timers.  Armeds and Running are what TimerSet    *)
(* sees of the list; a timer is armed by client and period alone, so what   *)
(* leaves used, cb and period as they were leaves it armed.  Good are the   *)
(* clients with a handle of their own.                                      *)
(***************************************************************************)
Armeds == [s \in Slots |-> IF ev_timer.evt[s].used
                           THEN [client |-> ev_timer.evt[s].cb, period |-> ev_timer.evt[s].period]
                           ELSE None]
Running == IF pc = "callback" THEN timerEvt ELSE 0
Good == {c \in Clients : HandleIsOwn(c)}
PromiseVars == <<Armeds, Running, waited, Good>>
SameArmed(s) ==
  /\ ev_timer'.evt[s].used = ev_timer.evt[s].used
  /\ ev_timer'.evt[s].cb = ev_timer.evt[s].cb
  /\ ev_timer'.evt[s].period = ev_timer.evt[s].period

LEMMA ArmedIs ==
  ASSUME NEW s \in Slots
  PROVE  /\ Armeds[s] = IF ev_timer.evt[s].used
                        THEN [client |-> ev_timer.evt[s].cb, period |-> ev_timer.evt[s].period]
                        ELSE None
         /\ Armeds'[s] = IF ev_timer'.evt[s].used
                         THEN [client |-> ev_timer'.evt[s].cb, period |-> ev_timer'.evt[s].period]
                         ELSE None
BY DEF Armeds

LEMMA StaysArmed ==
  ASSUME NEW s \in Slots, SameArmed(s)
  PROVE  Armeds'[s] = Armeds[s]
BY ArmedIs DEF SameArmed

LEMMA AllStayArmed ==
  ASSUME \A s \in Slots : SameArmed(s)
  PROVE  Armeds' = Armeds
BY DEF Armeds, SameArmed

LEMMA GoodStays ==
  ASSUME \A d \in Clients : HandleIsOwn(d)' <=> HandleIsOwn(d)
  PROVE  Good' = Good
BY DEF Good

LEMMA RestStaysGood ==
  ASSUME Inv, Rest
  PROVE  Good' = Good
BY RestKeepsHandles, GoodStays DEF Inv

LEMMA CallIsCall ==
  ASSUME Inv, MayCall, NEW c \in Clients, NEW T, CallEffect(c, T)
  PROVE  Promise!Call(c)
<1>0. T \in SUBSET Slots /\ pc' = pc /\ timerEvt' = timerEvt
  BY DEF CallEffect, Loop
<1>1. Running' = Running
  BY <1>0 DEF Running
<1>2. ASSUME NEW s \in Slots \ T
      PROVE  Armeds'[s] = Armeds[s] /\ waited'[s] = waited[s]
  <2>1. SameTimer(ev_timer'.evt[s], ev_timer.evt[s]) /\ waited'[s] = waited[s]
    BY DEF CallEffect
  <2> QED BY <2>1, StaysArmed DEF SameTimer, SameArmed
<1>3. ASSUME NEW s \in T
      PROVE  /\ s # Running /\ waited'[s] = 0
             /\ c \in Good => Armeds[s] = None \/ Armeds[s].client = c
             /\ Armeds'[s] = None \/ Armeds'[s].client = c
  <2>1. s \in Slots /\ waited'[s] = 0
    BY <1>0, <1>3 DEF CallEffect
  <2>2. s \in UsedSlots => s = handle[c] /\ ~ev_timer.evt[s].isBusy
    BY <1>3 DEF CallEffect
  <2>3. s # Running
    BY <2>1, <2>2, NullIsNoSlot DEF Running, NULL, Inv, TInv, WalkIsSafe, UsedSlots
  <2>4. ASSUME c \in Good
        PROVE  Armeds[s] = None \/ Armeds[s].client = c
    <3>1. CASE ev_timer.evt[s].used
      <4>1. handle[c] # NULL /\ s = handle[c]
        BY <2>1, <2>2, <3>1, NullIsNoSlot DEF UsedSlots
      <4>2. ev_timer.evt[s].cb = c
        BY <2>4, <4>1 DEF Good, HandleIsOwn
      <4>3. Armeds[s] = [client |-> c, period |-> ev_timer.evt[s].period]
        BY <2>1, <3>1, <4>2, ArmedIs
      <4> QED BY <4>3
    <3>2. CASE ~ev_timer.evt[s].used
      BY <2>1, <3>2, ArmedIs
    <3> QED BY <3>1, <3>2
  <2>5. Armeds'[s] = None \/ Armeds'[s].client = c
    <3>1. CASE ev_timer'.evt[s] = Unused
      <4>1. ~ev_timer'.evt[s].used
        BY <3>1 DEF Unused
      <4> QED BY <2>1, <4>1, ArmedIs
    <3>2. ASSUME NEW ms \in Timeouts[c], IsNew(ev_timer'.evt[s], c, ms)
          PROVE  Armeds'[s] = [client |-> c, period |-> ms]
      BY <2>1, <3>2, ArmedIs DEF IsNew
    <3>3. ASSUME NEW ms, Armeds'[s] = [client |-> c, period |-> ms]
          PROVE  Armeds'[s].client = c
      BY <3>3
    <3> QED BY <1>3, <3>1, <3>2, <3>3 DEF CallEffect
  <2> QED BY <2>1, <2>3, <2>4, <2>5
<1>4. \A s \in Slots :
        \/ Armeds'[s] = Armeds[s] /\ waited'[s] = waited[s]
        \/ /\ s # Running
           /\ c \in Good => Armeds[s] = None \/ Armeds[s].client = c
           /\ Armeds'[s] = None \/ Armeds'[s].client = c
           /\ waited'[s] = 0
  BY <1>2, <1>3
<1>5. \A d \in Clients \ {c} : HandleIsOwn(d)' => HandleIsOwn(d)
  BY CallKeepsOthers DEF Inv
<1>6. CASE c \in Good
  <2>1. HandleIsOwn(c) /\ HandleIsOwn(c)'
    BY <1>6, CallKeepsOwn DEF Good
  <2>2. \A d \in Clients \ {c} : HandleIsOwn(d) => HandleIsOwn(d)'
    BY <2>1, CallKeepsOthers DEF Inv
  <2>3. Good' = Good
    BY <1>5, <2>1, <2>2, GoodStays
  <2> QED BY <1>1, <1>4, <1>6, <2>3 DEF Promise!Call, Promise!Owned, Armeds, Running, Good
<1>7. CASE c \notin Good
  <2>1. Good' \subseteq Good \cup {c}
    BY <1>5 DEF Good
  <2> QED BY <1>1, <1>4, <1>7, <2>1 DEF Promise!Call, Promise!Owned, Armeds, Running, Good
<1> QED BY <1>6, <1>7

LEMMA ResetIsReset ==
  ASSUME NEW c \in Clients, Exhausted(c)
  PROVE  Promise!Reset
<1>1. Armeds' = [s \in Slots |-> None]
  BY DEF Exhausted, Armeds, Unused
<1>2. Running' = 0
  BY DEF Exhausted, Running
<1>3. Good' = Clients
  BY DEF Exhausted, Good, HandleIsOwn
<1> QED BY <1>1, <1>2, <1>3 DEF Promise!Reset, Armeds, Running, Good

LEMMA TimePasses ==
  ASSUME Inv, NEW n \in Nat, waited' = Waited(n), \A s \in Slots : SameArmed(s),
         Running' = Running, Good' = Good
  PROVE  Promise!Tick
<1>1. Armeds' = Armeds
  BY AllStayArmed
<1>2. \A s \in Slots : waited'[s] >= waited[s]
  BY WaitedType DEF Inv, TInv
<1> QED BY <1>1, <1>2 DEF Promise!Tick, Armeds, Running, Good

LEMMA ExecuteIsFire ==
  ASSUME Inv, Execute
  PROVE  Promise!Fire(timerEvt)
<1> DEFINE s == timerEvt
           e == ev_timer.evt[s]
           E == e.period * TICKS
           w == waited[s]
<1>1. /\ pc = "scan" /\ pc' = "callback" /\ e.timeout = 0 /\ timerEvt' = timerEvt
      /\ ev_timer' = [ev_timer EXCEPT !.evt[timerEvt].isBusy = TRUE]
      /\ waited' = waited
  BY DEF Execute, Due
<1>2. s \in UsedSlots /\ s \in Slots /\ ev_timer \in Table /\ TypeOK
  BY DEF Execute, Inv, TInv, WalkIsSafe, UsedSlots, Sound
<1>3. Armeds' = Armeds
  <2>1. \A q \in Slots : SameArmed(q)
    BY <1>1, <1>2 DEF SameArmed, Table, Event
  <2> QED BY <2>1, AllStayArmed
<1>4. Running = 0 /\ Running' = s
  BY <1>1 DEF Running
<1>5. Armeds[s] = [client |-> e.cb, period |-> e.period]
  BY <1>2, ArmedIs DEF UsedSlots
<1>6. Armeds[s] # None
  <2>1. e.cb \in Clients /\ e.period \in Nat
    BY <1>2, TypedTimers DEF Inv, NInv, Counted
  <2>2. Armeds[s] \in [client : Clients, period : Nat]
    BY <2>1, <1>5
  <2> QED BY <2>2, EvConstantsOK DEF EvConstantsOK
<1>7. w + TICKS > E
  <2>1. e.period # 0 /\ e.isRunning
    BY <1>1, <1>2 DEF Inv, NInv, Counted
  <2>2. w = E \/ E + (lag + remSysTick) <= 0 * TICKS + w + (TICKS - 1)
    BY <1>1, <1>2, <2>1 DEF Inv, NInv, Counted
  <2>3. 0 * TICKS = 0 /\ E \in Nat /\ w \in Nat /\ lag \in Nat /\ remSysTick \in Nat
    BY <1>2, Products, TypedTimers, EvConstantsOK DEF TypeOK, EvConstantsOK
  <2> HIDE DEF E, w
  <2>4. w = E \/ E + (lag + remSysTick) <= w + (TICKS - 1)
    BY <2>2, <2>3, TicksAre
  <2> QED BY <2>3, <2>4, TicksAre
<1>8. Armeds[s].period = e.period
  BY <1>5
<1>9. waited[s] + TICKS > Armeds[s].period * TICKS
  BY <1>7, <1>8
<1>10. Good' = Good
  BY RestStaysGood DEF Rest
<1> HIDE DEF s
<1>11. Promise!Fire(s)
  BY <1>1, <1>3, <1>4, <1>6, <1>9, <1>10 DEF Promise!Fire, Armeds, Running, Good
<1> QED BY <1>11 DEF s

LEMMA ReturnIsReturn ==
  ASSUME Inv, ReturnEnd \/ \E p \in AllTimeouts : ReturnAgain(p)
  PROVE  Promise!Return
<1>1. /\ pc = "callback" /\ pc' = "scan"
      /\ \A s \in Slots \ {timerEvt} : waited'[s] = waited[s]
  BY DEF ReturnEnd, ReturnAgain, Proceed, Inv, TInv, TypeOK
<1>2. timerEvt \in Slots /\ timerEvt # 0 /\ ev_timer.evt[timerEvt].used
  BY <1>1, NullIsNoSlot DEF Inv, TInv, WalkIsSafe, UsedSlots, NULL
<1>3. /\ ReturnEffect
      /\ \/ ev_timer'.evt[timerEvt] = Unused
         \/ ev_timer'.evt[timerEvt].cb = ev_timer.evt[timerEvt].cb
  BY ReturnEndEffect, ReturnAgainEffect DEF Inv
<1>4. Running = timerEvt /\ Running' = 0
  BY <1>1 DEF Running
<1>5. \A s \in Slots \ {Running} : Armeds'[s] = Armeds[s] /\ waited'[s] = waited[s]
  BY <1>1, <1>3, <1>4, StaysArmed DEF ReturnEffect, SameTimer, SameArmed
<1>6. Armeds'[timerEvt] # None => Armeds'[timerEvt].client = Armeds[timerEvt].client
  <2>1. Armeds[timerEvt] = [client |-> ev_timer.evt[timerEvt].cb,
                            period |-> ev_timer.evt[timerEvt].period]
    BY <1>2, ArmedIs
  <2>2. CASE ev_timer'.evt[timerEvt].used /\ ev_timer'.evt[timerEvt].cb = ev_timer.evt[timerEvt].cb
    <3>1. Armeds'[timerEvt] = [client |-> ev_timer.evt[timerEvt].cb,
                               period |-> ev_timer'.evt[timerEvt].period]
      BY <1>2, <2>2, ArmedIs
    <3> QED BY <2>1, <3>1
  <2>3. CASE ~ev_timer'.evt[timerEvt].used
    BY <1>2, <2>3, ArmedIs
  <2> QED BY <1>3, <2>2, <2>3 DEF Unused
<1>7. Running # 0
  BY <1>2, <1>4
<1>8. Armeds[timerEvt].client = Client
  <2>1. Armeds[timerEvt] = [client |-> Client, period |-> ev_timer.evt[timerEvt].period]
    BY <1>2, ArmedIs DEF Client
  <2> QED BY <2>1
<1>9. \/ Good' = Good
      \/ Armeds'[timerEvt] = None /\ Client \in Forgetful /\ Good' = Good \ {Client}
      \/ Armeds'[timerEvt] = None /\ Client \notin Forgetful /\ Good' = Good \cup {Client}
  <2>1. CASE ReturnEnd
    <3>1. Armeds'[timerEvt] = None
      <4>1. ev_timer'.evt[timerEvt] = Unused
        BY <2>1, ReturnEndEffect DEF Inv
      <4>2. ~ev_timer'.evt[timerEvt].used
        BY <4>1 DEF Unused
      <4> QED BY <1>2, <4>2, ArmedIs
    <3>2. \A d \in Clients \ {Client} : HandleIsOwn(d)' <=> HandleIsOwn(d)
      BY <2>1, ReturnEndHandles DEF Inv
    <3>3. Client \in Clients
      BY <1>2 DEF Inv, NInv, Counted, UsedSlots, Client
    <3>4. \A d \in Clients : d = Client =>
            /\ d \in Forgetful => (HandleIsOwn(d)' => HandleIsOwn(d))
            /\ d \notin Forgetful => HandleIsOwn(d)'
      BY <2>1, ReturnEndHandles DEF Inv
    <3>5. CASE Client \in Forgetful
      <4>1. Good' \in {Good, Good \ {Client}}
        BY <3>2, <3>4, <3>5 DEF Good
      <4> QED BY <3>1, <3>5, <4>1
    <3>6. CASE Client \notin Forgetful
      <4>1. Good' = Good \cup {Client}
        BY <3>2, <3>3, <3>4, <3>6 DEF Good
      <4> QED BY <3>1, <3>6, <4>1
    <3> QED BY <3>5, <3>6
  <2>2. ASSUME NEW p \in AllTimeouts, ReturnAgain(p)
        PROVE  Good' = Good
    BY <2>2, RestStaysGood DEF Rest
  <2> QED BY <2>1, <2>2
<1> QED BY <1>4, <1>5, <1>6, <1>7, <1>8, <1>9 DEF Promise!Return, Armeds, Running, Good

LEMMA PromiseVarsAre == UNCHANGED PromiseVars => UNCHANGED Promise!vars
BY DEF PromiseVars, Promise!vars, Armeds, Running, Good

LEMMA PromiseStep ==
  ASSUME Inv, [Next]_vars
  PROVE  Promise!Next \/ UNCHANGED PromiseVars
<1>0. Rest => Good' = Good
  BY RestStaysGood
<1>1. ASSUME NEW c \in Clients, CancelTimer(c) \/ \E ms \in Timeouts[c] : ScheduleTimer(c, ms)
      PROVE  Promise!Next
  <2>1. MayCall
    BY <1>1 DEF CancelTimer, ScheduleTimer
  <2>2. PICK T : CallEffect(c, T)
    BY <1>1, CancelEffect, ScheduleEffect DEF Inv
  <2>3. Promise!Call(c)
    BY <2>1, <2>2, CallIsCall
  <2> QED BY <2>3 DEF Promise!Next
<1>2. ASSUME NEW c \in Clients, Exhausted(c)
      PROVE  Promise!Next
  BY <1>2, ResetIsReset DEF Promise!Next
<1>3. CASE Tick
  <2>1. /\ waited' = Waited(1) /\ \A s \in Slots : SameArmed(s)
        /\ Running' = Running
    BY <1>3 DEF Tick, SameArmed, Running
  <2>2. Promise!Tick
    BY <2>1, <1>0, <1>3, TimePasses DEF Rest
  <2> QED BY <2>2 DEF Promise!Next
<1>4. CASE Process
  <2> DEFINE ms == (lag \div TICKS) + ((remSysTick + (lag % TICKS)) \div TICKS)
  <2>1. ms \in Nat /\ waited \in [Slots -> Nat] /\ Sound(ev_timer)
    BY ProcessMs DEF Inv, TInv, TypeOK
  <2>2. ev_timer' = Update(ev_timer, ms, waited) /\ waited' = waited /\ pc = "loop" /\ pc' = "scan"
    BY <1>4 DEF Process
  <2> HIDE DEF ms
  <2>3. \A s \in Slots : SameArmed(s)
    BY <2>1, <2>2, Updated DEF SameArmed
  <2> QED BY <1>0, <1>4, <2>2, <2>3, AllStayArmed DEF PromiseVars, Running, Rest
<1>5. CASE Skip \/ NextTurn \/ UNCHANGED vars
  <2>1. ev_timer' = ev_timer /\ waited' = waited /\ Running' = Running
    BY <1>5 DEF Skip, NextTurn, vars, Running
  <2>2. Armeds' = Armeds
    BY <2>1, AllStayArmed DEF SameArmed
  <2> QED BY <1>0, <1>5, <2>1, <2>2 DEF PromiseVars, Rest
<1>6. CASE Execute
  <2>1. timerEvt \in Slots
    BY <1>6 DEF Execute, Inv, TInv, TypeOK
  <2>2. Promise!Fire(timerEvt)
    BY <1>6, ExecuteIsFire
  <2> QED BY <2>1, <2>2 DEF Promise!Next
<1>7. CASE ReturnEnd \/ \E p \in AllTimeouts : ReturnAgain(p)
  BY <1>7, ReturnIsReturn DEF Promise!Next
<1>8. CASE EndPass
  <2>1. ev_timer'.evt = ev_timer.evt /\ waited' = waited /\ Running' = Running
    BY <1>8, NearestUpdated DEF EndPass, Running, Inv, TInv
  <2>2. Armeds' = Armeds
    BY <2>1, AllStayArmed DEF SameArmed
  <2> QED BY <1>0, <1>8, <2>1, <2>2 DEF PromiseVars, Rest
<1>9. ASSUME NEW n \in WakeTimers, NEW ms \in AllTimeouts, Sleep(n, ms)
      PROVE  Promise!Next
  <2> DEFINE M == ms * TICKS
  <2>1. ms \in Nat /\ M \in Nat
    BY Products, EvConstantsOK DEF EvConstantsOK, AllTimeouts, Range
  <2>2. /\ ev_timer' = Update(ev_timer, ms, waited') /\ waited' = Waited(M)
        /\ pc = "passed" /\ pc' = "loop"
    BY <1>9 DEF Sleep
  <2> HIDE DEF M
  <2>3. waited' \in [Slots -> Nat]
    BY <2>1, <2>2, WaitedType DEF Inv, TInv
  <2>4. \A s \in Slots : SameArmed(s)
    BY <2>1, <2>2, <2>3, Updated DEF SameArmed, Inv, TInv
  <2>5. Running' = Running
    BY <2>2 DEF Running
  <2>6. Promise!Tick
    BY <1>0, <1>9, <2>1, <2>2, <2>4, <2>5, TimePasses DEF Rest
  <2> QED BY <2>6 DEF Promise!Next
<1> QED BY <1>1, <1>2, <1>3, <1>4, <1>5, <1>6, <1>7, <1>8, <1>9 DEF Next

(* For any pool, clients and timeouts, the list of ev_timer.c keeps what    *)
(* TimerSet promises: a call by a handle of one's own touches no other's    *)
(* timer, no call the one whose callback runs, one callback runs at a time, *)
(* for a timer that is armed, and less than a millisecond before its time   *)
(* at worst, whatever the loop, the sleep and the remainder of the ticks    *)
(* charge; and a handle goes bad only where a callback forgets it, or by a  *)
(* call through one that is bad already.                                    *)
THEOREM PromiseIsKept == Spec => TimersKeepPromise
<1>1. Init => Promise!Init
  <2> SUFFICES ASSUME Init PROVE Promise!Init
    OBVIOUS
  <2>1. Armeds = [s \in Slots |-> None]
    BY DEF Init, Armeds, Unused
  <2>2. Running = 0 /\ Good = Clients
    BY DEF Init, Running, Good, HandleIsOwn
  <2> QED BY <2>1, <2>2 DEF Promise!Init, Armeds, Running, Good, Init
<1>2. Inv /\ [Next]_vars => [Promise!Next]_(Promise!vars)
  <2> SUFFICES ASSUME Inv, [Next]_vars
               PROVE  Promise!Next \/ UNCHANGED Promise!vars
    OBVIOUS
  <2> QED BY PromiseStep, PromiseVarsAre
<1> QED BY <1>1, <1>2, InvHoldsToo, PTL DEF Spec, TimersKeepPromise, Promise!Spec
=============================================================================
