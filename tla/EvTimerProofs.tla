----------------------------- MODULE EvTimerProofs -----------------------------
(***************************************************************************)
(* The list of timers, for every pool, set of clients and timeouts.  That   *)
(* the pointers form a list is an invariant over sets: from the head they   *)
(* leave every set but the whole list, and they leave every part of it, so  *)
(* no operation needs to count along the list.  What the walk of            *)
(* ev_timer_executeCB has still before it is described the same way, and    *)
(* the inductive invariant says that every timer due lies there.            *)
(***************************************************************************)
EXTENDS EvTimer, FiniteSetTheorems, TLAPS

(***************************************************************************)
(* A nonempty set of numbers has a least one.  Were there none, the numbers *)
(* below all of the set would be a finite set that + 1 maps into itself:    *)
(* an injection, so onto, but nothing maps to 0.                            *)
(***************************************************************************)
LEMMA LeastExists ==
  ASSUME NEW V \in SUBSET Nat, V # {}
  PROVE  \E k \in V : \A l \in V : k <= l
<1> SUFFICES ASSUME \A k \in V : \E l \in V : l < k PROVE FALSE
  OBVIOUS
<1> DEFINE B == {n \in Nat : \A l \in V : n < l}
           f == [n \in B |-> n + 1]
<1>1. \A n \in B : n + 1 \in B
  <2> SUFFICES ASSUME NEW n \in B, NEW l \in V PROVE n + 1 < l
    OBVIOUS
  <2>1. PICK m \in V : m < l
    OBVIOUS
  <2> QED BY <2>1
<1>2. 0 \in B
  <2> SUFFICES ASSUME NEW l \in V PROVE 0 < l
    OBVIOUS
  <2>1. PICK m \in V : m < l
    OBVIOUS
  <2> QED BY <2>1
<1>3. IsFiniteSet(B)
  <2>1. PICK m \in V : TRUE
    OBVIOUS
  <2>2. \A n \in B : n <= m
    BY <2>1
  <2>3. B \in SUBSET Nat /\ m \in Nat
    BY <2>1
  <2> HIDE DEF B
  <2> QED BY <2>2, <2>3, FS_BoundedSetOfNaturals
<1>4. f \in Injection(B, B)
  BY <1>1 DEF Injection, IsInjective
<1>5. f \in Surjection(B, B)
  <2> HIDE DEF B, f
  <2> QED BY <1>3, <1>4, FS_Injection
<1>6. PICK n \in B : f[n] = 0
  BY <1>2, <1>5 DEF Surjection
<1> QED BY <1>6
-----------------------------------------------------------------------------
(***************************************************************************)
(* Linked lists.  IsList: from the head h the pointers n lead through all   *)
(* of U, once, and end.  Its last conjunct excludes a circle: the pointers  *)
(* leave every part of U somewhere.  Path is From for a table of pointers.  *)
(***************************************************************************)
Pointers == [Slots -> Slots \cup {NULL}]
Leaves(n, C) == \E x \in C : n[x] \notin C \cup {NULL}
Path(n, h) == {s \in Slots : \A C \in SUBSET (Slots \ {s}) : h \in C \cup {NULL} => Leaves(n, C)}
IsList(h, U, n) ==
  /\ h \in U \cup {NULL}
  /\ \A s \in U : n[s] \in U \cup {NULL}
  /\ \A s \in U : n[s] = NULL \/ n[s] # h
  /\ \A s, q \in U : n[s] = n[q] /\ n[s] # NULL => s = q
  /\ \A C \in SUBSET U : h \in C \cup {NULL} /\ ~Leaves(n, C) => C = U
  /\ \A C \in SUBSET U : C # {} => \E x \in C : n[x] \notin C

LEMMA NullIsNoSlot == NULL \notin Slots /\ Slots \subseteq Nat /\ NULL \in Nat
BY EvConstantsOK DEF EvConstantsOK, NULL, Slots

(* A path passes through the event it starts from ...                       *)
LEMMA PathStart ==
  ASSUME NEW n \in Pointers, NEW s \in Slots
  PROVE  s \in Path(n, s)
BY NullIsNoSlot DEF Path

(* ... and goes on behind it.                                               *)
LEMMA PathNext ==
  ASSUME NEW n \in Pointers, NEW s \in Slots, NEW q \in Path(n, s), q # s
  PROVE  q \in Path(n, n[s])
<1> SUFFICES ASSUME NEW C \in SUBSET (Slots \ {q}), n[s] \in C \cup {NULL}, ~Leaves(n, C)
             PROVE  FALSE
  BY DEF Path
<1>1. C \cup {s} \in SUBSET (Slots \ {q}) /\ s \in C \cup {s}
  OBVIOUS
<1>2. Leaves(n, C \cup {s})
  BY <1>1 DEF Path
<1>3. ~Leaves(n, C \cup {s})
  BY DEF Leaves
<1> QED BY <1>2, <1>3

LEMMA PathOfNull ==
  ASSUME NEW n \in Pointers
  PROVE  Path(n, NULL) = {}
<1>1. {} \in SUBSET (Slots \ {NULL}) /\ ~Leaves(n, {})
  BY DEF Leaves
<1> QED BY <1>1 DEF Path

(* The list holds what the pointers lead to from its head.                  *)
LEMMA ListIsPath ==
  ASSUME NEW n \in Pointers, NEW U \in SUBSET Slots, NEW h, IsList(h, U, n)
  PROVE  Path(n, h) = U
<1>1. ASSUME NEW q \in Path(n, h), q \notin U PROVE FALSE
  <2>1. U \in SUBSET (Slots \ {q}) /\ h \in U \cup {NULL} /\ ~Leaves(n, U)
    BY <1>1 DEF IsList, Leaves
  <2> QED BY <1>1, <2>1 DEF Path
<1>2. ASSUME NEW q \in U, NEW C \in SUBSET (Slots \ {q}), h \in C \cup {NULL}, ~Leaves(n, C)
      PROVE  FALSE
  <2>1. C \cap U \in SUBSET U /\ h \in (C \cap U) \cup {NULL}
    BY <1>2 DEF IsList
  <2>2. ~Leaves(n, C \cap U)
    BY <1>2 DEF IsList, Leaves
  <2>3. C \cap U = U
    BY <2>1, <2>2 DEF IsList
  <2> QED BY <1>2, <2>3
<1>3. U \subseteq Path(n, h)
  BY <1>2 DEF Path
<1> QED BY <1>1, <1>3

-----------------------------------------------------------------------------
(* LIST_ADD: what was a list is one with the new event in front, and paths  *)
(* inside of it stay.                                                       *)
LEMMA AddIsList ==
  ASSUME NEW n \in Pointers, NEW m \in Pointers, NEW U \in SUBSET Slots, NEW h, IsList(h, U, n),
         NEW s \in Slots \ U, m[s] = h, \A q \in U : m[q] = n[q]
  PROVE  IsList(s, U \cup {s}, m)
<1>0. \A q \in U : m[q] \in U \cup {NULL} /\ m[q] # s
  BY NullIsNoSlot DEF IsList
<1>1. \A q \in U \cup {s} : m[q] \in U \cup {s, NULL}
  BY <1>0 DEF IsList
<1>2. \A q \in U \cup {s} : m[q] = NULL \/ m[q] # s
  BY <1>0, NullIsNoSlot DEF IsList
<1>3. \A p, q \in U \cup {s} : m[p] = m[q] /\ m[p] # NULL => p = q
  BY DEF IsList
<1>4. ASSUME NEW C \in SUBSET (U \cup {s}), s \in C \cup {NULL}, ~Leaves(m, C)
      PROVE  C = U \cup {s}
  <2>1. s \in C /\ h \in (C \ {s}) \cup {NULL}
    BY <1>4, NullIsNoSlot DEF Leaves, IsList
  <2>2. ~Leaves(n, C \ {s})
    BY <1>4, <1>0 DEF Leaves
  <2>3. C \ {s} = U
    BY <2>1, <2>2 DEF IsList
  <2> QED BY <2>1, <2>3
<1>5. ASSUME NEW C \in SUBSET (U \cup {s}), C # {}
      PROVE  \E x \in C : m[x] \notin C
  <2>1. CASE C = {s}
    BY <2>1, NullIsNoSlot DEF IsList
  <2>2. CASE C # {s}
    <3>1. C \ {s} \in SUBSET U /\ C \ {s} # {}
      BY <1>5, <2>2
    <3>2. PICK x \in C \ {s} : n[x] \notin C \ {s}
      BY <3>1 DEF IsList
    <3> QED BY <3>1, <3>2, <1>0
  <2> QED BY <2>1, <2>2
<1> QED BY <1>1, <1>2, <1>3, <1>4, <1>5 DEF IsList

LEMMA AddKeepsPath ==
  ASSUME NEW n \in Pointers, NEW m \in Pointers, NEW U \in SUBSET Slots, NEW h, IsList(h, U, n),
         NEW s \in Slots \ U, \A q \in U : m[q] = n[q],
         NEW g \in U \cup {NULL}, NEW q \in Path(n, g)
  PROVE  q \in Path(m, g)
<1> SUFFICES ASSUME NEW C \in SUBSET (Slots \ {q}), g \in C \cup {NULL}, ~Leaves(m, C)
             PROVE  FALSE
  BY DEF Path
<1>1. C \cap U \in SUBSET (Slots \ {q}) /\ g \in (C \cap U) \cup {NULL}
  OBVIOUS
<1>2. ~Leaves(n, C \cap U)
  BY DEF IsList, Leaves
<1> QED BY <1>1, <1>2 DEF Path

(* LIST_DELETE: the pointer to the event, the head or that of the one in    *)
(* front of it, is led past it.                                             *)
Past(n, s, x) == IF x = s THEN n[s] ELSE x
LEMMA DeleteIsList ==
  ASSUME NEW n \in Pointers, NEW m \in Pointers, NEW U \in SUBSET Slots, NEW h, IsList(h, U, n),
         NEW s \in U, \A q \in U \ {s} : m[q] = Past(n, s, n[q])
  PROVE  IsList(Past(n, s, h), U \ {s}, m)
<1> DEFINE V == U \ {s}
           g == Past(n, s, h)
<1>0. n[s] # s /\ s # NULL /\ n[s] \in V \cup {NULL}
  <2>1. {s} \in SUBSET U /\ {s} # {}
    OBVIOUS
  <2>2. \E x \in {s} : n[x] \notin {s}
    BY <2>1 DEF IsList
  <2> QED BY <2>2, NullIsNoSlot DEF IsList
<1>1. g \in V \cup {NULL}
  BY <1>0 DEF IsList, Past
<1>2. \A q \in V : m[q] \in V \cup {NULL}
  BY <1>0 DEF IsList, Past
<1>3. \A q \in V : m[q] = NULL \/ m[q] # g
  BY <1>0 DEF IsList, Past
<1>4. \A p, q \in V : m[p] = m[q] /\ m[p] # NULL => p = q
  BY <1>0 DEF IsList, Past
<1>5. ASSUME NEW C \in SUBSET V, g \in C \cup {NULL}, ~Leaves(m, C)
      PROVE  C = V
  <2>1. CASE h = s \/ \E p \in C : n[p] = s
    <3>1. n[s] \in C \cup {NULL}
      BY <1>0, <1>5, <2>1 DEF Past, Leaves
    <3>2. ~Leaves(n, C \cup {s})
      BY <3>1, <1>5 DEF Past, Leaves
    <3>3. h \in C \cup {s, NULL}
      BY <1>5 DEF Past
    <3>4. C \cup {s} = U
      BY <3>2, <3>3 DEF IsList
    <3> QED BY <3>4
  <2>2. CASE h # s /\ \A p \in C : n[p] # s
    <3>1. ~Leaves(n, C) /\ h \in C \cup {NULL}
      BY <1>5, <2>2 DEF Past, Leaves
    <3>2. C = U
      BY <3>1 DEF IsList
    <3> QED BY <3>2
  <2> QED BY <2>1, <2>2
<1>6. ASSUME NEW C \in SUBSET V, C # {}
      PROVE  \E x \in C : m[x] \notin C
  <2> SUFFICES ASSUME \A x \in C : m[x] \in C PROVE FALSE
    OBVIOUS
  <2>1. CASE \E p \in C : n[p] = s
    <3>1. \A x \in C \cup {s} : n[x] \in C \cup {s}
      BY <2>1 DEF Past
    <3>2. C \cup {s} \in SUBSET U /\ C \cup {s} # {}
      OBVIOUS
    <3>3. \E x \in C \cup {s} : n[x] \notin C \cup {s}
      BY <3>2 DEF IsList
    <3> QED BY <3>1, <3>3
  <2>2. CASE \A p \in C : n[p] # s
    <3>1. \A x \in C : n[x] \in C
      BY <2>2 DEF Past
    <3> QED BY <3>1, <1>6 DEF IsList
  <2> QED BY <2>1, <2>2
<1> HIDE DEF V, g
<1>7. IsList(g, V, m)
  BY <1>1, <1>2, <1>3, <1>4, <1>5, <1>6 DEF IsList
<1> QED BY <1>7 DEF g, V

LEMMA DeleteKeepsPath ==
  ASSUME NEW n \in Pointers, NEW m \in Pointers, NEW s \in Slots,
         \A q \in Slots \ {s} : m[q] = Past(n, s, n[q]),
         NEW g \in (Slots \ {s}) \cup {NULL}, NEW q \in Path(n, g), q # s
  PROVE  q \in Path(m, g)
<1> SUFFICES ASSUME NEW C \in SUBSET (Slots \ {q}), g \in C \cup {NULL}, ~Leaves(m, C)
             PROVE  FALSE
  BY DEF Path
<1> DEFINE D == C \ {s}
<1>1. g \in D \cup {NULL} /\ D \in SUBSET (Slots \ {q})
  OBVIOUS
<1>2. CASE \E p \in D : n[p] = s
  <2>1. n[s] \in D \cup {s, NULL}
    BY <1>2 DEF Past, Leaves
  <2>2. ~Leaves(n, D \cup {s})
    BY <2>1 DEF Past, Leaves
  <2>3. D \cup {s} \in SUBSET (Slots \ {q}) /\ g \in D \cup {s, NULL}
    BY <1>1
  <2> QED BY <2>2, <2>3 DEF Path
<1>3. CASE \A p \in D : n[p] # s
  <2>1. ~Leaves(n, D)
    BY <1>3 DEF Past, Leaves
  <2> QED BY <1>1, <2>1 DEF Path
<1> QED BY <1>2, <1>3
-----------------------------------------------------------------------------
(***************************************************************************)
(* The table.  Sound says what every table is like between two operations, *)
(* NearestOK what nearestUpdate leaves behind.                              *)
(***************************************************************************)
NextOf(t) == [s \in Slots |-> t.evt[s].next]
Used(t) == {s \in Slots : t.evt[s].used}
Sound(t) ==
  /\ t \in Table
  /\ IsList(t.timer_head, Used(t), NextOf(t))
  /\ \A s \in Slots \ Used(t) : t.evt[s] = Unused
  /\ t.used_num = Cardinality(Used(t))
  /\ \A s \in Slots : t.evt[s].timeout <= t.evt[s].period
NearestOK(t) ==
  /\ Used(t) = {} <=> t.timer_nearest = NULL
  /\ Used(t) # {} => /\ t.timer_nearest \in Used(t)
                     /\ \A s \in Used(t) : t.evt[t.timer_nearest].timeout <= t.evt[s].timeout

LEMMA SlotsFinite == IsFiniteSet(Slots) /\ Cardinality(Slots) = TIMER_EVENT_NUM
<1>1. TIMER_EVENT_NUM \in Nat \ {0}
  BY EvConstantsOK DEF EvConstantsOK
<1> QED BY <1>1, FS_Interval DEF Slots

LEMMA UsedFinite ==
  ASSUME NEW t
  PROVE  IsFiniteSet(Used(t)) /\ Cardinality(Used(t)) \in 0..TIMER_EVENT_NUM
<1>1. Used(t) \in SUBSET Slots
  BY DEF Used
<1>2. IsFiniteSet(Used(t)) /\ Cardinality(Used(t)) <= TIMER_EVENT_NUM
  BY <1>1, SlotsFinite, FS_Subset
<1>3. Cardinality(Used(t)) \in Nat
  BY <1>2, FS_CardinalityType
<1>4. TIMER_EVENT_NUM \in Nat
  BY EvConstantsOK DEF EvConstantsOK
<1> QED BY <1>2, <1>3, <1>4

LEMMA FromIsPath ==
  ASSUME NEW t \in Table
  PROVE  /\ NextOf(t) \in Pointers
         /\ \A h : From(t, h) = Path(NextOf(t), h)
<1>1. NextOf(t) \in Pointers
  BY DEF Table, Event, NextOf, Pointers
<1>2. \A C \in SUBSET Slots : Closed(t, C) <=> ~Leaves(NextOf(t), C)
  BY DEF Closed, Leaves, NextOf
<1>3. \A s, h : \A C \in SUBSET (Slots \ {s}) : Closed(t, C) <=> ~Leaves(NextOf(t), C)
  BY <1>2
<1> QED BY <1>1, <1>3 DEF From, Path

LEMMA ListedIsUsed ==
  ASSUME NEW t, Sound(t)
  PROVE  Listed(t) = Used(t)
BY FromIsPath, ListIsPath DEF Sound, Listed, Used

(* A list that is not empty has a first one among its earliest events: an   *)
(* event from which all the earliest can still be reached, but not from the *)
(* next one.                                                                *)
LEMMA EarliestExists ==
  ASSUME NEW t, Sound(t), Used(t) # {}
  PROVE  \E s \in Used(t) : Earliest(t, Used(t), s)
<1> DEFINE U == Used(t)
           n == NextOf(t)
           Values == {t.evt[s].timeout : s \in U}
<1>1. U \in SUBSET Slots /\ n \in Pointers /\ \A h : From(t, h) = Path(n, h)
  BY FromIsPath DEF Used, Sound
<1>4. \A s \in U : t.evt[s].timeout \in Nat
  BY DEF Sound, Table, Event, Used
<1>2. PICK k \in Values : \A l \in Values : k <= l
  <2>1. Values \in SUBSET Nat /\ Values # {}
    BY <1>4
  <2> HIDE DEF Values
  <2> QED BY <2>1, LeastExists
<1> DEFINE M == {s \in U : t.evt[s].timeout = k}
           D == {y \in U : M \subseteq Path(n, y)}
<1>3. M # {} /\ M \subseteq U /\ \A s \in M, q \in U : t.evt[s].timeout <= t.evt[q].timeout
  BY <1>2
<1> HIDE DEF U, n, Values
<1>5. IsList(t.timer_head, U, n)
  BY DEF Sound, U, n
<1>6. D # {}
  <2>1. Path(n, t.timer_head) = U
    BY <1>1, <1>5, ListIsPath
  <2>2. t.timer_head \in U
    <3>1. t.timer_head # NULL
      BY <1>1, <1>3, <2>1, PathOfNull
    <3> QED BY <3>1, <1>5 DEF IsList
  <2> QED BY <1>3, <2>1, <2>2
<1>7. PICK x \in D : n[x] \notin D
  BY <1>6, <1>5 DEF IsList
<1>8. PICK q \in M : q \in Path(n, x) /\ q \notin Path(n, n[x])
  <2>1. CASE n[x] \in U
    BY <1>7, <2>1
  <2>2. CASE n[x] = NULL
    BY <1>1, <1>3, <1>7, <2>2, PathOfNull
  <2> QED BY <1>5, <1>7, <2>1, <2>2 DEF IsList
<1>9. q = x
  BY <1>1, <1>7, <1>8, PathNext
<1>10. \A p \in U : \/ t.evt[x].timeout < t.evt[p].timeout
                    \/ t.evt[x].timeout = t.evt[p].timeout /\ p \in From(t, x)
  <2> SUFFICES ASSUME NEW p \in U, ~(t.evt[x].timeout < t.evt[p].timeout)
               PROVE  t.evt[x].timeout = t.evt[p].timeout /\ p \in From(t, x)
    OBVIOUS
  <2>1. t.evt[x].timeout <= t.evt[p].timeout
    BY <1>3, <1>8, <1>9
  <2>2. t.evt[x].timeout = t.evt[p].timeout
    BY <2>1, <1>4, <1>7
  <2>3. p \in M
    BY <2>2, <1>8, <1>9
  <2> QED BY <2>2, <2>3, <1>1, <1>7
<1> QED BY <1>7, <1>10 DEF Earliest, U

(* nearestUpdate: only timer_nearest changes, and it is one due first.      *)
LEMMA NearestUpdated ==
  ASSUME NEW t, Sound(t)
  PROVE  /\ Sound(NearestUpdate(t)) /\ NearestOK(NearestUpdate(t))
         /\ NearestUpdate(t).timer_head = t.timer_head
         /\ NearestUpdate(t).evt = t.evt
<1> DEFINE u == NearestUpdate(t)
<1>1. PICK x \in Slots \cup {NULL} :
         /\ u = [t EXCEPT !.timer_nearest = x]
         /\ Used(t) = {} => x = NULL
         /\ Used(t) # {} => x \in Used(t) /\ Earliest(t, Used(t), x)
  <2>1. CASE Used(t) = {}
    BY <2>1, ListedIsUsed DEF NearestUpdate
  <2>2. CASE Used(t) # {}
    BY <2>2, ListedIsUsed, EarliestExists DEF NearestUpdate, Used
  <2> QED BY <2>1, <2>2
<1> HIDE DEF u
<1>2. /\ u \in Table /\ u.timer_head = t.timer_head /\ u.evt = t.evt /\ u.used_num = t.used_num
      /\ u.timer_nearest = x
  <2>1. t \in Table
    BY DEF Sound
  <2> QED BY <1>1, <2>1 DEF Table
<1>3. Used(u) = Used(t) /\ NextOf(u) = NextOf(t)
  BY <1>2 DEF Used, NextOf
<1>4. Sound(u)
  BY <1>2, <1>3 DEF Sound
<1>5. NearestOK(u)
  <2>1. \A s \in Used(t) : t.evt[s].timeout \in Nat
    BY DEF Sound, Table, Event, Used
  <2>2. ASSUME Used(t) # {}, NEW s \in Used(t)
        PROVE  t.evt[x].timeout <= t.evt[s].timeout
    <3>1. \/ t.evt[x].timeout < t.evt[s].timeout
          \/ t.evt[x].timeout = t.evt[s].timeout
      BY <1>1, <2>2 DEF Earliest
    <3>2. t.evt[x].timeout \in Nat /\ t.evt[s].timeout \in Nat
      BY <1>1, <2>1, <2>2
    <3> QED BY <3>1, <3>2
  <2>3. NULL \notin Used(t)
    BY NullIsNoSlot DEF Used
  <2>4. Used(u) = {} <=> u.timer_nearest = NULL
    BY <1>1, <1>2, <1>3, <2>3
  <2>5. ASSUME Used(u) # {}
        PROVE  /\ u.timer_nearest \in Used(u)
               /\ \A s \in Used(u) : u.evt[u.timer_nearest].timeout <= u.evt[s].timeout
    BY <1>1, <1>2, <1>3, <2>2, <2>5
  <2> QED BY <2>4, <2>5 DEF NearestOK
<1> QED BY <1>2, <1>4, <1>5 DEF u
-----------------------------------------------------------------------------
(* What a timer is but for its place in the list.                           *)
SameTimer(e, f) ==
  /\ e.used = f.used /\ e.isBusy = f.isBusy /\ e.isRunning = f.isRunning
  /\ e.cb = f.cb /\ e.timeout = f.timeout /\ e.period = f.period

(* Cancelling takes one event out of the table and leaves all others and    *)
(* the paths between them.                                                  *)
Taken(t, s, u) ==
  /\ u.timer_head = Past(NextOf(t), s, t.timer_head)
  /\ u.evt[s] = Unused
  /\ \A q \in Slots \ {s} : /\ SameTimer(u.evt[q], t.evt[q])
                            /\ u.evt[q].next = Past(NextOf(t), s, t.evt[q].next)

LEMMA ListDeleted ==
  ASSUME NEW t, Sound(t), NEW s \in Used(t)
  PROVE  /\ ListDelete(t, s) \in Table
         /\ ListDelete(t, s).used_num = t.used_num
         /\ ListDelete(t, s).timer_head = Past(NextOf(t), s, t.timer_head)
         /\ \A q \in Slots \ {s} :
              /\ SameTimer(ListDelete(t, s).evt[q], t.evt[q])
              /\ ListDelete(t, s).evt[q].next = Past(NextOf(t), s, t.evt[q].next)
<1>0. t \in Table /\ s \in Slots /\ s # NULL /\ Listed(t) = Used(t)
  BY ListedIsUsed, NullIsNoSlot DEF Sound, Used
<1>1. \A q \in Slots : t.evt[q] \in Event
  BY <1>0 DEF Table
<1>2. \A q \in Slots : t.evt[q].next = s => q \in Listed(t) /\ t.timer_head # s
  <2> SUFFICES ASSUME NEW q \in Slots, t.evt[q].next = s
               PROVE  q \in Listed(t) /\ t.timer_head # s
    OBVIOUS
  <2>1. q \in Used(t)
    BY <1>0 DEF Sound, Unused
  <2>2. NextOf(t)[q] = s
    BY DEF NextOf
  <2> QED BY <1>0, <2>1, <2>2 DEF Sound, IsList
<1>3. NextOf(t)[s] = t.evt[s].next /\ t.evt[s].next \in Slots \cup {NULL}
  BY <1>0, <1>1 DEF NextOf, Event
<1>4. CASE t.timer_head = s
  <2>1. ListDelete(t, s) = [t EXCEPT !.timer_head = t.evt[s].next]
    BY <1>4 DEF ListDelete
  <2>2. ListDelete(t, s) \in Table
    BY <2>1, <1>0, <1>3 DEF Table
  <2>3. /\ ListDelete(t, s).used_num = t.used_num
        /\ ListDelete(t, s).timer_head = t.evt[s].next
        /\ ListDelete(t, s).evt = t.evt
    BY <2>1, <1>0 DEF Table
  <2>4. \A q \in Slots \ {s} : t.evt[q].next # s
    BY <1>2, <1>4
  <2> QED BY <2>2, <2>3, <2>4, <1>3, <1>4 DEF Past, SameTimer
<1>5. CASE t.timer_head # s
  <2> DEFINE e(q) == IF t.evt[q].next = s THEN [t.evt[q] EXCEPT !.next = t.evt[s].next]
                     ELSE t.evt[q]
  <2>1. ListDelete(t, s) = [t EXCEPT !.evt = [q \in Slots |-> e(q)]]
    BY <1>2, <1>5 DEF ListDelete
  <2>2. \A q \in Slots : e(q) \in Event
    BY <1>1, <1>3 DEF Event
  <2>3. \A q \in Slots : /\ SameTimer(e(q), t.evt[q])
                         /\ e(q).next = Past(NextOf(t), s, t.evt[q].next)
    BY <1>1, <1>3 DEF Event, SameTimer, Past
  <2> HIDE DEF e
  <2>4. [q \in Slots |-> e(q)] \in [Slots -> Event]
    BY <2>2
  <2>5. ListDelete(t, s) \in Table
    BY <2>1, <2>4, <1>0 DEF Table
  <2>6. /\ ListDelete(t, s).used_num = t.used_num
        /\ ListDelete(t, s).timer_head = t.timer_head
        /\ ListDelete(t, s).evt = [q \in Slots |-> e(q)]
    BY <2>1, <1>0 DEF Table
  <2> QED BY <2>3, <2>5, <2>6, <1>5 DEF Past
<1> QED BY <1>4, <1>5

LEMMA Unonned ==
  ASSUME NEW t, Sound(t), NEW s \in Used(t)
  PROVE  LET u == Unon(t, s)
         IN  /\ Sound(u) /\ NearestOK(u) /\ Taken(t, s, u)
             /\ Used(u) = Used(t) \ {s}
             /\ \A g \in (Slots \ {s}) \cup {NULL} : From(t, g) \ {s} \subseteq From(u, g)
<1> DEFINE d == ListDelete(t, s)
           v == [d EXCEPT !.evt[s] = Unused, !.used_num = @ - 1]
           u == Unon(t, s)
<1>0. t \in Table /\ s \in Slots /\ Listed(t) = Used(t) /\ t.evt[s].used
  BY ListedIsUsed DEF Sound, Used
<1>1. u = NearestUpdate(v)
  <2>1. d.used_num = t.used_num
    BY ListDeleted
  <2> QED BY <1>0, <2>1 DEF Unon
<1>2. /\ d \in Table
      /\ d.used_num = t.used_num
      /\ d.timer_head = Past(NextOf(t), s, t.timer_head)
      /\ \A q \in Slots \ {s} :
           /\ SameTimer(d.evt[q], t.evt[q])
           /\ d.evt[q].next = Past(NextOf(t), s, t.evt[q].next)
  BY ListDeleted
<1> HIDE DEF d
<1>3. t.used_num = Cardinality(Used(t)) /\ t.used_num \in 1..TIMER_EVENT_NUM
  <2>1. Cardinality(Used(t)) # 0
    BY UsedFinite, FS_EmptySet
  <2>2. TIMER_EVENT_NUM \in Nat
    BY EvConstantsOK DEF EvConstantsOK
  <2> QED BY <2>1, <2>2, UsedFinite DEF Sound
<1>4. Unused \in Event
  BY EvConstantsOK DEF Unused, Event, EvConstantsOK
<1>5. v \in Table
  <2>1. d.used_num - 1 \in 0..TIMER_EVENT_NUM
    BY <1>2, <1>3, EvConstantsOK DEF EvConstantsOK
  <2> QED BY <1>2, <1>4, <2>1 DEF Table
<1>6. /\ v.timer_head = d.timer_head
      /\ v.used_num = t.used_num - 1
      /\ v.evt = [d.evt EXCEPT ![s] = Unused]
  BY <1>2 DEF Table
<1>7. DOMAIN d.evt = Slots
  BY <1>2 DEF Table
<1> HIDE DEF v
<1>8. Taken(t, s, v)
  BY <1>0, <1>2, <1>6, <1>7 DEF Taken
<1>9. Used(v) = Used(t) \ {s}
  BY <1>0, <1>8 DEF Taken, Used, SameTimer, Unused
<1>10. /\ NextOf(t) \in Pointers /\ NextOf(v) \in Pointers
       /\ \A q \in Slots \ {s} : NextOf(v)[q] = Past(NextOf(t), s, NextOf(t)[q])
  BY <1>0, <1>5, <1>8, FromIsPath DEF Taken, NextOf
<1>11. Sound(v)
  <2>1. IsList(v.timer_head, Used(v), NextOf(v))
    <3>1. Used(t) \in SUBSET Slots /\ IsList(t.timer_head, Used(t), NextOf(t))
      BY DEF Sound, Used
    <3>2. v.timer_head = Past(NextOf(t), s, t.timer_head)
      BY <1>8 DEF Taken
    <3>3. \A q \in Used(t) \ {s} : NextOf(v)[q] = Past(NextOf(t), s, NextOf(t)[q])
      BY <1>10, <3>1
    <3> QED BY <1>9, <1>10, <3>1, <3>2, <3>3, DeleteIsList
  <2>2. \A q \in Slots \ Used(v) : v.evt[q] = Unused
    <3> SUFFICES ASSUME NEW q \in Slots \ Used(v), q # s PROVE v.evt[q] = Unused
      BY <1>8 DEF Taken
    <3>1. t.evt[q] = Unused
      BY <1>9 DEF Sound
    <3>2. SameTimer(v.evt[q], Unused) /\ v.evt[q].next = NULL
      BY <1>0, <1>8, <3>1, NullIsNoSlot DEF Taken, Past, Unused
    <3>3. v.evt[q] \in Event
      BY <1>5 DEF Table
    <3> QED BY <3>2, <3>3, <1>4 DEF Event, SameTimer, Unused
  <2>3. v.used_num = Cardinality(Used(v))
    BY <1>3, <1>6, <1>9, UsedFinite, FS_RemoveElement
  <2>4. \A q \in Slots : v.evt[q].timeout <= v.evt[q].period
    BY <1>8 DEF Taken, SameTimer, Unused, Sound
  <2> QED BY <1>5, <2>1, <2>2, <2>3, <2>4 DEF Sound
<1>12. Sound(u) /\ NearestOK(u) /\ u.timer_head = v.timer_head /\ u.evt = v.evt
  BY <1>1, <1>11, NearestUpdated
<1>13. Taken(t, s, u) /\ Used(u) = Used(v) /\ NextOf(u) = NextOf(v)
  BY <1>8, <1>12 DEF Taken, Used, NextOf
<1>14. ASSUME NEW g \in (Slots \ {s}) \cup {NULL}, NEW q \in From(t, g), q # s
       PROVE  q \in From(u, g)
  <2>1. From(t, g) = Path(NextOf(t), g) /\ From(u, g) = Path(NextOf(v), g)
    BY <1>0, <1>12, <1>13, FromIsPath DEF Sound
  <2> QED BY <1>0, <1>10, <1>14, <2>1, DeleteKeepsPath
<1> HIDE DEF u
<1> QED BY <1>9, <1>12, <1>13, <1>14 DEF u

(* ev_timer_freeGet finds an event as long as the pool is not full.         *)
LEMMA FreeGot ==
  ASSUME NEW t, ~Full(t)
  PROVE  FreeGet(t) \in Slots \ Used(t)
<1>1. Free(t) \in SUBSET Nat /\ Free(t) # {}
  BY NullIsNoSlot DEF Full, Free
<1>2. \E s \in Free(t) : \A q \in Free(t) : s <= q
  BY <1>1, LeastExists
<1>3. FreeGet(t) \in Free(t)
  BY <1>2 DEF FreeGet
<1> QED BY <1>3 DEF Free, Used

(* Scheduling puts one event more into the table, in front of the list.     *)
IsNew(e, c, ms) ==
  /\ e.used /\ e.isBusy = FALSE /\ e.isRunning = FALSE
  /\ e.cb = c /\ e.timeout = ms /\ e.period = ms

LEMMA Inserted ==
  ASSUME NEW t \in Table, t.used_num + 1 \in 0..TIMER_EVENT_NUM,
         NEW s \in Slots, t.evt[s] = Unused,
         NEW c \in Clients, NEW ms \in Nat, ms \in AllTimeouts
  PROVE  LET v == ListAdd([t EXCEPT !.used_num = @ + 1,
                             !.evt[s] = [@ EXCEPT !.used = TRUE, !.cb = c, !.isBusy = FALSE,
                                                  !.period = ms, !.timeout = ms]], s)
         IN  /\ v \in Table /\ v.timer_head = s /\ v.used_num = t.used_num + 1
             /\ IsNew(v.evt[s], c, ms) /\ v.evt[s].next = t.timer_head
             /\ \A q \in Slots \ {s} : v.evt[q] = t.evt[q]
<1> DEFINE r == [t.evt[s] EXCEPT !.used = TRUE, !.cb = c, !.isBusy = FALSE,
                                 !.period = ms, !.timeout = ms]
           k == t.used_num + 1
           w == [t EXCEPT !.used_num = k, !.evt[s] = r]
           v == ListAdd(w, s)
<1>1. t.evt[s] \in Event
  BY DEF Table
<1>2. r \in Event
  BY <1>1 DEF Event
<1>3. IsNew(r, c, ms)
  BY <1>1 DEF IsNew, Event, Unused
<1> HIDE DEF r, k
<1>4. k \in 0..TIMER_EVENT_NUM
  BY DEF k
<1>5. w \in Table
  BY <1>2, <1>4 DEF Table
<1>6. w.used_num = k /\ w.timer_head = t.timer_head /\ w.evt = [t.evt EXCEPT ![s] = r]
  BY DEF Table
<1> HIDE DEF w
<1>7. t.timer_head \in Slots \cup {NULL} /\ w.evt[s] = r /\ DOMAIN t.evt = Slots
  BY <1>6 DEF Table
<1> DEFINE f == [r EXCEPT !.next = t.timer_head]
<1>8. f \in Event /\ IsNew(f, c, ms) /\ f.next = t.timer_head
  BY <1>2, <1>3, <1>7 DEF Event, IsNew
<1>9. v = [w EXCEPT !.evt[s] = f, !.timer_head = s]
  BY <1>6, <1>7 DEF ListAdd
<1> HIDE DEF f, v
<1>10. v \in Table /\ v.used_num = k /\ v.timer_head = s /\ v.evt = [w.evt EXCEPT ![s] = f]
  <2>1. v \in Table
    BY <1>5, <1>8, <1>9 DEF Table
  <2>2. v.used_num = k /\ v.timer_head = s
    BY <1>5, <1>6, <1>9 DEF Table
  <2>3. v.evt = [w.evt EXCEPT ![s] = f]
    BY <1>5, <1>9 DEF Table
  <2> QED BY <2>1, <2>2, <2>3
<1>11. v.evt[s] = f /\ \A q \in Slots \ {s} : v.evt[q] = t.evt[q]
  BY <1>6, <1>7, <1>10
<1> QED BY <1>8, <1>10, <1>11 DEF v, w, k, r

LEMMA Added ==
  ASSUME NEW t, Sound(t), ~Full(t), NEW c \in Clients, NEW ms \in Timeouts[c]
  PROVE  LET s == FreeGet(t)
             u == Add(t, c, ms)
         IN  /\ s \in Slots \ Used(t)
             /\ Sound(u) /\ NearestOK(u)
             /\ u.timer_head = s
             /\ Used(u) = Used(t) \cup {s}
             /\ IsNew(u.evt[s], c, ms)
             /\ \A q \in Slots \ {s} : u.evt[q] = t.evt[q]
             /\ \A g \in Used(t) \cup {NULL} : From(t, g) \subseteq From(u, g)
<1> DEFINE s == FreeGet(t)
           w == [t EXCEPT !.used_num = @ + 1,
                          !.evt[s] = [@ EXCEPT !.used = TRUE, !.cb = c, !.isBusy = FALSE,
                                               !.period = ms, !.timeout = ms]]
           v == ListAdd(w, s)
           u == Add(t, c, ms)
<1>0. t \in Table /\ s \in Slots \ Used(t) /\ Listed(t) = Used(t) /\ t.evt[s] = Unused
  BY FreeGot, ListedIsUsed DEF Sound
<1>1. u = NearestUpdate(v)
  BY <1>0 DEF Add
<1>3. ms \in Nat /\ ms \in AllTimeouts
  BY EvConstantsOK DEF EvConstantsOK, AllTimeouts, Range
<1>4. t.used_num + 1 \in 0..TIMER_EVENT_NUM
  BY <1>0, EvConstantsOK DEF Full, Table, EvConstantsOK
<1>7. /\ v \in Table /\ v.timer_head = s /\ v.used_num = t.used_num + 1
      /\ IsNew(v.evt[s], c, ms) /\ v.evt[s].next = t.timer_head
      /\ \A q \in Slots \ {s} : v.evt[q] = t.evt[q]
  <2> HIDE DEF s
  <2>1. s \in Slots /\ t \in Table /\ t.evt[s] = Unused
    BY <1>0
  <2> QED BY ZenonT(60), <1>3, <1>4, <2>1, Inserted
<1> HIDE DEF w, v, s
<1>8. Used(v) = Used(t) \cup {s}
  BY <1>0, <1>7 DEF Used, IsNew
<1>9. /\ NextOf(t) \in Pointers /\ NextOf(v) \in Pointers
      /\ NextOf(v)[s] = t.timer_head
      /\ \A q \in Used(t) : NextOf(v)[q] = NextOf(t)[q]
      /\ Used(t) \in SUBSET Slots /\ IsList(t.timer_head, Used(t), NextOf(t))
  <2>1. Used(t) \in SUBSET Slots \ {s}
    BY <1>0 DEF Used
  <2> QED BY <1>0, <1>7, <2>1, FromIsPath DEF NextOf, Sound
<1>10. Sound(v)
  <2>1. IsList(v.timer_head, Used(v), NextOf(v))
    BY <1>0, <1>7, <1>8, <1>9, AddIsList
  <2>2. \A q \in Slots \ Used(v) : v.evt[q] = Unused
    BY <1>7, <1>8 DEF Sound
  <2>3. v.used_num = Cardinality(Used(v))
    <3>1. t.used_num = Cardinality(Used(t))
      BY DEF Sound
    <3>2. Cardinality(Used(t) \cup {s}) = Cardinality(Used(t)) + 1
      BY <1>0, UsedFinite, FS_AddElement
    <3> QED BY <1>7, <1>8, <3>1, <3>2
  <2>4. \A q \in Slots : v.evt[q].timeout <= v.evt[q].period
    BY <1>3, <1>7 DEF Sound, IsNew
  <2> QED BY <1>7, <2>1, <2>2, <2>3, <2>4 DEF Sound
<1>11. Sound(u) /\ NearestOK(u) /\ u.timer_head = v.timer_head /\ u.evt = v.evt
  BY <1>1, <1>10, NearestUpdated
<1>12. Used(u) = Used(v) /\ NextOf(u) = NextOf(v)
  BY <1>11 DEF Used, NextOf
<1>13. ASSUME NEW g \in Used(t) \cup {NULL}, NEW q \in From(t, g)
       PROVE  q \in From(u, g)
  <2>1. From(t, g) = Path(NextOf(t), g) /\ From(u, g) = Path(NextOf(v), g)
    BY <1>0, <1>11, <1>12, FromIsPath DEF Sound
  <2> QED BY <1>0, <1>9, <1>13, <2>1, AddKeepsPath
<1> HIDE DEF u
<1> QED BY <1>0, <1>7, <1>8, <1>11, <1>12, <1>13 DEF u, s

(* ev_timer_update touches nothing but the timeouts and isRunning.          *)
Charge(t, ms, since, s) == IF t.evt[s].isRunning THEN ms ELSE since[s] \div TICKS
LEMMA Updated ==
  ASSUME NEW t, Sound(t), NEW ms \in Nat, NEW since \in [Slots -> Nat]
  PROVE  LET u == Update(t, ms, since)
         IN  /\ Sound(u)
             /\ u.timer_head = t.timer_head /\ u.timer_nearest = t.timer_nearest
             /\ Used(u) = Used(t)
             /\ \A g : From(u, g) = From(t, g)
             /\ \A s \in Slots :
                  /\ u.evt[s].used = t.evt[s].used /\ u.evt[s].isBusy = t.evt[s].isBusy
                  /\ u.evt[s].cb = t.evt[s].cb /\ u.evt[s].period = t.evt[s].period
             /\ ms = 0 => u = t
             /\ ms # 0 => \A s \in Used(t) :
                  /\ u.evt[s].isRunning
                  /\ u.evt[s].timeout = Monus(t.evt[s].timeout, Charge(t, ms, since, s))
<1> DEFINE e(s) == IF s \notin Used(t) THEN t.evt[s]
                   ELSE [t.evt[s] EXCEPT !.isRunning = TRUE,
                           !.timeout = Monus(@, Charge(t, ms, since, s))]
           u == Update(t, ms, since)
<1>0. t \in Table /\ Listed(t) = Used(t) /\ \A s \in Slots : t.evt[s] \in Event
  BY ListedIsUsed DEF Sound, Table
<1>1. CASE ms = 0
  BY <1>1 DEF Update
<1>2. CASE ms # 0
  <2>1. u = [t EXCEPT !.evt = [s \in Slots |-> e(s)]]
    BY <1>0, <1>2 DEF Update, Charge
  <2>2. ASSUME NEW s \in Slots
        PROVE  /\ Charge(t, ms, since, s) \in Nat
               /\ Monus(t.evt[s].timeout, Charge(t, ms, since, s)) \in 0..t.evt[s].timeout
    <3>1. since[s] \div TICKS \in Nat
      BY EvConstantsOK DEF EvConstantsOK
    <3>2. Charge(t, ms, since, s) \in Nat
      BY <3>1 DEF Charge
    <3>3. t.evt[s].timeout \in Nat
      BY <1>0 DEF Event
    <3> QED BY <3>2, <3>3 DEF Monus
  <2>3. \A s \in Slots :
          /\ e(s) \in Event
          /\ e(s).used = t.evt[s].used /\ e(s).isBusy = t.evt[s].isBusy
          /\ e(s).cb = t.evt[s].cb /\ e(s).period = t.evt[s].period
          /\ e(s).next = t.evt[s].next
          /\ s \in Used(t) => /\ e(s).isRunning
                              /\ e(s).timeout = Monus(t.evt[s].timeout, Charge(t, ms, since, s))
          /\ s \notin Used(t) => e(s) = t.evt[s]
    <3> SUFFICES ASSUME NEW s \in Slots
                 PROVE  /\ e(s) \in Event
                        /\ e(s).used = t.evt[s].used /\ e(s).isBusy = t.evt[s].isBusy
                        /\ e(s).cb = t.evt[s].cb /\ e(s).period = t.evt[s].period
                        /\ e(s).next = t.evt[s].next
                        /\ s \in Used(t) =>
                             /\ e(s).isRunning
                             /\ e(s).timeout = Monus(t.evt[s].timeout, Charge(t, ms, since, s))
                        /\ s \notin Used(t) => e(s) = t.evt[s]
      OBVIOUS
    <3>1. CASE s \notin Used(t)
      BY <1>0, <3>1
    <3>2. CASE s \in Used(t)
      <4>1. e(s) = [t.evt[s] EXCEPT !.isRunning = TRUE,
                      !.timeout = Monus(t.evt[s].timeout, Charge(t, ms, since, s))]
        BY <3>2, <1>0 DEF Event
      <4>2. t.evt[s] \in Event /\ Monus(t.evt[s].timeout, Charge(t, ms, since, s)) \in Nat
        BY <1>0, <2>2 DEF Event
      <4> HIDE DEF e
      <4>3. e(s) \in Event
        BY <4>1, <4>2 DEF Event
      <4>4. /\ e(s).used = t.evt[s].used /\ e(s).isBusy = t.evt[s].isBusy
            /\ e(s).cb = t.evt[s].cb /\ e(s).period = t.evt[s].period
            /\ e(s).next = t.evt[s].next /\ e(s).isRunning
            /\ e(s).timeout = Monus(t.evt[s].timeout, Charge(t, ms, since, s))
        BY <4>1, <4>2 DEF Event
      <4> QED BY <3>2, <4>3, <4>4
    <3> QED BY <3>1, <3>2
  <2> HIDE DEF e
  <2>4. [s \in Slots |-> e(s)] \in [Slots -> Event]
    BY <2>3
  <2>5. /\ u \in Table
        /\ u.evt = [s \in Slots |-> e(s)]
        /\ u.timer_head = t.timer_head /\ u.timer_nearest = t.timer_nearest
        /\ u.used_num = t.used_num
    BY <1>0, <2>1, <2>4 DEF Table
  <2>6. \A s \in Slots : u.evt[s] = e(s)
    BY <2>5
  <2> HIDE DEF u
  <2>7. Used(u) = Used(t) /\ NextOf(u) = NextOf(t)
    BY <2>3, <2>6 DEF Used, NextOf
  <2>8. \A g : From(u, g) = From(t, g)
    BY <1>0, <2>5, <2>7, FromIsPath
  <2>9. Sound(u)
    <3>1. \A s \in Slots \ Used(u) : u.evt[s] = Unused
      BY <2>3, <2>6, <2>7 DEF Sound
    <3>2. \A s \in Slots : u.evt[s].timeout <= u.evt[s].period
      <4> SUFFICES ASSUME NEW s \in Slots PROVE u.evt[s].timeout <= u.evt[s].period
        OBVIOUS
      <4>1. t.evt[s].timeout \in Nat /\ t.evt[s].period \in Nat /\ t.evt[s].timeout <= t.evt[s].period
        BY <1>0, EvConstantsOK DEF Sound, Event, EvConstantsOK, AllTimeouts, Range
      <4> QED BY <2>2, <2>3, <2>6, <4>1
    <3> QED BY <2>5, <2>7, <3>1, <3>2 DEF Sound
  <2> QED BY <1>2, <2>3, <2>5, <2>6, <2>7, <2>8, <2>9 DEF u, Used
<1> QED BY <1>1, <1>2
-----------------------------------------------------------------------------
(***************************************************************************)
(* The inductive invariant.  TInv: the types, a sound table and a walk that *)
(* stands on an event in use.  PInv adds that what is due lies ahead of the *)
(* walk, and that timer_nearest is right when the device may sleep.         *)
(***************************************************************************)
TInv == TypeOK /\ Sound(ev_timer) /\ WalkIsSafe

DueIsAhead ==
  pc \in {"scan", "callback"} =>
    \A s \in UsedSlots : ev_timer.evt[s].timeout = 0 => s \in From(ev_timer, timerEvt)
PInv == DueIsAhead /\ NothingDueIsLeft /\ NearestIsFirst

LEMMA Products == \A p \in Nat : p * TICKS \in Nat /\ 0 * TICKS = 0
<1>1. TICKS \in Nat
  BY EvConstantsOK DEF EvConstantsOK
<1> QED BY <1>1

LEMMA TimeoutsArePositive == \A c \in Clients : \A ms \in Timeouts[c] : ms \in Nat \ {0} /\ ms \in AllTimeouts
BY EvConstantsOK DEF EvConstantsOK, AllTimeouts, Range

LEMMA UsedIsUsedSlots == UsedSlots = Used(ev_timer) /\ UsedSlots' = Used(ev_timer')
BY DEF UsedSlots, Used

LEMMA NearestIsOK ==
  ASSUME pc = "passed"
  PROVE  NearestIsFirst <=> NearestOK(ev_timer)
BY UsedIsUsedSlots DEF NearestIsFirst, NearestOK

LEMMA InitInv == Init => TInv /\ PInv
<1> SUFFICES ASSUME Init PROVE TInv /\ PInv
  OBVIOUS
<1>1. Unused \in Event /\ Unused.used = FALSE /\ Unused.isBusy = FALSE
      /\ Unused.timeout = 0 /\ Unused.period = 0 /\ Unused.next = NULL
  BY EvConstantsOK DEF Unused, Event, EvConstantsOK
<1>2. /\ ev_timer.timer_head = NULL /\ ev_timer.timer_nearest = NULL /\ ev_timer.used_num = 0
      /\ ev_timer.evt = [s \in Slots |-> Unused]
  BY DEF Init
<1>3. ev_timer \in Table
  <2>1. 0 \in 0..TIMER_EVENT_NUM
    BY EvConstantsOK DEF EvConstantsOK
  <2>2. [s \in Slots |-> Unused] \in [Slots -> Event]
    BY <1>1
  <2> QED BY <2>1, <2>2 DEF Init, Table
<1>4. Used(ev_timer) = {} /\ UsedSlots = {}
  BY <1>1, <1>2 DEF Used, UsedSlots
<1>5. Sound(ev_timer)
  <2>1. IsList(NULL, {}, NextOf(ev_timer))
    BY DEF IsList, Leaves
  <2>2. Cardinality({}) = 0
    BY FS_EmptySet
  <2>3. \A s \in Slots : ev_timer.evt[s] = Unused
    BY <1>2
  <2> QED BY <1>1, <1>2, <1>3, <1>4, <2>1, <2>2, <2>3 DEF Sound
<1>6. TypeOK
  BY <1>1, <1>2, <1>3, Products, EvConstantsOK DEF Init, TypeOK, EvConstantsOK
<1>7. WalkIsSafe /\ PInv
  BY <1>4 DEF Init, WalkIsSafe, PInv, DueIsAhead, NothingDueIsLeft, NearestIsFirst
<1> QED BY <1>5, <1>6, <1>7 DEF TInv

-----------------------------------------------------------------------------
(***************************************************************************)
(* The calls of a client.  T holds the events that a call takes back or     *)
(* gives out: they are the client's own or free, never the one whose        *)
(* callback runs; the others, and the paths between them, stay.             *)
(***************************************************************************)
CallEffect(c, T) ==
  /\ T \in SUBSET Slots
  /\ Sound(ev_timer') /\ (pc = "passed" => NearestOK(ev_timer'))
  /\ waited' \in [Slots -> Nat] /\ handle' \in [Clients -> Slots \cup {NULL}]
  /\ UNCHANGED Loop
  /\ \A d \in Clients \ {c} : handle'[d] = handle[d]
  /\ \/ handle'[c] = NULL
     \/ handle'[c] = handle[c] /\ T = {}
     \/ \E ms \in Timeouts[c] : IsNew(ev_timer'.evt[handle'[c]], c, ms)
  /\ \A q \in Slots \ T : SameTimer(ev_timer'.evt[q], ev_timer.evt[q]) /\ waited'[q] = waited[q]
  /\ \A q \in T :
       /\ waited'[q] = 0
       /\ q \in UsedSlots => q = handle[c] /\ ~ev_timer.evt[q].isBusy
       /\ ev_timer'.evt[q] = Unused \/ \E ms \in Timeouts[c] : IsNew(ev_timer'.evt[q], c, ms)
  /\ \A g \in UsedSlots \ T : From(ev_timer, g) \ T \subseteq From(ev_timer', g)

LEMMA CancelEffect ==
  ASSUME TInv, PInv, NEW c \in Clients, CancelTimer(c)
  PROVE  \E T \in SUBSET Slots : CallEffect(c, T)
<1> DEFINE h == handle[c]
<1>0. h \in Slots /\ Sound(ev_timer) /\ waited \in [Slots -> Nat]
      /\ handle \in [Clients -> Slots \cup {NULL}]
  BY DEF CancelTimer, TInv, TypeOK
<1>1. CASE Cancels(ev_timer, h)
  <2>1. h \in Used(ev_timer) /\ ~ev_timer.evt[h].isBusy
    BY <1>0, <1>1 DEF Cancels, Used
  <2>2. /\ ev_timer' = Unon(ev_timer, h)
        /\ handle' = [handle EXCEPT ![c] = NULL]
        /\ waited' = [waited EXCEPT ![h] = 0]
        /\ UNCHANGED Loop
    BY <1>1 DEF CancelTimer
  <2>3. /\ Sound(ev_timer') /\ NearestOK(ev_timer') /\ Taken(ev_timer, h, ev_timer')
        /\ \A g \in (Slots \ {h}) \cup {NULL} : From(ev_timer, g) \ {h} \subseteq From(ev_timer', g)
    BY <1>0, <2>1, <2>2, Unonned
  <2>4. waited' \in [Slots -> Nat] /\ handle' \in [Clients -> Slots \cup {NULL}]
    BY <1>0, <2>2
  <2>5. \A q \in Slots \ {h} : SameTimer(ev_timer'.evt[q], ev_timer.evt[q]) /\ waited'[q] = waited[q]
    BY <1>0, <2>2, <2>3 DEF Taken
  <2>6. waited'[h] = 0 /\ ev_timer'.evt[h] = Unused
    BY <1>0, <2>2, <2>3 DEF Taken
  <2>7. handle'[c] = NULL /\ \A d \in Clients \ {c} : handle'[d] = handle[d]
    BY <1>0, <2>2
  <2>8. CallEffect(c, {h})
    BY <1>0, <2>1, <2>2, <2>3, <2>4, <2>5, <2>6, <2>7 DEF CallEffect, UsedSlots
  <2> QED BY <1>0, <2>8
<1>2. CASE ~Cancels(ev_timer, h)
  <2>1. UNCHANGED <<ev_timer, handle, waited, Loop>>
    BY <1>2 DEF CancelTimer
  <2>2. pc = "passed" => NearestOK(ev_timer')
    BY <2>1, NearestIsOK DEF PInv
  <2>3. CallEffect(c, {})
    BY <1>0, <2>1, <2>2 DEF CallEffect, SameTimer
  <2> QED BY <2>3
<1> QED BY <1>1, <1>2

LEMMA ScheduleEffect ==
  ASSUME TInv, PInv, NEW c \in Clients, NEW ms \in Timeouts[c], ScheduleTimer(c, ms)
  PROVE  \E T \in SUBSET Slots : CallEffect(c, T)
<1> DEFINE h == handle[c]
           t == Cancelled(c)
           s == FreeGet(t)
           z == IF Cancels(ev_timer, h) THEN h ELSE s
           T == {z, s}
<1>0. h \in Slots \cup {NULL} /\ Sound(ev_timer) /\ waited \in [Slots -> Nat]
      /\ handle \in [Clients -> Slots \cup {NULL}]
  BY DEF TInv, TypeOK
<1>1. /\ ~Full(t)
      /\ ev_timer' = Add(t, c, ms)
      /\ handle' = [handle EXCEPT ![c] = s]
      /\ waited' = [waited EXCEPT ![s] = 0, ![z] = 0]
      /\ UNCHANGED Loop
  BY DEF ScheduleTimer
<1>2. /\ Sound(t)
      /\ \A q \in Slots \ {z} : SameTimer(t.evt[q], ev_timer.evt[q])
      /\ \A q \in Slots \ {z} : q \in Used(t) <=> q \in UsedSlots
      /\ \A g \in UsedSlots \ {z} : From(ev_timer, g) \ {z} \subseteq From(t, g)
      /\ (z = s /\ Used(t) = UsedSlots) \/ (z = h /\ h \in UsedSlots /\ ~ev_timer.evt[h].isBusy /\ t.evt[h] = Unused)
  <2>1. CASE Cancels(ev_timer, h)
    <3>1. h \in Used(ev_timer) /\ ~ev_timer.evt[h].isBusy /\ z = h /\ t = Unon(ev_timer, h)
      BY <1>0, <2>1 DEF Cancels, Used, Cancelled
    <3> HIDE DEF t, z
    <3>2. /\ Sound(t) /\ Taken(ev_timer, h, t)
          /\ Used(t) = Used(ev_timer) \ {h}
          /\ \A g \in (Slots \ {h}) \cup {NULL} : From(ev_timer, g) \ {h} \subseteq From(t, g)
      BY <1>0, <3>1, Unonned
    <3> QED BY <3>1, <3>2, UsedIsUsedSlots DEF Taken, UsedSlots
  <2>2. CASE ~Cancels(ev_timer, h)
    <3>1. t = ev_timer /\ z = s
      BY <2>2 DEF Cancelled
    <3> HIDE DEF t, z
    <3> QED BY <1>0, <3>1, UsedIsUsedSlots DEF SameTimer
  <2> QED BY <2>1, <2>2
<1> HIDE DEF t, z
<1>3. /\ s \in Slots \ Used(t)
      /\ Sound(ev_timer') /\ NearestOK(ev_timer')
      /\ IsNew(ev_timer'.evt[s], c, ms)
      /\ \A q \in Slots \ {s} : ev_timer'.evt[q] = t.evt[q]
      /\ \A g \in Used(t) \cup {NULL} : From(t, g) \subseteq From(ev_timer', g)
  BY <1>1, <1>2, Added
<1> HIDE DEF s
<1>4. s \in Slots /\ z \in Slots /\ T \in SUBSET Slots
  BY <1>0, <1>2, <1>3 DEF UsedSlots
<1>5. /\ waited' \in [Slots -> Nat] /\ handle' \in [Clients -> Slots \cup {NULL}]
      /\ waited'[s] = 0 /\ waited'[z] = 0
      /\ \A q \in Slots \ T : waited'[q] = waited[q]
      /\ handle'[c] = s /\ \A d \in Clients \ {c} : handle'[d] = handle[d]
  BY <1>0, <1>1, <1>4
<1>6. \A q \in Slots \ T : SameTimer(ev_timer'.evt[q], ev_timer.evt[q])
  BY <1>2, <1>3
<1>7. ASSUME NEW q \in T
      PROVE  /\ q \in UsedSlots => q = h /\ ~ev_timer.evt[q].isBusy
             /\ ev_timer'.evt[q] = Unused \/ \E m \in Timeouts[c] : IsNew(ev_timer'.evt[q], c, m)
  <2>1. CASE q = s
    BY <1>2, <1>3, <2>1
  <2>2. CASE q # s
    BY <1>2, <1>3, <1>4, <2>2
  <2> QED BY <2>1, <2>2
<1>8. ASSUME NEW g \in UsedSlots \ T
      PROVE  From(ev_timer, g) \ T \subseteq From(ev_timer', g)
  <2>1. g \in Used(t)
    BY <1>2 DEF UsedSlots
  <2>2. From(ev_timer, g) \ {z} \subseteq From(t, g)
    BY <1>2
  <2> QED BY <1>3, <2>1, <2>2
<1>9. CallEffect(c, T)
  BY <1>1, <1>3, <1>4, <1>5, <1>6, <1>7, <1>8 DEF CallEffect
<1> QED BY <1>4, <1>9

LEMMA CallKeepsInv ==
  ASSUME TInv, PInv, MayCall, NEW c \in Clients, NEW T, CallEffect(c, T)
  PROVE  TInv' /\ PInv'
<1>0. /\ TypeOK /\ Sound(ev_timer) /\ WalkIsSafe /\ pc \in {"loop", "callback", "passed"}
      /\ T \in SUBSET Slots
      /\ pc' = pc /\ timerEvt' = timerEvt /\ prev_head' = prev_head /\ lag' = lag
      /\ remSysTick' = remSysTick
      /\ Sound(ev_timer') /\ ev_timer' \in Table
  BY DEF TInv, MayCall, CallEffect, Loop, Sound
<1>1. ASSUME NEW q \in Slots \ T
      PROVE  /\ SameTimer(ev_timer'.evt[q], ev_timer.evt[q]) /\ waited'[q] = waited[q]
             /\ q \in UsedSlots' <=> q \in UsedSlots
  BY DEF CallEffect, SameTimer, UsedSlots
<1>2. ASSUME NEW q \in T
      PROVE  /\ waited'[q] = 0
             /\ q \in UsedSlots => ~ev_timer.evt[q].isBusy
             /\ ev_timer'.evt[q].isBusy = FALSE
             /\ q \in UsedSlots' => ev_timer'.evt[q].timeout > 0
  <2>1. CASE ev_timer'.evt[q] = Unused
    BY <1>0, <2>1 DEF CallEffect, Unused, UsedSlots
  <2>2. ASSUME NEW ms \in Timeouts[c], IsNew(ev_timer'.evt[q], c, ms)
        PROVE  ev_timer'.evt[q].isBusy = FALSE /\ ev_timer'.evt[q].timeout > 0
    BY <2>2, TimeoutsArePositive DEF IsNew
  <2> QED BY <2>1, <2>2 DEF CallEffect
<1>3. pc = "callback" => timerEvt \in UsedSlots \ T
  BY <1>0, <1>2 DEF WalkIsSafe
<1>4. TypeOK'
  <2>1. ASSUME NEW q \in Slots
        PROVE  waited'[q] <= ev_timer'.evt[q].period * TICKS
    <3>1. CASE q \in T
      <4>1. ev_timer'.evt[q].period \in Nat
        BY <1>0, EvConstantsOK DEF Table, Event, EvConstantsOK, AllTimeouts, Range
      <4> DEFINE enough == ev_timer'.evt[q].period * TICKS
      <4>2. enough \in Nat
        BY <4>1, Products
      <4> HIDE DEF enough
      <4>3. waited'[q] = 0
        BY <1>2, <3>1
      <4>4. waited'[q] <= enough
        BY <4>2, <4>3
      <4> QED BY <4>4 DEF enough
    <3>2. CASE q \notin T
      BY <1>0, <1>1, <3>2 DEF TypeOK, SameTimer
    <3> QED BY <3>1, <3>2
  <2> QED BY <1>0, <2>1 DEF TypeOK, CallEffect, Sound
<1>5. WalkIsSafe'
  <2>1. ASSUME NEW s \in UsedSlots', ev_timer'.evt[s].isBusy
        PROVE  pc' = "callback" /\ s = timerEvt'
    <3>1. s \in Slots \ T
      BY <1>2, <2>1 DEF UsedSlots
    <3> QED BY <1>0, <1>1, <2>1, <3>1 DEF WalkIsSafe, SameTimer
  <2>2. pc = "callback" => timerEvt \in UsedSlots' /\ ev_timer'.evt[timerEvt].isBusy
    BY <1>0, <1>1, <1>3 DEF WalkIsSafe, SameTimer, UsedSlots
  <2> QED BY <1>0, <2>1, <2>2 DEF WalkIsSafe
<1>6. DueIsAhead'
  <2> SUFFICES ASSUME pc = "callback", NEW s \in UsedSlots', ev_timer'.evt[s].timeout = 0
               PROVE  s \in From(ev_timer', timerEvt)
    BY <1>0 DEF DueIsAhead
  <2>1. s \in Slots \ T
    <3>1. s \in Slots
      BY DEF UsedSlots
    <3>2. s \in T => ev_timer'.evt[s].timeout > 0
      BY <1>2
    <3>3. s \notin T
      BY <3>2
    <3> QED BY <3>1, <3>3
  <2>2. s \in UsedSlots /\ ev_timer.evt[s].timeout = 0
    BY <1>1, <2>1 DEF SameTimer
  <2>3. s \in From(ev_timer, timerEvt)
    BY <2>2 DEF PInv, DueIsAhead
  <2> QED BY <1>3, <2>1, <2>3 DEF CallEffect
<1>7. NothingDueIsLeft'
  <2> SUFFICES ASSUME pc = "passed", NEW s \in UsedSlots'
               PROVE  ev_timer'.evt[s].timeout > 0
    BY <1>0 DEF NothingDueIsLeft
  <2>1. CASE s \in T
    BY <1>2, <2>1
  <2>2. CASE s \notin T
    BY <1>1, <2>2 DEF SameTimer, UsedSlots, PInv, NothingDueIsLeft
  <2> QED BY <2>1, <2>2
<1>8. NearestIsFirst'
  BY <1>0, UsedIsUsedSlots DEF CallEffect, NearestIsFirst, NearestOK
<1> QED BY <1>0, <1>4, <1>5, <1>6, <1>7, <1>8 DEF TInv, PInv

-----------------------------------------------------------------------------
(* The turns of the loop.                                                   *)

(* A change of what is counted leaves the list alone.                       *)
LEMMA Recounted ==
  ASSUME NEW t, Sound(t), NEW u \in Table,
         u.timer_head = t.timer_head, u.used_num = t.used_num,
         \A s \in Slots : u.evt[s].next = t.evt[s].next /\ u.evt[s].used = t.evt[s].used,
         \A s \in Slots \ Used(t) : u.evt[s] = t.evt[s],
         \A s \in Used(t) : u.evt[s].timeout <= u.evt[s].period
  PROVE  /\ Sound(u) /\ Used(u) = Used(t)
         /\ \A g : From(u, g) = From(t, g)
<1>1. Used(u) = Used(t) /\ NextOf(u) = NextOf(t)
  BY DEF Used, NextOf
<1>2. \A g : From(u, g) = From(t, g)
  BY <1>1, FromIsPath DEF Sound
<1>3. \A s \in Slots : u.evt[s].timeout <= u.evt[s].period
  BY DEF Sound
<1>4. Sound(u)
  BY <1>1, <1>3 DEF Sound
<1> QED BY <1>1, <1>2, <1>4

LEMMA TypedTimers ==
  ASSUME TypeOK
  PROVE  \A s \in Slots : /\ ev_timer.evt[s] \in Event
                          /\ ev_timer.evt[s].period \in Nat
                          /\ ev_timer.evt[s].period * TICKS \in Nat
                          /\ waited[s] \in Nat
<1> SUFFICES ASSUME NEW s \in Slots
             PROVE  /\ ev_timer.evt[s] \in Event /\ ev_timer.evt[s].period \in Nat
                    /\ waited[s] \in Nat
  BY Products
<1> QED BY EvConstantsOK DEF TypeOK, Table, Event, EvConstantsOK, AllTimeouts, Range

LEMMA WaitedType ==
  ASSUME TypeOK, NEW n \in Nat
  PROVE  /\ Waited(n) \in [Slots -> Nat]
         /\ \A s \in Slots : /\ Waited(n)[s] >= waited[s]
                             /\ Waited(n)[s] <= ev_timer.evt[s].period * TICKS
BY TypedTimers DEF Waited, TypeOK

LEMMA TickKeepsInv ==
  ASSUME TInv, PInv, Tick
  PROVE  TInv' /\ PInv'
<1>1. /\ UNCHANGED <<ev_timer, pc, timerEvt, prev_head, handle, remSysTick>>
      /\ lag' = lag + 1 /\ lag < MaxLag /\ waited' = Waited(1)
  BY DEF Tick
<1>2. TypeOK'
  <2>1. lag' \in 0..MaxLag
    BY <1>1, EvConstantsOK DEF TInv, TypeOK, EvConstantsOK
  <2>2. /\ waited' \in [Slots -> Nat]
        /\ \A s \in Slots : waited'[s] <= ev_timer'.evt[s].period * TICKS
    BY <1>1, WaitedType DEF TInv
  <2> QED BY <1>1, <2>1, <2>2 DEF TInv, TypeOK
<1>3. UsedSlots' = UsedSlots /\ \A g : From(ev_timer', g) = From(ev_timer, g)
  BY <1>1 DEF UsedSlots
<1>4. WalkIsSafe' /\ PInv' /\ Sound(ev_timer')
  BY <1>1, <1>3 DEF TInv, PInv, WalkIsSafe, DueIsAhead, NothingDueIsLeft, NearestIsFirst
<1> QED BY <1>2, <1>4 DEF TInv

LEMMA ResetKeepsInv ==
  ASSUME NEW c \in Clients, Exhausted(c)
  PROVE  TInv' /\ PInv'
<1>1. Init'
  BY DEF Exhausted, Init
<1> QED BY <1>1, InitInv, PTL

LEMMA ProcessMs ==
  ASSUME TypeOK
  PROVE  /\ (lag \div TICKS) + ((remSysTick + (lag % TICKS)) \div TICKS) \in Nat
         /\ (remSysTick + (lag % TICKS)) % TICKS \in 0..(TICKS - 1)
<1>1. TICKS \in Nat \ {0} /\ lag \in Nat /\ remSysTick \in Nat
  BY EvConstantsOK DEF TypeOK, EvConstantsOK
<1>2. lag \div TICKS \in Nat /\ lag % TICKS \in Nat
  BY <1>1
<1> DEFINE sum == remSysTick + (lag % TICKS)
<1>3. sum \in Nat
  BY <1>1, <1>2
<1> HIDE DEF sum
<1>4. sum \div TICKS \in Nat /\ sum % TICKS \in 0..(TICKS - 1)
  BY <1>1, <1>3
<1> QED BY <1>2, <1>4 DEF sum

LEMMA ProcessKeepsInv ==
  ASSUME TInv, PInv, Process
  PROVE  TInv' /\ PInv'
<1> DEFINE ms == (lag \div TICKS) + ((remSysTick + (lag % TICKS)) \div TICKS)
<1>0. TypeOK /\ Sound(ev_timer) /\ WalkIsSafe /\ ms \in Nat
  BY ProcessMs DEF TInv
<1>1. /\ pc = "loop" /\ pc' = "scan" /\ lag' = 0
      /\ ev_timer' = Update(ev_timer, ms, waited)
      /\ remSysTick' \in 0..(TICKS - 1)
      /\ timerEvt' = ev_timer.timer_head /\ prev_head' = ev_timer.timer_head
      /\ UNCHANGED <<handle, waited>>
  BY <1>0, ProcessMs DEF Process
<1> HIDE DEF ms
<1>2. /\ Sound(ev_timer') /\ ev_timer'.timer_head = ev_timer.timer_head
      /\ Used(ev_timer') = Used(ev_timer)
      /\ \A s \in Slots : /\ ev_timer'.evt[s].isBusy = ev_timer.evt[s].isBusy
                          /\ ev_timer'.evt[s].period = ev_timer.evt[s].period
  <2>1. waited \in [Slots -> Nat]
    BY <1>0 DEF TypeOK
  <2> QED BY <1>0, <1>1, <2>1, Updated
<1>3. ev_timer.timer_head \in Slots \cup {NULL} /\ UsedSlots' = UsedSlots
      /\ ev_timer.timer_head \in UsedSlots \cup {NULL}
  BY <1>0, <1>2, UsedIsUsedSlots DEF Sound, Table, IsList
<1>4. TypeOK'
  <2>1. 0 \in 0..MaxLag
    BY EvConstantsOK DEF EvConstantsOK
  <2> QED BY <1>0, <1>1, <1>2, <1>3, <2>1 DEF TypeOK, Sound
<1>5. WalkIsSafe'
  BY <1>0, <1>1, <1>2, <1>3 DEF WalkIsSafe, UsedSlots
<1>6. DueIsAhead'
  BY <1>1, <1>2, UsedIsUsedSlots, ListedIsUsed DEF DueIsAhead, Listed
<1>7. NothingDueIsLeft' /\ NearestIsFirst'
  BY <1>1 DEF NothingDueIsLeft, NearestIsFirst
<1> QED BY <1>2, <1>4, <1>5, <1>6, <1>7 DEF TInv, PInv

(* The walk goes on: what lay ahead of an event lies ahead of the next one. *)
LEMMA AheadOfNext ==
  ASSUME NEW t \in Table, NEW s \in Slots, NEW q \in From(t, s), q # s
  PROVE  q \in From(t, t.evt[s].next)
BY FromIsPath, PathNext DEF NextOf

LEMMA NextIsUsed ==
  ASSUME NEW t, Sound(t), NEW s \in Used(t)
  PROVE  t.evt[s].next \in (Used(t) \ {s}) \cup {NULL}
<1>1. NextOf(t)[s] = t.evt[s].next
  BY DEF NextOf, Used
<1>2. {s} \in SUBSET Used(t) /\ {s} # {}
  OBVIOUS
<1>3. NextOf(t)[s] \notin {s}
  BY <1>2 DEF Sound, IsList
<1> QED BY <1>1, <1>3 DEF Sound, IsList

LEMMA SkipKeepsInv ==
  ASSUME TInv, PInv, Skip
  PROVE  TInv' /\ PInv'
<1>1. /\ pc = "scan" /\ timerEvt # NULL /\ ev_timer.evt[timerEvt].timeout # 0
      /\ timerEvt' = ev_timer.evt[timerEvt].next
      /\ UNCHANGED <<ev_timer, pc, prev_head, handle, lag, remSysTick, waited>>
  BY DEF Skip, Due
<1>2. timerEvt \in UsedSlots /\ timerEvt \in Slots /\ UsedSlots' = UsedSlots
  BY <1>1 DEF TInv, WalkIsSafe, UsedSlots
<1>3. timerEvt' \in UsedSlots \cup {NULL} /\ timerEvt' \in Slots \cup {NULL}
  BY <1>1, <1>2, UsedIsUsedSlots, NextIsUsed DEF TInv, UsedSlots
<1>4. TypeOK' /\ WalkIsSafe' /\ Sound(ev_timer')
  BY <1>1, <1>2, <1>3 DEF TInv, TypeOK, WalkIsSafe
<1>5. DueIsAhead'
  <2> SUFFICES ASSUME NEW s \in UsedSlots, ev_timer.evt[s].timeout = 0
               PROVE  s \in From(ev_timer, ev_timer.evt[timerEvt].next)
    BY <1>1, <1>2 DEF DueIsAhead
  <2>1. s \in From(ev_timer, timerEvt) /\ s # timerEvt
    BY <1>1 DEF PInv, DueIsAhead
  <2> QED BY <1>2, <2>1, AheadOfNext DEF TInv, Sound
<1> QED BY <1>1, <1>4, <1>5 DEF TInv, PInv, NothingDueIsLeft, NearestIsFirst

LEMMA ExecuteKeepsInv ==
  ASSUME TInv, PInv, Execute
  PROVE  TInv' /\ PInv'
<1>1. /\ pc = "scan" /\ timerEvt # NULL /\ pc' = "callback"
      /\ ev_timer' = [ev_timer EXCEPT !.evt[timerEvt].isBusy = TRUE]
      /\ UNCHANGED <<timerEvt, prev_head, handle, lag, remSysTick, waited>>
  BY DEF Execute
<1>2. timerEvt \in UsedSlots /\ timerEvt \in Slots
  BY <1>1 DEF TInv, WalkIsSafe, UsedSlots
<1>3. ev_timer \in Table /\ Sound(ev_timer) /\ TypeOK
  BY DEF TInv, Sound
<1> DEFINE e == [ev_timer.evt[timerEvt] EXCEPT !.isBusy = TRUE]
<1>4. ev_timer.evt[timerEvt] \in Event
  BY <1>2, <1>3 DEF Table
<1>5. /\ e \in Event /\ e.isBusy
      /\ e.used = ev_timer.evt[timerEvt].used /\ e.next = ev_timer.evt[timerEvt].next
      /\ e.timeout = ev_timer.evt[timerEvt].timeout /\ e.period = ev_timer.evt[timerEvt].period
  BY <1>4 DEF Event
<1>6. ev_timer' = [ev_timer EXCEPT !.evt[timerEvt] = e]
  BY <1>1
<1> HIDE DEF e
<1>7. /\ ev_timer' \in Table
      /\ ev_timer'.timer_head = ev_timer.timer_head /\ ev_timer'.used_num = ev_timer.used_num
      /\ ev_timer'.evt[timerEvt] = e
      /\ \A s \in Slots \ {timerEvt} : ev_timer'.evt[s] = ev_timer.evt[s]
  <2>1. ev_timer' \in Table
    BY <1>2, <1>3, <1>5, <1>6 DEF Table
  <2> QED BY <1>2, <1>3, <1>6, <2>1 DEF Table
<1>8. \A s \in Slots : /\ ev_timer'.evt[s].used = ev_timer.evt[s].used
                       /\ ev_timer'.evt[s].next = ev_timer.evt[s].next
                       /\ ev_timer'.evt[s].timeout = ev_timer.evt[s].timeout
                       /\ ev_timer'.evt[s].period = ev_timer.evt[s].period
  BY <1>5, <1>7
<1>9. /\ Sound(ev_timer') /\ UsedSlots' = UsedSlots
      /\ \A g : From(ev_timer', g) = From(ev_timer, g)
  <2>1. \A s \in Slots \ Used(ev_timer) : ev_timer'.evt[s] = ev_timer.evt[s]
    BY <1>2, <1>7, UsedIsUsedSlots
  <2>2. \A s \in Used(ev_timer) : ev_timer'.evt[s].timeout <= ev_timer'.evt[s].period
    BY <1>3, <1>8 DEF TypeOK, Used
  <2> QED BY <1>3, <1>7, <1>8, <2>1, <2>2, Recounted, UsedIsUsedSlots
<1>10. TypeOK'
  BY <1>1, <1>3, <1>7, <1>8 DEF TypeOK
<1>11. WalkIsSafe'
  BY <1>1, <1>2, <1>5, <1>7, <1>9 DEF TInv, WalkIsSafe, UsedSlots
<1>12. DueIsAhead'
  BY <1>1, <1>8, <1>9 DEF PInv, DueIsAhead, UsedSlots
<1>13. NothingDueIsLeft' /\ NearestIsFirst'
  BY <1>1 DEF NothingDueIsLeft, NearestIsFirst
<1> QED BY <1>9, <1>10, <1>11, <1>12, <1>13 DEF TInv, PInv

(***************************************************************************)
(* A callback returns: its timer is taken out or loaded again, it is not    *)
(* busy any more, and the walk goes on behind it or at a new head.          *)
(***************************************************************************)
ReturnEffect ==
  /\ Sound(ev_timer')
  /\ UsedSlots' \in {UsedSlots, UsedSlots \ {timerEvt}}
  /\ \A s \in Slots \ {timerEvt} : SameTimer(ev_timer'.evt[s], ev_timer.evt[s])
  /\ ev_timer'.evt[timerEvt].isBusy = FALSE
  /\ timerEvt \in UsedSlots' => ev_timer'.evt[timerEvt].timeout # 0
  /\ \A g \in (Slots \ {timerEvt}) \cup {NULL} :
       From(ev_timer, g) \ {timerEvt} \subseteq From(ev_timer', g)

LEMMA ReturnKeepsInv ==
  ASSUME TInv, PInv, pc = "callback", Proceed, ReturnEffect,
         waited' \in [Slots -> Nat], handle' \in [Clients -> Slots \cup {NULL}],
         \A s \in Slots : waited'[s] <= ev_timer'.evt[s].period * TICKS
  PROVE  TInv' /\ PInv'
<1>1. /\ pc' = "scan" /\ lag' = lag /\ remSysTick' = remSysTick
      /\ \/ timerEvt' = ev_timer'.timer_head /\ prev_head' = ev_timer'.timer_head
         \/ timerEvt' = ev_timer.evt[timerEvt].next /\ prev_head' = prev_head
  BY DEF Proceed
<1>2. timerEvt \in UsedSlots /\ timerEvt \in Slots
  BY DEF TInv, WalkIsSafe, UsedSlots
<1>3. ev_timer.evt[timerEvt].next \in (UsedSlots \ {timerEvt}) \cup {NULL}
  BY <1>2, UsedIsUsedSlots, NextIsUsed DEF TInv
<1>4. ev_timer'.timer_head \in UsedSlots' \cup {NULL} /\ ev_timer' \in Table
  BY UsedIsUsedSlots DEF ReturnEffect, Sound, IsList
<1>5. timerEvt' \in UsedSlots' \cup {NULL} /\ prev_head' \in Slots \cup {NULL}
  <2>1. UsedSlots' \subseteq Slots
    BY DEF UsedSlots
  <2>2. ev_timer.evt[timerEvt].next \in UsedSlots' \cup {NULL}
    BY <1>3 DEF ReturnEffect
  <2>3. prev_head \in Slots \cup {NULL}
    BY DEF TInv, TypeOK
  <2> QED BY <1>1, <1>4, <2>1, <2>2, <2>3
<1>6. TypeOK'
  <2>1. timerEvt' \in Slots \cup {NULL}
    BY <1>5 DEF UsedSlots
  <2>2. \A s \in Slots : ev_timer'.evt[s].timeout <= ev_timer'.evt[s].period
    BY DEF ReturnEffect, Sound
  <2> QED BY <1>1, <1>4, <1>5, <2>1, <2>2 DEF TInv, TypeOK
<1>7. \A s \in Slots \ {timerEvt} :
        /\ ev_timer'.evt[s].isBusy = ev_timer.evt[s].isBusy
        /\ ev_timer'.evt[s].timeout = ev_timer.evt[s].timeout
        /\ s \in UsedSlots' => s \in UsedSlots
  BY DEF ReturnEffect, SameTimer
<1>8. WalkIsSafe'
  <2>1. \A s \in UsedSlots' : ~ev_timer'.evt[s].isBusy
    <3> SUFFICES ASSUME NEW s \in UsedSlots', ev_timer'.evt[s].isBusy PROVE FALSE
      OBVIOUS
    <3>1. s \in Slots /\ s # timerEvt
      BY DEF ReturnEffect, UsedSlots
    <3> QED BY <1>7, <3>1 DEF TInv, WalkIsSafe
  <2> QED BY <1>1, <1>5, <2>1 DEF WalkIsSafe
<1>9. DueIsAhead'
  <2> SUFFICES ASSUME NEW s \in UsedSlots', ev_timer'.evt[s].timeout = 0
               PROVE  s \in From(ev_timer', timerEvt')
    BY DEF DueIsAhead
  <2>1. CASE timerEvt' = ev_timer'.timer_head
    <3>1. Listed(ev_timer') = UsedSlots'
      BY ListedIsUsed, UsedIsUsedSlots DEF ReturnEffect
    <3> QED BY <2>1, <3>1 DEF Listed
  <2>2. CASE timerEvt' = ev_timer.evt[timerEvt].next
    <3>1. s \in Slots /\ s # timerEvt
      BY DEF ReturnEffect, UsedSlots
    <3>2. s \in UsedSlots /\ ev_timer.evt[s].timeout = 0
      BY <1>7, <3>1
    <3>3. s \in From(ev_timer, timerEvt)
      BY <3>2 DEF PInv, DueIsAhead
    <3>4. s \in From(ev_timer, ev_timer.evt[timerEvt].next)
      BY <1>2, <3>1, <3>3, AheadOfNext DEF TInv, Sound
    <3>5. ev_timer.evt[timerEvt].next \in (Slots \ {timerEvt}) \cup {NULL}
      BY <1>3 DEF UsedSlots
    <3> QED BY <2>2, <3>1, <3>4, <3>5 DEF ReturnEffect
  <2> QED BY <1>1, <2>1, <2>2
<1>10. NothingDueIsLeft' /\ NearestIsFirst'
  BY <1>1 DEF NothingDueIsLeft, NearestIsFirst
<1> QED BY <1>6, <1>8, <1>9, <1>10 DEF TInv, PInv, ReturnEffect

LEMMA ReturnEndEffect ==
  ASSUME TInv, ReturnEnd
  PROVE  ReturnEffect /\ ev_timer'.evt[timerEvt] = Unused
<1> DEFINE t == ev_timer
           w == Unon(t, timerEvt)
           e == [w.evt[timerEvt] EXCEPT !.isBusy = FALSE]
<1>1. /\ timerEvt \in Used(t) /\ timerEvt \in Slots /\ Sound(t)
      /\ ev_timer' = [w EXCEPT !.evt[timerEvt] = e]
  BY DEF TInv, WalkIsSafe, ReturnEnd, NotBusy, UsedSlots, Used
<1>2. /\ Sound(w) /\ Taken(t, timerEvt, w)
      /\ Used(w) = Used(t) \ {timerEvt}
      /\ \A g \in (Slots \ {timerEvt}) \cup {NULL} : From(t, g) \ {timerEvt} \subseteq From(w, g)
  BY <1>1, Unonned
<1> HIDE DEF w
<1>3. w \in Table /\ w.evt[timerEvt] = Unused /\ Unused \in Event
  BY <1>1, <1>2 DEF Sound, Taken, Table
<1>4. e = Unused
  <2>1. e \in Event /\ SameTimer(e, Unused) /\ e.next = Unused.next
    BY <1>3 DEF Event, SameTimer, Unused
  <2> HIDE DEF e
  <2> QED BY <1>3, <2>1 DEF Event, SameTimer
<1> HIDE DEF e
<1>5. ev_timer' \in Table
  BY <1>1, <1>3, <1>4 DEF Table
<1>6. /\ ev_timer'.timer_head = w.timer_head /\ ev_timer'.used_num = w.used_num
      /\ \A s \in Slots : ev_timer'.evt[s] = w.evt[s]
  BY <1>1, <1>3, <1>4 DEF Table
<1>7. /\ Sound(ev_timer') /\ Used(ev_timer') = Used(w)
      /\ \A g : From(ev_timer', g) = From(w, g)
  <2>1. \A s \in Used(w) : ev_timer'.evt[s].timeout <= ev_timer'.evt[s].period
    BY <1>2, <1>6 DEF Sound, Used
  <2>2. \A s \in Slots \ Used(w) : ev_timer'.evt[s] = w.evt[s]
    BY <1>6
  <2> QED BY <1>2, <1>5, <1>6, <2>1, <2>2, Recounted
<1>8. ev_timer'.evt[timerEvt] = Unused /\ timerEvt \notin UsedSlots'
  BY <1>1, <1>2, <1>3, <1>6, <1>7, UsedIsUsedSlots
<1>9. \A s \in Slots \ {timerEvt} : SameTimer(ev_timer'.evt[s], ev_timer.evt[s])
  BY <1>2, <1>6 DEF Taken
<1>10. ev_timer'.evt[timerEvt].isBusy = FALSE
  BY <1>8 DEF Unused
<1> QED BY <1>2, <1>7, <1>8, <1>9, <1>10, UsedIsUsedSlots DEF ReturnEffect

LEMMA ReturnAgainEffect ==
  ASSUME TInv, NEW p \in AllTimeouts, ReturnAgain(p)
  PROVE  /\ ReturnEffect /\ UsedSlots' = UsedSlots
         /\ ev_timer'.evt[timerEvt].period = p /\ ev_timer'.evt[timerEvt].timeout = p
         /\ ev_timer'.evt[timerEvt].isRunning = ev_timer.evt[timerEvt].isRunning
         /\ ev_timer'.evt[timerEvt].cb = ev_timer.evt[timerEvt].cb
<1> DEFINE t == ev_timer
           f == [t.evt[timerEvt] EXCEPT !.period = p, !.timeout = p]
           e == [f EXCEPT !.isBusy = FALSE]
<1>0. p \in Nat \ {0}
  BY EvConstantsOK DEF EvConstantsOK, AllTimeouts, Range
<1>1. timerEvt \in Used(t) /\ timerEvt \in Slots /\ Sound(t) /\ t \in Table
  BY DEF TInv, WalkIsSafe, ReturnAgain, UsedSlots, Used, Sound
<1>2. t.evt[timerEvt] \in Event
  BY <1>1 DEF Table
<1>3. /\ f \in Event /\ e \in Event /\ e.isBusy = FALSE
      /\ e.used = t.evt[timerEvt].used /\ e.next = t.evt[timerEvt].next
      /\ e.cb = t.evt[timerEvt].cb /\ e.isRunning = t.evt[timerEvt].isRunning
      /\ e.timeout = p /\ e.period = p
  BY <1>0, <1>2 DEF Event
<1>4. ev_timer' = [t EXCEPT !.evt[timerEvt] = e]
  <2>1. DOMAIN t.evt = Slots
    BY <1>1 DEF Table
  <2>2. ev_timer' = NotBusy([t EXCEPT !.evt[timerEvt] = f])
    BY <1>1, <1>2, <2>1 DEF ReturnAgain, Table, Event
  <2> HIDE DEF f
  <2> QED BY <1>1, <2>1, <2>2 DEF NotBusy, Table
<1> HIDE DEF e, f
<1>5. ev_timer' \in Table
  BY <1>1, <1>3, <1>4 DEF Table
<1>6. /\ ev_timer'.timer_head = t.timer_head /\ ev_timer'.used_num = t.used_num
      /\ ev_timer'.evt[timerEvt] = e
      /\ \A s \in Slots \ {timerEvt} : ev_timer'.evt[s] = t.evt[s]
  BY <1>1, <1>4 DEF Table
<1>7. /\ Sound(ev_timer') /\ Used(ev_timer') = Used(t)
      /\ \A g : From(ev_timer', g) = From(t, g)
  <2>1. \A s \in Slots : ev_timer'.evt[s].next = t.evt[s].next
                         /\ ev_timer'.evt[s].used = t.evt[s].used
    BY <1>3, <1>6
  <2>2. \A s \in Slots \ Used(t) : ev_timer'.evt[s] = t.evt[s]
    BY <1>1, <1>6
  <2>3. \A s \in Used(t) : ev_timer'.evt[s].timeout <= ev_timer'.evt[s].period
    <3> SUFFICES ASSUME NEW s \in Used(t)
                 PROVE  ev_timer'.evt[s].timeout <= ev_timer'.evt[s].period
      OBVIOUS
    <3>1. CASE s = timerEvt
      BY <1>0, <1>3, <1>6, <3>1
    <3>2. CASE s # timerEvt
      BY <1>1, <1>6, <3>2 DEF Sound, Used
    <3> QED BY <3>1, <3>2
  <2> QED BY <1>1, <1>5, <1>6, <2>1, <2>2, <2>3, Recounted
<1>8. \A s \in Slots \ {timerEvt} : SameTimer(ev_timer'.evt[s], ev_timer.evt[s])
  BY <1>6 DEF SameTimer
<1>9. ReturnEffect /\ UsedSlots' = UsedSlots
  BY <1>0, <1>3, <1>6, <1>7, <1>8, UsedIsUsedSlots DEF ReturnEffect
<1> QED BY <1>3, <1>6, <1>9

LEMMA ReturnEndKeepsInv ==
  ASSUME TInv, PInv, ReturnEnd
  PROVE  TInv' /\ PInv'
<1>1. /\ pc = "callback" /\ Proceed /\ waited' = [waited EXCEPT ![timerEvt] = 0]
      /\ handle' = IF Client \in Forgetful THEN handle ELSE [handle EXCEPT ![Client] = NULL]
  BY DEF ReturnEnd
<1>2. ReturnEffect /\ ev_timer'.evt[timerEvt] = Unused
  BY ReturnEndEffect
<1>3. TypeOK /\ timerEvt \in Slots
  BY <1>1 DEF TInv, WalkIsSafe, UsedSlots
<1>4. waited' \in [Slots -> Nat] /\ handle' \in [Clients -> Slots \cup {NULL}]
  BY <1>1, <1>3 DEF TypeOK
<1>5. ASSUME NEW s \in Slots
      PROVE  waited'[s] <= ev_timer'.evt[s].period * TICKS
  <2>1. CASE s = timerEvt
    <3>1. waited'[s] = 0 /\ ev_timer'.evt[s].period = 0
      BY <1>1, <1>2, <1>3, <2>1 DEF TypeOK, Unused
    <3>2. 0 * TICKS = 0
      BY Products
    <3> QED BY <3>1, <3>2
  <2>2. CASE s # timerEvt
    <3>1. waited'[s] = waited[s]
      BY <1>1, <1>3, <2>2 DEF TypeOK
    <3>2. ev_timer'.evt[s].period = ev_timer.evt[s].period
      BY <1>2, <2>2 DEF ReturnEffect, SameTimer
    <3> QED BY <1>3, <3>1, <3>2 DEF TypeOK
  <2> QED BY <2>1, <2>2
<1> QED BY <1>1, <1>2, <1>4, <1>5, ReturnKeepsInv

LEMMA ReturnAgainKeepsInv ==
  ASSUME TInv, PInv, NEW p \in AllTimeouts, ReturnAgain(p)
  PROVE  TInv' /\ PInv'
<1> DEFINE enough == p * TICKS
<1>1. /\ pc = "callback" /\ Proceed /\ handle' = handle
      /\ waited' = [waited EXCEPT ![timerEvt] = IF lag < enough THEN lag ELSE enough]
  BY DEF ReturnAgain
<1>2. ReturnEffect /\ ev_timer'.evt[timerEvt].period = p
  BY ReturnAgainEffect
<1>3. TypeOK /\ timerEvt \in Slots /\ lag \in Nat
  BY <1>1, EvConstantsOK DEF TInv, TypeOK, WalkIsSafe, UsedSlots, EvConstantsOK
<1>4. enough \in Nat
  BY Products, EvConstantsOK DEF EvConstantsOK, AllTimeouts, Range
<1>5. ev_timer'.evt[timerEvt].period * TICKS = enough
  BY <1>2
<1> HIDE DEF enough
<1>6. /\ waited' \in [Slots -> Nat] /\ handle' \in [Clients -> Slots \cup {NULL}]
      /\ waited'[timerEvt] <= enough
      /\ \A s \in Slots \ {timerEvt} : waited'[s] = waited[s]
  BY <1>1, <1>3, <1>4 DEF TypeOK
<1>7. ASSUME NEW s \in Slots
      PROVE  waited'[s] <= ev_timer'.evt[s].period * TICKS
  <2>1. CASE s = timerEvt
    BY <1>5, <1>6, <2>1
  <2>2. CASE s # timerEvt
    <3>1. ev_timer'.evt[s].period = ev_timer.evt[s].period
      BY <1>2, <2>2 DEF ReturnEffect, SameTimer
    <3> QED BY <1>3, <1>6, <2>2, <3>1 DEF TypeOK
  <2> QED BY <2>1, <2>2
<1> QED BY <1>1, <1>2, <1>6, <1>7, ReturnKeepsInv

LEMMA EndPassKeepsInv ==
  ASSUME TInv, PInv, EndPass
  PROVE  TInv' /\ PInv'
<1>1. /\ pc = "scan" /\ timerEvt = NULL /\ pc' = "passed" /\ prev_head' = NULL
      /\ ev_timer' = NearestUpdate(ev_timer)
      /\ UNCHANGED <<timerEvt, handle, lag, remSysTick, waited>>
  BY DEF EndPass
<1>2. TypeOK /\ Sound(ev_timer) /\ WalkIsSafe
  BY DEF TInv
<1>3. /\ Sound(ev_timer') /\ NearestOK(ev_timer') /\ ev_timer'.evt = ev_timer.evt
  BY <1>1, <1>2, NearestUpdated
<1>4. TypeOK' /\ WalkIsSafe' /\ UsedSlots' = UsedSlots
  BY <1>1, <1>2, <1>3 DEF TypeOK, WalkIsSafe, UsedSlots, Sound
<1>5. NothingDueIsLeft'
  <2> SUFFICES ASSUME NEW s \in UsedSlots, ~(ev_timer.evt[s].timeout > 0)
               PROVE  FALSE
    BY <1>3, <1>4 DEF NothingDueIsLeft
  <2>1. ev_timer.evt[s].timeout \in Nat
    BY <1>2, TypedTimers DEF UsedSlots, Event
  <2>2. ev_timer.evt[s].timeout = 0
    BY <2>1
  <2>3. s \in From(ev_timer, NULL)
    BY <1>1, <2>2 DEF PInv, DueIsAhead
  <2> QED BY <1>2, <2>3, FromIsPath, PathOfNull DEF Sound
<1>6. DueIsAhead' /\ NearestIsFirst'
  BY <1>1, <1>3, UsedIsUsedSlots DEF DueIsAhead, NearestIsFirst, NearestOK
<1> QED BY <1>3, <1>4, <1>5, <1>6 DEF TInv, PInv

LEMMA NextTurnKeepsInv ==
  ASSUME TInv, PInv, NextTurn
  PROVE  TInv' /\ PInv'
<1>1. /\ pc = "passed" /\ pc' = "loop"
      /\ UNCHANGED <<ev_timer, timerEvt, prev_head, handle, lag, remSysTick, waited>>
  BY DEF NextTurn
<1>2. TypeOK' /\ WalkIsSafe' /\ Sound(ev_timer')
  BY <1>1 DEF TInv, TypeOK, WalkIsSafe, UsedSlots
<1> QED BY <1>1, <1>2 DEF TInv, PInv, DueIsAhead, NothingDueIsLeft, NearestIsFirst

LEMMA SleepKeepsInv ==
  ASSUME TInv, PInv, NEW s \in WakeTimers, NEW ms \in AllTimeouts, Sleep(s, ms)
  PROVE  TInv' /\ PInv'
<1>1. /\ pc = "passed" /\ pc' = "loop" /\ lag' = 0
      /\ waited' = Waited(ms * TICKS)
      /\ ev_timer' = Update(ev_timer, ms, waited')
      /\ UNCHANGED <<timerEvt, prev_head, handle, remSysTick>>
  BY DEF Sleep
<1>2. TypeOK /\ Sound(ev_timer) /\ WalkIsSafe /\ ms \in Nat /\ ms * TICKS \in Nat
  BY Products, EvConstantsOK DEF TInv, EvConstantsOK, AllTimeouts, Range
<1>3. /\ waited' \in [Slots -> Nat]
      /\ \A q \in Slots : waited'[q] <= ev_timer.evt[q].period * TICKS
  BY <1>1, <1>2, WaitedType
<1>4. /\ Sound(ev_timer') /\ Used(ev_timer') = Used(ev_timer)
      /\ \A q \in Slots : /\ ev_timer'.evt[q].isBusy = ev_timer.evt[q].isBusy
                          /\ ev_timer'.evt[q].period = ev_timer.evt[q].period
  BY <1>1, <1>2, <1>3, Updated
<1>5. TypeOK'
  <2>1. 0 \in 0..MaxLag
    BY EvConstantsOK DEF EvConstantsOK
  <2> QED BY <1>1, <1>2, <1>3, <1>4, <2>1 DEF TypeOK, Sound
<1>6. WalkIsSafe'
  BY <1>1, <1>2, <1>4, UsedIsUsedSlots DEF WalkIsSafe, UsedSlots
<1> QED BY <1>1, <1>4, <1>5, <1>6 DEF TInv, PInv, DueIsAhead, NothingDueIsLeft, NearestIsFirst

LEMMA StutterKeepsInv ==
  ASSUME TInv, PInv, UNCHANGED vars
  PROVE  TInv' /\ PInv'
<1>1. TypeOK' /\ WalkIsSafe' /\ Sound(ev_timer')
  BY DEF TInv, TypeOK, WalkIsSafe, UsedSlots, vars
<1> QED BY <1>1 DEF TInv, PInv, DueIsAhead, NothingDueIsLeft, NearestIsFirst, UsedSlots, vars

LEMMA StepKeepsInv ==
  ASSUME TInv, PInv, [Next]_vars
  PROVE  TInv' /\ PInv'
<1>1. ASSUME NEW c \in Clients, CancelTimer(c)
      PROVE  TInv' /\ PInv'
  <2>1. MayCall
    BY <1>1 DEF CancelTimer
  <2> QED BY <1>1, <2>1, CancelEffect, CallKeepsInv
<1>2. ASSUME NEW c \in Clients, NEW ms \in Timeouts[c], ScheduleTimer(c, ms)
      PROVE  TInv' /\ PInv'
  <2>1. MayCall
    BY <1>2 DEF ScheduleTimer
  <2> QED BY <1>2, <2>1, ScheduleEffect, CallKeepsInv
<1>3. ASSUME NEW c \in Clients, Exhausted(c)
      PROVE  TInv' /\ PInv'
  BY <1>3, ResetKeepsInv
<1>4. CASE Tick
  BY <1>4, TickKeepsInv
<1>5. CASE Process
  BY <1>5, ProcessKeepsInv
<1>6. CASE Skip
  BY <1>6, SkipKeepsInv
<1>7. CASE Execute
  BY <1>7, ExecuteKeepsInv
<1>8. CASE ReturnEnd
  BY <1>8, ReturnEndKeepsInv
<1>9. ASSUME NEW p \in AllTimeouts, ReturnAgain(p)
      PROVE  TInv' /\ PInv'
  BY <1>9, ReturnAgainKeepsInv
<1>10. CASE EndPass
  BY <1>10, EndPassKeepsInv
<1>11. CASE NextTurn
  BY <1>11, NextTurnKeepsInv
<1>12. ASSUME NEW s \in WakeTimers, NEW ms \in AllTimeouts, Sleep(s, ms)
       PROVE  TInv' /\ PInv'
  BY <1>12, SleepKeepsInv
<1>13. CASE UNCHANGED vars
  BY <1>13, StutterKeepsInv
<1> QED BY <1>1, <1>2, <1>3, <1>4, <1>5, <1>6, <1>7, <1>8, <1>9, <1>10, <1>11, <1>12, <1>13
        DEF Next

LEMMA InvHolds == Spec => [](TInv /\ PInv)
<1>1. Init => TInv /\ PInv
  BY InitInv
<1>2. (TInv /\ PInv) /\ [Next]_vars => (TInv /\ PInv)'
  BY StepKeepsInv
<1> QED BY <1>1, <1>2, PTL DEF Spec

-----------------------------------------------------------------------------
(* The types hold for any number of events, clients and timeouts: no count  *)
(* of ev_timer_update runs below zero, no timer has waited longer than it   *)
(* has to.                                                                  *)
THEOREM TypeCorrect == Spec => []TypeOK
<1>1. TInv => TypeOK
  BY DEF TInv
<1> QED BY <1>1, InvHolds, PTL

(* However the list is changed, by the loop or by callbacks under its walk, *)
(* it holds just the events that are in use, and used_num counts them.      *)
THEOREM PoolStaysConsistent == Spec => []PoolIsConsistent
<1>1. TInv => PoolIsConsistent
  BY ListedIsUsed, UsedIsUsedSlots DEF TInv, PoolIsConsistent, Sound
<1> QED BY <1>1, InvHolds, PTL

(* The walk of ev_timer_executeCB never stands on an event that a callback  *)
(* freed or gave to another client.                                         *)
THEOREM WalkStaysSafe == Spec => []WalkIsSafe
<1>1. TInv => WalkIsSafe
  BY DEF TInv
<1> QED BY <1>1, InvHolds, PTL

(* Until the device sleeps, timer_nearest is the timer due first: the one   *)
(* found when the pass ended, or by a call that came after it.              *)
THEOREM NearestStaysFirst == Spec => []NearestIsFirst
<1>1. PInv => NearestIsFirst
  BY DEF PInv
<1> QED BY <1>1, InvHolds, PTL

(* When a pass of ev_timer_executeCB is over, no timer is left due, though  *)
(* callbacks add and take out timers under its walk.                        *)
THEOREM NothingDueStaysLeft == Spec => []NothingDueIsLeft
<1>1. PInv => NothingDueIsLeft
  BY DEF PInv
<1> QED BY <1>1, InvHolds, PTL

-----------------------------------------------------------------------------
(***************************************************************************)
(* Handles.  The timers a call touches are T: a free event, or the one the  *)
(* client's handle names.  A step that is no call, no reset and does not    *)
(* end a timer leaves every handle as good as it was.                       *)
(***************************************************************************)
LEMMA CallKeepsOwn ==
  ASSUME NEW c \in Clients, NEW T, CallEffect(c, T), HandleIsOwn(c)
  PROVE  HandleIsOwn(c)'
<1>1. CASE handle'[c] = NULL
  BY <1>1 DEF HandleIsOwn
<1>2. ASSUME handle'[c] = handle[c], T = {}, handle'[c] # NULL
      PROVE  HandleIsOwn(c)'
  <2>1. handle[c] \in Slots \ T
    BY <1>2 DEF CallEffect
  <2> QED BY <1>2, <2>1 DEF CallEffect, SameTimer, HandleIsOwn
<1>3. CASE \E ms \in Timeouts[c] : IsNew(ev_timer'.evt[handle'[c]], c, ms)
  BY <1>3 DEF IsNew, HandleIsOwn
<1> QED BY <1>1, <1>2, <1>3 DEF CallEffect

LEMMA CallKeepsOthers ==
  ASSUME TInv, NEW c \in Clients, NEW T, CallEffect(c, T), NEW d \in Clients \ {c}
  PROVE  /\ HandleIsOwn(d)' => HandleIsOwn(d)
         /\ HandleIsOwn(d) => HandleIsOwn(d)' \/ (~HandleIsOwn(c) /\ handle[c] = handle[d])
<1> DEFINE h == handle[d]
<1>1. handle'[d] = h /\ h \in Slots \cup {NULL}
  BY DEF CallEffect, TInv, TypeOK
<1>2. CASE h = NULL
  BY <1>1, <1>2 DEF HandleIsOwn
<1>3. ASSUME h # NULL, h \notin T
      PROVE  HandleIsOwn(d)' <=> HandleIsOwn(d)
  <2>1. SameTimer(ev_timer'.evt[h], ev_timer.evt[h])
    BY <1>1, <1>3 DEF CallEffect
  <2> QED BY <1>1, <2>1 DEF SameTimer, HandleIsOwn
<1>4. ASSUME h # NULL, h \in T
      PROVE  /\ ~HandleIsOwn(d)'
             /\ HandleIsOwn(d) => ~HandleIsOwn(c) /\ handle[c] = h
  <2>1. h \in Slots /\ (h \in UsedSlots => h = handle[c])
    BY <1>1, <1>4 DEF CallEffect
  <2>2. ev_timer'.evt[h] = Unused \/ \E ms \in Timeouts[c] : IsNew(ev_timer'.evt[h], c, ms)
    BY <1>4 DEF CallEffect
  <2>3. ~(ev_timer'.evt[h].used /\ ev_timer'.evt[h].cb = d)
    BY <2>2 DEF Unused, IsNew
  <2>4. ~HandleIsOwn(d)'
    BY <1>1, <1>4, <2>3 DEF HandleIsOwn
  <2>5. ASSUME HandleIsOwn(d) PROVE ~HandleIsOwn(c) /\ handle[c] = h
    <3>1. ev_timer.evt[h].used /\ ev_timer.evt[h].cb = d
      BY <1>4, <2>5 DEF HandleIsOwn
    <3>2. handle[c] = h
      BY <2>1, <3>1 DEF UsedSlots
    <3> QED BY <1>4, <3>1, <3>2 DEF HandleIsOwn
  <2> QED BY <2>4, <2>5
<1> QED BY <1>2, <1>3, <1>4

LEMMA ReturnEndHandles ==
  ASSUME TInv, ReturnEnd, NEW d \in Clients
  PROVE  /\ d # Client => (HandleIsOwn(d)' <=> HandleIsOwn(d))
         /\ d = Client /\ d \in Forgetful => (HandleIsOwn(d)' => HandleIsOwn(d))
         /\ d = Client /\ d \notin Forgetful => HandleIsOwn(d)'
<1> DEFINE h == handle[d]
<1>1. ReturnEffect /\ ev_timer'.evt[timerEvt] = Unused
  BY ReturnEndEffect
<1>2. /\ handle \in [Clients -> Slots \cup {NULL}]
      /\ handle' = IF Client \in Forgetful THEN handle ELSE [handle EXCEPT ![Client] = NULL]
  BY DEF ReturnEnd, TInv, TypeOK
<1>3. ev_timer.evt[timerEvt].used
  BY DEF ReturnEnd, TInv, WalkIsSafe, UsedSlots
<1>4. ASSUME h # timerEvt, handle'[d] = h
      PROVE  HandleIsOwn(d)' <=> HandleIsOwn(d)
  <2>1. CASE h = NULL
    BY <1>4, <2>1 DEF HandleIsOwn
  <2>2. CASE h # NULL
    <3>1. SameTimer(ev_timer'.evt[h], ev_timer.evt[h])
      BY <1>1, <1>2, <1>4, <2>2 DEF ReturnEffect
    <3> QED BY <1>4, <3>1 DEF SameTimer, HandleIsOwn
  <2> QED BY <2>1, <2>2
<1>5. CASE d # Client
  <2>1. handle'[d] = h
    BY <1>2, <1>5
  <2>2. ASSUME h = timerEvt, h # NULL
        PROVE  ~HandleIsOwn(d)' /\ ~HandleIsOwn(d)
    BY <1>1, <1>5, <2>1, <2>2 DEF HandleIsOwn, Client, Unused
  <2>3. ASSUME h = NULL PROVE HandleIsOwn(d)' /\ HandleIsOwn(d)
    BY <2>1, <2>3 DEF HandleIsOwn
  <2> QED BY <1>4, <1>5, <2>1, <2>2, <2>3
<1>6. CASE d = Client /\ d \in Forgetful
  <2>1. handle'[d] = h
    BY <1>2, <1>6
  <2>2. ASSUME h = timerEvt PROVE HandleIsOwn(d)
    BY <1>3, <1>6, <2>2 DEF HandleIsOwn, Client
  <2> QED BY <1>4, <1>6, <2>1, <2>2
<1>7. CASE d = Client /\ d \notin Forgetful
  <2>1. handle'[d] = NULL
    BY <1>2, <1>7
  <2> QED BY <1>7, <2>1 DEF HandleIsOwn
<1> QED BY <1>5, <1>6, <1>7

Rest ==
  \/ Tick \/ Process \/ Skip \/ Execute \/ EndPass \/ NextTurn \/ UNCHANGED vars
  \/ \E p \in AllTimeouts : ReturnAgain(p)
  \/ \E s \in WakeTimers, ms \in AllTimeouts : Sleep(s, ms)
LEMMA RestKeepsHandles ==
  ASSUME TInv, PInv, Rest, NEW d \in Clients
  PROVE  HandleIsOwn(d)' <=> HandleIsOwn(d)
<1>0. handle[d] \in Slots \cup {NULL}
  BY DEF TInv, TypeOK
<1>3. ASSUME handle' = handle,
             \A s \in Slots : /\ ev_timer'.evt[s].used = ev_timer.evt[s].used
                              /\ ev_timer'.evt[s].cb = ev_timer.evt[s].cb
      PROVE  HandleIsOwn(d)' <=> HandleIsOwn(d)
  BY <1>0, <1>3 DEF HandleIsOwn
<1>4. CASE Process
  <2>1. waited \in [Slots -> Nat] /\ Sound(ev_timer)
    BY DEF TInv, TypeOK
  <2>2. (lag \div TICKS) + ((remSysTick + (lag % TICKS)) \div TICKS) \in Nat
    BY ProcessMs DEF TInv
  <2> QED BY <1>3, <1>4, <2>1, <2>2, Updated DEF Process
<1>5. CASE Execute
  <2>1. timerEvt \in Slots /\ ev_timer \in Table
    BY <1>5 DEF Execute, TInv, TypeOK
  <2>2. \A s \in Slots : /\ ev_timer'.evt[s].used = ev_timer.evt[s].used
                         /\ ev_timer'.evt[s].cb = ev_timer.evt[s].cb
    BY <1>5, <2>1 DEF Execute, Table, Event
  <2> QED BY <1>3, <1>5, <2>2 DEF Execute
<1>7. ASSUME NEW p \in AllTimeouts, ReturnAgain(p)
      PROVE  HandleIsOwn(d)' <=> HandleIsOwn(d)
  <2>1. /\ ReturnEffect /\ UsedSlots' = UsedSlots
        /\ ev_timer'.evt[timerEvt].cb = ev_timer.evt[timerEvt].cb
    BY <1>7, ReturnAgainEffect
  <2>2. \A s \in Slots : ev_timer'.evt[s].cb = ev_timer.evt[s].cb
    BY <2>1 DEF ReturnEffect, SameTimer
  <2>3. \A s \in Slots : ev_timer'.evt[s].used <=> ev_timer.evt[s].used
    BY <2>1 DEF UsedSlots
  <2>4. handle' = handle
    BY <1>7 DEF ReturnAgain
  <2> QED BY <1>0, <2>2, <2>3, <2>4 DEF HandleIsOwn
<1>8. CASE EndPass
  <2>1. ev_timer'.evt = ev_timer.evt
    BY <1>8, NearestUpdated DEF TInv, EndPass
  <2> QED BY <1>3, <1>8, <2>1 DEF EndPass
<1>9. ASSUME NEW s \in WakeTimers, NEW ms \in AllTimeouts, Sleep(s, ms)
      PROVE  HandleIsOwn(d)' <=> HandleIsOwn(d)
  <2>1. ms \in Nat /\ ms * TICKS \in Nat
    BY Products, EvConstantsOK DEF EvConstantsOK, AllTimeouts, Range
  <2>2. waited' \in [Slots -> Nat] /\ ev_timer' = Update(ev_timer, ms, waited') /\ handle' = handle
    BY <1>9, <2>1, WaitedType DEF Sleep, TInv
  <2> QED BY <1>3, <2>1, <2>2, Updated DEF TInv
<1>10. CASE Tick \/ Skip \/ NextTurn \/ UNCHANGED vars
  BY <1>3, <1>10 DEF Tick, Skip, NextTurn, vars
<1> QED BY <1>4, <1>5, <1>7, <1>8, <1>9, <1>10 DEF Rest

LEMMA StepIs ==
  [Next]_vars <=> (\E c \in Clients : Calls(c) \/ Exhausted(c)) \/ ReturnEnd \/ Rest
BY DEF Next, Calls, Rest

LEMMA CallIs ==
  ASSUME TInv, PInv, NEW c \in Clients, Calls(c)
  PROVE  \E T : CallEffect(c, T)
BY CancelEffect, ScheduleEffect DEF Calls

(* Whichever callbacks forget their handle, a handle that names a timer of  *)
(* its client is lost only when such a callback ends that very timer, or    *)
(* by a cancel through a handle lost before (ev_timer_taskCancel).  So in   *)
(* particular no handle is ever lost when no client forgets.                *)
THEOREM HandlesStayOwn == Spec => OnlyForgettersLoseHandles
<1>1. ASSUME TInv, PInv, [Next]_vars
      PROVE  [\A c \in Clients : HandleIsOwn(c) => HandleIsOwn(c)' \/ LosesHandle(c)]_vars
  <2> SUFFICES ASSUME NEW c \in Clients, HandleIsOwn(c), ~HandleIsOwn(c)'
               PROVE  LosesHandle(c)
    OBVIOUS
  <2>1. ASSUME NEW d \in Clients, Calls(d)
        PROVE  LosesHandle(c)
    <3>1. PICK T : CallEffect(d, T)
      BY <2>1, CallIs, <1>1
    <3>2. d # c
      BY <3>1, CallKeepsOwn
    <3>3. ~HandleIsOwn(d) /\ handle[d] = handle[c]
      BY <3>1, <3>2, CallKeepsOthers, <1>1
    <3> QED BY <2>1, <3>2, <3>3 DEF LosesHandle
  <2>2. ASSUME NEW d \in Clients, Exhausted(d)
        PROVE  LosesHandle(c)
    BY <2>2 DEF Exhausted, HandleIsOwn
  <2>3. CASE ReturnEnd
    BY <2>3, ReturnEndHandles, <1>1 DEF LosesHandle
  <2>4. CASE Rest
    BY <2>4, RestKeepsHandles, <1>1
  <2> QED BY <2>1, <2>2, <2>3, <2>4, StepIs, <1>1
<1> QED BY <1>1, InvHolds, PTL DEF Spec, OnlyForgettersLoseHandles
=============================================================================
