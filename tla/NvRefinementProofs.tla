-------------------------- MODULE NvRefinementProofs --------------------------
(***************************************************************************)
(* The item store implements NvMap.  The invariant RInv of NvStoreProofs   *)
(* says, as long as no write was refused, what each flash operation has    *)
(* reached: appending in place, or copying to the other sector.  One lemma *)
(* per action shows that it keeps RInv and leaves what is found unchanged, *)
(* or makes the update of the call take effect.                            *)
(***************************************************************************)
EXTENDS NvStoreProofs

USE NvConstantsOK DEF NvConstantsOK

(* What is found, as a function of the flags and the tables.                *)
AliveIn(F, s) == F[s] \in {"ready", "valid"}
FoundIn(F) == \E s \in Sectors : AliveIn(F, s)
CurrentIn(F) == IF AliveIn(F, 0) THEN 0 ELSE 1
View(F, I) == [i \in Items |-> IF FoundIn(F) THEN Value(I[CurrentIn(F)], i) ELSE Absent]

LEMMA Views ==
  /\ Stored = View(usedFlag, index) /\ Stored' = View(usedFlag', index')
  /\ Found = FoundIn(usedFlag) /\ Found' = FoundIn(usedFlag')
  /\ Current = CurrentIn(usedFlag) /\ Current' = CurrentIn(usedFlag')
  /\ \A s : Alive(s) = AliveIn(usedFlag, s) /\ Alive(s)' = AliveIn(usedFlag', s)
  BY DEF Stored, View, Found, FoundIn, Current, CurrentIn, Alive, AliveIn

LEMMA ViewOf ==
  ASSUME NEW F, NEW I, NEW s \in Sectors, AliveIn(F, s), s = 0 \/ ~AliveIn(F, Other(s))
  PROVE  FoundIn(F) /\ CurrentIn(F) = s /\ View(F, I) = [i \in Items |-> Value(I[s], i)]
<1>1. FoundIn(F)
  BY DEF FoundIn
<1>2. CurrentIn(F) = s
  BY DEF CurrentIn, Sectors, Other
<1> QED BY <1>1, <1>2 DEF View

LEMMA ViewSame ==
  ASSUME NEW F, NEW I, NEW J,
         FoundIn(F) => \A i \in Items : Value(J[CurrentIn(F)], i) = Value(I[CurrentIn(F)], i)
  PROVE  View(F, J) = View(F, I)
  BY DEF View

LEMMA Types ==
  ASSUME SInv
  PROVE  /\ usedFlag \in [Sectors -> SectorStates] /\ index \in [Sectors -> Tables]
         /\ op \in Ops /\ pc \in Steps
         /\ Here \in Sectors /\ There \in Sectors /\ Here # There
         /\ Other(Here) = There /\ Other(There) = Here
         /\ \A s \in Sectors : s = Here \/ s = There
         /\ op.wItemIdx \in Slots \cup {0} /\ op.src \in Slots \cup {0}
         /\ op.deleteIdx \in Slots \cup {0}
         /\ op.sectorUpdate \in BOOLEAN
         /\ index[Here] \in Tables /\ index[There] \in Tables
         /\ Sound(index[Here]) /\ Sound(index[There])
<1>1. /\ usedFlag \in [Sectors -> SectorStates] /\ index \in [Sectors -> Tables]
      /\ op \in Ops /\ pc \in Steps
  BY DEF SInv, TypeOK, Tables
<1>2. /\ Here \in Sectors /\ op.sectorUpdate \in BOOLEAN
      /\ op.wItemIdx \in Slots \cup {0} /\ op.src \in Slots \cup {0}
      /\ op.deleteIdx \in Slots \cup {0}
  BY <1>1 DEF Ops, Here
<1>3. /\ There \in Sectors /\ Here # There /\ Other(Here) = There /\ Other(There) = Here
      /\ \A s \in Sectors : s = Here \/ s = There
  BY <1>2 DEF Here, There, Sectors, Other
<1>4. \A s \in Sectors : Sound(index[s])
  BY DEF SInv
<1> QED BY <1>1, <1>2, <1>3, <1>4

(* nv_sector_read, at the start of a call.                                  *)
LEMMA ReadSectorRefines ==
  ASSUME SInv, NEW o \in Ops, ReadSector(o), o.call \in {"read", "write"},
         o.wItemIdx = 0, o.src = 0, o.deleteIdx = 0, ~o.sectorUpdate, ~o.forceChgSec
  PROVE  RInv' /\ Stored' = Stored
<1>1. UNCHANGED <<usedFlag, index>>
  BY DEF ReadSector, Flash
<1>2. Stored' = Stored /\ Found' = Found /\ Current' = Current
  BY <1>1, Views
<1>3. Current \in Sectors /\ (Found => Alive(Current))
  BY DEF Current, Found, Alive, Sectors
<1>4. op'.opSect = (IF Found THEN Current ELSE 0) /\ op'.src = 0 /\ op'.wItemIdx = 0
      /\ ~op'.sectorUpdate /\ ~op'.forceChgSec
  BY <1>3 DEF ReadSector, Ops, Sectors
<1>5. CASE Found /\ usedFlag[Current] = "ready"
  <2>1. pc' = "invalidate"
    BY <1>5 DEF ReadSector
  <2> QED BY <2>1, <1>1, <1>2, <1>4, <1>5 DEF RInv, InPlace, InUpdate, Here, Writing
<1>6. CASE Found /\ usedFlag[Current] # "ready"
  <2>1. pc' \in {"place", "lookup"} /\ usedFlag[Current] = "valid"
    BY <1>6, <1>3 DEF ReadSector, Alive
  <2> QED BY <2>1, <1>1, <1>2, <1>4, <1>6 DEF RInv, InPlace, InUpdate, Here, Writing
<1>7. CASE ~Found
  <2>1. pc' \in {"erase", "lookup"}
    BY <1>7 DEF ReadSector
  <2> QED BY <2>1, <1>1, <1>2, <1>4, <1>7 DEF RInv, InPlace, InUpdate, Here, Writing
<1> QED BY <1>2, <1>5, <1>6, <1>7

(* The call is over.                                                        *)
LEMMA IdleRefines ==
  ASSUME pc' = "idle", op' = NoOp
  PROVE  RInv'
<1>1. op'.src = 0 /\ op'.sectorUpdate = FALSE /\ op'.forceChgSec = FALSE
  BY DEF NoOp
<1> QED BY <1>1 DEF RInv, InPlace, InUpdate, Writing

LEMMA EraseRefines ==
  ASSUME SInv, RInv, Erase
  PROVE  RInv' /\ Stored' = Stored
<1>1. /\ pc = "erase" /\ AfterErase
      /\ usedFlag' = [usedFlag EXCEPT ![Here] = "idle"]
      /\ index' = [index EXCEPT ![Here] = Erased]
  BY DEF Erase, Here
<1>2. /\ usedFlag'[Here] = "idle" /\ usedFlag'[There] = usedFlag[There]
      /\ index'[Here] = Erased /\ index'[There] = index[There]
  BY <1>1, Types
<1>3. op.wItemIdx = 0 /\ op.src = 0
  BY <1>1 DEF SInv, CountersOK
<1>4. /\ op'.opSect = Here /\ op'.item = op.item /\ op'.wItemIdx = 0
      /\ op'.sectorUpdate = op.sectorUpdate /\ op'.forceChgSec = op.forceChgSec
      /\ op'.src = (IF pc' = "dedup" THEN MODULE_IDX_NUM ELSE 0)
  <2> DEFINE n == IF pc' = "dedup" THEN MODULE_IDX_NUM ELSE 0
  <2>1. op' = [op EXCEPT !.src = n] /\ op \in Ops
    BY <1>1, Types DEF AfterErase
  <2> HIDE DEF n
  <2>2. /\ op'.opSect = op.opSect /\ op'.item = op.item /\ op'.wItemIdx = op.wItemIdx
        /\ op'.sectorUpdate = op.sectorUpdate /\ op'.forceChgSec = op.forceChgSec
        /\ op'.src = n
    BY <2>1 DEF Ops
  <2> QED BY <2>2, <1>3 DEF Here, n
<1>5. Here' = Here /\ There' = There
  BY <1>4 DEF Here, There
<1>6. CASE ~op.sectorUpdate
  <2>1. ~Found /\ Here = 0 /\ pc' = "place"
    BY <1>1, <1>6 DEF RInv, InPlace, AfterErase
  <2>2. ~Alive(There) /\ There = 1
    BY <2>1, Types DEF Found, There, Other
  <2>3. ~Found'
    BY <1>2, <2>1, <2>2, Types, Views DEF FoundIn, AliveIn, Alive
  <2>4. Stored' = Stored
    BY <2>1, <2>3 DEF Stored
  <2>5. InPlace'
    BY <1>2, <1>4, <1>5, <1>6, <2>1, <2>3 DEF InPlace, Writing
  <2> QED BY <2>1, <2>4, <2>5, <1>4, <1>6 DEF RInv, InUpdate
<1>7. CASE op.sectorUpdate
  <2>1. usedFlag[There] = "valid" /\ There = Current /\ pc' \in {"dedup", "copy"}
    BY <1>1, <1>7 DEF RInv, InUpdate, AfterErase
  <2>2. Alive(There) /\ AliveIn(usedFlag', There) /\ ~AliveIn(usedFlag', Here)
    BY <1>2, <2>1 DEF Alive, AliveIn
  <2>3. FoundIn(usedFlag') /\ CurrentIn(usedFlag') = There
    BY <2>2, Types, ViewOf
  <2>4. Stored' = Stored
    <3>1. FoundIn(usedFlag) /\ CurrentIn(usedFlag) = There
      BY <2>1, <2>2, Views, Types DEF Found
    <3> QED BY <3>1, <2>3, <1>2, Views DEF View
  <2>5. \A k \in Slots : index'[Here][k].state = "idle" /\ ~(k <= 0)
    BY <1>2, DeadEntries DEF Erased, Slots
  <2>6. ASSUME NEW i PROVE Value(index'[Here], i) = Absent /\ Value(Prefix(index'[There], 0), i) = Absent
    BY <1>2, ErasedEmpty, PrefixZero, Types
  <2>7. pc' = "copy" => CopiedUpTo(op.src)'
    BY <2>6, <1>4, <1>5 DEF CopiedUpTo
  <2>8. InUpdate'
    <3>1. Current' = There
      BY <2>3, Views
    <3> QED BY <1>2, <1>4, <1>5, <1>7, <2>1, <2>5, <2>7, <3>1 DEF InUpdate, Writing
  <2> QED BY <2>1, <2>4, <2>8, <1>4, <1>7 DEF RInv, InPlace
<1> QED BY <1>6, <1>7, Types

LEMMA AppendRefines ==
  ASSUME SInv, RInv, AppendEntry
  PROVE  RInv' /\ Stored' = Stored
<1> DEFINE e == index[Here]
           t == Top(e)
           d == Newest(e, op.item)
<1>1. /\ pc = "place" /\ pc' = "index" /\ UNCHANGED <<usedFlag, index>>
      /\ t < MODULE_IDX_NUM /\ (t > 0 => e[t].state # "torn")
      /\ op' = [op EXCEPT !.wItemIdx = t + 1, !.deleteIdx = d]
  BY DEF AppendEntry, Here
<1>2. ~op.sectorUpdate
  BY <1>1, Types DEF RInv, InUpdate
<1>3. /\ op'.opSect = Here /\ op'.item = op.item /\ op'.wItemIdx = t + 1 /\ op'.deleteIdx = d
      /\ op'.sectorUpdate = op.sectorUpdate /\ op'.forceChgSec = op.forceChgSec
      /\ op'.src = op.src
  BY <1>1, Types DEF Ops, Here
<1>4. Here' = Here /\ Stored' = Stored /\ Found' = Found /\ Current' = Current
  BY <1>1, <1>3, Views DEF Here
<1>5. e \in Tables /\ Sound(e) /\ t \in Slots \cup {0} /\ d \in Slots \cup {0}
  BY Types, TopIsLast, NewestIsValid
<1>6. /\ t # 0 => e[t].state # "idle"
      /\ \A k \in Slots : k > t => e[k].state = "idle"
      /\ d # 0 => e[d].state = "valid" /\ e[d].item = op.item
  BY <1>5, TopIsLast, NewestIsValid
<1> HIDE DEF t, d
<1>7. t + 1 \in Slots /\ \A k \in Slots : k >= t + 1 => k > t
  BY <1>1, <1>5 DEF Slots
<1>8. \A k \in Slots : k >= t + 1 => e[k].state = "idle"
  BY <1>6, <1>7
<1>9. d # 0 => d < t + 1
  <2> SUFFICES ASSUME d # 0, ~(d < t + 1) PROVE FALSE
    OBVIOUS
  <2>1. d \in Slots /\ d >= t + 1
    BY <1>5, <1>7 DEF Slots
  <2> QED BY <2>1, <1>6, <1>8
<1>10. ~Found => t = 0
  <2> SUFFICES ASSUME ~Found PROVE t = 0
    OBVIOUS
  <2>1. e = Erased
    BY <1>1, <1>2 DEF RInv, InPlace
  <2>2. t = 0 \/ Erased[t] = Blank
    BY <1>5 DEF Erased
  <2> QED BY <2>1, <2>2, <1>6, DeadEntries
<1>11. Writable'
  <2>1. t + 1 > 1 => e[(t + 1) - 1].state \notin {"idle", "torn"}
    <3>1. (t + 1) - 1 = t /\ (t + 1 > 1 => t > 0)
      BY <1>5 DEF Slots
    <3> QED BY <3>1, <1>1, <1>6
  <2>2. e[t + 1].state = "idle"
    <3>1. t + 1 >= t + 1
      BY <1>5 DEF Slots
    <3> QED BY <3>1, <1>7, <1>8
  <2> QED BY <2>1, <2>2, <1>1, <1>3 DEF Writable, Entry, Here
<1>12. IF Found THEN Here = Current /\ usedFlag[Here] = "valid"
                ELSE Here = 0 /\ usedFlag[0] = "idle"
  BY <1>1, <1>2 DEF RInv, InPlace
<1>13. op.src = 0
  BY <1>2 DEF RInv, InPlace
<1>14. InPlace'
  BY <1>1, <1>2, <1>3, <1>4, <1>6, <1>8, <1>9, <1>10, <1>12, <1>13 DEF InPlace, Writing
<1> QED BY <1>1, <1>2, <1>3, <1>4, <1>11, <1>14 DEF RInv, InUpdate

LEMMA ChangeRefines ==
  ASSUME SInv, RInv, ChangeSector
  PROVE  RInv' /\ Stored' = Stored
<1>1. /\ pc = "place" /\ pc' = "erase" /\ UNCHANGED <<usedFlag, index>>
      /\ Top(index[Here]) > 0
      /\ op' = [op EXCEPT !.sectorUpdate = TRUE, !.opSect = Other(op.opSect)]
  BY DEF ChangeSector, Here, RInv
<1>2. ~op.sectorUpdate
  BY <1>1, Types DEF RInv, InUpdate
<1>3. op'.opSect = There /\ op'.sectorUpdate = TRUE /\ op'.forceChgSec = op.forceChgSec
  BY <1>1, Types DEF Ops, There, Here
<1>4. Here' = There /\ There' = Here /\ Stored' = Stored /\ Current' = Current
  BY <1>1, <1>3, Views, Types DEF Here, There
<1>5. Found
  <2> SUFFICES ASSUME ~Found PROVE FALSE
    OBVIOUS
  <2>1. index[Here] = Erased
    BY <1>1, <1>2 DEF RInv, InPlace
  <2>2. Erased[Top(Erased)] = Blank
    BY <2>1, <1>1, Types, TopIsLast DEF Erased
  <2>3. Erased[Top(Erased)].state # "idle"
    BY <2>1, <1>1, Types, TopIsLast
  <2> QED BY <2>2, <2>3, DeadEntries
<1>6. Here = Current /\ usedFlag[Here] = "valid"
  BY <1>1, <1>2, <1>5 DEF RInv, InPlace
<1>7. InUpdate'
  BY <1>1, <1>3, <1>4, <1>6 DEF InUpdate, Writing
<1> QED BY <1>1, <1>3, <1>4, <1>7 DEF RInv, InPlace

LEMMA DedupRefines ==
  ASSUME SInv, RInv, Dedup, UNCHANGED refused, refused = 0
  PROVE  RInv' /\ Stored' = Stored
<1>1. /\ pc = "dedup" /\ pc' = (IF op.src = 1 THEN "copy" ELSE "dedup")
      /\ op' = [op EXCEPT !.src = op.src - 1]
      /\ op.src \in Slots /\ op.wItemIdx = 0
  BY Types DEF Dedup, SInv, CountersOK
<1>2. op.sectorUpdate
  BY <1>1, Types DEF RInv, InPlace
<1>3. /\ op'.opSect = Here /\ op'.sectorUpdate = TRUE /\ op'.item = op.item
      /\ op'.wItemIdx = 0 /\ op'.src = op.src - 1 /\ op'.forceChgSec = op.forceChgSec
  BY <1>1, <1>2, Types DEF Ops, Here
<1>4. Here' = Here /\ There' = There
  BY <1>3 DEF Here, There
<1>5. /\ usedFlag[There] = "valid" /\ There = Current /\ usedFlag[Here] = "idle"
      /\ index[Here] = Erased
  BY <1>1, <1>2 DEF RInv, InUpdate
<1>6. /\ usedFlag' = usedFlag /\ index'[Here] = index[Here]
      /\ \A i : Value(index'[There], i) = Value(index[There], i)
      /\ index'[There] \in Tables
  <2>1. CASE Stale(Old, op.src) /\ SetEntry(Other(op.opSect), op.src, Dead)
    <3>1. index' = [index EXCEPT ![There][op.src] = Dead] /\ usedFlag' = usedFlag
      BY <2>1 DEF SetEntry, There
    <3>2. /\ index'[There] = [index[There] EXCEPT ![op.src] = Dead]
          /\ index'[Here] = index[Here] /\ index' \in [Sectors -> Tables]
      BY <3>1, <1>1, Types, DeadEntries, SetEntryEffect
    <3>3. Stale(index[There], op.src)
      BY <2>1 DEF Old, There
    <3> QED BY ZenonT(60), <3>1, <3>2, <3>3, <1>1, Types, ValueStale
  <2>2. CASE UNCHANGED <<usedFlag, index>>
    BY <2>2, Types
  <2> QED BY <2>1, <2>2 DEF Dedup, Flash
<1>7. Stored' = Stored
  BY <1>5, <1>6, Views, ViewSame
<1>8. Current' = Current
  BY <1>6, Views
<1>9. pc' = "copy" => op'.src = 0
  BY <1>1, <1>3 DEF Slots
<1>10. \A k \in Slots : index'[Here][k].state = "idle" /\ ~(k <= 0)
  BY <1>5, <1>6, DeadEntries DEF Erased, Slots
<1>11. ASSUME NEW i PROVE Value(index'[Here], i) = Absent /\ Value(Prefix(index'[There], 0), i) = Absent
  BY <1>5, <1>6, ErasedEmpty, PrefixZero
<1>12. pc' = "copy" => CopiedUpTo(op.src)'
  BY <1>4, <1>9, <1>11 DEF CopiedUpTo
<1>13. InUpdate'
  BY <1>1, <1>3, <1>4, <1>5, <1>6, <1>8, <1>10, <1>12 DEF InUpdate, Writing
<1> QED BY <1>1, <1>3, <1>7, <1>13 DEF RInv, InPlace

(* The loop: what has been copied stays copied, and the entries it skips do *)
(* not count.                                                               *)
LEMMA CopyNextRefines ==
  ASSUME SInv, RInv, CopyNext
  PROVE  RInv' /\ Stored' = Stored
<1> DEFINE n == op.src
           m == op.wItemIdx
           x == index[There][n + 1]
           T == index[There]
           H == index[Here]
<1>1. /\ pc = "copy" /\ ~Ends /\ UNCHANGED <<usedFlag, index>>
      /\ pc' = (IF Copied(x) THEN "index" ELSE "copy")
      /\ op' = [op EXCEPT !.src = n + 1, !.wItemIdx = IF Copied(x) THEN m + 1 ELSE m]
  BY DEF CopyNext, Old, There
<1>2. op.sectorUpdate
  BY <1>1, Types DEF RInv, InPlace
<1>3. /\ op'.opSect = Here /\ op'.sectorUpdate = TRUE /\ op'.item = op.item
      /\ op'.wItemIdx = (IF Copied(x) THEN m + 1 ELSE m) /\ op'.src = n + 1
      /\ op'.forceChgSec = op.forceChgSec /\ op'.deleteIdx = op.deleteIdx
  BY <1>1, <1>2, Types DEF Ops, Here
<1>4. Here' = Here /\ There' = There
  BY <1>3 DEF Here, There
<1>5. Stored' = Stored /\ Current' = Current
  BY <1>1, Views
<1>6. /\ usedFlag[There] = "valid" /\ There = Current /\ usedFlag[Here] = "idle"
      /\ CopiedUpTo(n)
      /\ \A k \in Slots : H[k].state = IF k <= m THEN "valid" ELSE "idle"
  BY <1>1, <1>2 DEF RInv, InUpdate
<1>7. m <= n /\ op.deleteIdx = 0 /\ m \in Nat /\ n \in Nat
  BY <1>1, Types DEF SInv, CountersOK, Slots
<1>8. n + 1 \in Slots /\ x.state \notin {"idle", "torn"}
  BY <1>1, Types DEF Ends, There, Old, Slots
<1>9. x \in Entries /\ T \in Tables /\ H \in Tables
  BY <1>8, Types DEF Tables
<1>10. CASE Copied(x)
  <2>1. m + 1 \in Slots
    BY <1>7, <1>8 DEF Slots
  <2>2. \A k \in Slots : (k < m + 1 => k <= m) /\ (k > m + 1 => ~(k <= m)) /\ ~(m + 1 <= m)
    BY <1>7 DEF Slots
  <2>3. H[m + 1].state = "idle"
    BY <2>1, <2>2, <1>6
  <2>4. Writable'
    <3>1. m + 1 > 1 => H[(m + 1) - 1].state \notin {"idle", "torn"}
      <4>1. (m + 1) - 1 = m /\ (m + 1 > 1 => m \in Slots) /\ m <= m
        BY <1>7, <2>1 DEF Slots
      <4> QED BY <4>1, <1>6
    <3> QED BY <3>1, <2>3, <1>1, <1>3, <1>10 DEF Writable, Entry, Here
  <2>5. Copying' /\ (op.src - 1)' = n
    BY <1>3, <1>7 DEF Copying
  <2>6. CopiedUpTo(IF Copying THEN op.src - 1 ELSE MODULE_IDX_NUM)'
    BY <2>5, <1>1, <1>3, <1>4, <1>6 DEF CopiedUpTo
  <2>7. Old'[op'.src].item # op'.item
    BY <1>1, <1>3, <1>4, <1>10 DEF Old, There, Copied
  <2>8. pc' = "index" /\ op'.wItemIdx = m + 1
    BY <1>1, <1>3, <1>10
  <2>9. \A k \in Slots : /\ k < op'.wItemIdx => index'[Here'][k].state = "valid"
                         /\ k > op'.wItemIdx => index'[Here'][k].state = "idle"
    BY <2>2, <2>8, <1>1, <1>4, <1>6
  <2>10. index'[Here'][op'.wItemIdx].state # "valid"
    BY <2>3, <2>8, <1>1, <1>4
  <2>11. InUpdate'
    BY <2>6, <2>7, <2>8, <2>9, <2>10, <1>1, <1>3, <1>4, <1>5, <1>6, <1>7 DEF InUpdate, Writing
  <2> QED BY <2>4, <2>8, <2>11, <1>3, <1>5 DEF RInv, InPlace
<1>11. CASE ~Copied(x)
  <2>1. ASSUME NEW i \in Items, i # op.item
        PROVE  Value(Prefix(T, n + 1), i) = Value(Prefix(T, n), i)
    <3> DEFINE P == Prefix(T, n)
    <3>1. Prefix(T, n + 1) = [P EXCEPT ![n + 1] = x]
      BY <1>7, <1>8, <1>9, PrefixNext
    <3>2. P \in Tables /\ \A k \in Slots : k > n => P[k].state # "valid"
      BY <1>7, <1>9, PrefixTable
    <3>3. \A l \in Slots : l >= n + 1 => l > n
      BY <1>7 DEF Slots
    <3> HIDE DEF P
    <3>4. \A l \in Slots : l >= n + 1 => P[l].state # "valid"
      BY <3>2, <3>3
    <3>5. CASE x.state = "valid"
      <4>1. x.item # i
        BY <3>5, <1>8, <1>11, <2>1, Types DEF Copied, Sound
      <4> QED BY <4>1, <3>1, <3>2, <3>4, <3>5, <1>8, <1>9, ValueAppend DEF P
    <3>6. CASE x.state # "valid"
      <4>1. P[n + 1].state # "valid"
        BY <3>4, <1>7, <1>8 DEF Slots
      <4> QED BY <4>1, <3>1, <3>2, <3>6, <1>8, <1>9, ValueNotValid DEF P
    <3> QED BY <3>5, <3>6
  <2>2. pc' = "copy" /\ op'.wItemIdx = m
    BY <1>1, <1>3, <1>11
  <2>3. CopiedUpTo(op.src)'
    BY <2>1, <1>1, <1>3, <1>4, <1>6 DEF CopiedUpTo
  <2>4. InUpdate'
    BY <2>2, <2>3, <1>1, <1>3, <1>4, <1>5, <1>6 DEF InUpdate, Writing
  <2> QED BY <2>2, <2>4, <1>3, <1>5 DEF RInv, InPlace
<1> QED BY <1>10, <1>11

(* Behind the loop everything has been copied.                              *)
LEMMA CopyEndRefines ==
  ASSUME SInv, RInv, CopyEnd
  PROVE  RInv' /\ Stored' = Stored
<1> DEFINE n == op.src
           m == op.wItemIdx
           T == index[There]
           H == index[Here]
<1>1. pc = "copy" /\ Ends /\ (WriteNew \/ NoSpace) /\ UNCHANGED <<usedFlag, index>>
  BY DEF CopyEnd
<1>2. op.sectorUpdate
  BY <1>1, Types DEF RInv, InPlace
<1>3. /\ usedFlag[There] = "valid" /\ There = Current /\ usedFlag[Here] = "idle"
      /\ CopiedUpTo(n)
      /\ \A k \in Slots : H[k].state = IF k <= m THEN "valid" ELSE "idle"
  BY <1>1, <1>2 DEF RInv, InUpdate
<1>4. m \in Nat /\ n \in Nat /\ T \in Tables /\ H \in Tables
  BY Types DEF Slots
<1>5. Stored' = Stored /\ Current' = Current
  BY <1>1, Views
<1>6. CASE NoSpace
  <2>1. pc' = "fail" /\ op' = op
    BY <1>6 DEF NoSpace
  <2> QED BY <2>1, <1>2, <1>5 DEF RInv, InPlace, InUpdate, Writing
<1>7. CASE WriteNew
  <2>1. Newest(H, op.item) = 0
    <3>1. op.item \in Items
      BY <1>1 DEF SInv, CallOK
    <3>2. Value(H, op.item) = Absent
      BY <3>1, <1>3 DEF CopiedUpTo
    <3> QED BY <3>2, Types, AbsentHasNone
  <2>2. op' = [op EXCEPT !.src = 0, !.wItemIdx = m + 1, !.deleteIdx = Newest(H, op.item)]
        /\ pc' = "index" /\ m < MODULE_IDX_NUM
    BY <1>7 DEF WriteNew, Here
  <2>3. /\ op'.opSect = Here /\ op'.sectorUpdate = TRUE /\ op'.item = op.item
        /\ op'.wItemIdx = m + 1 /\ op'.src = 0
        /\ op'.forceChgSec = op.forceChgSec /\ op'.deleteIdx = 0
    BY <2>1, <2>2, <1>2, Types DEF Ops, Here
  <2>4. Here' = Here /\ There' = There
    BY <2>3 DEF Here, There
  <2>5. m + 1 \in Slots
    BY <2>2, <1>4 DEF Slots
  <2>6. \A k \in Slots : (k < m + 1 => k <= m) /\ (k > m + 1 => ~(k <= m)) /\ ~(m + 1 <= m)
    BY <1>4 DEF Slots
  <2>7. H[m + 1].state = "idle"
    BY <2>5, <2>6, <1>3
  <2>8. Writable'
    <3>1. m + 1 > 1 => H[(m + 1) - 1].state \notin {"idle", "torn"}
      <4>1. (m + 1) - 1 = m /\ (m + 1 > 1 => m \in Slots) /\ m <= m
        BY <1>4, <2>5 DEF Slots
      <4> QED BY <4>1, <1>3
    <3> QED BY <3>1, <2>3, <2>7, <1>1 DEF Writable, Entry, Here
  <2>9. ASSUME NEW i PROVE Value(Prefix(T, n), i) = Value(Prefix(T, MODULE_IDX_NUM), i)
    <3>1. CASE n = MODULE_IDX_NUM
      BY <3>1
    <3>2. CASE n # MODULE_IDX_NUM
      <4>1. n + 1 \in Slots /\ T[n + 1].state \in {"idle", "torn"}
        BY <3>2, <1>1, <1>3, Types DEF Ends, There, Old, Slots
      <4>2. \A k \in Slots : k > n + 1 => T[k].state = "idle"
        BY <4>1, Types, NothingBehind
      <4>3. \A k \in Slots : k > n => k = n + 1 \/ k > n + 1
        BY <1>4 DEF Slots
      <4>4. \A k \in Slots : k > n => T[k].state # "valid"
        BY <4>1, <4>2, <4>3
      <4>5. \A k \in Slots : ~(k > MODULE_IDX_NUM)
        BY DEF Slots
      <4>6. Value(Prefix(T, n), i) = Value(T, i)
        BY <4>4, <1>4, PrefixAll
      <4>7. Value(Prefix(T, MODULE_IDX_NUM), i) = Value(T, i)
        BY <4>5, <1>4, PrefixAll
      <4> QED BY <4>6, <4>7
    <3> QED BY <3>1, <3>2
  <2>10. CopiedUpTo(IF Copying THEN op.src - 1 ELSE MODULE_IDX_NUM)'
    <3>1. ~Copying'
      BY <2>3 DEF Copying
    <3> QED BY <3>1, <2>3, <2>4, <2>9, <1>1, <1>3 DEF CopiedUpTo
  <2>11. \A k \in Slots : /\ k < op'.wItemIdx => index'[Here'][k].state = "valid"
                          /\ k > op'.wItemIdx => index'[Here'][k].state = "idle"
    BY <2>3, <2>4, <2>6, <1>1, <1>3
  <2>12. index'[Here'][op'.wItemIdx].state # "valid" /\ ~Copying'
    BY <2>3, <2>4, <2>7, <1>1 DEF Copying
  <2>13. InUpdate'
    BY <2>2, <2>3, <2>4, <2>10, <2>11, <2>12, <1>1, <1>3, <1>5 DEF InUpdate, Writing
  <2> QED BY <2>2, <2>3, <2>8, <2>13, <1>5 DEF RInv, InPlace
<1> QED BY <1>1, <1>6, <1>7

(* The entry written is not valid before its state is set.                  *)
LEMMA WrittenNotValid ==
  ASSUME SInv, RInv, Writing
  PROVE  /\ op.wItemIdx \in Slots
         /\ index[Here][op.wItemIdx] \in Entries /\ index[Here][op.wItemIdx].state # "valid"
<1>1. op.wItemIdx \in Slots
  BY Types DEF SInv, CountersOK
<1>2. index[Here][op.wItemIdx] \in Entries
  BY <1>1, Types DEF Tables
<1>3. op.wItemIdx >= op.wItemIdx
  BY <1>1 DEF Slots
<1>4. index[Here][op.wItemIdx].state # "valid"
  BY <1>1, <1>3, Types DEF RInv, InPlace, InUpdate
<1> QED BY <1>1, <1>2, <1>4

(* Pieces of an entry that is not valid yet change nothing that is found.   *)
LEMMA PieceRefines ==
  ASSUME SInv, RInv, Writing, NEW x \in Entries, x.state # "valid",
         SetEntry(op.opSect, op.wItemIdx, x)
  PROVE  /\ usedFlag' = usedFlag
         /\ index'[Here] = [index[Here] EXCEPT ![op.wItemIdx] = x]
         /\ index'[There] = index[There]
         /\ \A i : Value(index'[Here], i) = Value(index[Here], i)
         /\ Stored' = Stored
<1>1. op.wItemIdx \in Slots /\ index[Here][op.wItemIdx].state # "valid"
  BY WrittenNotValid
<1>2. /\ usedFlag' = usedFlag /\ index' = [index EXCEPT ![Here][op.wItemIdx] = x]
  BY DEF SetEntry, Here
<1>3. /\ index'[Here] = [index[Here] EXCEPT ![op.wItemIdx] = x]
      /\ index'[There] = index[There]
  BY <1>1, <1>2, Types, SetEntryEffect
<1>4. \A i : Value(index'[Here], i) = Value(index[Here], i)
  BY <1>1, <1>3, Types, ValueNotValid
<1>5. CurrentIn(usedFlag) = Here \/ CurrentIn(usedFlag) = There
  BY Types DEF CurrentIn, Sectors
<1>6. Stored' = Stored
  <2>1. \A i \in Items : Value(index'[CurrentIn(usedFlag)], i) = Value(index[CurrentIn(usedFlag)], i)
    BY <1>3, <1>4, <1>5
  <2>2. View(usedFlag, index') = View(usedFlag, index)
    BY <2>1, ViewSame
  <2> QED BY <2>2, <1>2, Views
<1> QED BY <1>2, <1>3, <1>4, <1>6

LEMMA WritingRefines ==
  ASSUME SInv, RInv, Writing, NEW x \in Entries, x.state # "valid",
         SetEntry(op.opSect, op.wItemIdx, x),
         pc' \in {"payload", "header", "state"}, op' = op
  PROVE  RInv' /\ Stored' = Stored
<1> DEFINE m == op.wItemIdx
           H == index[Here]
<1>1. /\ usedFlag' = usedFlag
      /\ index'[Here] = [index[Here] EXCEPT ![m] = x]
      /\ index'[There] = index[There]
      /\ \A i : Value(index'[Here], i) = Value(index[Here], i)
      /\ Stored' = Stored
  BY PieceRefines
<1>2. m \in Slots /\ H \in Tables /\ Here' = Here /\ There' = There /\ Found' = Found
      /\ Current' = Current
  BY <1>1, Types, Views, WrittenNotValid DEF Here, There
<1>3. \A k \in Slots : index'[Here][k] = IF k = m THEN x ELSE H[k]
  BY <1>1, <1>2 DEF Tables
<1>4. CASE ~op.sectorUpdate
  <2>1. /\ \A k \in Slots : k >= m => H[k].state # "valid"
        /\ op.deleteIdx # 0 => op.deleteIdx < m /\ H[op.deleteIdx].state = "valid"
                                                /\ H[op.deleteIdx].item = op.item
        /\ ~Found => m = 1
        /\ IF Found THEN Here = Current /\ usedFlag[Here] = "valid"
           ELSE Here = 0 /\ usedFlag[0] = "idle"
        /\ op.src = 0
    BY <1>4 DEF RInv, InPlace, Writing
  <2>2. \A k \in Slots : k >= m => index'[Here][k].state # "valid"
    BY <2>1, <1>3
  <2>3. op.deleteIdx # 0 => index'[Here][op.deleteIdx] = H[op.deleteIdx]
    <3>1. op.deleteIdx < m => op.deleteIdx # m
      BY <1>2 DEF Slots
    <3> QED BY <3>1, <2>1, <1>3, Types
  <2>4. InPlace'
    BY <2>1, <2>2, <2>3, <1>1, <1>2, <1>4 DEF InPlace, Writing
  <2> QED BY <2>4, <1>1, <1>4 DEF RInv, InUpdate
<1>5. CASE op.sectorUpdate
  <2>1. /\ usedFlag[There] = "valid" /\ There = Current /\ usedFlag[Here] = "idle"
        /\ op.deleteIdx = 0
        /\ \A k \in Slots : /\ k < m => H[k].state = "valid"
                            /\ k > m => H[k].state = "idle"
        /\ CopiedUpTo(IF Copying THEN op.src - 1 ELSE MODULE_IDX_NUM)
        /\ Copying => Old[op.src].item # op.item
    BY <1>5 DEF RInv, InUpdate, Writing
  <2>2. \A k \in Slots : (k < m => k # m) /\ (k > m => k # m)
    BY <1>2 DEF Slots
  <2>3. \A k \in Slots : /\ k < m => index'[Here][k].state = "valid"
                         /\ k > m => index'[Here][k].state = "idle"
    BY <2>1, <2>2, <1>3
  <2>4. CopiedUpTo(IF Copying THEN op.src - 1 ELSE MODULE_IDX_NUM)' /\ Copying' = Copying
        /\ Old' = Old
    BY <2>1, <1>1, <1>2 DEF CopiedUpTo, Copying, Old, There
  <2>5. index'[Here][m].state # "valid"
    BY <1>2, <1>3
  <2>6. InUpdate'
    BY <2>1, <2>3, <2>4, <2>5, <1>1, <1>2, <1>5 DEF InUpdate, Writing
  <2> QED BY <2>6, <1>1, <1>5 DEF RInv, InPlace
<1> QED BY <1>4, <1>5, Types

LEMMA WriteIndexRefines ==
  ASSUME SInv, RInv, WriteIndex
  PROVE  RInv' /\ Stored' = Stored
<1> DEFINE x == [Blank EXCEPT !.state = "operation", !.item = Item]
<1>1. /\ pc = "index" /\ pc' = "payload" /\ op' = op /\ SetEntry(op.opSect, op.wItemIdx, x)
  BY DEF WriteIndex, Goto
<1>2. Writing /\ op.item \in Items
  BY <1>1 DEF Writing, SInv, CallOK
<1>3. Item \in Items \cup {Absent}
  <2>1. Copying => Old[op.src] \in Entries
    BY Types DEF Copying, Old, There, Tables
  <2> QED BY <2>1, <1>2 DEF Item, Entries
<1>4. x \in Entries /\ x.state # "valid"
  BY <1>3 DEF Blank, Entries
<1> HIDE DEF x
<1> QED BY <1>1, <1>2, <1>4, WritingRefines

LEMMA WriteRestRefines ==
  ASSUME SInv, RInv, WritePayload \/ WriteHeader
  PROVE  RInv' /\ Stored' = Stored
<1>1. /\ pc \in {"payload", "header"} /\ pc' \in {"header", "state"} /\ op' = op
      /\ \/ SetEntry(op.opSect, op.wItemIdx, [Entry EXCEPT !.val = Payload])
         \/ SetEntry(op.opSect, op.wItemIdx, [Entry EXCEPT !.hdr = TRUE])
  BY DEF WritePayload, WriteHeader, Goto
<1>2. Writing
  BY <1>1 DEF Writing
<1>3. Entry \in Entries /\ Entry.state # "valid"
  BY <1>2, WrittenNotValid DEF Entry, Here
<1>4. Payload \in Values \cup {Absent}
  <2>1. Copying => Old[op.src] \in Entries
    BY Types DEF Copying, Old, There, Tables
  <2>2. op.val \in Values \cup {Absent}
    BY Types DEF Ops
  <2> QED BY <2>1, <2>2 DEF Payload, Entries
<1>5. [Entry EXCEPT !.val = Payload] \in Entries /\ [Entry EXCEPT !.val = Payload].state # "valid"
  BY <1>3, <1>4 DEF Entries
<1>6. [Entry EXCEPT !.hdr = TRUE] \in Entries /\ [Entry EXCEPT !.hdr = TRUE].state # "valid"
  BY <1>3 DEF Entries
<1> QED BY <1>1, <1>2, <1>5, <1>6, WritingRefines

(* The state of the entry: in place this is the moment of the update.       *)
Effect == op.call = "write" /\ Stored' = [Stored EXCEPT ![op.item] = op.val]

LEMMA WriteStateRefines ==
  ASSUME SInv, RInv, WriteState
  PROVE  RInv' /\ (Stored' = Stored \/ Effect)
<1> DEFINE m == op.wItemIdx
           d == op.deleteIdx
           n == op.src
           H == index[Here]
           T == index[There]
           x == [Entry EXCEPT !.state = "valid"]
<1>1. /\ pc = "state" /\ pc' = AfterItem /\ op' = op /\ SetEntry(Here, m, x)
  BY DEF WriteState, Goto, Here
<1>2. Writing /\ Entry.item = Item /\ Entry.val = Payload /\ op.call = "write" /\ op.item \in Items
  BY <1>1 DEF Writing, SInv, EntryOK, CallOK
<1>3. m \in Slots /\ H \in Tables /\ T \in Tables /\ Here' = Here /\ There' = There
      /\ Entry \in Entries /\ H[m].state # "valid"
  BY <1>1, <1>2, Types, WrittenNotValid DEF Here, There, Entry
<1>4. x \in Entries /\ x.state = "valid" /\ x.item = Item /\ x.val = Payload
  BY <1>2, <1>3 DEF Entries
<1> HIDE DEF x
<1>5. /\ usedFlag' = usedFlag /\ index' = [index EXCEPT ![Here][m] = x]
  BY <1>1 DEF SetEntry
<1>6. index'[Here] = [H EXCEPT ![m] = x] /\ index'[There] = T
  BY <1>3, <1>4, <1>5, Types, SetEntryEffect
<1>7. \A k \in Slots : index'[Here][k] = IF k = m THEN x ELSE H[k]
  BY <1>3, <1>6 DEF Tables
<1>8. Found' = Found /\ Current' = Current
  BY <1>5, Views
<1>9. CASE ~op.sectorUpdate
  <2>1. /\ \A k \in Slots : k >= m => H[k].state # "valid"
        /\ d # 0 => d < m /\ H[d].state = "valid" /\ H[d].item = op.item
        /\ ~Found => m = 1
        /\ IF Found THEN Here = Current /\ usedFlag[Here] = "valid"
           ELSE Here = 0 /\ usedFlag[0] = "idle"
        /\ n = 0
    BY <1>2, <1>9 DEF RInv, InPlace, Writing
  <2>2. x.item = op.item /\ x.val = op.val
    BY <2>1, <1>4 DEF Item, Payload, Copying
  <2>3. \A i \in Items : Value(index'[Here], i) = IF i = op.item THEN op.val ELSE Value(H, i)
    BY <2>1, <2>2, <1>3, <1>4, <1>6, ValueAppend
  <2>4. CASE Found
    <3>1. Stored = [i \in Items |-> Value(H, i)] /\ Stored' = [i \in Items |-> Value(index'[Here], i)]
      BY <2>1, <2>4, <1>8 DEF Stored
    <3>2. Stored' = [Stored EXCEPT ![op.item] = op.val]
      BY <3>1, <2>3
    <3>3. Stored'[op.item] = op.val
      BY <3>1, <2>3, <1>2
    <3>4. pc' \in {"delete", "first", "return"} /\ (pc' = "delete" => d # 0)
      BY <1>1, <1>9, <2>1 DEF AfterItem, AfterNew, Copying
    <3>5. d # 0 => Stale(index'[Here], d)
      <4> SUFFICES ASSUME d # 0 PROVE Stale(index'[Here], d)
        OBVIOUS
      <4>1. d \in Slots /\ d < m /\ d # m
        BY <2>1, <1>3, Types DEF Slots
      <4>2. index'[Here][d] = H[d] /\ H[d].state = "valid" /\ H[d].item = op.item
        BY <4>1, <2>1, <1>7
      <4>3. m \in ValidOf(index'[Here], op.item)
        BY <2>2, <1>3, <1>4, <1>7 DEF ValidOf
      <4> QED BY <4>1, <4>2, <4>3 DEF Stale
    <3>6. InPlace'
      BY <3>3, <3>4, <3>5, <2>1, <2>4, <1>1, <1>3, <1>5, <1>8, <1>9 DEF InPlace, Writing
    <3> QED BY <3>2, <3>3, <3>4, <3>6, <1>1, <1>2, <1>9 DEF RInv, InUpdate, Effect
  <2>5. CASE ~Found
    <3>1. m = 1 /\ Here = 0 /\ usedFlag[0] = "idle"
      BY <2>1, <2>5
    <3>2. d = 0
      BY <3>1, <2>1, Types DEF Slots
    <3>3. pc' = "first"
      BY <3>1, <3>2, <2>1, <1>1, <1>9 DEF AfterItem, AfterNew, Copying
    <3>4. \A k \in Slots : H[k].state # "valid"
      BY <3>1, <2>1 DEF Slots
    <3>5. \A i \in Items : Value(index'[0], i) = IF i = op.item THEN op.val ELSE Absent
      BY <3>1, <3>4, <2>3, <1>3, NoneIsAbsent
    <3>6. Stored' = Stored
      BY <2>5, <1>8 DEF Stored
    <3>7. (\A i \in Items : Value(index[0], i) = Holds(i))'
      BY <3>5, <1>1 DEF Holds
    <3>8. InPlace'
      BY <3>1, <3>3, <3>7, <2>1, <2>5, <1>1, <1>3, <1>5, <1>8, <1>9 DEF InPlace, Writing
    <3> QED BY <3>3, <3>6, <3>8, <1>1, <1>9 DEF RInv, InUpdate
  <2> QED BY <2>4, <2>5
<1>10. CASE op.sectorUpdate
  <2>1. /\ usedFlag[There] = "valid" /\ There = Current /\ usedFlag[Here] = "idle"
        /\ d = 0
        /\ \A k \in Slots : /\ k < m => H[k].state = "valid"
                            /\ k > m => H[k].state = "idle"
        /\ CopiedUpTo(IF Copying THEN n - 1 ELSE MODULE_IDX_NUM)
        /\ Copying => Old[n].item # op.item
    BY <1>2, <1>10 DEF RInv, InUpdate, Writing
  <2>2. \A l \in Slots : l >= m => H[l].state # "valid"
    <3>1. \A l \in Slots : l >= m => l = m \/ l > m
      BY <1>3 DEF Slots
    <3> QED BY <3>1, <2>1, <1>3
  <2>3. \A i \in Items : Value(index'[Here], i) = IF i = x.item THEN x.val ELSE Value(H, i)
    BY <2>2, <1>3, <1>4, <1>6, ValueAppend
  <2>4. Stored' = Stored
    <3>1. \A i \in Items : Value(index'[CurrentIn(usedFlag)], i) = Value(index[CurrentIn(usedFlag)], i)
      BY <2>1, <1>6, Views
    <3>2. View(usedFlag, index') = View(usedFlag, index)
      BY <3>1, ViewSame
    <3> QED BY <3>2, <1>5, Views
  <2>5. CASE Copying
    <3>1. pc' = "copy" /\ n \in Slots
      BY <2>5, <1>1, Types DEF AfterItem, Copying
    <3>2. x.item = T[n].item /\ x.val = T[n].val /\ T[n].state = "valid" /\ T[n] \in Entries
          /\ T[n].item # op.item
      BY <3>1, <2>1, <2>5, <1>2, <1>3, <1>4 DEF Item, Payload, Old, There, SInv, EntryOK, Tables
    <3>3. n - 1 \in Nat /\ (n - 1) + 1 = n
      BY <3>1 DEF Slots
    <3> DEFINE P == Prefix(T, n - 1)
    <3>4. Prefix(T, n) = [P EXCEPT ![n] = T[n]]
      BY <3>1, <3>3, <1>3, PrefixNext
    <3>5. P \in Tables /\ \A k \in Slots : k > n - 1 => P[k].state # "valid"
      BY <3>3, <1>3, PrefixTable
    <3>6. \A l \in Slots : l >= n => P[l].state # "valid"
      <4>1. \A l \in Slots : l >= n => l > n - 1
        BY <3>1 DEF Slots
      <4> HIDE DEF P
      <4> QED BY <4>1, <3>5
    <3> HIDE DEF P
    <3>7. \A i : Value(Prefix(T, n), i) = IF i = T[n].item THEN T[n].val ELSE Value(P, i)
      BY <3>1, <3>2, <3>4, <3>5, <3>6, ValueAppend
    <3>8. \A i \in Items : Value(H, i) = IF i = op.item THEN Absent ELSE Value(P, i)
      BY <2>1, <2>5 DEF CopiedUpTo, P
    <3>9. \A i \in Items : Value(index'[Here], i) =
                             IF i = op.item THEN Absent ELSE Value(Prefix(T, n), i)
      BY <3>2, <3>7, <3>8, <2>3
    <3>10. CopiedUpTo(op.src)'
      BY <3>9, <1>1, <1>3, <1>6 DEF CopiedUpTo
    <3>11. \A k \in Slots : (k <= m => k = m \/ k < m) /\ (~(k <= m) => k # m /\ k > m)
      BY <1>3 DEF Slots
    <3>12. \A k \in Slots : index'[Here][k].state = IF k <= m THEN "valid" ELSE "idle"
      BY <3>11, <2>1, <1>4, <1>7
    <3>13. InUpdate'
      BY <3>1, <3>10, <3>12, <2>1, <1>1, <1>3, <1>5, <1>8, <1>10 DEF InUpdate, Writing
    <3> QED BY <3>1, <3>13, <2>4, <1>1, <1>10 DEF RInv, InPlace
  <2>6. CASE ~Copying
    <3>1. pc' = "ready"
      BY <2>1, <2>6, <1>1, <1>10 DEF AfterItem, AfterNew
    <3>2. x.item = op.item /\ x.val = op.val
      BY <2>6, <1>4 DEF Item, Payload
    <3>3. \A k \in Slots : ~(k > MODULE_IDX_NUM)
      BY DEF Slots
    <3>4. \A i \in Items : Value(H, i) = IF i = op.item THEN Absent ELSE Value(T, i)
      BY <3>3, <2>1, <2>6, <1>3, PrefixAll DEF CopiedUpTo
    <3>5. CopiedAll'
      BY <3>2, <3>4, <2>3, <1>1, <1>3, <1>6 DEF CopiedAll
    <3>6. InUpdate'
      BY <3>1, <3>5, <2>1, <1>1, <1>3, <1>5, <1>8, <1>10 DEF InUpdate, Writing
    <3> QED BY <3>1, <3>6, <2>4, <1>1, <1>10 DEF RInv, InPlace
  <2> QED BY <2>5, <2>6
<1> QED BY <1>9, <1>10, Types

LEMMA DeleteRefines ==
  ASSUME SInv, RInv, DeleteOld
  PROVE  RInv' /\ Stored' = Stored
<1> DEFINE d == op.deleteIdx
<1>1. /\ pc = "delete" /\ pc' = AfterNew /\ op' = op /\ SetEntry(Here, d, Dead)
      /\ d \in Slots /\ op.item \in Items
  BY Types DEF DeleteOld, Goto, Here, SInv, CountersOK, CallOK
<1>2. ~op.sectorUpdate
  BY <1>1, Types DEF RInv, InUpdate
<1>3. /\ op.src = 0 /\ Found /\ Here = Current /\ usedFlag[Here] = "valid"
      /\ Stored[op.item] = op.val /\ Stale(index[Here], d)
  BY <1>1, <1>2 DEF RInv, InPlace
<1>4. usedFlag' = usedFlag /\ index'[Here] = [index[Here] EXCEPT ![d] = Dead]
  BY <1>1, Types, DeadEntries, SetEntryEffect DEF SetEntry
<1>5. \A i : Value(index'[Here], i) = Value(index[Here], i)
  BY <1>1, <1>3, <1>4, Types, ValueStale
<1>6. Stored' = Stored /\ Found' /\ Current' = Current
  <2>1. \A i \in Items : Value(index'[CurrentIn(usedFlag)], i) = Value(index[CurrentIn(usedFlag)], i)
    BY <1>3, <1>5, Views
  <2>2. View(usedFlag, index') = View(usedFlag, index)
    BY <2>1, ViewSame
  <2> QED BY <2>2, <1>3, <1>4, Views
<1>7. pc' \in {"first", "return"} /\ Here' = Here
  BY <1>1, <1>2 DEF AfterNew, Here
<1>8. InPlace'
  BY <1>1, <1>2, <1>3, <1>4, <1>6, <1>7 DEF InPlace, Writing
<1> QED BY <1>1, <1>2, <1>3, <1>6, <1>7, <1>8 DEF RInv, InUpdate

(* The switch of sectors: the update takes effect when the new sector is    *)
(* the first that is found.                                                 *)
LEMMA CopiedIsUpdate ==
  ASSUME SInv, op.call = "write", CopiedAll, Stored = [i \in Items |-> Value(index[There], i)],
         Stored' = [i \in Items |-> Value(index[Here], i)]
  PROVE  Effect /\ Stored'[op.item] = op.val
<1>1. op.item \in Items
  BY DEF SInv, CallOK
<1>2. \A i \in Items : Stored'[i] = IF i = op.item THEN op.val ELSE Stored[i]
  BY DEF CopiedAll
<1>3. Stored' = [Stored EXCEPT ![op.item] = op.val]
  BY <1>2
<1> QED BY <1>1, <1>2, <1>3 DEF Effect

LEMMA ReadyRefines ==
  ASSUME SInv, RInv, SetReady
  PROVE  RInv' /\ (Stored' = Stored \/ Effect)
<1>1. /\ pc = "ready" /\ pc' = "invalidate" /\ op' = op /\ index' = index
      /\ usedFlag' = [usedFlag EXCEPT ![Here] = "ready"] /\ op.call = "write"
  BY DEF SetReady, SetFlag, Goto, Here, SInv, CallOK
<1>2. op.sectorUpdate
  BY <1>1 DEF SInv, CountersOK
<1>3. usedFlag[There] = "valid" /\ There = Current /\ CopiedAll
  BY <1>1, <1>2 DEF RInv, InUpdate
<1>4. usedFlag'[Here] = "ready" /\ usedFlag'[There] = "valid" /\ Here' = Here /\ There' = There
  BY <1>1, <1>3, Types DEF Here, There
<1>5. CopiedAll'
  BY <1>1, <1>3, <1>4 DEF CopiedAll
<1>6. RInv'
  BY <1>1, <1>2, <1>4, <1>5 DEF RInv, InPlace, InUpdate, Writing
<1>7. AliveIn(usedFlag, There) /\ AliveIn(usedFlag', There) /\ AliveIn(usedFlag', Here)
  BY <1>3, <1>4 DEF AliveIn
<1>8. Stored = [i \in Items |-> Value(index[There], i)]
  <2>1. FoundIn(usedFlag) /\ CurrentIn(usedFlag) = There
    BY <1>3, <1>7, Views, Types DEF FoundIn
  <2> QED BY <2>1, Views DEF View
<1>9. CASE Here = 0
  <2>1. Stored' = [i \in Items |-> Value(index[Here], i)]
    BY <1>1, <1>7, <1>9, Types, Views, ViewOf
  <2> QED BY <2>1, <1>1, <1>3, <1>6, <1>8, CopiedIsUpdate
<1>10. CASE There = 0
  <2>1. Stored' = [i \in Items |-> Value(index[There], i)]
    BY <1>1, <1>7, <1>10, Types, Views, ViewOf
  <2> QED BY <2>1, <1>6, <1>8
<1> QED BY <1>9, <1>10, Types DEF Sectors

LEMMA InvalidateRefines ==
  ASSUME SInv, RInv, Invalidate
  PROVE  RInv' /\ (Stored' = Stored \/ Effect)
<1>1. /\ pc = "invalidate" /\ pc' = "validate" /\ op' = op
      /\ usedFlag' = [usedFlag EXCEPT ![There] = "invalid"]
      /\ index' = [index EXCEPT ![There] = Forgotten(index[There])]
  BY DEF Invalidate, Goto, There, Here
<1>2. /\ usedFlag'[There] = "invalid" /\ usedFlag'[Here] = usedFlag[Here]
      /\ index'[Here] = index[Here] /\ Here' = Here /\ There' = There
  BY <1>1, Types DEF Here, There
<1>3. usedFlag[Here] = "ready"
  BY <1>1, Types DEF RInv, InPlace, InUpdate
<1>4. AliveIn(usedFlag', Here) /\ ~AliveIn(usedFlag', There) /\ AliveIn(usedFlag, Here)
  BY <1>2, <1>3 DEF AliveIn
<1>5. Stored' = [i \in Items |-> Value(index[Here], i)]
  <2>1. FoundIn(usedFlag') /\ CurrentIn(usedFlag') = Here
    BY <1>4, Types, ViewOf
  <2> QED BY <2>1, <1>2, Views DEF View
<1>6. usedFlag'[There'] = "invalid"
  BY <1>2
<1>7. CASE ~op.sectorUpdate
  <2>1. Here = Current /\ op.src = 0
    BY <1>1, <1>7 DEF RInv, InPlace
  <2>2. Stored = [i \in Items |-> Value(index[Here], i)]
    BY <2>1, <1>4, Types, Views DEF View, FoundIn
  <2>3. RInv'
    BY <2>1, <1>1, <1>2, <1>3, <1>6, <1>7 DEF RInv, InPlace, InUpdate, Writing
  <2> QED BY <2>2, <2>3, <1>5
<1>8. CASE op.sectorUpdate
  <2>1. usedFlag[There] = "valid" /\ CopiedAll /\ op.call = "write" /\ op.item \in Items
    BY <1>1, <1>8 DEF RInv, InUpdate, SInv, CountersOK, CallOK
  <2>2. AliveIn(usedFlag, There)
    BY <2>1 DEF AliveIn
  <2>3. Stored'[op.item] = op.val
    BY <2>1, <1>5 DEF CopiedAll
  <2>4. RInv'
    BY <2>3, <1>1, <1>2, <1>3, <1>6, <1>8 DEF RInv, InPlace, InUpdate, Writing
  <2>5. CASE Here = 0
    <3>1. Stored = [i \in Items |-> Value(index[Here], i)]
      BY <2>5, <1>4, Types, Views, ViewOf
    <3> QED BY <3>1, <2>4, <1>5
  <2>6. CASE There = 0
    <3>1. Stored = [i \in Items |-> Value(index[There], i)]
      BY <2>2, <2>6, Types, Views, ViewOf
    <3> QED BY <3>1, <2>1, <2>4, <1>5, CopiedIsUpdate
  <2> QED BY <2>5, <2>6, Types DEF Sectors
<1> QED BY <1>7, <1>8, Types

LEMMA ValidateRefines ==
  ASSUME SInv, RInv, Validate
  PROVE  RInv' /\ Stored' = Stored
<1>1. /\ pc = "validate" /\ pc' = AfterSwitch /\ op' = op /\ index' = index
      /\ usedFlag' = [usedFlag EXCEPT ![Here] = "valid"]
  BY DEF Validate, SetFlag, Goto, Here
<1>2. usedFlag[Here] = "ready" /\ usedFlag[There] = "invalid"
  BY <1>1, Types DEF RInv, InPlace, InUpdate
<1>3. usedFlag'[Here] = "valid" /\ usedFlag'[There] = usedFlag[There] /\ Here' = Here
  BY <1>1, Types DEF Here
<1>4. /\ AliveIn(usedFlag', Here) /\ ~AliveIn(usedFlag', There)
      /\ AliveIn(usedFlag, Here) /\ ~AliveIn(usedFlag, There)
  BY <1>2, <1>3, Views DEF AliveIn
<1>5. Found' /\ Current' = Here /\ Stored' = [i \in Items |-> Value(index[Here], i)]
  BY <1>1, <1>4, Types, Views, ViewOf
<1>6. Stored = [i \in Items |-> Value(index[Here], i)]
  BY <1>4, Types, Views, ViewOf
<1>7. CASE ~op.sectorUpdate
  <2>1. pc' \in {"place", "lookup"} /\ op.src = 0
    BY <1>1, <1>7 DEF AfterSwitch, Proceed, RInv, InPlace
  <2> QED BY <2>1, <1>1, <1>3, <1>5, <1>6, <1>7 DEF RInv, InPlace, InUpdate, Writing
<1>8. CASE op.sectorUpdate
  <2>1. pc' = "return" /\ Stored[op.item] = op.val
    BY <1>1, <1>8 DEF AfterSwitch, RInv, InUpdate
  <2> QED BY <2>1, <1>1, <1>5, <1>6, <1>8 DEF RInv, InPlace, InUpdate, Writing
<1> QED BY <1>7, <1>8, Types

(* The first value of all counts when its sector becomes valid.             *)
LEMMA FirstRefines ==
  ASSUME SInv, RInv, SetFirst
  PROVE  RInv' /\ Effect
<1>1. /\ pc = "first" /\ pc' = "return" /\ op' = op /\ index' = index
      /\ usedFlag[Here] = "idle" /\ usedFlag' = [usedFlag EXCEPT ![Here] = "valid"]
      /\ op.call = "write" /\ op.item \in Items
  BY DEF SetFirst, SetFlag, Goto, Here, SInv, CallOK
<1>2. ~op.sectorUpdate
  BY <1>1, Types DEF RInv, InUpdate
<1>3. ~Found /\ Here = 0 /\ op.src = 0
  BY <1>1, <1>2 DEF RInv, InPlace
<1>4. \A i \in Items : Value(index[0], i) = Holds(i)
  BY <1>1, <1>2, <1>3 DEF RInv, InPlace
<1>5. usedFlag'[0] = "valid"
  BY <1>1, <1>3, Types
<1>6. Stored' = [i \in Items |-> Value(index[0], i)]
  <2>1. AliveIn(usedFlag', 0) /\ 0 \in Sectors
    BY <1>5 DEF AliveIn, Sectors
  <2>2. FoundIn(usedFlag') /\ CurrentIn(usedFlag') = 0
    BY <2>1, ViewOf
  <2> QED BY <2>2, <1>1, Views DEF View
<1>7. Stored = [i \in Items |-> Absent]
  BY <1>3 DEF Stored
<1>8. Stored' = [Stored EXCEPT ![op.item] = op.val] /\ Stored'[op.item] = op.val
  BY <1>1, <1>4, <1>6, <1>7 DEF Holds
<1> QED BY <1>1, <1>2, <1>3, <1>8 DEF RInv, InPlace, InUpdate, Effect, Writing

(* A power loss leaves what is found unchanged, unless it tears a flag:     *)
(* then nothing is found any more.                                          *)
FlagTorn == \E s \in Sectors : usedFlag[s] = "torn"

LEMMA TearLoses ==
  ASSUME SInv, RInv, TornFlag
  PROVE  ~FlagTorn /\ FlagTorn' /\ Stored' = [i \in Items |-> Absent]
<1>1. usedFlag[Here] = "ready" /\ usedFlag[There] = "invalid"
  BY Types DEF TornFlag, RInv, InPlace, InUpdate
<1>2. usedFlag' = [usedFlag EXCEPT ![Here] = "torn"]
  BY DEF TornFlag, Here
<1>3. usedFlag'[Here] = "torn" /\ usedFlag'[There] = "invalid"
  BY <1>1, <1>2, Types
<1>4. ~FoundIn(usedFlag')
  BY <1>3, Types DEF FoundIn, AliveIn
<1>5. ~FlagTorn /\ FlagTorn'
  BY <1>1, <1>3, Types DEF FlagTorn
<1> QED BY <1>4, <1>5, Views DEF View

LEMMA CrashRefines ==
  ASSUME SInv, RInv, Crash
  PROVE  RInv' /\ (Stored' = Stored \/ TornFlag)
<1>1. RInv'
  BY IdleRefines DEF Crash
<1>2. CASE UNCHANGED <<usedFlag, index>>
  BY <1>1, <1>2, Views
<1>3. CASE pc = "index" /\ SetEntry(op.opSect, op.wItemIdx, [Blank EXCEPT !.state = "torn"])
  <2> DEFINE x == [Blank EXCEPT !.state = "torn"]
  <2>1. x \in Entries /\ x.state # "valid"
    BY DEF Blank, Entries
  <2>2. Writing /\ SetEntry(op.opSect, op.wItemIdx, x)
    BY <1>3 DEF Writing
  <2> HIDE DEF x
  <2> QED BY <1>1, <2>1, <2>2, PieceRefines
<1> QED BY <1>1, <1>2, <1>3 DEF Crash, TornEntry, Flash

(* Nothing but a power loss tears a flag.                                   *)
LEMMA OnlyCrashTears ==
  ASSUME SInv, [Next]_vars, ~(Crash /\ TornFlag)
  PROVE  FlagTorn' => FlagTorn
<1>1. \A f \in {"idle", "ready", "valid", "invalid"} : \A s \in Sectors :
        usedFlag' = [usedFlag EXCEPT ![s] = f] => (FlagTorn' => FlagTorn)
  BY Types DEF FlagTorn
<1>2. usedFlag' = usedFlag => (FlagTorn' => FlagTorn)
  BY DEF FlagTorn
<1>3. Here \in Sectors /\ There \in Sectors
  BY Types
<1> HIDE DEF Here, There
<1>4. CASE Erase \/ SetReady \/ Invalidate \/ Validate \/ SetFirst
  BY ONLY <1>1, <1>3, <1>4
     DEF Erase, SetReady, Invalidate, Validate, SetFirst, SetFlag, Here, There
<1>5. CASE Crash
  BY ONLY <1>2, <1>5, ~(Crash /\ TornFlag) DEF Crash, Flash, TornEntry, SetEntry
<1>6. CASE \E i \in Items : Read(i) \/ \E v \in Values : Write(i, v)
  BY ONLY <1>2, <1>6 DEF Read, Write, ReadSector, Flash
<1>7. CASE AppendEntry \/ ChangeSector \/ CopyNext \/ CopyEnd \/ Lookup \/ Succeed \/ Fail
  BY ONLY <1>2, <1>7
     DEF AppendEntry, ChangeSector, CopyNext, CopyEnd, Lookup, Succeed, Fail, Done, Flash
<1>8. CASE WriteIndex \/ WritePayload \/ WriteHeader \/ WriteState \/ DeleteOld \/ Dedup
  BY ONLY <1>2, <1>8
     DEF WriteIndex, WritePayload, WriteHeader, WriteState, DeleteOld, Dedup, SetEntry, Flash
<1>9. CASE IndexRefused \/ Refused
  BY ONLY <1>2, <1>9 DEF IndexRefused, Refused, ReadSector, Flash
<1>10. CASE UNCHANGED vars
  BY ONLY <1>2, <1>10 DEF vars
<1> QED BY <1>4, <1>5, <1>6, <1>7, <1>8, <1>9, <1>10 DEF Next

(* As long as nothing was refused, a step is a stutter of the map, the      *)
(* moment its update takes effect, or a power loss.                         *)
LEMMA RInvStep ==
  ASSUME SInv, RInv, refused = 0, refused' = 0, [Next]_vars
  PROVE  RInv' /\ (Stored' = Stored \/ Effect \/ Crash)
<1> DEFINE oR(i) == [NoOp EXCEPT !.call = "read", !.item = i]
           oW(i, v) == [NoOp EXCEPT !.call = "write", !.item = i, !.val = v]
<1>1. ASSUME NEW i \in Items, Read(i) PROVE RInv' /\ Stored' = Stored
  <2>1. oR(i) \in Ops /\ oR(i).call = "read" /\ oR(i).wItemIdx = 0 /\ oR(i).src = 0
        /\ oR(i).deleteIdx = 0 /\ ~oR(i).sectorUpdate /\ ~oR(i).forceChgSec
    BY DEF NoOp, Ops, Sectors
  <2>2. ReadSector(oR(i))
    BY <1>1 DEF Read
  <2> HIDE DEF oR
  <2> QED BY <2>1, <2>2, ReadSectorRefines
<1>2. ASSUME NEW i \in Items, NEW v \in Values, Write(i, v) PROVE RInv' /\ Stored' = Stored
  <2>1. oW(i, v) \in Ops /\ oW(i, v).call = "write" /\ oW(i, v).wItemIdx = 0 /\ oW(i, v).src = 0
        /\ oW(i, v).deleteIdx = 0 /\ ~oW(i, v).sectorUpdate /\ ~oW(i, v).forceChgSec
    BY DEF NoOp, Ops, Sectors
  <2>2. ReadSector(oW(i, v))
    BY <1>2 DEF Write
  <2> HIDE DEF oW
  <2> QED BY <2>1, <2>2, ReadSectorRefines
<1>3. ASSUME Lookup \/ Succeed \/ Fail PROVE RInv' /\ Stored' = Stored
  BY <1>3, IdleRefines, Views DEF Lookup, Succeed, Fail, Done, Flash
<1>4. ASSUME IndexRefused PROVE FALSE
  <2>1. refused' # refused + 1
    OBVIOUS
  <2>2. pc = "index" /\ ~Writable
    BY <1>4, <2>1 DEF IndexRefused, LowVoltage
  <2> QED BY <2>2 DEF RInv
<1>5. ASSUME Refused PROVE RInv' /\ Stored' = Stored
  <2>1. refused' # refused + 1
    OBVIOUS
  <2>2. /\ pc \in {"ready", "first"} /\ usedFlag[Here] # "idle" /\ UNCHANGED <<usedFlag, index>>
        /\ pc = "first" => pc' = "return" /\ op' = op
    BY <1>5, <2>1 DEF Refused, LowVoltage, Here, Flash, Goto
  <2>3. Stored' = Stored
    BY <2>2, Views
  <2>4. pc # "ready"
    <3> SUFFICES ASSUME pc = "ready" PROVE FALSE
      OBVIOUS
    <3>1. op.sectorUpdate
      BY DEF SInv, CountersOK
    <3> QED BY <3>1, <2>2 DEF RInv, InUpdate
  <2>5. pc = "first" /\ ~op.sectorUpdate
    BY <2>2, <2>4, Types DEF RInv, InUpdate
  <2>6. Stored[op.item] = op.val /\ op.src = 0
    <3>1. Found
      BY <2>2, <2>5 DEF RInv, InPlace
    <3> QED BY <3>1, <2>5 DEF RInv, InPlace
  <2> QED BY <2>2, <2>3, <2>5, <2>6 DEF RInv, InPlace, InUpdate, Writing
<1>6. ASSUME UNCHANGED vars PROVE RInv' /\ Stored' = Stored
  <2>1. /\ Stored' = Stored /\ Found' = Found /\ Current' = Current /\ Here' = Here /\ There' = There
        /\ Entry' = Entry /\ Old' = Old /\ Copying' = Copying
    BY <1>6, Views DEF vars, Here, There, Entry, Old, Copying
  <2> QED BY <2>1, <1>6 DEF vars, RInv, InPlace, InUpdate, Writing, Writable, CopiedUpTo, CopiedAll,
                            Holds, Alive
<1> QED
  BY <1>1, <1>2, <1>3, <1>4, <1>5, <1>6, EraseRefines, AppendRefines, ChangeRefines, DedupRefines,
     CopyNextRefines, CopyEndRefines, WriteIndexRefines, WriteRestRefines, WriteStateRefines,
     DeleteRefines, ReadyRefines, InvalidateRefines, ValidateRefines, FirstRefines, CrashRefines
  DEF Next

LEMMA IInvInit == Init => IInv
<1> SUFFICES ASSUME Init PROVE IInv
  OBVIOUS
<1>1. op = NoOp /\ pc = "idle"
  BY DEF Init
<1>2. op.src = 0 /\ op.sectorUpdate = FALSE /\ op.forceChgSec = FALSE
  BY <1>1 DEF NoOp
<1>3. RInv
  BY <1>1, <1>2 DEF RInv, InPlace, InUpdate, Writing
<1> QED BY <1>3, SInvInit DEF IInv

(* Refusals are only counted up.                                            *)
LEMMA NeverBack ==
  ASSUME SInv, [Next]_vars, refused' = 0
  PROVE  refused = 0
<1>1. refused \in Nat
  BY DEF SInv, TypeOK
<1>2. refused' = refused \/ refused' = refused + 1
  BY DEF Next, Powered, LowVoltage, Dedup, IndexRefused, Refused, vars
<1> QED BY <1>1, <1>2

LEMMA IInvAlways == Spec => []IInv
<1>1. IInv /\ [Next]_vars => IInv'
  BY SInvStep, NeverBack, RInvStep DEF IInv
<1> QED BY <1>1, IInvInit, PTL DEF Spec

-----------------------------------------------------------------------------
(* The call under way, as NvMap sees it.                                    *)
Req == CASE pc = "idle" -> [call |-> "none"]
         [] pc # "idle" /\ op.call = "write" ->
              [call |-> "write", item |-> op.item, val |-> op.val]
         [] OTHER -> [call |-> "read", item |-> op.item]

MapVars == <<Stored, Req, status, FlagTorn, refused = 0>>

LEMMA ReqIs ==
  /\ pc = "idle" => Req = [call |-> "none"]
  /\ pc # "idle" /\ op.call = "write" => Req = [call |-> "write", item |-> op.item, val |-> op.val]
  /\ pc # "idle" /\ op.call # "write" => Req = [call |-> "read", item |-> op.item]
  BY DEF Req

LEMMA ReqNext ==
  /\ pc' = "idle" => Req' = [call |-> "none"]
  /\ pc' # "idle" /\ op'.call = "write" =>
       Req' = [call |-> "write", item |-> op'.item, val |-> op'.val]
  /\ pc' # "idle" /\ op'.call # "write" => Req' = [call |-> "read", item |-> op'.item]
  BY DEF Req

LEMMA MapVarsAre == Map!vars = MapVars /\ Map!NoReq = [call |-> "none"]
  BY DEF Map!vars, Map!NoReq, MapVars, FlagTorn, Req

(* The flash operations between the begin of a call and its return.         *)
Internal ==
  \/ Erase \/ AppendEntry \/ ChangeSector \/ CopyNext \/ CopyEnd
  \/ WriteIndex \/ WritePayload \/ WriteHeader \/ WriteState
  \/ DeleteOld \/ SetReady \/ Invalidate \/ Validate \/ SetFirst
  \/ Dedup \/ IndexRefused \/ Refused

LEMMA InternalKeepsCall ==
  ASSUME SInv, RInv, refused = 0, refused' = 0, Internal
  PROVE  Req' = Req /\ status' = status /\ pc' # "idle"
<1> DEFINE Same == /\ pc # "idle" /\ pc' # "idle" /\ status' = status
                   /\ op'.call = op.call /\ op'.item = op.item /\ op'.val = op.val
<1>0. op \in Ops
  BY Types
<1>1. ASSUME Erase PROVE Same
  <2> DEFINE n == IF pc' = "dedup" THEN MODULE_IDX_NUM ELSE 0
  <2>1. op' = [op EXCEPT !.src = n] /\ pc' \in {"dedup", "copy", "place"} /\ pc = "erase"
        /\ status' = status
    BY <1>1 DEF Erase, AfterErase
  <2> HIDE DEF n
  <2> QED BY <2>1, <1>0 DEF Ops
<1>2. ASSUME AppendEntry \/ ChangeSector PROVE Same
  BY <1>0, <1>2 DEF AppendEntry, ChangeSector, Ops
<1>3. ASSUME Dedup \/ CopyNext PROVE Same
  <2>1. CASE Dedup
    <3>1. pc = "dedup" /\ pc' \in {"copy", "dedup"} /\ status' = status
          /\ op' = [op EXCEPT !.src = op.src - 1]
      BY <2>1 DEF Dedup
    <3> QED BY <3>1, <1>0 DEF Ops
  <2>2. CASE CopyNext
    <3> DEFINE m == IF Copied(Old[op.src + 1]) THEN op.wItemIdx + 1 ELSE op.wItemIdx
    <3>1. pc = "copy" /\ pc' \in {"copy", "index"} /\ status' = status
          /\ op' = [op EXCEPT !.src = op.src + 1, !.wItemIdx = m]
      BY <2>2 DEF CopyNext
    <3> HIDE DEF m
    <3> QED BY <3>1, <1>0 DEF Ops
  <2> QED BY <1>3, <2>1, <2>2
<1>4. ASSUME CopyEnd PROVE Same
  BY <1>0, <1>4 DEF CopyEnd, WriteNew, NoSpace, Ops
<1>5. ASSUME WriteIndex \/ WritePayload \/ WriteHeader \/ SetReady \/ Invalidate \/ SetFirst PROVE Same
  BY <1>5 DEF WriteIndex, WritePayload, WriteHeader, SetReady, Invalidate, SetFirst, Goto
<1>6. AfterNew # "idle"
  BY Types DEF AfterNew
<1>7. AfterItem # "idle" /\ AfterSwitch # "idle"
  BY <1>6, Types DEF AfterItem, AfterSwitch, Proceed
<1>8. ASSUME WriteState \/ DeleteOld \/ Validate PROVE Same
  BY <1>6, <1>7, <1>8 DEF WriteState, DeleteOld, Validate, Goto
<1>9. ASSUME IndexRefused PROVE FALSE
  <2>1. refused' # refused + 1
    OBVIOUS
  <2>2. pc = "index" /\ ~Writable
    BY <1>9, <2>1 DEF IndexRefused, LowVoltage
  <2> QED BY <2>2 DEF RInv
<1>10. ASSUME Refused PROVE Same
  <2>1. refused' # refused + 1
    OBVIOUS
  <2>2. pc \in {"ready", "first"}
    BY <1>10, <2>1 DEF Refused, LowVoltage
  <2> QED BY <2>2, <1>10 DEF Refused, Goto
<1>11. Same
  BY <1>1, <1>2, <1>3, <1>4, <1>5, <1>8, <1>9, <1>10 DEF Internal
<1> QED BY <1>11, ReqIs, ReqNext

(* Every step of the store is a step of the map or a stutter.               *)
LEMMA MapStep ==
  ASSUME IInv, [Next]_vars
  PROVE  Map!Next \/ UNCHANGED MapVars
<1>1. CASE refused' # 0
  BY <1>1 DEF Map!Next
<1>2. CASE refused' = 0
  <2>1. SInv /\ RInv /\ refused = 0
    BY <1>2, NeverBack DEF IInv
  <2>2. Stored' = Stored \/ Effect \/ Crash
    BY <2>1, <1>2, RInvStep
  <2>3. (refused = 0)' = (refused = 0)
    BY <2>1, <1>2
  <2>4. pc = "idle" <=> op.call = "none"
    BY <2>1 DEF SInv, CallOK
  <2>5. op.call \in {"none", "read", "write"}
    BY <2>1, Types DEF Ops
  <2>a. ASSUME Internal PROVE Map!Keep
    <3>1. Req' = Req /\ status' = status /\ pc' # "idle"
      BY <2>1, <2>a, <1>2, InternalKeepsCall
    <3>2. CASE Stored' = Stored
      BY <3>1, <3>2, <2>3 DEF Map!Keep, Req
    <3>3. CASE Effect
      <4>1. Req = [call |-> "write", item |-> op.item, val |-> op.val]
        BY <3>3, <2>4, ReqIs DEF Effect
      <4>2. Req.call = "write" /\ Req.item = op.item /\ Req.val = op.val
        BY <4>1
      <4>3. Map!TakeEffect
        BY <4>2, <3>1, <3>3, <2>3 DEF Map!TakeEffect, Effect, Req
      <4> QED BY <4>3 DEF Map!Keep
    <3>4. ~Crash
      BY <3>1 DEF Crash
    <3> QED BY <3>2, <3>3, <3>4, <2>2
  <2>b. ASSUME NEW i \in Items, Read(i) PROVE Map!Keep
    <3>1. pc = "idle" /\ ReadSector([NoOp EXCEPT !.call = "read", !.item = i]) /\ status' = "none"
      BY <2>b DEF Read
    <3>2. pc' # "idle" /\ op'.call = "read" /\ op'.item = i
      BY <3>1 DEF ReadSector, NoOp
    <3>3. Stored' = Stored
      BY <3>1, Views DEF ReadSector, Flash
    <3>4. Req' = [call |-> "read", item |-> i] /\ Req = [call |-> "none"]
      BY <3>1, <3>2, ReqIs, ReqNext
    <3>5. Map!Call(Map!ReadReq(i))
      BY <3>1, <3>3, <3>4, <2>3 DEF Map!Call, Map!ReadReq, Map!NoReq, Req
    <3> QED BY <3>5 DEF Map!Keep
  <2>c. ASSUME NEW i \in Items, NEW v \in Values, Write(i, v) PROVE Map!Keep
    <3>1. pc = "idle" /\ ReadSector([NoOp EXCEPT !.call = "write", !.item = i, !.val = v])
          /\ status' = "none"
      BY <2>c DEF Write
    <3>2. pc' # "idle" /\ op'.call = "write" /\ op'.item = i /\ op'.val = v
      BY <3>1 DEF ReadSector, NoOp
    <3>3. Stored' = Stored
      BY <3>1, Views DEF ReadSector, Flash
    <3>4. Req' = [call |-> "write", item |-> i, val |-> v] /\ Req = [call |-> "none"]
      BY <3>1, <3>2, ReqIs, ReqNext
    <3>5. Map!Call(Map!WriteReq(i, v))
      BY <3>1, <3>3, <3>4, <2>3 DEF Map!Call, Map!WriteReq, Map!NoReq, Req
    <3> QED BY <3>5 DEF Map!Keep
  <2>d. ASSUME pc # "idle", pc' = "idle", status' = "failed", Stored' = Stored PROVE Map!Keep
    <3>1. Req' = [call |-> "none"] /\ Req # [call |-> "none"]
      <4>1. Req = [call |-> "write", item |-> op.item, val |-> op.val]
            \/ Req = [call |-> "read", item |-> op.item]
        BY <2>d, ReqIs
      <4>2. Req.call \in {"read", "write"}
        BY <4>1
      <4> QED BY <4>2, <2>d, ReqNext
    <3>2. Map!Return("failed") /\ Req # Map!NoReq
      BY <3>1, <2>d, <2>3 DEF Map!Return, Map!NoReq, Req
    <3> QED BY <3>2 DEF Map!Keep, Req
  <2>e. ASSUME Crash, ~TornFlag PROVE Map!Keep
    BY <2>e, <2>d, <2>1, CrashRefines DEF Crash
  <2>f. ASSUME Fail PROVE Map!Keep
    BY <2>f, <2>d, Views DEF Fail, Done, Flash
  <2>g. ASSUME Succeed PROVE Map!Keep
    <3>1. pc = "return" /\ pc' = "idle" /\ status' = "ok" /\ Stored' = Stored
      BY <2>g, Views DEF Succeed, Done, Flash
    <3>2. op.call = "write" /\ Stored[op.item] = op.val
      BY <3>1, <2>1 DEF SInv, CallOK, RInv
    <3>3. Req = [call |-> "write", item |-> op.item, val |-> op.val] /\ Req' = [call |-> "none"]
      BY <3>1, <3>2, ReqIs, ReqNext
    <3>4. Req.call = "write" /\ Stored[Req.item] = Req.val
      BY <3>2, <3>3
    <3>5. Map!Return("ok")
      BY <3>1, <3>3, <2>3 DEF Map!Return, Map!NoReq, Req
    <3> QED BY <3>4, <3>5 DEF Map!Keep, Req
  <2>h. ASSUME Lookup PROVE Map!Keep
    <3>1. pc = "lookup" /\ pc' = "idle" /\ Stored' = Stored
          /\ status' = IF Found THEN Value(index[Here], op.item) ELSE Absent
      BY <2>h, Views DEF Lookup, Done, Flash, Here
    <3>2. op.call = "read" /\ op.item \in Items
      BY <3>1, <2>1 DEF SInv, CallOK
    <3>3. ~op.sectorUpdate
      BY <3>1, <2>1, Types DEF RInv, InUpdate
    <3>4. Found => Here = Current
      BY <3>1, <3>3, <2>1 DEF RInv, InPlace
    <3>5. status' = Stored[op.item]
      BY <3>1, <3>2, <3>4 DEF Stored
    <3>6. Req = [call |-> "read", item |-> op.item] /\ Req' = [call |-> "none"]
      BY <3>1, <3>2, ReqIs, ReqNext
    <3>7. Req.call = "read" /\ Stored[Req.item] = status'
      BY <3>5, <3>6
    <3>8. Map!Return(Stored[Req.item])
      BY <3>1, <3>6, <3>7, <2>3 DEF Map!Return, Map!NoReq, Req
    <3> QED BY <3>7, <3>8 DEF Map!Keep, Req
  <2>i. ASSUME UNCHANGED vars PROVE Map!Keep
    <3>1. Stored' = Stored
      BY <2>i, Views DEF vars
    <3> QED BY <3>1, <2>i DEF Map!Keep, vars, Req
  <2>j. ASSUME Crash, TornFlag PROVE Map!Tear
    <3>1. pc # "idle" /\ pc' = "idle" /\ status' = "failed"
      BY <2>j DEF Crash
    <3>2. Req' = [call |-> "none"] /\ Req # [call |-> "none"]
      <4>1. Req = [call |-> "write", item |-> op.item, val |-> op.val]
            \/ Req = [call |-> "read", item |-> op.item]
        BY <3>1, ReqIs
      <4>2. Req.call \in {"read", "write"}
        BY <4>1
      <4> QED BY <4>2, <3>1, ReqNext
    <3>3. ~FlagTorn /\ FlagTorn' /\ Stored' = [i \in Items |-> Absent]
      BY <2>1, <2>j, TearLoses
    <3> QED BY <3>1, <3>2, <3>3, <2>3 DEF Map!Tear, Map!NoReq, Req, FlagTorn
  <2>k. CASE Crash /\ TornFlag
    BY <2>j, <2>k DEF Map!Next
  <2>l. CASE ~(Crash /\ TornFlag)
    <3>1. FlagTorn' => FlagTorn
      BY <2>1, <2>l, OnlyCrashTears
    <3>2. Map!Keep
      BY <2>a, <2>b, <2>c, <2>e, <2>f, <2>g, <2>h, <2>i, <2>l DEF Next, Internal
    <3> QED BY <3>1, <3>2 DEF Map!Next, FlagTorn
  <2> QED BY <2>k, <2>l
<1> QED BY <1>1, <1>2

(* The item store implements the map of NvMap: whatever is read, written    *)
(* and interrupted by a power loss, and whatever the number of entries of a *)
(* sector, a write of nv_flashWriteNew takes effect at one moment or not at *)
(* all and touches no other item, unless the power goes between the two     *)
(* bytes that make a new sector valid, and until a write to the flash is    *)
(* refused.                                                                 *)
THEOREM Refinement == Spec => AtomicMap
<1>1. Init => Map!Init
  <2> SUFFICES ASSUME Init PROVE Map!Init
    OBVIOUS
  <2>1. ~Found
    BY DEF Init, Found, Alive, Sectors
  <2>2. Stored = [i \in Items |-> Absent]
    BY <2>1 DEF Stored
  <2>3. \A s \in Sectors : usedFlag[s] # "torn"
    BY DEF Init
  <2> QED BY <2>2, <2>3 DEF Init, Map!Init, Map!NoReq
<1>2. IInv /\ [Next]_vars => [Map!Next]_(Map!vars)
  <2> SUFFICES ASSUME IInv, [Next]_vars PROVE Map!Next \/ UNCHANGED Map!vars
    OBVIOUS
  <2>1. UNCHANGED MapVars => UNCHANGED Map!vars
    BY DEF MapVars, Map!vars, FlagTorn, Req
  <2> QED BY <2>1, MapStep
<1> QED BY <1>1, <1>2, IInvAlways, PTL DEF Spec, AtomicMap, Map!Spec
=============================================================================
