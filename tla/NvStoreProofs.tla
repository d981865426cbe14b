----------------------------- MODULE NvStoreProofs -----------------------------
(***************************************************************************)
(* Types and soundness of the item store, for any number of items, values, *)
(* entries per sector and refused writes.  The invariant SInv adds to them *)
(* what each flash operation finds: the call it belongs to (CallOK), its   *)
(* counters (CountersOK) and the entry it continues (EntryOK).  The first  *)
(* lemmas say how a change of one entry changes the value that is read.    *)
(* RInv, the invariant of the refinement, is stated here and used in       *)
(* NvRefinementProofs.                                                     *)
(***************************************************************************)
EXTENDS NvStore, FiniteSetTheorems, TLAPS

USE NvConstantsOK DEF NvConstantsOK

(* A set of entries has a last one.                                         *)
LEMMA LastExists ==
  ASSUME NEW V \in SUBSET Slots, V # {}
  PROVE  /\ LastOf(V) \in V
         /\ \A l \in V : l <= LastOf(V)
<1> DEFINE Above(k) == {l \in Slots : l > k}
           T == {Above(k) : k \in V}
<1>1. IsWellFoundedOn(StrictSubsetOrdering(Slots), SUBSET Slots)
  <2>1. IsFiniteSet(Slots)
    BY FS_Interval DEF Slots
  <2>2. FiniteSubsetsOf(Slots) = SUBSET Slots
    BY <2>1, FS_FiniteSubsetsOfFinite
  <2>3. IsWellFoundedOn(StrictSubsetOrdering(Slots), FiniteSubsetsOf(Slots))
    BY FS_StrictSubsetOrderingWellFounded
  <2> QED BY <2>2, <2>3
<1>2. T \subseteq SUBSET Slots /\ T # {}
  OBVIOUS
<1>3. PICK x \in T : \A y \in T : <<y, x>> \notin StrictSubsetOrdering(Slots)
  <2> HIDE DEF T
  <2> QED BY <1>1, <1>2, WFMin
<1>4. PICK k \in V : x = Above(k)
  OBVIOUS
<1>5. \A l \in V : l <= k
  <2> SUFFICES ASSUME NEW l \in V, l > k PROVE FALSE
    BY DEF Slots
  <2>1. Above(l) \in SUBSET Slots /\ Above(k) \in SUBSET Slots
    OBVIOUS
  <2>2. Above(l) \subseteq Above(k)
    BY DEF Slots
  <2>3. l \in Above(k) /\ l \notin Above(l)
    BY DEF Slots
  <2>4. <<Above(l), Above(k)>> \in StrictSubsetOrdering(Slots)
    BY <2>1, <2>2, <2>3 DEF StrictSubsetOrdering
  <2> QED BY <2>4, <1>3, <1>4
<1> QED BY <1>5 DEF LastOf

(* ... and only one.                                                        *)
LEMMA LastUnique ==
  ASSUME NEW V \in SUBSET Slots, NEW k \in V, \A l \in V : l <= k
  PROVE  LastOf(V) = k
<1>1. LastOf(V) \in V /\ k <= LastOf(V) /\ LastOf(V) <= k
  BY LastExists
<1>2. LastOf(V) \in Slots /\ k \in Slots
  BY <1>1
<1>3. \A l \in Slots : l \in Nat
  BY DEF Slots
<1> QED BY <1>1, <1>2, <1>3

Tables == [Slots -> Entries]

(* The value of an item is decided by its valid entries.                    *)
LEMMA ValueSame ==
  ASSUME NEW e \in Tables, NEW f \in Tables, NEW i,
         ValidOf(f, i) = ValidOf(e, i),
         \A k \in ValidOf(e, i) : f[k].val = e[k].val
  PROVE  Value(f, i) = Value(e, i)
<1>1. CASE ValidOf(e, i) = {}
  BY <1>1 DEF Value
<1>2. CASE ValidOf(e, i) # {}
  <2>1. ValidOf(e, i) \in SUBSET Slots
    BY DEF ValidOf
  <2>2. LastOf(ValidOf(e, i)) \in ValidOf(e, i)
    BY <1>2, <2>1, LastExists
  <2> QED BY <1>2, <2>2 DEF Value, Newest
<1> QED BY <1>1, <1>2

(* An entry that was not valid and does not become valid changes no value.  *)
LEMMA ValueNotValid ==
  ASSUME NEW e \in Tables, NEW k \in Slots, NEW x \in Entries, NEW i,
         e[k].state # "valid", x.state # "valid"
  PROVE  Value([e EXCEPT ![k] = x], i) = Value(e, i)
<1> DEFINE f == [e EXCEPT ![k] = x]
<1>1. f \in Tables
  BY DEF Tables
<1>2. \A l \in Slots : f[l] = IF l = k THEN x ELSE e[l]
  BY DEF Tables
<1> HIDE DEF f
<1>3. ValidOf(f, i) = ValidOf(e, i)
  BY <1>2 DEF ValidOf
<1>4. \A l \in ValidOf(e, i) : f[l].val = e[l].val
  BY <1>2 DEF ValidOf
<1>5. Value(f, i) = Value(e, i)
  BY <1>1, <1>3, <1>4, ValueSame
<1> QED BY <1>5 DEF f

(* A valid entry behind all others gives its item its value.                *)
LEMMA ValueAppend ==
  ASSUME NEW e \in Tables, NEW k \in Slots, NEW x \in Entries, NEW i,
         x.state = "valid",
         \A l \in Slots : l >= k => e[l].state # "valid"
  PROVE  Value([e EXCEPT ![k] = x], i) = IF i = x.item THEN x.val ELSE Value(e, i)
<1> DEFINE f == [e EXCEPT ![k] = x]
<1>1. f \in Tables
  BY DEF Tables
<1>2. \A l \in Slots : f[l] = IF l = k THEN x ELSE e[l]
  BY DEF Tables
<1>3. e[k].state # "valid"
  BY DEF Slots
<1> HIDE DEF f
<1>4. CASE i # x.item
  <2>1. ValidOf(f, i) = ValidOf(e, i)
    BY <1>2, <1>3, <1>4 DEF ValidOf
  <2>2. \A l \in ValidOf(e, i) : f[l].val = e[l].val
    BY <1>2, <1>3 DEF ValidOf
  <2>3. Value(f, i) = Value(e, i)
    BY <1>1, <2>1, <2>2, ValueSame
  <2> QED BY <2>3, <1>4 DEF f
<1>5. CASE i = x.item
  <2>1. k \in ValidOf(f, i) /\ ValidOf(f, i) \in SUBSET Slots
    BY <1>2, <1>5 DEF ValidOf
  <2>2. \A l \in ValidOf(f, i) : l <= k
    <3> SUFFICES ASSUME NEW l \in Slots, f[l].state = "valid" PROVE l <= k
      BY DEF ValidOf
    <3>1. l = k \/ e[l].state = "valid"
      BY <1>2
    <3>2. ~(l >= k) \/ l = k
      BY <3>1
    <3> QED BY <3>2 DEF Slots
  <2>3. LastOf(ValidOf(f, i)) = k
    BY <2>1, <2>2, LastUnique
  <2>4. Value(f, i) = x.val
    BY <2>1, <2>3, <1>2 DEF Value, Newest
  <2> QED BY <2>4, <1>5 DEF f
<1> QED BY <1>4, <1>5

(* Deleting a stale entry changes no value.                                 *)
LEMMA ValueStale ==
  ASSUME NEW e \in Tables, NEW k \in Slots, NEW i, Stale(e, k)
  PROVE  Value([e EXCEPT ![k] = Dead], i) = Value(e, i)
<1> DEFINE f == [e EXCEPT ![k] = Dead]
<1>1. \A l \in Slots : f[l] = IF l = k THEN Dead ELSE e[l]
  BY DEF Tables
<1>2. f \in [Slots -> Entries \cup {Dead}]
  BY DEF Tables
<1>3. Dead \in Entries
  BY DEF Dead, Blank, Entries
<1>4. f \in Tables
  BY <1>2, <1>3 DEF Tables
<1>5. Dead.state = "invalid"
  BY DEF Dead, Blank
<1> HIDE DEF f
<1>6. CASE e[k].item # i
  <2>1. ValidOf(f, i) = ValidOf(e, i)
    BY <1>1, <1>5, <1>6 DEF ValidOf
  <2>2. \A l \in ValidOf(e, i) : f[l].val = e[l].val
    BY <1>1, <1>6 DEF ValidOf
  <2>3. Value(f, i) = Value(e, i)
    BY <1>4, <2>1, <2>2, ValueSame
  <2> QED BY <2>3 DEF f
<1>7. CASE e[k].item = i
  <2>1. PICK m \in ValidOf(e, i) : k < m
    BY <1>7 DEF Stale
  <2>2. ValidOf(e, i) \in SUBSET Slots /\ ValidOf(f, i) \in SUBSET Slots
    BY DEF ValidOf
  <2> DEFINE n == LastOf(ValidOf(e, i))
  <2>3. n \in ValidOf(e, i) /\ \A l \in ValidOf(e, i) : l <= n
    BY <2>1, <2>2, LastExists
  <2> HIDE DEF n
  <2>4. n # k
    <3>1. m <= n /\ m \in Slots /\ n \in Slots
      BY <2>1, <2>2, <2>3
    <3> QED BY <3>1, <2>1 DEF Slots
  <2>5. n \in ValidOf(f, i)
    BY <1>1, <2>3, <2>4 DEF ValidOf
  <2>6. \A l \in ValidOf(f, i) : l <= n
    BY <1>1, <1>5, <2>3 DEF ValidOf
  <2>7. LastOf(ValidOf(f, i)) = n
    BY <2>2, <2>5, <2>6, LastUnique
  <2>8. f[n].val = e[n].val
    BY <1>1, <2>2, <2>3, <2>4
  <2>9. Value(f, i) = e[n].val /\ Value(e, i) = e[n].val
    BY <2>3, <2>5, <2>7, <2>8 DEF Value, Newest, n
  <2> QED BY <2>9 DEF f
<1> QED BY <1>6, <1>7

(* An erased sector holds nothing.                                          *)
LEMMA ErasedEmpty ==
  ASSUME NEW i
  PROVE  Erased \in Tables /\ Value(Erased, i) = Absent
<1>1. Blank \in Entries /\ Blank.state = "idle"
  BY DEF Blank, Entries
<1>2. \A k \in Slots : Erased[k].state = "idle"
  BY <1>1 DEF Erased
<1>3. ValidOf(Erased, i) = {}
  BY <1>2 DEF ValidOf
<1> QED BY <1>1, <1>3 DEF Erased, Tables, Value

(* The last entry in use, and the newest entry of an item.                  *)
LEMMA TopIsLast ==
  ASSUME NEW e \in Tables
  PROVE  /\ Top(e) \in Slots \cup {0}
         /\ Top(e) # 0 => e[Top(e)].state # "idle"
         /\ \A k \in Slots : k > Top(e) => e[k].state = "idle"
<1>1. InUse(e) \in SUBSET Slots
  BY DEF InUse
<1>2. CASE InUse(e) = {}
  BY <1>2 DEF Top, InUse
<1>3. CASE InUse(e) # {}
  <2>1. LastOf(InUse(e)) \in InUse(e) /\ \A l \in InUse(e) : l <= LastOf(InUse(e))
    BY <1>1, <1>3, LastExists
  <2>2. Top(e) = LastOf(InUse(e))
    BY <1>3 DEF Top
  <2>3. Top(e) \in Slots /\ e[Top(e)].state # "idle"
    BY <1>1, <2>1, <2>2 DEF InUse
  <2>4. ASSUME NEW k \in Slots, k > Top(e), e[k].state # "idle" PROVE FALSE
    <3>1. k <= Top(e)
      BY <2>1, <2>2, <2>4 DEF InUse
    <3> QED BY <3>1, <2>3, <2>4 DEF Slots
  <2> QED BY <2>3, <2>4
<1> QED BY <1>2, <1>3

LEMMA NewestIsValid ==
  ASSUME NEW e \in Tables, NEW i
  PROVE  /\ Newest(e, i) \in Slots \cup {0}
         /\ Newest(e, i) # 0 => e[Newest(e, i)].state = "valid" /\ e[Newest(e, i)].item = i
         /\ Newest(e, i) = 0 => ValidOf(e, i) = {}
         /\ Value(e, i) \in Values \cup {Absent}
<1>1. ValidOf(e, i) \in SUBSET Slots
  BY DEF ValidOf
<1>2. CASE ValidOf(e, i) = {}
  BY <1>2 DEF Newest, Value
<1>3. CASE ValidOf(e, i) # {}
  <2>1. LastOf(ValidOf(e, i)) \in ValidOf(e, i)
    BY <1>1, <1>3, LastExists
  <2>2. Newest(e, i) = LastOf(ValidOf(e, i)) /\ Value(e, i) = e[Newest(e, i)].val
    BY <1>3 DEF Newest, Value
  <2>3. Newest(e, i) \in Slots /\ e[Newest(e, i)].state = "valid" /\ e[Newest(e, i)].item = i
    BY <1>1, <2>1, <2>2 DEF ValidOf
  <2>4. e[Newest(e, i)] \in Entries
    BY <2>3 DEF Tables
  <2> QED BY <2>2, <2>3, <2>4 DEF Slots, Entries
<1> QED BY <1>2, <1>3

-----------------------------------------------------------------------------
(* The invariant.  The first part holds whatever is refused.                *)

Writing == pc \in {"index", "payload", "header", "state"}

Sound(e) ==
  \A k \in Slots :
    /\ k > 1 /\ e[k].state # "idle" => e[k - 1].state \notin {"idle", "torn"}
    /\ e[k].state = "valid" => e[k].hdr /\ e[k].val \in Values /\ e[k].item \in Items

CallOK ==
  /\ pc = "idle" <=> op.call = "none"
  /\ pc = "idle" => op = NoOp
  /\ pc # "idle" => op.item \in Items
  /\ op.call = "write" => op.val \in Values
  /\ pc \notin {"idle", "invalidate", "validate", "lookup"} => op.call = "write"
  /\ pc = "lookup" => op.call = "read"

CountersOK ==
  /\ pc \in {"erase", "place", "dedup"} => op.wItemIdx = 0
  /\ pc \in {"erase", "place"} => op.src = 0
  /\ pc = "dedup" => op.src # 0
  /\ pc = "copy" => op.wItemIdx <= op.src
  /\ Writing => op.wItemIdx # 0 /\ (Copying => op.wItemIdx <= op.src)
  /\ pc = "delete" => op.deleteIdx # 0
  /\ pc \in {"erase", "place", "dedup", "copy"} \/ (Writing /\ Copying)
       => op.deleteIdx = 0
  /\ pc = "ready" => op.sectorUpdate
  /\ pc \in {"invalidate", "validate"} =>
       IF op.sectorUpdate THEN op.call = "write"
       ELSE op.wItemIdx = 0 /\ op.src = 0 /\ op.deleteIdx = 0

EntryOK ==
  /\ Writing /\ Copying => Old[op.src].state = "valid"
  /\ pc \in {"payload", "header", "state"} => Entry.state = "operation" /\ Entry.item = Item
  /\ pc \in {"header", "state"} => Entry.val = Payload
  /\ pc = "state" => Entry.hdr
  /\ (Writing \/ pc = "delete") /\ op.deleteIdx # 0 =>
       index[op.opSect][op.deleteIdx].state # "idle"

SInv ==
  /\ TypeOK
  /\ \A s \in Sectors : Sound(index[s])
  /\ CallOK
  /\ CountersOK
  /\ EntryOK

(* The second part holds until a write is refused.  A sector cut off behind *)
(* entry n.                                                                 *)
Prefix(e, n) == [k \in Slots |-> IF k <= n THEN e[k] ELSE Blank]

Here == op.opSect
There == Other(op.opSect)
Holds(i) == IF i = op.item THEN op.val ELSE Absent

(* Appending to the current sector, or to the first one of all.             *)
InPlace ==
  ~op.sectorUpdate =>
    /\ op.src = 0
    /\ pc \notin {"dedup", "copy", "ready"}
    /\ pc \in {"place", "lookup", "delete", "first"} \/ Writing =>
         IF Found THEN Here = Current /\ usedFlag[Here] = "valid"
         ELSE Here = 0 /\ (pc # "lookup" => usedFlag[0] = "idle")
    /\ pc = "erase" => ~Found /\ Here = 0
    /\ pc = "place" /\ ~Found => index[0] = Erased
    /\ pc \in {"invalidate", "validate"} => usedFlag[Here] = "ready"
    /\ pc = "invalidate" => Here = Current
    /\ pc = "validate" => usedFlag[There] = "invalid"
    /\ Writing =>
         /\ \A k \in Slots : k >= op.wItemIdx => index[Here][k].state # "valid"
         /\ op.deleteIdx # 0 => /\ op.deleteIdx < op.wItemIdx
                                /\ index[Here][op.deleteIdx].state = "valid"
                                /\ index[Here][op.deleteIdx].item = op.item
         /\ ~Found => op.wItemIdx = 1
    /\ pc = "first" /\ ~Found => \A i \in Items : Value(index[0], i) = Holds(i)
    /\ pc = "first" /\ Found => Stored[op.item] = op.val
    /\ pc = "delete" => /\ Found /\ Stored[op.item] = op.val
                        /\ Stale(index[Here], op.deleteIdx)

(* The new sector holds the other items of the old one, as far as it was    *)
(* copied.                                                                  *)
CopiedUpTo(n) ==
  \A i \in Items : Value(index[Here], i) =
                     IF i = op.item THEN Absent ELSE Value(Prefix(index[There], n), i)
CopiedAll ==
  \A i \in Items : Value(index[Here], i) =
                     IF i = op.item THEN op.val ELSE Value(index[There], i)

InUpdate ==
  op.sectorUpdate =>
    /\ pc \notin {"idle", "place", "lookup", "delete", "first"}
    /\ pc \in {"erase", "dedup", "copy", "ready", "invalidate"} \/ Writing =>
         usedFlag[There] = "valid"
    /\ pc \in {"erase", "dedup", "copy", "ready"} \/ Writing => There = Current
    /\ pc \in {"dedup", "copy", "ready"} \/ Writing => usedFlag[Here] = "idle"
    /\ pc = "dedup" => index[Here] = Erased
    /\ pc = "copy" =>
         /\ \A k \in Slots : index[Here][k].state =
                               IF k <= op.wItemIdx THEN "valid" ELSE "idle"
         /\ CopiedUpTo(op.src)
    /\ Writing =>
         /\ op.deleteIdx = 0
         /\ \A k \in Slots :
              /\ k < op.wItemIdx => index[Here][k].state = "valid"
              /\ k > op.wItemIdx => index[Here][k].state = "idle"
         /\ index[Here][op.wItemIdx].state # "valid"
         /\ CopiedUpTo(IF Copying THEN op.src - 1 ELSE MODULE_IDX_NUM)
         /\ Copying => Old[op.src].item # op.item
    /\ pc \in {"ready", "invalidate"} => CopiedAll
    /\ pc \in {"invalidate", "validate"} => usedFlag[Here] = "ready"
    /\ pc = "validate" => usedFlag[There] = "invalid" /\ Stored[op.item] = op.val

RInv ==
  /\ ~op.forceChgSec
  /\ pc = "index" => Writable
  /\ pc = "return" => Stored[op.item] = op.val
  /\ InPlace
  /\ InUpdate

IInv == SInv /\ (refused = 0 => RInv)

-----------------------------------------------------------------------------
(* A sector stays sound when an entry is begun behind the last one, and     *)
(* when the state of an entry in use changes.                               *)
LEMMA SoundSet ==
  ASSUME NEW e \in Tables, Sound(e), NEW k \in Slots, NEW x \in Entries,
         x.state # "idle",
         x.state = "valid" => x.hdr /\ x.val \in Values /\ x.item \in Items,
         \/ e[k].state = "idle" /\ (k > 1 => e[k - 1].state \notin {"idle", "torn"})
         \/ e[k].state # "idle" /\ x.state # "torn"
  PROVE  [e EXCEPT ![k] = x] \in Tables /\ Sound([e EXCEPT ![k] = x])
<1> DEFINE f == [e EXCEPT ![k] = x]
<1>1. f \in Tables
  BY DEF Tables
<1>2. \A l \in Slots : f[l] = IF l = k THEN x ELSE e[l]
  BY DEF Tables
<1> HIDE DEF f
<1>3. SUFFICES ASSUME NEW l \in Slots
               PROVE  /\ l > 1 /\ f[l].state # "idle" => f[l - 1].state \notin {"idle", "torn"}
                      /\ f[l].state = "valid" => f[l].hdr /\ f[l].val \in Values /\ f[l].item \in Items
  BY <1>1 DEF Sound, f
<1>4. f[l].state = "valid" => f[l].hdr /\ f[l].val \in Values /\ f[l].item \in Items
  BY <1>2 DEF Sound
<1>5. ASSUME l > 1, f[l].state # "idle" PROVE f[l - 1].state \notin {"idle", "torn"}
  <2>1. l - 1 \in Slots
    BY <1>5 DEF Slots
  <2>2. CASE l = k
    <3>1. l - 1 # k /\ f[l - 1] = e[l - 1]
      BY <1>2, <2>1, <2>2 DEF Slots
    <3>2. e[k].state # "idle" => e[k - 1].state \notin {"idle", "torn"}
      BY <1>5, <2>2 DEF Sound
    <3> QED BY <1>5, <2>2, <3>1, <3>2
  <2>3. CASE l # k
    <3>1. f[l] = e[l] /\ e[l - 1].state \notin {"idle", "torn"}
      BY <1>2, <1>5, <2>3 DEF Sound
    <3>2. l - 1 = k => e[k].state # "idle" /\ f[l - 1] = x
      BY <1>2, <2>1, <3>1
    <3>3. l - 1 # k => f[l - 1] = e[l - 1]
      BY <1>2, <2>1
    <3> QED BY <3>1, <3>2, <3>3
  <2> QED BY <2>2, <2>3
<1> QED BY <1>4, <1>5

LEMMA DeadEntries ==
  /\ Blank \in Entries /\ Blank.state = "idle"
  /\ Dead \in Entries /\ Dead.state = "invalid"
  BY DEF Blank, Dead, Entries

LEMMA SoundForgotten ==
  ASSUME NEW e \in Tables, Sound(e)
  PROVE  Forgotten(e) \in Tables /\ Sound(Forgotten(e))
<1>1. Forgotten(e) \in Tables
  BY DeadEntries DEF Forgotten, Tables
<1>2. \A k \in Slots : Forgotten(e)[k] = IF e[k].state = "idle" THEN Blank ELSE Dead
  BY DEF Forgotten
<1>3. ASSUME NEW k \in Slots, k > 1, Forgotten(e)[k].state # "idle"
      PROVE  Forgotten(e)[k - 1].state \notin {"idle", "torn"}
  <2>1. k - 1 \in Slots
    BY <1>3 DEF Slots
  <2>2. e[k].state # "idle"
    BY <1>2, <1>3, DeadEntries
  <2>3. e[k - 1].state # "idle"
    BY <1>3, <2>2 DEF Sound
  <2> QED BY <1>2, <2>1, <2>3, DeadEntries
<1>4. \A k \in Slots : Forgotten(e)[k].state # "valid"
  BY <1>2, DeadEntries
<1> QED BY <1>1, <1>3, <1>4 DEF Sound

LEMMA SoundErased == Erased \in Tables /\ Sound(Erased)
  BY DeadEntries DEF Erased, Tables, Sound

(* Setting an entry leaves the other sector alone.                          *)
LEMMA SetEntryEffect ==
  ASSUME NEW I \in [Sectors -> Tables], NEW s \in Sectors, NEW k \in Slots, NEW x \in Entries
  PROVE  /\ [I EXCEPT ![s][k] = x] \in [Sectors -> Tables]
         /\ [I EXCEPT ![s][k] = x][s] = [I[s] EXCEPT ![k] = x]
         /\ [I EXCEPT ![s][k] = x][Other(s)] = I[Other(s)]
<1>1. [I[s] EXCEPT ![k] = x] \in Tables
  BY DEF Tables
<1>2. [I EXCEPT ![s][k] = x] = [I EXCEPT ![s] = [I[s] EXCEPT ![k] = x]]
  OBVIOUS
<1>3. Other(s) \in Sectors /\ Other(s) # s
  BY DEF Sectors, Other
<1> QED BY <1>1, <1>2, <1>3

-----------------------------------------------------------------------------
(* The first part is inductive.                                             *)

Answers == {"none", "ok", "failed", Absent} \cup Values

LEMMA NoOpType == NoOp \in Ops /\ NoOp.call = "none" /\ NoOp.wItemIdx = 0
  BY DEF NoOp, Ops, Sectors

(* nv_sector_read, at the start of a call.                                  *)
LEMMA ReadSectorKeeps ==
  ASSUME SInv, NEW o \in Ops, ReadSector(o), o.call \in {"read", "write"},
         o.item \in Items, o.call = "write" => o.val \in Values, o.wItemIdx = 0, o.src = 0,
         o.deleteIdx = 0, ~o.sectorUpdate,
         status' \in Answers, refused' \in 0..MaxRefused
  PROVE  SInv'
<1>1. Current \in Sectors
  BY DEF Current, Sectors
<1>2. op' \in Ops /\ op'.call = o.call /\ op'.item = o.item /\ op'.val = o.val
      /\ op'.wItemIdx = 0 /\ op'.src = 0 /\ op'.deleteIdx = 0
      /\ ~op'.sectorUpdate
  BY <1>1 DEF ReadSector, Ops, Sectors
<1>3. pc' \in {"erase", "lookup", "invalidate", "place"}
      /\ (pc' \in {"erase", "place"} => o.call = "write")
      /\ (pc' = "lookup" => o.call = "read")
  BY DEF ReadSector
<1>4. UNCHANGED <<usedFlag, index>>
  BY DEF ReadSector, Flash
<1>5. TypeOK'
  BY <1>2, <1>3, <1>4 DEF SInv, TypeOK, Answers, Steps
<1>6. (\A s \in Sectors : Sound(index[s]))'
  BY <1>4 DEF SInv
<1>7. CallOK' /\ CountersOK' /\ EntryOK'
  BY <1>2, <1>3 DEF CallOK, CountersOK, EntryOK, Writing
<1> QED BY <1>5, <1>6, <1>7 DEF SInv

(* The call is over, or was cut off.                                        *)
LEMMA DoneKeeps ==
  ASSUME SInv, pc' = "idle", op' = NoOp, status' \in Answers, refused' \in 0..MaxRefused,
         usedFlag' \in [Sectors -> SectorStates],
         index' \in [Sectors -> [Slots -> Entries]],
         \A s \in Sectors : Sound(index'[s])
  PROVE  SInv'
<1>1. TypeOK'
  BY NoOpType DEF SInv, TypeOK, Answers, Steps
<1>2. CallOK' /\ CountersOK' /\ EntryOK'
  BY NoOpType DEF CallOK, CountersOK, EntryOK, Writing
<1> QED BY <1>1, <1>2 DEF SInv

(* A step of a write between its begin and its return: the types of what it *)
(* changes and the facts about the place it comes to.                       *)
LEMMA StepKeeps ==
  ASSUME SInv, op.call = "write", pc # "idle",
         op' \in Ops, op'.call = op.call, op'.item = op.item, op'.val = op.val,
         pc' \in Steps \ {"idle", "lookup"}, status' = status, refused' \in 0..MaxRefused,
         usedFlag' \in [Sectors -> SectorStates], index' \in [Sectors -> Tables],
         \A s \in Sectors : Sound(index'[s]),
         CountersOK', EntryOK'
  PROVE  SInv'
<1>1. op.item \in Items /\ op.val \in Values
  BY DEF SInv, CallOK
<1>2. TypeOK'
  BY DEF SInv, TypeOK, Tables
<1>3. CallOK'
  BY <1>1 DEF CallOK
<1> QED BY <1>2, <1>3 DEF SInv

LEMMA SInvStep == SInv /\ [Next]_vars => SInv'
<1> SUFFICES ASSUME SInv, [Next]_vars PROVE SInv'
  OBVIOUS
<1> USE DEF Flash
<1>t. /\ usedFlag \in [Sectors -> SectorStates] /\ index \in [Sectors -> Tables]
      /\ op \in Ops /\ status \in Answers /\ refused \in 0..MaxRefused /\ pc \in Steps
      /\ op.opSect \in Sectors /\ Other(op.opSect) \in Sectors
      /\ op.wItemIdx \in Slots \cup {0} /\ op.src \in Slots \cup {0}
      /\ op.deleteIdx \in Slots \cup {0}
      /\ \A s \in Sectors : Sound(index[s])
      /\ index[op.opSect] \in Tables /\ Old \in Tables
  BY DEF SInv, TypeOK, Answers, Ops, Sectors, Other, Tables, Old
<1>r. Powered \/ LowVoltage => refused' \in 0..MaxRefused
  BY <1>t DEF Powered, LowVoltage
<1>1. ASSUME NEW i \in Items, Read(i), Powered PROVE SInv'
  <2> DEFINE o == [NoOp EXCEPT !.call = "read", !.item = i]
  <2>1. o \in Ops /\ o.call = "read" /\ o.item = i /\ o.wItemIdx = 0 /\ o.src = 0
        /\ o.deleteIdx = 0 /\ ~o.sectorUpdate
    BY DEF NoOp, Ops, Sectors
  <2>2. ReadSector(o) /\ status' \in Answers
    BY <1>1 DEF Read, Answers
  <2> HIDE DEF o
  <2> QED BY <2>1, <2>2, <1>1, <1>r, ReadSectorKeeps
<1>2. ASSUME NEW i \in Items, NEW v \in Values, Write(i, v), Powered PROVE SInv'
  <2> DEFINE o == [NoOp EXCEPT !.call = "write", !.item = i, !.val = v]
  <2>1. o \in Ops /\ o.call = "write" /\ o.item = i /\ o.val = v /\ o.wItemIdx = 0 /\ o.src = 0
        /\ o.deleteIdx = 0 /\ ~o.sectorUpdate
    BY DEF NoOp, Ops, Sectors
  <2>2. ReadSector(o) /\ status' \in Answers
    BY <1>2 DEF Write, Answers
  <2> HIDE DEF o
  <2> QED BY <2>1, <2>2, <1>2, <1>r, ReadSectorKeeps
<1>e. ASSUME pc = "erase", AfterErase
      PROVE  /\ op' \in Ops /\ op'.call = op.call /\ op'.item = op.item /\ op'.val = op.val
             /\ pc' \in {"dedup", "copy", "place"} /\ status' = status
             /\ CountersOK' /\ EntryOK'
  <2>1. op.wItemIdx = 0 /\ op.deleteIdx = 0
    BY <1>e DEF SInv, CountersOK
  <2>2. op' \in Ops /\ op'.call = op.call /\ op'.item = op.item /\ op'.val = op.val
        /\ op'.wItemIdx = 0 /\ op'.src \in Slots \cup {0} /\ op'.deleteIdx = 0
        /\ (op'.src = 0 <=> pc' # "dedup")
    <3> DEFINE n == IF pc' = "dedup" THEN MODULE_IDX_NUM ELSE 0
    <3>1. n \in Slots \cup {0} /\ op' = [op EXCEPT !.src = n] /\ (n = 0 <=> pc' # "dedup")
      BY <1>e DEF AfterErase, Slots
    <3> HIDE DEF n
    <3>2. op' \in Ops /\ op'.call = op.call /\ op'.item = op.item /\ op'.val = op.val
          /\ op'.wItemIdx = op.wItemIdx /\ op'.src = n /\ op'.deleteIdx = op.deleteIdx
      BY <3>1, <1>t DEF Ops
    <3> QED BY <3>1, <3>2, <2>1
  <2>3. pc' \in {"dedup", "copy", "place"} /\ status' = status
    BY <1>e DEF AfterErase
  <2>4. CountersOK' /\ EntryOK'
    BY <2>2, <2>3 DEF CountersOK, EntryOK, Writing, Slots
  <2> QED BY <2>2, <2>3, <2>4
<1>w. pc \notin {"idle", "invalidate", "validate", "lookup"} => op.call = "write"
  BY DEF SInv, CallOK
<1>3. ASSUME Erase, Powered PROVE SInv'
  <2>1. pc = "erase" /\ AfterErase /\ op.call = "write"
    BY <1>3, <1>w DEF Erase
  <2>2. usedFlag' \in [Sectors -> SectorStates]
    BY <1>3, <1>t DEF Erase, SectorStates
  <2>3. index' \in [Sectors -> Tables] /\ \A s \in Sectors : Sound(index'[s])
    BY <1>3, <1>t, SoundErased DEF Erase
  <2> QED BY <2>1, <2>2, <2>3, <1>e, <1>r, <1>3, StepKeeps DEF Steps
<1>4. ASSUME AppendEntry, Powered PROVE SInv'
  <2>1. Top(index[op.opSect]) \in Slots \cup {0} /\ Top(index[op.opSect]) < MODULE_IDX_NUM
    BY <1>4, <1>t, TopIsLast DEF AppendEntry
  <2>2. Top(index[op.opSect]) + 1 \in Slots
    BY <2>1 DEF Slots
  <2>3. Newest(index[op.opSect], op.item) \in Slots \cup {0}
    BY <1>t, NewestIsValid
  <2>4. op' \in Ops /\ op'.call = op.call /\ op'.item = op.item /\ op'.val = op.val
        /\ op'.wItemIdx = Top(index[op.opSect]) + 1 /\ op'.src = op.src
        /\ op'.opSect = op.opSect /\ op'.deleteIdx = Newest(index[op.opSect], op.item)
    BY <1>4, <1>t, <2>2, <2>3 DEF AppendEntry, Ops
  <2>5. pc = "place" /\ pc' = "index" /\ UNCHANGED <<usedFlag, index, status>>
    BY <1>4 DEF AppendEntry
  <2>6. op.src = 0
    BY <2>5 DEF SInv, CountersOK
  <2>7. op'.deleteIdx # 0 => index'[op'.opSect][op'.deleteIdx].state # "idle"
    BY <2>4, <2>5, <1>t, NewestIsValid
  <2>8. CountersOK' /\ EntryOK'
    BY <2>2, <2>4, <2>5, <2>6, <2>7 DEF CountersOK, EntryOK, Copying, Slots, Writing
  <2> QED BY <2>4, <2>5, <2>8, <1>4, <1>t, <1>r, <1>w, StepKeeps DEF Steps
<1>5. ASSUME ChangeSector, Powered PROVE SInv'
  <2>1. op' \in Ops /\ op'.call = op.call /\ op'.item = op.item /\ op'.val = op.val
        /\ op'.wItemIdx = op.wItemIdx /\ op'.src = op.src /\ op'.deleteIdx = op.deleteIdx
    BY <1>5, <1>t DEF ChangeSector, Ops
  <2>2. pc = "place" /\ pc' = "erase" /\ UNCHANGED <<usedFlag, index, status>>
    BY <1>5 DEF ChangeSector
  <2>3. CountersOK' /\ EntryOK'
    BY <2>1, <2>2 DEF SInv, CountersOK, EntryOK, Writing
  <2> QED BY <2>1, <2>2, <2>3, <1>5, <1>t, <1>r, <1>w, StepKeeps DEF Steps
<1>6. ASSUME Dedup PROVE SInv'
  <2>1. pc = "dedup" /\ op.src \in Slots /\ status' = status /\ op.wItemIdx = 0
        /\ op.deleteIdx = 0
    BY <1>6, <1>t DEF Dedup, SInv, CountersOK
  <2>2. op' = [op EXCEPT !.src = op.src - 1] /\ pc' = IF op.src = 1 THEN "copy" ELSE "dedup"
    BY <1>6 DEF Dedup
  <2>3. op' \in Ops /\ op'.call = op.call /\ op'.item = op.item /\ op'.val = op.val
        /\ op'.wItemIdx = 0 /\ op'.src = op.src - 1 /\ op'.src \in Slots \cup {0}
        /\ op'.deleteIdx = 0
    BY <2>1, <2>2, <1>t DEF Ops, Slots
  <2>4. CountersOK' /\ EntryOK'
    BY <2>1, <2>2, <2>3 DEF CountersOK, EntryOK, Writing, Slots
  <2>5. CASE Stale(Old, op.src) /\ SetEntry(Other(op.opSect), op.src, Dead) /\ Powered
    <3>1. Old[op.src].state = "valid" /\ Old = index[Other(op.opSect)]
      BY <2>5 DEF Stale, Old
    <3>2. [Old EXCEPT ![op.src] = Dead] \in Tables /\ Sound([Old EXCEPT ![op.src] = Dead])
      BY <3>1, <2>1, <1>t, DeadEntries, SoundSet
    <3>3. usedFlag' = usedFlag /\ index' = [index EXCEPT ![Other(op.opSect)][op.src] = Dead]
      BY <2>5 DEF SetEntry
    <3>4. index' \in [Sectors -> Tables] /\ \A s \in Sectors : Sound(index'[s])
      BY <3>1, <3>2, <3>3, <2>1, <1>t, DeadEntries, SetEntryEffect DEF Sectors, Other
    <3> QED BY <3>3, <3>4, <2>1, <2>2, <2>3, <2>4, <2>5, <1>t, <1>r, <1>w, StepKeeps DEF Steps
  <2>6. CASE (Powered \/ LowVoltage) /\ UNCHANGED <<usedFlag, index>>
    BY <2>1, <2>2, <2>3, <2>4, <2>6, <1>t, <1>r, <1>w, StepKeeps DEF Steps
  <2> QED BY <1>6, <2>5, <2>6 DEF Dedup
<1>7. ASSUME CopyNext, Powered PROVE SInv'
  <2>1. pc = "copy" /\ ~Ends /\ UNCHANGED <<usedFlag, index, status>>
        /\ op.wItemIdx <= op.src /\ op.deleteIdx = 0
    BY <1>7 DEF CopyNext, SInv, CountersOK
  <2>2. op.src + 1 \in Slots /\ op.wItemIdx + 1 \in Slots
    BY <2>1, <1>t DEF Ends, Slots
  <2>3. op' = [op EXCEPT !.src = op.src + 1, !.wItemIdx = IF Copied(Old[op.src + 1])
                                     THEN op.wItemIdx + 1 ELSE op.wItemIdx]
        /\ pc' = IF Copied(Old[op.src + 1]) THEN "index" ELSE "copy"
    BY <1>7 DEF CopyNext
  <2>4. op' \in Ops /\ op'.call = op.call /\ op'.item = op.item /\ op'.val = op.val
        /\ op'.src = op.src + 1 /\ op'.opSect = op.opSect /\ op'.deleteIdx = op.deleteIdx
        /\ op'.wItemIdx = IF Copied(Old[op.src + 1]) THEN op.wItemIdx + 1 ELSE op.wItemIdx
    BY <2>2, <2>3, <1>t DEF Ops
  <2>5. Copied(Old[op.src + 1]) => Old'[op'.src].state = "valid"
    BY <2>1, <2>4 DEF Copied, Old
  <2>6. CountersOK' /\ EntryOK'
    BY <2>1, <2>2, <2>3, <2>4, <2>5, <1>t DEF CountersOK, EntryOK, Writing, Slots
  <2> QED BY <2>1, <2>3, <2>4, <2>6, <1>7, <1>t, <1>r, <1>w, StepKeeps DEF Steps
<1>n. ASSUME op.call = "write", pc \in {"copy", "index"}, WriteNew \/ NoSpace,
             UNCHANGED <<usedFlag, index, status>>, Powered \/ LowVoltage
      PROVE  SInv'
  <2>1. CASE WriteNew
    <3>1. op.wItemIdx + 1 \in Slots
      BY <2>1, <1>t DEF WriteNew, Slots
    <3>2. Newest(index[op.opSect], op.item) \in Slots \cup {0}
      BY <1>t, NewestIsValid
    <3>3. op' \in Ops /\ op'.call = op.call /\ op'.item = op.item /\ op'.val = op.val
          /\ op'.src = 0 /\ op'.wItemIdx = op.wItemIdx + 1 /\ pc' = "index"
          /\ op'.opSect = op.opSect /\ op'.deleteIdx = Newest(index[op.opSect], op.item)
      BY <2>1, <3>1, <3>2, <1>t DEF WriteNew, Ops
    <3>4. op'.deleteIdx # 0 => index'[op'.opSect][op'.deleteIdx].state # "idle"
      BY <3>3, <1>n, <1>t, NewestIsValid
    <3>5. CountersOK' /\ EntryOK'
      BY <3>1, <3>3, <3>4 DEF CountersOK, EntryOK, Copying, Slots, Writing
    <3> QED BY <3>3, <3>5, <1>n, <1>t, <1>r, StepKeeps DEF Steps
  <2>2. CASE NoSpace
    <3>1. pc' = "fail" /\ op' = op
      BY <2>2 DEF NoSpace
    <3>2. CountersOK' /\ EntryOK'
      BY <3>1 DEF CountersOK, EntryOK, Writing
    <3> QED BY <3>1, <3>2, <1>n, <1>t, <1>r, StepKeeps DEF Steps
  <2> QED BY <1>n, <2>1, <2>2
<1>8. ASSUME CopyEnd, Powered PROVE SInv'
  BY <1>8, <1>n, <1>w DEF CopyEnd
(* Writing entry wItemIdx. *)
<1>s. ASSUME NEW x \in Entries, SetEntry(op.opSect, op.wItemIdx, x), op.wItemIdx \in Slots,
             x.state # "idle",
             x.state = "valid" => x.hdr /\ x.val \in Values /\ x.item \in Items,
             Writable \/ (Entry.state # "idle" /\ x.state # "torn")
      PROVE  /\ usedFlag' = usedFlag
             /\ index' \in [Sectors -> Tables] /\ \A s \in Sectors : Sound(index'[s])
             /\ index'[op.opSect][op.wItemIdx] = x
             /\ index'[Other(op.opSect)] = Old
             /\ \A k \in Slots : index[op.opSect][k].state # "idle" =>
                                 index'[op.opSect][k].state # "idle"
  <2> DEFINE e == index[op.opSect]
  <2>1. e \in Tables /\ Sound(e) /\ Entry = e[op.wItemIdx]
    BY <1>t DEF Entry
  <2>2. \/ e[op.wItemIdx].state = "idle"
           /\ (op.wItemIdx > 1 => e[op.wItemIdx - 1].state \notin {"idle", "torn"})
        \/ e[op.wItemIdx].state # "idle" /\ x.state # "torn"
    BY <1>s DEF Writable, Entry
  <2>3. [e EXCEPT ![op.wItemIdx] = x] \in Tables /\ Sound([e EXCEPT ![op.wItemIdx] = x])
    BY <1>s, <2>1, <2>2, SoundSet
  <2>4. usedFlag' = usedFlag /\ index' = [index EXCEPT ![op.opSect][op.wItemIdx] = x]
    BY <1>s DEF SetEntry
  <2>5. index' \in [Sectors -> Tables] /\ index'[op.opSect] = [e EXCEPT ![op.wItemIdx] = x]
        /\ index'[Other(op.opSect)] = index[Other(op.opSect)]
    BY <2>4, <1>s, <1>t, SetEntryEffect
  <2>6. \A s \in Sectors : s = op.opSect \/ s = Other(op.opSect)
    BY <1>t DEF Sectors, Other
  <2>7. \A k \in Slots : index'[op.opSect][k] = IF k = op.wItemIdx THEN x ELSE e[k]
    BY <2>5, <2>1, <1>s DEF Tables
  <2>8. \A s \in Sectors : Sound(index'[s])
    BY <2>3, <2>5, <2>6, <1>t
  <2> QED BY <1>s, <2>4, <2>5, <2>7, <2>8, <1>t DEF Old
<1>i. ASSUME Writing
      PROVE  /\ op.wItemIdx \in Slots /\ Item \in Items /\ Payload \in Values /\ op.call = "write"
             /\ Copying => op.wItemIdx <= op.src /\ Old[op.src].state = "valid"
             /\ Copying => op.deleteIdx = 0
             /\ op.deleteIdx # 0 => index[op.opSect][op.deleteIdx].state # "idle"
             /\ Entry \in Entries
  <2>1. op.wItemIdx \in Slots /\ op.call = "write"
        /\ (Copying => op.wItemIdx <= op.src /\ Old[op.src].state = "valid")
        /\ (Copying => op.deleteIdx = 0)
        /\ (op.deleteIdx # 0 => index[op.opSect][op.deleteIdx].state # "idle")
    BY <1>i, <1>t, <1>w DEF SInv, CountersOK, EntryOK, Writing
  <2>2. CASE Copying
    <3>1. op.src \in Slots
      BY <2>2, <1>t DEF Copying
    <3>2. Old[op.src].item \in Items /\ Old[op.src].val \in Values
      BY <3>1, <2>1, <2>2, <1>t DEF Sound, Old
    <3> QED BY <2>1, <2>2, <3>2, <1>t DEF Item, Payload, Entry, Tables
  <2>3. CASE ~Copying
    BY <2>1, <2>3, <1>t DEF Item, Payload, Entry, Tables, SInv, CallOK
  <2> QED BY <2>2, <2>3
<1>9. ASSUME WriteIndex, Powered PROVE SInv'
  <2> DEFINE x == [Blank EXCEPT !.state = "operation", !.item = Item]
  <2>1. pc = "index" /\ pc' = "payload" /\ UNCHANGED <<op, status>> /\ Writable
        /\ SetEntry(op.opSect, op.wItemIdx, x)
    BY <1>9 DEF WriteIndex, Goto
  <2>2. Writing
    BY <2>1 DEF Writing
  <2>3. x \in Entries /\ x.state = "operation" /\ x.item = Item
    BY <2>2, <1>i DEF Blank, Entries
  <2> HIDE DEF x
  <2>4. /\ usedFlag' = usedFlag /\ index' \in [Sectors -> Tables]
        /\ \A s \in Sectors : Sound(index'[s])
        /\ index'[op.opSect][op.wItemIdx] = x /\ index'[Other(op.opSect)] = Old
        /\ (op.deleteIdx # 0 => index'[op.opSect][op.deleteIdx].state # "idle")
    BY <2>1, <2>2, <2>3, <1>i, <1>s, <1>t
  <2>5. Entry' = x /\ Old' = Old /\ Item' = Item /\ Payload' = Payload /\ Copying' = Copying
    BY <2>1, <2>4 DEF Entry, Old, Item, Payload, Copying
  <2>6. CountersOK' /\ EntryOK'
    BY <2>1, <2>2, <2>3, <2>4, <2>5, <1>i DEF CountersOK, EntryOK, Slots, Writing
  <2> QED BY <2>1, <2>2, <2>4, <2>6, <1>9, <1>i, <1>t, <1>r, StepKeeps DEF Steps
<1>10. ASSUME WritePayload, Powered PROVE SInv'
  <2> DEFINE x == [Entry EXCEPT !.val = Payload]
  <2>1. pc = "payload" /\ pc' = "header" /\ UNCHANGED <<op, status>>
        /\ SetEntry(op.opSect, op.wItemIdx, x)
    BY <1>10 DEF WritePayload, Goto
  <2>2. Writing /\ Entry.state = "operation" /\ Entry.item = Item
    BY <2>1 DEF Writing, SInv, EntryOK
  <2>3. x \in Entries /\ x.state = "operation" /\ x.item = Item /\ x.val = Payload
    BY <2>2, <1>i DEF Entries
  <2> HIDE DEF x
  <2>4. /\ usedFlag' = usedFlag /\ index' \in [Sectors -> Tables]
        /\ \A s \in Sectors : Sound(index'[s])
        /\ index'[op.opSect][op.wItemIdx] = x /\ index'[Other(op.opSect)] = Old
        /\ (op.deleteIdx # 0 => index'[op.opSect][op.deleteIdx].state # "idle")
    BY <2>1, <2>2, <2>3, <1>i, <1>s, <1>t
  <2>5. Entry' = x /\ Old' = Old /\ Item' = Item /\ Payload' = Payload /\ Copying' = Copying
    BY <2>1, <2>4 DEF Entry, Old, Item, Payload, Copying
  <2>6. CountersOK' /\ EntryOK'
    BY <2>1, <2>2, <2>3, <2>4, <2>5, <1>i DEF CountersOK, EntryOK, Slots, Writing
  <2> QED BY <2>1, <2>2, <2>4, <2>6, <1>10, <1>i, <1>t, <1>r, StepKeeps DEF Steps
<1>11. ASSUME WriteHeader, Powered PROVE SInv'
  <2> DEFINE x == [Entry EXCEPT !.hdr = TRUE]
  <2>1. pc = "header" /\ pc' = "state" /\ UNCHANGED <<op, status>>
        /\ SetEntry(op.opSect, op.wItemIdx, x)
    BY <1>11 DEF WriteHeader, Goto
  <2>2. Writing /\ Entry.state = "operation" /\ Entry.item = Item /\ Entry.val = Payload
    BY <2>1 DEF Writing, SInv, EntryOK
  <2>3. x \in Entries /\ x.state = "operation" /\ x.item = Item /\ x.val = Payload /\ x.hdr
    BY <2>2, <1>i DEF Entries
  <2> HIDE DEF x
  <2>4. /\ usedFlag' = usedFlag /\ index' \in [Sectors -> Tables]
        /\ \A s \in Sectors : Sound(index'[s])
        /\ index'[op.opSect][op.wItemIdx] = x /\ index'[Other(op.opSect)] = Old
        /\ (op.deleteIdx # 0 => index'[op.opSect][op.deleteIdx].state # "idle")
    BY <2>1, <2>2, <2>3, <1>i, <1>s, <1>t
  <2>5. Entry' = x /\ Old' = Old /\ Item' = Item /\ Payload' = Payload /\ Copying' = Copying
    BY <2>1, <2>4 DEF Entry, Old, Item, Payload, Copying
  <2>6. CountersOK' /\ EntryOK'
    BY <2>1, <2>2, <2>3, <2>4, <2>5, <1>i DEF CountersOK, EntryOK, Slots, Writing
  <2> QED BY <2>1, <2>2, <2>4, <2>6, <1>11, <1>i, <1>t, <1>r, StepKeeps DEF Steps
<1>a. ASSUME Writing, pc' = AfterItem, UNCHANGED op,
             op.deleteIdx # 0 => index'[op.opSect][op.deleteIdx].state # "idle"
      PROVE  pc' \in {"copy", "delete", "ready", "first", "return"} /\ CountersOK' /\ EntryOK'
  <2>1. pc' \in {"copy", "delete", "ready", "first", "return"}
        /\ (pc' = "copy" => Copying) /\ (pc' = "delete" => op.deleteIdx # 0)
        /\ (pc' = "ready" => op.sectorUpdate)
    BY <1>a DEF AfterItem, AfterNew
  <2> QED BY <2>1, <1>a, <1>i DEF CountersOK, EntryOK, Writing
<1>12. ASSUME WriteState, Powered PROVE SInv'
  <2> DEFINE x == [Entry EXCEPT !.state = "valid"]
  <2>1. pc = "state" /\ pc' = AfterItem /\ UNCHANGED <<op, status>>
        /\ SetEntry(op.opSect, op.wItemIdx, x)
    BY <1>12 DEF WriteState, Goto
  <2>2. Writing /\ Entry.state = "operation" /\ Entry.item = Item /\ Entry.val = Payload
        /\ Entry.hdr
    BY <2>1 DEF Writing, SInv, EntryOK
  <2>3. x \in Entries /\ x.state = "valid" /\ x.item = Item /\ x.val = Payload /\ x.hdr
    BY <2>2, <1>i DEF Entries
  <2> HIDE DEF x
  <2>4. /\ usedFlag' = usedFlag /\ index' \in [Sectors -> Tables]
        /\ \A s \in Sectors : Sound(index'[s])
        /\ (op.deleteIdx # 0 => index'[op.opSect][op.deleteIdx].state # "idle")
    BY <2>1, <2>2, <2>3, <1>i, <1>s, <1>t
  <2> QED BY <2>1, <2>2, <2>4, <1>12, <1>a, <1>i, <1>t, <1>r, StepKeeps DEF Steps
<1>13. ASSUME DeleteOld, Powered PROVE SInv'
  <2>1. pc = "delete" /\ pc' = AfterNew /\ UNCHANGED <<op, status>>
        /\ SetEntry(op.opSect, op.deleteIdx, Dead)
    BY <1>13 DEF DeleteOld, Goto
  <2>2. op.deleteIdx \in Slots /\ index[op.opSect][op.deleteIdx].state # "idle"
    BY <2>1, <1>t DEF SInv, CountersOK, EntryOK
  <2> DEFINE e == index[op.opSect]
  <2>3. [e EXCEPT ![op.deleteIdx] = Dead] \in Tables /\ Sound([e EXCEPT ![op.deleteIdx] = Dead])
    BY <2>2, <1>t, DeadEntries, SoundSet
  <2>4. usedFlag' = usedFlag /\ index' = [index EXCEPT ![op.opSect][op.deleteIdx] = Dead]
    BY <2>1 DEF SetEntry
  <2>5. index' \in [Sectors -> Tables] /\ \A s \in Sectors : Sound(index'[s])
    BY <2>2, <2>3, <2>4, <1>t, DeadEntries, SetEntryEffect DEF Sectors, Other
  <2>6. pc' \in {"ready", "first", "return"} /\ (pc' = "ready" => op.sectorUpdate)
    BY <2>1 DEF AfterNew
  <2>7. CountersOK' /\ EntryOK'
    BY <2>1, <2>6 DEF CountersOK, EntryOK, Writing
  <2> QED BY <2>1, <2>4, <2>5, <2>6, <2>7, <1>13, <1>t, <1>r, <1>w, StepKeeps DEF Steps
<1>14. ASSUME SetReady, Powered PROVE SInv'
  <2>1. pc = "ready" /\ pc' = "invalidate" /\ UNCHANGED <<op, status, index>>
        /\ usedFlag' = [usedFlag EXCEPT ![op.opSect] = "ready"]
    BY <1>14 DEF SetReady, SetFlag, Goto
  <2>2. usedFlag' \in [Sectors -> SectorStates]
    BY <2>1, <1>t DEF SectorStates
  <2>3. CountersOK' /\ EntryOK'
    BY <2>1, <1>w DEF SInv, CountersOK, EntryOK, Writing
  <2> QED BY <2>1, <2>2, <2>3, <1>14, <1>t, <1>r, <1>w, StepKeeps DEF Steps
<1>f. ASSUME pc \in {"invalidate", "validate"}, UNCHANGED <<op, status>>,
             pc' = "validate" \/ pc' = AfterSwitch,
             usedFlag' \in [Sectors -> SectorStates], index' \in [Sectors -> Tables],
             \A s \in Sectors : Sound(index'[s]), refused' \in 0..MaxRefused
      PROVE  SInv'
  <2>1. op.call \in {"read", "write"} /\ (op.sectorUpdate => op.call = "write")
        /\ (~op.sectorUpdate => op.wItemIdx = 0 /\ op.src = 0 /\ op.deleteIdx = 0)
    BY <1>f, <1>t DEF SInv, CallOK, CountersOK, Ops
  <2>2. pc' \in {"validate", "return", "place", "lookup"}
        /\ (pc' = "return" => op.call = "write")
        /\ (pc' = "place" => op.call = "write" /\ ~op.sectorUpdate)
        /\ (pc' = "lookup" => op.call = "read")
    BY <1>f, <2>1 DEF AfterSwitch, Proceed
  <2>3. CallOK'
    BY <1>f, <2>1, <2>2 DEF SInv, CallOK
  <2>4. CountersOK' /\ EntryOK'
    BY <1>f, <2>1, <2>2 DEF CountersOK, EntryOK, Writing
  <2>5. TypeOK'
    BY <1>f, <1>t, <2>2 DEF TypeOK, Steps, Answers, Tables
  <2> QED BY <1>f, <2>3, <2>4, <2>5 DEF SInv
<1>15. ASSUME Invalidate, Powered PROVE SInv'
  <2>1. pc = "invalidate" /\ pc' = "validate" /\ UNCHANGED <<op, status>>
        /\ usedFlag' = [usedFlag EXCEPT ![Other(op.opSect)] = "invalid"]
        /\ index' = [index EXCEPT ![Other(op.opSect)] = Forgotten(index[Other(op.opSect)])]
    BY <1>15 DEF Invalidate, Goto
  <2>2. usedFlag' \in [Sectors -> SectorStates]
    BY <2>1, <1>t DEF SectorStates
  <2>3. Forgotten(index[Other(op.opSect)]) \in Tables /\ Sound(Forgotten(index[Other(op.opSect)]))
    BY <1>t, SoundForgotten
  <2>4. index' \in [Sectors -> Tables] /\ \A s \in Sectors : Sound(index'[s])
    BY <2>1, <2>3, <1>t
  <2> QED BY <2>1, <2>2, <2>4, <1>15, <1>r, <1>f
<1>16. ASSUME Validate, Powered PROVE SInv'
  <2>1. pc = "validate" /\ pc' = AfterSwitch /\ UNCHANGED <<op, status, index>>
        /\ usedFlag' = [usedFlag EXCEPT ![op.opSect] = "valid"]
    BY <1>16 DEF Validate, Goto, SetFlag
  <2>2. usedFlag' \in [Sectors -> SectorStates]
    BY <2>1, <1>t DEF SectorStates
  <2> QED BY <2>1, <2>2, <1>16, <1>t, <1>r, <1>f
<1>17. ASSUME SetFirst, Powered PROVE SInv'
  <2>1. pc = "first" /\ pc' = "return" /\ UNCHANGED <<op, status, index>>
        /\ usedFlag' = [usedFlag EXCEPT ![op.opSect] = "valid"]
    BY <1>17 DEF SetFirst, Goto, SetFlag
  <2>2. usedFlag' \in [Sectors -> SectorStates]
    BY <2>1, <1>t DEF SectorStates
  <2>3. CountersOK' /\ EntryOK'
    BY <2>1 DEF CountersOK, EntryOK, Writing
  <2> QED BY <2>1, <2>2, <2>3, <1>17, <1>t, <1>r, <1>w, StepKeeps DEF Steps
<1>18. ASSUME Lookup, Powered PROVE SInv'
  <2>1. status' \in Answers
    BY <1>18, <1>t, NewestIsValid DEF Lookup, Done, Answers
  <2> QED BY <2>1, <1>18, <1>t, <1>r, DoneKeeps DEF Lookup, Done, Tables
<1>19. ASSUME Succeed \/ Fail, Powered PROVE SInv'
  BY <1>19, <1>t, <1>r, DoneKeeps DEF Succeed, Fail, Done, Tables, Answers
<1>20. ASSUME Crash, Powered PROVE SInv'
  <2>1. pc # "idle" /\ pc' = "idle" /\ op' = NoOp /\ status' = "failed"
    BY <1>20 DEF Crash
  <2>2. CASE UNCHANGED <<usedFlag, index>>
    BY <2>1, <2>2, <1>20, <1>t, <1>r, DoneKeeps DEF Answers, Tables
  <2>3. CASE pc = "index" /\ Writable
             /\ SetEntry(op.opSect, op.wItemIdx, [Blank EXCEPT !.state = "torn"])
    <3> DEFINE x == [Blank EXCEPT !.state = "torn"]
    <3>1. x \in Entries /\ x.state = "torn"
      BY DEF Blank, Entries
    <3>2. SetEntry(op.opSect, op.wItemIdx, x) /\ Writable /\ Writing
      BY <2>3 DEF Writing
    <3> HIDE DEF x
    <3>3. usedFlag' = usedFlag /\ index' \in [Sectors -> Tables] /\ \A s \in Sectors : Sound(index'[s])
      BY <3>1, <3>2, <1>i, <1>s
    <3> QED BY <2>1, <3>3, <1>20, <1>t, <1>r, DoneKeeps DEF Answers, Tables
  <2>4. CASE TornFlag
    <3>1. /\ usedFlag' = [usedFlag EXCEPT ![op.opSect] = "torn"]
          /\ index' = [index EXCEPT ![op.opSect] = Forgotten(index[op.opSect])]
      BY <2>4 DEF TornFlag
    <3>2. usedFlag' \in [Sectors -> SectorStates]
      BY <3>1, <1>t DEF SectorStates
    <3>3. Forgotten(index[op.opSect]) \in Tables /\ Sound(Forgotten(index[op.opSect]))
      BY <1>t, SoundForgotten
    <3>4. index' \in [Sectors -> Tables] /\ \A s \in Sectors : Sound(index'[s])
      BY <3>1, <3>3, <1>t
    <3> QED BY <2>1, <3>2, <3>4, <1>20, <1>t, <1>r, DoneKeeps DEF Answers, Tables
  <2> QED BY <1>20, <2>2, <2>3, <2>4 DEF Crash, Flash, TornEntry
<1>21. ASSUME IndexRefused PROVE SInv'
  <2>1. pc = "index" /\ Writing /\ status' = status /\ (Powered \/ LowVoltage) /\ op.call = "write"
    BY <1>21, <1>w DEF IndexRefused, Writing
  <2>2. CASE Copying /\ (WriteNew \/ NoSpace) /\ UNCHANGED <<usedFlag, index>>
    BY <2>1, <2>2, <1>n
  <2>3. CASE ReadSector([NoOp EXCEPT !.call = "write", !.item = op.item,
                                     !.val = op.val, !.forceChgSec = TRUE])
    <3> DEFINE o == [NoOp EXCEPT !.call = "write", !.item = op.item,
                                 !.val = op.val, !.forceChgSec = TRUE]
    <3>1. op.item \in Items /\ op.val \in Values
      BY <2>1 DEF SInv, CallOK
    <3>2. o \in Ops /\ o.call = "write" /\ o.item = op.item /\ o.val = op.val
          /\ o.wItemIdx = 0 /\ o.src = 0 /\ o.deleteIdx = 0 /\ ~o.sectorUpdate
      BY <3>1 DEF NoOp, Ops, Sectors
    <3>3. ReadSector(o)
      BY <2>3
    <3> HIDE DEF o
    <3> QED BY <2>1, <3>1, <3>2, <3>3, <1>t, <1>r, ReadSectorKeeps
  <2>4. CASE pc' = "fail" /\ UNCHANGED <<usedFlag, index, op>>
    <3>1. CountersOK' /\ EntryOK'
      BY <2>4 DEF CountersOK, EntryOK, Writing
    <3> QED BY <2>1, <2>4, <3>1, <1>t, <1>r, StepKeeps DEF Steps
  <2> QED BY <1>21, <2>2, <2>3, <2>4 DEF IndexRefused
<1>22. ASSUME Refused PROVE SInv'
  <2>1. UNCHANGED <<usedFlag, index>> /\ (Powered \/ LowVoltage)
    BY <1>22 DEF Refused
  <2>2. CASE pc = "erase" /\ AfterErase
    BY <2>1, <2>2, <1>e, <1>t, <1>r, <1>w, StepKeeps DEF Steps
  <2>3. CASE \/ pc \in {"payload", "header", "delete", "ready"} /\ Goto("fail")
             \/ pc = "first" /\ Goto("return")
    <3>1. pc' \in {"fail", "return"} /\ UNCHANGED <<op, status>> /\ op.call = "write" /\ pc # "idle"
      BY <2>3, <1>w DEF Goto
    <3>2. CountersOK' /\ EntryOK'
      BY <3>1 DEF CountersOK, EntryOK, Writing
    <3> QED BY <2>1, <3>1, <3>2, <1>t, <1>r, StepKeeps DEF Steps
  <2>4. CASE pc = "state" /\ Goto(AfterItem)
    <3>1. Writing /\ pc' = AfterItem /\ UNCHANGED <<op, status>> /\ pc # "idle"
      BY <2>4 DEF Goto, Writing
    <3>2. pc' \in {"copy", "delete", "ready", "first", "return"} /\ CountersOK' /\ EntryOK'
      BY <2>1, <3>1, <1>i, <1>a
    <3> QED BY <2>1, <3>1, <3>2, <1>i, <1>t, <1>r, StepKeeps DEF Steps
  <2>5. CASE pc \in {"invalidate", "validate"} /\ Goto(AfterSwitch)
    BY <2>1, <2>5, <1>t, <1>r, <1>f DEF Goto
  <2> QED BY <1>22, <2>2, <2>3, <2>4, <2>5 DEF Refused
<1>23. CASE UNCHANGED vars
  BY <1>23 DEF vars, SInv, TypeOK, CallOK, CountersOK, EntryOK, Writing, Copying, Old, Entry,
                Item, Payload
<1> QED
  BY <1>1, <1>2, <1>3, <1>4, <1>5, <1>6, <1>7, <1>8, <1>9, <1>10, <1>11, <1>12, <1>13, <1>14,
     <1>15, <1>16, <1>17, <1>18, <1>19, <1>20, <1>21, <1>22, <1>23 DEF Next

LEMMA SInvInit == Init => SInv
<1> SUFFICES ASSUME Init PROVE SInv
  OBVIOUS
<1>1. index \in [Sectors -> Tables] /\ \A s \in Sectors : Sound(index[s])
  BY SoundErased DEF Init
<1>2. TypeOK
  BY <1>1, NoOpType DEF Init, TypeOK, Tables, SectorStates, Steps
<1>3. CallOK /\ CountersOK /\ EntryOK
  BY NoOpType DEF Init, CallOK, CountersOK, EntryOK, Writing
<1> QED BY <1>1, <1>2, <1>3 DEF SInv

LEMMA SInvAlways == Spec => []SInv
  BY SInvInit, SInvStep, PTL DEF Spec

(* The fields of the calls of nv_flashWriteNew and nv_flashReadNew stay in  *)
(* their ranges: no entry beyond the table of a sector is ever addressed.   *)
THEOREM TypeCorrect == Spec => []TypeOK
<1>1. SInv => TypeOK
  BY DEF SInv
<1> QED BY <1>1, SInvAlways, PTL

(* Whatever is interrupted or refused, the sector nv_sector_read would use  *)
(* is filled from the front, and every valid entry of it is complete.       *)
THEOREM CurrentSound == Spec => []CurrentIsSound
<1>1. SInv => CurrentIsSound
  <2> SUFFICES ASSUME SInv, Found PROVE Sound(index[Current])
    BY DEF CurrentIsSound, Sound
  <2>1. Current \in Sectors
    BY DEF Current, Sectors
  <2> QED BY <2>1 DEF SInv
<1> QED BY <1>1, SInvAlways, PTL

-----------------------------------------------------------------------------
(* Sectors cut off behind an entry.                                         *)
LEMMA PrefixTable ==
  ASSUME NEW e \in Tables, NEW n \in Nat
  PROVE  /\ Prefix(e, n) \in Tables
         /\ \A k \in Slots : Prefix(e, n)[k] = IF k <= n THEN e[k] ELSE Blank
         /\ \A k \in Slots : k > n => Prefix(e, n)[k].state # "valid"
<1>1. Prefix(e, n) \in Tables
  BY DeadEntries DEF Prefix, Tables
<1>2. \A k \in Slots : Prefix(e, n)[k] = IF k <= n THEN e[k] ELSE Blank
  BY DEF Prefix
<1>3. ASSUME NEW k \in Slots, k > n PROVE Prefix(e, n)[k] = Blank
  <2>1. ~(k <= n)
    BY <1>3 DEF Slots
  <2> QED BY <2>1, <1>2
<1> QED BY <1>1, <1>2, <1>3, DeadEntries

LEMMA PrefixZero ==
  ASSUME NEW e \in Tables
  PROVE  Prefix(e, 0) = Erased
<1>1. \A k \in Slots : ~(k <= 0)
  BY DEF Slots
<1> QED BY <1>1 DEF Prefix, Erased

LEMMA PrefixNext ==
  ASSUME NEW e \in Tables, NEW n \in Nat, n + 1 \in Slots
  PROVE  Prefix(e, n + 1) = [Prefix(e, n) EXCEPT ![n + 1] = e[n + 1]]
<1>1. \A k \in Slots : k <= n + 1 <=> k <= n \/ k = n + 1
  BY DEF Slots
<1>2. DOMAIN Prefix(e, n) = Slots
  BY DEF Prefix
<1>3. [Prefix(e, n) EXCEPT ![n + 1] = e[n + 1]] =
        [k \in Slots |-> IF k = n + 1 THEN e[n + 1] ELSE Prefix(e, n)[k]]
  BY <1>2
<1>4. \A k \in Slots : (IF k <= n + 1 THEN e[k] ELSE Blank) =
                         (IF k = n + 1 THEN e[n + 1] ELSE Prefix(e, n)[k])
  BY <1>1, PrefixTable
<1> QED BY <1>3, <1>4 DEF Prefix

(* Nothing is lost when no valid entry is cut off.                          *)
LEMMA PrefixAll ==
  ASSUME NEW e \in Tables, NEW n \in Nat, NEW i,
         \A k \in Slots : k > n => e[k].state # "valid"
  PROVE  Value(Prefix(e, n), i) = Value(e, i)
<1>1. \A k \in Slots : k <= n \/ k > n
  BY DEF Slots
<1>2. ValidOf(Prefix(e, n), i) = ValidOf(e, i)
  BY <1>1, PrefixTable DEF ValidOf
<1>3. \A k \in ValidOf(e, i) : Prefix(e, n)[k].val = e[k].val
  BY <1>1, PrefixTable DEF ValidOf
<1> QED BY <1>2, <1>3, PrefixTable, ValueSame

(* Behind an entry that is idle or damaged all are idle.                    *)
LEMMA NothingBehind ==
  ASSUME NEW e \in Tables, Sound(e), NEW n \in Slots, e[n].state \in {"idle", "torn"}
  PROVE  \A k \in Slots : k > n => e[k].state = "idle"
<1> SUFFICES ASSUME NEW k \in Slots, k > n, e[k].state # "idle" PROVE FALSE
  OBVIOUS
<1> DEFINE V == {l \in Slots : l < k /\ e[l].state \in {"idle", "torn"}}
<1>1. V \in SUBSET Slots /\ n \in V
  BY DEF Slots
<1>2. PICK m \in V : \A l \in V : l <= m
  <2> HIDE DEF V
  <2> QED BY <1>1, LastExists
<1>3. m \in Slots /\ m < k /\ e[m].state \in {"idle", "torn"}
  OBVIOUS
<1>4. m + 1 \in Slots /\ m + 1 > 1 /\ (m + 1) - 1 = m
  BY <1>3 DEF Slots
<1>5. e[m + 1].state = "idle"
  BY <1>3, <1>4 DEF Sound
<1>6. m + 1 # k
  BY <1>5
<1>7. m + 1 < k /\ ~(m + 1 <= m)
  BY <1>3, <1>6 DEF Slots
<1>8. m + 1 \in V
  BY <1>4, <1>5, <1>7
<1> QED BY <1>2, <1>7, <1>8

(* In a sound sector an item without a value has no entry.                  *)
LEMMA AbsentHasNone ==
  ASSUME NEW e \in Tables, Sound(e), NEW i, Value(e, i) = Absent
  PROVE  Newest(e, i) = 0
<1> SUFFICES ASSUME Newest(e, i) # 0 PROVE FALSE
  OBVIOUS
<1>1. Newest(e, i) \in Slots /\ e[Newest(e, i)].state = "valid"
  BY NewestIsValid
<1>2. e[Newest(e, i)].val \in Values
  BY <1>1 DEF Sound
<1>3. ValidOf(e, i) # {}
  BY DEF Newest
<1> QED BY <1>2, <1>3 DEF Value

LEMMA NoneIsAbsent ==
  ASSUME NEW e \in Tables, NEW i, \A k \in Slots : e[k].state # "valid"
  PROVE  Value(e, i) = Absent
<1>1. ValidOf(e, i) = {}
  BY DEF ValidOf
<1> QED BY <1>1 DEF Value
=============================================================================
