--------------------------- MODULE FrameCountProofs ---------------------------
(***************************************************************************)
(* The saved frame counter survives every power loss: proofs about         *)
(* FrameCount for every threshold, sector size and bound.  As long as no   *)
(* write was refused, the flash operation that comes next tells what both  *)
(* sectors hold (Stage): in particular the sector that is given up is      *)
(* still the one that a start would read, or the new one is complete.      *)
(***************************************************************************)
EXTENDS FrameCount, TLAPS

Plain == ~op.forceChgSec /\ ~op.sectorUpdate
Steady(s, c) == ~BacksOff(sector[s]) /\ sector[s].last = c
Old == Other(op.opSect)

(* A save goes on behind the last count of s, the sector a start would read. *)
Continues(s) ==
  /\ Alive(s) /\ s = Current /\ ~BacksOff(sector[s])
  /\ sector[s].last <= op.count
  /\ op.count <= sector[s].last + UPDATE_FRAMECOUNT_THRES

(* A start replaces the last count of s.                                    *)
Repairs(s) ==
  /\ Alive(s) /\ s = Current /\ BacksOff(sector[s])
  /\ op.count = sector[s].prev + UPDATE_FRAMECOUNT_THRES

(* What is known of the call under way: it reads, appends to the current    *)
(* sector, starts a fresh one, changes the sector, or repairs.              *)
Reads == op.call = "restore" /\ Plain /\ op.opSect = Current /\ Found
Appends == op.call = "save" /\ Plain /\ Continues(op.opSect)
Fresh == op.call = "save" /\ Plain /\ ~Found /\ op.opSect = 0
Changes == /\ op.call = "save" /\ ~op.forceChgSec /\ op.sectorUpdate
           /\ Continues(Old)
Repair == /\ op.call = "restore" /\ op.forceChgSec /\ ~op.sectorUpdate
          /\ op.errSect = Old /\ Repairs(Old)

(* The new sector holds c last and would not be backed off from.            *)
Complete == sector[op.opSect].num > 0 /\ Steady(op.opSect, op.count)
Switching ==
  /\ \/ op.call = "save" /\ ~op.forceChgSec /\ op.sectorUpdate
     \/ op.call = "restore" /\ op.forceChgSec /\ ~op.sectorUpdate /\ op.errSect = Old
  /\ sector[op.opSect].flag = "ready" /\ Complete /\ op.count >= saved

Stage ==
  /\ pc = "off" => op = NoOp
  /\ pc = "idle" => op = NoOp /\ counter >= saved /\ (Found => Steady(Current, counter))
  /\ pc \in {"invalidate", "validate"} =>
       (Reads \/ Appends) /\ sector[op.opSect].flag = "ready"
  /\ pc = "validate" => sector[Old].flag = "invalid"
  /\ pc = "search" =>
       \/ Reads \/ Appends
       \/ Fresh /\ sector[0] = Erased
       \/ Repair /\ sector[op.opSect] = Erased
  /\ pc = "erase0" => Fresh
  /\ pc = "erase1" => Fresh /\ sector[0] = Erased
  /\ pc = "eraseForced" => Repair
  /\ pc = "eraseFull" => Changes
  /\ pc = "last" => Changes /\ sector[op.opSect] = Erased
  /\ pc = "count" =>
       \/ Appends /\ sector[op.opSect].num < FRAMECOUNT_NUM_PER_SECT
       \/ Fresh /\ sector[0] = Erased
       \/ Repair /\ sector[op.opSect] = Erased
       \/ Changes /\ sector[op.opSect].flag = "idle" /\ sector[op.opSect].num = 1
                  /\ sector[op.opSect].last = sector[Old].last
  /\ pc = "ready" =>
       /\ Fresh \/ Changes \/ Repair
       /\ sector[op.opSect].flag = "idle" /\ Complete
  /\ pc = "old" => Switching /\ Alive(Old)
  /\ pc = "valid" => Switching /\ sector[Old].flag = "invalid"
  /\ pc = "return" =>
       /\ op.call \in {"save", "restore"} /\ op.count >= saved
       /\ op.call = "save" => Found
       /\ Found => Steady(Current, op.count)
  /\ pc # "fail"

Sound ==
  /\ Recovered >= saved
  /\ op.call = "save" => op.count >= saved /\ op.count = counter
  /\ \A s \in Sectors : Alive(s) => sector[s].num > 0
  /\ Stage

IInv == TypeOK /\ (refused = 0 => Sound)

-----------------------------------------------------------------------------
(* Types.  A count is only written where there is room for it.              *)
TInv == TypeOK /\ (pc = "count" => Here.num < FRAMECOUNT_NUM_PER_SECT)

LEMMA OtherSector == \A s \in Sectors : Other(s) \in Sectors /\ Other(s) # s /\ Other(Other(s)) = s
  BY DEF Sectors, Other

LEMMA ErasedIsSector == Erased \in SectorRecord
  BY FrameCountConstantsOK DEF Erased, SectorRecord

LEMMA NoOpIsOp == NoOp \in Ops
  BY DEF NoOp, Ops, Sectors, Outside

(* Writing one sector of the two.                                           *)
LEMMA FlashWrites ==
  ASSUME sector \in [Sectors -> SectorRecord], NEW s \in Sectors,
         NEW r \in SectorRecord, Flash(s, r)
  PROVE  /\ sector' \in [Sectors -> SectorRecord]
         /\ sector'[s] = r
         /\ sector'[Other(s)] = sector[Other(s)]
  BY OtherSector DEF Flash

LEMMA SetFlagType ==
  ASSUME NEW r \in SectorRecord, NEW f \in {"idle", "ready", "valid", "invalid", "torn"}
  PROVE  /\ [r EXCEPT !.flag = f] \in SectorRecord
         /\ [r EXCEPT !.flag = f].flag = f
         /\ [r EXCEPT !.flag = f].num = r.num
         /\ [r EXCEPT !.flag = f].last = r.last
         /\ [r EXCEPT !.flag = f].prev = r.prev
  BY DEF SectorRecord

LEMMA FlagWrites ==
  ASSUME sector \in [Sectors -> SectorRecord], NEW s \in Sectors,
         NEW f \in {"idle", "ready", "valid", "invalid", "torn"}, SetFlag(s, f)
  PROVE  /\ sector' \in [Sectors -> SectorRecord]
         /\ sector'[s].flag = f
         /\ sector'[s].num = sector[s].num
         /\ sector'[s].last = sector[s].last
         /\ sector'[s].prev = sector[s].prev
         /\ sector'[Other(s)] = sector[Other(s)]
<1> DEFINE r == [sector[s] EXCEPT !.flag = f]
<1>1. sector[s] \in SectorRecord
  OBVIOUS
<1>2. r \in SectorRecord /\ Flash(s, r)
  BY <1>1, SetFlagType DEF SetFlag
<1>3. sector' \in [Sectors -> SectorRecord] /\ sector'[s] = r /\ sector'[Other(s)] = sector[Other(s)]
  <2> HIDE DEF r
  <2> QED BY <1>2, FlashWrites
<1> QED BY <1>1, <1>3, SetFlagType

LEMMA AppendWrites ==
  ASSUME sector \in [Sectors -> SectorRecord], NEW s \in Sectors, NEW c \in Nat,
         sector[s].num < FRAMECOUNT_NUM_PER_SECT, Append(s, c)
  PROVE  /\ sector' \in [Sectors -> SectorRecord]
         /\ sector'[s].flag = sector[s].flag
         /\ sector'[s].num = sector[s].num + 1
         /\ sector'[s].last = c
         /\ sector'[s].prev = sector[s].last
         /\ sector'[Other(s)] = sector[Other(s)]
<1> DEFINE r == [sector[s] EXCEPT !.num = @ + 1, !.last = c, !.prev = sector[s].last]
<1>1. /\ r \in SectorRecord
      /\ r.flag = sector[s].flag /\ r.num = sector[s].num + 1 /\ r.last = c
      /\ r.prev = sector[s].last
  <2>1. sector[s] \in SectorRecord
    OBVIOUS
  <2>2. sector[s].num + 1 \in 0..FRAMECOUNT_NUM_PER_SECT /\ sector[s].last \in Nat
    BY <2>1, FrameCountConstantsOK DEF SectorRecord
  <2> QED BY <2>1, <2>2 DEF SectorRecord
<1>2. Flash(s, r)
  BY DEF Append
<1>3. sector' \in [Sectors -> SectorRecord] /\ sector'[s] = r /\ sector'[Other(s)] = sector[Other(s)]
  <2> HIDE DEF r
  <2> QED BY <1>1, <1>2, FlashWrites
<1> QED BY <1>1, <1>3

LEMMA ReadSectorType ==
  ASSUME NEW o \in Ops, ReadSector(o)
  PROVE  op' \in Ops /\ pc' \in {"erase0", "return", "invalidate", "search"}
<1>1. Current \in Sectors
  BY DEF Current, Sectors
<1> QED BY <1>1 DEF ReadSector, Ops, Sectors

LEMMA TypeStep ==
  ASSUME TInv, [Next]_vars
  PROVE  TInv'
<1> USE FrameCountConstantsOK
<1>0. /\ sector \in [Sectors -> SectorRecord] /\ counter \in Nat /\ saved \in Nat
      /\ pc \in Steps /\ op \in Ops /\ refused \in 0..MaxRefused
      /\ op.opSect \in Sectors /\ op.count \in Nat /\ sector[op.opSect] \in SectorRecord
      /\ Other(op.opSect) \in Sectors /\ sector[Other(op.opSect)] \in SectorRecord
  BY OtherSector DEF TInv, TypeOK, Ops
<1>1. CASE UNCHANGED vars
  BY <1>1 DEF TInv, TypeOK, vars, Here
<1>2. Powered \/ LowVoltage => refused' \in 0..MaxRefused
  BY <1>0 DEF Powered, LowVoltage
<1>3. SUFFICES ASSUME Next PROVE TInv'
  BY <1>1
<1>4. refused' \in 0..MaxRefused
  BY <1>2, <1>3 DEF Next, Refused
<1>5. ASSUME NEW c \in counter..(counter + UPDATE_FRAMECOUNT_THRES), Save(c) PROVE TInv'
  <2>1. c \in Nat
    BY <1>0
  <2>2. [NoOp EXCEPT !.call = "save", !.count = c] \in Ops
    BY <2>1 DEF NoOp, Ops, Sectors, Outside
  <2>3. op' \in Ops /\ pc' \in {"erase0", "return", "invalidate", "search"}
    BY <2>2, <1>5, ReadSectorType DEF Save
  <2> QED BY <1>0, <1>4, <1>5, <2>1, <2>3 DEF Save, ReadSector, TInv, TypeOK, Steps, Erasures
<1>6. CASE Start
  <2>2. [NoOp EXCEPT !.call = "restore"] \in Ops
    BY DEF NoOp, Ops, Sectors, Outside
  <2>3. op' \in Ops /\ pc' \in {"erase0", "return", "invalidate", "search"}
    BY <2>2, <1>6, ReadSectorType DEF Start
  <2> QED BY <1>0, <1>4, <1>6, <2>3 DEF Start, ReadSector, TInv, TypeOK, Steps, Erasures
<1>7. CASE Invalidate
  BY <1>0, <1>4, <1>7, FlagWrites DEF Invalidate, Goto, TInv, TypeOK, Steps
<1>8. CASE Validate
  BY <1>0, <1>4, <1>8, FlagWrites DEF Validate, Goto, TInv, TypeOK, Steps
<1>9. CASE Erase
  <2>1. ErasedSector \in Sectors
    BY <1>0 DEF ErasedSector, Sectors
  <2>2. sector' \in [Sectors -> SectorRecord]
    BY <1>0, <1>9, <2>1, ErasedIsSector, FlashWrites DEF Erase
  <2>3. pc' \in {"erase1", "last", "search"}
    BY <1>9 DEF Erase, Goto, AfterErase
  <2> QED BY <1>0, <1>4, <1>9, <2>2, <2>3 DEF Erase, Goto, TInv, TypeOK, Steps, Erasures
<1>10. CASE Restore
  <2>1. sector[op.opSect].last \in Nat /\ sector[op.opSect].prev \in Nat
    BY <1>0 DEF SectorRecord
  <2>2. LastCount(Here) \in Nat /\ Here.prev + UPDATE_FRAMECOUNT_THRES \in Nat
    BY <2>1 DEF LastCount, Here
  <2>3. op' \in Ops /\ pc' \in {"return", "eraseForced"}
    BY <1>0, <1>10, <2>2 DEF Restore, Ops
  <2> QED BY <1>0, <1>4, <1>10, <2>3 DEF Restore, TInv, TypeOK, Steps, Erasures
<1>11. CASE Search
  <2>1. Here.num \in 0..FRAMECOUNT_NUM_PER_SECT
    BY <1>0 DEF SectorRecord, Here
  <2>2. CASE Here.num = FRAMECOUNT_NUM_PER_SECT
    <3>1. op' \in Ops /\ pc' = "eraseFull"
      BY <1>0, <1>11, <2>2 DEF Search, Ops
    <3> QED BY <1>0, <1>4, <1>11, <3>1 DEF Search, TInv, TypeOK, Steps, Erasures
  <2>3. CASE Here.num # FRAMECOUNT_NUM_PER_SECT
    BY <1>0, <1>4, <1>11, <2>1, <2>3 DEF Search, TInv, TypeOK, Steps, Here
  <2> QED BY <2>2, <2>3
<1>12. CASE WriteLast
  <2>1. sector[Other(op.opSect)].last \in Nat /\ sector[op.opSect].num < FRAMECOUNT_NUM_PER_SECT
    BY <1>0, <1>12 DEF WriteLast, LastFits, Here, SectorRecord
  <2>2. sector' \in [Sectors -> SectorRecord] /\ sector'[op.opSect].num = 1
    BY <1>0, <1>12, <2>1, AppendWrites DEF WriteLast, LastFits, Here
  <2> QED BY <1>0, <1>4, <1>12, <2>2 DEF WriteLast, Goto, TInv, TypeOK, Steps, Here
<1>13. CASE WriteCount
  <2>1. sector[op.opSect].num < FRAMECOUNT_NUM_PER_SECT
    BY <1>13 DEF TInv, WriteCount, Here
  <2>2. sector' \in [Sectors -> SectorRecord]
    BY <1>0, <1>13, <2>1, AppendWrites DEF WriteCount
  <2> QED BY <1>0, <1>4, <1>13, <2>2 DEF WriteCount, Goto, TInv, TypeOK, Steps
<1>14. CASE WriteReady
  BY <1>0, <1>4, <1>14, FlagWrites DEF WriteReady, Goto, TInv, TypeOK, Steps
<1>15. CASE WriteOld
  <2>1. sector' \in [Sectors -> SectorRecord]
    <3>1. CASE OldSect = Outside
      BY <1>0, <1>15, <3>1 DEF WriteOld
    <3>2. CASE OldSect # Outside
      <4>1. OldSect \in Sectors
        BY <1>0, <3>2 DEF OldSect, Ops
      <4> QED BY <1>0, <1>15, <3>2, <4>1, FlagWrites DEF WriteOld
    <3> QED BY <3>1, <3>2
  <2> QED BY <1>0, <1>4, <1>15, <2>1 DEF WriteOld, Goto, TInv, TypeOK, Steps
<1>16. CASE WriteValid
  <2>1. sector' \in [Sectors -> SectorRecord]
    BY <1>0, <1>16, FlagWrites DEF WriteValid
  <2> QED BY <1>0, <1>4, <1>16, <2>1 DEF WriteValid, Goto, TInv, TypeOK, Steps
<1>17. CASE Return
  BY <1>0, <1>4, <1>17, NoOpIsOp DEF Return, TInv, TypeOK, Steps
<1>18. CASE Fail
  <2>1. [op EXCEPT !.forceChgSec = TRUE, !.errSect = Outside, !.opSect = 0,
                   !.sectorUpdate = FALSE] \in Ops
    BY ZenonT(60), <1>0 DEF Ops, Outside, Sectors
  <2>2. op' \in Ops /\ pc' \in {"idle", "eraseForced"} /\ counter' \in Nat
    BY <1>0, <1>18, <2>1, NoOpIsOp DEF Fail
  <2> QED BY <1>0, <1>4, <1>18, <2>2 DEF Fail, TInv, TypeOK, Steps, Erasures
<1>19. CASE Crash
  <2>1. sector' \in [Sectors -> SectorRecord]
    <3>1. CASE UNCHANGED sector
      BY <1>0, <3>1
    <3>2. CASE (pc = "count" \/ (pc = "last" /\ LastFits)) /\ Append(op.opSect, Torn)
      <4>1. sector[op.opSect].num < FRAMECOUNT_NUM_PER_SECT
        BY <3>2 DEF TInv, LastFits, Here
      <4> QED BY <1>0, <3>2, <4>1, AppendWrites
    <3>3. CASE TornFlag
      BY <1>0, <3>3, FlagWrites DEF TornFlag
    <3> QED BY <1>19, <3>1, <3>2, <3>3 DEF Crash, TornCount
  <2> QED BY <1>0, <1>4, <1>19, <2>1, NoOpIsOp DEF Crash, TInv, TypeOK, Steps
<1>20. CASE NotErased
  <2>1. sector' \in [Sectors -> SectorRecord]
    <3>1. CASE UNCHANGED sector
      BY <1>0, <3>1
    <3>2. ASSUME NEW c \in 0..Here.last, Flash(op.opSect, [Here EXCEPT !.last = c])
          PROVE  sector' \in [Sectors -> SectorRecord]
      <4>1. [Here EXCEPT !.last = c] \in SectorRecord
        BY <1>0 DEF Here, SectorRecord
      <4> QED BY <1>0, <3>2, <4>1, FlashWrites
    <3> QED BY <1>20, <3>1, <3>2 DEF NotErased
  <2> QED BY <1>0, <1>4, <1>20, <2>1 DEF NotErased, Goto, TInv, TypeOK, Steps
<1>21. CASE Refused
  <2>1. pc' \in {"erase1", "last", "search", "fail", "return"}
    BY <1>21 DEF Refused, Goto, AfterErase
  <2> QED BY <1>0, <1>4, <1>21, <2>1 DEF Refused, Goto, TInv, TypeOK, Steps, Erasures
<1> QED BY <1>3, <1>5, <1>6, <1>7, <1>8, <1>9, <1>10, <1>11, <1>12, <1>13, <1>14,
           <1>15, <1>16, <1>17, <1>18, <1>19, <1>20, <1>21 DEF Next

LEMMA TypeInit == Init => TInv
  BY FrameCountConstantsOK, ErasedIsSector, NoOpIsOp DEF Init, TInv, TypeOK, Steps

(* The variables keep their types: no count is written behind the end of a  *)
(* sector, and no sector but the two of the module is ever erased.          *)
THEOREM TypeCorrect == Spec => []TypeOK
<1>1. Spec => []TInv
  BY TypeInit, TypeStep, PTL DEF Spec
<1> QED BY <1>1, PTL DEF TInv

-----------------------------------------------------------------------------
(* Soundness.  What a step that writes no flash leaves as it was.           *)
LEMMA SameFlash ==
  ASSUME UNCHANGED sector
  PROVE  /\ Found' = Found /\ Current' = Current /\ Recovered' = Recovered
         /\ \A s \in Sectors : Alive(s)' = Alive(s)
  BY DEF Found, Current, Recovered, Alive

LEMMA SoundInit == Init => Sound
  BY DEF Init, Sound, Stage, Recovered, Found, Alive, Erased, NoOp, Sectors

LEMMA SoundStep ==
  ASSUME TInv, Sound, Next, Powered
  PROVE  Sound'
<1> USE FrameCountConstantsOK
<1>0. /\ sector \in [Sectors -> SectorRecord] /\ counter \in Nat /\ saved \in Nat
      /\ op \in Ops /\ op.opSect \in Sectors /\ op.count \in Nat
      /\ sector[op.opSect] \in SectorRecord
      /\ Old \in Sectors /\ sector[Old] \in SectorRecord
  BY OtherSector DEF TInv, TypeOK, Ops, Old
<1>5. ASSUME NEW c \in counter..(counter + UPDATE_FRAMECOUNT_THRES), Save(c) PROVE Sound'
  <2>1. /\ counter >= saved /\ (Found => Steady(Current, counter))
        /\ op' = [NoOp EXCEPT !.call = "save", !.count = c,
                              !.opSect = IF Found THEN Current ELSE 0]
        /\ pc' = IF ~Found THEN "erase0"
                 ELSE IF sector[Current].flag = "ready" THEN "invalidate" ELSE "search"
        /\ sector' = sector /\ counter' = c /\ saved' = saved
    BY <1>0, <1>5 DEF Save, ReadSector, Sound, Stage, NoOp
  <2>2. op' = [call |-> "save", count |-> c, opSect |-> IF Found THEN Current ELSE 0,
               errSect |-> Outside, forceChgSec |-> FALSE, sectorUpdate |-> FALSE]
    BY <2>1 DEF NoOp
  <2>3. c >= saved /\ Recovered' >= saved' /\ \A s \in Sectors : Alive(s)' => sector'[s].num > 0
    BY <1>0, <2>1, SameFlash DEF Sound
  <2>4. CASE ~Found
    <3>1. ~Found'  BY <2>1, <2>4, SameFlash
    <3>2. Fresh'  BY <2>2, <2>4, <3>1 DEF Fresh, Plain
    <3> QED BY <2>1, <2>2, <2>3, <2>4, <3>2 DEF Sound, Stage
  <2>5. CASE Found
    <3>0. Current \in Sectors /\ Alive(Current) /\ Current' = Current
      BY <2>1, <2>5, SameFlash DEF Found, Current, Alive, Sectors
    <3>a. op'.opSect = Current /\ op'.count = c /\ op'.call = "save" /\ Plain'
      BY <2>2, <2>5 DEF Plain
    <3>b. /\ sector'[Current].last <= c /\ ~BacksOff(sector'[Current])
          /\ c <= sector'[Current].last + UPDATE_FRAMECOUNT_THRES
      BY <1>0, <2>1, <2>5, <3>0 DEF Steady
    <3>1. Appends'
      BY <2>1, <3>0, <3>a, <3>b DEF Appends, Continues, Alive
    <3>2. sector[Current].flag = "ready" => sector'[op'.opSect].flag = "ready"
      BY <2>1, <2>2, <2>5
    <3> QED BY <2>1, <2>2, <2>3, <2>5, <3>1, <3>2 DEF Sound, Stage
  <2> QED BY <2>4, <2>5
<1>6. CASE Start
  BY <1>0, <1>6, SameFlash DEF Start, ReadSector, Sound, Stage, Reads, Plain,
     Steady, NoOp, Current, Found, Alive, Recovered, BacksOff, Sectors, Ops, SectorRecord
<1>7. CASE Invalidate
  BY <1>0, <1>7, FlagWrites, OtherSector DEF Invalidate, Goto, Sound, Stage, Reads, Appends, Plain,
     Continues, Steady, Current, Found, Alive, Recovered, BacksOff, TooFar, Sectors, Old
<1>8. CASE Validate
  BY <1>0, <1>8, FlagWrites, OtherSector DEF Validate, Goto, Sound, Stage, Reads, Appends, Plain,
     Continues, Steady, Current, Found, Alive, Recovered, BacksOff, TooFar, Sectors, Old
<1>9. CASE Erase
  <2>1. ErasedSector \in Sectors
    BY <1>0 DEF ErasedSector, Sectors
  <2>2. sector'[ErasedSector] = Erased /\ sector'[Other(ErasedSector)] = sector[Other(ErasedSector)]
    BY <1>0, <1>9, <2>1, ErasedIsSector, FlashWrites DEF Erase
  <2> QED BY <1>0, <1>9, <2>1, <2>2, OtherSector DEF Erase, Goto, ErasedSector, AfterErase, Erasures,
     Sound, Stage, Reads, Appends, Fresh, Changes, Repair, Repairs, Plain,
     Continues, Steady, Current, Found, Alive, Recovered, BacksOff, TooFar, Sectors, Old, Other, Erased
<1>10. CASE Restore
  <2>1. Reads /\ Alive(op.opSect) /\ op.call = "restore" /\ Plain
    BY <1>0, <1>10 DEF Restore, Restoring, Sound, Stage, Reads, Appends, Fresh, Repair, Found, Current, Sectors
  <2>2. sector[op.opSect].num > 0 /\ sector[op.opSect].num \in Nat
    BY <1>0, <2>1 DEF Sound, SectorRecord
  <2>3. CASE ~BacksOff(Here)
    <3>1. /\ op' = [op EXCEPT !.count = sector[op.opSect].last] /\ pc' = "return"
          /\ UNCHANGED <<sector, counter, saved>>
      BY <1>10, <2>2, <2>3 DEF Restore, LastCount, Here
    <3>2. sector[op.opSect].last >= saved
      BY <2>1, <2>3 DEF Sound, Recovered, Reads, Here
    <3>3. /\ op'.call = "restore" /\ op'.count = sector[op.opSect].last
          /\ Steady(Current, op'.count)
      BY <1>0, <2>1, <2>3, <3>1 DEF Ops, Steady, Reads, Here
    <3> QED BY <3>1, <3>2, <3>3, SameFlash DEF Sound, Stage, Steady, BacksOff, TooFar, Alive
  <2>4. CASE BacksOff(Here)
    <3>1. /\ op' = [op EXCEPT !.count = Here.prev + UPDATE_FRAMECOUNT_THRES,
                             !.forceChgSec = TRUE, !.errSect = op.opSect,
                             !.opSect = Other(op.opSect)]
          /\ pc' = "eraseForced" /\ UNCHANGED <<sector, counter, saved>>
      BY <1>10, <2>4 DEF Restore
    <3>2. /\ op'.call = "restore" /\ op'.forceChgSec /\ ~op'.sectorUpdate
          /\ op'.errSect = op.opSect /\ op'.opSect = Other(op.opSect)
          /\ op'.count = sector[op.opSect].prev + UPDATE_FRAMECOUNT_THRES
      BY <1>0, <2>1, <3>1 DEF Ops, Plain, Here
    <3>3. Old' = op.opSect
      BY <1>0, <3>2, OtherSector DEF Old
    <3>4. Repair'
      BY <1>0, <2>1, <2>4, <3>1, <3>2, <3>3, SameFlash DEF Repair, Repairs, Reads, BacksOff, TooFar, Here, Alive
    <3> QED BY <3>1, <3>2, <3>4, SameFlash DEF Sound, Stage, Alive
  <2> QED BY <2>3, <2>4
<1>11. CASE Search
  <2>1. \/ Appends /\ Alive(op.opSect)
        \/ Fresh /\ sector[op.opSect] = Erased
        \/ Repair /\ sector[op.opSect] = Erased
    BY <1>0, <1>11 DEF Search, Restoring, Sound, Stage, Reads, Plain, Appends, Continues, Fresh
  <2>2. CASE Here.num = FRAMECOUNT_NUM_PER_SECT
    <3>1. Appends
      BY <2>1, <2>2 DEF Here, Erased
    <3>2. /\ op' = [op EXCEPT !.opSect = Other(@), !.sectorUpdate = TRUE]
          /\ pc' = "eraseFull" /\ UNCHANGED <<sector, counter, saved>>
      BY <1>11, <2>2 DEF Search
    <3>3. /\ op'.call = "save" /\ ~op'.forceChgSec /\ op'.sectorUpdate
          /\ op'.opSect = Other(op.opSect) /\ op'.count = op.count
      BY <1>0, <3>1, <3>2 DEF Ops, Plain, Appends
    <3>4. Old' = op.opSect
      BY <1>0, <3>3, OtherSector DEF Old
    <3>5. Changes'
      BY <1>0, <3>1, <3>2, <3>3, <3>4, SameFlash DEF Changes, Appends, Continues, BacksOff, TooFar, Alive
    <3> QED BY <3>1, <3>2, <3>3, <3>5, SameFlash DEF Sound, Stage, Alive, Appends
  <2>3. CASE Here.num # FRAMECOUNT_NUM_PER_SECT
    <3>1. pc' = "count" /\ UNCHANGED <<op, sector, counter, saved>>
      BY <1>11, <2>3 DEF Search
    <3>2. Here.num < FRAMECOUNT_NUM_PER_SECT
      BY <1>0, <2>3 DEF Here, SectorRecord
    <3>3. /\ Appends' = Appends /\ Fresh' = Fresh /\ Repair' = Repair
      BY <1>0, <3>1, SameFlash DEF Appends, Fresh, Repair, Repairs, Continues, Plain, Old, BacksOff, TooFar, Alive
    <3> QED BY <2>1, <3>1, <3>2, <3>3, SameFlash DEF Sound, Stage, Alive, Here, Fresh
  <2> QED BY <2>2, <2>3
<1>12. CASE WriteLast
  BY <1>0, <1>12, AppendWrites, OtherSector DEF WriteLast, LastFits, Here, Goto, Sound, Stage,
     Changes, Erased, Continues, Current, Found, Alive, Recovered, BacksOff, TooFar, Sectors, SectorRecord, Old, Other
<1>13. CASE WriteCount
  BY SMTT(60), <1>0, <1>13, AppendWrites, OtherSector DEF WriteCount, Here, Goto, Sound, Stage, Appends, Fresh, Complete, Steady,
     Changes, Repair, Repairs, Plain, Erased, Continues, Current, Found, Alive, Recovered, BacksOff, TooFar, Sectors, SectorRecord, Old, Other
<1>14. CASE WriteReady
  BY <1>0, <1>14, FlagWrites, OtherSector DEF WriteReady, Here, Goto, Sound, Stage, Fresh, Complete, Steady, Switching,
     Changes, Repair, Repairs, Plain, Continues, Current, Found, Alive, Recovered, BacksOff, TooFar, Sectors, SectorRecord, Old, Other
<1>15. CASE WriteOld
  <2>1. Switching /\ Alive(Old) /\ OldSect = Old
    BY <1>0, <1>15 DEF WriteOld, OldSect, Sound, Stage, Switching, Old
  <2>2. SetFlag(Old, "invalid") /\ pc' = "valid" /\ UNCHANGED <<op, counter, saved>>
    BY <1>0, <1>15, <2>1 DEF WriteOld, Goto, Sectors, Outside
  <2>3. sector'[Old].flag = "invalid" /\ sector'[op.opSect] = sector[op.opSect]
    BY <1>0, <2>2, FlagWrites, OtherSector DEF Old
  <2>4. Found' /\ Current' = op.opSect /\ \A s \in Sectors : Alive(s)' => s = op.opSect
    BY <1>0, <2>1, <2>2, <2>3 DEF Found, Current, Alive, Sectors, Old, Other, Switching
  <2>5. Recovered' = op.count /\ ~BacksOff(sector'[op.opSect])
    BY <2>1, <2>3, <2>4 DEF Recovered, Switching, Complete, Steady, BacksOff, TooFar
  <2>6. op.count >= saved
    BY <1>0, <1>15, <2>1 DEF Sound, Stage, WriteOld, Switching
  <2> QED BY <2>1, <2>2, <2>3, <2>4, <2>5, <2>6 DEF Sound, Stage, Switching, Complete, Steady,
          BacksOff, TooFar, Old
<1>16. CASE WriteValid
  BY <1>0, <1>16, FlagWrites, OtherSector DEF WriteValid, Here, Goto, Sound, Stage, Complete, Steady, Switching,
     Current, Found, Alive, Recovered, BacksOff, TooFar, Sectors, SectorRecord, Old, Other
<1>17. CASE Return
  <2>1. op.count >= saved /\ (Found => Steady(Current, op.count))
    BY <1>17 DEF Return, Sound, Stage
  <2>2. UNCHANGED sector /\ pc' = "idle" /\ op' = NoOp /\ counter' = op.count
    BY <1>17 DEF Return, Sound
  <2>3. Recovered >= saved'
    <3>1. CASE op.call = "restore"
      BY <1>17, <3>1 DEF Return, Sound
    <3>2. CASE op.call = "save"
      <4>1. Found /\ Steady(Current, op.count) /\ saved' = op.count
        BY <1>17, <3>2 DEF Return, Sound, Stage
      <4> QED BY <1>0, <4>1 DEF Recovered, Steady
    <3> QED BY <1>17, <3>1, <3>2 DEF Return
  <2> QED BY <1>0, <1>17, <2>1, <2>2, <2>3, SameFlash DEF Return, Sound, Stage, Steady, NoOp, BacksOff, TooFar, Alive
<1>18. CASE Fail
  BY <1>18 DEF Fail, Sound, Stage
<1>19. CASE Crash
  <2>0. pc' = "off" /\ op' = NoOp
    BY <1>19 DEF Crash
  <2>1. CASE UNCHANGED sector /\ UNCHANGED saved
    BY <1>19, <2>1, SameFlash DEF Crash, Sound, Stage, NoOp, Alive
  <2>2. CASE TornCount /\ UNCHANGED saved
    BY <1>0, <1>19, <2>2, AppendWrites, OtherSector DEF Crash, TornCount, TInv, LastFits, Here, NoOp, Sound, Stage, Appends, Fresh,
     Changes, Repair, Repairs, Plain, Erased, Continues, Current, Found, Alive, Recovered, BacksOff, TooFar, Sectors, SectorRecord, Old, Other
  <2>3. CASE TornFlag /\ saved' = 0
    <3>1. \/ pc = "validate" /\ sector[Old].flag = "invalid"
          \/ pc = "valid" /\ sector[Old].flag = "invalid"
      BY <2>3 DEF TornFlag, Sound, Stage
    <3>2. sector'[op.opSect].flag = "torn" /\ sector'[Old] = sector[Old]
      BY <1>0, <2>3, FlagWrites DEF TornFlag, Old
    <3>3. \A s \in Sectors : ~Alive(s)'
      BY <1>0, <3>1, <3>2 DEF Alive, Old, Other, Sectors
    <3> QED BY <2>0, <2>3, <3>3 DEF Sound, Stage, Recovered, Found, NoOp
  <2> QED BY <1>19, <2>1, <2>2, <2>3 DEF Crash
<1>20. CASE NotErased
  BY <1>20 DEF NotErased, Sound, Stage, Complete, LastFits, Here, Erased
<1>21. ~Refused
  BY DEF TInv, TypeOK, Powered, Refused, LowVoltage
<1> QED BY <1>5, <1>6, <1>7, <1>8, <1>9, <1>10, <1>11, <1>12, <1>13, <1>14,
           <1>15, <1>16, <1>17, <1>18, <1>19, <1>20, <1>21 DEF Next

LEMMA InductiveInvariant == Spec => [](TInv /\ IInv)
<1>1. Init => TInv /\ IInv
  BY TypeInit, SoundInit DEF TInv, IInv
<1>2. ASSUME TInv, IInv, [Next]_vars PROVE TInv' /\ IInv'
  <2>1. TInv'
    BY <1>2, TypeStep
  <2>2. ASSUME refused' = 0 PROVE Sound'
    <3>1. CASE UNCHANGED vars
      BY <1>2, <2>2, <3>1, SameFlash DEF vars, IInv, Sound, Stage, Alive, Reads, Appends, Fresh,
         Changes, Repair, Repairs, Continues, Switching, Complete, Steady, Plain, BacksOff, TooFar, Old
    <3>2. CASE Next
      <4>1. Powered \/ LowVoltage
        BY <3>2 DEF Next, Refused
      <4>2. ~LowVoltage
        BY <1>2, <2>2 DEF TInv, TypeOK, LowVoltage
      <4>3. Powered /\ refused = 0
        BY <2>2, <4>1, <4>2 DEF Powered
      <4> QED BY <1>2, <3>2, <4>3, SoundStep DEF IInv
    <3> QED BY <1>2, <3>1, <3>2
  <2> QED BY <2>1, <2>2 DEF IInv, TInv
<1> QED BY <1>1, <1>2, PTL DEF Spec

(* A start never takes up a count below the last one that was saved, where  *)
(* ever the power went, for every size of the sectors and every threshold,  *)
(* until a write is refused; only a power loss between the two bytes that   *)
(* make a new sector valid loses the counts, and what is saved after it is  *)
(* kept again.                                                              *)
THEOREM CountSurvives == Spec => []CountIsKept
<1>1. IInv => CountIsKept
  BY DEF IInv, Sound, CountIsKept
<1> QED BY <1>1, InductiveInvariant, PTL

(* And the device runs with a count that is not below the last one saved    *)
(* (and not lost with a torn flag).                                         *)
THEOREM CounterStaysFresh == Spec => []CounterIsFresh
<1>1. IInv => CounterIsFresh
  BY DEF IInv, Sound, Stage, CounterIsFresh
<1> QED BY <1>1, InductiveInvariant, PTL
=============================================================================
