------------------------------ MODULE FrameCount ------------------------------
(***************************************************************************)
(* The outgoing frame counter in flash (drv_nv.c).  A neighbour takes no   *)
(* frame whose counter is below the last one it saw, so after a restart    *)
(* the counter must go on from where it was.  The device saves it at every *)
(* start and after each commissioning (bdb.c), the stack now and then.     *)
(*                                                                         *)
(* A sector begins with a flag; the counts follow, each behind the one     *)
(* before.  A full sector hands its last count to the other sector.  One   *)
(* action is one flash operation, and Crash comes between any two or cuts  *)
(* one short, as in NvStore.  Of the counts of a sector only how many they *)
(* are, the last and the one before matter: nothing else is ever read.     *)
(***************************************************************************)
EXTENDS Naturals

CONSTANTS
  UPDATE_FRAMECOUNT_THRES, (* the most that two saves are apart              *)
  FRAMECOUNT_NUM_PER_SECT, (* the counts a sector holds                      *)
  Torn,        (* a count whose write was cut short: its high bytes are 0xff *)
  MaxCount,    (* bound: the highest count that is reached by counting       *)
  MaxRefused   (* bound: how many writes are refused for low voltage         *)

ASSUME FrameCountConstantsOK ==
  /\ UPDATE_FRAMECOUNT_THRES \in Nat /\ UPDATE_FRAMECOUNT_THRES > 0
  /\ FRAMECOUNT_NUM_PER_SECT \in Nat /\ FRAMECOUNT_NUM_PER_SECT > 2
  /\ MaxCount \in Nat /\ MaxRefused \in Nat
  /\ Torn \in Nat /\ Torn > MaxCount + UPDATE_FRAMECOUNT_THRES

VARIABLES
  sector,   (* the two sectors of the module NV_MODULE_NWK_FRAME_COUNT       *)
  counter,  (* ss_ib.outgoingFrameCounter                                    *)
  pc,       (* the flash operation that comes next                           *)
  op,       (* the locals of the call under way                              *)
  saved,    (* the count of the last save that was carried out, 0 when a     *)
            (* torn flag has lost it (a record for the properties, no state  *)
            (* of the program)                                               *)
  refused   (* how many writes were refused for low voltage                  *)

vars == <<sector, counter, pc, op, saved, refused>>

Sectors == {0, 1}
Other(s) == 1 - s
Outside == 255

(* flag: NV_SECTOR_IDLE, _VALID_READY_CHECKCRC, _VALID_CHECKCRC, _INVALID;  *)
(* torn: of the two bytes that make a ready sector valid only the first is  *)
(* written (0xFA7A, which is neither of the two).                           *)
SectorRecord == [flag : {"idle", "ready", "valid", "invalid", "torn"},
                 num : 0..FRAMECOUNT_NUM_PER_SECT, last : Nat, prev : Nat]
Erased == [flag |-> "idle", num |-> 0, last |-> 0, prev |-> 0]

(* opSect: the sector written; errSect: the sector a forced change leaves,  *)
(* or one outside of the module; count: what is saved or was restored.      *)
Ops == [call : {"none", "save", "restore"}, count : Nat, opSect : Sectors,
        errSect : Sectors \cup {Outside}, forceChgSec : BOOLEAN,
        sectorUpdate : BOOLEAN]
NoOp == [call |-> "none", count |-> 0, opSect |-> 0, errSect |-> Outside,
         forceChgSec |-> FALSE, sectorUpdate |-> FALSE]

Erasures == {"erase0", "erase1", "eraseForced", "eraseFull"}
Steps == {"off", "idle", "invalidate", "validate", "search", "last", "count",
          "ready", "old", "valid", "return", "fail"} \cup Erasures

-----------------------------------------------------------------------------
(* nv_sector_read takes the first sector that is valid or ready to be.      *)
Alive(s) == sector[s].flag \in {"ready", "valid"}
Found == \E s \in Sectors : Alive(s)
Current == IF Alive(0) THEN 0 ELSE 1

(* nv_nwkFrameCountFromFlash backs off from a last count that is too far    *)
(* from the one before.  The code subtracts as u32: a count below the one   *)
(* before is as far as can be.                                              *)
TooFar(r) == \/ r.last < r.prev
             \/ r.last > r.prev + UPDATE_FRAMECOUNT_THRES
BacksOff(r) == r.num > 2 /\ TooFar(r)

Init ==
  /\ sector = [s \in Sectors |-> Erased]
  /\ counter = 0
  /\ pc = "off"
  /\ op = NoOp
  /\ saved = 0
  /\ refused = 0

Flash(s, r) == sector' = [sector EXCEPT ![s] = r]
SetFlag(s, f) == Flash(s, [sector[s] EXCEPT !.flag = f])
Append(s, c) == Flash(s, [sector[s] EXCEPT !.num = @ + 1, !.last = c,
                                           !.prev = sector[s].last])
LowVoltage == refused < MaxRefused /\ refused' = refused + 1
Powered == UNCHANGED refused
Goto(l) == pc' = l /\ UNCHANGED <<op, counter, saved>>

(* nv_sector_read for call o.  A save that finds no sector erases both.     *)
ReadSector(o) ==
  /\ op' = [o EXCEPT !.opSect = IF Found THEN Current ELSE 0]
  /\ pc' = CASE ~Found /\ o.call = "save" -> "erase0"
             [] ~Found /\ o.call # "save" -> "return"
             [] Found /\ sector[Current].flag = "ready" -> "invalidate"
             [] Found /\ sector[Current].flag # "ready" -> "search"
  /\ UNCHANGED sector

(* The counter has gone on to c when bdb or the stack saves it.             *)
Save(c) ==
  /\ pc = "idle"
  /\ counter' = c
  /\ ReadSector([NoOp EXCEPT !.call = "save", !.count = c])
  /\ UNCHANGED saved

(* The device starts; without a count in flash it begins with 0.            *)
Start ==
  /\ pc = "off"
  /\ ReadSector([NoOp EXCEPT !.call = "restore"])
  /\ UNCHANGED <<counter, saved>>

(* nv_sector_read finishes a change of sector that was interrupted.         *)
Invalidate ==
  /\ pc = "invalidate"
  /\ SetFlag(Other(op.opSect), "invalid")
  /\ Goto("validate")
Validate ==
  /\ pc = "validate"
  /\ SetFlag(op.opSect, "valid")
  /\ Goto("search")

ErasedSector == CASE pc = "erase0" -> 0
                  [] pc = "erase1" -> 1
                  [] OTHER -> op.opSect
AfterErase == CASE pc = "erase0" -> "erase1"
                [] pc = "eraseFull" -> "last"
                [] OTHER -> "search"
Erase ==
  /\ pc \in Erasures
  /\ Flash(ErasedSector, Erased)
  /\ Goto(AfterErase)

(* nv_nwkFrameCountFromFlash: the count is restored; one that is too far    *)
(* off is replaced, and the replacement saved in the other sector.          *)
Here == sector[op.opSect]
LastCountButOne(r) == IF r.num < 2 THEN r.last ELSE r.prev
LastCount(r) == IF r.num = 0 THEN 0 ELSE r.last
Restoring == op.call = "restore" /\ ~op.forceChgSec
Restore ==
  /\ pc = "search" /\ Restoring
  /\ \/ /\ ~BacksOff(Here)
        /\ op' = [op EXCEPT !.count = LastCount(Here)]
        /\ pc' = "return"
     \/ /\ BacksOff(Here)
        /\ op' = [op EXCEPT !.count = Here.prev + UPDATE_FRAMECOUNT_THRES,
                            !.forceChgSec = TRUE, !.errSect = op.opSect,
                            !.opSect = Other(op.opSect)]
        /\ pc' = "eraseForced"
  /\ UNCHANGED <<sector, counter, saved>>

(* nv_nwkFrameCountSaveToFlashHandler: behind the last count, or in the     *)
(* other sector when this one is full.                                      *)
SearchOffByOne ==
  /\ pc = "search" /\ ~Restoring
  /\ IF Here.num > FRAMECOUNT_NUM_PER_SECT
     THEN /\ op' = [op EXCEPT !.opSect = Other(@), !.sectorUpdate = TRUE]
          /\ pc' = "eraseFull"
     ELSE pc' = "count" /\ UNCHANGED op
  /\ UNCHANGED <<sector, counter, saved>>
Search ==
  /\ pc = "search" /\ ~Restoring
  /\ IF Here.num = FRAMECOUNT_NUM_PER_SECT
     THEN /\ op' = [op EXCEPT !.opSect = Other(@), !.sectorUpdate = TRUE]
          /\ pc' = "eraseFull"
     ELSE pc' = "count" /\ UNCHANGED op
  /\ UNCHANGED <<sector, counter, saved>>
LastFits == Here.num = 0
WriteLast ==
  /\ pc = "last" /\ LastFits
  /\ Append(op.opSect, sector[Other(op.opSect)].last)
  /\ Goto("count")
WriteCount ==
  /\ pc = "count"
  /\ Append(op.opSect, op.count)
  /\ Goto(IF op.sectorUpdate \/ Here.num = 0 THEN "ready" ELSE "return")

(* The header that makes the sector count; then the old sector is set       *)
(* invalid, and this one valid.                                             *)
WriteReadyAfterwards ==
  /\ pc = "ready" /\ Here.flag = "idle"
  /\ UNCHANGED sector
  /\ Goto(IF op.sectorUpdate \/ op.forceChgSec THEN "old" ELSE "return")
WriteReady ==
  /\ pc = "ready" /\ Here.flag = "idle"
  /\ SetFlag(op.opSect, "ready")
  /\ Goto(IF op.sectorUpdate \/ op.forceChgSec THEN "old" ELSE "return")
OldSect == IF op.forceChgSec THEN op.errSect ELSE Other(op.opSect)
WriteOld ==
  /\ pc = "old"
  /\ IF OldSect = Outside THEN UNCHANGED sector ELSE SetFlag(OldSect, "invalid")
  /\ Goto("valid")
WriteValid ==
  /\ pc = "valid"
  /\ IF Here.flag = "ready" THEN SetFlag(op.opSect, "valid") ELSE UNCHANGED sector
  /\ Goto("return")

Return ==
  /\ pc = "return"
  /\ \/ op.call = "save" /\ saved' = op.count /\ UNCHANGED counter
     \/ op.call = "restore" /\ counter' = op.count /\ UNCHANGED saved
  /\ pc' = "idle" /\ op' = NoOp
  /\ UNCHANGED sector

(* nv_nwkFrameCountSaveToFlash starts over with a forced change of sector,  *)
(* once, and tells nobody when that fails as well.                          *)
Fail ==
  /\ pc = "fail"
  /\ \/ /\ op.call = "save" /\ ~op.forceChgSec
        /\ op' = [op EXCEPT !.forceChgSec = TRUE, !.errSect = Outside,
                            !.opSect = 0, !.sectorUpdate = FALSE]
        /\ pc' = "eraseForced" /\ UNCHANGED counter
     \/ /\ op.call = "save" /\ op.forceChgSec
        /\ pc' = "idle" /\ op' = NoOp /\ UNCHANGED counter
     \/ op.call = "restore" /\ pc' = "idle" /\ op' = NoOp /\ counter' = op.count
  /\ UNCHANGED <<sector, saved>>

-----------------------------------------------------------------------------
(* The power goes.  A count that is half written is Torn, unless nothing of *)
(* it was written.  The flag that makes a ready sector valid, two bytes     *)
(* without a checksum, can be torn as well; the counts are lost with it.    *)
(* Every other flag is dead or as before when it is half written.           *)
TornCount ==
  /\ pc = "count" \/ (pc = "last" /\ LastFits)
  /\ op.count <= MaxCount
  /\ Append(op.opSect, Torn)
TornFlag == pc \in {"validate", "valid"} /\ Here.flag = "ready" /\ SetFlag(op.opSect, "torn")
Crash ==
  /\ pc # "off"
  /\ \/ (UNCHANGED sector \/ TornCount) /\ UNCHANGED saved
     \/ TornFlag /\ saved' = 0
  /\ pc' = "off" /\ op' = NoOp /\ counter' = 0

(* A write is refused, and how its caller takes it.                         *)
Refused ==
  /\ LowVoltage
  /\ \/ pc \in Erasures /\ Goto(AfterErase)
     \/ pc \in {"last", "count", "ready", "old"} /\ Goto("fail")
     \/ pc \in {"invalidate", "validate"} /\ Goto("search")
     \/ pc = "valid" /\ Goto("return")
  /\ UNCHANGED sector

(* Where an erasure was refused the flash is not empty, and what is written *)
(* reads back different; a first count has lost bits, a flag has not        *)
(* (INVALID has none that READY lacks).                                     *)
NotErased ==
  /\ \/ /\ pc = "last" /\ ~LastFits
        /\ IF Here.num = 1
           THEN \E c \in 0..Here.last : Flash(op.opSect, [Here EXCEPT !.last = c])
           ELSE UNCHANGED sector
     \/ pc = "ready" /\ Here.flag # "idle" /\ UNCHANGED sector
  /\ Goto("fail")

Next ==
  \/ /\ \/ \E c \in counter..(counter + UPDATE_FRAMECOUNT_THRES) :
             (c = counter \/ c <= MaxCount) /\ Save(c)
        \/ Start \/ Invalidate \/ Validate \/ Erase \/ Restore \/ Search
        \/ WriteLast \/ WriteCount \/ WriteReady \/ WriteOld \/ WriteValid
        \/ Return \/ Fail \/ Crash \/ NotErased
     /\ Powered
  \/ Refused

Spec == Init /\ [][Next]_vars

-----------------------------------------------------------------------------
TypeOK ==
  /\ sector \in [Sectors -> SectorRecord]
  /\ counter \in Nat /\ saved \in Nat
  /\ pc \in Steps
  /\ op \in Ops
  /\ refused \in 0..MaxRefused

(* The count that a device that starts now takes up.                        *)
Recovered ==
  IF ~Found THEN 0
  ELSE LET r == sector[Current] IN
       IF BacksOff(r) THEN r.prev + UPDATE_FRAMECOUNT_THRES ELSE r.last

(* Wherever the power goes, in a save, in a change of sector or while a     *)
(* start repairs one, the next start takes up a count that is not below the *)
(* last one saved: no frame goes out with a counter that its receiver has   *)
(* seen.  The one exception is a power loss between the two bytes that make *)
(* a new sector valid, which loses the counts; what is saved after that is  *)
(* kept again.  So it is until a write to the flash is refused.             *)
CountIsKept == refused = 0 => Recovered >= saved

(* And what the device runs with was not restored below the last save.      *)
CounterIsFresh == refused = 0 /\ pc = "idle" => counter >= saved
=============================================================================
