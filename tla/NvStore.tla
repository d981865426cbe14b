-------------------------------- MODULE NvStore --------------------------------
(***************************************************************************)
(* The item store in flash (drv_nv.c): where the device keeps its settings *)
(* and the stack its network data.  A module of the store owns two         *)
(* sectors, of which one is current.  A sector begins with a flag and a    *)
(* table of index entries, which is filled from the front: a new value of  *)
(* an item takes the next entry, and the entry of the old value is marked  *)
(* invalid afterwards.  When the sector is full its valid items are copied *)
(* to the other one, which then becomes current.                           *)
(*                                                                         *)
(* Flash is written piece by piece and the power can go between any two    *)
(* pieces or in the middle of one.  So one action is one flash operation   *)
(* (with the reads and the choices that follow it), pc says which one is   *)
(* next, and Crash may come at any moment.  A write is also refused when   *)
(* the supply voltage is below its threshold at that moment (drv_flash.c). *)
(*                                                                         *)
(* All callers pass single = 1: an item has one value.                     *)
(***************************************************************************)
EXTENDS Naturals

CONSTANTS
  Items,        (* the items of one module of the store                      *)
  Values,       (* the payloads                                              *)
  MODULE_IDX_NUM, (* the index entries of a sector                           *)
  MaxRefused,   (* bound: how many writes are refused for low voltage        *)
  Absent        (* no value: what a read of a missing item finds             *)

ASSUME NvConstantsOK ==
  /\ MODULE_IDX_NUM \in Nat /\ MODULE_IDX_NUM > 1
  /\ MaxRefused \in Nat
  /\ Absent \notin Values

VARIABLES
  usedFlag,   (* nv_sect_info_t.usedFlag of the two sectors                  *)
  index,      (* per sector, the index entries with header and payload       *)
  pc,         (* the flash operation that comes next                         *)
  op,         (* the call under way: the locals of the functions             *)
  status,     (* what the last call returned                                 *)
  refused     (* how many writes were refused for low voltage                *)

vars == <<usedFlag, index, pc, op, status, refused>>

Sectors == {0, 1}
Other(s) == 1 - s
Slots == 1..MODULE_IDX_NUM

(* NV_SECTOR_IDLE, _VALID_READY_CHECKCRC, _VALID_CHECKCRC, _INVALID; torn:  *)
(* of the two bytes that make a ready sector valid only the first is        *)
(* written (0xFA7A, which is neither of the two).                           *)
SectorStates == {"idle", "ready", "valid", "invalid", "torn"}

(* ITEM_FIELD_IDLE, _OPERATION, _VALID_SINGLE, _INVALID; torn: a write of   *)
(* the entry that the power loss cut short, so that its last byte, the      *)
(* state, is still idle.  hdr: has the item its header, whose checksum      *)
(* covers payload and entry.                                                *)
Entries == [state : {"idle", "operation", "valid", "invalid", "torn"},
            item : Items \cup {Absent}, val : Values \cup {Absent},
            hdr : BOOLEAN]
Blank == [state |-> "idle", item |-> Absent, val |-> Absent, hdr |-> FALSE]
Erased == [k \in Slots |-> Blank]
(* What an invalid entry, and a sector set invalid or with a torn flag,     *)
(* hold is not looked at again, and forgotten.                              *)
Dead == [Blank EXCEPT !.state = "invalid"]
Forgotten(e) == [k \in Slots |-> IF e[k].state = "idle" THEN Blank ELSE Dead]

(* opSect: the sector written, wItemIdx: the entry written, deleteIdx: the  *)
(* entry to mark invalid afterwards (0: none), src: the entry of the old    *)
(* sector that is copied or looked at (0: the new value is written).        *)
Ops == [call : {"none", "read", "write"}, item : Items \cup {Absent},
        val : Values \cup {Absent}, opSect : Sectors,
        wItemIdx : Slots \cup {0}, deleteIdx : Slots \cup {0},
        src : Slots \cup {0}, sectorUpdate : BOOLEAN, forceChgSec : BOOLEAN]
NoOp == [call |-> "none", item |-> Absent, val |-> Absent, opSect |-> 0,
         wItemIdx |-> 0, deleteIdx |-> 0, src |-> 0, sectorUpdate |-> FALSE,
         forceChgSec |-> FALSE]

Steps == {"idle", "erase", "invalidate", "validate", "place", "lookup", "dedup",
          "copy", "index", "payload", "header", "state", "delete", "ready",
          "first", "return", "fail"}

-----------------------------------------------------------------------------
(* Reading the flash.                                                       *)

(* nv_sector_read takes the first sector that is valid, or ready to be: the *)
(* switch to it was interrupted.                                            *)
Alive(s) == usedFlag[s] \in {"ready", "valid"}
Found == \E s \in Sectors : Alive(s)
Current == IF Alive(0) THEN 0 ELSE 1

(* nv_index_read: the entries of item i that are valid; the last one counts. *)
ValidOf(e, i) == {k \in Slots : e[k].state = "valid" /\ e[k].item = i}
LastOf(S) == CHOOSE k \in S : \A l \in S : l <= k
Newest(e, i) == IF ValidOf(e, i) = {} THEN 0 ELSE LastOf(ValidOf(e, i))
Value(e, i) == IF ValidOf(e, i) = {} THEN Absent ELSE e[Newest(e, i)].val

(* The first entries of the table are in use, up to this one.               *)
InUse(e) == {k \in Slots : e[k].state # "idle"}
Top(e) == IF InUse(e) = {} THEN 0 ELSE LastOf(InUse(e))

(* The entry that nv_exceptionDataHandler deletes: a later one has its item. *)
Stale(e, k) == e[k].state = "valid" /\ \E l \in ValidOf(e, e[k].item) : k < l

-----------------------------------------------------------------------------
Init ==
  /\ usedFlag = [s \in Sectors |-> "idle"]
  /\ index = [s \in Sectors |-> Erased]
  /\ pc = "idle"
  /\ op = NoOp
  /\ status = "none"
  /\ refused = 0

Flash == <<usedFlag, index>>
SetFlag(s, f) == usedFlag' = [usedFlag EXCEPT ![s] = f] /\ UNCHANGED index
SetEntry(s, k, e) == index' = [index EXCEPT ![s][k] = e] /\ UNCHANGED usedFlag
LowVoltage == refused < MaxRefused /\ refused' = refused + 1
Powered == UNCHANGED refused
Entry == index[op.opSect][op.wItemIdx]
Old == index[Other(op.opSect)]

(* After nv_sector_read: a write looks for a place, a read for its item.    *)
Proceed == IF op.call = "write" THEN "place" ELSE "lookup"

(* nv_sector_read at the beginning of call o.  A write that finds no sector *)
(* erases the first one.                                                    *)
ReadSector(o) ==
  /\ op' = [o EXCEPT !.opSect = IF Found THEN Current ELSE 0]
  /\ pc' = CASE ~Found -> IF o.call = "write" THEN "erase" ELSE "lookup"
             [] Found /\ usedFlag[Current] = "ready" -> "invalidate"
             [] Found /\ usedFlag[Current] # "ready" ->
                  IF o.call = "write" THEN "place" ELSE "lookup"
  /\ UNCHANGED Flash

(* nv_flashWriteNew and nv_flashReadNew                                     *)
Write(i, v) ==
  /\ pc = "idle"
  /\ ReadSector([NoOp EXCEPT !.call = "write", !.item = i, !.val = v])
  /\ status' = "none"
Read(i) ==
  /\ pc = "idle"
  /\ ReadSector([NoOp EXCEPT !.call = "read", !.item = i])
  /\ status' = "none"

Goto(l) == pc' = l /\ UNCHANGED <<op, status>>

(* A new sector is erased before anything is written to it.  When the       *)
(* switch of sectors began, the duplicates of the old one are deleted       *)
(* first, if there is memory for it.                                        *)
AfterErase ==
  /\ pc' \in IF op.sectorUpdate THEN {"dedup", "copy"} ELSE {"place"}
  /\ op' = [op EXCEPT !.src = IF pc' = "dedup" THEN MODULE_IDX_NUM ELSE 0]
  /\ UNCHANGED status
Erase ==
  /\ pc = "erase"
  /\ usedFlag' = [usedFlag EXCEPT ![op.opSect] = "idle"]
  /\ index' = [index EXCEPT ![op.opSect] = Erased]
  /\ AfterErase

(* nv_flashWriteNewHandler chooses the entry after the last one in use.     *)
AppendEntry ==
  /\ pc = "place" /\ ~op.forceChgSec
  /\ LET e == index[op.opSect]
         top == Top(e)
     IN  /\ top < MODULE_IDX_NUM
         /\ top > 0 => e[top].state # "torn"
         /\ op' = [op EXCEPT !.wItemIdx = top + 1, !.deleteIdx = Newest(e, op.item)]
  /\ pc' = "index"
  /\ UNCHANGED <<usedFlag, index, status>>

(* It turns to the other sector when this one is full (payloads may fill it *)
(* before the entries do) or its last entry is damaged.                     *)
ChangeSector ==
  /\ pc = "place"
  /\ op.forceChgSec \/ Top(index[op.opSect]) > 0
  /\ op' = [op EXCEPT !.sectorUpdate = TRUE, !.opSect = Other(@)]
  /\ pc' = "erase"
  /\ UNCHANGED <<usedFlag, index, status>>

(* nv_exceptionDataHandler, entry src of the old sector, from the last one. *)
Dedup ==
  /\ pc = "dedup"
  /\ \/ /\ Stale(Old, op.src)
        /\ SetEntry(Other(op.opSect), op.src, Dead)
        /\ Powered
     \/ /\ IF Stale(Old, op.src) THEN LowVoltage ELSE Powered
        /\ UNCHANGED Flash
  /\ op' = [op EXCEPT !.src = @ - 1]
  /\ pc' = IF op.src = 1 THEN "copy" ELSE "dedup"
  /\ UNCHANGED status

(* The loop of nv_flashWriteNewHandler over the old sector: src is the      *)
(* entry it has dealt with.  It ends behind the entries in use.             *)
Ends == IF op.src = MODULE_IDX_NUM THEN TRUE
        ELSE \/ usedFlag[Other(op.opSect)] # "valid"
             \/ Old[op.src + 1].state \in {"idle", "torn"}
Copied(e) == e.state = "valid" /\ e.item # op.item /\ e.hdr
CopyNext ==
  /\ pc = "copy" /\ ~Ends
  /\ op' = [op EXCEPT !.src = @ + 1,
                      !.wItemIdx = IF Copied(Old[op.src + 1]) THEN @ + 1 ELSE @]
  /\ pc' = IF Copied(Old[op.src + 1]) THEN "index" ELSE "copy"
  /\ UNCHANGED <<usedFlag, index, status>>

(* Then the new value is written, if there is room.                         *)
WriteNewBehindTheEnd ==
  /\ op' = [op EXCEPT !.src = 0, !.wItemIdx = @ + 1,
                      !.deleteIdx = Newest(index[op.opSect], op.item)]
  /\ pc' = "index"
WriteNew ==
  /\ op.wItemIdx < MODULE_IDX_NUM
  /\ op' = [op EXCEPT !.src = 0, !.wItemIdx = @ + 1,
                      !.deleteIdx = Newest(index[op.opSect], op.item)]
  /\ pc' = "index"
NoSpace ==
  /\ op.wItemIdx > 0
  /\ pc' = "fail" /\ UNCHANGED op
CopyEnd ==
  /\ pc = "copy" /\ Ends
  /\ WriteNew \/ NoSpace
  /\ UNCHANGED <<usedFlag, index, status>>

-----------------------------------------------------------------------------
(* nv_write_item, for a copy as for the new value: the entry, the payload,  *)
(* the header with its checksums, and at last the state of the entry.  The  *)
(* entry before it must be in use, and what is written is read back, which  *)
(* fails where the flash was not erased.                                    *)
Copying == op.src # 0
Item == IF Copying THEN Old[op.src].item ELSE op.item
Payload == IF Copying THEN Old[op.src].val ELSE op.val
WritableBehindAGap == Entry.state = "idle"
Writable ==
  /\ Entry.state = "idle"
  /\ op.wItemIdx > 1 => index[op.opSect][op.wItemIdx - 1].state \notin {"idle", "torn"}

WriteIndex ==
  /\ pc = "index" /\ Writable
  /\ SetEntry(op.opSect, op.wItemIdx, [Blank EXCEPT !.state = "operation", !.item = Item])
  /\ Goto("payload")
WritePayload ==
  /\ pc = "payload"
  /\ SetEntry(op.opSect, op.wItemIdx, [Entry EXCEPT !.val = Payload])
  /\ Goto("header")
WriteHeader ==
  /\ pc = "header"
  /\ SetEntry(op.opSect, op.wItemIdx, [Entry EXCEPT !.hdr = TRUE])
  /\ Goto("state")

(* What follows the write of the new value: the old entry of the same       *)
(* sector becomes invalid, or the sectors are switched, or the first value  *)
(* of all makes its sector valid.                                           *)
AfterNew == CASE op.sectorUpdate -> "ready"
              [] ~op.sectorUpdate /\ op.wItemIdx = 1 -> "first"
              [] ~op.sectorUpdate /\ op.wItemIdx # 1 -> "return"
AfterItem == CASE Copying -> "copy"
               [] ~Copying /\ op.deleteIdx # 0 -> "delete"
               [] ~Copying /\ op.deleteIdx = 0 -> AfterNew
WriteState ==
  /\ pc = "state"
  /\ SetEntry(op.opSect, op.wItemIdx, [Entry EXCEPT !.state = "valid"])
  /\ Goto(AfterItem)

DeleteOld ==
  /\ pc = "delete"
  /\ SetEntry(op.opSect, op.deleteIdx, Dead)
  /\ Goto(AfterNew)

(* The switch of sectors; nv_sector_read finishes one that was interrupted  *)
(* with the same two steps.                                                 *)
SetReadyAfterwards ==
  /\ pc = "ready" /\ usedFlag[op.opSect] = "idle"
  /\ UNCHANGED Flash
  /\ Goto("invalidate")
SetReady ==
  /\ pc = "ready" /\ usedFlag[op.opSect] = "idle"
  /\ SetFlag(op.opSect, "ready")
  /\ Goto("invalidate")
Invalidate ==
  /\ pc = "invalidate"
  /\ usedFlag' = [usedFlag EXCEPT ![Other(op.opSect)] = "invalid"]
  /\ index' = [index EXCEPT ![Other(op.opSect)] = Forgotten(@)]
  /\ Goto("validate")
AfterSwitch == IF op.sectorUpdate THEN "return" ELSE Proceed
Validate ==
  /\ pc = "validate"
  /\ SetFlag(op.opSect, "valid")
  /\ Goto(AfterSwitch)
SetFirst ==
  /\ pc = "first" /\ usedFlag[op.opSect] = "idle"
  /\ SetFlag(op.opSect, "valid")
  /\ Goto("return")

Done(a) == pc' = "idle" /\ op' = NoOp /\ status' = a /\ UNCHANGED Flash
Lookup ==
  /\ pc = "lookup"
  /\ Done(IF Found THEN Value(index[op.opSect], op.item) ELSE Absent)
Succeed == pc = "return" /\ Done("ok")
Fail == pc = "fail" /\ Done("failed")

-----------------------------------------------------------------------------
(* The power goes.  The write of an entry may be half done, and so may the  *)
(* write that makes a ready sector valid: its flag has two bytes and no     *)
(* checksum.  A state is one byte.  Every other flag is dead or as before   *)
(* when only its first byte is written: INVALID (0x50 over 0x7A or 0xFA)    *)
(* kills at once, a new sector's READY or VALID (0xFF behind it) not before *)
(* it is whole, and with it the header's checksum.                          *)
TornEntry ==
  /\ pc = "index" /\ Writable
  /\ SetEntry(op.opSect, op.wItemIdx, [Blank EXCEPT !.state = "torn"])
TornFlag ==
  /\ pc = "validate"
  /\ usedFlag' = [usedFlag EXCEPT ![op.opSect] = "torn"]
  /\ index' = [index EXCEPT ![op.opSect] = Forgotten(@)]
Crash ==
  /\ pc # "idle"
  /\ UNCHANGED Flash \/ TornEntry \/ TornFlag
  /\ pc' = "idle" /\ op' = NoOp /\ status' = "failed"

(* A write is refused, and how its caller takes it.  An entry that cannot   *)
(* be written ends the copying, or makes the call start over with the other *)
(* sector, once.                                                            *)
IndexRefused ==
  /\ pc = "index"
  /\ IF Writable THEN LowVoltage ELSE Powered
  /\ \/ Copying /\ (WriteNew \/ NoSpace) /\ UNCHANGED Flash
     \/ /\ ~Copying /\ ~op.forceChgSec
        /\ ReadSector([NoOp EXCEPT !.call = "write", !.item = op.item,
                                   !.val = op.val, !.forceChgSec = TRUE])
     \/ ~Copying /\ op.forceChgSec /\ pc' = "fail" /\ UNCHANGED <<usedFlag, index, op>>
  /\ UNCHANGED status
Refused ==
  /\ IF pc \in {"ready", "first"} /\ usedFlag[op.opSect] # "idle"
     THEN Powered ELSE LowVoltage
  /\ UNCHANGED Flash
  /\ \/ pc = "erase" /\ AfterErase
     \/ pc \in {"payload", "header", "delete", "ready"} /\ Goto("fail")
     \/ pc = "state" /\ Goto(AfterItem)
     \/ pc \in {"invalidate", "validate"} /\ Goto(AfterSwitch)
     \/ pc = "first" /\ Goto("return")

Next ==
  \/ /\ \/ \E i \in Items : Read(i) \/ \E v \in Values : Write(i, v)
        \/ Erase \/ AppendEntry \/ ChangeSector \/ CopyNext \/ CopyEnd
        \/ WriteIndex \/ WritePayload \/ WriteHeader \/ WriteState
        \/ DeleteOld \/ SetReady \/ Invalidate \/ Validate \/ SetFirst
        \/ Lookup \/ Succeed \/ Fail \/ Crash
     /\ Powered
  \/ Dedup \/ IndexRefused \/ Refused

Spec == Init /\ [][Next]_vars

-----------------------------------------------------------------------------
TypeOK ==
  /\ usedFlag \in [Sectors -> SectorStates]
  /\ index \in [Sectors -> [Slots -> Entries]]
  /\ pc \in Steps
  /\ op \in Ops
  /\ status \in {"none", "ok", "failed", Absent} \cup Values
  /\ refused \in 0..MaxRefused

(* What a device that starts now would find.                                *)
Stored == [i \in Items |-> IF Found THEN Value(index[Current], i) ELSE Absent]

Map == INSTANCE NvMap WITH
         map <- Stored,
         req <- CASE pc = "idle" -> [call |-> "none"]
                  [] pc # "idle" /\ op.call = "write" ->
                       [call |-> "write", item |-> op.item, val |-> op.val]
                  [] OTHER -> [call |-> "read", item |-> op.item],
         answer <- status,
         torn <- \E s \in Sectors : usedFlag[s] = "torn",
         reliable <- refused = 0

(* The store implements the map of NvMap: wherever the power goes, an item  *)
(* has its old or its new value and the other items have theirs; a write    *)
(* that returned NV_SUCC is there, and reads find it.  The one exception is *)
(* a power loss between the two bytes that make a new sector valid: the old *)
(* sector is invalid by then, and everything is lost; but the empty store   *)
(* is a map again.  It is so until a write to the flash is refused.         *)
AtomicMap == Map!Spec

(* The first sector found is sound: its entries are in use from the front,  *)
(* only the last can be damaged, and a valid entry has its header and its   *)
(* payload, so that what was damaged by a power loss is never copied, read  *)
(* or written behind.                                                       *)
CurrentIsSound ==
  Found => LET e == index[Current] IN
             \A k \in Slots :
               /\ k > 1 /\ e[k].state # "idle" => e[k - 1].state \notin {"idle", "torn"}
               /\ e[k].state = "valid" => e[k].hdr /\ e[k].val \in Values
=============================================================================
