--------------------------------- MODULE NvMap ---------------------------------
(***************************************************************************)
(* What the item store in flash promises: a map from items to values.  A   *)
(* write takes effect at one moment between its call and its return, or    *)
(* not at all if it fails or the power goes; a write that reports success  *)
(* has taken effect; a read returns the value of the map.  Nothing else    *)
(* changes it but the loss of power in the one moment in which a flag can  *)
(* be torn: then all values are gone, at once and together.  All this as   *)
(* long as the supply is reliable: once a write to the flash was refused,  *)
(* nothing is promised.  The abstract specification of module NvStore.     *)
(***************************************************************************)
CONSTANTS Items, Values, Absent

VARIABLES
  map,     (* the stored values                                              *)
  req,     (* the call under way, or NoReq                                   *)
  answer,  (* what the last call returned                                    *)
  torn,    (* is there a sector with a torn flag                             *)
  reliable (* was every write to the flash executed so far                   *)

vars == <<map, req, answer, torn, reliable>>

NoReq == [call |-> "none"]
WriteReq(i, v) == [call |-> "write", item |-> i, val |-> v]
ReadReq(i) == [call |-> "read", item |-> i]

Init ==
  /\ map = [i \in Items |-> Absent]
  /\ req = NoReq
  /\ answer = "none"
  /\ torn = FALSE
  /\ reliable = TRUE

Call(r) ==
  /\ req = NoReq
  /\ req' = r /\ answer' = "none"
  /\ UNCHANGED <<map, reliable>>

TakeEffect ==
  /\ req.call = "write"
  /\ map' = [map EXCEPT ![req.item] = req.val]
  /\ UNCHANGED <<req, answer, reliable>>

Return(a) == req' = NoReq /\ answer' = a /\ UNCHANGED <<map, reliable>>

Tear ==
  /\ req # NoReq /\ ~torn
  /\ torn' = TRUE
  /\ map' = [i \in Items |-> Absent]
  /\ req' = NoReq /\ answer' = "failed"
  /\ UNCHANGED reliable

(* The steps that tear no flag; the last one mends one at most.             *)
Keep ==
  \/ \E i \in Items : Call(ReadReq(i)) \/ \E v \in Values : Call(WriteReq(i, v))
  \/ TakeEffect
  \/ req.call = "write" /\ map[req.item] = req.val /\ Return("ok")
  \/ req.call = "read" /\ Return(map[req.item])
  \/ req # NoReq /\ Return("failed")
  \/ UNCHANGED <<map, req, answer, reliable>>

Next ==
  \/ Keep /\ (torn' => torn)
  \/ Tear
  \/ ~reliable'

Spec == Init /\ [][Next]_vars
=============================================================================
