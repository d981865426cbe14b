------------------------------ MODULE RepeatOnce ------------------------------
(***************************************************************************)
(* What the repeat table promises, without slots, counters and timers: a   *)
(* command that was sent is remembered for a while, and while it is        *)
(* remembered it may be sent a second time, which makes it forgotten.      *)
(* A command is therefore repeated at most once, and never after it was    *)
(* settled or dropped.                                                     *)
(***************************************************************************)
EXTENDS Naturals

VARIABLES
  seen,      (* the commands sent so far                                     *)
  pending,   (* those remembered for a possible repeat                       *)
  repeated   (* those that were sent a second time                           *)

vars == <<seen, pending, repeated>>

Init == seen = {} /\ pending = {} /\ repeated = {}

(* Commands go out; some of the new ones are remembered.                    *)
Send == /\ seen \subseteq seen'
        /\ pending \subseteq pending'
        /\ pending' \ pending \subseteq seen' \ seen
        /\ UNCHANGED repeated

(* A remembered command is sent again and forgotten.                        *)
Repeat(c) == /\ c \in pending
             /\ repeated' = repeated \cup {c}
             /\ pending' = pending \ {c}
             /\ UNCHANGED seen

(* Remembered commands are forgotten: confirmed, timed out or discarded.    *)
Forget == /\ pending' \subseteq pending
          /\ UNCHANGED <<seen, repeated>>

Next == Send \/ Forget \/ \E c \in pending : Repeat(c)

Spec == Init /\ [][Next]_vars
=============================================================================
