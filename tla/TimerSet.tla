-------------------------------- MODULE TimerSet --------------------------------
(***************************************************************************)
(* What the timers of the SDK promise their clients: a set of timers, each *)
(* owned by the client that scheduled it.  A client whose handle is good   *)
(* touches only its own timers, and none touches the one whose callback    *)
(* runs; a timer fires only while it is armed, one at a time, and at most  *)
(* a millisecond before its time.  A handle goes bad when a client forgets *)
(* it, or when one with a bad handle takes the timer it names away.        *)
(* The abstract specification of module EvTimer.                           *)
(***************************************************************************)
EXTENDS Naturals

CONSTANTS Slots, Clients, Forgetful, TICKS, None

VARIABLES
  armed,    (* per slot: the timer in it, or None                            *)
  running,  (* the slot whose callback runs, or 0                            *)
  waited,   (* per slot: ticks since the timer was started                   *)
  good      (* the clients whose handle is NULL or names a timer of theirs   *)

vars == <<armed, running, waited, good>>

Init ==
  /\ armed = [s \in Slots |-> None]
  /\ running = 0
  /\ waited = [s \in Slots |-> 0]
  /\ good = Clients

Owned(s, c) == armed[s] = None \/ armed[s].client = c

Call(c) ==
  /\ \A s \in Slots :
       \/ armed'[s] = armed[s] /\ waited'[s] = waited[s]
       \/ /\ s # running /\ waited'[s] = 0
          /\ (c \in good => Owned(s, c)) /\ Owned(s, c)'
  /\ IF c \in good THEN good' = good ELSE good' \subseteq good \cup {c}
  /\ UNCHANGED running

Fire(s) ==
  /\ running = 0 /\ armed[s] # None
  /\ waited[s] + TICKS > armed[s].period * TICKS
  /\ running' = s
  /\ UNCHANGED <<armed, waited, good>>

Return ==
  /\ running # 0
  /\ running' = 0
  /\ \A s \in Slots \ {running} : armed'[s] = armed[s] /\ waited'[s] = waited[s]
  /\ armed'[running] # None => armed'[running].client = armed[running].client
  /\ LET c == armed[running].client
     IN  \/ good' = good
         \/ armed'[running] = None /\ c \in Forgetful /\ good' = good \ {c}
         \/ armed'[running] = None /\ c \notin Forgetful /\ good' = good \cup {c}

Tick ==
  /\ \A s \in Slots : waited'[s] >= waited[s]
  /\ UNCHANGED <<armed, running, good>>

Reset == armed' = [s \in Slots |-> None] /\ running' = 0 /\ good' = Clients

Next ==
  \/ \E c \in Clients : Call(c)
  \/ \E s \in Slots : Fire(s)
  \/ Return \/ Tick \/ Reset

Spec == Init /\ [][Next]_vars
=============================================================================
