----------------------------- MODULE MCRepeatCmd -----------------------------
(***************************************************************************)
(* Instance of RepeatCmd for TLC.                                          *)
(***************************************************************************)
EXTENDS RepeatCmd

LampA == [name |-> "A", group |-> FALSE, binding |-> TRUE]
GroupG == [name |-> "G", group |-> TRUE, binding |-> TRUE]
MemberOfG == [name |-> "G", group |-> TRUE, binding |-> FALSE]

To(onoff, level) ==
  [ep \in Endpoints |->
     [cl \in Clusters |-> CASE cl = "onoff" -> onoff
                            [] cl = "level" -> level
                            [] OTHER -> <<>>]]

(* One lamp for on/off, a group and a lamp for level control.               *)
MixedTargets == To(<<LampA>>, <<MemberOfG, GroupG, LampA>>)
=============================================================================
