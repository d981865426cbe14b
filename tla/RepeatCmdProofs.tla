--------------------------- MODULE RepeatCmdProofs ---------------------------
(***************************************************************************)
(* Theorems about RepeatCmd for every size of the table, every set of      *)
(* bindings and every number of commands: the invariants the runs check    *)
(* on small instances, and that the table implements RepeatOnce.           *)
(***************************************************************************)
EXTENDS RepeatCmd, FiniteSetTheorems, SequenceTheorems,
        WellFoundedInduction, TLAPS

(* A command that was repeated was sent and is no longer in the table.      *)
RepeatedIsForgotten ==
  /\ repeated \subseteq 1..Len(sent)
  /\ \A s \in Used : repeat_cmd[s].id \notin repeated

(* A frame in the air carries the number of a command sent to its target.   *)
AirRecordsSent ==
  \A f \in air : /\ f.id <= Len(sent) /\ f.cause <= Len(sent)
                 /\ sent[f.id].ep = f.ep
                 /\ sent[f.id].cluster = f.cluster
                 /\ sent[f.id].dest = f.dest

(* The inductive invariant.  CountCoversTable needs the second half of      *)
(* itself (no overflow), WatchdogArmed needs CountCoversTable (a non-empty  *)
(* table has a positive counter, so the timer that was started with the     *)
(* first entry still runs), and the two histories tie table and air to the  *)
(* log.                                                                     *)
IInv == /\ TypeOK
        /\ CountCoversTable
        /\ WatchdogArmed
        /\ TableRecordsSent
        /\ RepeatedIsForgotten
        /\ AirRecordsSent
        /\ RepeatsToSameTarget

-----------------------------------------------------------------------------
(* Slots and the sets of them are finite and no larger than the table.      *)
LEMMA SlotSets ==
  ASSUME NEW S \in SUBSET Slots
  PROVE  IsFiniteSet(S) /\ Cardinality(S) \in 0..REPEAT_CMD_NUM
<1>1. IsFiniteSet(Slots) /\ Cardinality(Slots) = REPEAT_CMD_NUM
  BY ConstantsOK, FS_Interval DEF Slots
<1> QED BY <1>1, FS_Subset, FS_CardinalityType, ConstantsOK

(* Different elements of a set of naturals have different ranks.            *)
LEMMA RankInjective ==
  ASSUME NEW S \in SUBSET Nat, NEW s \in S, NEW t \in S, s < t
  PROVE  Rank(S, s) # Rank(S, t)
<1> DEFINE below(x) == {y \in S : y <= x}
<1>1. IsFiniteSet(below(t))
  BY FS_BoundedSetOfNaturals
<1>2. \A y \in S : y <= s => y <= t
  OBVIOUS
<1>3. t <= t /\ ~(t <= s)
  OBVIOUS
<1>4. below(s) \in SUBSET below(t) /\ t \in below(t) /\ t \notin below(s)
  BY <1>2, <1>3
<1>5. Cardinality(below(s)) # Cardinality(below(t))
  BY <1>1, <1>4, FS_Subset
<1> QED BY <1>5 DEF Rank

(* A non-empty set of slots has a first one.                                *)
LEMMA FirstOfIsMember ==
  ASSUME NEW S \in SUBSET Slots, S # {}
  PROVE  FirstOf(S) \in S
<1>1. S \subseteq Nat
  BY DEF Slots
<1>2. PICK x \in S : \A y \in S : ~ (<<y, x>> \in OpToRel(<, Nat))
  BY <1>1, NatLessThanWellFounded, WFMin
<1>3. \A y \in S : ~ (y < x)
  BY <1>1, <1>2 DEF OpToRel
<1>4. \A y \in S : x <= y
  BY <1>1, <1>3
<1> QED BY <1>4 DEF FirstOf

(* Disjoint slot sets add up.                                               *)
LEMMA DisjointSlots ==
  ASSUME NEW S \in SUBSET Slots, NEW T \in SUBSET Slots, S \cap T = {}
  PROVE  Cardinality(S \cup T) = Cardinality(S) + Cardinality(T)
<1>1. IsFiniteSet(S) /\ IsFiniteSet(T)
  BY SlotSets
<1>2. Cardinality(S \cap T) = 0
  BY FS_EmptySet
<1>3. Cardinality(S) \in Nat /\ Cardinality(T) \in Nat
  BY <1>1, FS_CardinalityType
<1>4. Cardinality(S \cup T)
        = Cardinality(S) + Cardinality(T) - Cardinality(S \cap T)
  BY <1>1, FS_Union
<1> QED BY <1>2, <1>3, <1>4

(* An emptied table satisfies whatever is said of its entries.              *)
LEMMA ResetEmpties ==
  ASSUME ResetTable
  PROVE  /\ Used' = {}
         /\ Cardinality(Used)' = 0
         /\ repeat_cmd' \in [Slots -> Entries \cup {NoEntry}]
<1>1. Used' = {}
  BY DEF ResetTable, Used, NoEntry
<1> QED BY <1>1, FS_EmptySet DEF ResetTable
(* What adding the entries of one command does to the table: the slots      *)
(* taken were free, each holds an entry for one of the targets, no two for  *)
(* the same, and the others are untouched.                                  *)
LEMMA AddEffect ==
  ASSUME TypeOK,
         NEW ep \in Endpoints, NEW c \in Commands, AddEntries(ep, c)
  PROVE  /\ Added(ep, Cluster[c]) \subseteq Free
         /\ \A s \in Added(ep, Cluster[c]) :
              \E i \in DOMAIN Targets[ep][Cluster[c]] :
                repeat_cmd'[s] = NewEntry(ep, c, i)
         /\ \A s \in Slots \ Added(ep, Cluster[c]) :
              repeat_cmd'[s] = repeat_cmd[s]
         /\ \A s, t \in Added(ep, Cluster[c]) :
              repeat_cmd'[s].id = repeat_cmd'[t].id => s = t
         /\ Used' = Used \cup Added(ep, Cluster[c])
<1> DEFINE cl == Cluster[c]
           A == Added(ep, cl)
           taker(s) == CHOOSE i \in Recorded(ep, cl) : Takes(ep, cl, s, i)
<1>1. A \subseteq Free /\ A \subseteq Slots
  BY DEF Added, Free
<1>2. ASSUME NEW s \in A
      PROVE  taker(s) \in Recorded(ep, cl) /\ Takes(ep, cl, s, taker(s))
  BY DEF Added
<1>3. repeat_cmd' = [s \in Slots |-> IF s \in A THEN NewEntry(ep, c, taker(s))
                                             ELSE repeat_cmd[s]]
  BY DEF AddEntries
<1>4. Cluster[c] \in Clusters
  BY ConstantsOK DEF CommandNames, Cluster, Clusters
<1>5. Targets[ep][cl] \in Seq(Target)
  BY <1>4, ConstantsOK
<1>6. \A s \in A : /\ repeat_cmd'[s] = NewEntry(ep, c, taker(s))
                   /\ taker(s) \in DOMAIN Targets[ep][cl]
  BY <1>1, <1>2, <1>3 DEF Recorded
<1>7. \A s \in Slots \ A : repeat_cmd'[s] = repeat_cmd[s]
  BY <1>3
<1> HIDE DEF A, taker
<1>10. \A i : NewEntry(ep, c, i).id = Len(sent) + i /\ NewEntry(ep, c, i).used
  BY DEF NewEntry
<1>8. ASSUME NEW s \in A, NEW t \in A, repeat_cmd'[s].id = repeat_cmd'[t].id
      PROVE  s = t
  <2>1. Len(sent) + taker(s) = Len(sent) + taker(t)
    BY <1>6, <1>8, <1>10
  <2>2. taker(s) \in Nat /\ taker(t) \in Nat /\ Len(sent) \in Nat
    <3>1. DOMAIN Targets[ep][cl] \subseteq Nat
      BY <1>5, LenProperties
    <3> QED BY <1>6, <3>1, LenProperties DEF TypeOK
  <2>3. taker(s) = taker(t)
    BY <2>1, <2>2
  <2>4. Rank(Free, s) = Rank(Free, t)
    BY <1>2, <2>3 DEF Takes
  <2>5. Free \in SUBSET Nat /\ s \in Free /\ t \in Free
    BY <1>1 DEF Free, Slots
  <2>6. ~(s < t) /\ ~(t < s)
    BY <2>4, <2>5, RankInjective
  <2> QED BY <2>5, <2>6
<1>9. Used' = Used \cup A
  <2>1. \A s \in A : repeat_cmd'[s].used
    BY <1>6, <1>10
  <2> QED BY <1>1, <1>7, <2>1 DEF Used
<1> QED BY <1>1, <1>6, <1>7, <1>8, <1>9 DEF A

(* What sending does to the log: it grows by the targets of the command and *)
(* keeps what it held.                                                      *)
LEMMA LogGrows ==
  ASSUME TypeOK, NEW ep \in Endpoints, NEW c \in Commands, SendCommand(ep, c)
  PROVE  LET to == Targets[ep][Cluster[c]] IN
         /\ Cluster[c] \in Clusters
         /\ to \in Seq(Target)
         /\ sent' \in Seq(Sendings)
         /\ Len(sent) \in Nat /\ Len(to) \in Nat
         /\ Len(sent') = Len(sent) + Len(to) /\ Len(sent') <= MaxSent
         /\ DOMAIN to = 1..Len(to)
         /\ \A k \in 1..Len(sent) : sent'[k] = sent[k]
         /\ \A k \in DOMAIN to :
              sent'[Len(sent) + k] = [ep |-> ep, cluster |-> Cluster[c],
                                      dest |-> to[k], cmd |-> c]
<1> DEFINE to == Targets[ep][Cluster[c]]
           new == [k \in DOMAIN to |-> [ep |-> ep, cluster |-> Cluster[c],
                                       dest |-> to[k], cmd |-> c]]
<1>1. Cluster[c] \in Clusters /\ c \in CommandNames
  BY ConstantsOK DEF CommandNames, Cluster, Clusters
<1>2. to \in Seq(Target)
  BY <1>1, ConstantsOK
<1>3. Len(to) \in Nat /\ DOMAIN to = 1..Len(to) /\ \A k \in 1..Len(to) : to[k] \in Target
  BY <1>2, LenProperties, ElementOfSeq
<1>4. new \in [1..Len(to) -> Sendings]
  BY <1>1, <1>3 DEF Sendings
<1>5. new \in Seq(Sendings) /\ Len(new) = Len(to)
  BY <1>3, <1>4
<1>6. sent \in Seq(Sendings) /\ Len(sent) \in Nat
  BY LenProperties DEF TypeOK
<1>7. sent' = sent \o new /\ Len(sent) + Len(to) <= MaxSent
  BY DEF SendCommand
<1>8. /\ sent' \in Seq(Sendings)
      /\ Len(sent') = Len(sent) + Len(new)
      /\ \A k \in 1..Len(sent) + Len(new) :
           sent'[k] = IF k <= Len(sent) THEN sent[k] ELSE new[k - Len(sent)]
  BY <1>5, <1>6, <1>7, ConcatProperties
<1>9. ASSUME NEW k \in 1..Len(sent)  PROVE  sent'[k] = sent[k]
  <2>1. k \in 1..Len(sent) + Len(new) /\ k <= Len(sent)
    BY <1>3, <1>5, <1>6
  <2> QED BY <1>8, <2>1
<1>10. \A k \in 1..Len(to) : sent'[Len(sent) + k] = new[k]
  BY <1>3, <1>5, <1>6, <1>8
<1> QED BY <1>1, <1>2, <1>3, <1>5, <1>6, <1>7, <1>8, <1>9, <1>10

(* A new entry records the sending with its number.                         *)
LEMMA NewEntryRecords ==
  ASSUME TypeOK, NEW ep \in Endpoints, NEW c \in Commands, SendCommand(ep, c),
         NEW i \in DOMAIN Targets[ep][Cluster[c]]
  PROVE  LET e == NewEntry(ep, c, i) IN
         /\ e \in Entries /\ e.used
         /\ e.id > Len(sent) /\ e.id <= Len(sent')
         /\ sent'[e.id].ep = e.ep
         /\ sent'[e.id].cluster = e.cluster
         /\ sent'[e.id].dest = e.dest
<1> DEFINE to == Targets[ep][Cluster[c]]
           e == NewEntry(ep, c, i)
<1>1. e = [used |-> TRUE, id |-> Len(sent) + i, ep |-> ep, cluster |-> Cluster[c],
           dest |-> to[i], cmd |-> Stored(c)]
  BY DEF NewEntry
<1>2. Stored(c) \in CommandNames
  BY ConstantsOK DEF Stored, CommandNames
<1>3. i \in 1..Len(to) /\ to[i] \in Target /\ Cluster[c] \in Clusters
  BY LogGrows, ElementOfSeq
<1>4. Len(sent) \in Nat /\ Len(to) \in Nat /\ Len(sent') = Len(sent) + Len(to)
      /\ Len(sent') <= MaxSent /\ MaxSent \in Nat
  BY LogGrows, ConstantsOK
<1>5. Len(sent) + i \in Ids /\ Len(sent) + i > Len(sent) /\ Len(sent) + i <= Len(sent')
  BY <1>3, <1>4 DEF Ids
<1>6. sent'[Len(sent) + i] = [ep |-> ep, cluster |-> Cluster[c],
                              dest |-> to[i], cmd |-> c]
  BY LogGrows
<1>7. e \in Entries
  BY <1>1, <1>2, <1>3, <1>5 DEF Entries
<1> QED BY <1>1, <1>5, <1>6, <1>7

(* The frames that go out are first transmissions of the new commands.      *)
LEMMA NewFrameRecords ==
  ASSUME TypeOK, NEW ep \in Endpoints, NEW c \in Commands, SendCommand(ep, c),
         NEW f \in air', f \notin air
  PROVE  /\ f \in Frames /\ ~f.repeat
         /\ f.id <= Len(sent') /\ f.cause <= Len(sent')
         /\ sent'[f.id].ep = f.ep
         /\ sent'[f.id].cluster = f.cluster
         /\ sent'[f.id].dest = f.dest
<1> DEFINE to == Targets[ep][Cluster[c]]
<1>1. PICK i \in DOMAIN to :
        f = [id |-> Len(sent) + i, ep |-> ep, cluster |-> Cluster[c],
             dest |-> to[i], cmd |-> c, repeat |-> FALSE, cause |-> Len(sent) + i]
  BY DEF SendCommand
<1>2. i \in 1..Len(to) /\ to[i] \in Target /\ Cluster[c] \in Clusters
      /\ c \in CommandNames
  BY LogGrows, ElementOfSeq, ConstantsOK
<1>3. Len(sent) + i \in Ids /\ Len(sent) + i <= Len(sent')
  <2>1. Len(sent) \in Nat /\ Len(to) \in Nat /\ Len(sent') = Len(sent) + Len(to)
        /\ Len(sent') <= MaxSent /\ MaxSent \in Nat
    BY LogGrows, ConstantsOK
  <2> QED BY <1>2, <2>1 DEF Ids
<1>4. sent'[Len(sent) + i] = [ep |-> ep, cluster |-> Cluster[c],
                              dest |-> to[i], cmd |-> c]
  BY LogGrows
<1>5. f \in Frames
  BY <1>1, <1>2, <1>3 DEF Frames
<1> QED BY <1>1, <1>3, <1>4, <1>5

-----------------------------------------------------------------------------
(* SendCommand preserves the invariant.                                     *)
LEMMA SendKeeps ==
  ASSUME IInv, NEW ep \in Endpoints, NEW c \in Commands, SendCommand(ep, c)
  PROVE  IInv'
<1> DEFINE A == Added(ep, Cluster[c])
<1> USE DEF IInv
<1>1. AddEntries(ep, c) /\ UNCHANGED <<not_sleep, failed, repeated>>
  BY DEF SendCommand
<1>2. /\ A \subseteq Free
      /\ \A s \in A : \E i \in DOMAIN Targets[ep][Cluster[c]] :
           repeat_cmd'[s] = NewEntry(ep, c, i)
      /\ \A s \in Slots \ A : repeat_cmd'[s] = repeat_cmd[s]
      /\ \A s, t \in A : repeat_cmd'[s].id = repeat_cmd'[t].id => s = t
      /\ Used' = Used \cup A
  BY <1>1, AddEffect
<1>3. /\ \A s \in A : /\ repeat_cmd'[s] \in Entries
                      /\ repeat_cmd'[s].id > Len(sent)
                      /\ repeat_cmd'[s].id <= Len(sent')
                      /\ sent'[repeat_cmd'[s].id].ep = repeat_cmd'[s].ep
                      /\ sent'[repeat_cmd'[s].id].cluster = repeat_cmd'[s].cluster
                      /\ sent'[repeat_cmd'[s].id].dest = repeat_cmd'[s].dest
  BY <1>2, NewEntryRecords
<1>4. /\ Used \subseteq Slots /\ A \subseteq Slots /\ Used \cap A = {}
      /\ Free \subseteq Slots /\ Used \cap Free = {} /\ Used \cup Free = Slots
  BY <1>2 DEF Used, Free
<1>5. /\ Cardinality(Used) \in Nat /\ Cardinality(A) \in Nat
      /\ Cardinality(Used)' = Cardinality(Used) + Cardinality(A)
      /\ Cardinality(Used) + Cardinality(A) <= REPEAT_CMD_NUM
  <2>1. Cardinality(Used \cup A) = Cardinality(Used) + Cardinality(A)
    BY <1>4, DisjointSlots
  <2>2. Cardinality(Used \cup A) \in 0..REPEAT_CMD_NUM
    BY <1>4, SlotSets
  <2> QED BY <1>2, <1>4, <2>1, <2>2, SlotSets
<1>6. repeat_cmd_num' = repeat_cmd_num + Cardinality(A)
  BY <1>1, <1>5, ConstantsOK DEF AddEntries, U8, CountCoversTable, TypeOK
<1>7. CountCoversTable'
  BY <1>5, <1>6, ConstantsOK DEF CountCoversTable, TypeOK
<1>8. WatchdogArmed'
  <2>1. CASE A = {}
    BY <1>1, <1>2, <1>6, <2>1, FS_EmptySet DEF AddEntries, WatchdogArmed, TypeOK
  <2>2. CASE A # {} /\ repeat_cmd_num = 0
    BY <1>1, <2>2 DEF AddEntries, WatchdogArmed
  <2>3. CASE A # {} /\ repeat_cmd_num > 0
    BY <1>1, <2>3 DEF AddEntries, WatchdogArmed
  <2> QED BY <2>1, <2>2, <2>3 DEF TypeOK
<1>9. TypeOK'
  <2>1. repeat_cmd' \in [Slots -> Entries \cup {NoEntry}]
    <3>1. repeat_cmd' = [s \in Slots |-> repeat_cmd'[s]]
      BY <1>1 DEF AddEntries
    <3>2. \A s \in Slots : repeat_cmd'[s] \in Entries \cup {NoEntry}
      BY <1>2, <1>3 DEF TypeOK
    <3> QED BY <3>1, <3>2
  <2>2. repeat_cmd_num' \in 0..(COUNT_MOD - 1)
    BY <1>5, <1>6, ConstantsOK DEF CountCoversTable, TypeOK
  <2>3. timerRepeatCmdNumClearEvt' \in BOOLEAN
    BY <1>1 DEF AddEntries, TypeOK
  <2>4. sent' \in Seq(Sendings) /\ Len(sent') <= MaxSent
    BY LogGrows
  <2>5. air' \subseteq Frames
    BY NewFrameRecords DEF TypeOK
  <2> QED BY <1>1, <2>1, <2>2, <2>3, <2>4, <2>5 DEF TypeOK
<1>10. Len(sent) <= Len(sent') /\ \A k \in 1..Len(sent) : sent'[k] = sent[k]
  BY LogGrows
<1>11. \A s \in Used : /\ repeat_cmd'[s] = repeat_cmd[s]
                      /\ repeat_cmd[s].id \in 1..Len(sent)
  <2>1. \A s \in Used : s \in Slots /\ repeat_cmd[s] \in Entries
    BY DEF Used, TypeOK, NoEntry
  <2>2. \A e \in Entries : e.id \in Nat \ {0}
    BY ConstantsOK DEF Entries, Ids
  <2> QED BY <1>2, <1>4, <2>1, <2>2, LogGrows DEF TableRecordsSent
<1>12. TableRecordsSent'
  <2>1. ASSUME NEW s \in Used'
        PROVE  LET e == repeat_cmd'[s] IN
                 /\ e.id <= Len(sent') /\ e.ep = sent'[e.id].ep
                 /\ e.cluster = sent'[e.id].cluster /\ e.dest = sent'[e.id].dest
    <3>1. CASE s \in A
      BY <1>3, <3>1
    <3>2. CASE s \in Used
      BY <1>10, <1>11, <3>2, LogGrows DEF TableRecordsSent
    <3> QED BY <1>2, <3>1, <3>2
  <2>2. ASSUME NEW s \in Used', NEW t \in Used',
               repeat_cmd'[s].id = repeat_cmd'[t].id
        PROVE  s = t
    <3>1. CASE s \in A /\ t \in A
      BY <1>2, <2>2, <3>1
    <3>2. CASE s \in Used /\ t \in Used
      BY <1>11, <2>2, <3>2 DEF TableRecordsSent
    <3>3. ASSUME NEW x \in A, NEW y \in Used
          PROVE  repeat_cmd'[x].id # repeat_cmd'[y].id
      <4>1. repeat_cmd'[x].id > Len(sent)
        BY <1>3
      <4>2. repeat_cmd'[y].id \in 1..Len(sent) /\ Len(sent) \in Nat
        BY <1>11, LogGrows
      <4> QED BY <4>1, <4>2
    <3> QED BY <1>2, <2>2, <3>1, <3>2, <3>3
  <2> QED BY <2>1, <2>2 DEF TableRecordsSent
<1>13. RepeatedIsForgotten'
  <2>1. repeated' \subseteq 1..Len(sent')
    BY <1>1, <1>10, LogGrows DEF RepeatedIsForgotten
  <2>2. \A s \in A : repeat_cmd'[s].id \notin 1..Len(sent)
    BY <1>3, LogGrows
  <2>3. \A s \in Used' : repeat_cmd'[s].id \notin repeated'
    BY <1>1, <1>2, <1>11, <2>2 DEF RepeatedIsForgotten
  <2> QED BY <2>1, <2>3 DEF RepeatedIsForgotten
<1>14. \A f \in air : f.id \in 1..Len(sent) /\ f.cause \in 1..Len(sent)
  <2>1. \A f \in air : f.id \in Nat \ {0} /\ f.cause \in Nat \ {0}
    BY ConstantsOK DEF TypeOK, Frames, Ids
  <2> QED BY <2>1, LogGrows DEF AirRecordsSent
<1>15. AirRecordsSent'
  BY <1>10, <1>14, NewFrameRecords, LogGrows DEF AirRecordsSent
<1>16. RepeatsToSameTarget'
  BY <1>10, <1>14, NewFrameRecords DEF RepeatsToSameTarget
<1> QED BY <1>7, <1>8, <1>9, <1>12, <1>13, <1>15, <1>16
(* The number of entries and the frames in the air point into the log.      *)
LEMMA PointsIntoLog ==
  ASSUME IInv
  PROVE  /\ \A s \in Used : repeat_cmd[s] \in Entries
                            /\ repeat_cmd[s].id \in 1..Len(sent)
         /\ \A f \in air : f.id \in 1..Len(sent) /\ f.cause \in 1..Len(sent)
<1>1. \A s \in Used : s \in Slots /\ repeat_cmd[s] \in Entries
  BY DEF IInv, Used, TypeOK, NoEntry
<1>2. \A e \in Entries : e.id \in Nat \ {0}
  BY ConstantsOK DEF Entries, Ids
<1>3. \A f \in air : f.id \in Nat \ {0} /\ f.cause \in Nat \ {0}
  BY ConstantsOK DEF IInv, TypeOK, Frames, Ids
<1>4. Len(sent) \in Nat
  BY LenProperties DEF IInv, TypeOK
<1> QED BY <1>1, <1>2, <1>3, <1>4 DEF IInv, TableRecordsSent, AirRecordsSent

(* The steps that empty the table preserve the invariant, whether they      *)
(* clear the counter (watchdog, long sleep, reboot) or forget to            *)
(* (device_model_init, where the watchdog stays armed).                     *)
LEMMA ResetKeeps ==
  ASSUME IInv, ResetTable, UNCHANGED <<sent, failed, repeated>>,
         not_sleep' \in BOOLEAN, air' \subseteq air,
         \/ repeat_cmd_num' = 0 /\ timerRepeatCmdNumClearEvt' = FALSE
         \/ DriftBound /\ UNCHANGED <<repeat_cmd_num, timerRepeatCmdNumClearEvt>>
  PROVE  IInv'
<1> USE DEF IInv
<1>1. /\ Used' = {} /\ Cardinality(Used)' = 0
      /\ repeat_cmd' \in [Slots -> Entries \cup {NoEntry}]
  BY ResetEmpties
<1>2. TypeOK'
  <2>1. repeat_cmd_num' \in 0..(COUNT_MOD - 1)
    BY ConstantsOK DEF TypeOK
  <2>2. timerRepeatCmdNumClearEvt' \in BOOLEAN
    BY DEF TypeOK
  <2>3. air' \subseteq Frames
    BY DEF TypeOK
  <2> QED BY <1>1, <2>1, <2>2, <2>3 DEF TypeOK
<1>3. CountCoversTable'
  BY <1>1, ConstantsOK DEF CountCoversTable, TypeOK, DriftBound
<1>4. WatchdogArmed'
  BY <1>1 DEF WatchdogArmed
<1>5. TableRecordsSent' /\ RepeatedIsForgotten'
  BY <1>1 DEF TableRecordsSent, RepeatedIsForgotten
<1>6. AirRecordsSent' /\ RepeatsToSameTarget'
  BY DEF AirRecordsSent, RepeatsToSameTarget
<1> QED BY <1>2, <1>3, <1>4, <1>5, <1>6

(* A confirmation that matches no entry preserves the invariant.            *)
LEMMA UnmatchedKeeps ==
  ASSUME IInv, NEW f \in air, UnmatchedConfirm(f)
  PROVE  IInv'
<1> USE DEF IInv
<1>1. /\ UNCHANGED <<repeat_cmd, repeat_cmd_num, timerRepeatCmdNumClearEvt,
                     sent, failed, repeated>>
      /\ air' \subseteq air /\ not_sleep' \in BOOLEAN
  BY DEF UnmatchedConfirm, ClearButtonSleepTimer, TypeOK
<1>2. Used' = Used
  BY <1>1 DEF Used
<1>3. TypeOK' /\ CountCoversTable' /\ WatchdogArmed'
  BY <1>1, <1>2 DEF TypeOK, CountCoversTable, WatchdogArmed
<1>4. TableRecordsSent' /\ RepeatedIsForgotten'
  BY <1>1, <1>2 DEF TableRecordsSent, RepeatedIsForgotten
<1>5. AirRecordsSent' /\ RepeatsToSameTarget'
  BY <1>1 DEF AirRecordsSent, RepeatsToSameTarget
<1> QED BY <1>3, <1>4, <1>5

(* A confirmation that matches an entry frees it and takes one from the     *)
(* counter.                                                                 *)
LEMMA MatchedEffect ==
  ASSUME IInv, NEW f \in air, NEW success \in BOOLEAN, MatchedConfirm(f, success)
  PROVE  LET s == FirstOf(Matching(f))
             retry == ~success /\ ~f.dest.group
         IN  /\ s \in Used /\ s \in Matching(f)
             /\ Used' = Used \ {s}
             /\ \A t \in Used' : repeat_cmd'[t] = repeat_cmd[t]
             /\ repeat_cmd' = [repeat_cmd EXCEPT ![s] = NoEntry]
             /\ Cardinality(Used) \in Nat
             /\ Cardinality(Used)' = Cardinality(Used) - 1
             /\ repeat_cmd_num > 0 /\ repeat_cmd_num' = repeat_cmd_num - 1
             /\ repeated' = IF retry THEN repeated \cup {repeat_cmd[s].id}
                                     ELSE repeated
             /\ \A g \in air' : \/ g \in air
                                \/ retry /\ g = RepeatFrame(repeat_cmd[s], f)
             /\ not_sleep' \in BOOLEAN
             /\ UNCHANGED <<timerRepeatCmdNumClearEvt, sent>>
<1> USE DEF IInv
<1> DEFINE s == FirstOf(Matching(f))
<1>1. s \in Matching(f) /\ s \in Used /\ Used \subseteq Slots
  <2>1. Matching(f) \in SUBSET Slots /\ Matching(f) \subseteq Used /\ Used \subseteq Slots
    BY DEF Matching, Used
  <2>2. Matching(f) # {}
    BY DEF MatchedConfirm
  <2> QED BY <2>1, <2>2, FirstOfIsMember
<1>2. repeat_cmd' = [repeat_cmd EXCEPT ![s] = NoEntry]
  BY DEF MatchedConfirm
<1> HIDE DEF s
<1>3. Used' = Used \ {s} /\ \A t \in Used' : repeat_cmd'[t] = repeat_cmd[t]
  BY <1>1, <1>2 DEF Used, TypeOK, NoEntry
<1>4. /\ Cardinality(Used) \in Nat /\ Cardinality(Used) > 0
      /\ Cardinality(Used)' = Cardinality(Used) - 1
  <2>1. IsFiniteSet(Used) /\ Cardinality(Used) \in Nat
    BY <1>1, SlotSets, ConstantsOK
  <2>2. Cardinality(Used \ {s}) = Cardinality(Used) - 1
    BY <1>1, <2>1, FS_RemoveElement
  <2>3. Cardinality(Used) # 0
    BY <1>1, <2>1, FS_EmptySet
  <2> QED BY <1>3, <2>1, <2>2, <2>3
<1>5. repeat_cmd_num > 0 /\ repeat_cmd_num' = repeat_cmd_num - 1
  BY <1>4, ConstantsOK DEF MatchedConfirm, CountCoversTable, TypeOK
<1>6. /\ repeated' = IF ~success /\ ~f.dest.group
                     THEN repeated \cup {repeat_cmd[s].id} ELSE repeated
      /\ not_sleep' \in BOOLEAN
      /\ UNCHANGED <<timerRepeatCmdNumClearEvt, sent>>
  BY DEF MatchedConfirm, ClearButtonSleepTimer, TypeOK, s
<1>7. \A g \in air' : \/ g \in air
                      \/ ~success /\ ~f.dest.group /\ g = RepeatFrame(repeat_cmd[s], f)
  BY DEF MatchedConfirm, s
<1> QED BY <1>1, <1>2, <1>3, <1>4, <1>5, <1>6, <1>7 DEF s

(* ... and preserves the invariant.                                         *)
LEMMA MatchedKeeps ==
  ASSUME IInv, NEW f \in air, NEW success \in BOOLEAN, MatchedConfirm(f, success)
  PROVE  IInv'
<1> USE DEF IInv
<1> DEFINE s == FirstOf(Matching(f))
           e == repeat_cmd[s]
           retry == ~success /\ ~f.dest.group
<1>1. /\ s \in Used /\ s \in Matching(f)
      /\ Used' = Used \ {s}
      /\ \A t \in Used' : repeat_cmd'[t] = repeat_cmd[t]
      /\ repeat_cmd' = [repeat_cmd EXCEPT ![s] = NoEntry]
  BY MatchedEffect
<1>2. /\ Cardinality(Used) \in Nat
      /\ Cardinality(Used)' = Cardinality(Used) - 1
      /\ repeat_cmd_num > 0 /\ repeat_cmd_num' = repeat_cmd_num - 1
      /\ not_sleep' \in BOOLEAN
      /\ UNCHANGED <<timerRepeatCmdNumClearEvt, sent>>
  BY MatchedEffect
<1>3. repeated' = IF retry THEN repeated \cup {e.id} ELSE repeated
  BY MatchedEffect
<1>4. \A g \in air' : g \in air \/ (retry /\ g = RepeatFrame(e, f))
  BY MatchedEffect
<1>5. e \in Entries /\ e.id \in 1..Len(sent) /\ f \in Frames /\ f.id \in 1..Len(sent)
  BY <1>1, PointsIntoLog DEF TypeOK
<1>6. /\ e.ep = f.ep /\ e.cluster = f.cluster
      /\ e.dest.name = f.dest.name /\ e.dest.group = f.dest.group
      /\ e.ep = sent[e.id].ep /\ e.cluster = sent[e.id].cluster
      /\ e.dest = sent[e.id].dest
  BY <1>1 DEF Matching, TableRecordsSent
<1>7. CountCoversTable' /\ WatchdogArmed'
  BY <1>1, <1>2, ConstantsOK DEF CountCoversTable, WatchdogArmed, TypeOK
<1> HIDE DEF s, e
<1>8. TypeOK'
  <2>1. repeat_cmd' \in [Slots -> Entries \cup {NoEntry}]
    BY <1>1 DEF TypeOK
  <2>2. repeat_cmd_num' \in 0..(COUNT_MOD - 1)
    BY <1>2, ConstantsOK DEF TypeOK
  <2>3. failed' \subseteq Ids
    BY <1>5 DEF MatchedConfirm, TypeOK, Frames
  <2>4. repeated' \subseteq Ids
    BY <1>3, <1>5 DEF Entries, TypeOK
  <2>5. RepeatFrame(e, f) \in Frames
    BY <1>5 DEF RepeatFrame, Frames, Entries
  <2>6. air' \subseteq Frames
    BY <1>4, <2>5 DEF TypeOK
  <2> QED BY <1>2, <2>1, <2>2, <2>3, <2>4, <2>6 DEF TypeOK
<1>9. TableRecordsSent'
  BY <1>1, <1>2 DEF TableRecordsSent
<1>10. RepeatedIsForgotten'
  <2>1. \A t \in Used' : repeat_cmd[t].id # e.id
    BY <1>1 DEF TableRecordsSent, e
  <2>2. repeated' \subseteq repeated \cup {e.id}
    BY <1>3
  <2>3. repeated' \subseteq 1..Len(sent')
    BY <1>2, <1>5, <2>2 DEF RepeatedIsForgotten
  <2>4. \A t \in Used' : t \in Used /\ repeat_cmd'[t].id = repeat_cmd[t].id
    BY <1>1
  <2>5. \A t \in Used' : repeat_cmd'[t].id \notin repeated'
    BY <2>1, <2>2, <2>4 DEF RepeatedIsForgotten
  <2> QED BY <2>3, <2>5 DEF RepeatedIsForgotten
<1>11. RepeatFrame(e, f) =
         [id |-> e.id, ep |-> e.ep, cluster |-> e.cluster, dest |-> e.dest,
          cmd |-> e.cmd, repeat |-> TRUE, cause |-> f.id]
  BY DEF RepeatFrame
<1>12. AirRecordsSent'
  BY <1>2, <1>4, <1>5, <1>6, <1>11 DEF AirRecordsSent
<1>13. RepeatsToSameTarget'
  <2>1. /\ sent[f.id].ep = f.ep /\ sent[f.id].cluster = f.cluster
        /\ sent[f.id].dest = f.dest
    BY DEF AirRecordsSent
  <2>2. f.dest \in Target /\ e.dest \in Target
    BY <1>5 DEF Frames, Entries
  <2>3. ASSUME NEW g \in air', g.repeat, g \notin air
        PROVE  /\ sent[g.id].ep = g.ep /\ sent[g.id].cluster = g.cluster
               /\ sent[g.id].dest = g.dest
               /\ sent[g.cause].ep = g.ep /\ sent[g.cause].cluster = g.cluster
               /\ sent[g.cause].dest.name = g.dest.name
               /\ sent[g.cause].dest.group = FALSE
    <3>1. retry /\ g = RepeatFrame(e, f)
      BY <1>4, <2>3
    <3>2. f.dest.group = FALSE
      BY <2>2, <3>1 DEF Target
    <3> QED BY <1>6, <1>11, <2>1, <3>1, <3>2
  <2> QED BY <1>2, <2>3 DEF RepeatsToSameTarget
<1> QED BY <1>7, <1>8, <1>9, <1>10, <1>12, <1>13

-----------------------------------------------------------------------------
(* The initial states satisfy the invariant.                                *)
LEMMA InitEstablishes == Init => IInv
<1> SUFFICES ASSUME Init  PROVE IInv
  OBVIOUS
<1>1. Used = {}
  BY DEF Init, Used, NoEntry
<1>2. Cardinality(Used) = 0
  BY <1>1, FS_EmptySet
<1>3. sent \in Seq(Sendings) /\ Len(sent) = 0
  BY EmptySeq DEF Init
<1>4. TypeOK
  <2>1. repeat_cmd \in [Slots -> Entries \cup {NoEntry}]
    BY DEF Init
  <2>2. repeat_cmd_num \in 0..(COUNT_MOD - 1) /\ Len(sent) <= MaxSent
    BY <1>3, ConstantsOK DEF Init
  <2>3. not_sleep \in BOOLEAN /\ timerRepeatCmdNumClearEvt \in BOOLEAN
    BY DEF Init
  <2>4. air \subseteq Frames /\ failed \subseteq Ids /\ repeated \subseteq Ids
    BY DEF Init
  <2> QED BY <1>3, <2>1, <2>2, <2>3, <2>4 DEF TypeOK
<1>5. CountCoversTable
  BY <1>2, ConstantsOK DEF Init, CountCoversTable
<1>6. WatchdogArmed /\ TableRecordsSent /\ RepeatedIsForgotten
  BY <1>1 DEF Init, WatchdogArmed, TableRecordsSent, RepeatedIsForgotten
<1>7. AirRecordsSent /\ RepeatsToSameTarget
  BY DEF Init, AirRecordsSent, RepeatsToSameTarget
<1> QED BY <1>4, <1>5, <1>6, <1>7 DEF IInv

(* A step of another component changes nothing here.                        *)
LEMMA StutterKeeps ==
  ASSUME IInv, not_sleep' \in BOOLEAN,
         UNCHANGED <<repeat_cmd, repeat_cmd_num, timerRepeatCmdNumClearEvt,
                     air, sent, failed, repeated>>
  PROVE  IInv'
<1>1. Used' = Used
  BY DEF Used
<1> QED BY <1>1 DEF IInv, TypeOK, CountCoversTable, WatchdogArmed,
              TableRecordsSent, RepeatedIsForgotten, AirRecordsSent,
              RepeatsToSameTarget

(* The invariant is inductive.                                              *)
LEMMA NextKeeps == IInv /\ [Next]_vars => IInv'
<1> SUFFICES ASSUME IInv, [Next]_vars  PROVE IInv'
  OBVIOUS
<1>1. ASSUME NEW ep \in Endpoints, NEW c \in Commands, SendCommand(ep, c)
      PROVE  IInv'
  BY <1>1, SendKeeps
<1>2. CASE ApsConfirm
  BY <1>2, UnmatchedKeeps, MatchedKeeps DEF ApsConfirm
<1>3. CASE ClearTimerFires
  BY <1>3, ResetKeeps DEF ClearTimerFires, ClearButtonSleepTimer, IInv, TypeOK
<1>4. CASE LongSleep
  BY <1>4, ResetKeeps DEF LongSleep, IInv, TypeOK
<1>5. CASE DeviceModelInit
  BY <1>5, ResetKeeps DEF DeviceModelInit, IInv, TypeOK
<1>6. CASE OthersWriteNotSleep
  BY <1>6, StutterKeeps DEF OthersWriteNotSleep, IInv, TypeOK
<1>7. CASE Reboot
  BY <1>7, ResetKeeps DEF Reboot
<1>8. CASE UNCHANGED vars
  BY <1>8, StutterKeeps DEF vars, IInv, TypeOK
<1> QED BY <1>1, <1>2, <1>3, <1>4, <1>5, <1>6, <1>7, <1>8 DEF Next

(* The inductive invariant holds in every reachable state.                  *)
THEOREM Invariance == Spec => []IInv
BY InitEstablishes, NextKeeps, PTL DEF Spec

(* The variables keep their types: the counter stays within its width and   *)
(* every occupied slot holds a complete entry.                              *)
THEOREM TypeCorrect == Spec => []TypeOK
BY Invariance, PTL DEF IInv

(* The counter the sleep decision reads never falls below the number of     *)
(* entries, for every table size and every order of confirmations.          *)
THEOREM CountIsSafe == Spec => []CountCoversTable
BY Invariance, PTL DEF IInv

(* No entry is ever left without the watchdog that removes it.              *)
THEOREM WatchdogGuards == Spec => []WatchdogArmed
BY Invariance, PTL DEF IInv

(* Entries are faithful records of what was sent, at most one per sending.  *)
THEOREM TableIsFaithful == Spec => []TableRecordsSent
BY Invariance, PTL DEF IInv

(* A repeat only goes to the lamp whose acknowledgement failed.             *)
THEOREM RepeatsAreAddressed == Spec => []RepeatsToSameTarget
BY Invariance, PTL DEF IInv

-----------------------------------------------------------------------------
(* A step that puts a repeat into the air puts it there for a command that  *)
(* was not repeated before.                                                 *)
LEMMA StepRepeatsOnce ==
  ASSUME IInv, [Next]_vars, NEW f \in air', f \notin air, f.repeat
  PROVE  f.id \notin repeated
<1>1. ASSUME NEW ep \in Endpoints, NEW c \in Commands, SendCommand(ep, c)
      PROVE  FALSE
  BY <1>1, NewFrameRecords DEF IInv
<1>2. ASSUME NEW g \in air, UnmatchedConfirm(g)  PROVE FALSE
  BY <1>2 DEF UnmatchedConfirm
<1>3. ASSUME NEW g \in air, NEW success \in BOOLEAN, MatchedConfirm(g, success)
      PROVE  f.id \notin repeated
  <2> DEFINE s == FirstOf(Matching(g))
  <2>1. s \in Used /\ f = RepeatFrame(repeat_cmd[s], g)
    BY <1>3, MatchedEffect
  <2>2. f.id = repeat_cmd[s].id
    BY <2>1 DEF RepeatFrame
  <2> QED BY <2>1, <2>2 DEF IInv, RepeatedIsForgotten
<1> QED BY <1>1, <1>2, <1>3
        DEF Next, ApsConfirm, ClearTimerFires, LongSleep, DeviceModelInit,
            OthersWriteNotSleep, Reboot, vars

(* No command is ever sent a third time.                                    *)
THEOREM NeverThreeTimes == Spec => AtMostOneRepeat
<1>1. IInv /\ [Next]_vars
        => [\A f \in air' \ air : f.repeat => f.id \notin repeated]_vars
  BY StepRepeatsOnce
<1> QED BY <1>1, Invariance, PTL DEF Spec, AtMostOneRepeat

(* A step that reports the frame of a recorded command lost sends that      *)
(* command again when no other entry has its endpoint, cluster and lamp.    *)
LEMMA StepRepeatsLone ==
  ASSUME IInv, [Next]_vars, NEW n \in failed', n \notin failed, Alone(n)
  PROVE  n \in repeated'
<1>1. PICK f \in air, success \in BOOLEAN : MatchedConfirm(f, success)
  BY DEF Next, SendCommand, ApsConfirm, UnmatchedConfirm, ClearTimerFires,
         LongSleep, DeviceModelInit, OthersWriteNotSleep, Reboot, vars
<1> DEFINE s == FirstOf(Matching(f))
<1>2. n = f.id /\ ~success /\ ~f.dest.group
  BY <1>1 DEF MatchedConfirm
<1>3. /\ s \in Used /\ s \in Matching(f)
      /\ repeated' = repeated \cup {repeat_cmd[s].id}
  BY <1>1, <1>2, MatchedEffect
<1> HIDE DEF s
<1>4. /\ sent[n].ep = f.ep
      /\ sent[n].cluster = f.cluster
      /\ sent[n].dest = f.dest
  BY <1>2 DEF IInv, AirRecordsSent
<1>5. repeat_cmd[s].id = n
  BY <1>3, <1>4 DEF Alone, Matching
<1> QED BY <1>3, <1>5

(* A lost command that is alone in the table under its key is itself sent   *)
(* again, for every table size and every order of confirmations.            *)
THEOREM LoneLossRepeats == Spec => LoneLossIsRepeated
<1>1. IInv /\ [Next]_vars
        => [\A n \in failed' \ failed : Alone(n) => n \in repeated']_vars
  BY StepRepeatsLone
<1> QED BY <1>1, Invariance, PTL DEF Spec, LoneLossIsRepeated

(* Every step of the table is a step of RepeatOnce or changes nothing of    *)
(* what RepeatOnce sees.                                                    *)
LEMMA StepSimulates ==
  ASSUME IInv, [Next]_vars
  PROVE  [Once!Next]_(Once!vars)
<1> DEFINE pending == {repeat_cmd[s].id : s \in Used}
<1>1. ASSUME NEW ep \in Endpoints, NEW c \in Commands, SendCommand(ep, c)
      PROVE  Once!Send
  <2> DEFINE A == Added(ep, Cluster[c])
  <2>1. /\ \A s \in A : \E i \in DOMAIN Targets[ep][Cluster[c]] :
              repeat_cmd'[s] = NewEntry(ep, c, i)
        /\ \A s \in Slots \ A : repeat_cmd'[s] = repeat_cmd[s]
        /\ A \subseteq Free /\ Used' = Used \cup A
    BY <1>1, AddEffect DEF IInv, SendCommand
  <2>2. Used \subseteq Slots /\ Used \cap A = {}
    BY <2>1 DEF Used, Free
  <2>3. \A s \in A : /\ repeat_cmd'[s].id > Len(sent)
                    /\ repeat_cmd'[s].id <= Len(sent')
                    /\ repeat_cmd'[s].id \in Nat
    <3>1. \A e \in Entries : e.id \in Nat
      BY ConstantsOK DEF Entries, Ids
    <3> QED BY <1>1, <2>1, <3>1, NewEntryRecords DEF IInv
  <2>4. Len(sent) \in Nat /\ Len(sent') \in Nat /\ Len(sent) <= Len(sent')
    BY <1>1, LogGrows DEF IInv
  <2>5. pending' = pending \cup {repeat_cmd'[s].id : s \in A}
    BY <2>1, <2>2
  <2>6. \A s \in A : repeat_cmd'[s].id \in (1..Len(sent')) \ (1..Len(sent))
    BY <2>3, <2>4
  <2>7. 1..Len(sent) \subseteq 1..Len(sent')
    BY <2>4
  <2>8. repeated' = repeated
    BY <1>1 DEF SendCommand
  <2> QED BY <2>5, <2>6, <2>7, <2>8 DEF Once!Send
<1>2. ASSUME NEW f \in air, NEW success \in BOOLEAN, MatchedConfirm(f, success)
      PROVE  Once!Next
  <2> DEFINE s == FirstOf(Matching(f))
             e == repeat_cmd[s]
  <2>1. /\ s \in Used /\ Used' = Used \ {s} /\ sent' = sent
        /\ \A t \in Used' : repeat_cmd'[t] = repeat_cmd[t]
        /\ repeated' = IF ~success /\ ~f.dest.group
                       THEN repeated \cup {e.id} ELSE repeated
    BY <1>2, MatchedEffect
  <2> HIDE DEF s
  <2>2. \A t \in Used' : repeat_cmd[t].id # e.id
    BY <2>1 DEF IInv, TableRecordsSent
  <2>3. e.id \in pending /\ pending' = pending \ {e.id}
    BY <2>1, <2>2
  <2>4. CASE ~success /\ ~f.dest.group
    BY <2>1, <2>3, <2>4 DEF Once!Next, Once!Repeat
  <2>5. CASE ~(~success /\ ~f.dest.group)
    BY <2>1, <2>3, <2>5 DEF Once!Next, Once!Forget
  <2> QED BY <2>4, <2>5
<1>3. ASSUME ResetTable, UNCHANGED <<sent, repeated>>
      PROVE  Once!Forget
  BY <1>3, ResetEmpties DEF Once!Forget
<1>4. ASSUME UNCHANGED <<repeat_cmd, sent, repeated>>
      PROVE  UNCHANGED Once!vars
  BY <1>4 DEF Once!vars, Used
<1>5. CASE \E f \in air : UnmatchedConfirm(f)
  BY <1>4, <1>5 DEF UnmatchedConfirm
<1>6. CASE OthersWriteNotSleep \/ UNCHANGED vars
  BY <1>4, <1>6 DEF OthersWriteNotSleep, vars
<1>7. CASE ClearTimerFires \/ LongSleep \/ DeviceModelInit \/ Reboot
  BY <1>3, <1>7
     DEF ClearTimerFires, LongSleep, DeviceModelInit, Reboot, Once!Next
<1> QED BY <1>1, <1>2, <1>5, <1>6, <1>7 DEF Next, ApsConfirm, Once!Next

(* The repeat table implements the abstract promise of RepeatOnce: a        *)
(* command is repeated only while it is remembered, and at most once.       *)
THEOREM Refinement == Spec => RepeatsOnce
<1>1. Init => Once!Init
  <2> SUFFICES ASSUME Init  PROVE Once!Init
    OBVIOUS
  <2>1. Used = {}
    BY DEF Init, Used, NoEntry
  <2>2. Len(sent) = 0
    BY EmptySeq DEF Init
  <2> QED BY <2>1, <2>2 DEF Init, Once!Init
<1>2. IInv /\ [Next]_vars => [Once!Next]_(Once!vars)
  BY StepSimulates
<1> QED BY <1>1, <1>2, Invariance, PTL DEF Spec, RepeatsOnce, Once!Spec

=============================================================================
