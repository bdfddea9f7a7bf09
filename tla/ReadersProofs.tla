--------------------------- MODULE ReadersProofs ----------------------------
(***************************************************************************)
(* What is kept of readers, for any number of readers, lists, labels,      *)
(* vouchers and processes: nobody is on a list twice and the lists follow  *)
(* what is true when an application is alone (Membership); what a label    *)
(* keeps of a reader is explained (LabelData); allocators that do not      *)
(* overlap give each voucher to one reader, and each reader one (Vouchers). *)
(***************************************************************************)
EXTENDS ReaderRecords, TLAPS

-----------------------------------------------------------------------------
(* Labels and segments.  MInv: a list no two applications worked on at once *)
(* has one application at work at most, and what that one has read of the  *)
(* list is still so (Undisputed); a segment holds nobody twice (SegmentInv); *)
(* an application that is alone holds what was true when it began, and has *)
(* emptied what it is about to write, if that is anything (AloneInv); as   *)
(* long as nothing changes and applications of the label do not overlap,   *)
(* nobody its fn finds is about to be taken off (KeptInv).                 *)

Job == [at : Places, data : SUBSET Readers, before : SUBSET Readers,
        add : SUBSET Readers, remove : SUBSET Readers]

Active(j) == job[j].at # "idle"

(* A list no two applications worked on at once: one of them at most is    *)
(* active, what it has read of the list is true, whom it adds is not on it.*)
Undisputed(l) ==
    /\ \A j, k \in Jobs : List[j] = l /\ List[k] = l /\ Active(j) /\ Active(k) => j = k
    /\ \A j \in Jobs : List[j] = l =>
          /\ job[j].at = "after" => job[j].before = Members(l)
          /\ job[j].at = "update" => job[j].add \cap Members(l) = {}
    /\ \A r \in Readers : count[l][r] <= 1

ListsInv == \A l \in Lists : l \notin lists_overlapped => Undisputed(l)

SegmentInv == \A r \in Readers : count["segment"][r] <= 1

LabelInv == \A j \in Jobs : job[j].at \in {"clear", "write"} => List[j] = "label"

(* Where an application that is alone is, and what is left to it.          *)
AloneInv ==
    \A j \in alone :
        /\ Active(j)
        /\ \A k \in Jobs : Active(k) => k = j
        /\ job[j].at \in {"clear", "write"} => job[j].data = truth
        /\ job[j].at = "write" /\ truth # {} => label_data = {}
        /\ job[j].at \in {"before", "after", "update"} /\ List[j] = "label" /\ truth # {}
              => label_data = truth
        /\ job[j].at = "after" => job[j].before = Members(List[j])
        /\ job[j].at = "update" =>
              /\ job[j].add \subseteq Matching(List[j])
              /\ job[j].remove \cap Matching(List[j]) = {}
              /\ Members(List[j]) = (Matching(List[j]) \ job[j].add) \cup job[j].remove

(* Nothing is taken from the readers a label's fn has always found.        *)
KeptInv ==
    changes = 0 /\ "label" \notin lists_overlapped =>
        \A j \in Jobs : List[j] = "label" =>
            /\ job[j].at \in {"clear", "write"} => job[j].data = truth
            /\ job[j].at \in {"before", "after"} => truth \subseteq label_data
            /\ job[j].at = "update" => job[j].remove \cap truth = {}

MInv == ListsInv /\ SegmentInv /\ LabelInv /\ AloneInv /\ KeptInv

-----------------------------------------------------------------------------
(* Every step is one of these.                                             *)
LEMMA MembershipSteps ==
    ASSUME [MembershipNext]_membership_vars
    PROVE  \/ \E r \in Readers : Change(r)
           \/ \E j \in Jobs : Begin(j)
           \/ \E j \in Jobs : Clear(j) \/ WriteData(j)
           \/ \E j \in Jobs : ReadBefore(j) \/ ReadAfter(j)
           \/ \E j \in Jobs : Insert(j) \/ Delete(j)
           \/ \E j \in Jobs : End(j) \/ BreakOff(j)
           \/ UNCHANGED membership_vars
BY DEF MembershipNext

(* What a step of one application writes into it has the type.             *)
LEMMA JobType == MembershipTypeOK => job \in [Jobs -> Job]
BY DEF MembershipTypeOK, Job

LEMMA AddedType == \A l \in Lists, n \in 0..2 : Added(l, n) \in 1..2
BY DEF Added

(* The initial states have their types.                                    *)
LEMMA MembershipInitTypeOK == MembershipInit => MembershipTypeOK
<1> SUFFICES ASSUME MembershipInit PROVE MembershipTypeOK
  OBVIOUS
<1>1. count \in [Lists -> [Readers -> 0..2]]
  BY DEF MembershipInit
<1>2. job \in [Jobs -> [at : Places, data : SUBSET Readers, before : SUBSET Readers,
                        add : SUBSET Readers, remove : SUBSET Readers]]
  BY DEF MembershipInit, Idle, Places
<1>3. applies \in 0..MaxApplies /\ changes \in 0..MaxChanges
  BY BoundAssumption DEF MembershipInit
<1>4. QED
  BY <1>1, <1>2, <1>3 DEF MembershipInit, MembershipTypeOK, Idle

(* The type invariant is inductive.                                        *)
LEMMA MembershipNextTypeOK ==
    MembershipTypeOK /\ [MembershipNext]_membership_vars => MembershipTypeOK'
<1> SUFFICES ASSUME MembershipTypeOK, [MembershipNext]_membership_vars
             PROVE  MembershipTypeOK'
  OBVIOUS
<1> USE DEF Job
<1>0. job \in [Jobs -> Job]
  BY JobType
<1>1. ASSUME NEW r \in Readers, Change(r) PROVE MembershipTypeOK'
  <2>1. changes' \in 0..MaxChanges
    BY <1>1, BoundAssumption DEF Change, MembershipTypeOK
  <2>2. QED
    BY <1>1, <2>1 DEF Change, MembershipTypeOK
<1>2. ASSUME NEW j \in Jobs, Begin(j) PROVE MembershipTypeOK'
  <2>1. applies' \in 0..MaxApplies
    BY <1>2, BoundAssumption DEF Begin, MembershipTypeOK
  <2>2. job' \in [Jobs -> Job] /\ job'[j].add = {} /\ \A k \in Jobs \ {j} : job'[k] = job[k]
    BY <1>0, <1>2 DEF Begin, Idle, Places, MembershipTypeOK
  <2>3. lists_overlapped' \subseteq Lists /\ alone' \subseteq Jobs
    BY <1>2, ListAssumption DEF Begin, MembershipTypeOK
  <2>4. QED
    BY <1>2, <2>1, <2>2, <2>3 DEF Begin, MembershipTypeOK
<1>3. ASSUME NEW j \in Jobs, Clear(j) \/ WriteData(j) PROVE MembershipTypeOK'
  <2>1. job' \in [Jobs -> Job] /\ \A k \in Jobs : job'[k].add = job[k].add /\ job'[k].remove = job[k].remove
    BY <1>0, <1>3 DEF Clear, WriteData, Step, Places
  <2>2. label_data' \subseteq Readers
    BY <1>0, <1>3 DEF Clear, WriteData, MembershipTypeOK
  <2>3. QED
    BY <1>3, <2>1, <2>2 DEF Clear, WriteData, Step, bounds, MembershipTypeOK
<1>4. ASSUME NEW j \in Jobs, ReadBefore(j) \/ ReadAfter(j) PROVE MembershipTypeOK'
  <2>1. Members(List[j]) \subseteq Readers /\ Matching(List[j]) \subseteq Readers
    BY DEF Members, Matching, MembershipTypeOK
  <2>2. CASE ReadBefore(j)
    <3>1. job' \in [Jobs -> Job] /\ \A k \in Jobs : job'[k].add = job[k].add /\ job'[k].remove = job[k].remove
      BY <1>0, <2>1, <2>2 DEF ReadBefore, Step, Places
    <3>2. QED
      BY <2>2, <3>1 DEF ReadBefore, Step, bounds, MembershipTypeOK
  <2>3. CASE ReadAfter(j)
    <3>1. /\ job' \in [Jobs -> Job]
          /\ job'[j].add \cap job'[j].remove = {}
          /\ \A k \in Jobs \ {j} : job'[k] = job[k]
      BY <1>0, <2>1, <2>3 DEF ReadAfter, Step, Places, Idle
    <3>2. QED
      BY <2>3, <3>1 DEF ReadAfter, Step, bounds, MembershipTypeOK
  <2>4. QED
    BY <1>4, <2>2, <2>3
<1>5. ASSUME NEW j \in Jobs, Insert(j) \/ Delete(j) PROVE MembershipTypeOK'
  <2>1. /\ job' \in [Jobs -> Job]
        /\ \A k \in Jobs : job'[k].add \subseteq job[k].add /\ job'[k].remove \subseteq job[k].remove
    <3>1. CASE Insert(j)
      <4>1. PICK p \in Page(job[j].add) : job' = [job EXCEPT ![j] = [job[j] EXCEPT !.add = @ \ p]]
        BY <3>1 DEF Insert, Step
      <4>2. QED
        BY <1>0, <4>1
    <3>2. CASE Delete(j)
      <4>1. PICK p \in Page(job[j].remove) :
               job' = [job EXCEPT ![j] = [job[j] EXCEPT !.remove = @ \ p]]
        BY <3>2 DEF Delete, Step
      <4>2. QED
        BY <1>0, <4>1
    <3>3. QED
      BY <1>5, <3>1, <3>2
  <2>2. count' \in [Lists -> [Readers -> 0..2]]
    <3>1. CASE Insert(j)
      BY <3>1, AddedType, ListAssumption DEF Insert, MembershipTypeOK
    <3>2. CASE Delete(j)
      BY <3>2, ListAssumption DEF Delete, MembershipTypeOK
    <3>3. QED
      BY <1>5, <3>1, <3>2
  <2>3. QED
    BY <1>5, <2>1, <2>2 DEF Insert, Delete, Step, bounds, MembershipTypeOK
<1>6. ASSUME NEW j \in Jobs, End(j) \/ BreakOff(j) PROVE MembershipTypeOK'
  <2>1. job' = [job EXCEPT ![j] = Idle] /\ Idle \in Job /\ Idle.add = {}
    BY <1>6 DEF End, BreakOff, Idle, Places
  <2>2. QED
    BY <1>0, <1>6, <2>1 DEF End, BreakOff, bounds, MembershipTypeOK
<1>7. CASE UNCHANGED membership_vars
  BY <1>7 DEF membership_vars, bounds, MembershipTypeOK
<1>8. QED
  BY <1>1, <1>2, <1>3, <1>4, <1>5, <1>6, <1>7, MembershipSteps

(* Every variable keeps its type, and no application adds a reader whom it *)
(* removes.                                                                *)
THEOREM MembershipTypeCorrect == MembershipSpec => []MembershipTypeOK
<1>1. QED
  BY MembershipInitTypeOK, MembershipNextTypeOK, PTL DEF MembershipSpec

-----------------------------------------------------------------------------
(* Every step keeps the invariant.                                         *)
LEMMA NextMInv == MembershipTypeOK /\ MInv /\ [MembershipNext]_membership_vars => MInv'
<1> SUFFICES ASSUME MembershipTypeOK, MInv, [MembershipNext]_membership_vars PROVE MInv'
  OBVIOUS
<1>0. job \in [Jobs -> Job] /\ alone \subseteq Jobs /\ List \in [Jobs -> Lists]
  BY JobType, ListAssumption DEF MembershipTypeOK
<1>1. ASSUME NEW r \in Readers, Change(r) PROVE MInv'
  <2>1. changes' # 0
    BY <1>1 DEF Change, MembershipTypeOK
  <2>2. ListsInv' /\ SegmentInv' /\ LabelInv'
    BY <1>1 DEF Change, MInv, ListsInv, Undisputed, Active, Members, SegmentInv, LabelInv
  <2>3. AloneInv' /\ KeptInv'
    BY <1>1, <2>1 DEF Change, AloneInv, KeptInv
  <2>4. QED
    BY <2>2, <2>3 DEF MInv
<1>2. ASSUME NEW j \in Jobs, Begin(j) PROVE MInv'
  <2>1. /\ job'[j].at = IF List[j] = "label" THEN "clear" ELSE "before"
        /\ List[j] = "label" => job'[j].data = truth
        /\ \A k \in Jobs \ {j} : job'[k] = job[k]
        /\ job[j].at = "idle"
    BY <1>0, <1>2 DEF Begin, Idle
  <2>2. UNCHANGED <<truth, label_data, count, changes>>
    BY <1>2 DEF Begin
  <2>3. /\ lists_overlapped \subseteq lists_overlapped'
        /\ List[j] \notin lists_overlapped' =>
              \A k \in Jobs \ {j} : List[k] = List[j] => ~Active(k)
    BY <1>2 DEF Begin, Active
  <2>4. ListsInv'
    BY <1>0, <2>1, <2>2, <2>3 DEF MInv, ListsInv, Undisputed, Active, Members
  <2>5. SegmentInv' /\ LabelInv'
    BY <2>1, <2>2 DEF MInv, SegmentInv, LabelInv
  <2>6. AloneInv'
    <3>1. \A k \in alone' : k = j /\ \A i \in Jobs \ {j} : ~Active(i)
      BY <1>2 DEF Begin, Active
    <3>2. QED
      BY <2>1, <2>2, <3>1 DEF AloneInv, Active
  <2>7. KeptInv'
    BY <2>1, <2>2, <2>3 DEF MInv, KeptInv
  <2>8. QED
    BY <2>4, <2>5, <2>6, <2>7 DEF MInv
<1>3. ASSUME NEW j \in Jobs, Clear(j) PROVE MInv'
  <2>1. /\ job[j].at = "clear" /\ job'[j].at = "write" /\ job'[j].data = job[j].data
        /\ \A k \in Jobs \ {j} : job'[k] = job[k]
    BY <1>0, <1>3 DEF Clear, Step
  <2>2. /\ UNCHANGED <<truth, count, changes, lists_overlapped>>
        /\ label_data' = IF job[j].data = {} THEN label_data ELSE {}
        /\ alone' = alone \cap {j} /\ List[j] = "label"
    BY <1>3, <2>1 DEF Clear, Step, bounds, MInv, LabelInv
  <2>3. ListsInv' /\ SegmentInv' /\ LabelInv'
    BY <2>1, <2>2 DEF MInv, ListsInv, Undisputed, Active, Members, SegmentInv, LabelInv
  <2>4. AloneInv'
    BY <1>0, <2>1, <2>2 DEF MInv, AloneInv, Active
  <2>5. KeptInv'
    <3>1. "label" \notin lists_overlapped =>
             \A k \in Jobs \ {j} : List[k] = "label" => job[k].at = "idle"
      BY <2>1, <2>2 DEF MInv, ListsInv, Undisputed, Active, Lists
    <3>2. QED
      BY <2>1, <2>2, <3>1 DEF MInv, KeptInv
  <2>6. QED
    BY <2>3, <2>4, <2>5 DEF MInv
<1>4. ASSUME NEW j \in Jobs, WriteData(j) PROVE MInv'
  <2>1. /\ job[j].at = "write" /\ job'[j].at = "before"
        /\ \A k \in Jobs \ {j} : job'[k] = job[k]
    BY <1>0, <1>4 DEF WriteData, Step
  <2>2. /\ UNCHANGED <<truth, count, changes, lists_overlapped>>
        /\ label_data' = label_data \cup job[j].data
        /\ alone' = alone \cap {j} /\ List[j] = "label"
    BY <1>4, <2>1 DEF WriteData, Step, bounds, MInv, LabelInv
  <2>3. ListsInv' /\ SegmentInv' /\ LabelInv'
    BY <2>1, <2>2 DEF MInv, ListsInv, Undisputed, Active, Members, SegmentInv, LabelInv
  <2>4. AloneInv'
    BY <1>0, <2>1, <2>2 DEF MInv, AloneInv, Active
  <2>5. KeptInv'
    <3>1. "label" \notin lists_overlapped =>
             \A k \in Jobs \ {j} : List[k] = "label" => job[k].at = "idle"
      BY <2>1, <2>2 DEF MInv, ListsInv, Undisputed, Active, Lists
    <3>2. QED
      BY <2>1, <2>2, <3>1 DEF MInv, KeptInv
  <2>6. QED
    BY <2>3, <2>4, <2>5 DEF MInv
<1>5. ASSUME NEW j \in Jobs, ReadBefore(j) PROVE MInv'
  <2>1. /\ job[j].at = "before" /\ job'[j].at = "after"
        /\ job'[j].before = Members(List[j])
        /\ \A k \in Jobs \ {j} : job'[k] = job[k]
    BY <1>0, <1>5 DEF ReadBefore, Step
  <2>2. /\ UNCHANGED <<truth, label_data, count, changes, lists_overlapped>>
        /\ alone' = alone \cap {j}
    BY <1>5 DEF ReadBefore, Step, bounds
  <2>3. ListsInv' /\ SegmentInv' /\ LabelInv'
    BY <2>1, <2>2 DEF MInv, ListsInv, Undisputed, Active, Members, SegmentInv, LabelInv
  <2>4. AloneInv'
    BY <1>0, <2>1, <2>2 DEF MInv, AloneInv, Active, Members
  <2>5. KeptInv'
    BY <2>1, <2>2 DEF MInv, KeptInv
  <2>6. QED
    BY <2>3, <2>4, <2>5 DEF MInv
<1>6. ASSUME NEW j \in Jobs, ReadAfter(j) PROVE MInv'
  <2>1. /\ job[j].at = "after" /\ job'[j].at = "update"
        /\ job'[j].add = Matching(List[j]) \ job[j].before
        /\ job'[j].remove = job[j].before \ Matching(List[j])
        /\ \A k \in Jobs \ {j} : job'[k] = job[k]
    BY <1>0, <1>6 DEF ReadAfter, Step, Idle
  <2>2. /\ UNCHANGED <<truth, label_data, count, changes, lists_overlapped>>
        /\ alone' = alone \cap {j}
    BY <1>6 DEF ReadAfter, Step, bounds
  <2>3. ListsInv' /\ SegmentInv' /\ LabelInv'
    BY <2>1, <2>2 DEF MInv, ListsInv, Undisputed, Active, Members, SegmentInv, LabelInv
  <2>4. AloneInv'
    BY <1>0, <2>1, <2>2 DEF MInv, AloneInv, Active, Members, Matching
  <2>5. KeptInv'
    BY <2>1, <2>2 DEF MInv, KeptInv, Matching
  <2>6. QED
    BY <2>3, <2>4, <2>5 DEF MInv
<1>7. ASSUME NEW j \in Jobs, Insert(j) PROVE MInv'
  <2>1. PICK p \in Page(job[j].add) :
           /\ Step(j, [job[j] EXCEPT !.add = @ \ p])
           /\ count' = [count EXCEPT ![List[j]] =
                          [r \in Readers |-> IF r \in p THEN Added(List[j], @[r]) ELSE @[r]]]
    BY <1>7 DEF Insert
  <2>2. /\ job[j].at = "update" /\ job'[j].at = "update" /\ p \subseteq job[j].add
        /\ job'[j].add = job[j].add \ p /\ job'[j].remove = job[j].remove
        /\ \A k \in Jobs \ {j} : job'[k] = job[k]
    <3>1. p \subseteq job[j].add
      BY <2>1 DEF Page
    <3>2. job[j].at = "update"
      BY <1>7 DEF Insert
    <3>3. job' = [job EXCEPT ![j] = [job[j] EXCEPT !.add = @ \ p]]
      BY <2>1 DEF Step
    <3>4. QED
      BY <1>0, <3>1, <3>2, <3>3 DEF Job
  <2>3. /\ UNCHANGED <<truth, label_data, changes, lists_overlapped>>
        /\ alone' = alone \cap {j}
    BY <1>7, <2>1 DEF Insert, Step, bounds
  <2>4. /\ \A l \in Lists \ {List[j]} : count'[l] = count[l]
        /\ \A r \in Readers : count'[List[j]][r] = IF r \in p THEN Added(List[j], count[List[j]][r])
                                                             ELSE count[List[j]][r]
    BY <1>0, <2>1 DEF MembershipTypeOK
  <2>5. /\ \A l \in Lists \ {List[j]} : Members(l)' = Members(l)
        /\ Members(List[j])' = Members(List[j]) \cup p
    <3>1. p \subseteq Readers /\ List[j] \in Lists
      BY <1>0, <2>2 DEF Job
    <3>2. \A r \in Readers : count[List[j]][r] \in 0..2
      BY <3>1 DEF MembershipTypeOK
    <3>3. \A r \in p : count'[List[j]][r] > 0
      BY <2>4, <3>1, <3>2, AddedType
    <3>4. QED
      BY <2>4, <3>1, <3>3 DEF Members
  <2>6. ListsInv'
    <3>1. SUFFICES ASSUME NEW l \in Lists, l \notin lists_overlapped PROVE Undisputed(l)'
      BY <2>3 DEF ListsInv
    <3>2. Undisputed(l)
      BY <3>1 DEF MInv, ListsInv
    <3>3. CASE l # List[j]
      BY <2>2, <2>4, <2>5, <3>2, <3>3 DEF Undisputed, Active
    <3>4. CASE l = List[j]
      <4>1. \A r \in Readers : count'[l][r] <= 1
        <5>1. \A r \in p : r \in Readers /\ count[l][r] = 0
          BY <1>0, <2>2, <3>2, <3>4 DEF Undisputed, Members, Job, MembershipTypeOK
        <5>2. \A r \in p : Added(l, count[l][r]) = 1
          BY <5>1 DEF Added
        <5>3. QED
          BY <2>4, <3>2, <3>4, <5>2 DEF Undisputed
      <4>2. \A k \in Jobs \ {j} : List[k] = l => job[k].at = "idle"
        BY <2>2, <3>2, <3>4 DEF Undisputed, Active
      <4>3. job'[j].add \cap Members(l)' = {}
        BY <2>2, <2>5, <3>2, <3>4 DEF Undisputed
      <4>4. QED
        BY <2>2, <4>1, <4>2, <4>3 DEF Undisputed, Active
    <3>5. QED
      BY <3>3, <3>4
  <2>7. SegmentInv' /\ LabelInv'
    <3>1. ASSUME NEW r \in Readers PROVE count'["segment"][r] <= 1
      <4>1. CASE List[j] = "segment"
        BY <2>4, <4>1 DEF Added, MInv, SegmentInv
      <4>2. CASE List[j] # "segment"
        BY <2>4, <4>2 DEF MInv, SegmentInv, Lists
      <4>3. QED
        BY <4>1, <4>2
    <3>2. QED
      BY <2>2, <3>1 DEF MInv, SegmentInv, LabelInv
  <2>8. AloneInv'
    <3>1. Matching(List[j])' = Matching(List[j])
      BY <1>0, <2>3, <2>5 DEF Matching, Lists
    <3>2. QED
      BY <1>0, <2>2, <2>3, <2>5, <3>1 DEF MInv, AloneInv, Active
  <2>9. KeptInv'
    BY <2>2, <2>3 DEF MInv, KeptInv
  <2>10. QED
    BY <2>6, <2>7, <2>8, <2>9 DEF MInv
<1>8. ASSUME NEW j \in Jobs, Delete(j) PROVE MInv'
  <2>1. PICK p \in Page(job[j].remove) :
           /\ Step(j, [job[j] EXCEPT !.remove = @ \ p])
           /\ count' = [count EXCEPT ![List[j]] =
                          [r \in Readers |-> IF r \in p THEN 0 ELSE @[r]]]
    BY <1>8 DEF Delete
  <2>2. /\ job[j].at = "update" /\ job'[j].at = "update" /\ p \subseteq job[j].remove
        /\ job[j].add = {} /\ job'[j].add = {} /\ job'[j].remove = job[j].remove \ p
        /\ \A k \in Jobs \ {j} : job'[k] = job[k]
    <3>1. p \subseteq job[j].remove
      BY <2>1 DEF Page
    <3>2. job[j].at = "update" /\ job[j].add = {}
      BY <1>8 DEF Delete
    <3>3. job' = [job EXCEPT ![j] = [job[j] EXCEPT !.remove = @ \ p]]
      BY <2>1 DEF Step
    <3>4. QED
      BY <1>0, <3>1, <3>2, <3>3 DEF Job
  <2>3. /\ UNCHANGED <<truth, label_data, changes, lists_overlapped>>
        /\ alone' = alone \cap {j}
    BY <1>8, <2>1 DEF Delete, Step, bounds
  <2>4. /\ \A l \in Lists \ {List[j]} : count'[l] = count[l]
        /\ \A r \in Readers : count'[List[j]][r] = IF r \in p THEN 0 ELSE count[List[j]][r]
    BY <1>0, <2>1 DEF MembershipTypeOK
  <2>5. /\ \A l \in Lists \ {List[j]} : Members(l)' = Members(l)
        /\ Members(List[j])' = Members(List[j]) \ p
    BY <2>4 DEF Members
  <2>6. ListsInv'
    <3>1. SUFFICES ASSUME NEW l \in Lists, l \notin lists_overlapped PROVE Undisputed(l)'
      BY <2>3 DEF ListsInv
    <3>2. Undisputed(l)
      BY <3>1 DEF MInv, ListsInv
    <3>3. CASE l # List[j]
      BY <2>2, <2>4, <2>5, <3>2, <3>3 DEF Undisputed, Active
    <3>4. CASE l = List[j]
      <4>1. \A k \in Jobs \ {j} : List[k] = l => job[k].at = "idle"
        BY <2>2, <3>2, <3>4 DEF Undisputed, Active
      <4>2. QED
        BY <2>2, <2>4, <3>2, <3>4, <4>1 DEF Undisputed, Active
    <3>5. QED
      BY <3>3, <3>4
  <2>7. SegmentInv' /\ LabelInv'
    BY <1>0, <2>2, <2>4 DEF MInv, SegmentInv, LabelInv, Lists
  <2>8. AloneInv'
    <3>1. Matching(List[j])' = Matching(List[j])
      BY <1>0, <2>3, <2>5 DEF Matching, Lists
    <3>2. QED
      BY <1>0, <2>2, <2>3, <2>5, <3>1 DEF MInv, AloneInv, Active
  <2>9. KeptInv'
    BY <2>2, <2>3 DEF MInv, KeptInv
  <2>10. QED
    BY <2>6, <2>7, <2>8, <2>9 DEF MInv
<1>9. ASSUME NEW j \in Jobs, End(j) \/ BreakOff(j) PROVE MInv'
  <2>1. job'[j].at = "idle" /\ \A k \in Jobs \ {j} : job'[k] = job[k]
    BY <1>0, <1>9 DEF End, BreakOff, Idle
  <2>2. UNCHANGED <<truth, label_data, count, changes, lists_overlapped>> /\ alone' = {}
    BY <1>9 DEF End, BreakOff, bounds
  <2>3. ListsInv' /\ SegmentInv' /\ LabelInv'
    BY <2>1, <2>2 DEF MInv, ListsInv, Undisputed, Active, Members, SegmentInv, LabelInv
  <2>4. AloneInv' /\ KeptInv'
    BY <2>1, <2>2 DEF MInv, AloneInv, KeptInv
  <2>5. QED
    BY <2>3, <2>4 DEF MInv
<1>10. CASE UNCHANGED membership_vars
  BY <1>10 DEF membership_vars, bounds, MInv, ListsInv, Undisputed, Active, Members, SegmentInv,
     LabelInv, AloneInv, Matching, KeptInv
<1>11. QED
  BY <1>1, <1>2, <1>3, <1>4, <1>5, <1>6, <1>7, <1>8, <1>9, <1>10, MembershipSteps

(* The invariant holds in every reachable state.                           *)
LEMMA MembershipInvariance == MembershipSpec => [](MembershipTypeOK /\ MInv)
<1>1. MembershipInit => MInv
  BY DEF MembershipInit, Idle, MInv, ListsInv, Undisputed, Active, SegmentInv, LabelInv,
     AloneInv, KeptInv, Lists
<1>2. QED
  BY <1>1, MembershipInitTypeOK, MembershipNextTypeOK, NextMInv, PTL DEF MembershipSpec

(* label_model.js 106-225, segmentation_model.js 48-98, segment_model.js   *)
(* 85-154: a reader is on a list twice only if two applications of it      *)
(* overlapped, and never on that of a new-style segment.                   *)
THEOREM DuplicatesAreOverlaps == MembershipSpec => []NoDuplicates
<1>1. MembershipTypeOK /\ MInv => NoDuplicates
  <2> SUFFICES ASSUME MembershipTypeOK, MInv, NEW l \in Lists, NEW r \in Readers, count[l][r] > 1
               PROVE  l # "segment" /\ l \in lists_overlapped
    BY DEF NoDuplicates
  <2>1. count[l][r] \in 0..2
    BY DEF MembershipTypeOK
  <2>2. ~(count[l][r] <= 1)
    BY <2>1
  <2>3. QED
    BY <2>2 DEF MInv, ListsInv, Undisputed, SegmentInv
<1>2. QED
  BY <1>1, MembershipInvariance, PTL

(* A label or segment that is applied while nothing else happens ends with *)
(* the readers it matches, whatever earlier applications left; a label     *)
(* with those its fn finds, if it finds any.                               *)
THEOREM AloneIsExact == MembershipSpec => []ExactWhenAlone
<1>1. MInv => ExactWhenAlone
  <2> SUFFICES ASSUME MInv, NEW j \in alone, Ending(j)
               PROVE  /\ Members(List[j]) = Matching(List[j])
                      /\ List[j] = "label" /\ truth # {} => Members("label") = truth
    BY DEF ExactWhenAlone
  <2>1. Members(List[j]) = Matching(List[j])
    BY DEF MInv, AloneInv, Ending
  <2>2. List[j] = "label" /\ truth # {} => Matching("label") = truth
    BY DEF MInv, AloneInv, Ending, Matching
  <2>3. QED
    BY <2>1, <2>2
<1>2. QED
  BY <1>1, MembershipInvariance, PTL

(* A reader who matches a label all the time is not taken off its list by  *)
(* an application, unless two applications of it overlap.                  *)
THEOREM DeservedIsKept == MembershipSpec => KeptWhileTrue
<1>1. MembershipTypeOK /\ MInv /\ [MembershipNext]_membership_vars =>
         [\A r \in truth : changes = 0 /\ "label" \notin lists_overlapped /\ r \in Members("label")
                           => r \in Members("label")']_membership_vars
  <2> SUFFICES ASSUME MembershipTypeOK, MInv, [MembershipNext]_membership_vars,
                      NEW r \in truth, changes = 0, "label" \notin lists_overlapped,
                      r \in Members("label")
               PROVE  r \in Members("label")'
    OBVIOUS
  <2>0. r \in Readers /\ count["label"][r] > 0 /\ "label" \in Lists /\ List \in [Jobs -> Lists]
    BY ListAssumption DEF MembershipTypeOK, Members, Lists
  <2>1. ASSUME NEW j \in Jobs, Insert(j) PROVE count'["label"][r] > 0
    <3>1. \A n \in 0..2 : Added(List[j], n) > 0
      BY <2>0, AddedType
    <3>2. QED
      BY <2>0, <2>1, <3>1 DEF Insert, MembershipTypeOK
  <2>2. ASSUME NEW j \in Jobs, Delete(j) PROVE count'["label"][r] > 0
    <3>1. PICK p \in Page(job[j].remove) :
             count' = [count EXCEPT ![List[j]] = [q \in Readers |-> IF q \in p THEN 0 ELSE @[q]]]
      BY <2>2 DEF Delete
    <3>2. List[j] = "label" => r \notin p
      BY <2>2, <3>1 DEF Delete, MInv, KeptInv, Page
    <3>3. QED
      BY <2>0, <3>1, <3>2 DEF MembershipTypeOK
  <2>3. count' = count \/ \E j \in Jobs : Insert(j) \/ Delete(j)
    BY MembershipSteps DEF Change, Begin, Clear, WriteData, ReadBefore, ReadAfter, End, BreakOff,
       membership_vars
  <2>4. QED
    BY <2>0, <2>1, <2>2, <2>3 DEF Members
<1>2. QED
  BY <1>1, MembershipInvariance, PTL DEF MembershipSpec, KeptWhileTrue

-----------------------------------------------------------------------------
(* The data of labels.  DInv: a label's fn finds keys of its own only      *)
(* (FindsOwn), and between the steps of an application nothing else inter- *)
(* feres with, what it has been answered and what readers hold agree       *)
(* (UntouchedInv).                                                         *)

(* The fns find their own keys only.                                       *)
FindsOwn == \A l \in DataLabels, r \in Readers : finds[l][r] \subseteq OwnKeys(l)

(* Where a label is whose application nothing else interferes with.        *)
UntouchedInv ==
    \A l \in untouched :
        /\ \A k \in DataLabels : applying[k].at # "idle" => k = l
        /\ applying[l].at = "data" =>
              /\ applying[l].old # {} => applying[l].answer = finds[l]
              /\ \A r \in Readers :
                    /\ applying[l].answer[r] \in {finds[l][r], {}}
                    /\ finds[l][r] # {} /\ applying[l].answer[r] = {} =>
                          held[r] = Item(finds[l][r])
                    /\ finds[l][r] = {} =>
                          \A k \in FirstKeys(l, finds[l]) \ applying[l].old : held[r][k] # "value"

DInv == FindsOwn /\ UntouchedInv /\ ListExplained

-----------------------------------------------------------------------------
(* Every step is one of these.                                             *)
LEMMA DataSteps ==
    ASSUME [DataNext]_data_vars
    PROVE  \/ \E l \in DataLabels, r \in Readers : FindOther(l, r)
           \/ \E l \in DataLabels : Evaluate(l)
           \/ \E l \in DataLabels : NullKey(l)
           \/ \E l \in DataLabels : WriteItems(l)
           \/ \E l \in DataLabels : Relabel(l)
           \/ \E l \in DataLabels : GiveUpLabel(l)
           \/ UNCHANGED data_vars
BY DEF DataNext

Application == [at : {"idle", "data"}, answer : [Readers -> SUBSET Keys], old : SUBSET Keys]

LEMMA NotAppliedType == NotApplied \in Application
BY DEF NotApplied, Application

LEMMA FirstAreKeys == \A l \in DataLabels : \A a : FirstKeys(l, a) \subseteq Keys
BY DEF FirstKeys, Keys, OwnKeys

LEMMA ItemType == \A d : Item(d) \in [Keys -> {"absent", "null", "value"}]
BY DEF Item

(* The initial states have their types.                                    *)
LEMMA DataInitTypeOK == DataInit => DataTypeOK
<1> SUFFICES ASSUME DataInit PROVE DataTypeOK
  OBVIOUS
<1>1. applying \in [DataLabels -> Application]
  BY NotAppliedType DEF DataInit
<1>2. rounds \in 0..MaxRounds /\ findings \in 0..MaxFindings
  BY DataBoundAssumption DEF DataInit
<1>3. QED
  BY <1>1, <1>2 DEF DataInit, DataTypeOK, Application

(* The type invariant is inductive.                                        *)
LEMMA DataNextTypeOK == DataTypeOK /\ [DataNext]_data_vars => DataTypeOK'
<1> SUFFICES ASSUME DataTypeOK, [DataNext]_data_vars PROVE DataTypeOK'
  OBVIOUS
<1>0. applying \in [DataLabels -> Application]
  BY DEF DataTypeOK, Application
<1>1. ASSUME NEW l \in DataLabels, NEW r \in Readers, FindOther(l, r) PROVE DataTypeOK'
  <2>1. OwnKeys(l) \subseteq Keys
    BY DEF Keys
  <2>2. PICK d \in SUBSET OwnKeys(l) : finds' = [finds EXCEPT ![l][r] = d]
    BY <1>1 DEF FindOther
  <2>3. finds' \in [DataLabels -> [Readers -> SUBSET Keys]]
    BY <2>1, <2>2 DEF DataTypeOK
  <2>4. findings' \in 0..MaxFindings
    BY <1>1, DataBoundAssumption DEF FindOther, DataTypeOK
  <2>5. QED
    BY <1>1, <2>3, <2>4 DEF FindOther, DataTypeOK
<1>2. ASSUME NEW l \in DataLabels, Evaluate(l) PROVE DataTypeOK'
  <2>1. [at |-> "data", answer |-> finds[l], old |-> FirstKeys(l, finds[l])] \in Application
    BY FirstAreKeys DEF Application, DataTypeOK
  <2>2. applying' \in [DataLabels -> Application]
    BY <1>0, <1>2, <2>1 DEF Evaluate
  <2>3. rounds' \in 0..MaxRounds
    BY <1>2, DataBoundAssumption DEF Evaluate, DataTypeOK
  <2>4. untouched' \subseteq DataLabels
    BY <1>2 DEF Evaluate
  <2>5. QED
    BY <1>2, <2>2, <2>3, <2>4 DEF Evaluate, DataTypeOK, Application
<1>3. ASSUME NEW l \in DataLabels, NullKey(l) PROVE DataTypeOK'
  <2>1. PICK k \in applying[l].old :
           /\ held' = [r \in Readers |-> IF held[r][k] # "absent"
                                         THEN [held[r] EXCEPT ![k] = "null"] ELSE held[r]]
           /\ Does(l, [applying[l] EXCEPT !.old = @ \ {k}])
    BY <1>3 DEF NullKey
  <2>2. held' \in [Readers -> [Keys -> {"absent", "null", "value"}]]
    BY <2>1 DEF DataTypeOK
  <2>3. [applying[l] EXCEPT !.old = @ \ {k}] \in Application
    BY <1>0 DEF Application
  <2>4. applying' \in [DataLabels -> Application] /\ untouched' \subseteq DataLabels
    BY <1>0, <2>1, <2>3 DEF Does, DataTypeOK
  <2>5. QED
    BY <1>3, <2>2, <2>4 DEF NullKey, DataTypeOK, Application
<1>4. ASSUME NEW l \in DataLabels, WriteItems(l) PROVE DataTypeOK'
  <2>1. PICK S \in SUBSET Readers :
           /\ held' = [r \in Readers |-> IF r \in S THEN Item(applying[l].answer[r]) ELSE held[r]]
           /\ Does(l, [applying[l] EXCEPT
                         !.answer = [r \in Readers |-> IF r \in S THEN {} ELSE @[r]]])
    BY <1>4 DEF WriteItems
  <2>2. held' \in [Readers -> [Keys -> {"absent", "null", "value"}]]
    BY <2>1, ItemType DEF DataTypeOK
  <2>3. [applying[l] EXCEPT !.answer = [r \in Readers |-> IF r \in S THEN {} ELSE @[r]]]
           \in Application
    BY <1>0 DEF Application
  <2>4. applying' \in [DataLabels -> Application] /\ untouched' \subseteq DataLabels
    BY <1>0, <2>1, <2>3 DEF Does, DataTypeOK
  <2>5. QED
    BY <1>4, <2>2, <2>4 DEF WriteItems, DataTypeOK, Application
<1>5. ASSUME NEW l \in DataLabels, Relabel(l) PROVE DataTypeOK'
  <2>1. applying' \in [DataLabels -> Application] /\ untouched' \subseteq DataLabels
    BY <1>0, <1>5, NotAppliedType DEF Relabel, Does, DataTypeOK
  <2>2. listed' \in [DataLabels -> SUBSET Readers]
    BY <1>5 DEF Relabel, Matches, DataTypeOK
  <2>3. QED
    BY <1>5, <2>1, <2>2 DEF Relabel, DataTypeOK, Application
<1>6. ASSUME NEW l \in DataLabels, GiveUpLabel(l) PROVE DataTypeOK'
  <2>1. applying' \in [DataLabels -> Application]
    BY <1>0, <1>6, NotAppliedType DEF GiveUpLabel
  <2>2. QED
    BY <1>6, <2>1 DEF GiveUpLabel, DataTypeOK, Application
<1>7. CASE UNCHANGED data_vars
  BY <1>7 DEF data_vars, DataTypeOK
<1>8. QED
  BY <1>1, <1>2, <1>3, <1>4, <1>5, <1>6, <1>7, DataSteps

(* Every variable keeps its type.                                          *)
THEOREM DataTypeCorrect == DataSpec => []DataTypeOK
<1>1. QED
  BY DataInitTypeOK, DataNextTypeOK, PTL DEF DataSpec

-----------------------------------------------------------------------------
(* What the list of a label is when its application was untouched: the     *)
(* readers its fn found anything for hold just that, and of the others     *)
(* none holds a key that came first for somebody.                          *)
Explains(l, list) ==
    LET due == {r \in Readers : Tested[l] \in finds[l][r]} IN
    /\ due \subseteq list
    /\ Tested[l] \in FirstKeys(l, finds[l]) => list = due
    /\ Tested[l] \notin OwnKeys(l) => \A r \in list : finds[l][r] = {}

Explained(l) == Explains(l, listed[l])

LEMMA ListsAreMatches ==
    ASSUME DataTypeOK, FindsOwn, NEW l \in DataLabels,
           \A r \in Readers : finds[l][r] # {} => held[r] = Item(finds[l][r]),
           \A r \in Readers : finds[l][r] = {} =>
               \A k \in FirstKeys(l, finds[l]) : held[r][k] # "value"
    PROVE  Explains(l, Matches(l))
<1>1. Tested[l] \in Keys
  BY TestedAssumption
<1>2. \A r \in Readers : finds[l][r] # {} => (r \in Matches(l) <=> Tested[l] \in finds[l][r])
  BY <1>1 DEF Matches, Item
<1>3. \A r \in Readers : finds[l][r] = {} /\ Tested[l] \in FirstKeys(l, finds[l])
                         => r \notin Matches(l)
  BY DEF Matches
<1>4. Matches(l) \subseteq Readers
  BY DEF Matches
<1>5. QED
  BY <1>2, <1>3, <1>4 DEF Explains, FindsOwn

(* Every step keeps the invariant.                                         *)
LEMMA NextDInv == DataTypeOK /\ DInv /\ [DataNext]_data_vars => DInv'
<1> SUFFICES ASSUME DataTypeOK, DInv, [DataNext]_data_vars PROVE DInv'
  OBVIOUS
<1>0. applying \in [DataLabels -> Application] /\ untouched \subseteq DataLabels
  BY DEF DataTypeOK, Application
<1>e. \A l \in untouched : applying[l].at = "idle" => Explained(l)
  BY DEF DInv, ListExplained, Explained, Explains
<1>f. SUFFICES FindsOwn' /\ UntouchedInv' /\ \A l \in untouched' : applying'[l].at = "idle" => Explained(l)'
  BY DEF DInv, ListExplained, Explained, Explains
<1>1. ASSUME NEW l \in DataLabels, NEW r \in Readers, FindOther(l, r)
      PROVE  FindsOwn' /\ untouched' = {}
  <2>1. PICK d \in SUBSET OwnKeys(l) : finds' = [finds EXCEPT ![l][r] = d]
    BY <1>1 DEF FindOther
  <2>2. QED
    BY <1>1, <2>1 DEF FindOther, DInv, FindsOwn, DataTypeOK
<1>2. ASSUME NEW l \in DataLabels, Evaluate(l)
      PROVE  /\ FindsOwn' /\ UntouchedInv'
             /\ \A m \in untouched' : applying'[m].at = "idle" => Explained(m)'
  <2>1. /\ applying'[l] = [at |-> "data", answer |-> finds[l], old |-> FirstKeys(l, finds[l])]
        /\ \A k \in DataLabels \ {l} : applying'[k] = applying[k]
        /\ finds' = finds /\ held' = held
    BY <1>0, <1>2 DEF Evaluate
  <2>2. \A m \in untouched' : m = l /\ \A k \in DataLabels : applying[k].at = "idle"
    BY <1>2 DEF Evaluate
  <2>3. UntouchedInv'
    BY <2>1, <2>2 DEF UntouchedInv
  <2>4. QED
    BY <2>1, <2>2, <2>3 DEF DInv, FindsOwn
<1>3. ASSUME NEW l \in DataLabels, NullKey(l)
      PROVE  /\ FindsOwn' /\ UntouchedInv'
             /\ \A m \in untouched' : applying'[m].at = "idle" => Explained(m)'
  <2>1. PICK k \in applying[l].old :
           /\ held' = [r \in Readers |-> IF held[r][k] # "absent"
                                         THEN [held[r] EXCEPT ![k] = "null"] ELSE held[r]]
           /\ Does(l, [applying[l] EXCEPT !.old = @ \ {k}])
    BY <1>3 DEF NullKey
  <2>2. /\ applying[l].at = "data" /\ finds' = finds
        /\ applying'[l] = [applying[l] EXCEPT !.old = @ \ {k}]
        /\ \A m \in DataLabels \ {l} : applying'[m] = applying[m]
        /\ untouched' = untouched \cap {l}
    BY <1>0, <1>3, <2>1 DEF NullKey, Does
  <2>3. /\ applying'[l].at = "data" /\ applying'[l].answer = applying[l].answer
        /\ applying'[l].old = applying[l].old \ {k}
    BY <1>0, <2>2 DEF Application
  <2>4. ASSUME l \in untouched, NEW r \in Readers
        PROVE  /\ applying[l].answer[r] = finds[l][r]
               /\ finds[l][r] = {} => \A i \in FirstKeys(l, finds[l]) \ applying'[l].old :
                                          held'[r][i] # "value"
    <3>1. applying[l].answer = finds[l]
      BY <2>1, <2>2, <2>4 DEF DInv, UntouchedInv
    <3>2. ASSUME finds[l][r] = {}, NEW i \in FirstKeys(l, finds[l]) \ applying'[l].old
          PROVE  held'[r][i] # "value"
      <4>1. i \in Keys /\ k \in Keys /\ held[r] \in [Keys -> {"absent", "null", "value"}]
        BY <1>0, <2>1, FirstAreKeys DEF Application, DataTypeOK
      <4>2. CASE i = k
        BY <2>1, <4>1, <4>2
      <4>3. CASE i # k
        <5>1. held[r][i] # "value"
          BY <2>2, <2>3, <2>4, <3>2, <4>3 DEF DInv, UntouchedInv
        <5>2. QED
          BY <2>1, <4>1, <4>3, <5>1
      <4>4. QED
        BY <4>2, <4>3
    <3>3. QED
      BY <3>1, <3>2
  <2>5. UntouchedInv'
    <3>1. SUFFICES ASSUME l \in untouched
                   PROVE  /\ \A m \in DataLabels : applying'[m].at # "idle" => m = l
                          /\ applying'[l].answer = finds[l]
                          /\ \A r \in Readers : finds[l][r] = {} =>
                                \A i \in FirstKeys(l, finds[l]) \ applying'[l].old :
                                   held'[r][i] # "value"
      BY <2>2, <2>3 DEF UntouchedInv
    <3>2. \A m \in DataLabels \ {l} : applying[m].at = "idle"
      BY <3>1 DEF DInv, UntouchedInv
    <3>3. applying[l].answer = finds[l]
      BY <2>1, <2>2, <3>1 DEF DInv, UntouchedInv
    <3>4. QED
      BY <2>2, <2>3, <2>4, <3>1, <3>2, <3>3
  <2>6. QED
    BY <2>2, <2>3, <2>5 DEF DInv, FindsOwn
<1>4. ASSUME NEW l \in DataLabels, WriteItems(l)
      PROVE  /\ FindsOwn' /\ UntouchedInv'
             /\ \A m \in untouched' : applying'[m].at = "idle" => Explained(m)'
  <2>1. PICK S \in SUBSET {r \in Readers : applying[l].answer[r] # {}} :
           /\ held' = [r \in Readers |-> IF r \in S THEN Item(applying[l].answer[r]) ELSE held[r]]
           /\ Does(l, [applying[l] EXCEPT
                         !.answer = [r \in Readers |-> IF r \in S THEN {} ELSE @[r]]])
    BY <1>4 DEF WriteItems
  <2>2. /\ applying[l].at = "data" /\ applying[l].old = {} /\ finds' = finds
        /\ applying'[l] = [applying[l] EXCEPT
                             !.answer = [r \in Readers |-> IF r \in S THEN {} ELSE @[r]]]
        /\ \A m \in DataLabels \ {l} : applying'[m] = applying[m]
        /\ untouched' = untouched \cap {l}
    BY <1>0, <1>4, <2>1 DEF WriteItems, Does
  <2>3. /\ applying'[l].at = "data" /\ applying'[l].old = {}
        /\ \A r \in Readers : applying'[l].answer[r] = IF r \in S THEN {} ELSE applying[l].answer[r]
    BY <1>0, <2>2 DEF Application
  <2>4. UntouchedInv'
    <3>1. l \in untouched => /\ \A m \in DataLabels \ {l} : applying[m].at = "idle"
                             /\ \A r \in S : applying[l].answer[r] = finds[l][r] /\ finds[l][r] # {}
      BY <2>1, <2>2 DEF DInv, UntouchedInv
    <3>2. ASSUME l \in untouched, NEW r \in Readers
          PROVE  /\ applying'[l].answer[r] \in {finds[l][r], {}}
                 /\ finds[l][r] # {} /\ applying'[l].answer[r] = {} => held'[r] = Item(finds[l][r])
                 /\ finds[l][r] = {} => \A k \in FirstKeys(l, finds[l]) : held'[r][k] # "value"
      <4>1. CASE r \in S
        BY <2>1, <2>3, <3>1, <3>2, <4>1
      <4>2. CASE r \notin S
        BY <2>1, <2>2, <2>3, <3>2, <4>2 DEF DInv, UntouchedInv
      <4>3. QED
        BY <4>1, <4>2
    <3>3. SUFFICES ASSUME l \in untouched
                   PROVE  /\ \A m \in DataLabels : applying'[m].at # "idle" => m = l
                          /\ \A r \in Readers :
                                /\ applying'[l].answer[r] \in {finds[l][r], {}}
                                /\ finds[l][r] # {} /\ applying'[l].answer[r] = {} =>
                                      held'[r] = Item(finds[l][r])
                                /\ finds[l][r] = {} =>
                                      \A k \in FirstKeys(l, finds[l]) : held'[r][k] # "value"
      BY <2>2, <2>3 DEF UntouchedInv
    <3>4. QED
      BY <2>2, <3>1, <3>2, <3>3
  <2>5. QED
    BY <2>2, <2>3, <2>4 DEF DInv, FindsOwn
<1>5. ASSUME NEW l \in DataLabels, Relabel(l)
      PROVE  /\ FindsOwn' /\ UntouchedInv'
             /\ \A m \in untouched' : applying'[m].at = "idle" => Explained(m)'
  <2>1. /\ applying[l].at = "data" /\ applying[l].old = {}
        /\ \A r \in Readers : applying[l].answer[r] = {}
        /\ finds' = finds /\ held' = held
        /\ listed' = [listed EXCEPT ![l] = Matches(l)]
        /\ applying' = [applying EXCEPT ![l] = NotApplied]
        /\ untouched' = untouched \cap {l}
    BY <1>5 DEF Relabel, Does, NotApplied
  <2>2. applying'[l].at = "idle" /\ \A m \in DataLabels \ {l} : applying'[m] = applying[m]
    BY <1>0, <2>1 DEF NotApplied
  <2>3. UntouchedInv'
    BY <2>1, <2>2 DEF DInv, UntouchedInv
  <2>4. l \in untouched => Explained(l)'
    <3>1. listed'[l] = Matches(l)
      BY <2>1 DEF DataTypeOK
    <3>2. l \in untouched =>
             \A r \in Readers :
                /\ finds[l][r] # {} => held[r] = Item(finds[l][r])
                /\ finds[l][r] = {} => \A k \in FirstKeys(l, finds[l]) : held[r][k] # "value"
      BY <2>1 DEF DInv, UntouchedInv
    <3>3. l \in untouched => Explains(l, Matches(l))
      BY <3>2, ListsAreMatches DEF DInv
    <3>4. QED
      BY <2>1, <3>1, <3>3 DEF Explained, Explains
  <2>5. QED
    BY <2>1, <2>2, <2>3, <2>4 DEF DInv, FindsOwn
<1>6. ASSUME NEW l \in DataLabels, GiveUpLabel(l) PROVE FindsOwn' /\ untouched' = {}
  BY <1>6 DEF GiveUpLabel, DInv, FindsOwn
<1>7. CASE UNCHANGED data_vars
  BY <1>7, <1>e DEF data_vars, DInv, FindsOwn, UntouchedInv, Explained, Explains
<1>8. QED
  BY <1>1, <1>2, <1>3, <1>4, <1>5, <1>6, <1>7, DataSteps DEF UntouchedInv

(* Nothing else having happened since a label was applied, its list is the *)
(* one the data explain, for any number of labels, keys and readers, and   *)
(* whatever earlier applications broke off.                                *)
THEOREM ListsAreExplained == DataSpec => []ListExplained
<1>1. DataInit => DInv
  BY DEF DataInit, DInv, FindsOwn, UntouchedInv, ListExplained
<1>2. DInv => ListExplained
  BY DEF DInv
<1>3. QED
  BY <1>1, <1>2, NextDInv, DataTypeCorrect, PTL DEF DataSpec

-----------------------------------------------------------------------------
(* Vouchers.  Orderly: unless allocators have overlapped, a voucher that is *)
(* chosen for a reader is still free, and the reader still without one.    *)

(* Every step is one of these.                                             *)
LEMMA VoucherSteps ==
    ASSUME [Next]_vars
    PROVE  \/ \E m \in Mails, r \in Readers : GetVoucher(m, r)
           \/ \E m \in Mails : Send(m)
           \/ \E x \in Forms, rs \in SUBSET Readers : Assign(x, rs)
           \/ \E x \in Actors : Write(x)
           \/ \E x \in Actors : GiveUp(x)
           \/ \E v \in Codes, r \in Readers : UploadUsed(v, r)
           \/ UNCHANGED vars
BY DEF Next

(* What the assign form chooses: free vouchers for readers without one, no *)
(* voucher twice and no reader twice.                                      *)
LEMMA ChoicesFair ==
    ASSUME NEW rs \in SUBSET Readers, NEW c \in Choices(rs)
    PROVE  /\ c \subseteq Free \X {r \in Readers : Owned(r) = {}}
           /\ \A a, b \in c : a[1] = b[1] \/ a[2] = b[2] => a = b
<1> DEFINE poor == {r \in rs : Owned(r) = {}}
<1>1. PICK f \in [poor -> Free] :
          /\ \A r, s \in poor : f[r] = f[s] => r = s
          /\ c = {<<f[r], r>> : r \in poor}
  BY DEF Choices
<1>2. QED
  BY <1>1

(* The initial states have their types.                                    *)
LEMMA InitTypeOK == Init => TypeOK
<1> SUFFICES ASSUME Init PROVE TypeOK
  OBVIOUS
<1>1. uploads \in 0..MaxUploads
  BY UploadAssumption DEF Init
<1>2. overlapped \in BOOLEAN
  BY DEF Init
<1>3. QED
  BY <1>1, <1>2 DEF Init, TypeOK

(* The type invariant is inductive.                                        *)
LEMMA NextTypeOK == TypeOK /\ [Next]_vars => TypeOK'
<1> SUFFICES ASSUME TypeOK, [Next]_vars PROVE TypeOK'
  OBVIOUS
<1>0. overlapped' \in BOOLEAN
  BY VoucherSteps DEF TypeOK, GetVoucher, Assign, Reads, Send, Write, GiveUp, UploadUsed, vars
<1>u. uploads' \in 0..MaxUploads
  <2>1. uploads \in 0..MaxUploads
    BY DEF TypeOK
  <2>2. uploads' = uploads \/ (uploads < MaxUploads /\ uploads' = uploads + 1)
    BY VoucherSteps DEF GetVoucher, Assign, Send, Write, GiveUp, UploadUsed, vars
  <2>3. QED
    BY <2>1, <2>2, UploadAssumption
<1> SUFFICES /\ owner' \in [Codes -> Readers \cup {Nobody}]
             /\ choice' \in [Actors -> SUBSET Assignments]
             /\ draft' \in [Mails -> SUBSET Assignments]
             /\ mailed' \subseteq Assignments
  BY <1>0, <1>u DEF TypeOK
<1>1. ASSUME NEW m \in Mails, NEW r \in Readers, GetVoucher(m, r)
      PROVE  /\ choice' \in [Actors -> SUBSET Assignments]
             /\ draft' \in [Mails -> SUBSET Assignments]
             /\ UNCHANGED <<owner, mailed>>
  <2>1. PICK v \in Codes :
           /\ choice' = [choice EXCEPT ![m] = IF v \in Free THEN {<<v, r>>} ELSE {}]
           /\ draft' = [draft EXCEPT ![m] = {<<v, r>>}]
    BY <1>1 DEF GetVoucher, Owned, Free
  <2>2. {<<v, r>>} \in SUBSET Assignments
    BY DEF Assignments
  <2>3. (IF v \in Free THEN {<<v, r>>} ELSE {}) \in SUBSET Assignments
    BY <2>2
  <2>4. QED
    BY <1>1, <2>1, <2>2, <2>3 DEF TypeOK, GetVoucher
<1>2. ASSUME NEW m \in Mails, Send(m)
      PROVE  /\ draft' \in [Mails -> SUBSET Assignments]
             /\ mailed' \subseteq Assignments
             /\ UNCHANGED <<owner, choice>>
  BY <1>2 DEF TypeOK, Send
<1>3. ASSUME NEW x \in Forms, NEW rs \in SUBSET Readers, Assign(x, rs)
      PROVE  choice' \in [Actors -> SUBSET Assignments] /\ UNCHANGED <<owner, draft, mailed>>
  <2>1. PICK c \in Choices(rs) : choice' = [choice EXCEPT ![x] = c]
    BY <1>3 DEF Assign
  <2>2. c \subseteq Assignments
    BY <2>1, ChoicesFair DEF Free, Owned, Assignments
  <2>3. QED
    BY <1>3, <2>1, <2>2 DEF TypeOK, Assign
<1>4. ASSUME NEW x \in Actors, Write(x)
      PROVE  /\ owner' \in [Codes -> Readers \cup {Nobody}]
             /\ choice' \in [Actors -> SUBSET Assignments]
             /\ UNCHANGED <<draft, mailed>>
  <2>1. PICK a \in choice[x] : /\ owner' = [owner EXCEPT ![a[1]] = a[2]]
                               /\ choice' = [choice EXCEPT ![x] = @ \ {a}]
    BY <1>4 DEF Write
  <2>2. a[1] \in Codes /\ a[2] \in Readers
    BY <2>1 DEF TypeOK, Assignments
  <2>3. QED
    BY <1>4, <2>1, <2>2 DEF TypeOK, Write
<1>5. ASSUME NEW x \in Actors, GiveUp(x)
      PROVE  /\ choice' \in [Actors -> SUBSET Assignments]
             /\ draft' \in [Mails -> SUBSET Assignments]
             /\ UNCHANGED <<owner, mailed>>
  BY <1>5 DEF TypeOK, GiveUp
<1>6. ASSUME NEW v \in Codes, NEW r \in Readers, UploadUsed(v, r)
      PROVE  owner' \in [Codes -> Readers \cup {Nobody}] /\ UNCHANGED <<choice, draft, mailed>>
  BY <1>6 DEF TypeOK, UploadUsed
<1>7. QED
  BY <1>1, <1>2, <1>3, <1>4, <1>5, <1>6, VoucherSteps DEF TypeOK, vars

(* Every variable keeps its type.                                          *)
THEOREM VouchersTypeCorrect == Spec => []TypeOK
<1>1. QED
  BY InitTypeOK, NextTypeOK, PTL DEF Spec

-----------------------------------------------------------------------------
(* The invariant of an undisturbed allocation.  One actor at most has      *)
(* something to write; what it has to write is free and goes to readers    *)
(* without voucher; a draft is being written or written.                   *)
OneBusy == \A x, y \in Actors : Busy(x) /\ Busy(y) => x = y
Fresh ==
    \A x \in Actors : \A a \in choice[x] :
        /\ owner[a[1]] = Nobody
        /\ Owned(a[2]) = {}
        /\ \A b \in choice[x] : a[1] = b[1] \/ a[2] = b[2] => a = b
DraftsBacked == \A m \in Mails : \A a \in draft[m] : a \in choice[m] \/ owner[a[1]] = a[2]
MailedBacked == \A a \in mailed : owner[a[1]] = a[2]
OneEach == \A r \in Readers : \A v, w \in Owned(r) : v = w

Orderly == OneBusy /\ Fresh /\ DraftsBacked /\ MailedBacked /\ OneEach
IInv == ~overlapped => Orderly

(* Every step keeps the invariant.                                         *)
LEMMA NextIInv == TypeOK /\ IInv /\ [Next]_vars => IInv'
<1> SUFFICES ASSUME TypeOK, IInv, [Next]_vars, ~overlapped' PROVE Orderly'
  BY DEF IInv
<1>0. Orderly
  <2>1. overlapped => overlapped'
    BY VoucherSteps DEF GetVoucher, Assign, Reads, Send, Write, GiveUp, UploadUsed, vars
  <2>2. QED
    BY <2>1 DEF IInv
<1>1. ASSUME NEW m \in Mails, NEW r \in Readers, GetVoucher(m, r) PROVE Orderly'
  <2>1. PICK v \in Codes :
           /\ v \in (IF Owned(r) # {} THEN Owned(r) ELSE Free)
           /\ choice' = [choice EXCEPT ![m] = IF v \in Free THEN {<<v, r>>} ELSE {}]
           /\ draft' = [draft EXCEPT ![m] = {<<v, r>>}]
    BY <1>1 DEF GetVoucher, Owned, Free
  <2>2. m \in Actors /\ \A y \in Actors \ {m} : choice[y] = {} /\ choice'[y] = {}
    BY <1>1, <2>1 DEF GetVoucher, Reads, Busy, Actors, TypeOK
  <2>3. owner' = owner /\ mailed' = mailed
    BY <1>1 DEF GetVoucher
  <2>4. OneBusy'
    BY <2>2 DEF OneBusy, Busy
  <2>5. Fresh'
    <3>1. \A a \in choice'[m] : a = <<v, r>> /\ v \in Free
      BY <2>1, <2>2 DEF TypeOK
    <3>2. v \in Free => owner[v] = Nobody /\ Owned(r) = {}
      BY <2>1, ReaderAssumption DEF Free, Owned
    <3>3. QED
      BY <2>2, <2>3, <3>1, <3>2 DEF Fresh, Owned
  <2>6. DraftsBacked'
    <3>1. <<v, r>> \in choice'[m] \/ owner[v] = r
      BY <2>1, <2>2 DEF TypeOK, Free, Owned
    <3>2. draft'[m] = {<<v, r>>}
      BY <2>1 DEF TypeOK
    <3>3. \A n \in Mails \ {m} : draft'[n] = draft[n] /\ choice'[n] = choice[n]
      BY <2>1 DEF TypeOK, Actors
    <3>4. QED
      BY <1>0, <2>3, <3>1, <3>2, <3>3 DEF Orderly, DraftsBacked
  <2>7. QED
    BY <1>0, <2>3, <2>4, <2>5, <2>6 DEF Orderly, MailedBacked, OneEach, Owned
<1>2. ASSUME NEW m \in Mails, Send(m) PROVE Orderly'
  <2>1. m \in Actors /\ choice[m] = {} /\ choice' = choice /\ owner' = owner
    BY <1>2 DEF Send, Actors
  <2>2. MailedBacked'
    BY <1>0, <1>2, <2>1 DEF Send, Orderly, MailedBacked, DraftsBacked
  <2>3. DraftsBacked'
    BY <1>0, <1>2, <2>1 DEF Send, Orderly, DraftsBacked, TypeOK
  <2>4. QED
    BY <1>0, <2>1, <2>2, <2>3 DEF Orderly, OneBusy, Busy, Fresh, OneEach, Owned
<1>3. ASSUME NEW x \in Forms, NEW rs \in SUBSET Readers, Assign(x, rs) PROVE Orderly'
  <2>1. PICK c \in Choices(rs) : choice' = [choice EXCEPT ![x] = c]
    BY <1>3 DEF Assign
  <2>2. x \in Actors /\ choice[x] = {} /\ choice'[x] = c
        /\ \A y \in Actors \ {x} : choice[y] = {} /\ choice'[y] = {}
    BY <1>3, <2>1 DEF Assign, Reads, Busy, Actors, TypeOK
  <2>3. owner' = owner /\ mailed' = mailed /\ draft' = draft
    BY <1>3 DEF Assign
  <2>4. OneBusy'
    BY <2>2 DEF OneBusy, Busy
  <2>5. Fresh'
    <3>1. \A a \in c : /\ owner[a[1]] = Nobody
                       /\ Owned(a[2]) = {}
                       /\ \A b \in c : a[1] = b[1] \/ a[2] = b[2] => a = b
      BY <2>1, ChoicesFair DEF Free, Owned
    <3>2. QED
      BY <2>2, <2>3, <3>1 DEF Fresh, Owned
  <2>6. DraftsBacked'
    <3>1. \A m \in Mails : x # m
      BY ActorAssumption
    <3>2. \A m \in Mails : choice'[m] = choice[m]
      BY <2>2, <3>1 DEF Actors
    <3>3. QED
      BY <1>0, <2>3, <3>2 DEF Orderly, DraftsBacked
  <2>7. QED
    BY <1>0, <2>3, <2>4, <2>5, <2>6 DEF Orderly, MailedBacked, OneEach, Owned
<1>4. ASSUME NEW x \in Actors, Write(x) PROVE Orderly'
  <2>1. PICK a \in choice[x] : /\ owner' = [owner EXCEPT ![a[1]] = a[2]]
                               /\ choice' = [choice EXCEPT ![x] = @ \ {a}]
    BY <1>4 DEF Write
  <2>2. PICK v \in Codes, r \in Readers : a = <<v, r>>
    BY <2>1 DEF TypeOK, Assignments
  <2>3. /\ \A y \in Actors \ {x} : choice[y] = {} /\ choice'[y] = {}
        /\ choice'[x] = choice[x] \ {a}
        /\ draft' = draft /\ mailed' = mailed
    BY <1>0, <1>4, <2>1 DEF Write, TypeOK, Orderly, OneBusy, Busy
  <2>4. /\ owner[v] = Nobody /\ Owned(r) = {}
        /\ \A b \in choice[x] : b[1] = v \/ b[2] = r => b = a
    BY <1>0, <2>2 DEF Orderly, Fresh
  <2>5. owner'[v] = r /\ \A w \in Codes \ {v} : owner'[w] = owner[w]
    BY <2>1, <2>2 DEF TypeOK
  <2>6. OneBusy'
    BY <2>3 DEF OneBusy, Busy
  <2>7. Fresh'
    <3>1. ASSUME NEW b \in choice'[x]
          PROVE  /\ owner'[b[1]] = Nobody
                 /\ Owned(b[2])' = {}
                 /\ \A d \in choice'[x] : b[1] = d[1] \/ b[2] = d[2] => b = d
      <4>1. b \in choice[x] /\ b[1] # v /\ b[2] # r
        BY <2>3, <2>4
      <4>2. b[1] \in Codes /\ b[2] \in Readers
        BY <4>1 DEF TypeOK, Assignments
      <4>3. /\ owner[b[1]] = Nobody /\ Owned(b[2]) = {}
            /\ \A d \in choice[x] : b[1] = d[1] \/ b[2] = d[2] => b = d
        BY <1>0, <4>1 DEF Orderly, Fresh
      <4>4. Owned(b[2])' = {}
        BY <2>5, <4>1, <4>2, <4>3 DEF Owned
      <4>5. QED
        BY <2>3, <2>5, <4>1, <4>2, <4>3, <4>4
    <3>2. QED
      BY <2>3, <3>1 DEF Fresh
  <2>8. DraftsBacked'
    <3>1. ASSUME NEW m \in Mails, NEW d \in draft[m]
          PROVE  d \in choice'[m] \/ owner'[d[1]] = d[2]
      <4>1. d[1] \in Codes /\ d[2] \in Readers /\ m \in Actors
        BY DEF TypeOK, Assignments, Actors
      <4>2. CASE d \in choice[m]
        <5>1. m = x
          BY <2>3, <4>1, <4>2
        <5>2. QED
          BY <2>2, <2>3, <2>5, <4>2, <5>1
      <4>3. CASE owner[d[1]] = d[2]
        BY <2>4, <2>5, <4>1, <4>3, ReaderAssumption
      <4>4. QED
        BY <1>0, <4>2, <4>3 DEF Orderly, DraftsBacked
    <3>2. QED
      BY <2>3, <3>1 DEF DraftsBacked
  <2>9. MailedBacked'
    <3>1. ASSUME NEW d \in mailed PROVE owner'[d[1]] = d[2]
      <4>1. d[1] \in Codes /\ d[2] \in Readers /\ owner[d[1]] = d[2]
        BY <1>0 DEF TypeOK, Assignments, Orderly, MailedBacked
      <4>2. QED
        BY <2>4, <2>5, <4>1, ReaderAssumption
    <3>2. QED
      BY <2>3, <3>1 DEF MailedBacked
  <2>10. OneEach'
    BY <1>0, <2>4, <2>5 DEF Orderly, OneEach, Owned
  <2>11. QED
    BY <2>6, <2>7, <2>8, <2>9, <2>10 DEF Orderly
<1>5. ASSUME NEW x \in Actors, GiveUp(x) PROVE Orderly'
  <2>1. /\ choice' = [choice EXCEPT ![x] = {}]
        /\ draft' = [m \in Mails |-> IF m = x THEN {} ELSE draft[m]]
        /\ owner' = owner /\ mailed' = mailed
    BY <1>5 DEF GiveUp
  <2>2. \A y \in Actors : choice'[y] = {} \/ (y # x /\ choice'[y] = choice[y])
    BY <2>1 DEF TypeOK
  <2>3. OneBusy'
    BY <1>0, <2>2 DEF Orderly, OneBusy, Busy
  <2>4. Fresh'
    BY <1>0, <2>1, <2>2 DEF Orderly, Fresh, Owned
  <2>5. DraftsBacked'
    BY <1>0, <2>1 DEF Orderly, DraftsBacked, TypeOK, Actors
  <2>6. QED
    BY <1>0, <2>1, <2>3, <2>4, <2>5 DEF Orderly, MailedBacked, OneEach, Owned
<1>6. ASSUME NEW v \in Codes, NEW r \in Readers, UploadUsed(v, r) PROVE Orderly'
  <2>1. /\ owner' = [owner EXCEPT ![v] = r]
        /\ owner[v] \in {Nobody, r} /\ Owned(r) \subseteq {v}
        /\ \A x \in Actors : choice[x] = {}
        /\ choice' = choice /\ draft' = draft /\ mailed' = mailed
    BY <1>6 DEF UploadUsed, Busy
  <2>2. owner'[v] = r /\ \A w \in Codes \ {v} : owner'[w] = owner[w]
    BY <2>1 DEF TypeOK
  <2>3. \A w \in Codes, s \in Readers : owner[w] = s => owner'[w] = s
    BY <2>1, <2>2, ReaderAssumption
  <2>4. DraftsBacked'
    <3>1. ASSUME NEW m \in Mails, NEW d \in draft[m] PROVE owner'[d[1]] = d[2]
      <4>1. d[1] \in Codes /\ d[2] \in Readers /\ m \in Actors
        BY DEF TypeOK, Assignments, Actors
      <4>2. owner[d[1]] = d[2]
        BY <1>0, <2>1, <4>1 DEF Orderly, DraftsBacked
      <4>3. QED
        BY <2>3, <4>1, <4>2
    <3>2. QED
      BY <2>1, <3>1 DEF DraftsBacked
  <2>5. MailedBacked'
    <3>1. ASSUME NEW d \in mailed PROVE owner'[d[1]] = d[2]
      <4>1. d[1] \in Codes /\ d[2] \in Readers /\ owner[d[1]] = d[2]
        BY <1>0 DEF TypeOK, Assignments, Orderly, MailedBacked
      <4>2. QED
        BY <2>3, <4>1
    <3>2. QED
      BY <2>1, <3>1 DEF MailedBacked
  <2>6. OneEach'
    BY <1>0, <2>1, <2>2 DEF Orderly, OneEach, Owned
  <2>7. QED
    BY <2>1, <2>4, <2>5, <2>6 DEF Orderly, OneBusy, Busy, Fresh
<1>7. CASE UNCHANGED vars
  BY <1>0, <1>7 DEF vars, Orderly, OneBusy, Busy, Fresh, Owned, DraftsBacked, MailedBacked,
     OneEach
<1>8. QED
  BY <1>1, <1>2, <1>3, <1>4, <1>5, <1>6, <1>7, VoucherSteps

(* The invariant holds in every reachable state.                           *)
LEMMA VouchersInvariance == Spec => []IInv
<1>1. Init => IInv
  BY ReaderAssumption DEF Init, IInv, Orderly, OneBusy, Busy, Fresh, DraftsBacked,
     MailedBacked, OneEach, Owned
<1>2. QED
  BY <1>1, NextIInv, VouchersTypeCorrect, PTL DEF Spec

(* A mailed voucher belongs to the reader it was mailed to.                *)
THEOREM VouchersMailedAreOwned == Spec => []MailedIsOwner
<1>1. IInv => MailedIsOwner
  BY DEF IInv, Orderly, MailedBacked, MailedIsOwner
<1>2. QED
  BY <1>1, VouchersInvariance, PTL

(* A reader has one voucher at most.                                       *)
THEOREM ReadersHaveOneVoucher == Spec => []OneVoucherEach
<1>1. IInv => OneVoucherEach
  BY DEF IInv, Orderly, OneEach, OneVoucherEach
<1>2. QED
  BY <1>1, VouchersInvariance, PTL

(* A voucher that is somebody's is never made free again.                  *)
THEOREM VouchersAreNotFreed == Spec => NeverFreed
<1>1. TypeOK /\ [Next]_vars => [\A v \in Codes : owner[v] # Nobody => owner'[v] # Nobody]_vars
  <2> SUFFICES ASSUME TypeOK, [Next]_vars, NEW v \in Codes, owner[v] # Nobody
               PROVE  owner'[v] # Nobody
    OBVIOUS
  <2>1. ASSUME NEW x \in Actors, Write(x) PROVE owner'[v] # Nobody
    <3>1. PICK a \in choice[x] : owner' = [owner EXCEPT ![a[1]] = a[2]]
      BY <2>1 DEF Write
    <3>2. a[2] \in Readers
      BY <3>1 DEF TypeOK, Assignments
    <3>3. QED
      BY <3>1, <3>2, ReaderAssumption DEF TypeOK
  <2>2. ASSUME NEW w \in Codes, NEW r \in Readers, UploadUsed(w, r) PROVE owner'[v] # Nobody
    BY <2>2, ReaderAssumption DEF UploadUsed, TypeOK
  <2>3. QED
    BY <2>1, <2>2, VoucherSteps DEF GetVoucher, Assign, Send, GiveUp, vars
<1>2. QED
  BY <1>1, VouchersTypeCorrect, PTL DEF Spec, NeverFreed

-----------------------------------------------------------------------------
(* All that is kept of readers: each type invariant is inductive.          *)

LEMMA ReadersNextTypeOK == ReadersTypeOK /\ [ReadersNext]_readers_vars => ReadersTypeOK'
<1> SUFFICES ASSUME ReadersTypeOK, [ReadersNext]_readers_vars PROVE ReadersTypeOK'
  OBVIOUS
<1>1. /\ part' = part
      /\ part = "membership" => [MembershipNext]_membership_vars
      /\ part = "data" => [DataNext]_data_vars
      /\ part = "vouchers" => [Next]_vars
  BY DEF ReadersNext, readers_vars
<1>2. part = "membership" => MembershipTypeOK'
  BY <1>1, MembershipNextTypeOK DEF ReadersTypeOK
<1>3. part = "data" => DataTypeOK'
  BY <1>1, DataNextTypeOK DEF ReadersTypeOK
<1>4. part = "vouchers" => TypeOK'
  BY <1>1, NextTypeOK DEF ReadersTypeOK
<1>5. QED
  BY <1>1, <1>2, <1>3, <1>4 DEF ReadersTypeOK

(* Whether lists, the data of labels or vouchers are worked on, for any    *)
(* number of readers, every variable keeps its type.                       *)
THEOREM ReadersTypeCorrect == ReadersSpec => []ReadersTypeOK
<1>1. ReadersInit => ReadersTypeOK
  BY MembershipInitTypeOK, DataInitTypeOK, InitTypeOK DEF ReadersInit, ReadersTypeOK
<1>2. QED
  BY <1>1, ReadersNextTypeOK, PTL DEF ReadersSpec
=============================================================================
