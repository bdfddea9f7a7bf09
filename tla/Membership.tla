----------------------------- MODULE Membership -----------------------------
(***************************************************************************)
(* How readers come to carry labels and belong to segments: applyLabel     *)
(* (api/models/label_model.js 106-225) and the two applySegment            *)
(* (segmentation_model.js 48-98, segment_model.js 85-154).  Each reads who *)
(* is on a list of the readers' documents, reads who ought to be, and then *)
(* adds and removes the difference page by page.  They are called by       *)
(* apply_labels and apply_segments, by the mail form, and by every save of *)
(* a label or a segment, so two may work on one list at the same time;     *)
(* each database call is one action.                                       *)
(*                                                                         *)
(* One label, whose rules test the data its fn computes for the readers;   *)
(* one old-style segment (segmentation) and one new-style segment of the   *)
(* readers with that label.                                                *)
(***************************************************************************)
EXTENDS ReaderSet, Naturals, FiniteSets

CONSTANTS
    Jobs,         \* applications of a label or a segment that may overlap
    List,         \* List[j]: the list job j is about
    PageSize,     \* readers per update: 500 for labels, 10000 for segments
    MaxApplies,   \* bound on the applications begun
    MaxChanges    \* bound on the changes of the readers' data

Lists == {"label", "segmentation", "segment"}

ASSUME ListAssumption == List \in [Jobs -> Lists]
ASSUME BoundAssumption == PageSize \in Nat \ {0} /\ MaxApplies \in Nat /\ MaxChanges \in Nat

VARIABLES
    truth,       \* the readers for whom fn finds something
    label_data,  \* the readers whose label_data is not null
    count,       \* count[l][r]: how often r is on list l, counted up to 2
    job,         \* each application: where it is and what it has read
    applies,     \* applications begun so far
    changes,     \* changes of the readers' data so far
    lists_overlapped,  \* history: lists two applications worked on at once
    alone        \* history: applications since whose beginning nothing else
                 \* has happened

bounds == <<applies, changes>>
membership_vars == <<truth, label_data, count, job, bounds, lists_overlapped, alone>>

Idle == [at |-> "idle", data |-> {}, before |-> {}, add |-> {}, remove |-> {}]

(* The lists hold what earlier applications left: a reader once, or not.   *)
MembershipInit ==
    /\ truth \in SUBSET Readers
    /\ label_data = {}
    /\ \E members \in SUBSET Readers :
          count = [l \in Lists |-> [r \in Readers |-> IF r \in members THEN 1 ELSE 0]]
    /\ job = [j \in Jobs |-> Idle]
    /\ applies = 0
    /\ changes = 0
    /\ lists_overlapped = {}
    /\ alone = {}

-----------------------------------------------------------------------------
Members(l) == {r \in Readers : count[l][r] > 0}

(* Who ought to be on a list: the label's rules test label_data, a segment *)
(* is a query on the readers' labels.                                      *)
Matching(l) == IF l = "label" THEN label_data ELSE Members("label")

(* Every step of one job ends the solitude of the others.                  *)
Step(j, next) ==
    /\ job' = [job EXCEPT ![j] = next]
    /\ alone' = alone \cap {j}

(* The data of the readers changes.                                        *)
Change(r) ==
    /\ changes < MaxChanges
    /\ changes' = changes + 1
    /\ truth' = (truth \cup {r}) \ (truth \cap {r})
    /\ alone' = {}
    /\ UNCHANGED <<label_data, count, job, applies, lists_overlapped>>

(* A job begins; a label's fn is evaluated (label_model.js 110-121).       *)
Begin(j) ==
    /\ job[j].at = "idle"
    /\ applies < MaxApplies
    /\ applies' = applies + 1
    /\ job' = [job EXCEPT ![j] =
                 IF List[j] = "label" THEN [Idle EXCEPT !.at = "clear", !.data = truth]
                                      ELSE [Idle EXCEPT !.at = "before"]]
    /\ lists_overlapped' = IF \E k \in Jobs \ {j} : List[k] = List[j] /\ job[k].at # "idle"
                       THEN lists_overlapped \cup {List[j]} ELSE lists_overlapped
    /\ alone' = IF \A k \in Jobs : job[k].at = "idle" THEN {j} ELSE {}
    /\ UNCHANGED <<truth, label_data, count, changes>>

(* Lines 122-134: the keys this run has found are set to null for all      *)
(* readers; if fn found nobody there is no key, and the data of before     *)
(* stay ...  The fn yields one key here; of several, line 125 would see    *)
(* the first only.                                                         *)
Clear(j) ==
    /\ job[j].at = "clear"
    /\ Step(j, [job[j] EXCEPT !.at = "write"])
    /\ label_data' = IF job[j].data = {} THEN label_data ELSE {}
    /\ UNCHANGED <<truth, count, bounds, lists_overlapped>>

(* Mutant: the new data is written without being waited for, after the     *)
(* rules have been evaluated.                                              *)
WriteData_NotAwaited(j) ==
    /\ job[j].at = "write"
    /\ Step(j, [job[j] EXCEPT !.at = "before"])
    /\ UNCHANGED <<truth, label_data, count, bounds, lists_overlapped>>

(* ... and the new data is written (lines 135-152).                        *)
WriteData(j) ==
    /\ job[j].at = "write"
    /\ Step(j, [job[j] EXCEPT !.at = "before"])
    /\ label_data' = label_data \cup job[j].data
    /\ UNCHANGED <<truth, count, bounds, lists_overlapped>>

(* Who is on the list (label_model.js 162-165, segmentation_model.js 52,   *)
(* segment_model.js 88) ...                                                *)
ReadBefore(j) ==
    /\ job[j].at = "before"
    /\ Step(j, [job[j] EXCEPT !.at = "after", !.before = Members(List[j])])
    /\ UNCHANGED <<truth, label_data, count, bounds, lists_overlapped>>

(* Mutant: the list is rebuilt rather than corrected.                      *)
ReadAfter_Rebuild(j) ==
    /\ job[j].at = "after"
    /\ Step(j, [Idle EXCEPT !.at = "update", !.add = Matching(List[j]),
                            !.remove = job[j].before])
    /\ UNCHANGED <<truth, label_data, count, bounds, lists_overlapped>>

(* ... who ought to be (169-172, 53, 90-94), and the difference.           *)
ReadAfter(j) ==
    /\ job[j].at = "after"
    /\ Step(j, [Idle EXCEPT !.at = "update", !.add = Matching(List[j]) \ job[j].before,
                            !.remove = job[j].before \ Matching(List[j])])
    /\ UNCHANGED <<truth, label_data, count, bounds, lists_overlapped>>

Page(s) == {p \in SUBSET s : p # {} /\ (p = s \/ Cardinality(p) = PageSize)
                                    /\ Cardinality(p) <= PageSize}

(* Mutant: new-style segments are pushed too.                              *)
Added_Pushed(l, n) == IF n = 0 THEN 1 ELSE 2

(* $push adds once more, $addToSet at most once.                           *)
Added(l, n) == IF l = "segment" \/ n = 0 THEN 1 ELSE 2

(* Lines 196-203, 71-77, 114-126.                                          *)
Insert(j) ==
    /\ job[j].at = "update"
    /\ \E p \in Page(job[j].add) :
          /\ Step(j, [job[j] EXCEPT !.add = @ \ p])
          /\ count' = [count EXCEPT ![List[j]] =
                         [r \in Readers |-> IF r \in p THEN Added(List[j], @[r]) ELSE @[r]]]
    /\ UNCHANGED <<truth, label_data, bounds, lists_overlapped>>

(* Mutant: only full pages are removed.                                    *)
Delete_FullPages(j) ==
    /\ job[j].at = "update"
    /\ job[j].add = {}
    /\ job[j].remove # {}
    /\ Step(j, [job[j] EXCEPT !.remove = {}])
    /\ UNCHANGED <<truth, label_data, count, bounds, lists_overlapped>>

(* Then those who left: $pull takes a list entry away, however often it is *)
(* there (204-210, 78-83, 128-138).                                        *)
Delete(j) ==
    /\ job[j].at = "update"
    /\ job[j].add = {}
    /\ \E p \in Page(job[j].remove) :
          /\ Step(j, [job[j] EXCEPT !.remove = @ \ p])
          /\ count' = [count EXCEPT ![List[j]] =
                         [r \in Readers |-> IF r \in p THEN 0 ELSE @[r]]]
    /\ UNCHANGED <<truth, label_data, bounds, lists_overlapped>>

(* The statistics are updated (219, 92, 148), and the job is over.         *)
End(j) ==
    /\ job[j].at = "update"
    /\ job[j].add = {}
    /\ job[j].remove = {}
    /\ job' = [job EXCEPT ![j] = Idle]
    /\ alone' = {}
    /\ UNCHANGED <<truth, label_data, count, bounds, lists_overlapped>>

(* A call throws: the job is given up where it is (221-224, 94-97,         *)
(* 150-153).                                                               *)
BreakOff(j) ==
    /\ job[j].at # "idle"
    /\ job' = [job EXCEPT ![j] = Idle]
    /\ alone' = {}
    /\ UNCHANGED <<truth, label_data, count, bounds, lists_overlapped>>

MembershipNext ==
    \/ \E r \in Readers : Change(r)
    \/ \E j \in Jobs :
          \/ Begin(j) \/ Clear(j) \/ WriteData(j)
          \/ ReadBefore(j) \/ ReadAfter(j)
          \/ Insert(j) \/ Delete(j)
          \/ End(j) \/ BreakOff(j)

MembershipSpec == MembershipInit /\ [][MembershipNext]_membership_vars

-----------------------------------------------------------------------------
Places == {"idle", "clear", "write", "before", "after", "update"}

(* Every variable has its type, and a job about to update a list adds and  *)
(* removes different readers.                                              *)
MembershipTypeOK ==
    /\ truth \subseteq Readers
    /\ label_data \subseteq Readers
    /\ count \in [Lists -> [Readers -> 0..2]]
    /\ job \in [Jobs -> [at : Places, data : SUBSET Readers, before : SUBSET Readers,
                         add : SUBSET Readers, remove : SUBSET Readers]]
    /\ \A j \in Jobs : job[j].add \cap job[j].remove = {}
    /\ applies \in 0..MaxApplies
    /\ changes \in 0..MaxChanges
    /\ lists_overlapped \subseteq Lists
    /\ alone \subseteq Jobs

(* A reader is on a list twice only if two applications of that list have  *)
(* overlapped, and never on that of a new-style segment.                   *)
NoDuplicates ==
    \A l \in Lists, r \in Readers : count[l][r] > 1 => l # "segment" /\ l \in lists_overlapped

Ending(j) == job[j].at = "update" /\ job[j].add = {} /\ job[j].remove = {}

(* An application nothing else interferes with is exact: it ends with the  *)
(* readers on the list who ought to be there, whatever earlier ones broke  *)
(* off; those of a label are the readers its fn finds, unless it finds     *)
(* nobody: then the readers of before keep their data, and the label.      *)
ExactWhenAlone ==
    \A j \in alone : Ending(j) =>
        /\ Members(List[j]) = Matching(List[j])
        /\ List[j] = "label" /\ truth # {} => Members("label") = truth

(* While a label's fn has always found a reader, the reader keeps it: the  *)
(* null label_data an application leaves for a moment, or for good when it *)
(* breaks off, takes the label away only if two applications of it overlap. *)
KeptWhileTrue ==
    [][\A r \in truth : changes = 0 /\ "label" \notin lists_overlapped /\ r \in Members("label")
                        => r \in Members("label")']_membership_vars
=============================================================================
