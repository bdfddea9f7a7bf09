----------------------------- MODULE LabelData -----------------------------
(***************************************************************************)
(* The data that the fns of several labels compute for readers and that    *)
(* rules test (applyLabel, api/models/label_model.js 106-225).  All labels *)
(* keep their keys in one field of a reader, label_data: an application    *)
(* nulls keys of all readers, replaces the whole field of the readers its  *)
(* fn found, and puts the readers who match its rule on its list.  How two *)
(* applications of one label meet on that list is Membership's subject;    *)
(* here different labels are applied at the same time, each once, as saves *)
(* of labels, apply_labels and the mail form may.                          *)
(***************************************************************************)
EXTENDS ReaderSet, Naturals, Sequences, FiniteSets

CONSTANTS
    DataLabels,    \* labels with fn
    KeysOf,        \* KeysOf[l]: the keys in what its fn returns, in order
    Tested,        \* Tested[l]: the key its rule tests
    PerUpdate,     \* readers per update: 10000
    MaxRounds,     \* bound on the applications
    MaxFindings    \* bound on the changes of what the fns find

OwnKeys(l) == {KeysOf[l][i] : i \in DOMAIN KeysOf[l]}
Keys == UNION {OwnKeys(l) : l \in DataLabels}

(* Labels keep to their own keys, and rules test what some fn computes.    *)
ASSUME KeyAssumption == \A l, k \in DataLabels : l # k => OwnKeys(l) \cap OwnKeys(k) = {}
ASSUME TestedAssumption == Tested \in [DataLabels -> Keys]
ASSUME DataBoundAssumption ==
    /\ PerUpdate \in Nat \ {0}
    /\ MaxRounds \in Nat /\ MaxFindings \in Nat

VARIABLES
    finds,     \* finds[l][r]: the keys l's fn has a value of for reader r
    held,      \* held[r][k]: "absent", "null" or a "value" of key k
    listed,    \* listed[l]: the readers on l's list
    applying,  \* each application: where it is, and what it has to do
    rounds,    \* applications begun so far
    findings,  \* changes of what the fns find so far
    untouched  \* history: labels since whose last application began nothing
               \* else has happened

data_vars == <<finds, held, listed, applying, rounds, findings, untouched>>

NotApplied == [at |-> "idle", answer |-> [r \in Readers |-> {}], old |-> {}]

DataInit ==
    /\ finds \in [DataLabels -> [Readers -> SUBSET Keys]]
    /\ \A l \in DataLabels, r \in Readers : finds[l][r] \subseteq OwnKeys(l)
    /\ held = [r \in Readers |-> [k \in Keys |-> "absent"]]
    /\ listed = [l \in DataLabels |-> {}]
    /\ applying = [l \in DataLabels |-> NotApplied]
    /\ rounds = 0
    /\ findings = 0
    /\ untouched = {}

-----------------------------------------------------------------------------
Does(l, next) ==
    /\ applying' = [applying EXCEPT ![l] = next]
    /\ untouched' = untouched \cap {l}

(* What readers do changes what a fn finds.                                *)
FindOther(l, r) ==
    /\ findings < MaxFindings
    /\ findings' = findings + 1
    /\ \E d \in SUBSET OwnKeys(l) \ {finds[l][r]} : finds' = [finds EXCEPT ![l][r] = d]
    /\ untouched' = {}
    /\ UNCHANGED <<held, listed, applying, rounds>>

(* Of the keys of an item only the first is added (line 125): Set.add      *)
(* takes one argument.  A reader for whom fn finds nothing has no item.    *)
FirstKeys(l, answer) ==
    {KeysOf[l][i] : i \in {i \in DOMAIN KeysOf[l] : \E r \in Readers :
        /\ KeysOf[l][i] \in answer[r]
        /\ \A j \in 1..i - 1 : KeysOf[l][j] \notin answer[r]}}

(* The fn is evaluated (lines 110-126).                                    *)
Evaluate(l) ==
    /\ applying[l].at = "idle"
    /\ rounds < MaxRounds
    /\ rounds' = rounds + 1
    /\ applying' = [applying EXCEPT ![l] =
           [at |-> "data", answer |-> finds[l], old |-> FirstKeys(l, finds[l])]]
    /\ untouched' = IF \A k \in DataLabels : applying[k].at = "idle" THEN {l} ELSE {}
    /\ UNCHANGED <<finds, held, listed, findings>>

(* Mutant: the key is nulled for readers the fn has found only.            *)
NullKey_Found(l) ==
    /\ applying[l].at = "data"
    /\ \E k \in applying[l].old :
          /\ held' = [r \in Readers |-> IF held[r][k] # "absent" /\ applying[l].answer[r] # {}
                                        THEN [held[r] EXCEPT ![k] = "null"] ELSE held[r]]
          /\ Does(l, [applying[l] EXCEPT !.old = @ \ {k}])
    /\ UNCHANGED <<finds, listed, rounds, findings>>

(* One key of all readers who have it becomes null (lines 127-134).        *)
NullKey(l) ==
    /\ applying[l].at = "data"
    /\ \E k \in applying[l].old :
          /\ held' = [r \in Readers |-> IF held[r][k] # "absent"
                                        THEN [held[r] EXCEPT ![k] = "null"] ELSE held[r]]
          /\ Does(l, [applying[l] EXCEPT !.old = @ \ {k}])
    /\ UNCHANGED <<finds, listed, rounds, findings>>

Item(d) == [k \in Keys |-> IF k \in d THEN "value" ELSE "absent"]

(* Readers with equal items share an update, up to PerUpdate of them       *)
(* (lines 55-104); the item replaces what the reader held (115-120,        *)
(* 135-152).                                                               *)
WriteItems(l) ==
    LET answer == applying[l].answer IN
    /\ applying[l].at = "data"
    /\ applying[l].old = {}
    /\ \E S \in SUBSET {r \in Readers : answer[r] # {}} :
          /\ S # {} /\ Cardinality(S) <= PerUpdate
          /\ \A r, t \in S : answer[r] = answer[t]
          /\ held' = [r \in Readers |-> IF r \in S THEN Item(answer[r]) ELSE held[r]]
          /\ Does(l, [applying[l] EXCEPT
                        !.answer = [r \in Readers |-> IF r \in S THEN {} ELSE @[r]]])
    /\ UNCHANGED <<finds, listed, rounds, findings>>

Matches(l) == {r \in Readers : held[r][Tested[l]] = "value"}

(* The readers who match are put on the list, the others taken off it      *)
(* (lines 157-220, Membership in one step).                                *)
Relabel(l) ==
    /\ applying[l].at = "data"
    /\ applying[l].old = {}
    /\ applying[l].answer = NotApplied.answer
    /\ listed' = [listed EXCEPT ![l] = Matches(l)]
    /\ Does(l, NotApplied)
    /\ UNCHANGED <<finds, held, rounds, findings>>

(* A call throws, and the application is given up; apply_labels goes on to *)
(* the next label (lines 221-224, 249).                                    *)
GiveUpLabel(l) ==
    /\ applying[l].at = "data"
    /\ applying' = [applying EXCEPT ![l] = NotApplied]
    /\ untouched' = {}
    /\ UNCHANGED <<finds, held, listed, rounds, findings>>

DataNext ==
    \/ \E l \in DataLabels, r \in Readers : FindOther(l, r)
    \/ \E l \in DataLabels :
          Evaluate(l) \/ NullKey(l) \/ WriteItems(l) \/ Relabel(l) \/ GiveUpLabel(l)

DataSpec == DataInit /\ [][DataNext]_data_vars

-----------------------------------------------------------------------------
(* The lists a label ends up with when nothing else happens, whatever was  *)
(* broken off before.  The readers its own key is found for are on it; no  *)
(* others are, if that key came first for somebody, else readers stay for  *)
(* whom it is found no longer.  A label whose rule tests the data of       *)
(* another label gets none of the readers its own fn finds: it has just    *)
(* replaced their data.                                                    *)
ListExplained ==
    \A l \in untouched : applying[l].at = "idle" =>
        LET due == {r \in Readers : Tested[l] \in finds[l][r]} IN
        /\ due \subseteq listed[l]
        /\ Tested[l] \in FirstKeys(l, finds[l]) => listed[l] = due
        /\ Tested[l] \notin OwnKeys(l) => \A r \in listed[l] : finds[l][r] = {}

(* Every variable has its type.                                            *)
DataTypeOK ==
    /\ finds \in [DataLabels -> [Readers -> SUBSET Keys]]
    /\ held \in [Readers -> [Keys -> {"absent", "null", "value"}]]
    /\ listed \in [DataLabels -> SUBSET Readers]
    /\ applying \in [DataLabels -> [at : {"idle", "data"}, answer : [Readers -> SUBSET Keys],
                                    old : SUBSET Keys]]
    /\ rounds \in 0..MaxRounds /\ findings \in 0..MaxFindings
    /\ untouched \subseteq DataLabels
=============================================================================
