------------------------------ MODULE EventLog ------------------------------
(***************************************************************************)
(* What becomes of hits, without topics, offsets and handlers: a published *)
(* hit has one of three fates, and one only.  It is stored, or sent to the *)
(* test topic, or lost.  A hit that was repeated on its way may meet more  *)
(* of them; one of which a write took effect that nobody confirmed may be  *)
(* held for lost, and be stored or tested, though only once.               *)
(* EventPipeline implements it.                                            *)
(***************************************************************************)
EXTENDS Naturals, Sequences

CONSTANTS Hits, Tests

VARIABLES
    published,   \* the hits there have been
    stored,      \* the documents of the index: the hit of each
    tested,      \* the hits in the test topic
    lost,        \* the hits an error or a restart has ended
    repeated,    \* the hits delivered or written more than once
    doubtful     \* the hits with a write that took effect unanswered

vars == <<published, stored, tested, lost, repeated, doubtful>>

Init ==
    /\ published = {}
    /\ stored = <<>>
    /\ tested = {}
    /\ lost = {}
    /\ repeated = {}
    /\ doubtful = {}

Arrived(h) == h \in tested \/ \E i \in DOMAIN stored : stored[i] = h

(* A hit can arrive that has not, and is not lost.                         *)
Open(h) ==
    /\ h \in published
    /\ h \in repeated \/ ~ Arrived(h)
    /\ h \in repeated \cup doubtful \/ h \notin lost

(* ... and be lost if it has not arrived.                                  *)
Losable(h) ==
    /\ h \in published
    /\ h \in repeated \cup doubtful \/ ~ (Arrived(h) \/ h \in lost)

MayDoubt(h) == doubtful' \in {doubtful, doubtful \cup {h}}

Publish(h) ==
    /\ h \notin published
    /\ published' = published \cup {h}
    /\ repeated' \in {repeated, repeated \cup {h}}
    /\ UNCHANGED <<stored, tested, lost, doubtful>>

(* A hit is passed on: perhaps repeated, perhaps unanswered.               *)
Pass(h) ==
    /\ h \in published
    /\ repeated' \in {repeated, repeated \cup {h}}
    /\ MayDoubt(h)
    /\ UNCHANGED <<published, stored, tested, lost>>

Store(h) ==
    /\ h \notin Tests
    /\ Open(h)
    /\ \/ stored' = Append(stored, h) /\ UNCHANGED repeated
       \/ stored' = stored \o <<h, h>> /\ repeated' = repeated \cup {h}
    /\ MayDoubt(h)
    /\ UNCHANGED <<published, tested, lost>>

Test(h) ==
    /\ h \in Tests
    /\ Open(h)
    /\ tested' = tested \cup {h}
    /\ MayDoubt(h)
    /\ UNCHANGED <<published, stored, lost, repeated>>

(* An error loses one hit, a restart all that are in hand.                 *)
Lose(hs) ==
    /\ \A h \in hs : Losable(h)
    /\ lost' = lost \cup hs
    /\ UNCHANGED <<published, stored, tested, repeated, doubtful>>

Next ==
    \/ \E h \in Hits : Publish(h) \/ Pass(h) \/ Store(h) \/ Test(h)
    \/ \E hs \in SUBSET Hits : Lose(hs)

Spec == Init /\ [][Next]_vars
=============================================================================
