---------------------------- MODULE CopiesProofs ----------------------------
(***************************************************************************)
(* What is copied to other systems, for any number of records, readers,    *)
(* calls, pages and failures: which updates the exporter's runs pass over  *)
(* for good (Exporter), how many readers a run of the synchronisation      *)
(* passes over (WordpressSync), and why what Sailthru has of a reader      *)
(* differs from the labels (Sailthru).                                     *)
(***************************************************************************)
EXTENDS Exporter, WordpressSync, Sailthru, FiniteSetTheorems, SequenceTheorems,
        WellFoundedInduction, TLAPS

-----------------------------------------------------------------------------
(* The exporter.  ExporterInv: what waits in the stream of a collection    *)
(* was found by the query that began its run, and is copied in the order   *)
(* of the updates (EntriesKept, StaleFirst, InOrder); so an update before  *)
(* the one a query begins with is copied (BeforeSince), one on the pages   *)
(* read is copied or in the stream (PagesCovered, ReadCovered), and none   *)
(* is newer than one that is not (NewestKept), unless a query failed or    *)
(* the pages shifted.  It does not matter how much of a stream has left    *)
(* the buffer for the pipeline, but for what a failed read destroys.       *)

LEMMA NatOrder ==
    \E R : IsWellFoundedOn(R, Nat) /\ \A x, y \in Nat : y < x => <<y, x>> \in R
<1>1. \A x, y \in Nat : y < x => <<y, x>> \in OpToRel(<, Nat)
  BY DEF OpToRel
<1> QED
  BY <1>1, NatLessThanWellFounded

LEMMA Least ==
    ASSUME NEW T, NEW t \in T, \A y \in T : y \in Nat
    PROVE  \E x \in T : \A y \in T : x <= y
<1>1. PICK R : IsWellFoundedOn(R, Nat) /\ \A x, y \in Nat : y < x => <<y, x>> \in R
  BY NatOrder
<1>2. PICK x \in T : \A y \in T : <<y, x>> \notin R
  BY <1>1, WFMin
<1>3. ASSUME NEW y \in T PROVE x <= y
  <2>1. x \in Nat /\ y \in Nat
    OBVIOUS
  <2>2. ~(y < x)
    BY <1>1, <1>2, <2>1
  <2> QED
    BY <2>1, <2>2
<1> QED
  BY <1>3

LEMMA MaxIsGreatest ==
    ASSUME NEW n \in Nat, NEW S \in SUBSET (0..n), S # {}
    PROVE  Max(S) \in S /\ \A y \in S : y <= Max(S)
<1> DEFINE U == {n - y : y \in S}
<1>1. PICK s \in S : TRUE
  OBVIOUS
<1>2. (\A v \in U : v \in Nat) /\ n - s \in U
  OBVIOUS
<1>3. PICK u \in U : \A v \in U : u <= v
  BY <1>2, Least
<1>4. PICK x \in S : u = n - x
  BY <1>3
<1>5. ASSUME NEW y \in S PROVE x >= y
  <2>1. x \in 0..n /\ y \in 0..n /\ n - y \in U
    OBVIOUS
  <2> HIDE DEF U
  <2>2. n - x <= n - y
    BY <1>3, <1>4, <2>1
  <2>3. QED
    BY <2>1, <2>2
<1>6. \E z \in S : \A y \in S : z >= y
  BY <1>5
<1>7. Max(S) \in S /\ \A y \in S : Max(S) >= y
  BY <1>6, Zenon DEF Max
<1>8. S \subseteq Int
  OBVIOUS
<1>9. QED
  BY <1>7, <1>8

(* A sequence made of a set has all its elements.                          *)
LEMMA SeqOfSet ==
    ASSUME NEW S, IsFiniteSet(S), NEW rows \in SetToSeqs(S)
    PROVE  /\ rows \in Seq(S)
           /\ \A s \in S : \E i \in 1..Len(rows) : rows[i] = s
<1> DEFINE D == 1..Cardinality(S)
<1>1. Cardinality(S) \in Nat
  BY FS_CardinalityType
<1>2. rows \in [D -> S] /\ \A i, j \in D : i # j => rows[i] # rows[j]
  BY DEF SetToSeqs
<1>3. rows \in Injection(D, S)
  BY <1>2 DEF Injection, IsInjective
<1>4. Cardinality(D) = Cardinality(S)
  BY <1>1, FS_Interval
<1>5. rows \in Surjection(D, S)
  BY <1>3, <1>4, FS_Injection
<1>6. \A s \in S : \E i \in D : rows[i] = s
  BY <1>5 DEF Surjection
<1>7. rows \in Seq(S) /\ Len(rows) = Cardinality(S)
  BY <1>1, <1>2, SeqDef
<1>8. QED
  BY <1>6, <1>7

-----------------------------------------------------------------------------
(* The latest update of record r of c is copied by what is saved and the   *)
(* first k entries of the stream of c, or could not be saved.              *)
Covered(c, r, k) ==
    \/ \E j \in 1..k : stream[c][j] = <<r, updated[r]>>
    \/ /\ copied[r] = updated[r] \/ r \in unsaved
       /\ \A j \in 1..Len(stream[c]) : stream[c][j][1] = r => stream[c][j][2] = updated[r]

Past(t) == \E r \in Records : t <= updated[r]

IdleIsEmpty ==
    export = "idle" => reading = {} /\ read = {} /\ \A c \in Collections : stream[c] = <<>>

ReadOnce == \A e \in read : e[1] \notin reading

TimesKept ==
    /\ \A r \in Records : copied[r] <= updated[r]
    /\ \A q, r \in Records : updated[q] = updated[r] /\ updated[r] > 0 => q = r
    /\ \A c \in Collections : Past(since[c])
    /\ \A e \in read : Past(e[2])

BeforeSince ==
    export = "running" => \A r \in Records : Collection[r] \notin shifted =>
        (updated[r] < since[Collection[r]] => copied[r] = updated[r] \/ r \in unsaved)

NewestKept ==
    \A r \in Records :
        \/ Collection[r] \in shifted \/ r \in unsaved \/ copied[r] = updated[r]
        \/ \A q \in Records_of(Collection[r]) : copied[q] <= updated[r]

EntriesKept(c) ==
    \A j \in 1..Len(stream[c]) :
        since[c] <= stream[c][j][2] /\ stream[c][j][2] <= updated[stream[c][j][1]]

StaleFirst(c) ==
    \A j \in 1..Len(stream[c]) : stream[c][j][2] < updated[stream[c][j][1]] =>
        /\ \A q \in Records_of(c) : copied[q] < updated[stream[c][j][1]]
        /\ \A k \in 1..j : stream[c][k][2] < updated[stream[c][j][1]]

InOrder(c) ==
    c \notin shifted => \A j \in 1..Len(stream[c]) : \A r \in Records_of(c) :
        updated[r] < stream[c][j][2] => Covered(c, r, j - 1)

PagesCovered(c) ==
    c \in reading \ shifted => \A r \in Due(c) :
        Rank(c, r) < Offset(c) => Covered(c, r, Len(stream[c]))

ReadCovered(c) ==
    c \notin shifted => \A e \in read : e[1] = c =>
        \A r \in Records_of(c) : updated[r] > e[2] \/ Covered(c, r, Len(stream[c]))

CollectionInv(c) ==
    /\ EntriesKept(c)
    /\ StaleFirst(c)
    /\ InOrder(c)
    /\ PagesCovered(c)
    /\ ReadCovered(c)

ExporterInv ==
    /\ ExporterTypeOK
    /\ IdleIsEmpty
    /\ ReadOnce
    /\ TimesKept
    /\ BeforeSince
    /\ NewestKept
    /\ \A c \in Collections : CollectionInv(c)

(* What is in the stream of c.                                             *)
LEMMA StreamEntries ==
    ASSUME ExporterTypeOK, NEW c \in Collections
    PROVE  /\ stream[c] \in Seq(Records_of(c) \X (1..MaxUpdates))
           /\ Len(stream[c]) \in Nat /\ piped[c] \in 0..Len(stream[c])
           /\ \A j \in 1..Len(stream[c]) :
                /\ stream[c][j] = <<stream[c][j][1], stream[c][j][2]>>
                /\ stream[c][j][1] \in Records_of(c) /\ stream[c][j][1] \in Records
                /\ stream[c][j][2] \in 1..MaxUpdates
<1>1. /\ stream[c] \in Seq(Records_of(c) \X (1..MaxUpdates))
      /\ piped[c] \in Nat /\ piped[c] <= Len(stream[c])
  BY DEF ExporterTypeOK
<1> DEFINE s == stream[c]
           R == Records_of(c)
<1>2. R \subseteq Records /\ s \in Seq(R \X (1..MaxUpdates))
  BY <1>1 DEF Records_of
<1> HIDE DEF s, R
<1>3. Len(s) \in Nat /\ \A j \in 1..Len(s) : s[j] \in R \X (1..MaxUpdates)
  BY <1>2, ElementOfSeq, LenProperties
<1>4. ASSUME NEW e \in R \X (1..MaxUpdates)
      PROVE  e = <<e[1], e[2]>> /\ e[1] \in R /\ e[2] \in 1..MaxUpdates
  OBVIOUS
<1>5. \A j \in 1..Len(s) : /\ s[j] = <<s[j][1], s[j][2]>>
                           /\ s[j][1] \in R /\ s[j][1] \in Records /\ s[j][2] \in 1..MaxUpdates
  BY <1>2, <1>3, <1>4
<1>6. QED
  BY <1>1, <1>3, <1>5 DEF s, R

(* One stream changes.                                                     *)
LEMMA OneStream ==
    ASSUME ExporterTypeOK, NEW c \in Collections,
           NEW s \in Seq(Records_of(c) \X (1..MaxUpdates)), stream' = [stream EXCEPT ![c] = s],
           piped' \in [Collections -> Nat], piped'[c] <= Len(s),
           \A d \in Collections \ {c} : piped'[d] = piped[d]
    PROVE  /\ stream'[c] = s /\ \A d \in Collections \ {c} : stream'[d] = stream[d]
           /\ DOMAIN stream' = Collections
           /\ \A d \in Collections : stream'[d] \in Seq(Records_of(d) \X (1..MaxUpdates))
           /\ \A d \in Collections : piped'[d] <= Len(stream'[d])
<1>1. DOMAIN stream = Collections
  BY DEF ExporterTypeOK
<1>2. stream'[c] = s /\ \A d \in Collections \ {c} : stream'[d] = stream[d]
  BY <1>1
<1>3. ASSUME NEW d \in Collections
      PROVE  stream'[d] \in Seq(Records_of(d) \X (1..MaxUpdates)) /\ piped'[d] <= Len(stream'[d])
  <2>1. CASE d = c
    BY <1>2, <2>1
  <2>2. CASE d # c
    <3>1. stream'[d] = stream[d] /\ piped'[d] = piped[d]
      BY <1>2, <2>2
    <3>2. QED
      BY <3>1 DEF ExporterTypeOK
  <2>3. QED
    BY <2>1, <2>2
<1>4. QED
  BY <1>1, <1>2, <1>3

LEMMA TimeTypes ==
    ASSUME ExporterTypeOK
    PROVE  /\ \A r \in Records : updated[r] \in 0..MaxUpdates /\ copied[r] \in 0..MaxUpdates
           /\ \A r \in Records : Collection[r] \in Collections
           /\ \A c \in Collections : since[c] \in 0..MaxUpdates /\ page[c] \in Nat
           /\ MaxUpdates \in Nat
BY ExporterAssumption DEF ExporterTypeOK, Collections

(* Every record was updated at the clock's time or before.                 *)
LEMMA ClockIsLatest ==
    ASSUME ExporterTypeOK, NEW s \in Records
    PROVE  /\ Clock \in 0..MaxUpdates
           /\ \A r \in Records : updated[r] <= Clock
           /\ \E r \in Records : updated[r] = Clock
<1> DEFINE S == UNION {Times(updated, c) : c \in Collections}
<1>1. \A r \in Records : updated[r] \in S
  BY DEF Times, Records_of, Collections
<1>2. \A t \in S : \E r \in Records : t = updated[r]
  BY DEF Times, Records_of
<1>3. S \in SUBSET (0..MaxUpdates) /\ S # {}
  BY <1>1, <1>2, TimeTypes
<1>4. Clock \in S /\ \A y \in S : y <= Clock
  <2>1. MaxUpdates \in Nat
    BY TimeTypes
  <2> HIDE DEF S
  <2>2. Max(S) \in S /\ \A y \in S : y <= Max(S)
    BY <1>3, <2>1, MaxIsGreatest
  <2>3. QED
    BY <2>2 DEF Clock, S
<1>5. QED
  BY <1>1, <1>2, <1>3, <1>4

LEMMA MaxOfTimes ==
    ASSUME NEW f \in [Records -> 0..MaxUpdates], NEW c \in Collections
    PROVE  /\ Max(Times(f, c)) \in 0..MaxUpdates
           /\ \E q \in Records_of(c) : Max(Times(f, c)) = f[q]
           /\ \A r \in Records_of(c) : f[r] <= Max(Times(f, c))
<1> DEFINE S == Times(f, c)
<1>1. PICK s \in Records : Collection[s] = c
  BY DEF Collections
<1>2. f[s] \in S /\ S \in SUBSET (0..MaxUpdates) /\ MaxUpdates \in Nat
  BY <1>1, ExporterAssumption DEF Times, Records_of
<1>3. Max(S) \in S /\ \A y \in S : y <= Max(S)
  <2> HIDE DEF S
  <2> QED
    BY <1>2, MaxIsGreatest
<1>4. QED
  BY <1>2, <1>3 DEF Times

-----------------------------------------------------------------------------
(* The records due, by rank.                                               *)

LEMMA DueIsFinite ==
    ASSUME NEW c, NEW D \in SUBSET Due(c)
    PROVE  IsFiniteSet(D) /\ Cardinality(D) \in Nat
<1>1. D \in SUBSET Records /\ IsFiniteSet(Records)
  BY ExporterAssumption DEF Due, Records_of
<1>2. QED
  BY <1>1, FS_Subset, FS_CardinalityType

LEMMA DueTimes ==
    ASSUME ExporterTypeOK, NEW c, NEW r \in Due(c)
    PROVE  r \in Records /\ updated[r] \in 1..MaxUpdates /\ Collection[r] = c
BY TimeTypes DEF Due, Records_of

LEMMA RankType == \A c, r : Rank(c, r) \in Nat
<1>1. ASSUME NEW c, NEW r PROVE Rank(c, r) \in Nat
  BY DueIsFinite DEF Rank
<1>2. QED
  BY <1>1

LEMMA OffsetType == ASSUME ExporterTypeOK, NEW c \in Collections PROVE Offset(c) \in Nat
<1>1. page[c] \in Nat /\ PageSize \in Nat
  BY TimeTypes, ExporterAssumption
<1>2. QED
  BY <1>1 DEF Offset

LEMMA RankIsMonotonic ==
    ASSUME ExporterTypeOK, NEW c, NEW q \in Due(c), NEW r \in Due(c), updated[q] < updated[r]
    PROVE  Rank(c, q) <= Rank(c, r)
<1> DEFINE Q == {s \in Due(c) : Precedes(s, q)}
           R == {s \in Due(c) : Precedes(s, r)}
<1>1. Q \subseteq R
  BY DueTimes DEF Precedes
<1>2. IsFiniteSet(R)
  BY DueIsFinite
<1>3. QED
  BY <1>1, <1>2, FS_Subset DEF Rank

(* The record next after q has the next rank.                              *)
LEMMA NextRank ==
    ASSUME ExporterTypeOK, TimesKept, NEW c, NEW q \in Due(c), NEW r \in Due(c),
           updated[q] < updated[r],
           \A s \in Due(c) : updated[s] < updated[r] => updated[s] <= updated[q]
    PROVE  Rank(c, r) = Rank(c, q) + 1
<1> DEFINE Q == {s \in Due(c) : Precedes(s, q)}
           R == {s \in Due(c) : Precedes(s, r)}
<1>1. R = Q \cup {q}
  <2>1. \A s \in Due(c) : s \in Records /\ updated[s] \in 1..MaxUpdates
    BY DueTimes
  <2>2. \A s \in Due(c) : updated[s] = updated[q] => s = q
    <3>1. \A s \in Due(c) : updated[s] > 0
      BY <2>1
    <3>2. QED
      BY <2>1, <3>1 DEF TimesKept
  <2>3. \A s \in Due(c) : updated[s] < updated[r] <=> updated[s] < updated[q] \/ s = q
    BY <2>1, <2>2
  <2>4. QED
    BY <2>3 DEF Precedes
<1>2. q \notin Q
  BY DueTimes DEF Precedes
<1>3. IsFiniteSet(Q)
  BY DueIsFinite
<1>4. QED
  BY <1>1, <1>2, <1>3, FS_AddElement DEF Rank

(* No page is empty before the last.                                       *)
LEMMA EmptyPageIsLast ==
    ASSUME ExporterTypeOK, TimesKept, NEW c \in Collections, PageOf(c) = {}
    PROVE  \A r \in Due(c) : Rank(c, r) < Offset(c)
<1> DEFINE Later == {r \in Due(c) : ~(Rank(c, r) < Offset(c))}
           times == {updated[r] : r \in Later}
<1> SUFFICES ASSUME NEW s \in Later PROVE FALSE
  OBVIOUS
<1>1. \A r \in Due(c) : r \in Records /\ updated[r] \in 1..MaxUpdates
  BY DueTimes
<1>2. PICK r \in Later : \A q \in Later : updated[r] <= updated[q]
  <2>1. updated[s] \in times /\ \A t \in times : t \in Nat
    BY <1>1, TimeTypes
  <2>2. PICK t \in times : \A u \in times : t <= u
    <3> HIDE DEF times
    <3> QED
      BY <2>1, Least
  <2>3. QED
    BY <2>2
<1>3. /\ Offset(c) \in Nat /\ PageSize \in Nat \ {0}
      /\ \A q \in Due(c) : Rank(c, q) \in Nat
  BY OffsetType, RankType, ExporterAssumption
<1> DEFINE First == {q \in Due(c) : Precedes(q, r)}
           earlier == {updated[q] : q \in First}
<1>4. Rank(c, r) <= Offset(c)
  <2>1. CASE First = {}
    BY <1>3, <2>1, FS_EmptySet DEF Rank
  <2>2. CASE First # {}
    <3>1. earlier \in SUBSET (0..MaxUpdates) /\ earlier # {} /\ MaxUpdates \in Nat
      BY <1>1, <2>2, TimeTypes
    <3>2. PICK q \in First : \A t \in earlier : t <= updated[q]
      <4>1. Max(earlier) \in earlier /\ \A t \in earlier : t <= Max(earlier)
        <5> HIDE DEF earlier
        <5> QED
          BY <3>1, MaxIsGreatest
      <4>2. QED
        BY <4>1
    <3>3. \A x \in Due(c) : updated[x] < updated[r] => updated[x] <= updated[q]
      BY <3>2 DEF Precedes
    <3>4. q \in Due(c) /\ r \in Due(c) /\ updated[q] < updated[r]
      BY <1>2, <3>2 DEF Precedes
    <3>5. Rank(c, r) = Rank(c, q) + 1
      BY <3>3, <3>4, NextRank
    <3>6. Rank(c, q) < Offset(c)
      <4>1. ~(updated[r] <= updated[q])
        BY <1>1, <3>4
      <4>2. q \notin Later
        BY <1>2, <4>1
      <4>3. QED
        BY <3>4, <4>2
    <3>7. QED
      BY <1>3, <3>4, <3>5, <3>6
  <2>3. QED
    BY <2>1, <2>2
<1>5. r \in Due(c) /\ ~(Rank(c, r) < Offset(c))
  BY <1>2
<1>6. Offset(c) <= Rank(c, r) /\ Rank(c, r) < Offset(c) + PageSize
  BY <1>3, <1>4, <1>5
<1>7. r \in PageOf(c)
  BY <1>5, <1>6 DEF PageOf
<1>8. QED
  BY <1>7

-----------------------------------------------------------------------------
(* Records that are not due are covered.                                   *)
LEMMA NotDueIsCovered ==
    ASSUME ExporterInv, export = "running", NEW c \in Collections \ shifted,
           NEW r \in Records_of(c), r \notin Due(c), NEW k
    PROVE  Covered(c, r, k)
<1>1. /\ r \in Records /\ Collection[r] = c
      /\ updated[r] \in 0..MaxUpdates /\ copied[r] \in 0..MaxUpdates /\ since[c] \in 0..MaxUpdates
      /\ copied[r] <= updated[r]
  BY TimeTypes DEF Records_of, ExporterInv, TimesKept
<1>2. updated[r] = 0 \/ updated[r] < since[c]
  BY <1>1 DEF Due
<1>3. copied[r] = updated[r] \/ r \in unsaved
  BY <1>1, <1>2 DEF ExporterInv, BeforeSince
<1>4. \A j \in 1..Len(stream[c]) : stream[c][j][1] # r
  <2> SUFFICES ASSUME NEW j \in 1..Len(stream[c]), stream[c][j][1] = r PROVE FALSE
    OBVIOUS
  <2>1. stream[c][j][2] \in 1..MaxUpdates
    BY StreamEntries DEF ExporterInv
  <2>2. since[c] <= stream[c][j][2] /\ stream[c][j][2] <= updated[r]
    BY <1>1 DEF ExporterInv, CollectionInv, EntriesKept
  <2>3. QED
    BY <1>1, <1>2, <2>1, <2>2
<1>5. QED
  BY <1>3, <1>4 DEF Covered

(* What concerns neither the stream nor the records of c leaves it alone.  *)
LEMMA Untouched ==
    ASSUME ExporterTypeOK, NEW c \in Collections, CollectionInv(c),
           \A r \in Records_of(c) : /\ updated'[r] = updated[r] /\ copied'[r] = copied[r]
                                    /\ r \in unsaved => r \in unsaved',
           stream'[c] = stream[c], since'[c] = since[c], page'[c] = page[c],
           c \in reading' => c \in reading, \A e \in read' : e[1] = c => e \in read,
           c \in shifted => c \in shifted'
    PROVE  CollectionInv(c)'
<1>1. /\ Len(stream[c]) \in Nat
      /\ \A j \in 1..Len(stream[c]) : stream[c][j][1] \in Records_of(c)
  BY StreamEntries
<1>2. ASSUME NEW r \in Records_of(c), NEW k, Covered(c, r, k) PROVE Covered(c, r, k)'
  BY <1>2 DEF Covered
<1>3. EntriesKept(c)'
  BY <1>1 DEF CollectionInv, EntriesKept
<1>4. StaleFirst(c)'
  <2>1. \A q \in Records_of(c) : copied'[q] = copied[q]
    OBVIOUS
  <2>2. \A j \in 1..Len(stream[c]) : updated'[stream[c][j][1]] = updated[stream[c][j][1]]
    BY <1>1
  <2>3. QED
    BY <2>1, <2>2 DEF CollectionInv, StaleFirst, Records_of
<1>5. InOrder(c)'
  <2> SUFFICES ASSUME c \notin shifted, NEW j \in 1..Len(stream[c]), NEW r \in Records_of(c),
                      updated[r] < stream[c][j][2]
               PROVE  Covered(c, r, j - 1)'
    BY DEF InOrder, Records_of
  <2>1. Covered(c, r, j - 1)
    BY DEF CollectionInv, InOrder
  <2>2. QED
    BY <1>2, <2>1
<1>6. ASSUME NEW r \in Records_of(c), Covered(c, r, Len(stream[c]))
      PROVE  Covered(c, r, Len(stream[c]))'
  BY <1>6 DEF Covered
<1>7. PagesCovered(c)'
  <2>1. Due(c)' = Due(c) /\ Offset(c)' = Offset(c)
    BY DEF Due, Offset, Records_of
  <2>2. ASSUME NEW r \in Due(c) PROVE Rank(c, r)' = Rank(c, r)
    <3>1. \A q \in Due(c) : updated'[q] = updated[q]
      BY DEF Due
    <3>2. {q \in Due(c) : Precedes(q, r)}' = {q \in Due(c) : Precedes(q, r)}
      BY <2>1, <3>1 DEF Precedes
    <3>3. QED
      BY <3>2 DEF Rank
  <2> SUFFICES ASSUME c \in reading \ shifted, NEW r \in Due(c), Rank(c, r) < Offset(c)
               PROVE  Covered(c, r, Len(stream[c]))'
    BY <2>1, <2>2 DEF PagesCovered
  <2>3. Covered(c, r, Len(stream[c])) /\ r \in Records_of(c)
    BY DEF CollectionInv, PagesCovered, Due
  <2>4. QED
    BY <1>6, <2>3
<1>8. ReadCovered(c)'
  <2> SUFFICES ASSUME c \notin shifted, NEW e \in read, e[1] = c, NEW r \in Records_of(c)
               PROVE  updated[r] > e[2] \/ Covered(c, r, Len(stream[c]))'
    BY DEF ReadCovered, Records_of
  <2>1. updated[r] > e[2] \/ Covered(c, r, Len(stream[c]))
    BY DEF CollectionInv, ReadCovered
  <2>2. QED
    BY <1>6, <2>1
<1>9. QED
  BY <1>3, <1>4, <1>5, <1>7, <1>8 DEF CollectionInv

LEMMA ExporterInitInv == ExporterInit => ExporterInv
<1> SUFFICES ASSUME ExporterInit PROVE ExporterInv
  OBVIOUS
<1> USE DEF ExporterInit, Nothing
<1>1. ExporterTypeOK
  <2>1. ASSUME NEW c \in Collections
        PROVE  stream[c] \in Seq(Records_of(c) \X (1..MaxUpdates)) /\ piped[c] <= Len(stream[c])
    <3>1. stream[c] = <<>> /\ piped[c] = 0
      OBVIOUS
    <3>2. QED
      BY <3>1, EmptySeq
  <2>2. QED
    BY <2>1, ExporterAssumption DEF ExporterTypeOK
<1>2. \A c \in Collections : Len(stream[c]) = 0 /\ 1..Len(stream[c]) = {}
  OBVIOUS
<1>3. TimesKept
  <2>1. \A c \in Collections : Past(since[c])
    BY DEF Collections, Past
  <2>2. QED
    BY <2>1 DEF TimesKept
<1>4. IdleIsEmpty /\ ReadOnce /\ BeforeSince /\ NewestKept
  BY DEF IdleIsEmpty, ReadOnce, BeforeSince, NewestKept
<1>5. ASSUME NEW c \in Collections PROVE CollectionInv(c)
  BY <1>2 DEF CollectionInv, EntriesKept, StaleFirst, InOrder, PagesCovered, ReadCovered
<1>6. QED
  BY <1>1, <1>3, <1>4, <1>5 DEF ExporterInv

-----------------------------------------------------------------------------
(* A new update is later than all there is.                                *)
LEMMA UpdateRecordKeeps == ASSUME ExporterInv, NEW r \in Records, UpdateRecord(r) PROVE ExporterInv'
<1> DEFINE now == Clock + 1
           c == Collection[r]
<1>1. /\ updated' = [updated EXCEPT ![r] = now] /\ Clock < MaxUpdates
      /\ shifted' = shifted \cup {d \in reading : d = Collection[r] /\ page[d] > 1}
      /\ UNCHANGED <<copied, export, since, page, reading, read, stream, piped, accidents, unsaved>>
  BY DEF UpdateRecord, run_state, pipeline
<1>2. ExporterTypeOK /\ TimesKept /\ CollectionInv(c) /\ c \in Collections
  BY DEF ExporterInv, Collections
<1>3. /\ Clock \in 0..MaxUpdates /\ \A q \in Records : updated[q] <= Clock
      /\ \A q \in Records : updated[q] \in 0..MaxUpdates /\ copied[q] \in 0..MaxUpdates
      /\ \A q \in Records : copied[q] <= updated[q]
      /\ MaxUpdates \in Nat
  BY <1>2, ClockIsLatest, TimeTypes DEF TimesKept
<1>4. /\ now \in 1..MaxUpdates
      /\ \A q \in Records : updated[q] < now /\ copied[q] < now
      /\ \A q \in Records : updated'[q] = IF q = r THEN now ELSE updated[q]
  <2>1. updated \in [Records -> 0..MaxUpdates]
    BY <1>2 DEF ExporterTypeOK
  <2>2. QED
    BY <1>1, <1>3, <2>1
<1> HIDE DEF c
<1>5. /\ \A j \in 1..Len(stream[c]) : stream[c][j][2] < now
      /\ \A j \in 1..Len(stream[c]) : stream[c][j][2] \in 1..MaxUpdates /\ stream[c][j][1] \in Records
      /\ \A j \in 1..Len(stream[c]) : stream[c][j][2] <= updated[stream[c][j][1]]
  <2>1. \A j \in 1..Len(stream[c]) : stream[c][j][2] \in 1..MaxUpdates /\ stream[c][j][1] \in Records
    BY <1>2, StreamEntries
  <2>2. \A j \in 1..Len(stream[c]) : stream[c][j][2] <= updated[stream[c][j][1]]
    BY <1>2 DEF CollectionInv, EntriesKept
  <2>3. \A j \in 1..Len(stream[c]) : stream[c][j][2] < now
    BY <1>3, <1>4, <2>1, <2>2
  <2>4. QED
    BY <2>1, <2>2, <2>3
<1> HIDE DEF now
<1>6. ExporterTypeOK'
  <2>1. updated' \in [Records -> 0..MaxUpdates]
    BY <1>1, <1>2, <1>4 DEF ExporterTypeOK
  <2>2. QED
    BY <1>1, <1>2, <2>1 DEF ExporterTypeOK, Records_of
<1>7. IdleIsEmpty' /\ ReadOnce'
  BY <1>1 DEF ExporterInv, IdleIsEmpty, ReadOnce
<1>8. TimesKept'
  <2>1. ASSUME NEW t \in 0..MaxUpdates, Past(t) PROVE Past(t)'
    <3>1. PICK q \in Records : t <= updated[q]
      BY <2>1 DEF Past
    <3>2. t <= updated'[q]
      BY <1>3, <1>4, <3>1
    <3>3. QED
      BY <3>2 DEF Past
  <2>2. \A d \in Collections : Past(since[d])'
    <3> SUFFICES ASSUME NEW d \in Collections PROVE Past(since[d])'
      OBVIOUS
    <3>1. since[d] \in 0..MaxUpdates /\ Past(since[d])
      BY <1>2, TimeTypes DEF TimesKept
    <3>2. PICK q \in Records : since[d] <= updated'[q]
      BY <3>1, <2>1 DEF Past
    <3>3. QED
      BY <1>1, <3>2 DEF Past
  <2>3. \A e \in read' : Past(e[2])'
    <3> SUFFICES ASSUME NEW e \in read PROVE Past(e[2])'
      BY <1>1
    <3>1. e[2] \in 0..MaxUpdates /\ Past(e[2])
      BY <1>2 DEF TimesKept, ExporterTypeOK
    <3>2. QED
      BY <3>1, <2>1
  <2>4. \A q \in Records : copied[q] <= updated'[q]
    BY <1>3, <1>4
  <2>5. \A q, s \in Records : updated'[q] = updated'[s] /\ updated'[s] > 0 => q = s
    BY <1>2, <1>3, <1>4 DEF TimesKept
  <2>6. (\A d \in Collections : Past(since[d]))'
    BY <2>2
  <2>7. QED
    BY <1>1, <2>3, <2>4, <2>5, <2>6 DEF TimesKept
<1>9. EntriesKept(c)'
  <2>1. \A j \in 1..Len(stream[c]) : stream[c][j][2] <= updated'[stream[c][j][1]]
    BY <1>3, <1>4, <1>5
  <2>2. QED
    BY <1>1, <1>2, <2>1 DEF CollectionInv, EntriesKept
<1>10. StaleFirst(c)'
  <2> SUFFICES ASSUME NEW j \in 1..Len(stream[c]), stream[c][j][2] < updated'[stream[c][j][1]]
               PROVE  /\ \A q \in Records_of(c) : copied[q] < updated'[stream[c][j][1]]
                      /\ \A k \in 1..j : stream[c][k][2] < updated'[stream[c][j][1]]
    BY <1>1 DEF StaleFirst, Records_of
  <2>1. CASE stream[c][j][1] = r
    <3>1. updated'[stream[c][j][1]] = now
      BY <1>4, <2>1
    <3>2. \A k \in 1..j : k \in 1..Len(stream[c])
      OBVIOUS
    <3>3. QED
      BY <1>4, <1>5, <3>1, <3>2 DEF Records_of
  <2>2. CASE stream[c][j][1] # r
    <3>1. updated'[stream[c][j][1]] = updated[stream[c][j][1]]
      BY <1>4, <1>5, <2>2
    <3>2. QED
      BY <1>2, <3>1 DEF CollectionInv, StaleFirst
  <2>3. QED
    BY <2>1, <2>2
<1>11. ASSUME NEW q \in Records, q # r, NEW k, Covered(c, q, k) PROVE Covered(c, q, k)'
  <2>1. updated'[q] = updated[q]
    BY <1>4, <1>11
  <2>2. QED
    BY <1>1, <1>11, <2>1 DEF Covered
<1>12. InOrder(c)'
  <2> SUFFICES ASSUME c \notin shifted', NEW j \in 1..Len(stream[c]),
                      NEW q \in Records_of(c), updated'[q] < stream[c][j][2]
               PROVE  Covered(c, q, j - 1)'
    BY <1>1 DEF InOrder, Records_of
  <2>1. q \in Records
    BY DEF Records_of
  <2>2. q # r
    <3> SUFFICES ASSUME q = r PROVE FALSE
      OBVIOUS
    <3>1. now < stream[c][j][2] /\ stream[c][j][2] < now /\ stream[c][j][2] \in 1..MaxUpdates
      BY <1>4, <1>5, <2>1
    <3>2. QED
      BY <1>4, <3>1
  <2>3. updated[q] < stream[c][j][2]
    BY <1>4, <2>1, <2>2
  <2>4. Covered(c, q, j - 1)
    BY <1>1, <1>2, <2>3 DEF CollectionInv, InOrder
  <2>5. QED
    BY <1>11, <2>1, <2>2, <2>4
<1>13. BeforeSince'
  <2> SUFFICES ASSUME export = "running", NEW q \in Records, Collection[q] \notin shifted',
                      updated'[q] < since[Collection[q]]
               PROVE  copied[q] = updated'[q] \/ q \in unsaved
    BY <1>1 DEF BeforeSince
  <2>1. q # r
    <3> SUFFICES ASSUME q = r PROVE FALSE
      OBVIOUS
    <3>1. Collection[q] \in Collections
      BY DEF Collections
    <3>2. PICK s \in Records : since[Collection[q]] <= updated[s]
      BY <1>2, <3>1 DEF TimesKept, Past
    <3>3. since[Collection[q]] \in 0..MaxUpdates
      BY <1>2, <3>1, TimeTypes
    <3>4. QED
      BY <1>3, <1>4, <3>2, <3>3
  <2>2. updated'[q] = updated[q]
    BY <1>4, <2>1
  <2>3. QED
    BY <1>1, <2>2 DEF ExporterInv, BeforeSince
<1>14. PagesCovered(c)'
  <2> SUFFICES ASSUME c \in reading \ shifted', NEW q \in Due(c)', (Rank(c, q) < Offset(c))'
               PROVE  FALSE
    BY <1>1 DEF PagesCovered
  <2>1. ~(page[c] > 1) /\ page[c] \in Nat
    BY <1>1, <1>2, TimeTypes DEF c
  <2>2. Offset(c)' = 0
    <3>1. page'[c] = 0 \/ page'[c] = 1
      BY <1>1, <2>1
    <3>2. QED
      BY <3>1, ExporterAssumption DEF Offset
  <2>3. Rank(c, q)' \in Nat
    <3>1. {x \in Due(c) : Precedes(x, q)}' \in SUBSET Records
      BY DEF Due, Records_of
    <3>2. QED
      BY <3>1, ExporterAssumption, FS_Subset, FS_CardinalityType DEF Rank
  <2>4. QED
    BY <2>2, <2>3
<1>15. ReadCovered(c)'
  <2> SUFFICES ASSUME c \notin shifted', NEW e \in read, e[1] = c, NEW q \in Records_of(c)
               PROVE  updated'[q] > e[2] \/ Covered(c, q, Len(stream[c]))'
    BY <1>1 DEF ReadCovered, Records_of
  <2>1. q \in Records /\ e[2] \in 0..MaxUpdates
    BY <1>2 DEF Records_of, ExporterTypeOK
  <2>2. CASE q = r
    <3>1. PICK s \in Records : e[2] <= updated[s]
      BY <1>2 DEF TimesKept, Past
    <3>2. QED
      BY <1>3, <1>4, <2>1, <2>2, <3>1
  <2>3. CASE q # r
    <3>1. updated[q] > e[2] \/ Covered(c, q, Len(stream[c]))
      BY <1>1, <1>2 DEF CollectionInv, ReadCovered
    <3>2. updated'[q] = updated[q]
      BY <1>4, <2>1, <2>3
    <3>3. QED
      BY <1>1, <3>1, <3>2 DEF Covered
  <2>4. QED
    BY <2>2, <2>3
<1>16. ASSUME NEW d \in Collections PROVE CollectionInv(d)'
  <2>1. CASE d = c
    BY <1>9, <1>10, <1>12, <1>14, <1>15, <2>1 DEF CollectionInv
  <2>2. CASE d # c
    <3>1. \A s \in Records_of(d) : updated'[s] = updated[s] /\ copied'[s] = copied[s]
      BY <1>1, <1>4, <2>2 DEF Records_of, c
    <3>2. CollectionInv(d)
      BY DEF ExporterInv
    <3>3. QED
      BY <1>1, <1>2, <3>1, <3>2, Untouched
  <2>3. QED
    BY <2>1, <2>2
<1>17. NewestKept'
  <2> SUFFICES ASSUME NEW q \in Records
               PROVE  \/ Collection[q] \in shifted' \/ q \in unsaved \/ copied[q] = updated'[q]
                      \/ \A s \in Records_of(Collection[q]) : copied[s] <= updated'[q]
    BY <1>1 DEF NewestKept
  <2>1. CASE q = r
    <3>1. updated'[q] = now /\ \A s \in Records_of(Collection[q]) : s \in Records
      BY <1>4, <2>1 DEF Records_of
    <3>2. QED
      BY <1>3, <1>4, <3>1
  <2>2. CASE q # r
    <3>1. updated'[q] = updated[q]
      BY <1>4, <2>2
    <3>2. QED
      BY <1>1, <3>1 DEF ExporterInv, NewestKept
  <2>3. QED
    BY <2>1, <2>2
<1>18. QED
  BY <1>6, <1>7, <1>8, <1>13, <1>16, <1>17 DEF ExporterInv

-----------------------------------------------------------------------------
LEMMA StartExportKeeps ==
    ASSUME ExporterInv, NEW truncate \in BOOLEAN, StartExport(truncate)
    PROVE  ExporterInv'
<1>1. /\ export = "idle" /\ export' = "running"
      /\ copied' = IF truncate THEN [r \in Records |-> 0] ELSE copied
      /\ since' = [c \in Collections |-> Max(Times(copied', c))]
      /\ page' = [c \in Collections |-> 0]
      /\ reading' = Collections
      /\ read' = {}
      /\ shifted' = IF truncate THEN {} ELSE shifted
      /\ unsaved' = IF truncate THEN {} ELSE unsaved
      /\ UNCHANGED <<updated, stream, piped, accidents>>
  BY DEF StartExport, pipeline
<1>2. ExporterTypeOK /\ TimesKept /\ NewestKept /\ \A c \in Collections : stream[c] = <<>>
  BY <1>1 DEF ExporterInv, IdleIsEmpty
<1>3. copied' \in [Records -> 0..MaxUpdates] /\ updated \in [Records -> 0..MaxUpdates]
  BY <1>1, <1>2, ExporterAssumption DEF ExporterTypeOK
<1>4. /\ \A r \in Records : copied'[r] \in 0..MaxUpdates /\ updated[r] \in 0..MaxUpdates
      /\ \A r \in Records : copied'[r] <= updated[r]
  BY <1>1, <1>2, <1>3 DEF TimesKept
<1>5. \A c \in Collections : /\ since'[c] \in 0..MaxUpdates
                             /\ \E q \in Records_of(c) : since'[c] = copied'[q]
  BY <1>1, <1>3, MaxOfTimes
<1>6. ExporterTypeOK'
  <2>1. since' \in [Collections -> 0..MaxUpdates] /\ page' \in [Collections -> Nat]
    BY <1>1, <1>5
  <2>2. QED
    BY <1>1, <1>2, <1>3, <2>1 DEF ExporterTypeOK, Records_of
<1>7. IdleIsEmpty' /\ ReadOnce'
  BY <1>1 DEF IdleIsEmpty, ReadOnce
<1>8. TimesKept'
  <2>1. \A c \in Collections : \E q \in Records : since'[c] <= updated[q]
    BY <1>4, <1>5 DEF Records_of
  <2>2. (\A c \in Collections : Past(since[c]))'
    BY <1>1, <2>1 DEF Past
  <2>3. QED
    BY <1>1, <1>2, <1>4, <2>2 DEF TimesKept
<1>9. NewestKept'
  <2>1. CASE truncate
    BY <1>1, <1>4, <2>1 DEF NewestKept, Records_of
  <2>2. CASE ~truncate
    BY <1>1, <1>2, <2>2 DEF NewestKept
  <2>3. QED
    BY <2>1, <2>2
<1>10. BeforeSince'
  <2> SUFFICES ASSUME NEW r \in Records, Collection[r] \notin shifted',
                      updated[r] < since'[Collection[r]]
               PROVE  copied'[r] = updated[r] \/ r \in unsaved'
    BY <1>1 DEF BeforeSince
  <2>1. Collection[r] \in Collections
    BY DEF Collections
  <2>2. PICK q \in Records_of(Collection[r]) : since'[Collection[r]] = copied'[q]
    BY <1>5, <2>1
  <2>3. ~(copied'[q] <= updated[r])
    BY <1>4, <2>2 DEF Records_of
  <2>4. QED
    BY <1>1, <1>9, <2>3 DEF NewestKept
<1>11. ASSUME NEW c \in Collections PROVE CollectionInv(c)'
  <2>1. 1..Len(stream'[c]) = {}
    BY <1>1, <1>2
  <2>2. EntriesKept(c)' /\ StaleFirst(c)' /\ InOrder(c)' /\ ReadCovered(c)'
    BY <1>1, <2>1 DEF EntriesKept, StaleFirst, InOrder, ReadCovered
  <2>3. PagesCovered(c)'
    <3> SUFFICES ASSUME NEW r, (Rank(c, r) < Offset(c))' PROVE FALSE
      BY <1>1 DEF PagesCovered
    <3>1. Offset(c)' = 0
      BY <1>1, ExporterAssumption DEF Offset
    <3>2. Rank(c, r)' \in Nat
      <4>1. {q \in Due(c) : Precedes(q, r)}' \in SUBSET Records
        BY DEF Due, Records_of
      <4>2. QED
        BY <4>1, ExporterAssumption, FS_Subset, FS_CardinalityType DEF Rank
    <3>3. QED
      BY <3>1, <3>2
  <2>4. QED
    BY <2>2, <2>3 DEF CollectionInv
<1>12. QED
  BY <1>6, <1>7, <1>8, <1>9, <1>10, <1>11 DEF ExporterInv

(* The process exits, whatever it was doing.                               *)
LEMMA ExitsKeeps ==
    ASSUME ExporterInv, Exits, accidents' \in 0..MaxMishaps,
           UNCHANGED <<updated, copied, unsaved, shifted>>
    PROVE  ExporterInv'
<1>1. /\ export' = "idle" /\ reading' = {} /\ read' = {}
      /\ stream' = [c \in Collections |-> <<>>] /\ piped' = [c \in Collections |-> 0]
      /\ since' = [c \in Collections |-> 0] /\ page' = [c \in Collections |-> 0]
  BY DEF Exits
<1>2. \A c \in Collections :
        stream'[c] = <<>> /\ piped'[c] = 0 /\ Len(stream'[c]) = 0 /\ 1..Len(stream'[c]) = {}
  BY <1>1
<1>3. ExporterTypeOK'
  <2>1. ASSUME NEW c \in Collections
        PROVE  stream'[c] \in Seq(Records_of(c) \X (1..MaxUpdates)) /\ piped'[c] <= Len(stream'[c])
    <3>1. stream'[c] = <<>> /\ piped'[c] = 0 /\ Len(stream'[c]) = 0
      BY <1>2
    <3>2. <<>> \in Seq(Records_of(c) \X (1..MaxUpdates))
      BY EmptySeq
    <3>3. QED
      BY <3>1, <3>2
  <2>2. /\ since' \in [Collections -> 0..MaxUpdates] /\ page' \in [Collections -> Nat]
        /\ piped' \in [Collections -> Nat] /\ DOMAIN stream' = Collections
    BY <1>1, ExporterAssumption
  <2>3. QED
    BY <1>1, <2>1, <2>2 DEF ExporterInv, ExporterTypeOK, Records_of
<1>4. TimesKept'
  <2>1. \A c \in Collections : \E q \in Records : since'[c] <= updated[q]
    <3>1. \A c \in Collections : \E q \in Records : updated[q] \in 0..MaxUpdates
      BY TimeTypes DEF ExporterInv, Collections
    <3>2. QED
      BY <1>1, <3>1
  <2>2. (\A c \in Collections : Past(since[c]))'
    BY <2>1 DEF Past
  <2>3. QED
    BY <1>1, <2>2 DEF ExporterInv, TimesKept
<1>5. IdleIsEmpty' /\ ReadOnce' /\ BeforeSince'
  BY <1>1, <1>2 DEF IdleIsEmpty, ReadOnce, BeforeSince
<1>6. ASSUME NEW c \in Collections PROVE CollectionInv(c)'
  BY <1>1, <1>2 DEF CollectionInv, EntriesKept, StaleFirst, InOrder, PagesCovered, ReadCovered
<1>7. NewestKept'
  BY DEF ExporterInv, NewestKept
<1>8. QED
  BY <1>3, <1>4, <1>5, <1>6, <1>7 DEF ExporterInv

(* What the failed stream of c had in its buffer is gone from its end.     *)
LEMMA ReadFailsKeeps ==
    ASSUME ExporterInv, NEW c \in Collections, ReadFails(c)
    PROVE  ExporterInv'
<1> DEFINE s == SubSeq(stream[c], 1, piped[c])
<1>1. /\ accidents' \in 0..MaxMishaps /\ reading' = reading \ {c} /\ export = "running"
      /\ c \in reading /\ stream' = [stream EXCEPT ![c] = SubSeq(stream[c], 1, piped[c])]
      /\ UNCHANGED <<updated, copied, export, since, page, read, piped, unsaved, shifted>>
  <2>1. accidents \in 0..MaxMishaps /\ MaxMishaps \in Nat
    BY ExporterAssumption DEF ExporterInv, ExporterTypeOK
  <2>2. QED
    BY <2>1 DEF ReadFails, Accident, MayRead
<1>2. ExporterTypeOK /\ CollectionInv(c)
  BY DEF ExporterInv
<1>3. /\ s \in Seq(Records_of(c) \X (1..MaxUpdates)) /\ Len(s) = piped[c]
      /\ piped[c] \in 0..Len(stream[c]) /\ Len(stream[c]) \in Nat
      /\ \A j \in 1..Len(s) : s[j] = stream[c][j] /\ j \in 1..Len(stream[c])
      /\ \A j \in 1..Len(s) : stream[c][j][1] \in Records
  <2>1. /\ stream[c] \in Seq(Records_of(c) \X (1..MaxUpdates))
        /\ Len(stream[c]) \in Nat /\ piped[c] \in 0..Len(stream[c])
        /\ \A j \in 1..Len(stream[c]) : stream[c][j][1] \in Records
    BY <1>2, StreamEntries
  <2>2. \A i \in 1..piped[c] : stream[c][i] \in Records_of(c) \X (1..MaxUpdates)
    <3>1. \A i \in 1..piped[c] : i \in 1..Len(stream[c])
      BY <2>1
    <3>2. QED
      BY <2>1, <3>1, ElementOfSeq
  <2>3. s = [i \in 1..piped[c] |-> stream[c][i]]
    BY <2>1
  <2>4. /\ s \in Seq(Records_of(c) \X (1..MaxUpdates)) /\ Len(s) = piped[c]
        /\ \A i \in 1..piped[c] : s[i] = stream[c][i]
    <3> HIDE DEF s
    <3>1. piped[c] \in Nat
      BY <2>1
    <3> DEFINE D == Records_of(c) \X (1..MaxUpdates)
    <3>2. \A i \in 1..piped[c] : stream[c][i] \in D
      BY <2>2
    <3> HIDE DEF D
    <3>3. s \in Seq(D) /\ Len(s) = piped[c]
      BY <2>3, <3>1, <3>2
    <3>4. QED
      BY <2>3, <3>3 DEF D
  <2> HIDE DEF s
  <2>5. QED
    BY <2>1, <2>4
<1> HIDE DEF s
<1>4. stream' = [stream EXCEPT ![c] = s]
  BY <1>1 DEF s
<1>5. /\ piped' \in [Collections -> Nat] /\ piped'[c] <= Len(s)
      /\ \A d \in Collections \ {c} : piped'[d] = piped[d]
  BY <1>1, <1>2, <1>3 DEF ExporterTypeOK
<1>6. /\ stream'[c] = s /\ \A d \in Collections \ {c} : stream'[d] = stream[d]
      /\ DOMAIN stream' = Collections
      /\ \A d \in Collections : stream'[d] \in Seq(Records_of(d) \X (1..MaxUpdates))
      /\ \A d \in Collections : piped'[d] <= Len(stream'[d])
  BY <1>2, <1>3, <1>4, <1>5, OneStream
<1>7. ExporterTypeOK'
  BY <1>1, <1>2, <1>5, <1>6 DEF ExporterTypeOK, Records_of
<1>8. IdleIsEmpty' /\ ReadOnce' /\ TimesKept' /\ BeforeSince' /\ NewestKept'
  BY <1>1 DEF ExporterInv, IdleIsEmpty, ReadOnce, TimesKept, Past, BeforeSince, NewestKept
<1>9. EntriesKept(c)' /\ StaleFirst(c)'
  <2>1. EntriesKept(c)'
    BY <1>1, <1>2, <1>3, <1>6 DEF CollectionInv, EntriesKept
  <2>2. ASSUME NEW j \in 1..Len(s), s[j][2] < updated[s[j][1]]
        PROVE  /\ \A q \in Records_of(c) : copied[q] < updated[s[j][1]]
               /\ \A k \in 1..j : s[k][2] < updated[s[j][1]]
    <3>1. s[j] = stream[c][j] /\ j \in 1..Len(stream[c])
      BY <1>3
    <3>2. \A k \in 1..j : s[k] = stream[c][k]
      BY <1>3
    <3>3. QED
      BY <1>2, <2>2, <3>1, <3>2 DEF CollectionInv, StaleFirst
  <2>3. QED
    BY <1>1, <1>6, <2>1, <2>2 DEF StaleFirst, Records_of
<1>10. InOrder(c)'
  <2> SUFFICES ASSUME c \notin shifted, NEW j \in 1..Len(s), NEW r \in Records_of(c),
                      updated[r] < s[j][2]
               PROVE  Covered(c, r, j - 1)'
    BY <1>1, <1>6 DEF InOrder, Records_of
  <2>1. s[j] = stream[c][j] /\ j \in 1..Len(stream[c])
    BY <1>3
  <2>2. Covered(c, r, j - 1)
    BY <1>2, <2>1 DEF CollectionInv, InOrder
  <2>3. \A i \in 1..j - 1 : s[i] = stream[c][i]
    BY <1>3
  <2>4. \A i \in 1..Len(s) : s[i] = stream[c][i] /\ i \in 1..Len(stream[c])
    BY <1>3
  <2>5. CASE \E i \in 1..j - 1 : stream[c][i] = <<r, updated[r]>>
    <3>1. \E i \in 1..j - 1 : s[i] = <<r, updated[r]>>
      BY <2>3, <2>5
    <3>2. (\E i \in 1..j - 1 : stream[c][i] = <<r, updated[r]>>)'
      BY <1>1, <1>6, <3>1
    <3>3. QED
      BY <3>2 DEF Covered
  <2>6. CASE /\ copied[r] = updated[r] \/ r \in unsaved
             /\ \A i \in 1..Len(stream[c]) : stream[c][i][1] = r => stream[c][i][2] = updated[r]
    <3>1. \A i \in 1..Len(s) : s[i][1] = r => s[i][2] = updated[r]
      BY <2>4, <2>6
    <3>2. (\A i \in 1..Len(stream[c]) : stream[c][i][1] = r => stream[c][i][2] = updated[r])'
      BY <1>1, <1>6, <3>1
    <3>3. (copied[r] = updated[r] \/ r \in unsaved)'
      BY <1>1, <2>6
    <3>4. QED
      BY <3>2, <3>3 DEF Covered
  <2>7. QED
    BY <2>2, <2>5, <2>6 DEF Covered
<1>11. PagesCovered(c)' /\ ReadCovered(c)'
  BY <1>1 DEF ExporterInv, ReadOnce, PagesCovered, ReadCovered
<1>12. ASSUME NEW d \in Collections PROVE CollectionInv(d)'
  <2>1. CASE d = c
    BY <1>9, <1>10, <1>11, <2>1 DEF CollectionInv
  <2>2. CASE d # c
    <3>1. CollectionInv(d) /\ stream'[d] = stream[d]
      BY <1>6, <2>2 DEF ExporterInv
    <3>2. QED
      BY <1>1, <1>2, <3>1, Untouched
  <2>3. QED
    BY <2>1, <2>2
<1>13. QED
  BY <1>7, <1>8, <1>12 DEF ExporterInv

LEMMA ReadEndKeeps ==
    ASSUME ExporterInv, NEW c \in Collections, ReadEnd(c)
    PROVE  ExporterInv'
<1>1. /\ export = "running" /\ PageOf(c) = {} /\ c \in reading
      /\ reading' = reading \ {c} /\ read' = read \cup {<<c, Clock>>}
      /\ UNCHANGED <<updated, copied, export, since, page, stream, piped, accidents, unsaved,
                     shifted>>
  BY DEF ReadEnd, MayRead, pipeline
<1>2. ExporterTypeOK /\ TimesKept /\ CollectionInv(c)
  BY DEF ExporterInv
<1>3. PICK s \in Records : Collection[s] = c
  BY DEF Collections
<1>4. Clock \in 0..MaxUpdates /\ \E r \in Records : updated[r] = Clock
  BY <1>2, ClockIsLatest
<1>5. ExporterTypeOK'
  <2>1. read' \subseteq Collections \X (0..MaxUpdates)
    BY <1>1, <1>2, <1>4 DEF ExporterTypeOK
  <2>2. reading' \subseteq Collections
    BY <1>1, <1>2 DEF ExporterTypeOK
  <2>3. QED
    BY <1>1, <1>2, <2>1, <2>2 DEF ExporterTypeOK, Records_of
<1>6. TimesKept'
  <2>1. Past(Clock)
    BY <1>4 DEF Past
  <2>2. \A e \in read' : Past(e[2])
    BY <1>1, <1>2, <2>1 DEF TimesKept
  <2>3. QED
    BY <1>1, <1>2, <2>2 DEF TimesKept, Past
<1>7. IdleIsEmpty' /\ BeforeSince' /\ NewestKept'
  BY <1>1 DEF ExporterInv, IdleIsEmpty, BeforeSince, NewestKept
<1>8. ReadOnce'
  <2>1. \A e \in read' : e[1] \notin reading \/ e[1] = c
    BY <1>1 DEF ExporterInv, ReadOnce
  <2>2. QED
    BY <1>1, <2>1 DEF ReadOnce
<1>9. ASSUME c \notin shifted, NEW r \in Records_of(c) PROVE Covered(c, r, Len(stream[c]))
  <2>1. CASE r \in Due(c)
    <3>1. Rank(c, r) < Offset(c)
      BY <1>1, <1>2, <2>1, EmptyPageIsLast
    <3>2. QED
      BY <1>1, <1>2, <1>9, <2>1, <3>1 DEF CollectionInv, PagesCovered
  <2>2. CASE r \notin Due(c)
    BY <1>1, <1>9, <2>2, NotDueIsCovered
  <2>3. QED
    BY <2>1, <2>2
<1>10. ReadCovered(c)'
  <2> SUFFICES ASSUME c \notin shifted, NEW e \in read', NEW r \in Records_of(c)
               PROVE  Covered(c, r, Len(stream[c]))'
    BY <1>1 DEF ReadCovered, Records_of
  <2>1. Covered(c, r, Len(stream[c]))
    BY <1>9
  <2>2. QED
    BY <1>1, <2>1 DEF Covered
<1>11. InOrder(c)'
  <2>1. \A r, k : Covered(c, r, k)' = Covered(c, r, k)
    BY <1>1 DEF Covered
  <2>2. QED
    BY <1>1, <1>2, <2>1 DEF CollectionInv, InOrder, Records_of
<1>12. EntriesKept(c)' /\ StaleFirst(c)' /\ PagesCovered(c)'
  BY <1>1, <1>2 DEF CollectionInv, EntriesKept, StaleFirst, PagesCovered, Records_of
<1>13. ASSUME NEW d \in Collections PROVE CollectionInv(d)'
  <2>1. CASE d = c
    BY <1>10, <1>11, <1>12, <2>1 DEF CollectionInv
  <2>2. CASE d # c
    <3>1. CollectionInv(d) /\ \A e \in read' : e[1] = d => e \in read
      BY <1>1, <2>2 DEF ExporterInv
    <3>2. QED
      BY <1>1, <1>2, <3>1, Untouched
  <2>3. QED
    BY <2>1, <2>2
<1>14. QED
  BY <1>5, <1>6, <1>7, <1>8, <1>13 DEF ExporterInv

(* Where a record waits is of no account.                                  *)
LEMMA PipedKeeps ==
    ASSUME ExporterInv,
           UNCHANGED <<updated, copied, export, since, page, reading, read, stream, accidents,
                       unsaved, shifted>>,
           piped' \in [Collections -> Nat], \A c \in Collections : piped'[c] <= Len(stream[c])
    PROVE  ExporterInv'
<1>1. ExporterTypeOK'
  BY DEF ExporterInv, ExporterTypeOK, Records_of
<1>2. IdleIsEmpty' /\ ReadOnce' /\ TimesKept' /\ BeforeSince' /\ NewestKept'
  BY DEF ExporterInv, IdleIsEmpty, ReadOnce, TimesKept, Past, BeforeSince, NewestKept
<1>3. ASSUME NEW c \in Collections PROVE CollectionInv(c)'
  <2>1. ExporterTypeOK /\ CollectionInv(c)
    BY DEF ExporterInv
  <2>2. QED
    BY <2>1, Untouched
<1>4. QED
  BY <1>1, <1>2, <1>3 DEF ExporterInv

LEMMA PipeKeeps ==
    ASSUME ExporterInv, NEW c \in Collections, Pipe(c)
    PROVE  ExporterInv'
<1>1. /\ piped' = [piped EXCEPT ![c] = @ + 1] /\ piped[c] # Len(stream[c])
      /\ UNCHANGED <<updated, copied, export, since, page, reading, read, stream, accidents,
                     unsaved, shifted>>
  BY DEF Pipe, Drained
<1>2. piped \in [Collections -> Nat] /\ \A d \in Collections : piped[d] \in 0..Len(stream[d])
  BY StreamEntries DEF ExporterInv, ExporterTypeOK
<1>3. Len(stream[c]) \in Nat
  BY StreamEntries DEF ExporterInv
<1>4. piped' \in [Collections -> Nat] /\ \A d \in Collections : piped'[d] <= Len(stream[d])
  BY <1>1, <1>2, <1>3
<1>5. QED
  BY <1>1, <1>4, PipedKeeps

-----------------------------------------------------------------------------
(* A page comes behind what is in the stream.                              *)
LEMMA PageInOrder ==
    ASSUME ExporterInv, NEW c \in Collections, ReadPage(c)
    PROVE  \E rows \in Seq(Records_of(c) \X (1..MaxUpdates)) :
             /\ stream' = [stream EXCEPT ![c] = stream[c] \o rows]
             /\ \A i \in 1..Len(rows) : rows[i] = <<rows[i][1], updated[rows[i][1]]>>
             /\ \A i \in 1..Len(rows) : rows[i][1] \in PageOf(c)
             /\ \A r \in PageOf(c) : \E i \in 1..Len(rows) : rows[i][1] = r
             /\ \A i, j \in 1..Len(rows) : i < j => Precedes(rows[i][1], rows[j][1])
<1> DEFINE S == {<<r, updated[r]>> : r \in PageOf(c)}
           D == Records_of(c) \X (1..MaxUpdates)
<1>1. PICK rows \in SetToSeqs(S) :
        /\ \A i, j \in DOMAIN rows : i < j => Precedes(rows[i][1], rows[j][1])
        /\ stream' = [stream EXCEPT ![c] = stream[c] \o rows]
  BY DEF ReadPage
<1>2. \A r \in PageOf(c) : r \in Records_of(c) /\ updated[r] \in 1..MaxUpdates
  BY DueTimes DEF ExporterInv, PageOf, Due
<1>3. S \subseteq D
  BY <1>2
<1>4. IsFiniteSet(S)
  <2>1. IsFiniteSet(1..MaxUpdates) /\ IsFiniteSet(Records_of(c))
    BY FS_Interval, FS_Subset, ExporterAssumption DEF Records_of
  <2>2. IsFiniteSet(D)
    BY <2>1, FS_Product
  <2>3. QED
    BY <1>3, <2>2, FS_Subset
<1>5. \A s \in S : s[1] \in PageOf(c) /\ s = <<s[1], updated[s[1]]>>
  OBVIOUS
<1>6. \A r \in PageOf(c) : <<r, updated[r]>> \in S
  OBVIOUS
<1> HIDE DEF S, D
<1>7. rows \in Seq(S) /\ \A s \in S : \E i \in 1..Len(rows) : rows[i] = s
  BY <1>1, <1>4, SeqOfSet
<1>8. rows \in Seq(D) /\ DOMAIN rows = 1..Len(rows)
  BY <1>3, <1>7, SeqMonotonic, LenProperties
<1>9. \A i \in 1..Len(rows) : rows[i] \in S
  BY <1>7, ElementOfSeq
<1>10. \A r \in PageOf(c) : \E i \in 1..Len(rows) : rows[i][1] = r
  <2> SUFFICES ASSUME NEW r \in PageOf(c) PROVE \E i \in 1..Len(rows) : rows[i][1] = r
    OBVIOUS
  <2>1. PICK i \in 1..Len(rows) : rows[i] = <<r, updated[r]>>
    BY <1>6, <1>7
  <2>2. rows[i][1] = r
    BY <2>1
  <2>3. QED
    BY <2>2
<1>11. \A i \in 1..Len(rows) : rows[i][1] \in PageOf(c) /\ rows[i] = <<rows[i][1], updated[rows[i][1]]>>
  BY <1>5, <1>9
<1>12. \A i, j \in 1..Len(rows) : i < j => Precedes(rows[i][1], rows[j][1])
  BY <1>1, <1>8
<1>13. QED
  BY <1>1, <1>8, <1>10, <1>11, <1>12 DEF D

LEMMA ReadPageKeeps ==
    ASSUME ExporterInv, NEW c \in Collections, ReadPage(c)
    PROVE  ExporterInv'
<1>1. /\ export = "running" /\ c \in reading
      /\ page' = [page EXCEPT ![c] = @ + 1]
      /\ UNCHANGED <<updated, copied, export, since, reading, read, piped, accidents, unsaved,
                     shifted>>
  BY DEF ReadPage, MayRead
<1>2. PICK rows \in Seq(Records_of(c) \X (1..MaxUpdates)) :
             /\ stream' = [stream EXCEPT ![c] = stream[c] \o rows]
             /\ \A i \in 1..Len(rows) : rows[i] = <<rows[i][1], updated[rows[i][1]]>>
             /\ \A i \in 1..Len(rows) : rows[i][1] \in PageOf(c)
             /\ \A r \in PageOf(c) : \E i \in 1..Len(rows) : rows[i][1] = r
             /\ \A i, j \in 1..Len(rows) : i < j => Precedes(rows[i][1], rows[j][1])
  BY PageInOrder
<1>3. ExporterTypeOK /\ TimesKept /\ CollectionInv(c)
  BY DEF ExporterInv
<1>20. PICK n \in Nat, m \in Nat : n = Len(stream[c]) /\ m = Len(rows)
  BY <1>2, <1>3, StreamEntries, LenProperties
<1> DEFINE s == stream[c] \o rows
<1>4. /\ s \in Seq(Records_of(c) \X (1..MaxUpdates)) /\ Len(s) = n + m
      /\ \A j \in 1..n + m : s[j] = IF j <= n THEN stream[c][j] ELSE rows[j - n]
  <2> DEFINE D == Records_of(c) \X (1..MaxUpdates)
  <2>1. stream[c] \in Seq(D) /\ rows \in Seq(D)
    BY <1>2, <1>3, StreamEntries
  <2> HIDE DEF D
  <2>2. s \in Seq(D) /\ Len(s) = n + m
        /\ \A j \in 1..n + m : s[j] = IF j <= n THEN stream[c][j] ELSE rows[j - n]
    BY <1>20, <2>1, ConcatProperties, LenProperties
  <2>3. QED
    BY <2>2 DEF D
<1>5. stream' = [stream EXCEPT ![c] = s]
  BY <1>2
<1> HIDE DEF s
<1>6. /\ piped' \in [Collections -> Nat] /\ piped'[c] <= Len(s)
      /\ \A d \in Collections \ {c} : piped'[d] = piped[d]
  BY <1>1, <1>3, <1>4, <1>20 DEF ExporterTypeOK
<1>7. /\ stream'[c] = s /\ \A d \in Collections \ {c} : stream'[d] = stream[d]
      /\ DOMAIN stream' = Collections
      /\ \A d \in Collections : stream'[d] \in Seq(Records_of(d) \X (1..MaxUpdates))
      /\ \A d \in Collections : piped'[d] <= Len(stream'[d])
  BY <1>3, <1>4, <1>5, <1>6, OneStream
<1>8. /\ \A j \in 1..n : s[j] = stream[c][j] /\ j \in 1..n + m
      /\ Len(stream'[c]) = n + m
  BY <1>4, <1>7
<1>9. ASSUME NEW j \in 1..n + m, ~(j <= n)
      PROVE  /\ j - n \in 1..m /\ s[j] = rows[j - n]
             /\ s[j][1] \in PageOf(c) /\ s[j][1] \in Due(c) /\ s[j][1] \in Records_of(c)
             /\ s[j][2] = updated[s[j][1]]
  <2>1. j - n \in 1..m /\ s[j] = rows[j - n]
    BY <1>4, <1>9
  <2>2. rows[j - n][1] \in PageOf(c) /\ rows[j - n] = <<rows[j - n][1], updated[rows[j - n][1]]>>
    BY <1>2, <2>1, <1>20
  <2>3. rows[j - n][1] \in Due(c) /\ rows[j - n][1] \in Records_of(c)
    BY <2>2 DEF PageOf, Due
  <2>4. rows[j - n][2] = updated[rows[j - n][1]]
    BY <2>2
  <2>5. QED
    BY <2>1, <2>2, <2>3, <2>4
<1>10. \A r \in PageOf(c) : \E j \in n + 1..n + m : s[j] = <<r, updated[r]>>
  <2> SUFFICES ASSUME NEW r \in PageOf(c)
               PROVE  \E j \in n + 1..n + m : s[j] = <<r, updated[r]>>
    OBVIOUS
  <2>1. PICK i \in 1..m : rows[i][1] = r
    BY <1>2, <1>20
  <2>2. rows[i] = <<r, updated[r]>>
    BY <1>2, <2>1, <1>20
  <2>3. n + i \in n + 1..n + m /\ s[n + i] = rows[n + i - n] /\ n + i - n = i
    BY <1>4
  <2>4. QED
    BY <2>2, <2>3
<1>11. ASSUME NEW r, NEW k \in 0..n, Covered(c, r, k) PROVE Covered(c, r, k)'
  <2>1. CASE \E j \in 1..k : stream[c][j] = <<r, updated[r]>>
    <3>1. PICK j \in 1..k : stream[c][j] = <<r, updated[r]>>
      BY <2>1
    <3>2. j \in 1..n
      BY <1>20
    <3>3. stream'[c][j] = <<r, updated'[r]>>
      BY <1>1, <1>7, <1>8, <3>1, <3>2
    <3>4. (\E i \in 1..k : stream[c][i] = <<r, updated[r]>>)'
      BY <3>3
    <3>5. QED
      BY <3>4 DEF Covered
  <2>2. CASE /\ copied[r] = updated[r] \/ r \in unsaved
             /\ \A j \in 1..n : stream[c][j][1] = r => stream[c][j][2] = updated[r]
    <3>1. ASSUME NEW j \in 1..n + m, s[j][1] = r PROVE s[j][2] = updated[r]
      <4>1. CASE j <= n
        <5>1. j \in 1..n
          BY <4>1
        <5>2. QED
          BY <1>8, <2>2, <3>1, <5>1
      <4>2. CASE ~(j <= n)
        BY <1>9, <3>1, <4>2
      <4>3. QED
        BY <4>1, <4>2
    <3>2. (\A j \in 1..Len(stream[c]) : stream[c][j][1] = r => stream[c][j][2] = updated[r])'
      BY <1>1, <1>7, <1>8, <3>1
    <3>3. (copied[r] = updated[r] \/ r \in unsaved)'
      BY <1>1, <2>2
    <3>4. QED
      BY <3>2, <3>3 DEF Covered
  <2>3. QED
    BY <1>11, <2>1, <2>2, <1>20 DEF Covered
<1>12. ASSUME NEW r, NEW k \in 0..n + m, NEW l \in k..n + m, Covered(c, r, k)'
       PROVE  Covered(c, r, l)'
  <2>1. 1..k \subseteq 1..l
    BY <1>20
  <2>2. (\E j \in 1..k : stream[c][j] = <<r, updated[r]>>)'
            => (\E j \in 1..l : stream[c][j] = <<r, updated[r]>>)'
    BY <2>1
  <2>3. QED
    BY <1>12, <2>2 DEF Covered
<1>13. ExporterTypeOK'
  <2>1. page' \in [Collections -> Nat]
    BY <1>1, <1>3 DEF ExporterTypeOK
  <2>2. QED
    BY <1>1, <1>3, <1>6, <1>7, <2>1 DEF ExporterTypeOK, Records_of
<1>14. IdleIsEmpty' /\ ReadOnce' /\ TimesKept' /\ BeforeSince' /\ NewestKept'
  BY <1>1 DEF ExporterInv, IdleIsEmpty, ReadOnce, TimesKept, Past, BeforeSince, NewestKept
<1>15. EntriesKept(c)'
  <2>1. ASSUME NEW j \in 1..n + m
        PROVE  since[c] <= s[j][2] /\ s[j][2] <= updated[s[j][1]]
    <3>1. CASE j <= n
      <4>1. j \in 1..Len(stream[c]) /\ s[j] = stream[c][j]
        BY <1>4, <1>20, <3>1
      <4>2. since[c] <= stream[c][j][2] /\ stream[c][j][2] <= updated[stream[c][j][1]]
        BY <1>3, <4>1 DEF CollectionInv, EntriesKept
      <4>3. QED
        BY <4>1, <4>2
    <3>2. CASE ~(j <= n)
      <4>1. s[j][1] \in Due(c) /\ s[j][2] = updated[s[j][1]]
        BY <1>9, <3>2
      <4>2. updated[s[j][1]] \in 1..MaxUpdates /\ since[c] \in 0..MaxUpdates
        BY <1>3, <4>1, DueTimes, TimeTypes
      <4>3. since[c] <= updated[s[j][1]]
        BY <4>1, <4>2 DEF Due
      <4>4. QED
        BY <4>1, <4>2, <4>3
    <3>3. QED
      BY <3>1, <3>2
  <2>2. QED
    BY <1>1, <1>7, <1>8, <2>1 DEF EntriesKept
<1>16. StaleFirst(c)'
  <2>1. ASSUME NEW j \in 1..n + m, s[j][2] < updated[s[j][1]]
        PROVE  /\ \A q \in Records_of(c) : copied[q] < updated[s[j][1]]
               /\ \A k \in 1..j : s[k][2] < updated[s[j][1]]
    <3>1. j <= n
      <4> SUFFICES ASSUME ~(j <= n) PROVE FALSE
        OBVIOUS
      <4>1. s[j][2] = updated[s[j][1]] /\ s[j][1] \in Due(c)
        BY <1>9
      <4>2. updated[s[j][1]] \in 1..MaxUpdates
        BY <1>3, <4>1, DueTimes
      <4>3. QED
        BY <2>1, <4>1, <4>2
    <3>2. j \in 1..n /\ \A k \in 1..j : k \in 1..n
      BY <1>4, <3>1
    <3>3. s[j] = stream[c][j] /\ \A k \in 1..j : s[k] = stream[c][k]
      BY <1>8, <3>2
    <3>4. QED
      BY <1>3, <1>20, <2>1, <3>2, <3>3 DEF CollectionInv, StaleFirst
  <2>2. QED
    BY <1>1, <1>7, <1>8, <2>1 DEF StaleFirst, Records_of
<1>17. Due(c)' = Due(c) /\ \A r : Rank(c, r)' = Rank(c, r)
  BY <1>1 DEF Due, Rank, Precedes, Records_of
<1>18. /\ Offset(c) \in Nat /\ PageSize \in Nat \ {0} /\ \A r : Rank(c, r) \in Nat
       /\ Offset(c)' \in {Offset(c), Offset(c) + PageSize}
  <2>1. page[c] \in Nat /\ page'[c] = page[c] + 1
    BY <1>1, <1>3 DEF ExporterTypeOK
  <2>2. CASE page[c] = 0
    <3>1. page'[c] - 1 = 0 /\ 0 * PageSize = 0
      BY <2>1, <2>2, ExporterAssumption
    <3>2. Offset(c) = 0 /\ Offset(c)' = 0
      BY <2>1, <2>2, <3>1, ExporterAssumption DEF Offset
    <3>3. QED
      BY <3>2, RankType, ExporterAssumption
  <2>3. CASE page[c] # 0
    <3>1. page'[c] # 0 /\ page'[c] - 1 = page[c]
      BY <2>1, <2>3
    <3>2. Offset(c)' = page[c] * PageSize /\ Offset(c) = (page[c] - 1) * PageSize
      BY <3>1, <2>3 DEF Offset
    <3>3. page[c] * PageSize = (page[c] - 1) * PageSize + PageSize
      BY <2>1, ExporterAssumption
    <3>4. QED
      BY <1>3, <3>2, <3>3, RankType, OffsetType, ExporterAssumption
  <2>4. QED
    BY <2>2, <2>3
<1>19. ASSUME c \notin shifted, NEW r \in Due(c), Rank(c, r) < Offset(c)
       PROVE  Covered(c, r, n)'
  <2>1. Covered(c, r, n)
    BY <1>1, <1>3, <1>19, <1>20 DEF CollectionInv, PagesCovered
  <2>2. n \in 0..n
    OBVIOUS
  <2>3. QED
    BY <1>11, <2>1, <2>2
<1>21. InOrder(c)'
  <2>1. ASSUME c \notin shifted, NEW j \in 1..n + m, NEW r \in Records_of(c), updated[r] < s[j][2]
        PROVE  Covered(c, r, j - 1)'
    <3>1. CASE j <= n
      <4>1. j \in 1..n /\ s[j] = stream[c][j]
        <5>1. j \in 1..n
          BY <3>1
        <5>2. QED
          BY <1>8, <5>1
      <4>2. Covered(c, r, j - 1)
        BY <1>3, <1>20, <2>1, <4>1 DEF CollectionInv, InOrder
      <4>3. j - 1 \in 0..n
        BY <1>4, <4>1
      <4>4. QED
        BY <1>11, <4>2, <4>3
    <3>2. CASE ~(j <= n)
      <4> DEFINE q == s[j][1]
      <4>1. /\ j - n \in 1..m /\ s[j] = rows[j - n] /\ q \in PageOf(c) /\ q \in Due(c)
            /\ s[j][2] = updated[q]
        BY <1>9, <3>2
      <4>2. updated[r] < updated[q]
        BY <2>1, <4>1
      <4>3. n \in 0..j - 1 /\ n \in 0..n /\ n \in 0..n + m /\ j - 1 \in n..n + m
        BY <1>4, <3>2
      <4>4. CASE r \notin Due(c)
        <5>1. Covered(c, r, n)
          BY <1>1, <2>1, <4>4, NotDueIsCovered
        <5>2. Covered(c, r, n)'
          BY <1>11, <4>3, <5>1
        <5>3. QED
          BY <1>12, <4>3, <5>2
      <4>5. CASE r \in Due(c) /\ Rank(c, r) < Offset(c)
        <5>1. Covered(c, r, n)'
          BY <1>19, <2>1, <4>5
        <5>2. QED
          BY <1>12, <4>3, <5>1
      <4>6. CASE r \in Due(c) /\ ~(Rank(c, r) < Offset(c))
        <5>1. Rank(c, r) <= Rank(c, q)
          BY <1>3, <4>1, <4>2, <4>6, RankIsMonotonic
        <5>2. Rank(c, q) < Offset(c) + PageSize
          BY <4>1 DEF PageOf
        <5>3. Offset(c) <= Rank(c, r) /\ Rank(c, r) < Offset(c) + PageSize
          BY <1>18, <4>6, <5>1, <5>2
        <5>4. r \in PageOf(c)
          BY <4>6, <5>3 DEF PageOf
        <5>5. PICK i \in n + 1..n + m : s[i] = <<r, updated[r]>>
          BY <1>10, <5>4
        <5>6. i \in 1..n + m /\ ~(i <= n) /\ i - n \in 1..m /\ s[i] = rows[i - n]
          <6>1. i \in 1..n + m /\ ~(i <= n)
            BY <1>4
          <6>2. QED
            BY <1>9, <6>1
        <5>7. rows[i - n][1] = r /\ rows[j - n][1] = q
          BY <4>1, <5>5, <5>6
        <5>8. updated[r] \in 1..MaxUpdates /\ updated[q] \in 1..MaxUpdates
          BY <1>3, <4>1, <4>6, DueTimes
        <5>9. ~(j <= i)
          <6> SUFFICES ASSUME j <= i PROVE FALSE
            OBVIOUS
          <6>1. CASE j = i
            BY <4>2, <5>7, <5>8, <6>1
          <6>2. CASE j < i
            <7>1. j - n < i - n
              BY <1>4, <6>2, <5>6
            <7>2. Precedes(rows[j - n][1], rows[i - n][1])
              BY <1>2, <1>20, <4>1, <5>6, <7>1
            <7>3. updated[q] < updated[r]
              BY <5>7, <7>2 DEF Precedes
            <7>4. QED
              BY <4>2, <5>8, <7>3
          <6>3. QED
            BY <1>4, <5>6, <6>1, <6>2
        <5>10. i \in 1..j - 1
          BY <1>4, <5>6, <5>9
        <5>11. (\E k \in 1..j - 1 : stream[c][k] = <<r, updated[r]>>)'
          BY <1>1, <1>7, <5>5, <5>10
        <5>12. QED
          BY <5>11 DEF Covered
      <4>7. QED
        BY <4>4, <4>5, <4>6
    <3>3. QED
      BY <3>1, <3>2
  <2> SUFFICES ASSUME c \notin shifted, NEW j \in 1..n + m, NEW r \in Records_of(c),
                      updated[r] < s[j][2]
               PROVE  Covered(c, r, j - 1)'
    BY <1>1, <1>7, <1>8 DEF InOrder, Records_of
  <2>2. QED
    BY <2>1
<1>22. PagesCovered(c)'
  <2>1. ASSUME c \notin shifted, NEW r \in Due(c), Rank(c, r) < Offset(c)'
        PROVE  Covered(c, r, n + m)'
    <3>1. n \in 0..n + m /\ n + m \in n..n + m
      BY <1>4
    <3>2. CASE Rank(c, r) < Offset(c)
      <4>1. Covered(c, r, n)'
        BY <1>19, <2>1, <3>2
      <4>2. QED
        BY <1>12, <3>1, <4>1
    <3>3. CASE ~(Rank(c, r) < Offset(c))
      <4>1. Offset(c) <= Rank(c, r) /\ Rank(c, r) < Offset(c) + PageSize
        BY <1>18, <2>1, <3>3
      <4>2. r \in PageOf(c)
        BY <4>1 DEF PageOf
      <4>3. PICK j \in n + 1..n + m : s[j] = <<r, updated[r]>>
        BY <1>10, <4>2
      <4>4. j \in 1..n + m
        BY <1>4
      <4>5. (\E k \in 1..n + m : stream[c][k] = <<r, updated[r]>>)'
        BY <1>1, <1>7, <4>3, <4>4
      <4>6. QED
        BY <4>5 DEF Covered
    <3>4. QED
      BY <3>2, <3>3
  <2> SUFFICES ASSUME c \notin shifted, NEW r \in Due(c), Rank(c, r) < Offset(c)'
               PROVE  Covered(c, r, Len(stream[c]))'
    BY <1>1, <1>17 DEF PagesCovered
  <2>2. Covered(c, r, n + m)'
    BY <2>1
  <2>3. QED
    BY <1>8, <2>2 DEF Covered
<1>23. ReadCovered(c)'
  BY <1>1 DEF ExporterInv, ReadOnce, ReadCovered
<1>24. ASSUME NEW d \in Collections PROVE CollectionInv(d)'
  <2>1. CASE d = c
    BY <1>15, <1>16, <1>21, <1>22, <1>23, <2>1 DEF CollectionInv
  <2>2. CASE d # c
    <3>1. CollectionInv(d) /\ stream'[d] = stream[d] /\ page'[d] = page[d]
      BY <1>1, <1>3, <1>7, <2>2 DEF ExporterInv, ExporterTypeOK
    <3>2. QED
      BY <1>1, <1>3, <3>1, Untouched
  <2>3. QED
    BY <2>1, <2>2
<1>25. QED
  BY <1>13, <1>14, <1>24 DEF ExporterInv

-----------------------------------------------------------------------------
(* The oldest entry of the stream of c is saved, or cannot be.             *)
Settled(c) ==
    /\ piped[c] > 0
    /\ stream' = [stream EXCEPT ![c] = Tail(stream[c])]
    /\ piped' = [piped EXCEPT ![c] = @ - 1]
    /\ \/ /\ copied' = [copied EXCEPT ![Head(stream[c])[1]] = Head(stream[c])[2]]
          /\ unsaved' = unsaved \ {Head(stream[c])[1]}
       \/ /\ copied' = copied
          /\ unsaved' = unsaved \cup {Head(stream[c])[1]}
    /\ UNCHANGED <<updated, export, since, page, reading, read, shifted>>

LEMMA SettledFirst ==
    ASSUME ExporterInv, NEW c \in Collections, Settled(c)
    PROVE  /\ 1 \in 1..Len(stream[c]) /\ Head(stream[c]) = stream[c][1]
           /\ Len(stream[c]) \in Nat /\ Len(stream'[c]) = Len(stream[c]) - 1
           /\ \A j \in 1..Len(stream'[c]) :
                stream'[c][j] = stream[c][j + 1] /\ j + 1 \in 1..Len(stream[c])
           /\ \A d \in Collections \ {c} : stream'[d] = stream[d]
           /\ DOMAIN stream' = Collections /\ piped' \in [Collections -> Nat]
           /\ \A d \in Collections : stream'[d] \in Seq(Records_of(d) \X (1..MaxUpdates))
           /\ \A d \in Collections : piped'[d] <= Len(stream'[d])
<1> DEFINE D == Records_of(c) \X (1..MaxUpdates)
           old == stream[c]
           s == Tail(old)
<1>1. /\ ExporterTypeOK /\ stream' = [stream EXCEPT ![c] = s]
      /\ piped' = [piped EXCEPT ![c] = @ - 1] /\ piped[c] > 0
  BY DEF ExporterInv, Settled
<1>2. old \in Seq(D) /\ Len(old) \in Nat /\ piped[c] \in 0..Len(old) /\ piped \in [Collections -> Nat]
  BY <1>1, StreamEntries DEF ExporterTypeOK
<1>3. /\ 1 \in 1..Len(old) /\ Head(old) = old[1]
      /\ s \in Seq(D) /\ Len(s) = Len(old) - 1
      /\ \A j \in 1..Len(s) : s[j] = old[j + 1] /\ j + 1 \in 1..Len(old)
  <2> HIDE DEF D, old
  <2>1. Len(old) > 0
    BY <1>1, <1>2
  <2>2. old # <<>>
    BY <1>2, <2>1
  <2>3. /\ s \in Seq(D) /\ Len(s) = Len(old) - 1
        /\ \A j \in 1..Len(s) : s[j] = old[j + 1]
    BY <1>2, <2>2, HeadTailProperties
  <2>4. Head(old) = old[1]
    BY <1>2, <2>2
  <2> HIDE DEF s
  <2>5. \A j \in 1..Len(s) : j + 1 \in 1..Len(old)
    BY <1>2, <2>3
  <2>6. QED
    BY <1>2, <2>1, <2>3, <2>4, <2>5
<1> HIDE DEF s
<1>4. /\ piped' \in [Collections -> Nat] /\ piped'[c] <= Len(s)
      /\ \A d \in Collections \ {c} : piped'[d] = piped[d]
  <2>1. piped'[c] = piped[c] - 1 /\ piped[c] - 1 \in Nat
    BY <1>1, <1>2
  <2>2. QED
    BY <1>1, <1>2, <1>3, <2>1
<1>5. /\ stream'[c] = s /\ \A d \in Collections \ {c} : stream'[d] = stream[d]
      /\ DOMAIN stream' = Collections
      /\ \A d \in Collections : stream'[d] \in Seq(Records_of(d) \X (1..MaxUpdates))
      /\ \A d \in Collections : piped'[d] <= Len(stream'[d])
  BY <1>1, <1>3, <1>4, OneStream
<1>6. QED
  BY <1>2, <1>3, <1>4, <1>5

LEMMA CoveredWhenSettled ==
    ASSUME ExporterInv, NEW c \in Collections, Settled(c), NEW r \in Records_of(c),
           NEW k \in 1..Len(stream[c]), Covered(c, r, k)
    PROVE  Covered(c, r, k - 1)'
<1> DEFINE h == stream[c][1][1]
           x == stream[c][1][2]
<1>1. /\ 1 \in 1..Len(stream[c]) /\ Len(stream[c]) \in Nat /\ Head(stream[c]) = stream[c][1]
      /\ h \in Records /\ x \in 1..MaxUpdates /\ stream[c][1] = <<h, x>> /\ r \in Records
      /\ Len(stream'[c]) = Len(stream[c]) - 1
      /\ \A j \in 1..Len(stream'[c]) :
           stream'[c][j] = stream[c][j + 1] /\ j + 1 \in 1..Len(stream[c])
  BY SettledFirst, StreamEntries DEF ExporterInv, Records_of
<1>2. /\ copied \in [Records -> 0..MaxUpdates]
      /\ \/ copied' = [copied EXCEPT ![h] = x] /\ unsaved' = unsaved \ {h}
         \/ copied' = copied /\ unsaved' = unsaved \cup {h}
      /\ updated' = updated
  BY <1>1 DEF Settled, ExporterInv, ExporterTypeOK
<1>3. /\ \A q \in Records : updated[q] \in 0..MaxUpdates
      /\ \A j \in 1..Len(stream[c]) :
           stream[c][j][2] \in 1..MaxUpdates /\ stream[c][j][2] <= updated[stream[c][j][1]]
  BY TimeTypes, StreamEntries DEF ExporterInv, CollectionInv, EntriesKept
<1> HIDE DEF h, x
<1>4. ASSUME NEW j \in 1..k, stream[c][j] = <<r, updated[r]>>, j # 1
      PROVE  Covered(c, r, k - 1)'
  <2>1. j - 1 \in 1..k - 1 /\ j - 1 \in 1..Len(stream'[c])
    BY <1>1, <1>4
  <2>2. stream'[c][j - 1] = stream[c][j - 1 + 1] /\ j - 1 + 1 = j
    BY <1>1, <2>1
  <2>3. stream'[c][j - 1] = <<r, updated'[r]>>
    BY <1>2, <1>4, <2>2
  <2>4. (\E i \in 1..k - 1 : stream[c][i] = <<r, updated[r]>>)'
    BY <2>1, <2>3
  <2>5. QED
    BY <2>4 DEF Covered
<1>5. ASSUME \A j \in 1..Len(stream[c]) : stream[c][j][1] = r => stream[c][j][2] = updated[r],
             copied'[r] = updated[r] \/ r \in unsaved'
      PROVE  Covered(c, r, k - 1)'
  <2>1. \A j \in 1..Len(stream'[c]) : stream'[c][j][1] = r => stream'[c][j][2] = updated[r]
    BY <1>1, <1>5
  <2>2. (\A j \in 1..Len(stream[c]) : stream[c][j][1] = r => stream[c][j][2] = updated[r])'
    BY <1>2, <2>1
  <2>3. (copied[r] = updated[r] \/ r \in unsaved)'
    BY <1>2, <1>5
  <2>4. QED
    BY <2>2, <2>3 DEF Covered
<1>6. CASE \E j \in 1..k : stream[c][j] = <<r, updated[r]>> /\ j # 1
  BY <1>4, <1>6
<1>7. CASE stream[c][1] = <<r, updated[r]>>
  <2>1. r = h /\ updated[r] = x
    BY <1>1, <1>7
  <2>2. copied'[r] = updated[r] \/ r \in unsaved'
    BY <1>1, <1>2, <2>1
  <2>3. ASSUME NEW j \in 1..Len(stream[c]), stream[c][j][1] = r PROVE stream[c][j][2] = updated[r]
    <3>1. /\ stream[c][j][2] \in 1..MaxUpdates /\ stream[c][j][2] <= updated[r]
          /\ updated[r] \in 0..MaxUpdates
      BY <1>1, <1>3, <2>1, <2>3
    <3>2. ~(stream[c][j][2] < updated[r])
      <4> SUFFICES ASSUME stream[c][j][2] < updated[r] PROVE FALSE
        OBVIOUS
      <4>1. stream[c][1][1] = r /\ stream[c][1][2] = updated[r]
        BY <1>7
      <4>2. 1 \in 1..j
        OBVIOUS
      <4>3. stream[c][1][2] < updated[r]
        BY <2>3, <4>1, <4>2 DEF ExporterInv, CollectionInv, StaleFirst
      <4>4. QED
        BY <3>1, <4>1, <4>3
    <3>3. QED
      BY <3>1, <3>2
  <2>4. QED
    BY <1>5, <2>2, <2>3
<1>8. CASE /\ copied[r] = updated[r] \/ r \in unsaved
           /\ \A j \in 1..Len(stream[c]) : stream[c][j][1] = r => stream[c][j][2] = updated[r]
  <2>1. CASE r = h
    <3>1. x = updated[r]
      BY <1>1, <1>8, <2>1 DEF h, x
    <3>2. copied'[r] = updated[r] \/ r \in unsaved'
      BY <1>1, <1>2, <2>1, <3>1
    <3>3. QED
      BY <1>5, <1>8, <3>2
  <2>2. CASE r # h
    <3>1. copied'[r] = copied[r] /\ (r \in unsaved => r \in unsaved')
      BY <1>1, <1>2, <2>2
    <3>2. QED
      BY <1>5, <1>8, <3>1
  <2>3. QED
    BY <2>1, <2>2
<1>9. QED
  BY <1>6, <1>7, <1>8 DEF Covered

(* What is saved is newer than what is not covered yet, but for stale      *)
(* entries, which come first.                                              *)
LEMMA SettledKeeps ==
    ASSUME ExporterInv, NEW c \in Collections, Settled(c), accidents' \in 0..MaxMishaps
    PROVE  ExporterInv'
<1> DEFINE h == stream[c][1][1]
           x == stream[c][1][2]
<1>1. /\ 1 \in 1..Len(stream[c]) /\ Len(stream[c]) \in Nat /\ Head(stream[c]) = stream[c][1]
      /\ h \in Records /\ Collection[h] = c /\ x \in 1..MaxUpdates /\ stream[c][1] = <<h, x>>
      /\ Len(stream'[c]) = Len(stream[c]) - 1
      /\ \A j \in 1..Len(stream'[c]) :
           stream'[c][j] = stream[c][j + 1] /\ j + 1 \in 1..Len(stream[c])
      /\ \A j \in 1..Len(stream[c]) : stream[c][j][1] \in Records
  BY SettledFirst, StreamEntries DEF ExporterInv, Records_of
<1>2. /\ copied \in [Records -> 0..MaxUpdates]
      /\ \/ copied' = [copied EXCEPT ![h] = x] /\ unsaved' = unsaved \ {h}
         \/ copied' = copied /\ unsaved' = unsaved \cup {h}
      /\ UNCHANGED <<updated, export, since, page, reading, read, shifted>>
  BY <1>1 DEF Settled, ExporterInv, ExporterTypeOK
<1>3. /\ \A q \in Records : updated[q] \in 0..MaxUpdates /\ copied[q] \in 0..MaxUpdates
      /\ \A q \in Records : copied[q] <= updated[q]
      /\ since[c] <= x /\ x <= updated[h] /\ since[c] \in 0..MaxUpdates
  BY <1>1, TimeTypes DEF ExporterInv, TimesKept, CollectionInv, EntriesKept
<1>4. export = "running"
  <2>1. stream[c] # <<>> /\ export \in {"idle", "running"}
    BY <1>1 DEF ExporterInv, ExporterTypeOK
  <2>2. QED
    BY <2>1 DEF ExporterInv, IdleIsEmpty
<1>5. \A q \in Records : copied'[q] = copied[q] \/ (q = h /\ copied'[q] = x)
  BY <1>2
<1>6. CollectionInv(c) /\ ExporterTypeOK
  BY DEF ExporterInv
<1> HIDE DEF h, x
<1>7. ExporterTypeOK'
  <2>1. copied' \in [Records -> 0..MaxUpdates]
    <3>1. x \in 0..MaxUpdates
      BY <1>1
    <3>2. QED
      BY <1>2, <3>1
  <2>2. unsaved' \subseteq Records
    BY <1>1, <1>2 DEF ExporterInv, ExporterTypeOK
  <2>3. /\ DOMAIN stream' = Collections /\ piped' \in [Collections -> Nat]
        /\ \A d \in Collections : stream'[d] \in Seq(Records_of(d) \X (1..MaxUpdates))
        /\ \A d \in Collections : piped'[d] <= Len(stream'[d])
    BY SettledFirst
  <2>4. QED
    BY <1>2, <1>6, <2>1, <2>2, <2>3 DEF ExporterTypeOK, Records_of
<1>8. IdleIsEmpty' /\ ReadOnce'
  BY <1>2, <1>4 DEF ExporterInv, IdleIsEmpty, ReadOnce
<1>9. TimesKept'
  <2>1. \A q \in Records : copied'[q] <= updated[q]
    BY <1>3, <1>5
  <2>2. QED
    BY <1>2, <2>1 DEF ExporterInv, TimesKept, Past
<1>10. EntriesKept(c)'
  BY <1>1, <1>2, <1>6 DEF CollectionInv, EntriesKept
<1>11. ASSUME NEW j \in 1..Len(stream[c]), stream[c][j][2] < updated[stream[c][j][1]]
       PROVE  \A q \in Records_of(c) : copied'[q] < updated[stream[c][j][1]]
  <2> SUFFICES ASSUME NEW q \in Records_of(c)
               PROVE  copied'[q] < updated[stream[c][j][1]]
    OBVIOUS
  <2>1. copied[q] < updated[stream[c][j][1]] /\ q \in Records
    BY <1>6, <1>11 DEF CollectionInv, StaleFirst, Records_of
  <2>2. CASE q = h
    <3>1. 1 \in 1..j
      BY <1>1
    <3>2. x < updated[stream[c][j][1]]
      BY <1>6, <1>11, <3>1 DEF CollectionInv, StaleFirst, x
    <3>3. QED
      BY <1>5, <2>1, <3>2
  <2>3. CASE q # h
    BY <1>5, <2>1, <2>3
  <2>4. QED
    BY <2>2, <2>3
<1>12. StaleFirst(c)'
  <2> SUFFICES ASSUME NEW j \in 1..Len(stream'[c]), stream'[c][j][2] < updated[stream'[c][j][1]]
               PROVE  /\ \A q \in Records_of(c) : copied'[q] < updated[stream'[c][j][1]]
                      /\ \A k \in 1..j : stream'[c][k][2] < updated[stream'[c][j][1]]
    BY <1>2 DEF StaleFirst, Records_of
  <2>1. j + 1 \in 1..Len(stream[c]) /\ stream'[c][j] = stream[c][j + 1]
    BY <1>1
  <2>2. \A q \in Records_of(c) : copied'[q] < updated[stream'[c][j][1]]
    BY <1>11, <2>1
  <2>3. ASSUME NEW k \in 1..j PROVE stream'[c][k][2] < updated[stream'[c][j][1]]
    <3>1. k \in 1..Len(stream'[c]) /\ k + 1 \in 1..j + 1
      BY <1>1
    <3>2. stream'[c][k] = stream[c][k + 1]
      BY <1>1, <3>1
    <3>3. stream[c][k + 1][2] < updated[stream[c][j + 1][1]]
      BY <1>6, <2>1, <3>1 DEF CollectionInv, StaleFirst
    <3>4. QED
      BY <2>1, <3>2, <3>3
  <2>4. QED
    BY <2>2, <2>3
<1>13. InOrder(c)'
  <2> SUFFICES ASSUME c \notin shifted, NEW j \in 1..Len(stream'[c]), NEW r \in Records_of(c),
                      updated[r] < stream'[c][j][2]
               PROVE  Covered(c, r, j - 1)'
    BY <1>2 DEF InOrder, Records_of
  <2>1. j + 1 \in 1..Len(stream[c]) /\ stream'[c][j] = stream[c][j + 1]
    BY <1>1
  <2>2. Covered(c, r, j + 1 - 1)
    BY <1>6, <2>1 DEF CollectionInv, InOrder
  <2>3. j + 1 - 1 = j /\ j \in 1..Len(stream[c])
    BY <1>1
  <2>4. Covered(c, r, j)
    BY <2>2, <2>3
  <2>5. QED
    BY <2>3, <2>4, CoveredWhenSettled
<1>14. ASSUME NEW r \in Records_of(c), Covered(c, r, Len(stream[c]))
       PROVE  Covered(c, r, Len(stream[c]))'
  <2>1. PICK n \in Nat : n = Len(stream[c])
    BY <1>1
  <2>2. Covered(c, r, n) /\ n \in 1..Len(stream[c])
    BY <1>1, <1>14, <2>1
  <2>3. Covered(c, r, n - 1)'
    BY <2>2, CoveredWhenSettled
  <2>4. Len(stream'[c]) = n - 1
    BY <1>1, <2>1
  <2>5. QED
    BY <2>3, <2>4 DEF Covered
<1>15. BeforeSince'
  <2> SUFFICES ASSUME NEW r \in Records, Collection[r] \notin shifted, updated[r] < since[Collection[r]]
               PROVE  copied'[r] = updated[r] \/ r \in unsaved'
    BY <1>2 DEF BeforeSince
  <2>1. copied[r] = updated[r] \/ r \in unsaved
    BY <1>4 DEF ExporterInv, BeforeSince
  <2>2. r # h
    BY <1>1, <1>3
  <2>3. QED
    BY <1>2, <1>5, <2>1, <2>2
<1>16. PagesCovered(c)'
  <2> SUFFICES ASSUME c \in reading \ shifted, NEW r \in Due(c), Rank(c, r) < Offset(c)
               PROVE  Covered(c, r, Len(stream[c]))'
    BY <1>2 DEF PagesCovered, Due, Rank, Offset, Precedes, Records_of
  <2>1. Covered(c, r, Len(stream[c])) /\ r \in Records_of(c)
    BY <1>6 DEF CollectionInv, PagesCovered, Due
  <2>2. QED
    BY <1>14, <2>1
<1>17. ReadCovered(c)'
  <2> SUFFICES ASSUME c \notin shifted, NEW e \in read, e[1] = c, NEW r \in Records_of(c)
               PROVE  updated[r] > e[2] \/ Covered(c, r, Len(stream[c]))'
    BY <1>2 DEF ReadCovered, Records_of
  <2>1. updated[r] > e[2] \/ Covered(c, r, Len(stream[c]))
    BY <1>6 DEF CollectionInv, ReadCovered
  <2>2. QED
    BY <1>14, <2>1
<1>18. ASSUME NEW d \in Collections PROVE CollectionInv(d)'
  <2>1. CASE d = c
    BY <1>10, <1>12, <1>13, <1>16, <1>17, <2>1 DEF CollectionInv
  <2>2. CASE d # c
    <3>1. CollectionInv(d) /\ stream'[d] = stream[d]
      BY <2>2, SettledFirst DEF ExporterInv
    <3>2. \A r \in Records_of(d) : copied'[r] = copied[r] /\ (r \in unsaved => r \in unsaved')
      <4> SUFFICES ASSUME NEW r \in Records_of(d)
                   PROVE  copied'[r] = copied[r] /\ (r \in unsaved => r \in unsaved')
        OBVIOUS
      <4>1. r \in Records /\ r # h
        BY <1>1, <2>2 DEF Records_of
      <4>2. QED
        BY <1>2, <1>5, <4>1
    <3>3. QED
      BY <1>2, <1>6, <3>1, <3>2, Untouched
  <2>3. QED
    BY <2>1, <2>2
<1>19. NewestKept'
  <2> SUFFICES ASSUME NEW r \in Records, Collection[r] \notin shifted
               PROVE  \/ r \in unsaved' \/ copied'[r] = updated[r]
                      \/ \A q \in Records_of(Collection[r]) : copied'[q] <= updated[r]
    BY <1>2 DEF NewestKept
  <2>1. CASE r # h /\ Collection[r] = c /\ updated[r] < x
    <3>1. Covered(c, r, 1 - 1)
      <4>1. r \in Records_of(c) /\ c \notin shifted
        BY <2>1 DEF Records_of
      <4>2. updated[r] < stream[c][1][2]
        BY <2>1 DEF x
      <4>3. QED
        BY <1>1, <1>6, <4>1, <4>2 DEF CollectionInv, InOrder
    <3>2. copied[r] = updated[r] \/ r \in unsaved
      BY <3>1 DEF Covered
    <3>3. QED
      BY <1>2, <1>5, <2>1, <3>2
  <2>2. CASE r # h /\ ~(Collection[r] = c /\ updated[r] < x)
    <3>1. \/ r \in unsaved \/ copied[r] = updated[r]
          \/ \A q \in Records_of(Collection[r]) : copied[q] <= updated[r]
      BY DEF ExporterInv, NewestKept
    <3>2. CASE r \in unsaved \/ copied[r] = updated[r]
      BY <1>2, <1>5, <2>2, <3>2
    <3>3. CASE \A q \in Records_of(Collection[r]) : copied[q] <= updated[r]
      <4> SUFFICES ASSUME NEW q \in Records_of(Collection[r]) PROVE copied'[q] <= updated[r]
        OBVIOUS
      <4>1. q \in Records /\ Collection[q] = Collection[r] /\ copied[q] <= updated[r]
        BY <3>3 DEF Records_of
      <4>2. CASE q = h
        <5>1. x <= updated[r]
          BY <1>1, <1>3, <2>2, <4>1, <4>2
        <5>2. QED
          BY <1>5, <4>1, <5>1
      <4>3. CASE q # h
        BY <1>5, <4>1, <4>3
      <4>4. QED
        BY <4>2, <4>3
    <3>4. QED
      BY <3>1, <3>2, <3>3
  <2>3. CASE r = h /\ copied' = copied /\ unsaved' = unsaved \cup {h}
    BY <2>3
  <2>4. CASE r = h /\ copied' = [copied EXCEPT ![h] = x]
    <3>1. copied'[r] = x
      BY <1>1, <1>2, <2>4
    <3>2. CASE x = updated[r]
      BY <3>1, <3>2
    <3>3. CASE x # updated[r]
      <4>1. stream[c][1][2] < updated[stream[c][1][1]] /\ stream[c][1][1] = r /\ Collection[r] = c
        BY <1>1, <1>3, <2>4, <3>3 DEF h, x
      <4>2. \A q \in Records_of(c) : copied'[q] < updated[r]
        BY <1>1, <1>11, <4>1
      <4>3. \A q \in Records : copied'[q] \in 0..MaxUpdates
        BY <1>1, <1>3, <1>5
      <4>4. QED
        BY <1>3, <4>1, <4>2, <4>3 DEF Records_of
    <3>4. QED
      BY <3>2, <3>3
  <2>5. QED
    BY <1>2, <2>1, <2>2, <2>3, <2>4
<1>20. QED
  BY <1>7, <1>8, <1>9, <1>15, <1>18, <1>19 DEF ExporterInv

-----------------------------------------------------------------------------
LEMMA ExporterNextInv == ExporterInv /\ [ExporterNext]_exporter_vars => ExporterInv'
<1> SUFFICES ASSUME ExporterInv, [ExporterNext]_exporter_vars PROVE ExporterInv'
  OBVIOUS
<1>1. accidents \in 0..MaxMishaps /\ MaxMishaps \in Nat
  BY ExporterAssumption DEF ExporterInv, ExporterTypeOK
<1>2. Accident => accidents' \in 0..MaxMishaps
  BY <1>1 DEF Accident
<1>3. ASSUME NEW r \in Records, UpdateRecord(r) PROVE ExporterInv'
  BY <1>3, UpdateRecordKeeps
<1>4. ASSUME NEW truncate \in BOOLEAN, StartExport(truncate) PROVE ExporterInv'
  BY <1>4, StartExportKeeps
<1>5. ASSUME NEW c \in Collections, ReadPage(c) PROVE ExporterInv'
  BY <1>5, ReadPageKeeps
<1>6. ASSUME NEW c \in Collections, ReadEnd(c) PROVE ExporterInv'
  BY <1>6, ReadEndKeeps
<1>7. ASSUME NEW c \in Collections, ReadFails(c) PROVE ExporterInv'
  BY <1>7, ReadFailsKeeps
<1>8. ASSUME NEW c \in Collections, Pipe(c) PROVE ExporterInv'
  BY <1>8, PipeKeeps
<1>9. ASSUME NEW c \in Collections, SaveRecord(c) PROVE ExporterInv'
  <2>1. Settled(c) /\ accidents' = accidents
    BY <1>9 DEF SaveRecord, Leaves, Settled
  <2>2. QED
    BY <1>1, <2>1, SettledKeeps
<1>10. ASSUME NEW c \in Collections, SaveRecordFails(c) PROVE ExporterInv'
  <2>1. Settled(c) /\ Accident
    BY <1>10 DEF SaveRecordFails, Leaves, Settled
  <2>2. QED
    BY <1>2, <2>1, SettledKeeps
<1>11. CASE WriteAfterEnd
  BY <1>1, <1>11, ExitsKeeps DEF WriteAfterEnd
<1>12. CASE ConvertThrows
  BY <1>1, <1>12, ExitsKeeps DEF ConvertThrows
<1>13. CASE FinishExport
  BY <1>1, <1>13, ExitsKeeps DEF FinishExport
<1>14. CASE KillExport
  BY <1>2, <1>14, ExitsKeeps DEF KillExport
<1>15. CASE UNCHANGED exporter_vars
  <2>1. UNCHANGED <<updated, copied, export, since, page, reading, read, stream, piped, accidents,
                    unsaved, shifted>>
    BY <1>15 DEF exporter_vars, run_state, pipeline
  <2>2. piped' \in [Collections -> Nat] /\ \A c \in Collections : piped'[c] <= Len(stream[c])
    BY <2>1 DEF ExporterInv, ExporterTypeOK
  <2>3. QED
    BY <2>1, <2>2, PipedKeeps
<1>16. QED
  BY <1>3, <1>4, <1>5, <1>6, <1>7, <1>8, <1>9, <1>10, <1>11, <1>12, <1>13, <1>14, <1>15
  DEF ExporterNext

LEMMA ExporterInvariance == ExporterSpec => []ExporterInv
BY ExporterInitInv, ExporterNextInv, PTL DEF ExporterSpec

(* exporter/mysql.js 39-194: the variables keep their types.               *)
THEOREM ExporterTypeCorrect == ExporterSpec => []ExporterTypeOK
<1>1. ExporterInv => ExporterTypeOK
  BY DEF ExporterInv
<1>2. QED
  BY <1>1, ExporterInvariance, PTL

(* exporter/mysql.js 39-63, 160-194: for any number of records, collections *)
(* and pages, an update that no run will copy any more is one whose query  *)
(* failed, or of a collection that was updated while its pages were read.  *)
THEOREM PassedIsExplained == ExporterSpec => []PassedExplained
<1>1. ASSUME ExporterInv PROVE PassedExplained
  <2> SUFFICES ASSUME NEW r \in Records, Passed(r)
               PROVE  r \in unsaved \/ Collection[r] \in shifted
    BY DEF PassedExplained
  <2>1. copied[r] < updated[r] /\ updated[r] < Max(Times(copied, Collection[r]))
    BY DEF Passed
  <2>2. copied \in [Records -> 0..MaxUpdates] /\ Collection[r] \in Collections
    BY <1>1 DEF ExporterInv, ExporterTypeOK, Collections
  <2>3. PICK q \in Records_of(Collection[r]) : Max(Times(copied, Collection[r])) = copied[q]
    BY <2>2, MaxOfTimes
  <2>4. updated[r] \in 0..MaxUpdates /\ copied[r] \in 0..MaxUpdates /\ copied[q] \in 0..MaxUpdates
    BY <1>1, TimeTypes DEF ExporterInv, Records_of
  <2>5. copied[r] # updated[r] /\ ~(copied[q] <= updated[r])
    BY <2>1, <2>3, <2>4
  <2>6. QED
    BY <1>1, <2>5 DEF ExporterInv, NewestKept
<1>2. ExporterInv => PassedExplained
  BY <1>1
<1>3. QED
  BY <1>2, ExporterInvariance, PTL

(* exporter/mysql.js 57-60, 189-194: when the process exits by itself, a   *)
(* collection that was read to its end and has nothing left in its buffer, *)
(* as the one that ended the pipeline, is copied as it was when its last   *)
(* page was read, but for the same causes.                                 *)
THEOREM ReadAreCopied == ExporterSpec => ReadIsCopied
<1>1. ASSUME ExporterInv, FinishExport
      PROVE  \A e \in read : Drained(e[1]) => \A r \in Records_of(e[1]) :
               \/ copied[r] = updated[r] \/ updated[r] > e[2]
               \/ r \in unsaved \/ e[1] \in shifted
  <2> SUFFICES ASSUME NEW e \in read, Drained(e[1]), NEW r \in Records_of(e[1]),
                      e[1] \notin shifted, ~(updated[r] > e[2])
               PROVE  copied[r] = updated[r] \/ r \in unsaved
    OBVIOUS
  <2>1. e[1] \in Collections
    BY <1>1 DEF ExporterInv, ExporterTypeOK
  <2>2. Covered(e[1], r, Len(stream[e[1]]))
    BY <1>1, <2>1 DEF ExporterInv, CollectionInv, ReadCovered
  <2>3. Len(stream[e[1]]) = 0
    BY <1>1, <2>1 DEF FinishExport, Drained
  <2>4. 1..Len(stream[e[1]]) = {}
    BY <2>3
  <2>5. QED
    BY <2>2, <2>4 DEF Covered
<1>2. ExporterInv /\ [ExporterNext]_exporter_vars =>
        [FinishExport => \A e \in read : Drained(e[1]) => \A r \in Records_of(e[1]) :
          \/ copied[r] = updated[r] \/ updated[r] > e[2]
          \/ r \in unsaved \/ e[1] \in shifted]_exporter_vars
  BY <1>1
<1>3. QED
  BY <1>2, ExporterInvariance, PTL DEF ExporterSpec, ReadIsCopied

-----------------------------------------------------------------------------
(* Wordpress.  SyncInv: whoever has no id yet stands in a page to come, or *)
(* has moved forward as those before got theirs (Few).                     *)

(* How many of the numbers S are less than r, and which of B that have not *)
(* been tried, T, are among the first x of S.                              *)
Earlier(S, r) == Cardinality({q \in S : q < r})
PassedOver(S, B, T, x) == {r \in (B \cap S) \ T : Earlier(S, r) < x}

LEMMA NumbersAreFinite ==
    ASSUME NEW n \in Nat, NEW S \in SUBSET (1..n)
    PROVE  IsFiniteSet(S) /\ Cardinality(S) \in Nat
<1>1. IsFiniteSet(1..n)
  BY FS_Interval
<1>2. QED
  BY <1>1, FS_Subset, FS_CardinalityType

LEMMA FewerAreFewer ==
    ASSUME NEW n \in Nat, NEW S \in SUBSET (1..n), NEW T \in SUBSET S
    PROVE  /\ Cardinality(T) \in Nat /\ Cardinality(S) \in Nat
           /\ Cardinality(T) <= Cardinality(S)
BY NumbersAreFinite, FS_Subset

LEMMA EarlierType ==
    ASSUME NEW n \in Nat, NEW S \in SUBSET (1..n), NEW r PROVE Earlier(S, r) \in Nat
BY NumbersAreFinite DEF Earlier

(* No two numbers of a set have the same position in it.                   *)
LEMMA EarlierIsStrict ==
    ASSUME NEW n \in Nat, NEW S \in SUBSET (1..n), NEW r \in S, NEW s \in S, r < s
    PROVE  Earlier(S, r) < Earlier(S, s)
<1> DEFINE R == {q \in S : q < r}
           Q == {q \in S : q < s}
<1>1. R \subseteq Q /\ r \in Q /\ r \notin R
  <2>1. S \subseteq Nat /\ r \in Nat /\ s \in Nat
    OBVIOUS
  <2>2. \A q \in S : q < r => q < s
    BY <2>1
  <2>3. ~(r < r)
    BY <2>1
  <2>4. QED
    BY <2>2, <2>3, Zenon
<1>2. IsFiniteSet(Q) /\ Cardinality(Q) \in Nat /\ Cardinality(R) \in Nat
  <2>1. Q \in SUBSET (1..n) /\ R \in SUBSET (1..n)
    OBVIOUS
  <2>2. QED
    BY <2>1, NumbersAreFinite
<1>3. Cardinality(R) <= Cardinality(Q) /\ Cardinality(R) # Cardinality(Q)
  BY <1>1, <1>2, FS_Subset
<1>4. QED
  BY <1>2, <1>3 DEF Earlier

(* Who leaves a set moves those behind one position forward.               *)
LEMMA EarlierAfterLeaving ==
    ASSUME NEW n \in Nat, NEW S \in SUBSET (1..n), NEW q \in S, NEW r \in S
    PROVE  Earlier(S \ {q}, r) = IF q < r THEN Earlier(S, r) - 1 ELSE Earlier(S, r)
<1> DEFINE R == {s \in S : s < r}
<1>1. IsFiniteSet(R)
  BY NumbersAreFinite
<1>2. {s \in S \ {q} : s < r} = R \ {q}
  OBVIOUS
<1>3. Cardinality(R \ {q}) = IF q \in R THEN Cardinality(R) - 1 ELSE Cardinality(R)
  BY <1>1, FS_RemoveElement
<1>4. QED
  BY <1>2, <1>3 DEF Earlier

(* One who leaves moves one other at most to where nobody looks any more.  *)
LEMMA OneMorePassedOver ==
    ASSUME NEW n \in Nat, NEW S \in SUBSET (1..n), NEW q \in S,
           NEW B, NEW T, NEW x \in Int
    PROVE  Cardinality(PassedOver(S \ {q}, B, T, x)) <= Cardinality(PassedOver(S, B, T, x)) + 1
<1> DEFINE old == PassedOver(S, B, T, x)
           new == PassedOver(S \ {q}, B, T, x)
<1>1. old \in SUBSET (1..n) /\ new \in SUBSET (1..n)
  BY DEF PassedOver
<1>2. IsFiniteSet(old) /\ Cardinality(old) \in Nat /\ Cardinality(new) \in Nat
  BY <1>1, NumbersAreFinite
<1>3. ASSUME NEW r \in new \ old PROVE r \in S /\ Earlier(S, r) = x
  <2>1. r \in S /\ r \in (B \cap S) \ T /\ Earlier(S \ {q}, r) < x /\ ~(Earlier(S, r) < x)
    BY <1>3 DEF PassedOver
  <2>2. Earlier(S, r) \in Nat /\ Earlier(S \ {q}, r) \in {Earlier(S, r), Earlier(S, r) - 1}
    BY <2>1, EarlierType, EarlierAfterLeaving
  <2>3. QED
    BY <2>1, <2>2
<1>4. ASSUME NEW r \in new \ old, NEW s \in new \ old PROVE r = s
  <2>1. r \in S /\ s \in S /\ Earlier(S, r) = x /\ Earlier(S, s) = x
    BY <1>3
  <2>2. ~(r < s) /\ ~(s < r)
    <3>1. r \in S /\ s \in S /\ ~(Earlier(S, r) < Earlier(S, s)) /\ ~(Earlier(S, s) < Earlier(S, r))
      BY <2>1
    <3>2. QED
      BY <3>1, EarlierIsStrict
  <2>3. QED
    BY <2>1, <2>2
<1> HIDE DEF old, new
<1>5. CASE new \subseteq old
  <2>1. Cardinality(new) <= Cardinality(old)
    BY <1>2, <1>5, FS_Subset
  <2>2. QED
    BY <1>2, <2>1 DEF old, new
<1>6. CASE ~(new \subseteq old)
  <2>1. PICK r \in new : r \notin old
    BY <1>6
  <2>2. new \subseteq old \cup {r}
    BY <1>4, <2>1
  <2>3. IsFiniteSet(old \cup {r}) /\ Cardinality(old \cup {r}) = Cardinality(old) + 1
    BY <1>2, <2>1, FS_AddElement
  <2>4. Cardinality(new) <= Cardinality(old) + 1
    BY <2>2, <2>3, FS_Subset
  <2>5. QED
    BY <2>4 DEF old, new
<1>7. QED
  BY <1>5, <1>6

(* Those who come or leave behind B do not matter to B.                    *)
LEMMA LeavingBehind ==
    ASSUME NEW S, NEW q \in Nat, NEW B \in SUBSET Nat, NEW T, NEW x, \A r \in B : r < q
    PROVE  /\ PassedOver(S \ {q}, B, T, x) = PassedOver(S, B, T, x)
           /\ B \ (S \ {q}) = B \ S
<1>1. q \notin B
  OBVIOUS
<1>2. ASSUME NEW r \in B PROVE {s \in S \ {q} : s < r} = {s \in S : s < r}
  OBVIOUS
<1>3. \A r \in B : Earlier(S \ {q}, r) = Earlier(S, r)
  BY <1>2 DEF Earlier
<1>4. QED
  BY <1>1, <1>3 DEF PassedOver

LEMMA ComingBehind ==
    ASSUME NEW S, NEW q \in Nat, NEW B \in SUBSET Nat, NEW T, NEW x, \A r \in B : r < q
    PROVE  /\ PassedOver(S \cup {q}, B, T, x) = PassedOver(S, B, T, x)
           /\ B \ (S \cup {q}) = B \ S
<1>1. q \notin B
  OBVIOUS
<1>2. ASSUME NEW r \in B PROVE {s \in S \cup {q} : s < r} = {s \in S : s < r}
  OBVIOUS
<1>3. \A r \in B : Earlier(S \cup {q}, r) = Earlier(S, r)
  BY <1>2 DEF Earlier
<1>4. QED
  BY <1>1, <1>3 DEF PassedOver

LEMMA CeilDivIsEnough ==
    ASSUME NEW n \in Nat, NEW m \in Nat \ {0}
    PROVE  CeilDiv(n, m) \in Int /\ n <= CeilDiv(n, m) * m
<1> DEFINE d == (n + m - 1) \div m
           e == (n + m - 1) % m
<1>1. d \in Int /\ e \in 0..m-1 /\ n + m - 1 = d * m + e
  OBVIOUS
<1> HIDE DEF d, e
<1>2. d * m \in Int
  BY <1>1
<1>3. n <= d * m
  BY <1>1, <1>2
<1>4. QED
  BY <1>1, <1>3 DEF CeilDiv, d

-----------------------------------------------------------------------------
(* A run with one part has pages enough for all it began with (Enough), of *)
(* whom those who are not behind them yet came before whoever signed up    *)
(* since (Newcomers); it has passed over no more of them than have left    *)
(* (Few).                                                                  *)
Newcomers ==
    sync.at # "idle" => began \subseteq 1..known /\ \A r \in began, q \in missing \ began : r < q

Enough ==
    sync.at # "idle" /\ sync.parts = 1 => Cardinality(began) <= sync.last * Limit

Few ==
    sync.at # "idle" /\ sync.parts = 1 =>
        Cardinality(PassedOver(missing, began, tried, Skipped(sync.page)))
            <= Cardinality(began \ missing)

SyncInv ==
    /\ SyncTypeOK
    /\ sync.at = "readers" => sync.page # 0
    /\ Newcomers
    /\ Enough
    /\ Few

LEMMA SkippedType == \A n \in Nat : Skipped(n) \in Nat
BY SyncAssumption DEF Skipped

LEMMA SyncInitInv == SyncInit => SyncInv
BY SyncAssumption DEF SyncInit, NoSync, SyncInv, SyncTypeOK, Newcomers, Enough, Few, Everybody

LEMMA SignUpKeeps == SyncInv /\ SignUp => SyncInv'
<1> SUFFICES ASSUME SyncInv, SignUp PROVE SyncInv'
  OBVIOUS
<1> DEFINE q == known + 1
<1>1. /\ known \in 0..NReaders - 1 /\ known' = q /\ missing' = missing \cup {q}
      /\ email' \in {email, email \cup {q}}
      /\ UNCHANGED <<sync, batch, began, tried>>
  BY SyncAssumption DEF SignUp, SyncInv, SyncTypeOK
<1>2. /\ missing \subseteq 1..known /\ email \subseteq 1..known
      /\ sync \in [at : {"idle", "page", "readers"}, page : Nat, last : Int, parts : 1..MaxParts]
  BY DEF SyncInv, SyncTypeOK
<1>3. SyncTypeOK'
  <2>1. 1..known \subseteq 1..q /\ q \in 1..q /\ q \in 0..NReaders
    BY <1>1, SyncAssumption
  <2>2. QED
    BY <1>1, <1>2, <2>1 DEF SyncInv, SyncTypeOK
<1>4. Newcomers'
  BY <1>1, <1>2 DEF SyncInv, Newcomers
<1>5. Enough'
  BY <1>1 DEF SyncInv, Enough
<1>6. Few'
  <2> SUFFICES ASSUME sync.at # "idle", sync.parts = 1 PROVE Few'
    BY <1>1 DEF Few
  <2>1. began \in SUBSET Nat /\ q \in Nat /\ \A r \in began : r < q
    BY <1>1 DEF SyncInv, Newcomers
  <2> HIDE DEF q
  <2>0. /\ PassedOver(missing \cup {q}, began, tried, Skipped(sync.page))
             = PassedOver(missing, began, tried, Skipped(sync.page))
        /\ began \ (missing \cup {q}) = began \ missing
    BY <2>1, ComingBehind
  <2>2. /\ PassedOver(missing', began, tried, Skipped(sync.page))
             = PassedOver(missing, began, tried, Skipped(sync.page))
        /\ began \ missing' = began \ missing
    BY <1>1, <2>0
  <2>3. QED
    BY <1>1, <2>2 DEF SyncInv, Few, Skipped
<1>7. QED
  BY <1>1, <1>3, <1>4, <1>5, <1>6 DEF SyncInv

(* A reader who gets an id, by the run or otherwise.                       *)
LEMMA LeavingKeepsFew ==
    ASSUME SyncInv, NEW q \in missing, missing' = missing \ {q}, UNCHANGED <<sync, began, tried>>
    PROVE  Few'
<1> SUFFICES ASSUME sync.at # "idle", sync.parts = 1 PROVE Few'
  BY DEF Few
<1>1. /\ known \in Nat /\ missing \in SUBSET (1..known) /\ began \in SUBSET (1..known)
      /\ Skipped(sync.page) \in Int
  BY SkippedType DEF SyncInv, SyncTypeOK, Newcomers
<1> DEFINE old == PassedOver(missing, began, tried, Skipped(sync.page))
           new == PassedOver(missing \ {q}, began, tried, Skipped(sync.page))
<1>2. Cardinality(old) <= Cardinality(began \ missing)
  BY DEF SyncInv, Few
<1>3. CASE q \in began
  <2>1. Cardinality(new) <= Cardinality(old) + 1
    BY <1>1, OneMorePassedOver
  <2>2. began \ (missing \ {q}) = (began \ missing) \cup {q} /\ q \notin began \ missing
    BY <1>3
  <2>3. began \ missing \in SUBSET (1..known) /\ old \in SUBSET (1..known) /\ new \in SUBSET (1..known)
    BY <1>1 DEF PassedOver
  <2>4. IsFiniteSet(began \ missing) /\ Cardinality(began \ missing) \in Nat
    BY <1>1, <2>3, NumbersAreFinite
  <2>5. Cardinality(old) \in Nat /\ Cardinality(new) \in Nat
    BY <1>1, <2>3, NumbersAreFinite
  <2>6. Cardinality(began \ (missing \ {q})) = Cardinality(began \ missing) + 1
    BY <2>2, <2>4, FS_AddElement
  <2> HIDE DEF old, new
  <2>7. Cardinality(new) <= Cardinality(began \ (missing \ {q}))
    BY <1>2, <2>1, <2>4, <2>5, <2>6
  <2>8. QED
    BY <2>7 DEF new, Few, Skipped
<1>4. CASE q \notin began
  <2>1. began \in SUBSET Nat /\ q \in Nat /\ \A r \in began : r < q
    BY <1>1, <1>4 DEF SyncInv, Newcomers
  <2>2. new = old /\ began \ (missing \ {q}) = began \ missing
    BY <2>1, LeavingBehind
  <2>3. QED
    BY <1>2, <2>2 DEF Few, Skipped
<1>5. QED
  BY <1>3, <1>4

LEMMA LeavingKeeps ==
    ASSUME SyncInv, NEW q, missing' \in {missing, missing \ {q}},
           UNCHANGED <<known, email, sync, began, tried>>, batch' \subseteq batch
    PROVE  SyncInv'
<1>1. Few'
  <2>1. CASE q \in missing /\ missing' = missing \ {q}
    BY <2>1, LeavingKeepsFew
  <2>2. CASE missing' = missing
    BY <2>2 DEF SyncInv, Few, PassedOver, Earlier, Skipped
  <2>3. QED
    BY <2>1, <2>2
<1>2. QED
  BY <1>1 DEF SyncInv, SyncTypeOK, Newcomers, Enough

LEMMA BeginSyncKeeps ==
    ASSUME SyncInv, NEW parts \in 1..MaxParts, BeginSync(parts)
    PROVE  SyncInv'
<1> DEFINE last == CeilDiv(Cardinality(missing), Limit * parts)
<1>1. /\ sync' = [at |-> "page", page |-> 0, last |-> last, parts |-> parts]
      /\ began' = missing /\ tried' = {} /\ UNCHANGED <<known, email, missing, batch>>
  BY DEF BeginSync, Begin
<1>2. known \in Nat /\ known <= NReaders /\ missing \in SUBSET (1..known)
  BY SyncAssumption DEF SyncInv, SyncTypeOK
<1>3. Cardinality(missing) \in Nat
  BY <1>2, NumbersAreFinite
<1>4. Limit * parts \in Nat \ {0}
  BY SyncAssumption
<1>5. last \in Int /\ Cardinality(missing) <= last * (Limit * parts)
  BY <1>3, <1>4, CeilDivIsEnough
<1> HIDE DEF last
<1>6. SyncTypeOK'
  <2>1. missing \subseteq Everybody
    BY <1>2, SyncAssumption DEF Everybody
  <2>2. QED
    BY <1>1, <1>5, <2>1 DEF SyncInv, SyncTypeOK
<1>7. Newcomers'
  BY <1>1, <1>2 DEF Newcomers
<1>8. Enough'
  <2>1. parts = 1 => Cardinality(missing) <= last * Limit
    BY <1>5, SyncAssumption
  <2>2. QED
    BY <1>1, <2>1 DEF Enough
<1>9. Few'
  <2>1. PassedOver(missing, missing, {}, 0) = {}
    <3>1. \A r \in missing : Earlier(missing, r) \in Nat
      BY <1>2, EarlierType
    <3>2. QED
      BY <3>1 DEF PassedOver
  <2>2. Skipped(0) = 0
    BY SyncAssumption DEF Skipped
  <2>3. missing \ missing = {} /\ Cardinality({}) = 0
    BY FS_EmptySet
  <2>4. /\ missing' = missing /\ began' = missing /\ tried' = {}
        /\ Skipped(sync.page)' = Skipped(0)
    BY <1>1 DEF Skipped
  <2>5. QED
    BY <2>1, <2>2, <2>3, <2>4 DEF Few
<1>10. QED
  BY <1>1, <1>6, <1>7, <1>8, <1>9 DEF SyncInv

(* What a page passes over was passed over before.                         *)
LEMMA ReadReadersKeeps == ASSUME SyncInv, ReadReaders PROVE SyncInv'
<1> DEFINE p == sync.page
<1>1. /\ sync.at = "page" /\ p \in Nat /\ sync' = [sync EXCEPT !.at = "readers", !.page = p + 1]
      /\ batch' = Page(p) /\ tried' = tried \cup batch'
      /\ UNCHANGED <<known, email, missing, began>>
  BY DEF ReadReaders, SyncInv, SyncTypeOK
<1>2. /\ sync'.at = "readers" /\ sync'.page = p + 1 /\ sync'.last = sync.last
      /\ sync'.parts = sync.parts
  BY <1>1 DEF SyncInv, SyncTypeOK
<1>3. known \in Nat /\ known <= NReaders /\ missing \in SUBSET (1..known)
  BY SyncAssumption DEF SyncInv, SyncTypeOK
<1>4. SyncTypeOK'
  <2>1. missing \subseteq Everybody /\ Page(p) \subseteq missing
    BY <1>3, SyncAssumption DEF Everybody, Page
  <2>2. batch' \subseteq Everybody /\ tried' \subseteq Everybody
    BY <1>1, <2>1 DEF SyncInv, SyncTypeOK
  <2>3. sync' \in [at : {"idle", "page", "readers"}, page : Nat, last : Int, parts : 1..MaxParts]
    <3>1. sync \in [at : {"idle", "page", "readers"}, page : Nat, last : Int, parts : 1..MaxParts]
      BY DEF SyncInv, SyncTypeOK
    <3>2. p + 1 \in Nat
      BY <1>1
    <3>3. QED
      BY <1>1, <3>1, <3>2
  <2>4. QED
    BY <1>1, <2>2, <2>3 DEF SyncInv, SyncTypeOK
<1>5. Newcomers' /\ Enough'
  BY <1>1, <1>2 DEF SyncInv, Newcomers, Enough
<1>6. Few'
  <2> SUFFICES ASSUME sync.parts = 1 PROVE Few'
    BY <1>2 DEF Few
  <2> DEFINE old == PassedOver(missing, began, tried, Skipped(p))
             new == PassedOver(missing, began, tried \cup Page(p), Skipped(p + 1))
  <2>1. Skipped(p) \in Nat /\ Skipped(p + 1) \in {Skipped(p), Skipped(p) + Limit} /\ Limit \in Nat
    <3>1. CASE p = 0
      BY <3>1, SyncAssumption DEF Skipped
    <3>2. CASE p # 0
      <4>1. p * Limit = (p - 1) * Limit + Limit
        BY <1>1, SyncAssumption
      <4>2. QED
        BY <1>1, <3>2, <4>1, SyncAssumption DEF Skipped
    <3>3. QED
      BY <3>1, <3>2
  <2>2. new \subseteq old
    <3> SUFFICES ASSUME NEW r \in new PROVE r \in old
      OBVIOUS
    <3>1. /\ r \in (began \cap missing) \ tried /\ r \notin Page(p)
          /\ Earlier(missing, r) < Skipped(p + 1)
      BY DEF PassedOver
    <3>2. Earlier(missing, r) \in Nat
      BY <1>3, EarlierType
    <3>3. ~(Skipped(p) <= Earlier(missing, r) /\ Earlier(missing, r) < Skipped(p) + Limit)
      BY <3>1 DEF Page, Position, Earlier
    <3>4. Earlier(missing, r) < Skipped(p)
      BY <2>1, <3>1, <3>2, <3>3
    <3>5. QED
      BY <3>1, <3>4 DEF PassedOver
  <2>3. Cardinality(old) <= Cardinality(began \ missing)
    BY <1>1 DEF SyncInv, Few
  <2>4. began \subseteq 1..known
    BY <1>1 DEF SyncInv, Newcomers
  <2>5. old \in SUBSET (1..known) /\ began \ missing \in SUBSET (1..known)
    BY <2>4 DEF PassedOver
  <2>6. /\ Cardinality(new) \in Nat /\ Cardinality(old) \in Nat
        /\ Cardinality(new) <= Cardinality(old)
    BY <1>3, <2>2, <2>5, FewerAreFewer
  <2>7. Cardinality(began \ missing) \in Nat
    BY <1>3, <2>5, NumbersAreFinite
  <2> HIDE DEF old
  <2>8. Cardinality(new) <= Cardinality(began \ missing)
    BY <2>3, <2>6, <2>7
  <2>9. /\ missing' = missing /\ began' = began /\ tried' = tried \cup Page(p)
        /\ Skipped(sync.page)' = Skipped(p + 1)
    BY <1>1, <1>2 DEF Skipped
  <2>10. QED
    BY <2>8, <2>9 DEF Few
<1>7. QED
  BY <1>1, <1>2, <1>4, <1>5, <1>6 DEF SyncInv

LEMMA SyncNextInv == SyncInv /\ [SyncNext]_sync_vars => SyncInv'
<1> SUFFICES ASSUME SyncInv, [SyncNext]_sync_vars PROVE SyncInv'
  OBVIOUS
<1>1. CASE SignUp
  BY <1>1, SignUpKeeps
<1>2. ASSUME NEW r \in Everybody, Register(r) PROVE SyncInv'
  BY <1>2, LeavingKeeps DEF Register
<1>3. ASSUME NEW r \in Everybody, SyncReader(r) \/ SyncReaderFails(r) PROVE SyncInv'
  BY <1>3, LeavingKeeps DEF SyncReader, SyncReaderFails, Tried
<1>4. ASSUME NEW parts \in 1..MaxParts, BeginSync(parts) PROVE SyncInv'
  BY <1>4, BeginSyncKeeps
<1>5. CASE ReadReaders
  BY <1>5, ReadReadersKeeps
<1>6. CASE NextPage
  <2>1. /\ sync' = [sync EXCEPT !.at = "page"] /\ sync.at = "readers"
        /\ UNCHANGED <<known, email, missing, batch, began, tried>>
    BY <1>6 DEF NextPage
  <2>2. /\ sync'.at = "page" /\ sync'.page = sync.page /\ sync'.last = sync.last
        /\ sync'.parts = sync.parts
        /\ sync' \in [at : {"idle", "page", "readers"}, page : Nat, last : Int, parts : 1..MaxParts]
    BY <2>1 DEF SyncInv, SyncTypeOK
  <2>3. SyncTypeOK' /\ Newcomers' /\ Enough'
    BY <2>1, <2>2 DEF SyncInv, SyncTypeOK, Newcomers, Enough
  <2>4. Few'
    BY <2>1, <2>2 DEF SyncInv, Few, PassedOver, Earlier, Skipped
  <2>5. QED
    BY <2>2, <2>3, <2>4 DEF SyncInv
<1>7. CASE EndSync \/ SyncBreaksOff
  <2>1. /\ sync' = NoSync /\ batch' \in {batch, {}} /\ began' = {} /\ tried' = {}
        /\ UNCHANGED <<known, email, missing>>
    BY <1>7 DEF EndSync, SyncBreaksOff
  <2>2. sync'.at = "idle"
    BY <2>1 DEF NoSync
  <2>3. SyncTypeOK'
    BY <2>1, SyncAssumption DEF SyncInv, SyncTypeOK, NoSync
  <2>4. QED
    BY <2>2, <2>3 DEF SyncInv, Newcomers, Enough, Few
<1>8. CASE UNCHANGED sync_vars
  BY <1>8 DEF sync_vars, SyncInv, SyncTypeOK, Newcomers, Enough, Few, PassedOver, Earlier, Skipped
<1>9. QED
  BY <1>1, <1>2, <1>3, <1>4, <1>5, <1>6, <1>7, <1>8 DEF SyncNext

LEMMA SyncInvariance == SyncSpec => []SyncInv
BY SyncInitInv, SyncNextInv, PTL DEF SyncSpec

(* When the last page has been read, all who are still missing of those    *)
(* the run began with are before it.                                       *)
LEMMA EndPassesFewOver ==
    ASSUME SyncInv, EndSync, sync.parts = 1
    PROVE  Cardinality((began \cap missing) \ tried) <= Cardinality(began \ missing)
<1>1. /\ sync.at = "page" /\ sync.page > sync.last /\ sync.page \in Nat /\ sync.last \in Int
      /\ known \in Nat /\ missing \in SUBSET (1..known) /\ began \in SUBSET (1..known)
      /\ \A r \in began, q \in missing \ began : r < q
  BY DEF EndSync, SyncInv, SyncTypeOK, Newcomers
<1>2. IsFiniteSet(began) /\ Cardinality(began) \in Nat
  BY <1>1, NumbersAreFinite
<1>3. Cardinality(began) <= sync.last * Limit
  BY <1>1 DEF SyncInv, Enough
<1>4. ASSUME NEW r \in (began \cap missing) \ tried
      PROVE  Earlier(missing, r) < Skipped(sync.page)
  <2> DEFINE earlier == {q \in missing : q < r}
  <2>1. earlier \subseteq began /\ r \notin earlier
    <3>1. \A q \in missing : q \in Nat
      BY <1>1
    <3>2. r \in Nat /\ \A q \in missing \ began : r < q
      BY <1>1
    <3>3. QED
      BY <3>1, <3>2
  <2>2. /\ Cardinality(earlier) \in Nat
        /\ Cardinality(earlier) <= Cardinality(began)
        /\ Cardinality(earlier) # Cardinality(began)
    BY <1>1, <1>2, <2>1, FewerAreFewer, FS_Subset
  <2>3. Cardinality(earlier) < sync.last * Limit /\ sync.last * Limit \in Int
    BY <1>1, <1>2, <1>3, <2>2, SyncAssumption
  <2>4. sync.last > 0
    BY <1>1, <2>2, <2>3, SyncAssumption
  <2>5. sync.last * Limit <= (sync.page - 1) * Limit
    BY <1>1, <2>4, SyncAssumption
  <2>6. Skipped(sync.page) = (sync.page - 1) * Limit
    BY <1>1, <2>4 DEF Skipped
  <2>7. QED
    BY <1>1, <2>2, <2>3, <2>5, <2>6, SyncAssumption DEF Earlier
<1>5. (began \cap missing) \ tried = PassedOver(missing, began, tried, Skipped(sync.page))
  BY <1>4 DEF PassedOver
<1>6. QED
  BY <1>1, <1>5 DEF SyncInv, Few

(* sync/wordpress.js 56-86: the variables keep their types.                *)
THEOREM SyncTypeCorrect == SyncSpec => []SyncTypeOK
<1>1. SyncInv => SyncTypeOK
  BY DEF SyncInv
<1>2. QED
  BY <1>1, SyncInvariance, PTL

(* sync/wordpress.js 56-86: for any number of readers and any limit, a run *)
(* with one part passes over no more readers than have got an id since it  *)
(* began.                                                                  *)
THEOREM FewArePassedOver == SyncSpec => FewPassedOver
<1>1. SyncInv /\ [SyncNext]_sync_vars =>
        [EndSync /\ sync.parts = 1 =>
           Cardinality((began \cap missing) \ tried) <= Cardinality(began \ missing)]_sync_vars
  BY EndPassesFewOver
<1>2. QED
  BY <1>1, SyncInvariance, PTL DEF SyncSpec, FewPassedOver

-----------------------------------------------------------------------------
(* Sailthru.  CopiesInv: what a call is about to post differs from the     *)
(* labels its reader has for a cause it has taken down, what Sailthru has  *)
(* for one that is recorded.  QueueInv: whom a queue has still to hand     *)
(* over is in its pages to come, or in the page Sailthru has not answered. *)

CallRecord == [at : {"idle", "post"}, reader : Readers \cup {NoReader}, record : SUBSET Labels,
               causes : SUBSET {"changed", "cache", "queue"}]

(* What a call is about to post differs from the labels of its reader for  *)
(* a cause it has taken down, what Sailthru has for one that is recorded.  *)
CopiesInv ==
    /\ labelled \in [Readers -> SUBSET Labels]
    /\ profile \in [Readers -> SUBSET Labels]
    /\ causes \in [Readers -> SUBSET {"changed", "cache", "queue"}]
    /\ call \in [Calls -> CallRecord]
    /\ exists \subseteq Labels /\ labels_cache \subseteq Labels
    /\ \A c \in Calls : call[c].at = "post" =>
          /\ call[c].reader \in Readers
          /\ call[c].record # labelled[call[c].reader] => call[c].causes # {}
    /\ queue = [at |-> queue.at, left |-> queue.left, page |-> queue.page]
    /\ \A r \in DOMAIN queue.left : queue.left[r] \subseteq Labels
    /\ \A r \in DOMAIN queue.page : queue.page[r] \subseteq Labels
    /\ ProfileExplained

(* Whom a queue has still to hand over is in the pages to come, or in the  *)
(* page Sailthru has not been answered.                                    *)
QueueInv ==
    /\ queue.at = "next" => queued \subseteq served \cup unmapped \cup DOMAIN queue.left
    /\ queue.at = "wait" =>
          /\ queued \subseteq served \cup unmapped \cup DOMAIN queue.left \cup DOMAIN queue.page
          /\ sailthru_job = "completed" => queued \subseteq served \cup unmapped \cup DOMAIN queue.left
    /\ queue.at = "idle" => queued = {}

-----------------------------------------------------------------------------
(* Every step is one of these.                                             *)
LEMMA SailthruSteps ==
    ASSUME [SailthruNext]_sailthru_vars
    PROVE  \/ \E l \in Labels : CreateLabel(l)
           \/ \E l \in Labels, r \in Readers : Relabel(r, l)
           \/ LoadCache
           \/ \E c \in Calls, r \in Readers : ReadReader(c, r)
           \/ \E c \in Calls : Post(c) \/ PostFails(c)
           \/ \E rs \in SUBSET Readers : StartQueue(rs)
           \/ StartJob \/ CacheStored
           \/ ServePush \/ ServePushUnloaded \/ ServePushFails
           \/ JobDone \/ QueueThrows \/ QueueEnds
           \/ UNCHANGED sailthru_vars
BY DEF SailthruNext

(* What becomes of a queue.                                                *)
LEMMA NextQueueInv == QueueInv /\ [SailthruNext]_sailthru_vars => QueueInv'
<1> SUFFICES ASSUME QueueInv, [SailthruNext]_sailthru_vars PROVE QueueInv'
  OBVIOUS
<1>1. CASE UNCHANGED queue_vars
  BY <1>1 DEF queue_vars, QueueInv
<1>2. ASSUME NEW rs \in SUBSET Readers, StartQueue(rs) PROVE QueueInv'
  BY <1>2 DEF StartQueue, Only, QueueInv
<1>3. CASE StartJob
  <2>1. PICK p \in NextPages(DOMAIN queue.left) :
           queue' = [at |-> "wait", left |-> Only(queue.left, DOMAIN queue.left \ p),
                     page |-> Only(queue.left, p)]
    BY <1>3 DEF StartJob
  <2>2. /\ queue'.at = "wait" /\ DOMAIN queue'.left = DOMAIN queue.left \ p
        /\ DOMAIN queue'.page = p
    BY <2>1 DEF Only
  <2>3. QED
    BY <1>3, <2>2 DEF StartJob, QueueInv
<1>4. CASE CacheStored
  BY <1>4 DEF CacheStored, QueueInv
<1>5. CASE ServePush \/ ServePushUnloaded
  <2>1. PICK rs \in SUBSET DOMAIN queue.page :
          served' = served \cup rs /\ unmapped' = unmapped \cup (DOMAIN queue.page \ rs)
    BY <1>5 DEF ServePush, ServePushUnloaded, Answer
  <2>2. UNCHANGED <<queue, queued>>
    BY <1>5 DEF ServePush, ServePushUnloaded
  <2>3. served' \cup unmapped' = served \cup unmapped \cup DOMAIN queue.page
    BY <2>1
  <2>4. QED
    BY <2>2, <2>3 DEF QueueInv
<1>6. CASE ServePushFails
  BY <1>6 DEF ServePushFails, QueueInv
<1>7. CASE JobDone
  BY <1>7 DEF JobDone, QueueInv
<1>8. CASE QueueThrows
  BY <1>8 DEF QueueThrows, NoQueue, QueueInv
<1>9. CASE QueueEnds
  BY <1>9 DEF QueueEnds, NoQueue, QueueInv
<1>10. QED
  BY <1>1, <1>2, <1>3, <1>4, <1>5, <1>6, <1>7, <1>8, <1>9, SailthruSteps
     DEF CreateLabel, Relabel, LoadCache, ReadReader, Post, PostFails, sailthru_vars

(* What becomes of the copies.                                             *)
LEMMA NextCopiesInv == CopiesInv /\ [SailthruNext]_sailthru_vars => CopiesInv'
<1> SUFFICES ASSUME CopiesInv, [SailthruNext]_sailthru_vars PROVE CopiesInv'
  OBVIOUS
<1> USE DEF labels_vars, cache_vars, queue_vars
<1>1. ASSUME NEW l \in Labels, CreateLabel(l) PROVE CopiesInv'
  BY <1>1 DEF CreateLabel, CopiesInv, ProfileExplained
<1>2. ASSUME NEW l \in Labels, NEW r \in Readers, Relabel(r, l) PROVE CopiesInv'
  <2>1. /\ labelled' \in [Readers -> SUBSET Labels]
        /\ \A q \in Readers \ {r} : labelled'[q] = labelled[q]
    BY <1>2 DEF Relabel, CopiesInv
  <2>2. /\ causes' \in [Readers -> SUBSET {"changed", "cache", "queue"}]
        /\ causes'[r] # {} /\ \A q \in Readers \ {r} : causes'[q] = causes[q]
    BY <1>2 DEF Relabel, CopiesInv
  <2>3. \A c \in Calls : call'[c] = IF call[c].reader = r
                                    THEN [call[c] EXCEPT !.causes = @ \cup {"changed"}] ELSE call[c]
    BY <1>2 DEF Relabel
  <2>4. call' \in [Calls -> CallRecord]
    <3>1. \A c \in Calls : [call[c] EXCEPT !.causes = @ \cup {"changed"}] \in CallRecord
      BY DEF CopiesInv, CallRecord
    <3>2. \A c \in Calls : call[c] \in CallRecord
      BY DEF CopiesInv
    <3>3. DEFINE noted(c) == IF call[c].reader = r
                             THEN [call[c] EXCEPT !.causes = @ \cup {"changed"}] ELSE call[c]
    <3>4. \A c \in Calls : noted(c) \in CallRecord
      BY <3>1, <3>2
    <3>5. call' = [c \in Calls |-> noted(c)]
      BY <1>2 DEF Relabel
    <3> HIDE DEF noted
    <3>6. QED
      BY <3>4, <3>5
  <2>5. ASSUME NEW c \in Calls
        PROVE  /\ call'[c].at = call[c].at /\ call'[c].reader = call[c].reader
               /\ call'[c].record = call[c].record
               /\ IF call[c].reader = r THEN call'[c].causes # {}
                                        ELSE call'[c].causes = call[c].causes
    <3>1. CASE call[c].reader # r
      BY <2>3, <3>1
    <3>2. CASE call[c].reader = r
      <4>1. call'[c] = [call[c] EXCEPT !.causes = @ \cup {"changed"}]
        BY <2>3, <3>2
      <4>2. call[c] \in CallRecord
        BY DEF CopiesInv
      <4>3. QED
        BY <3>2, <4>1, <4>2 DEF CallRecord
    <3>3. QED
      BY <3>1, <3>2
  <2>6. UNCHANGED <<profile, exists, labels_cache, queue>>
    BY <1>2 DEF Relabel
  <2>7. QED
    BY <2>1, <2>2, <2>4, <2>5, <2>6 DEF CopiesInv, ProfileExplained
<1>3. CASE LoadCache
  BY <1>3 DEF LoadCache, CopiesInv, ProfileExplained
<1>4. ASSUME NEW c \in Calls, NEW r \in Readers, ReadReader(c, r) PROVE CopiesInv'
  <2> DEFINE new == [at |-> "post", reader |-> r, record |-> Mapped(labelled[r]),
                     causes |-> IF Mapped(labelled[r]) = labelled[r] THEN {} ELSE {"cache"}]
  <2>1. call' = [call EXCEPT ![c] = new]
    BY <1>4 DEF ReadReader
  <2>2. new \in CallRecord /\ (new.record # labelled[r] => new.causes # {})
    BY DEF CallRecord, Mapped, CopiesInv
  <2>3. UNCHANGED <<labelled, profile, causes, exists, labels_cache, queue>>
    BY <1>4 DEF ReadReader
  <2> HIDE DEF new
  <2>4. new.at = "post" /\ new.reader = r
    BY DEF new
  <2>5. QED
    BY <2>1, <2>2, <2>3, <2>4 DEF CopiesInv, ProfileExplained
<1>5. ASSUME NEW c \in Calls, Post(c) PROVE CopiesInv'
  <2>1. /\ call[c].at = "post" /\ call[c].reader \in Readers /\ call[c].record \subseteq Labels
        /\ call[c].causes \subseteq {"changed", "cache", "queue"}
    BY <1>5 DEF Post, CopiesInv, CallRecord
  <2>2. call' \in [Calls -> CallRecord] /\ \A d \in Calls : call'[d] = call[d] \/ call'[d].at = "idle"
    BY <1>5 DEF Post, CopiesInv, CallRecord, NoCall
  <2>3. QED
    BY <1>5, <2>1, <2>2 DEF Post, CopiesInv, ProfileExplained
<1>6. ASSUME NEW c \in Calls, PostFails(c) PROVE CopiesInv'
  <2>1. call' \in [Calls -> CallRecord] /\ \A d \in Calls : call'[d] = call[d] \/ call'[d].at = "idle"
    BY <1>6 DEF PostFails, CopiesInv, CallRecord, NoCall
  <2>2. QED
    BY <1>6, <2>1 DEF PostFails, CopiesInv, ProfileExplained
<1>7. ASSUME NEW rs \in SUBSET Readers, StartQueue(rs) PROVE CopiesInv'
  BY <1>7 DEF StartQueue, Only, NoRecord, CopiesInv, ProfileExplained
<1>8. CASE StartJob
  <2>1. PICK p \in NextPages(DOMAIN queue.left) :
           queue' = [at |-> "wait", left |-> Only(queue.left, DOMAIN queue.left \ p),
                     page |-> Only(queue.left, p)]
    BY <1>8 DEF StartJob
  <2>2. p \subseteq DOMAIN queue.left
    BY <2>1 DEF NextPages
  <2>3. /\ \A r \in DOMAIN queue'.left : queue'.left[r] \subseteq Labels
        /\ \A r \in DOMAIN queue'.page : queue'.page[r] \subseteq Labels
    BY <2>1, <2>2 DEF Only, CopiesInv
  <2>4. QED
    BY <1>8, <2>3 DEF StartJob, CopiesInv, ProfileExplained
<1>9. CASE CacheStored \/ ServePushFails
  BY <1>9 DEF CacheStored, ServePushFails, CopiesInv, ProfileExplained
<1>10. CASE ServePush \/ ServePushUnloaded
  <2>1. PICK rs, S :
           /\ rs \subseteq DOMAIN queue.page /\ S \subseteq Labels
           /\ profile' = [r \in Readers |-> IF r \in rs THEN queue.page[r] \cap S ELSE profile[r]]
           /\ causes' = [r \in Readers |-> IF r \in rs THEN {"queue"} ELSE causes[r]]
    <3>1. CASE ServePush
      BY <3>1 DEF ServePush, Answer, CopiesInv
    <3>2. CASE ServePushUnloaded
      BY <3>2 DEF ServePushUnloaded, Answer, CopiesInv
    <3>3. QED
      BY <1>10, <3>1, <3>2
  <2>2. UNCHANGED <<labelled, call, queue, exists>> /\ labels_cache' \subseteq Labels
    BY <1>10 DEF ServePush, ServePushUnloaded, CopiesInv
  <2>3. QED
    BY <2>1, <2>2 DEF CopiesInv, ProfileExplained
<1>11. CASE JobDone \/ QueueThrows \/ QueueEnds
  <2>1. UNCHANGED <<labelled, profile, causes, call, exists, labels_cache>>
    BY <1>11 DEF JobDone, QueueThrows, QueueEnds
  <2>2. /\ queue'.left \in {queue.left, NoRecord}
        /\ queue'.page \in {queue.page, NoRecord}
        /\ queue' = [at |-> queue'.at, left |-> queue'.left, page |-> queue'.page]
    <3>1. CASE JobDone
      BY <3>1 DEF JobDone, CopiesInv
    <3>2. CASE QueueThrows
      BY <3>2 DEF QueueThrows, NoQueue
    <3>3. CASE QueueEnds
      BY <3>3 DEF QueueEnds, NoQueue
    <3>4. QED
      BY <1>11, <3>1, <3>2, <3>3
  <2>3. QED
    BY <2>1, <2>2 DEF CopiesInv, ProfileExplained, NoRecord
<1>12. CASE UNCHANGED sailthru_vars
  BY <1>12 DEF sailthru_vars, CopiesInv, ProfileExplained
<1>13. QED
  BY <1>1, <1>2, <1>3, <1>4, <1>5, <1>6, <1>7, <1>8, <1>9, <1>10, <1>11, <1>12, SailthruSteps

(* Both hold in every reachable state.                                     *)
LEMMA SailthruInvariance == SailthruSpec => [](CopiesInv /\ QueueInv)
<1>1. SailthruInit => CopiesInv /\ QueueInv
  BY DEF SailthruInit, CopiesInv, ProfileExplained, QueueInv, NoQueue, NoRecord, NoCall, CallRecord
<1>2. QED
  BY <1>1, NextCopiesInv, NextQueueInv, PTL DEF SailthruSpec

(* Any number of readers, labels and calls: a copy in Sailthru differs     *)
(* from the labels of its reader only for one of the causes named.         *)
THEOREM CopiesAreExplained == SailthruSpec => []ProfileExplained
<1>1. CopiesInv => ProfileExplained
  BY DEF CopiesInv
<1>2. QED
  BY <1>1, SailthruInvariance, PTL

(* A queue of any length that ends without an error has handed over every  *)
(* reader whose mapping did not throw, although its pages are put into     *)
(* Redis without waiting and jobs may fail or hang.                        *)
THEOREM QueueHandsOverAll == SailthruSpec => QueueHandsOver
<1>1. QueueInv => [QueueEnds => queued \subseteq served \cup unmapped]_sailthru_vars
  BY DEF QueueInv, QueueEnds
<1>2. QED
  BY <1>1, SailthruInvariance, PTL DEF QueueHandsOver

(* The queue is of readers.                                                *)
QueueOfReaders == DOMAIN queue.left \subseteq Readers /\ DOMAIN queue.page \subseteq Readers

LEMMA SailthruTypesInit == SailthruInit => SailthruTypeOK /\ QueueOfReaders
<1> SUFFICES ASSUME SailthruInit PROVE SailthruTypeOK /\ QueueOfReaders
  OBVIOUS
<1>1. DOMAIN queue.left \subseteq Readers /\ DOMAIN queue.page \subseteq Readers /\ queue.at = "idle"
  BY DEF SailthruInit, NoQueue, NoRecord
<1>2. \A c \in Calls : call[c].at = "idle"
  BY DEF SailthruInit, NoCall
<1>3. QED
  BY <1>1, <1>2 DEF SailthruInit, SailthruTypeOK, QueueOfReaders

LEMMA SailthruTypesNext ==
    ASSUME SailthruTypeOK, QueueOfReaders, CopiesInv, [SailthruNext]_sailthru_vars
    PROVE  SailthruTypeOK' /\ QueueOfReaders'
<1> USE DEF SailthruTypeOK, QueueOfReaders, CopiesInv
<1>1. ASSUME NEW l \in Labels, CreateLabel(l) PROVE SailthruTypeOK' /\ QueueOfReaders'
  BY <1>1 DEF CreateLabel, cache_vars, queue_vars
<1>2. ASSUME NEW l \in Labels, NEW r \in Readers, Relabel(r, l)
      PROVE  SailthruTypeOK' /\ QueueOfReaders'
  <2>1. /\ l \in exists /\ labelled' = [labelled EXCEPT ![r] = (@ \cup {l}) \ (@ \cap {l})]
        /\ causes' = [causes EXCEPT ![r] = @ \cup {"changed"}]
        /\ call' = [c \in Calls |-> IF call[c].reader = r
                                THEN [call[c] EXCEPT !.causes = @ \cup {"changed"}] ELSE call[c]]
        /\ UNCHANGED <<exists, cache_vars, profile, queue_vars, errors>>
    BY <1>2 DEF Relabel
  <2>2. \A c \in Calls : /\ call'[c].at = call[c].at /\ call'[c].reader = call[c].reader
                         /\ call'[c].record = call[c].record
    BY <2>1 DEF CallRecord
  <2>3. labelled' \in [Readers -> SUBSET exists]
    BY <2>1
  <2>4. \A q \in Readers : causes'[q] \subseteq {"changed", "cache", "queue"}
    BY <2>1
  <2>5. QED
    BY <2>1, <2>2, <2>3, <2>4 DEF cache_vars, queue_vars
<1>3. CASE LoadCache
  BY <1>3 DEF LoadCache, labels_vars, queue_vars
<1>4. ASSUME NEW c \in Calls, NEW r \in Readers, ReadReader(c, r)
      PROVE  SailthruTypeOK' /\ QueueOfReaders'
  BY <1>4 DEF ReadReader, Mapped, labels_vars, cache_vars, queue_vars
<1>5. ASSUME NEW c \in Calls, Post(c) PROVE SailthruTypeOK' /\ QueueOfReaders'
  <2>1. call[c].reader \in Readers /\ call[c].record \subseteq exists
    BY <1>5 DEF Post
  <2>2. /\ profile' = [profile EXCEPT ![call[c].reader] = call[c].record]
        /\ causes' = [causes EXCEPT ![call[c].reader] = call[c].causes]
        /\ call' = [call EXCEPT ![c] = NoCall]
        /\ UNCHANGED <<labels_vars, cache_vars, queue_vars, errors>>
    BY <1>5 DEF Post
  <2>3. call[c].causes \subseteq {"changed", "cache", "queue"}
    BY DEF CallRecord
  <2>4. \A r \in Readers : causes'[r] \subseteq {"changed", "cache", "queue"}
    BY <2>1, <2>2, <2>3
  <2>5. profile' \in [Readers -> SUBSET exists]
    BY <2>1, <2>2
  <2>6. \A d \in Calls : call'[d].at = "idle" \/ call'[d] = call[d]
    BY <2>2 DEF NoCall
  <2>7. QED
    BY <2>2, <2>4, <2>5, <2>6 DEF labels_vars, cache_vars, queue_vars
<1>6. ASSUME NEW c \in Calls, PostFails(c) PROVE SailthruTypeOK' /\ QueueOfReaders'
  <2>1. \A d \in Calls : call'[d].at = "idle" \/ call'[d] = call[d]
    BY <1>6 DEF PostFails, NoCall
  <2>2. QED
    BY <1>6, <2>1 DEF PostFails, labels_vars, cache_vars, queue_vars
<1>7. ASSUME NEW rs \in SUBSET Readers, StartQueue(rs) PROVE SailthruTypeOK' /\ QueueOfReaders'
  BY <1>7 DEF StartQueue, Only, NoRecord, labels_vars, cache_vars
<1>8. CASE StartJob
  <2>1. PICK p \in NextPages(DOMAIN queue.left) :
          queue' = [at |-> "wait", left |-> Only(queue.left, DOMAIN queue.left \ p),
                    page |-> Only(queue.left, p)]
    BY <1>8 DEF StartJob
  <2>2. p \subseteq DOMAIN queue.left
    BY DEF NextPages
  <2>3. DOMAIN queue'.left \subseteq Readers /\ DOMAIN queue'.page \subseteq Readers /\ queue'.at = "wait"
    BY <2>1, <2>2 DEF Only
  <2>4. QED
    BY <1>8, <2>3 DEF StartJob, labels_vars, cache_vars
<1>9. CASE CacheStored
  BY <1>9 DEF CacheStored, labels_vars, cache_vars
<1>10. CASE ServePush
  <2>1. PICK rs \in SUBSET DOMAIN queue.page : Answer(rs, exists)
    BY <1>10 DEF ServePush
  <2>2. /\ labels_cache' = exists /\ cache_loaded' = TRUE
        /\ UNCHANGED <<labels_vars, call, queue, cached, queued, errors>>
    BY <1>10 DEF ServePush
  <2>3. profile' \in [Readers -> SUBSET exists]
    BY <2>1 DEF Answer
  <2>4. QED
    BY <2>1, <2>2, <2>3 DEF Answer, labels_vars
<1>11. CASE ServePushUnloaded
  <2>1. PICK rs \in SUBSET DOMAIN queue.page : Answer(rs, labels_cache)
    BY <1>11 DEF ServePushUnloaded
  <2>2. UNCHANGED <<labels_vars, cache_vars, call, queue, cached, queued>>
    BY <1>11 DEF ServePushUnloaded
  <2>3. profile' \in [Readers -> SUBSET exists]
    BY <2>1 DEF Answer
  <2>4. QED
    BY <2>1, <2>2, <2>3 DEF Answer, labels_vars, cache_vars
<1>12. CASE ServePushFails
  BY <1>12 DEF ServePushFails, labels_vars, cache_vars
<1>13. CASE JobDone
  BY <1>13 DEF JobDone, NoRecord, labels_vars, cache_vars
<1>14. CASE QueueThrows
  <2>1. /\ queue'.at = "idle" /\ DOMAIN queue'.left = {}
        /\ DOMAIN queue'.page = {} \/ queue'.page = queue.page
    BY <1>14 DEF QueueThrows, NoQueue, NoRecord
  <2>2. sailthru_job' \in {"none", sailthru_job} /\ queued' = {} /\ served' = {} /\ unmapped' = {}
        /\ UNCHANGED <<labels_vars, cache_vars, profile, call, causes>>
    BY <1>14 DEF QueueThrows
  <2>3. QED
    BY <2>1, <2>2 DEF labels_vars, cache_vars
<1>15. CASE QueueEnds
  BY <1>15 DEF QueueEnds, NoQueue, NoRecord, labels_vars, cache_vars
<1>16. CASE UNCHANGED sailthru_vars
  BY <1>16 DEF sailthru_vars, labels_vars, cache_vars, queue_vars
<1>17. QED
  BY <1>1, <1>2, <1>3, <1>4, <1>5, <1>6, <1>7, <1>8, <1>9, <1>10, <1>11, <1>12, <1>13, <1>14,
     <1>15, <1>16, SailthruSteps

(* mailer/sailthru.js: every variable has its type; neither a call, a      *)
(* queue nor Sailthru has a label that does not exist.                     *)
THEOREM SailthruTypeCorrect == SailthruSpec => []SailthruTypeOK
<1>1. SailthruInit => SailthruTypeOK /\ QueueOfReaders
  BY SailthruTypesInit
<1>2. CopiesInv /\ (SailthruTypeOK /\ QueueOfReaders) /\ [SailthruNext]_sailthru_vars =>
        (SailthruTypeOK /\ QueueOfReaders)'
  BY SailthruTypesNext
<1>3. QED
  BY <1>1, <1>2, SailthruInvariance, PTL DEF SailthruSpec
=============================================================================
