------------------------------ MODULE Exporter ------------------------------
(***************************************************************************)
(* The copy of collections from MongoDB to tables of MySQL                 *)
(* (exporter/mysql.js).  A run copies of each collection what has been     *)
(* updated since the newest row of its table: it reads pages by number,    *)
(* sorted by time of update, into a buffer of the collection's own, from   *)
(* where the records go through one pipeline (convertRecords and           *)
(* saveRecords) that all collections share, to be saved one by one.  The   *)
(* first collection that is read to its end, and whose buffer is empty,    *)
(* ends the pipeline for all.  Meanwhile records go on being updated.      *)
(*                                                                         *)
(* Times are numbers that grow with every update; two updates at the same  *)
(* time are left out.  In which order the pipeline takes records of two    *)
(* collections is left open, also where the code has fixed it.             *)
(***************************************************************************)
EXTENDS Naturals, Sequences, FiniteSets, FiniteSetsExt, SequencesExt

CONSTANTS
    Records,
    Collection,    \* Collection[r]: the collection of record r
    Unconvertible, \* <<record, time>>: the updates convertRecords throws on
    PageSize,      \* records per page, and what a collection's buffer holds: 5000
    Ahead,         \* records the pipeline holds, 16 in each of its streams
    MaxUpdates,    \* bound on the updates of records
    MaxMishaps     \* bound on failed calls and kills

ASSUME ExporterAssumption ==
    /\ IsFiniteSet(Records) /\ Unconvertible \subseteq Records \X Nat
    /\ PageSize \in Nat \ {0} /\ Ahead \in Nat \ {0}
    /\ MaxUpdates \in Nat /\ MaxMishaps \in Nat

Collections == {Collection[r] : r \in Records}

VARIABLES
    updated,    \* updated[r]: when record r was last updated, 0 if it never was
    copied,     \* copied[r]: date_updated of its row, 0 if it has none
    export,     \* the run: the phase it is in, ...
    since,      \* ... since[c]: the updates of collection c it copies, ...
    page,       \* ... page[c]: the next page of c, ...
    reading,    \* ... the collections it still reads, ...
    read,       \* ... <<collection, time>>: those read to their end, ...
    stream,     \* ... stream[c]: <<record, time>>, read of c and not saved yet, ...
    piped,      \* ... and how many of these, the first, have left the buffer
                \* of c for the pipeline
    accidents,  \* failed calls and kills so far
    unsaved,    \* history: records whose latest copy could not be saved
    shifted     \* history: collections updated when their next page was not the first

pipeline == <<stream, piped>>
run_state == <<export, since, page, reading, read, pipeline>>
exporter_vars == <<updated, copied, run_state, accidents, unsaved, shifted>>

Records_of(c) == {r \in Records : Collection[r] = c}

Nothing ==
    /\ since = [c \in Collections |-> 0]
    /\ page = [c \in Collections |-> 0]
    /\ reading = {}
    /\ read = {}
    /\ stream = [c \in Collections |-> <<>>]
    /\ piped = [c \in Collections |-> 0]

ExporterInit ==
    /\ updated = [r \in Records |-> 0]
    /\ copied = [r \in Records |-> 0]
    /\ export = "idle"
    /\ Nothing
    /\ accidents = 0
    /\ unsaved = {}
    /\ shifted = {}

-----------------------------------------------------------------------------
Times(f, c) == {f[r] : r \in Records_of(c)}
Clock == Max(UNION {Times(updated, c) : c \in Collections})

Accident == accidents < MaxMishaps /\ accidents' = accidents + 1

(* Somebody updates a record.                                              *)
UpdateRecord(r) ==
    /\ Clock < MaxUpdates
    /\ updated' = [updated EXCEPT ![r] = Clock + 1]
    /\ shifted' = shifted \cup {c \in reading : c = Collection[r] /\ page[c] > 1}
    /\ UNCHANGED <<copied, run_state, accidents, unsaved>>

(* main: each table is truncated, or its newest row is looked up (39-48,   *)
(* 160-189).                                                               *)
StartExport(truncate) ==
    /\ export = "idle"
    /\ export' = "running"
    /\ copied' = IF truncate THEN [r \in Records |-> 0] ELSE copied
    /\ since' = [c \in Collections |-> Max(Times(copied', c))]
    /\ page' = [c \in Collections |-> 0]
    /\ reading' = Collections
    /\ read' = {}
    /\ shifted' = IF truncate THEN {} ELSE shifted
    /\ unsaved' = IF truncate THEN {} ELSE unsaved
    /\ UNCHANGED <<updated, pipeline, accidents>>

(* The process is gone, whatever it had read.                              *)
Exits ==
    /\ export' = "idle"
    /\ since' = [c \in Collections |-> 0]
    /\ page' = [c \in Collections |-> 0]
    /\ reading' = {}
    /\ read' = {}
    /\ stream' = [c \in Collections |-> <<>>]
    /\ piped' = [c \in Collections |-> 0]

(* The records of c to be copied: those that are as new as its newest row  *)
(* (line 59).                                                              *)
Due(c) == {r \in Records_of(c) : updated[r] > 0 /\ updated[r] >= since[c]}

(* Mutant: the records are sorted from the newest to the oldest.           *)
Precedes_NewestFirst(q, r) == updated[q] > updated[r]

(* They are sorted by updatedAt (line 59).                                 *)
Precedes(q, r) == updated[q] < updated[r]
Rank(c, r) == Cardinality({q \in Due(c) : Precedes(q, r)})

(* The API counts pages from 1, and takes page 0 for the first: the first  *)
(* page is read twice.                                                     *)
Offset(c) == (IF page[c] = 0 THEN 0 ELSE page[c] - 1) * PageSize
PageOf(c) == {r \in Due(c) : Offset(c) <= Rank(c, r) /\ Rank(c, r) < Offset(c) + PageSize}

(* read is called while there is room in the buffer of c, also when the    *)
(* pipeline has ended.                                                     *)
MayRead(c) ==
    /\ export = "running"
    /\ c \in reading
    /\ Len(stream[c]) < piped[c] + PageSize

(* A page is read (57-63).                                                 *)
ReadPage(c) ==
    /\ MayRead(c)
    /\ PageOf(c) # {}
    /\ \E rows \in SetToSeqs({<<r, updated[r]>> : r \in PageOf(c)}) :
          /\ \A i, j \in DOMAIN rows : i < j => Precedes(rows[i][1], rows[j][1])
          /\ stream' = [stream EXCEPT ![c] = @ \o rows]
    /\ page' = [page EXCEPT ![c] = @ + 1]
    /\ UNCHANGED <<updated, copied, export, since, reading, read, piped, accidents,
                   unsaved, shifted>>

(* An empty page is the end of c (60).                                     *)
ReadEnd(c) ==
    /\ MayRead(c)
    /\ PageOf(c) = {}
    /\ reading' = reading \ {c}
    /\ read' = read \cup {<<c, Clock>>}
    /\ UNCHANGED <<updated, copied, export, since, page, pipeline, accidents, unsaved, shifted>>

(* A page cannot be read: the stream of c is destroyed with its buffer,    *)
(* which does not end the pipeline (64-67).                                *)
ReadFails(c) ==
    /\ Accident
    /\ MayRead(c)
    /\ reading' = reading \ {c}
    /\ stream' = [stream EXCEPT ![c] = SubSeq(@, 1, piped[c])]
    /\ UNCHANGED <<updated, copied, export, since, page, read, piped, unsaved, shifted>>

(* The pipe of a collection that is read to its end, and whose buffer is   *)
(* empty, ends the pipeline (189).                                         *)
Drained(c) == piped[c] = Len(stream[c])
Ended == \E e \in read : Drained(e[1])

(* Until then records go from the buffers into the pipeline (189).         *)
Pipe(c) ==
    /\ ~ Ended
    /\ ~ Drained(c)
    /\ MapThenSumSet(LAMBDA d : piped[d], Collections) < Ahead
    /\ piped' = [piped EXCEPT ![c] = @ + 1]
    /\ UNCHANGED <<updated, copied, export, since, page, reading, read, stream, accidents,
                   unsaved, shifted>>

(* What other collections still have in their buffers is written after     *)
(* that, an error nobody handles: the process dies.  Or, where a pipe      *)
(* waits for room, it is never written.                                    *)
WriteAfterEnd ==
    /\ Ended
    /\ \E c \in Collections : ~ Drained(c)
    /\ Exits
    /\ UNCHANGED <<updated, copied, accidents, unsaved, shifted>>

(* transform throws on a record: the process dies (86-96).                 *)
ConvertThrows ==
    /\ \E c \in Collections : \E i \in 1..piped[c] : stream[c][i] \in Unconvertible
    /\ Exits
    /\ UNCHANGED <<updated, copied, accidents, unsaved, shifted>>

(* A record of c leaves the pipeline.                                      *)
Leaves(c) ==
    /\ piped[c] > 0
    /\ Head(stream[c]) \notin Unconvertible
    /\ stream' = [stream EXCEPT ![c] = Tail(@)]
    /\ piped' = [piped EXCEPT ![c] = @ - 1]
    /\ UNCHANGED <<updated, export, since, page, reading, read, shifted>>

(* It becomes a row, or its row is updated (73-81, 118-137).               *)
SaveRecord(c) ==
    /\ Leaves(c)
    /\ copied' = [copied EXCEPT ![Head(stream[c])[1]] = Head(stream[c])[2]]
    /\ unsaved' = unsaved \ {Head(stream[c])[1]}
    /\ UNCHANGED accidents

(* The query fails, which is logged (123-127).                             *)
SaveRecordFails(c) ==
    /\ Accident
    /\ Leaves(c)
    /\ unsaved' = unsaved \cup {Head(stream[c])[1]}
    /\ UNCHANGED copied

(* Mutant: the process exits when the pipeline takes no more.              *)
FinishExport_AtEnd ==
    /\ Ended
    /\ Exits
    /\ UNCHANGED <<updated, copied, accidents, unsaved, shifted>>

(* The pipeline has ended and everything in it is saved: the process exits *)
(* (189-194), whatever is left of other collections.                       *)
FinishExport ==
    /\ Ended
    /\ \A c \in Collections : piped[c] = 0
    /\ Exits
    /\ UNCHANGED <<updated, copied, accidents, unsaved, shifted>>

(* The process is killed, as it must be when no stream ends.               *)
KillExport ==
    /\ Accident
    /\ export = "running"
    /\ Exits
    /\ UNCHANGED <<updated, copied, unsaved, shifted>>

ExporterNext ==
    \/ \E r \in Records : UpdateRecord(r)
    \/ \E truncate \in BOOLEAN : StartExport(truncate)
    \/ \E c \in Collections : ReadPage(c) \/ ReadEnd(c) \/ ReadFails(c) \/ Pipe(c)
    \/ \E c \in Collections : SaveRecord(c) \/ SaveRecordFails(c)
    \/ WriteAfterEnd \/ ConvertThrows
    \/ FinishExport
    \/ KillExport

ExporterSpec == ExporterInit /\ [][ExporterNext]_exporter_vars

-----------------------------------------------------------------------------
ExporterTypeOK ==
    /\ updated \in [Records -> 0..MaxUpdates]
    /\ copied \in [Records -> 0..MaxUpdates]
    /\ export \in {"idle", "running"}
    /\ since \in [Collections -> 0..MaxUpdates]
    /\ page \in [Collections -> Nat]
    /\ reading \subseteq Collections
    /\ read \subseteq Collections \X (0..MaxUpdates)
    /\ DOMAIN stream = Collections
    /\ \A c \in Collections : stream[c] \in Seq(Records_of(c) \X (1..MaxUpdates))
    /\ piped \in [Collections -> Nat]
    /\ \A c \in Collections : piped[c] <= Len(stream[c])
    /\ accidents \in 0..MaxMishaps
    /\ unsaved \subseteq Records
    /\ shifted \subseteq Collections

(* No run will copy the latest update of r any more: the table has a newer *)
(* row, and r is not in the stream.                                        *)
Passed(r) ==
    /\ copied[r] < updated[r]
    /\ updated[r] < Max(Times(copied, Collection[r]))

(* Between the runs, an update that no run will copy any more has a cause: *)
(* its query failed, or an update during a run moved the records between   *)
(* the pages.  Neither a killed run nor one that ended with another        *)
(* collection loses any.                                                   *)
PassedExplained ==
    export = "idle" => \A r \in Records :
        Passed(r) => r \in unsaved \/ Collection[r] \in shifted

(* When the process exits by itself, it has copied the collection that     *)
(* ended the pipeline, as it was when its last page was read, but for the  *)
(* same causes; and so any other that was read to its end and has nothing  *)
(* left in its buffer.  Of the rest nothing is promised.                   *)
ReadIsCopied ==
    [][FinishExport => \A e \in read : Drained(e[1]) => \A r \in Records_of(e[1]) :
          \/ copied[r] = updated[r] \/ updated[r] > e[2]
          \/ r \in unsaved \/ e[1] \in shifted]_exporter_vars
=============================================================================
