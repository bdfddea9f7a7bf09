---------------------------- MODULE Interactions ----------------------------
(***************************************************************************)
(* The interactions of one day (rfv/interactions.ts), a document for each  *)
(* reader in a collection several sources are merged into, one after the   *)
(* other:                                                                  *)
(*   - the mails the reader opened (interactions/sailthru.ts);             *)
(*   - the pages the reader viewed (interactions/es.ts), which go through  *)
(*     a temporary collection;                                             *)
(*   - what customers paid (interactions/membership.ts), through another   *)
(*     temporary collection;                                               *)
(* and whose count is calculated in the end.  A process does it once a day *)
(* (docker/crontab), another for the days named on its command line: both  *)
(* may be at the same day, and the temporary collections are named after   *)
(* the day.  A call to MongoDB that fails is logged, and the process goes  *)
(* on (common/mongo.js); any other ends the process.                       *)
(***************************************************************************)
EXTENDS ReaderSet, Naturals, FiniteSets, Sequences

CONSTANTS
    Daily,        \* processes the cron starts
    Named,        \* processes with the day on their command line
    Customers,    \* readers with orders of the month before
    MostReaders,  \* readers Elasticsearch answers: 5000
    MaxRuns,      \* bound on the processes started
    MaxNews,      \* bound on the late views and openings
    MaxDayErrors  \* bound on the calls that fail and processes that die

Processes == Daily \cup Named

ASSUME ProcessAssumption == Daily \cap Named = {}
ASSUME CustomerAssumption == IsFiniteSet(Readers) /\ Customers \subseteq Readers
ASSUME InteractionBoundAssumption ==
    /\ MostReaders \in Nat \ {0}
    /\ MaxRuns \in Nat /\ MaxNews \in Nat /\ MaxDayErrors \in Nat

VARIABLES
    viewed,      \* viewed[r]: pages Elasticsearch has of the day
    opens,       \* opens[r]: openings the API has of the day
    interaction, \* interaction[r]: the reader's document
    temporary,   \* temporary[c][r]: the records of r in collection c
    process,     \* each process: where it is, and what it has to insert
    counters,    \* processes started, late news, errors so far
    met,         \* history: a process began while another was under way
    disturbed    \* history: since one began with no other under way, a call
                 \* has failed, a process has died or news has come in

sources == <<viewed, opens>>
day_stored == <<interaction, temporary>>
interactions_vars == <<sources, day_stored, process, counters, met, disturbed>>

TempCollections == {"views", "payments"}
Views == 0..1 + MaxNews

(* day is a date, a string, or missing while there is no document.         *)
NoDocument == [day |-> "none", web |-> 0, mail |-> 0, count |-> 0, insider |-> FALSE]
NoneRecorded == [r \in Readers |-> 0]
Empty == [r \in Readers |-> <<>>]
Waiting == [at |-> "idle", records |-> NoneRecorded, into |-> "views"]

InteractionsInit ==
    /\ viewed \in [Readers -> {0, 1}]
    /\ opens \in [Readers -> {0, 1}]
    /\ interaction = [r \in Readers |-> NoDocument]
    /\ temporary = [c \in TempCollections |-> Empty]
    /\ process = [p \in Processes |-> Waiting]
    /\ counters = [runs |-> 0, news |-> 0, errors |-> 0]
    /\ met = FALSE
    /\ disturbed = TRUE

-----------------------------------------------------------------------------
At(p, place) == process[p].at = place
Moves(p, place) == process' = [process EXCEPT ![p].at = place]
Resting == \A p \in Processes : At(p, "idle")
Counted(what) == counters' = [counters EXCEPT ![what] = @ + 1]

Fine == UNCHANGED <<counters, disturbed>>
Fails ==
    /\ counters.errors < MaxDayErrors
    /\ Counted("errors")
    /\ disturbed' = TRUE

Kept(f) == {r \in Readers : f[r] > 0}
Recorded(c) == {r \in Readers : temporary[c][r] # <<>>}

(* Elasticsearch indexes a view, or the API imports an opening, of the day *)
(* only now.                                                               *)
News(r) ==
    /\ counters.news < MaxNews
    /\ Counted("news")
    /\ disturbed' = TRUE
    /\ \/ viewed' = [viewed EXCEPT ![r] = @ + 1] /\ UNCHANGED opens
       \/ opens' = [opens EXCEPT ![r] = @ + 1] /\ UNCHANGED viewed
    /\ UNCHANGED <<day_stored, process, met>>

BeginDay(p) ==
    /\ At(p, "idle")
    /\ counters.runs < MaxRuns
    /\ Counted("runs")
    /\ Moves(p, "mails")
    /\ met' = (met \/ ~Resting)
    /\ disturbed' = (disturbed /\ ~Resting)
    /\ UNCHANGED <<sources, day_stored>>

(* Mutant: the merge replaces the documents it matches.                    *)
OpeningsOf_Replace(r, doc) == [NoDocument EXCEPT !.day = "date", !.mail = opens[r]]

(* The mails are merged by the database itself, reader by reader; day is a *)
(* date.  The catch of sailthru.ts 90 lets the process go on.              *)
OpeningsOf(r, doc) == [doc EXCEPT !.day = "date", !.mail = opens[r]]

MergeMails(p) ==
    /\ At(p, "mails")
    /\ \E S \in SUBSET Kept(opens) :
          /\ interaction' = [r \in Readers |->
                 IF r \in S THEN OpeningsOf(r, interaction[r]) ELSE interaction[r]]
          /\ IF S = Kept(opens) THEN Fine ELSE Fails
    /\ Moves(p, "search")
    /\ UNCHANGED <<sources, temporary, met>>

(* The readers with most views, as many as are asked for (es.ts 98-108).   *)
Answers ==
    {S \in SUBSET Kept(viewed) :
        /\ Cardinality(S) <= MostReaders
        /\ S = Kept(viewed) \/ Cardinality(S) = MostReaders
        /\ \A r \in S, t \in Kept(viewed) \ S : viewed[r] >= viewed[t]}

Search(p) ==
    /\ At(p, "search")
    /\ \E S \in Answers :
          process' = [process EXCEPT ![p] =
              [at |-> "look", into |-> "views",
               records |-> [r \in Readers |-> IF r \in S THEN viewed[r] ELSE 0]]]
    /\ Fine
    /\ UNCHANGED <<sources, day_stored, met>>

(* The collection of an earlier process is dropped, if there is one; not   *)
(* to know is to go on (es.ts 27-29, membership.ts 162-164).               *)
Look(p) ==
    /\ At(p, "look")
    /\ \/ Moves(p, IF Recorded(process[p].into) # {} THEN "drop" ELSE "insert") /\ Fine
       \/ Moves(p, "insert") /\ Fails
    /\ UNCHANGED <<sources, day_stored, met>>

Dropped(p, next) ==
    /\ \/ temporary' = [temporary EXCEPT ![process[p].into] = Empty] /\ Fine
       \/ UNCHANGED temporary /\ Fails
    /\ Moves(p, next)
    /\ UNCHANGED <<sources, interaction, met>>

DropOld(p) == At(p, "drop") /\ Dropped(p, "insert")

(* A record is added behind those there are.                               *)
InsertRecord(p) ==
    /\ At(p, "insert")
    /\ \E r \in Kept(process[p].records) :
          /\ temporary' = [temporary EXCEPT
                 ![process[p].into][r] = Append(@, process[p].records[r])]
          /\ process' = [process EXCEPT ![p].records[r] = 0]
    /\ Fine
    /\ UNCHANGED <<sources, interaction, met>>

InsertRecordsFails(p) ==
    /\ At(p, "insert")
    /\ Kept(process[p].records) # {}
    /\ process' = [process EXCEPT ![p].records = NoneRecorded]
    /\ Fails
    /\ UNCHANGED <<sources, day_stored, met>>

(* Mutant: the views are merged without the day.                           *)
Merged_NoDay(c, record, doc) ==
    IF c = "views" THEN [doc EXCEPT !.web = record] ELSE [doc EXCEPT !.insider = TRUE]

(* What a record makes of a document.  The views come with the day as a    *)
(* string (es.ts 118-124), the payments without a day.                     *)
Merged(c, record, doc) ==
    IF c = "views" THEN [doc EXCEPT !.day = "string", !.web = record]
                   ELSE [doc EXCEPT !.insider = TRUE]

(* The records are merged in their order, so that the last of a reader     *)
(* stays; a merge that fails has come to any of them.                      *)
Merge(p) ==
    LET c == process[p].into IN
    /\ At(p, "insert")
    /\ Kept(process[p].records) = {}
    /\ \E upto \in [Readers -> UNION {0..Len(temporary[c][r]) : r \in Readers}] :
          /\ \A r \in Readers : upto[r] <= Len(temporary[c][r])
          /\ interaction' = [r \in Readers |->
                 IF upto[r] = 0 THEN interaction[r]
                 ELSE Merged(c, temporary[c][r][upto[r]], interaction[r])]
          /\ IF \A r \in Readers : upto[r] = Len(temporary[c][r]) THEN Fine ELSE Fails
    /\ Moves(p, IF c = "views" THEN "customers" ELSE "clear")
    /\ UNCHANGED <<sources, temporary, met>>

(* Documents whose day is the moment the process is about (membership.ts   *)
(* 6): midnight if it is named, else a moment no document has.             *)
Found(p) == {r \in Readers : p \in Named /\ interaction[r].day = "date"}

(* Without an order there is nothing to merge (157-160).                   *)
FindCustomers(p) ==
    /\ At(p, "customers")
    /\ process' = [process EXCEPT ![p] =
           IF Found(p) \cap Customers = {} THEN [Waiting EXCEPT !.at = "count"]
           ELSE [at |-> "look", into |-> "payments",
                 records |-> [r \in Readers |-> IF r \in Found(p) \cap Customers THEN 1 ELSE 0]]]
    /\ Fine
    /\ UNCHANGED <<sources, day_stored, met>>

DropNew(p) == At(p, "clear") /\ Dropped(p, "count")

(* Only documents whose day is a string are counted (interactions.ts 28).  *)
Summed(doc) == IF doc.day = "string" THEN [doc EXCEPT !.count = doc.web + doc.mail] ELSE doc

Count(p) ==
    /\ At(p, "count")
    /\ \/ interaction' = [r \in Readers |-> Summed(interaction[r])] /\ Fine
       \/ UNCHANGED interaction /\ Fails
    /\ process' = [process EXCEPT ![p] = Waiting]
    /\ UNCHANGED <<sources, temporary, met>>

(* The process is killed, or a call of another kind fails: Elasticsearch   *)
(* (es.ts 111), the readers, or membership.ts 157, whose interactions are  *)
(* undefined after a failed find.                                          *)
EndEarly(p) ==
    /\ ~At(p, "idle")
    /\ Fails
    /\ process' = [process EXCEPT ![p] = Waiting]
    /\ UNCHANGED <<sources, day_stored, met>>

InteractionsNext ==
    \/ \E r \in Readers : News(r)
    \/ \E p \in Processes :
          \/ BeginDay(p) \/ MergeMails(p) \/ Search(p)
          \/ Look(p) \/ DropOld(p) \/ InsertRecord(p) \/ InsertRecordsFails(p) \/ Merge(p)
          \/ FindCustomers(p) \/ DropNew(p) \/ Count(p) \/ EndEarly(p)

InteractionsSpec == InteractionsInit /\ [][InteractionsNext]_interactions_vars

-----------------------------------------------------------------------------
Certain ==
    {r \in Kept(viewed) : Cardinality({t \in Readers : viewed[t] >= viewed[r]}) <= MostReaders}

(* Processes at one day share its temporary collections, drop them under   *)
(* each other's feet, and set the day of a document to and fro; what an    *)
(* earlier process left when it failed is still there.  Yet when all have  *)
(* ended and nothing failed meanwhile, every reader whom Elasticsearch     *)
(* answers for certain has all views and all openings counted.             *)
ViewersCounted ==
    Resting /\ ~disturbed =>
        \A r \in Certain : /\ interaction[r].web = viewed[r]
                           /\ interaction[r].count = viewed[r] + opens[r]

(* Without overlap, whatever fails or is left half done, a later process   *)
(* never replaces the views of a reader by fewer.  Only a merge that fails *)
(* as the third call or later may: after two drops that failed it can end  *)
(* between two records of a reader.                                        *)
WebNeverFalls ==
    [][~met /\ (counters'.errors <= 2 \/ counters'.errors = counters.errors) =>
          \A r \in Readers : interaction'[r].web >= interaction[r].web]_interactions_vars

(* Every variable has its type.                                            *)
InteractionsTypeOK ==
    /\ viewed \in [Readers -> Views] /\ opens \in [Readers -> Views]
    /\ interaction \in [Readers -> [day : {"none", "date", "string"}, web : Views, mail : Views,
                                    count : 0..2 * (1 + MaxNews), insider : BOOLEAN]]
    /\ temporary \in [TempCollections -> [Readers -> Seq(Views)]]
    /\ process \in [Processes -> [at : {"idle", "mails", "search", "look", "drop", "insert",
                                        "customers", "clear", "count"},
                                  records : [Readers -> Views], into : TempCollections]]
    /\ counters \in [runs : 0..MaxRuns, news : 0..MaxNews, errors : 0..MaxDayErrors]
    /\ met \in BOOLEAN /\ disturbed \in BOOLEAN
=============================================================================
