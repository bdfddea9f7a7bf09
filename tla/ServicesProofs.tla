--------------------------- MODULE ServicesProofs ---------------------------
(***************************************************************************)
(* What is known of readers and articles, for any number of readers,       *)
(* processes, posts, articles, filters and fetches: that a day's views and *)
(* openings are counted (Interactions); what is answered about the views   *)
(* of posts and the articles viewed most (PostViews, TopArticles); what    *)
(* the dashboard shows when it says that the articles are loaded           *)
(* (Dashboard); and that in all services (Services) every variable keeps   *)
(* its type.                                                               *)
(***************************************************************************)
EXTENDS Services, CopiesProofs, FiniteSetTheorems, SequenceTheorems, TLAPS

-----------------------------------------------------------------------------
(* The interactions of a day.  Seen: no record, document or list of        *)
(* records has more views than the reader.  WebInv: without overlap the    *)
(* records of a reader stand in the order of their views, the document has *)
(* no more than the last (Growing) and, until two calls have failed, than  *)
(* any that is merged (NoneFewer).  CountInv: while nothing fails, each    *)
(* reader certain to be answered is counted, or a process is about to      *)
(* merge the views.                                                        *)

Stages == {"idle", "mails", "search", "look", "drop", "insert", "customers", "clear", "count"}
Doings == [at : Stages, records : [Readers -> Views], into : TempCollections]
Documents == [day : {"none", "date", "string"}, web : Views, mail : Views,
              count : 0..2 * (1 + MaxNews), insider : BOOLEAN]

Log(r) == temporary["views"][r]
Viewing(p) == process[p].at \in {"look", "drop", "insert"} /\ process[p].into = "views"
Inserting(p) == process[p].at = "insert" /\ process[p].into = "views"

Seen ==
    /\ \A r \in Readers : viewed[r] <= 1 + counters.news /\ opens[r] <= 1 + counters.news
    /\ \A r \in Readers : opens[r] = 0 => interaction[r].mail = 0
    /\ \A p \in Processes : At(p, "clear") => process[p].into = "payments"
    /\ \A r \in Readers : interaction[r].web <= viewed[r]
    /\ \A r \in Readers : \A i \in 1..Len(Log(r)) : Log(r)[i] <= viewed[r]
    /\ \A p \in Processes : Viewing(p) => \A r \in Readers : process[p].records[r] <= viewed[r]

Basics == InteractionsTypeOK /\ Seen

(* Without overlap.                                                        *)
Alone == \A p, q \in Processes : At(p, "idle") \/ At(q, "idle") \/ p = q

Growing ==
    \A r \in Readers :
        /\ \A i, j \in 1..Len(Log(r)) : i <= j => Log(r)[i] <= Log(r)[j]
        /\ Len(Log(r)) # 0 => interaction[r].web <= Log(r)[Len(Log(r))]

Newer ==
    \A p \in Processes : Viewing(p) => \A r \in Readers : process[p].records[r] > 0 =>
        /\ interaction[r].web <= process[p].records[r]
        /\ \A i \in 1..Len(Log(r)) : Log(r)[i] <= process[p].records[r]

Single ==
    counters.errors = 0 => \A r \in Readers :
        /\ Len(Log(r)) <= 1
        /\ \A p \in Processes : Inserting(p) /\ process[p].records[r] > 0 => Len(Log(r)) = 0

NoneFewer ==
    counters.errors <= 1 => \A p \in Processes : Inserting(p) =>
        \A r \in Readers : \A i \in 1..Len(Log(r)) : interaction[r].web <= Log(r)[i]

WebInv == ~met => Alone /\ Growing /\ Newer /\ Single /\ NoneFewer

(* While nothing fails and nothing new comes in.                           *)
MailsMerged ==
    \/ \A r \in Readers : interaction[r].mail = opens[r]
    \/ \A p \in Processes : At(p, "idle") \/ At(p, "mails")

AsViewed ==
    \A p \in Processes : \A r \in Readers :
        /\ Viewing(p) => process[p].records[r] \in {0, viewed[r]}
        /\ Viewing(p) /\ ~At(p, "insert") /\ r \in Certain => process[p].records[r] = viewed[r]
        /\ Inserting(p) => \A i \in 1..Len(Log(r)) : Log(r)[i] = viewed[r]

WillMerge(p, r) ==
    \/ At(p, "mails") \/ At(p, "search")
    \/ Viewing(p) /\ ~At(p, "insert")
    \/ Inserting(p) /\ (process[p].records[r] = viewed[r] \/ Len(Log(r)) # 0)

HasCount(r) ==
    /\ interaction[r].web = viewed[r]
    /\ interaction[r].day = "string"
    /\ ~Resting \/ interaction[r].count = viewed[r] + opens[r]

Counting == \A r \in Certain : HasCount(r) \/ \E p \in Processes : WillMerge(p, r)

CountInv == ~disturbed => MailsMerged /\ AsViewed /\ Counting

-----------------------------------------------------------------------------
(* The types, one by one.                                                  *)

LEMMA ViewsAreNumbers == Views \subseteq Nat /\ 0 \in Views /\ 1 \in Views /\ MaxNews \in Nat
BY InteractionBoundAssumption DEF Views

LEMMA StoredTypes ==
    ASSUME InteractionsTypeOK
    PROVE  /\ \A r \in Readers : viewed[r] \in Views /\ opens[r] \in Views
           /\ \A r \in Readers :
                /\ interaction[r].day \in {"none", "date", "string"}
                /\ interaction[r].web \in Views /\ interaction[r].mail \in Views
                /\ interaction[r] \in Documents
           /\ \A c \in TempCollections, r \in Readers : temporary[c][r] \in Seq(Views)
<1>1. interaction \in [Readers -> Documents]
  BY DEF InteractionsTypeOK, Documents
<1>2. \A r \in Readers : interaction[r] \in Documents
  BY <1>1
<1>3. \A d \in Documents : d.day \in {"none", "date", "string"} /\ d.web \in Views /\ d.mail \in Views
  BY DEF Documents
<1>4. QED
  BY <1>2, <1>3 DEF InteractionsTypeOK

LEMMA LogTypes ==
    ASSUME InteractionsTypeOK, NEW r \in Readers
    PROVE  /\ Log(r) \in Seq(Views) /\ Len(Log(r)) \in Nat
           /\ \A i \in 1..Len(Log(r)) : Log(r)[i] \in Views
<1>1. Log(r) \in Seq(Views)
  BY StoredTypes DEF Log, TempCollections
<1>2. QED
  BY <1>1, LenProperties, ElementOfSeq

LEMMA ProcessTypes ==
    ASSUME InteractionsTypeOK, NEW p \in Processes
    PROVE  /\ process[p] \in Doings
           /\ process[p].at \in Stages /\ process[p].into \in {"views", "payments"}
           /\ process[p].records \in [Readers -> Views]
           /\ \A r \in Readers : process[p].records[r] \in Views
<1>1. process \in [Processes -> Doings]
  BY DEF InteractionsTypeOK, Doings, Stages
<1>2. process[p] \in Doings
  BY <1>1
<1>3. \A d \in Doings : d.at \in Stages /\ d.into \in {"views", "payments"}
                          /\ d.records \in [Readers -> Views]
  BY DEF Doings, TempCollections
<1>4. QED
  BY <1>2, <1>3

LEMMA TypeOKOf ==
    InteractionsTypeOK <=>
        /\ viewed \in [Readers -> Views] /\ opens \in [Readers -> Views]
        /\ interaction \in [Readers -> Documents]
        /\ temporary \in [TempCollections -> [Readers -> Seq(Views)]]
        /\ process \in [Processes -> Doings]
        /\ counters \in [runs : 0..MaxRuns, news : 0..MaxNews, errors : 0..MaxDayErrors]
        /\ met \in BOOLEAN /\ disturbed \in BOOLEAN
BY DEF InteractionsTypeOK, Documents, Doings, Stages

LEMMA MovesTo ==
    ASSUME InteractionsTypeOK, NEW p \in Processes, NEW place \in Stages, Moves(p, place)
    PROVE  /\ process' \in [Processes -> Doings]
           /\ process'[p].at = place /\ process'[p].into = process[p].into
           /\ process'[p].records = process[p].records
           /\ \A q \in Processes \ {p} : process'[q] = process[q]
<1>1. process \in [Processes -> Doings]
  BY TypeOKOf
<1>2. process' = [process EXCEPT ![p].at = place]
  BY DEF Moves
<1>3. \A d \in Doings : [d EXCEPT !.at = place] \in Doings
  BY DEF Doings
<1>4. \A d \in Doings : /\ [d EXCEPT !.at = place].at = place /\ [d EXCEPT !.at = place].into = d.into
                        /\ [d EXCEPT !.at = place].records = d.records
  BY DEF Doings
<1>5. process'[p] = [process[p] EXCEPT !.at = place]
  BY <1>1, <1>2
<1>6. QED
  BY <1>1, <1>2, <1>3, <1>4, <1>5

(* A process that is somewhere else with other records.                    *)
LEMMA BecomesAnother ==
    ASSUME InteractionsTypeOK, NEW p \in Processes, NEW d \in Doings, process' = [process EXCEPT ![p] = d]
    PROVE  /\ process' \in [Processes -> Doings]
           /\ process'[p] = d
           /\ \A q \in Processes \ {p} : process'[q] = process[q]
<1>1. process \in [Processes -> Doings]
  BY TypeOKOf
<1>2. QED
  BY <1>1

LEMMA WaitingType == Waiting \in Doings /\ Waiting.at = "idle"
BY ViewsAreNumbers DEF Waiting, Doings, Stages, NoneRecorded, TempCollections

LEMMA CountersType ==
    ASSUME InteractionsTypeOK
    PROVE  /\ counters \in [runs : 0..MaxRuns, news : 0..MaxNews, errors : 0..MaxDayErrors]
           /\ counters.runs \in 0..MaxRuns /\ counters.news \in 0..MaxNews
           /\ counters.errors \in 0..MaxDayErrors
           /\ MaxRuns \in Nat /\ MaxNews \in Nat /\ MaxDayErrors \in Nat
BY InteractionBoundAssumption DEF InteractionsTypeOK

LEMMA Accounted ==
    ASSUME InteractionsTypeOK, Fine \/ Fails
    PROVE  /\ counters' \in [runs : 0..MaxRuns, news : 0..MaxNews, errors : 0..MaxDayErrors]
           /\ counters'.news = counters.news
           /\ disturbed' \in BOOLEAN
           /\ \/ counters'.errors = counters.errors /\ disturbed' = disturbed
              \/ counters'.errors = counters.errors + 1 /\ disturbed' = TRUE
           /\ counters.errors \in Nat
<1>1. CASE Fine
  BY <1>1, CountersType DEF Fine, InteractionsTypeOK
<1>2. CASE Fails
  <2>1. counters' = [counters EXCEPT !["errors"] = @ + 1] /\ counters.errors < MaxDayErrors
    BY <1>2 DEF Fails, Counted
  <2>2. counters.errors + 1 \in 0..MaxDayErrors
    BY <2>1, CountersType
  <2>3. QED
    BY <1>2, <2>1, <2>2, CountersType DEF Fails
<1>3. QED
  BY <1>1, <1>2

-----------------------------------------------------------------------------
(* What each action does, reader by reader and process by process.         *)

LEMMA NewsDoes ==
    ASSUME Basics, NEW r \in Readers, News(r)
    PROVE  /\ InteractionsTypeOK'
           /\ \A q \in Readers :
                /\ viewed[q] <= viewed'[q] /\ viewed'[q] <= 1 + counters'.news
                /\ opens[q] <= opens'[q] /\ opens'[q] <= 1 + counters'.news
           /\ counters'.errors = counters.errors /\ disturbed' = TRUE
           /\ UNCHANGED <<interaction, temporary, process, met>>
<1>1. /\ counters' = [counters EXCEPT !["news"] = @ + 1] /\ counters.news < MaxNews /\ disturbed' = TRUE
      /\ \/ viewed' = [viewed EXCEPT ![r] = @ + 1] /\ UNCHANGED opens
         \/ opens' = [opens EXCEPT ![r] = @ + 1] /\ UNCHANGED viewed
      /\ UNCHANGED <<interaction, temporary, process, met>>
  BY DEF News, Counted, day_stored
<1>2. /\ counters' \in [runs : 0..MaxRuns, news : 0..MaxNews, errors : 0..MaxDayErrors]
      /\ counters'.news = counters.news + 1 /\ counters'.errors = counters.errors
      /\ counters.news \in Nat /\ counters'.news \in 0..MaxNews /\ MaxNews \in Nat
  <2>1. counters.news + 1 \in 0..MaxNews
    BY <1>1, CountersType DEF Basics
  <2>2. QED
    BY <1>1, <2>1, CountersType DEF Basics
<1>3. /\ viewed \in [Readers -> Views] /\ opens \in [Readers -> Views]
      /\ \A q \in Readers : viewed[q] \in Nat /\ opens[q] \in Nat
      /\ \A q \in Readers : viewed[q] <= 1 + counters.news /\ opens[q] <= 1 + counters.news
  BY TypeOKOf, ViewsAreNumbers DEF Basics, Seen
<1>4. /\ viewed' \in [Readers -> Nat] /\ opens' \in [Readers -> Nat]
      /\ \A q \in Readers : viewed'[q] \in {viewed[q], viewed[q] + 1} /\ opens'[q] \in {opens[q], opens[q] + 1}
  <2>1. viewed \in [Readers -> Nat] /\ opens \in [Readers -> Nat]
    BY <1>3
  <2>2. viewed[r] + 1 \in Nat /\ opens[r] + 1 \in Nat
    BY <1>3
  <2>3. QED
    BY <1>1, <2>1, <2>2
<1>5. \A q \in Readers :
                /\ viewed[q] <= viewed'[q] /\ viewed'[q] <= 1 + counters'.news
                /\ opens[q] <= opens'[q] /\ opens'[q] <= 1 + counters'.news
  BY <1>2, <1>3, <1>4
<1>6. viewed' \in [Readers -> Views] /\ opens' \in [Readers -> Views]
  <2>1. \A q \in Readers : viewed'[q] \in 0..1 + MaxNews /\ opens'[q] \in 0..1 + MaxNews
    BY <1>2, <1>3, <1>4, <1>5
  <2>2. QED
    BY <1>4, <2>1 DEF Views
<1>7. InteractionsTypeOK'
  BY <1>1, <1>2, <1>6 DEF Basics, InteractionsTypeOK
<1>8. QED
  BY <1>1, <1>2, <1>5, <1>7

LEMMA BeginDayDoes ==
    ASSUME Basics, NEW p \in Processes, BeginDay(p)
    PROVE  /\ InteractionsTypeOK'
           /\ process[p].at = "idle" /\ process'[p].at = "mails"
           /\ \A q \in Processes \ {p} : process'[q] = process[q]
           /\ counters'.news = counters.news /\ counters'.errors = counters.errors
           /\ met' = (met \/ ~Resting) /\ disturbed' = (disturbed /\ ~Resting)
           /\ UNCHANGED <<viewed, opens, interaction, temporary>>
<1>1. /\ counters' = [counters EXCEPT !["runs"] = @ + 1] /\ counters.runs < MaxRuns
      /\ process[p].at = "idle" /\ Moves(p, "mails")
      /\ met' = (met \/ ~Resting) /\ disturbed' = (disturbed /\ ~Resting)
      /\ UNCHANGED <<viewed, opens, interaction, temporary>>
  BY DEF BeginDay, At, Counted, sources, day_stored
<1>2. /\ counters' \in [runs : 0..MaxRuns, news : 0..MaxNews, errors : 0..MaxDayErrors]
      /\ counters'.news = counters.news /\ counters'.errors = counters.errors
  <2>1. counters.runs + 1 \in 0..MaxRuns
    BY <1>1, CountersType DEF Basics
  <2>2. QED
    BY <1>1, <2>1, CountersType DEF Basics
<1>3. /\ process' \in [Processes -> Doings] /\ process'[p].at = "mails"
      /\ \A q \in Processes \ {p} : process'[q] = process[q]
  BY <1>1, MovesTo DEF Basics, Stages
<1>4. met' \in BOOLEAN /\ disturbed' \in BOOLEAN
  BY <1>1
<1>5. InteractionsTypeOK'
  BY <1>1, <1>2, <1>3, <1>4 DEF Basics, InteractionsTypeOK, Doings, Stages
<1>6. QED
  BY <1>1, <1>2, <1>3, <1>5

LEMMA MergeMailsDoes ==
    ASSUME Basics, NEW p \in Processes, MergeMails(p)
    PROVE  /\ InteractionsTypeOK'
           /\ process[p].at = "mails" /\ process'[p].at = "search"
           /\ \A q \in Processes \ {p} : process'[q] = process[q]
           /\ \A r \in Readers :
                /\ interaction'[r].web = interaction[r].web
                /\ interaction'[r].count = interaction[r].count
                /\ opens[r] = 0 => interaction'[r].mail = interaction[r].mail
                /\ ~disturbed' => (opens[r] > 0 => interaction'[r].mail = opens[r])
           /\ Fine \/ Fails
           /\ UNCHANGED <<viewed, opens, temporary, met>>
<1>1. PICK S \in SUBSET Kept(opens) :
        /\ interaction' = [r \in Readers |->
                 IF r \in S THEN [interaction[r] EXCEPT !.day = "date", !.mail = opens[r]]
                 ELSE interaction[r]]
        /\ IF S = Kept(opens) THEN Fine ELSE Fails
  BY DEF MergeMails, OpeningsOf
<1>2. /\ process[p].at = "mails" /\ Moves(p, "search") /\ UNCHANGED <<viewed, opens, temporary, met>>
      /\ Fine \/ Fails
  BY <1>1 DEF MergeMails, At, sources
<1>3. /\ process' \in [Processes -> Doings] /\ process'[p].at = "search"
      /\ \A q \in Processes \ {p} : process'[q] = process[q]
  BY <1>2, MovesTo DEF Basics, Stages
<1>4. \A r \in Readers : interaction[r] \in Documents /\ opens[r] \in Views
  BY StoredTypes DEF Basics
<1>5. ASSUME NEW d \in Documents, NEW n \in Views
      PROVE  LET e == [d EXCEPT !.day = "date", !.mail = n] IN
             e \in Documents /\ e.web = d.web /\ e.count = d.count /\ e.mail = n
  BY DEF Documents
<1>6. interaction' \in [Readers -> Documents]
  <2>1. \A r \in Readers : interaction'[r] \in Documents
    BY <1>1, <1>4, <1>5
  <2>2. QED
    BY <1>1, <2>1
<1>7. \A r \in Readers :
                /\ interaction'[r].web = interaction[r].web
                /\ interaction'[r].count = interaction[r].count
                /\ opens[r] = 0 => interaction'[r].mail = interaction[r].mail
                /\ r \in S => interaction'[r].mail = opens[r]
  <2> SUFFICES ASSUME NEW r \in Readers
               PROVE  /\ interaction'[r].web = interaction[r].web
                      /\ interaction'[r].count = interaction[r].count
                      /\ opens[r] = 0 => interaction'[r].mail = interaction[r].mail
                      /\ r \in S => interaction'[r].mail = opens[r]
    OBVIOUS
  <2>1. CASE r \in S
    <3>1. interaction'[r] = [interaction[r] EXCEPT !.day = "date", !.mail = opens[r]]
      BY <1>1, <2>1
    <3>2. opens[r] > 0 /\ opens[r] # 0
      BY <2>1 DEF Kept
    <3>3. LET e == [interaction[r] EXCEPT !.day = "date", !.mail = opens[r]] IN
            e.web = interaction[r].web /\ e.count = interaction[r].count /\ e.mail = opens[r]
      BY <1>4, <1>5
    <3>4. QED
      BY <3>1, <3>2, <3>3
  <2>2. CASE r \notin S
    BY <1>1, <2>2
  <2>3. QED
    BY <2>1, <2>2
<1>8. ~disturbed' => S = Kept(opens)
  BY <1>1 DEF Fails
<1>9. InteractionsTypeOK'
  BY <1>2, <1>3, <1>6, Accounted DEF Basics, InteractionsTypeOK, Documents, Doings, Stages
<1>10. QED
  BY <1>2, <1>3, <1>7, <1>8, <1>9 DEF Kept

LEMMA SearchDoes ==
    ASSUME Basics, NEW p \in Processes, Search(p)
    PROVE  /\ InteractionsTypeOK'
           /\ process[p].at = "search" /\ process'[p].at = "look" /\ process'[p].into = "views"
           /\ \E S \in Answers : \A r \in Readers :
                process'[p].records[r] = IF r \in S THEN viewed[r] ELSE 0
           /\ \A q \in Processes \ {p} : process'[q] = process[q]
           /\ Fine
           /\ UNCHANGED <<viewed, opens, interaction, temporary, met>>
<1>1. PICK S \in Answers : process' = [process EXCEPT ![p] =
              [at |-> "look", into |-> "views",
               records |-> [r \in Readers |-> IF r \in S THEN viewed[r] ELSE 0]]]
  BY DEF Search
<1> DEFINE d == [at |-> "look", into |-> "views",
               records |-> [r \in Readers |-> IF r \in S THEN viewed[r] ELSE 0]]
<1>2. d \in Doings
  <2>1. \A r \in Readers : (IF r \in S THEN viewed[r] ELSE 0) \in Views
    BY ViewsAreNumbers, StoredTypes DEF Basics
  <2>2. QED
    BY <2>1 DEF Doings, Stages, TempCollections
<1>3. d.at = "look" /\ d.into = "views" /\ \A r \in Readers : d.records[r] = IF r \in S THEN viewed[r] ELSE 0
  OBVIOUS
<1> HIDE DEF d
<1>4. /\ process' \in [Processes -> Doings] /\ process'[p] = d
      /\ \A q \in Processes \ {p} : process'[q] = process[q]
  BY <1>1, <1>2, BecomesAnother DEF Basics, d
<1>5. /\ process[p].at = "search" /\ Fine /\ UNCHANGED <<viewed, opens, interaction, temporary, met>>
  BY DEF Search, At, sources, day_stored
<1>6. InteractionsTypeOK'
  BY <1>4, <1>5, Accounted DEF Basics, InteractionsTypeOK, Doings, Stages
<1>7. QED
  BY <1>3, <1>4, <1>5, <1>6

LEMMA LookDoes ==
    ASSUME Basics, NEW p \in Processes, Look(p)
    PROVE  /\ InteractionsTypeOK'
           /\ process[p].at = "look"
           /\ \/ process'[p].at = "drop" /\ Fine
              \/ /\ process'[p].at = "insert" /\ Fine
                 /\ \A r \in Readers : temporary[process[p].into][r] = <<>>
              \/ process'[p].at = "insert" /\ Fails
           /\ process'[p].into = process[p].into /\ process'[p].records = process[p].records
           /\ \A q \in Processes \ {p} : process'[q] = process[q]
           /\ UNCHANGED <<viewed, opens, interaction, temporary, met>>
<1>1. /\ process[p].at = "look"
      /\ \/ Moves(p, "drop") /\ Fine
         \/ Moves(p, "insert") /\ Fine /\ Recorded(process[p].into) = {}
         \/ Moves(p, "insert") /\ Fails
      /\ UNCHANGED <<viewed, opens, interaction, temporary, met>>
  BY DEF Look, At, sources, day_stored
<1>2. "drop" \in Stages /\ "insert" \in Stages
  BY DEF Stages
<1>3. \/ Moves(p, "drop") /\ process'[p].at = "drop"
      \/ Moves(p, "insert") /\ process'[p].at = "insert"
  BY <1>1, <1>2, MovesTo DEF Basics
<1>4. /\ process' \in [Processes -> Doings]
      /\ process'[p].into = process[p].into /\ process'[p].records = process[p].records
      /\ \A q \in Processes \ {p} : process'[q] = process[q]
  BY <1>1, <1>2, MovesTo DEF Basics
<1>5. InteractionsTypeOK'
  BY <1>1, <1>4, Accounted DEF Basics, InteractionsTypeOK, Doings, Stages
<1>6. /\ Moves(p, "drop") => process'[p].at = "drop"
      /\ Moves(p, "insert") => process'[p].at = "insert"
  BY <1>2, MovesTo DEF Basics
<1>7. QED
  BY <1>1, <1>4, <1>5, <1>6 DEF Recorded

LEMMA DroppedDoes ==
    ASSUME Basics, NEW p \in Processes, NEW next \in Stages, Dropped(p, next)
    PROVE  /\ InteractionsTypeOK'
           /\ process'[p].at = next
           /\ process'[p].into = process[p].into /\ process'[p].records = process[p].records
           /\ \A q \in Processes \ {p} : process'[q] = process[q]
           /\ \/ /\ Fine /\ \A r \in Readers : temporary'[process[p].into][r] = <<>>
                 /\ \A c \in TempCollections \ {process[p].into} : temporary'[c] = temporary[c]
              \/ Fails /\ UNCHANGED temporary
           /\ UNCHANGED <<viewed, opens, interaction, met>>
<1>1. /\ \/ temporary' = [temporary EXCEPT ![process[p].into] = Empty] /\ Fine
         \/ UNCHANGED temporary /\ Fails
      /\ Moves(p, next)
      /\ UNCHANGED <<viewed, opens, interaction, met>>
  BY DEF Dropped, sources
<1>2. /\ process' \in [Processes -> Doings] /\ process'[p].at = next
      /\ process'[p].into = process[p].into /\ process'[p].records = process[p].records
      /\ \A q \in Processes \ {p} : process'[q] = process[q]
  BY <1>1, MovesTo DEF Basics
<1>3. Empty \in [Readers -> Seq(Views)] /\ \A r \in Readers : Empty[r] = <<>>
  BY EmptySeq DEF Empty
<1>4. temporary \in [TempCollections -> [Readers -> Seq(Views)]] /\ process[p].into \in TempCollections
  BY TypeOKOf, ProcessTypes DEF Basics, TempCollections
<1>5. /\ temporary' \in [TempCollections -> [Readers -> Seq(Views)]]
      /\ \/ /\ Fine /\ \A r \in Readers : temporary'[process[p].into][r] = <<>>
            /\ \A c \in TempCollections \ {process[p].into} : temporary'[c] = temporary[c]
         \/ Fails /\ UNCHANGED temporary
  <2>1. CASE temporary' = [temporary EXCEPT ![process[p].into] = Empty] /\ Fine
    <3>1. /\ temporary' \in [TempCollections -> [Readers -> Seq(Views)]]
          /\ temporary'[process[p].into] = Empty
          /\ \A c \in TempCollections \ {process[p].into} : temporary'[c] = temporary[c]
      BY <1>3, <1>4, <2>1
    <3>2. QED
      BY <1>3, <2>1, <3>1
  <2>2. CASE UNCHANGED temporary /\ Fails
    BY <1>4, <2>2
  <2>3. QED
    BY <1>1, <2>1, <2>2
<1>6. InteractionsTypeOK'
  BY <1>1, <1>2, <1>5, Accounted DEF Basics, InteractionsTypeOK, Doings, Stages
<1>7. QED
  BY <1>1, <1>2, <1>5, <1>6

LEMMA InsertRecordDoes ==
    ASSUME Basics, NEW p \in Processes, InsertRecord(p)
    PROVE  /\ InteractionsTypeOK'
           /\ process[p].at = "insert" /\ process'[p].at = "insert" /\ process'[p].into = process[p].into
           /\ \A q \in Processes \ {p} : process'[q] = process[q]
           /\ \E r \in Readers :
                /\ process[p].records[r] > 0 /\ process'[p].records[r] = 0
                /\ \A s \in Readers \ {r} : process'[p].records[s] = process[p].records[s]
                /\ temporary'[process[p].into][r]
                     = Append(temporary[process[p].into][r], process[p].records[r])
                /\ \A c \in TempCollections, s \in Readers :
                     c # process[p].into \/ s # r => temporary'[c][s] = temporary[c][s]
           /\ Fine
           /\ UNCHANGED <<viewed, opens, interaction, met>>
<1>1. PICK r \in Readers :
        /\ process[p].records[r] > 0
        /\ temporary' = [temporary EXCEPT
                 ![process[p].into][r] = Append(@, process[p].records[r])]
        /\ process' = [process EXCEPT ![p].records[r] = 0]
  BY DEF InsertRecord, Kept
<1>2. process[p].at = "insert" /\ Fine /\ UNCHANGED <<viewed, opens, interaction, met>>
  BY DEF InsertRecord, At, sources
<1> DEFINE c == process[p].into
           v == process[p].records[r]
           f == [process[p].records EXCEPT ![r] = 0]
           d == [process[p] EXCEPT !.records = f]
           g == [temporary[c] EXCEPT ![r] = Append(temporary[c][r], v)]
<1>3. /\ process[p] \in Doings /\ process[p].records \in [Readers -> Views] /\ v \in Views
      /\ c \in TempCollections
  BY ProcessTypes DEF Basics, TempCollections
<1>4. f \in [Readers -> Views] /\ f[r] = 0 /\ \A s \in Readers \ {r} : f[s] = process[p].records[s]
  BY <1>3, ViewsAreNumbers
<1> HIDE DEF f
<1>5. d \in Doings /\ d.at = process[p].at /\ d.into = process[p].into /\ d.records = f
  BY <1>3, <1>4 DEF Doings
<1>6. process' = [process EXCEPT ![p] = d]
  BY <1>1 DEF f
<1> HIDE DEF d
<1>7. /\ process' \in [Processes -> Doings] /\ process'[p] = d
      /\ \A q \in Processes \ {p} : process'[q] = process[q]
  BY <1>5, <1>6, BecomesAnother DEF Basics
<1>8. temporary \in [TempCollections -> [Readers -> Seq(Views)]]
  BY TypeOKOf DEF Basics
<1>9. temporary' = [temporary EXCEPT ![c] = g]
  BY <1>1
<1>10. temporary[c] \in [Readers -> Seq(Views)] /\ temporary[c][r] \in Seq(Views)
  BY <1>3, <1>8
<1> HIDE DEF c, v
<1>11. Append(temporary[c][r], v) \in Seq(Views)
  BY <1>3, <1>10
<1>12. /\ g \in [Readers -> Seq(Views)] /\ g[r] = Append(temporary[c][r], v)
       /\ \A s \in Readers \ {r} : g[s] = temporary[c][s]
  BY <1>10, <1>11
<1> HIDE DEF g
<1>13. /\ temporary' \in [TempCollections -> [Readers -> Seq(Views)]]
       /\ temporary'[c] = g /\ \A e \in TempCollections \ {c} : temporary'[e] = temporary[e]
  BY <1>3, <1>8, <1>9, <1>12
<1>14. InteractionsTypeOK'
  BY <1>2, <1>7, <1>13, Accounted DEF Basics, InteractionsTypeOK, Doings, Stages
<1>15. /\ temporary'[c][r] = Append(temporary[c][r], v)
       /\ \A e \in TempCollections, s \in Readers : e # c \/ s # r => temporary'[e][s] = temporary[e][s]
  BY <1>12, <1>13
<1>16. process'[p].records = f /\ process'[p].at = "insert" /\ process'[p].into = process[p].into
  BY <1>2, <1>5, <1>7
<1>17. /\ process[p].records[r] > 0 /\ process'[p].records[r] = 0
       /\ \A s \in Readers \ {r} : process'[p].records[s] = process[p].records[s]
  BY <1>1, <1>4, <1>16
<1>18. /\ temporary'[process[p].into][r] = Append(temporary[process[p].into][r], process[p].records[r])
       /\ \A e \in TempCollections, s \in Readers :
            e # process[p].into \/ s # r => temporary'[e][s] = temporary[e][s]
  BY <1>15 DEF c, v
<1>19. QED
  BY <1>2, <1>7, <1>14, <1>16, <1>17, <1>18

LEMMA InsertRecordsFailsDoes ==
    ASSUME Basics, NEW p \in Processes, InsertRecordsFails(p)
    PROVE  /\ InteractionsTypeOK'
           /\ process[p].at = "insert" /\ process'[p].at = "insert" /\ process'[p].into = process[p].into
           /\ \A r \in Readers : process'[p].records[r] = 0
           /\ \A q \in Processes \ {p} : process'[q] = process[q]
           /\ Fails
           /\ UNCHANGED <<viewed, opens, interaction, temporary, met>>
<1>1. /\ process[p].at = "insert" /\ process' = [process EXCEPT ![p].records = NoneRecorded] /\ Fails
      /\ UNCHANGED <<viewed, opens, interaction, temporary, met>>
  BY DEF InsertRecordsFails, At, sources, day_stored
<1> DEFINE d == [process[p] EXCEPT !.records = NoneRecorded]
<1>2. NoneRecorded \in [Readers -> Views] /\ \A r \in Readers : NoneRecorded[r] = 0
  BY ViewsAreNumbers DEF NoneRecorded
<1>3. process[p] \in Doings
  BY ProcessTypes DEF Basics
<1>4. d \in Doings /\ d.at = process[p].at /\ d.into = process[p].into /\ d.records = NoneRecorded
  BY <1>2, <1>3 DEF Doings
<1>5. process' = [process EXCEPT ![p] = d]
  BY <1>1
<1> HIDE DEF d
<1>6. /\ process' \in [Processes -> Doings] /\ process'[p] = d
      /\ \A q \in Processes \ {p} : process'[q] = process[q]
  BY <1>4, <1>5, BecomesAnother DEF Basics
<1>7. InteractionsTypeOK'
  BY <1>1, <1>6, Accounted DEF Basics, InteractionsTypeOK, Doings, Stages
<1>8. QED
  BY <1>1, <1>2, <1>4, <1>6, <1>7

LEMMA MergeDoes ==
    ASSUME Basics, NEW p \in Processes, Merge(p)
    PROVE  /\ InteractionsTypeOK'
           /\ process[p].at = "insert" /\ \A r \in Readers : process[p].records[r] = 0
           /\ process'[p].at = (IF process[p].into = "views" THEN "customers" ELSE "clear")
           /\ process'[p].into = process[p].into
           /\ \A q \in Processes \ {p} : process'[q] = process[q]
           /\ \A r \in Readers : /\ interaction'[r].mail = interaction[r].mail
                                 /\ interaction'[r].count = interaction[r].count
           /\ process[p].into # "views" => \A r \in Readers :
                interaction'[r].web = interaction[r].web /\ interaction'[r].day = interaction[r].day
           /\ process[p].into = "views" => \A r \in Readers :
                \/ /\ Len(Log(r)) = 0 \/ Fails
                   /\ interaction'[r].web = interaction[r].web
                   /\ interaction'[r].day = interaction[r].day
                \/ /\ interaction'[r].day = "string"
                   /\ \E i \in 1..Len(Log(r)) : /\ interaction'[r].web = Log(r)[i]
                                                /\ i = Len(Log(r)) \/ Fails
           /\ Fine \/ Fails
           /\ UNCHANGED <<viewed, opens, temporary, met>>
<1> DEFINE c == process[p].into
           next == IF process[p].into = "views" THEN "customers" ELSE "clear"
<1>1. PICK upto \in [Readers -> UNION {0..Len(temporary[c][r]) : r \in Readers}] :
          /\ \A r \in Readers : upto[r] <= Len(temporary[c][r])
          /\ interaction' = [r \in Readers |->
                 IF upto[r] = 0 THEN interaction[r]
                 ELSE Merged(c, temporary[c][r][upto[r]], interaction[r])]
          /\ IF \A r \in Readers : upto[r] = Len(temporary[c][r]) THEN Fine ELSE Fails
  BY DEF Merge
<1>2. /\ process[p].at = "insert" /\ Kept(process[p].records) = {}
      /\ Moves(p, next) /\ UNCHANGED <<viewed, opens, temporary, met>>
      /\ Fine \/ Fails
  BY <1>1 DEF Merge, At, sources
<1>3. c \in TempCollections /\ \A r \in Readers : process[p].records[r] \in Nat
  BY ProcessTypes, ViewsAreNumbers DEF Basics, TempCollections
<1>4. \A r \in Readers : process[p].records[r] = 0
  BY <1>2, <1>3 DEF Kept
<1>5. /\ process' \in [Processes -> Doings] /\ process'[p].at = next /\ process'[p].into = c
      /\ \A q \in Processes \ {p} : process'[q] = process[q]
  <2>1. next \in Stages
    BY DEF Stages
  <2> HIDE DEF next
  <2>2. QED
    BY <1>2, <2>1, MovesTo DEF Basics
<1>6. \A r \in Readers : /\ temporary[c][r] \in Seq(Views) /\ Len(temporary[c][r]) \in Nat
                         /\ \A i \in 1..Len(temporary[c][r]) : temporary[c][r][i] \in Views
  <2>1. \A r \in Readers : temporary[c][r] \in Seq(Views)
    BY <1>3, StoredTypes DEF Basics
  <2> HIDE DEF c
  <2>2. QED
    BY <2>1, LenProperties, ElementOfSeq
<1>7. \A r \in Readers : upto[r] \in 0..Len(temporary[c][r])
  <2>1. \A r \in Readers : upto[r] \in Nat
    BY <1>1, <1>6
  <2>2. QED
    BY <1>1, <1>6, <2>1
<1>8. \A r \in Readers : interaction[r] \in Documents
  BY StoredTypes DEF Basics
<1>9. ASSUME NEW d \in Documents, NEW n \in Views
      PROVE  LET e == Merged(c, n, d) IN
             /\ e \in Documents /\ e.mail = d.mail /\ e.count = d.count
             /\ c = "views" => e.web = n /\ e.day = "string"
             /\ c # "views" => e.web = d.web /\ e.day = d.day
  BY DEF Documents, Merged
<1> HIDE DEF c
<1>10. ASSUME NEW r \in Readers, upto[r] # 0
       PROVE  /\ upto[r] \in 1..Len(temporary[c][r]) /\ temporary[c][r][upto[r]] \in Views
              /\ interaction'[r] \in Documents
              /\ interaction'[r].mail = interaction[r].mail /\ interaction'[r].count = interaction[r].count
              /\ c = "views" => interaction'[r].web = temporary[c][r][upto[r]] /\ interaction'[r].day = "string"
              /\ c # "views" => interaction'[r].web = interaction[r].web /\ interaction'[r].day = interaction[r].day
  <2>1. upto[r] \in 1..Len(temporary[c][r]) /\ temporary[c][r][upto[r]] \in Views
    BY <1>6, <1>7, <1>10
  <2>2. interaction'[r] = Merged(c, temporary[c][r][upto[r]], interaction[r])
    BY <1>1, <1>10
  <2>3. QED
    BY <1>8, <1>9, <2>1, <2>2
<1>11. ASSUME NEW r \in Readers, upto[r] = 0
       PROVE  interaction'[r] = interaction[r] /\ interaction'[r] \in Documents
  BY <1>1, <1>8, <1>11
<1>12. interaction' \in [Readers -> Documents]
  <2>1. \A r \in Readers : interaction'[r] \in Documents
    BY <1>10, <1>11
  <2>2. QED
    BY <1>1, <2>1
<1>13. InteractionsTypeOK'
  BY <1>2, <1>5, <1>12, Accounted DEF Basics, InteractionsTypeOK, Documents, Doings, Stages
<1>14. \A r \in Readers : upto[r] = Len(temporary[c][r]) \/ Fails
  BY <1>1
<1>15. c = "views" => \A r \in Readers :
                \/ /\ Len(Log(r)) = 0 \/ Fails
                   /\ interaction'[r].web = interaction[r].web
                   /\ interaction'[r].day = interaction[r].day
                \/ /\ interaction'[r].day = "string"
                   /\ \E i \in 1..Len(Log(r)) : /\ interaction'[r].web = Log(r)[i]
                                                /\ i = Len(Log(r)) \/ Fails
  <2> SUFFICES ASSUME c = "views", NEW r \in Readers
      PROVE     \/ /\ Len(temporary[c][r]) = 0 \/ Fails
                   /\ interaction'[r].web = interaction[r].web
                   /\ interaction'[r].day = interaction[r].day
                \/ /\ interaction'[r].day = "string"
                   /\ \E i \in 1..Len(temporary[c][r]) : /\ interaction'[r].web = temporary[c][r][i]
                                                         /\ i = Len(temporary[c][r]) \/ Fails
    BY DEF Log
  <2>1. CASE upto[r] = 0
    BY <1>11, <1>14, <2>1
  <2>2. CASE upto[r] # 0
    BY <1>10, <1>14, <2>2
  <2>3. QED
    BY <2>1, <2>2
<1>16. \A r \in Readers : /\ interaction'[r].mail = interaction[r].mail
                          /\ interaction'[r].count = interaction[r].count
  BY <1>10, <1>11
<1>17. c # "views" => \A r \in Readers :
                interaction'[r].web = interaction[r].web /\ interaction'[r].day = interaction[r].day
  BY <1>10, <1>11
<1>18. QED
  BY <1>2, <1>4, <1>5, <1>13, <1>15, <1>16, <1>17 DEF c

LEMMA FindCustomersDoes ==
    ASSUME Basics, NEW p \in Processes, FindCustomers(p)
    PROVE  /\ InteractionsTypeOK'
           /\ process[p].at = "customers"
           /\ process'[p].at = "count" \/ (process'[p].at = "look" /\ process'[p].into = "payments")
           /\ \A q \in Processes \ {p} : process'[q] = process[q]
           /\ Fine
           /\ UNCHANGED <<viewed, opens, interaction, temporary, met>>
<1> DEFINE d == IF Found(p) \cap Customers = {} THEN [Waiting EXCEPT !.at = "count"]
           ELSE [at |-> "look", into |-> "payments",
                 records |-> [r \in Readers |-> IF r \in Found(p) \cap Customers THEN 1 ELSE 0]]
<1>1. /\ process[p].at = "customers" /\ process' = [process EXCEPT ![p] = d] /\ Fine
      /\ UNCHANGED <<viewed, opens, interaction, temporary, met>>
  BY DEF FindCustomers, At, sources, day_stored
<1>2. d \in Doings /\ (d.at = "count" \/ (d.at = "look" /\ d.into = "payments"))
  <2>1. CASE Found(p) \cap Customers = {}
    <3>1. \A e \in Doings : [e EXCEPT !.at = "count"] \in Doings /\ [e EXCEPT !.at = "count"].at = "count"
      BY DEF Doings, Stages
    <3>2. d = [Waiting EXCEPT !.at = "count"]
      BY <2>1
    <3>3. [Waiting EXCEPT !.at = "count"] \in Doings /\ [Waiting EXCEPT !.at = "count"].at = "count"
      BY <3>1, WaitingType
    <3> HIDE DEF d
    <3>4. QED
      BY <3>2, <3>3
  <2>2. CASE Found(p) \cap Customers # {}
    <3>1. \A r \in Readers : (IF r \in Found(p) \cap Customers THEN 1 ELSE 0) \in Views
      BY ViewsAreNumbers
    <3>2. QED
      BY <2>2, <3>1 DEF Doings, Stages, TempCollections
  <2>3. QED
    BY <2>1, <2>2
<1> HIDE DEF d
<1>3. /\ process' \in [Processes -> Doings] /\ process'[p] = d
      /\ \A q \in Processes \ {p} : process'[q] = process[q]
  BY <1>1, <1>2, BecomesAnother DEF Basics
<1>4. InteractionsTypeOK'
  BY <1>1, <1>3, Accounted DEF Basics, InteractionsTypeOK, Doings, Stages
<1>5. QED
  BY <1>1, <1>2, <1>3, <1>4

LEMMA CountDoes ==
    ASSUME Basics, NEW p \in Processes, Count(p)
    PROVE  /\ InteractionsTypeOK'
           /\ process[p].at = "count" /\ process'[p].at = "idle"
           /\ \A q \in Processes \ {p} : process'[q] = process[q]
           /\ \A r \in Readers :
                /\ interaction'[r].day = interaction[r].day
                /\ interaction'[r].web = interaction[r].web
                /\ interaction'[r].mail = interaction[r].mail
                /\ interaction[r].day = "string" =>
                     interaction'[r].count = interaction[r].web + interaction[r].mail \/ Fails
           /\ Fine \/ Fails
           /\ UNCHANGED <<viewed, opens, temporary, met>>
<1>1. /\ process[p].at = "count" /\ process' = [process EXCEPT ![p] = Waiting]
      /\ \/ interaction' = [r \in Readers |-> Summed(interaction[r])] /\ Fine
         \/ UNCHANGED interaction /\ Fails
      /\ UNCHANGED <<viewed, opens, temporary, met>>
  BY DEF Count, At, sources
<1>2. /\ process' \in [Processes -> Doings] /\ process'[p].at = "idle"
      /\ \A q \in Processes \ {p} : process'[q] = process[q]
  BY <1>1, WaitingType, BecomesAnother DEF Basics
<1>3. \A r \in Readers : interaction[r] \in Documents
  BY StoredTypes DEF Basics
<1>4. ASSUME NEW d \in Documents
      PROVE  /\ Summed(d) \in Documents
             /\ Summed(d).day = d.day /\ Summed(d).web = d.web /\ Summed(d).mail = d.mail
             /\ d.day = "string" => Summed(d).count = d.web + d.mail
  <2>1. d.web \in 0..1 + MaxNews /\ d.mail \in 0..1 + MaxNews /\ MaxNews \in Nat
    BY ViewsAreNumbers DEF Documents, Views
  <2>2. d.web + d.mail \in 0..2 * (1 + MaxNews)
    BY <2>1
  <2>3. QED
    BY <2>2 DEF Summed, Documents
<1>5. /\ interaction' \in [Readers -> Documents]
      /\ \A r \in Readers :
                /\ interaction'[r].day = interaction[r].day
                /\ interaction'[r].web = interaction[r].web
                /\ interaction'[r].mail = interaction[r].mail
                /\ interaction[r].day = "string" =>
                     interaction'[r].count = interaction[r].web + interaction[r].mail \/ Fails
  <2>1. CASE interaction' = [r \in Readers |-> Summed(interaction[r])]
    <3>1. \A r \in Readers : interaction'[r] = Summed(interaction[r]) /\ Summed(interaction[r]) \in Documents
      BY <1>3, <1>4, <2>1
    <3>2. QED
      BY <1>3, <1>4, <2>1, <3>1
  <2>2. CASE UNCHANGED interaction /\ Fails
    BY <2>2, TypeOKOf DEF Basics
  <2>3. QED
    BY <1>1, <2>1, <2>2
<1>6. InteractionsTypeOK'
  BY <1>1, <1>2, <1>5, Accounted DEF Basics, InteractionsTypeOK, Documents, Doings, Stages
<1>7. QED
  BY <1>1, <1>2, <1>5, <1>6

LEMMA EndEarlyDoes ==
    ASSUME Basics, NEW p \in Processes, EndEarly(p)
    PROVE  /\ InteractionsTypeOK'
           /\ process'[p].at = "idle"
           /\ \A q \in Processes \ {p} : process'[q] = process[q]
           /\ Fails
           /\ UNCHANGED <<viewed, opens, interaction, temporary, met>>
<1>1. /\ process' = [process EXCEPT ![p] = Waiting] /\ Fails
      /\ UNCHANGED <<viewed, opens, interaction, temporary, met>>
  BY DEF EndEarly, sources, day_stored
<1>2. /\ process' \in [Processes -> Doings] /\ process'[p].at = "idle"
      /\ \A q \in Processes \ {p} : process'[q] = process[q]
  BY <1>1, WaitingType, BecomesAnother DEF Basics
<1>3. InteractionsTypeOK'
  BY <1>1, <1>2, Accounted DEF Basics, InteractionsTypeOK, Doings, Stages
<1>4. QED
  BY <1>1, <1>2, <1>3

-----------------------------------------------------------------------------
(* Nothing stored is more than Elasticsearch has.                          *)

LEMMA Appended ==
    ASSUME NEW s \in Seq(Views), NEW v \in Views
    PROVE  /\ Len(Append(s, v)) = Len(s) + 1 /\ Len(s) \in Nat
           /\ \A i \in 1..Len(s) : Append(s, v)[i] = s[i]
           /\ Append(s, v)[Len(s) + 1] = v
           /\ \A i \in 1..Len(s) + 1 : i \in 1..Len(s) \/ i = Len(s) + 1
OBVIOUS

(* What InsertRecord makes of the views.                                   *)
LEMMA LogAfterInsert ==
    ASSUME Basics, NEW p \in Processes, InsertRecord(p)
    PROVE  /\ process[p].into # "views" => \A r \in Readers : Log(r)' = Log(r)
           /\ process[p].into = "views" => \E r \in Readers :
                /\ process[p].records[r] > 0 /\ process'[p].records[r] = 0
                /\ \A s \in Readers \ {r} : process'[p].records[s] = process[p].records[s]
                /\ Len(Log(r)') = Len(Log(r)) + 1
                /\ \A i \in 1..Len(Log(r)) : Log(r)'[i] = Log(r)[i]
                /\ Log(r)'[Len(Log(r)) + 1] = process[p].records[r]
                /\ \A s \in Readers \ {r} : Log(s)' = Log(s)
<1>1. PICK r \in Readers :
        /\ process[p].records[r] > 0 /\ process'[p].records[r] = 0
        /\ \A s \in Readers \ {r} : process'[p].records[s] = process[p].records[s]
        /\ temporary'[process[p].into][r]
             = Append(temporary[process[p].into][r], process[p].records[r])
        /\ \A c \in TempCollections, s \in Readers :
             c # process[p].into \/ s # r => temporary'[c][s] = temporary[c][s]
  BY InsertRecordDoes
<1>2. process[p].records[r] \in Views /\ Log(r) \in Seq(Views)
  BY ProcessTypes, LogTypes DEF Basics
<1>3. CASE process[p].into # "views"
  BY <1>1, <1>3 DEF Log, TempCollections
<1>4. CASE process[p].into = "views"
  <2>1. Log(r)' = Append(Log(r), process[p].records[r]) /\ \A s \in Readers \ {r} : Log(s)' = Log(s)
    BY <1>1, <1>4 DEF Log, TempCollections
  <2>2. /\ Len(Append(Log(r), process[p].records[r])) = Len(Log(r)) + 1
        /\ \A i \in 1..Len(Log(r)) : Append(Log(r), process[p].records[r])[i] = Log(r)[i]
        /\ Append(Log(r), process[p].records[r])[Len(Log(r)) + 1] = process[p].records[r]
    BY <1>2, Appended
  <2>3. QED
    BY <1>1, <1>4, <2>1, <2>2
<1>5. QED
  BY <1>3, <1>4

LEMMA SeenInit == InteractionsInit => Basics
<1> SUFFICES ASSUME InteractionsInit PROVE Basics
  OBVIOUS
<1>1. /\ viewed \in [Readers -> Views] /\ opens \in [Readers -> Views]
      /\ \A r \in Readers : viewed[r] \in {0, 1} /\ opens[r] \in {0, 1}
  BY ViewsAreNumbers DEF InteractionsInit
<1>2. NoDocument \in Documents
  BY ViewsAreNumbers DEF NoDocument, Documents
<1>3. /\ interaction \in [Readers -> Documents]
      /\ \A r \in Readers : interaction[r].web = 0 /\ interaction[r].mail = 0
  BY <1>2 DEF InteractionsInit, NoDocument
<1>4. /\ temporary \in [TempCollections -> [Readers -> Seq(Views)]]
      /\ \A r \in Readers : Log(r) = <<>>
  <2>1. Empty \in [Readers -> Seq(Views)]
    BY EmptySeq DEF Empty
  <2>2. QED
    BY <2>1 DEF InteractionsInit, Log, TempCollections, Empty
<1>5. /\ process \in [Processes -> Doings] /\ \A p \in Processes : process[p].at = "idle"
  BY WaitingType DEF InteractionsInit
<1>6. /\ counters \in [runs : 0..MaxRuns, news : 0..MaxNews, errors : 0..MaxDayErrors]
      /\ counters.news = 0
  BY InteractionBoundAssumption DEF InteractionsInit
<1>7. InteractionsTypeOK
  <2>1. met \in BOOLEAN /\ disturbed \in BOOLEAN
    BY DEF InteractionsInit
  <2>2. QED
    BY <1>1, <1>3, <1>4, <1>5, <1>6, <2>1, TypeOKOf
<1>8. Seen
  <2>0. Len(<<>>) = 0 /\ 1..0 = {}
    OBVIOUS
  <2>1. \A r \in Readers : 1..Len(Log(r)) = {}
    BY <1>4, <2>0
  <2>2. \A r \in Readers : viewed[r] <= 1 + counters.news /\ opens[r] <= 1 + counters.news
    <3>1. \A n \in {0, 1} : n <= 1 + 0
      OBVIOUS
    <3>2. QED
      BY <1>1, <1>6, <3>1
  <2>3. \A r \in Readers : interaction[r].web <= viewed[r] /\ interaction[r].mail = 0
    <3>1. \A n \in {0, 1} : 0 <= n
      OBVIOUS
    <3>2. QED
      BY <1>1, <1>3, <3>1
  <2>4. \A p \in Processes : ~At(p, "clear") /\ ~Viewing(p)
    BY <1>5 DEF At, Viewing
  <2>5. QED
    BY <2>1, <2>2, <2>3, <2>4 DEF Seen
<1>9. QED
  BY <1>7, <1>8 DEF Basics

LEMMA BasicsNext ==
    ASSUME Basics, [InteractionsNext]_interactions_vars
    PROVE  Basics'
<1> USE DEF At, Log, Viewing
<1>0. /\ Seen /\ InteractionsTypeOK
      /\ \A p \in Processes : process[p].at \in Stages
      /\ \A r \in Readers : viewed[r] \in Nat /\ opens[r] \in Nat /\ interaction[r].web \in Nat
  BY ProcessTypes, StoredTypes, ViewsAreNumbers DEF Basics
<1>1. ASSUME NEW r \in Readers, News(r) PROVE Basics'
  <2>1. /\ InteractionsTypeOK'
        /\ \A q \in Readers :
             /\ viewed[q] <= viewed'[q] /\ viewed'[q] <= 1 + counters'.news
             /\ opens[q] <= opens'[q] /\ opens'[q] <= 1 + counters'.news
        /\ UNCHANGED <<interaction, temporary, process>>
    BY <1>1, NewsDoes
  <2>2. \A q \in Readers : viewed'[q] \in Nat /\ opens'[q] \in Nat
    BY <2>1, ViewsAreNumbers DEF InteractionsTypeOK
  <2>3. \A q \in Readers : opens'[q] = 0 => opens[q] = 0
    BY <1>0, <2>1, <2>2
  <2>4. \A q \in Readers : \A n \in Nat : n <= viewed[q] => n <= viewed'[q]
    BY <1>0, <2>1, <2>2
  <2>5. \A q \in Readers : \A i \in 1..Len(Log(q)) : Log(q)[i] \in Nat
    BY <1>0, LogTypes, ViewsAreNumbers
  <2>6. \A p \in Processes, q \in Readers : process[p].records[q] \in Nat
    BY <1>0, ProcessTypes, ViewsAreNumbers
  <2>7. \A q \in Readers : \A i \in 1..Len(Log(q)) : Log(q)[i] <= viewed'[q]
    BY <1>0, <2>4, <2>5 DEF Seen
  <2>8. \A p \in Processes : Viewing(p) => \A q \in Readers : process[p].records[q] <= viewed'[q]
    BY <1>0, <2>4, <2>6 DEF Seen
  <2>9. \A q \in Readers : interaction[q].web <= viewed'[q]
    BY <1>0, <2>4 DEF Seen
  <2>10. Seen'
    BY <1>0, <2>1, <2>3, <2>7, <2>8, <2>9 DEF Seen
  <2>11. QED
    BY <2>1, <2>10 DEF Basics
<1>2. ASSUME NEW p \in Processes, BeginDay(p) PROVE Basics'
  <2>1. \A q \in Processes : q # p => process'[q] = process[q]
    BY <1>2, BeginDayDoes
  <2>2. Seen'
    BY <1>0, <1>2, <2>1, BeginDayDoes DEF Seen
  <2>3. QED
    BY <1>2, <2>2, BeginDayDoes DEF Basics
<1>3. ASSUME NEW p \in Processes, MergeMails(p) PROVE Basics'
  <2>1. \A q \in Processes : q # p => process'[q] = process[q]
    BY <1>3, MergeMailsDoes
  <2>2. counters'.news = counters.news
    BY <1>0, <1>3, MergeMailsDoes, Accounted
  <2>3. Seen'
    BY <1>0, <1>3, <2>1, <2>2, MergeMailsDoes DEF Seen
  <2>4. QED
    BY <1>3, <2>3, MergeMailsDoes DEF Basics
<1>4. ASSUME NEW p \in Processes, Search(p) PROVE Basics'
  <2>1. \A q \in Processes : q # p => process'[q] = process[q]
    BY <1>4, SearchDoes
  <2>2. counters'.news = counters.news
    BY <1>0, <1>4, SearchDoes, Accounted
  <2>3. \A r \in Readers : process'[p].records[r] <= viewed[r]
    BY <1>0, <1>4, SearchDoes
  <2>4. Seen'
    BY <1>0, <1>4, <2>1, <2>2, <2>3, SearchDoes DEF Seen
  <2>5. QED
    BY <1>4, <2>4, SearchDoes DEF Basics
<1>5. ASSUME NEW p \in Processes, Look(p) PROVE Basics'
  <2>1. \A q \in Processes : q # p => process'[q] = process[q]
    BY <1>5, LookDoes
  <2>2. counters'.news = counters.news
    BY <1>0, <1>5, LookDoes, Accounted
  <2>3. process[p].at = "look" /\ process'[p].at \in {"drop", "insert"}
    BY <1>5, LookDoes
  <2>4. /\ process'[p].into = process[p].into /\ process'[p].records = process[p].records
        /\ UNCHANGED <<viewed, opens, interaction, temporary, met>>
    BY <1>5, LookDoes
  <2>5. Seen'
    BY <1>0, <2>1, <2>2, <2>3, <2>4 DEF Seen
  <2>6. QED
    BY <1>5, <2>5, LookDoes DEF Basics
<1>6. ASSUME NEW p \in Processes, NEW next \in {"insert", "count"}, Dropped(p, next),
             process[p].at \in {"drop", "clear"}, process[p].at = "clear" => next = "count"
      PROVE  Basics'
  <2>0. next \in Stages
    BY DEF Stages
  <2>1. /\ \A q \in Processes : q # p => process'[q] = process[q]
        /\ process'[p].at = next /\ process'[p].into = process[p].into
        /\ process'[p].records = process[p].records
        /\ UNCHANGED <<viewed, opens, interaction, met>>
    BY <1>6, <2>0, DroppedDoes
  <2>2. counters'.news = counters.news
    BY <1>0, <1>6, <2>0, DroppedDoes, Accounted
  <2>3. \A r \in Readers : Log(r)' = Log(r) \/ Log(r)' = <<>>
    <3>1. "views" \in TempCollections
      BY DEF TempCollections
    <3>2. QED
      BY <1>6, <2>0, <3>1, DroppedDoes
  <2>4. \A r \in Readers : \A i \in 1..Len(Log(r)') : Log(r)'[i] <= viewed[r]
    BY <1>0, <2>3 DEF Seen
  <2>5. process'[p].at = "clear" => FALSE
    BY <2>1
  <2>6. Viewing(p)' => Viewing(p)
    BY <1>6, <2>1
  <2>7. Seen'
    BY <1>0, <2>1, <2>2, <2>4, <2>5, <2>6 DEF Seen
  <2>8. QED
    BY <1>6, <2>0, <2>7, DroppedDoes DEF Basics
<1>7. ASSUME NEW p \in Processes, InsertRecord(p) PROVE Basics'
  <2>1. /\ \A q \in Processes : q # p => process'[q] = process[q]
        /\ process[p].at = "insert" /\ process'[p].at = "insert" /\ process'[p].into = process[p].into
        /\ UNCHANGED <<viewed, opens, interaction, met>>
    BY <1>7, InsertRecordDoes
  <2>2. counters'.news = counters.news
    BY <1>0, <1>7, InsertRecordDoes, Accounted
  <2>3. \A r \in Readers : process'[p].records[r] \in {0, process[p].records[r]}
    BY <1>7, InsertRecordDoes
  <2>4. Viewing(p) => \A r \in Readers : process'[p].records[r] <= viewed[r]
    BY <1>0, <2>3 DEF Seen
  <2>5. \A r \in Readers : \A i \in 1..Len(Log(r)') : Log(r)'[i] <= viewed[r]
    <3>1. CASE process[p].into # "views"
      BY <1>0, <1>7, <3>1, LogAfterInsert DEF Seen
    <3>2. CASE process[p].into = "views"
      <4>1. PICK r \in Readers :
                /\ Len(Log(r)') = Len(Log(r)) + 1
                /\ \A i \in 1..Len(Log(r)) : Log(r)'[i] = Log(r)[i]
                /\ Log(r)'[Len(Log(r)) + 1] = process[p].records[r]
                /\ \A s \in Readers \ {r} : Log(s)' = Log(s)
        BY <1>7, <3>2, LogAfterInsert
      <4>2. process[p].records[r] <= viewed[r]
        BY <1>0, <2>1, <3>2 DEF Seen
      <4>3. Len(Log(r)) \in Nat /\ \A i \in 1..Len(Log(r)) : Log(r)[i] <= viewed[r]
        BY <1>0, LogTypes DEF Seen
      <4>4. \A i \in 1..Len(Log(r)) + 1 : i \in 1..Len(Log(r)) \/ i = Len(Log(r)) + 1
        BY <4>3
      <4>5. \A i \in 1..Len(Log(r)') : Log(r)'[i] <= viewed[r]
        BY <4>1, <4>2, <4>3, <4>4
      <4>6. \A s \in Readers \ {r} : \A i \in 1..Len(Log(s)') : Log(s)'[i] <= viewed[s]
        BY <1>0, <4>1 DEF Seen
      <4>7. QED
        BY <4>5, <4>6
    <3>3. QED
      BY <3>1, <3>2
  <2>6. Seen'
    BY <1>0, <2>1, <2>2, <2>4, <2>5 DEF Seen
  <2>7. QED
    BY <1>7, <2>6, InsertRecordDoes DEF Basics
<1>8. ASSUME NEW p \in Processes, InsertRecordsFails(p) PROVE Basics'
  <2>1. \A q \in Processes : q # p => process'[q] = process[q]
    BY <1>8, InsertRecordsFailsDoes
  <2>2. counters'.news = counters.news
    BY <1>0, <1>8, InsertRecordsFailsDoes, Accounted
  <2>3. \A r \in Readers : process'[p].records[r] <= viewed[r]
    BY <1>0, <1>8, InsertRecordsFailsDoes
  <2>4. process'[p].at = "insert" /\ UNCHANGED <<viewed, opens, interaction, temporary, met>>
    BY <1>8, InsertRecordsFailsDoes
  <2>5. Seen'
    BY <1>0, <2>1, <2>2, <2>3, <2>4 DEF Seen
  <2>6. QED
    BY <1>8, <2>5, InsertRecordsFailsDoes DEF Basics
<1>9. ASSUME NEW p \in Processes, Merge(p) PROVE Basics'
  <2>1. /\ \A q \in Processes : q # p => process'[q] = process[q]
        /\ process'[p].at = (IF process[p].into = "views" THEN "customers" ELSE "clear")
        /\ process'[p].into = process[p].into /\ process[p].into \in {"views", "payments"}
        /\ \A r \in Readers : interaction'[r].mail = interaction[r].mail
        /\ UNCHANGED <<viewed, opens, temporary, met>>
    BY <1>0, <1>9, MergeDoes, ProcessTypes
  <2>2. counters'.news = counters.news
    BY <1>0, <1>9, MergeDoes, Accounted
  <2>3. \A r \in Readers : interaction'[r].web <= viewed[r]
    <3>1. \A r \in Readers : interaction'[r].web = interaction[r].web
                             \/ \E i \in 1..Len(Log(r)) : interaction'[r].web = Log(r)[i]
      BY <1>9, MergeDoes
    <3>2. QED
      BY <1>0, <3>1 DEF Seen
  <2>4. ~Viewing(p)' /\ (process'[p].at = "clear" => process'[p].into = "payments")
    BY <2>1
  <2>5. Seen'
    BY <1>0, <2>1, <2>2, <2>3, <2>4 DEF Seen
  <2>6. QED
    BY <1>9, <2>5, MergeDoes DEF Basics
<1>10. ASSUME NEW p \in Processes, FindCustomers(p) PROVE Basics'
  <2>1. \A q \in Processes : q # p => process'[q] = process[q]
    BY <1>10, FindCustomersDoes
  <2>2. counters'.news = counters.news
    BY <1>0, <1>10, FindCustomersDoes, Accounted
  <2>3. ~Viewing(p)' /\ process'[p].at # "clear" /\ UNCHANGED <<viewed, opens, interaction, temporary>>
    BY <1>10, FindCustomersDoes
  <2>4. Seen'
    BY <1>0, <2>1, <2>2, <2>3 DEF Seen
  <2>5. QED
    BY <1>10, <2>4, FindCustomersDoes DEF Basics
<1>11. ASSUME NEW p \in Processes, Count(p) PROVE Basics'
  <2>1. \A q \in Processes : q # p => process'[q] = process[q]
    BY <1>11, CountDoes
  <2>2. counters'.news = counters.news
    BY <1>0, <1>11, CountDoes, Accounted
  <2>3. /\ process'[p].at = "idle" /\ UNCHANGED <<viewed, opens, temporary>>
        /\ \A r \in Readers : interaction'[r].web = interaction[r].web
                              /\ interaction'[r].mail = interaction[r].mail
    BY <1>11, CountDoes
  <2>4. Seen'
    BY <1>0, <2>1, <2>2, <2>3 DEF Seen
  <2>5. QED
    BY <1>11, <2>4, CountDoes DEF Basics
<1>12. ASSUME NEW p \in Processes, EndEarly(p) PROVE Basics'
  <2>1. \A q \in Processes : q # p => process'[q] = process[q]
    BY <1>12, EndEarlyDoes
  <2>2. counters'.news = counters.news
    BY <1>0, <1>12, EndEarlyDoes, Accounted
  <2>3. process'[p].at = "idle" /\ UNCHANGED <<viewed, opens, interaction, temporary>>
    BY <1>12, EndEarlyDoes
  <2>4. Seen'
    BY <1>0, <2>1, <2>2, <2>3 DEF Seen
  <2>5. QED
    BY <1>12, <2>4, EndEarlyDoes DEF Basics
<1>13. CASE UNCHANGED interactions_vars
  BY <1>13 DEF interactions_vars, sources, day_stored, Basics, Seen, InteractionsTypeOK
<1>14. ASSUME NEW p \in Processes, DropOld(p) \/ DropNew(p) PROVE Basics'
  BY <1>6, <1>14 DEF DropOld, DropNew
<1>15. QED
  BY <1>1, <1>2, <1>3, <1>4, <1>5, <1>7, <1>8, <1>9, <1>10, <1>11, <1>12, <1>13, <1>14
     DEF InteractionsNext

-----------------------------------------------------------------------------
(* Without overlap: the records of a reader are in the order of their      *)
(* views, and one of them is what is stored or less.                       *)

LEMMA WebInit == InteractionsInit => WebInv
<1> SUFFICES ASSUME InteractionsInit PROVE WebInv
  OBVIOUS
<1>1. /\ \A p \in Processes : process[p].at = "idle"
      /\ \A r \in Readers : Log(r) = <<>>
  BY DEF InteractionsInit, Waiting, Log, TempCollections, Empty
<1>2. Len(<<>>) = 0
  OBVIOUS
<1>3. QED
  BY <1>1, <1>2 DEF WebInv, Alone, Growing, Newer, Single, NoneFewer, At, Viewing, Inserting

(* A step that stores no views.                                            *)
LEMMA WebMoves ==
    ASSUME Basics, WebInv, NEW p \in Processes,
           ~met' => ~met /\ Alone',
           counters'.errors \in {counters.errors, counters.errors + 1},
           \A r \in Readers : interaction'[r].web = interaction[r].web,
           \A r \in Readers : Log(r)' = Log(r),
           \A q \in Processes \ {p} : process'[q] = process[q],
           ~met /\ Viewing(p)' => \A r \in Readers : process'[p].records[r] > 0 =>
               /\ interaction[r].web <= process'[p].records[r]
               /\ \A i \in 1..Len(Log(r)) : Log(r)[i] <= process'[p].records[r],
           ~met /\ Inserting(p)' /\ counters'.errors = 0 => \A r \in Readers :
               process'[p].records[r] > 0 => Len(Log(r)) = 0,
           ~met /\ Inserting(p)' /\ counters'.errors <= 1 => \A r \in Readers :
               \A i \in 1..Len(Log(r)) : interaction[r].web <= Log(r)[i]
    PROVE  WebInv'
<1> SUFFICES ASSUME ~met' PROVE (Alone /\ Growing /\ Newer /\ Single /\ NoneFewer)'
  BY DEF WebInv
<1>1. ~met /\ Alone' /\ Growing /\ Newer /\ Single /\ NoneFewer
  BY DEF WebInv
<1>2. /\ counters'.errors = 0 => counters.errors = 0
      /\ counters'.errors <= 1 => counters.errors <= 1
  BY CountersType DEF Basics
<1>3. \A q \in Processes : q # p => /\ Viewing(q)' = Viewing(q) /\ Inserting(q)' = Inserting(q)
                                    /\ process'[q] = process[q]
  BY DEF Viewing, Inserting
<1>4. Growing'
  BY <1>1 DEF Growing
<1>5. Newer'
  <2> SUFFICES ASSUME NEW q \in Processes, Viewing(q)', NEW r \in Readers, process'[q].records[r] > 0
               PROVE  /\ interaction[r].web <= process'[q].records[r]
                      /\ \A i \in 1..Len(Log(r)) : Log(r)[i] <= process'[q].records[r]
    BY DEF Newer
  <2>1. CASE q = p
    BY <1>1, <2>1
  <2>2. CASE q # p
    BY <1>1, <1>3, <2>2 DEF Newer
  <2>3. QED
    BY <2>1, <2>2
<1>6. Single'
  <2> SUFFICES ASSUME counters'.errors = 0, NEW r \in Readers
               PROVE  /\ Len(Log(r)) <= 1
                      /\ \A q \in Processes : Inserting(q)' /\ process'[q].records[r] > 0 => Len(Log(r)) = 0
    BY DEF Single
  <2>1. \A q \in Processes : q # p => (Inserting(q)' /\ process'[q].records[r] > 0 => Len(Log(r)) = 0)
    BY <1>1, <1>2, <1>3 DEF Single
  <2>2. QED
    BY <1>1, <1>2, <2>1 DEF Single
<1>7. NoneFewer'
  <2> SUFFICES ASSUME counters'.errors <= 1, NEW q \in Processes, Inserting(q)', NEW r \in Readers,
                      NEW i \in 1..Len(Log(r))
               PROVE  interaction[r].web <= Log(r)[i]
    BY DEF NoneFewer
  <2>1. CASE q = p
    BY <1>1, <2>1
  <2>2. CASE q # p
    BY <1>1, <1>2, <1>3, <2>2 DEF NoneFewer
  <2>3. QED
    BY <2>1, <2>2
<1>8. QED
  BY <1>1, <1>4, <1>5, <1>6, <1>7

LEMMA AloneKept ==
    ASSUME Alone, NEW p \in Processes, process[p].at # "idle",
           \A q \in Processes \ {p} : process'[q] = process[q]
    PROVE  Alone' /\ \A q \in Processes \ {p} : process[q].at = "idle" /\ process'[q].at = "idle"
BY DEF Alone, At

(* Before anything has failed there is one record of a reader.             *)
LEMMA LoneRecord ==
    ASSUME Basics, Growing, Single, counters.errors = 0, NEW r \in Readers, NEW i \in 1..Len(Log(r))
    PROVE  interaction[r].web <= Log(r)[i]
<1>1. Len(Log(r)) \in Nat /\ Len(Log(r)) <= 1
  BY LogTypes DEF Basics, Single
<1>2. i = Len(Log(r)) /\ Len(Log(r)) # 0
  BY <1>1
<1>3. QED
  BY <1>2 DEF Growing

LEMMA SearchKeepsWeb == ASSUME Basics, WebInv, NEW p \in Processes, Search(p) PROVE WebInv'
<1>1. PICK S \in Answers : \A r \in Readers :
        process'[p].records[r] = IF r \in S THEN viewed[r] ELSE 0
  BY SearchDoes
<1>2. /\ process[p].at = "search" /\ process'[p].at = "look"
      /\ \A q \in Processes \ {p} : process'[q] = process[q]
      /\ UNCHANGED <<viewed, opens, interaction, temporary, met>>
  BY SearchDoes
<1>3. counters'.errors \in {counters.errors, counters.errors + 1}
  BY SearchDoes, Accounted DEF Basics
<1>4. ~met' => ~met /\ Alone'
  BY <1>2, AloneKept DEF WebInv
<1>5. \A r \in Readers : process'[p].records[r] > 0 =>
               /\ interaction[r].web <= process'[p].records[r]
               /\ \A i \in 1..Len(Log(r)) : Log(r)[i] <= process'[p].records[r]
  BY <1>1 DEF Basics, Seen
<1>6. ~Inserting(p)' /\ \A r \in Readers : Log(r)' = Log(r)
  BY <1>2 DEF Inserting, Log
<1>7. QED
  BY <1>2, <1>3, <1>4, <1>5, <1>6, WebMoves

LEMMA LookKeepsWeb == ASSUME Basics, WebInv, NEW p \in Processes, Look(p) PROVE WebInv'
<1>1. /\ process[p].at = "look"
      /\ process'[p].into = process[p].into /\ process'[p].records = process[p].records
      /\ \A q \in Processes \ {p} : process'[q] = process[q]
      /\ UNCHANGED <<viewed, opens, interaction, temporary, met>>
      /\ Fine \/ Fails
  BY LookDoes
<1>2. /\ counters'.errors \in {counters.errors, counters.errors + 1}
      /\ Fails => counters'.errors = counters.errors + 1
      /\ counters.errors \in Nat
  <2>1. Fails => counters'.errors = counters.errors + 1
    BY CountersType DEF Fails, Counted, Basics
  <2>2. QED
    BY <1>1, <2>1, Accounted DEF Basics
<1>3. ~met' => ~met /\ Alone'
  BY <1>1, AloneKept DEF WebInv
<1>4. ~met /\ Viewing(p)' => \A r \in Readers : process'[p].records[r] > 0 =>
               /\ interaction[r].web <= process'[p].records[r]
               /\ \A i \in 1..Len(Log(r)) : Log(r)[i] <= process'[p].records[r]
  BY <1>1 DEF WebInv, Newer, Viewing
<1>5. Inserting(p)' => Fails \/ \A r \in Readers : Log(r) = <<>>
  BY <1>1, LookDoes DEF Inserting, Log
<1>6. \A r \in Readers : Log(r)' = Log(r)
  BY <1>1 DEF Log
<1>7. Len(<<>>) = 0 /\ 1..0 = {}
  OBVIOUS
<1>8. ~met /\ Inserting(p)' /\ counters'.errors = 0 => \A r \in Readers :
               process'[p].records[r] > 0 => Len(Log(r)) = 0
  BY <1>2, <1>5, <1>7
<1>9. ~met /\ Inserting(p)' /\ counters'.errors <= 1 => \A r \in Readers :
               \A i \in 1..Len(Log(r)) : interaction[r].web <= Log(r)[i]
  <2> SUFFICES ASSUME ~met, Inserting(p)', counters'.errors <= 1, NEW r \in Readers,
                      NEW i \in 1..Len(Log(r))
               PROVE  interaction[r].web <= Log(r)[i]
    OBVIOUS
  <2>1. Fails
    BY <1>5, <1>7
  <2>2. counters.errors = 0
    BY <1>2, <2>1
  <2>3. QED
    BY <2>2, LoneRecord DEF WebInv
<1>10. QED
  BY <1>1, <1>2, <1>3, <1>4, <1>6, <1>8, <1>9, WebMoves

LEMMA DropOldKeepsWeb == ASSUME Basics, WebInv, NEW p \in Processes, DropOld(p) PROVE WebInv'
<1>1. process[p].at = "drop" /\ Dropped(p, "insert") /\ "insert" \in Stages
  BY DEF DropOld, At, Stages
<1>2. /\ process'[p].at = "insert"
      /\ process'[p].into = process[p].into /\ process'[p].records = process[p].records
      /\ \A q \in Processes \ {p} : process'[q] = process[q]
      /\ \/ /\ Fine /\ \A r \in Readers : temporary'[process[p].into][r] = <<>>
            /\ \A c \in TempCollections \ {process[p].into} : temporary'[c] = temporary[c]
         \/ Fails /\ UNCHANGED temporary
      /\ UNCHANGED <<viewed, opens, interaction, met>>
  BY <1>1, DroppedDoes
<1>3. /\ counters'.errors \in {counters.errors, counters.errors + 1}
      /\ Fails => counters'.errors = counters.errors + 1
      /\ counters.errors \in Nat
  <2>1. Fails => counters'.errors = counters.errors + 1
    BY CountersType DEF Fails, Counted, Basics
  <2>2. QED
    BY <1>2, <2>1, Accounted DEF Basics
<1>4. ~met' => ~met /\ Alone'
  BY <1>1, <1>2, AloneKept DEF WebInv
<1>5. ~met /\ Viewing(p)' => \A r \in Readers : process'[p].records[r] > 0 =>
               /\ interaction[r].web <= process'[p].records[r]
               /\ \A i \in 1..Len(Log(r)) : Log(r)[i] <= process'[p].records[r]
  BY <1>1, <1>2 DEF WebInv, Newer, Viewing
<1>6. CASE Fails /\ UNCHANGED temporary
  <2>1. \A r \in Readers : Log(r)' = Log(r)
    BY <1>6 DEF Log
  <2>2. counters'.errors # 0
    BY <1>3, <1>6
  <2>3. ~met /\ counters'.errors <= 1 => \A r \in Readers :
               \A i \in 1..Len(Log(r)) : interaction[r].web <= Log(r)[i]
    <3>1. counters'.errors <= 1 => counters.errors = 0
      BY <1>3, <1>6
    <3>2. QED
      BY <3>1, LoneRecord DEF WebInv
  <2>4. QED
    BY <1>2, <1>3, <1>4, <1>5, <2>1, <2>2, <2>3, WebMoves
<1>7. CASE process[p].into # "views"
  <2>1. \A r \in Readers : Log(r)' = Log(r)
    BY <1>2, <1>7 DEF Log, TempCollections
  <2>2. ~Inserting(p)'
    BY <1>2, <1>7 DEF Inserting
  <2>3. QED
    BY <1>2, <1>3, <1>4, <1>5, <2>1, <2>2, WebMoves
<1>8. CASE process[p].into = "views" /\ \A r \in Readers : temporary'[process[p].into][r] = <<>>
  <2> SUFFICES ASSUME ~met' PROVE (Alone /\ Growing /\ Newer /\ Single /\ NoneFewer)'
    BY DEF WebInv
  <2>1. /\ \A r \in Readers : Log(r)' = <<>> /\ Len(Log(r)') = 0 /\ 1..Len(Log(r)') = {}
    BY <1>8 DEF Log
  <2>2. Growing' /\ Single' /\ NoneFewer'
    BY <2>1 DEF Growing, Single, NoneFewer
  <2>3. \A q \in Processes : q # p => ~Viewing(q)'
    BY <1>1, <1>2, <1>4, AloneKept DEF WebInv, Viewing
  <2>4. Newer'
    BY <1>2, <1>4, <1>5, <2>1, <2>3 DEF Newer
  <2>5. QED
    BY <1>4, <2>2, <2>4
<1>9. QED
  BY <1>2, <1>6, <1>7, <1>8

LEMMA InsertRecordKeepsWeb == ASSUME Basics, WebInv, NEW p \in Processes, InsertRecord(p) PROVE WebInv'
<1>1. /\ process[p].at = "insert" /\ process'[p].at = "insert" /\ process'[p].into = process[p].into
      /\ \A q \in Processes \ {p} : process'[q] = process[q]
      /\ UNCHANGED <<viewed, opens, interaction, met>>
      /\ counters' = counters
  BY InsertRecordDoes DEF Fine
<1>2. ~met' => ~met /\ Alone'
  BY <1>1, AloneKept DEF WebInv
<1>3. CASE process[p].into # "views"
  <2>1. \A r \in Readers : Log(r)' = Log(r)
    BY <1>3, LogAfterInsert
  <2>2. ~Viewing(p)' /\ ~Inserting(p)'
    BY <1>1, <1>3 DEF Viewing, Inserting
  <2>3. QED
    BY <1>1, <1>2, <2>1, <2>2, WebMoves
<1>4. CASE process[p].into = "views"
  <2> SUFFICES ASSUME ~met' PROVE (Alone /\ Growing /\ Newer /\ Single /\ NoneFewer)'
    BY DEF WebInv
  <2>1. /\ ~met /\ Alone' /\ Growing /\ Newer /\ Single /\ NoneFewer
        /\ \A q \in Processes : q # p => ~Viewing(q)' /\ ~Inserting(q)'
        /\ Viewing(p) /\ Inserting(p)
    BY <1>1, <1>2, <1>4, AloneKept DEF WebInv, Viewing, Inserting
  <2>2. PICK r \in Readers :
                /\ process[p].records[r] > 0 /\ process'[p].records[r] = 0
                /\ \A s \in Readers \ {r} : process'[p].records[s] = process[p].records[s]
                /\ Len(Log(r)') = Len(Log(r)) + 1
                /\ \A i \in 1..Len(Log(r)) : Log(r)'[i] = Log(r)[i]
                /\ Log(r)'[Len(Log(r)) + 1] = process[p].records[r]
                /\ \A s \in Readers \ {r} : Log(s)' = Log(s)
    BY <1>4, LogAfterInsert
  <2> DEFINE v == process[p].records[r]
  <2>3. PICK n \in Nat : n = Len(Log(r))
    BY LogTypes DEF Basics
  <2>4. /\ \A i \in 1..n : Log(r)[i] \in Nat /\ Log(r)[i] <= v /\ Log(r)'[i] = Log(r)[i]
        /\ v \in Nat /\ interaction[r].web <= v
        /\ Len(Log(r)') = n + 1 /\ Log(r)'[n + 1] = v
        /\ \A i \in 1..n + 1 : i \in 1..n \/ i = n + 1
    <3>1. \A i \in 1..n : Log(r)[i] \in Nat
      BY <2>3, LogTypes, ViewsAreNumbers DEF Basics
    <3>2. v \in Nat
      BY ProcessTypes, ViewsAreNumbers DEF Basics
    <3>3. interaction[r].web <= v /\ \A i \in 1..n : Log(r)[i] <= v
      BY <2>1, <2>2, <2>3 DEF Newer
    <3>4. /\ \A i \in 1..n : Log(r)'[i] = Log(r)[i]
          /\ Len(Log(r)') = n + 1 /\ Log(r)'[n + 1] = v
      BY <2>2, <2>3
    <3>5. \A i \in 1..n + 1 : i \in 1..n \/ i = n + 1
      OBVIOUS
    <3>6. QED
      BY <3>1, <3>2, <3>3, <3>4, <3>5
  <2> HIDE DEF v
  <2>5. Growing'
    <3>1. ASSUME NEW s \in Readers, s # r
          PROVE  /\ \A i, j \in 1..Len(Log(s)') : i <= j => Log(s)'[i] <= Log(s)'[j]
                 /\ Len(Log(s)') # 0 => interaction[s].web <= Log(s)'[Len(Log(s)')]
      BY <2>1, <2>2, <3>1 DEF Growing
    <3>2. ASSUME NEW i \in 1..n + 1, NEW j \in 1..n + 1, i <= j PROVE Log(r)'[i] <= Log(r)'[j]
      <4>1. CASE j \in 1..n
        <5>1. i \in 1..n
          BY <3>2, <4>1
        <5>2. Log(r)[i] <= Log(r)[j]
          BY <2>1, <2>3, <3>2, <4>1, <5>1 DEF Growing
        <5>3. QED
          BY <2>4, <4>1, <5>1, <5>2
      <4>2. CASE j = n + 1
        BY <2>4, <4>2
      <4>3. QED
        BY <2>4, <4>1, <4>2
    <3>3. interaction[r].web <= Log(r)'[Len(Log(r)')]
      BY <2>4
    <3>4. \A s \in Readers :
            /\ \A i, j \in 1..Len(Log(s)') : i <= j => Log(s)'[i] <= Log(s)'[j]
            /\ Len(Log(s)') # 0 => interaction[s].web <= Log(s)'[Len(Log(s)')]
      BY <2>4, <3>1, <3>2, <3>3
    <3>5. QED
      BY <1>1, <3>4 DEF Growing
  <2>6. Newer'
    <3>1. \A s \in Readers : process'[p].records[s] > 0 =>
                /\ interaction[s].web <= process'[p].records[s]
                /\ \A i \in 1..Len(Log(s)') : Log(s)'[i] <= process'[p].records[s]
      <4> SUFFICES ASSUME NEW s \in Readers, process'[p].records[s] > 0
                   PROVE  /\ interaction[s].web <= process'[p].records[s]
                          /\ \A i \in 1..Len(Log(s)') : Log(s)'[i] <= process'[p].records[s]
        OBVIOUS
      <4>1. s # r
        BY <2>2
      <4>2. process'[p].records[s] = process[p].records[s] /\ Log(s)' = Log(s)
        BY <2>2, <4>1
      <4>3. QED
        BY <2>1, <4>2 DEF Newer
    <3>2. QED
      BY <1>1, <2>1, <3>1 DEF Newer
  <2>7. Single'
    <3> SUFFICES ASSUME counters.errors = 0, NEW s \in Readers
                 PROVE  /\ Len(Log(s)') <= 1
                        /\ \A q \in Processes : Inserting(q)' /\ process'[q].records[s] > 0 => Len(Log(s)') = 0
      BY <1>1 DEF Single
    <3>1. CASE s = r
      <4>1. n = 0
        BY <2>1, <2>2, <2>3, <3>1 DEF Single
      <4>2. Len(Log(r)') = 1
        BY <2>4, <4>1
      <4>3. ~(process'[p].records[r] > 0)
        BY <2>2
      <4>4. QED
        BY <2>1, <3>1, <4>2, <4>3
    <3>2. CASE s # r
      BY <2>1, <2>2, <3>2 DEF Single
    <3>3. QED
      BY <3>1, <3>2
  <2>8. NoneFewer'
    <3> SUFFICES ASSUME counters.errors <= 1, NEW s \in Readers, NEW i \in 1..Len(Log(s)')
                 PROVE  interaction[s].web <= Log(s)'[i]
      BY <1>1 DEF NoneFewer
    <3>1. CASE s = r /\ i = n + 1
      BY <2>4, <3>1
    <3>2. CASE s = r /\ i \in 1..n
      BY <2>1, <2>3, <2>4, <3>2 DEF NoneFewer
    <3>3. CASE s # r
      BY <2>1, <2>2, <3>3 DEF NoneFewer
    <3>4. QED
      BY <2>4, <3>1, <3>2, <3>3
  <2>9. QED
    BY <2>1, <2>5, <2>6, <2>7, <2>8
<1>5. QED
  BY <1>3, <1>4

LEMMA InsertRecordsFailsKeepsWeb ==
    ASSUME Basics, WebInv, NEW p \in Processes, InsertRecordsFails(p) PROVE WebInv'
<1>1. /\ process[p].at = "insert" /\ process'[p].at = "insert" /\ process'[p].into = process[p].into
      /\ \A r \in Readers : process'[p].records[r] = 0
      /\ \A q \in Processes \ {p} : process'[q] = process[q]
      /\ Fails
      /\ UNCHANGED <<viewed, opens, interaction, temporary, met>>
  BY InsertRecordsFailsDoes
<1>2. counters'.errors = counters.errors + 1 /\ counters.errors \in Nat
  BY <1>1, CountersType DEF Fails, Counted, Basics
<1>3. ~met' => ~met /\ Alone'
  BY <1>1, AloneKept DEF WebInv
<1>4. \A r \in Readers : Log(r)' = Log(r)
  BY <1>1 DEF Log
<1>5. ~met /\ counters'.errors <= 1 => \A r \in Readers :
               \A i \in 1..Len(Log(r)) : interaction[r].web <= Log(r)[i]
  <2>1. counters'.errors <= 1 => counters.errors = 0
    BY <1>2
  <2>2. QED
    BY <2>1, LoneRecord DEF WebInv
<1>6. \A r \in Readers : ~(process'[p].records[r] > 0)
  BY <1>1
<1>7. counters'.errors \in {counters.errors, counters.errors + 1}
  BY <1>2
<1>8. QED
  BY <1>1, <1>3, <1>4, <1>5, <1>6, <1>7, WebMoves

(* When views are merged each reader gets one of their records, or keeps   *)
(* what there was; never less while Growing and NoneFewer hold.            *)
LEMMA MergeNeverLowers ==
    ASSUME Basics, WebInv, ~met, NEW p \in Processes, Merge(p), NEW r \in Readers,
           counters'.errors <= 2 \/ counters'.errors = counters.errors
    PROVE  interaction'[r].web >= interaction[r].web
<1>1. interaction[r].web \in Nat
  BY StoredTypes, ViewsAreNumbers DEF Basics
<1>2. CASE interaction'[r].web = interaction[r].web
  BY <1>1, <1>2
<1>3. CASE process[p].into = "views" /\ interaction'[r].web # interaction[r].web
  <2>1. PICK i \in 1..Len(Log(r)) :
            interaction'[r].web = Log(r)[i] /\ (i = Len(Log(r)) \/ Fails)
    BY <1>3, MergeDoes
  <2>2. Log(r)[i] \in Nat /\ Len(Log(r)) \in Nat
    BY LogTypes, ViewsAreNumbers DEF Basics
  <2>3. CASE i = Len(Log(r))
    <3>1. Len(Log(r)) # 0
      BY <2>1, <2>2
    <3>2. interaction[r].web <= Log(r)[i]
      BY <2>3, <3>1 DEF WebInv, Growing
    <3>3. QED
      BY <1>1, <2>1, <2>2, <3>2
  <2>4. CASE Fails
    <3>1. counters'.errors = counters.errors + 1 /\ counters.errors \in Nat
      BY <2>4, CountersType DEF Fails, Counted, Basics
    <3>2. counters.errors <= 1
      BY <3>1
    <3>3. Inserting(p)
      BY <1>3, MergeDoes DEF Inserting
    <3>4. interaction[r].web <= Log(r)[i]
      BY <3>2, <3>3 DEF WebInv, NoneFewer
    <3>5. QED
      BY <1>1, <2>1, <2>2, <3>4
  <2>5. QED
    BY <2>1, <2>3, <2>4
<1>4. QED
  BY <1>2, <1>3, MergeDoes

LEMMA MergeKeepsWeb == ASSUME Basics, WebInv, NEW p \in Processes, Merge(p) PROVE WebInv'
<1>1. /\ process[p].at = "insert"
      /\ process'[p].at = (IF process[p].into = "views" THEN "customers" ELSE "clear")
      /\ \A q \in Processes \ {p} : process'[q] = process[q]
      /\ UNCHANGED <<viewed, opens, temporary, met>>
      /\ Fine \/ Fails
  BY MergeDoes
<1>2. counters'.errors \in {counters.errors, counters.errors + 1} /\ counters.errors \in Nat
  BY <1>1, Accounted DEF Basics
<1>3. ~met' => ~met /\ Alone'
  BY <1>1, AloneKept DEF WebInv
<1>4. ~Viewing(p)' /\ ~Inserting(p)' /\ \A r \in Readers : Log(r)' = Log(r)
  BY <1>1 DEF Viewing, Inserting, Log
<1>5. CASE process[p].into # "views"
  <2>1. \A r \in Readers : interaction'[r].web = interaction[r].web
    BY <1>5, MergeDoes
  <2>2. QED
    BY <1>1, <1>2, <1>3, <1>4, <2>1, WebMoves
<1>6. CASE process[p].into = "views"
  <2> SUFFICES ASSUME ~met' PROVE (Alone /\ Growing /\ Newer /\ Single /\ NoneFewer)'
    BY DEF WebInv
  <2>1. /\ ~met /\ Alone' /\ Growing /\ Single
        /\ \A q \in Processes : ~Viewing(q)' /\ ~Inserting(q)'
    BY <1>1, <1>3, <1>4, AloneKept DEF WebInv, Viewing, Inserting
  <2>2. Newer' /\ NoneFewer'
    BY <2>1 DEF Newer, NoneFewer
  <2>3. Single'
    <3>1. counters'.errors = 0 => counters.errors = 0
      BY <1>2
    <3>2. QED
      BY <1>4, <2>1, <3>1 DEF Single
  <2>4. Growing'
    <3>1. ASSUME NEW r \in Readers, Len(Log(r)) # 0
          PROVE  interaction'[r].web <= Log(r)[Len(Log(r))]
      <4>1. Len(Log(r)) \in Nat /\ Len(Log(r)) \in 1..Len(Log(r))
        BY <3>1, LogTypes DEF Basics
      <4>2. /\ interaction[r].web <= Log(r)[Len(Log(r))]
            /\ \A i \in 1..Len(Log(r)) : i <= Len(Log(r))
        BY <2>1, <3>1, <4>1 DEF Growing
      <4>3. \/ interaction'[r].web = interaction[r].web
            \/ \E i \in 1..Len(Log(r)) : interaction'[r].web = Log(r)[i]
        BY <1>6, MergeDoes
      <4>4. QED
        BY <2>1, <4>1, <4>2, <4>3 DEF Growing
    <3>2. QED
      BY <1>4, <2>1, <3>1 DEF Growing
  <2>5. QED
    BY <2>1, <2>2, <2>3, <2>4
<1>7. QED
  BY <1>5, <1>6

LEMMA NewsKeepsWeb == ASSUME Basics, WebInv, NEW r \in Readers, News(r) PROVE WebInv'
<1>1. counters'.errors = counters.errors /\ UNCHANGED <<interaction, temporary, process, met>>
  BY NewsDoes
<1>2. QED
  BY <1>1 DEF WebInv, Alone, Growing, Newer, Single, NoneFewer, At, Viewing, Inserting, Log

LEMMA BeginDayKeepsWeb == ASSUME Basics, WebInv, NEW p \in Processes, BeginDay(p) PROVE WebInv'
<1>1. /\ process[p].at = "idle" /\ process'[p].at = "mails"
      /\ \A q \in Processes \ {p} : process'[q] = process[q]
      /\ counters'.errors = counters.errors
      /\ met' = (met \/ ~Resting)
      /\ UNCHANGED <<viewed, opens, interaction, temporary>>
  BY BeginDayDoes
<1>2. ~met' => ~met /\ Alone'
  BY <1>1 DEF Resting, Alone, At
<1>3. ~Viewing(p)' /\ ~Inserting(p)' /\ \A r \in Readers : Log(r)' = Log(r)
  BY <1>1 DEF Viewing, Inserting, Log
<1>4. \A r \in Readers : interaction'[r].web = interaction[r].web
  BY <1>1
<1>5. counters'.errors \in {counters.errors, counters.errors + 1}
  BY <1>1
<1>6. QED
  BY <1>1, <1>2, <1>3, <1>4, <1>5, WebMoves

(* The steps that leave the views and their records alone, and after which *)
(* the process is at none of them.                                         *)
LEMMA OthersKeepWeb ==
    ASSUME Basics, WebInv, NEW p \in Processes,
           \/ MergeMails(p) \/ FindCustomers(p) \/ DropNew(p) \/ Count(p) \/ EndEarly(p)
    PROVE  WebInv' /\ \A r \in Readers : interaction'[r].web = interaction[r].web
<1> DEFINE Rest == /\ \A q \in Processes \ {p} : process'[q] = process[q]
                   /\ process[p].at # "idle" /\ UNCHANGED met
                   /\ ~Viewing(p)' /\ ~Inserting(p)'
                   /\ counters'.errors \in {counters.errors, counters.errors + 1}
                   /\ \A r \in Readers : interaction'[r].web = interaction[r].web
                   /\ \A r \in Readers : Log(r)' = Log(r)
<1>1. Fine \/ Fails => counters'.errors \in {counters.errors, counters.errors + 1}
  BY Accounted DEF Basics
<1>2. CASE MergeMails(p)
  <2>1. /\ process[p].at = "mails" /\ process'[p].at = "search"
        /\ \A q \in Processes \ {p} : process'[q] = process[q]
        /\ \A r \in Readers : interaction'[r].web = interaction[r].web
        /\ Fine \/ Fails
        /\ UNCHANGED <<temporary, met>>
    BY <1>2, MergeMailsDoes
  <2>2. Rest
    BY <1>1, <2>1 DEF Viewing, Inserting, Log
  <2>3. QED
    BY <2>2, AloneKept, WebMoves DEF WebInv
<1>3. CASE FindCustomers(p)
  <2>1. /\ process[p].at = "customers"
        /\ process'[p].at = "count" \/ (process'[p].at = "look" /\ process'[p].into = "payments")
        /\ \A q \in Processes \ {p} : process'[q] = process[q]
        /\ Fine
        /\ UNCHANGED <<interaction, temporary, met>>
    BY <1>3, FindCustomersDoes
  <2>2. Rest
    BY <1>1, <2>1 DEF Viewing, Inserting, Log
  <2>3. QED
    BY <2>2, AloneKept, WebMoves DEF WebInv
<1>4. CASE DropNew(p)
  <2>1. process[p].at = "clear" /\ Dropped(p, "count") /\ "count" \in Stages
    BY <1>4 DEF DropNew, At, Stages
  <2>2. process[p].into = "payments"
    BY <2>1 DEF Basics, Seen, At
  <2>3. /\ process'[p].at = "count"
        /\ \A q \in Processes \ {p} : process'[q] = process[q]
        /\ \/ Fine /\ \A c \in TempCollections \ {process[p].into} : temporary'[c] = temporary[c]
           \/ Fails /\ UNCHANGED temporary
        /\ UNCHANGED <<interaction, met>>
    BY <2>1, DroppedDoes
  <2>4. \A r \in Readers : Log(r)' = Log(r)
    BY <2>2, <2>3 DEF Log, TempCollections
  <2>5. Rest
    BY <1>1, <2>1, <2>3, <2>4 DEF Viewing, Inserting
  <2>6. QED
    BY <2>5, AloneKept, WebMoves DEF WebInv
<1>5. CASE Count(p)
  <2>1. /\ process[p].at = "count" /\ process'[p].at = "idle"
        /\ \A q \in Processes \ {p} : process'[q] = process[q]
        /\ \A r \in Readers : interaction'[r].web = interaction[r].web
        /\ Fine \/ Fails
        /\ UNCHANGED <<temporary, met>>
    BY <1>5, CountDoes
  <2>2. Rest
    BY <1>1, <2>1 DEF Viewing, Inserting, Log
  <2>3. QED
    BY <2>2, AloneKept, WebMoves DEF WebInv
<1>6. CASE EndEarly(p)
  <2>1. /\ process'[p].at = "idle"
        /\ \A q \in Processes \ {p} : process'[q] = process[q]
        /\ Fails
        /\ UNCHANGED <<interaction, temporary, met>>
    BY <1>6, EndEarlyDoes
  <2>2. process[p].at # "idle"
    BY <1>6 DEF EndEarly, At
  <2>3. Rest
    BY <1>1, <2>1, <2>2 DEF Viewing, Inserting, Log
  <2>4. QED
    BY <2>3, AloneKept, WebMoves DEF WebInv
<1>7. QED
  BY <1>2, <1>3, <1>4, <1>5, <1>6

LEMMA WebNext ==
    ASSUME Basics, WebInv, [InteractionsNext]_interactions_vars
    PROVE  WebInv'
<1>1. CASE UNCHANGED interactions_vars
  BY <1>1 DEF interactions_vars, day_stored, WebInv, Alone, Growing, Newer, Single, NoneFewer,
              At, Viewing, Inserting, Log
<1>2. CASE InteractionsNext
  BY <1>2, NewsKeepsWeb, BeginDayKeepsWeb, OthersKeepWeb, SearchKeepsWeb, LookKeepsWeb,
     DropOldKeepsWeb, InsertRecordKeepsWeb, InsertRecordsFailsKeepsWeb, MergeKeepsWeb
     DEF InteractionsNext
<1>3. QED
  BY <1>1, <1>2

LEMMA NeverLowered ==
    ASSUME Basics, WebInv, [InteractionsNext]_interactions_vars, ~met,
           counters'.errors <= 2 \/ counters'.errors = counters.errors
    PROVE  \A r \in Readers : interaction'[r].web >= interaction[r].web
<1>1. \A r \in Readers : interaction[r].web >= interaction[r].web
  <2>1. \A n \in Nat : n >= n
    OBVIOUS
  <2>2. QED
    BY <2>1, StoredTypes, ViewsAreNumbers DEF Basics
<1>2. CASE UNCHANGED interactions_vars
  BY <1>1, <1>2 DEF interactions_vars, day_stored
<1>3. ASSUME NEW r \in Readers, News(r) PROVE UNCHANGED interaction
  BY <1>3 DEF News, day_stored
<1>4. ASSUME NEW p \in Processes,
             \/ BeginDay(p) \/ Search(p) \/ Look(p) \/ DropOld(p)
             \/ InsertRecord(p) \/ InsertRecordsFails(p)
      PROVE  UNCHANGED interaction
  BY <1>4 DEF BeginDay, Search, Look, DropOld, Dropped, InsertRecord, InsertRecordsFails, day_stored
<1>5. CASE InteractionsNext
  BY <1>1, <1>3, <1>4, <1>5, OthersKeepWeb, MergeNeverLowers DEF InteractionsNext
<1>6. QED
  BY <1>2, <1>5

-----------------------------------------------------------------------------
(* While nothing fails and no news comes in: each reader who is certain to *)
(* be answered is counted, or some process is about to merge their views.  *)

LEMMA CertainAnswered ==
    ASSUME InteractionsTypeOK, NEW r \in Certain, NEW S \in Answers
    PROVE  r \in S
<1> SUFFICES ASSUME r \notin S PROVE FALSE
  OBVIOUS
<1> DEFINE AsMany == {t \in Readers : viewed[t] >= viewed[r]}
<1>1. /\ r \in Readers /\ r \in Kept(viewed) /\ Cardinality(AsMany) <= MostReaders
      /\ S \subseteq Kept(viewed) /\ Kept(viewed) \subseteq Readers
      /\ S = Kept(viewed) \/ Cardinality(S) = MostReaders
      /\ \A t \in S : viewed[t] >= viewed[r]
  BY DEF Certain, Answers, Kept
<1>2. Cardinality(S) = MostReaders /\ MostReaders \in Nat
  BY <1>1, InteractionBoundAssumption
<1>3. viewed[r] >= viewed[r]
  <2>1. \A n \in Nat : n >= n
    OBVIOUS
  <2>2. QED
    BY <1>1, <2>1, StoredTypes, ViewsAreNumbers
<1>4. S \cup {r} \subseteq AsMany
  BY <1>1, <1>3
<1>5. IsFiniteSet(Readers) /\ AsMany \subseteq Readers /\ S \subseteq Readers
  BY <1>1, CustomerAssumption
<1> HIDE DEF AsMany
<1>6. IsFiniteSet(AsMany) /\ IsFiniteSet(S)
  BY <1>5, FS_Subset
<1>7. Cardinality(S \cup {r}) = Cardinality(S) + 1
  BY <1>6, FS_AddElement
<1>8. Cardinality(S \cup {r}) <= Cardinality(AsMany) /\ Cardinality(AsMany) \in Nat
  BY <1>4, <1>6, FS_Subset, FS_CardinalityType
<1>9. QED
  BY <1>1, <1>2, <1>7, <1>8

LEMMA CountInit == InteractionsInit => CountInv
BY DEF InteractionsInit, CountInv

LEMMA MailsMergedAt ==
    ASSUME MailsMerged, NEW p \in Processes, process[p].at \notin {"idle", "mails"}
    PROVE  \A r \in Readers : interaction[r].mail = opens[r]
BY DEF MailsMerged, At

(* A step of p after which mails and views are as they were.               *)
LEMMA CountMoves ==
    ASSUME ~disturbed, CountInv, NEW p \in Processes,
           UNCHANGED <<viewed, opens>>,
           process[p].at \notin {"idle", "mails"}, process'[p].at # "idle",
           \A r \in Readers : /\ interaction'[r].web = interaction[r].web
                              /\ interaction'[r].day = interaction[r].day
                              /\ interaction'[r].mail = interaction[r].mail,
           \A r \in Readers : Log(r)' = Log(r),
           \A q \in Processes \ {p} : process'[q] = process[q],
           Viewing(p)' => \A r \in Readers :
               /\ process'[p].records[r] \in {0, viewed[r]}
               /\ process'[p].at # "insert" /\ r \in Certain => process'[p].records[r] = viewed[r]
               /\ process'[p].at = "insert" => \A i \in 1..Len(Log(r)) : Log(r)[i] = viewed[r],
           \A r \in Certain : WillMerge(p, r) => WillMerge(p, r)'
    PROVE  CountInv'
<1>1. MailsMerged /\ AsViewed /\ Counting
  BY DEF CountInv
<1>2. MailsMerged'
  BY <1>1, MailsMergedAt DEF MailsMerged
<1>3. \A q \in Processes \ {p} : /\ Viewing(q)' = Viewing(q) /\ Inserting(q)' = Inserting(q)
                                 /\ At(q, "insert")' = At(q, "insert")
  BY DEF Viewing, Inserting, At
<1>4. Certain' = Certain /\ Certain \subseteq Readers
  BY DEF Certain, Kept
<1>5. AsViewed'
  <2> SUFFICES ASSUME NEW q \in Processes, NEW r \in Readers
               PROVE  /\ Viewing(q)' => process'[q].records[r] \in {0, viewed[r]}
                      /\ Viewing(q)' /\ ~At(q, "insert")' /\ r \in Certain =>
                           process'[q].records[r] = viewed[r]
                      /\ Inserting(q)' => \A i \in 1..Len(Log(r)) : Log(r)[i] = viewed[r]
    BY <1>4 DEF AsViewed
  <2>1. CASE q = p
    BY <2>1 DEF Viewing, Inserting, At
  <2>2. CASE q # p
    BY <1>1, <1>3, <2>2 DEF AsViewed
  <2>3. QED
    BY <2>1, <2>2
<1>6. Counting'
  <2> SUFFICES ASSUME NEW r \in Certain PROVE HasCount(r)' \/ \E q \in Processes : WillMerge(q, r)'
    BY <1>4 DEF Counting
  <2>1. CASE HasCount(r)
    BY <1>4, <2>1 DEF HasCount, Resting, At
  <2>2. ASSUME NEW q \in Processes, q # p, WillMerge(q, r) PROVE WillMerge(q, r)'
    BY <1>3, <1>4, <2>2 DEF WillMerge, At
  <2>3. QED
    BY <1>1, <2>1, <2>2 DEF Counting
<1>7. QED
  BY <1>2, <1>5, <1>6 DEF CountInv

LEMMA BeginDayKeepsCount ==
    ASSUME Basics, CountInv, ~disturbed', NEW p \in Processes, BeginDay(p) PROVE CountInv'
<1>1. /\ process[p].at = "idle" /\ process'[p].at = "mails"
      /\ \A q \in Processes \ {p} : process'[q] = process[q]
      /\ disturbed' = (disturbed /\ ~Resting)
      /\ UNCHANGED <<viewed, opens, interaction, temporary>>
  BY BeginDayDoes
<1>2. \A r \in Readers : WillMerge(p, r)'
  BY <1>1 DEF WillMerge, At
<1>3. Certain' = Certain /\ Certain \subseteq Readers
  BY <1>1 DEF Certain, Kept
<1>4. Counting'
  BY <1>2, <1>3 DEF Counting
<1>5. ~Viewing(p)' /\ ~Inserting(p)' /\ \A r \in Readers : Log(r)' = Log(r)
  BY <1>1 DEF Viewing, Inserting, Log
<1>6. CASE Resting
  <2>1. \A q \in Processes : q # p => process'[q].at = "idle"
    BY <1>1, <1>6 DEF Resting, At
  <2>2. \A q \in Processes : ~Viewing(q)' /\ ~Inserting(q)'
    BY <1>5, <2>1 DEF Viewing, Inserting
  <2>3. MailsMerged'
    BY <1>1, <2>1 DEF MailsMerged, At
  <2>4. AsViewed'
    BY <2>2 DEF AsViewed
  <2>5. QED
    BY <1>4, <2>3, <2>4 DEF CountInv
<1>7. CASE ~Resting
  <2>1. MailsMerged /\ AsViewed
    BY <1>1, <1>7 DEF CountInv
  <2>2. MailsMerged'
    BY <1>1, <2>1 DEF MailsMerged, At
  <2>3. AsViewed'
    <3> SUFFICES ASSUME NEW q \in Processes, q # p, NEW r \in Readers
                 PROVE  /\ Viewing(q)' => process'[q].records[r] \in {0, viewed[r]}
                        /\ Viewing(q)' /\ ~At(q, "insert")' /\ r \in Certain =>
                             process'[q].records[r] = viewed[r]
                        /\ Inserting(q)' => \A i \in 1..Len(Log(r)) : Log(r)[i] = viewed[r]
      BY <1>1, <1>3, <1>5 DEF AsViewed
    <3>1. /\ Viewing(q)' = Viewing(q) /\ Inserting(q)' = Inserting(q)
          /\ At(q, "insert")' = At(q, "insert") /\ process'[q] = process[q]
      BY <1>1 DEF Viewing, Inserting, At
    <3>2. QED
      BY <2>1, <3>1 DEF AsViewed
  <2>4. QED
    BY <1>4, <2>2, <2>3 DEF CountInv
<1>8. QED
  BY <1>6, <1>7

LEMMA MergeMailsKeepsCount ==
    ASSUME Basics, CountInv, ~disturbed, ~disturbed', NEW p \in Processes, MergeMails(p) PROVE CountInv'
<1>1. /\ process[p].at = "mails" /\ process'[p].at = "search"
      /\ \A q \in Processes \ {p} : process'[q] = process[q]
      /\ \A r \in Readers :
           /\ opens[r] = 0 => interaction'[r].mail = interaction[r].mail
           /\ opens[r] > 0 => interaction'[r].mail = opens[r]
      /\ UNCHANGED <<viewed, opens, temporary, met>>
  BY MergeMailsDoes
<1>2. MailsMerged'
  <2> SUFFICES ASSUME NEW r \in Readers PROVE interaction'[r].mail = opens[r]
    BY <1>1 DEF MailsMerged
  <2>1. opens[r] \in Nat
    BY StoredTypes, ViewsAreNumbers DEF Basics
  <2>2. opens[r] = 0 => interaction[r].mail = 0
    BY DEF Basics, Seen
  <2>3. opens[r] = 0 \/ opens[r] > 0
    BY <2>1
  <2>4. QED
    BY <1>1, <2>2, <2>3
<1>3. Certain' = Certain /\ Certain \subseteq Readers
  BY <1>1 DEF Certain, Kept
<1>4. Counting'
  BY <1>1, <1>3 DEF Counting, WillMerge, At
<1>5. ~Viewing(p)' /\ ~Inserting(p)' /\ \A r \in Readers : Log(r)' = Log(r)
  BY <1>1 DEF Viewing, Inserting, Log
<1>6. AsViewed'
  <2> SUFFICES ASSUME NEW q \in Processes, q # p, NEW r \in Readers
               PROVE  /\ Viewing(q)' => process'[q].records[r] \in {0, viewed[r]}
                      /\ Viewing(q)' /\ ~At(q, "insert")' /\ r \in Certain =>
                           process'[q].records[r] = viewed[r]
                      /\ Inserting(q)' => \A i \in 1..Len(Log(r)) : Log(r)[i] = viewed[r]
    BY <1>1, <1>3, <1>5 DEF AsViewed
  <2>1. /\ Viewing(q)' = Viewing(q) /\ Inserting(q)' = Inserting(q)
        /\ At(q, "insert")' = At(q, "insert") /\ process'[q] = process[q]
    BY <1>1 DEF Viewing, Inserting, At
  <2>2. QED
    BY <2>1 DEF CountInv, AsViewed
<1>7. QED
  BY <1>2, <1>4, <1>6 DEF CountInv

LEMMA SearchKeepsCount ==
    ASSUME Basics, CountInv, ~disturbed, ~disturbed', NEW p \in Processes, Search(p) PROVE CountInv'
<1>1. PICK S \in Answers : \A r \in Readers :
        process'[p].records[r] = IF r \in S THEN viewed[r] ELSE 0
  BY SearchDoes
<1>2. /\ process[p].at = "search" /\ process'[p].at = "look" /\ process'[p].into = "views"
      /\ \A q \in Processes \ {p} : process'[q] = process[q]
      /\ UNCHANGED <<viewed, opens, interaction, temporary, met>>
  BY SearchDoes
<1>3. \A r \in Readers : process'[p].records[r] \in {0, viewed[r]}
  BY <1>1
<1>4. \A r \in Certain : process'[p].records[r] = viewed[r]
  BY <1>1, CertainAnswered DEF Basics, Certain, Kept
<1>5. \A r \in Readers : Log(r)' = Log(r)
  BY <1>2 DEF Log
<1>6. \A r \in Certain : WillMerge(p, r)'
  BY <1>2 DEF WillMerge, Viewing, At
<1>7. QED
  BY <1>2, <1>3, <1>4, <1>5, <1>6, CountMoves

LEMMA LookKeepsCount ==
    ASSUME Basics, CountInv, ~disturbed, ~disturbed', NEW p \in Processes, Look(p) PROVE CountInv'
<1>1. /\ process[p].at = "look"
      /\ \/ process'[p].at = "drop"
         \/ /\ process'[p].at = "insert"
            /\ \A r \in Readers : temporary[process[p].into][r] = <<>>
      /\ process'[p].into = process[p].into /\ process'[p].records = process[p].records
      /\ \A q \in Processes \ {p} : process'[q] = process[q]
      /\ UNCHANGED <<viewed, opens, interaction, temporary, met>>
  BY LookDoes DEF Fails
<1>2. \A r \in Readers : Log(r)' = Log(r)
  BY <1>1 DEF Log
<1>3. Viewing(p)' => Viewing(p) /\ ~At(p, "insert")
  BY <1>1 DEF Viewing, At
<1>4. Viewing(p)' => \A r \in Readers :
        /\ process'[p].records[r] \in {0, viewed[r]}
        /\ r \in Certain => process'[p].records[r] = viewed[r]
  BY <1>1, <1>3 DEF CountInv, AsViewed
<1>5. Len(<<>>) = 0 /\ 1..0 = {}
  OBVIOUS
<1>6. Inserting(p)' => \A r \in Readers : \A i \in 1..Len(Log(r)) : Log(r)[i] = viewed[r]
  BY <1>1, <1>5 DEF Inserting, Log
<1>7. Viewing(p) => Viewing(p)'
  BY <1>1 DEF Viewing
<1>8. \A r \in Certain : WillMerge(p, r) => WillMerge(p, r)'
  <2> SUFFICES ASSUME NEW r \in Certain, WillMerge(p, r) PROVE WillMerge(p, r)'
    OBVIOUS
  <2>0. Viewing(p)
    BY <1>1 DEF WillMerge, Inserting, At
  <2>1. Viewing(p)' /\ r \in Readers
    BY <1>7, <2>0 DEF Certain, Kept
  <2>2. process'[p].records[r] = viewed[r]
    BY <1>4, <2>1
  <2>3. QED
    BY <1>1, <2>1, <2>2 DEF WillMerge, Viewing, Inserting, At
<1>9. Viewing(p)' => \A r \in Readers :
        process'[p].at = "insert" => \A i \in 1..Len(Log(r)) : Log(r)[i] = viewed[r]
  BY <1>6 DEF Viewing, Inserting
<1>10. QED
  BY <1>1, <1>2, <1>4, <1>8, <1>9, CountMoves

LEMMA DropOldKeepsCount ==
    ASSUME Basics, CountInv, ~disturbed, ~disturbed', NEW p \in Processes, DropOld(p) PROVE CountInv'
<1>1. process[p].at = "drop" /\ Dropped(p, "insert") /\ "insert" \in Stages
  BY DEF DropOld, At, Stages
<1>2. /\ process'[p].at = "insert"
      /\ process'[p].into = process[p].into /\ process'[p].records = process[p].records
      /\ \A q \in Processes \ {p} : process'[q] = process[q]
      /\ \A r \in Readers : temporary'[process[p].into][r] = <<>>
      /\ \A c \in TempCollections \ {process[p].into} : temporary'[c] = temporary[c]
      /\ UNCHANGED <<viewed, opens, interaction, met>>
  BY <1>1, DroppedDoes DEF Fails
<1>3. CASE process[p].into # "views"
  <2>1. \A r \in Readers : Log(r)' = Log(r)
    BY <1>2, <1>3 DEF Log, TempCollections
  <2>2. ~Viewing(p)' /\ \A r \in Certain : ~WillMerge(p, r)
    BY <1>1, <1>2, <1>3 DEF Viewing, WillMerge, Inserting, At
  <2>3. QED
    BY <1>1, <1>2, <2>1, <2>2, CountMoves
<1>4. CASE process[p].into = "views"
  <2>1. \A r \in Readers : Log(r)' = <<>> /\ 1..Len(Log(r)') = {}
    <3>1. Len(<<>>) = 0 /\ 1..0 = {}
      OBVIOUS
    <3>2. QED
      BY <1>2, <1>4, <3>1 DEF Log
  <2>2. MailsMerged /\ AsViewed
    BY DEF CountInv
  <2>3. MailsMerged'
    BY <1>1, <1>2, <2>2, MailsMergedAt DEF MailsMerged
  <2>4. Certain' = Certain /\ Certain \subseteq Readers
    BY <1>2 DEF Certain, Kept
  <2>5. /\ Viewing(p) /\ ~At(p, "insert") /\ Viewing(p)' /\ At(p, "insert")' /\ Inserting(p)'
        /\ \A q \in Processes : q # p => /\ Viewing(q)' = Viewing(q) /\ At(q, "insert")' = At(q, "insert")
                                         /\ process'[q] = process[q]
    BY <1>1, <1>2, <1>4 DEF Viewing, Inserting, At
  <2>6. AsViewed'
    <3> SUFFICES ASSUME NEW q \in Processes, NEW r \in Readers
                 PROVE  /\ Viewing(q)' => process'[q].records[r] \in {0, viewed[r]}
                        /\ Viewing(q)' /\ ~At(q, "insert")' /\ r \in Certain =>
                             process'[q].records[r] = viewed[r]
      BY <1>2, <2>1, <2>4 DEF AsViewed
    <3>1. QED
      BY <1>2, <2>2, <2>5 DEF AsViewed
  <2>7. \A r \in Certain : WillMerge(p, r)'
    BY <1>2, <2>2, <2>4, <2>5 DEF AsViewed, WillMerge
  <2>8. Counting'
    BY <2>4, <2>7 DEF Counting
  <2>9. QED
    BY <2>3, <2>6, <2>8 DEF CountInv
<1>5. QED
  BY <1>3, <1>4

LEMMA InsertRecordKeepsCount ==
    ASSUME Basics, CountInv, ~disturbed, ~disturbed', NEW p \in Processes, InsertRecord(p) PROVE CountInv'
<1>1. /\ process[p].at = "insert" /\ process'[p].at = "insert" /\ process'[p].into = process[p].into
      /\ \A q \in Processes \ {p} : process'[q] = process[q]
      /\ UNCHANGED <<viewed, opens, interaction, met>>
  BY InsertRecordDoes
<1>2. CASE process[p].into # "views"
  <2>1. \A r \in Readers : Log(r)' = Log(r)
    BY <1>2, LogAfterInsert
  <2>2. ~Viewing(p)' /\ \A r \in Certain : ~WillMerge(p, r)
    BY <1>1, <1>2 DEF Viewing, WillMerge, Inserting, At
  <2>3. QED
    BY <1>1, <2>1, <2>2, CountMoves
<1>3. CASE process[p].into = "views"
  <2>1. PICK r \in Readers :
                /\ process[p].records[r] > 0 /\ process'[p].records[r] = 0
                /\ \A s \in Readers \ {r} : process'[p].records[s] = process[p].records[s]
                /\ Len(Log(r)') = Len(Log(r)) + 1
                /\ \A i \in 1..Len(Log(r)) : Log(r)'[i] = Log(r)[i]
                /\ Log(r)'[Len(Log(r)) + 1] = process[p].records[r]
                /\ \A s \in Readers \ {r} : Log(s)' = Log(s)
    BY <1>3, LogAfterInsert
  <2>2. PICK n \in Nat : n = Len(Log(r))
    BY LogTypes DEF Basics
  <2>3. MailsMerged /\ AsViewed /\ Counting
    BY DEF CountInv
  <2>4. MailsMerged'
    BY <1>1, <2>3, MailsMergedAt DEF MailsMerged
  <2>5. Certain' = Certain /\ Certain \subseteq Readers
    BY <1>1 DEF Certain, Kept
  <2>6. /\ Inserting(p) /\ Viewing(p)
        /\ \A q \in Processes : /\ Viewing(q)' = Viewing(q) /\ Inserting(q)' = Inserting(q)
                                /\ At(q, "insert")' = At(q, "insert")
    BY <1>1, <1>3 DEF Viewing, Inserting, At
  <2>7. process[p].records[r] = viewed[r] /\ \A i \in 1..n : Log(r)[i] = viewed[r]
    <3>1. process[p].records[r] \in {0, viewed[r]}
      BY <2>3, <2>6 DEF AsViewed
    <3>2. process[p].records[r] # 0
      BY <2>1
    <3>3. QED
      BY <2>2, <2>3, <2>6, <3>1, <3>2 DEF AsViewed
  <2>8. Len(Log(r)') = n + 1 /\ Len(Log(r)') # 0 /\ \A i \in 1..Len(Log(r)') : Log(r)'[i] = viewed[r]
    <3>1. Len(Log(r)') = n + 1 /\ \A i \in 1..n + 1 : i \in 1..n \/ i = n + 1
      BY <2>1, <2>2
    <3>2. \A i \in 1..n : Log(r)'[i] = viewed[r]
      BY <2>1, <2>2, <2>7
    <3>3. Log(r)'[n + 1] = viewed[r]
      BY <2>1, <2>2, <2>7
    <3>4. n + 1 # 0
      OBVIOUS
    <3>5. QED
      BY <3>1, <3>2, <3>3, <3>4
  <2>9. AsViewed'
    <3> SUFFICES ASSUME NEW q \in Processes, NEW s \in Readers
                 PROVE  /\ Viewing(q)' => process'[q].records[s] \in {0, viewed[s]}
                        /\ Viewing(q)' /\ ~At(q, "insert")' /\ s \in Certain =>
                             process'[q].records[s] = viewed[s]
                        /\ Inserting(q)' => \A i \in 1..Len(Log(s)') : Log(s)'[i] = viewed[s]
      BY <1>1, <2>5 DEF AsViewed
    <3>1. Inserting(q)' => \A i \in 1..Len(Log(s)') : Log(s)'[i] = viewed[s]
      <4>1. CASE s = r
        BY <2>8, <4>1
      <4>2. CASE s # r
        BY <2>1, <2>3, <2>6, <4>2 DEF AsViewed
      <4>3. QED
        BY <4>1, <4>2
    <3>2. CASE q = p
      <4>1. ~(~At(q, "insert")')
        BY <1>1, <3>2 DEF At
      <4>2. process'[p].records[s] = 0 \/ process'[p].records[s] = process[p].records[s]
        BY <2>1
      <4>3. process[p].records[s] \in {0, viewed[s]}
        BY <2>3, <2>6 DEF AsViewed
      <4>4. QED
        BY <3>1, <3>2, <4>1, <4>2, <4>3
    <3>3. CASE q # p
      <4>1. process'[q] = process[q]
        BY <1>1, <3>3
      <4>2. QED
        BY <2>3, <2>6, <3>1, <4>1 DEF AsViewed
    <3>4. QED
      BY <3>2, <3>3
  <2>10. Counting'
    <3> SUFFICES ASSUME NEW s \in Certain PROVE HasCount(s)' \/ \E q \in Processes : WillMerge(q, s)'
      BY <2>5 DEF Counting
    <3>1. CASE HasCount(s)
      BY <1>1, <2>5, <3>1 DEF HasCount, Resting, At
    <3>2. ASSUME NEW q \in Processes, WillMerge(q, s) PROVE WillMerge(q, s)'
      <4>1. CASE ~Inserting(q)
        <5>1. q # p
          BY <2>6, <4>1
        <5>2. QED
          BY <1>1, <2>6, <3>2, <4>1, <5>1 DEF WillMerge, At
      <4>2. CASE Inserting(q) /\ s = r
        BY <2>6, <2>8, <4>2 DEF WillMerge
      <4>3. CASE Inserting(q) /\ s # r
        <5>1. process'[q].records[s] = process[q].records[s] /\ Log(s)' = Log(s)
          BY <1>1, <2>1, <2>5, <4>3
        <5>2. process[q].records[s] = viewed[s] \/ Len(Log(s)) # 0
          BY <3>2, <4>3 DEF WillMerge, Inserting, At
        <5>3. QED
          BY <1>1, <2>6, <4>3, <5>1, <5>2 DEF WillMerge
      <4>4. QED
        BY <4>1, <4>2, <4>3
    <3>3. QED
      BY <2>3, <3>1, <3>2 DEF Counting
  <2>11. QED
    BY <2>4, <2>9, <2>10 DEF CountInv
<1>4. QED
  BY <1>2, <1>3

LEMMA MergeKeepsCount ==
    ASSUME Basics, CountInv, ~disturbed, ~disturbed', NEW p \in Processes, Merge(p) PROVE CountInv'
<1>1. /\ process[p].at = "insert" /\ \A r \in Readers : process[p].records[r] = 0
      /\ process'[p].at = (IF process[p].into = "views" THEN "customers" ELSE "clear")
      /\ process'[p].into = process[p].into
      /\ \A q \in Processes \ {p} : process'[q] = process[q]
      /\ \A r \in Readers : interaction'[r].mail = interaction[r].mail
      /\ UNCHANGED <<viewed, opens, temporary, met>>
  BY MergeDoes
<1>2. ~Viewing(p)' /\ ~Inserting(p)' /\ \A r \in Readers : Log(r)' = Log(r)
  BY <1>1 DEF Viewing, Inserting, Log
<1>3. CASE process[p].into # "views"
  <2>1. \A r \in Readers :
           interaction'[r].web = interaction[r].web /\ interaction'[r].day = interaction[r].day
    BY <1>3, MergeDoes
  <2>2. \A r \in Certain : ~WillMerge(p, r)
    BY <1>1, <1>3 DEF Viewing, WillMerge, Inserting, At
  <2>3. QED
    BY <1>1, <1>2, <2>1, <2>2, CountMoves
<1>4. CASE process[p].into = "views"
  <2>1. MailsMerged /\ AsViewed /\ Counting /\ Inserting(p)
    BY <1>1, <1>4 DEF CountInv, Inserting
  <2>2. MailsMerged'
    BY <1>1, <2>1, MailsMergedAt DEF MailsMerged
  <2>3. Certain' = Certain /\ Certain \subseteq Readers /\ \A r \in Certain : viewed[r] > 0
    BY <1>1 DEF Certain, Kept
  <2>4. \A q \in Processes \ {p} : /\ Viewing(q)' = Viewing(q) /\ Inserting(q)' = Inserting(q)
                                   /\ At(q, "insert")' = At(q, "insert")
    BY <1>1 DEF Viewing, Inserting, At
  <2>5. AsViewed'
    BY <1>1, <1>2, <2>1, <2>3, <2>4 DEF AsViewed
  <2>6. \A r \in Readers :
          \/ /\ Len(Log(r)) = 0
             /\ interaction'[r].web = interaction[r].web /\ interaction'[r].day = interaction[r].day
          \/ /\ interaction'[r].day = "string"
             /\ \E i \in 1..Len(Log(r)) : interaction'[r].web = Log(r)[i]
    BY <1>4, MergeDoes DEF Fails
  <2>7. ~Resting'
    BY <1>1, <1>4 DEF Resting, At
  <2>8. Counting'
    <3> SUFFICES ASSUME NEW r \in Certain PROVE HasCount(r)' \/ \E q \in Processes : WillMerge(q, r)'
      BY <2>3 DEF Counting
    <3>1. CASE interaction'[r].web = interaction[r].web /\ interaction'[r].day = interaction[r].day
               /\ HasCount(r)
      BY <1>1, <2>7, <3>1 DEF HasCount
    <3>2. CASE interaction'[r].day = "string" /\ \E i \in 1..Len(Log(r)) : interaction'[r].web = Log(r)[i]
      <4>1. interaction'[r].web = viewed[r]
        BY <2>1, <2>3, <3>2 DEF AsViewed
      <4>2. QED
        BY <1>1, <2>7, <3>2, <4>1 DEF HasCount
    <3>3. CASE Len(Log(r)) = 0 /\ \E q \in Processes : WillMerge(q, r)
      <4>1. PICK q \in Processes : WillMerge(q, r)
        BY <3>3
      <4>2. q # p
        <5>1. process[p].records[r] # viewed[r]
          BY <1>1, <2>3
        <5>2. ~WillMerge(p, r)
          BY <1>1, <3>3, <5>1 DEF WillMerge, At
        <5>3. QED
          BY <4>1, <5>2
      <4>3. WillMerge(q, r)'
        BY <1>1, <1>2, <2>3, <2>4, <4>1, <4>2 DEF WillMerge, At
      <4>4. QED
        BY <4>3
    <3>4. QED
      BY <2>1, <2>3, <2>6, <3>1, <3>2, <3>3 DEF Counting
  <2>9. QED
    BY <2>2, <2>5, <2>8 DEF CountInv
<1>5. QED
  BY <1>3, <1>4

LEMMA FindCustomersKeepsCount ==
    ASSUME Basics, CountInv, ~disturbed, ~disturbed', NEW p \in Processes, FindCustomers(p)
    PROVE  CountInv'
<1>1. /\ process[p].at = "customers"
      /\ process'[p].at = "count" \/ (process'[p].at = "look" /\ process'[p].into = "payments")
      /\ \A q \in Processes \ {p} : process'[q] = process[q]
      /\ UNCHANGED <<viewed, opens, interaction, temporary, met>>
  BY FindCustomersDoes
<1>2. ~Viewing(p)' /\ \A r \in Certain : ~WillMerge(p, r)
  BY <1>1 DEF Viewing, WillMerge, Inserting, At
<1>3. \A r \in Readers : Log(r)' = Log(r)
  BY <1>1 DEF Log
<1>4. QED
  BY <1>1, <1>2, <1>3, CountMoves

LEMMA DropNewKeepsCount ==
    ASSUME Basics, CountInv, ~disturbed, ~disturbed', NEW p \in Processes, DropNew(p) PROVE CountInv'
<1>1. process[p].at = "clear" /\ Dropped(p, "count") /\ "count" \in Stages
  BY DEF DropNew, At, Stages
<1>2. process[p].into = "payments"
  BY <1>1 DEF Basics, Seen, At
<1>3. /\ process'[p].at = "count"
      /\ \A q \in Processes \ {p} : process'[q] = process[q]
      /\ \A c \in TempCollections \ {process[p].into} : temporary'[c] = temporary[c]
      /\ UNCHANGED <<viewed, opens, interaction, met>>
  BY <1>1, DroppedDoes DEF Fails
<1>4. \A r \in Readers : Log(r)' = Log(r)
  BY <1>2, <1>3 DEF Log, TempCollections
<1>5. ~Viewing(p)' /\ \A r \in Certain : ~WillMerge(p, r)
  BY <1>1, <1>3 DEF Viewing, WillMerge, Inserting, At
<1>6. QED
  BY <1>1, <1>3, <1>4, <1>5, CountMoves

LEMMA CountKeepsCount ==
    ASSUME Basics, CountInv, ~disturbed, ~disturbed', NEW p \in Processes, Count(p) PROVE CountInv'
<1>1. /\ process[p].at = "count" /\ process'[p].at = "idle"
      /\ \A q \in Processes \ {p} : process'[q] = process[q]
      /\ \A r \in Readers :
           /\ interaction'[r].day = interaction[r].day
           /\ interaction'[r].web = interaction[r].web
           /\ interaction'[r].mail = interaction[r].mail
           /\ interaction[r].day = "string" =>
                interaction'[r].count = interaction[r].web + interaction[r].mail
      /\ UNCHANGED <<viewed, opens, temporary, met>>
  BY CountDoes DEF Fails
<1>2. MailsMerged /\ AsViewed /\ Counting /\ \A r \in Readers : interaction[r].mail = opens[r]
  BY <1>1, MailsMergedAt DEF CountInv
<1>3. MailsMerged'
  BY <1>1, <1>2 DEF MailsMerged
<1>4. Certain' = Certain /\ Certain \subseteq Readers
  BY <1>1 DEF Certain, Kept
<1>5. /\ ~Viewing(p)' /\ ~Inserting(p)' /\ \A r \in Readers : Log(r)' = Log(r)
      /\ \A q \in Processes \ {p} : /\ Viewing(q)' = Viewing(q) /\ Inserting(q)' = Inserting(q)
                                    /\ At(q, "insert")' = At(q, "insert")
  BY <1>1 DEF Viewing, Inserting, At, Log
<1>6. AsViewed'
  BY <1>1, <1>2, <1>4, <1>5 DEF AsViewed
<1>7. Counting'
  <2> SUFFICES ASSUME NEW r \in Certain PROVE HasCount(r)' \/ \E q \in Processes : WillMerge(q, r)'
    BY <1>4 DEF Counting
  <2>1. CASE HasCount(r)
    <3>1. interaction[r].web = viewed[r] /\ interaction[r].day = "string" /\ r \in Readers
      BY <1>4, <2>1 DEF HasCount
    <3>2. QED
      BY <1>1, <1>2, <3>1 DEF HasCount
  <2>2. ASSUME NEW q \in Processes, WillMerge(q, r) PROVE WillMerge(q, r)'
    <3>1. q # p
      BY <1>1, <2>2 DEF WillMerge, Viewing, Inserting, At
    <3>2. QED
      BY <1>1, <1>4, <1>5, <2>2, <3>1 DEF WillMerge, At
  <2>3. QED
    BY <1>2, <2>1, <2>2 DEF Counting
<1>8. QED
  BY <1>3, <1>6, <1>7 DEF CountInv

LEMMA CountNext ==
    ASSUME Basics, CountInv, [InteractionsNext]_interactions_vars
    PROVE  CountInv'
<1> SUFFICES ASSUME ~disturbed' PROVE CountInv'
  BY DEF CountInv
<1>1. CASE UNCHANGED interactions_vars
  BY <1>1 DEF interactions_vars, sources, day_stored, CountInv, MailsMerged, AsViewed, Counting,
     HasCount, WillMerge, Certain, Kept, Resting, At, Viewing, Inserting, Log
<1>2. ASSUME NEW r \in Readers, News(r) PROVE FALSE
  BY <1>2 DEF News
<1>3. ASSUME NEW p \in Processes, InsertRecordsFails(p) \/ EndEarly(p) PROVE FALSE
  BY <1>3 DEF InsertRecordsFails, EndEarly, Fails
<1>4. ASSUME NEW p \in Processes, BeginDay(p) PROVE CountInv'
  BY <1>4, BeginDayKeepsCount
<1>5. ASSUME NEW p \in Processes,
             \/ MergeMails(p) \/ Search(p) \/ Look(p) \/ DropOld(p) \/ InsertRecord(p) \/ Merge(p)
             \/ FindCustomers(p) \/ DropNew(p) \/ Count(p)
      PROVE  ~disturbed
  <2>1. Fine \/ Fails
    BY <1>5, MergeMailsDoes, SearchDoes, LookDoes, InsertRecordDoes, MergeDoes, FindCustomersDoes,
       CountDoes DEF DropOld, DropNew, Dropped
  <2>2. QED
    BY <2>1 DEF Fine, Fails
<1>6. ASSUME NEW p \in Processes,
             \/ MergeMails(p) \/ Search(p) \/ Look(p) \/ DropOld(p) \/ InsertRecord(p) \/ Merge(p)
             \/ FindCustomers(p) \/ DropNew(p) \/ Count(p)
      PROVE  CountInv'
  BY <1>5, <1>6, MergeMailsKeepsCount, SearchKeepsCount, LookKeepsCount, DropOldKeepsCount,
     InsertRecordKeepsCount, MergeKeepsCount, FindCustomersKeepsCount, DropNewKeepsCount,
     CountKeepsCount
<1>7. QED
  BY <1>1, <1>2, <1>3, <1>4, <1>6 DEF InteractionsNext

-----------------------------------------------------------------------------
InteractionsInv == Basics /\ WebInv /\ CountInv

LEMMA InteractionsInvariant == InteractionsSpec => []InteractionsInv
<1>1. InteractionsInit => InteractionsInv
  BY SeenInit, WebInit, CountInit DEF InteractionsInv
<1>2. InteractionsInv /\ [InteractionsNext]_interactions_vars => InteractionsInv'
  BY BasicsNext, WebNext, CountNext DEF InteractionsInv
<1>3. QED
  BY <1>1, <1>2, PTL DEF InteractionsSpec

LEMMA InvCounts == InteractionsInv => ViewersCounted
<1> SUFFICES ASSUME InteractionsInv, Resting, ~disturbed, NEW r \in Certain
             PROVE  /\ interaction[r].web = viewed[r]
                    /\ interaction[r].count = viewed[r] + opens[r]
  BY DEF ViewersCounted
<1>1. \A p \in Processes : ~WillMerge(p, r)
  BY DEF Resting, WillMerge, Viewing, Inserting, At
<1>2. QED
  BY <1>1 DEF InteractionsInv, CountInv, Counting, HasCount

(* Every variable of a day's interactions has its type, whatever processes *)
(* overlap and whatever fails (rfv/interactions.ts).                       *)
THEOREM InteractionsTypeCorrect == InteractionsSpec => []InteractionsTypeOK
<1>1. InteractionsInv => InteractionsTypeOK
  BY DEF InteractionsInv, Basics
<1>2. QED
  BY <1>1, InteractionsInvariant, PTL

(* Processes at one day drop and merge each other's temporary collections; *)
(* if nothing failed since they began, every reader who is certain to be   *)
(* among the answers has all views and openings counted when they end      *)
(* (es.ts 98-133, interactions.ts 28).                                     *)
THEOREM ViewersAreCounted == InteractionsSpec => []ViewersCounted
BY InvCounts, InteractionsInvariant, PTL

(* Without overlap a merge of views never lowers what is stored: a record  *)
(* left behind is older than the one added, unless two calls have failed   *)
(* before (es.ts 27-29 and 118-124).                                       *)
THEOREM WebFallsNever == InteractionsSpec => WebNeverFalls
<1>1. InteractionsInv /\ [InteractionsNext]_interactions_vars =>
        [~met /\ (counters'.errors <= 2 \/ counters'.errors = counters.errors) =>
          \A r \in Readers : interaction'[r].web >= interaction[r].web]_interactions_vars
  BY NeverLowered DEF InteractionsInv
<1>2. QED
  BY <1>1, InteractionsInvariant, PTL DEF InteractionsSpec, WebNeverFalls

-----------------------------------------------------------------------------
(* The views of posts.  PostsInv: every answer, the requests' own and the  *)
(* stored ones, is of the posts taken of those asked for, and gives the    *)
(* views they had, unless others kept a post out (Answered).               *)

LEMMA MinOfTwo == \A a, b \in Nat : Min({a, b}) = IF a <= b THEN a ELSE b
<1> SUFFICES ASSUME NEW a \in Nat, NEW b \in Nat PROVE Min({a, b}) = IF a <= b THEN a ELSE b
  OBVIOUS
<1>1. \E x \in {a, b} : \A y \in {a, b} : x <= y
  OBVIOUS
<1>2. Min({a, b}) \in {a, b} /\ \A y \in {a, b} : Min({a, b}) <= y
  BY <1>1 DEF Min
<1>3. QED
  BY <1>2

(* A key that was counted and has no bucket was kept out by n others with  *)
(* at least its count.                                                     *)
LEMMA BucketsAreHighest ==
    ASSUME NEW S, IsFiniteSet(S), NEW n \in Nat,
           NEW counts, \A k \in S : counts[k] \in Nat, NEW b \in Buckets(counts, S, n)
    PROVE  /\ DOMAIN b \subseteq S
           /\ \A k \in DOMAIN b : b[k] = counts[k] /\ counts[k] > 0
           /\ \A m \in S \ DOMAIN b : counts[m] > 0 =>
                 /\ Cardinality(DOMAIN b) = n
                 /\ \A k \in DOMAIN b : counts[k] >= counts[m]
<1> DEFINE counted == {k \in S : counts[k] > 0}
<1>1. PICK U \in SUBSET counted :
         /\ b = Restrict(counts, U)
         /\ Cardinality(U) = Min({n, Cardinality(counted)})
         /\ \A k \in U, m \in counted \ U : counts[k] >= counts[m]
  BY DEF Buckets
<1>2. DOMAIN b = U /\ \A k \in U : b[k] = counts[k]
  BY <1>1 DEF Restrict
<1>3. IsFiniteSet(counted) /\ Cardinality(counted) \in Nat
  BY FS_Subset, FS_CardinalityType
<1>4. ASSUME NEW m \in counted \ U PROVE Cardinality(U) = n
  <2>1. Cardinality(U) # Cardinality(counted)
    BY <1>1, <1>3, <1>4, FS_Subset
  <2>2. QED
    BY <1>1, <1>3, <2>1, MinOfTwo
<1>5. QED
  BY <1>1, <1>2, <1>4

-----------------------------------------------------------------------------
AllViews == UNION {[S -> Nat] : S \in SUBSET Posts}

Requested ==
    [at : {"idle", "count", "store", "answered"}, asked : Questions \cup {{}},
     hits : AllViews, seen : AllViews]

ViewAnswers == [hits : AllViews, seen : AllViews]

(* The answer h for the posts T, when the posts had the views s: a post    *)
(* whose views it does not give was kept out by others.                    *)
Answered(T, h, s) ==
    /\ DOMAIN h = T
    /\ \A p \in T :
          h[p] = s[p] \/ Cardinality({r \in T \ {p} : s[r] >= s[p]}) >= Most

(* Every answer, the requests' own and the stored ones, is of the posts    *)
(* that are taken of those asked for.                                      *)
PostsInv ==
    /\ post_views \in [Posts -> 0..MaxPostViews]
    /\ request \in [Requests -> Requested]
    /\ stored \in [SUBSET Posts -> ViewAnswers]
    /\ \A q \in Requests :
          /\ request[q].at # "idle" => request[q].asked \in Questions
          /\ request[q].at \in {"store", "answered"} =>
                Answered(Taken(request[q].asked), request[q].hits, request[q].seen)
    /\ \A S \in SUBSET Posts :
          stored[S] # NoAnswer => Answered(S, stored[S].hits, stored[S].seen)

LEMMA PostsTaken ==
    ASSUME NEW S \in Questions
    PROVE  /\ S \subseteq Posts /\ IsFiniteSet(S)
           /\ Taken(S) \subseteq S /\ Taken(S) \in SUBSET Posts /\ IsFiniteSet(Taken(S))
           /\ \A p \in S \ Taken(S) : Cardinality({r \in S : r < p}) >= Largest
<1>1. S \subseteq Posts /\ IsFiniteSet(S) /\ Posts \subseteq Nat /\ Largest \in Nat
  BY PostAssumption
<1>2. \A p \in S : Cardinality({r \in S : r < p}) \in Nat
  <2> SUFFICES ASSUME NEW p \in S PROVE Cardinality({r \in S : r < p}) \in Nat
    OBVIOUS
  <2>1. IsFiniteSet({r \in S : r < p})
    BY <1>1, FS_Subset
  <2>2. QED
    BY <2>1, FS_CardinalityType
<1>3. Taken(S) \subseteq S
  BY DEF Taken
<1>4. IsFiniteSet(Taken(S))
  BY <1>1, <1>3, FS_Subset
<1>5. \A p \in S \ Taken(S) : Cardinality({r \in S : r < p}) >= Largest
  BY <1>1, <1>2 DEF Taken
<1>6. QED
  BY <1>1, <1>3, <1>4, <1>5

(* What is counted explains the answer that is made of it.                 *)
LEMMA CountIsAnswered ==
    ASSUME NEW S, IsFiniteSet(S), S \subseteq Posts, NEW counts \in [Posts -> 0..MaxPostViews],
           NEW b \in Buckets(counts, S, Most)
    PROVE  Answered(S, Hits(S, b), counts) /\ Hits(S, b) \in AllViews
<1>1. Most \in Nat /\ MaxPostViews \in Nat
  BY PostAssumption
<1>2. \A k \in S : counts[k] \in Nat
  BY <1>1
<1>3. /\ DOMAIN b \subseteq S
      /\ \A k \in DOMAIN b : b[k] = counts[k] /\ counts[k] > 0
      /\ \A m \in S \ DOMAIN b : counts[m] > 0 =>
            /\ Cardinality(DOMAIN b) = Most
            /\ \A k \in DOMAIN b : counts[k] >= counts[m]
  BY <1>1, <1>2, BucketsAreHighest
<1>4. DOMAIN Hits(S, b) = S /\ Hits(S, b) \in [S -> Nat]
  BY <1>2, <1>3 DEF Hits
<1>5. ASSUME NEW p \in S, Hits(S, b)[p] # counts[p]
      PROVE  Cardinality({r \in S \ {p} : counts[r] >= counts[p]}) >= Most
  <2> DEFINE higher == {r \in S \ {p} : counts[r] >= counts[p]}
  <2>1. p \notin DOMAIN b /\ counts[p] > 0
    BY <1>2, <1>3, <1>5 DEF Hits
  <2>2. Cardinality(DOMAIN b) = Most /\ DOMAIN b \subseteq higher
    BY <1>3, <2>1
  <2>3. IsFiniteSet(higher)
    BY FS_Subset
  <2>4. Cardinality(DOMAIN b) <= Cardinality(higher)
    BY <2>2, <2>3, FS_Subset
  <2>5. Cardinality(higher) \in Nat
    BY <2>3, FS_CardinalityType
  <2>6. QED
    BY <1>1, <2>2, <2>4, <2>5
<1>6. Hits(S, b) \in AllViews
  BY <1>4 DEF AllViews
<1>7. QED
  BY <1>4, <1>5, <1>6 DEF Answered

LEMMA PostsInitInv == PostsInit => PostsInv
<1> SUFFICES ASSUME PostsInit PROVE PostsInv
  OBVIOUS
<1>1. NoViews \in AllViews
  <2>1. NoViews \in [{} -> Nat]
    BY DEF NoViews
  <2>2. QED
    BY <2>1 DEF AllViews
<1>2. NoRequest \in Requested /\ NoAnswer \in ViewAnswers
  BY <1>1 DEF NoRequest, NoAnswer, Requested, ViewAnswers
<1>3. QED
  BY <1>2, PostAssumption DEF PostsInit, PostsInv, NoRequest

LEMMA PostsNextInv == PostsInv /\ [PostsNext]_post_vars => PostsInv'
<1> SUFFICES ASSUME PostsInv, [PostsNext]_post_vars PROVE PostsInv'
  OBVIOUS
<1> USE DEF PostsInv
<1>1. ASSUME NEW p \in Posts, NEW n \in 0..MaxPostViews, ViewsChange(p, n) PROVE PostsInv'
  BY <1>1 DEF ViewsChange
<1>2. ASSUME NEW q \in Requests, NEW S \in Questions, AskPosts(q, S) PROVE PostsInv'
  <2> DEFINE answer == stored[Taken(S)]
             new == [at |-> IF answer = NoAnswer THEN "count" ELSE "answered",
                     asked |-> S, hits |-> answer.hits, seen |-> answer.seen]
  <2>1. Taken(S) \in SUBSET Posts
    BY PostsTaken
  <2>2. answer \in ViewAnswers
    BY <2>1
  <2>3. new \in Requested
    BY <2>2 DEF ViewAnswers, Requested
  <2>4. request' = [request EXCEPT ![q] = new] /\ UNCHANGED <<post_views, stored>>
    BY <1>2 DEF AskPosts
  <2>5. new.at # "idle" /\ new.asked \in Questions /\ new.at # "store"
    OBVIOUS
  <2>6. new.at = "answered" => Answered(Taken(new.asked), new.hits, new.seen)
    BY <2>1
  <2> HIDE DEF new
  <2>7. request' \in [Requests -> Requested]
    BY <2>3, <2>4
  <2>8. \A r \in Requests : request'[r] = IF r = q THEN new ELSE request[r]
    BY <2>4
  <2>9. \A r \in Requests :
          /\ request'[r].at # "idle" => request'[r].asked \in Questions
          /\ request'[r].at \in {"store", "answered"} =>
                Answered(Taken(request'[r].asked), request'[r].hits, request'[r].seen)
    BY <2>5, <2>6, <2>8
  <2>10. \A U \in SUBSET Posts :
          stored'[U] # NoAnswer => Answered(U, stored'[U].hits, stored'[U].seen)
    BY <2>4
  <2>11. post_views' \in [Posts -> 0..MaxPostViews] /\ stored' \in [SUBSET Posts -> ViewAnswers]
    BY <2>4
  <2> HIDE DEF answer
  <2>12. QED
    BY <2>7, <2>9, <2>10, <2>11 DEF Answered, Taken, NoAnswer, NoViews
<1>3. ASSUME NEW q \in Requests, CountPosts(q) PROVE PostsInv'
  <2> DEFINE S == request[q].asked
             T == Taken(S)
  <2>1. S \in Questions /\ request[q] \in Requested
    BY <1>3 DEF CountPosts
  <2>2. T \subseteq Posts /\ IsFiniteSet(T)
    BY <2>1, PostsTaken
  <2>3. PICK b \in Buckets(post_views, T, Most) :
          request' = [request EXCEPT ![q].at = "store", ![q].hits = Hits(T, b),
                                     ![q].seen = post_views]
    BY <1>3 DEF CountPosts
  <2>4. UNCHANGED <<post_views, stored>>
    BY <1>3 DEF CountPosts
  <2>5. Answered(T, Hits(T, b), post_views) /\ Hits(T, b) \in AllViews
    BY <2>2, CountIsAnswered
  <2>6. post_views \in AllViews
    <3>1. post_views \in [Posts -> Nat]
      BY PostAssumption
    <3>2. QED
      BY <3>1 DEF AllViews
  <2> DEFINE new == [request[q] EXCEPT !.at = "store", !.hits = Hits(T, b), !.seen = post_views]
  <2>7. /\ new \in Requested /\ new.at = "store" /\ new.asked = S
        /\ new.hits = Hits(T, b) /\ new.seen = post_views
    BY <2>1, <2>5, <2>6 DEF Requested
  <2>8. request' = [request EXCEPT ![q] = new]
    BY <2>3
  <2> HIDE DEF new
  <2>9. \A r \in Requests : request'[r] = IF r = q THEN new ELSE request[r]
    BY <2>8
  <2>10. request' \in [Requests -> Requested]
    BY <2>7, <2>8
  <2>11. \A r \in Requests :
          /\ request'[r].at # "idle" => request'[r].asked \in Questions
          /\ request'[r].at \in {"store", "answered"} =>
                Answered(Taken(request'[r].asked), request'[r].hits, request'[r].seen)
    BY <2>1, <2>5, <2>7, <2>9
  <2>12. \A U \in SUBSET Posts :
          stored'[U] # NoAnswer => Answered(U, stored'[U].hits, stored'[U].seen)
    BY <2>4
  <2>13. post_views' \in [Posts -> 0..MaxPostViews] /\ stored' \in [SUBSET Posts -> ViewAnswers]
    BY <2>4
  <2>14. QED
    BY <2>10, <2>11, <2>12, <2>13 DEF Answered, Taken, NoAnswer, NoViews
<1>4. ASSUME NEW q \in Requests, StorePosts(q) PROVE PostsInv'
  <2> DEFINE T == Taken(request[q].asked)
             new == [request[q] EXCEPT !.at = "answered"]
             answer == [hits |-> request[q].hits, seen |-> request[q].seen]
  <2>1. request[q] \in Requested /\ request[q].at = "store" /\ request[q].asked \in Questions
    BY <1>4 DEF StorePosts
  <2>2. T \in SUBSET Posts
    BY <2>1, PostsTaken
  <2>3. /\ new \in Requested /\ new.at = "answered" /\ new.asked = request[q].asked
        /\ new.hits = request[q].hits /\ new.seen = request[q].seen
    BY <2>1 DEF Requested
  <2>4. answer \in ViewAnswers
    BY <2>1 DEF Requested, ViewAnswers
  <2>5. /\ request' = [request EXCEPT ![q] = new]
        /\ stored' = [stored EXCEPT ![T] = answer]
        /\ UNCHANGED post_views
    BY <1>4 DEF StorePosts
  <2>6. Answered(T, request[q].hits, request[q].seen)
    BY <2>1
  <2>7. Answered(T, answer.hits, answer.seen)
    BY <2>6
  <2> HIDE DEF new, answer
  <2>8. request' \in [Requests -> Requested] /\ stored' \in [SUBSET Posts -> ViewAnswers]
    BY <2>3, <2>4, <2>5
  <2>9. \A r \in Requests : request'[r] = IF r = q THEN new ELSE request[r]
    BY <2>5
  <2>10. \A U \in SUBSET Posts : stored'[U] = IF U = T THEN answer ELSE stored[U]
    BY <2>5
  <2>11. \A r \in Requests :
          /\ request'[r].at # "idle" => request'[r].asked \in Questions
          /\ request'[r].at \in {"store", "answered"} =>
                Answered(Taken(request'[r].asked), request'[r].hits, request'[r].seen)
    BY <2>1, <2>3, <2>6, <2>9
  <2>12. \A U \in SUBSET Posts :
          stored'[U] # NoAnswer => Answered(U, stored'[U].hits, stored'[U].seen)
    BY <2>7, <2>10
  <2>13. QED
    BY <2>5, <2>8, <2>11, <2>12 DEF Answered, Taken, NoAnswer, NoViews
<1>5. ASSUME NEW q \in Requests, PostsFail(q) PROVE PostsInv'
  <2>1. NoRequest \in Requested
    <3>1. NoViews \in [{} -> Nat]
      BY DEF NoViews
    <3>2. QED
      BY <3>1 DEF NoRequest, Requested, AllViews
  <2>2. QED
    BY <1>5, <2>1 DEF PostsFail, NoRequest
<1>6. ASSUME NEW S \in Questions, StoredExpires(Taken(S)) PROVE PostsInv'
  <2>1. NoAnswer \in ViewAnswers
    <3>1. NoViews \in [{} -> Nat]
      BY DEF NoViews
    <3>2. QED
      BY <3>1 DEF NoAnswer, ViewAnswers, AllViews
  <2>2. Taken(S) \in SUBSET Posts
    BY PostsTaken
  <2>3. QED
    BY <1>6, <2>1, <2>2 DEF StoredExpires
<1>7. CASE UNCHANGED post_vars
  BY <1>7 DEF post_vars
<1>8. QED
  BY <1>1, <1>2, <1>3, <1>4, <1>5, <1>6, <1>7 DEF PostsNext

LEMMA PostsExplained == PostsInv => MissingExplained
<1> SUFFICES ASSUME PostsInv, NEW q \in Requests, request[q].at = "answered",
                    NEW p \in request[q].asked
             PROVE  \/ p \in DOMAIN request[q].hits /\ request[q].hits[p] = request[q].seen[p]
                    \/ /\ p \notin DOMAIN request[q].hits
                       /\ Cardinality({r \in request[q].asked : r < p}) >= Largest
                    \/ Cardinality({r \in request[q].asked \ {p} :
                                      request[q].seen[r] >= request[q].seen[p]}) >= Most
  BY DEF MissingExplained
<1> DEFINE S == request[q].asked
           T == Taken(S)
           seen == request[q].seen
<1>1. S \in Questions /\ Answered(T, request[q].hits, seen)
  BY DEF PostsInv
<1>2. CASE p \notin T
  BY <1>1, <1>2, PostsTaken DEF Answered
<1>3. CASE p \in T /\ request[q].hits[p] # seen[p]
  <2> DEFINE few == {r \in T \ {p} : seen[r] >= seen[p]}
             all == {r \in S \ {p} : seen[r] >= seen[p]}
  <2>1. T \subseteq S /\ IsFiniteSet(S)
    BY <1>1, PostsTaken
  <2>2. few \subseteq all
    BY <2>1
  <2>3. IsFiniteSet(all)
    BY <2>1, FS_Subset
  <2>4. Cardinality(few) <= Cardinality(all) /\ IsFiniteSet(few)
    BY <2>2, <2>3, FS_Subset
  <2>5. Cardinality(few) \in Nat /\ Cardinality(all) \in Nat
    BY <2>3, <2>4, FS_CardinalityType
  <2>6. Cardinality(few) >= Most
    BY <1>1, <1>3 DEF Answered
  <2>7. Most \in Nat
    BY PostAssumption
  <2>8. Cardinality(all) >= Most
    BY <2>4, <2>5, <2>6, <2>7
  <2>9. QED
    BY <2>8
<1>4. CASE p \in T /\ request[q].hits[p] = seen[p]
  BY <1>1, <1>4 DEF Answered
<1>5. QED
  BY <1>2, <1>3, <1>4

(* wordpress_api/index.js 537-610: whichever requests overlap, and however *)
(* the views change while an answer is made or stored, a post is answered  *)
(* to have the views it had when they were counted, or others kept it out. *)
THEOREM MissingAreExplained == PostsSpec => []MissingExplained
<1>1. PostsInit => PostsInv
  BY PostsInitInv
<1>2. PostsInv /\ [PostsNext]_post_vars => PostsInv'
  BY PostsNextInv
<1>3. PostsInv => MissingExplained
  BY PostsExplained
<1>4. QED
  BY <1>1, <1>2, <1>3, PTL DEF PostsSpec

LEMMA PostsTyped == PostsInv => PostsTypeOK
<1> SUFFICES ASSUME PostsInv PROVE PostsTypeOK
  OBVIOUS
<1>1. \A q \in Requests : /\ request[q].at \in {"idle", "count", "store", "answered"}
                          /\ request[q].asked \in Questions \cup {{}}
  BY DEF PostsInv, Requested
<1>2. ASSUME NEW S \in SUBSET Posts PROVE DOMAIN stored[S].hits \in {{}, S}
  <2>1. CASE stored[S] = NoAnswer
    BY <2>1 DEF NoAnswer, NoViews
  <2>2. CASE stored[S] # NoAnswer
    BY <2>2 DEF PostsInv, Answered
  <2>3. QED
    BY <2>1, <2>2
<1>3. QED
  BY <1>1, <1>2 DEF PostsInv, PostsTypeOK

(* wordpress_api/index.js 537-610: every variable has its type; what is    *)
(* stored under a set of posts answers for these.                          *)
THEOREM PostsTypeCorrect == PostsSpec => []PostsTypeOK
<1>1. PostsInit => PostsInv
  BY PostsInitInv
<1>2. PostsInv /\ [PostsNext]_post_vars => PostsInv'
  BY PostsNextInv
<1>3. QED
  BY <1>1, <1>2, PostsTyped, PTL DEF PostsSpec

-----------------------------------------------------------------------------
(* The articles viewed most.  TopInv: other articles than recent ones join *)
(* an answer only when every recent article with a view is in it           *)
(* (RecentFound), and an answer is in order (AnswerInOrder).               *)

(* What a request for recent articles holds after the first query: recent  *)
(* articles first, and others only when every recent article with a view   *)
(* had a bucket.                                                           *)
RecentFound(t) ==
    /\ t.seen \in [Articles -> 0..MaxViews]
    /\ DOMAIN t.filtered \subseteq Recent
    /\ t.at = "fallback" \/ ~ (DOMAIN t.merged \subseteq DOMAIN t.filtered) =>
          \A a \in Recent \ DOMAIN t.filtered : t.seen[a] = 0

(* The answer is of articles that have a bucket, in order.                 *)
AnswerInOrder(t) ==
    /\ t.articles \in Seq(DOMAIN t.merged)
    /\ \A i, j \in DOMAIN t.articles : i < j =>
          LET a == t.articles[i]
              b == t.articles[j]
              first == DOMAIN t.filtered
          IN a \in first \/ b \notin first

(* The fields of a request; its buckets are functions of any domain.       *)
TopFields(t) ==
    t = [at |-> t.at, since |-> t.since, fallback |-> t.fallback, filtered |-> t.filtered,
         merged |-> t.merged, articles |-> t.articles, seen |-> t.seen]

TopInv ==
    /\ views \in [Articles -> 0..MaxViews]
    /\ TopFields(top)
    /\ top.at # "answered" => top.articles = <<>>
    /\ top.at # "idle" /\ top.since => RecentFound(top)
    /\ top.at = "answered" /\ top.since => AnswerInOrder(top)

LEMMA TopInitInv == TopInit => TopInv
  BY TopAssumption DEF TopInit, TopInv, NoTop, TopFields

(* The first query.                                                        *)
LEMMA AskTopFinds ==
    ASSUME TopInv, NEW from \in BOOLEAN, NEW fallback \in BOOLEAN, AskTop(from, fallback)
    PROVE  TopInv'
<1> DEFINE asked == IF from THEN Recent ELSE Articles
<1>1. PICK b \in Buckets(views, asked, Size + Spare) :
        top' = [at |-> IF from /\ fallback /\ Cardinality(DOMAIN b) < Size
                       THEN "fallback" ELSE AskedFor(b),
                since |-> from, fallback |-> fallback, filtered |-> b,
                merged |-> b, articles |-> <<>>, seen |-> views]
  BY DEF AskTop
<1>2. views' = views /\ views \in [Articles -> 0..MaxViews]
  BY DEF AskTop, TopInv
<1>3. TopFields(top')
  BY <1>1 DEF TopFields
<1>4. ASSUME from PROVE RecentFound(top')
  <2>1. /\ IsFiniteSet(Recent) /\ \A a \in Recent : views[a] \in Nat
        /\ Size + Spare \in Nat /\ Size \in Nat /\ Spare \in Nat
    BY <1>2, TopAssumption, FS_Subset
  <2>2. b \in Buckets(views, Recent, Size + Spare)
    BY <1>1, <1>4
  <2>3. /\ DOMAIN b \subseteq Recent
        /\ \A m \in Recent \ DOMAIN b : views[m] > 0 => Cardinality(DOMAIN b) = Size + Spare
    BY <2>1, <2>2, BucketsAreHighest
  <2>4. Cardinality(DOMAIN b) < Size => \A a \in Recent \ DOMAIN b : views[a] = 0
    BY <2>1, <2>3
  <2>5. top'.at = "fallback" => Cardinality(DOMAIN b) < Size
    BY <1>1 DEF AskedFor
  <2>6. top'.seen = views /\ top'.filtered = b /\ top'.merged = b
    BY <1>1
  <2>7. QED
    BY <1>2, <2>3, <2>4, <2>5, <2>6 DEF RecentFound
<1>5. top'.since = from /\ top'.articles = <<>>
  BY <1>1
<1>6. AnswerInOrder(top')
  BY <1>5 DEF AnswerInOrder
<1>7. QED
  BY <1>2, <1>3, <1>4, <1>5, <1>6 DEF TopInv, RecentFound, AnswerInOrder, TopFields

(* The second one: what it adds comes after every recent article that had  *)
(* a view.                                                                 *)
LEMMA FallBackAdds == ASSUME TopInv, FallBack PROVE TopInv'
<1>1. PICK b \in Buckets(views, Articles, Size + Spare) :
        LET merged == Joined(top.filtered, b)
        IN top' = [top EXCEPT !.at = AskedFor(merged), !.merged = merged]
  BY DEF FallBack
<1> DEFINE merged == Joined(top.filtered, b)
<1>2. top' = [at |-> AskedFor(merged), since |-> top.since, fallback |-> top.fallback,
              filtered |-> top.filtered, merged |-> merged, articles |-> top.articles,
              seen |-> top.seen]
  BY <1>1 DEF TopInv, TopFields
<1> HIDE DEF merged
<1>3. top.at = "fallback" /\ views' = views
  BY DEF FallBack
<1>4. top.articles = <<>> /\ top'.articles = <<>>
  BY <1>2, <1>3 DEF TopInv
<1>5. top'.since => RecentFound(top')
  BY <1>2, <1>3 DEF TopInv, RecentFound
<1>6. AnswerInOrder(top')
  BY <1>4 DEF AnswerInOrder
<1>7. TopFields(top')
  BY <1>2 DEF TopFields
<1>8. QED
  BY <1>3, <1>4, <1>5, <1>6, <1>7 DEF TopInv, TopFields, RecentFound, AnswerInOrder

(* The articles that are answered.                                         *)
LEMMA AnswerTopOrders == ASSUME TopInv, in_api \subseteq Articles, AnswerTop PROVE TopInv'
<1> DEFINE found == in_api \cap DOMAIN top.merged
<1>1. PICK order \in SetToSeqs(found) :
        /\ \A i, j \in DOMAIN order : i < j => Before(order[i], order[j])
        /\ top' = [top EXCEPT !.at = "answered",
                              !.articles = SubSeq(order, 1, Min({Size, Len(order)}))]
  BY DEF AnswerTop
<1> DEFINE cut == SubSeq(order, 1, Min({Size, Len(order)}))
<1>2. top' = [at |-> "answered", since |-> top.since, fallback |-> top.fallback,
              filtered |-> top.filtered, merged |-> top.merged, articles |-> cut,
              seen |-> top.seen]
  BY <1>1 DEF TopInv, TopFields
<1>3. top.at = "articles" /\ views' = views
  BY DEF AnswerTop
<1>4. order \in Seq(DOMAIN top.merged) /\ Len(order) \in Nat
  <2>1. Cardinality(found) \in Nat
    <3>1. IsFiniteSet(found)
      BY TopAssumption, FS_Subset
    <3>2. QED
      BY <3>1, FS_CardinalityType
  <2>2. order \in [1..Cardinality(found) -> found]
    BY <1>1 DEF SetToSeqs
  <2> DEFINE n == Cardinality(found)
  <2>3. order \in [1..n -> DOMAIN top.merged] /\ n \in Nat
    BY <2>1, <2>2
  <2> HIDE DEF n
  <2>4. order \in Seq(DOMAIN top.merged)
    BY <2>3, SeqDef
  <2>5. QED
    BY <2>4
<1>5. Min({Size, Len(order)}) \in 0..Len(order)
  BY <1>4, MinOfTwo, TopAssumption
<1>6. /\ cut \in Seq(DOMAIN top.merged)
      /\ DOMAIN cut \subseteq DOMAIN order
      /\ \A i \in DOMAIN cut : cut[i] = order[i]
  <2> DEFINE k == Min({Size, Len(order)})
  <2>1. k \in 0..Len(order) /\ cut = SubSeq(order, 1, k)
    BY <1>5
  <2> HIDE DEF k, cut
  <2>2. cut = [i \in 1..k |-> order[i]]
    BY <1>4, <2>1
  <2>3. DOMAIN cut = 1..k /\ DOMAIN order = 1..Len(order) /\ k \in Nat /\ k <= Len(order)
    BY <1>4, <2>1, <2>2
  <2>4. \A i \in 1..k : i \in DOMAIN order /\ cut[i] = order[i]
    BY <2>2, <2>3
  <2>5. cut \in [1..k -> DOMAIN top.merged]
    BY <1>4, <2>2, <2>3, <2>4
  <2>6. QED
    BY <2>3, <2>4, <2>5, SeqDef
<1> HIDE DEF cut
<1>7. AnswerInOrder(top')
  <2> SUFFICES ASSUME NEW i \in DOMAIN cut, NEW j \in DOMAIN cut, i < j
               PROVE  cut[i] \in DOMAIN top.filtered \/ cut[j] \notin DOMAIN top.filtered
    BY <1>2, <1>6 DEF AnswerInOrder
  <2>1. Before(order[i], order[j])
    BY <1>1, <1>6
  <2>2. QED
    BY <1>6, <2>1 DEF Before
<1>8. top.since => RecentFound(top')
  BY <1>2, <1>3 DEF TopInv, RecentFound
<1>9. TopFields(top')
  BY <1>2 DEF TopFields
<1>10. QED
  BY <1>2, <1>3, <1>7, <1>8, <1>9 DEF TopInv, TopFields, RecentFound, AnswerInOrder

(* The API is asked for articles it can have only.                         *)
TopApiInv == TopInv /\ in_api \subseteq Articles

LEMMA TopNextInv == TopApiInv /\ [TopNext]_top_vars => TopApiInv'
<1> SUFFICES ASSUME TopInv, in_api \subseteq Articles, [TopNext]_top_vars
             PROVE  TopInv' /\ in_api' \subseteq Articles
  BY DEF TopApiInv
<1>1. CASE Turn
  BY <1>1 DEF Turn, TopInv, TopFields, RecentFound, AnswerInOrder
<1>2. ASSUME NEW a \in Articles, Learn(a) PROVE TopInv' /\ in_api' \subseteq Articles
  BY <1>2 DEF Learn, TopInv, TopFields, RecentFound, AnswerInOrder
<1>3. ASSUME NEW from \in BOOLEAN, NEW fallback \in BOOLEAN, AskTop(from, fallback)
      PROVE  TopInv' /\ in_api' \subseteq Articles
  <2>1. TopInv'
    BY <1>3, AskTopFinds
  <2>2. QED
    BY <1>3, <2>1 DEF AskTop
<1>4. CASE FallBack
  <2>1. TopInv'
    BY <1>4, FallBackAdds
  <2>2. QED
    BY <1>4, <2>1 DEF FallBack
<1>5. CASE AnswerTop
  <2>1. TopInv'
    BY <1>5, AnswerTopOrders
  <2>2. QED
    BY <1>5, <2>1 DEF AnswerTop
<1>6. CASE TopFails
  BY <1>6 DEF TopFails, NoTop, TopInv, TopFields, RecentFound, AnswerInOrder
<1>7. CASE UNCHANGED top_vars
  BY <1>7 DEF top_vars, TopInv, TopFields, RecentFound, AnswerInOrder
<1>8. QED
  BY <1>1, <1>2, <1>3, <1>4, <1>5, <1>6, <1>7 DEF TopNext

LEMMA TopInvRecentFirst == TopInv => RecentFirst
<1> SUFFICES ASSUME TopInv, top.at = "answered", top.since,
                    NEW i \in DOMAIN top.articles, NEW j \in DOMAIN top.articles, i < j,
                    top.articles[i] \notin Recent, top.articles[j] \in Recent
             PROVE  top.seen[top.articles[j]] = 0
  BY DEF RecentFirst
<1>1. AnswerInOrder(top) /\ RecentFound(top)
  BY DEF TopInv
<1>2. top.articles[i] \in DOMAIN top.merged
  BY <1>1 DEF AnswerInOrder
<1>3. top.articles[i] \notin DOMAIN top.filtered
  BY <1>1 DEF RecentFound
<1>4. top.articles[j] \notin DOMAIN top.filtered
  BY <1>1, <1>3 DEF AnswerInOrder
<1>5. QED
  BY <1>1, <1>2, <1>3, <1>4 DEF RecentFound

(* wordpress_api/index.js 255-330: when older articles fill up an answer,  *)
(* no recent article that had a view at the first query stands behind one. *)
THEOREM RecentComeFirst == TopSpec => []RecentFirst
<1>1. TopInit => TopApiInv
  BY TopInitInv DEF TopInit, TopApiInv
<1>2. TopApiInv /\ [TopNext]_top_vars => TopApiInv'
  BY TopNextInv
<1>3. TopApiInv => RecentFirst
  BY TopInvRecentFirst DEF TopApiInv
<1>4. QED
  BY <1>1, <1>2, <1>3, PTL DEF TopSpec

LEMMA TopInitTyped == TopInit => TopTypeOK
<1>1. Len(<<>>) <= Size /\ 0 \in 0..MaxTurns /\ 0 \in 0..MaxViews
  BY TopAssumption
<1>2. QED
  BY <1>1 DEF TopInit, TopTypeOK, NoTop

LEMMA TopTypesNext ==
    ASSUME TopApiInv, TopTypeOK, [TopNext]_top_vars
    PROVE  TopTypeOK'
<1> USE DEF TopTypeOK
<1>0. Size \in Nat /\ MaxTurns \in Nat
  BY TopAssumption
<1>1. CASE Turn
  BY <1>0, <1>1 DEF Turn
<1>2. ASSUME NEW a \in Articles, Learn(a) PROVE TopTypeOK'
  BY <1>2 DEF Learn
<1>3. ASSUME NEW from \in BOOLEAN, NEW fallback \in BOOLEAN, AskTop(from, fallback) PROVE TopTypeOK'
  <2>1. /\ DOMAIN top'.filtered \subseteq DOMAIN top'.merged /\ top'.articles = <<>>
        /\ top'.at \in {"fallback", "articles", "answered"}
        /\ UNCHANGED <<views, in_api, turns>>
    BY <1>3 DEF AskTop, AskedFor
  <2>2. Len(<<>>) <= Size
    BY <1>0
  <2>3. QED
    BY <2>1, <2>2
<1>4. CASE FallBack
  <2>1. PICK buckets : top' = [top EXCEPT !.at = AskedFor(Joined(top.filtered, buckets)),
                                          !.merged = Joined(top.filtered, buckets)]
    BY <1>4 DEF FallBack
  <2>2. /\ top'.merged = Joined(top.filtered, buckets) /\ top'.filtered = top.filtered
        /\ top'.articles = top.articles /\ top'.at \in {"articles", "answered"}
    BY <2>1 DEF TopApiInv, TopInv, TopFields, AskedFor
  <2>3. DOMAIN top.filtered \subseteq DOMAIN (Joined(top.filtered, buckets))
    BY DEF Joined
  <2>4. QED
    BY <1>4, <2>2, <2>3 DEF FallBack
<1>5. CASE AnswerTop
  <2>1. PICK order \in SetToSeqs(in_api \cap DOMAIN top.merged) :
          top' = [top EXCEPT !.at = "answered",
                             !.articles = SubSeq(order, 1, Min({Size, Len(order)}))]
    BY <1>5 DEF AnswerTop
  <2>2. /\ top'.articles = SubSeq(order, 1, Min({Size, Len(order)}))
        /\ top'.filtered = top.filtered /\ top'.merged = top.merged /\ top'.at = "answered"
    BY <2>1 DEF TopApiInv, TopInv, TopFields
  <2>3. PICK n \in Nat : n = Len(order)
    <3>1. Cardinality(in_api \cap DOMAIN top.merged) \in Nat
      BY TopAssumption, FS_Subset, FS_CardinalityType DEF TopApiInv
    <3>2. order \in [1..Cardinality(in_api \cap DOMAIN top.merged) -> in_api \cap DOMAIN top.merged]
      BY <2>1 DEF SetToSeqs
    <3> DEFINE found == in_api \cap DOMAIN top.merged
    <3>3. PICK m \in Nat : order \in [1..m -> found]
      BY <3>1, <3>2
    <3> HIDE DEF found
    <3>4. order \in Seq(found)
      BY <3>3, SeqDef
    <3>5. QED
      BY <3>4, LenProperties
  <2>4. Len(SubSeq(order, 1, Min({Size, Len(order)}))) <= Size
    <3>1. PICK k \in Nat : k = Min({Size, Len(order)}) /\ k <= Size
      BY <1>0, <2>3, MinOfTwo
    <3>2. Len(SubSeq(order, 1, k)) = k
      BY <3>1
    <3>3. QED
      BY <3>1, <3>2
  <2>5. QED
    BY <1>5, <2>2, <2>4 DEF AnswerTop
<1>6. CASE TopFails
  <2>1. Len(<<>>) <= Size
    BY <1>0
  <2>2. QED
    BY <1>6, <2>1 DEF TopFails, NoTop
<1>7. CASE UNCHANGED top_vars
  BY <1>7 DEF top_vars
<1>8. QED
  BY <1>1, <1>2, <1>3, <1>4, <1>5, <1>6, <1>7 DEF TopNext

(* wordpress_api/index.js 255-330: every variable has its type; no more    *)
(* articles are answered than are asked for.                               *)
THEOREM TopTypeCorrect == TopSpec => []TopTypeOK
<1>1. TopInit => TopApiInv
  BY TopInitInv DEF TopInit, TopApiInv
<1>2. TopApiInv /\ [TopNext]_top_vars => TopApiInv'
  BY TopNextInv
<1>3. TopApiInv /\ TopTypeOK /\ [TopNext]_top_vars => TopTypeOK'
  BY TopTypesNext
<1>4. QED
  BY <1>1, <1>2, <1>3, TopInitTyped, PTL DEF TopSpec

-----------------------------------------------------------------------------
(* The dashboard.  DashboardInv: unless fetches cross, at most one is      *)
(* under way, and it fetches for the filters chosen now (OneFetch,         *)
(* FetchedForFilters); once ranked, for the settings of now, unless these  *)
(* have been changed since (RankedForSettings).  The fetch that ends is    *)
(* that one.                                                               *)

OneFetch == "crossed" \notin apart => \A x, y \in UnderWay : x = y

FetchedForFilters ==
    "crossed" \notin apart =>
        \A x \in UnderWay : fetch[x].filters = filters \/ "report" \in apart

RankedForSettings ==
    "crossed" \notin apart =>
        \A x \in Fetches : fetch[x].at = "hits" =>
            fetch[x].settings = settings \/ "report" \in apart \/ "settings" \in apart

DashboardInv ==
    /\ DashboardTypeOK
    /\ OneFetch
    /\ FetchedForFilters
    /\ RankedForSettings
    /\ LoadedAsChosen

-----------------------------------------------------------------------------
LEMMA InitialDashboard == DashboardInit => DashboardInv
<1> SUFFICES ASSUME DashboardInit PROVE DashboardInv
  OBVIOUS
<1>1. DashboardTypeOK
  BY DEF DashboardInit, DashboardTypeOK, NoFetch, Unset
<1>2. UnderWay = {} /\ \A x \in Fetches : fetch[x].at = "idle"
  BY DEF DashboardInit, UnderWay, NoFetch
<1>3. LoadedAsChosen
  BY DEF DashboardInit, LoadedAsChosen
<1> QED
  BY <1>1, <1>2, <1>3 DEF DashboardInv, OneFetch, FetchedForFilters, RankedForSettings

(* A fetch is only begun without crossing another when none is under way,  *)
(* and it then forgets what set the articles apart before.                 *)
LEMMA FetchBegins ==
    ASSUME DashboardInv, NEW x \in Fetches, GetArticles(x), settings' \in Settings
    PROVE  DashboardInv'
<1> USE DEF DashboardInv, GetArticles, UnderWay, Crossing
<1>1. DashboardTypeOK'
  BY DEF DashboardTypeOK, Unset
<1>2. CASE UnderWay = {}
  <2>1. \A y \in Fetches : fetch'[y].at # "idle" <=> y = x
    BY <1>2 DEF DashboardTypeOK
  <2>2. fetch'[x] = [at |-> "articles", filters |-> filters, settings |-> Unset]
    BY DEF DashboardTypeOK
  <2>3. OneFetch'
    BY <2>1 DEF OneFetch
  <2>4. FetchedForFilters'
    BY <2>1, <2>2 DEF FetchedForFilters
  <2>5. RankedForSettings'
    BY <2>1, <2>2 DEF RankedForSettings
  <2>6. LoadedAsChosen'
    BY <2>1 DEF LoadedAsChosen
  <2> QED
    BY <1>1, <2>3, <2>4, <2>5, <2>6
<1>3. CASE UnderWay # {}
  <2>1. "crossed" \in apart'
    BY <1>3
  <2>2. LoadedAsChosen'
    BY DEF LoadedAsChosen, DashboardTypeOK
  <2> QED
    BY <1>1, <2>1, <2>2 DEF OneFetch, FetchedForFilters, RankedForSettings
<1> QED
  BY <1>2, <1>3

(* Filters are not chosen during a fetch without crossing it.              *)
LEMMA FiltersChange ==
    ASSUME DashboardInv, NEW f \in Filters, filters' = f, loading_state' = "pending",
           apart' = apart \cup Crossing,
           UNCHANGED <<articles_loaded, settings, articles, fetch>>, init' \in BOOLEAN
    PROVE  DashboardInv'
<1> USE DEF DashboardInv, UnderWay, Crossing
<1>1. DashboardTypeOK'
  BY DEF DashboardTypeOK
<1>2. CASE UnderWay = {}
  BY <1>1, <1>2 DEF OneFetch, FetchedForFilters, RankedForSettings, LoadedAsChosen
<1>3. CASE UnderWay # {}
  BY <1>1, <1>3 DEF OneFetch, FetchedForFilters, RankedForSettings, LoadedAsChosen
<1> QED
  BY <1>2, <1>3

LEMMA DashboardStep == DashboardInv /\ [DashboardNext]_dashboard_vars => DashboardInv'
<1> SUFFICES ASSUME DashboardInv, [DashboardNext]_dashboard_vars
             PROVE  DashboardInv'
  OBVIOUS
<1>1. ASSUME NEW f \in Filters, EndInit(f)
      PROVE  DashboardInv'
  BY <1>1, FiltersChange DEF EndInit
<1>2. ASSUME NEW f \in Filters, UpdateFilters(f)
      PROVE  DashboardInv'
  BY <1>2, FiltersChange DEF UpdateFilters, DashboardInv, DashboardTypeOK
<1>3. ASSUME NEW s \in Settings, UpdateSettings(s)
      PROVE  DashboardInv'
  BY <1>3 DEF UpdateSettings, DashboardInv, DashboardTypeOK, OneFetch, FetchedForFilters,
              RankedForSettings, LoadedAsChosen, UnderWay
<1>4. ASSUME NEW s \in Settings, NEW f \in Filters, LoadReport(f, s)
      PROVE  DashboardInv'
  BY <1>4 DEF LoadReport, DashboardInv, DashboardTypeOK, OneFetch, FetchedForFilters,
              RankedForSettings, LoadedAsChosen, UnderWay
<1>5. ASSUME NEW x \in Fetches, Reload(x)
      PROVE  DashboardInv'
  BY <1>5, FetchBegins DEF Reload, DashboardInv, DashboardTypeOK
<1>6. ASSUME NEW x \in Fetches, ApplySettings(x)
      PROVE  DashboardInv'
  BY <1>6, FetchBegins DEF ApplySettings, DashboardInv, DashboardTypeOK
<1>7. ASSUME NEW x \in Fetches, NEW s \in Settings, UpdateSortField(x, s)
      PROVE  DashboardInv'
  BY <1>7, FetchBegins DEF UpdateSortField
<1>8. ASSUME NEW x \in Fetches, RankArticles(x)
      PROVE  DashboardInv'
  <2> USE DEF DashboardInv, RankArticles
  <2>1. DashboardTypeOK'
    BY <1>8 DEF DashboardTypeOK
  <2>2. UnderWay' = UnderWay
    BY <1>8 DEF DashboardTypeOK, UnderWay
  <2>3. OneFetch' /\ LoadedAsChosen'
    BY <1>8, <2>2 DEF OneFetch, LoadedAsChosen
  <2>4. FetchedForFilters'
    <3>1. \A y \in Fetches : fetch'[y].filters = fetch[y].filters
      BY <1>8 DEF DashboardTypeOK
    <3> QED
      BY <1>8, <2>2, <3>1 DEF FetchedForFilters, UnderWay
  <2>5. RankedForSettings'
    BY <1>8 DEF RankedForSettings, DashboardTypeOK
  <2> QED
    BY <2>1, <2>3, <2>4, <2>5
<1>9. ASSUME NEW x \in Fetches, ShowArticles(x)
      PROVE  DashboardInv'
  <2> USE DEF DashboardInv, ShowArticles
  <2>1. DashboardTypeOK'
    BY <1>9, DashboardAssumption DEF DashboardTypeOK, NoFetch, Unset
  <2>2. x \in UnderWay /\ UnderWay' \subseteq UnderWay
    BY <1>9 DEF DashboardTypeOK, UnderWay, NoFetch
  <2>3. \A y \in Fetches : fetch'[y] = fetch[y] \/ fetch'[y].at = "idle"
    BY <1>9 DEF DashboardTypeOK, NoFetch
  <2>4. OneFetch' /\ FetchedForFilters' /\ RankedForSettings'
    BY <1>9, <2>2, <2>3 DEF OneFetch, FetchedForFilters, RankedForSettings, UnderWay
  <2>5. LoadedAsChosen'
    BY <1>9, <2>2 DEF LoadedAsChosen, FetchedForFilters, RankedForSettings
  <2> QED
    BY <2>1, <2>4, <2>5
<1>10. ASSUME NEW x \in Fetches, FetchBreaks(x)
       PROVE  DashboardInv'
  <2> USE DEF DashboardInv, FetchBreaks
  <2>1. DashboardTypeOK'
    BY <1>10 DEF DashboardTypeOK, NoFetch, Unset
  <2>2. UnderWay' \subseteq UnderWay
    BY <1>10 DEF DashboardTypeOK, UnderWay, NoFetch
  <2>3. \A y \in Fetches : fetch'[y] = fetch[y] \/ fetch'[y].at = "idle"
    BY <1>10 DEF DashboardTypeOK, NoFetch
  <2>4. OneFetch' /\ FetchedForFilters' /\ RankedForSettings'
    BY <1>10, <2>2, <2>3 DEF OneFetch, FetchedForFilters, RankedForSettings, UnderWay
  <2>5. LoadedAsChosen'
    BY <1>10 DEF LoadedAsChosen
  <2> QED
    BY <2>1, <2>4, <2>5
<1>11. CASE UNCHANGED dashboard_vars
  BY <1>11 DEF dashboard_vars, DashboardInv, DashboardTypeOK, OneFetch, FetchedForFilters,
               RankedForSettings, LoadedAsChosen, UnderWay
<1> QED
  BY <1>1, <1>2, <1>3, <1>4, <1>5, <1>6, <1>7, <1>8, <1>9, <1>10, <1>11 DEF DashboardNext

-----------------------------------------------------------------------------
(* Whatever is chosen, fetched and lost in between, the variables of the   *)
(* dashboard keep their types, and what it shows as loaded is what was     *)
(* chosen, but for the causes LoadedAsChosen names.                        *)
THEOREM DashboardInvariance == DashboardSpec => []DashboardInv
BY InitialDashboard, DashboardStep, PTL DEF DashboardSpec

(* Articles marked as loaded are those of the filters and settings chosen  *)
(* (getArticles), unless something crossed their fetch.                    *)
THEOREM LoadedArticlesAreAsChosen == DashboardSpec => []LoadedAsChosen
<1>1. DashboardInv => LoadedAsChosen
  BY DEF DashboardInv
<1> QED
  BY <1>1, DashboardInvariance, PTL

(* article.store.js and its dispatchers: every variable has its type.     *)
THEOREM DashboardTypeCorrect == DashboardSpec => []DashboardTypeOK
<1>1. DashboardInv => DashboardTypeOK
  BY DEF DashboardInv
<1>2. QED
  BY <1>1, DashboardInvariance, PTL

-----------------------------------------------------------------------------
(* All services.  ServicesInv: the invariant of the component at work.     *)

ServicesInv ==
    /\ part = "exporter" => ExporterInv
    /\ part = "sync" => SyncInv
    /\ part = "sailthru" => CopiesInv /\ SailthruTypeOK /\ QueueOfReaders
    /\ part = "interactions" => Basics
    /\ part = "top" => TopApiInv /\ TopTypeOK
    /\ part = "posts" => PostsInv
    /\ part = "dashboard" => DashboardInv

LEMMA ServicesInitInv == ServicesInit => ServicesInv
<1>1. SailthruInit => CopiesInv
  BY DEF SailthruInit, CopiesInv, ProfileExplained, NoQueue, NoRecord, NoCall, CallRecord
<1>2. TopInit => TopApiInv
  BY TopInitInv DEF TopInit, TopApiInv
<1>3. QED
  BY <1>1, <1>2, ExporterInitInv, SyncInitInv, SailthruTypesInit, SeenInit, TopInitTyped,
     PostsInitInv, InitialDashboard DEF ServicesInit, ServicesInv

LEMMA ServicesNextInv == ServicesInv /\ [ServicesNext]_services_vars => ServicesInv'
<1> SUFFICES ASSUME ServicesInv, [ServicesNext]_services_vars PROVE ServicesInv'
  OBVIOUS
<1>1. /\ part' = part
      /\ part = "exporter" => [ExporterNext]_exporter_vars
      /\ part = "sync" => [SyncNext]_sync_vars
      /\ part = "sailthru" => [SailthruNext]_sailthru_vars
      /\ part = "interactions" => [InteractionsNext]_interactions_vars
      /\ part = "top" => [TopNext]_top_vars
      /\ part = "posts" => [PostsNext]_post_vars
      /\ part = "dashboard" => [DashboardNext]_dashboard_vars
  BY DEF ServicesNext, services_vars
<1>2. part = "exporter" => ExporterInv'
  BY <1>1, ExporterNextInv DEF ServicesInv
<1>3. part = "sync" => SyncInv'
  BY <1>1, SyncNextInv DEF ServicesInv
<1>4. part = "sailthru" => CopiesInv' /\ SailthruTypeOK' /\ QueueOfReaders'
  BY <1>1, NextCopiesInv, SailthruTypesNext DEF ServicesInv
<1>5. part = "interactions" => Basics'
  BY <1>1, BasicsNext DEF ServicesInv
<1>6. part = "top" => TopApiInv' /\ TopTypeOK'
  BY <1>1, TopNextInv, TopTypesNext DEF ServicesInv
<1>7. part = "posts" => PostsInv'
  BY <1>1, PostsNextInv DEF ServicesInv
<1>8. part = "dashboard" => DashboardInv'
  BY <1>1, DashboardStep DEF ServicesInv
<1>9. QED
  BY <1>1, <1>2, <1>3, <1>4, <1>5, <1>6, <1>7, <1>8 DEF ServicesInv

(* Whichever of the services is at work, its variables keep their types.   *)
THEOREM ServicesTypeCorrect == ServicesSpec => []ServicesTypeOK
<1>1. ServicesInv => ServicesTypeOK
  BY PostsTyped
  DEF ServicesInv, ServicesTypeOK, ExporterInv, SyncInv, Basics, DashboardInv
<1>2. QED
  BY <1>1, ServicesInitInv, ServicesNextInv, PTL DEF ServicesSpec
=============================================================================
