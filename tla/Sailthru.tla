------------------------------ MODULE Sailthru ------------------------------
(***************************************************************************)
(* The copies of readers in Sailthru (mailer/sailthru.js).  One reader is  *)
(* posted by the functions that synchronise, subscribe or unsubscribe:     *)
(* each reads the reader, maps it with the labels and segments a cache in  *)
(* the process holds, waits for the subscriptions and posts the record.    *)
(* Many readers are handed over by queue and full_queue, page by page: the *)
(* page is put into Redis, Sailthru is told to fetch it, serve_push reads  *)
(* it from Redis, maps and answers it, and the queue waits for the job.    *)
(*                                                                         *)
(* The routes that began queues and served pages answer today that they    *)
(* are deprecated (listeners/index.js 237-247); the functions behind them  *)
(* are exported as before, and modelled as they are.                       *)
(*                                                                         *)
(* Labels stand for labels and segments; the fields of a reader that are   *)
(* copied as they are, the subscriptions and the lists a reader is put on  *)
(* are left out.                                                           *)
(***************************************************************************)
EXTENDS ReaderSet, Naturals, FiniteSets

CONSTANTS
    Labels,
    Calls,        \* functions for one reader under way at once
    PerPage,      \* readers per page: 5000, or 10000 for full_queue
    MaxRelabels,  \* bound on the changes of readers
    MaxErrors     \* bound on failing calls

ASSUME SailthruAssumption ==
    PerPage \in Nat \ {0} /\ MaxRelabels \in Nat /\ MaxErrors \in Nat

VARIABLES
    exists,        \* the labels there are
    labelled,      \* labelled[r]: the labels of reader r
    labels_cache,  \* the labels the process knows
    cache_loaded,  \* whether they were ever loaded
    profile,       \* profile[r]: revengine_labels of r in Sailthru
    call,          \* each call: where it is, its reader and record
    queue,         \* the queue: where it is, the readers to come and the page
    cached,        \* whether Redis has the page
    sailthru_job,  \* the job of Sailthru: "none", "pending", "completed", ...
    queued,        \* history: the readers the queue began with
    served,        \* history: those of them Sailthru was answered
    unmapped,      \* history: those left out, their mapping having thrown
    changed,       \* changes so far
    errors,        \* failing calls so far
    causes         \* history: causes[r]: what may set profile[r] apart
                   \* from labelled[r]

labels_vars == <<exists, labelled, changed>>
cache_vars == <<labels_cache, cache_loaded>>
queue_vars == <<queue, cached, sailthru_job, queued, served, unmapped>>
sailthru_vars ==
    <<labels_vars, cache_vars, profile, call, queue_vars, errors, causes>>

NoReader == "none"
NoRecord == [r \in {} |-> {}]
NoCall == [at |-> "idle", reader |-> NoReader, record |-> {}, causes |-> {}]
NoQueue == [at |-> "idle", left |-> NoRecord, page |-> NoRecord]

SailthruInit ==
    /\ exists = {}
    /\ labelled = [r \in Readers |-> {}]
    /\ labels_cache = {}
    /\ cache_loaded = FALSE
    /\ profile = [r \in Readers |-> {}]
    /\ call = [c \in Calls |-> NoCall]
    /\ queue = NoQueue
    /\ cached = FALSE
    /\ sailthru_job = "none"
    /\ queued = {}
    /\ served = {}
    /\ unmapped = {}
    /\ changed = 0
    /\ errors = 0
    /\ causes = [r \in Readers |-> {}]

-----------------------------------------------------------------------------
Error == errors < MaxErrors /\ errors' = errors + 1

CreateLabel(l) ==
    /\ l \notin exists
    /\ exists' = exists \cup {l}
    /\ UNCHANGED <<labelled, changed, cache_vars, profile, call, queue_vars, errors,
                   causes>>

(* A label is given to a reader, or taken away.                            *)
Relabel(r, l) ==
    /\ changed < MaxRelabels
    /\ changed' = changed + 1
    /\ l \in exists
    /\ labelled' = [labelled EXCEPT ![r] = (@ \cup {l}) \ (@ \cap {l})]
    /\ causes' = [causes EXCEPT ![r] = @ \cup {"changed"}]
    /\ call' = [c \in Calls |-> IF call[c].reader = r
                                THEN [call[c] EXCEPT !.causes = @ \cup {"changed"}] ELSE call[c]]
    /\ UNCHANGED <<exists, cache_vars, profile, queue_vars, errors>>

(* keep_cache_fresh at the start and every hour, and again ten seconds     *)
(* after an error (22-68).                                                 *)
LoadCache ==
    /\ labels_cache' = exists
    /\ cache_loaded' = TRUE
    /\ UNCHANGED <<labels_vars, profile, call, queue_vars, errors, causes>>

-----------------------------------------------------------------------------
(* One reader.                                                             *)

(* The names of the labels the cache knows (380-411).                      *)
Mapped(labels) == labels \cap labels_cache

(* The reader is read and mapped; then the subscriptions are awaited (for  *)
(* instance 121-123, 424-427).  cache_loaded is not looked at.             *)
ReadReader(c, r) ==
    /\ call[c].at = "idle"
    /\ call' = [call EXCEPT ![c] =
         [at |-> "post", reader |-> r, record |-> Mapped(labelled[r]),
          causes |-> IF Mapped(labelled[r]) = labelled[r] THEN {} ELSE {"cache"}]]
    /\ UNCHANGED <<labels_vars, cache_vars, profile, queue_vars, errors, causes>>

(* Mutant: no labels are sent when the reader has none.                    *)
Post_UnlessEmpty(c) ==
    /\ call[c].at = "post"
    /\ profile' = IF call[c].record = {} THEN profile
                  ELSE [profile EXCEPT ![call[c].reader] = call[c].record]
    /\ causes' = [causes EXCEPT ![call[c].reader] = call[c].causes]
    /\ call' = [call EXCEPT ![c] = NoCall]
    /\ UNCHANGED <<labels_vars, cache_vars, queue_vars, errors>>

(* The record is posted (124-132, 200-206, 251-257).                       *)
Post(c) ==
    /\ call[c].at = "post"
    /\ profile' = [profile EXCEPT ![call[c].reader] = call[c].record]
    /\ causes' = [causes EXCEPT ![call[c].reader] = call[c].causes]
    /\ call' = [call EXCEPT ![c] = NoCall]
    /\ UNCHANGED <<labels_vars, cache_vars, queue_vars, errors>>

(* The subscriptions cannot be read, the mapping throws (at an invalid     *)
(* date, line 416), or Sailthru answers with an error.                     *)
PostFails(c) ==
    /\ Error
    /\ call[c].at = "post"
    /\ call' = [call EXCEPT ![c] = NoCall]
    /\ UNCHANGED <<labels_vars, cache_vars, profile, queue_vars, causes>>

-----------------------------------------------------------------------------
(* Many readers.                                                           *)

Only(f, S) == [r \in S |-> f[r]]

(* The readers are read, all at once (546-613, 635-664).                   *)
StartQueue(rs) ==
    /\ queue.at = "idle"
    /\ rs # {}
    /\ queue' = [at |-> "next", left |-> Only(labelled, rs), page |-> NoRecord]
    /\ queued' = rs
    /\ served' = {}
    /\ unmapped' = {}
    /\ cached' = FALSE
    /\ sailthru_job' = "none"
    /\ UNCHANGED <<labels_vars, cache_vars, profile, call, errors, causes>>

NextPages(rs) == {p \in SUBSET rs : Cardinality(p) = PerPage \/ (p = rs /\ Cardinality(p) < PerPage)}

(* The next page: its put into Redis is not waited for, and Sailthru gets  *)
(* a job (618-624).                                                        *)
StartJob ==
    /\ queue.at = "next"
    /\ DOMAIN queue.left # {}
    /\ \E p \in NextPages(DOMAIN queue.left) :
          queue' = [at |-> "wait", left |-> Only(queue.left, DOMAIN queue.left \ p),
                    page |-> Only(queue.left, p)]
    /\ cached' = FALSE
    /\ sailthru_job' = "pending"
    /\ UNCHANGED <<labels_vars, cache_vars, profile, call, queued, served, unmapped,
                   errors, causes>>

CacheStored ==
    /\ queue.at = "wait"
    /\ ~cached
    /\ cached' = TRUE
    /\ UNCHANGED <<labels_vars, cache_vars, profile, call, queue, sailthru_job, queued, served,
                   unmapped, errors, causes>>

(* The readers rs of the page are answered with the given labels; those    *)
(* whose mapping throws (384, 416, 440-448) are logged and left out        *)
(* (487-496), and the job is completed all the same.                       *)
Answer(rs, labels) ==
    /\ profile' = [r \in Readers |-> IF r \in rs THEN queue.page[r] \cap labels ELSE profile[r]]
    /\ causes' = [r \in Readers |-> IF r \in rs THEN {"queue"} ELSE causes[r]]
    /\ served' = served \cup rs
    /\ unmapped' = unmapped \cup (DOMAIN queue.page \ rs)
    /\ sailthru_job' = "completed"

(* Sailthru fetches the page; the labels are loaded first (478-508).       *)
ServePush ==
    /\ sailthru_job = "pending"
    /\ cached
    /\ labels_cache' = exists
    /\ cache_loaded' = TRUE
    /\ \E rs \in SUBSET DOMAIN queue.page : Answer(rs, exists)
    /\ UNCHANGED <<labels_vars, call, queue, cached, queued, errors>>

(* The labels cannot be loaded, which load_cache does not say (28-32): old *)
(* ones are used, and before there are any every mapping throws (421).     *)
ServePushUnloaded ==
    /\ Error
    /\ sailthru_job = "pending"
    /\ cached
    /\ \E rs \in SUBSET DOMAIN queue.page :
          /\ cache_loaded \/ rs = {}
          /\ Answer(rs, labels_cache)
    /\ UNCHANGED <<labels_vars, cache_vars, call, queue, cached, queued>>

(* The page is not in Redis, or the subscriptions cannot be read: Sailthru *)
(* is answered an error (483, 504-507), and the job fails.                 *)
ServePushFails ==
    /\ sailthru_job = "pending"
    /\ sailthru_job' = "failed"
    /\ \/ ~cached /\ UNCHANGED errors
       \/ cached /\ Error
    /\ UNCHANGED <<labels_vars, cache_vars, profile, call, queue, cached, queued,
                   served, unmapped, causes>>

(* Mutant: a job that failed is passed over.                               *)
JobDone_AnyStatus ==
    /\ queue.at = "wait"
    /\ sailthru_job # "pending"
    /\ queue' = [queue EXCEPT !.at = "next", !.page = NoRecord]
    /\ sailthru_job' = "none"
    /\ cached' = FALSE
    /\ UNCHANGED <<labels_vars, cache_vars, profile, call, queued, served, unmapped,
                   errors, causes>>

(* The job is completed: on to the next page (625-626, 717-733).           *)
JobDone ==
    /\ queue.at = "wait"
    /\ sailthru_job = "completed"
    /\ queue' = [queue EXCEPT !.at = "next", !.page = NoRecord]
    /\ sailthru_job' = "none"
    /\ cached' = FALSE
    /\ UNCHANGED <<labels_vars, cache_vars, profile, call, queued, served, unmapped,
                   errors, causes>>

(* It has failed, or is pending after 120 looks: the queue throws, and the *)
(* pages to come are not handed over (727-728).  A pending job may go on,  *)
(* here until the next queue begins.                                       *)
QueueThrows ==
    /\ queue.at = "wait"
    /\ sailthru_job # "completed"
    /\ queue' = [NoQueue EXCEPT !.page = IF sailthru_job = "pending" THEN queue.page ELSE NoRecord]
    /\ sailthru_job' = IF sailthru_job = "pending" THEN sailthru_job ELSE "none"
    /\ queued' = {}
    /\ served' = {}
    /\ unmapped' = {}
    /\ UNCHANGED <<labels_vars, cache_vars, profile, call, cached, errors, causes>>

QueueEnds ==
    /\ queue.at = "next"
    /\ DOMAIN queue.left = {}
    /\ queue' = NoQueue
    /\ queued' = {}
    /\ served' = {}
    /\ unmapped' = {}
    /\ UNCHANGED <<labels_vars, cache_vars, profile, call, cached, sailthru_job, errors, causes>>

SailthruNext ==
    \/ \E l \in Labels : CreateLabel(l) \/ \E r \in Readers : Relabel(r, l)
    \/ LoadCache
    \/ \E c \in Calls :
          \/ \E r \in Readers : ReadReader(c, r)
          \/ Post(c) \/ PostFails(c)
    \/ \E rs \in SUBSET Readers : StartQueue(rs)
    \/ StartJob \/ CacheStored
    \/ ServePush \/ ServePushUnloaded \/ ServePushFails
    \/ JobDone \/ QueueThrows \/ QueueEnds

SailthruSpec == SailthruInit /\ [][SailthruNext]_sailthru_vars

-----------------------------------------------------------------------------
SailthruTypeOK ==
    /\ exists \subseteq Labels
    /\ labelled \in [Readers -> SUBSET exists]
    /\ labels_cache \subseteq exists
    /\ cache_loaded \in BOOLEAN
    /\ profile \in [Readers -> SUBSET exists]
    /\ \A c \in Calls : call[c].at = "idle" \/ (call[c].reader \in Readers /\ call[c].record \subseteq exists)
    /\ queue.at \in {"idle", "next", "wait"}
    /\ sailthru_job \in {"none", "pending", "completed", "failed"}
    /\ served \subseteq Readers /\ queued \subseteq Readers /\ unmapped \subseteq Readers
    /\ \A r \in Readers : causes[r] \subseteq {"changed", "cache", "queue"}

(* A reader's labels in Sailthru are the reader's, unless the reader has   *)
(* changed since the record was made, the cache did not know a label then, *)
(* or the reader came with a queue, which is read long before it is served. *)
ProfileExplained == \A r \in Readers : profile[r] # labelled[r] => causes[r] # {}

(* A queue that ends without an error has handed over every reader it      *)
(* began with but for those whose own mapping threw: no page is lost to a  *)
(* job that failed, did not end or found nothing in Redis.                 *)
QueueHandsOver == [][QueueEnds => queued \subseteq served \cup unmapped]_sailthru_vars
=============================================================================
