----------------------------- MODULE Schedules -----------------------------
(***************************************************************************)
(* The schedules of a process: every minute the documents that carry a     *)
(* cron expression are fetched, and when their hash differs from that of   *)
(* the documents loaded last, timers are made for them.  The mailer does   *)
(* this for its mailers (mailer/index.js 64-95, ReportSchedule), the       *)
(* pipeline process for its pipelines (pipeline/index.js 74-98,            *)
(* PipelineSchedule), but what becomes of the timers there were differs.   *)
(* A fetch may take longer than a minute, so several can be under way and  *)
(* end in any order.                                                       *)
(*                                                                         *)
(* A document is a record with an id and a cron expression that is "valid" *)
(* or not; who writes the documents is up to the modules that compose this *)
(* one.                                                                    *)
(***************************************************************************)
EXTENDS Naturals, Sequences

CONSTANTS
    Loads,       \* fetches under way at once
    MaxMishaps   \* bound on failed fetches and restarts

ASSUME MishapAssumption == MaxMishaps \in Nat

VARIABLES
    documents,   \* what the API holds: a sequence of documents
    loaded,      \* the documents whose hash is stored
    timers,      \* the documents that have a timer
    load,        \* load[l]: the answer fetch l is about to get, or NoLoad
    mishaps      \* failed fetches and restarts so far

scheduler == <<loaded, timers, load, mishaps>>

NoLoad == [under_way |-> FALSE, answer |-> <<>>]

ScheduleInit ==
    /\ loaded = <<>>
    /\ timers = {}
    /\ load = [l \in Loads |-> NoLoad]
    /\ mishaps = 0

-----------------------------------------------------------------------------
Mishap == mishaps < MaxMishaps /\ mishaps' = mishaps + 1

(* The documents before the first one whose cron expression cron.schedule  *)
(* throws on (lines 77-86): the loop ends there.                           *)
Schedulable(docs) ==
    {docs[i] : i \in {j \in DOMAIN docs : \A k \in 1..j : docs[k].cron = "valid"}}

(* A tick of the schedule: the documents are requested (line 68).          *)
Fetch(l) ==
    /\ ~load[l].under_way
    /\ load' = [load EXCEPT ![l] = [under_way |-> TRUE, answer |-> documents]]
    /\ UNCHANGED <<documents, loaded, timers, mishaps>>

(* Mutant: the hash is stored when the documents are requested, so that a  *)
(* fetch that fails is not repeated.                                       *)
FetchFails_HashStored(l) ==
    /\ Mishap
    /\ load[l].under_way
    /\ load' = [load EXCEPT ![l] = NoLoad]
    /\ loaded' = load[l].answer
    /\ UNCHANGED <<documents, timers>>

(* The request fails: the tick's promise rejects, which node-cron catches. *)
FetchFails(l) ==
    /\ Mishap
    /\ load[l].under_way
    /\ load' = [load EXCEPT ![l] = NoLoad]
    /\ UNCHANGED <<documents, loaded, timers>>

(* The answer is compared and, when it differs, takes the place of what    *)
(* was loaded (lines 69-72), also when it is older than that; the timers   *)
(* become those given.                                                     *)
Reload(l, replaced) ==
    /\ load[l].under_way
    /\ load' = [load EXCEPT ![l] = NoLoad]
    /\ IF load[l].answer = loaded THEN UNCHANGED <<loaded, timers>>
       ELSE loaded' = load[l].answer /\ timers' = replaced
    /\ UNCHANGED <<documents, mishaps>>

(* The process dies: hash, timers and fetches are gone, and the next one   *)
(* begins without (64-65).                                                 *)
Restart ==
    /\ Mishap
    /\ loaded' = <<>>
    /\ timers' = {}
    /\ load' = [l \in Loads |-> NoLoad]
    /\ UNCHANGED documents

-----------------------------------------------------------------------------
ScheduleTypeOK(Documents) ==
    /\ documents \in Seq(Documents)
    /\ loaded \in Seq(Documents)
    /\ timers \subseteq Documents
    /\ load \in [Loads -> [under_way : BOOLEAN, answer : Seq(Documents)]]
    /\ mishaps \in 0..MaxMishaps
=============================================================================
