--------------------------- MODULE ReportSchedule ---------------------------
(***************************************************************************)
(* Scheduled reports.  The user interface saves a report as two documents, *)
(* a mailer and a scheduled_report that names it, by three calls, and      *)
(* deletes them by two (vue/store/modules/scheduled_report.store.js        *)
(* 125-200); the mailer process schedules the mailers (Schedules).  A call *)
(* that fails, or a closed page, leaves the rest undone.                   *)
(*                                                                         *)
(* The mailer's timers are tasks of node-cron 3 (mailer/package.json 21),  *)
(* which have no destroy: to replace timers throws at the first of them    *)
(* (mailer/index.js 74-75), when the hash is stored already.  Nothing      *)
(* starts a mailer process that has died, but somebody may.                *)
(***************************************************************************)
EXTENDS Schedules, SequencesExt, FiniteSets

CONSTANTS
    Reports,    \* reports that are saved, each once
    LastDay,    \* those of them for the "Last" day of a month
    Deletions   \* deletions that can be under way at once

ASSUME LastDayAssumption == LastDay \subseteq Reports

VARIABLES
    reports,    \* the scheduled_report documents
    save,       \* save[r]: the call the saving of r makes next
    deletion,   \* each deletion: the call it makes next and its report
    broken,     \* history: reports whose saving or deletion broke off
    mailer_up,  \* whether the mailer process runs
    known,      \* how many of its timers the process still knows of: the
                \* length of schedules (line 64)
    stuck       \* history: a timer was to be destroyed in this process

user == <<reports, save, deletion, broken>>
mailer == <<mailer_up, known, stuck>>
report_vars == <<documents, scheduler, user, mailer>>

NoReport == "none"
ASSUME ReportAssumption == NoReport \notin Reports

Done == [at |-> "idle", report |-> NoReport]

ReportInit ==
    /\ documents = <<>>
    /\ ScheduleInit
    /\ reports = {}
    /\ save = [r \in Reports |-> "idle"]
    /\ deletion = [d \in Deletions |-> Done]
    /\ broken = {}
    /\ mailer_up = TRUE
    /\ known = 0
    /\ stuck = FALSE

-----------------------------------------------------------------------------
Mailers == {documents[i].id : i \in DOMAIN documents}

(* The cron expression of a monthly report on the last day is "30 6 L * *" *)
(* (lines 103-106, 133), which node-cron does not know.                    *)
Mailer(r) == [id |-> r, params |-> FALSE, cron |-> IF r \in LastDay THEN "L" ELSE "valid"]

(* OK is pressed (125-127).                                                *)
Save(r) ==
    /\ save[r] = "idle"
    /\ save' = [save EXCEPT ![r] = "mailer"]
    /\ UNCHANGED <<documents, scheduler, reports, deletion, broken, mailer>>

(* Lines 135-141: a mailer without params.                                 *)
PostMailer(r) ==
    /\ save[r] = "mailer"
    /\ save' = [save EXCEPT ![r] = "report"]
    /\ documents' = Append(documents, Mailer(r))
    /\ UNCHANGED <<scheduler, reports, deletion, broken, mailer>>

(* Lines 142-161.                                                          *)
PostReport(r) ==
    /\ save[r] = "report"
    /\ save' = [save EXCEPT ![r] = "params"]
    /\ reports' = reports \cup {r}
    /\ UNCHANGED <<documents, scheduler, deletion, broken, mailer>>

(* Lines 162-169: the mailer learns which report to mail, unless the       *)
(* report has been deleted meanwhile, and its mailer with it.              *)
PutParams(r) ==
    /\ save[r] = "params"
    /\ save' = [save EXCEPT ![r] = "done"]
    /\ documents' = [i \in DOMAIN documents |->
                       IF documents[i].id = r THEN [documents[i] EXCEPT !.params = TRUE]
                       ELSE documents[i]]
    /\ UNCHANGED <<scheduler, reports, deletion, broken, mailer>>

(* A call fails, or the page is closed: nothing undoes the calls before.   *)
SaveBreaksOff(r) ==
    /\ save[r] \in {"mailer", "report", "params"}
    /\ save' = [save EXCEPT ![r] = "done"]
    /\ broken' = broken \cup {r}
    /\ UNCHANGED <<documents, scheduler, reports, deletion, mailer>>

(* A deletion reads which mailer the report has (191).                     *)
ReadReport(d, r) ==
    /\ deletion[d].at = "idle"
    /\ r \in reports
    /\ deletion' = [deletion EXCEPT ![d] = [at |-> "report", report |-> r]]
    /\ UNCHANGED <<documents, scheduler, reports, save, broken, mailer>>

(* Mutant: the mailer is left.                                             *)
DeleteReport_Only(d) ==
    /\ deletion[d].at = "report"
    /\ deletion' = [deletion EXCEPT ![d] = Done]
    /\ reports' = reports \ {deletion[d].report}
    /\ UNCHANGED <<documents, scheduler, save, broken, mailer>>

(* The report is deleted (192); another deletion may have done that, which *)
(* the API answers with an error, and the action throws.                   *)
DeleteReport(d) ==
    /\ deletion[d].at = "report"
    /\ deletion' = [deletion EXCEPT ![d] =
                      IF @.report \in reports THEN [@ EXCEPT !.at = "mailer"] ELSE Done]
    /\ reports' = reports \ {deletion[d].report}
    /\ UNCHANGED <<documents, scheduler, save, broken, mailer>>

(* Then its mailer, unless that is gone (193-197).                         *)
DeleteMailer(d) ==
    /\ deletion[d].at = "mailer"
    /\ deletion' = [deletion EXCEPT ![d] = Done]
    /\ \/ /\ deletion[d].report \notin Mailers
          /\ UNCHANGED documents
       \/ \E i \in DOMAIN documents :
             /\ documents[i].id = deletion[d].report
             /\ documents' = RemoveAt(documents, i)
    /\ UNCHANGED <<scheduler, reports, save, broken, mailer>>

(* A call fails, which is caught for the mailer only, or the page closes.  *)
DeletionBreaksOff(d) ==
    /\ deletion[d].at # "idle"
    /\ deletion' = [deletion EXCEPT ![d] = Done]
    /\ broken' = broken \cup {deletion[d].report}
    /\ UNCHANGED <<documents, scheduler, reports, save, mailer>>

-----------------------------------------------------------------------------
(* The mailer process.                                                     *)

FetchMailers(l) ==
    /\ mailer_up
    /\ Fetch(l)
    /\ UNCHANGED <<user, mailer>>

FetchMailersFails(l) == FetchFails(l) /\ UNCHANGED <<user, mailer>>

(* An answer that differs (lines 70-87).  A timer the process knows of is  *)
(* forgotten, and goes on, as do all others; without one, timers are made, *)
(* beside those forgotten.                                                 *)
ReloadMailers(l) ==
    LET answer == load[l].answer
        Timers == IF known = 0 THEN timers \cup Schedulable(answer) ELSE timers
    IN
    /\ Reload(l, Timers)
    /\ IF answer = loaded THEN UNCHANGED mailer
       ELSE /\ known' = IF known = 0 THEN Cardinality(Schedulable(answer)) ELSE known - 1
            /\ stuck' = (stuck \/ known > 0)
            /\ UNCHANGED mailer_up
    /\ UNCHANGED user

MailerDies ==
    /\ mailer_up
    /\ Restart
    /\ mailer_up' = FALSE
    /\ known' = 0
    /\ stuck' = FALSE
    /\ UNCHANGED user

MailerStarts ==
    /\ ~mailer_up
    /\ mailer_up' = TRUE
    /\ UNCHANGED <<documents, scheduler, user, known, stuck>>

MailerNext ==
    \/ \E l \in Loads : FetchMailers(l) \/ FetchMailersFails(l) \/ ReloadMailers(l)
    \/ MailerDies \/ MailerStarts

ReportNext ==
    \/ \E r \in Reports : Save(r) \/ PostMailer(r) \/ PostReport(r) \/ PutParams(r)
                          \/ SaveBreaksOff(r)
    \/ \E d \in Deletions :
          \/ \E r \in Reports : ReadReport(d, r)
          \/ DeleteReport(d) \/ DeleteMailer(d) \/ DeletionBreaksOff(d)
    \/ MailerNext

ReportSpec == ReportInit /\ [][ReportNext]_report_vars

-----------------------------------------------------------------------------
ReportTypeOK ==
    /\ ScheduleTypeOK([id : Reports, params : BOOLEAN, cron : {"valid", "L"}])
    /\ reports \subseteq Reports
    /\ save \in [Reports -> {"idle", "mailer", "report", "params", "done"}]
    /\ deletion \in [Deletions -> [at : {"idle", "report", "mailer"},
                                   report : Reports \cup {NoReport}]]
    /\ broken \subseteq Reports
    /\ mailer_up \in BOOLEAN
    /\ known \in Nat
    /\ stuck \in BOOLEAN

(* A report always has its mailer, and a mailer without a report, which    *)
(* goes on mailing and which no page shows, is one being saved or deleted  *)
(* or one whose saving or deletion broke off.                              *)
OrphansExplained ==
    /\ reports \subseteq Mailers
    /\ \A r \in Reports \ reports : r \in Mailers =>
          \/ save[r] = "report" \/ r \in broken
          \/ \E d \in Deletions : deletion[d] = [at |-> "mailer", report |-> r]

(* Once nobody changes the mailers any more, the timers of a mailer        *)
(* process that is up become those of the mailers, before the first whose  *)
(* cron expression is invalid, unless the process has had to replace a     *)
(* timer: failed fetches, and empty answers, leave nothing behind.         *)
TimersExplained == <>[](mailer_up => stuck \/ timers = Schedulable(documents))
=============================================================================
