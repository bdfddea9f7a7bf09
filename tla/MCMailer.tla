------------------------------ MODULE MCMailer ------------------------------
(* The schedules of the mailer process: that of the mail runs (MailRun,    *)
(* here for one reader) and those of the reports (ReportSchedule).  They   *)
(* share no variable: in each behaviour one of them is at work, and the    *)
(* other rests.  Two reports, one of them for the last day of the month,   *)
(* two deletions and one fetch of the schedules under way.                 *)
EXTENDS MailRun, ReportSchedule, TLC

CONSTANTS r1, p1, p2, m1, m2, l1, a, b, d1, d2

VARIABLE part   \* the component that is at work

schedules_vars == <<vars, report_vars, part>>

SchedulesInit == Init /\ ReportInit /\ part \in {"mail runs", "reports"}

SchedulesNext ==
    \/ part = "mail runs" /\ Next /\ UNCHANGED <<report_vars, part>>
    \/ part = "reports" /\ ReportNext /\ UNCHANGED <<vars, part>>

(* The schedules tick every minute, and every call is answered.            *)
SchedulesFairness ==
    /\ WF_vars(part = "mail runs" /\ \E m \in Scheduled : Start(m))
    /\ \A m \in Runs : WF_vars(part = "mail runs" /\ Step(m))
    /\ WF_scheduler(part = "reports" /\ \E l \in Loads : FetchMailers(l))
    /\ \A l \in Loads : WF_scheduler(part = "reports" /\ ReloadMailers(l))

MailerSpec == SchedulesInit /\ [][SchedulesNext]_schedules_vars /\ SchedulesFairness
=============================================================================
