-------------------------- MODULE PipelineSchedule --------------------------
(***************************************************************************)
(* The schedules of the pipeline process (pipeline/index.js 74-98): those  *)
(* of the pipelines marked autorun, which operators edit at any time.      *)
(* Documents come in the order in which they were created, here that of    *)
(* the sequence Pipelines.                                                 *)
(***************************************************************************)
EXTENDS Schedules

CONSTANTS
    Pipelines,   \* the pipelines, oldest first
    MaxEdits     \* bound on the edits

ASSUME EditAssumption == MaxEdits \in Nat

VARIABLE edits   \* edits so far

pipeline_vars == <<documents, scheduler, edits>>

(* What operators can make of the pipelines: some are marked autorun, with *)
(* a cron expression that is valid or, for a typing error, not.  Nothing   *)
(* checks it when it is saved (api/models/pipeline_model.js).              *)
Autorun ==
    {LET marked(p) == auto[p]
         of == SelectSeq(Pipelines, marked)
     IN [i \in DOMAIN of |-> [id |-> of[i], cron |-> cron[of[i]]]] :
        auto \in [{Pipelines[i] : i \in DOMAIN Pipelines} -> BOOLEAN],
        cron \in [{Pipelines[i] : i \in DOMAIN Pipelines} -> {"valid", "invalid"}]}

PipelineInit ==
    /\ documents = <<>>
    /\ ScheduleInit
    /\ edits = 0

EditPipelines ==
    /\ edits < MaxEdits
    /\ edits' = edits + 1
    /\ documents' \in Autorun \ {documents}
    /\ UNCHANGED scheduler

FetchPipelines(l) == Fetch(l) /\ UNCHANGED edits

(* All timers are destroyed and new ones made (lines 82-95; the package    *)
(* depends on node-cron 2, whose tasks can be destroyed).                  *)
ReloadPipelines(l) == Reload(l, Schedulable(load[l].answer)) /\ UNCHANGED edits

PipelineNext ==
    \/ EditPipelines
    \/ \E l \in Loads : FetchPipelines(l) \/ ReloadPipelines(l)
    \/ \E l \in Loads : FetchFails(l) /\ UNCHANGED edits
    \/ Restart /\ UNCHANGED edits

PipelineTypeOK ==
    /\ documents \in Autorun
    /\ loaded \in Autorun
    /\ \A l \in Loads : load[l].answer \in Autorun
    /\ edits \in 0..MaxEdits

(* Once nobody changes the pipelines any more, the timers become those of  *)
(* the pipelines before the first whose cron expression is invalid, and    *)
(* stay so, whatever fetches failed or ended out of order.                 *)
TimersFollow == <>[](timers = Schedulable(documents))
=============================================================================
