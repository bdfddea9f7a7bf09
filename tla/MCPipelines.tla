----------------------------- MODULE MCPipelines -----------------------------
(* The pipeline process: run_pipeline and the healthcheck for one pipeline *)
(* (PipelineRunner), and the schedules that start runs (PipelineSchedule). *)
(* They share no variable: in each behaviour one of them is at work, and   *)
(* the other rests.  Two calls in the daemon and one from a command line;  *)
(* two pipelines and two fetches of the schedules under way.               *)
EXTENDS PipelineRunner, PipelineSchedule, TLC

CONSTANTS d1, d2, i1, l1, l2, p1, p2

MCPipelines == <<p1, p2>>

VARIABLE part   \* the component that is at work

pipelines_vars == <<vars, pipeline_vars, part>>

PipelinesInit == Init /\ PipelineInit /\ part \in {"runs", "schedules"}

PipelinesNext ==
    \/ part = "runs" /\ Next /\ UNCHANGED <<pipeline_vars, part>>
    \/ part = "schedules" /\ PipelineNext /\ UNCHANGED <<vars, part>>

(* Every call is answered, an hour passes, the healthcheck runs every hour *)
(* and the schedules are fetched every minute.                             *)
PipelinesFairness ==
    /\ \A c \in Calls : WF_vars(part = "runs" /\ Proceed(c))
    /\ WF_vars(part = "runs" /\ Hour)
    /\ WF_vars(part = "runs" /\ Health)
    /\ WF_scheduler(part = "schedules" /\ \E l \in Loads : FetchPipelines(l))
    /\ \A l \in Loads : WF_scheduler(part = "schedules" /\ ReloadPipelines(l))

PipelinesSpec == PipelinesInit /\ [][PipelinesNext]_pipelines_vars /\ PipelinesFairness
=============================================================================
