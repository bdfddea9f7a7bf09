------------------------------ MODULE Services -------------------------------
(***************************************************************************)
(* The processes that copy readers and articles to other systems           *)
(* (Exporter, WordpressSync, Sailthru) or bring together what others know  *)
(* of readers (Interactions), and those that answer what editors see       *)
(* (TopArticles, PostViews, Dashboard).  They share no variable: in each   *)
(* behaviour one of them is at work, and the others rest.                  *)
(***************************************************************************)
EXTENDS Exporter, WordpressSync, Sailthru, Interactions, TopArticles, PostViews, Dashboard

VARIABLE part   \* the component that is at work

services_vars ==
    <<exporter_vars, sync_vars, sailthru_vars, interactions_vars, top_vars, post_vars,
      dashboard_vars, part>>

ServicesInit ==
    /\ ExporterInit /\ SyncInit /\ SailthruInit /\ InteractionsInit
    /\ TopInit /\ PostsInit /\ DashboardInit
    /\ part \in {"exporter", "sync", "sailthru", "interactions", "top", "posts", "dashboard"}

ServicesNext ==
    \/ /\ part = "exporter" /\ ExporterNext
       /\ UNCHANGED <<sync_vars, sailthru_vars, interactions_vars,
                       top_vars, post_vars, dashboard_vars, part>>
    \/ /\ part = "sync" /\ SyncNext
       /\ UNCHANGED <<exporter_vars, sailthru_vars, interactions_vars,
                       top_vars, post_vars, dashboard_vars, part>>
    \/ /\ part = "sailthru" /\ SailthruNext
       /\ UNCHANGED <<exporter_vars, sync_vars, interactions_vars,
                       top_vars, post_vars, dashboard_vars, part>>
    \/ /\ part = "interactions" /\ InteractionsNext
       /\ UNCHANGED <<exporter_vars, sync_vars, sailthru_vars,
                       top_vars, post_vars, dashboard_vars, part>>
    \/ /\ part = "top" /\ TopNext
       /\ UNCHANGED <<exporter_vars, sync_vars, sailthru_vars,
                       interactions_vars, post_vars, dashboard_vars, part>>
    \/ /\ part = "posts" /\ PostsNext
       /\ UNCHANGED <<exporter_vars, sync_vars, sailthru_vars,
                       interactions_vars, top_vars, dashboard_vars, part>>
    \/ /\ part = "dashboard" /\ DashboardNext
       /\ UNCHANGED <<exporter_vars, sync_vars, sailthru_vars,
                       interactions_vars, top_vars, post_vars, part>>

ServicesSpec == ServicesInit /\ [][ServicesNext]_services_vars

(* The variables of the component at work have their types.                *)
ServicesTypeOK ==
    /\ part = "exporter" => ExporterTypeOK
    /\ part = "sync" => SyncTypeOK
    /\ part = "sailthru" => SailthruTypeOK
    /\ part = "interactions" => InteractionsTypeOK
    /\ part = "top" => TopTypeOK
    /\ part = "posts" => PostsTypeOK
    /\ part = "dashboard" => DashboardTypeOK
=============================================================================
