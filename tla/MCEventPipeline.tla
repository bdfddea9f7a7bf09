-------------------------- MODULE MCEventPipeline --------------------------
(* At most three hits, two of them of one browser on one article and one a *)
(* test; the runs choose among them.                                       *)
EXTENDS EventPipeline, TLC

CONSTANTS h1, h2, t1, b1, b2, a1

MCBrowser == h1 :> b1 @@ h2 :> b1 @@ t1 :> b2
MCArticle == h1 :> a1 @@ h2 :> a1 @@ t1 :> a1
=============================================================================
