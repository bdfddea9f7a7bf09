------------------------------ MODULE PostViews ------------------------------
(***************************************************************************)
(* The views of given posts in the last hour (wordpress_api/index.js, POST *)
(* /analytics/posts, with TopLastHour of the reports package).  A request  *)
(* looks for the answer in Redis, or else counts in Elasticsearch and      *)
(* stores the answer for five minutes.  Requests overlap.                  *)
(***************************************************************************)
EXTENDS TermsAggregation

CONSTANTS
    Posts,       \* numbers; later posts have greater ones
    Questions,   \* the sets of posts requests ask for
    Requests,    \* requests under way at once
    Largest,     \* posts a request may ask for: 100
    Most,        \* buckets TopLastHour asks for: 40 + 5
    MaxPostViews \* bound on the views of a post

ASSUME PostAssumption ==
    /\ Posts \subseteq Nat /\ Questions \subseteq (SUBSET Posts) \ {{}}
    /\ \A S \in Questions : IsFiniteSet(S)
    /\ Largest \in Nat /\ Most \in Nat /\ MaxPostViews \in Nat

VARIABLES
    post_views,   \* post_views[p]: the views of p in the last hour
    request,      \* each request: where it is, what it asks for and has got
    stored        \* stored[S]: the answer in Redis for the posts S

post_vars == <<post_views, request, stored>>

(* hits is what is answered and, for the record, seen what was the case.   *)
NoViews == [p \in {} |-> 0]
NoAnswer == [hits |-> NoViews, seen |-> NoViews]
NoRequest == [at |-> "idle", asked |-> {}, hits |-> NoViews, seen |-> NoViews]

PostsInit ==
    /\ post_views = [p \in Posts |-> 0]
    /\ request = [q \in Requests |-> NoRequest]
    /\ stored = [S \in SUBSET Posts |-> NoAnswer]

-----------------------------------------------------------------------------
(* Views come, and leave the last hour.                                    *)
ViewsChange(p, n) ==
    /\ post_views[p] # n
    /\ post_views' = [post_views EXCEPT ![p] = n]
    /\ UNCHANGED <<request, stored>>

(* The numbers are sorted and all but the first are cut off (557-564).     *)
Taken(S) == {p \in S : Cardinality({r \in S : r < p}) < Largest}

(* A request comes, and Redis is asked (537-580).                          *)
AskPosts(q, S) ==
    /\ request[q].at \in {"idle", "answered"}
    /\ LET answer == stored[Taken(S)]
       IN request' = [request EXCEPT ![q] =
                        [at |-> IF answer = NoAnswer THEN "count" ELSE "answered",
                         asked |-> S, hits |-> answer.hits, seen |-> answer.seen]]
    /\ UNCHANGED <<post_views, stored>>

(* Mutant: a post viewed once is taken for one without views.              *)
Hits_OffByOne(S, buckets) ==
    [p \in S |-> IF p \in DOMAIN buckets /\ buckets[p] > 1 THEN buckets[p] ELSE 0]

(* A post without a bucket is answered to have no views (582-595).         *)
Hits(S, buckets) == [p \in S |-> IF p \in DOMAIN buckets THEN buckets[p] ELSE 0]

CountPosts(q) ==
    /\ request[q].at = "count"
    /\ LET S == Taken(request[q].asked)
       IN \E buckets \in Buckets(post_views, S, Most) :
             request' = [request EXCEPT ![q].at = "store", ![q].hits = Hits(S, buckets),
                                        ![q].seen = post_views]
    /\ UNCHANGED <<post_views, stored>>

(* The answer is stored, and given (597-604).                              *)
StorePosts(q) ==
    /\ request[q].at = "store"
    /\ request' = [request EXCEPT ![q].at = "answered"]
    /\ stored' = [stored EXCEPT ![Taken(request[q].asked)] =
                    [hits |-> request[q].hits, seen |-> request[q].seen]]
    /\ UNCHANGED post_views

(* Redis or Elasticsearch fails (605-610).                                 *)
PostsFail(q) ==
    /\ request[q].at \in {"count", "store"}
    /\ request' = [request EXCEPT ![q] = NoRequest]
    /\ UNCHANGED <<post_views, stored>>

(* Five minutes are over.                                                  *)
StoredExpires(S) ==
    /\ stored[S] # NoAnswer
    /\ stored' = [stored EXCEPT ![S] = NoAnswer]
    /\ UNCHANGED <<post_views, request>>

PostsNext ==
    \/ \E p \in Posts, n \in 0..MaxPostViews : ViewsChange(p, n)
    \/ \E q \in Requests :
          \/ \E S \in Questions : AskPosts(q, S)
          \/ CountPosts(q) \/ StorePosts(q) \/ PostsFail(q)
    \/ \E S \in Questions : StoredExpires(Taken(S))

PostsSpec == PostsInit /\ [][PostsNext]_post_vars

-----------------------------------------------------------------------------
PostsTypeOK ==
    /\ post_views \in [Posts -> 0..MaxPostViews]
    /\ \A q \in Requests :
          /\ request[q].at \in {"idle", "count", "store", "answered"}
          /\ request[q].asked \in Questions \cup {{}}
    /\ \A S \in SUBSET Posts : DOMAIN stored[S].hits \in {{}, S}

(* A post is answered to have other than the views it had when views were  *)
(* counted only if it is the latest of too many posts asked for, or too    *)
(* many of the others asked for had at least as many views: whoever asked  *)
(* for which posts at the same time.                                       *)
MissingExplained ==
    \A q \in Requests : request[q].at = "answered" =>
        LET of == request[q].asked IN \A p \in of :
            \/ p \in DOMAIN request[q].hits /\ request[q].hits[p] = request[q].seen[p]
            \/ p \notin DOMAIN request[q].hits /\ Cardinality({r \in of : r < p}) >= Largest
            \/ Cardinality({r \in of \ {p} : request[q].seen[r] >= request[q].seen[p]}) >= Most
=============================================================================
