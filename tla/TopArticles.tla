----------------------------- MODULE TopArticles -----------------------------
(***************************************************************************)
(* The articles viewed most in a period (wordpress_api/index.js, with      *)
(* TopLastPeriod of the reports package).  A request for them asks         *)
(* Elasticsearch for the articles viewed most, again without the date of   *)
(* publication when these are too few, and then the                        *)
(* API for what is known of them.  Views come and periods turn between the *)
(* calls.                                                                  *)
(*                                                                         *)
(* Articles are those that match the other conditions of the requests:     *)
(* author, section, tag, content type and the exclusions.                  *)
(***************************************************************************)
EXTENDS TermsAggregation, Sequences, SequencesExt

CONSTANTS
    Articles,
    Recent,      \* those published since the date the requests name
    Size,        \* articles asked for, 5
    Spare,       \* buckets asked for beyond that, 2
    MaxViews,    \* bound on the views of an article in a period
    MaxTurns     \* bound on the changes of the views

ASSUME TopAssumption ==
    /\ IsFiniteSet(Articles) /\ Recent \subseteq Articles
    /\ Size \in Nat \ {0} /\ Spare \in Nat
    /\ MaxViews \in Nat /\ MaxTurns \in Nat

VARIABLES
    views,     \* views[a]: the views of a in the period that ends now
    in_api,    \* the articles the API has
    top,       \* the request for top articles: what it asks for and has got
    turns      \* changes of the views so far

top_vars == <<views, in_api, top, turns>>

None == [a \in {} |-> 0]
NoTop == [at |-> "idle", since |-> FALSE, fallback |-> FALSE, filtered |-> None,
          merged |-> None, articles |-> <<>>, seen |-> None]

TopInit ==
    /\ views = [a \in Articles |-> 0]
    /\ in_api = {}
    /\ top = NoTop
    /\ turns = 0

-----------------------------------------------------------------------------
(* The views of the period: an hour turns, or views arrive.                *)
Turn ==
    /\ turns < MaxTurns
    /\ turns' = turns + 1
    /\ views' \in [Articles -> 0..MaxViews] \ {views}
    /\ UNCHANGED <<in_api, top>>

(* The consolidation of Wordpress brings an article.                       *)
Learn(a) ==
    /\ a \notin in_api
    /\ in_api' = in_api \cup {a}
    /\ UNCHANGED <<views, top, turns>>

-----------------------------------------------------------------------------
(* Top articles.                                                           *)

(* Where a request goes on, with the buckets it has.                       *)
AskedFor(buckets) == IF DOMAIN buckets = {} THEN "answered" ELSE "articles"

(* The first query (255-279).                                              *)
AskTop(since, fallback) ==
    /\ top.at \in {"idle", "answered"}
    /\ \E buckets \in Buckets(views, IF since THEN Recent ELSE Articles, Size + Spare) :
          top' = [at |-> IF since /\ fallback /\ Cardinality(DOMAIN buckets) < Size
                         THEN "fallback" ELSE AskedFor(buckets),
                  since |-> since, fallback |-> fallback, filtered |-> buckets,
                  merged |-> buckets, articles |-> <<>>, seen |-> views]
    /\ UNCHANGED <<views, in_api, turns>>

(* What the first query found stays as it was (282-287).                   *)
Joined(found, buckets) ==
    [a \in DOMAIN found \cup DOMAIN buckets |->
        IF a \in DOMAIN found THEN found[a] ELSE buckets[a]]

(* The second, without the date (274-288).                                 *)
FallBack ==
    /\ top.at = "fallback"
    /\ \E buckets \in Buckets(views, Articles, Size + Spare) :
          LET merged == Joined(top.filtered, buckets)
          IN top' = [top EXCEPT !.at = AskedFor(merged), !.merged = merged]
    /\ UNCHANGED <<views, in_api, turns>>

(* Mutant: only the views count.                                           *)
Before_ViewsOnly(a, b) == top.merged[a] >= top.merged[b]

(* The order of the answer (322-329).                                      *)
Before(a, b) ==
    LET first == DOMAIN top.filtered
    IN \/ a \in first /\ b \notin first
       \/ (a \in first <=> b \in first) /\ top.merged[a] >= top.merged[b]

(* Mutant: the answer is not cut.                                          *)
AnswerTop_Whole ==
    /\ top.at = "articles"
    /\ \E order \in SetToSeqs(in_api \cap DOMAIN top.merged) :
          /\ \A i, j \in DOMAIN order : i < j => Before(order[i], order[j])
          /\ top' = [top EXCEPT !.at = "answered", !.articles = order]
    /\ UNCHANGED <<views, in_api, turns>>

(* The articles among the buckets are read and sorted (290-330).           *)
AnswerTop ==
    /\ top.at = "articles"
    /\ \E order \in SetToSeqs(in_api \cap DOMAIN top.merged) :
          /\ \A i, j \in DOMAIN order : i < j => Before(order[i], order[j])
          /\ top' = [top EXCEPT !.at = "answered",
                                !.articles = SubSeq(order, 1, Min({Size, Len(order)}))]
    /\ UNCHANGED <<views, in_api, turns>>

(* A call fails: the request is answered with an error.                    *)
TopFails ==
    /\ top.at \in {"fallback", "articles"}
    /\ top' = NoTop
    /\ UNCHANGED <<views, in_api, turns>>

TopNext ==
    \/ Turn
    \/ \E a \in Articles : Learn(a)
    \/ \E since, fallback \in BOOLEAN : AskTop(since, fallback)
    \/ FallBack \/ AnswerTop \/ TopFails

TopSpec == TopInit /\ [][TopNext]_top_vars

-----------------------------------------------------------------------------
TopTypeOK ==
    /\ views \in [Articles -> 0..MaxViews]
    /\ in_api \subseteq Articles
    /\ top.at \in {"idle", "fallback", "articles", "answered"}
    /\ DOMAIN top.filtered \subseteq DOMAIN top.merged
    /\ Len(top.articles) <= Size
    /\ turns \in 0..MaxTurns

(* When older articles fill up the answer to a request for recent ones, a  *)
(* recent article stands behind an older one only if it had no view yet    *)
(* when the first query ran, whatever comes between the calls.             *)
RecentFirst ==
    top.at = "answered" /\ top.since =>
        \A i, j \in DOMAIN top.articles :
            /\ i < j
            /\ top.articles[i] \notin Recent
            /\ top.articles[j] \in Recent
            => top.seen[top.articles[j]] = 0
=============================================================================
