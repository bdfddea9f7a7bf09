-------------------------- MODULE TermsAggregation --------------------------
(***************************************************************************)
(* What Elasticsearch answers to a terms aggregation, as the reports use   *)
(* it (reports/libs/top_last_hour.js, top_last_period.js): the keys that   *)
(* occur most, with their counts.                                          *)
(***************************************************************************)
EXTENDS Naturals, FiniteSets, FiniteSetsExt, Functions

(* The answers there can be: the n keys of S with the highest counts, none *)
(* of them 0; which of those with equal counts is open.                    *)
Buckets(counts, S, n) ==
    LET counted == {k \in S : counts[k] > 0}
    IN {Restrict(counts, T) : T \in {U \in SUBSET counted :
           /\ Cardinality(U) = Min({n, Cardinality(counted)})
           /\ \A k \in U, m \in counted \ U : counts[k] >= counts[m]}}
=============================================================================
