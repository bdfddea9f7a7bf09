----------------------------- MODULE MCServices -----------------------------
(* Two collections of three records; four readers without a Wordpress id;  *)
(* two readers, one label; two recent articles and an old one; three posts *)
(* of which two may be asked for; two filters, settings and fetches.       *)
EXTENDS Services, TLC

CONSTANTS a1, a2, b1, r1, r2, l1, c1, c2, new1, new2, old, q1, q2, f, g, s, t, x, y, i1, i2

MCCollection == a1 :> "a" @@ a2 :> "a" @@ b1 :> "b"
MCUnconvertible == {<<b1, 3>>}

Interchangeable == Permutations(Readers) \cup Permutations(Calls)

(* The part at work begins in any of its states, the others in one.        *)
MCServicesInit ==
    /\ ServicesInit
    /\ part # "dashboard" => filters = f /\ settings = s
    /\ viewed = [r \in Readers |-> 1]
    /\ IF part = "interactions" THEN Cardinality(Kept(opens)) = 1 ELSE opens = NoneRecorded

MCServicesSpec == MCServicesInit /\ [][ServicesNext]_services_vars
=============================================================================
