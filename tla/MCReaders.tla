------------------------------ MODULE MCReaders ------------------------------
(* Two readers.  Two applications of the label, one of the old-style and   *)
(* two of the new-style segment; two labels with data, one whose rule      *)
(* tests the second of its keys and one that tests a key of the other;     *)
(* three vouchers, two mails and one form.                                 *)
EXTENDS ReaderRecords, TLC

CONSTANTS r1, r2, l1, l2, s1, n1, n2, v1, v2, v3, m1, m2, f1,
          la, lb, k1, k2, k3

MCList == l1 :> "label" @@ l2 :> "label" @@ s1 :> "segmentation" @@ n1 :> "segment"
          @@ n2 :> "segment"

MCKeysOf == la :> <<k1, k2>> @@ lb :> <<k3>>
MCTested == la :> k2 @@ lb :> k1

Interchangeable == Permutations(Readers) \cup Permutations(Codes)

(* The part at work begins in any of its states, the others in one.        *)
MCReadersInit ==
    /\ ReadersInit
    /\ part # "membership" => truth = {} /\ Members("label") = {}
    /\ part # "data" => finds = [l \in DataLabels |-> [r \in Readers |-> {}]]

MCReadersSpec == MCReadersInit /\ [][ReadersNext]_readers_vars
=============================================================================
