----------------------------- MODULE MCMailRun -----------------------------
(* Two readers, two submissions of the form, one run of the schedule and   *)
(* one requested run in flight.                                            *)
EXTENDS MailRun, TLC

CONSTANTS r1, r2, p1, p2, m1, m2

(* Readers and submissions are interchangeable; for the safety run.        *)
Interchangeable == Permutations(Readers) \cup Permutations(Posts)
=============================================================================
