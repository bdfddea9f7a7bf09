---------------------------- MODULE PipelineLock ----------------------------
(***************************************************************************)
(* What the flag "running" of a pipeline promises: its runs begin one      *)
(* after the other, each when none is at work, until the lock is broken;   *)
(* then runs may begin at any time.  PipelineRunner implements it.         *)
(***************************************************************************)
CONSTANT Calls   \* the calls of run_pipeline

VARIABLES
    working,     \* the calls whose stages are being run
    broken       \* the lock has been broken

vars == <<working, broken>>

Init ==
    /\ working = {}
    /\ broken = FALSE

Begin(c) ==
    /\ working = {} \/ broken
    /\ working' = working \cup {c}
    /\ UNCHANGED broken

(* A run ends, or several do with their process.                           *)
End(cs) ==
    /\ working' = working \ cs
    /\ UNCHANGED broken

Break ==
    /\ broken' = TRUE
    /\ UNCHANGED working

Next ==
    \/ \E c \in Calls : Begin(c)
    \/ \E cs \in SUBSET Calls : End(cs)
    \/ Break

Spec == Init /\ [][Next]_vars
=============================================================================
