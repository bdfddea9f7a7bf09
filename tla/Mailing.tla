------------------------------ MODULE Mailing -------------------------------
(***************************************************************************)
(* What a mail run promises, whatever the lists and calls it takes: who is *)
(* queued waits, unless mailed before; a reader who waits is mailed, or    *)
(* given up, in one step; the run is complete when nobody waits.  This is  *)
(* so until the run is disturbed: then the lists may become anything, but  *)
(* for the mails, which cannot be taken back.  MailRun implements it.      *)
(***************************************************************************)
EXTENDS Naturals

CONSTANT Readers

VARIABLES
    waiting,     \* the readers still to be mailed
    mails,       \* mails[r]: mails reader r received
    given_up,    \* the readers whose mail has failed
    complete,    \* whether nobody is to be mailed any more
    disturbed    \* whether the run has been disturbed

vars == <<waiting, mails, given_up, complete, disturbed>>

Init ==
    /\ waiting = {}
    /\ mails = [r \in Readers |-> 0]
    /\ given_up = {}
    /\ complete = FALSE
    /\ disturbed = FALSE

Queue(rs) ==
    /\ \A r \in rs : mails[r] = 0
    /\ waiting' = waiting \cup rs
    /\ complete' = FALSE
    /\ UNCHANGED <<mails, given_up, disturbed>>

Mail(r) ==
    /\ r \in waiting
    /\ waiting' = waiting \ {r}
    /\ mails' = [mails EXCEPT ![r] = @ + 1]
    /\ UNCHANGED <<given_up, complete, disturbed>>

GiveUp(r) ==
    /\ r \in waiting
    /\ waiting' = waiting \ {r}
    /\ given_up' = given_up \cup {r}
    /\ UNCHANGED <<mails, complete, disturbed>>

Complete ==
    /\ waiting = {}
    /\ complete' = TRUE
    /\ UNCHANGED <<waiting, mails, given_up, disturbed>>

(* The run is stopped, or begun again.                                     *)
Reopen ==
    /\ complete' = FALSE
    /\ UNCHANGED <<waiting, mails, given_up, disturbed>>

Disturb ==
    /\ disturbed' = TRUE
    /\ waiting' \subseteq Readers
    /\ given_up' \subseteq Readers
    /\ complete' \in BOOLEAN
    /\ mails' \in [Readers -> Nat]
    /\ \A r \in Readers : mails'[r] >= mails[r]

Next ==
    \/ \E rs \in SUBSET Readers : Queue(rs)
    \/ \E r \in Readers : Mail(r) \/ GiveUp(r)
    \/ Complete \/ Reopen
    \/ Disturb

Spec == Init /\ [][Next]_vars
=============================================================================
