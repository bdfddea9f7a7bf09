--------------------------- MODULE PipelineRunner ---------------------------
(***************************************************************************)
(* The lock of one data pipeline, pipeline/index.js.  run_pipeline (lines  *)
(* 21-53) refuses to run a pipeline whose document says "running", and     *)
(* sets and clears that flag by separate API calls; the hourly healthcheck *)
(* (lines 55-72) clears flags older than an hour.  Runs are started by the *)
(* schedule and by GET /run in the daemon (lines 74-112), and with -p from *)
(* a command line, a process of its own (lines 121-129).                   *)
(***************************************************************************)
EXTENDS Naturals

CONSTANTS
    Daemon,       \* the calls of run_pipeline the daemon can have in flight
    Cli,          \* the calls made from command lines, one process each
    MaxFailures   \* bound on the calls that fail and the processes that die

Calls == Daemon \cup Cli

ASSUME CallAssumption == Daemon \cap Cli = {}
ASSUME FailureAssumption == MaxFailures \in Nat

VARIABLES
    running,   \* the document: is a run under way?
    old,       \* ... and is its run_start more than an hour ago?
    call,      \* where each call of run_pipeline is
    check,     \* where the healthcheck is
    failures,  \* API calls failed and processes died so far
    excuses    \* history: how two runs may come to overlap
               \*   "race"      two calls passed the check before either locked
               \*   "unlocked"  the healthcheck cleared the flag of a live run
               \*   "stolen"    a call that had not the lock cleared it
               \*   "orphaned"  a flag was left set by a process that died or
               \*               a call that failed

document == <<running, old>>
vars == <<document, call, check, failures, excuses>>

Init ==
    /\ running = FALSE
    /\ old = FALSE
    /\ call = [c \in Calls |-> "idle"]
    /\ check = "idle"
    /\ failures = 0
    /\ excuses = {}

-----------------------------------------------------------------------------
(* "lock": passed the check, not locked yet.  "work": in streamrunner.     *)
(* "catch": failed while it had the lock; "catch unlocked": before it set  *)
(* the flag, or after it cleared it.                                       *)
Places == {"idle", "read", "lock", "work", "unlock", "catch", "catch unlocked"}

Holders == {c \in Calls : call[c] \in {"work", "unlock", "catch"}}
Executing == {c \in Calls : call[c] = "work"}

Goto(c, l) == call' = [call EXCEPT ![c] = l]

MayFail == failures < MaxFailures /\ failures' = failures + 1

(* The schedule, a request or a command line calls run_pipeline.           *)
Start(c) ==
    /\ call[c] = "idle"
    /\ Goto(c, "read")
    /\ UNCHANGED <<document, check, failures, excuses>>

(* Mutant: a pipeline that is running is run all the same.                 *)
Read_Unchecked(c) ==
    /\ call[c] = "read"
    /\ Goto(c, "lock")
    /\ UNCHANGED <<document, check, failures, excuses>>

(* Lines 24-28: the document is read; a running pipeline is left alone.    *)
Read(c) ==
    /\ call[c] = "read"
    /\ Goto(c, IF running THEN "idle" ELSE "lock")
    /\ excuses' = IF ~running /\ (\E d \in Calls : call[d] = "lock")
                    THEN excuses \cup {"race"} ELSE excuses
    /\ UNCHANGED <<document, check, failures>>

(* Line 30, whatever has become of the document since it was read.         *)
Lock(c) ==
    /\ call[c] = "lock"
    /\ running' = TRUE
    /\ old' = FALSE
    /\ Goto(c, "work")
    /\ UNCHANGED <<check, failures, excuses>>

(* Lines 31-35: the stages end, or one throws or does not return an array. *)
Succeed(c) ==
    /\ call[c] = "work"
    /\ Goto(c, "unlock")
    /\ UNCHANGED <<document, check, failures, excuses>>

StageFails(c) ==
    /\ call[c] = "work"
    /\ Goto(c, "catch")
    /\ UNCHANGED <<document, check, failures, excuses>>

(* A call clears the flag, perhaps that of another one.                    *)
Clear(c) ==
    /\ running' = FALSE
    /\ Goto(c, "idle")
    /\ excuses' = IF call[c] = "catch unlocked" /\ Holders # {}
                    THEN excuses \cup {"stolen"} ELSE excuses
    /\ UNCHANGED <<old, check, failures>>

(* Line 36.                                                                *)
Unlock(c) == call[c] = "unlock" /\ Clear(c)

(* Mutant: the catch only records the result of the run.                   *)
Catch_KeepsFlag(c) ==
    /\ call[c] \in {"catch", "catch unlocked"}
    /\ Goto(c, "idle")
    /\ UNCHANGED <<document, check, failures, excuses>>

(* Lines 46-51: whatever failed, the flag is cleared.                      *)
Catch(c) == call[c] \in {"catch", "catch unlocked"} /\ Clear(c)

(* An API call fails, before its effect or after it: the catch, or, in the *)
(* catch itself, the end of the call.                                      *)
CallFails(c) ==
    /\ MayFail
    /\ \/ call[c] = "read" /\ Goto(c, "catch unlocked") /\ UNCHANGED <<running, old>>
       \/ call[c] = "lock" /\ Goto(c, "catch unlocked") /\ UNCHANGED <<running, old>>
       \/ call[c] = "lock" /\ Goto(c, "catch") /\ running' = TRUE /\ old' = FALSE
       \/ call[c] = "unlock" /\ Goto(c, "catch") /\ UNCHANGED <<running, old>>
       \/ call[c] = "unlock" /\ Goto(c, "catch unlocked") /\ running' = FALSE /\ UNCHANGED old
       \/ /\ call[c] \in {"catch", "catch unlocked"}
          /\ Goto(c, "idle")
          /\ UNCHANGED <<running, old>>
    /\ excuses' = IF call[c] = "catch" THEN excuses \cup {"orphaned"} ELSE excuses
    /\ UNCHANGED check

-----------------------------------------------------------------------------
(* An hour passes since run_start.                                         *)
Hour ==
    /\ ~old
    /\ running
    /\ old' = TRUE
    /\ UNCHANGED <<running, call, check, failures, excuses>>

(* Lines 61-63: the healthcheck reads the pipelines.                       *)
CheckReads ==
    /\ check = "idle"
    /\ running /\ old
    /\ check' = "unlock"
    /\ UNCHANGED <<document, call, failures, excuses>>

(* Mutant: the healthcheck reports the blocked pipeline.                   *)
CheckUnlocks_Reports ==
    /\ check = "unlock"
    /\ check' = "idle"
    /\ UNCHANGED <<document, call, failures, excuses>>

(* Line 67.  The run may be alive, or over and another one have begun.     *)
CheckUnlocks ==
    /\ check = "unlock"
    /\ check' = "idle"
    /\ running' = FALSE
    /\ excuses' = IF Holders # {} THEN excuses \cup {"unlocked"} ELSE excuses
    /\ UNCHANGED <<old, call, failures>>

CheckFails ==
    /\ MayFail
    /\ check = "unlock"
    /\ check' = "idle"
    /\ UNCHANGED <<document, call, excuses>>

(* A process dies with its calls; the daemon, with its healthcheck, comes  *)
(* back.  The flag stays as it is.                                         *)
Die(cs) ==
    /\ MayFail
    /\ \E c \in cs : call[c] # "idle"
    /\ call' = [c \in Calls |-> IF c \in cs THEN "idle" ELSE call[c]]
    /\ check' = IF cs = Daemon THEN "idle" ELSE check
    /\ excuses' = IF Holders \cap cs # {} THEN excuses \cup {"orphaned"} ELSE excuses
    /\ UNCHANGED document

Proceed(c) == Read(c) \/ Lock(c) \/ Unlock(c) \/ Catch(c) \/ CallFails(c)
Work(c) == Succeed(c) \/ StageFails(c)
Health == CheckReads \/ CheckUnlocks \/ CheckFails

Next ==
    \/ \E c \in Calls : Start(c) \/ Proceed(c) \/ Work(c)
    \/ Hour
    \/ Health
    \/ Die(Daemon) \/ \E c \in Cli : Die({c})

(* API calls are answered, time passes, and the daemon runs its            *)
(* healthcheck every hour.  A stage may take for ever: none of them has a  *)
(* time limit.                                                             *)
Fairness ==
    /\ \A c \in Calls : WF_vars(Proceed(c))
    /\ WF_vars(Hour)
    /\ WF_vars(Health)

Spec == Init /\ [][Next]_vars
FairSpec == Spec /\ Fairness

-----------------------------------------------------------------------------
(* Every variable has its type.                                            *)
TypeOK ==
    /\ running \in BOOLEAN
    /\ old \in BOOLEAN
    /\ call \in [Calls -> Places]
    /\ check \in {"idle", "unlock"}
    /\ failures \in 0..MaxFailures
    /\ excuses \subseteq {"race", "unlocked", "stolen", "orphaned"}

(* Two runs of a pipeline are at work at once only if both were started    *)
(* before either had set the flag, or the healthcheck or a call that had   *)
(* not the lock cleared the flag of a run that was alive.                  *)
OneRunUndisturbed ==
    excuses \cap {"race", "unlocked", "stolen"} = {} => \A c, d \in Executing : c = d

(* The flag is the lock of PipelineLock, broken by those three races only: *)
(* not only are no two runs at work, none begins while another is.         *)
Promise == INSTANCE PipelineLock WITH
    working <- Executing,
    broken <- excuses \cap {"race", "unlocked", "stolen"} # {}

RunsInTurn == Promise!Spec

(* A pipeline is not locked for ever by an error: as long as no process    *)
(* dies and no call fails in the catch, the flag is set only while some    *)
(* call is going to clear it.                                              *)
NoOrphanLock == "orphaned" \notin excuses /\ running => Holders # {}

(* Whatever dies, fails or hangs, a set flag is cleared in the end: by the *)
(* run or by the healthcheck.                                              *)
LockReleased == running ~> ~running
=============================================================================
