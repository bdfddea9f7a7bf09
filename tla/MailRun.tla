------------------------------ MODULE MailRun ------------------------------
(***************************************************************************)
(* One mail run: a document with a state and three lists of readers        *)
(* (api/models/mailrun_model.js), written by three kinds of actors that    *)
(* share nothing else and take no lock:                                    *)
(*   - the form that queues the readers of a label                         *)
(*     (frontend/routes/mails.js 97-136);                                  *)
(*   - run_mailrun (mailer/touchbase.js 462-490), started by the mailer's  *)
(*     schedule every minute (mailer/index.js 130-137) or by a GET on the  *)
(*     listeners (listeners/index.js 170-177);                             *)
(*   - an operator who edits the state.                                    *)
(* Each action is one API call of one actor.                               *)
(***************************************************************************)
EXTENDS Naturals, FiniteSets

CONSTANTS
    Readers,     \* those who may carry the label
    Posts,       \* submissions of the form, each made once
    Scheduled,   \* runs the mailer process can have in flight
    Requested,   \* runs the listeners process can have in flight
    MaxFailures  \* bound: nothing fails after that many disturbances

Runs == Scheduled \cup Requested

ASSUME RunAssumption == Scheduled \cap Requested = {}
ASSUME FailureAssumption == MaxFailures \in Nat

VARIABLES
    state,      \* the document: its state ...
    queued,     \* ... queued_reader_ids
    sent,       \* ... sent_reader_ids
    failed,     \* ... failed_reader_ids
    post,       \* where each submission of the form is
    seen,       \* the queued and sent lists it read
    job,        \* each run: where it is, the readers it has still to mail,
                \* the reader it is moving
    up,         \* whether the mailer process runs
    mails,      \* mails[r]: mails reader r received, counted up to 2
    wanted,     \* history: the readers a submission queued
    excuses     \* history: what happened that may spoil the bookkeeping:
                \*   "overlap"  a run started while another was under way
                \*   "stale"    a form wrote lists that had changed
                \*   "error"    a call or a database update failed
                \*   "killed"   a process died during a run

document == <<state, queued, sent, failed>>
form == <<post, seen>>
vars == <<document, form, job, up, mails, wanted, excuses>>

NoReader == "none"
ASSUME ReaderAssumption == NoReader \notin Readers

NotSeen == [queued |-> {}, sent |-> {}]
Idle == [at |-> "idle", todo |-> {}, reader |-> NoReader]

Init ==
    /\ state = "new"
    /\ queued = {}
    /\ sent = {}
    /\ failed = {}
    /\ post = [p \in Posts |-> "idle"]
    /\ seen = [p \in Posts |-> NotSeen]
    /\ job = [m \in Runs |-> Idle]
    /\ up = TRUE
    /\ mails = [r \in Readers |-> 0]
    /\ wanted = {}
    /\ excuses = {}

-----------------------------------------------------------------------------
(* The form.                                                               *)

Underway == {m \in Runs : job[m].at \notin {"idle", "load"}}

(* The lists are read (lines 112-114), then the label is applied and its   *)
(* readers are read (lines 116-117).                                       *)
ReadLists(p) ==
    /\ post[p] = "idle"
    /\ post' = [post EXCEPT ![p] = "read"]
    /\ seen' = [seen EXCEPT ![p] = [queued |-> queued, sent |-> sent]]
    /\ UNCHANGED <<document, job, mails, wanted, excuses, up>>

(* Mutant: the readers who already received the mail are not removed.      *)
NewQueue_WithSent(p, labelled) == labelled \cup seen[p].queued

NewQueue(p, labelled) == (labelled \cup seen[p].queued) \ seen[p].sent

(* The lists read before are merged and written, state "due" (118-125).    *)
WriteQueue(p, labelled) ==
    /\ post[p] = "read"
    /\ post' = [post EXCEPT ![p] = "done"]
    /\ seen' = [seen EXCEPT ![p] = NotSeen]
    /\ queued' = NewQueue(p, labelled)
    /\ state' = "due"
    /\ wanted' = wanted \cup queued'
    /\ excuses' = IF Underway = {} /\ seen[p] = [queued |-> queued, sent |-> sent]
                    THEN excuses ELSE excuses \cup {"stale"}
    /\ UNCHANGED <<sent, failed, job, mails, up>>

(* An operator edits the state in the collection editor: the run is to     *)
(* stop, or to start (again).                                              *)
Edit ==
    /\ state' \in {"due", "cancelled"}
    /\ state' # state
    /\ state # "new"
    /\ UNCHANGED <<queued, sent, failed, form, job, mails, wanted, excuses, up>>

-----------------------------------------------------------------------------
(* run_mailrun.                                                            *)

Goto(m, l) == job' = [job EXCEPT ![m].at = l]
Proceed(m) == job' = [job EXCEPT ![m].at = "next", ![m].reader = NoReader]
Return(m) == job' = [job EXCEPT ![m] = Idle]

(* The schedule found the run due (mailer/index.js 131), or a request came *)
(* in: run_mailrun is called.                                              *)
Start(m) ==
    /\ job[m].at = "idle"
    /\ m \in Scheduled => up /\ state = "due"
    /\ Goto(m, "load")
    /\ UNCHANGED <<document, form, mails, wanted, excuses, up>>

(* Mutant: a run nobody is queued for is left alone.                       *)
Load_WhenQueued(m) ==
    /\ job[m].at = "load"
    /\ state = "due"
    /\ queued # {}
    /\ job' = [job EXCEPT ![m] = [at |-> "mark", todo |-> queued, reader |-> NoReader]]
    /\ excuses' = IF Underway = {} THEN excuses ELSE excuses \cup {"overlap"}
    /\ UNCHANGED <<document, form, mails, wanted, up>>

(* Lines 464-468: the document is read; the run goes on if it is due.      *)
Load(m) ==
    /\ job[m].at = "load"
    /\ state = "due"
    /\ job' = [job EXCEPT ![m] = [at |-> "mark", todo |-> queued, reader |-> NoReader]]
    /\ excuses' = IF Underway = {} THEN excuses ELSE excuses \cup {"overlap"}
    /\ UNCHANGED <<document, form, mails, wanted, up>>

(* The runs of a process die with it; those at most loading had nothing    *)
(* under way.  The mailer is then down: it is started by hand (package.json *)
(* 16), docker/ has no service for it.                                     *)
Killed(ms) == IF Underway \cap ms = {} THEN {} ELSE {"killed"}

Dies(ms) ==
    /\ job' = [n \in Runs |-> IF n \in ms THEN Idle ELSE job[n]]
    /\ up' = (up /\ ms # Scheduled)

(* A run rejects.  The schedule does not catch that (mailer/index.js 135), *)
(* and an unhandled rejection ends the mailer process; the listeners       *)
(* answer the request.                                                     *)
EndOf(m) == IF m \in Scheduled THEN Scheduled ELSE {m}

(* It is not due: run_mailrun rejects (line 467).                          *)
Reject(m) ==
    /\ job[m].at = "load"
    /\ state # "due"
    /\ Dies(EndOf(m))
    /\ excuses' = excuses \cup Killed(EndOf(m))
    /\ UNCHANGED <<document, form, mails, wanted>>

(* Line 469.                                                               *)
Mark(m) ==
    /\ job[m].at = "mark"
    /\ state' = "running"
    /\ Proceed(m)
    /\ UNCHANGED <<queued, sent, failed, form, mails, wanted, excuses, up>>

(* The mail to one reader, run_transactional (line 472).                   *)
Deliver(r) == mails' = [mails EXCEPT ![r] = IF @ = 2 THEN 2 ELSE @ + 1]

Take(m, r, l) ==
    /\ job[m].at = "next"
    /\ r \in job[m].todo
    /\ job' = [job EXCEPT ![m] = [at |-> l, todo |-> @.todo \ {r}, reader |-> r]]

Send(m, r) ==
    /\ Take(m, r, "pull")
    /\ Deliver(r)
    /\ UNCHANGED <<document, form, wanted, excuses, up>>

(* Mutant: an error of the mail API is taken for success.                  *)
SendFails_Ignored(m, r) ==
    /\ Take(m, r, "pull")
    /\ UNCHANGED <<document, form, mails, wanted, excuses, up>>

(* The template, the reader or the mail API fails: the catch of line 475.  *)
SendFails(m, r) ==
    /\ Take(m, r, "pull failed")
    /\ UNCHANGED <<document, form, mails, wanted, excuses, up>>

(* move_to_sent and move_to_failed: two updates (mailrun_model.js 28-29,   *)
(* 41-42).                                                                 *)
Pull(m) ==
    /\ job[m].at \in {"pull", "pull failed"}
    /\ queued' = queued \ {job[m].reader}
    /\ Goto(m, IF job[m].at = "pull" THEN "push" ELSE "push failed")
    /\ UNCHANGED <<state, sent, failed, form, mails, wanted, excuses, up>>

(* Mutant: the reader is only taken off the queue.                         *)
PushFailed_Forgotten(m) ==
    /\ job[m].at = "push failed"
    /\ Proceed(m)
    /\ UNCHANGED <<document, form, mails, wanted, excuses, up>>

PushSent(m) ==
    /\ job[m].at = "push"
    /\ sent' = sent \cup {job[m].reader}
    /\ Goto(m, "keep")
    /\ UNCHANGED <<state, queued, failed, form, mails, wanted, excuses, up>>

PushFailed(m) ==
    /\ job[m].at = "push failed"
    /\ failed' = failed \cup {job[m].reader}
    /\ Proceed(m)
    /\ UNCHANGED <<state, queued, sent, form, mails, wanted, excuses, up>>

(* Line 474: "running" again, whatever the state has become.               *)
Keep(m) ==
    /\ job[m].at = "keep"
    /\ state' = "running"
    /\ Proceed(m)
    /\ UNCHANGED <<queued, sent, failed, form, mails, wanted, excuses, up>>

(* Mutant: the run is complete after its first reader.                     *)
Finish_Early(m) ==
    /\ job[m].at = "next"
    /\ state' = "complete"
    /\ Return(m)
    /\ UNCHANGED <<queued, sent, failed, form, mails, wanted, excuses, up>>

(* Line 481.                                                               *)
Finish(m) ==
    /\ job[m].at = "next"
    /\ job[m].todo = {}
    /\ state' = "complete"
    /\ Return(m)
    /\ UNCHANGED <<queued, sent, failed, form, mails, wanted, excuses, up>>

-----------------------------------------------------------------------------
(* What can fail.                                                          *)

MayFail == Cardinality(excuses) < MaxFailures
Failure == MayFail /\ excuses' = excuses \cup {"error"}

(* The mail is delivered, and the answer of the mail API is an error.      *)
SendUnconfirmed(m, r) ==
    /\ Failure
    /\ Take(m, r, "pull failed")
    /\ Deliver(r)
    /\ UNCHANGED <<document, form, wanted, up>>

(* An update fails, a $pull perhaps after its effect: move_to_... catches  *)
(* that and answers a string, which the run takes for success              *)
(* (mailrun_model.js 31-34, 44-47).                                        *)
UpdateFails(m) ==
    /\ Failure
    /\ job[m].at \in {"pull", "push", "pull failed", "push failed"}
    /\ IF job[m].at \in {"pull", "push"} THEN Goto(m, "keep") ELSE Proceed(m)
    /\ \/ queued' = queued
       \/ job[m].at \in {"pull", "pull failed"} /\ queued' = queued \ {job[m].reader}
    /\ UNCHANGED <<state, sent, failed, form, mails, wanted, up>>

(* A call made for a reader throws: the catch of line 475 moves the reader *)
(* to the failed ones.                                                     *)
CallFails(m) ==
    /\ Failure
    /\ job[m].at \in {"pull", "push", "keep"}
    /\ Goto(m, "pull failed")
    /\ UNCHANGED <<document, form, mails, wanted, up>>

(* Any other call throws: state "failed", unless that call throws too, and *)
(* the run rejects (482-489).                                              *)
Abort(m) ==
    /\ MayFail
    /\ \/ job[m].at \in {"load", "mark", "pull failed", "push failed"}
       \/ job[m].at = "next" /\ job[m].todo = {}
    /\ state' \in {"failed", state}
    /\ Dies(EndOf(m))
    /\ excuses' = excuses \cup {"error"} \cup Killed(EndOf(m) \ {m})
    /\ UNCHANGED <<queued, sent, failed, form, mails, wanted>>

(* The mailer process, or that of the listeners, is killed.                *)
Kill(ms) ==
    /\ MayFail
    /\ Underway \cap ms # {}
    /\ Dies(ms)
    /\ excuses' = excuses \cup {"killed"}
    /\ UNCHANGED <<document, form, mails, wanted>>

(* Somebody starts the mailer again.                                       *)
StartMailer ==
    /\ ~up
    /\ up' = TRUE
    /\ UNCHANGED <<document, form, job, mails, wanted, excuses>>

Step(m) ==
    \/ Load(m) \/ Reject(m)
    \/ Mark(m)
    \/ \E r \in Readers : Send(m, r) \/ SendFails(m, r) \/ SendUnconfirmed(m, r)
    \/ Pull(m) \/ PushSent(m) \/ PushFailed(m)
    \/ Keep(m)
    \/ Finish(m)
    \/ UpdateFails(m) \/ CallFails(m) \/ Abort(m)

Next ==
    \/ \E p \in Posts : ReadLists(p) \/ \E l \in SUBSET Readers : WriteQueue(p, l)
    \/ \E m \in Runs : Start(m) \/ Step(m)
    \/ Edit
    \/ Kill(Scheduled) \/ Kill(Requested)
    \/ StartMailer

(* The schedule of a mailer that is up ticks every minute, and every call  *)
(* of a run is answered.  Nobody need start the mailer again.              *)
Fairness ==
    /\ WF_vars(\E m \in Scheduled : Start(m))
    /\ \A m \in Runs : WF_vars(Step(m))

Spec == Init /\ [][Next]_vars
FairSpec == Spec /\ Fairness

-----------------------------------------------------------------------------
States == {"new", "due", "running", "complete", "failed", "cancelled"}
Places == {"idle", "load", "mark", "next", "pull", "push", "keep", "pull failed",
           "push failed"}

(* Every variable has its type, and a run that records a mail has a reader. *)
TypeOK ==
    /\ state \in States
    /\ queued \subseteq Readers
    /\ sent \subseteq Readers
    /\ failed \subseteq Readers
    /\ post \in [Posts -> {"idle", "read", "done"}]
    /\ seen \in [Posts -> [queued : SUBSET Readers, sent : SUBSET Readers]]
    /\ job \in [Runs -> [at : Places, todo : SUBSET Readers, reader : Readers \cup {NoReader}]]
    /\ \A m \in Runs :
          job[m].at \in {"idle", "load", "mark", "next"} <=> job[m].reader = NoReader
    /\ up \in BOOLEAN
    /\ mails \in [Readers -> 0..2]
    /\ wanted \subseteq Readers
    /\ excuses \subseteq {"overlap", "stale", "error", "killed"}

(* frontend/routes/mails.js:120, "Don't send if reader already received in *)
(* this mailrun": nobody gets the mail of a run twice.                     *)
NobodyMailedTwice == \A r \in Readers : mails[r] <= 1

(* Nobody gets the mail twice as long as runs do not overlap, the form is  *)
(* not submitted during a run or another submission, nothing fails and the *)
(* mailer is not killed, however often readers are queued again.           *)
OnceUndisturbed == excuses = {} => NobodyMailedTwice

(* Being recorded by a run: taken off the queue, not on another list yet.  *)
InHand == {job[m].reader : m \in {n \in Runs : job[n].at \in {"push", "push failed"}}}

(* Undisturbed, every reader a submission queued is on one of the lists or *)
(* in the hands of a run: the two updates of a move lose nobody.           *)
NobodyForgotten == excuses = {} => wanted \subseteq queued \cup sent \cup failed \cup InHand

(* Undisturbed, a complete run has nobody left to mail.                    *)
CompleteIsDrained == excuses = {} /\ state = "complete" => queued = {}

(* Whatever is disturbed, a reader on the list of those who received the   *)
(* mail has received it.                                                   *)
SentWereMailed == \A r \in sent : mails[r] >= 1

(* The lists of the mail run, undisturbed, are those of Mailing, although  *)
(* a reader is moved from one to another by several calls: the reader in   *)
(* the hands of a run does not wait any more, and is given up as soon as   *)
(* the mail has failed.                                                    *)
Waiting == queued \ {job[m].reader : m \in Runs}
GivenUp ==
    failed \cup {job[m].reader : m \in {n \in Runs : job[n].at \in {"pull failed", "push failed"}}}

Promised == INSTANCE Mailing WITH
    waiting <- Waiting,
    given_up <- GivenUp,
    complete <- state = "complete",
    disturbed <- excuses # {}

(* Undisturbed, a reader who waits is mailed once or given up, nobody else *)
(* is mailed, and the run is complete only when nobody waits.              *)
MailingKept == Promised!Spec

(* A due mail run does not stay due while the mailer is up: a run, an      *)
(* operator or an error moves it on.                                       *)
DueIsTaken == state = "due" ~> state # "due" \/ ~up
=============================================================================
