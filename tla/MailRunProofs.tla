---------------------------- MODULE MailRunProofs ----------------------------
(***************************************************************************)
(* A mail run for any number of readers, submissions and runs.  What the   *)
(* sent list says is true whatever is disturbed (Recorded).  The rest      *)
(* holds while nothing is: one run at most is under way (Single), it owns  *)
(* the queue but for the reader it is moving (Owned), nobody is on the     *)
(* queue who has the mail (Apart, Once), and nobody leaves it but to       *)
(* another list (Kept).  At the end, the refinement of Mailing.            *)
(***************************************************************************)
EXTENDS MailRun, TLAPS

Quiet == {"idle", "load", "mark", "next"}
Job == [at : Places, todo : SUBSET Readers, reader : Readers \cup {NoReader}]

JobOK ==
    /\ job \in [Runs -> Job]
    /\ \A m \in Runs : job[m].at \in Quiet <=> job[m].reader = NoReader

ListsOK ==
    /\ state \in States
    /\ queued \subseteq Readers /\ sent \subseteq Readers /\ failed \subseteq Readers
    /\ post \in [Posts -> {"idle", "read", "done"}]
    /\ seen \in [Posts -> [queued : SUBSET Readers, sent : SUBSET Readers]]
    /\ mails \in [Readers -> 0..2]
    /\ wanted \subseteq Readers
    /\ excuses \subseteq {"overlap", "stale", "error", "killed"}

Recorded ==
    \A m \in Runs : job[m].at \in {"pull", "push"} => mails[job[m].reader] >= 1

Busy(m) == job[m].at \notin {"idle", "load"}

Single == \A m, n \in Runs : Busy(m) /\ Busy(n) => m = n

Owned ==
    \A m \in Runs :
        /\ job[m].at \in {"mark", "next"} => job[m].todo = queued
        /\ job[m].at \in {"pull", "pull failed"} =>
              job[m].todo = queued \ {job[m].reader} /\ job[m].reader \in queued
        /\ job[m].at \in {"push", "push failed", "keep"} =>
              job[m].todo = queued /\ job[m].reader \notin queued

Apart == sent \cap queued = {}

Drained == state = "complete" => queued = {}

Kept == wanted \subseteq queued \cup sent \cup failed \cup InHand

Once ==
    \A r \in Readers :
        /\ mails[r] <= 1
        /\ mails[r] = 1 => \/ r \in sent
                           \/ \E m \in Runs : job[m].at \in {"pull", "push"} /\ job[m].reader = r

Orderly == excuses = {} => Single /\ Owned /\ Apart /\ Drained /\ Kept /\ Once

-----------------------------------------------------------------------------
LEMMA AtLeastOne == \A f, g \in [Readers -> 0..2] : \A q \in Readers :
                       f[q] >= 1 /\ g[q] >= f[q] => g[q] >= 1
OBVIOUS

LEMMA NotMore == \A x : x = 1 => x <= 1
OBVIOUS

LEMMA NotTwice == \A f \in [Readers -> 0..2] : \A q \in Readers :
                     f[q] <= 1 /\ f[q] # 1 => f[q] = 0
OBVIOUS

LEMMA TypeSplit == TypeOK <=> JobOK /\ ListsOK /\ up \in BOOLEAN
BY DEF TypeOK, JobOK, ListsOK, Job, Quiet

LEMMA Hands ==
    \A r : r \in InHand <=>
        \E m \in Runs : job[m].at \in {"push", "push failed"} /\ job[m].reader = r
BY DEF InHand

(* A run moves on: where it is, whom it has still to mail and its reader.  *)
Moves(m, l, t, r) == job' = [job EXCEPT ![m] = [at |-> l, todo |-> t, reader |-> r]]

LEMMA Moving ==
    ASSUME JobOK, NEW m \in Runs
    PROVE  /\ \A l : Goto(m, l) => Moves(m, l, job[m].todo, job[m].reader)
           /\ Proceed(m) => Moves(m, "next", job[m].todo, NoReader)
           /\ Return(m) => Moves(m, "idle", {}, NoReader)
           /\ \A r, l : Take(m, r, l) => Moves(m, l, job[m].todo \ {r}, r)
<1>1. job[m] \in Job /\ job \in [Runs -> Job]
  BY DEF JobOK
<1>a. PICK j : j = job[m]
  OBVIOUS
<1>b. j = [at |-> j.at, todo |-> j.todo, reader |-> j.reader]
  BY <1>1, <1>a DEF Job
<1>2. ASSUME NEW l, Goto(m, l) PROVE Moves(m, l, job[m].todo, job[m].reader)
  <2>1. [j EXCEPT !.at = l] = [at |-> l, todo |-> j.todo, reader |-> j.reader]
    BY <1>b
  <2>2. job' = [job EXCEPT ![m] = [j EXCEPT !.at = l]]
    BY <1>2, <1>a DEF Goto
  <2> QED
    BY <1>a, <2>1, <2>2 DEF Moves
<1>3. ASSUME Proceed(m) PROVE Moves(m, "next", job[m].todo, NoReader)
  <2>a. [j EXCEPT !.at = "next"] = [at |-> "next", todo |-> j.todo, reader |-> j.reader]
    BY <1>b
  <2>b. [[at |-> "next", todo |-> j.todo, reader |-> j.reader] EXCEPT !.reader = NoReader]
           = [at |-> "next", todo |-> j.todo, reader |-> NoReader]
    OBVIOUS
  <2>1. [j EXCEPT !.at = "next", !.reader = NoReader]
           = [at |-> "next", todo |-> j.todo, reader |-> NoReader]
    BY <2>a, <2>b
  <2>2. job' = [job EXCEPT ![m] = [j EXCEPT !.at = "next", !.reader = NoReader]]
    BY <1>1, <1>3, <1>a DEF Proceed
  <2> QED
    BY <1>a, <2>1, <2>2 DEF Moves
<1>4. ASSUME Return(m) PROVE Moves(m, "idle", {}, NoReader)
  BY <1>4 DEF Return, Idle, Moves
<1>5. ASSUME NEW r, NEW l, Take(m, r, l) PROVE Moves(m, l, job[m].todo \ {r}, r)
  BY <1>1, <1>5 DEF Take, Moves, Job
<1> QED
  BY <1>2, <1>3, <1>4, <1>5

LEMMA Moved ==
    ASSUME JobOK, NEW m \in Runs, NEW l, NEW t, NEW r, Moves(m, l, t, r)
    PROVE  /\ job'[m].at = l /\ job'[m].todo = t /\ job'[m].reader = r
           /\ \A n \in Runs \ {m} : job'[n] = job[n]
BY DEF Moves, JobOK

Others(m) == \A n \in Runs \ {m} : job'[n] = job[n]

LEMMA Pointwise ==
    ASSUME JobOK, NEW m \in Runs
    PROVE  /\ \A l : Goto(m, l) =>
                 /\ job'[m].at = l /\ job'[m].todo = job[m].todo
                 /\ job'[m].reader = job[m].reader /\ Others(m)
           /\ Proceed(m) =>
                 /\ job'[m].at = "next" /\ job'[m].todo = job[m].todo
                 /\ job'[m].reader = NoReader /\ Others(m)
           /\ Return(m) => job'[m].at = "idle" /\ Others(m)
           /\ \A r, l : Take(m, r, l) =>
                 /\ job'[m].at = l /\ job'[m].todo = job[m].todo \ {r}
                 /\ job'[m].reader = r /\ Others(m)
<1>1. \A l, t, r : Moves(m, l, t, r) =>
         job'[m].at = l /\ job'[m].todo = t /\ job'[m].reader = r /\ Others(m)
  BY Moved DEF Others
<1>2. ASSUME NEW l, Goto(m, l)
      PROVE  /\ job'[m].at = l /\ job'[m].todo = job[m].todo
             /\ job'[m].reader = job[m].reader /\ Others(m)
  <2>1. Moves(m, l, job[m].todo, job[m].reader)
    BY <1>2, Moving
  <2> QED
    BY <1>1, <2>1
<1>3. ASSUME Proceed(m)
      PROVE  /\ job'[m].at = "next" /\ job'[m].todo = job[m].todo
             /\ job'[m].reader = NoReader /\ Others(m)
  <2>1. Moves(m, "next", job[m].todo, NoReader)
    BY <1>3, Moving
  <2> QED
    BY <1>1, <2>1
<1>4. ASSUME Return(m) PROVE job'[m].at = "idle" /\ Others(m)
  <2>1. Moves(m, "idle", {}, NoReader)
    BY <1>4, Moving
  <2> QED
    BY <1>1, <2>1
<1>5. ASSUME NEW r, NEW l, Take(m, r, l)
      PROVE  /\ job'[m].at = l /\ job'[m].todo = job[m].todo \ {r}
             /\ job'[m].reader = r /\ Others(m)
  <2>1. Moves(m, l, job[m].todo \ {r}, r)
    BY <1>5, Moving
  <2> QED
    BY <1>1, <2>1
<1> QED
  BY <1>2, <1>3, <1>4, <1>5

LEMMA MovedTypes ==
    ASSUME JobOK, NEW m \in Runs, NEW l \in Places, NEW t \in SUBSET Readers,
           NEW r \in Readers \cup {NoReader}, l \in Quiet <=> r = NoReader, Moves(m, l, t, r)
    PROVE  JobOK'
<1>1. job' \in [Runs -> Job]
  BY DEF Moves, JobOK, Job
<1>2. ASSUME NEW n \in Runs PROVE job'[n].at \in Quiet <=> job'[n].reader = NoReader
  <2>1. CASE n = m
    BY <2>1, Moved
  <2>2. CASE n # m
    BY <2>2, Moved DEF JobOK
  <2> QED
    BY <2>1, <2>2
<1> QED
  BY <1>1, <1>2 DEF JobOK

LEMMA Ended ==
    ASSUME JobOK, NEW ms, Dies(ms)
    PROVE  /\ JobOK'
           /\ \A n \in Runs : job'[n] = IF n \in ms THEN Idle ELSE job[n]
<1>1. Idle \in Job /\ Idle.at \in Quiet /\ Idle.reader = NoReader
  BY DEF Idle, Job, Places, Quiet
<1>2. \A n \in Runs : job'[n] = IF n \in ms THEN Idle ELSE job[n]
  BY DEF Dies
<1>3. job' \in [Runs -> Job]
  BY <1>1 DEF Dies, JobOK
<1> QED
  BY <1>1, <1>2, <1>3 DEF JobOK

LEMMA Delivering ==
    ASSUME ListsOK, NEW r \in Readers, Deliver(r)
    PROVE  /\ mails' \in [Readers -> 0..2]
           /\ mails'[r] >= 1
           /\ mails[r] = 0 => mails'[r] = 1
           /\ \A q \in Readers : mails'[q] >= mails[q]
           /\ \A q \in Readers \ {r} : mails'[q] = mails[q]
<1>1. mails \in [Readers -> 0..2] /\ mails[r] \in 0..2
  BY DEF ListsOK
<1>2. mails' = [mails EXCEPT ![r] = IF mails[r] = 2 THEN 2 ELSE mails[r] + 1]
  BY DEF Deliver
<1>3. mails'[r] = IF mails[r] = 2 THEN 2 ELSE mails[r] + 1
  BY <1>1, <1>2
<1>4. \A q \in Readers \ {r} : mails'[q] = mails[q] /\ mails[q] \in 0..2
  BY <1>1, <1>2
<1>5. mails'[r] \in 0..2 /\ mails'[r] >= 1 /\ mails'[r] >= mails[r]
  BY <1>1, <1>3
<1>6. mails' \in [Readers -> 0..2]
  BY <1>1, <1>2, <1>5
<1> QED
  BY <1>1, <1>3, <1>4, <1>5, <1>6

LEMMA Initially == Init => TypeOK /\ Recorded /\ SentWereMailed /\ Orderly
<1> SUFFICES ASSUME Init PROVE TypeOK /\ Recorded /\ SentWereMailed /\ Orderly
  OBVIOUS
<1> USE DEF Init, Idle
<1>1. JobOK
  BY DEF JobOK, Job, Quiet, Places
<1>2. ListsOK
  BY DEF ListsOK, NotSeen, States
<1>3. Recorded /\ SentWereMailed
  BY DEF Recorded, SentWereMailed
<1>4. \A m \in Runs : job[m].at = "idle"
  OBVIOUS
<1>5. Single /\ Owned
  BY <1>4 DEF Single, Busy, Owned
<1>6. Apart /\ Drained /\ Kept
  BY DEF Apart, Drained, Kept
<1>7. Once
  BY DEF Once
<1> QED
  BY <1>1, <1>2, <1>3, <1>5, <1>6, <1>7, TypeSplit DEF Orderly

-----------------------------------------------------------------------------
(* The types, and that those on the sent list were mailed.                 *)

LEMMA ListsKept ==
    ASSUME ListsOK, UNCHANGED <<document, form, mails, wanted>>,
           excuses' \subseteq {"overlap", "stale", "error", "killed"}
    PROVE  ListsOK'
BY DEF ListsOK, document, form

LEMMA Taken ==
    ASSUME JobOK, NEW m \in Runs, NEW r \in Readers, NEW l \in {"pull", "pull failed"},
           Take(m, r, l)
    PROVE  /\ JobOK' /\ Moves(m, l, job[m].todo \ {r}, r)
           /\ job[m].at = "next" /\ r \in job[m].todo
<1>1. Moves(m, l, job[m].todo \ {r}, r)
  BY Moving
<1>2. job[m].todo \ {r} \in SUBSET Readers
  BY DEF JobOK, Job
<1>3. l \in Places /\ l \notin Quiet /\ r # NoReader
  BY ReaderAssumption DEF Places, Quiet
<1> QED
  BY <1>1, <1>2, <1>3, MovedTypes DEF Take

LEMMA Gone ==
    ASSUME JobOK, NEW m \in Runs, NEW l \in Places, Goto(m, l), l \in Quiet <=> job[m].at \in Quiet
    PROVE  JobOK'
<1>1. job[m].todo \in SUBSET Readers /\ job[m].reader \in Readers \cup {NoReader}
      /\ (job[m].at \in Quiet <=> job[m].reader = NoReader)
  BY DEF JobOK, Job
<1> QED
  BY <1>1, Moving, MovedTypes

LEMMA Proceeded == ASSUME JobOK, NEW m \in Runs, Proceed(m) PROVE JobOK'
<1>1. job[m].todo \in SUBSET Readers /\ "next" \in Places /\ "next" \in Quiet
  BY DEF JobOK, Job, Places, Quiet
<1> QED
  BY <1>1, Moving, MovedTypes

LEMMA Returned == ASSUME JobOK, NEW m \in Runs, Return(m) PROVE JobOK'
<1>1. "idle" \in Places /\ "idle" \in Quiet
  BY DEF Places, Quiet
<1> QED
  BY <1>1, Moving, MovedTypes

LEMMA ReaderOf ==
    ASSUME JobOK, NEW m \in Runs, job[m].at \notin Quiet
    PROVE  job[m].reader \in Readers /\ job[m].todo \subseteq Readers
BY DEF JobOK, Job

LEMMA UpStep == up \in BOOLEAN /\ [Next]_vars => up' \in BOOLEAN
BY DEF Next, Step, vars, ReadLists, WriteQueue, Edit, Start, Load, Reject, Mark, Send,
       SendFails, SendUnconfirmed, Pull, PushSent, PushFailed, Keep, Finish, UpdateFails,
       CallFails, Abort, Kill, Dies, StartMailer

LEMMA TypeStep == TypeOK /\ [Next]_vars => TypeOK'
<1> SUFFICES ASSUME JobOK, ListsOK, [Next]_vars PROVE JobOK' /\ ListsOK'
  BY TypeSplit, UpStep DEF TypeOK, JobOK, ListsOK, Job, Quiet
<1> USE DEF document, form
<1>0. \A ms : Killed(ms) \subseteq {"killed"}
  BY DEF Killed
<1>1. ASSUME NEW p \in Posts, ReadLists(p) PROVE JobOK' /\ ListsOK'
  <2>1. seen' \in [Posts -> [queued : SUBSET Readers, sent : SUBSET Readers]]
    BY <1>1 DEF ReadLists, ListsOK
  <2> QED
    BY <1>1, <2>1 DEF ReadLists, JobOK, ListsOK
<1>2. ASSUME NEW p \in Posts, NEW l \in SUBSET Readers, WriteQueue(p, l) PROVE JobOK' /\ ListsOK'
  <2>1. queued' \subseteq Readers
    BY <1>2 DEF WriteQueue, NewQueue, ListsOK
  <2>2. seen' \in [Posts -> [queued : SUBSET Readers, sent : SUBSET Readers]]
    BY <1>2 DEF WriteQueue, ListsOK, NotSeen
  <2> QED
    BY <1>2, <2>1, <2>2 DEF WriteQueue, JobOK, ListsOK, States
<1>3. CASE Edit
  BY <1>3 DEF Edit, JobOK, ListsOK, States
<1>4. ASSUME NEW m \in Runs, Start(m) PROVE JobOK' /\ ListsOK'
  <2>1. Goto(m, "load") /\ job[m].at \in Quiet /\ "load" \in Places /\ "load" \in Quiet
    BY <1>4 DEF Start, Quiet, Places
  <2> QED
    BY <1>4, <2>1, Gone, ListsKept DEF Start, ListsOK
<1>5. ASSUME NEW m \in Runs, Load(m) PROVE JobOK' /\ ListsOK'
  <2>1. Moves(m, "mark", queued, NoReader)
    BY <1>5 DEF Load, Moves
  <2>2. "mark" \in Places /\ "mark" \in Quiet /\ queued \in SUBSET Readers
    BY DEF Places, Quiet, ListsOK
  <2>3. JobOK'
    BY <2>1, <2>2, MovedTypes
  <2> QED
    BY <1>5, <2>3, ListsKept DEF Load, ListsOK
<1>6. ASSUME NEW m \in Runs, Reject(m) PROVE JobOK' /\ ListsOK'
  BY <1>0, <1>6, Ended, ListsKept DEF Reject, ListsOK
<1>7. ASSUME NEW m \in Runs, Mark(m) \/ Keep(m) PROVE JobOK' /\ ListsOK'
  BY <1>7, Proceeded DEF Mark, Keep, ListsOK, States
<1>8. ASSUME NEW m \in Runs, NEW r \in Readers, Send(m, r) \/ SendUnconfirmed(m, r)
      PROVE  JobOK' /\ ListsOK'
  <2>1. JobOK'
    BY <1>8, Taken DEF Send, SendUnconfirmed
  <2>2. mails' \in [Readers -> 0..2]
    BY <1>8, Delivering DEF Send, SendUnconfirmed
  <2>3. excuses' \subseteq {"overlap", "stale", "error", "killed"}
    BY <1>8 DEF Send, SendUnconfirmed, Failure, ListsOK
  <2> QED
    BY <1>8, <2>1, <2>2, <2>3 DEF Send, SendUnconfirmed, ListsOK
<1>9. ASSUME NEW m \in Runs, NEW r \in Readers, SendFails(m, r) PROVE JobOK' /\ ListsOK'
  BY <1>9, Taken, ListsKept DEF SendFails, ListsOK
<1>10. ASSUME NEW m \in Runs, Pull(m) PROVE JobOK' /\ ListsOK'
  <2>1. PICK l \in {"push", "push failed"} : Goto(m, l)
    BY <1>10 DEF Pull
  <2>2. l \in Places /\ l \notin Quiet /\ job[m].at \notin Quiet
    BY <1>10 DEF Pull, Places, Quiet
  <2>3. JobOK'
    BY <2>1, <2>2, Gone
  <2> QED
    BY <1>10, <2>3 DEF Pull, ListsOK
<1>11. ASSUME NEW m \in Runs, PushSent(m) PROVE JobOK' /\ ListsOK'
  <2>1. Goto(m, "keep") /\ "keep" \in Places /\ "keep" \notin Quiet /\ job[m].at \notin Quiet
    BY <1>11 DEF PushSent, Places, Quiet
  <2>2. JobOK'
    BY <2>1, Gone
  <2>3. sent' \subseteq Readers
    BY <1>11, <2>1, ReaderOf DEF PushSent, ListsOK
  <2> QED
    BY <1>11, <2>2, <2>3 DEF PushSent, ListsOK
<1>12. ASSUME NEW m \in Runs, PushFailed(m) PROVE JobOK' /\ ListsOK'
  <2>1. job[m].at \notin Quiet /\ Proceed(m)
    BY <1>12 DEF PushFailed, Quiet
  <2>2. failed' \subseteq Readers
    BY <1>12, <2>1, ReaderOf DEF PushFailed, ListsOK
  <2> QED
    BY <1>12, <2>1, <2>2, Proceeded DEF PushFailed, ListsOK
<1>13. ASSUME NEW m \in Runs, Finish(m) PROVE JobOK' /\ ListsOK'
  BY <1>13, Returned DEF Finish, ListsOK, States
<1>14. ASSUME NEW m \in Runs, UpdateFails(m) PROVE JobOK' /\ ListsOK'
  <2>1. JobOK'
    <3>1. "keep" \in Places /\ "keep" \notin Quiet /\ job[m].at \notin Quiet
      BY <1>14 DEF UpdateFails, Places, Quiet
    <3>2. Goto(m, "keep") \/ Proceed(m)
      BY <1>14 DEF UpdateFails
    <3> QED
      BY <3>1, <3>2, Gone, Proceeded
  <2> QED
    BY <1>14, <2>1 DEF UpdateFails, Failure, ListsOK
<1>15. ASSUME NEW m \in Runs, CallFails(m) PROVE JobOK' /\ ListsOK'
  <2>1. Goto(m, "pull failed") /\ "pull failed" \in Places
        /\ "pull failed" \notin Quiet /\ job[m].at \notin Quiet
    BY <1>15 DEF CallFails, Places, Quiet
  <2> QED
    BY <1>15, <2>1, Gone, ListsKept DEF CallFails, Failure, ListsOK
<1>16. ASSUME NEW m \in Runs, Abort(m) PROVE JobOK' /\ ListsOK'
  <2>1. JobOK'
    BY <1>16, Ended DEF Abort
  <2>2. excuses' \subseteq {"overlap", "stale", "error", "killed"}
    BY <1>0, <1>16 DEF Abort, ListsOK
  <2>3. state' \in States
    BY <1>16 DEF Abort, ListsOK, States
  <2> QED
    BY <1>16, <2>1, <2>2, <2>3 DEF Abort, ListsOK
<1>17. ASSUME NEW ms, Kill(ms) PROVE JobOK' /\ ListsOK'
  BY <1>17, Ended, ListsKept DEF Kill, ListsOK
<1>18. CASE StartMailer \/ UNCHANGED vars
  BY <1>18 DEF StartMailer, vars, JobOK, ListsOK
<1> QED
  BY <1>1, <1>2, <1>3, <1>4, <1>5, <1>6, <1>7, <1>8, <1>9, <1>10, <1>11, <1>12, <1>13, <1>14,
     <1>15, <1>16, <1>17, <1>18 DEF Next, Step

(* The lists of a mail run and the places of its runs keep their types: a  *)
(* run has a reader exactly while it records a mail                        *)
(* (mailer/touchbase.js 462-490).                                          *)
THEOREM TypeCorrect == Spec => []TypeOK
<1> QED
  BY Initially, TypeStep, PTL DEF Spec

(* A mail that is recorded as sent was sent: the run that moves a reader   *)
(* to the sent list has mailed them.                                       *)
LEMMA RecordedStep ==
    TypeOK /\ Recorded /\ SentWereMailed /\ [Next]_vars => Recorded' /\ SentWereMailed'
<1> SUFFICES ASSUME TypeOK, Recorded, SentWereMailed, [Next]_vars
             PROVE  Recorded' /\ SentWereMailed'
  OBVIOUS
<1>0. JobOK /\ ListsOK /\ sent \subseteq Readers /\ (\A r \in Readers : mails[r] \in 0..2)
  BY TypeSplit DEF ListsOK
<1>1. ASSUME UNCHANGED <<mails, sent>>,
             \A n \in Runs : job'[n] = job[n] \/ job'[n].at \notin {"pull", "push"}
      PROVE  Recorded' /\ SentWereMailed'
  BY <1>1 DEF Recorded, SentWereMailed
<1>2. ASSUME NEW m \in Runs, Others(m), job'[m].at \notin {"pull", "push"},
             UNCHANGED <<mails, sent>>
      PROVE  Recorded' /\ SentWereMailed'
  BY <1>1, <1>2 DEF Others
<1>3. ASSUME NEW ms, Dies(ms), UNCHANGED <<mails, sent>> PROVE Recorded' /\ SentWereMailed'
  BY <1>0, <1>1, <1>3, Ended DEF Idle
<1>4. CASE (\E p \in Posts : ReadLists(p) \/ \E l \in SUBSET Readers : WriteQueue(p, l))
           \/ Edit \/ StartMailer \/ UNCHANGED vars
  <2>1. UNCHANGED <<mails, sent, job>>
    BY <1>4 DEF ReadLists, WriteQueue, Edit, StartMailer, vars, document
  <2> QED
    BY <1>1, <2>1
<1>5. ASSUME NEW m \in Runs, Start(m) \/ Load(m) \/ Mark(m) \/ Keep(m) \/ Finish(m)
                             \/ PushFailed(m) \/ CallFails(m)
      PROVE  Recorded' /\ SentWereMailed'
  <2>1. UNCHANGED <<mails, sent>>
    BY <1>5 DEF Start, Load, Mark, Keep, Finish, PushFailed, CallFails, document
  <2>2. \/ Goto(m, "load") \/ Moves(m, "mark", queued, NoReader) \/ Proceed(m) \/ Return(m)
        \/ Goto(m, "pull failed")
    BY <1>5 DEF Start, Load, Mark, Keep, Finish, PushFailed, CallFails, Moves
  <2>3. Others(m) /\ job'[m].at \in {"load", "mark", "next", "idle", "pull failed"}
    BY <1>0, <2>2, Pointwise, Moved DEF Others
  <2> QED
    BY <1>2, <2>1, <2>3
<1>6. ASSUME NEW m \in Runs, Reject(m) \/ Abort(m) PROVE Recorded' /\ SentWereMailed'
  BY <1>3, <1>6 DEF Reject, Abort, document
<1>7. ASSUME NEW ms, Kill(ms) PROVE Recorded' /\ SentWereMailed'
  BY <1>3, <1>7 DEF Kill, document
<1>8. ASSUME NEW m \in Runs, NEW r \in Readers, Send(m, r) \/ SendUnconfirmed(m, r)
      PROVE  Recorded' /\ SentWereMailed'
  <2>1. PICK l \in {"pull", "pull failed"} : Take(m, r, l)
    BY <1>8 DEF Send, SendUnconfirmed
  <2>2. job'[m].reader = r /\ \A n \in Runs \ {m} : job'[n] = job[n]
    BY <1>0, <2>1, Pointwise DEF Others
  <2>3. /\ mails'[r] >= 1 /\ UNCHANGED sent
        /\ \A q \in Readers : mails'[q] >= mails[q]
        /\ mails \in [Readers -> 0..2] /\ mails' \in [Readers -> 0..2]
    <3>1. Deliver(r) /\ UNCHANGED sent
      BY <1>8 DEF Send, SendUnconfirmed, document
    <3>2. mails' \in [Readers -> 0..2] /\ mails'[r] >= 1
          /\ \A q \in Readers : mails'[q] >= mails[q]
      BY <1>0, <3>1, Delivering
    <3> QED
      BY <1>0, <3>1, <3>2 DEF ListsOK
  <2>4. ASSUME NEW q \in Readers, mails[q] >= 1 PROVE mails'[q] >= 1
    <3>1. mails[q] >= 1 /\ mails'[q] >= mails[q]
      BY <2>3, <2>4
    <3> QED
      BY <2>3, <3>1, AtLeastOne
  <2>5. SentWereMailed'
    BY <1>0, <2>3, <2>4 DEF SentWereMailed
  <2>6. ASSUME NEW n \in Runs, job'[n].at \in {"pull", "push"} PROVE mails'[job'[n].reader] >= 1
    <3>1. CASE n = m
      BY <2>2, <2>3, <3>1
    <3>2. CASE n # m
      <4>1. job'[n] = job[n] /\ job[n].at \notin Quiet
        BY <2>2, <2>6, <3>2 DEF Quiet
      <4> QED
        BY <1>0, <2>4, <2>6, <4>1, ReaderOf DEF Recorded
    <3> QED
      BY <3>1, <3>2
  <2> QED
    BY <2>5, <2>6 DEF Recorded
<1>9. ASSUME NEW m \in Runs, NEW r \in Readers, SendFails(m, r) PROVE Recorded' /\ SentWereMailed'
  <2>1. Take(m, r, "pull failed") /\ UNCHANGED <<mails, sent>>
    BY <1>9 DEF SendFails, document
  <2>2. Others(m) /\ job'[m].at = "pull failed"
    BY <1>0, <2>1, Pointwise
  <2> QED
    BY <1>2, <2>1, <2>2
<1>10. ASSUME NEW m \in Runs, Pull(m) PROVE Recorded' /\ SentWereMailed'
  <2>1. UNCHANGED <<mails, sent>>
    BY <1>10 DEF Pull
  <2>2. CASE job[m].at = "pull"
    <3>1. Moves(m, "push", job[m].todo, job[m].reader)
      BY <1>0, <1>10, <2>2, Moving DEF Pull
    <3> QED
      BY <1>0, <2>1, <2>2, <3>1, Moved DEF Recorded, SentWereMailed
  <2>3. CASE job[m].at = "pull failed"
    <3>1. Others(m) /\ job'[m].at = "push failed"
      BY <1>0, <1>10, <2>3, Pointwise DEF Pull
    <3> QED
      BY <1>2, <2>1, <3>1
  <2> QED
    BY <1>10, <2>2, <2>3 DEF Pull
<1>11. ASSUME NEW m \in Runs, PushSent(m) PROVE Recorded' /\ SentWereMailed'
  <2>1. /\ job[m].at = "push" /\ sent' = sent \cup {job[m].reader} /\ UNCHANGED mails
        /\ Moves(m, "keep", job[m].todo, job[m].reader)
    BY <1>0, <1>11, Moving DEF PushSent
  <2>2. SentWereMailed'
    BY <2>1 DEF Recorded, SentWereMailed
  <2>3. Recorded'
    BY <1>0, <2>1, Moved DEF Recorded
  <2> QED
    BY <2>2, <2>3
<1>12. ASSUME NEW m \in Runs, UpdateFails(m) PROVE Recorded' /\ SentWereMailed'
  <2>1. UNCHANGED <<mails, sent>> /\ (Goto(m, "keep") \/ Proceed(m))
    BY <1>12 DEF UpdateFails
  <2>2. Others(m) /\ job'[m].at \in {"keep", "next"}
    BY <1>0, <2>1, Pointwise
  <2> QED
    BY <1>2, <2>1, <2>2
<1> QED
  BY <1>4, <1>5, <1>6, <1>7, <1>8, <1>9, <1>10, <1>11, <1>12 DEF Next, Step

(* Whatever overlaps, fails or dies, a reader on the list of those who     *)
(* received the mail has received it (mailrun_model.js 28-29).             *)
THEOREM SentListIsTrue == Spec => []SentWereMailed
<1>1. Spec => [](TypeOK /\ Recorded /\ SentWereMailed)
  BY Initially, TypeStep, RecordedStep, PTL DEF Spec
<1> QED
  BY <1>1, PTL

-----------------------------------------------------------------------------
(* While nothing is disturbed.                                             *)

Sound == Single /\ Owned /\ Apart /\ Drained /\ Kept /\ Once

(* No run that is under way moves, and the lists stay.                     *)
LEMMA Unmoved ==
    ASSUME Sound, UNCHANGED <<queued, sent, failed, mails, wanted>>,
           \A n \in Runs : job'[n] = job[n] \/ (~ Busy(n) /\ job'[n].at \in {"idle", "load"}),
           state' = "complete" => state = "complete"
    PROVE  Sound'
<1>1. \A n \in Runs : job'[n].at \notin {"idle", "load"} => job'[n] = job[n] /\ Busy(n)
  BY DEF Busy
<1>2. Single'
  BY <1>1 DEF Sound, Single, Busy
<1>3. Owned'
  BY <1>1 DEF Sound, Owned
<1>4. Apart' /\ Drained'
  BY DEF Sound, Apart, Drained
<1>5. \A n \in Runs : job[n].at \notin {"idle", "load"} => job'[n] = job[n]
  BY DEF Busy
<1>6. ASSUME NEW r, r \in InHand PROVE r \in InHand'
  BY <1>5, <1>6 DEF InHand
<1>7. Kept'
  BY <1>6 DEF Sound, Kept
<1>8. Once'
  BY <1>5 DEF Sound, Once
<1> QED
  BY <1>2, <1>3, <1>4, <1>7, <1>8 DEF Sound

(* A run that is under way, or is the first to be, is the only one.        *)
LEMMA Alone ==
    ASSUME Single, NEW m \in Runs, Busy(m) \/ Underway = {}, Others(m)
    PROVE  /\ Single'
           /\ \A n \in Runs \ {m} : job'[n] = job[n] /\ job[n].at \in {"idle", "load"}
<1>1. ASSUME NEW n \in Runs \ {m} PROVE job'[n] = job[n] /\ job[n].at \in {"idle", "load"}
  BY <1>1 DEF Single, Busy, Underway, Others
<1> QED
  BY <1>1 DEF Single, Busy

(* What the rest then says is about that run only.                         *)
LEMMA Only ==
    ASSUME Single, NEW m \in Runs, Busy(m) \/ Underway = {}, Others(m)
    PROVE  /\ Single'
           /\ (/\ job'[m].at \in {"mark", "next"} => job'[m].todo = queued'
               /\ job'[m].at \in {"pull", "pull failed"} =>
                     job'[m].todo = queued' \ {job'[m].reader} /\ job'[m].reader \in queued'
               /\ job'[m].at \in {"push", "push failed", "keep"} =>
                     job'[m].todo = queued' /\ job'[m].reader \notin queued') => Owned'
           /\ \A r : r \in InHand <=>
                        job[m].at \in {"push", "push failed"} /\ job[m].reader = r
           /\ \A r : r \in InHand' <=>
                        job'[m].at \in {"push", "push failed"} /\ job'[m].reader = r
           /\ \A r : (\E n \in Runs : job[n].at \in {"pull", "push"} /\ job[n].reader = r)
                        <=> job[m].at \in {"pull", "push"} /\ job[m].reader = r
<1>1. /\ Single'
      /\ \A n \in Runs \ {m} : job'[n] = job[n] /\ job[n].at \in {"idle", "load"}
  BY Alone
<1>2. /\ \A n \in Runs : job[n].at \notin {"idle", "load"} => n = m
      /\ \A n \in Runs : job'[n].at \notin {"idle", "load"} => n = m
  BY <1>1
<1>3. (/\ job'[m].at \in {"mark", "next"} => job'[m].todo = queued'
       /\ job'[m].at \in {"pull", "pull failed"} =>
             job'[m].todo = queued' \ {job'[m].reader} /\ job'[m].reader \in queued'
       /\ job'[m].at \in {"push", "push failed", "keep"} =>
             job'[m].todo = queued' /\ job'[m].reader \notin queued') => Owned'
  BY <1>2 DEF Owned
<1>4. \A r : r \in InHand <=> job[m].at \in {"push", "push failed"} /\ job[m].reader = r
  BY <1>2 DEF InHand
<1>5. \A r : r \in InHand' <=> job'[m].at \in {"push", "push failed"} /\ job'[m].reader = r
  BY <1>2 DEF InHand
<1>6. \A r : (\E n \in Runs : job[n].at \in {"pull", "push"} /\ job[n].reader = r)
               <=> job[m].at \in {"pull", "push"} /\ job[m].reader = r
  BY <1>2
<1> QED
  BY <1>1, <1>3, <1>4, <1>5, <1>6

LEMMA OrderlyStep == TypeOK /\ Orderly /\ [Next]_vars => Orderly'
<1> SUFFICES ASSUME TypeOK, Sound, [Next]_vars, excuses = {}, excuses' = {} PROVE Sound'
  <2>1. [Next]_vars => (excuses' = {} => excuses = {})
    BY DEF Next, Step, vars, ReadLists, WriteQueue, Edit, Start, Load, Reject, Mark, Send,
           SendFails, SendUnconfirmed, Pull, PushSent, PushFailed, Keep, Finish, UpdateFails,
           CallFails, Abort, Kill, StartMailer, Failure
  <2> QED
    BY <2>1 DEF Orderly, Sound
<1>0. JobOK /\ ListsOK /\ Single /\ Owned /\ Apart /\ Drained /\ Kept /\ Once
  BY TypeSplit DEF Sound
<1>1. CASE (\E p \in Posts : ReadLists(p)) \/ Edit \/ StartMailer \/ UNCHANGED vars
  <2>1. UNCHANGED <<queued, sent, failed, mails, wanted, job>>
        /\ (state' = "complete" => state = "complete")
    BY <1>1 DEF ReadLists, Edit, StartMailer, vars, document
  <2> QED
    BY <2>1, Unmoved
<1>2. ASSUME NEW p \in Posts, NEW l \in SUBSET Readers, WriteQueue(p, l) PROVE Sound'
  <2>1. Underway = {} /\ seen[p] = [queued |-> queued, sent |-> sent]
    BY <1>2 DEF WriteQueue
  <2>2. /\ UNCHANGED <<sent, failed, job, mails>> /\ state' = "due"
        /\ queued' = (l \cup queued) \ sent /\ wanted' = wanted \cup queued'
    BY <1>2, <2>1 DEF WriteQueue, NewQueue
  <2>3. \A m \in Runs : job[m].at \in {"idle", "load"}
    BY <2>1 DEF Underway
  <2>4. Single' /\ Owned'
    BY <2>2, <2>3 DEF Single, Owned, Busy
  <2>5. Apart' /\ Drained'
    BY <2>2 DEF Apart, Drained
  <2>6. Kept'
    BY <1>0, <2>2 DEF Kept, InHand
  <2>7. Once'
    BY <1>0, <2>2 DEF Once
  <2> QED
    BY <2>4, <2>5, <2>6, <2>7 DEF Sound
<1>3. ASSUME NEW m \in Runs, Start(m) PROVE Sound'
  <2>1. /\ UNCHANGED <<queued, sent, failed, mails, wanted, state>>
        /\ ~ Busy(m) /\ job'[m].at = "load" /\ Others(m)
    BY <1>0, <1>3, Pointwise DEF Start, Busy, document
  <2> QED
    BY <2>1, Unmoved DEF Others
<1>4. ASSUME NEW ms, Dies(ms), Underway \cap ms = {},
             UNCHANGED <<queued, sent, failed, mails, wanted, state>>
      PROVE  Sound'
  <2>1. \A n \in Runs : job'[n] = job[n] \/ (~ Busy(n) /\ job'[n].at \in {"idle", "load"})
    BY <1>0, <1>4, Ended DEF Idle, Busy, Underway
  <2> QED
    BY <1>4, <2>1, Unmoved
<1>5. ASSUME NEW m \in Runs, Reject(m) PROVE Sound'
  <2>1. Underway \cap EndOf(m) = {}
    BY <1>5 DEF Reject, Killed
  <2> QED
    BY <1>4, <1>5, <2>1 DEF Reject, document
<1>6. ASSUME NEW m \in Runs, Load(m) PROVE Sound'
  <2>1. Underway = {} /\ UNCHANGED <<queued, sent, failed, mails, wanted, state>>
    BY <1>6 DEF Load, document
  <2>2. /\ job'[m].at = "mark" /\ job'[m].todo = queued /\ Others(m)
        /\ job[m].at = "load"
    <3>1. Moves(m, "mark", queued, NoReader) /\ job[m].at = "load"
      BY <1>6 DEF Load, Moves
    <3> QED
      BY <1>0, <3>1, Moved DEF Others
  <2>3. Single' /\ Owned'
    BY <1>0, <2>1, <2>2, Only
  <2>4. Apart' /\ Drained'
    BY <1>0, <2>1 DEF Apart, Drained
  <2>5. Kept'
    <3>1. \A r : r \in InHand => r \in InHand'
      BY <1>0, <2>1, <2>2, Only
    <3> QED
      BY <1>0, <2>1, <3>1 DEF Kept
  <2>6. Once'
    <3>1. \A r : ~ \E n \in Runs : job[n].at \in {"pull", "push"} /\ job[n].reader = r
      BY <1>0, <2>1, <2>2, Only
    <3> QED
      BY <1>0, <2>1, <3>1 DEF Once
  <2> QED
    BY <2>3, <2>4, <2>5, <2>6 DEF Sound
<1>7. ASSUME NEW m \in Runs, Mark(m) \/ Keep(m) \/ Finish(m) PROVE Sound'
  <2>1. /\ UNCHANGED <<queued, sent, failed, mails, wanted>> /\ Busy(m)
        /\ job[m].at \in {"mark", "keep", "next"}
    BY <1>7 DEF Mark, Keep, Finish, Busy
  <2>2. /\ Others(m) /\ job'[m].at \in {"next", "idle"}
        /\ job'[m].at = "next" => job'[m].todo = job[m].todo
    BY <1>0, <1>7, Pointwise DEF Mark, Keep, Finish
  <2>3. job[m].todo = queued
    BY <1>0, <2>1 DEF Owned
  <2>4. Single' /\ Owned'
    BY <1>0, <2>1, <2>2, <2>3, Only
  <2>5. Apart'
    BY <1>0, <2>1 DEF Apart
  <2>6. Drained'
    BY <1>7, <2>1, <2>3 DEF Mark, Keep, Finish, Drained
  <2>7. Kept'
    <3>1. \A r : r \notin InHand
      BY <1>0, <2>1, <2>2, Only
    <3> QED
      BY <1>0, <2>1, <3>1 DEF Kept
  <2>8. Once'
    <3>1. \A r : ~ \E n \in Runs : job[n].at \in {"pull", "push"} /\ job[n].reader = r
      BY <1>0, <2>1, <2>2, Only
    <3> QED
      BY <1>0, <2>1, <3>1 DEF Once
  <2> QED
    BY <2>4, <2>5, <2>6, <2>7, <2>8 DEF Sound
<1>8. ASSUME NEW m \in Runs, NEW r \in Readers, Send(m, r) \/ SendFails(m, r) PROVE Sound'
  <2>1. PICK l \in {"pull", "pull failed"} : Take(m, r, l)
    BY <1>8 DEF Send, SendFails
  <2>2. /\ UNCHANGED <<queued, sent, failed, wanted, state>> /\ Busy(m)
        /\ job[m].at = "next" /\ r \in job[m].todo
    BY <1>8, <2>1 DEF Send, SendFails, Take, Busy, document
  <2>3. /\ Others(m) /\ job'[m].at = l /\ job'[m].todo = job[m].todo \ {r}
        /\ job'[m].reader = r
    BY <1>0, <2>1, Pointwise
  <2>4. job[m].todo = queued
    BY <1>0, <2>2 DEF Owned
  <2>5. Single' /\ Owned'
    BY <1>0, <2>2, <2>3, <2>4, Only
  <2>6. Apart' /\ Drained'
    BY <1>0, <2>2 DEF Apart, Drained
  <2>7. Kept'
    <3>1. \A q : q \notin InHand
      BY <1>0, <2>2, <2>3, Only
    <3> QED
      BY <1>0, <2>2, <3>1 DEF Kept
  <2>8. Once'
    <3>1. \A q : ~ \E n \in Runs : job[n].at \in {"pull", "push"} /\ job[n].reader = q
      BY <1>0, <2>2, <2>3, Only
    <3>2. CASE UNCHANGED mails
      BY <1>0, <2>2, <3>1, <3>2 DEF Once
    <3>3. CASE Send(m, r)
      <4>1. Deliver(r) /\ job'[m].at = "pull" /\ job'[m].reader = r
        BY <1>0, <3>3, Pointwise DEF Send
      <4>2. mails[r] = 0
        <5>1. r \notin sent
          BY <1>0, <2>2, <2>4 DEF Apart
        <5>2. mails[r] <= 1 /\ mails[r] # 1
          BY <1>0, <3>1, <5>1 DEF Once
        <5>3. mails \in [Readers -> 0..2]
          BY <1>0 DEF ListsOK
        <5> QED
          BY <5>2, <5>3, NotTwice
      <4>3. mails'[r] = 1 /\ \A q \in Readers \ {r} : mails'[q] = mails[q]
        BY <1>0, <4>1, <4>2, Delivering
      <4>4. ASSUME NEW q \in Readers
            PROVE  /\ mails'[q] <= 1
                   /\ mails'[q] = 1 => \/ q \in sent'
                                       \/ \E n \in Runs : job'[n].at \in {"pull", "push"}
                                                          /\ job'[n].reader = q
        <5>1. CASE q = r
          <6>0. mails'[q] = 1
            BY <4>3, <5>1
          <6>1. mails'[q] = 1 /\ mails'[q] <= 1
            BY <6>0, NotMore
          <6>2. \E n \in Runs : job'[n].at \in {"pull", "push"} /\ job'[n].reader = q
            BY <4>1, <5>1
          <6> QED
            BY <6>1, <6>2
        <5>2. CASE q # r
          <6>1. mails'[q] = mails[q]
            BY <4>3, <5>2
          <6> QED
            BY <1>0, <2>2, <3>1, <6>1 DEF Once
        <5> QED
          BY <5>1, <5>2
      <4> QED
        BY <4>4 DEF Once
    <3> QED
      BY <1>8, <3>2, <3>3 DEF SendFails
  <2> QED
    BY <2>5, <2>6, <2>7, <2>8 DEF Sound
<1>9. ASSUME NEW m \in Runs, Pull(m) PROVE Sound'
  <2>1. /\ UNCHANGED <<sent, failed, mails, wanted, state>> /\ Busy(m)
        /\ job[m].at \in {"pull", "pull failed"} /\ queued' = queued \ {job[m].reader}
    BY <1>9 DEF Pull, Busy
  <2>2. /\ Others(m) /\ job'[m].at = (IF job[m].at = "pull" THEN "push" ELSE "push failed")
        /\ job'[m].todo = job[m].todo /\ job'[m].reader = job[m].reader
    BY <1>0, <1>9, Pointwise DEF Pull
  <2>3. job[m].todo = queued \ {job[m].reader}
    BY <1>0, <2>1 DEF Owned
  <2>4. Single' /\ Owned'
    BY <1>0, <2>1, <2>2, <2>3, Only
  <2>5. Apart' /\ Drained'
    BY <1>0, <2>1 DEF Apart, Drained
  <2>6. Kept'
    <3>1. (\A r : r \notin InHand) /\ job[m].reader \in InHand'
      BY <1>0, <2>1, <2>2, Only
    <3> QED
      BY <1>0, <2>1, <3>1 DEF Kept
  <2>7. Once'
    <3>1. \A r : (\E n \in Runs : job[n].at \in {"pull", "push"} /\ job[n].reader = r)
                  => job[m].at = "pull" /\ job[m].reader = r
      <4>1. \A r : (\E n \in Runs : job[n].at \in {"pull", "push"} /\ job[n].reader = r)
                    => job[m].at \in {"pull", "push"} /\ job[m].reader = r
        BY <1>0, <2>1, <2>2, Only
      <4> QED
        BY <2>1, <4>1
    <3>2. job[m].at = "pull" => job'[m].at = "push" /\ job'[m].reader = job[m].reader
      BY <2>2
    <3> QED
      BY <1>0, <2>1, <3>1, <3>2 DEF Once
  <2> QED
    BY <2>4, <2>5, <2>6, <2>7 DEF Sound
<1>10. ASSUME NEW m \in Runs, PushSent(m) \/ PushFailed(m) PROVE Sound'
  <2>1. /\ UNCHANGED <<queued, mails, wanted, state>> /\ Busy(m)
        /\ job[m].at \in {"push", "push failed"}
    BY <1>10 DEF PushSent, PushFailed, Busy
  <2>2. /\ job[m].at = "push" => sent' = sent \cup {job[m].reader} /\ failed' = failed
        /\ job[m].at = "push failed" => failed' = failed \cup {job[m].reader} /\ sent' = sent
    BY <1>10 DEF PushSent, PushFailed
  <2>3. /\ Others(m) /\ job'[m].todo = job[m].todo
        /\ job'[m].at \in {"keep", "next"}
        /\ job'[m].at = "keep" => job'[m].reader = job[m].reader
    BY <1>0, <1>10, Pointwise DEF PushSent, PushFailed
  <2>4. job[m].todo = queued /\ job[m].reader \notin queued
    BY <1>0, <2>1 DEF Owned
  <2>5. Single' /\ Owned'
    BY <1>0, <2>1, <2>3, <2>4, Only
  <2>6. Apart' /\ Drained'
    BY <1>0, <2>1, <2>2, <2>4 DEF Apart, Drained
  <2>7. Kept'
    <3>1. \A r : r \in InHand => r = job[m].reader
      BY <1>0, <2>1, <2>3, Only
    <3>2. job[m].reader \in sent' \cup failed' /\ sent \subseteq sent' /\ failed \subseteq failed'
      BY <2>1, <2>2
    <3> QED
      BY <1>0, <2>1, <3>1, <3>2 DEF Kept
  <2>8. Once'
    <3>1. \A r : (\E n \in Runs : job[n].at \in {"pull", "push"} /\ job[n].reader = r)
                  => r \in sent'
      BY <1>0, <2>1, <2>2, <2>3, Only
    <3>2. sent \subseteq sent'
      BY <2>1, <2>2
    <3> QED
      BY <1>0, <2>1, <3>1, <3>2 DEF Once
  <2> QED
    BY <2>5, <2>6, <2>7, <2>8 DEF Sound
<1>11. ASSUME NEW m \in Runs,
              (\E r \in Readers : SendUnconfirmed(m, r)) \/ UpdateFails(m) \/ CallFails(m) \/ Abort(m)
       PROVE  FALSE
  BY <1>11 DEF SendUnconfirmed, UpdateFails, CallFails, Abort, Failure
<1>12. ASSUME NEW ms, Kill(ms) PROVE FALSE
  BY <1>12 DEF Kill
<1> QED
  BY <1>1, <1>2, <1>3, <1>5, <1>6, <1>7, <1>8, <1>9, <1>10, <1>11, <1>12 DEF Next, Step

(* Undisturbed: no two runs overlap, no form writes lists it read too      *)
(* early, no call fails and no process dies.                               *)
LEMMA Undisturbed == Spec => []Orderly
BY Initially, TypeStep, OrderlyStep, PTL DEF Spec

(* Undisturbed, nobody gets the mail of a run twice, however often readers *)
(* are queued again (frontend/routes/mails.js 120).                        *)
THEOREM NobodyIsMailedTwiceUndisturbed == Spec => []OnceUndisturbed
<1>1. Orderly => OnceUndisturbed
  BY DEF Orderly, Once, OnceUndisturbed, NobodyMailedTwice
<1> QED
  BY <1>1, Undisturbed, PTL

(* Undisturbed, the two updates of a move lose nobody a submission queued  *)
(* (mailrun_model.js 28-29, 41-42).                                        *)
THEOREM NobodyIsForgotten == Spec => []NobodyForgotten
<1>1. Orderly => NobodyForgotten
  BY DEF Orderly, Kept, NobodyForgotten
<1> QED
  BY <1>1, Undisturbed, PTL

(* Undisturbed, a complete run has nobody left to mail                     *)
(* (mailer/touchbase.js 481).                                              *)
THEOREM CompleteRunsAreDrained == Spec => []CompleteIsDrained
<1>1. Orderly => CompleteIsDrained
  BY DEF Orderly, Drained, CompleteIsDrained
<1> QED
  BY <1>1, Undisturbed, PTL

-----------------------------------------------------------------------------
(* The refinement of Mailing.  Undisturbed, one run at most has a reader   *)
(* in its hands, so that each of its calls moves that reader only; what is *)
(* disturbed is Disturb.                                                   *)

Failing == {"pull failed", "push failed"}
Without(q, j) == q \ {j[m].reader : m \in Runs}
Failures(f, j) == f \cup {j[m].reader : m \in {n \in Runs : j[n].at \in Failing}}
EmptyHanded(j, m) == \A n \in Runs \ {m} : j[n].reader = NoReader /\ j[n].at \notin Failing

LEMMA Abstracted ==
    /\ Waiting = Without(queued, job) /\ Waiting' = Without(queued', job')
    /\ GivenUp = Failures(failed, job) /\ GivenUp' = Failures(failed', job')
BY DEF Waiting, GivenUp, Without, Failures, Failing

(* Only the reader of m counts when the other runs have none.              *)
LEMMA OneHand ==
    ASSUME NEW q \in SUBSET Readers, NEW f, NEW j, NEW m \in Runs,
           EmptyHanded(j, m)
    PROVE  /\ Without(q, j) = q \ {j[m].reader}
           /\ j[m].at \in Failing => Failures(f, j) = f \cup {j[m].reader}
           /\ j[m].at \notin Failing => Failures(f, j) = f
<1>1. NoReader \notin q /\ \A n \in Runs \ {m} : j[n].reader = NoReader /\ j[n].at \notin Failing
  BY ReaderAssumption DEF EmptyHanded
<1>2. \A x \in q : x \in {j[n].reader : n \in Runs} <=> x = j[m].reader
  BY <1>1
<1>3. Without(q, j) = q \ {j[m].reader}
  BY <1>2 DEF Without
<1>4. \A n \in Runs : j[n].at \in Failing => n = m
  BY <1>1
<1>5. QED
  BY <1>3, <1>4 DEF Failures

(* Mails are not taken back, and a disturbance is not forgotten.           *)
LEMMA Remembered ==
    ASSUME TypeOK, [Next]_vars
    PROVE  /\ \A r \in Readers : mails'[r] >= mails[r]
           /\ excuses' = {} => excuses = {}
<1>1. JobOK /\ ListsOK
  BY TypeSplit
<1>2. \A r \in Readers : mails[r] \in Nat
  BY DEF TypeOK
<1>3. \A n \in Nat : n >= n
  OBVIOUS
<1>4. mails' = mails \/ \E r \in Readers : Deliver(r)
  BY DEF Next, Step, vars, document, form, ReadLists, WriteQueue, Edit, Start, Load, Reject,
         Mark, Send, SendFails, SendUnconfirmed, Pull, PushSent, PushFailed, Keep, Finish,
         UpdateFails, CallFails, Abort, Kill, StartMailer
<1>5. excuses' = {} => excuses = {}
  BY DEF Next, Step, vars, ReadLists, WriteQueue, Edit, Start, Load, Reject, Mark, Send,
         SendFails, SendUnconfirmed, Pull, PushSent, PushFailed, Keep, Finish, UpdateFails,
         CallFails, Abort, Kill, StartMailer, Failure
<1>6. QED
  BY <1>1, <1>2, <1>3, <1>4, <1>5, Delivering

LEMMA DisturbedStep ==
    ASSUME TypeOK, TypeOK', [Next]_vars, excuses' # {}
    PROVE  Promised!Disturb
<1>1. queued' \subseteq Readers /\ failed' \subseteq Readers /\ mails' \in [Readers -> 0..2]
  BY DEF TypeOK
<1>2. \A m \in Runs : job'[m].at \in Failing => job'[m].reader \in Readers
  BY DEF TypeOK, Failing
<1>3. Waiting' \subseteq Readers
  BY <1>1 DEF Waiting
<1>4. GivenUp' \subseteq Readers
  BY <1>1, <1>2 DEF GivenUp, Failing
<1>5. mails' \in [Readers -> Nat]
  BY <1>1
<1>6. QED
  BY <1>3, <1>4, <1>5, Remembered DEF Promised!Disturb

(* Who waits has not been mailed.                                          *)
LEMMA QueuedAreUnmailed ==
    ASSUME TypeOK, Sound, NEW r \in Readers, r \notin sent,
           \A m \in Runs : job[m].at \notin {"pull", "push"}
    PROVE  mails[r] = 0
BY NotTwice DEF TypeOK, Sound, Once

(* The form queues readers who have not been mailed.                       *)
LEMMA WriteQueues ==
    ASSUME TypeOK, Sound, NEW p \in Posts, NEW l \in SUBSET Readers, WriteQueue(p, l),
           excuses = {}, excuses' = {}
    PROVE  Promised!Queue(l \ sent)
<1>1. Underway = {} /\ seen[p] = [queued |-> queued, sent |-> sent]
  BY DEF WriteQueue
<1>2. /\ UNCHANGED <<sent, failed, job, mails>> /\ state' = "due"
      /\ queued' = (l \cup queued) \ sent
  BY <1>1 DEF WriteQueue, NewQueue
<1>3. \A m \in Runs : job[m].at \in {"idle", "load"}
  BY <1>1 DEF Underway
<1>4. \A m \in Runs : job[m].reader = NoReader
  BY <1>3 DEF TypeOK
<1>5. queued \subseteq Readers /\ queued' \subseteq Readers
  BY <1>2 DEF TypeOK
<1>6. Waiting = queued /\ Waiting' = queued' /\ GivenUp' = GivenUp
  BY <1>2, <1>4, <1>5, ReaderAssumption DEF Waiting, GivenUp
<1>7. queued' = queued \cup (l \ sent)
  BY <1>2 DEF Sound, Apart
<1>8. \A r \in l \ sent : mails[r] = 0
  BY <1>3, QueuedAreUnmailed
<1>9. QED
  BY <1>2, <1>6, <1>7, <1>8 DEF Promised!Queue

(* A run takes the next reader: mailed or given up.                        *)
LEMMA TakesWaiting ==
    ASSUME TypeOK, Sound, NEW m \in Runs, NEW r \in Readers, NEW at \in {"pull", "pull failed"},
           Take(m, r, at), UNCHANGED document
    PROVE  /\ r \in Waiting /\ Waiting' = Waiting \ {r} /\ mails[r] = 0
           /\ at = "pull" => GivenUp' = GivenUp
           /\ at = "pull failed" => GivenUp' = GivenUp \cup {r}
<1>1. JobOK /\ ListsOK /\ Single /\ Owned /\ Apart /\ Busy(m)
      /\ job[m].at = "next" /\ job[m].reader = NoReader /\ r \in job[m].todo
  BY TypeSplit DEF Take, Busy, Sound, TypeOK
<1>2. r \in queued /\ r \notin sent
  BY <1>1 DEF Owned, Apart
<1>3. job'[m].at = at /\ job'[m].reader = r /\ Others(m)
  BY <1>1, Pointwise
<1>4. \A n \in Runs \ {m} : job'[n] = job[n] /\ job[n].at \in {"idle", "load"}
  BY <1>1, <1>3, Alone
<1>5. EmptyHanded(job, m)
  BY <1>4 DEF TypeOK, Failing, EmptyHanded
<1>6. EmptyHanded(job', m)
  BY <1>4, <1>5 DEF EmptyHanded
<1>7. queued \in SUBSET Readers /\ queued' = queued /\ failed' = failed
  BY DEF TypeOK, document
<1>8. Waiting = queued \ {NoReader} /\ GivenUp = failed
  <2>1. /\ Without(queued, job) = queued \ {job[m].reader}
        /\ job[m].at \notin Failing => Failures(failed, job) = failed
    BY <1>5, <1>7, OneHand
  <2>2. QED
    BY <1>1, <2>1, Abstracted DEF Failing
<1>9. /\ Waiting' = queued \ {r}
      /\ at \in Failing => GivenUp' = failed \cup {r}
      /\ at \notin Failing => GivenUp' = failed
  <2>1. /\ Without(queued, job') = queued \ {job'[m].reader}
        /\ job'[m].at \in Failing => Failures(failed, job') = failed \cup {job'[m].reader}
        /\ job'[m].at \notin Failing => Failures(failed, job') = failed
    BY <1>6, <1>7, OneHand
  <2>2. QED
    BY <1>3, <1>7, <2>1, Abstracted
<1>10. /\ at = "pull" => GivenUp' = failed
       /\ at = "pull failed" => GivenUp' = failed \cup {r}
  BY <1>9 DEF Failing
<1>11. \A n \in Runs : job[n].at \notin {"pull", "push"}
  BY <1>1, <1>4
<1>12. mails[r] = 0
  BY <1>2, <1>11, QueuedAreUnmailed
<1>13. QED
  BY <1>2, <1>7, <1>8, <1>9, <1>10, <1>12, ReaderAssumption

(* A run moves a reader it has already mailed or given up.                 *)
LEMMA MovesOn ==
    ASSUME TypeOK, Sound, NEW m \in Runs, Pull(m) \/ PushSent(m) \/ PushFailed(m) \/ Keep(m)
    PROVE  Waiting' = Waiting /\ GivenUp' = GivenUp /\ mails' = mails
<1>1. JobOK /\ Single /\ Owned /\ Busy(m) /\ job[m].reader \in Readers /\ mails' = mails
  BY TypeSplit DEF Pull, PushSent, PushFailed, Keep, Busy, Sound, TypeOK
<1>2. /\ Others(m) /\ job'[m].reader \in {job[m].reader, NoReader}
      /\ Pull(m) => job'[m].reader = job[m].reader
      /\ PushSent(m) => job'[m].reader = job[m].reader
      /\ PushFailed(m) \/ Keep(m) => job'[m].reader = NoReader
  BY <1>1, Pointwise DEF Pull, PushSent, PushFailed, Keep
<1>3. \A n \in Runs \ {m} : job'[n] = job[n] /\ job[n].at \in {"idle", "load"}
  BY <1>1, <1>2, Alone
<1>4. EmptyHanded(job, m)
  BY <1>3 DEF TypeOK, Failing, EmptyHanded
<1>5. EmptyHanded(job', m)
  BY <1>3, <1>4 DEF EmptyHanded
<1>6. queued \in SUBSET Readers /\ queued' \in SUBSET Readers
  BY DEF TypeOK, Pull, PushSent, PushFailed, Keep
<1>7. /\ Waiting = queued \ {job[m].reader} /\ Waiting' = queued' \ {job'[m].reader}
      /\ job[m].at \in Failing => GivenUp = failed \cup {job[m].reader}
      /\ job[m].at \notin Failing => GivenUp = failed
      /\ job'[m].at \in Failing => GivenUp' = failed' \cup {job'[m].reader}
      /\ job'[m].at \notin Failing => GivenUp' = failed'
  <2>1. /\ Without(queued, job) = queued \ {job[m].reader}
        /\ job[m].at \in Failing => Failures(failed, job) = failed \cup {job[m].reader}
        /\ job[m].at \notin Failing => Failures(failed, job) = failed
    BY <1>4, <1>6, OneHand
  <2>2. /\ Without(queued', job') = queued' \ {job'[m].reader}
        /\ job'[m].at \in Failing => Failures(failed', job') = failed' \cup {job'[m].reader}
        /\ job'[m].at \notin Failing => Failures(failed', job') = failed'
    BY <1>5, <1>6, OneHand
  <2>3. QED
    BY <2>1, <2>2, Abstracted
<1>8. CASE Pull(m)
  <2>1. queued' = queued \ {job[m].reader} /\ failed' = failed /\ job'[m].reader = job[m].reader
        /\ job[m].at \in {"pull", "pull failed"}
        /\ job'[m].at = IF job[m].at = "pull" THEN "push" ELSE "push failed"
    BY <1>1, <1>2, <1>8, Pointwise DEF Pull
  <2>2. QED
    BY <1>1, <1>7, <2>1 DEF Failing
<1>9. CASE PushSent(m)
  <2>1. queued' = queued /\ failed' = failed /\ job'[m].reader = job[m].reader
        /\ job[m].at = "push" /\ job'[m].at = "keep"
    BY <1>1, <1>2, <1>9, Pointwise DEF PushSent
  <2>2. QED
    BY <1>1, <1>7, <2>1 DEF Failing
<1>10. CASE PushFailed(m)
  <2>1. /\ queued' = queued /\ failed' = failed \cup {job[m].reader} /\ job'[m].reader = NoReader
        /\ job[m].at = "push failed" /\ job'[m].at = "next" /\ job[m].reader \notin queued
    BY <1>1, <1>2, <1>10, Pointwise DEF PushFailed, Owned
  <2>2. QED
    BY <1>1, <1>6, <1>7, <2>1, ReaderAssumption DEF Failing
<1>11. CASE Keep(m)
  <2>1. /\ queued' = queued /\ failed' = failed /\ job'[m].reader = NoReader
        /\ job[m].at = "keep" /\ job'[m].at = "next" /\ job[m].reader \notin queued
    BY <1>1, <1>2, <1>11, Pointwise DEF Keep, Owned
  <2>2. QED
    BY <1>1, <1>6, <1>7, <2>1, ReaderAssumption DEF Failing
<1>12. QED
  BY <1>8, <1>9, <1>10, <1>11

(* No run with a reader in its hands moves.                                *)
LEMMA HandsStill ==
    ASSUME queued' = queued, failed' = failed,
           \A n \in Runs : /\ job'[n].reader = job[n].reader
                           /\ job'[n].at \in Failing <=> job[n].at \in Failing
    PROVE  Waiting' = Waiting /\ GivenUp' = GivenUp
<1>1. {job'[n].reader : n \in Runs} = {job[n].reader : n \in Runs}
  OBVIOUS
<1>2. {n \in Runs : job'[n].at \in Failing} = {n \in Runs : job[n].at \in Failing}
  OBVIOUS
<1>3. QED
  BY <1>1, <1>2, Abstracted DEF Without, Failures

LEMMA MailingStep ==
    ASSUME TypeOK, Sound, [Next]_vars, excuses = {}, excuses' = {}
    PROVE  [Promised!Next]_Promised!vars
<1>0. JobOK
  BY TypeSplit
<1>1. CASE (\E p \in Posts : ReadLists(p)) \/ StartMailer \/ UNCHANGED vars
  <2>1. Waiting' = Waiting /\ GivenUp' = GivenUp /\ mails' = mails /\ state' = state
    BY <1>1 DEF ReadLists, StartMailer, vars, document, Waiting, GivenUp
  <2>2. QED
    BY <2>1 DEF Promised!vars
<1>2. ASSUME NEW p \in Posts, NEW l \in SUBSET Readers, WriteQueue(p, l)
      PROVE  [Promised!Next]_Promised!vars
  BY <1>2, WriteQueues DEF Promised!Next
<1>3. CASE Edit
  <2>1. Waiting' = Waiting /\ GivenUp' = GivenUp /\ mails' = mails /\ state' # "complete"
    BY <1>3 DEF Edit, document, Waiting, GivenUp
  <2>2. QED
    BY <2>1 DEF Promised!Next, Promised!Reopen
<1>4. ASSUME NEW m \in Runs, Start(m) \/ Load(m) \/ Reject(m)
      PROVE  [Promised!Next]_Promised!vars
  <2>1. \A n \in Runs : /\ job'[n].reader = job[n].reader
                        /\ job'[n].at \in Failing <=> job[n].at \in Failing
    <3>1. CASE Start(m)
      <4>1. /\ job[m].at = "idle" /\ job'[m].at = "load" /\ job'[m].reader = job[m].reader
            /\ \A n \in Runs \ {m} : job'[n] = job[n]
        BY <1>0, <3>1, Pointwise DEF Start, Others
      <4>2. QED
        BY <4>1 DEF Failing
    <3>2. CASE Load(m)
      <4>1. /\ job[m].at = "load" /\ job'[m].at = "mark" /\ job'[m].reader = NoReader
            /\ job[m].reader = NoReader /\ \A n \in Runs \ {m} : job'[n] = job[n]
        BY <3>2 DEF Load, TypeOK
      <4>2. QED
        BY <4>1 DEF Failing
    <3>3. CASE Reject(m)
      <4>1. Underway \cap EndOf(m) = {} /\ Dies(EndOf(m))
        BY <3>3 DEF Reject, Killed
      <4>2. \A n \in EndOf(m) \cap Runs : job[n].at \in {"idle", "load"}
        BY <4>1 DEF Underway
      <4>3. \A n \in EndOf(m) \cap Runs : job[n].reader = NoReader
        BY <4>2 DEF TypeOK
      <4>4. \A n \in Runs : job'[n] = IF n \in EndOf(m) THEN Idle ELSE job[n]
        BY <1>0, <4>1, Ended
      <4>5. Idle.at = "idle" /\ Idle.reader = NoReader
        BY DEF Idle
      <4>6. ASSUME NEW n \in Runs
            PROVE  /\ job'[n].reader = job[n].reader
                   /\ job'[n].at \in Failing <=> job[n].at \in Failing
        <5>1. CASE n \in EndOf(m)
          BY <4>2, <4>3, <4>4, <4>5, <5>1 DEF Failing
        <5>2. CASE n \notin EndOf(m)
          BY <4>4, <5>2
        <5>3. QED
          BY <5>1, <5>2
      <4>7. QED
        BY <4>6
    <3>4. QED
      BY <1>4, <3>1, <3>2, <3>3
  <2>2. queued' = queued /\ failed' = failed /\ mails' = mails /\ state' = state
    BY <1>4 DEF Start, Load, Reject, document
  <2>3. Waiting' = Waiting /\ GivenUp' = GivenUp
    BY <2>1, <2>2, HandsStill
  <2>4. QED
    BY <2>2, <2>3 DEF Promised!vars
<1>5. ASSUME NEW m \in Runs, Mark(m) PROVE [Promised!Next]_Promised!vars
  <2>1. /\ job[m].at = "mark" /\ job[m].reader = NoReader
        /\ job'[m].at = "next" /\ job'[m].reader = NoReader /\ Others(m)
    BY <1>0, <1>5, Pointwise DEF Mark, TypeOK
  <2>2. queued' = queued /\ failed' = failed /\ mails' = mails /\ state' = "running"
    BY <1>5 DEF Mark
  <2>3. Waiting' = Waiting /\ GivenUp' = GivenUp
    BY <2>1, <2>2, HandsStill DEF Others, Failing
  <2>4. QED
    BY <2>2, <2>3 DEF Promised!Next, Promised!Reopen
<1>6. ASSUME NEW m \in Runs, NEW r \in Readers, Send(m, r) PROVE Promised!Mail(r)
  <2>1. Take(m, r, "pull") /\ Deliver(r) /\ UNCHANGED document /\ state' = state
    BY <1>6 DEF Send, document
  <2>2. r \in Waiting /\ Waiting' = Waiting \ {r} /\ mails[r] = 0 /\ GivenUp' = GivenUp
    BY <2>1, TakesWaiting
  <2>3. mails' = [mails EXCEPT ![r] = mails[r] + 1]
    BY <2>1, <2>2 DEF Deliver, TypeOK
  <2>4. QED
    BY <2>1, <2>2, <2>3 DEF Promised!Mail
<1>7. ASSUME NEW m \in Runs, NEW r \in Readers, SendFails(m, r) PROVE Promised!GiveUp(r)
  <2>1. Take(m, r, "pull failed") /\ UNCHANGED document /\ state' = state /\ mails' = mails
    BY <1>7 DEF SendFails, document
  <2>2. r \in Waiting /\ Waiting' = Waiting \ {r} /\ GivenUp' = GivenUp \cup {r}
    BY <2>1, TakesWaiting
  <2>3. QED
    BY <2>1, <2>2 DEF Promised!GiveUp
<1>8. ASSUME NEW m \in Runs, Pull(m) \/ PushSent(m) \/ PushFailed(m)
      PROVE  [Promised!Next]_Promised!vars
  <2>1. state' = state
    BY <1>8 DEF Pull, PushSent, PushFailed
  <2>2. QED
    BY <1>8, <2>1, MovesOn DEF Promised!vars
<1>9. ASSUME NEW m \in Runs, Keep(m) PROVE Promised!Reopen
  <2>1. state' = "running"
    BY <1>9 DEF Keep
  <2>2. QED
    BY <1>9, <2>1, MovesOn DEF Promised!Reopen
<1>10. ASSUME NEW m \in Runs, Finish(m) PROVE Promised!Complete
  <2>1. /\ job[m].at = "next" /\ job[m].reader = NoReader /\ job[m].todo = {}
        /\ queued' = queued /\ failed' = failed /\ mails' = mails /\ state' = "complete"
        /\ Return(m)
    BY <1>10 DEF Finish, TypeOK
  <2>2. /\ job'[m].at = "idle" /\ job'[m].reader = NoReader
        /\ \A n \in Runs \ {m} : job'[n] = job[n]
    BY <2>1 DEF Return, Idle, TypeOK
  <2>3. \A n \in Runs : /\ job'[n].reader = job[n].reader
                        /\ job'[n].at \in Failing <=> job[n].at \in Failing
    BY <2>1, <2>2 DEF Failing
  <2>4. Waiting = {}
    BY <2>1 DEF Sound, Owned, Waiting
  <2>5. Waiting' = Waiting /\ GivenUp' = GivenUp
    BY <2>1, <2>3, HandsStill
  <2>6. QED
    BY <2>1, <2>5, <2>4 DEF Promised!Complete
<1>11. ASSUME NEW m \in Runs, NEW r \in Readers,
              SendUnconfirmed(m, r) \/ UpdateFails(m) \/ CallFails(m) \/ Abort(m)
       PROVE  FALSE
  BY <1>11 DEF SendUnconfirmed, UpdateFails, CallFails, Abort, Failure
<1>12. ASSUME NEW m \in Runs, UpdateFails(m) \/ CallFails(m) \/ Abort(m) PROVE FALSE
  BY <1>12 DEF UpdateFails, CallFails, Abort, Failure
<1>13. ASSUME NEW ms, Kill(ms) PROVE FALSE
  BY <1>13 DEF Kill
<1>14. QED
  BY <1>1, <1>2, <1>3, <1>4, <1>5, <1>6, <1>7, <1>8, <1>9, <1>10, <1>11, <1>12, <1>13
  DEF Next, Step, Promised!Next

(* A mail run implements the abstract one (mailer/touchbase.js 462-490,    *)
(* frontend/routes/mails.js 97-136): undisturbed, each step mails a reader *)
(* who waits or gives one up, queues readers who were not mailed, or is    *)
(* not visible; a complete run has nobody waiting.                         *)
THEOREM MailRunKeepsMailing == Spec => MailingKept
<1>1. Init => Promised!Init
  <2>1. ASSUME Init PROVE Waiting = {} /\ GivenUp = {}
    BY <2>1 DEF Init, Idle, Waiting, GivenUp
  <2>2. QED
    BY <2>1 DEF Init, Promised!Init
<1>2. TypeOK /\ TypeOK' /\ Orderly /\ [Next]_vars => [Promised!Next]_Promised!vars
  <2> SUFFICES ASSUME TypeOK, TypeOK', Orderly, [Next]_vars
               PROVE  [Promised!Next]_Promised!vars
    OBVIOUS
  <2>1. CASE excuses' # {}
    BY <2>1, DisturbedStep DEF Promised!Next
  <2>2. CASE excuses' = {}
    <3>1. excuses = {}
      BY <2>2, Remembered
    <3>2. Sound
      BY <3>1 DEF Orderly, Sound
    <3>3. QED
      BY <2>2, <3>1, <3>2, MailingStep
  <2>3. QED
    BY <2>1, <2>2
<1>3. QED
  BY <1>1, <1>2, TypeCorrect, Undisturbed, PTL DEF Spec, MailingKept, Promised!Spec
=============================================================================
