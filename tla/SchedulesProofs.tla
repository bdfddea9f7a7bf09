-------------------------- MODULE SchedulesProofs ---------------------------
(***************************************************************************)
(* What runs on a schedule, for any number of calls, failures, reports and *)
(* deletions: the lock of a pipeline (PipelineRunner), and the documents   *)
(* of a scheduled report (ReportSchedule).                                 *)
(***************************************************************************)
EXTENDS PipelineRunner, ReportSchedule, SequenceTheorems, FiniteSetTheorems,
        TLAPS

-----------------------------------------------------------------------------
(* The lock of a pipeline.                                                 *)

(* Every step is one of these.                                             *)
LEMMA StepCases ==
    ASSUME Next
    PROVE  \/ \E c \in Calls : Start(c) \/ Read(c) \/ Lock(c) \/ Unlock(c) \/ Catch(c)
                               \/ CallFails(c) \/ Succeed(c) \/ StageFails(c)
           \/ Hour \/ CheckReads \/ CheckUnlocks \/ CheckFails
           \/ \E cs \in SUBSET Calls : Die(cs)
<1>1. Daemon \in SUBSET Calls /\ \A c \in Cli : {c} \in SUBSET Calls
  BY DEF Calls
<1>2. QED
  BY <1>1 DEF Next, Proceed, Work, Health

(* The initial states have their types.                                    *)
LEMMA InitTypeOK == Init => TypeOK
<1>1. Init => failures \in 0..MaxFailures
  BY FailureAssumption DEF Init
<1>2. Init => running \in BOOLEAN /\ old \in BOOLEAN
  BY DEF Init
<1>3. QED
  BY <1>1, <1>2 DEF Init, TypeOK, Places

(* The type invariant is inductive.                                        *)
LEMMA NextTypeOK == TypeOK /\ [Next]_vars => TypeOK'
<1> SUFFICES ASSUME TypeOK, [Next]_vars PROVE TypeOK'
  OBVIOUS
<1>0. MayFail => failures' \in 0..MaxFailures
  <2>1. failures \in 0..MaxFailures
    BY DEF TypeOK
  <2>2. QED
    BY <2>1, FailureAssumption DEF MayFail
<1> USE DEF TypeOK, Places, document, Goto
<1>1. ASSUME NEW c \in Calls,
             Start(c) \/ Read(c) \/ Lock(c) \/ Succeed(c) \/ StageFails(c)
      PROVE  TypeOK'
  BY <1>1 DEF Start, Read, Lock, Succeed, StageFails
<1>2. ASSUME NEW c \in Calls, Unlock(c) \/ Catch(c) PROVE TypeOK'
  BY <1>2 DEF Unlock, Catch, Clear
<1>3. ASSUME NEW c \in Calls, CallFails(c) PROVE TypeOK'
  BY <1>0, <1>3 DEF CallFails
<1>4. CASE Hour \/ CheckReads \/ CheckUnlocks
  BY <1>4 DEF Hour, CheckReads, CheckUnlocks
<1>5. CASE CheckFails
  BY <1>0, <1>5 DEF CheckFails
<1>6. ASSUME NEW cs \in SUBSET Calls, Die(cs) PROVE TypeOK'
  BY <1>0, <1>6 DEF Die
<1>7. CASE UNCHANGED vars
  BY <1>7 DEF vars
<1>8. QED
  BY <1>1, <1>2, <1>3, <1>4, <1>5, <1>6, <1>7, StepCases

(* Every variable keeps its type.                                          *)
THEOREM PipelineTypeCorrect == Spec => []TypeOK
<1>1. QED
  BY InitTypeOK, NextTypeOK, PTL DEF Spec

-----------------------------------------------------------------------------
(* Without a race, an unlocked or a stolen flag, the flag is a lock: one   *)
(* call at most has passed the check and not finished, and the flag is set *)
(* as long as that call holds it.                                          *)
Undisturbed == excuses \cap {"race", "unlocked", "stolen"} = {}

Claimants == {c \in Calls : call[c] \in {"lock", "work", "unlock", "catch"}}

Exclusive ==
    Undisturbed => /\ \A c, d \in Claimants : c = d
                   /\ Holders # {} => running

(* Every step keeps the claimants of the flag apart.                       *)
LEMMA NextExclusive == TypeOK /\ Exclusive /\ [Next]_vars => Exclusive'
<1> SUFFICES ASSUME TypeOK, Exclusive, [Next]_vars, Undisturbed'
             PROVE  /\ \A c, d \in Claimants' : c = d
                    /\ Holders' # {} => running'
  BY DEF Exclusive
<1> USE DEF TypeOK, document, Goto, MayFail
<1>0. Undisturbed /\ (\A c, d \in Claimants : c = d) /\ (Holders # {} => running)
  <2>1. excuses \subseteq excuses'
    BY StepCases DEF Start, Read, Lock, Unlock, Catch, Clear, CallFails, Succeed,
       StageFails, Hour, CheckReads, CheckUnlocks, CheckFails, Die, vars
  <2>2. QED
    BY <2>1 DEF Exclusive, Undisturbed
(* A step of a call that has passed the check, or of no call, leaves no    *)
(* more calls behind the check than there were.                            *)
<1>1. ASSUME NEW c \in Calls, Start(c) PROVE Claimants' = Claimants /\ Holders' = Holders
  BY <1>1 DEF Start, Claimants, Holders
<1>2. ASSUME NEW c \in Calls, Read(c)
      PROVE  \/ Claimants' = Claimants /\ Holders' = Holders
             \/ Claimants' = {c} /\ Holders' = {}
  <2>1. CASE running
    BY <1>2, <2>1 DEF Read, Claimants, Holders
  <2>2. CASE ~running
    <3>1. Claimants = {} /\ call' = [call EXCEPT ![c] = "lock"]
      BY <1>0, <1>2, <2>2 DEF Read, Claimants, Holders, Undisturbed
    <3>2. \A d \in Calls \ {c} : call'[d] \notin {"lock", "work", "unlock", "catch"}
      BY <3>1 DEF Claimants
    <3>3. QED
      BY <3>1, <3>2 DEF Claimants, Holders
  <2>3. QED
    BY <2>1, <2>2
<1>3. ASSUME NEW c \in Calls, Lock(c) PROVE Claimants' = Claimants /\ running'
  BY <1>3 DEF Lock, Claimants
<1>4. ASSUME NEW c \in Calls, Succeed(c) \/ StageFails(c)
      PROVE  Claimants' = Claimants /\ Holders' = Holders /\ running' = running
  BY <1>4 DEF Succeed, StageFails, Claimants, Holders
<1>5. ASSUME NEW c \in Calls, Unlock(c) \/ Catch(c)
      PROVE  Claimants' \subseteq Claimants /\ Holders' = {}
  <2>1. call' = [call EXCEPT ![c] = "idle"]
    BY <1>5 DEF Unlock, Catch, Clear
  <2>2. Holders \subseteq {c}
    <3>1. CASE call[c] = "catch unlocked"
      BY <1>5, <3>1 DEF Unlock, Catch, Clear, Undisturbed
    <3>2. CASE call[c] \in {"unlock", "catch"}
      BY <1>0, <3>2 DEF Claimants, Holders
    <3>3. QED
      BY <1>5, <3>1, <3>2 DEF Unlock, Catch
  <2>3. QED
    BY <2>1, <2>2 DEF Claimants, Holders
<1>6. ASSUME NEW c \in Calls, CallFails(c)
      PROVE  Claimants' \subseteq Claimants /\ (Holders' # {} => running')
  <2>1. Claimants' \subseteq Claimants
    BY <1>6 DEF CallFails, Claimants
  <2>2. CASE running' = running /\ Holders' \subseteq Holders
    BY <1>0, <2>1, <2>2
  <2>3. CASE running'
    BY <2>1, <2>3
  <2>4. CASE call[c] = "unlock" /\ call' = [call EXCEPT ![c] = "catch unlocked"]
    <3>1. ASSUME NEW d \in Calls PROVE d \notin Holders'
      <4>1. CASE d = c
        BY <2>4, <4>1 DEF Holders
      <4>2. CASE d # c
        BY <1>0, <2>4, <4>2 DEF Holders, Claimants
      <4>3. QED
        BY <4>1, <4>2
    <3>2. QED
      BY <2>1, <3>1 DEF Holders
  <2>5. QED
    BY <1>6, <2>1, <2>2, <2>3, <2>4 DEF CallFails, Holders
<1>7. CASE Hour \/ CheckReads \/ CheckFails \/ UNCHANGED vars
  BY <1>0, <1>7 DEF Hour, CheckReads, CheckFails, vars, Claimants, Holders
<1>8. CASE CheckUnlocks
  BY <1>0, <1>8 DEF CheckUnlocks, Claimants, Holders, Undisturbed
<1>9. ASSUME NEW cs \in SUBSET Calls, Die(cs)
      PROVE  Claimants' \subseteq Claimants /\ Holders' \subseteq Holders /\ running' = running
  BY <1>9 DEF Die, Claimants, Holders
<1>10. ASSUME NEW c \in Calls, Start(c) \/ Read(c) PROVE running' = running
  BY <1>10 DEF Start, Read
<1>11. QED
  BY <1>0, <1>1, <1>2, <1>3, <1>4, <1>5, <1>6, <1>7, <1>8, <1>9, <1>10, StepCases

(* The flag keeps two runs of a pipeline apart, but for the races named.   *)
THEOREM OneRun == Spec => []OneRunUndisturbed
<1>1. Init => Exclusive
  BY DEF Init, Exclusive, Holders, Claimants
<1>2. Exclusive => OneRunUndisturbed
  BY DEF Exclusive, Undisturbed, OneRunUndisturbed, Claimants, Executing
<1>3. QED
  BY <1>1, <1>2, NextExclusive, PipelineTypeCorrect, PTL DEF Spec

-----------------------------------------------------------------------------
(* A step of the runner begins a run, ends some, breaks the lock or does   *)
(* none of that.                                                           *)
Broken == excuses \cap {"race", "unlocked", "stolen"} # {}

LEMMA StepKeepsPromise ==
    TypeOK /\ Exclusive /\ [Next]_vars => [Promise!Next]_(Promise!vars)
<1> SUFFICES ASSUME TypeOK, Exclusive, [Next]_vars
             PROVE  \/ \E c \in Calls : Promise!Begin(c)
                    \/ \E cs \in SUBSET Calls : Promise!End(cs)
                    \/ Promise!Break
                    \/ Executing' = Executing /\ Broken' = Broken
  BY DEF Promise!Next, Promise!vars, Broken
<1> USE DEF TypeOK, document, Goto
<1>1. ASSUME Executing' = Executing, Broken' = Broken \/ Broken'
      PROVE  Promise!Break \/ (Executing' = Executing /\ Broken' = Broken)
  BY <1>1 DEF Promise!Break, Broken
<1>2. ASSUME NEW c \in Calls, Start(c) PROVE Executing' = Executing /\ Broken' = Broken
  BY <1>2 DEF Start, Executing, Broken
<1>3. ASSUME NEW c \in Calls, Read(c)
      PROVE  Executing' = Executing /\ (Broken' = Broken \/ Broken')
  BY <1>3 DEF Read, Executing, Broken
<1>4. ASSUME NEW c \in Calls, Lock(c) PROVE Promise!Begin(c)
  <2>1. Executing' = Executing \cup {c} /\ Broken' = Broken
    BY <1>4 DEF Lock, Executing, Broken
  <2>2. Executing = {} \/ Broken
    <3>1. Undisturbed => \A d \in Executing : d = c
      BY <1>4 DEF Lock, Exclusive, Claimants, Executing
    <3>2. c \notin Executing
      BY <1>4 DEF Lock, Executing
    <3>3. QED
      BY <3>1, <3>2 DEF Undisturbed, Broken
  <2>3. QED
    BY <2>1, <2>2 DEF Promise!Begin, Broken
<1>5. ASSUME NEW c \in Calls, Succeed(c) \/ StageFails(c) PROVE Promise!End({c})
  <2>1. Executing' = Executing \ {c} /\ Broken' = Broken
    BY <1>5 DEF Succeed, StageFails, Executing, Broken
  <2>2. QED
    BY <2>1 DEF Promise!End, Broken
<1>6. ASSUME NEW c \in Calls, Unlock(c) \/ Catch(c)
      PROVE  Executing' = Executing /\ (Broken' = Broken \/ Broken')
  BY <1>6 DEF Unlock, Catch, Clear, Executing, Broken
<1>7. ASSUME NEW c \in Calls, CallFails(c)
      PROVE  Executing' = Executing /\ Broken' = Broken
  BY <1>7 DEF CallFails, Executing, Broken
<1>8. CASE Hour \/ CheckReads \/ CheckFails \/ UNCHANGED vars
  BY <1>8 DEF Hour, CheckReads, CheckFails, vars, Executing, Broken
<1>9. ASSUME CheckUnlocks PROVE Executing' = Executing /\ (Broken' = Broken \/ Broken')
  BY <1>9 DEF CheckUnlocks, Executing, Broken
<1>10. ASSUME NEW cs \in SUBSET Calls, Die(cs) PROVE Promise!End(cs)
  <2>1. Executing' = Executing \ cs /\ Broken' = Broken
    BY <1>10 DEF Die, Executing, Broken
  <2>2. QED
    BY <2>1 DEF Promise!End, Broken
<1>11. QED
  BY <1>1, <1>2, <1>3, <1>4, <1>5, <1>6, <1>7, <1>8, <1>9, <1>10, StepCases

(* The runner implements the lock: runs begin one after the other until    *)
(* one of the named races breaks it (pipeline/index.js 21-72).             *)
THEOREM RunsAreInTurn == Spec => RunsInTurn
<1>1. Init => Exclusive
  BY DEF Init, Exclusive, Holders, Claimants
<1>2. Init => Promise!Init
  BY DEF Init, Promise!Init, Executing
<1>3. QED
  BY <1>1, <1>2, InitTypeOK, NextTypeOK, NextExclusive, StepKeepsPromise, PTL
  DEF Spec, RunsInTurn, Promise!Spec

-----------------------------------------------------------------------------
(* Every step leaves a flag that is set to a call that will clear it.      *)
LEMMA NextNoOrphan == TypeOK /\ NoOrphanLock /\ [Next]_vars => NoOrphanLock'
<1> SUFFICES ASSUME TypeOK, NoOrphanLock, [Next]_vars, "orphaned" \notin excuses', running'
             PROVE  Holders' # {}
  BY DEF NoOrphanLock
<1> USE DEF TypeOK, Holders, document, Goto, MayFail
<1>1. ASSUME NEW c \in Calls, Start(c) \/ Read(c) \/ Succeed(c) \/ StageFails(c)
      PROVE  Holders' = Holders /\ excuses' = excuses /\ running' = running
  BY <1>1 DEF Start, Read, Succeed, StageFails
<1>2. ASSUME NEW c \in Calls, Lock(c) PROVE c \in Holders'
  BY <1>2 DEF Lock
<1>3. ASSUME NEW c \in Calls, Unlock(c) \/ Catch(c) PROVE FALSE
  BY <1>3 DEF Unlock, Catch, Clear
<1>4. ASSUME NEW c \in Calls, CallFails(c) PROVE Holders' # {}
  <2>1. CASE call[c] = "lock" /\ call' = [call EXCEPT ![c] = "catch"]
    <3>1. c \in Holders'
      BY <2>1
    <3>2. QED
      BY <3>1
  <2>2. CASE running' = running /\ Holders \subseteq Holders'
    BY <1>4, <2>2 DEF CallFails, NoOrphanLock
  <2>3. QED
    <3>1. call[c] # "catch"
      BY <1>4 DEF CallFails
    <3>2. QED
      BY <1>4, <2>1, <2>2, <3>1 DEF CallFails
<1>5. CASE Hour \/ CheckReads \/ CheckUnlocks \/ CheckFails \/ UNCHANGED vars
  BY <1>5 DEF Hour, CheckReads, CheckUnlocks, CheckFails, vars, NoOrphanLock
<1>6. ASSUME NEW cs \in SUBSET Calls, Die(cs)
      PROVE  Holders' = Holders /\ excuses' = excuses /\ running' = running
  BY <1>6 DEF Die
<1>7. QED
  BY <1>1, <1>2, <1>3, <1>4, <1>5, <1>6, StepCases DEF NoOrphanLock

(* A failed run does not leave its pipeline locked.                        *)
THEOREM NoneOrphaned == Spec => []NoOrphanLock
<1>1. Init => NoOrphanLock
  BY DEF Init, NoOrphanLock
<1>2. QED
  BY <1>1, NextNoOrphan, PipelineTypeCorrect, PTL DEF Spec

-----------------------------------------------------------------------------
(* Scheduled reports.  ReportInv says how far a report has got: its mailer *)
(* is made once, before it (MailersAreOnce, Saved), and a deletion that    *)
(* has come to the mailer has deleted the report (Deleted).                *)

MailersAreOnce ==
    \A i, j \in DOMAIN documents : documents[i].id = documents[j].id => i = j

Saved ==
    \A r \in Reports :
        /\ save[r] \in {"idle", "mailer"} => r \notin Mailers
        /\ save[r] = "report" => r \in Mailers
        /\ save[r] \in {"idle", "mailer", "report"} =>
              r \notin reports /\ \A d \in Deletions : deletion[d].report # r

Deleted ==
    \A d \in Deletions :
        /\ deletion[d].at = "idle" <=> deletion[d].report = NoReport
        /\ deletion[d].at = "mailer" => deletion[d].report \notin reports

ReportInv == ReportTypeOK /\ MailersAreOnce /\ Saved /\ Deleted /\ OrphansExplained

Document == [id : Reports, params : BOOLEAN, cron : {"valid", "L"}]

-----------------------------------------------------------------------------
LEMMA Removed ==
    ASSUME NEW S, NEW s \in Seq(S), NEW i \in DOMAIN s
    PROVE  /\ RemoveAt(s, i) \in Seq(S)
           /\ Len(RemoveAt(s, i)) = Len(s) - 1
           /\ \A j \in 1..Len(s) - 1 : RemoveAt(s, i)[j] = s[IF j < i THEN j ELSE j + 1]
<1> DEFINE before == SubSeq(s, 1, i - 1)
           after == SubSeq(s, i + 1, Len(s))
<1>1. i \in 1..Len(s) /\ Len(s) \in Nat /\ \A j \in 1..Len(s) : s[j] \in S
  BY ElementOfSeq, LenProperties
<1>2. before \in Seq(S) /\ Len(before) = i - 1 /\ \A j \in 1..i - 1 : before[j] = s[j]
  BY <1>1, SubSeqProperties
<1>3. after \in Seq(S) /\ Len(after) = Len(s) - i /\ \A j \in 1..Len(s) - i : after[j] = s[i + j]
  <2>1. \A j \in (i + 1)..Len(s) : s[j] \in S
    BY <1>1
  <2>2. after \in Seq(S) /\ Len(after) = (IF i + 1 <= Len(s) THEN Len(s) - (i + 1) + 1 ELSE 0)
    BY <1>1, <2>1, SubSeqProperties
  <2>3. \A j \in 1..Len(s) - (i + 1) + 1 : after[j] = s[(i + 1) + j - 1]
    BY <1>1, <2>1, SubSeqProperties
  <2> QED
    BY <1>1, <2>2, <2>3
<1> HIDE DEF before, after
<1>4. /\ before \o after \in Seq(S)
      /\ Len(before \o after) = Len(s) - 1
      /\ \A j \in 1..Len(s) - 1 :
            (before \o after)[j] = IF j <= i - 1 THEN before[j] ELSE after[j - (i - 1)]
  <2>1. before \in Seq(S) /\ after \in Seq(S)
    BY <1>2, <1>3
  <2>2. /\ before \o after \in Seq(S)
        /\ Len(before \o after) = Len(before) + Len(after)
        /\ \A j \in 1..Len(before) + Len(after) : (before \o after)[j] =
              IF j <= Len(before) THEN before[j] ELSE after[j - Len(before)]
    BY <2>1, ConcatProperties, Zenon
  <2>3. Len(before) = i - 1 /\ Len(before) + Len(after) = Len(s) - 1
    BY <1>1, <1>2, <1>3
  <2> QED
    BY <2>2, <2>3, Zenon
<1>5. \A j \in 1..Len(s) - 1 : (before \o after)[j] = s[IF j < i THEN j ELSE j + 1]
  <2> TAKE j \in 1..Len(s) - 1
  <2>1. CASE j < i
    <3>1. j \in 1..i - 1 /\ j <= i - 1
      BY <1>1, <2>1
    <3> QED
      BY <1>2, <1>4, <2>1, <3>1
  <2>2. CASE ~(j < i)
    <3>1. /\ j - (i - 1) \in 1..Len(s) - i /\ ~(j <= i - 1)
          /\ i + (j - (i - 1)) = j + 1
      BY <1>1, <2>2
    <3> QED
      BY <1>3, <1>4, <2>2, <3>1
  <2> QED
    BY <2>1, <2>2
<1> QED
  BY <1>4, <1>5 DEF RemoveAt, before, after

(* The steps of the schedule and those that leave the documents alone.     *)
LEMMA SameMailers == UNCHANGED documents => Mailers' = Mailers
BY DEF Mailers

LEMMA MailerPosted ==
    ASSUME ReportInv, NEW r \in Reports, PostMailer(r)
    PROVE  Mailers' = Mailers \cup {r} /\ MailersAreOnce' /\ documents' \in Seq(Document)
<1> DEFINE n == Len(documents) + 1
<1>1. documents \in Seq(Document) /\ Mailer(r) \in Document /\ Mailer(r).id = r
  BY DEF ReportInv, ReportTypeOK, ScheduleTypeOK, Mailer, Document
<1>2. documents' = Append(documents, Mailer(r)) /\ r \notin Mailers
  BY DEF PostMailer, ReportInv, Saved
<1>3. /\ documents' \in Seq(Document)
      /\ DOMAIN documents = 1..(n - 1) /\ n \in Nat \ {0} /\ DOMAIN documents' = 1..n
      /\ \A i \in DOMAIN documents : documents'[i] = documents[i]
      /\ documents'[n].id = r
  BY <1>1, <1>2, AppendProperties, LenProperties
<1> HIDE DEF n
<1>4. DOMAIN documents' = DOMAIN documents \cup {n}
  BY <1>3
<1>5. Mailers' = Mailers \cup {r}
  BY <1>3, <1>4 DEF Mailers
<1>6. MailersAreOnce'
  BY <1>2, <1>3, <1>4 DEF ReportInv, MailersAreOnce, Mailers
<1> QED
  BY <1>3, <1>5, <1>6

LEMMA MailerDeleted ==
    ASSUME ReportInv, NEW d \in Deletions, DeleteMailer(d)
    PROVE  /\ Mailers' = Mailers \ {deletion[d].report}
           /\ MailersAreOnce' /\ documents' \in Seq(Document)
<1>0. documents \in Seq(Document)
  BY DEF ReportInv, ReportTypeOK, ScheduleTypeOK, Document
<1>1. CASE deletion[d].report \notin Mailers /\ UNCHANGED documents
  BY <1>0, <1>1 DEF ReportInv, MailersAreOnce, Mailers
<1>2. ASSUME NEW i \in DOMAIN documents, documents[i].id = deletion[d].report,
             documents' = RemoveAt(documents, i)
      PROVE  /\ Mailers' = Mailers \ {deletion[d].report}
             /\ MailersAreOnce' /\ documents' \in Seq(Document)
  <2> DEFINE from(j) == IF j < i THEN j ELSE j + 1
  <2>1. DOMAIN documents = 1..Len(documents) /\ Len(documents) \in Nat
    BY <1>0, LenProperties
  <2>2. /\ documents' \in Seq(Document) /\ Len(documents') = Len(documents) - 1
        /\ \A j \in 1..Len(documents) - 1 : documents'[j] = documents[from(j)]
    BY <1>0, <1>2, Removed
  <2>3. DOMAIN documents' = 1..Len(documents) - 1
    BY <2>2, LenProperties
  <2>4. \A j \in DOMAIN documents' : from(j) \in DOMAIN documents \ {i}
    BY <2>1, <2>3
  <2>5. \A k \in DOMAIN documents \ {i} : \E j \in DOMAIN documents' : from(j) = k
    <3> TAKE k \in DOMAIN documents \ {i}
    <3>1. CASE k < i
      BY <2>1, <2>3, <3>1
    <3>2. CASE k > i
      <4>1. k - 1 \in DOMAIN documents' /\ from(k - 1) = k
        BY <2>1, <2>3, <3>2
      <4> QED
        BY <4>1
    <3> QED
      BY <2>1, <3>1, <3>2
  <2>6. \A j, k \in DOMAIN documents' : from(j) = from(k) => j = k
    BY <2>1, <2>3
  <2>7. \A j \in DOMAIN documents' : documents'[j] = documents[from(j)]
    BY <2>2, <2>3
  <2> HIDE DEF from
  <2>8. MailersAreOnce'
    BY <2>4, <2>6, <2>7 DEF ReportInv, MailersAreOnce
  <2>9. Mailers' = {documents[k].id : k \in DOMAIN documents \ {i}}
    BY <2>4, <2>5, <2>7 DEF Mailers
  <2>10. {documents[k].id : k \in DOMAIN documents \ {i}} = Mailers \ {deletion[d].report}
    BY <1>2 DEF ReportInv, MailersAreOnce, Mailers
  <2> QED
    BY <2>2, <2>8, <2>9, <2>10
<1> QED
  BY <1>1, <1>2 DEF DeleteMailer

LEMMA ParamsPut ==
    ASSUME ReportInv, NEW r \in Reports, PutParams(r)
    PROVE  Mailers' = Mailers /\ MailersAreOnce' /\ documents' \in Seq(Document)
<1>1. documents \in Seq(Document)
  BY DEF ReportInv, ReportTypeOK, ScheduleTypeOK, Document
<1>2. /\ DOMAIN documents = 1..Len(documents) /\ Len(documents) \in Nat
      /\ \A i \in DOMAIN documents : documents[i] \in Document
  BY <1>1, LenProperties, ElementOfSeq
<1>3. documents' = [i \in DOMAIN documents |->
                      IF documents[i].id = r THEN [documents[i] EXCEPT !.params = TRUE]
                      ELSE documents[i]]
  BY DEF PutParams
<1>4. \A i \in DOMAIN documents : documents'[i] \in Document /\ documents'[i].id = documents[i].id
  BY <1>2, <1>3 DEF Document
<1>5. documents' \in [1..Len(documents) -> Document]
  BY <1>2, <1>3, <1>4
<1>6. documents' \in Seq(Document)
  BY <1>2, <1>5, SeqDef
<1>7. DOMAIN documents' = DOMAIN documents
  BY <1>3
<1>8. Mailers' = Mailers
  BY <1>4, <1>7 DEF Mailers
<1>9. MailersAreOnce'
  BY <1>4, <1>7 DEF ReportInv, MailersAreOnce
<1> QED
  BY <1>6, <1>8, <1>9

(* What the schedule may have loaded is no longer than what was there.     *)
LEMMA Scheduled ==
    ASSUME NEW S, NEW docs \in Seq(S)
    PROVE  Schedulable(docs) \subseteq S
<1>1. \A i \in DOMAIN docs : docs[i] \in S
  BY ElementOfSeq, LenProperties
<1> QED
  BY <1>1 DEF Schedulable

LEMMA ScheduledIsFinite ==
    ASSUME NEW S, NEW docs \in Seq(S)
    PROVE  Cardinality(Schedulable(docs)) \in Nat
<1> DEFINE I == {j \in DOMAIN docs : \A k \in 1..j : docs[k].cron = "valid"}
<1>1. IsFiniteSet(DOMAIN docs)
  BY LenProperties, FS_Interval
<1>2. IsFiniteSet(I)
  BY <1>1, FS_Subset
<1>3. IsFiniteSet({docs[i] : i \in I})
  <2> HIDE DEF I
  <2>1. [i \in I |-> docs[i]] \in Surjection(I, {docs[i] : i \in I})
    BY DEF Surjection
  <2> QED
    BY <1>2, <2>1, FS_Surjection
<1> QED
  BY <1>3, FS_CardinalityType DEF Schedulable

(* The steps of the mailer process.                                        *)
MailerTyped == mailer_up \in BOOLEAN /\ known \in Nat /\ stuck \in BOOLEAN

LEMMA MailerSteps ==
    ASSUME ScheduleTypeOK(Document), MailerTyped, MailerNext
    PROVE  UNCHANGED <<documents, user>> /\ ScheduleTypeOK(Document)' /\ MailerTyped'
<1> USE DEF ScheduleTypeOK, MailerTyped, mailer
<1> DEFINE Goal == UNCHANGED <<documents, user>> /\ ScheduleTypeOK(Document)' /\ MailerTyped'
<1> DEFINE Pending == [under_way : BOOLEAN, answer : Seq(Document)]
<1>1. NoLoad \in Pending
  BY EmptySeq DEF NoLoad
<1>2. \A l \in Loads : load[l].answer \in Seq(Document)
  OBVIOUS
<1>3. Mishap => mishaps' \in 0..MaxMishaps
  BY MishapAssumption DEF Mishap
<1>4. ASSUME NEW l \in Loads, FetchMailers(l) PROVE Goal
  BY <1>4 DEF FetchMailers, Fetch
<1>5. ASSUME NEW l \in Loads, FetchMailersFails(l) PROVE Goal
  BY <1>1, <1>3, <1>5 DEF FetchMailersFails, FetchFails
<1>6. ASSUME NEW l \in Loads, ReloadMailers(l) PROVE Goal
  <2>1. PICK new : /\ new = Schedulable(load[l].answer)
                   /\ new \subseteq Document /\ Cardinality(new) \in Nat
    BY <1>2, Scheduled, ScheduledIsFinite
  <2>2. PICK made \in SUBSET Document : Reload(l, made)
    BY <1>6, <2>1 DEF ReloadMailers
  <2>3. UNCHANGED documents /\ ScheduleTypeOK(Document)'
    BY <1>1, <1>2, <2>2 DEF Reload
  <2>4. known' \in {known, Cardinality(new)} \/ (known # 0 /\ known' = known - 1)
    BY <1>6, <2>1 DEF ReloadMailers
  <2>5. UNCHANGED <<user, mailer_up>> /\ stuck' \in BOOLEAN
    BY <1>6 DEF ReloadMailers
  <2> QED
    BY <2>1, <2>3, <2>4, <2>5
<1>7. CASE MailerDies
  BY <1>1, <1>3, <1>7, EmptySeq DEF MailerDies, Restart
<1>8. CASE MailerStarts
  BY <1>8 DEF MailerStarts, scheduler
<1> QED
  BY <1>4, <1>5, <1>6, <1>7, <1>8 DEF MailerNext

-----------------------------------------------------------------------------
LEMMA ReportInitially == ReportInit => ReportInv
<1> SUFFICES ASSUME ReportInit PROVE ReportInv
  OBVIOUS
<1> USE DEF ReportInit, ScheduleInit
<1>1. Mailers = {}
  BY DEF Mailers
<1>2. ReportTypeOK
  <2>1. ScheduleTypeOK(Document)
    BY MishapAssumption, EmptySeq DEF ScheduleTypeOK, NoLoad
  <2> QED
    BY <2>1 DEF ReportTypeOK, Document, Done
<1>3. MailersAreOnce
  BY DEF MailersAreOnce
<1>4. Saved
  BY <1>1, ReportAssumption DEF Saved, Done
<1>5. Deleted
  BY DEF Deleted, Done
<1> QED
  BY <1>1, <1>2, <1>3, <1>4, <1>5 DEF ReportInv, OrphansExplained

(* The steps that leave the documents alone keep the schedule's type.      *)
LEMMA ScheduleKept ==
    ScheduleTypeOK(Document) /\ UNCHANGED <<documents, scheduler>> => ScheduleTypeOK(Document)'
BY DEF ScheduleTypeOK, scheduler

LEMMA ScheduleKeptByDocuments ==
    ASSUME ScheduleTypeOK(Document), documents' \in Seq(Document), UNCHANGED scheduler
    PROVE  ScheduleTypeOK(Document)'
BY DEF ScheduleTypeOK, scheduler

(* Without the types of the documents, which the lemmas above are about.   *)
Typed ==
    /\ reports \subseteq Reports
    /\ save \in [Reports -> {"idle", "mailer", "report", "params", "done"}]
    /\ deletion \in [Deletions -> [at : {"idle", "report", "mailer"},
                                   report : Reports \cup {NoReport}]]
    /\ broken \subseteq Reports

LEMMA TypeSplit == ReportTypeOK <=> ScheduleTypeOK(Document) /\ Typed /\ MailerTyped
BY DEF ReportTypeOK, Typed, MailerTyped, Document

(* The rest of the invariant, over the mailers rather than the documents.  *)
Rest == Typed /\ Saved /\ Deleted /\ OrphansExplained

LEMMA SavePreserves ==
    ASSUME Rest, NEW r \in Reports,
           \/ Save(r) /\ Mailers' = Mailers
           \/ PostMailer(r) /\ Mailers' = Mailers \cup {r}
           \/ PostReport(r) /\ Mailers' = Mailers
           \/ PutParams(r) /\ Mailers' = Mailers
           \/ SaveBreaksOff(r) /\ Mailers' = Mailers
    PROVE  Rest'
<1> USE DEF Rest
<1>0. save \in [Reports -> {"idle", "mailer", "report", "params", "done"}]
  BY DEF Typed
<1>1. CASE Save(r) /\ Mailers' = Mailers
  BY <1>0, <1>1 DEF Save, Typed, Saved, Deleted, OrphansExplained
<1>2. CASE PostMailer(r) /\ Mailers' = Mailers \cup {r}
  BY <1>0, <1>2 DEF PostMailer, Typed, Saved, Deleted, OrphansExplained
<1>3. CASE PostReport(r) /\ Mailers' = Mailers
  BY <1>0, <1>3 DEF PostReport, Typed, Saved, Deleted, OrphansExplained
<1>4. CASE PutParams(r) /\ Mailers' = Mailers
  BY <1>0, <1>4 DEF PutParams, Typed, Saved, Deleted, OrphansExplained
<1>5. CASE SaveBreaksOff(r) /\ Mailers' = Mailers
  BY <1>0, <1>5 DEF SaveBreaksOff, Typed, Saved, Deleted, OrphansExplained
<1> QED
  BY <1>1, <1>2, <1>3, <1>4, <1>5

LEMMA DeletionPreserves ==
    ASSUME Rest, NEW d \in Deletions,
           \/ \E r \in Reports : ReadReport(d, r) /\ Mailers' = Mailers
           \/ DeleteReport(d) /\ Mailers' = Mailers
           \/ DeleteMailer(d) /\ Mailers' = Mailers \ {deletion[d].report}
           \/ DeletionBreaksOff(d) /\ Mailers' = Mailers
    PROVE  Rest'
<1> USE DEF Rest
<1>0. /\ \A e \in Deletions : deletion[e] \in [at : {"idle", "report", "mailer"},
                                               report : Reports \cup {NoReport}]
      /\ DOMAIN deletion = Deletions
  BY DEF Typed
<1>1. ASSUME NEW r \in Reports, ReadReport(d, r), Mailers' = Mailers
      PROVE  Rest'
  <2>1. deletion' = [deletion EXCEPT ![d] = [at |-> "report", report |-> r]]
    BY <1>1 DEF ReadReport
  <2>2. r \in reports /\ deletion[d].at = "idle" /\ r # NoReport
    BY <1>1, ReportAssumption DEF ReadReport
  <2>3. UNCHANGED <<reports, save, broken>>
    BY <1>1 DEF ReadReport
  <2>4. Typed'
    BY <2>1, <2>3 DEF Typed
  <2>5. Saved'
    BY <1>0, <1>1, <2>1, <2>2, <2>3 DEF Saved
  <2>6. Deleted'
    BY <1>0, <2>1, <2>2, <2>3 DEF Deleted
  <2>7. \A e \in Deletions, q \in Reports :
           deletion[e] = [at |-> "mailer", report |-> q] => deletion'[e] = deletion[e]
    BY <1>0, <2>1, <2>2
  <2>8. OrphansExplained'
    BY <1>1, <2>3, <2>7 DEF OrphansExplained
  <2> QED
    BY <2>4, <2>5, <2>6, <2>8
<1>2. CASE DeleteReport(d) /\ Mailers' = Mailers
  <2>1. PICK q \in Reports \cup {NoReport} : q = deletion[d].report
    BY <1>0
  <2>2. deletion[d] = [at |-> "report", report |-> q] /\ q \in Reports
    BY <1>0, <1>2, <2>1 DEF DeleteReport, Deleted
  <2>3. reports' = reports \ {q} /\ UNCHANGED <<save, broken>>
    BY <1>2, <2>1 DEF DeleteReport
  <2>4. PICK next : next = IF q \in reports THEN [at |-> "mailer", report |-> q]
                            ELSE [at |-> "idle", report |-> NoReport]
    OBVIOUS
  <2>. deletion' = [deletion EXCEPT ![d] = next]
    <3>1. [deletion[d] EXCEPT !.at = "mailer"] = [at |-> "mailer", report |-> q]
      BY <2>2
    <3> QED
      BY <1>0, <1>2, <2>2, <2>4, <3>1 DEF DeleteReport, Done
  <2>5. Typed'
    BY <2>2, <2>3, <2>4 DEF Typed
  <2>6. Saved'
    BY <1>0, <1>2, <2>1, <2>2, <2>3, <2>4, ReportAssumption DEF Saved
  <2>7. Deleted'
    BY <1>0, <2>2, <2>3, <2>4, ReportAssumption DEF Deleted
  <2>8. \A e \in Deletions, p \in Reports :
           deletion[e] = [at |-> "mailer", report |-> p] => deletion'[e] = deletion[e]
    BY <1>0, <2>2, <2>4
  <2>9. q \in reports => deletion'[d] = [at |-> "mailer", report |-> q]
    BY <1>0, <2>4
  <2> QED
    BY <1>2, <2>3, <2>5, <2>6, <2>7, <2>8, <2>9 DEF OrphansExplained
<1>3. CASE DeleteMailer(d) /\ Mailers' = Mailers \ {deletion[d].report}
  <2>1. PICK q \in Reports \cup {NoReport} : q = deletion[d].report
    BY <1>0
  <2>2. deletion[d] = [at |-> "mailer", report |-> q] /\ q \in Reports \ reports
    BY <1>0, <1>3, <2>1 DEF DeleteMailer, Deleted
  <2>3. UNCHANGED <<reports, save, broken>> /\ Mailers' = Mailers \ {q}
    BY <1>3, <2>1 DEF DeleteMailer
  <2>4. deletion' = [deletion EXCEPT ![d] = [at |-> "idle", report |-> NoReport]]
    BY <1>3 DEF DeleteMailer, Done
  <2>5. Typed'
    BY <2>3, <2>4 DEF Typed
  <2>6. Saved'
    BY <1>0, <2>2, <2>3, <2>4, ReportAssumption DEF Saved
  <2>7. Deleted'
    BY <1>0, <2>3, <2>4 DEF Deleted
  <2>8. \A e \in Deletions, p \in Reports \ {q} :
           deletion[e] = [at |-> "mailer", report |-> p] => deletion'[e] = deletion[e]
    BY <1>0, <2>2, <2>4
  <2> QED
    BY <2>2, <2>3, <2>5, <2>6, <2>7, <2>8 DEF OrphansExplained
<1>4. CASE DeletionBreaksOff(d) /\ Mailers' = Mailers
  <2>1. PICK q \in Reports \cup {NoReport} : q = deletion[d].report
    BY <1>0
  <2>2. q \in Reports
    BY <1>4, <2>1 DEF DeletionBreaksOff, Deleted
  <2>3. UNCHANGED <<reports, save>> /\ broken' = broken \cup {q}
    BY <1>4, <2>1 DEF DeletionBreaksOff
  <2>4. deletion' = [deletion EXCEPT ![d] = [at |-> "idle", report |-> NoReport]]
    BY <1>4 DEF DeletionBreaksOff, Done
  <2>5. Typed'
    BY <2>2, <2>3, <2>4 DEF Typed
  <2>6. Saved'
    BY <1>0, <1>4, <2>3, <2>4, ReportAssumption DEF Saved
  <2>7. Deleted'
    BY <1>0, <2>3, <2>4 DEF Deleted
  <2>8. \A e \in Deletions, p \in Reports \ {q} :
           deletion[e] = [at |-> "mailer", report |-> p] => deletion'[e] = deletion[e]
    BY <1>0, <2>1, <2>4
  <2> QED
    BY <1>4, <2>3, <2>5, <2>6, <2>7, <2>8 DEF OrphansExplained
<1> QED
  BY <1>1, <1>2, <1>3, <1>4

-----------------------------------------------------------------------------
LEMMA ReportStep == ReportInv /\ [ReportNext]_report_vars => ReportInv'
<1> SUFFICES ASSUME ReportInv, [ReportNext]_report_vars PROVE ReportInv'
  OBVIOUS
<1>0. ScheduleTypeOK(Document) /\ MailersAreOnce /\ Rest /\ MailerTyped
  BY TypeSplit DEF ReportInv, Rest
<1>a. MailerTyped'
  <2>1. CASE UNCHANGED mailer
    BY <1>0, <2>1 DEF mailer, MailerTyped
  <2>2. CASE MailerNext
    BY <1>0, <2>2, MailerSteps
  <2> QED
    BY <2>1, <2>2 DEF ReportNext, Save, PostMailer, PostReport, PutParams, SaveBreaksOff,
       ReadReport, DeleteReport, DeleteMailer, DeletionBreaksOff, report_vars
<1>1. SUFFICES ScheduleTypeOK(Document)' /\ MailersAreOnce' /\ Rest'
  BY <1>a DEF ReportInv, Rest, ReportTypeOK, Typed, MailerTyped, Document
<1>2. UNCHANGED documents => Mailers' = Mailers /\ MailersAreOnce'
  BY <1>0, SameMailers DEF MailersAreOnce
<1>3. ASSUME NEW r \in Reports,
             Save(r) \/ PostMailer(r) \/ PostReport(r) \/ PutParams(r) \/ SaveBreaksOff(r)
      PROVE  ScheduleTypeOK(Document)' /\ MailersAreOnce' /\ Rest'
  <2>1. UNCHANGED scheduler
    BY <1>3 DEF Save, PostMailer, PostReport, PutParams, SaveBreaksOff
  <2>2. CASE PostMailer(r)
    BY <1>0, <2>1, <2>2, MailerPosted, ScheduleKeptByDocuments, SavePreserves
  <2>3. CASE PutParams(r)
    BY <1>0, <2>1, <2>3, ParamsPut, ScheduleKeptByDocuments, SavePreserves
  <2>4. CASE Save(r) \/ PostReport(r) \/ SaveBreaksOff(r)
    <3>1. UNCHANGED documents
      BY <2>4 DEF Save, PostReport, SaveBreaksOff
    <3> QED
      BY <1>0, <1>2, <2>1, <2>4, <3>1, ScheduleKept, SavePreserves
  <2> QED
    BY <1>3, <2>2, <2>3, <2>4
<1>4. ASSUME NEW d \in Deletions,
             \/ \E r \in Reports : ReadReport(d, r)
             \/ DeleteReport(d) \/ DeleteMailer(d) \/ DeletionBreaksOff(d)
      PROVE  ScheduleTypeOK(Document)' /\ MailersAreOnce' /\ Rest'
  <2>1. UNCHANGED scheduler
    BY <1>4 DEF ReadReport, DeleteReport, DeleteMailer, DeletionBreaksOff
  <2>2. CASE DeleteMailer(d)
    BY <1>0, <2>1, <2>2, MailerDeleted, ScheduleKeptByDocuments, DeletionPreserves
  <2>3. CASE (\E r \in Reports : ReadReport(d, r)) \/ DeleteReport(d) \/ DeletionBreaksOff(d)
    <3>1. UNCHANGED documents
      BY <2>3 DEF ReadReport, DeleteReport, DeletionBreaksOff
    <3> QED
      BY <1>0, <1>2, <2>1, <2>3, <3>1, ScheduleKept, DeletionPreserves
  <2> QED
    BY <1>4, <2>2, <2>3
<1>5. Mailers' = Mailers /\ UNCHANGED user => Rest'
  BY <1>0 DEF Rest, Typed, Saved, Deleted, OrphansExplained, user
<1>6. CASE MailerNext
  BY <1>0, <1>2, <1>5, <1>6, MailerSteps
<1>7. CASE UNCHANGED report_vars
  BY <1>0, <1>2, <1>5, <1>7, ScheduleKept DEF report_vars
<1> QED
  BY <1>3, <1>4, <1>6, <1>7 DEF ReportNext

(* What holds of every reachable state: the types, that the mailer of a    *)
(* report is made once and before it, and that a deletion which deletes a  *)
(* mailer has deleted the report (scheduled_report.store.js 125-200).      *)
THEOREM ReportInvariance == ReportSpec => []ReportInv
<1> QED
  BY ReportInitially, ReportStep, PTL DEF ReportSpec

(* A report never lacks its mailer, and a mailer without a report is one   *)
(* being saved or deleted, or one whose calls broke off, for any number of *)
(* reports and of deletions of one report at once.                         *)
THEOREM OrphansAreExplained == ReportSpec => []OrphansExplained
<1>1. ReportInv => OrphansExplained
  BY DEF ReportInv
<1> QED
  BY <1>1, ReportInvariance, PTL
=============================================================================
