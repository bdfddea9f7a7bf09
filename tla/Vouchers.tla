------------------------------ MODULE Vouchers ------------------------------
(***************************************************************************)
(* The vouchers of one type and one month.  A voucher is given to a reader *)
(*   - when a mail with a voucher is sent: get_voucher, called by          *)
(*     run_transactional (mailer/touchbase.js 69-102, 417-461);            *)
(*   - by the frontend, to all readers of some segments or to one reader   *)
(*     (frontend/routes/voucher.js 131-184, reader.js 425-472);            *)
(*   - by a file of vouchers used elsewhere (voucher.js 57-116).           *)
(* The first two read the vouchers, choose, and write their choice by a    *)
(* later call; nothing makes that atomic.                                  *)
(***************************************************************************)
EXTENDS ReaderSet, Naturals

CONSTANTS
    Codes,        \* the vouchers
    Mails,        \* mails that can be under way at once
    Forms,        \* submissions of the assign form under way at once
    MaxUploads    \* bound on the used vouchers that are uploaded

Actors == Mails \cup Forms

ASSUME ActorAssumption == Mails \cap Forms = {}
ASSUME UploadAssumption == MaxUploads \in Nat

Nobody == "nobody"
ASSUME ReaderAssumption == Nobody \notin Readers

VARIABLES
    owner,       \* owner[v]: the reader_id of voucher v
    choice,      \* what each actor has chosen and not written yet: a set of
                 \* <<voucher, reader>>
    draft,       \* the mail each mail actor is about to send
    mailed,      \* <<voucher, reader>>: the vouchers mailed
    uploads,     \* used vouchers uploaded so far
    overlapped   \* history: an actor has read the vouchers while another had
                 \* still to write its choice, or an uploaded file has
                 \* crossed what was chosen or given

vars == <<owner, choice, draft, mailed, uploads, overlapped>>

Assignments == Codes \X Readers

Init ==
    /\ owner \in [Codes -> {Nobody}]
    /\ choice = [x \in Actors |-> {}]
    /\ draft = [m \in Mails |-> {}]
    /\ mailed = {}
    /\ uploads = 0
    /\ overlapped = FALSE

-----------------------------------------------------------------------------
Owned(r) == {v \in Codes : owner[v] = r}
Free == Owned(Nobody)

Busy(x) == choice[x] # {}
Reads(x) == overlapped' = (overlapped \/ \E y \in Actors \ {x} : Busy(y))

(* touchbase.js 70-101: the reader's own voucher, which the sort puts last, *)
(* or a free one, which is then to be written.  Without either it throws.   *)
GetVoucher(m, r) ==
    /\ choice[m] = {} /\ draft[m] = {}
    /\ \E v \in IF Owned(r) # {} THEN Owned(r) ELSE Free :
          /\ choice' = [choice EXCEPT ![m] = IF v \in Free THEN {<<v, r>>} ELSE {}]
          /\ draft' = [draft EXCEPT ![m] = {<<v, r>>}]
    /\ Reads(m)
    /\ UNCHANGED <<owner, mailed, uploads>>

(* The choices that give each of some readers without voucher one of the   *)
(* free ones, and no two the same.                                         *)
Choices(rs) ==
    LET poor == {r \in rs : Owned(r) = {}} IN
    {{<<f[r], r>> : r \in poor} : f \in {g \in [poor -> Free] :
        \A r, s \in poor : g[r] = g[s] => r = s}}

(* Mutant: readers who have a voucher get another one.                     *)
Assign_Again(x, rs) ==
    /\ choice[x] = {}
    /\ \E c \in {{<<f[r], r>> : r \in rs} : f \in {g \in [rs -> Free] :
                    \A r, s \in rs : g[r] = g[s] => r = s}} :
          choice' = [choice EXCEPT ![x] = c]
    /\ Reads(x)
    /\ UNCHANGED <<owner, draft, mailed, uploads>>

(* voucher.js 142-175, reader.js 429-462: with too few free vouchers it    *)
(* throws, and nothing is written.                                         *)
Assign(x, rs) ==
    /\ choice[x] = {}
    /\ \E c \in Choices(rs) : choice' = [choice EXCEPT ![x] = c]
    /\ Reads(x)
    /\ UNCHANGED <<owner, draft, mailed, uploads>>

(* One of the chosen vouchers is written, whatever it has become since     *)
(* (touchbase.js 99, the items of the bulk_put of voucher.js 176).         *)
Write(x) ==
    /\ \E a \in choice[x] :
          /\ owner' = [owner EXCEPT ![a[1]] = a[2]]
          /\ choice' = [choice EXCEPT ![x] = @ \ {a}]
    /\ UNCHANGED <<draft, mailed, uploads, overlapped>>

(* Mutant: the mail is sent while the voucher is still being written.      *)
Send_Early(m) ==
    /\ mailed' = mailed \cup draft[m]
    /\ draft' = [draft EXCEPT ![m] = {}]
    /\ UNCHANGED <<owner, choice, uploads, overlapped>>

(* The mail goes out (touchbase.js 430-457).                               *)
Send(m) ==
    /\ draft[m] # {} /\ choice[m] = {}
    /\ mailed' = mailed \cup draft[m]
    /\ draft' = [draft EXCEPT ![m] = {}]
    /\ UNCHANGED <<owner, choice, uploads, overlapped>>

(* A call fails or the process dies: what is not written or sent never     *)
(* will be; the vouchers written keep their reader.                        *)
GiveUp(x) ==
    /\ choice[x] # {} \/ (x \in Mails /\ draft[x] # {})
    /\ choice' = [choice EXCEPT ![x] = {}]
    /\ draft' = [m \in Mails |-> IF m = x THEN {} ELSE draft[m]]
    /\ UNCHANGED <<owner, mailed, uploads, overlapped>>

(* The file decides who has the voucher (voucher.js 57-116).               *)
UploadUsed(v, r) ==
    /\ uploads < MaxUploads
    /\ uploads' = uploads + 1
    /\ owner' = [owner EXCEPT ![v] = r]
    /\ overlapped' = (overlapped \/ owner[v] \notin {Nobody, r} \/ ~(Owned(r) \subseteq {v})
                                 \/ \E x \in Actors : Busy(x))
    /\ UNCHANGED <<choice, draft, mailed>>

Next ==
    \/ \E m \in Mails : (\E r \in Readers : GetVoucher(m, r)) \/ Send(m)
    \/ \E x \in Forms : \E rs \in SUBSET Readers : Assign(x, rs)
    \/ \E x \in Actors : Write(x) \/ GiveUp(x)
    \/ \E v \in Codes, r \in Readers : UploadUsed(v, r)

Spec == Init /\ [][Next]_vars

-----------------------------------------------------------------------------
(* Every variable has its type.                                            *)
TypeOK ==
    /\ owner \in [Codes -> Readers \cup {Nobody}]
    /\ choice \in [Actors -> SUBSET Assignments]
    /\ draft \in [Mails -> SUBSET Assignments]
    /\ mailed \subseteq Assignments
    /\ uploads \in 0..MaxUploads
    /\ overlapped \in BOOLEAN

(* Without overlap a voucher that was mailed belongs to the reader it was  *)
(* mailed to, so that no two readers are mailed the same voucher, in       *)
(* whatever order mails, forms and failures follow each other.             *)
MailedIsOwner == ~overlapped => \A a \in mailed : owner[a[1]] = a[2]

(* Without overlap a reader has one voucher at most.                       *)
OneVoucherEach == ~overlapped => \A r \in Readers : \A v, w \in Owned(r) : v = w

(* With overlap, a voucher is taken from one reader and given to another,  *)
(* but a voucher that is somebody's is never made free again.              *)
NeverFreed == [][\A v \in Codes : owner[v] # Nobody => owner'[v] # Nobody]_vars
=============================================================================
