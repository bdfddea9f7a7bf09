--------------------------- MODULE WordpressSync ---------------------------
(***************************************************************************)
(* sync_readers_missing_in_wordpress (sync/wordpress.js 56-86, started by  *)
(* sync/index.js): readers without wordpress_id are read page by page, and *)
(* Wordpress is asked to synchronise each, which gives the reader an id    *)
(* (wordpress_api) and so takes the reader off the pages still to come.    *)
(* Readers sign up, and get an id on other ways, meanwhile.                *)
(***************************************************************************)
EXTENDS Integers, FiniteSets

CONSTANTS
    NReaders,    \* the readers are 1..NReaders, oldest first
    Limit,       \* readers per page, 100
    MaxParts     \* bound on the parts asked for

ASSUME SyncAssumption ==
    NReaders \in Nat /\ Limit \in Nat \ {0} /\ MaxParts \in Nat \ {0}

Everybody == 1..NReaders

VARIABLES
    known,      \* the readers so far are 1..known
    email,      \* those with an email address
    missing,    \* the readers without wordpress_id
    sync,       \* the run: where it is, its next and its last page and its parts
    batch,      \* the readers of its page it has not come to
    began,      \* history: the readers missing when the run began
    tried       \* history: the readers on the pages it read

sync_vars == <<known, email, missing, sync, batch, began, tried>>

NoSync == [at |-> "idle", page |-> 0, last |-> 0, parts |-> 1]

SyncInit ==
    /\ known = 0
    /\ email = {}
    /\ missing = {}
    /\ sync = NoSync
    /\ batch = {}
    /\ began = {}
    /\ tried = {}

-----------------------------------------------------------------------------
(* Math.ceil(n / m).                                                       *)
CeilDiv(n, m) == (n + m - 1) \div m

(* A reader comes otherwise than from Wordpress, with or without address.  *)
SignUp ==
    /\ known < NReaders
    /\ known' = known + 1
    /\ email' \in {email, email \cup {known'}}
    /\ missing' = missing \cup {known'}
    /\ UNCHANGED <<sync, batch, began, tried>>

(* A reader gets a wordpress_id otherwise.                                 *)
Register(r) ==
    /\ r \in missing
    /\ missing' = missing \ {r}
    /\ UNCHANGED <<known, email, sync, batch, began, tried>>

Begin(last, parts) == sync' = [at |-> "page", page |-> 0, last |-> last, parts |-> parts]

(* Mutant: the loop stops before the last page.                            *)
BeginSync_StopsEarly(parts) ==
    /\ sync.at = "idle"
    /\ Begin(CeilDiv(Cardinality(missing), Limit * parts) - 1, parts)
    /\ began' = missing
    /\ tried' = {}
    /\ UNCHANGED <<known, email, missing, batch>>

(* The readers are counted, and the pages of this part reckoned (57-61).   *)
(* The part is always 0, and with it start_page: the option of the command *)
(* line is called page (sync/index.js 7, 17).                              *)
BeginSync(parts) ==
    /\ sync.at = "idle"
    /\ Begin(CeilDiv(Cardinality(missing), Limit * parts), parts)
    /\ began' = missing
    /\ tried' = {}
    /\ UNCHANGED <<known, email, missing, batch>>

(* The API counts pages from 1, and takes 0 for the first page too.        *)
Skipped(n) == (IF n = 0 THEN 0 ELSE n - 1) * Limit

(* How many of those who are missing now come before r.                    *)
Position(r) == Cardinality({q \in missing : q < r})

(* A page of those who are missing now.                                    *)
Page(n) == {r \in missing : Skipped(n) <= Position(r) /\ Position(r) < Skipped(n) + Limit}

(* The page with the next number is read (65).                             *)
ReadReaders ==
    /\ sync.at = "page"
    /\ sync.page <= sync.last
    /\ batch' = Page(sync.page)
    /\ tried' = tried \cup batch'
    /\ sync' = [sync EXCEPT !.at = "readers", !.page = @ + 1]
    /\ UNCHANGED <<known, email, missing, began>>

(* The loop comes to the oldest of those left.                             *)
Tried(r) ==
    /\ sync.at = "readers"
    /\ r \in batch
    /\ \A q \in batch : r <= q
    /\ batch' = batch \ {r}
    /\ UNCHANGED <<known, email, sync, began, tried>>

(* Wordpress is asked, if the reader has an email address (68-80).         *)
SyncReader(r) ==
    /\ Tried(r)
    /\ missing' = IF r \in email THEN missing \ {r} ELSE missing

(* The call fails or takes longer than ten seconds, with or without        *)
(* effect: that is logged, and the reader is not tried again (81-83).      *)
SyncReaderFails(r) ==
    /\ Tried(r)
    /\ r \in email
    /\ UNCHANGED missing

NextPage ==
    /\ sync.at = "readers"
    /\ batch = {}
    /\ sync' = [sync EXCEPT !.at = "page"]
    /\ UNCHANGED <<known, email, missing, batch, began, tried>>

EndSync ==
    /\ sync.at = "page"
    /\ sync.page > sync.last
    /\ sync' = NoSync
    /\ began' = {}
    /\ tried' = {}
    /\ UNCHANGED <<known, email, missing, batch>>

(* A page cannot be read (sync/index.js 19), or the process dies.         *)
SyncBreaksOff ==
    /\ sync.at # "idle"
    /\ sync' = NoSync
    /\ batch' = {}
    /\ began' = {}
    /\ tried' = {}
    /\ UNCHANGED <<known, email, missing>>

SyncNext ==
    \/ SignUp
    \/ \E r \in Everybody : Register(r) \/ SyncReader(r) \/ SyncReaderFails(r)
    \/ \E parts \in 1..MaxParts : BeginSync(parts)
    \/ ReadReaders \/ NextPage
    \/ EndSync \/ SyncBreaksOff

SyncSpec == SyncInit /\ [][SyncNext]_sync_vars

-----------------------------------------------------------------------------
SyncTypeOK ==
    /\ known \in 0..NReaders
    /\ email \subseteq 1..known
    /\ missing \subseteq 1..known
    /\ sync \in [at : {"idle", "page", "readers"}, page : Nat, last : Int, parts : 1..MaxParts]
    /\ batch \subseteq Everybody
    /\ began \subseteq Everybody
    /\ tried \subseteq Everybody

(* The pages shift as readers get their ids, so a run passes readers over. *)
(* But with one part it passes over no more of those it began with than    *)
(* have got an id meanwhile, whatever calls failed and whoever signed up:  *)
(* while anybody can be synchronised, the next run synchronises somebody.  *)
FewPassedOver ==
    [][EndSync /\ sync.parts = 1 =>
         Cardinality((began \cap missing) \ tried) <= Cardinality(began \ missing)]_sync_vars
=============================================================================
