---------------------------- MODULE Consolidator ----------------------------
(***************************************************************************)
(* consolidator/index.ts: messages of Kafka are gathered in an array in    *)
(* memory (lines 142-173), which a timer writes to Elasticsearch by one    *)
(* bulk request (flush, lines 44-143).  The consumer is paused and resumed *)
(* by three parties that do not know of each other: flush, the rebalance   *)
(* with its time limit (lines 184-210) and the shutdown (lines 246-277).   *)
(*                                                                         *)
(* Offsets are committed by kafkajs once a message is in memory.  The      *)
(* messages are all in the topic from the beginning; when each is          *)
(* delivered is open.                                                      *)
(***************************************************************************)
EXTENDS Naturals, Sequences, FiniteSets

CONSTANTS
    MaxMessages,      \* messages in the topic
    Pages,            \* pairs of browser_id and article_id
    NoPage,           \* a message that lacks one of them
    Page,             \* Page[m]: what message m is about
    CacheSize,        \* cache_size, in entries, of which a message takes two
    MaxDisturbances   \* bound on the failures, deaths and rebalances

Messages == 1..MaxMessages

ASSUME MessageAssumption == MaxMessages \in Nat
ASSUME PageAssumption == NoPage \notin Pages /\ Page \in [Messages -> Pages \cup {NoPage}]
ASSUME BoundAssumption == CacheSize \in Nat /\ MaxDisturbances \in Nat

VARIABLES
    position,     \* messages delivered by this consumer
    committed,    \* messages before the committed offset
    paused,       \* the consumer is paused
    joining,      \* the group is rebalancing: nothing is fetched
    rebalancing,  \* isRebalancing, and its timer is armed
    phase,        \* "up", "stopping" (in the flush of the shutdown),
                  \* "closing" or "down"
    batch,        \* cache
    flush,        \* where flush is, and the requests it has made
    mapping,      \* Redis: the document of each page, 0 for none
    docs,         \* the index: each document's last message, by its id
    stored,       \* history: the messages the index took
    rejected,     \* history: the messages it refused
    left,         \* history: the messages in memory alone at a shutdown, which
                  \* Kafka will not deliver again ...
    cut,          \* ... and at a crash
    disturbances, \* failures, deaths and rebalances so far
    excuses       \* history: why a message or the document of a page may be
                  \* missed
                  \*   "resumed"      the consumer was resumed during a flush
                  \*   "together"     two new messages of a page in one bulk
                  \*   "unconfirmed"  a bulk request took effect unknown to us
                  \*   "cache"        Redis did not answer, or forgot

consumer == <<position, committed, paused, joining, rebalancing>>
index == <<mapping, docs, stored, rejected>>
vars == <<consumer, phase, batch, flush, index, left, cut, disturbances, excuses>>

Idle == [at |-> "idle", requests |-> <<>>]
InBatch == {batch[i] : i \in DOMAIN batch}

Init ==
    /\ position = 0
    /\ committed = 0
    /\ paused = FALSE
    /\ joining = FALSE
    /\ rebalancing = FALSE
    /\ phase = "up"
    /\ batch = <<>>
    /\ flush = Idle
    /\ mapping = [p \in Pages |-> 0]
    /\ docs = <<>>
    /\ stored = {}
    /\ rejected = {}
    /\ left = {}
    /\ cut = {}
    /\ disturbances = 0
    /\ excuses = {}

-----------------------------------------------------------------------------
Disturb == disturbances < MaxDisturbances /\ disturbances' = disturbances + 1
Flushing == flush.at # "idle"

(* The batch has more than cache_size entries, two to a message (line 46). *)
Large == Len(batch) > CacheSize \div 2


(* A message is delivered and pushed; the handler awaits nothing.          *)
Deliver ==
    /\ phase \in {"up", "stopping"}
    /\ ~paused /\ ~joining
    /\ position < MaxMessages
    /\ position' = position + 1
    /\ batch' = Append(batch, position')
    /\ UNCHANGED <<committed, paused, joining, rebalancing, phase, flush, index, left, cut,
                   disturbances, excuses>>

(* kafkajs commits the offsets of what has been delivered, not of what has *)
(* been written.                                                           *)
Commit ==
    /\ phase # "down"
    /\ committed < position
    /\ committed' = position
    /\ UNCHANGED <<position, paused, joining, rebalancing, phase, batch, flush, index, left,
                   cut, disturbances, excuses>>

(* Mutant: flush does not pause the consumer.                              *)
Tick_NoPause ==
    /\ phase # "down"
    /\ ~Flushing /\ Large
    /\ flush' = [Idle EXCEPT !.at = "look"]
    /\ UNCHANGED <<consumer, phase, batch, index, left, cut, disturbances, excuses>>

(* Lines 45-49, by the timer.                                              *)
Tick ==
    /\ phase # "down"
    /\ ~Flushing /\ Large
    /\ flush' = [Idle EXCEPT !.at = "look"]
    /\ paused' = TRUE
    /\ UNCHANGED <<position, committed, joining, rebalancing, phase, batch, index, left, cut,
                   disturbances, excuses>>

(* The document the mapping names for a message, 0 for a new one.          *)
Target(m) == IF Page[m] = NoPage THEN 0 ELSE mapping[Page[m]]

(* One turn of the loop of lines 56-104.  The batch may still grow, and is *)
(* then gone through to its new end; after its last message the bulk       *)
(* request is sent (line 106).                                             *)
Request(target) ==
    LET m == batch[Len(flush.requests) + 1]
        requests == Append(flush.requests, [message |-> m, id |-> target])
    IN  /\ flush.at = "look"
        /\ flush' = [at |-> IF Len(requests) = Len(batch) THEN "bulk" ELSE "look",
                     requests |-> requests]
        /\ UNCHANGED <<consumer, phase, batch, index, left, cut>>

Look ==
    /\ Request(Target(batch[Len(flush.requests) + 1]))
    /\ UNCHANGED <<disturbances, excuses>>

(* Redis has lost the entry, or it is not to be reached: null.             *)
LookMisses ==
    /\ Disturb
    /\ Request(0)
    /\ excuses' = excuses \cup {"cache"}

-----------------------------------------------------------------------------
(* What a bulk request does to the index.                                  *)

Requests == flush.requests
NewOnes == {i \in DOMAIN Requests : Requests[i].id = 0}

(* The id of the document of request i: new ones are numbered in order.    *)
IdOf(i) ==
    IF Requests[i].id # 0 THEN Requests[i].id
    ELSE Len(docs) + Cardinality({j \in NewOnes : j <= i})

(* The last request of a set that is about document d.                     *)
LastFor(d, accepted) ==
    {i \in accepted : IdOf(i) = d /\ \A j \in accepted : IdOf(j) = d => j <= i}

(* Each request is accepted or refused by itself; an id is given to a new  *)
(* document even if it is refused.                                         *)
Apply(accepted) ==
    /\ docs' = [d \in 1..(Len(docs) + Cardinality(NewOnes)) |->
                  IF LastFor(d, accepted) # {}
                    THEN Requests[CHOOSE i \in LastFor(d, accepted) : TRUE].message
                    ELSE IF d <= Len(docs) THEN docs[d] ELSE 0]
    /\ stored' = stored \cup {Requests[i].message : i \in accepted}

Together ==
    \E i, j \in NewOnes :
        i # j /\ Page[Requests[i].message] = Page[Requests[j].message]
              /\ Page[Requests[i].message] # NoPage

(* Mutant: new documents are not remembered.                               *)
Remembered_None == mapping

(* Lines 111-120: the ids of the new documents are remembered, the last of *)
(* a page's in the end; an update is wrapped in doc, without browser_id.   *)
Remembered ==
    [p \in Pages |->
       LET news == {i \in NewOnes : Page[Requests[i].message] = p} IN
       IF news = {} THEN mapping[p]
       ELSE IdOf(CHOOSE i \in news : \A j \in news : j <= i)]

EndFlush ==
    /\ flush' = Idle
    /\ paused' = FALSE
    /\ phase' = IF phase = "stopping" THEN "closing" ELSE phase
    /\ UNCHANGED <<position, committed, joining, rebalancing, left, cut>>

(* The answer: the batch is emptied, with whatever has been pushed since   *)
(* the request was made, and the consumer resumed (lines 106-141).         *)
BulkAnswers ==
    /\ flush.at = "bulk"
    /\ \E accepted \in SUBSET DOMAIN Requests :
          /\ accepted = DOMAIN Requests \/ disturbances < MaxDisturbances
          /\ disturbances' = disturbances + IF accepted = DOMAIN Requests THEN 0 ELSE 1
          /\ Apply(accepted)
          /\ rejected' = rejected \cup
                           {Requests[i].message : i \in DOMAIN Requests \ accepted}
    /\ mapping' = Remembered
    /\ batch' = <<>>
    /\ excuses' = IF Together THEN excuses \cup {"together"} ELSE excuses
    /\ EndFlush

(* Mutant: isFlushing is reset after a success only.                       *)
BulkFails_KeepsFlag ==
    /\ Disturb
    /\ flush.at = "bulk"
    /\ flush' = [Idle EXCEPT !.at = "failed"]
    /\ paused' = FALSE
    /\ UNCHANGED <<position, committed, joining, rebalancing, phase, batch, index, left, cut,
                   excuses>>

(* The request fails, with or without having taken effect, or the file     *)
(* written after its answer (line 121) does: the batch stays for the next  *)
(* flush (lines 135-142).                                                  *)
BulkFails ==
    /\ Disturb
    /\ flush.at = "bulk"
    /\ \/ UNCHANGED <<index, excuses>>
       \/ /\ Apply(DOMAIN Requests)
          /\ \/ mapping' = mapping /\ excuses' = excuses \cup {"unconfirmed"}
             \/ mapping' = Remembered /\ excuses' = IF Together THEN excuses \cup {"together"}
                                                    ELSE excuses
          /\ UNCHANGED rejected
    /\ EndFlush
    /\ UNCHANGED batch

-----------------------------------------------------------------------------
(* Rebalances.                                                             *)

(* Lines 184-200: the consumer is paused, for 60 seconds at most.          *)
Rebalance ==
    /\ Disturb
    /\ phase \in {"up", "stopping"}
    /\ ~joining
    /\ joining' = TRUE
    /\ rebalancing' = TRUE
    /\ paused' = TRUE
    /\ UNCHANGED <<position, committed, phase, batch, flush, index, left, cut, excuses>>

Resume ==
    /\ rebalancing' = FALSE
    /\ paused' = FALSE
    /\ excuses' = IF Flushing THEN excuses \cup {"resumed"} ELSE excuses
    /\ UNCHANGED <<committed, phase, batch, flush, index, left, cut, disturbances>>

(* Mutant: the timer is cleared, but the consumer is not resumed.          *)
Joined_StaysPaused ==
    /\ phase \in {"up", "stopping"}
    /\ joining
    /\ joining' = FALSE
    /\ rebalancing' = FALSE
    /\ position' = committed
    /\ UNCHANGED <<committed, paused, phase, batch, flush, index, left, cut, disturbances,
                   excuses>>

(* GROUP_JOIN: the consumer goes on at the committed offset (202-210).     *)
Joined ==
    /\ phase \in {"up", "stopping"}
    /\ joining
    /\ joining' = FALSE
    /\ position' = committed
    /\ Resume

(* The rebalance takes longer than 60 seconds (lines 193-199).             *)
TimeLimit ==
    /\ phase # "down"
    /\ rebalancing
    /\ Resume
    /\ UNCHANGED <<position, joining>>

-----------------------------------------------------------------------------
(* The end of the process.                                                 *)

(* SIGTERM: the consumer is paused, and a batch that is not empty is given *)
(* to flush, which leaves it alone if it is small or if another flush is   *)
(* under way (lines 248-261).                                              *)
Sigterm ==
    /\ Disturb
    /\ phase = "up"
    /\ paused' = TRUE
    /\ IF ~Flushing /\ Large
         THEN phase' = "stopping" /\ flush' = [Idle EXCEPT !.at = "look"]
         ELSE phase' = "closing" /\ UNCHANGED flush
    /\ UNCHANGED <<position, committed, joining, rebalancing, batch, index, left, cut, excuses>>

(* The process is gone; the next one starts at the committed offset.  A    *)
(* bulk request under way may yet take effect.                             *)
Gone ==
    /\ phase' = "down"
    /\ batch' = <<>>
    /\ flush' = Idle
    /\ paused' = FALSE
    /\ joining' = FALSE
    /\ rebalancing' = FALSE
    /\ position' = committed
    /\ \/ UNCHANGED <<docs, stored, excuses>>
       \/ /\ flush.at = "bulk"
          /\ Apply(DOMAIN Requests)
          /\ excuses' = excuses \cup {"unconfirmed"}
    /\ UNCHANGED <<committed, mapping, rejected>>

LostWith == {m \in InBatch \ stored' : m <= committed}

(* Lines 264-272.                                                          *)
Exit ==
    /\ phase = "closing"
    /\ Gone
    /\ left' = left \cup LostWith
    /\ UNCHANGED <<cut, disturbances>>

Crash ==
    /\ Disturb
    /\ phase # "down"
    /\ Gone
    /\ cut' = cut \cup LostWith
    /\ UNCHANGED left

(* Docker starts it again (docker-compose.yml 138).                        *)
Restart ==
    /\ phase = "down"
    /\ phase' = "up"
    /\ UNCHANGED <<consumer, batch, flush, index, left, cut, disturbances, excuses>>

BulkSettles == BulkAnswers \/ BulkFails

Next ==
    \/ Deliver \/ Commit
    \/ Tick \/ Look \/ LookMisses \/ BulkSettles
    \/ Rebalance \/ Joined \/ TimeLimit
    \/ Sigterm \/ Exit \/ Crash \/ Restart

(* The timers fire, Redis and Elasticsearch answer or fail, a rebalance is *)
(* completed, and a shutdown comes to its end.                             *)
Fairness ==
    /\ WF_vars(Tick) /\ WF_vars(Look \/ LookMisses) /\ WF_vars(BulkSettles)
    /\ WF_vars(Joined) /\ WF_vars(TimeLimit)
    /\ WF_vars(Exit)

Spec == Init /\ [][Next]_vars
FairSpec == Spec /\ Fairness

-----------------------------------------------------------------------------
BulkRequest == [message : Messages, id : Nat]

(* Every variable has its type, the requests of a flush are those of the   *)
(* first messages of the batch, and flush is reset when the process is.    *)
TypeOK ==
    /\ position \in 0..MaxMessages
    /\ committed \in 0..position
    /\ {paused, joining, rebalancing} \subseteq BOOLEAN
    /\ phase \in {"up", "stopping", "closing", "down"}
    /\ batch \in Seq(Messages)
    /\ flush \in [at : {"idle", "look", "bulk"}, requests : Seq(BulkRequest)]
    /\ Len(flush.requests) <= Len(batch)
    /\ \A i \in DOMAIN flush.requests : flush.requests[i].message = batch[i]
    /\ mapping \in [Pages -> Nat]
    /\ docs \in Seq(Messages \cup {0})
    /\ stored \cup rejected \cup left \cup cut \subseteq Messages
    /\ disturbances \in 0..MaxDisturbances
    /\ excuses \subseteq {"resumed", "together", "unconfirmed", "cache"}

(* A delivered message is in memory or in the index, or the index refused  *)
(* it, or it went down with a process: the batch is emptied of nothing     *)
(* that was not sent, unless the consumer was resumed during a flush.      *)
NoneSwallowed ==
    "resumed" \notin excuses =>
        \A m \in 1..position : m \in InBatch \cup stored \cup rejected \cup left \cup cut

(* The messages of a page share a document, however often Kafka delivers   *)
(* them again and the process starts again, unless they were new in one    *)
(* bulk request, such a request was not confirmed, or Redis failed.        *)
OneDocumentPerPage ==
    excuses \cap {"together", "unconfirmed", "cache"} = {} =>
        \A i, j \in DOMAIN docs :
            docs[i] # 0 /\ docs[j] # 0 /\ Page[docs[i]] = Page[docs[j]] /\ Page[docs[i]] # NoPage
                => i = j

(* index.ts:257, "Flush any remaining cache": an orderly shutdown leaves   *)
(* no message behind in memory.                                            *)
ShutdownFlushes == left = {}

(* A batch large enough to be flushed is flushed, whatever has failed      *)
(* before, unless the process ends.                                        *)
LargeBatchFlushed == Large ~> ~Large

(* The consumer does not stay paused: whoever paused it, somebody resumes  *)
(* it or the process ends.                                                 *)
PauseEnds == paused ~> ~paused
=============================================================================
