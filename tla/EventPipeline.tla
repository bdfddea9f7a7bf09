--------------------------- MODULE EventPipeline ---------------------------
(***************************************************************************)
(* The way of a published hit to Elasticsearch: Kafka topic 1, the         *)
(* subscriber that enriches (tracker/event_tracker.ts 65-77), topic 2, the *)
(* subscriber that stores (lines 80-123).  Both subscribers are            *)
(* common/kafka-queue.js on common/kafka.js: eachMessage (kafka.js         *)
(* 378-391) calls onMessage without awaiting the handler, so the consumer  *)
(* goes on to the next message, and commits its offset, while handlers are *)
(* still running.  Kafka delivers again what follows the committed offset  *)
(* after a restart or a rebalance.                                         *)
(*                                                                         *)
(* A topic is one partition here; with several, messages of different      *)
(* partitions are unordered, as are running handlers in any case.          *)
(***************************************************************************)
EXTENDS Naturals, Sequences, FiniteSets

CONSTANTS
    Hits,          \* the hits that are published, once each
    Tests,         \* the hits with action "test"
    Browser,       \* Browser[h]: the browser_id of hit h
    Article,       \* Article[h]: its post_id
    Undefined,     \* a field that is not there
    MaxEpochs      \* bound on restarts, rebalances and repeated writes together

ASSUME TestAssumption == Tests \subseteq Hits
ASSUME UndefinedAssumption == \A h \in Hits : Article[h] # Undefined
ASSUME EpochAssumption == MaxEpochs \in Nat

Topics == {1, 2}

VARIABLES
    topic,        \* topic[t]: the messages of topic t
    position,     \* messages of topic t handed to onMessage by this consumer
    committed,    \* messages of topic t before the committed offset
    paused,       \* topics whose consumer is paused while it rebalances
    running,      \* running[t]: the handlers that have not finished
    epoch,        \* restarts, rebalances and repeated writes so far
    doc_cache,    \* Redis: <<browser_id, post_id>> to document id
    docs,         \* the documents of the index; the id is the position
    tested,       \* the hits sent to the test topic
    failed,       \* hits a handler dropped in its catch
    cut,          \* hits whose handler was running when the process died
    waiting,      \* hits a write of which took effect, but whose handler
                  \* still waits for the answer, which will not come
    delivered,    \* history: the furthest position of topic t ever
    again,        \* history: hits delivered or written more than once
    doubtful      \* history: hits a write of which took effect unanswered

consumer == <<position, committed, paused, delivered>>
repeats == <<epoch, again>>
store == <<doc_cache, docs, tested>>
doubt == <<waiting, doubtful>>
vars == <<topic, consumer, repeats, running, store, failed, cut, doubt>>

Articles == {Article[h] : h \in Hits}
Browsers == {Browser[h] : h \in Hits}
Message == [hit : Hits, browser_id : Browsers, article_id : Articles \cup {Undefined},
            post_id : Articles \cup {Undefined}]
Handler == [at : Nat \ {0}, epoch : 0..MaxEpochs]
DocKeys == Browsers \X Articles

Init ==
    /\ topic = [t \in Topics |-> <<>>]
    /\ position = [t \in Topics |-> 0]
    /\ committed = [t \in Topics |-> 0]
    /\ paused = {}
    /\ running = [t \in Topics |-> {}]
    /\ epoch = 0
    /\ doc_cache = [k \in DocKeys |-> 0]
    /\ docs = <<>>
    /\ tested = {}
    /\ failed = {}
    /\ cut = {}
    /\ delivered = [t \in Topics |-> 0]
    /\ again = {}
    /\ waiting = {}
    /\ doubtful = {}

-----------------------------------------------------------------------------
(* The message handle_hit publishes (event_tracker.ts 270).                *)
Published(h) == [hit |-> h, browser_id |-> Browser[h], article_id |-> Undefined,
                 post_id |-> Article[h]]

(* enrich_tracker.ts 12-34: the result names its fields; post_id becomes   *)
(* article_id and is not carried over.                                     *)
Enriched(m) == [hit |-> m.hit, browser_id |-> m.browser_id, article_id |-> m.post_id,
                post_id |-> Undefined]

(* A write whose answer is lost is made again by the client libraries:     *)
(* kafkajs, whose retries kafka.js sets (40-43) and whose producer is not  *)
(* idempotent, and the Elasticsearch client.                               *)
Writes == IF epoch < MaxEpochs THEN {1, 2} ELSE {1}
Written(s, m, n) == IF n = 1 THEN Append(s, m) ELSE s \o <<m, m>>
Note(h, n) ==
    /\ again' = IF n = 1 THEN again ELSE again \cup {h}
    /\ epoch' = epoch + (n - 1)

Publish(h) ==
    /\ \A i \in DOMAIN topic[1] : topic[1][i].hit # h
    /\ \E n \in Writes :
          /\ topic' = [topic EXCEPT ![1] = Written(@, Published(h), n)]
          /\ Note(h, n)
    /\ UNCHANGED <<consumer, running, store, failed, cut, doubt>>

(* eachMessage hands the next message to onMessage, which emits it to the  *)
(* subscriber and returns at its first await (kafka.js 378-391, 402-432).  *)
Deliver(t) ==
    LET next == position[t] + 1 IN
    /\ t \notin paused
    /\ next <= Len(topic[t])
    /\ position' = [position EXCEPT ![t] = next]
    /\ running' = [running EXCEPT ![t] = @ \cup {[at |-> next, epoch |-> epoch]}]
    /\ IF next <= delivered[t]
         THEN again' = again \cup {topic[t][next].hit} /\ UNCHANGED delivered
         ELSE delivered' = [delivered EXCEPT ![t] = next] /\ UNCHANGED again
    /\ UNCHANGED <<topic, committed, paused, epoch, store, failed, cut, doubt>>

(* kafkajs commits the offset of what eachMessage returned from.           *)
Commit(t) ==
    /\ committed[t] < position[t]
    /\ committed' = [committed EXCEPT ![t] = position[t]]
    /\ UNCHANGED <<topic, position, paused, epoch, delivered, again, running, store,
                   failed, cut, doubt>>

-----------------------------------------------------------------------------
Finish(t, x) == running' = [running EXCEPT ![t] = @ \ {x}]
HitOf(t, x) == topic[t][x.at].hit

(* The write of a handler has taken effect, and its answer comes, or it    *)
(* does not: then the handler waits, until an error (TimesOut) or the end  *)
(* of the process (Restart).                                               *)
Answered == UNCHANGED doubt
Unanswered(h) == waiting' = waiting \cup {h} /\ doubtful' = doubtful \cup {h}

(* Lines 65-73: enrich, then topic 2, or the test topic for a test hit.    *)
Enrich(x) ==
    LET m == topic[1][x.at] IN
    /\ x \in running[1]
    /\ Finish(1, x)
    /\ IF m.hit \in Tests
         THEN tested' = tested \cup {m.hit} /\ UNCHANGED <<topic, repeats>>
         ELSE /\ \E n \in Writes :
                    /\ topic' = [topic EXCEPT ![2] = Written(@, Enriched(m), n)]
                    /\ Note(m.hit, n)
              /\ UNCHANGED tested
    /\ Answered \/ Unanswered(m.hit)
    /\ UNCHANGED <<consumer, doc_cache, docs, failed, cut>>

(* The mapping is read and written only for a message with browser_id and  *)
(* post_id (lines 84-87, 111-114).                                         *)
Mapped(m) == m.post_id # Undefined
DocKey(m) == <<m.browser_id, m.post_id>>
DocId(m) == IF Mapped(m) THEN doc_cache[DocKey(m)] ELSE 0

(* Lines 81-118: update the document the mapping names, or index a new one *)
(* and remember it, which comes after the answer and may be unanswered     *)
(* itself.                                                                 *)
Save(x) ==
    LET m == topic[2][x.at] IN
    /\ x \in running[2]
    /\ Finish(2, x)
    /\ IF DocId(m) # 0
         THEN docs' = [docs EXCEPT ![DocId(m)] = m] /\ UNCHANGED repeats
         ELSE \E n \in Writes : docs' = Written(docs, m, n) /\ Note(m.hit, n)
    /\ LET remembered == IF DocId(m) = 0 /\ Mapped(m)
                            THEN [doc_cache EXCEPT ![DocKey(m)] = Len(docs')]
                            ELSE doc_cache
       IN \/ Answered /\ doc_cache' = remembered
          \/ Unanswered(m.hit) /\ doc_cache' \in {doc_cache, remembered}
    /\ UNCHANGED <<topic, consumer, tested, failed, cut>>

(* Mutant: the error is logged where it occurs, and the handler goes on.   *)
Drop_GoesOn(t, x) ==
    /\ x \in running[t]
    /\ failed' = failed \cup {HitOf(t, x)}
    /\ UNCHANGED <<topic, consumer, repeats, running, store, cut, doubt>>

(* Geolocation, Redis, Kafka or Elasticsearch throws before the write has  *)
(* taken effect: the catch logs it, the message is not tried again (lines  *)
(* 74-76, 120-122).                                                        *)
Drop(t, x) ==
    /\ x \in running[t]
    /\ Finish(t, x)
    /\ failed' = failed \cup {HitOf(t, x)}
    /\ UNCHANGED <<topic, consumer, repeats, store, cut, doubt>>

(* The same catch ends a handler whose write did take effect, and records  *)
(* as an error what was passed on or stored.                               *)
TimesOut(h) ==
    /\ h \in waiting
    /\ waiting' = waiting \ {h}
    /\ failed' = failed \cup {h}
    /\ UNCHANGED <<topic, consumer, repeats, running, store, cut, doubtful>>

-----------------------------------------------------------------------------
(* REBALANCING pauses the consumer (kafka.js 324-330, kafka-queue.js       *)
(* 91-94); its handlers go on.                                             *)
Rebalance(t) ==
    /\ t \notin paused
    /\ epoch < MaxEpochs
    /\ epoch' = epoch + 1
    /\ paused' = paused \cup {t}
    /\ UNCHANGED <<topic, position, committed, delivered, again, running, store, failed,
                   cut, doubt>>

(* Mutant: the consumer is not resumed after the rebalance.                *)
Joined_NoResume(t) ==
    /\ t \in paused
    /\ position' = [position EXCEPT ![t] = committed[t]]
    /\ UNCHANGED <<topic, committed, paused, epoch, delivered, again, running, store,
                   failed, cut, doubt>>

(* GROUP_JOIN resumes it at the committed offset (kafka.js 333-351,        *)
(* kafka-queue.js 96-99).                                                  *)
Joined(t) ==
    /\ t \in paused
    /\ paused' = paused \ {t}
    /\ position' = [position EXCEPT ![t] = committed[t]]
    /\ UNCHANGED <<topic, committed, epoch, delivered, again, running, store, failed,
                   cut, doubt>>

(* Mutant: the consumers start at the end of their topics, as without      *)
(* fromBeginning and committed offsets.                                    *)
Restart_AtLatest ==
    /\ epoch < MaxEpochs
    /\ epoch' = epoch + 1
    /\ cut' = cut \cup waiting \cup UNION {{HitOf(t, x) : x \in running[t]} : t \in Topics}
    /\ running' = [t \in Topics |-> {}]
    /\ position' = [t \in Topics |-> Len(topic[t])]
    /\ paused' = {}
    /\ waiting' = {}
    /\ UNCHANGED <<topic, committed, delivered, again, store, failed, doubtful>>

(* The process dies and comes back: its handlers are gone, also those that *)
(* wait for an answer, and its consumers start at the committed offsets.   *)
Restart ==
    /\ epoch < MaxEpochs
    /\ epoch' = epoch + 1
    /\ cut' = cut \cup waiting \cup UNION {{HitOf(t, x) : x \in running[t]} : t \in Topics}
    /\ running' = [t \in Topics |-> {}]
    /\ position' = committed
    /\ paused' = {}
    /\ waiting' = {}
    /\ UNCHANGED <<topic, committed, delivered, again, store, failed, doubtful>>

Consume(t) == Deliver(t) \/ Joined(t)
Finishes(t) == \E x \in running[t] : Drop(t, x) \/ (t = 1 /\ Enrich(x)) \/ (t = 2 /\ Save(x))

Next ==
    \/ \E h \in Hits : Publish(h)
    \/ \E t \in Topics : Consume(t) \/ Commit(t) \/ Rebalance(t) \/ Finishes(t)
    \/ \E h \in Hits : TimesOut(h)
    \/ Restart

(* The consumers fetch while they are not paused, the broker completes a   *)
(* rebalance, and every handler finishes or throws.                        *)
Fairness == \A t \in Topics : WF_vars(Consume(t)) /\ WF_vars(Finishes(t))

Spec == Init /\ [][Next]_vars
FairSpec == Spec /\ Fairness

-----------------------------------------------------------------------------
(* Every variable has its type, and a handler works on a message that is   *)
(* there.                                                                  *)
TypeOK ==
    /\ topic \in [Topics -> Seq(Message)]
    /\ position \in [Topics -> Nat]
    /\ committed \in [Topics -> Nat]
    /\ paused \subseteq Topics
    /\ running \in [Topics -> SUBSET Handler]
    /\ \A t \in Topics :
          /\ committed[t] <= position[t]
          /\ position[t] <= delivered[t]
          /\ delivered[t] <= Len(topic[t])
          /\ \A x \in running[t] : x.at <= delivered[t]
    /\ epoch \in 0..MaxEpochs
    /\ doc_cache \in [DocKeys -> Nat]
    /\ docs \in Seq(Message)
    /\ tested \subseteq Tests
    /\ failed \subseteq Hits
    /\ cut \subseteq Hits
    /\ waiting \subseteq doubtful /\ doubtful \subseteq Hits
    /\ delivered \in [Topics -> Nat]
    /\ again \subseteq Hits

HitsIn(s) == {s[i].hit : i \in DOMAIN s}

(* What became of hit h after topic 1: sent on, or dropped, or cut off.    *)
Left(h) == h \in HitsIn(topic[2]) \cup tested \cup failed \cup cut

(* ... and after topic 2.                                                  *)
Settled(h) == h \in HitsIn(docs) \cup failed \cup cut

(* No hit vanishes: each message of a topic is still to be delivered, or   *)
(* its handler is running, or it was passed on, or it was dropped by an    *)
(* error or cut off by a restart.                                          *)
EveryEventAccounted ==
    \A t \in Topics : \A i \in DOMAIN topic[t] :
        \/ i > position[t]
        \/ \E x \in running[t] : x.at = i
        \/ IF t = 1 THEN Left(topic[t][i].hit) ELSE Settled(topic[t][i].hit)

(* A hit has two documents only if Kafka delivered it, or its enriched     *)
(* message, twice, or a client library made a write again: no order of     *)
(* handlers, commits, rebalances and errors doubles a hit by itself.       *)
DuplicatesOnlyByRedelivery ==
    \A i, j \in DOMAIN docs :
        docs[i].hit = docs[j].hit => i = j \/ docs[i].hit \in again

(* The hits of EventLog are published into topic 1, its documents are      *)
(* those of the index, and its repetitions those on record.                *)
Stored == [i \in DOMAIN docs |-> docs[i].hit]

Recorded == INSTANCE EventLog WITH
    published <- HitsIn(topic[1]),
    stored <- Stored,
    lost <- failed \cup cut,
    repeated <- again,
    doubtful <- doubtful

(* A hit that is not repeated is stored once at most, and no test is; an   *)
(* error or a restart that ends a hit ends it before it is stored or       *)
(* tested, and it never will be, unless a write of it took effect          *)
(* unanswered; what is stored, tested or lost was published, and remains   *)
(* so.                                                                     *)
FatesKept == Recorded!Spec

(* event_tracker.ts:83, "Check if we have an existing document for this    *)
(* browser_id and article_id": a browser's hits on an article share a      *)
(* document, unless a message was delivered or written twice.              *)
OneDocumentPerBrowserAndArticle ==
    again = {} =>
        \A i, j \in DOMAIN docs :
            /\ docs[i].browser_id = docs[j].browser_id
            /\ docs[i].article_id = docs[j].article_id
            => i = j

(* A published hit is in the end stored, sent to the test topic, dropped   *)
(* by an error or cut off by a restart.                                    *)
EveryEventResolved ==
    \A h \in Hits : h \in HitsIn(topic[1]) ~> h \in tested \/ Settled(h)
=============================================================================
