------------------------ MODULE EventPipelineProofs ------------------------
(* Proofs about the event pipeline, for any number of hits, restarts,      *)
(* rebalances and repeated writes: type correctness, that no hit vanishes, *)
(* that none is stored twice without a repetition to blame, and that what  *)
(* is lost is not stored, or has a repetition or a write without an answer *)
(* to blame: the refinement of EventLog.                                   *)
EXTENDS EventPipeline, TLAPS

USE TestAssumption, UndefinedAssumption, EpochAssumption

(* Every step is one of these.                                             *)
LEMMA StepCases ==
  ASSUME [Next]_vars
  PROVE  \/ \E h \in Hits : Publish(h)
         \/ \E t \in Topics : Deliver(t) \/ Joined(t) \/ Commit(t) \/ Rebalance(t)
         \/ \E x \in running[1] : Enrich(x)
         \/ \E x \in running[2] : Save(x)
         \/ \E t \in Topics : \E x \in running[t] : Drop(t, x)
         \/ \E h \in Hits : TimesOut(h)
         \/ Restart
         \/ UNCHANGED vars
  BY DEF Next, Consume, Finishes, Topics

(* A write adds one or two copies of a message at the end of a sequence.   *)
LEMMA WrittenAppends ==
  ASSUME NEW s \in Seq(Message), NEW m \in Message, NEW n \in {1, 2}
  PROVE  /\ Written(s, m, n) \in Seq(Message)
         /\ Len(Written(s, m, n)) = Len(s) + n
         /\ \A i \in 1..Len(s) : Written(s, m, n)[i] = s[i]
         /\ \A i \in (Len(s) + 1)..(Len(s) + n) : Written(s, m, n)[i] = m
<1>1. CASE n = 1
  BY <1>1 DEF Written
<1>2. CASE n = 2
  <2>1. Written(s, m, n) = s \o <<m, m>> /\ <<m, m>> \in Seq(Message) /\ Len(<<m, m>>) = 2
    BY <1>2 DEF Written
  <2>2. Written(s, m, n) \in Seq(Message) /\ Len(Written(s, m, n)) = Len(s) + 2
    BY <2>1
  <2>3. ASSUME NEW i \in 1..(Len(s) + 2)
        PROVE  Written(s, m, n)[i] = IF i <= Len(s) THEN s[i] ELSE m
    BY <2>1
  <2>4. QED
    BY <1>2, <2>2, <2>3
<1>3. QED
  BY <1>1, <1>2

(* Sequence w is s with n copies of message m at its end.                  *)
Appended(s, w, m, n) ==
    /\ Len(w) = Len(s) + n
    /\ Len(s) + 1 \in DOMAIN w
    /\ \A i \in DOMAIN s : i \in DOMAIN w /\ w[i] = s[i]
    /\ \A i \in DOMAIN w : i \in DOMAIN s \/ (i > Len(s) /\ w[i] = m)

LEMMA WrittenIsAppended ==
  ASSUME NEW s \in Seq(Message), NEW m \in Message, NEW n \in {1, 2}
  PROVE  Appended(s, Written(s, m, n), m, n)
<1> DEFINE w == Written(s, m, n)
<1>0. Len(s) \in Nat /\ DOMAIN s = 1..Len(s)
  OBVIOUS
<1> HIDE DEF w
<1>1. /\ w \in Seq(Message) /\ Len(w) = Len(s) + n
      /\ \A i \in 1..Len(s) : w[i] = s[i]
      /\ \A i \in (Len(s) + 1)..(Len(s) + n) : w[i] = m
  BY WrittenAppends, ZenonT(40) DEF w
<1>2. DOMAIN w = 1..(Len(s) + n)
  BY <1>1
<1>3. Len(s) + 1 \in DOMAIN w
  BY <1>0, <1>1, <1>2
<1>4. ASSUME NEW i \in DOMAIN s PROVE i \in DOMAIN w /\ w[i] = s[i]
  BY <1>0, <1>1, <1>2
<1>5. ASSUME NEW i \in DOMAIN w, i \notin DOMAIN s PROVE i > Len(s) /\ w[i] = m
  BY <1>0, <1>1, <1>2, <1>5
<1>6. Appended(s, w, m, n)
  BY <1>1, <1>3, <1>4, <1>5 DEF Appended
<1>7. QED
  BY <1>6 DEF w

(* A write that is made twice uses up one of the repetitions.              *)
LEMMA WritesCount ==
  ASSUME TypeOK, NEW h \in Hits, NEW n \in Writes, Note(h, n)
  PROVE  /\ n \in {1, 2}
         /\ epoch' \in 0..MaxEpochs
         /\ again' \subseteq Hits
         /\ again \subseteq again'
         /\ n # 1 => h \in again'
         /\ again' \subseteq again \cup {h}
  BY DEF TypeOK, Writes, Note

(* What is published and what enrichment yields are messages of their hit. *)
LEMMA MessageTypes ==
  /\ \A h \in Hits : Published(h) \in Message /\ Published(h).hit = h
  /\ \A m \in Message : /\ Enriched(m) \in Message
                        /\ Enriched(m).hit = m.hit
                        /\ Enriched(m).post_id = Undefined
  BY DEF Published, Enriched, Message, Articles, Browsers

(* What is in a sequence of messages is a message, and has a hit.          *)
LEMMA ElementType ==
  ASSUME NEW s \in Seq(Message), NEW i \in 1..Len(s)
  PROVE  s[i] \in Message /\ s[i].hit \in Hits
<1>1. s[i] \in Message
  OBVIOUS
<1>2. QED
  BY <1>1 DEF Message

(* It stays one when an element of it is replaced.                         *)
LEMMA ExceptType ==
  ASSUME NEW s \in Seq(Message), NEW m \in Message, NEW i
  PROVE  [s EXCEPT ![i] = m] \in Seq(Message)
<1>1. CASE i \in 1..Len(s)
  BY <1>1
<1>2. CASE i \notin DOMAIN s
  <2>1. [s EXCEPT ![i] = m] = s
    BY <1>2
  <2>2. QED
    BY <2>1
<1>3. QED
  BY <1>1, <1>2

(* The message of a handler is in its topic.                               *)
LEMMA HandlerType ==
  ASSUME TypeOK, NEW t \in Topics, NEW x \in running[t]
  PROVE  /\ x.at \in DOMAIN topic[t]
         /\ topic[t][x.at] \in Message
         /\ HitOf(t, x) \in Hits
<1>1. x \in Handler /\ x.at \in Nat \ {0}
  BY DEF TypeOK, Handler
<1>2. x.at <= delivered[t] /\ delivered[t] <= Len(topic[t])
      /\ delivered[t] \in Nat /\ topic[t] \in Seq(Message)
  BY DEF TypeOK
<1>3. x.at \in 1..Len(topic[t])
  BY <1>1, <1>2
<1>4. QED
  BY <1>2, <1>3, ElementType DEF HitOf

-----------------------------------------------------------------------------
(* The initial states have their types.                                    *)
LEMMA InitTypeOK == Init => TypeOK
  BY DEF Init, TypeOK

(* The part of the type invariant that relates offsets, topics and         *)
(* handlers.                                                               *)
Offsets ==
    \A t \in Topics :
       /\ committed[t] <= position[t]
       /\ position[t] <= delivered[t]
       /\ delivered[t] <= Len(topic[t])
       /\ \A x \in running[t] : x.at <= delivered[t]

(* What waits for an answer is on record, and no record is struck off.     *)
LEMMA DoubtGrows ==
  ASSUME TypeOK, [Next]_vars
  PROVE  waiting' \subseteq doubtful' /\ doubtful \subseteq doubtful' /\ doubtful' \subseteq Hits
<1>0. waiting \subseteq doubtful /\ doubtful \subseteq Hits /\ {1, 2} \subseteq Topics
  BY DEF TypeOK, Topics
<1>1. ASSUME NEW h \in Hits, Answered \/ Unanswered(h)
      PROVE  waiting' \subseteq doubtful' /\ doubtful \subseteq doubtful' /\ doubtful' \subseteq Hits
  BY <1>0, <1>1 DEF Answered, Unanswered, doubt
<1>2. ASSUME NEW x \in running[1], Enrich(x)
      PROVE  \E h \in Hits : Answered \/ Unanswered(h)
  BY <1>0, <1>2, HandlerType DEF Enrich, HitOf
<1>3. ASSUME NEW x \in running[2], Save(x)
      PROVE  \E h \in Hits : Answered \/ Unanswered(h)
  BY <1>0, <1>3, HandlerType DEF Save, HitOf
<1>4. ASSUME NEW h \in Hits, TimesOut(h)
      PROVE  waiting' \subseteq waiting /\ doubtful' = doubtful
  BY <1>4 DEF TimesOut
<1>5. ASSUME Restart PROVE waiting' = {} /\ doubtful' = doubtful
  BY <1>5 DEF Restart
<1>6. ASSUME UNCHANGED doubt
      PROVE  waiting' = waiting /\ doubtful' = doubtful
  BY <1>6 DEF doubt
<1>7. ASSUME NEW t \in Topics, Deliver(t) \/ Joined(t) \/ Commit(t) \/ Rebalance(t)
      PROVE  UNCHANGED doubt
  BY <1>7 DEF Deliver, Joined, Commit, Rebalance
<1>8. ASSUME NEW t \in Topics, NEW x \in running[t], Drop(t, x) PROVE UNCHANGED doubt
  BY <1>8 DEF Drop
<1>9. ASSUME NEW h \in Hits, Publish(h) PROVE UNCHANGED doubt
  BY <1>9 DEF Publish
<1>10. ASSUME UNCHANGED vars PROVE UNCHANGED doubt
  BY <1>10 DEF vars
<1>11. QED
  BY StepCases, <1>0, <1>1, <1>2, <1>3, <1>4, <1>5, <1>6, <1>7, <1>8, <1>9, <1>10

(* The type invariant is inductive.                                        *)
LEMMA NextTypeOK ==
  ASSUME TypeOK, [Next]_vars
  PROVE  TypeOK'
<1> USE DEF consumer, repeats, store, doubt
<1>d. waiting' \subseteq doubtful' /\ doubtful' \subseteq Hits
  BY DoubtGrows
<1> USE <1>d
<1>1. ASSUME NEW h \in Hits, Publish(h) PROVE TypeOK'
  <2>1. PICK n \in Writes : topic' = [topic EXCEPT ![1] = Written(@, Published(h), n)]
                            /\ Note(h, n)
    BY <1>1 DEF Publish
  <2>2. /\ n \in {1, 2} /\ Published(h) \in Message /\ topic[1] \in Seq(Message)
        /\ 1 \in Topics
    BY <2>1, WritesCount, MessageTypes DEF TypeOK, Topics
  <2>3. topic' \in [Topics -> Seq(Message)]
        /\ \A t \in Topics : Len(topic[t]) <= Len(topic'[t])
    <3>1. /\ Written(topic[1], Published(h), n) \in Seq(Message)
          /\ Len(Written(topic[1], Published(h), n)) = Len(topic[1]) + n
      BY <2>2, WrittenAppends
    <3>2. Len(topic[1]) <= Len(Written(topic[1], Published(h), n))
      <4>1. Len(topic[1]) \in Nat
        BY <2>2
      <4>2. QED
        BY <2>2, <3>1, <4>1
    <3>3. \A t \in Topics : Len(topic[t]) \in Nat
      BY DEF TypeOK
    <3>4. QED
      BY <2>1, <2>2, <3>1, <3>2, <3>3 DEF TypeOK
  <2>4. epoch' \in 0..MaxEpochs /\ again' \subseteq Hits
    BY <2>1, WritesCount
  <2>5. Offsets'
    BY <1>1, <2>3 DEF Publish, TypeOK, Offsets
  <2>6. QED
    BY <1>1, <2>3, <2>4, <2>5 DEF Publish, TypeOK, Offsets
<1>2. ASSUME NEW t \in Topics, Deliver(t) PROVE TypeOK'
  <2> DEFINE next == position[t] + 1
  <2>1. next \in Nat \ {0} /\ next <= Len(topic[t]) /\ topic[t] \in Seq(Message)
    BY <1>2 DEF Deliver, TypeOK
  <2>2. [at |-> next, epoch |-> epoch] \in Handler
    BY <2>1 DEF TypeOK, Handler
  <2>3. topic[t][next].hit \in Hits
    BY <2>1, ElementType
  <2>4. /\ delivered' \in [Topics -> Nat] /\ again' \subseteq Hits
        /\ \A s \in Topics : delivered[s] <= delivered'[s] /\ delivered'[s] <= Len(topic[s])
        /\ next <= delivered'[t]
    <3>1. \A s \in Topics : delivered[s] \in Nat /\ delivered[s] <= Len(topic[s])
      BY DEF TypeOK
    <3>2. CASE next <= delivered[t]
      BY <1>2, <2>1, <2>3, <3>1, <3>2 DEF Deliver, TypeOK
    <3>3. CASE ~ (next <= delivered[t])
      <4>1. delivered' = [delivered EXCEPT ![t] = next] /\ again' = again
        BY <1>2, <3>3 DEF Deliver
      <4>2. \A s \in Topics : delivered'[s] = IF s = t THEN next ELSE delivered[s]
        BY <4>1 DEF TypeOK
      <4>3. QED
        BY <2>1, <3>1, <3>3, <4>1, <4>2 DEF TypeOK
    <3>4. QED
      BY <3>2, <3>3
  <2>5. /\ position' = [position EXCEPT ![t] = next]
        /\ running' = [running EXCEPT ![t] = @ \cup {[at |-> next, epoch |-> epoch]}]
        /\ UNCHANGED <<topic, committed, paused, epoch, store, failed, cut>>
    BY <1>2 DEF Deliver
  <2>6. Offsets'
    <3>1. ASSUME NEW s \in Topics
          PROVE  committed[s] <= position'[s] /\ position'[s] <= delivered'[s]
      BY <2>1, <2>4, <2>5 DEF TypeOK
    <3>2. ASSUME NEW s \in Topics, NEW x \in running'[s] PROVE x.at <= delivered'[s]
      <4>1. CASE x \in running[s]
        BY <4>1, <2>4 DEF TypeOK, Handler
      <4>2. CASE x \notin running[s]
        BY <4>2, <3>2, <2>4, <2>5 DEF TypeOK
      <4>3. QED
        BY <4>1, <4>2
    <3>3. QED
      BY <2>4, <2>5, <3>1, <3>2 DEF Offsets
  <2>7. position' \in [Topics -> Nat] /\ running' \in [Topics -> SUBSET Handler]
    BY <2>1, <2>2, <2>5 DEF TypeOK
  <2>8. QED
    BY <2>4, <2>5, <2>6, <2>7 DEF TypeOK, Offsets
<1>3. ASSUME NEW t \in Topics, Joined(t) \/ Commit(t) \/ Rebalance(t) PROVE TypeOK'
  <2>1. /\ position' \in [Topics -> Nat] /\ committed' \in [Topics -> Nat]
        /\ paused' \subseteq Topics /\ epoch' \in 0..MaxEpochs
    BY <1>3 DEF Joined, Commit, Rebalance, TypeOK
  <2>2. UNCHANGED <<topic, delivered, again, running, store, failed, cut>>
    BY <1>3 DEF Joined, Commit, Rebalance
  <2>3. \A s \in Topics : committed'[s] <= position'[s] /\ position'[s] <= delivered[s]
    <3>1. \A s \in Topics : /\ committed[s] \in Nat /\ position[s] \in Nat
                             /\ delivered[s] \in Nat
                             /\ committed[s] <= position[s] /\ position[s] <= delivered[s]
      BY DEF TypeOK
    <3>2. CASE Joined(t)
      BY <3>1, <3>2 DEF Joined, TypeOK
    <3>3. CASE Commit(t)
      BY <3>1, <3>3 DEF Commit, TypeOK
    <3>4. CASE Rebalance(t)
      BY <3>1, <3>4 DEF Rebalance
    <3>5. QED
      BY <1>3, <3>2, <3>3, <3>4
  <2>4. QED
    BY <2>1, <2>2, <2>3 DEF TypeOK
<1>4. ASSUME NEW x \in running[1], Enrich(x) PROVE TypeOK'
  <2> DEFINE m == topic[1][x.at]
  <2>1. m \in Message /\ m.hit \in Hits /\ {1, 2} \subseteq Topics
    BY HandlerType DEF HitOf, Topics
  <2>2. /\ running' \in [Topics -> SUBSET Handler]
        /\ \A s \in Topics : running'[s] \subseteq running[s]
    BY <1>4 DEF Enrich, Finish, TypeOK
  <2>3. UNCHANGED <<position, committed, paused, delivered, doc_cache, docs, failed, cut>>
    BY <1>4 DEF Enrich
  <2>4. /\ topic' \in [Topics -> Seq(Message)]
        /\ \A s \in Topics : Len(topic[s]) <= Len(topic'[s])
        /\ epoch' \in 0..MaxEpochs /\ again' \subseteq Hits /\ tested' \subseteq Tests
    <3>1. CASE m.hit \in Tests
      BY <1>4, <3>1 DEF Enrich, TypeOK
    <3>2. CASE m.hit \notin Tests
      <4>1. PICK n \in Writes : topic' = [topic EXCEPT ![2] = Written(@, Enriched(m), n)]
                                /\ Note(m.hit, n)
        BY <1>4, <3>2 DEF Enrich
      <4>2. n \in {1, 2} /\ Enriched(m) \in Message /\ topic[2] \in Seq(Message)
        BY <2>1, <4>1, WritesCount, MessageTypes DEF TypeOK
      <4>3. topic' \in [Topics -> Seq(Message)]
            /\ \A s \in Topics : Len(topic[s]) <= Len(topic'[s])
        <5> HIDE DEF m
        <5>1. /\ Written(topic[2], Enriched(m), n) \in Seq(Message)
              /\ Len(Written(topic[2], Enriched(m), n)) = Len(topic[2]) + n
          BY <4>2, WrittenAppends
        <5>2. \A s \in Topics : Len(topic[s]) \in Nat
          BY DEF TypeOK
        <5>3. Len(topic[2]) <= Len(Written(topic[2], Enriched(m), n))
          BY <2>1, <4>2, <5>1, <5>2
        <5>4. QED
          BY <2>1, <4>1, <5>1, <5>2, <5>3 DEF TypeOK
      <4>4. QED
        BY <1>4, <2>1, <3>2, <4>1, <4>3, WritesCount DEF Enrich, TypeOK
    <3>3. QED
      BY <3>1, <3>2
  <2>5. Offsets'
    BY <2>2, <2>3, <2>4 DEF TypeOK, Offsets
  <2>6. QED
    BY <2>2, <2>3, <2>4, <2>5 DEF TypeOK, Offsets
<1>5. ASSUME NEW x \in running[2], Save(x) PROVE TypeOK'
  <2> DEFINE m == topic[2][x.at]
  <2>1. m \in Message /\ m.hit \in Hits /\ 2 \in Topics
    BY HandlerType DEF HitOf, Topics
  <2>2. /\ running' \in [Topics -> SUBSET Handler]
        /\ \A s \in Topics : running'[s] \subseteq running[s]
    BY <1>5 DEF Save, Finish, TypeOK
  <2>3. UNCHANGED <<topic, position, committed, paused, delivered, tested, failed, cut>>
    BY <1>5 DEF Save
  <2>4. docs' \in Seq(Message) /\ epoch' \in 0..MaxEpochs /\ again' \subseteq Hits
    <3>1. CASE DocId(m) # 0
      <4>1. docs' = [docs EXCEPT ![DocId(m)] = m] /\ UNCHANGED repeats
        BY <1>5, <3>1 DEF Save
      <4>2. docs \in Seq(Message)
        BY DEF TypeOK
      <4>3. docs' \in Seq(Message)
        BY <2>1, <4>1, <4>2, ExceptType
      <4>4. QED
        BY <4>1, <4>3 DEF TypeOK
    <3>2. CASE DocId(m) = 0
      <4>1. PICK n \in Writes : docs' = Written(docs, m, n) /\ Note(m.hit, n)
        BY <1>5, <3>2 DEF Save
      <4>2. docs \in Seq(Message) /\ n \in {1, 2}
        BY <2>1, <4>1, WritesCount DEF TypeOK
      <4>3. QED
        BY <2>1, <4>1, <4>2, WritesCount, WrittenAppends
    <3>3. QED
      BY <3>1, <3>2
  <2>5. doc_cache' \in [DocKeys -> Nat]
    <3>1. Len(docs') \in Nat
      BY <2>4
    <3>2. QED
      BY <1>5, <3>1 DEF Save, TypeOK
  <2>6. Offsets'
    BY <2>2, <2>3 DEF TypeOK, Offsets
  <2>7. QED
    BY <2>2, <2>3, <2>4, <2>5, <2>6 DEF TypeOK, Offsets
<1>6. ASSUME NEW t \in Topics, NEW x \in running[t], Drop(t, x) PROVE TypeOK'
  <2>1. HitOf(t, x) \in Hits
    BY HandlerType
  <2>2. /\ running' \in [Topics -> SUBSET Handler]
        /\ \A s \in Topics : running'[s] \subseteq running[s]
    BY <1>6 DEF Drop, Finish, TypeOK
  <2>3. QED
    BY <1>6, <2>1, <2>2 DEF Drop, TypeOK
<1>7. CASE Restart
  <2>1. cut' \subseteq Hits
    BY <1>7, HandlerType DEF Restart, TypeOK
  <2>2. QED
    BY <1>7, <2>1 DEF Restart, TypeOK
<1>8. ASSUME NEW h \in Hits, TimesOut(h) PROVE TypeOK'
  BY <1>8 DEF TimesOut, TypeOK
<1>9. CASE UNCHANGED vars
  BY <1>9 DEF vars, TypeOK
<1>10. QED
  BY StepCases, <1>1, <1>2, <1>3, <1>4, <1>5, <1>6, <1>7, <1>8, <1>9

(* Every variable keeps its type, and no offset overtakes another.         *)
THEOREM TypeCorrect == Spec => []TypeOK
<1>1. QED
  BY InitTypeOK, NextTypeOK, PTL DEF Spec

-----------------------------------------------------------------------------
(* The messages of topic 2 have no post_id, so the mapping is not used.    *)
Unmapped == \A i \in DOMAIN topic[2] : topic[2][i].post_id = Undefined

(* Publishing puts messages of its hit at the end of topic 1.              *)
LEMMA PublishAppends ==
  ASSUME TypeOK, NEW h \in Hits, Publish(h)
  PROVE  /\ topic'[2] = topic[2]
         /\ \E n \in Writes : Note(h, n) /\ Appended(topic[1], topic'[1], Published(h), n)
<1>1. PICK n \in Writes : topic' = [topic EXCEPT ![1] = Written(@, Published(h), n)]
                          /\ Note(h, n)
  BY DEF Publish
<1>2. n \in {1, 2} /\ Published(h) \in Message /\ topic[1] \in Seq(Message)
  BY <1>1, WritesCount, MessageTypes DEF TypeOK, Topics
<1>3. topic'[1] = Written(topic[1], Published(h), n) /\ topic'[2] = topic[2]
  BY <1>1 DEF TypeOK, Topics
<1>4. Appended(topic[1], topic'[1], Published(h), n)
  BY <1>2, <1>3, WrittenIsAppended
<1>5. QED
  BY <1>1, <1>3, <1>4

(* Enriching a hit that is no test puts messages of it at the end of       *)
(* topic 2.                                                                *)
LEMMA EnrichAppends ==
  ASSUME TypeOK, NEW x \in running[1], Enrich(x), HitOf(1, x) \notin Tests
  PROVE  /\ topic'[1] = topic[1]
         /\ \E n \in Writes :
               /\ Note(HitOf(1, x), n)
               /\ Appended(topic[2], topic'[2], Enriched(topic[1][x.at]), n)
<1> DEFINE m == topic[1][x.at]
<1>0. m \in Message /\ m.hit = HitOf(1, x) /\ m.hit \in Hits
  BY HandlerType DEF HitOf, Topics
<1>1. PICK n \in Writes : topic' = [topic EXCEPT ![2] = Written(@, Enriched(m), n)]
                          /\ Note(m.hit, n)
  BY <1>0 DEF Enrich
<1>2. n \in {1, 2} /\ Enriched(m) \in Message /\ topic[2] \in Seq(Message)
  BY <1>0, <1>1, WritesCount, MessageTypes DEF TypeOK, Topics
<1>3. topic'[2] = Written(topic[2], Enriched(m), n) /\ topic'[1] = topic[1]
  BY <1>1 DEF TypeOK, Topics
<1>4. Appended(topic[2], topic'[2], Enriched(m), n)
  BY <1>2, <1>3, WrittenIsAppended
<1>5. QED
  BY <1>0, <1>1, <1>3, <1>4

(* The message of a handler of topic 1 stays the hit's when it is enriched.*)
LEMMA EnrichedHit ==
  ASSUME TypeOK, NEW x \in running[1]
  PROVE  /\ Enriched(topic[1][x.at]).hit = HitOf(1, x)
         /\ Enriched(topic[1][x.at]).post_id = Undefined
  BY HandlerType, MessageTypes DEF HitOf, Topics

(* Saving puts documents of its hit at the end of the index.               *)
LEMMA SaveAppends ==
  ASSUME TypeOK, Unmapped, NEW x \in running[2], Save(x)
  PROVE  \E n \in Writes : Note(HitOf(2, x), n) /\ Appended(docs, docs', topic[2][x.at], n)
<1> DEFINE m == topic[2][x.at]
<1>0. m \in Message /\ m.hit = HitOf(2, x) /\ m.hit \in Hits /\ x.at \in DOMAIN topic[2]
  BY HandlerType DEF HitOf, Topics
<1>1. DocId(m) = 0
  BY <1>0 DEF Unmapped, DocId, Mapped
<1>2. PICK n \in Writes : docs' = Written(docs, m, n) /\ Note(m.hit, n)
  BY <1>1 DEF Save
<1>3. n \in {1, 2} /\ docs \in Seq(Message)
  BY <1>0, <1>2, WritesCount DEF TypeOK
<1>4. Appended(docs, docs', m, n)
  BY <1>0, <1>2, <1>3, WrittenIsAppended
<1>5. QED
  BY <1>0, <1>2, <1>4

(* No step puts a message with post_id into topic 2.                       *)
LEMMA NextUnmapped ==
  ASSUME TypeOK, Unmapped, [Next]_vars
  PROVE  Unmapped'
<1>1. ASSUME NEW h \in Hits, Publish(h) PROVE Unmapped'
  BY <1>1, PublishAppends DEF Unmapped
<1>2. ASSUME NEW x \in running[1], Enrich(x) PROVE Unmapped'
  <2>1. CASE HitOf(1, x) \in Tests
    BY <1>2, <2>1 DEF Enrich, HitOf, Unmapped
  <2>2. CASE HitOf(1, x) \notin Tests
    BY <1>2, <2>2, EnrichAppends, EnrichedHit DEF Unmapped, Appended
  <2>3. QED
    BY <2>1, <2>2
<1>3. CASE UNCHANGED topic
  BY <1>3 DEF Unmapped
<1>4. QED
  BY <1>1, <1>2, <1>3, StepCases DEF Deliver, Joined, Commit, Rebalance, Save, Drop,
     TimesOut, Restart, vars

-----------------------------------------------------------------------------
(* Where message i of topic t is, as EveryEventAccounted has it.           *)
Passed(t, h) == IF t = 1 THEN Left(h) ELSE Settled(h)

Placed(t, i) ==
    \/ i > position[t]
    \/ \E x \in running[t] : x.at = i
    \/ Passed(t, topic[t][i].hit)

(* What was passed on stays so while topics, index and records only grow.  *)
LEMMA PassedStays ==
  ASSUME TypeOK, TypeOK',
         \A i \in DOMAIN topic[2] : i \in DOMAIN topic'[2] /\ topic'[2][i] = topic[2][i],
         \A i \in DOMAIN docs : i \in DOMAIN docs' /\ docs'[i] = docs[i],
         tested \subseteq tested', failed \subseteq failed', cut \subseteq cut'
  PROVE  \A t \in Topics, h \in Hits : Passed(t, h) => Passed(t, h)'
<1>1. HitsIn(topic[2]) \subseteq HitsIn(topic'[2]) /\ HitsIn(docs) \subseteq HitsIn(docs')
  BY DEF HitsIn
<1>2. QED
  BY <1>1 DEF Passed, Left, Settled

(* Every message stays placed if topics grow at their ends only, no        *)
(* position advances, and a handler that is gone has passed on its hit.    *)
LEMMA AccountedFrame ==
  ASSUME TypeOK, TypeOK', EveryEventAccounted,
         \A t \in Topics : \A i \in DOMAIN topic[t] :
            i \in DOMAIN topic'[t] /\ topic'[t][i] = topic[t][i],
         \A i \in DOMAIN docs : i \in DOMAIN docs' /\ docs'[i] = docs[i],
         tested \subseteq tested', failed \subseteq failed', cut \subseteq cut',
         \A t \in Topics : position'[t] <= position[t],
         \A t \in Topics : \A x \in running[t] :
            x \in running'[t] \/ Passed(t, HitOf(t, x))'
  PROVE  EveryEventAccounted'
<1>1. ASSUME NEW t \in Topics, NEW i \in DOMAIN topic'[t] PROVE Placed(t, i)'
  <2>1. /\ topic[t] \in Seq(Message) /\ topic'[t] \in Seq(Message)
        /\ position[t] \in Nat /\ position'[t] \in Nat /\ position[t] <= Len(topic[t])
    <3>1. /\ position[t] \in Nat /\ delivered[t] \in Nat /\ Len(topic[t]) \in Nat
          /\ position[t] <= delivered[t] /\ delivered[t] <= Len(topic[t])
      BY DEF TypeOK
    <3>2. QED
      BY <3>1 DEF TypeOK
  <2>2. CASE i \notin DOMAIN topic[t]
    <3>1. i > position'[t]
      BY <2>1, <2>2
    <3>2. QED
      BY <3>1 DEF Placed
  <2>3. CASE i \in DOMAIN topic[t]
    <3>1. Placed(t, i) /\ topic'[t][i] = topic[t][i] /\ topic[t][i].hit \in Hits
      BY <2>1, <2>3, ElementType DEF EveryEventAccounted, Placed, Passed
    <3>2. CASE i > position[t]
      BY <2>1, <2>3, <3>2 DEF Placed
    <3>3. ASSUME NEW x \in running[t], x.at = i PROVE Placed(t, i)'
      BY <3>1, <3>3 DEF Placed, HitOf
    <3>4. CASE Passed(t, topic[t][i].hit)
      <4>1. 2 \in Topics
        BY DEF Topics
      <4>2. Passed(t, topic[t][i].hit)'
        BY <3>1, <3>4, <4>1, PassedStays
      <4>3. QED
        BY <4>2 DEF Placed
    <3>5. QED
      BY <3>1, <3>2, <3>3, <3>4 DEF Placed
  <2>4. QED
    BY <2>2, <2>3
<1>2. QED
  BY <1>1 DEF EveryEventAccounted, Placed, Passed

AccountInv == TypeOK /\ Unmapped /\ EveryEventAccounted

(* Every step keeps account of all messages.                               *)
LEMMA NextAccountInv ==
  ASSUME AccountInv, [Next]_vars
  PROVE  AccountInv'
<1> USE DEF consumer, repeats, store, doubt
<1>0. TypeOK /\ TypeOK' /\ Unmapped /\ Unmapped' /\ EveryEventAccounted
  BY NextTypeOK, NextUnmapped DEF AccountInv
<1>a. /\ \A t \in Topics : /\ topic[t] \in Seq(Message) /\ topic'[t] \in Seq(Message)
                           /\ position[t] \in Nat
      /\ docs \in Seq(Message) /\ docs' \in Seq(Message)
      /\ 1 \in Topics /\ 2 \in Topics
  BY <1>0 DEF TypeOK, Topics
<1>1. ASSUME NEW h \in Hits, Publish(h) PROVE EveryEventAccounted'
  <2>1. \A t \in Topics : \A i \in DOMAIN topic[t] :
            i \in DOMAIN topic'[t] /\ topic'[t][i] = topic[t][i]
    BY <1>0, <1>1, PublishAppends DEF Topics, Appended
  <2>2. QED
    BY <1>0, <1>1, <1>a, <2>1, AccountedFrame DEF Publish
<1>2. ASSUME NEW t \in Topics, Deliver(t) PROVE EveryEventAccounted'
  <2> DEFINE next == position[t] + 1
  <2>1. /\ UNCHANGED <<topic, docs, tested, failed, cut>>
        /\ \A s \in Topics : running[s] \subseteq running'[s]
        /\ \A s \in Topics \ {t} : position'[s] = position[s]
        /\ position'[t] = next
        /\ \E x \in running'[t] : x.at = next
    <3>1. [at |-> next, epoch |-> epoch] \in running'[t]
      BY <1>0, <1>2 DEF Deliver, TypeOK
    <3>2. QED
      BY <1>0, <1>2, <3>1 DEF Deliver, TypeOK
  <2>2. ASSUME NEW s \in Topics, NEW i \in DOMAIN topic[s] PROVE Placed(s, i)'
    <3>1. Placed(s, i)
      BY <1>0 DEF EveryEventAccounted, Placed, Passed
    <3>2. Passed(s, topic[s][i].hit) => Passed(s, topic[s][i].hit)'
      BY <2>1 DEF Passed, Left, Settled, HitsIn
    <3>3. i > position[s] => i > position'[s] \/ (s = t /\ i = next)
      BY <1>a, <2>1
    <3>4. QED
      BY <2>1, <3>1, <3>2, <3>3 DEF Placed
  <2>3. QED
    BY <2>1, <2>2 DEF EveryEventAccounted, Placed, Passed
<1>3. ASSUME NEW t \in Topics, Joined(t) \/ Commit(t) \/ Rebalance(t)
      PROVE  EveryEventAccounted'
  <2>1. /\ UNCHANGED <<topic, docs, tested, failed, cut, running>>
    BY <1>3 DEF Joined, Commit, Rebalance
  <2>2. \A s \in Topics : position'[s] <= position[s]
    <3>1. \A s \in Topics : /\ committed[s] \in Nat /\ position[s] \in Nat
                             /\ committed[s] <= position[s]
      BY <1>0 DEF TypeOK
    <3>2. CASE Joined(t)
      BY <1>0, <3>1, <3>2 DEF Joined, TypeOK
    <3>3. CASE Commit(t) \/ Rebalance(t)
      BY <3>1, <3>3 DEF Commit, Rebalance
    <3>4. QED
      BY <1>3, <3>2, <3>3
  <2>3. QED
    BY <1>0, <2>1, <2>2, AccountedFrame
<1>4. ASSUME NEW x \in running[1], Enrich(x) PROVE EveryEventAccounted'
  <2>1. /\ UNCHANGED <<position, docs, failed, cut>>
        /\ tested \subseteq tested'
        /\ \A s \in Topics : \A y \in running[s] : y \in running'[s] \/ (s = 1 /\ y = x)
    BY <1>0, <1>4 DEF Enrich, Finish, TypeOK
  <2>2. CASE HitOf(1, x) \in Tests
    <3>1. topic' = topic /\ HitOf(1, x) \in tested'
      BY <1>4, <2>2 DEF Enrich, HitOf
    <3>2. Passed(1, HitOf(1, x))'
      BY <3>1 DEF Passed, Left, HitOf
    <3>3. QED
      BY <1>0, <1>a, <2>1, <3>1, <3>2, AccountedFrame
  <2>3. CASE HitOf(1, x) \notin Tests
    <3>1. PICK n \in Writes : Appended(topic[2], topic'[2], Enriched(topic[1][x.at]), n)
      BY <1>0, <1>4, <2>3, EnrichAppends
    <3>2. \A s \in Topics : \A i \in DOMAIN topic[s] :
              i \in DOMAIN topic'[s] /\ topic'[s][i] = topic[s][i]
      BY <1>0, <1>4, <2>3, <3>1, EnrichAppends DEF Topics, Appended
    <3>3. HitOf(1, x) \in HitsIn(topic'[2]) /\ HitOf(1, x)' = HitOf(1, x)
      <4>1. Len(topic[2]) + 1 \in DOMAIN topic'[2] /\ Len(topic[2]) + 1 \notin DOMAIN topic[2]
        BY <1>a, <3>1 DEF Appended
      <4>2. topic'[2][Len(topic[2]) + 1].hit = HitOf(1, x)
        BY <1>0, <3>1, <4>1, EnrichedHit DEF Appended
      <4>3. topic'[1] = topic[1]
        BY <1>0, <1>4, <2>3, EnrichAppends
      <4>4. QED
        BY <4>1, <4>2, <4>3 DEF HitsIn, HitOf
    <3>4. Passed(1, HitOf(1, x))'
      BY <3>3 DEF Passed, Left
    <3>5. QED
      BY <1>0, <1>a, <2>1, <3>2, <3>4, AccountedFrame
  <2>4. QED
    BY <2>2, <2>3
<1>5. ASSUME NEW x \in running[2], Save(x) PROVE EveryEventAccounted'
  <2>1. /\ UNCHANGED <<topic, position, tested, failed, cut>>
        /\ \A s \in Topics : \A y \in running[s] : y \in running'[s] \/ (s = 2 /\ y = x)
    BY <1>0, <1>5 DEF Save, Finish, TypeOK
  <2>2. PICK n \in Writes : Appended(docs, docs', topic[2][x.at], n)
    BY <1>0, <1>5, SaveAppends
  <2>3. /\ \A i \in DOMAIN docs : i \in DOMAIN docs' /\ docs'[i] = docs[i]
        /\ HitOf(2, x) \in HitsIn(docs')
    <3>1. Len(docs) + 1 \in DOMAIN docs' /\ Len(docs) + 1 \notin DOMAIN docs
      BY <1>a, <2>2 DEF Appended
    <3>2. docs'[Len(docs) + 1].hit = HitOf(2, x)
      BY <2>2, <3>1 DEF Appended, HitOf
    <3>3. QED
      BY <2>2, <3>1, <3>2 DEF Appended, HitsIn
  <2>4. Passed(2, HitOf(2, x))'
    BY <2>1, <2>3 DEF Passed, Settled, HitOf
  <2>5. QED
    BY <1>0, <1>a, <2>1, <2>3, <2>4, AccountedFrame
<1>6. ASSUME NEW t \in Topics, NEW x \in running[t], Drop(t, x)
      PROVE  EveryEventAccounted'
  <2>1. /\ UNCHANGED <<topic, position, docs, tested, cut>>
        /\ failed \subseteq failed' /\ HitOf(t, x) \in failed'
        /\ \A s \in Topics : \A y \in running[s] : y \in running'[s] \/ (s = t /\ y = x)
    BY <1>0, <1>6 DEF Drop, Finish, TypeOK
  <2>2. Passed(t, HitOf(t, x))'
    BY <2>1 DEF Passed, Left, Settled, HitOf
  <2>3. QED
    BY <1>0, <1>a, <2>1, <2>2, AccountedFrame
<1>7. CASE Restart
  <2>1. /\ UNCHANGED <<topic, docs, tested, failed>>
        /\ cut \subseteq cut'
        /\ \A t \in Topics : \A x \in running[t] : HitOf(t, x) \in cut'
        /\ \A t \in Topics : position'[t] <= position[t]
    BY <1>0, <1>7 DEF Restart, TypeOK
  <2>2. \A t \in Topics : \A x \in running[t] : Passed(t, HitOf(t, x))'
    BY <2>1 DEF Passed, Left, Settled, HitOf
  <2>3. EveryEventAccounted'
    BY <1>0, <1>a, <2>1, <2>2, AccountedFrame
  <2>4. QED
    BY <1>0, <2>3 DEF AccountInv
<1>8. ASSUME NEW h \in Hits, TimesOut(h) PROVE EveryEventAccounted'
  <2>1. UNCHANGED <<topic, position, running, docs, tested, cut>> /\ failed \subseteq failed'
    BY <1>8 DEF TimesOut
  <2>2. \A t \in Topics : position'[t] <= position[t]
    BY <1>a, <2>1
  <2>3. QED
    BY <1>0, <1>a, <2>1, <2>2, AccountedFrame
<1>9. CASE UNCHANGED vars
  BY <1>9 DEF vars, AccountInv, TypeOK, Unmapped, EveryEventAccounted, Left, Settled, HitsIn
<1>10. QED
  BY StepCases, <1>0, <1>1, <1>2, <1>3, <1>4, <1>5, <1>6, <1>7, <1>8, <1>9 DEF AccountInv

(* No published hit vanishes (event_tracker.ts 65-123): each message is to *)
(* be delivered, in a handler, passed on, or lost to an error or a         *)
(* restart.                                                                *)
THEOREM EventsAreAccounted == Spec => []EveryEventAccounted
<1>1. Init => AccountInv
  BY InitTypeOK DEF Init, AccountInv, Unmapped, EveryEventAccounted, Topics
<1>2. AccountInv => EveryEventAccounted
  BY DEF AccountInv
<1>3. QED
  BY <1>1, <1>2, NextAccountInv, PTL DEF Spec

-----------------------------------------------------------------------------
(* Each hit outside H is in sequence s once at most.                       *)
Apart(s, H) ==
    \A i, j \in DOMAIN s : s[i].hit = s[j].hit => i = j \/ s[i].hit \in H

(* Of a hit that was neither delivered nor written again there is one      *)
(* message in a topic, with one handler at most ...                        *)
SingleMessage == \A t \in Topics : Apart(topic[t], again)

SingleHandler ==
    \A t \in Topics : \A x, y \in running[t] :
        HitOf(t, x) = HitOf(t, y) => x = y \/ HitOf(t, x) \in again

(* ... its documents come from topic 2, and that from topic 1 ...          *)
Lineage ==
    /\ HitsIn(topic[2]) \subseteq HitsIn(topic[1])
    /\ HitsIn(docs) \subseteq HitsIn(topic[2])

(* ... and once it is passed on, its message is delivered and its handler  *)
(* has finished.                                                           *)
Behind(t, h) ==
    \A i \in DOMAIN topic[t] : topic[t][i].hit = h =>
        i <= delivered[t] /\ \A x \in running[t] : x.at # i

PassedOnce ==
    \A h \in Hits \ again :
        /\ h \in HitsIn(topic[2]) => Behind(1, h)
        /\ h \in HitsIn(docs) => Behind(2, h)

Once == SingleMessage /\ SingleHandler /\ Lineage /\ PassedOnce
            /\ DuplicatesOnlyByRedelivery

OnceInv == TypeOK /\ Unmapped /\ Once

(* A step that writes nothing and starts no handler keeps all of that.     *)
LEMMA OnceFrame ==
  ASSUME OnceInv, topic' = topic, docs' = docs, delivered' = delivered, again' = again,
         \A t \in Topics : running'[t] \subseteq running[t]
  PROVE  Once'
<1>1. 1 \in Topics /\ 2 \in Topics
  BY DEF Topics
<1>2. \A t \in Topics, h \in Hits : Behind(t, h) => Behind(t, h)'
  BY DEF Behind
<1>3. SingleMessage' /\ Lineage' /\ DuplicatesOnlyByRedelivery'
  BY DEF OnceInv, Once, SingleMessage, Lineage, DuplicatesOnlyByRedelivery
<1>4. SingleHandler'
  BY DEF OnceInv, Once, SingleHandler, HitOf
<1>5. PassedOnce'
  BY <1>1, <1>2 DEF OnceInv, Once, PassedOnce, HitsIn
<1>6. QED
  BY <1>3, <1>4, <1>5 DEF Once

(* A handler of a hit that was not repeated is the only one, and the hit   *)
(* has not been passed on.                                                 *)
LEMMA HandlerIsFirst ==
  ASSUME OnceInv, NEW t \in Topics, NEW x \in running[t], HitOf(t, x) \notin again
  PROVE  /\ \A i \in DOMAIN topic[t] : topic[t][i].hit = HitOf(t, x) => i = x.at
         /\ \A y \in running[t] : y.at = x.at => y = x
         /\ ~ Behind(t, HitOf(t, x))
         /\ t = 1 => HitOf(t, x) \notin HitsIn(topic[2]) \cup HitsIn(docs)
         /\ t = 2 => HitOf(t, x) \notin HitsIn(docs)
<1>1. x.at \in DOMAIN topic[t] /\ HitOf(t, x) \in Hits
  BY HandlerType DEF OnceInv
<1>2. \A i \in DOMAIN topic[t] : topic[t][i].hit = HitOf(t, x) => i = x.at
  BY <1>1 DEF OnceInv, Once, SingleMessage, Apart, HitOf
<1>3. \A y \in running[t] : y.at = x.at => y = x
  BY DEF OnceInv, Once, SingleHandler, HitOf
<1>4. ~ Behind(t, HitOf(t, x))
  BY <1>1 DEF Behind, HitOf
<1>5. QED
  BY <1>1, <1>2, <1>3, <1>4 DEF OnceInv, Once, PassedOnce, Lineage

(* What one more write of a hit does to a sequence without that hit.       *)
LEMMA AppendedHits ==
  ASSUME NEW s \in Seq(Message), NEW w \in Seq(Message), NEW m \in Message,
         NEW n \in {1, 2}, Appended(s, w, m, n)
  PROVE  HitsIn(w) = HitsIn(s) \cup {m.hit}
<1>1. HitsIn(w) \subseteq HitsIn(s) \cup {m.hit}
  BY DEF Appended, HitsIn
<1>2. HitsIn(s) \subseteq HitsIn(w)
  BY DEF Appended, HitsIn
<1>3. m.hit \in HitsIn(w)
  <2>1. Len(s) + 1 \in DOMAIN w /\ Len(s) + 1 \notin DOMAIN s
    BY DEF Appended
  <2>2. QED
    BY <2>1 DEF Appended, HitsIn
<1>4. QED
  BY <1>1, <1>2, <1>3

(* A write of a hit that was not in the sequence, or counts as repeated,   *)
(* keeps the others apart.                                                 *)
LEMMA AppendedApart ==
  ASSUME NEW s \in Seq(Message), NEW w \in Seq(Message), NEW m \in Message,
         NEW n \in {1, 2}, Appended(s, w, m, n), NEW G, NEW H, Apart(s, G), G \subseteq H,
         n # 1 => m.hit \in H, m.hit \in HitsIn(s) => m.hit \in H
  PROVE  Apart(w, H)
<1>0. Len(s) \in Nat /\ DOMAIN s = 1..Len(s) /\ DOMAIN w = 1..(Len(s) + n)
  BY DEF Appended
<1> SUFFICES ASSUME NEW i \in DOMAIN w, NEW j \in DOMAIN w, w[i].hit = w[j].hit,
                    w[i].hit \notin H
             PROVE  i = j
  BY DEF Apart
<1>1. CASE w[i].hit = m.hit
  <2>1. n = 1
    BY <1>1
  <2>2. i \notin DOMAIN s /\ j \notin DOMAIN s
    <3>1. \A k \in DOMAIN s : w[k] = s[k] /\ s[k].hit \in HitsIn(s)
      BY DEF HitsIn, Appended
    <3>2. m.hit \notin HitsIn(s) /\ w[j].hit = m.hit
      BY <1>1
    <3>3. QED
      BY <1>1, <3>1, <3>2
  <2>3. QED
    BY <1>0, <2>1, <2>2
<1>2. CASE w[i].hit # m.hit
  <2>1. i \in DOMAIN s /\ j \in DOMAIN s /\ w[i] = s[i] /\ w[j] = s[j]
    BY <1>2 DEF Appended
  <2>2. QED
    BY <2>1 DEF Apart
<1>3. QED
  BY <1>1, <1>2

(* A step of a handler leaves the others' hits as they are.                *)
LEMMA HitsOfHandlers ==
  ASSUME TypeOK, \A t \in Topics : \A i \in DOMAIN topic[t] : topic'[t][i] = topic[t][i]
  PROVE  \A t \in Topics : \A x \in running[t] : HitOf(t, x)' = HitOf(t, x)
  BY HandlerType DEF HitOf

(* Every step keeps the hits that were not repeated apart.                 *)
LEMMA NextOnceInv ==
  ASSUME OnceInv, [Next]_vars
  PROVE  OnceInv'
<1> USE DEF consumer, repeats, store, doubt
<1>0. TypeOK /\ TypeOK' /\ Unmapped /\ Unmapped'
  BY NextTypeOK, NextUnmapped DEF OnceInv
<1>a. /\ \A t \in Topics : /\ topic[t] \in Seq(Message) /\ topic'[t] \in Seq(Message)
                           /\ position[t] \in Nat /\ delivered[t] \in Nat
                           /\ position[t] <= delivered[t]
      /\ docs \in Seq(Message) /\ docs' \in Seq(Message)
      /\ 1 \in Topics /\ 2 \in Topics
  BY <1>0 DEF TypeOK, Topics
<1>b. SingleMessage /\ SingleHandler /\ Lineage /\ PassedOnce /\ DuplicatesOnlyByRedelivery
  BY DEF OnceInv, Once
<1>1. ASSUME NEW h \in Hits, Publish(h) PROVE Once'
  <2>1. PICK n \in Writes : Note(h, n) /\ Appended(topic[1], topic'[1], Published(h), n)
    BY <1>0, <1>1, PublishAppends
  <2>2. /\ n \in {1, 2} /\ again \subseteq again' /\ (n # 1 => h \in again')
        /\ Published(h) \in Message /\ Published(h).hit = h
    BY <1>0, <2>1, WritesCount, MessageTypes
  <2>3. /\ topic'[2] = topic[2] /\ UNCHANGED <<docs, delivered, running>>
        /\ h \notin HitsIn(topic[1])
    BY <1>0, <1>1, PublishAppends DEF Publish, HitsIn
  <2>4. \A t \in Topics : \A i \in DOMAIN topic[t] :
            i \in DOMAIN topic'[t] /\ topic'[t][i] = topic[t][i]
    BY <2>1, <2>3 DEF Topics, Appended
  <2>5. SingleMessage'
    <3>1. Apart(topic'[1], again')
      BY <1>a, <1>b, <2>1, <2>2, <2>3, AppendedApart DEF SingleMessage
    <3>2. Apart(topic'[2], again')
      BY <1>a, <1>b, <2>2, <2>3 DEF SingleMessage, Apart
    <3>3. QED
      BY <3>1, <3>2 DEF SingleMessage, Topics
  <2>6. SingleHandler'
    BY <1>0, <1>b, <2>2, <2>3, <2>4, HitsOfHandlers DEF SingleHandler
  <2>7. Lineage'
    <3>1. HitsIn(topic'[1]) = HitsIn(topic[1]) \cup {h}
      BY <1>a, <2>1, <2>2, AppendedHits
    <3>2. QED
      BY <1>b, <2>3, <3>1 DEF Lineage
  <2>8. PassedOnce'
    <3>1. ASSUME NEW g \in Hits \ again', g \in HitsIn(topic[2]) PROVE Behind(1, g)'
      <4>1. Behind(1, g) /\ g # h
        BY <1>b, <2>2, <2>3, <3>1 DEF PassedOnce, Lineage
      <4>2. QED
        BY <2>1, <2>2, <2>3, <4>1 DEF Behind, Appended
    <3>2. ASSUME NEW g \in Hits \ again', g \in HitsIn(docs) PROVE Behind(2, g)'
      BY <1>b, <2>2, <2>3, <3>2 DEF PassedOnce, Behind
    <3>3. QED
      BY <2>3, <3>1, <3>2 DEF PassedOnce, HitsIn
  <2>9. DuplicatesOnlyByRedelivery'
    BY <1>b, <2>2, <2>3 DEF DuplicatesOnlyByRedelivery
  <2>10. QED
    BY <2>5, <2>6, <2>7, <2>8, <2>9 DEF Once
<1>2. ASSUME NEW t \in Topics, Deliver(t) PROVE Once'
  <2>a. PICK next, new : next = position[t] + 1 /\ new = [at |-> next, epoch |-> epoch]
    OBVIOUS
  <2>1. /\ UNCHANGED <<topic, docs>>
        /\ running'[t] = running[t] \cup {new}
        /\ \A s \in Topics \ {t} : running'[s] = running[s]
        /\ next \in DOMAIN topic[t]
        /\ again \subseteq again'
        /\ \A s \in Topics : delivered[s] <= delivered'[s]
        /\ next <= delivered[t] => topic[t][next].hit \in again'
    <3>1. UNCHANGED <<topic, docs>> /\ next <= Len(topic[t])
          /\ running' = [running EXCEPT ![t] = @ \cup {new}]
      BY <1>2, <2>a DEF Deliver
    <3>2. running \in [Topics -> SUBSET Handler] /\ delivered \in [Topics -> Nat]
      BY <1>0 DEF TypeOK
    <3>3. next \in DOMAIN topic[t]
      BY <1>a, <2>a, <3>1
    <3>4. CASE next <= delivered[t]
      <4>1. again' = again \cup {topic[t][next].hit} /\ delivered' = delivered
        BY <1>2, <2>a, <3>4 DEF Deliver
      <4>2. QED
        BY <3>1, <3>2, <3>3, <4>1
    <3>5. CASE ~ (next <= delivered[t])
      <4>1. delivered' = [delivered EXCEPT ![t] = next] /\ again' = again
        BY <1>2, <2>a, <3>5 DEF Deliver
      <4>2. \A s \in Topics : delivered[s] <= delivered'[s]
        BY <1>a, <2>a, <3>2, <3>5, <4>1
      <4>3. QED
        BY <2>a, <3>1, <3>2, <3>3, <3>5, <4>1, <4>2
    <3>6. QED
      BY <3>4, <3>5
  <2>2. \A s \in Topics : \A x \in running[s] :
            /\ x.at \in Nat /\ x.at \in DOMAIN topic[s] /\ x.at <= delivered[s]
            /\ HitOf(s, x)' = HitOf(s, x)
    <3>1. ASSUME NEW s \in Topics, NEW x \in running[s]
          PROVE  /\ x.at \in Nat /\ x.at \in DOMAIN topic[s] /\ x.at <= delivered[s]
                 /\ HitOf(s, x)' = HitOf(s, x)
      <4>1. x.at \in DOMAIN topic[s] /\ x.at \in 1..Len(topic[s])
        BY <1>0, <1>a, HandlerType
      <4>2. x.at <= delivered[s]
        BY <1>0 DEF TypeOK
      <4>3. QED
        BY <2>1, <4>1, <4>2 DEF HitOf
    <3>2. QED
      BY <3>1
  <2>3. HitOf(t, new)' = topic[t][next].hit /\ next \in Nat /\ new.at = next
    BY <1>a, <2>a, <2>1 DEF HitOf
  <2>4. SingleMessage' /\ Lineage' /\ DuplicatesOnlyByRedelivery'
    <3>1. SingleMessage'
      BY <1>b, <2>1 DEF SingleMessage, Apart
    <3>2. Lineage' /\ DuplicatesOnlyByRedelivery'
      BY <1>b, <2>1 DEF Lineage, DuplicatesOnlyByRedelivery
    <3>3. QED
      BY <3>1, <3>2
  <2>5. ASSUME NEW x \in running[t], HitOf(t, x) = topic[t][next].hit
        PROVE  HitOf(t, x) \in again'
    <3>1. CASE next <= delivered[t]
      BY <2>1, <2>5, <3>1
    <3>2. CASE ~ (next <= delivered[t])
      <4>1. x.at # next
        BY <2>2, <3>2
      <4>2. QED
        BY <1>b, <2>1, <2>2, <2>5, <4>1 DEF SingleMessage, Apart, HitOf
    <3>3. QED
      BY <3>1, <3>2
  <2>6. SingleHandler'
    <3>1. ASSUME NEW s \in Topics, NEW x \in running'[s], NEW y \in running'[s],
                 HitOf(s, x)' = HitOf(s, y)', x # y
          PROVE  HitOf(s, x)' \in again'
      <4>1. CASE x \in running[s] /\ y \in running[s]
        BY <1>b, <2>1, <2>2, <3>1, <4>1 DEF SingleHandler
      <4>2. CASE x \notin running[s]
        BY <2>1, <2>2, <2>3, <2>5, <3>1, <4>2
      <4>3. CASE y \notin running[s]
        BY <2>1, <2>2, <2>3, <2>5, <3>1, <4>3
      <4>4. QED
        BY <4>1, <4>2, <4>3
    <3>2. QED
      BY <3>1 DEF SingleHandler
  <2>7. PassedOnce'
    <3>1. ASSUME NEW s \in Topics, NEW g \in Hits \ again', Behind(s, g)
          PROVE  Behind(s, g)'
      <4>1. ASSUME NEW i \in DOMAIN topic[s], topic[s][i].hit = g
            PROVE  i <= delivered'[s] /\ \A x \in running'[s] : x.at # i
        <5>1. i <= delivered[s] /\ \A x \in running[s] : x.at # i
          BY <3>1, <4>1 DEF Behind
        <5>2. s = t => i # next
          BY <2>1, <3>1, <4>1, <5>1
        <5>3. i \in Nat /\ delivered'[s] \in Nat /\ delivered[s] \in Nat
          <6>1. i \in 1..Len(topic[s])
            BY <1>a, <4>1
          <6>2. delivered' \in [Topics -> Nat]
            BY <1>0 DEF TypeOK
          <6>3. QED
            BY <1>a, <6>1, <6>2
        <5>4. i <= delivered'[s]
          BY <2>1, <5>1, <5>3
        <5>5. QED
          BY <2>1, <2>3, <5>1, <5>2, <5>4
      <4>2. QED
        BY <2>1, <4>1 DEF Behind
    <3>2. QED
      BY <1>a, <1>b, <2>1, <3>1 DEF PassedOnce, HitsIn
  <2>8. QED
    BY <2>4, <2>6, <2>7 DEF Once
<1>3. ASSUME NEW t \in Topics, Joined(t) \/ Commit(t) \/ Rebalance(t) PROVE Once'
  BY <1>3, OnceFrame DEF Joined, Commit, Rebalance
<1>4. ASSUME NEW x \in running[1], Enrich(x) PROVE Once'
  <2>1. \A s \in Topics : running'[s] = IF s = 1 THEN running[1] \ {x} ELSE running[s]
    BY <1>0, <1>4 DEF Enrich, Finish, TypeOK
  <2>2. CASE HitOf(1, x) \in Tests
    BY <1>4, <2>1, <2>2, OnceFrame DEF Enrich, HitOf
  <2>3. CASE HitOf(1, x) \notin Tests
    <3>a. PICK h, m : h = HitOf(1, x) /\ m = Enriched(topic[1][x.at])
      OBVIOUS
    <3>1. PICK n \in Writes : Note(h, n) /\ Appended(topic[2], topic'[2], m, n)
      BY <1>0, <1>4, <2>3, <3>a, EnrichAppends
    <3>2. /\ topic'[1] = topic[1] /\ UNCHANGED <<docs, delivered>>
          /\ m \in Message /\ m.hit = h /\ h \in Hits /\ h \in HitsIn(topic[1])
      BY <1>0, <1>4, <1>a, <2>3, <3>a, EnrichAppends, EnrichedHit, HandlerType, MessageTypes
         DEF Enrich, HitsIn, HitOf
    <3>3. n \in {1, 2} /\ again \subseteq again' /\ (n # 1 => h \in again')
      BY <1>0, <3>1, <3>2, WritesCount
    <3>4. \A s \in Topics : \A i \in DOMAIN topic[s] :
              i \in DOMAIN topic'[s] /\ topic'[s][i] = topic[s][i]
      BY <3>1, <3>2 DEF Topics, Appended
    <3>5. h \notin again' => /\ h \notin HitsIn(topic[2]) \cup HitsIn(docs)
                             /\ \A i \in DOMAIN topic[1] : topic[1][i].hit = h => i = x.at
                             /\ \A y \in running[1] : y.at = x.at => y = x
      BY <1>a, <3>a, <3>3, HandlerIsFirst
    <3>6. SingleMessage'
      <4>1. Apart(topic'[2], again')
        BY <1>a, <1>b, <3>1, <3>2, <3>3, <3>5, AppendedApart DEF SingleMessage
      <4>2. Apart(topic'[1], again')
        BY <1>a, <1>b, <3>2, <3>3 DEF SingleMessage, Apart
      <4>3. QED
        BY <4>1, <4>2 DEF SingleMessage, Topics
    <3>7. SingleHandler'
      BY <1>0, <1>b, <2>1, <3>3, <3>4, HitsOfHandlers DEF SingleHandler
    <3>8. HitsIn(topic'[2]) = HitsIn(topic[2]) \cup {h}
      BY <1>a, <3>1, <3>2, <3>3, AppendedHits
    <3>9. Lineage'
      BY <1>b, <3>2, <3>8 DEF Lineage
    <3>10. PassedOnce'
      <4>1. ASSUME NEW g \in Hits \ again', g \in HitsIn(topic[2]) PROVE Behind(1, g)'
        BY <1>a, <1>b, <2>1, <3>2, <3>3, <4>1 DEF PassedOnce, Behind
      <4>2. ASSUME h \notin again' PROVE Behind(1, h)'
        <5>1. x.at <= delivered[1]
          BY <1>0, <1>a DEF TypeOK
        <5>2. QED
          BY <1>a, <2>1, <3>2, <3>5, <4>2, <5>1 DEF Behind
      <4>3. ASSUME NEW g \in Hits \ again', g \in HitsIn(docs) PROVE Behind(2, g)'
        <5>1. Behind(2, g) /\ g # h
          BY <1>b, <3>3, <3>5, <4>3 DEF PassedOnce
        <5>2. QED
          BY <1>a, <2>1, <3>1, <3>2, <5>1 DEF Behind, Appended
      <4>4. QED
        BY <3>2, <3>8, <4>1, <4>2, <4>3 DEF PassedOnce, HitsIn
    <3>11. DuplicatesOnlyByRedelivery'
      BY <1>b, <3>2, <3>3 DEF DuplicatesOnlyByRedelivery
    <3>12. QED
      BY <3>6, <3>7, <3>9, <3>10, <3>11 DEF Once
  <2>4. QED
    BY <2>2, <2>3
<1>5. ASSUME NEW x \in running[2], Save(x) PROVE Once'
  <2>a. PICK h, m : h = HitOf(2, x) /\ m = topic[2][x.at]
    OBVIOUS
  <2>1. PICK n \in Writes : Note(h, n) /\ Appended(docs, docs', m, n)
    BY <1>0, <1>5, <2>a, SaveAppends
  <2>2. /\ UNCHANGED <<topic, delivered>>
        /\ m \in Message /\ m.hit = h /\ h \in Hits /\ h \in HitsIn(topic[2])
    BY <1>0, <1>5, <1>a, <2>a, HandlerType DEF Save, HitsIn, HitOf
  <2>3. n \in {1, 2} /\ again \subseteq again' /\ (n # 1 => h \in again')
    BY <1>0, <2>1, <2>2, WritesCount
  <2>4. \A s \in Topics : running'[s] = IF s = 2 THEN running[2] \ {x} ELSE running[s]
    BY <1>0, <1>5 DEF Save, Finish, TypeOK
  <2>5. h \notin again' => /\ h \notin HitsIn(docs)
                           /\ \A i \in DOMAIN topic[2] : topic[2][i].hit = h => i = x.at
                           /\ \A y \in running[2] : y.at = x.at => y = x
    BY <1>a, <2>a, <2>3, HandlerIsFirst
  <2>6. HitsIn(docs') = HitsIn(docs) \cup {h}
    BY <1>a, <2>1, <2>2, <2>3, AppendedHits
  <2>7. SingleMessage' /\ Lineage'
    <3>1. SingleMessage'
      BY <1>b, <2>2, <2>3 DEF SingleMessage, Apart
    <3>2. Lineage'
      BY <1>b, <2>2, <2>6 DEF Lineage
    <3>3. QED
      BY <3>1, <3>2
  <2>8. SingleHandler'
    BY <1>0, <1>b, <2>2, <2>3, <2>4, HitsOfHandlers DEF SingleHandler
  <2>9. PassedOnce'
    <3>1. ASSUME NEW s \in Topics, NEW g \in Hits, Behind(s, g) PROVE Behind(s, g)'
      BY <2>2, <2>4, <3>1 DEF Behind
    <3>2. ASSUME h \notin again' PROVE Behind(2, h)'
      <4>1. x.at <= delivered[2]
        BY <1>0, <1>a DEF TypeOK
      <4>2. QED
        BY <1>a, <2>2, <2>4, <2>5, <3>2, <4>1 DEF Behind
    <3>3. QED
      BY <1>a, <1>b, <2>2, <2>3, <2>6, <3>1, <3>2, ZenonT(40) DEF PassedOnce, HitsIn
  <2>10. DuplicatesOnlyByRedelivery'
    <3>1. Apart(docs, again)
      BY <1>b DEF Apart, DuplicatesOnlyByRedelivery
    <3>2. Apart(docs', again')
      BY <1>a, <2>1, <2>2, <2>3, <2>5, <3>1, AppendedApart
    <3>3. QED
      BY <3>2 DEF Apart, DuplicatesOnlyByRedelivery
  <2>11. QED
    BY <2>7, <2>8, <2>9, <2>10 DEF Once
<1>6. ASSUME NEW t \in Topics, NEW x \in running[t], Drop(t, x) PROVE Once'
  <2>1. \A s \in Topics : running'[s] \subseteq running[s]
    BY <1>0, <1>6 DEF Drop, Finish, TypeOK
  <2>2. QED
    BY <1>6, <2>1, OnceFrame DEF Drop
<1>7. CASE Restart
  <2>1. Once'
    BY <1>7, OnceFrame DEF Restart
  <2>2. QED
    BY <1>0, <2>1 DEF OnceInv
<1>8. ASSUME NEW h \in Hits, TimesOut(h) PROVE Once'
  BY <1>8, OnceFrame DEF TimesOut
<1>9. CASE UNCHANGED vars
  <2>1. Once'
    BY <1>9, OnceFrame DEF vars
  <2>2. QED
    BY <1>0, <2>1 DEF OnceInv
<1>10. QED
  BY StepCases, <1>0, <1>1, <1>2, <1>3, <1>4, <1>5, <1>6, <1>7, <1>8, <1>9 DEF OnceInv

(* Nothing is in topics or index at first.                                 *)
LEMMA InitOnce ==
  ASSUME Init
  PROVE  OnceInv
<1>1. \A t \in Topics : DOMAIN topic[t] = {} /\ running[t] = {}
  BY DEF Init
<1>2. DOMAIN docs = {} /\ 1 \in Topics /\ 2 \in Topics
  BY DEF Init, Topics
<1>3. HitsIn(topic[2]) = {} /\ HitsIn(docs) = {}
  BY <1>1, <1>2 DEF HitsIn
<1>4. TypeOK /\ Unmapped
  BY <1>1, <1>2, InitTypeOK DEF Unmapped
<1>5. SingleMessage /\ SingleHandler /\ DuplicatesOnlyByRedelivery
  BY <1>1, <1>2 DEF SingleMessage, SingleHandler, Apart, DuplicatesOnlyByRedelivery
<1>6. Lineage /\ PassedOnce
  BY <1>3 DEF Lineage, PassedOnce
<1>7. QED
  BY <1>4, <1>5, <1>6 DEF OnceInv, Once

(* A hit is stored twice only after a redelivery or a repeated write       *)
(* (event_tracker.ts 80-119, kafka.js 38-45 and 378-391).                  *)
THEOREM DuplicatesAreRedeliveries == Spec => []DuplicatesOnlyByRedelivery
<1>1. OnceInv => DuplicatesOnlyByRedelivery
  BY DEF OnceInv, Once
<1>2. QED
  BY <1>1, InitOnce, NextOnceInv, PTL DEF Spec

-----------------------------------------------------------------------------
(* Nothing of hit h is to come from topics 1 and 2 that was not repeated.  *)
Through(h) == Behind(1, h) /\ Behind(2, h)

(* No test is passed on.                                                   *)
NoTests == \A i \in DOMAIN topic[2] : topic[2][i].hit \notin Tests

(* What is tested, lost or in doubt was published.  What is tested is at   *)
(* its end, unless it is repeated, and so is what is lost, unless a write  *)
(* of it took effect unanswered.                                           *)
Fates ==
    /\ NoTests
    /\ tested \cup failed \cup cut \cup doubtful \subseteq HitsIn(topic[1])
    /\ \A h \in Hits \ again :
          h \in tested \/ h \in (failed \cup cut) \ doubtful => Through(h)

FateInv == OnceInv /\ Fates

(* A published hit that is at its end stays there, unless it is repeated.  *)
LEMMA ThroughStays ==
  ASSUME OnceInv, TypeOK', [Next]_vars, NEW h \in Hits, h \in HitsIn(topic[1]), h \notin again',
         Through(h)
  PROVE  Through(h)'
<1> USE DEF consumer, repeats, store, doubt
<1>0. TypeOK /\ 1 \in Topics /\ 2 \in Topics
  BY DEF OnceInv, Topics
<1>a. ASSUME topic' = topic, delivered' = delivered,
             \A t \in Topics : running'[t] \subseteq running[t]
      PROVE  Through(h)'
  BY <1>0, <1>a DEF Through, Behind
<1>1. ASSUME NEW g \in Hits, Publish(g) PROVE Through(h)'
  <2>1. PICK n \in Writes : Note(g, n) /\ Appended(topic[1], topic'[1], Published(g), n)
    BY <1>0, <1>1, PublishAppends
  <2>2. Published(g).hit = g /\ g # h
    BY <1>1, MessageTypes DEF Publish, HitsIn
  <2>3. topic'[2] = topic[2] /\ running' = running /\ delivered' = delivered
    BY <1>0, <1>1, PublishAppends DEF Publish
  <2>4. \A i \in DOMAIN topic'[1] : topic'[1][i].hit = h =>
            i \in DOMAIN topic[1] /\ topic[1][i].hit = h
    BY <2>1, <2>2 DEF Appended
  <2>5. QED
    BY <2>3, <2>4 DEF Through, Behind
<1>2. ASSUME NEW t \in Topics, Deliver(t) PROVE Through(h)'
  <2> DEFINE next == position[t] + 1
  <2>0. /\ \A s \in Topics : delivered[s] \in Nat /\ delivered'[s] \in Nat
        /\ position[t] \in Nat /\ topic[t] \in Seq(Message) /\ next <= Len(topic[t])
    BY <1>0, <1>2 DEF Deliver, TypeOK
  <2>1. next \in DOMAIN topic[t]
    BY <2>0
  <2>2. topic[t][next].hit # h
    <3>1. SUFFICES ASSUME topic[t][next].hit = h PROVE FALSE
      OBVIOUS
    <3>2. Behind(t, h)
      BY DEF Through, Topics
    <3>3. next <= delivered[t]
      BY <2>0, <2>1, <3>1, <3>2 DEF Behind
    <3>4. h \in again'
      BY <1>2, <3>1, <3>3 DEF Deliver
    <3>5. QED
      BY <3>4
  <2>3. topic' = topic /\ \A s \in Topics : delivered[s] <= delivered'[s]
    <3>1. CASE next <= delivered[t]
      BY <1>2, <2>0, <3>1 DEF Deliver
    <3>2. CASE ~ (next <= delivered[t])
      <4>1. delivered' = [delivered EXCEPT ![t] = next] /\ topic' = topic /\ delivered[t] <= next
        BY <1>2, <2>0, <3>2 DEF Deliver
      <4>2. delivered \in [Topics -> Nat]
        BY <1>0 DEF TypeOK
      <4>3. \A s \in Topics : delivered'[s] = IF s = t THEN next ELSE delivered[s]
        BY <4>1, <4>2
      <4>4. QED
        BY <2>0, <4>1, <4>3
    <3>3. QED
      BY <3>1, <3>2
  <2>4. \A s \in Topics : \A x \in running'[s] : x \in running[s] \/ (s = t /\ x.at = next)
    BY <1>0, <1>2 DEF Deliver, TypeOK
  <2>5. ASSUME NEW s \in Topics, Behind(s, h) PROVE Behind(s, h)'
    <3>1. SUFFICES ASSUME NEW i \in DOMAIN topic[s], topic[s][i].hit = h
                   PROVE  i <= delivered'[s] /\ \A x \in running'[s] : x.at # i
      BY <2>3 DEF Behind
    <3>2. i <= delivered[s] /\ (\A x \in running[s] : x.at # i) /\ i \in Nat
      <4>1. topic[s] \in Seq(Message)
        BY <1>0 DEF TypeOK
      <4>2. QED
        BY <2>5, <3>1, <4>1 DEF Behind
    <3>3. s = t => i # next
      BY <2>2, <3>1
    <3>4. QED
      BY <2>0, <2>3, <2>4, <3>2, <3>3
  <2>6. QED
    BY <1>0, <2>5 DEF Through
<1>3. ASSUME NEW x \in running[1], Enrich(x) PROVE Through(h)'
  <2>1. HitOf(1, x) # h
    BY <1>0, HandlerType DEF HitOf, Through, Behind
  <2>2. delivered' = delivered /\ \A t \in Topics : running'[t] \subseteq running[t]
    BY <1>0, <1>3 DEF Enrich, Finish, TypeOK
  <2>3. CASE HitOf(1, x) \in Tests
    BY <1>3, <1>a, <2>2, <2>3 DEF Enrich, HitOf
  <2>4. CASE HitOf(1, x) \notin Tests
    <3>1. PICK n \in Writes : Appended(topic[2], topic'[2], Enriched(topic[1][x.at]), n)
      BY <1>0, <1>3, <2>4, EnrichAppends
    <3>2. topic'[1] = topic[1] /\ Enriched(topic[1][x.at]).hit # h
      BY <1>0, <1>3, <2>1, <2>4, EnrichAppends, EnrichedHit
    <3>3. \A i \in DOMAIN topic'[2] : topic'[2][i].hit = h =>
              i \in DOMAIN topic[2] /\ topic[2][i].hit = h
      BY <3>1, <3>2 DEF Appended
    <3>4. QED
      BY <1>0, <2>2, <3>2, <3>3 DEF Through, Behind
  <2>5. QED
    BY <2>3, <2>4
<1>4. ASSUME NEW t \in Topics, Joined(t) \/ Commit(t) \/ Rebalance(t) PROVE Through(h)'
  BY <1>4, <1>a DEF Joined, Commit, Rebalance
<1>5. ASSUME NEW x \in running[2], Save(x) PROVE Through(h)'
  BY <1>0, <1>5, <1>a DEF Save, Finish, TypeOK
<1>6. ASSUME NEW t \in Topics, NEW x \in running[t], Drop(t, x) PROVE Through(h)'
  BY <1>0, <1>6, <1>a DEF Drop, Finish, TypeOK
<1>7. CASE Restart
  BY <1>7, <1>a DEF Restart
<1>8. ASSUME NEW g \in Hits, TimesOut(g) PROVE Through(h)'
  BY <1>8, <1>a DEF TimesOut
<1>9. CASE UNCHANGED vars
  BY <1>9, <1>a DEF vars
<1>10. QED
  BY StepCases, <1>1, <1>2, <1>3, <1>4, <1>5, <1>6, <1>7, <1>8, <1>9

(* A hit is at its end when its handler finishes and passes nothing on,    *)
(* unless it was repeated.                                                 *)
LEMMA FinishedIsThrough ==
  ASSUME OnceInv, NEW t \in Topics, NEW x \in running[t],
         NEW h \in Hits, h = HitOf(t, x), h \notin again,
         topic' = topic, delivered' = delivered, x \notin running'[t],
         \A s \in Topics : running'[s] \subseteq running[s]
  PROVE  Through(h)'
<1>0. TypeOK /\ 1 \in Topics /\ 2 \in Topics
  BY DEF OnceInv, Topics
<1>1. x.at \in DOMAIN topic[t]
  BY <1>0, HandlerType
<1>3. x.at <= delivered[t]
  BY <1>0 DEF TypeOK
<1>4. \A i \in DOMAIN topic[t] : topic[t][i].hit = h => i = x.at
  BY HandlerIsFirst
<1>5. \A y \in running[t] : y.at = x.at => y = x
  BY HandlerIsFirst
<1>6. \A i \in DOMAIN topic[t] : topic[t][i].hit = h =>
          i <= delivered[t] /\ \A y \in running'[t] : y.at # i
  BY <1>3, <1>4, <1>5
<1>7. CASE t = 1
  <2>1. \A i \in DOMAIN topic[2] : topic[2][i].hit # h
    BY <1>7, HandlerIsFirst DEF HitsIn
  <2>2. QED
    BY <1>6, <1>7, <2>1 DEF Through, Behind
<1>8. CASE t = 2
  <2>1. h \in HitsIn(topic[2])
    BY <1>1, <1>8 DEF HitsIn, HitOf
  <2>2. Behind(1, h)
    BY <1>1, <2>1 DEF OnceInv, Once, PassedOnce
  <2>3. QED
    BY <1>0, <1>6, <1>8, <2>2 DEF Through, Behind
<1>9. QED
  BY <1>7, <1>8 DEF Topics

(* The fates of a hit are told apart by the hits at their end.             *)
LEMMA HandledIsOpen ==
  ASSUME FateInv, NEW t \in Topics, NEW x \in running[t]
  PROVE  /\ HitOf(t, x) \in Hits
         /\ HitOf(t, x) \in HitsIn(topic[1])
         /\ Recorded!Open(HitOf(t, x))
         /\ Recorded!Losable(HitOf(t, x))
<1> DEFINE h == HitOf(t, x)
<1>0. OnceInv /\ TypeOK /\ Lineage /\ 1 \in Topics /\ 2 \in Topics
  BY DEF FateInv, OnceInv, Once, Topics
<1>1. x.at \in DOMAIN topic[t] /\ h \in Hits
  BY <1>0, HandlerType
<1>2. h \in HitsIn(topic[1])
  BY <1>0, <1>1 DEF Topics, HitsIn, HitOf, Lineage
<1>3. CASE h \in again
  BY <1>1, <1>2, <1>3 DEF Recorded!Open, Recorded!Losable
<1>4. CASE h \notin again
  <2>1. ~ Behind(t, h) /\ h \notin HitsIn(docs)
    BY <1>0, <1>4, HandlerIsFirst DEF Topics
  <2>2. ~ Through(h)
    BY <2>1 DEF Through, Topics
  <2>3. h \notin tested /\ (h \in doubtful \/ h \notin failed \cup cut)
    BY <1>1, <1>4, <2>2 DEF FateInv, Fates
  <2>4. \A i \in DOMAIN Stored : Stored[i] # h
    BY <2>1 DEF Stored, HitsIn
  <2>5. ~ Recorded!Arrived(h)
    BY <2>3, <2>4 DEF Recorded!Arrived
  <2>6. QED
    BY <1>1, <1>2, <2>3, <2>5 DEF Recorded!Open, Recorded!Losable
<1>5. QED
  BY <1>3, <1>4

(* Publishing makes a hit known, and the other steps make none.            *)
LEMMA PublishedGrows ==
  ASSUME TypeOK, TypeOK', [Next]_vars
  PROVE  HitsIn(topic[1]) \subseteq HitsIn(topic'[1])
<1>1. ASSUME NEW h \in Hits, Publish(h) PROVE HitsIn(topic[1]) \subseteq HitsIn(topic'[1])
  BY <1>1, PublishAppends DEF Appended, HitsIn
<1>2. ASSUME NEW x \in running[1], Enrich(x) PROVE topic'[1] = topic[1]
  <2>1. CASE HitOf(1, x) \in Tests
    BY <1>2, <2>1 DEF Enrich, HitOf
  <2>2. CASE HitOf(1, x) \notin Tests
    BY <1>2, <2>2, EnrichAppends
  <2>3. QED
    BY <2>1, <2>2
<1>3. QED
  BY StepCases, <1>1, <1>2 DEF Deliver, Joined, Commit, Rebalance, Save, Drop,
     TimesOut, Restart, vars

(* A step that ends the way of hits hs: they were published, and nothing   *)
(* of them is to come.  What else it loses is in doubt.                    *)
Ends(hs) ==
    /\ tested' \subseteq tested \cup hs
    /\ failed' \cup cut' \subseteq failed \cup cut \cup hs \cup doubtful
    /\ hs \cup doubtful' \subseteq HitsIn(topic[1])
    /\ \A h \in hs \ again : Through(h)'

LEMMA FatesFrame ==
  ASSUME FateInv, OnceInv', [Next]_vars, NoTests', NEW hs \in SUBSET Hits, Ends(hs)
  PROVE  Fates'
<1>0. OnceInv /\ TypeOK /\ TypeOK' /\ Fates
  BY DEF FateInv, OnceInv
<1>1. HitsIn(topic[1]) \subseteq HitsIn(topic'[1])
  BY <1>0, PublishedGrows
<1>2. again \subseteq again'
  <2>1. ASSUME NEW h, NEW n \in Writes, Note(h, n) PROVE again \subseteq again'
    BY <2>1 DEF Note
  <2>2. ASSUME NEW x \in running[2], Save(x) PROVE again \subseteq again'
    BY <1>0, <2>1, <2>2, SaveAppends DEF OnceInv
  <2>3. QED
    BY StepCases, <2>1, <2>2 DEF Publish, Deliver, Joined, Commit, Rebalance, Enrich, Drop,
       TimesOut, Restart, vars, repeats, consumer
<1>3. tested' \cup failed' \cup cut' \cup doubtful' \subseteq HitsIn(topic'[1])
  BY <1>0, <1>1 DEF Fates, Ends
<1>d. doubtful \subseteq doubtful'
  BY <1>0, DoubtGrows
<1>4. ASSUME NEW h \in Hits \ again', h \in tested' \/ h \in (failed' \cup cut') \ doubtful'
      PROVE  Through(h)'
  <2>1. CASE h \in hs
    BY <1>2, <1>4, <2>1 DEF Ends
  <2>2. CASE h \notin hs
    <3>1. (h \in tested \/ h \in (failed \cup cut) \ doubtful) /\ h \notin again
      BY <1>2, <1>4, <1>d, <2>2 DEF Ends
    <3>2. Through(h) /\ h \in HitsIn(topic[1])
      BY <1>0, <3>1 DEF Fates
    <3>3. QED
      BY <1>0, <1>4, <3>2, ThroughStays
  <2>3. QED
    BY <2>1, <2>2
<1>5. QED
  BY <1>3, <1>4 DEF Fates

(* A step adds to what is tested or lost only hits that it brings to their *)
(* end.                                                                    *)
LEMMA NextFates ==
  ASSUME FateInv, OnceInv', [Next]_vars
  PROVE  Fates'
<1> USE DEF consumer, repeats, store, doubt
<1>0. OnceInv /\ TypeOK /\ TypeOK' /\ NoTests /\ 1 \in Topics /\ 2 \in Topics
  BY DEF FateInv, OnceInv, Fates, Topics
<1>p. doubtful \subseteq HitsIn(topic[1]) /\ waiting \subseteq doubtful
  BY <1>0 DEF FateInv, Fates, TypeOK
<1>a. ASSUME NoTests', UNCHANGED <<tested, failed, cut>>, doubtful' \subseteq HitsIn(topic[1])
      PROVE  Fates'
  <2>1. Ends({})
    BY <1>a DEF Ends
  <2>2. QED
    BY <1>a, <2>1, FatesFrame
<1>b. ASSUME NEW h \in HitsIn(topic[1]), Answered \/ Unanswered(h)
      PROVE  doubtful' \subseteq HitsIn(topic[1])
  BY <1>b, <1>p DEF Answered, Unanswered
<1>1. ASSUME NEW h \in Hits, Publish(h) PROVE Fates'
  BY <1>0, <1>1, <1>a, <1>p, PublishAppends DEF Publish, NoTests
<1>2. ASSUME NEW t \in Topics, Deliver(t) \/ Joined(t) \/ Commit(t) \/ Rebalance(t) PROVE Fates'
  BY <1>0, <1>2, <1>a, <1>p DEF Deliver, Joined, Commit, Rebalance, NoTests
<1>3. ASSUME NEW x \in running[1], Enrich(x) PROVE Fates'
  <2>1. PICK h \in Hits : h = HitOf(1, x)
    BY <1>0, HandledIsOpen
  <2>2. h \in HitsIn(topic[1])
    BY <1>0, <2>1, HandledIsOpen
  <2>a. doubtful' \subseteq HitsIn(topic[1])
    BY <1>3, <1>b, <2>1, <2>2 DEF Enrich, HitOf
  <2>3. CASE h \in Tests
    <3>1. /\ topic' = topic /\ delivered' = delivered
          /\ tested' = tested \cup {h} /\ failed' = failed /\ cut' = cut
      BY <1>3, <2>1, <2>3 DEF Enrich, HitOf
    <3>2. x \notin running'[1] /\ \A s \in Topics : running'[s] \subseteq running[s]
      BY <1>0, <1>3 DEF Enrich, Finish, TypeOK
    <3>3. h \notin again => Through(h)'
      BY <1>0, <2>1, <3>1, <3>2, FinishedIsThrough
    <3>4. Ends({h}) /\ NoTests'
      BY <1>0, <2>2, <2>a, <3>1, <3>3 DEF Ends, NoTests
    <3>5. QED
      BY <3>4, FatesFrame
  <2>4. CASE h \notin Tests
    <3>1. PICK n \in Writes : Appended(topic[2], topic'[2], Enriched(topic[1][x.at]), n)
      BY <1>0, <1>3, <2>1, <2>4, EnrichAppends
    <3>2. Enriched(topic[1][x.at]).hit = h
      BY <1>0, <2>1, EnrichedHit
    <3>3. NoTests'
      BY <1>0, <2>4, <3>1, <3>2 DEF Appended, NoTests
    <3>4. tested' = tested /\ failed' = failed /\ cut' = cut
      BY <1>3, <2>1, <2>4 DEF Enrich, HitOf
    <3>5. QED
      BY <1>a, <2>a, <3>3, <3>4
  <2>5. QED
    BY <2>3, <2>4
<1>4. ASSUME NEW x \in running[2], Save(x) PROVE Fates'
  <2>1. HitOf(2, x) \in HitsIn(topic[1])
    BY <1>0, HandledIsOpen
  <2>2. doubtful' \subseteq HitsIn(topic[1])
    BY <1>4, <1>b, <2>1 DEF Save, HitOf
  <2>3. QED
    BY <1>0, <1>4, <1>a, <2>2 DEF Save, NoTests
<1>5. ASSUME NEW t \in Topics, NEW x \in running[t], Drop(t, x) PROVE Fates'
  <2>1. PICK h \in Hits : h = HitOf(t, x)
    BY <1>0, HandledIsOpen
  <2>2. h \in HitsIn(topic[1])
    BY <1>0, <2>1, HandledIsOpen
  <2>3. /\ topic' = topic /\ delivered' = delivered
        /\ tested' = tested /\ failed' = failed \cup {h} /\ cut' = cut
        /\ doubtful' = doubtful
    BY <1>5, <2>1 DEF Drop
  <2>4. x \notin running'[t] /\ \A s \in Topics : running'[s] \subseteq running[s]
    BY <1>0, <1>5 DEF Drop, Finish, TypeOK
  <2>5. h \notin again => Through(h)'
    BY <1>0, <2>1, <2>3, <2>4, FinishedIsThrough
  <2>6. Ends({h}) /\ NoTests'
    BY <1>0, <1>p, <2>2, <2>3, <2>5 DEF Ends, NoTests
  <2>7. QED
    BY <2>6, FatesFrame
<1>6. CASE Restart
  <2>1. PICK hs \in SUBSET Hits : hs = UNION {{HitOf(t, x) : x \in running[t]} : t \in Topics}
    <3>1. \A t \in Topics : \A x \in running[t] : HitOf(t, x) \in Hits
      BY <1>0, HandlerType
    <3>2. UNION {{HitOf(t, x) : x \in running[t]} : t \in Topics} \in SUBSET Hits
      BY <3>1
    <3>3. QED
      BY <3>2
  <2>2. /\ topic' = topic /\ delivered' = delivered
        /\ tested' = tested /\ failed' = failed /\ cut' = cut \cup waiting \cup hs
        /\ running' = [t \in Topics |-> {}] /\ doubtful' = doubtful
    BY <1>6, <2>1 DEF Restart
  <2>3. ASSUME NEW h \in hs
        PROVE  h \in HitsIn(topic[1]) /\ (h \notin again => Through(h)')
    <3>1. PICK t \in Topics : \E x \in running[t] : h = HitOf(t, x)
      BY <2>1
    <3>2. PICK x \in running[t] : h = HitOf(t, x)
      BY <3>1
    <3>3. h \in Hits /\ h \in HitsIn(topic[1])
      BY <3>2, HandledIsOpen
    <3>4. h \notin again => Through(h)'
      BY <1>0, <2>2, <3>2, <3>3, FinishedIsThrough
    <3>5. QED
      BY <3>3, <3>4
  <2>4. Ends(hs) /\ NoTests'
    BY <1>0, <1>p, <2>2, <2>3 DEF Ends, NoTests
  <2>5. QED
    BY <2>4, FatesFrame
<1>7. ASSUME NEW h \in Hits, TimesOut(h) PROVE Fates'
  <2>1. /\ topic' = topic /\ tested' = tested /\ cut' = cut /\ doubtful' = doubtful
        /\ failed' = failed \cup {h} /\ h \in doubtful
    BY <1>7, <1>p DEF TimesOut
  <2>2. Ends({}) /\ NoTests'
    BY <1>0, <1>p, <2>1 DEF Ends, NoTests
  <2>3. QED
    BY <2>2, FatesFrame
<1>8. CASE UNCHANGED vars
  BY <1>0, <1>8, <1>a, <1>p DEF vars, NoTests
<1>9. QED
  BY StepCases, <1>1, <1>2, <1>3, <1>4, <1>5, <1>6, <1>7, <1>8

-----------------------------------------------------------------------------
(* Each write to the index is a record of its hit.                         *)
HitSeq(s) == [i \in DOMAIN s |-> s[i].hit]

LEMMA StoredGrows ==
  ASSUME NEW w \in Seq(Message), NEW s \in Seq(Message), NEW m \in Message, NEW n \in {1, 2},
         Appended(s, w, m, n)
  PROVE  /\ n = 1 => HitSeq(w) = Append(HitSeq(s), m.hit)
         /\ n = 2 => HitSeq(w) = HitSeq(s) \o <<m.hit, m.hit>>
<1> DEFINE a == [i \in DOMAIN s |-> s[i].hit]
           b == [i \in DOMAIN w |-> w[i].hit]
<1>1. /\ Len(s) \in Nat /\ DOMAIN s = 1..Len(s)
      /\ DOMAIN w = 1..(Len(s) + n)
  BY DEF Appended
<1>2. /\ \A i \in DOMAIN s : w[i] = s[i]
      /\ \A i \in DOMAIN w : i \notin DOMAIN s => w[i] = m
  BY DEF Appended
<1>3. a \in Seq(Hits) /\ Len(a) = Len(s) /\ m.hit \in Hits
  <2>1. \A i \in 1..Len(s) : s[i].hit \in Hits
    BY ElementType
  <2>2. a = [i \in 1..Len(s) |-> s[i].hit]
    BY <1>1
  <2>3. a \in Seq(Hits) /\ Len(a) = Len(s)
    BY <1>1, <2>1, <2>2
  <2>4. QED
    BY <2>3 DEF Message
<1>4. \A i \in 1..Len(s) : a[i] = s[i].hit
  BY <1>1
<1>5. \A i \in 1..(Len(s) + n) : b[i] = IF i <= Len(s) THEN a[i] ELSE m.hit
  BY <1>1, <1>2, <1>4
<1>6. b \in Seq(Hits) /\ Len(b) = Len(s) + n
  <2>1. \A i \in 1..(Len(s) + n) : b[i] \in Hits
    BY <1>1, <1>3, <1>5
  <2>2. b = [i \in 1..(Len(s) + n) |-> w[i].hit]
    BY <1>1
  <2>3. QED
    BY <1>1, <2>1, <2>2
<1> HIDE DEF a, b
<1>7. ASSUME n = 1 PROVE b = Append(a, m.hit)
  BY <1>3, <1>5, <1>6, <1>7
<1>8. ASSUME n = 2 PROVE b = a \o <<m.hit, m.hit>>
  <2> DEFINE c == <<m.hit, m.hit>>
  <2>1. c \in Seq(Hits) /\ Len(c) = 2 /\ c[1] = m.hit /\ c[2] = m.hit
    BY <1>3
  <2>2. a \o c \in Seq(Hits) /\ Len(a \o c) = Len(s) + 2
    BY <1>1, <1>3, <2>1
  <2>3. ASSUME NEW i \in 1..(Len(s) + 2) PROVE b[i] = (a \o c)[i]
    <3>1. CASE i <= Len(s)
      BY <1>1, <1>3, <1>5, <1>8, <2>1, <3>1
    <3>2. CASE i = Len(s) + 1 \/ i = Len(s) + 2
      <4>1. (a \o c)[i] = m.hit
        BY <1>1, <1>3, <2>1, <3>2
      <4>2. ~ (i <= Len(s)) /\ i \in 1..(Len(s) + n)
        BY <1>1, <1>8, <3>2
      <4>3. b[i] = m.hit
        BY <1>5, <4>2
      <4>4. QED
        BY <4>1, <4>3
    <3>3. QED
      <4>1. Len(s) \in Nat /\ i \in 1..(Len(s) + 2)
        BY <1>1
      <4>2. i <= Len(s) \/ i = Len(s) + 1 \/ i = Len(s) + 2
        BY <4>1
      <4>3. QED
        BY <3>1, <3>2, <4>2
  <2> HIDE DEF c
  <2>4. b = a \o c
    BY <1>1, <1>6, <1>8, <2>2, <2>3
  <2>5. QED
    BY <2>4 DEF c
<1>9. QED
  BY <1>7, <1>8 DEF a, b, HitSeq

(* A step that leaves the records as they are is a stutter.                *)
LEMMA RecordsStay ==
  ASSUME HitsIn(topic'[1]) = HitsIn(topic[1]), UNCHANGED <<docs, tested, failed, cut, again, doubtful>>
  PROVE  UNCHANGED Recorded!vars
<1>1. Stored' = Stored
  BY DEF Stored
<1>2. HitsIn(topic[1])' = HitsIn(topic[1])
  BY DEF HitsIn
<1>3. QED
  BY <1>1, <1>2 DEF Recorded!vars

(* Every step of the pipeline is one of the log, or changes nothing of it. *)
LEMMA LogStep ==
  ASSUME FateInv, TypeOK', [Next]_vars
  PROVE  [Recorded!Next]_Recorded!vars
<1> USE DEF consumer, repeats, store, doubt
<1>0. OnceInv /\ TypeOK /\ Lineage /\ NoTests /\ 1 \in Topics /\ 2 \in Topics
      /\ topic[1] \in Seq(Message) /\ topic[2] \in Seq(Message) /\ docs \in Seq(Message)
      /\ topic'[1] \in Seq(Message) /\ docs' \in Seq(Message)
  BY DEF FateInv, OnceInv, Once, Fates, Topics, TypeOK
<1>a. docs' = docs => Stored' = Stored
  BY DEF Stored
<1>b. HitsIn(topic[1])' = HitsIn(topic'[1])
  BY DEF HitsIn
<1>c. ASSUME NEW h \in Hits, h \in HitsIn(topic[1]), HitsIn(topic'[1]) = HitsIn(topic[1]),
             again' \in {again, again \cup {h}}, Recorded!MayDoubt(h),
             UNCHANGED <<docs, tested, failed, cut>>
      PROVE  Recorded!Next
  BY <1>a, <1>b, <1>c DEF Recorded!Next, Recorded!Pass
<1>d. ASSUME NEW h \in Hits, Answered \/ Unanswered(h) PROVE Recorded!MayDoubt(h)
  BY <1>d DEF Answered, Unanswered, Recorded!MayDoubt
<1>1. ASSUME NEW h \in Hits, Publish(h) PROVE Recorded!Next
  <2>1. PICK n \in Writes : Note(h, n) /\ Appended(topic[1], topic'[1], Published(h), n)
    BY <1>0, <1>1, PublishAppends
  <2>2. HitsIn(topic'[1]) = HitsIn(topic[1]) \cup {h}
    <3>1. n \in {1, 2} /\ Published(h) \in Message /\ Published(h).hit = h
      BY MessageTypes DEF Writes
    <3>2. HitsIn(topic'[1]) = HitsIn(topic[1]) \cup {Published(h).hit}
      BY <1>0, <2>1, <3>1, AppendedHits
    <3>3. QED
      BY <3>1, <3>2
  <2>3. h \notin HitsIn(topic[1])
    BY <1>1 DEF Publish, HitsIn
  <2>4. again' \in {again, again \cup {h}}
    BY <2>1 DEF Note
  <2>5. Stored' = Stored /\ UNCHANGED <<tested, failed, cut, doubtful>>
    BY <1>1, <1>a DEF Publish
  <2>6. Recorded!Publish(h)
    BY <1>b, <2>2, <2>3, <2>4, <2>5 DEF Recorded!Publish
  <2>7. QED
    BY <2>6 DEF Recorded!Next
<1>2. ASSUME NEW t \in Topics, Deliver(t) PROVE [Recorded!Next]_Recorded!vars
  <2> DEFINE next == position[t] + 1
  <2>1. topic' = topic /\ UNCHANGED <<docs, tested, failed, cut, doubtful>>
    BY <1>2 DEF Deliver
  <2>2. CASE again' = again
    BY <2>1, <2>2, RecordsStay
  <2>3. CASE again' # again
    <3>1. again' = again \cup {topic[t][next].hit}
      BY <1>2, <2>3 DEF Deliver
    <3>2. next \in DOMAIN topic[t]
      <4>1. position[t] \in Nat /\ topic[t] \in Seq(Message) /\ next <= Len(topic[t])
        BY <1>0, <1>2 DEF Deliver, TypeOK
      <4>2. QED
        BY <4>1
    <3>3. topic[t][next].hit \in HitsIn(topic[1])
      BY <1>0, <3>2 DEF Lineage, HitsIn, Topics
    <3>4. topic[t][next].hit \in Hits
      <4>1. topic[t] \in Seq(Message)
        BY <1>0 DEF TypeOK
      <4>2. next \in 1..Len(topic[t])
        BY <3>2, <4>1
      <4>3. QED
        BY <4>1, <4>2, ElementType
    <3>5. QED
      BY <1>c, <2>1, <3>1, <3>3, <3>4 DEF Recorded!MayDoubt
  <2>4. QED
    BY <2>2, <2>3
<1>3. ASSUME NEW t \in Topics, Joined(t) \/ Commit(t) \/ Rebalance(t)
      PROVE  [Recorded!Next]_Recorded!vars
  BY <1>3, RecordsStay DEF Joined, Commit, Rebalance
<1>4. ASSUME NEW x \in running[1], Enrich(x) PROVE [Recorded!Next]_Recorded!vars
  <2>1. PICK h \in Hits : h = HitOf(1, x)
    BY <1>0, HandledIsOpen
  <2>2. h \in HitsIn(topic[1]) /\ Recorded!Open(h)
    BY <1>0, <2>1, HandledIsOpen
  <2>3. UNCHANGED <<docs, failed, cut>> /\ Recorded!MayDoubt(h)
    BY <1>4, <1>d, <2>1 DEF Enrich, HitOf
  <2>4. CASE h \in Tests
    <3>1. topic' = topic /\ again' = again /\ tested' = tested \cup {h}
      BY <1>4, <2>1, <2>4 DEF Enrich, HitOf
    <3>2. Recorded!Test(h)
      BY <1>a, <2>2, <2>3, <2>4, <3>1 DEF Recorded!Test, HitsIn
    <3>3. QED
      BY <3>2 DEF Recorded!Next
  <2>5. CASE h \notin Tests
    <3>1. topic'[1] = topic[1] /\ tested' = tested
      BY <1>0, <1>4, <2>1, <2>5, EnrichAppends DEF Enrich, HitOf
    <3>2. PICK n \in Writes : Note(h, n)
      BY <1>0, <1>4, <2>1, <2>5, EnrichAppends
    <3>3. again' \in {again, again \cup {h}}
      BY <3>2 DEF Note
    <3>4. QED
      BY <1>c, <2>2, <2>3, <3>1, <3>3
  <2>6. QED
    BY <2>4, <2>5
<1>5. ASSUME NEW x \in running[2], Save(x) PROVE Recorded!Next
  <2>1. PICK h \in Hits : h = HitOf(2, x)
    BY <1>0, HandledIsOpen
  <2>2. Recorded!Open(h)
    BY <1>0, <2>1, HandledIsOpen
  <2>3. x.at \in DOMAIN topic[2] /\ topic[2][x.at] \in Message
    BY <1>0, HandlerType
  <2>4. topic[2][x.at].hit = h /\ h \notin Tests
    BY <1>0, <2>1, <2>3 DEF HitOf, NoTests
  <2>5. PICK n \in Writes : Note(h, n) /\ Appended(docs, docs', topic[2][x.at], n)
    BY <1>0, <1>5, <2>1, SaveAppends DEF OnceInv
  <2>6. n \in {1, 2}
    BY DEF Writes
  <2>7. /\ n = 1 => Stored' = Append(Stored, h)
        /\ n = 2 => Stored' = Stored \o <<h, h>>
    <3>1. /\ n = 1 => HitSeq(docs') = Append(HitSeq(docs), topic[2][x.at].hit)
          /\ n = 2 => HitSeq(docs') = HitSeq(docs) \o <<topic[2][x.at].hit, topic[2][x.at].hit>>
      BY <1>0, <2>3, <2>5, <2>6, StoredGrows
    <3>2. QED
      BY <2>4, <3>1 DEF Stored, HitSeq
  <2>8. /\ n = 1 => again' = again
        /\ n = 2 => again' = again \cup {h}
    BY <2>5 DEF Note
  <2>9. topic' = topic /\ UNCHANGED <<tested, failed, cut>> /\ Recorded!MayDoubt(h)
    BY <1>5, <1>d, <2>1 DEF Save, HitOf
  <2>10. Recorded!Store(h)
    BY <2>2, <2>4, <2>6, <2>7, <2>8, <2>9 DEF Recorded!Store, HitsIn
  <2>11. QED
    BY <2>10 DEF Recorded!Next
<1>6. ASSUME NEW t \in Topics, NEW x \in running[t], Drop(t, x) PROVE Recorded!Next
  <2>1. PICK h \in Hits : h = HitOf(t, x)
    BY <1>0, HandledIsOpen
  <2>2. Recorded!Losable(h)
    BY <1>0, <2>1, HandledIsOpen
  <2>3. topic' = topic /\ failed' = failed \cup {h} /\ UNCHANGED <<docs, tested, cut, again, doubtful>>
    BY <1>6, <2>1 DEF Drop
  <2>4. Recorded!Lose({h})
    BY <1>a, <2>2, <2>3 DEF Recorded!Lose, HitsIn
  <2>5. QED
    BY <2>4 DEF Recorded!Next
<1>p. \A h \in waiting : h \in Hits /\ Recorded!Losable(h)
  BY <1>0 DEF FateInv, Fates, TypeOK, Recorded!Losable
<1>7. CASE Restart
  <2> DEFINE hs == waiting \cup UNION {{HitOf(t, x) : x \in running[t]} : t \in Topics}
  <2>1. \A t \in Topics : \A x \in running[t] : HitOf(t, x) \in Hits /\ Recorded!Losable(HitOf(t, x))
    BY HandledIsOpen
  <2>2. hs \in SUBSET Hits
    BY <1>p, <2>1
  <2>3. \A h \in hs : Recorded!Losable(h)
    BY <1>p, <2>1
  <2>4. topic' = topic /\ cut' = cut \cup hs /\ UNCHANGED <<docs, tested, failed, again, doubtful>>
    BY <1>7 DEF Restart
  <2> HIDE DEF hs
  <2>5. Recorded!Lose(hs)
    BY <1>a, <2>3, <2>4 DEF Recorded!Lose, HitsIn
  <2>6. QED
    BY <2>2, <2>5 DEF Recorded!Next
<1>8. ASSUME NEW h \in Hits, TimesOut(h) PROVE Recorded!Next
  <2>1. /\ topic' = topic /\ failed' = failed \cup {h} /\ h \in waiting
        /\ UNCHANGED <<docs, tested, cut, again, doubtful>>
    BY <1>8 DEF TimesOut
  <2>2. Recorded!Lose({h})
    BY <1>a, <1>p, <2>1 DEF Recorded!Lose, HitsIn
  <2>3. QED
    BY <2>2 DEF Recorded!Next
<1>9. CASE UNCHANGED vars
  BY <1>9, RecordsStay DEF vars
<1>10. QED
  BY StepCases, <1>1, <1>2, <1>3, <1>4, <1>5, <1>6, <1>7, <1>8, <1>9

(* The pipeline implements EventLog (event_tracker.ts 65-123, kafka.js     *)
(* 378-391): what is not repeated is stored or tested once at most, and    *)
(* not at all once it is lost, unless a write of it took effect            *)
(* unanswered; whatever the order of handlers, commits, rebalances, errors *)
(* and restarts.                                                           *)
THEOREM PipelineKeepsFates == Spec => FatesKept
<1>1. Init => OnceInv
  BY InitOnce
<1>2. Init => Recorded!Init
  <2>1. Init => HitsIn(topic[1]) = {} /\ Stored = <<>>
    BY DEF Init, Topics, HitsIn, Stored
  <2>2. QED
    BY <2>1 DEF Init, Recorded!Init
<1>3. Init => Fates
  BY DEF Init, Fates, NoTests, Topics
<1>4. FateInv /\ [Next]_vars => FateInv'
  BY NextOnceInv, NextFates DEF FateInv
<1>5. FateInv /\ FateInv' /\ [Next]_vars => [Recorded!Next]_Recorded!vars
  BY LogStep DEF FateInv, OnceInv
<1>6. Init => FateInv
  BY <1>1, <1>3 DEF FateInv
<1>7. QED
  BY <1>2, <1>4, <1>5, <1>6, PTL DEF Spec, FatesKept, Recorded!Spec
=============================================================================
