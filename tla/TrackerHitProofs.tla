-------------------------- MODULE TrackerHitProofs --------------------------
(* Proofs about the HTTP side of the tracker, for any number of visitors,  *)
(* readers, addresses and hits: type correctness, and that the data of a   *)
(* reader is sent only where that reader was signed in.                    *)
EXTENDS TrackerHit, TLAPS

USE ClientAssumption, UserAssumption, RestartAssumption, IdAssumption, LabelAssumption

(* The next-state relation as a flat list of cases: the proof that a step  *)
(* preserves an invariant has one step per action.                         *)
LEMMA StepCases ==
  ASSUME [Next]_vars
  PROVE  \/ \E r \in Requests : \/ \E h \in Hit : Begin(r, h)
                                \/ CacheHit(r) \/ CacheMiss(r) \/ Fetch(r)
                                \/ FetchFails(r) \/ Store(r) \/ Respond(r)
                                \/ Publish(r) \/ PublishFails(r)
         \/ \E c \in Browsers : AnswerOther(c)
         \/ Sigterm \/ Stop \/ Restart
         \/ UNCHANGED vars
  BY DEF Next, Handle

(* What BrowserId yields is a browser id.                                  *)
LEMMA BrowserIdType ==
  ASSUME TypeOK, NEW r \in Requests, NEW h \in Hit
  PROVE  BrowserId(r, h) \in Ids
<1>1. Agent[h.client] \in Agents
  BY DEF Hit
<1>2. own[h.client] \in Ids \cup {NoId}
  BY DEF TypeOK, Hit
<1>3. h.user # NoUser => Md5(h.user, Agent[h.client]) \in Ids
  BY <1>1 DEF Hit, Ids
<1>4. Random(r) \in Ids
  BY DEF Ids
<1>5. QED
  BY <1>2, <1>3, <1>4 DEF BrowserId, Cookie, Parameter

(* The key of a hit that began is a cache key.                             *)
LEMMA KeyType ==
  ASSUME TypeOK, NEW r \in Requests, pc[r] # "new"
  PROVE  /\ Key(r) \in Keys
         /\ hit[r] \in Hit
         /\ id[r] \in Ids
         /\ Address[hit[r].client] \in Addresses
  BY DEF TypeOK, Key, Keys, Hit

-----------------------------------------------------------------------------
(* The initial states have their types.                                    *)
LEMMA InitTypeOK == Init => TypeOK
  BY DEF Init, TypeOK, UserData

(* The type invariant is inductive.                                        *)
LEMMA NextTypeOK ==
  ASSUME TypeOK, [Next]_vars
  PROVE  TypeOK'
<1> USE DEF process, sent, events
<1>1. ASSUME NEW r \in Requests, NEW h \in Hit, Begin(r, h)
      PROVE  TypeOK'
  <2>1. BrowserId(r, h) \in Ids
    BY BrowserIdType
  <2>2. h.client \in Clients /\ Agent[h.client] \in Agents
        /\ Address[h.client] \in Addresses /\ h.user \in Users \cup {NoUser}
    BY DEF Hit
  <2>3. signins' \subseteq Users \X Agents \X Addresses
    BY <1>1, <2>2 DEF Begin, TypeOK
  <2>4. anonymous' \subseteq Ids \X Addresses
    BY <1>1, <2>1, <2>2 DEF Begin, TypeOK
  <2>5. began' \in Seq(Requests)
    BY <1>1 DEF Begin, TypeOK
  <2>6. header' \in Ids \cup {NoId}
    BY <1>1, <2>1 DEF Begin, NewHeader
  <2>7. /\ hit' \in [Requests -> Hit \cup {NoHit}]
        /\ id' \in [Requests -> Ids \cup {NoId}]
        /\ \A q \in Requests : pc'[q] # "new" => hit'[q] \in Hit /\ id'[q] \in Ids
    BY <1>1, <2>1 DEF Begin, TypeOK
  <2>8. pc' \in [Requests -> {"new", "lookup", "fetch", "store", "respond",
                              "publish", "done"}]
    BY <1>1 DEF Begin, TypeOK
  <2>9. QED
    BY <1>1, <2>3, <2>4, <2>5, <2>6, <2>7, <2>8 DEF Begin, TypeOK
<1>2. ASSUME NEW r \in Requests, CacheHit(r)
      PROVE  TypeOK'
  <2>1. cache[Key(r)] \in UserData
    BY <1>2, KeyType DEF CacheHit, TypeOK
  <2>2. QED
    BY <1>2, <2>1 DEF CacheHit, TypeOK
<1>3. ASSUME NEW r \in Requests, CacheMiss(r)
      PROVE  TypeOK'
  BY <1>3 DEF CacheMiss, TypeOK
<1>4. ASSUME NEW r \in Requests, Fetch(r)
      PROVE  TypeOK'
  <2>1. DataOf(hit[r]) \in UserData
    BY <1>4, KeyType DEF Fetch, DataOf, Hit, UserData
  <2>2. QED
    BY <1>4, <2>1 DEF Fetch, TypeOK
<1>5. ASSUME NEW r \in Requests, FetchFails(r)
      PROVE  TypeOK'
  BY <1>5 DEF FetchFails, TypeOK
<1>6. ASSUME NEW r \in Requests, Store(r)
      PROVE  TypeOK'
  <2>1. labels[r] \in UserData /\ Key(r) \in Keys
    BY <1>6, KeyType DEF Store, TypeOK
  <2>2. QED
    BY <1>6, <2>1 DEF Store, TypeOK
<1>7. ASSUME NEW r \in Requests, Respond(r)
      PROVE  TypeOK'
  <2>1. hit[r].client \in Clients /\ id[r] \in Ids
    BY <1>7, KeyType DEF Respond, Hit
  <2>2. [cookie |-> header, id |-> id[r], labels |-> labels[r]] \in Response
    BY <2>1 DEF TypeOK, Response
  <2>3. QED
    BY <1>7, <2>1, <2>2 DEF Respond, TypeOK
<1>8. ASSUME NEW r \in Requests, Publish(r) \/ PublishFails(r)
      PROVE  TypeOK'
  BY <1>8 DEF Publish, PublishFails, TypeOK
<1>9. ASSUME NEW c \in Browsers, AnswerOther(c)
      PROVE  TypeOK'
  BY <1>9 DEF AnswerOther, TypeOK
<1>10. CASE Sigterm
  BY <1>10 DEF Sigterm, TypeOK
<1>11. CASE Stop
  BY <1>11 DEF Stop, TypeOK, InFlight
<1>12. CASE Restart
  BY <1>12 DEF Restart, TypeOK
<1>13. CASE UNCHANGED vars
  BY <1>13 DEF vars, TypeOK
<1>14. QED
  BY StepCases, <1>1, <1>2, <1>3, <1>4, <1>5, <1>6, <1>7, <1>8, <1>9, <1>10,
     <1>11, <1>12, <1>13

(* Every variable of the specification keeps its type.                     *)
THEOREM TypeCorrect == Spec => []TypeOK
<1>1. QED
  BY InitTypeOK, NextTypeOK, PTL DEF Spec

-----------------------------------------------------------------------------
(* The inductive invariant.  SignedInAt(u, i, ip): reader u was signed in  *)
(* at address ip with an agent that gives u the browser id i.              *)
SignedInAt(u, i, ip) ==
    \E a \in Agents : i = Md5(u, a) /\ <<u, a, ip>> \in signins

(* User data d has its place under browser id i and address ip: a hit that *)
(* looked up exactly d presented them.                                     *)
Justified(d, i, ip) ==
    /\ d \in Users => SignedInAt(d, i, ip)
    /\ d = Empty => <<i, ip>> \in anonymous

At(r) == Address[hit[r].client]

(* A hit that has not begun has no data and no answer; one that has is     *)
(* recorded in the history.                                                *)
HitInv ==
    \A r \in Requests :
        /\ pc[r] = "new" => labels[r] = Undefined /\ response[r] = NoResponse
        /\ pc[r] # "new" => Justified(DataOf(hit[r]), id[r], At(r))

(* Whatever data is in the cache, in a hit in flight or in an answer has   *)
(* its place there.                                                        *)
CacheInv ==
    \A i \in Ids, ip \in Addresses : Justified(cache[<<i, ip>>], i, ip)

LabelsInv ==
    \A r \in Requests : Justified(labels[r], id[r], At(r))

ResponseInv ==
    \A r \in Requests : Answered(r) =>
        /\ response[r].id = id[r]
        /\ Justified(response[r].labels, id[r], At(r))

IInv == TypeOK /\ HitInv /\ CacheInv /\ LabelsInv /\ ResponseInv

(* The invariant holds at first ...                                        *)
LEMMA InitIInv == Init => IInv
  BY InitTypeOK DEF Init, IInv, HitInv, CacheInv, LabelsInv, ResponseInv, Keys, Absent,
     Undefined, Empty, Justified, Answered

(* The invariant but for the type is kept by a step that changes no data   *)
(* and no history.                                                         *)
LEMMA Frame ==
  ASSUME IInv, cache' = cache, labels' = labels, response' = response, hit' = hit,
         id' = id, signins' = signins, anonymous' = anonymous,
         \A r \in Requests : (pc'[r] = "new") <=> (pc[r] = "new")
  PROVE  HitInv' /\ CacheInv' /\ LabelsInv' /\ ResponseInv'
  BY DEF IInv, HitInv, CacheInv, LabelsInv, ResponseInv, Justified, SignedInAt, At,
     Answered

(* ... and every step keeps it.                                            *)
LEMMA NextIInv ==
  ASSUME IInv, [Next]_vars
  PROVE  IInv'
<1> USE DEF process, sent, events
<1>0. TypeOK /\ TypeOK'
  BY NextTypeOK DEF IInv
<1>1. ASSUME NEW r \in Requests, NEW h \in Hit, Begin(r, h)
      PROVE  HitInv' /\ CacheInv' /\ LabelsInv' /\ ResponseInv'
  <2>1. \A d, i, ip : Justified(d, i, ip) => Justified(d, i, ip)'
    BY <1>1 DEF Begin, Justified, SignedInAt
  <2>2. pc[r] = "new" /\ labels[r] = Undefined /\ ~ Answered(r)
    BY <1>1 DEF Begin, IInv, HitInv, Answered
  <2>3. \A q \in Requests \ {r} : hit'[q] = hit[q] /\ id'[q] = id[q] /\ pc'[q] = pc[q]
    BY <1>1, <1>0 DEF Begin, TypeOK
  <2>4. hit'[r] = h /\ id'[r] = BrowserId(r, h) /\ pc'[r] = "lookup"
    BY <1>1, <1>0 DEF Begin, TypeOK
  <2>5. /\ DataOf(h) \in Users =>
             \E a \in Agents : /\ id'[r] = Md5(DataOf(h), a)
                              /\ <<DataOf(h), a, Address[h.client]>> \in signins'
        /\ DataOf(h) = Empty => <<id'[r], Address[h.client]>> \in anonymous'
    <3>1. CASE h.user = NoUser
      <4>1. DataOf(h) = Empty /\ Empty \notin Users
        BY <3>1 DEF DataOf
      <4>2. <<BrowserId(r, h), Address[h.client]>> \in anonymous'
        BY <3>1, <1>1 DEF Begin
      <4>3. QED
        BY <4>1, <4>2, <2>4
    <3>2. CASE h.user # NoUser
      <4>1. h.user \in Users /\ Agent[h.client] \in Agents /\ DataOf(h) = h.user
            /\ Empty \notin Users
        BY <3>2 DEF Hit, DataOf
      <4>2. BrowserId(r, h) = Md5(h.user, Agent[h.client])
        BY <3>2 DEF BrowserId
      <4>3. <<h.user, Agent[h.client], Address[h.client]>> \in signins'
        BY <3>2, <1>1 DEF Begin
      <4>4. QED
        BY <4>1, <4>2, <4>3, <2>4
    <3>3. QED
      BY <3>1, <3>2
  <2>6. HitInv'
    <3>1. ASSUME NEW q \in Requests, q # r
          PROVE  /\ pc'[q] = "new" => labels'[q] = Undefined /\ response'[q] = NoResponse
                 /\ pc'[q] # "new" => Justified(DataOf(hit[q]), id[q], At(q))'
      <4>1. hit'[q] = hit[q] /\ id'[q] = id[q] /\ pc'[q] = pc[q]
        BY <3>1, <2>3
      <4>2. pc[q] # "new" => Justified(DataOf(hit[q]), id[q], At(q))
        BY DEF IInv, HitInv
      <4>3. QED
        BY <4>1, <4>2, <1>1 DEF IInv, HitInv, Begin, Justified, SignedInAt, DataOf, At
    <3>2. Justified(DataOf(hit[r]), id[r], At(r))'
      <4>1. DataOf(hit[r])' = DataOf(h)
        BY <2>4 DEF DataOf
      <4>2. QED
        BY <4>1, <2>4, <2>5 DEF Justified, SignedInAt, At
    <3>3. ASSUME NEW q \in Requests
          PROVE  /\ pc'[q] = "new" => labels'[q] = Undefined /\ response'[q] = NoResponse
                 /\ pc'[q] # "new" => Justified(DataOf(hit[q]), id[q], At(q))'
      BY <3>1, <3>2, <2>4
    <3>4. QED
      BY <3>3 DEF HitInv
  <2>7. CacheInv'
    BY <2>1, <1>1 DEF IInv, CacheInv, Begin
  <2>8. LabelsInv'
    BY <2>1, <2>2, <2>3, <1>1 DEF IInv, LabelsInv, Begin, At, Justified, Undefined, Empty
  <2>9. ResponseInv'
    BY <2>1, <2>2, <2>3, <1>1 DEF IInv, ResponseInv, Begin, At, Answered
  <2>10. QED
    BY <2>6, <2>7, <2>8, <2>9
<1>2. ASSUME NEW r \in Requests, CacheHit(r)
      PROVE  HitInv' /\ CacheInv' /\ LabelsInv' /\ ResponseInv'
  <2>1. Justified(cache[Key(r)], id[r], At(r))
    BY <1>0, <1>2, KeyType DEF CacheHit, IInv, CacheInv, Key, At
  <2>2. labels' = [labels EXCEPT ![r] = cache[Key(r)]] /\ pc[r] # "new"
    BY <1>2 DEF CacheHit
  <2>3. pc' = [pc EXCEPT ![r] = "respond"] /\ UNCHANGED <<cache, sent, response>>
    BY <1>2 DEF CacheHit
  <2>4. QED
    BY <2>1, <2>2, <2>3, <1>0 DEF TypeOK, IInv, HitInv, CacheInv, LabelsInv,
       ResponseInv, Justified, SignedInAt, At, Answered
<1>3. ASSUME NEW r \in Requests, Fetch(r)
      PROVE  HitInv' /\ CacheInv' /\ LabelsInv' /\ ResponseInv'
  <2>1. Justified(DataOf(hit[r]), id[r], At(r))
    BY <1>3 DEF Fetch, IInv, HitInv
  <2>2. labels' = [labels EXCEPT ![r] = DataOf(hit[r])] /\ pc[r] # "new"
    BY <1>3 DEF Fetch
  <2>3. pc' = [pc EXCEPT ![r] = "store"] /\ UNCHANGED <<cache, sent, response>>
    BY <1>3 DEF Fetch
  <2>4. QED
    BY <2>1, <2>2, <2>3, <1>0 DEF TypeOK, IInv, HitInv, CacheInv, LabelsInv,
       ResponseInv, Justified, SignedInAt, At, Answered
<1>4. ASSUME NEW r \in Requests, Store(r)
      PROVE  HitInv' /\ CacheInv' /\ LabelsInv' /\ ResponseInv'
  <2>1. Justified(labels[r], id[r], At(r)) /\ pc[r] # "new"
    BY <1>4 DEF Store, IInv, LabelsInv
  <2>2. UNCHANGED <<sent, labels, response>> /\ pc' = [pc EXCEPT ![r] = "respond"]
    BY <1>4 DEF Store
  <2>3. CacheInv'
    <3>1. CASE cache' = cache
      BY <3>1, <2>2 DEF IInv, CacheInv, Justified, SignedInAt
    <3>2. CASE cache' = [cache EXCEPT ![<<id[r], At(r)>>] = labels[r]]
      <4>1. cache \in [Ids \X Addresses -> UserData \cup {Absent}]
        BY <1>0 DEF TypeOK, Keys
      <4>2. ASSUME NEW i \in Ids, NEW ip \in Addresses
            PROVE  Justified(cache'[<<i, ip>>], i, ip)
        BY <4>1, <3>2, <2>1 DEF IInv, CacheInv
      <4>3. QED
        BY <4>2, <2>2 DEF CacheInv, Justified, SignedInAt
    <3>3. QED
      BY <3>1, <3>2, <1>4 DEF Store, Key, At
  <2>4. HitInv' /\ LabelsInv' /\ ResponseInv'
    BY <2>1, <2>2, <1>0 DEF TypeOK, IInv, HitInv, LabelsInv, ResponseInv, Justified,
       SignedInAt, At, Answered
  <2>5. QED
    BY <2>3, <2>4
<1>5. ASSUME NEW r \in Requests, Respond(r)
      PROVE  HitInv' /\ CacheInv' /\ LabelsInv' /\ ResponseInv'
  <2>1. Justified(labels[r], id[r], At(r)) /\ pc[r] # "new"
    BY <1>5 DEF Respond, IInv, LabelsInv
  <2>2. /\ cache' = cache /\ labels' = labels /\ hit' = hit /\ id' = id
        /\ signins' = signins /\ anonymous' = anonymous
    BY <1>5 DEF Respond
  <2>3. \A q \in Requests : pc'[q] # "new" <=> pc[q] # "new"
    BY <1>5, <1>0 DEF Respond, TypeOK
  <2>4. /\ response'[r] = [cookie |-> header, id |-> id[r], labels |-> labels[r]]
        /\ \A q \in Requests \ {r} : response'[q] = response[q]
    BY <1>5, <1>0 DEF Respond, TypeOK
  <2>5. HitInv' /\ CacheInv' /\ LabelsInv'
    BY <2>1, <2>2, <2>3, <2>4, <1>0 DEF TypeOK, IInv, HitInv, CacheInv, LabelsInv,
       Justified, SignedInAt, At
  <2>6. ResponseInv'
    <3>1. \A d, i, ip : Justified(d, i, ip) => Justified(d, i, ip)'
      BY <2>2 DEF Justified, SignedInAt
    <3>2. ASSUME NEW q \in Requests, Answered(q)'
          PROVE  response'[q].id = id[q] /\ Justified(response'[q].labels, id[q], At(q))
      <4>1. CASE q = r
        BY <4>1, <2>1, <2>4
      <4>2. CASE q # r
        BY <4>2, <3>2, <2>4 DEF IInv, ResponseInv, Answered
      <4>3. QED
        BY <4>1, <4>2
    <3>3. QED
      BY <3>1, <3>2, <2>2 DEF ResponseInv, Justified, SignedInAt, At, Answered
  <2>7. QED
    BY <2>5, <2>6
<1>6. ASSUME NEW r \in Requests,
             CacheMiss(r) \/ FetchFails(r) \/ Publish(r) \/ PublishFails(r)
      PROVE  HitInv' /\ CacheInv' /\ LabelsInv' /\ ResponseInv'
  BY <1>6, <1>0, Frame DEF CacheMiss, FetchFails, Publish, PublishFails, TypeOK
<1>7. ASSUME NEW c \in Browsers, AnswerOther(c)
      PROVE  HitInv' /\ CacheInv' /\ LabelsInv' /\ ResponseInv'
  BY <1>7, Frame DEF AnswerOther
<1>8. CASE Sigterm \/ Restart \/ UNCHANGED vars
  <2>1. /\ cache' = cache /\ labels' = labels /\ hit' = hit /\ id' = id /\ pc' = pc
        /\ signins' = signins /\ anonymous' = anonymous /\ response' = response
    BY <1>8 DEF Sigterm, Restart, vars
  <2>2. QED
    BY <2>1, <1>0, Frame DEF IInv
<1>9. CASE Stop
  <2>1. /\ cache' = cache /\ labels' = labels /\ hit' = hit /\ id' = id
        /\ signins' = signins /\ anonymous' = anonymous /\ response' = response
    BY <1>9 DEF Stop
  <2>2. \A r \in Requests : (pc'[r] = "new") <=> (pc[r] = "new")
    BY <1>9 DEF Stop, InFlight
  <2>3. QED
    BY <2>1, <2>2, <1>0, Frame DEF IInv
<1>10. QED
  BY StepCases, <1>0, <1>1, <1>2, <1>3, <1>4, <1>5, <1>6, <1>7, <1>8, <1>9 DEF IInv

(* The invariant holds in every reachable state.                           *)
THEOREM Invariance == Spec => []IInv
<1>1. QED
  BY InitIInv, NextIInv, PTL DEF Spec

(* The labels and segments of a reader are sent only to an address         *)
(* from which that reader was signed in, whatever cookies the shared       *)
(* headers have mixed up (event_tracker.ts 213-225).                       *)
THEOREM LabelsAreConfined == Spec => []LabelsOnlyWhereSignedIn
<1>1. IInv => LabelsOnlyWhereSignedIn
  BY DEF IInv, ResponseInv, LabelsOnlyWhereSignedIn, Justified, SignedInAt, At
<1>2. QED
  BY <1>1, Invariance, PTL

(* A signed-in reader gets empty data only after a hit without user used   *)
(* the reader's browser id from the same address (lines 216-225).          *)
THEOREM EmptyLabelsAreExplained == Spec => []EmptyLabelsExplained
<1>1. IInv => EmptyLabelsExplained
  BY DEF IInv, ResponseInv, EmptyLabelsExplained, Justified, At
<1>2. QED
  BY <1>1, Invariance, PTL

-----------------------------------------------------------------------------
(* The order of the hits.  The hits that began are those on record ...     *)
BeganInv ==
    /\ \A r \in Requests : pc[r] # "new" => \E i \in DOMAIN began : began[i] = r
    /\ \A i \in DOMAIN began : pc[began[i]] # "new"

(* ... a process that is down has none in flight ...                       *)
DownInv == phase = "down" => InFlight = {}

(* ... and while there are any, the shared header is the browser id of the *)
(* hit that began last: no restart comes between, and every hit sets it.   *)
HeaderInv == InFlight # {} => header = id[began[Len(began)]]

OrderInv == TypeOK /\ BeganInv /\ DownInv /\ HeaderInv /\ CookieNeverOlder

(* A step that begins no hit keeps the record, and if it also puts none in *)
(* flight, leaves the header and answers nothing, it keeps the invariant.  *)
LEMMA OrderFrame ==
  ASSUME OrderInv, began' = began, id' = id, response' = response,
         \A r \in Requests : (pc'[r] = "new") <=> (pc[r] = "new"),
         InFlight' \subseteq InFlight,
         InFlight' # {} => header' = header,
         phase' = "down" => phase = "down" \/ InFlight' = {}
  PROVE  BeganInv' /\ DownInv' /\ HeaderInv' /\ CookieNeverOlder'
<1>1. BeganInv'
  <2>1. \A i \in DOMAIN began : began[i] \in Requests
    BY DEF OrderInv, TypeOK
  <2>2. QED
    BY <2>1 DEF OrderInv, BeganInv
<1>2. DownInv' /\ HeaderInv'
  BY DEF OrderInv, DownInv, HeaderInv
<1>3. CookieNeverOlder'
  BY DEF OrderInv, CookieNeverOlder, Answered
<1>4. QED
  BY <1>1, <1>2, <1>3

(* Every step keeps the order of the hits.                                 *)
LEMMA NextOrderInv ==
  ASSUME OrderInv, [Next]_vars
  PROVE  OrderInv'
<1> USE DEF process, sent, events
<1>0. TypeOK /\ TypeOK'
  BY NextTypeOK DEF OrderInv
<1>1. ASSUME NEW r \in Requests, NEW h \in Hit, Begin(r, h)
      PROVE  BeganInv' /\ DownInv' /\ HeaderInv' /\ CookieNeverOlder'
  <2> DEFINE n == Len(began)
  <2>1. /\ n \in Nat
        /\ DOMAIN began = 1..n /\ DOMAIN began' = 1..(n + 1)
        /\ Len(began') = n + 1
        /\ began'[n + 1] = r
        /\ \A i \in 1..n : began'[i] = began[i] /\ began[i] \in Requests
    BY <1>0, <1>1 DEF Begin, TypeOK
  <2>2. /\ id'[r] = BrowserId(r, h) /\ pc'[r] = "lookup"
        /\ \A q \in Requests \ {r} : id'[q] = id[q] /\ pc'[q] = pc[q]
    BY <1>0, <1>1 DEF Begin, TypeOK
  <2>3. \A i \in 1..n : began[i] # r
    BY <1>1, <2>1 DEF Begin, OrderInv, BeganInv
  <2>4. BeganInv'
    <3>1. ASSUME NEW q \in Requests, pc'[q] # "new"
          PROVE  \E i \in DOMAIN began' : began'[i] = q
      <4>1. CASE q = r
        BY <4>1, <2>1
      <4>2. CASE q # r
        <5>1. PICK i \in DOMAIN began : began[i] = q
          BY <4>2, <3>1, <2>2 DEF OrderInv, BeganInv
        <5>2. QED
          BY <5>1, <2>1
      <4>3. QED
        BY <4>1, <4>2
    <3>2. ASSUME NEW i \in DOMAIN began'
          PROVE  pc'[began'[i]] # "new"
      <4>1. CASE i = n + 1
        BY <4>1, <2>1, <2>2
      <4>2. CASE i \in 1..n
        BY <4>2, <2>1, <2>2, <2>3 DEF OrderInv, BeganInv
      <4>3. QED
        BY <4>1, <4>2, <2>1
    <3>3. QED
      BY <3>1, <3>2 DEF BeganInv
  <2>5. DownInv'
    BY <1>1 DEF Begin, DownInv
  <2>6. HeaderInv'
    BY <1>1, <2>1, <2>2 DEF Begin, NewHeader, HeaderInv
  <2>7. CookieNeverOlder'
    <3>1. ASSUME NEW q \in Requests, Answered(q)'
          PROVE  \E i, j \in DOMAIN began' :
                     i <= j /\ began'[i] = q /\ response'[q].cookie = id'[began'[j]]
      <4>1. Answered(q) /\ response' = response
        BY <1>1, <3>1 DEF Begin, Answered
      <4>2. PICK i \in DOMAIN began, j \in DOMAIN began :
                i <= j /\ began[i] = q /\ response[q].cookie = id[began[j]]
        BY <4>1 DEF OrderInv, CookieNeverOlder
      <4>3. i \in DOMAIN began' /\ j \in DOMAIN began'
        BY <2>1, <4>2
      <4>4. began'[i] = q /\ began'[j] = began[j] /\ id'[began[j]] = id[began[j]]
        BY <2>1, <2>2, <2>3, <4>2
      <4>5. QED
        BY <4>1, <4>2, <4>3, <4>4
    <3>2. QED
      BY <3>1 DEF CookieNeverOlder
  <2>8. QED
    BY <2>4, <2>5, <2>6, <2>7
<1>2. ASSUME NEW r \in Requests,
             CacheHit(r) \/ CacheMiss(r) \/ Fetch(r) \/ FetchFails(r) \/ Store(r)
                \/ Publish(r) \/ PublishFails(r)
      PROVE  BeganInv' /\ DownInv' /\ HeaderInv' /\ CookieNeverOlder'
  <2>1. /\ began' = began /\ id' = id /\ response' = response
        /\ header' = header /\ phase' = phase
    BY <1>2 DEF CacheHit, CacheMiss, Fetch, FetchFails, Store, Publish, PublishFails
  <2>2. /\ r \in InFlight
        /\ \A q \in Requests \ {r} : pc'[q] = pc[q]
        /\ pc'[r] # "new"
    BY <1>2, <1>0 DEF CacheHit, CacheMiss, Fetch, FetchFails, Store, Publish,
       PublishFails, InFlight, TypeOK
  <2>3. InFlight' \subseteq InFlight
    BY <2>2 DEF InFlight
  <2>4. \A q \in Requests : (pc'[q] = "new") <=> (pc[q] = "new")
    BY <2>2 DEF InFlight
  <2>5. QED
    BY <2>1, <2>3, <2>4, OrderFrame
<1>3. ASSUME NEW r \in Requests, Respond(r)
      PROVE  BeganInv' /\ DownInv' /\ HeaderInv' /\ CookieNeverOlder'
  <2>1. /\ began' = began /\ id' = id /\ header' = header /\ phase' = phase
    BY <1>3 DEF Respond
  <2>2. /\ r \in InFlight
        /\ \A q \in Requests \ {r} : pc'[q] = pc[q] /\ response'[q] = response[q]
        /\ pc'[r] # "new"
        /\ response'[r].cookie = header
    BY <1>3, <1>0 DEF Respond, InFlight, TypeOK
  <2>3. InFlight' \subseteq InFlight
    BY <2>2 DEF InFlight
  <2>4. \A i \in DOMAIN began : began[i] \in Requests
    BY <1>0 DEF TypeOK
  <2>5. BeganInv'
    BY <2>1, <2>2, <2>4 DEF OrderInv, BeganInv, InFlight
  <2>6. DownInv' /\ HeaderInv'
    BY <2>1, <2>3 DEF OrderInv, DownInv, HeaderInv
  <2>7. \E i, j \in DOMAIN began :
            i <= j /\ began[i] = r /\ header = id[began[j]]
    <3>1. PICK i \in DOMAIN began : began[i] = r
      BY <2>2 DEF OrderInv, BeganInv, InFlight
    <3>2. Len(began) \in DOMAIN began /\ i <= Len(began)
      BY <3>1, <1>0 DEF TypeOK
    <3>3. header = id[began[Len(began)]]
      BY <2>2 DEF OrderInv, HeaderInv
    <3>4. QED
      BY <3>1, <3>2, <3>3
  <2>8. CookieNeverOlder'
    BY <2>1, <2>2, <2>7 DEF OrderInv, CookieNeverOlder, Answered
  <2>9. QED
    BY <2>5, <2>6, <2>8
<1>4. ASSUME NEW c \in Browsers, AnswerOther(c)
      PROVE  BeganInv' /\ DownInv' /\ HeaderInv' /\ CookieNeverOlder'
  BY <1>4, OrderFrame DEF AnswerOther, InFlight
<1>5. CASE Sigterm \/ UNCHANGED vars
  BY <1>5, <1>0, OrderFrame DEF Sigterm, vars, InFlight, OrderInv
<1>6. CASE Stop
  <2>1. InFlight' = {} /\ \A r \in Requests : (pc'[r] = "new") <=> (pc[r] = "new")
    BY <1>6 DEF Stop, InFlight
  <2>2. QED
    BY <1>6, <1>0, <2>1, OrderFrame DEF Stop, OrderInv
<1>7. CASE Restart
  <2>1. InFlight = {} /\ pc' = pc
    BY <1>7 DEF Restart, OrderInv, DownInv
  <2>2. InFlight' = {}
    BY <2>1 DEF InFlight
  <2>3. QED
    BY <1>7, <1>0, <2>1, <2>2, OrderFrame DEF Restart, OrderInv
<1>8. QED
  BY StepCases, <1>0, <1>1, <1>2, <1>3, <1>4, <1>5, <1>6, <1>7 DEF OrderInv

(* The cookie of an answer is the browser id of its hit or of a later one, *)
(* for however many hits share the headers (event_tracker.ts 210, 238).    *)
THEOREM CookiesAreNeverOlder == Spec => []CookieNeverOlder
<1>1. Init => OrderInv
  BY InitTypeOK DEF Init, OrderInv, BeganInv, DownInv, HeaderInv, CookieNeverOlder,
     InFlight, Answered
<1>2. OrderInv => CookieNeverOlder
  BY DEF OrderInv
<1>3. QED
  BY <1>1, <1>2, NextOrderInv, PTL DEF Spec
=============================================================================
