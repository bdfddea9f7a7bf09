------------------------- MODULE ConsolidatorProofs -------------------------
(***************************************************************************)
(* The consolidator for any number of messages, pages and disturbances.    *)
(* The invariant has two parts besides the types.  Held is why the array   *)
(* may be emptied after the answer: while nobody else resumes the          *)
(* consumer, it is paused during a flush, and the request is of all that   *)
(* is in the array.  Mapped is why a page has one document: the mapping    *)
(* names the document of each page, and a request under way names what the *)
(* mapping does.                                                           *)
(***************************************************************************)
EXTENDS Consolidator, SequenceTheorems, FiniteSetTheorems, WellFoundedInduction, TLAPS

Looking == flush.at = "look" => Len(flush.requests) < Len(batch)

Held ==
    "resumed" \notin excuses =>
        /\ Flushing => paused
        /\ flush.at = "bulk" => Len(flush.requests) = Len(batch)

Calm == excuses \cap {"together", "unconfirmed", "cache"} = {}

Mapped ==
    Calm =>
        /\ \A p \in Pages : mapping[p] <= Len(docs)
        /\ \A d \in DOMAIN docs :
              docs[d] # 0 /\ Page[docs[d]] # NoPage => mapping[Page[docs[d]]] = d
        /\ \A i \in DOMAIN flush.requests :
              flush.requests[i].id = Target(flush.requests[i].message)

-----------------------------------------------------------------------------
LEMMA NatOrder ==
    \E R : IsWellFoundedOn(R, Nat) /\ \A x, y \in Nat : y < x => <<y, x>> \in R
<1>1. \A x, y \in Nat : y < x => <<y, x>> \in OpToRel(<, Nat)
  BY DEF OpToRel
<1> QED
  BY <1>1, NatLessThanWellFounded

LEMMA Least ==
    ASSUME NEW T, NEW t \in T, \A y \in T : y \in Nat
    PROVE  \E x \in T : \A y \in T : x <= y
<1>1. PICK R : IsWellFoundedOn(R, Nat) /\ \A x, y \in Nat : y < x => <<y, x>> \in R
  BY NatOrder
<1>2. PICK x \in T : \A y \in T : <<y, x>> \notin R
  BY <1>1, WFMin
<1>3. ASSUME NEW y \in T PROVE x <= y
  <2>1. x \in Nat /\ y \in Nat
    OBVIOUS
  <2>2. ~(y < x)
    BY <1>1, <1>2, <2>1
  <2> QED
    BY <2>1, <2>2
<1> QED
  BY <1>3

LEMMA Greatest ==
    ASSUME NEW n \in Nat, NEW T, NEW t \in T, \A y \in T : y \in 0..n
    PROVE  \E x \in T : \A y \in T : y <= x
<1> DEFINE U == {n - y : y \in T}
<1>1. (\A v \in U : v \in Nat) /\ n - t \in U
  OBVIOUS
<1>2. PICK u \in U : \A v \in U : u <= v
  BY <1>1, Least
<1>3. PICK x \in T : u = n - x
  BY <1>2
<1>4. ASSUME NEW y \in T PROVE y <= x
  <2>1. x \in 0..n /\ y \in 0..n /\ n - y \in U
    OBVIOUS
  <2> HIDE DEF U
  <2>2. n - x <= n - y
    BY <1>2, <1>3, <2>1
  <2> QED
    BY <2>1, <2>2
<1> QED
  BY <1>4

-----------------------------------------------------------------------------
(* The requests of a flush and the ids they get.                           *)

LEMMA RequestTypes ==
    ASSUME TypeOK
    PROVE  /\ Len(Requests) \in Nat /\ DOMAIN Requests = 1..Len(Requests)
           /\ Len(docs) \in Nat /\ DOMAIN docs = 1..Len(docs)
           /\ \A i \in DOMAIN Requests : Requests[i].message \in Messages /\ Requests[i].id \in Nat
           /\ \A d \in DOMAIN docs : docs[d] \in Messages \cup {0}
<1>1. Requests \in Seq(BulkRequest) /\ docs \in Seq(Messages \cup {0})
  BY DEF TypeOK, Requests
<1>2. \A i \in DOMAIN Requests : Requests[i] \in BulkRequest
  BY <1>1, ElementOfSeq, LenProperties
<1>3. \A i \in DOMAIN Requests : Requests[i].message \in Messages /\ Requests[i].id \in Nat
  BY <1>2 DEF BulkRequest
<1>4. \A d \in DOMAIN docs : docs[d] \in Messages \cup {0}
  BY <1>1, ElementOfSeq, LenProperties
<1> QED
  BY <1>1, <1>3, <1>4, LenProperties

LEMMA NewOnesCounted ==
    ASSUME TypeOK
    PROVE  /\ IsFiniteSet(NewOnes) /\ Cardinality(NewOnes) \in Nat
           /\ \A i \in NewOnes : LET K == {j \in NewOnes : j <= i} IN
                 Cardinality(K) \in Nat /\ Cardinality(K) <= Cardinality(NewOnes)
<1>1. IsFiniteSet(1..Len(Requests))
  BY RequestTypes, FS_Interval
<1>2. NewOnes \subseteq 1..Len(Requests)
  BY RequestTypes DEF NewOnes
<1>3. IsFiniteSet(NewOnes) /\ Cardinality(NewOnes) \in Nat
  BY <1>1, <1>2, FS_Subset, FS_CardinalityType
<1>4. ASSUME NEW i \in NewOnes, NEW K, K \subseteq NewOnes
      PROVE  Cardinality(K) \in Nat /\ Cardinality(K) <= Cardinality(NewOnes)
  BY <1>3, <1>4, FS_Subset, FS_CardinalityType
<1>5. \A i \in NewOnes : {j \in NewOnes : j <= i} \subseteq NewOnes
  OBVIOUS
<1> QED
  BY <1>3, <1>4, <1>5

LEMMA Ids ==
    ASSUME TypeOK, NEW i \in DOMAIN Requests
    PROVE  /\ IdOf(i) \in Nat
           /\ Requests[i].id # 0 => IdOf(i) = Requests[i].id
           /\ i \in NewOnes => IdOf(i) <= Len(docs) + Cardinality(NewOnes)
<1>1. CASE Requests[i].id # 0
  BY <1>1, RequestTypes DEF IdOf, NewOnes
<1>2. CASE Requests[i].id = 0
  <2>1. i \in NewOnes
    BY <1>2 DEF NewOnes
  <2>2. PICK c \in Nat : c = Cardinality({j \in NewOnes : j <= i}) /\ c <= Cardinality(NewOnes)
    BY <2>1, NewOnesCounted
  <2>3. IdOf(i) = Len(docs) + c
    BY <1>2, <2>2 DEF IdOf
  <2> QED
    BY <1>2, <2>2, <2>3, RequestTypes, NewOnesCounted
<1> QED
  BY <1>1, <1>2

(* The mapping after a bulk request: that of a page is the id of one of    *)
(* its new documents, if there are any.                                    *)
LEMMA RememberedIds ==
    ASSUME TypeOK, NEW p \in Pages
    PROVE  \/ /\ Remembered[p] = mapping[p]
              /\ \A i \in NewOnes : Page[Requests[i].message] # p
           \/ \E i \in NewOnes : Page[Requests[i].message] = p /\ Remembered[p] = IdOf(i)
<1>1. PICK news : news = {i \in NewOnes : Page[Requests[i].message] = p}
  OBVIOUS
<1>2. Remembered[p] = IF news = {} THEN mapping[p]
                      ELSE IdOf(CHOOSE i \in news : \A j \in news : j <= i)
  BY <1>1 DEF Remembered
<1>3. CASE news = {}
  BY <1>1, <1>2, <1>3
<1>4. CASE news # {}
  <2>1. PICK t \in news : TRUE
    BY <1>4
  <2>2. \A y \in news : y \in 0..Len(Requests)
    BY <1>1, RequestTypes DEF NewOnes
  <2>3. \E x \in news : \A y \in news : y <= x
    BY <2>1, <2>2, RequestTypes, Greatest
  <2>4. PICK c : c = CHOOSE i \in news : \A j \in news : j <= i
    OBVIOUS
  <2>5. c \in news
    BY <2>3, <2>4
  <2>6. Remembered[p] = IdOf(c)
    BY <1>2, <1>4, <2>4
  <2> QED
    BY <1>1, <2>5, <2>6
<1> QED
  BY <1>3, <1>4

LEMMA RememberedType == ASSUME TypeOK PROVE Remembered \in [Pages -> Nat]
<1>1. mapping \in [Pages -> Nat]
  BY DEF TypeOK
<1>2. ASSUME NEW p \in Pages PROVE Remembered[p] \in Nat
  <2>1. NewOnes \subseteq DOMAIN Requests
    BY DEF NewOnes
  <2>2. CASE Remembered[p] = mapping[p]
    BY <1>1, <2>2
  <2>3. ASSUME NEW i \in NewOnes, Remembered[p] = IdOf(i) PROVE Remembered[p] \in Nat
    BY <2>1, <2>3, Ids
  <2> QED
    BY <2>2, <2>3, RememberedIds
<1>3. Remembered = [p \in Pages |-> Remembered[p]]
  BY DEF Remembered
<1> QED
  BY <1>2, <1>3

(* What a bulk request leaves in the index.                                *)
LEMMA Applied ==
    ASSUME TypeOK, NEW accepted \in SUBSET DOMAIN Requests, Apply(accepted)
    PROVE  /\ docs' \in Seq(Messages \cup {0})
           /\ Len(docs') = Len(docs) + Cardinality(NewOnes)
           /\ \A d \in DOMAIN docs' :
                 \/ docs'[d] = 0
                 \/ \E i \in DOMAIN Requests : IdOf(i) = d /\ docs'[d] = Requests[i].message
                 \/ d \in DOMAIN docs /\ docs'[d] = docs[d]
           /\ stored' = stored \cup {Requests[i].message : i \in accepted}
           /\ stored' \subseteq Messages
<1>1. PICK n \in Nat : n = Len(docs) + Cardinality(NewOnes)
  BY RequestTypes, NewOnesCounted
<1>2. docs' = [d \in 1..n |->
                 IF LastFor(d, accepted) # {}
                   THEN Requests[CHOOSE i \in LastFor(d, accepted) : TRUE].message
                   ELSE IF d <= Len(docs) THEN docs[d] ELSE 0]
  BY <1>1 DEF Apply
<1>3. ASSUME NEW d \in 1..n
      PROVE  \/ docs'[d] = 0
             \/ \E i \in DOMAIN Requests : IdOf(i) = d /\ docs'[d] = Requests[i].message
             \/ d \in DOMAIN docs /\ docs'[d] = docs[d]
  <2>1. CASE LastFor(d, accepted) # {}
    <3>1. PICK i : i = CHOOSE k \in LastFor(d, accepted) : TRUE
      OBVIOUS
    <3>2. i \in LastFor(d, accepted)
      BY <2>1, <3>1
    <3>3. i \in DOMAIN Requests /\ IdOf(i) = d
      BY <3>2 DEF LastFor
    <3>4. docs'[d] = Requests[i].message
      BY <1>2, <2>1, <3>1
    <3> QED
      BY <3>3, <3>4
  <2>2. CASE LastFor(d, accepted) = {}
    BY <1>2, <2>2, RequestTypes
  <2> QED
    BY <2>1, <2>2
<1>4. \A d \in 1..n : docs'[d] \in Messages \cup {0}
  BY <1>3, RequestTypes
<1>5. docs' \in [1..n -> Messages \cup {0}]
  BY <1>2, <1>4
<1>6. docs' \in Seq(Messages \cup {0}) /\ Len(docs') = n
  BY <1>5, SeqDef, LenProperties
<1>7. DOMAIN docs' = 1..n
  BY <1>2
<1>8. stored' = stored \cup {Requests[i].message : i \in accepted}
  BY DEF Apply
<1>9. stored \subseteq Messages
  BY DEF TypeOK
<1>10. stored' \subseteq Messages
  BY <1>8, <1>9, RequestTypes
<1> QED
  BY <1>1, <1>3, <1>6, <1>7, <1>8, <1>10

-----------------------------------------------------------------------------
(* Types.                                                                  *)

LEMMA Bound == Disturb /\ disturbances \in 0..MaxDisturbances => disturbances' \in 0..MaxDisturbances
BY BoundAssumption DEF Disturb

(* The array and the requests of a flush under way.                        *)
BatchOK ==
    /\ batch \in Seq(Messages)
    /\ flush \in [at : {"idle", "look", "bulk"}, requests : Seq(BulkRequest)]
    /\ Len(flush.requests) <= Len(batch)
    /\ \A i \in DOMAIN flush.requests : flush.requests[i].message = batch[i]

(* The consumer and the bounds.                                            *)
ConsumerOK ==
    /\ position \in 0..MaxMessages
    /\ committed \in 0..position
    /\ {paused, joining, rebalancing} \subseteq BOOLEAN
    /\ phase \in {"up", "stopping", "closing", "down"}
    /\ disturbances \in 0..MaxDisturbances
    /\ excuses \subseteq {"resumed", "together", "unconfirmed", "cache"}

(* The index and what is recorded of messages.                             *)
IndexOK ==
    /\ mapping \in [Pages -> Nat]
    /\ docs \in Seq(Messages \cup {0})
    /\ stored \cup rejected \cup left \cup cut \subseteq Messages

LEMMA TypeSplit == TypeOK <=> BatchOK /\ ConsumerOK /\ IndexOK
BY DEF TypeOK, BatchOK, ConsumerOK, IndexOK

LEMMA Initially == Init => TypeOK /\ Looking /\ Held /\ NoneSwallowed /\ Mapped
<1> SUFFICES ASSUME Init PROVE TypeOK /\ Looking /\ Held /\ NoneSwallowed /\ Mapped
  OBVIOUS
<1> USE DEF Init
<1>1. TypeOK
  <2>1. flush = [at |-> "idle", requests |-> <<>>] /\ batch = <<>> /\ docs = <<>>
    BY DEF Idle
  <2>2. BatchOK
    BY <2>1, EmptySeq DEF BatchOK
  <2>3. ConsumerOK
    <3>1. 0 \in 0..MaxMessages /\ 0 \in 0..MaxDisturbances /\ 0 \in 0..0
      BY BoundAssumption, MessageAssumption
    <3> QED
      BY <3>1 DEF ConsumerOK
  <2>4. IndexOK
    BY <2>1, EmptySeq DEF IndexOK
  <2> QED
    BY <2>2, <2>3, <2>4, TypeSplit
<1>2. Looking /\ Held /\ Mapped
  BY DEF Looking, Held, Mapped, Flushing, Idle
<1>3. NoneSwallowed
  BY DEF NoneSwallowed
<1> QED
  BY <1>1, <1>2, <1>3

LEMMA Batched ==
    ASSUME TypeOK
    PROVE  /\ Len(batch) \in Nat /\ DOMAIN batch = 1..Len(batch)
           /\ \A i \in DOMAIN batch : batch[i] \in Messages
           /\ InBatch \subseteq Messages
<1>1. batch \in Seq(Messages)
  BY DEF TypeOK
<1>2. DOMAIN batch = 1..Len(batch) /\ Len(batch) \in Nat
  BY <1>1, LenProperties
<1>3. \A i \in DOMAIN batch : batch[i] \in Messages
  BY <1>1, <1>2, ElementOfSeq
<1> QED
  BY <1>2, <1>3 DEF InBatch

(* A flush that ends, or one that begins, leaves the array's part in order *)
(* whatever has become of the array.                                       *)
LEMMA NoRequests ==
    ASSUME batch' \in Seq(Messages), flush'.requests = <<>>,
           flush' \in [at : {"idle", "look", "bulk"}, requests : Seq(BulkRequest)]
    PROVE  BatchOK'
<1>1. Len(batch') \in Nat
  BY LenProperties
<1> QED
  BY <1>1, EmptySeq DEF BatchOK

LEMMA Looked ==
    ASSUME TypeOK, Looking, Look
    PROVE  \E target \in Nat :
              Request(target) /\ target = Target(batch[Len(flush.requests) + 1])
<1>1. PICK target : Request(target) /\ target = Target(batch[Len(flush.requests) + 1])
  BY DEF Look
<1>2. flush.at = "look" /\ Len(flush.requests) \in Nat
  BY <1>1, RequestTypes DEF Request, Requests
<1>3. Len(flush.requests) + 1 \in DOMAIN batch
  BY <1>2, Batched DEF Looking
<1>4. PICK m \in Messages : m = batch[Len(flush.requests) + 1]
  BY <1>3, Batched
<1>5. target \in Nat
  BY <1>1, <1>4, PageAssumption DEF Target, TypeOK
<1> QED
  BY <1>1, <1>5

LEMMA Requested ==
    ASSUME TypeOK, Looking, NEW target \in Nat, Request(target)
    PROVE  /\ BatchOK' /\ Looking'
           /\ flush'.at = "bulk" => Len(flush'.requests) = Len(batch')
           /\ UNCHANGED batch
           /\ flush.at = "look" /\ flush'.at \in {"look", "bulk"}
           /\ DOMAIN flush'.requests = DOMAIN flush.requests \cup {Len(flush.requests) + 1}
           /\ \A i \in DOMAIN flush.requests : flush'.requests[i] = flush.requests[i]
           /\ flush'.requests[Len(flush.requests) + 1] =
                 [message |-> batch[Len(flush.requests) + 1], id |-> target]
<1>0. flush.at = "look" /\ Len(flush.requests) \in Nat
  BY RequestTypes DEF Request, Requests
<1>1. PICK k \in Nat : k = Len(flush.requests) /\ k < Len(batch) /\ k + 1 \in DOMAIN batch
  BY <1>0, Batched DEF Looking
<1>2. PICK m \in Messages : m = batch[k + 1]
  BY <1>1, Batched
<1>3. PICK requests : requests = Append(flush.requests, [message |-> m, id |-> target])
  OBVIOUS
<1>4. /\ flush.at = "look" /\ UNCHANGED batch
      /\ flush' = [at |-> IF Len(requests) = Len(batch) THEN "bulk" ELSE "look",
                   requests |-> requests]
  BY <1>1, <1>2, <1>3 DEF Request
<1>5. flush.requests \in Seq(BulkRequest) /\ [message |-> m, id |-> target] \in BulkRequest
  BY DEF TypeOK, BulkRequest
<1>6. /\ requests \in Seq(BulkRequest) /\ Len(requests) = k + 1
      /\ \A i \in 1..k : requests[i] = flush.requests[i]
      /\ requests[k + 1] = [message |-> m, id |-> target]
  BY <1>1, <1>3, <1>5, AppendProperties
<1>7. DOMAIN requests = 1..(k + 1) /\ DOMAIN flush.requests = 1..k
  BY <1>1, <1>5, <1>6, LenProperties
<1>8. \A i \in 1..(k + 1) : requests[i].message = batch[i]
  <2>1. \A i \in 1..k : requests[i].message = batch[i]
    BY <1>6, <1>7 DEF TypeOK
  <2> QED
    BY <1>1, <1>2, <1>6, <2>1
<1>9. Len(batch) \in Nat
  BY Batched
<1>10. flush'.requests = requests /\ flush'.at = IF k + 1 = Len(batch) THEN "bulk" ELSE "look"
  BY <1>4, <1>6
<1>11. BatchOK'
  <2>1. batch' \in Seq(Messages) /\ Len(requests) <= Len(batch')
    BY <1>1, <1>4, <1>6, <1>9 DEF TypeOK
  <2>2. flush' \in [at : {"idle", "look", "bulk"}, requests : Seq(BulkRequest)]
    BY <1>4, <1>6
  <2> QED
    BY <1>4, <1>7, <1>8, <1>10, <2>1, <2>2 DEF BatchOK
<1>12. Looking'
  BY <1>1, <1>4, <1>6, <1>9, <1>10 DEF Looking
<1> QED
  BY <1>1, <1>2, <1>4, <1>6, <1>7, <1>10, <1>11, <1>12

LEMMA Delivered ==
    ASSUME TypeOK, Deliver
    PROVE  /\ batch' \in Seq(Messages) /\ Len(batch') = Len(batch) + 1
           /\ \A i \in 1..Len(batch) : batch'[i] = batch[i]
           /\ InBatch' = InBatch \cup {position'}
           /\ position' = position + 1 /\ position' \in Messages
<1>1. position \in Nat /\ position < MaxMessages /\ position' = position + 1
  BY MessageAssumption DEF TypeOK, Deliver
<1>2. position' \in Messages
  BY <1>1, MessageAssumption DEF Messages
<1>3. batch \in Seq(Messages) /\ batch' = Append(batch, position')
  BY DEF TypeOK, Deliver
<1>4. /\ batch' \in Seq(Messages) /\ Len(batch') = Len(batch) + 1
      /\ \A i \in 1..Len(batch) : batch'[i] = batch[i]
      /\ batch'[Len(batch) + 1] = position'
  BY <1>2, <1>3, AppendProperties
<1>5. DOMAIN batch' = DOMAIN batch \cup {Len(batch) + 1} /\ DOMAIN batch = 1..Len(batch)
  BY <1>4, Batched, LenProperties
<1>6. InBatch' = InBatch \cup {position'}
  BY <1>4, <1>5 DEF InBatch
<1> QED
  BY <1>1, <1>2, <1>4, <1>6

LEMMA EmptyFlush ==
    \A at \in {"idle", "look", "bulk"} :
        [at |-> at, requests |-> <<>>]
           \in [at : {"idle", "look", "bulk"}, requests : Seq(BulkRequest)]
BY EmptySeq

LEMMA FlushBegins ==
    ASSUME TypeOK, Large, flush' = [Idle EXCEPT !.at = "look"], UNCHANGED batch
    PROVE  BatchOK' /\ Looking'
<1>1. flush' = [at |-> "look", requests |-> <<>>]
  BY DEF Idle
<1>a. batch' \in Seq(Messages)
  BY DEF TypeOK
<1>2. Len(batch') \in Nat /\ Len(batch') > 0
  <2>1. CacheSize \div 2 \in Nat
    BY BoundAssumption
  <2> QED
    BY <2>1, Batched DEF Large
<1>3. flush' \in [at : {"idle", "look", "bulk"}, requests : Seq(BulkRequest)]
  BY <1>1, EmptyFlush
<1>4. BatchOK'
  BY <1>1, <1>a, <1>3, NoRequests
<1> QED
  BY <1>1, <1>2, <1>4, EmptySeq DEF Looking

LEMMA FlushEnds ==
    ASSUME flush' = Idle, batch' \in Seq(Messages)
    PROVE  BatchOK' /\ Looking'
<1>1. flush' = [at |-> "idle", requests |-> <<>>]
  BY DEF Idle
<1>2. flush' \in [at : {"idle", "look", "bulk"}, requests : Seq(BulkRequest)]
  BY <1>1, EmptySeq
<1> QED
  BY <1>1, <1>2, NoRequests DEF Looking

LEMMA BatchKept ==
    ASSUME TypeOK, Looking, UNCHANGED <<batch, flush>>
    PROVE  BatchOK' /\ Looking'
BY DEF TypeOK, Looking, BatchOK

LEMMA IndexKept == TypeOK /\ UNCHANGED <<index, left, cut>> => IndexOK'
BY DEF TypeOK, IndexOK, index

LEMMA GoneTypes ==
    ASSUME TypeOK, Gone
    PROVE  /\ BatchOK' /\ Looking'
           /\ position' = committed /\ committed' = committed
           /\ {paused', joining', rebalancing'} \subseteq BOOLEAN
           /\ phase' = "down"
           /\ excuses \subseteq excuses' /\ excuses' \subseteq excuses \cup {"unconfirmed"}
           /\ mapping' \in [Pages -> Nat] /\ docs' \in Seq(Messages \cup {0})
           /\ stored \subseteq stored' /\ stored' \subseteq Messages
           /\ UNCHANGED <<mapping, rejected>>
           /\ "unconfirmed" \notin excuses' => UNCHANGED docs
           /\ flush' = Idle /\ batch' = <<>> /\ paused' = FALSE
<1>1. BatchOK' /\ Looking'
  BY EmptySeq, FlushEnds DEF Gone
<1>2. CASE UNCHANGED <<docs, stored, excuses>>
  BY <1>1, <1>2 DEF Gone, TypeOK
<1>3. CASE Apply(DOMAIN Requests) /\ excuses' = excuses \cup {"unconfirmed"}
  BY <1>1, <1>3, Applied DEF Gone, TypeOK
<1> QED
  BY <1>2, <1>3 DEF Gone

(* What flush does with the index when it ends.                            *)
LEMMA AnsweredTypes ==
    ASSUME TypeOK, BulkAnswers
    PROVE  /\ TypeOK' /\ Looking'
           /\ excuses \subseteq excuses'
           /\ flush.at = "bulk" /\ flush' = Idle /\ batch' = <<>> /\ position' = position
           /\ stored \cup rejected \cup {Requests[i].message : i \in DOMAIN Requests}
                 \subseteq stored' \cup rejected'
           /\ UNCHANGED <<left, cut>>
<1>1. PICK accepted \in SUBSET DOMAIN Requests :
         /\ accepted = DOMAIN Requests \/ disturbances < MaxDisturbances
         /\ disturbances' = disturbances + IF accepted = DOMAIN Requests THEN 0 ELSE 1
         /\ Apply(accepted)
         /\ rejected' = rejected \cup {Requests[i].message : i \in DOMAIN Requests \ accepted}
  BY DEF BulkAnswers
<1>2. BatchOK' /\ Looking'
  BY EmptySeq, FlushEnds DEF BulkAnswers, EndFlush
<1>3. disturbances' \in 0..MaxDisturbances
  BY <1>1, BoundAssumption DEF TypeOK
<1>4. ConsumerOK'
  BY <1>3 DEF BulkAnswers, EndFlush, TypeOK, ConsumerOK
<1>5. mapping' \in [Pages -> Nat]
  BY RememberedType DEF BulkAnswers
<1>6. docs' \in Seq(Messages \cup {0}) /\ stored' \subseteq Messages
      /\ stored' = stored \cup {Requests[i].message : i \in accepted}
  BY <1>1, Applied
<1>7. rejected' \subseteq Messages
  BY <1>1, RequestTypes DEF TypeOK
<1>8. UNCHANGED <<left, cut>>
  BY DEF BulkAnswers, EndFlush
<1>9. IndexOK'
  BY <1>5, <1>6, <1>7, <1>8 DEF IndexOK, TypeOK
<1>10. TypeOK'
  BY <1>2, <1>4, <1>9 DEF TypeOK, BatchOK, ConsumerOK, IndexOK
<1>11. \A i \in DOMAIN Requests : Requests[i].message \in stored' \cup rejected'
  BY <1>1, <1>6
<1> QED
  BY <1>1, <1>2, <1>6, <1>8, <1>10, <1>11 DEF BulkAnswers, EndFlush

LEMMA FailedTypes ==
    ASSUME TypeOK, BulkFails
    PROVE  /\ TypeOK' /\ Looking'
           /\ excuses \subseteq excuses' /\ stored \subseteq stored'
           /\ flush' = Idle /\ UNCHANGED <<batch, position, rejected, left, cut>>
<1>1. \/ UNCHANGED <<index, excuses>>
      \/ /\ Apply(DOMAIN Requests)
         /\ \/ mapping' = mapping /\ excuses' = excuses \cup {"unconfirmed"}
            \/ mapping' = Remembered /\ excuses' = IF Together THEN excuses \cup {"together"}
                                                   ELSE excuses
         /\ UNCHANGED rejected
  BY DEF BulkFails
<1>2. BatchOK' /\ Looking'
  BY FlushEnds DEF BulkFails, EndFlush, TypeOK
<1>3. disturbances' \in 0..MaxDisturbances
  BY Bound DEF BulkFails, TypeOK
<1>4. excuses' \subseteq {"resumed", "together", "unconfirmed", "cache"} /\ excuses \subseteq excuses'
  BY <1>1 DEF TypeOK
<1>5. ConsumerOK'
  BY <1>3, <1>4 DEF BulkFails, EndFlush, TypeOK, ConsumerOK
<1>6. mapping' \in [Pages -> Nat]
  BY <1>1, RememberedType DEF TypeOK, index
<1>7. docs' \in Seq(Messages \cup {0}) /\ stored' \subseteq Messages /\ stored \subseteq stored'
  BY <1>1, Applied DEF TypeOK, index
<1>8. UNCHANGED <<rejected, left, cut>>
  BY <1>1 DEF BulkFails, EndFlush, index
<1>9. IndexOK'
  BY <1>6, <1>7, <1>8 DEF IndexOK, TypeOK
<1>10. TypeOK'
  BY <1>2, <1>5, <1>9 DEF TypeOK, BatchOK, ConsumerOK, IndexOK
<1> QED
  BY <1>2, <1>4, <1>7, <1>8, <1>10 DEF BulkFails, EndFlush

LEMMA TypeStep == TypeOK /\ Looking /\ [Next]_vars => TypeOK' /\ Looking'
<1> SUFFICES ASSUME TypeOK, Looking, [Next]_vars PROVE TypeOK' /\ Looking'
  OBVIOUS
<1>0. /\ position \in 0..MaxMessages /\ committed \in 0..position /\ position \in Nat
      /\ disturbances \in 0..MaxDisturbances
  BY MessageAssumption DEF TypeOK
<1>t. BatchOK' /\ ConsumerOK' /\ IndexOK' => TypeOK'
  BY DEF TypeOK, BatchOK, ConsumerOK, IndexOK
<1>1. CASE Deliver
  <2>1. Len(batch) \in Nat /\ Len(flush.requests) \in Nat /\ Len(flush.requests) <= Len(batch)
        /\ DOMAIN flush.requests = 1..Len(flush.requests)
    BY Batched, RequestTypes DEF TypeOK, Requests
  <2>2. flush' = flush /\ flush \in [at : {"idle", "look", "bulk"}, requests : Seq(BulkRequest)]
    BY <1>1 DEF Deliver, TypeOK
  <2>3. ASSUME NEW i \in DOMAIN flush.requests PROVE flush.requests[i].message = batch'[i]
    <3>1. flush.requests[i].message = batch[i] /\ i \in 1..Len(batch)
      BY <2>1 DEF TypeOK
    <3> QED
      BY <1>1, <3>1, Delivered
  <2>4. BatchOK' /\ Looking'
    BY <1>1, <2>1, <2>2, <2>3, Delivered DEF BatchOK, Looking
  <2>5. position' \in 0..MaxMessages /\ committed' \in 0..position'
    BY <1>0, <1>1, MessageAssumption DEF Deliver
  <2>6. ConsumerOK'
    BY <1>1, <2>5 DEF Deliver, ConsumerOK, TypeOK
  <2>7. IndexOK'
    BY <1>1, IndexKept DEF Deliver
  <2> QED
    BY <1>t, <2>4, <2>6, <2>7
<1>2. CASE Commit
  <2>1. committed' \in 0..position'
    BY <1>0, <1>2 DEF Commit
  <2>2. ConsumerOK'
    BY <1>2, <2>1 DEF Commit, ConsumerOK, TypeOK
  <2> QED
    BY <1>2, <1>t, <2>2, BatchKept, IndexKept DEF Commit
<1>3. CASE Tick
  <2>1. ConsumerOK'
    BY <1>3 DEF Tick, ConsumerOK, TypeOK
  <2> QED
    BY <1>3, <1>t, <2>1, FlushBegins, IndexKept DEF Tick
<1>4. CASE Look
  <2>1. PICK target \in Nat : Request(target)
    BY <1>4, Looked
  <2>2. ConsumerOK'
    BY <1>4 DEF Look, Request, consumer, ConsumerOK, TypeOK
  <2>3. IndexOK'
    BY <2>1, IndexKept DEF Request
  <2> QED
    BY <1>t, <2>1, <2>2, <2>3, Requested
<1>5. CASE LookMisses
  <2>1. Request(0) /\ disturbances' \in 0..MaxDisturbances
    BY <1>0, <1>5, Bound DEF LookMisses
  <2>2. ConsumerOK'
    BY <1>5, <2>1 DEF LookMisses, Request, consumer, ConsumerOK, TypeOK
  <2>3. IndexOK'
    BY <2>1, IndexKept DEF Request
  <2> QED
    BY <1>t, <2>1, <2>2, <2>3, Requested
<1>6. CASE BulkSettles
  BY <1>6, AnsweredTypes, FailedTypes DEF BulkSettles
<1>7. CASE Rebalance
  <2>1. disturbances' \in 0..MaxDisturbances
    BY <1>0, <1>7, Bound DEF Rebalance
  <2>2. ConsumerOK'
    BY <1>7, <2>1 DEF Rebalance, ConsumerOK, TypeOK
  <2> QED
    BY <1>7, <1>t, <2>2, BatchKept, IndexKept DEF Rebalance
<1>8. CASE Joined
  <2>1. position' \in 0..MaxMessages /\ committed' \in 0..position'
    <3>1. position' = committed /\ committed' = committed
      BY <1>8 DEF Joined, Resume
    <3> QED
      BY <1>0, <3>1, MessageAssumption
  <2>2. ConsumerOK'
    BY <1>8, <2>1 DEF Joined, Resume, ConsumerOK, TypeOK
  <2> QED
    BY <1>8, <1>t, <2>2, BatchKept, IndexKept DEF Joined, Resume
<1>9. CASE TimeLimit
  <2>1. ConsumerOK'
    BY <1>9 DEF TimeLimit, Resume, ConsumerOK, TypeOK
  <2> QED
    BY <1>9, <1>t, <2>1, BatchKept, IndexKept DEF TimeLimit, Resume
<1>10. CASE Sigterm
  <2>1. disturbances' \in 0..MaxDisturbances
    BY <1>0, <1>10, Bound DEF Sigterm
  <2>2. ConsumerOK'
    BY <1>10, <2>1 DEF Sigterm, ConsumerOK, TypeOK
  <2>3. BatchOK' /\ Looking'
    BY <1>10, BatchKept, FlushBegins DEF Sigterm
  <2> QED
    BY <1>10, <1>t, <2>2, <2>3, IndexKept DEF Sigterm
<1>11. CASE Exit \/ Crash
  <2>1. Gone /\ disturbances' \in 0..MaxDisturbances
    BY <1>0, <1>11, Bound DEF Exit, Crash
  <2>2. position' \in 0..MaxMessages /\ committed' \in 0..position'
    <3>1. position' = committed /\ committed' = committed
      BY <2>1, GoneTypes
    <3> QED
      BY <1>0, <3>1, MessageAssumption
  <2>3. ConsumerOK'
    BY <2>1, <2>2, GoneTypes DEF ConsumerOK, TypeOK
  <2>4. left' \subseteq Messages /\ cut' \subseteq Messages
    BY <1>11, Batched DEF Exit, Crash, LostWith, TypeOK
  <2>5. IndexOK'
    BY <2>1, <2>4, GoneTypes DEF IndexOK, TypeOK
  <2> QED
    BY <1>t, <2>1, <2>3, <2>5, GoneTypes
<1>12. CASE Restart
  <2>1. ConsumerOK'
    BY <1>12 DEF Restart, consumer, ConsumerOK, TypeOK
  <2> QED
    BY <1>12, <1>t, <2>1, BatchKept, IndexKept DEF Restart
<1>13. CASE UNCHANGED vars
  <2>1. ConsumerOK'
    BY <1>13 DEF vars, consumer, ConsumerOK, TypeOK
  <2> QED
    BY <1>13, <1>t, <2>1, BatchKept, IndexKept DEF vars
<1> QED
  BY <1>1, <1>2, <1>3, <1>4, <1>5, <1>6, <1>7, <1>8, <1>9, <1>10, <1>11, <1>12, <1>13
     DEF Next, BulkSettles

(* Every variable of the consolidator keeps its type, and the requests of  *)
(* a flush are those of the first messages of the array, which only grows  *)
(* while the flush goes through it (consolidator/index.ts 44-143).         *)
THEOREM TypeCorrect == Spec => []TypeOK
<1>1. Init => TypeOK /\ Looking
  BY Initially
<1>2. Spec => [](TypeOK /\ Looking)
  BY <1>1, TypeStep, PTL DEF Spec
<1> QED
  BY <1>2, PTL

-----------------------------------------------------------------------------
(* No message is swallowed.                                                *)

(* Without a resumption during it, a flush has the consumer paused.        *)
LEMMA HeldStep ==
    TypeOK /\ Looking /\ Held /\ [Next]_vars => Held' /\ excuses \subseteq excuses'
<1> SUFFICES ASSUME TypeOK, Looking, Held, [Next]_vars PROVE Held' /\ excuses \subseteq excuses'
  OBVIOUS
<1>0. ASSUME flush' = Idle PROVE Held'
  BY <1>0 DEF Held, Flushing, Idle
<1>1. ASSUME UNCHANGED <<batch, flush, paused, excuses>> PROVE Held' /\ excuses \subseteq excuses'
  BY <1>1 DEF Held, Flushing
<1>2. CASE Deliver
  <2>1. UNCHANGED <<flush, paused, excuses>> /\ ~paused
    BY <1>2 DEF Deliver
  <2> QED
    BY <2>1 DEF Held, Flushing
<1>3. CASE Commit \/ Restart \/ UNCHANGED vars
  BY <1>1, <1>3 DEF Commit, Restart, vars, consumer
<1>4. CASE Tick
  <2>1. flush'.at = "look" /\ paused' = TRUE /\ UNCHANGED excuses
    BY <1>4 DEF Tick, Idle
  <2> QED
    BY <2>1 DEF Held, Flushing
<1>5. ASSUME NEW target \in Nat, Request(target), excuses \subseteq excuses'
      PROVE  Held' /\ excuses \subseteq excuses'
  <2>1. /\ flush.at = "look" /\ UNCHANGED paused
        /\ flush'.at = "bulk" => Len(flush'.requests) = Len(batch')
    BY <1>5, Requested DEF Request, consumer
  <2> QED
    BY <1>5, <2>1 DEF Held, Flushing
<1>6. CASE Look
  BY <1>5, <1>6, Looked DEF Look
<1>7. CASE LookMisses
  BY <1>5, <1>7 DEF LookMisses
<1>8. CASE BulkSettles
  BY <1>0, <1>8, AnsweredTypes, FailedTypes DEF BulkSettles
<1>9. CASE Rebalance
  <2>1. paused' = TRUE /\ UNCHANGED <<batch, flush, excuses>>
    BY <1>9 DEF Rebalance
  <2> QED
    BY <2>1 DEF Held, Flushing
<1>10. CASE Joined \/ TimeLimit
  <2>1. /\ UNCHANGED <<batch, flush>>
        /\ excuses' = IF Flushing THEN excuses \cup {"resumed"} ELSE excuses
    BY <1>10 DEF Joined, TimeLimit, Resume
  <2> QED
    BY <2>1 DEF Held, Flushing
<1>11. CASE Sigterm
  <2>1. paused' = TRUE /\ UNCHANGED <<batch, excuses>>
    BY <1>11 DEF Sigterm
  <2>2. UNCHANGED flush \/ flush'.at = "look"
    BY <1>11 DEF Sigterm, Idle
  <2> QED
    BY <2>1, <2>2 DEF Held, Flushing
<1>12. CASE Exit \/ Crash
  <2>1. Gone
    BY <1>12 DEF Exit, Crash
  <2> QED
    BY <1>0, <2>1, GoneTypes
<1> QED
  BY <1>2, <1>3, <1>4, <1>6, <1>7, <1>8, <1>9, <1>10, <1>11, <1>12 DEF Next, BulkSettles

LEMMA SwallowStep ==
    TypeOK /\ Looking /\ Held /\ NoneSwallowed /\ [Next]_vars => NoneSwallowed'
<1> SUFFICES ASSUME TypeOK, Looking, Held, NoneSwallowed, [Next]_vars,
                    "resumed" \notin excuses',
                    NEW m \in 1..position'
             PROVE  m \in (InBatch \cup stored \cup rejected \cup left \cup cut)'
  BY DEF NoneSwallowed
<1>0. "resumed" \notin excuses /\ (flush.at = "bulk" => Len(flush.requests) = Len(batch))
  BY HeldStep DEF Held
<1>1. \A k \in 1..position : k \in InBatch \cup stored \cup rejected \cup left \cup cut
  BY <1>0 DEF NoneSwallowed
<1>2. position \in Nat /\ committed \in Nat /\ committed <= position
  BY MessageAssumption DEF TypeOK
<1>3. ASSUME UNCHANGED <<batch, stored, rejected, left, cut>>,
             position' = position \/ position' = committed
      PROVE  m \in (InBatch \cup stored \cup rejected \cup left \cup cut)'
  <2>1. m \in 1..position
    BY <1>2, <1>3
  <2> QED
    BY <1>1, <1>3, <2>1 DEF InBatch
<1>4. CASE Deliver
  <2>1. UNCHANGED <<stored, rejected, left, cut>> /\ InBatch' = InBatch \cup {position + 1}
        /\ position' = position + 1
    BY <1>4, Delivered DEF Deliver, index
  <2>2. m \in 1..position \/ m = position + 1
    BY <1>2, <2>1
  <2> QED
    BY <1>1, <2>1, <2>2
<1>5. CASE BulkAnswers
  <2>1. /\ flush.at = "bulk" /\ position' = position /\ UNCHANGED <<left, cut>>
        /\ stored \cup rejected \cup {Requests[i].message : i \in DOMAIN Requests}
              \subseteq stored' \cup rejected'
    BY <1>5, AnsweredTypes
  <2>2. DOMAIN Requests = DOMAIN batch
    BY <1>0, <2>1, RequestTypes, Batched DEF Requests
  <2>3. \A i \in DOMAIN Requests : Requests[i].message = batch[i]
    BY DEF TypeOK, Requests
  <2>4. InBatch \subseteq {Requests[i].message : i \in DOMAIN Requests}
    BY <2>2, <2>3 DEF InBatch
  <2> QED
    BY <1>1, <2>1, <2>4
<1>6. CASE BulkFails
  <2>1. stored \subseteq stored' /\ UNCHANGED <<batch, position, rejected, left, cut>>
    BY <1>6, FailedTypes
  <2> QED
    BY <1>1, <2>1 DEF InBatch
<1>7. CASE Exit \/ Crash
  <2>1. Gone
    BY <1>7 DEF Exit, Crash
  <2>2. position' = committed /\ stored \subseteq stored' /\ UNCHANGED rejected
    BY <2>1, GoneTypes
  <2>3. m \in 1..position /\ m <= committed
    BY <1>2, <2>2
  <2>4. left \cup cut \subseteq left' \cup cut' /\ LostWith \subseteq left' \cup cut'
    BY <1>7 DEF Exit, Crash
  <2>5. m \in InBatch => m \in stored' \cup left' \cup cut'
    BY <2>3, <2>4 DEF LostWith
  <2> QED
    BY <1>1, <2>2, <2>3, <2>4, <2>5
<1>8. CASE Joined
  BY <1>3, <1>8 DEF Joined, Resume, index
<1>9. CASE TimeLimit
  BY <1>3, <1>9 DEF TimeLimit, Resume, index
<1>10. CASE Commit \/ Tick \/ Look \/ LookMisses \/ Rebalance \/ Sigterm \/ Restart
            \/ UNCHANGED vars
  <2>1. UNCHANGED <<batch, stored, rejected, left, cut, position>>
    BY <1>10 DEF Commit, Tick, Look, LookMisses, Request, Rebalance, Sigterm, Restart, vars,
                 index, consumer
  <2> QED
    BY <1>3, <2>1
<1> QED
  BY <1>4, <1>5, <1>6, <1>7, <1>8, <1>9, <1>10 DEF Next, BulkSettles

(* What the consumer has delivered is in memory or in the index, or was    *)
(* refused by it, or went down with a process, unless the consumer was     *)
(* resumed by somebody else during a flush: emptying the array after the   *)
(* answer (index.ts 122) is safe just because of the pause (49).           *)
THEOREM NothingIsSwallowed == Spec => []NoneSwallowed
<1>1. Init => TypeOK /\ Looking /\ Held /\ NoneSwallowed
  BY Initially
<1>2. TypeOK /\ Looking /\ Held /\ NoneSwallowed /\ [Next]_vars
         => (TypeOK /\ Looking /\ Held /\ NoneSwallowed)'
  BY TypeStep, HeldStep, SwallowStep
<1>3. Spec => [](TypeOK /\ Looking /\ Held /\ NoneSwallowed)
  BY <1>1, <1>2, PTL DEF Spec
<1> QED
  BY <1>3, PTL

-----------------------------------------------------------------------------
(* A page has one document.                                                *)

(* A bulk request after whose answer the mapping is updated: the mapping   *)
(* then names the document of each page that the request was about.        *)
LEMMA MappingFollows ==
    ASSUME TypeOK, Mapped, Calm, ~Together, NEW accepted \in SUBSET DOMAIN Requests,
           Apply(accepted), mapping' = Remembered
    PROVE  /\ \A p \in Pages : mapping'[p] <= Len(docs')
           /\ \A d \in DOMAIN docs' :
                 docs'[d] # 0 /\ Page[docs'[d]] # NoPage => mapping'[Page[docs'[d]]] = d
<1>1. /\ \A p \in Pages : mapping[p] <= Len(docs)
      /\ \A d \in DOMAIN docs : docs[d] # 0 /\ Page[docs[d]] # NoPage => mapping[Page[docs[d]]] = d
      /\ \A i \in DOMAIN Requests : Requests[i].id = Target(Requests[i].message)
  BY DEF Mapped, Requests
<1>2. PICK count \in Nat : count = Cardinality(NewOnes) /\ Len(docs') = Len(docs) + count
  BY Applied, NewOnesCounted
<1>3. \A m \in Messages : Page[m] \in Pages \cup {NoPage}
  BY PageAssumption
<1>4. NewOnes \subseteq DOMAIN Requests
  BY DEF NewOnes
<1>5. ASSUME NEW p \in Pages PROVE mapping'[p] <= Len(docs')
  <2>1. CASE Remembered[p] = mapping[p]
    <3>1. mapping[p] \in Nat /\ mapping[p] <= Len(docs) /\ Len(docs) \in Nat
      BY <1>1, RequestTypes DEF TypeOK
    <3> QED
      BY <1>2, <2>1, <3>1
  <2>2. ASSUME NEW i \in NewOnes, Remembered[p] = IdOf(i) PROVE mapping'[p] <= Len(docs')
    BY <1>2, <1>4, <2>2, Ids
  <2> QED
    BY <2>1, <2>2, RememberedIds
<1>6. ASSUME NEW i \in DOMAIN Requests, Page[Requests[i].message] # NoPage
      PROVE  mapping'[Page[Requests[i].message]] = IdOf(i)
  <2>1. PICK p \in Pages : p = Page[Requests[i].message]
    BY <1>3, <1>6, RequestTypes
  <2>2. \A j \in DOMAIN Requests : Page[Requests[j].message] = p => Requests[j].id = mapping[p]
    BY <1>1, <2>1, PageAssumption DEF Target
  <2>3. CASE Requests[i].id # 0
    <3>1. \A j \in NewOnes : Page[Requests[j].message] # p
      BY <1>4, <2>1, <2>2, <2>3 DEF NewOnes
    <3>2. Remembered[p] = mapping[p]
      BY <3>1, RememberedIds
    <3>3. IdOf(i) = mapping[p]
      BY <2>1, <2>2, <2>3, Ids
    <3> QED
      BY <2>1, <3>2, <3>3
  <2>4. CASE Requests[i].id = 0
    <3>1. i \in NewOnes
      BY <2>4 DEF NewOnes
    <3>2. \A j \in NewOnes : Page[Requests[j].message] = p => j = i
      BY <1>6, <2>1, <3>1 DEF Together
    <3>3. PICK j \in NewOnes : Page[Requests[j].message] = p /\ Remembered[p] = IdOf(j)
      BY <2>1, <3>1, RememberedIds
    <3> QED
      BY <2>1, <3>2, <3>3
  <2> QED
    BY <2>3, <2>4
<1>7. ASSUME NEW d \in DOMAIN docs', docs'[d] # 0, Page[docs'[d]] # NoPage
      PROVE  mapping'[Page[docs'[d]]] = d
  <2>1. CASE \E i \in DOMAIN Requests : IdOf(i) = d /\ docs'[d] = Requests[i].message
    BY <1>6, <1>7, <2>1
  <2>2. CASE d \in DOMAIN docs /\ docs'[d] = docs[d]
    <3>1. PICK p \in Pages : p = Page[docs[d]]
      BY <1>3, <1>7, <2>2, RequestTypes
    <3>2. mapping[p] = d /\ d # 0
      BY <1>1, <1>7, <2>2, <3>1, RequestTypes
    <3>3. ASSUME NEW j \in NewOnes PROVE Page[Requests[j].message] # p
      <4>1. Requests[j].id = 0 /\ j \in DOMAIN Requests
        BY DEF NewOnes
      <4> QED
        BY <1>1, <3>2, <4>1, PageAssumption DEF Target
    <3>4. Remembered[p] = mapping[p]
      BY <3>3, RememberedIds
    <3> QED
      BY <2>2, <3>1, <3>2, <3>4
  <2> QED
    BY <1>7, <2>1, <2>2, Applied
<1> QED
  BY <1>5, <1>7

LEMMA MappedStep ==
    TypeOK /\ Looking /\ Mapped /\ [Next]_vars => Mapped'
<1> SUFFICES ASSUME TypeOK, Looking, Mapped, [Next]_vars, Calm' PROVE Mapped'
  BY DEF Mapped
<1>1. ASSUME excuses \subseteq excuses' PROVE Calm
  BY <1>1 DEF Calm
<1>2. ASSUME UNCHANGED <<index, flush>>, Calm PROVE Mapped'
  BY <1>2 DEF Mapped, Target, index
<1>3. ASSUME UNCHANGED index, Calm, flush'.requests = <<>> PROVE Mapped'
  BY <1>3 DEF Mapped, Target, index
<1>4. CASE Deliver \/ Commit \/ Rebalance \/ Restart
  <2>1. UNCHANGED <<index, flush, excuses>>
    BY <1>4 DEF Deliver, Commit, Rebalance, Restart
  <2> QED
    BY <1>1, <1>2, <2>1
<1>5. CASE UNCHANGED vars
  <2>1. UNCHANGED <<index, flush, excuses>>
    BY <1>5 DEF vars
  <2> QED
    BY <1>1, <1>2, <2>1
<1>6. CASE Joined \/ TimeLimit
  <2>1. UNCHANGED <<index, flush>> /\ excuses \subseteq excuses'
    BY <1>6 DEF Joined, TimeLimit, Resume
  <2> QED
    BY <1>1, <1>2, <2>1
<1>7. CASE Tick \/ Sigterm
  <2>1. UNCHANGED <<index, excuses>> /\ (UNCHANGED flush \/ flush'.requests = <<>>)
    BY <1>7 DEF Tick, Sigterm, Idle
  <2> QED
    BY <1>1, <1>2, <1>3, <2>1
<1>8. CASE Look
  <2>1. Calm /\ UNCHANGED index
    BY <1>1, <1>8 DEF Look, Request
  <2>2. PICK target \in Nat :
           Request(target) /\ target = Target(batch[Len(flush.requests) + 1])
    BY <1>8, Looked
  <2>3. PICK n : n = Len(flush.requests) + 1
    OBVIOUS
  <2>4. /\ DOMAIN flush'.requests = DOMAIN flush.requests \cup {n}
        /\ \A i \in DOMAIN flush.requests : flush'.requests[i] = flush.requests[i]
        /\ flush'.requests[n] = [message |-> batch[n], id |-> target]
    BY <2>2, <2>3, Requested
  <2>5. \A i \in DOMAIN flush'.requests :
           flush'.requests[i].id = Target(flush'.requests[i].message)
    <3>1. flush'.requests[n].id = Target(flush'.requests[n].message)
      BY <2>2, <2>3, <2>4
    <3>2. \A i \in DOMAIN flush.requests :
             flush.requests[i].id = Target(flush.requests[i].message)
      BY <2>1 DEF Mapped
    <3> QED
      BY <2>4, <3>1, <3>2
  <2>6. UNCHANGED <<mapping, docs>>
    BY <2>1 DEF index
  <2>7. \A m : Target(m)' = Target(m)
    BY <2>6 DEF Target
  <2> HIDE DEF Target
  <2> QED
    BY <2>1, <2>5, <2>6, <2>7 DEF Mapped
<1>9. CASE LookMisses
  BY <1>9 DEF LookMisses, Calm
<1>10. CASE BulkAnswers
  <2>1. excuses \subseteq excuses' /\ flush' = Idle
    BY <1>10, AnsweredTypes
  <2>2. ~Together
    BY <1>10 DEF BulkAnswers, Calm
  <2>3. PICK accepted \in SUBSET DOMAIN Requests : Apply(accepted)
    BY <1>10 DEF BulkAnswers
  <2>4. mapping' = Remembered
    BY <1>10 DEF BulkAnswers
  <2>5. /\ \A p \in Pages : mapping'[p] <= Len(docs')
        /\ \A d \in DOMAIN docs' :
              docs'[d] # 0 /\ Page[docs'[d]] # NoPage => mapping'[Page[docs'[d]]] = d
    BY <1>1, <2>1, <2>2, <2>3, <2>4, MappingFollows
  <2> QED
    BY <2>1, <2>5 DEF Mapped, Idle
<1>11. CASE BulkFails
  <2>1. excuses \subseteq excuses' /\ flush' = Idle
    BY <1>11, FailedTypes
  <2>2. UNCHANGED index \/ (Apply(DOMAIN Requests) /\ mapping' = Remembered /\ ~Together)
    <3>1. "together" \notin excuses' /\ "unconfirmed" \notin excuses'
      BY DEF Calm
    <3>2. \/ UNCHANGED index
          \/ /\ Apply(DOMAIN Requests)
             /\ \/ excuses' = excuses \cup {"unconfirmed"}
                \/ /\ mapping' = Remembered
                   /\ excuses' = IF Together THEN excuses \cup {"together"} ELSE excuses
      BY <1>11 DEF BulkFails
    <3> QED
      BY <3>1, <3>2
  <2>3. CASE UNCHANGED index
    <3>1. flush'.requests = <<>>
      BY <2>1 DEF Idle
    <3>2. Calm
      BY <1>1, <2>1
    <3> QED
      BY <1>3, <2>3, <3>1, <3>2
  <2>4. CASE Apply(DOMAIN Requests) /\ mapping' = Remembered /\ ~Together
    <3>1. /\ \A p \in Pages : mapping'[p] <= Len(docs')
          /\ \A d \in DOMAIN docs' :
                docs'[d] # 0 /\ Page[docs'[d]] # NoPage => mapping'[Page[docs'[d]]] = d
      BY <1>1, <2>1, <2>4, MappingFollows
    <3> QED
      BY <2>1, <3>1 DEF Mapped, Idle
  <2> QED
    BY <2>2, <2>3, <2>4
<1>12. CASE Exit \/ Crash
  <2>1. Gone
    BY <1>12 DEF Exit, Crash
  <2>2. UNCHANGED <<mapping, docs>> /\ flush' = Idle /\ Calm
    BY <1>1, <2>1, GoneTypes DEF Calm
  <2> QED
    BY <2>2 DEF Mapped, Idle
<1> QED
  BY <1>4, <1>5, <1>6, <1>7, <1>8, <1>9, <1>10, <1>11, <1>12 DEF Next, BulkSettles

(* The messages of a page share a document over any number of redeliveries *)
(* and restarts, but for the three named causes: the mapping names the one *)
(* document of each page (index.ts 56-104, 111-120).                       *)
THEOREM PagesHaveOneDocument == Spec => []OneDocumentPerPage
<1>1. Init => TypeOK /\ Looking /\ Mapped
  BY Initially
<1>2. TypeOK /\ Looking /\ Mapped /\ [Next]_vars => (TypeOK /\ Looking /\ Mapped)'
  BY TypeStep, MappedStep
<1>3. Spec => [](TypeOK /\ Looking /\ Mapped)
  BY <1>1, <1>2, PTL DEF Spec
<1>4. Mapped => OneDocumentPerPage
  BY DEF Mapped, Calm, OneDocumentPerPage
<1> QED
  BY <1>3, <1>4, PTL
=============================================================================
