----------------------------- MODULE TrackerHit -----------------------------
(***************************************************************************)
(* The HTTP side of the event tracker, tracker/event_tracker.ts: one       *)
(* Node.js process answers the page hits of many visitors.  handle_hit is  *)
(* an async function, so it is one action per stretch of code between two  *)
(* awaits; other requests run in between.  Three things are shared by the  *)
(* requests in flight:                                                     *)
(*   - headers, a module-level object (line 40): every response is written *)
(*     with it and every hit stores its Set-Cookie in it (line 210);       *)
(*   - the Redis cache of user data, keyed by browser id and address;      *)
(*   - the Kafka publisher, closed by SIGTERM before the HTTP server.      *)
(***************************************************************************)
EXTENDS Naturals, Sequences, FiniteSets

CONSTANTS
    Requests,     \* the hits that will be sent, each one request
    Clients,      \* browsers and apps that send hits
    Browsers,     \* those that keep cookies; the others send browser_id back
    Users,        \* readers the API knows, who may be signed in on a page
    Agents,       \* User-Agent strings
    Addresses,    \* IP addresses; several clients may share one
    Agent,        \* Agent[c]: the User-Agent header client c sends
    Address,      \* Address[c]: the IP address client c is seen under
    NoUser,       \* a hit without user_id
    NoId,         \* no browser id: an empty jar, no Set-Cookie header yet
    MaxRestarts   \* bound on the restarts of the process

ASSUME ClientAssumption ==
    /\ Browsers \subseteq Clients
    /\ Agent \in [Clients -> Agents]
    /\ Address \in [Clients -> Addresses]

ASSUME UserAssumption == NoUser \notin Users

ASSUME RestartAssumption == MaxRestarts \in Nat

-----------------------------------------------------------------------------
(* Browser ids.  The md5 of user id and agent for a signed-in hit, 20      *)
(* random bytes for a visitor who presents none.  Neither ever collides.   *)

Md5(u, a) == <<"md5", u, a>>
Random(r) == <<"random", r>>

Ids == {Md5(u, a) : u \in Users, a \in Agents} \cup {Random(r) : r \in Requests}

ASSUME IdAssumption == NoId \notin Ids

(* User data as a response carries it: the labels of one reader, the empty *)
(* data of get_user_data for a hit without user, or nothing (undefined)    *)
(* because the lookup threw.                                               *)
Empty == "empty"
Undefined == "undefined"
Absent == "absent"          \* no cache entry
ASSUME LabelAssumption == {Empty, Undefined, Absent} \cap Users = {}

UserData == Users \cup {Empty}
Keys == Ids \X Addresses    \* `GET-${browser_id}-${user_ip}`

VARIABLES
    phase,      \* of the process: "up", "closing", "down"
    restarts,   \* times the process was started again
    header,     \* headers["Set-Cookie"]
    cache,      \* the user data cached in Redis
    pc,         \* where each request is
    hit,        \* what each request sent
    id,         \* handle_hit's local browser_id
    labels,     \* data.user_labels, user_segments and email
    own,        \* the browser id each client holds: its cookie, or the
                \* browser_id of the last body it read
    published,  \* hits in Kafka topic 1
    dropped,    \* answered hits whose publication failed
    began,      \* history: the hits in the order in which they began
    response,   \* history: what each hit was answered
    signins,    \* history: <<user, agent, address>> of the signed-in hits
    anonymous   \* history: <<id, address>> of the hits without user

process == <<phase, restarts>>
sent == <<hit, id, began, signins, anonymous>>   \* set when a hit begins
events == <<published, dropped>>

vars == <<phase, restarts, header, cache, pc, hit, id, labels, own,
          published, dropped, began, response, signins, anonymous>>

Hit == [client : Clients, user : Users \cup {NoUser}, full : BOOLEAN]
NoHit == [client |-> NoId]

Response == [cookie : Ids \cup {NoId}, id : Ids \cup {NoId},
             labels : UserData \cup {Undefined}]
NoResponse == [cookie |-> "none"]

Init ==
    /\ phase = "up"
    /\ restarts = 0
    /\ header = NoId
    /\ cache = [k \in Keys |-> Absent]
    /\ pc = [r \in Requests |-> "new"]
    /\ hit = [r \in Requests |-> NoHit]
    /\ id = [r \in Requests |-> NoId]
    /\ labels = [r \in Requests |-> Undefined]
    /\ own = [c \in Clients |-> NoId]
    /\ published = {}
    /\ dropped = {}
    /\ began = <<>>
    /\ response = [r \in Requests |-> NoResponse]
    /\ signins = {}
    /\ anonymous = {}

-----------------------------------------------------------------------------
(* Mutant: a cache key without the address.                                *)
Key_WithoutAddress(r) == <<id[r], CHOOSE a \in Addresses : TRUE>>

Key(r) == <<id[r], Address[hit[r].client]>>

Cookie(c) == IF c \in Browsers THEN own[c] ELSE NoId      \* cookies[cookie_name]
Parameter(c) == IF c \in Browsers THEN NoId ELSE own[c]   \* data.browser_id

(* Lines 191-200: the user decides, then the cookie, then the parameter.   *)
BrowserId(r, h) ==
    IF h.user # NoUser THEN Md5(h.user, Agent[h.client])
    ELSE IF Cookie(h.client) # NoId THEN Cookie(h.client)
    ELSE IF Parameter(h.client) # NoId THEN Parameter(h.client)
    ELSE Random(r)

(* What get_user_data finds for a hit: the labels of the reader, or empty  *)
(* data for a hit without user.                                            *)
DataOf(h) == IF h.user = NoUser THEN Empty ELSE h.user

(* Mutant: the cookie is set only for a visitor who has none yet.          *)
NewHeader_FirstVisit(r, h) ==
    IF Cookie(h.client) = NoId THEN BrowserId(r, h) ELSE header

(* headers["Set-Cookie"], set by every hit (line 210).                     *)
NewHeader(r, h) == BrowserId(r, h)

(* A hit arrives and runs to its first await, cache.get (lines 181-213).   *)
(* While SIGTERM is handled the server still listens.                      *)
Begin(r, h) ==
    /\ phase \in {"up", "closing"}
    /\ pc[r] = "new"
    /\ hit' = [hit EXCEPT ![r] = h]
    /\ id' = [id EXCEPT ![r] = BrowserId(r, h)]
    /\ header' = NewHeader(r, h)
    /\ pc' = [pc EXCEPT ![r] = "lookup"]
    /\ began' = Append(began, r)
    /\ signins' = IF h.user = NoUser THEN signins
                  ELSE signins \cup {<<h.user, Agent[h.client], Address[h.client]>>}
    /\ anonymous' = IF h.user # NoUser THEN anonymous
                    ELSE anonymous \cup {<<BrowserId(r, h), Address[h.client]>>}
    /\ UNCHANGED <<process, cache, labels, own, events, response>>

(* The cache answers with an entry (lines 215-219).  Empty data is an      *)
(* object like any other, so it counts as a hit.                           *)
CacheHit(r) ==
    /\ pc[r] = "lookup"
    /\ cache[Key(r)] # Absent
    /\ labels' = [labels EXCEPT ![r] = cache[Key(r)]]
    /\ pc' = [pc EXCEPT ![r] = "respond"]
    /\ UNCHANGED <<process, header, cache, sent, own, events, response>>

(* The cache answers null: no entry, an entry past its ttl of an hour, or  *)
(* Redis out of reach (cache.js 151-166).                                  *)
CacheMiss(r) ==
    /\ pc[r] = "lookup"
    /\ pc' = [pc EXCEPT ![r] = "fetch"]
    /\ UNCHANGED <<process, header, cache, sent, labels, own, events, response>>

(* get_user_data answers (lines 221-224); the next await is cache.set.     *)
Fetch(r) ==
    /\ pc[r] = "fetch"
    /\ labels' = [labels EXCEPT ![r] = DataOf(hit[r])]
    /\ pc' = [pc EXCEPT ![r] = "store"]
    /\ UNCHANGED <<process, header, cache, sent, own, events, response>>

(* Mutant: get_user_data turns an error into empty data.                   *)
FetchFails_ReturnsEmpty(r) ==
    /\ pc[r] = "fetch"
    /\ hit[r].user # NoUser
    /\ labels' = [labels EXCEPT ![r] = Empty]
    /\ pc' = [pc EXCEPT ![r] = "store"]
    /\ UNCHANGED <<process, header, cache, sent, own, events, response>>

(* Mutant: no catch around the lookup, the request is never answered.      *)
FetchFails_Uncaught(r) ==
    /\ pc[r] = "fetch"
    /\ hit[r].user # NoUser
    /\ pc' = [pc EXCEPT ![r] = "done"]
    /\ UNCHANGED <<process, header, cache, sent, labels, own, events, response>>

(* The API is out of reach: get_user_data throws, and the handler goes on  *)
(* after its catch (line 235).  Without a user no call is made.            *)
FetchFails(r) ==
    /\ pc[r] = "fetch"
    /\ hit[r].user # NoUser
    /\ pc' = [pc EXCEPT ![r] = "respond"]
    /\ UNCHANGED <<process, header, cache, sent, labels, own, events, response>>

(* cache.set (line 225) swallows its errors: the entry may not be stored.  *)
Store(r) ==
    /\ pc[r] = "store"
    /\ \/ cache' = [cache EXCEPT ![Key(r)] = labels[r]]
       \/ cache' = cache
    /\ pc' = [pc EXCEPT ![r] = "respond"]
    /\ UNCHANGED <<process, header, sent, labels, own, events, response>>

(* The response is written with the shared headers as they now are, then   *)
(* the hit goes to the publisher if it has an action and a url or referer  *)
(* (lines 238-270).  The client keeps the cookie, or the browser_id.       *)
Respond(r) ==
    LET c == hit[r].client IN
    /\ pc[r] = "respond"
    /\ response' = [response EXCEPT ![r] =
           [cookie |-> header, id |-> id[r], labels |-> labels[r]]]
    /\ own' = [own EXCEPT ![c] = IF c \in Browsers THEN header ELSE id[r]]
    /\ pc' = [pc EXCEPT ![r] = IF hit[r].full THEN "publish" ELSE "done"]
    /\ UNCHANGED <<process, header, cache, sent, labels, events>>

(* queue_1_publisher.addJob (line 270): Kafka takes the event while the    *)
(* publisher is connected ...                                              *)
Publish(r) ==
    /\ pc[r] = "publish"
    /\ phase = "up"
    /\ published' = published \cup {r}
    /\ pc' = [pc EXCEPT ![r] = "done"]
    /\ UNCHANGED <<dropped, process, header, cache, sent, labels, own,
                   response>>

(* ... or the send fails, which the catch of line 271 swallows.            *)
PublishFails(r) ==
    /\ pc[r] = "publish"
    /\ dropped' = dropped \cup {r}
    /\ pc' = [pc EXCEPT ![r] = "done"]
    /\ UNCHANGED <<published, process, header, cache, sent, labels, own,
                   response>>

(* A preflight, a malformed hit or an unknown method (lines 281-283,       *)
(* 296-301, 318-327): answered at once, with the shared headers.           *)
AnswerOther(c) ==
    /\ phase \in {"up", "closing"}
    /\ header # NoId
    /\ own' = [own EXCEPT ![c] = header]
    /\ UNCHANGED <<process, header, cache, pc, sent, labels, events, response>>

-----------------------------------------------------------------------------
InFlight == {r \in Requests : pc[r] \notin {"new", "done"}}

(* SIGTERM closes the publishers, and then the server (lines 336-344):     *)
(* hits in flight, and those that still arrive, are answered as before.    *)
Sigterm ==
    /\ phase = "up"
    /\ phase' = "closing"
    /\ UNCHANGED <<restarts, header, cache, pc, sent, labels, own, events,
                   response>>

(* The process ends: drained, or killed with its requests in flight.       *)
Stop ==
    /\ phase # "down"
    /\ phase' = "down"
    /\ pc' = [r \in Requests |-> IF r \in InFlight THEN "done" ELSE pc[r]]
    /\ UNCHANGED <<restarts, header, cache, sent, labels, own, events,
                   response>>

(* A new process has headers without Set-Cookie; Redis keeps the cache.    *)
Restart ==
    /\ phase = "down"
    /\ restarts < MaxRestarts
    /\ phase' = "up"
    /\ restarts' = restarts + 1
    /\ header' = NoId
    /\ UNCHANGED <<cache, pc, sent, labels, own, events, response>>

Handle(r) ==
    \/ CacheHit(r) \/ CacheMiss(r)
    \/ Fetch(r) \/ FetchFails(r)
    \/ Store(r)
    \/ Respond(r)
    \/ Publish(r) \/ PublishFails(r)

Next ==
    \/ \E r \in Requests : (\E h \in Hit : Begin(r, h)) \/ Handle(r)
    \/ \E c \in Browsers : AnswerOther(c)
    \/ Sigterm \/ Stop \/ Restart

(* Every await of handle_hit is settled: Redis, the API and Kafka answer   *)
(* or fail within their timeouts, and the event loop runs the rest.        *)
Fairness == \A r \in Requests : WF_vars(Handle(r))

Spec == Init /\ [][Next]_vars
FairSpec == Spec /\ Fairness

-----------------------------------------------------------------------------
(* Every variable has its type.                                            *)
TypeOK ==
    /\ phase \in {"up", "closing", "down"}
    /\ restarts \in 0..MaxRestarts
    /\ header \in Ids \cup {NoId}
    /\ cache \in [Keys -> UserData \cup {Absent}]
    /\ pc \in [Requests -> {"new", "lookup", "fetch", "store", "respond",
                           "publish", "done"}]
    /\ hit \in [Requests -> Hit \cup {NoHit}]
    /\ \A r \in Requests : pc[r] # "new" => hit[r] \in Hit /\ id[r] \in Ids
    /\ \A r \in Requests : pc[r] = "store" => labels[r] \in UserData
    /\ id \in [Requests -> Ids \cup {NoId}]
    /\ labels \in [Requests -> UserData \cup {Undefined}]
    /\ own \in [Clients -> Ids \cup {NoId}]
    /\ published \subseteq Requests
    /\ dropped \subseteq Requests
    /\ began \in Seq(Requests)
    /\ response \in [Requests -> Response \cup {NoResponse}]
    /\ signins \subseteq Users \X Agents \X Addresses
    /\ anonymous \subseteq Ids \X Addresses

Answered(r) == response[r] # NoResponse

(* The labels and segments of a reader are sent only to an address from    *)
(* which that reader was signed in, and only under the browser id derived  *)
(* from the reader: whatever cookies the shared headers have mixed up, a   *)
(* visitor elsewhere never gets them.                                      *)
LabelsOnlyWhereSignedIn ==
    \A r \in Requests : Answered(r) /\ response[r].labels \in Users =>
        \E a \in Agents :
            /\ response[r].id = Md5(response[r].labels, a)
            /\ <<response[r].labels, a, Address[hit[r].client]>> \in signins

(* A signed-in reader is answered with empty data only if a hit without    *)
(* user presented the same browser id from the same address: it left its   *)
(* empty data in the cache under the reader's key.                         *)
EmptyLabelsExplained ==
    \A r \in Requests :
        Answered(r) /\ hit[r].user # NoUser /\ response[r].labels = Empty =>
            <<id[r], Address[hit[r].client]>> \in anonymous

(* The cookie of a response is the browser id of that hit or of one that   *)
(* began after it, never of an older one: the shared headers are           *)
(* overwritten before the first await.                                     *)
CookieNeverOlder ==
    \A r \in Requests : Answered(r) =>
        \E i, j \in DOMAIN began :
            /\ i <= j
            /\ began[i] = r
            /\ response[r].cookie = id[began[j]]

(* docs/tracker/tracker.md:30, "We also store a cookie on the visitor's    *)
(* browser so that we can track repeat visits. This is called the          *)
(* browser_id": the cookie a hit is answered with is the browser id the    *)
(* hit is recorded under.                                                  *)
CookieIsBrowserId ==
    \A r \in Requests : Answered(r) => response[r].cookie = response[r].id

(* Every hit is answered, whatever fails behind the handler, unless the    *)
(* process is killed meanwhile.                                            *)
EveryHitAnswered ==
    \A r \in Requests : pc[r] = "lookup" ~> Answered(r) \/ phase = "down"
=============================================================================
