# RevEngine in TLA+

RevEngine collects what the readers of a news site do, files the readers under
labels and segments, and acts on that: it mails them, gives them vouchers, and
hands them on to mailing services. It is a set of Node.js processes that share
MongoDB (through a REST API, JXP), Redis, Kafka and Elasticsearch. Nearly every
operation reads something, awaits, and writes what it has computed; the processes
take no locks across these awaits apart from flags in documents. What can go
wrong is therefore mostly *between* two lines: another request, a second run, a
rebalance, a crash. That is what these modules are about.

Contents: [Inventory](#inventory), [Modules](#modules-and-code),
[Runs](#runs), [Fairness](#fairness), [Proofs](#proofs),
[Findings](#findings), [Not modelled](#not-modelled), [Plan](#plan).

## Inventory

| component | state it keeps | operations | talks to |
|---|---|---|---|
| tracker, HTTP side (`tracker/event_tracker.ts`, `user.ts`) | the module-level `headers`; a Redis cache of user data; the publisher | `handle_hit`; preflight and error answers; SIGTERM | browsers (HTTP, cookie), API, Redis, Kafka topic 1 |
| tracker, event pipeline (`event_tracker.ts` 65-123, `enrich_tracker.ts`, `common/kafka.js`, `common/kafka-queue.js`) | Kafka offsets; `doc_cache` in Redis; the index | enrich, save, commit, pause and resume at a rebalance | Kafka topics 1 and 2, Redis, Elasticsearch |
| mail runs (`mailer/touchbase.js`, `mailer/index.js`, `api/models/mailrun_model.js`, `frontend/routes/mails.js`, `listeners/index.js`) | `state` and three lists of readers per mail run | queue the readers of a label; run; move a reader to sent or failed; edit | API, mail service |
| pipeline runner (`pipeline/index.js`) | `running` and `run_start` per pipeline | `run_pipeline`, `healthcheck`, the schedules | API |
| labels and segments (`api/models/label_model.js`, `segmentation_model.js`, `segment_model.js`) | `labels`, `label_data` and segment lists on each reader | `applyLabel`, two `applySegment` | MongoDB |
| vouchers (`mailer/touchbase.js` 69-102, `frontend/routes/voucher.js`, `reader.js`) | the reader of each voucher | get one for a mail, assign to segments or to a reader, upload used ones | API, mail service |
| Sailthru synchronisation (`mailer/sailthru.js`) | a cache of labels and segments in memory; a page in Redis; the readers' copies in Sailthru | post one reader; hand over many by a job of Sailthru | API, Redis, Sailthru |
| Wordpress synchronisation (`sync/`) | none but the readers | page over readers without `wordpress_id` | API, Wordpress |
| consolidator (`consolidator/index.ts`) | an in-memory batch; a paused consumer; the documents of pages in Redis | gather, flush, rebalance, shut down | Kafka, Redis, Elasticsearch |
| schedules (`mailer/index.js` 64-95, `pipeline/index.js` 74-98) | the timers in force and the hash of what was loaded | fetch every minute, replace the timers when the hash differs | API |
| scheduled reports (`vue/store/modules/scheduled_report.store.js`) | a mailer and a report document each | save by three calls, delete by two | API, and so the schedules of the mailer |
| dashboard (`vue/store/modules/article.store.js`) | `loading_state`, what is chosen, what is shown | choose, apply, fetch (two calls), load a report | API, Elasticsearch |
| exporter (`exporter/mysql.js`) | the rows of MySQL; one pipeline a run | page through what was updated, save row by row | API, MySQL |
| wordpress_api and its reports (`wordpress_api/index.js`, `reports/libs/`) | answers in Redis for five minutes | top articles, views of posts; webhooks | Elasticsearch, API, Redis |
| interactions of a day (`rfv/interactions.ts`, `rfv/interactions/`, `common/mongo.js`) | a document per reader and day; two temporary collections named after the day | merge the mails opened, the pages viewed and the payments; count | MongoDB, Elasticsearch, API |
| cache and queues (`common/cache.js`, `common/queue.js`) | a Redis connection | get, set, delete | Redis |
| API server, listeners, frontend, rfv, other reports, ml, imports, google_analytics, autogen_newsletter, es_middleware, jxpdiag, openapi, earlier tracker | next to none of their own | one request or one batch at a time | see PROJECT.json |

Where they meet: a hit goes from the HTTP side to topic 1 and through the event
pipeline to the index; the tracker answers with the labels that `applyLabel` and
`applySegment` write; a mail run begins with an application of a label by the
form and asks for a voucher in each mail that carries one; the earlier tracker
(`tracker/index.ts`, marked deprecated but still started by `docker/tracker`) writes
to one topic, which the consolidator reads; mail runs and
pipelines are started by schedules *and* by requests, in processes that know
nothing of each other.

The hard behaviours, and what must hold of each component all the same:

- **HTTP side.** Requests interleave at every await of `handle_hit` and share one
  headers object and one cache. Each hit is answered; the labels of a reader reach
  nobody else; a cookie is the visitor's own.
- **Event pipeline.** `eachMessage` does not wait for the handler, so offsets are
  committed for messages still being handled; handlers of one topic run
  concurrently; restarts and rebalances deliver again; client libraries write
  again; a write may take effect and be answered with an error or not at all. No hit
  vanishes without cause, none is stored twice without cause, a page view is one document.
- **Mail runs.** Form, schedule, request and operator work on one document without
  a lock, each move of a reader is two updates, calls fail, processes die. Nobody
  is mailed twice or forgotten, the sent list tells the truth, a due run is taken as long
  as the mailer is up.
- **Pipeline runner.** A lock by check-then-set, a healthcheck that breaks it
  after an hour, a catch that clears it whoever holds it. One run at a time, no
  lock for ever.
- **Labels and segments.** Paged updates computed from lists read before,
  overlapping applications, data that is null for a moment. Each list ends exact,
  without duplicates, and nobody loses for good what they deserve.
  All labels with `fn` keep their data in one field of a reader, which each replaces.
  A list is the one the data explain.
- **Interactions.** Processes at one day share its temporary collections; a call that
  fails is logged, and the process goes on. When all have ended well everything is
  counted, and no number gets smaller.
- **Consolidator.** Offsets are committed for messages held in memory alone; three
  parties pause and resume one consumer; a bulk request may fail, in part or after
  taking effect. Nothing is dropped unsent, a page has one document, no failure and
  no pause stops the consolidator.
- **Schedules.** A fetch may take longer than the minute until the next, fail, or
  answer with what has changed since; an invalid cron expression ends the loop that
  makes the timers; the mailer's node-cron 3 has no `destroy` for them. In the end the timers
  are those of the documents, in the mailer as far as none had to be replaced.
- **Scheduled reports.** Two documents, five calls, no transaction. A report has its
  mailer, and a mailer that no page shows has a cause.
- **Dashboard.** Fetches of two calls overlap with each other and with new choices.
  What is marked as loaded is what is chosen.
- **Exporter.** Pages by number over a query sorted by time of update, while records are
  updated; one pipeline for all collections, each with a buffer of its own, ended by the
  first that is through. What is through is copied, and what no run will copy any more has
  a cause.
- **Wordpress synchronisation.** Pages by number over a query that shrinks by what is
  done to the page before. Few readers are passed over, and the next run gets on.
- **Sailthru synchronisation.** A cache that may be old or empty, records made before
  an await and posted after it, a page stored without waiting and fetched by another
  party, a reader whose mapping throws. A copy that differs has a cause; a queue that ends
  has handed over everybody who could be mapped.
- **wordpress_api.** Two queries at two times are merged into one ranking; more posts
  may be asked for than buckets come back. The order and the zeros have a cause.
- **Vouchers.** Choose, then write. A mailed voucher is its reader's alone, one
  voucher a reader, a given voucher is never given back.

`PROJECT.json` lists under "hazards" every such place at its line, with the
properties that would catch it going wrong.

## Modules and code

Each component has a module with its state, one action per stretch of code that
nothing can interrupt (between two awaits, or one database call), its properties
at the end. The MC module gives a small instance; proofs are in a module of their
own. Definitions called `Name_Something` marked "Mutant" are plausible bugs of the
definition they precede; no specification uses them. They show that each
property can fail (`PROJECT.json`, "mutants"). History variables (`began`,
`signins`, `excuses`, ...) record what the code does not store and the
properties need; no action reads them in a guard, but for the count of `excuses`
that bounds the failures in MailRun.

What several modules need is in modules of its own: **ReaderSet** (the readers),
**TermsAggregation** (what Elasticsearch answers to a terms aggregation: which of
the keys with equal counts is open), **Schedules** (below). Where components share
no variable, one module puts them side by side and a variable `part` says which
is at work in a behaviour, while the others rest: **ReaderRecords** (Membership, LabelData,
Vouchers), **Services** (the seven modules from Exporter to Dashboard and Interactions),
MCMailer (MailRun, ReportSchedule) and MCPipelines (PipelineRunner, PipelineSchedule).
MCReaders and MCServices give the first two their instances and narrow where a part that
is not at work rests (`MCReadersSpec`, `MCServicesSpec`). A property of one component
mentions its own variables only, so whatever another does between two of its steps
is a stutter to it, and no behaviour that matters is lost.

**TrackerHit** - one tracker process. `Begin` is `handle_hit` up to `cache.get`;
`CacheHit`/`CacheMiss`, `Fetch`/`FetchFails`, `Store`, `Respond` and
`Publish`/`PublishFails` are the stretches after each await. `header` is the
module-level object, `cache` is Redis keyed by browser id and address, `own[c]`
is what a client keeps: the cookie of the last answer, or for clients without
cookies the `browser_id` of its body. `AnswerOther` is every other answer with
the shared headers. `Sigterm`, `Stop`, `Restart` are the life of the process.
Browser ids are symbolic: md5 of user and agent, or random, without collisions.

**EventPipeline** - topics are sequences, one partition each. `Deliver` hands the
next message to a handler that goes on by itself (`running`); `Commit` commits
what was handed out, finished or not; `Enrich`, `Save` and `Drop` end a handler. A write
of theirs takes effect and is `Answered` or `Unanswered`: then the hit is in `waiting` until
the handler's catch ends it all the same (`TimesOut`) or the process dies. `Drop` is an error
before the write took effect.
`Rebalance`/`Joined` are the events REBALANCING and GROUP_JOIN, `Restart` is
death and return. A write may be made twice by a client library (`Writes`).
`Hits` are published once each; that a hit is published at most once by the HTTP
side is TrackerHit's `pc`. **EventLog** says what becomes of hits without topics,
offsets or handlers: each published hit has one fate, to be stored, sent to the test topic
or lost. One that was repeated on the way may meet more of them; one with a write that took
effect unanswered may be held for lost and be stored or tested as well, but that once only.
EventPipeline implements it (`FatesKept`): what is stored is the hits of the documents in the
order of the index, what is lost is `failed` and `cut`, what was repeated is `again`, and in
doubt is `doubtful`.

**MailRun** - one mail run. `ReadLists` and `WriteQueue` are the form, `Start` to `Finish`
are `run_mailrun` call by call, `Pull` and `PushSent`/`PushFailed` the two updates of
`move_to_sent` and `move_to_failed`. `Edit` is an operator. `SendUnconfirmed`,
`UpdateFails`, `CallFails`, `Abort` and `Kill` are what fails, and where the code's three
nested catches send it. A rejected run of the schedule ends the mailer process and the runs
in it (`EndOf`, `Dies`), because nothing catches it (`mailer/index.js` 135). It is then
down (`up`) until somebody starts it (`StartMailer`): `docker/` has no service for it, and
`package.json` 16 starts plain `node`. `excuses` records what happened that may spoil the
bookkeeping; properties that hold only undisturbed say `excuses = {}`. **Mailing** is what
a mail run promises, free of lists and calls: a reader waits, and is mailed or given up in
one step; nobody is queued who has been mailed; the run is complete only when nobody waits;
once disturbed, anything may happen but a mail taken back. MailRun implements it
(`MailingKept`): those wait who are on the queue and in no run's hands, those are given up
who are on the failed list or whose mail has failed on its way there.

**PipelineRunner** - one pipeline. Calls of `run_pipeline` in the daemon and in
command line processes; the stages are the step between "work" and `Succeed` or
`StageFails`. `Hour` makes a run old, `CheckReads`/`CheckUnlocks` are the
healthcheck. `excuses` names the three races by which two runs come to overlap,
and "orphaned" for a flag nobody is left to clear. **PipelineLock** is what the flag
promises, with two variables: runs begin one after the other until the lock is
broken. PipelineRunner implements it (`Promise`): the runs at work are the calls in
their stages, and the lock is broken as soon as one of the three races is recorded.

**Membership** - one label with `fn`, one old-style and one new-style segment of the
label's readers. `count[l][r]` is how often a reader is on a list, because `$push` adds
again and `$addToSet` does not. `Clear` nulls the keys found in the data: when `fn` finds
nobody there are none, and the data of before stay (`label_model.js` 123-134). `Begin` to
`End` are the stages of an application; `BreakOff` is an error anywhere in it; `Change` is
the readers' data changing under it.

**LabelData** - what Membership leaves out: several labels, each with keys of its own,
whose data share `label_data` (`held`). `Evaluate` calls the `fn` and collects the first
key of each item (`FirstKeys`), `NullKey` nulls one of them for everybody, `WriteItems` is
one update of the bulk write, `Relabel` the list, in one step, for how applications of
*one* label meet on it is Membership's subject. `GiveUpLabel` is an error anywhere.

**Vouchers** - one type and month. `GetVoucher`, `Write`, `Send` are a mail with a
voucher; `Assign` and `Write` the two forms; `UploadUsed` a row of a file;
`GiveUp` a failed call or a dead process between choosing and writing, or between
writing and sending.

**Consolidator** - one consolidator process. `batch` is the array `cache` with one
element for the two entries of a message; `flush` is where the function `flush` is,
with the requests it has made so far: `Tick` starts it, `Look` is a turn of its loop
(one Redis call), `BulkAnswers` and `BulkFails` end it. `Rebalance`, `Joined` and
`TimeLimit` are the rebalance and its 60 seconds; `Sigterm` and `Exit` the shutdown.
`mapping` is Redis, `docs` the index with documents numbered by their ids. `excuses`
names what may cost a message (a resume during a flush) or a second document (two new
messages of a page in one bulk, an unconfirmed bulk, a miss in Redis).

**Schedules** - the timers of one process. `Fetch` requests the documents, `Reload`
compares the answer with what was loaded last, in the order in which answers happen to
come, and takes the timers the process makes of it; `Restart` forgets everything.
`Schedulable` is what the loop of lines 77-86 gets through before an expression throws.
**PipelineSchedule** composes it with operators who edit pipelines; its timers are tasks of
node-cron 2, which can be destroyed, so a changed answer replaces them. The mailer depends
on node-cron 3, whose tasks have no `destroy`: in `ReloadMailers` a changed answer makes
timers only while the process knows of none (`known`, the length of `schedules`); otherwise
the loop throws at the first (line 75), after the hash is stored, having forgotten one that
goes on (`stuck`). A mailer process that died (`MailerDies`) stays down until somebody
starts it (`MailerStarts`). **ReportSchedule** composes this with the user interface:
`Save` to `PutParams` and `ReadReport` to `DeleteMailer` are the calls one by one,
`SaveBreaksOff` and `DeletionBreaksOff` a failed call or a closed page. The mailers that
the interface writes are the documents that the process schedules.

**Exporter** - runs of `exporter/mysql.js`, one after the other. `ReadPage` and `ReadEnd`
are `read` of the stream of a collection; `stream[c]` is what was read of it and is not
saved, of which the first `piped[c]` have left its buffer for the pipeline (`Pipe`, at most
`Ahead` of all collections together). `SaveRecord`, `SaveRecordFails` and `ConvertThrows`
are what becomes of the head of those. A collection read to its end whose buffer is empty
ends the pipeline of all (`Ended`): the others may read on, but what they have in their
buffers is written after the end (`WriteAfterEnd`, an unhandled error), or dropped when the
process exits (`FinishExport`). Records of different collections leave the pipeline in any
order, which allows more than the one queue they stand in there; no property depends on
that order. The API counts pages from 1 and takes 0 for 1: the first page is read twice.
`Passed(r)` says that no run will copy the latest update of r, for there is a newer row. A
page is told by the place of a record among those the query finds (`Rank`, `Offset`).

**WordpressSync** - one command line run at a time. `Page(n)` is read from those who
are missing *now*; `SyncReader` and `SyncReaderFails` are the loop over a page.
`began` and `tried` record what the property compares.

**Sailthru** - the functions for one reader (`ReadReader`, then `Post`) beside one queue
(`StartQueue`, `StartJob`, `CacheStored`, `ServePush`, `JobDone`), with one cache of
labels. `Answer` hands over those of a page whose mapping does not throw and takes down the
others in `unmapped`: the job is completed either way (`sailthru.js` 488-494). `causes[r]`
names what may set the copy of r apart. The routes that began queues answer that they are
deprecated; the functions are exported and modelled.

**TopArticles** - one request, its two queries and the call to the API, while views
come and articles arrive. **PostViews** - requests that overlap and share the answers
in Redis; `Buckets` leaves posts out when too many are asked for.

**Dashboard** - one page. `loading_state` is the code's; `GetArticles`, `RankArticles`
and `ShowArticles` are the stretches of `getArticles` between its awaits; three ways
lead into it (`Reload`, `ApplySettings`, `UpdateSortField`). `apart` names what sets the
articles shown apart from the choices, and is forgotten when a fetch begins.

**Interactions** - one day and the processes that calculate it: those of the cron and those
with the day on their command line, which differ in what they find (`Found`). `MergeMails`,
`Search`, `Look` to `Merge`, `FindCustomers` and `Count` are the calls one by one;
`temporary` holds the records of each reader in their order, for a merge reads them so that
the last one stays, and one that fails may have come to any. `day` of a document is a date
or a string, depending on who wrote last: only strings are counted, so a reader who opened
mails and viewed nothing never is. `Fails` marks the calls whose error `common/mongo.js`
logs and forgets; `EndEarly` is any other error, or a kill. `rfv/interactions.ts`, `es.ts`
and `membership.ts` import a default from `common/mongo.js`, which exports named functions
only: under Node's rules for modules such an import does not link, and the process the cron
starts with `tsx` (`docker/crontab/cron.d/revengine.cron` 3) would end before its first
call unless the loader makes a default of them. The module says what the code does once
`mongo` is those functions, as its calls mean it to be.

What passes between modules that are not composed is described on both sides: the data
of a reader (Membership to TrackerHit, as the values in `Users`; to Sailthru, as
`Relabel`) and the voucher of a mail (Vouchers to MailRun, as part of `Send`).

## Runs

| run | question | instance | result |
|---|---|---|---|
| `tracker_hit` | Do interleaved hits keep readers apart, and is each hit answered? | two visitors with the same agent at two addresses, one reader, two hits, one restart | holds |
| `tracker_hit_cookie` | Is the cookie of an answer that of its hit? | as above | violated, see Findings |
| `events` | Where can a hit go missing or be doubled? | a hit and a test hit, one restart, rebalance or repeated write, any write unanswered | holds |
| `events_docs` | Is a page view one document? | two hits of a browser on an article, nothing repeated | violated, see Findings |
| `mailrun` | Is the bookkeeping of a mail run right when nothing disturbs it, and what survives a disturbance? | two readers, two submissions, one scheduled and one requested run, one failure | holds |
| `mailrun_twice` | Can a reader be mailed twice with nothing failing? | two readers, two submissions, the scheduled run only | violated, see Findings |
| `mailer` | Does a due run get taken; do timers become those of the mailers; what may be orphaned? | one reader, two submissions, both runs, one failure; two reports, one for the last day of the month, two deletions, one fetch, one failed fetch or death of the mailer | holds |
| `pipelines` | When do two runs of a pipeline overlap, is the flag cleared, do timers follow the pipelines? | two calls in the daemon, one command line, two failures; two pipelines, two edits, two fetches, one failed fetch or restart | holds |
| `readers` | What do overlapping and broken-off applications leave behind? Whose is a mailed voucher? | two readers; two applications of the label, one and two of the segments, pages of one reader, three applications begun, one change; two labels with data, two keys and one, a rule of each on the second key and on the other's key, three applications, one change; three vouchers, two mails, a form, one upload | holds |
| `consolidator` | Is a message dropped unsent, a page doubled, the consolidator stuck? | three messages, two of one page and one of none, two disturbances | holds |
| `consolidator_shutdown` | Does a shutdown flush what is in memory? | the same, one disturbance (the shutdown itself) | violated, see Findings |
| `services` | Is what is copied out or shown what it was copied from? | three records of two collections, pages of one, one record in the pipeline, three updates, of which one cannot be converted, one mishap; four readers, pages of two, up to two parts; two readers, one label, two calls, pages of one, two changes, one error; three articles, two of them recent, two turns; three posts, two requests, at most two posts and one bucket; two filters, two settings, two fetches; a process of the cron and one of the command line, three starts, two readers who viewed and paid, one of whom opened a mail, one late view or opening, one failure | holds |

What the properties say is in the comments before them. In short:

- `LabelsOnlyWhereSignedIn`: whatever cookies the shared headers have mixed up,
  labels are answered only to an address the reader was signed in from, under the
  reader's id. It rests on the address in the cache key (the mutant drops it).
- `EmptyLabelsExplained`: a signed-in reader who gets empty data does so because
  an anonymous hit with the same id and address left it in the cache.
- `CookieNeverOlder`: the cookie is of this hit or a later one. Mixed-up
  cookies have one direction only.
- `EveryEventAccounted`, `FatesKept`, `EveryEventResolved`: the
  causes of loss are an error in a handler and a restart while a handler runs;
  the causes of doubling are redelivery and repeated writes; there is no other.
  `FatesKept` is the refinement of EventLog: a hit that was not repeated is stored once,
  tested or lost, and not two of these, unless a write of it took effect and nobody heard of
  it: only then may what an error or a restart has ended turn up in the index after all.
- `OnceUndisturbed`, `NobodyForgotten`, `SentWereMailed`, `MailingKept`,
  `DueIsTaken`: without overlap, stale form, error or kill a mail run is exact;
  with them, the sent list still names only readers who were mailed. The converse
  is lost: a reader mailed and not recorded is `NobodyMailedTwice`'s other way to
  fail. `MailingKept` is the refinement of Mailing, which speaks of steps: who leaves the
  queue has been mailed or given up by that very step, and a mail goes to one who waits.
  `DueIsTaken` says that a run does not stay due while the mailer process is up: once a run's
  rejection has ended it, a due run waits for somebody to start it again.
- `NoOrphanLock`, `LockReleased`, `RunsInTurn`: two runs overlap only by a race of two
  checks, an unlock of a live run by the healthcheck, or a clear by a call that had
  not the lock. `RunsInTurn` is the refinement of PipelineLock: not only are no two
  runs at work before a race, none begins while another is at work.
- `TimersFollow`: once the documents stay as they are, so do, in the end, the timers,
  and they are those of the documents before the first invalid expression: an old
  answer that replaced a newer one is itself replaced, since the hash stored is that
  of what was loaded. The mutant that stores it with the request never repairs itself.
- `TimersExplained`: the same of the mailer's timers, for a process that is up and never
  had to replace one; one that had (`stuck`) keeps the timers it made first, whatever is
  saved or deleted.
- `OrphansExplained`: a mailer without a report is being saved or deleted, or that
  broke off. Two deletions at once do not orphan: the second fails before the mailer.
- `NoDuplicates`, `ExactWhenAlone`, `KeptWhileTrue`: only overlap and only `$push` doubles
  an entry; an application alone repairs whatever earlier ones broke off, but a label whose
  `fn` finds nobody keeps its readers; the moment in which `label_data` is null takes a
  label away only if two applications of the label overlap.
- `NoneSwallowed`, `OneDocumentPerPage`, `LargeBatchFlushed`, `PauseEnds`: emptying
  the batch after the answer is safe exactly while the consumer stays paused
  (lines 49 and 122 lean on each other); the mapping keeps one document a page over
  redeliveries and restarts; a failed bulk does not keep the next one from being
  made; whoever paused the consumer, a flush, GROUP_JOIN or the time limit resumes it.
- `PassedExplained`, `ReadIsCopied`: neither a kill nor the end of another collection's
  stream loses an update for good, for the next run begins where the newest row is;
  a failed query and an update that shifts the pages do. A run that exits by itself has copied
  the collection that ended the pipeline; of one with records left in its buffer nothing is
  promised, though it was read to its end.
- `FewPassedOver`: with one part, a run passes over no more of the readers it began with
  than have got an id since. (With several parts it passes over most, since
  `start_page` is then beyond the last page.)
- `ProfileExplained`, `QueueHandsOver`: a copy in Sailthru differs only by a change since
  the record was made, an old cache or the queue; a queue that ends without error has
  handed over every reader but those whose mapping threw, although its put into Redis is not
  awaited.
- `RecentFirst`, `MissingExplained`: a recent article ranks behind an older one only if
  the first query found it without views; a post is answered too few views only when
  too many were asked for.
- `LoadedAsChosen`: articles marked as loaded are what is chosen unless fetches crossed,
  a report was loaded, or settings were changed and not applied; the page waits for
  ever only after a failure.
- `ListExplained`: whatever was broken off before, a label applied undisturbed has on its
  list the readers its key is found for; others only if the key never comes first in an
  item (`label_model.js` 125); and a rule on the key of another label gets none of the
  readers its own `fn` finds (119).
- `ViewersCounted`, `WebNeverFalls`: processes that overlap, and collections left by one
  that ended early, cost nothing in the end: a run adds its records behind those it finds,
  and merges all there are. The day and the count are set to and fro, but each process
  counts after it has merged.
- `MailedIsOwner`, `OneVoucherEach`: choose-then-write is safe exactly while the choices
  do not overlap. (That no voucher is freed, `NeverFreed`, holds with overlap and is
  proved.)

**Bounds.** `MaxRestarts`, `MaxEpochs`, `MaxFailures`, `MaxDisturbances`, `MaxApplies`,
`MaxChanges`, `MaxUploads`, `MaxMishaps`, `MaxEdits`, `MaxUpdates`, `MaxParts`,
`MaxRelabels`, `MaxErrors`, `MaxViews`, `MaxTurns`, `MaxPostViews`, `MaxRounds`,
`MaxFindings`, `MaxRuns`, `MaxNews` and `MaxDayErrors` bound counters in guards. The
interesting cases are all races of two: two hits over one header, two runs over one queue,
two applications over one list, two choices over one voucher. Two of each actor reach them;
two readers tell "this one" from "another"; three vouchers leave one free while two are
given; pages of one reader make an application of two readers have a first and a last page.
One disturbance at every place suffices for properties that name their excuse: a second one
can only add excuses. PipelineRunner has two failures because the interesting sequence
there is a failed call whose catch fails too, and the Consolidator two disturbances because
there one pause meets another or a failure is followed by a restart. Its batch is above
`CacheSize` with its first message, as the configured `cache_size` of 1 has it. In
`services` the real sizes (pages of 5000, 100 and 10000, 45 buckets, 100 posts) become one
or two, so that two or three records already make several pages, a full page, a rest and
one bucket too few; three updates are enough to have two collections at work, one of them
with two records, copy a record, move it behind a page that was read, and copy it again. A
pipeline that holds one record lets a buffer be left over while another collection is
through. One fetch of schedules under way suffices for the mailer, where the reports are of
interest; the pipelines have two, so that answers come in either order. Three starts of
Interactions are a process that leaves its collection behind and two that overlap in it;
with three failures `WebNeverFalls` may fail (its comment says how), which takes more than
the code can be blamed for. Its part begins with all readers having viewed and one of them
having opened a mail (MCServices), so as to keep the run small. Counts of mails and of list
entries stop at 2, which is all that "twice" needs.

**Deadlock** is checked for `pipelines`. The other runs say `CHECK_DEADLOCK FALSE`: there
the model ends when its hits, submissions or applications are used up, or rests where
the program would wait for its user.

**Symmetry** is used where the properties are invariants and action properties only:
in `mailrun` (readers, submissions), `readers` (readers, vouchers) and `services`
(readers, calls).

## Fairness

- TrackerHit: weak fairness of each request's handler. Redis, the API and Kafka
  calls settle or time out, and the event loop runs what is ready. Nothing is
  assumed of clients, of SIGTERM or of restarts.
- EventPipeline: weak fairness of the consumers (kafkajs polls while not paused;
  the broker completes a rebalance) and of finishing handlers. None of commits:
  they may lag for ever, which is why a restart may redeliver everything.
- MailRun: weak fairness of the schedule (every minute, while the mailer is up) and of each
  run's steps. None of requests, forms or operators, and none of `StartMailer`: nobody need
  start a mailer process that has died.
- MCMailer and MCPipelines: the same for their parts, and for the schedules weak fairness
  of the minute's fetch and of each answer. None of saving, deleting or editing: that
  somebody stops editing is what `TimersFollow` and `TimersExplained` are about, in a model by
  its bounds. None of `MailerStarts`; the pipeline process is taken to be there again after its
  `Restart`.
- PipelineRunner: weak fairness of the API calls of a run, of time and of the
  hourly healthcheck. None of the stages, which have no time limit: a run may
  hang, and `LockReleased` holds by the healthcheck alone.
- Consolidator: weak fairness of the two timers (`Tick`, `TimeLimit`), of the calls to
  Redis and Elasticsearch, which answer or fail, of the end of a rebalance, and of
  `Exit`. None of deliveries, commits, signals or restarts.
- The modules of MCReaders and MCServices state no liveness.

## Proofs

Checked by TLAPS for every value of the constants, from the named assumptions of
the modules only (the sets of actors are disjoint, bounds are naturals, special
values are not members of the sets they stand beside).

**TrackerHitProofs.** `TypeCorrect`. `Invariance` proves the inductive invariant
`IInv`, a conjunction of
  - `HitInv`: what a hit sent and the id derived from it fit `signins` and
    `anonymous`;
  - `CacheInv`: an entry has its cause: labels under the reader's md5 for an
    address in `signins`, or empty data under a key in `anonymous`;
  - `LabelsInv`: the same for the labels a hit in flight holds;
  - `ResponseInv`: the same for what was answered.

  The two properties speak of answers only and are not inductive: an answer takes
  its labels from a hit in flight, and that from the cache, so the cause has to be
  carried through all three. `LabelsAreConfined` and `EmptyLabelsAreExplained`
  follow from `ResponseInv`.

  `CookiesAreNeverOlder` by `OrderInv`: the hits that began are those on record
  (`BeganInv`), a process that is down has none in flight (`DownInv`), and while any
  is in flight the shared header is the id of the hit that began last (`HeaderInv`).
  The last is what makes it inductive: an answer copies the header, and the last hit
  to begin did so no earlier than the one that is answered.

**EventPipelineProofs.** `TypeCorrect`, with the order of the offsets: committed,
handed out, furthest, end of the topic. `EventsAreAccounted` by `AccountInv`, which
adds that enriched messages have no `post_id` (`Unmapped`), so that `Save` never
overwrites the document of another hit; without it a hit could vanish from the index.
`DuplicatesAreRedeliveries` by `OnceInv`, about the hits that were not repeated: one
message in a topic (`SingleMessage`), one handler (`SingleHandler`), documents of
messages and messages of hits only (`Lineage`), and a hit that was passed on has its
message behind the furthest position and its handler finished (`PassedOnce`).
(`DuplicatesOnlyByRedelivery` is implied by `FatesKept` and so in no run.)
`PipelineKeepsFates` proves the refinement: what is tested, or lost and not in doubt, and was
not repeated has no message to come and no handler in either topic (`Through`, kept by every
step: `ThroughStays`; `Fates`), so a hit in the hands of a handler has met no fate yet but the
doubt about a write of it (`HandledIsOpen`).

**ReadersProofs.** Of *Membership*: `MembershipTypeCorrect`, with the fact that no
application adds whom it removes. `DuplicatesAreOverlaps`, `AloneIsExact` and
`DeservedIsKept` by `MInv`. A list no two applications worked on at once has one at
work at most, and what that one has read of the list is still so (`Undisputed`): that
is why the reader it adds is not on the list. An application that is alone holds what
was true when it began, and the list is at every step what ought to be on it but for
what is left to add and to remove (`AloneInv`; if the `fn` found nobody, what ought to be on
it is what the data of before say). As long as nothing changes, nobody the
label's fn finds is about to be taken off (`KeptInv`). *LabelData*: `DataTypeCorrect`,
and `ListsAreExplained` by `UntouchedInv`: between the two steps of an application
nothing else interferes with, what it was answered and what the readers hold agree.
*Vouchers*: `VouchersTypeCorrect`. `VouchersMailedAreOwned` and
`ReadersHaveOneVoucher` by the invariant `Orderly`, under no overlap: one actor at
most has unwritten choices (`OneBusy`), these are of free vouchers for readers
without any, one each (`Fresh`), a draft is written or about to be
(`DraftsBacked`), a mailed voucher is its reader's (`MailedBacked`), one voucher a
reader (`OneEach`). `VouchersAreNotFreed` is an action property and holds with
overlap: a write puts a reader, never nobody.

**MailRunProofs.** `TypeCorrect`. `SentListIsTrue` holds whatever is disturbed: a run on
its way from the mail to the sent list has mailed its reader (`Recorded`), which no
failure changes. The undisturbed properties by `Orderly`: one run at most is under way
(`Single`) and owns the queue, but for the reader it is moving (`Owned`); nobody is on the
queue who is on the sent list (`Apart`); a reader mailed once is on the sent list or in
the hands of the run (`Once`); nobody leaves the queue but to a list (`Kept`); a complete
run has nobody left (`Drained`). Owned is why that is inductive: what a run has still to
mail is what is queued, so the reader it takes next has not been mailed.
`NobodyIsMailedTwiceUndisturbed`, `NobodyIsForgotten` and `CompleteRunsAreDrained` follow
(the last, `CompleteIsDrained`, is implied by `MailingKept` and so in no run).
`MailRunKeepsMailing` proves the refinement from Orderly: while undisturbed one run at most
has a reader in its hands (`OneHand`), and that one is on the queue until the mail
is sent or has failed, so `Send` and `SendFails` are the abstract steps and the two updates of a
move none; what the form adds was never mailed (`QueuedAreUnmailed`); whatever records an
excuse is `Disturb`.

**ConsolidatorProofs.** `TypeCorrect`. `NothingIsSwallowed` by `Held`: unless somebody
else resumed it, the consumer is paused during a flush, and the bulk request covers all
that is in the array. `PagesHaveOneDocument` by `Mapped`: unless one of the three causes
is recorded, Redis names the document of each page, and each request under way names
what Redis does. What a bulk remembers of several requests for a page is the last, found
by the existence of a greatest element of a set of numbers, from well-foundedness.

**SchedulesProofs.** *PipelineRunner*: `PipelineTypeCorrect`. `OneRun` by the invariant
`Exclusive`: of the calls that hold the lock or have passed its check there is one at most
as long as no race is recorded, and while one holds it the flag is set. (Two runs at work
is the case that matters; that the check guards it is what makes it inductive.)
`NoneOrphaned` is inductive with the type invariant. `RunsAreInTurn` proves the refinement
from `Exclusive`: every step of the runner is a step of PipelineLock, or one that changes
neither the runs at work nor whether the lock is broken. *ReportSchedule*:
`ReportInvariance`: a report has one mailer at most (`MailersAreOnce`), how far its saving
is tells which documents there are (`Saved`), and a deletion that has come to the mailer
has deleted the report (`Deleted`). `OrphansAreExplained` follows; it needs MailersAreOnce
because a deletion removes one document only.

**CopiesProofs.** *Exporter*: `PassedIsExplained` and `ReadAreCopied` by `ExporterInv`.
Neither is inductive: whether an update is passed over shows only between runs, and is
decided by what a run had read when it ended. The invariant follows an update through a
run. It lies before the date the run began with, and then it is copied (`BeforeSince`); or
on the pages read, whose records are copied or wait in the stream (`PagesCovered`, and
`ReadCovered` for a collection read to its end); and the stream is saved in the order of
the updates, stale entries included (`InOrder`, `StaleFirst`), so that whatever a run
leaves out is newer than all it has saved (`NewestKept`): the next run begins before it.
These speak of one collection and its stream (`CollectionInv`), and a step that leaves a
collection alone leaves them be (`Untouched`), so that the records of others in the
pipeline do not matter. A page that cannot be read destroys a buffer, which leaves a prefix
of the stream: what stood in the prefix is covered as before, and the collection is neither
read on nor counted as read (`ReadOnce`). `ReadAreCopied` follows from `ReadCovered` when
nothing of the collection is left in its buffer or in the pipeline. All of it holds unless
a query failed (`unsaved`) or a record was updated behind pages already read (`shifted`).
That a row is never newer than its record and no two updates have one time (`TimesKept`,
`EntriesKept`) is needed throughout. `Max` of a set of times is the greatest by
well-foundedness, `Cardinality` of ranks by the theorems on finite sets. *WordpressSync*:
`FewArePassedOver` by `SyncInv`: those whom the run began with and who stand before its
next page without having been tried are never more than those who have left since (`Few`);
each who leaves moves one at most across the border (`PassedOver` and its lemmas). Whoever
signs up meanwhile stands behind (`Newcomers`), and the pages reckoned at the start suffice
for all it began with (`Enough`, which needs `Math.ceil`: `CeilDivIsEnough`). *Sailthru*:
`CopiesAreExplained` by `CopiesInv`: what a call is about to post differs from the labels
of its reader only for a cause the call has taken down, and causes are never forgotten, so
that the post leaves no difference unexplained. `QueueHandsOverAll` by `QueueInv`: who was
neither handed over nor left out because the mapping threw is in the pages to come or in
the page Sailthru has not been answered. `SailthruTypeCorrect`, which says that nobody
holds a label that does not exist, needs CopiesInv too: a post gives Sailthru what a call
has.

**ServicesProofs.** *Interactions*: `WebFallsNever` by `WebInv`: without overlap the
records of a reader stand in the order of their views, and the document has no more than
the last (`Growing`); what a process is about to insert is no less than any (`Newer`);
until a call has failed there is one record at most (`Single`), and until a second one
has, what is merged next is no less than the document (`NoneFewer`). That is why the
property stops at the third failure: two drops that fail leave two records, and a merge
that breaks off between them takes the older one. `ViewersAreCounted` by `CountInv`: while
nothing fails, each reader certain to be answered is counted, or some process is still to
merge the views (`WillMerge`), whatever another drops meanwhile; the count needs that the
mails were merged before (`MailsMerged`) and that every record is what was viewed
(`AsViewed`). Both rest on `Seen`: nothing stored exceeds what the reader viewed.
*PostViews*: `MissingAreExplained` by `PostsInv`: every answer, a request's own or the one
in Redis, is for the posts taken of those asked for and explained by the views counted for
it (`Answered`). *TopArticles*: `RecentComeFirst` by `TopInv`: the second query adds
articles only when every recent article with a view already has a bucket, because the
first had fewer buckets than it asked for (`RecentFound`); the sort puts those of the
first query before (`AnswerInOrder`). Both rest on `BucketsAreHighest`: a key without a
bucket was kept out by as many buckets as were asked for, each with at least its count.
*Dashboard*: `DashboardInvariance`: unless fetches cross, one at most is under way
(`OneFetch`), it fetches for the filters chosen now (`FetchedForFilters`) and, once ranked,
for the settings of now (`RankedForSettings`), but for what `apart` names.
`LoadedArticlesAreAsChosen` follows.

Each component has its type theorem. `ReadersTypeCorrect` and `ServicesTypeCorrect` put
them together for the specifications the runs check: the invariant is that of the
component at work, and a step is one of that component.

**Model-checked only.** All liveness (`EveryHitAnswered`, `EveryEventResolved`,
`DueIsTaken`, `LockReleased`, `TimersFollow`, `TimersExplained`, `LargeBatchFlushed`,
`PauseEnds`): fairness and ENABLED are beyond the prover. Every safety property the runs
check is proved.

## Findings

1. **Set-Cookie is shared by all requests** (`tracker_hit_cookie`). `headers` is one
   object of the module (`event_tracker.ts` 40); each hit stores its cookie in it
   (210), awaits, and writes it (238). A hit is answered with the cookie of another
   that began meanwhile, and that visitor is henceforth recorded under a stranger's
   id, against `docs/tracker/tracker.md` line 30.
2. **The document of a page view is never found again** (`events_docs`). The
   enriched message has `article_id` and no `post_id`, which the subscriber of
   topic 2 asks for (`event_tracker.ts` 84, 112), so that each hit is a document
   of its own, against the comment in line 83.
3. **A reader can be mailed twice by one mail run** (`mailrun_twice`). The form
   writes a queue merged from lists it read before the label was applied
   (`frontend/routes/mails.js` 112-125), against the comment in line 120.

4. **A shutdown may not flush** (`consolidator_shutdown`). The shutdown awaits
   `flush()` (`consolidator/index.ts` 260), which returns at once if the flush of the
   timer is under way (45) or the batch is not above `cache_size` (46); the process
   exits, and Kafka counts the messages in memory as read. The comment in line 257
   says "Flush any remaining cache".

## Not modelled

Wording, parsing of urls and cookies, geolocation, the session hash (derived from
`data.browser_id` in `event_tracker.ts` 234, before line 269 sets it), the templates
and the fields of events other than browser, article and post id: data that no
property tells apart. The translation of label rules and segment conditions into
queries. Kafka, Redis, MongoDB, Elasticsearch and JXP are environment: an
operation of theirs is atomic, may fail where the code handles failure, and has the
guarantee the code relies on and no more. Multi-partition ordering: handlers of one
partition are unordered already.

Components left out are listed in `PROJECT.json` with the reason: one-shot batch copies
(imports, google_analytics, autogen_newsletter), queries and statistics (the rest of rfv,
other reports, ml), one request, one call (listeners, es_middleware, openapi, the webhooks
of wordpress_api), presentation (frontend views), the API server, which is an external
framework, and the earlier tracker, whose handling of a hit is that of the present one in
the main. Of components that are modelled in part: `consolidator/mongo_consolidator.js`, a
script that sums up the events and statistics of readers and posts them to the API, and
that nothing in `docker/` or `package.json` starts; `exporter/index.js`, the variant for
BigQuery; `cron/index.js`, which runs the command lines of a file (once read, for nobody
iterates over what `fs.promises.watch` returns); `sync_user` and `sync_subscription`, which
copy one record; the lists of Touchbase; Sailthru's lists, templates and subscriptions. The
import of Sailthru's profiles decides what to replace by `sailthru_last_updated`, which
`api/models/sailthru_profile_model.js` does not name: whether the API keeps it, and so
whether a profile is ever replaced, is for JXP to say and not for this code. In the
Consolidator a message that does not parse or names no index is left out, because the
handler returns without a trace of it.

## Plan

Done, in this order: TrackerHit, EventPipeline, MailRun, PipelineRunner, Membership,
Vouchers, Consolidator; PipelineLock and the refinement; Schedules with PipelineSchedule
and ReportSchedule, Exporter, WordpressSync, Sailthru, TopArticles, PostViews, Dashboard;
LabelData and Interactions; proofs of every safety property the runs check; Mailing and
EventLog, their refinements by MailRun and EventPipeline, and the proofs of these.

1. *Abstract specifications* of vouchers (free, held, mailed) and of the copies of readers,
   and the proofs that Vouchers and Sailthru implement them.
2. *Compositions*: a mail run whose form applies a label (MailRun with Membership), the
   queue of Sailthru beside applications of labels.
3. *The earlier tracker* as a variant of TrackerHit.
