# Formal models of deprem-yardim-backend-go

TLA+ specifications of the back end behind afetharita.com: two Go programs that turn reports of people
in need into places on a map. `cmd/consumer` reads two Kafka topics, resolves each feed and writes it to
PostgreSQL and Elasticsearch; `cmd/api` serves the feeds over HTTP, through a response cache in redis.
TLC checks the models on small instances and TLAPS proves the results listed under
[Proofs](#proofs) for every value of the constants.

All line numbers refer to the repository.

## Inventory

### Components

| Component | Code | State it keeps | Operations | Correct when |
|---|---|---|---|---|
| Consumer group session | `consumer/consumer.go`, `broker/kafka_consumer.go`, `cmd/consumer/main.go` | the group's offsets (in Kafka), the claims, marks and positions of a session, one goroutine per claimed partition | join (`Start`), `Setup`, `ConsumeClaim`, mark, commit, `Cleanup`, stop, restart | no message is left behind that no handler has returned from; offsets never go back; partitions are taken over |
| Message handlers | `consumer/adress_resolved_handler.go`, `intents_resolver.go`, `needs_resolver.go` | none between messages; effects on the stores, the log and the marks | `addressResolveHandle`, `intentResolveHandle`, three HTTP requests | a marked message has had its effect, and every anomaly has a failure as its cause |
| Feed tables | `repository/repository.go`, `resources/init.sql` | `feeds_entry`, `feeds_location`, `needs` | `CreateFeed`, `UpdateLocationIntentAndNeeds`, `DeleteFeedLocation`, `UpdateFeedLocations`, `CreateNeed`, the reads | entry and location appear together; updates hit the row they are meant for; a PATCH is applied whole or not at all; a query lists what its filters say |
| Connection pool | `repository/repository.go` (`New`, `Close`), `cmd/api/main.go` | ten connections | acquire, give back, close at shutdown | every call gives back what it took; what has a deadline is answered |
| Search index | `search/` | the documents of the index `locations` | `CreateFeedLocation`; `GetLocations` (not called) | a document agrees with its row; the index could be read instead of the tables |
| Response cache | `middleware/cache`, `cache/`, `handler/cache_invalidate_handler.go` | redis: URL hash to body, five minutes | lookup, fill, delete on a write, prune | no entry is older than a write of its URL; old entries go |
| Endpoints | `handler/`, `cmd/api/main.go` | none | the GET, PATCH and POST routes | a success is the result it claims to be; every request is answered |
| API key check | `middleware/auth` | none | restricts POST, PUT, PATCH, DELETE, pprof and swagger | runs before the cache is touched |
| Event ingest | `handler/create_event_handler.go`, `broker/kafka_producer.go` | the topics of raw feeds (in Kafka) | `POST /events`: one Kafka message per raw feed | every feed of a 201 was tried, in the order of the body |
| Static endpoints, logger, generated API description, deployment | `handler/get_reasons_handler.go` and others, `pkg/logger`, `swagger/`, Docker and ECS files | none | | not modelled: no state, generated, or configuration |

### How they interact

```
 POST /events --> topic.raw.* --> (address resolver, another program) --> topic.feeds.location
                                                                               |
          +------------------- consumer processes, one group ------------------+
          |  addressResolveHandle: CreateFeed; send to topic.feeds.intent; mark; commit
          |  intentResolveHandle:  intent service; needs service; duplicate service;
          |                        update or soft delete; index; mark; commit
          v                                   v
   PostgreSQL (pool of 10 per process)    Elasticsearch
          ^
          |  handlers <-- cache (redis) <-- auth <-- recover <-- HTTP
          +------------------- api processes ----------------------------------+
```

The two programs share the database and nothing else: the consumers know nothing of the cache. All
instances of the API share one redis.

### What is hard here

* Every goroutine of a session shares the session's marks: a commit made by one carries those of the others.
* A mark covers every lower offset of its partition, and two error paths return without marking.
* A member that has been given up does not know it and goes on.
* Each handler is a chain of up to seven calls, each of which may fail, may have succeeded although it
  failed, or may end the process (a nil response is dereferenced, a nil message is read from a closed channel).
* `CreateFeed` is not idempotent, and delivery is at least once.
* The row is updated before the document, in two stores without a common transaction.
* The cache deletes before the handler writes, and keeps whatever was answered with 200.
* Two results of the pool are never closed, and closing the pool waits for what they hold.
* A PATCH is one implicit transaction of many updates of which one result is read: rows are locked in the order of the
  request, the answer may come before the commit, a later failure undoes what was answered with 202, and an error of the connection
  or of a cancelled context tells nothing of what was committed.
* A POST of events goes on after a failed send; what a failed or retried send has on its way may be written after later feeds.
* What `/feeds/areas` lists depends on ten parameters with their defaults, on three statements that change a row, and on the date.

`PROJECT.json` lists all hazards with their lines and the properties that cover them. Some have none: the anomaly is what the
code does, the model does it too, and the properties around it name the failure that excuses it.

## Modules

| Module | Models | Built on |
|---|---|---|
| `FeedStore` | the rows and documents of a feed, one operator per statement | |
| `ConsumerGroup` | processes, sessions, claims, marks and commits | |
| `FeedPipeline` | the two handlers, composing the goroutines of `ConsumerGroup` with the stores of `FeedStore` | both |
| `FeedPipelineProperties` | type invariant, safety, action and liveness properties, refinement mapping | `FeedPipeline`, `DeliveryContract` |
| `DeliveryContract` | abstract specification: what a consumer group owes to the writers of its topics | |
| `FeedPipelineProofs` | theorems about sessions, marks and commits of the pipeline | `FeedPipelineProperties` |
| `FeedEffectsProofs` | theorems about the rows, intent messages and documents its handlers leave behind | `FeedPipelineProofs` |
| `HttpCache` | requests through auth, cache and handlers, with its properties | |
| `ConnPool` | the connection pool, the calls that share it, and its closing when the process ends | |
| `UpdateBatch` | the batch of a PATCH in PostgreSQL: implicit transaction, row locks, deadlocks, the one result that is read | `AtomicPatches` |
| `AtomicPatches` | abstract specification: what a PATCH promises | |
| `EventIngest` | the loop of sends of `POST /events` | |
| `ApiServer` | a process of the API and its successors: requests, batches and posts, SIGTERM, exit and crash | `ConnPool`, `UpdateBatch`, `EventIngest` |
| `Calendar` | `time.Date` and `Time.AddDate` | |
| `LocationQuery` | what `/feeds/areas` lists of a feed that is created, classified, corrected and deleted; what the index would list | `Calendar` |
| `HttpCacheProofs`, `ConnPoolProofs`, `UpdateBatchProofs`, `EventIngestProofs`, `ApiServerProofs`, `LocationQueryProofs` | theorems about the modules they name | those |
| `FeedPipelineMC`, `HttpCacheMC`, `ConnPoolMC`, `ApiServerMC`, `LocationQueryMC` | budgets, functions, inputs and symmetry sets for TLC | |

Operators whose comment begins with "Mutant:" are wrong versions of the definition below them. No
specification uses them; each is a plausible bug, and replacing the definition by it makes the property
named in `PROJECT.json` fail.

### ConsumerGroup and FeedPipeline: state and actions

| Variable | In the code |
|---|---|
| `log[p]` | the messages of a partition of one of the two topics |
| `committed[p]` | the offset of group `feeds_location_consumer`; `NoOffset` before the first commit |
| `rebalancing`, `phase[c]`, `claims[c]` | the coordinator and, per process, where the loop of `Start` stands and what its session has claimed |
| `work[c][p]` | the goroutine in `ConsumeClaim`: the call it is about to make, `entryID`, `intents` |
| `position[c][p]`, `marked[c][p]` | what the claim has received and what `MarkMessage` has recorded |
| `entries`, `index` | the tables (an entry and its location are one record: they share their id) and the index |
| `finished`, `acked`, `base` | history: which offsets a handler returned from or marked, and where a start at the newest offset jumped to |
| `disruptions`, `published`, `errors[k]` | bounds: crashes, evictions and rebalances; messages from outside; failures per kind of call |

Each call of a handler is one action, because between two calls anything else may run:
`Receive` (the receive of the select, the choice of the handler, decoding), `StoreFeed`, `SendIntent`,
`ResolveIntents`, `ResolveNeeds`, `CheckDuplication`, `DeleteLocation`, `UpdateLocation`, `IndexLocation`,
`MarkMessage`, `Commit`. The early returns lead to `mark`, or, for the two that do not mark, straight back to
the select (`ReturnUnmarked`). A failed transaction may have been committed (`Create \/ UNCHANGED entries`).
`UnreachableService` and `NilMessage` are the panics; they end the process, as does `Stop`.

What is abstracted: texts, coordinates, needs and labels. A feed is `located` when it meets the condition of
`createFeedLocation` (an address and both coordinates). An answer of the intent service is `empty`, `labels` or
the error on which the feed is deleted. Ids are numbered without the gaps that rollbacks leave. Kafka delivers what is in its log: loss inside
the broker is not modelled, but the producer may fail or write twice. A deadline that passes is a failure of
the call it hits. The order in which the goroutine of `ConsumeClaim` and the coordinator act is free.

What is external: the group coordinator and sarama, under `sarama.NewConfig()` (commit every second, start at
the newest offset). `Evict` covers missed heartbeats and handlers that outlast the rebalance timeout. A graceful
shutdown is a `Rebalance`, `CancelSession`, `Release` and `Stop`.

### HttpCache

`cache[u]` is the entry under the hash of a whole URL, `request[r]` a request in progress in any of the servers,
`db[t]` a version of a table, which counts its writes. The stages of a request follow the order in which
`cmd/api/main.go:90-94` installs the middlewares: `Authorize`, then `Lookup` (GET) or `DeleteEntry` (any other
method, HEAD included, as fiber registers HEAD for every GET), then `Read`, `Write` or `Prune`, then `Fill`. A write sends its statements
(`Write`), the database commits or undoes them (`EndWrite`), and the handler answers (`AnswerWrite`): after that for `POST /needs`, before or
after for a PATCH, which reads one result of its batch, and at any time for a call that breaks off or runs out of time.
`Expire` is redis, `ConsumerWrite` the other program. `written` and `overlap` are history; a write of a URL lasts, for `overlap`, until
its transaction is over. A read that fails
is answered with `{}` and status 200, with part of the rows (nobody asks for `rows.Err`), or, after a panic, with 500.

### ConnPool

`free` counts the idle connections and those not made yet, `call[r]` and `stage[r]` tell what the request in slot `r` is doing,
`process` whether the process was told to end. A call acquires a connection, runs and ends. `Finish` covers every way in which a
result is read to its end; `ExecBatch` and `PanicOnRow` are the two that leave it open. `GiveUp` is the deadline of a call that waits for
the pool; `UpdateFeedLocations` has none. `Terminate` is the SIGTERM on which `Listen` returns; from then on the pool is closed,
which refuses who waits for it (`Refuse`) and itself waits for every connection (`Exit`). `Crash` is also the kill of a process that does not end.
`lost` is history.

### UpdateBatch and AtomicPatches

`state[b]` is the transaction of a batch, `done[b]` how many of its statements were executed, `pending[b][e]` the item it last wrote to
the row of `e`, which it locks from then on, and `place[e]` what the committed row shows. The actions are those of the server:
`SendBatch`, `Execute` (only if no other batch holds the row), `FailStatement`, `BreakDeadlock` (one of a circle is the victim),
`CutOff` (the client is gone before the rest of the list or the Sync arrived, or the batch was cancelled), `CommitBatch` (at the Sync).
`ReadFirstResult` and `BreakOff` are the client, `results.Exec()` and nothing more: the first result, or an error of the client's own, after
which the batch may end in any way. PostgreSQL and pgx are external and modelled as far as the code relies on them.
`AtomicPatches` knows submitted, applied and dropped; `place` and `list` map to themselves, and the fate of a batch is a function of its state.

### EventIngest

`body[p]` lists the channels of the feeds of a post, `sent[p]` counts the turns of the loop. `Send` writes the feed
and may leave an attempt before it on its way, as the producer retries; `SendFails` is an error. What they leave may be written at any
later time or never (`WriteLate`). `producer` is FALSE when `NewProducer`
failed at the start, which `main` only logs: then every send is a panic. `CutPosts` ends the process in the middle of the loops.

### ApiServer

Joins the three: a `Patch` acquires a connection and sends its batch on it (`RunBatch`), is answered by the first result (`AnswerPatch`),
and keeps the connection. In `BreakPatch` the connection breaks or the context is cancelled, and the handler answers the error while the
server still has the batch. `CrashServer` and `ExitServer` end the requests, the posts and the unread replies at once, while the
database goes on with the batches it has (`orphans`) and Kafka with the sends that were on their way.

### LocationQuery

One row is followed, since a filter looks at one row at a time. `Create`, `HandleIntents` and `PatchLocation` are the statements that
change it, and `HandleIntents` also writes its document, which the document of another message with the same payload id may
replace (`OtherFeedIndexed`); `Intents` is the scan of `sendIntentResolveRequest` over labels and scores.
`GetFeedAreas` turns a query string into a query with its defaults, `GetLocations` is the WHERE clause, `IndexGetLocations` the query of the index.
Time is counted in days and scores in tenths. A list in a column or a parameter is the sequence of its texts, and
`ILIKE` is a relation `Like` between texts and parts of texts; wildcards in the parameter and texts with commas of their own are left out.
So is `extraParams`, which adds a column to the answer and chooses no rows; the panic it can lead to is in `ConnPool`. Rows that do not scan are
skipped by the code and not modelled. Nothing is assumed of a payload's point and box: the code checks the address, the latitude and the longitude only,
and missing corners are 0. Assumed: every fourth year is a leap year, and no label of the
classifier reads "alakasiz veri", the text of the error that stands for an irrelevant answer (`consumer/intents_resolver.go:66`).
Whether a bulk request wrote its document cannot be told from what the code looks at, so it is left open (`indexed`).

## Runs

| Run | Instance | Shows |
|---|---|---|
| `takeover` (`PipelineTakeover.cfg`) | 2 processes, 2 partitions, 1 feed, 1 disruption | types; nothing unhandled is left behind while sessions overlap; an intent message never names a row that is not there; offsets never go back; `DeliveryContract` is implemented |
| `failures` (`PipelineFailures.cfg`) | 1 process, 2 messages of any kind, 2 payload ids, one failure of each kind | what a marked message must have caused; which failure an orphan, a duplicate or a disagreeing document needs |
| `redelivery` (`PipelineRedelivery.cfg`) | 1 process, 2 feeds, 1 database error, 1 disruption | loss needs a database error even across redelivery; the index never runs ahead of the table |
| `progress` (`PipelineProgress.cfg`) | 1 process, 1 feed through both handlers, 1 database error, 2 disruptions, fair | every message is finished and left behind |
| `takeover_progress` (`TakeoverProgress.cfg`) | 2 processes, 1 feed through both handlers, 1 disruption, fair but for a member that was given up | its partitions are taken over, wherever it stood, although none of its calls and not even its session need ever return |
| `cache` (`Cache.cfg`) | 2 requests, 2 data URLs and prune, 1 write, 1 failure, fair | no entry older than the last write of its URL unless a GET came before the commit or redis failed; the cache agrees with the database in the end |
| `server` (`Server.cfg`) | 2 requests, 2 connections, 2 batches over 2 rows and an id without a row, 1 post, 1 failing statement, 1 broken connection, 1 failing send, late attempts, 1 restart, fair | only batches and panics lose connections; reads are answered even with the pool exhausted; a shutdown ends unless a connection was lost; a PATCH is all or nothing (`AtomicPatches` is implemented); sorted lists never deadlock; what a 202, an error and a 201 vouch for; events come in the order of the body |
| `query` (`Query.cfg`) | 1 feed of 5 payloads, another under the same id, 4 answers of the classifier, handled twice, 4 dates to start from, 2 days, about 150 query strings | feeds are found by their intents; zooming out loses none; a list of channels is a union; the last year is always covered; when the index would answer the same; a deleted feed stays out; a correction changes only what is asked of `is_location_verified` |

Four runs are expected to fail; each shows a disagreement between a comment and the code:

| Run | Comment | What happens |
|---|---|---|
| `cache_write_race` | `middleware/cache/cache.go:26` "better to remove cache entries for this url" | GET reads; PATCH deletes the entry and writes; GET fills: the old rows stay for five minutes |
| `cache_prune` | `middleware/cache/cache.go:25` "Don't cache write endpoints" | the OK of `/caches/prune` is cached; the next prune flushes nothing |
| `cache_errors` | `handler/get_feed_areas.go:19` "@Success 200 {object} []feeds.Result" | a failed query is a 200 with `{}`, and is cached |
| `pool_patch` | `handler/update_feed_location_handler.go:18` "@Success 202" | after ten PATCHes (two in the model) the next waits for ever |

One more was met and has no run: `README.md:19` promises the records of the last year ("son 1 yıla ait kayıtlar") to a query without
`time_stamp`; the default of `handler/get_feed_areas.go:43` reaches a month and a day further back. `LastYearAnswered` shows
that no record of the last year is left out, and `LastYearListed` proves it for every date.

### Bounds

Two partitions, one per topic, are all that a goroutine's commit can carry besides its own. Two messages are
needed for a mark to cover an earlier one, two payload ids for documents to collide or not, two processes for a
stale owner. One disruption gives one redelivery; a nil message takes the end of a session and another disruption, so `progress` has two. The liveness properties
speak of the first message of the topic of locations and of two of the topic of intents (`OffsetsOnce`), the second of which a redelivery sends.
`takeover_progress` has a classifier that gives no intents: what it answers does not matter to who takes over. The runs split the dimensions because
their product is out of reach: takeover has no failing calls, failures has no disruption, redelivery has both with one
process. Combinations beyond them are covered by the proofs. Two requests of the cache are enough for a GET to overlap a write,
and a third would only repeat either role; one write is enough to tell old rows from new ones.

Two connections are enough for the pool to be shared and exhausted, and two PATCHes to meet at two rows in opposite orders,
which is the shortest circle; one list names a row twice, one an id without a row, one is empty. One failure can hit the first
statement or a later one. To keep the run `server` small, a behaviour of it has either PATCHes or POSTs, which share nothing but the
process they end with, and calls with a deadline come in until the first process ends. The proofs have neither of these bounds on
the parts: `ServerIsSafe` is about any number of requests, batches and posts.

A behaviour of `server` has one broken connection at most, and each feed one attempt that is late.

The payloads of `query` are 365, 366, 396 and 400 days old, on both sides of a year and of the default window, and the dates lie before
the 29th of February, before and after a month shorter than the one before it, and at the end of a year. A fifth payload has no latitude and is never
stored; one has no corners. Boxes contain, cut and miss the feeds; labels are above, at and below the two scores; every filter is missing, matching, failing and, where it is parsed, garbage.

`CHECK_DEADLOCK FALSE` is set where the bounds end every behaviour (the pipeline, `server`, `query`). The cache and the pool
are checked for deadlock.

### Fairness

* Goroutines are scheduled and their calls return (`WF` of `ClaimStep`). For the HTTP calls this is an assumption: they
  have no timeout. Of a member that was given up `takeover_progress` expects nothing (`Fairness(FALSE)`): neither its calls nor its session return, and the
  rest of the group must get through. What is left as an assumption is that a member in the group returns from a call or is given up.
  `progress` has a single process, which must come back for anything to happen (`Fairness(TRUE)`).
* Heartbeats, the commit ticker, the coordinator and the restart of an essential ECS task (`task-definition-consumer.json`) run.
* Nothing is assumed about messages, failures or disruptions.
* Cache: redis expires entries, and reads get through (each has a timeout of 5 or 25 seconds). Nothing is
  assumed of writes, whose context has no deadline.
* Pool: the database answers, deadlines pass, and waiting calls get connections in turn (`SF` of `Acquire`;
  pgxpool queues them). In the server no liveness property needs `Acquire` to be fair at all.
* Server: calls with a deadline end, a PATCH reads its result when there is one, PostgreSQL works through the batches it has and looks for
  deadlocks, `SendMessage` returns, and a closed pool with all its connections back lets the process exit. Nothing is assumed of
  SIGTERMs, crashes, failures or late writes.

## Proofs

| Theorem | States |
|---|---|
| `TypeCorrect` | `Spec => []TypeOK` |
| `DeliverySafe` | `Spec => []CommittedWasFinished`: no message is left behind that no handler has returned from |
| `DeliveryHolds` | `Spec => []DeliveryInv`: nor can any session still commit one, and a partition has one owner |
| `OffsetsMonotonic` | `Spec => OffsetsNeverRewind`: no step moves a committed offset back |
| `PipelineKeepsContract` | `Spec => DeliveryContractKept`: the pipeline implements `DeliveryContract` |
| `IntentsNameEntries` | `Spec => []IntentNamesEntry`: no intent message before its row, and it names that row |
| `AckedFeedsForwarded`, `AckedIntentsApplied` | `[]AckedFeedForwarded` and `[]AckedIntentApplied`: a marked message has had its effect, or a call of its kind failed |
| `IndexFollowsTable` | `Spec => []IndexFollowsUpdate`: no document shows intents that its row has not got |
| `NothingLostButToErrors` | `Spec => []LossNeedsDbError` |
| `OrphansNeedFaults` | `Spec => []OrphanNeedsFault` |
| `DuplicatesNeedDisruptions` | `Spec => []DuplicateEntryNeedsDisruption` |
| `IndexAgreesWithTable` | `Spec => []IndexMatchesRow` |
| `CacheTypeCorrect`, `KeptIsFresh` | `[]TypeOK` and `[]FreshWithoutOverlap` of the cache |
| `PoolTypeCorrect`, `PoolAccounted` | `[]TypeOK` and `[]OnlyUnclosedResultsAreLost` of the pool, through restarts |
| `BatchTypeCorrect` | `BatchSpec => []BatchTypeOK` |
| `BatchIsAtomic` | `BatchSpec => PatchesAtomic`: the batches implement `AtomicPatches` |
| `SortedListsAreSafe` | `BatchSpec => []SortedListsNeverDeadlock` |
| `RepliesAreTold` | `BatchSpec => []ReplyTellsOutcome` |
| `EveryFeedIsTried` | `EventSpec => []CreatedMeansTried` |
| `EventsTypeCorrect`, `BodyOrderHolds` | `[]EventTypeOK` and `[]BodyOrderKept` of the posts |
| `ServerImplementsParts` | `ServerSpec` implements `Spec` of `ConnPool`, `BatchSpec` and `EventSpec` |
| `ServerTypesCorrect`, `ServerIsSafe` | so the type invariants and the safety properties of the parts hold in the server |
| `ZoomingOut` | `QuerySpec => []ZoomingOutKeeps` |
| `ChannelsAreAsked` | `QuerySpec => []CommaListIsUnion` |
| `OutForGood` | `QuerySpec => StaysOut` |
| `PatchIsVerification` | `QuerySpec => PatchOnlyVerifies` |
| `QueryTypeCorrect` | `QuerySpec => []QueryTypeOK` |
| `FoundByLabels` | `QuerySpec => []FoundByIntents`, for answers of any length |
| `LastYearListed` | `QuerySpec => []LastYearAnswered`, for every date |
| `IndexMayBeRead` | `QuerySpec => []IndexAgrees` |

They hold for any number of processes, partitions and messages and any budget of failures, under the named
assumptions of the modules (constants have the types one expects; the sets of partitions of the two topics are disjoint;
for the pool, the set of requests is finite; for the batches, the set of rows is; for the queries, the first
day is a day of a month, and `None` is no row, document, answer or label). Every strengthening below was an invariant of a TLC run before
it was proved. With them every safety property that a passing run checks is also a theorem.

`CommittedWasFinished` is not inductive: `committed` is overwritten with what some session has marked, so marks
must be over finished messages too, and so must everything a claim has received except the message in work. This
is `MarkedWasFinished`. The new value must not be lower than the old one, which needs that only one member of the group owns
a partition and that its marks are not below the commit: `SoleOwner`. It holds because a new session starts
only when no member is in an old one, and because a member that was given up is no longer a member. `OffsetsInLog` keeps the ranges
meaningful when logs grow. Together they are `DeliveryInv`, checked by the run `takeover` first and then proved
inductive, one lemma per action. `OffsetsMonotonic` and the refinement follow from the same invariant, step by step.

The effects of the handlers (`FeedEffectsProofs`) take three layers on top of it. All of them use that logs, rows and counts of failures
only grow (`Grows`), so what was said of a message or a row stays true, and each action is looked at for what it adds (`NewRows`,
`NewAcked`, ...); the actions of the group add nothing.

* `EffectsInv` says where things come from and what a goroutine knows at each call. Every row comes from a location message of the log
  (`SourcesInLog`); every intent message names a row with its payload (`IntentsNamed`); a goroutine at `produce` holds the id of the row of
  its message, one at `index` a row that is no longer as the payload had it (`HandlerInv`); one about to mark has had the effect or
  seen the failure (`MarkInv`). From this follow the properties of marked messages. `LossNeedsDbError` adds `FinishedStored`, which with
  `CommittedWasFinished` speaks of all that is left behind.
* `SessionInv` is about behaviours without a disruption. Then there is one session (`OneSession`), whose goroutines have passed every
  message that has a row (`RowsPassed`), so none is handled again and no message has two rows (`OneRow`). A row
  without an intent message is in the hands of a goroutine at `produce`, which only a disruption or a failure takes away.
* `OnceInv` is about behaviours in which moreover no send failed. Each row has one intent message (`OneIntent`): a failed
  send may have written it, and then the location message, unmarked, would bring a second. A row is changed by the handler of that
  message only (`TouchedOnce`), and between its `update` and its `index` nobody else writes the row (`IndexesTable`). Hence `IndexMatchesRow`.

`FreshWithoutOverlap` is not inductive: a GET that read long ago may still keep what it has read. `FreshInv` follows every URL that had no
overlap: no GET and no write of it are in progress together, what a GET is about to keep is no older than the last write, and
while a write is between the deletion of the entry and the end of its transaction, answered or not, nothing is kept. That the rows in the database are no older than
the last write of a URL connects the version a read returns to the version a write has made.

`OnlyUnclosedResultsAreLost` is inductive with `TypeOK`; the proof is about the cardinality of the set of running calls.

A batch is atomic because what it will show is a function of how far it has come: `BatchInv` says that `pending[b][e]` is the
last of the first `done[b]` items that names `e`, and that no two running batches hold the same row. At the commit this is
`Corrected` of `AtomicPatches`. For `SortedListsAreSafe`, along a circle of waiting batches the rank of the row waited for would rise
with every step: each batch locks in the order of its list, so the row it waits for has a greater rank than every row it holds; the
finite set of those rows has no greatest element, which is impossible. `RepliesAreTold` strengthens `ReplyTellsOutcome` by what
the count of executed statements says of a reply, and by who holds which row while a victim is chosen.

`CreatedMeansTried` needs `TriedInv`: of every post, the feeds of the turns that are over were written or failed, and what is written is never
taken away. `BodyOrderKept` needs `OrderInv`: whatever is in a topic, or may still get there, belongs to a turn that is over or to the
one the process ended in (`FeedsPassed`). The turns before it are over, so each of their feeds has failed or is in its topic already when a feed of a
later turn is written, at once or late; and topics only grow at their ends. `ServerImplementsParts` goes action by action: each step of the server is a step of a part or leaves its variables alone.

The theorems on queries rest on an invariant of the row, `RowOK`: its columns have their types and the flags are Booleans.
The rest is about the operators: comparisons are transitive (`ZoomingOut`), `ILIKE ANY` distributes over lists (`ChannelsAreAsked`), no statement
writes `is_deleted` but to TRUE (`OutForGood`), and of what the filters read a PATCH writes `is_location_verified` alone (`PatchIsVerification`).
`IndexMayBeRead` adds `DocumentOK`, that a document known to be the last under its id has the box, the time, the channels and the labels of its row, whatever
PATCH or deletion came later; for one whole label `ILIKE` and a term query then ask the same (`LabelAgrees`).

Two theorems are about recursive functions. `LastYearListed` has to know that the table of days before each month exists at all (`TableExists`
gives it), sums it up, and shows that a month back is at least 28 days back, across the turn of the year too (`MonthBack`).
`FoundByLabels` is an induction over the answer of the classifier. The library's induction theorems have an operator as a
parameter, which the provers cannot instantiate; `Induction` states the principle for a set of numbers instead and follows from the
well-foundedness of the natural numbers. With it, the loop exists for every length (`KeptExists`) and after each turn has either met the label that
settles it or kept exactly the labels with a score of 0.4 or more (`KeepTurn`, `ScanKeeps`).

The proofs changed the models in four places, none of which changes what a behaviour may do. `FirstStage` was a `CASE` whose
guards overlapped, so that it did not say which applies to garbage on the topic of intents. `Intents` is a recursive function instead of
a fold. `QueryTypeOK` names the set a reason is from, the payloads' columns and the labels of answers, in place of all sequences of labels, and
ties it to the answer it came from. What the proofs use of constants (`DatesAssumption`, `AnswersAssumption`, `NoneAssumption`) is stated.

Only model-checked: liveness under fairness, which is out of reach of the prover (`EveryMessageFinished`, `EveryMessageCommitted`,
`EventuallyConsistent`, `TimedCallsAnswered`, `ShutdownEnds`, `BatchEnds`, `PostAnswered`).

## Plan

1. Proofs: the safe halves of the liveness properties. A closed pool that lost nothing has each of its connections back or in a call that runs
   (`ShutdownEnds`); a batch that cannot go on waits for one that can, or is in a circle (`BatchEnds`).
2. `HttpCache`: paths without a route, whose error the cache drops.
3. `FeedPipeline`: `PATCH /feeds/areas` waiting for and racing the resolver on the same row.

## Not modelled

Static endpoints, logging, metrics, the generated API description and deployment, as listed above. The masking of personal
fields is a text conversion without state. The table `needs` has one INSERT and one SELECT; it is a version in `HttpCache` and a statement in
`ConnPool`, and has no model of its rows. Handlers that `Register` does not route are left out. The growth of the metrics series
(`consumer/consumer.go:78`) has no place in a bounded model. The field `Ready` of the consumer (`consumer/consumer.go:57`) is used by one session
at a time. The error that `c.Next` returns for a GET is dropped by the cache (`middleware/cache/cache.go:35`), so that a path without a route is an empty 200:
the models have the routes of `Register`. `is_need_verified` is left to the database unparsed (`repository/repository.go:155`); `GetLocations` of `LocationQuery` does the same, and no document says what garbage should do. The consumers' updates of single rows are not in `UpdateBatch`: they
hold nothing while they wait for a row, and a wait that is too long is a failed update of `FeedPipeline`.
