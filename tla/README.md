# A TLA+ model of the EU AI Guard Proxy

This directory holds a specification of the proxy in `src/`: TLA+ modules, the
TLC runs that check them on small instances, and proofs checked by TLAPS.
`PROJECT.json` is the index: components, runs, mutants, the lines each
definition stands for, hazards, findings and theorems.

## 1. The system

The proxy relays chat completions to a provider, guards tool calls, and keeps a
tamper-evident record of every exchange. One process is one asyncio event loop;
the Dockerfile starts one, and several may share the database (a rolling
restart, a second container, `uvicorn --workers`): that is the reason for the
unique constraint on `previous_hash` (`models.py:13`). Code between two awaits
is atomic within its process, so each action of the modules is what runs between
two awaits, or between two file operations where processes share files.

| Part | State | Operations | Modelled in |
|---|---|---|---|
| Routes (`proxy_routes.py`), standard path (`forwarder.py`) | none | `chat_completions`, `forward_standard_request`, callback of a stream | `Gateway` |
| Streams (`forwarder.py`) | outcome and tool calls of one stream, the buffer | relay, accumulate, inspect, block, record | `StreamGuard`; their life in the process in `Gateway` |
| Tool guard (`tool_guard.py`) | none | `inspect_tool_calls` | `ToolGuard`, one order |
| Audit worker (`audit_worker.py`) | queue, its unfinished count, consumer task, `failed_count`, `data/failed_audit` | `start`, `enqueue_log`, consume, retry, dump, `stop` | `AuditWorker`, `AuditTrail` |
| Ledger (`models.py`, `crypto_chain.py`) | `audit_ledger` | insert, hash, verify | `HashChain`, `AuditWorker`, `LedgerReads` |
| Audit routes (`audit_routes.py`) | none | `verify_chain`, `export_audit_dossier` | `LedgerReads` |
| Archiver (`s3_worm_archiver.py`) | `daily_batch_manifests`, `archived_to_s3`, the bucket | `archive_day_batch`, `pending_batch_dates`, `archive_pending_batches` | `DailyArchive` |
| Scheduler (`daily_scheduler.py`) | the cron job, in memory | 00:05 UTC run, backfill at start | `DailyArchive` |
| Lifespan (`main.py`) | backfill task | start and shutdown of the above | `Gateway`, `DailyArchive` |
| Schema (`database.py`) | the tables and their indexes | `init_db` | `SchemaMigration` |
| Keys (`asymmetric_signer.py`) | two files of `data/keys` | first use, rewrite, sign, publish | `KeyStore` |
| TSA client (`eidas_tsp.py`) | none | request, check of the answer | `TimestampToken`; outcome in `DailyArchive` |
| Rekor client, health | none | HTTP call; `failed_count` | outcome in `DailyArchive`; `AuditWorker` |
| DLP filter, settings, authentication, dashboard | none of their own | masking, constants, the demo reset | no (section 6) |

How they interact: a route hands an entry to the queue of its process
(directly, or by the callback in the `finally` of a stream); the consumer of the
queue chains it into the shared table; verification, export and archiver read
that table page by page or day by day while it grows; the archiver writes flags
into it and a manifest beside it, and asks TSA and Rekor for their seal. The
shutdown goes through the same parts in order: the server stops accepting and
waits for its answers, the scheduler and the backfill end, the worker drains.

What is hard: processes that race for the same link of the chain; commits whose
outcome is unknown (lost acknowledgement, cancellation); a shutdown with work
in hand, and generators the server does not wait for; long reads of a table that
changes; three kinds of archiving task that interleave at each await, with
midnight, and with a kill between an upload and a commit; a stream cut into
chunks anywhere; two processes that start on one database or one key directory.
The hazards of `PROJECT.json` list each at its line, with the property that
covers it or the reason none does.

What makes each part correct:

* worker: the chain never forks; nothing accepted disappears; `stop()` ends and
  leaves nothing behind; order is kept;
* gateway: what reached the provider is recorded in the end; a clean shutdown
  settles whatever was answered, and comes to its end;
* reads: no false alarm, no altered row missed, nothing left out of a dossier
  without saying so;
* archiver: one final manifest per day, flags equal to manifests, a token and an
  attestation behind each manifest that claims them and, with S3 on, the dump it
  names, only closed days, a truthful status, every day within the window of the
  backfill sealed in the end;
* streams: the client never holds a whole destructive order of an indexed call,
  and a record holds what the client has read, however the stream ends; both but
  for characters cut between two chunks (section 4);
* schema: a process that is up works on the table and the column and, unless it
  has said otherwise, on a guarded chain; starts that race get through in the end;
* keys: a signature verifies with the key beside it, and goes on verifying;
* tokens: a token that is taken is newer than its request and serves no other.

## 2. Modules

`HashChain` — the chain of `crypto_chain.py`. A hash is what it commits to, the
sequence of entries from the genesis: this is SHA-256 taken as injective, and
it makes a fork, a skipped row and an altered row visible as values. An entry
stands for the five hashed columns.

`InOrder` — what a `SELECT ... ORDER BY id`, or a loop that keeps some elements
of a list, makes of a set of ids or positions: the sequence from the lowest to
the highest. It is defined by counting, so that facts about it can be proved
without induction; `LedgerReads` and `StreamGuard` are built on it.

`AuditTrail` — the abstract specification of the audit side: entries arrive; an
arrived entry is recorded at most once at the end of one chain; others are left
in the mailbox or lost.

`DaySeals` — the abstract specification of the archive: rows are chained, each
of some day; a day is sealed at most once, in one step that also flags its rows,
with the rows of the day chained up to some moment. Nothing else happens to a
seal or a flag.

`AuditWorker` — any number of processes over one table; implements `AuditTrail`.

| Model | Code |
|---|---|
| `life` | from `lifespan` to the end of `stop()`: `joining` waits in `queue.join()`, `joined` and `cancelling` are before the `CancelledError` arrives, `stopped` is before the process ends |
| `queue`, `unfinished` | `asyncio.Queue` and its count behind `join()` |
| `task` | the consumer: `select` before its SELECT returns, `commit` before its commit ends, with the tail it read and its attempt number |
| `ledger`, `dumped`, `failedCount` | `audit_ledger`, `data/failed_audit`, `failed_count` |
| `accepted`, `tardy`, `lost` | history: entries accepted, those accepted after `stop()` was called, those whose only copy went with a process or a disk |
| `GetItem`, `SelectLastHash`, `Persist`, `Collision`, `DatabaseError`, `AckLost` | one attempt of `_persist_with_retry`, by its outcome; the pause before the next attempt is the wait in `select` |
| `BeginStop`, `JoinReturns`, `JoinTimesOut`, `CancelConsumer`, `Exit` | `stop()` and the end of the process; `_drain_to_disk` and `cancel()` run in one turn of the loop, so they are one action |
| `Crash` | a kill at any await |

`Gateway` — extends `AuditWorker` with the exchanges and the lifespan of each
process; every step of it is a step of the worker or leaves the worker alone,
and that is proved.

| Model | Code |
|---|---|
| `phase` | where an exchange is: `asking` in `forward_standard_request`; `unstarted`, `relaying`, `left` a stream whose generator has not begun, runs, or was abandoned by its client and waits for its `aclose`; then `answered`, `closed` (recorded in the `finally` of a generator left behind), `skipped`, `raised`, `cut` |
| `host`, `asked` | the process that has the exchange; history of the requests that reached the provider |
| `server` | uvicorn: `serving`, `draining` after the signal, `closing` past the `yield` of `lifespan` |
| `backfill` | `_backfill_task`, awaited after its cancellation and before `stop()` |
| `ReceiveStandard`, `ReceiveStream`, `Answer`, `BeginStream`, `EndStream` | `chat_completions` and the two forwarders up to `enqueue_log` |
| `SkipStream`, `LeaveStream`, `CloseLeft` | a client gone before, or during, the iteration of the response |
| `Serve`, `Drain`, `BeginShutdown`, `BackfillCancelled`, `StopWorker`, `Quit`, `Kill` | `lifespan` around the worker |

`LedgerReads` — one request for a verification or a dossier over the table,
while rows are appended and altered between its pages. The filters of a dossier
are sets of entries; a page of a dossier is the first rows of `InOrder` of the
ids the filter keeps past the cursor. Ids are positions in the table: ids that a
rolled-back insertion skipped would change nothing, since the code only compares
them.

`DailyArchive` — implements `DaySeals`. Time in hours; cron job, backfill and manual batch as three
tasks that go step by step through `archive_day_batch`: look for the manifest,
verify, read the rows, have the root attested (`Notarise`, by the TSA, by Rekor,
by both or by none), store the token and the dump (`Store`; without S3 the token
goes to a local directory and there is no dump), commit manifest and flags
together. Each of these may fail where the code lets it. A manifest always names
a dump (`s3_object_key`), stored or not. The verification is one
step here, since `LedgerReads` shows what its pages see. `suspects` and
`pending` inside a task are history. `attested` and `objects` are what the
notaries and the stores hold; a manifest is compared with them.

`StreamGuard` — one stream. An event is two units on the wire, and a chunk is
any run of units, so a chunk begins and ends inside events or at their border.
The buffer of `_split_events` is the units read past the last complete event, so
the events a chunk completes are an interval of places in the stream, and what
`_accumulate` adds is `InOrder` of those that carry a text, or a fragment of one
call. `StreamAssumption` says that the event with the finish reason is the last
one, which is what the API of the providers promises. One choice per event; an
event is a text, a fragment of the arguments of a tool call, or the finish
reason. Each chunk is decoded on its own, so a chunk that ends inside a `wide`
event tears a character of it: the place goes into `torn`, and what
`_accumulate` keeps, and the guard inspects, is `Decoded`, while the client has
what was sent (`AsSent`). A call without index is forwarded and skipped, as in
the code; calls with indexes of two kinds, numbers and names, make the sort of
`_materialize` raise (`Sortable`), in the loop and again in the `finally`.
`ReadRaises` is a chunk in which `_accumulate` meets a choice, a delta or a call
that is not an object. `Record` is the `finally` that ends with the callback;
`NoRecordMade` is the one that raises or whose callback does. Events the code
skips (comments, malformed JSON, `[DONE]`) are left out. The model begins when
the generator does.

`ToolGuard` — the verdict on the arguments of a call as far as the cut decides
it. The order `drop` `table` stands for the patterns of `tool_guard.py`: word
boundaries, a comment that `normalize` turns into a gap, a gap of several bytes
that is lost when it is cut (`Garbled`), and an escape of JSON that shows only
when the text is complete. So the verdict on a prefix differs
from the verdict on the whole in both directions, and `StreamGuard` uses it as
it is.

`SchemaMigration` — `init_db` in each process, statement by statement: the look
for the tables, CREATE TABLE with its constraint, its indexes, the columns,
ALTER TABLE, the unique index, the commit. On SQLite each DDL statement is its
own transaction; on PostgreSQL they are one, which keeps its locks (`Unlocked`)
and which a failed statement undoes. The databases found are empty, present, or
of the old release, forked or not; the processes of the old release may fork the
table while it has no constraint (`Fork`).

`KeyStore` — `ensure_signing_key_pair` one file operation at a time; a write is
two, since `write_bytes` empties the file first. `SerialFirstUse` says that no
two processes make the pair at the same time: with it the pair is safe, without
it the run `keys_pair` shows what is lost.

`TimestampToken` — requests with their nonce, a TSA that seals what it is asked
or is wrong about it, and a network that returns any token that exists. A nonce
of zero is left out of the request, as in the code.

`MCSharedData` puts the last three side by side for TLC: they share no state, so
a behaviour is one of a single part while the others rest, and the run checks
their union and not their product. The other `MC*` give TLC their instances.
`*Proofs` hold the proofs of the module they name, `SharedDataProofs` those of
`MCSharedData` with its three parts, for any constants of theirs; the bases a
start may find are the four of the run (new, present, old, old and forked).

In the modules, a definition `X_Something` before `X` is `X` with a plausible
bug. No specification uses these; they show that each property can fail, and
`PROJECT.json` names the pair for each property under `mutants`.

## 3. Runs

| Run | Shows | Bounds |
|---|---|---|
| `worker_safety` | `ChainIntact`, `NoSilentLoss`, `DrainAccounting`, `FifoPerProcess`, types; the worker implements `AuditTrail` | 2 processes, 3 entries, 2 attempts, all faults, symmetry |
| `gateway` | `StopLeavesNothing`, `TardyWasLeft`, `CleanStopKeepsAnswered`; with fairness `EventuallySettled`, `AskedIsRecorded`, `ShutdownCompletes` | 1 process, which may start again; 2 exchanges, 2 attempts, all faults |
| `reads` | `NoFalseAlarm`, `FindsAltered`, `CoversTotal`, `ExportExact`, `TruncatedIsTrue` | 5 rows, pages of 2, dossiers of 1 to 3 rows |
| `reads_truncation` | finding: `UntruncatedIsWhole` fails | the same |
| `archive_races` | `ArchivedIffSealed`, `SealHasObject`, `SealHasNoHole`, `BackfillOnlyClosedDays`, types; the archiver implements `DaySeals` | a day of 2 hours and the first hour of the next, 2 rows, 1 kill, rows up to an hour late, failures of TSA, keys and S3 |
| `archive_days` | `StatusTruthful`; with fairness `EventuallySealed` | 3 days, 2 rows altered at any time, 2 kills, S3 off as by default |
| `archive_late_rows` | finding: `BackfillClears` fails | a row an hour late |
| `stream_guard` | `NoDestructiveDelivered`, `BlockedBeforeFinish`, `RecordCoversDelivered`; with fairness `EventuallyRecorded` | all streams of up to 3 events, the last of which may be the finish event: text, two numbered calls, one named and one without index, with and without characters that can be cut |
| `stream_text` | finding: `RecordedIsRead` fails | streams of up to 2 events |
| `shared_data` | `UpIsMigrated`, `BornUnforked`; `IssuedVerifies`, `IssuedKeepVerifying`; `TokenServesOne`, `AcceptedIsFresh`; with fairness `EventuallyUp` | 2 processes, both databases and four bases, 3 keys, 2 roots, nonces 0 to 2, 2 tokens, 2 kills or failed statements |
| `keys_pair` | finding: `IssuedKeepVerifying` fails without `SerialFirstUse` | 2 processes, no kill |
| `schema_upgrade` | finding: `UpHasColumn` fails | PostgreSQL, a forked old table, no kill |

Why the bounds are enough. Two processes suffice for a race on a link, and a
third adds nothing that a second one retrying does not do. Three entries let a
process hold one while another waits and the other process chains; two attempts
have a first, which is tried again, and a last, which is given up. `gateway` has
one process because what it adds to the worker, the shutdown and the exchanges,
stays within a process; two exchanges let one be recorded while the other is
left behind. Pages of two and five rows give two full pages and a partial one;
dossiers of one to three rows end inside a page and at its end. Days of two
hours have a first hour, where the midnight run belongs, and a last one;
`archive_races` ends with the first hour of the second day, in which cron job and
backfill archive the day before and a manual batch may have either day in hand.
`archive_races` leaves out a commit that the database refuses, because a batch
that loses the race for its day takes the same path, and a Rekor that fails,
because the TSA fails at the same place; the proofs have all of them. Three
events hold an order with another event before, between or after its halves,
with or without a character cut, two interleaved calls, or indexes of two kinds. Three keys give a first pair and one for each of two
processes that find half of it. Two tokens are an old one and the answer.
`MaxRows`, `MaxCrashes`, `MaxFailures`, `MaxTokens` and `LastHour` bound the
growth and nothing else.

What some of the properties do not say, although they hold:

* `EventuallySealed`: three days with `Window = 2` never leave the window, so it
  says nothing of an outage longer than `ARCHIVE_BACKFILL_DAYS`: the days before
  the window are never listed again, and stay unsealed.
* `BackfillOnlyClosedDays` is checked in UTC; west of it, it fails (section 4).
* `StatusTruthful` speaks of rows altered before the batch began. One altered
  between the verification and the read of the rows (`s3_worm_archiver.py:75-84`)
  is sealed under `VERIFIED_CLEAN`.
* `AskedIsRecorded` exempts a process that ended with the exchange in its queue,
  be it killed or left by `lifespan` before `stop()` because the backfill raised
  (`main.py:40`).
* `UpIsMigrated` lets the index of `request_id` be missing on SQLite, and takes
  the logged failure of the index on PostgreSQL for all that was rolled back
  with it (finding 5 says what that may be).
* `TokenServesOne` and `AcceptedIsFresh` take a nonce of 64 random bits never to
  be drawn twice.

`CHECK_DEADLOCK FALSE` stands where the modelled system really stops: at the
end of the clock in `DailyArchive`, after the record in `StreamGuard`, and in
the small modules when every process is up, every key is drawn or every nonce.

### Fairness

* `Gateway`: weak fairness, per process, of its exchanges, of its consumer and
  of what the signal sets off. The event loop resumes a task whose await is over;
  a provider answers, fails or reaches `UPSTREAM_TIMEOUT`; a stream ends or its
  client goes; a database call ends in one of its outcomes, and `wait_for` bounds
  the join. No fairness of the database: it may fail every attempt. None of
  requests, kills or starts.
* `DailyArchive`: time passes, the service is restarted, the scheduler fires
  and awaits end. `EventuallySealed` is checked with kills and no other failure:
  a failed attestation does not stop a batch, and a batch that raises for S3 or
  the database is not tried again until a restart, so that day would wait
  (listed under hazards). It also assumes that the scheduler fires within its
  hour (`misfire_grace_time` is an hour) and that a batch takes less than a day.
* `StreamGuard`: the provider answers or the timeout of httpx ends the read, and
  the client reads or goes. `EventuallyRecorded` has two exceptions, indexes that
  cannot be sorted and a callback that raises.
* `SchemaMigration`: statements end, locks are granted, and the service is
  started again when it stops (`restart: unless-stopped` in the compose file).

## 4. Findings

Each is a run whose property quotes the repository and fails:

1. `UntruncatedIsWhole` — a dossier that fills at the end of a full page is
   signed with `records_truncated: false` though rows were left out. With the
   default sizes (50000 and 1000) this is always so for a full dossier.
2. `BackfillClears` — a row chained after its day was sealed is never archived;
   each start reports the day as processed.
3. `RecordedIsRead` — a character cut between chunks, of the text or of the
   arguments of a call, is recorded as replacement characters, while the client
   reads it whole.
4. `IssuedKeepVerifying` without `SerialFirstUse` — two processes that find no
   key pair each write their own, one over the other; a signature already issued
   verifies no more.
5. `UpHasColumn` — on PostgreSQL a forked old table refuses the index, which
   undoes the new column in the same transaction; the process starts, and every
   INSERT fails.

Other disagreements need no trace of several steps, or have no run:

* `pending_batch_dates` takes the naive stamps of SQLite for local time: with
  `UtcOffset <- OneHourWest` (`MCDailyArchive`), `BackfillOnlyClosedDays` fails,
  and the open day is sealed. The container runs in UTC.
* The notice of a block may continue half an event of the provider
  (`forwarder.py:391`), since what was forwarded before may end anywhere.
* A file in `data/failed_audit` may hold an entry that is in the ledger: a commit
  that was done and whose acknowledgement was lost, or that was cancelled.
* The arguments are inspected as they are decoded (`forwarder.py:378`): when the
  gap of an order is a blank of several bytes and is cut between two chunks, the
  guard sees replacement characters there and no order, while the client has it
  whole. Calls without `index` are not inspected at all (`forwarder.py:268`); the
  docstring of `_accumulate` counts on the schema of the API, which requires it.
  `NoDestructiveDelivered` excludes both, against the docstring at
  `forwarder.py:325`.
* With S3 off, the default, every manifest names in `s3_object_key` a dump that
  nobody stored, and its rows are flagged `archived_to_s3`
  (`s3_worm_archiver.py:151`, `:174`, `:187`). `SealHasObject` says it.
* A body that is JSON and not an object raises in `_extract_tool_calls`
  (`forwarder.py:158`), and indexes that cannot be sorted raise at the end of a
  stream (`forwarder.py:412`): those exchanges reached the provider and have no
  entry, against the docstrings at `forwarder.py:108` and `:330`. `Gateway` has
  both, as `raised`, and `StreamGuard` the second; a callback that raises
  (`forwarder.py:416`) also leaves no entry, and a line in the log.
* `failed_count` is raised before the file is written and an error of the write
  is swallowed (`audit_worker.py:153-165`), so `audit_failed` can be above zero
  with no file in `data/failed_audit`, against `health.py:11`.
* Rekor and the TSA attest the Merkle root of the stored hashes alone
  (`s3_worm_archiver.py:126-132`), not the status of the batch, which the proxy's
  README.md:71 says is anchored.

## 5. Proofs

Every invariant of the runs that pass is a theorem, and so are the refinements of
`AuditTrail` and `DaySeals`: each holds for every value of the constants
that the named assumption of the module allows. `PROJECT.json` lists them under
`theorems`.

`AuditWorkerProofs`, for any set of processes and entries, any number of
attempts and any faults, from `WorkerAssumption` alone:

* `TypesAlways`, `WorkerTypes`: `DrainAccounting` and `TypeOK`. They are one
  inductive invariant (`Types`): that the count stays a natural number when
  `task_done` takes one away needs the exact count.
* `ChainAlwaysIntact`: `ChainIntact` is not inductive, because nothing in it
  says where the tail a consumer holds came from. `ChainInv` adds `LastWasTail`
  (it was the genesis or the hash of some row) and `TailCommits` (the tail hash
  holds exactly the chained entries). The key lemma is `AdmittedFollowsTail`: in
  an intact chain each hash but the last is the `previous_hash` of a row, so a
  row the constraint on `previous_hash` admits can only follow the last one,
  however stale its read was.
* `NothingLostSilently`: `NoSilentLoss`, with `OnlyArrived` (what is held or
  settled had been accepted). Every step of the consumer, of `stop()` or of a
  kill is shown to be a `LetsGo(w)` step, which hands over entries of one
  process; the invariant follows once from `LetsGo`.
* `OrderIsKept`: `FifoPerProcess`, from `FifoInv`. The queue is always the
  youngest part of what its process accepted (`QueueIsYoungest`), so the entries
  taken are a beginning of it; nothing past that beginning is chained, and nothing
  past the entry in hand (`ChainedUpTo`, `OwnInHand`). A new row is therefore
  younger than all the process has chained. The entry in hand may be chained
  already, when an acknowledgement was lost; `AcceptedOnce` is what tells its
  place from any other.
* `StopDrains`: `StopLeavesNothing`, with `StopPhases` (what queue and consumer
  may hold in each phase of `stop()`, entries of late callbacks apart), which
  needs `DrainAccounting` to know that a join that returned left nothing.
* `WorkerImplementsTrail`: `Spec => Trail!Spec`, with the tail hash as the
  abstract chain; `TailCommits` gives that a new row was not recorded before.

`GatewayProofs`, from `WorkerAssumption` and `GatewayAssumption`:

* `GatewayImplementsWorker`: `GatewaySpec => Spec`, so that each theorem above
  holds in the gateway. Here the composition is checked rather than assumed: an
  exchange touches the worker only through `EnqueueLog`.
* `GatewayTypesAlways`, `OnlyLeftStreamsAreTardy`, `CleanStopSettles`: from
  `GatewayInv`, which adds that past the `yield` nothing is left to answer, and
  that whatever was answered had been accepted by its own process. The last one
  combines it with `StopLeavesNothing`, which the gateway has by the refinement.

`InOrderProofs`, about `InOrder` of a finite set of numbers: it lists each
element once and in order (`InOrderLists`), it is the only sequence that does
(`InOrderIsTheOne`), what lies beyond a set is listed behind it
(`InOrderGoesOn`: a loop that goes on where it stopped), and what lies before is
the beginning (`InOrderBegins`: a page is all there is up to its last id).

`LedgerReadsProofs`, for any page size, limit, filters and table, from
`ReadsAssumption`:

* `NeverAFalseAlarm`, `AlteredIsFound`, `ValidCoversTotal`: `ReadsInv` says that
  the stored hashes are still linked (`Chained`: an altered row keeps both its
  hashes), that a verification carries the hash of the last row it read and has
  passed no row of `suspects` (`Paging`), and what it has concluded (`Verdict`).
  The key lemma, `FailsIffAltered`, is that a row not yet read fails the two
  tests of the loop when and only when it is altered, wherever the pages are cut.
* `DossierIsExact`, `TruncationIsTrue`, `ReadsTypes`: `DossierInv` carries the
  list of ids from page to page; `InOrderGoesOn` and `InOrderBegins` are the
  step of a page. A row that is appended or altered changes none of it, since the
  filter looks at columns an altered payload leaves alone.

`DailyArchiveProofs`, for any hours, window, zone, rows, failures and kills,
from `ArchiveAssumption`:

* `FlagsMatchSeals`, `SealsAreBacked`, `SealsAreWhole`, `StatusIsTrue`,
  `SealedDaysAreFinal`: what a manifest says is made sure of by its batch step by
  step. `BatchHolds` says which facts a batch has by the place it is at,
  `BatchKept` that rows chained and altered meanwhile do not undo them, and
  `CommitStep`, the one step that touches rows and manifests together, turns them
  into `SealHolds`. `SealsAreBacked` covers both settings of S3: with it on the
  named dump is there, with it off it is not (`DumpsNeedS3`). The race for a day is decided there too: `Commit` has the
  unique `batch_date` in its guard.
* `ArchiveImplementsSeals`: `Spec => Seals!Spec`. Only a row that is chained, one
  that is altered and a commit touch ledger or manifests. For the commit
  `BatchHolds` gives that the batch holds every row of its day up to the highest
  id it read, which is the moment of the abstract step, however many rows came
  since. `SealedDaysAreFinal` says directly what follows for a manifest: no step
  replaces or removes it.
* `ArchiveTypes`: with `TypeInv`, that a batch past its read has rows.
* `BackfillKeepsToThePast`: `BackfillOnlyClosedDays` when `UtcOffset` is a
  natural number, which the theorem states as its hypothesis: a process in UTC
  (the container) or in a zone east of it, or a database that keeps the zone of
  its stamps. West of Greenwich the property is false (section 4), so the
  hypothesis cannot go. The invariant, `BackfillClosed`, is that every date still
  listed is a closed day; days that are closed stay so.

`StreamGuardProofs`, for any streams, indexes and cuts, from `StreamAssumption`:
`StreamTypes`, `NoOrderGetsThrough`, `BlockWithholdsFinish`,
`RecordIsComplete`. The heart of `StreamInv` is `Rebuilt`: after n units the
outcome holds exactly what the events of the first n units carry, pieces of text
and fragments of each indexed call, each as it was decoded, whatever the chunks
were. What was forwarded was inspected in that form, which is the form the client
has when no character was cut: hence `NoOrderGetsThrough`, for calls with an
index and no torn character, and `RecordIsComplete`, piece by piece. When an event makes
`_accumulate` raise, the outcome is what some number of units between those sent
and those read carries, which is enough for the record. A verdict that turns
with the next fragment does no harm: each chunk is inspected again before it is
forwarded. The finish event is the last unit, and a stream is blocked before it
has sent all its units.

`TimestampTokenProofs`, for any clients, roots and nonces, zero included:
`TokensServeOne`, `AcceptedAlwaysFresh` and `TokenTypes`. Freshness
needs that every nonce in a request or a token had been drawn, and that a request
that waits has a nonce that no token older than it carries. That no token serves
two requests needs that a nonce belongs to one request, waiting or over
(`SingleUse`). They need no assumption on the constants.

`SharedDataProofs`, for any processes, keys, roots, nonces, kills and tokens,
from `SharedDataAssumption`; `FairSpec` is that of the run, and no proof uses its
fairness:

* `UpAlwaysMigrated`, `NewTablesUnforked`: `SchemaInv` says which parts a
  process has seen or made by the statement it is at (`Arrived`), committed or in
  its own transaction. A part that is there stays, so what one process saw is not
  undone by another; the one thing a rollback takes back is what the transaction
  itself made. A table of this release carries its constraint from CREATE TABLE on
  (`ChainWithTable`), and a transaction of PostgreSQL never commits a table
  without the index of `request_id` (`RequestWithTable`).
* `SignaturesVerify`, `SignaturesKeepVerifying`: `KeyInv` has two phases. As
  long as there is no pair (`NoPair`), nothing is issued and at most one process
  is at it: this is `SerialFirstUse`, the condition of the instance, without
  which `keys_pair` has its counterexample. From then on there is one key for
  good (`Pair(k)`): whatever a file holds, what a process has in hand, and what
  was signed is of that key, through kills and rewrites in the middle of a file.
* `TokensServeOneRequest`, `TokensAreFresh`: the invariants of
  `TimestampTokenProofs`, carried over through the instance.
* `SharedTypes`: the types of the three, from the same invariants.

Only model-checked: all liveness (`EventuallySettled`, `AskedIsRecorded`,
`ShutdownCompletes`, `EventuallySealed`, `EventuallyRecorded`, `EventuallyUp`),
since the prover has no means for fairness and ENABLED here; and what the five
findings refute, which are false.

## 6. Not modelled

* The DLP filter: regular expressions over strings, without state or order of
  calls. That tool calls and provider errors are recorded unmasked
  (`proxy_routes.py:61`, `:97`) is plain from the code.
* The list of patterns of the tool guard beyond one order, for the same reason.
* Authentication and settings: a stateless comparison and constants; the
  constants that matter are CONSTANTS of the modules.
* The dashboard: synchronous and read-only, but for the demo reset, a
  development aid that deletes the ledger on purpose. Its use of the keys is a
  process of `KeyStore`.
* Isolation levels beyond "each statement sees what is committed", which is
  what PostgreSQL's default and the SQLite driver give these reads.
* ASN.1, canonical JSON, the zip of a dossier, the Merkle tree: layout of what
  the modules carry as values. SHA-256 and the Merkle root are taken to be
  injective.

`PROJECT.json` gives the status and the reason for each component.

## 7. Plan

Done: all the modules of section 2, with their runs; proofs of every invariant
that the passing runs check, and of the refinements of `AuditTrail` by the
worker, of the worker by the gateway, and of `DaySeals` by the archiver.

What is left, in this order:

1. An abstract specification of a relayed stream (a beginning of the provider's
   events, none of them completing an order) that `StreamGuard` implements.
2. `AuditWorker` on a table without its unique index, to say what the chain
   loses while the process has only logged that it is missing.
3. The demo reset as an action of the environment of `AuditWorker` and
   `LedgerReads`; Luhn and the Merkle tree as recursive functions.
