# TLA+ models of the FinSight data query service

This directory holds TLA+ modules for the data query service in `src/`, TLC
configurations that check them on small instances, and TLAPS proofs for every
instance. Line numbers below are lines of the files under `src/`.

## 1. The system

One Python process (uvicorn, one worker) serves the latest trading day of three
PostgreSQL tables to holders of `data_api` tokens. It is concurrent in three
ways: coroutines on one event loop, threads of the server's pool (up to 40) in
which the synchronous dependencies run, and threads of asyncio's default executor
in which tables are refreshed. Its shared state is in the process (caches, queue),
in redis (locks, counters, snapshots) and in PostgreSQL (tokens, audit events).
There are no tests in the repository.

| component | source | state | operations | what makes it correct |
|---|---|---|---|---|
| query queue | `app/query_queue.py` | `_queue`, `_pending`, `_token_waiters`, worker tasks, `_stopped` | `get_snapshot`, `_worker`, `_resolve_pending`, `_periodic_refresh_loop`, `start`, `stop` | one refresh per table, no lost wake-up, exact waiter counts, futures settled once |
| snapshot service | `app/snapshot_service.py` | `_cache` per table (expiry, rows), redis `data_api:snapshot:v1:<table>` | `get_cached_snapshot`, `refresh_snapshot`, `filter_rows` | rows of bounded age, no silent return to older rows |
| concurrency gate | `app/auth.py` 604-682 | redis `data_api:concurrent:<token>`, `data_api:concurrent:conflict:<token>`, `active_request_id` of a shared context | `_acquire_concurrent`, `ensure_request_not_conflicted`, `_release_concurrent` | one active request per token, recovery after a crash |
| device binding | `app/auth.py` 288-358, 529-574 | three columns of `auth_token`, the context objects, the token cache | `bind_fingerprint`, `rebind_fingerprint`, `_enforce_fingerprint` | no lost decrement, no admission of an unbound device |
| rate limits | `app/auth.py` 448-527, 576-602; `app/main.py` 216-286 | one redis counter per token, path and window | `_enforce_rate_limits`, `build_usage_snapshot` | no window over its limit, no false refusal, truthful report |
| token cache | `app/auth.py` 124-226 | dict token -> (expiry, context or None) | `load_token_context`, `_cache_get`, `invalidate_token_cache` | bounded staleness of a ban, no false "unknown token" |
| seed administrator | `app/auth.py` 752-861 | rows of `auth_user`, `auth_user_role`, `auth_token`, audit events | `ensure_seed_data_api_admin` at every boot | one seed token however many processes boot, none uncommitted |
| HTTP application | `app/main.py` | none of its own | three data endpoints, usage report, startup, shutdown | a request ends, answered or refused, and leaves nothing behind |
| database pool | `app/db.py` | 4 connections | `connection`, `fetch_all`, `fetch_one`, `execute`, `close` | commit or rollback, every connection returned |
| redis client | `app/redis_client.py` | pool | one retry after a timeout | |
| tables, config, time, logging, schema | `app/*.py`, `config/` | constants | | |
| migrations | `alembic/env.py`, `alembic/versions/` | `auth_*` tables, `alembic_version_data_query` | `upgrade`, `downgrade` | tables and version row stay together |
| process start | `start.py` | | upgrade or skip, then the import of `app/main.py` | nobody serves without a schema |
| SDK client | `sdk/finsight_data/client.py` | a session's headers | one GET per table and page | pages add up to the rows asked for |
| SDK fingerprint | `sdk/finsight_data/fingerprint.py` | `~/.finsight/device_fingerprint` | sources in turn, then the file | one identifier per machine, for good |
| release scripts | `sdk/release_common.py`, `build_release.py`, `upload_release.py` | `releases/<version>/`, PyPI | build, check, notes, upload with skip and confirmation | success only of what is published, published only what was checked |

How they meet in one request: the endpoint's dependency runs in a thread of the
pool: token cache, state, scope and table checks, device binding, rate limits,
gate. The endpoint then runs on the event loop: conflict check, cached snapshot,
otherwise the queue, conflict check, filter, conflict check, answer. The
dependency's `finally` releases the gate. Workers and the warm loop call
`refresh_snapshot` in executor threads; `wait_for` abandons a thread whose time
is up, and the thread goes on and may still write both caches.

What is hard: two requests between any two lines of the dependency; timers of
several waiters on one shared future; threads that outlive their job; context
objects shared by requests through the cache and mutated; redis commands
repeated by the client or executed with the reply lost; keys that expire under
their owner; commits that succeed and raise; processes that die between two
steps; connections held by threads nobody awaits; migrations that overlap; a file
that two clients create; an upload whose answer is lost. `PROJECT.json` lists each such hazard at its line.

## 2. The modules

A state variable has the name of the field or key it stands for, or a comment
that says so. Requests walk through `pc`, whose values are the places where the
code can be interrupted; between two of them nothing leaves the process.
Variables marked "history" record the past for a property and never guard a
step. Definitions under a comment "Faulty variant" are never part of `Next`: they
are plausible mistakes, each of which breaks the property it is listed with in
`PROJECT.json` when it takes the place of the definition it varies.

**QueryQueue** (`app/query_queue.py`). Callers (`GetSnapshot`, `WaitTimeout`,
`Resume`), workers (`Dequeue`, `RefreshEnds`, `JobDone`, `JobTimeout`), abandoned
threads (`ZombieEnds`), the warm loop (`WarmWakes`, `WarmRefreshes`), expiry of
the caches (`Expire`) and `Stop`. The bodies under `_lock` never suspend, so each
is one step. A future is named after the call that created it. `wait_for` on the
shared future is modelled by what asyncio does: the timer of one waiter cancels
the future for all, and a timer that has fired wins over a result that is ready.
A table's rows are reduced to fresh or stale. `Stop` is enabled when no call is
waiting, since uvicorn drains requests before the shutdown handler runs.

**SharedFlight** is what the queue promises its callers, without queue, workers,
quotas or caches: a caller is answered at once or boards the flight of its table,
a flight ends once, in a result, an error or a cancellation, and a caller is told
the fate of its own flight or that its own time is up. `QueryQueue!Flight` is the
refinement mapping.

**TokenGate** (`app/auth.py` 131-226, 604-682; the checks of `app/main.py`
94-122). A Lua script is one step. Redis keys and cache entries count the ticks
they have left. `GrantReplyLost` is a script that ran and whose reply was lost:
the client repeats it or the call raises, outside the `try` that would release
the lock. `ctx` and `active` are the shared context objects and the request id
stored in them. `Crash` ends every request and empties the cache but not redis.

**DeviceBinding** (`app/auth.py` 147-226, 288-358, 408-440, 529-574). The row, the
contexts as objects that are read once and then mutated, the cache, and requests with
any device and any consent. A request may be `Barred` by state, scope or table; a
device that does not match is first recorded, and the remaining rebinds are looked at
afterwards (`Inspect`, `ConsiderRebind`, `CheckRebind`). `UpdateFails` is an UPDATE that is rolled back, or, with
`CommitMayLie`, committed while the client sees an exception.

**RateLimit** (`app/auth.py` 448-527, 576-602; `app/main.py` 216-286). Windows of
several lengths, counters keyed by window number with an expiry, INCR and EXPIRE
as separate calls, reports in between. When the reply of an INCR is lost, the client
sends it once more at most (`resent`), and then the call raises. Time passes
between any two calls of a request, at most `MaxDelay` in all.

**SnapshotCache** (`app/snapshot_service.py` 49-106). One table: the database's
rows change at every tick, so that rows are named by the time they were read.
Threads refresh (read, store in memory, SETEX), a reader looks into memory, then
into redis, and stores what it finds in memory with a fresh lifetime. The rows of a
refresh are served, too, if calls wait for it in the queue (`HandOver`). A restart
forgets memory.

**TokenCache** (`app/auth.py` 131-226). Dictionary operations of threads, one by
one, for one token whose row changes, comes and goes under them.

**RequestPipeline** (`app/main.py` 69-122, 140-191; `app/db.py`) composes one
process: it extends TokenGate, instantiates QueryQueue for the gate's token, and
adds the pool. A request goes through the dependency (`Depend`), asks the queue at
its second conflict check (`Ask`, `Wait`), and passes the other checks
(`CheckPoint`) until its release (`Free`). `Get` and `Put` are `getconn` and
`putconn`; a request holds a connection while it loads its row, a thread while it
refreshes, and an abandoned thread takes its connection with it (`Orphan`).
`ShutDown` and `Die` end gate, queue and pool together. The warm loop stays in
QueryQueue.

**SeedAdmin** (`app/auth.py` 752-861, `app/db.py` 33-49). Booting processes in
transactions with the waits of PostgreSQL's unique indexes, failures, crashes and
the administration that disables or deletes the token.

**Migration** (`start.py` 9-27, `alembic/env.py`, `alembic/versions/001`). An upgrade
is one transaction on three objects: the version table, the `auth_*` tables and
the version row. Each is absent, committed, or created by a process that has not
committed. `CREATE ... IF NOT EXISTS` sees committed objects only, waits for
whoever is creating the same one, and raises if that one commits.

**Boot** (`start.py` 30-38, `app/main.py` 20-32) extends SeedAdmin and instantiates
Migration: a process upgrades or skips, then imports the application, which seeds,
then serves; it may fail or die anywhere. An operator may take the schema down
(`DropTables`), and with it the rows.

**FingerprintFile** (`sdk/finsight_data/fingerprint.py`). Sources tried in turn, of
which commands may fail for once; then the file, with opening (which empties it)
and writing as two steps; then the network address.

**FilterRows** (`client.py` 59-63, `app/main.py` 90-91, `snapshot_service.py`
108-143). Operators: a list of codes joined, parsed, applied; keyword, type, slice.
A list comprehension is `RowsAt`: the rows at the places that meet the test, by rank.
`Asked` is the reference: what the caller means, row by row.

**SdkSession** (`sdk/finsight_data/client.py`) extends FingerprintFile and FilterRows:
programs identify their machine, bind or meet the device check of one token, and collect a
table page by page while refreshes replace the rows. The check and the UPDATE that binds
are two steps, and the UPDATE replaces whatever device the row has by then. A context
may name any device the row has held, or none, which includes every stale or shared
context; the contexts themselves are in DeviceBinding.

**ReleaseUpload** (`sdk/build_release.py`, `upload_release.py`, `release_common.py`).
Every checkout has a release directory of its own, shared only by the containers that
mount it. Builds put wheels into it and check all that lie there, somebody collects
wheels from other checkouts by hand (`Collect`, the repository's README.md 343-355,
420-427), uploaders send what lies in theirs; PyPI accepts late and its index shows
later. The notes a build writes have no content here: no script reads them.

`<name>Proofs` holds the proofs about `<name>`; `RequestPipelineProofs` also those
about TokenGate, which it extends, `BootProofs` those about SeedAdmin and Migration,
of which Boot consists, and `SdkProofs` those about FingerprintFile, FilterRows,
SdkSession and ReleaseUpload. `MC<name>` gives the constants of
`<name>` to TLC.

## 3. The runs

| run | what it shows | bounds | distinct states |
|---|---|---|---|
| `queue_safety` | one job per table, no lost wake-up, one settlement per future, cancellation only by a peer's timer, exact waiter counts, refusal only for a queue full of others; the queue implements `SharedFlight` | 3 calls of one token with a quota of 2, 2 tables, queue of 1, 2 workers, 1 warm table | 278,900 |
| `pipeline` | no connection is lost; behind the gate a token never meets its queue quota; everything that was begun ends | 2 requests with 3 checks, 1 table, 1 worker, 2 connections, queue quota below 1, TTLs 2 and 1 | 377,861 |
| `gate_safety` | two active requests only after a lock ran out; a request speaks of its own lock; an accused holder is not served | 3 requests, 2 checks each, TTLs 3 and 1, delay 1 | 1,422,453 |
| `binding` | remaining rebinds exact in the row, contexts never too strict, no unbound device admitted; one at a time the documented rules hold | 3 requests, 2 devices, all four modes, budget 2, lying commits | 2,899,793 |
| `binding_budget` (violated) | two rebinds at once exceed a budget of one | 3 requests | |
| `quota` | limits, refusals, orphan counters, reports | 3 requests, windows of 2 and 3 ticks, keys one tick longer, delay 1, 3 ticks, one repeat of each INCR, 3 profiles | 847,549 |
| `snapshot_cache` | age of served rows; when served rows may go back in time | 2 threads and a reader, memory 1, redis 3, job 1, GET 1, 7 ticks | 680,751 |
| `token_cache` | age of the state a request is judged by; alone, no false "unknown token" | 3 requests, lifetime 1, load 1, 5 ticks | 6,018,459 |
| `token_cache_missing` (violated) | an existing token is reported missing | 2 requests | |
| `boot` | one seed token, the same committed one offered by every boot, audit event unless the issuer died; no version row without tables, no service without a schema | 3 processes, 5 boots, 1 deletion, new or older database | 297,736 |
| `sdk_session` | an identifier names a machine, the file settles, nobody locked out before a program of another machine has bound the token, pages exact | 3 programs on 2 machines (one under WSL, one without any source), 5 fetches with pages of 1, of 2 and without limit, 2 snapshots of 3 and 2 rows | 1,264,765 |
| `release` | success means published; published means checked, as long as no build failed or was underway | 3 platforms and 2 uploaders in 2 checkouts, 2 builds | 1,957,582 |

Why these bounds: every conflict in this code is between two actors and a third
that disturbs them (a second waiter whose timer cancels, a third request after an
overrun lock, a third rebind of a budget of two), so three of each meet every
pairwise race with a witness. In `pipeline` two requests suffice, since what a
third one adds to the gate and to the queue is in their own runs; two connections
let an abandoned thread and a job exhaust the pool. Two tables are enough to tell
"its own" from "another's", and one more than the queue of one holds. A queue
quota below 1 is taken as 1, the tightest one. Time constants keep the
order of the deployed values: lock 90 s > token cache 5 s + delay; counters 90,
3700 and 90000 s outlive their windows; redis lifetime > memory lifetime. Clocks
stop at `MaxTime`, which exceeds the longest chain of lifetimes the properties
add up. Two builds are a build and its repetition, or one for each of two platforms, in one
checkout or in two.
Requests, workers and processes are symmetric in the safety runs; no symmetry is
used for liveness. `boot` and `sdk_session` turn the deadlock check off, because
boots are bounded and programs finish; every other system runs for ever or says
where it ends (`Terminated`).

## 4. Fairness

Only `pipeline` states fairness (`PipeFairness`), for `ComesToRest`. It assumes weak
fairness of what is scheduled whatever the database does: the event loop runs what
is ready and fires its timers (`Ask`, `Wait`, `CheckPoint`, `StartJob`, `ReportJob`,
`AbandonJob`), a request that has begun gets on with the dependency and its exit,
whose calls have socket and statement timeouts (`Advance`, `Free`), a thread
without a connection fails (`FailJob`), and time passes, so that keys expire. These
steps are grouped by request and by worker, since in each state at most one place
of a request can go on. Nothing is assumed of a thread that has a connection: its
statement may hang, and the job ends by the worker's own timer. Nothing forces a
request to come, a process to die or the service to stop. Every request is made
once, so that "eventually for good" is the same as "each one ends".

## 5. What is proved

TLAPS checks the following for all values of the constants, under the named
assumptions of the modules.

`QueryQueueProofs`: the inductive invariant is the conjunction of typing, of
`SingleFlight`'s four parts (a table is at most once in the queue, on at most one
worker, not on both, and pending exactly when it is on one of them), of the link
between futures and the pending map (an open future is the pending entry of its
creator's table, and nobody waits on a future that does not exist), and of the
verdicts (what a call was told agrees with the fate of its future). None of them
is inductive alone: that a worker's `_resolve_pending` wakes the right future
needs that no second job of the table exists, and this needs that the pending
entry is removed by that job only. From it follow `SingleFlight`,
`NoLostWakeup`, `SettledOnce`, `CancelledOnlyByPeer`, and the refinement
`FlightSpec`. `TokenWaitersExact` is proved from typing by counting with the
cardinality of finite sets; `FullOnlyOfOthers` by the pigeonhole principle: a queue
without repetitions is no longer than the set of the other tables with a pending
refresh, which holds whatever is queued.

`SnapshotCacheProofs`: typing, and `BoundedStaleness`: whatever the number of
threads, what memory serves is younger than job + redis lifetime + GET + memory
lifetime. The invariant bounds the age of each of the four places rows can be in:
in a refreshing thread, in redis, in the reader's hand, in memory. `NoRegress` is
proved where a refresh stores within a memory lifetime what it has read (deployed:
30 s against a statement of at most 8 s and a SETEX with its retry): then memory is
still fresh while a thread is between its two stores, so no reader can fetch the
older rows from redis, and otherwise redis has what memory has (`StoredIsInMemory`,
`InStep`).

`RequestPipelineProofs`, the gate: typing, `Exclusive`, `ContextIsMine` and
`AccusedNotServed`, for all TTLs with lock > cache + delay (`TimeAssumption`;
deployed: 90 s against 5 s and the few seconds of the dependency). An active request
that was not overrun holds the lock (`HolderHasLock`), which gives `Exclusive`.
`ContextIsMine` is not inductive: a second request may hold the same context object
and write its id into it once granted. `CacheIsEarly` and `SharerIsEarly` bound the
lock's age while the context can still be taken from the cache, or has been taken by
a request that has not asked yet; the lock is then still alive, so the second
request is refused. `AccusedIsMarked` says that the mark lives as long as the lock.

`RequestPipelineProofs`, the process: for any finite sets of requests, tables and
workers, any pool, any queue of at least 1 (config.py 67, 83) and any quota.

- `PipelineImplementsGate`: every behaviour of the process is one of TokenGate; the
  wait for a snapshot, the refreshes, the pool and the shutdown are stuttering steps
  of it, and the death of the process is its `Crash`. So the gate's invariants hold in
  the process (`PipelineGate`).
- `PipelineRunsQueue`: until it dies, the process takes QueryQueue's steps only. The
  proof cites the step lemmas of `QueryQueueProofs` through an instance of it with
  the pipeline's variables. A death is no step of the queue, since it drops waiting
  calls with their process; `QueueDies` re-establishes the queue's invariant behind
  it. So `TokenWaitersExact`, `SingleFlight` and `NoLostWakeup` (`PipelineQueue`) and
  `FullOnlyOfOthers` (`PipelineFull`) hold of the composed process, under its pool
  failures and deaths, and not only of the queue alone.
- `QuotaInvariant`: `QuotaOutOfSight` needs both halves. A call that finds its quota
  exhausted finds another of its token's calls waiting, since the count is exact and
  the quota is at least 1. That call's request is at its second check (`WaitsStep`),
  hence active; so is the one that asks; and two active requests overrun a lock.
- `PoolInvariant`: `used` is the number of connections held by requests and threads
  that are at the database, and of abandoned threads. The last is the cardinality of
  the union of the tables' numbered threads (`Orphans`): `OrphanAdded` and
  `OrphanGone` count it one up and one down, and `GetKeeps`, `PutKeeps` and
  `NoneKeeps` carry the balance through every place at which a connection is taken,
  returned, refused or left to a thread.

`DeviceBindingProofs`: typing, `RemainingExact`, `ExhaustedOnlyWhenSpent` and
`AdmittedWasBound` for any number of concurrent requests. `ContextsLag` is the
strengthening: neither a context nor a count a request is about to write into one
is smaller than the row's, since the row is decremented first. `BudgetWhenCalm` and
`NoTakeoverWhenCalm` follow from `CalmInv`: one request at a time, the context in
use and the cached one agree with the row, except between an UPDATE and the
invalidation that follows it.

`TokenCacheProofs`: typing, `BoundedStaleness` (an entry's row was seen at most a
load before it was stored, and an entry lives for one lifetime) and
`MissingWhenAlone` (nothing is stored while the only lookup is between its look
and its test).

`RateLimitProofs`: `WithinLimit`, `RefusedOnlyWhenSpent`, `NoOrphanCounter` and
`SpentIsSpent`, for any number of requests and windows, any limits, and counters that
outlive their window by the delay of a request (`WindowsAssumption`; deployed: 90 s
for a window of 60 s, and so on). A key is *closed* when no request that computed it
can still be under way. `TimeInv` says that a key with an expiry exists until it is
closed, so that `CountInv` holds: until then its counter is at least the number of
requests it has accepted. `SpentInv` is the other direction, for refusals: a counter is
at most the number of requests that left a mark on it and of the INCRs sent twice.

`BootProofs`: all safety properties of `boot`, for any number of processes, boots and
deletions. `MigrationInv` says what a process has in its open transaction at each
place of the upgrade; `StampedIsThere` needs it because the version row is committed
together with tables that only this process knows of. `OneSeedToken` rests on
`RoleInv` and `SingleInv`: the row of the role in `auth_user_role` is where boots
queue, so that whoever is past it holds it or has found it committed, and then a
token with it. `SameTokenOffered` follows: what a process offers when it is up is a
committed token, and of those there is one. `LinkInv` ties the two: a transaction of the seeding holds the tables
against a downgrade.

`SdkProofs`, the client: `IdNamesMachine`, `FileSettles` and `LockedOutByAnother` for any number
of machines, programs and sources, where no two machines share an identifier
(`IdsAssumption`). `SourceInv` says what an undisturbed program knows of the sources
it has tried: they are silent, so that whoever stops at one has stopped at the first
that answers, and whoever takes the file met none. `LockedOutByAnother` follows from
the identity and from `BoundInv`: whoever has written its device to the row had an
identifier, so that a refusal by a device of an undisturbed program's own machine would
compare an identifier with itself. `FileInv` says that an undisturbed
file has one creator and is empty only in its hands. `PagesExact` is proved for all
snapshots of distinct rows, all queries and all page limits (`SnapshotsAssumption`,
`QueriesAssumption`): `MatchingIsAsked` says that `filter_rows` selects the rows the
caller asked for, in the order of the snapshot. The proof needs no induction, because
`RowsAt` places a row by the rank of its index, and the ranks of the indices are a
bijection (`Ranks`, from the library's facts on cardinalities). The invariant
`PagesInv` says that a client whose snapshot has not changed holds the first of the
matching rows, and `SliceContinues` that a page continues them and is empty only after
the last. For the releases,
`SuccessMeansPublished` and `PublishedIsChecked` for any number
of platforms, uploaders, checkouts and builds: a wheel an upload has listed
is published or still queued (`BatchInv`), and one that fails the check lies in
a directory only until its build is at the check (`SoundInv`).

Every safety invariant and action property of the passing runs is thus proved for
all constants that the assumptions admit. Only model-checked: `ComesToRest`, since
liveness under fairness is out of the prover's reach. The fairness of `pipeline`
is assumed of the model's actions; that each is enabled when the code says
so is left to TLC as well (`ENABLED`). The assumptions are checked by TLC on the
constants of each run.

## 6. Findings

Checked, with a run that exhibits each:

- `binding_budget`: the budget of rebinds is tested on a cached context and the
  UPDATE has no condition, so simultaneous rebinds exceed it (auth.py 317-330).
  `BudgetWhenCalm` shows that one request at a time never does.
- `token_cache_missing`: `_cache_get` followed by a membership test reports an
  existing token as missing when another thread stores it in between
  (auth.py 148-150).

Met while modelling, described by the models without a run of their own:

- Two first requests from two devices: the second bind replaces the first without
  consent (auth.py 292). `NoTakeoverWhenCalm` is the part that holds.
- A device is bound by the first request that passes the device check, even if
  the rate limit or the gate then refuses it (auth.py 573 against 675-676;
  sdk/README.md 232 speaks of the first successful request).
- A request at work longer than the lock's 90 s overlaps the next one
  (auth.py 620; sdk/README.md 247). `Exclusive` says that nothing else can.
- README.md 245 says that an administrator's token has no quota; a positive limit
  is enforced for it (auth.py 580, 589-602).
- A boot re-activates a seed token that was disabled (auth.py 797-824).
- A request refused by a longer window has been charged to the shorter ones.

Some properties speak of the undisturbed case, and the hazard itself happens in the
code. These are in the models' behaviours but no property excludes them, as their
entries in `PROJECT.json` say: overlapping refreshes and a failed SETEX bring older
rows back (`overlapped`, `unshared` in `NoRegress`); a failed EXPIRE leaves a counter
for ever (`NoOrphanCounter`); a mark set between GET and DEL of another holder is lost
once a lock has run out (`overrun` in `AccusedNotServed`); a boot that dies after its
commit leaves a token without an event (`unrecorded` in `AuditTrail`); two creators of
the id file, an empty file and a command that times out once change a machine's
identifier (`disturbed` in `IdNamesMachine`); a refresh between two pages loses or
repeats rows (`steady` in `PagesExact`); a wheel that failed its check stays in the
directory (`tainted` in `PublishedIsChecked`).

## 7. Not modelled, and what is left

Left out for good: wording, logging, payload layout, SQL text, YAML parsing,
static pages, `time_utils`, `logging_utils`, the deprecated `schema.py` and the
unused `ban_token`, `ensure_user_exists`, `get_admin_dashboard_dependency`; alembic's
offline mode, which prints SQL; the content of a release's README.md, which lacks the
wheels of other checkouts until they are collected, and which two builds of one checkout
may write in the other order than they have listed the directory; the Cython build and the file `~/.pypirc`, which
change no state the scripts read again.

Left for later:

1. The warm loop in `RequestPipeline`, and the default executor as a bounded
   resource: abandoned threads occupy it until their statements end. Today both are
   modelled apart, the warm loop in QueryQueue, the threads by their connections.
2. Redis calls on the event loop (`ensure_request_not_conflicted`,
   `get_cached_snapshot`): they block it for up to two socket timeouts, which delays
   the timers of all waiters. The models let a timer fire late, but do not tie the
   delays of different coroutines together.
3. The bump of the version in two files (release_common.py), as two steps that
   two machines repeat.
4. `project_row` (tables.py), the copy of the public columns.
