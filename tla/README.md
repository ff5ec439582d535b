# boomtime: TLA+ models and proofs

boomtime is a Go service that collects coding activity (WakaTime-style
heartbeats), imports history from wakatime.com, syncs reading data, and runs
background jobs, on one or several pods that share a PostgreSQL database.
This directory models the parts in which several actors change the same state,
checks them with TLC on small instances, and proves the main results with
TLAPS for every instance.

Contents: [inventory](#inventory) · [job queue](#job-queue) ·
[dispatch](#scheduler-and-limiter) · [importer](#importer) ·
[heartbeat ingest](#heartbeat-ingest) · [books](#books) ·
[caches and awards](#caches-and-awards) · [runs](#runs) · [theorems](#theorems) ·
[disagreements](#where-code-and-comments-disagree) ·
[limits](#what-is-not-modelled) · [plan](#plan)

## Inventory

| Part | State | Operations | Talks to | What is hard | Correct means |
|---|---|---|---|---|---|
| Job queue (`internal/jobs`) | table `jobs`; per pod: worker slots, `cancels` map | enqueue, claim, heartbeat, complete/fail/retry, give back, reap, admin cancel, shutdown | handlers, limiter, notifier | runs that lost their lease, reaper against slow worker, lost replies, dying pods | one owner per claim, attempts charged once, terminal rows final, every job ends |
| Scheduler (`jobs/scheduler.go`) | table `job_schedules` | claim due kinds, skip if pending, enqueue | queue | several replicas, crash between claim and enqueue | at most one periodic row of a kind pending, the kind runs again and again |
| Kind limiter (`jobs/limiter.go`) | sorted set of holders in Redis, or counts in memory | acquire, refresh, release, list full kinds | queue | TTL prune of live holders, shared holder names | running handlers of a kind ≤ cap |
| Importer (`boomtime/importer`, `boomtime/admin/import.go`) | table `import_jobs`, goroutine and `running` map per pod, event hub | submit, run day by day, cancel, sweep, recover at boot, stream | wakatime.com, ingest, key store | two submits, cancel against each statement, sweeps of live runs, events and snapshots | live runs keep their lease, verdicts are true, events are true, owners are not locked out |
| WakaTime key store (`identity/wakatime_key.go`, `db/wakatime_key.go`) | key and status per user | probe and save, delete, status after an import | importer | edits during a run | a saved key was accepted |
| Heartbeat ingest and derived data (`shared/db/ingest.go`, `health.go`, `curation.go`) | `heartbeats` with `gap_seconds`, `hb_rollup_daily`, users' zone | save batch, save workouts, raw save, resync, change zone, apply/purge rules | importer, clients, curation, dashboards | order of arrival, overlapping transactions, day boundaries, partial rebuilds | gaps and rollup equal what a full recomputation would give |
| Response caches (`shared/cache`, `apihelpers`), goal progress (`boomtime/goals`) | TTL map per replica; `last_progress` in the goal's row | look up, compute, store, invalidate, sweep | ingest, curation, statistics | a late store after an invalidation, other replicas | an answer hides no write for longer than the TTL and one read |
| Awards (`boomtime/awards`, `db/award_ledger.go`) | ledger of periods a label fired in | visit, replay, log, walk back | labels, zones | changes of zone and period, replays in any order | the streak is the number of consecutive periods |
| Audible sync (`books/ingest/audible`) | `reading_items`, cursors in `book_sync_state` | library sweep, finished sweep, announce, backfill | Audible, Hardcover push, notifications | events uploaded late, failing and overlapping runs | a finish is announced once and not missed for more than a day |
| Kindle reading time (`books/ingest/kindle`) | position samples, monitor state, day buckets, a counter | poll, monitor pass, recompose | Amazon's sidecar, metrics | two writers of one bucket, cut passes | buckets equal what the samples prove |
| Hardcover shelf (`books/connect/hardcover`, `books/api`) | override layer, link, echo stamp of a `reading_items` row | edit, finish, three pushes, pull, match sweep | Hardcover, Audible sync | echoes of our own writes, lost and late pushes | local edits stand, one read per finish, both sides agree in the end |
| Liberation (`books/liberate`) | liberation columns, library files, work directories | license, download, remux, commit, forget, sweep | Amazon, ffmpeg, file systems | overlapping runs, shared names, interruption | what is recorded is the whole audio of that title |
| Identity (`internal/identity`, `shared/auth`) | users, tokens, sessions | login, refresh, OIDC link, keys | all handlers | token rotation | |
| Hubs (`jobsevents`, `notify`) | subscriber channels | publish, subscribe | queue, web | dropped events | |
| Statistics, query engine, labels, spaces, images, widgets, server, web, watch app | settings; nothing shared that changes concurrently | reads, CRUD, rendering | | | |

`PROJECT.json` lists every part with its sources, and the hazards at their
lines.

## Job queue

Modules: `JobStore` (the statements of `store.go` as functions from row to
row), `JobQueue` (slots, reaper, admin, pods), `JobLifecycle` (the promise),
`JobQueueProofs` (with the refinement), `MCJobQueue`.

| Model | Code |
|---|---|
| `row[j]` | a row of `jobs`; `stale` says its `heartbeat_at` is older than the reaper's TTL, `due` that `run_at` has passed |
| `run[s]` | a slot in `runLoop`: claimed, handler running, handler returned, deferred clean-up; with the copy of `attempts` from the claim |
| `cancels[p]` | the map of `CancelFunc`s of a provider, by job id |
| `signals` | an admin cancel between `MarkCancelled` and `provider.Cancel` |
| `ClaimNext`, `ClaimReplyLost` | the claim; its answer may be lost after it commits |
| `Throttled`, `StartRun` | `runJob` with the limiter full / free or unreachable |
| `HandlerReturns`, `RecordOutcome`, `RecordOutcomeError` | `execute`: the result, the guarded write, the write that answers with an error whether or not it took effect |
| `ReapStaleRunning`, `LeaseExpires` | the reaper's statement; a lease may expire under a run that is merely slow |
| `Shutdown`, `Exit`, `Crash`, `Restart` | SIGTERM, `Run` returning, a killed process, the orchestrator |

`JobLifecycle` is what a producer may rely on: a job is open until it is closed
exactly once, `done` only after a start, and started no more often than
`max_attempts`. `JobQueue` implements it (`ImplementsLifecycle`, with
`phase` and `budget` read off the row).

`ClaimByID` of `store.go` has no caller and is left out.

## Scheduler and limiter

Modules: `JobDispatch` (on the rows and statements of `JobStore`),
`JobDispatchProofs`, `MCJobDispatch`.

| Model | Code |
|---|---|
| `interval[k]`, `next[k]` | a row of `job_schedules`; `next` counts down to `next_run_at` |
| `sem[<<p, j>>]` | the age of holder `pod:job` in the sorted set of the kind |
| `Boot`, `Rescheduled` | `RegisterSchedules` before `Run`: the earlier of the old and the new `next_run_at` stands |
| `ClaimDueSchedules`, `CheckPending`, `EnqueuePeriodic` | `fire`: the claim advances the period for all pods, then a check and an INSERT per kind, either of which may fail |
| `Trigger` | the admin endpoints, which check nothing |
| `ClaimNext`, `Acquire`, `HandlerEnds` | `runLoop` and `runJob` with the scripts of `limiter.go`; a count or an acquire that fails lets the job through |
| `Stop` | SIGTERM, where the deferred releases still run, or SIGKILL, where holders stay until the TTL |
| `Tick` | `slotRefreshInterval`: held slots are stamped unless that fails |

Two histories name the ways the code itself accepts to exceed its limits.
`loose` holds kinds for which a limiter call failed open, a holder was pruned
under a live run, or a live run lost its lease; `stacked` kinds whose pending
check failed, or whose scheduler was still between claim and enqueue when the
next period was claimed. Outside of them `CapIsKept` and `PeriodsCoalesce`
hold for every restart, crash and retry.

## Importer

Modules: `ImportStore` (statements of `importjobs.go` and `wakatime_key.go`),
`ImportJob` (requests, runs, cancels, keys, streams, pods), `ImportProofs`
(the lease, verdicts, events, keys), `MCImportJob`.

Handlers are split at their statements: `SubmitSweep`, `SubmitCheck`,
`SubmitCreate`, `StartJob` are POST /import; `RunStarts`, `FetchLookups`,
`ImportDay`, `WriteProgress`, `FinishRun` (with `FailLookups`,
`FinishCancelled`, `ApplyKeyOutcome`) are `Worker.run`; `ImportJobCancel` and
`CancelDurably` the cancel handler; `StreamLoad`, `StreamSubscribe`,
`StreamSnapshot`, `StreamDeliver` the WebSocket. A statement on the run's
context fails when the context is done, or by a `Fault`; one that fails may
have taken effect. `answers` and `stored` are histories: whether wakatime.com
accepted a key or answered 401, and in which run (`NoJob`: a probe of the key
form), and the days whose heartbeats were stored. A run has *proved* a key if it
was accepted and none of the run's requests was answered 401 (`Proved`).
`KeyOutcomesAreEarned` asks this of the very run that saves a key or calls one
valid, not of some run at some time, and a 401 of the run that calls one invalid
(`Earned`). Which key is then called so is another matter: a run's verdict lands
on whatever key is saved at its end, over an edit or a deletion meanwhile (see
disagreements).

Time: a tick is the 60 s timeout of the HTTP client, so a look-up takes at most
two ticks (two requests) and a day one. Statements take no time at this scale:
`Tick` waits for them. This is an assumption about the database, not something
the code enforces. The lease is 10 ticks in the code; the model and the proofs
need `3 + MaxFaults <= Lease`.

## Heartbeat ingest

Modules: `HeartbeatStore` (gap recomputation and rollup as operators),
`HeartbeatIngest` (writers of one sender), `IngestProofs` (on the facts about
sums of `FiniteSums`), `MCHeartbeatIngest`.

A writer (`tx[w]`) is a transaction: `own`, `cleared` and `made` are its
uncommitted rows and keys, and `View(w)` what its statements see under READ
COMMITTED. `UPDATE`, `DELETE` and `INSERT ... SELECT` are each two actions, the
read of the snapshot and the write after the wait for row locks; a taken
primary key leaves only `Rollback`. `Window`, `Lag` and `RecomputedGaps` are the
CTEs of `recomputeGapsUntil`; rows of one instant may be ordered either way
(`Leaders`). `Aggregate` is the `SELECT` of `refreshRollup`. A resync commits
its gaps before it rebuilds the rollup, a change of zone commits the zone
first; `ApplyRenameRule` and `PurgeHiddenRule` change rows and refresh nothing.

`stale` is a history variable: it records when the derived data may differ
because nothing was meant to maintain it (raw saves, curation, a failed
rebuild) or because operations overlapped. `GapsAreExact` and `RollupIsExact`
compare the incremental results with the reference (`ExactGaps`,
`ExactRollup`: one pass over all rows) whenever it is not set.

For the rollup, saves that overlap are *not* exempt. The run shows that it still
equals the sum of the committed rows, and `RollupStaysExact` proves it: two refreshes that count a common key
cannot both commit, because the second finds the key taken and fails. (With
`ON CONFLICT DO UPDATE` in its place the property breaks.) The exception is a
batch that re-sends a beat under another machine while another save overlaps:
the key it moved the row away from can survive. For gaps there is no such
guard, see below.

## Books

**Shelf** (`ReadingStore`, `ShelfSync`, `ShelfProofs`). `ReadingStore` is one row of
`reading_items` and its statements: the derived layer, the override layer with
its clock `cur`, and the echo stamp (`pushedAt`, `pushedStatus`). `ShelfSync`
adds the reader, Hardcover's `user_book` (`shelf`), the curation push and the
finish push statement by statement (`Load`, `Write`, `UpsertRead`, `Record`),
the progress push, the pull (`Fetch`, `Reconcile`, `ListDiverged`,
`BulkUpsert`, `Mirror`) and the match sweep (`Link`). Timestamps are only
compared, so after every step they are replaced by their ranks; whether two of
them are further apart than `hardcoverEchoSkew` is open. `Converges` holds with
every overlap and fault. `LocalEditStands` and `OneReadPerFinish` are stated
for jobs that took turns and whose writes were recorded (`latest` is not
`Unclear`): the other cases do go wrong and are listed under the disagreements.

**Liberation** (`Liberation`, `LiberationProofs`). A run goes through the stages of `LiberateBook`;
the commit is a rename on one file system, and across two
`ClearPartial`, `CreatePartial`, `CopyChunk`, `RenamePartial`, since all runs to
a path share the name `dst.partial`. A file is a title and the chunks copied so
far, and a run that has it open goes on writing wherever it was renamed to.
`Interrupt` is a cancelled context, recorded under a context of its own;
`Kill` a process that dies. `tangled` (commits to one path overlapped) and
`stranded` (a run ended without a word in the row) are histories.

**Audible** (`AudibleSync`; proofs in `ComponentsProofs`). `SyncUser` and `BackfillUser` in their statements:
the library sweep if it is due, `ReadPrev` and `MarkReadingItemFinished` of the
finished sweep (a CTE that reads and an update that waits), announcements, and
the cursors. Events of an offline player are listed under the time they
happened. `overdue` are the books done at the last midnight between runs.

**Kindle** (`KindleReading`; proofs in `ComponentsProofs`). Poll and monitor sample the furthest page and
rewrite the buckets of the days they have samples for. `ComposeSessions` is the
gap-sum of `composeSessions`; `PollRepairs` compares it, split at midnight, with
`ReadingTime`, which counts instant by instant.

## Caches and awards

`ResponseCaches` follows one entry: a key of the in-memory cache of a replica
(`cache = "stats"`) or the progress in a goal's row (`"goals"`). A read looks,
queries, stores and answers in separate steps; a write commits and invalidates
in separate steps, on the same replica or, for activity, only in the goals. A
payload is the versions it was computed from.

`AwardStreaks` is the ledger of one label: `Visit` and `VisitLogs` of
`OwnAwards`, the replay day by day, `AwardsLog`, a change of zone and of the
label's period. `LabelStreak` is the walk of `GetLabelStreaks`;
`ConsecutiveHits` counts periods from the instants that were logged.

`MCComponents` instantiates these two, liberation, Audible and Kindle in one
specification. They share no state, so a behaviour is of one of them (`part`)
and the others rest: the run is the union of five state spaces, not their
product. `ComponentsProofs` proves that each behaviour of it is one of every
component (`PartsBehave`), and has the theorems about Audible, Kindle, caches and
awards.

## Runs

| Run | Expect | States | Checks |
|---|---|---|---|
| `queue_lease` | pass | 736 k | one job, three slots on two pods (two on one of them), one of two kinds unknown to a pod, 0 or 3 attempts asked for, one stop |
| `queue_live` | pass | 10 k | `EveryJobEnds`, `ShutdownEnds` with a server and a worker that split the kinds, two stops |
| `dispatch_cap` | pass | 882 k | the cap and the coalescing: a periodic kind with cap 1, an admin, two pods with different intervals of which one restarts, one fault |
| `dispatch_live` | pass | 89 k | `PeriodicKindRuns` with a pod that restarts for ever |
| `import_lease` | pass | 748 k | lease, sweeps and verdict: two pods, two requests, ranges of 0 and 3 days, one fault, one stop, one cancel |
| `import_events` | pass | 4.4 M | `TerminalEventsAreTrue`, `KeyOutcomesAreEarned`: a run of two days, each stored, failed or refused, typed, saved and server keys, one edit, one cancel, one fault, a stream with a channel of two |
| `import_live` | pass | 429 k | `OwnerIsUnblocked`: two jobs of one owner on two pods, one stop or crash, after which the pod may stay down, and one fault |
| `ingest` | pass | 596 k | in turns: five beats (two of one instant, one a workout), two labels, two zones, batches of up to two, three operations of seven kinds, a failure anywhere; overlapping: three beats, two writers, four saves or resyncs, interleaved by statement; up to a swap of the labels |
| `shelf` | pass | 240 k | one book, two statuses, three events of at most two edits on either side, one step of progress and one fault, dry-run or not |
| `components` | pass | 1.3 M | the five components of `MCComponents` |
| `liberate_harmless`, `liberate_denied` | violation | | see disagreements |

**Why the bounds are enough.** Queue: the races are between one row and a run
that lost it, the run that has it now, the reaper and the admin; three slots
give a stale run, its successor on the same pod and one on another. Three
attempts allow two losses of a lease and an end. Importer: a range of three days
has a first, a middle and a last progress write; with one fault the lease is at
its limit (`Lease = 4 = 3 + MaxFaults`). For keys a range of two days is the least
with an accepted and a refused day in one run; an acceptance from elsewhere,
which must not count, is that of a probe of the key form. Liveness needs the second pod: the row
of a pod that died for good is swept by the other. Ingest: a wrong window shows with one
beat before, one in and one behind a batch; five beats and three operations
give each, with ties; days are two units long, so zones move beats across
boundaries. Overlap needs two beats of one day and one of the day before, and four
operations: a save, two that overlap, and the resync that repairs. Dispatch: time is relative (`next` counts down, holders have an
age), so the clock is unbounded; two rows and a TTL of two ticks give a periodic
row beside a triggered one, and a holder that outlives its run. Shelf: two
edits are the least with which an older value can come back over a newer one;
`"read"` and `"dnf"` because a finish promotes to the first and the reader may
disagree. Liberation: two titles of one path, two runs and two jobs, two chunks
(so that a copy can be half done), one forget, one interruption. Audible: two
books and two finishes, one before and one behind the cursor. Kindle: a day of
three ticks, so that a session crosses midnight. Caches: two reads, one write of
each kind, a TTL and a slowest read of one tick. Awards: days of two ticks,
weeks of two days, two zones half a day apart. `CHECK_DEADLOCK FALSE` stands where the bound on ids or operations
ends a behaviour.

**Fairness.** Queue: weak fairness of a live pod's loops (claim, clean-up,
reaper's ticker), of handlers returning, statements answering, time passing and
the orchestrator restarting a pod; strong fairness of starting, because a slot
that loses the limiter race tries again and limiter slots are freed by every run
that ends and by their TTL. Nothing is assumed of producers, admins or
heartbeats. Importer: weak fairness of accepted requests, of goroutines, of the
database part of a cancel, and of time. Nothing is assumed of users, so
`OwnerIsUnblocked` is conditional on the owner submitting again and again; nor
of pods, so a pod that is down may stay down. Dispatch: as the queue; strong
fairness of claiming a due schedule and a row, because loops on other pods may
take either first and the ticker comes round again. The pod that stays up is an
assumption (`Stable`); the other may restart for ever. Shelf: weak fairness of
queued pushes, of the scheduled pull, of the match sweep and of a listed
progress push, because the queue runs what is queued (`EveryJobEnds`), the
schedule comes round (`PeriodicKindRuns`), and a client timeout ends every
request. Nothing is assumed of the reader.

## Theorems

| Theorem | Says |
|---|---|
| `TypeCorrect` | `TypeOK` of the queue |
| `TerminalRowsAreFinal` | a done, failed or cancelled row never changes |
| `BudgetIsKept` | `attempts <= max_attempts`, and a queued row has one left |
| `GuardIsExclusive` | at most one run passes the guard of a row: that of the latest claim |
| `CancelIsPrecise` | a cancel never reaches a finished run or another job's |
| `LiveClaimsStand` | a claim ends by its own run, an admin, or the reaper after the lease |
| `EveryStartIsCharged`, `StartsAreBounded` | handler starts ≤ `max_attempts` |
| `QueueImplementsLifecycle` | the refinement |
| `LeaseHolds`, `SweepsAreSafe` | a live import is never taken for abandoned |
| `ImportTypes` | `TypeOK` of the importer |
| `CompletedIsImported` | a row says completed only if a day was stored or there was none |
| `TerminalEventsHold` | a stream is told of an end only when the row has ended for good |
| `KeysAreEarned` | an import saves a key, or calls one valid, only if its run was accepted and answered no 401, and invalid only if it was |
| `DispatchTypes` | `TypeOK` of scheduler and limiter |
| `CapHolds` | running handlers of a kind ≤ cap, unless the kind is `loose` |
| `PeriodsHold` | at most one scheduled row of a kind is open, unless it is `stacked` |
| `ShelfTypes` | types of the shelf sync; times are ranks of at most four |
| `DecisionsStand` | no push and no pull replaces the reader's last decision, while jobs take turns and are recorded |
| `FinishesLeaveOneRead` | one read per finish, under the same condition |
| `LiberationTypes` | types of liberation, with the shape of a run at each stage |
| `RowsInFlightAreAlive` | a row in flight has a run at work on it |
| `LiberatedTitlesAreWhole` | what a row records is the whole audio of its title, unless commits to one path overlapped |
| `IngestTypes` | `TypeOK` of the ingest |
| `GapsStayExact` | every gap is what a pass over all rows would give, unless something in `stale` happened |
| `RollupStaysExact` | every row of the rollup is the sum of its beats, and no key is missing, under the same condition; also when saves overlap |
| `AudibleTypes` | types of the Audible sync, with what a run holds at each stage |
| `FinishesAreAnnouncedOnce` | a finish is announced at most once while runs take turns |
| `DaysAreCaughtUp` | the first run of a day marks everything that was done by midnight |
| `KindleTypes` | types of the reading time: in particular no two samples of one time |
| `PollsRepair` | a poll that nothing overlaps leaves every bucket at the instants at which a book was read, except on days of finished books |
| `CounterStaysBacked` | the counter never runs ahead of what the samples prove, unless a pass was cut or a fetch failed |
| `CachesTypes` | types of the caches |
| `InvalidationHolds` | an answer shows every write whose invalidation found no older read under way |
| `StalenessIsBounded` | an answer lacks no write older than `TTL + Slowest` |
| `StreakTypes` | types of ledger and requests; one row per start of a period |
| `StreaksAreExact` | the streak is the number of consecutive periods that were hit, up to the last change of zone or period |
| `ComponentTypes` | `TypeOK` of `MCComponents` |

They hold for any sets of jobs, pods, slots, requests, titles, books, kinds,
beats, labels and zones and for any number of faults, under the named assumptions of the modules that
declare the constants; TLC evaluates these on the instances. What is used of
them:

- worker ids name slots (`WorkerIdsAssumption`, the format of `workerID`);
- slots, pods and jobs are finite (a queue has finitely many rows at any time,
  and the semaphore and the cap count them: `DispatchAssumption`); so are the
  beats of the sender and the books read on a Kindle, which are summed over
  (`HeartbeatAssumption`, `KindleAssumption`);
- a full rebuild of the rollup starts before every beat (`ZeroTimeAssumption`:
  the code passes Go's zero time, in the year 1);
- the samples of a book at the start have different times (the unique
  constraint of `kindle_reading_positions`), and the monitor's idle gap is no
  longer than the session gap, as in the defaults (`KindleAssumption`);
- the lease is long enough (`LeaseAssumption`; 10 against `3 + MaxFaults`);
- the values that stand for SQL NULL, no job, no title, no path, are not among
  the jobs, titles and paths (`NullsAssumption`, `DispatchAssumption`);
- an interval, a TTL and a whole file are at least 1.

*Queue.* `TypeInv` adds to `TypeOK` that a busy slot has a job (`RunShape`).
`ClaimInv` adds `BudgetKept` and `ClaimCopy`: a run that passes the guard holds
a copy of the row's `attempts`. Without it the guard could admit a run of an
older claim by the same worker, and the retry decision, made on the copy, could
exceed the budget. Both halves are needed at once, because a claim only stays
within budget if every requeue did. `ChargeInv` counts: `starts` plus the slots
that have claimed and not started never exceed `attempts`; a refund
(`Requeue`) is safe because only the owner of the claim passes the guard. The
refinement follows from it: a start is a step of `JobLifecycle` only because an
attempt was charged for it.

*Scheduler and limiter.* `Accounted` is three facts at once. A slot whose kind
is not `loose` still holds the lock of its row (`Leased`), so no two slots run
one job, although a semaphore member is named by pod and job and not by slot. A
run of a capped kind has its member (`Holding`). No semaphore has more members
than its cap (`WithinCap`). The running slots of a kind then inject into its
members. That the first fact is needed is the point: without the lease two runs
of one job on one pod share a member, and the earlier one's release frees the
slot of the later. `PeriodsApart` says that between the claim of a period and
its INSERT there is one scheduler, and no row once it is past the check.

*Importer.* `LiveRunsAreFresh` is not inductive: how old a row may be depends on
what its run has spent since the last write of `updated_at`. `Within` gives the
bound for each place: 0 before `MarkJobRunning`, the ticks spent in the
look-ups, two more for a first day, and one for every progress write that
failed. `StartFresh` says that a row is started in the tick of its INSERT.
`SweepsAreSafe` follows: a sweep only touches expired rows.

The verdict needs the arithmetic of a run: `RunsAddUp` says that the days it has
passed are stored or failed, where it stands between 0 and the range, and that
it only gets this far with an accepted token. For the keys,
`RejectionsSeen` says that a run which goes on knows of every 401 it was
answered (`saw401`): what it has seen and what it was told agree at each
statement, so where it saves its key, it proved it. `RefusalsTold` is the other half: a run
remembers no 401 that it was not answered. A sweep or a cancel cannot break the
verdict, since neither writes `completed`. Terminal events need more than that the
row has ended at the moment of the event: `MarkJobRunning` would take it back to
running. `StartedOnce` says that a row is handed to one request, whose goroutine
is the only one it ever has, and `ToldInTheEnd` that whoever could still write
a job a stream was told about can only write another end.

*Shelf.* `RankedKeeps` says that replacing times by their ranks changes no
comparison the code makes, so every step can be reasoned about with the times
it wrote. `OneAtATime`: unless the history is unclear, one job runs. `Stands`:
while the last decision is the reader's, the entry on the shelf and the one a
pull holds are older than the decision or are our last recorded write
(`Known`), which is just what `AdoptGate` does not adopt; between a write and
its record the entry carries the status about to be recorded (`Wrote`).
`OneRead` follows the id of the read from the push to the row.

*Liberation.* A file that is open belongs to a run that is copying and holds
what that run has copied, wherever it has been renamed to (`OpenFiles`); this
holds also when commits overlap. As long as they do not (`~tangled`),
`CommitsApart` gives each committing run its path alone, and `LibraryIsWhole`
says that nobody writes to a file of the library, and that the file of a
liberated row is the whole audio of its title, unless the owner deleted it.

*Audible.* `CaughtUp` follows the books that were done at midnight: no page in
flight lists them as started, the page of the day's first run lists them as
done, and once it is swept they are marked. It needs no turn-taking. `Once` does:
while runs take turns, no page is out of date (`UpToDate`), a transition a run
holds is of a book that is marked and not announced, no two are of one book
(`NotYetTold`), and a book that was announced stays marked. The mark in the row
is what stops the next sweep from announcing again.

*Ingest.* `Held` says who holds what: what a writer has at each statement
(`Shape`), that an operation which runs alone is the only open one (`Solo`), and
that no row and no key is written by two transactions at once (`Locks`).
For the gaps nobody else writes while a save runs alone, so `GapsInv` can follow
its own view: from the upsert over the recomputed gaps to the commit.
`WindowIsEnough` is the reason for the bounded window: between the last instant
before a batch and the first after it lie all rows whose predecessor can have
changed, and the `LAG` of a row in the window looks at most one row back, which
the anchor supplies. For the rollup writers overlap. `Refreshes` says of each
that what it will insert covers the rows it has written (`Covers`) and the keys
it has deleted (`Replaces`), and that every value is still the sum of its view,
unless the key is taken, and then the INSERT must fail (`Current`).
A commit is then looked at from its own side, from that of a writer of the same
keys, and from that of one beside it (`CommitAlone`, `CommitShared`,
`CommitBeside`).

*Sums.* `MapThenSumSet` is recursion over a set, and the induction theorems of
the library cannot be instantiated here. `FiniteSums` does without: a nonempty
family of subsets of a finite set has a smallest member (`SmallestSubset`, from
the well-foundedness of strict inclusion), so a counterexample may be taken to
be a smallest one. This gives the equation of the sum for every choice of an
element, sums of unions, bounds, and greatest and least elements.

*Kindle.* `SessionsCount`: what `composeSessions` yields for a day is the number of
its instants at which the samples say the book was read; each such instant lies
in one of the pairs of neighbouring samples, which do not overlap. So sums of
seconds become cardinalities of sets of instants, which only grow with the
samples (`ReadingGrows`). `PollInv` says that only a day on which something was
read has seconds, in its bucket or in a pass (`Grounded`), and that the sums of
a poll which runs alone are those of the books it has done, over samples nobody
else adds to (`SumsUp`). `CounterInv` splits the counter into
the books: the monitor's row stands at a sample (`Anchored`), and what has been
counted is at most the proven instants before it (`Backed`).

*Caches.* `Shown`: whatever is cached, or may still be stored, shows `floor`, what
the last effective invalidation found committed; a read that does not is one
that keeps the floor from rising. `Timed`: a read under way shows every write
that was committed before it began, it began at most `Slowest` ago, and an
entry is stored at its end; so what an entry lacks is younger than its age and
the time of one read. `OlderThan` is the greatest version older than an age; that
there is one takes the least-element fact of `WellFoundedInduction`.

*Awards.* A row begins no later than an instant it was entered for (`Dated`), and
a change of zone or period comes after all of these, as does what a stale
replay or visit enters (`ReplayIsOld`); so rows of another calendar never begin
in a period after the last change. In those periods rows and hits correspond
(`RowsAreOfHits`, `HitsHaveRows`). `WalkIsOverSlots` is about the walk alone: if
the first n slots are taken, the row with k newer ones is that of slot k
(`TakenSlots` counts the rows above it), and the walk cannot step over a slot
that is not taken, because the row it would take next does not lie one period
earlier. It replaces an induction over the walk by the least free slot.

*Only model-checked.* Liveness (`EveryJobEnds`, `ShutdownEnds`,
`PeriodicKindRuns`, `OwnerIsUnblocked`, `Converges`), which is beyond the prover.
Every invariant and action property of the runs has a theorem.

## Where code and comments disagree

Kept as a run (`PROJECT.json` quotes the line):

- `liberate_harmless`: two runs of one title have work directories of their own
  and "the concurrency is simply harmless" (`liberate/service.go:373-374`), but
  across file systems they commit through one `.partial` name. One renames the
  other's half-written copy into place; if the other is then cut off, the
  truncated file is recorded with its size and skipped from then on.
- `liberate_denied`: denials are among "the outcomes the sweep never retries on its
  own" (`liberate/store.go:60`), and "must never look like a transient failure"
  (`service.go:188-189`). A sweep lists titles long before their jobs run, and a
  job looks only for `liberated`. So a second job that was queued before the
  denial asks Amazon again, with no overlap and no request of the owner; if it
  fails in another way, or is interrupted, the row says `failed` and the next
  sweep lists the title. `denied` is the history of titles Amazon has denied and
  not granted, nor their owner asked for or forgotten, since.

Reached by the models, not kept as runs. Queue and importer:

- The `cancels` map is keyed by job id (`local.go:49-52`, `:209`): when two slots
  of a pod run one job after a lost lease, the older run's clean-up deletes the
  newer one's entry, and a cancel does not reach it.
- `exec.go` announces a terminal event also when the terminal write failed.
- "One active job" (`import.go:43-44`, `importjobs.go:108-109`): check and INSERT
  (`import.go:111`) are two statements; two submits make two active jobs.
- The stream reads the row before it subscribes (`import.go:336`, `:355-356`); an
  import that ends in between leaves the stream waiting.
- `Worker.Cancel`'s done channel closes without a terminal write when the
  context ends before `MarkJobRunning` or before the last `FinishImportJob`.
- `MarkJobRunning` and `FinishImportJob` overwrite a cancel written before them.
- An import that ends well saves its typed key also when its owner has deleted or
  replaced the saved key meanwhile. Likewise its verdict is stamped on whatever key
  is saved at its end (`importer.go:527`): a 401 marks a key invalid that the run
  did not use, and a key saved under `unknown` during a run on the server's key
  becomes valid unverified, where whoever sees `status='valid'` "can trust that THIS
  blob was the one verified" (`wakatime_key.go:47-49`).

Ingest:

- Overlapping batches do not see each other's rows (`ingest.go:82-83`, `:105`) and
  commit gaps that leave the other's beat out.
- Applying a rename rule rewrites `heartbeats` and removes the rule "so the next
  fetch is fresh" (`curation.go:554-556`) but leaves `hb_rollup_daily`, so the
  fast paths show the old label.
- After a change of zone whose rebuild failed, the next ingest refreshes only
  from its own day on.
- `GetDerivedStatus` sums gaps for workouts that the rollup counts by duration,
  so a sender with workouts is reported as out of sync.

Books:

- The progress push writes "reading" without `SetReadingItemPushed`, so the next
  pull adopts it as an edit made on Hardcover; and it inserts a new read at every
  change of the percent.
- A missed stamp is said to be bounded by the timestamp guard
  (`curation_push.go:220-221`); our write is newer than the row's clock, so it is
  adopted, also over an edit made meanwhile.
- "An enqueue miss only delays the mirror" (`books_curation.go:75`): not for a
  book that is on no shelf, which no pull lists and which therefore never
  diverges (`Converges` exempts it).
- A push that is late overwrites a newer edit on Hardcover.
- A run that dies between the finished sweep and the announcements loses them;
  two overlapping runs both announce; a book that was started again is announced
  once a day while its event is the newest, although "a re-run with unchanged
  cursors emits nothing" (`audiobooks.go`, comment of `SyncUser`).
- An Audible sync that crosses midnight passes for the new day's full sweep.
- `MarkLiberated` runs under the context of the job: cancelled at that point, the
  row stays "converting" and the 409 guard refuses the title until it is forced.
  The path check, the commit and the row are three steps, so two titles can take one path.
- Samples of a finished book are no longer read, so its day shrinks at the next
  recomposition ("writes identical values", `reading_time.go:128-133`). The counter
  leaves the first gap of a session out and counts an advance twice after a pass
  that was cut ("exactly those new seconds", `monitor.go:285-286`).

Caches and awards:

- "Take effect immediately" (`curation.go:163-164`, `apihelpers.go:375-376`) and
  "the next read always recomputes" (`goals/handler.go:277-280`) do not hold when
  a read in flight stores late, nor on other replicas. `InvalidatedIsGone` states
  what remains, `StaleForAWhile` the bound.
- An entry dated into the next period is accepted for up to an hour, although it
  "could poison the streak walker" (`awards/handler.go:129`, `:136`); a change of
  zone or period hides the streak until the next period begins.

## What is not modelled

Payloads, formatting, SQL text and HTTP are abstracted: labels, keys and tokens
are model values, and upstream answers are choices. Encryption of keys, log
buffers, metrics and drift counters are left out. Senders share no rows, so one
sender is modelled. A failed statement of a batch is a failure of the batch.
Rows of one batch are locked at once; a circle of waits between batches is
broken by PostgreSQL, which is a `Rollback`.

No server or statement timeout exists in the code, so the `Slowest` of
`ResponseCaches` is an assumption of the model. The two clocks of `ShelfSync`
agree. Left out of the books: the position-delta method of reading time and its
lookback edge, listening aggregates, ratings, lists, matching itself, several
rows of one Hardcover book, the pipeline (a sequential runner of the jobs above)
and the imports of exported files. Left out of the awards: months, which follow
the calendar. Rows of a liberation job are not retried (`MaxAttempts(1)`), so the
queue behind them is only a set of waiting jobs.

The parts listed as not modelled in `PROJECT.json` are read-only (statistics, the
query engine, widgets, the web front end), clients of other services, generated
or descriptive code (the OpenAPI document), or keep no state that two actors
change: they make up most of the repository's lines. Sessions and tokens are
single statements on one row each. The hubs of job events and notifications have
the form of the importer's, which is modelled.

## Plan

Done, in order: job queue, its promise and proofs; importer and its lease;
heartbeat ingest; scheduler and limiter; the shelf, liberation, Audible and
Kindle of the books; caches and awards.

Proofs done: queue and its refinement; lease, verdicts, events and keys of the
importer; cap and periods; types, gaps and rollup of the ingest; the shelf,
liberation, Audible and Kindle of the books; caches; streaks.

Open: the liveness properties stay with TLC. Of the parts that are not modelled,
the position-delta method of reading time and the rotation of refresh tokens
would come first; a promise for the importer, as `JobLifecycle` is one for the
queue, would be the next refinement to prove.
