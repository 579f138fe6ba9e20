# Aerial Fleet Monitor: specifications

TLA+ modules, TLC configurations and TLAPS proofs for the parts of this
repository where several processes share state: what is filed in Postgres, what
is pushed to and pulled from Salesforce, and what is mirrored in Foundry. Paths
are relative to the root of the repository.

- `tlc -config X.cfg M` checks one configuration; the table of runs below says
  which module goes with which file.
- `tlapm MProofs.tla` checks the proofs of a module.

## 1. The system

Dagster (`pipelines/`) polls OpenSky and NOAA, writes Parquet and Postgres, runs
anomaly rules and files Cases in `app.cases`. A FastAPI service (`api/`) reads
Postgres and Parquet and owns the Salesforce sync. A library
(`foundry/sync/`), called from Dagster assets, mirrors positions, flights, sites
and Cases to a Foundry ontology. Everything is triggered by sensors and cron
schedules; almost nothing waits for anything else.

| component | state | operations | talks to |
|---|---|---|---|
| Case detector (`pipelines/assets/detection.py`, `rules/dedup.py`) | `app.cases`, `app.case_timeline`, case id sequence | run: load, detect, deduplicate against open cases, insert one by one | Postgres, Parquet |
| Anomaly rules (`pipelines/rules/`) | none | go-around, hold, delay, diversion, lost signal, weather | - |
| Case push (`api/app/services/case_sync.py`, `salesforce.py`) | `sf_sync_status`, `sf_sync_attempts`, `salesforce_id`, timeline; a session advisory lock | `push_pending`: lock, fetch, create or adopt, mark synced / retry / failed, unlock | Postgres, Salesforce |
| Case pull (same files) | watermark, mirrored fields of the row, timeline | `pull_from_sf`: read mark, query, apply each record, write mark | Postgres, Salesforce |
| Salesforce session (`salesforce.py`) | session, cached record type id, shared by all threads | login, re-login on an expired session, retry once | Salesforce |
| Case mirror (`pipelines/assets/foundry_sync.py`, `sync_jobs.py`) | Foundry Case objects; cursor in the asset's latest materialization | sync run: drain, upsert, leave cursor; reconcile run: drain, list, diff, delete | API, Foundry, Dagster's event log |
| Flight lifecycle (`sync_jobs.py`) | on-ground and open-flight maps in the materialization; Foundry Flight objects | takeoff and landing edges, stamps, enrichment, stub reconcile, liveness sweep | API, Foundry |
| Flight trails (`sync_jobs.py`, `query_service.py`, `lakehouse.py` of the API) | a buffer of enriched Flights; a streaming scan | fetch details, stream trails, flush chunks, send the rest without a trail | Parquet, Foundry |
| Flight archive (`flight_archival.py`, `lakehouse.py`) | `flights_archive/` Parquet | page, write, verify, delete from Foundry; purge by day | Foundry, files |
| Overlap guard (`foundry_sync.py`, `flight_archival.py`) | Dagster run records | look for other active runs, skip if any | Dagster |
| Positions (`ingestion.py`, `maintenance.py`, `reconcile_aircraft`) | `app.current_positions`, Parquet, Foundry Aircraft | poll, newest-wins upsert, prune, evict | OpenSky, Postgres, Foundry |
| OpenSky client and flight plans (`opensky.py`, `flight_plan_enrichment.py`) | OAuth token; `app.flight_plans` | token refresh, attempts, retry on refusal; pick stale, fetch, upsert with TTL | OpenSky, Postgres |
| Weather (`ingestion.py`) | `app.airport_conditions` | upsert reports with their flight category | NOAA, Postgres |
| Reference data, watchlist, sites | tables loaded whole, Foundry Sites | load, upsert | files, Postgres, Foundry |
| Read API (`query_service.py`, routers) | none | queries | Postgres, Parquet |
| Postgres pool (`postgres.py`) | at most ten connections | check out, check in | Postgres |

What is hard here, and what each part must get right:

- **Push.** Two passes at once; a create whose answer is lost; a crash between
  the create and the mark; an error that is not one of the expected classes; a
  lost lock session. Each Case must reach Salesforce at most once, the row must
  not claim what is not so, and every Case must be settled.
- **Pull.** Two pulls at once (nothing stops them), a watermark with more
  precision than the query, pages that cut through equal stamps, failures in
  the middle of a page. No change may be passed over; nothing may go back.
- **Mirror.** A cursor over a column that is stamped at the start of a
  transaction and becomes visible at its end; a cursor kept in the output of the
  last run, whatever that run was; a diff of two snapshots taken at different
  times. Every row must arrive, and only what is gone may be deleted.
- **Detector.** Overlapping runs; deduplication against a moving set, with a
  window that must outlast the evidence; silence told from absence.
- **Flights.** Edge detection across restarts; several jobs that create, update
  and delete the same objects; a move between two stores.
- **Trails.** A stream that breaks off after a 200; an error of the write caught
  as an error of the read; chunks that hold both kinds of Flight.
- **Guard.** Two runs that start together; a run that died without saying so.
- **Positions.** Polls that overlap and commit in either order; a prune and an
  eviction beside them. The live set must show the newest report, whole.
- **Flight plans.** A token that may expire while a call is retried; a cap that
  must not starve anybody; errors that are stored as answers.

`PROJECT.json` lists each hazard at its line with the properties that cover it.

## 2. Modules

| module | models | state |
|---|---|---|
| `CaseOutbox` | what the push promises: file, accept, deliver, park | per Case |
| `CasePush` | `push_pending` and `create_case`, implements `CaseOutbox` | rows, lock, passes, Salesforce |
| `MCCasePush` | symmetry for the runs of `CasePush` | |
| `CasePushProofs` | theorems about `CasePush` | |
| `CasePull` | `pull_from_sf` and its query | clock, watermark, rows, pulls |
| `CasePullProofs` | theorems about `CasePull` | |
| `CaseMirror` | `foundry_cases_sync`, `foundry_cases_reconcile` and the page endpoint they share | rows, transactions, Foundry, cursor, runs |
| `CaseMirrorProofs` | theorems about `CaseMirror` | |
| `AnomalyRules` | the six rules, deduplication keys and windows, flight category | none: operators |
| `CaseDetector` | `case_detector` over the snapshots of `opensky_positions`; EXTENDS `AnomalyRules` | snapshots, weather, cases, runs |
| `MCCaseDetector` | the scenes `CaseDetector` is run on | |
| `CaseDetectorProofs` | theorems about `AnomalyRules` and `CaseDetector` | |
| `FlightLifecycle` | `foundry_positions_sync` (its Flights), `foundry_flight_enrichment`, `foundry_flight_reconcile`, `foundry_flight_archive`, `foundry_flight_archive_purge` | clock, feed, Flight objects, cold store, detector's maps, runs of the jobs |
| `MCFlightLifecycle` | symmetry for the positions runs of `FlightLifecycle` | |
| `FlightLifecycleProofs` | theorems about `FlightLifecycle` | |
| `FlightTrails` | `enriched_sync_flights` and the two endpoints it reads | lakehouse, tenant, one run, the stream |
| `FlightTrailsProofs` | theorems about `FlightTrails` | |
| `RunGuard` | the overlap guard of the reconcile, enrichment and archive assets | status of the runs of one job |
| `Positions` | `opensky_positions`, `prune_stale_positions`, the live set, the Aircraft side of `foundry_positions_sync`, `foundry_aircraft_reconcile`; EXTENDS `RunGuard` | clock, table, polls, syncs, runs, tenant |
| `PositionsProofs` | theorems about `RunGuard` and `Positions` | |
| `OpenSky` | `OpenSkyResource`: token cache, attempts, refusal | token, one call |
| `FlightPlan` | `flight_plan_enrichment`; EXTENDS `OpenSky` | ages of the rows, one cycle |
| `FlightPlanProofs` | theorems about `OpenSky` and `FlightPlan` | |

### CasePush

A pass is one `POST /v1/cases/sync-pending`. `Begin`, `TryLock` or
`SkipLocked`, `FetchPending`, then for each row `NextRow`, `Prepare` and one
of the outcomes of the create, then the mark, and at the end `BatchDone` and
`Unlock`. The outcomes are those of `_create_case_sync` and
`_translate_sf_error`: accepted, duplicate (then the adopt query, which finds
the record, finds nothing, or raises), rejected, transient, or a network
exception that nothing translates. The loop catches the case-sync errors and no
others, so `RecordTypeError`, `CreateNetworkError`, `AdoptError` and
`PostgresError` go to `LeaveLoop`: the rest of the batch is dropped and the lock
released. `Crash` does the same for a process that dies, `LoseLock` for a lock
session that dies alone. A request whose caller has given up stays in `orphans`
and may land later (`OrphanLands`), whatever happened to its pass. Salesforce's
unique `AFM_External_Id__c` is what `sf[c]` being a single id stands for.

The constant `Faults` names which of these the environment produces; the safety
runs and the theorems have them all.

### CasePull

What a Salesforce Case is worth is identified with the time it was last modified
(`modified[r]`), so "the row mirrors the Case" is `row[r] = modified[r]`, and
every field merge (COALESCE, status and priority maps) is left out. Time is
counted in ticks, `Second` of them to a second: `Floor` is the truncation of
the SOQL literal. `Limit` cuts the page, in any order among equal stamps
(`ORDER BY SystemModstamp` alone). `ApplyRecord` is the
transaction of `_apply_record` without its timeline rows: its SELECT takes no
lock and its UPDATE compares nothing, so only the UPDATE matters to other pulls.
`Unmatched` is the record that has no row. `WriteWatermark` is the unconditional upsert
after the last record. `Fail` ends a pull anywhere, with what it has committed.

Two variables are history, not code. `lapsed` has the Cases whose last
modification no pull is sure to bring, because one of four races struck: a page
that ended within a group of equal stamps at a full second (`Cut`), a
modification under a stamp that a pull has passed or has in hand already
(`Passed`), an older copy of an overlapping pull written over the last
modification (`Applied`), and the window of an hour that slides past a change
while there is no watermark (`Tick`). A later modification, or the newest copy
applied, takes a Case out again. `overlapped` has the pulls that are under way
and have had another beside them, if only for a moment.

### CaseMirror

A row's content is its version, `ver[c]`. A write is `Begin`, which fixes
`updated_at`, and `Commit`, which makes it visible; two transactions can be open
at once, on one row too, and commit in either order. `Page`, `NextPos` and
`Truncated` are the endpoint and the client's loop. `FetchPage`, `Upsert`,
`Finish` are a sync run; `Skip` is an HTTP error, which materializes without a
cursor, `Fail` any other end, which materializes nothing. `KeepPage`,
`ListTenant`, `Evict`, `EmptyKeep` are a reconcile run, of which the overlap
guard allows one.

`_apply_batch` posts chunks of up to a hundred; a chunk here is one Case, so
failures between any two Cases are covered. A request is taken to have ended by
the time the run that sent it has.

Two variables are history, not code. `lapsed` has the rows that one of four races
has struck and that nothing is sure to repair before their next write: a commit
under a stamp the sync had passed (`Install`), a page that ended within a group
of equal stamps (`Cut`), an older copy of an overlapping run written over a newer
one (`Brought`), and an eviction by a reconcile that read before the row was there
(`Evict`). `stayed` has the rows a reconcile cannot have overlooked.
The properties say that nothing *else* goes wrong, which is how they can be
stated of code in which these four do.

### AnomalyRules and CaseDetector

The rules are operators over the rows an aircraft left in the window; a row
tells its distance from each watched airport, so that geometry is data. The
`CHOOSE`s fix the ties as the code does (the first airport in the order of the
codes, the first of the lowest rows). A Case's `event` is no column: it is what
a reader would call the occurrence, the poll of the low point or the poll at
which the aircraft was last heard.

`Poll` is a cycle of `opensky_positions` as the lakehouse keeps it: any subset of
the aircraft seen, each with any of the reports of the `scene`. A run is
`ReadFeed` (or one of the two early returns, `ReadNothing`), `Dedup`, an
`InsertCase` for each anomaly in the order of the rules, `Finish`; it can
`Fail` anywhere between. The detector has no overlap guard, so two runs are
interleaved. `Close` is the pull mirroring a resolved Case. `known` is history:
the cases that were open when the run read them.

### FlightLifecycle

A Flight is an aircraft and the time it took off, which is what its primary key
is. `phase[a]` is what the feed says of an aircraft; a run sees any subset of
the aircraft (`H`), since the feed has those heard of lately. A report carries
the time at which it is read, and two reports that differ are at least a tick
apart. Of a Flight's properties only `landedAt` and `isLive` are kept; routes,
trails and the status strings steer nothing. `Upsert` is the `upsert-flight`
Action: it creates what is not there and leaves alone what is not given, so a
late write brings a deleted Flight back.

- `TickStart`, `TickFetch`, `TickTakeoff`, `TickLanding`, `TickSave` are a
  positions run. `was` and `open` are the detector's two maps, `saved` the
  copy in the latest materialization. `TickSkip` is `FoundrySyncSkipped`, which
  materializes without either map; `TickFail` is a run that dies. The
  Aircraft upsert of the same run is in `Positions`.
- `EnrichFetch` reads the newest leg of each aircraft and its detail, and
  `EnrichUpsert` writes one of them, with neither a landing nor `isLive`. What the
  run does with details, trails and chunks is `FlightTrails`.
- `ReconcileFetch` reads the feed (and ends if nobody is in the air; `Others` says
  whether aircraft outside the model are), `ReconcileScan` lists the tenant and
  decides, then `ReconcileDelete`, `ReconcileLight` and `ReconcileDim` write
  in that order from what was decided.
- `ArchivePage`, `ArchiveStore`, `ArchiveDelete` are the archive run: read, decide;
  write and verify; delete. `Purge` drops partitions by the date of the landing.

A page of the archive run and a chunk of any batch are one object here, so the
points at which a run can fail or be interleaved with are at least those of the
code. The listings of enrichment and reconcile are one step each, and an object
that was written is in the next listing. The overlap guards work (`OneWorks`):
there is one run of each guarded job. The positions run has no guard; `Ticks` says how
many there are at once. `overtaken` is history: the legs that were open to another
run, or in the maps saved last, when a run found a later takeoff of the aircraft
(`Overtaken`). It stays empty with one run (`OvertakingTakesTwo`).

### FlightTrails

`Begin`, `FetchDetail` for each aircraft (a 404 leaves it out, `DetailFails` is
any other answer), `AskTrails`, then lines with `Receive`, a `Flush` whenever the
buffer is full, `EndTrails`, the rest with `WithoutTrail`, the last `Flush`, and
`Finish`. On the other side `ServeRow` is the generator of
`get_flight_trails_batch` taking one row of the scan, which is ordered by
aircraft and time; a line goes out when the next aircraft begins, or at the end
(`ServeEnd`). `Break` is a read error after the 200 has been sent; `Cut` is what
the run sees of it, or of a time-out, with lines lost that were on their way.
A refused flush inside the loop over the lines is the same exception and is caught
in the same place: `FlushFails` goes on with the rest and the buffer as it
was, so that the buffer can hold one Flight more than a chunk.

A trail is the set of polls that saw the aircraft within `Lookback`; `scan` is
history, the trails when the scan was made. Each aircraft has one leg here.

### RunGuard and Positions

`RunGuard` is the run storage of Dagster for one job: `Launch` makes a run that
is queued, `Check` is its look at the others, after which it works or skips,
`Leave` its end. `Die` leaves it STARTED, since run monitoring is off
(`pipelines/dagster.yaml`), until an operator does `Clear`. With `Prompt` a run
has decided before the next is launched; without it two runs launched together
both skip, which is safe and is why only liveness assumes it.

`Positions` puts the aircraft reconcile under this guard. The place and the
region of an aircraft are identified with the time it was heard at, so "one
report, the newest, in all its columns" is an equation. `FetchStates` is the
answer of OpenSky; it gives a position only of aircraft that are heard, and rows without
`last_contact` are left out. `UpsertPositions` is the transaction of
`CURRENT_POSITIONS_UPSERT_SQL`, whose columns decide one by one (`Merge`);
`newest` is history. `Prune` deletes past the retention, `Live` is the
query of `/v1/positions/live`. `FetchLive` and `UpsertAircraft` are the Aircraft
side of `foundry_positions_sync`, an object at a time; `FetchKeep`,
`ListTenant`, `Evict` the reconcile, which deletes up to a cap in order of the
keys and takes an empty live set for ignorance.

### OpenSky and FlightPlan

One call at a time: `Ask`, `GetToken`, `FetchToken` if the cache has none to hand
out, `Send`, `Respond`; `NextAttempt` after a network error or a 5xx, `Refused`
after a 401 or 403, once, with the cache cleared. `token.left` counts down to the
expiry, `token.use` to the moment the cache stops handing the token out. Time
passes only while a request is out or the client is idle. `Revoke` and
`Withdraw` are the server forgetting a token and the credentials being
replaced.

`FlightPlan` is the hourly run: `Begin` selects what is missing or older than the
TTL, oldest first, up to the cap (`Cut`), any aircraft that is not `Steady`
possibly out of scope; each `Lookup` is a call of `OpenSky`; `Settle` stores the
answer, an error included, or ends the cycle. Ages are counted in cycles.

## 3. What the runs check

Passing runs:

| run | configuration | checks |
|---|---|---|
| `push` | `CasePush.cfg`: 3 Cases (one not pushed), 2 passes, Limit 1, 3 attempts, all faults, one lost lock session | `SyncedIsReal`, `BatchIsFresh`, `TimelineAgrees` |
| `push_settles` | `CasePushLive.cfg`: the same without lock loss | `CasePush` implements `CaseOutbox` (`OutboxSpec`); `EventuallySettled` |
| `pull` | `CasePull.cfg`: 3 Cases, of which one has a row, 2 pulls that overlap, Limit 2, 2 ticks a second, no mark at first and a window of 1 tick, equal stamps, failures | `NothingForgotten`, `OnlyForward`, `Mirrored` |
| `mirror` | `CaseMirror.cfg`: 2 Cases, pages of 1, cap of 1, 2 open transactions, equal stamps, purges; a sync and a reconcile run that skip or fail anywhere | `NothingMissed`, `StayedIsKept`, `Mirrored` |
| `detector` | `CaseDetector.cfg`: 1 aircraft, 2 airports, polls every 10 minutes to minute 40, 2 runs, four scenes | `FiledOnce`, `LostIsSilent`, `GoAroundIsValley`, `WeatherIsReal`, `EventuallyFiled` |
| `flights` | `FlightLifecycle.cfg`: 1 aircraft, 2 positions runs that overlap, time to 4, grace and retention of 1, cap of 1; enrichment, archive and purge beside them, all but the purge skipping or dying anywhere; `isLive` off | `StampsOwnLeg`, `ArchivedIsSettled` |
| `flights_reconcile` | `FlightReconcile.cfg`: 1 aircraft, 1 positions run, time to 3, TTL of 1, no grace, caps of 1, `isLive` on; reconcile, archive and purge, all but the purge skipping or dying anywhere | `LeavesSafely`, `EventuallyDim`, `EventuallyArchived` |
| `trails` | `FlightTrails.cfg`: 3 aircraft, chunks of 2, two polls, every fault | `TrailIsWhole`, `FinishedIsEnriched`, `EventuallyTrailed` |
| `positions` | `Positions.cfg`: 2 aircraft, 2 polls, 1 sync, 2 guarded runs, cap of 1, windows of 0, time to 2 | `OneWorks`, `LiveIsNewest`, `TenantFollows` |
| `plans` | `FlightPlan.cfg`: 4 aircraft, of which one comes and goes, TTL of 1 cycle, cap of 2; tokens of 7 ticks with a leeway of 3, requests of up to 2 | `NeverSendsExpired`, `AuthIsReal`, `EventuallyPlanned` |

Each checks its module's `TypeOK` too, but for `push_settles` and
`flights_reconcile`, whose modules have it checked by the run above them.

**Bounds.** Three Cases and two passes are enough for each pair of steps that can
race in the push: its state is per row but for the lock and the order of the
scan, and a Limit of 1 makes the scan leave rows behind. Three attempts make
the first, a middle and the last one different. In the pull a Limit of 2
against three Cases makes pages that are full, partial and empty, and cut within
equal stamps; two ticks a second make stamps on both sides of the truncation. Two
pulls and time to 3 reach each of the four ways into `lapsed` and both steps
back that `OnlyForward` allows. Cases without a row only fill pages, which is
what two of the three are for. In the mirror pages of 1
against two rows make drains of several turns with writes between them, and two
open transactions commit in either order, with stamps alike or not. One sync
run is what the sensor makes of a 60 s tick unless a run takes longer; with two
runs the states are too many for a run of minutes, and `lapsed` says what they
could do (the theorems about the mirror hold for any number of them). For the
detector one aircraft is enough: no rule looks at two,
except that silence is measured against the feed, for which other
traffic is `traffic`. The four scenes are four worlds: a broken-off approach
between two airports, cruise in and out of scope, a late flight on the ground
away from its destination, and weather that turns while only others are seen.
Time to 40 with a window of 30 lets rows leave the window.

For the flights one aircraft is enough: legs of different aircraft meet only in
the caps and in the guard on an empty feed (`Others`), and five instants give an
aircraft two legs with landings in order or not, and room for the grace to pass.
Two positions runs are enough to find a takeoff twice, to see a landing late, and
to save older maps last; a landing stamped on an overtaken leg is reached. The
flag `FOUNDRY_FLIGHT_ISLIVE_ENABLED` is off in one run and on in the other; with it
on, and enrichment in, the second run would be too large to check for liveness.
For the trails three aircraft and chunks of two make a full chunk, a rest, and
chunks that hold both kinds; two polls make trails of none, one and two
points, and with `Recent = 0` aircraft that were seen and no longer fly. For the
positions two aircraft make an eviction beside a live object. The cap never
truncates there: an empty live set is not acted on, so of two aircraft one is an
orphan at most (the theorems hold for every fleet and cap). The run has `Prompt =
TRUE`; that `OneWorks` holds for runs launched together too is left to the
theorem `Exclusion`. Windows of 0 make a report stale, and prunable, one tick later. For the
plans three steady aircraft against a cap of two make a queue, and a lifetime of
7 lets a token be fresh, in its leeway, and expired within one cycle.

`MaxTime`, `MaxVer`, `MaxOpen`, `MaxAge`, `MaxLockLosses` and a scene's `closes`
bound clocks and counters in the guards of the actions that advance them; after
the clock has stopped the runs go on, which is what the liveness properties
need. None of these runs disables the deadlock check.

Runs that are expected to fail, each a disagreement between the code and what
the repository says of it (the quotations are in `PROJECT.json`):

| run | what happens |
|---|---|
| `push_network` | `requests` raises a ConnectionError: it is not a SalesforceError, leaves the loop, counts no attempt, and the row is first again in the next pass: retries are not bounded, and the rows behind it wait |
| `pull_overlap` | a slow pull writes an old page over a newer one and the mark is past both |

### What the properties leave open

The properties are stated so that they hold of the code as it is. Where they
make an exception, the exception is something the code does:

- `NothingMissed` excepts `lapsed`, the four races of the mirror. A Case that was
  filed and mirrored between a reconcile's drain and its listing of the tenant
  is evicted (`sync_jobs.py:1162`) and comes back only with its next write. Late
  commits and cut groups come from a cursor on the start of a transaction
  (`case_sync.py:497`) that is compared strictly (`case_sync.py:498`); the fourth
  race, of overlapping sync runs, needs two `Runs`.
- `NothingForgotten` and `Mirrored` except `lapsed`, the four races of the pull.
  Nothing in the code keeps any of them away: pulls have no lock
  (`case_sync.py:332`), `LIMIT` cuts wherever it falls and the next bound is strict
  (`salesforce.py:404`), the stamp of a change that Salesforce commits a moment
  later can be one that was passed, and the first window counts from now
  (`salesforce.py:371`). So the properties say that nothing *else* is lost, and
  the run and the theorems have all four going on.
- `OnlyForward` lets a pull that has had another beside it take a row, or the
  bound of the query, back; a pull that has been alone all its time, after
  whatever failures and overlaps, does neither. What definitions.py says of overlapping
  pulls, that they are harmless, is `OverlapIsHarmless`, which `pull_overlap`
  refutes.
- `Mirrored` assumes that no second has a page of changes (`Roomy`): with a full
  page of changes in one second the truncated literal selects the same page for ever.
- `LeavesSafely`: the flight reconcile deletes what it took for a stub when it
  listed the tenant, and a landing stamped in between goes unarchived with it.
  That this can only happen to legs older than the TTL is the property.
- `StampsOwnLeg` excepts `overtaken`: nothing keeps two positions runs apart
  (`foundry_sync.py:192`), and a run that reads the maps before another has saved
  its own can find a takeoff again, which makes a second leg of one flight, or
  stamp a landing on a leg that the other has followed by a new one. Every
  other leg is stamped right, with any number of runs. And a
  go-around low enough is a landing to the detector of edges; it is stamped,
  the leg is popped (`sync_jobs.py:462`), enrichment omits a `landedAt` it does not
  have (`ontology_writers.py:273`), so nothing takes the stamp off again.
- `FiledOnce` excepts cases that were closed, or not inserted yet, when the later
  run read the open ones: with overlapping runs one occurrence can be filed
  twice. It is stated per key, and the key of a go-around holds the airport most
  rows are nearest to (`go_around.py:97`): between two airports that can change
  while the same low point is in the window, and the go-around is filed under
  each.
- `GoAroundIsValley` takes the low point at 3,000 ft or below, as the code does
  (`go_around.py:83`); the docstring says below (`go_around.py:4`).
- No property says that an excessive hold is found. The rule asks for ten rows,
  the window of thirty minutes holds at most seven polls at the interval of
  five (`excessive_hold.py:62`, `definitions.py:194`).
- `EventuallyTrailed` says that a trail is there in the end. In between it goes: a
  run that gets no trail line upserts an empty `trail2h`
  (`ontology_writers.py:271`) over the stored one. And a refused upsert inside
  the loop over the lines is taken for a broken stream (`sync_jobs.py:1018`),
  which the docstring of `enriched_sync_flights` does not say.
- `EventuallyPlanned` counts a stored error as a look-up: the row's
  `refreshed_at` keeps the aircraft from being asked for again until the TTL is
  over, where a comment says the next cycle retries
  (`flight_plan_enrichment.py:84`).
- `TenantFollows` and `LiveIsNewest` look at the aircraft of the caller's scope;
  every caller has the scope "all" at this commit.

After a lost lock session `BatchIsFresh` and `TimelineAgrees` are not claimed:
two passes then mark the same row, and a row can go from synced to failed or
back (the marks are guarded by the case id alone). And a row that is `failed`
may be in Salesforce: the request of the last attempt can land after its pass
gave up. `CaseOutbox` allows it on purpose (`Accept` of a parked Case).

### Fairness

Every liveness property assumes weak fairness of the steps of what is under way
*or of its failure*: a request goes on or ends, it does not hang, because every
call in it has a timeout (and psycopg2's failures end it). It also assumes that
new passes, pulls and runs keep being started, which is what the sensors and
schedules of `pipelines/definitions.py` do, forever. Nothing is assumed of
Salesforce users, of OpenSky, of the weather or of the operator. The premises
`Calm`, `<>[][...]_vars`, say that failures stop some day; they are written "a
failing step is also an ordinary one" since a failure can leave the very state
an ordinary step leaves. `RetriesAreBounded` has no such premise: that is the
point of it.

- Flights: positions runs, polls and purges need not go on. `ArchiveFair`: time
  passes and archive runs go on, with each object of the listing read in turn
  (the scan reads them all, in the order of its pages); `SweepFair`: reconcile
  runs go on. `EventuallyArchived` leaves out legs that landed so near `MaxTime`
  that the bounded clock never lets them settle (`Late`).
- Detector: runs go on; polls and weather need not. A run whose feed is empty
  ends at once (`ReadNothing`).
- Positions: polls, syncs, reconciles go on. `Clear` has no fairness: an operator
  owes nothing, so `Calm` asks that no run is dead from some day on, without
  which the guard stops the job for ever.
- Plans: cycles go on. `Calm` asks that the credentials stand and that a 429
  ends a cycle only after it has stored something: OpenSky may answer errors,
  but a budget that is always gone before the first call plans nothing.
- Trails: `RunStep \/ Cut`, since a stream that breaks ends in the time-out of
  the client and not in a step of the run.

## 4. What is proved

All theorems hold for every value of the constants that the modules' assumptions
allow (`PushAssumption`, `PullAssumption`: finite sets, NULL distinct from
values, positive limits), and for unbounded clocks and counters.

**Push** (`CasePushProofs`): `TypeCorrect`, `Synced`, `Fresh`, `Timeline` and,
for executions in which no lock session is lost (`MaxLockLosses = 0`),
`Implements`: `Spec` implements `CaseOutbox`. The inductive invariant is `IInv`
of `CasePush`. `BatchIsFresh` is not inductive alone: it needs `HolderOnly`
(only the lock's holder is past the lock), `RowsInLoop` (a pass has rows only
inside its loop), and `TimelineAgrees` needs `OnlyPendingLeaves` (a pending row
has an attempt left). The step is split into the actions that touch nothing but
their own pass (`WorksFrame`), those that mark a row (`MarksFrame`), those at
the borders of a pass (`BordersFrame`) and the rest, so that each part of the
invariant is shown once per group.

**Pull** (`CasePullProofs`): for any Cases and any number of overlapping pulls,
with equal stamps, cut pages, failures, and a watermark row or none,
`TypeCorrect`, `Forgotten` (`[]NothingForgotten`) and `Forward` (`OnlyForward`).
The inductive invariant is `PullInv`. `NothingForgotten` looks at the watermark
alone, which a pull moves at its end; so the invariant looks at the pulls:
`SinceSound` says that what a pull's query could not see is mirrored, `BatchSound`
that what it holds is above its bound and the Case's last modification, unless that
has been mirrored since or is for a later pull, and `RestSound` that what it
does not hold is mirrored or for a later pull, each but for what lapsed. `Alone`
says that a pull nothing has been beside finds the watermark as it read it and
the rows no newer than the copies it holds: `Forward` rests on it.

**Flights** (`FlightLifecycleProofs`): for any fleet, any set of jobs and outages,
any bounds and any number of positions runs, `TypeCorrect`, `ArchivesSettled`
(`[]ArchivedIsSettled`), `LeavesSafe` (`LeavesSafely`) and `OwnLeg`
(`[]StampsOwnLeg`). `FlightAssumption` asks that
`None` is no number and no row and that the bounds are naturals. The invariant
is `IInv`: `MapsSound` (a leg is open only on an aircraft last seen in the air,
and took off before it came down), `LandingsSound` (a landing, stamped or in the
hands of a run, is after its takeoff and not in the future, and in the past of
an aircraft that is in the air again), `RowSound` (what the archive run holds is
settled and, once it deletes, stored or expired), `GoneSound` (what the
reconcile run deletes is past the TTL). `OwnLeg` adds `LegInv` about `Legs`, every
leg any job knows
of, because a late upsert can bring back whatever a job holds: no leg came
between a leg and its landing, and an open leg is the newest of its aircraft, each
but for what was overtaken. The first holds over a new takeoff since that is
later than every landing of its aircraft; the second since a run that finds a
takeoff has no leg of the aircraft open itself, so whatever else is open on it
is overtaken in that step (`LegsFrom`, `MintOvertakes`). `OvertakingTakesTwo` shows that
the exception is no wider than its name: with one run nothing is overtaken. That
an expired partition
stays expired needs integer division to be monotone (`QuotientGrows`).

**Positions** (`PositionsProofs`): for any fleet, any number of polls, syncs and
runs, `Exclusion` (`[]OneWorks`), `Newest` (`[]LiveIsNewest`) and `TypeCorrect`.
`Exclusion` rests on `GuardInv` alone: to work, a run must have seen nobody
active, and everybody who works or has died is. `Newest` needs
`LIVE_POSITION_WINDOW <= POSITION_RETENTION` (15 minutes and 3 hours) and the
invariant `TableInv`: every row, in the table or in the hands of a poll, is one
report in all its columns, and a row of the table is the newest the table was
told of, or that one is past the retention: after a prune a slow poll can
install an older row, but then that row is too old for the live set.

**Plans** (`FlightPlanProofs`): for any fleet and cap and for all times that
`OpenSkyAssumption` allows (a request takes less than the leeway, and a
token outlives the leeway with a request to spare, and three requests),
`NotExpired` (`[]NeverSendsExpired`) and `AuthReal` (`[]AuthIsReal`). The
invariant is `ClientInv`: `CallInv` types the call, `TokenInv` says that a
token is handed out with the leeway to spare, `SpareInv` that a call that has
one keeps enough of it for the attempts it has left, `AgainInv` that the token a
call is tried again with is new, so that a second refusal means the credentials
are gone.

`TypeCorrect` (`[]TypeOK`) adds `PlanInv`: a token never has more than it was
issued for, and a list cut to the cap has at most that many entries, whatever
the sort makes of their order.

**Mirror** (`CaseMirrorProofs`): for any Cases, page size and cap, any number of
overlapping sync runs and open transactions, with ties, purges and failures,
`TypeCorrect`, `Missed` (`[]NothingMissed`) and `Stayed` (`[]StayedIsKept`).
`NothingMissed` looks only at the cursor, which a run moves when it ends; the
invariant `SyncInv` looks at the runs too (`MissedIsAhead`): a row the tenant does
not have as it is, and that has not lapsed, lies above the cursor, and every run
that has read past it holds it as it is. `ReconInv` says where a row that
stayed is while a reconcile reads (kept, or still ahead of the reading) and that
what is to be deleted was not kept. Both rest on what a page is, for any order of
equal stamps: a prefix of the hits in the order of the endpoint
(`PageIsPrefix`), whose end leaves every other hit ahead of it but for the cut
group (`PageLeavesAhead`), and all of them if it is not full (`LastPage`). The
last is an argument about finite sets: a hit that was left out and has none such
before it has at least `Limit` others before it (`Minimal`, `AheadCounts`).

**Detector** (`CaseDetectorProofs`): for any fleet, any finite set of watched
airports, any scenes whose altitudes, cloud bases and visibilities are numbers or
None and whose reports have finitely many layers, any cadence, and any number of
runs that overlap and die, `TypeCorrect`, `Once` (`[]FiledOnce`), `Silent`
(`LostIsSilent`), `Valley` (`GoAroundIsValley`) and `Weathered`
(`WeatherIsReal`). The invariant is `DetectorInv`. `FeedInv` keeps the rows in the
window, so what tells an occurrence apart is at most thirty minutes older than
the "now" of the run that finds it (`EventsAreFresh`, `FoundInv`), a case is
younger than its occurrence (`CaseInv`), and the windows of deduplication of the
two rules that have occurrences are at least thirty minutes (`WindowsCover`): an
open case of the same occurrence is always found. `NewInv` carries that from the
reading to the insert, past the inserts of other runs: those have ids
the run has not read. The other three are about what the rules' choices
are: the newest row (`LatestIs`), the low point (`LowPointIs`), the lowest
layer that counts (`CeilingIs`), each a minimum of a finite set, and the category
computed from it (`CategoryIs`).

**Trails** (`FlightTrailsProofs`): for every fleet, chunk size and set of
faults, `TypeCorrect`, `Whole` (`[]TrailIsWhole`) and `Finished`
(`FinishedIsEnriched`). The invariant `IInv` has `Typed`; `Staged`, what each stage
of a run leaves empty or full; `ServerInv`, that the points of the aircraft the
server has at hand and those among the rows left make up its trail, and that no row
left is before it, so that a line is complete when it goes out; and `Brought`,
that an aircraft that is neither buffered nor left for the rest is in the tenant
with what the run fetched. The buffer is bounded by a chunk and one more,
since a refused flush in the loop over the lines leaves a full chunk behind.

Every invariant and action property that the passing runs check is stated by a
theorem, under the assumptions named above where there are any (`Implements`,
`Newest`). Only model-checked: everything about liveness (TLAPS has no proof rules for
fairness here), and in `CasePush` lock loss other than `SyncedIsReal`, which is
proved for it too. That a cycle takes the longest overdue first is part of
`EventuallyPlanned`, so it is checked, not proved: what a sort makes of a
sequence is a fact by induction over data.

## 5. Not modelled

- **Salesforce session and record type cache.** One `SalesforceService` is shared
  by all threads and re-logs in under them. The push has its outcomes; the races
  of the threads on `_sf` are left for `SfSession` (section 6).
- **Postgres pool.** It raises when ten connections are out. The push, the
  detector, the polls and the cycles have that error at each of their
  statements.
- **Sites, forecasts, reference data, watchlist.** Lists that are loaded or
  upserted whole by key; running one again is idempotent and nothing else
  writes them. Forecasts (TAF) are stored and read by no rule.
- **The rest of the read API, schema, start-up, settings, metrics, token stub.**
  Stateless queries and declarations.
- **Apex, metadata of the Salesforce org, dashboards, infrastructure files.** They
  run elsewhere or hold no logic; Apex appears as `Modify` in `CasePull`.
- **Text.** Justifications, runbook references, operator lists, fields of a
  flight plan, routes and status strings steer nothing that is modelled.

Assumptions the code does not secure: in the pull, the premise `Roomy` of
`Mirrored` (section 3). In the mirror, the enrichment and the reconciles, that a
listing of the tenant shows what was written
before it. In `Positions`, that the clocks of OpenSky, the poller and Postgres are
one. In the trails, that a scan is of one set of files; the API lets a batch be
as large as 20,000 aircraft, and its scan is one query.

## 6. Plan

In this order:

1. The flights as they are seen from outside: an abstract record of a leg (in
   flight, landed, archived, purged) for `FlightLifecycle` to implement as far as
   the stub deletes let it, with the proof that it does.
2. `SfSession`: threads that share session and record type id through
   `_reauth`.
3. `CaseSync`: push and pull composed over one row.
