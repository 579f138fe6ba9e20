----------------------------- MODULE Positions ------------------------------
(***************************************************************************)
(* The positions of the fleet: polled from OpenSky into                    *)
(* app.current_positions (opensky_positions), pruned                       *)
(* (prune_stale_positions), served as the live set (GET                    *)
(* /v1/positions/live), upserted to the Aircraft objects of Foundry        *)
(* (foundry_positions_sync) and evicted from there                         *)
(* (foundry_aircraft_reconcile, under the overlap guard of RunGuard).      *)
(* Polls overlap, syncs overlap, and neither waits for the reconcile.      *)
(***************************************************************************)
EXTENDS Naturals, FiniteSets, RunGuard

CONSTANTS
    Aircraft,       \* icao24, as numbers: orphans are sorted
    Polls,          \* polls that can be under way at once
    Syncs,          \* sync runs that can be under way at once
    LIVE_POSITION_WINDOW,   \* 15 minutes
    POSITION_RETENTION,     \* 3 hours
    DeleteCap,      \* _AIRCRAFT_RECONCILE_DELETE_CAP
    MaxTime         \* bound on the clock

ASSUME PositionsAssumption ==
    /\ Aircraft \subseteq Nat /\ IsFiniteSet(Aircraft)
    /\ {LIVE_POSITION_WINDOW, POSITION_RETENTION, MaxTime} \subseteq Nat
    /\ LIVE_POSITION_WINDOW <= POSITION_RETENTION
    /\ DeleteCap \in Nat \ {0}

VARIABLES
    now,        \* the clock
    heard,      \* when a receiver last heard of each aircraft; 0: never
    table,      \* app.current_positions: a row per aircraft, or NoRow
    newest,     \* history: the last time of hearing the table was ever told of
    poll,       \* per poll: the rows it fetched and has not upserted
    tenant,     \* the Aircraft objects of Foundry: the place they show; 0: none
    sync,       \* per sync run: the objects left to upsert, with their places
    live,       \* of the reconcile at work: the live set it fetched
    doomed      \* and then the objects it is to delete

tableVars == <<now, heard, table, newest, poll>>
reconVars == <<status, live, doomed>>
vars == <<tableVars, tenant, sync, reconVars>>

NoRow == [seen |-> 0, place |-> 0, region |-> 0]

Nothing == [a \in {} |-> 0]

Init ==
    /\ now = 1
    /\ heard = [a \in Aircraft |-> 0]
    /\ table = [a \in Aircraft |-> NoRow]
    /\ newest = [a \in Aircraft |-> 0]
    /\ poll = [p \in Polls |-> Nothing]
    /\ tenant = [a \in Aircraft |-> 0]
    /\ sync = [s \in Syncs |-> Nothing]
    /\ GuardInit
    /\ live = {}
    /\ doomed = {}

-----------------------------------------------------------------------------
(* The world. Where an aircraft is, and in which region, is told by when it *)
(* was heard.                                                              *)

Tick ==
    /\ now < MaxTime
    /\ now' = now + 1
    /\ UNCHANGED <<heard, table, newest, poll, tenant, sync, reconVars>>

Hear(a) ==
    /\ heard[a] < now
    /\ heard' = [heard EXCEPT ![a] = now]
    /\ UNCHANGED <<now, table, newest, poll, tenant, sync, reconVars>>

-----------------------------------------------------------------------------
(* opensky_positions *)

\* A row of the answer: ts_position, lat and lon, customer_region.
Report(a) == [seen |-> heard[a], place |-> heard[a], region |-> heard[a]]

\* fetch_states, the filter of denied prefixes and _convert_states_to_rows. A
\* row without a position is dropped, and OpenSky tells the position of an
\* aircraft only while it is heard; Aircraft are those that are not denied.
FetchStates(p) ==
    /\ poll[p] = Nothing
    /\ poll' = [poll EXCEPT ![p] = [a \in {b \in Aircraft : heard[b] = now} |-> Report(a)]]
    /\ UNCHANGED <<now, heard, table, newest, tenant, sync, reconVars>>

\* Mutant: one column takes the value of a report that is as old.
BugMerge(old, new) ==
    [seen |-> IF new.seen > old.seen THEN new.seen ELSE old.seen,
     place |-> IF new.seen > old.seen THEN new.place ELSE old.place,
     region |-> new.region]

\* CURRENT_POSITIONS_UPSERT_SQL: each column decides for itself.
Merge(old, new) ==
    [seen |-> IF new.seen > old.seen THEN new.seen ELSE old.seen,
     place |-> IF new.seen > old.seen THEN new.place ELSE old.place,
     region |-> IF new.seen > old.seen THEN new.region ELSE old.region]

Upsert(row, new) == IF row = NoRow THEN new ELSE Merge(row, new)

Newer(x, y) == IF x > y THEN x ELSE y

\* _upsert_current_positions, one transaction; an empty answer ends the poll.
UpsertPositions(p) ==
    /\ poll[p] # Nothing
    /\ table' = [a \in Aircraft |->
                   IF a \in DOMAIN poll[p] THEN Upsert(table[a], poll[p][a]) ELSE table[a]]
    /\ newest' = [a \in Aircraft |->
                   IF a \in DOMAIN poll[p] THEN Newer(newest[a], poll[p][a].place) ELSE newest[a]]
    /\ poll' = [poll EXCEPT ![p] = Nothing]
    /\ UNCHANGED <<now, heard, tenant, sync, reconVars>>

\* An error of the lakehouse or of Postgres, a deadlock of two upserts, or the
\* process dies. (An OpenSkyError ends the poll with nothing fetched.)
FailPoll(p) ==
    /\ poll[p] # Nothing
    /\ poll' = [poll EXCEPT ![p] = Nothing]
    /\ UNCHANGED <<now, heard, table, newest, tenant, sync, reconVars>>

PollStep(p) == FetchStates(p) \/ UpsertPositions(p)

\* prune_stale_positions
Prune ==
    /\ \E a \in Aircraft : table[a] # NoRow /\ table[a].seen + POSITION_RETENTION < now
    /\ table' = [a \in Aircraft |->
                   IF table[a].seen + POSITION_RETENTION < now THEN NoRow ELSE table[a]]
    /\ UNCHANGED <<now, heard, newest, poll, tenant, sync, reconVars>>

\* GET /v1/positions/live: last_seen_at >= NOW() - window.
Live == {a \in Aircraft : table[a] # NoRow /\ table[a].seen + LIVE_POSITION_WINDOW >= now}

-----------------------------------------------------------------------------
(* foundry_positions_sync *)

\* fetch_positions_live.
FetchLive(s) ==
    /\ sync[s] = Nothing
    /\ sync' = [sync EXCEPT ![s] = [a \in Live |-> table[a].place]]
    /\ UNCHANGED <<tableVars, tenant, reconVars>>

\* upsert_aircraft_batch: chunk after chunk; a chunk is taken to be one object.
UpsertAircraft(s) ==
    /\ \E a \in DOMAIN sync[s] :
         /\ tenant' = [tenant EXCEPT ![a] = sync[s][a]]
         /\ sync' = [sync EXCEPT ![s] = [b \in DOMAIN @ \ {a} |-> @[b]]]
    /\ UNCHANGED <<tableVars, reconVars>>

FailSync(s) ==
    /\ sync[s] # Nothing
    /\ sync' = [sync EXCEPT ![s] = Nothing]
    /\ UNCHANGED <<tableVars, tenant, reconVars>>

SyncStep(s) == FetchLive(s) \/ UpsertAircraft(s)

-----------------------------------------------------------------------------
(* foundry_aircraft_reconcile. The guard lets one run fetch at a time, so   *)
(* that what it holds is kept once, not per run.                           *)

\* The steps of a run before it works, and of one that skips.
LaunchRun(r) == Launch(r) /\ UNCHANGED <<tableVars, tenant, sync, live, doomed>>

CheckRun(r) == Check(r) /\ UNCHANGED <<tableVars, tenant, sync, live, doomed>>

SkipRun(r) ==
    /\ status[r] = "skipping"
    /\ Leave(r)
    /\ UNCHANGED <<tableVars, tenant, sync, live, doomed>>

\* Mutant: the run ends after a chunk, whatever is left.
BugDelete(r, left) == doomed' = left /\ Leave(r)

\* Leaves doomed to be deleted, and ends when there is nothing.
Delete(r, left) ==
    /\ doomed' = left
    /\ IF left = {} THEN Leave(r) ELSE UNCHANGED status

\* An empty feed is taken for ignorance: the run ends there.
FetchKeep(r) ==
    /\ status[r] = "working" /\ live = {} /\ doomed = {}
    /\ live' = Live
    /\ IF Live = {} THEN Leave(r) ELSE UNCHANGED status
    /\ UNCHANGED <<tableVars, tenant, sync, doomed>>

Objects == {a \in Aircraft : tenant[a] # 0}

\* sorted(tenant - live)[:cap]
Capped(objects, keep) ==
    {a \in objects \ keep : Cardinality({b \in objects \ keep : b < a}) < DeleteCap}

\* list_aircraft_pks
ListTenant(r) ==
    /\ status[r] = "working" /\ live # {}
    /\ live' = {}
    /\ Delete(r, Capped(Objects, live))
    /\ UNCHANGED <<tableVars, tenant, sync>>

\* delete_aircraft_batch, a chunk of one object at a time.
Evict(r) ==
    /\ status[r] = "working"
    /\ \E a \in doomed :
         /\ tenant' = [tenant EXCEPT ![a] = 0]
         /\ Delete(r, doomed \ {a})
    /\ UNCHANGED <<tableVars, sync, live>>

\* FoundrySyncSkipped or another exception.
FailReconcile(r) ==
    /\ status[r] = "working"
    /\ Leave(r)
    /\ live' = {} /\ doomed' = {}
    /\ UNCHANGED <<tableVars, tenant, sync>>

\* The process dies; the run storage does not notice.
DieRun(r) ==
    /\ Die(r)
    /\ IF status[r] = "working" THEN live' = {} /\ doomed' = {} ELSE UNCHANGED <<live, doomed>>
    /\ UNCHANGED <<tableVars, tenant, sync>>

ClearRun(r) == Clear(r) /\ UNCHANGED <<tableVars, tenant, sync, live, doomed>>

\* A run on its way to its end.
ReconcileStep(r) ==
    CheckRun(r) \/ SkipRun(r) \/ FetchKeep(r) \/ ListTenant(r) \/ Evict(r)

-----------------------------------------------------------------------------

Next ==
    \/ Tick \/ Prune
    \/ \E a \in Aircraft : Hear(a)
    \/ \E p \in Polls : PollStep(p) \/ FailPoll(p)
    \/ \E s \in Syncs : SyncStep(s) \/ FailSync(s)
    \/ \E r \in Slots : \/ LaunchRun(r) \/ ReconcileStep(r)
                        \/ FailReconcile(r) \/ DieRun(r) \/ ClearRun(r)

Spec == Init /\ [][Next]_vars

\* The sensors and the schedule keep firing, and what has begun goes on.
FairSpec ==
    /\ Spec
    /\ \A p \in Polls : WF_vars(PollStep(p) \/ FailPoll(p))
    /\ \A s \in Syncs : WF_vars(SyncStep(s) \/ FailSync(s))
    /\ WF_vars(\E r \in Slots : LaunchRun(r))
    /\ \A r \in Slots : WF_vars(ReconcileStep(r) \/ FailReconcile(r))

-----------------------------------------------------------------------------
(* Properties. *)

RowOf(n) == [seen : 0..n, place : 0..n, region : 0..n]

TypeOK ==
    /\ now \in Nat
    /\ heard \in [Aircraft -> 0..now]
    /\ table \in [Aircraft -> RowOf(now)]
    /\ newest \in [Aircraft -> 0..now]
    /\ \A p \in Polls : DOMAIN poll[p] \subseteq Aircraft
                        /\ \A a \in DOMAIN poll[p] : poll[p][a] \in RowOf(now)
    /\ tenant \in [Aircraft -> 0..now]
    /\ \A s \in Syncs : DOMAIN sync[s] \subseteq Aircraft
                        /\ \A a \in DOMAIN sync[s] : sync[s][a] \in 1..now
    /\ status \in [Slots -> Statuses]
    /\ live \subseteq Aircraft /\ doomed \subseteq Aircraft
    /\ live \cup doomed # {} => \E r \in Slots : status[r] = "working"

\* What the live set shows of an aircraft is one report, in all its columns,
\* and the newest the table was ever told of, though polls overlap, a slow one
\* commits last and rows are pruned in between (CURRENT_POSITIONS_UPSERT_SQL).
LiveIsNewest ==
    \A a \in Live : table[a].place = newest[a] /\ table[a].region = newest[a]

\* Polls, syncs and reconciles stop failing some day (a step that fails with
\* nothing left to lose is one that ends), and an operator has cleared the runs
\* that died.
Calm ==
    /\ <>[][/\ \A p \in Polls : FailPoll(p) => UpsertPositions(p)
            /\ \A s \in Syncs : FailSync(s) => UpsertAircraft(s)
            /\ \A r \in Slots : FailReconcile(r) => ReconcileStep(r)]_vars
    /\ <>[](\A r \in Slots : status[r] # "dead")

\* When the fleet stands still and nothing fails, the tenant ends up showing
\* the live set and nothing else, unless the live set is empty
\* (foundry_positions_sync, foundry_aircraft_reconcile).
TenantFollows ==
    Calm => <>[](Live # {} => \A a \in Aircraft :
                                  tenant[a] = IF a \in Live THEN table[a].place ELSE 0)
=============================================================================
