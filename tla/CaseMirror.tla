----------------------------- MODULE CaseMirror -----------------------------
(***************************************************************************)
(* The mirror of app.cases in the Foundry ontology: foundry_cases_sync and *)
(* foundry_cases_reconcile (pipelines/assets/foundry_sync.py), the jobs    *)
(* they run (foundry/sync/.../sync_jobs.py) and the endpoint both read,    *)
(* GET /v1/cases/all-for-sync (CaseSyncService.list_for_sync).             *)
(*                                                                         *)
(* A sync run drains the rows with updated_at above the cursor it finds in *)
(* the latest materialization, page by page, upserts them, and leaves a    *)
(* new cursor in its own materialization. A reconcile run drains the whole *)
(* table the same way and deletes the tenant's objects it did not see.     *)
(* Nothing orders the two, nor two sync runs.                              *)
(***************************************************************************)
EXTENDS Naturals, FiniteSets

CONSTANTS
    Cases,          \* case ids, as numbers: pages are ordered by them
    Runs,           \* sync runs that can be under way at once
    NULL,           \* no cursor / Python None
    Limit,          \* page_size of fetch_cases_for_sync
    DeleteCap,      \* _CASE_RECONCILE_DELETE_CAP
    MaxOpen,        \* bound: transactions open at once
    Ties,           \* whether two rows can carry the same updated_at
    Reconciles,     \* whether reconcile runs happen
    Purges,         \* whether rows are deleted by hand
    Outages,        \* whether runs fail
    MaxTime,        \* bound on the clock
    MaxVer          \* bound: writes of one row

ASSUME MirrorAssumption ==
    /\ Cases \subseteq Nat /\ IsFiniteSet(Cases)
    /\ NULL \notin Nat
    /\ Limit \in Nat \ {0} /\ DeleteCap \in Nat \ {0}
    /\ MaxOpen \in Nat \ {0} /\ MaxTime \in Nat /\ MaxVer \in Nat
    /\ {Ties, Reconciles, Purges, Outages} \subseteq BOOLEAN

VARIABLES
    now,        \* the clock of Postgres
    \* app.cases
    ver,        \* how often the row was written; 0: no such row
    upd,        \* updated_at
    purged,     \* rows that were deleted
    open,       \* transactions begun and not committed: [case, start]
    \* Foundry
    tenant,     \* the version of each Case object; 0: no such object
    cursor,     \* the cursor in the latest materialization, or NULL
    lapsed,     \* history: rows whose last write no sync run is sure to bring
    \* the sync runs
    pc,         \* where each run stands
    pos,        \* how far it has read
    items,      \* the rows it holds: Case |-> version
    \* the reconcile run; the overlap guard allows one at a time
    rpc,        \* where it stands
    rpos,       \* how far it has read
    keep,       \* the Cases it saw
    doomed,     \* the objects it is to delete
    stayed      \* history: rows that have existed since it began, and that
                \* its reading has not missed

pgVars    == <<ver, upd, purged, open>>
syncVars  == <<pc, pos, items>>
reconVars == <<rpc, rpos, keep, doomed, stayed>>
vars == <<now, pgVars, tenant, cursor, lapsed, syncVars, reconVars>>

Nothing == [c \in {} |-> 0]

Init ==
    /\ now = 1
    /\ ver = [c \in Cases |-> 0]
    /\ upd = [c \in Cases |-> 0]
    /\ purged = {}
    /\ open = {}
    /\ tenant = [c \in Cases |-> 0]
    /\ cursor = NULL
    /\ lapsed = {}
    /\ pc = [r \in Runs |-> "idle"]
    /\ pos = [r \in Runs |-> NULL]
    /\ items = [r \in Runs |-> Nothing]
    /\ rpc = "idle"
    /\ rpos = NULL
    /\ keep = {}
    /\ doomed = {}
    /\ stayed = {}

-----------------------------------------------------------------------------
(* app.cases: the detector inserts, the push and the pull update.          *)

Tick ==
    /\ now < MaxTime
    /\ now' = now + 1
    /\ UNCHANGED <<pgVars, tenant, cursor, syncVars, reconVars, lapsed>>

Rows == {c \in Cases : ver[c] > 0}

\* How far the sync has read; a run that starts from there never looks back.
Passed(stamp) == \E m \in ({cursor} \cup {pos[r] : r \in Runs}) \ {NULL} : stamp <= m

\* updated_at = NOW(), which is the start of the transaction.
Install(c, start) ==
    /\ ver' = [ver EXCEPT ![c] = @ + 1]
    /\ upd' = [upd EXCEPT ![c] = start]
    /\ lapsed' = IF Passed(start) THEN lapsed \cup {c} ELSE lapsed \ {c}
    /\ stayed' = IF rpos # NULL /\ start <= rpos THEN stayed \ {c} ELSE stayed

\* A stamp of its own, unless two may be alike.
Unused(t) == ~Ties => \A c \in Rows : upd[c] # t

\* A transaction in two steps: its start, which dates it, and its commit. Two
\* can be open on one row, and commit in either order.
Begin(c) ==
    /\ Cardinality(open) < MaxOpen
    /\ c \notin purged /\ ver[c] < MaxVer
    /\ Unused(now) /\ \A t \in open : t.start # now
    /\ ver[c] = 0 => \A t \in open : t.case # c
    /\ open' = open \cup {[case |-> c, start |-> now]}
    /\ UNCHANGED <<now, ver, upd, purged, tenant, cursor, syncVars, reconVars, lapsed>>

Commit(t) ==
    /\ open' = open \ {t}
    /\ IF t.case \in purged
         THEN UNCHANGED <<ver, upd, lapsed, stayed>>
         ELSE Install(t.case, t.start)
    /\ UNCHANGED <<now, purged, tenant, cursor, syncVars, rpc, rpos, keep, doomed>>

\* An operator deletes rows; their ids are not used again.
Purge(c) ==
    /\ Purges
    /\ c \in Rows
    /\ ver' = [ver EXCEPT ![c] = 0]
    /\ upd' = [upd EXCEPT ![c] = 0]
    /\ purged' = purged \cup {c}
    /\ stayed' = stayed \ {c}
    /\ lapsed' = lapsed \ {c}
    /\ UNCHANGED <<now, open, tenant, cursor, syncVars, rpc, rpos, keep, doomed>>

-----------------------------------------------------------------------------
(* GET /v1/cases/all-for-sync. *)

\* Mutant: a row that is gone is served.
BugGone(since) == {c \in Cases : since = NULL \/ upd[c] > since}

\* WHERE updated_at > since.
Hits(since) == {c \in Rows : since = NULL \/ upd[c] > since}

Before(c, d) == upd[c] < upd[d] \/ (upd[c] = upd[d] /\ c < d)

\* Mutant: newest first.
BugPage(since) ==
    {c \in Hits(since) : Cardinality({d \in Hits(since) : Before(c, d)}) < Limit}

\* ORDER BY updated_at, case_id LIMIT n.
Page(since) ==
    {c \in Hits(since) : Cardinality({d \in Hits(since) : Before(d, c)}) < Limit}

\* Mutant: the time of the query.
BugNextPos(since) == now

\* next_cursor, or the cursor as it was when the page is empty.
NextPos(since) ==
    IF Page(since) = {} THEN since
    ELSE CHOOSE t \in {upd[c] : c \in Page(since)} : \A c \in Page(since) : upd[c] <= t

\* Rows of the stamp the page ends on, that the page left behind.
Cut(since) == {c \in Hits(since) \ Page(since) : upd[c] = NextPos(since)}

Truncated(since) == Cardinality(Page(since)) >= Limit

-----------------------------------------------------------------------------
(* A sync run. *)

\* _prior_cursor.
ReadCursor(r) ==
    /\ pc[r] = "idle"
    /\ pc' = [pc EXCEPT ![r] = "drain"]
    /\ pos' = [pos EXCEPT ![r] = cursor]
    /\ UNCHANGED <<now, pgVars, tenant, cursor, items, reconVars, lapsed>>

\* One turn of the loop of fetch_cases_for_sync. A row that was written again
\* meanwhile is fetched again.
FetchPage(r) ==
    /\ pc[r] = "drain"
    /\ items' = [items EXCEPT ![r] =
                   [c \in DOMAIN @ \cup Page(pos[r]) |->
                        IF c \in Page(pos[r]) THEN ver[c] ELSE @[c]]]
    /\ pos' = [pos EXCEPT ![r] = NextPos(@)]
    /\ pc' = [pc EXCEPT ![r] = IF Truncated(pos[r]) THEN "drain" ELSE "upsert"]
    /\ lapsed' = lapsed \cup Cut(pos[r])
    /\ UNCHANGED <<now, pgVars, tenant, cursor, reconVars>>

\* The newest copy makes good what lapsed; one that is older than a row the
\* sync has passed, of an overlapping run, undoes it.
Brought(c, copy) ==
    IF copy = ver[c] THEN lapsed \ {c}
    ELSE IF c \in Rows /\ Passed(upd[c]) THEN lapsed \cup {c}
    ELSE lapsed

\* Mutant: an object that is there already is left as it is.
BugUpsert(r) ==
    /\ pc[r] = "upsert"
    /\ \E c \in DOMAIN items[r] :
         /\ tenant' = [tenant EXCEPT ![c] = IF @ = 0 THEN items[r][c] ELSE @]
         /\ items' = [items EXCEPT ![r] = [d \in DOMAIN @ \ {c} |-> @[d]]]
         /\ lapsed' = Brought(c, items[r][c])
    /\ UNCHANGED <<now, pgVars, cursor, pc, pos, reconVars>>

\* upsert_case_batch: the chunks are posted one after the other. A chunk is
\* taken to be one Case.
Upsert(r) ==
    /\ pc[r] = "upsert"
    /\ \E c \in DOMAIN items[r] :
         /\ tenant' = [tenant EXCEPT ![c] = items[r][c]]
         /\ items' = [items EXCEPT ![r] = [d \in DOMAIN @ \ {c} |-> @[d]]]
         /\ lapsed' = Brought(c, items[r][c])
    /\ UNCHANGED <<now, pgVars, cursor, pc, pos, reconVars>>

\* The run ends and leaves a materialization with this cursor.
Materialize(r, mark) ==
    /\ cursor' = mark
    /\ pc' = [pc EXCEPT ![r] = "idle"]
    /\ pos' = [pos EXCEPT ![r] = NULL]
    /\ items' = [items EXCEPT ![r] = Nothing]
    /\ UNCHANGED <<now, pgVars, tenant, reconVars>>
    /\ lapsed' = {c \in lapsed : Passed(upd[c])'}

Finish(r) ==
    /\ pc[r] = "upsert"
    /\ items[r] = Nothing
    /\ Materialize(r, pos[r])

\* An HTTP error, FoundrySyncSkipped: _skipped materializes, without a cursor.
Skip(r) ==
    /\ Outages
    /\ pc[r] # "idle"
    /\ Materialize(r, NULL)

\* Any other exception, or the process dies: no materialization.
Fail(r) ==
    /\ Outages
    /\ pc[r] # "idle"
    /\ Materialize(r, cursor)

SyncStep(r) == ReadCursor(r) \/ FetchPage(r) \/ Upsert(r) \/ Finish(r)

-----------------------------------------------------------------------------
(* The reconcile run. *)

Objects == {c \in Cases : tenant[c] > 0}

BeginReconcile ==
    /\ Reconciles
    /\ rpc = "idle"
    /\ rpc' = "drain"
    /\ stayed' = Rows
    /\ UNCHANGED <<now, pgVars, tenant, cursor, lapsed, syncVars, rpos, keep, doomed>>

\* fetch_cases_for_sync(since=None).
KeepPage ==
    /\ rpc = "drain"
    /\ keep' = keep \cup Page(rpos)
    /\ rpos' = NextPos(rpos)
    /\ rpc' = IF Truncated(rpos) THEN "drain" ELSE "list"
    /\ stayed' = stayed \ Cut(rpos)
    /\ UNCHANGED <<now, pgVars, tenant, cursor, lapsed, syncVars, doomed>>

EndReconcile ==
    /\ rpc' = "idle"
    /\ rpos' = NULL
    /\ keep' = {}
    /\ doomed' = {}
    /\ stayed' = {}

\* An empty keep-set is taken for ignorance: nothing is evicted.
EmptyKeep ==
    /\ rpc = "list"
    /\ keep = {}
    /\ EndReconcile
    /\ UNCHANGED <<now, pgVars, tenant, cursor, lapsed, syncVars>>

\* The orphans in order, up to the cap.
Capped(orphans) ==
    {c \in orphans : Cardinality({d \in orphans : d < c}) < DeleteCap}

\* list_case_pks, then the diff with the keep-set read before it.
ListTenant ==
    /\ rpc = "list"
    /\ keep # {}
    /\ doomed' = Capped(Objects \ keep)
    /\ rpc' = "delete"
    /\ UNCHANGED <<now, pgVars, tenant, cursor, lapsed, syncVars, rpos, keep, stayed>>

\* delete_case_batch, a chunk of one Case at a time.
Evict ==
    /\ rpc = "delete"
    /\ \E c \in doomed :
         /\ tenant' = [tenant EXCEPT ![c] = 0]
         /\ doomed' = doomed \ {c}
         /\ lapsed' = IF c \in Rows /\ Passed(upd[c]) THEN lapsed \cup {c} ELSE lapsed
    /\ UNCHANGED <<now, pgVars, cursor, syncVars, rpc, rpos, keep, stayed>>

FinishReconcile ==
    /\ rpc = "delete"
    /\ doomed = {}
    /\ EndReconcile
    /\ UNCHANGED <<now, pgVars, tenant, cursor, lapsed, syncVars>>

FailReconcile ==
    /\ Outages
    /\ rpc # "idle"
    /\ EndReconcile
    /\ UNCHANGED <<now, pgVars, tenant, cursor, lapsed, syncVars>>

ReconcileStep ==
    BeginReconcile \/ KeepPage \/ EmptyKeep \/ ListTenant \/ Evict \/ FinishReconcile

-----------------------------------------------------------------------------

Next ==
    \/ Tick
    \/ \E c \in Cases : Begin(c) \/ Purge(c)
    \/ \E t \in open : Commit(t)
    \/ \E r \in Runs : SyncStep(r) \/ Skip(r) \/ Fail(r)
    \/ ReconcileStep \/ FailReconcile

Spec == Init /\ [][Next]_vars

\* The sensors keep firing and what has begun goes on, to its end or its error.
FairSpec ==
    /\ Spec
    /\ \A r \in Runs : WF_vars(SyncStep(r) \/ Skip(r) \/ Fail(r))
    /\ WF_vars(ReconcileStep \/ FailReconcile)

-----------------------------------------------------------------------------
(* Properties. *)

Marks == Nat \cup {NULL}

TypeOK ==
    /\ now \in Nat
    /\ ver \in [Cases -> Nat] /\ upd \in [Cases -> Nat]
    /\ purged \in SUBSET Cases
    /\ \A t \in open : t.case \in Cases /\ t.start \in Nat
    /\ tenant \in [Cases -> Nat]
    /\ cursor \in Marks
    /\ lapsed \in SUBSET Rows
    /\ pc \in [Runs -> {"idle", "drain", "upsert"}]
    /\ pos \in [Runs -> Marks]
    /\ DOMAIN items = Runs
    /\ \A r \in Runs : DOMAIN items[r] \subseteq Cases
                       /\ items[r] \in [DOMAIN items[r] -> Nat \ {0}]
    /\ rpc \in {"idle", "drain", "list", "delete"}
    /\ rpos \in Marks
    /\ keep \in SUBSET Cases /\ doomed \in SUBSET Cases /\ stayed \in SUBSET Cases

\* A row the cursor has passed is in the tenant as it is in Postgres
\* (incremental_sync_cases returns the cursor after the upserts), but for the
\* rows that lapsed: committed under a stamp the sync had passed, cut off by a
\* page that ended within their stamp, overwritten by the older copy of an
\* overlapping run, or evicted by a reconcile that began before them.
NothingMissed ==
    \A c \in Rows \ lapsed : cursor # NULL /\ upd[c] <= cursor => tenant[c] = ver[c]

\* A Case that was in Postgres all the while a reconcile ran is not evicted
\* by it, though pages move under its feet (reconcile_cases).
StayedIsKept ==
    rpc = "delete" => doomed \cap stayed = {}

\* Failing runs stop some day. (A skip can leave what a failure leaves.)
Calm ==
    <>[][(\E r \in Runs : Skip(r) \/ Fail(r)) \/ FailReconcile
            => (\E r \in Runs : SyncStep(r)) \/ ReconcileStep]_vars

\* If runs eventually stop failing, the tenant ends up with every row as it
\* is, unless the row has lapsed (foundry_cases_sync), and without the rows
\* that were purged, unless none is left (foundry_cases_reconcile).
Mirrored ==
    Calm => <>[](Rows # {} => /\ \A c \in Rows \ lapsed : tenant[c] = ver[c]
                              /\ Objects \cap purged = {})
=============================================================================
