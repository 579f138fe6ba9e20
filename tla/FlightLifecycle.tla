-------------------------- MODULE FlightLifecycle --------------------------
(***************************************************************************)
(* A flight from takeoff to the end of its retention: the Flight objects   *)
(* of the Foundry tenant and the flights_archive cold store, and the jobs  *)
(* that write them. foundry_positions_sync detects takeoffs and landings   *)
(* (FlightLifecycleDetector), foundry_flight_enrichment re-upserts the     *)
(* newest leg of each aircraft, foundry_flight_reconcile deletes stubs and *)
(* maintains isLive, foundry_flight_archive moves what has landed to the   *)
(* cold store, foundry_flight_archive_purge drops old partitions.          *)
(*                                                                         *)
(* Each job has its own schedule and an overlap guard against itself at    *)
(* most; nothing orders one against another. Every write is an upsert that *)
(* creates what is not there.                                              *)
(***************************************************************************)
EXTENDS Integers, FiniteSets

CONSTANTS
    Aircraft,       \* icao24s
    Others,         \* whether aircraft outside Aircraft are in the air
    Ticks,          \* positions runs that can be under way at once
    None,           \* no landed_at, no open flight / Python None
    TTL,            \* _FLIGHT_RECONCILE_TTL
    Grace,          \* _ARCHIVE_GRACE
    Retention,      \* _ARCHIVE_RETENTION
    Day,            \* ticks of the clock in a day partition
    DeleteCap,      \* _FLIGHT_RECONCILE_DELETE_CAP
    ArchiveCap,     \* _ARCHIVE_DELETE_CAP
    IsLiveEnabled,  \* FOUNDRY_FLIGHT_ISLIVE_ENABLED
    Jobs,           \* which of AllJobs the scheduler starts
    Outages,        \* which of AllJobs may be skipped or die under way
    MaxTime         \* bound on the clock

AllJobs == {"positions", "enrichment", "reconcile", "archive", "purge"}

ASSUME FlightAssumption ==
    /\ None \notin Nat /\ None \notin (Aircraft \X Nat) \X Nat
    /\ {TTL, Grace, Retention, MaxTime} \subseteq Nat
    /\ {Day, DeleteCap, ArchiveCap} \subseteq Nat \ {0}
    /\ Jobs \subseteq AllJobs /\ Outages \subseteq AllJobs
    /\ {IsLiveEnabled, Others} \subseteq BOOLEAN

Time    == 0 .. MaxTime
Flights == Aircraft \X Time   \* {icao24}-{unix_takeoff_ts}

VARIABLES
    now,        \* the clock
    phase,      \* what the feed says of each aircraft
    \* the Flight objects of the tenant
    tenant,     \* their primary keys
    landedAt,   \* landedAt of each, None also for what is not there
    live,       \* those with isLive = true
    cold,       \* rows of flights_archive: <<flight, landed_at>>
    saved,      \* the detector's maps in the latest materialization
    \* the positions runs
    tpc,        \* where each stands
    was,        \* _on_ground: "unseen" for no entry
    open,       \* _open_flight: the takeoff of the open leg, or None
    off,        \* takeoffs still to write
    down,       \* landings still to write: <<flight, landed_at>>
    overtaken,  \* history, read by no guard: legs open to another run, or in
                \* the saved maps, when a run found a later takeoff
    \* the enrichment run
    fetched,    \* legs it holds details of
    \* the reconcile run
    rpc,
    airborne,   \* the airborne aircraft of the feed it read
    cutoff,     \* now - TTL
    gone,       \* stubs to delete
    lit,        \* legs to mark isLive = true
    dim,        \* legs to mark isLive = false
    \* the archive run
    apc,
    begun,      \* its now
    unread,     \* what its scan has not come to
    row,        \* the row in hand
    count       \* archived

world    == <<now, phase>>
objects  == <<tenant, landedAt, live>>
tickVars == <<tpc, was, open, off, down, overtaken>>
recVars  == <<rpc, airborne, cutoff, gone, lit, dim>>
arcVars  == <<apc, begun, unread, row, count>>
vars == <<world, objects, cold, saved, tickVars, fetched, recVars, arcVars>>

NoState == [was |-> [a \in Aircraft |-> "unseen"],
            open |-> [a \in Aircraft |-> None]]

Init ==
    /\ now = 0
    /\ phase \in [Aircraft -> {"ground", "air"}]
    /\ tenant = {}
    /\ landedAt = [f \in Flights |-> None]
    /\ live = {}
    /\ cold = {}
    /\ saved = NoState
    /\ tpc = [p \in Ticks |-> "idle"]
    /\ was = [p \in Ticks |-> NoState.was]
    /\ open = [p \in Ticks |-> NoState.open]
    /\ off = [p \in Ticks |-> {}]
    /\ down = [p \in Ticks |-> {}]
    /\ overtaken = {}
    /\ fetched = {}
    /\ rpc = "idle" /\ airborne = {} /\ cutoff = 0
    /\ gone = {} /\ lit = {} /\ dim = {}
    /\ apc = "idle" /\ begun = 0 /\ unread = {} /\ row = None /\ count = 0

-----------------------------------------------------------------------------
(* The sky. Two reports of one aircraft that differ have different stamps. *)

Pass ==
    /\ now < MaxTime
    /\ now' = now + 1
    /\ UNCHANGED <<phase, objects, cold, saved, tickVars, fetched, recVars, arcVars>>

Move(a) ==
    /\ now < MaxTime
    /\ now' = now + 1
    /\ phase' = [phase EXCEPT ![a] = IF @ = "air" THEN "ground" ELSE "air"]
    /\ UNCHANGED <<objects, cold, saved, tickVars, fetched, recVars, arcVars>>

-----------------------------------------------------------------------------
(* The Actions of the tenant. upsert-flight modifies or creates, and leaves *)
(* a parameter that is not given as it is.                                  *)

\* landing = None: landed_at is not given.
Upsert(f, landing, lives) ==
    /\ tenant' = tenant \cup {f}
    /\ landedAt' = IF landing = None THEN landedAt
                                     ELSE [landedAt EXCEPT ![f] = landing]
    /\ live' = lives

Lit(f)    == IF IsLiveEnabled THEN live \cup {f} ELSE live
Dimmed(f) == IF IsLiveEnabled THEN live \ {f} ELSE live

Delete(f) ==
    /\ tenant' = tenant \ {f}
    /\ landedAt' = [landedAt EXCEPT ![f] = None]
    /\ live' = live \ {f}

-----------------------------------------------------------------------------
(* foundry_positions_sync.                                                 *)

TickStart(p) ==
    /\ "positions" \in Jobs
    /\ tpc[p] = "idle"
    /\ tpc' = [tpc EXCEPT ![p] = "fetch"]
    /\ was' = [was EXCEPT ![p] = saved.was]
    /\ open' = [open EXCEPT ![p] = saved.open]
    /\ UNCHANGED <<world, objects, cold, saved, off, down, overtaken, fetched, recVars, arcVars>>

\* FlightLifecycleDetector.observe over the batch H: aircraft that it puts in
\* the air, and aircraft that it puts on the ground.
Departs(p, H) == {a \in H : was[p][a] = "ground" /\ phase[a] = "air"}
Arrives(p, H) == {a \in H : was[p][a] = "air" /\ phase[a] = "ground"}

\* The maps after it, restricted to the batch.
WasNext(H)     == [a \in Aircraft |-> IF a \in H THEN phase[a] ELSE "unseen"]
\* Mutant: an aircraft that is not heard of keeps its open leg.
BugOpenNext(p, H) == [a \in Aircraft |->
    CASE a \in Departs(p, H) -> now
      [] a \in Arrives(p, H) -> None
      [] OTHER               -> open[p][a]]

OpenNext(p, H) == [a \in Aircraft |->
    CASE a \in Departs(p, H) -> now
      [] a \in Arrives(p, H) -> None
      [] OTHER               -> IF a \in H THEN open[p][a] ELSE None]

\* Run p finds a takeoff of an aircraft while a run beside it, or the maps that
\* one has saved since p began, hold an open leg of the aircraft: its landing is
\* still to be seen there, or its takeoff is the one that p finds again.
Overtaken(p, H) ==
    {f \in Flights :
        /\ f[1] \in Departs(p, H) /\ f[2] \notin {now, open[p][f[1]]}
        /\ f[2] \in {saved.open[f[1]]} \cup {open[q][f[1]] : q \in Ticks}}

\* The feed has the aircraft that were heard of lately.
TickFetch(p) ==
    /\ tpc[p] = "fetch"
    /\ \E H \in SUBSET Aircraft :
         /\ was' = [was EXCEPT ![p] = WasNext(H)]
         /\ open' = [open EXCEPT ![p] = OpenNext(p, H)]
         /\ off' = [off EXCEPT ![p] = {<<a, now>> : a \in Departs(p, H)}]
         /\ down' = [down EXCEPT ![p] =
              {<<<<a, open[p][a]>>, now>> : a \in {b \in Arrives(p, H) : open[p][b] # None}}]
         /\ overtaken' = overtaken \cup Overtaken(p, H)
    /\ tpc' = [tpc EXCEPT ![p] = "write"]
    /\ UNCHANGED <<world, objects, cold, saved, fetched, recVars, arcVars>>

\* takeoff_to_flight: landed_at is None, is_live is True.
TickTakeoff(p, f) ==
    /\ tpc[p] = "write" /\ f \in off[p]
    /\ Upsert(f, None, Lit(f))
    /\ off' = [off EXCEPT ![p] = @ \ {f}]
    /\ UNCHANGED <<world, cold, saved, tpc, was, open, down, overtaken, fetched, recVars, arcVars>>

\* stamp_flight_landed_batch, after all the takeoffs.
TickLanding(p, l) ==
    /\ tpc[p] = "write" /\ off[p] = {} /\ l \in down[p]
    /\ Upsert(l[1], l[2], Dimmed(l[1]))
    /\ down' = [down EXCEPT ![p] = @ \ {l}]
    /\ UNCHANGED <<world, cold, saved, tpc, was, open, off, overtaken, fetched, recVars, arcVars>>

EndTick(p) ==
    /\ tpc' = [tpc EXCEPT ![p] = "idle"]
    /\ was' = [was EXCEPT ![p] = NoState.was]
    /\ open' = [open EXCEPT ![p] = NoState.open]
    /\ off' = [off EXCEPT ![p] = {}]
    /\ down' = [down EXCEPT ![p] = {}]
    /\ UNCHANGED <<world, objects, cold, overtaken, fetched, recVars, arcVars>>

TickSave(p) ==
    /\ tpc[p] = "write" /\ off[p] = {} /\ down[p] = {}
    /\ saved' = [was |-> was[p], open |-> open[p]]
    /\ EndTick(p)

\* FoundrySyncSkipped: the materialization of a skip has neither map.
TickSkip(p) ==
    /\ "positions" \in Outages
    /\ tpc[p] # "idle"
    /\ saved' = NoState
    /\ EndTick(p)

\* The run dies: nothing is materialized.
TickFail(p) ==
    /\ "positions" \in Outages
    /\ tpc[p] # "idle"
    /\ UNCHANGED saved
    /\ EndTick(p)

-----------------------------------------------------------------------------
(* foundry_flight_enrichment. /v1/flights answers for the aircraft that    *)
(* were heard of lately, and its status_timeline is always empty: what     *)
(* flight_detail_to_flight makes of it has no landed_at and no is_live.    *)

Newest(S) == {f \in S : \A g \in S : g[1] = f[1] => g[2] <= f[2]}

\* The aircraft of H were heard of; the others are a 404 or an error.
EnrichFetch(H) ==
    /\ "enrichment" \in Jobs
    /\ fetched = {}
    /\ fetched' = {f \in Newest(tenant) : f[1] \in H}
    /\ UNCHANGED <<world, objects, cold, saved, tickVars, recVars, arcVars>>

EnrichUpsert(f) ==
    /\ f \in fetched
    /\ Upsert(f, None, live)
    /\ fetched' = fetched \ {f}
    /\ UNCHANGED <<world, cold, saved, tickVars, recVars, arcVars>>

EnrichSkip ==
    /\ "enrichment" \in Outages
    /\ fetched # {}
    /\ fetched' = {}
    /\ UNCHANGED <<world, objects, cold, saved, tickVars, recVars, arcVars>>

-----------------------------------------------------------------------------
(* foundry_flight_reconcile.                                               *)

\* A feed with nobody in the air ends the run.
ReconcileFetch ==
    /\ "reconcile" \in Jobs
    /\ rpc = "idle"
    /\ \E H \in SUBSET Aircraft :
         airborne' = {a \in H : phase[a] = "air"}
    /\ airborne' # {} \/ Others
    /\ cutoff' = now - TTL
    /\ rpc' = "scan"
    /\ UNCHANGED <<world, objects, cold, saved, tickVars, fetched, gone, lit, dim, arcVars>>

Completed == {f \in tenant : landedAt[f] # None}

LatestAirborne == {f \in Newest(tenant) : f[1] \in airborne}
\* Mutant: no TTL.
BugKeep == LatestAirborne

Keep           == {f \in tenant : f[2] >= cutoff} \cup LatestAirborne
StubOrphans    == (tenant \ Keep) \ Completed
\* Mutant: the newest leg of an aircraft in the air is live, landed or not.
BugTarget == LatestAirborne

TargetLive     == LatestAirborne \ Completed

\* to_delete: the first DeleteCap of them.
Capped(S) == {T \in SUBSET S :
                IF Cardinality(S) <= DeleteCap THEN T = S
                                               ELSE Cardinality(T) = DeleteCap}

ReconcileScan ==
    /\ rpc = "scan"
    /\ gone' \in Capped(StubOrphans)
    /\ lit' = IF IsLiveEnabled THEN TargetLive \ live ELSE {}
    /\ dim' = IF IsLiveEnabled THEN (live \ TargetLive) \ gone' ELSE {}
    /\ rpc' = "write" /\ airborne' = {} /\ cutoff' = 0
    /\ UNCHANGED <<world, objects, cold, saved, tickVars, fetched, arcVars>>

ReconcileDelete(f) ==
    /\ rpc = "write" /\ f \in gone
    /\ Delete(f)
    /\ gone' = gone \ {f}
    /\ UNCHANGED <<world, cold, saved, tickVars, fetched, rpc, airborne, cutoff, lit, dim, arcVars>>

\* set_flight_live_batch, after the deletes; first the true ones.
ReconcileLight(f) ==
    /\ rpc = "write" /\ gone = {} /\ f \in lit
    /\ Upsert(f, None, Lit(f))
    /\ lit' = lit \ {f}
    /\ UNCHANGED <<world, cold, saved, tickVars, fetched, rpc, airborne, cutoff, gone, dim, arcVars>>

ReconcileDim(f) ==
    /\ rpc = "write" /\ gone = {} /\ lit = {} /\ f \in dim
    /\ Upsert(f, None, Dimmed(f))
    /\ dim' = dim \ {f}
    /\ UNCHANGED <<world, cold, saved, tickVars, fetched, rpc, airborne, cutoff, gone, lit, arcVars>>

EndReconcile ==
    /\ rpc' = "idle" /\ airborne' = {} /\ cutoff' = 0
    /\ gone' = {} /\ lit' = {} /\ dim' = {}
    /\ UNCHANGED <<world, objects, cold, saved, tickVars, fetched, arcVars>>

ReconcileDone ==
    /\ rpc = "write" /\ gone = {} /\ lit = {} /\ dim = {}
    /\ EndReconcile

ReconcileSkip ==
    /\ "reconcile" \in Outages
    /\ rpc # "idle"
    /\ EndReconcile

-----------------------------------------------------------------------------
(* foundry_flight_archive and foundry_flight_archive_purge.                *)

ArchiveStart ==
    /\ "archive" \in Jobs
    /\ apc = "idle"
    /\ apc' = "page"
    /\ begun' = now
    /\ unread' = tenant
    /\ UNCHANGED <<world, objects, cold, saved, tickVars, fetched, recVars, row, count>>

\* The flights that may be archived: landed, and longer ago than the grace.
\* Mutants: no grace; what is in the store already is passed over; a leg with
\* no landing counts as an old one.
BugGrace(f)    == f \in Completed /\ landedAt[f] <= begun
BugPassOver(f) == /\ f \in Completed /\ landedAt[f] < begun - Grace
                  /\ \A r \in cold : r[1] # f
BugNoLanding(f) == f \in tenant /\ (landedAt[f] = None \/ landedAt[f] < begun - Grace)

Settled(f) == f \in Completed /\ landedAt[f] < begun - Grace

\* A page of iter_completed_flights is one object here.
ArchivePage(f) ==
    /\ apc = "page" /\ count < ArchiveCap /\ f \in unread
    /\ unread' = unread \ {f}
    /\ IF Settled(f)
         THEN row' = <<f, landedAt[f]>> /\ apc' = "store"
         ELSE UNCHANGED <<row, apc>>
    /\ UNCHANGED <<world, objects, cold, saved, tickVars, fetched, recVars, begun, count>>

\* write_flights_archive and the read that verifies it: what cannot be read
\* back raises, which is ArchiveFail before or after this.
ArchiveStore ==
    /\ apc = "store"
    /\ cold' = cold \cup {row}
    /\ count' = count + 1
    /\ apc' = "delete"
    /\ UNCHANGED <<world, objects, saved, tickVars, fetched, recVars, begun, unread, row>>

ArchiveDelete ==
    /\ apc = "delete"
    /\ Delete(row[1])
    /\ row' = None
    /\ apc' = "page"
    /\ UNCHANGED <<world, cold, saved, tickVars, fetched, recVars, begun, unread, count>>

EndArchive ==
    /\ apc' = "idle" /\ begun' = 0 /\ unread' = {} /\ row' = None /\ count' = 0
    /\ UNCHANGED <<world, objects, cold, saved, tickVars, fetched, recVars>>

ArchiveDone ==
    /\ apc = "page" /\ (unread = {} \/ count >= ArchiveCap)
    /\ EndArchive

ArchiveFail ==
    /\ "archive" \in Outages
    /\ apc # "idle"
    /\ EndArchive

Date(t) == t \div Day

\* A partition goes as a whole, by the date of the landing.
Expired(t) == Date(t) < Date(now - Retention)

Purge ==
    /\ "purge" \in Jobs
    /\ cold' = {r \in cold : ~Expired(r[2])}
    /\ cold' # cold
    /\ UNCHANGED <<world, objects, saved, tickVars, fetched, recVars, arcVars>>

-----------------------------------------------------------------------------
Sky == Pass \/ \E a \in Aircraft : Move(a)

PositionsRun(p) ==
    \/ TickStart(p) \/ TickFetch(p) \/ TickSave(p) \/ TickSkip(p) \/ TickFail(p)
    \/ \E f \in off[p] : TickTakeoff(p, f)
    \/ \E l \in down[p] : TickLanding(p, l)

EnrichmentRun ==
    \/ \E H \in SUBSET Aircraft : EnrichFetch(H)
    \/ \E f \in fetched : EnrichUpsert(f)
    \/ EnrichSkip

ReconcileRun ==
    \/ ReconcileFetch \/ ReconcileScan \/ ReconcileDone \/ ReconcileSkip
    \/ \E f \in gone : ReconcileDelete(f)
    \/ \E f \in lit : ReconcileLight(f)
    \/ \E f \in dim : ReconcileDim(f)

ArchiveRun ==
    \/ ArchiveStart \/ ArchiveStore \/ ArchiveDelete \/ ArchiveDone \/ ArchiveFail
    \/ \E f \in unread : ArchivePage(f)

Next ==
    \/ Sky
    \/ \E p \in Ticks : PositionsRun(p)
    \/ EnrichmentRun \/ ReconcileRun \/ ArchiveRun \/ Purge

Spec == Init /\ [][Next]_vars

-----------------------------------------------------------------------------
Phases == {"ground", "air"}
Maps   == [was : [Aircraft -> Phases \cup {"unseen"}],
           open : [Aircraft -> Time \cup {None}]]

(* What every variable holds. *)
TypeOK ==
    /\ now \in Time
    /\ phase \in [Aircraft -> Phases]
    /\ tenant \subseteq Flights
    /\ landedAt \in [Flights -> Time \cup {None}]
    /\ live \subseteq tenant
    /\ cold \subseteq Flights \X Time
    /\ saved \in Maps
    /\ tpc \in [Ticks -> {"idle", "fetch", "write"}]
    /\ was \in [Ticks -> [Aircraft -> Phases \cup {"unseen"}]]
    /\ open \in [Ticks -> [Aircraft -> Time \cup {None}]]
    /\ off \in [Ticks -> SUBSET Flights]
    /\ down \in [Ticks -> SUBSET (Flights \X Time)]
    /\ overtaken \subseteq Flights
    /\ fetched \subseteq Flights
    /\ rpc \in {"idle", "scan", "write"}
    /\ airborne \subseteq Aircraft
    /\ cutoff \in Int
    /\ {gone, lit, dim} \subseteq SUBSET Flights
    /\ apc \in {"idle", "page", "store", "delete"}
    /\ begun \in Time
    /\ unread \subseteq Flights
    /\ row \in (Flights \X Time) \cup {None}
    /\ count \in 0 .. ArchiveCap

(* A landing belongs to the leg it is stamped on: it comes after that leg's *)
(* takeoff, and no leg of the same aircraft took off in between, whatever   *)
(* runs were skipped, died or overlapped in the meantime. The exception is  *)
(* a leg that a positions run, or the maps it saved, had open when another  *)
(* run began the next one: it may be stamped yet, by whoever reads them.    *)
Known == tenant \cup {r[1] : r \in cold}

StampsOwnLeg ==
    \A f \in Completed :
        /\ f[2] < landedAt[f]
        /\ f \notin overtaken =>
             \A g \in Known : g[1] = f[1] /\ g[2] > f[2] => g[2] > landedAt[f]

(* A Flight leaves the tenant only when its row is in the cold store, or    *)
(* was there and is past its retention, or more than the TTL after takeoff. *)
Leaves(f) == f \in tenant /\ f \notin tenant'

LeavesSafely ==
    [][\A f \in Flights : Leaves(f) =>
          \/ \E r \in cold : r[1] = f
          \/ apc = "delete" /\ row[1] = f /\ Expired(row[2])
          \/ f[2] < now - TTL]_vars

(* What is in the cold store landed longer ago than the grace: nothing is   *)
(* archived while a correction of its landing may be under way.             *)
ArchivedIsSettled == \A r \in cold : r[1][2] < r[2] /\ r[2] < now - Grace

-----------------------------------------------------------------------------
(* Why they hold: the inductive invariant, in parts.                        *)

\* A leg is open only on an aircraft last seen in the air, and took off
\* before the aircraft came down.
OpenSound(w, o) ==
    \A a \in Aircraft : o[a] # None =>
        /\ w[a] = "air"
        /\ o[a] <= now
        /\ phase[a] = "ground" => o[a] < now

MapsSound ==
    /\ OpenSound(saved.was, saved.open)
    /\ \A p \in Ticks : OpenSound(was[p], open[p])

\* A landing comes after the takeoff and is not in the future.
LandsAfter(f, t) ==
    /\ f[2] < t /\ t <= now
    /\ phase[f[1]] = "air" => t < now

LandingsSound ==
    /\ \A f \in Flights : landedAt[f] # None => LandsAfter(f, landedAt[f])
    /\ \A p \in Ticks : \A l \in down[p] : LandsAfter(l[1], l[2])

\* What the archive run has in hand may be archived, and is before it goes.
RowSound ==
    /\ apc # "idle" => begun <= now
    /\ apc = "store" => count < ArchiveCap
    /\ apc \in {"store", "delete"} =>
         /\ row # None
         /\ row[1][2] < row[2] /\ row[2] < now - Grace
    /\ apc = "delete" => row \in cold \/ Expired(row[2])

\* The reconcile run deletes what is past the TTL.
GoneSound ==
    /\ rpc = "scan" => cutoff <= now - TTL
    /\ \A f \in gone : f[2] < now - TTL

IInv ==
    /\ TypeOK /\ ArchivedIsSettled
    /\ MapsSound /\ LandingsSound /\ RowSound /\ GoneSound

\* And about the legs that any job knows of, whatever it does with them yet.
Leg(g) ==
    \/ g \in Known \cup fetched \cup gone \cup lit \cup dim
    \/ row # None /\ g = row[1]
    \/ saved.open[g[1]] = g[2]
    \/ \E p \in Ticks :
         \/ g \in off[p]
         \/ \E l \in down[p] : g = l[1]
         \/ open[p][g[1]] = g[2]

Legs == {g \in Flights : Leg(g)}

NoneNewer(f, t) == \A g \in Legs : g[1] = f[1] /\ g[2] > f[2] => g[2] > t

OpenIsNewest(o) ==
    \A a \in Aircraft : o[a] # None /\ <<a, o[a]>> \notin overtaken =>
        \A g \in Legs : g[1] = a => g[2] <= o[a]

LegInv ==
    /\ \A g \in Legs : g[2] <= now
    /\ \A f \in Flights \ overtaken : landedAt[f] # None => NoneNewer(f, landedAt[f])
    /\ \A p \in Ticks : \A l \in down[p] : l[1] \in overtaken \/ NoneNewer(l[1], l[2])
    /\ OpenIsNewest(saved.open)
    /\ \A p \in Ticks : OpenIsNewest(open[p])

-----------------------------------------------------------------------------
(* The schedules keep starting runs of the reconcile and the archive job,  *)
(* and a run that is under way goes on or ends: every call in it has a     *)
(* timeout. Time passes.                                                   *)
SweepFair == WF_vars(ReconcileRun)

ArchiveFair ==
    /\ WF_vars(Sky)
    /\ WF_vars(ArchiveStart) /\ WF_vars(ArchiveStore)
    /\ WF_vars(ArchiveDelete) /\ WF_vars(ArchiveDone)
    /\ \A f \in Flights : WF_vars(ArchivePage(f))

FairSpec == Spec /\ SweepFair /\ ArchiveFair

\* From some time on no run of these jobs fails.
ArchiveRecovers   == <>[][ArchiveFail => ArchiveDone]_vars
ReconcileRecovers == <>[][ReconcileSkip => ReconcileDone]_vars

\* Its landing is too near the bound on the clock to settle.
Late(f) == landedAt[f] # None /\ landedAt[f] >= MaxTime - Grace

(* A flight that landed leaves the tenant once the archive runs get         *)
(* through, whatever the caps and the runs that died half way left behind.  *)
EventuallyArchived ==
    ArchiveRecovers =>
        \A f \in Flights :
            f \in Completed ~> f \notin tenant \/ Late(f)

(* A leg that has landed does not stay marked as live: whatever order the   *)
(* landing and a sweep wrote in, a later sweep takes the mark away.         *)
EventuallyDim ==
    ReconcileRecovers =>
        \A f \in Flights : (f \in Completed \cap live) ~> f \notin Completed \cap live
=============================================================================
