------------------------------ MODULE CasePush ------------------------------
(***************************************************************************)
(* The push half of the Case sync: CaseSyncService.push_pending            *)
(* (api/app/services/case_sync.py) with SalesforceService.create_case      *)
(* (api/app/services/salesforce.py).                                       *)
(*                                                                         *)
(* A pass is one POST /v1/cases/sync-pending request. Passes overlap: the  *)
(* sensor fires every minute and nothing waits for the previous request,   *)
(* so push_pending serialises itself with a session advisory lock. A pass  *)
(* reads a batch of pending rows once, then makes one slow Salesforce call *)
(* per row and records its outcome in a transaction of its own.            *)
(*                                                                         *)
(* The environment is as hostile as the constant Faults says. Every fault  *)
(* is a place where an exception leaves the loop of _push_pending_locked   *)
(* (the finally clause then unlocks), or a crash of the process.           *)
(***************************************************************************)
EXTENDS Naturals, FiniteSets

CONSTANTS
    Cases,          \* case ids of app.cases
    High,           \* the Cases the detector files with severity "high"
    Passes,         \* push requests that can be under way at once
    SfIds,          \* record ids Salesforce can hand out
    NULL,           \* SQL NULL / Python None
    MAX_ATTEMPTS,   \* case_sync.MAX_ATTEMPTS
    Limit,          \* the `limit` argument of push_pending
    Faults,         \* which exceptional outcomes the environment produces
    MaxLockLosses   \* bound: how many times a lock session is lost

AllFaults ==
    { "network",    \* requests raises its own exception: not a SalesforceError
      "recordtype", \* the RecordType query raises, outside the try block
      "lookup",     \* the adopt query raises, inside the except handler
      "hidden",     \* the adopt query returns no record
      "postgres",   \* a _fetch_pending or a _mark_* transaction raises
      "crash" }     \* the API process dies

ASSUME PushAssumption ==
    /\ IsFiniteSet(Cases)
    /\ High \subseteq Cases
    /\ NULL \notin SfIds /\ NULL \notin Cases /\ NULL \notin Passes
    /\ MAX_ATTEMPTS \in Nat \ {0}
    /\ Limit \in Nat \ {0}
    /\ Faults \subseteq AllFaults
    /\ MaxLockLosses \in Nat

VARIABLES
    \* app.cases and app.case_timeline
    syncStatus,     \* sf_sync_status; "absent" before the row is inserted
    attempts,       \* sf_sync_attempts
    sfId,           \* salesforce_id
    born,           \* created_at, as the row's place in insertion order
    timeline,       \* how many events of each sf_* type the Case has
    \* the advisory lock
    lock,           \* the pass whose session holds _PUSH_LOCK_KEY, or NULL
    lockLosses,     \* how often a lock session died under its pass
    \* the passes
    pc,             \* where each pass stands
    todo,           \* rows of its batch it has not finished
    snap,           \* sf_sync_attempts of each batch row, as fetched
    cur,            \* the row it is working on
    ref,            \* the Salesforce id its create call returned
    \* Salesforce
    sf,             \* sf[c]: id of the record with AFM_External_Id__c = c
    orphans         \* creates still under way after their caller gave up

rowVars  == <<syncStatus, attempts, sfId, born, timeline>>
lockVars == <<lock, lockLosses>>
passVars == <<pc, todo, snap, cur, ref>>
sfVars   == <<sf, orphans>>
vars     == <<rowVars, lockVars, passVars, sfVars>>

EventTypes == {"sf_synced", "sf_sync_retry", "sf_sync_failed"}

NoEvents == [e \in EventTypes |-> 0]

Init ==
    /\ syncStatus = [c \in Cases |-> "absent"]
    /\ attempts = [c \in Cases |-> 0]
    /\ sfId = [c \in Cases |-> NULL]
    /\ born = [c \in Cases |-> 0]
    /\ timeline = [c \in Cases |-> NoEvents]
    /\ lock = NULL
    /\ lockLosses = 0
    /\ pc = [p \in Passes |-> "idle"]
    /\ todo = [p \in Passes |-> {}]
    /\ snap = [p \in Passes |-> [c \in Cases |-> 0]]
    /\ cur = [p \in Passes |-> NULL]
    /\ ref = [p \in Passes |-> NULL]
    /\ sf = [c \in Cases |-> NULL]
    /\ orphans = {}

-----------------------------------------------------------------------------
(* The detector's insert. *)

Rows == {c \in Cases : syncStatus[c] # "absent"}

\* run_case_detection inserts the row and its 'created' event in one
\* transaction; SF_PUSH_SEVERITIES decides whether it is ever pushed.
InsertCase(c) ==
    /\ syncStatus[c] = "absent"
    /\ syncStatus' = [syncStatus EXCEPT ![c] =
                        IF c \in High THEN "pending" ELSE "skipped"]
    /\ born' = [born EXCEPT ![c] = Cardinality(Rows) + 1]
    /\ UNCHANGED <<attempts, sfId, timeline, lockVars, passVars, sfVars>>

-----------------------------------------------------------------------------
(* A pass: lock, fetch, unlock. *)

\* POST /v1/cases/sync-pending reaches push_pending.
Begin(p) ==
    /\ pc[p] = "idle"
    /\ pc' = [pc EXCEPT ![p] = "lock"]
    /\ UNCHANGED <<rowVars, lockVars, todo, snap, cur, ref, sfVars>>

\* Mutant: the pass proceeds whether or not it got the lock.
BugTryLockIgnored(p) ==
    /\ pc[p] = "lock"
    /\ lock' = p
    /\ pc' = [pc EXCEPT ![p] = "fetch"]
    /\ UNCHANGED <<rowVars, lockLosses, todo, snap, cur, ref, sfVars>>

\* _try_lock: pg_try_advisory_lock on a connection held for the whole pass.
TryLock(p) ==
    /\ pc[p] = "lock"
    /\ lock = NULL
    /\ lock' = p
    /\ pc' = [pc EXCEPT ![p] = "fetch"]
    /\ UNCHANGED <<rowVars, lockLosses, todo, snap, cur, ref, sfVars>>

\* Another session holds it: the pass reports zeros and returns.
SkipLocked(p) ==
    /\ pc[p] = "lock"
    /\ lock # NULL
    /\ pc' = [pc EXCEPT ![p] = "idle"]
    /\ UNCHANGED <<rowVars, lockVars, todo, snap, cur, ref, sfVars>>

Pending == {c \in Cases : syncStatus[c] = "pending"}

\* The first Limit pending rows by created_at.
IsBatch(batch) ==
    /\ batch \subseteq Pending
    /\ Cardinality(batch) <= Limit
    /\ \/ batch = Pending
       \/ Cardinality(batch) = Limit
    /\ \A c \in batch, d \in Pending \ batch : born[c] <= born[d]

\* _fetch_pending: the batch and its attempt counts are read once per pass.
FetchPending(p) ==
    /\ pc[p] = "fetch"
    /\ \E batch \in SUBSET Pending :
         /\ IsBatch(batch)
         /\ todo' = [todo EXCEPT ![p] = batch]
         /\ snap' = [snap EXCEPT ![p] = [c \in Cases |->
                        IF c \in batch THEN attempts[c] ELSE 0]]
    /\ pc' = [pc EXCEPT ![p] = "row"]
    /\ UNCHANGED <<rowVars, lockVars, cur, ref, sfVars>>

\* The loop takes the rows of the batch in the order they were read.
NextRow(p) ==
    /\ pc[p] = "row"
    /\ \E c \in todo[p] :
         /\ \A d \in todo[p] : born[c] <= born[d]
         /\ cur' = [cur EXCEPT ![p] = c]
    /\ pc' = [pc EXCEPT ![p] = "prepare"]
    /\ UNCHANGED <<rowVars, lockVars, todo, snap, ref, sfVars>>

\* The local variables of _push_pending_locked go with it.
Forget(p) ==
    /\ todo' = [todo EXCEPT ![p] = {}]
    /\ snap' = [snap EXCEPT ![p] = [c \in Cases |-> 0]]
    /\ cur' = [cur EXCEPT ![p] = NULL]
    /\ ref' = [ref EXCEPT ![p] = NULL]

\* _push_pending_locked is left, by its return or by an exception it does not
\* catch; the finally clause of push_pending is next.
LeaveLoop(p) ==
    /\ pc' = [pc EXCEPT ![p] = "unlock"]
    /\ Forget(p)
    /\ UNCHANGED <<rowVars, lockVars>>

BatchDone(p) ==
    /\ pc[p] = "row"
    /\ todo[p] = {}
    /\ LeaveLoop(p)
    /\ UNCHANGED sfVars

\* Mutant: no finally clause, so the session returns to the pool locked.
BugReleaseNothing(p) == lock' = lock

\* Advisory locks belong to the session: ending one pass never frees a lock
\* that another session holds.
Release(p) == lock' = IF lock = p THEN NULL ELSE lock

\* _unlock, in the finally clause of push_pending.
Unlock(p) ==
    /\ pc[p] = "unlock"
    /\ Release(p)
    /\ pc' = [pc EXCEPT ![p] = "idle"]
    /\ UNCHANGED <<rowVars, lockLosses, todo, snap, cur, ref, sfVars>>

-----------------------------------------------------------------------------
(* One row: SalesforceService.create_case. *)

Raise(p, at) ==
    /\ pc' = [pc EXCEPT ![p] = at]
    /\ UNCHANGED <<rowVars, lockVars, todo, snap, cur, ref>>

\* Everything before the request leaves: _to_payload, the token, the RecordType
\* id, the region. A missing token or RecordType is UpstreamUnavailable, an
\* unknown region BadRequest.
Prepare(p) ==
    /\ pc[p] = "prepare"
    /\ \/ Raise(p, "wait")
       \/ Raise(p, "transient")
       \/ Raise(p, "permanent")
    /\ UNCHANGED sfVars

\* An error of the RecordType query itself is raised outside the try block of
\* _create_case_sync and stays a SalesforceError (as a payload that pydantic
\* rejects stays a ValidationError): nothing in the loop catches it.
RecordTypeError(p) ==
    /\ "recordtype" \in Faults
    /\ pc[p] = "prepare"
    /\ LeaveLoop(p)
    /\ UNCHANGED sfVars

\* Salesforce hands out an id it never used.
NewId(i) == i \in SfIds /\ \A c \in Cases : sf[c] # i

\* A 2xx reply: the record exists and the caller knows its id.
CreateOk(p) ==
    /\ pc[p] = "wait"
    /\ sf[cur[p]] = NULL
    /\ \E i \in SfIds :
         /\ NewId(i)
         /\ sf' = [sf EXCEPT ![cur[p]] = i]
         /\ ref' = [ref EXCEPT ![p] = i]
    /\ pc' = [pc EXCEPT ![p] = "created"]
    /\ UNCHANGED <<rowVars, lockVars, todo, snap, cur, orphans>>

\* DUPLICATE_VALUE on the unique AFM_External_Id__c: a record exists already.
CreateDuplicate(p) ==
    /\ pc[p] = "wait"
    /\ sf[cur[p]] # NULL
    /\ Raise(p, "adopt")
    /\ UNCHANGED sfVars

\* Any other 4xx, or a 2xx with success = False.
CreateRejected(p) ==
    /\ pc[p] = "wait"
    /\ Raise(p, "permanent")
    /\ UNCHANGED sfVars

\* The caller stops waiting without knowing whether the create took effect;
\* if it is still under way it may land at any later time.
GiveUp(c) ==
    /\ orphans' \in {orphans, orphans \cup {c}}
    /\ UNCHANGED sf

\* A 5xx (_translate_sf_error: UpstreamUnavailable), or a 401 that survives
\* the one re-authentication of _with_session_retry.
CreateTransient(p) ==
    /\ pc[p] = "wait"
    /\ Raise(p, "transient")
    /\ GiveUp(cur[p])

\* A connection error or a read timeout is an exception of `requests`, which
\* no except clause on the way names.
CreateNetworkError(p) ==
    /\ "network" \in Faults
    /\ pc[p] = "wait"
    /\ LeaveLoop(p)
    /\ GiveUp(cur[p])

\* A create whose caller has gone reaches Salesforce; the second one for the
\* same external id bounces.
OrphanLands(c) ==
    /\ c \in orphans
    /\ orphans' = orphans \ {c}
    /\ IF sf[c] # NULL
         THEN UNCHANGED sf
         ELSE \E i \in SfIds : NewId(i) /\ sf' = [sf EXCEPT ![c] = i]
    /\ UNCHANGED <<rowVars, lockVars, passVars>>

\* _find_case_id_by_external_id_sync: adopt the existing record.
AdoptFound(p) ==
    /\ pc[p] = "adopt"
    /\ ref' = [ref EXCEPT ![p] = sf[cur[p]]]
    /\ pc' = [pc EXCEPT ![p] = "created"]
    /\ UNCHANGED <<rowVars, lockVars, todo, snap, cur, sfVars>>

\* No record is visible: the DUPLICATE_VALUE is translated like any other 400.
AdoptHidden(p) ==
    /\ "hidden" \in Faults
    /\ pc[p] = "adopt"
    /\ Raise(p, "permanent")
    /\ UNCHANGED sfVars

\* The adopt query itself fails, outside any try block.
AdoptError(p) ==
    /\ "lookup" \in Faults
    /\ pc[p] = "adopt"
    /\ LeaveLoop(p)
    /\ UNCHANGED sfVars

-----------------------------------------------------------------------------
(* The outcome: one transaction that updates the row and appends its event. *)

\* attempts is computed from the row as it was fetched, not as it is now, and
\* the UPDATE names the row by case_id alone.
Log(p, event) ==
    /\ attempts' = [attempts EXCEPT ![cur[p]] = snap[p][cur[p]] + 1]
    /\ timeline' = [timeline EXCEPT ![cur[p]][event] = @ + 1]

\* The loop goes on with the rest of the batch.
RowDone(p) ==
    /\ pc' = [pc EXCEPT ![p] = "row"]
    /\ todo' = [todo EXCEPT ![p] = @ \ {cur[p]}]
    /\ cur' = [cur EXCEPT ![p] = NULL]
    /\ ref' = [ref EXCEPT ![p] = NULL]
    /\ UNCHANGED <<born, lockVars, snap, sfVars>>

\* Mutant: the row is marked without the id that create_case returned.
BugMarkSyncedNoRef(p) ==
    /\ pc[p] = "created"
    /\ syncStatus' = [syncStatus EXCEPT ![cur[p]] = "synced"]
    /\ sfId' = sfId
    /\ Log(p, "sf_synced")
    /\ RowDone(p)

MarkSynced(p) ==
    /\ pc[p] = "created"
    /\ syncStatus' = [syncStatus EXCEPT ![cur[p]] = "synced"]
    /\ sfId' = [sfId EXCEPT ![cur[p]] = ref[p]]
    /\ Log(p, "sf_synced")
    /\ RowDone(p)

\* Mutant: off by one, the attempt after the last is still made.
BugLastAttempt(p) == snap[p][cur[p]] >= MAX_ATTEMPTS

LastAttempt(p) == snap[p][cur[p]] + 1 >= MAX_ATTEMPTS

\* Mutant: a retried row gets a status of its own, which no pass scans for.
BugMarkRetryStatus(p) ==
    /\ pc[p] = "transient"
    /\ ~LastAttempt(p)
    /\ syncStatus' = [syncStatus EXCEPT ![cur[p]] = "retry"]
    /\ Log(p, "sf_sync_retry")
    /\ RowDone(p)
    /\ UNCHANGED sfId

\* UpstreamUnavailable before the last attempt: the row stays pending.
MarkRetry(p) ==
    /\ pc[p] = "transient"
    /\ ~LastAttempt(p)
    /\ Log(p, "sf_sync_retry")
    /\ RowDone(p)
    /\ UNCHANGED <<syncStatus, sfId>>

\* Any other AFMException, or UpstreamUnavailable on the last attempt.
MarkFailed(p) ==
    /\ \/ pc[p] = "permanent"
       \/ pc[p] = "transient" /\ LastAttempt(p)
    /\ syncStatus' = [syncStatus EXCEPT ![cur[p]] = "failed"]
    /\ Log(p, "sf_sync_failed")
    /\ RowDone(p)
    /\ UNCHANGED sfId

\* A Postgres error (or an exhausted pool) in _fetch_pending or in a _mark_*
\* transaction, which then rolls back.
PostgresError(p) ==
    /\ "postgres" \in Faults
    /\ pc[p] \in {"fetch", "created", "transient", "permanent"}
    /\ LeaveLoop(p)
    /\ UNCHANGED sfVars

-----------------------------------------------------------------------------
(* Crashes, lost lock sessions, and the whole. *)

\* The process dies: its sessions close, the request it was waiting for may
\* still reach Salesforce.
Crash(p) ==
    /\ "crash" \in Faults
    /\ pc[p] # "idle"
    /\ lock' = IF lock = p THEN NULL ELSE lock
    /\ pc' = [pc EXCEPT ![p] = "idle"]
    /\ Forget(p)
    /\ IF pc[p] = "wait" THEN GiveUp(cur[p]) ELSE UNCHANGED sfVars
    /\ UNCHANGED <<rowVars, lockLosses>>

\* The idle session that holds the lock is dropped (a restart or a terminated
\* backend); the pass does not notice until it unlocks.
LoseLock(p) ==
    /\ lock = p
    /\ lockLosses < MaxLockLosses
    /\ lock' = NULL
    /\ lockLosses' = lockLosses + 1
    /\ UNCHANGED <<rowVars, passVars, sfVars>>

\* A pass is cut short: an exception left the loop, or the process died.
Cut(p) ==
    \/ RecordTypeError(p) \/ CreateNetworkError(p) \/ AdoptError(p)
    \/ PostgresError(p) \/ Crash(p)

\* The steps of a pass that goes through its batch.
PassStep(p) ==
    \/ TryLock(p) \/ SkipLocked(p) \/ FetchPending(p)
    \/ NextRow(p) \/ BatchDone(p) \/ Unlock(p)
    \/ Prepare(p)
    \/ CreateOk(p) \/ CreateDuplicate(p) \/ CreateRejected(p)
    \/ CreateTransient(p)
    \/ AdoptFound(p) \/ AdoptHidden(p)
    \/ MarkSynced(p) \/ MarkRetry(p) \/ MarkFailed(p)

Next ==
    \/ \E c \in Cases : InsertCase(c) \/ OrphanLands(c)
    \/ \E p \in Passes : Begin(p) \/ PassStep(p) \/ Cut(p) \/ LoseLock(p)

Spec == Init /\ [][Next]_vars

\* The sensor keeps posting, and a pass that has begun goes on, to its end or
\* to its exception.
Fairness ==
    \A p \in Passes : WF_vars(Begin(p)) /\ WF_vars(PassStep(p) \/ Cut(p))

FairSpec == Spec /\ Fairness

-----------------------------------------------------------------------------
(* Properties. *)

Statuses == {"absent", "skipped", "pending", "synced", "failed"}

Idle == {"idle", "lock", "unlock"}
OnRow == {"prepare", "wait", "adopt", "created", "transient", "permanent"}
Places == Idle \cup {"fetch", "row"} \cup OnRow

TypeOK ==
    /\ syncStatus \in [Cases -> Statuses]
    /\ attempts \in [Cases -> Nat]
    /\ sfId \in [Cases -> SfIds \cup {NULL}]
    /\ born \in [Cases -> Nat]
    /\ timeline \in [Cases -> [EventTypes -> Nat]]
    /\ lock \in Passes \cup {NULL}
    /\ lockLosses \in Nat
    /\ pc \in [Passes -> Places]
    /\ todo \in [Passes -> SUBSET Cases]
    /\ snap \in [Passes -> [Cases -> Nat]]
    /\ cur \in [Passes -> Cases \cup {NULL}]
    /\ ref \in [Passes -> SfIds \cup {NULL}]
    /\ sf \in [Cases -> SfIds \cup {NULL}]
    /\ orphans \in SUBSET Cases

\* A row that says it is synced names the record Salesforce really holds for
\* that Case - also when lock sessions are lost and passes overlap
\* (_mark_synced with the id create_case returned or adopted).
SyncedIsReal ==
    \A c \in Cases :
        syncStatus[c] = "synced" => sfId[c] # NULL /\ sfId[c] = sf[c]

\* While no lock session has been lost, what a pass fetched is still true for
\* every row it has yet to finish: the row is pending and its attempt count
\* is the fetched one. This is what lets _mark_* write absolute values
\* guarded by case_id alone; it is what the advisory lock is for.
BatchIsFresh ==
    lockLosses = 0 =>
        \A p \in Passes : \A c \in todo[p] :
            syncStatus[c] = "pending" /\ attempts[c] = snap[p][c]

Events(c) == timeline[c]["sf_synced"] + timeline[c]["sf_sync_retry"]
                                      + timeline[c]["sf_sync_failed"]

\* While no lock session has been lost, the timeline tells the same story as
\* the row: one event per counted attempt, at most MAX_ATTEMPTS of them, the
\* last of them terminal exactly when the status is.
TimelineAgrees ==
    lockLosses = 0 =>
        \A c \in Cases :
            /\ Events(c) = attempts[c]
            /\ attempts[c] <= MAX_ATTEMPTS
            /\ timeline[c]["sf_synced"] = IF syncStatus[c] = "synced" THEN 1 ELSE 0
            /\ timeline[c]["sf_sync_failed"] = IF syncStatus[c] = "failed" THEN 1 ELSE 0

\* push_pending implements the outbox of CaseOutbox.
OutboxName == [absent |-> "absent", skipped |-> "skipped", pending |-> "queued",
               synced |-> "delivered", failed |-> "parked"]

Outbox == INSTANCE CaseOutbox WITH
    st <- [c \in Cases |-> OutboxName[syncStatus[c]]],
    remote <- {c \in Cases : sf[c] # NULL}

\* Each step of the push, with all its passes, crashes and late requests, is
\* a step of the outbox or invisible to it (as long as no lock is lost).
OutboxSpec == Outbox!Spec

-----------------------------------------------------------------------------
(* The inductive invariant behind the safety properties. *)

\* A pass has rows only inside its loop, and works on one of them.
RowsInLoop ==
    \A p \in Passes :
        /\ todo[p] # {} => pc[p] \in {"row"} \cup OnRow
        /\ pc[p] \in OnRow => cur[p] \in todo[p]

\* While no lock session has been lost, only the holder is past the lock.
HolderOnly ==
    lockLosses = 0 =>
        \A p \in Passes : pc[p] \notin {"idle", "lock"} => lock = p

\* The id a pass is about to store, and every id stored, is Salesforce's.
IdsAreReal ==
    /\ \A p \in Passes :
         /\ pc[p] = "adopt" => sf[cur[p]] # NULL
         /\ pc[p] = "created" => ref[p] # NULL /\ ref[p] = sf[cur[p]]
    /\ \A c \in Cases : sfId[c] # NULL => sfId[c] = sf[c]

\* Only what was once pending can be at Salesforce or on its way there, and
\* a pending row has an attempt left.
OnlyPendingLeaves ==
    lockLosses = 0 =>
        \A c \in Cases :
            /\ c \in orphans \/ sf[c] # NULL
                 => syncStatus[c] \in {"pending", "synced", "failed"}
            /\ syncStatus[c] \in {"absent", "skipped", "pending"}
                 => attempts[c] < MAX_ATTEMPTS

IInv ==
    /\ TypeOK /\ RowsInLoop /\ HolderOnly /\ IdsAreReal
    /\ SyncedIsReal /\ BatchIsFresh /\ OnlyPendingLeaves /\ TimelineAgrees

-----------------------------------------------------------------------------
(* Liveness. *)

\* If from some point on no pass is cut short, every pending Case is settled:
\* MAX_ATTEMPTS bounds the retries, the batch takes the oldest rows first and
\* the lock is always handed back. (A pass that dies while unlocking leaves
\* what one that unlocked leaves.)
EventuallySettled ==
    <>[][\A p \in Passes : Cut(p) => PassStep(p)]_vars =>
        \A c \in Cases : (syncStatus[c] = "pending") ~> (syncStatus[c] # "pending")

\* "a 5xx / network / unknown status is degradation -> transient" and
\* "parked failed to stop an unbounded retry loop" (the docstrings of
\* _translate_sf_error and of case_sync.py): however Salesforce and the
\* network answer, a pending Case is settled after MAX_ATTEMPTS tries.
RetriesAreBounded ==
    \A c \in Cases : (syncStatus[c] = "pending") ~> (syncStatus[c] # "pending")
=============================================================================
