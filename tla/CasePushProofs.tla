--------------------------- MODULE CasePushProofs ---------------------------
(***************************************************************************)
(* The safety of CasePush for every set of Cases, any number of passes,    *)
(* every MAX_ATTEMPTS and Limit, and every combination of faults.          *)
(***************************************************************************)
EXTENDS CasePush, FiniteSetTheorems, TLAPS

Typed == TypeOK /\ RowsInLoop

LEMMA TypedInit == Init => Typed
BY PushAssumption DEF Init, Typed, TypeOK, RowsInLoop, NoEvents, Statuses, Places,
    Idle, OnRow

LEMMA TypedStep == Typed /\ [Next]_vars => Typed'
<1> SUFFICES ASSUME TypeOK, RowsInLoop, [Next]_vars
             PROVE  Typed'
  BY DEF Typed
<1> USE PushAssumption DEF TypeOK, RowsInLoop, Typed, Places, OnRow, Idle, Statuses,
      rowVars, lockVars, passVars, sfVars
<1>1. ASSUME NEW c \in Cases, InsertCase(c) PROVE Typed'
  <2>1. Cardinality(Rows) \in Nat
    BY FS_Subset, FS_CardinalityType DEF Rows
  <2> QED BY <1>1, <2>1 DEF InsertCase
<1>2. ASSUME NEW c \in Cases, OrphanLands(c) PROVE Typed'
  <2>1. sf' \in [Cases -> SfIds \cup {NULL}]
    <3>1. CASE UNCHANGED sf
      BY <3>1
    <3>2. CASE \E i \in SfIds : sf' = [sf EXCEPT ![c] = i]
      BY <3>2
    <3> QED BY <1>2, <3>1, <3>2 DEF OrphanLands
  <2>2. orphans' \in SUBSET Cases
    BY <1>2 DEF OrphanLands
  <2> QED BY <1>2, <2>1, <2>2 DEF OrphanLands
<1>3. ASSUME NEW p \in Passes, Begin(p) PROVE Typed'
  BY <1>3 DEF Begin
<1>4. ASSUME NEW p \in Passes, TryLock(p) PROVE Typed'
  BY <1>4 DEF TryLock
<1>5. ASSUME NEW p \in Passes, SkipLocked(p) PROVE Typed'
  BY <1>5 DEF SkipLocked
<1>6. ASSUME NEW p \in Passes, FetchPending(p) PROVE Typed'
  BY <1>6 DEF FetchPending, IsBatch, Pending
<1>7. ASSUME NEW p \in Passes, NextRow(p) PROVE Typed'
  BY <1>7 DEF NextRow
<1>8. ASSUME NEW p \in Passes, BatchDone(p) PROVE Typed'
  BY <1>8 DEF BatchDone, LeaveLoop, Forget
<1>9. ASSUME NEW p \in Passes, Unlock(p) PROVE Typed'
  BY <1>9 DEF Unlock, Release
<1>10. ASSUME NEW p \in Passes, Prepare(p) PROVE Typed'
  BY <1>10 DEF Prepare, Raise
<1>11. ASSUME NEW p \in Passes, RecordTypeError(p) PROVE Typed'
  BY <1>11 DEF RecordTypeError, LeaveLoop, Forget
<1>12. ASSUME NEW p \in Passes, CreateOk(p) PROVE Typed'
  BY <1>12 DEF CreateOk
<1>13. ASSUME NEW p \in Passes, CreateDuplicate(p) PROVE Typed'
  BY <1>13 DEF CreateDuplicate, Raise
<1>14. ASSUME NEW p \in Passes, CreateRejected(p) PROVE Typed'
  BY <1>14 DEF CreateRejected, Raise
<1>15. ASSUME NEW p \in Passes, CreateTransient(p) PROVE Typed'
  BY <1>15 DEF CreateTransient, Raise, GiveUp
<1>16. ASSUME NEW p \in Passes, CreateNetworkError(p) PROVE Typed'
  BY <1>16 DEF CreateNetworkError, LeaveLoop, Forget, GiveUp
<1>17. ASSUME NEW p \in Passes, AdoptFound(p) PROVE Typed'
  BY <1>17 DEF AdoptFound
<1>18. ASSUME NEW p \in Passes, AdoptHidden(p) PROVE Typed'
  BY <1>18 DEF AdoptHidden, Raise
<1>19. ASSUME NEW p \in Passes, AdoptError(p) PROVE Typed'
  BY <1>19 DEF AdoptError, LeaveLoop, Forget
<1>20. ASSUME NEW p \in Passes, MarkSynced(p) PROVE Typed'
  BY <1>20 DEF MarkSynced, Log, RowDone, EventTypes
<1>21. ASSUME NEW p \in Passes, MarkRetry(p) PROVE Typed'
  BY <1>21 DEF MarkRetry, Log, RowDone, EventTypes
<1>22. ASSUME NEW p \in Passes, MarkFailed(p) PROVE Typed'
  BY <1>22 DEF MarkFailed, Log, RowDone, EventTypes
<1>23. ASSUME NEW p \in Passes, PostgresError(p) PROVE Typed'
  BY <1>23 DEF PostgresError, LeaveLoop, Forget
<1>24. ASSUME NEW p \in Passes, Crash(p) PROVE Typed'
  BY <1>24 DEF Crash, Forget, GiveUp
<1>25. ASSUME NEW p \in Passes, LoseLock(p) PROVE Typed'
  BY <1>25 DEF LoseLock
<1>26. CASE UNCHANGED vars
  BY <1>26 DEF vars
<1>27. QED
  BY <1>1, <1>2, <1>3, <1>4, <1>5, <1>6, <1>7, <1>8, <1>9, <1>10, <1>11, <1>12, <1>13,
     <1>14, <1>15, <1>16, <1>17, <1>18, <1>19, <1>20, <1>21, <1>22, <1>23, <1>24,
     <1>25, <1>26 DEF Next, PassStep, Cut

\* The variables of CasePush always have their types, whatever the faults.
THEOREM TypeCorrect == Spec => []TypeOK
<1>1. Typed => TypeOK BY DEF Typed
<1>2. QED BY <1>1, TypedInit, TypedStep, PTL DEF Spec

-----------------------------------------------------------------------------
(* What a step can disturb: the frames the safety proof is cut along. *)

Marks(p) == MarkSynced(p) \/ MarkRetry(p) \/ MarkFailed(p)

\* The steps of a pass between its lock and its unlock that write no row.
Works(p) ==
    \/ NextRow(p) \/ BatchDone(p) \/ Prepare(p) \/ RecordTypeError(p)
    \/ CreateOk(p) \/ CreateDuplicate(p) \/ CreateRejected(p)
    \/ CreateTransient(p) \/ CreateNetworkError(p)
    \/ AdoptFound(p) \/ AdoptHidden(p) \/ AdoptError(p) \/ PostgresError(p)

\* The steps that move a pass into or out of its locked section.
Borders(p) == Begin(p) \/ TryLock(p) \/ SkipLocked(p) \/ Unlock(p) \/ Crash(p)

LEMMA NextSplit ==
    ASSUME [Next]_vars
    PROVE  \/ UNCHANGED vars
           \/ \E c \in Cases : InsertCase(c) \/ OrphanLands(c)
           \/ \E p \in Passes : \/ Works(p) \/ Marks(p) \/ FetchPending(p)
                                \/ Borders(p) \/ LoseLock(p)
BY DEF Next, PassStep, Cut, Works, Marks, Borders

\* A working step stays inside the locked section, leaves the rows, the lock
\* and every other pass alone, and keeps its batch or forgets all of it.
LEMMA WorksFrame ==
    ASSUME Typed, NEW p \in Passes, Works(p)
    PROVE  /\ pc[p] \notin {"idle", "lock"} /\ pc'[p] \notin {"idle", "lock"}
           /\ UNCHANGED <<rowVars, lockVars>>
           /\ todo'[p] = {} \/ UNCHANGED <<todo, snap>>
           /\ \A q \in Passes \ {p} :
                /\ pc'[q] = pc[q] /\ todo'[q] = todo[q] /\ snap'[q] = snap[q]
                /\ cur'[q] = cur[q] /\ ref'[q] = ref[q]
<1> USE DEF Typed, TypeOK, Places, OnRow, Idle, LeaveLoop, Forget, Raise
<1>1. CASE NextRow(p) \/ BatchDone(p)
  BY <1>1 DEF NextRow, BatchDone
<1>2. CASE Prepare(p) \/ RecordTypeError(p)
  BY <1>2 DEF Prepare, RecordTypeError
<1>3. CASE CreateOk(p)
  BY <1>3 DEF CreateOk
<1>4. CASE CreateDuplicate(p) \/ CreateRejected(p)
  BY <1>4 DEF CreateDuplicate, CreateRejected
<1>5. CASE CreateTransient(p) \/ CreateNetworkError(p)
  BY <1>5 DEF CreateTransient, CreateNetworkError
<1>6. CASE AdoptFound(p) \/ AdoptHidden(p) \/ AdoptError(p)
  BY <1>6 DEF AdoptFound, AdoptHidden, AdoptError
<1>7. CASE PostgresError(p)
  BY <1>7 DEF PostgresError
<1> QED BY <1>1, <1>2, <1>3, <1>4, <1>5, <1>6, <1>7 DEF Works

\* A _mark_* step writes the row it is on, takes it off the batch, and leaves
\* Salesforce, the lock and every other pass alone.
LEMMA MarksFrame ==
    ASSUME Typed, NEW p \in Passes, Marks(p)
    PROVE  /\ pc[p] \in OnRow /\ cur[p] \in todo[p] /\ pc'[p] = "row"
           /\ UNCHANGED <<lockVars, sfVars, snap>>
           /\ todo'[p] = todo[p] \ {cur[p]}
           /\ \A q \in Passes \ {p} :
                /\ pc'[q] = pc[q] /\ todo'[q] = todo[q]
                /\ cur'[q] = cur[q] /\ ref'[q] = ref[q]
           /\ attempts'[cur[p]] = snap[p][cur[p]] + 1
           /\ \A c \in Cases \ {cur[p]} :
                /\ syncStatus'[c] = syncStatus[c] /\ attempts'[c] = attempts[c]
                /\ sfId'[c] = sfId[c] /\ timeline'[c] = timeline[c]
<1> USE DEF Typed, TypeOK, RowsInLoop, Places, OnRow, Idle, Log, RowDone, lockVars,
      sfVars
<1>1. CASE MarkSynced(p)
  BY <1>1 DEF MarkSynced
<1>2. CASE MarkRetry(p)
  BY <1>2 DEF MarkRetry
<1>3. CASE MarkFailed(p)
  BY <1>3 DEF MarkFailed
<1> QED BY <1>1, <1>2, <1>3 DEF Marks

\* At its borders a pass has no batch afterwards that it had not before.
LEMMA BordersFrame ==
    ASSUME Typed, NEW p \in Passes, Borders(p)
    PROVE  /\ UNCHANGED <<rowVars, lockLosses>>
           /\ todo'[p] = {} \/ UNCHANGED <<todo, snap>>
           /\ pc'[p] \in {"idle", "lock", "fetch"}
           /\ \A q \in Passes \ {p} :
                /\ pc'[q] = pc[q] /\ todo'[q] = todo[q] /\ snap'[q] = snap[q]
                /\ cur'[q] = cur[q] /\ ref'[q] = ref[q]
BY DEF Borders, Typed, TypeOK, Begin, TryLock, SkipLocked, Unlock, Crash, Forget,
       lockVars

\* A record, once made, keeps its id.
LEMMA SfGrows ==
    ASSUME Typed, [Next]_vars, NEW c \in Cases, sf[c] # NULL
    PROVE  sf'[c] = sf[c]
<1> USE DEF Typed, TypeOK, sfVars
<1>1. ASSUME NEW d \in Cases, InsertCase(d) \/ OrphanLands(d) PROVE sf'[c] = sf[c]
  BY <1>1 DEF InsertCase, OrphanLands
<1>2. ASSUME NEW p \in Passes, Works(p) PROVE sf'[c] = sf[c]
  BY <1>2 DEF Works, NextRow, BatchDone, Prepare, RecordTypeError, CreateOk,
     CreateDuplicate, CreateRejected, CreateTransient, CreateNetworkError, AdoptFound,
     AdoptHidden, AdoptError, PostgresError, GiveUp
<1>3. ASSUME NEW p \in Passes, Marks(p) PROVE sf'[c] = sf[c]
  BY <1>3, MarksFrame
<1>4. ASSUME NEW p \in Passes, FetchPending(p) \/ Borders(p) \/ LoseLock(p)
      PROVE  sf'[c] = sf[c]
  BY <1>4 DEF FetchPending, Borders, Begin, TryLock, SkipLocked, Unlock, Crash,
     LoseLock, GiveUp
<1>5. CASE UNCHANGED vars
  BY <1>5 DEF vars
<1> QED BY <1>1, <1>2, <1>3, <1>4, <1>5, NextSplit

-----------------------------------------------------------------------------
(* The parts of the inductive invariant, one lemma each. *)

LEMMA HolderStep == Typed /\ HolderOnly /\ [Next]_vars => HolderOnly'
<1> SUFFICES ASSUME Typed, HolderOnly, [Next]_vars PROVE HolderOnly'
  OBVIOUS
<1> USE DEF HolderOnly
<1>1. ASSUME NEW c \in Cases, InsertCase(c) \/ OrphanLands(c) PROVE HolderOnly'
  BY <1>1 DEF InsertCase, OrphanLands, lockVars, passVars
<1>2. ASSUME NEW p \in Passes, Works(p) PROVE HolderOnly'
  BY <1>2, WorksFrame DEF lockVars
<1>3. ASSUME NEW p \in Passes, Marks(p) PROVE HolderOnly'
  BY <1>3, MarksFrame DEF lockVars, OnRow
<1>4. ASSUME NEW p \in Passes, FetchPending(p) PROVE HolderOnly'
  BY <1>4 DEF FetchPending, lockVars, Typed, TypeOK
<1>5. ASSUME NEW p \in Passes, Borders(p) PROVE HolderOnly'
  <2> USE <1>5, PushAssumption DEF Typed, TypeOK, lockVars
  <2>1. CASE Begin(p) \/ SkipLocked(p)
    BY <2>1 DEF Begin, SkipLocked
  <2>2. CASE TryLock(p)
    BY <2>2 DEF TryLock
  <2>3. CASE Unlock(p)
    BY <2>3 DEF Unlock, Release
  <2>4. CASE Crash(p)
    BY <2>4 DEF Crash
  <2> QED BY <2>1, <2>2, <2>3, <2>4 DEF Borders
<1>6. ASSUME NEW p \in Passes, LoseLock(p) PROVE HolderOnly'
  BY <1>6 DEF LoseLock, Typed, TypeOK
<1>7. CASE UNCHANGED vars
  BY <1>7 DEF vars, lockVars, passVars
<1> QED BY <1>1, <1>2, <1>3, <1>4, <1>5, <1>6, <1>7, NextSplit

LEMMA IdsStep == Typed /\ IdsAreReal /\ [Next]_vars => IdsAreReal'
<1> SUFFICES ASSUME Typed, IdsAreReal, [Next]_vars PROVE IdsAreReal'
  OBVIOUS
<1> DEFINE AtRow(q) ==
             /\ pc[q] = "adopt" => sf[cur[q]] # NULL
             /\ pc[q] = "created" => ref[q] # NULL /\ ref[q] = sf[cur[q]]
           Stored(c) == sfId[c] # NULL => sfId[c] = sf[c]
<1>a. \A q \in Passes : pc[q] \in {"adopt", "created"} => cur[q] \in Cases
  BY DEF Typed, TypeOK, RowsInLoop, OnRow
<1>b. ASSUME NEW q \in Passes,
             pc'[q] \in {"adopt", "created"} =>
                pc'[q] = pc[q] /\ cur'[q] = cur[q] /\ ref'[q] = ref[q]
      PROVE  AtRow(q)'
  BY <1>a, <1>b, SfGrows DEF IdsAreReal
<1>c. ASSUME NEW c \in Cases, sfId'[c] = sfId[c]
      PROVE  Stored(c)'
  <2>1. CASE sfId[c] = NULL
    BY <1>c, <2>1
  <2>2. CASE sfId[c] # NULL
    BY <1>c, <2>2, SfGrows DEF IdsAreReal
  <2> QED BY <2>1, <2>2
<1> HIDE DEF AtRow, Stored
<1>1. ASSUME NEW c \in Cases, InsertCase(c) \/ OrphanLands(c) PROVE IdsAreReal'
  <2>1. UNCHANGED <<pc, cur, ref, sfId>>
    BY <1>1 DEF InsertCase, OrphanLands, passVars, rowVars
  <2>2. /\ \A q \in Passes : AtRow(q)'
        /\ \A d \in Cases : Stored(d)'
    BY <2>1, <1>b, <1>c
  <2> QED BY <2>2 DEF AtRow, Stored, IdsAreReal
<1>2. ASSUME NEW p \in Passes, Works(p) PROVE IdsAreReal'
  <2>1. \A d \in Cases : Stored(d)'
    BY <1>2, <1>c, WorksFrame DEF rowVars
  <2>2. \A q \in Passes \ {p} : AtRow(q)'
    BY <1>2, <1>b, WorksFrame
  <2>3. AtRow(p)'
    <3> USE DEF Typed, TypeOK, LeaveLoop, Raise
    <3>1. CASE CreateOk(p)
      <4>1. cur[p] \in Cases /\ cur'[p] = cur[p] /\ pc'[p] = "created"
        BY <3>1 DEF CreateOk, RowsInLoop, OnRow
      <4>2. ref'[p] = sf'[cur[p]] /\ ref'[p] # NULL
        BY <3>1, <4>1, PushAssumption DEF CreateOk
      <4> QED BY <4>1, <4>2 DEF AtRow
    <3>2. CASE CreateDuplicate(p)
      BY <3>2 DEF AtRow, CreateDuplicate, sfVars
    <3>3. CASE AdoptFound(p)
      BY <3>3, <1>a DEF AtRow, AdoptFound, IdsAreReal, sfVars
    <3>4. CASE ~(CreateOk(p) \/ CreateDuplicate(p) \/ AdoptFound(p))
      <4>1. pc'[p] \notin {"adopt", "created"}
        BY <1>2, <3>4 DEF Works, NextRow, BatchDone, Prepare, RecordTypeError,
           CreateRejected, CreateTransient, CreateNetworkError, AdoptHidden, AdoptError,
           PostgresError
      <4> QED BY <4>1 DEF AtRow
    <3> QED BY <3>1, <3>2, <3>3, <3>4
  <2> QED BY <2>1, <2>2, <2>3 DEF AtRow, Stored, IdsAreReal
<1>3. ASSUME NEW p \in Passes, Marks(p) PROVE IdsAreReal'
  <2>1. \A q \in Passes : AtRow(q)'
    BY <1>3, <1>b, MarksFrame
  <2>2. \A d \in Cases \ {cur[p]} : Stored(d)'
    BY <1>3, <1>c, MarksFrame
  <2>3. ASSUME NEW d \in Cases, d = cur[p] PROVE Stored(d)'
    <3>1. CASE MarkSynced(p)
      BY <2>3, <3>1, <1>3, MarksFrame
      DEF MarkSynced, IdsAreReal, Stored, Typed, TypeOK, sfVars
    <3>2. CASE MarkRetry(p) \/ MarkFailed(p)
      BY <3>2, <1>c DEF MarkRetry, MarkFailed
    <3> QED BY <1>3, <3>1, <3>2 DEF Marks
  <2>4. \A d \in Cases : Stored(d)'
    BY <2>2, <2>3
  <2> QED BY <2>1, <2>4 DEF AtRow, Stored, IdsAreReal
<1>4. ASSUME NEW p \in Passes, FetchPending(p) \/ Borders(p) \/ LoseLock(p)
      PROVE  IdsAreReal'
  <2>1. /\ UNCHANGED sfId
        /\ \A q \in Passes : pc'[q] \in {"adopt", "created"} =>
              pc'[q] = pc[q] /\ cur'[q] = cur[q] /\ ref'[q] = ref[q]
    BY <1>4, BordersFrame DEF FetchPending, LoseLock, rowVars, passVars, Typed, TypeOK
  <2>2. /\ \A q \in Passes : AtRow(q)'
        /\ \A d \in Cases : Stored(d)'
    BY <2>1, <1>b, <1>c
  <2> QED BY <2>2 DEF AtRow, Stored, IdsAreReal
<1>5. CASE UNCHANGED vars
  BY <1>5 DEF vars, passVars, rowVars, sfVars, IdsAreReal
<1> QED BY <1>1, <1>2, <1>3, <1>4, <1>5, NextSplit

LEMMA SyncedStep ==
    Typed /\ IdsAreReal /\ SyncedIsReal /\ [Next]_vars => SyncedIsReal'
<1> SUFFICES ASSUME Typed, IdsAreReal, SyncedIsReal, [Next]_vars, NEW c \in Cases,
                    syncStatus'[c] = "synced"
             PROVE  sfId'[c] # NULL /\ sfId'[c] = sf'[c]
  BY DEF SyncedIsReal
<1>a. ASSUME syncStatus[c] = "synced", sfId'[c] = sfId[c]
      PROVE  sfId'[c] # NULL /\ sfId'[c] = sf'[c]
  BY <1>a, SfGrows DEF SyncedIsReal
<1>1. ASSUME NEW d \in Cases, InsertCase(d) \/ OrphanLands(d)
      PROVE  syncStatus[c] = "synced" /\ sfId'[c] = sfId[c]
  BY <1>1 DEF InsertCase, OrphanLands, rowVars, Typed, TypeOK
<1>2. ASSUME NEW p \in Passes, Works(p) \/ FetchPending(p) \/ Borders(p) \/ LoseLock(p)
      PROVE  syncStatus[c] = "synced" /\ sfId'[c] = sfId[c]
  BY <1>2, WorksFrame, BordersFrame DEF FetchPending, LoseLock, rowVars
<1>3. ASSUME NEW p \in Passes, Marks(p)
      PROVE  sfId'[c] # NULL /\ sfId'[c] = sf'[c]
  <2>1. CASE c # cur[p]
    BY <1>3, <2>1, <1>a, MarksFrame
  <2>2. CASE c = cur[p] /\ MarkSynced(p)
    BY <2>2 DEF MarkSynced, RowDone, sfVars, IdsAreReal, Typed, TypeOK
  <2>3. CASE c = cur[p] /\ MarkRetry(p)
    BY <2>3, <1>a DEF MarkRetry
  <2>4. CASE c = cur[p] /\ MarkFailed(p)
    BY <2>4 DEF MarkFailed, Typed, TypeOK
  <2> QED BY <1>3, <2>1, <2>2, <2>3, <2>4 DEF Marks
<1>4. CASE UNCHANGED vars
  BY <1>4, <1>a DEF vars, rowVars
<1> QED BY <1>a, <1>1, <1>2, <1>3, <1>4, NextSplit

\* The lock at work: a _mark_* step of one pass finds no batch in another.
LEMMA FreshStep ==
    Typed /\ HolderOnly /\ BatchIsFresh /\ [Next]_vars => BatchIsFresh'
<1> SUFFICES ASSUME Typed, HolderOnly, BatchIsFresh, [Next]_vars, lockLosses' = 0,
                    NEW q \in Passes, NEW c \in todo'[q]
             PROVE  syncStatus'[c] = "pending" /\ attempts'[c] = snap'[q][c]
  BY DEF BatchIsFresh
<1> USE DEF Typed, TypeOK
<1>a. ASSUME lockLosses = 0, c \in todo[q], UNCHANGED <<syncStatus, attempts>>,
             snap'[q] = snap[q]
      PROVE  syncStatus'[c] = "pending" /\ attempts'[c] = snap'[q][c]
  BY <1>a DEF BatchIsFresh
<1>1. ASSUME NEW d \in Cases, InsertCase(d)
      PROVE  syncStatus'[c] = "pending" /\ attempts'[c] = snap'[q][c]
  <2>1. lockLosses = 0 /\ c \in todo[q] /\ snap'[q] = snap[q] /\ attempts' = attempts
    BY <1>1 DEF InsertCase, lockVars, passVars
  <2>2. syncStatus[c] = "pending" /\ attempts[c] = snap[q][c]
    BY <2>1 DEF BatchIsFresh
  <2>3. c # d
    BY <1>1, <2>2 DEF InsertCase
  <2> QED BY <1>1, <2>1, <2>2, <2>3 DEF InsertCase
<1>2. ASSUME NEW d \in Cases, OrphanLands(d)
      PROVE  syncStatus'[c] = "pending" /\ attempts'[c] = snap'[q][c]
  BY <1>2, <1>a DEF OrphanLands, rowVars, lockVars, passVars
<1>3. ASSUME NEW p \in Passes, Works(p) \/ Borders(p)
      PROVE  syncStatus'[c] = "pending" /\ attempts'[c] = snap'[q][c]
  <2>1. UNCHANGED <<rowVars, lockLosses>>
    BY <1>3, WorksFrame, BordersFrame DEF lockVars
  <2>2. todo[q] = todo'[q] /\ snap'[q] = snap[q]
    BY <1>3, WorksFrame, BordersFrame
  <2> QED BY <2>1, <2>2, <1>a DEF rowVars
<1>4. ASSUME NEW p \in Passes, FetchPending(p)
      PROVE  syncStatus'[c] = "pending" /\ attempts'[c] = snap'[q][c]
  <2>1. UNCHANGED <<syncStatus, attempts, lockLosses>>
    BY <1>4 DEF FetchPending, rowVars, lockVars
  <2>2. CASE q = p
    BY <1>4, <2>1, <2>2 DEF FetchPending, IsBatch, Pending
  <2>3. CASE q # p
    BY <1>4, <2>1, <2>3, <1>a DEF FetchPending
  <2> QED BY <2>2, <2>3
<1>5. ASSUME NEW p \in Passes, Marks(p)
      PROVE  syncStatus'[c] = "pending" /\ attempts'[c] = snap'[q][c]
  <2>1. lockLosses = 0
    BY <1>5, MarksFrame DEF lockVars
  <2>2. q = p
    <3>1. lock = p
      BY <1>5, <2>1, MarksFrame DEF HolderOnly, OnRow
    <3>2. q # p => todo[q] # {}
      BY <1>5, MarksFrame
    <3>3. todo[q] # {} => lock = q
      BY <2>1 DEF HolderOnly, RowsInLoop, OnRow
    <3> QED BY <3>1, <3>2, <3>3
  <2>3. c \in todo[p] /\ c # cur[p]
    BY <1>5, <2>2, MarksFrame
  <2> QED BY <1>5, <2>1, <2>2, <2>3, MarksFrame DEF BatchIsFresh
<1>6. ASSUME NEW p \in Passes, LoseLock(p) PROVE FALSE
  BY <1>6 DEF LoseLock
<1>7. CASE UNCHANGED vars
  BY <1>7, <1>a DEF vars, rowVars, lockVars, passVars
<1> QED BY <1>1, <1>2, <1>3, <1>4, <1>5, <1>6, <1>7, NextSplit

LEMMA TimelineStep ==
    /\ Typed /\ HolderOnly /\ BatchIsFresh /\ OnlyPendingLeaves /\ TimelineAgrees
    /\ [Next]_vars
    => TimelineAgrees'
<1> SUFFICES ASSUME Typed, BatchIsFresh, OnlyPendingLeaves, TimelineAgrees,
                    [Next]_vars, lockLosses' = 0
             PROVE  TimelineAgrees'
  BY DEF TimelineAgrees
<1> USE PushAssumption DEF Typed, TypeOK, Events, EventTypes
<1>a. ASSUME lockLosses = 0, UNCHANGED rowVars PROVE TimelineAgrees'
  BY <1>a DEF TimelineAgrees, rowVars
<1>1. ASSUME NEW d \in Cases, InsertCase(d) PROVE TimelineAgrees'
  BY <1>1 DEF InsertCase, lockVars, TimelineAgrees
<1>2. ASSUME NEW d \in Cases, OrphanLands(d) PROVE TimelineAgrees'
  BY <1>2, <1>a DEF OrphanLands, lockVars
<1>3. ASSUME NEW p \in Passes, Works(p) \/ FetchPending(p) \/ Borders(p)
      PROVE  TimelineAgrees'
  BY <1>3, <1>a, WorksFrame, BordersFrame DEF FetchPending, lockVars
<1>4. ASSUME NEW p \in Passes, Marks(p) PROVE TimelineAgrees'
  <2>1. lockLosses = 0
    BY <1>4, MarksFrame DEF lockVars
  <2>2. cur[p] \in Cases /\ syncStatus[cur[p]] = "pending"
                         /\ attempts[cur[p]] = snap[p][cur[p]]
    BY <1>4, <2>1, MarksFrame DEF BatchIsFresh
  <2>3. attempts[cur[p]] < MAX_ATTEMPTS
    BY <2>1, <2>2 DEF OnlyPendingLeaves
  <2>4. ASSUME NEW c \in Cases
        PROVE  /\ Events(c)' = attempts'[c]
               /\ attempts'[c] <= MAX_ATTEMPTS
               /\ timeline'[c]["sf_synced"] = IF syncStatus'[c] = "synced" THEN 1 ELSE 0
               /\ timeline'[c]["sf_sync_failed"] = IF syncStatus'[c] = "failed" THEN 1 ELSE 0
    <3>1. CASE c # cur[p]
      BY <1>4, <2>1, <3>1, MarksFrame DEF TimelineAgrees
    <3>2. CASE c = cur[p] /\ MarkSynced(p)
      <4>1. /\ Events(c) = attempts[c]
            /\ timeline[c]["sf_synced"] = 0 /\ timeline[c]["sf_sync_failed"] = 0
        BY <2>1, <2>2, <3>2 DEF TimelineAgrees
      <4>2. /\ syncStatus'[c] = "synced" /\ attempts'[c] = attempts[c] + 1
            /\ timeline'[c] = [timeline[c] EXCEPT !["sf_synced"] = @ + 1]
        BY <2>2, <3>2 DEF MarkSynced, Log
      <4> QED BY <2>2, <2>3, <3>2, <4>1, <4>2
    <3>3. CASE c = cur[p] /\ MarkRetry(p)
      BY <2>1, <2>2, <2>3, <3>3 DEF MarkRetry, Log, TimelineAgrees
    <3>4. CASE c = cur[p] /\ MarkFailed(p)
      BY <2>1, <2>2, <2>3, <3>4 DEF MarkFailed, Log, TimelineAgrees
    <3> QED BY <1>4, <3>1, <3>2, <3>3, <3>4 DEF Marks
  <2> QED BY <2>4 DEF TimelineAgrees
<1>5. ASSUME NEW p \in Passes, LoseLock(p) PROVE FALSE
  BY <1>5 DEF LoseLock
<1>6. CASE UNCHANGED vars
  BY <1>6, <1>a DEF vars, rowVars, lockVars
<1> QED BY <1>1, <1>2, <1>3, <1>4, <1>5, <1>6, NextSplit

LEMMA LeavesStep ==
    Typed /\ BatchIsFresh /\ OnlyPendingLeaves /\ [Next]_vars => OnlyPendingLeaves'
<1> SUFFICES ASSUME Typed, BatchIsFresh, OnlyPendingLeaves, [Next]_vars, lockLosses' = 0
             PROVE  OnlyPendingLeaves'
  BY DEF OnlyPendingLeaves
<1> USE PushAssumption DEF Typed, TypeOK
\* Salesforce may gain the row a pass is on, which is pending.
<1>a. ASSUME lockLosses = 0, NEW p \in Passes, pc[p] \in OnRow, UNCHANGED rowVars,
             \A c \in Cases \ {cur[p]} :
                 /\ c \in orphans' => c \in orphans
                 /\ sf'[c] = sf[c]
      PROVE  OnlyPendingLeaves'
  <2>1. cur[p] \in Cases /\ syncStatus[cur[p]] = "pending"
    BY <1>a DEF RowsInLoop, BatchIsFresh
  <2>2. ASSUME NEW c \in Cases
        PROVE  /\ c \in orphans' \/ sf'[c] # NULL
                    => syncStatus'[c] \in {"pending", "synced", "failed"}
               /\ syncStatus'[c] \in {"absent", "skipped", "pending"}
                    => attempts'[c] < MAX_ATTEMPTS
    BY <1>a, <2>1 DEF rowVars, OnlyPendingLeaves
  <2> QED BY <2>2 DEF OnlyPendingLeaves
<1>b. ASSUME lockLosses = 0, UNCHANGED <<rowVars, sfVars>>
      PROVE  OnlyPendingLeaves'
  BY <1>b DEF rowVars, sfVars, OnlyPendingLeaves
<1>1. ASSUME NEW d \in Cases, InsertCase(d) PROVE OnlyPendingLeaves'
  BY <1>1 DEF InsertCase, lockVars, sfVars, OnlyPendingLeaves
<1>2. ASSUME NEW d \in Cases, OrphanLands(d) PROVE OnlyPendingLeaves'
  BY <1>2 DEF OrphanLands, rowVars, lockVars, OnlyPendingLeaves
<1>3. ASSUME NEW p \in Passes, Works(p) PROVE OnlyPendingLeaves'
  <2>1. lockLosses = 0 /\ UNCHANGED rowVars
    BY <1>3, WorksFrame DEF lockVars
  <2>2. CASE CreateOk(p)
    BY <2>1, <2>2, <1>a DEF CreateOk, OnRow
  <2>3. CASE CreateTransient(p) \/ CreateNetworkError(p)
    BY <2>1, <2>3, <1>a DEF CreateTransient, CreateNetworkError, GiveUp, OnRow
  <2>4. CASE ~(CreateOk(p) \/ CreateTransient(p) \/ CreateNetworkError(p))
    <3>1. UNCHANGED sfVars
      BY <1>3, <2>4 DEF Works, NextRow, BatchDone, Prepare, RecordTypeError,
         CreateDuplicate, CreateRejected, AdoptFound, AdoptHidden, AdoptError,
         PostgresError
    <3> QED BY <2>1, <3>1, <1>b
  <2> QED BY <2>2, <2>3, <2>4
<1>4. ASSUME NEW p \in Passes, Borders(p) PROVE OnlyPendingLeaves'
  <2>1. lockLosses = 0 /\ UNCHANGED rowVars
    BY <1>4, BordersFrame
  <2>2. CASE UNCHANGED sfVars
    BY <2>1, <2>2, <1>b
  <2>3. CASE ~UNCHANGED sfVars
    <3>1. pc[p] = "wait" /\ GiveUp(cur[p])
      BY <1>4, <2>3 DEF Borders, Begin, TryLock, SkipLocked, Unlock, Crash
    <3> QED BY <2>1, <3>1, <1>a DEF GiveUp, OnRow
  <2> QED BY <2>2, <2>3
<1>5. ASSUME NEW p \in Passes, FetchPending(p) PROVE OnlyPendingLeaves'
  BY <1>5, <1>b DEF FetchPending, lockVars
<1>6. ASSUME NEW p \in Passes, Marks(p) PROVE OnlyPendingLeaves'
  <2>1. lockLosses = 0 /\ UNCHANGED sfVars
    BY <1>6, MarksFrame DEF lockVars
  <2>2. cur[p] \in Cases
    BY <1>6, MarksFrame
  <2>3. /\ syncStatus'[cur[p]] \in {"pending", "synced", "failed"}
        /\ syncStatus'[cur[p]] = "pending" => attempts'[cur[p]] < MAX_ATTEMPTS
    <3>1. CASE MarkSynced(p)
      BY <2>2, <3>1 DEF MarkSynced
    <3>2. CASE MarkRetry(p)
      <4>1. syncStatus[cur[p]] = "pending"
        BY <1>6, <2>1, MarksFrame DEF BatchIsFresh
      <4> QED BY <2>2, <3>2, <4>1 DEF MarkRetry, Log, LastAttempt
    <3>3. CASE MarkFailed(p)
      BY <2>2, <3>3 DEF MarkFailed
    <3> QED BY <1>6, <3>1, <3>2, <3>3 DEF Marks
  <2>4. ASSUME NEW c \in Cases
        PROVE  /\ c \in orphans' \/ sf'[c] # NULL
                    => syncStatus'[c] \in {"pending", "synced", "failed"}
               /\ syncStatus'[c] \in {"absent", "skipped", "pending"}
                    => attempts'[c] < MAX_ATTEMPTS
    <3>1. CASE c = cur[p]
      BY <2>3, <3>1
    <3>2. CASE c # cur[p]
      BY <1>6, <2>1, <3>2, MarksFrame DEF sfVars, OnlyPendingLeaves
    <3> QED BY <3>1, <3>2
  <2> QED BY <2>4 DEF OnlyPendingLeaves
<1>7. ASSUME NEW p \in Passes, LoseLock(p) PROVE FALSE
  BY <1>7 DEF LoseLock
<1>8. CASE UNCHANGED vars
  BY <1>8, <1>b DEF vars, lockVars
<1> QED BY <1>1, <1>2, <1>3, <1>4, <1>5, <1>6, <1>7, <1>8, NextSplit

-----------------------------------------------------------------------------

LEMMA InitInv == Init => IInv
BY TypedInit, PushAssumption DEF Init, IInv, Typed, HolderOnly, IdsAreReal, SyncedIsReal,
   BatchIsFresh, OnlyPendingLeaves, TimelineAgrees, Events, EventTypes, NoEvents, OnRow

LEMMA StepInv == IInv /\ [Next]_vars => IInv'
BY TypedStep, HolderStep, IdsStep, SyncedStep, FreshStep, LeavesStep, TimelineStep
   DEF IInv, Typed

\* Whatever the faults and however often lock sessions are lost, the inductive
\* invariant holds in every reachable state.
THEOREM Invariance == Spec => []IInv
BY InitInv, StepInv, PTL DEF Spec

\* A synced row names the record Salesforce holds for its Case, even when
\* passes overlap because a lock session was lost.
THEOREM Synced == Spec => []SyncedIsReal
<1>1. IInv => SyncedIsReal BY DEF IInv
<1> QED BY <1>1, Invariance, PTL

\* The advisory lock keeps every fetched batch true while it is worked on.
THEOREM Fresh == Spec => []BatchIsFresh
<1>1. IInv => BatchIsFresh BY DEF IInv
<1> QED BY <1>1, Invariance, PTL

\* Row and timeline agree, and no Case is tried more than MAX_ATTEMPTS times.
THEOREM Timeline == Spec => []TimelineAgrees
<1>1. IInv => TimelineAgrees BY DEF IInv
<1> QED BY <1>1, Invariance, PTL

-----------------------------------------------------------------------------
(* push_pending implements CaseOutbox when no lock session is lost. *)

St == [c \in Cases |-> OutboxName[syncStatus[c]]]
Remote == {c \in Cases : sf[c] # NULL}

LEMMA OutboxStutter ==
    ASSUME UNCHANGED <<syncStatus, sf>>
    PROVE  UNCHANGED Outbox!vars
BY DEF Outbox!vars

\* At most one record appears, for a Case whose row is pending or parked.
LEMMA OutboxAccept ==
    ASSUME TypeOK, NEW c \in Cases, NEW i \in SfIds, sf[c] = NULL,
           syncStatus[c] \in {"pending", "failed"},
           sf' = [sf EXCEPT ![c] = i], UNCHANGED syncStatus
    PROVE  Outbox!Next
<1>1. OutboxName[syncStatus[c]] \in {"queued", "parked"}
  BY DEF OutboxName
<1>2. Remote' = Remote \cup {c}
  BY PushAssumption DEF Remote, TypeOK
<1>3. Outbox!Accept(c)
  BY <1>1, <1>2 DEF Outbox!Accept, Remote
<1> QED BY <1>3 DEF Outbox!Next

LEMMA OutboxMark ==
    ASSUME TypeOK, NEW c \in Cases, syncStatus[c] = "pending", UNCHANGED sf,
           \/ /\ syncStatus' = [syncStatus EXCEPT ![c] = "synced"]
              /\ sf[c] # NULL
           \/ syncStatus' = [syncStatus EXCEPT ![c] = "failed"]
    PROVE  Outbox!Next
<1>1. St[c] = "queued"
  BY DEF St, OutboxName
<1>2. CASE syncStatus' = [syncStatus EXCEPT ![c] = "synced"] /\ sf[c] # NULL
  <2>1. St' = [St EXCEPT ![c] = "delivered"]
    BY <1>2 DEF St, OutboxName, TypeOK
  <2>2. Outbox!Deliver(c)
    BY <1>1, <1>2, <2>1 DEF Outbox!Deliver, St
  <2> QED BY <2>2 DEF Outbox!Next
<1>3. CASE syncStatus' = [syncStatus EXCEPT ![c] = "failed"]
  <2>1. St' = [St EXCEPT ![c] = "parked"]
    BY <1>3 DEF St, OutboxName, TypeOK
  <2>2. Outbox!Park(c)
    BY <1>1, <1>3, <2>1 DEF Outbox!Park, St
  <2> QED BY <2>2 DEF Outbox!Next
<1> QED BY <1>2, <1>3

LEMMA OutboxFile ==
    ASSUME TypeOK, NEW c \in Cases, InsertCase(c)
    PROVE  Outbox!Next
<1>1. UNCHANGED sf
  BY DEF InsertCase, sfVars
<1>2. St[c] = "absent"
  BY DEF InsertCase, St, OutboxName
<1>3. St' = [St EXCEPT ![c] = IF c \in High THEN "queued" ELSE "skipped"]
  BY DEF InsertCase, St, OutboxName, TypeOK
<1>4. Outbox!File(c)
  BY <1>1, <1>2, <1>3 DEF Outbox!File, St
<1> QED BY <1>4 DEF Outbox!Next

LEMMA OutboxStep ==
    ASSUME IInv, lockLosses = 0, lockLosses' = 0, [Next]_vars
    PROVE  [Outbox!Next]_(Outbox!vars)
<1> USE DEF IInv, Typed
<1>1. ASSUME NEW c \in Cases, InsertCase(c) PROVE Outbox!Next
  BY <1>1, OutboxFile
<1>2. ASSUME NEW c \in Cases, OrphanLands(c)
      PROVE  Outbox!Next \/ UNCHANGED <<syncStatus, sf>>
  <2>1. UNCHANGED syncStatus
    BY <1>2 DEF OrphanLands, rowVars
  <2>2. CASE sf[c] # NULL
    BY <1>2, <2>1, <2>2 DEF OrphanLands
  <2>3. CASE sf[c] = NULL
    <3>1. PICK i \in SfIds : sf' = [sf EXCEPT ![c] = i]
      BY <1>2, <2>3 DEF OrphanLands
    <3>2. syncStatus[c] \in {"pending", "failed"}
      BY <1>2, <2>3 DEF OrphanLands, OnlyPendingLeaves, SyncedIsReal
    <3> QED BY <2>1, <2>3, <3>1, <3>2, OutboxAccept
  <2> QED BY <2>2, <2>3
<1>3. ASSUME NEW p \in Passes, Works(p)
      PROVE  Outbox!Next \/ UNCHANGED <<syncStatus, sf>>
  <2>1. UNCHANGED syncStatus
    BY <1>3, WorksFrame DEF rowVars
  <2>2. CASE CreateOk(p)
    <3>1. cur[p] \in Cases /\ syncStatus[cur[p]] = "pending"
      BY <2>2 DEF CreateOk, RowsInLoop, BatchIsFresh, OnRow, TypeOK
    <3>2. PICK i \in SfIds : sf' = [sf EXCEPT ![cur[p]] = i]
      BY <2>2 DEF CreateOk
    <3> QED BY <2>1, <2>2, <3>1, <3>2, OutboxAccept DEF CreateOk
  <2>3. CASE ~CreateOk(p)
    BY <1>3, <2>1, <2>3 DEF Works, NextRow, BatchDone, Prepare, RecordTypeError,
       CreateDuplicate, CreateRejected, CreateTransient, CreateNetworkError, AdoptFound,
       AdoptHidden, AdoptError, PostgresError, GiveUp, sfVars
  <2> QED BY <2>2, <2>3
<1>4. ASSUME NEW p \in Passes, Marks(p)
      PROVE  Outbox!Next \/ UNCHANGED <<syncStatus, sf>>
  <2>1. /\ UNCHANGED sf
        /\ cur[p] \in Cases /\ syncStatus[cur[p]] = "pending"
    BY <1>4, MarksFrame DEF sfVars, BatchIsFresh, TypeOK
  <2>2. CASE MarkSynced(p)
    BY <2>1, <2>2, OutboxMark DEF MarkSynced, IdsAreReal
  <2>3. CASE MarkRetry(p)
    BY <2>1, <2>3 DEF MarkRetry
  <2>4. CASE MarkFailed(p)
    BY <2>1, <2>4, OutboxMark DEF MarkFailed
  <2> QED BY <1>4, <2>2, <2>3, <2>4 DEF Marks
<1>5. ASSUME NEW p \in Passes, FetchPending(p) \/ Borders(p) \/ LoseLock(p)
      PROVE  UNCHANGED <<syncStatus, sf>>
  BY <1>5, BordersFrame DEF FetchPending, Borders, Begin, TryLock, SkipLocked, Unlock,
     Crash, GiveUp, LoseLock, rowVars, sfVars
<1>6. CASE UNCHANGED vars
  BY <1>6, OutboxStutter DEF vars, rowVars, sfVars
<1> QED BY <1>1, <1>2, <1>3, <1>4, <1>5, <1>6, NextSplit, OutboxStutter

\* With a lock that lasts as long as its pass, overlapping passes, late
\* requests, retries and crashes are invisible: every Case is accepted at most
\* once, delivered only when accepted, and never leaves delivered or parked.
THEOREM Implements ==
    ASSUME MaxLockLosses = 0
    PROVE  Spec => OutboxSpec
<1>1. Init => Outbox!Init
  BY DEF Init, Outbox!Init, OutboxName
<1>2. Init => lockLosses = 0
  BY DEF Init
<1>3. IInv /\ lockLosses = 0 /\ [Next]_vars => (lockLosses = 0)'
  <2> SUFFICES ASSUME IInv, lockLosses = 0, [Next]_vars PROVE lockLosses' = 0
    OBVIOUS
  <2>1. ASSUME NEW c \in Cases, InsertCase(c) \/ OrphanLands(c) PROVE lockLosses' = 0
    BY <2>1 DEF InsertCase, OrphanLands, lockVars
  <2>2. ASSUME NEW p \in Passes, LoseLock(p) PROVE FALSE
    BY <2>2 DEF LoseLock
  <2>3. ASSUME NEW p \in Passes, Works(p) \/ Marks(p) \/ FetchPending(p) \/ Borders(p)
        PROVE  lockLosses' = 0
    BY <2>3, WorksFrame, MarksFrame, BordersFrame DEF FetchPending, lockVars, IInv, Typed
  <2>4. CASE UNCHANGED vars
    BY <2>4 DEF vars, lockVars
  <2> QED BY <2>1, <2>2, <2>3, <2>4, NextSplit
<1>4. IInv /\ lockLosses = 0 /\ (lockLosses = 0)' /\ [Next]_vars
        => [Outbox!Next]_(Outbox!vars)
  BY OutboxStep
<1> QED BY <1>1, <1>2, <1>3, <1>4, Invariance, PTL DEF Spec, OutboxSpec, Outbox!Spec
=============================================================================
