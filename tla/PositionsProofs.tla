-------------------------- MODULE PositionsProofs ---------------------------
(***************************************************************************)
(* What Positions promises for every fleet, every number of polls, syncs   *)
(* and runs, every window and retention: one reconcile works at a time,    *)
(* and the live set shows the newest report the table was ever told of.    *)
(***************************************************************************)
EXTENDS Positions, TLAPS

-----------------------------------------------------------------------------
(* The overlap guard. *)

GuardInv == status \in [Slots -> Statuses] /\ OneWorks

LEMMA GuardStep ==
    ASSUME GuardInv, NEW r \in Slots,
           Launch(r) \/ Check(r) \/ Leave(r) \/ Die(r) \/ Clear(r)
    PROVE  GuardInv'
<1> USE DEF GuardInv, OneWorks, Statuses
<1>1. CASE Launch(r)
  BY <1>1 DEF Launch
<1>2. CASE Check(r)
  <2>1. CASE \E q \in Slots \ {r} : Active(q)
    BY <1>2, <2>1 DEF Check
  <2>2. CASE ~ \E q \in Slots \ {r} : Active(q)
    <3>1. \A q \in Slots \ {r} : status[q] # "working"
      BY <2>2 DEF Active
    <3> QED BY <1>2, <2>2, <3>1 DEF Check
  <2> QED BY <2>1, <2>2
<1>3. CASE Leave(r)
  BY <1>3 DEF Leave
<1>4. CASE Die(r)
  BY <1>4 DEF Die
<1>5. CASE Clear(r)
  BY <1>5 DEF Clear
<1> QED BY <1>1, <1>2, <1>3, <1>4, <1>5

LEMMA GuardInitial == Init => GuardInv
BY DEF Init, GuardInit, GuardInv, OneWorks, Statuses

\* A step leaves the guard alone or is a step of it.
LEMMA GuardSteps ==
    ASSUME [Next]_vars
    PROVE  \/ UNCHANGED status
           \/ \E r \in Slots : Launch(r) \/ Check(r) \/ Leave(r) \/ Die(r) \/ Clear(r)
<1> USE DEF vars, reconVars
<1>1. CASE Tick \/ Prune \/ UNCHANGED vars
  BY <1>1 DEF Tick, Prune
<1>2. ASSUME NEW a \in Aircraft, Hear(a) PROVE UNCHANGED status
  BY <1>2 DEF Hear
<1>3. ASSUME NEW p \in Polls, PollStep(p) \/ FailPoll(p) PROVE UNCHANGED status
  BY <1>3 DEF PollStep, FetchStates, UpsertPositions, FailPoll
<1>4. ASSUME NEW s \in Syncs, SyncStep(s) \/ FailSync(s) PROVE UNCHANGED status
  BY <1>4 DEF SyncStep, FetchLive, UpsertAircraft, FailSync
<1>5. ASSUME NEW r \in Slots, LaunchRun(r) \/ CheckRun(r) \/ SkipRun(r) \/ FetchKeep(r)
                              \/ FailReconcile(r) \/ DieRun(r) \/ ClearRun(r)
      PROVE  UNCHANGED status \/ Launch(r) \/ Check(r) \/ Leave(r) \/ Die(r) \/ Clear(r)
  BY <1>5 DEF LaunchRun, CheckRun, SkipRun, FetchKeep, FailReconcile, DieRun, ClearRun
<1>6. ASSUME NEW r \in Slots, ListTenant(r) \/ Evict(r)
      PROVE  UNCHANGED status \/ Leave(r)
  BY <1>6 DEF ListTenant, Evict, Delete
<1> QED BY <1>1, <1>2, <1>3, <1>4, <1>5, <1>6 DEF Next, ReconcileStep

\* Runs of one job exclude each other, launched together or not, and however
\* they die and are cleared (_reconcile_overlap, guarded by get_run_records).
THEOREM Exclusion == Spec => []OneWorks
<1>1. GuardInv /\ [Next]_vars => GuardInv'
  <2> SUFFICES ASSUME GuardInv, [Next]_vars PROVE GuardInv'
    OBVIOUS
  <2>1. CASE UNCHANGED status
    BY <2>1 DEF GuardInv, OneWorks
  <2> QED BY <2>1, GuardSteps, GuardStep
<1>2. GuardInv => OneWorks
  BY DEF GuardInv
<1> QED BY GuardInitial, <1>1, <1>2, PTL DEF Spec

-----------------------------------------------------------------------------
(* The table. *)

\* One report, in all its columns.
OneReport(row) == row = [seen |-> row.seen, place |-> row.seen, region |-> row.seen]

Told ==
    /\ now \in Nat \ {0}
    /\ heard \in [Aircraft -> Nat]
    /\ DOMAIN poll = Polls
    /\ \A p \in Polls : DOMAIN poll[p] \subseteq Aircraft
                        /\ \A a \in DOMAIN poll[p] : /\ OneReport(poll[p][a])
                                                     /\ poll[p][a].seen \in 1..now

\* The row is the newest report, or that is too old to be live; a row that is
\* gone was too old.
RowIsNewest(row, new) ==
    /\ new \in Nat
    /\ OneReport(row) /\ row.seen \in 0..new
    /\ row.seen = new \/ new + POSITION_RETENTION < now

TableInv ==
    /\ Told
    /\ table = [a \in Aircraft |-> table[a]]
    /\ newest = [a \in Aircraft |-> newest[a]]
    /\ \A a \in Aircraft : RowIsNewest(table[a], newest[a])

LEMMA TableInitial == Init => TableInv
BY PositionsAssumption DEF Init, TableInv, Told, RowIsNewest, OneReport, NoRow, Nothing

LEMMA Upserted ==
    ASSUME NEW row, NEW new, NEW n \in Nat \ {0}, RowIsNewest(row, new), now \in Nat,
           n <= now
    PROVE  LET x == [seen |-> n, place |-> n, region |-> n]
           IN  RowIsNewest(Upsert(row, x), Newer(new, n))
<1> DEFINE x == [seen |-> n, place |-> n, region |-> n]
           s == row.seen
           top == IF n > s THEN n ELSE s
<1>1. row = [seen |-> s, place |-> s, region |-> s] /\ s \in Nat /\ new \in Nat /\ s <= new
  BY DEF RowIsNewest, OneReport
<1>2. Upsert(row, x) = [seen |-> top, place |-> top, region |-> top]
  <2>1. CASE row = NoRow
    <3>1. s = 0
      BY <2>1 DEF NoRow
    <3> QED BY <2>1, <3>1 DEF Upsert
  <2>2. CASE row # NoRow
    <3>1. /\ x.seen = n /\ x.place = n /\ x.region = n
          /\ row.place = s /\ row.region = s
      BY <1>1
    <3> QED BY <2>2, <3>1 DEF Upsert, Merge
  <2> QED BY <2>1, <2>2
<1>3. top \in Nat /\ Newer(new, n) \in Nat /\ top <= Newer(new, n)
  BY <1>1 DEF Newer
<1>4. top = Newer(new, n) \/ Newer(new, n) + POSITION_RETENTION < now
  BY <1>1, PositionsAssumption DEF Newer, RowIsNewest
<1> QED BY <1>2, <1>3, <1>4, PositionsAssumption DEF RowIsNewest, OneReport

LEMMA ToldStep ==
    ASSUME TableInv, [Next]_vars
    PROVE  Told'
<1> USE DEF TableInv, Told
<1>1. CASE Tick
  BY <1>1 DEF Tick, OneReport
<1>2. ASSUME NEW a \in Aircraft, Hear(a) PROVE Told'
  BY <1>2 DEF Hear, OneReport
<1>3. ASSUME NEW p \in Polls, FetchStates(p) PROVE Told'
  <2> DEFINE b == [a \in {b \in Aircraft : heard[b] = now} |-> Report(a)]
  <2>1. DOMAIN b \subseteq Aircraft /\ \A a \in DOMAIN b : OneReport(b[a]) /\ b[a].seen \in 1..now
    BY DEF Report, OneReport
  <2>2. poll' = [poll EXCEPT ![p] = b]
    BY <1>3 DEF FetchStates
  <2> HIDE DEF b
  <2> QED BY <1>3, <2>1, <2>2 DEF FetchStates, OneReport
<1>4. ASSUME NEW p \in Polls, UpsertPositions(p) \/ FailPoll(p) PROVE Told'
  <2>1. poll' = [poll EXCEPT ![p] = Nothing] /\ UNCHANGED <<now, heard>>
    BY <1>4 DEF UpsertPositions, FailPoll
  <2>2. DOMAIN Nothing = {}
    BY DEF Nothing
  <2> QED BY <2>1, <2>2 DEF OneReport
<1>5. CASE Prune \/ UNCHANGED vars
  BY <1>5 DEF Prune, vars, tableVars, OneReport
<1>6. CASE UNCHANGED tableVars
  BY <1>6 DEF tableVars, OneReport
<1>7. ASSUME NEW s \in Syncs, SyncStep(s) \/ FailSync(s) PROVE UNCHANGED tableVars
  BY <1>7 DEF SyncStep, FetchLive, UpsertAircraft, FailSync
<1>8. ASSUME NEW r \in Slots, \/ LaunchRun(r) \/ ReconcileStep(r)
                              \/ FailReconcile(r) \/ DieRun(r) \/ ClearRun(r)
      PROVE  UNCHANGED tableVars
  BY <1>8 DEF LaunchRun, ReconcileStep, CheckRun, SkipRun, FetchKeep, ListTenant, Evict,
              FailReconcile, DieRun, ClearRun, tableVars
<1> QED BY <1>1, <1>2, <1>3, <1>4, <1>5, <1>6, <1>7, <1>8 DEF Next, PollStep

\* All steps but four leave the table alone and the clock.
LEMMA TableSteps ==
    ASSUME [Next]_vars
    PROVE  \/ UNCHANGED <<now, table, newest>>
           \/ Tick \/ Prune \/ \E p \in Polls : UpsertPositions(p)
<1> USE DEF vars, tableVars
<1>1. ASSUME NEW a \in Aircraft, Hear(a) PROVE UNCHANGED <<now, table, newest>>
  BY <1>1 DEF Hear
<1>2. ASSUME NEW p \in Polls, FetchStates(p) \/ FailPoll(p) PROVE UNCHANGED <<now, table, newest>>
  BY <1>2 DEF FetchStates, FailPoll
<1>3. ASSUME NEW s \in Syncs, SyncStep(s) \/ FailSync(s) PROVE UNCHANGED <<now, table, newest>>
  BY <1>3 DEF SyncStep, FetchLive, UpsertAircraft, FailSync
<1>4. ASSUME NEW r \in Slots, \/ LaunchRun(r) \/ ReconcileStep(r)
                              \/ FailReconcile(r) \/ DieRun(r) \/ ClearRun(r)
      PROVE  UNCHANGED <<now, table, newest>>
  BY <1>4 DEF LaunchRun, ReconcileStep, CheckRun, SkipRun, FetchKeep, ListTenant, Evict,
              FailReconcile, DieRun, ClearRun
<1> QED BY <1>1, <1>2, <1>3, <1>4 DEF Next, PollStep

LEMMA TableStep ==
    ASSUME TableInv, [Next]_vars
    PROVE  TableInv'
<1>1. Told'
  BY ToldStep
<1>2. CASE UNCHANGED <<now, table, newest>>
  BY <1>1, <1>2 DEF TableInv, RowIsNewest, OneReport
<1>3. CASE Tick
  <2>1. now' = now + 1 /\ now \in Nat /\ UNCHANGED <<table, newest>>
    BY <1>3 DEF Tick, TableInv, Told, tableVars
  <2>2. ASSUME NEW a \in Aircraft PROVE RowIsNewest(table[a], newest[a])'
    BY <2>1, PositionsAssumption DEF TableInv, RowIsNewest, OneReport
  <2> QED BY <1>1, <2>1, <2>2 DEF TableInv
<1>4. CASE Prune
  <2>1. /\ table' = [a \in Aircraft |->
                       IF table[a].seen + POSITION_RETENTION < now THEN NoRow ELSE table[a]]
        /\ UNCHANGED <<now, newest>>
    BY <1>4 DEF Prune
  <2>2. ASSUME NEW a \in Aircraft PROVE RowIsNewest(table[a], newest[a])'
    <3>1. RowIsNewest(table[a], newest[a]) /\ now \in Nat
      BY DEF TableInv, Told
    <3>2. CASE table[a].seen + POSITION_RETENTION < now
      <4>1. newest[a] + POSITION_RETENTION < now
        BY <3>1, <3>2 DEF RowIsNewest
      <4> QED BY <2>1, <3>1, <3>2, <4>1 DEF RowIsNewest, OneReport, NoRow
    <3>3. CASE ~ (table[a].seen + POSITION_RETENTION < now)
      BY <2>1, <3>1, <3>3 DEF RowIsNewest, OneReport
    <3> QED BY <3>2, <3>3
  <2> QED BY <1>1, <2>1, <2>2 DEF TableInv
<1>5. ASSUME NEW p \in Polls, UpsertPositions(p) PROVE TableInv'
  <2>1. /\ table' = [a \in Aircraft |->
                       IF a \in DOMAIN poll[p] THEN Upsert(table[a], poll[p][a]) ELSE table[a]]
        /\ newest' = [a \in Aircraft |->
                       IF a \in DOMAIN poll[p] THEN Newer(newest[a], poll[p][a].place)
                       ELSE newest[a]]
        /\ now' = now
    BY <1>5 DEF UpsertPositions
  <2>2. ASSUME NEW a \in Aircraft PROVE RowIsNewest(table[a], newest[a])'
    <3>1. RowIsNewest(table[a], newest[a]) /\ now \in Nat
      BY DEF TableInv, Told
    <3>2. CASE a \in DOMAIN poll[p]
      <4> DEFINE n == poll[p][a].seen
      <4>1. OneReport(poll[p][a]) /\ n \in 1..now
        BY <3>2 DEF TableInv, Told
      <4>2. poll[p][a] = [seen |-> n, place |-> n, region |-> n]
        BY <4>1 DEF OneReport
      <4>3. poll[p][a].place = n
        BY <4>2
      <4> HIDE DEF n
      <4>4. RowIsNewest(Upsert(table[a], poll[p][a]), Newer(newest[a], n))
        BY <3>1, <4>1, <4>2, Upserted
      <4>5. table'[a] = Upsert(table[a], poll[p][a]) /\ newest'[a] = Newer(newest[a], n)
        BY <2>1, <3>2, <4>3
      <4> QED BY <2>1, <4>4, <4>5 DEF RowIsNewest, OneReport
    <3>3. CASE a \notin DOMAIN poll[p]
      BY <2>1, <3>1, <3>3 DEF RowIsNewest, OneReport
    <3> QED BY <3>2, <3>3
  <2> QED BY <1>1, <2>1, <2>2 DEF TableInv
<1> QED BY <1>2, <1>3, <1>4, <1>5, TableSteps

\* A row in the window is in the retention, so it cannot be an old report that
\* came back after a newer one was pruned.
LEMMA LiveNewest == TableInv => LiveIsNewest
<1> SUFFICES ASSUME TableInv, NEW a \in Live
             PROVE  table[a].place = newest[a] /\ table[a].region = newest[a]
  BY DEF LiveIsNewest
<1>1. /\ a \in Aircraft /\ RowIsNewest(table[a], newest[a]) /\ now \in Nat
      /\ table[a].seen + LIVE_POSITION_WINDOW >= now
  BY DEF Live, TableInv, Told
<1>2. table[a].seen = newest[a]
  BY <1>1, PositionsAssumption DEF RowIsNewest
<1> QED BY <1>1, <1>2 DEF RowIsNewest, OneReport

\* Whatever order polls commit in, what is live is the newest report, in all
\* its columns (CURRENT_POSITIONS_UPSERT_SQL, list_live_positions).
THEOREM Newest == Spec => []LiveIsNewest
<1>1. TableInv /\ [Next]_vars => TableInv'
  BY TableStep
<1> QED BY TableInitial, LiveNewest, <1>1, PTL DEF Spec

-----------------------------------------------------------------------------
(* Types. *)

TypeInv ==
    /\ TypeOK
    /\ TableInv
    /\ DOMAIN sync = Syncs
    /\ live = {} \/ doomed = {}

LEMMA TypedInit == Init => TypeInv
<1> SUFFICES ASSUME Init PROVE TypeInv
  OBVIOUS
<1>1. DOMAIN Nothing = {}
  BY DEF Nothing
<1> QED BY <1>1, TableInitial DEF Init, TypeInv, TypeOK, GuardInit, Statuses, NoRow, RowOf

\* The times of the table and of the polls are of the past.
TableTypes ==
    /\ now \in Nat
    /\ heard \in [Aircraft -> 0..now]
    /\ table \in [Aircraft -> RowOf(now)]
    /\ newest \in [Aircraft -> 0..now]
    /\ \A p \in Polls : DOMAIN poll[p] \subseteq Aircraft
                        /\ \A a \in DOMAIN poll[p] : poll[p][a] \in RowOf(now)

\* What the tenant and the syncs hold.
SyncTypes ==
    /\ tenant \in [Aircraft -> 0..now]
    /\ DOMAIN sync = Syncs
    /\ \A s \in Syncs : DOMAIN sync[s] \subseteq Aircraft
                        /\ \A a \in DOMAIN sync[s] : sync[s][a] \in 1..now

ReconcileTypes ==
    /\ status \in [Slots -> Statuses]
    /\ live \subseteq Aircraft /\ doomed \subseteq Aircraft
    /\ live \cup doomed # {} => \E r \in Slots : status[r] = "working"
    /\ live = {} \/ doomed = {}

LEMMA TypesSplit == TypeInv <=> TableInv /\ TableTypes /\ SyncTypes /\ ReconcileTypes
BY DEF TypeInv, TypeOK, TableTypes, SyncTypes, ReconcileTypes

LEMMA TableTypesStep ==
    ASSUME TypeInv, [Next]_vars
    PROVE  TableTypes'
<1>1. TableTypes /\ TableInv /\ TableInv'
  BY TypesSplit, TableStep
<1>2. CASE UNCHANGED tableVars
  BY <1>1, <1>2 DEF TableTypes, tableVars, RowOf
<1>3. CASE Tick
  <2>1. now' = now + 1 /\ UNCHANGED <<heard, table, newest, poll>>
    BY <1>3 DEF Tick
  <2>2. 0..now \subseteq 0..now' /\ RowOf(now) \subseteq RowOf(now') /\ now' \in Nat
    BY <1>1, <2>1 DEF TableTypes, RowOf
  <2> QED BY <1>1, <2>1, <2>2 DEF TableTypes
<1>4. ASSUME NEW a \in Aircraft, Hear(a) PROVE TableTypes'
  BY <1>1, <1>4 DEF Hear, TableTypes, RowOf
<1>5. ASSUME NEW p \in Polls, FetchStates(p) PROVE TableTypes'
  <2> DEFINE b == [a \in {b \in Aircraft : heard[b] = now} |-> Report(a)]
  <2>1. DOMAIN b \subseteq Aircraft /\ \A a \in DOMAIN b : b[a] \in RowOf(now)
    BY <1>1 DEF Report, RowOf, TableTypes
  <2>2. poll' = [poll EXCEPT ![p] = b] /\ UNCHANGED <<now, heard, table, newest>>
    BY <1>5 DEF FetchStates
  <2> HIDE DEF b
  <2> QED BY <1>1, <2>1, <2>2 DEF TableTypes, TableInv, Told, RowOf
<1>6. ASSUME NEW p \in Polls, UpsertPositions(p) \/ FailPoll(p) PROVE TableTypes'
  <2>1. poll' = [poll EXCEPT ![p] = Nothing] /\ UNCHANGED <<now, heard>>
    BY <1>6 DEF UpsertPositions, FailPoll
  <2>2. DOMAIN Nothing = {}
    BY DEF Nothing
  <2>3. \A q \in Polls : DOMAIN poll'[q] \subseteq Aircraft
                         /\ \A a \in DOMAIN poll'[q] : poll'[q][a] \in RowOf(now')
    BY <1>1, <2>1, <2>2 DEF TableTypes, TableInv, Told
  <2>4. newest' \in [Aircraft -> 0..now']
    <3>1. CASE FailPoll(p)
      BY <1>1, <3>1 DEF FailPoll, TableTypes
    <3>2. CASE UpsertPositions(p)
      <4>1. ASSUME NEW a \in DOMAIN poll[p] PROVE poll[p][a].place \in 0..now
        BY <1>1, <4>1 DEF TableTypes, RowOf
      <4> QED BY <1>1, <2>1, <3>2, <4>1 DEF UpsertPositions, Newer, TableTypes
    <3> QED BY <1>6, <3>1, <3>2
  <2>5. table' \in [Aircraft -> RowOf(now')]
    <3>1. ASSUME NEW a \in Aircraft PROVE table'[a] \in RowOf(now')
      <4>1. RowIsNewest(table'[a], newest'[a])
        BY <1>1, <2>1 DEF TableInv, RowIsNewest, OneReport
      <4>2. newest'[a] \in 0..now' /\ now' \in Nat
        BY <1>1, <2>1, <2>4 DEF TableTypes
      <4> QED BY <4>1, <4>2 DEF RowIsNewest, OneReport, RowOf
    <3> QED BY <1>1, <3>1 DEF TableInv
  <2> QED BY <1>1, <2>1, <2>3, <2>4, <2>5 DEF TableTypes
<1>7. CASE Prune
  <2>1. NoRow \in RowOf(now)
    BY <1>1 DEF TableTypes, NoRow, RowOf
  <2> QED BY <1>1, <1>7, <2>1 DEF Prune, TableTypes
<1>8. CASE UNCHANGED vars
  BY <1>2, <1>8 DEF vars
<1>9. ASSUME NEW s \in Syncs, SyncStep(s) \/ FailSync(s) PROVE UNCHANGED tableVars
  BY <1>9 DEF SyncStep, FetchLive, UpsertAircraft, FailSync
<1>10. ASSUME NEW r \in Slots, \/ LaunchRun(r) \/ ReconcileStep(r)
                               \/ FailReconcile(r) \/ DieRun(r) \/ ClearRun(r)
      PROVE  UNCHANGED tableVars
  BY <1>10 DEF LaunchRun, ReconcileStep, CheckRun, SkipRun, FetchKeep, ListTenant, Evict,
               FailReconcile, DieRun, ClearRun, tableVars
<1> QED BY <1>2, <1>3, <1>4, <1>5, <1>6, <1>7, <1>8, <1>9, <1>10 DEF Next, PollStep

\* What the table shows as live has been heard.
LEMMA LiveShown ==
    ASSUME TypeInv, NEW a \in Live
    PROVE  a \in Aircraft /\ table[a].place \in 1..now
<1>1. a \in Aircraft /\ table[a] # NoRow /\ OneReport(table[a]) /\ table[a] \in RowOf(now)
  BY TypesSplit DEF Live, TableInv, RowIsNewest, TableTypes
<1>2. table[a].seen # 0 /\ table[a].place = table[a].seen
  BY <1>1 DEF OneReport, NoRow
<1> QED BY <1>1, <1>2, TypesSplit DEF RowOf, TableTypes

LEMMA SyncTypesStep ==
    ASSUME TypeInv, [Next]_vars
    PROVE  SyncTypes'
<1>1. SyncTypes /\ TableTypes
  BY TypesSplit
<1>2. CASE UNCHANGED <<now, tenant, sync>>
  BY <1>1, <1>2 DEF SyncTypes
<1>3. CASE Tick
  BY <1>1, <1>3 DEF Tick, SyncTypes, TableTypes
<1>4. ASSUME NEW s \in Syncs, FetchLive(s) PROVE SyncTypes'
  <2> DEFINE b == [a \in Live |-> table[a].place]
  <2>1. DOMAIN b \subseteq Aircraft /\ \A a \in DOMAIN b : b[a] \in 1..now
    BY LiveShown
  <2>2. sync' = [sync EXCEPT ![s] = b] /\ UNCHANGED <<now, tenant>>
    BY <1>4 DEF FetchLive, tableVars
  <2> HIDE DEF b
  <2> QED BY <1>1, <2>1, <2>2 DEF SyncTypes
<1>5. ASSUME NEW s \in Syncs, UpsertAircraft(s) PROVE SyncTypes'
  <2>1. PICK a \in DOMAIN sync[s] :
             /\ tenant' = [tenant EXCEPT ![a] = sync[s][a]]
             /\ sync' = [sync EXCEPT ![s] = [b \in DOMAIN sync[s] \ {a} |-> sync[s][b]]]
    BY <1>5 DEF UpsertAircraft
  <2>2. now' = now
    BY <1>5 DEF UpsertAircraft, tableVars
  <2> DEFINE rest == [b \in DOMAIN sync[s] \ {a} |-> sync[s][b]]
  <2>3. DOMAIN rest \subseteq Aircraft /\ \A b \in DOMAIN rest : rest[b] \in 1..now
    BY <1>1 DEF SyncTypes
  <2>4. sync' = [sync EXCEPT ![s] = rest]
    BY <2>1
  <2>5. sync[s][a] \in 0..now
    BY <1>1 DEF SyncTypes, TableTypes
  <2> HIDE DEF rest
  <2> QED BY <1>1, <2>1, <2>2, <2>3, <2>4, <2>5 DEF SyncTypes
<1>6. ASSUME NEW s \in Syncs, FailSync(s) PROVE SyncTypes'
  <2>1. DOMAIN Nothing = {}
    BY DEF Nothing
  <2> QED BY <1>1, <1>6, <2>1 DEF FailSync, SyncTypes, tableVars
<1>7. ASSUME NEW r \in Slots, Evict(r) PROVE SyncTypes'
  <2>1. PICK a : tenant' = [tenant EXCEPT ![a] = 0]
    BY <1>7 DEF Evict
  <2>2. now' = now /\ sync' = sync /\ 0 \in 0..now
    BY <1>1, <1>7 DEF Evict, TableTypes, tableVars
  <2>3. tenant' \in [Aircraft -> 0..now']
    BY <1>1, <2>1, <2>2 DEF SyncTypes
  <2> QED BY <1>1, <2>2, <2>3 DEF SyncTypes
<1>8. CASE Prune \/ UNCHANGED vars
  BY <1>2, <1>8 DEF Prune, vars, tableVars
<1>9. ASSUME NEW a \in Aircraft, Hear(a) PROVE UNCHANGED <<now, tenant, sync>>
  BY <1>9 DEF Hear
<1>10. ASSUME NEW p \in Polls, PollStep(p) \/ FailPoll(p) PROVE UNCHANGED <<now, tenant, sync>>
  BY <1>10 DEF PollStep, FetchStates, UpsertPositions, FailPoll
<1>11. ASSUME NEW r \in Slots, \/ LaunchRun(r) \/ CheckRun(r) \/ SkipRun(r) \/ FetchKeep(r)
                               \/ ListTenant(r) \/ FailReconcile(r) \/ DieRun(r) \/ ClearRun(r)
      PROVE  UNCHANGED <<now, tenant, sync>>
  BY <1>11 DEF LaunchRun, CheckRun, SkipRun, FetchKeep, ListTenant, FailReconcile, DieRun,
               ClearRun, tableVars
<1> QED BY <1>2, <1>3, <1>4, <1>5, <1>6, <1>7, <1>8, <1>9, <1>10, <1>11
        DEF Next, SyncStep, ReconcileStep

LEMMA ReconcileTypesStep ==
    ASSUME TypeInv, [Next]_vars
    PROVE  ReconcileTypes'
<1> USE DEF ReconcileTypes, Statuses
<1>1. ReconcileTypes
  BY TypesSplit
<1>2. Live \subseteq Aircraft /\ Objects \subseteq Aircraft
      /\ \A keep : Capped(Objects, keep) \subseteq Aircraft
  BY DEF Live, Objects, Capped
<1>3. CASE UNCHANGED reconVars
  BY <1>1, <1>3 DEF reconVars
<1>4. ASSUME NEW r \in Slots, LaunchRun(r) \/ CheckRun(r) \/ SkipRun(r) \/ ClearRun(r)
      PROVE  ReconcileTypes'
  BY <1>1, <1>4 DEF LaunchRun, CheckRun, SkipRun, ClearRun, Launch, Check, Leave, Clear
<1>5. ASSUME NEW r \in Slots, FetchKeep(r) PROVE ReconcileTypes'
  BY <1>1, <1>2, <1>5 DEF FetchKeep, Leave
<1>6. ASSUME NEW r \in Slots, ListTenant(r) PROVE ReconcileTypes'
  BY <1>1, <1>2, <1>6 DEF ListTenant, Delete, Leave
<1>7. ASSUME NEW r \in Slots, Evict(r) PROVE ReconcileTypes'
  BY <1>1, <1>7 DEF Evict, Delete, Leave
<1>8. ASSUME NEW r \in Slots, FailReconcile(r) \/ DieRun(r) PROVE ReconcileTypes'
  BY <1>1, <1>8 DEF FailReconcile, DieRun, Leave, Die
<1>9. CASE Tick \/ Prune \/ UNCHANGED vars
  BY <1>3, <1>9 DEF Tick, Prune, vars
<1>10. ASSUME NEW a \in Aircraft, Hear(a) PROVE UNCHANGED reconVars
  BY <1>10 DEF Hear
<1>11. ASSUME NEW p \in Polls, PollStep(p) \/ FailPoll(p) PROVE UNCHANGED reconVars
  BY <1>11 DEF PollStep, FetchStates, UpsertPositions, FailPoll
<1>12. ASSUME NEW s \in Syncs, SyncStep(s) \/ FailSync(s) PROVE UNCHANGED reconVars
  BY <1>12 DEF SyncStep, FetchLive, UpsertAircraft, FailSync
<1> QED BY <1>3, <1>4, <1>5, <1>6, <1>7, <1>8, <1>9, <1>10, <1>11, <1>12
        DEF Next, ReconcileStep

\* Times are of the past, and the reconcile holds something only while a run
\* of it works.
THEOREM TypeCorrect == Spec => []TypeOK
<1>1. TypeInv /\ [Next]_vars => TypeInv'
  <2> SUFFICES ASSUME TypeInv, [Next]_vars PROVE TypeInv'
    OBVIOUS
  <2>1. TableInv'
    BY TableStep DEF TypeInv
  <2> QED BY <2>1, TableTypesStep, SyncTypesStep, ReconcileTypesStep
          DEF TypeInv, TypeOK, TableTypes, SyncTypes, ReconcileTypes
<1>2. TypeInv => TypeOK
  BY DEF TypeInv
<1> QED BY TypedInit, <1>1, <1>2, PTL DEF Spec
=============================================================================
