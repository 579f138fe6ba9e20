------------------------------ MODULE CasePull ------------------------------
(***************************************************************************)
(* The pull half of the Case sync: CaseSyncService.pull_from_sf            *)
(* (api/app/services/case_sync.py) with the SOQL query it runs             *)
(* (api/app/services/salesforce.py).                                       *)
(*                                                                         *)
(* A pull reads the watermark, queries the Cases modified since, applies   *)
(* each in a transaction of its own and then overwrites the watermark.     *)
(* Nothing serialises pulls: the sensor posts one a minute, gives up on    *)
(* the reply after 30 s, and the API carries on. What Salesforce holds for *)
(* a Case is identified with the time it was last modified.                *)
(***************************************************************************)
EXTENDS Naturals, FiniteSets

CONSTANTS
    Recs,       \* Salesforce Cases of the Fleet_Operations record type
    Local,      \* those whose external id is a row of app.cases
    Pulls,      \* pull requests that can be under way at once
    NULL,       \* no sync_watermarks row
    Limit,      \* the `limit` argument of pull_from_sf
    Second,     \* clock ticks in a second: the query's literal has no fraction
    Lookback,   \* _FIRST_PULL_LOOKBACK, in ticks
    FirstMark,  \* the watermark row at the start: a time, or NULL
    Ties,       \* whether Cases modified at one tick share a SystemModstamp
    Outages,    \* whether pulls can fail or crash at any point
    MaxTime     \* bound on the clock

ASSUME PullAssumption ==
    /\ IsFiniteSet(Recs) /\ Local \subseteq Recs
    /\ Limit \in Nat \ {0} /\ Second \in Nat \ {0} /\ Lookback \in Nat
    /\ NULL \notin Nat
    /\ FirstMark \in Nat \cup {NULL}
    /\ Ties \in BOOLEAN /\ Outages \in BOOLEAN
    /\ MaxTime \in Nat

VARIABLES
    now,        \* the clock, as Salesforce stamps it
    modified,   \* SystemModstamp of each Salesforce Case, 0 before the first
    \* Postgres
    watermark,  \* last_sync_at of sf_case_sync, or NULL
    row,        \* the modification each app.cases row mirrors
    linked,     \* the rows whose salesforce_id is set
    \* the pulls
    pc,         \* where each pull stands
    since,      \* the watermark it read
    batch,      \* the records it fetched and has not applied: Case |-> stamp
    top,        \* max_modstamp of the records it went through, 0 for None
    \* history, read by no guard
    lapsed,     \* Cases whose last modification no pull is sure to bring
    overlapped  \* pulls under way that have had another beside them

sfVars   == <<now, modified>>
pgVars   == <<watermark, row, linked>>
pullVars == <<pc, since, batch, top>>
history  == <<lapsed, overlapped>>
vars     == <<sfVars, pgVars, pullVars, history>>

Nothing == [r \in {} |-> 0]

Init ==
    /\ now = IF FirstMark = NULL THEN 1 ELSE FirstMark + 1
    /\ modified = [r \in Recs |-> 0]
    /\ watermark = FirstMark
    /\ row = [r \in Local |-> 0]
    /\ linked = {}
    /\ pc = [p \in Pulls |-> "idle"]
    /\ since = [p \in Pulls |-> 0]
    /\ batch = [p \in Pulls |-> Nothing]
    /\ top = [p \in Pulls |-> 0]
    /\ lapsed = {}
    /\ overlapped = {}

-----------------------------------------------------------------------------
(* The bound of the query.                                                 *)

\* default_pull_watermark: an hour before now, whenever it is asked.
DefaultMark == IF now > Lookback THEN now - Lookback ELSE 0

Mark == IF watermark = NULL THEN DefaultMark ELSE watermark

\* strftime("%Y-%m-%dT%H:%M:%SZ") drops the fraction of the second.
Floor(t) == t - (t % Second)

\* Mutant: the literal is rounded up instead of down.
BugHitsCeiling(t) == {r \in Recs : modified[r] > Floor(t) + Second}

\* WHERE SystemModstamp > literal.
Hits(t) == {r \in Recs : modified[r] > Floor(t)}

Current(r) == row[r] = modified[r] /\ r \in linked

\* A query from a mark that some pull has, or is going to leave, is past t.
Marks     == {Mark} \cup UNION {{since[p], top[p]} \cup {batch[p][r] : r \in DOMAIN batch[p]}
                                 : p \in Pulls}
Passed(t) == \E m \in Marks : t <= Floor(m)

-----------------------------------------------------------------------------
(* Salesforce.                                                             *)

\* With no watermark the window slides, and may leave a Case behind.
Tick ==
    /\ now < MaxTime
    /\ now' = now + 1
    /\ UNCHANGED <<modified, pgVars, pullVars, overlapped>>
    /\ lapsed' = lapsed \cup
          {r \in Local : 0 < modified[r] /\ modified[r] <= Floor(Mark') /\ ~Current(r)}

\* A user or a trigger modifies a Case, perhaps under a stamp that a pull has
\* passed already.
Modify(r) ==
    /\ modified[r] < now
    /\ ~Ties => \A s \in Recs : modified[s] < now
    /\ modified' = [modified EXCEPT ![r] = now]
    /\ lapsed' = IF Passed(now) THEN lapsed \cup {r} ELSE lapsed \ {r}
    /\ UNCHANGED <<now, pgVars, pullVars, overlapped>>

-----------------------------------------------------------------------------
(* A pull.                                                                 *)

Others(p) == {q \in Pulls \ {p} : pc[q] # "idle"}

\* _read_watermark.
ReadWatermark(p) ==
    /\ pc[p] = "idle"
    /\ since' = [since EXCEPT ![p] = Mark]
    /\ pc' = [pc EXCEPT ![p] = "query"]
    /\ overlapped' = IF Others(p) = {} THEN overlapped
                                       ELSE overlapped \cup Others(p) \cup {p}
    /\ UNCHANGED <<sfVars, pgVars, batch, top, lapsed>>

\* Mutant: no ORDER BY.
BugIsPage(page, hits) ==
    /\ page \subseteq hits
    /\ Cardinality(page) <= Limit
    /\ page = hits \/ Cardinality(page) = Limit

\* ORDER BY SystemModstamp ASC LIMIT n: a prefix, ties in any order.
IsPage(page, hits) ==
    /\ page \subseteq hits
    /\ Cardinality(page) <= Limit
    /\ page = hits \/ Cardinality(page) = Limit
    /\ \A r \in page, s \in hits \ page : modified[r] <= modified[s]

\* What a page leaves behind of the stamp it ends on. It is lost if that is a
\* full second: the next literal is that very stamp.
Cut(page, hits) ==
    {r \in hits \ page : /\ Floor(modified[r]) = modified[r]
                         /\ \E s \in page : modified[s] = modified[r]}

\* query_cases_modified_since: the records as they are at this moment.
Query(p) ==
    /\ pc[p] = "query"
    /\ \E page \in SUBSET Hits(since[p]) :
         /\ IsPage(page, Hits(since[p]))
         /\ batch' = [batch EXCEPT ![p] = [r \in page |-> modified[r]]]
         /\ lapsed' = lapsed \cup Cut(page, Hits(since[p]))
    /\ pc' = [pc EXCEPT ![p] = "apply"]
    /\ UNCHANGED <<sfVars, pgVars, since, top, overlapped>>

Drop(b, r) == [s \in DOMAIN b \ {r} |-> b[s]]

\* The loop takes the records oldest first.
IsNext(p, r) ==
    /\ r \in DOMAIN batch[p]
    /\ \A s \in DOMAIN batch[p] : batch[p][r] <= batch[p][s]

\* max_modstamp is advanced before the record is applied.
Seen(p, r) == top' = [top EXCEPT ![p] = IF batch[p][r] > @ THEN batch[p][r] ELSE @]

\* Mutant: an unknown Case is linked instead of passed over.
BugUnmatched(p) ==
    /\ pc[p] = "apply"
    /\ \E r \in Recs \ Local :
         /\ IsNext(p, r)
         /\ Seen(p, r)
         /\ batch' = [batch EXCEPT ![p] = Drop(@, r)]
         /\ linked' = linked \cup {r}
    /\ UNCHANGED <<sfVars, watermark, row, pc, since, history>>

\* _apply_record finds no row: the record is counted and passed over.
Unmatched(p) ==
    /\ pc[p] = "apply"
    /\ \E r \in Recs \ Local :
         /\ IsNext(p, r)
         /\ Seen(p, r)
         /\ batch' = [batch EXCEPT ![p] = Drop(@, r)]
    /\ UNCHANGED <<sfVars, pgVars, pc, since, history>>

\* The newest copy makes good what lapsed; an older one, of an overlapping
\* pull, undoes what was right.
Applied(r, copy) ==
    IF copy = modified[r] THEN lapsed \ {r}
    ELSE IF row[r] = modified[r] THEN lapsed \cup {r}
    ELSE lapsed

\* _apply_record: SELECT, UPDATE and timeline rows in one transaction. The
\* SELECT locks nothing, and nothing compares the record with what the row
\* already mirrors, so only the UPDATE matters to other pulls.
ApplyRecord(p) ==
    /\ pc[p] = "apply"
    /\ \E r \in Local :
         /\ IsNext(p, r)
         /\ Seen(p, r)
         /\ batch' = [batch EXCEPT ![p] = Drop(@, r)]
         /\ row' = [row EXCEPT ![r] = batch[p][r]]
         /\ linked' = linked \cup {r}
         /\ lapsed' = Applied(r, batch[p][r])
    /\ UNCHANGED <<sfVars, watermark, pc, since, overlapped>>

\* The pull returns and its local variables go with it.
Return(p) ==
    /\ pc' = [pc EXCEPT ![p] = "idle"]
    /\ since' = [since EXCEPT ![p] = 0]
    /\ batch' = [batch EXCEPT ![p] = Nothing]
    /\ top' = [top EXCEPT ![p] = 0]
    /\ overlapped' = overlapped \ {p}
    /\ UNCHANGED lapsed

\* Mutant: zero rows still write the mark, and write None's stand-in.
BugWriteWatermark(p) ==
    /\ pc[p] = "apply"
    /\ batch[p] = Nothing
    /\ watermark' = top[p]
    /\ Return(p)
    /\ UNCHANGED <<sfVars, row, linked>>

\* After the last record: an unconditional upsert of max_modstamp, if there
\* was a record at all.
WriteWatermark(p) ==
    /\ pc[p] = "apply"
    /\ batch[p] = Nothing
    /\ watermark' = IF top[p] = 0 THEN watermark ELSE top[p]
    /\ Return(p)
    /\ UNCHANGED <<sfVars, row, linked>>

\* Salesforce or Postgres fails, or the process dies: what was committed
\* stays, the rest of the pull is gone and the mark is not written.
Fail(p) ==
    /\ Outages
    /\ pc[p] # "idle"
    /\ Return(p)
    /\ UNCHANGED <<sfVars, pgVars>>

PullStep(p) ==
    \/ ReadWatermark(p) \/ Query(p)
    \/ Unmatched(p) \/ ApplyRecord(p) \/ WriteWatermark(p)

Next ==
    \/ Tick
    \/ \E r \in Recs : Modify(r)
    \/ \E p \in Pulls : PullStep(p) \/ Fail(p)

Spec == Init /\ [][Next]_vars

\* The sensor keeps posting, and a pull that has begun goes on.
FairSpec == Spec /\ \A p \in Pulls : WF_vars(PullStep(p) \/ Fail(p))

-----------------------------------------------------------------------------
(* Properties. *)

TypeOK ==
    /\ now \in Nat
    /\ modified \in [Recs -> Nat]
    /\ watermark \in Nat \cup {NULL}
    /\ row \in [Local -> Nat]
    /\ linked \in SUBSET Local
    /\ pc \in [Pulls -> {"idle", "query", "apply"}]
    /\ since \in [Pulls -> Nat]
    /\ batch = [p \in Pulls |-> batch[p]]
    /\ lapsed \subseteq Recs
    /\ overlapped \subseteq {p \in Pulls : pc[p] # "idle"}
    /\ \A p \in Pulls : DOMAIN batch[p] \subseteq Recs
                       /\ batch[p] \in [DOMAIN batch[p] -> Nat]
    /\ top \in [Pulls -> Nat]

(* The watermark passes over nothing: at any time, whatever the next query   *)
(* cannot see any more is what its row holds, and the row knows its          *)
(* salesforce_id (pull_from_sf advances the mark after the last record) -    *)
(* but for the Cases that one of four races has struck: a page cut through   *)
(* a group of equal stamps, a modification under a stamp already passed, an  *)
(* older copy of an overlapping pull, the first window sliding on.           *)
NothingForgotten ==
    \A r \in Local \ lapsed :
        0 < modified[r] /\ modified[r] <= Floor(Mark) => Current(r)

(* A row goes back to an older state of its Case, and the bound of the query *)
(* goes back, only by the hand of a pull that has had another beside it      *)
(* (_apply_record, _write_watermark). The watermark itself can go back       *)
(* within its second.                                                        *)
OnlyForward ==
    [][/\ \A r \in Local :
             row'[r] < row[r] => \E p \in overlapped : ApplyRecord(p)
       /\ watermark # NULL /\ Floor(watermark') < Floor(watermark)
             => \E p \in overlapped : WriteWatermark(p)]_vars

(* What definitions.py says of the pull: an overlapping run is harmless.     *)
OverlapIsHarmless ==
    (\A p \in Pulls : pc[p] = "idle") =>
        \A r \in Local : 0 < modified[r] /\ modified[r] <= Floor(Mark) => Current(r)

\* The records that a query from within their second fetches fit on a page.
Roomy ==
    \A r \in Recs :
        Cardinality({s \in Recs : /\ Floor(modified[s]) = Floor(modified[r])
                                  /\ modified[s] > Floor(modified[s])}) < Limit

(* If pulls stop failing some day and no second has a page of changes, every *)
(* row ends up as the last modification of its Case and stays so, however    *)
(* pulls overlap, but for what the races struck. (A pull that fetched        *)
(* nothing ends as a failed one does.)                                       *)
Mirrored ==
    <>[][\A p \in Pulls : Fail(p) => PullStep(p)]_vars /\ <>[]Roomy =>
        \A r \in Local : <>[](row[r] = modified[r] \/ r \in lapsed)

-----------------------------------------------------------------------------
(* Why they hold: the inductive invariant, in parts.                        *)

\* Stamps come from the clock, and rows lag behind them.
Stamps ==
    /\ \A r \in Recs : modified[r] <= now
    /\ \A r \in Local : row[r] <= modified[r]

\* A Case of stamp t is for a query after those that pull p stands for.
Ahead(p, t) ==
    /\ t > Floor(top[p])
    /\ \A s \in DOMAIN batch[p] : t > Floor(batch[p][s])

\* What a pull's query could not see is mirrored.
SinceSound(p) ==
    \A r \in Local \ lapsed :
        0 < modified[r] /\ modified[r] <= Floor(since[p]) => Current(r)

\* What it holds is above its bound and as new as the Case, or the Case has been
\* mirrored since, or is for a later pull.
BatchSound(p) ==
    \A r \in DOMAIN batch[p] :
        /\ Floor(since[p]) < batch[p][r] /\ batch[p][r] <= modified[r]
        /\ r \in Local => \/ batch[p][r] = modified[r] \/ Current(r)
                          \/ Ahead(p, modified[r]) \/ r \in lapsed

\* What it does not hold is mirrored, or is for a later pull.
RestSound(p) ==
    \A r \in Local \ DOMAIN batch[p] :
        modified[r] = 0 \/ Current(r) \/ Ahead(p, modified[r]) \/ r \in lapsed

\* A pull that no other has been beside finds everything as it left it.
Alone(p) ==
    /\ Others(p) = {}
    /\ watermark # NULL => since[p] = watermark
    /\ \A r \in Local \cap DOMAIN batch[p] : row[r] <= batch[p][r]

PullSound(p) ==
    /\ pc[p] \in {"idle", "query"} => batch[p] = Nothing /\ top[p] = 0
    /\ pc[p] # "idle" => SinceSound(p)
    /\ pc[p] = "apply" => BatchSound(p) /\ RestSound(p)
    /\ top[p] # 0 => Floor(since[p]) < top[p]
    /\ pc[p] # "idle" /\ p \notin overlapped => Alone(p)

PullInv ==
    /\ TypeOK /\ Stamps /\ NothingForgotten
    /\ \A p \in Pulls : PullSound(p)
=============================================================================
