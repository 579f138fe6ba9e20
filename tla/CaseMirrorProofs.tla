-------------------------- MODULE CaseMirrorProofs --------------------------
(***************************************************************************)
(* What CaseMirror promises for every set of Cases, every Limit and cap of *)
(* deletes, any number of overlapping sync runs, any number of open        *)
(* transactions, and runs that fail anywhere: only rows that lapsed are    *)
(* missed, and no row is evicted that was there all the while.             *)
(***************************************************************************)
EXTENDS CaseMirror, FiniteSetTheorems, WellFoundedInduction, TLAPS

-----------------------------------------------------------------------------
(* The inductive invariant. *)

\* A position or a cursor at a stamp or beyond.
Beyond(mark, stamp) == mark # NULL /\ stamp <= mark

\* A row the tenant does not have as it is lies above the cursor, and whoever
\* has read past it holds it as it is.
MissedIsAhead ==
    \A c \in Rows \ lapsed :
        \/ tenant[c] = ver[c]
        \/ /\ ~Beyond(cursor, upd[c])
           /\ \A r \in Runs : Beyond(pos[r], upd[c]) => c \in DOMAIN items[r] /\ items[r][c] = ver[c]

SyncInv == TypeOK /\ MissedIsAhead

\* A row that stayed has been seen or is still to be read; once the reading is
\* done it has been seen, and what was seen is not deleted.
ReconInv ==
    /\ stayed \subseteq Rows
    /\ rpc = "idle" => stayed = {} /\ keep = {} /\ rpos = NULL
    /\ rpc = "drain" => \A c \in stayed : c \in keep \/ ~Beyond(rpos, upd[c])
    /\ rpc \in {"list", "delete"} => stayed \subseteq keep
    /\ rpc = "delete" => doomed \cap keep = {}

-----------------------------------------------------------------------------
(* A page. *)

\* A strict order has a minimal element in every finite set: of the sets of what
\* is below an element, one has no strict subset among them.
LEMMA Minimal ==
    ASSUME NEW S, IsFiniteSet(S), S # {}, NEW R,
           \A x \in S : <<x, x>> \notin R,
           \A x, y, z \in S : <<x, y>> \in R /\ <<y, z>> \in R => <<x, z>> \in R
    PROVE  \E m \in S : \A x \in S : <<x, m>> \notin R
<1> DEFINE below(x) == {y \in S : <<y, x>> \in R}
           belows == {below(x) : x \in S}
<1>1. belows \subseteq FiniteSubsetsOf(S) /\ belows # {}
  <2>1. \A x \in S : below(x) \in SUBSET S /\ IsFiniteSet(below(x))
    BY FS_Subset
  <2> HIDE DEF below
  <2> QED BY <2>1 DEF FiniteSubsetsOf
<1>2. \E b \in belows : \A c \in belows : <<c, b>> \notin StrictSubsetOrdering(S)
  <2> HIDE DEF belows
  <2>1. IsWellFoundedOn(StrictSubsetOrdering(S), FiniteSubsetsOf(S))
    BY FS_StrictSubsetOrderingWellFounded
  <2> QED BY <1>1, <2>1, WFMin
<1>3. PICK m \in S : \A x \in S : <<below(x), below(m)>> \notin StrictSubsetOrdering(S)
  <2>1. PICK b \in belows : \A c \in belows : <<c, b>> \notin StrictSubsetOrdering(S)
    BY <1>2
  <2>2. PICK m \in S : b = below(m)
    BY <2>1
  <2>3. \A x \in S : below(x) \in belows
    OBVIOUS
  <2> HIDE DEF below, belows
  <2> QED BY <2>1, <2>2, <2>3
<1>4. ASSUME NEW x \in S, <<x, m>> \in R PROVE FALSE
  <2>1. below(x) \subseteq below(m) /\ x \in below(m) /\ x \notin below(x)
    BY <1>4
  <2>2. below(x) \in SUBSET S /\ below(m) \in SUBSET S
    OBVIOUS
  <2>3. <<below(x), below(m)>> \in StrictSubsetOrdering(S)
    BY <2>1, <2>2 DEF StrictSubsetOrdering
  <2> QED BY <1>3, <2>3
<1> QED BY <1>4

\* ORDER BY updated_at, case_id is a strict order on the rows.
LEMMA BeforeIsOrder ==
    ASSUME TypeOK, NEW c \in Cases, NEW d \in Cases
    PROVE  /\ c = d \/ Before(c, d) \/ Before(d, c)
           /\ ~Before(c, c)
           /\ Before(c, d) => upd[c] <= upd[d]
           /\ \A e \in Cases : Before(c, d) /\ Before(d, e) => Before(c, e)
<1>1. Cases \subseteq Nat /\ \A e \in Cases : upd[e] \in Nat
  BY MirrorAssumption DEF TypeOK
<1> QED BY <1>1 DEF Before

LEMMA HitsTyped ==
    ASSUME TypeOK, NEW since
    PROVE  /\ Page(since) \subseteq Hits(since) /\ Hits(since) \subseteq Rows
           /\ Rows \subseteq Cases /\ IsFiniteSet(Hits(since)) /\ IsFiniteSet(Page(since))
           /\ \A c \in Rows : upd[c] \in Nat /\ ver[c] \in Nat \ {0}
<1>1. Page(since) \subseteq Hits(since) /\ Hits(since) \subseteq Rows /\ Rows \subseteq Cases
  BY DEF Page, Hits, Rows
<1>2. IsFiniteSet(Hits(since)) /\ IsFiniteSet(Page(since))
  BY <1>1, FS_Subset, MirrorAssumption
<1> QED BY <1>1, <1>2 DEF TypeOK, Rows

\* How many hits come before a row.
Ahead(since, c) == {d \in Hits(since) : Before(d, c)}

LEMMA AheadCounts ==
    ASSUME TypeOK, NEW since, NEW S, IsFiniteSet(S), NEW c, Ahead(since, c) \subseteq S
    PROVE  Cardinality(Ahead(since, c)) \in Nat /\ Cardinality(S) \in Nat
           /\ Cardinality(Ahead(since, c)) <= Cardinality(S)
<1>1. IsFiniteSet(Ahead(since, c))
  BY FS_Subset
<1> QED BY <1>1, FS_Subset, FS_CardinalityType

\* A row the page left behind is not before one in it.
LEMMA PageIsPrefix ==
    ASSUME TypeOK, NEW since, NEW c \in Hits(since) \ Page(since), NEW d \in Page(since)
    PROVE  upd[d] <= upd[c]
<1>1. c \in Cases /\ d \in Cases /\ c # d /\ d \in Hits(since)
  BY HitsTyped
<1>2. CASE Before(d, c)
  BY <1>1, <1>2, BeforeIsOrder
<1>3. CASE Before(c, d)
  <2>1. Ahead(since, c) \subseteq Ahead(since, d)
    <3> SUFFICES ASSUME NEW e \in Hits(since), Before(e, c) PROVE Before(e, d)
      BY DEF Ahead
    <3>1. e \in Cases
      BY HitsTyped
    <3> QED BY <1>1, <1>3, <3>1, BeforeIsOrder
  <2>2. IsFiniteSet(Ahead(since, d))
    BY HitsTyped, FS_Subset DEF Ahead
  <2>3. Cardinality(Ahead(since, c)) \in Nat /\ Cardinality(Ahead(since, d)) \in Nat
        /\ Cardinality(Ahead(since, c)) <= Cardinality(Ahead(since, d))
    BY <2>1, <2>2, AheadCounts
  <2>4. Cardinality(Ahead(since, d)) < Limit /\ ~(Cardinality(Ahead(since, c)) < Limit)
    BY DEF Page, Ahead
  <2> QED BY <2>3, <2>4, MirrorAssumption
<1> QED BY <1>1, <1>2, <1>3, BeforeIsOrder

\* next_cursor is the last stamp of the page.
LEMMA NextPosIsLast ==
    ASSUME TypeOK, NEW since \in Marks
    PROVE  /\ NextPos(since) \in Marks
           /\ Page(since) = {} => NextPos(since) = since
           /\ \A c \in Page(since) : upd[c] <= NextPos(since)
           /\ Page(since) # {} => \E c \in Page(since) : NextPos(since) = upd[c]
<1>1. CASE Page(since) = {}
  BY <1>1 DEF NextPos
<1>2. CASE Page(since) # {}
  <2> DEFINE P == Page(since)
             later == {p \in P \X P : upd[p[1]] > upd[p[2]]}
  <2>1. \A c \in P : upd[c] \in Nat
    BY HitsTyped
  <2>2. IsFiniteSet(P)
    BY HitsTyped
  <2> HIDE DEF P
  <2>3. PICK m \in P : \A c \in P : <<c, m>> \notin later
    <3>1. \A x \in P : <<x, x>> \notin later
      BY <2>1
    <3>2. \A x, y, z \in P : <<x, y>> \in later /\ <<y, z>> \in later => <<x, z>> \in later
      BY <2>1
    <3> HIDE DEF later
    <3>3. P # {}
      BY <1>2 DEF P
    <3> QED BY <2>2, <3>1, <3>2, <3>3, Minimal, SMTT(30)
  <2>4. ASSUME NEW c \in P PROVE upd[c] <= upd[m]
    <3>1. ~(upd[c] > upd[m])
      BY <2>3
    <3> QED BY <2>1, <3>1
  <2> DEFINE stamps == {upd[c] : c \in P}
  <2>5. \E t \in stamps : \A c \in P : upd[c] <= t
    BY <2>4
  <2>6. NextPos(since) = CHOOSE t \in stamps : \A c \in P : upd[c] <= t
    BY <1>2 DEF NextPos, P
  <2>7. NextPos(since) \in stamps /\ \A c \in P : upd[c] <= NextPos(since)
    <3> HIDE DEF stamps
    <3> QED BY <2>5, <2>6
  <2> QED BY <1>2, <2>1, <2>7 DEF P, Marks
<1> QED BY <1>1, <1>2

\* A hit that is in neither the page nor its cut is still ahead.
LEMMA PageLeavesAhead ==
    ASSUME TypeOK, NEW since \in Marks, NEW c \in Hits(since) \ Page(since), c \notin Cut(since)
    PROVE  ~Beyond(NextPos(since), upd[c])
<1>1. upd[c] \in Nat /\ c \in Rows
  BY HitsTyped
<1>2. CASE Page(since) = {}
  BY <1>1, <1>2, NextPosIsLast, MirrorAssumption DEF Hits, Beyond, Marks
<1>3. CASE Page(since) # {}
  <2>1. PICK d \in Page(since) : NextPos(since) = upd[d]
    BY <1>3, NextPosIsLast
  <2>2. upd[d] <= upd[c] /\ upd[d] \in Nat /\ upd[c] # upd[d]
    <3>1. upd[d] \in Nat
      BY HitsTyped
    <3> QED BY <2>1, <3>1, PageIsPrefix DEF Cut
  <2> QED BY <1>1, <2>1, <2>2 DEF Beyond
<1> QED BY <1>2, <1>3

\* A page that is not full is the last.
LEMMA LastPage ==
    ASSUME TypeOK, NEW since, ~Truncated(since)
    PROVE  Hits(since) \subseteq Page(since)
<1> DEFINE rest == Hits(since) \ Page(since)
           less == {p \in rest \X rest : Before(p[1], p[2])}
<1>1. rest \subseteq Cases /\ IsFiniteSet(rest)
  <2>1. rest \subseteq Hits(since)
    OBVIOUS
  <2> QED BY <2>1, HitsTyped, FS_Subset
<1>2. SUFFICES ASSUME rest # {} PROVE FALSE
  OBVIOUS
<1>3. PICK c \in rest : \A d \in rest : <<d, c>> \notin less
  <2>1. \A x \in rest : <<x, x>> \notin less
    BY <1>1, BeforeIsOrder
  <2>2. ASSUME NEW x \in rest, NEW y \in rest, NEW z \in rest, <<x, y>> \in less, <<y, z>> \in less
        PROVE  <<x, z>> \in less
    <3>1. x \in Cases /\ y \in Cases /\ z \in Cases
      BY <1>1
    <3>2. Before(x, y) /\ Before(y, z)
      BY <2>2
    <3>3. Before(x, z)
      BY <3>1, <3>2, BeforeIsOrder
    <3> QED BY <3>3
  <2> HIDE DEF less, rest
  <2> QED BY <1>1, <1>2, <2>1, <2>2, Minimal, SMTT(30)
<1>4. Ahead(since, c) \subseteq Page(since)
  <2>1. \A d \in rest : ~Before(d, c)
    BY <1>3
  <2> QED BY <2>1 DEF Ahead
<1>5. Cardinality(Ahead(since, c)) \in Nat /\ Cardinality(Page(since)) \in Nat
      /\ Cardinality(Ahead(since, c)) <= Cardinality(Page(since))
  BY <1>4, HitsTyped, AheadCounts
<1>6. ~(Cardinality(Ahead(since, c)) < Limit)
  BY DEF Page, Ahead
<1> QED BY <1>5, <1>6, MirrorAssumption DEF Truncated

-----------------------------------------------------------------------------
(* Types. *)

LEMMA MirrorInitial == Init => SyncInv /\ ReconInv
<1> SUFFICES ASSUME Init PROVE SyncInv /\ ReconInv
  OBVIOUS
<1>1. Nothing \in [DOMAIN Nothing -> Nat \ {0}] /\ DOMAIN Nothing \subseteq Cases
  BY DEF Nothing
<1>2. \A r \in Runs : items[r] = Nothing
  BY DEF Init
<1>3. TypeOK
  BY <1>1, <1>2, MirrorAssumption DEF Init, TypeOK, Marks, Rows
<1> QED BY <1>3 DEF Init, SyncInv, MissedIsAhead, ReconInv, Rows

\* What the sync runs hold.
HoldsTyped(held) ==
    /\ DOMAIN held = Runs
    /\ \A r \in Runs : DOMAIN held[r] \subseteq Cases
                       /\ held[r] \in [DOMAIN held[r] -> Nat \ {0}]

LEMMA HoldsSet ==
    ASSUME HoldsTyped(items), NEW r \in Runs, NEW f, items' = [items EXCEPT ![r] = f],
           DOMAIN f \subseteq Cases, f \in [DOMAIN f -> Nat \ {0}]
    PROVE  HoldsTyped(items') /\ items'[r] = f /\ \A q \in Runs \ {r} : items'[q] = items[q]
<1>1. DOMAIN items' = Runs /\ items'[r] = f /\ \A q \in Runs \ {r} : items'[q] = items[q]
  BY DEF HoldsTyped
<1> QED BY <1>1 DEF HoldsTyped

\* A transaction begins, or time passes.
LEMMA BeginKeeps ==
    ASSUME SyncInv, ReconInv, Tick \/ (\E c \in Cases : Begin(c))
    PROVE  SyncInv' /\ ReconInv'
<1>1. /\ UNCHANGED <<ver, upd, purged, tenant, cursor, lapsed, pc, pos, items,
                      rpc, rpos, keep, doomed, stayed>>
      /\ now' \in Nat
  BY DEF Tick, Begin, pgVars, syncVars, reconVars, SyncInv, TypeOK
<1>2. \A t \in open' : t.case \in Cases /\ t.start \in Nat
  <2>1. CASE Tick
    BY <2>1 DEF Tick, pgVars, SyncInv, TypeOK
  <2>2. ASSUME NEW c \in Cases, Begin(c) PROVE \A t \in open' : t.case \in Cases /\ t.start \in Nat
    <3>1. open' = open \cup {[case |-> c, start |-> now]} /\ now \in Nat
      BY <2>2 DEF Begin, SyncInv, TypeOK
    <3> QED BY <3>1 DEF SyncInv, TypeOK
  <2> QED BY <2>1, <2>2
<1>3. TypeOK'
  BY <1>1, <1>2 DEF SyncInv, TypeOK, Rows
<1> QED BY <1>1, <1>3 DEF SyncInv, ReconInv, MissedIsAhead, Rows, Beyond

-----------------------------------------------------------------------------
(* app.cases. *)

\* The sync has passed a stamp: the cursor is at it, or the position of a run.
LEMMA PassedIs ==
    ASSUME NEW stamp
    PROVE  Passed(stamp) <=> Beyond(cursor, stamp) \/ \E r \in Runs : Beyond(pos[r], stamp)
BY DEF Passed, Beyond

LEMMA CommitKeeps ==
    ASSUME SyncInv, ReconInv, NEW t \in open, Commit(t)
    PROVE  SyncInv' /\ ReconInv'
<1> DEFINE c == t.case
<1>1. /\ open' = open \ {t} /\ c \in Cases /\ t.start \in Nat
      /\ UNCHANGED <<now, purged, tenant, cursor, pc, pos, items, rpc, rpos, keep, doomed>>
  BY DEF Commit, syncVars, SyncInv, TypeOK
<1>2. CASE UNCHANGED <<ver, upd, lapsed, stayed>>
  BY <1>1, <1>2 DEF SyncInv, TypeOK, MissedIsAhead, ReconInv, Rows, Beyond
<1>3. CASE Install(c, t.start)
  <2>1. /\ ver' = [ver EXCEPT ![c] = @ + 1] /\ upd' = [upd EXCEPT ![c] = t.start]
        /\ lapsed' = IF Passed(t.start) THEN lapsed \cup {c} ELSE lapsed \ {c}
        /\ stayed' = IF rpos # NULL /\ t.start <= rpos THEN stayed \ {c} ELSE stayed
    BY <1>3 DEF Install
  <2>2. /\ ver' \in [Cases -> Nat] /\ upd' \in [Cases -> Nat]
        /\ ver'[c] = ver[c] + 1 /\ upd'[c] = t.start /\ ver[c] \in Nat
        /\ \A d \in Cases \ {c} : ver'[d] = ver[d] /\ upd'[d] = upd[d]
    BY <1>1, <2>1 DEF SyncInv, TypeOK
  <2>3. Rows' = Rows \cup {c}
    BY <1>1, <2>2 DEF Rows
  <2> HIDE DEF c
  <2>4. TypeOK'
    BY <1>1, <2>1, <2>2, <2>3 DEF SyncInv, TypeOK
  <2>5. MissedIsAhead'
    <3> SUFFICES ASSUME NEW d \in Rows' \ lapsed'
                 PROVE  \/ tenant'[d] = ver'[d]
                        \/ /\ ~Beyond(cursor', upd'[d])
                           /\ \A r \in Runs : Beyond(pos'[r], upd'[d]) =>
                                  d \in DOMAIN items'[r] /\ items'[r][d] = ver'[d]
      BY DEF MissedIsAhead
    <3>1. CASE d = c
      <4>1. ~Passed(t.start)
        BY <2>1, <3>1
      <4> QED BY <1>1, <2>2, <3>1, <4>1, PassedIs
    <3>2. CASE d # c
      <4>1. d \in Rows \ lapsed /\ d \in Cases
        BY <2>1, <2>3, <3>2 DEF Rows
      <4> QED BY <1>1, <2>2, <3>2, <4>1 DEF SyncInv, MissedIsAhead
    <3> QED BY <3>1, <3>2
  <2>6. ReconInv'
    <3>1. stayed' \subseteq stayed /\ stayed \subseteq Rows /\ Rows \subseteq Cases
      BY <2>1 DEF ReconInv, Rows
    <3>2. rpc = "drain" => \A d \in stayed' : d \in keep \/ ~Beyond(rpos, upd'[d])
      <4> SUFFICES ASSUME rpc = "drain", NEW d \in stayed' PROVE d \in keep \/ ~Beyond(rpos, upd'[d])
        OBVIOUS
      <4>1. CASE d = c
        BY <2>1, <2>2, <4>1 DEF Beyond
      <4>2. CASE d # c
        BY <2>2, <3>1, <4>2 DEF ReconInv
      <4> QED BY <4>1, <4>2
    <3> QED BY <1>1, <2>3, <3>1, <3>2 DEF ReconInv
  <2> QED BY <2>4, <2>5, <2>6 DEF SyncInv
<1> QED BY <1>2, <1>3 DEF Commit

LEMMA PurgeKeeps ==
    ASSUME SyncInv, ReconInv, NEW c \in Cases, Purge(c)
    PROVE  SyncInv' /\ ReconInv'
<1>1. /\ ver' = [ver EXCEPT ![c] = 0] /\ upd' = [upd EXCEPT ![c] = 0]
      /\ purged' = purged \cup {c} /\ stayed' = stayed \ {c} /\ lapsed' = lapsed \ {c}
      /\ UNCHANGED <<now, open, tenant, cursor, pc, pos, items, rpc, rpos, keep, doomed>>
  BY DEF Purge, syncVars
<1>2. /\ ver' \in [Cases -> Nat] /\ upd' \in [Cases -> Nat] /\ ver'[c] = 0
      /\ \A d \in Cases \ {c} : ver'[d] = ver[d] /\ upd'[d] = upd[d]
  BY <1>1 DEF SyncInv, TypeOK
<1>3. Rows' = Rows \ {c} /\ Rows \subseteq Cases
  BY <1>2 DEF Rows
<1>4. TypeOK'
  BY <1>1, <1>2, <1>3 DEF SyncInv, TypeOK
<1>5. MissedIsAhead'
  <2> SUFFICES ASSUME NEW d \in Rows' \ lapsed'
               PROVE  \/ tenant'[d] = ver'[d]
                      \/ /\ ~Beyond(cursor', upd'[d])
                         /\ \A r \in Runs : Beyond(pos'[r], upd'[d]) =>
                                d \in DOMAIN items'[r] /\ items'[r][d] = ver'[d]
    BY DEF MissedIsAhead
  <2>1. d \in Rows \ lapsed /\ d \in Cases \ {c}
    BY <1>1, <1>3
  <2> QED BY <1>1, <1>2, <2>1 DEF SyncInv, MissedIsAhead
<1>6. ReconInv'
  <2>1. \A d \in stayed' : d \in stayed /\ upd'[d] = upd[d]
    BY <1>1, <1>2, <1>3 DEF ReconInv
  <2> QED BY <1>1, <1>3, <2>1 DEF ReconInv
<1> QED BY <1>4, <1>5, <1>6 DEF SyncInv

-----------------------------------------------------------------------------
(* A sync run. *)

\* No step of a sync run touches what the reconcile run depends on.
LEMMA ReconFrame ==
    ASSUME ReconInv, UNCHANGED <<ver, upd, reconVars>>
    PROVE  ReconInv'
BY DEF ReconInv, reconVars, Rows, Beyond

LEMMA ReadCursorKeeps ==
    ASSUME SyncInv, ReconInv, NEW r \in Runs, ReadCursor(r)
    PROVE  SyncInv' /\ ReconInv'
<1>1. /\ pc' = [pc EXCEPT ![r] = "drain"] /\ pos' = [pos EXCEPT ![r] = cursor]
      /\ UNCHANGED <<now, ver, upd, purged, open, tenant, cursor, items, reconVars, lapsed>>
  BY DEF ReadCursor, pgVars
<1>2. pos' \in [Runs -> Marks] /\ pos'[r] = cursor /\ \A q \in Runs \ {r} : pos'[q] = pos[q]
  BY <1>1 DEF SyncInv, TypeOK
<1>3. TypeOK'
  BY <1>1, <1>2 DEF SyncInv, TypeOK, Rows, reconVars
<1>4. MissedIsAhead'
  <2>1. \A c \in Rows : \A q \in Runs :
          Beyond(pos'[q], upd[c]) => Beyond(pos[q], upd[c]) \/ Beyond(cursor, upd[c])
    BY <1>2
  <2> QED BY <1>1, <2>1 DEF SyncInv, MissedIsAhead, Rows, Beyond
<1> QED BY <1>1, <1>3, <1>4, ReconFrame DEF SyncInv

LEMMA FetchPageKeeps ==
    ASSUME SyncInv, ReconInv, NEW r \in Runs, FetchPage(r)
    PROVE  SyncInv' /\ ReconInv'
<1> DEFINE since == pos[r]
           held == [c \in DOMAIN items[r] \cup Page(since) |->
                        IF c \in Page(since) THEN ver[c] ELSE items[r][c]]
<1>1. /\ items' = [items EXCEPT ![r] = held]
      /\ pos' = [pos EXCEPT ![r] = NextPos(since)]
      /\ pc' \in {[pc EXCEPT ![r] = "drain"], [pc EXCEPT ![r] = "upsert"]}
      /\ lapsed' = lapsed \cup Cut(since)
      /\ UNCHANGED <<now, ver, upd, purged, open, tenant, cursor, reconVars>>
  <2>1. /\ items' = [items EXCEPT ![r] = held] /\ pos' = [pos EXCEPT ![r] = NextPos(since)]
        /\ pc' = [pc EXCEPT ![r] = IF Truncated(since) THEN "drain" ELSE "upsert"]
        /\ lapsed' = lapsed \cup Cut(since)
        /\ UNCHANGED <<now, ver, upd, purged, open, tenant, cursor, reconVars>>
    BY DEF FetchPage, pgVars
  <2> HIDE DEF since, held
  <2> QED BY <2>1
<1>2. TypeOK /\ since \in Marks /\ HoldsTyped(items)
  BY DEF SyncInv, TypeOK, HoldsTyped
<1>3. Page(since) \subseteq Hits(since) /\ Hits(since) \subseteq Rows /\ Rows \subseteq Cases
  BY <1>2, HitsTyped
<1>4. HoldsTyped(items') /\ items'[r] = held /\ \A q \in Runs \ {r} : items'[q] = items[q]
  <2>1. DOMAIN held \subseteq Cases /\ held \in [DOMAIN held -> Nat \ {0}]
    <3>1. \A c \in Page(since) : ver[c] \in Nat \ {0}
      BY <1>2, <1>3, HitsTyped
    <3> QED BY <1>2, <1>3, <3>1 DEF HoldsTyped
  <2> HIDE DEF held, since
  <2> QED BY <1>1, <1>2, <2>1, HoldsSet
<1>5. /\ pos' \in [Runs -> Marks] /\ pos'[r] = NextPos(since)
      /\ \A q \in Runs \ {r} : pos'[q] = pos[q]
  BY <1>1, <1>2, NextPosIsLast DEF TypeOK
<1>6. lapsed' \subseteq Rows
  BY <1>1, <1>2, <1>3 DEF TypeOK, Cut
<1>7. TypeOK'
  BY <1>1, <1>2, <1>4, <1>5, <1>6 DEF TypeOK, HoldsTyped, Rows, reconVars
<1>8. MissedIsAhead'
  <2> SUFFICES ASSUME NEW c \in Rows \ lapsed', tenant[c] # ver[c]
               PROVE  /\ ~Beyond(cursor, upd[c])
                      /\ \A q \in Runs : Beyond(pos'[q], upd[c]) =>
                             c \in DOMAIN items'[q] /\ items'[q][c] = ver[c]
    BY <1>1 DEF MissedIsAhead, Rows
  <2>1. /\ ~Beyond(cursor, upd[c])
        /\ \A q \in Runs : Beyond(pos[q], upd[c]) => c \in DOMAIN items[q] /\ items[q][c] = ver[c]
    BY <1>1 DEF SyncInv, MissedIsAhead
  <2>2. ASSUME Beyond(pos'[r], upd[c])
        PROVE  c \in DOMAIN items'[r] /\ items'[r][c] = ver[c]
    <3>1. CASE c \in Page(since)
      BY <1>4, <3>1
    <3>2. CASE c \in Hits(since) \ Page(since)
      BY <1>1, <1>2, <1>5, <2>2, <3>2, PageLeavesAhead
    <3>3. CASE c \notin Hits(since)
      <4>1. Beyond(since, upd[c])
        BY <1>2, <3>3, MirrorAssumption DEF Hits, Beyond, TypeOK, Marks, Rows
      <4> QED BY <1>3, <1>4, <2>1, <3>3, <4>1
    <3> QED BY <3>1, <3>2, <3>3
  <2>3. \A q \in Runs \ {r} : pos'[q] = pos[q] /\ items'[q] = items[q]
    BY <1>4, <1>5
  <2> QED BY <2>1, <2>2, <2>3
<1> QED BY <1>1, <1>7, <1>8, ReconFrame DEF SyncInv

LEMMA UpsertKeeps ==
    ASSUME SyncInv, ReconInv, NEW r \in Runs, Upsert(r)
    PROVE  SyncInv' /\ ReconInv'
<1>1. PICK c \in DOMAIN items[r] :
        /\ tenant' = [tenant EXCEPT ![c] = items[r][c]]
        /\ items' = [items EXCEPT ![r] = [d \in DOMAIN items[r] \ {c} |-> items[r][d]]]
        /\ lapsed' = Brought(c, items[r][c])
  BY DEF Upsert
<1> DEFINE left == [d \in DOMAIN items[r] \ {c} |-> items[r][d]]
           copy == items[r][c]
<1>2. UNCHANGED <<now, ver, upd, purged, open, cursor, pc, pos, reconVars>>
  BY DEF Upsert, pgVars
<1>3. TypeOK /\ HoldsTyped(items) /\ c \in Cases /\ copy \in Nat \ {0}
  BY DEF SyncInv, TypeOK, HoldsTyped
<1>4. HoldsTyped(items') /\ items'[r] = left /\ \A q \in Runs \ {r} : items'[q] = items[q]
  <2>1. DOMAIN left \subseteq Cases /\ left \in [DOMAIN left -> Nat \ {0}]
    BY <1>3 DEF HoldsTyped
  <2>2. items' = [items EXCEPT ![r] = left]
    BY <1>1
  <2> HIDE DEF left
  <2> QED BY <1>3, <2>1, <2>2, HoldsSet
<1> HIDE DEF copy
<1>5. /\ tenant' \in [Cases -> Nat] /\ tenant'[c] = copy
      /\ \A d \in Cases \ {c} : tenant'[d] = tenant[d]
  BY <1>1, <1>3 DEF TypeOK, copy
<1>6. /\ copy = ver[c] => lapsed' = lapsed \ {c}
      /\ copy # ver[c] /\ c \in Rows /\ Passed(upd[c]) => lapsed' = lapsed \cup {c}
      /\ copy # ver[c] /\ ~(c \in Rows /\ Passed(upd[c])) => lapsed' = lapsed
  BY <1>1 DEF Brought, copy
<1>7. TypeOK'
  <2>1. lapsed' \subseteq Rows
    BY <1>3, <1>6 DEF TypeOK
  <2> QED BY <1>2, <1>3, <1>4, <1>5, <2>1 DEF TypeOK, HoldsTyped, Rows, reconVars
<1>8. MissedIsAhead'
  <2> SUFFICES ASSUME NEW d \in Rows \ lapsed', tenant'[d] # ver[d]
               PROVE  /\ ~Beyond(cursor, upd[d])
                      /\ \A q \in Runs : Beyond(pos[q], upd[d]) =>
                             d \in DOMAIN items'[q] /\ items'[q][d] = ver[d]
    BY <1>2 DEF MissedIsAhead, Rows
  <2>1. CASE d = c
    <3>1. copy # ver[c] /\ ~Passed(upd[c])
      BY <1>5, <1>6, <2>1
    <3> QED BY <2>1, <3>1, PassedIs
  <2>2. CASE d # c
    <3>1. d \in Rows \ lapsed /\ d \in Cases
      BY <1>6, <2>2 DEF Rows
    <3>2. tenant[d] # ver[d]
      BY <1>5, <2>2, <3>1
    <3>3. \A q \in Runs : d \in DOMAIN items[q] => d \in DOMAIN items'[q] /\ items'[q][d] = items[q][d]
      BY <1>4, <2>2
    <3> QED BY <3>1, <3>2, <3>3 DEF SyncInv, MissedIsAhead
  <2> QED BY <2>1, <2>2
<1> QED BY <1>2, <1>7, <1>8, ReconFrame DEF SyncInv

\* A run ends: with its position for the cursor, with no cursor, or without one
\* of its own.
LEMMA MaterializeKeeps ==
    ASSUME SyncInv, ReconInv, NEW r \in Runs, NEW mark, Materialize(r, mark),
           mark \in {NULL, cursor} \/ (mark = pos[r] /\ items[r] = Nothing)
    PROVE  SyncInv' /\ ReconInv'
<1>1. /\ cursor' = mark /\ pc' = [pc EXCEPT ![r] = "idle"] /\ pos' = [pos EXCEPT ![r] = NULL]
      /\ items' = [items EXCEPT ![r] = Nothing]
      /\ lapsed' = {c \in lapsed : Passed(upd[c])'}
      /\ UNCHANGED <<now, ver, upd, purged, open, tenant, reconVars>>
  BY DEF Materialize, pgVars
<1>2. TypeOK /\ HoldsTyped(items) /\ mark \in Marks
  BY DEF SyncInv, TypeOK, HoldsTyped, Marks
<1>3. DOMAIN Nothing = {} /\ Nothing \in [DOMAIN Nothing -> Nat \ {0}]
  BY DEF Nothing
<1>4. HoldsTyped(items') /\ items'[r] = Nothing /\ \A q \in Runs \ {r} : items'[q] = items[q]
  BY <1>1, <1>2, <1>3, HoldsSet
<1>5. pos' \in [Runs -> Marks] /\ pos'[r] = NULL /\ \A q \in Runs \ {r} : pos'[q] = pos[q]
  BY <1>1, <1>2 DEF TypeOK, Marks
<1>6. TypeOK'
  BY <1>1, <1>2, <1>4, <1>5 DEF TypeOK, HoldsTyped, Rows, reconVars
<1>7. MissedIsAhead'
  <2> SUFFICES ASSUME NEW c \in Rows \ lapsed', tenant[c] # ver[c]
               PROVE  /\ ~Beyond(mark, upd[c])
                      /\ \A q \in Runs : Beyond(pos'[q], upd[c]) =>
                             c \in DOMAIN items'[q] /\ items'[q][c] = ver[c]
    BY <1>1 DEF MissedIsAhead, Rows
  <2>1. CASE c \in lapsed
    <3>1. ~Passed(upd[c])'
      BY <1>1, <2>1
    <3>2. ~Beyond(cursor', upd[c]) /\ \A q \in Runs : ~Beyond(pos'[q], upd[c])
      BY <1>1, <3>1 DEF Passed, Beyond
    <3> QED BY <1>1, <3>2
  <2>2. CASE c \notin lapsed
    <3>1. /\ ~Beyond(cursor, upd[c])
          /\ \A q \in Runs : Beyond(pos[q], upd[c]) => c \in DOMAIN items[q] /\ items[q][c] = ver[c]
      BY <2>2 DEF SyncInv, MissedIsAhead
    <3>2. ~Beyond(mark, upd[c])
      BY <1>3, <3>1 DEF Beyond
    <3> QED BY <1>4, <1>5, <3>1, <3>2 DEF Beyond
  <2> QED BY <2>1, <2>2
<1> QED BY <1>1, <1>6, <1>7, ReconFrame DEF SyncInv

-----------------------------------------------------------------------------
(* The reconcile run. *)

\* Its steps, but for an eviction, leave alone all that a sync depends on.
LEMMA SyncFrame ==
    ASSUME SyncInv, UNCHANGED <<now, pgVars, tenant, cursor, lapsed, syncVars>>,
           rpc' \in {"idle", "drain", "list", "delete"}, rpos' \in Marks,
           keep' \in SUBSET Cases, doomed' \in SUBSET Cases, stayed' \in SUBSET Cases
    PROVE  SyncInv'
<1>1. UNCHANGED <<now, ver, upd, purged, open, tenant, cursor, lapsed, pc, pos, items>>
  BY DEF pgVars, syncVars
<1>2. TypeOK'
  BY <1>1 DEF SyncInv, TypeOK, Rows
<1> QED BY <1>1, <1>2 DEF SyncInv, MissedIsAhead, Rows, Beyond

LEMMA KeepPageKeeps ==
    ASSUME SyncInv, ReconInv, KeepPage
    PROVE  SyncInv' /\ ReconInv'
<1>1. /\ rpc = "drain" /\ keep' = keep \cup Page(rpos) /\ rpos' = NextPos(rpos)
      /\ rpc' = IF Truncated(rpos) THEN "drain" ELSE "list"
      /\ stayed' = stayed \ Cut(rpos)
      /\ UNCHANGED <<now, pgVars, tenant, cursor, lapsed, syncVars, ver, upd, doomed>>
  BY DEF KeepPage, pgVars
<1>2. TypeOK /\ rpos \in Marks /\ rpos' \in Marks
  BY <1>1, NextPosIsLast DEF SyncInv, TypeOK
<1>3. Page(rpos) \subseteq Hits(rpos) /\ Hits(rpos) \subseteq Rows /\ Rows \subseteq Cases
  BY <1>2, HitsTyped
<1>4. SyncInv'
  BY <1>1, <1>2, <1>3, SyncFrame DEF TypeOK
<1>5. ASSUME NEW c \in stayed', c \notin keep'
      PROVE  c \in Hits(rpos) \ Page(rpos) /\ c \notin Cut(rpos)
  <2>1. c \in stayed /\ c \in Rows /\ c \notin keep /\ c \notin Page(rpos) /\ c \notin Cut(rpos)
    BY <1>1, <1>5 DEF ReconInv
  <2>2. ~Beyond(rpos, upd[c]) /\ upd[c] \in Nat
    BY <1>1, <1>2, <2>1, HitsTyped DEF ReconInv
  <2> QED BY <1>2, <2>1, <2>2 DEF Beyond, Hits, Marks
<1>6. \A c \in stayed' : c \in keep' \/ ~Beyond(rpos', upd'[c])
  BY <1>1, <1>2, <1>5, PageLeavesAhead
<1>7. stayed' \subseteq Rows'
  BY <1>1 DEF ReconInv, Rows
<1>8. CASE Truncated(rpos)
  <2>1. rpc' = "drain"
    BY <1>1, <1>8
  <2> QED BY <1>4, <1>6, <1>7, <2>1 DEF ReconInv
<1>9. CASE ~Truncated(rpos)
  <2>1. stayed' \subseteq keep'
    BY <1>2, <1>5, <1>9, LastPage
  <2>2. rpc' = "list"
    BY <1>1, <1>9
  <2> QED BY <1>4, <1>7, <2>1, <2>2 DEF ReconInv
<1> QED BY <1>8, <1>9

LEMMA EvictKeeps ==
    ASSUME SyncInv, ReconInv, Evict
    PROVE  SyncInv' /\ ReconInv'
<1>1. PICK c \in doomed :
        /\ tenant' = [tenant EXCEPT ![c] = 0]
        /\ doomed' = doomed \ {c}
        /\ lapsed' = IF c \in Rows /\ Passed(upd[c]) THEN lapsed \cup {c} ELSE lapsed
  BY DEF Evict
<1>2. UNCHANGED <<now, ver, upd, purged, open, cursor, pc, pos, items, rpc, rpos, keep, stayed>>
  BY DEF Evict, pgVars, syncVars
<1>3. TypeOK /\ c \in Cases
  BY DEF SyncInv, TypeOK
<1>4. /\ tenant' \in [Cases -> Nat] /\ tenant'[c] = 0
      /\ \A d \in Cases \ {c} : tenant'[d] = tenant[d]
  BY <1>1, <1>3 DEF TypeOK
<1>5. TypeOK'
  BY <1>1, <1>2, <1>3, <1>4 DEF TypeOK, Rows
<1>6. MissedIsAhead'
  <2> SUFFICES ASSUME NEW d \in Rows \ lapsed', tenant'[d] # ver[d]
               PROVE  /\ ~Beyond(cursor, upd[d])
                      /\ \A q \in Runs : Beyond(pos[q], upd[d]) =>
                             d \in DOMAIN items[q] /\ items[q][d] = ver[d]
    BY <1>2 DEF MissedIsAhead, Rows
  <2>1. CASE d = c
    <3>1. ~Passed(upd[c])
      BY <1>1, <2>1
    <3> QED BY <2>1, <3>1, PassedIs
  <2>2. CASE d # c
    BY <1>1, <1>4, <2>2 DEF SyncInv, MissedIsAhead, Rows
  <2> QED BY <2>1, <2>2
<1>7. ReconInv'
  BY <1>1, <1>2 DEF ReconInv, Rows, Beyond
<1> QED BY <1>5, <1>6, <1>7 DEF SyncInv

LEMMA ReconcileKeeps ==
    ASSUME SyncInv, ReconInv, ReconcileStep \/ FailReconcile
    PROVE  SyncInv' /\ ReconInv'
<1>1. CASE BeginReconcile
  <2>1. /\ rpc = "idle" /\ rpc' = "drain" /\ stayed' = Rows
        /\ UNCHANGED <<now, pgVars, tenant, cursor, lapsed, syncVars, ver, upd, rpos, keep, doomed>>
    BY <1>1 DEF BeginReconcile, pgVars
  <2>2. SyncInv'
    BY <2>1, SyncFrame DEF SyncInv, TypeOK, Rows
  <2> QED BY <2>1, <2>2 DEF ReconInv, Rows, Beyond
<1>2. CASE KeepPage
  BY <1>2, KeepPageKeeps
<1>3. CASE EmptyKeep \/ FinishReconcile \/ FailReconcile
  <2>1. /\ rpc' = "idle" /\ rpos' = NULL /\ keep' = {} /\ doomed' = {} /\ stayed' = {}
        /\ UNCHANGED <<now, pgVars, tenant, cursor, lapsed, syncVars>>
    BY <1>3 DEF EmptyKeep, FinishReconcile, FailReconcile, EndReconcile
  <2>2. SyncInv'
    BY <2>1, SyncFrame DEF Marks
  <2> QED BY <2>1, <2>2 DEF ReconInv
<1>4. CASE ListTenant
  <2>1. /\ rpc' = "delete" /\ doomed' = Capped(Objects \ keep) /\ rpc = "list"
        /\ UNCHANGED <<now, pgVars, tenant, cursor, lapsed, syncVars, ver, upd, rpos, keep, stayed>>
    BY <1>4 DEF ListTenant, pgVars
  <2>2. doomed' \subseteq Objects \ keep /\ Objects \subseteq Cases
    BY <2>1 DEF Capped, Objects
  <2>3. SyncInv'
    BY <2>1, <2>2, SyncFrame DEF SyncInv, TypeOK
  <2> QED BY <2>1, <2>2, <2>3 DEF ReconInv, Rows
<1>5. CASE Evict
  BY <1>5, EvictKeeps
<1> QED BY <1>1, <1>2, <1>3, <1>4, <1>5 DEF ReconcileStep

-----------------------------------------------------------------------------

LEMMA MirrorStep ==
    ASSUME SyncInv, ReconInv, [Next]_vars
    PROVE  SyncInv' /\ ReconInv'
<1>1. CASE Tick
  BY <1>1, BeginKeeps
<1>2. ASSUME NEW c \in Cases, Begin(c) \/ Purge(c) PROVE SyncInv' /\ ReconInv'
  BY <1>2, BeginKeeps, PurgeKeeps
<1>3. ASSUME NEW t \in open, Commit(t) PROVE SyncInv' /\ ReconInv'
  BY <1>3, CommitKeeps
<1>4. ASSUME NEW r \in Runs, ReadCursor(r) \/ FetchPage(r) \/ Upsert(r) PROVE SyncInv' /\ ReconInv'
  BY <1>4, ReadCursorKeeps, FetchPageKeeps, UpsertKeeps
<1>5. ASSUME NEW r \in Runs, Finish(r) PROVE SyncInv' /\ ReconInv'
  BY <1>5, MaterializeKeeps DEF Finish
<1>6. ASSUME NEW r \in Runs, Skip(r) \/ Fail(r) PROVE SyncInv' /\ ReconInv'
  BY <1>6, MaterializeKeeps DEF Skip, Fail
<1>7. CASE ReconcileStep \/ FailReconcile
  BY <1>7, ReconcileKeeps
<1>8. CASE UNCHANGED vars
  <2>1. /\ UNCHANGED <<now, pgVars, tenant, cursor, lapsed, syncVars>>
        /\ UNCHANGED <<ver, upd, reconVars, rpc, rpos, keep, doomed, stayed>>
    BY <1>8 DEF vars, pgVars, reconVars
  <2>2. SyncInv'
    BY <2>1, SyncFrame DEF SyncInv, TypeOK
  <2> QED BY <2>1, <2>2, ReconFrame
<1> QED BY <1>1, <1>2, <1>3, <1>4, <1>5, <1>6, <1>7, <1>8 DEF Next, SyncStep

LEMMA MirrorInvariant == Spec => [](SyncInv /\ ReconInv)
<1>1. SyncInv /\ ReconInv /\ [Next]_vars => (SyncInv /\ ReconInv)'
  BY MirrorStep
<1> QED BY <1>1, MirrorInitial, PTL DEF Spec

\* Every variable keeps its type; in particular what lapsed are rows that exist,
\* and what a run holds are copies of rows that existed.
THEOREM TypeCorrect == Spec => []TypeOK
<1>1. SyncInv => TypeOK
  BY DEF SyncInv
<1> QED BY <1>1, MirrorInvariant, PTL

\* A row the cursor has passed is in the tenant as it is in Postgres, but for
\* those that lapsed (incremental_sync_cases, at any number of runs at once).
THEOREM Missed == Spec => []NothingMissed
<1>1. SyncInv => NothingMissed
  BY DEF SyncInv, MissedIsAhead, NothingMissed, Beyond
<1> QED BY <1>1, MirrorInvariant, PTL

\* A reconcile deletes no Case that was in Postgres all the while it ran, though
\* rows move past its reading (reconcile_cases).
THEOREM Stayed == Spec => []StayedIsKept
<1>1. ReconInv => StayedIsKept
  BY DEF ReconInv, StayedIsKept
<1> QED BY <1>1, MirrorInvariant, PTL
=============================================================================
