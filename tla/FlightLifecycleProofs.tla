----------------------- MODULE FlightLifecycleProofs -----------------------
(***************************************************************************)
(* Theorems about FlightLifecycle, for every fleet, every set of jobs and  *)
(* outages and every bound: the types; nothing unsettled is archived; a    *)
(* Flight leaves the tenant only archived or past the TTL; and a landing   *)
(* is stamped on the leg it ended, unless positions runs overtook it.      *)
(***************************************************************************)
EXTENDS FlightLifecycle, TLAPS

LEMMA TimeIsNat == Time \subseteq Nat /\ \A t \in Time : t \in Int /\ t # None
  BY FlightAssumption DEF Time

LEMMA BoundsAreNat == TTL \in Nat /\ Grace \in Nat /\ Retention \in Nat
  BY FlightAssumption

LEMMA FlightHas == \A f \in Flights : f[1] \in Aircraft /\ f[2] \in Time
  BY DEF Flights

LEMMA RowIsRow == \A f \in Flights, t \in Time : <<f, t>> # None
<1> SUFFICES ASSUME NEW f \in Aircraft \X Time, NEW t \in Time PROVE <<f, t>> # None
  BY DEF Flights
<1>1. f \in Aircraft \X Nat /\ t \in Nat
  BY TimeIsNat
<1>2. <<f, t>> \in (Aircraft \X Nat) \X Nat
  BY <1>1
<1> QED BY <1>2, FlightAssumption

-----------------------------------------------------------------------------
(* A partition that has expired stays so.                                  *)

LEMMA ProductGrows ==
  ASSUME NEW d \in Nat \ {0}, NEW x \in Int, NEW y \in Int, x >= y
  PROVE  d * x >= d * y
<1>1. x - y \in Nat
  BY SMT
<1>2. d * (x - y) >= 0
  BY <1>1, SMT
<1>3. d * (x - y) = d * x - d * y
  BY SMT
<1>4. d * x \in Int /\ d * y \in Int
  BY SMT
<1> QED BY <1>2, <1>3, <1>4, SMT

LEMMA QuotientGrows ==
  ASSUME NEW a \in Int, NEW b \in Int, NEW d \in Nat \ {0}, a <= b
  PROVE  a \div d <= b \div d
<1>1. a \div d \in Int /\ b \div d \in Int
  BY SMT
<1>2. d * (a \div d) <= a /\ b < d * (b \div d + 1)
  BY SMT
<1>3. SUFFICES ASSUME a \div d >= b \div d + 1 PROVE FALSE
  BY <1>1, SMT
<1>4. d * (a \div d) >= d * (b \div d + 1)
  BY <1>1, <1>3, ProductGrows
<1> QED BY <1>1, <1>2, <1>4, SMT

LEMMA ExpiredStays ==
  ASSUME now \in Nat, now' \in Nat, now <= now', NEW t \in Int, Expired(t)
  PROVE  Expired(t)'
<1>1. now - Retention \in Int /\ now' - Retention \in Int /\ now - Retention <= now' - Retention
  BY FlightAssumption
<1>2. (now - Retention) \div Day <= (now' - Retention) \div Day
  BY <1>1, FlightAssumption, QuotientGrows
<1>3. /\ t \div Day \in Int /\ (now - Retention) \div Day \in Int
      /\ (now' - Retention) \div Day \in Int
  BY <1>1, FlightAssumption, SMT
<1> HIDE FlightAssumption
<1> QED BY <1>2, <1>3 DEF Expired, Date

-----------------------------------------------------------------------------
(* The types.                                                              *)

LEMMA TypeInit == Init => TypeOK
<1> SUFFICES ASSUME Init PROVE TypeOK
  OBVIOUS
<1>1. NoState \in Maps /\ NoState.was \in [Aircraft -> Phases \cup {"unseen"}]
      /\ NoState.open \in [Aircraft -> Time \cup {None}]
  BY DEF NoState, Maps
<1>2. 0 \in Time /\ 0 \in 0 .. ArchiveCap
  BY FlightAssumption DEF Time
<1> QED BY <1>1, <1>2 DEF Init, TypeOK, Phases

LEMMA TypeStep ==
  ASSUME TypeOK, RowSound, Next
  PROVE  TypeOK'
<1> USE DEF TypeOK
<1>1. CASE Sky
  <2>1. now' \in Time
    BY <1>1, FlightAssumption DEF Sky, Pass, Move, Time
  <2>2. phase' \in [Aircraft -> Phases]
    BY <1>1 DEF Sky, Pass, Move, Phases
  <2> QED BY <1>1, <2>1, <2>2 DEF Sky, Pass, Move, world, objects, tickVars, recVars, arcVars
<1>2. ASSUME NEW p \in Ticks, PositionsRun(p) PROVE TypeOK'
  <2>1. CASE TickStart(p)
    BY <2>1 DEF TickStart, Maps, world, objects, recVars, arcVars
  <2>2. CASE TickFetch(p)
    <3>1. PICK H \in SUBSET Aircraft :
            /\ was' = [was EXCEPT ![p] = WasNext(H)]
            /\ open' = [open EXCEPT ![p] = OpenNext(p, H)]
            /\ off' = [off EXCEPT ![p] = {<<a, now>> : a \in Departs(p, H)}]
            /\ down' = [down EXCEPT ![p] =
                 {<<<<a, open[p][a]>>, now>> : a \in {b \in Arrives(p, H) : open[p][b] # None}}]
            /\ overtaken' = overtaken \cup Overtaken(p, H)
      BY <2>2 DEF TickFetch
    <3>2. WasNext(H) \in [Aircraft -> Phases \cup {"unseen"}]
      BY DEF WasNext
    <3>3. OpenNext(p, H) \in [Aircraft -> Time \cup {None}]
      BY DEF OpenNext
    <3>4. {<<a, now>> : a \in Departs(p, H)} \in SUBSET Flights
      BY DEF Departs, Flights
    <3>5. {<<<<a, open[p][a]>>, now>> : a \in {b \in Arrives(p, H) : open[p][b] # None}}
            \in SUBSET (Flights \X Time)
      BY DEF Arrives, Flights
    <3>6. overtaken' \subseteq Flights
      BY <3>1 DEF Overtaken
    <3> QED BY <2>2, <3>1, <3>2, <3>3, <3>4, <3>5, <3>6
        DEF TickFetch, world, objects, recVars, arcVars
  <2>3. ASSUME NEW f \in off[p], TickTakeoff(p, f) PROVE TypeOK'
    BY <2>3 DEF TickTakeoff, Upsert, Lit, world, recVars, arcVars
  <2>4. ASSUME NEW l \in down[p], TickLanding(p, l) PROVE TypeOK'
    <3>1. l[1] \in Flights /\ l[2] \in Time
      BY <2>4
    <3> QED BY <2>4, <3>1 DEF TickLanding, Upsert, Dimmed, world, recVars, arcVars
  <2>5. CASE TickSave(p) \/ TickSkip(p) \/ TickFail(p)
    <3>1. saved' \in Maps
      BY <2>5 DEF TickSave, TickSkip, TickFail, Maps, NoState
    <3>2. EndTick(p)
      BY <2>5 DEF TickSave, TickSkip, TickFail
    <3>3. NoState.was \in [Aircraft -> Phases \cup {"unseen"}]
          /\ NoState.open \in [Aircraft -> Time \cup {None}]
      BY DEF NoState
    <3> QED BY <3>1, <3>2, <3>3 DEF EndTick, world, objects, recVars, arcVars
  <2> QED BY <1>2, <2>1, <2>2, <2>3, <2>4, <2>5 DEF PositionsRun
<1>3. CASE EnrichmentRun
  BY <1>3 DEF EnrichmentRun, EnrichFetch, EnrichUpsert, EnrichSkip, Newest, Upsert,
     world, objects, tickVars, recVars, arcVars
<1>4. CASE ReconcileRun
  <2> USE DEF world, objects, tickVars, arcVars
  <2>1. CASE ReconcileFetch
    <3>1. cutoff' \in Int
      BY <2>1, FlightAssumption, TimeIsNat DEF ReconcileFetch
    <3> QED BY <2>1, <3>1 DEF ReconcileFetch
  <2>2. CASE ReconcileScan
    BY <2>2 DEF ReconcileScan, Capped, StubOrphans, TargetLive, LatestAirborne, Newest
  <2>3. ASSUME NEW f \in gone, ReconcileDelete(f) PROVE TypeOK'
    BY <2>3 DEF ReconcileDelete, Delete
  <2>4. ASSUME NEW f \in lit, ReconcileLight(f) PROVE TypeOK'
    BY <2>4 DEF ReconcileLight, Upsert, Lit
  <2>5. ASSUME NEW f \in dim, ReconcileDim(f) PROVE TypeOK'
    BY <2>5 DEF ReconcileDim, Upsert, Dimmed
  <2>6. CASE ReconcileDone \/ ReconcileSkip
    BY <2>6 DEF ReconcileDone, ReconcileSkip, EndReconcile
  <2> QED BY <1>4, <2>1, <2>2, <2>3, <2>4, <2>5, <2>6 DEF ReconcileRun
<1>5. CASE ArchiveRun
  <2> USE DEF world, objects, tickVars, recVars
  <2>1. CASE ArchiveStart
    BY <2>1 DEF ArchiveStart
  <2>2. ASSUME NEW f \in unread, ArchivePage(f) PROVE TypeOK'
    BY <2>2 DEF ArchivePage, Settled, Completed
  <2>3. CASE ArchiveStore
    <3>1. count' \in 0 .. ArchiveCap /\ row \in Flights \X Time
      BY <2>3, FlightAssumption DEF ArchiveStore, RowSound
    <3> QED BY <2>3, <3>1 DEF ArchiveStore
  <2>4. CASE ArchiveDelete
    <3>1. row[1] \in Flights
      BY <2>4 DEF ArchiveDelete, RowSound
    <3> QED BY <2>4, <3>1 DEF ArchiveDelete, Delete
  <2>5. CASE ArchiveDone \/ ArchiveFail
    <3>1. 0 \in Time /\ 0 \in 0 .. ArchiveCap
      BY FlightAssumption DEF Time
    <3> QED BY <2>5, <3>1 DEF ArchiveDone, ArchiveFail, EndArchive
  <2> QED BY <1>5, <2>1, <2>2, <2>3, <2>4, <2>5 DEF ArchiveRun
<1>6. CASE Purge
  BY <1>6 DEF Purge, world, objects, tickVars, recVars, arcVars
<1> QED BY <1>1, <1>2, <1>3, <1>4, <1>5, <1>6 DEF Next

-----------------------------------------------------------------------------
(* What every action leaves alone, by job.                                 *)

LEMMA PositionsFrame ==
  ASSUME NEW p \in Ticks, PositionsRun(p)
  PROVE  UNCHANGED <<world, cold, fetched, recVars, arcVars>>
BY DEF PositionsRun, TickStart, TickFetch, TickTakeoff, TickLanding, TickSave, TickSkip,
   TickFail, EndTick, world, objects, recVars, arcVars

LEMMA EnrichmentFrame ==
  ASSUME EnrichmentRun
  PROVE  UNCHANGED <<world, cold, saved, tickVars, recVars, arcVars>>
BY DEF EnrichmentRun, EnrichFetch, EnrichUpsert, EnrichSkip, objects

LEMMA ReconcileFrame ==
  ASSUME ReconcileRun
  PROVE  UNCHANGED <<world, cold, saved, tickVars, fetched, arcVars>>
BY DEF ReconcileRun, ReconcileFetch, ReconcileScan, ReconcileDelete, ReconcileLight,
   ReconcileDim, ReconcileDone, ReconcileSkip, EndReconcile, objects

LEMMA ArchiveFrame ==
  ASSUME ArchiveRun
  PROVE  UNCHANGED <<world, saved, tickVars, fetched, recVars>>
BY DEF ArchiveRun, ArchiveStart, ArchivePage, ArchiveStore, ArchiveDelete, ArchiveDone,
   ArchiveFail, EndArchive, objects

LEMMA SkyFrame ==
  ASSUME Sky, TypeOK
  PROVE  /\ UNCHANGED <<objects, cold, saved, tickVars, fetched, recVars, arcVars>>
         /\ now \in Nat /\ now' \in Nat /\ now' = now + 1
BY TimeIsNat DEF Sky, Pass, Move, TypeOK

-----------------------------------------------------------------------------
(* The maps of the detector.                                               *)

LEMMA MapsStep ==
  ASSUME TypeOK, TypeOK', MapsSound, Next
  PROVE  MapsSound'
<1> USE DEF MapsSound, OpenSound
<1>0. now \in Int /\ now' \in Int
      /\ \A a \in Aircraft : saved.open[a] \in Time \cup {None}
      /\ \A p \in Ticks, b \in Aircraft : open[p][b] \in Time \cup {None}
  BY TimeIsNat DEF TypeOK, Maps
<1>1. CASE Sky
  <2>1. UNCHANGED <<saved, was, open>> /\ now' = now + 1
    BY <1>1, SkyFrame DEF tickVars
  <2>2. ASSUME NEW t \in Time \cup {None}, t # None, t <= now
        PROVE  t <= now' /\ t < now'
    BY <1>0, <2>1, <2>2, TimeIsNat
  <2>3. ASSUME NEW a \in Aircraft, saved.open[a] # None
        PROVE  saved.was[a] = "air" /\ saved.open[a] <= now' /\ saved.open[a] < now'
    BY <1>0, <2>2, <2>3
  <2>4. ASSUME NEW p \in Ticks, NEW a \in Aircraft, open[p][a] # None
        PROVE  was[p][a] = "air" /\ open[p][a] <= now' /\ open[p][a] < now'
    BY <1>0, <2>2, <2>4
  <2> QED BY <2>1, <2>3, <2>4
<1>2. ASSUME NEW p \in Ticks, PositionsRun(p) PROVE MapsSound'
  <2>0. UNCHANGED <<now, phase>>
    BY <1>2, PositionsFrame DEF world
  <2>1. CASE TickStart(p)
    BY <2>0, <2>1 DEF TickStart, TypeOK
  <2>2. CASE TickFetch(p)
    <3>1. PICK H \in SUBSET Aircraft :
            /\ was' = [was EXCEPT ![p] = WasNext(H)]
            /\ open' = [open EXCEPT ![p] = OpenNext(p, H)]
      BY <2>2 DEF TickFetch
    <3>2. UNCHANGED saved
      BY <2>2 DEF TickFetch
    <3>3. ASSUME NEW a \in Aircraft, OpenNext(p, H)[a] # None
          PROVE  /\ WasNext(H)[a] = "air" /\ phase[a] = "air"
                 /\ OpenNext(p, H)[a] <= now
      <4>1. OpenNext(p, H)[a] = IF a \in Departs(p, H) THEN now
                                ELSE IF a \in Arrives(p, H) THEN None
                                ELSE IF a \in H THEN open[p][a] ELSE None
        BY DEF OpenNext, Departs, Arrives
      <4>2. WasNext(H)[a] = IF a \in H THEN phase[a] ELSE "unseen"
        BY DEF WasNext
      <4>3. phase[a] \in {"ground", "air"}
        BY DEF TypeOK, Phases
      <4> QED BY <1>0, <3>3, <4>1, <4>2, <4>3 DEF Departs, Arrives
    <3>4. \A q \in Ticks : q # p => was'[q] = was[q] /\ open'[q] = open[q]
      BY <3>1 DEF TypeOK
    <3>5. was'[p] = WasNext(H) /\ open'[p] = OpenNext(p, H)
      BY <3>1 DEF TypeOK
    <3>6. OpenSound(was[p], open[p])'
      BY <2>0, <3>3, <3>5
    <3> HIDE DEF OpenSound
    <3>7. ASSUME NEW q \in Ticks, q # p PROVE OpenSound(was[q], open[q])'
      BY <2>0, <3>4, <3>7 DEF OpenSound
    <3>8. OpenSound(saved.was, saved.open)'
      BY <2>0, <3>2 DEF OpenSound
    <3> QED BY <3>6, <3>7, <3>8
  <2>3. ASSUME NEW f \in off[p], TickTakeoff(p, f) PROVE MapsSound'
    BY <2>0, <2>3 DEF TickTakeoff
  <2>4. ASSUME NEW l \in down[p], TickLanding(p, l) PROVE MapsSound'
    BY <2>0, <2>4 DEF TickLanding
  <2>5. CASE TickSave(p) \/ TickSkip(p) \/ TickFail(p)
    <3>1. EndTick(p)
      BY <2>5 DEF TickSave, TickSkip, TickFail
    <3>2. OpenSound(saved.was, saved.open)'
      BY <2>0, <2>5 DEF TickSave, TickSkip, TickFail, NoState
    <3>3. ASSUME NEW q \in Ticks PROVE OpenSound(was[q], open[q])'
      BY <2>0, <3>1 DEF EndTick, NoState, TypeOK
    <3> QED BY <3>2, <3>3
  <2> QED BY <1>2, <2>1, <2>2, <2>3, <2>4, <2>5 DEF PositionsRun
<1>3. CASE EnrichmentRun \/ ReconcileRun \/ ArchiveRun \/ Purge
  <2>1. UNCHANGED <<now, phase, saved, was, open>>
    BY <1>3, EnrichmentFrame, ReconcileFrame, ArchiveFrame DEF Purge, world, tickVars
  <2> QED BY <2>1
<1> QED BY <1>1, <1>2, <1>3 DEF Next

-----------------------------------------------------------------------------
(* The landings.                                                           *)

LEMMA LandsAfterHolds ==
  ASSUME TypeOK, TypeOK', Next, NEW f \in Flights, NEW t \in Time, LandsAfter(f, t)
  PROVE  LandsAfter(f, t)'
<1>1. /\ f[2] \in Int /\ t \in Int /\ now \in Int /\ now' \in Int /\ f[1] \in Aircraft
  BY FlightHas, TimeIsNat DEF TypeOK
<1>2. CASE Sky
  BY <1>1, <1>2, SkyFrame DEF LandsAfter
<1>3. CASE ~Sky
  <2>1. UNCHANGED <<now, phase>>
    BY <1>3, PositionsFrame, EnrichmentFrame, ReconcileFrame, ArchiveFrame
    DEF Next, Purge, world
  <2> QED BY <2>1 DEF LandsAfter
<1> QED BY <1>2, <1>3

\* Which landings a step can bring: one that a positions run held already, or
\* one of an aircraft that it has just seen on the ground.
LEMMA LandedFrom ==
  ASSUME TypeOK, Next, NEW f \in Flights, landedAt'[f] # None
  PROVE  \/ landedAt'[f] = landedAt[f]
         \/ \E p \in Ticks : \E l \in down[p] : f = l[1] /\ landedAt'[f] = l[2]
<1>1. CASE landedAt' = landedAt
  BY <1>1
<1>2. ASSUME NEW g, Delete(g) PROVE landedAt'[f] = landedAt[f]
  BY <1>2 DEF Delete, TypeOK
<1>3. ASSUME NEW p \in Ticks, NEW l \in down[p], TickLanding(p, l)
      PROVE  landedAt'[f] = landedAt[f] \/ (f = l[1] /\ landedAt'[f] = l[2])
  BY <1>3 DEF TickLanding, Upsert, TypeOK
<1>4. ASSUME NEW p \in Ticks, PositionsRun(p), \A l \in down[p] : ~TickLanding(p, l)
      PROVE  landedAt' = landedAt
  BY <1>4 DEF PositionsRun, TickStart, TickFetch, TickTakeoff, Upsert, TickSave, TickSkip,
     TickFail, EndTick, objects
<1>5. CASE EnrichmentRun
  BY <1>1, <1>5 DEF EnrichmentRun, EnrichFetch, EnrichUpsert, EnrichSkip, Upsert, objects
<1>6. CASE ReconcileRun
  <2>1. CASE \E g \in gone : ReconcileDelete(g)
    BY <1>2, <2>1 DEF ReconcileDelete
  <2>2. CASE ~\E g \in gone : ReconcileDelete(g)
    BY <1>1, <1>6, <2>2 DEF ReconcileRun, ReconcileFetch, ReconcileScan, ReconcileLight,
       ReconcileDim, ReconcileDone, ReconcileSkip, EndReconcile, Upsert, objects
  <2> QED BY <2>1, <2>2
<1>7. CASE ArchiveRun
  <2>1. CASE ArchiveDelete
    BY <1>2, <2>1 DEF ArchiveDelete
  <2>2. CASE ~ArchiveDelete
    BY <1>1, <1>7, <2>2 DEF ArchiveRun, ArchiveStart, ArchivePage, ArchiveStore,
       ArchiveDone, ArchiveFail, EndArchive, objects
  <2> QED BY <2>1, <2>2
<1>8. CASE Sky \/ Purge
  BY <1>1, <1>8 DEF Sky, Pass, Move, Purge, objects
<1> QED BY <1>1, <1>3, <1>4, <1>5, <1>6, <1>7, <1>8 DEF Next

LEMMA DownFrom ==
  ASSUME TypeOK, Next, NEW q \in Ticks, NEW l \in down'[q]
  PROVE  \/ l \in down[q]
         \/ \E H \in SUBSET Aircraft :
              /\ TickFetch(q)
              /\ l \in {<<<<a, open[q][a]>>, now>> :
                           a \in {b \in Arrives(q, H) : open[q][b] # None}}
<1>1. CASE UNCHANGED down
  BY <1>1
<1>2. ASSUME NEW p \in Ticks, TickFetch(p)
      PROVE  \/ l \in down[q]
             \/ \E H \in SUBSET Aircraft :
                  /\ TickFetch(q)
                  /\ l \in {<<<<a, open[q][a]>>, now>> :
                               a \in {b \in Arrives(q, H) : open[q][b] # None}}
  <2>1. PICK H \in SUBSET Aircraft :
          down' = [down EXCEPT ![p] =
            {<<<<a, open[p][a]>>, now>> : a \in {b \in Arrives(p, H) : open[p][b] # None}}]
    BY <1>2 DEF TickFetch
  <2>2. CASE q = p
    BY <1>2, <2>1, <2>2 DEF TypeOK
  <2>3. CASE q # p
    BY <2>1, <2>3 DEF TypeOK
  <2> QED BY <2>2, <2>3
<1>3. ASSUME NEW p \in Ticks, PositionsRun(p), ~TickFetch(p)
      PROVE  l \in down[q]
  <2>1. CASE EndTick(p)
    BY <2>1 DEF EndTick, TypeOK
  <2>2. ASSUME NEW k \in down[p], TickLanding(p, k) PROVE l \in down[q]
    BY <2>2 DEF TickLanding, TypeOK
  <2>3. CASE TickStart(p) \/ \E f \in off[p] : TickTakeoff(p, f)
    BY <2>3 DEF TickStart, TickTakeoff
  <2> QED BY <1>3, <2>1, <2>2, <2>3 DEF PositionsRun, TickSave, TickSkip, TickFail
<1>4. CASE Sky \/ EnrichmentRun \/ ReconcileRun \/ ArchiveRun \/ Purge
  BY <1>1, <1>4, EnrichmentFrame, ReconcileFrame, ArchiveFrame
  DEF Sky, Pass, Move, Purge, tickVars
<1> QED BY <1>2, <1>3, <1>4 DEF Next

LEMMA LandingsStep ==
  ASSUME TypeOK, TypeOK', MapsSound, LandingsSound, Next
  PROVE  LandingsSound'
<1>1. ASSUME NEW f \in Flights, landedAt'[f] # None PROVE LandsAfter(f, landedAt[f])'
  <2>1. landedAt'[f] \in Time
    BY <1>1 DEF TypeOK
  <2>2. LandsAfter(f, landedAt'[f])
    BY <1>1, LandedFrom DEF LandingsSound
  <2>3. ASSUME NEW t \in Time, t = landedAt'[f] PROVE LandsAfter(f, landedAt[f])'
    BY <2>2, <2>3, LandsAfterHolds DEF LandsAfter
  <2> QED BY <2>1, <2>3
<1>2. ASSUME NEW q \in Ticks, NEW l \in down'[q] PROVE LandsAfter(l[1], l[2])'
  <2>1. l[1] \in Flights /\ l[2] \in Time
    BY <1>2 DEF TypeOK
  <2>2. CASE l \in down[q]
    BY <2>1, <2>2, LandsAfterHolds DEF LandingsSound
  <2>3. ASSUME NEW H \in SUBSET Aircraft, TickFetch(q),
               l \in {<<<<a, open[q][a]>>, now>> :
                         a \in {b \in Arrives(q, H) : open[q][b] # None}}
        PROVE  LandsAfter(l[1], l[2])'
    <3>1. PICK a \in Arrives(q, H) : open[q][a] # None /\ l = <<<<a, open[q][a]>>, now>>
      BY <2>3
    <3>2. a \in Aircraft /\ phase[a] = "ground" /\ open[q][a] < now
      BY <3>1 DEF Arrives, MapsSound, OpenSound
    <3>3. LandsAfter(l[1], l[2])
      BY <3>1, <3>2, TimeIsNat DEF LandsAfter, TypeOK
    <3> QED BY <2>1, <3>3, LandsAfterHolds
  <2> QED BY <1>2, <2>2, <2>3, DownFrom
<1> QED BY <1>1, <1>2 DEF LandingsSound

-----------------------------------------------------------------------------
(* The archive run and the purge.                                          *)

LEMMA RowStep ==
  ASSUME TypeOK, TypeOK', LandingsSound, ArchivedIsSettled, RowSound, Next
  PROVE  ArchivedIsSettled' /\ RowSound'
<1> USE DEF ArchivedIsSettled, RowSound
<1>t. \A t \in Time : t \in Int /\ t # None
  BY TimeIsNat
<1>f. \A f \in Flights : f[2] \in Int
  BY TimeIsNat, FlightHas
<1>0. /\ now \in Int /\ now' \in Int /\ begun \in Int /\ Grace \in Int
      /\ now \in Nat /\ now' \in Nat
  BY TimeIsNat, BoundsAreNat DEF TypeOK
<1>1. CASE Sky
  <2>1. UNCHANGED <<cold, apc, begun, row, count>> /\ now' = now + 1
    BY <1>1, SkyFrame DEF arcVars
  <2>2. ArchivedIsSettled'
    <3>1. ASSUME NEW r \in cold PROVE r[1][2] < r[2] /\ r[2] < now' - Grace
      <4>1. r[2] \in Int
        BY <1>t, <3>1 DEF TypeOK
      <4> QED BY <1>0, <2>1, <3>1, <4>1
    <3> QED BY <2>1, <3>1
  <2>3. ASSUME row \in Flights \X Time, Expired(row[2]) PROVE Expired(row[2])'
    <3>1. row[2] \in Int
      BY <1>t, <2>3
    <3>2. now <= now'
      BY <1>0, <2>1
    <3>3. ASSUME NEW t \in Int, Expired(t) PROVE Expired(t)'
      BY <1>0, <3>2, <3>3, ExpiredStays
    <3>4. Expired(row[2])' <=> Date(row[2]) < Date(now' - Retention)
      BY <2>1 DEF Expired, Date
    <3> QED BY <2>3, <3>1, <3>3, <3>4 DEF Expired, Date
  <2>4. (apc = "delete" => row \in cold \/ Expired(row[2]))'
    BY <2>1, <2>3 DEF TypeOK
  <2>5. (apc \in {"store", "delete"} =>
           row # None /\ row[1][2] < row[2] /\ row[2] < now - Grace)'
    <3>1. row # None => row[2] \in Int
      BY <1>t DEF TypeOK
    <3> QED BY <1>0, <2>1, <3>1
  <2> QED BY <1>0, <2>1, <2>2, <2>4, <2>5
<1>2. CASE (\E p \in Ticks : PositionsRun(p)) \/ EnrichmentRun \/ ReconcileRun
  <2>1. UNCHANGED <<now, cold, arcVars>>
    BY <1>2, PositionsFrame, EnrichmentFrame, ReconcileFrame DEF world
  <2> QED BY <2>1 DEF arcVars, Expired, Date
<1>3. CASE ArchiveRun
  <2>1. UNCHANGED now
    BY <1>3, ArchiveFrame DEF world
  <2>2. CASE ArchiveStart \/ ArchiveDone \/ ArchiveFail
    BY <1>0, <2>1, <2>2 DEF ArchiveStart, ArchiveDone, ArchiveFail, EndArchive, objects
  <2>3. ASSUME NEW f \in unread, ArchivePage(f) PROVE ArchivedIsSettled' /\ RowSound'
    <3>1. ArchivedIsSettled'
      BY <2>1, <2>3 DEF ArchivePage
    <3>2. CASE Settled(f)
      <4>1. f \in Flights /\ landedAt[f] \in Time /\ f[2] < landedAt[f]
        BY <2>3, <3>2 DEF Settled, Completed, LandingsSound, LandsAfter, TypeOK
      <4>2. landedAt[f] < now - Grace
        BY <1>0, <1>t, <2>3, <3>2, <4>1 DEF Settled, ArchivePage
      <4>3. row' = <<f, landedAt[f]>> /\ apc' = "store" /\ UNCHANGED <<begun, count>>
        BY <2>3, <3>2 DEF ArchivePage
      <4>4. row'[1] = f /\ row'[2] = landedAt[f]
        BY <4>1, <4>3
      <4>5. row' # None
        BY <4>1, <4>3, RowIsRow
      <4> QED BY <2>1, <2>3, <3>1, <4>1, <4>2, <4>3, <4>4, <4>5 DEF ArchivePage
    <3>3. CASE ~Settled(f)
      BY <2>1, <2>3, <3>1, <3>3 DEF ArchivePage
    <3> QED BY <3>2, <3>3
  <2>4. CASE ArchiveStore
    BY <2>1, <2>4 DEF ArchiveStore
  <2>5. CASE ArchiveDelete
    BY <2>1, <2>5 DEF ArchiveDelete
  <2> QED BY <1>3, <2>2, <2>3, <2>4, <2>5 DEF ArchiveRun
<1>4. CASE Purge
  BY <1>4 DEF Purge, world, arcVars, Expired, Date
<1> QED BY <1>1, <1>2, <1>3, <1>4 DEF Next

-----------------------------------------------------------------------------
(* The deletes of the reconcile run.                                       *)

LEMMA GoneStep ==
  ASSUME TypeOK, TypeOK', GoneSound, Next
  PROVE  GoneSound'
<1> USE DEF GoneSound
<1>f. \A f \in Flights : f[2] \in Int
  BY TimeIsNat, FlightHas
<1>0. now \in Int /\ now' \in Int /\ cutoff \in Int /\ TTL \in Int
  BY TimeIsNat, BoundsAreNat DEF TypeOK
<1>1. CASE Sky
  <2>1. UNCHANGED <<rpc, cutoff, gone>> /\ now' = now + 1
    BY <1>1, SkyFrame DEF recVars
  <2> QED BY <1>0, <1>f, <2>1 DEF TypeOK
<1>2. CASE (\E p \in Ticks : PositionsRun(p)) \/ EnrichmentRun \/ ArchiveRun \/ Purge
  <2>1. UNCHANGED <<now, rpc, cutoff, gone>>
    BY <1>2, PositionsFrame, EnrichmentFrame, ArchiveFrame DEF Purge, world, recVars
  <2> QED BY <2>1
<1>3. CASE ReconcileRun
  <2>1. UNCHANGED now
    BY <1>3, ReconcileFrame DEF world
  <2>2. CASE ReconcileFetch
    BY <1>0, <2>1, <2>2 DEF ReconcileFetch
  <2>3. CASE ReconcileScan
    <3>1. ASSUME NEW f \in gone' PROVE f[2] < now - TTL
      <4>1. f \in StubOrphans
        BY <2>3, <3>1 DEF ReconcileScan, Capped
      <4>2. f \in Flights /\ ~(f[2] >= cutoff)
        BY <4>1 DEF StubOrphans, Keep, TypeOK
      <4> QED BY <1>0, <1>f, <2>3, <4>2 DEF ReconcileScan
    <3> QED BY <2>1, <2>3, <3>1 DEF ReconcileScan
  <2>4. CASE ReconcileDone \/ ReconcileSkip
    BY <2>1, <2>4 DEF ReconcileDone, ReconcileSkip, EndReconcile
  <2>5. CASE \/ \E f \in gone : ReconcileDelete(f)
             \/ \E f \in lit : ReconcileLight(f)
             \/ \E f \in dim : ReconcileDim(f)
    BY <2>1, <2>5 DEF ReconcileDelete, ReconcileLight, ReconcileDim
  <2> QED BY <1>3, <2>2, <2>3, <2>4, <2>5 DEF ReconcileRun
<1> QED BY <1>1, <1>2, <1>3 DEF Next

-----------------------------------------------------------------------------
(* The invariant, and what follows from it.                                *)

LEMMA InvInit == Init => IInv
<1> SUFFICES ASSUME Init PROVE IInv
  OBVIOUS
<1>1. TypeOK
  BY TypeInit
<1>2. ArchivedIsSettled /\ RowSound /\ GoneSound
  BY DEF Init, ArchivedIsSettled, RowSound, GoneSound
<1>3. MapsSound
  BY DEF Init, MapsSound, OpenSound, NoState
<1>4. LandingsSound
  BY DEF Init, LandingsSound
<1> QED BY <1>1, <1>2, <1>3, <1>4 DEF IInv

LEMMA InvStep == IInv /\ [Next]_vars => IInv'
<1> SUFFICES ASSUME IInv, [Next]_vars PROVE IInv'
  OBVIOUS
<1>1. CASE Next
  <2>1. TypeOK'
    BY <1>1, TypeStep DEF IInv
  <2> QED BY <1>1, <2>1, MapsStep, LandingsStep, RowStep, GoneStep DEF IInv
<1>2. CASE UNCHANGED vars
  BY <1>2 DEF vars, world, objects, tickVars, recVars, arcVars, IInv, TypeOK, Maps,
     ArchivedIsSettled, MapsSound, OpenSound, LandingsSound, LandsAfter, RowSound,
     GoneSound, Expired, Date
<1> QED BY <1>1, <1>2

LEMMA Invariant == Spec => []IInv
  BY InvInit, InvStep, PTL DEF Spec

(* Every variable of the flight jobs stays in its type.                    *)
THEOREM TypeCorrect == Spec => []TypeOK
  BY Invariant, PTL DEF IInv

(* A row of the cold store landed longer ago than the grace period of the  *)
(* archive run, for every fleet and any jobs and outages: _ARCHIVE_GRACE   *)
(* in pipelines/assets/flight_archival.py.                                 *)
THEOREM ArchivesSettled == Spec => []ArchivedIsSettled
  BY Invariant, PTL DEF IInv

(* A Flight leaves the tenant only when its row is in the cold store or was *)
(* there until its retention ended, or as a stub that is past the TTL of   *)
(* reconcile_flights, whatever the runs interleave with.                   *)
THEOREM LeavesSafe == Spec => LeavesSafely
<1> DEFINE Safe == \A f \in Flights : Leaves(f) =>
                      \/ \E r \in cold : r[1] = f
                      \/ apc = "delete" /\ row[1] = f /\ Expired(row[2])
                      \/ f[2] < now - TTL
<1>1. IInv /\ [Next]_vars => [Safe]_vars
  <2> SUFFICES ASSUME IInv, Next, NEW f \in Flights, f \in tenant, f \notin tenant'
               PROVE  \/ \E r \in cold : r[1] = f
                      \/ apc = "delete" /\ row[1] = f /\ Expired(row[2])
                      \/ f[2] < now - TTL
    BY DEF Leaves
  <2>1. CASE \E g \in gone : ReconcileDelete(g)
    BY <2>1 DEF ReconcileDelete, Delete, IInv, GoneSound
  <2>2. CASE ArchiveDelete
    BY <2>2 DEF ArchiveDelete, Delete, IInv, RowSound
  <2>3. ASSUME NEW p \in Ticks, PositionsRun(p) PROVE tenant \subseteq tenant'
    BY <2>3 DEF PositionsRun, TickStart, TickFetch, TickTakeoff, TickLanding, Upsert,
       TickSave, TickSkip, TickFail, EndTick, objects
  <2>4. CASE EnrichmentRun
    BY <2>4 DEF EnrichmentRun, EnrichFetch, EnrichUpsert, EnrichSkip, Upsert, objects
  <2>5. CASE ReconcileRun /\ ~\E g \in gone : ReconcileDelete(g)
    BY <2>5 DEF ReconcileRun, ReconcileFetch, ReconcileScan, ReconcileLight,
       ReconcileDim, ReconcileDone, ReconcileSkip, EndReconcile, Upsert, objects
  <2>6. CASE ArchiveRun /\ ~ArchiveDelete
    BY <2>6 DEF ArchiveRun, ArchiveStart, ArchivePage, ArchiveStore, ArchiveDone,
       ArchiveFail, EndArchive, objects
  <2>7. CASE Sky \/ Purge
    BY <2>7 DEF Sky, Pass, Move, Purge, objects
  <2> QED BY <2>1, <2>2, <2>3, <2>4, <2>5, <2>6, <2>7 DEF Next
<1> QED BY <1>1, Invariant, PTL DEF Spec, LeavesSafely

-----------------------------------------------------------------------------
(* The legs that the jobs know of: a new one is a takeoff just detected.   *)

Minted(p, g) ==
  /\ TickFetch(p) /\ g[2] = now
  /\ \E H \in SUBSET Aircraft :
       g[1] \in Departs(p, H) /\ overtaken' = overtaken \cup Overtaken(p, H)

LEMMA LegsFrom ==
  ASSUME TypeOK, RowSound, Next, NEW g \in Flights, Leg(g)'
  PROVE  Leg(g) \/ \E p \in Ticks : Minted(p, g)
<1> USE DEF Leg, Known
<1>1. CASE Sky
  BY <1>1, SkyFrame DEF objects, tickVars, recVars, arcVars
<1>2. ASSUME NEW p \in Ticks, PositionsRun(p)
      PROVE  Leg(g) \/ Minted(p, g)
  <2>0. UNCHANGED <<cold, fetched, gone, lit, dim, row>>
    BY <1>2, PositionsFrame DEF recVars, arcVars
  <2>1. CASE TickStart(p)
    BY <2>0, <2>1 DEF TickStart, objects, TypeOK
  <2>2. CASE TickFetch(p)
    <3>1. PICK H \in SUBSET Aircraft :
            /\ open' = [open EXCEPT ![p] = OpenNext(p, H)]
            /\ off' = [off EXCEPT ![p] = {<<a, now>> : a \in Departs(p, H)}]
            /\ down' = [down EXCEPT ![p] =
                 {<<<<a, open[p][a]>>, now>> : a \in {b \in Arrives(p, H) : open[p][b] # None}}]
            /\ overtaken' = overtaken \cup Overtaken(p, H)
      BY <2>2 DEF TickFetch
    <3>2. \A q \in Ticks : q # p =>
             open'[q] = open[q] /\ off'[q] = off[q] /\ down'[q] = down[q]
      BY <3>1 DEF TypeOK
    <3>3. ASSUME g \in off'[p] PROVE Minted(p, g)
      BY <2>2, <3>1, <3>3 DEF TypeOK, Minted
    <3>4. ASSUME NEW l \in down'[p], g = l[1] PROVE open[p][g[1]] = g[2]
      <4>1. l \in {<<<<a, open[p][a]>>, now>> : a \in {b \in Arrives(p, H) : open[p][b] # None}}
        BY <3>1, <3>4 DEF TypeOK
      <4>2. PICK a \in Arrives(p, H) : l = <<<<a, open[p][a]>>, now>>
        BY <4>1
      <4> QED BY <3>4, <4>2
    <3>5. ASSUME open'[p][g[1]] = g[2] PROVE open[p][g[1]] = g[2] \/ Minted(p, g)
      <4>1. g[1] \in Aircraft /\ g[2] # None
        BY FlightHas, TimeIsNat
      <4>2. open'[p] = OpenNext(p, H)
        BY <3>1 DEF TypeOK
      <4>3. OpenNext(p, H)[g[1]] = IF g[1] \in Departs(p, H) THEN now
                                   ELSE IF g[1] \in Arrives(p, H) THEN None
                                   ELSE IF g[1] \in H THEN open[p][g[1]] ELSE None
        BY <4>1 DEF OpenNext, Departs, Arrives
      <4> QED BY <2>2, <3>1, <3>5, <4>1, <4>2, <4>3 DEF Minted
    <3>6. UNCHANGED <<tenant, saved>>
      BY <2>2 DEF TickFetch, objects
    <3> QED BY <2>0, <3>2, <3>3, <3>4, <3>5, <3>6
  <2>3. ASSUME NEW f \in off[p], TickTakeoff(p, f) PROVE Leg(g)
    BY <2>0, <2>3 DEF TickTakeoff, Upsert, TypeOK
  <2>4. ASSUME NEW l \in down[p], TickLanding(p, l) PROVE Leg(g)
    BY <2>0, <2>4 DEF TickLanding, Upsert, TypeOK
  <2>5. CASE TickSave(p) \/ TickSkip(p) \/ TickFail(p)
    <3>1. EndTick(p)
      BY <2>5 DEF TickSave, TickSkip, TickFail
    <3>2. g[1] \in Aircraft /\ g[2] # None
      BY FlightHas, TimeIsNat
    <3>3. NoState.open[g[1]] = None
      BY <3>2 DEF NoState
    <3>4. saved' = saved \/ saved'.open = open[p] \/ saved'.open = NoState.open
      BY <2>5 DEF TickSave, TickSkip, TickFail
    <3>5. \A q \in Ticks : /\ off'[q] \subseteq off[q] /\ down'[q] \subseteq down[q]
                           /\ open'[q] = open[q] \/ open'[q] = NoState.open
      BY <3>1 DEF EndTick, TypeOK
    <3> QED BY <2>0, <3>1, <3>2, <3>3, <3>4, <3>5 DEF EndTick, objects
  <2> QED BY <1>2, <2>1, <2>2, <2>3, <2>4, <2>5 DEF PositionsRun
<1>3. CASE EnrichmentRun
  BY <1>3 DEF EnrichmentRun, EnrichFetch, EnrichUpsert, EnrichSkip, Newest, Upsert,
     objects, tickVars, recVars, arcVars
<1>4. CASE ReconcileRun
  <2>0. UNCHANGED <<cold, saved, tickVars, fetched, row>>
    BY <1>4, ReconcileFrame DEF arcVars
  <2>1. CASE ReconcileScan
    <3>1. tenant' = tenant /\ gone' \subseteq tenant /\ lit' \subseteq tenant /\ dim' \subseteq live
      BY <2>1 DEF ReconcileScan, Capped, StubOrphans, TargetLive, LatestAirborne, Newest, objects
    <3> QED BY <2>0, <3>1 DEF tickVars, TypeOK
  <2>2. CASE ReconcileFetch \/ ReconcileDone \/ ReconcileSkip
    BY <2>0, <2>2 DEF ReconcileFetch, ReconcileDone, ReconcileSkip, EndReconcile, tickVars, objects
  <2>3. CASE \/ \E f \in gone : ReconcileDelete(f)
             \/ \E f \in lit : ReconcileLight(f)
             \/ \E f \in dim : ReconcileDim(f)
    BY <2>0, <2>3 DEF ReconcileDelete, ReconcileLight, ReconcileDim, Delete, Upsert, tickVars
  <2> QED BY <1>4, <2>1, <2>2, <2>3 DEF ReconcileRun
<1>5. CASE ArchiveRun
  <2>0. UNCHANGED <<saved, tickVars, fetched, gone, lit, dim>>
    BY <1>5, ArchiveFrame DEF recVars
  <2>1. CASE ArchiveStart \/ ArchiveDone \/ ArchiveFail
    BY <2>0, <2>1 DEF ArchiveStart, ArchiveDone, ArchiveFail, EndArchive, tickVars, objects
  <2>2. ASSUME NEW f \in unread, ArchivePage(f) PROVE Leg(g)
    BY <2>0, <2>2 DEF ArchivePage, Settled, Completed, tickVars, objects
  <2>3. CASE ArchiveStore
    BY <2>0, <2>3 DEF ArchiveStore, RowSound, tickVars, objects
  <2>4. CASE ArchiveDelete
    BY <2>0, <2>4 DEF ArchiveDelete, Delete, tickVars
  <2> QED BY <1>5, <2>1, <2>2, <2>3, <2>4 DEF ArchiveRun
<1>6. CASE Purge
  BY <1>6 DEF Purge, objects, tickVars, recVars, arcVars
<1> QED BY <1>1, <1>2, <1>3, <1>4, <1>5, <1>6 DEF Next

-----------------------------------------------------------------------------
(* What a step can make of the maps, and of the legs they hold open.       *)

LEMMA NowNeverBack == ASSUME TypeOK, Next PROVE now \in Int /\ now' \in Int /\ now <= now'
<1>1. now \in Int
  BY TimeIsNat DEF TypeOK
<1>2. CASE Sky
  BY <1>1, <1>2, SkyFrame
<1>3. CASE ~Sky
  BY <1>1, <1>3, PositionsFrame, EnrichmentFrame, ReconcileFrame, ArchiveFrame
  DEF Next, Purge, world
<1> QED BY <1>2, <1>3

LEMMA OvertakenGrows == ASSUME TypeOK, Next PROVE overtaken \subseteq overtaken'
<1>1. CASE Sky \/ EnrichmentRun \/ ReconcileRun \/ ArchiveRun \/ Purge
  BY <1>1, SkyFrame, EnrichmentFrame, ReconcileFrame, ArchiveFrame DEF Purge, tickVars
<1>2. ASSUME NEW p \in Ticks, PositionsRun(p) PROVE overtaken \subseteq overtaken'
  BY <1>2 DEF PositionsRun, TickStart, TickFetch, TickTakeoff, TickLanding, TickSave,
     TickSkip, TickFail, EndTick
<1> QED BY <1>1, <1>2 DEF Next

\* A takeoff is open where it was already, or has just been detected.
OpenSomewhere(a, t) == t = saved.open[a] \/ \E q \in Ticks : t = open[q][a]

LEMMA OpenFrom ==
  ASSUME TypeOK, Next, NEW a \in Aircraft, NEW t \in Time, OpenSomewhere(a, t)'
  PROVE  OpenSomewhere(a, t) \/ t = now'
<1> USE DEF OpenSomewhere
<1>1. CASE Sky \/ EnrichmentRun \/ ReconcileRun \/ ArchiveRun \/ Purge
  BY <1>1, SkyFrame, EnrichmentFrame, ReconcileFrame, ArchiveFrame DEF Purge, tickVars
<1>2. ASSUME NEW p \in Ticks, PositionsRun(p)
      PROVE  OpenSomewhere(a, t) \/ t = now'
  <2>1. CASE TickStart(p)
    BY <2>1 DEF TickStart, TypeOK
  <2>2. CASE TickFetch(p)
    <3>1. PICK H \in SUBSET Aircraft : open' = [open EXCEPT ![p] = OpenNext(p, H)]
      BY <2>2 DEF TickFetch
    <3>2. /\ open'[p] = OpenNext(p, H)
          /\ \A q \in Ticks : q # p => open'[q] = open[q]
      BY <3>1 DEF TypeOK
    <3>3. OpenNext(p, H)[a] \in {now, None, open[p][a]}
      BY DEF OpenNext, Departs, Arrives
    <3>4. UNCHANGED <<now, saved>> /\ t # None
      BY <2>2, TimeIsNat DEF TickFetch, world
    <3> QED BY <3>2, <3>3, <3>4
  <2>3. CASE \/ \E f \in off[p] : TickTakeoff(p, f)
             \/ \E l \in down[p] : TickLanding(p, l)
    BY <2>3 DEF TickTakeoff, TickLanding
  <2>4. CASE TickSave(p) \/ TickSkip(p) \/ TickFail(p)
    <3>1. EndTick(p)
      BY <2>4 DEF TickSave, TickSkip, TickFail
    <3>2. saved' = saved \/ saved'.open = open[p] \/ saved'.open = NoState.open
      BY <2>4 DEF TickSave, TickSkip, TickFail
    <3>3. \A q \in Ticks : open'[q] = open[q] \/ open'[q] = NoState.open
      BY <3>1 DEF EndTick, TypeOK
    <3>4. NoState.open[a] = None /\ t # None
      BY TimeIsNat DEF NoState
    <3> QED BY <3>2, <3>3, <3>4
  <2> QED BY <1>2, <2>1, <2>2, <2>3, <2>4 DEF PositionsRun
<1> QED BY <1>1, <1>2 DEF Next

\* A step that mints a leg overtakes those that are open on its aircraft: the
\* run itself has none open, for it saw the aircraft on the ground.
LEMMA MintOvertakes ==
  ASSUME TypeOK, MapsSound, NEW p \in Ticks, NEW g \in Flights, Minted(p, g),
         NEW t \in Time, OpenSomewhere(g[1], t)
  PROVE  t = now \/ <<g[1], t>> \in overtaken'
<1>1. PICK H \in SUBSET Aircraft :
        g[1] \in Departs(p, H) /\ overtaken' = overtaken \cup Overtaken(p, H)
  BY DEF Minted
<1>2. g[1] \in Aircraft /\ t # None
  BY FlightHas, TimeIsNat
<1>3. open[p][g[1]] = None
  BY <1>1, <1>2 DEF Departs, MapsSound, OpenSound
<1>4. <<g[1], t>> \in Flights
  BY <1>2 DEF Flights
<1> QED BY <1>1, <1>2, <1>3, <1>4 DEF OpenSomewhere, Overtaken

\* So a leg that is open and not overtaken stays the newest of its aircraft.
LEMMA OpenHolds ==
  ASSUME TypeOK, MapsSound, RowSound, Next, NEW a \in Aircraft, NEW t \in Time,
         OpenSomewhere(a, t), <<a, t>> \notin overtaken',
         \A g \in Legs : g[1] = a => g[2] <= t
  PROVE  \A g \in Legs' : g[1] = a => g[2] <= t
<1> SUFFICES ASSUME NEW g \in Flights, Leg(g)', g[1] = a PROVE g[2] <= t
  BY DEF Legs
<1>1. CASE Leg(g)
  BY <1>1 DEF Legs
<1>2. ASSUME NEW p \in Ticks, Minted(p, g) PROVE g[2] <= t
  BY <1>2, MintOvertakes, TimeIsNat DEF Minted
<1> QED BY <1>1, <1>2, LegsFrom

\* A landing known before the step is before every leg that the step mints.
LEMMA NoneNewerHolds ==
  ASSUME TypeOK, RowSound, Next, NEW f \in Flights, NEW t \in Time,
         LandsAfter(f, t), NoneNewer(f, t)
  PROVE  NoneNewer(f, t)'
<1> SUFFICES ASSUME NEW g \in Flights, Leg(g)', g[1] = f[1], g[2] > f[2]
             PROVE  g[2] > t
  BY DEF NoneNewer, Legs
<1>1. CASE Leg(g)
  BY <1>1 DEF NoneNewer, Legs
<1>2. ASSUME NEW p \in Ticks, Minted(p, g) PROVE g[2] > t
  <2>1. g[2] = now /\ phase[f[1]] = "air"
    BY <1>2 DEF Minted, Departs
  <2>2. t < now /\ t \in Int /\ now \in Int
    BY <2>1, TimeIsNat DEF LandsAfter, TypeOK
  <2> QED BY <2>1, <2>2
<1> QED BY <1>1, <1>2, LegsFrom

-----------------------------------------------------------------------------
(* Landings are stamped on their own legs.                                 *)

LEMMA LegInit == Init => LegInv
<1> SUFFICES ASSUME Init PROVE LegInv
  OBVIOUS
<1>1. \A a \in Aircraft : NoState.open[a] = None
  BY DEF NoState
<1>2. Legs = {}
  BY <1>1, FlightHas, TimeIsNat DEF Init, Legs, Leg, Known
<1>3. \A f \in Flights : landedAt[f] = None
  BY DEF Init
<1>4. OpenIsNewest(saved.open) /\ \A p \in Ticks : OpenIsNewest(open[p])
  BY <1>1 DEF Init, OpenIsNewest
<1> QED BY <1>2, <1>3, <1>4 DEF Init, LegInv

LEMMA LegStep ==
  ASSUME IInv, IInv', LegInv, Next
  PROVE  LegInv'
<1>0. TypeOK /\ TypeOK' /\ MapsSound /\ LandingsSound /\ RowSound
  BY DEF IInv
<1>n. now \in Int /\ now' \in Int /\ now <= now'
  BY <1>0, NowNeverBack
<1>o. overtaken \subseteq overtaken'
  BY <1>0, OvertakenGrows
<1>i. \A f \in Flights : f[2] \in Int /\ f[2] # None /\ f[1] \in Aircraft
  BY FlightHas, TimeIsNat
<1>1. ASSUME NEW g \in Legs' PROVE g[2] <= now'
  <2>1. g \in Flights /\ Leg(g)'
    BY <1>1 DEF Legs
  <2>2. CASE Leg(g)
    BY <1>n, <1>i, <2>1, <2>2 DEF LegInv, Legs
  <2>3. CASE \E p \in Ticks : Minted(p, g)
    BY <1>n, <2>3 DEF Minted
  <2> QED BY <1>0, <2>1, <2>2, <2>3, LegsFrom
<1>2. ASSUME NEW f \in Flights, landedAt'[f] # None, f \notin overtaken'
      PROVE  NoneNewer(f, landedAt[f])'
  <2>1. landedAt'[f] \in Time
    BY <1>0, <1>2 DEF TypeOK
  <2>2. LandsAfter(f, landedAt'[f]) /\ NoneNewer(f, landedAt'[f])
    BY <1>0, <1>o, <1>2, LandedFrom DEF LandingsSound, LegInv
  <2>3. ASSUME NEW t \in Time, t = landedAt'[f] PROVE NoneNewer(f, landedAt[f])'
    BY <1>0, <2>2, <2>3, NoneNewerHolds DEF NoneNewer
  <2> QED BY <2>1, <2>3
<1>3. ASSUME NEW q \in Ticks, NEW l \in down'[q], l[1] \notin overtaken'
      PROVE  NoneNewer(l[1], l[2])'
  <2>1. l[1] \in Flights /\ l[2] \in Time
    BY <1>0, <1>3 DEF TypeOK
  <2>2. CASE l \in down[q]
    BY <1>0, <1>o, <1>3, <2>1, <2>2, NoneNewerHolds DEF LandingsSound, LegInv
  <2>3. ASSUME NEW H \in SUBSET Aircraft, TickFetch(q),
               l \in {<<<<a, open[q][a]>>, now>> :
                         a \in {b \in Arrives(q, H) : open[q][b] # None}}
        PROVE  NoneNewer(l[1], l[2])'
    <3>1. PICK a \in Arrives(q, H) : open[q][a] # None /\ l = <<<<a, open[q][a]>>, now>>
      BY <2>3
    <3>2. a \in Aircraft /\ phase[a] = "ground"
      BY <3>1 DEF Arrives
    <3>3. \A g \in Legs : g[1] = a => g[2] <= open[q][a]
      BY <1>o, <1>3, <3>1, <3>2 DEF LegInv, OpenIsNewest
    <3>4. \A g \in Flights, p \in Ticks : g[1] = a => ~Minted(p, g)
      BY <3>2 DEF Minted, Departs
    <3>5. \A g \in Legs' : g[1] = a => g[2] <= open[q][a]
      BY <1>0, <3>3, <3>4, LegsFrom DEF Legs
    <3>6. open[q][a] \in Int
      BY <1>i, <2>1, <3>1
    <3> QED BY <1>i, <3>1, <3>5, <3>6 DEF NoneNewer, Legs
  <2> QED BY <1>0, <1>3, <2>2, <2>3, DownFrom
<1>4. ASSUME NEW a \in Aircraft, NEW t \in Time, OpenSomewhere(a, t)',
             <<a, t>> \notin overtaken'
      PROVE  \A g \in Legs' : g[1] = a => g[2] <= t
  <2>1. CASE t = now'
    BY <1>1, <2>1
  <2>2. CASE OpenSomewhere(a, t)
    <3>1. \A g \in Legs : g[1] = a => g[2] <= t
      BY <1>o, <1>4, <2>2, TimeIsNat DEF OpenSomewhere, LegInv, OpenIsNewest
    <3> QED BY <1>0, <1>4, <2>2, <3>1, OpenHolds
  <2> QED BY <1>0, <1>4, <2>1, <2>2, OpenFrom
<1>5. OpenIsNewest(saved.open)'
  <2>1. \A a \in Aircraft : saved'.open[a] \in Time \cup {None}
    BY <1>0 DEF TypeOK, Maps
  <2> QED BY <1>4, <2>1 DEF OpenSomewhere, OpenIsNewest
<1>6. ASSUME NEW q \in Ticks PROVE OpenIsNewest(open[q])'
  <2>1. \A a \in Aircraft : open'[q][a] \in Time \cup {None}
    BY <1>0 DEF TypeOK
  <2> QED BY <1>4, <2>1 DEF OpenSomewhere, OpenIsNewest
<1> QED BY <1>1, <1>2, <1>3, <1>5, <1>6 DEF LegInv

LEMMA LegInvariant == Spec => []LegInv
<1>1. IInv /\ IInv' /\ LegInv /\ [Next]_vars => LegInv'
  <2> SUFFICES ASSUME IInv, IInv', LegInv, [Next]_vars PROVE LegInv'
    OBVIOUS
  <2>1. CASE Next
    BY <2>1, LegStep
  <2>2. CASE UNCHANGED vars
    BY <2>2 DEF vars, world, objects, tickVars, recVars, arcVars, LegInv, Legs, Leg, Known,
       NoneNewer, OpenIsNewest
  <2> QED BY <2>1, <2>2
<1> QED BY <1>1, LegInit, Invariant, PTL DEF Spec

(* A landing is stamped after the takeoff of its leg and before the next,   *)
(* unless another positions run had that leg open when the next one began: *)
(* stamp_flight_landed_batch in ontology_writers.py, with any number of     *)
(* overlapping runs, whatever is lost of the detector's maps and whatever  *)
(* the other jobs do.                                                      *)
THEOREM OwnLeg == Spec => []StampsOwnLeg
<1>1. IInv /\ LegInv => StampsOwnLeg
  <2> SUFFICES ASSUME IInv, LegInv, NEW f \in Completed
               PROVE  /\ f[2] < landedAt[f]
                      /\ f \notin overtaken =>
                           \A g \in Known : g[1] = f[1] /\ g[2] > f[2] => g[2] > landedAt[f]
    BY DEF StampsOwnLeg
  <2>1. f \in Flights /\ landedAt[f] # None
    BY DEF Completed, IInv, TypeOK
  <2>2. Known \subseteq Legs
    BY DEF Known, Legs, Leg, IInv, TypeOK
  <2> QED BY <2>1, <2>2 DEF IInv, LandingsSound, LandsAfter, LegInv, NoneNewer
<1> QED BY <1>1, Invariant, LegInvariant, PTL

-----------------------------------------------------------------------------
(* What the exception comes to: it takes two runs. One that has nothing     *)
(* beside it reads the maps it holds, and overtakes no leg.                *)
LEMMA OvertakingTakesTwo ==
  ASSUME \A p, q \in Ticks : p = q
  PROVE  Spec => [](overtaken = {})
<1> DEFINE Alone == /\ overtaken = {}
                    /\ \A p \in Ticks : tpc[p] = "fetch" => open[p] = saved.open
<1>1. Init => Alone
  BY DEF Init
<1>2. IInv /\ Alone /\ [Next]_vars => Alone'
  <2> SUFFICES ASSUME IInv, Alone, [Next]_vars PROVE Alone'
    OBVIOUS
  <2>0. TypeOK /\ MapsSound
    BY DEF IInv
  <2>1. CASE Sky \/ EnrichmentRun \/ ReconcileRun \/ ArchiveRun \/ Purge \/ UNCHANGED vars
    <3>1. UNCHANGED <<saved, tickVars>>
      BY <2>0, <2>1, SkyFrame, EnrichmentFrame, ReconcileFrame, ArchiveFrame DEF Purge, vars
    <3> QED BY <3>1 DEF tickVars
  <2>2. ASSUME NEW p \in Ticks, PositionsRun(p) PROVE Alone'
    <3>1. CASE TickFetch(p)
      <4>1. PICK H \in SUBSET Aircraft : overtaken' = overtaken \cup Overtaken(p, H)
        BY <3>1 DEF TickFetch
      <4>2. open[p] = saved.open /\ \A q \in Ticks : q = p
        BY <3>1 DEF TickFetch
      <4>3. Overtaken(p, H) = {}
        BY <4>2 DEF Overtaken
      <4>4. \A q \in Ticks : tpc'[q] # "fetch"
        BY <2>0, <3>1, <4>2 DEF TickFetch, TypeOK
      <4> QED BY <4>1, <4>3, <4>4
    <3>2. CASE TickStart(p)
      BY <2>0, <3>2 DEF TickStart, TypeOK
    <3>3. CASE \/ \E f \in off[p] : TickTakeoff(p, f)
               \/ \E l \in down[p] : TickLanding(p, l)
      BY <3>3 DEF TickTakeoff, TickLanding
    <3>4. CASE TickSave(p) \/ TickSkip(p) \/ TickFail(p)
      <4>1. EndTick(p)
        BY <3>4 DEF TickSave, TickSkip, TickFail
      <4>2. UNCHANGED overtaken /\ \A q \in Ticks : tpc'[q] # "fetch"
        BY <2>0, <4>1 DEF EndTick, TypeOK
      <4> QED BY <4>2
    <3> QED BY <2>2, <3>1, <3>2, <3>3, <3>4 DEF PositionsRun
  <2> QED BY <2>1, <2>2 DEF Next
<1> QED BY <1>1, <1>2, Invariant, PTL DEF Spec

=============================================================================
