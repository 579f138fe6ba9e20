------------------------- MODULE FlightTrailsProofs -------------------------
(***************************************************************************)
(* What FlightTrails promises for every fleet, every look-back, every size *)
(* of the chunks and faults anywhere: no part of a trail passes for the    *)
(* trail, and a run that ends well has brought every aircraft that flies.  *)
(***************************************************************************)
EXTENDS FlightTrails, FiniteSetTheorems, SequenceTheorems, WellFoundedInduction, TLAPS

-----------------------------------------------------------------------------
(* The inductive invariant. *)

\* What the run holds of the scan, and where it can be.
Typed ==
    /\ TypeOK
    /\ scan \in [Aircraft -> SUBSET (1..now)]
    /\ seen \subseteq DOMAIN active
    /\ \A i \in 1..Len(wire) : wire[i].icao24 \in DOMAIN active
    /\ wire \in Seq([icao24 : Aircraft, points : SUBSET Nat])

\* The stream and its lines are of the request under way; the buffer is empty
\* before it, then holds what came, then what did not come too. A flush that is
\* due leaves one place.
Staged ==
    /\ run \in {"idle", "details"} => buffer = Nothing /\ seen = {}
    /\ run # "trails" => server = Closed /\ wire = <<>>
    /\ run = "trails" => DOMAIN buffer \subseteq seen
    /\ run \in {"rest", "flush"} => todo \subseteq DOMAIN active \ seen
    /\ run # "flush" => Cardinality(DOMAIN buffer) <= _ENRICHMENT_CHUNK

\* The rows that are left are not before the aircraft at hand, those of later
\* aircraft are all there, and with the points at hand they make up its trail.
ServerInv ==
    server.at = "open" =>
        /\ \A r \in server.rows : r[1] \in DOMAIN active /\ r[1] >= server.current
        /\ \A a \in DOMAIN active :
             a > server.current => scan[a] = {t \in 1..now : <<a, t>> \in server.rows}
        /\ server.current # 0 =>
             /\ server.current \in DOMAIN active
             /\ scan[server.current] =
                    server.points \cup {t \in 1..now : <<server.current, t>> \in server.rows}

\* What the tenant is to show of an aircraft.
Target(a) == [detail |-> active[a], trail |-> IF a \in seen THEN scan[a] ELSE {}]

\* What is not to be sent any more has been, or is in the buffer.
Brought ==
    /\ run = "trails" =>
         \A a \in seen : a \in DOMAIN buffer \/ tenant[a] = Target(a)
    /\ run \in {"rest", "flush"} =>
         \A a \in DOMAIN active : a \in todo \cup DOMAIN buffer \/ tenant[a] = Target(a)

IInv == Typed /\ Staged /\ ServerInv /\ TrailIsWhole /\ Brought

LEMMA TrailsInitial == Init => IInv
<1> SUFFICES ASSUME Init PROVE IInv
  OBVIOUS
<1>1. DOMAIN Nothing = {} /\ Cardinality({}) = 0
  BY FS_EmptySet DEF Nothing
<1> QED BY <1>1, TrailsAssumption
        DEF Init, IInv, Typed, TypeOK, Staged, ServerInv, TrailIsWhole, Brought, NoScan, Closed

-----------------------------------------------------------------------------
(* The scan. *)

\* A strict order has a minimal element in every finite set: of the sets of what
\* is below an element, one has no strict subset among them.
LEMMA Minimal ==
    ASSUME NEW S, IsFiniteSet(S), S # {}, NEW R,
           \A x \in S : <<x, x>> \notin R,
           \A x, y, z \in S : <<x, y>> \in R /\ <<y, z>> \in R => <<x, z>> \in R
    PROVE  \E m \in S : \A x \in S : <<x, m>> \notin R
<1> DEFINE below(x) == {y \in S : <<y, x>> \in R}
           belows == {below(x) : x \in S}
<1>1. belows \subseteq FiniteSubsetsOf(S) /\ belows # {}
  <2>1. \A x \in S : below(x) \in SUBSET S /\ IsFiniteSet(below(x))
    BY FS_Subset
  <2> HIDE DEF below
  <2> QED BY <2>1 DEF FiniteSubsetsOf
<1>2. \E b \in belows : \A c \in belows : <<c, b>> \notin StrictSubsetOrdering(S)
  <2> HIDE DEF belows
  <2>1. IsWellFoundedOn(StrictSubsetOrdering(S), FiniteSubsetsOf(S))
    BY FS_StrictSubsetOrderingWellFounded
  <2> QED BY <1>1, <2>1, WFMin
<1>3. PICK m \in S : \A x \in S : <<below(x), below(m)>> \notin StrictSubsetOrdering(S)
  <2>1. PICK b \in belows : \A c \in belows : <<c, b>> \notin StrictSubsetOrdering(S)
    BY <1>2
  <2>2. PICK m \in S : b = below(m)
    BY <2>1
  <2>3. \A x \in S : below(x) \in belows
    OBVIOUS
  <2> HIDE DEF below, belows
  <2> QED BY <2>1, <2>2, <2>3
<1>4. ASSUME NEW x \in S, <<x, m>> \in R PROVE FALSE
  <2>1. below(x) \subseteq below(m) /\ x \in below(m) /\ x \notin below(x)
    BY <1>4
  <2>2. below(x) \in SUBSET S /\ below(m) \in SUBSET S
    OBVIOUS
  <2>3. <<below(x), below(m)>> \in StrictSubsetOrdering(S)
    BY <2>1, <2>2 DEF StrictSubsetOrdering
  <2> QED BY <1>3, <2>3
<1> QED BY <1>4

\* ORDER BY has a first row.
LEMMA FirstIsFirst ==
    ASSUME NEW rows \in SUBSET (Nat \X Nat), rows # {}, IsFiniteSet(rows)
    PROVE  /\ First(rows) \in rows
           /\ \A q \in rows : First(rows)[1] <= q[1]
<1> DEFINE less == {p \in rows \X rows :
                      p[1][1] < p[2][1] \/ (p[1][1] = p[2][1] /\ p[1][2] < p[2][2])}
<1>1. \A r \in rows : r[1] \in Nat /\ r[2] \in Nat
  OBVIOUS
<1>2. PICK r \in rows : \A q \in rows : <<q, r>> \notin less
  <2>1. \A x \in rows : <<x, x>> \notin less
    BY <1>1
  <2>2. \A x, y, z \in rows : <<x, y>> \in less /\ <<y, z>> \in less => <<x, z>> \in less
    BY <1>1
  <2> HIDE DEF less
  <2>3. \E r \in rows : \A q \in rows : <<q, r>> \notin less
    BY <2>1, <2>2, Minimal, SMTT(30)
  <2> QED BY <2>3
<1>3. ASSUME NEW q \in rows PROVE r[1] < q[1] \/ (r[1] = q[1] /\ r[2] <= q[2])
  <2>1. ~ (q[1] < r[1] \/ (q[1] = r[1] /\ q[2] < r[2]))
    BY <1>2
  <2> QED BY <1>1, <2>1
<1>4. /\ First(rows) \in rows
      /\ \A q \in rows : First(rows)[1] < q[1] \/ (First(rows)[1] = q[1] /\ First(rows)[2] <= q[2])
  BY <1>3 DEF First
<1> QED BY <1>1, <1>4

LEMMA RowsTyped ==
    ASSUME Typed
    PROVE  /\ server.rows \in SUBSET (Nat \X Nat) /\ IsFiniteSet(server.rows)
           /\ \A r \in server.rows : r[1] \in Aircraft /\ r[2] \in 1..now /\ r = <<r[1], r[2]>>
<1>1. server.rows \subseteq Aircraft \X (1..now) /\ now \in Nat
  BY TrailsAssumption DEF Typed, TypeOK
<1>2. Aircraft \subseteq Nat /\ IsFiniteSet(Aircraft) /\ 1..now \subseteq Nat
  BY <1>1, TrailsAssumption
<1>3. IsFiniteSet(Aircraft \X (1..now))
  <2>1. IsFiniteSet(1..now)
    BY <1>1, FS_Interval
  <2> QED BY <1>2, <2>1, FS_Product
<1> QED BY <1>1, <1>2, <1>3, FS_Subset

LEMMA TrailTyped ==
    ASSUME Typed, NEW a \in Aircraft
    PROVE  Trail(a) \in SUBSET (1..now)
BY DEF Typed, TypeOK, Trail

-----------------------------------------------------------------------------
(* The world and the server. *)

LEMMA PollKeeps ==
    ASSUME IInv, Poll
    PROVE  IInv'
<1>1. /\ now \in Nat /\ now' = now + 1 /\ now' \in 0..MaxTime /\ 1..now \subseteq 1..now'
      /\ UNCHANGED <<tenant, run, todo, active, seen, buffer, server, wire, scan>>
  BY TrailsAssumption DEF IInv, Typed, TypeOK, Poll, runVars, apiVars
<1>2. lake' \in [Aircraft -> SUBSET (1..now')]
  BY <1>1 DEF IInv, Typed, TypeOK, Poll
<1>3. Typed'
  <2>1. tenant \in [Aircraft -> [detail : 0..now', trail : SUBSET (1..now')]]
    <3>1. 0..now \subseteq 0..now'
      BY <1>1
    <3> QED BY <1>1, <3>1 DEF IInv, Typed, TypeOK
  <2>2. \A a \in DOMAIN active : active[a] \in 1..now'
    BY <1>1 DEF IInv, Typed, TypeOK
  <2>3. server.rows \subseteq Aircraft \X (1..now')
    BY <1>1 DEF IInv, Typed, TypeOK
  <2>4. scan \in [Aircraft -> SUBSET (1..now')]
    BY <1>1 DEF IInv, Typed
  <2> QED BY <1>1, <1>2, <2>1, <2>2, <2>3, <2>4 DEF IInv, Typed, TypeOK
<1>4. ServerInv'
  <2>1. \A a : {t \in 1..now' : <<a, t>> \in server.rows} = {t \in 1..now : <<a, t>> \in server.rows}
    <3>1. server.rows \subseteq Aircraft \X (1..now)
      BY DEF IInv, Typed, TypeOK
    <3> QED BY <1>1, <3>1
  <2> QED BY <1>1, <2>1 DEF IInv, ServerInv
<1> QED BY <1>1, <1>3, <1>4 DEF IInv, Staged, TrailIsWhole, Brought, Target

LEMMA LineTyped ==
    ASSUME IInv, server.at = "open", server.current # 0
    PROVE  /\ Line \in [icao24 : Aircraft, points : SUBSET Nat]
           /\ Line.icao24 = server.current /\ Line.points = server.points
           /\ server.current \in DOMAIN active
           /\ (\A r \in server.rows : r[1] # server.current) =>
                  server.points = scan[server.current]
<1>1. /\ server.current \in DOMAIN active /\ server.current \in Aircraft
      /\ scan[server.current] =
             server.points \cup {t \in 1..now : <<server.current, t>> \in server.rows}
      /\ scan[server.current] \in SUBSET (1..now) /\ 1..now \subseteq Nat
  BY DEF IInv, ServerInv, Typed, TypeOK
<1>2. (\A r \in server.rows : r[1] # server.current) =>
          {t \in 1..now : <<server.current, t>> \in server.rows} = {}
  OBVIOUS
<1> QED BY <1>1, <1>2 DEF Line

\* A whole line more.
LEMMA LineSent ==
    ASSUME IInv, server.at = "open", server.current # 0,
           \A r \in server.rows : r[1] # server.current,
           wire' = Append(wire, Line), UNCHANGED <<scan, active, buffer, seen>>
    PROVE  /\ wire' \in Seq([icao24 : Aircraft, points : SUBSET Nat])
           /\ \A i \in 1..Len(wire') : wire'[i].icao24 \in DOMAIN active
           /\ TrailIsWhole'
<1>1. /\ wire \in Seq([icao24 : Aircraft, points : SUBSET Nat])
      /\ \A i \in 1..Len(wire) : /\ wire[i].icao24 \in DOMAIN active
                                 /\ wire[i].points = scan[wire[i].icao24]
  BY DEF IInv, Typed, TrailIsWhole
<1>2. /\ wire' \in Seq([icao24 : Aircraft, points : SUBSET Nat])
      /\ Len(wire') = Len(wire) + 1 /\ Len(wire) \in Nat
      /\ \A i \in 1..Len(wire) : wire'[i] = wire[i]
      /\ wire'[Len(wire) + 1] = Line
  BY <1>1, LineTyped
<1>3. \A i \in 1..Len(wire') : /\ wire'[i].icao24 \in DOMAIN active
                               /\ wire'[i].points = scan[wire'[i].icao24]
  <2> SUFFICES ASSUME NEW i \in 1..Len(wire')
               PROVE  /\ wire'[i].icao24 \in DOMAIN active
                      /\ wire'[i].points = scan[wire'[i].icao24]
    OBVIOUS
  <2>1. CASE i \in 1..Len(wire)
    BY <1>1, <1>2, <2>1
  <2>2. CASE i = Len(wire) + 1
    BY <1>2, <2>2, LineTyped
  <2> QED BY <1>2, <2>1, <2>2
<1> QED BY <1>2, <1>3 DEF IInv, TrailIsWhole

LEMMA ServeRowKeeps ==
    ASSUME IInv, ServeRow
    PROVE  IInv'
<1> DEFINE r == First(server.rows)
           c == server.current
<1>1. /\ server.at = "open" /\ server.rows # {}
      /\ UNCHANGED <<now, lake, tenant, run, todo, active, seen, buffer, scan>>
      /\ server' = [at |-> "open", rows |-> server.rows \ {r}, current |-> r[1],
                    points |-> IF r[1] = c THEN server.points \cup {r[2]} ELSE {r[2]}]
      /\ wire' = IF r[1] = c \/ c = 0 THEN wire ELSE Append(wire, Line)
  BY DEF ServeRow, runVars
<1>2. /\ r \in server.rows /\ r[1] \in Aircraft /\ r[2] \in 1..now /\ r = <<r[1], r[2]>>
      /\ r[1] \in DOMAIN active /\ r[1] \in Nat \ {0} /\ r[1] >= c
      /\ \A q \in server.rows : r[1] <= q[1] /\ q[1] \in DOMAIN active
  BY <1>1, RowsTyped, FirstIsFirst, TrailsAssumption DEF IInv, ServerInv
<1>3. c = 0 \/ (c \in Aircraft /\ c \in Nat)
  BY <1>1, TrailsAssumption DEF IInv, ServerInv, Typed, TypeOK
<1>4. ASSUME r[1] # c, c # 0 PROVE \A q \in server.rows : q[1] # c
  BY <1>2, <1>3, <1>4, RowsTyped, TrailsAssumption DEF IInv
<1>5. /\ wire' \in Seq([icao24 : Aircraft, points : SUBSET Nat])
      /\ \A i \in 1..Len(wire') : wire'[i].icao24 \in DOMAIN active
      /\ TrailIsWhole'
  <2>1. CASE r[1] = c \/ c = 0
    BY <1>1, <2>1 DEF IInv, Typed, TrailIsWhole
  <2>2. CASE r[1] # c /\ c # 0
    BY <1>1, <1>4, <2>2, LineSent
  <2> QED BY <2>1, <2>2
<1> HIDE DEF r
<1>6. /\ server'.at = "open" /\ server'.rows = server.rows \ {r} /\ server'.current = r[1]
      /\ server'.points = IF r[1] = c THEN server.points \cup {r[2]} ELSE {r[2]}
  BY <1>1
<1>7. Typed'
  BY <1>1, <1>5, <1>6 DEF IInv, Typed, TypeOK
<1>8. run = "trails"
  BY <1>1 DEF IInv, Staged, Closed
<1>9. ServerInv'
  <2>1. \A q \in server'.rows : q[1] \in DOMAIN active /\ q[1] >= r[1]
    BY <1>2, <1>6, RowsTyped, TrailsAssumption DEF IInv
  <2>2. ASSUME NEW a \in DOMAIN active, a > r[1]
        PROVE  scan[a] = {t \in 1..now : <<a, t>> \in server'.rows}
    <3>1. a \in Nat /\ a > c
      BY <1>2, <1>3, <2>2, TrailsAssumption DEF IInv, Typed, TypeOK
    <3>2. scan[a] = {t \in 1..now : <<a, t>> \in server.rows}
      BY <1>1, <3>1 DEF IInv, ServerInv
    <3>3. \A t : <<a, t>> # r
      BY <1>2, <2>2, <3>1
    <3> QED BY <1>6, <3>2, <3>3
  <2>3. scan[r[1]] = server'.points \cup {t \in 1..now : <<r[1], t>> \in server'.rows}
    <3> DEFINE left == {t \in 1..now : <<r[1], t>> \in server.rows}
    <3>1. {t \in 1..now : <<r[1], t>> \in server'.rows} = left \ {r[2]} /\ r[2] \in left
      BY <1>2, <1>6
    <3>2. CASE r[1] = c
      <4>1. scan[r[1]] = server.points \cup left
        BY <1>1, <1>2, <3>2 DEF IInv, ServerInv
      <4> QED BY <1>6, <3>1, <3>2, <4>1
    <3>3. CASE r[1] # c
      <4>1. r[1] > c
        BY <1>2, <1>3, <3>3
      <4>2. scan[r[1]] = left
        BY <1>1, <1>2, <4>1 DEF IInv, ServerInv
      <4> QED BY <1>6, <3>1, <3>3, <4>2
    <3> QED BY <3>2, <3>3
  <2> QED BY <1>1, <1>2, <1>6, <2>1, <2>2, <2>3 DEF ServerInv
<1>10. Staged' /\ Brought'
  BY <1>1, <1>8 DEF IInv, Staged, Brought, Target
<1> QED BY <1>5, <1>7, <1>9, <1>10 DEF IInv

\* The server ends its answer, or breaks off.
LEMMA ServerEndKeeps ==
    ASSUME IInv, ServeEnd \/ Break
    PROVE  IInv'
<1>1. /\ server.at = "open" /\ server'.at \in {"ended", "broken"} /\ server'.rows = {}
      /\ UNCHANGED <<now, lake, tenant, run, todo, active, seen, buffer, scan>>
  BY DEF ServeEnd, Break, Closed, runVars
<1>2. /\ wire' \in Seq([icao24 : Aircraft, points : SUBSET Nat])
      /\ \A i \in 1..Len(wire') : wire'[i].icao24 \in DOMAIN active
      /\ TrailIsWhole'
  <2>1. CASE wire' = wire
    BY <1>1, <2>1 DEF IInv, Typed, TrailIsWhole
  <2>2. CASE wire' # wire
    <3>1. server.rows = {} /\ server.current # 0 /\ wire' = Append(wire, Line)
      BY <2>2 DEF ServeEnd, Break
    <3> QED BY <1>1, <3>1, LineSent
  <2> QED BY <2>1, <2>2
<1>3. Typed'
  BY <1>1, <1>2 DEF IInv, Typed, TypeOK
<1>4. run = "trails"
  BY <1>1 DEF IInv, Staged, Closed
<1>5. Staged' /\ Brought' /\ ServerInv'
  BY <1>1, <1>4 DEF IInv, Staged, Brought, Target, ServerInv
<1> QED BY <1>2, <1>3, <1>5 DEF IInv

-----------------------------------------------------------------------------
(* The run. *)

LEMMA NothingIsEmpty == DOMAIN Nothing = {} /\ Cardinality(DOMAIN Nothing) = 0
BY FS_EmptySet DEF Nothing

LEMMA BufferFinite ==
    ASSUME Typed
    PROVE  /\ IsFiniteSet(DOMAIN buffer) /\ Cardinality(DOMAIN buffer) \in Nat
           /\ \A a : Cardinality(DOMAIN buffer \cup {a}) <= Cardinality(DOMAIN buffer) + 1
<1>1. IsFiniteSet(DOMAIN buffer)
  BY TrailsAssumption, FS_Subset DEF Typed, TypeOK
<1>2. Cardinality(DOMAIN buffer) \in Nat
  BY <1>1, FS_CardinalityType
<1> QED BY <1>1, <1>2, FS_AddElement

LEMMA BeginKeeps ==
    ASSUME IInv, Begin
    PROVE  IInv'
<1>1. /\ run = "idle" /\ run' = "details" /\ todo' = Aircraft
      /\ UNCHANGED <<now, lake, tenant, active, seen, buffer, server, wire, scan>>
  BY DEF Begin, apiVars
<1>2. Typed' /\ ServerInv'
  BY <1>1 DEF IInv, Typed, TypeOK, ServerInv
<1> QED BY <1>1, <1>2 DEF IInv, Staged, TrailIsWhole, Brought

LEMMA DetailKeeps ==
    ASSUME IInv, NEW a \in Aircraft, FetchDetail(a) \/ DetailFails(a)
    PROVE  IInv'
<1>1. /\ run = "details" /\ run' = "details" /\ todo' = todo \ {a}
      /\ UNCHANGED <<now, lake, tenant, seen, buffer, server, wire, scan>>
  BY DEF FetchDetail, DetailFails, apiVars
<1>2. server = Closed /\ seen = {} /\ buffer = Nothing /\ wire = <<>>
  BY <1>1 DEF IInv, Staged
<1>3. /\ DOMAIN active' \subseteq Aircraft /\ \A b \in DOMAIN active' : active'[b] \in 1..now
      /\ DOMAIN active \subseteq DOMAIN active'
  <2>1. CASE active' = active
    BY <2>1 DEF IInv, Typed, TypeOK
  <2>2. CASE active' # active
    <3>1. active' = Put(active, a, now) /\ Flying(a)
      BY <2>2 DEF FetchDetail, DetailFails
    <3>2. now \in 1..now
      BY <3>1 DEF Flying, IInv, Typed, TypeOK
    <3>3. DOMAIN active' = DOMAIN active \cup {a} /\ active'[a] = now
          /\ \A b \in DOMAIN active \ {a} : active'[b] = active[b]
      BY <3>1 DEF Put
    <3> QED BY <3>2, <3>3 DEF IInv, Typed, TypeOK
  <2> QED BY <2>1, <2>2
<1>4. Typed'
  BY <1>1, <1>2, <1>3, NothingIsEmpty DEF IInv, Typed, TypeOK
<1>5. Staged' /\ TrailIsWhole' /\ Brought' /\ ServerInv'
  BY <1>1, <1>2 DEF IInv, Staged, TrailIsWhole, Brought, ServerInv, Closed
<1> QED BY <1>4, <1>5 DEF IInv

\* The run goes on to the rest of the aircraft, from wherever it stands.
LEMMA RestKeeps ==
    ASSUME IInv, Rest, run \in {"details", "trails"}, run = "details" => active = Nothing,
           UNCHANGED <<now, lake, tenant, active, seen, buffer, scan>>
    PROVE  IInv'
<1>1. /\ run' = "rest" /\ todo' = DOMAIN active \ seen /\ server' = Closed /\ wire' = <<>>
  BY DEF Rest
<1>2. wire' \in Seq([icao24 : Aircraft, points : SUBSET Nat]) /\ Len(wire') = 0
  BY <1>1
<1>3. Typed'
  BY <1>1, <1>2 DEF IInv, Typed, TypeOK, Closed
<1>4. Staged'
  BY <1>1 DEF IInv, Staged
<1>5. TrailIsWhole' /\ ServerInv'
  BY <1>1, <1>2 DEF IInv, TrailIsWhole, ServerInv, Closed
<1>6. Brought'
  <2>1. run = "details" => DOMAIN active = {}
    BY NothingIsEmpty
  <2> QED BY <1>1, <2>1 DEF IInv, Brought, Target
<1> QED BY <1>3, <1>4, <1>5, <1>6 DEF IInv

LEMMA AskKeeps ==
    ASSUME IInv, AskTrails
    PROVE  IInv'
<1>1. run = "details" /\ UNCHANGED <<now, lake, tenant, active, seen, buffer>>
  BY DEF AskTrails
<1>2. CASE active = Nothing
  BY <1>1, <1>2, RestKeeps DEF AskTrails
<1>3. CASE active # Nothing
  <2>1. /\ run' = "trails" /\ UNCHANGED <<todo, wire>>
        /\ scan' = [a \in Aircraft |-> IF a \in DOMAIN active THEN Trail(a) ELSE {}]
        /\ server' = [Closed EXCEPT !.at = "open",
                        !.rows = UNION {{a} \X Trail(a) : a \in DOMAIN active}]
    BY <1>3 DEF AskTrails
  <2>2. server = Closed /\ seen = {} /\ buffer = Nothing /\ wire = <<>>
    BY <1>1 DEF IInv, Staged
  <2>3. /\ server'.at = "open" /\ server'.current = 0 /\ server'.points = {}
        /\ server'.rows = UNION {{a} \X Trail(a) : a \in DOMAIN active}
    BY <2>1 DEF Closed
  <2>4. DOMAIN active \subseteq Aircraft /\ \A a \in DOMAIN active : Trail(a) \in SUBSET (1..now)
    BY TrailTyped DEF IInv, Typed, TypeOK
  <2>5. /\ \A r \in server'.rows : r[1] \in DOMAIN active
        /\ server'.rows \subseteq Aircraft \X (1..now)
        /\ \A a \in DOMAIN active : {t \in 1..now : <<a, t>> \in server'.rows} = Trail(a)
    BY <2>3, <2>4
  <2>6. scan' \in [Aircraft -> SUBSET (1..now)] /\ \A a \in DOMAIN active : scan'[a] = Trail(a)
    BY <2>1, <2>4
  <2>7. Typed'
    BY <1>1, <2>1, <2>2, <2>3, <2>5, <2>6 DEF IInv, Typed, TypeOK
  <2>8. ServerInv'
    <3>1. ASSUME NEW r \in server'.rows PROVE r[1] \in DOMAIN active /\ r[1] >= 0
      <4>1. r[1] \in Nat
        BY <2>4, <2>5, TrailsAssumption
      <4> QED BY <2>5, <4>1
    <3> QED BY <1>1, <2>3, <2>5, <2>6, <3>1 DEF ServerInv
  <2>9. Staged' /\ TrailIsWhole' /\ Brought'
    BY <1>1, <2>1, <2>2, NothingIsEmpty DEF IInv, Staged, TrailIsWhole, Brought
  <2> QED BY <2>7, <2>8, <2>9 DEF IInv
<1> QED BY <1>2, <1>3

LEMMA ReceiveKeeps ==
    ASSUME IInv, Receive
    PROVE  IInv'
<1> DEFINE line == Head(wire)
           a == line.icao24
<1>1. /\ run = "trails" /\ Cardinality(DOMAIN buffer) < _ENRICHMENT_CHUNK /\ wire # <<>>
      /\ buffer' = Put(buffer, a, line.points) /\ seen' = seen \cup {a} /\ wire' = Tail(wire)
      /\ UNCHANGED <<now, lake, tenant, run, todo, active, server, scan>>
  <2>1. Cardinality(DOMAIN buffer) < _ENRICHMENT_CHUNK
    BY BufferFinite, TrailsAssumption DEF Receive, Full, IInv
  <2> QED BY <2>1 DEF Receive
<1>2. /\ wire \in Seq([icao24 : Aircraft, points : SUBSET Nat])
      /\ line \in [icao24 : Aircraft, points : SUBSET Nat] /\ line = wire[1]
      /\ wire' \in Seq([icao24 : Aircraft, points : SUBSET Nat])
      /\ Len(wire) \in Nat /\ Len(wire) >= 1 /\ Len(wire') = Len(wire) - 1
      /\ \A i \in 1..Len(wire') : wire'[i] = wire[i + 1]
  <2>1. wire \in Seq([icao24 : Aircraft, points : SUBSET Nat]) /\ wire # <<>>
    BY <1>1 DEF IInv, Typed
  <2>2. /\ Len(wire) \in Nat /\ Len(wire) >= 1 /\ Head(wire) = wire[1]
    BY <2>1
  <2>3. /\ line \in [icao24 : Aircraft, points : SUBSET Nat]
        /\ wire' \in Seq([icao24 : Aircraft, points : SUBSET Nat])
        /\ Len(wire') = Len(wire) - 1
        /\ \A i \in 1..Len(wire') : wire'[i] = wire[i + 1]
    <3> DEFINE Lines == [icao24 : Aircraft, points : SUBSET Nat]
    <3>1. wire \in Seq(Lines)
      BY <2>1
    <3> HIDE DEF Lines
    <3>2. /\ Head(wire) \in Lines /\ Tail(wire) \in Seq(Lines)
          /\ Len(Tail(wire)) = Len(wire) - 1
          /\ \A i \in 1..Len(Tail(wire)) : Tail(wire)[i] = wire[i + 1]
      BY <2>1, <3>1, HeadTailProperties
    <3> QED BY <1>1, <3>2 DEF Lines
  <2> QED BY <2>1, <2>2, <2>3
<1>3. a \in DOMAIN active /\ a \in Aircraft /\ line.points = scan[a]
  BY <1>2 DEF IInv, Typed, TrailIsWhole
<1> HIDE DEF a, line
<1>4. /\ DOMAIN buffer' = DOMAIN buffer \cup {a} /\ buffer'[a] = scan[a]
      /\ \A b \in DOMAIN buffer \ {a} : buffer'[b] = buffer[b]
  BY <1>1, <1>3 DEF Put
<1>5. Cardinality(DOMAIN buffer') <= _ENRICHMENT_CHUNK
      /\ Cardinality(DOMAIN buffer') <= _ENRICHMENT_CHUNK + 1
  <2>1. /\ Cardinality(DOMAIN buffer) \in Nat
        /\ Cardinality(DOMAIN buffer') <= Cardinality(DOMAIN buffer) + 1
        /\ Cardinality(DOMAIN buffer') \in Nat
    <3>1. IsFiniteSet(DOMAIN buffer')
      BY <1>4, BufferFinite, FS_AddElement DEF IInv
    <3> QED BY <1>4, <3>1, BufferFinite, FS_CardinalityType DEF IInv
  <2> QED BY <1>1, <2>1, TrailsAssumption
<1>6. Typed'
  <2>1. \A i \in 1..Len(wire') : wire'[i].icao24 \in DOMAIN active
    <3>1. \A i \in 1..Len(wire') : i + 1 \in 1..Len(wire)
      BY <1>2
    <3> QED BY <1>2, <3>1 DEF IInv, Typed
  <2> QED BY <1>1, <1>2, <1>3, <1>4, <1>5, <2>1 DEF IInv, Typed, TypeOK
<1>7. Staged'
  BY <1>1, <1>4, <1>5 DEF IInv, Staged
<1>8. TrailIsWhole'
  <2>1. ASSUME NEW i \in 1..Len(wire') PROVE wire'[i].points = scan[wire'[i].icao24]
    <3>1. i + 1 \in 1..Len(wire)
      BY <1>2
    <3> QED BY <1>2, <3>1 DEF IInv, TrailIsWhole
  <2>2. \A b \in DOMAIN buffer' : buffer'[b] = IF b \in seen' THEN scan[b] ELSE {}
    BY <1>1, <1>4 DEF IInv, TrailIsWhole
  <2> QED BY <1>1, <2>1, <2>2 DEF TrailIsWhole
<1>9. ServerInv'
  BY <1>1 DEF IInv, ServerInv
<1>10. Brought'
  BY <1>1, <1>4 DEF IInv, Brought, Target
<1> QED BY <1>6, <1>7, <1>8, <1>9, <1>10 DEF IInv

LEMMA WithoutKeeps ==
    ASSUME IInv, NEW a \in Aircraft, WithoutTrail(a)
    PROVE  IInv'
<1>1. /\ run = "rest" /\ a \in todo /\ todo' = todo \ {a} /\ buffer' = Put(buffer, a, {})
      /\ run' = IF Cardinality(DOMAIN buffer') >= _ENRICHMENT_CHUNK THEN "flush" ELSE "rest"
      /\ UNCHANGED <<now, lake, tenant, active, seen, server, wire, scan>>
  BY DEF WithoutTrail, apiVars
<1>2. /\ DOMAIN buffer' = DOMAIN buffer \cup {a} /\ buffer'[a] = {}
      /\ \A b \in DOMAIN buffer \ {a} : buffer'[b] = buffer[b]
  BY <1>1 DEF Put
<1>3. a \in DOMAIN active /\ a \notin seen
  BY <1>1 DEF IInv, Staged
<1>4. /\ Cardinality(DOMAIN buffer') <= _ENRICHMENT_CHUNK + 1
      /\ run' # "flush" => Cardinality(DOMAIN buffer') <= _ENRICHMENT_CHUNK
  <2>1. /\ Cardinality(DOMAIN buffer) \in Nat
        /\ Cardinality(DOMAIN buffer') <= Cardinality(DOMAIN buffer) + 1
        /\ Cardinality(DOMAIN buffer') \in Nat
    <3>1. IsFiniteSet(DOMAIN buffer')
      BY <1>2, BufferFinite, FS_AddElement DEF IInv
    <3> QED BY <1>2, <3>1, BufferFinite, FS_CardinalityType DEF IInv
  <2>2. Cardinality(DOMAIN buffer) <= _ENRICHMENT_CHUNK
    BY <1>1 DEF IInv, Staged
  <2> QED BY <1>1, <2>1, <2>2, TrailsAssumption
<1>5. Typed'
  BY <1>1, <1>2, <1>3, <1>4 DEF IInv, Typed, TypeOK
<1>6. Staged'
  BY <1>1, <1>4 DEF IInv, Staged
<1>7. TrailIsWhole'
  BY <1>1, <1>2, <1>3 DEF IInv, TrailIsWhole
<1>8. ServerInv' /\ Brought'
  BY <1>1, <1>2 DEF IInv, ServerInv, Brought, Target
<1> QED BY <1>5, <1>6, <1>7, <1>8 DEF IInv

LEMMA FlushKeeps ==
    ASSUME IInv, Flush
    PROVE  IInv'
<1>1. /\ run \in {"trails", "flush", "rest"} /\ buffer' = Nothing
      /\ tenant' = [a \in Aircraft |-> IF a \in DOMAIN buffer THEN Enriched(a) ELSE tenant[a]]
      /\ run' = IF run = "flush" THEN "rest" ELSE run
      /\ UNCHANGED <<now, lake, todo, active, seen, server, wire, scan>>
  BY DEF Flush, apiVars
<1>2. \A a \in DOMAIN buffer : Enriched(a) = Target(a) /\ a \in Aircraft /\ a \in DOMAIN active
  BY DEF Enriched, Target, IInv, TrailIsWhole, Typed, TypeOK
<1>3. \A a \in DOMAIN active : Target(a) \in [detail : 0..now, trail : SUBSET (1..now)]
  BY DEF Target, IInv, Typed, TypeOK
<1>4. Typed'
  <2>1. tenant' \in [Aircraft -> [detail : 0..now, trail : SUBSET (1..now)]]
    BY <1>1, <1>2, <1>3 DEF IInv, Typed, TypeOK
  <2>2. Cardinality(DOMAIN buffer') <= _ENRICHMENT_CHUNK + 1 /\ DOMAIN buffer' = {}
    BY <1>1, NothingIsEmpty, TrailsAssumption
  <2> QED BY <1>1, <2>1, <2>2 DEF IInv, Typed, TypeOK
<1>5. Staged'
  BY <1>1, NothingIsEmpty, TrailsAssumption DEF IInv, Staged
<1>6. TrailIsWhole' /\ ServerInv'
  BY <1>1, NothingIsEmpty DEF IInv, TrailIsWhole, ServerInv
<1>7. Brought'
  <2>1. ASSUME NEW a \in DOMAIN active, a \in DOMAIN buffer \/ tenant[a] = Target(a)
        PROVE  tenant'[a] = Target(a)' /\ a \in Aircraft
    BY <1>1, <1>2, <2>1 DEF Target, IInv, Typed, TypeOK
  <2>2. seen \subseteq DOMAIN active
    BY DEF IInv, Typed
  <2> QED BY <1>1, <2>1, <2>2 DEF IInv, Brought
<1> QED BY <1>4, <1>5, <1>6, <1>7 DEF IInv

LEMMA EndRunKeeps ==
    ASSUME IInv, EndRun
    PROVE  IInv'
<1>1. /\ run' = "idle" /\ todo' = {} /\ active' = Nothing /\ seen' = {} /\ buffer' = Nothing
      /\ server' = Closed /\ wire' = <<>> /\ scan' = NoScan
      /\ UNCHANGED <<now, lake, tenant>>
  BY DEF EndRun
<1> QED BY <1>1, NothingIsEmpty, TrailsAssumption
        DEF IInv, Typed, TypeOK, Staged, ServerInv, TrailIsWhole, Brought, Closed, NoScan

LEMMA TrailsStep ==
    ASSUME IInv, [Next]_vars
    PROVE  IInv'
<1>1. CASE Poll
  BY <1>1, PollKeeps
<1>2. CASE ServerStep
  BY <1>2, ServeRowKeeps, ServerEndKeeps DEF ServerStep
<1>3. CASE RunStep
  <2>1. CASE EndTrails
    BY <2>1, RestKeeps DEF EndTrails
  <2>2. CASE Finish
    BY <2>2, EndRunKeeps DEF Finish
  <2> QED BY <1>3, <2>1, <2>2, BeginKeeps, AskKeeps, ReceiveKeeps, FlushKeeps,
             DetailKeeps, WithoutKeeps DEF RunStep
<1>4. CASE Fault
  <2>1. CASE Cut \/ FlushFails
    BY <2>1, RestKeeps DEF Cut, FlushFails
  <2>2. CASE Fail
    BY <2>2, EndRunKeeps DEF Fail
  <2> QED BY <1>4, <2>1, <2>2, ServerEndKeeps, DetailKeeps DEF Fault
<1>5. CASE UNCHANGED vars
  BY <1>5 DEF vars, runVars, apiVars, IInv, Typed, TypeOK, Staged, ServerInv, TrailIsWhole,
              Brought, Target
<1> QED BY <1>1, <1>2, <1>3, <1>4, <1>5 DEF Next

-----------------------------------------------------------------------------
(* What follows. *)

LEMMA TrailsInvariant == Spec => []IInv
<1>1. IInv /\ [Next]_vars => IInv'
  BY TrailsStep
<1> QED BY TrailsInitial, <1>1, PTL DEF Spec

\* The types of the run, the server and the tenant; the buffer stays within one
\* place of a chunk (enriched_sync_flights).
THEOREM TypeCorrect == Spec => []TypeOK
<1>1. IInv => TypeOK
  BY DEF IInv, Typed
<1> QED BY TrailsInvariant, <1>1, PTL

\* Wherever the stream breaks off, no part of a trail is sent for the trail, by
\* the API or by the run (get_flight_trails_batch, enriched_sync_flights).
THEOREM Whole == Spec => []TrailIsWhole
<1>1. IInv => TrailIsWhole
  BY DEF IInv
<1> QED BY TrailsInvariant, <1>1, PTL

\* A run that ends well has brought every aircraft that flies, with the trail if
\* that came, through failed flushes and broken streams (enriched_sync_flights).
THEOREM Finished == Spec => FinishedIsEnriched
<1>1. IInv /\ Finish =>
        \A a \in DOMAIN active :
            tenant[a] = [detail |-> active[a], trail |-> IF a \in seen THEN scan[a] ELSE {}]
  BY NothingIsEmpty DEF IInv, Brought, Target, Finish
<1> QED BY TrailsInvariant, <1>1, PTL DEF FinishedIsEnriched
=============================================================================
