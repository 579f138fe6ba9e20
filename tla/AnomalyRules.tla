---------------------------- MODULE AnomalyRules ----------------------------
(***************************************************************************)
(* The rules of the case detector (pipelines/rules): pure functions of the *)
(* rows an aircraft left in the window the detector reads, of its flight   *)
(* plan and of the weather at the watched airports. Feet, nautical miles,  *)
(* degrees and minutes are whole numbers.                                  *)
(*                                                                         *)
(* A row is a report with the time of its poll, ts. A report says how far  *)
(* the aircraft is from each watched airport (away), its altitude, its     *)
(* vertical rate and its heading, each a number or NULL, whether it is on  *)
(* the ground, its customer region, NULL when it is in none, whether its   *)
(* callsign is one of general aviation (ga), and whether its cell is one   *)
(* of sparse coverage.                                                     *)
(***************************************************************************)
EXTENDS Integers, FiniteSets

CONSTANTS
    NULL,           \* Python None
    Watched,        \* watched airports, as numbers: in the order of their codes
    Nominal         \* <<origin, destination>> |-> minutes, of known airports

ASSUME RulesAssumption ==
    /\ Watched \subseteq Nat /\ IsFiniteSet(Watched) /\ Watched # {}
    /\ NULL \notin Int /\ NULL \notin {"LIFR", "IFR", "MVFR", "VFR"}

-----------------------------------------------------------------------------
(* Rows. *)

Latest(rows) == CHOOSE r \in rows : \A q \in rows : q.ts <= r.ts

\* The nearest watched airport. Of two as near argmin takes the first it is
\* given, in the order of a query that has none: here the first by code.
NearestSite(r) ==
    CHOOSE s \in Watched :
        \A t \in Watched : r.away[s] < r.away[t] \/ (r.away[s] = r.away[t] /\ s <= t)

Distance(r) == r.away[NearestSite(r)]

Near(rows, radius) == {r \in rows : Distance(r) <= radius /\ ~r.ground}

At(rows, site) == Cardinality({r \in rows : NearestSite(r) = site})

\* The airport most rows are nearest to, the first of them in a tie.
ModeSite(rows) ==
    CHOOSE s \in Watched :
        \A t \in Watched : At(rows, s) > At(rows, t) \/ (At(rows, s) = At(rows, t) /\ s <= t)

\* What the detector makes a Case of. "event" tells occurrences of one key
\* apart: when the low point was polled, when the aircraft was last heard of.
Anomaly(rule, about, site, facts, severity, event) ==
    [rule |-> rule, about |-> about, site |-> site, facts |-> facts,
     severity |-> severity, event |-> event]

\* Rule.dedup_key and the three that override it.
DedupKey(x) ==
    IF x.rule \in {"diversion", "delay"} THEN <<x.rule, x.about, x.facts>>
    ELSE IF x.rule = "weather_impact" THEN <<x.rule, x.site, x.facts>>
    ELSE <<x.rule, x.about, x.site>>

\* Mutant: a go-around is forgotten while its rows are still read.
BugDedupWindow ==
    [lost_signal |-> 360, diversion |-> 1440, excessive_hold |-> 30,
     weather_impact |-> 60, go_around |-> 5, delay |-> 240]

\* dedup_window of each rule.
DedupWindow ==
    [lost_signal |-> 360, diversion |-> 1440, excessive_hold |-> 30,
     weather_impact |-> 60, go_around |-> 30, delay |-> 240]

-----------------------------------------------------------------------------
(* go_around *)

\* The first of the lowest.
LowPoint(rows) ==
    CHOOSE r \in rows :
        \A q \in rows : r.alt < q.alt \/ (r.alt = q.alt /\ r.ts <= q.ts)

\* Mutant: no descent before the low point is asked for, as in a departure.
BugIsValley(known, low) ==
    /\ low.alt <= 3000
    /\ \E r \in known : r.ts > low.ts /\ r.alt - low.alt >= 1000

IsValley(known, low) ==
    /\ low.alt <= 3000
    /\ \E r \in known : r.ts < low.ts /\ r.alt - low.alt >= 1000
    /\ \E r \in known : r.ts > low.ts /\ r.alt - low.alt >= 1000

GoAround(a, rows) ==
    LET near == Near(rows, 10)
        known == {r \in near : r.alt # NULL}
    IN  IF /\ Cardinality(near) >= 3
           /\ known # {}
           /\ IsValley(known, LowPoint(known))
           /\ ~Latest(near).ga
          THEN {Anomaly("go_around", a, ModeSite(near), <<>>, "medium", LowPoint(known).ts)}
          ELSE {}

-----------------------------------------------------------------------------
(* excessive_hold *)

\* _distinct_heading_sectors
Sectors(rows) == {(r.heading % 360) \div 45 : r \in {q \in rows : q.heading # NULL}}

Span(rows) == Latest(rows).ts - (CHOOSE r \in rows : \A q \in rows : r.ts <= q.ts).ts

ExcessiveHold(a, rows) ==
    LET near == {r \in Near(rows, 15) : r.alt # NULL /\ r.alt <= 15000}
    IN  IF /\ Cardinality(near) >= 10
           /\ Span(near) >= 30
           /\ Cardinality(Sectors(near)) >= 6
           /\ ~Latest(near).ga
          THEN {Anomaly("excessive_hold", a, ModeSite(near), <<>>, "medium", NULL)}
          ELSE {}

-----------------------------------------------------------------------------
(* lost_signal *)

Tiers == <<"low", "medium", "high">>

\* _shift_tier
Shift(tier, delta) ==
    IF tier + delta < 1 THEN 1 ELSE IF tier + delta > 3 THEN 3 ELSE tier + delta

\* _classify_severity: lower is worse, sparse coverage demotes, a long gap promotes.
SeverityTier(alt, gap, sparse) ==
    LET base == IF alt < 30000 THEN 3 ELSE IF alt < 35000 THEN 2 ELSE 1
        local == IF sparse THEN Shift(base, -1) ELSE base
    IN  IF gap >= 20 THEN Shift(local, 1) ELSE local

\* Mutant: silence is measured against the rows in scope only.
BugSilence(heard, last, now) == now - last.ts

\* How long the aircraft has not been heard, in scope or out of it (feed_last_ts).
Silence(heard, last, now) == now - heard

LostSignal(a, rows, heard, now) ==
    LET last == Latest(rows)
        gap == Silence(heard, last, now)
        tier == SeverityTier(last.alt, gap, last.sparse)
    IN  IF /\ ~last.ground
           /\ last.alt # NULL /\ last.alt >= 25000
           /\ gap \in 14..30
           /\ last.rate = NULL \/ last.rate \in -500..500
           /\ tier > 1
          THEN {Anomaly("lost_signal", a, NearestSite(last), <<>>, Tiers[tier], heard)}
          ELSE {}

-----------------------------------------------------------------------------
(* What noaa_weather makes of a report (METAR): its cloud layers, each with *)
(* a cover and a base in feet, and the visibility in miles or NULL.        *)

\* CEILING_COVERS: FEW and SCT are none.
CeilingCovers == {"BKN", "OVC", "OVX", "VV"}

\* Mutant: every layer counts.
BugCeiling(clouds) ==
    IF clouds = {} THEN NULL
    ELSE CHOOSE b \in {l.base : l \in clouds} : \A l \in clouds : b <= l.base

\* _extract_ceiling_ft
Ceiling(clouds) ==
    LET bases == {l.base : l \in {k \in clouds : k.cover \in CeilingCovers}}
    IN  IF bases = {} THEN NULL ELSE CHOOSE b \in bases : \A c \in bases : b <= c

Worst == <<"LIFR", "IFR", "MVFR", "VFR">>

CeilingRank(ft) ==
    IF ft = NULL THEN 4 ELSE IF ft < 500 THEN 1 ELSE IF ft < 1000 THEN 2
    ELSE IF ft < 3000 THEN 3 ELSE 4

VisibilityRank(sm) ==
    IF sm = NULL THEN 4 ELSE IF sm < 1 THEN 1 ELSE IF sm < 3 THEN 2
    ELSE IF sm <= 5 THEN 3 ELSE 4

\* _compute_flight_category: the worse of the two; none when both are missing.
FlightCategory(metar) ==
    LET c == CeilingRank(Ceiling(metar.clouds))
        v == VisibilityRank(metar.visibility)
    IN  IF Ceiling(metar.clouds) = NULL /\ metar.visibility = NULL THEN NULL
        ELSE Worst[IF c < v THEN c ELSE v]

-----------------------------------------------------------------------------
(* diversion, delay, weather_impact *)

Diversion(a, rows, plan) ==
    LET last == Latest(rows)
    IN  IF /\ plan # NULL /\ plan.destination # NULL
           /\ last.ground
           /\ Distance(last) <= 5
           /\ NearestSite(last) # plan.destination
          THEN {Anomaly("diversion", a, NearestSite(last),
                        <<plan.destination, NearestSite(last)>>, "high", NULL)}
          ELSE {}

\* expected_duration: none for an airport that is not known, or a round trip.
ExpectedDuration(origin, destination) ==
    IF origin = destination \/ <<origin, destination>> \notin DOMAIN Nominal
      THEN NULL
      ELSE Nominal[<<origin, destination>>]

\* DELAY_FACTOR is 1.3.
Delay(a, rows, plan, now) ==
    LET expected == ExpectedDuration(plan.origin, plan.destination)
    IN  IF /\ plan # NULL /\ ~Latest(rows).ground
           /\ NULL \notin {plan.origin, plan.destination, plan.departure}
           /\ expected # NULL
           /\ 10 * (now - plan.departure) > 13 * expected
          THEN {Anomaly("delay", a, plan.destination, <<plan.destination>>, "medium", NULL)}
          ELSE {}

\* sky has the latest report of each watched airport.
WeatherImpact(sky) ==
    {Anomaly("weather_impact", NULL, s, <<FlightCategory(sky[s])>>,
             IF FlightCategory(sky[s]) = "LIFR" THEN "high" ELSE "medium", NULL) :
        s \in {t \in Watched : FlightCategory(sky[t]) \in {"IFR", "LIFR"}}}

\* The rules about one aircraft with rows in scope (ALL_RULE_CLASSES).
Anomalies(a, rows, heard, plan, now) ==
    LostSignal(a, rows, heard, now) \cup Diversion(a, rows, plan) \cup ExcessiveHold(a, rows)
        \cup GoAround(a, rows) \cup Delay(a, rows, plan, now)
=============================================================================
