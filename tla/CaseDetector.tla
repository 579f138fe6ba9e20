---------------------------- MODULE CaseDetector ----------------------------
(***************************************************************************)
(* case_detector (pipelines/assets/detection.py) over the position         *)
(* snapshots in the lakehouse (opensky_positions, read_recent_positions),  *)
(* with the rules of AnomalyRules and their deduplication.                 *)
(*                                                                         *)
(* A run reads the window of rows, runs the rules, reads the open cases,   *)
(* drops what one of them stands for already, and inserts the rest one     *)
(* transaction at a time. Meanwhile snapshots arrive, runs overlap and die *)
(* and Salesforce closes cases.                                            *)
(***************************************************************************)
EXTENDS AnomalyRules

CONSTANTS
    Aircraft,       \* icao24
    Runs,           \* detector runs that can be under way at once
    Scenes,         \* the worlds to look at: what aircraft report, the flight
                    \* plan of all, the weather, the runs there are, how
                    \* many cases are closed (a bound) and whether runs die
    Cadence,        \* minutes between polls (OPENSKY_POLL_INTERVAL_SECONDS)
    MaxTime         \* bound on the clock

ASSUME DetectorAssumption ==
    /\ NULL \notin Aircraft
    /\ Cadence \in Nat \ {0} /\ MaxTime \in Nat
    /\ \A s \in Scenes :
         /\ \A q \in s.reports : q.alt \in Int \cup {NULL}
         /\ \A m \in s.skies : /\ IsFiniteSet(m.clouds) /\ \A l \in m.clouds : l.base \in Int
                              /\ m.visibility \in Int \cup {NULL}

VARIABLES
    scene,      \* the world: it stays
    clock,      \* minutes
    feed,       \* per aircraft, the rows of the lakehouse in the window of a run
    traffic,    \* when a poll last saw another aircraft in scope
    sky,        \* app.airport_conditions: the report of each watched airport
    cases,      \* app.cases
    pc,         \* where each run stands
    found,      \* the anomalies of the rules, then those left to insert
    asOf,       \* the "now" of the run: the newest row in scope
    known       \* history: the open cases when the run read them

envVars == <<scene, clock, feed, traffic, sky>>
runVars == <<pc, found, asOf, known>>
vars == <<envVars, cases, runVars>>

LOOKBACK_MINUTES == 30

Init ==
    /\ scene \in Scenes
    /\ clock = 0
    /\ feed = [a \in Aircraft |-> {}]
    /\ traffic = NULL
    /\ sky \in [Watched -> scene.skies]
    /\ cases = {}
    /\ pc = [r \in Runs |-> "idle"]
    /\ found = [r \in Runs |-> {}]
    /\ asOf = [r \in Runs |-> NULL]
    /\ known = [r \in Runs |-> {}]

-----------------------------------------------------------------------------
(* The world. *)

\* read_recent_positions
Fresh(rows, t) == {r \in rows : r.ts >= t - LOOKBACK_MINUTES}

\* What an aircraft reports, with the time of its poll.
Row(report, t) ==
    [away |-> report.away, alt |-> report.alt, rate |-> report.rate,
     heading |-> report.heading, ground |-> report.ground, region |-> report.region,
     ga |-> report.ga, sparse |-> report.sparse, ts |-> t]

\* One cycle of opensky_positions: every aircraft it sees leaves a row, in
\* scope or not; the poll may see none, or fail.
Poll ==
    /\ clock + Cadence <= MaxTime
    /\ clock' = clock + Cadence
    /\ \E seen \in SUBSET Aircraft : \E said \in [seen -> scene.reports] :
         feed' = [a \in Aircraft |->
                    Fresh(feed[a], clock') \cup
                        IF a \in seen THEN {Row(said[a], clock')} ELSE {}]
    /\ traffic' \in {traffic, clock'}
    /\ UNCHANGED <<scene, sky, cases, runVars>>

\* noaa_weather upserts another report of an airport. (Without an answer for
\* METARs it writes nothing; forecasts are read by nobody here.)
Weather(s) ==
    /\ sky' \in {[sky EXCEPT ![s] = c] : c \in scene.skies \ {sky[s]}}
    /\ UNCHANGED <<scene, clock, feed, traffic, cases, runVars>>

\* The pull mirrors a case that was resolved or closed in Salesforce.
Close(c) ==
    /\ c.open
    /\ Cardinality({d \in cases : ~d.open}) < scene.closes
    /\ cases' = (cases \ {c}) \cup {[c EXCEPT !.open = FALSE]}
    /\ UNCHANGED <<envVars, runVars>>

-----------------------------------------------------------------------------
(* What a run reads. *)

InScope(rows) == {r \in rows : r.region # NULL}

\* Polls at which somebody was in scope.
InScopeTimes ==
    (UNION {{r.ts : r \in InScope(feed[a])} : a \in Aircraft})
        \cup (IF traffic # NULL /\ traffic >= clock - LOOKBACK_MINUTES THEN {traffic} ELSE {})

Now == CHOOSE t \in InScopeTimes : \A u \in InScopeTimes : u <= t

\* feed_last_seen: over all rows of the window.
Heard(a) == Latest(feed[a]).ts

\* Every rule, on the rows in scope; none with nobody in scope, weather or not.
Findings ==
    IF InScopeTimes = {} THEN {}
    ELSE WeatherImpact(sky) \cup
         UNION {Anomalies(a, InScope(feed[a]), Heard(a), scene.plan, Now) :
                  a \in {b \in Aircraft : InScope(feed[b]) # {}}}

\* ALL_RULE_CLASSES
Order == [lost_signal |-> 1, diversion |-> 2, excessive_hold |-> 3,
          weather_impact |-> 4, go_around |-> 5, delay |-> 6]

-----------------------------------------------------------------------------
(* A run. *)

\* The early returns: no rows, or none in scope.
ReadNothing(r) ==
    /\ r \in scene.runs
    /\ pc[r] = "idle"
    /\ InScopeTimes = {}
    /\ UNCHANGED vars

ReadFeed(r) ==
    /\ r \in scene.runs
    /\ pc[r] = "idle"
    /\ InScopeTimes # {}
    /\ found' = [found EXCEPT ![r] = Findings]
    /\ asOf' = [asOf EXCEPT ![r] = Now]
    /\ pc' = [pc EXCEPT ![r] = "dedup"]
    /\ UNCHANGED <<envVars, cases, known>>

\* Mutant: any open case of the rule will do.
BugMatches(x, c, now) ==
    c.open /\ c.key[1] = x.rule /\ c.created >= now - DedupWindow[x.rule]

\* _load_open_cases and _matches_existing. (No two anomalies of one run have
\* one key, so the keys seen in the batch drop nothing.)
Matches(x, c, now) ==
    /\ c.open
    /\ c.key = DedupKey(x)
    /\ c.created >= now - DedupWindow[x.rule]

Dedup(r) ==
    /\ pc[r] = "dedup"
    /\ found' = [found EXCEPT ![r] = {x \in @ : \A c \in cases : ~Matches(x, c, asOf[r])}]
    /\ known' = [known EXCEPT ![r] = {c.id : c \in {d \in cases : d.open}}]
    /\ asOf' = [asOf EXCEPT ![r] = NULL]
    /\ pc' = [pc EXCEPT ![r] = "insert"]
    /\ UNCHANGED <<envVars, cases>>

\* SF_PUSH_SEVERITIES
SyncStatus(severity) == IF severity = "high" THEN "pending" ELSE "skipped"

NewCase(r, x) ==
    [id |-> Cardinality(cases), key |-> DedupKey(x), event |-> x.event,
     created |-> clock, open |-> TRUE, sync |-> SyncStatus(x.severity),
     known |-> known[r]]

\* _next_case_id and _insert_case, a transaction for each, rule after rule.
InsertCase(r) ==
    /\ pc[r] = "insert"
    /\ \E x \in found[r] :
         /\ \A y \in found[r] : Order[x.rule] <= Order[y.rule]
         /\ cases' = cases \cup {NewCase(r, x)}
         /\ found' = [found EXCEPT ![r] = @ \ {x}]
    /\ UNCHANGED <<envVars, pc, asOf, known>>

\* Mutant: what is left to insert stays.
BugEndRun(r) ==
    /\ pc' = [pc EXCEPT ![r] = "idle"]
    /\ asOf' = [asOf EXCEPT ![r] = NULL]
    /\ known' = [known EXCEPT ![r] = {}]
    /\ UNCHANGED <<envVars, cases, found>>

EndRun(r) ==
    /\ pc' = [pc EXCEPT ![r] = "idle"]
    /\ found' = [found EXCEPT ![r] = {}]
    /\ asOf' = [asOf EXCEPT ![r] = NULL]
    /\ known' = [known EXCEPT ![r] = {}]
    /\ UNCHANGED <<envVars, cases>>

Finish(r) ==
    /\ pc[r] = "insert"
    /\ found[r] = {}
    /\ EndRun(r)

\* An error of Postgres or of the lakehouse, or the process dies.
Fail(r) ==
    /\ scene.fails
    /\ pc[r] # "idle"
    /\ EndRun(r)

RunStep(r) == ReadNothing(r) \/ ReadFeed(r) \/ Dedup(r) \/ InsertCase(r) \/ Finish(r)

-----------------------------------------------------------------------------

Next ==
    \/ Poll
    \/ \E s \in Watched : Weather(s)
    \/ \E c \in cases : Close(c)
    \/ \E r \in Runs : RunStep(r) \/ Fail(r)

Spec == Init /\ [][Next]_vars

\* case_detector_schedule keeps launching runs, and a run goes on to its end
\* or its error.
FairSpec == Spec /\ \A r \in Runs : WF_vars(RunStep(r) \/ Fail(r))

-----------------------------------------------------------------------------
(* Properties. *)

TypeOK ==
    /\ scene \in Scenes
    /\ clock \in Nat /\ traffic \in Nat \cup {NULL}
    /\ \A a \in Aircraft : \A q \in feed[a] : q.ts \in 0..clock
    /\ sky \in [Watched -> scene.skies]
    /\ \A c \in cases : c.id \in 0..Cardinality(cases) - 1 /\ c.created \in 0..clock
    /\ pc \in [Runs -> {"idle", "dedup", "insert"}]
    /\ \A r \in Runs : /\ pc[r] = "idle" => found[r] = {}
                       /\ asOf[r] # NULL => asOf[r] \in 0..clock
                       /\ known[r] \subseteq 0..Cardinality(cases) - 1

\* One occurrence - a low point, a silence - is filed once, unless the earlier
\* case had been closed, or had not been inserted, when the later run read the
\* open cases: the windows of deduplication are at least as long as what makes
\* the rules fire stays in the window of rows (LOOKBACK_MINUTES, LOST_MAX_GAP).
FiledOnce ==
    \A c, d \in cases :
        c.id < d.id /\ c.key = d.key /\ c.event = d.event /\ c.event # NULL
            => c.id \notin d.known

\* An aircraft is said to be lost only if nobody heard it, in scope or out of
\* it, for fourteen minutes of polls that saw others (feed_last_ts).
LostIsSilent ==
    [][\A r \in Runs : \A x \in found'[r] \ found[r] :
          x.rule = "lost_signal" => \A q \in feed[x.about] : q.ts + 14 <= asOf'[r]]_vars

\* A go-around is one: in the window the aircraft came down by a thousand feet
\* to a low point and rose by as much, three rows near an airport in this order.
GoAroundIsValley ==
    [][\A r \in Runs : \A x \in found'[r] \ found[r] : x.rule = "go_around" =>
          \E p, q, s \in Near(InScope(feed[x.about]), 10) :
              /\ p.ts < q.ts /\ q.ts < s.ts /\ s.ts - p.ts <= LOOKBACK_MINUTES
              /\ NULL \notin {p.alt, q.alt, s.alt}
              /\ q.alt <= 3000 /\ p.alt >= q.alt + 1000 /\ s.alt >= q.alt + 1000]_vars

\* A run finds the weather bad where a ceiling is under a thousand feet or the
\* visibility under three miles, and nowhere else (weather_impact, noaa_weather).
WeatherIsReal ==
    [][\A r \in Runs : pc[r] = "idle" /\ pc'[r] # "idle" =>
          {x.site : x \in {y \in found'[r] : y.rule = "weather_impact"}} =
          {s \in Watched :
              \/ \E l \in sky[s].clouds :
                     l.cover \in {"BKN", "OVC", "OVX", "VV"} /\ l.base < 1000
              \/ sky[s].visibility # NULL /\ sky[s].visibility < 3}]_vars

\* Runs stop dying some day.
Calm == <>[][\A r \in Runs : Fail(r) => Finish(r)]_vars

\* Though runs die between the inserts, what the rules find gets its cases:
\* again and again, nothing is found that has none (run_case_detection).
EventuallyFiled ==
    Calm => []<>(\A x \in Findings : \E c \in cases : c.key = DedupKey(x))
=============================================================================
