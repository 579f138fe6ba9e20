---------------------------- MODULE FlightTrails ----------------------------
(***************************************************************************)
(* A run of foundry_flight_enrichment (enriched_sync_flights) and the API  *)
(* it reads: the detail of each aircraft (GET /v1/flights/{icao24}), then  *)
(* one request for the trails of all that are flying (POST                 *)
(* /v1/flights/trail/batch), answered from one scan of the lakehouse as a  *)
(* stream of lines that may break off at any point. The run upserts what   *)
(* it has in chunks as lines arrive, and what it got no trail for at the   *)
(* end, without one.                                                       *)
(*                                                                         *)
(* One run at a time (RunGuard). Every caller has the scope of internal    *)
(* operations (get_scope), so no aircraft is out of it. Which leg of an    *)
(* aircraft is enriched is told in FlightLifecycle: here it has one.       *)
(***************************************************************************)
EXTENDS Naturals, FiniteSets, Sequences

CONSTANTS
    Aircraft,           \* icao24, as numbers: the scan is ordered by them
    Lookback,           \* of the trail: two hours
    Recent,             \* of the detail: half an hour
    _ENRICHMENT_CHUNK,
    MaxTime             \* bound on the clock

ASSUME TrailsAssumption ==
    /\ Aircraft \subseteq Nat \ {0} /\ IsFiniteSet(Aircraft)
    /\ {Lookback, Recent, MaxTime} \subseteq Nat
    /\ _ENRICHMENT_CHUNK \in Nat \ {0}

VARIABLES
    now,        \* the clock: number of polls
    lake,       \* the polls that saw each aircraft: rows of the lakehouse
    tenant,     \* per Flight object, when its detail was fetched and its trail
    run,        \* where the run stands
    todo,       \* aircraft whose detail, then whose turn in the end, is due
    active,     \* the details it holds: aircraft |-> when it was fetched
    seen,       \* aircraft whose trail has come
    buffer,     \* what it is to upsert: aircraft |-> trail
    server,     \* the generator that answers the trail request
    wire,       \* the lines on their way
    scan        \* history: the trail of each aircraft when the scan was made

runVars == <<run, todo, active, seen, buffer>>
apiVars == <<server, wire, scan>>
vars == <<now, lake, tenant, runVars, apiVars>>

Nothing == [a \in {} |-> {}]

\* f[a] = v of a dict.
Put(f, a, v) == [b \in DOMAIN f \cup {a} |-> IF b = a THEN v ELSE f[b]]

Closed == [at |-> "closed", rows |-> {}, current |-> 0, points |-> {}]

NoScan == [a \in Aircraft |-> {}]

Init ==
    /\ now = 0
    /\ lake = [a \in Aircraft |-> {}]
    /\ tenant = [a \in Aircraft |-> [detail |-> 0, trail |-> {}]]
    /\ run = "idle"
    /\ todo = {}
    /\ active = Nothing
    /\ seen = {}
    /\ buffer = Nothing
    /\ server = Closed
    /\ wire = <<>>
    /\ scan = NoScan

\* opensky_positions writes a snapshot of the aircraft it sees.
Poll ==
    /\ now < MaxTime
    /\ now' = now + 1
    /\ \E heard \in SUBSET Aircraft :
         lake' = [a \in Aircraft |-> IF a \in heard THEN lake[a] \cup {now'} ELSE lake[a]]
    /\ UNCHANGED <<tenant, runVars, apiVars>>

-----------------------------------------------------------------------------
(* The API. *)

\* get_flight_trail: what the endpoint for one aircraft answers.
Trail(a) == {t \in lake[a] : t + Lookback >= now}

\* get_flight: 404 if not seen for half an hour.
Flying(a) == \E t \in lake[a] : t + Recent >= now

\* ORDER BY icao24, ts_polled.
First(rows) ==
    CHOOSE r \in rows : \A q \in rows : r[1] < q[1] \/ (r[1] = q[1] /\ r[2] <= q[2])

Line == [icao24 |-> server.current, points |-> server.points]

\* The generator takes a row: of the aircraft at hand, or of the next, and then
\* the trail of the one before is whole.
ServeRow ==
    /\ server.at = "open" /\ server.rows # {}
    /\ LET r == First(server.rows)
           same == r[1] = server.current
       IN  /\ server' = [at |-> "open", rows |-> server.rows \ {r}, current |-> r[1],
                         points |-> IF same THEN server.points \cup {r[2]} ELSE {r[2]}]
           /\ wire' = IF same \/ server.current = 0 THEN wire ELSE Append(wire, Line)
    /\ UNCHANGED <<now, lake, tenant, runVars, scan>>

\* Mutant: the last aircraft is forgotten.
BugServeEnd ==
    /\ server.at = "open" /\ server.rows = {}
    /\ server' = [Closed EXCEPT !.at = "ended"]
    /\ UNCHANGED <<now, lake, tenant, runVars, wire, scan>>

ServeEnd ==
    /\ server.at = "open" /\ server.rows = {}
    /\ server' = [Closed EXCEPT !.at = "ended"]
    /\ wire' = IF server.current = 0 THEN wire ELSE Append(wire, Line)
    /\ UNCHANGED <<now, lake, tenant, runVars, scan>>

\* Mutant: what there is of the trail at hand is sent first.
BugBreak ==
    /\ server.at = "open"
    /\ server' = [Closed EXCEPT !.at = "broken"]
    /\ wire' = IF server.current = 0 THEN wire ELSE Append(wire, Line)
    /\ UNCHANGED <<now, lake, tenant, runVars, scan>>

\* A read error of the lakehouse while it streams (query_stream).
Break ==
    /\ server.at = "open"
    /\ server' = [Closed EXCEPT !.at = "broken"]
    /\ UNCHANGED <<now, lake, tenant, runVars, wire, scan>>

ServerStep == ServeRow \/ ServeEnd

-----------------------------------------------------------------------------
(* The run. *)

\* list_flight_pks, the newest leg of each aircraft.
Begin ==
    /\ run = "idle"
    /\ run' = "details"
    /\ todo' = Aircraft
    /\ UNCHANGED <<now, lake, tenant, active, seen, buffer, apiVars>>

\* _fetch_detail; the calls are concurrent. A 404 leaves the aircraft out.
FetchDetail(a) ==
    /\ run = "details"
    /\ a \in todo
    /\ todo' = todo \ {a}
    /\ active' = IF Flying(a) THEN Put(active, a, now) ELSE active
    /\ UNCHANGED <<now, lake, tenant, run, seen, buffer, apiVars>>

\* Another status, or a transport error.
DetailFails(a) ==
    /\ run = "details"
    /\ a \in todo
    /\ todo' = todo \ {a}
    /\ UNCHANGED <<now, lake, tenant, run, active, seen, buffer, apiVars>>

\* Mutant: every candidate without a trail is sent, flying or not.
BugRest ==
    /\ run' = "rest"
    /\ todo' = Aircraft \ seen
    /\ server' = Closed /\ wire' = <<>>

\* The rest of the aircraft is sent without trails.
Rest ==
    /\ run' = "rest"
    /\ todo' = DOMAIN active \ seen
    /\ server' = Closed /\ wire' = <<>>

\* stream_flight_trails is called, if anybody is flying. The scan is made of
\* the files there are when it starts; rows of one instant are in it or not.
AskTrails ==
    /\ run = "details" /\ todo = {}
    /\ IF active = Nothing THEN Rest /\ UNCHANGED scan
       ELSE /\ run' = "trails"
            /\ scan' = [a \in Aircraft |-> IF a \in DOMAIN active THEN Trail(a) ELSE {}]
            /\ server' = [Closed EXCEPT !.at = "open",
                            !.rows = UNION {{a} \X Trail(a) : a \in DOMAIN active}]
            /\ UNCHANGED <<todo, wire>>
    /\ UNCHANGED <<now, lake, tenant, active, seen, buffer>>

Full == Cardinality(DOMAIN buffer) >= _ENRICHMENT_CHUNK

\* A line, unless a flush is under way.
Receive ==
    /\ run = "trails" /\ ~Full
    /\ wire # <<>>
    /\ buffer' = Put(buffer, Head(wire).icao24, Head(wire).points)
    /\ seen' = seen \cup {Head(wire).icao24}
    /\ wire' = Tail(wire)
    /\ UNCHANGED <<now, lake, tenant, run, todo, active, server, scan>>

EndTrails ==
    /\ run = "trails" /\ ~Full
    /\ wire = <<>> /\ server.at = "ended"
    /\ Rest
    /\ UNCHANGED <<now, lake, tenant, active, seen, buffer, scan>>

\* The request fails, the stream breaks off or times out, with lines lost that
\* were on their way: httpx.HTTPError, caught.
Cut ==
    /\ run = "trails" /\ ~Full
    /\ wire # <<>> \/ server.at # "ended"
    /\ Rest
    /\ UNCHANGED <<now, lake, tenant, active, seen, buffer, scan>>

\* _flush within the loop over the lines. If the tenant refuses, the error is
\* caught like one of the stream, and the buffer stays.
FlushFails ==
    /\ run = "trails" /\ Full
    /\ Rest
    /\ UNCHANGED <<now, lake, tenant, active, seen, buffer, scan>>

\* The next that has no trail, and a flush when that fills the buffer.
WithoutTrail(a) ==
    /\ run = "rest"
    /\ a \in todo
    /\ todo' = todo \ {a}
    /\ buffer' = Put(buffer, a, {})
    /\ run' = IF Cardinality(DOMAIN buffer') >= _ENRICHMENT_CHUNK THEN "flush" ELSE "rest"
    /\ UNCHANGED <<now, lake, tenant, active, seen, apiVars>>

\* flight_detail_to_flight: the detail, and a trail that is empty if none came.
Enriched(a) == [detail |-> active[a], trail |-> buffer[a]]

\* upsert_flight_batch of the buffer: in the loop over the lines, in the loop
\* over the rest, and in the end.
Flush ==
    /\ \/ run = "trails" /\ Full
       \/ run = "flush"
       \/ run = "rest" /\ todo = {} /\ buffer # Nothing
    /\ tenant' = [a \in Aircraft |->
                    IF a \in DOMAIN buffer THEN Enriched(a) ELSE tenant[a]]
    /\ buffer' = Nothing
    /\ run' = IF run = "flush" THEN "rest" ELSE run
    /\ UNCHANGED <<now, lake, todo, active, seen, apiVars>>

EndRun ==
    /\ run' = "idle"
    /\ todo' = {} /\ active' = Nothing /\ seen' = {} /\ buffer' = Nothing
    /\ server' = Closed /\ wire' = <<>> /\ scan' = NoScan
    /\ UNCHANGED <<now, lake, tenant>>

\* Mutant: without the last flush.
BugFinish ==
    /\ run = "rest" /\ todo = {}
    /\ EndRun

Finish ==
    /\ run = "rest" /\ todo = {} /\ buffer = Nothing
    /\ EndRun

\* The tenant is out of reach, or the process dies.
Fail ==
    /\ run # "idle"
    /\ EndRun

RunStep ==
    \/ Begin \/ AskTrails \/ Receive \/ EndTrails \/ Flush \/ Finish
    \/ \E a \in Aircraft : FetchDetail(a) \/ WithoutTrail(a)

Fault ==
    \/ Break \/ Cut \/ FlushFails \/ Fail
    \/ \E a \in Aircraft : DetailFails(a)

-----------------------------------------------------------------------------

Next == Poll \/ ServerStep \/ RunStep \/ Fault

Spec == Init /\ [][Next]_vars

\* The schedule keeps launching runs, and what has begun goes on or fails.
FairSpec == Spec /\ WF_vars(ServerStep \/ Break) /\ WF_vars(RunStep \/ Cut)

-----------------------------------------------------------------------------
(* Properties. *)

TypeOK ==
    /\ now \in 0..MaxTime
    /\ lake \in [Aircraft -> SUBSET (1..now)]
    /\ tenant \in [Aircraft -> [detail : 0..now, trail : SUBSET (1..now)]]
    /\ run \in {"idle", "details", "trails", "rest", "flush"}
    /\ todo \cup seen \cup DOMAIN active \cup DOMAIN buffer \subseteq Aircraft
    /\ \A a \in DOMAIN active : active[a] \in 1..now
    /\ DOMAIN buffer \subseteq DOMAIN active
    /\ Cardinality(DOMAIN buffer) <= _ENRICHMENT_CHUNK + 1
    /\ server.at \in {"closed", "open", "ended", "broken"}
    /\ server.rows \subseteq Aircraft \X (1..now)

\* A line of the batch is what the endpoint for one aircraft would have
\* answered, and a trail that is sent to the tenant is one: wherever the stream
\* breaks off, no part of a trail passes for the trail (get_flight_trails_batch).
TrailIsWhole ==
    /\ \A i \in 1..Len(wire) : wire[i].points = scan[wire[i].icao24]
    /\ \A a \in DOMAIN buffer : buffer[a] = IF a \in seen THEN scan[a] ELSE {}

\* When a run ends well, every aircraft that is flying shows the detail the run
\* fetched, and the trail if it came, though flushes failed on the way, the
\* stream broke off, and chunks hold both kinds (enriched_sync_flights).
FinishedIsEnriched ==
    [][Finish => \A a \in DOMAIN active :
          tenant[a] = [detail |-> active[a], trail |-> IF a \in seen THEN scan[a] ELSE {}]]_vars

\* Runs stop failing some day (a run that fails with nothing left to do ends well).
Calm == <>[][Fault => Fail /\ Finish]_vars

\* Though trails that failed to come were overwritten with nothing, once faults
\* stop every aircraft that is flying shows its trail (enriched_sync_flights).
EventuallyTrailed ==
    Calm => <>[](\A a \in Aircraft : Flying(a) => tenant[a].trail = Trail(a))
=============================================================================
