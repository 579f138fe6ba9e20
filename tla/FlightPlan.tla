----------------------------- MODULE FlightPlan -----------------------------
(***************************************************************************)
(* flight_plan_enrichment: every hour the aircraft in scope whose row in   *)
(* app.flight_plans is missing or older than the TTL are looked up at      *)
(* OpenSky, the longest overdue first, up to a cap. A 429 ends the cycle,  *)
(* a refusal of the credentials fails it, any other error is stored as a   *)
(* row of its own and keeps the aircraft from being asked for again until  *)
(* the TTL is over.                                                        *)
(***************************************************************************)
EXTENDS OpenSky, SequencesExt

CONSTANTS
    Aircraft,               \* icao24, as numbers: they are sorted
    Steady,                 \* those that never leave the scope
    CACHE_TTL,              \* in cycles
    MAX_FETCHES_PER_CYCLE,
    MaxAge                  \* ages are counted up to it

ASSUME FlightPlanAssumption ==
    /\ Aircraft \subseteq Nat /\ IsFiniteSet(Aircraft) /\ Steady \subseteq Aircraft
    /\ {CACHE_TTL, MaxAge} \subseteq Nat /\ CACHE_TTL < MaxAge
    /\ MAX_FETCHES_PER_CYCLE \in Nat \ {0}

VARIABLES
    age,        \* per row of app.flight_plans: cycles since refreshed_at
    todo        \* what the cycle has left to look up

planVars == <<age, todo>>
vars == <<clientVars, planVars>>

\* refreshed_at IS NULL: no row.
Null == MaxAge + 1

Init ==
    /\ ClientInit
    /\ age = [a \in Aircraft |-> Null]
    /\ todo = <<>>

\* Mutant: the list is sorted by icao24 alone.
BugBefore(a, b) == a < b

\* ORDER BY refreshed_at NULLS FIRST, icao24
Before(a, b) == age[a] > age[b] \/ (age[a] = age[b] /\ a < b)

Smaller(x, y) == IF x < y THEN x ELSE y

\* stale[:MAX_FETCHES_PER_CYCLE]
Cut(stale) ==
    SubSeq(SetToSortSeq(stale, Before), 1, Smaller(Cardinality(stale), MAX_FETCHES_PER_CYCLE))

\* The schedule fires; a process of its own, so no token is cached.
\* _select_stale_icao24s, of the aircraft in scope and lately heard.
Begin ==
    /\ todo = <<>> /\ call.at = "idle"
    /\ age' = [a \in Aircraft |-> IF age[a] < MaxAge THEN age[a] + 1 ELSE age[a]]
    /\ \E away \in SUBSET (Aircraft \ Steady) :
         todo' = Cut({a \in Aircraft \ away : age'[a] > CACHE_TTL})
    /\ token' = NoToken
    /\ UNCHANGED <<call, withdrawn>>

\* fetch_flight_history for the first of the list.
Lookup == todo # <<>> /\ Ask /\ UNCHANGED planVars

\* _upsert_flight_plan, whatever it writes, an error included: it sets
\* refreshed_at.
Store ==
    /\ age' = [age EXCEPT ![Head(todo)] = 0]
    /\ todo' = Tail(todo)

\* The rest of the loop's body.
Settle ==
    /\ \/ call.at \in {"flights", "none", "error"} /\ Store
       \/ call.at \in {"limited", "auth"} /\ todo' = <<>> /\ UNCHANGED age
    /\ call' = Idle
    /\ UNCHANGED <<token, withdrawn>>

\* Postgres fails or the process dies, with an answer in hand or without.
Fail ==
    /\ todo # <<>>
    /\ todo' = <<>>
    /\ call' = Idle
    /\ UNCHANGED <<token, withdrawn, age>>

\* An operator sets new credentials; a run takes them from its environment.
Restore ==
    /\ withdrawn /\ todo = <<>>
    /\ withdrawn' = FALSE
    /\ UNCHANGED <<token, call, planVars>>

World == (Tick \/ Revoke \/ Withdraw) /\ UNCHANGED planVars

RunStep == Begin \/ Lookup \/ (ClientStep /\ UNCHANGED planVars) \/ Settle

Next == RunStep \/ World \/ Fail \/ Restore

Spec == Init /\ [][Next]_vars

FairSpec == Spec /\ WF_vars(RunStep)

-----------------------------------------------------------------------------
(* Properties. *)

TypeOK ==
    /\ token \in [left : 0..Lifetime, use : 0..Lifetime, good : BOOLEAN]
    /\ call \in [at : {"idle", "token", "fetch", "send", "wait"} \cup Ended,
                 attempt : 1..2, again : BOOLEAN, waited : 0..Timeout]
    /\ withdrawn \in BOOLEAN
    /\ age \in [Aircraft -> 0..Null]
    /\ Len(todo) <= MAX_FETCHES_PER_CYCLE
    /\ call.at # "idle" => todo # <<>>

\* From some day on no run dies, the credentials stand, and a 429 ends a cycle
\* only after it has stored something.
Calm ==
    /\ <>[][/\ Fail => Settle
            /\ Settle /\ call.at = "limited" => \E a \in Aircraft : age[a] = 0]_vars
    /\ <>[]~withdrawn

\* However large the fleet is to the cap, whatever other aircraft come and go,
\* and though OpenSky answers nothing but errors, an aircraft that stays is
\* looked up again and again (_select_stale_icao24s, run_flight_plan_enrichment).
EventuallyPlanned ==
    Calm => \A a \in Steady : []<>(age[a] <= CACHE_TTL)
=============================================================================
