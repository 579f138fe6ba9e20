------------------------------ MODULE OpenSky -------------------------------
(***************************************************************************)
(* The client of the OpenSky API (OpenSkyResource): one call at a time of  *)
(* one process, a bearer token that is cached until shortly before its     *)
(* stated expiry, a second attempt after a network error or a 5xx, and one *)
(* more try of the whole call, with a new token, after a 401 or a 403.     *)
(* Time is counted in ticks, and passes while a request is on its way or   *)
(* the client is idle.                                                     *)
(***************************************************************************)
EXTENDS Naturals

CONSTANTS
    Lifetime,       \* expires_in of a token
    Leeway,         \* TOKEN_REFRESH_LEEWAY_SECONDS
    Timeout         \* most ticks a request takes, with the delay before the next

ASSUME OpenSkyAssumption ==
    /\ {Lifetime, Leeway, Timeout} \subseteq Nat
    /\ Timeout < Leeway /\ Leeway + Timeout < Lifetime /\ 3 * Timeout < Lifetime

VARIABLES
    token,      \* the last token: time it is valid for, time it is handed out
                \* for, whether the server still takes it; or NoToken
    call,       \* where the call stands and how often it has tried
    withdrawn   \* whether the credentials are withdrawn

clientVars == <<token, call, withdrawn>>

NoToken == [left |-> 0, use |-> 0, good |-> FALSE]

\* "at": idle, token, fetch, send, wait, or how the call has ended.
Ended == {"flights", "none", "limited", "auth", "error"}

Idle == [at |-> "idle", attempt |-> 1, again |-> FALSE, waited |-> 0]

ClientInit ==
    /\ token = NoToken
    /\ call = Idle
    /\ withdrawn = FALSE

\* Mutant: without the max.
BugMinus(x, y) == x - y

\* max(0, x - y)
Minus(x, y) == IF x > y THEN x - y ELSE 0

-----------------------------------------------------------------------------
(* Time, and the server. *)

Tick ==
    /\ \/ call.at = "idle" /\ token.left > 0 /\ UNCHANGED call
       \/ call.at \in {"fetch", "wait"} /\ call.waited < Timeout
          /\ call' = [call EXCEPT !.waited = @ + 1]
    /\ token' = [token EXCEPT !.left = Minus(@, 1), !.use = Minus(@, 1)]
    /\ UNCHANGED withdrawn

\* The token expires faster than its stated lifetime; the one a call is tried
\* again with does not.
Revoke ==
    /\ token.good /\ ~call.again
    /\ token' = [token EXCEPT !.good = FALSE]
    /\ UNCHANGED <<call, withdrawn>>

Withdraw ==
    /\ ~withdrawn
    /\ withdrawn' = TRUE
    /\ UNCHANGED <<token, call>>

-----------------------------------------------------------------------------
(* The client. *)

\* fetch_states or fetch_flight_history is called.
Ask ==
    /\ call.at = "idle"
    /\ call' = [Idle EXCEPT !.at = "token"]
    /\ UNCHANGED <<token, withdrawn>>

End(how) ==
    /\ call' = [call EXCEPT !.at = how, !.waited = 0]
    /\ UNCHANGED token

\* Mutant: the cached token is tried again.
BugRefused ==
    IF call.again THEN End("auth")
    ELSE /\ call' = [Idle EXCEPT !.at = "token", !.again = TRUE]
         /\ UNCHANGED token

\* OpenSkyAuthError: the first clears the cache and the call starts over.
Refused ==
    IF call.again THEN End("auth")
    ELSE /\ token' = NoToken
         /\ call' = [Idle EXCEPT !.at = "token", !.again = TRUE]

\* _get_token: the cached token, while it is to be handed out.
GetToken ==
    /\ call.at = "token"
    /\ call' = [call EXCEPT !.at = IF token.use > 0 THEN "send" ELSE "fetch"]
    /\ UNCHANGED <<token, withdrawn>>

\* Mutant: a token is handed out until it expires.
BugHanded(waited) == Minus(Lifetime, waited)

\* The deadline is counted from before the request for the token.
Handed(waited) == Minus(Lifetime, Leeway + waited)

\* _fetch_token. The token was issued at some time since the request.
FetchToken ==
    /\ call.at = "fetch"
    /\ \/ ~withdrawn /\ \E k \in 0..call.waited :
            /\ token' = [left |-> Lifetime - k, use |-> Handed(call.waited), good |-> TRUE]
            /\ call' = [call EXCEPT !.at = "send", !.waited = 0]
       \/ withdrawn /\ Refused
       \/ End("error")     \* network error, another status, or no token in it
    /\ UNCHANGED withdrawn

Send ==
    /\ call.at = "send"
    /\ call' = [call EXCEPT !.at = "wait"]
    /\ UNCHANGED <<token, withdrawn>>

\* The two attempts carry one header.
NextAttempt ==
    IF call.attempt = 2 THEN End("error")
    ELSE /\ call' = [call EXCEPT !.at = "send", !.attempt = 2, !.waited = 0]
         /\ UNCHANGED token

\* _get_with_retry and what its caller makes of the answer. A 404 and a list
\* without flights come to the same; "error" is an unexpected status or body.
Respond ==
    /\ call.at = "wait"
    /\ IF token.good /\ token.left > 0 /\ ~withdrawn
         THEN NextAttempt \/ \E how \in Ended \ {"auth"} : End(how)
         ELSE NextAttempt \/ Refused \/ End("limited")
    /\ UNCHANGED withdrawn

ClientStep == GetToken \/ FetchToken \/ Send \/ Respond

-----------------------------------------------------------------------------

\* No request is sent with a token past its stated expiry, the second attempt
\* after a long wait included (_get_with_retry, _get_token).
NeverSendsExpired == call.at = "send" => token.left > 0

\* A token that is refused once does not make the call fail: only the loss of
\* the credentials does (fetch_flight_history, fetch_states).
AuthIsReal == call.at = "auth" => withdrawn
=============================================================================
