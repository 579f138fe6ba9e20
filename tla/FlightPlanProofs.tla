-------------------------- MODULE FlightPlanProofs --------------------------
(***************************************************************************)
(* What the OpenSky client promises to flight_plan_enrichment, for every   *)
(* lifetime of tokens, leeway and time-out that are apart as               *)
(* OpenSkyAssumption says, every fleet and every cap: no request carries a *)
(* token past its expiry, and a call fails for the credentials only when   *)
(* they are gone.                                                          *)
(***************************************************************************)
EXTENDS FlightPlan, FiniteSetTheorems, SequenceTheorems, TLAPS

\* An idle client has forgotten its last call, and only a cycle with something
\* left to look up makes one.
CallInv ==
    /\ call \in [at : {"idle", "token", "fetch", "send", "wait"} \cup Ended,
                 attempt : 1..2, again : BOOLEAN, waited : 0..Timeout]
    /\ call.at = "idle" => call = Idle
    /\ call.at # "idle" => todo # <<>>
    /\ call.at \in {"token", "fetch"} => call.attempt = 1
    /\ call.at \in {"token", "send"} => call.waited = 0

\* A token is handed out with the leeway to spare.
TokenInv ==
    /\ token \in [left : Nat, use : Nat, good : BOOLEAN]
    /\ token.use > 0 => token.left >= token.use + Leeway

\* What the waits of a call leave of it.
SpareInv ==
    /\ call.at = "send" => IF call.attempt = 1 THEN token.left > Leeway
                           ELSE token.left + Timeout > Leeway
    /\ call.at = "wait" /\ call.attempt = 1 => token.left + call.waited > Leeway

\* The token of the second try is new, and outlives it.
AgainInv ==
    /\ call.again /\ call.at = "token" => token.use = 0
    /\ call.again /\ call.at \in {"send", "wait"} =>
         /\ token.good
         /\ token.left + call.waited + call.attempt * Timeout >= Lifetime
    /\ call.at = "auth" => withdrawn

ClientInv == CallInv /\ TokenInv /\ SpareInv /\ AgainInv

LEMMA ClientInitial == Init => ClientInv
BY OpenSkyAssumption DEF Init, ClientInit, Idle, NoToken, ClientInv, CallInv, TokenInv,
   SpareInv, AgainInv, Ended

LEMMA MinusOne ==
    ASSUME NEW x \in Nat
    PROVE  Minus(x, 1) \in Nat /\ Minus(x, 1) + 1 >= x /\ Minus(x, 1) <= x
           /\ (Minus(x, 1) > 0 => Minus(x, 1) = x - 1)
BY DEF Minus

LEMMA TickStep ==
    ASSUME ClientInv, Tick, UNCHANGED planVars
    PROVE  ClientInv'
<1> USE OpenSkyAssumption DEF ClientInv, planVars
<1>1. /\ token' = [left |-> Minus(token.left, 1), use |-> Minus(token.use, 1),
                   good |-> token.good]
      /\ token' \in [left : Nat, use : Nat, good : BOOLEAN]
      /\ token'.left + 1 >= token.left /\ token'.good = token.good
      /\ token'.use <= token.use
  BY MinusOne DEF Tick, TokenInv
<1>2. TokenInv'
  BY <1>1, MinusOne DEF TokenInv
<1>3. CASE call.at = "idle" /\ UNCHANGED call
  BY <1>1, <1>2, <1>3 DEF Tick, CallInv, SpareInv, AgainInv
<1>4. CASE /\ call.at \in {"fetch", "wait"} /\ call.waited < Timeout
           /\ call' = [call EXCEPT !.waited = @ + 1]
  <2>1. /\ call'.at = call.at /\ call'.attempt = call.attempt /\ call'.again = call.again
        /\ call'.waited = call.waited + 1 /\ call'.waited \in 0..Timeout
        /\ call' \in [at : {"idle", "token", "fetch", "send", "wait"} \cup Ended,
                      attempt : 1..2, again : BOOLEAN, waited : 0..Timeout]
    BY <1>4 DEF CallInv
  <2>2. CallInv'
    BY <1>4, <2>1 DEF CallInv
  <2>3. SpareInv'
    BY <1>1, <1>4, <2>1 DEF SpareInv, TokenInv, CallInv
  <2>4. AgainInv'
    <3>1. call.attempt * Timeout \in Nat /\ call.waited \in Nat /\ token.left \in Nat
      BY DEF CallInv, TokenInv
    <3> DEFINE spent == call.attempt * Timeout
    <3>2. call'.attempt * Timeout = spent
      BY <2>1
    <3> HIDE DEF spent
    <3>3. call.at = "wait" /\ call.again =>
             token'.left + call'.waited + spent >= Lifetime
      BY <1>1, <2>1, <3>1 DEF AgainInv, spent
    <3> QED BY <1>1, <1>4, <2>1, <3>2, <3>3 DEF AgainInv
  <2> QED BY <1>2, <2>2, <2>3, <2>4
<1> QED BY <1>3, <1>4 DEF Tick

Calls == [at : {"idle", "token", "fetch", "send", "wait"} \cup Ended,
          attempt : 1..2, again : BOOLEAN, waited : 0..Timeout]

\* What a step that sets some fields of the call makes of it.
LEMMA CallEnds ==
    ASSUME NEW c \in Calls, NEW at \in {"idle", "token", "fetch", "send", "wait"} \cup Ended
    PROVE  LET d == [c EXCEPT !.at = at, !.waited = 0]
           IN  d \in Calls /\ d.at = at /\ d.waited = 0 /\ d.attempt = c.attempt
               /\ d.again = c.again
<1>1. 0 \in 0..Timeout
  BY OpenSkyAssumption
<1> QED BY <1>1 DEF Calls

LEMMA CallAgain ==
    LET d == [Idle EXCEPT !.at = "token", !.again = TRUE]
    IN  d \in Calls /\ d.at = "token" /\ d.attempt = 1 /\ d.waited = 0
<1>1. Idle \in Calls /\ Idle.attempt = 1 /\ Idle.waited = 0
  BY OpenSkyAssumption DEF Calls, Idle
<1> QED BY <1>1 DEF Calls

LEMMA CallNext ==
    ASSUME NEW c \in Calls
    PROVE  LET d == [c EXCEPT !.at = "send", !.attempt = 2, !.waited = 0]
           IN  d \in Calls /\ d.at = "send" /\ d.attempt = 2 /\ d.waited = 0
               /\ d.again = c.again
<1> DEFINE e == [c EXCEPT !.at = "send", !.attempt = 2]
           d == [c EXCEPT !.at = "send", !.attempt = 2, !.waited = 0]
<1>1. d = [e EXCEPT !.waited = 0] /\ 0 \in 0..Timeout
  BY OpenSkyAssumption DEF Calls
<1>2. e \in Calls
  <2> DEFINE b == [c EXCEPT !.at = "send"]
  <2>1. b \in Calls
    BY DEF Calls
  <2>2. e = [b EXCEPT !.attempt = 2]
    BY DEF Calls
  <2> HIDE DEF b, e
  <2> QED BY <2>1, <2>2 DEF Calls
<1>3. e.at = "send" /\ e.attempt = 2 /\ e.again = c.again
  BY DEF Calls
<1> HIDE DEF d, e
<1>4. d \in Calls /\ d.at = "send" /\ d.attempt = 2 /\ d.waited = 0 /\ d.again = c.again
  BY <1>1, <1>2, <1>3 DEF Calls
<1> QED BY <1>4 DEF d

LEMMA CallTyped == ClientInv => call \in Calls
BY DEF ClientInv, CallInv, Calls

LEMMA EndStep ==
    ASSUME ClientInv, NEW how \in Ended, End(how), how = "auth" => withdrawn',
           call.at # "idle", UNCHANGED todo
    PROVE  ClientInv'
<1>1. /\ call' = [call EXCEPT !.at = how, !.waited = 0] /\ token' = token
      /\ call'.at = how /\ call' \in Calls
      /\ how \notin {"idle", "token", "fetch", "send", "wait"}
  BY CallEnds, CallTyped DEF End, Ended
<1>2. CallInv'
  BY <1>1 DEF ClientInv, CallInv, Calls
<1>3. TokenInv' /\ SpareInv' /\ AgainInv'
  BY <1>1 DEF ClientInv, TokenInv, SpareInv, AgainInv
<1> QED BY <1>2, <1>3 DEF ClientInv

LEMMA RefusedStep ==
    ASSUME ClientInv, Refused, call.again => withdrawn', call.at # "idle", UNCHANGED todo
    PROVE  ClientInv'
<1>1. CASE call.again
  BY <1>1, EndStep DEF Refused, Ended
<1>2. CASE ~call.again
  <2>1. /\ token' = NoToken
        /\ call' = [Idle EXCEPT !.at = "token", !.again = TRUE]
    BY <1>2 DEF Refused
  <2>2. /\ call'.at = "token" /\ call'.attempt = 1 /\ call'.waited = 0
        /\ call' \in Calls
    BY <2>1, CallAgain
  <2>3. CallInv'
    BY <2>2 DEF ClientInv, CallInv, Calls
  <2>4. TokenInv' /\ SpareInv' /\ AgainInv'
    BY <2>1, <2>2 DEF TokenInv, SpareInv, AgainInv, NoToken
  <2> QED BY <2>3, <2>4 DEF ClientInv
<1> QED BY <1>1, <1>2

LEMMA GetTokenStep ==
    ASSUME ClientInv, GetToken, UNCHANGED planVars
    PROVE  ClientInv'
<1>1. /\ call' = [call EXCEPT !.at = IF token.use > 0 THEN "send" ELSE "fetch"]
      /\ UNCHANGED <<token, withdrawn, todo>> /\ call.at = "token"
      /\ call.attempt = 1 /\ call.waited = 0
      /\ call'.at = (IF token.use > 0 THEN "send" ELSE "fetch")
      /\ call'.attempt = 1 /\ call'.waited = 0 /\ call'.again = call.again /\ call' \in Calls
  BY DEF GetToken, ClientInv, CallInv, Calls, planVars
<1>2. CallInv'
  BY <1>1 DEF ClientInv, CallInv, Calls
<1>3. TokenInv' /\ SpareInv'
  BY <1>1, OpenSkyAssumption DEF ClientInv, TokenInv, SpareInv
<1>4. AgainInv'
  BY <1>1 DEF ClientInv, AgainInv, TokenInv
<1> QED BY <1>2, <1>3, <1>4 DEF ClientInv

LEMMA FetchTokenStep ==
    ASSUME ClientInv, FetchToken, UNCHANGED planVars
    PROVE  ClientInv'
<1>1. call.at = "fetch" /\ UNCHANGED <<todo, withdrawn>>
  BY DEF FetchToken, planVars
<1>2. CASE withdrawn /\ Refused
  BY <1>1, <1>2, RefusedStep
<1>3. CASE End("error")
  BY <1>1, <1>3, EndStep DEF Ended
<1>4. ASSUME NEW k \in 0..call.waited,
             token' = [left |-> Lifetime - k, use |-> Handed(call.waited), good |-> TRUE],
             call' = [call EXCEPT !.at = "send", !.waited = 0]
      PROVE  ClientInv'
  <2>1. /\ call'.at = "send" /\ call'.waited = 0 /\ call'.attempt = 1 /\ call' \in Calls
        /\ call.waited \in 0..Timeout
    <3>1. call.attempt = 1 /\ call.waited \in 0..Timeout
      BY <1>1 DEF ClientInv, CallInv
    <3> QED BY <1>4, <3>1, CallEnds, CallTyped
  <2>2. CallInv'
    BY <1>1, <2>1 DEF ClientInv, CallInv, Calls
  <2>3. token'.left = Lifetime - k /\ token'.left >= Lifetime - Timeout /\ token'.left \in Nat
    BY <1>4, <2>1, OpenSkyAssumption
  <2>4. token'.use = Handed(call.waited) /\ token'.good
    BY <1>4
  <2>5. Handed(call.waited) \in Nat
        /\ (Handed(call.waited) > 0 => token'.left >= Handed(call.waited) + Leeway)
    BY <2>1, <2>3, OpenSkyAssumption DEF Handed, Minus
  <2>6. TokenInv'
    BY <1>4, <2>3, <2>4, <2>5 DEF TokenInv
  <2>7. SpareInv'
    BY <2>1, <2>3, OpenSkyAssumption DEF SpareInv
  <2>8. AgainInv'
    BY <2>1, <2>3, <2>4, OpenSkyAssumption DEF AgainInv
  <2> QED BY <2>2, <2>6, <2>7, <2>8 DEF ClientInv
<1> QED BY <1>2, <1>3, <1>4 DEF FetchToken

LEMMA SendStep ==
    ASSUME ClientInv, Send, UNCHANGED planVars
    PROVE  ClientInv'
<1>1. /\ call.at = "send" /\ call' = [call EXCEPT !.at = "wait"]
      /\ UNCHANGED <<token, withdrawn, todo>> /\ call.waited = 0
      /\ call'.at = "wait" /\ call'.attempt = call.attempt /\ call'.waited = 0
      /\ call'.again = call.again /\ call' \in Calls
  BY DEF Send, ClientInv, CallInv, Calls, planVars
<1>2. CallInv'
  BY <1>1 DEF ClientInv, CallInv, Calls
<1>3. TokenInv' /\ SpareInv'
  BY <1>1 DEF ClientInv, TokenInv, SpareInv
<1>4. AgainInv'
  BY <1>1 DEF ClientInv, AgainInv
<1> QED BY <1>2, <1>3, <1>4 DEF ClientInv

LEMMA NextAttemptStep ==
    ASSUME ClientInv, NextAttempt, call.at = "wait", UNCHANGED todo
    PROVE  ClientInv'
<1>1. CASE call.attempt = 2
  BY <1>1, EndStep DEF NextAttempt, Ended
<1>2. CASE call.attempt # 2
  <2>1. /\ call.attempt = 1 /\ call.waited \in 0..Timeout /\ token' = token
        /\ call' = [call EXCEPT !.at = "send", !.attempt = 2, !.waited = 0]
        /\ call'.at = "send" /\ call'.attempt = 2 /\ call'.waited = 0
        /\ call'.again = call.again /\ call' \in Calls
    <3>1. call.attempt = 1 /\ call.waited \in 0..Timeout
      BY <1>2 DEF ClientInv, CallInv
    <3>2. /\ token' = token
          /\ call' = [call EXCEPT !.at = "send", !.attempt = 2, !.waited = 0]
      BY <1>2 DEF NextAttempt
    <3> QED BY <3>1, <3>2, CallNext, CallTyped
  <2>2. CallInv'
    BY <2>1 DEF ClientInv, CallInv, Calls
  <2>3. TokenInv' /\ SpareInv'
    BY <2>1, OpenSkyAssumption DEF ClientInv, TokenInv, SpareInv
  <2>4. AgainInv'
    BY <2>1, OpenSkyAssumption DEF ClientInv, AgainInv, TokenInv
  <2> QED BY <2>2, <2>3, <2>4 DEF ClientInv
<1> QED BY <1>1, <1>2

LEMMA RespondStep ==
    ASSUME ClientInv, Respond, UNCHANGED planVars
    PROVE  ClientInv'
<1>1. call.at = "wait" /\ UNCHANGED <<todo, withdrawn>>
  BY DEF Respond, planVars
<1>2. CASE NextAttempt
  BY <1>1, <1>2, NextAttemptStep
<1>3. ASSUME NEW how \in Ended \ {"auth"}, End(how) PROVE ClientInv'
  BY <1>1, <1>3, EndStep
<1>4. CASE Refused /\ ~(token.good /\ token.left > 0 /\ ~withdrawn)
  <2>1. ASSUME call.again PROVE withdrawn
    <3>1. token.good /\ token.left + call.waited + call.attempt * Timeout >= Lifetime
      BY <1>1, <2>1 DEF ClientInv, AgainInv
    <3>2. call.attempt \in 1..2 /\ call.waited \in 0..Timeout /\ token.left \in Nat
      BY DEF ClientInv, CallInv, TokenInv
    <3>3. call.attempt * Timeout <= 2 * Timeout /\ call.attempt * Timeout \in Nat
      BY <3>2, OpenSkyAssumption
    <3>4. token.left > 0
      <4> DEFINE spent == call.attempt * Timeout
      <4>1. spent \in Nat /\ spent <= Timeout + Timeout /\ token.left + call.waited + spent >= Lifetime
        BY <3>1, <3>3, OpenSkyAssumption
      <4> HIDE DEF spent
      <4> QED BY <3>2, <4>1, OpenSkyAssumption
    <3> QED BY <1>4, <3>1, <3>4
  <2> QED BY <1>1, <1>4, <2>1, RefusedStep
<1>5. CASE End("limited")
  BY <1>1, <1>5, EndStep DEF Ended
<1> QED BY <1>2, <1>3, <1>4, <1>5 DEF Respond

LEMMA ClientInvStep ==
    ASSUME ClientInv, [Next]_vars
    PROVE  ClientInv'
<1>1. CASE Begin
  <2>1. token' = NoToken /\ UNCHANGED <<call, withdrawn>> /\ call.at = "idle"
    BY <1>1 DEF Begin
  <2> QED BY <2>1 DEF NoToken, ClientInv, CallInv, TokenInv, SpareInv, AgainInv
<1>2. CASE Lookup
  <2>1. /\ call' = [Idle EXCEPT !.at = "token"] /\ UNCHANGED <<token, withdrawn, todo>>
        /\ todo # <<>>
    BY <1>2 DEF Lookup, Ask, planVars
  <2>2. 0 \in 0..Timeout
    BY OpenSkyAssumption
  <2>3. /\ call' \in Calls /\ call'.at = "token" /\ call'.attempt = 1
        /\ ~call'.again /\ call'.waited = 0
    <3>1. Idle \in Calls /\ Idle.attempt = 1 /\ Idle.waited = 0 /\ ~Idle.again
      BY <2>2 DEF Idle, Calls
    <3> QED BY <2>1, <3>1 DEF Calls
  <2>4. CallInv'
    BY <2>1, <2>3 DEF CallInv, Calls
  <2> QED BY <2>1, <2>3, <2>4 DEF ClientInv, TokenInv, SpareInv, AgainInv
<1>3. CASE ClientStep /\ UNCHANGED planVars
  BY <1>3, GetTokenStep, FetchTokenStep, SendStep, RespondStep DEF ClientStep
<1>4. CASE Settle \/ Fail
  <2>1. call' = Idle /\ UNCHANGED token
    BY <1>4 DEF Settle, Fail
  <2> QED BY <2>1, OpenSkyAssumption
          DEF Idle, Ended, ClientInv, CallInv, TokenInv, SpareInv, AgainInv
<1>5. CASE World
  <2>1. CASE Tick /\ UNCHANGED planVars
    BY <2>1, TickStep
  <2>2. CASE Revoke /\ UNCHANGED planVars
    BY <2>2 DEF Revoke, ClientInv, CallInv, TokenInv, SpareInv, AgainInv, planVars
  <2>3. CASE Withdraw /\ UNCHANGED planVars
    BY <2>3 DEF Withdraw, ClientInv, CallInv, TokenInv, SpareInv, AgainInv, planVars
  <2> QED BY <1>5, <2>1, <2>2, <2>3 DEF World
<1>6. CASE Restore
  <2>1. call.at = "idle" /\ UNCHANGED <<token, call, todo>>
    BY <1>6 DEF Restore, ClientInv, CallInv, planVars
  <2> QED BY <2>1 DEF ClientInv, CallInv, TokenInv, SpareInv, AgainInv
<1>7. CASE UNCHANGED vars
  BY <1>7 DEF vars, clientVars, planVars, ClientInv, CallInv, TokenInv, SpareInv, AgainInv
<1> QED BY <1>1, <1>2, <1>3, <1>4, <1>5, <1>6, <1>7 DEF Next, RunStep

\* No request is sent with an expired token: the leeway outlasts the first wait
\* (_get_token, _get_with_retry).
THEOREM NotExpired == Spec => []NeverSendsExpired
<1>1. ClientInv => NeverSendsExpired
  BY OpenSkyAssumption DEF ClientInv, CallInv, TokenInv, SpareInv, NeverSendsExpired
<1>2. ClientInv /\ [Next]_vars => ClientInv'
  BY ClientInvStep
<1> QED BY ClientInitial, <1>1, <1>2, PTL DEF Spec

\* A cycle fails for the credentials only when they are withdrawn: the second
\* try has a new token that outlives both its attempts (fetch_flight_history).
THEOREM AuthReal == Spec => []AuthIsReal
<1>1. ClientInv => AuthIsReal
  BY DEF ClientInv, AgainInv, AuthIsReal
<1>2. ClientInv /\ [Next]_vars => ClientInv'
  BY ClientInvStep
<1> QED BY ClientInitial, <1>1, <1>2, PTL DEF Spec

-----------------------------------------------------------------------------
(* Types. *)

\* The order of the list is of no account here: a cycle has at most its cap of
\* aircraft to look up, and no token has more than its stated lifetime.
PlanInv ==
    /\ todo \in Seq({todo[i] : i \in DOMAIN todo})
    /\ Len(todo) <= MAX_FETCHES_PER_CYCLE
    /\ age \in [Aircraft -> 0..Null]
    /\ token.left <= Lifetime /\ token.use <= Lifetime
    /\ withdrawn \in BOOLEAN

\* A list of any order, cut to a length.
LEMMA CutToLength ==
    ASSUME NEW list, NEW n \in Nat
    PROVE  LET s == SubSeq(list, 1, n) IN s \in Seq({s[i] : i \in DOMAIN s}) /\ Len(s) = n
<1> DEFINE s == SubSeq(list, 1, n)
<1>1. s = [i \in 1..n |-> list[i]]
  BY SMT
<1>2. DOMAIN s = 1..n /\ s = [i \in 1..n |-> s[i]]
  BY <1>1
<1> HIDE DEF s
<1>3. s \in Seq({s[i] : i \in DOMAIN s}) /\ Len(s) = n
  BY <1>2
<1> QED BY <1>3 DEF s

\* stale[:MAX_FETCHES_PER_CYCLE]
LEMMA CutIsCapped ==
    ASSUME NEW stale \in SUBSET Aircraft
    PROVE  /\ Cut(stale) \in Seq({Cut(stale)[i] : i \in DOMAIN Cut(stale)})
           /\ Len(Cut(stale)) <= MAX_FETCHES_PER_CYCLE
<1> DEFINE n == Smaller(Cardinality(stale), MAX_FETCHES_PER_CYCLE)
           list == SetToSortSeq(stale, Before)
<1>1. n \in Nat /\ n <= MAX_FETCHES_PER_CYCLE
  <2>1. Cardinality(stale) \in Nat
    BY FlightPlanAssumption, FS_Subset, FS_CardinalityType
  <2> QED BY <2>1, FlightPlanAssumption DEF Smaller
<1>2. Cut(stale) = SubSeq(list, 1, n)
  BY DEF Cut
<1> HIDE DEF n, list
<1> QED BY <1>1, <1>2, CutToLength

LEMMA TailIsShorter ==
    ASSUME NEW s, s \in Seq({s[i] : i \in DOMAIN s}), s # <<>>
    PROVE  /\ Tail(s) \in Seq({Tail(s)[i] : i \in DOMAIN Tail(s)})
           /\ Len(Tail(s)) = Len(s) - 1 /\ Len(s) \in Nat
<1> DEFINE S == {s[i] : i \in DOMAIN s}
           t == Tail(s)
<1>1. s \in Seq(S) /\ s # <<>>
  OBVIOUS
<1> HIDE DEF S
<1>2. t \in Seq(S) /\ Len(t) = Len(s) - 1 /\ Len(s) \in Nat
  BY <1>1, HeadTailProperties
<1> HIDE DEF t
<1>3. t \in Seq({t[i] : i \in DOMAIN t})
  BY <1>2
<1> QED BY <1>2, <1>3 DEF t

LEMMA NoneLeft == <<>> \in Seq({<<>>[i] : i \in DOMAIN <<>>}) /\ Len(<<>>) = 0
OBVIOUS

LEMMA PlanInitial == Init => PlanInv
<1> SUFFICES ASSUME Init PROVE PlanInv
  OBVIOUS
<1>1. /\ todo = <<>> /\ age = [a \in Aircraft |-> Null] /\ withdrawn = FALSE
      /\ token.left = 0 /\ token.use = 0
  BY DEF Init, ClientInit, NoToken
<1>2. age \in [Aircraft -> 0..Null]
  BY <1>1, FlightPlanAssumption DEF Null
<1>3. todo \in Seq({todo[i] : i \in DOMAIN todo}) /\ Len(todo) <= MAX_FETCHES_PER_CYCLE
  BY <1>1, NoneLeft, FlightPlanAssumption
<1>4. token.left <= Lifetime /\ token.use <= Lifetime
  BY <1>1, OpenSkyAssumption
<1> QED BY <1>1, <1>2, <1>3, <1>4 DEF PlanInv

\* No step lengthens a token beyond what it was issued for.
LEMMA TokenStep ==
    ASSUME ClientInv, PlanInv, [Next]_vars
    PROVE  token'.left <= Lifetime /\ token'.use <= Lifetime
<1>1. CASE UNCHANGED token
  BY <1>1 DEF PlanInv
<1>2. CASE token' = NoToken
  BY <1>2, OpenSkyAssumption DEF NoToken
<1>3. CASE Tick
  <2>1. /\ token'.left = Minus(token.left, 1) /\ token'.use = Minus(token.use, 1)
        /\ token.left \in Nat /\ token.use \in Nat
    BY <1>3 DEF Tick, ClientInv, TokenInv
  <2>2. token.left <= Lifetime /\ token.use <= Lifetime /\ Lifetime \in Nat
    BY OpenSkyAssumption DEF PlanInv
  <2>3. /\ token'.left <= token.left /\ token'.left \in Nat
        /\ token'.use <= token.use /\ token'.use \in Nat
    BY <2>1, MinusOne
  <2> QED BY <2>1, <2>2, <2>3
<1>4. CASE Revoke
  BY <1>4 DEF Revoke, ClientInv, TokenInv, PlanInv
<1>5. ASSUME NEW k \in 0..call.waited,
             token' = [left |-> Lifetime - k, use |-> Handed(call.waited), good |-> TRUE]
      PROVE  token'.left <= Lifetime /\ token'.use <= Lifetime
  <2>1. call.waited \in Nat
    BY OpenSkyAssumption DEF ClientInv, CallInv
  <2> QED BY <1>5, <2>1, OpenSkyAssumption DEF Handed, Minus
<1>6. ClientStep => UNCHANGED token \/ token' = NoToken \/
        \E k \in 0..call.waited :
            token' = [left |-> Lifetime - k, use |-> Handed(call.waited), good |-> TRUE]
  BY DEF ClientStep, GetToken, FetchToken, Send, Respond, NextAttempt, Refused, End
<1> QED BY <1>1, <1>2, <1>3, <1>4, <1>5, <1>6
        DEF Next, RunStep, World, Begin, Lookup, Ask, Settle, Fail, Restore, Withdraw,
            vars, clientVars

LEMMA PlanStep ==
    ASSUME ClientInv, PlanInv, [Next]_vars
    PROVE  PlanInv'
<1>1. withdrawn' \in BOOLEAN
  BY DEF PlanInv, Next, RunStep, World, Begin, Lookup, Ask, Settle, Fail, Restore, Tick,
         Revoke, Withdraw, ClientStep, GetToken, FetchToken, Send, Respond, vars, clientVars
<1>2. token'.left <= Lifetime /\ token'.use <= Lifetime
  BY TokenStep
<1>3. CASE Begin
  <2>1. age' = [a \in Aircraft |-> IF age[a] < MaxAge THEN age[a] + 1 ELSE age[a]]
    BY <1>3 DEF Begin
  <2>2. age' \in [Aircraft -> 0..Null]
    BY <2>1, FlightPlanAssumption DEF PlanInv, Null
  <2>3. \E stale \in SUBSET Aircraft : todo' = Cut(stale)
    BY <1>3 DEF Begin
  <2> QED BY <1>1, <1>2, <2>2, <2>3, CutIsCapped DEF PlanInv
<1>4. CASE UNCHANGED planVars
  BY <1>1, <1>2, <1>4 DEF PlanInv, planVars
<1>5. CASE UNCHANGED age /\ todo' = <<>>
  BY <1>1, <1>2, <1>5, NoneLeft, FlightPlanAssumption DEF PlanInv
<1>6. CASE Store /\ call.at # "idle"
  <2>1. todo # <<>> /\ age' = [age EXCEPT ![Head(todo)] = 0] /\ todo' = Tail(todo)
    BY <1>6 DEF Store, ClientInv, CallInv
  <2>2. age' \in [Aircraft -> 0..Null]
    <3>1. 0 \in 0..Null
      BY FlightPlanAssumption DEF Null
    <3> QED BY <2>1, <3>1 DEF PlanInv
  <2>3. todo' \in Seq({todo'[i] : i \in DOMAIN todo'}) /\ Len(todo') <= MAX_FETCHES_PER_CYCLE
    BY <2>1, TailIsShorter, FlightPlanAssumption DEF PlanInv
  <2> QED BY <1>1, <1>2, <2>2, <2>3 DEF PlanInv
<1>7. Settle => (Store /\ call.at # "idle") \/ (UNCHANGED age /\ todo' = <<>>)
  BY DEF Settle
<1> QED BY <1>3, <1>4, <1>5, <1>6, <1>7
        DEF Next, RunStep, World, Lookup, Fail, Restore, vars

\* Every variable keeps its type: no token outlasts what it was issued for, a
\* cycle never looks up more than its cap, and the client is idle between cycles
\* (flight_plan_enrichment, OpenSkyResource).
THEOREM TypeCorrect == Spec => []TypeOK
<1>1. ClientInv /\ PlanInv => TypeOK
  <2> SUFFICES ASSUME ClientInv, PlanInv PROVE TypeOK
    OBVIOUS
  <2>1. token \in [left : 0..Lifetime, use : 0..Lifetime, good : BOOLEAN]
    <3>1. token \in [left : Nat, use : Nat, good : BOOLEAN]
      BY DEF ClientInv, TokenInv
    <3>2. token.left \in 0..Lifetime /\ token.use \in 0..Lifetime
      BY <3>1, OpenSkyAssumption DEF PlanInv
    <3> QED BY <3>1, <3>2
  <2> QED BY <2>1 DEF ClientInv, CallInv, PlanInv, TypeOK
<1>2. ClientInv /\ PlanInv /\ [Next]_vars => (ClientInv /\ PlanInv)'
  BY ClientInvStep, PlanStep
<1> QED BY ClientInitial, PlanInitial, <1>1, <1>2, PTL DEF Spec
=============================================================================
