----------------------------- MODULE CaseOutbox -----------------------------
(***************************************************************************)
(* What the push half of the Case sync promises, without passes, locks,    *)
(* attempts or messages: a filed high-severity Case is queued, Salesforce  *)
(* accepts it at most once, and the local row is closed either as          *)
(* delivered - only when Salesforce really holds the Case - or as parked.  *)
(***************************************************************************)
CONSTANTS
    Cases,      \* case ids of app.cases
    High        \* the Cases the detector files with severity "high"

VARIABLES
    st,         \* st[c]: where Case c stands locally
    remote      \* the Cases Salesforce holds

vars == <<st, remote>>

States == {"absent", "skipped", "queued", "delivered", "parked"}

Init ==
    /\ st = [c \in Cases |-> "absent"]
    /\ remote = {}

\* The detector files a Case; only a high-severity one is ever meant to leave.
File(c) ==
    /\ st[c] = "absent"
    /\ st' = [st EXCEPT ![c] = IF c \in High THEN "queued" ELSE "skipped"]
    /\ UNCHANGED remote

\* Salesforce accepts the Case. The row may already be parked: the request of
\* the last attempt can still be under way when the pass gives up on it.
Accept(c) ==
    /\ st[c] \in {"queued", "parked"}
    /\ c \notin remote
    /\ remote' = remote \cup {c}
    /\ UNCHANGED st

Deliver(c) ==
    /\ st[c] = "queued"
    /\ c \in remote
    /\ st' = [st EXCEPT ![c] = "delivered"]
    /\ UNCHANGED remote

Park(c) ==
    /\ st[c] = "queued"
    /\ st' = [st EXCEPT ![c] = "parked"]
    /\ UNCHANGED remote

Next == \E c \in Cases : File(c) \/ Accept(c) \/ Deliver(c) \/ Park(c)

Spec == Init /\ [][Next]_vars
=============================================================================
