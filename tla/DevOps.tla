------------------------------- MODULE DevOps -------------------------------
(***************************************************************************)
(* packages/handler/src/handlerDevOps.ts: grant when the rules of a        *)
(* virtual host come from the application, at its /rules.json or at the    *)
(* RULES_URL that nginx names, and are kept for ten minutes.  The request  *)
(* for the rules is opened but never ended: request.end is called in the   *)
(* callback that waits for its answer, where the listener of its errors is *)
(* set as well.  In the ES module build there is no require, so no request *)
(* is opened at all; this is the CommonJS build.                           *)
(***************************************************************************)
EXTENDS Naturals

CONSTANTS
    Requests,      \* requests of users with a session
    Vhosts,        \* virtual hosts, those of the rules' URLs among them
    Configured     \* those of them with rules in the configuration of the handler

VARIABLES
    alive,      \* the process has not ended
    default,    \* hosts with a tsv.defaultCondition
    fresh,      \* hosts whose tsv.lastVhostUpdate is less than 600 s ago
    grants      \* per request, where its grant is

vars == <<alive, default, fresh, grants>>

\* target is the host that the rules are asked of, and under which they are kept.
Idle == [at |-> "idle"]
Granting(host) == [at |-> "granting", host |-> host]
Loading(host, target) == [at |-> "loading", host |-> host, target |-> target]
Answered == [at |-> "answered"]

Cached(host) == host \in default /\ host \in fresh

-----------------------------------------------------------------------------

\* run finds the session and calls grant.
Arrive(r, host) ==
    /\ alive /\ grants[r] = Idle
    /\ grants' = [grants EXCEPT ![r] = Granting(host)]
    /\ UNCHANGED <<alive, default, fresh>>

\* The rules at hand decide, one way or the other.
GrantCached(r) ==
    /\ alive /\ grants[r].at = "granting" /\ Cached(grants[r].host)
    /\ grants' = [grants EXCEPT ![r] = Answered]
    /\ UNCHANGED <<alive, default, fresh>>

\* The URL of the rules is none: grant is rejected, and the answer 503.
GrantBadUrl(r) ==
    /\ alive /\ grants[r].at = "granting" /\ ~Cached(grants[r].host)
    /\ grants' = [grants EXCEPT ![r] = Answered]
    /\ UNCHANGED <<alive, default, fresh>>

\* loadVhostConfig: the request's own host, or the one RULES_URL names.
Load(r) ==
    /\ alive /\ grants[r].at = "granting" /\ ~Cached(grants[r].host)
    /\ \E target \in Vhosts :
          grants' = [grants EXCEPT ![r] = Loading(@.host, target)]
    /\ UNCHANGED <<alive, default, fresh>>

\* A server may say of itself that it waited too long.  What it says counts as
\* the rules: nothing, which lets everyone in; rules; an object without rules,
\* which leaves the default alone; or something else, which is refused.  Either
\* way grant is called again.
ResponseEnds(r) ==
    /\ alive /\ grants[r].at = "loading"
    /\ \E body \in {"empty", "rules", "object", "other"} :
          /\ default' = IF body \in {"empty", "rules"}
                        THEN default \cup {grants[r].target} ELSE default
          /\ fresh' = IF body # "other" THEN fresh \cup {grants[r].target} ELSE fresh
    /\ grants' = [grants EXCEPT ![r] = Granting(@.host)]
    /\ UNCHANGED alive

\* The connection is refused, or closed by a server that got nothing; the error
\* has no listener yet, and ends the process.
ConnectionFails(r) ==
    /\ alive /\ grants[r].at = "loading"
    /\ alive' = FALSE
    /\ UNCHANGED <<default, fresh, grants>>

\* Ten minutes pass.
Expire(host) ==
    /\ host \in fresh
    /\ fresh' = fresh \ {host}
    /\ UNCHANGED <<alive, default, grants>>

-----------------------------------------------------------------------------

\* The configuration does not set lastVhostUpdate, and undefined is never recent.
Init ==
    /\ alive = TRUE
    /\ default = Configured
    /\ fresh = {}
    /\ grants = [r \in Requests |-> Idle]

Next ==
    \/ \E r \in Requests :
          \/ \E host \in Vhosts : Arrive(r, host)
          \/ GrantCached(r) \/ GrantBadUrl(r) \/ Load(r)
          \/ ResponseEnds(r) \/ ConnectionFails(r)
    \/ \E host \in Vhosts : Expire(host)

\* What the process can do it does, and a connection on which nothing is sent is
\* not kept for ever.
Fairness ==
    \A r \in Requests :
        /\ WF_vars(GrantCached(r) \/ GrantBadUrl(r) \/ Load(r))
        /\ WF_vars(ResponseEnds(r) \/ ConnectionFails(r))

Spec == Init /\ [][Next]_vars /\ Fairness

-----------------------------------------------------------------------------

\* Every request to a virtual host that the DevOps handler protects is answered.
RulesAnswer ==
    \A r \in Requests : grants[r].at = "granting" ~> grants[r].at = "answered"
=============================================================================
