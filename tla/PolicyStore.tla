----------------------------- MODULE PolicyStore -----------------------------
(***************************************************************************)
(* The versions of the owner's routing policy under one policy key         *)
(* (policy/postgres-policy-store.ts, policy/owner-policy-service.ts): a    *)
(* draft becomes active through a live canary, validation and approval,    *)
(* activation supersedes the version that was active, and a rollback       *)
(* activates a copy of a superseded one.  A method is one transaction, and *)
(* the ones that may meet are ordered by an advisory lock or by the state  *)
(* they update from, so each is one action.  The canary                    *)
(* (scripts/policy-canary.ts) is not: it reads the draft, calls a model    *)
(* per route, and records its evidence in the end, whatever the owner does *)
(* to the versions in between.                                             *)
(***************************************************************************)
EXTENDS Routing

CONSTANTS
    Policies,       \* policies the owner may draft
    MaxVersions     \* bound on the versions

ASSUME PolicyAssumption == Policies \subseteq Policy /\ MaxVersions \in Nat

VARIABLES
    versions,       \* orchestration_policies, by version
    events,         \* policy_events of each version, in order
    canary          \* the canary that runs, if any, and the routes it has left

policies == <<versions, events, canary>>

Version == [state : {"draft", "validated", "approved", "active", "superseded"},
            policy : Policies]

NoCanary == [version |-> 0, left |-> {}]

PolicyTypeOK ==
    /\ versions \in Seq(Version) /\ Len(versions) <= MaxVersions
    /\ DOMAIN events = DOMAIN versions
    /\ canary.version \in 0..Len(versions) /\ canary.left \subseteq Routes

PolicyInit == versions = <<>> /\ events = <<>> /\ canary = NoCanary

In(v, state) == versions[v].state = state
Log(v, type) == events' = [events EXCEPT ![v] = Append(@, type)]

createDraft(policy) ==
    /\ Len(versions) < MaxVersions
    /\ versions' = Append(versions, [state |-> "draft", policy |-> policy])
    /\ events' = Append(events, <<"draft_created">>)
    /\ UNCHANGED canary

(* distinctDraftRoutes() refuses a route the gateway does not have.        *)
Exercised(policy) == {policy[i] : i \in DOMAIN policy}

StartCanary(v) ==
    /\ canary = NoCanary
    /\ \A r \in Exercised(versions[v].policy) : staticRouteFor(r)
    /\ canary' = [version |-> v, left |-> Exercised(versions[v].policy)]
    /\ UNCHANGED <<versions, events>>

RouteAnswers(r) ==
    /\ r \in canary.left
    /\ canary' = [canary EXCEPT !.left = @ \ {r}]
    /\ UNCHANGED <<versions, events>>

(* One route that fails refuses the whole batch, as does an empty one.     *)
CanaryFails ==
    /\ canary # NoCanary
    /\ canary' = NoCanary
    /\ UNCHANGED <<versions, events>>

recordCanaryEvidence ==
    /\ canary # NoCanary /\ canary.left = {}
    /\ versions[canary.version].policy # <<>>
    /\ Log(canary.version, "canary_passed")
    /\ canary' = NoCanary
    /\ UNCHANGED versions

Passed(v) == \E i \in DOMAIN events[v] : events[v][i] = "canary_passed"

Moves(v, from, to) ==
    /\ In(v, from)
    /\ versions' = [versions EXCEPT ![v].state = to]
    /\ Log(v, to)
    /\ UNCHANGED canary

(* Fault: the structure is checked, the evidence is not asked for.         *)
validateUnproved(v) ==
    /\ validatePolicy(versions[v].policy)
    /\ Moves(v, "draft", "validated")

validate(v) ==
    /\ validatePolicy(versions[v].policy)
    /\ Passed(v)
    /\ Moves(v, "draft", "validated")

approve(v) == Moves(v, "validated", "approved")

(* activateTarget() on a table that may just have gained the target.       *)
Activated(rows, v) ==
    [u \in DOMAIN rows |->
        IF u = v THEN [rows[u] EXCEPT !.state = "active"]
        ELSE IF rows[u].state = "active" THEN [rows[u] EXCEPT !.state = "superseded"]
        ELSE rows[u]]

ActivationLog(rows, log, v) ==
    [u \in DOMAIN log |->
        IF u = v THEN Append(log[u], "activated")
        ELSE IF rows[u].state = "active" THEN Append(log[u], "superseded")
        ELSE log[u]]

activate(v) ==
    /\ In(v, "approved")
    /\ versions' = Activated(versions, v)
    /\ events' = ActivationLog(versions, events, v)
    /\ UNCHANGED canary

rollback(target) ==
    /\ In(target, "superseded")
    /\ Len(versions) < MaxVersions
    /\ LET rows == Append(versions, [versions[target] EXCEPT !.state = "approved"])
           log == Append(events, <<"rollback_created">>)
       IN /\ versions' = Activated(rows, Len(rows))
          /\ events' = ActivationLog(rows, log, Len(rows))
    /\ UNCHANGED canary

(* The policy active() finds, as a sequence of at most one.                *)
Active == [i \in 1..Cardinality({v \in DOMAIN versions : In(v, "active")}) |->
             versions[CHOOSE v \in DOMAIN versions : In(v, "active")].policy]

PolicyNext ==
    \/ \E policy \in Policies : createDraft(policy)
    \/ \E v \in DOMAIN versions : \/ StartCanary(v) \/ validate(v) \/ approve(v)
                                  \/ activate(v) \/ rollback(v)
    \/ \E r \in Routes : RouteAnswers(r)
    \/ CanaryFails
    \/ recordCanaryEvidence

-----------------------------------------------------------------------------
(* At most one version is active, and no version gets past its draft with  *)
(* a policy that was not exercised live on every route, validated and      *)
(* approved, in this order, as itself or as the version it was copied from *)
(* by rollbacks; although the canary reads the draft long before.          *)
Proved(v, approved) ==
    \E i, j \in DOMAIN events[v] :
        /\ i < j /\ events[v][i] = "canary_passed" /\ events[v][j] = "validated"
        /\ approved => \E k \in DOMAIN events[v] : j < k /\ events[v][k] = "approved"

ActiveIsProved ==
    /\ PolicyTypeOK
    /\ \A u, v \in DOMAIN versions : In(u, "active") /\ In(v, "active") => u = v
    /\ \A v \in DOMAIN versions : ~In(v, "draft") =>
          /\ validatePolicy(versions[v].policy)
          /\ \E u \in 1..v : /\ versions[u].policy = versions[v].policy
                             /\ Proved(u, ~In(v, "validated"))

=============================================================================
