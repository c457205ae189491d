------------------------------- MODULE Routing -------------------------------
(***************************************************************************)
(* The route of an attempt at a programming task: the owner's policy where *)
(* one is active (policy/simulate-route.ts, policy/execution-permission.ts)*)
(* and the static chain of tiers where none is, or where it has nothing to *)
(* offer (operations/policy-route-resolver.ts, gateway/model-policy.ts).   *)
(* Both read what earlier attempts left: the rows of provider_artifacts,   *)
(* one for each patch that was judged.                                     *)
(***************************************************************************)
EXTENDS Naturals, Sequences, FiniteSets

CONSTANTS
    Routes,         \* records with a provider and a model
    Chain           \* modelRoutes(taskClass): the tiers, cheapest first

Tier == [deepseek |-> 0, codex |-> 1, claude |-> 2]

ASSUME RoutingAssumption ==
    /\ \A r \in Routes : r.provider \in DOMAIN Tier
    /\ Chain \in Seq(Routes) /\ Chain # <<>>
    /\ \A i, j \in DOMAIN Chain : Chain[i] = Chain[j] => i = j

Artifact == [attempt : Nat, route : Routes, status : {"accepted", "rejected"}]

(* RuntimePolicy.routesByTaskClass for the task's class, by priority.      *)
Policy == Seq(Routes)

validatePolicy(policy) ==
    /\ policy # <<>>
    /\ policy[1].provider = "deepseek"
    /\ \A i, j \in DOMAIN policy :
          i < j => Tier[policy[i].provider] <= Tier[policy[j].provider]

-----------------------------------------------------------------------------
verifiedFailure(artifacts, provider) ==
    \E i \in DOMAIN artifacts : /\ artifacts[i].route.provider = provider
                               /\ artifacts[i].status = "rejected"

(* The resolver passes no owner override; only the preview does.           *)
technicalExecutionAllowed(provider, artifacts, override) ==
    CASE provider = "deepseek" -> TRUE
      [] provider = "codex" -> verifiedFailure(artifacts, "deepseek") \/ override
      [] OTHER -> /\ verifiedFailure(artifacts, "deepseek")
                  /\ verifiedFailure(artifacts, "codex")

Eligible(policy, artifacts, available, override) ==
    SelectSeq(policy, LAMBDA r : /\ r \in available
                                 /\ technicalExecutionAllowed(r.provider, artifacts,
                                                              override))

simulateProgrammingRoute(policy, artifacts, available, override) ==
    IF validatePolicy(policy) THEN Eligible(policy, artifacts, available, override)
    ELSE <<>>

-----------------------------------------------------------------------------
Verdicts(artifacts, route) == {i \in DOMAIN artifacts : artifacts[i].route = route}

(* A DeepSeek model may repair its first rejected patch.                   *)
isDeepSeekRepairRetryEligible(artifacts, i) ==
    /\ artifacts[i].route.provider = "deepseek"
    /\ artifacts[i].status = "rejected"
    /\ Cardinality(Verdicts(artifacts, artifacts[i].route)) = 1

settled(artifacts) ==
    {artifacts[i].route : i \in {j \in DOMAIN artifacts :
                                    ~isDeepSeekRepairRetryEligible(artifacts, j)}}

(* Fault: every earlier attempt counts as one without a verdict.           *)
unsettledAll(artifacts, ordinal) == ordinal - 1

(* Attempts that left no verdict.                                          *)
unsettled(artifacts, ordinal) ==
    IF ordinal - 1 > Len(artifacts) THEN ordinal - 1 - Len(artifacts) ELSE 0

(* `available` is empty when no model could be listed: then all may be     *)
(* tried.  The task's own route, the chain's first, is the last resort.    *)
Open(available) == {i \in DOMAIN Chain : available = {} \/ Chain[i] \in available}

Remaining(artifacts, available) ==
    {i \in Open(available) : Chain[i] \notin settled(artifacts)}

Last(tiers) == CHOOSE i \in tiers : \A j \in tiers : j <= i

(* Where the first `skip` of the remaining tiers lead to, or the last one. *)
Before(tiers, i) == {j \in tiers : j < i}
Within(tiers, skip) == {i \in tiers : Cardinality(Before(tiers, i)) <= skip}

nextStaticTier(artifacts, available, ordinal) ==
    LET open == Open(available)
        remaining == Remaining(artifacts, available)
        skip == unsettled(artifacts, ordinal) \div 2
    IN Chain[IF open = {} THEN 1
             ELSE IF remaining = {} THEN Last(open)
             ELSE Last(Within(remaining, skip))]

staticRouteFor(route) == \E i \in DOMAIN Chain : Chain[i] = route

(* `active` is a sequence of at most one policy.  The chain reads the rows *)
(* and the models anew: `rows` and `listed`.                               *)
resolve(active, artifacts, available, rows, listed, ordinal) ==
    LET choice == IF active = <<>> THEN <<>>
                  ELSE simulateProgrammingRoute(active[1], artifacts,
                                                available \ settled(artifacts), FALSE)
    IN IF choice # <<>> /\ staticRouteFor(choice[1]) THEN choice[1]
       ELSE nextStaticTier(rows, listed, ordinal)

=============================================================================
