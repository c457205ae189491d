----------------------------- MODULE MCPatchTask -----------------------------
(***************************************************************************)
(* The instance of PatchTask that TLC checks: three tiers and four         *)
(* attempts, so that the last tier is reached by verdicts alone, and a     *)
(* policy that is drafted, activated, replaced and rolled back.            *)
(***************************************************************************)
EXTENDS PatchTask, TLC

CONSTANTS p1, p2, source, test

R(provider, model) == [provider |-> provider, model |-> model]
Pro == R("deepseek", "pro")
Codex == R("codex", "gpt")
Claude == R("claude", "sonnet")

AllRoutes == {Pro, Codex, Claude}
StaticChain == <<Pro, Codex, Claude>>
Drafts == {<<Pro, Claude>>, <<Codex>>}
Lists == {AllRoutes, {Codex, Claude}}

(* A policy is read when an attempt resolves its route, and nowhere else:  *)
(* it changes while no attempt runs, after the first one only by an        *)
(* activation or a rollback; a draft passes its canary once.  Versions and *)
(* attempts under a policy are at most three together.                     *)
OwnerActsBetween ==
    policies' # policies =>
        /\ \A p \in Processes : run[p] = NoRun
        /\ task.state = "queued" /\ faults = 0
        /\ task.attempt = 0 \/ (task.attempt = 1 /\ Active' # Active)
        /\ canary' # canary /\ canary' # NoCanary => ~Passed(canary'.version)

Apart == /\ versions # <<>> => ~stalled
         /\ Len(versions) + task.attempt <= IF versions = <<>> THEN MaxAttempts ELSE 3

Symmetry == Permutations({p1, p2}) \cup Permutations({source, test})

=============================================================================
