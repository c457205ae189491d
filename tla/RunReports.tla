----------------------------- MODULE RunReports ------------------------------
(***************************************************************************)
(* What TelegramRunNotifier tells the owner when a task ends, and the      *)
(* facts it reads for that (operations/run-notifier.ts): the choice        *)
(* between silence, the assistant's answer, the summary of a build and a   *)
(* report, and the provider a report names.                                *)
(*                                                                         *)
(* A spec is the row of operation_task_specs, reduced to the fields the    *)
(* choice looks at; a row of an attempts table is a provider's spend on    *)
(* the task, as PostgresRunFacts.usageFor() groups it.                     *)
(***************************************************************************)
EXTENDS Naturals

CONSTANTS Providers

Drivers == {"conversation_reply", "ai_patch_executor", "blueprint_translation",
            "deterministic_sha256"}

(* "inner" is phase-n-of-m with n before m; a build whose label is absent, *)
(* "complete" or of an unknown form counts as the last one.                *)
Phases == {"inner", "last", "complete", "none", "unknown"}

TaskSpecs == [driver : Drivers, generation : BOOLEAN, probe : BOOLEAN,
              phase : Phases, project : BOOLEAN]

Outcomes == {"succeeded", "failed", "cancelled", "retry_wait", "blocked"}

SILENT_OUTCOMES == {"retry_wait"}

Spend == [provider : Providers, cost : Nat, accepted : BOOLEAN]

isFinalGenerationPhase(spec) == spec.phase # "inner"

shouldNotify(spec, outcome) ==
    /\ ~spec.probe
    /\ outcome = "succeeded" =>
          /\ spec.driver \notin {"deterministic_sha256", "blueprint_translation"}
          /\ spec.driver = "ai_patch_executor" => isFinalGenerationPhase(spec)

(* The summary of a whole run, for the last phase of a project's build.    *)
runSummaryFor(spec) ==
    /\ spec.driver = "ai_patch_executor" /\ spec.generation
    /\ spec.project
    /\ isFinalGenerationPhase(spec)

(* The facts taskFinished() reads.  A read that fails is swallowed.        *)
Facts == {"policy", "usage", "summary"}

(* What taskFinished() sends of a task that is no reply, given the reads   *)
(* that failed: silence needs the policy, a summary its facts.             *)
FormOf(spec, outcome, unread) ==
    IF \/ outcome \in SILENT_OUTCOMES
       \/ "policy" \notin unread /\ ~shouldNotify(spec, outcome) THEN "silent"
    ELSE IF /\ outcome = "succeeded"
            /\ "summary" \notin unread /\ runSummaryFor(spec) THEN "summary"
    ELSE "report"

(* ORDER BY accepted DESC NULLS LAST, SUM(cost) DESC LIMIT 1: the order of *)
(* the attempts that are left is the database's.                           *)
Before(r, s) == \/ r.accepted /\ ~s.accepted
                \/ r.accepted = s.accepted /\ r.cost >= s.cost

(* Fault: the costliest attempt, whether or not anything was accepted.     *)
costliest(rows) == {r \in rows : \A s \in rows : r.cost >= s.cost}

usageFor(rows) == {r \in rows : \A s \in rows : Before(r, s)}

(* usageFor(...).catch(() => ({})): a read that failed found no row.       *)
RowsRead(rows, unread) == IF "usage" \in unread THEN {} ELSE rows

(* "No provider call was made, nothing was charged.", by the rows read.    *)
SaysFree(outcome, rows) == outcome = "failed" /\ rows = {}

=============================================================================
