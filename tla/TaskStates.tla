----------------------------- MODULE TaskStates -----------------------------
(***************************************************************************)
(* The task state machine of work/state-machine.ts: the states a task row  *)
(* may have, the moves the code admits between them, and the failure       *)
(* reasons that may be retried.  Everything here is constant.              *)
(***************************************************************************)

(* The moves admitted from each state; the three terminal states have none. *)
transitionMap ==
    [ draft          |-> {"queued", "cancelled"},
      queued         |-> {"cancelled", "budget_blocked", "failed"},
      leased         |-> {"running", "queued", "cancelled"},
      running        |-> {"verifying", "retry_wait", "queued", "needs_approval",
                          "budget_blocked", "failed", "cancelled"},
      verifying      |-> {"succeeded", "retry_wait", "queued",
                          "budget_blocked", "failed"},
      retry_wait     |-> {"queued", "cancelled", "budget_blocked"},
      needs_approval |-> {"queued", "cancelled"},
      budget_blocked |-> {"queued", "cancelled"},
      succeeded      |-> {},
      failed         |-> {},
      cancelled      |-> {} ]

TaskState == {"draft", "queued", "leased", "running", "verifying",
              "retry_wait", "needs_approval", "budget_blocked",
              "succeeded", "failed", "cancelled"}

(* A worker holds the task. *)
workerStates == {"leased", "running", "verifying"}

(* States a caller without a lease may move a task out of. *)
controlSources == {"draft", "queued", "retry_wait", "needs_approval",
                   "budget_blocked"}

terminalStates == {"succeeded", "failed", "cancelled"}

canTransition(from, to) == to \in transitionMap[from]

FailureReason == {"rate_limit", "timeout", "invalid_output", "verification",
                  "authentication", "provider_outage", "budget", "policy",
                  "worker"}

(* An authentication, policy or budget failure is never retried. *)
retryable(reason) == reason \notin {"authentication", "policy", "budget"}
=============================================================================
