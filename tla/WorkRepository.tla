--------------------------- MODULE WorkRepository ---------------------------
(***************************************************************************)
(* The durable task and lease engine: work/postgres-repository.ts over the *)
(* tables of migrations/0003_work_engine.sql, together with the one other  *)
(* writer of those tables, the owner's cancel route of control-api/app.ts. *)
(*                                                                         *)
(* Every public method is one PostgreSQL transaction and one action here.  *)
(* A call that throws rolls its transaction back: it changes nothing, so   *)
(* it is a stuttering step and no action describes it.  A caller presents  *)
(* a fencing token; any token ever issued may be presented at any time, so *)
(* the calls of workers that lost their lease are among the behaviours.    *)
(***************************************************************************)
EXTENDS TaskStates, Integers, FiniteSets, Sums

CONSTANTS
    Tasks,          \* tasks, one per (contract_id, idempotency_key)
    Contracts,      \* factory_contracts rows
    ContractOf,     \* the contract of each task
    MaxAttempts,    \* tasks.max_attempts
    TaskMax,        \* tasks.max_cost_usd_micros
    ContractMax,    \* factory_contracts.max_cost_usd_micros
    CostIds,        \* identifiers a caller may give a cost
    Amounts,        \* amounts a caller may record
    Ttl,            \* ticks a lease lives without a heartbeat
    ReplyTasks      \* tasks whose driver is conversation_reply

ASSUME WorkAssumption ==
    /\ ContractOf \in [Tasks -> Contracts]
    /\ MaxAttempts \in [Tasks -> Nat \ {0}]
    /\ TaskMax \in [Tasks -> Nat]
    /\ ContractMax \in [Contracts -> Nat]
    /\ Amounts \subseteq Nat
    /\ Ttl \in Nat \ {0}
    /\ ReplyTasks \subseteq Tasks

VARIABLES
    state,          \* tasks.state, "absent" before submit
    attemptCount,   \* tasks.attempt_count
    nextAttempt,    \* tasks.next_attempt_at: none, waiting or due
    spent,          \* tasks.spent_usd_micros
    contractSpent,  \* factory_contracts.spent_usd_micros
    lease,          \* task_leases: the row's token (0: no row), ticks left
    attempts,       \* task_attempts, by ordinal ("none": no row)
    costs,          \* task_costs
    fence,          \* last value of task_fencing_token_seq
    stopped         \* factory_controls.emergency_stopped

vars == <<state, attemptCount, nextAttempt, spent, contractSpent, lease,
          attempts, costs, fence, stopped>>

-----------------------------------------------------------------------------
(* Rows.                                                                   *)

NoLease == [token |-> 0, left |-> 0]

(* The CHECK on task_attempts.state: narrower than the states a worker may *)
(* ask for, so an update outside it aborts the whole transaction.          *)
AttemptState == {"leased", "running", "verifying", "retry_wait",
                 "succeeded", "failed", "cancelled"}

(* token and writer are not columns.  They record the fencing token issued *)
(* with the attempt, and the token under which a worker last wrote the row *)
(* (0 before any did): what fencing is about.                              *)
NoAttempt == [state |-> "none", finished |-> FALSE, token |-> 0, writer |-> 0]

Attempt == [state : AttemptState \cup {"none"}, finished : BOOLEAN,
            token : Nat, writer : Nat]

Cost == [id : CostIds, task : Tasks, amount : Amounts]

(* The worker row a statement with "a.ordinal = t.attempt_count" reaches.  *)
current(t) == attempts[t][attemptCount[t]]

(* Fault: the holder is checked by the lease being alive, not by its token. *)
LiveUnfenced(t, k) == k # 0 /\ lease[t].token # 0 /\ lease[t].left > 0

Live(t, k) == k # 0 /\ lease[t].token = k /\ lease[t].left > 0

Expired(t) == lease[t].token # 0 /\ lease[t].left = 0

Exhausted(t) == \/ spent[t] >= TaskMax[t]
                \/ contractSpent[ContractOf[t]] >= ContractMax[ContractOf[t]]

(* Fault: the last value of the sequence is read instead of the next.      *)
TokenReused == IF fence = 0 THEN 1 ELSE fence

(* The column default: nextval of task_fencing_token_seq.                  *)
NextToken == fence + 1

Closed(row, s) == [row EXCEPT !.state = s, !.finished = TRUE]

(* A current attempt row closed from outside, by whoever took the task     *)
(* away from its worker; a row already finished is left as it is.          *)
Close(t, s) == IF attemptCount[t] = 0 \/ current(t).finished
                 THEN attempts[t]
                 ELSE [attempts[t] EXCEPT ![attemptCount[t]] = Closed(@, s)]

-----------------------------------------------------------------------------
Init ==
    /\ state = [t \in Tasks |-> "absent"]
    /\ attemptCount = [t \in Tasks |-> 0]
    /\ nextAttempt = [t \in Tasks |-> "none"]
    /\ spent = [t \in Tasks |-> 0]
    /\ contractSpent = [c \in Contracts |-> 0]
    /\ lease = [t \in Tasks |-> NoLease]
    /\ attempts = [t \in Tasks |-> [n \in 1..MaxAttempts[t] |-> NoAttempt]]
    /\ costs = {}
    /\ fence = 0
    /\ stopped = FALSE

(* submit(): a second submit with the same key returns the existing row.   *)
Submit(t) ==
    /\ state[t] = "absent"
    /\ state' = [state EXCEPT ![t] = "draft"]
    /\ UNCHANGED <<attemptCount, nextAttempt, spent, contractSpent, lease,
                   attempts, costs, fence, stopped>>

(* controlTransition(): no lease is needed, and only a due retry may leave *)
(* retry_wait.                                                             *)
ControlTransition(t, from, to) ==
    /\ from \in controlSources
    /\ canTransition(from, to)
    /\ state[t] = from
    /\ from = "retry_wait" => nextAttempt[t] = "due"
    /\ state' = [state EXCEPT ![t] = to]
    /\ nextAttempt' = [nextAttempt EXCEPT ![t] = "none"]
    /\ UNCHANGED <<attemptCount, spent, contractSpent, lease, attempts, costs,
                   fence, stopped>>

(* What lease() leaves to claim: an expired holder of the same task is     *)
(* evicted first, in the same transaction.                                 *)
Claimable(t) ==
    \/ state[t] = "queued"
    \/ state[t] \in workerStates /\ Expired(t)

(* lease() commits only when it claims: when the attempts or the budget    *)
(* are exhausted the row it has just moved to failed or budget_blocked is  *)
(* no longer queued, nothing is claimed, the call throws and the move is   *)
(* rolled back.                                                            *)
CanLease(t) ==
    /\ Claimable(t)
    /\ attemptCount[t] < MaxAttempts[t]
    /\ ~Exhausted(t)
    /\ ~stopped
    /\ lease[t].token = 0 \/ Expired(t)      \* PRIMARY KEY(task_id)

Lease(t) ==
    /\ CanLease(t)
    /\ state' = [state EXCEPT ![t] = "leased"]
    /\ attemptCount' = [attemptCount EXCEPT ![t] = @ + 1]
    /\ fence' = NextToken
    /\ lease' = [lease EXCEPT ![t] = [token |-> NextToken, left |-> Ttl]]
    /\ attempts' = [attempts EXCEPT ![t][attemptCount[t] + 1] =
                       [state |-> "leased", finished |-> FALSE,
                        token |-> NextToken, writer |-> 0]]
    /\ UNCHANGED <<nextAttempt, spent, contractSpent, costs, stopped>>

Heartbeat(t, k) ==
    /\ Live(t, k)
    /\ ~stopped
    /\ lease' = [lease EXCEPT ![t].left = Ttl]
    /\ UNCHANGED <<state, attemptCount, nextAttempt, spent, contractSpent,
                   attempts, costs, fence, stopped>>

(* Fault: the attempt row is only updated when the attempt ends.           *)
WrittenAtEnd(row, k, to) ==
    IF to \in workerStates
      THEN [row EXCEPT !.writer = k]
      ELSE [row EXCEPT !.state = to, !.finished = TRUE, !.writer = k]

(* The attempt row as transition() writes it.                              *)
Written(row, k, to) ==
    [row EXCEPT !.state = to,
                !.finished = @ \/ to \in {"succeeded", "failed", "cancelled",
                                          "retry_wait"},
                !.writer = k]

(* transition(): a worker moves its own task, by token.                    *)
Transition(t, k, from, to) ==
    /\ from \in workerStates
    /\ canTransition(from, to)
    /\ state[t] = from
    /\ Live(t, k)
    /\ to \in AttemptState                   \* the CHECK on the attempt row
    /\ state' = [state EXCEPT ![t] = to]
    /\ attempts' = [attempts EXCEPT ![t][attemptCount[t]] = Written(@, k, to)]
    /\ lease' = [lease EXCEPT ![t] = IF to \in workerStates THEN @ ELSE NoLease]
    /\ UNCHANGED <<attemptCount, nextAttempt, spent, contractSpent, costs,
                   fence, stopped>>

(* Where fail() sends the task.                                            *)
AfterFailure(t, reason) ==
    IF retryable(reason)
      THEN IF attemptCount[t] >= MaxAttempts[t] THEN "failed" ELSE "retry_wait"
      ELSE IF reason = "budget" THEN "budget_blocked" ELSE "failed"

(* The attempt row as fail() writes it.                                    *)
Ended(row, k, to) ==
    [row EXCEPT !.state = to, !.finished = TRUE, !.writer = k]

(* fail(): the holder reports a failed attempt.                            *)
Fail(t, k, reason) ==
    LET next == AfterFailure(t, reason) IN
    /\ Live(t, k)
    /\ state[t] \in {"running", "verifying"}
    /\ next \in AttemptState                 \* the CHECK on the attempt row
    /\ state' = [state EXCEPT ![t] = next]
    /\ nextAttempt' = [nextAttempt EXCEPT ![t] =
                          IF next = "retry_wait" THEN "waiting" ELSE "none"]
    /\ attempts' = [attempts EXCEPT ![t][attemptCount[t]] = Ended(@, k, next)]
    /\ lease' = [lease EXCEPT ![t] = NoLease]
    /\ UNCHANGED <<attemptCount, spent, contractSpent, costs, fence, stopped>>

(* Where reclaimExpired() sends a task whose holder is gone.               *)
AfterReclaim(t) ==
    IF attemptCount[t] >= MaxAttempts[t] THEN "failed" ELSE "queued"

(* reclaimExpired(): every expired lease at once.                          *)
ReclaimExpired ==
    /\ \E t \in Tasks : Expired(t)
    /\ lease' = [t \in Tasks |-> IF Expired(t) THEN NoLease ELSE lease[t]]
    /\ attempts' = [t \in Tasks |-> IF Expired(t) THEN Close(t, "failed")
                                                  ELSE attempts[t]]
    /\ state' = [t \in Tasks |-> IF Expired(t) /\ state[t] \in workerStates
                                   THEN AfterReclaim(t) ELSE state[t]]
    /\ UNCHANGED <<attemptCount, nextAttempt, spent, contractSpent, costs,
                   fence, stopped>>

(* setEmergencyStop(true): every held task goes back to the queue.         *)
EmergencyStop ==
    /\ stopped' = TRUE
    /\ attempts' = [t \in Tasks |-> IF state[t] \in workerStates
                                      THEN Close(t, "cancelled")
                                      ELSE attempts[t]]
    /\ lease' = [t \in Tasks |-> IF state[t] \in workerStates THEN NoLease
                                                              ELSE lease[t]]
    /\ state' = [t \in Tasks |-> IF state[t] \in workerStates THEN "queued"
                                                              ELSE state[t]]
    /\ UNCHANGED <<attemptCount, nextAttempt, spent, contractSpent, costs,
                   fence>>

(* setEmergencyStop(false).                                                *)
Resume ==
    /\ stopped
    /\ stopped' = FALSE
    /\ UNCHANGED <<state, attemptCount, nextAttempt, spent, contractSpent,
                   lease, attempts, costs, fence>>

(* Fault: the totals are compared before the cost is added to them.        *)
BlockedBefore(t, c) ==
    { u \in Tasks :
        /\ ContractOf[u] = ContractOf[t]
        /\ state[u] \in {"queued", "leased", "running", "verifying",
                         "retry_wait"}
        /\ Exhausted(u) }

(* The tasks recordCost() blocks once c has been added to t's account and  *)
(* to its contract's: each is judged by its own total and the contract's.  *)
Blocked(t, c) ==
    { u \in Tasks :
        /\ ContractOf[u] = ContractOf[t]
        /\ state[u] \in {"queued", "leased", "running", "verifying",
                         "retry_wait"}
        /\ \/ contractSpent[ContractOf[t]] + c >= ContractMax[ContractOf[t]]
           \/ spent[u] + (IF u = t THEN c ELSE 0) >= TaskMax[u] }

(* Fault: every call charges, a repeated one too.                          *)
NeverRecorded(id) == FALSE

Recorded(id) == \E r \in costs : r.id = id

(* recordCost(): a known id is accepted again and charges nothing.  The    *)
(* attempt charged must exist (foreign key); the attempt rows of the tasks *)
(* it blocks are left open.                                                *)
RecordCost(t, n, id, c) ==
    /\ ~Recorded(id)
    /\ n \in 1..attemptCount[t]
    /\ costs' = costs \cup {[id |-> id, task |-> t, amount |-> c]}
    /\ contractSpent' = [contractSpent EXCEPT ![ContractOf[t]] = @ + c]
    /\ spent' = [spent EXCEPT ![t] = @ + c]
    /\ state' = [u \in Tasks |-> IF u \in Blocked(t, c) THEN "budget_blocked"
                                                        ELSE state[u]]
    /\ lease' = [u \in Tasks |-> IF u \in Blocked(t, c) THEN NoLease
                                                        ELSE lease[u]]
    /\ UNCHANGED <<attemptCount, nextAttempt, attempts, fence, stopped>>

(* Fault: an answered reply can still be cancelled.                        *)
CancelableWithSucceeded == {"queued", "leased", "running", "retry_wait",
                            "needs_approval", "budget_blocked", "succeeded"}

replyTaskCancelableStates == {"queued", "leased", "running", "retry_wait",
                              "needs_approval", "budget_blocked"}

(* POST /api/v1/orchestrator/reply-tasks/:taskId/cancel.                   *)
OwnerCancel(t) ==
    /\ t \in ReplyTasks
    /\ state[t] \in replyTaskCancelableStates
    /\ state' = [state EXCEPT ![t] = "cancelled"]
    /\ nextAttempt' = [nextAttempt EXCEPT ![t] = "none"]
    /\ lease' = [lease EXCEPT ![t] = NoLease]
    /\ attempts' = [attempts EXCEPT ![t] = Close(t, "cancelled")]
    /\ UNCHANGED <<attemptCount, spent, contractSpent, costs, fence, stopped>>

(* The database clock.  How often one lease is renewed while another ages  *)
(* is left open, so each lease ages on its own; a backoff runs out alone.  *)
LeaseAges(t) ==
    /\ lease[t].left > 0
    /\ lease' = [lease EXCEPT ![t].left = @ - 1]
    /\ UNCHANGED <<state, attemptCount, nextAttempt, spent, contractSpent,
                   attempts, costs, fence, stopped>>

RetryComesDue(t) ==
    /\ nextAttempt[t] = "waiting"
    /\ nextAttempt' = [nextAttempt EXCEPT ![t] = "due"]
    /\ UNCHANGED <<state, attemptCount, spent, contractSpent, lease, attempts,
                   costs, fence, stopped>>

-----------------------------------------------------------------------------
OwnerStep ==
    \/ \E t \in Tasks : Submit(t) \/ OwnerCancel(t)
    \/ \E t \in Tasks, from, to \in TaskState : ControlTransition(t, from, to)
    \/ EmergencyStop \/ Resume

WorkerStep ==
    \E t \in Tasks :
        \/ Lease(t)
        \/ \E k \in 1..fence :
            \/ Heartbeat(t, k)
            \/ \E from, to \in TaskState : Transition(t, k, from, to)
            \/ \E reason \in FailureReason : Fail(t, k, reason)

CostStep ==
    \E t \in Tasks, id \in CostIds, c \in Amounts :
        \E n \in 1..attemptCount[t] : RecordCost(t, n, id, c)

TimeStep == ReclaimExpired \/ \E t \in Tasks : LeaseAges(t) \/ RetryComesDue(t)

Next == OwnerStep \/ WorkerStep \/ CostStep \/ TimeStep

Spec == Init /\ [][Next]_vars
-----------------------------------------------------------------------------
(* Properties.                                                             *)

TaskRows ==
    /\ state \in [Tasks -> TaskState \cup {"absent"}]
    /\ attemptCount \in [Tasks -> Nat]
    /\ \A t \in Tasks : attemptCount[t] <= MaxAttempts[t]
    /\ nextAttempt \in [Tasks -> {"none", "waiting", "due"}]
    /\ spent \in [Tasks -> Nat]

LeaseRows ==
    /\ fence \in Nat
    /\ lease \in [Tasks -> [token : 0..fence, left : 0..Ttl]]

(* Attempt rows of a task with at most m attempts, c of them begun.        *)
RowsBegun(rows, m, c) ==
    /\ rows \in [1..m -> Attempt]
    /\ \A n \in 1..m : rows[n].state = "none" => rows[n] = NoAttempt
    /\ \A n \in 1..m : rows[n].state = "none" <=> n > c

AttemptRows ==
    /\ DOMAIN attempts = Tasks
    /\ \A t \in Tasks :
        RowsBegun(attempts[t], MaxAttempts[t], attemptCount[t])

CostRows ==
    /\ costs \subseteq Cost
    /\ contractSpent \in [Contracts -> Nat]

(* Every column holds a value the schema admits, no task has had more      *)
(* attempts than max_attempts, no token is ahead of the sequence, and the  *)
(* attempt rows are those of the attempts begun, and no others.            *)
TypeOK ==
    /\ TaskRows
    /\ LeaseRows
    /\ AttemptRows
    /\ CostRows
    /\ stopped \in BOOLEAN

(* The task row, the lease row and the attempt row agree: a task is in a   *)
(* worker state exactly when it has a lease row, and then its current      *)
(* attempt row is open, in the same state and issued with that lease.      *)
HeldAttempt ==
    \A t \in Tasks :
        /\ (lease[t].token # 0) <=> (state[t] \in workerStates)
        /\ state[t] \in workerStates =>
            /\ attemptCount[t] > 0
            /\ ~current(t).finished
            /\ current(t).state = state[t]
            /\ current(t).token = lease[t].token

(* Fencing: an attempt's record is only ever written by a worker holding   *)
(* the token that was issued with that attempt, however late the worker.   *)
FencedAttempts ==
    \A t \in Tasks : \A n \in 1..MaxAttempts[t] :
        attempts[t][n].writer \in {0, attempts[t][n].token}

(* No worker holds, and no retry is pending for, a task whose own budget   *)
(* or whose contract's budget is used up: exhaustion stops work before it  *)
(* can spend again.                                                        *)
HeldWithinBudget ==
    \A t \in Tasks :
        state[t] \in workerStates \cup {"retry_wait"} => ~Exhausted(t)

(* While the emergency stop is set no worker holds any task.               *)
StoppedHoldsNothing ==
    stopped => \A t \in Tasks : state[t] \notin workerStates

(* A task has succeeded exactly when its latest attempt has, and no other  *)
(* attempt of it ever did.                                                 *)
OneSuccess ==
    \A t \in Tasks : \A n \in 1..MaxAttempts[t] :
        attempts[t][n].state = "succeeded" <=>
            (state[t] = "succeeded" /\ n = attemptCount[t])

(* The inductive invariant.                                                *)
WorkInv ==
    /\ TypeOK
    /\ HeldAttempt
    /\ FencedAttempts
    /\ HeldWithinBudget
    /\ StoppedHoldsNothing
    /\ OneSuccess

CostSum(S) == SumOver([r \in Cost |-> r.amount], S)

(* The running totals are the sums of the costs recorded: no cost is       *)
(* counted twice or lost, however often a caller repeats it.               *)
SpentIsSumOfCosts ==
    /\ \A t \in Tasks : spent[t] = CostSum({r \in costs : r.task = t})
    /\ \A c \in Contracts :
        contractSpent[c] = CostSum({r \in costs : ContractOf[r.task] = c})

(* The record of an attempt never changes once it is finished: not by a    *)
(* late worker, not by a reclaim, a stop or a cancel that comes after.     *)
ClosedAttemptsAreFinal ==
    [][\A t \in Tasks : \A n \in 1..MaxAttempts[t] :
         attempts[t][n].finished => attempts'[t][n] = attempts[t][n]]_vars

-----------------------------------------------------------------------------
(* The engine implements its promise.                                      *)

phaseOf(s) == IF s \in workerStates THEN "held"
              ELSE IF s = "succeeded" THEN "succeeded"
              ELSE IF s \in {"failed", "cancelled"} THEN "closed"
              ELSE "idle"

Fenced == INSTANCE FencedWork
            WITH Limit <- MaxAttempts,
                 phase <- [t \in Tasks |-> phaseOf(state[t])],
                 epoch <- attemptCount,
                 holder <- [t \in Tasks |-> lease[t].token],
                 clock <- fence,
                 halted <- stopped

(* At most one holder at a time, each under a fresh token, at most         *)
(* MaxAttempts of them, none while stopped, and terminal states for ever.  *)
ImplementsFencedWork == Fenced!FencedSpec
=============================================================================
