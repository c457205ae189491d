-------------------------- MODULE WorkEngine_proofs --------------------------
(***************************************************************************)
(* The durable work engine, and the supervisors that execute its tasks,    *)
(* for every choice of the constants and every number of processes.        *)
(*                                                                         *)
(* WorkInv is an inductive invariant of WorkRepository: one lemma per      *)
(* action, and in it one step per conjunct the action can disturb.         *)
(*                                                                         *)
(* For the supervisors: first, what the engine's steps leave of the        *)
(* attempts begun; then what every process may rely on while it executes   *)
(* one (Fits), and that no step of another process, of the owner or of the *)
(* clock takes it away; then the records the attempts leave.               *)
(***************************************************************************)
EXTENDS Supervisor, Sums_proofs, TLAPS

USE WorkAssumption DEF WorkAssumption

(* The parts of the invariant, when an action touches none of their rows.  *)
LEMMA CostRowsStable ==
    ASSUME CostRows, UNCHANGED <<costs, contractSpent>> PROVE CostRows'
  BY DEF CostRows

(* The attempt rows stay well formed while no row and no count is written. *)
LEMMA AttemptRowsStable ==
    ASSUME AttemptRows, UNCHANGED <<attempts, attemptCount>>
    PROVE  AttemptRows'
  BY DEF AttemptRows

(* An action that writes no attempt row keeps every record fenced.         *)
LEMMA FencedStable ==
    ASSUME FencedAttempts, UNCHANGED attempts PROVE FencedAttempts'
  BY DEF FencedAttempts

(* The lease rows stay well typed while neither lease nor fence is         *)
(* written.                                                                *)
LEMMA LeaseRowsStable ==
    ASSUME LeaseRows, UNCHANGED <<lease, fence>> PROVE LeaseRows'
  BY DEF LeaseRows

(* A well-formed row of attempts stays well formed when the next attempt   *)
(* begins, and when a begun one is rewritten.                              *)
LEMMA BeginRow ==
    ASSUME NEW m \in Nat, NEW c \in Nat, c < m, NEW rows, NEW row \in Attempt,
           RowsBegun(rows, m, c), row.state # "none"
    PROVE  RowsBegun([rows EXCEPT ![c + 1] = row], m, c + 1)
  BY DEF RowsBegun

(* A begun row may be rewritten by any row that is not the empty one.      *)
LEMMA RewriteRow ==
    ASSUME NEW m \in Nat, NEW c \in 1..m, NEW rows, NEW row \in Attempt,
           RowsBegun(rows, m, c), row.state # "none"
    PROVE  RowsBegun([rows EXCEPT ![c] = row], m, c)
  BY DEF RowsBegun

-----------------------------------------------------------------------------
(* submit() preserves the invariant: an absent task has neither lease nor  *)
(* attempt.                                                                *)
LEMMA SubmitInv ==
    ASSUME WorkInv, NEW t \in Tasks, Submit(t) PROVE WorkInv'
<1>. USE DEF WorkInv, TypeOK
<1>0. /\ state[t] = "absent"
      /\ state' = [state EXCEPT ![t] = "draft"]
      /\ UNCHANGED <<attemptCount, nextAttempt, spent, contractSpent, lease,
                     attempts, costs, fence, stopped>>
  BY DEF Submit
<1>1. TaskRows'
  BY <1>0 DEF TaskRows, TaskState
<1>2. HeldAttempt'
  BY <1>0 DEF HeldAttempt, TaskRows, workerStates, current
<1>3. HeldWithinBudget'
  BY <1>0 DEF HeldWithinBudget, TaskRows, Exhausted, workerStates
<1>4. StoppedHoldsNothing'
  BY <1>0 DEF StoppedHoldsNothing, TaskRows, workerStates
<1>5. OneSuccess'
  BY <1>0 DEF OneSuccess, TaskRows
<1>. QED
  BY <1>0, <1>1, <1>2, <1>3, <1>4, <1>5, CostRowsStable, AttemptRowsStable,
     FencedStable, LeaseRowsStable

(* controlTransition() preserves it: no move it admits enters or leaves a  *)
(* worker state, or reaches succeeded.                                     *)
LEMMA ControlTransitionInv ==
    ASSUME WorkInv, NEW t \in Tasks, NEW from \in TaskState,
           NEW to \in TaskState, ControlTransition(t, from, to)
    PROVE  WorkInv'
<1>. USE DEF WorkInv, TypeOK
<1>0. /\ state[t] = from
      /\ from \in controlSources
      /\ state' = [state EXCEPT ![t] = to]
      /\ nextAttempt' = [nextAttempt EXCEPT ![t] = "none"]
      /\ UNCHANGED <<attemptCount, spent, contractSpent, lease, attempts,
                     costs, fence, stopped>>
  BY DEF ControlTransition
<1>1. /\ from \notin workerStates
      /\ from # "succeeded"
  BY <1>0 DEF controlSources, workerStates
<1>2. to \notin workerStates \cup {"succeeded", "retry_wait"}
  BY <1>0 DEF ControlTransition, canTransition, transitionMap, controlSources,
              workerStates
<1>3. TaskRows'
  BY <1>0 DEF TaskRows
<1>4. HeldAttempt'
  BY <1>0, <1>1, <1>2 DEF HeldAttempt, TaskRows, current
<1>5. HeldWithinBudget'
  BY <1>0, <1>2 DEF HeldWithinBudget, TaskRows, Exhausted
<1>6. StoppedHoldsNothing'
  BY <1>0, <1>2 DEF StoppedHoldsNothing, TaskRows
<1>7. OneSuccess'
  BY <1>0, <1>1, <1>2 DEF OneSuccess, TaskRows
<1>. QED
  BY <1>0, <1>3, <1>4, <1>5, <1>6, <1>7, CostRowsStable, AttemptRowsStable,
     FencedStable, LeaseRowsStable

(* lease() preserves it: the new row is open, leased, and carries the      *)
(* token of the new lease; the guards give the budget and the stop.        *)
LEMMA LeaseInv ==
    ASSUME WorkInv, NEW t \in Tasks, Lease(t) PROVE WorkInv'
<1>. USE DEF WorkInv, TypeOK
<1>. DEFINE n == attemptCount[t] + 1
            row == [state |-> "leased", finished |-> FALSE,
                    token |-> fence + 1, writer |-> 0]
<1>0. /\ state' = [state EXCEPT ![t] = "leased"]
      /\ attemptCount' = [attemptCount EXCEPT ![t] = n]
      /\ fence' = fence + 1
      /\ lease' = [lease EXCEPT ![t] = [token |-> fence + 1, left |-> Ttl]]
      /\ attempts' = [attempts EXCEPT ![t][n] = row]
      /\ UNCHANGED <<nextAttempt, spent, contractSpent, costs, stopped>>
  BY DEF Lease, NextToken
<1>1. /\ attemptCount[t] < MaxAttempts[t]
      /\ ~Exhausted(t)
      /\ ~stopped
      /\ state[t] \in workerStates \cup {"queued"}
  BY DEF Lease, CanLease, Claimable
<1>2. n \in 1..MaxAttempts[t]
  BY <1>1 DEF TaskRows
<1>3. row \in Attempt /\ row.state # "none"
  BY DEF Attempt, AttemptState, LeaseRows
<1>4. \A u \in Tasks :
        attempts'[u] = IF u = t THEN [attempts[t] EXCEPT ![n] = row]
                                ELSE attempts[u]
  BY <1>0 DEF AttemptRows
<1>5. TaskRows'
  BY <1>0, <1>1 DEF TaskRows, TaskState
<1>6. LeaseRows'
  BY <1>0 DEF LeaseRows
<1>7. AttemptRows'
  <2>1. DOMAIN attempts' = Tasks
    BY <1>0 DEF AttemptRows
  <2>2. RowsBegun(attempts'[t], MaxAttempts[t], attemptCount'[t])
    BY <1>0, <1>1, <1>3, <1>4, BeginRow DEF AttemptRows, TaskRows
  <2>3. \A u \in Tasks : u # t =>
           RowsBegun(attempts'[u], MaxAttempts[u], attemptCount'[u])
    BY <1>0, <1>4 DEF AttemptRows, TaskRows
  <2>. QED
    BY <2>1, <2>2, <2>3 DEF AttemptRows
<1>8. HeldAttempt'
  BY <1>0, <1>2, <1>4
  DEF HeldAttempt, TaskRows, LeaseRows, AttemptRows, RowsBegun, current,
      workerStates
<1>9. FencedAttempts'
  <2>1. ASSUME NEW u \in Tasks, NEW i \in 1..MaxAttempts[u]
        PROVE  attempts'[u][i].writer \in {0, attempts'[u][i].token}
    <3>1. CASE u = t /\ i = n
      BY <3>1, <1>2, <1>4 DEF AttemptRows, RowsBegun
    <3>2. CASE u # t \/ i # n
      <4>1. attempts'[u][i] = attempts[u][i]
        BY <3>2, <1>2, <1>4 DEF AttemptRows, RowsBegun
      <4>. QED
        BY <4>1 DEF FencedAttempts
    <3>. QED
      BY <3>1, <3>2
  <2>. QED
    BY <2>1 DEF FencedAttempts
<1>10. HeldWithinBudget'
  BY <1>0, <1>1 DEF HeldWithinBudget, Exhausted, TaskRows
<1>11. StoppedHoldsNothing'
  BY <1>0, <1>1 DEF StoppedHoldsNothing
<1>12. OneSuccess'
  <2>1. state[t] # "succeeded"
    BY <1>1 DEF workerStates
  <2>. QED
    BY <2>1, <1>0, <1>2, <1>4 DEF OneSuccess, TaskRows, AttemptRows, RowsBegun
<1>. QED
  BY <1>0, <1>5, <1>6, <1>7, <1>8, <1>9, <1>10, <1>11, <1>12, CostRowsStable
-----------------------------------------------------------------------------
(* heartbeat() preserves it: only the age of a lease changes.              *)
LEMMA HeartbeatInv ==
    ASSUME WorkInv, NEW t \in Tasks, NEW k \in 1..fence, Heartbeat(t, k)
    PROVE  WorkInv'
<1>. USE DEF WorkInv, TypeOK
<1>0. /\ lease' = [lease EXCEPT ![t].left = Ttl]
      /\ UNCHANGED <<state, attemptCount, nextAttempt, spent, contractSpent,
                     attempts, costs, fence, stopped>>
  BY DEF Heartbeat
<1>1. TaskRows'
  BY <1>0 DEF TaskRows
<1>2. LeaseRows'
  BY <1>0 DEF LeaseRows
<1>3. \A u \in Tasks : lease'[u].token = lease[u].token
  BY <1>0 DEF LeaseRows
<1>4. HeldAttempt'
  BY <1>0, <1>3 DEF HeldAttempt, current
<1>5. HeldWithinBudget' /\ StoppedHoldsNothing' /\ OneSuccess'
  BY <1>0 DEF HeldWithinBudget, Exhausted, StoppedHoldsNothing, OneSuccess
<1>. QED
  BY <1>0, <1>1, <1>2, <1>4, <1>5, CostRowsStable, AttemptRowsStable,
     FencedStable

(* The passing of time preserves it: only the age of a lease changes.      *)
LEMMA LeaseAgesInv ==
    ASSUME WorkInv, NEW t \in Tasks, LeaseAges(t) PROVE WorkInv'
<1>. USE DEF WorkInv, TypeOK
<1>0. /\ lease[t].left > 0
      /\ lease' = [lease EXCEPT ![t].left = @ - 1]
      /\ UNCHANGED <<state, attemptCount, nextAttempt, spent, contractSpent,
                     attempts, costs, fence, stopped>>
  BY DEF LeaseAges
<1>1. TaskRows'
  BY <1>0 DEF TaskRows
<1>2. LeaseRows'
  BY <1>0 DEF LeaseRows
<1>3. \A u \in Tasks : lease'[u].token = lease[u].token
  BY <1>0 DEF LeaseRows
<1>4. HeldAttempt'
  BY <1>0, <1>3 DEF HeldAttempt, current
<1>5. HeldWithinBudget' /\ StoppedHoldsNothing' /\ OneSuccess'
  BY <1>0 DEF HeldWithinBudget, Exhausted, StoppedHoldsNothing, OneSuccess
<1>. QED
  BY <1>0, <1>1, <1>2, <1>4, <1>5, CostRowsStable, AttemptRowsStable,
     FencedStable

(* A backoff that ends preserves it.                                       *)
LEMMA RetryComesDueInv ==
    ASSUME WorkInv, NEW t \in Tasks, RetryComesDue(t) PROVE WorkInv'
<1>. USE DEF WorkInv, TypeOK
<1>0. /\ nextAttempt' = [nextAttempt EXCEPT ![t] = "due"]
      /\ UNCHANGED <<state, attemptCount, spent, contractSpent, lease,
                     attempts, costs, fence, stopped>>
  BY DEF RetryComesDue
<1>1. TaskRows'
  BY <1>0 DEF TaskRows
<1>2. HeldAttempt' /\ HeldWithinBudget' /\ StoppedHoldsNothing' /\ OneSuccess'
  BY <1>0 DEF HeldAttempt, current, HeldWithinBudget, Exhausted,
              StoppedHoldsNothing, OneSuccess
<1>. QED
  BY <1>0, <1>1, <1>2, CostRowsStable, AttemptRowsStable, FencedStable,
     LeaseRowsStable

(* Lifting the emergency stop preserves it.                                *)
LEMMA ResumeInv == ASSUME WorkInv, Resume PROVE WorkInv'
<1>. USE DEF WorkInv, TypeOK
<1>0. /\ stopped' = FALSE
      /\ UNCHANGED <<state, attemptCount, nextAttempt, spent, contractSpent,
                     lease, attempts, costs, fence>>
  BY DEF Resume
<1>1. TaskRows' /\ HeldAttempt' /\ HeldWithinBudget' /\ OneSuccess'
  BY <1>0 DEF TaskRows, HeldAttempt, current, HeldWithinBudget, Exhausted,
              OneSuccess
<1>2. StoppedHoldsNothing'
  BY <1>0 DEF StoppedHoldsNothing
<1>. QED
  BY <1>0, <1>1, <1>2, CostRowsStable, AttemptRowsStable, FencedStable,
     LeaseRowsStable

-----------------------------------------------------------------------------
(* What transition() and fail() have in common: the holder of t moves it   *)
(* from a worker state to another state and writes the current attempt     *)
(* row under its token, dropping the lease when it stops being a worker.   *)
LEMMA HolderMoves ==
    ASSUME WorkInv, NEW t \in Tasks, NEW k \in 1..fence, NEW to \in AttemptState,
           NEW row \in Attempt,
           Live(t, k), state[t] \in workerStates,
           state' = [state EXCEPT ![t] = to],
           nextAttempt' \in [Tasks -> {"none", "waiting", "due"}],
           attempts' = [attempts EXCEPT ![t][attemptCount[t]] = row],
           lease' = [lease EXCEPT
                       ![t] = IF to \in workerStates THEN @ ELSE NoLease],
           row.state = to, row.writer = k, row.token = current(t).token,
           to \in workerStates => ~row.finished,
           UNCHANGED <<attemptCount, spent, contractSpent, costs, fence,
                       stopped>>
    PROVE  WorkInv'
<1>. USE DEF WorkInv, TypeOK
<1>. DEFINE n == attemptCount[t]
<1>1. /\ n \in 1..MaxAttempts[t]
      /\ current(t).token = k
      /\ lease[t].token = k
  BY DEF TaskRows, HeldAttempt, Live
<1>2. to \in TaskState /\ to # "none"
  BY DEF AttemptState, TaskState
<1>3. \A u \in Tasks :
        attempts'[u] = IF u = t THEN [attempts[t] EXCEPT ![n] = row]
                                ELSE attempts[u]
  BY DEF AttemptRows
<1>4. \A u \in Tasks : \A i \in 1..MaxAttempts[u] :
        attempts'[u][i] = IF u = t /\ i = n THEN row ELSE attempts[u][i]
  BY <1>1, <1>3 DEF AttemptRows, RowsBegun
<1>5. \A u \in Tasks : state'[u] = IF u = t THEN to ELSE state[u]
  BY DEF TaskRows
<1>6. TaskRows'
  BY <1>2 DEF TaskRows
<1>7. LeaseRows'
  BY DEF LeaseRows, NoLease
<1>8. AttemptRows'
  <2>1. DOMAIN attempts' = Tasks
    BY DEF AttemptRows
  <2>2. RowsBegun(attempts'[t], MaxAttempts[t], attemptCount'[t])
    BY <1>1, <1>2, <1>3, RewriteRow DEF AttemptRows, TaskRows
  <2>3. \A u \in Tasks : u # t =>
           RowsBegun(attempts'[u], MaxAttempts[u], attemptCount'[u])
    BY <1>3 DEF AttemptRows
  <2>. QED
    BY <2>1, <2>2, <2>3 DEF AttemptRows
<1>9. HeldAttempt'
  <2>. SUFFICES ASSUME NEW u \in Tasks
                PROVE  /\ (lease'[u].token # 0) <=> (state'[u] \in workerStates)
                       /\ state'[u] \in workerStates =>
                           /\ attemptCount'[u] > 0
                           /\ ~attempts'[u][attemptCount'[u]].finished
                           /\ attempts'[u][attemptCount'[u]].state = state'[u]
                           /\ attempts'[u][attemptCount'[u]].token
                                = lease'[u].token
    BY DEF HeldAttempt, current
  <2>1. CASE u = t
    BY <2>1, <1>1, <1>4, <1>5 DEF LeaseRows, NoLease
  <2>2. CASE u # t
    <3>1. lease'[u] = lease[u] /\ state'[u] = state[u]
      BY <2>2, <1>5 DEF LeaseRows
    <3>2. state[u] \in workerStates => attemptCount[u] \in 1..MaxAttempts[u]
      BY DEF HeldAttempt, TaskRows
    <3>. QED
      BY <2>2, <3>1, <3>2, <1>4 DEF HeldAttempt, current
  <2>. QED
    BY <2>1, <2>2
<1>10. FencedAttempts'
  BY <1>1, <1>4 DEF FencedAttempts
<1>11. HeldWithinBudget'
  BY <1>5 DEF HeldWithinBudget, Exhausted
<1>12. StoppedHoldsNothing'
  BY <1>5 DEF StoppedHoldsNothing
<1>13. OneSuccess'
  <2>1. state[t] # "succeeded"
    BY DEF workerStates
  <2>. QED
    BY <2>1, <1>1, <1>4, <1>5 DEF OneSuccess
<1>. QED
  BY <1>6, <1>7, <1>8, <1>9, <1>10, <1>11, <1>12, <1>13, CostRowsStable

(* The row a holder writes is an attempt row, under the same token, and    *)
(* stays open while the task stays in a worker state.                      *)
LEMMA WrittenRow ==
    ASSUME NEW t \in Tasks, current(t) \in Attempt, ~current(t).finished,
           NEW to \in AttemptState, NEW k \in Nat
    PROVE  LET row == Written(current(t), k, to)
           IN  /\ row \in Attempt
               /\ row.state = to
               /\ row.writer = k
               /\ row.token = current(t).token
               /\ to \in workerStates => ~row.finished
<1>. DEFINE row == Written(current(t), k, to)
<1>1. row \in Attempt
  BY DEF Written, Attempt
<1>2. row.state = to /\ row.writer = k /\ row.token = current(t).token
  BY DEF Written, Attempt
<1>3. to \in workerStates => ~row.finished
  BY DEF Written, Attempt, workerStates
<1>. QED
  BY <1>1, <1>2, <1>3

(* The row fail() writes is an attempt row of the same token.              *)
LEMMA EndedRow ==
    ASSUME NEW t \in Tasks, current(t) \in Attempt,
           NEW to \in AttemptState, NEW k \in Nat
    PROVE  LET row == Ended(current(t), k, to)
           IN  /\ row \in Attempt
               /\ row.state = to
               /\ row.writer = k
               /\ row.token = current(t).token
<1>. DEFINE row == Ended(current(t), k, to)
<1>1. row \in Attempt
  BY DEF Ended, Attempt
<1>2. row.state = to /\ row.writer = k /\ row.token = current(t).token
  BY DEF Ended, Attempt
<1>. QED
  BY <1>1, <1>2

(* A token a caller may present is a number.                               *)
LEMMA TokensAreNat == ASSUME LeaseRows, NEW k \in 1..fence PROVE k \in Nat
  BY DEF LeaseRows

(* transition() preserves it: it is a move of the holder.                  *)
LEMMA TransitionInv ==
    ASSUME WorkInv, NEW t \in Tasks, NEW k \in 1..fence,
           NEW from \in TaskState, NEW to \in TaskState,
           Transition(t, k, from, to)
    PROVE  WorkInv'
<1>. DEFINE row == Written(current(t), k, to)
<1>0. /\ state[t] \in workerStates
      /\ Live(t, k)
      /\ to \in AttemptState
      /\ state' = [state EXCEPT ![t] = to]
      /\ attempts' = [attempts EXCEPT ![t][attemptCount[t]] = row]
      /\ lease' = [lease EXCEPT
                      ![t] = IF to \in workerStates THEN @ ELSE NoLease]
      /\ UNCHANGED <<attemptCount, nextAttempt, spent, contractSpent, costs,
                     fence, stopped>>
  BY DEF Transition, current
<1>1. attemptCount[t] \in 1..MaxAttempts[t] /\ ~current(t).finished
  BY <1>0 DEF WorkInv, TypeOK, TaskRows, HeldAttempt
<1>2. current(t) \in Attempt
  BY <1>1 DEF WorkInv, TypeOK, AttemptRows, RowsBegun, current
<1>3. k \in Nat
  BY TokensAreNat DEF WorkInv, TypeOK
<1>4. /\ row \in Attempt
      /\ row.state = to
      /\ row.writer = k
      /\ row.token = current(t).token
      /\ to \in workerStates => ~row.finished
  <2>1. to \in AttemptState
    BY <1>0
  <2>. QED
    BY <1>1, <1>2, <1>3, <2>1, WrittenRow
<1>5. nextAttempt' \in [Tasks -> {"none", "waiting", "due"}]
  BY <1>0 DEF WorkInv, TypeOK, TaskRows
<1>. HIDE DEF row
<1>. QED
  BY <1>0, <1>4, <1>5, HolderMoves

(* fail() preserves it: it is a move of the holder out of its worker       *)
(* state.                                                                  *)
LEMMA FailInv ==
    ASSUME WorkInv, NEW t \in Tasks, NEW k \in 1..fence,
           NEW reason \in FailureReason, Fail(t, k, reason)
    PROVE  WorkInv'
<1>. DEFINE next == AfterFailure(t, reason)
            row == Ended(current(t), k, next)
<1>0. /\ state[t] \in {"running", "verifying"}
      /\ Live(t, k)
      /\ next \in AttemptState
      /\ state' = [state EXCEPT ![t] = next]
      /\ nextAttempt' = [nextAttempt EXCEPT ![t] =
                            IF next = "retry_wait" THEN "waiting" ELSE "none"]
      /\ attempts' = [attempts EXCEPT ![t][attemptCount[t]] = row]
      /\ lease' = [lease EXCEPT ![t] = NoLease]
      /\ UNCHANGED <<attemptCount, spent, contractSpent, costs, fence, stopped>>
  BY DEF Fail, current
<1>1. next \notin workerStates /\ state[t] \in workerStates
  BY <1>0 DEF AfterFailure, workerStates
<1>2. attemptCount[t] \in 1..MaxAttempts[t]
  BY <1>1 DEF WorkInv, TypeOK, TaskRows, HeldAttempt
<1>3. current(t) \in Attempt
  BY <1>2 DEF WorkInv, TypeOK, AttemptRows, RowsBegun, current
<1>4. /\ row \in Attempt
      /\ row.state = next
      /\ row.writer = k
      /\ row.token = current(t).token
  <2>1. k \in Nat
    BY TokensAreNat DEF WorkInv, TypeOK
  <2>2. next \in AttemptState
    BY <1>0
  <2>. HIDE DEF next
  <2>. QED
    BY <1>3, <2>1, <2>2, EndedRow
<1>5. nextAttempt' \in [Tasks -> {"none", "waiting", "due"}]
  BY <1>0 DEF WorkInv, TypeOK, TaskRows
<1>. HIDE DEF row, next
<1>. QED
  BY <1>0, <1>1, <1>4, <1>5, HolderMoves

-----------------------------------------------------------------------------
(* What a row closed from outside keeps and loses.                         *)
LEMMA ClosedRow ==
    ASSUME NEW row \in Attempt, NEW s \in AttemptState
    PROVE  /\ Closed(row, s) \in Attempt
           /\ Closed(row, s).state = s
           /\ Closed(row, s).finished
           /\ Closed(row, s).token = row.token
           /\ Closed(row, s).writer = row.writer
<1>1. Closed(row, s) \in Attempt
  BY DEF Closed, Attempt
<1>2. /\ Closed(row, s).state = s
      /\ Closed(row, s).finished
  BY DEF Closed, Attempt
<1>3. /\ Closed(row, s).token = row.token
      /\ Closed(row, s).writer = row.writer
  BY DEF Closed, Attempt
<1>. QED
  BY <1>1, <1>2, <1>3

(* Close() rewrites the current row, if that is open, and no other.        *)
LEMMA CloseRow ==
    ASSUME TypeOK, NEW t \in Tasks, NEW s \in AttemptState
    PROVE  /\ RowsBegun(Close(t, s), MaxAttempts[t], attemptCount[t])
           /\ \A i \in 1..MaxAttempts[t] :
                Close(t, s)[i] =
                  IF i = attemptCount[t] /\ ~attempts[t][i].finished
                    THEN Closed(attempts[t][i], s) ELSE attempts[t][i]
<1>. USE DEF TypeOK
<1>1. RowsBegun(attempts[t], MaxAttempts[t], attemptCount[t])
  BY DEF AttemptRows
<1>2. MaxAttempts[t] \in Nat /\ attemptCount[t] \in 0..MaxAttempts[t]
  BY DEF TaskRows
<1>3. CASE attemptCount[t] = 0 \/ current(t).finished
  BY <1>1, <1>2, <1>3 DEF Close, current
<1>4. CASE attemptCount[t] # 0 /\ ~current(t).finished
  <2>1. attemptCount[t] \in 1..MaxAttempts[t] /\ current(t) \in Attempt
    BY <1>1, <1>2, <1>4 DEF RowsBegun, current
  <2>2. Close(t, s) =
          [attempts[t] EXCEPT ![attemptCount[t]] = Closed(current(t), s)]
    BY <1>4 DEF Close, current
  <2>3. Closed(current(t), s) \in Attempt /\ Closed(current(t), s).state # "none"
    BY <2>1, ClosedRow DEF AttemptState
  <2>4. RowsBegun(Close(t, s), MaxAttempts[t], attemptCount[t])
    <3>. DEFINE row == Closed(current(t), s)
    <3>1. row \in Attempt /\ row.state # "none"
      BY <2>3
    <3>. HIDE DEF row
    <3>2. RowsBegun([attempts[t] EXCEPT ![attemptCount[t]] = row],
                    MaxAttempts[t], attemptCount[t])
      BY <1>1, <1>2, <2>1, <3>1, RewriteRow
    <3>. QED
      BY <2>2, <3>2 DEF row
  <2>5. \A i \in 1..MaxAttempts[t] :
           Close(t, s)[i] = IF i = attemptCount[t]
                              THEN Closed(attempts[t][i], s) ELSE attempts[t][i]
    BY <1>1, <2>1, <2>2 DEF RowsBegun, current
  <2>. QED
    BY <1>4, <2>4, <2>5 DEF current
<1>. QED
  BY <1>3, <1>4

(* What a reclaim, an emergency stop and a cancel have in common: tasks H  *)
(* lose their leases, their open attempts are closed as s, and they are    *)
(* left in a state no worker holds.                                        *)
LEMMA TakenAway ==
    ASSUME WorkInv, NEW H, H \subseteq Tasks,
           NEW s \in {"failed", "cancelled"},
           attempts' = [t \in Tasks |-> IF t \in H THEN Close(t, s)
                                                   ELSE attempts[t]],
           lease' = [t \in Tasks |-> IF t \in H THEN NoLease ELSE lease[t]],
           state' \in [Tasks -> TaskState \cup {"absent"}],
           nextAttempt' \in [Tasks -> {"none", "waiting", "due"}],
           \A t \in H : state[t] # "succeeded",
           \A t \in H : state'[t] \in {"queued", "failed", "cancelled"},
           \A t \in Tasks \ H : state'[t] = state[t],
           stopped' \in BOOLEAN, StoppedHoldsNothing',
           UNCHANGED <<attemptCount, spent, contractSpent, costs, fence>>
    PROVE  WorkInv'
<1>. USE DEF WorkInv, TypeOK
<1>0. s \in AttemptState /\ s # "succeeded"
  BY DEF AttemptState
<1>1. \A t \in Tasks : \A i \in 1..MaxAttempts[t] :
         attempts'[t][i] =
           IF t \in H /\ i = attemptCount[t] /\ ~attempts[t][i].finished
             THEN Closed(attempts[t][i], s) ELSE attempts[t][i]
  BY <1>0, CloseRow
<1>2. \A t \in Tasks : \A i \in 1..MaxAttempts[t] : attempts[t][i] \in Attempt
  BY DEF AttemptRows, RowsBegun
<1>3. TaskRows'
  BY DEF TaskRows
<1>4. LeaseRows'
  BY DEF LeaseRows, NoLease
<1>5. AttemptRows'
  <2>1. \A t \in Tasks :
           RowsBegun(attempts'[t], MaxAttempts[t], attemptCount'[t])
    BY <1>0, CloseRow DEF AttemptRows
  <2>. QED
    BY <2>1 DEF AttemptRows
<1>6. HeldAttempt'
  <2>. SUFFICES ASSUME NEW u \in Tasks
                PROVE  /\ (lease'[u].token # 0) <=> (state'[u] \in workerStates)
                       /\ state'[u] \in workerStates =>
                           /\ attemptCount'[u] > 0
                           /\ ~attempts'[u][attemptCount'[u]].finished
                           /\ attempts'[u][attemptCount'[u]].state = state'[u]
                           /\ attempts'[u][attemptCount'[u]].token
                                = lease'[u].token
    BY DEF HeldAttempt, current
  <2>1. CASE u \in H
    BY <2>1 DEF NoLease, workerStates
  <2>2. CASE u \notin H
    BY <2>2 DEF HeldAttempt, current
  <2>. QED
    BY <2>1, <2>2
<1>7. FencedAttempts'
  BY <1>0, <1>1, <1>2, ClosedRow DEF FencedAttempts
<1>8. HeldWithinBudget'
  BY DEF HeldWithinBudget, Exhausted, workerStates
<1>9. OneSuccess'
  <2>. SUFFICES ASSUME NEW u \in Tasks, NEW i \in 1..MaxAttempts[u]
                PROVE  attempts'[u][i].state = "succeeded" <=>
                         (state'[u] = "succeeded" /\ i = attemptCount[u])
    BY DEF OneSuccess
  <2>1. CASE u \in H
    <3>1. attempts[u][i].state # "succeeded" /\ state'[u] # "succeeded"
      BY <2>1 DEF OneSuccess
    <3>2. attempts'[u][i].state # "succeeded"
      BY <3>1, <1>0, <1>1, <1>2, ClosedRow
    <3>. QED
      BY <3>1, <3>2
  <2>2. CASE u \notin H
    BY <2>2 DEF OneSuccess
  <2>. QED
    BY <2>1, <2>2
<1>. QED
  BY <1>3, <1>4, <1>5, <1>6, <1>7, <1>8, <1>9, CostRowsStable

(* reclaimExpired() preserves it: it takes the tasks with an expired lease *)
(* away.                                                                   *)
LEMMA ReclaimExpiredInv == ASSUME WorkInv, ReclaimExpired PROVE WorkInv'
<1>. DEFINE H == {t \in Tasks : Expired(t)}
<1>0. /\ lease' = [t \in Tasks |-> IF t \in H THEN NoLease ELSE lease[t]]
      /\ attempts' = [t \in Tasks |-> IF t \in H THEN Close(t, "failed")
                                                  ELSE attempts[t]]
      /\ state' = [t \in Tasks |->
                     IF Expired(t) /\ state[t] \in workerStates
                       THEN AfterReclaim(t) ELSE state[t]]
      /\ UNCHANGED <<attemptCount, nextAttempt, spent, contractSpent, costs,
                     fence, stopped>>
  BY DEF ReclaimExpired
<1>1. \A t \in H : state[t] \in workerStates
  BY DEF WorkInv, HeldAttempt, Expired
<1>2. \A t \in Tasks : AfterReclaim(t) \in {"queued", "failed"}
  BY DEF AfterReclaim
<1>3. /\ \A t \in H : state'[t] \in {"queued", "failed"}
      /\ \A t \in Tasks \ H : state'[t] = state[t]
  BY <1>0, <1>1, <1>2
<1>4. /\ state' \in [Tasks -> TaskState \cup {"absent"}]
      /\ nextAttempt' \in [Tasks -> {"none", "waiting", "due"}]
      /\ stopped' \in BOOLEAN
  BY <1>0, <1>2 DEF WorkInv, TypeOK, TaskRows, TaskState
<1>5. StoppedHoldsNothing'
  BY <1>0, <1>3 DEF WorkInv, StoppedHoldsNothing, workerStates
<1>6. \A t \in H : state[t] # "succeeded"
  BY <1>1 DEF workerStates
<1>. HIDE DEF H
<1>7. H \subseteq Tasks
  BY DEF H
<1>. QED
  BY <1>0, <1>3, <1>4, <1>5, <1>6, <1>7, TakenAway

(* setEmergencyStop(true) preserves it: it takes every held task away.     *)
LEMMA EmergencyStopInv == ASSUME WorkInv, EmergencyStop PROVE WorkInv'
<1>. DEFINE H == {t \in Tasks : state[t] \in workerStates}
<1>0. /\ stopped' = TRUE
      /\ attempts' = [t \in Tasks |-> IF t \in H THEN Close(t, "cancelled")
                                                  ELSE attempts[t]]
      /\ lease' = [t \in Tasks |-> IF t \in H THEN NoLease ELSE lease[t]]
      /\ state' = [t \in Tasks |-> IF t \in H THEN "queued" ELSE state[t]]
      /\ UNCHANGED <<attemptCount, nextAttempt, spent, contractSpent, costs,
                     fence>>
  BY DEF EmergencyStop
<1>1. /\ \A t \in H : state'[t] = "queued"
      /\ \A t \in Tasks \ H : state'[t] = state[t]
  BY <1>0
<1>2. /\ state' \in [Tasks -> TaskState \cup {"absent"}]
      /\ nextAttempt' \in [Tasks -> {"none", "waiting", "due"}]
      /\ stopped' \in BOOLEAN
  BY <1>0 DEF WorkInv, TypeOK, TaskRows, TaskState
<1>3. StoppedHoldsNothing'
  BY <1>0 DEF StoppedHoldsNothing, workerStates
<1>4. \A t \in H : state[t] # "succeeded"
  BY DEF workerStates
<1>5. H \subseteq Tasks
  OBVIOUS
<1>. HIDE DEF H
<1>. QED
  BY <1>0, <1>1, <1>2, <1>3, <1>4, <1>5, TakenAway

(* The owner's cancel preserves it: it takes one task away, held or not.   *)
LEMMA OwnerCancelInv ==
    ASSUME WorkInv, NEW t \in Tasks, OwnerCancel(t) PROVE WorkInv'
<1>. DEFINE H == {t}
<1>0. /\ state[t] \in replyTaskCancelableStates
      /\ state' = [state EXCEPT ![t] = "cancelled"]
      /\ nextAttempt' = [nextAttempt EXCEPT ![t] = "none"]
      /\ lease' = [lease EXCEPT ![t] = NoLease]
      /\ attempts' = [attempts EXCEPT ![t] = Close(t, "cancelled")]
      /\ UNCHANGED <<attemptCount, spent, contractSpent, costs, fence, stopped>>
  BY DEF OwnerCancel
<1>1. /\ lease' = [u \in Tasks |-> IF u \in H THEN NoLease ELSE lease[u]]
      /\ attempts' = [u \in Tasks |-> IF u \in H THEN Close(u, "cancelled")
                                                  ELSE attempts[u]]
  BY <1>0 DEF WorkInv, TypeOK, LeaseRows, AttemptRows
<1>2. /\ state' \in [Tasks -> TaskState \cup {"absent"}]
      /\ nextAttempt' \in [Tasks -> {"none", "waiting", "due"}]
      /\ stopped' \in BOOLEAN
  BY <1>0 DEF WorkInv, TypeOK, TaskRows, TaskState
<1>3. /\ \A u \in H : state'[u] = "cancelled"
      /\ \A u \in Tasks \ H : state'[u] = state[u]
  BY <1>0 DEF WorkInv, TypeOK, TaskRows
<1>4. StoppedHoldsNothing'
  BY <1>0, <1>3 DEF WorkInv, StoppedHoldsNothing, workerStates
<1>5. /\ H \subseteq Tasks
      /\ \A u \in H : state[u] # "succeeded"
  BY <1>0 DEF replyTaskCancelableStates
<1>. HIDE DEF H
<1>. QED
  BY <1>0, <1>1, <1>2, <1>3, <1>4, <1>5, TakenAway

-----------------------------------------------------------------------------
(* recordCost() preserves it: whatever the new totals exhaust is blocked   *)
(* in the same transaction.                                                *)
LEMMA RecordCostInv ==
    ASSUME WorkInv, NEW t \in Tasks, NEW n \in 1..attemptCount[t],
           NEW id \in CostIds, NEW c \in Amounts, RecordCost(t, n, id, c)
    PROVE  WorkInv'
<1>. USE DEF WorkInv, TypeOK
<1>. DEFINE B == Blocked(t, c)
<1>0. /\ costs' = costs \cup {[id |-> id, task |-> t, amount |-> c]}
      /\ contractSpent' = [contractSpent EXCEPT ![ContractOf[t]] = @ + c]
      /\ spent' = [spent EXCEPT ![t] = @ + c]
      /\ state' = [u \in Tasks |-> IF u \in B THEN "budget_blocked"
                                              ELSE state[u]]
      /\ lease' = [u \in Tasks |-> IF u \in B THEN NoLease ELSE lease[u]]
      /\ UNCHANGED <<attemptCount, nextAttempt, attempts, fence, stopped>>
  BY DEF RecordCost
<1>1. c \in Nat
  OBVIOUS
<1>2. \A u \in B : state[u] # "succeeded"
  BY DEF Blocked
<1>3. TaskRows'
  BY <1>0, <1>1 DEF TaskRows, TaskState
<1>4. LeaseRows'
  BY <1>0 DEF LeaseRows, NoLease
<1>5. CostRows'
  <2>1. costs' \subseteq Cost
    BY <1>0 DEF CostRows, Cost
  <2>2. contractSpent' \in [Contracts -> Nat]
    BY <1>0, <1>1 DEF CostRows
  <2>. QED
    BY <2>1, <2>2 DEF CostRows
<1>6. HeldAttempt'
  <2>. HIDE DEF B
  <2>. QED
    BY <1>0 DEF HeldAttempt, current, NoLease, workerStates
<1>7. HeldWithinBudget'
  <2>. SUFFICES ASSUME NEW u \in Tasks,
                       state'[u] \in workerStates \cup {"retry_wait"}
                PROVE  ~Exhausted(u)'
    BY DEF HeldWithinBudget
  <2>1. u \notin B /\ state'[u] = state[u]
    BY <1>0 DEF workerStates
  <2>2. ~Exhausted(u)
    BY <2>1 DEF HeldWithinBudget
  <2>3. CASE ContractOf[u] # ContractOf[t]
    <3>1. /\ spent'[u] = spent[u]
          /\ contractSpent'[ContractOf[u]] = contractSpent[ContractOf[u]]
      BY <1>0, <2>3 DEF TaskRows, CostRows
    <3>. QED
      BY <2>2, <3>1 DEF Exhausted
  <2>4. CASE ContractOf[u] = ContractOf[t]
    <3>1. /\ ~(contractSpent[ContractOf[t]] + c >= ContractMax[ContractOf[t]])
          /\ ~(spent[u] + (IF u = t THEN c ELSE 0) >= TaskMax[u])
      BY <2>1, <2>4 DEF Blocked, workerStates
    <3>2. spent'[u] = spent[u] + (IF u = t THEN c ELSE 0)
      BY <1>0, <1>1 DEF TaskRows
    <3>3. contractSpent'[ContractOf[u]] = contractSpent[ContractOf[t]] + c
      BY <1>0, <2>4 DEF CostRows
    <3>. QED
      BY <2>4, <3>1, <3>2, <3>3 DEF Exhausted
  <2>. QED
    BY <2>3, <2>4
<1>8. StoppedHoldsNothing'
  BY <1>0 DEF StoppedHoldsNothing, workerStates
<1>9. OneSuccess'
  BY <1>0, <1>2 DEF OneSuccess
<1>. QED
  BY <1>0, <1>3, <1>4, <1>5, <1>6, <1>7, <1>8, <1>9, AttemptRowsStable,
     FencedStable

(* The invariant holds of the empty tables.                                *)
LEMMA InitInv == Init => WorkInv
<1>. SUFFICES ASSUME Init PROVE WorkInv
  OBVIOUS
<1>. USE DEF Init
<1>1. TaskRows
  BY DEF TaskRows
<1>0. CostRows /\ stopped \in BOOLEAN
  BY DEF CostRows
<1>2. LeaseRows
  BY DEF LeaseRows, NoLease
<1>3. AttemptRows
  BY DEF AttemptRows, RowsBegun, NoAttempt, Attempt
<1>4. HeldAttempt /\ HeldWithinBudget /\ StoppedHoldsNothing
  BY DEF HeldAttempt, NoLease, HeldWithinBudget, StoppedHoldsNothing,
         workerStates
<1>5. FencedAttempts /\ OneSuccess
  BY DEF FencedAttempts, OneSuccess, NoAttempt
<1>. QED
  BY <1>0, <1>1, <1>2, <1>3, <1>4, <1>5 DEF WorkInv, TypeOK

(* The invariant does not depend on anything but the tables.               *)
LEMMA StutterInv == ASSUME WorkInv, UNCHANGED vars PROVE WorkInv'
  BY DEF vars, WorkInv, TypeOK, TaskRows, LeaseRows, AttemptRows, CostRows,
         HeldAttempt, current, FencedAttempts, HeldWithinBudget, Exhausted,
         StoppedHoldsNothing, OneSuccess

(* The invariant is inductive.                                             *)
LEMMA NextInv == WorkInv /\ [Next]_vars => WorkInv'
<1>. SUFFICES ASSUME WorkInv, [Next]_vars PROVE WorkInv'
  OBVIOUS
<1>1. CASE OwnerStep
  BY <1>1, SubmitInv, OwnerCancelInv, ControlTransitionInv, EmergencyStopInv,
     ResumeInv DEF OwnerStep
<1>2. CASE WorkerStep
  BY <1>2, LeaseInv, HeartbeatInv, TransitionInv, FailInv DEF WorkerStep
<1>3. CASE CostStep
  BY <1>3, RecordCostInv DEF CostStep
<1>4. CASE TimeStep
  BY <1>4, ReclaimExpiredInv, LeaseAgesInv, RetryComesDueInv DEF TimeStep
<1>5. CASE UNCHANGED vars
  BY <1>5, StutterInv
<1>. QED
  BY <1>1, <1>2, <1>3, <1>4, <1>5 DEF Next

-----------------------------------------------------------------------------
(* Every reachable state of the durable engine satisfies the invariant.    *)
THEOREM WorkInvariant == Spec => []WorkInv
<1>. QED
  BY InitInv, NextInv, PTL DEF Spec

(* Every row stays within the schema, no task is attempted more often than *)
(* max_attempts, no lease is ahead of the token sequence.                  *)
THEOREM TypeCorrect == Spec => []TypeOK
<1>1. WorkInv => TypeOK
  BY DEF WorkInv
<1>. QED
  BY <1>1, WorkInvariant, PTL

(* The task row, the lease row and the attempt row always agree.           *)
THEOREM RowsAgree == Spec => []HeldAttempt
<1>1. WorkInv => HeldAttempt
  BY DEF WorkInv
<1>. QED
  BY <1>1, WorkInvariant, PTL

(* Fencing: only the token issued with an attempt ever writes its record.  *)
THEOREM FencingHolds == Spec => []FencedAttempts
<1>1. WorkInv => FencedAttempts
  BY DEF WorkInv
<1>. QED
  BY <1>1, WorkInvariant, PTL

(* No worker holds a task whose budget, or whose contract's, is used up.   *)
THEOREM BudgetStopsWork == Spec => []HeldWithinBudget
<1>1. WorkInv => HeldWithinBudget
  BY DEF WorkInv
<1>. QED
  BY <1>1, WorkInvariant, PTL

(* No worker holds a task while the emergency stop is set.                 *)
THEOREM StopHolds == Spec => []StoppedHoldsNothing
<1>1. WorkInv => StoppedHoldsNothing
  BY DEF WorkInv
<1>. QED
  BY <1>1, WorkInvariant, PTL

(* A task succeeds through its latest attempt, and through no other.       *)
THEOREM SuccessIsUnique == Spec => []OneSuccess
<1>1. WorkInv => OneSuccess
  BY DEF WorkInv
<1>. QED
  BY <1>1, WorkInvariant, PTL

-----------------------------------------------------------------------------
(* Finished records.  An action that writes attempts writes the open row   *)
(* of a held attempt, the row of an attempt not begun, or goes through     *)
(* Close(), which leaves a finished row alone.                             *)
FinishedKept ==
    \A t \in Tasks : \A n \in 1..MaxAttempts[t] :
        attempts[t][n].finished => attempts'[t][n] = attempts[t][n]

(* Writing one open row leaves the finished ones as they are.              *)
LEMMA OpenRowWritten ==
    ASSUME WorkInv, NEW t \in Tasks, NEW n \in 1..MaxAttempts[t], NEW row,
           ~attempts[t][n].finished,
           attempts' = [attempts EXCEPT ![t][n] = row]
    PROVE  FinishedKept
<1>1. \A u \in Tasks : \A i \in 1..MaxAttempts[u] :
         attempts'[u][i] = IF u = t /\ i = n THEN row ELSE attempts[u][i]
  BY DEF WorkInv, TypeOK, AttemptRows, RowsBegun
<1>. QED
  BY <1>1 DEF FinishedKept

(* Closing the rows of a set of tasks leaves the finished ones as they     *)
(* are.                                                                    *)
LEMMA RowsClosed ==
    ASSUME WorkInv, NEW H, NEW s \in AttemptState,
           attempts' = [t \in Tasks |-> IF t \in H THEN Close(t, s)
                                                   ELSE attempts[t]]
    PROVE  FinishedKept
<1>1. \A t \in Tasks : \A i \in 1..MaxAttempts[t] :
         attempts[t][i].finished => attempts'[t][i] = attempts[t][i]
  BY CloseRow DEF WorkInv
<1>. QED
  BY <1>1 DEF FinishedKept

(* The current row of a task with a live lease is open.                    *)
LEMMA HeldRowOpen ==
    ASSUME WorkInv, NEW t \in Tasks, NEW k \in 1..fence, Live(t, k)
    PROVE  /\ state[t] \in workerStates
           /\ attemptCount[t] \in 1..MaxAttempts[t]
           /\ ~attempts[t][attemptCount[t]].finished
  BY DEF WorkInv, TypeOK, TaskRows, HeldAttempt, Live, current

(* No action rewrites a finished record.                                   *)
LEMMA NextKeepsFinished == WorkInv /\ [Next]_vars => FinishedKept
<1>. SUFFICES ASSUME WorkInv, [Next]_vars PROVE FinishedKept
  OBVIOUS
<1>1. CASE UNCHANGED attempts
  BY <1>1 DEF FinishedKept
<1>2. ASSUME NEW t \in Tasks, Lease(t) PROVE FinishedKept
  <2>1. attemptCount[t] + 1 \in 1..MaxAttempts[t]
    BY <1>2 DEF WorkInv, TypeOK, TaskRows, Lease, CanLease
  <2>2. ~attempts[t][attemptCount[t] + 1].finished
    BY <2>1 DEF WorkInv, TypeOK, TaskRows, AttemptRows, RowsBegun, NoAttempt
  <2>. QED
    BY <1>2, <2>1, <2>2, OpenRowWritten DEF Lease
<1>3. ASSUME NEW t \in Tasks, NEW k \in 1..fence, NEW from \in TaskState,
             NEW to \in TaskState, Transition(t, k, from, to)
      PROVE  FinishedKept
  BY <1>3, HeldRowOpen, OpenRowWritten DEF Transition
<1>4. ASSUME NEW t \in Tasks, NEW k \in 1..fence, NEW r \in FailureReason,
             Fail(t, k, r)
      PROVE  FinishedKept
  <2>1. /\ attemptCount[t] \in 1..MaxAttempts[t]
        /\ ~attempts[t][attemptCount[t]].finished
    BY <1>4, HeldRowOpen DEF Fail
  <2>2. PICK row : attempts' = [attempts EXCEPT ![t][attemptCount[t]] = row]
    BY <1>4 DEF Fail
  <2>. QED
    BY <2>1, <2>2, OpenRowWritten
<1>5. CASE ReclaimExpired
  <2>. DEFINE H == {t \in Tasks : Expired(t)}
  <2>1. attempts' = [t \in Tasks |-> IF t \in H THEN Close(t, "failed")
                                                ELSE attempts[t]]
    BY <1>5 DEF ReclaimExpired
  <2>. QED
    BY <2>1, RowsClosed DEF AttemptState
<1>6. CASE EmergencyStop
  <2>. DEFINE H == {t \in Tasks : state[t] \in workerStates}
  <2>1. attempts' = [t \in Tasks |-> IF t \in H THEN Close(t, "cancelled")
                                                ELSE attempts[t]]
    BY <1>6 DEF EmergencyStop
  <2>. QED
    BY <2>1, RowsClosed DEF AttemptState
<1>7. ASSUME NEW t \in Tasks, OwnerCancel(t) PROVE FinishedKept
  <2>. DEFINE H == {t}
  <2>1. attempts' = [u \in Tasks |-> IF u \in H THEN Close(u, "cancelled")
                                                ELSE attempts[u]]
    BY <1>7 DEF OwnerCancel, WorkInv, TypeOK, AttemptRows
  <2>. QED
    BY <2>1, RowsClosed DEF AttemptState
<1>8. CASE OwnerStep
  BY <1>1, <1>6, <1>7, <1>8
  DEF OwnerStep, Submit, ControlTransition, Resume
<1>9. CASE WorkerStep
  BY <1>1, <1>2, <1>3, <1>4, <1>9 DEF WorkerStep, Heartbeat
<1>10. CASE CostStep
  BY <1>1, <1>10 DEF CostStep, RecordCost
<1>11. CASE TimeStep
  BY <1>1, <1>5, <1>11 DEF TimeStep, LeaseAges, RetryComesDue
<1>. QED
  BY <1>1, <1>8, <1>9, <1>10, <1>11 DEF Next, vars

(* The record of an attempt never changes once it is finished.             *)
THEOREM FinishedRecordsStay == Spec => ClosedAttemptsAreFinal
<1>1. WorkInv /\ [Next]_vars =>
        [\A t \in Tasks : \A n \in 1..MaxAttempts[t] :
           attempts[t][n].finished => attempts'[t][n] = attempts[t][n]]_vars
  BY NextKeepsFinished DEF FinishedKept
<1>. QED
  BY <1>1, WorkInvariant, PTL DEF Spec, ClosedAttemptsAreFinal

-----------------------------------------------------------------------------
(* The engine implements FencedWork.  Most steps only let tasks go, or     *)
(* change nothing FencedWork sees: those are Settle steps.                 *)
LEMMA PhaseOfState ==
    ASSUME NEW s
    PROVE  /\ phaseOf(s) \in Fenced!Phase
           /\ phaseOf(s) = "held" <=> s \in workerStates
           /\ phaseOf(s) = "succeeded" <=> s = "succeeded"
  BY DEF phaseOf, Fenced!Phase, workerStates

(* A state a task may be let go from, and one it may be let go to.         *)
LetGo(from, to) ==
    /\ from \notin {"succeeded", "failed", "cancelled"}
    /\ to \notin workerStates \cup {"succeeded"}

(* Tasks that only leave their holders or close are settled.               *)
LEMMA SettleStep ==
    ASSUME WorkInv, WorkInv',
           \A t \in Tasks : \/ phaseOf(state'[t]) = phaseOf(state[t])
                            \/ LetGo(state[t], state'[t]),
           \A t \in Tasks : state'[t] \in workerStates =>
                              lease'[t].token = lease[t].token,
           UNCHANGED <<attemptCount, fence, stopped>>
    PROVE  Fenced!Settle
<1>1. \A t \in Tasks :
         \/ phaseOf(state'[t]) = phaseOf(state[t])
         \/ /\ phaseOf(state[t]) \in {"idle", "held"}
            /\ phaseOf(state'[t]) \in {"idle", "closed"}
  BY DEF LetGo, phaseOf
<1>2. \A t \in Tasks :
         lease'[t].token = IF phaseOf(state'[t]) = "held"
                             THEN lease[t].token ELSE 0
  BY PhaseOfState DEF WorkInv, HeldAttempt
<1>. QED
  BY <1>1, <1>2, PhaseOfState DEF Fenced!Settle

(* lease() begins work under a fresh token.                                *)
LEMMA BeginStep ==
    ASSUME WorkInv, NEW t \in Tasks, Lease(t) PROVE Fenced!Begin(t)
<1>1. /\ ~stopped
      /\ attemptCount[t] < MaxAttempts[t]
      /\ state[t] \in workerStates \cup {"queued"}
      /\ state' = [state EXCEPT ![t] = "leased"]
      /\ attemptCount' = [attemptCount EXCEPT ![t] = @ + 1]
      /\ fence' = fence + 1
      /\ lease' = [lease EXCEPT ![t] = [token |-> fence + 1, left |-> Ttl]]
      /\ UNCHANGED stopped
  BY DEF Lease, CanLease, Claimable, NextToken
<1>2. \A u \in Tasks :
         /\ state'[u] = IF u = t THEN "leased" ELSE state[u]
         /\ lease'[u].token = IF u = t THEN fence + 1 ELSE lease[u].token
  BY <1>1 DEF WorkInv, TypeOK, TaskRows, LeaseRows
<1>3. phaseOf(state[t]) \in {"idle", "held"} /\ phaseOf("leased") = "held"
  BY <1>1 DEF phaseOf, workerStates
<1>4. /\ [u \in Tasks |-> phaseOf(state'[u])] =
            [[u \in Tasks |-> phaseOf(state[u])] EXCEPT ![t] = "held"]
      /\ [u \in Tasks |-> lease'[u].token] =
            [[u \in Tasks |-> lease[u].token] EXCEPT ![t] = fence + 1]
  BY <1>2, <1>3
<1>. QED
  BY <1>1, <1>3, <1>4 DEF Fenced!Begin

(* Only the holder's own transition makes a task succeed.                  *)
LEMMA SucceedStep ==
    ASSUME WorkInv, NEW t \in Tasks, state[t] \in workerStates,
           state' = [state EXCEPT ![t] = "succeeded"],
           lease' = [lease EXCEPT ![t] = NoLease],
           UNCHANGED <<attemptCount, fence, stopped>>
    PROVE  Fenced!Succeed(t)
<1>1. \A u \in Tasks :
         /\ state'[u] = IF u = t THEN "succeeded" ELSE state[u]
         /\ lease'[u].token = IF u = t THEN 0 ELSE lease[u].token
  BY DEF WorkInv, TypeOK, TaskRows, LeaseRows, NoLease
<1>2. phaseOf(state[t]) = "held" /\ phaseOf("succeeded") = "succeeded"
  BY DEF phaseOf, workerStates
<1>3. [u \in Tasks |-> phaseOf(state'[u])] =
         [[u \in Tasks |-> phaseOf(state[u])] EXCEPT ![t] = "succeeded"]
  <2>1. \A u \in Tasks :
           phaseOf(state'[u]) = IF u = t THEN "succeeded" ELSE phaseOf(state[u])
    BY <1>1, <1>2
  <2>. QED
    BY <2>1, Zenon
<1>4. [u \in Tasks |-> lease'[u].token] =
         [[u \in Tasks |-> lease[u].token] EXCEPT ![t] = 0]
  BY <1>1
<1>. QED
  BY <1>2, <1>3, <1>4 DEF Fenced!Succeed

(* setEmergencyStop(true) halts the abstract engine.                       *)
LEMMA HaltStep == ASSUME WorkInv, WorkInv', EmergencyStop PROVE Fenced!Halt
<1>1. /\ stopped' = TRUE
      /\ UNCHANGED <<attemptCount, fence>>
      /\ \A t \in Tasks :
           state'[t] = IF state[t] \in workerStates THEN "queued" ELSE state[t]
  BY DEF EmergencyStop
<1>2. \A t \in Tasks :
         /\ phaseOf(state'[t]) = IF phaseOf(state[t]) = "held" THEN "idle"
                                                          ELSE phaseOf(state[t])
         /\ state'[t] \notin workerStates
  BY <1>1 DEF phaseOf, workerStates
<1>3. \A t \in Tasks : lease'[t].token = 0
  BY <1>2 DEF WorkInv, HeldAttempt
<1>. QED
  BY <1>1, <1>2, <1>3 DEF Fenced!Halt

(* Every step of the owner is a step of the abstract engine, or none.      *)
LEMMA OwnerStepFenced ==
    ASSUME WorkInv, WorkInv', OwnerStep PROVE Fenced!FencedNext
<1>1. ASSUME NEW t \in Tasks, Submit(t) PROVE Fenced!Settle
  <2>1. \A u \in Tasks : phaseOf(state'[u]) = phaseOf(state[u])
    BY <1>1 DEF Submit, WorkInv, TypeOK, TaskRows, phaseOf, workerStates
  <2>. QED
    BY <1>1, <2>1, SettleStep DEF Submit
<1>2. ASSUME NEW t \in Tasks, OwnerCancel(t) PROVE Fenced!Settle
  <2>1. \A u \in Tasks : state'[u] = IF u = t THEN "cancelled" ELSE state[u]
    BY <1>2 DEF OwnerCancel, WorkInv, TypeOK, TaskRows
  <2>2. LetGo(state[t], "cancelled")
    BY <1>2 DEF OwnerCancel, replyTaskCancelableStates, LetGo, workerStates
  <2>3. \A u \in Tasks : state'[u] \in workerStates => lease'[u] = lease[u]
    BY <1>2, <2>1 DEF OwnerCancel, WorkInv, TypeOK, LeaseRows, workerStates
  <2>. QED
    BY <1>2, <2>1, <2>2, <2>3, SettleStep DEF OwnerCancel
<1>3. ASSUME NEW t \in Tasks, NEW from \in TaskState, NEW to \in TaskState,
             ControlTransition(t, from, to)
      PROVE  Fenced!Settle
  <2>1. \A u \in Tasks : state'[u] = IF u = t THEN to ELSE state[u]
    BY <1>3 DEF ControlTransition, WorkInv, TypeOK, TaskRows
  <2>2. LetGo(state[t], to)
    BY <1>3 DEF ControlTransition, canTransition, transitionMap,
                controlSources, workerStates, LetGo
  <2>. QED
    BY <1>3, <2>1, <2>2, SettleStep DEF ControlTransition
<1>4. CASE Resume
  BY <1>4 DEF Resume, Fenced!Unhalt, Fenced!FencedNext
<1>5. CASE EmergencyStop
  BY <1>5, HaltStep DEF Fenced!FencedNext
<1>. QED
  BY <1>1, <1>2, <1>3, <1>4, <1>5 DEF OwnerStep, Fenced!FencedNext

(* So is every step of a worker,                                           *)
LEMMA WorkerStepFenced ==
    ASSUME WorkInv, WorkInv', WorkerStep PROVE Fenced!FencedNext
<1>1. ASSUME NEW t \in Tasks, NEW k \in 1..fence, Heartbeat(t, k)
      PROVE  Fenced!Settle
  <2>1. \A u \in Tasks : lease'[u].token = lease[u].token
    BY <1>1 DEF Heartbeat, WorkInv, TypeOK, LeaseRows
  <2>. QED
    BY <1>1, <2>1, SettleStep DEF Heartbeat
<1>2. ASSUME NEW t \in Tasks, NEW k \in 1..fence, NEW from \in TaskState,
             NEW to \in TaskState, Transition(t, k, from, to)
      PROVE  Fenced!Settle \/ Fenced!Succeed(t)
  <2>1. /\ state[t] \in workerStates
        /\ state' = [state EXCEPT ![t] = to]
        /\ lease' = [lease EXCEPT
                        ![t] = IF to \in workerStates THEN @ ELSE NoLease]
        /\ UNCHANGED <<attemptCount, fence, stopped>>
    BY <1>2 DEF Transition
  <2>2. CASE to = "succeeded"
    BY <2>1, <2>2, SucceedStep DEF workerStates
  <2>3. CASE to # "succeeded"
    <3>1. \A u \in Tasks : state'[u] = IF u = t THEN to ELSE state[u]
      BY <2>1 DEF WorkInv, TypeOK, TaskRows
    <3>2. \/ phaseOf(to) = phaseOf(state[t])
          \/ LetGo(state[t], to)
      BY <2>1, <2>3 DEF phaseOf, LetGo, workerStates
    <3>3. \A u \in Tasks : state'[u] \in workerStates => lease'[u] = lease[u]
      BY <2>1, <3>1 DEF WorkInv, TypeOK, LeaseRows
    <3>. QED
      BY <2>1, <3>1, <3>2, <3>3, SettleStep
  <2>. QED
    BY <2>2, <2>3
<1>3. ASSUME NEW t \in Tasks, NEW k \in 1..fence, NEW r \in FailureReason,
             Fail(t, k, r)
      PROVE  Fenced!Settle
  <2>. DEFINE next == AfterFailure(t, r)
  <2>1. /\ state[t] \in {"running", "verifying"}
        /\ state' = [state EXCEPT ![t] = next]
        /\ lease' = [lease EXCEPT ![t] = NoLease]
        /\ UNCHANGED <<attemptCount, fence, stopped>>
    BY <1>3 DEF Fail
  <2>2. next \in {"failed", "retry_wait", "budget_blocked"}
    BY DEF AfterFailure
  <2>. HIDE DEF next
  <2>3. \A u \in Tasks : state'[u] = IF u = t THEN next ELSE state[u]
    BY <2>1 DEF WorkInv, TypeOK, TaskRows
  <2>4. LetGo(state[t], next)
    BY <2>1, <2>2 DEF LetGo, workerStates
  <2>5. \A u \in Tasks : state'[u] \in workerStates => lease'[u] = lease[u]
    BY <2>1, <2>2, <2>3 DEF WorkInv, TypeOK, LeaseRows, workerStates
  <2>. QED
    BY <2>1, <2>3, <2>4, <2>5, SettleStep
<1>. QED
  BY <1>1, <1>2, <1>3, BeginStep DEF WorkerStep, Fenced!FencedNext

(* every cost recorded,                                                    *)
LEMMA CostStepFenced ==
    ASSUME WorkInv, WorkInv', CostStep PROVE Fenced!FencedNext
<1>1. PICK t \in Tasks, id \in CostIds, c \in Amounts :
        \E n \in 1..attemptCount[t] : RecordCost(t, n, id, c)
  BY DEF CostStep
<1>. DEFINE B == Blocked(t, c)
<1>2. /\ state' = [u \in Tasks |-> IF u \in B THEN "budget_blocked"
                                              ELSE state[u]]
      /\ lease' = [u \in Tasks |-> IF u \in B THEN NoLease ELSE lease[u]]
      /\ UNCHANGED <<attemptCount, fence, stopped>>
  BY <1>1 DEF RecordCost
<1>3. \A u \in B : LetGo(state[u], "budget_blocked")
  BY DEF Blocked, LetGo, workerStates
<1>. HIDE DEF B
<1>4. \A u \in Tasks : \/ state'[u] = state[u]
                       \/ LetGo(state[u], state'[u])
  BY <1>2, <1>3
<1>5. \A u \in Tasks : state'[u] \in workerStates => lease'[u] = lease[u]
  BY <1>2 DEF workerStates
<1>. QED
  BY <1>2, <1>4, <1>5, SettleStep DEF Fenced!FencedNext

(* and every sweep and every tick.                                         *)
LEMMA TimeStepFenced ==
    ASSUME WorkInv, WorkInv', TimeStep PROVE Fenced!FencedNext
<1>1. CASE ReclaimExpired
  <2>1. /\ state' = [t \in Tasks |->
                      IF Expired(t) /\ state[t] \in workerStates
                        THEN AfterReclaim(t) ELSE state[t]]
        /\ lease' = [t \in Tasks |-> IF Expired(t) THEN NoLease ELSE lease[t]]
        /\ UNCHANGED <<attemptCount, fence, stopped>>
    BY <1>1 DEF ReclaimExpired
  <2>2. \A t \in Tasks : AfterReclaim(t) \in {"queued", "failed"}
    BY DEF AfterReclaim
  <2>3. \A t \in Tasks : \/ state'[t] = state[t]
                         \/ LetGo(state[t], state'[t])
    BY <2>1, <2>2 DEF LetGo, workerStates
  <2>4. \A t \in Tasks : Expired(t) => state[t] \in workerStates
    BY DEF WorkInv, HeldAttempt, Expired
  <2>5. \A t \in Tasks : state'[t] \in workerStates => lease'[t] = lease[t]
    BY <2>1, <2>2, <2>4 DEF workerStates
  <2>. QED
    BY <2>1, <2>3, <2>5, SettleStep DEF Fenced!FencedNext
<1>2. ASSUME NEW t \in Tasks, LeaseAges(t) PROVE Fenced!FencedNext
  <2>1. \A u \in Tasks : lease'[u].token = lease[u].token
    BY <1>2 DEF LeaseAges, WorkInv, TypeOK, LeaseRows
  <2>. QED
    BY <1>2, <2>1, SettleStep DEF LeaseAges, Fenced!FencedNext
<1>3. ASSUME NEW t \in Tasks, RetryComesDue(t) PROVE Fenced!FencedNext
  BY <1>3, SettleStep DEF RetryComesDue, Fenced!FencedNext
<1>. QED
  BY <1>1, <1>2, <1>3 DEF TimeStep

(* The empty tables are the initial state of the abstract engine.          *)
LEMMA InitFenced == Init => Fenced!FencedInit
  BY DEF Init, Fenced!FencedInit, NoLease, phaseOf, workerStates

(* Every step of the durable engine maps to a step of the abstract one.    *)
LEMMA NextFenced ==
    WorkInv /\ WorkInv' /\ [Next]_vars
      => [Fenced!FencedNext]_(Fenced!fencedVars)
<1>. SUFFICES ASSUME WorkInv, WorkInv', [Next]_vars
              PROVE  [Fenced!FencedNext]_(Fenced!fencedVars)
  OBVIOUS
<1>1. CASE UNCHANGED vars
  BY <1>1 DEF vars, Fenced!fencedVars
<1>. QED
  BY <1>1, OwnerStepFenced, WorkerStepFenced, CostStepFenced, TimeStepFenced
  DEF Next

(* The durable engine implements its abstract promise: single holders,     *)
(* fresh tokens, bounded attempts, nothing begun while stopped.            *)
THEOREM Refinement == Spec => ImplementsFencedWork
<1>. QED
  BY InitFenced, NextFenced, WorkInvariant, PTL
  DEF Spec, ImplementsFencedWork, Fenced!FencedSpec

-----------------------------------------------------------------------------
(* What FencedWork promises, which the engine keeps because it implements  *)
(* it.  The abstract steps are all that these proofs look at.              *)
LEMMA InitPromise == Fenced!FencedInit => Fenced!FencedPromise
<1>. SUFFICES ASSUME Fenced!FencedInit PROVE Fenced!FencedPromise
  OBVIOUS
<1>1. attemptCount = [t \in Tasks |-> 0] /\ fence = 0
  BY DEF Fenced!FencedInit
<1>2. \A t \in Tasks : lease[t].token = 0 /\ phaseOf(state[t]) = "idle"
  BY DEF Fenced!FencedInit
<1>3. \A t \in Tasks : MaxAttempts[t] \in Nat
  OBVIOUS
<1>. QED BY <1>1, <1>2, <1>3 DEF Fenced!FencedPromise

(* A task begun has a token of its own; any other keeps its.               *)
LEMMA BeginPromise ==
    ASSUME Fenced!FencedPromise, NEW t \in Tasks, Fenced!Begin(t)
    PROVE  Fenced!FencedPromise'
<1>1. /\ fence \in Nat /\ fence' = fence + 1
      /\ attemptCount \in [Tasks -> Nat] /\ attemptCount[t] < MaxAttempts[t]
      /\ attemptCount' = [attemptCount EXCEPT ![t] = @ + 1]
      /\ ~stopped /\ stopped' = stopped
  BY DEF Fenced!FencedPromise, Fenced!Begin
<1>2. \A u \in Tasks :
        /\ lease'[u].token = IF u = t THEN fence + 1 ELSE lease[u].token
        /\ phaseOf(state'[u]) = IF u = t THEN "held" ELSE phaseOf(state[u])
  BY DEF Fenced!Begin
<1>3. \A u \in Tasks :
        /\ attemptCount[u] <= MaxAttempts[u]
        /\ lease[u].token \in 0..fence
        /\ lease[u].token # 0 <=> phaseOf(state[u]) = "held"
  BY DEF Fenced!FencedPromise
<1>4. \A u, v \in Tasks : lease[u].token = lease[v].token /\ lease[u].token # 0 => u = v
  BY DEF Fenced!FencedPromise
<1>5. attemptCount' \in [Tasks -> Nat] /\ \A u \in Tasks : attemptCount'[u] <= MaxAttempts[u]
  <2>1. MaxAttempts[t] \in Nat
    OBVIOUS
  <2>. QED BY <1>1, <1>3, <2>1
<1>6. \A u, v \in Tasks :
        lease'[u].token = lease'[v].token /\ lease'[u].token # 0 => u = v
  BY <1>1, <1>2, <1>3, <1>4
<1>7. \A u \in Tasks : /\ lease'[u].token \in 0..fence'
                       /\ lease'[u].token # 0 <=> phaseOf(state'[u]) = "held"
  BY <1>1, <1>2, <1>3
<1>. QED BY <1>1, <1>5, <1>6, <1>7 DEF Fenced!FencedPromise

(* All other steps leave tasks to their holders or take them away.         *)
LEMMA OtherPromise ==
    ASSUME Fenced!FencedPromise,
           \/ \E t \in Tasks : Fenced!Succeed(t)
           \/ Fenced!Settle \/ Fenced!Halt \/ Fenced!Unhalt
           \/ UNCHANGED Fenced!fencedVars
    PROVE  Fenced!FencedPromise'
<1>1. fence \in Nat /\ fence' = fence /\ attemptCount' = attemptCount
  BY DEF Fenced!FencedPromise, Fenced!Succeed, Fenced!Settle, Fenced!Halt,
         Fenced!Unhalt, Fenced!fencedVars
<1>2. \A u \in Tasks : lease[u].token # 0 <=> phaseOf(state[u]) = "held"
  BY DEF Fenced!FencedPromise
<1>3. ASSUME NEW u \in Tasks
      PROVE  /\ \/ /\ lease'[u].token = lease[u].token
                   /\ phaseOf(state'[u]) = phaseOf(state[u])
                \/ lease'[u].token = 0 /\ phaseOf(state'[u]) # "held"
             /\ stopped' /\ ~stopped => phaseOf(state'[u]) # "held"
  <2>1. ASSUME NEW t \in Tasks, Fenced!Succeed(t)
        PROVE  /\ stopped' = stopped
               /\ lease'[u].token = IF u = t THEN 0 ELSE lease[u].token
               /\ phaseOf(state'[u]) = IF u = t THEN "succeeded" ELSE phaseOf(state[u])
    BY <2>1 DEF Fenced!Succeed
  <2>2. ASSUME Fenced!Settle
        PROVE  /\ stopped' = stopped
               /\ \/ phaseOf(state'[u]) = phaseOf(state[u])
                  \/ phaseOf(state'[u]) \in {"idle", "closed"}
               /\ lease'[u].token = IF phaseOf(state'[u]) = "held"
                                    THEN lease[u].token ELSE 0
    BY <2>2 DEF Fenced!Settle
  <2>3. ASSUME Fenced!Halt
        PROVE  /\ lease'[u].token = 0
               /\ phaseOf(state'[u]) = IF phaseOf(state[u]) = "held" THEN "idle"
                                       ELSE phaseOf(state[u])
    BY <2>3 DEF Fenced!Halt
  <2>4. ASSUME Fenced!Unhalt \/ UNCHANGED Fenced!fencedVars
        PROVE  /\ [t \in Tasks |-> lease[t].token]' = [t \in Tasks |-> lease[t].token]
               /\ [t \in Tasks |-> phaseOf(state[t])]' = [t \in Tasks |-> phaseOf(state[t])]
               /\ stopped' => stopped' = stopped
    BY <2>4 DEF Fenced!Unhalt, Fenced!fencedVars
  <2>5. ASSUME Fenced!Unhalt \/ UNCHANGED Fenced!fencedVars
        PROVE  /\ lease'[u].token = lease[u].token
               /\ phaseOf(state'[u]) = phaseOf(state[u])
               /\ stopped' => stopped' = stopped
    <3>. DEFINE F == [t \in Tasks |-> lease[t].token]
                G == [t \in Tasks |-> phaseOf(state[t])]
    <3>1. F'[u] = F[u] /\ G'[u] = G[u]
      BY <2>4, <2>5
    <3>2. /\ F[u] = lease[u].token /\ G[u] = phaseOf(state[u])
          /\ F'[u] = lease'[u].token /\ G'[u] = phaseOf(state'[u])
      OBVIOUS
    <3>. QED BY <2>4, <2>5, <3>1, <3>2
  <2>. QED BY <1>2, <2>1, <2>2, <2>3, <2>5
<1>. QED BY <1>1, <1>2, <1>3 DEF Fenced!FencedPromise

(* However workers stall, die and come back, no two tasks are held under   *)
(* one token, and no task is held without one, or beyond max_attempts, or  *)
(* while the factory is stopped.                                           *)
THEOREM PromiseKept == Spec => []Fenced!FencedPromise
<1>1. Fenced!FencedPromise /\ [Fenced!FencedNext]_(Fenced!fencedVars)
        => Fenced!FencedPromise'
  BY BeginPromise, OtherPromise DEF Fenced!FencedNext
<1>. QED
  BY <1>1, InitPromise, Refinement, PTL DEF ImplementsFencedWork, Fenced!FencedSpec

(* A token is never taken up again after it was given away, so a worker    *)
(* that lost its task cannot be mistaken for the one that has it now; and  *)
(* what has succeeded or is closed stays so.                               *)
THEOREM TokensAreFresh == Spec => Fenced!FencedSteps
<1>. DEFINE Kept(t) ==
        /\ lease'[t].token \notin {0, lease[t].token} => fence < lease'[t].token
        /\ phaseOf(state[t]) \in {"succeeded", "closed"}
             => phaseOf(state'[t]) = phaseOf(state[t])
        /\ phaseOf(state'[t]) = "succeeded" => phaseOf(state[t]) \in {"held", "succeeded"}
<1>1. ASSUME Fenced!FencedPromise, Fenced!FencedNext, NEW u \in Tasks PROVE Kept(u)
  <2>1. ASSUME NEW t \in Tasks, Fenced!Begin(t) PROVE Kept(u)
    <3>1. /\ lease'[u].token = IF u = t THEN fence + 1 ELSE lease[u].token
          /\ phaseOf(state'[u]) = IF u = t THEN "held" ELSE phaseOf(state[u])
          /\ phaseOf(state[t]) \in {"idle", "held"}
      BY <2>1 DEF Fenced!Begin
    <3>2. fence \in Nat
      BY <1>1 DEF Fenced!FencedPromise
    <3>. QED BY <3>1, <3>2
  <2>2. ASSUME NEW t \in Tasks, Fenced!Succeed(t) PROVE Kept(u)
    BY <2>2 DEF Fenced!Succeed
  <2>3. CASE Fenced!Settle
    BY <2>3 DEF Fenced!Settle
  <2>4. CASE Fenced!Halt
    BY <2>4 DEF Fenced!Halt
  <2>5. CASE Fenced!Unhalt
    <3>1. \A t \in Tasks : /\ lease'[t].token = lease[t].token
                           /\ phaseOf(state'[t]) = phaseOf(state[t])
      BY <2>5 DEF Fenced!Unhalt
    <3>. QED BY <3>1
  <2>. QED BY <1>1, <2>1, <2>2, <2>3, <2>4, <2>5 DEF Fenced!FencedNext
<1>2. ASSUME Fenced!FencedPromise, Fenced!FencedNext PROVE \A t \in Tasks : Fenced!Keeps(t)
  BY <1>1, <1>2 DEF Fenced!Keeps
<1>3. Fenced!FencedPromise /\ [Fenced!FencedNext]_(Fenced!fencedVars)
        => [\A t \in Tasks : Fenced!Keeps(t)]_(Fenced!fencedVars)
  BY <1>2
<1>. QED
  BY <1>3, PromiseKept, Refinement, PTL
     DEF ImplementsFencedWork, Fenced!FencedSpec, Fenced!FencedSteps

-----------------------------------------------------------------------------
(* The accounts.  The totals of the task and of the contract are written   *)
(* by recordCost() only, together with the row they count.                 *)

(* Nothing is counted that was not recorded, and nothing twice.            *)
Counted == IsFiniteSet(costs) /\ SpentIsSumOfCosts

(* A cost more of a kind is its amount more.                               *)
LEMMA CostAdded ==
    ASSUME NEW S \in SUBSET Cost, IsFiniteSet(S), NEW row \in Cost, row \notin S
    PROVE  CostSum(S \cup {row}) = CostSum(S) + row.amount
<1>. DEFINE f == [r \in Cost |-> r.amount]
<1>1. \A r \in S \cup {row} : f[r] \in Nat
  BY DEF Cost
<1>2. f[row] = row.amount
  OBVIOUS
<1>. HIDE DEF f
<1>3. SumOver(f, S \cup {row}) = SumOver(f, S) + f[row]
  BY <1>1, SumGrows
<1>. QED BY <1>2, <1>3 DEF CostSum, f

(* recordCost() keeps both totals: the new row belongs to the task's costs *)
(* and to its contract's, and to no other's.                               *)
LEMMA RecordCostCounted ==
    ASSUME WorkInv, Counted, NEW t \in Tasks, NEW n, NEW id \in CostIds, NEW c \in Amounts,
           RecordCost(t, n, id, c)
    PROVE  Counted'
<1>. DEFINE row == [id |-> id, task |-> t, amount |-> c]
            Of(u) == {r \in costs : r.task = u}
            In(k) == {r \in costs : ContractOf[r.task] = k}
<1>1. /\ row \in Cost /\ row \notin costs
      /\ row.task = t /\ row.amount = c
  BY DEF RecordCost, Recorded, Cost
<1>2. costs' = costs \cup {row} /\ IsFiniteSet(costs')
  BY FS_AddElement DEF RecordCost, Counted
<1>3. costs \in SUBSET Cost /\ IsFiniteSet(costs)
  BY DEF WorkInv, TypeOK, CostRows, Counted
<1>. HIDE DEF row
<1>4. \A S \in SUBSET costs : CostSum(S \cup {row}) = CostSum(S) + c
  <2>1. ASSUME NEW S \in SUBSET costs
        PROVE  S \in SUBSET Cost /\ IsFiniteSet(S) /\ row \notin S
    BY <1>1, <1>3, FS_Subset
  <2>. QED BY <1>1, <2>1, CostAdded
<1>5. ASSUME NEW u \in Tasks
      PROVE  spent'[u] = CostSum({r \in costs' : r.task = u})
  <2>1. spent[u] = CostSum(Of(u)) /\ spent \in [Tasks -> Nat]
    BY DEF Counted, SpentIsSumOfCosts, WorkInv, TypeOK, TaskRows
  <2>2. spent' = [spent EXCEPT ![t] = @ + c]
    BY DEF RecordCost
  <2>3. CASE u = t
    <3>1. {r \in costs' : r.task = u} = Of(u) \cup {row}
      BY <1>1, <1>2, <2>3
    <3>2. CostSum(Of(u) \cup {row}) = CostSum(Of(u)) + c
      BY <1>4
    <3>. QED BY <2>1, <2>2, <2>3, <3>1, <3>2
  <2>4. CASE u # t
    <3>1. {r \in costs' : r.task = u} = Of(u)
      BY <1>1, <1>2, <2>4
    <3>. QED BY <2>1, <2>2, <2>4, <3>1
  <2>. QED BY <2>3, <2>4
<1>6. ASSUME NEW k \in Contracts
      PROVE  contractSpent'[k] = CostSum({r \in costs' : ContractOf[r.task] = k})
  <2>1. contractSpent[k] = CostSum(In(k)) /\ contractSpent \in [Contracts -> Nat]
    BY DEF Counted, SpentIsSumOfCosts, WorkInv, TypeOK, CostRows
  <2>2. contractSpent' = [contractSpent EXCEPT ![ContractOf[t]] = @ + c]
    BY DEF RecordCost
  <2>3. CASE k = ContractOf[t]
    <3>1. {r \in costs' : ContractOf[r.task] = k} = In(k) \cup {row}
      BY <1>1, <1>2, <2>3
    <3>2. CostSum(In(k) \cup {row}) = CostSum(In(k)) + c
      BY <1>4
    <3>. QED BY <2>1, <2>2, <2>3, <3>1, <3>2
  <2>4. CASE k # ContractOf[t]
    <3>1. {r \in costs' : ContractOf[r.task] = k} = In(k)
      BY <1>1, <1>2, <2>4
    <3>. QED BY <2>1, <2>2, <2>4, <3>1
  <2>. QED BY <2>3, <2>4
<1>. QED BY <1>2, <1>5, <1>6 DEF Counted, SpentIsSumOfCosts

LEMMA CountedStep ==
    ASSUME WorkInv, Counted, [Next]_vars
    PROVE  Counted'
<1>1. ASSUME UNCHANGED <<costs, spent, contractSpent>>
      PROVE  Counted'
  BY <1>1 DEF Counted, SpentIsSumOfCosts
<1>2. CASE CostStep
  BY <1>2, RecordCostCounted DEF CostStep
<1>3. CASE OwnerStep
  BY <1>1, <1>3 DEF OwnerStep, Submit, OwnerCancel, ControlTransition, EmergencyStop, Resume
<1>4. CASE WorkerStep
  BY <1>1, <1>4 DEF WorkerStep, Lease, Heartbeat, Transition, Fail
<1>5. CASE TimeStep
  BY <1>1, <1>5 DEF TimeStep, ReclaimExpired, LeaseAges, RetryComesDue
<1>6. CASE UNCHANGED vars
  BY <1>1, <1>6 DEF vars
<1>. QED BY <1>2, <1>3, <1>4, <1>5, <1>6 DEF Next

(* The running totals of every task and every contract, which stop work    *)
(* when they reach the budget, are the sums of the costs recorded: no cost *)
(* is counted twice or lost, whatever is repeated, blocked or reclaimed.   *)
THEOREM TotalsAreSums == Spec => []SpentIsSumOfCosts
<1>1. Init => Counted
  <2>1. ASSUME Init
        PROVE  Counted
    <3>1. /\ costs = {} /\ IsFiniteSet(costs)
          /\ \A t \in Tasks : spent[t] = 0
          /\ \A k \in Contracts : contractSpent[k] = 0
      BY <2>1, FS_EmptySet DEF Init
    <3>2. CostSum({}) = 0
      BY SumOfNone DEF CostSum
    <3>3. /\ \A t \in Tasks : {r \in costs : r.task = t} = {}
          /\ \A k \in Contracts : {r \in costs : ContractOf[r.task] = k} = {}
      BY <3>1
    <3>. QED BY <3>1, <3>2, <3>3 DEF Counted, SpentIsSumOfCosts
  <2>. QED BY <2>1
<1>2. Spec => []Counted
  BY <1>1, CountedStep, WorkInvariant, PTL DEF Spec
<1>3. Counted => SpentIsSumOfCosts
  BY DEF Counted
<1>. QED BY <1>2, <1>3, PTL

-----------------------------------------------------------------------------
(* The supervisors.                                                        *)

(* The engine's steps, as the supervisor takes them: a lease begins an     *)
(* attempt, one transition makes a task succeed, and the rest does neither. *)
PlainStep ==
    \/ UNCHANGED vars
    \/ ReclaimExpired \/ EmergencyStop \/ Resume \/ CostStep
    \/ \E t \in Tasks :
        \/ Submit(t) \/ OwnerCancel(t) \/ LeaseAges(t) \/ RetryComesDue(t)
        \/ \E from, to \in TaskState : ControlTransition(t, from, to)
        \/ \E k \in 1..fence :
            \/ Heartbeat(t, k)
            \/ \E from, to \in TaskState :
                Transition(t, k, from, to) /\ to # "succeeded"
            \/ \E reason \in FailureReason : Fail(t, k, reason)

SuccessStep ==
    \E t \in Tasks : \E k \in 1..fence :
        Transition(t, k, "verifying", "succeeded")

LeaseStep == \E t \in Tasks : Lease(t)

(* The attempt rows keep their tokens and none is added.                   *)
SameAttempts ==
    /\ UNCHANGED <<attemptCount, fence>>
    /\ \A t \in Tasks : \A n \in 1..MaxAttempts[t] :
        attempts'[t][n].token = attempts[t][n].token

NoneSucceeds ==
    \A t \in Tasks : state'[t] = "succeeded" => state[t] = "succeeded"

(* Tokens are given out in the order of the attempts.                      *)
TokensAscend ==
    \A t \in Tasks :
        /\ \A n \in 1..MaxAttempts[t] : attempts[t][n].token <= fence
        /\ \A i, j \in 1..attemptCount[t] :
            i < j => attempts[t][i].token < attempts[t][j].token

(* A step leaves every attempt begun in place, with its token, and its     *)
(* record once it is finished.                                             *)
Grown ==
    /\ \A t \in Tasks : /\ attemptCount'[t] \in Nat
                        /\ attemptCount[t] <= attemptCount'[t]
    /\ \A t \in Tasks : \A n \in 1..attemptCount[t] :
        attempts'[t][n].token = attempts[t][n].token
    /\ FinishedKept

(* Every step is a step of the engine.                                     *)
LEMMA StepsAreNext ==
    PlainStep \/ SuccessStep \/ LeaseStep => [Next]_vars
  BY DEF PlainStep, SuccessStep, LeaseStep, Next, OwnerStep, WorkerStep,
         TimeStep, TaskState

(* Writing a row of the same token over an open one.                       *)
LEMMA TokenStays ==
    ASSUME WorkInv, NEW t \in Tasks, NEW n \in 1..MaxAttempts[t], NEW row,
           row.token = attempts[t][n].token,
           attempts' = [attempts EXCEPT ![t][n] = row],
           UNCHANGED <<attemptCount, fence>>
    PROVE  SameAttempts
<1>1. \A u \in Tasks : \A i \in 1..MaxAttempts[u] :
         attempts'[u][i] = IF u = t /\ i = n THEN row ELSE attempts[u][i]
  BY DEF WorkInv, TypeOK, AttemptRows, RowsBegun
<1>. QED
  BY <1>1 DEF SameAttempts

(* Closing rows leaves their tokens.                                       *)
LEMMA ClosedTokensStay ==
    ASSUME WorkInv, NEW H, NEW s \in AttemptState,
           attempts' = [t \in Tasks |-> IF t \in H THEN Close(t, s)
                                                   ELSE attempts[t]],
           UNCHANGED <<attemptCount, fence>>
    PROVE  SameAttempts
<1>1. \A t \in Tasks : \A i \in 1..MaxAttempts[t] : attempts[t][i] \in Attempt
  BY DEF WorkInv, TypeOK, AttemptRows, RowsBegun
<1>2. \A t \in Tasks : \A i \in 1..MaxAttempts[t] :
         Closed(attempts[t][i], s).token = attempts[t][i].token
  BY <1>1, ClosedRow
<1>3. \A t \in Tasks : \A i \in 1..MaxAttempts[t] :
         Close(t, s)[i].token = attempts[t][i].token
  BY <1>2, CloseRow DEF WorkInv
<1>. QED
  BY <1>3 DEF SameAttempts

(* A transition of the holder keeps its attempt's token.                   *)
LEMMA TransitionKeepsTokens ==
    ASSUME WorkInv, NEW t \in Tasks, NEW k \in 1..fence, NEW from, NEW to,
           Transition(t, k, from, to)
    PROVE  SameAttempts
<1>. DEFINE row == Written(current(t), k, to)
<1>1. attemptCount[t] \in 1..MaxAttempts[t]
  BY HeldRowOpen DEF Transition
<1>2. /\ attempts' = [attempts EXCEPT ![t][attemptCount[t]] = row]
      /\ UNCHANGED <<attemptCount, fence>>
  BY DEF Transition, current
<1>3. current(t) \in Attempt
  BY <1>1 DEF WorkInv, TypeOK, AttemptRows, RowsBegun, current
<1>4. row.token = attempts[t][attemptCount[t]].token
  BY <1>3 DEF Written, Attempt, current
<1>. HIDE DEF row
<1>. QED
  BY <1>1, <1>2, <1>4, TokenStays

(* So does its failure.                                                    *)
LEMMA FailKeepsTokens ==
    ASSUME WorkInv, NEW t \in Tasks, NEW k \in 1..fence, NEW reason,
           Fail(t, k, reason)
    PROVE  SameAttempts
<1>. DEFINE row == Ended(current(t), k, AfterFailure(t, reason))
<1>1. attemptCount[t] \in 1..MaxAttempts[t]
  BY HeldRowOpen DEF Fail
<1>2. /\ attempts' = [attempts EXCEPT ![t][attemptCount[t]] = row]
      /\ UNCHANGED <<attemptCount, fence>>
  BY DEF Fail, current
<1>3. current(t) \in Attempt
  BY <1>1 DEF WorkInv, TypeOK, AttemptRows, RowsBegun, current
<1>4. row.token = attempts[t][attemptCount[t]].token
  BY <1>3 DEF Ended, Attempt, current
<1>. HIDE DEF row
<1>. QED
  BY <1>1, <1>2, <1>4, TokenStays

(* A plain step begins no attempt.                                         *)
LEMMA PlainKeepsAttempts ==
    ASSUME WorkInv, PlainStep PROVE SameAttempts
<1>1. ASSUME UNCHANGED <<attempts, attemptCount, fence>> PROVE SameAttempts
  BY <1>1 DEF SameAttempts
<1>2. CASE ReclaimExpired
  <2>. DEFINE H == {t \in Tasks : Expired(t)}
  <2>1. attempts' = [t \in Tasks |-> IF t \in H THEN Close(t, "failed")
                                                ELSE attempts[t]]
    BY <1>2 DEF ReclaimExpired
  <2>. QED
    BY <1>2, <2>1, ClosedTokensStay DEF AttemptState, ReclaimExpired
<1>3. CASE EmergencyStop
  <2>. DEFINE H == {t \in Tasks : state[t] \in workerStates}
  <2>1. attempts' = [t \in Tasks |-> IF t \in H THEN Close(t, "cancelled")
                                                ELSE attempts[t]]
    BY <1>3 DEF EmergencyStop
  <2>. QED
    BY <1>3, <2>1, ClosedTokensStay DEF AttemptState, EmergencyStop
<1>4. ASSUME NEW t \in Tasks, OwnerCancel(t) PROVE SameAttempts
  <2>. DEFINE H == {t}
  <2>1. attempts' = [u \in Tasks |-> IF u \in H THEN Close(u, "cancelled")
                                                ELSE attempts[u]]
    BY <1>4 DEF OwnerCancel, WorkInv, TypeOK, AttemptRows
  <2>. QED
    BY <1>4, <2>1, ClosedTokensStay DEF AttemptState, OwnerCancel
<1>5. ASSUME NEW t \in Tasks,
             \/ Submit(t) \/ LeaseAges(t) \/ RetryComesDue(t)
             \/ \E from, to \in TaskState : ControlTransition(t, from, to)
             \/ \E k \in 1..fence : Heartbeat(t, k)
      PROVE  SameAttempts
  BY <1>1, <1>5 DEF Submit, LeaseAges, RetryComesDue, ControlTransition,
                    Heartbeat
<1>6. CASE UNCHANGED vars \/ Resume \/ CostStep
  BY <1>1, <1>6 DEF vars, Resume, CostStep, RecordCost
<1>. QED
  BY <1>2, <1>3, <1>4, <1>5, <1>6, TransitionKeepsTokens, FailKeepsTokens
  DEF PlainStep

(* Nor does a plain step make a task succeed.                              *)
LEMMA PlainSucceedsNone ==
    ASSUME WorkInv, PlainStep PROVE NoneSucceeds
<1>. USE DEF NoneSucceeds, WorkInv, TypeOK, TaskRows
<1>1. ASSUME UNCHANGED state PROVE NoneSucceeds
  BY <1>1
<1>2. CASE ReclaimExpired
  BY <1>2 DEF ReclaimExpired, AfterReclaim
<1>3. CASE EmergencyStop
  BY <1>3 DEF EmergencyStop
<1>4. ASSUME NEW t \in Tasks, Submit(t) \/ OwnerCancel(t) PROVE NoneSucceeds
  BY <1>4 DEF OwnerCancel, Submit
<1>5. ASSUME NEW t \in Tasks, NEW from \in TaskState, NEW to \in TaskState,
             ControlTransition(t, from, to)
      PROVE  NoneSucceeds
  <2>1. to # "succeeded"
    BY <1>5 DEF ControlTransition, canTransition, transitionMap, controlSources
  <2>. QED
    BY <1>5, <2>1 DEF ControlTransition
<1>6. ASSUME NEW t \in Tasks, NEW k, NEW from, NEW to,
             Transition(t, k, from, to), to # "succeeded"
      PROVE  NoneSucceeds
  BY <1>6 DEF Transition
<1>7. ASSUME NEW t \in Tasks, NEW k, NEW reason, Fail(t, k, reason)
      PROVE  NoneSucceeds
  <2>1. AfterFailure(t, reason) # "succeeded"
    BY DEF AfterFailure
  <2>. QED
    BY <1>7, <2>1 DEF Fail
<1>8. CASE CostStep
  BY <1>8 DEF CostStep, RecordCost
<1>9. ASSUME NEW t \in Tasks, \/ LeaseAges(t) \/ RetryComesDue(t)
                              \/ \E k \in 1..fence : Heartbeat(t, k)
      PROVE  NoneSucceeds
  BY <1>1, <1>9 DEF LeaseAges, RetryComesDue, Heartbeat
<1>10. CASE UNCHANGED vars \/ Resume
  BY <1>1, <1>10 DEF vars, Resume
<1>. QED
  BY <1>2, <1>3, <1>4, <1>5, <1>6, <1>7, <1>8, <1>9, <1>10 DEF PlainStep

(* What a lease adds: one attempt, the next, under the next token.         *)
Leased(t) ==
    /\ attemptCount[t] + 1 \in 1..MaxAttempts[t]
    /\ fence' = fence + 1
    /\ state[t] # "succeeded"
    /\ \A u \in Tasks :
        /\ attemptCount'[u] = IF u = t THEN attemptCount[u] + 1
                                       ELSE attemptCount[u]
        /\ u # t => state'[u] = state[u]
        /\ \A n \in 1..MaxAttempts[u] :
            ~(u = t /\ n = attemptCount[t] + 1)
                => attempts'[u][n] = attempts[u][n]
    /\ attempts'[t][attemptCount[t] + 1].token = fence + 1
    /\ NoneSucceeds

LEMMA LeaseAdds ==
    ASSUME WorkInv, NEW t \in Tasks, Lease(t) PROVE Leased(t)
<1>. USE DEF WorkInv, TypeOK, TaskRows
<1>. DEFINE n == attemptCount[t] + 1
<1>1. n \in 1..MaxAttempts[t]
  BY DEF Lease, CanLease
<1>2. state[t] # "succeeded"
  BY DEF Lease, CanLease, Claimable, workerStates
<1>3. /\ fence' = fence + 1
      /\ \A u \in Tasks :
           /\ attemptCount'[u] = IF u = t THEN n ELSE attemptCount[u]
           /\ state'[u] = IF u = t THEN "leased" ELSE state[u]
  BY DEF Lease, NextToken
<1>4. \A u \in Tasks : \A i \in 1..MaxAttempts[u] :
         attempts'[u][i] =
           IF u = t /\ i = n
             THEN [state |-> "leased", finished |-> FALSE,
                   token |-> fence + 1, writer |-> 0]
             ELSE attempts[u][i]
  BY DEF Lease, NextToken, AttemptRows, RowsBegun
<1>. QED
  BY <1>1, <1>2, <1>3, <1>4 DEF Leased, NoneSucceeds

(* An attempt begun is one of the attempts the task may have.              *)
LEMMA BegunIsAdmitted ==
    ASSUME WorkInv, NEW t \in Tasks
    PROVE  /\ attemptCount[t] \in Nat
           /\ MaxAttempts[t] \in Nat
           /\ \A n \in 1..attemptCount[t] : n \in 1..MaxAttempts[t]
  BY DEF WorkInv, TypeOK, TaskRows

(* Whatever the step, the attempts begun stay, and tokens ascend.          *)
LEMMA AttemptsGrow ==
    ASSUME WorkInv, TokensAscend, PlainStep \/ SuccessStep \/ LeaseStep
    PROVE  Grown /\ TokensAscend'
<1>0. FinishedKept
  BY StepsAreNext, NextKeepsFinished
<1>1. \A u \in Tasks : \A n \in 1..attemptCount[u] : n \in 1..MaxAttempts[u]
  BY BegunIsAdmitted
<1>2. \A u \in Tasks : \A n \in 1..MaxAttempts[u] : attempts[u][n].token \in Nat
  BY DEF WorkInv, TypeOK, AttemptRows, RowsBegun, Attempt
<1>3. fence \in Nat /\ \A u \in Tasks : attemptCount[u] \in Nat
  BY DEF WorkInv, TypeOK, LeaseRows, TaskRows
<1>4. ASSUME SameAttempts PROVE Grown /\ TokensAscend'
  <2>1. Grown
    BY <1>0, <1>1, <1>3, <1>4 DEF SameAttempts, Grown
  <2>2. TokensAscend'
    BY <1>1, <1>4 DEF SameAttempts, TokensAscend
  <2>. QED
    BY <2>1, <2>2
<1>5. CASE PlainStep
  BY <1>4, <1>5, PlainKeepsAttempts
<1>6. CASE SuccessStep
  BY <1>4, <1>6, TransitionKeepsTokens DEF SuccessStep
<1>7. ASSUME NEW t \in Tasks, Lease(t) PROVE Grown /\ TokensAscend'
  <2>1. Leased(t)
    BY <1>7, LeaseAdds
  <2>. DEFINE m == attemptCount[t] + 1
  <2>2. \A u \in Tasks : \A n \in 1..attemptCount[u] :
           attempts'[u][n] = attempts[u][n]
    <3>1. \A n \in 1..attemptCount[t] : n # m
      BY <1>3
    <3>. QED
      BY <1>1, <2>1, <3>1 DEF Leased
  <2>3. Grown
    BY <1>0, <1>3, <2>1, <2>2 DEF Leased, Grown
  <2>4. ASSUME NEW u \in Tasks, NEW n \in 1..MaxAttempts[u]
        PROVE  attempts'[u][n].token <= fence'
    <3>1. CASE u = t /\ n = m
      BY <1>3, <2>1, <3>1 DEF Leased
    <3>2. CASE ~(u = t /\ n = m)
      <4>1. attempts'[u][n] = attempts[u][n]
        BY <2>1, <3>2 DEF Leased
      <4>2. attempts[u][n].token <= fence
        BY DEF TokensAscend
      <4>3. fence' = fence + 1
        BY <2>1 DEF Leased
      <4>. QED
        BY <1>2, <1>3, <4>1, <4>2, <4>3
    <3>. QED
      BY <3>1, <3>2
  <2>5. ASSUME NEW u \in Tasks, NEW i \in 1..attemptCount'[u],
               NEW j \in 1..attemptCount'[u], i < j
        PROVE  attempts'[u][i].token < attempts'[u][j].token
    <3>0. attemptCount'[u] = IF u = t THEN m ELSE attemptCount[u]
      BY <2>1 DEF Leased
    <3>1. i \in 1..attemptCount[u]
      BY <1>3, <2>5, <3>0
    <3>2. CASE u = t /\ j = m
      <4>1. attempts'[t][j].token = fence + 1
        BY <2>1, <3>2 DEF Leased
      <4>2. attempts[t][i].token <= fence /\ attempts[t][i].token \in Nat
        BY <1>1, <1>2, <3>1, <3>2 DEF TokensAscend
      <4>. QED
        BY <1>3, <2>2, <3>1, <3>2, <4>1, <4>2
    <3>3. CASE ~(u = t /\ j = m)
      <4>1. j \in 1..attemptCount[u]
        BY <1>3, <3>0, <3>3
      <4>. QED
        BY <2>2, <2>5, <3>1, <4>1 DEF TokensAscend
    <3>. QED
      BY <3>2, <3>3
  <2>. QED
    BY <2>3, <2>4, <2>5 DEF TokensAscend
<1>. QED
  BY <1>5, <1>6, <1>7 DEF LeaseStep
-----------------------------------------------------------------------------
(* What a process may rely on.                                             *)
Busy == Executing \cup {"report", "checkpoint"}

(* Piece ord of the evidence of r's attempt is there, inserted by r.       *)
Has(r, ord) ==
    \E e \in evidence :
        /\ e.task = r.task /\ e.n = r.n /\ e.ord = ord /\ e.by = r.lease
        /\ ord > 1 => e.out = r.out

(* An attempt that a process executes is one it was leased, and has the    *)
(* evidence its place in the program says; its outcome is reported by      *)
(* nobody else, and is the one its record has.                             *)
Sound(r) ==
    /\ r.task \in specified
    /\ r.n \in 1..attemptCount[r.task]
    /\ r.lease = attempts[r.task][r.n].token
    /\ r.pc # "checkpoint" => reported[r.task][r.n] = <<>>
    /\ r.pc = "report" => /\ attempts[r.task][r.n].finished
                          /\ attempts[r.task][r.n].state = r.out
                          /\ r.out \in Outcome
    /\ r.pc \in {"leased", "started"} => r.out = "none"
    /\ r.pc = "failing" =>
        r.out \in {"verification", "invalid_output", "worker", "policy"}
    /\ r.pc \in {"returned", "output"} => r.out \in {"passed", "verification"}
    /\ r.pc \in {"verifying", "evidenced"} => r.out = "passed"
    /\ r.pc \in {"driving", "returned", "output", "verifying", "evidenced"}
         => Has(r, 1)
    /\ r.pc \in {"output", "verifying", "evidenced"} => Has(r, 2)
    /\ r.pc = "evidenced" => Has(r, 3)

Fits(r) ==
    /\ r \in Process
    /\ r.token <= sequenceFence
    /\ r.todo \subseteq specified
    /\ IF r.pc \in Busy THEN Sound(r) ELSE r.out = "none"

(* No two processes are at the same attempt.                               *)
OneProcess ==
    \A p, q \in Procs :
        p # q /\ me[p].pc \in Busy /\ me[q].pc \in Busy
              /\ me[p].task = me[q].task => me[p].n # me[q].n

ProcsInv ==
    /\ me \in [Procs -> Process]
    /\ \A p \in Procs : Fits(me[p])
    /\ OneProcess

TablesInv ==
    /\ specified \subseteq Tasks
    /\ sequenceFence \in Nat
    /\ sequence \in [token : {0, sequenceFence}, left : 0..SequenceTtl]
    /\ checkpoint.by \in 0..sequenceFence
    /\ faults \in 0..MaxFaults

EvidenceInv ==
    /\ evidence \subseteq EvidenceRows
    /\ \A e \in evidence : /\ e.n \in 1..attemptCount[e.task]
                           /\ e.by = attempts[e.task][e.n].token

(* An attempt is reported once it has ended, as it ended.                  *)
ReportsInv ==
    /\ DOMAIN reported = Tasks
    /\ \A t \in Tasks :
        /\ reported[t] \in [1..MaxAttempts[t] -> Seq(Outcome)]
        /\ \A n \in 1..MaxAttempts[t] :
            /\ n > attemptCount[t] => reported[t][n] = <<>>
            /\ \/ reported[t][n] = <<>>
               \/ /\ attempts[t][n].finished
                  /\ reported[t][n] = <<attempts[t][n].state>>

SupInv ==
    /\ WorkInv
    /\ TokensAscend
    /\ TablesInv
    /\ ProcsInv
    /\ EvidenceInv
    /\ ReportsInv
    /\ SucceededIsEvidenced

-----------------------------------------------------------------------------
(* What no step takes away.                                                *)
Onward ==
    /\ Grown
    /\ specified \subseteq specified'
    /\ specified' \subseteq Tasks
    /\ sequenceFence' \in Nat
    /\ sequenceFence <= sequenceFence'
    /\ evidence \subseteq evidence'

(* What a process relies on stays with it while its report is unwritten.   *)
LEMMA FitsStay ==
    ASSUME SupInv, Onward, NEW r, Fits(r),
           r.pc \in Busy /\ r.pc # "checkpoint"
             => reported'[r.task][r.n] = reported[r.task][r.n]
    PROVE  Fits(r)'
<1>1. r \in Process /\ r.todo \subseteq specified'
  BY DEF Fits, Onward
<1>2. r.token <= sequenceFence'
  BY DEF Fits, Onward, SupInv, TablesInv, Process
<1>3. ASSUME r.pc \in Busy PROVE Sound(r)'
  <2>1. Sound(r)
    BY <1>3 DEF Fits
  <2>2. r.task \in Tasks /\ r.task \in specified'
    BY <2>1 DEF Sound, SupInv, TablesInv, Onward
  <2>3. r.n \in 1..attemptCount[r.task] /\ r.n \in 1..MaxAttempts[r.task]
    BY <2>1, <2>2, BegunIsAdmitted DEF Sound, SupInv
  <2>4. r.n \in 1..attemptCount'[r.task]
    <3>1. /\ attemptCount[r.task] <= attemptCount'[r.task]
          /\ attemptCount'[r.task] \in Nat
          /\ attemptCount[r.task] \in Nat
      BY <2>2, BegunIsAdmitted DEF SupInv, Onward, Grown
    <3>. QED
      BY <2>3, <3>1
  <2>5. attempts'[r.task][r.n].token = attempts[r.task][r.n].token
    BY <2>2, <2>3 DEF Onward, Grown
  <2>6. attempts[r.task][r.n].finished
          => attempts'[r.task][r.n] = attempts[r.task][r.n]
    BY <2>2, <2>3 DEF Onward, Grown, FinishedKept
  <2>7. \A ord : Has(r, ord) => Has(r, ord)'
    BY DEF Has, Onward
  <2>. QED
    BY <1>3, <2>1, <2>2, <2>4, <2>5, <2>6, <2>7 DEF Sound
<1>. QED
  BY <1>1, <1>2, <1>3 DEF Fits

(* A step of one process: it moves to r, and may report the attempt it is  *)
(* at; every other process stays where it is.                              *)
LEMMA ProcessMoves ==
    ASSUME SupInv, Onward, NEW p \in Procs, NEW r, Fits(r)',
           me' = [me EXCEPT ![p] = r],
           \/ reported' = reported
           \/ /\ me[p].pc \in Busy
              /\ \A t \in Tasks : \A n \in 1..MaxAttempts[t] :
                   t # me[p].task \/ n # me[p].n
                     => reported'[t][n] = reported[t][n],
           r.pc \in Busy =>
             \/ /\ me[p].pc \in Busy
                /\ r.task = me[p].task
                /\ r.n = me[p].n
             \/ r.n > attemptCount[r.task]
    PROVE  ProcsInv'
<1>0. \A q \in Procs : me'[q] = IF q = p THEN r ELSE me[q]
  BY DEF SupInv, ProcsInv
<1>1. r \in Process
  BY DEF Fits
<1>2. me' \in [Procs -> Process]
  BY <1>1 DEF SupInv, ProcsInv
<1>3. \A q \in Procs : me[q].pc \in Busy =>
         /\ me[q].task \in Tasks
         /\ me[q].n \in 1..attemptCount[me[q].task]
         /\ me[q].n \in 1..MaxAttempts[me[q].task]
         /\ attemptCount[me[q].task] \in Nat
  BY BegunIsAdmitted DEF SupInv, ProcsInv, TablesInv, Fits, Sound
<1>4. ASSUME NEW q \in Procs, q # p PROVE Fits(me[q])'
  <2>1. PICK x : x = me[q]
    OBVIOUS
  <2>2. me'[q] = x /\ Fits(x)
    BY <1>0, <1>4, <2>1 DEF SupInv, ProcsInv
  <2>3. ASSUME x.pc \in Busy, x.pc # "checkpoint"
        PROVE  reported'[x.task][x.n] = reported[x.task][x.n]
    <3>1. x.task \in Tasks /\ x.n \in 1..MaxAttempts[x.task]
      BY <1>3, <2>1, <2>3
    <3>2. CASE reported' = reported
      BY <3>2
    <3>3. CASE reported' # reported
      <4>1. x.task # me[p].task \/ x.n # me[p].n
        BY <1>4, <2>1, <2>3, <3>3 DEF SupInv, ProcsInv, OneProcess
      <4>. QED
        BY <3>1, <3>3, <4>1
    <3>. QED
      BY <3>2, <3>3
  <2>4. Fits(x)'
    BY <2>2, <2>3, FitsStay
  <2>. QED
    BY <2>2, <2>4
<1>5. \A q \in Procs : Fits(me[q])'
  <2>. SUFFICES ASSUME NEW q \in Procs PROVE Fits(me[q])'
    OBVIOUS
  <2>1. PICK x : x = me'[q]
    OBVIOUS
  <2>2. Fits(x)'
    BY <1>0, <1>4, <2>1
  <2>. QED
    BY <2>1, <2>2
<1>6. OneProcess'
  <2>. SUFFICES ASSUME NEW a \in Procs, NEW b \in Procs, a # b,
                       me'[a].pc \in Busy, me'[b].pc \in Busy,
                       me'[a].task = me'[b].task
                PROVE  me'[a].n # me'[b].n
    BY DEF OneProcess
  <2>1. ASSUME NEW q \in Procs, q # p, me[q].pc \in Busy, r.pc \in Busy,
               me[q].task = r.task
        PROVE  me[q].n # r.n
    <3>1. CASE r.n > attemptCount[r.task]
      BY <1>3, <2>1, <3>1
    <3>2. CASE me[p].pc \in Busy /\ r.task = me[p].task /\ r.n = me[p].n
      BY <2>1, <3>2 DEF SupInv, ProcsInv, OneProcess
    <3>. QED
      BY <2>1, <3>1, <3>2
  <2>2. CASE a = p
    BY <1>0, <2>1, <2>2
  <2>3. CASE b = p
    BY <1>0, <2>1, <2>3
  <2>4. CASE a # p /\ b # p
    BY <1>0, <2>4 DEF SupInv, ProcsInv, OneProcess
  <2>. QED
    BY <2>2, <2>3, <2>4
<1>. QED
  BY <1>2, <1>5, <1>6 DEF ProcsInv

(* A step of nobody.                                                       *)
LEMMA ProcessesStay ==
    ASSUME SupInv, Onward, UNCHANGED <<me, reported>> PROVE ProcsInv'
<1>1. ASSUME NEW p \in Procs PROVE Fits(me[p])'
  <2>1. PICK x : x = me[p]
    OBVIOUS
  <2>2. Fits(x)'
    BY <2>1, FitsStay DEF SupInv, ProcsInv
  <2>. QED
    BY <2>1, <2>2
<1>2. OneProcess'
  BY DEF SupInv, ProcsInv, OneProcess
<1>. QED
  BY <1>1, <1>2 DEF SupInv, ProcsInv

(* The rows of evidence stay those of the attempts they name.              *)
LEMMA EvidenceStays ==
    ASSUME SupInv, Grown, NEW E \in SUBSET EvidenceRows, evidence' = E,
           \A e \in E : \/ e \in evidence
                        \/ /\ e.n \in 1..attemptCount[e.task]
                           /\ e.by = attempts[e.task][e.n].token
    PROVE  EvidenceInv'
<1>1. ASSUME NEW e \in E
      PROVE  /\ e.n \in 1..attemptCount'[e.task]
             /\ e.by = attempts'[e.task][e.n].token
  <2>1. e.task \in Tasks
    BY DEF EvidenceRows
  <2>2. /\ e.n \in 1..attemptCount[e.task]
        /\ e.by = attempts[e.task][e.n].token
    BY <1>1 DEF SupInv, EvidenceInv
  <2>3. /\ attemptCount[e.task] \in Nat
        /\ attemptCount'[e.task] \in Nat
        /\ attemptCount[e.task] <= attemptCount'[e.task]
    BY <2>1, BegunIsAdmitted DEF SupInv, Grown
  <2>4. attempts'[e.task][e.n].token = attempts[e.task][e.n].token
    BY <2>1, <2>2 DEF Grown
  <2>. QED
    BY <2>2, <2>3, <2>4
<1>. QED
  BY <1>1 DEF EvidenceInv

(* Reports stay: a finished record is never rewritten.                     *)
LEMMA ReportsStay ==
    ASSUME SupInv, Grown, UNCHANGED reported PROVE ReportsInv'
<1>1. ASSUME NEW t \in Tasks, NEW n \in 1..MaxAttempts[t]
      PROVE  /\ n > attemptCount'[t] => reported'[t][n] = <<>>
             /\ \/ reported'[t][n] = <<>>
                \/ /\ attempts'[t][n].finished
                   /\ reported'[t][n] = <<attempts'[t][n].state>>
  <2>1. attempts[t][n].finished => attempts'[t][n] = attempts[t][n]
    BY DEF Grown, FinishedKept
  <2>2. /\ attemptCount[t] \in Nat
        /\ attemptCount'[t] \in Nat
        /\ attemptCount[t] <= attemptCount'[t]
        /\ MaxAttempts[t] \in Nat
    BY BegunIsAdmitted DEF SupInv, Grown
  <2>3. n > attemptCount'[t] => n > attemptCount[t]
    BY <2>2
  <2>. QED
    BY <2>1, <2>3 DEF SupInv, ReportsInv
<1>. QED
  BY <1>1 DEF SupInv, ReportsInv

(* A task that had succeeded keeps its attempt and its evidence.           *)
LEMMA SuccessStays ==
    ASSUME SupInv, Grown, evidence \subseteq evidence',
           NEW t \in Tasks, state[t] = "succeeded",
           attemptCount'[t] = attemptCount[t]
    PROVE  \A ord \in 1..3 : \E e \in evidence' :
              /\ e.task = t /\ e.n = attemptCount'[t] /\ e.ord = ord
              /\ e.by = attempts'[t][attemptCount'[t]].token
              /\ ord > 1 => e.out = "passed"
<1>1. attempts'[t][attemptCount[t]].token = attempts[t][attemptCount[t]].token
  <2>1. PICK e \in evidence : e.task = t /\ e.n = attemptCount[t]
    BY DEF SupInv, SucceededIsEvidenced
  <2>2. attemptCount[t] \in 1..attemptCount[t]
    BY <2>1 DEF SupInv, EvidenceInv
  <2>. QED
    BY <2>2 DEF Grown
<1>. QED
  BY <1>1 DEF SupInv, SucceededIsEvidenced, current

LEMMA NoSuccess ==
    ASSUME SupInv, PlainStep \/ LeaseStep, Grown, evidence \subseteq evidence'
    PROVE  SucceededIsEvidenced'
<1>. SUFFICES ASSUME NEW t \in Tasks, state'[t] = "succeeded"
              PROVE  /\ state[t] = "succeeded"
                     /\ attemptCount'[t] = attemptCount[t]
  BY SuccessStays DEF SucceededIsEvidenced, current
<1>1. CASE PlainStep
  BY <1>1, PlainKeepsAttempts, PlainSucceedsNone
  DEF SupInv, SameAttempts, NoneSucceeds
<1>2. ASSUME NEW u \in Tasks, Lease(u)
      PROVE  /\ state[t] = "succeeded"
             /\ attemptCount'[t] = attemptCount[t]
  BY <1>2, LeaseAdds DEF SupInv, Leased, NoneSucceeds
<1>. QED
  BY <1>1, <1>2 DEF LeaseStep

(* The records when a step writes neither evidence nor report.             *)
LEMMA RecordsStay ==
    ASSUME SupInv, PlainStep \/ LeaseStep, UNCHANGED <<evidence, reported>>
    PROVE  /\ WorkInv'
           /\ TokensAscend'
           /\ Grown
           /\ EvidenceInv'
           /\ ReportsInv'
           /\ SucceededIsEvidenced'
<1>1. WorkInv'
  BY StepsAreNext, NextInv DEF SupInv
<1>2. Grown /\ TokensAscend'
  BY AttemptsGrow DEF SupInv
<1>3. EvidenceInv'
  BY <1>2, EvidenceStays DEF SupInv, EvidenceInv
<1>4. ReportsInv'
  BY <1>2, ReportsStay
<1>5. SucceededIsEvidenced'
  BY <1>2, NoSuccess
<1>. QED
  BY <1>1, <1>2, <1>3, <1>4, <1>5

(* A step that leaves the processes and their records alone.               *)
LEMMA NobodyMoves ==
    ASSUME SupInv, PlainStep, TablesInv',
           specified \subseteq specified', UNCHANGED sequenceFence,
           UNCHANGED <<me, evidence, reported>>
    PROVE  SupInv'
<1>1. Onward
  BY RecordsStay DEF Onward, SupInv, TablesInv
<1>2. ProcsInv'
  BY <1>1, ProcessesStay
<1>. QED
  BY <1>2, RecordsStay DEF SupInv

(* A step of one process that writes neither evidence nor report and goes  *)
(* on with the attempt it was at, or with none.                            *)
LEMMA OneMoves ==
    ASSUME SupInv, PlainStep, TablesInv', UNCHANGED specified,
           sequenceFence <= sequenceFence',
           UNCHANGED <<evidence, reported>>,
           NEW p \in Procs, NEW r, me' = [me EXCEPT ![p] = r],
           Onward => Fits(r)',
           r.pc \in Busy => /\ me[p].pc \in Busy
                            /\ r.task = me[p].task
                            /\ r.n = me[p].n
    PROVE  SupInv'
<1>1. Onward
  BY RecordsStay DEF Onward, SupInv, TablesInv
<1>2. ProcsInv'
  BY <1>1, ProcessMoves
<1>. QED
  BY <1>2, RecordsStay DEF SupInv

(* A process that is at no attempt relies on little.                       *)
LEMMA IdleFits ==
    ASSUME NEW r \in Process, r.pc \notin Busy, r.token <= sequenceFence',
           r.todo \subseteq specified', r.out = "none"
    PROVE  Fits(r)'
  BY DEF Fits

LEMMA DownFits ==
    ASSUME sequenceFence' \in Nat
    PROVE  Down \in Process /\ Down.pc \notin Busy /\ Fits(Down)'
  BY DEF Down, Process, Running, Executing, Busy, Fits

(* One that stays at its attempt, and at a place that asks no more of the  *)
(* tables than the one it was at.                                          *)
LEMMA StillSound ==
    ASSUME SupInv, Onward, NEW r, Fits(r), NEW x, x \in Process,
           x.token = r.token, x.todo \subseteq r.todo, x.pc = r.pc,
           x.task = r.task, x.n = r.n, x.lease = r.lease, x.out = r.out,
           r.pc \in Busy /\ r.pc # "checkpoint"
             => reported'[r.task][r.n] = reported[r.task][r.n]
    PROVE  Fits(x)'
<1>1. Fits(r)'
  BY FitsStay
<1>2. \A ord : Has(r, ord)' => Has(x, ord)'
  BY DEF Has
<1>. QED
  BY <1>1, <1>2 DEF Fits, Sound

-----------------------------------------------------------------------------
(* The steps of producers, the owner and the clock.                        *)
LEMMA TablesStay ==
    ASSUME SupInv, UNCHANGED <<specified, sequence, sequenceFence, checkpoint>>,
           UNCHANGED faults \/ Fault
    PROVE  TablesInv'
  BY SupervisorAssumption DEF SupInv, TablesInv, Fault, SupervisorAssumption

LEMMA OwnerKeeps ==
    ASSUME SupInv, NEW t \in Tasks, Produce(t) \/ CancelReply(t)
    PROVE  SupInv'
<1>1. PlainStep
  BY DEF Produce, CancelReply, PlainStep, TaskState
<1>2. UNCHANGED <<specified, sequenceVars, me, recordVars, faults>>
  BY DEF Produce, CancelReply
<1>. QED
  BY <1>1, <1>2, TablesStay, NobodyMoves DEF sequenceVars, recordVars, SupInv, TablesInv

LEMMA SpecifyKeeps ==
    ASSUME SupInv, NEW t \in Tasks, Specify(t) PROVE SupInv'
<1>1. PlainStep
  BY DEF Specify, PlainStep
<1>2. /\ specified' = specified \cup {t}
      /\ UNCHANGED <<sequence, sequenceFence, me, evidence, reported,
                     checkpoint, faults>>
  BY DEF Specify, sequenceVars, recordVars
<1>3. TablesInv'
  BY <1>2 DEF SupInv, TablesInv
<1>. QED
  BY <1>1, <1>2, <1>3, NobodyMoves

LEMMA FactoryKeeps ==
    ASSUME SupInv, StopFactory \/ ResumeFactory \/ Charge PROVE SupInv'
<1>1. PlainStep
  BY DEF StopFactory, ResumeFactory, Charge, PlainStep
<1>2. /\ UNCHANGED <<specified, sequenceVars, me, recordVars>>
      /\ UNCHANGED faults \/ Fault
  BY DEF StopFactory, ResumeFactory, Charge
<1>. QED
  BY <1>1, <1>2, TablesStay, NobodyMoves
  DEF sequenceVars, recordVars

LEMMA ClockKeeps == ASSUME SupInv, ClockStep PROVE SupInv'
<1>1. ASSUME NEW t \in Tasks, LeaseRunsDown(t) \/ BackoffEnds(t) PROVE SupInv'
  <2>1. PlainStep
    BY <1>1 DEF LeaseRunsDown, BackoffEnds, PlainStep
  <2>2. /\ UNCHANGED <<specified, sequenceVars, me, recordVars>>
        /\ UNCHANGED faults \/ Fault
    BY <1>1 DEF LeaseRunsDown, BackoffEnds
  <2>. QED
    BY <2>1, <2>2, TablesStay, NobodyMoves
    DEF sequenceVars, recordVars
<1>2. CASE SequenceRunsDown
  <2>1. PlainStep
    BY <1>2 DEF SequenceRunsDown, PlainStep
  <2>2. /\ UNCHANGED <<specified, sequenceFence, me, recordVars>>
        /\ UNCHANGED faults \/ Fault
    BY <1>2 DEF SequenceRunsDown
  <2>3. sequence' \in [token : {0, sequenceFence}, left : 0..SequenceTtl]
    BY <1>2, SupervisorAssumption
    DEF SequenceRunsDown, SupInv, TablesInv, SupervisorAssumption
  <2>4. TablesInv'
    BY <2>2, <2>3, SupervisorAssumption
    DEF SupInv, TablesInv, recordVars, Fault, SupervisorAssumption
  <2>. QED
    BY <2>1, <2>2, <2>4, NobodyMoves DEF recordVars
<1>. QED
  BY <1>1, <1>2 DEF ClockStep

-----------------------------------------------------------------------------
(* The steps of a process that is at no attempt when they end.             *)

(* The sequence lease is given up.                                         *)
LEMMA ExitKeeps ==
    ASSUME SupInv, NEW p \in Procs, Exit(p) PROVE SupInv'
<1>1. PlainStep
  BY DEF Exit, PlainStep
<1>2. /\ me' = [me EXCEPT ![p] = Down]
      /\ sequence' = IF sequence.token = me[p].token THEN NoLease ELSE sequence
      /\ UNCHANGED <<specified, sequenceFence, evidence, reported, checkpoint,
                     faults>>
  BY DEF Exit, recordVars
<1>3. TablesInv'
  BY <1>2, SupervisorAssumption
  DEF SupInv, TablesInv, NoLease, SupervisorAssumption
<1>4. /\ sequenceFence' \in Nat
      /\ sequenceFence <= sequenceFence'
  BY <1>2 DEF SupInv, TablesInv
<1>. QED
  BY <1>1, <1>2, <1>3, <1>4, OneMoves, DownFits

LEMMA CrashKeeps ==
    ASSUME SupInv, NEW p \in Procs, Crash(p) PROVE SupInv'
<1>1. PlainStep
  BY DEF Crash, PlainStep
<1>2. /\ me' = [me EXCEPT ![p] = Down]
      /\ Fault
      /\ UNCHANGED <<specified, sequence, sequenceFence, evidence, reported,
                     checkpoint>>
  BY DEF Crash, recordVars, sequenceVars
<1>3. TablesInv'
  BY <1>2, TablesStay
<1>4. /\ sequenceFence' \in Nat
      /\ sequenceFence <= sequenceFence'
  BY <1>2 DEF SupInv, TablesInv
<1>. QED
  BY <1>1, <1>2, <1>3, <1>4, OneMoves, DownFits

(* A step to a place outside any attempt: p is left at r, and the tables   *)
(* of the sequence are as they were.                                       *)
LEMMA RestsAt ==
    ASSUME SupInv, PlainStep, NEW p \in Procs, NEW r \in Process,
           me' = [me EXCEPT ![p] = r], r.pc \notin Busy,
           r.token = me[p].token, r.todo \subseteq specified,
           r.out = "none",
           UNCHANGED <<specified, sequenceVars, evidence, reported, faults>>,
           checkpoint'.by \in 0..sequenceFence
    PROVE  SupInv'
<1>1. TablesInv'
  BY DEF SupInv, TablesInv, sequenceVars
<1>2. me[p].token <= sequenceFence /\ sequenceFence \in Nat
  BY DEF SupInv, ProcsInv, Fits, TablesInv
<1>3. Fits(r)'
  BY <1>2, IdleFits DEF sequenceVars
<1>4. sequenceFence <= sequenceFence' /\ UNCHANGED specified
  BY <1>2 DEF sequenceVars
<1>. QED
  BY <1>1, <1>3, <1>4, OneMoves

LEMMA StartKeeps ==
    ASSUME SupInv, NEW p \in Procs, Start(p) PROVE SupInv'
<1>1. PlainStep
  BY DEF Start, PlainStep
<1>2. PICK r : r = [me[p] EXCEPT !.pc = "starting"]
  OBVIOUS
<1>3. /\ me[p] \in Process
      /\ me[p].todo \subseteq specified
      /\ me[p].out = "none"
  <2>1. me[p].pc \notin Busy
    BY DEF Start, At, Busy, Executing
  <2>. QED
    BY <2>1 DEF SupInv, ProcsInv, Fits
<1>4. /\ r \in Process
      /\ r.out = "none"
      /\ r.token = me[p].token
      /\ r.todo = me[p].todo
      /\ r.pc \notin Busy
  BY <1>2, <1>3 DEF Process, Busy, Executing
<1>5. /\ me' = [me EXCEPT ![p] = r]
      /\ UNCHANGED <<specified, sequenceVars, evidence, reported, faults,
                     checkpoint>>
  BY <1>2 DEF Start, Goto, recordVars, SupInv, ProcsInv
<1>. QED
  BY <1>1, <1>3, <1>4, <1>5, RestsAt DEF SupInv, TablesInv

(* claim() gives the next token of the sequence, or ends the process.      *)
LEMMA ClaimKeeps ==
    ASSUME SupInv, NEW p \in Procs, Claim(p) PROVE SupInv'
<1>1. PlainStep
  BY DEF Claim, PlainStep
<1>2. /\ me[p] \in Process
      /\ me[p].todo \subseteq specified
      /\ me[p].out = "none"
  <2>1. me[p].pc \notin Busy
    BY DEF Claim, At, Busy, Executing
  <2>. QED
    BY <2>1 DEF SupInv, ProcsInv, Fits
<1>3. CASE sequence.left = 0
  <2>1. PICK r : r = [me[p] EXCEPT !.pc = "loop", !.token = sequenceFence + 1]
    OBVIOUS
  <2>2. /\ me' = [me EXCEPT ![p] = r]
        /\ sequenceFence' = sequenceFence + 1
        /\ sequence' = [token |-> sequenceFence + 1, left |-> SequenceTtl]
        /\ UNCHANGED <<specified, evidence, reported, checkpoint, faults>>
    BY <1>3, <2>1 DEF Claim, recordVars, SupInv, ProcsInv
  <2>3. sequenceFence \in Nat
    BY DEF SupInv, TablesInv
  <2>4. /\ r \in Process
        /\ r.out = "none"
        /\ r.token = sequenceFence + 1
        /\ r.todo = me[p].todo
        /\ r.pc \notin Busy
    <3>1. r \in Process
      <4>1. PICK k : k = sequenceFence + 1
        OBVIOUS
      <4>2. k \in Nat /\ r = [me[p] EXCEPT !.pc = "loop", !.token = k]
        BY <2>1, <2>3, <4>1
      <4>. QED
        BY <1>2, <4>2 DEF Process, Running
    <3>. QED
      BY <1>2, <2>1, <3>1 DEF Process, Busy, Executing
  <2>5. Fits(r)'
    BY <1>2, <2>2, <2>3, <2>4, IdleFits
  <2>6. TablesInv'
    BY <2>2, <2>3, SupervisorAssumption
    DEF SupInv, TablesInv, SupervisorAssumption
  <2>7. sequenceFence <= sequenceFence'
    BY <2>2, <2>3
  <2>. QED
    BY <1>1, <2>2, <2>4, <2>5, <2>6, <2>7, OneMoves
<1>4. CASE sequence.left # 0
  <2>1. PICK r : r = [me[p] EXCEPT !.pc = "down"]
    OBVIOUS
  <2>2. /\ me' = [me EXCEPT ![p] = r]
        /\ UNCHANGED <<specified, sequenceVars, evidence, reported, faults,
                       checkpoint>>
    BY <1>4, <2>1 DEF Claim, Goto, recordVars, SupInv, ProcsInv
  <2>3. /\ r \in Process
        /\ r.out = "none"
        /\ r.token = me[p].token
        /\ r.todo = me[p].todo
        /\ r.pc \notin Busy
    BY <1>2, <2>1 DEF Process, Busy, Executing
  <2>. QED
    BY <1>1, <1>2, <2>2, <2>3, RestsAt DEF SupInv, TablesInv
<1>. QED
  BY <1>3, <1>4

(* One step of the loop moves a process between the places of the loop     *)
(* and changes what it has read.                                           *)
LEMMA LoopStep ==
    ASSUME SupInv, PlainStep, NEW p \in Procs,
           NEW label \in {"loop", "sweep", "promote", "select", "pick"},
           NEW T, T \subseteq specified, me[p].pc \notin Busy,
           me' = [me EXCEPT ![p] = [@ EXCEPT !.pc = label, !.todo = T]],
           UNCHANGED <<specified, sequenceVars, recordVars, faults>>
    PROVE  SupInv'
<1>1. PICK r : r = [me[p] EXCEPT !.pc = label, !.todo = T]
  OBVIOUS
<1>2. /\ me[p] \in Process
      /\ specified \subseteq Tasks
      /\ me[p].out = "none"
  BY DEF SupInv, ProcsInv, TablesInv, Fits
<1>3. /\ r \in Process
      /\ r.out = "none"
      /\ r.token = me[p].token
      /\ r.todo = T
      /\ r.pc \notin Busy
  BY <1>1, <1>2 DEF Process, Busy, Executing, Running
<1>4. me' = [me EXCEPT ![p] = r]
  BY <1>1 DEF SupInv, ProcsInv
<1>. QED
  BY <1>3, <1>4, RestsAt DEF recordVars, SupInv, TablesInv

LEMMA LoopKeeps ==
    ASSUME SupInv, NEW p \in Procs,
           Reclaim(p) \/ Sweep(p) \/ Promote(p) \/ Select(p)
    PROVE  SupInv'
<1>1. me[p] \in Process /\ me[p].todo \subseteq specified
      /\ me \in [Procs -> Process] /\ specified \subseteq Tasks
  BY DEF SupInv, ProcsInv, Fits, TablesInv
<1>0. me[p].pc \notin Busy
  BY DEF Reclaim, Sweep, Promote, Select, At, Busy, Executing
<1>. DEFINE To(label, T) ==
              me' = [me EXCEPT ![p] = [@ EXCEPT !.pc = label, !.todo = T]]
<1>2. ASSUME NEW label, Goto(p, label) PROVE To(label, me[p].todo)
  BY <1>1, <1>2 DEF Goto, Process
<1>3. CASE Reclaim(p)
  <2>1. CASE me[p].ending # "no"
    BY <1>3, <2>1, ExitKeeps DEF Reclaim
  <2>2. CASE me[p].ending = "no"
    <3>1. PlainStep /\ To("sweep", me[p].todo)
      BY <1>2, <1>3, <2>2 DEF Reclaim, Reclaimed, PlainStep
    <3>. QED
      BY <1>1, <1>3, <2>2, <3>1, <1>0, LoopStep DEF Reclaim
  <2>. QED
    BY <2>1, <2>2
<1>4. CASE Sweep(p)
  <2>1. PICK T \in Few(Due) :
          me' = [me EXCEPT ![p].pc = "promote", ![p].todo = T]
    BY <1>4 DEF Sweep
  <2>2. T \subseteq specified
    BY <2>1 DEF Few, Due
  <2>3. PlainStep /\ To("promote", T)
    BY <1>1, <1>4, <2>1 DEF Sweep, PlainStep
  <2>. QED
    BY <1>4, <2>2, <2>3, <1>0, LoopStep DEF Sweep
<1>5. CASE Promote(p)
  <2>1. CASE me[p].todo = {}
    <3>1. PlainStep /\ To("select", me[p].todo)
      BY <1>2, <1>5, <2>1 DEF Promote, PlainStep
    <3>. QED
      BY <1>1, <1>5, <3>1, <1>0, LoopStep DEF Promote
  <2>2. CASE me[p].todo # {}
    <3>1. PICK t \in me[p].todo :
            /\ PromoteRetry(t)
            /\ me' = [me EXCEPT ![p].todo = @ \ {t}]
      BY <1>5, <2>2 DEF Promote
    <3>2. PlainStep
      BY <1>1, <3>1 DEF PromoteRetry, PlainStep, TaskState
    <3>3. PICK T : T = me[p].todo \ {t}
      OBVIOUS
    <3>4. T \subseteq specified
      BY <1>1, <3>3
    <3>5. PICK x : x = me[p]
      OBVIOUS
    <3>6. x \in Process /\ x.pc = "promote"
      BY <1>1, <1>5, <3>5 DEF Promote, At
    <3>7. [x EXCEPT !.pc = "promote", !.todo = T] = [x EXCEPT !.todo = T]
      BY <3>6 DEF Process
    <3>8. To("promote", T)
      BY <1>1, <3>1, <3>3, <3>5, <3>7
    <3>9. UNCHANGED <<specified, sequenceVars, recordVars, faults>>
      BY <1>5 DEF Promote
    <3>. QED
      BY <3>2, <3>4, <3>8, <3>9, <1>0, LoopStep
  <2>. QED
    BY <2>1, <2>2
<1>6. CASE Select(p)
  <2>1. PICK T : T = IF stopped THEN {} ELSE FirstFew(Queued)
    OBVIOUS
  <2>2. T \subseteq specified
    BY <2>1 DEF FirstFew, Queued
  <2>3. PlainStep /\ To("pick", T)
    BY <1>1, <1>6, <2>1 DEF Select, PlainStep
  <2>. QED
    BY <1>6, <2>2, <2>3, <1>0, LoopStep DEF Select
<1>. QED
  BY <1>3, <1>4, <1>5, <1>6

(* The checkpoint is written by the latest claimant, or the process ends.  *)
LEMMA CheckpointKeeps ==
    ASSUME SupInv, NEW p \in Procs, Checkpoint(p) PROVE SupInv'
<1>1. PlainStep
  BY DEF Checkpoint, Exit, PlainStep
<1>2. CASE ~MayCheckpoint(p)
  BY <1>2, ExitKeeps DEF Checkpoint
<1>3. CASE MayCheckpoint(p)
  <2>1. PICK x : x = me[p]
    OBVIOUS
  <2>2. x \in Process
    BY <2>1 DEF SupInv, ProcsInv
  <2>3. PICK r : r = [Down EXCEPT !.pc = "loop", !.token = x.token,
                                  !.ending = x.ending]
    OBVIOUS
  <2>4. r \in Process
    BY <2>2, <2>3 DEF Process, Down, Running
  <2>5. /\ r.token = x.token
        /\ r.todo = {}
        /\ r.out = "none"
        /\ r.pc \notin Busy
    BY <2>3 DEF Down, Busy, Executing
  <2>6. /\ me' = [me EXCEPT ![p] = r]
        /\ checkpoint'.by = x.token
        /\ UNCHANGED <<specified, sequenceVars, evidence, reported, faults>>
    BY <1>3, <2>1, <2>3 DEF Checkpoint
  <2>7. checkpoint'.by \in 0..sequenceFence
    <3>1. x.token \in Nat /\ x.token <= sequenceFence /\ sequenceFence \in Nat
      BY <2>1, <2>2 DEF SupInv, ProcsInv, Fits, TablesInv, Process
    <3>. QED
      BY <2>6, <3>1
  <2>. QED
    BY <1>1, <2>1, <2>4, <2>5, <2>6, <2>7, RestsAt
<1>. QED
  BY <1>2, <1>3

-----------------------------------------------------------------------------
(* The steps of an attempt.                                                *)

(* A token that is live was issued.                                        *)
LEMMA TokenIssued ==
    ASSUME WorkInv, NEW t \in Tasks, NEW k, Live(t, k)
    PROVE  k \in 1..fence
  BY DEF WorkInv, TypeOK, LeaseRows, Live

(* What p knows of its attempt.                                            *)
LEMMA AtAttempt ==
    ASSUME SupInv, NEW p \in Procs, me[p].pc \in Busy
    PROVE  /\ me[p] \in Process
           /\ Fits(me[p])
           /\ Sound(me[p])
           /\ me[p].task \in Tasks
           /\ me[p].n \in 1..attemptCount[me[p].task]
           /\ me[p].n \in 1..MaxAttempts[me[p].task]
  BY BegunIsAdmitted DEF SupInv, ProcsInv, TablesInv, Fits, Sound

(* A live lease is that of the task's latest attempt.                      *)
LEMMA LiveIsLatest ==
    ASSUME SupInv, NEW p \in Procs, me[p].pc \in Busy, ~JobLost(p)
    PROVE  /\ me[p].lease \in 1..fence
           /\ me[p].n = attemptCount[me[p].task]
           /\ state[me[p].task] \in workerStates
           /\ ~attempts[me[p].task][me[p].n].finished
<1>. DEFINE t == me[p].task
            n == me[p].n
<1>1. /\ t \in Tasks
      /\ n \in 1..attemptCount[t]
      /\ me[p].lease = attempts[t][n].token
  BY AtAttempt DEF Sound
<1>2. Live(t, me[p].lease)
  BY DEF JobLost
<1>3. me[p].lease \in 1..fence
  BY <1>1, <1>2, TokenIssued DEF SupInv
<1>4. /\ state[t] \in workerStates
      /\ attemptCount[t] \in 1..MaxAttempts[t]
      /\ ~attempts[t][attemptCount[t]].finished
  BY <1>1, <1>2, <1>3, HeldRowOpen DEF SupInv
<1>5. attempts[t][attemptCount[t]].token = me[p].lease
  BY <1>1, <1>2, <1>4 DEF SupInv, WorkInv, HeldAttempt, current, Live
<1>6. attemptCount[t] \in Nat /\ attemptCount[t] \in 1..attemptCount[t]
  BY <1>4
<1>7. ~(n < attemptCount[t])
  <2>. SUFFICES ASSUME n < attemptCount[t] PROVE FALSE
    OBVIOUS
  <2>1. attempts[t][n].token < attempts[t][attemptCount[t]].token
    BY <1>1, <1>6 DEF SupInv, TokensAscend
  <2>. QED
    BY <1>1, <1>3, <1>5, <2>1
<1>. QED
  BY <1>1, <1>3, <1>4, <1>6, <1>7

(* The process stays at its attempt, the tables of the sequence as they    *)
(* were.                                                                   *)
LEMMA WorksOn ==
    ASSUME SupInv, PlainStep, NEW p \in Procs, me[p].pc \in Busy, NEW r,
           me' = [me EXCEPT ![p] = r], Onward => Fits(r)',
           r.task = me[p].task, r.n = me[p].n,
           UNCHANGED <<specified, sequenceVars, recordVars>>,
           UNCHANGED faults \/ Fault
    PROVE  SupInv'
<1>1. TablesInv'
  BY TablesStay DEF sequenceVars, recordVars
<1>2. sequenceFence <= sequenceFence'
  BY DEF SupInv, TablesInv, sequenceVars
<1>. QED
  BY <1>1, <1>2, OneMoves DEF recordVars

(* A signal is heard or not; nothing else of what a process knows changes. *)
LEMMA AbortedIs ==
    ASSUME NEW x \in Process, NEW why \in {"lost", "term"}
    PROVE  /\ Aborted(x, why) \in Process
           /\ Aborted(x, why).token = x.token
           /\ Aborted(x, why).todo = x.todo
           /\ Aborted(x, why).pc = x.pc
           /\ Aborted(x, why).task = x.task
           /\ Aborted(x, why).n = x.n
           /\ Aborted(x, why).lease = x.lease
           /\ Aborted(x, why).out = x.out
<1>1. PICK b \in BOOLEAN : b = (x.aborted \/ Hears(x))
  OBVIOUS
<1>2. Aborted(x, why) = [x EXCEPT !.ending = why, !.aborted = b]
  BY <1>1 DEF Aborted
<1>. QED
  BY <1>2 DEF Process

LEMMA SignalKeeps ==
    ASSUME SupInv, NEW p \in Procs, SequenceHeartbeat(p) \/ Terminate(p)
    PROVE  SupInv'
<1>1. PlainStep
  BY DEF SequenceHeartbeat, Terminate, PlainStep
<1>2. ASSUME NEW why \in {"lost", "term"},
             me' = [me EXCEPT ![p] = Aborted(@, why)],
             UNCHANGED <<specified, sequenceVars, recordVars>>,
             UNCHANGED faults \/ Fault
      PROVE  SupInv'
  <2>1. PICK x : x = me[p]
    OBVIOUS
  <2>2. x \in Process /\ Fits(x)
    BY <2>1 DEF SupInv, ProcsInv
  <2>3. PICK r : r = Aborted(x, why)
    OBVIOUS
  <2>4. me' = [me EXCEPT ![p] = r]
    BY <1>2, <2>1, <2>3
  <2>5. Onward => Fits(r)'
    BY <1>2, <2>2, <2>3, AbortedIs, StillSound DEF recordVars
  <2>6. r.pc = x.pc /\ r.task = x.task /\ r.n = x.n
    BY <2>2, <2>3, AbortedIs
  <2>7. TablesInv'
    BY <1>2, TablesStay DEF sequenceVars, recordVars
  <2>8. sequenceFence <= sequenceFence'
    BY <1>2 DEF SupInv, TablesInv, sequenceVars
  <2>. QED
    BY <1>1, <1>2, <2>1, <2>4, <2>5, <2>6, <2>7, <2>8, OneMoves DEF recordVars
<1>3. CASE Terminate(p)
  BY <1>2, <1>3 DEF Terminate
<1>4. CASE SequenceHeartbeat(p)
  <2>1. CASE SequenceLive(me[p].token)
    <3>1. /\ sequence' = [sequence EXCEPT !.left = SequenceTtl]
          /\ UNCHANGED <<me, specified, sequenceFence, recordVars, faults>>
      BY <1>4, <2>1 DEF SequenceHeartbeat
    <3>2. TablesInv'
      BY <3>1, SupervisorAssumption
      DEF SupInv, TablesInv, recordVars, SupervisorAssumption
    <3>. QED
      BY <1>1, <3>1, <3>2, NobodyMoves DEF recordVars
  <2>2. CASE ~SequenceLive(me[p].token)
    BY <1>2, <1>4, <2>2 DEF SequenceHeartbeat, sequenceVars
  <2>. QED
    BY <2>1, <2>2
<1>. QED
  BY <1>3, <1>4

LEMMA JobHeartbeatKeeps ==
    ASSUME SupInv, NEW p \in Procs, JobHeartbeat(p) PROVE SupInv'
<1>1. me[p].pc \in Busy
  BY DEF JobHeartbeat, Busy
<1>2. UNCHANGED <<specified, sequenceVars, recordVars, faults>>
  BY DEF JobHeartbeat
<1>3. CASE JobLost(p) \/ stopped
  <2>1. PICK b \in BOOLEAN : b = Hears(me[p])
    BY DEF Hears
  <2>2. PICK r : r = [me[p] EXCEPT !.lost = b, !.aborted = b]
    OBVIOUS
  <2>3. PlainStep /\ me' = [me EXCEPT ![p] = r]
    BY <1>3, <2>1, <2>2 DEF JobHeartbeat, PlainStep, SupInv, ProcsInv
  <2>4. me[p] \in Process /\ Fits(me[p])
    BY <1>1, AtAttempt
  <2>5. /\ r \in Process
        /\ r.token = me[p].token
        /\ r.todo = me[p].todo
        /\ r.pc = me[p].pc
        /\ r.task = me[p].task
        /\ r.n = me[p].n
        /\ r.lease = me[p].lease
        /\ r.out = me[p].out
    BY <2>2, <2>4 DEF Process
  <2>6. Onward => Fits(r)'
    <3>1. PICK x : x = me[p]
      OBVIOUS
    <3>2. Onward => Fits(r)'
      BY <1>2, <2>4, <2>5, <3>1, StillSound DEF recordVars
    <3>. QED
      BY <3>2
  <2>. QED
    BY <1>1, <1>2, <2>3, <2>5, <2>6, WorksOn
<1>4. CASE ~(JobLost(p) \/ stopped)
  <2>1. me[p].task \in Tasks /\ me[p].lease \in 1..fence
    BY <1>1, <1>4, AtAttempt, LiveIsLatest
  <2>2. PlainStep /\ UNCHANGED me
    BY <1>4, <2>1 DEF JobHeartbeat, PlainStep
  <2>. QED
    BY <1>2, <2>2, TablesStay, NobodyMoves DEF sequenceVars, recordVars
<1>. QED
  BY <1>3, <1>4

(* The driver answers.                                                     *)
LEMMA DriverReturnsKeeps ==
    ASSUME SupInv, NEW p \in Procs, NEW verdict \in Verdict,
           DriverReturns(p, verdict)
    PROVE  SupInv'
<1>1. PICK x : x = me[p]
  OBVIOUS
<1>2. x.pc = "driving" /\ x.pc \in Busy
  BY <1>1 DEF DriverReturns, At, Busy, Executing
<1>3. x \in Process /\ Fits(x) /\ Sound(x)
  BY <1>1, <1>2, AtAttempt
<1>4. PICK label : label = IF verdict \in {"passed", "verification"}
                             THEN "returned" ELSE "failing"
  OBVIOUS
<1>5. PICK r : r = [x EXCEPT !.out = verdict, !.aborted = FALSE, !.pc = label]
  OBVIOUS
<1>6. /\ PlainStep
      /\ verdict \in {"passed", "verification", "invalid_output", "worker"}
      /\ me' = [me EXCEPT ![p] = r]
      /\ UNCHANGED <<specified, sequenceVars, recordVars, faults>>
  BY <1>1, <1>4, <1>5 DEF DriverReturns, PlainStep, SupInv, ProcsInv
<1>7. r \in Process
  BY <1>3, <1>4, <1>5 DEF Process, Running, Executing
<1>8. /\ r.token = x.token
      /\ r.todo = x.todo
      /\ r.pc = label
      /\ r.task = x.task
      /\ r.n = x.n
      /\ r.lease = x.lease
      /\ r.out = verdict
  BY <1>3, <1>5 DEF Process
<1>9. ASSUME Onward PROVE Fits(r)'
  <2>1. Fits(x)'
    BY <1>3, <1>6, <1>9, FitsStay DEF recordVars
  <2>2. Sound(x)'
    BY <1>2, <2>1 DEF Fits
  <2>3. Has(x, 1)' => Has(r, 1)'
    BY <1>8 DEF Has
  <2>4. Sound(r)'
    BY <1>2, <1>4, <1>6, <1>8, <2>2, <2>3 DEF Sound
  <2>. QED
    BY <1>4, <1>7, <1>8, <2>1, <2>4 DEF Fits, Busy, Executing
<1>. QED
  BY <1>1, <1>2, <1>6, <1>8, <1>9, WorksOn

(* A worker transition that does not succeed: the process goes on at label *)
(* with what it knows, or fails the attempt for want of a driver.          *)
LEMMA TransitionWorks ==
    ASSUME SupInv, NEW p \in Procs, me[p].pc \in {"leased", "output"},
           NEW from \in TaskState, NEW to \in TaskState, to # "succeeded",
           Transition(me[p].task, me[p].lease, from, to),
           NEW label \in {"started", "verifying", "failing"},
           NEW o \in {"none"} \cup Verdict \cup Outcome,
           me' = [me EXCEPT ![p].pc = label, ![p].out = o],
           UNCHANGED <<specified, sequenceVars, recordVars, faults>>,
           label = "started" => o = "none",
           label = "failing" => o \in {"verification", "policy"},
           label = "verifying" => /\ o = "passed"
                                  /\ me[p].pc = "output"
                                  /\ me[p].out = "passed"
    PROVE  SupInv'
<1>1. PICK x : x = me[p]
  OBVIOUS
<1>2. x.pc \in Busy
  BY <1>1 DEF Busy, Executing
<1>3. x \in Process /\ Fits(x) /\ Sound(x) /\ x.task \in Tasks
  BY <1>1, <1>2, AtAttempt
<1>4. x.lease \in 1..fence
  BY <1>1, <1>2, LiveIsLatest DEF Transition, JobLost
<1>5. PlainStep
  BY <1>1, <1>3, <1>4 DEF PlainStep
<1>6. PICK r : r = [x EXCEPT !.pc = label, !.out = o]
  OBVIOUS
<1>7. me' = [me EXCEPT ![p] = r]
  BY <1>1, <1>6 DEF SupInv, ProcsInv
<1>8. r \in Process
  BY <1>3, <1>6 DEF Process, Running, Executing
<1>9. /\ r.token = x.token
      /\ r.todo = x.todo
      /\ r.pc = label
      /\ r.task = x.task
      /\ r.n = x.n
      /\ r.lease = x.lease
      /\ r.out = o
  BY <1>3, <1>6 DEF Process
<1>10. ASSUME Onward PROVE Fits(r)'
  <2>1. Fits(x)'
    BY <1>3, <1>10, FitsStay DEF recordVars
  <2>2. Sound(x)'
    BY <1>2, <2>1 DEF Fits
  <2>3. ASSUME label = "verifying", NEW ord \in 1..3
        PROVE  Has(x, ord)' => Has(r, ord)'
    BY <1>1, <1>9, <2>3 DEF Has
  <2>4. Sound(r)'
    BY <1>1, <1>9, <2>2, <2>3 DEF Sound
  <2>. QED
    BY <1>8, <1>9, <2>1, <2>4 DEF Fits, Busy, Executing
<1>. QED
  BY <1>1, <1>2, <1>5, <1>7, <1>9, <1>10, WorksOn

LEMMA RunJobKeeps ==
    ASSUME SupInv, NEW p \in Procs, RunJob(p) PROVE SupInv'
<1>1. PICK x : x = me[p]
  OBVIOUS
<1>2. /\ x.pc = "leased"
      /\ me \in [Procs -> Process]
      /\ x \in Process
      /\ x.out = "none"
  <2>1. x.pc = "leased" /\ x.pc \in Busy
    BY <1>1 DEF RunJob, At, Busy, Executing
  <2>. QED
    BY <1>1, <2>1, AtAttempt DEF Sound, SupInv, ProcsInv
<1>3. UNCHANGED <<specified, sequenceVars, recordVars, faults>>
  BY DEF RunJob
<1>4. Transition(x.task, x.lease, "leased", "running")
  BY <1>1 DEF RunJob
<1>5. CASE x.task \in NoDriver
  <2>1. me' = [me EXCEPT ![p].pc = "failing", ![p].out = "policy"]
    BY <1>1, <1>5 DEF RunJob
  <2>. QED
    BY <1>1, <1>2, <1>3, <1>4, <2>1, TransitionWorks DEF TaskState, Verdict
<1>6. CASE x.task \notin NoDriver
  <2>1. PICK o : o = x.out
    OBVIOUS
  <2>2. me' = [me EXCEPT ![p].pc = "started", ![p].out = o]
    <3>1. [x EXCEPT !.pc = "started"] = [x EXCEPT !.pc = "started", !.out = o]
      BY <1>2, <2>1 DEF Process
    <3>. QED
      BY <1>1, <1>2, <1>6, <3>1 DEF RunJob
  <2>3. o = "none"
    BY <1>2, <2>1
  <2>. QED
    BY <1>1, <1>2, <1>3, <1>4, <2>2, <2>3, TransitionWorks DEF TaskState
<1>. QED
  BY <1>5, <1>6

LEMMA VerifyKeeps ==
    ASSUME SupInv, NEW p \in Procs, Verify(p) PROVE SupInv'
<1>1. PICK x : x = me[p]
  OBVIOUS
<1>2. /\ x.pc = "output"
      /\ me \in [Procs -> Process]
      /\ x \in Process
      /\ x.out \in {"passed", "verification"}
  <2>1. x.pc = "output" /\ x.pc \in Busy
    BY <1>1 DEF Verify, At, Busy, Executing
  <2>. QED
    BY <1>1, <2>1, AtAttempt DEF Sound, SupInv, ProcsInv
<1>3. UNCHANGED <<specified, sequenceVars, recordVars, faults>>
  BY DEF Verify, Advance
<1>4. Transition(x.task, x.lease, "running", "verifying")
  BY <1>1 DEF Verify, Advance
<1>5. PICK label : label = IF x.out = "passed" THEN "verifying" ELSE "failing"
  OBVIOUS
<1>6. PICK o : o = x.out
  OBVIOUS
<1>7. me' = [me EXCEPT ![p].pc = label, ![p].out = o]
  <2>1. [x EXCEPT !.pc = label] = [x EXCEPT !.pc = label, !.out = o]
    BY <1>2, <1>6 DEF Process
  <2>2. me' = [me EXCEPT ![p].pc = label]
    BY <1>1, <1>5 DEF Verify, Advance, Verified, Goto
  <2>. QED
    BY <1>1, <1>2, <2>1, <2>2
<1>8. o \in {"none"} \cup Verdict \cup Outcome
  BY <1>2, <1>6 DEF Process
<1>. QED
  BY <1>1, <1>2, <1>3, <1>4, <1>5, <1>6, <1>7, <1>8, TransitionWorks
  DEF TaskState

(* A failed attempt: what is to be reported is the state its record has.   *)
LEMMA FailJobKeeps ==
    ASSUME SupInv, NEW p \in Procs, FailJob(p) PROVE SupInv'
<1>1. PICK x : x = me[p]
  OBVIOUS
<1>2. x.pc = "failing" /\ x.pc \in Busy
  BY <1>1 DEF FailJob, At, Busy, Executing
<1>3. /\ x \in Process
      /\ Fits(x)
      /\ Sound(x)
      /\ x.task \in Tasks
      /\ x.n \in 1..MaxAttempts[x.task]
  BY <1>1, <1>2, AtAttempt
<1>4. x.out \in {"verification", "invalid_output", "worker", "policy"}
  BY <1>2, <1>3 DEF Sound
<1>5. Fail(x.task, x.lease, x.out)
  BY <1>1 DEF FailJob
<1>6. x.lease \in 1..fence /\ x.n = attemptCount[x.task]
  BY <1>1, <1>2, <1>5, LiveIsLatest DEF Fail, JobLost
<1>7. PlainStep
  BY <1>3, <1>4, <1>5, <1>6 DEF PlainStep, FailureReason
<1>8. PICK o : o = AfterFailure(x.task, x.out)
  OBVIOUS
<1>9. o \in {"failed", "retry_wait"}
  BY <1>4, <1>8 DEF AfterFailure, retryable
<1>10. /\ attempts'[x.task][x.n].finished
       /\ attempts'[x.task][x.n].state = o
  <2>1. attempts' = [attempts EXCEPT ![x.task][x.n] =
                       Ended(attempts[x.task][x.n], x.lease, o)]
    BY <1>5, <1>6, <1>8 DEF Fail
  <2>2. attempts[x.task][x.n] \in Attempt
    BY <1>3 DEF SupInv, WorkInv, TypeOK, AttemptRows, RowsBegun
  <2>3. PICK row : row = Ended(attempts[x.task][x.n], x.lease, o)
    OBVIOUS
  <2>4. row.finished /\ row.state = o
    BY <2>2, <2>3 DEF Ended, Attempt
  <2>5. attempts'[x.task][x.n] = row
    BY <1>3, <2>1, <2>3 DEF SupInv, WorkInv, TypeOK, AttemptRows, RowsBegun
  <2>. QED
    BY <2>4, <2>5
<1>11. PICK r : r = [x EXCEPT !.pc = "report", !.out = o]
  OBVIOUS
<1>12. /\ me' = [me EXCEPT ![p] = r]
       /\ UNCHANGED <<specified, sequenceVars, recordVars, faults>>
  BY <1>1, <1>8, <1>11 DEF FailJob, SupInv, ProcsInv
<1>13. r \in Process
  BY <1>3, <1>9, <1>11 DEF Process, Running, Outcome
<1>14. /\ r.token = x.token
       /\ r.todo = x.todo
       /\ r.pc = "report"
       /\ r.task = x.task
       /\ r.n = x.n
       /\ r.lease = x.lease
       /\ r.out = o
  BY <1>3, <1>11 DEF Process
<1>15. ASSUME Onward PROVE Fits(r)'
  <2>1. Fits(x)'
    BY <1>3, <1>12, <1>15, FitsStay DEF recordVars
  <2>2. Sound(x)'
    BY <1>2, <2>1 DEF Fits
  <2>3. Sound(r)'
    BY <1>2, <1>9, <1>10, <1>14, <2>2 DEF Sound, Outcome
  <2>. QED
    BY <1>13, <1>14, <2>1, <2>3 DEF Fits, Busy, Executing
<1>. QED
  BY <1>1, <1>2, <1>7, <1>12, <1>14, <1>15, WorksOn

(* An attempt that succeeds has the three pieces of evidence.              *)
LEMMA SucceedKeeps ==
    ASSUME SupInv, NEW p \in Procs, Succeed(p) PROVE SupInv'
<1>1. PICK x : x = me[p]
  OBVIOUS
<1>2. x.pc = "evidenced" /\ x.pc \in Busy
  BY <1>1 DEF Succeed, At, Busy, Executing
<1>3. /\ x \in Process
      /\ Fits(x)
      /\ Sound(x)
      /\ x.task \in Tasks
      /\ x.n \in 1..MaxAttempts[x.task]
  BY <1>1, <1>2, AtAttempt
<1>4. Transition(x.task, x.lease, "verifying", "succeeded")
  BY <1>1 DEF Succeed
<1>5. x.lease \in 1..fence /\ x.n = attemptCount[x.task]
  BY <1>1, <1>2, <1>4, LiveIsLatest DEF Transition, JobLost
<1>6. SuccessStep
  BY <1>3, <1>4, <1>5 DEF SuccessStep
<1>7. WorkInv'
  BY <1>6, StepsAreNext, NextInv DEF SupInv
<1>8. Grown /\ TokensAscend'
  BY <1>6, AttemptsGrow DEF SupInv
<1>9. /\ attempts'[x.task][x.n].finished
      /\ attempts'[x.task][x.n].state = "succeeded"
      /\ attempts'[x.task][x.n].token = x.lease
  <2>1. attempts' = [attempts EXCEPT ![x.task][x.n] =
                       Written(attempts[x.task][x.n], x.lease, "succeeded")]
    BY <1>4, <1>5 DEF Transition
  <2>2. attempts[x.task][x.n] \in Attempt
    BY <1>3 DEF SupInv, WorkInv, TypeOK, AttemptRows, RowsBegun
  <2>3. PICK row : row = Written(attempts[x.task][x.n], x.lease, "succeeded")
    OBVIOUS
  <2>4. row.finished /\ row.state = "succeeded" /\ row.token = x.lease
    BY <1>3, <2>2, <2>3 DEF Written, Attempt, Sound
  <2>5. attempts'[x.task][x.n] = row
    BY <1>3, <2>1, <2>3 DEF SupInv, WorkInv, TypeOK, AttemptRows, RowsBegun
  <2>. QED
    BY <2>4, <2>5
<1>10. PICK r : r = [x EXCEPT !.pc = "report", !.out = "succeeded"]
  OBVIOUS
<1>11. /\ me' = [me EXCEPT ![p] = r]
       /\ UNCHANGED <<specified, sequenceVars, recordVars, faults>>
  BY <1>1, <1>10 DEF Succeed, SupInv, ProcsInv
<1>12. r \in Process
  BY <1>3, <1>10 DEF Process, Running, Outcome
<1>13. /\ r.token = x.token
       /\ r.todo = x.todo
       /\ r.pc = "report"
       /\ r.task = x.task
       /\ r.n = x.n
       /\ r.lease = x.lease
       /\ r.out = "succeeded"
  BY <1>3, <1>10 DEF Process
<1>14. Onward
  BY <1>8, <1>11 DEF Onward, SupInv, TablesInv, sequenceVars, recordVars
<1>15. Fits(r)'
  <2>1. Fits(x)'
    BY <1>3, <1>11, <1>14, FitsStay DEF recordVars
  <2>2. Sound(x)'
    BY <1>2, <2>1 DEF Fits
  <2>3. Sound(r)'
    BY <1>2, <1>9, <1>13, <2>2 DEF Sound, Outcome
  <2>. QED
    BY <1>12, <1>13, <2>1, <2>3 DEF Fits, Busy, Executing
<1>16. ProcsInv'
  BY <1>1, <1>2, <1>11, <1>13, <1>14, <1>15, ProcessMoves DEF recordVars
<1>17. SucceededIsEvidenced'
  <2>. SUFFICES ASSUME NEW t \in Tasks, state'[t] = "succeeded"
                PROVE  \A ord \in 1..3 : \E e \in evidence' :
                        /\ e.task = t /\ e.n = attemptCount'[t] /\ e.ord = ord
                        /\ e.by = attempts'[t][attemptCount'[t]].token
                        /\ ord > 1 => e.out = "passed"
    BY DEF SucceededIsEvidenced, current
  <2>1. UNCHANGED <<attemptCount, evidence>>
    BY <1>4, <1>11 DEF Transition, recordVars
  <2>2. CASE t = x.task
    <3>1. Has(x, 1) /\ Has(x, 2) /\ Has(x, 3) /\ x.out = "passed"
      BY <1>2, <1>3 DEF Sound
    <3>. QED
      BY <1>5, <1>9, <2>1, <2>2, <3>1 DEF Has
  <2>3. CASE t # x.task
    <3>1. state[t] = "succeeded"
      BY <1>4, <2>3 DEF Transition, SupInv, WorkInv, TypeOK, TaskRows
    <3>. QED
      BY <1>8, <2>1, <3>1, SuccessStays
  <2>. QED
    BY <2>2, <2>3
<1>18. EvidenceInv' /\ ReportsInv'
  BY <1>8, <1>11, EvidenceStays, ReportsStay
  DEF recordVars, SupInv, EvidenceInv
<1>19. TablesInv'
  BY <1>11, TablesStay DEF sequenceVars, recordVars
<1>. QED
  BY <1>7, <1>8, <1>16, <1>17, <1>18, <1>19 DEF SupInv

(* A row of evidence is inserted for the attempt the process was leased,   *)
(* whoever holds the task by then.                                         *)
LEMMA EvidenceInserted ==
    ASSUME SupInv, NEW p \in Procs,
           NEW from \in {"started", "returned", "verifying"},
           NEW ord \in 1..3, NEW label \in {"driving", "output", "evidenced"},
           \/ from = "started" /\ ord = 1 /\ label = "driving"
           \/ from = "returned" /\ ord = 2 /\ label = "output"
           \/ from = "verifying" /\ ord = 3 /\ label = "evidenced",
           InsertEvidence(p, from, ord, label)
    PROVE  SupInv'
<1>1. PICK x : x = me[p]
  OBVIOUS
<1>2. x.pc = from /\ x.pc \in Busy
  BY <1>1 DEF InsertEvidence, At, Busy, Executing
<1>3. /\ x \in Process
      /\ Fits(x)
      /\ Sound(x)
      /\ x.task \in Tasks
      /\ x.n \in 1..attemptCount[x.task]
  BY <1>1, <1>2, AtAttempt
<1>4. PICK e : e = EvidenceRow(p, ord)
  OBVIOUS
<1>5. /\ e.task = x.task
      /\ e.n = x.n
      /\ e.ord = ord
      /\ e.out = x.out
      /\ e.by = x.lease
  BY <1>1, <1>4 DEF EvidenceRow
<1>6. PICK r : r = [x EXCEPT !.pc = label]
  OBVIOUS
<1>7. /\ PlainStep
      /\ me' = [me EXCEPT ![p] = r]
      /\ evidence' = evidence \cup {e}
      /\ UNCHANGED <<vars, specified, sequenceVars, reported, checkpoint, faults>>
  BY <1>1, <1>4, <1>6 DEF InsertEvidence, Goto, PlainStep, SupInv, ProcsInv
<1>8. r \in Process
  BY <1>3, <1>6 DEF Process, Running, Executing
<1>9. /\ r.token = x.token
      /\ r.todo = x.todo
      /\ r.pc = label
      /\ r.task = x.task
      /\ r.n = x.n
      /\ r.lease = x.lease
      /\ r.out = x.out
  BY <1>3, <1>6 DEF Process
<1>10. WorkInv' /\ Grown /\ TokensAscend'
  BY <1>7, StepsAreNext, NextInv, AttemptsGrow DEF SupInv
<1>11. Onward
  BY <1>7, <1>10 DEF Onward, SupInv, TablesInv, sequenceVars
<1>12. Fits(r)'
  <2>1. Fits(x)'
    BY <1>3, <1>7, <1>11, FitsStay
  <2>2. Sound(x)'
    BY <1>2, <2>1 DEF Fits
  <2>3. \A i : Has(x, i)' => Has(r, i)'
    BY <1>9 DEF Has
  <2>4. Has(r, ord)'
    BY <1>5, <1>7, <1>9 DEF Has
  <2>5. Sound(r)'
    BY <1>2, <1>9, <2>2, <2>3, <2>4 DEF Sound
  <2>. QED
    BY <1>8, <1>9, <2>1, <2>5 DEF Fits, Busy, Executing
<1>13. ProcsInv'
  BY <1>1, <1>2, <1>7, <1>9, <1>11, <1>12, ProcessMoves
<1>14. e \in EvidenceRows
  <2>1. x.out \in {"none"} \cup Verdict
    BY <1>2, <1>3 DEF Sound, Verdict
  <2>2. /\ x.task \in Tasks
        /\ x.n \in Nat
        /\ x.lease \in Nat
    BY <1>3 DEF Process
  <2>. QED
    BY <1>1, <1>4, <2>1, <2>2 DEF EvidenceRow, EvidenceRows
<1>15. EvidenceInv'
  <2>1. evidence' \in SUBSET EvidenceRows
    BY <1>7, <1>14 DEF SupInv, EvidenceInv
  <2>2. e.by = attempts[e.task][e.n].token /\ e.n \in 1..attemptCount[e.task]
    BY <1>3, <1>5 DEF Sound
  <2>. QED
    BY <1>7, <1>10, <2>1, <2>2, EvidenceStays
<1>16. ReportsInv' /\ SucceededIsEvidenced'
  BY <1>7, <1>10, ReportsStay, NoSuccess
<1>17. TablesInv'
  BY <1>7, TablesStay DEF sequenceVars
<1>. QED
  BY <1>10, <1>13, <1>15, <1>16, <1>17 DEF SupInv

(* The report of an attempt is the first, and what its record says.        *)
LEMMA ReportKeeps ==
    ASSUME SupInv, NEW p \in Procs, Report(p) PROVE SupInv'
<1>1. PICK x : x = me[p]
  OBVIOUS
<1>2. x.pc = "report" /\ x.pc \in Busy
  BY <1>1 DEF Report, At, Busy
<1>3. /\ x \in Process
      /\ Fits(x)
      /\ Sound(x)
      /\ x.task \in Tasks
      /\ x.n \in 1..attemptCount[x.task]
      /\ x.n \in 1..MaxAttempts[x.task]
      /\ attemptCount[x.task] \in Nat
  BY <1>1, <1>2, AtAttempt, BegunIsAdmitted DEF SupInv
<1>4. PICK r : r = [x EXCEPT !.pc = "checkpoint", !.out = "none"]
  OBVIOUS
<1>5. /\ PlainStep
      /\ me' = [me EXCEPT ![p] = r]
      /\ reported' = [reported EXCEPT ![x.task][x.n] = Append(@, x.out)]
      /\ UNCHANGED <<vars, specified, sequenceVars, evidence, checkpoint, faults>>
  BY <1>1, <1>4 DEF Report, ReportedState, PlainStep, SupInv, ProcsInv
<1>6. r \in Process
  BY <1>3, <1>4 DEF Process, Running
<1>7. /\ r.token = x.token
      /\ r.todo = x.todo
      /\ r.pc = "checkpoint"
      /\ r.task = x.task
      /\ r.n = x.n
      /\ r.lease = x.lease
      /\ r.out = "none"
  BY <1>3, <1>4 DEF Process
<1>8. WorkInv' /\ Grown /\ TokensAscend'
  BY <1>5, StepsAreNext, NextInv, AttemptsGrow DEF SupInv
<1>9. Onward
  BY <1>5, <1>8 DEF Onward, SupInv, TablesInv, sequenceVars
<1>10. /\ attempts[x.task][x.n].finished
       /\ attempts[x.task][x.n].state = x.out
       /\ reported[x.task][x.n] = <<>>
  BY <1>2, <1>3 DEF Sound
<1>11. x.out \in Outcome
  BY <1>2, <1>3 DEF Sound
<1>12. \A t \in Tasks : \A n \in 1..MaxAttempts[t] :
         reported'[t][n] = IF t = x.task /\ n = x.n THEN <<x.out>>
                                                    ELSE reported[t][n]
  BY <1>3, <1>5, <1>10 DEF SupInv, ReportsInv
<1>13. Fits(r)'
  <2>1. x.token <= sequenceFence' /\ x.todo \subseteq specified'
    BY <1>3, <1>5 DEF Fits, sequenceVars
  <2>2. Sound(r)'
    BY <1>3, <1>5, <1>7 DEF Sound, vars
  <2>. QED
    BY <1>6, <1>7, <2>1, <2>2 DEF Fits
<1>14. ProcsInv'
  <2>1. \A t \in Tasks : \A n \in 1..MaxAttempts[t] :
           t # me[p].task \/ n # me[p].n => reported'[t][n] = reported[t][n]
    BY <1>1, <1>12
  <2>2. me[p].pc \in Busy /\ r.task = me[p].task /\ r.n = me[p].n
    BY <1>1, <1>2, <1>7
  <2>. QED
    BY <1>5, <1>9, <1>13, <2>1, <2>2, ProcessMoves
<1>15. ReportsInv'
  <2>1. UNCHANGED <<attempts, attemptCount>>
    BY <1>5 DEF vars
  <2>2. DOMAIN reported' = Tasks
    BY <1>5 DEF SupInv, ReportsInv
  <2>3. <<x.out>> \in Seq(Outcome)
    BY <1>11
  <2>4. \A t \in Tasks : reported'[t] \in [1..MaxAttempts[t] -> Seq(Outcome)]
    <3>. DEFINE S == Seq(Outcome)
    <3>1. \A t \in Tasks : reported[t] \in [1..MaxAttempts[t] -> S]
      BY DEF SupInv, ReportsInv
    <3>2. reported' = [reported EXCEPT ![x.task][x.n] = <<x.out>>]
      BY <1>5, <1>3, <1>10 DEF SupInv, ReportsInv
    <3>3. <<x.out>> \in S
      BY <2>3
    <3>. HIDE DEF S
    <3>4. \A t \in Tasks : reported'[t] \in [1..MaxAttempts[t] -> S]
      BY <1>3, <3>1, <3>2, <3>3 DEF SupInv, ReportsInv
    <3>. QED
      BY <3>4 DEF S
  <2>5. ASSUME NEW t \in Tasks, NEW n \in 1..MaxAttempts[t]
        PROVE  /\ n > attemptCount[t] => reported'[t][n] = <<>>
               /\ \/ reported'[t][n] = <<>>
                  \/ /\ attempts[t][n].finished
                     /\ reported'[t][n] = <<attempts[t][n].state>>
    <3>1. CASE t = x.task /\ n = x.n
      BY <1>3, <1>10, <1>12, <3>1
    <3>2. CASE ~(t = x.task /\ n = x.n)
      BY <1>12, <3>2 DEF SupInv, ReportsInv
    <3>. QED
      BY <3>1, <3>2
  <2>. QED
    BY <2>1, <2>2, <2>4, <2>5 DEF ReportsInv
<1>16. EvidenceInv' /\ SucceededIsEvidenced'
  BY <1>5, <1>8, EvidenceStays, NoSuccess DEF SupInv, EvidenceInv
<1>17. TablesInv'
  BY <1>5, TablesStay DEF sequenceVars
<1>. QED
  BY <1>8, <1>14, <1>15, <1>16, <1>17 DEF SupInv

(* Of any tasks there is a first.                                          *)
LEMMA FirstIsOne ==
    ASSUME NEW S, S \subseteq Tasks, S # {} PROVE FirstOf(S) \in S
<1>1. Rank \in [Tasks -> Nat]
  BY SupervisorAssumption DEF SupervisorAssumption
<1>. DEFINE R == {ss \in Nat \X Nat : ss[1] < ss[2]}
            T == {n \in Nat : \E t \in S : Rank[t] = n}
<1>2. IsWellFoundedOn(R, Nat)
  BY NatLessThanWellFounded DEF OpToRel
<1>3. T \subseteq Nat /\ T # {}
  BY <1>1
<1>4. PICK n \in T : \A m \in T : ~(<<m, n>> \in R)
  <2>. HIDE DEF R, T
  <2>. QED
    BY <1>2, <1>3, WFMin
<1>5. PICK t \in S : Rank[t] = n
  BY <1>4
<1>6. \A u \in S : Rank[t] <= Rank[u]
  <2>. SUFFICES ASSUME NEW u \in S PROVE Rank[t] <= Rank[u]
    OBVIOUS
  <2>1. Rank[u] \in T /\ Rank[u] \in Nat /\ n \in Nat
    BY <1>1, <1>4
  <2>2. ~(<<Rank[u], n>> \in R)
    BY <1>4, <2>1
  <2>3. ~(Rank[u] < n)
    BY <2>1, <2>2 DEF R
  <2>. QED
    BY <1>5, <2>1, <2>3
<1>. QED
  BY <1>5, <1>6 DEF FirstOf

(* A task is leased: its next attempt is this process's and nobody else's. *)
LEMMA PickLeases ==
    ASSUME SupInv, NEW p \in Procs, At(p, "pick"), NEW t \in specified,
           Lease(t),
           me' = [me EXCEPT ![p].pc = "leased", ![p].todo = {}, ![p].task = t,
                            ![p].lease = fence', ![p].n = attemptCount'[t]],
           UNCHANGED <<specified, sequenceVars, recordVars, faults>>
    PROVE  SupInv'
<1>1. PICK x : x = me[p]
  OBVIOUS
<1>2. /\ x \in Process
      /\ Fits(x)
      /\ x.out = "none"
      /\ t \in Tasks
      /\ me \in [Procs -> Process]
  BY <1>1 DEF SupInv, ProcsInv, TablesInv, Fits, At, Busy, Executing
<1>3. Leased(t)
  BY <1>2, LeaseAdds DEF SupInv
<1>4. PICK n : n = attemptCount[t] + 1
  OBVIOUS
<1>5. PICK k : k = fence + 1
  OBVIOUS
<1>6. /\ n \in 1..MaxAttempts[t]
      /\ attemptCount'[t] = n
      /\ fence' = k
      /\ attempts'[t][n].token = k
  BY <1>2, <1>3, <1>4, <1>5 DEF Leased
<1>7. n \in Nat /\ k \in Nat /\ attemptCount[t] \in Nat /\ n > attemptCount[t]
  BY <1>2, <1>4, <1>5 DEF SupInv, WorkInv, TypeOK, TaskRows, LeaseRows
<1>8. LeaseStep /\ Grown
  BY <1>2, AttemptsGrow DEF LeaseStep, SupInv
<1>9. /\ WorkInv'
      /\ TokensAscend'
      /\ EvidenceInv'
      /\ ReportsInv'
      /\ SucceededIsEvidenced'
  BY <1>8, RecordsStay DEF recordVars
<1>10. Onward
  BY <1>8 DEF Onward, SupInv, TablesInv, sequenceVars, recordVars
<1>11. PICK r : r = [x EXCEPT !.pc = "leased", !.todo = {}, !.task = t,
                              !.lease = k, !.n = n]
  OBVIOUS
<1>12. me' = [me EXCEPT ![p] = r]
  BY <1>1, <1>2, <1>6, <1>11
<1>13. r \in Process
  BY <1>2, <1>7, <1>11 DEF Process, Running, Executing
<1>14. /\ r.token = x.token
       /\ r.todo = {}
       /\ r.pc = "leased"
       /\ r.task = t
       /\ r.n = n
       /\ r.lease = k
       /\ r.out = "none"
  BY <1>2, <1>11 DEF Process
<1>15. reported'[t][n] = <<>>
  BY <1>2, <1>6, <1>7 DEF recordVars, SupInv, ReportsInv
<1>16. Fits(r)'
  <2>1. n \in 1..n
    BY <1>6, <1>7
  <2>2. Sound(r)'
    BY <1>6, <1>14, <1>15, <2>1 DEF Sound
  <2>3. r.token <= sequenceFence'
    BY <1>2, <1>14 DEF Fits, sequenceVars
  <2>. QED
    BY <1>13, <1>14, <2>2, <2>3 DEF Fits, Busy, Executing
<1>17. ProcsInv'
  <2>1. r.n > attemptCount[r.task]
    BY <1>7, <1>14
  <2>. QED
    BY <1>10, <1>12, <1>16, <2>1, ProcessMoves DEF recordVars
<1>18. TablesInv'
  BY TablesStay DEF sequenceVars, recordVars
<1>. QED
  BY <1>9, <1>17, <1>18 DEF SupInv

LEMMA PickKeeps ==
    ASSUME SupInv, NEW p \in Procs, Pick(p) PROVE SupInv'
<1>1. PICK x : x = me[p]
  OBVIOUS
<1>2. /\ x.pc = "pick"
      /\ x.pc \notin Busy
      /\ x \in Process
      /\ x.todo \subseteq specified
      /\ specified \subseteq Tasks
      /\ me \in [Procs -> Process]
  BY <1>1 DEF Pick, At, Busy, Executing, SupInv, ProcsInv, Fits, TablesInv
<1>3. UNCHANGED <<specified, sequenceVars, recordVars, faults>>
  BY DEF Pick
<1>4. CASE x.todo = {}
  <2>1. PlainStep /\ Goto(p, "loop")
    BY <1>1, <1>4 DEF Pick, PlainStep
  <2>2. PICK T : T = x.todo
    OBVIOUS
  <2>3. me' = [me EXCEPT ![p] = [@ EXCEPT !.pc = "loop", !.todo = T]]
    <3>1. [x EXCEPT !.pc = "loop"] = [x EXCEPT !.pc = "loop", !.todo = T]
      BY <1>2, <2>2 DEF Process
    <3>. QED
      BY <1>1, <1>2, <2>1, <3>1 DEF Goto
  <2>. QED
    BY <1>1, <1>2, <1>3, <2>1, <2>2, <2>3, LoopStep
<1>5. CASE x.todo # {}
  <2>1. PICK t : t = FirstOf(x.todo)
    OBVIOUS
  <2>2. t \in x.todo
    BY <1>2, <1>5, <2>1, FirstIsOne
  <2>3. CASE Lease(t)
    <3>1. me' = [me EXCEPT ![p].pc = "leased", ![p].todo = {}, ![p].task = t,
                           ![p].lease = fence', ![p].n = attemptCount'[t]]
      BY <1>1, <1>5, <2>1, <2>3 DEF Pick, Lease
    <3>. QED
      BY <1>1, <1>2, <1>3, <2>2, <2>3, <3>1, PickLeases DEF At
  <2>4. CASE ~Lease(t)
    <3>1. UNCHANGED vars /\ me' = [me EXCEPT ![p].todo = @ \ {t}]
      BY <1>1, <1>5, <2>1, <2>4 DEF Pick
    <3>2. PICK T : T = x.todo \ {t}
      OBVIOUS
    <3>3. [x EXCEPT !.pc = "pick", !.todo = T] = [x EXCEPT !.todo = T]
      BY <1>2 DEF Process
    <3>4. me' = [me EXCEPT ![p] = [@ EXCEPT !.pc = "pick", !.todo = T]]
      BY <1>1, <1>2, <3>1, <3>2, <3>3
    <3>5. PlainStep /\ T \subseteq specified
      BY <1>2, <3>1, <3>2 DEF PlainStep
    <3>. QED
      BY <1>1, <1>2, <1>3, <3>4, <3>5, LoopStep
  <2>. QED
    BY <2>3, <2>4
<1>. QED
  BY <1>4, <1>5

-----------------------------------------------------------------------------
LEMMA ProgramKeeps ==
    ASSUME SupInv, NEW p \in Procs, ProgramStep(p) PROVE SupInv'
<1>1. CASE DriverStarted(p) \/ DriverOutput(p) \/ Verification(p)
  BY <1>1, EvidenceInserted DEF DriverStarted, DriverOutput, Verification
<1>2. CASE LoseJob(p) \/ CutOff(p)
  BY <1>2, ExitKeeps DEF LoseJob, CutOff
<1>. QED
  BY <1>1, <1>2, StartKeeps, ClaimKeeps, LoopKeeps, PickKeeps, RunJobKeeps,
     DriverReturnsKeeps, VerifyKeeps, SucceedKeeps, FailJobKeeps, ReportKeeps,
     CheckpointKeeps
  DEF ProgramStep

LEMMA SupInvInit == SupInit => SupInv
<1>. SUFFICES ASSUME SupInit PROVE SupInv
  OBVIOUS
<1>. USE DEF SupInit
<1>1. WorkInv
  BY InitInv
<1>2. TokensAscend
  BY DEF Init, TokensAscend, NoAttempt
<1>3. TablesInv
  BY SupervisorAssumption DEF TablesInv, NoLease, SupervisorAssumption
<1>4. Fits(Down)
  BY DEF Fits, Down, Process, Running, Executing, Busy
<1>5. ProcsInv
  BY <1>4 DEF ProcsInv, Fits, OneProcess, Down, Busy, Executing
<1>6. EvidenceInv /\ SucceededIsEvidenced
  BY DEF EvidenceInv, SucceededIsEvidenced, Init
<1>7. ReportsInv
  <2>. DEFINE S == Seq(Outcome)
  <2>1. <<>> \in S
    OBVIOUS
  <2>. HIDE DEF S
  <2>2. \A t \in Tasks : reported[t] \in [1..MaxAttempts[t] -> S]
    BY <2>1
  <2>. QED
    BY <2>2 DEF ReportsInv, S
<1>. QED
  BY <1>1, <1>2, <1>3, <1>5, <1>6, <1>7 DEF SupInv

LEMMA SupInvStep == SupInv /\ [SupNext]_supVars => SupInv'
<1>. SUFFICES ASSUME SupInv, [SupNext]_supVars PROVE SupInv'
  OBVIOUS
<1>1. CASE UNCHANGED supVars
  <2>1. PlainStep /\ UNCHANGED <<specified, sequenceVars, me, recordVars, faults>>
    BY <1>1 DEF supVars, PlainStep
  <2>. QED
    BY <2>1, TablesStay, NobodyMoves DEF sequenceVars, recordVars
<1>2. CASE SupNext
  BY <1>2, ProgramKeeps, SignalKeeps, JobHeartbeatKeeps, CrashKeeps,
     OwnerKeeps, SpecifyKeeps, FactoryKeeps, ClockKeeps
  DEF SupNext, TimerStep
<1>. QED
  BY <1>1, <1>2

LEMMA SupInvariant == SupSpec => []SupInv
<1>. QED
  BY SupInvInit, SupInvStep, PTL DEF SupSpec

-----------------------------------------------------------------------------
(* The steps of the supervisors are steps of the engine.                   *)
LEMMA ProgramIsEngine ==
    ASSUME SupInv, NEW p \in Procs, ProgramStep(p) \/ TimerStep(p)
    PROVE  UNCHANGED vars \/ Next
<1>1. \A q \in Procs : me[q].todo \subseteq Tasks
  BY DEF SupInv, ProcsInv, Fits, TablesInv
<1>2. ASSUME NEW label \in {"leased", "output", "evidenced"}, At(p, label),
             NEW from \in TaskState, NEW to \in TaskState,
             Transition(me[p].task, me[p].lease, from, to)
      PROVE  Next
  <2>1. me[p].pc \in Busy
    BY <1>2 DEF At, Busy, Executing
  <2>2. me[p].task \in Tasks /\ me[p].lease \in 1..fence
    BY <1>2, <2>1, AtAttempt, LiveIsLatest DEF Transition, JobLost
  <2>. QED
    BY <1>2, <2>2 DEF Next, WorkerStep
<1>3. CASE RunJob(p) \/ Verify(p) \/ Succeed(p)
  BY <1>2, <1>3 DEF RunJob, Verify, Advance, Succeed, TaskState
<1>4. CASE FailJob(p)
  <2>1. me[p].pc = "failing" /\ me[p].pc \in Busy
    BY <1>4 DEF FailJob, At, Busy, Executing
  <2>2. /\ me[p].task \in Tasks
        /\ me[p].lease \in 1..fence
        /\ me[p].out \in FailureReason
    BY <1>4, <2>1, AtAttempt, LiveIsLatest
    DEF FailJob, Fail, JobLost, Sound, FailureReason
  <2>. QED
    BY <1>4, <2>2 DEF FailJob, Next, WorkerStep
<1>5. CASE JobHeartbeat(p)
  <2>1. me[p].pc \in Busy
    BY <1>5 DEF JobHeartbeat, Busy
  <2>2. me[p].task \in Tasks /\ (~JobLost(p) => me[p].lease \in 1..fence)
    BY <2>1, AtAttempt, LiveIsLatest
  <2>. QED
    BY <1>5, <2>2 DEF JobHeartbeat, Next, WorkerStep
<1>6. CASE Promote(p)
  BY <1>1, <1>6 DEF Promote, PromoteRetry, Next, OwnerStep, TaskState
<1>7. CASE Pick(p)
  <2>1. CASE me[p].todo = {}
    BY <1>7, <2>1 DEF Pick
  <2>2. CASE me[p].todo # {}
    <3>1. FirstOf(me[p].todo) \in Tasks
      BY <1>1, <2>2, FirstIsOne
    <3>. QED
      BY <1>7, <2>2, <3>1 DEF Pick, Next, WorkerStep
  <2>. QED
    BY <2>1, <2>2
<1>8. CASE Reclaim(p)
  BY <1>8 DEF Reclaim, Exit, Reclaimed, Next, TimeStep
<1>9. CASE \/ Start(p) \/ Claim(p) \/ Sweep(p) \/ Select(p) \/ DriverStarted(p)
           \/ \E verdict \in Verdict : DriverReturns(p, verdict)
           \/ DriverOutput(p) \/ Verification(p) \/ LoseJob(p) \/ Report(p)
           \/ Checkpoint(p) \/ CutOff(p) \/ SequenceHeartbeat(p)
  BY <1>9 DEF Start, Claim, Sweep, Select, DriverStarted, DriverReturns,
              DriverOutput, Verification, InsertEvidence, LoseJob, Exit,
              Report, Checkpoint, CutOff, SequenceHeartbeat
<1>. QED
  BY <1>3, <1>4, <1>5, <1>6, <1>7, <1>8, <1>9 DEF ProgramStep, TimerStep

LEMMA StepIsEngine ==
    SupInv /\ [SupNext]_supVars => UNCHANGED vars \/ Next
<1>. SUFFICES ASSUME SupInv, [SupNext]_supVars PROVE UNCHANGED vars \/ Next
  OBVIOUS
<1>1. CASE UNCHANGED supVars
  BY <1>1 DEF supVars
<1>2. ASSUME NEW p \in Procs, Crash(p) \/ Terminate(p) PROVE UNCHANGED vars
  BY <1>2 DEF Crash, Terminate
<1>3. ASSUME NEW t \in Tasks, Produce(t) \/ Specify(t) \/ CancelReply(t)
      PROVE  UNCHANGED vars \/ Next
  BY <1>3 DEF Produce, Specify, CancelReply, Next, OwnerStep, TaskState
<1>4. CASE StopFactory \/ ResumeFactory \/ Charge
  BY <1>4 DEF StopFactory, ResumeFactory, Charge, Next, OwnerStep
<1>5. CASE ClockStep
  BY <1>5 DEF ClockStep, SequenceRunsDown, LeaseRunsDown, BackoffEnds, Next,
              TimeStep
<1>. QED
  BY <1>1, <1>2, <1>3, <1>4, <1>5, ProgramIsEngine DEF SupNext

(* Whatever any number of supervisor processes, the owner and the clock    *)
(* do, the engine's tables only take steps of the engine.                  *)
THEOREM SupervisorsStepTheEngine == SupSpec => EngineSteps
<1>1. SupInv /\ [SupNext]_supVars => [UNCHANGED vars \/ Next]_vars
  BY StepIsEngine
<1>. QED
  BY <1>1, SupInvariant, PTL DEF SupSpec, EngineSteps

(* So the engine under its supervisors is the engine: all that is proved   *)
(* of WorkRepository holds while they run it.                              *)
THEOREM SupervisedEngine == SupSpec => Spec
<1>1. SupInv /\ [SupNext]_supVars => [Next]_vars
  BY StepIsEngine
<1>2. SupInit => Init
  BY DEF SupInit
<1>. QED
  BY <1>1, <1>2, SupInvariant, PTL DEF SupSpec, Spec

(* No process executes an attempt that has not begun, sets out to do what  *)
(* is not specified, or holds a sequence token that was not given out.     *)
THEOREM SupervisorsTyped == SupSpec => []SupTypeOK
<1>1. SupInv => SupTypeOK
  <2>. SUFFICES ASSUME SupInv PROVE SupTypeOK
    OBVIOUS
  <2>1. sequence \in [token : 0..sequenceFence, left : 0..SequenceTtl]
    BY DEF SupInv, TablesInv
  <2>2. ASSUME NEW p \in Procs
        PROVE  /\ me[p].token <= sequenceFence
               /\ me[p].todo \subseteq specified
               /\ me[p].pc \in Executing \cup {"report", "checkpoint"} =>
                   /\ me[p].task \in specified
                   /\ me[p].n \in 1..attemptCount[me[p].task]
    BY DEF SupInv, ProcsInv, Fits, Sound, Busy
  <2>. QED
    BY <2>1, <2>2 DEF SupTypeOK, SupInv, TablesInv, ProcsInv, EvidenceInv
<1>. QED
  BY <1>1, SupInvariant, PTL

(* A task that succeeded has all three pieces of evidence of the attempt   *)
(* that made it succeed, and the output it names passed verification.      *)
THEOREM SuccessIsEvidenced == SupSpec => []SucceededIsEvidenced
<1>1. SupInv => SucceededIsEvidenced
  BY DEF SupInv
<1>. QED
  BY <1>1, SupInvariant, PTL

(* Evidence is only ever inserted by the worker its attempt was leased to, *)
(* although the insertion asks for no token.                               *)
THEOREM EvidenceIsOwn == SupSpec => []EvidenceOfOwnAttempt
<1>1. SupInv => EvidenceOfOwnAttempt
  BY DEF SupInv, EvidenceInv, EvidenceOfOwnAttempt
<1>. QED
  BY <1>1, SupInvariant, PTL

(* An attempt is reported at most once, and as its record has it.          *)
THEOREM ReportsAreTrue == SupSpec => []ReportedAsRecorded
<1>1. SupInv => ReportedAsRecorded
  <2>. SUFFICES ASSUME SupInv, NEW t \in Tasks, NEW n \in 1..MaxAttempts[t]
                PROVE  /\ Len(reported[t][n]) <= 1
                       /\ \A i \in 1..Len(reported[t][n]) :
                           reported[t][n][i] = attempts[t][n].state
    BY DEF ReportedAsRecorded
  <2>1. CASE reported[t][n] = <<>>
    BY <2>1
  <2>2. CASE reported[t][n] = <<attempts[t][n].state>>
    BY <2>2
  <2>. QED
    BY <2>1, <2>2 DEF SupInv, ReportsInv
<1>. QED
  BY <1>1, SupInvariant, PTL

(* Only the latest claimant of the sequence writes the checkpoint.         *)
LEMMA CheckpointStep ==
    SupInv /\ [SupNext]_supVars => checkpoint'.by >= checkpoint.by
<1>. SUFFICES ASSUME SupInv, [SupNext]_supVars
              PROVE  checkpoint'.by >= checkpoint.by
  OBVIOUS
<1>1. checkpoint.by \in Nat /\ sequenceFence \in Nat
      /\ checkpoint.by <= sequenceFence
  BY DEF SupInv, TablesInv
<1>2. CASE UNCHANGED checkpoint
  BY <1>1, <1>2
<1>3. ASSUME NEW p \in Procs, Checkpoint(p)
      PROVE  checkpoint'.by >= checkpoint.by
  <2>1. CASE MayCheckpoint(p)
    <3>1. checkpoint'.by = sequenceFence
      BY <1>3, <2>1
      DEF Checkpoint, MayCheckpoint, SequenceLive, SupInv, TablesInv
    <3>. QED
      BY <1>1, <3>1
  <2>2. CASE ~MayCheckpoint(p)
    BY <1>2, <1>3, <2>2 DEF Checkpoint, Exit, recordVars
  <2>. QED
    BY <2>1, <2>2
<1>4. ASSUME NEW p \in Procs, ProgramStep(p), ~Checkpoint(p)
      PROVE  UNCHANGED checkpoint
  BY <1>4
  DEF ProgramStep, Start, Claim, Reclaim, Exit, Sweep, Promote, Select, Pick,
      RunJob, DriverStarted, DriverReturns, DriverOutput, Verify, Advance,
      Verification, Succeed, FailJob, LoseJob, Report, CutOff, InsertEvidence,
      recordVars
<1>5. ASSUME NEW p \in Procs, TimerStep(p) \/ Crash(p) \/ Terminate(p)
      PROVE  UNCHANGED checkpoint
  BY <1>5 DEF TimerStep, SequenceHeartbeat, JobHeartbeat, Crash, Terminate,
              recordVars
<1>6. ASSUME NEW t \in Tasks, Produce(t) \/ Specify(t) \/ CancelReply(t)
      PROVE  UNCHANGED checkpoint
  BY <1>6 DEF Produce, Specify, CancelReply, recordVars
<1>7. CASE StopFactory \/ ResumeFactory \/ Charge \/ ClockStep
  BY <1>2, <1>7 DEF StopFactory, ResumeFactory, Charge, ClockStep,
                    SequenceRunsDown, LeaseRunsDown, BackoffEnds, recordVars
<1>8. CASE UNCHANGED supVars
  BY <1>2, <1>8 DEF supVars, recordVars
<1>. QED
  BY <1>2, <1>3, <1>4, <1>5, <1>6, <1>7, <1>8 DEF SupNext

(* A supervisor that lost the sequence never overwrites the checkpoint of  *)
(* one that came after it.                                                 *)
THEOREM CheckpointsGoUp == SupSpec => CheckpointsAscend
<1>1. SupInv /\ [SupNext]_supVars => [checkpoint'.by >= checkpoint.by]_supVars
  BY CheckpointStep
<1>. QED
  BY <1>1, SupInvariant, PTL DEF SupSpec, CheckpointsAscend

=============================================================================
