----------------------------- MODULE Supervisor -----------------------------
(***************************************************************************)
(* The sequence supervisor over the durable engine: the main loop of       *)
(* orchestrator/sequence-main.ts, its fenced lease on the sequence         *)
(* (postgres-sequence-store.ts) and the execution of one task lease        *)
(* (operations/execution-supervisor.ts), by any number of processes: the   *)
(* one the service manager runs, and predecessors that stalled, crashed or *)
(* are being stopped.  Every database call is one action, so the calls of  *)
(* two processes, and of the owner, interleave between any two of them.    *)
(*                                                                         *)
(* A driver is a call that returns or throws; what it does is modelled     *)
(* elsewhere.  Its attempt is abandoned, never failed, once the process    *)
(* learns that the lease is gone: every later call would throw as well,    *)
(* and the error ends the process.                                         *)
(***************************************************************************)
EXTENDS WorkRepository, Sequences

CONSTANTS
    Procs,          \* supervisor processes
    Rank,           \* the order of task ids
    Window,         \* how many tasks one read returns (LIMIT 20)
    NoDriver,       \* tasks whose driver this deployment lacks
    SequenceTtl,    \* ticks the sequence lease lives without a heartbeat
    MaxFaults       \* bound on crashes, stalls, terminations, owner stops

ASSUME SupervisorAssumption ==
    /\ Rank \in [Tasks -> Nat]
    /\ \A t, u \in Tasks : Rank[t] = Rank[u] => t = u
    /\ Window \in Nat \ {0}
    /\ NoDriver \subseteq Tasks
    /\ SequenceTtl \in Nat \ {0}
    /\ MaxFaults \in Nat

VARIABLES
    specified,      \* tasks with an operation_task_specs row
    sequence,       \* sequence_supervisor: the lease's token, ticks left
    sequenceFence,  \* tokens given to supervisors so far
    me,             \* what each process remembers
    evidence,       \* operation_task_evidence, with the inserting token
    reported,       \* sequence_summaries: outcomes, by task and attempt
    checkpoint,     \* sequence_supervisor.checkpoint, with its writer
    faults          \* faults so far

recordVars == <<evidence, reported, checkpoint>>
sequenceVars == <<sequence, sequenceFence>>
supVars == <<vars, specified, sequenceVars, me, recordVars, faults>>

-----------------------------------------------------------------------------
(* What a process remembers.  Sequence tokens and task tokens come from    *)
(* one database sequence; they are never compared, so each has a counter.  *)

(* Where a process is in an attempt it has leased.                         *)
Executing == {"leased", "started", "driving", "returned", "output",
              "verifying", "evidenced", "failing"}

Running == Executing \cup {"loop", "sweep", "promote", "select", "pick",
                           "report", "checkpoint"}

Down == [pc |-> "down", token |-> 0, todo |-> {}, task |-> "none", lease |-> 0,
         n |-> 0, out |-> "none", lost |-> FALSE, aborted |-> FALSE,
         ending |-> "no"]

(* What is known of an attempt: the driver's verdict, then the state that  *)
(* fail() or transition() returned.                                        *)
Verdict == {"passed", "verification", "invalid_output", "worker", "policy"}
Outcome == {"succeeded", "failed", "retry_wait"}

Process == [pc : Running \cup {"down", "starting"}, token : Nat,
            todo : SUBSET Tasks, task : Tasks \cup {"none"}, lease : Nat,
            n : Nat, out : {"none"} \cup Verdict \cup Outcome,
            lost : BOOLEAN, aborted : BOOLEAN, ending : {"no", "lost", "term"}]

Holds(p, t) == me[p].pc \in Executing /\ me[p].task = t
                 /\ me[p].lease = lease[t].token

(* operationSignal is aborted.  executeLease() forwards the event to the   *)
(* driver's own signal, and only the event: a signal that is aborted when  *)
(* the attempt begins is never forwarded.                                  *)
Hears(r) == r.pc \in {"leased", "started", "driving"} /\ r.task \notin NoDriver

Aborted(r, why) ==
    [r EXCEPT !.ending = why, !.aborted = @ \/ Hears(r)]

(* A call of p for its task would throw: the lease is not live. *)
JobLost(p) == ~Live(me[p].task, me[p].lease)

SequenceLive(k) == k # 0 /\ sequence.token = k /\ sequence.left > 0

FirstOf(S) == CHOOSE t \in S : \A u \in S : Rank[t] <= Rank[u]

(* The at most Window first tasks of S. *)
FirstFew(S) == {t \in S : Cardinality({u \in S : Rank[u] < Rank[t]}) < Window}

(* Every choice of at most Window tasks of S.                              *)
Few(S) == {A \in SUBSET S : Cardinality(A) = IF Cardinality(S) < Window
                                                THEN Cardinality(S) ELSE Window}

At(p, label) == me[p].pc = label

Goto(p, label) == me' = [me EXCEPT ![p].pc = label]

-----------------------------------------------------------------------------
SupInit ==
    /\ Init
    /\ specified = {}
    /\ sequence = NoLease
    /\ sequenceFence = 0
    /\ me = [p \in Procs |-> Down]
    /\ evidence = {}
    /\ reported = [t \in Tasks |-> [n \in 1..MaxAttempts[t] |-> <<>>]]
    /\ checkpoint = [task |-> "none", n |-> 0, by |-> 0]
    /\ faults = 0

(* ExecStartPre: a stopped factory starts no supervisor. *)
Start(p) ==
    /\ At(p, "down")
    /\ ~stopped
    /\ Goto(p, "starting")
    /\ UNCHANGED <<vars, specified, sequenceVars, recordVars, faults>>

(* claim(): a free or expired sequence lease is taken; else main() throws. *)
Claim(p) ==
    /\ At(p, "starting")
    /\ IF sequence.left = 0
         THEN /\ sequenceFence' = sequenceFence + 1
              /\ sequence' = [token |-> sequenceFence + 1, left |-> SequenceTtl]
              /\ me' = [me EXCEPT ![p].pc = "loop", ![p].token = sequenceFence + 1]
         ELSE /\ Goto(p, "down")
              /\ UNCHANGED sequenceVars
    /\ UNCHANGED <<vars, specified, recordVars, faults>>

(* shutdown() after an error or a signal: the sequence lease is released   *)
(* if it is still this process's.                                          *)
Exit(p) ==
    /\ me' = [me EXCEPT ![p] = Down]
    /\ sequence' = IF sequence.token = me[p].token THEN NoLease ELSE sequence
    /\ UNCHANGED <<vars, specified, sequenceFence, recordVars, faults>>

(* The timer's renewal of the sequence lease, and its failure; shutdown()  *)
(* clears the timer first.                                                 *)
SequenceHeartbeat(p) ==
    /\ me[p].pc \in Running
    /\ me[p].ending # "term"
    /\ IF SequenceLive(me[p].token)
         THEN /\ sequence' = [sequence EXCEPT !.left = SequenceTtl]
              /\ UNCHANGED me
         ELSE /\ me' = [me EXCEPT ![p] = Aborted(@, "lost")]
              /\ UNCHANGED sequence
    /\ UNCHANGED <<vars, specified, sequenceFence, recordVars, faults>>

-----------------------------------------------------------------------------
(* The main loop.                                                          *)

(* Fault: nobody sweeps the leases of workers that are gone.               *)
NeverReclaimed == UNCHANGED vars

Reclaimed == \/ ReclaimExpired
             \/ (\A t \in Tasks : ~Expired(t)) /\ UNCHANGED vars

(* The loop's condition, and reclaimExpired().                             *)
Reclaim(p) ==
    /\ At(p, "loop")
    /\ IF me[p].ending # "no"
         THEN Exit(p)
         ELSE /\ Goto(p, "sweep")
              /\ Reclaimed
              /\ UNCHANGED <<specified, sequenceVars, recordVars, faults>>

(* Fault: retries are never swept back into the queue.                     *)
NoneDue == {}

Due == {t \in specified : state[t] = "retry_wait" /\ nextAttempt[t] = "due"}

(* promoteDueRetries() reads its candidates, those due longest; in which   *)
(* order they came due is left open ...                                    *)
Sweep(p) ==
    /\ At(p, "sweep")
    /\ \E some \in Few(Due) :
        me' = [me EXCEPT ![p].pc = "promote", ![p].todo = some]
    /\ UNCHANGED <<vars, specified, sequenceVars, recordVars, faults>>

(* Fault: a candidate is promoted as it was read, without a second look.   *)
PromoteAsRead(t) ==
    /\ state' = [state EXCEPT ![t] = "queued"]
    /\ nextAttempt' = [nextAttempt EXCEPT ![t] = "none"]
    /\ UNCHANGED <<attemptCount, spent, contractSpent, lease, attempts, costs,
                   fence, stopped>>

PromoteRetry(t) == \/ ControlTransition(t, "retry_wait", "queued")
                   \/ t \notin Due /\ UNCHANGED vars

(* ... and promotes them one by one, passing over those no longer due.     *)
Promote(p) ==
    /\ At(p, "promote")
    /\ IF me[p].todo = {}
         THEN Goto(p, "select") /\ UNCHANGED vars
         ELSE \E t \in me[p].todo :
                /\ PromoteRetry(t)
                /\ me' = [me EXCEPT ![p].todo = @ \ {t}]
    /\ UNCHANGED <<specified, sequenceVars, recordVars, faults>>

(* Fault: a task is a candidate before its specification is written.       *)
QueuedUnspecified == {t \in Tasks : state[t] = "queued"}

Queued == {t \in specified : state[t] = "queued"}

(* runOne() reads the queued tasks, in the order of their ids ...          *)
Select(p) ==
    /\ At(p, "select")
    /\ me' = [me EXCEPT
                ![p].pc = "pick",
                ![p].todo = IF stopped THEN {} ELSE FirstFew(Queued)]
    /\ UNCHANGED <<vars, specified, sequenceVars, recordVars, faults>>

(* ... and leases the first it can; with none left the loop waits.         *)
Pick(p) ==
    /\ At(p, "pick")
    /\ IF me[p].todo = {}
         THEN Goto(p, "loop") /\ UNCHANGED vars
         ELSE LET t == FirstOf(me[p].todo) IN
              \/ /\ Lease(t)
                 /\ me' = [me EXCEPT ![p].pc = "leased", ![p].todo = {},
                                     ![p].task = t, ![p].lease = fence',
                                     ![p].n = attemptCount'[t]]
              \/ /\ ~CanLease(t)
                 /\ me' = [me EXCEPT ![p].todo = @ \ {t}]
                 /\ UNCHANGED vars
    /\ UNCHANGED <<specified, sequenceVars, recordVars, faults>>

-----------------------------------------------------------------------------
(* executeLease().                                                         *)

(* A worker transition of p's own attempt, after which p continues at next. *)
Advance(p, from, to, label) ==
    /\ Transition(me[p].task, me[p].lease, from, to)
    /\ Goto(p, label)
    /\ UNCHANGED <<specified, sequenceVars, recordVars, faults>>

(* A missing driver is a policy failure, noted before anything is run.     *)
RunJob(p) ==
    /\ At(p, "leased")
    /\ Transition(me[p].task, me[p].lease, "leased", "running")
    /\ me' = IF me[p].task \in NoDriver
               THEN [me EXCEPT ![p].pc = "failing", ![p].out = "policy"]
               ELSE [me EXCEPT ![p].pc = "started"]
    /\ UNCHANGED <<specified, sequenceVars, recordVars, faults>>

(* Fault: evidence is keyed by the attempt the task is at now.             *)
RowAtPresent(p, ord) ==
    [task |-> me[p].task, n |-> attemptCount[me[p].task], ord |-> ord,
     out |-> me[p].out, by |-> me[p].lease]

(* A row of operation_task_evidence: its key is the attempt p leased, its  *)
(* payload what p knows of it, and inserting it asks for no token.         *)
EvidenceRow(p, ord) ==
    [task |-> me[p].task, n |-> me[p].n, ord |-> ord, out |-> me[p].out,
     by |-> me[p].lease]

InsertEvidence(p, from, ord, label) ==
    /\ At(p, from)
    /\ evidence' = evidence \cup {EvidenceRow(p, ord)}
    /\ Goto(p, label)
    /\ UNCHANGED <<vars, specified, sequenceVars, reported, checkpoint, faults>>

DriverStarted(p) == InsertEvidence(p, "started", 1, "driving")

(* The driver answers: output that passes or fails verification, an error, *)
(* or an AbortError, which only an aborted signal can cause.               *)
DriverReturns(p, verdict) ==
    /\ At(p, "driving")
    /\ ~me[p].lost
    /\ verdict \in {"passed", "verification", "invalid_output", "worker"}
    /\ verdict = "worker" => me[p].aborted
    /\ me' = [me EXCEPT ![p].out = verdict, ![p].aborted = FALSE,
                        ![p].pc = IF verdict \in {"passed", "verification"}
                                    THEN "returned" ELSE "failing"]
    /\ UNCHANGED <<vars, specified, sequenceVars, recordVars, faults>>

DriverOutput(p) == InsertEvidence(p, "returned", 2, "output")

(* Fault: output that failed verification goes on like any other.          *)
Unverified(p) == "verifying"

(* Where verification sends the attempt.                                   *)
Verified(p) == IF me[p].out = "passed" THEN "verifying" ELSE "failing"

Verify(p) ==
    /\ At(p, "output")
    /\ Advance(p, "running", "verifying", Verified(p))

Verification(p) == InsertEvidence(p, "verifying", 3, "evidenced")

Succeed(p) ==
    /\ At(p, "evidenced")
    /\ Transition(me[p].task, me[p].lease, "verifying", "succeeded")
    /\ me' = [me EXCEPT ![p].pc = "report", ![p].out = "succeeded"]
    /\ UNCHANGED <<specified, sequenceVars, recordVars, faults>>

FailJob(p) ==
    /\ At(p, "failing")
    /\ Fail(me[p].task, me[p].lease, me[p].out)
    /\ me' = [me EXCEPT ![p].pc = "report",
                        ![p].out = AfterFailure(me[p].task, @)]
    /\ UNCHANGED <<specified, sequenceVars, recordVars, faults>>

(* The task heartbeat; when it fails the driver's signal is aborted, and   *)
(* the failure is thrown once the driver has answered, not after that.     *)
JobHeartbeat(p) ==
    /\ me[p].pc \in Executing
    /\ me[p].task \notin NoDriver
    /\ IF JobLost(p) \/ stopped
         THEN /\ me' = [me EXCEPT ![p].lost = Hears(me[p]),
                                  ![p].aborted = Hears(me[p])]
              /\ UNCHANGED vars
         ELSE Heartbeat(me[p].task, me[p].lease) /\ UNCHANGED me
    /\ UNCHANGED <<specified, sequenceVars, recordVars, faults>>

(* The heartbeat's failure is thrown, or a call that needs the lease       *)
(* throws, fail() with it: runOne() rejects.                               *)
LoseJob(p) ==
    /\ \/ me[p].pc \in {"leased", "output", "evidenced", "failing"} /\ JobLost(p)
       \/ At(p, "driving") /\ me[p].lost
    /\ Exit(p)

-----------------------------------------------------------------------------
(* After runOne(): the summary, and the fenced checkpoint.                 *)

(* Fault: the state reported is read back after the attempt has ended.     *)
OutcomeReadBack(p) == state[me[p].task]

(* The state the task row had when the attempt's last call returned it.    *)
ReportedState(p) == me[p].out

Report(p) ==
    /\ At(p, "report")
    /\ reported' = [reported EXCEPT ![me[p].task][me[p].n] =
                       Append(@, ReportedState(p))]
    /\ me' = [me EXCEPT ![p].pc = "checkpoint", ![p].out = "none"]
    /\ UNCHANGED <<vars, specified, sequenceVars, evidence, checkpoint, faults>>

(* Fault: the checkpoint is written without looking at the lease.          *)
AnyCheckpoint(p) == TRUE

MayCheckpoint(p) == SequenceLive(me[p].token)

Checkpoint(p) ==
    /\ At(p, "checkpoint")
    /\ IF MayCheckpoint(p)
         THEN /\ checkpoint' = [task |-> me[p].task, n |-> me[p].n,
                                by |-> me[p].token]
              /\ me' = [me EXCEPT ![p] = [Down EXCEPT !.pc = "loop",
                                             !.token = me[p].token,
                                             !.ending = me[p].ending]]
              /\ UNCHANGED <<vars, specified, sequenceVars, evidence, reported,
                             faults>>
         ELSE Exit(p)

(* A signal's shutdown() waits for runOne() only: what follows it may be   *)
(* cut off when the pool closes.                                           *)
CutOff(p) ==
    /\ me[p].pc \in {"report", "checkpoint"}
    /\ me[p].ending = "term"
    /\ Exit(p)

-----------------------------------------------------------------------------
(* Producers, the owner, time and faults.                                  *)

(* queueConversationReply() and its like: three separate writes.           *)
Produce(t) ==
    /\ Submit(t) \/ ControlTransition(t, "draft", "queued")
    /\ UNCHANGED <<specified, sequenceVars, me, recordVars, faults>>

Specify(t) ==
    /\ state[t] \notin {"absent", "draft"}
    /\ t \notin specified
    /\ specified' = specified \cup {t}
    /\ UNCHANGED <<vars, sequenceVars, me, recordVars, faults>>

CancelReply(t) ==
    /\ t \in specified
    /\ OwnerCancel(t)
    /\ UNCHANGED <<specified, sequenceVars, me, recordVars, faults>>

Fault == faults < MaxFaults /\ faults' = faults + 1

StopFactory ==
    /\ ~stopped
    /\ EmergencyStop
    /\ Fault
    /\ UNCHANGED <<specified, sequenceVars, me, recordVars>>

ResumeFactory ==
    /\ Resume
    /\ UNCHANGED <<specified, sequenceVars, me, recordVars, faults>>

Charge ==
    /\ CostStep
    /\ UNCHANGED <<specified, sequenceVars, me, recordVars, faults>>

(* A lease runs out by itself when nobody renews it any more; while its    *)
(* holder runs, whose timers renew it three times over, only a stall of    *)
(* that process or of its connection lets it run out.                      *)
LeaseRunsDown(t) ==
    /\ LeaseAges(t)
    /\ IF lease[t].left = 1 /\ \E p \in Procs : Holds(p, t)
         THEN Fault ELSE UNCHANGED faults
    /\ UNCHANGED <<specified, sequenceVars, me, recordVars>>

SequenceRunsDown ==
    /\ sequence.left > 0
    /\ sequence' = [sequence EXCEPT !.left = @ - 1]
    /\ IF sequence.left = 1
             /\ \E p \in Procs : /\ me[p].pc \in Running
                               /\ me[p].token = sequence.token
                               /\ me[p].ending # "term"
         THEN Fault ELSE UNCHANGED faults
    /\ UNCHANGED <<vars, specified, sequenceFence, me, recordVars>>

BackoffEnds(t) ==
    /\ RetryComesDue(t)
    /\ UNCHANGED <<specified, sequenceVars, me, recordVars, faults>>

(* The process dies without a word.                                        *)
Crash(p) ==
    /\ ~At(p, "down")
    /\ Fault
    /\ me' = [me EXCEPT ![p] = Down]
    /\ UNCHANGED <<vars, specified, sequenceVars, recordVars>>

(* SIGTERM: the operation's signal is aborted and the loop will end.       *)
Terminate(p) ==
    /\ me[p].pc \in Running
    /\ me[p].ending # "term"
    /\ Fault
    /\ me' = [me EXCEPT ![p] = Aborted(@, "term")]
    /\ UNCHANGED <<vars, specified, sequenceVars, recordVars>>

-----------------------------------------------------------------------------
(* One step of p's own program. *)
ProgramStep(p) ==
    \/ Start(p) \/ Claim(p) \/ Reclaim(p) \/ Sweep(p) \/ Promote(p)
    \/ Select(p) \/ Pick(p) \/ RunJob(p) \/ DriverStarted(p)
    \/ \E verdict \in Verdict : DriverReturns(p, verdict)
    \/ DriverOutput(p) \/ Verify(p) \/ Verification(p) \/ Succeed(p)
    \/ FailJob(p) \/ LoseJob(p) \/ Report(p) \/ Checkpoint(p) \/ CutOff(p)

TimerStep(p) == SequenceHeartbeat(p) \/ JobHeartbeat(p)

ClockStep ==
    \/ SequenceRunsDown
    \/ \E t \in Tasks : LeaseRunsDown(t) \/ BackoffEnds(t)

SupNext ==
    \/ \E p \in Procs :
        ProgramStep(p) \/ TimerStep(p) \/ Crash(p) \/ Terminate(p)
    \/ \E t \in Tasks : Produce(t) \/ Specify(t) \/ CancelReply(t)
    \/ StopFactory \/ ResumeFactory \/ Charge
    \/ ClockStep

SupSpec == SupInit /\ [][SupNext]_supVars

(* The service manager restarts a process that exits, calls and drivers    *)
(* return (every adapter has a timeout), timers fire, time passes.         *)
Fairness ==
    /\ \A p \in Procs : WF_supVars(ProgramStep(p)) /\ WF_supVars(TimerStep(p))
    /\ WF_supVars(SequenceRunsDown /\ UNCHANGED faults)
    /\ \A t \in Tasks :
        /\ WF_supVars(LeaseRunsDown(t) /\ UNCHANGED faults)
        /\ WF_supVars(BackoffEnds(t))

FairSpec == SupSpec /\ Fairness
-----------------------------------------------------------------------------
(* Properties.                                                             *)

EvidenceRows ==
    [task : Tasks, n : Nat, ord : 1..3, out : {"none"} \cup Verdict, by : Nat]

(* Every process is somewhere in its program; what it has set out to do    *)
(* is specified, what it executes has begun, and no supervisor holds a     *)
(* token that was not given out.                                           *)
SupTypeOK ==
    /\ specified \subseteq Tasks
    /\ sequenceFence \in Nat
    /\ sequence \in [token : 0..sequenceFence, left : 0..SequenceTtl]
    /\ me \in [Procs -> Process]
    /\ \A p \in Procs :
        /\ me[p].token <= sequenceFence
        /\ me[p].todo \subseteq specified
        /\ me[p].pc \in Executing \cup {"report", "checkpoint"} =>
            /\ me[p].task \in specified
            /\ me[p].n \in 1..attemptCount[me[p].task]
    /\ evidence \subseteq EvidenceRows
    /\ faults \in 0..MaxFaults

(* Nothing succeeds on the word of a driver alone: the attempt that made a *)
(* task succeed has all three pieces of evidence, inserted by the worker   *)
(* it was leased to, and its output passed verification.                   *)
SucceededIsEvidenced ==
    \A t \in Tasks : state[t] = "succeeded" =>
        \A ord \in 1..3 : \E e \in evidence :
            /\ e.task = t /\ e.n = attemptCount[t] /\ e.ord = ord
            /\ e.by = current(t).token
            /\ ord > 1 => e.out = "passed"

(* Inserting evidence is not fenced, yet the evidence of an attempt is     *)
(* only ever that of the worker it was leased to, however late it comes.   *)
EvidenceOfOwnAttempt ==
    \A e \in evidence : e.by = attempts[e.task][e.n].token

(* An attempt is reported at most once, and with the outcome its record    *)
(* has, whatever has happened to the task since.                           *)
ReportedAsRecorded ==
    \A t \in Tasks : \A n \in 1..MaxAttempts[t] :
        /\ Len(reported[t][n]) <= 1
        /\ \A i \in 1..Len(reported[t][n]) :
            reported[t][n][i] = attempts[t][n].state

(* A supervisor that lost the sequence never overwrites the checkpoint of  *)
(* one that came after it.                                                 *)
CheckpointsAscend == [][checkpoint'.by >= checkpoint.by]_supVars

(* Whatever the processes do, the engine's tables only take steps of       *)
(* WorkRepository, so what is proved of it holds here too.                 *)
EngineSteps == [][UNCHANGED vars \/ Next]_vars

(* Nothing can lease the task any more although it is queued.              *)
Unleasable(t) ==
    state[t] = "queued" /\ (attemptCount[t] >= MaxAttempts[t] \/ Exhausted(t))

(* As many tasks as one pass reads stand before t, and nothing may lease   *)
(* any of them: they are read again and again, and t never is.             *)
Starved(t) ==
    Cardinality({u \in Queued : Rank[u] < Rank[t] /\ Unleasable(u)}) >= Window

(* A queued task comes to an end, through crashes, stalls and retries,     *)
(* unless its budget blocks it, or from some time on the factory stays     *)
(* stopped, nothing may lease it, or it is starved by tasks of that kind.  *)
QueuedWorkEnds ==
    \A t \in Tasks :
        (t \in specified /\ state[t] = "queued")
            ~> \/ state[t] \in terminalStates \cup {"budget_blocked"}
               \/ [](stopped \/ Unleasable(t) \/ Starved(t))

(* No task stays in the hands of a worker: whoever dies with it, it is     *)
(* taken away in the end.                                                  *)
HeldWorkIsReleased ==
    \A t \in Tasks :
        state[t] \in workerStates ~> state[t] \notin workerStates

=============================================================================
