# Verification of the Polyp AI factory

TLA+ specifications of the factory's core, model-checked with TLC on small
instances and, where a proof is within reach, proved with TLAPS for every value
of the constants.  Paths are relative to the repository; `src/work/...` is the
TypeScript source.

## 1. The system

Polyp is a single-owner "AI factory".  The owner talks to it (web control
centre or Telegram); conversations, proposals and generation requests become
*tasks* in PostgreSQL; one long-running *sequence supervisor* leases tasks,
runs a driver for each (a reply, a blueprint translation, an AI-written patch),
and records evidence, cost and outcome.  Providers are called through an AI
gateway that reserves money before each call and settles it afterwards.

| Component | State | Operations | Hard behaviour | What makes it correct |
|---|---|---|---|---|
| Task state machine (`work/state-machine.ts`) | none | `canTransition`, `retryable` | - | terminal states are terminal; everybody uses the same map |
| Durable work engine (`work/postgres-repository.ts`, migration 0003) | `tasks`, `task_leases`, `task_attempts`, `task_costs`, `factory_contracts`, `factory_controls` | submit, controlTransition, lease, heartbeat, transition, fail, reclaimExpired, setEmergencyStop, recordCost; the cancel route of the control API | stale workers, expiry, several writers of one row set, budgets shared by tasks, partial updates rolled back | one holder per task, fenced by token; rows agree; budgets and the stop end work; records are final |
| Task execution (`operations/execution-supervisor.ts`) | `operation_task_specs`, `operation_task_evidence`; per attempt: the lease, heartbeat failure, abort signal | promoteDueRetries, runOne, executeLease, fail, evidence | awaits between every two calls; heartbeat timer against the attempt; stale candidates | success only after verified evidence of the same attempt |
| Sequence supervisor (`orchestrator/sequence-main.ts`, `postgres-sequence-store.ts`) | `sequence_supervisor`, `sequence_summaries`; the process's lease, `stopping`, `heartbeatFailure`, `inFlight` | claim, heartbeat, operationCheckpoint, release, shutdown | overlap of two processes after a stall, signals at any await, restart | a superseded process changes nothing its successor relies on; work resumes |
| AI gateway (`gateway/gateway.ts`, `postgres-ledger.ts`, migration 0004) | `ai_gateway_attempts`, `ai_budget_accounts` | execute, reserve, dispatched, succeed, reject, fail, reclaimStranded, reconcileUnknownAsFailed, recordVerification | crash between reservation and settlement; a late answer against the sweep | one call per key; money reserved is settled once; the account is the sum of its attempts |
| Provider adapters (`gateway/cli-adapters.ts`, `deepseek-adapter.ts`) | none | execute | timeouts, malformed answers | an answer is charged or refused, never both |
| Model policy and routing (`policy/*`, `operations/policy-route-resolver.ts`, `gateway/model-policy.ts`, `scripts/policy-canary.ts`) | `orchestration_policies`, `policy_events`, `provider_artifacts` | createDraft, validate, approve, activate, rollback, the canary; resolve, nextStaticTier | the canary reads a draft long before it vouches for it; the tier is derived from verdicts and from attempts without one | only a proved policy is ever active; no tier is asked before its cheaper ones |
| Conversation store (`orchestrator/postgres-store.ts`) | conversations with versions, messages, proposals, attachments | appendMessage, rename, archive, createProposal, transitionProposal, putAttachment, transitionAttachment | optimistic versions, idempotency keys, check-then-act | one message per key; a proposal is decided once |
| Reply driver and its stores (`operations/conversation-reply-driver.ts`, `reply-chunks.ts`, `provider-sessions.ts`) | reply chunks, provider sessions | execute, push/flush/clear, drain | retry after a committed answer; a flush that lands after a clear | one answer per task; the stored stream is one attempt's |
| AI patch driver (`operations/ai-patch-*.ts`, `git-patch-applier.ts`, `workspace-copy.ts`, `provider-artifact-store.ts`) | a git repository, a directory to verify, `provider_artifacts` | run: resolve, call, check scope, apply, copy, verify, revert or commit, record, hook | several commands on one repository; an attempt dies between them, or outlives its lease | only what a verification passed is committed; a verdict is true of the patch it names |
| Owner's commands (`operations/owner-commands.ts`, the routes of `control-api/app.ts`) | none of its own | createProject, startConversation, sendMessage, draftProposal, createProposal, approveProposal, rejectProposal; translate, generate, export | two pages, repeated and abandoned requests, several writes per request | a proposal is decided once; nothing is generated that was not approved |
| Project factory (`factory/*`, `operations/blueprint-translation-driver.ts`) | `project_blueprint_versions`, `generated_projects`, `project_lifecycle_events`, `capacity_reservations`, the workspace on disk | publishBlueprint, createProject, attachBlueprintVersion, transition, advance, reserveCapacity, releaseCapacity, queueBlueprintTranslation, createGenerationTask, provision | several translations and generations of one project at once; reads long before writes; clocks differ | one translation wins; the lifecycle is one line; capacity stays within its limits |
| Approvals (`approvals/*`) | `approval_requests`, `domain_events`, `audit_records` | create, decide | a decision that arrives twice, late, or over two paths | decided once, by the owner, never after expiry |
| Telegram (`telegram/*`, `control-api/telegram-webhook.ts`) | `telegram_settings.update_offset`, the chat, the sticker the process remembers | pollOnce, the handlers of taps, messages, files and commands, start and stop of the sticker | updates fetched again, handlers that throw, two pollers at once | no update is lost; what was handled is done; no sticker is forgotten |
| Reports (`operations/run-notifier.ts`) | none | taskFinished | read after the task has ended | every end worth telling is told, and truly |
| Publication (`work/publication-executor.ts`, `git-publication.ts`) | `factory_contracts.publication_*`, a git remote | publishContract | crash between commit, push and record; others commit | at most one commit published per contract |
| Knowledge (`knowledge/*`, migration 0006) | items, derived indexes, purge plans | add, transition, supersede, addDerivedIndex, preparePurge, retrieve | - | not modelled (section 8) |
| Control API (`control-api/app.ts`) | none of its own | about forty routes | its transactions interleave with the supervisor's | the routes keep the invariants of what they write |
| In-memory engine, ledger and stores (`work/engine.ts`, `gateway/memory-ledger.ts`, `orchestrator/memory-store.ts`, `approvals/memory-repository.ts`) | the same in maps | the same | used by tests only | not modelled (section 8) |
| Worker sandbox, dashboard, configuration, scripts | none that others depend on | - | - | their part in the models above; else not modelled (section 8) |

How they meet: everything durable is in PostgreSQL, in git repositories and in
directories, and processes share nothing else.  The control API and the
Telegram handlers write conversations and queue tasks; the supervisor process
leases tasks, calls drivers in its own process and through them the gateway,
stores and the worker sandbox, polls Telegram and reports to it; timers in that
process renew the two leases; systemd restarts it.  The interesting
interleavings are therefore between *calls* of different processes and of
different loops of one process, and every model takes one call (one
transaction, one command) as one step.

## 2. Modules

| Module | Models | Kind |
|---|---|---|
| `TaskStates` | `work/state-machine.ts`, `work/types.ts` | constants |
| `FencedWork` | what the engine promises: one holder, fresh tokens, bounded attempts, a stop | abstract specification |
| `WorkRepository` | `work/postgres-repository.ts`, migration 0003, the cancel route | component |
| `Supervisor` | `sequence-main.ts`, `postgres-sequence-store.ts`, `execution-supervisor.ts`, the producer `reply-task.ts`; composes with `WorkRepository` | component, composition |
| `BudgetEscrow` | what the ledger promises: money is set aside once per key, then spent up to that amount or given back | abstract specification |
| `GatewayLedger` | `gateway/gateway.ts`, `gateway/postgres-ledger.ts`, migration 0004, what the adapters answer | component |
| `ConversationThread` | what a conversation promises: every message under its own version, an answer right after its question and only once | abstract specification |
| `ReplyPipeline` | `orchestrator/postgres-store.ts`, `operations/owner-commands.ts`, `conversation-reply-driver.ts`, `reply-chunks.ts`, `provider-sessions.ts`, the dashboard's and Telegram's part in it | component, composition |
| `Approvals` | `approvals/postgres-repository.ts`, `approvals/service.ts` | component |
| `RunReports` | the choices of `operations/run-notifier.ts` | operators |
| `TelegramChat` | `telegram/*`, the webhook, the notifier; composes with `Approvals` and `RunReports` | component, composition |
| `Routing` | `policy-route-resolver.ts`, `model-policy.ts`, `simulate-route.ts`, `validate-policy.ts`, `execution-permission.ts`, `derive-failure-evidence.ts` | operators |
| `PolicyStore` | `policy/postgres-policy-store.ts`, `policy/owner-policy-service.ts`, `scripts/policy-canary.ts` | component |
| `PatchTask` | `operations/ai-patch-*.ts`, `git-patch-applier.ts`, `workspace-copy.ts`, `provider-artifact-store.ts`; composes with `PolicyStore` and `Routing` | component, composition |
| `Proposals` | the proposals of `owner-commands.ts`, `orchestrator/service.ts`, `postgres-store.ts` | component |
| `ProjectFactory` | `factory/postgres-repository.ts`, `factory/lifecycle.ts` | component |
| `FactoryLine` | `owner-commands.ts`, the project routes, `blueprint-translation-*.ts`, `generation-task.ts`, `generation-lifecycle.ts`, `workspace-provisioner.ts`; composes with `Proposals` and `ProjectFactory` | component, composition |
| `Capacity` | the reservations of `factory/postgres-repository.ts`, `factory/capacity.ts` | component |
| `Publication` | `work/publication-executor.ts`, `work/git-publication.ts` | component |
| `MC...` (8) | constants, constraints and symmetry for TLC; `MCRegisters` holds the last two components | instances |
| `Sums` | SQL's SUM over the rows of a table, for the three modules that keep totals | operators |
| `WorkEngine_proofs` | theorems about `WorkRepository` and `Supervisor` | proofs |
| `Registers_proofs` | theorems about `Capacity`, `Publication` | proofs |
| `..._proofs` (6) | theorems about `GatewayLedger`, `ReplyPipeline`, `TelegramChat`, `PatchTask` (with `PolicyStore` and `Routing`), `FactoryLine`, `Sums` | proofs |

### WorkRepository

One variable per column that the code's decisions read: `state`,
`attemptCount`, `nextAttempt`, `spent` (table `tasks`), `contractSpent`,
`lease` (`task_leases`: token, ticks to expiry; token 0 is "no row"),
`attempts` (`task_attempts`, by ordinal), `costs`, `fence` (the sequence
`task_fencing_token_seq`), `stopped`.  One action per public method, plus
`OwnerCancel` for the route that writes the same tables with SQL of its own,
and `LeaseAges` and `RetryComesDue` for the database clock.

* A method is one transaction and so one step.  A call that throws rolls back:
  it is a stutter and has no action.  `CanLease` is therefore stronger than the
  first statements of `lease()` suggest: an exhausted task is moved to `failed`
  or `budget_blocked`, then nothing is claimed, and the throw undoes the move.
* Callers are not modelled here at all.  *Any* token ever issued may be
  presented to any method at any time (`k \in 1..fence`), so a worker that
  stalled for an hour and comes back is among the behaviours.
* `task_attempts.state` has a CHECK narrower than the states a worker may ask
  for.  `to \in AttemptState` in `Transition` and `Fail` is that CHECK.
* An attempt row carries two fields that are not columns, `token` (issued with
  the attempt) and `writer` (the token that last wrote it): history variables
  that fencing is stated with.
* Each lease ages on its own: how often one is renewed while another ages is
  left open, which admits every order of expiry.
* Contract and milestone status, publication columns and the failure reason
  column are left out: no decision of these methods reads them.

### Supervisor

Every database call of the process is an action, so calls of two processes,
the producer and the owner interleave between any two.  `me[p]` is what the
process remembers across an await: where it is (`pc`), its sequence token, the
candidates it read (`todo`), the leased task with token and ordinal, what it
knows of the attempt (`out`), whether a task heartbeat failed (`lost`), whether
the driver's signal was aborted (`aborted`), and whether the process is to end
(`ending`).

| Code | Actions |
|---|---|
| unit file, `readiness.ts` | `Start` |
| `main`, `claim()`, timer, `shutdown()` | `Claim`, `SequenceHeartbeat`, `Exit`, `Terminate`, `CutOff` |
| `reclaimExpired()` in the loop | `Reclaim` |
| `promoteDueRetries()` | `Sweep` (the read), `Promote` (one candidate) |
| `runOne()` | `Select` (the read), `Pick` (one `lease()` try) |
| `executeLease()` | `RunJob`, `DriverStarted`, `DriverReturns`, `DriverOutput`, `Verify`, `Verification`, `Succeed`, `FailJob`, `LoseJob`, and the timer `JobHeartbeat` |
| after `runOne()` | `Report` (summary), `Checkpoint` |
| `queueConversationReply()` | `Produce`, `Specify` |
| owner | `CancelReply`, `StopFactory`, `ResumeFactory`, `Charge` |
| environment | `LeaseRunsDown`, `SequenceRunsDown`, `BackoffEnds`, `Crash` |

A driver is a call that returns output (which does or does not pass
verification) or throws; it throws an AbortError only if its signal was
aborted.  Where every remaining call would throw and the error ends the
process, `LoseJob` does that in one step.  A lease that a *running* process
renews three times per period expires only through a stall, which counts as a
fault; so do crashes, signals and emergency stops, and `MaxFaults` bounds them.
Sequence tokens and task tokens come from one database sequence in the code;
they are never compared, so the model counts them separately and the state
space stays smaller.

### GatewayLedger

The rows of `ai_gateway_attempts` are named by their idempotency key, which is
UNIQUE: `outcome`, `request` (what was reserved, where and how much),
`requestId` (is `provider_request_id` set), `charged` (its usage events),
`verdict`, `reconciled`; the accounts are `spent` and `reserved`.  `call[p]` is
where process `p` is in `execute()`, with its locals; `absent[p]` is its
`absentProviders`, which only `availableModelKeys()` reads.  Three variables
are the world's and not the program's: `calls` and `billed`, the invocations
each key led to and what the provider bills for them, and `unmetered`, the keys
whose answer came without its usage.

| Code | Actions |
|---|---|
| `execute()` up to the reservation | `Submit`, `Reserve`, `ReserveThrows` |
| between the reservation and the try | `ProviderUnavailable`, `Dispatch` |
| the adapter's call | `Invoke`, `Answer`, `AdapterFails` |
| `succeed()`, `reject()` | `Settle`, `SettleThrows` |
| the catch clause, `fail()` | `Fail`, `FailThrows` |
| the rest of the ledger | `reclaimStranded`, `reconcileUnknownAsFailed`, `recordVerification` |
| environment | `DatabaseFails`, `Crash`, `Age` |

* Any process may present any request at any time, so a key is presented again
  while its first attempt is in flight, unknown, or settled, and two requests
  may share a key.  The intent hash decides only which error the second caller
  gets.
* A commit whose reply is lost is among the behaviours: `Settle` may end in the
  catch clause although the row is settled, `DatabaseFails` after any other
  ledger call stands for the caller not learning of it, and `Fail` may omit
  what the code does after the call.
* An answer has the cost that the adapter computes from the usage it carries.
  DeepSeek's stream may end without its usage chunk, which
  `deepseek-adapter.ts:213` takes for no usage at all: such an answer costs 0,
  whatever `billed` is, and `unmetered` names its key.
* Assumed of adapters: an answer with usage is billed as that usage says, and an
  adapter that reports a known outcome (`outcomeUnknown` is
  false, and no request id makes it unknown) was billed for nothing.  Claude's
  known failures come from a subscription, which bills nothing per call, and
  Codex's from a process that printed nothing.
* `Age` needs no call to be in flight.  The horizon is 30 minutes and the
  adapters end within 15 (DeepSeek), 10 (Codex) and 3 (Claude) minutes of the
  dispatch; the settlement that follows has no such limit, and the reclaim may
  come before it.
* A charge is one number; that `ai_usage_events` splits it by model, and the
  check that the parts add up, is one of the reasons an answer may be unsound.

### ReplyPipeline

One conversation: `version` and `thread` (tables `conversations`,
`conversation_messages`), `command[k]` (the owner's message with idempotency
key `k`, from the client that composed it to the task that will answer it),
`task[r]` (a reply task), `run[r][n]` (its attempt `n`: where the driver is,
what it has read, and its writer of fragments), `session` (is there a session
row for the primary provider), `chunks`, and `stream` (what the dashboard shows
of a reply that is being written).

| Code | Actions |
|---|---|
| `sendDraft()` of the dashboard, `handle()` of Telegram | `Compose`, `Resend` |
| `sendMessage()` | `SendMessage` |
| `queueConversationReply()` | `QueueReply`, `Enqueue`, `Specify`, one for each write; or `CommandDies` before any |
| `renameConversation()`, `setConversationArchived()` | `Edit` |
| the engine around a driver | `Lease`, `Settle`, `Reclaim`, the stop `EmergencyStop` and `Resume`, and the cancel route `Cancel` |
| `execute()` of the driver, in its order | `ReadHistory`, `FindSession`, `ClearStale`, `ProviderAnswers` or `ProviderFails` (then `Forget`), `Flush`, `Remember`, `AppendAnswer`, `Tidy` |
| `CoalescingChunkWriter` | `Push`, `WriteLands`, `WriteFails`, `Flush` |
| the stream route and `followReplyStream()` | `ShowStream`, `EndStream` |
| environment | `Crash`, `Stall`, `Hang` |

* The queue is reduced to what a driver can notice of the modules
  `WorkRepository` and `Supervisor`: attempts are counted and bounded, one runs
  at a time (`Busy`), unless its process stalled past the lease; then it goes on
  beside its successor and the engine ignores its verdict (`Held`).
* `Lease` has the guards of `lease()` that a reply can meet: a stopped factory,
  the attempts, and a specification.  A task that was queued and not yet
  specified is `unspecified`; if its command dies there, nobody ever selects it.
  The two budgets `lease()` compares hold what `recordCost()` charges, and no
  program calls that for a reply.  The order of the queue and its LIMIT are the
  subject of `Supervisor`.
* `Hang` is a database call of the driver that never returns (no limit is set on
  one): the heartbeat goes on, so the lease is kept and the worker is taken.
* A client sends a version it has read.  The dashboard takes the number of
  messages it shows, Telegram looks the version up (`ExpectedBy`); the command
  may arrive any time later.
* Contents are left out.  Two answers to one task differ in content and time,
  so the store takes the second for another intent under a used key and refuses
  it (`AppendAnswer`); a command presented again is the same intent and replays.
* `read` counts the messages an answer's author had read.  It is no column, but
  what the driver knows when it appends.
* A fragment's row carries the attempt that wrote it (`by`), which the table
  does not: the defect it shows is that nobody can tell.
* The writer's queue belongs to its process: writes that are queued when the
  driver has finished may still land (`Left`), and die with a crash.
* Each call of the provider session store may fail, which its wrapper turns
  into a miss; `Remember` may concern another provider than the primary one.

### TelegramChat, Approvals, RunReports

A process is `sequence-main.ts`, with the poller and the notifier as two loops
that interleave at their awaits.  `inCharge` is the sequence lease: a process
starts with it, and one that loses it (a stall, or a shutdown) goes on until
its poll has ended (`Leave`), beside its successor.  `Updates`, `arrived` and
`confirmed` are Telegram's side: what is written in the chat, what it has
received, and what it has discarded because of the offset of a `getUpdates`;
`offset` is the durable one.  `poll[p]` is the poller's place with the rest of
its batch and what its last awaited call returned, `note[p]` the notifier's,
`active[p]` the sticker the process remembers.

| Code | Actions |
|---|---|
| `pollOnce()` | `ReadOffset`, `Fetch`, `FetchFails`, `BatchDone`, `Commit` |
| `dispatch`, what a handler throws | `Refuse`, `HandlerThrows` |
| `approval-handler.ts`, the webhook route | `TapDecides`, `TapSettles`; `Webhook` |
| `conversation-handler.ts` | `Locate`, `SendMessage`, `QueueReply`; `FilePut`, `FileValidated`, `FileScanned`, `FileFails` |
| `command-handler.ts` | `CommandAnswered` |
| `TelegramSpinner` | `Stop`, `StartStops`, `StartSends`, `StartEnds` |
| `taskFinished()` for a reply | `ReplyEnds` (the driver and the queue), `FindAnswer`, `AnswerStops`, `SayAnswer` |
| ... for another task | `TaskEnds`, `TellEnd`, `SendReport` |
| `PostgresApprovalRepository` | `Create`, `Decide` of `Approvals`; `Expire` for the clock |
| processes | `Start`, `LoseLease`, `Leave`, `Die` |

* The version of the conversation is the length of its thread; renaming and
  other clients are the subject of `ReplyPipeline`.
* A request's token, and its hash, stand for the request; a token is presented
  by a tap of a known chat and user, which are an identity.
* A failure of a commit kills the process (the promise is not awaited by
  anybody), which is `Die`.
* `seen` and `swept` are history: what the handlers made of each update, and
  the stickers that a crash or a failed call left behind.
* `RunReports` is the choice between silence, summary, answer and report, and
  the provider a report names, as operators over a specification and the rows
  that were spent; `usageFor()` may return any of the rows its order ties.
* Each read of the notifier may fail and is swallowed: the policy, the spend,
  the summary, the answer (`unread` in `TellEnd`; `FindAnswer`).  A spend that
  could not be read is no spend to the report (`RowsRead`).

### PatchTask, PolicyStore, Routing

One task of the driver `ai_patch_executor` and the repository it patches.
`task` is its row, `run[p]` the attempt in process `p`: its step, its ordinal,
its route, the files of its patch and its verdict.  `tree`, `head` and `copy`
are the working tree, the last commit and the directory the sandbox verifies.
A file is represented by the number of the attempt that wrote it, so two
attempts write the same paths with different contents.  `artifacts` are the
verdicts, which choose the next attempt's tier.  `available` is what the
adapters list, `absent[p]` the providers that process `p` has found absent and
forgets when it ends.  `passed`, `tried`, `stalled` and `steady` are history.

| Code | Actions |
|---|---|
| the queue | `Lease`, `Return`, `Stall`, `Die`, `Restart` |
| `resolve()` of the route resolver | `Resolve`, `ResolveFails` |
| the gateway's call | `ProviderAnswers`, `ProviderFails`, `ProviderAbsent` |
| `patch-scope.ts` | `ScopeChecked` |
| `GitPatchApplier.apply()` | `Apply`, `ApplyFails` |
| `workspace-copy.ts` | `CopyWorkspace` |
| the sandbox's verdict | `Accept`, `Reject` |
| `revert()`, `commit()` | `Revert`, `Commit` |
| the artifact's row, the hook | `Record`, `Hook` |
| a call outside of any try | `CallFails` |

* Every attempt lists the models anew, without the providers its process has
  found absent (`Listed`), and reads its rows and the policy anew.  A policy that
  cannot be read counts as none; where the chain is walked, rows or models that
  cannot be read count as empty (`policy-route-resolver.ts:185-188`); under a
  policy either makes the attempt throw (`ResolveFails`).  `steady` says that no
  attempt has yet met another list than the first one, or a failed read.
* The formatter runs between apply and copy and is part of what is copied; the
  scaffold's own files are left out, so a patch creates files.
* `PolicyStore` has one policy key.  Each method that writes is an action; the
  canary is three (`StartCanary`, `RouteAnswers`, `recordCanaryEvidence`),
  because it holds no lock between reading a draft and vouching for it.
* `Routing` is pure: `resolve` tries the active policy
  (`simulateProgrammingRoute`) and falls back to `nextStaticTier`.  A route is
  a provider and a model; which models the tables name is data.
* The properties about the repository are conditioned on `stalled`: two
  overlapping processes share the repository and the directory, and nothing in
  the code keeps them apart (section 6).

### Proposals, ProjectFactory, FactoryLine

`Proposals` and `ProjectFactory` are the stores, `FactoryLine` what requests
and attempts do with them.  `call[c]` is a request or an attempt in progress,
with what it remembers across its awaits; every statement is one action, and
`Die` may end it after any.

| Code | Actions |
|---|---|
| `draftProposal()`, `createProposal()` | `draftProposal` or `createProposal` (the request), `InsertProposal`, `ReplayProposal`, then `CheckTransition`, `UpdateProposal` |
| `approveProposal()`, `rejectProposal()` | the request, then `CheckTransition` and `UpdateProposal` once per state |
| `createProject()`, `startConversation()` | `OwnerCreatesProject`, `startConversation`, `PublishCommanded`, `InsertProject`, `TransitionCommanded` |
| translate route, `queueBlueprintTranslation()` | `Translate`, `QueueTranslation`, `SpecifyTranslation` |
| `BlueprintTranslationDriver.execute()` | `LeaseTranslation`, `ModelIsUnusable`, `PublishDerived`, `Attach`, `TakeToBlueprint`, `Succeed` |
| generate route, provisioner, `createGenerationTask()` | `Generate`, `Initialise`, `InstallAndCommit`, `ReadState`, `WriteState`, `QueueGeneration`, `SpecifyGeneration` |
| `FactoryLifecycleAdvancer` | `ReadState`, `WriteState`, for `Generate`, `Develop` (an attempt that committed) and `Export` |

* A decision names the version its page shows, which is any version the
  proposal ever had.
* Of a document two things matter: whether its runtime can be scaffolded, and
  the proposal it was derived from.  A draft's candidate is the number of
  messages it was drafted from.
* A workspace is `absent`, `initialised` (a directory with `.git`, which the
  next request takes for complete) or `complete`.
* Several projects share no row; one is modelled.  A transition that needs an
  approval is refused: no caller has one to show.

### Capacity, Publication

Complete in the code, but nothing outside of the tests calls them yet, so any
caller is assumed.

* `Capacity`: `reservations` and the fence sequence are the tables, `held` the
  leases that were handed out, which may be released late.  The caller passes
  the time, and clocks differ by a tick.
* `Publication`: the contract's record, the history on top of the baseline, the
  dirty files, what was pushed, and where the run is.  A sha is a position in
  the history.  `RunDies` is a death or a failed command after any step;
  `SomebodyElse` edits and commits between two runs.

### Faults

Every property of a passing run has a *fault* beside the definition it
concerns: an operator such as `LiveUnfenced` that is wrong the way a plausible
mistake in that code would be, and that makes TLC find the property violated
when it takes the definition's place.  No specification uses them.

## 3. Runs

| Run | Module, configuration | Question | Result |
|---|---|---|---|
| `work_safety` | `MCWorkRepository`, `WorkSafety.cfg` | do the rows stay consistent under every order of transactions, and do they implement `FencedWork`? | holds |
| `supervisor_safety` | `MCSupervisor`, `SupervisorSafety.cfg` | two processes that crash, stall, are signalled and overlap | holds |
| `supervisor_liveness` | `MCSupervisor`, `SupervisorLiveness.cfg` | does queued work end and held work get released? | holds |
| `gateway_safety` | `MCGatewayLedger`, `Gateway.cfg` | is each key called once, its money held and charged once, and each dispatched attempt settled? | holds |
| `conversation_thread` | `MCReplyPipeline`, `ConversationThread.cfg` | is every answer right after its question, once, and in sight of the whole thread? | holds |
| `conversation_progress` | `MCReplyPipeline`, `ConversationProgress.cfg` | does every specified reply end, and do stored fragments come from one attempt? | holds |
| `conversation_context` | `MCReplyPipeline`, `ConversationContext.cfg` | does the provider have the whole thread? | violated |
| `telegram_chat` | `MCTelegramChat`, `TelegramChat.cfg` | is a request decided once, no update lost, no sticker forgotten, no old answer sent, no end kept back? | holds |
| `patch_task` | `MCPatchTask`, `PatchTask.cfg` | is only verified work committed, are the verdicts true, the tiers in order, and the active policy proved? | holds |
| `patch_verified` | `MCPatchTask`, `PatchVerified.cfg` | is the tree that is committed the tree that was verified? | violated |
| `factory_line` | `MCFactoryLine`, `FactoryLine.cfg` | is a proposal decided once, a blueprint derived once, and code generated only from what was approved? | holds |
| `registers` | `MCRegisters`, `Registers.cfg` | is capacity kept within its limits, and one commit published? | holds |

`CHECK_DEADLOCK FALSE` where the system may stop: all messages answered, all
attempts used up, every bound reached.

### Bounds

* `work_safety`: two tasks of one contract, two attempts for one and one for
  the other, so that attempts run out for one while the other goes on; budgets
  of 2, 1 and 2 and two costs of 1, so that a task's own budget, the
  contract's budget, and a cost on one task blocking another all occur, and a
  cost id is presented again after every change; leases of two ticks, so that a
  renewal makes a difference; one task is a reply (cancellable by the owner),
  the other not.
* `supervisor_safety`: two processes (symmetric) and one task with two
  attempts, two faults.  Two faults are what the worst overlap takes: a process
  stalls past its sequence lease and past its task lease, a second one takes
  both over, and the first returns.
* `supervisor_liveness`: one process, two tasks (one without a driver), one
  cost that exhausts a budget, one fault, and a `Window` of one, so that the
  LIMIT of `runOne()` and of `promoteDueRetries()` (20 in the code) binds: the
  first task is all that a pass reads.  With liveness the process must
  restart and finish after the fault; one is enough for each kind of fault.
* `gateway_safety`: two processes, one account of 3, two requests of 2 and one
  of 1, so that two fit only if one of them is the small one and a released
  reservation makes room; the small request shares its key with a large one.
  The other key's request has a metered provider and one without an adapter.
  Bills of 0, 1 and 3: free, within, and above the reservation.
* `conversation_thread`: two messages (symmetric) and two reply tasks with two
  attempts each: two messages compete for one version, and one message presented
  again queues a second task.  One renaming or repetition, one fault: a stall
  is what lets two attempts of a task run side by side.  No fragments: they
  have no influence on the thread.
* `conversation_progress`: one message, one task, two attempts with two
  fragments each, so that the second attempt's can collide with the first's in
  part; one fault, which may be a stop, a hanging call or a command that dies
  between queueing and specifying.  `conversation_context` needs two messages, and no fault.
* `telegram_chat`: two processes (symmetric), one request, batches of two, one
  build that ends, two faults.  Three chats: the owner's tap, a stranger's tap
  on the same buttons and a command, so that the batch ends between them; one
  message; two files, so that a sticker is replaced.  Two faults are a lost
  lease or crash, and something that fails in the overlap, such as a read of the
  notifier's facts.  The constraint
  `Apart` leaves out combinations of parts that share no variable: an approval
  beside files, a build's end beside a message.
* `patch_task`: two processes and two files (both symmetric), three tiers,
  four attempts, so that the last tier is reached by verdicts alone, one fault, two
  lists of models, of which one lacks the first tier;
  three policy versions of two drafts, so that one is superseded and a copy of
  it brought back.  A policy is read only when an attempt resolves its route,
  so it changes while none runs (`OwnerActsBetween`); runs with a policy have
  fewer attempts (`Apart`), as the static chain is what needs four.
* `factory_line`: two requests or attempts at once (symmetric), one message and
  so one draft and one form, two translations and two generations, two
  attempts, one fault.  `Apart` keeps the stages from overlapping where the
  later one needs what the earlier one finished: the commands that make the
  project, the proposals, the tasks; and bounds the tasks in total.  The proofs
  have neither bound.
* `registers`: one of the two per behaviour.  Three capacity requests of two
  providers and two projects, limits that two of them reach, a lease of two
  ticks and four fences, so that a request comes back after its own expiry;
  three commits beside the baseline.

## 4. Properties

`WorkRepository`: `HeldAttempt` (task, lease and attempt rows agree),
`FencedAttempts` (only the token issued with an attempt writes its record),
`HeldWithinBudget`, `OneSuccess`, `SpentIsSumOfCosts`, `ImplementsFencedWork`
(refinement of `FencedWork`).  Proved and not run: `StoppedHoldsNothing`,
`ClosedAttemptsAreFinal`.

`Supervisor`: `SucceededIsEvidenced`, `EvidenceOfOwnAttempt`,
`ReportedAsRecorded`, `CheckpointsAscend`, `EngineSteps` (every step of the
composed system is a step of `WorkRepository` or leaves its tables alone, so
that all that is proved of the engine holds in the composition), the liveness
properties `QueuedWorkEnds` and `HeldWorkIsReleased`, and `SupTypeOK`, which
also says what the queue read must have found.

`GatewayLedger`: `WithinBudget`, `AccountsMatchRows` (the counters are the sums
of the rows), `OneCallPerKey`, `SettledAsMetered` (nothing the program closes was
charged other than the provider billed, but for an answer that came without its
usage: that one is charged nothing), `ImplementsEscrow` (refinement of `BudgetEscrow`),
the liveness property `DispatchedIsSettled`.  Proved and not run:
`CallsOwnTheirRows`, `SettledIsFinal`.

`ReplyPipeline`: `AnswerSawTheThread` (the attempt that wrote an answer had read
everything before it, although minutes pass between the two),
`SucceededIsAnswered`, `FragmentsOfOneAttempt` (unless a clear failed, a write
was given up or a process stalled), `ImplementsThread` (refinement of
`ConversationThread`), the liveness property `EveryReplyEnds`.

`TelegramChat`: `OneDecision` (of `Approvals`: decided once, by the owner, and
the row says what the trail says), `AcknowledgedIsDone` (no update is lost to
the offset, and what was handled is done: the tap decided, the message in the
thread with its reply queued), `StickersAreTracked` (a sticker in the chat is
one its process remembers), `AnswersAreNew` (the answer sent for a reply is its
own or a later one), `EndsAreTold` (an action property: failures, unknown
states and the last phase of a build reach the owner, whatever facts cannot be
read; a success names a provider whose work was accepted, and only a task
without provider calls is reported as free, unless it was the spend that could
not be read: then the report names nobody and may say that nothing was
charged, section 6).

`PatchTask`: `ActiveIsProved` (of `PolicyStore`), `OnlyVerifiedIsCommitted`,
`VerdictsAreTrue` (the rows that choose the tier agree with the repository),
`TiersInOrder` (with no policy no tier is asked before every cheaper one that
can be had, as long as each attempt so far has asked one, no process outlived
its lease, and every attempt read its rows and one and the same list of models;
section 6 says what each of these costs).

`FactoryLine`: `DecidedOnce` (of `Proposals`), `OneTranslationWins` (with the
lifecycle as one line of events), `GeneratedAsApproved`.

`LeasesAreBacked`, `PublishedOnce`: capacity within its limits and no lease
given away early; one commit of the contract pushed, recorded as it was.

The type invariants of the other modules are conjuncts of a property of theirs,
or proved.

### Fairness

`FairSpec` of `Supervisor` assumes weak fairness, one conjunct per process and
timer, of: the process's own program (database calls and drivers return: every
adapter has a timeout, and systemd's `WatchdogSec=45s` ends a process that
hangs, `Restart=on-failure` with `RestartSec=10s` starts it again), its timers
(`setInterval`), and the clock.  `Crash`, `Terminate`, stalls, stops, costs and
everything the owner or a producer does have no fairness: they may happen or
not.  A process that exits after a signal is not restarted by
`Restart=on-failure`; the model lets it start again, because a signal comes
from an operator's restart or deployment; a factory whose supervisor is
stopped for good makes no progress and claims none.

`QueuedWorkEnds` has five ways out: a terminal state, `budget_blocked`, a
stopped factory, `Unleasable` (queued, but out of attempts or budget), and
`Starved`: as many unleasable tasks as a pass reads stand before the task, so
that it is never read.  The last two are the defect described in section 6;
tasks that can be leased starve nobody, which is what the run shows of a window
smaller than the queue.  It speaks only of tasks that have a specification.

`FairSpec` of `GatewayLedger` assumes weak fairness of a call in progress
(every adapter has a time limit), of `Age` (time passes) and of
`reclaimStranded` (the supervisor's loop calls it every pass, and section 2's
supervisor is restarted when it dies).  A call whose process crashed is gone:
only the reclaim can settle its row.

`FairSpec` of `ReplyPipeline` assumes weak fairness of the worker as a whole,
`QueueStep` and the drivers' steps taken together: `sequence-main.ts` is one
loop, systemd restarts it, and every adapter has a time limit.  A driver that
hangs takes no step, and nothing forces it on.  Nothing is assumed of the
owner, of a command in progress, of the stream, or of the fragment writes, which
may hang: `EveryReplyEnds` holds because `flush()` gives up on them.  It speaks
of replies that have their specification, and has three exceptions, each from
some time on: the factory stays stopped, a call of the driver hangs (`Wedged`;
the clears at `conversation-reply-driver.ts:278` and `375` have no bound, though
the comment at `reply-chunks.ts:66-77` says what that costs), or an emergency
stop put the reply back into the queue out of its last attempt (`UsedUp`), which
is `Unleasable` above.


The other models have no liveness property, and no fairness: whether a
conversation, a patch or a project ever gets on is the owner's and the
providers' affair, and that the worker gets on is what the three above show.

## 5. Proofs

Each safety property, action property and refinement that a passing run checks
is stated by a theorem, for every value of the constants; liveness is not.  What
the abstract specifications promise is stated in them and proved from their own
few steps; the refinements carry it over to the detailed ones.

`WorkEngine_proofs` proves, from `WorkAssumption` alone (budgets, attempt
limits and ticks are numbers, every task has a contract), for any sets of
tasks, contracts and costs:

* `WorkInvariant`: `Spec => []WorkInv`, where `WorkInv` is the conjunction of
  the type invariant and of the five state invariants below.
* `TypeCorrect`, `RowsAgree`, `FencingHolds`, `BudgetStopsWork`, `StopHolds`
  (`StoppedHoldsNothing`), `SuccessIsUnique`, `TotalsAreSums`
  (`SpentIsSumOfCosts`): each state invariant.
* `FinishedRecordsStay`: the action property `ClosedAttemptsAreFinal`.
* `Refinement`: `Spec => Fenced!FencedSpec`, and what that specification
  promises of tokens, holders and ends: `PromiseKept` (`FencedPromise`),
  `TokensAreFresh` (`FencedSteps`).

The argument.  None of the properties but the type invariant is inductive on
its own: fencing needs to know that the row a holder writes is the one issued
with its token, which is `HeldAttempt`; that needs a held task to have an
attempt within its limit (`TypeOK`); `OneSuccess` needs a held task's current
row to be open.  The conjunction is inductive.  The actions fall into three
shapes, and each shape has one lemma: an action that touches only clocks or
flags; a *move of the holder* (`HolderMoves`, for `Transition` and `Fail`),
which writes the current row under its own token; and *taking tasks away*
(`TakenAway`, for `ReclaimExpired`, `EmergencyStop`, `OwnerCancel` and the
blocking of `RecordCost`), which closes rows of a set of tasks from outside
through `Close`.  `Lease`, `Submit`, `ControlTransition` and `RecordCost` have
lemmas of their own.  The refinement maps the task's state to a phase and the
token sequence to the clock of `FencedWork`; most steps are `Settle` steps
(`SettleStep`).  Only `RecordCost` changes a sum, by one entry of one task
(`SumWith`).

The same module proves of the supervisors, from `WorkAssumption` and
`SupervisorAssumption`, for any number of processes, crashes and stalls:

* `SupervisorsStepTheEngine`: `SupSpec => EngineSteps`, and `SupervisedEngine`:
  `SupSpec => Spec`.  Every theorem about the engine holds under its
  supervisors.
* `SupervisorsTyped`, `SuccessIsEvidenced`, `EvidenceIsOwn`, `ReportsAreTrue`,
  `CheckpointsGoUp`: each property of `supervisor_safety` besides.

The argument.  Nothing fences the insert of evidence, and what a process
reports is what it remembers.  So `SupInv` ties the memory of each process to
the tables: `Fits` says, for each place a process can be at between two awaits,
what its task's attempt still is, that its token is the attempt's
(`TokensAscend`: tokens ascend with the attempts of a task), what evidence it
has inserted, and that what it knows of the attempt is on record.  What makes
`Fits` stable under the steps of all others, of the owner and of the clock is
`Onward`, the list of what no step takes back: attempts begun, their tokens,
records that are finished, evidence.  Each action of a process then has one
lemma, which also gives `EngineSteps`: an action that writes
the engine's tables does so by one method of `WorkRepository`.

`GatewayLedger_proofs` proves, from `GatewayAssumption` alone (budgets, limits
and prices are numbers, each request has a key and a scope):

* `GatewayInvariant`: `Spec => []GatewayInv`, and from it `TypeCorrect`,
  `BudgetKept`, `AtMostOneCall`, `ChargedAsMetered` and `OneCallPerRow`
  (`CallsOwnTheirRows`), one for each state invariant.
* `AccountsAreSums`: `Spec => []AccountsMatchRows`.
* `SettlementsLast`: the action property `SettledIsFinal`.
* `LedgerIsEscrow`: `Spec => ImplementsEscrow`, the refinement, and what
  `BudgetEscrow` promises: `EscrowPromised`, `EscrowLasts`.

The argument.  `OneCallPerKey` and `SettledAsMetered` speak of rows, but what
keeps them true is where the calls are: a provider is invoked by a call that
has just dispatched its row, and no other call can be there.  That is
`CallsOwnTheirRows`, and it holds because a row is created at most once and by
the call that then works on it.  The charge is right because a call that has an
answer carries the cost of the usage it was given, and one that fails with a
known outcome was billed nothing.  A row waiting for the reclaim is dispatched and no call still needs
it.  `GatewayInv` is the conjunction.  A step of `execute()` touches one
process and its row, and `OneStep`, `OwnStep` and `QuietStep` say once for all
that the other calls and rows keep their part; `LedgerStep` does the same for
the steps that move no call.  The running totals of an account are sums over
its rows (`Matched`); a step moves one row at most, and takes from one total
what it adds to another (`SumWithout`, `SumWith`).  The refinement maps an open
row to money set aside (`heldNow`); a step that moves money opens one row or
closes one (`MoneyStep`), which are `SetAside` and `Spend`.

`ReplyPipeline_proofs` proves, from `ReplyAssumption` alone (the bounds are
numbers, a task has at least one attempt):

* `PipelineInvariant`: `Spec => []PipelineInv`, and from it `TypeCorrect`,
  `AnswersInformed` and `SuccessIsAnswered`.
* `PipelineImplementsThread`: `Spec => ImplementsThread`, the refinement, and
  what `ConversationThread` promises: `ThreadPromised`, `ThreadOnlyGrows`.

The argument.  The store compares one number, the version; the properties are
about the thread, which a driver read long before.  `PipelineInv` relates the
two.  `InOrder`: ordinals ascend and none is above the version.
`QuestionsKept`: the question of a task is in the thread under the ordinal the
task expects as version.  So as long as the version is that one, the question
is the last message (`AnswerStep`), and a driver that has its history still
read all of it (`RunsSound`): any message or edit takes the version past every
task there is (`OthersSound`), and a driver that starts later reads what is
there (`OwnSound`).  `RunsSound` also says that a driver about to return
success has stored its answer.  `AttemptsCounted` says that no attempt runs
before it was begun, and is what keeps an attempt's ordinal within its bound.
Only two steps add to the thread, `Asking` and `Answering` (`StoreSteps`), and
they map to `Ask` and `Answer`; an edit maps to `Retouch`, all else stutters.

* `FragmentsApart`: `Spec => []FragmentsOfOneAttempt`.

The argument.  The rows of a reply hold fragments of two attempts only while a
successor has yet to clear them, and the property allows it only if something
failed.  `FragmentsKept` says of a task nothing has disturbed what each of its
attempts may have on its way: one that has not cleared the rows yet has no
fragment, one that is over has flushed its queue, and so at most one attempt is
the author of what is stored (`Tidied`, `Orderly`, `OneAuthor`).

`TelegramChat_proofs` proves, from `ChatAssumption` and `ApprovalAssumption`
alone (a chat is a sequence of updates, bounds are numbers, the owner is one of
the identities), for any chat, requests and overlapping processes:

* `DecidedByOwnerOnce`: `Spec => []OneDecision`.
* `NoStickerForgotten`: `Spec => []StickersAreTracked`.
* `AcknowledgedAreDone`: `Spec => []AcknowledgedIsDone`.
* `AnswersAreOwnOrLater`: `Spec => []AnswersAreNew`.
* `EndsReachTheOwner`: `Spec => EndsAreTold`, the action property.

The argument.  `ChatInv` says where each poller is (`PlacesInv`), that the
store is as declared (`StoreInv`), that every sticker in the chat is tracked
and a process that is starting one remembers none (`StickersInv`), and that row
and trail of a request agree (`ApprovalInv`).  `AckInv` ties a poller's place to
what the handlers did (`PollerAck`): everything below its place has been through them,
and the offset it read is no greater than the one that is stored, which is
what makes the greatest of two offsets safe to commit; and between two calls of
one handler, that the first one's effect is still there.  `Onward` collects what no step takes
back: decisions, the thread, queued replies, what was seen.
`NotesInv` is about the notifier: the reply whose end it is about to tell is
answered in the thread, no later than the message it found (`Answered`), and
the provider a report names, and whether it says that nothing was charged, is
taken from the rows that were read (`Names`).

`PatchTask_proofs` proves, from `PolicyAssumption`, `RoutingAssumption` and
`PatchAssumption` (a chain names no tier twice, bounds are numbers), for any
policies, files, chains, processes and numbers of attempts and faults:

* `OnlyProvedIsActive`: `Spec => []ActiveIsProved`.
* `OnlyVerified`: `Spec => []OnlyVerifiedIsCommitted`.
* `RecordedVerdictsAreTrue`: `Spec => []VerdictsAreTrue`.
* `TiersAreWalked`: `Spec => []TiersInOrder`, which includes the type invariant.

The argument.  `ActiveIsProved` speaks of the evidence of one version or of the
one it is a copy of; `PolicyInv` (`VersionSound`) says it for each state: what
is validated shows its canary before its validation in its own log, what is
approved or later has an equal policy at or below it that shows all three.
Logs only grow and policies never change (`Kept`), so evidence is never lost
(`StaysSound`); a row is rewritten by one event (`RowMoves`) or moved by an
activation (`ActivationRows`); a rollback's copy inherits from its target.
Of the repository, `PatchInv` holds as long as no process outlived its lease:
then only the holder of the lease is in an attempt (`Alone`), and by each of
its steps `RunSound` says what it has made of the three directories: no file of
the tree is its own before `apply`; then some are, none of them committed; the
copy holds every file of the tree before the sandbox looks at it; what is
recorded as rejected is in neither directory.  `TreeInv` says that a committed
file stays in the tree as it is and that no file is from an attempt to come, so
a patch, which creates files, falsifies no recorded verdict.

`TiersInOrder` needs the types first (`TypeInv`): a route that is resolved is
one of the chain, which is a fact about `nextStaticTier`.  Its invariant,
`OrderInv`, is a count.  Of the tiers that are left (`Remaining`), those that
fewer than *k* others precede have been asked, where *k* is half the number of
attempts without a verdict (`Reached`); so the tier the next attempt skips to
has only asked ones before it.  While an attempt runs it counts as one without
a verdict more (`Ready`), and when its verdict settles its tier, one tier less
is left and one attempt less is without a verdict: both ask for no more than
before (`Walking`, `Walked`).  A verdict settles its own tier only, and none
becomes unsettled by it.  The count is over one list of models:
`OrderInv` asks for `steady`, and says nothing once an attempt has met another.
The first version of the property did not ask that no process outlived its
lease; the attempt to prove it showed that it is false then, and TLC found the
behaviour; a changed list breaks it as well (section 6).

`FactoryLine_proofs` proves, from `ProposalAssumption` and `LineAssumption`,
for any number of requests and attempts at once:

* `ProposalsDecidedOnce`, `OneTranslationSucceeds`, `GeneratesAsApproved`, one
  for each invariant of `factory_line`.

The argument.  A proposal is checked in one statement and written in another.
`ProposalInv` says of each request between the two that, if the version it
names is still the row's, the state it checked is, too; so the update's WHERE
clause on the version also decides on the state.  On the factory's side the
relation `Grows` says what no step takes back: published blueprints, recorded
events, the project's rank and version, proposals that were handed off, tasks.
`Fits` ties each request to what it was served for, and `Grows` keeps it
fitting under the steps of the others.  `Winner` says when a translation has
won: it is about to succeed, or has, and the project has left `idea` by its
event; only one event does that (`WinInv`).  `EventsInv` says that the events
are one line that ends in the project's state, so what is on record tells how
far the project is.

`Registers_proofs` proves `PublishedOneCommit` from `PublicationAssumption`:
a run that has not committed is on the baseline, one that has pushes the first
commit, and a record that names a commit names the first one, which is the
contract's own.  And it proves `CapacityIsBacked` from
`CapacityAssumption`: a lease is told from an older one of its request by the
fence (`RowsFenced`), a row ends when its leases do (`LeaseKept`), so a late
release finds another fence and a caller's clock, which is one tick ahead at
most, drops rows only that nobody can rely on; within the limits, the rows that
are left are fewer (`FewerAreLimited`) and one more is what `eligible` admits.

`Sums_proofs` proves what the folds of the community modules return, for any
function of natural numbers on any finite set: the sum is one element's value
plus the sum over the rest, whichever element is taken (`SumSplits`), sums agree
where their functions do (`SumsAgree`), and the sum over a part is no greater
(`SumOfPart`).  An induction over sets cannot be cited, so each lemma takes a
smallest counterexample under strict inclusion, which is well founded on the
subsets of a finite set (`Smallest`).

Only model-checked: liveness, which is out of the prover's reach together with
ENABLED (`QueuedWorkEnds`, `HeldWorkIsReleased`, `DispatchedIsSettled`,
`EveryReplyEnds`).

## 6. Disagreements found

Two are shown by a run:

1. From its second turn on, a conversation's provider is given the last message
   only (`conversation_context`).  The driver remembers DeepSeek's response id
   as a session, finds it for the primary route, which is DeepSeek's, and leaves
   the thread out; DeepSeek's adapter keeps no session and ignores the id.  The
   comment in the driver says the provider already holds the rest.
2. What is committed is not always what was verified (`patch_verified`).  The
   copy that the sandbox verifies is made by `cp()`, which never removes, in a
   directory that is emptied only when the task is created; a file of a
   rejected attempt stays in the copy and is missing from the commit.  The
   comment at `git-patch-applier.ts:64-66` says the two trees are one.

Met while modelling, and described here only.  Work engine, supervisor, gateway:

* Exhaustion is not made explicit.  `lease()` marks an exhausted task
  `budget_blocked` or `failed`, then throws and rolls the mark back
  (`postgres-repository.ts:69-85`).  CONTRACT-004 (`contract.md:53`): "Budget
  exhaustion becomes explicit `budget_blocked` before spending."  Such a task
  can starve others: `runOne()` (`execution-supervisor.ts:155`) looks at the
  first 20 queued tasks by id, and those it cannot lease stay.  20 of them at
  the head, and no other task is ever leased; `QueuedWorkEnds` excepts those
  (`Unleasable`, `Starved`).
* An abort that is delivered before `executeLease()` registers its listener
  (`execution-supervisor.ts:217`) is not forwarded: shutdown then waits for the
  driver's whole run, although the comment at `sequence-main.ts:335-336` says it
  waits for teardown only.  `executeWorker` gets no signal at all.
* A reservation can be lost.  `execute()` awaits `dispatched()` before its try
  (`gateway.ts:108`), so an error there, or a crash around it, leaves the row
  `reserved`; no sweep looks at such rows, and the money stays held.  The
  evidence of CONTRACT-017D (`M1-attempts-always-settle.md:19`) says every path
  settles its attempt.
* A billed answer can be settled as free.  When DeepSeek's stream ends without
  its usage chunk, `usage ?? {}` (`deepseek-adapter.ts:213`) makes an answer
  that used nothing, which is settled as succeeded at cost 0; nothing checks
  that the stream came to its end.  `SettledAsMetered` excepts it.
* A missing request id is not evidence that no call was made: the id is written
  with the settlement, so whatever prevents the settlement leaves NULL.  The
  evidence file M5 of CONTRACT-017D closes attempts as free on that ground, and
  `reconcileUnknownAsFailed()` (`postgres-ledger.ts:321`) is built on it.
* `resolve()` (`gateway.ts:253`) does not look at `absentProviders`, so a request
  without an override goes to a provider that is not there.
* `needs_approval` and `budget_blocked` cannot be entered by the holder of a
  task.  `transition()` writes the new state to `task_attempts.state`, whose
  CHECK (migration 0003, line 9) admits neither, so the transaction aborts; the
  same holds of `fail()` with reason `budget`.  The diagram of
  `docs/SYSTEM-SPECIFICATION.md` and `transitionMap` have both.
* `recordCost()` and the eviction in `lease()` leave attempt rows open; a move
  from `budget_blocked` to `queued` does not look at the budget; `transition()`
  to `retry_wait` sets no `next_attempt_at`; a producer that dies between
  queueing a task and specifying it leaves a task nobody ever selects; the
  comment at `execution-supervisor.ts:127` has `lease()` fail a task of an
  inactive contract, which it does not look at.

Conversations:

* After one rename or archiving the dashboard cannot send in that conversation:
  it takes the number of messages for the version
  (`conversation-workspace.tsx:474`), which those two raise as well
  (`postgres-store.ts:240`, `253`; CONTRACT-014, `contract.md:157`).
* A retried reply is shown as a splice of two attempts.  The clear before an
  attempt removes the rows, but the stream's cursor (`app.ts:979`) and the
  dashboard's text (`conversation-workspace.tsx:369`, `380`) go on; the new
  attempt's fragments up to the old ordinal are dropped.
* A reply whose process dies after the append is retried, refused each time,
  and ends `failed` although its answer is in the thread.
* A reply waits for the version right after its question
  (`owner-commands.ts:296`).  If the owner writes or renames anything first,
  each of its three attempts pays the provider and none can land.
* A command that dies between queueing its reply and specifying it
  (`reply-task.ts:56-83`) leaves a task that no query selects, the cancel
  route's neither.  Sent again, the command makes another task.
* The clears of the fragments before and after an attempt are awaited without
  the bound that `flush()` has (`conversation-reply-driver.ts:278`, `375`), and
  so is every other query of the driver: one that hangs takes the only worker,
  which is what the comment at `reply-chunks.ts:68-77` says must not be.
* A cancelled reply whose attempt is past its provider call is still appended;
  a message whose process dies before the task is queued
  (`owner-commands.ts:293`) gets no reply; fragments stay behind when the clear
  after a success fails, although migration 0014 says that only a task that
  failed for good leaves any.
* The page takes what it awaited in one conversation for the one that is open
  when the answer comes (`refreshMessages`, `sendDraft`, `pollReply`,
  `pollTranslation`), raises a proposal's version by one although an approval
  with its hand-off raises it by two, and lets a late `onDone` end the waiting
  for another reply.

Telegram:

* `commit()` of the offset is outside the try in `pollOnce()`, so a failure is
  an unhandled rejection that ends the process; the comment near
  `sequence-main.ts:392` says `pollOnce` never throws.
* A crash between a decision and the edit of its message leaves live buttons,
  which nothing strips; the second tap is answered "replayed".
* A message is lost if the version moves between the lookup and the append
  (`conversation-handler.ts:108`, `132`), and stored twice if its update is
  fetched again, as its key is random (`136`).  A caption is ignored, although
  the comment at `128-129` mentions it.
* The answer sent for a reply is the conversation's latest, which may be that
  of another question; a report is lost if the process dies after `complete()`.
* A failed `usageFor()` is swallowed (`run-notifier.ts:661`), so the report of a
  failed run says "No provider call was made, nothing was charged" although
  there are rows, and one of a success names no provider.  `EndsAreTold` excepts
  a spend that could not be read.
* A failed reply gets a report, but its sticker stays.

Policy and patches:

* `nextStaticTier()` counts attempts without a verdict by the ordinal and skips
  a tier for every two of them, so timeouts alone lead past DeepSeek, and Claude
  is asked before Codex has a verdict, although
  `execution-permission.ts:45-50` says "never a shortcut past Codex" and
  `model-policy.ts:9-10` "never a bare retry count".
* The list of models is read anew by every attempt, without the providers its
  process has found absent, which it forgets when it ends (`gateway.ts:45`,
  `227-231`); a list or rows that cannot be read count as empty.  The number of
  tiers to skip is counted over the attempts, whichever lists they saw, so when
  a tier comes or goes the chain skips one that can be had and was never asked,
  against the same two comments.  `TiersInOrder` excludes it with `steady`.
* The verdict of an attempt that outlived its lease is accepted, and takes its
  tier out of the list after others were skipped on its account.  In the chain
  of four tiers (two of DeepSeek, Codex, Claude) two late verdicts lead the
  fifth attempt to Claude although Codex was never asked.  `TiersInOrder`
  excludes it with `stalled`.
* An attempt that throws or dies after `apply` leaves its files in the
  repository: the next patch that creates one of them fails, and a next commit
  takes them along (after they were verified with it: `OnlyVerifiedIsCommitted`).
* A patch that was committed, whose artifact row or hook fails, fails the
  attempt; the next attempt finds its own work there.
* A process that stalled past its lease shares the repository and the copy with
  its successor, and either may commit what the other is verifying; the
  properties exclude it with `stalled`.
* A rejection's reason above 2000 characters violates its column's CHECK, and
  the attempt ends without a verdict.  `createCodexOverride()` stores an event
  that no decision of an attempt reads.

Projects:

* A `draftProposal()` sent again is always refused: the random id is part of
  the hashed intent.  The branch for a draft in `owner_review` is dead, and a
  draft whose request died before its review cannot be put to review.
* `approveProposal()` that dies before the hand-off leaves `approved` for ever,
  although the comment at `owner-commands.ts:353-356` says a single click does
  both; approving again is refused.
* A translation that attached its blueprint and could not take the project on
  is never repaired: its retries fail as stale, and the project stays an idea
  with a derived blueprint.
* Each request makes a task, so two generations patch one repository, and the
  second request empties the directory the first one's attempt verifies in
  (`generation-task.ts:326`).
* A provisioning that dies after `git init` looks complete to the next request
  (`workspace-provisioner.ts:38`): there is no install and no first commit.
  The comment near line 114 has the check find a whole workspace.
* `generate()` uses the project and blueprint it read before the provisioning;
  a hook that fails after its commit fails the attempt.
* No project can be exported: the transition needs an approval nobody passes
  (the comment at `app.ts:613-615`); the route answers `exported` for a deleted
  one.
* A capacity request that waited and is presented again is refused, because
  the time it was queued is part of what is compared.
* `classified` to `rejected` is in the attachments' transitions and aborted by
  the table's CHECK; an upload that dies stays `quarantined`.

## 7. Plan

Done: `TaskStates`, `FencedWork`, `WorkRepository`, `Supervisor`,
`BudgetEscrow`, `GatewayLedger`, `ConversationThread`, `ReplyPipeline`,
`Approvals`, `RunReports`, `TelegramChat`, `Routing`, `PolicyStore`,
`PatchTask`, `Proposals`, `ProjectFactory`, `FactoryLine`, `Capacity`,
`Publication`, and proofs of all that keep state.

Next, in this order:

1. `PatchTask` for two tasks of one project, which share the repository and its
   directories, with the provisioning of `FactoryLine` beside them.
2. The composition of `Supervisor` with `GatewayLedger`: what the death of an
   attempt means for its reservations.
3. The dashboard's own order of requests and answers, if a document comes to
   state what the page promises.

## 8. Not modelled, and why

* The in-memory engine, ledger, stores and approval repository: second
  implementations that only tests construct.
* The dashboard, apart from the commands it sends and the reply it follows:
  display, forms, and the order of its own requests (section 6).
* The worker sandbox apart from its verdict, the provider adapters' formats,
  validation of blueprints, paths and configuration, wording of messages:
  input and output, or data no other component's control depends on.
* Incidents, telemetry, backups, retention, snapshots, sessions and settings of
  the control API, drills and tools: they read, or write one row.
* Knowledge: single guarded statements and short transactions that no caller
  outside of the tests makes.  The catalogue in memory shares no item with the
  repository, and what either retrieves is decided by a text search.
* Context manifests, which are computed and never read back;
  `SequenceSupervisor.cycle` and `runTask()`, which have no production caller.

PostgreSQL's isolation within one method is taken as serial: two transactions
on the same rows block each other by row locks (`FOR UPDATE`, unique keys), and
the anomalies READ COMMITTED admits between statements of one method are not
explored.  Time is a count of ticks; no property depends on how long one is.
