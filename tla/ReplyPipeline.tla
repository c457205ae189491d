---------------------------- MODULE ReplyPipeline ----------------------------
(***************************************************************************)
(* One conversation, from the owner's message to the assistant's answer:   *)
(* the optimistic version and the idempotent messages of the store         *)
(* (orchestrator/postgres-store.ts), the owner's commands from several     *)
(* tabs of the dashboard and from Telegram (operations/owner-commands.ts), *)
(* the reply tasks they queue (orchestrator/reply-task.ts) and the driver  *)
(* that runs each attempt of one (operations/conversation-reply-driver.ts) *)
(* with its provider session and its progress fragments, which the         *)
(* dashboard shows as they arrive.                                         *)
(*                                                                         *)
(* Every database call is one action.  The queue is the engine of modules  *)
(* WorkRepository and Supervisor, reduced to what a driver can notice: a   *)
(* process runs one attempt at a time, unless it stalled past its lease    *)
(* and was replaced; then its attempt goes on beside the next one.         *)
(***************************************************************************)
EXTENDS Naturals, Sequences, FiniteSets

CONSTANTS
    Keys,           \* idempotency keys of the owner's messages
    Watched,        \* those whose dashboard stays open to watch the reply
    MaxReplies,     \* bound on the reply tasks
    MaxAttempts,    \* maxAttempts of a reply task
    MaxFragments,   \* bound on the fragments one attempt streams
    MaxExtras,      \* bound on renamings, archivings and repeated commands
    MaxFaults       \* bound on crashes, stalls, stops, calls that hang or fail

ASSUME ReplyAssumption ==
    /\ Watched \subseteq Keys
    /\ MaxReplies \in Nat
    /\ MaxAttempts \in Nat \ {0}
    /\ {MaxFragments, MaxExtras, MaxFaults} \subseteq Nat

VARIABLES
    version,        \* conversations.version
    thread,         \* conversation_messages, in their order
    command,        \* the owner's messages under way, by key
    task,           \* reply tasks
    run,            \* their attempts, as the driver goes through them
    session,        \* is there a session row for the primary provider?
    chunks,         \* conversation_reply_chunks
    stream,         \* the reply the dashboard shows as it is written
    stopped,        \* factory_controls.emergency_stopped
    extras, faults

store == <<version, thread>>
progress == <<chunks, stream>>
bounds == <<stopped, extras, faults>>
vars == <<store, command, task, run, session, progress, bounds>>

Replies == 1..MaxReplies
Attempts == 1..MaxAttempts

(* A message: a question has task 0; an answer has its task, and read      *)
(* counts the messages its author had read.                                *)
Message == [ordinal : Nat \ {0}, key : Keys, task : {0} \cup Replies,
            read : Nat]

CommandState == {"idle", "sent", "appended", "submitted", "queued", "done",
                 "refused", "lost"}

(* A task that is queued without an operation_task_specs row is            *)
(* "unspecified": no query of a worker or of the cancel route selects it.  *)
TaskState == {"none", "draft", "unspecified", "queued", "running",
              "retry_wait", "succeeded", "failed", "cancelled"}
Terminal == {"succeeded", "failed", "cancelled"}

NoTask == [state |-> "none", n |-> 0, key |-> "none", expected |-> 0,
           degraded |-> FALSE]

(* A reply task: the message it answers, the version it expects to find,   *)
(* fixed for all its attempts, the attempts begun so far, and whether its  *)
(* progress suffered: a clear failed, a write was given up, a process      *)
(* stalled.                                                                *)
Task == [state : TaskState \ {"none"}, n : {0} \cup Attempts, key : Keys,
         expected : Nat \ {0}, degraded : BOOLEAN]

(* Where the driver is: the database call, or the provider's, it is in.    *)
Driving == {"history", "session", "clear", "provider", "forget", "flush",
            "remember", "append", "tidy", "returned", "threw"}

NoRun == [pc |-> "none", read |-> 0, resume |-> FALSE, ok |-> FALSE,
          stalled |-> FALSE, hung |-> FALSE, pushed |-> 0, written |-> 0]

(* An attempt: its driver, whether its process stalled past the lease or   *)
(* waits for a call that never ends, and its writer, which may have writes *)
(* left when the driver is gone.                                           *)
Run == [pc : Driving \cup {"none"}, read : Nat, resume : BOOLEAN, ok : BOOLEAN,
        stalled : BOOLEAN, hung : BOOLEAN,
        pushed : 0..MaxFragments, written : 0..MaxFragments]

Left(x) == IF x.written = x.pushed THEN NoRun
           ELSE [NoRun EXCEPT !.pushed = x.pushed, !.written = x.written]

Chunk == [task : Replies, ordinal : 1..MaxFragments, by : Attempts]

(* The one reply the dashboard follows, the last fragment it has, and the  *)
(* attempts whose fragments it shows.                                      *)
NoStream == [task |-> 0, cursor |-> 0, shown |-> {}]

Init ==
    /\ version = 0
    /\ thread = <<>>
    /\ command = [k \in Keys |-> [pc |-> "idle", expected |-> 0, from |-> "none"]]
    /\ task = [r \in Replies |-> NoTask]
    /\ run = [r \in Replies |-> [n \in Attempts |-> NoRun]]
    /\ session = FALSE
    /\ chunks = {}
    /\ stream = NoStream
    /\ stopped = FALSE
    /\ extras = 0 /\ faults = 0

-----------------------------------------------------------------------------
(* The store.                                                              *)

Stored(k) == \E i \in DOMAIN thread : thread[i].key = k /\ thread[i].task = 0
Answered(r) == \E i \in DOMAIN thread : thread[i].task = r

(* Fault: the update refuses only a version that does not exist yet.       *)
FreshOrOlder(expected) == version >= expected

(* appendMessage() of a key that was not used: the version must be the one *)
(* expected, and the new one is the message's ordinal.                     *)
Fresh(expected) == version = expected

Appended(k, r, read) ==
    /\ version' = version + 1
    /\ thread' = Append(thread,
                  [ordinal |-> version + 1, key |-> k, task |-> r, read |-> read])

Extra == extras < MaxExtras /\ extras' = extras + 1
Fault == faults < MaxFaults /\ faults' = faults + 1

(* renameConversation(), setConversationArchived(): a stale one changes    *)
(* nothing.                                                                *)
Edit ==
    /\ Extra
    /\ version' = version + 1
    /\ UNCHANGED <<thread, command, task, run, session, progress, stopped, faults>>

-----------------------------------------------------------------------------
(* The owner's messages.                                                   *)

(* The version a client sends along.  A dashboard takes the number of      *)
(* messages it shows, the Telegram handler looks the version up; each may  *)
(* be out of date when the command arrives.                                *)
ExpectedBy(from) == IF from = "dashboard" THEN Len(thread) ELSE version

Compose(k, from) ==
    /\ command[k].pc = "idle"
    /\ command' = [command EXCEPT ![k] =
                     [pc |-> "sent", expected |-> ExpectedBy(from), from |-> from]]
    /\ UNCHANGED <<store, task, run, session, progress, bounds>>

(* A client that did not hear the result presents the command again.       *)
Resend(k) ==
    /\ Extra
    /\ command[k].pc \in {"done", "lost"}
    /\ command' = [command EXCEPT ![k].pc = "sent"]
    /\ UNCHANGED <<store, task, run, session, progress, stopped, faults>>

(* sendMessage(): appendMessage(), which returns the stored message when   *)
(* the key was used.                                                       *)
SendMessage(k) ==
    /\ command[k].pc = "sent"
    /\ \/ /\ Stored(k)
          /\ command' = [command EXCEPT ![k].pc = "appended"]
          /\ UNCHANGED <<store>>
       \/ /\ ~Stored(k) /\ Fresh(command[k].expected)
          /\ Appended(k, 0, 0)
          /\ command' = [command EXCEPT ![k].pc = "appended"]
       \/ /\ ~Stored(k) /\ ~Fresh(command[k].expected)
          /\ command' = [command EXCEPT ![k].pc = "refused"]
          /\ UNCHANGED <<store>>
    /\ UNCHANGED <<task, run, session, progress, bounds>>

(* queueConversationReply(), after the append and for a replay too: the    *)
(* task is submitted under a key of its own, ...                           *)
QueueReply(k, r) ==
    /\ command[k].pc = "appended"
    /\ task[r] = NoTask
    /\ \A q \in 1..(r - 1) : task[q] # NoTask
    /\ task' = [task EXCEPT ![r] = [state |-> "draft", n |-> 0, key |-> k,
                                    expected |-> command[k].expected + 1,
                                    degraded |-> FALSE]]
    /\ command' = [command EXCEPT ![k].pc = "submitted"]
    /\ UNCHANGED <<store, run, session, progress, bounds>>

(* The task the command of k has submitted: those before it were left      *)
(* behind, or are under way.                                               *)
Newest(k, r) == /\ task[r].key = k
                /\ \A q \in Replies : task[q].key = k => q <= r

(* ... moved to the queue, ...                                             *)
Enqueue(k, r) ==
    /\ command[k].pc = "submitted"
    /\ Newest(k, r) /\ task[r].state = "draft"
    /\ task' = [task EXCEPT ![r].state = "unspecified"]
    /\ command' = [command EXCEPT ![k].pc = "queued"]
    /\ UNCHANGED <<store, run, session, progress, bounds>>

(* ... and specified.  A dashboard then follows the reply.                 *)
Specify(k, r) ==
    /\ command[k].pc = "queued"
    /\ Newest(k, r) /\ task[r].state = "unspecified"
    /\ task' = [task EXCEPT ![r].state = "queued"]
    /\ command' = [command EXCEPT ![k].pc = "done", ![k].from = "none"]
    /\ stream' = IF command[k].from = "dashboard" /\ k \in Watched
                 THEN [NoStream EXCEPT !.task = r] ELSE stream
    /\ UNCHANGED <<store, run, session, chunks, bounds>>

(* Fault: the process dies, or a write fails, between the append and the   *)
(* specification.                                                          *)
CommandDies(k) ==
    /\ command[k].pc \in {"appended", "submitted", "queued"}
    /\ command' = [command EXCEPT ![k].pc = "lost"]
    /\ Fault
    /\ UNCHANGED <<store, task, run, session, progress, stopped, extras>>

-----------------------------------------------------------------------------
(* The queue, as a driver notices it.                                      *)

Degraded(r) == [task EXCEPT ![r].degraded = TRUE]

Busy == \E r \in Replies, n \in Attempts :
            run[r][n].pc \in Driving /\ ~run[r][n].stalled

Held(r, n) == /\ task[r].state = "running" /\ task[r].n = n
              /\ ~run[r][n].stalled

AfterFailure(r) == IF task[r].n < MaxAttempts THEN "retry_wait" ELSE "failed"

(* A retry comes due and is promoted on the way.  lease() refuses a stop   *)
(* and a task without attempts left; the budgets it looks at are those     *)
(* recordCost() charges, which no program calls.                           *)
Lease(r) ==
    /\ ~Busy
    /\ ~stopped
    /\ task[r].state \in {"queued", "retry_wait"}
    /\ task[r].n < MaxAttempts
    /\ task' = [task EXCEPT ![r].state = "running", ![r].n = @ + 1]
    /\ run' = [run EXCEPT ![r][task[r].n + 1].pc = "history"]
    /\ UNCHANGED <<store, command, session, progress, bounds>>

(* executeLease() after the driver returned or threw; the engine refuses   *)
(* an attempt that lost its lease.                                         *)
Settle(r, n) ==
    /\ run[r][n].pc \in {"returned", "threw"}
    /\ run' = [run EXCEPT ![r][n] = Left(@)]
    /\ task' = IF ~Held(r, n) THEN task
               ELSE [task EXCEPT ![r].state =
                       IF run[r][n].pc = "returned" THEN "succeeded"
                       ELSE AfterFailure(r)]
    /\ UNCHANGED <<store, command, session, progress, bounds>>

(* reclaimExpired(): the process is gone, or stalled past its lease.       *)
Reclaim(r) ==
    /\ task[r].state = "running"
    /\ LET x == run[r][task[r].n] IN x.pc = "none" \/ x.stalled
    /\ task' = [task EXCEPT ![r].state = AfterFailure(r)]
    /\ UNCHANGED <<store, command, run, session, progress, bounds>>

(* The owner stops the reply.  Its attempt may be past stopping.           *)
Cancel(r) ==
    /\ task[r].state \in {"queued", "running", "retry_wait"}
    /\ task' = [task EXCEPT ![r].state = "cancelled"]
    /\ UNCHANGED <<store, command, run, session, progress, bounds>>

(* setEmergencyStop(): what is held goes back to the queue, whatever       *)
(* attempts it has left; its driver notices later.                         *)
EmergencyStop ==
    /\ ~stopped /\ stopped' = TRUE
    /\ task' = [r \in Replies |-> IF task[r].state = "running"
                                  THEN [task[r] EXCEPT !.state = "queued"]
                                  ELSE task[r]]
    /\ Fault
    /\ UNCHANGED <<store, command, run, session, progress, extras>>

Resume ==
    /\ stopped /\ stopped' = FALSE
    /\ UNCHANGED <<store, command, task, run, session, progress, extras, faults>>

(* Faults: the process of an attempt dies, with its writes, or stalls and  *)
(* is replaced.                                                            *)
Crash(r, n) ==
    /\ run[r][n].pc \in Driving
    /\ run' = [run EXCEPT ![r][n] = NoRun]
    /\ Fault
    /\ UNCHANGED <<store, command, task, session, progress, stopped, extras>>

Stall(r, n) ==
    /\ run[r][n].pc \in Driving /\ ~run[r][n].stalled
    /\ run' = [run EXCEPT ![r][n].stalled = TRUE]
    /\ task' = Degraded(r)
    /\ Fault
    /\ UNCHANGED <<store, command, session, progress, stopped, extras>>

(* Fault: a database call never ends; the pool sets no limit.  The timers  *)
(* go on, and with them the lease.                                         *)
Hang(r, n) ==
    /\ run[r][n].pc \in Driving \ {"provider", "flush"} /\ ~run[r][n].hung
    /\ run' = [run EXCEPT ![r][n].hung = TRUE]
    /\ Fault
    /\ UNCHANGED <<store, command, task, session, progress, stopped, extras>>

-----------------------------------------------------------------------------
(* execute() of the driver, attempt n of task r; what it remembers is      *)
(* dropped after its last use.                                             *)

At(r, n, label) == run[r][n].pc = label

Becomes(r, n, x) == run' = [run EXCEPT ![r][n] = x]

Goto(r, n, label) == Becomes(r, n, [run[r][n] EXCEPT !.pc = label])

ReadHistory(r, n) ==
    /\ At(r, n, "history")
    /\ Becomes(r, n, [run[r][n] EXCEPT !.pc = "session", !.read = Len(thread)])
    /\ UNCHANGED <<store, command, task, session, progress, bounds>>

(* The session of the primary provider; a read that fails is a miss.       *)
FindSession(r, n) ==
    /\ At(r, n, "session")
    /\ \E found \in {session, FALSE} :
          Becomes(r, n, [run[r][n] EXCEPT !.pc = "clear", !.resume = found])
    /\ UNCHANGED <<store, command, task, session, progress, bounds>>

(* What the provider is given of the messages read.  The primary provider, *)
(* a stateless HTTP interface, ignores the session id it is passed.        *)
Given(x) == IF x.resume /\ x.read > 0 THEN 1 ELSE x.read

(* Fault: nothing is cleared. *)
AllChunks(r) == chunks

OthersChunks(r) == {c \in chunks : c.task # r}

(* Progress an earlier attempt of the task left behind is cleared; that it *)
(* failed is swallowed.                                                    *)
ClearStale(r, n) ==
    /\ At(r, n, "clear")
    /\ Goto(r, n, "provider")
    /\ \/ chunks' = OthersChunks(r) /\ UNCHANGED <<task, faults>>
       \/ Fault /\ task' = Degraded(r) /\ UNCHANGED chunks
    /\ UNCHANGED <<store, command, session, stream, stopped, extras>>

(* While the provider streams, drain() queues a fragment under the next    *)
(* ordinal of the attempt's writer.                                        *)
Push(r, n) ==
    /\ At(r, n, "provider")
    /\ run[r][n].pushed < MaxFragments
    /\ run' = [run EXCEPT ![r][n].pushed = @ + 1]
    /\ UNCHANGED <<store, command, task, session, progress, bounds>>

(* The fragment n of r writes next, one at a time and in their order.      *)
Writing(r, n) ==
    /\ run[r][n].written < run[r][n].pushed
    /\ LET x == [run[r][n] EXCEPT !.written = @ + 1]
       IN  Becomes(r, n, IF x.pc = "none" THEN Left(x) ELSE x)

Inserted(c) ==
    IF \E d \in chunks : d.task = c.task /\ d.ordinal = c.ordinal
      THEN chunks ELSE chunks \cup {c}

WriteLands(r, n) ==
    /\ Writing(r, n)
    /\ chunks' = Inserted([task |-> r, ordinal |-> run[r][n].written + 1, by |-> n])
    /\ UNCHANGED <<store, command, task, session, stream, bounds>>

WriteFails(r, n) ==
    /\ Writing(r, n)
    /\ Fault
    /\ UNCHANGED <<store, command, task, session, progress, stopped, extras>>

(* gateway.execute() resolves, or rejects: the provider failed, the ledger *)
(* refused, or the attempt was aborted.                                    *)
ProviderAnswers(r, n) ==
    /\ At(r, n, "provider")
    /\ Becomes(r, n, [run[r][n] EXCEPT !.pc = "flush", !.ok = TRUE,
                                       !.resume = FALSE])
    /\ UNCHANGED <<store, command, task, session, progress, bounds>>

ProviderFails(r, n) ==
    /\ At(r, n, "provider")
    /\ Becomes(r, n, [run[r][n] EXCEPT
                         !.pc = IF run[r][n].resume THEN "forget" ELSE "flush",
                         !.resume = FALSE, !.read = 0])
    /\ UNCHANGED <<store, command, task, session, progress, bounds>>

(* A resume that failed drops the session; a failed delete is swallowed.   *)
Forget(r, n) ==
    /\ At(r, n, "forget")
    /\ Goto(r, n, "flush")
    /\ \/ session' = FALSE /\ UNCHANGED faults
       \/ Fault /\ UNCHANGED session
    /\ UNCHANGED <<store, command, task, progress, stopped, extras>>

(* Fault: flush() waits for a write that hangs as long as it takes.        *)
NeverGivesUp == FALSE

(* flush() waits for the writes that are queued, but not for ever.         *)
MayGiveUp == TRUE

Flush(r, n) ==
    /\ At(r, n, "flush")
    /\ LET x == run[r][n]  late == x.written < x.pushed IN
         /\ late => MayGiveUp
         /\ Becomes(r, n, [x EXCEPT !.pc = IF x.ok THEN "remember" ELSE "threw",
                                    !.ok = FALSE])
         /\ task' = IF late THEN Degraded(r) ELSE task
    /\ UNCHANGED <<store, command, session, progress, bounds>>

(* The session row of the provider that answered.  It is another's than    *)
(* the primary one's, or the write fails: then this one stays.             *)
Remember(r, n) ==
    /\ At(r, n, "remember")
    /\ session' \in {TRUE, session}
    /\ Goto(r, n, "append")
    /\ UNCHANGED <<store, command, task, progress, bounds>>

(* Fault: the driver takes the version of the moment, not the task's.      *)
TimelyAtLatest(r) == TRUE

Timely(r) == Fresh(task[r].expected)

(* Fault: a refused append is swallowed, as the other failures are.        *)
Swallowed == "tidy"

Refusal == "threw"

(* appendMessage() under the task's key.  The answer another attempt put   *)
(* there is a different intent (its content, its time): refused.           *)
AppendAnswer(r, n) ==
    /\ At(r, n, "append")
    /\ LET x == [run[r][n] EXCEPT !.read = 0] IN
         \/ /\ ~Answered(r) /\ Timely(r)
            /\ Appended(task[r].key, r, run[r][n].read)
            /\ Becomes(r, n, [x EXCEPT !.pc = "tidy"])
         \/ /\ Answered(r) \/ ~Timely(r)
            /\ Becomes(r, n, [x EXCEPT !.pc = Refusal])
            /\ UNCHANGED <<store>>
    /\ UNCHANGED <<command, task, session, progress, bounds>>

Tidy(r, n) ==
    /\ At(r, n, "tidy")
    /\ Goto(r, n, "returned")
    /\ \/ chunks' = OthersChunks(r) /\ UNCHANGED faults
       \/ Fault /\ UNCHANGED chunks
    /\ UNCHANGED <<store, command, task, session, stream, stopped, extras>>

(* The dashboard adds the fragments after the last ordinal it has, until   *)
(* the task has ended.                                                     *)
Unseen == {c \in chunks : c.task = stream.task /\ c.ordinal > stream.cursor}

ShowStream ==
    /\ \E last \in Unseen :
         /\ \A c \in Unseen : c.ordinal <= last.ordinal
         /\ stream' = [stream EXCEPT !.cursor = last.ordinal,
                                     !.shown = @ \cup {c.by : c \in Unseen}]
    /\ UNCHANGED <<store, command, task, run, session, chunks, bounds>>

EndStream ==
    /\ stream.task # 0 /\ task[stream.task].state \in Terminal
    /\ stream' = NoStream
    /\ UNCHANGED <<store, command, task, run, session, chunks, bounds>>

-----------------------------------------------------------------------------
OwnerStep ==
    \/ Edit
    \/ \E k \in Keys : \/ \E from \in {"dashboard", "telegram"} : Compose(k, from)
                       \/ Resend(k) \/ SendMessage(k) \/ CommandDies(k)
                       \/ \E r \in Replies :
                            QueueReply(k, r) \/ Enqueue(k, r) \/ Specify(k, r)
    \/ \E r \in Replies : Cancel(r)
    \/ EmergencyStop \/ Resume
    \/ ShowStream \/ EndStream

(* The steps of a driver, and of the engine around it.                     *)
DriverStep(r, n) ==
    /\ ~run[r][n].hung
    /\ \/ ReadHistory(r, n) \/ FindSession(r, n) \/ ClearStale(r, n)
       \/ ProviderAnswers(r, n) \/ ProviderFails(r, n) \/ Forget(r, n)
       \/ Flush(r, n) \/ Remember(r, n) \/ AppendAnswer(r, n) \/ Tidy(r, n)
       \/ Settle(r, n)

WriterStep(r, n) == Push(r, n) \/ WriteLands(r, n) \/ WriteFails(r, n)

QueueStep == \E r \in Replies : Lease(r) \/ Reclaim(r)

Next ==
    \/ OwnerStep
    \/ QueueStep
    \/ \E r \in Replies, n \in Attempts :
          \/ DriverStep(r, n) \/ WriterStep(r, n)
          \/ Crash(r, n) \/ Stall(r, n) \/ Hang(r, n)

Spec == Init /\ [][Next]_vars

(* The service manager restarts the worker; a driver's calls end, unless   *)
(* one hangs, provider calls by their timeouts.  Nothing is promised of    *)
(* the owner, the stream or the progress writes.                           *)
Fairness == WF_vars(QueueStep \/ \E r \in Replies, n \in Attempts : DriverStep(r, n))

FairSpec == Spec /\ Fairness

-----------------------------------------------------------------------------
(* Rows and drivers stay within the schema and the bounds. *)
TypeOK ==
    /\ version \in Nat
    /\ thread \in Seq(Message)
    /\ command \in [Keys -> [pc : CommandState, expected : Nat,
                             from : {"none", "dashboard", "telegram"}]]
    /\ task \in [Replies -> Task \cup {NoTask}]
    /\ run \in [Replies -> [Attempts -> Run]]
    /\ session \in BOOLEAN
    /\ chunks \subseteq Chunk
    /\ stream \in [task : {0} \cup Replies, cursor : 0..MaxFragments,
                   shown : SUBSET Attempts]
    /\ stopped \in BOOLEAN
    /\ {extras, faults} \subseteq Nat

(* An answer was written by an attempt that had read the whole thread up   *)
(* to it, whatever was sent, renamed, retried or answered while the        *)
(* provider was working: the history is read minutes before the append,    *)
(* and only the version the task carries relates the two.                  *)
AnswerSawTheThread ==
    \A i \in DOMAIN thread :
        thread[i].task # 0 => thread[i].read = i - 1

(* A task that succeeded has put its answer into the thread.  (The         *)
(* converse fails: a task whose process dies between the append and the    *)
(* verdict is retried, refused, and ends failed.)                          *)
SucceededIsAnswered ==
    \A r \in Replies : task[r].state = "succeeded" => Answered(r)

(* Fragments of two attempts of a task are stored together only if a clear *)
(* of the task failed, a write was given up, or a process stalled past its *)
(* lease and went on streaming.                                            *)
FragmentsOfOneAttempt ==
    \A c, d \in chunks :
        c.task = d.task /\ c.by # d.by => task[c.task].degraded

(* The pipeline implements the abstract conversation: an answer comes      *)
(* right after its question and at most once, although a message may be    *)
(* presented again and queue a second task, and a stalled attempt may      *)
(* finish beside its successor.                                            *)
Messages == [i \in DOMAIN thread |->
               [ordinal |-> thread[i].ordinal, of |-> thread[i].key,
                role |-> IF thread[i].task = 0 THEN "owner" ELSE "assistant"]]

Abstract == INSTANCE ConversationThread WITH Questions <- Keys, messages <- Messages

ImplementsThread == Abstract!ThreadSpec

(* The one worker waits for a call that never ends.                        *)
Wedged == \E r \in Replies, n \in Attempts :
              run[r][n].hung /\ ~run[r][n].stalled

(* A stop sent the reply back to the queue out of its last attempt.        *)
UsedUp(r) == task[r].state = "queued" /\ task[r].n = MaxAttempts

(* Every reply that is queued with its specification ends, unless from     *)
(* some time on the factory stays stopped, a call of the driver hangs, or  *)
(* a stop used the reply up.  No progress write keeps the worker: however  *)
(* many of them hang, in whatever attempt, the driver goes on.             *)
EveryReplyEnds ==
    \A r \in Replies :
        task[r].state = "queued"
            ~> \/ task[r].state \in Terminal
               \/ [](stopped \/ Wedged \/ UsedUp(r))

-----------------------------------------------------------------------------
(* What the repository says, and the code does not keep.                   *)

(* A provider that is asked for an answer has been given the whole thread  *)
(* ("the provider already holds everything before the last owner message", *)
(* conversation-reply-driver.ts).                                          *)
ProviderHasTheThread ==
    \A r \in Replies, n \in Attempts :
        At(r, n, "provider") => Given(run[r][n]) = run[r][n].read

=============================================================================
