------------------------ MODULE ReplyPipeline_proofs ------------------------
(***************************************************************************)
(* The conversation is safe for every choice of the constants: an answer   *)
(* saw the whole thread, a task that succeeded is answered, and the        *)
(* pipeline implements ConversationThread.  PipelineInv relates the        *)
(* version, which is what the store compares, to what a driver has read.   *)
(***************************************************************************)
EXTENDS ReplyPipeline, SequenceTheorems, TLAPS

USE ReplyAssumption DEF ReplyAssumption

(* Ordinals ascend, up to the version.                                     *)
InOrder ==
    \A i \in DOMAIN thread :
        /\ thread[i].ordinal <= version
        /\ \A j \in DOMAIN thread : j < i => thread[j].ordinal < thread[i].ordinal

(* Message i is the owner's question k, which made the version what it was.*)
AskedAt(i, k, ordinal) ==
    /\ thread[i].task = 0
    /\ thread[i].key = k
    /\ thread[i].ordinal = ordinal

(* A command in one of these states has its message in the thread.         *)
Through == {"appended", "submitted", "queued", "done", "lost"}

(* Every message is a question, or has its question in the thread; so has  *)
(* every command that went through, and every task.                        *)
QuestionsKept ==
    /\ \A i \in DOMAIN thread :
         LET k == thread[i].key IN
         /\ Stored(k)
         /\ thread[i].task = 0 => /\ command[k].pc # "idle"
                                  /\ thread[i].ordinal = command[k].expected + 1
    /\ \A k \in Keys : command[k].pc \in Through => Stored(k)
    /\ \A r \in Replies :
         task[r] # NoTask =>
            \E i \in DOMAIN thread : AskedAt(i, task[r].key, task[r].expected)

(* Attempts are begun one after the other.                                 *)
AttemptsCounted ==
    \A r \in Replies, n \in Attempts : n > task[r].n => run[r][n] = NoRun

(* The driver holds the history it read and is to use it still.            *)
Informed(x) == \/ x.pc \in {"session", "clear", "provider", "remember", "append"}
               \/ x.pc = "flush" /\ x.ok

(* As long as the version is the task's, what a driver read is the thread. *)
RunSound(r, n) ==
    /\ run[r][n].ok => run[r][n].pc = "flush"
    /\ Informed(run[r][n]) /\ version = task[r].expected => run[r][n].read = Len(thread)
    /\ run[r][n].pc \in {"tidy", "returned"} => Answered(r)

RunsSound == \A r \in Replies, n \in Attempts : RunSound(r, n)

PipelineInv ==
    /\ TypeOK
    /\ InOrder
    /\ QuestionsKept
    /\ AttemptsCounted
    /\ RunsSound
    /\ AnswerSawTheThread
    /\ SucceededIsAnswered

-----------------------------------------------------------------------------
(* Types.                                                                  *)

CommandRow == [pc : CommandState, expected : Nat,
               from : {"none", "dashboard", "telegram"}]

(* An attempt that changes its own record leaves the others typed.         *)
LEMMA RunsTyped ==
    ASSUME run \in [Replies -> [Attempts -> Run]],
           NEW r \in Replies, NEW n \in Attempts, NEW x \in Run,
           Becomes(r, n, x)
    PROVE  run' \in [Replies -> [Attempts -> Run]]
  BY DEF Becomes

(* The ways a driver changes its own record, all within the type.          *)
LEMMA Gone ==
    ASSUME NEW x \in Run, NEW label \in Driving
    PROVE  [x EXCEPT !.pc = label] \in Run
  BY DEF Run, Driving

(* What a driver that ends leaves behind.                                  *)
LEMMA LeftTyped ==
    ASSUME NEW x \in Run
    PROVE  Left(x) \in Run /\ NoRun \in Run
<1>1. MaxFragments \in Nat
  OBVIOUS
<1>2. NoRun \in Run
  BY <1>1 DEF Run, NoRun
<1>3. [NoRun EXCEPT !.pushed = x.pushed, !.written = x.written] \in Run
  BY <1>2 DEF Run
<1> QED
  BY <1>2, <1>3 DEF Left

(* Every step of a driver leaves a typed record.                           *)
LEMMA DriverTyped ==
    ASSUME run \in [Replies -> [Attempts -> Run]], thread \in Seq(Message),
           session \in BOOLEAN,
           NEW r \in Replies, NEW n \in Attempts,
           DriverStep(r, n)
    PROVE  run' \in [Replies -> [Attempts -> Run]]
<1>1. run[r][n] \in Run
  OBVIOUS
<1>2. Len(thread) \in Nat
  OBVIOUS
<1>3. ASSUME NEW label \in Driving, Goto(r, n, label)
      PROVE  run' \in [Replies -> [Attempts -> Run]]
  BY <1>1, <1>3, Gone, RunsTyped DEF Goto
<1>4. CASE ReadHistory(r, n)
  <2>1. [run[r][n] EXCEPT !.pc = "session", !.read = Len(thread)] \in Run
    BY <1>1, <1>2 DEF Run, Driving
  <2> QED  BY <1>4, <2>1, RunsTyped DEF ReadHistory
<1>5. CASE FindSession(r, n)
  <2>1. \A found \in BOOLEAN :
           [run[r][n] EXCEPT !.pc = "clear", !.resume = found] \in Run
    BY <1>1 DEF Run, Driving
  <2> QED  BY <1>5, <2>1, RunsTyped DEF FindSession
<1>6. CASE ClearStale(r, n)
  BY <1>6, <1>3 DEF ClearStale, Driving
<1>7. CASE ProviderAnswers(r, n)
  <2>1. [run[r][n] EXCEPT !.pc = "flush", !.ok = TRUE, !.resume = FALSE] \in Run
    BY <1>1 DEF Run, Driving
  <2> QED  BY <1>7, <2>1, RunsTyped DEF ProviderAnswers
<1>8. CASE ProviderFails(r, n)
  <2>1. \A pc \in {"forget", "flush"} :
           [run[r][n] EXCEPT !.pc = pc, !.resume = FALSE, !.read = 0] \in Run
    BY <1>1 DEF Run, Driving
  <2> QED  BY <1>8, <2>1, RunsTyped DEF ProviderFails
<1>9. CASE Forget(r, n)
  BY <1>9, <1>3 DEF Forget, Driving
<1>10. CASE Flush(r, n)
  <2>1. \A pc \in {"remember", "threw"} :
           [run[r][n] EXCEPT !.pc = pc, !.ok = FALSE] \in Run
    BY <1>1 DEF Run, Driving
  <2> QED  BY <1>10, <2>1, RunsTyped DEF Flush
<1>11. CASE Remember(r, n)
  BY <1>11, <1>3 DEF Remember, Driving
<1>12. CASE AppendAnswer(r, n)
  <2>1. \A pc \in {"tidy", "threw"} :
           [[run[r][n] EXCEPT !.read = 0] EXCEPT !.pc = pc] \in Run
    BY <1>1 DEF Run, Driving
  <2> QED  BY <1>12, <2>1, RunsTyped DEF AppendAnswer, Refusal
<1>13. CASE Tidy(r, n)
  BY <1>13, <1>3 DEF Tidy, Driving
<1>14. CASE Settle(r, n)
  <2>1. Becomes(r, n, Left(run[r][n]))
    BY <1>1, <1>14 DEF Settle, Becomes
  <2> QED  BY <1>1, <2>1, LeftTyped, RunsTyped
<1> QED
  BY <1>4, <1>5, <1>6, <1>7, <1>8, <1>9, <1>10, <1>11, <1>12, <1>13, <1>14
     DEF DriverStep

(* A task that was begun exists, and stays one whatever becomes of it.     *)
LEMMA Begun ==
    ASSUME TypeOK, AttemptsCounted, NEW r \in Replies, NEW n \in Attempts,
           run[r][n].pc # "none"
    PROVE  n <= task[r].n /\ task[r] \in Task
<1>1. n <= task[r].n
  <2>1. task[r].n \in Nat
    BY DEF TypeOK, NoTask, Task, Attempts
  <2>2. ~(n > task[r].n)
    BY DEF AttemptsCounted, NoRun
  <2> QED  BY <2>1, <2>2 DEF Attempts
<1>2. task[r] # NoTask
  BY <1>1 DEF NoTask, Attempts
<1> QED
  BY <1>1, <1>2 DEF TypeOK

(* A task that changes its state, or suffers, is a task.                   *)
LEMMA StateMoved ==
    ASSUME NEW t \in Task
    PROVE  /\ \A s \in TaskState \ {"none"} : [t EXCEPT !.state = s] \in Task
           /\ [t EXCEPT !.degraded = TRUE] \in Task
  BY DEF Task

(* One task is written,                                                    *)
LEMMA TasksTyped ==
    ASSUME task \in [Replies -> Task \cup {NoTask}],
           NEW r \in Replies, NEW t \in Task, task' = [task EXCEPT ![r] = t]
    PROVE  task' \in [Replies -> Task \cup {NoTask}]
  OBVIOUS

(* as one that suffered,                                                   *)
LEMMA DegradedTyped ==
    ASSUME task \in [Replies -> Task \cup {NoTask}],
           NEW r \in Replies, task[r] \in Task, task' = Degraded(r)
    PROVE  task' \in [Replies -> Task \cup {NoTask}]
<1>1. [task[r] EXCEPT !.degraded = TRUE] \in Task
  BY StateMoved
<1>2. task' = [task EXCEPT ![r] = [task[r] EXCEPT !.degraded = TRUE]]
  BY DEF Degraded
<1> QED
  BY <1>1, <1>2, TasksTyped

(* or in another state.                                                    *)
LEMMA MovedTyped ==
    ASSUME task \in [Replies -> Task \cup {NoTask}],
           NEW r \in Replies, task[r] \in Task,
           NEW s \in TaskState \ {"none"}, task' = [task EXCEPT ![r].state = s]
    PROVE  task' \in [Replies -> Task \cup {NoTask}]
<1>1. [task[r] EXCEPT !.state = s] \in Task
  BY StateMoved
<1> QED
  BY <1>1, TasksTyped

(* The thread grows by messages of its type.                               *)
LEMMA ThreadTyped ==
    ASSUME version \in Nat, thread \in Seq(Message),
           NEW k \in Keys, NEW r \in {0} \cup Replies, NEW read \in Nat,
           Appended(k, r, read)
    PROVE  version' \in Nat /\ thread' \in Seq(Message)
<1>1. [ordinal |-> version + 1, key |-> k, task |-> r, read |-> read] \in Message
  BY DEF Message
<1> QED
  BY <1>1, AppendProperties DEF Appended

(* A step of a driver keeps all the types.                                 *)
LEMMA DriverStepTyped ==
    ASSUME TypeOK, AttemptsCounted, NEW r \in Replies, NEW n \in Attempts,
           DriverStep(r, n)
    PROVE  TypeOK'
<1> USE DEF TypeOK
<1>1. run' \in [Replies -> [Attempts -> Run]]
  BY DriverTyped
<1>2. run[r][n].pc # "none" /\ task[r] \in Task
  <2>1. run[r][n].pc # "none"
    BY DEF DriverStep, ReadHistory, FindSession, ClearStale, ProviderAnswers,
           ProviderFails, Forget, Flush, Remember, AppendAnswer, Tidy, Settle, At
  <2> QED  BY <2>1, Begun
<1>3. version' \in Nat /\ thread' \in Seq(Message)
  <2>1. CASE AppendAnswer(r, n)
    <3>1. CASE Appended(task[r].key, r, run[r][n].read)
      <4>1. task[r].key \in Keys /\ run[r][n].read \in Nat
        BY <1>2 DEF Task, Run
      <4> QED  BY <3>1, <4>1, ThreadTyped
    <3>2. CASE UNCHANGED store
      BY <3>2 DEF store
    <3> QED  BY <2>1, <3>1, <3>2 DEF AppendAnswer
  <2>2. CASE ~AppendAnswer(r, n)
    BY <2>2 DEF DriverStep, ReadHistory, FindSession, ClearStale, ProviderAnswers,
           ProviderFails, Forget, Flush, Remember, Tidy, Settle, store
  <2> QED  BY <2>1, <2>2
<1>4. task' \in [Replies -> Task \cup {NoTask}]
  <2>1. CASE UNCHANGED task
    BY <2>1
  <2>2. CASE task' = Degraded(r)
    BY <1>2, <2>2, DegradedTyped
  <2>3. CASE Settle(r, n)
    <3>1. AfterFailure(r) \in TaskState \ {"none"}
      BY DEF AfterFailure, TaskState
    <3>2. \E s \in TaskState \ {"none"} :
             task' = task \/ task' = [task EXCEPT ![r].state = s]
      BY <2>3, <3>1 DEF Settle, TaskState
    <3> QED  BY <1>2, <3>2, MovedTyped
  <2> QED
    BY <2>1, <2>2, <2>3 DEF DriverStep, ReadHistory, FindSession, ClearStale,
       ProviderAnswers, ProviderFails, Forget, Flush, Remember, AppendAnswer, Tidy
<1>5. chunks' \subseteq Chunk /\ session' \in BOOLEAN
  BY DEF DriverStep, ReadHistory, FindSession, ClearStale, OthersChunks,
         ProviderAnswers, ProviderFails, Forget, Flush, Remember, AppendAnswer,
         Tidy, Settle, progress
<1>6. /\ command' = command /\ stream' = stream
      /\ stopped' = stopped /\ extras' = extras
  BY DEF DriverStep, ReadHistory, FindSession, ClearStale, ProviderAnswers,
         ProviderFails, Forget, Flush, Remember, AppendAnswer, Tidy, Settle,
         progress, bounds
<1>7. faults' = faults \/ faults' = faults + 1
  BY DEF DriverStep, ReadHistory, FindSession, ClearStale, ProviderAnswers,
         ProviderFails, Forget, Flush, Remember, AppendAnswer, Tidy, Settle,
         Fault, bounds
<1>8. extras' \in Nat /\ faults' \in Nat
  BY <1>6, <1>7
<1> QED
  BY <1>1, <1>3, <1>4, <1>5, <1>6, <1>8

(* A writer stays within its queue.                                        *)
LEMMA WriterTyped ==
    ASSUME TypeOK, NEW r \in Replies, NEW n \in Attempts, Writing(r, n)
    PROVE  /\ run' \in [Replies -> [Attempts -> Run]]
           /\ run[r][n].written + 1 \in 1..MaxFragments
<1>1. run[r][n] \in Run
  BY DEF TypeOK
<1>2. run[r][n].written + 1 \in 1..MaxFragments
  BY <1>1 DEF Writing, Run
<1>3. [run[r][n] EXCEPT !.written = @ + 1] \in Run
  BY <1>1, <1>2 DEF Run
<1>4. \E x \in Run : Becomes(r, n, x)
  BY <1>3, LeftTyped DEF Writing
<1> QED
  BY <1>2, <1>4, RunsTyped DEF TypeOK

(* A command moves on within its type.                                     *)
LEMMA CommandTyped ==
    ASSUME TypeOK, NEW k \in Keys, NEW s \in CommandState,
           command' = [command EXCEPT ![k].pc = s]
    PROVE  command' \in [Keys -> CommandRow]
<1>1. command[k] \in CommandRow /\ command \in [Keys -> CommandRow]
  BY DEF TypeOK, CommandRow
<1>2. [command[k] EXCEPT !.pc = s] \in CommandRow
  BY <1>1 DEF CommandRow
<1> QED
  BY <1>1, <1>2

StreamRow == [task : {0} \cup Replies, cursor : 0..MaxFragments,
              shown : SUBSET Attempts]

(* A dashboard follows one reply, or none.                                 *)
LEMMA FollowTyped ==
    ASSUME NEW r \in Replies
    PROVE  [NoStream EXCEPT !.task = r] \in StreamRow /\ NoStream \in StreamRow
<1>1. MaxFragments \in Nat
  OBVIOUS
<1>2. NoStream \in StreamRow
  BY <1>1 DEF NoStream, StreamRow
<1> QED
  BY <1>2 DEF StreamRow

(* The owner's steps, and the stream's, keep all the types.                *)
LEMMA OwnerStepTyped ==
    ASSUME TypeOK, OwnerStep
    PROVE  TypeOK'
<1> USE DEF TypeOK
<1>1. extras \in Nat /\ faults \in Nat
  OBVIOUS
<1>2. CASE Edit
  BY <1>1, <1>2 DEF Edit, Extra, progress
<1>3. ASSUME NEW k \in Keys, NEW from \in {"dashboard", "telegram"},
             Compose(k, from)
      PROVE  TypeOK'
  <2>1. ExpectedBy(from) \in Nat
    BY DEF ExpectedBy
  <2>2. command' \in [Keys -> CommandRow]
    BY <1>3, <2>1 DEF Compose, CommandRow, CommandState
  <2> QED  BY <1>3, <2>2 DEF Compose, CommandRow, store, progress, bounds
<1>4. ASSUME NEW k \in Keys, Resend(k)
      PROVE  TypeOK'
  <2>1. command' \in [Keys -> CommandRow]
    BY <1>4, CommandTyped DEF Resend, CommandState
  <2> QED  BY <1>1, <1>4, <2>1 DEF Resend, Extra, CommandRow, store, progress
<1>5. ASSUME NEW k \in Keys, SendMessage(k)
      PROVE  TypeOK'
  <2>1. command' \in [Keys -> CommandRow]
    BY <1>5, CommandTyped DEF SendMessage, CommandState
  <2>2. version' \in Nat /\ thread' \in Seq(Message)
    <3>1. CASE Appended(k, 0, 0)
      BY <3>1, ThreadTyped
    <3>2. CASE UNCHANGED store
      BY <3>2 DEF store
    <3> QED  BY <1>5, <3>1, <3>2 DEF SendMessage
  <2> QED  BY <1>5, <2>1, <2>2 DEF SendMessage, CommandRow, progress, bounds
<1>6. ASSUME NEW k \in Keys, CommandDies(k)
      PROVE  TypeOK'
  <2>1. command' \in [Keys -> CommandRow]
    BY <1>6 DEF CommandDies, CommandRow, CommandState
  <2> QED  BY <1>1, <1>6, <2>1 DEF CommandDies, Fault, CommandRow, store, progress
<1>7. ASSUME NEW k \in Keys, NEW r \in Replies,
             QueueReply(k, r) \/ Enqueue(k, r) \/ Specify(k, r)
      PROVE  TypeOK'
  <2>1. CASE QueueReply(k, r)
    <3>1. command' \in [Keys -> CommandRow]
      BY <2>1, CommandTyped DEF QueueReply, CommandState
    <3>2. [state |-> "draft", n |-> 0, key |-> k,
           expected |-> command[k].expected + 1, degraded |-> FALSE] \in Task
      BY DEF Task, TaskState
    <3>3. task' \in [Replies -> Task \cup {NoTask}]
      BY <2>1, <3>2, TasksTyped DEF QueueReply
    <3> QED  BY <2>1, <3>1, <3>3 DEF QueueReply, CommandRow, store, progress, bounds
  <2>2. CASE Enqueue(k, r)
    <3>1. command' \in [Keys -> CommandRow]
      BY <2>2, CommandTyped DEF Enqueue, CommandState
    <3>2. task[r] \in Task
      BY <2>2 DEF Enqueue, NoTask
    <3>3. task' \in [Replies -> Task \cup {NoTask}]
      BY <2>2, <3>2, MovedTyped DEF Enqueue, TaskState
    <3> QED  BY <2>2, <3>1, <3>3 DEF Enqueue, CommandRow, store, progress, bounds
  <2>3. CASE Specify(k, r)
    <3>1. command' \in [Keys -> CommandRow]
      BY <2>3 DEF Specify, CommandRow, CommandState
    <3>2. task[r] \in Task
      BY <2>3 DEF Specify, NoTask
    <3>3. task' \in [Replies -> Task \cup {NoTask}]
      BY <2>3, <3>2, MovedTyped DEF Specify, TaskState
    <3>4. stream' \in StreamRow
      BY <2>3, FollowTyped DEF Specify, StreamRow
    <3> QED  BY <2>3, <3>1, <3>3, <3>4 DEF Specify, CommandRow, StreamRow,
             store, bounds
  <2> QED  BY <1>7, <2>1, <2>2, <2>3
<1>8. ASSUME NEW r \in Replies, Cancel(r)
      PROVE  TypeOK'
  <2>1. task[r] \in Task
    BY <1>8 DEF Cancel, NoTask
  <2>2. task' \in [Replies -> Task \cup {NoTask}]
    BY <1>8, <2>1, MovedTyped DEF Cancel, TaskState
  <2> QED  BY <1>8, <2>2 DEF Cancel, store, progress, bounds
<1>9. CASE ShowStream
  <2>1. PICK last \in Unseen :
           stream' = [stream EXCEPT !.cursor = last.ordinal,
                                    !.shown = @ \cup {c.by : c \in Unseen}]
    BY <1>9 DEF ShowStream
  <2>2. Unseen \subseteq Chunk
    BY DEF Unseen
  <2>3. last.ordinal \in 0..MaxFragments /\ {c.by : c \in Unseen} \subseteq Attempts
    BY <2>2 DEF Chunk
  <2>4. stream' \in StreamRow
    BY <2>1, <2>3 DEF StreamRow
  <2> QED  BY <1>9, <2>4 DEF ShowStream, StreamRow, store, bounds
<1>10. CASE EndStream
  <2>1. stream' \in StreamRow
    BY <1>10, FollowTyped DEF EndStream
  <2> QED  BY <1>10, <2>1 DEF EndStream, StreamRow, store, bounds
<1>11. CASE EmergencyStop
  <2>1. ASSUME NEW q \in Replies
        PROVE  task'[q] \in Task \cup {NoTask}
    <3>1. task'[q] = IF task[q].state = "running"
                       THEN [task[q] EXCEPT !.state = "queued"] ELSE task[q]
      BY <1>11 DEF EmergencyStop
    <3>2. CASE task[q].state = "running"
      <4>1. task[q] \in Task
        BY <3>2 DEF NoTask
      <4>2. "queued" \in TaskState \ {"none"}
        BY DEF TaskState
      <4>3. [task[q] EXCEPT !.state = "queued"] \in Task
        BY ONLY <4>1, <4>2, StateMoved
      <4> QED  BY ONLY <3>1, <3>2, <4>3
    <3>3. CASE task[q].state # "running"
      BY <3>1, <3>3
    <3> QED  BY <3>2, <3>3
  <2>2. task' = [q \in Replies |-> task'[q]]
    BY <1>11 DEF EmergencyStop
  <2>3. task' \in [Replies -> Task \cup {NoTask}]
    BY <2>1, <2>2
  <2> QED  BY <1>1, <1>11, <2>3 DEF EmergencyStop, Fault, store, progress
<1>12. CASE Resume
  BY <1>12 DEF Resume, store, progress
<1> HIDE DEF TypeOK
<1> QED
  BY <1>2, <1>3, <1>4, <1>5, <1>6, <1>7, <1>8, <1>9, <1>10, <1>11, <1>12
     DEF OwnerStep

(* Every step does; Lease() begins an attempt because one was left.        *)
LEMMA TypeStep ==
    ASSUME TypeOK, AttemptsCounted, [Next]_vars
    PROVE  TypeOK'
<1>1. CASE UNCHANGED vars
  BY <1>1 DEF TypeOK, vars, store, progress, bounds
<1>2. CASE OwnerStep
  BY <1>2, OwnerStepTyped
<1>3. ASSUME NEW r \in Replies, Lease(r)
      PROVE  TypeOK'
  <2> USE DEF TypeOK
  <2>1. task[r] \in Task /\ task[r].n + 1 \in Attempts
    BY <1>3 DEF Lease, NoTask, Task, Attempts
  <2>2. [task[r] EXCEPT !.state = "running", !.n = @ + 1] \in Task
    BY <2>1 DEF Task, TaskState
  <2>3. task' \in [Replies -> Task \cup {NoTask}]
    BY <1>3, <2>2, TasksTyped DEF Lease
  <2>4. [run[r][task[r].n + 1] EXCEPT !.pc = "history"] \in Run
    <3>1. run[r][task[r].n + 1] \in Run
      BY <2>1
    <3> QED  BY <3>1, Gone DEF Driving
  <2>5. run' \in [Replies -> [Attempts -> Run]]
    BY <1>3, <2>1, <2>4, RunsTyped DEF Lease, Becomes
  <2> QED  BY <1>3, <2>3, <2>5 DEF Lease, store, progress, bounds
<1>4. ASSUME NEW r \in Replies, Reclaim(r)
      PROVE  TypeOK'
  <2> USE DEF TypeOK
  <2>1. task[r] \in Task /\ AfterFailure(r) \in TaskState \ {"none"}
    BY <1>4 DEF Reclaim, NoTask, AfterFailure, TaskState
  <2>2. task' \in [Replies -> Task \cup {NoTask}]
    BY <1>4, <2>1, MovedTyped DEF Reclaim
  <2> QED  BY <1>4, <2>2 DEF Reclaim, store, progress, bounds
<1>5. ASSUME NEW r \in Replies, NEW n \in Attempts, DriverStep(r, n)
      PROVE  TypeOK'
  BY <1>5, DriverStepTyped
<1>6. ASSUME NEW r \in Replies, NEW n \in Attempts, Push(r, n)
      PROVE  TypeOK'
  <2> USE DEF TypeOK
  <2>1. [run[r][n] EXCEPT !.pushed = @ + 1] \in Run
    <3>1. run[r][n] \in Run /\ MaxFragments \in Nat
      OBVIOUS
    <3>2. run[r][n].pushed + 1 \in 0..MaxFragments
      BY <1>6, <3>1 DEF Push, Run
    <3> QED  BY <3>1, <3>2 DEF Run
  <2>2. run' \in [Replies -> [Attempts -> Run]]
    BY <1>6, <2>1, RunsTyped DEF Push, Becomes
  <2> QED  BY <1>6, <2>2 DEF Push, store, progress, bounds
<1>7. ASSUME NEW r \in Replies, NEW n \in Attempts, WriteLands(r, n)
      PROVE  TypeOK'
  <2>1. /\ run' \in [Replies -> [Attempts -> Run]]
        /\ run[r][n].written + 1 \in 1..MaxFragments
    BY <1>7, WriterTyped DEF WriteLands
  <2>2. [task |-> r, ordinal |-> run[r][n].written + 1, by |-> n] \in Chunk
    BY <2>1 DEF Chunk
  <2>3. chunks' \subseteq Chunk
    BY <1>7, <2>2 DEF WriteLands, Inserted, TypeOK
  <2> QED  BY <1>7, <2>1, <2>3 DEF WriteLands, TypeOK, store, bounds
<1>8. ASSUME NEW r \in Replies, NEW n \in Attempts, WriteFails(r, n)
      PROVE  TypeOK'
  <2>1. run' \in [Replies -> [Attempts -> Run]]
    BY <1>8, WriterTyped DEF WriteFails
  <2>2. faults' \in Nat /\ extras' \in Nat
    BY <1>8 DEF WriteFails, Fault, TypeOK
  <2> QED  BY <1>8, <2>1, <2>2 DEF WriteFails, TypeOK, store, progress
<1>9. ASSUME NEW r \in Replies, NEW n \in Attempts, Crash(r, n)
      PROVE  TypeOK'
  <2>1. run' \in [Replies -> [Attempts -> Run]]
    <3>1. run[r][n] \in Run /\ Becomes(r, n, NoRun)
      BY <1>9 DEF TypeOK, Crash, Becomes
    <3> QED  BY <3>1, LeftTyped, RunsTyped DEF TypeOK
  <2>2. faults' \in Nat /\ extras' \in Nat
    BY <1>9 DEF Crash, Fault, TypeOK
  <2> QED  BY <1>9, <2>1, <2>2 DEF Crash, TypeOK, store, progress
<1>10. ASSUME NEW r \in Replies, NEW n \in Attempts, Stall(r, n)
      PROVE  TypeOK'
  <2>1. run' \in [Replies -> [Attempts -> Run]]
    <3>1. [run[r][n] EXCEPT !.stalled = TRUE] \in Run
      <4>1. run[r][n] \in Run
        BY DEF TypeOK
      <4> QED  BY <4>1 DEF Run
    <3> QED  BY <1>10, <3>1, RunsTyped DEF Stall, Becomes, TypeOK
  <2>2. task[r] \in Task
    BY <1>10, Begun DEF Stall, Driving
  <2>3. task' \in [Replies -> Task \cup {NoTask}]
    BY <1>10, <2>2, DegradedTyped DEF Stall, TypeOK
  <2>4. faults' \in Nat /\ extras' \in Nat
    BY <1>10 DEF Stall, Fault, TypeOK
  <2> QED  BY <1>10, <2>1, <2>3, <2>4 DEF Stall, TypeOK, store, progress
<1>11. ASSUME NEW r \in Replies, NEW n \in Attempts, Hang(r, n)
      PROVE  TypeOK'
  <2>1. run' \in [Replies -> [Attempts -> Run]]
    <3>1. [run[r][n] EXCEPT !.hung = TRUE] \in Run
      <4>1. run[r][n] \in Run
        BY DEF TypeOK
      <4> QED  BY <4>1 DEF Run
    <3> QED  BY <1>11, <3>1, RunsTyped DEF Hang, Becomes, TypeOK
  <2>2. faults' \in Nat /\ extras' \in Nat
    BY <1>11 DEF Hang, Fault, TypeOK
  <2> QED  BY <1>11, <2>1, <2>2 DEF Hang, TypeOK, store, progress
<1> QED
  BY <1>1, <1>2, <1>3, <1>4, <1>5, <1>6, <1>7, <1>8, <1>9, <1>10, <1>11
     DEF Next, QueueStep, WriterStep

-----------------------------------------------------------------------------
(* Tasks and their attempts.                                               *)

TaskKept(q) ==
    /\ task'[q].n = task[q].n
    /\ task'[q].key = task[q].key
    /\ task'[q].expected = task[q].expected
    /\ task'[q] = NoTask <=> task[q] = NoTask

TasksKept == \A q \in Replies : TaskKept(q)

(* A verdict, a reclaim or a cancellation changes a task's state only.     *)
LEMMA Settled ==
    ASSUME task \in [Replies -> Task \cup {NoTask}],
           NEW r \in Replies, task[r] \in Task,
           NEW s \in (TaskState \ {"none"}),
           task' = [task EXCEPT ![r].state = s]
    PROVE  TasksKept
<1>1. ASSUME NEW q \in Replies, q # r
      PROVE  task'[q] = task[q]
  BY <1>1
<1>2. task'[r] = [task[r] EXCEPT !.state = s]
  OBVIOUS
<1>3. TaskKept(r) /\ task'[r].state = s
  BY <1>2, StateMoved DEF TaskKept, Task, NoTask
<1> QED
  BY <1>1, <1>3 DEF TasksKept, TaskKept

(* So does a step that harms its progress, a stop,                         *)
LEMMA Suffered ==
    ASSUME task \in [Replies -> Task \cup {NoTask}],
           NEW r \in Replies, task[r] \in Task, task' = Degraded(r)
    PROVE  TasksKept
<1>1. ASSUME NEW q \in Replies, q # r
      PROVE  task'[q] = task[q]
  BY <1>1 DEF Degraded
<1>2. task'[r] = [task[r] EXCEPT !.degraded = TRUE]
  BY DEF Degraded
<1>3. TaskKept(r) /\ task'[r].state = task[r].state
  BY <1>2, StateMoved DEF TaskKept, Task, NoTask
<1> QED
  BY <1>1, <1>3 DEF TasksKept, TaskKept

LEMMA StopKeeps ==
    ASSUME TypeOK, EmergencyStop
    PROVE  TasksKept
<1>1. SUFFICES ASSUME NEW q \in Replies
               PROVE  TaskKept(q)
  BY DEF TasksKept
<1>2. task'[q] = IF task[q].state = "running"
                   THEN [task[q] EXCEPT !.state = "queued"] ELSE task[q]
  BY DEF EmergencyStop
<1>3. CASE task[q].state = "running"
  <2>1. task[q] \in Task
    BY <1>3 DEF TypeOK, NoTask
  <2> QED  BY <1>2, <1>3, <2>1 DEF TaskKept, Task, NoTask
<1>4. CASE task[q].state # "running"
  BY <1>2, <1>4 DEF TaskKept
<1> QED
  BY <1>3, <1>4

(* and one that leaves the tasks alone.                                    *)
LEMMA Untouched ==
    ASSUME UNCHANGED task
    PROVE  TasksKept
  BY DEF TasksKept, TaskKept

(* What attempt n of task r does on its own, or what befalls it.           *)
AttemptStep(r, n) == \/ DriverStep(r, n) \/ WriterStep(r, n)
                     \/ Crash(r, n) \/ Stall(r, n) \/ Hang(r, n)

(* An attempt's step is its own: the other attempts, the owner's commands  *)
(* and what a task carries stay.                                           *)
LEMMA AttemptTouches ==
    ASSUME TypeOK, AttemptsCounted, NEW r \in Replies, NEW n \in Attempts,
           AttemptStep(r, n)
    PROVE  /\ run[r][n] # NoRun
           /\ \A q \in Replies, m \in Attempts :
                 (q # r \/ m # n) => run'[q][m] = run[q][m]
           /\ TasksKept
           /\ UNCHANGED command
<1>1. run[r][n] # NoRun
  <2>1. CASE run[r][n].pc # "none"
    BY <2>1 DEF NoRun
  <2>2. CASE Writing(r, n)
    <3>1. run[r][n].written < run[r][n].pushed
      BY <2>2 DEF Writing
    <3> QED  BY <3>1 DEF NoRun
  <2> QED
    BY <2>1, <2>2 DEF AttemptStep, DriverStep, WriterStep, Crash, Stall, Hang, Push,
       WriteLands, WriteFails, ReadHistory, FindSession, ClearStale,
       ProviderAnswers, ProviderFails, Forget, Flush, Remember, AppendAnswer,
       Tidy, Settle, At, Driving
<1>2. \A q \in Replies, m \in Attempts :
         (q # r \/ m # n) => run'[q][m] = run[q][m]
  <2>1. ASSUME NEW x, Becomes(r, n, x)
        PROVE  \A q \in Replies, m \in Attempts :
                  (q # r \/ m # n) => run'[q][m] = run[q][m]
    BY <2>1 DEF Becomes, TypeOK
  <2>2. \E x : Becomes(r, n, x)
    BY DEF AttemptStep, DriverStep, WriterStep, Crash, Stall, Hang, Push, WriteLands,
       WriteFails, Writing, ReadHistory, FindSession, ClearStale,
       ProviderAnswers, ProviderFails, Forget, Flush, Remember, AppendAnswer,
       Tidy, Settle, Goto, Becomes
  <2> QED  BY <2>1, <2>2
<1>3. TasksKept
  <2>0. task \in [Replies -> Task \cup {NoTask}]
    BY DEF TypeOK
  <2>1. CASE UNCHANGED task
    BY <2>1, Untouched
  <2>2. CASE run[r][n].pc # "none" /\ task' = Degraded(r)
    BY <2>0, <2>2, Begun, Suffered
  <2>3. CASE Settle(r, n)
    <3>1. task[r] \in Task
      BY <2>3, Begun DEF Settle
    <3>2. AfterFailure(r) \in TaskState \ {"none"}
      BY DEF AfterFailure, TaskState
    <3>3. \E s \in (TaskState \ {"none"}) :
             task' = task \/ task' = [task EXCEPT ![r].state = s]
      BY <2>3, <3>2 DEF Settle, TaskState
    <3> QED  BY <2>0, <2>1, <3>1, <3>3, Settled
  <2> QED
    BY <2>1, <2>2, <2>3 DEF AttemptStep, DriverStep, WriterStep, Crash, Stall, Hang,
       Push, WriteLands, WriteFails, ReadHistory, FindSession, ClearStale,
       ProviderAnswers, ProviderFails, Forget, Flush, Remember, AppendAnswer,
       Tidy, At, Driving
<1>4. UNCHANGED command
  BY DEF AttemptStep, DriverStep, WriterStep, Crash, Stall, Hang, Push, WriteLands,
     WriteFails, ReadHistory, FindSession, ClearStale, ProviderAnswers,
     ProviderFails, Forget, Flush, Remember, AppendAnswer, Tidy, Settle
<1> QED
  BY <1>1, <1>2, <1>3, <1>4

(* The steps that move one task to another state, whatever it carries.     *)
Moving(r) == \/ Cancel(r) \/ Reclaim(r)
             \/ \E k \in Keys : Enqueue(k, r) \/ Specify(k, r)

LEMMA StateChanges ==
    ASSUME NEW r \in Replies, Moving(r)
    PROVE  /\ \E s \in (TaskState \ {"none"}) : task' = [task EXCEPT ![r].state = s]
           /\ task[r].state # "none" /\ run' = run
<1>1. {"cancelled", "unspecified", "queued", AfterFailure(r)}
         \subseteq TaskState \ {"none"}
  BY DEF AfterFailure, TaskState
<1>2. \E s \in {"cancelled", "unspecified", "queued", AfterFailure(r)} :
         task' = [task EXCEPT ![r].state = s]
  BY DEF Moving, Cancel, Reclaim, Enqueue, Specify
<1>3. task[r].state # "none" /\ run' = run
  BY DEF Moving, Cancel, Reclaim, Enqueue, Specify
<1> QED
  BY <1>1, <1>2, <1>3

(* Attempts stay counted: Lease() begins the next one, nothing else does.  *)
LEMMA CountStep ==
    ASSUME TypeOK, AttemptsCounted, [Next]_vars
    PROVE  AttemptsCounted'
<1>1. ASSUME UNCHANGED task, UNCHANGED run
      PROVE  AttemptsCounted'
  BY <1>1 DEF AttemptsCounted
<1>2. ASSUME NEW k \in Keys, NEW r \in Replies, QueueReply(k, r)
      PROVE  AttemptsCounted'
  <2>1. /\ task'[r].n = 0 /\ task[r].n = 0
        /\ \A q \in Replies : q # r => task'[q] = task[q]
        /\ run' = run
    BY <1>2 DEF QueueReply, TypeOK, NoTask
  <2> QED  BY <2>1 DEF AttemptsCounted
<1>3. ASSUME NEW r \in Replies, Moving(r)
      PROVE  AttemptsCounted'
  <2>0. /\ task \in [Replies -> Task \cup {NoTask}]
        /\ task[r] \in Task /\ run' = run
    BY <1>3, StateChanges DEF TypeOK, NoTask
  <2>1. \E s \in (TaskState \ {"none"}) : task' = [task EXCEPT ![r].state = s]
    BY <1>3, StateChanges
  <2>2. TasksKept
    BY <2>0, <2>1, Settled
  <2> QED  BY <2>0, <2>2 DEF AttemptsCounted, TasksKept, TaskKept
<1>4. ASSUME NEW r \in Replies, Lease(r)
      PROVE  AttemptsCounted'
  <2>1. task[r].n \in Nat /\ task[r].n < MaxAttempts
    BY <1>4 DEF Lease, TypeOK, Task, NoTask, Attempts
  <2>2. task'[r].n = task[r].n + 1 /\ task'[r].state = "running"
    BY <1>4 DEF Lease, TypeOK, Task, NoTask
  <2>3. \A q \in Replies : q # r => task'[q] = task[q] /\ run'[q] = run[q]
    BY <1>4 DEF Lease, TypeOK
  <2>4. \A n \in Attempts : n # task[r].n + 1 => run'[r][n] = run[r][n]
    BY <1>4 DEF Lease, TypeOK
  <2> QED  BY <2>1, <2>2, <2>3, <2>4 DEF AttemptsCounted, Attempts
<1>5. ASSUME NEW r \in Replies, NEW n \in Attempts, AttemptStep(r, n)
      PROVE  AttemptsCounted'
  <2>1. n <= task[r].n
    <3>1. ~(n > task[r].n)
      BY <1>5, AttemptTouches DEF AttemptsCounted
    <3>2. task[r].n \in Nat
      BY DEF TypeOK, Task, NoTask, Attempts
    <3> QED  BY <3>1, <3>2 DEF Attempts
  <2> QED
    BY <1>5, <2>1, AttemptTouches
       DEF AttemptsCounted, TasksKept, TaskKept
<1>6. CASE EmergencyStop
  <2>1. run' = run
    BY <1>6 DEF EmergencyStop
  <2> QED  BY <1>6, <2>1, StopKeeps DEF AttemptsCounted, TasksKept, TaskKept
<1>7. CASE OwnerStep
  BY <1>1, <1>2, <1>3, <1>6, <1>7
     DEF OwnerStep, Moving, Edit, Compose, Resend, SendMessage, CommandDies,
         Resume, ShowStream, EndStream
<1> QED
  BY <1>1, <1>3, <1>4, <1>5, <1>7 DEF Next, QueueStep, Moving, AttemptStep, vars

-----------------------------------------------------------------------------
(* The thread.                                                             *)

(* One message more.                                                       *)
LEMMA Longer ==
    ASSUME version \in Nat, thread \in Seq(Message),
           NEW k \in Keys, NEW r \in {0} \cup Replies, NEW read \in Nat,
           Appended(k, r, read)
    PROVE  /\ version' = version + 1
           /\ Len(thread) \in Nat
           /\ DOMAIN thread = 1..Len(thread)
           /\ DOMAIN thread' = 1..(Len(thread) + 1)
           /\ Len(thread') = Len(thread) + 1
           /\ \A i \in DOMAIN thread : thread'[i] = thread[i]
           /\ thread'[Len(thread) + 1] =
                 [ordinal |-> version + 1, key |-> k, task |-> r, read |-> read]
<1>1. [ordinal |-> version + 1, key |-> k, task |-> r, read |-> read] \in Message
  BY DEF Message
<1> QED
  BY <1>1, AppendProperties, LenProperties DEF Appended

(* The thread as a sequence of messages.                                   *)
LEMMA Ordinals ==
    ASSUME TypeOK
    PROVE  /\ Len(thread) \in Nat /\ DOMAIN thread = 1..Len(thread)
           /\ \A i \in DOMAIN thread : thread[i] \in Message /\ thread[i].ordinal \in Nat
<1>1. thread \in Seq(Message)
  BY DEF TypeOK
<1>2. Len(thread) \in Nat /\ DOMAIN thread = 1..Len(thread)
  BY <1>1, LenProperties
<1>3. \A i \in DOMAIN thread : thread[i] \in Message
  BY <1>1, <1>2, ElementOfSeq
<1> QED
  BY <1>2, <1>3 DEF Message

(* A new message takes the next version, which no older one has.           *)
LEMMA OrderKept ==
    ASSUME TypeOK, InOrder, NEW k \in Keys, NEW r \in {0} \cup Replies,
           NEW read \in Nat, Appended(k, r, read)
    PROVE  InOrder'
<1>1. version \in Nat /\ thread \in Seq(Message)
  BY DEF TypeOK
<1>2. \A i \in DOMAIN thread : thread[i].ordinal \in Nat
  BY Ordinals
<1>3. /\ version' = version + 1
      /\ Len(thread) \in Nat
      /\ DOMAIN thread = 1..Len(thread)
      /\ DOMAIN thread' = 1..(Len(thread) + 1)
      /\ \A i \in DOMAIN thread : thread'[i] = thread[i]
      /\ thread'[Len(thread) + 1] =
            [ordinal |-> version + 1, key |-> k, task |-> r, read |-> read]
  BY <1>1, Longer
<1>4. ASSUME NEW i \in DOMAIN thread'
      PROVE  /\ thread'[i].ordinal <= version'
             /\ \A j \in DOMAIN thread' : j < i => thread'[j].ordinal < thread'[i].ordinal
  <2>1. CASE i \in DOMAIN thread
    BY <1>1, <1>2, <1>3, <2>1 DEF InOrder
  <2>2. CASE i = Len(thread) + 1
    <3>1. thread'[i].ordinal = version + 1
      BY <1>3, <2>2
    <3>2. \A j \in DOMAIN thread' : j < i => j \in DOMAIN thread
      BY <1>3, <2>2
    <3> QED  BY <1>1, <1>2, <1>3, <3>1, <3>2 DEF InOrder
  <2> QED  BY <1>3, <1>4, <2>1, <2>2
<1> QED
  BY <1>4 DEF InOrder

(* What is in the thread stays there.                                      *)
LEMMA StoredKept ==
    ASSUME TypeOK, NEW k \in Keys, NEW r \in {0} \cup Replies,
           NEW read \in Nat, Appended(k, r, read)
    PROVE  /\ \A q : Stored(q) => Stored(q)'
           /\ \A q : Answered(q) => Answered(q)'
           /\ r = 0 => Stored(k)'
           /\ r # 0 => Answered(r)'
<1>1. version \in Nat /\ thread \in Seq(Message)
  BY DEF TypeOK
<1>2. /\ version' = version + 1
      /\ Len(thread) \in Nat
      /\ DOMAIN thread = 1..Len(thread)
      /\ DOMAIN thread' = 1..(Len(thread) + 1)
      /\ \A i \in DOMAIN thread : thread'[i] = thread[i]
      /\ thread'[Len(thread) + 1] =
            [ordinal |-> version + 1, key |-> k, task |-> r, read |-> read]
  BY <1>1, Longer
<1>3. \A i \in DOMAIN thread : i \in DOMAIN thread' /\ thread'[i] = thread[i]
  BY <1>2
<1>4. Len(thread) + 1 \in DOMAIN thread'
  BY <1>2
<1> QED
  BY <1>2, <1>3, <1>4 DEF Stored, Answered

(* A task's question is in the thread, so the version is past it.          *)
LEMMA Expecting ==
    ASSUME TypeOK, InOrder, QuestionsKept, NEW r \in Replies, task[r] # NoTask
    PROVE  task[r].expected <= version /\ Stored(task[r].key) /\ task[r] \in Task
<1>1. PICK i \in DOMAIN thread : AskedAt(i, task[r].key, task[r].expected)
  BY DEF QuestionsKept
<1> QED
  BY <1>1 DEF InOrder, AskedAt, Stored, TypeOK

(* SameTask(q): the question of q, and the version it expects, are fixed.  *)
SameTask(q) ==
    /\ task'[q].key = task[q].key
    /\ task'[q].expected = task[q].expected
    /\ task'[q] = NoTask <=> task[q] = NoTask

(* A step that adds no message keeps the questions, if it keeps what the   *)
(* commands and the tasks say of theirs.                                   *)
LEMMA QuestionsStay ==
    ASSUME QuestionsKept, UNCHANGED thread,
           \A k \in Keys :
              /\ command[k].pc # "idle" =>
                    /\ command'[k].pc # "idle"
                    /\ command'[k].expected = command[k].expected
              /\ command'[k].pc \in Through => Stored(k),
           \A i \in DOMAIN thread : thread[i].key \in Keys,
           \A q \in Replies : SameTask(q)
    PROVE  QuestionsKept'
<1>1. \A k : Stored(k)' = Stored(k)
  BY DEF Stored
<1>2. \A i \in DOMAIN thread :
         /\ Stored(thread[i].key)
         /\ thread[i].task = 0 =>
               /\ command'[thread[i].key].pc # "idle"
               /\ thread[i].ordinal = command'[thread[i].key].expected + 1
  BY DEF QuestionsKept
<1>3. \A r \in Replies :
         task'[r] # NoTask =>
            \E i \in DOMAIN thread : AskedAt(i, task'[r].key, task'[r].expected)
  BY DEF QuestionsKept, SameTask
<1> QED
  BY <1>1, <1>2, <1>3 DEF QuestionsKept, AskedAt

(* Messages carry keys.                                                    *)
LEMMA KeyOfMessage ==
    ASSUME TypeOK
    PROVE  \A i \in DOMAIN thread : thread[i].key \in Keys
  BY Ordinals DEF Message

(* An owner's message that is stored makes its command's version its own.  *)
LEMMA QuestionAsked ==
    ASSUME TypeOK, QuestionsKept, NEW k \in Keys, SendMessage(k),
           Appended(k, 0, 0), Fresh(command[k].expected),
           command' = [command EXCEPT ![k].pc = "appended"]
    PROVE  QuestionsKept'
<1>1. /\ version' = version + 1
      /\ Len(thread) \in Nat
      /\ DOMAIN thread = 1..Len(thread)
      /\ DOMAIN thread' = 1..(Len(thread) + 1)
      /\ \A i \in DOMAIN thread : thread'[i] = thread[i]
      /\ thread'[Len(thread) + 1] =
            [ordinal |-> version + 1, key |-> k, task |-> 0, read |-> 0]
  <2>1. version \in Nat /\ thread \in Seq(Message)
    BY DEF TypeOK
  <2>2. 0 \in {0} \cup Replies /\ 0 \in Nat
    OBVIOUS
  <2> QED  BY <2>1, <2>2, Longer
<1>2. /\ \A q : Stored(q) => Stored(q)'
      /\ Stored(k)'
  BY StoredKept
<1>3. /\ command'[k].pc = "appended" /\ command'[k].expected = version
      /\ \A q \in Keys : q # k => command'[q] = command[q]
  BY DEF TypeOK, Fresh
<1>4. command[k].expected = version /\ command[k].pc = "sent" /\ task' = task
  BY DEF SendMessage, Fresh
<1>5. ASSUME NEW i \in DOMAIN thread', NEW q, q = thread'[i].key
      PROVE  /\ Stored(q)'
             /\ thread'[i].task = 0 => /\ command'[q].pc # "idle"
                                       /\ thread'[i].ordinal = command'[q].expected + 1
  <2>1. CASE i \in DOMAIN thread
    <3>1. thread'[i] = thread[i] /\ q = thread[i].key /\ q \in Keys
      BY <1>1, <1>5, <2>1, KeyOfMessage
    <3>2. /\ Stored(q)
          /\ thread[i].task = 0 => /\ command[q].pc # "idle"
                                   /\ thread[i].ordinal = command[q].expected + 1
      BY <2>1, <3>1 DEF QuestionsKept
    <3> QED  BY <1>2, <1>3, <1>4, <3>1, <3>2
  <2>2. CASE i = Len(thread) + 1
    BY <1>1, <1>2, <1>3, <1>5, <2>2
  <2> QED  BY <1>1, <1>5, <2>1, <2>2
<1>6. \A q \in Keys : command'[q].pc \in Through => Stored(q)'
  BY <1>2, <1>3 DEF QuestionsKept
<1>7. \A r \in Replies :
         task[r] # NoTask =>
            \E i \in DOMAIN thread' : /\ thread'[i].task = 0
                                     /\ thread'[i].key = task[r].key
                                     /\ thread'[i].ordinal = task[r].expected
  <2>1. \A r \in Replies :
           task[r] # NoTask =>
              \E i \in DOMAIN thread : /\ thread[i].task = 0
                                      /\ thread[i].key = task[r].key
                                      /\ thread[i].ordinal = task[r].expected
    BY DEF QuestionsKept, AskedAt
  <2>2. \A i \in DOMAIN thread : i \in DOMAIN thread'
    BY <1>1
  <2> QED  BY <1>1, <2>1, <2>2
<1> QED
  BY <1>4, <1>5, <1>6, <1>7 DEF QuestionsKept, AskedAt, Stored

(* An answer leaves the questions, and those who wait for it, alone.       *)
LEMMA AnswerAdded ==
    ASSUME TypeOK, InOrder, QuestionsKept, NEW r \in Replies, NEW k \in Keys,
           NEW read \in Nat, Stored(k), Appended(k, r, read), UNCHANGED command,
           \A q \in Replies : SameTask(q)
    PROVE  QuestionsKept'
<1>1. /\ version' = version + 1
      /\ Len(thread) \in Nat
      /\ DOMAIN thread = 1..Len(thread)
      /\ DOMAIN thread' = 1..(Len(thread) + 1)
      /\ \A i \in DOMAIN thread : thread'[i] = thread[i]
      /\ thread'[Len(thread) + 1] =
            [ordinal |-> version + 1, key |-> k, task |-> r, read |-> read]
  <2>1. version \in Nat /\ thread \in Seq(Message)
    BY DEF TypeOK
  <2> QED  BY <2>1, Longer
<1>2. \A q : Stored(q) => Stored(q)'
  BY StoredKept
<1>3. r # 0
  BY DEF Replies
<1>4. ASSUME NEW i \in DOMAIN thread', NEW q, q = thread'[i].key
      PROVE  /\ Stored(q)'
             /\ thread'[i].task = 0 => /\ command[q].pc # "idle"
                                       /\ thread'[i].ordinal = command[q].expected + 1
  <2>1. CASE i \in DOMAIN thread
    <3>1. thread'[i] = thread[i] /\ q = thread[i].key
      BY <1>1, <1>4, <2>1
    <3>2. /\ Stored(q)
          /\ thread[i].task = 0 => /\ command[q].pc # "idle"
                                   /\ thread[i].ordinal = command[q].expected + 1
      BY <2>1, <3>1 DEF QuestionsKept
    <3> QED  BY <1>2, <3>1, <3>2
  <2>2. CASE i = Len(thread) + 1
    BY <1>1, <1>2, <1>3, <1>4, <2>2
  <2> QED  BY <1>1, <1>4, <2>1, <2>2
<1>5. \A q \in Keys : command[q].pc \in Through => Stored(q)'
  BY <1>2 DEF QuestionsKept
<1>6. \A q \in Replies :
         task'[q] # NoTask =>
            \E i \in DOMAIN thread' : /\ thread'[i].task = 0
                                     /\ thread'[i].key = task'[q].key
                                     /\ thread'[i].ordinal = task'[q].expected
  <2>1. \A q \in Replies :
           task[q] # NoTask =>
              \E i \in DOMAIN thread : /\ thread[i].task = 0
                                      /\ thread[i].key = task[q].key
                                      /\ thread[i].ordinal = task[q].expected
    BY DEF QuestionsKept, AskedAt
  <2>2. \A i \in DOMAIN thread : i \in DOMAIN thread'
    BY <1>1
  <2> QED  BY <1>1, <2>1, <2>2 DEF SameTask
<1> QED
  BY <1>4, <1>5, <1>6 DEF QuestionsKept, AskedAt, Stored

(* Only QueueReply() says what a task's question is.                       *)
LEMMA SameTasks ==
    ASSUME TypeOK, AttemptsCounted, [Next]_vars,
           \A k \in Keys, r \in Replies : ~QueueReply(k, r)
    PROVE  \A q \in Replies : SameTask(q)
<1>1. ASSUME UNCHANGED task
      PROVE  \A q \in Replies : SameTask(q)
  BY <1>1 DEF SameTask
<1>2. ASSUME NEW r \in Replies, NEW t \in Task, task[r] \in Task,
             t.key = task[r].key, t.expected = task[r].expected,
             task' = [task EXCEPT ![r] = t]
      PROVE  \A q \in Replies : SameTask(q)
  <2>1. task'[r] = t /\ \A q \in Replies : q # r => task'[q] = task[q]
    BY <1>2 DEF TypeOK
  <2>2. t # NoTask /\ task[r] # NoTask
    BY <1>2 DEF Task, NoTask
  <2> QED  BY <1>2, <2>1, <2>2 DEF SameTask
<1>3. ASSUME NEW r \in Replies, Moving(r)
      PROVE  \A q \in Replies : SameTask(q)
  <2>1. task[r] \in Task
    BY <1>3, StateChanges DEF TypeOK, NoTask
  <2>2. \E s \in TaskState \ {"none"} : task' = [task EXCEPT ![r].state = s]
    BY <1>3, StateChanges
  <2>3. PICK s \in TaskState \ {"none"} :
           task' = [task EXCEPT ![r] = [task[r] EXCEPT !.state = s]]
    BY <2>2
  <2>4. /\ [task[r] EXCEPT !.state = s] \in Task
        /\ [task[r] EXCEPT !.state = s].key = task[r].key
        /\ [task[r] EXCEPT !.state = s].expected = task[r].expected
    BY <2>1 DEF Task
  <2> QED  BY <1>2, <2>1, <2>3, <2>4
<1>4. ASSUME NEW r \in Replies, Lease(r)
      PROVE  \A q \in Replies : SameTask(q)
  <2>1. task[r] \in Task /\ task[r].n + 1 \in Attempts
    BY <1>4 DEF Lease, TypeOK, NoTask, Task, Attempts
  <2>2. task' = [task EXCEPT ![r] = [task[r] EXCEPT !.state = "running", !.n = @ + 1]]
    BY <1>4 DEF Lease
  <2>3. /\ [task[r] EXCEPT !.state = "running", !.n = @ + 1] \in Task
        /\ [task[r] EXCEPT !.state = "running", !.n = @ + 1].key = task[r].key
        /\ [task[r] EXCEPT !.state = "running", !.n = @ + 1].expected
              = task[r].expected
    BY <2>1 DEF Task, TaskState
  <2> QED  BY <1>2, <2>1, <2>2, <2>3
<1>5. ASSUME NEW r \in Replies, NEW n \in Attempts, AttemptStep(r, n)
      PROVE  \A q \in Replies : SameTask(q)
  BY <1>5, AttemptTouches DEF TasksKept, TaskKept, SameTask
<1>6. CASE EmergencyStop
  BY <1>6, StopKeeps DEF TasksKept, TaskKept, SameTask
<1>7. CASE OwnerStep
  BY <1>1, <1>3, <1>6, <1>7
     DEF OwnerStep, Moving, Edit, Compose, Resend, SendMessage, CommandDies,
         Resume, ShowStream, EndStream
<1> QED
  BY <1>1, <1>3, <1>4, <1>5, <1>7 DEF Next, QueueStep, Moving, AttemptStep, vars

(* Only these steps touch the thread or the version.                       *)
Answering(r, n) ==
    /\ ~run[r][n].hung
    /\ AppendAnswer(r, n)
    /\ ~Answered(r)
    /\ Timely(r)
    /\ Appended(task[r].key, r, run[r][n].read)

Asking(k) ==
    /\ SendMessage(k)
    /\ ~Stored(k)
    /\ Fresh(command[k].expected)
    /\ Appended(k, 0, 0)
    /\ command' = [command EXCEPT ![k].pc = "appended"]

(* Asking, Answering, an edit, or no change of the store.                  *)
LEMMA StoreSteps ==
    ASSUME [Next]_vars
    PROVE  \/ UNCHANGED store
           \/ Edit
           \/ \E k \in Keys : Asking(k)
           \/ \E r \in Replies, n \in Attempts : Answering(r, n)
<1>1. CASE UNCHANGED vars
  BY <1>1 DEF vars
<1>2. CASE OwnerStep
  BY <1>2 DEF OwnerStep, Compose, Resend, SendMessage, CommandDies, QueueReply,
     Enqueue, Specify, Cancel, EmergencyStop, Resume, ShowStream, EndStream, Asking
<1>3. CASE QueueStep
  BY <1>3 DEF QueueStep, Lease, Reclaim
<1>4. ASSUME NEW r \in Replies, NEW n \in Attempts, AttemptStep(r, n)
      PROVE  UNCHANGED store \/ Answering(r, n)
  BY <1>4 DEF AttemptStep, DriverStep, WriterStep, Crash, Stall, Hang, Push, WriteLands,
     WriteFails, ReadHistory, FindSession, ClearStale, ProviderAnswers,
     ProviderFails, Forget, Flush, Remember, AppendAnswer, Tidy, Settle, Answering
<1> QED
  BY <1>1, <1>2, <1>3, <1>4 DEF Next, AttemptStep

(* Ordinals ascend in every step.                                          *)
LEMMA OrderStep ==
    ASSUME TypeOK, AttemptsCounted, InOrder, [Next]_vars
    PROVE  InOrder'
<1>1. CASE UNCHANGED store
  BY <1>1 DEF InOrder, store
<1>2. CASE Edit
  <2>1. version \in Nat /\ \A i \in DOMAIN thread : thread[i].ordinal \in Nat
    BY Ordinals DEF TypeOK
  <2> QED  BY <1>2, <2>1 DEF InOrder, Edit
<1>3. ASSUME NEW k \in Keys, Asking(k)
      PROVE  InOrder'
  <2>1. 0 \in {0} \cup Replies /\ 0 \in Nat
    OBVIOUS
  <2> QED  BY <1>3, <2>1, OrderKept DEF Asking
<1>4. ASSUME NEW r \in Replies, NEW n \in Attempts, Answering(r, n)
      PROVE  InOrder'
  <2>1. task[r].key \in Keys /\ run[r][n].read \in Nat
    <3>1. run[r][n] \in Run /\ run[r][n].pc # "none"
      BY <1>4 DEF Answering, AppendAnswer, At, TypeOK
    <3> QED  BY <3>1, Begun DEF Run, Task
  <2> QED  BY <1>4, <2>1, OrderKept DEF Answering
<1> QED
  BY <1>1, <1>2, <1>3, <1>4, StoreSteps

CommandStays(k) ==
    /\ command[k].pc # "idle" => /\ command'[k].pc # "idle"
                                 /\ command'[k].expected = command[k].expected
    /\ command'[k].pc \in Through => Stored(k)

(* A command that moves on keeps the version it was sent with,             *)
LEMMA CommandMoves ==
    ASSUME TypeOK, QuestionsKept, NEW k \in Keys, NEW s \in CommandState \ {"idle"},
           command' = [command EXCEPT ![k].pc = s],
           s \in Through => Stored(k)
    PROVE  \A q \in Keys : CommandStays(q)
<1>1. /\ command'[k].pc = s /\ command'[k].expected = command[k].expected
      /\ \A q \in Keys : q # k => command'[q] = command[q]
  BY DEF TypeOK
<1> QED
  BY <1>1 DEF QuestionsKept, CommandStays

(* and so do all commands, in every step but the two treated apart.        *)
LEMMA CommandsStay ==
    ASSUME TypeOK, AttemptsCounted, QuestionsKept, [Next]_vars,
           \A k \in Keys : ~Asking(k) /\ \A r \in Replies : ~QueueReply(k, r)
    PROVE  \A q \in Keys : CommandStays(q)
<1>1. CASE UNCHANGED command
  BY <1>1 DEF QuestionsKept, CommandStays
<1>2. ASSUME NEW k \in Keys, NEW from \in {"dashboard", "telegram"}, Compose(k, from)
      PROVE  \A q \in Keys : CommandStays(q)
  <2>1. /\ command[k].pc = "idle" /\ command'[k].pc = "sent"
        /\ \A q \in Keys : q # k => command'[q] = command[q]
    BY <1>2 DEF Compose, TypeOK
  <2> QED  BY <2>1 DEF QuestionsKept, CommandStays, Through
<1>3. ASSUME NEW k \in Keys, Resend(k)
      PROVE  \A q \in Keys : CommandStays(q)
  <2>1. command' = [command EXCEPT ![k].pc = "sent"]
    BY <1>3 DEF Resend
  <2>2. "sent" \in CommandState \ {"idle"} /\ "sent" \notin Through
    BY DEF CommandState, Through
  <2> QED  BY <2>1, <2>2, CommandMoves
<1>4. ASSUME NEW k \in Keys, SendMessage(k)
      PROVE  \A q \in Keys : CommandStays(q)
  <2>1. \E s \in {"appended", "refused"} :
           /\ command' = [command EXCEPT ![k].pc = s]
           /\ s = "appended" => Stored(k)
    BY <1>4 DEF SendMessage, Asking
  <2> QED  BY <2>1, CommandMoves DEF CommandState, Through
<1>5. ASSUME NEW k \in Keys, CommandDies(k)
      PROVE  \A q \in Keys : CommandStays(q)
  BY <1>5, CommandMoves DEF CommandDies, CommandState, QuestionsKept, Through
<1>6. ASSUME NEW k \in Keys, NEW r \in Replies, Enqueue(k, r) \/ Specify(k, r)
      PROVE  \A q \in Keys : CommandStays(q)
  <2>1. /\ command[k].pc \in Through \ {"idle"}
        /\ command'[k].pc \in Through \ {"idle"}
        /\ command'[k].expected = command[k].expected
        /\ \A q \in Keys : q # k => command'[q] = command[q]
    BY <1>6 DEF Enqueue, Specify, TypeOK, Through
  <2> QED  BY <2>1 DEF QuestionsKept, CommandStays
<1>7. CASE OwnerStep
  BY <1>1, <1>2, <1>3, <1>4, <1>5, <1>6, <1>7
     DEF OwnerStep, Edit, Cancel, EmergencyStop, Resume, ShowStream, EndStream
<1>8. ASSUME NEW r \in Replies, NEW n \in Attempts, AttemptStep(r, n)
      PROVE  \A q \in Keys : CommandStays(q)
  BY <1>1, <1>8, AttemptTouches
<1> QED
  BY <1>1, <1>7, <1>8 DEF Next, QueueStep, Lease, Reclaim, AttemptStep, vars

(* Questions are kept in every step.                                       *)
LEMMA QuestionStep ==
    ASSUME TypeOK, AttemptsCounted, InOrder, QuestionsKept, [Next]_vars
    PROVE  QuestionsKept'
<1>1. ASSUME NEW k \in Keys, Asking(k)
      PROVE  QuestionsKept'
  BY <1>1, QuestionAsked DEF Asking
<1>2. ASSUME NEW r \in Replies, NEW n \in Attempts, Answering(r, n)
      PROVE  QuestionsKept'
  <2>1. task[r] \in Task /\ run[r][n] \in Run
    BY <1>2, Begun DEF Answering, AppendAnswer, At, TypeOK
  <2>2. task[r] # NoTask
    BY <2>1 DEF Task, NoTask
  <2>3. Stored(task[r].key) /\ task[r].key \in Keys /\ run[r][n].read \in Nat
    BY <2>1, <2>2, Expecting DEF Task, Run
  <2>4. AttemptStep(r, n)
    BY <1>2 DEF Answering, AttemptStep, DriverStep
  <2>5. UNCHANGED command /\ \A q \in Replies : SameTask(q)
    BY <2>4, AttemptTouches DEF TasksKept, TaskKept, SameTask
  <2> QED  BY <1>2, <2>3, <2>5, AnswerAdded DEF Answering
<1>3. ASSUME NEW k \in Keys, NEW r \in Replies, QueueReply(k, r)
      PROVE  QuestionsKept'
  <2>1. /\ Stored(k) /\ command[k].pc = "appended" /\ thread' = thread
        /\ \A i \in DOMAIN thread : thread[i].key \in Keys
    BY <1>3, KeyOfMessage DEF QueueReply, QuestionsKept, Through, store
  <2>2. PICK i \in DOMAIN thread : AskedAt(i, k, command[k].expected + 1)
    BY <2>1 DEF Stored, AskedAt, QuestionsKept
  <2>3. /\ task'[r].key = k /\ task'[r].expected = command[k].expected + 1
        /\ \A q \in Replies : q # r => task'[q] = task[q]
    BY <1>3 DEF QueueReply, TypeOK
  <2>4. /\ command'[k].pc = "submitted" /\ command'[k].expected = command[k].expected
        /\ \A q \in Keys : q # k => command'[q] = command[q]
    BY <1>3 DEF QueueReply, TypeOK
  <2>5. \A q \in Keys :
           /\ command[q].pc # "idle" =>
                 /\ command'[q].pc # "idle"
                 /\ command'[q].expected = command[q].expected
           /\ command'[q].pc \in Through => Stored(q)
    BY <2>1, <2>4 DEF QuestionsKept
  <2>6. \A q : Stored(q)' = Stored(q)
    BY <2>1 DEF Stored
  <2>7. \A j \in DOMAIN thread :
           /\ Stored(thread[j].key)
           /\ thread[j].task = 0 =>
                 /\ command'[thread[j].key].pc # "idle"
                 /\ thread[j].ordinal = command'[thread[j].key].expected + 1
    BY <2>1, <2>5 DEF QuestionsKept
  <2>8. \A q \in Replies :
           task'[q] # NoTask =>
              \E j \in DOMAIN thread : AskedAt(j, task'[q].key, task'[q].expected)
    BY <2>2, <2>3 DEF QuestionsKept
  <2> QED  BY <2>1, <2>5, <2>6, <2>7, <2>8 DEF QuestionsKept, AskedAt
<1>4. ASSUME UNCHANGED store \/ Edit,
             \A k \in Keys : ~Asking(k) /\ \A r \in Replies : ~QueueReply(k, r)
      PROVE  QuestionsKept'
  <2>1. UNCHANGED thread /\ \A i \in DOMAIN thread : thread[i].key \in Keys
    BY <1>4, KeyOfMessage DEF store, Edit
  <2>2. \A q \in Replies : SameTask(q)
    BY <1>4, SameTasks
  <2>3. \A k \in Keys : CommandStays(k)
    BY <1>4, CommandsStay
  <2> QED  BY <2>1, <2>2, <2>3, QuestionsStay DEF CommandStays
<1> QED
  BY <1>1, <1>2, <1>3, <1>4, StoreSteps

-----------------------------------------------------------------------------
(* What the drivers have read.                                             *)

(* The version moves past what every attempt in progress waits for, so     *)
(* those attempts keep their part.                                         *)
LEMMA OthersSound ==
    ASSUME TypeOK, InOrder, QuestionsKept, AttemptsCounted, [Next]_vars,
           NEW q \in Replies, NEW m \in Attempts, RunSound(q, m),
           run'[q][m] = run[q][m], SameTask(q)
    PROVE  RunSound(q, m)'
<1>1. CASE UNCHANGED store
  <2>1. thread' = thread /\ version' = version
    BY <1>1 DEF store
  <2> QED  BY <2>1 DEF RunSound, Informed, SameTask, Answered
<1>2. ASSUME version' = version + 1, Answered(q) => Answered(q)'
      PROVE  RunSound(q, m)'
  <2>1. ASSUME Informed(run[q][m])
        PROVE  version' # task'[q].expected
    <3>1. run[q][m].pc # "none"
      BY <2>1 DEF Informed
    <3>2. task[q] \in Task /\ task[q] # NoTask
      BY <3>1, Begun DEF Task, NoTask
    <3>3. task[q].expected <= version /\ task[q].expected \in Nat /\ version \in Nat
      BY <3>2, Expecting DEF Task, TypeOK
    <3> QED  BY <1>2, <3>3 DEF SameTask
  <2>2. Informed(run[q][m])' <=> Informed(run[q][m])
    BY DEF Informed
  <2> QED  BY <1>2, <2>1, <2>2 DEF RunSound
<1>3. CASE Edit
  BY <1>2, <1>3 DEF Edit, Answered
<1>4. ASSUME NEW k \in Keys, Asking(k)
      PROVE  RunSound(q, m)'
  <2>1. 0 \in {0} \cup Replies /\ 0 \in Nat
    OBVIOUS
  <2>2. Answered(q) => Answered(q)'
    BY <1>4, <2>1, StoredKept DEF Asking
  <2> QED  BY <1>2, <1>4, <2>2 DEF Asking, Appended
<1>5. ASSUME NEW r \in Replies, NEW n \in Attempts, Answering(r, n)
      PROVE  RunSound(q, m)'
  <2>1. task[r].key \in Keys /\ run[r][n].read \in Nat
    <3>1. run[r][n] \in Run /\ run[r][n].pc # "none"
      BY <1>5 DEF Answering, AppendAnswer, At, TypeOK
    <3> QED  BY <3>1, Begun DEF Run, Task
  <2>2. Answered(q) => Answered(q)'
    BY <1>5, <2>1, StoredKept DEF Answering
  <2> QED  BY <1>2, <1>5, <2>2 DEF Answering, Appended
<1> QED
  BY <1>1, <1>3, <1>4, <1>5, StoreSteps

(* The attempt that moves keeps its part by what it does.                  *)
LEMMA OwnSound ==
    ASSUME TypeOK, AttemptsCounted, RunsSound,
           NEW r \in Replies, NEW n \in Attempts, AttemptStep(r, n)
    PROVE  RunSound(r, n)'
<1> DEFINE x == run[r][n]
<1>1. /\ x \in Run /\ RunSound(r, n) /\ SameTask(r)
      /\ run \in [Replies -> [Attempts -> Run]]
  BY AttemptTouches DEF TypeOK, RunsSound, TasksKept, TaskKept, SameTask
<1>2. ASSUME NEW y \in Run, Becomes(r, n, y)
      PROVE  run'[r][n] = y
  BY <1>1, <1>2 DEF Becomes
<1>3. ASSUME NEW y, run'[r][n] = y, UNCHANGED store,
             y.ok => y.pc = "flush",
             Informed(y) /\ version = task[r].expected => y.read = Len(thread),
             y.pc \in {"tidy", "returned"} => Answered(r)
      PROVE  RunSound(r, n)'
  <2>1. version' = version /\ thread' = thread /\ task'[r].expected = task[r].expected
    BY <1>1, <1>3 DEF store, SameTask
  <2> QED  BY <1>3, <2>1 DEF RunSound, Informed, Answered
<1>4. ASSUME NEW y, run'[r][n] = y, UNCHANGED store,
             y.pc = x.pc, y.ok = x.ok, y.read = x.read
      PROVE  RunSound(r, n)'
  BY <1>1, <1>3, <1>4 DEF RunSound, Informed
<1>5. ASSUME NEW y, run'[r][n] = y, UNCHANGED store,
             y.pc \in {"none", "forget", "flush", "threw"}, ~y.ok
      PROVE  RunSound(r, n)'
  BY <1>3, <1>5 DEF Informed
<1>6. CASE ReadHistory(r, n)
  <2>1. run'[r][n] = [x EXCEPT !.pc = "session", !.read = Len(thread)]
    BY <1>1, <1>6 DEF ReadHistory, Becomes
  <2>2. ~x.ok
    BY <1>1, <1>6 DEF ReadHistory, At, RunSound, Run
  <2> QED  BY <1>1, <1>3, <1>6, <2>1, <2>2 DEF ReadHistory, Run
<1>7. CASE FindSession(r, n)
  <2>1. PICK found \in BOOLEAN :
           run'[r][n] = [x EXCEPT !.pc = "clear", !.resume = found]
    <3>1. session \in BOOLEAN
      BY DEF TypeOK
    <3>2. \E found \in BOOLEAN : Becomes(r, n, [x EXCEPT !.pc = "clear", !.resume = found])
      BY <1>7, <3>1 DEF FindSession
    <3> QED  BY <1>1, <3>2 DEF Becomes
  <2>2. ~x.ok /\ Informed(x)
    BY <1>1, <1>7 DEF FindSession, At, RunSound, Run, Informed
  <2> QED  BY <1>1, <1>3, <1>7, <2>1, <2>2 DEF FindSession, Run, RunSound
<1>8. CASE ClearStale(r, n) \/ Remember(r, n)
  <2>1. PICK label \in {"provider", "append"} : run'[r][n] = [x EXCEPT !.pc = label]
    BY <1>1, <1>8 DEF ClearStale, Remember, Goto, Becomes
  <2>2. ~x.ok /\ Informed(x)
    BY <1>1, <1>8 DEF ClearStale, Remember, At, RunSound, Run, Informed
  <2> QED  BY <1>1, <1>3, <1>8, <2>1, <2>2 DEF ClearStale, Remember, Run, RunSound
<1>9. CASE ProviderAnswers(r, n)
  <2>1. run'[r][n] = [x EXCEPT !.pc = "flush", !.ok = TRUE, !.resume = FALSE]
    BY <1>1, <1>9 DEF ProviderAnswers, Becomes
  <2>2. Informed(x)
    BY <1>9 DEF ProviderAnswers, At, Informed
  <2> QED  BY <1>1, <1>3, <1>9, <2>1, <2>2 DEF ProviderAnswers, Run, RunSound
<1>10. CASE ProviderFails(r, n)
  <2>1. PICK label \in {"forget", "flush"} :
           run'[r][n] = [x EXCEPT !.pc = label, !.resume = FALSE, !.read = 0]
    BY <1>1, <1>10 DEF ProviderFails, Becomes
  <2>2. ~x.ok
    BY <1>1, <1>10 DEF ProviderFails, At, RunSound, Run
  <2> QED  BY <1>1, <1>5, <1>10, <2>1, <2>2 DEF ProviderFails, Run
<1>11. CASE Forget(r, n)
  <2>1. run'[r][n] = [x EXCEPT !.pc = "flush"]
    BY <1>1, <1>11 DEF Forget, Goto, Becomes
  <2>2. ~x.ok
    BY <1>1, <1>11 DEF Forget, At, RunSound, Run
  <2> QED  BY <1>1, <1>5, <1>11, <2>1, <2>2 DEF Forget, Run
<1>12. CASE Flush(r, n)
  <2>1. run'[r][n] = [x EXCEPT !.pc = IF x.ok THEN "remember" ELSE "threw", !.ok = FALSE]
    BY <1>1, <1>12 DEF Flush, Becomes
  <2>2. CASE x.ok
    <3>1. Informed(x)
      BY <1>12, <2>2 DEF Flush, At, Informed
    <3>2. /\ run'[r][n].pc = "remember" /\ ~run'[r][n].ok
          /\ run'[r][n].read = x.read
      BY <1>1, <2>1, <2>2 DEF Run
    <3>3. UNCHANGED store
      BY <1>12 DEF Flush
    <3> QED  BY <1>1, <1>3, <3>1, <3>2, <3>3 DEF RunSound
  <2>3. CASE ~x.ok
    BY <1>1, <1>5, <1>12, <2>1, <2>3 DEF Flush, Run
  <2> QED  BY <2>2, <2>3
<1>13. CASE AppendAnswer(r, n) /\ ~x.hung
  <2>1. ~x.ok
    BY <1>1, <1>13 DEF AppendAnswer, At, RunSound, Run
  <2>2. CASE Answering(r, n)
    <3>1. run'[r][n] = [[x EXCEPT !.read = 0] EXCEPT !.pc = "tidy"]
      BY <1>1, <1>13, <2>2 DEF AppendAnswer, Answering, Becomes
    <3>2. task[r].key \in Keys /\ x.read \in Nat
      <4>1. x.pc # "none"
        BY <1>13 DEF AppendAnswer, At
      <4> QED  BY <1>1, <4>1, Begun DEF Run, Task
    <3>3. Answered(r)'
      <4>1. r \in {0} \cup Replies /\ r # 0
        BY DEF Replies
      <4> QED  BY <2>2, <3>2, <4>1, StoredKept DEF Answering
    <3>4. run'[r][n].pc = "tidy" /\ run'[r][n].ok = x.ok
      BY <1>1, <3>1 DEF Run
    <3> QED  BY <2>1, <3>3, <3>4 DEF RunSound, Informed
  <2>3. CASE Becomes(r, n, [[x EXCEPT !.read = 0] EXCEPT !.pc = Refusal]) /\ UNCHANGED store
    <3>1. run'[r][n] = [[x EXCEPT !.read = 0] EXCEPT !.pc = "threw"]
      BY <1>1, <2>3 DEF Becomes, Refusal
    <3> QED  BY <1>1, <1>5, <2>1, <2>3, <3>1 DEF Run
  <2> QED  BY <1>13, <2>2, <2>3 DEF AppendAnswer, Answering
<1>14. CASE Tidy(r, n)
  <2>1. run'[r][n] = [x EXCEPT !.pc = "returned"]
    BY <1>1, <1>14 DEF Tidy, Goto, Becomes
  <2>2. ~x.ok /\ Answered(r)
    BY <1>1, <1>14 DEF Tidy, At, RunSound, Run
  <2> QED  BY <1>1, <1>3, <1>14, <2>1, <2>2 DEF Tidy, Run, Informed
<1>15. NoRun.pc = "none" /\ ~NoRun.ok /\ Left(x).pc = "none" /\ ~Left(x).ok
  BY DEF NoRun, Left
<1>16. CASE Settle(r, n) \/ Crash(r, n)
  <2>1. run'[r][n] \in {Left(x), NoRun}
    BY <1>1, <1>16 DEF Settle, Crash
  <2> QED  BY <1>5, <1>15, <1>16, <2>1 DEF Settle, Crash
<1>17. CASE Push(r, n) \/ Stall(r, n) \/ Hang(r, n)
  <2>1. run'[r][n] \in {[x EXCEPT !.pushed = @ + 1], [x EXCEPT !.stalled = TRUE],
                        [x EXCEPT !.hung = TRUE]}
    BY <1>1, <1>17 DEF Push, Stall, Hang
  <2> QED  BY <1>1, <1>4, <1>17, <2>1 DEF Push, Stall, Hang, Run
<1>18. CASE WriteLands(r, n) \/ WriteFails(r, n)
  <2>1. LET y == [x EXCEPT !.written = @ + 1]
        IN  run'[r][n] = IF y.pc = "none" THEN Left(y) ELSE y
    BY <1>1, <1>18 DEF WriteLands, WriteFails, Writing, Becomes
  <2>2. CASE x.pc = "none"
    <3>1. run'[r][n].pc = "none" /\ ~run'[r][n].ok
      BY <1>1, <2>1, <2>2 DEF Left, NoRun, Run
    <3> QED  BY <1>5, <1>18, <3>1 DEF WriteLands, WriteFails
  <2>3. CASE x.pc # "none"
    <3>1. run'[r][n] = [x EXCEPT !.written = @ + 1]
      BY <1>1, <2>1, <2>3 DEF Run
    <3> QED  BY <1>1, <1>4, <1>18, <3>1 DEF WriteLands, WriteFails, Run
  <2> QED  BY <2>2, <2>3
<1> QED
  BY <1>6, <1>7, <1>8, <1>9, <1>10, <1>11, <1>12, <1>13, <1>14, <1>16, <1>17, <1>18
     DEF AttemptStep, DriverStep, WriterStep

(* Every attempt keeps its part in every step.                             *)
LEMMA RunStep ==
    ASSUME TypeOK, InOrder, QuestionsKept, AttemptsCounted, RunsSound, [Next]_vars
    PROVE  RunsSound'
<1>1. ASSUME NEW q \in Replies, NEW m \in Attempts,
             run'[q][m] = run[q][m], SameTask(q)
      PROVE  RunSound(q, m)'
  BY <1>1, OthersSound DEF RunsSound
<1>2. ASSUME NEW k \in Keys, NEW r \in Replies, QueueReply(k, r)
      PROVE  RunsSound'
  <2>1. ASSUME NEW m \in Attempts
        PROVE  RunSound(r, m)'
    <3>1. task[r].n = 0 /\ m > 0 /\ run' = run
      BY <1>2 DEF QueueReply, NoTask, Attempts
    <3>2. run'[r][m] = NoRun
      BY <3>1 DEF AttemptsCounted
    <3> QED  BY <3>2 DEF RunSound, Informed, NoRun
  <2>2. ASSUME NEW q \in Replies, q # r, NEW m \in Attempts
        PROVE  RunSound(q, m)'
    <3>1. run' = run /\ task'[q] = task[q]
      BY <1>2, <2>2 DEF QueueReply, TypeOK
    <3> QED  BY <1>1, <3>1 DEF SameTask
  <2> QED  BY <2>1, <2>2 DEF RunsSound
<1>3. ASSUME NEW r \in Replies, Lease(r)
      PROVE  RunsSound'
  <2>1. \A q \in Replies : SameTask(q)
    <3>1. \A k \in Keys, q \in Replies : ~QueueReply(k, q)
      BY <1>3 DEF Lease, QueueReply, TypeOK
    <3> QED  BY <3>1, SameTasks
  <2>2. task[r] \in Task /\ task[r].n + 1 \in Attempts
    BY <1>3 DEF Lease, TypeOK, NoTask, Task, Attempts
  <2>3. PICK n \in Attempts : n = task[r].n + 1
    BY <2>2
  <2>4. n > task[r].n
    BY <2>2, <2>3 DEF Task, Attempts
  <2>5. run[r][n] = NoRun
    BY <2>4 DEF AttemptsCounted
  <2>6. /\ run'[r][n] = [NoRun EXCEPT !.pc = "history"]
        /\ \A q \in Replies, m \in Attempts :
              q # r \/ m # n => run'[q][m] = run[q][m]
    BY <1>3, <2>3, <2>5 DEF Lease, TypeOK
  <2>7. RunSound(r, n)'
    BY <2>6 DEF RunSound, Informed, NoRun
  <2> QED  BY <1>1, <2>1, <2>6, <2>7 DEF RunsSound
<1>4. ASSUME NEW r \in Replies, NEW n \in Attempts, AttemptStep(r, n)
      PROVE  RunsSound'
  <2>1. RunSound(r, n)'
    BY <1>4, OwnSound
  <2>2. \A q \in Replies : SameTask(q)
    BY <1>4, AttemptTouches DEF TasksKept, TaskKept, SameTask
  <2>3. \A q \in Replies, m \in Attempts :
           (q # r \/ m # n) => run'[q][m] = run[q][m]
    BY <1>4, AttemptTouches
  <2> QED  BY <1>1, <2>1, <2>2, <2>3 DEF RunsSound
<1>5. ASSUME UNCHANGED run, \A k \in Keys, r \in Replies : ~QueueReply(k, r)
      PROVE  RunsSound'
  <2>1. \A q \in Replies : SameTask(q)
    BY <1>5, SameTasks
  <2> QED  BY <1>1, <1>5, <2>1 DEF RunsSound
<1>6. CASE OwnerStep
  <2>1. UNCHANGED run
    BY <1>6 DEF OwnerStep, Edit, Compose, Resend, SendMessage, CommandDies,
       QueueReply, Enqueue, Specify, Cancel, EmergencyStop, Resume, ShowStream,
       EndStream
  <2> QED  BY <1>2, <1>5, <2>1
<1>7. ASSUME NEW r \in Replies, Reclaim(r)
      PROVE  RunsSound'
  <2>1. UNCHANGED run
    BY <1>7 DEF Reclaim
  <2> QED  BY <1>2, <1>5, <2>1
<1>8. CASE UNCHANGED vars
  <2>1. UNCHANGED run
    BY <1>8 DEF vars
  <2> QED  BY <1>2, <1>5, <2>1
<1> QED
  BY <1>3, <1>4, <1>6, <1>7, <1>8 DEF Next, QueueStep, AttemptStep

-----------------------------------------------------------------------------
(* Answers.                                                                *)

(* The version is the task's when the answer is stored: what its driver    *)
(* read is the thread.                                                     *)
LEMMA InformedStep ==
    ASSUME TypeOK, RunsSound, AttemptsCounted, AnswerSawTheThread, [Next]_vars
    PROVE  AnswerSawTheThread'
<1>1. ASSUME UNCHANGED thread
      PROVE  AnswerSawTheThread'
  BY <1>1 DEF AnswerSawTheThread
<1>2. ASSUME NEW k \in Keys, NEW r \in {0} \cup Replies, NEW read \in Nat,
             Appended(k, r, read), r # 0 => read = Len(thread)
      PROVE  AnswerSawTheThread'
  <2>1. /\ Len(thread) \in Nat
        /\ DOMAIN thread = 1..Len(thread)
        /\ DOMAIN thread' = 1..(Len(thread) + 1)
        /\ \A i \in DOMAIN thread : thread'[i] = thread[i]
        /\ thread'[Len(thread) + 1] =
              [ordinal |-> version + 1, key |-> k, task |-> r, read |-> read]
    <3>1. version \in Nat /\ thread \in Seq(Message)
      BY DEF TypeOK
    <3> QED  BY <1>2, <3>1, Longer
  <2>2. ASSUME NEW i \in DOMAIN thread', thread'[i].task # 0
        PROVE  thread'[i].read = i - 1
    <3>1. CASE i \in DOMAIN thread
      BY <2>1, <2>2, <3>1 DEF AnswerSawTheThread
    <3>2. CASE i = Len(thread) + 1
      <4>1. thread'[i].task = r /\ thread'[i].read = read
        BY <2>1, <3>2
      <4>2. r # 0
        BY <2>2, <4>1
      <4>3. Len(thread) = i - 1
        BY <2>1, <3>2
      <4> QED  BY <1>2, <4>1, <4>2, <4>3
    <3> QED  BY <2>1, <2>2, <3>1, <3>2
  <2> QED  BY <2>2 DEF AnswerSawTheThread
<1>3. ASSUME NEW k \in Keys, Asking(k)
      PROVE  AnswerSawTheThread'
  <2>1. 0 \in {0} \cup Replies /\ 0 \in Nat
    OBVIOUS
  <2> QED  BY <1>2, <1>3, <2>1 DEF Asking
<1>4. ASSUME NEW r \in Replies, NEW n \in Attempts, Answering(r, n)
      PROVE  AnswerSawTheThread'
  <2>1. run[r][n] \in Run /\ run[r][n].pc = "append"
    BY <1>4 DEF Answering, AppendAnswer, At, TypeOK
  <2>2. task[r].key \in Keys /\ run[r][n].read \in Nat
    BY <2>1, Begun DEF Run, Task
  <2>3. run[r][n].read = Len(thread)
    BY <1>4, <2>1 DEF RunsSound, RunSound, Informed, Answering, Timely, Fresh
  <2> QED  BY <1>2, <1>4, <2>2, <2>3 DEF Answering
<1> QED
  BY <1>1, <1>3, <1>4, StoreSteps DEF store, Edit

(* Only a driver that has stored its answer settles its task so.           *)
LEMMA SuccessStep ==
    ASSUME TypeOK, RunsSound, AttemptsCounted, SucceededIsAnswered, [Next]_vars
    PROVE  SucceededIsAnswered'
<1>1. ASSUME NEW r \in Replies, Answered(r)
      PROVE  Answered(r)'
  <2>1. CASE UNCHANGED thread
    BY <1>1, <2>1 DEF Answered
  <2>2. ASSUME NEW k \in Keys, Asking(k)
        PROVE  Answered(r)'
    <3>1. 0 \in {0} \cup Replies /\ 0 \in Nat
      OBVIOUS
    <3> QED  BY <1>1, <2>2, <3>1, StoredKept DEF Asking
  <2>3. ASSUME NEW q \in Replies, NEW n \in Attempts, Answering(q, n)
        PROVE  Answered(r)'
    <3>1. run[q][n] \in Run /\ run[q][n].pc # "none"
      BY <2>3 DEF Answering, AppendAnswer, At, TypeOK
    <3>2. task[q].key \in Keys /\ run[q][n].read \in Nat
      BY <3>1, Begun DEF Run, Task
    <3> QED  BY <1>1, <2>3, <3>2, StoredKept DEF Answering
  <2> QED  BY <2>1, <2>2, <2>3, StoreSteps DEF store, Edit
<1>2. ASSUME NEW r \in Replies, task'[r].state = "succeeded"
      PROVE  task[r].state = "succeeded" \/ Answered(r)
  <2>1. CASE task'[r] = task[r]
    BY <1>2, <2>1
  <2>2. ASSUME NEW q \in Replies, NEW s, task' = [task EXCEPT ![q].state = s],
               q = r /\ s = "succeeded" => Answered(r)
        PROVE  task[r].state = "succeeded" \/ Answered(r)
    <3>1. CASE q # r
      BY <2>1, <2>2, <3>1 DEF TypeOK
    <3>2. CASE q = r
      <4>1. task[r] \in Task \cup {NoTask}
        BY DEF TypeOK
      <4>2. task'[r].state = s
        BY <2>2, <3>2, <4>1 DEF TypeOK, Task, NoTask
      <4> QED  BY <1>2, <2>2, <3>2, <4>2
    <3> QED  BY <3>1, <3>2
  <2>3. ASSUME NEW q \in Replies, task' = Degraded(q)
        PROVE  task[r].state = "succeeded" \/ Answered(r)
    <3>1. task[r] \in Task \cup {NoTask}
      BY DEF TypeOK
    <3>2. task'[r].state = task[r].state
      BY <2>3, <3>1 DEF Degraded, TypeOK, Task, NoTask
    <3> QED  BY <1>2, <3>2
  <2>4. ASSUME NEW q \in Replies, NEW n \in Attempts, Settle(q, n)
        PROVE  task[r].state = "succeeded" \/ Answered(r)
    <3>1. CASE task' = task
      BY <2>1, <3>1
    <3>2. CASE run[q][n].pc = "returned"
      <4>1. Answered(q)
        BY <3>2 DEF RunsSound, RunSound
      <4> QED  BY <2>2, <2>4, <3>1, <3>2, <4>1 DEF Settle
    <3>3. CASE run[q][n].pc # "returned"
      BY <2>2, <2>4, <3>1, <3>3 DEF Settle, AfterFailure
    <3> QED  BY <3>2, <3>3
  <2>5. ASSUME NEW q \in Replies, Moving(q)
        PROVE  task[r].state = "succeeded" \/ Answered(r)
    <3>1. \E s \in {"cancelled", "unspecified", "queued", AfterFailure(q)} :
             task' = [task EXCEPT ![q].state = s]
      BY <2>5 DEF Moving, Cancel, Reclaim, Enqueue, Specify
    <3> QED  BY <2>2, <3>1 DEF AfterFailure
  <2>6. ASSUME NEW q \in Replies, Lease(q)
        PROVE  task[r].state = "succeeded" \/ Answered(r)
    <3>1. task[q] \in Task \cup {NoTask}
      BY DEF TypeOK
    <3>2. task'[q].state = "running" /\ \A p \in Replies : p # q => task'[p] = task[p]
      BY <2>6, <3>1 DEF Lease, TypeOK, Task, NoTask
    <3> QED  BY <1>2, <2>1, <3>2
  <2>7. ASSUME NEW k \in Keys, NEW q \in Replies, QueueReply(k, q)
        PROVE  task[r].state = "succeeded" \/ Answered(r)
    BY <1>2, <2>1, <2>7 DEF QueueReply, TypeOK
  <2>8. CASE UNCHANGED task
    BY <2>1, <2>8
  <2>9. ASSUME NEW q \in Replies, NEW n \in Attempts, AttemptStep(q, n)
        PROVE  task[r].state = "succeeded" \/ Answered(r)
    BY <2>3, <2>4, <2>8, <2>9
       DEF AttemptStep, DriverStep, WriterStep, Crash, Stall, Hang, Push, WriteLands,
           WriteFails, ReadHistory, FindSession, ClearStale, ProviderAnswers,
           ProviderFails, Forget, Flush, Remember, AppendAnswer, Tidy
  <2>10. CASE EmergencyStop
    <3>1. task'[r] = IF task[r].state = "running"
                       THEN [task[r] EXCEPT !.state = "queued"] ELSE task[r]
      BY <2>10 DEF EmergencyStop
    <3>2. task[r].state = "running" => task'[r].state = "queued"
      BY <3>1 DEF TypeOK, Task, NoTask
    <3> QED  BY <1>2, <3>1, <3>2
  <2>11. CASE OwnerStep
    BY <2>5, <2>7, <2>8, <2>10, <2>11
       DEF OwnerStep, Moving, Edit, Compose, Resend, SendMessage, CommandDies,
           Resume, ShowStream, EndStream
  <2> QED
    BY <2>5, <2>6, <2>8, <2>9, <2>11 DEF Next, QueueStep, Moving, AttemptStep, vars
<1> QED
  BY <1>1, <1>2 DEF SucceededIsAnswered

-----------------------------------------------------------------------------
(* The invariant holds at the start: nothing was said, nothing is queued.  *)
LEMMA PipelineInit == Init => PipelineInv
<1> SUFFICES ASSUME Init PROVE PipelineInv
  OBVIOUS
<1>1. /\ thread = <<>> /\ DOMAIN thread = {} /\ version = 0
      /\ \A r \in Replies : task[r] = NoTask
      /\ \A r \in Replies, n \in Attempts : run[r][n] = NoRun
      /\ \A k \in Keys : command[k].pc = "idle"
  BY DEF Init
<1>2. TypeOK
  <2>1. NoRun \in Run /\ NoStream \in StreamRow
    <3>1. MaxFragments \in Nat
      OBVIOUS
    <3> QED  BY <3>1 DEF NoRun, Run, NoStream, StreamRow
  <2>2. <<>> \in Seq(Message)
    OBVIOUS
  <2>3. command \in [Keys -> CommandRow]
    BY DEF Init, CommandRow, CommandState
  <2>4. 0 \in Nat /\ FALSE \in BOOLEAN /\ {} \subseteq Chunk
    OBVIOUS
  <2> QED  BY <2>1, <2>2, <2>3, <2>4 DEF Init, TypeOK, StreamRow, CommandRow
<1>3. InOrder /\ QuestionsKept /\ AnswerSawTheThread
  BY <1>1 DEF InOrder, QuestionsKept, Through, AnswerSawTheThread
<1>4. AttemptsCounted /\ SucceededIsAnswered
  BY <1>1 DEF AttemptsCounted, SucceededIsAnswered, NoTask
<1>5. RunsSound
  BY <1>1 DEF RunsSound, RunSound, Informed, NoRun
<1> QED
  BY <1>2, <1>3, <1>4, <1>5 DEF PipelineInv

(* The version guards the thread, and the drivers' reading of it, in every *)
(* interleaving of the owner's commands, the attempts and their failures.  *)
THEOREM PipelineInvariant == Spec => []PipelineInv
<1>1. PipelineInv /\ [Next]_vars => PipelineInv'
  BY TypeStep, OrderStep, QuestionStep, CountStep, RunStep, InformedStep, SuccessStep
     DEF PipelineInv
<1> QED
  BY <1>1, PipelineInit, PTL DEF Spec

(* Every row and every driver stays within its type.                       *)
THEOREM TypeCorrect == Spec => []TypeOK
<1>1. PipelineInv => TypeOK
  BY DEF PipelineInv
<1> QED
  BY <1>1, PipelineInvariant, PTL

(* An answer was written by an attempt that had read the whole thread up   *)
(* to it.                                                                  *)
THEOREM AnswersInformed == Spec => []AnswerSawTheThread
<1>1. PipelineInv => AnswerSawTheThread
  BY DEF PipelineInv
<1> QED
  BY <1>1, PipelineInvariant, PTL

(* A reply task that is reported as succeeded has its answer in the thread.*)
THEOREM SuccessIsAnswered == Spec => []SucceededIsAnswered
<1>1. PipelineInv => SucceededIsAnswered
  BY DEF PipelineInv
<1> QED
  BY <1>1, PipelineInvariant, PTL

-----------------------------------------------------------------------------
(* The refinement.                                                         *)

(* A message appended to the thread is appended to what it maps to.        *)
LEMMA MessagesGrow ==
    ASSUME TypeOK, NEW k \in Keys, NEW r \in {0} \cup Replies,
           NEW read \in Nat, Appended(k, r, read)
    PROVE  Messages' = Append(Messages,
              [ordinal |-> version + 1,
               role |-> IF r = 0 THEN "owner" ELSE "assistant", of |-> k])
<1> DEFINE new == [ordinal |-> version + 1,
                   role |-> IF r = 0 THEN "owner" ELSE "assistant", of |-> k]
           view(m) == [ordinal |-> m.ordinal, of |-> m.key,
                       role |-> IF m.task = 0 THEN "owner" ELSE "assistant"]
<1>1. /\ Len(thread) \in Nat
      /\ DOMAIN thread = 1..Len(thread)
      /\ DOMAIN thread' = 1..(Len(thread) + 1)
      /\ \A i \in DOMAIN thread : thread'[i] = thread[i]
      /\ thread'[Len(thread) + 1] =
            [ordinal |-> version + 1, key |-> k, task |-> r, read |-> read]
  <2>1. version \in Nat /\ thread \in Seq(Message)
    BY DEF TypeOK
  <2> QED  BY <2>1, Longer
<1>2. /\ Messages = [i \in 1..Len(thread) |-> view(thread[i])]
      /\ Messages' = [i \in 1..(Len(thread) + 1) |-> view(thread'[i])]
  BY <1>1 DEF Messages
<1>3. view(thread'[Len(thread) + 1]) = new
  BY <1>1
<1> HIDE DEF view, new
<1>4. \E S : Messages \in Seq(S) /\ new \in S
  <2> DEFINE S == {view(thread[i]) : i \in 1..Len(thread)} \cup {new}
  <2>1. Messages \in Seq(S)
    BY <1>1, <1>2
  <2> QED  BY <2>1
<1>5. PICK S : Messages \in Seq(S) /\ new \in S
  BY <1>4
<1>6. /\ Len(Messages) = Len(thread)
      /\ Append(Messages, new) \in Seq(S)
      /\ Len(Append(Messages, new)) = Len(thread) + 1
      /\ \A i \in 1..Len(thread) : Append(Messages, new)[i] = Messages[i]
      /\ Append(Messages, new)[Len(thread) + 1] = new
  <2>1. Len(Messages) = Len(thread)
    BY <1>1, <1>2, <1>5, LenProperties
  <2> QED  BY <1>1, <1>5, <2>1, AppendProperties
<1>7. ASSUME NEW t, t = Append(Messages, new)
      PROVE  t = [i \in 1..(Len(thread) + 1) |-> t[i]]
  <2>1. t \in Seq(S) /\ Len(t) = Len(thread) + 1
    BY <1>6, <1>7
  <2>2. t \in [1..(Len(thread) + 1) -> S]
    BY <2>1, LenProperties
  <2> QED  BY <2>2
<1>8. \A i \in 1..(Len(thread) + 1) : Messages'[i] = Append(Messages, new)[i]
  BY <1>1, <1>2, <1>3, <1>6
<1>9. Append(Messages, new) =
         [i \in 1..(Len(thread) + 1) |-> Append(Messages, new)[i]]
  BY <1>7
<1>10. Messages' = Append(Messages, new)
  BY <1>2, <1>8, <1>9
<1> QED
  BY <1>10 DEF new

(* A question that is not stored has no answer either, so it is asked once.*)
LEMMA AskStep ==
    ASSUME TypeOK, QuestionsKept, NEW k \in Keys, Asking(k)
    PROVE  Abstract!Ask(k)
<1>1. 0 \in {0} \cup Replies /\ 0 \in Nat
  OBVIOUS
<1>2. Messages' = Append(Messages,
         [ordinal |-> version + 1, role |-> "owner", of |-> k])
  BY <1>1, MessagesGrow DEF Asking
<1>3. \A i \in DOMAIN Messages : Messages[i].of # k
  <2>1. ASSUME NEW i \in DOMAIN thread
        PROVE  Messages[i].of # k
    <3>1. PICK q : q = thread[i].key
      OBVIOUS
    <3>2. Stored(q)
      BY <3>1 DEF QuestionsKept
    <3>3. q # k
      BY <3>2 DEF Asking
    <3> QED  BY <3>1, <3>3 DEF Messages
  <2> QED  BY <2>1 DEF Messages
<1> QED
  BY <1>2, <1>3 DEF Abstract!Ask, Abstract!Add, Asking, Appended

(* The version is the one the question made: nothing came after it.        *)
LEMMA AnswerStep ==
    ASSUME TypeOK, InOrder, QuestionsKept, AttemptsCounted,
           NEW r \in Replies, NEW n \in Attempts, Answering(r, n)
    PROVE  Abstract!Answer(task[r].key)
<1>1. run[r][n] \in Run /\ run[r][n].pc # "none"
  BY DEF Answering, AppendAnswer, At, TypeOK
<1>2. /\ task[r] \in Task /\ task[r] # NoTask /\ r # 0
      /\ task[r].key \in Keys /\ run[r][n].read \in Nat
  BY <1>1, Begun DEF Run, Task, NoTask, Replies
<1>3. Messages' = Append(Messages,
         [ordinal |-> version + 1, role |-> "assistant", of |-> task[r].key])
  BY <1>2, MessagesGrow DEF Answering
<1>4. PICK i \in DOMAIN thread : AskedAt(i, task[r].key, task[r].expected)
  BY <1>2 DEF QuestionsKept
<1>5. thread[i].ordinal = version
  BY <1>4 DEF AskedAt, Answering, Timely, Fresh
<1>6. /\ Len(thread) \in Nat /\ DOMAIN thread = 1..Len(thread)
      /\ \A j \in DOMAIN thread : thread[j].ordinal \in Nat
      /\ version \in Nat
  BY Ordinals DEF TypeOK
<1>7. i = Len(thread)
  <2>1. ASSUME i < Len(thread)
        PROVE  FALSE
    <3>1. PICK last \in DOMAIN thread : last = Len(thread)
      BY <1>4, <1>6
    <3>2. thread[i].ordinal < thread[last].ordinal /\ thread[last].ordinal <= version
      BY <1>4, <2>1, <3>1 DEF InOrder
    <3> QED  BY <1>5, <1>6, <3>1, <3>2
  <2> QED  BY <1>4, <1>6, <2>1
<1>8. Len(Messages) = Len(thread) /\ Messages # <<>>
  <2>1. Messages = [j \in 1..Len(thread) |->
           [ordinal |-> thread[j].ordinal, of |-> thread[j].key,
            role |-> IF thread[j].task = 0 THEN "owner" ELSE "assistant"]]
    BY <1>6 DEF Messages
  <2>2. DOMAIN Messages = 1..Len(thread)
    BY <2>1
  <2>3. Messages \in Seq({Messages[j] : j \in 1..Len(thread)})
    BY <1>6, <2>1
  <2>4. Len(Messages) = Len(thread)
    BY <1>6, <2>2, <2>3, LenProperties
  <2>5. Len(thread) > 0
    BY <1>4, <1>6
  <2> QED  BY <2>2, <2>4, <2>5
<1>9. Messages[Len(Messages)] =
         [ordinal |-> version, role |-> "owner", of |-> task[r].key]
  BY <1>4, <1>5, <1>7, <1>8 DEF Messages, AskedAt
<1> QED
  BY <1>3, <1>8, <1>9 DEF Abstract!Answer, Abstract!Add, Answering, Appended

(* The pipeline implements the abstract conversation: a message is stored  *)
(* once, an answer comes right after its question and at most once.        *)
THEOREM PipelineImplementsThread == Spec => ImplementsThread
<1>1. Init => Abstract!ThreadInit
  BY DEF Init, Abstract!ThreadInit, Messages
<1>2. PipelineInv /\ [Next]_vars => [Abstract!ThreadNext]_<<version, Messages>>
  <2> SUFFICES ASSUME PipelineInv, [Next]_vars
               PROVE  [Abstract!ThreadNext]_<<version, Messages>>
    OBVIOUS
  <2>1. CASE UNCHANGED store
    BY <2>1 DEF store, Messages
  <2>2. CASE Edit
    BY <2>2 DEF Edit, Messages, Abstract!ThreadNext, Abstract!Retouch
  <2>3. ASSUME NEW k \in Keys, Asking(k)
        PROVE  Abstract!ThreadNext
    BY <2>3, AskStep DEF PipelineInv, Abstract!ThreadNext
  <2>4. ASSUME NEW r \in Replies, NEW n \in Attempts, Answering(r, n)
        PROVE  Abstract!ThreadNext
    <3>1. task[r].key \in Keys
      <4>1. run[r][n].pc # "none"
        BY <2>4 DEF Answering, AppendAnswer, At
      <4> QED  BY <4>1, Begun DEF PipelineInv, Task
    <3>2. Abstract!Answer(task[r].key)
      BY <2>4, AnswerStep DEF PipelineInv
    <3> QED  BY <3>1, <3>2 DEF Abstract!ThreadNext
  <2> QED  BY <2>1, <2>2, <2>3, <2>4, StoreSteps
<1> QED
  BY <1>1, <1>2, PipelineInvariant, PTL
     DEF Spec, ImplementsThread, Abstract!ThreadSpec

-----------------------------------------------------------------------------
(* What ConversationThread promises, which the pipeline keeps because it   *)
(* implements it.  The abstract steps are all that these proofs look at.   *)
LEMMA AddedLast ==
    ASSUME Messages \in Seq(Abstract!Message), NEW m \in Abstract!Message,
           Messages' = Append(Messages, m)
    PROVE  /\ Messages' \in Seq(Abstract!Message)
           /\ DOMAIN Messages = 1..Len(Messages) /\ Len(Messages) \in Nat
           /\ DOMAIN Messages' = 1..(Len(Messages) + 1)
           /\ Messages'[Len(Messages) + 1] = m
           /\ \A i \in DOMAIN Messages : Messages'[i] = Messages[i]
BY AppendProperties, LenProperties

LEMMA MessageTyped ==
    ASSUME Messages \in Seq(Abstract!Message), NEW i \in DOMAIN Messages
    PROVE  Messages[i].ordinal \in Nat /\ Messages[i].role \in {"owner", "assistant"}
<1>1. Messages[i] \in Abstract!Message
  BY LenProperties
<1>. QED BY <1>1 DEF Abstract!Message

(* The promise, but for what it says of owners and answers.                *)
Ascending ==
    /\ version \in Nat /\ Messages \in Seq(Abstract!Message)
    /\ \A i \in DOMAIN Messages : Messages[i].ordinal <= version
    /\ \A i, j \in DOMAIN Messages : i < j => Messages[i].ordinal < Messages[j].ordinal

LEMMA AddedAscends ==
    ASSUME Ascending, NEW role \in {"owner", "assistant"}, NEW q \in Keys,
           Abstract!Add(role, q)
    PROVE  Ascending'
<1>. DEFINE m == [ordinal |-> version + 1, role |-> role, of |-> q]
<1>1. version \in Nat /\ version' = version + 1 /\ Messages' = Append(Messages, m)
  BY DEF Abstract!Add, Ascending
<1>2. m \in Abstract!Message /\ m.ordinal = version + 1
  BY <1>1 DEF Abstract!Message
<1>. HIDE DEF m
<1>3. /\ Messages' \in Seq(Abstract!Message)
      /\ DOMAIN Messages = 1..Len(Messages) /\ Len(Messages) \in Nat
      /\ DOMAIN Messages' = 1..(Len(Messages) + 1)
      /\ Messages'[Len(Messages) + 1] = m
      /\ \A i \in DOMAIN Messages : Messages'[i] = Messages[i]
  BY <1>1, <1>2, AddedLast DEF Ascending
<1>4. \A i \in DOMAIN Messages : Messages[i].ordinal \in Nat
  BY MessageTyped DEF Ascending
<1>5. \A i \in DOMAIN Messages' : Messages'[i].ordinal <= version'
  BY <1>1, <1>2, <1>3, <1>4 DEF Ascending
<1>6. ASSUME NEW i \in DOMAIN Messages', NEW j \in DOMAIN Messages', i < j
      PROVE  Messages'[i].ordinal < Messages'[j].ordinal
  <2>1. i \in DOMAIN Messages
    BY <1>3, <1>6
  <2>2. CASE j = Len(Messages) + 1
    BY <1>1, <1>2, <1>3, <1>4, <2>1, <2>2 DEF Ascending
  <2>3. CASE j # Len(Messages) + 1
    <3>1. j \in DOMAIN Messages
      BY <1>3, <2>3
    <3>. QED BY <1>3, <1>6, <2>1, <3>1 DEF Ascending
  <2>. QED BY <2>2, <2>3
<1>. QED BY <1>1, <1>3, <1>5, <1>6 DEF Ascending

LEMMA AskKeepsPromise ==
    ASSUME Abstract!ThreadPromise, NEW q \in Keys, Abstract!Ask(q)
    PROVE  Abstract!ThreadPromise'
<1>. DEFINE m == [ordinal |-> version + 1, role |-> "owner", of |-> q]
            n == Len(Messages) + 1
<1>1. Ascending /\ Abstract!Add("owner", q)
  BY DEF Abstract!ThreadPromise, Ascending, Abstract!Ask
<1>2. Ascending'
  BY <1>1, AddedAscends
<1>3. m \in Abstract!Message /\ m.role = "owner" /\ m.of = q /\ Messages' = Append(Messages, m)
  BY <1>1 DEF Abstract!Message, Abstract!Add, Ascending
<1>. HIDE DEF m
<1>4. /\ DOMAIN Messages = 1..Len(Messages) /\ Len(Messages) \in Nat
      /\ DOMAIN Messages' = 1..n /\ Messages'[n] = m
      /\ \A i \in DOMAIN Messages : Messages'[i] = Messages[i]
  BY <1>1, <1>3, AddedLast DEF Ascending
<1>5. \A i \in DOMAIN Messages : Messages[i].of # q
  BY DEF Abstract!Ask
<1>6. \A i \in DOMAIN Messages' : i \in DOMAIN Messages \/ i = n
  BY <1>4
<1>. HIDE DEF n
<1>7. ASSUME NEW i \in DOMAIN Messages', NEW j \in DOMAIN Messages',
             Messages'[i].of = Messages'[j].of
      PROVE  i = j \/ (/\ i \in DOMAIN Messages /\ j \in DOMAIN Messages
                       /\ Messages'[i] = Messages[i] /\ Messages'[j] = Messages[j])
  BY <1>3, <1>4, <1>5, <1>6, <1>7
<1>8. ASSUME NEW j \in DOMAIN Messages', Messages'[j].role = "assistant"
      PROVE  \E i \in DOMAIN Messages' : /\ Messages'[i].role = "owner"
                                         /\ Messages'[i].of = Messages'[j].of
  <2>1. j \in DOMAIN Messages /\ Messages'[j] = Messages[j]
    BY <1>3, <1>4, <1>6, <1>8
  <2>2. PICK i \in DOMAIN Messages : /\ Messages[i].role = "owner"
                                     /\ Messages[i].of = Messages[j].of
    BY <1>8, <2>1 DEF Abstract!ThreadPromise
  <2>3. i \in DOMAIN Messages' /\ Messages'[i] = Messages[i]
    BY <1>4 DEF n
  <2>. QED BY <2>1, <2>2, <2>3
<1>9. ASSUME NEW i \in DOMAIN Messages', NEW j \in DOMAIN Messages',
             Messages'[i].of = Messages'[j].of
      PROVE  /\ Messages'[i].role = Messages'[j].role => i = j
             /\ Messages'[i].role = "owner" /\ Messages'[j].role = "assistant"
                  => j = i + 1 /\ Messages'[j].ordinal = Messages'[i].ordinal + 1
  BY <1>7, <1>9 DEF Abstract!ThreadPromise
<1>. QED BY <1>2, <1>8, <1>9 DEF Abstract!ThreadPromise, Ascending

(* The last message is a question, so it has no answer yet.                *)
LEMMA AnswerKeepsPromise ==
    ASSUME Abstract!ThreadPromise, NEW q \in Keys, Abstract!Answer(q)
    PROVE  Abstract!ThreadPromise'
<1>. DEFINE m == [ordinal |-> version + 1, role |-> "assistant", of |-> q]
            l == Len(Messages)
            n == l + 1
<1>1. Ascending /\ Abstract!Add("assistant", q)
  BY DEF Abstract!ThreadPromise, Ascending, Abstract!Answer
<1>2. Ascending'
  BY <1>1, AddedAscends
<1>3. /\ m \in Abstract!Message /\ m.role = "assistant" /\ m.of = q
      /\ m.ordinal = version + 1 /\ Messages' = Append(Messages, m)
  BY <1>1 DEF Abstract!Message, Abstract!Add, Ascending
<1>. HIDE DEF m
<1>4. /\ DOMAIN Messages = 1..l /\ l \in Nat
      /\ DOMAIN Messages' = 1..n /\ Messages'[n] = m
      /\ \A i \in DOMAIN Messages : Messages'[i] = Messages[i]
  BY <1>1, <1>3, AddedLast DEF Ascending
<1>5. /\ l \in DOMAIN Messages /\ Messages[l].role = "owner" /\ Messages[l].of = q
      /\ Messages[l].ordinal = version
  <2>1. Messages # <<>> /\ Messages[l] = [ordinal |-> version, role |-> "owner", of |-> q]
    BY DEF Abstract!Answer
  <2>2. l # 0
    BY <1>1, <2>1, EmptySeq DEF Ascending
  <2>. QED BY <1>4, <2>1, <2>2
<1>6. \A i \in DOMAIN Messages' : i \in DOMAIN Messages \/ i = n
  BY <1>4
<1>7. \A i \in DOMAIN Messages : Messages[i].of = q => Messages[i].role = "owner" /\ i = l
  <2>. SUFFICES ASSUME NEW i \in DOMAIN Messages, Messages[i].of = q
                PROVE  Messages[i].role = "owner" /\ i = l
    OBVIOUS
  <2>1. Messages[i].role \in {"owner", "assistant"}
    BY <1>1, MessageTyped DEF Ascending
  <2>2. Messages[i].role # "assistant"
    <3>1. Messages[i].role = "assistant" => i = l + 1
      BY <1>5 DEF Abstract!ThreadPromise
    <3>. QED BY <1>4, <3>1
  <2>. QED BY <1>5, <2>1, <2>2 DEF Abstract!ThreadPromise
<1>8. \A i \in DOMAIN Messages : n # i /\ i \in DOMAIN Messages'
  BY <1>4
<1>. HIDE DEF n, l
<1>9. ASSUME NEW i \in DOMAIN Messages', NEW j \in DOMAIN Messages',
             Messages'[i].of = Messages'[j].of
      PROVE  /\ Messages'[i].role = Messages'[j].role => i = j
             /\ Messages'[i].role = "owner" /\ Messages'[j].role = "assistant"
                  => j = i + 1 /\ Messages'[j].ordinal = Messages'[i].ordinal + 1
  <2>1. CASE i \in DOMAIN Messages /\ j \in DOMAIN Messages
    BY <1>4, <1>9, <2>1 DEF Abstract!ThreadPromise
  <2>2. CASE i = n /\ j \in DOMAIN Messages
    BY <1>3, <1>4, <1>7, <1>9, <2>2
  <2>3. CASE i \in DOMAIN Messages /\ j = n
    <3>1. i = l /\ Messages'[i] = Messages[l]
      BY <1>3, <1>4, <1>7, <1>9, <2>3
    <3>. QED BY <1>3, <1>4, <1>5, <2>3, <3>1 DEF n
  <2>4. CASE i = n /\ j = n
    BY <1>3, <1>4, <2>4
  <2>. QED BY <1>6, <2>1, <2>2, <2>3, <2>4
<1>10. ASSUME NEW j \in DOMAIN Messages', Messages'[j].role = "assistant"
       PROVE  \E i \in DOMAIN Messages' : /\ Messages'[i].role = "owner"
                                          /\ Messages'[i].of = Messages'[j].of
  <2>1. CASE j = n
    BY <1>3, <1>4, <1>5, <1>8, <2>1
  <2>2. CASE j \in DOMAIN Messages
    <3>1. PICK i \in DOMAIN Messages : /\ Messages[i].role = "owner"
                                       /\ Messages[i].of = Messages[j].of
      BY <1>4, <1>10, <2>2 DEF Abstract!ThreadPromise
    <3>. QED BY <1>4, <1>8, <2>2, <3>1
  <2>. QED BY <1>6, <2>1, <2>2
<1>. QED BY <1>2, <1>9, <1>10 DEF Abstract!ThreadPromise, Ascending

(* Whatever clients, tasks and attempts do, the thread reads in order, has *)
(* each question once, and right below it its answer or none.              *)
THEOREM ThreadPromised == Spec => []Abstract!ThreadPromise
<1>1. Abstract!ThreadInit => Abstract!ThreadPromise
  BY EmptySeq DEF Abstract!ThreadInit, Abstract!ThreadPromise
<1>2. ASSUME Abstract!ThreadPromise, Abstract!ThreadNext PROVE Abstract!ThreadPromise'
  <2>1. CASE Abstract!Retouch
    <3>1. version' = version + 1 /\ Messages' = Messages
      BY <2>1 DEF Abstract!Retouch
    <3>2. \A i \in DOMAIN Messages : Messages[i].ordinal \in Nat /\ Messages[i].ordinal <= version
      BY <1>2, MessageTyped DEF Abstract!ThreadPromise
    <3>3. version \in Nat /\ version' \in Nat
          /\ \A i \in DOMAIN Messages : Messages[i].ordinal <= version'
      BY <1>2, <3>1, <3>2 DEF Abstract!ThreadPromise
    <3>. QED BY <1>2, <3>1, <3>3 DEF Abstract!ThreadPromise
  <2>. QED BY <1>2, <2>1, AskKeepsPromise, AnswerKeepsPromise DEF Abstract!ThreadNext
<1>3. Abstract!ThreadPromise /\ [Abstract!ThreadNext]_<<version, Messages>>
        => Abstract!ThreadPromise'
  BY <1>2 DEF Abstract!ThreadPromise
<1>. QED
  BY <1>1, <1>3, PipelineImplementsThread, PTL DEF ImplementsThread, Abstract!ThreadSpec

(* Nothing that was said is taken back or moved.                           *)
THEOREM ThreadOnlyGrows == Spec => Abstract!ThreadSteps
<1>1. ASSUME Abstract!ThreadPromise, Abstract!ThreadNext PROVE Abstract!OnlyGrows
  <2>1. ASSUME NEW role \in {"owner", "assistant"}, NEW q \in Keys, Abstract!Add(role, q)
        PROVE  Abstract!OnlyGrows
    <3>. DEFINE m == [ordinal |-> version + 1, role |-> role, of |-> q]
    <3>1. m \in Abstract!Message /\ Messages' = Append(Messages, m)
          /\ Messages \in Seq(Abstract!Message)
      BY <1>1, <2>1 DEF Abstract!Message, Abstract!Add, Abstract!ThreadPromise
    <3>. HIDE DEF m
    <3>2. Len(Messages') = Len(Messages) + 1 /\ Len(Messages) \in Nat
      BY <3>1, AppendProperties, LenProperties
    <3>. QED BY <3>1, <3>2, AddedLast DEF Abstract!OnlyGrows
  <2>2. CASE Abstract!Retouch
    BY <1>1, <2>2, LenProperties
       DEF Abstract!Retouch, Abstract!OnlyGrows, Abstract!ThreadPromise
  <2>. QED BY <1>1, <2>1, <2>2 DEF Abstract!ThreadNext, Abstract!Ask, Abstract!Answer
<1>2. Abstract!ThreadPromise /\ [Abstract!ThreadNext]_<<version, Messages>>
        => [Abstract!OnlyGrows]_<<version, Messages>>
  BY <1>1
<1>. QED
  BY <1>2, ThreadPromised, PipelineImplementsThread, PTL
     DEF ImplementsThread, Abstract!ThreadSpec, Abstract!ThreadSteps

-----------------------------------------------------------------------------
(* Progress fragments.  As long as a task's progress has not suffered, no  *)
(* attempt but the last one begun has anything left to write: one that     *)
(* ended had flushed all it pushed, one that died took its writes along,   *)
(* and the last one writes only after it has cleared what was there.       *)

(* An attempt pushes while its provider streams, and must have written it  *)
(* all when its flush is over.                                             *)
Streaming == {"provider", "forget", "flush"}

Tidied(x) ==
    /\ ~x.stalled
    /\ x.written <= x.pushed
    /\ x.pc = "none" => x = NoRun
    /\ x.pc \notin Streaming => x.written = x.pushed

AllBy(S, r, n) == \A c \in S : c.task = r => c.by = n

OneAuthor(S, r) == \A c, d \in S : c.task = r /\ d.task = r => c.by = d.by

Orderly(r, n) ==
    /\ Tidied(run[r][n])
    /\ n # task[r].n => run[r][n] = NoRun
    /\ run[r][n].pc \in Streaming => AllBy(chunks, r, n)

Undisturbed(r) == (\A n \in Attempts : Orderly(r, n)) /\ OneAuthor(chunks, r)

FragmentsKept == \A r \in Replies : ~task[r].degraded => Undisturbed(r)

(* What a step leaves behind when it has nothing to do with a task.        *)
Apart(q) ==
    /\ run'[q] = run[q]
    /\ task'[q].n = task[q].n
    /\ task'[q].degraded = task[q].degraded
    /\ \A c \in chunks' : c.task = q => c \in chunks

LEMMA ApartKeeps ==
    ASSUME NEW q \in Replies, ~task[q].degraded => Undisturbed(q), Apart(q)
    PROVE  ~task'[q].degraded => Undisturbed(q)'
<1> SUFFICES ASSUME ~task'[q].degraded PROVE Undisturbed(q)'
  OBVIOUS
<1>1. Undisturbed(q) /\ run'[q] = run[q] /\ task'[q].n = task[q].n
  BY DEF Apart
<1>2. \A n : AllBy(chunks, q, n) => AllBy(chunks', q, n)
  BY DEF Apart, AllBy
<1>3. OneAuthor(chunks', q)
  BY <1>1 DEF Apart, OneAuthor, Undisturbed
<1>4. ASSUME NEW n \in Attempts
      PROVE  Orderly(q, n)'
  <2>1. Orderly(q, n) /\ run'[q][n] = run[q][n]
    BY <1>1 DEF Undisturbed
  <2> QED  BY <1>1, <1>2, <2>1 DEF Orderly, Tidied
<1> QED  BY <1>3, <1>4 DEF Undisturbed

(* What an attempt does to its own record and to the fragments.            *)
Kept(y, S, r, n) ==
    /\ Tidied(y)
    /\ y.pc \in Streaming => AllBy(S, r, n)
    /\ OneAuthor(S, r)

(* A clear leaves nothing of the task.                                     *)
LEMMA Cleared ==
    ASSUME NEW r, NEW n
    PROVE  AllBy(OthersChunks(r), r, n) /\ OneAuthor(OthersChunks(r), r)
  BY DEF AllBy, OneAuthor, OthersChunks

(* A fragment more, of the one author.                                     *)
LEMMA Authored ==
    ASSUME NEW r, NEW n, NEW c, c.task = r, c.by = n, AllBy(chunks, r, n)
    PROVE  AllBy(Inserted(c), r, n) /\ OneAuthor(Inserted(c), r)
<1>1. \A d \in Inserted(c) : d \in chunks \/ d = c
  BY DEF Inserted
<1>2. AllBy(Inserted(c), r, n)
  BY <1>1 DEF AllBy
<1> QED  BY <1>2 DEF AllBy, OneAuthor

LEMMA OwnKept ==
    ASSUME TypeOK, NEW r \in Replies, NEW n \in Attempts, AttemptStep(r, n),
           Kept(run[r][n], chunks, r, n), task[r] \in Task, ~task'[r].degraded
    PROVE  Kept(run'[r][n], chunks', r, n)
<1>. DEFINE x == run[r][n]
<1>1. /\ x \in Run /\ run \in [Replies -> [Attempts -> Run]]
      /\ Kept(x, chunks, r, n)
      /\ task \in [Replies -> Task \cup {NoTask}]
  BY DEF TypeOK
<1>2. x.pushed \in Nat /\ x.written \in Nat
  BY <1>1 DEF Run
<1>3. ASSUME NEW y, Becomes(r, n, y)
      PROVE  run'[r][n] = y
  BY <1>1, <1>3 DEF Becomes
<1>4. task' # Degraded(r)
  <2>1. task' = Degraded(r) => task'[r].degraded = TRUE
    BY <1>1 DEF Degraded, Task
  <2>. QED BY <2>1
<1>5. ASSUME NEW y, run'[r][n] = y, UNCHANGED chunks,
             y.stalled = x.stalled, y.written = x.written, y.pushed = x.pushed,
             y.pc # "none",
             y.pc \in Streaming => x.pc \in Streaming,
             y.pc \notin Streaming => x.written = x.pushed
      PROVE  Kept(run'[r][n], chunks', r, n)
  BY <1>1, <1>5 DEF Kept, Tidied
<1>6. ASSUME NEW label \in Driving, x.pc \notin Streaming, label \notin Streaming,
             UNCHANGED chunks,
             \E y : /\ Becomes(r, n, y)
                   /\ y.pc = label /\ y.stalled = x.stalled
                   /\ y.written = x.written /\ y.pushed = x.pushed
      PROVE  Kept(run'[r][n], chunks', r, n)
  <2>1. PICK y : /\ Becomes(r, n, y)
                 /\ y.pc = label /\ y.stalled = x.stalled
                 /\ y.written = x.written /\ y.pushed = x.pushed
    BY <1>6
  <2>2. run'[r][n] = y
    BY <1>3, <2>1
  <2>3. x.written = x.pushed /\ label # "none"
    BY <1>1, <1>6 DEF Kept, Tidied, Driving
  <2>. QED
    BY <1>5, <1>6, <2>1, <2>2, <2>3
<1>7. CASE ReadHistory(r, n)
  <2>1. x.pc \notin Streaming /\ UNCHANGED chunks
    BY <1>7 DEF ReadHistory, At, Streaming, progress
  <2>2. "session" \in Driving /\ "session" \notin Streaming
    BY DEF Driving, Streaming
  <2>. DEFINE y == [x EXCEPT !.pc = "session", !.read = Len(thread)]
  <2>3. Becomes(r, n, y)
    BY <1>7 DEF ReadHistory
  <2>4. /\ y.pc = "session" /\ y.stalled = x.stalled
        /\ y.written = x.written /\ y.pushed = x.pushed
    BY <1>1 DEF Run
  <2>. HIDE DEF y
  <2>. QED BY <1>6, <2>1, <2>2, <2>3, <2>4
<1>8. CASE FindSession(r, n)
  <2>1. x.pc \notin Streaming /\ UNCHANGED chunks
    BY <1>8 DEF FindSession, At, Streaming, progress
  <2>2. "clear" \in Driving /\ "clear" \notin Streaming
    BY DEF Driving, Streaming
  <2>3. PICK found : Becomes(r, n, [x EXCEPT !.pc = "clear", !.resume = found])
    BY <1>8 DEF FindSession
  <2>. DEFINE y == [x EXCEPT !.pc = "clear", !.resume = found]
  <2>4. /\ y.pc = "clear" /\ y.stalled = x.stalled
        /\ y.written = x.written /\ y.pushed = x.pushed
    BY <1>1 DEF Run
  <2>5. Becomes(r, n, y)
    BY <2>3
  <2>. HIDE DEF y
  <2>. QED BY <1>6, <2>1, <2>2, <2>4, <2>5
<1>9. CASE ClearStale(r, n)
  <2>1. /\ x.pc = "clear" /\ Becomes(r, n, [x EXCEPT !.pc = "provider"])
        /\ chunks' = OthersChunks(r)
    BY <1>4, <1>9 DEF ClearStale, At, Goto
  <2>2. run'[r][n] = [x EXCEPT !.pc = "provider"]
    BY <1>3, <2>1
  <2>3. Tidied(run'[r][n])
    BY <1>1, <2>1, <2>2 DEF Run, Kept, Tidied, Streaming
  <2>. QED BY <2>1, <2>3, Cleared DEF Kept
<1>10. CASE Remember(r, n) \/ AppendAnswer(r, n)
  <2>1. x.pc \notin Streaming /\ UNCHANGED chunks
    BY <1>10 DEF Remember, AppendAnswer, At, Streaming, progress
  <2>2. {"append", "tidy", "threw"} \subseteq Driving \ Streaming
    BY DEF Driving, Streaming
  <2>3. CASE Remember(r, n)
    <3>1. Becomes(r, n, [x EXCEPT !.pc = "append"])
      BY <2>3 DEF Remember, Goto
    <3>. QED BY <1>1, <1>6, <2>1, <2>2, <3>1 DEF Run
  <2>4. CASE AppendAnswer(r, n)
    <3>1. PICK label \in {"tidy", "threw"} :
             Becomes(r, n, [[x EXCEPT !.read = 0] EXCEPT !.pc = label])
      BY <2>4 DEF AppendAnswer, Refusal
    <3>. DEFINE y == [[x EXCEPT !.read = 0] EXCEPT !.pc = label]
    <3>2. /\ y.pc = label /\ y.stalled = x.stalled
          /\ y.written = x.written /\ y.pushed = x.pushed
      BY <1>1 DEF Run
    <3>. HIDE DEF y
    <3>3. Becomes(r, n, y)
      BY <3>1 DEF y
    <3>. QED BY <1>6, <2>1, <2>2, <3>2, <3>3
  <2>. QED BY <1>10, <2>3, <2>4
<1>11. CASE Tidy(r, n)
  <2>1. /\ x.pc = "tidy" /\ Becomes(r, n, [x EXCEPT !.pc = "returned"])
        /\ chunks' = OthersChunks(r) \/ chunks' = chunks
    BY <1>11 DEF Tidy, At, Goto
  <2>2. run'[r][n] = [x EXCEPT !.pc = "returned"]
    BY <1>3, <2>1
  <2>3. Tidied(run'[r][n]) /\ run'[r][n].pc \notin Streaming
    BY <1>1, <2>1, <2>2 DEF Run, Kept, Tidied, Streaming
  <2>4. OneAuthor(chunks', r)
    BY <1>1, <2>1, Cleared DEF Kept
  <2>. QED BY <2>3, <2>4 DEF Kept
<1>12. CASE ProviderAnswers(r, n)
  <2>1. x.pc \in Streaming /\ UNCHANGED chunks
    BY <1>12 DEF ProviderAnswers, At, Streaming, progress
  <2>2. run'[r][n] = [x EXCEPT !.pc = "flush", !.ok = TRUE, !.resume = FALSE]
    BY <1>3, <1>12 DEF ProviderAnswers
  <2>. QED BY <1>1, <1>5, <2>1, <2>2 DEF Run, Streaming
<1>13. CASE ProviderFails(r, n)
  <2>1. x.pc \in Streaming /\ UNCHANGED chunks
    BY <1>13 DEF ProviderFails, At, Streaming, progress
  <2>2. PICK label \in {"forget", "flush"} :
           run'[r][n] = [x EXCEPT !.pc = label, !.resume = FALSE, !.read = 0]
    BY <1>3, <1>13 DEF ProviderFails
  <2>. QED BY <1>1, <1>5, <2>1, <2>2 DEF Run, Streaming
<1>14. CASE Forget(r, n)
  <2>1. x.pc \in Streaming /\ UNCHANGED chunks
    BY <1>14 DEF Forget, At, Streaming, progress
  <2>2. run'[r][n] = [x EXCEPT !.pc = "flush"]
    BY <1>3, <1>14 DEF Forget, Goto
  <2>. QED BY <1>1, <1>5, <2>1, <2>2 DEF Run, Streaming
<1>15. CASE Flush(r, n)
  <2>1. ~(x.written < x.pushed) /\ UNCHANGED chunks /\ x.pc = "flush"
    BY <1>4, <1>15 DEF Flush, At, progress
  <2>2. x.written = x.pushed
    <3>1. x.written <= x.pushed
      BY <1>1 DEF Kept, Tidied
    <3>. HIDE DEF x
    <3>. QED BY <1>2, <2>1, <3>1
  <2>3. PICK label \in {"remember", "threw"} :
           run'[r][n] = [x EXCEPT !.pc = label, !.ok = FALSE]
    BY <1>3, <1>15 DEF Flush
  <2>. QED BY <1>1, <1>5, <2>1, <2>2, <2>3 DEF Run, Streaming
<1>16. ASSUME run'[r][n] = NoRun, UNCHANGED chunks
       PROVE  Kept(run'[r][n], chunks', r, n)
  BY <1>1, <1>16 DEF Kept, Tidied, NoRun, Streaming
<1>17. CASE Settle(r, n)
  <2>1. x.pc \notin Streaming /\ UNCHANGED chunks
    BY <1>17 DEF Settle, Streaming, progress
  <2>2. x.written = x.pushed
    BY <1>1, <2>1 DEF Kept, Tidied
  <2>3. run'[r][n] = NoRun
    BY <1>1, <1>17, <2>2 DEF Settle, Left
  <2>. QED BY <1>16, <2>1, <2>3
<1>18. CASE Crash(r, n)
  BY <1>1, <1>16, <1>18 DEF Crash, progress
<1>19. CASE Stall(r, n)
  BY <1>4, <1>19 DEF Stall
<1>20. CASE Push(r, n)
  <2>1. x.pc \in Streaming /\ UNCHANGED chunks
    BY <1>20 DEF Push, At, Streaming, progress
  <2>2. run'[r][n] = [x EXCEPT !.pushed = @ + 1]
    BY <1>1, <1>20 DEF Push
  <2>3. /\ run'[r][n].pc = x.pc /\ run'[r][n].stalled = x.stalled
        /\ run'[r][n].written = x.written /\ run'[r][n].pushed = x.pushed + 1
    BY <1>1, <2>2 DEF Run
  <2>4. x.written <= x.pushed + 1 /\ ~x.stalled
    BY <1>1, <1>2 DEF Kept, Tidied
  <2>5. x.pc # "none"
    BY <2>1 DEF Streaming
  <2>. QED BY <1>1, <2>1, <2>3, <2>4, <2>5 DEF Kept, Tidied
<1>21. CASE WriteLands(r, n) \/ WriteFails(r, n)
  <2>0. Writing(r, n)
    BY <1>21 DEF WriteLands, WriteFails
  <2>1. x.written < x.pushed
    BY <2>0 DEF Writing
  <2>2. x.pc \in Streaming
    BY <1>1, <1>2, <2>1 DEF Kept, Tidied
  <2>3. x.pc # "none"
    BY <2>2 DEF Streaming
  <2>4. run'[r][n] = [x EXCEPT !.written = @ + 1]
    <3>1. [x EXCEPT !.written = @ + 1].pc = x.pc
      BY <1>1 DEF Run
    <3>. QED BY <1>1, <1>3, <2>0, <2>3, <3>1 DEF Writing
  <2>5. /\ run'[r][n].pc = x.pc /\ run'[r][n].stalled = x.stalled
        /\ run'[r][n].written = x.written + 1 /\ run'[r][n].pushed = x.pushed
    BY <1>1, <2>4 DEF Run
  <2>6. x.written + 1 <= x.pushed /\ ~x.stalled
    BY <1>1, <1>2, <2>1 DEF Kept, Tidied
  <2>7. Tidied(run'[r][n])
    BY <2>2, <2>3, <2>5, <2>6 DEF Tidied
  <2>8. AllBy(chunks, r, n) /\ OneAuthor(chunks, r)
    BY <1>1, <2>2 DEF Kept
  <2>9. AllBy(chunks', r, n) /\ OneAuthor(chunks', r)
    <3>1. CASE UNCHANGED chunks
      BY <2>8, <3>1
    <3>2. CASE WriteLands(r, n)
      <4>. DEFINE c == [task |-> r, ordinal |-> x.written + 1, by |-> n]
      <4>1. chunks' = Inserted(c) /\ c.task = r /\ c.by = n
        BY <3>2 DEF WriteLands
      <4>. HIDE DEF c
      <4>. QED BY <2>8, <4>1, Authored
    <3>. QED BY <1>21, <3>1, <3>2 DEF WriteFails, progress
  <2>. QED BY <2>7, <2>9 DEF Kept
<1>22. CASE Hang(r, n)
  <2>1. run'[r][n] = [x EXCEPT !.hung = TRUE] /\ UNCHANGED chunks
    BY <1>1, <1>22 DEF Hang, progress
  <2>2. /\ run'[r][n].pc = x.pc /\ run'[r][n].stalled = x.stalled
        /\ run'[r][n].written = x.written /\ run'[r][n].pushed = x.pushed
    BY <1>1, <2>1 DEF Run
  <2>3. x.pc # "none"
    BY <1>22 DEF Hang, Driving
  <2>4. x.pc \notin Streaming => x.written = x.pushed
    BY <1>1 DEF Kept, Tidied
  <2>. QED BY <1>5, <2>1, <2>2, <2>3, <2>4
<1>. QED
  BY <1>7, <1>8, <1>9, <1>10, <1>11, <1>12, <1>13, <1>14, <1>15, <1>17, <1>18, <1>19,
     <1>20, <1>21, <1>22 DEF AttemptStep, DriverStep, WriterStep

(* All that an attempt writes to the tasks: a verdict on its own, or that  *)
(* its progress suffered.                                                  *)
TaskWritten(r) ==
    \/ task' = task
    \/ task' = Degraded(r)
    \/ \E s : task' = [task EXCEPT ![r].state = s]

LEMMA AttemptWritesTask ==
    ASSUME NEW r \in Replies, NEW n \in Attempts, AttemptStep(r, n)
    PROVE  TaskWritten(r)
<1>1. CASE Settle(r, n)
  <2>. QED BY <1>1 DEF Settle, TaskWritten
<1>2. CASE ~Settle(r, n)
  BY <1>2 DEF AttemptStep, DriverStep, WriterStep, Crash, Stall, Hang, Push, WriteLands,
     WriteFails, ReadHistory, FindSession, ClearStale, ProviderAnswers,
     ProviderFails, Forget, Flush, Remember, AppendAnswer, Tidy, TaskWritten
<1>. QED BY <1>1, <1>2

(* An attempt writes no other task's fragments, and harms no other task.   *)
LEMMA OthersApart ==
    ASSUME TypeOK, AttemptsCounted, NEW r \in Replies, NEW n \in Attempts,
           AttemptStep(r, n), NEW q \in Replies, q # r
    PROVE  Apart(q)
<1>1. run'[q] = run[q]
  <2>1. ASSUME NEW y, Becomes(r, n, y)
        PROVE  run'[q] = run[q]
    BY <2>1 DEF Becomes, TypeOK
  <2>2. \E y : Becomes(r, n, y)
    BY DEF AttemptStep, DriverStep, WriterStep, Crash, Stall, Hang, Push, WriteLands,
       WriteFails, Writing, ReadHistory, FindSession, ClearStale,
       ProviderAnswers, ProviderFails, Forget, Flush, Remember, AppendAnswer,
       Tidy, Settle, Goto, Becomes
  <2>. QED BY <2>1, <2>2
<1>2. task'[q] = task[q]
  <2>1. TaskWritten(r)
    BY AttemptWritesTask
  <2>2. task \in [Replies -> Task \cup {NoTask}]
    BY DEF TypeOK
  <2>3. Degraded(r)[q] = task[q] /\ \A s : [task EXCEPT ![r].state = s][q] = task[q]
    BY <2>2 DEF Degraded
  <2>. QED BY <2>1, <2>3 DEF TaskWritten
<1>3. \A c \in chunks' : c.task = q => c \in chunks
  <2>1. CASE WriteLands(r, n)
    <3>1. PICK c : c.task = r /\ chunks' = Inserted(c)
      BY <2>1 DEF WriteLands
    <3>. QED BY <3>1 DEF Inserted
  <2>2. CASE ~WriteLands(r, n)
    <3>1. chunks' = chunks \/ chunks' = OthersChunks(r)
      BY <2>2 DEF AttemptStep, DriverStep, WriterStep, Crash, Stall, Hang, Push,
         WriteFails, ReadHistory, FindSession, ClearStale, ProviderAnswers,
         ProviderFails, Forget, Flush, Remember, AppendAnswer, Tidy, Settle, progress
    <3>. QED BY <3>1 DEF OthersChunks
  <2>. QED BY <2>1, <2>2
<1>. QED BY <1>1, <1>2, <1>3 DEF Apart

(* The attempt that is at work is the last one begun.                      *)
LEMMA AttemptKeepsFragments ==
    ASSUME TypeOK, AttemptsCounted, FragmentsKept,
           NEW r \in Replies, NEW n \in Attempts, AttemptStep(r, n),
           ~task'[r].degraded
    PROVE  Undisturbed(r)'
<1>1. /\ run[r][n] # NoRun
      /\ \A m \in Attempts : m # n => run'[r][m] = run[r][m]
      /\ task'[r].n = task[r].n
  BY AttemptTouches DEF TasksKept, TaskKept
<1>2. ~task[r].degraded /\ task[r] \in Task
  <2>1. n <= task[r].n
    <3>1. ~(n > task[r].n)
      BY <1>1 DEF AttemptsCounted
    <3>2. task[r].n \in Nat
      BY DEF TypeOK, Task, NoTask, Attempts
    <3>. QED BY <3>1, <3>2 DEF Attempts
  <2>2. task[r] \in Task
    BY <2>1 DEF TypeOK, NoTask, Attempts
  <2>3. task'[r].degraded = task[r].degraded \/ task'[r].degraded = TRUE
    <3>1. TaskWritten(r) /\ task \in [Replies -> Task \cup {NoTask}]
      BY AttemptWritesTask DEF TypeOK
    <3>2. \A s : [task EXCEPT ![r].state = s][r].degraded = task[r].degraded
      BY <2>2, <3>1 DEF Task
    <3>3. Degraded(r)[r].degraded = TRUE
      BY <2>2, <3>1 DEF Task, Degraded
    <3>. QED BY <3>1, <3>2, <3>3 DEF TaskWritten
  <2>. QED BY <2>2, <2>3
<1>3. Undisturbed(r)
  BY <1>2 DEF FragmentsKept
<1>4. n = task[r].n
  BY <1>1, <1>3 DEF Undisturbed, Orderly
<1>5. Kept(run'[r][n], chunks', r, n)
  <2>1. Kept(run[r][n], chunks, r, n)
    BY <1>3 DEF Undisturbed, Orderly, Kept
  <2>. QED BY <1>2, <2>1, OwnKept
<1>6. Orderly(r, n)'
  BY <1>1, <1>4, <1>5 DEF Orderly, Kept, Tidied
<1>7. ASSUME NEW m \in Attempts, m # n
      PROVE  Orderly(r, m)'
  <2>1. run'[r][m] = NoRun
    BY <1>1, <1>3, <1>4, <1>7 DEF Undisturbed, Orderly
  <2>. QED BY <2>1 DEF Orderly, Tidied, NoRun, Streaming
<1>8. OneAuthor(chunks, r)'
  BY <1>5 DEF Kept, OneAuthor
<1>. QED BY <1>6, <1>7, <1>8 DEF Undisturbed

(* A lease finds nobody at work, so nobody with writes left.               *)
LEMMA LeaseKeepsFragments ==
    ASSUME TypeOK, AttemptsCounted, FragmentsKept, NEW r \in Replies, Lease(r),
           ~task'[r].degraded
    PROVE  Undisturbed(r)'
<1>1. /\ task[r] \in Task /\ task[r].n + 1 \in Attempts
      /\ task[r].n \in Nat /\ ~task[r].degraded
  BY DEF Lease, AttemptsCounted, TypeOK, NoTask, Task, Attempts
<1>2. PICK n \in Attempts : n = task[r].n + 1
  BY <1>1
<1>3. task'[r].n = n /\ UNCHANGED chunks
  BY <1>1, <1>2 DEF Lease, TypeOK, Task, progress
<1>4. Undisturbed(r)
  BY <1>1 DEF FragmentsKept
<1>5. \A m \in Attempts : run[r][m] = NoRun
  <2>1. ASSUME NEW m \in Attempts
        PROVE  run[r][m].pc = "none"
    <3>1. run[r][m] \in Run /\ ~run[r][m].stalled
      BY <1>4 DEF TypeOK, Undisturbed, Orderly, Tidied
    <3>. QED BY <3>1 DEF Lease, Busy, Run
  <2>. QED BY <1>4, <2>1 DEF Undisturbed, Orderly, Tidied
<1>6. /\ run'[r][n] = [NoRun EXCEPT !.pc = "history"]
      /\ \A m \in Attempts : m # n => run'[r][m] = NoRun
  BY <1>2, <1>5 DEF Lease, TypeOK
<1>7. Orderly(r, n)'
  BY <1>3, <1>6 DEF Orderly, Tidied, NoRun, Streaming
<1>8. ASSUME NEW m \in Attempts, m # n
      PROVE  Orderly(r, m)'
  BY <1>6, <1>8 DEF Orderly, Tidied, NoRun, Streaming
<1>9. OneAuthor(chunks, r)'
  BY <1>3, <1>4 DEF Undisturbed, OneAuthor
<1>. QED BY <1>7, <1>8, <1>9 DEF Undisturbed

LEMMA FragmentsStep ==
    ASSUME TypeOK, AttemptsCounted, FragmentsKept, [Next]_vars
    PROVE  FragmentsKept'
<1>1. ASSUME NEW q \in Replies, Apart(q)
      PROVE  ~task'[q].degraded => Undisturbed(q)'
  BY <1>1, ApartKeeps DEF FragmentsKept
<1>2. ASSUME UNCHANGED <<run, chunks>>,
             \A q \in Replies : /\ task'[q].n = task[q].n
                                /\ task'[q].degraded = task[q].degraded
      PROVE  FragmentsKept'
  <2>1. \A q \in Replies : Apart(q)
    BY <1>2 DEF Apart
  <2>. QED BY <1>1, <2>1 DEF FragmentsKept
<1>3. ASSUME UNCHANGED <<task, run, chunks>>
      PROVE  FragmentsKept'
  BY <1>2, <1>3
<1>4. ASSUME NEW k \in Keys, NEW r \in Replies, QueueReply(k, r)
      PROVE  FragmentsKept'
  <2>1. UNCHANGED <<run, chunks>>
    BY <1>4 DEF QueueReply, progress
  <2>2. \A q \in Replies : /\ task'[q].n = task[q].n
                           /\ task'[q].degraded = task[q].degraded
    <3>1. /\ task[r].n = 0 /\ task[r].degraded = FALSE
          /\ task'[r].n = 0 /\ task'[r].degraded = FALSE
      BY <1>4 DEF QueueReply, TypeOK, NoTask
    <3>2. \A q \in Replies : q # r => task'[q] = task[q]
      BY <1>4 DEF QueueReply, TypeOK
    <3>. QED BY <3>1, <3>2
  <2>. QED BY <1>2, <2>1, <2>2
<1>5. ASSUME NEW r \in Replies, Moving(r)
      PROVE  FragmentsKept'
  <2>1. UNCHANGED <<run, chunks>>
    BY <1>5 DEF Moving, Cancel, Reclaim, Enqueue, Specify, progress
  <2>2. \A q \in Replies : /\ task'[q].n = task[q].n
                           /\ task'[q].degraded = task[q].degraded
    <3>1. PICK s : task' = [task EXCEPT ![r].state = s]
      BY <1>5, StateChanges
    <3>2. task[r] \in Task /\ task \in [Replies -> Task \cup {NoTask}]
      BY <1>5, StateChanges DEF TypeOK, NoTask
    <3>3. task'[r].n = task[r].n /\ task'[r].degraded = task[r].degraded
      BY <3>1, <3>2 DEF Task
    <3>4. \A q \in Replies : q # r => task'[q] = task[q]
      BY <3>1, <3>2
    <3>. QED BY <3>3, <3>4
  <2>. QED BY <1>2, <2>1, <2>2
<1>6. ASSUME NEW r \in Replies, Lease(r)
      PROVE  FragmentsKept'
  <2>1. \A q \in Replies : q # r => Apart(q)
    BY <1>6 DEF Lease, Apart, TypeOK, progress
  <2>. QED BY <1>1, <1>6, <2>1, LeaseKeepsFragments DEF FragmentsKept
<1>7. ASSUME NEW r \in Replies, NEW n \in Attempts, AttemptStep(r, n)
      PROVE  FragmentsKept'
  BY <1>1, <1>7, OthersApart, AttemptKeepsFragments DEF FragmentsKept
<1>8. CASE EmergencyStop
  <2>1. UNCHANGED <<run, chunks>>
    BY <1>8 DEF EmergencyStop, progress
  <2>2. \A q \in Replies : /\ task'[q].n = task[q].n
                           /\ task'[q].degraded = task[q].degraded
    <3>1. ASSUME NEW q \in Replies
          PROVE  /\ task'[q].n = task[q].n
                 /\ task'[q].degraded = task[q].degraded
      <4>1. task'[q] = IF task[q].state = "running"
                         THEN [task[q] EXCEPT !.state = "queued"] ELSE task[q]
        BY <1>8 DEF EmergencyStop
      <4>2. task[q] \in Task \cup {NoTask}
        BY DEF TypeOK
      <4>. QED BY <4>1, <4>2 DEF Task, NoTask
    <3>. QED BY <3>1
  <2>. QED BY <1>2, <2>1, <2>2
<1>9. CASE OwnerStep
  BY <1>3, <1>4, <1>5, <1>8, <1>9
     DEF OwnerStep, Moving, Edit, Compose, Resend, SendMessage, CommandDies,
         Resume, ShowStream, EndStream, progress
<1>10. CASE UNCHANGED vars
  BY <1>3, <1>10 DEF vars, progress
<1>. QED
  BY <1>5, <1>6, <1>7, <1>9, <1>10 DEF Next, QueueStep, Moving, AttemptStep

(* Fragments of two attempts of one task are stored together only if a     *)
(* clear of the task failed, a write was given up, or a process stalled    *)
(* past its lease and went on streaming: clearReplyChunks() before the     *)
(* provider is asked, and flush() before the driver ends, are enough.      *)
THEOREM FragmentsApart == Spec => []FragmentsOfOneAttempt
<1>1. Init => FragmentsKept
  <2>1. ASSUME Init, NEW r \in Replies
        PROVE  Undisturbed(r)
    <3>1. chunks = {} /\ task[r].n = 0 /\ \A n \in Attempts : run[r][n] = NoRun
      BY <2>1 DEF Init, NoTask
    <3>. QED
      BY <3>1 DEF Undisturbed, Orderly, Tidied, NoRun, Streaming, OneAuthor
  <2>. QED BY <2>1 DEF FragmentsKept
<1>2. PipelineInv => TypeOK /\ AttemptsCounted
  BY DEF PipelineInv
<1>3. Spec => []FragmentsKept
  BY <1>1, <1>2, FragmentsStep, PipelineInvariant, PTL DEF Spec
<1>4. TypeOK /\ FragmentsKept => FragmentsOfOneAttempt
  <2>1. TypeOK => \A c \in chunks : c.task \in Replies
    BY DEF TypeOK, Chunk
  <2>. QED
    BY <2>1 DEF FragmentsKept, FragmentsOfOneAttempt, Undisturbed, OneAuthor
<1>. QED BY <1>2, <1>3, <1>4, PipelineInvariant, PTL
=============================================================================
