---------------------------- MODULE TelegramChat -----------------------------
(***************************************************************************)
(* The owner's Telegram chat, in both directions.  In: the poller          *)
(* (telegram/poller.ts) pulls updates past a durable offset and hands each *)
(* to the chain of handlers (telegram/dispatch.ts): the taps that decide   *)
(* an approval (telegram/approval-handler.ts), the messages and files that *)
(* become turns of one conversation (telegram/conversation-handler.ts) and *)
(* the read-only commands (telegram/command-handler.ts).  Out: the         *)
(* notifier (operations/run-notifier.ts), which the supervisor awaits      *)
(* after each task, and the loading sticker it shares with the message     *)
(* handler (telegram/spinner.ts).                                          *)
(*                                                                         *)
(* Every call to the database or to Telegram is one action; both loops of  *)
(* a process interleave at their awaits.  A process starts with the        *)
(* sequence lease in hand; one that shuts down, or lost the lease while it *)
(* stalled, still ends the poll and the report it is in, beside its        *)
(* successor.  The conversation's version is the length of its thread: the   *)
(* other ways to change it are the subject of module ReplyPipeline.        *)
(***************************************************************************)
EXTENDS Approvals, RunReports, FiniteSets, FiniteSetsExt

CONSTANTS
    Processes,      \* runs of sequence-main.ts that may overlap
    Scripts,        \* what may be written in the chat: sequences of Update
    Specs,          \* task specifications whose end is reported
    SpendTables,    \* what their attempts may have spent
    BatchLimit,     \* maxUpdatesPerPoll
    MaxEnds,        \* bound on the tasks other than replies that end
    MaxFaults       \* bound on crashes, failed calls and failed replies

Kinds == {"tap", "text", "file", "command"}

Update == [kind : Kinds, from : Identities, request : Requests,
           decision : Decisions]

ASSUME ChatAssumption ==
    /\ Scripts \subseteq Seq(Update)
    /\ Specs \subseteq TaskSpecs
    /\ \A rows \in SpendTables : rows \subseteq Spend
    /\ BatchLimit \in Nat \ {0}
    /\ {MaxEnds, MaxFaults} \subseteq Nat

VARIABLES
    inCharge,       \* the process that holds the sequence lease, or "nobody"
    Updates,        \* the updates of the chat, in order
    arrived,        \* updates Telegram has received
    confirmed,      \* ... and discarded, acknowledged by an offset
    offset,         \* telegram_settings.update_offset
    buttons,        \* requests whose message still has its buttons
    stickers,       \* loading stickers visible in the chat
    stickersSent,
    thread,         \* conversation_messages
    replies,        \* the reply task of each owner message
    files,          \* the attachments stored for each update, by state
    poll,           \* the poller of each process
    note,           \* the notifier of each process
    active,         \* TelegramSpinner.active of each process, 0 for none
    seen,           \* history: what became of each update, by its handlers
    swept,          \* history: stickers a failure or a crash left behind
    ends, faults

server == <<Updates, arrived, confirmed>>
chat == <<buttons, stickers, stickersSent>>
store == <<thread, replies, files>>
history == <<seen, swept>>
vars == <<approvals, inCharge, server, offset, chat, store, poll, note, active, history,
          ends, faults>>

Ids == DOMAIN Updates

Entry == [role : {"owner", "assistant"}, of : Nat]

(* A poller's place; `at` and `last` bound the rest of its batch, `read`   *)
(* is what the last call it awaited returned.                              *)
PollerStates == {"down", "idle", "asking", "handling", "settling", "sending",
                 "queueing", "filing", "validated", "acknowledging", "stopped",
                 "spinning", "committing"}

Poller == [pc : PollerStates, at : Nat, last : Nat, read : Nat]

Down == [pc |-> "down", at |-> 1, last |-> 0, read |-> 0]
Idle == [Down EXCEPT !.pc = "idle"]

(* What taskFinished() is called with: a reply task by the place of its    *)
(* question, another task by its specification; then what it found.        *)
Quiet == [pc |-> "none"]
ReplyEvent == [pc : {"reply", "stopping", "answer"}, task : Nat \ {0}, ok : BOOLEAN,
               found : Nat]
EndEvent == [pc : {"end"}, spec : Specs, outcome : Outcomes,
             rows : SpendTables]
ReportEvent == [pc : {"report"}, rows : SpendTables, form : {"summary", "report"},
                provider : Providers \cup {"none"}, free : BOOLEAN,
                unread : SUBSET Facts]

TypeOK ==
    /\ inCharge \in Processes \cup {"nobody"}
    /\ Updates \in Scripts
    /\ arrived \in 0..Len(Updates) /\ confirmed \in 0..arrived
    /\ offset \in 0..arrived
    /\ status \in [Requests -> {"none", "pending"} \cup Decisions]
    /\ overdue \subseteq Requests /\ buttons \subseteq Requests
    /\ stickers \cup swept \subseteq 1..stickersSent
    /\ thread \in Seq(Entry)
    /\ replies \in [DOMAIN thread -> {"none", "queued", "succeeded", "failed"}]
    /\ files \in [Ids -> Seq({"quarantined", "validated", "scanned"})]
    /\ poll \in [Processes -> Poller]
    /\ \A p \in Processes : note[p] \in {Quiet} \cup ReplyEvent \cup EndEvent \cup ReportEvent
    /\ active \in [Processes -> 0..stickersSent]
    /\ seen \in [Ids -> SUBSET {"handled", "refused", "failed"}]
    /\ ends \in 0..MaxEnds /\ faults \in 0..MaxFaults

Init ==
    /\ ApprovalsInit
    /\ inCharge = "nobody"
    /\ Updates \in Scripts
    /\ arrived = 0 /\ confirmed = 0 /\ offset = 0
    /\ buttons = {} /\ stickers = {} /\ stickersSent = 0
    /\ thread = <<>> /\ replies = <<>> /\ files = [u \in Ids |-> <<>>]
    /\ poll = [p \in Processes |-> Down]
    /\ note = [p \in Processes |-> Quiet]
    /\ active = [p \in Processes |-> 0]
    /\ seen = [u \in Ids |-> {}] /\ swept = {}
    /\ ends = 0 /\ faults = 0

Fault == faults < MaxFaults /\ faults' = faults + 1

-----------------------------------------------------------------------------
(* Approvals and the chat's own side.                                      *)

(* ApprovalService.request(), then TelegramApprovalGateway.deliver().      *)
Ask(a) ==
    /\ Create(a)
    /\ buttons' = buttons \cup {a}
    /\ UNCHANGED <<inCharge, server, offset, stickers, stickersSent, store, poll,
                   note, active, history, ends, faults>>

RunOut(a) ==
    /\ a \notin overdue
    /\ Expire(a)
    /\ UNCHANGED <<inCharge, server, offset, chat, store, poll, note, active, history,
                   ends, faults>>

(* The owner or a stranger writes; a tap needs buttons to press.           *)
Arrive ==
    /\ arrived < Len(Updates)
    /\ LET u == Updates[arrived + 1] IN u.kind = "tap" => u.request \in buttons
    /\ arrived' = arrived + 1
    /\ UNCHANGED <<approvals, inCharge, Updates, confirmed, offset, chat, store, poll, note,
                   active, history, ends, faults>>

(* The webhook route decides the same tap, and does nothing to the chat.   *)
Webhook(u) ==
    /\ u <= arrived /\ Updates[u].kind = "tap"
    /\ Fault
    /\ Decide(Updates[u].request, Updates[u].decision, Updates[u].from)
    /\ UNCHANGED <<inCharge, server, offset, chat, store, poll, note, active, history,
                   ends>>

-----------------------------------------------------------------------------
(* The poller's loop.                                                      *)

At(p, pc) == poll[p].pc = pc
Goes(p, pc) == poll' = [poll EXCEPT ![p].pc = pc]

ReadOffset(p) ==
    /\ At(p, "idle") /\ inCharge = p
    /\ poll' = [poll EXCEPT ![p].pc = "asking", ![p].read = offset]
    /\ UNCHANGED <<approvals, inCharge, server, offset, chat, store, note, active,
                   history, ends, faults>>

(* getUpdates with offset n + 1 discards what is at or below n and returns *)
(* the next ones.                                                          *)
Fetch(p) ==
    /\ At(p, "asking")
    /\ confirmed' = Max({confirmed, poll[p].read})
    /\ LET next == confirmed' + 1
           last == Min({arrived, confirmed' + BatchLimit})
       IN poll' = [poll EXCEPT ![p] =
            IF last < next THEN Idle
            ELSE [Idle EXCEPT !.pc = "handling", !.at = next, !.last = last]]
    /\ UNCHANGED <<approvals, inCharge, Updates, arrived, offset, chat, store, note, active,
                   history, ends, faults>>

(* The next poll waits for a while, twice as long after each failure.      *)
FetchFails(p) ==
    /\ At(p, "asking")
    /\ Fault
    /\ poll' = [poll EXCEPT ![p] = Idle]
    /\ UNCHANGED <<approvals, inCharge, server, offset, chat, store, note, active,
                   history, ends>>

Current(p) == Updates[poll[p].at]
authorized(u) == u.from = Owner
Handling(p, kind) == /\ At(p, "handling") /\ poll[p].at <= poll[p].last
                     /\ authorized(Current(p)) /\ Current(p).kind = kind

(* The handler returned or threw: on to the next update.                   *)
NextUpdate(p) == poll' = [poll EXCEPT ![p].pc = "handling", ![p].at = @ + 1,
                                      ![p].read = 0]
Seen(p, what) == seen' = [seen EXCEPT ![poll[p].at] = @ \cup {what}]

Refuse(p) ==
    /\ At(p, "handling") /\ poll[p].at <= poll[p].last
    /\ ~authorized(Current(p))
    /\ Seen(p, "refused") /\ NextUpdate(p)
    /\ UNCHANGED <<approvals, inCharge, server, offset, chat, store, note, active, swept,
                   ends, faults>>

BatchDone(p) ==
    /\ At(p, "handling") /\ poll[p].at > poll[p].last
    /\ Goes(p, "committing")
    /\ UNCHANGED <<approvals, inCharge, server, offset, chat, store, note, active,
                   history, ends, faults>>

(* Fault: the offset is assigned, whatever another poller committed.       *)
CommitPlain(p) ==
    /\ At(p, "committing")
    /\ offset' = poll[p].last
    /\ poll' = [poll EXCEPT ![p] = Idle]
    /\ UNCHANGED <<approvals, inCharge, server, chat, store, note, active, history, ends,
                   faults>>

Commit(p) ==
    /\ At(p, "committing")
    /\ offset' = Max({offset, poll[p].last})
    /\ poll' = [poll EXCEPT ![p] = Idle]
    /\ UNCHANGED <<approvals, inCharge, server, chat, store, note, active, history, ends,
                   faults>>

-----------------------------------------------------------------------------
(* The handlers.  What one throws is counted, and the update passed over.  *)

Handled(p) == Seen(p, "handled") /\ NextUpdate(p)

HandlerThrows(p) ==
    /\ \/ At(p, "handling") /\ poll[p].at <= poll[p].last
          /\ authorized(Current(p)) /\ Current(p).kind # "file"
       \/ At(p, "sending") \/ At(p, "queueing")
    /\ Fault
    /\ Seen(p, "failed") /\ NextUpdate(p)
    /\ UNCHANGED <<approvals, inCharge, server, offset, chat, store, note, active, swept,
                   ends>>

(* A tap: the decision first, then the toast and the message.              *)
TapDecides(p) ==
    /\ Handling(p, "tap")
    /\ LET u == Current(p)
       IN /\ Decide(u.request, u.decision, u.from)
          /\ poll' = [poll EXCEPT ![p].pc = "settling", ![p].read =
                        IF Outcome(u.request, u.from) = "decided" THEN 1 ELSE 0]
    /\ UNCHANGED <<inCharge, server, offset, chat, store, note, active, history, ends,
                   faults>>

(* Only a decision strips the buttons; a failure to do so is swallowed.    *)
TapSettles(p) ==
    /\ At(p, "settling")
    /\ \/ /\ buttons' = IF poll[p].read = 1
                         THEN buttons \ {Current(p).request} ELSE buttons
          /\ UNCHANGED faults
       \/ Fault /\ UNCHANGED buttons
    /\ Handled(p)
    /\ UNCHANGED <<approvals, inCharge, server, offset, stickers, stickersSent,
                   store, note, active, swept, ends>>

CommandAnswered(p) ==
    /\ Handling(p, "command")
    /\ Handled(p)
    /\ UNCHANGED <<approvals, inCharge, server, offset, chat, store, note, active, swept,
                   ends, faults>>

(* A message: the version is looked up, then expected by the append, then  *)
(* the reply is queued.                                                    *)
Locate(p) ==
    /\ Handling(p, "text")
    /\ poll' = [poll EXCEPT ![p].pc = "sending", ![p].read = Len(thread)]
    /\ UNCHANGED <<approvals, inCharge, server, offset, chat, store, note, active,
                   history, ends, faults>>

Stored(entry) == /\ thread' = Append(thread, entry)
                 /\ replies' = Append(replies, "none")

SendMessage(p) ==
    /\ At(p, "sending")
    /\ IF poll[p].read = Len(thread)
       THEN /\ Stored([role |-> "owner", of |-> poll[p].at])
            /\ Goes(p, "queueing")
            /\ UNCHANGED seen
       ELSE Seen(p, "failed") /\ NextUpdate(p) /\ UNCHANGED <<thread, replies>>
    /\ UNCHANGED <<approvals, inCharge, server, offset, chat, files, note, active, swept,
                   ends, faults>>

QueueReply(p) ==
    /\ At(p, "queueing")
    /\ replies' = [replies EXCEPT ![poll[p].read + 1] = "queued"]
    /\ Goes(p, "acknowledging")
    /\ UNCHANGED <<approvals, inCharge, server, offset, chat, thread, files, note, active,
                   history, ends, faults>>

(* A file: three transactions of the attachment, any failure is caught.    *)
FilePut(p) ==
    /\ Handling(p, "file")
    /\ files' = [files EXCEPT ![poll[p].at] = Append(@, "quarantined")]
    /\ poll' = [poll EXCEPT ![p].pc = "filing",
                            ![p].read = Len(files[poll[p].at]) + 1]
    /\ UNCHANGED <<approvals, inCharge, server, offset, chat, thread, replies, note,
                   active, history, ends, faults>>

FileMoves(p, pc, state, next) ==
    /\ At(p, pc)
    /\ files' = [files EXCEPT ![poll[p].at][poll[p].read] = state]
    /\ Goes(p, next)
    /\ UNCHANGED <<approvals, inCharge, server, offset, chat, thread, replies, note,
                   active, history, ends, faults>>

FileValidated(p) == FileMoves(p, "filing", "validated", "validated")
FileScanned(p) == FileMoves(p, "validated", "scanned", "acknowledging")

FileFails(p) ==
    /\ Handling(p, "file") \/ At(p, "filing") \/ At(p, "validated")
    /\ Fault
    /\ Goes(p, "acknowledging")
    /\ UNCHANGED <<approvals, inCharge, server, offset, chat, store, note, active,
                   history, ends>>

-----------------------------------------------------------------------------
(* The loading sticker.                                                    *)

(* stop(): the sticker is forgotten, then deleted; a failure to delete it  *)
(* is swallowed.                                                           *)
Stop(p) ==
    /\ active' = [active EXCEPT ![p] = 0]
    /\ \/ /\ stickers' = stickers \ {active[p]}
          /\ UNCHANGED <<swept, faults>>
       \/ /\ active[p] # 0 /\ Fault
          /\ swept' = swept \cup {active[p]}
          /\ UNCHANGED stickers

(* Fault: start() does not stop the sticker that is there.                 *)
StartAgain(p) ==
    /\ At(p, "acknowledging")
    /\ Goes(p, "stopped")
    /\ UNCHANGED <<approvals, inCharge, server, offset, chat, store, note,
                   active, history, ends, faults>>

(* start(): stop() what is there, send another, remember it.               *)
StartStops(p) ==
    /\ At(p, "acknowledging")
    /\ Stop(p)
    /\ Goes(p, "stopped")
    /\ UNCHANGED <<approvals, inCharge, server, offset, buttons, stickersSent,
                   store, note, seen, ends>>

StartSends(p) ==
    /\ At(p, "stopped")
    /\ \/ /\ stickersSent' = stickersSent + 1
          /\ stickers' = stickers \cup {stickersSent'}
          /\ poll' = [poll EXCEPT ![p].pc = "spinning", ![p].read = stickersSent']
          /\ UNCHANGED <<seen, faults>>
       \/ Fault /\ Handled(p) /\ UNCHANGED <<stickers, stickersSent>>
    /\ UNCHANGED <<approvals, inCharge, server, offset, buttons, store, note,
                   active, swept, ends>>

StartEnds(p) ==
    /\ At(p, "spinning")
    /\ \/ active' = [active EXCEPT ![p] = poll[p].read] /\ UNCHANGED <<swept, faults>>
       \/ Fault /\ swept' = swept \cup {poll[p].read} /\ UNCHANGED active
    /\ Handled(p)
    /\ UNCHANGED <<approvals, inCharge, server, offset, chat, store, note, ends>>

-----------------------------------------------------------------------------
(* The tasks that end, and the notifier the supervisor then awaits.        *)

Up(p) == ~At(p, "down")
Told(p, event) == note' = [note EXCEPT ![p] = event]

(* A reply lands only on the version right after its question.             *)
ReplyEnds(p, i) ==
    /\ inCharge = p /\ note[p] = Quiet
    /\ i \in DOMAIN replies /\ replies[i] = "queued"
    /\ \/ /\ i = Len(thread)
          /\ thread' = Append(thread, [role |-> "assistant", of |-> i])
          /\ replies' = Append([replies EXCEPT ![i] = "succeeded"], "none")
          /\ Told(p, [pc |-> "reply", task |-> i, ok |-> TRUE, found |-> 0])
          /\ UNCHANGED faults
       \/ /\ (i # Len(thread) /\ UNCHANGED faults) \/ Fault
          /\ replies' = [replies EXCEPT ![i] = "failed"]
          /\ Told(p, [pc |-> "reply", task |-> i, ok |-> FALSE, found |-> 0])
          /\ UNCHANGED thread
    /\ UNCHANGED <<approvals, inCharge, server, offset, chat, files, poll, active,
                   history, ends>>

Answers == {i \in DOMAIN thread : thread[i].role = "assistant"}

(* Fault: the first answer of the conversation instead of the latest.      *)
FindFirst(p) ==
    /\ note[p].pc = "reply"
    /\ Told(p, IF note[p].ok
               THEN [note[p] EXCEPT !.pc = "stopping", !.found = Min(Answers)]
               ELSE [note[p] EXCEPT !.pc = "answer"])
    /\ UNCHANGED <<approvals, inCharge, server, offset, chat, store, poll, active,
                   history, ends, faults>>

(* replyFor(): the latest answer of the conversation.  A failed reply gets *)
(* a report, and so does one whose answer cannot be read; the sticker      *)
(* stays.                                                                  *)
FindAnswer(p) ==
    /\ note[p].pc = "reply"
    /\ \/ /\ Told(p, IF note[p].ok
                      THEN [note[p] EXCEPT !.pc = "stopping", !.found = Max(Answers)]
                      ELSE [note[p] EXCEPT !.pc = "answer"])
          /\ UNCHANGED faults
       \/ /\ note[p].ok /\ Fault
          /\ Told(p, [note[p] EXCEPT !.pc = "answer", !.ok = FALSE])
    /\ UNCHANGED <<approvals, inCharge, server, offset, chat, store, poll, active,
                   history, ends>>

AnswerStops(p) ==
    /\ note[p].pc = "stopping"
    /\ Stop(p)
    /\ Told(p, [note[p] EXCEPT !.pc = "answer"])
    /\ UNCHANGED <<approvals, inCharge, server, offset, buttons, stickersSent,
                   store, poll, seen, ends>>

(* The answer, or the report of a failure; not sent, it is not sent again. *)
SayAnswer(p) ==
    /\ note[p].pc = "answer"
    /\ Told(p, Quiet)
    /\ UNCHANGED <<approvals, inCharge, server, offset, chat, store, poll,
                   active, history, ends, faults>>

(* Any other task ends.                                                    *)
TaskEnds(p, spec, outcome, rows) ==
    /\ inCharge = p /\ note[p] = Quiet
    /\ ends < MaxEnds /\ ends' = ends + 1
    /\ Told(p, [pc |-> "end", spec |-> spec, outcome |-> outcome, rows |-> rows])
    /\ UNCHANGED <<approvals, inCharge, server, offset, chat, store, poll, active,
                   history, faults>>

(* taskFinished(): the facts, as far as they can be read, then what is to  *)
(* be sent.                                                                *)
Reported(e, unread, provider) ==
    [pc |-> "report", rows |-> e.rows, form |-> FormOf(e.spec, e.outcome, unread),
     provider |-> provider, unread |-> unread,
     free |-> SaysFree(e.outcome, RowsRead(e.rows, unread))]

TellEnd(p) ==
    /\ note[p].pc = "end"
    /\ \E unread \in SUBSET Facts :
         /\ IF unread = {} THEN UNCHANGED faults ELSE Fault
         /\ LET e == note[p]
                rows == RowsRead(e.rows, unread)
            IN \/ /\ FormOf(e.spec, e.outcome, unread) = "silent"
                  /\ Told(p, Quiet)
               \/ /\ FormOf(e.spec, e.outcome, unread) # "silent"
                  /\ \E provider \in IF rows = {} THEN {"none"}
                                     ELSE {r.provider : r \in usageFor(rows)} :
                        Told(p, Reported(e, unread, provider))
    /\ UNCHANGED <<approvals, inCharge, server, offset, chat, store, poll,
                   active, history, ends>>

(* Only the summary of a build stops the sticker.  A failure to send is    *)
(* swallowed.                                                              *)
SendReport(p) ==
    /\ note[p].pc = "report"
    /\ IF note[p].form = "summary" THEN Stop(p)
       ELSE UNCHANGED <<active, stickers, swept, faults>>
    /\ Told(p, Quiet)
    /\ UNCHANGED <<approvals, inCharge, server, offset, buttons, stickersSent,
                   store, poll, seen, ends>>

-----------------------------------------------------------------------------
(* Processes.                                                              *)

Start(p) ==
    /\ At(p, "down") /\ note[p] = Quiet /\ inCharge = "nobody"
    /\ inCharge' = p
    /\ poll' = [poll EXCEPT ![p] = Idle]
    /\ UNCHANGED <<approvals, server, offset, chat, store, note, active,
                   history, ends, faults>>

(* shutdown() gives the lease up; a process that stalls loses it.          *)
LoseLease(p) ==
    /\ inCharge = p
    /\ Fault
    /\ inCharge' = "nobody"
    /\ UNCHANGED <<approvals, server, offset, chat, store, poll, note, active,
                   history, ends>>

Spinning(p) == IF At(p, "spinning") THEN {poll[p].read} ELSE {}
Tracked(p) == Spinning(p) \cup ({active[p]} \ {0})

Gone(p) ==
    /\ poll' = [poll EXCEPT ![p] = Down]
    /\ Told(p, Quiet)
    /\ active' = [active EXCEPT ![p] = 0]
    /\ swept' = swept \cup Tracked(p)
    /\ UNCHANGED <<approvals, server, offset, chat, store, seen, ends>>

(* Without the lease a process ends: after its last poll, or at the first  *)
(* query that finds the pool closed.                                       *)
Leave(p) ==
    /\ Up(p) /\ inCharge # p
    /\ Gone(p)
    /\ UNCHANGED <<inCharge, faults>>

(* A process dies of anything, a commit that throws included: pollOnce()   *)
(* lets that through, and nothing catches it.                              *)
Die(p) ==
    /\ Up(p) /\ inCharge = p
    /\ Fault
    /\ Gone(p)
    /\ inCharge' = "nobody"

-----------------------------------------------------------------------------
PollerStep(p) ==
    \/ ReadOffset(p) \/ Fetch(p) \/ Refuse(p) \/ BatchDone(p) \/ Commit(p)
    \/ TapDecides(p) \/ TapSettles(p) \/ CommandAnswered(p)
    \/ Locate(p) \/ SendMessage(p) \/ QueueReply(p)
    \/ FilePut(p) \/ FileValidated(p) \/ FileScanned(p)
    \/ StartStops(p) \/ StartSends(p) \/ StartEnds(p)

NotifierStep(p) ==
    \/ FindAnswer(p) \/ AnswerStops(p) \/ SayAnswer(p) \/ TellEnd(p)
    \/ SendReport(p)

TasksStep(p) ==
    \/ \E i \in DOMAIN replies : ReplyEnds(p, i)
    \/ \E s \in Specs, o \in Outcomes, r \in SpendTables : TaskEnds(p, s, o, r)

FaultStep(p) ==
    \/ FetchFails(p) \/ HandlerThrows(p) \/ FileFails(p)
    \/ LoseLease(p) \/ Die(p)

Next ==
    \/ \E a \in Requests : Ask(a) \/ RunOut(a)
    \/ Arrive
    \/ \E u \in Ids : Webhook(u)
    \/ \E p \in Processes : \/ Start(p) \/ Leave(p) \/ PollerStep(p) \/ NotifierStep(p)
                           \/ TasksStep(p) \/ FaultStep(p)

Spec == Init /\ [][Next]_vars

-----------------------------------------------------------------------------
(* No update is lost to the offset: one at or below it went through the    *)
(* handlers, and Telegram discards no other.  Handled means done: the tap  *)
(* found or made its decision, or came too late; the message is in the     *)
(* thread with a reply queued for it.                                      *)
Done(u) ==
    CASE Updates[u].kind = "tap" ->
            status[Updates[u].request] # "pending"
            \/ Updates[u].request \in overdue
      [] Updates[u].kind = "text" ->
            \E i \in DOMAIN thread : /\ thread[i] = [role |-> "owner", of |-> u]
                                    /\ replies[i] # "none"
      [] OTHER -> TRUE

AcknowledgedIsDone ==
    /\ confirmed <= offset
    /\ \A u \in Ids : u <= offset => seen[u] # {}
    /\ \A u \in Ids : "handled" \in seen[u] => Done(u)
    /\ \A a \in Requests \ buttons : status[a] \in {"none"} \cup Decisions

(* A sticker still in the chat is one its process remembers or is just     *)
(* sending, or one that a crash or a failed call left behind; although the *)
(* notifier stops the sticker while the handler is starting the next one.  *)
StickersAreTracked ==
    stickers \subseteq swept \cup UNION {Tracked(p) : p \in Processes}

(* The answer sent for a reply is its own or a later one, never an older:  *)
(* replyFor() takes the conversation's latest, not the task's.             *)
AnswersAreNew ==
    /\ TypeOK
    /\ \A p \in Processes : note[p].pc \in {"stopping", "answer"} /\ note[p].ok =>
          \E i \in 1..note[p].found :
              thread[i] = [role |-> "assistant", of |-> note[p].task]

(* A failure, a cancellation, a state this build does not know and the     *)
(* last phase of a build reach the owner, whatever facts cannot be read.   *)
(* A report says that nothing was charged only of a task without provider  *)
(* calls, and a success names a provider whose work was accepted, if any   *)
(* was.  A report whose spend could not be read names nobody, and does not *)
(* tell that from no spend.                                                *)
WorthTelling(e) ==
    /\ ~e.spec.probe
    /\ e.outcome # "retry_wait"
    /\ \/ e.outcome # "succeeded"
       \/ e.spec.driver = "ai_patch_executor" /\ e.spec.phase # "inner"

Accepted(rows) == {r.provider : r \in {x \in rows : x.accepted}}

EndsAreTold ==
    [][\A p \in Processes :
        /\ note[p].pc = "end" /\ WorthTelling(note[p]) /\ poll'[p].pc # "down"
               => note'[p].pc \in {"end", "report"}
        /\ note'[p].pc = "report" =>
               LET n == note'[p]
               IN \/ "usage" \in n.unread /\ n.provider = "none"
                  \/ /\ Accepted(n.rows) # {} => n.provider \in Accepted(n.rows)
                     /\ n.free => n.rows = {}]_vars

=============================================================================
