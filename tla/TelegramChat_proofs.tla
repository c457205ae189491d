------------------------- MODULE TelegramChat_proofs -------------------------
(***************************************************************************)
(* OneDecision, StickersAreTracked, AcknowledgedIsDone, AnswersAreNew and  *)
(* EndsAreTold, for any chat, any identities and any number of processes   *)
(* that overlap.  ChatInv says where each poller is and what its approvals *)
(* and stickers are; AckInv ties the place of a poller to what handlers    *)
(* before it have done; NotesInv ties what a notifier is about to say to   *)
(* the thread and to the rows it read.                                     *)
(***************************************************************************)
EXTENDS TelegramChat, SequenceTheorems, WellFoundedInduction, TLAPS

TrailEntry == [action : {"requested"} \cup Decisions, actor : {"system"} \cup Identities]

ApprovalInv ==
    /\ status \in [Requests -> {"none", "pending"} \cup Decisions]
    /\ trail \in [Requests -> Seq(TrailEntry)]
    /\ OneDecision

(* A request is created once, with the first entry of its trail.           *)
LEMMA CreateKeeps ==
    ASSUME ApprovalInv, NEW a \in Requests, Create(a) PROVE ApprovalInv'
<1>. DEFINE e == [action |-> "requested", actor |-> "system"]
<1>1. /\ status[a] = "none"
      /\ status' = [status EXCEPT ![a] = "pending"]
      /\ trail' = [trail EXCEPT ![a] = Append(@, e)]
  BY DEF Create, Trailed
<1>2. e \in TrailEntry
  BY DEF TrailEntry
<1>. HIDE DEF e
<1>3. trail[a] = <<>> /\ <<>> \in Seq(TrailEntry) /\ Len(<<>>) = 0
  BY <1>1 DEF ApprovalInv, OneDecision
<1>4. /\ trail'[a] \in Seq(TrailEntry) /\ Len(trail'[a]) = 1 /\ trail'[a][1] = e
      /\ status'[a] = "pending"
  BY <1>1, <1>2, <1>3, AppendProperties DEF ApprovalInv
<1>5. \A b \in Requests \ {a} : status'[b] = status[b] /\ trail'[b] = trail[b]
  BY <1>1 DEF ApprovalInv
<1>6. /\ status' \in [Requests -> {"none", "pending"} \cup Decisions]
      /\ trail' \in [Requests -> Seq(TrailEntry)]
  BY <1>1, <1>4 DEF ApprovalInv
<1>7. e = [action |-> "requested", actor |-> "system"]
  BY DEF e
<1>8. OneDecision'
  BY <1>4, <1>5, <1>7 DEF ApprovalInv, OneDecision, Decisions
<1>. QED BY <1>6, <1>8 DEF ApprovalInv

(* A tap, whoever makes it and over whichever path it comes: only the      *)
(* owner's on a pending request decides it, with the second entry.         *)
LEMMA DecideKeeps ==
    ASSUME ApprovalInv, NEW a, NEW d \in Decisions, NEW who, a \in Requests,
           Decide(a, d, who)
    PROVE  ApprovalInv'
<1>1. CASE Outcome(a, who) # "decided"
  BY <1>1 DEF Decide, approvals, ApprovalInv, OneDecision
<1>2. CASE Outcome(a, who) = "decided"
  <2>. DEFINE e == [action |-> d, actor |-> who]
  <2>1. status[a] = "pending" /\ who = Owner
    BY <1>2 DEF Outcome
  <2>2. /\ status' = [status EXCEPT ![a] = d]
        /\ trail' = [trail EXCEPT ![a] = Append(@, e)]
    BY <1>2 DEF Decide, Trailed
  <2>3. e \in TrailEntry
    BY <2>1, ApprovalAssumption DEF TrailEntry
  <2>. HIDE DEF e
  <2>4. /\ trail[a] \in Seq(TrailEntry) /\ Len(trail[a]) = 1
        /\ trail[a][1] = [action |-> "requested", actor |-> "system"]
    BY <2>1 DEF ApprovalInv, OneDecision
  <2>a. trail'[a] = Append(trail[a], e) /\ status'[a] = d
    BY <2>2 DEF ApprovalInv
  <2>b. 1 \in 1..Len(trail[a])
    BY <2>4
  <2>5. /\ trail'[a] \in Seq(TrailEntry) /\ Len(trail'[a]) = 2
        /\ trail'[a][1] = trail[a][1] /\ trail'[a][2] = e /\ status'[a] = d
    BY <2>3, <2>4, <2>a, <2>b, AppendProperties
  <2>6. \A b \in Requests \ {a} : status'[b] = status[b] /\ trail'[b] = trail[b]
    BY <2>2 DEF ApprovalInv
  <2>7. /\ status' \in [Requests -> {"none", "pending"} \cup Decisions]
        /\ trail' \in [Requests -> Seq(TrailEntry)]
    BY <2>2, <2>5 DEF ApprovalInv
  <2>8. e = [action |-> d, actor |-> Owner]
    BY <2>1 DEF e
  <2>9. OneDecision'
    BY <2>4, <2>5, <2>6, <2>8 DEF ApprovalInv, OneDecision, Decisions
  <2>. QED BY <2>7, <2>9 DEF ApprovalInv
<1>. QED BY <1>1, <1>2

(* The other steps of a process leave the approvals alone.                 *)
LEMMA PollerLeavesApprovals ==
    ASSUME NEW p \in Processes, PollerStep(p), ~TapDecides(p)
    PROVE  UNCHANGED approvals
  BY DEF PollerStep, ReadOffset, Fetch, Refuse, BatchDone, Commit, TapSettles,
     CommandAnswered, Locate, SendMessage, QueueReply, FilePut, FileValidated, FileScanned,
     FileMoves, StartStops, StartSends, StartEnds

(* Neither the notifier, nor the tasks that end, touch the approvals.      *)
LEMMA TasksLeaveApprovals ==
    ASSUME NEW p \in Processes, NotifierStep(p) \/ TasksStep(p)
    PROVE  UNCHANGED approvals
  BY DEF NotifierStep, TasksStep, FindAnswer, AnswerStops, SayAnswer, TellEnd, SendReport,
     ReplyEnds, TaskEnds

(* Neither a start, nor an end, nor a fault does.                          *)
LEMMA ProcessesLeaveApprovals ==
    ASSUME NEW p \in Processes, Start(p) \/ Leave(p) \/ FaultStep(p)
    PROVE  UNCHANGED approvals
  BY DEF FaultStep, Start, Leave, FetchFails, HandlerThrows, FileFails, LoseLease, Die, Gone

-----------------------------------------------------------------------------
(* Where each poller is, and what the steps need to keep it there.         *)

Placed(r) == r \in Poller /\ r.at >= 1 /\ r.last <= arrived

PlacesInv ==
    /\ Updates \in Seq(Update)
    /\ arrived \in 0..Len(Updates) /\ confirmed \in Nat /\ offset \in Nat
    /\ DOMAIN poll = Processes /\ poll = [p \in Processes |-> poll[p]]
    /\ \A p \in Processes : Placed(poll[p])

ReplyState == {"none", "queued", "succeeded", "failed"}
FileState == {"quarantined", "validated", "scanned"}

StoreInv ==
    /\ thread \in Seq(Entry) /\ replies \in Seq(ReplyState)
    /\ files \in [Ids -> Seq(FileState)]

StickersInv ==
    /\ stickersSent \in Nat /\ 0 \notin stickers
    /\ active \in [Processes -> Nat]
    /\ \A p \in Processes : poll[p].pc \in {"stopped", "spinning"} => active[p] = 0
    /\ StickersAreTracked

ChatInv == PlacesInv /\ StoreInv /\ StickersInv /\ ApprovalInv

(* The greatest and the least of two numbers are one of the two.           *)
LEMMA OfTwo ==
    ASSUME NEW m \in Nat, NEW n \in Nat
    PROVE  /\ Max({m, n}) \in Nat /\ Max({m, n}) >= m
           /\ Min({m, n}) \in Nat /\ Min({m, n}) <= m
<1>1. \E x \in {m, n} : \A y \in {m, n} : x >= y
  OBVIOUS
<1>2. \E x \in {m, n} : \A y \in {m, n} : x <= y
  OBVIOUS
<1>. QED BY <1>1, <1>2 DEF Max, Min

(* The steps of a poller that have nothing to do with the sticker.         *)
Plain(p) ==
    \/ ReadOffset(p) \/ Fetch(p) \/ FetchFails(p) \/ Refuse(p) \/ BatchDone(p)
    \/ Commit(p) \/ HandlerThrows(p) \/ TapDecides(p) \/ TapSettles(p)
    \/ CommandAnswered(p) \/ Locate(p) \/ SendMessage(p) \/ QueueReply(p)
    \/ FilePut(p) \/ FileValidated(p) \/ FileScanned(p) \/ FileFails(p) \/ Start(p)

(* Each moves its poller to a place that is one, out of and into places    *)
(* where no sticker is started.                                            *)
LEMMA PlainMoves ==
    ASSUME ChatInv, NEW p \in Processes, Plain(p)
    PROVE  /\ \E r : /\ Placed(r) /\ r.pc \notin {"stopped", "spinning"}
                     /\ poll' = [poll EXCEPT ![p] = r]
           /\ poll[p].pc # "spinning"
           /\ UNCHANGED <<Updates, arrived, stickers, stickersSent, active, swept>>
           /\ confirmed' \in Nat /\ offset' \in Nat
<1>. USE DEF ChatInv, PlacesInv, Placed, At, Goes, server, chat, history
<1>0. /\ poll[p] \in Poller /\ poll[p].at \in Nat /\ poll[p].last \in Nat
      /\ poll[p].read \in Nat /\ poll[p].at >= 1 /\ poll[p].last <= arrived
      /\ poll[p].at \in Nat \ {0} /\ poll[p].at + 1 \in Nat \ {0}
      /\ Len(thread) \in Nat /\ arrived \in Nat /\ arrived <= Len(Updates)
  BY DEF Poller, StoreInv
<1>i. Idle = [pc |-> "idle", at |-> 1, last |-> 0, read |-> 0]
  BY DEF Idle, Down
<1>j. Placed(Idle) /\ Idle.pc = "idle"
  BY <1>0, <1>i DEF Poller, PollerStates
<1>. HIDE DEF Placed
<1>e. ASSUME NEW pc \in PollerStates \ {"stopped", "spinning"}, NEW at \in Nat \ {0},
             NEW read \in Nat,
             poll' = [poll EXCEPT ![p].pc = pc, ![p].at = at, ![p].read = read]
      PROVE  \E r : /\ Placed(r) /\ r.pc \notin {"stopped", "spinning"}
                    /\ poll' = [poll EXCEPT ![p] = r]
  <2>. DEFINE q == poll[p]
              r == [q EXCEPT !.pc = pc, !.at = at, !.read = read]
  <2>1. q \in Poller /\ q.last <= arrived
    BY <1>0
  <2>2. poll' = [poll EXCEPT ![p] = r]
    BY <1>e
  <2>. HIDE DEF q
  <2>3. r \in Poller /\ r.pc = pc /\ r.at = at /\ r.last = q.last
    BY <2>1 DEF Poller
  <2>. HIDE DEF r
  <2>4. Placed(r)
    BY <2>1, <2>3 DEF Placed
  <2>. QED BY <2>2, <2>3, <2>4
<1>g. ASSUME NEW pc \in PollerStates \ {"stopped", "spinning"}, Goes(p, pc)
      PROVE  \E r : /\ Placed(r) /\ r.pc \notin {"stopped", "spinning"}
                    /\ poll' = [poll EXCEPT ![p] = r]
  <2>1. poll' = [poll EXCEPT ![p].pc = pc, ![p].at = poll[p].at, ![p].read = poll[p].read]
    BY <1>g, <1>0 DEF Poller
  <2>. QED BY <1>e, <1>0, <2>1
<1>x. ASSUME NextUpdate(p)
      PROVE  \E r : /\ Placed(r) /\ r.pc \notin {"stopped", "spinning"}
                    /\ poll' = [poll EXCEPT ![p] = r]
  <2>1. poll' = [poll EXCEPT ![p].pc = "handling", ![p].at = poll[p].at + 1, ![p].read = 0]
    BY <1>x DEF NextUpdate
  <2>2. "handling" \in PollerStates \ {"stopped", "spinning"}
    BY DEF PollerStates
  <2>. QED BY <1>e, <1>0, <2>1, <2>2
<1>r. ASSUME NEW pc \in PollerStates \ {"stopped", "spinning"}, NEW read \in Nat,
             poll' = [poll EXCEPT ![p].pc = pc, ![p].read = read]
      PROVE  \E r : /\ Placed(r) /\ r.pc \notin {"stopped", "spinning"}
                    /\ poll' = [poll EXCEPT ![p] = r]
  <2>1. poll' = [poll EXCEPT ![p].pc = pc, ![p].at = poll[p].at, ![p].read = read]
    BY <1>r, <1>0 DEF Poller
  <2>. QED BY <1>e, <1>0, <2>1
<1>1. CASE ReadOffset(p)
  BY <1>1, <1>r DEF ReadOffset, PollerStates
<1>2. CASE Fetch(p)
  <2>1. confirmed' \in Nat
    BY <1>2, <1>0, OfTwo DEF Fetch
  <2>2. PICK next, last : /\ next = confirmed' + 1
                          /\ last = Min({arrived, confirmed' + BatchLimit})
                          /\ poll' = [poll EXCEPT ![p] =
                               IF last < next THEN Idle
                               ELSE [Idle EXCEPT !.pc = "handling", !.at = next, !.last = last]]
    BY <1>2 DEF Fetch
  <2>a. confirmed' + BatchLimit \in Nat
    BY <2>1, ChatAssumption
  <2>b. /\ Min({arrived, confirmed' + BatchLimit}) \in Nat
        /\ Min({arrived, confirmed' + BatchLimit}) <= arrived
    BY <2>a, <1>0, OfTwo
  <2>3. last \in 0..arrived
    BY <2>b, <2>2, <1>0
  <2>. DEFINE r == [Idle EXCEPT !.pc = "handling", !.at = next, !.last = last]
  <2>4. next \in Nat \ {0} /\ "handling" \in PollerStates /\ Idle \in Poller
    BY <2>1, <2>2, <1>j DEF PollerStates, Placed
  <2>5. r \in Poller /\ r.pc = "handling" /\ r.at = next /\ r.last = last
    <3>1. last \in Nat
      BY <1>0, <2>3
    <3>. DEFINE q == Idle
    <3>2. q \in Poller
      BY <2>4
    <3>. HIDE DEF q
    <3>3. LET t == [q EXCEPT !.pc = "handling", !.at = next, !.last = last]
          IN t \in Poller /\ t.pc = "handling" /\ t.at = next /\ t.last = last
      BY <2>4, <3>1, <3>2 DEF Poller
    <3>. QED BY <3>3 DEF q
  <2>. HIDE DEF r
  <2>6. Placed(r)
    BY <2>3, <2>4, <2>5 DEF Placed
  <2>7. /\ UNCHANGED <<Updates, arrived, stickers, stickersSent, active, swept, offset>>
        /\ poll[p].pc = "asking"
    BY <1>2 DEF Fetch
  <2>8. CASE last < next
    BY <2>1, <2>2, <2>7, <2>8, <1>j
  <2>9. CASE ~(last < next)
    BY <2>1, <2>2, <2>5, <2>6, <2>7, <2>9 DEF r
  <2>. QED BY <2>8, <2>9
<1>3. CASE FetchFails(p)
  BY <1>3, <1>j DEF FetchFails
<1>4. CASE Refuse(p)
  BY <1>4, <1>x DEF Refuse
<1>5. CASE BatchDone(p)
  BY <1>5, <1>g DEF BatchDone, PollerStates
<1>6. CASE Commit(p)
  BY <1>6, <1>j, <1>0, OfTwo DEF Commit
<1>7. CASE HandlerThrows(p)
  BY <1>7, <1>x DEF HandlerThrows
<1>8. CASE TapDecides(p)
  BY <1>8, <1>r DEF TapDecides, Handling, PollerStates
<1>9. CASE TapSettles(p)
  BY <1>9, <1>x DEF TapSettles, Handled
<1>10. CASE CommandAnswered(p)
  BY <1>10, <1>x DEF CommandAnswered, Handled, Handling
<1>11. CASE Locate(p)
  BY <1>11, <1>r, <1>0 DEF Locate, Handling, PollerStates
<1>12. CASE SendMessage(p)
  BY <1>12, <1>g, <1>x DEF SendMessage, PollerStates
<1>13. CASE QueueReply(p)
  BY <1>13, <1>g DEF QueueReply, PollerStates
<1>14. CASE FilePut(p)
  <2>1. poll[p].at \in Ids
    BY <1>14, <1>0 DEF FilePut, Handling, Ids
  <2>2. Len(files[poll[p].at]) + 1 \in Nat
    BY <2>1 DEF StoreInv
  <2>. QED BY <1>14, <1>r, <2>2 DEF FilePut, Handling, PollerStates
<1>15. CASE FileValidated(p)
  BY <1>15, <1>g DEF FileValidated, FileMoves, PollerStates
<1>16. CASE FileScanned(p)
  BY <1>16, <1>g DEF FileScanned, FileMoves, PollerStates
<1>17. CASE FileFails(p)
  BY <1>17, <1>g DEF FileFails, Handling, PollerStates
<1>18. CASE Start(p)
  BY <1>18, <1>j DEF Start
<1>. QED
  BY <1>1, <1>2, <1>3, <1>4, <1>5, <1>6, <1>7, <1>8, <1>9, <1>10, <1>11, <1>12, <1>13,
     <1>14, <1>15, <1>16, <1>17, <1>18 DEF Plain

(* A poller at a place is typed, and each place is one poller's.           *)
LEMMA MovedPlaces ==
    ASSUME PlacesInv, NEW p \in Processes, NEW r, Placed(r),
           poll' = [poll EXCEPT ![p] = r], UNCHANGED <<Updates, arrived>>,
           confirmed' \in Nat, offset' \in Nat
    PROVE  /\ PlacesInv'
           /\ poll'[p] = r /\ \A q \in Processes \ {p} : poll'[q] = poll[q]
<1>1. poll'[p] = r /\ \A q \in Processes \ {p} : poll'[q] = poll[q]
  BY DEF PlacesInv
<1>2. DOMAIN poll' = Processes /\ poll' = [q \in Processes |-> poll'[q]]
  BY DEF PlacesInv
<1>3. \A q \in Processes : Placed(poll[q])'
  BY <1>1 DEF PlacesInv, Placed
<1>. QED BY <1>1, <1>2, <1>3 DEF PlacesInv

(* Which stickers are tracked depends on the pollers that are sending one. *)
LEMMA PlainKeepsStickers ==
    ASSUME ChatInv, NEW p \in Processes, Plain(p) PROVE PlacesInv' /\ StickersInv'
<1>1. PICK r : /\ Placed(r) /\ r.pc \notin {"stopped", "spinning"}
               /\ poll' = [poll EXCEPT ![p] = r]
  BY PlainMoves
<1>2. /\ poll[p].pc # "spinning"
      /\ UNCHANGED <<Updates, arrived, stickers, stickersSent, active, swept>>
      /\ confirmed' \in Nat /\ offset' \in Nat
  BY PlainMoves
<1>3. PlacesInv' /\ poll'[p] = r /\ \A q \in Processes \ {p} : poll'[q] = poll[q]
  BY <1>1, <1>2, MovedPlaces DEF ChatInv
<1>4. \A q \in Processes : Spinning(q)' = Spinning(q)
  BY <1>1, <1>2, <1>3 DEF Spinning, At
<1>5. \A q \in Processes : Tracked(q)' = Tracked(q)
  BY <1>2, <1>4 DEF Tracked
<1>6. StickersAreTracked'
  BY <1>2, <1>5 DEF ChatInv, StickersInv, StickersAreTracked
<1>. QED BY <1>1, <1>2, <1>3, <1>6 DEF ChatInv, StickersInv

(* stop() forgets a sticker that it deletes, or that it leaves behind.     *)
LEMMA StopKeepsStickers ==
    ASSUME StickersInv, NEW p \in Processes, Stop(p), UNCHANGED stickersSent,
           \A q \in Processes : Spinning(q)' = Spinning(q)
    PROVE  /\ active' \in [Processes -> Nat] /\ active'[p] = 0
           /\ \A q \in Processes \ {p} : active'[q] = active[q]
           /\ StickersAreTracked' /\ 0 \notin stickers'
<1>1. /\ active' \in [Processes -> Nat] /\ active'[p] = 0
      /\ \A q \in Processes \ {p} : active'[q] = active[q]
  BY DEF Stop, StickersInv
<1>2. \A q \in Processes \ {p} : Tracked(q)' = Tracked(q)
  BY <1>1 DEF Tracked
<1>3. Tracked(p) \subseteq Tracked(p)' \cup {active[p]}
  BY DEF Tracked
<1>4. stickers' \subseteq stickers /\ swept \subseteq swept'
      /\ (active[p] \in stickers' => active[p] \in swept')
  BY DEF Stop
<1>5. ASSUME NEW s \in stickers'
      PROVE  s \in swept' \cup UNION {Tracked(q)' : q \in Processes}
  <2>1. CASE s \in swept'
    BY <2>1
  <2>2. CASE s \notin swept'
    <3>1. PICK q \in Processes : s \in Tracked(q)
      BY <1>4, <1>5, <2>2 DEF StickersInv, StickersAreTracked
    <3>2. s \in Tracked(q)'
      BY <1>2, <1>3, <1>4, <1>5, <2>2, <3>1
    <3>. QED BY <3>2
  <2>. QED BY <2>1, <2>2
<1>6. StickersAreTracked'
  BY <1>5 DEF StickersAreTracked
<1>. QED BY <1>1, <1>4, <1>6 DEF StickersInv

(* The steps that touch a sticker.                                         *)
Sticky(p) ==
    \/ StartStops(p) \/ StartSends(p) \/ StartEnds(p) \/ AnswerStops(p) \/ SendReport(p)
    \/ Leave(p) \/ Die(p)

(* Each keeps track of it: the notifier's too, while one is being sent.    *)
LEMMA StickyKeepsStickers ==
    ASSUME ChatInv, NEW p \in Processes, Sticky(p) PROVE PlacesInv' /\ StickersInv'
<1>. DEFINE GoesTo(r) == poll' = [poll EXCEPT ![p] = r]
<1>0. /\ poll[p] \in Poller /\ Placed(poll[p]) /\ active[p] \in Nat /\ PlacesInv
      /\ stickersSent \in Nat /\ StickersInv
  BY DEF ChatInv, PlacesInv, StickersInv, Placed
<1>g. ASSUME NEW pc \in PollerStates, NEW read \in Nat,
             poll' = [poll EXCEPT ![p].pc = pc, ![p].read = read],
             UNCHANGED <<Updates, arrived, confirmed, offset>>
      PROVE  /\ PlacesInv' /\ poll'[p].pc = pc /\ poll'[p].read = read
             /\ \A q \in Processes \ {p} : poll'[q] = poll[q]
  <2>. DEFINE q == poll[p]
              r == [q EXCEPT !.pc = pc, !.read = read]
  <2>1. q \in Poller /\ q.at >= 1 /\ q.last <= arrived
    BY <1>0 DEF Placed
  <2>2. GoesTo(r)
    BY <1>g
  <2>. HIDE DEF q
  <2>3. r \in Poller /\ r.pc = pc /\ r.read = read /\ r.at = q.at /\ r.last = q.last
    BY <2>1 DEF Poller
  <2>. HIDE DEF r
  <2>4. Placed(r)
    BY <2>1, <2>3 DEF Placed
  <2>5. confirmed' \in Nat /\ offset' \in Nat
    BY <1>0, <1>g DEF PlacesInv
  <2>. QED BY <1>0, <1>g, <2>2, <2>3, <2>4, <2>5, MovedPlaces
<1>h. ASSUME NextUpdate(p), UNCHANGED <<Updates, arrived, confirmed, offset>>
      PROVE  /\ PlacesInv' /\ poll'[p].pc = "handling"
             /\ \A q \in Processes \ {p} : poll'[q] = poll[q]
  <2>. DEFINE q == poll[p]
              r == [q EXCEPT !.pc = "handling", !.at = q.at + 1, !.read = 0]
  <2>1. q \in Poller /\ q.at >= 1 /\ q.last <= arrived
    BY <1>0 DEF Placed
  <2>2. GoesTo(r)
    BY <1>h DEF NextUpdate
  <2>. HIDE DEF q
  <2>a. q.at + 1 \in Nat /\ "handling" \in PollerStates
    BY <2>1 DEF Poller, PollerStates
  <2>3. r \in Poller /\ r.pc = "handling" /\ r.at = q.at + 1 /\ r.last = q.last
    BY <2>1, <2>a DEF Poller
  <2>. HIDE DEF r
  <2>4. Placed(r)
    BY <2>1, <2>3 DEF Placed, Poller
  <2>5. confirmed' \in Nat /\ offset' \in Nat
    BY <1>0, <1>h DEF PlacesInv
  <2>. QED BY <1>0, <1>h, <2>2, <2>3, <2>4, <2>5, MovedPlaces
<1>s. ASSUME poll[p].pc # "spinning", poll'[p].pc # "spinning",
             \A q \in Processes \ {p} : poll'[q] = poll[q]
      PROVE  \A q \in Processes : Spinning(q)' = Spinning(q)
  BY <1>s DEF Spinning, At
<1>i. \A q \in Processes : poll[q].pc \in {"stopped", "spinning"} => active[q] = 0
  BY DEF ChatInv, StickersInv
<1>1. CASE StartStops(p)
  <2>1. /\ Stop(p) /\ Goes(p, "stopped") /\ poll[p].pc = "acknowledging"
        /\ UNCHANGED <<Updates, arrived, confirmed, offset, stickersSent>>
    BY <1>1 DEF StartStops, At, server
  <2>2. poll' = [poll EXCEPT ![p].pc = "stopped", ![p].read = poll[p].read]
    BY <1>0, <2>1 DEF Goes, Poller
  <2>3. /\ PlacesInv' /\ poll'[p].pc = "stopped"
        /\ \A q \in Processes \ {p} : poll'[q] = poll[q]
    BY <1>0, <1>g, <2>1, <2>2 DEF PollerStates, Poller
  <2>4. \A q \in Processes : Spinning(q)' = Spinning(q)
    BY <1>s, <2>1, <2>3
  <2>5. /\ active' \in [Processes -> Nat] /\ active'[p] = 0
        /\ \A q \in Processes \ {p} : active'[q] = active[q]
        /\ StickersAreTracked' /\ 0 \notin stickers'
    BY <1>0, <2>1, <2>4, StopKeepsStickers
  <2>. QED BY <1>0, <1>i, <2>1, <2>3, <2>5 DEF StickersInv
<1>2. CASE StartSends(p)
  <2>1. /\ poll[p].pc = "stopped" /\ active[p] = 0
        /\ UNCHANGED <<Updates, arrived, confirmed, offset, active, swept>>
    BY <1>2, <1>i DEF StartSends, At, server
  <2>2. CASE stickersSent' = stickersSent + 1
    <3>1. /\ stickers' = stickers \cup {stickersSent'}
          /\ poll' = [poll EXCEPT ![p].pc = "spinning", ![p].read = stickersSent']
      BY <1>0, <1>2, <2>2 DEF StartSends, Handled
    <3>2. stickersSent' \in Nat
      BY <1>0, <2>2
    <3>3. /\ PlacesInv' /\ poll'[p].pc = "spinning" /\ poll'[p].read = stickersSent'
          /\ \A q \in Processes \ {p} : poll'[q] = poll[q]
      BY <1>g, <2>1, <3>1, <3>2 DEF PollerStates
    <3>4. Tracked(p)' = {stickersSent'} /\ Tracked(p) = {}
      BY <2>1, <3>3 DEF Tracked, Spinning, At
    <3>5. \A q \in Processes \ {p} : Tracked(q)' = Tracked(q)
      BY <2>1, <3>3 DEF Tracked, Spinning, At
    <3>6. StickersAreTracked'
      BY <1>0, <2>1, <3>1, <3>4, <3>5 DEF StickersInv, StickersAreTracked
    <3>7. 0 \notin stickers'
      BY <1>0, <2>2, <3>1 DEF StickersInv
    <3>. QED BY <1>0, <1>i, <2>1, <3>2, <3>3, <3>6, <3>7 DEF StickersInv
  <2>3. CASE stickersSent' # stickersSent + 1
    <3>1. Handled(p) /\ UNCHANGED <<stickers, stickersSent>>
      BY <1>2, <2>3 DEF StartSends
    <3>2. /\ PlacesInv' /\ poll'[p].pc = "handling"
          /\ \A q \in Processes \ {p} : poll'[q] = poll[q]
      BY <1>h, <2>1, <3>1 DEF Handled
    <3>3. \A q \in Processes : Tracked(q)' = Tracked(q)
      BY <1>s, <2>1, <3>2 DEF Tracked
    <3>4. StickersAreTracked'
      BY <1>0, <2>1, <3>1, <3>3 DEF StickersInv, StickersAreTracked
    <3>. QED BY <1>0, <1>i, <2>1, <3>1, <3>2, <3>4 DEF StickersInv
  <2>. QED BY <2>2, <2>3
<1>3. CASE StartEnds(p)
  <2>1. /\ poll[p].pc = "spinning" /\ active[p] = 0 /\ NextUpdate(p)
        /\ UNCHANGED <<Updates, arrived, confirmed, offset, stickers, stickersSent>>
    BY <1>3, <1>i DEF StartEnds, At, Handled, server, chat
  <2>2. /\ PlacesInv' /\ poll'[p].pc = "handling"
        /\ \A q \in Processes \ {p} : poll'[q] = poll[q]
    BY <1>h, <2>1
  <2>3. Tracked(p) = {poll[p].read} /\ poll[p].read \in Nat
    BY <1>0, <2>1 DEF Tracked, Spinning, At, Poller
  <2>4. \/ active' = [active EXCEPT ![p] = poll[p].read] /\ UNCHANGED swept
        \/ swept' = swept \cup {poll[p].read} /\ UNCHANGED active
    BY <1>3 DEF StartEnds
  <2>5. /\ active' \in [Processes -> Nat] /\ swept \subseteq swept'
        /\ \A q \in Processes \ {p} : active'[q] = active[q]
        /\ poll[p].read \in swept' \/ active'[p] = poll[p].read
    BY <1>0, <2>3, <2>4 DEF StickersInv
  <2>6. \A q \in Processes \ {p} : Tracked(q)' = Tracked(q)
    BY <2>2, <2>5 DEF Tracked, Spinning, At
  <2>7. StickersAreTracked'
    <3>1. Tracked(p) \ {0} \subseteq swept' \cup Tracked(p)'
      BY <2>3, <2>5 DEF Tracked
    <3>2. ASSUME NEW s \in stickers
          PROVE  s \in swept' \cup UNION {Tracked(q)' : q \in Processes}
      <4>1. s \in stickers /\ s # 0
        BY <1>0, <3>2 DEF StickersInv
      <4>2. CASE s \in swept
        BY <2>5, <4>2
      <4>3. CASE s \notin swept
        <5>1. PICK q \in Processes : s \in Tracked(q)
          BY <1>0, <4>1, <4>3 DEF StickersInv, StickersAreTracked
        <5>. QED BY <2>6, <3>1, <4>1, <5>1
      <4>. QED BY <4>2, <4>3
    <3>. QED BY <2>1, <3>2 DEF StickersAreTracked
  <2>. QED BY <1>0, <1>i, <2>1, <2>2, <2>5, <2>7 DEF StickersInv
<1>4. CASE AnswerStops(p) \/ (SendReport(p) /\ Stop(p))
  <2>1. Stop(p) /\ UNCHANGED <<Updates, arrived, confirmed, offset, stickersSent, poll>>
    BY <1>4 DEF AnswerStops, SendReport, server
  <2>2. \A q \in Processes : Spinning(q)' = Spinning(q)
    BY <2>1 DEF Spinning, At
  <2>3. /\ active' \in [Processes -> Nat] /\ active'[p] = 0
        /\ \A q \in Processes \ {p} : active'[q] = active[q]
        /\ StickersAreTracked' /\ 0 \notin stickers'
    BY <1>0, <2>1, <2>2, StopKeepsStickers
  <2>. QED BY <1>0, <1>i, <2>1, <2>3 DEF StickersInv, PlacesInv, Placed
<1>5. CASE SendReport(p) /\ ~Stop(p)
  <2>1. UNCHANGED <<Updates, arrived, confirmed, offset, stickersSent, poll, active,
                    stickers, swept>>
    BY <1>5 DEF SendReport, server
  <2>2. \A q \in Processes : Tracked(q)' = Tracked(q)
    BY <2>1 DEF Tracked, Spinning, At
  <2>. QED BY <1>0, <1>i, <2>1, <2>2 DEF StickersInv, StickersAreTracked, PlacesInv, Placed
<1>6. CASE Leave(p) \/ Die(p)
  <2>1. /\ Gone(p)
        /\ UNCHANGED <<Updates, arrived, confirmed, offset, stickersSent, stickers>>
    BY <1>6 DEF Leave, Die, Gone, server, chat
  <2>2. Placed(Down) /\ Down.pc = "down"
    BY <1>0 DEF Placed, Down, Poller, PollerStates, PlacesInv
  <2>3. confirmed' \in Nat /\ offset' \in Nat
    BY <1>0, <2>1 DEF PlacesInv
  <2>4. /\ PlacesInv' /\ poll'[p] = Down
        /\ \A q \in Processes \ {p} : poll'[q] = poll[q]
    BY <1>0, <2>1, <2>2, <2>3, MovedPlaces DEF Gone
  <2>5. /\ active' \in [Processes -> Nat] /\ swept' = swept \cup Tracked(p)
        /\ \A q \in Processes \ {p} : active'[q] = active[q]
    BY <1>0, <2>1 DEF Gone, StickersInv
  <2>6. \A q \in Processes \ {p} : Tracked(q)' = Tracked(q)
    BY <2>4, <2>5 DEF Tracked, Spinning, At
  <2>7. StickersAreTracked'
    BY <1>0, <2>1, <2>5, <2>6 DEF StickersInv, StickersAreTracked
  <2>. QED BY <1>0, <1>i, <2>1, <2>2, <2>4, <2>5, <2>7 DEF StickersInv
<1>. QED BY <1>1, <1>2, <1>3, <1>4, <1>5, <1>6 DEF Sticky

(* The chat's own steps, the tasks that end and the leases lost touch      *)
(* neither a poller nor a sticker.                                         *)
Apart(p) ==
    \/ \E a \in Requests : Ask(a) \/ RunOut(a)
    \/ Arrive \/ (\E u \in Ids : Webhook(u))
    \/ FindAnswer(p) \/ SayAnswer(p) \/ TellEnd(p) \/ TasksStep(p) \/ LoseLease(p)

(* They leave both where they are.                                         *)
LEMMA ApartKeepsStickers ==
    ASSUME ChatInv, NEW p, Apart(p) \/ UNCHANGED vars PROVE PlacesInv' /\ StickersInv'
<1>1. UNCHANGED <<Updates, confirmed, offset, poll, active, stickers, stickersSent, swept>>
  BY DEF Apart, Ask, RunOut, Arrive, Webhook, FindAnswer, SayAnswer, TellEnd, TasksStep,
     ReplyEnds, TaskEnds, LoseLease, server, chat, history, vars
<1>2. arrived' \in 0..Len(Updates) /\ arrived <= arrived'
  <2>1. CASE Arrive
    BY <2>1 DEF Arrive, ChatInv, PlacesInv
  <2>2. CASE ~Arrive
    <3>1. UNCHANGED arrived
      BY <2>2 DEF Apart, Ask, RunOut, Webhook, FindAnswer, SayAnswer, TellEnd, TasksStep,
         ReplyEnds, TaskEnds, LoseLease, server, vars
    <3>. QED BY <3>1 DEF ChatInv, PlacesInv
  <2>. QED BY <2>1, <2>2
<1>3. \A q \in Processes : Tracked(q)' = Tracked(q)
  BY <1>1 DEF Tracked, Spinning, At
<1>4. \A q \in Processes : Placed(poll[q])'
  <2>. SUFFICES ASSUME NEW q \in Processes PROVE Placed(poll[q])'
    OBVIOUS
  <2>1. Placed(poll[q]) /\ poll[q].last \in Nat /\ arrived \in Nat /\ arrived' \in Nat
    BY <1>2 DEF ChatInv, PlacesInv, Placed, Poller
  <2>. QED BY <1>1, <1>2, <2>1 DEF Placed
<1>5. PlacesInv'
  BY <1>1, <1>2, <1>4 DEF ChatInv, PlacesInv
<1>. QED BY <1>1, <1>3, <1>5 DEF ChatInv, StickersInv, StickersAreTracked

-----------------------------------------------------------------------------
(* An element replaced, or added, leaves a sequence one of its elements.   *)
LEMMA StillSequence ==
    ASSUME NEW S, NEW s \in Seq(S), NEW e \in S, NEW i
    PROVE  [s EXCEPT ![i] = e] \in Seq(S) /\ Append(s, e) \in Seq(S)
<1>1. CASE i \in 1..Len(s)
  BY <1>1, ExceptSeq, AppendProperties
<1>2. CASE i \notin 1..Len(s)
  <2>1. [s EXCEPT ![i] = e] = s
    BY <1>2
  <2>. QED BY <2>1, AppendProperties
<1>. QED BY <1>1, <1>2

(* The thread only grows, and so does a list of files.                     *)
LEMMA StoreStep == ChatInv /\ [Next]_vars => StoreInv'
<1>. SUFFICES ASSUME ChatInv, [Next]_vars PROVE StoreInv'
  OBVIOUS
<1>0. StoreInv /\ PlacesInv
  BY DEF ChatInv
<1>1. ASSUME UNCHANGED <<thread, replies, files, Updates>> PROVE StoreInv'
  BY <1>0, <1>1 DEF StoreInv, Ids
<1>2. ASSUME NEW p \in Processes, SendMessage(p) PROVE StoreInv'
  <2>1. UNCHANGED <<files, Updates>> /\ poll[p].at \in Nat
    BY <1>0, <1>2 DEF SendMessage, server, PlacesInv, Placed, Poller
  <2>2. [role |-> "owner", of |-> poll[p].at] \in Entry /\ "none" \in ReplyState
    BY <2>1 DEF Entry, ReplyState
  <2>3. thread' \in Seq(Entry) /\ replies' \in Seq(ReplyState)
    BY <1>0, <1>2, <2>2, StillSequence DEF SendMessage, Stored, StoreInv
  <2>. QED BY <1>0, <2>1, <2>3 DEF StoreInv, Ids
<1>3. ASSUME NEW p \in Processes, QueueReply(p) PROVE StoreInv'
  <2>1. replies' \in Seq(ReplyState)
    BY <1>0, <1>3, StillSequence DEF QueueReply, StoreInv, ReplyState
  <2>. QED BY <1>0, <1>3, <2>1 DEF QueueReply, StoreInv, Ids, server
<1>4. ASSUME NEW p \in Processes, FilePut(p) PROVE StoreInv'
  <2>1. UNCHANGED <<thread, replies, Updates>>
    BY <1>4 DEF FilePut, server
  <2>2. \A u \in Ids : Append(files[u], "quarantined") \in Seq(FileState)
    BY <1>0, StillSequence DEF StoreInv, FileState
  <2>3. files' \in [Ids -> Seq(FileState)]
    BY <1>0, <1>4, <2>2 DEF FilePut, StoreInv
  <2>. QED BY <1>0, <2>1, <2>3 DEF StoreInv, Ids
<1>5. ASSUME NEW p \in Processes, FileValidated(p) \/ FileScanned(p) PROVE StoreInv'
  <2>1. UNCHANGED <<thread, replies, Updates>>
    BY <1>5 DEF FileValidated, FileScanned, FileMoves, server
  <2>2. PICK state \in FileState :
           files' = [files EXCEPT ![poll[p].at][poll[p].read] = state]
    BY <1>5 DEF FileValidated, FileScanned, FileMoves, FileState
  <2>3. files' \in [Ids -> Seq(FileState)]
    <3>1. ASSUME poll[p].at \in Ids
          PROVE  [files[poll[p].at] EXCEPT ![poll[p].read] = state]
                    \in Seq(FileState)
      BY <1>0, <2>2, <3>1, StillSequence DEF StoreInv
    <3>. QED BY <1>0, <2>2, <3>1 DEF StoreInv
  <2>. QED BY <1>0, <2>1, <2>3 DEF StoreInv, Ids
<1>6. ASSUME NEW p \in Processes, TasksStep(p) PROVE StoreInv'
  <2>1. UNCHANGED <<files, Updates>>
    BY <1>6 DEF TasksStep, ReplyEnds, TaskEnds, server, store
  <2>2. thread' \in Seq(Entry) /\ replies' \in Seq(ReplyState)
    <3>1. CASE UNCHANGED <<thread, replies>>
      BY <1>0, <3>1 DEF StoreInv
    <3>2. CASE ~UNCHANGED <<thread, replies>>
      <4>1. PICK i \in DOMAIN replies : ReplyEnds(p, i)
        BY <1>6, <3>2 DEF TasksStep, TaskEnds, store
      <4>2. i \in Nat
        BY <1>0, <4>1 DEF StoreInv
      <4>3. [role |-> "assistant", of |-> i] \in Entry
        BY <4>2 DEF Entry
      <4>4. /\ [replies EXCEPT ![i] = "succeeded"] \in Seq(ReplyState)
            /\ [replies EXCEPT ![i] = "failed"] \in Seq(ReplyState)
        BY <1>0, StillSequence DEF StoreInv, ReplyState
      <4>5. \A r \in Seq(ReplyState) : Append(r, "none") \in Seq(ReplyState)
        BY StillSequence DEF ReplyState
      <4>6. Append(thread, [role |-> "assistant", of |-> i]) \in Seq(Entry)
        BY <1>0, <4>3, StillSequence DEF StoreInv
      <4>. QED BY <1>0, <4>1, <4>4, <4>5, <4>6 DEF ReplyEnds, StoreInv
    <3>. QED BY <3>1, <3>2
  <2>. QED BY <1>0, <2>1, <2>2 DEF StoreInv, Ids
<1>7. CASE UNCHANGED vars
  BY <1>1, <1>7 DEF vars, server, store
<1>8. CASE \/ \E a \in Requests : Ask(a) \/ RunOut(a)
           \/ Arrive \/ \E u \in Ids : Webhook(u)
  BY <1>1, <1>8 DEF Ask, RunOut, Arrive, Webhook, server, store
<1>9. ASSUME NEW p \in Processes, Start(p) \/ Leave(p) \/ NotifierStep(p) \/ FaultStep(p)
      PROVE  StoreInv'
  BY <1>1, <1>9 DEF Start, Leave, Gone, NotifierStep, FindAnswer, AnswerStops, SayAnswer,
     TellEnd, SendReport, FaultStep, FetchFails, HandlerThrows, FileFails, LoseLease, Die,
     server, store
<1>10. ASSUME NEW p \in Processes, PollerStep(p) PROVE StoreInv'
  <2>1. \/ SendMessage(p) \/ QueueReply(p) \/ FilePut(p) \/ FileValidated(p)
        \/ FileScanned(p) \/ UNCHANGED <<thread, replies, files, Updates>>
    BY <1>10 DEF PollerStep, ReadOffset, Fetch, Refuse, BatchDone, Commit, TapDecides,
       TapSettles, CommandAnswered, Locate, StartStops, StartSends, StartEnds, server, store
  <2>. QED BY <2>1, <1>1, <1>2, <1>3, <1>4, <1>5
<1>. QED BY <1>6, <1>7, <1>8, <1>9, <1>10 DEF Next

(* A tap decides under the lock of its request's row; no other step but a  *)
(* request and its expiry touches the approvals.                           *)
LEMMA ApprovalStep == ChatInv /\ [Next]_vars => ApprovalInv'
<1>. SUFFICES ASSUME ChatInv, [Next]_vars PROVE ApprovalInv'
  OBVIOUS
<1>0. ApprovalInv /\ PlacesInv
  BY DEF ChatInv
<1>1. ASSUME UNCHANGED <<status, trail>> PROVE ApprovalInv'
  BY <1>0, <1>1 DEF ApprovalInv, OneDecision
<1>u. \A u \in Ids : Updates[u].request \in Requests /\ Updates[u].decision \in Decisions
  <2>1. \A u \in Ids : Updates[u] \in Update
    BY <1>0, LenProperties, ElementOfSeq DEF PlacesInv, Ids
  <2>. QED BY <2>1 DEF Update
<1>2. ASSUME NEW a \in Requests, Ask(a) PROVE ApprovalInv'
  BY <1>0, <1>2, CreateKeeps DEF Ask
<1>3. ASSUME NEW u \in Ids, Webhook(u) PROVE ApprovalInv'
  BY <1>0, <1>3, <1>u, DecideKeeps DEF Webhook
<1>4. ASSUME NEW p \in Processes, TapDecides(p) PROVE ApprovalInv'
  <2>1. poll[p].at \in Ids
    BY <1>0, <1>4 DEF TapDecides, Handling, PlacesInv, Placed, Poller, Ids
  <2>2. Decide(Current(p).request, Current(p).decision, Current(p).from)
    BY <1>4 DEF TapDecides
  <2>3. Current(p).request \in Requests /\ Current(p).decision \in Decisions
    BY <1>u, <2>1 DEF Current
  <2>. QED BY <1>0, <2>2, <2>3, DecideKeeps
<1>5. CASE Arrive \/ (\E a \in Requests : RunOut(a)) \/ UNCHANGED vars
  BY <1>1, <1>5 DEF Arrive, RunOut, Expire, vars, approvals
<1>6. ASSUME NEW p \in Processes,
             \/ Start(p) \/ Leave(p) \/ FaultStep(p) \/ NotifierStep(p) \/ TasksStep(p)
             \/ PollerStep(p) /\ ~TapDecides(p)
      PROVE  ApprovalInv'
  BY <1>1, <1>6, PollerLeavesApprovals, TasksLeaveApprovals, ProcessesLeaveApprovals
     DEF approvals
<1>. QED BY <1>2, <1>3, <1>4, <1>5, <1>6 DEF Next

(* Every step is a plain one, one that touches a sticker, or apart of both.*)
LEMMA StickersStep == ChatInv /\ [Next]_vars => PlacesInv' /\ StickersInv'
<1>. SUFFICES ASSUME ChatInv, [Next]_vars PROVE PlacesInv' /\ StickersInv'
  OBVIOUS
<1>1. ASSUME NEW p \in Processes,
             \/ Start(p) \/ Leave(p) \/ PollerStep(p) \/ NotifierStep(p) \/ TasksStep(p)
             \/ FaultStep(p)
      PROVE  Plain(p) \/ Sticky(p) \/ Apart(p)
  BY <1>1 DEF PollerStep, NotifierStep, FaultStep, Plain, Sticky, Apart
<1>2. ASSUME NEW p \in Processes, Plain(p) \/ Sticky(p) \/ Apart(p)
      PROVE  PlacesInv' /\ StickersInv'
  BY <1>2, PlainKeepsStickers, StickyKeepsStickers, ApartKeepsStickers
<1>3. CASE \/ \E a \in Requests : Ask(a) \/ RunOut(a)
           \/ Arrive \/ (\E u \in Ids : Webhook(u)) \/ UNCHANGED vars
  BY <1>3, ApartKeepsStickers DEF Apart
<1>. QED BY <1>1, <1>2, <1>3 DEF Next

(* At the start the chat is empty and nothing runs.                        *)
LEMMA InitChatInv == Init => ChatInv
<1>. SUFFICES ASSUME Init PROVE ChatInv
  OBVIOUS
<1>1. Updates \in Seq(Update)
  BY ChatAssumption DEF Init
<1>2. PlacesInv
  BY <1>1, LenProperties DEF Init, PlacesInv, Placed, Poller, PollerStates, Down
<1>3. StoreInv
  BY EmptySeq DEF Init, StoreInv
<1>4. StickersInv
  BY DEF Init, StickersInv, StickersAreTracked, Down
<1>5. ApprovalInv
  BY EmptySeq DEF Init, ApprovalsInit, ApprovalInv, OneDecision
<1>. QED BY <1>2, <1>3, <1>4, <1>5 DEF ChatInv

(* The invariant of the chat, in every state that can be reached.          *)
LEMMA ChatInvariant == Spec => []ChatInv
<1>1. ChatInv /\ [Next]_vars => ChatInv'
  BY StoreStep, ApprovalStep, StickersStep DEF ChatInv
<1>. QED BY <1>1, InitChatInv, PTL DEF Spec

-----------------------------------------------------------------------------
(* What is acknowledged is done.                                           *)

(* What the step a poller is at rests on.                                  *)
PollerAck(p) ==
    LET at == poll[p].at
        pc == poll[p].pc
    IN /\ pc = "asking" => poll[p].read <= offset
       /\ pc \notin {"down", "idle", "asking"} => \A u \in Ids : u < at => seen[u] # {}
       /\ pc = "committing" => poll[p].last < at
       /\ pc \in {"settling", "sending", "queueing", "filing", "validated",
                  "acknowledging", "stopped", "spinning"} => at \in 1..arrived
       /\ pc = "settling" => Updates[at].kind = "tap"
       /\ pc = "settling" /\ poll[p].read = 1 => status[Updates[at].request] \in Decisions
       /\ pc \in {"sending", "queueing"} => Updates[at].kind = "text"
       /\ pc = "queueing" => /\ poll[p].read + 1 \in DOMAIN thread
                             /\ thread[poll[p].read + 1] = [role |-> "owner", of |-> at]
       /\ pc \in {"filing", "validated"} => Updates[at].kind = "file"
       /\ pc \in {"settling", "acknowledging", "stopped", "spinning"} => Done(at)

AckInv ==
    /\ confirmed <= offset
    /\ seen \in [Ids -> SUBSET {"handled", "refused", "failed"}]
    /\ \A u \in Ids : u <= offset => seen[u] # {}
    /\ \A u \in Ids : "handled" \in seen[u] => u <= arrived /\ Done(u)
    /\ buttons \subseteq Requests
    /\ \A a \in Requests : status[a] = "pending" => a \in buttons
    /\ \A a \in buttons : status[a] # "none"
    /\ \A u \in Ids : u <= arrived /\ Updates[u].kind = "tap"
                         => status[Updates[u].request] # "none"
    /\ Len(replies) = Len(thread)
    /\ \A p \in Processes : PollerAck(p)

(* A decision is for ever, and so is an expiry; a message stays where it   *)
(* is, and its reply is not taken back.                                    *)
Onward ==
    /\ \A a \in Requests : /\ status[a] # "none" => status'[a] # "none"
                           /\ status[a] \in Decisions => status'[a] = status[a]
                           /\ status'[a] = "pending" => status[a] \in {"pending", "none"}
    /\ overdue \subseteq overdue'
    /\ Len(thread) <= Len(thread') /\ Len(replies') = Len(thread')
    /\ \A i \in 1..Len(thread) : /\ thread'[i] = thread[i]
                                 /\ replies[i] # "none" => replies'[i] # "none"

(* A request, a decision and an expiry only take a request onward.         *)
LEMMA StatusOnward ==
    ASSUME ChatInv, NEW a \in Requests,
           Create(a) \/ Expire(a) \/ \E d \in Decisions : \E who : Decide(a, d, who)
    PROVE  /\ \A b \in Requests : /\ status[b] # "none" => status'[b] # "none"
                                  /\ status[b] \in Decisions => status'[b] = status[b]
                                  /\ status'[b] = "pending" => status[b] \in {"pending", "none"}
           /\ overdue \subseteq overdue'
<1>. USE DEF ChatInv, ApprovalInv, Decisions
<1>1. CASE Create(a)
  BY <1>1 DEF Create
<1>2. CASE Expire(a)
  BY <1>2 DEF Expire
<1>3. ASSUME NEW d \in Decisions, NEW who, Decide(a, d, who)
      PROVE  /\ \A b \in Requests :
                    /\ status[b] # "none" => status'[b] # "none"
                    /\ status[b] \in Decisions => status'[b] = status[b]
                    /\ status'[b] = "pending" => status[b] \in {"pending", "none"}
             /\ overdue \subseteq overdue'
  <2>1. CASE Outcome(a, who) # "decided"
    BY <1>3, <2>1 DEF Decide, approvals
  <2>2. CASE Outcome(a, who) = "decided"
    <3>1. status[a] = "pending"
      BY <2>2 DEF Outcome
    <3>. QED BY <1>3, <2>2, <3>1 DEF Decide
  <2>. QED BY <2>1, <2>2
<1>. QED BY <1>1, <1>2, <1>3

(* The steps that write to the thread, or to its replies.                  *)
LEMMA ThreadOnward ==
    ASSUME ChatInv, AckInv, NEW p \in Processes,
           SendMessage(p) \/ QueueReply(p) \/ \E i \in DOMAIN replies : ReplyEnds(p, i)
    PROVE  Onward
<1>0. /\ thread \in Seq(Entry) /\ replies \in Seq(ReplyState) /\ Len(replies) = Len(thread)
      /\ Len(thread) \in Nat /\ DOMAIN replies = 1..Len(thread)
  BY LenProperties DEF ChatInv, StoreInv, AckInv
<1>1. ASSUME UNCHANGED approvals PROVE
        /\ \A a \in Requests : /\ status[a] # "none" => status'[a] # "none"
                               /\ status[a] \in Decisions => status'[a] = status[a]
                               /\ status'[a] = "pending" => status[a] \in {"pending", "none"}
        /\ overdue \subseteq overdue'
  BY <1>1 DEF approvals
<1>2. UNCHANGED approvals
  BY DEF SendMessage, QueueReply, ReplyEnds
<1>3. ASSUME UNCHANGED thread, NEW i, NEW s \in {"queued", "failed"},
             replies' = [replies EXCEPT ![i] = s]
      PROVE  Onward
  <2>1. Len(replies') = Len(replies)
    BY <1>0, <1>3
  <2>2. \A j \in 1..Len(thread) : replies[j] # "none" => replies'[j] # "none"
    BY <1>0, <1>3
  <2>. QED BY <1>0, <1>1, <1>2, <1>3, <2>1, <2>2 DEF Onward
<1>4. ASSUME NEW e \in Entry, NEW i, NEW rs \in Seq(ReplyState),
             Len(rs) = Len(replies),
             \A j \in 1..Len(thread) : replies[j] # "none" => rs[j] # "none",
             thread' = Append(thread, e), replies' = Append(rs, "none")
      PROVE  Onward
  <2>1. "none" \in ReplyState
    BY DEF ReplyState
  <2>2. /\ Len(thread') = Len(thread) + 1 /\ Len(replies') = Len(rs) + 1
        /\ \A j \in 1..Len(thread) : thread'[j] = thread[j] /\ replies'[j] = rs[j]
    BY <1>0, <1>4, <2>1, AppendProperties
  <2>. QED BY <1>0, <1>1, <1>2, <1>4, <2>2 DEF Onward
<1>5. ASSUME UNCHANGED <<thread, replies>> PROVE Onward
  BY <1>0, <1>1, <1>2, <1>5 DEF Onward
<1>6. CASE SendMessage(p)
  <2>1. [role |-> "owner", of |-> poll[p].at] \in Entry
    BY DEF Entry, ChatInv, PlacesInv, Placed, Poller
  <2>. QED BY <1>0, <1>4, <1>5, <1>6, <2>1 DEF SendMessage, Stored
<1>7. CASE QueueReply(p)
  BY <1>3, <1>7 DEF QueueReply
<1>8. ASSUME NEW i \in DOMAIN replies, ReplyEnds(p, i) PROVE Onward
  <2>1. CASE UNCHANGED thread
    <3>2. thread # Append(thread, [role |-> "assistant", of |-> i])
      <4>1. [role |-> "assistant", of |-> i] \in Entry
        BY <1>0, <1>8 DEF Entry
      <4>2. Len(Append(thread, [role |-> "assistant", of |-> i])) = Len(thread) + 1
        BY <1>0, <4>1, AppendProperties
      <4>a. \A n \in Nat : n + 1 # n
        OBVIOUS
      <4>3. Len(thread) + 1 # Len(thread)
        BY <1>0, <4>a, Zenon
      <4>. QED BY <4>2, <4>3, Zenon
    <3>3. replies' = [replies EXCEPT ![i] = "failed"]
      BY <1>8, <2>1, <3>2 DEF ReplyEnds
    <3>. QED BY <1>3, <2>1, <3>3
  <2>2. CASE ~UNCHANGED thread
    <3>. DEFINE rs == [replies EXCEPT ![i] = "succeeded"]
    <3>1. /\ thread' = Append(thread, [role |-> "assistant", of |-> i])
          /\ replies' = Append(rs, "none")
      BY <1>8, <2>2 DEF ReplyEnds
    <3>2. rs \in Seq(ReplyState) /\ Len(rs) = Len(replies)
      BY <1>0, <1>8, ExceptSeq DEF ReplyState
    <3>3. \A j \in 1..Len(thread) : replies[j] # "none" => rs[j] # "none"
      BY <1>0
    <3>4. [role |-> "assistant", of |-> i] \in Entry
      BY <1>0, <1>8 DEF Entry
    <3>. HIDE DEF rs
    <3>. QED BY <1>4, <3>1, <3>2, <3>3, <3>4
  <2>. QED BY <2>1, <2>2
<1>. QED BY <1>6, <1>7, <1>8

(* Every step goes onward.                                                 *)
LEMMA StepOnward == ChatInv /\ AckInv /\ [Next]_vars => Onward
<1>. SUFFICES ASSUME ChatInv, AckInv, [Next]_vars PROVE Onward
  OBVIOUS
<1>0. Len(thread) \in Nat /\ Len(replies) = Len(thread) /\ PlacesInv
  BY LenProperties DEF ChatInv, StoreInv, AckInv
<1>1. ASSUME UNCHANGED <<approvals, thread, replies>> PROVE Onward
  BY <1>0, <1>1 DEF Onward, approvals
<1>2. ASSUME UNCHANGED <<thread, replies>>, NEW a \in Requests,
             Create(a) \/ Expire(a) \/ \E d \in Decisions : \E who : Decide(a, d, who)
      PROVE  Onward
  BY <1>0, <1>2, StatusOnward DEF Onward
<1>u. \A u \in Ids : Updates[u].request \in Requests /\ Updates[u].decision \in Decisions
  <2>1. \A u \in Ids : Updates[u] \in Update
    BY <1>0, LenProperties, ElementOfSeq DEF PlacesInv, Ids
  <2>. QED BY <2>1 DEF Update
<1>3. CASE \E a \in Requests : Ask(a) \/ RunOut(a)
  BY <1>2, <1>3 DEF Ask, RunOut, store
<1>4. CASE \E u \in Ids : Webhook(u)
  BY <1>2, <1>4, <1>u DEF Webhook, store
<1>5. ASSUME NEW p \in Processes, TapDecides(p) PROVE Onward
  <2>1. poll[p].at \in Ids
    BY <1>0, <1>5 DEF TapDecides, Handling, PlacesInv, Placed, Poller, Ids
  <2>2. /\ Decide(Current(p).request, Current(p).decision, Current(p).from)
        /\ UNCHANGED <<thread, replies>>
    BY <1>5 DEF TapDecides, store
  <2>3. Current(p).request \in Requests /\ Current(p).decision \in Decisions
    BY <1>u, <2>1 DEF Current
  <2>. QED BY <1>2, <2>2, <2>3
<1>6. CASE Arrive \/ UNCHANGED vars
  BY <1>1, <1>6 DEF Arrive, vars, store
<1>7. ASSUME NEW p \in Processes,
             Start(p) \/ Leave(p) \/ FaultStep(p) \/ NotifierStep(p) \/ TasksStep(p)
      PROVE  Onward
  <2>1. UNCHANGED approvals
    BY <1>7, TasksLeaveApprovals, ProcessesLeaveApprovals
  <2>2. \/ \E i \in DOMAIN replies : ReplyEnds(p, i)
        \/ UNCHANGED <<thread, replies>>
    BY <1>7 DEF Start, Leave, Gone, NotifierStep, FindAnswer, AnswerStops, SayAnswer,
       TellEnd, SendReport, FaultStep, FetchFails, HandlerThrows, FileFails, LoseLease, Die,
       TasksStep, TaskEnds, store
  <2>. QED BY <1>1, <2>1, <2>2, ThreadOnward
<1>8. ASSUME NEW p \in Processes, PollerStep(p), ~TapDecides(p) PROVE Onward
  <2>1. UNCHANGED approvals
    BY <1>8, PollerLeavesApprovals
  <2>2. SendMessage(p) \/ QueueReply(p) \/ UNCHANGED <<thread, replies>>
    BY <1>8 DEF PollerStep, ReadOffset, Fetch, Refuse, BatchDone, Commit,
       TapSettles, CommandAnswered, Locate, FilePut, FileValidated, FileScanned, FileMoves,
       StartStops, StartSends, StartEnds, store
  <2>. QED BY <1>1, <2>1, <2>2, ThreadOnward
<1>. QED BY <1>3, <1>4, <1>5, <1>6, <1>7, <1>8 DEF Next

(* The script and what has arrived stay; the offset and what was seen grow.*)
Later ==
    /\ Onward /\ UNCHANGED Updates
    /\ arrived \in Nat /\ arrived' \in Nat /\ arrived <= arrived'
    /\ offset \in Nat /\ offset' \in Nat /\ offset <= offset'
    /\ \A u \in Ids : seen[u] \subseteq seen'[u]

(* What is done stays done, unless the tap's request was never made.       *)
LEMMA DoneStays ==
    ASSUME ChatInv, AckInv, Later, NEW u \in 1..arrived, Done(u)
    PROVE  Done(u)'
<1>0. u \in Ids /\ Ids' = Ids /\ Updates' = Updates /\ Updates[u] \in Update
  BY LenProperties, ElementOfSeq DEF ChatInv, PlacesInv, Ids, Later
<1>k. Updates[u].kind \in Kinds /\ Updates[u].request \in Requests
  BY <1>0 DEF Update
<1>1. CASE Updates[u].kind = "tap"
  <2>1. status[Updates[u].request] # "none"
    BY <1>0, <1>1 DEF AckInv
  <2>2. Done(u) = (status[Updates[u].request] # "pending" \/ Updates[u].request \in overdue)
    BY <1>1 DEF Done
  <2>3. Done(u)' = (status'[Updates[u].request] # "pending" \/ Updates[u].request \in overdue')
    BY <1>0, <1>1 DEF Done
  <2>. QED BY <1>k, <2>1, <2>2, <2>3 DEF Later, Onward
<1>2. CASE Updates[u].kind = "text"
  <2>1. PICK i \in DOMAIN thread : /\ thread[i] = [role |-> "owner", of |-> u]
                                   /\ replies[i] # "none"
    BY <1>2 DEF Done
  <2>2. i \in 1..Len(thread)
    BY <2>1, LenProperties DEF ChatInv, StoreInv
  <2>3. thread'[i] = thread[i] /\ replies'[i] # "none"
    BY <2>1, <2>2 DEF Later, Onward
  <2>4. i \in DOMAIN thread'
    BY <2>2 DEF Later, Onward
  <2>. QED BY <1>0, <1>2, <2>1, <2>3, <2>4 DEF Done
<1>3. CASE Updates[u].kind \notin {"tap", "text"}
  BY <1>0, <1>3 DEF Done
<1>. QED BY <1>1, <1>2, <1>3

(* A poller that does not move keeps what its place rests on.              *)
LEMMA OthersRest ==
    ASSUME ChatInv, AckInv, Later, NEW q \in Processes, poll'[q] = poll[q]
    PROVE  PollerAck(q)'
<1>. DEFINE at == poll[q].at
            pc == poll[q].pc
<1>0. /\ PollerAck(q) /\ at \in Nat /\ poll[q].read \in Nat /\ Ids' = Ids
      /\ Updates' = Updates /\ 1..arrived \subseteq Ids
  BY LenProperties DEF AckInv, ChatInv, PlacesInv, Placed, Poller, Later, Ids
<1>1. pc = "asking" => poll[q].read <= offset'
  BY <1>0 DEF PollerAck, Later
<1>2. pc \notin {"down", "idle", "asking"} => \A u \in Ids : u < at => seen'[u] # {}
  BY <1>0 DEF PollerAck, Later
<1>3. pc \in {"settling", "sending", "queueing", "filing", "validated",
              "acknowledging", "stopped", "spinning"} => at \in 1..arrived'
  BY <1>0 DEF PollerAck, Later
<1>4. pc = "settling" /\ poll[q].read = 1 => status'[Updates[at].request] \in Decisions
  <2>1. at \in Ids => Updates[at].request \in Requests
    <3>1. \A u \in Ids : Updates[u] \in Update
      BY LenProperties, ElementOfSeq DEF ChatInv, PlacesInv, Ids
    <3>. QED BY <3>1 DEF Update
  <2>. QED BY <1>0, <2>1 DEF PollerAck, Later, Onward
<1>5. pc = "queueing" => /\ poll[q].read + 1 \in DOMAIN thread'
                         /\ thread'[poll[q].read + 1] = [role |-> "owner", of |-> at]
  <2>1. DOMAIN thread = 1..Len(thread) /\ Len(thread) \in Nat
    BY LenProperties DEF ChatInv, StoreInv
  <2>. QED BY <1>0, <2>1 DEF PollerAck, Later, Onward
<1>6. pc \in {"settling", "acknowledging", "stopped", "spinning"} => Done(at)'
  BY <1>0, DoneStays DEF PollerAck
<1>. QED BY <1>0, <1>1, <1>2, <1>3, <1>4, <1>5, <1>6 DEF PollerAck

(* What a process may do to the offset, and to what was seen.              *)
ProcessMoves(p) ==
    /\ UNCHANGED <<Updates, arrived>>
    /\ UNCHANGED offset \/ Commit(p)
    /\ UNCHANGED seen \/ \E what : Seen(p, what)

(* Only a commit moves the offset, and a handler what was seen.            *)
LEMMA EachProcessMoves ==
    ASSUME NEW p \in Processes,
           \/ Start(p) \/ Leave(p) \/ PollerStep(p) \/ NotifierStep(p) \/ TasksStep(p)
           \/ FaultStep(p)
    PROVE  ProcessMoves(p)
<1>. USE DEF ProcessMoves, server, history, Handled
<1>1. CASE Start(p) \/ Leave(p) \/ FaultStep(p)
  BY <1>1 DEF Start, Leave, Gone, FaultStep, FetchFails, HandlerThrows, FileFails, LoseLease,
     Die
<1>2. CASE NotifierStep(p) \/ TasksStep(p)
  BY <1>2 DEF NotifierStep, TasksStep, FindAnswer, AnswerStops, SayAnswer, TellEnd,
     SendReport, ReplyEnds, TaskEnds
<1>3. CASE ReadOffset(p) \/ Fetch(p) \/ Refuse(p) \/ BatchDone(p) \/ Commit(p)
  BY <1>3 DEF ReadOffset, Fetch, Refuse, BatchDone, Commit
<1>4. CASE \/ TapDecides(p) \/ TapSettles(p) \/ CommandAnswered(p) \/ Locate(p)
           \/ SendMessage(p) \/ QueueReply(p)
  BY <1>4 DEF TapDecides, TapSettles, CommandAnswered, Locate, SendMessage, QueueReply
<1>5. CASE \/ FilePut(p) \/ FileValidated(p) \/ FileScanned(p)
           \/ StartStops(p) \/ StartSends(p) \/ StartEnds(p)
  BY <1>5 DEF FilePut, FileValidated, FileScanned, FileMoves, StartStops, StartSends,
     StartEnds
<1>. QED BY <1>1, <1>2, <1>3, <1>4, <1>5 DEF PollerStep

(* What every step moves on.                                               *)
LEMMA StepLater == ChatInv /\ AckInv /\ [Next]_vars => Later
<1>. SUFFICES ASSUME ChatInv, AckInv, [Next]_vars PROVE Later
  OBVIOUS
<1>0. Onward
  BY StepOnward
<1>1. arrived \in Nat /\ offset \in Nat /\ PlacesInv
  BY DEF ChatInv, PlacesInv
<1>2. CASE \E p \in Processes : \/ Start(p) \/ Leave(p) \/ PollerStep(p) \/ NotifierStep(p)
                                 \/ TasksStep(p) \/ FaultStep(p)
  <2>1. PICK p \in Processes : ProcessMoves(p)
    BY <1>2, EachProcessMoves
  <2>2. poll[p].last \in Nat
    BY <1>1 DEF PlacesInv, Placed, Poller
  <2>3. offset' \in Nat /\ offset <= offset'
    BY <1>1, <2>1, <2>2, OfTwo DEF ProcessMoves, Commit
  <2>4. \A u \in Ids : seen[u] \subseteq seen'[u]
    BY <2>1 DEF ProcessMoves, Seen, AckInv
  <2>. QED BY <1>0, <1>1, <2>1, <2>3, <2>4 DEF Later, ProcessMoves
<1>3. CASE Arrive
  BY <1>0, <1>1, <1>3 DEF Arrive, Later, history
<1>4. CASE \/ \E a \in Requests : Ask(a) \/ RunOut(a)
           \/ \E u \in Ids : Webhook(u)
           \/ UNCHANGED vars
  BY <1>0, <1>1, <1>4 DEF Ask, RunOut, Webhook, Later, history, server, vars
<1>. QED BY <1>2, <1>3, <1>4 DEF Next

(* Where a poller is after each of the ways to move it.                    *)
LEMMA PlacePut ==
    ASSUME ChatInv, NEW p \in Processes, NEW r, poll' = [poll EXCEPT ![p] = r]
    PROVE  poll'[p] = r /\ \A q \in Processes \ {p} : poll'[q] = poll[q]
  BY DEF ChatInv, PlacesInv

Reads(p, pc, read) == poll' = [poll EXCEPT ![p].pc = pc, ![p].read = read]

(* ... with another thing read,                                            *)
LEMMA PlaceReads ==
    ASSUME ChatInv, NEW p \in Processes, NEW pc, NEW read, Reads(p, pc, read)
    PROVE  /\ poll'[p].pc = pc /\ poll'[p].at = poll[p].at
           /\ poll'[p].read = read /\ poll'[p].last = poll[p].last
           /\ \A q \in Processes \ {p} : poll'[q] = poll[q]
<1>. DEFINE r == poll[p]
            t == [r EXCEPT !.pc = pc, !.read = read]
<1>1. r \in Poller
  BY DEF ChatInv, PlacesInv, Placed
<1>2. poll' = [poll EXCEPT ![p] = t]
  BY DEF Reads
<1>. HIDE DEF r
<1>3. t.pc = pc /\ t.at = r.at /\ t.read = read /\ t.last = r.last
  BY <1>1 DEF Poller
<1>. HIDE DEF t
<1>. QED BY <1>2, <1>3, PlacePut DEF r

(* ... with the same,                                                      *)
LEMMA PlaceGoes ==
    ASSUME ChatInv, NEW p \in Processes, NEW pc, Goes(p, pc)
    PROVE  /\ poll'[p].pc = pc /\ poll'[p].at = poll[p].at
           /\ poll'[p].read = poll[p].read /\ poll'[p].last = poll[p].last
           /\ \A q \in Processes \ {p} : poll'[q] = poll[q]
<1>. DEFINE r == poll[p]
            t == [r EXCEPT !.pc = pc]
<1>1. r \in Poller
  BY DEF ChatInv, PlacesInv, Placed
<1>2. poll' = [poll EXCEPT ![p] = t]
  BY DEF Goes
<1>. HIDE DEF r
<1>3. t.pc = pc /\ t.at = r.at /\ t.read = r.read /\ t.last = r.last
  BY <1>1 DEF Poller
<1>. HIDE DEF t
<1>. QED BY <1>2, <1>3, PlacePut DEF r

(* ... and on to the next update.                                          *)
LEMMA PlaceNext ==
    ASSUME ChatInv, NEW p \in Processes, NextUpdate(p)
    PROVE  /\ poll'[p].pc = "handling" /\ poll'[p].at = poll[p].at + 1
           /\ \A q \in Processes \ {p} : poll'[q] = poll[q]
<1>. DEFINE r == poll[p]
            t == [r EXCEPT !.pc = "handling", !.at = @ + 1, !.read = 0]
<1>1. r \in Poller
  BY DEF ChatInv, PlacesInv, Placed
<1>2. poll' = [poll EXCEPT ![p] = t]
  BY DEF NextUpdate
<1>. HIDE DEF r
<1>3. t.pc = "handling" /\ t.at = r.at + 1
  BY <1>1 DEF Poller
<1>. HIDE DEF t
<1>. QED BY <1>2, <1>3, PlacePut DEF r

(* A decision makes no request pending.                                    *)
LEMMA DecidePends ==
    ASSUME ChatInv, NEW a \in Requests, NEW d \in Decisions, NEW who, Decide(a, d, who),
           NEW b \in Requests, status'[b] = "pending"
    PROVE  status[b] = "pending"
<1>1. CASE Outcome(a, who) # "decided"
  BY <1>1 DEF Decide, approvals
<1>2. CASE Outcome(a, who) = "decided"
  BY <1>2 DEF Decide, Decisions, ChatInv, ApprovalInv
<1>. QED BY <1>1, <1>2

(* What a step has to show: the poller's rest, and what it did to the      *)
(* offsets, to what was seen and to the buttons.                           *)
LEMMA AckKept ==
    ASSUME ChatInv, AckInv, Later, UNCHANGED arrived,
           \A q \in Processes : PollerAck(q)',
           confirmed' <= offset',
           \A u \in Ids : u <= offset' => seen'[u] # {},
           \/ UNCHANGED seen
           \/ \E at \in Ids, what \in {"handled", "refused", "failed"} :
                 /\ seen' = [seen EXCEPT ![at] = @ \cup {what}]
                 /\ what = "handled" => at <= arrived /\ Done(at),
           buttons' \subseteq buttons,
           \A a \in buttons \ buttons' : status[a] \in Decisions,
           \A a \in Requests : status'[a] = "pending" => status[a] = "pending"
    PROVE  AckInv'
<1>0. /\ Ids' = Ids /\ Updates' = Updates /\ arrived \in Nat /\ 1..arrived \subseteq Ids
      /\ \A u \in Ids : u \in Nat /\ u >= 1
      /\ \A u \in Ids : Updates[u].request \in Requests
  <2>1. \A u \in Ids : Updates[u] \in Update
    BY LenProperties, ElementOfSeq DEF ChatInv, PlacesInv, Ids
  <2>2. Ids = 1..Len(Updates) /\ Len(Updates) \in Nat
    BY LenProperties DEF ChatInv, PlacesInv, Ids
  <2>. QED BY <2>1, <2>2 DEF Update, Later, Ids, ChatInv, PlacesInv
<1>1. seen' \in [Ids -> SUBSET {"handled", "refused", "failed"}]
  BY DEF AckInv
<1>2. ASSUME NEW u \in Ids, "handled" \in seen'[u] PROVE u <= arrived' /\ Done(u)'
  <2>1. u <= arrived /\ Done(u)
    <3>1. CASE "handled" \in seen[u]
      BY <3>1 DEF AckInv
    <3>2. CASE "handled" \notin seen[u]
      <4>1. PICK at \in Ids, what \in {"handled", "refused", "failed"} :
               /\ seen' = [seen EXCEPT ![at] = @ \cup {what}]
               /\ what = "handled" => at <= arrived /\ Done(at)
        BY <1>2, <3>2
      <4>2. u = at /\ what = "handled"
        BY <1>2, <3>2, <4>1 DEF AckInv
      <4>. QED BY <4>1, <4>2
    <3>. QED BY <3>1, <3>2
  <2>2. u \in 1..arrived
    BY <1>0, <2>1
  <2>. QED BY <2>1, <2>2, DoneStays
<1>3. buttons' \subseteq Requests
  BY DEF AckInv
<1>4. ASSUME NEW a \in Requests, status'[a] = "pending" PROVE a \in buttons'
  BY <1>4 DEF AckInv, Decisions
<1>5. \A a \in buttons' : status'[a] # "none"
  BY DEF AckInv, Later, Onward
<1>6. ASSUME NEW u \in Ids, u <= arrived, Updates[u].kind = "tap"
      PROVE  status'[Updates[u].request] # "none"
  BY <1>0, <1>6 DEF AckInv, Later, Onward
<1>7. Len(replies') = Len(thread')
  BY DEF Later, Onward
<1>. QED BY <1>0, <1>1, <1>2, <1>3, <1>4, <1>5, <1>6, <1>7 DEF AckInv

(* A request's buttons, and a tap on them, come in this order.             *)
LEMMA ChatAck ==
    ASSUME ChatInv, AckInv, Later,
           \/ \E a \in Requests : Ask(a) \/ RunOut(a)
           \/ Arrive \/ \E u \in Ids : Webhook(u)
           \/ UNCHANGED vars
    PROVE  AckInv'
<1>0. /\ Ids' = Ids /\ Updates' = Updates /\ arrived \in Nat /\ 1..arrived \subseteq Ids
      /\ Ids = 1..Len(Updates) /\ Len(Updates) \in Nat /\ confirmed \in Nat
      /\ \A u \in Ids : Updates[u].request \in Requests /\ Updates[u].decision \in Decisions
  <2>1. \A u \in Ids : Updates[u] \in Update
    BY LenProperties, ElementOfSeq DEF ChatInv, PlacesInv, Ids
  <2>2. Ids = 1..Len(Updates) /\ Len(Updates) \in Nat
    BY LenProperties DEF ChatInv, PlacesInv, Ids
  <2>. QED BY <2>1, <2>2 DEF Update, Later, Ids, ChatInv, PlacesInv
<1>1. UNCHANGED <<poll, offset, confirmed, seen>>
  BY DEF Ask, RunOut, Arrive, Webhook, server, history, vars
<1>2. \A q \in Processes : PollerAck(q)'
  BY <1>1, OthersRest
<1>3. \A u \in Ids : u <= offset' => seen'[u] # {}
  BY <1>1 DEF AckInv
<1>4. confirmed' <= offset'
  BY <1>1 DEF AckInv
<1>5. CASE \/ \E a \in Requests : RunOut(a)
           \/ \E u \in Ids : Webhook(u)
           \/ UNCHANGED vars
  <2>1. UNCHANGED <<arrived, buttons, seen>>
    BY <1>5 DEF RunOut, Webhook, server, chat, history, vars
  <2>2. ASSUME NEW a \in Requests, status'[a] = "pending" PROVE status[a] = "pending"
    <3>1. CASE \E b \in Requests : RunOut(b)
      BY <2>2, <3>1 DEF RunOut, Expire
    <3>2. CASE \E u \in Ids : Webhook(u)
      <4>1. PICK u \in Ids : Decide(Updates[u].request, Updates[u].decision, Updates[u].from)
        BY <3>2 DEF Webhook
      <4>. QED BY <1>0, <2>2, <4>1, DecidePends
    <3>3. CASE UNCHANGED vars
      BY <2>2, <3>3 DEF vars, approvals
    <3>. QED BY <1>5, <3>1, <3>2, <3>3
  <2>. QED BY <1>2, <1>3, <1>4, <2>1, <2>2, AckKept
<1>6. CASE Arrive
  <2>1. /\ arrived' = arrived + 1 /\ arrived + 1 \in Ids
        /\ UNCHANGED <<status, overdue, buttons, thread, replies>>
        /\ Updates[arrived + 1].kind = "tap" => Updates[arrived + 1].request \in buttons
    BY <1>0, <1>6 DEF Arrive, approvals, chat, store
  <2>2. ASSUME NEW u \in Ids, "handled" \in seen[u] PROVE u <= arrived' /\ Done(u)'
    <3>1. u \in 1..arrived /\ Done(u)
      BY <1>0, <2>2 DEF AckInv
    <3>. QED BY <1>0, <2>1, <3>1, DoneStays
  <2>3. ASSUME NEW u \in Ids, u <= arrived', Updates[u].kind = "tap"
        PROVE  status[Updates[u].request] # "none"
    <3>1. u <= arrived \/ u = arrived + 1
      BY <1>0, <2>1, <2>3
    <3>. QED BY <2>1, <2>3, <3>1 DEF AckInv
  <2>. QED BY <1>0, <1>1, <1>2, <1>3, <1>4, <2>1, <2>2, <2>3 DEF AckInv
<1>7. ASSUME NEW a \in Requests, Ask(a) PROVE AckInv'
  <2>1. /\ status[a] = "none" /\ status' = [status EXCEPT ![a] = "pending"]
        /\ buttons' = buttons \cup {a} /\ UNCHANGED <<arrived, overdue, thread, replies>>
    BY <1>7 DEF Ask, Create, server, store
  <2>2. \A b \in Requests : status'[b] = IF b = a THEN "pending" ELSE status[b]
    BY <2>1 DEF ChatInv, ApprovalInv
  <2>3. ASSUME NEW u \in Ids, "handled" \in seen[u] PROVE u <= arrived' /\ Done(u)'
    <3>1. u \in 1..arrived /\ Done(u)
      BY <1>0, <2>3 DEF AckInv
    <3>. QED BY <1>0, <2>1, <3>1, DoneStays
  <2>. QED BY <1>0, <1>1, <1>2, <1>3, <1>4, <2>1, <2>2, <2>3 DEF AckInv
<1>. QED BY <1>5, <1>6, <1>7

(* The steps that neither handle an update nor move the offsets or the     *)
(* buttons have to show where their poller rests, and nothing more.        *)
LEMMA QuietAck ==
    ASSUME ChatInv, AckInv, Later, NEW p \in Processes,
           \A q \in Processes \ {p} : poll'[q] = poll[q],
           PollerAck(p)',
           UNCHANGED <<arrived, confirmed, offset, seen, buttons>>,
           \A a \in Requests : status'[a] = "pending" => status[a] = "pending"
    PROVE  AckInv'
<1>1. \A q \in Processes : PollerAck(q)'
  BY OthersRest
<1>2. confirmed' <= offset' /\ \A u \in Ids : u <= offset' => seen'[u] # {}
  BY DEF AckInv
<1>. QED BY <1>1, <1>2, AckKept

(* A handler that ends with its update done, refused or failed.            *)
LEMMA HandledAck ==
    ASSUME ChatInv, AckInv, Later, NEW p \in Processes,
           NEW what \in {"handled", "refused", "failed"},
           poll[p].pc \notin {"down", "idle", "asking"}, poll[p].at <= arrived,
           what = "handled" => Done(poll[p].at),
           Seen(p, what), NextUpdate(p),
           UNCHANGED <<arrived, confirmed, offset>>,
           buttons' \subseteq buttons,
           \A a \in buttons \ buttons' : status[a] \in Decisions,
           \A a \in Requests : status'[a] = "pending" => status[a] = "pending"
    PROVE  AckInv'
<1>0. /\ poll[p].at \in Ids /\ Ids' = Ids /\ Ids \subseteq Nat
      /\ seen' = [seen EXCEPT ![poll[p].at] = @ \cup {what}]
  <2>1. Ids = 1..Len(Updates) /\ Len(Updates) \in Nat
    BY LenProperties DEF ChatInv, PlacesInv, Ids
  <2>. QED BY <2>1 DEF ChatInv, PlacesInv, Placed, Poller, Ids, Later, Seen
<1>1. /\ poll'[p].pc = "handling" /\ poll'[p].at = poll[p].at + 1
      /\ \A q \in Processes \ {p} : poll'[q] = poll[q]
  BY PlaceNext
<1>2. \A u \in Ids : u < poll[p].at + 1 => seen'[u] # {}
  <2>1. \A u \in Ids : u < poll[p].at => seen[u] # {}
    BY DEF AckInv, PollerAck
  <2>2. seen'[poll[p].at] # {}
    BY <1>0 DEF AckInv
  <2>. QED BY <1>0, <2>1, <2>2 DEF Later
<1>3. PollerAck(p)'
  BY <1>0, <1>1, <1>2 DEF PollerAck
<1>4. \A q \in Processes : PollerAck(q)'
  BY <1>1, <1>3, OthersRest
<1>5. confirmed' <= offset' /\ \A u \in Ids : u <= offset' => seen'[u] # {}
  BY <1>0 DEF AckInv, Later
<1>. QED BY <1>0, <1>4, <1>5, AckKept

(* The steps of the poller's loop, and of the handlers.                    *)
LEMMA PlainAck ==
    ASSUME ChatInv, AckInv, Later, NEW p \in Processes, Plain(p) PROVE AckInv'
<1>. DEFINE at == poll[p].at
<1>0. /\ Ids' = Ids /\ Updates' = Updates /\ arrived \in Nat /\ offset \in Nat
      /\ Ids = 1..Len(Updates) /\ arrived <= Len(Updates) /\ Len(Updates) \in Nat
      /\ \A u \in Ids : /\ Updates[u].kind \in Kinds /\ Updates[u].request \in Requests
                        /\ Updates[u].decision \in Decisions
      /\ confirmed \in Nat /\ at \in Nat /\ at >= 1 /\ poll[p].last <= arrived
      /\ poll[p].last \in Nat /\ poll[p].read \in Nat
  <2>1. \A u \in Ids : Updates[u] \in Update
    BY LenProperties, ElementOfSeq DEF ChatInv, PlacesInv, Ids
  <2>2. Ids = 1..Len(Updates) /\ Len(Updates) \in Nat
    BY LenProperties DEF ChatInv, PlacesInv, Ids
  <2>. QED BY <2>1, <2>2 DEF Update, Later, Ids, ChatInv, PlacesInv, Placed, Poller
<1>p. PollerAck(p)
  BY DEF AckInv
<1>s. ASSUME UNCHANGED status
      PROVE  \A a \in Requests : status'[a] = "pending" => status[a] = "pending"
  BY <1>s
<1>i. Idle.pc = "idle"
  BY DEF Idle, Down
<1>. USE DEF At, server, chat, history, approvals
<1>1. CASE ReadOffset(p)
  <2>1. /\ Reads(p, "asking", offset)
        /\ UNCHANGED <<arrived, confirmed, offset, seen, buttons, status>>
    BY <1>1 DEF ReadOffset, Reads
  <2>2. /\ poll'[p].pc = "asking" /\ poll'[p].read = offset
        /\ \A q \in Processes \ {p} : poll'[q] = poll[q]
    BY <2>1, PlaceReads
  <2>3. PollerAck(p)'
    BY <1>0, <2>1, <2>2 DEF PollerAck
  <2>. QED BY <1>s, <2>1, <2>2, <2>3, QuietAck
<1>2. CASE Fetch(p)
  <2>1. /\ confirmed' = Max({confirmed, poll[p].read}) /\ poll[p].pc = "asking"
        /\ UNCHANGED <<arrived, offset, seen, buttons, status>>
    BY <1>2 DEF Fetch
  <2>2. poll[p].read <= offset /\ confirmed <= offset
    BY <1>p, <2>1 DEF PollerAck, AckInv
  <2>3. confirmed' \in Nat /\ confirmed' <= offset
    <3>1. Max({confirmed, poll[p].read}) \in {confirmed, poll[p].read}
      <4>1. \E x \in {confirmed, poll[p].read} : \A y \in {confirmed, poll[p].read} : x >= y
        BY <1>0
      <4>. QED BY <4>1 DEF Max
    <3>. QED BY <1>0, <2>1, <2>2, <3>1
  <2>4. PICK r : /\ poll' = [poll EXCEPT ![p] = r]
                 /\ r.pc = "idle" \/ (r.pc = "handling" /\ r.at = confirmed' + 1)
    <3>1. Idle.pc = "idle"
      BY <1>i
    <3>. DEFINE last == Min({arrived, confirmed' + BatchLimit})
                t == [Idle EXCEPT !.pc = "handling", !.at = confirmed' + 1, !.last = last]
    <3>2. t.pc = "handling" /\ t.at = confirmed' + 1
      BY DEF Idle, Down
    <3>3. poll' = [poll EXCEPT ![p] = Idle] \/ poll' = [poll EXCEPT ![p] = t]
      BY <1>2 DEF Fetch
    <3>. HIDE DEF t
    <3>4. CASE poll' = [poll EXCEPT ![p] = Idle]
      <4>. WITNESS Idle
      <4>. QED BY <3>1, <3>4
    <3>5. CASE poll' = [poll EXCEPT ![p] = t]
      <4>. WITNESS t
      <4>. QED BY <3>2, <3>5
    <3>. QED BY <3>3, <3>4, <3>5
  <2>5. poll'[p] = r /\ \A q \in Processes \ {p} : poll'[q] = poll[q]
    BY <2>4, PlacePut
  <2>a. \A u \in Ids : u <= offset => seen[u] # {}
    BY DEF AckInv
  <2>6. \A u \in Ids : u < confirmed' + 1 => seen[u] # {}
    <3>1. Ids \subseteq Nat /\ offset \in Nat
      BY <1>0
    <3>. SUFFICES ASSUME NEW u \in Ids, u < confirmed' + 1 PROVE seen[u] # {}
      OBVIOUS
    <3>a. \A v, k, j \in Nat : v < k + 1 /\ k <= j => v <= j
      OBVIOUS
    <3>2. u <= offset
      BY <2>3, <3>1, <3>a, Zenon
    <3>. QED BY <2>a, <3>2
  <2>7. PollerAck(p)'
    BY <1>0, <2>1, <2>4, <2>5, <2>6 DEF PollerAck
  <2>8. \A q \in Processes : PollerAck(q)'
    BY <2>5, <2>7, OthersRest
  <2>9. \A u \in Ids : u <= offset' => seen'[u] # {}
    BY <2>1 DEF AckInv
  <2>. QED BY <1>s, <2>1, <2>3, <2>8, <2>9, AckKept
<1>3. CASE FetchFails(p) \/ Start(p)
  <2>1. /\ poll' = [poll EXCEPT ![p] = Idle]
        /\ UNCHANGED <<arrived, confirmed, offset, seen, buttons, status>>
    BY <1>3 DEF FetchFails, Start
  <2>2. /\ poll'[p].pc = "idle" /\ \A q \in Processes \ {p} : poll'[q] = poll[q]
    BY <2>1, <1>i, PlacePut
  <2>3. PollerAck(p)'
    BY <2>2 DEF PollerAck
  <2>. QED BY <1>s, <2>1, <2>2, <2>3, QuietAck
<1>4. CASE Refuse(p) \/ HandlerThrows(p)
  <2>1. PICK what \in {"refused", "failed"} : Seen(p, what)
    BY <1>4 DEF Refuse, HandlerThrows
  <2>2. /\ NextUpdate(p) /\ poll[p].pc \in {"handling", "sending", "queueing"}
        /\ UNCHANGED <<arrived, confirmed, offset, buttons, status>>
    BY <1>4 DEF Refuse, HandlerThrows
  <2>3. at <= arrived
    BY <1>0, <1>p, <1>4 DEF Refuse, HandlerThrows, PollerAck
  <2>. QED BY <1>s, <2>1, <2>2, <2>3, HandledAck
<1>5. CASE BatchDone(p)
  <2>1. /\ Goes(p, "committing") /\ poll[p].pc = "handling" /\ at > poll[p].last
        /\ UNCHANGED <<arrived, confirmed, offset, seen, buttons, status>>
    BY <1>5 DEF BatchDone
  <2>2. /\ poll'[p].pc = "committing" /\ poll'[p].at = at /\ poll'[p].last = poll[p].last
        /\ \A q \in Processes \ {p} : poll'[q] = poll[q]
    BY <2>1, PlaceGoes
  <2>3. PollerAck(p)'
    BY <1>0, <1>p, <2>1, <2>2 DEF PollerAck
  <2>. QED BY <1>s, <2>1, <2>2, <2>3, QuietAck
<1>6. CASE Commit(p)
  <2>1. /\ poll' = [poll EXCEPT ![p] = Idle] /\ offset' = Max({offset, poll[p].last})
        /\ poll[p].pc = "committing"
        /\ UNCHANGED <<arrived, confirmed, seen, buttons, status>>
    BY <1>6 DEF Commit
  <2>2. /\ poll'[p].pc = "idle" /\ \A q \in Processes \ {p} : poll'[q] = poll[q]
    BY <2>1, <1>i, PlacePut
  <2>3. PollerAck(p)'
    BY <2>2 DEF PollerAck
  <2>4. \A q \in Processes : PollerAck(q)'
    BY <2>2, <2>3, OthersRest
  <2>5. offset' \in {offset, poll[p].last}
    <3>1. \E x \in {offset, poll[p].last} : \A y \in {offset, poll[p].last} : x >= y
      BY <1>0
    <3>. QED BY <2>1, <3>1 DEF Max
  <2>6. \A u \in Ids : u <= offset' => seen'[u] # {}
    <3>1. \A u \in Ids : u <= offset => seen[u] # {}
      BY DEF AckInv
    <3>2. poll[p].last < at /\ \A u \in Ids : u < at => seen[u] # {}
      BY <1>p, <2>1 DEF PollerAck
    <3>. QED BY <1>0, <2>1, <2>5, <3>1, <3>2
  <2>7. confirmed' <= offset'
    BY <1>0, <2>1 DEF AckInv, Later
  <2>. QED BY <1>s, <2>1, <2>4, <2>6, <2>7, AckKept
<1>7. CASE CommandAnswered(p)
  <2>1. /\ Seen(p, "handled") /\ NextUpdate(p) /\ poll[p].pc = "handling"
        /\ at <= poll[p].last /\ Updates[at].kind = "command"
        /\ UNCHANGED <<arrived, confirmed, offset, buttons, status>>
    BY <1>7 DEF CommandAnswered, Handled, Handling, Current
  <2>2. Done(at) /\ at <= arrived
    BY <1>0, <2>1 DEF Done
  <2>. QED BY <1>s, <2>1, <2>2, HandledAck
<1>8. CASE TapSettles(p)
  <2>1. /\ Seen(p, "handled") /\ NextUpdate(p) /\ poll[p].pc = "settling"
        /\ \/ buttons' = IF poll[p].read = 1 THEN buttons \ {Updates[at].request}
                         ELSE buttons
           \/ UNCHANGED buttons
        /\ UNCHANGED <<arrived, confirmed, offset, status>>
    BY <1>8 DEF TapSettles, Handled, Current
  <2>2. at <= arrived /\ Done(at)
    BY <1>0, <1>p, <2>1 DEF PollerAck
  <2>3. buttons' \subseteq buttons /\ \A a \in buttons \ buttons' : status[a] \in Decisions
    BY <1>p, <2>1 DEF PollerAck
  <2>. QED BY <1>s, <2>1, <2>2, <2>3, HandledAck
<1>9. CASE TapDecides(p)
  <2>1. /\ poll[p].pc = "handling" /\ at <= poll[p].last
        /\ authorized(Updates[at]) /\ Updates[at].kind = "tap"
        /\ Decide(Updates[at].request, Updates[at].decision, Updates[at].from)
        /\ Reads(p, "settling",
                 IF Outcome(Updates[at].request, Updates[at].from) = "decided" THEN 1 ELSE 0)
        /\ UNCHANGED <<arrived, confirmed, offset, seen, buttons>>
    BY <1>9 DEF TapDecides, Handling, Current, Reads
  <2>2. PICK u \in Ids : u = at
    BY <1>0, <2>1
  <2>. DEFINE a == Updates[u].request
  <2>3. a \in Requests /\ Updates[u].decision \in Decisions /\ status[a] # "none"
    BY <1>0, <2>1, <2>2 DEF AckInv
  <2>4. /\ poll'[p].pc = "settling" /\ poll'[p].at = u
        /\ poll'[p].read = IF Outcome(a, Updates[u].from) = "decided" THEN 1 ELSE 0
        /\ \A q \in Processes \ {p} : poll'[q] = poll[q]
    BY <2>1, <2>2, PlaceReads
  <2>5. Outcome(a, Updates[u].from) = "decided" => status'[a] \in Decisions
    BY <2>1, <2>2, <2>3 DEF Decide, ChatInv, ApprovalInv
  <2>6. status'[a] # "pending" \/ a \in overdue'
    <3>1. CASE Outcome(a, Updates[u].from) = "decided"
      BY <2>5, <3>1 DEF Decisions
    <3>2. CASE Outcome(a, Updates[u].from) # "decided"
      <4>1. Updates[u].from = Owner
        BY <2>1, <2>2 DEF authorized
      <4>2. UNCHANGED <<status, overdue>>
        BY <2>1, <2>2, <3>2 DEF Decide
      <4>. QED BY <2>3, <3>2, <4>1, <4>2 DEF Outcome
    <3>. QED BY <3>1, <3>2
  <2>7. Done(u)'
    BY <1>0, <2>1, <2>2, <2>6 DEF Done
  <2>8. PollerAck(p)'
    <3>1. \A v \in Ids : v < u => seen'[v] # {}
      BY <1>p, <2>1, <2>2 DEF PollerAck
    <3>2. u \in 1..arrived'
      BY <1>0, <2>1, <2>2
    <3>3. poll'[p].read = 1 => status'[a] \in Decisions
      BY <2>4, <2>5
    <3>. QED BY <1>0, <2>1, <2>2, <2>4, <2>7, <3>1, <3>2, <3>3 DEF PollerAck
  <2>9. \A b \in Requests : status'[b] = "pending" => status[b] = "pending"
    BY <2>1, <2>2, <2>3, DecidePends
  <2>. QED BY <2>1, <2>4, <2>8, <2>9, QuietAck
<1>10. CASE Locate(p)
  <2>1. /\ poll[p].pc = "handling" /\ at <= poll[p].last /\ Updates[at].kind = "text"
        /\ Reads(p, "sending", Len(thread))
        /\ UNCHANGED <<arrived, confirmed, offset, seen, buttons, status>>
    BY <1>10 DEF Locate, Handling, Current, Reads
  <2>2. /\ poll'[p].pc = "sending" /\ poll'[p].at = at
        /\ \A q \in Processes \ {p} : poll'[q] = poll[q]
    BY <2>1, PlaceReads
  <2>3. at \in 1..arrived
    BY <1>0, <2>1
  <2>4. PollerAck(p)'
    BY <1>0, <1>p, <2>1, <2>2, <2>3 DEF PollerAck
  <2>. QED BY <1>s, <2>1, <2>2, <2>4, QuietAck
<1>11. CASE SendMessage(p)
  <2>1. /\ poll[p].pc = "sending"
        /\ UNCHANGED <<arrived, confirmed, offset, buttons, status>>
    BY <1>11 DEF SendMessage
  <2>2. at \in 1..arrived /\ Updates[at].kind = "text"
    BY <1>p, <2>1 DEF PollerAck
  <2>3. CASE poll[p].read # Len(thread)
    <3>1. Seen(p, "failed") /\ NextUpdate(p)
      BY <1>11, <2>3 DEF SendMessage
    <3>. QED BY <1>0, <1>s, <2>1, <2>2, <3>1, HandledAck
  <2>4. CASE poll[p].read = Len(thread)
    <3>1. /\ thread' = Append(thread, [role |-> "owner", of |-> at])
          /\ Goes(p, "queueing") /\ UNCHANGED seen
      BY <1>11, <2>4 DEF SendMessage, Stored
    <3>2. /\ poll'[p].pc = "queueing" /\ poll'[p].at = at /\ poll'[p].read = Len(thread)
          /\ \A q \in Processes \ {p} : poll'[q] = poll[q]
      BY <2>4, <3>1, PlaceGoes
    <3>3. [role |-> "owner", of |-> at] \in Entry
      BY <1>0 DEF Entry
    <3>4. /\ Len(thread) + 1 \in DOMAIN thread'
          /\ thread'[Len(thread) + 1] = [role |-> "owner", of |-> at]
      <4>1. thread' \in Seq(Entry) /\ Len(thread') = Len(thread) + 1 /\ Len(thread) \in Nat
        BY <3>1, <3>3, AppendProperties, LenProperties DEF ChatInv, StoreInv
      <4>2. Len(thread) + 1 \in 1..Len(thread') /\ DOMAIN thread' = 1..Len(thread')
        BY <4>1, LenProperties
      <4>3. thread'[Len(thread) + 1] = [role |-> "owner", of |-> at]
        BY <3>1, <3>3, AppendProperties DEF ChatInv, StoreInv
      <4>. QED BY <4>2, <4>3
    <3>5. PollerAck(p)'
      <4>1. \A v \in Ids : v < at => seen'[v] # {}
        BY <1>p, <2>1, <3>1 DEF PollerAck
      <4>. QED BY <1>0, <2>1, <2>2, <3>2, <3>4, <4>1 DEF PollerAck
    <3>. QED BY <1>s, <2>1, <3>1, <3>2, <3>5, QuietAck
  <2>. QED BY <2>3, <2>4
<1>12. CASE QueueReply(p)
  <2>1. /\ poll[p].pc = "queueing" /\ Goes(p, "acknowledging")
        /\ replies' = [replies EXCEPT ![poll[p].read + 1] = "queued"] /\ UNCHANGED thread
        /\ UNCHANGED <<arrived, confirmed, offset, seen, buttons, status>>
    BY <1>12 DEF QueueReply
  <2>2. /\ at \in 1..arrived /\ Updates[at].kind = "text"
        /\ poll[p].read + 1 \in DOMAIN thread
        /\ thread[poll[p].read + 1] = [role |-> "owner", of |-> at]
        /\ \A v \in Ids : v < at => seen[v] # {}
    BY <1>p, <2>1 DEF PollerAck
  <2>3. DOMAIN replies = DOMAIN thread
    BY LenProperties DEF AckInv, ChatInv, StoreInv
  <2>4. replies'[poll[p].read + 1] # "none"
    BY <2>1, <2>2, <2>3
  <2>5. PICK u \in Ids : u = at
    BY <1>0, <2>2
  <2>6. PICK i \in DOMAIN thread : i = poll[p].read + 1
    BY <2>2
  <2>7. thread'[i] = [role |-> "owner", of |-> u] /\ replies'[i] # "none" /\ i \in DOMAIN thread'
    BY <2>1, <2>2, <2>4, <2>5, <2>6
  <2>8. Done(u)'
    BY <1>0, <2>2, <2>5, <2>7 DEF Done
  <2>9. /\ poll'[p].pc = "acknowledging" /\ poll'[p].at = u
        /\ \A q \in Processes \ {p} : poll'[q] = poll[q]
    BY <2>1, <2>5, PlaceGoes
  <2>10. PollerAck(p)'
    BY <1>0, <2>1, <2>2, <2>5, <2>8, <2>9 DEF PollerAck
  <2>. QED BY <1>s, <2>1, <2>9, <2>10, QuietAck
<1>13. CASE FilePut(p) \/ FileValidated(p) \/ FileScanned(p) \/ FileFails(p)
  <2>1. /\ \/ poll[p].pc = "handling" /\ at <= poll[p].last /\ Updates[at].kind = "file"
           \/ poll[p].pc \in {"filing", "validated"}
        /\ UNCHANGED <<arrived, confirmed, offset, seen, buttons, status>>
    BY <1>13 DEF FilePut, FileValidated, FileScanned, FileMoves, FileFails, Handling, Current
  <2>2. /\ at \in 1..arrived /\ Updates[at].kind = "file"
        /\ \A v \in Ids : v < at => seen[v] # {}
    BY <1>0, <1>p, <2>1 DEF PollerAck
  <2>3. \/ Reads(p, "filing", Len(files[at]) + 1)
        \/ Goes(p, "validated") \/ Goes(p, "acknowledging")
    BY <1>13 DEF FilePut, FileValidated, FileScanned, FileMoves, FileFails, Reads
  <2>4. /\ poll'[p].pc \in {"filing", "validated", "acknowledging"} /\ poll'[p].at = at
        /\ \A q \in Processes \ {p} : poll'[q] = poll[q]
    BY <2>3, PlaceReads, PlaceGoes
  <2>5. PICK u \in Ids : u = at
    BY <1>0, <2>2
  <2>6. Done(u)'
    BY <1>0, <2>2, <2>5 DEF Done
  <2>7. PollerAck(p)'
    BY <1>0, <2>1, <2>2, <2>4, <2>5, <2>6 DEF PollerAck
  <2>. QED BY <1>s, <2>1, <2>4, <2>7, QuietAck
<1>. QED
  BY <1>1, <1>2, <1>3, <1>4, <1>5, <1>6, <1>7, <1>8, <1>9, <1>10, <1>11, <1>12, <1>13
     DEF Plain

(* Whatever is tapped twice, redelivered after a crash, or posted to the   *)
(* webhook beside two pollers, a request is decided at most once, by the   *)
(* owner, and its row says what its trail says.                            *)
THEOREM DecidedByOwnerOnce == Spec => []OneDecision
<1>1. ChatInv => OneDecision
  BY DEF ChatInv, ApprovalInv
<1>. QED BY <1>1, ChatInvariant, PTL

(* Although the notifier stops the sticker while a handler is starting the *)
(* next one, a sticker in the chat is one its process remembers or is just *)
(* sending, or one that a crash or a failed call left behind.              *)
THEOREM NoStickerForgotten == Spec => []StickersAreTracked
<1>1. ChatInv => StickersAreTracked
  BY DEF ChatInv, StickersInv
<1>. QED BY <1>1, ChatInvariant, PTL

(* The sticker, the reports and the ends of tasks and processes.           *)
LEMMA OtherAck ==
    ASSUME ChatInv, AckInv, Later, NEW p \in Processes,
           Sticky(p) \/ NotifierStep(p) \/ TasksStep(p) \/ LoseLease(p)
    PROVE  AckInv'
<1>. DEFINE at == poll[p].at
<1>0. /\ Ids' = Ids /\ Updates' = Updates /\ at \in Nat /\ at >= 1 /\ arrived \in Nat
      /\ Ids = 1..Len(Updates) /\ arrived <= Len(Updates) /\ Len(Updates) \in Nat
  <2>1. Ids = 1..Len(Updates) /\ Len(Updates) \in Nat
    BY LenProperties DEF ChatInv, PlacesInv, Ids
  <2>. QED BY <2>1 DEF Later, Ids, ChatInv, PlacesInv, Placed, Poller
<1>p. PollerAck(p)
  BY DEF AckInv
<1>s. ASSUME UNCHANGED status
      PROVE  \A a \in Requests : status'[a] = "pending" => status[a] = "pending"
  BY <1>s
<1>. USE DEF At, server, chat, history, approvals
<1>1. CASE StartStops(p) \/ (StartSends(p) /\ ~Handled(p))
  <2>1. /\ poll[p].pc \in {"acknowledging", "stopped"}
        /\ Goes(p, "stopped") \/ Reads(p, "spinning", stickersSent')
        /\ UNCHANGED <<arrived, confirmed, offset, seen, buttons, status>>
    BY <1>1 DEF StartStops, StartSends, Reads
  <2>2. /\ poll'[p].pc \in {"stopped", "spinning"} /\ poll'[p].at = at
        /\ \A q \in Processes \ {p} : poll'[q] = poll[q]
    BY <2>1, PlaceGoes, PlaceReads
  <2>3. at \in 1..arrived /\ Done(at) /\ \A v \in Ids : v < at => seen[v] # {}
    BY <1>p, <2>1 DEF PollerAck
  <2>4. PICK u \in 1..arrived : u = at
    BY <2>3
  <2>5. Done(u)'
    BY <2>3, <2>4, DoneStays
  <2>6. PollerAck(p)'
    BY <1>0, <2>1, <2>2, <2>3, <2>4, <2>5 DEF PollerAck
  <2>. QED BY <1>s, <2>1, <2>2, <2>6, QuietAck
<1>2. CASE StartEnds(p) \/ (StartSends(p) /\ Handled(p))
  <2>1. /\ poll[p].pc \in {"stopped", "spinning"} /\ Seen(p, "handled") /\ NextUpdate(p)
        /\ UNCHANGED <<arrived, confirmed, offset, buttons, status>>
    BY <1>2 DEF StartEnds, StartSends, Handled
  <2>2. at <= arrived /\ Done(at)
    BY <1>0, <1>p, <2>1 DEF PollerAck
  <2>. QED BY <1>s, <2>1, <2>2, HandledAck
<1>3. CASE Leave(p) \/ Die(p)
  <2>1. /\ poll' = [poll EXCEPT ![p] = Down]
        /\ UNCHANGED <<arrived, confirmed, offset, seen, buttons, status>>
    BY <1>3 DEF Leave, Die, Gone
  <2>2. Down.pc = "down"
    BY DEF Down
  <2>3. poll'[p].pc = "down" /\ \A q \in Processes \ {p} : poll'[q] = poll[q]
    BY <2>1, <2>2, PlacePut
  <2>4. PollerAck(p)'
    BY <2>3 DEF PollerAck
  <2>. QED BY <1>s, <2>1, <2>3, <2>4, QuietAck
<1>4. CASE NotifierStep(p) \/ TasksStep(p) \/ LoseLease(p)
  <2>1. UNCHANGED <<poll, arrived, confirmed, offset, seen, buttons, status>>
    BY <1>4 DEF NotifierStep, TasksStep, LoseLease, FindAnswer, AnswerStops, SayAnswer,
       TellEnd, SendReport, ReplyEnds, TaskEnds
  <2>2. PollerAck(p)'
    BY <2>1, OthersRest
  <2>. QED BY <1>s, <2>1, <2>2, QuietAck
<1>. QED BY <1>1, <1>2, <1>3, <1>4 DEF Sticky, NotifierStep

(* Every step of the chat and of its processes keeps the invariant.        *)
LEMMA AckStep == ChatInv /\ AckInv /\ [Next]_vars => AckInv'
<1>. SUFFICES ASSUME ChatInv, AckInv, [Next]_vars PROVE AckInv'
  OBVIOUS
<1>0. Later
  BY StepLater
<1>1. ASSUME NEW p \in Processes,
             \/ Start(p) \/ Leave(p) \/ PollerStep(p) \/ NotifierStep(p) \/ TasksStep(p)
             \/ FaultStep(p)
      PROVE  AckInv'
  <2>1. Plain(p) \/ Sticky(p) \/ NotifierStep(p) \/ TasksStep(p) \/ LoseLease(p)
    BY <1>1 DEF PollerStep, FaultStep, Plain, Sticky
  <2>. QED BY <1>0, <2>1, PlainAck, OtherAck
<1>. QED BY <1>0, <1>1, ChatAck DEF Next

(* At the start nothing has arrived.                                       *)
LEMMA InitAckInv == Init => AckInv
<1>. SUFFICES ASSUME Init PROVE AckInv
  OBVIOUS
<1>1. Updates \in Seq(Update) /\ Ids = 1..Len(Updates) /\ Len(Updates) \in Nat
  BY ChatAssumption, LenProperties DEF Init, Ids
<1>2. \A p \in Processes : PollerAck(p)
  BY DEF Init, Down, PollerAck
<1>. QED BY <1>1, <1>2 DEF Init, ApprovalsInit, AckInv

(* No update is lost to the offset, whatever fails, dies or overlaps: one  *)
(* at or below it went through the handlers, Telegram discards no other,   *)
(* and one that was handled is done.                                       *)
THEOREM AcknowledgedAreDone == Spec => []AcknowledgedIsDone
<1>1. AckInv /\ ChatInv => AcknowledgedIsDone
  BY DEF AckInv, ChatInv, ApprovalInv, AcknowledgedIsDone
<1>2. Spec => []AckInv
  <2>1. Init => AckInv
    BY InitAckInv
  <2>2. ChatInv /\ AckInv /\ [Next]_vars => AckInv'
    BY AckStep
  <2>. QED BY <2>1, <2>2, ChatInvariant, PTL DEF Spec
<1>. QED BY <1>1, <1>2, ChatInvariant, PTL

-----------------------------------------------------------------------------
(* What the notifier tells.                                                *)

(* The last of some places in a sequence is one of them.                   *)
LEMMA LastIsThere ==
    ASSUME NEW n \in Nat, NEW S \in SUBSET (1..n), S # {}
    PROVE  Max(S) \in S /\ \A y \in S : y <= Max(S)
<1>. DEFINE U == {m \in Nat : \A y \in S : y <= m}
<1>1. U \in SUBSET Nat /\ n \in U
  OBVIOUS
<1>2. PICK m \in U : \A k \in U : ~(k < m)
  <2>. HIDE DEF U
  <2>1. PICK m \in U : \A k \in U : <<k, m>> \notin OpToRel(<, Nat)
    BY <1>1, NatLessThanWellFounded, WFMin, Zenon
  <2>2. \A k \in U : k < m => <<k, m>> \in OpToRel(<, Nat)
    BY <1>1 DEF OpToRel
  <2>. QED BY <2>1, <2>2
<1>3. m \in S
  <2>1. SUFFICES ASSUME m \notin S PROVE FALSE
    OBVIOUS
  <2>2. \A y \in S : y <= m - 1 /\ y >= 1
    BY <1>2, <2>1
  <2>3. m - 1 \in Nat
    <3>1. PICK y \in S : TRUE
      OBVIOUS
    <3>. QED BY <2>2, <3>1
  <2>4. m - 1 \in U
    BY <2>2, <2>3
  <2>. QED BY <1>2, <2>3, <2>4
<1>4. \A y \in S : m >= y /\ y \in Nat
  BY <1>2
<1>5. Max(S) \in S /\ \A y \in S : Max(S) >= y
  <2>1. \E x \in S : \A y \in S : x >= y
    BY <1>3, <1>4
  <2>. QED BY <2>1 DEF Max
<1>. QED BY <1>4, <1>5

Replying == {"reply", "stopping", "answer"}

Names(n) ==
    \/ "usage" \in n.unread /\ n.provider = "none"
    \/ /\ Accepted(n.rows) # {} => n.provider \in Accepted(n.rows)
       /\ n.free => n.rows = {}

(* The answer of a reply that succeeded is in the thread, no later than    *)
(* the one that was found.                                                 *)
Answered(n) ==
    \E i \in 1..Len(thread) : /\ thread[i] = [role |-> "assistant", of |-> n.task]
                              /\ n.pc # "reply" => i <= n.found

NoteKept(n) ==
    /\ n \in {Quiet} \cup ReplyEvent \cup EndEvent \cup ReportEvent
    /\ n.pc \in Replying /\ n.ok => Answered(n)
    /\ n.pc = "report" => Names(n)

NotesInv == /\ note = [p \in Processes |-> note[p]]
            /\ \A p \in Processes : NoteKept(note[p])

(* The thread only grows, so that what was noted stays true of it.         *)
LEMMA NoteStays ==
    ASSUME Onward, Len(thread) \in Nat, Len(thread') \in Nat, NEW n, NoteKept(n)
    PROVE  NoteKept(n)'
<1>1. ASSUME Answered(n) PROVE Answered(n)'
  <2>1. PICK i \in 1..Len(thread) : /\ thread[i] = [role |-> "assistant", of |-> n.task]
                                    /\ n.pc # "reply" => i <= n.found
    BY <1>1 DEF Answered
  <2>2. i \in 1..Len(thread') /\ thread'[i] = thread[i]
    BY DEF Onward
  <2>. QED BY <2>1, <2>2 DEF Answered
<1>. QED BY <1>1 DEF NoteKept

(* A step that says nothing, or one thing.                                 *)
LEMMA ToldKeeps ==
    ASSUME NotesInv, Onward, Len(thread) \in Nat, Len(thread') \in Nat,
           \/ UNCHANGED note
           \/ \E p \in Processes : \E e : Told(p, e) /\ NoteKept(e)'
    PROVE  NotesInv'
<1>1. CASE UNCHANGED note
  BY <1>1, NoteStays DEF NotesInv
<1>2. ASSUME NEW p \in Processes, NEW e, Told(p, e), NoteKept(e)'
      PROVE  NotesInv'
  <2>1. /\ note' = [q \in Processes |-> note'[q]] /\ note'[p] = e
        /\ \A q \in Processes \ {p} : note'[q] = note[q]
    BY <1>2 DEF NotesInv, Told
  <2>2. ASSUME NEW q \in Processes PROVE NoteKept(note[q])'
    <3>1. PICK c : c = note'[q]
      OBVIOUS
    <3>2. CASE q = p
      BY <1>2, <2>1, <3>2 DEF NoteKept, Answered
    <3>3. CASE q # p
      <4>1. NoteKept(c)'
        BY <2>1, <3>1, <3>3, NoteStays DEF NotesInv
      <4>. QED BY <3>1, <4>1 DEF NoteKept, Answered
    <3>. QED BY <3>2, <3>3
  <2>. QED BY <2>1, <2>2 DEF NotesInv
<1>. QED BY <1>1, <1>2

(* Only these say anything; the others leave the notes as they are.        *)
Noting(p) ==
    \/ NotifierStep(p) \/ TasksStep(p) \/ Gone(p)

LEMMA OthersNoteNothing ==
    ASSUME [Next]_vars, ~ \E p \in Processes : Noting(p)
    PROVE  UNCHANGED note
<1>1. ASSUME NEW p \in Processes, PollerStep(p) PROVE UNCHANGED note
  BY <1>1 DEF PollerStep, ReadOffset, Fetch, Refuse, BatchDone, Commit, TapDecides,
     TapSettles, CommandAnswered, Locate, SendMessage, QueueReply, FilePut, FileValidated,
     FileScanned, FileMoves, StartStops, StartSends, StartEnds
<1>2. ASSUME NEW p \in Processes, Start(p) \/ Leave(p) \/ FaultStep(p) PROVE UNCHANGED note
  BY <1>2 DEF Start, Leave, FaultStep, FetchFails, HandlerThrows, FileFails, LoseLease, Die,
     Noting
<1>. QED
  BY <1>1, <1>2 DEF Next, vars, Ask, RunOut, Arrive, Webhook, Noting

LEMMA QuietKept == NoteKept(Quiet)'
  BY DEF NoteKept, Quiet, Replying

(* A reply that ends is told with its answer in the thread.                *)
LEMMA ReplyEndsNotes ==
    ASSUME ChatInv, AckInv, Onward, NEW p \in Processes, NEW i \in DOMAIN replies,
           ReplyEnds(p, i)
    PROVE  \E e : Told(p, e) /\ NoteKept(e)'
<1>. DEFINE entry == [role |-> "assistant", of |-> i]
            N(ok) == [pc |-> "reply", task |-> i, ok |-> ok, found |-> 0]
<1>1. i \in Nat \ {0} /\ thread \in Seq(Entry) /\ Len(thread) \in Nat /\ entry \in Entry
  BY LenProperties DEF ChatInv, StoreInv, Entry
<1>2. \A ok \in BOOLEAN : N(ok) \in ReplyEvent
  BY <1>1 DEF ReplyEvent
<1>3. CASE thread' = Append(thread, entry) /\ Told(p, N(TRUE))
  <2>1. Len(thread') = Len(thread) + 1 /\ thread'[Len(thread) + 1] = entry
    BY <1>1, <1>3, AppendProperties
  <2>2. Answered(N(TRUE))'
    BY <1>1, <2>1 DEF Answered
  <2>3. NoteKept(N(TRUE))'
    BY <1>2, <2>2 DEF NoteKept
  <2>. QED BY <1>3, <2>3
<1>4. CASE Told(p, N(FALSE))
  <2>1. NoteKept(N(FALSE))'
    BY <1>2 DEF NoteKept
  <2>. QED BY <1>4, <2>1
<1>. QED BY <1>3, <1>4 DEF ReplyEnds

(* The answer that is found is the latest of the conversation.             *)
LEMMA FindAnswerNotes ==
    ASSUME ChatInv, NotesInv, NEW p \in Processes, FindAnswer(p)
    PROVE  \E e : Told(p, e) /\ NoteKept(e)'
<1>. DEFINE n == note[p]
<1>1. /\ NoteKept(n) /\ n.pc = "reply" /\ UNCHANGED thread
      /\ \/ Told(p, IF n.ok THEN [n EXCEPT !.pc = "stopping", !.found = Max(Answers)]
                    ELSE [n EXCEPT !.pc = "answer"])
         \/ Told(p, [n EXCEPT !.pc = "answer", !.ok = FALSE])
  BY DEF NotesInv, FindAnswer, store
<1>2. /\ n \in ReplyEvent
      /\ thread \in Seq(Entry) /\ Len(thread) \in Nat /\ DOMAIN thread = 1..Len(thread)
  BY <1>1, LenProperties DEF NoteKept, Quiet, EndEvent, ReportEvent, ChatInv, StoreInv
<1>3. PICK k : k = Max(Answers)
  OBVIOUS
<1>4. PICK m : m = n
  OBVIOUS
<1>. HIDE DEF n
<1>5. CASE m.ok /\ Told(p, [m EXCEPT !.pc = "stopping", !.found = k])
  <2>1. PICK i \in 1..Len(thread) : thread[i] = [role |-> "assistant", of |-> m.task]
    BY <1>1, <1>4, <1>5 DEF NoteKept, Answered, Replying
  <2>2. i \in Answers /\ Answers \in SUBSET (1..Len(thread))
    BY <1>2, <2>1 DEF Answers
  <2>3. k \in 1..Len(thread) /\ i <= k
    BY <1>2, <1>3, <2>2, LastIsThere
  <2>. DEFINE e == [m EXCEPT !.pc = "stopping", !.found = k]
  <2>4. /\ e \in ReplyEvent /\ e.pc = "stopping" /\ e.task = m.task /\ e.found = k
    <3>1. k \in Nat /\ m \in ReplyEvent
      BY <1>2, <1>4, <2>3
    <3>. QED BY <3>1 DEF ReplyEvent
  <2>5. Told(p, e)
    BY <1>5
  <2>. HIDE DEF e
  <2>6. Answered(e)'
    BY <1>1, <2>1, <2>3, <2>4 DEF Answered
  <2>7. NoteKept(e)'
    BY <2>4, <2>6 DEF NoteKept
  <2>. QED BY <2>5, <2>7
<1>7. CASE Told(p, [m EXCEPT !.pc = "answer", !.ok = FALSE])
  <2>. DEFINE e == [m EXCEPT !.pc = "answer", !.ok = FALSE]
  <2>1. e \in ReplyEvent /\ ~e.ok /\ e.pc = "answer"
    BY <1>2, <1>4 DEF ReplyEvent
  <2>2. Told(p, e)
    BY <1>7
  <2>. HIDE DEF e
  <2>3. NoteKept(e)'
    BY <2>1 DEF NoteKept
  <2>. QED BY <2>2, <2>3
<1>6. CASE ~m.ok /\ Told(p, [m EXCEPT !.pc = "answer"])
  <2>. DEFINE e == [m EXCEPT !.pc = "answer"]
  <2>1. e \in ReplyEvent /\ ~e.ok /\ e.pc = "answer"
    BY <1>2, <1>4, <1>6 DEF ReplyEvent
  <2>2. Told(p, e)
    BY <1>6
  <2>. HIDE DEF e
  <2>3. NoteKept(e)'
    BY <2>1 DEF NoteKept
  <2>. QED BY <2>2, <2>3
<1>. QED BY <1>1, <1>3, <1>4, <1>5, <1>6, <1>7

LEMMA AnswerStopsNotes ==
    ASSUME ChatInv, NotesInv, NEW p \in Processes, AnswerStops(p)
    PROVE  \E e : Told(p, e) /\ NoteKept(e)'
<1>1. PICK m : m = note[p]
  OBVIOUS
<1>2. NoteKept(m) /\ m.pc = "stopping" /\ UNCHANGED thread /\ Told(p, [m EXCEPT !.pc = "answer"])
  BY <1>1 DEF NotesInv, AnswerStops, store
<1>3. m \in ReplyEvent
  BY <1>2 DEF NoteKept, Quiet, EndEvent, ReportEvent
<1>. DEFINE e == [m EXCEPT !.pc = "answer"]
<1>4. e \in ReplyEvent /\ e.pc = "answer" /\ e.ok = m.ok /\ e.task = m.task /\ e.found = m.found
  BY <1>3 DEF ReplyEvent
<1>. HIDE DEF e
<1>5. m.ok => Answered(m)
  BY <1>2 DEF NoteKept, Replying
<1>6. e.ok => Answered(e)'
  BY <1>2, <1>4, <1>5 DEF Answered
<1>7. NoteKept(e)'
  BY <1>4, <1>6 DEF NoteKept
<1>. QED BY <1>2, <1>7 DEF e

(* A report is typed, and kept if it names who it should.                  *)
LEMMA ReportKept ==
    ASSUME NEW m, NEW unread \in SUBSET Facts, NEW provider \in Providers \cup {"none"},
           m.rows \in SpendTables,
           FormOf(m.spec, m.outcome, unread) \in {"summary", "report"},
           Names(Reported(m, unread, provider))
    PROVE  /\ NoteKept(Reported(m, unread, provider))'
           /\ Reported(m, unread, provider).pc = "report"
<1>1. SaysFree(m.outcome, RowsRead(m.rows, unread)) \in BOOLEAN
  BY DEF SaysFree
<1>2. PICK e : e = Reported(m, unread, provider)
  OBVIOUS
<1>3. e \in ReportEvent /\ e.pc = "report"
  BY <1>1, <1>2 DEF Reported, ReportEvent
<1>4. Names(e) /\ (Names(e))' = Names(e)
  BY <1>2 DEF Names, Accepted
<1>5. NoteKept(e)'
  BY <1>3, <1>4 DEF NoteKept, Replying
<1>. QED BY <1>2, <1>3, <1>5

(* A task that ends is told unless nobody cares, and its report names the  *)
(* provider whose work was accepted.                                       *)
LEMMA TellEndNotes ==
    ASSUME NotesInv, NEW p \in Processes, TellEnd(p)
    PROVE  \E e : /\ Told(p, e) /\ NoteKept(e)'
                  /\ WorthTelling(note[p]) => e.pc = "report"
<1>1. PICK m : m = note[p]
  OBVIOUS
<1>2. NoteKept(m) /\ m.pc = "end"
  BY <1>1 DEF NotesInv, TellEnd
<1>3. m \in EndEvent
  BY <1>2 DEF NoteKept, Quiet, ReplyEvent, ReportEvent
<1>4. m.outcome \in Outcomes /\ m.rows \in SpendTables /\ m.rows \subseteq Spend
  BY <1>3, ChatAssumption DEF EndEvent
<1>5. PICK unread \in SUBSET Facts :
         LET rows == RowsRead(m.rows, unread)
         IN \/ /\ FormOf(m.spec, m.outcome, unread) = "silent"
               /\ Told(p, Quiet)
            \/ /\ FormOf(m.spec, m.outcome, unread) # "silent"
               /\ \E provider \in IF rows = {} THEN {"none"}
                                  ELSE {r.provider : r \in usageFor(rows)} :
                     Told(p, Reported(m, unread, provider))
  BY <1>1 DEF TellEnd
<1>. DEFINE form == FormOf(m.spec, m.outcome, unread)
            rows == RowsRead(m.rows, unread)
            free == SaysFree(m.outcome, rows)
<1>6. WorthTelling(m) => form # "silent"
  BY DEF WorthTelling, FormOf, shouldNotify, SILENT_OUTCOMES, isFinalGenerationPhase
<1>7. form # "silent" => form \in {"summary", "report"}
  BY DEF FormOf
<1>8. CASE form = "silent"
  BY <1>1, <1>5, <1>6, <1>8, QuietKept
<1>9. CASE form # "silent"
  <2>1. PICK provider \in IF rows = {} THEN {"none"} ELSE {r.provider : r \in usageFor(rows)} :
           Told(p, Reported(m, unread, provider))
    BY <1>5, <1>9
  <2>. DEFINE e == Reported(m, unread, provider)
  <2>2. provider \in Providers \cup {"none"}
    BY <1>4 DEF usageFor, RowsRead, Spend
  <2>3. free \in BOOLEAN /\ (free => rows = {})
    BY DEF SaysFree
  <2>4. CASE "usage" \in unread
    <3>1. rows = {} /\ provider = "none"
      BY <2>1, <2>4 DEF RowsRead
    <3>2. e.unread = unread /\ e.provider = provider
      BY DEF Reported
    <3>. QED BY <1>1, <2>4, <3>1, <3>2, ReportKept, <1>4, <1>7, <1>9, <2>1, <2>2, <2>3
             DEF Names
  <2>5. CASE "usage" \notin unread
    <3>1. rows = m.rows
      BY <2>5 DEF RowsRead
    <3>2. Accepted(m.rows) # {} => provider \in Accepted(m.rows)
      <4>1. SUFFICES ASSUME NEW x \in m.rows, x.accepted
                     PROVE  provider \in Accepted(m.rows)
        BY DEF Accepted
      <4>2. PICK r \in m.rows : Before(r, x) /\ provider = r.provider
        BY <3>1, <4>1 DEF usageFor
      <4>3. r.accepted
        BY <4>1, <4>2 DEF Before
      <4>. QED BY <4>2, <4>3 DEF Accepted
    <3>3. e.rows = m.rows /\ e.provider = provider /\ e.free = free
      BY DEF Reported
    <3>. HIDE DEF e, free, rows
    <3>4. Names(e)
      BY <2>3, <3>1, <3>2, <3>3 DEF Names
    <3>. QED BY <1>1, <1>4, <1>7, <1>9, <2>1, <2>2, <2>3, <3>4, ReportKept DEF e, free, rows
  <2>. QED BY <2>4, <2>5
<1>. QED BY <1>8, <1>9

LEMMA TaskEndsNotes ==
    ASSUME NEW p \in Processes, TasksStep(p), ~ \E i \in DOMAIN replies : ReplyEnds(p, i)
    PROVE  \E e : Told(p, e) /\ NoteKept(e)'
<1>1. PICK s \in Specs, o \in Outcomes, r \in SpendTables : TaskEnds(p, s, o, r)
  BY DEF TasksStep
<1>. DEFINE e == [pc |-> "end", spec |-> s, outcome |-> o, rows |-> r]
<1>2. e \in EndEvent /\ e.pc = "end"
  BY DEF EndEvent
<1>3. Told(p, e)
  BY <1>1 DEF TaskEnds
<1>. HIDE DEF e
<1>4. NoteKept(e)'
  BY <1>2 DEF NoteKept, Replying
<1>. QED BY <1>3, <1>4

LEMMA NotesStep == ChatInv /\ AckInv /\ NotesInv /\ ChatInv' /\ [Next]_vars => NotesInv'
<1>. SUFFICES ASSUME ChatInv, AckInv, NotesInv, ChatInv', [Next]_vars PROVE NotesInv'
  OBVIOUS
<1>0. Onward /\ Len(thread) \in Nat /\ Len(thread') \in Nat
  BY StepOnward, LenProperties DEF ChatInv, StoreInv
<1>1. ASSUME NEW p \in Processes, Noting(p)
      PROVE  \E e : Told(p, e) /\ NoteKept(e)'
  <2>1. CASE FindAnswer(p) \/ AnswerStops(p) \/ TellEnd(p)
    BY <2>1, FindAnswerNotes, AnswerStopsNotes, TellEndNotes
  <2>2. CASE SayAnswer(p) \/ SendReport(p) \/ Gone(p)
    BY <2>2, QuietKept DEF SayAnswer, SendReport, Gone
  <2>3. CASE TasksStep(p)
    BY <1>0, <2>3, ReplyEndsNotes, TaskEndsNotes
  <2>. QED BY <1>1, <2>1, <2>2, <2>3 DEF Noting, NotifierStep
<1>. QED BY <1>0, <1>1, ToldKeeps, OthersNoteNothing

LEMMA AckInvariant == Spec => []AckInv
  BY InitAckInv, AckStep, ChatInvariant, PTL DEF Spec

LEMMA NotesInvariant == Spec => []NotesInv
<1>1. Init => NotesInv
  BY DEF Init, NotesInv, NoteKept, Quiet, Replying
<1>. QED BY <1>1, NotesStep, AckInvariant, ChatInvariant, PTL DEF Spec

(* An end worth telling is told, by the step that looks at it, unless its  *)
(* process is gone; and a report names a provider whose work was accepted. *)
THEOREM EndsReachTheOwner == Spec => EndsAreTold
<1>1. ASSUME ChatInv, NotesInv, [Next]_vars, NEW p \in Processes,
             note[p].pc = "end", WorthTelling(note[p]), poll'[p].pc # "down"
      PROVE  note'[p].pc \in {"end", "report"}
  <2>0. /\ note = [q \in Processes |-> note[q]] /\ note[p] # Quiet
    BY <1>1 DEF NotesInv, Quiet
  <2>1. CASE note'[p] = note[p]
    BY <1>1, <2>1
  <2>2. ASSUME NEW q \in Processes, Noting(q), q # p
        PROVE  note'[p] = note[p]
    <3>1. \E e : Told(q, e)
      <4>1. \A m, unread, provider :
               Told(q, Reported(m, unread, provider)) => \E x : Told(q, x)
        OBVIOUS
      <4>. QED
        BY <2>2, <4>1 DEF Noting, NotifierStep, TasksStep, FindAnswer, AnswerStops, SayAnswer, TellEnd,
           SendReport, ReplyEnds, TaskEnds, Gone
    <3>. QED BY <2>0, <2>2, <3>1 DEF Told
  <2>3. CASE TellEnd(p)
    <3>1. PICK e : Told(p, e) /\ e.pc = "report"
      BY <1>1, <2>3, TellEndNotes
    <3>. QED BY <2>0, <3>1 DEF Told
  <2>4. CASE Gone(p)
    <3>1. poll'[p] = Down
      BY <1>1, <2>4, PlacePut DEF Gone
    <3>. QED BY <1>1, <3>1 DEF Down
  <2>5. Noting(p) => TellEnd(p) \/ Gone(p)
    BY <1>1, <2>0 DEF Noting, NotifierStep, TasksStep, FindAnswer, AnswerStops, SayAnswer, SendReport,
       ReplyEnds, TaskEnds
  <2>. QED BY <1>1, <2>1, <2>2, <2>3, <2>4, <2>5, OthersNoteNothing
<1>2. ASSUME NotesInv', NEW p \in Processes, note'[p].pc = "report"
      PROVE  LET n == note'[p]
             IN \/ "usage" \in n.unread /\ n.provider = "none"
                \/ /\ Accepted(n.rows) # {} => n.provider \in Accepted(n.rows)
                   /\ n.free => n.rows = {}
  BY <1>2 DEF NotesInv, NoteKept, Names
<1>3. ChatInv /\ NotesInv /\ NotesInv' /\ [Next]_vars
        => [\A p \in Processes :
              /\ note[p].pc = "end" /\ WorthTelling(note[p]) /\ poll'[p].pc # "down"
                     => note'[p].pc \in {"end", "report"}
              /\ note'[p].pc = "report" =>
                     LET n == note'[p]
                     IN \/ "usage" \in n.unread /\ n.provider = "none"
                        \/ /\ Accepted(n.rows) # {} => n.provider \in Accepted(n.rows)
                           /\ n.free => n.rows = {}]_vars
  BY <1>1, <1>2
<1>. QED BY <1>3, ChatInvariant, NotesInvariant, PTL DEF EndsAreTold, Spec

-----------------------------------------------------------------------------
(* The rest of the types: who is in charge, the bounds, and the numbers of *)
(* the stickers.                                                           *)

Bounded ==
    /\ inCharge \in Processes \cup {"nobody"}
    /\ Updates \in Scripts /\ offset <= arrived /\ overdue \subseteq Requests
    /\ ends \in 0..MaxEnds /\ faults \in 0..MaxFaults

Sent(s) == s \in 1..stickersSent

StickersTyped ==
    /\ \A s \in stickers \cup swept : Sent(s)
    /\ \A p \in Processes : active[p] # 0 => Sent(active[p])
    /\ \A p \in Processes : poll[p].pc = "spinning" => Sent(poll[p].read)

(* How any step changes the lease and the counters.                        *)
Counts ==
    /\ inCharge' \in {inCharge, "nobody"} \cup Processes
    /\ UNCHANGED faults \/ Fault
    /\ UNCHANGED ends \/ (ends < MaxEnds /\ ends' = ends + 1)

LEMMA EachCounts ==
    ASSUME NEW p \in Processes,
           \/ Start(p) \/ Leave(p) \/ PollerStep(p) \/ NotifierStep(p) \/ TasksStep(p)
           \/ FaultStep(p)
    PROVE  Counts
<1>. USE DEF Counts
<1>1. CASE Start(p) \/ Leave(p) \/ FaultStep(p)
  BY <1>1 DEF Start, Leave, Gone, FaultStep, FetchFails, HandlerThrows, FileFails, LoseLease,
     Die
<1>2. CASE NotifierStep(p) \/ TasksStep(p)
  BY <1>2 DEF NotifierStep, TasksStep, FindAnswer, AnswerStops, SayAnswer, TellEnd,
     SendReport, Stop, ReplyEnds, TaskEnds
<1>3. CASE ReadOffset(p) \/ Fetch(p) \/ Refuse(p) \/ BatchDone(p) \/ Commit(p)
  BY <1>3 DEF ReadOffset, Fetch, Refuse, BatchDone, Commit
<1>4. CASE \/ TapDecides(p) \/ TapSettles(p) \/ CommandAnswered(p) \/ Locate(p)
           \/ SendMessage(p) \/ QueueReply(p)
  BY <1>4 DEF TapDecides, TapSettles, CommandAnswered, Locate, SendMessage, QueueReply
<1>5. CASE \/ FilePut(p) \/ FileValidated(p) \/ FileScanned(p)
           \/ StartStops(p) \/ StartSends(p) \/ StartEnds(p)
  BY <1>5 DEF FilePut, FileValidated, FileScanned, FileMoves, StartStops, Stop, StartSends,
     StartEnds
<1>. QED BY <1>1, <1>2, <1>3, <1>4, <1>5 DEF PollerStep

LEMMA BoundedStep == ChatInv /\ AckInv /\ Bounded /\ [Next]_vars => Bounded'
<1>. SUFFICES ASSUME ChatInv, AckInv, Bounded, [Next]_vars PROVE Bounded'
  OBVIOUS
<1>0. Later
  BY StepLater
<1>1. Counts
  BY EachCounts DEF Next, Counts, vars, Ask, RunOut, Arrive, Webhook
<1>2. /\ inCharge' \in Processes \cup {"nobody"}
      /\ ends' \in 0..MaxEnds /\ faults' \in 0..MaxFaults
  BY <1>1, ChatAssumption DEF Counts, Fault, Bounded
<1>3. overdue' \subseteq Requests
  <2>1. ASSUME NEW a, NEW d, NEW who, Decide(a, d, who) PROVE overdue' = overdue
    BY <2>1 DEF Decide, approvals
  <2>2. ASSUME NEW p \in Processes, PollerStep(p) PROVE overdue' = overdue
    BY <2>1, <2>2, PollerLeavesApprovals DEF TapDecides, approvals
  <2>3. ASSUME NEW p \in Processes,
               Start(p) \/ Leave(p) \/ FaultStep(p) \/ NotifierStep(p) \/ TasksStep(p)
        PROVE  overdue' = overdue
    BY <2>3, TasksLeaveApprovals, ProcessesLeaveApprovals DEF approvals
  <2>. QED
    BY <2>1, <2>2, <2>3 DEF Next, Bounded, Ask, Create, RunOut, Expire, Arrive, Webhook, vars,
       approvals
<1>4. offset' <= arrived'
  <2>1. ASSUME NEW p \in Processes, Commit(p) PROVE offset' <= arrived'
    <3>1. /\ offset \in Nat /\ poll[p].last \in Nat /\ poll[p].last <= arrived
          /\ arrived' = arrived /\ offset' = Max({offset, poll[p].last})
      BY <2>1 DEF ChatInv, PlacesInv, Placed, Poller, Commit, server
    <3>2. offset' \in {offset, poll[p].last}
      <4>1. \E x \in {offset, poll[p].last} : \A y \in {offset, poll[p].last} : x >= y
        BY <3>1
      <4>. QED BY <3>1, <4>1 DEF Max
    <3>. QED BY <3>1, <3>2 DEF Bounded
  <2>2. UNCHANGED offset \/ \E p \in Processes : Commit(p)
    BY EachProcessMoves DEF ProcessMoves, Next, Ask, RunOut, Arrive, Webhook, vars
  <2>. QED BY <1>0, <2>1, <2>2 DEF Bounded, Later
<1>. QED BY <1>0, <1>2, <1>3, <1>4 DEF Bounded, Later

(* stop() takes nothing out of the numbers that were sent.                 *)
LEMMA StopTyped ==
    ASSUME ChatInv, StickersTyped, NEW p \in Processes, Stop(p), UNCHANGED stickersSent,
           \A q \in Processes : \/ poll'[q].pc # "spinning"
                                \/ poll'[q] = poll[q]
    PROVE  StickersTyped'
<1>1. /\ active'[p] = 0 /\ \A q \in Processes \ {p} : active'[q] = active[q]
      /\ stickers' \subseteq stickers
      /\ \A s \in swept' : s \in swept \/ (s = active[p] /\ active[p] # 0)
  BY DEF Stop, ChatInv, StickersInv
<1>. QED BY <1>1 DEF StickersTyped, Sent

LEMMA StickersTypedStep == ChatInv /\ StickersTyped /\ [Next]_vars => StickersTyped'
<1>. SUFFICES ASSUME ChatInv, StickersTyped, [Next]_vars PROVE StickersTyped'
  OBVIOUS
<1>0. stickersSent \in Nat /\ active \in [Processes -> Nat]
  BY DEF ChatInv, StickersInv
<1>1. ASSUME NEW p \in Processes, Plain(p) PROVE StickersTyped'
  <2>1. PICK r : /\ r.pc # "spinning" /\ poll' = [poll EXCEPT ![p] = r]
                 /\ UNCHANGED <<stickers, stickersSent, active, swept>>
    BY <1>1, PlainMoves
  <2>2. poll'[p] = r /\ \A q \in Processes \ {p} : poll'[q] = poll[q]
    BY <2>1, PlacePut
  <2>. QED BY <2>1, <2>2 DEF StickersTyped, Sent
<1>2. ASSUME NEW p, Apart(p) \/ UNCHANGED vars PROVE StickersTyped'
  <2>1. UNCHANGED <<poll, active, stickers, stickersSent, swept>>
    BY <1>2 DEF Apart, Ask, RunOut, Arrive, Webhook, FindAnswer, SayAnswer, TellEnd, TasksStep,
       ReplyEnds, TaskEnds, LoseLease, chat, history, vars
  <2>. QED BY <2>1 DEF StickersTyped, Sent
<1>3. ASSUME NEW p \in Processes, StartStops(p) PROVE StickersTyped'
  <2>1. Stop(p) /\ Goes(p, "stopped") /\ UNCHANGED stickersSent
    BY <1>3 DEF StartStops
  <2>. QED BY <2>1, PlaceGoes, StopTyped
<1>4. ASSUME NEW p \in Processes, StartSends(p) PROVE StickersTyped'
  <2>1. CASE stickersSent' = stickersSent + 1
    <3>1. /\ stickers' = stickers \cup {stickersSent'} /\ UNCHANGED <<active, swept>>
          /\ Reads(p, "spinning", stickersSent')
      BY <1>0, <1>4, <2>1 DEF StartSends, Reads
    <3>2. /\ poll'[p].read = stickersSent' /\ \A q \in Processes \ {p} : poll'[q] = poll[q]
      BY <3>1, PlaceReads
    <3>. QED BY <1>0, <2>1, <3>1, <3>2 DEF StickersTyped, Sent
  <2>2. CASE stickersSent' # stickersSent + 1
    <3>1. NextUpdate(p) /\ UNCHANGED <<stickers, stickersSent, active, swept>>
      BY <1>4, <2>2 DEF StartSends, Handled
    <3>2. poll'[p].pc = "handling" /\ \A q \in Processes \ {p} : poll'[q] = poll[q]
      BY <3>1, PlaceNext
    <3>. QED BY <3>1, <3>2 DEF StickersTyped, Sent
  <2>. QED BY <2>1, <2>2
<1>5. ASSUME NEW p \in Processes, StartEnds(p) PROVE StickersTyped'
  <2>1. /\ poll[p].pc = "spinning" /\ NextUpdate(p) /\ UNCHANGED <<stickers, stickersSent>>
        /\ \/ active' = [active EXCEPT ![p] = poll[p].read] /\ UNCHANGED swept
           \/ swept' = swept \cup {poll[p].read} /\ UNCHANGED active
    BY <1>5 DEF StartEnds, At, Handled, chat
  <2>2. poll'[p].pc = "handling" /\ \A q \in Processes \ {p} : poll'[q] = poll[q]
    BY <2>1, PlaceNext
  <2>. QED BY <1>0, <2>1, <2>2 DEF StickersTyped, Sent
<1>6. ASSUME NEW p \in Processes, AnswerStops(p) \/ SendReport(p) PROVE StickersTyped'
  <2>1. UNCHANGED <<poll, stickersSent>>
    BY <1>6 DEF AnswerStops, SendReport
  <2>2. Stop(p) \/ UNCHANGED <<active, stickers, swept>>
    BY <1>6 DEF AnswerStops, SendReport
  <2>3. CASE Stop(p)
    BY <2>1, <2>3, StopTyped
  <2>4. CASE UNCHANGED <<active, stickers, swept>>
    BY <2>1, <2>4 DEF StickersTyped, Sent
  <2>. QED BY <2>2, <2>3, <2>4
<1>7. ASSUME NEW p \in Processes, Leave(p) \/ Die(p) PROVE StickersTyped'
  <2>1. /\ poll' = [poll EXCEPT ![p] = Down] /\ active' = [active EXCEPT ![p] = 0]
        /\ swept' = swept \cup Tracked(p) /\ UNCHANGED <<stickers, stickersSent>>
    BY <1>7 DEF Leave, Die, Gone, chat
  <2>2. poll'[p].pc = "down" /\ \A q \in Processes \ {p} : poll'[q] = poll[q]
    <3>1. poll'[p] = Down /\ \A q \in Processes \ {p} : poll'[q] = poll[q]
      BY <2>1, PlacePut
    <3>. QED BY <3>1 DEF Down
  <2>3. \A s \in Tracked(p) : Sent(s)
    BY DEF Tracked, Spinning, At, StickersTyped
  <2>. QED BY <1>0, <2>1, <2>2, <2>3 DEF StickersTyped, Sent
<1>8. ASSUME NEW p \in Processes,
             \/ Start(p) \/ Leave(p) \/ PollerStep(p) \/ NotifierStep(p) \/ TasksStep(p)
             \/ FaultStep(p)
      PROVE  Plain(p) \/ Sticky(p) \/ Apart(p)
  BY <1>8 DEF PollerStep, NotifierStep, FaultStep, Plain, Sticky, Apart
<1>9. CASE \/ \E a \in Requests : Ask(a) \/ RunOut(a)
           \/ Arrive \/ (\E u \in Ids : Webhook(u)) \/ UNCHANGED vars
  BY <1>2, <1>9 DEF Apart
<1>. QED BY <1>1, <1>2, <1>3, <1>4, <1>5, <1>6, <1>7, <1>8, <1>9 DEF Sticky, Next

LEMMA Typed ==
    ASSUME ChatInv, AckInv, NotesInv, Bounded, StickersTyped
    PROVE  TypeOK
<1>1. /\ arrived \in 0..Len(Updates) /\ arrived \in Nat
      /\ confirmed \in 0..arrived /\ offset \in 0..arrived
  BY LenProperties DEF ChatInv, PlacesInv, AckInv, Bounded
<1>2. /\ status \in [Requests -> {"none", "pending"} \cup Decisions]
      /\ buttons \subseteq Requests
      /\ seen \in [Ids -> SUBSET {"handled", "refused", "failed"}]
  BY DEF ChatInv, ApprovalInv, AckInv
<1>3. replies \in [DOMAIN thread -> {"none", "queued", "succeeded", "failed"}]
  <2>1. /\ Len(replies) = Len(thread) /\ replies \in [1..Len(replies) -> ReplyState]
        /\ DOMAIN thread = 1..Len(thread)
    BY LenProperties DEF ChatInv, StoreInv, AckInv
  <2>. QED BY <2>1 DEF ReplyState
<1>4. thread \in Seq(Entry) /\ files \in [Ids -> Seq({"quarantined", "validated", "scanned"})]
  BY DEF ChatInv, StoreInv, FileState
<1>5. poll \in [Processes -> Poller]
  BY DEF ChatInv, PlacesInv, Placed
<1>6. \A p \in Processes : note[p] \in {Quiet} \cup ReplyEvent \cup EndEvent \cup ReportEvent
  BY DEF NotesInv, NoteKept
<1>7. stickers \cup swept \subseteq 1..stickersSent /\ active \in [Processes -> 0..stickersSent]
  BY DEF ChatInv, StickersInv, StickersTyped, Sent
<1>. QED BY <1>1, <1>2, <1>3, <1>4, <1>5, <1>6, <1>7 DEF TypeOK, Bounded

(* Whatever overlaps or fails, the answer sent for a reply that succeeded  *)
(* is that reply's own or a later one; and the state has its type.         *)
THEOREM AnswersAreOwnOrLater == Spec => []AnswersAreNew
<1>1. Init => Bounded /\ StickersTyped
  <2>. SUFFICES ASSUME Init PROVE Bounded /\ StickersTyped
    OBVIOUS
  <2>1. Bounded
    BY ChatAssumption DEF Init, ApprovalsInit, Bounded
  <2>2. StickersTyped
    BY DEF Init, StickersTyped, Down
  <2>. QED BY <2>1, <2>2
<1>2. Spec => [](Bounded /\ StickersTyped)
  BY <1>1, BoundedStep, StickersTypedStep, AckInvariant, ChatInvariant, PTL DEF Spec
<1>3. NotesInv => \A p \in Processes : note[p].pc \in {"stopping", "answer"} /\ note[p].ok =>
          \E i \in 1..note[p].found :
              thread[i] = [role |-> "assistant", of |-> note[p].task]
  <2>. SUFFICES ASSUME NotesInv, NEW p \in Processes,
                       note[p].pc \in {"stopping", "answer"}, note[p].ok
                PROVE  \E i \in 1..note[p].found :
                          thread[i] = [role |-> "assistant", of |-> note[p].task]
    OBVIOUS
  <2>1. Answered(note[p]) /\ note[p] \in ReplyEvent
    BY DEF NotesInv, NoteKept, Replying, Quiet, EndEvent, ReportEvent
  <2>2. PICK i \in 1..Len(thread) : /\ thread[i] = [role |-> "assistant", of |-> note[p].task]
                                    /\ i <= note[p].found
    BY <2>1 DEF Answered
  <2>3. note[p].found \in Nat
    BY <2>1 DEF ReplyEvent
  <2>4. i \in 1..note[p].found
    BY <2>2, <2>3
  <2>. QED BY <2>2, <2>4
<1>4. ChatInv /\ AckInv /\ NotesInv /\ Bounded /\ StickersTyped => AnswersAreNew
  BY <1>3, Typed DEF AnswersAreNew
<1>. QED BY <1>2, <1>4, ChatInvariant, AckInvariant, NotesInvariant, PTL
=============================================================================
