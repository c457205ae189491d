-------------------------- MODULE FactoryLine_proofs --------------------------
(***************************************************************************)
(* DecidedOnce, OneTranslationWins and GeneratedAsApproved, for any number *)
(* of requests and attempts at once.                                       *)
(*                                                                         *)
(* A request that is about to write a proposal checked the state before;   *)
(* that the version is still the one it names says that the state is, too. *)
(* ProposalInv says so of every request.  On the factory's side nothing    *)
(* that a request has found is taken back (Grows): what it was served for  *)
(* goes on to fit (Fits), a translation has won only once the project is   *)
(* no idea any more (WinInv), and the events on record tell how far it is  *)
(* (EventsInv).                                                            *)
(***************************************************************************)
EXTENDS FactoryLine, SequenceTheorems, FiniteSetTheorems, TLAPS

(* What a request may have still to do to a proposal.                      *)
Todos == {<<"owner_review">>, <<"approved", "handed_off">>, <<"handed_off">>,
          <<"rejected">>}

(* A request names a version the proposal has, or had; and if it still has *)
(* it, a checked step is one from its state.                               *)
Named(r) ==
    /\ r \in ProposalCall /\ r.todo \in Todos
    /\ r.at \in {"check", "write"} =>
           r.p \in DOMAIN proposals /\ r.version <= proposals[r.p].version
    /\ r.at = "write" /\ r.version = proposals[r.p].version =>
           Head(r.todo) \in allowed[proposals[r.p].state]

Consistent(row) ==
    /\ row.version = VersionOf[row.state]
    /\ row.approved <=> row.state \in {"approved", "handed_off"}

ProposalInv ==
    /\ said \in 0..MaxMessages
    /\ proposals \in Seq(Proposal)
    /\ \A p \in DOMAIN proposals : Consistent(proposals[p])
    /\ DOMAIN intents \subseteq Keys \cup {FormKey}
    /\ \A k \in DOMAIN intents : intents[k] \in DOMAIN proposals
    /\ DOMAIN call = Callers /\ call = [c \in Callers |-> call[c]]
    /\ \A c \in Callers : "op" \in DOMAIN call[c]
    /\ \A c \in Callers : call[c].op = "proposal" => Named(call[c])

(* The four sequences of states, one by one.                               *)
LEMMA TodoIs ==
    ASSUME NEW todo \in Todos
    PROVE  /\ todo \in Seq(ProposalState) /\ Len(todo) \in {1, 2}
           /\ Head(todo) \in {"owner_review", "approved", "handed_off", "rejected"}
           /\ Len(todo) # 1 => Tail(todo) \in Todos
<1>1. CASE todo = <<"owner_review">>
  BY <1>1 DEF ProposalState
<1>2. CASE todo = <<"approved", "handed_off">>
  BY <1>2 DEF ProposalState, Todos
<1>3. CASE todo = <<"handed_off">>
  BY <1>3 DEF ProposalState
<1>4. CASE todo = <<"rejected">>
  BY <1>4 DEF ProposalState
<1>. QED BY <1>1, <1>2, <1>3, <1>4 DEF Todos

(* What the caller's place is after it was assigned.                       *)
LEMMA CallPut ==
    ASSUME ProposalInv, NEW c \in Callers, NEW r, call' = [call EXCEPT ![c] = r]
    PROVE  /\ call'[c] = r /\ \A d \in Callers \ {c} : call'[d] = call[d]
           /\ DOMAIN call' = Callers /\ call' = [d \in Callers |-> call'[d]]
  BY DEF ProposalInv

(* A step that leaves the proposals alone keeps the invariant, if what it  *)
(* makes of its caller is one.                                             *)
LEMMA CallKeeps ==
    ASSUME ProposalInv, NEW c \in Callers, NEW r, call' = [call EXCEPT ![c] = r],
           UNCHANGED talk, "op" \in DOMAIN r, r.op = "proposal" => Named(r)
    PROVE  ProposalInv'
<1>1. /\ call'[c] = r /\ \A d \in Callers \ {c} : call'[d] = call[d]
      /\ DOMAIN call' = Callers /\ call' = [d \in Callers |-> call'[d]]
  BY CallPut
<1>2. \A q : Named(q)' <=> Named(q)
  BY DEF Named, talk
<1>3. \A d \in Callers : call'[d].op = "proposal" => Named(call[d])'
  <2>1. Named(call'[c]) => Named(call[c])'
    BY DEF Named, talk
  <2>2. \A d \in Callers \ {c} : Named(call[d]) => Named(call[d])'
    BY <1>1 DEF Named, talk
  <2>. QED BY <1>1, <2>1, <2>2 DEF ProposalInv
<1>. QED BY <1>1, <1>3 DEF ProposalInv, talk, Consistent

(* The steps of the factory's side leave the proposals alone, and do not   *)
(* make a request for one.                                                 *)
LineStep(c) == CommandStep(c) \/ TranslationStep(c) \/ GenerationStep(c) \/ Die(c)

(* What such a step makes of its caller.                                   *)
OffProposals(c) ==
    /\ UNCHANGED talk
    /\ \E r : /\ call' = [call EXCEPT ![c] = r]
              /\ "op" \in DOMAIN r /\ r.op # "proposal"

(* Serving a request of the line,                                          *)
LEMMA OffServe ==
    ASSUME ProposalInv, NEW c \in Callers, UNCHANGED talk, NEW r, Serve(c, r),
           "op" \in DOMAIN r, r.op # "proposal"
    PROVE  OffProposals(c)
  BY DEF Serve, OffProposals

(* ... ending one,                                                         *)
LEMMA OffEnds ==
    ASSUME ProposalInv, NEW c \in Callers, UNCHANGED talk, Ends(c) PROVE OffProposals(c)
<1>1. "op" \in DOMAIN Idle /\ Idle.op # "proposal"
  BY DEF Idle
<1>. QED BY <1>1 DEF Ends, OffProposals

(* ... and moving one on.                                                  *)
LEMMA OffGoto ==
    ASSUME ProposalInv, NEW c \in Callers, UNCHANGED talk, call[c].op # "proposal",
           NEW step, Goto(c, step)
    PROVE  OffProposals(c)
<1>. DEFINE q == call[c]
            r == [q EXCEPT !.at = step]
<1>1. call' = [call EXCEPT ![c] = r] /\ "op" \in DOMAIN q /\ q.op # "proposal"
  BY DEF Goto, ProposalInv
<1>. HIDE DEF q
<1>2. "op" \in DOMAIN r /\ r.op = q.op
  BY <1>1
<1>. QED BY <1>1, <1>2 DEF OffProposals

(* The requests of the line are records with an operation.                 *)
LEMMA LineIs ==
    ASSUME NEW op, NEW at
    PROVE  "op" \in DOMAIN Line(op, at) /\ Line(op, at).op = op
  BY DEF Line

(* The commands that make a project.                                       *)
LEMMA CommandOff ==
    ASSUME ProposalInv, NEW c \in Callers, CommandStep(c) PROVE OffProposals(c)
<1>. USE DEF At
<1>1. ASSUME NEW node \in BOOLEAN, OwnerCreatesProject(c, node) PROVE OffProposals(c)
  <2>. DEFINE q == Line("project", "publish")
              r == [q EXCEPT !.document = [node |-> node, of |-> 0]]
  <2>1. "op" \in DOMAIN q /\ q.op = "project"
    BY LineIs
  <2>2. Serve(c, r) /\ UNCHANGED talk
    BY <1>1 DEF OwnerCreatesProject
  <2>. HIDE DEF q
  <2>3. "op" \in DOMAIN r /\ r.op = "project"
    BY <2>1
  <2>. HIDE DEF r
  <2>. QED BY <2>2, <2>3, OffServe
<1>2. CASE startConversation(c)
  BY <1>2, OffServe, LineIs DEF startConversation
<1>3. CASE PublishCommanded(c)
  <2>1. UNCHANGED talk /\ call[c].op # "proposal" /\ (Goto(c, "create") \/ Ends(c))
    BY <1>3 DEF PublishCommanded
  <2>. QED BY <2>1, OffGoto, OffEnds
<1>4. CASE InsertProject(c)
  <2>1. UNCHANGED talk /\ call[c].op # "proposal" /\ (Goto(c, "transition") \/ Ends(c))
    BY <1>4 DEF InsertProject
  <2>. QED BY <2>1, OffGoto, OffEnds
<1>5. CASE TransitionCommanded(c)
  BY <1>5, OffEnds DEF TransitionCommanded, Transitioned
<1>. QED BY <1>1, <1>2, <1>3, <1>4, <1>5 DEF CommandStep

(* The translation of a proposal that was handed off.                      *)
LEMMA TranslationOff ==
    ASSUME ProposalInv, NEW c \in Callers, TranslationStep(c) PROVE OffProposals(c)
<1>. USE DEF At
<1>1. ASSUME NEW p \in DOMAIN proposals, Translate(c, p) PROVE OffProposals(c)
  <2>. DEFINE q == Line("translate", "queue")
              r == [q EXCEPT !.p = p, !.version = project.version]
  <2>1. "op" \in DOMAIN q /\ q.op = "translate"
    BY LineIs
  <2>2. Serve(c, r) /\ UNCHANGED talk
    BY <1>1 DEF Translate
  <2>. HIDE DEF q
  <2>3. "op" \in DOMAIN r /\ r.op = "translate"
    BY <2>1
  <2>. HIDE DEF r
  <2>. QED BY <2>2, <2>3, OffServe
<1>2. CASE QueueTranslation(c)
  <2>. DEFINE q == call[c]
              r == [q EXCEPT !.at = "specify", !.t = Len(translations) + 1]
  <2>1. /\ call' = [call EXCEPT ![c] = r] /\ "op" \in DOMAIN q /\ q.op # "proposal"
        /\ UNCHANGED talk
    BY <1>2 DEF QueueTranslation, ProposalInv
  <2>. HIDE DEF q
  <2>2. "op" \in DOMAIN r /\ r.op = q.op
    BY <2>1
  <2>. QED BY <2>1, <2>2 DEF OffProposals
<1>3. CASE SpecifyTranslation(c) \/ ModelIsUnusable(c) \/ Succeed(c)
  BY <1>3, OffEnds DEF SpecifyTranslation, ModelIsUnusable, Succeed
<1>4. ASSUME NEW t \in DOMAIN translations, LeaseTranslation(c, t) PROVE OffProposals(c)
  <2>. DEFINE q == Line("derive", "ask")
              r == [q EXCEPT !.t = t]
  <2>1. "op" \in DOMAIN q /\ q.op = "derive"
    BY LineIs
  <2>2. Serve(c, r) /\ UNCHANGED talk
    BY <1>4 DEF LeaseTranslation
  <2>. HIDE DEF q
  <2>3. "op" \in DOMAIN r /\ r.op = "derive"
    BY <2>1
  <2>. HIDE DEF r
  <2>. QED BY <2>2, <2>3, OffServe
<1>5. CASE PublishDerived(c)
  <2>. DEFINE q == call[c]
  <2>1. PICK v : /\ call' = [call EXCEPT ![c] = [q EXCEPT !.at = "attach", !.v = v]]
                 /\ "op" \in DOMAIN q /\ q.op # "proposal" /\ UNCHANGED talk
    BY <1>5 DEF PublishDerived, ProposalInv
  <2>. DEFINE r == [q EXCEPT !.at = "attach", !.v = v]
  <2>. HIDE DEF q
  <2>2. "op" \in DOMAIN r /\ r.op = q.op
    BY <2>1
  <2>. QED BY <2>1, <2>2 DEF OffProposals
<1>6. CASE Attach(c)
  <2>1. CASE Ends(c)
    BY <1>6, <2>1, OffEnds DEF Attach
  <2>2. CASE ~Ends(c)
    <3>. DEFINE q == call[c]
                r == [q EXCEPT !.at = "transition", !.version = project.version + 1]
    <3>1. /\ call' = [call EXCEPT ![c] = r] /\ "op" \in DOMAIN q /\ q.op # "proposal"
          /\ UNCHANGED talk
      BY <1>6, <2>2 DEF Attach, ProposalInv
    <3>. HIDE DEF q
    <3>2. "op" \in DOMAIN r /\ r.op = q.op
      BY <3>1
    <3>. QED BY <3>1, <3>2 DEF OffProposals
  <2>. QED BY <2>1, <2>2
<1>7. CASE TakeToBlueprint(c)
  <2>1. UNCHANGED talk /\ call[c].op # "proposal" /\ (Goto(c, "done") \/ Ends(c))
    BY <1>7 DEF TakeToBlueprint
  <2>. QED BY <2>1, OffGoto, OffEnds
<1>. QED BY <1>1, <1>2, <1>3, <1>4, <1>5, <1>6, <1>7 DEF TranslationStep

(* The generation, and the lifecycle it advances.                          *)
LEMMA GenerationOff ==
    ASSUME ProposalInv, NEW c \in Callers, GenerationStep(c) PROVE OffProposals(c)
<1>. USE DEF At
<1>1. CASE Generate(c)
  <2>. DEFINE q == Line("generate", IF workspace = "absent" THEN "files" ELSE "advance")
              r == [q EXCEPT !.v = project.blueprint]
  <2>1. "op" \in DOMAIN q /\ q.op = "generate"
    BY LineIs
  <2>2. Serve(c, r) /\ UNCHANGED talk
    BY <1>1 DEF Generate
  <2>. HIDE DEF q
  <2>3. "op" \in DOMAIN r /\ r.op = "generate"
    BY <2>1
  <2>. HIDE DEF r
  <2>. QED BY <2>2, <2>3, OffServe
<1>2. CASE Export(c)
  BY <1>2, OffServe, LineIs DEF Export
<1>3. CASE Initialise(c)
  BY <1>3, OffGoto DEF Initialise
<1>4. CASE InstallAndCommit(c)
  <2>1. UNCHANGED talk /\ call[c].op # "proposal" /\ (Goto(c, "advance") \/ Ends(c))
    BY <1>4 DEF InstallAndCommit
  <2>. QED BY <2>1, OffGoto, OffEnds
<1>5. CASE QueueGeneration(c)
  <2>. DEFINE q == call[c]
              r == [q EXCEPT !.at = "specify", !.t = Len(generations) + 1]
  <2>1. /\ call' = [call EXCEPT ![c] = r] /\ "op" \in DOMAIN q /\ q.op # "proposal"
        /\ UNCHANGED talk
    BY <1>5 DEF QueueGeneration, ProposalInv
  <2>. HIDE DEF q
  <2>2. "op" \in DOMAIN r /\ r.op = q.op
    BY <2>1
  <2>. QED BY <2>1, <2>2 DEF OffProposals
<1>6. CASE SpecifyGeneration(c)
  BY <1>6, OffEnds DEF SpecifyGeneration
<1>7. ASSUME NEW t \in DOMAIN generations, Develop(c, t) PROVE OffProposals(c)
  BY <1>7, OffServe, LineIs DEF Develop
<1>8. ASSUME Advanced(c), UNCHANGED talk, call[c].op # "proposal" PROVE OffProposals(c)
  BY <1>8, OffGoto, OffEnds DEF Advanced
<1>t. \A op \in DOMAIN Target : op # "proposal"
  BY DEF Target
<1>9. CASE ReadState(c)
  <2>1. UNCHANGED talk /\ call[c].op # "proposal"
    BY <1>9, <1>t DEF ReadState
  <2>2. CASE Advanced(c)
    BY <1>8, <2>1, <2>2
  <2>3. CASE ~Advanced(c)
    <3>. DEFINE q == call[c]
                r == [q EXCEPT !.at = "transition", !.version = project.version]
    <3>1. call' = [call EXCEPT ![c] = r] /\ "op" \in DOMAIN q /\ q.op # "proposal"
      BY <1>9, <2>1, <2>3 DEF ReadState, ProposalInv
    <3>. HIDE DEF q
    <3>2. "op" \in DOMAIN r /\ r.op = q.op
      BY <3>1
    <3>. QED BY <2>1, <3>1, <3>2 DEF OffProposals
  <2>. QED BY <2>2, <2>3
<1>10. CASE WriteState(c)
  <2>1. UNCHANGED talk /\ call[c].op # "proposal" /\ (Advanced(c) \/ Ends(c))
    BY <1>10, <1>t DEF WriteState, Transitioned
  <2>. QED BY <1>8, <2>1, OffEnds
<1>. QED BY <1>1, <1>2, <1>3, <1>4, <1>5, <1>6, <1>7, <1>9, <1>10 DEF GenerationStep

(* Together: the line keeps the proposals' invariant.                      *)
LEMMA LineKeepsProposals ==
    ASSUME ProposalInv, NEW c \in Callers, LineStep(c) PROVE ProposalInv'
<1>1. OffProposals(c)
  BY CommandOff, TranslationOff, GenerationOff, OffEnds DEF LineStep, Die
<1>2. PICK r : /\ call' = [call EXCEPT ![c] = r]
               /\ "op" \in DOMAIN r /\ r.op # "proposal"
  BY <1>1 DEF OffProposals
<1>. QED BY <1>1, <1>2, CallKeeps DEF OffProposals

-----------------------------------------------------------------------------
(* A request to write a proposal is named, whatever it is to do.           *)
LEMMA RequestIs ==
    ASSUME NEW k \in Keys \cup {FormKey}, NEW candidate \in 0..MaxMessages
    PROVE  /\ Named(Write(k, candidate)) /\ Write(k, candidate).op = "proposal"
           /\ "op" \in DOMAIN Write(k, candidate)
<1>1. Write(k, candidate) = [op |-> "proposal", at |-> "create", key |-> k,
                             candidate |-> candidate, p |-> 0, version |-> 0,
                             todo |-> <<"owner_review">>]
  BY DEF Write
<1>2. <<"owner_review">> \in Todos /\ <<"owner_review">> \in Seq(ProposalState)
  BY DEF Todos, ProposalState
<1>. QED BY <1>1, <1>2 DEF Named, ProposalCall

(* ... a decision, of what the page showed.                                *)
LEMMA DecisionIs ==
    ASSUME NEW p \in DOMAIN proposals, ProposalInv, NEW v \in 1..proposals[p].version,
           NEW todo \in Todos
    PROVE  /\ Named(Decide(p, v, todo)) /\ Decide(p, v, todo).op = "proposal"
           /\ "op" \in DOMAIN Decide(p, v, todo)
<1>. DEFINE q == Write(FormKey, 0)
            r == [q EXCEPT !.at = "check", !.p = p, !.version = v, !.todo = todo]
<1>1. q \in ProposalCall
  BY RequestIs, ProposalAssumption DEF Named
<1>2. proposals[p] \in Proposal /\ p \in Nat
  BY LenProperties, ElementOfSeq DEF ProposalInv
<1>3. v \in 0..4 /\ v <= proposals[p].version /\ todo \in Seq(ProposalState)
  BY <1>2, TodoIs DEF Proposal
<1>. HIDE DEF q
<1>4. /\ r \in ProposalCall /\ r.at = "check" /\ r.p = p /\ r.version = v
      /\ r.todo = todo /\ r.op = "proposal"
  BY <1>1, <1>2, <1>3 DEF ProposalCall
<1>. HIDE DEF r
<1>5. Named(r) /\ r.op = "proposal" /\ "op" \in DOMAIN r
  BY <1>3, <1>4 DEF Named, ProposalCall
<1>. QED BY <1>5 DEF Decide, q, r

(* The drafts of the store, and the form's.                                *)
LEMMA InsertKeeps ==
    ASSUME ProposalInv, NEW c \in Callers, InsertProposal(c) PROVE ProposalInv'
<1>. DEFINE q == call[c]
            n == Len(proposals) + 1
            row == [state |-> "draft", version |-> 1, candidate |-> q.candidate,
                    approved |-> FALSE]
            r == [q EXCEPT !.at = "check", !.p = n, !.version = 1]
<1>1. /\ Named(q) /\ q.at = "create" /\ q.key \in Keys \cup {FormKey}
      /\ q \in ProposalCall /\ q.candidate \in 0..MaxMessages /\ q.todo \in Todos
      /\ q.op = "proposal" /\ "op" \in DOMAIN q
  BY DEF InsertProposal, Pending, ProposalInv, Named, ProposalCall
<1>2. row \in Proposal /\ Consistent(row)
  BY <1>1 DEF Proposal, ProposalState, Consistent, VersionOf
<1>3. /\ proposals' = Append(proposals, row)
      /\ intents' = [k \in DOMAIN intents \cup {q.key} |->
                        IF k = q.key THEN n ELSE intents[k]]
      /\ call' = [call EXCEPT ![c] = r] /\ UNCHANGED said
  BY DEF InsertProposal
<1>. HIDE DEF q, row
<1>4. /\ proposals' \in Seq(Proposal) /\ DOMAIN proposals' = DOMAIN proposals \cup {n}
      /\ proposals'[n] = row /\ \A p \in DOMAIN proposals : proposals'[p] = proposals[p]
      /\ n \in Nat
  <2>1. proposals \in Seq(Proposal) /\ Len(proposals) \in Nat
    BY LenProperties DEF ProposalInv
  <2>2. /\ proposals' \in Seq(Proposal) /\ Len(proposals') = n /\ proposals'[n] = row
        /\ \A p \in 1..Len(proposals) : proposals'[p] = proposals[p]
    BY <1>2, <1>3, <2>1, AppendProperties
  <2>3. DOMAIN proposals = 1..Len(proposals) /\ DOMAIN proposals' = 1..Len(proposals')
    BY <2>1, <2>2, LenProperties
  <2>. QED BY <2>1, <2>2, <2>3
<1>5. /\ r \in ProposalCall /\ r.at = "check" /\ r.p = n /\ r.version = 1
      /\ r.todo = q.todo /\ r.op = "proposal" /\ "op" \in DOMAIN r
  <2>1. "check" \in {"create", "check", "write"} /\ 1 \in 0..4 /\ n \in Nat
    BY <1>4
  <2>. HIDE DEF n
  <2>2. /\ r \in ProposalCall /\ r.at = "check" /\ r.p = n /\ r.version = 1
        /\ r.todo = q.todo
    BY <1>1, <2>1 DEF ProposalCall
  <2>. HIDE DEF r
  <2>3. r.op = "proposal" /\ "op" \in DOMAIN r
    BY <2>2 DEF ProposalCall
  <2>. QED BY <2>2, <2>3
<1>. HIDE DEF r, n
<1>6. /\ call'[c] = r /\ \A d \in Callers \ {c} : call'[d] = call[d]
      /\ DOMAIN call' = Callers /\ call' = [d \in Callers |-> call'[d]]
  BY <1>3, CallPut
<1>7. /\ DOMAIN intents' \subseteq Keys \cup {FormKey}
      /\ \A k \in DOMAIN intents' : intents'[k] \in DOMAIN proposals'
  BY <1>1, <1>3, <1>4 DEF ProposalInv
<1>8. \A p \in DOMAIN proposals' : Consistent(proposals[p])'
  BY <1>2, <1>4 DEF ProposalInv, Consistent
<1>9. \A d \in Callers : call'[d].op = "proposal" => Named(call[d])'
  <2>1. Named(call[c])'
    BY <1>1, <1>2, <1>4, <1>5, <1>6 DEF Named, Consistent, row, VersionOf
  <2>2. \A d \in Callers \ {c} : call'[d].op = "proposal" => Named(call[d])'
    BY <1>4, <1>6 DEF ProposalInv, Named
  <2>. QED BY <2>1, <2>2
<1>. QED BY <1>3, <1>4, <1>5, <1>6, <1>7, <1>8, <1>9 DEF ProposalInv

(* A key that was used ends the request, or takes it up where it was left. *)
LEMMA ReplayKeeps ==
    ASSUME ProposalInv, NEW c \in Callers, ReplayProposal(c) PROVE ProposalInv'
<1>. DEFINE q == call[c]
            n == intents[q.key]
            r == [q EXCEPT !.at = "check", !.p = n, !.version = 1]
<1>1. /\ Named(q) /\ q \in ProposalCall /\ q.todo \in Todos /\ q.at = "create"
      /\ q.op = "proposal" /\ n \in DOMAIN proposals /\ UNCHANGED talk
  BY DEF ReplayProposal, Pending, ProposalInv, Named, talk
<1>2. CASE Ends(c)
  <2>1. "op" \in DOMAIN Idle /\ Idle.op # "proposal" /\ call' = [call EXCEPT ![c] = Idle]
    BY <1>2 DEF Idle, Ends
  <2>. QED BY <1>1, <2>1, CallKeeps
<1>3. CASE ~Ends(c)
  <2>1. call' = [call EXCEPT ![c] = r]
    BY <1>3 DEF ReplayProposal
  <2>2. n \in Nat /\ proposals[n] \in Proposal /\ 1 <= proposals[n].version
    <3>1. n \in Nat /\ proposals[n] \in Proposal
      BY <1>1, LenProperties, ElementOfSeq DEF ProposalInv
    <3>. QED BY <3>1 DEF Proposal
  <2>. HIDE DEF q, n
  <2>3. /\ r \in ProposalCall /\ r.at = "check" /\ r.p = n /\ r.version = 1
        /\ r.todo = q.todo /\ r.op = "proposal" /\ "op" \in DOMAIN r
    <3>1. "check" \in {"create", "check", "write"} /\ 1 \in 0..4
      OBVIOUS
    <3>2. /\ r \in ProposalCall /\ r.at = "check" /\ r.p = n /\ r.version = 1
          /\ r.todo = q.todo
      BY <1>1, <2>2, <3>1 DEF ProposalCall
    <3>. HIDE DEF r
    <3>3. r.op = "proposal" /\ "op" \in DOMAIN r
      BY <3>2 DEF ProposalCall
    <3>. QED BY <3>2, <3>3
  <2>. HIDE DEF r
  <2>4. Named(r)
    BY <1>1, <2>2, <2>3 DEF Named
  <2>. QED BY <1>1, <2>1, <2>3, <2>4, CallKeeps
<1>. QED BY <1>2, <1>3

(* The check of the state is one of the row as it is.                      *)
LEMMA CheckKeeps ==
    ASSUME ProposalInv, NEW c \in Callers, CheckTransition(c) PROVE ProposalInv'
<1>. DEFINE q == call[c]
            r == [q EXCEPT !.at = "write"]
<1>1. /\ Named(q) /\ q \in ProposalCall /\ q.todo \in Todos /\ q.at = "check"
      /\ q.op = "proposal" /\ UNCHANGED talk
  BY DEF CheckTransition, Pending, ProposalInv, Named, talk
<1>2. CASE Ends(c)
  <2>1. "op" \in DOMAIN Idle /\ Idle.op # "proposal" /\ call' = [call EXCEPT ![c] = Idle]
    BY <1>2 DEF Idle, Ends
  <2>. QED BY <1>1, <2>1, CallKeeps
<1>3. CASE ~Ends(c)
  <2>1. call' = [call EXCEPT ![c] = r] /\ Head(q.todo) \in allowed[proposals[q.p].state]
    BY <1>3 DEF CheckTransition
  <2>. HIDE DEF q
  <2>3. /\ r \in ProposalCall /\ r.at = "write" /\ r.p = q.p /\ r.version = q.version
        /\ r.todo = q.todo /\ r.op = "proposal" /\ "op" \in DOMAIN r
    BY <1>1 DEF ProposalCall
  <2>. HIDE DEF r
  <2>4. Named(r)
    BY <1>1, <2>1, <2>3 DEF Named
  <2>. QED BY <1>1, <2>1, <2>3, <2>4, CallKeeps
<1>. QED BY <1>2, <1>3

(* A state that may be taken is one version on.                            *)
LEMMA AllowedIs ==
    ASSUME NEW row \in Proposal, Consistent(row), NEW to \in allowed[row.state]
    PROVE  /\ to \in ProposalState /\ VersionOf[to] = row.version + 1
           /\ row.version + 1 \in 1..4
           /\ (row.approved \/ to = "approved") <=> to \in {"approved", "handed_off"}
<1>1. row.state \in ProposalState /\ row.version = VersionOf[row.state]
  BY DEF Proposal, Consistent
<1>2. row.approved <=> row.state \in {"approved", "handed_off"}
  BY DEF Consistent
<1>3. CASE row.state = "draft"
  BY <1>1, <1>2, <1>3 DEF allowed, VersionOf, ProposalState
<1>4. CASE row.state = "owner_review"
  BY <1>1, <1>2, <1>4 DEF allowed, VersionOf, ProposalState
<1>5. CASE row.state = "approved"
  BY <1>1, <1>2, <1>5 DEF allowed, VersionOf, ProposalState
<1>6. CASE row.state \in {"rejected", "handed_off"}
  BY <1>6 DEF allowed
<1>. QED BY <1>1, <1>3, <1>4, <1>5, <1>6 DEF ProposalState

(* The update that moves a row on takes it one version on, and out of the  *)
(* reach of everybody who named the version before.                        *)
LEMMA MoveKeeps ==
    ASSUME ProposalInv, NEW c \in Callers, Pending(c, "write"), UNCHANGED <<said, intents>>,
           proposals[call[c].p].version = call[c].version, Moved(c)
    PROVE  ProposalInv'
<1>. DEFINE q == call[c]
            n == q.p
            to == Head(q.todo)
            old == proposals[n]
            row == [old EXCEPT !.state = to, !.version = @ + 1,
                               !.approved = @ \/ to = "approved"]
<1>1. /\ Named(q) /\ q \in ProposalCall /\ q.todo \in Todos /\ q.at = "write"
      /\ q.op = "proposal" /\ n \in DOMAIN proposals /\ q.version = old.version
      /\ to \in allowed[old.state]
  BY DEF Pending, ProposalInv, Named
<1>2. /\ proposals \in Seq(Proposal) /\ old \in Proposal /\ Consistent(old)
      /\ DOMAIN proposals = 1..Len(proposals) /\ n \in Nat
  BY <1>1, LenProperties, ElementOfSeq DEF ProposalInv
<1>3. proposals' = [proposals EXCEPT ![n] = row]
  BY DEF Moved
<1>4. /\ to \in ProposalState /\ VersionOf[to] = old.version + 1 /\ old.version + 1 \in 1..4
      /\ (old.approved \/ to = "approved") <=> to \in {"approved", "handed_off"}
  BY <1>1, <1>2, AllowedIs
<1>5. \/ Ends(c)
      \/ /\ Len(q.todo) # 1
         /\ call' = [call EXCEPT ![c].at = "check", ![c].todo = Tail(@),
                                 ![c].version = proposals'[n].version]
  <2>1. CASE Len(q.todo) = 1
    BY <2>1 DEF Moved
  <2>2. CASE Len(q.todo) # 1
    BY <2>2, Zenon DEF Moved
  <2>. QED BY <2>1, <2>2
<1>. HIDE DEF old, n, to
<1>6. /\ row \in Proposal /\ row.state = to /\ row.version = old.version + 1
      /\ row.approved = (old.approved \/ to = "approved")
  <2>1. (old.approved \/ to = "approved") \in BOOLEAN
    BY <1>2 DEF Proposal
  <2>. QED BY <1>2, <1>4, <2>1 DEF Proposal
<1>. HIDE DEF row
<1>7. Consistent(row)
  BY <1>4, <1>6 DEF Consistent
<1>8. /\ proposals' \in Seq(Proposal) /\ DOMAIN proposals' = DOMAIN proposals
      /\ proposals'[n] = row /\ \A p \in DOMAIN proposals \ {n} : proposals'[p] = proposals[p]
  BY <1>1, <1>2, <1>3, <1>6, ExceptSeq
<1>9. \A p \in DOMAIN proposals' : Consistent(proposals[p])'
  BY <1>7, <1>8 DEF ProposalInv, Consistent
<1>10. PICK r : /\ call' = [call EXCEPT ![c] = r] /\ "op" \in DOMAIN r
                /\ r.op = "proposal" =>
                      /\ r \in ProposalCall /\ r.todo \in Todos /\ r.at = "check"
                      /\ r.p = n /\ r.version = row.version
  <2>1. CASE Ends(c)
    <3>1. "op" \in DOMAIN Idle /\ Idle.op # "proposal" /\ call' = [call EXCEPT ![c] = Idle]
      BY <2>1 DEF Idle, Ends
    <3>. QED BY <3>1
  <2>2. CASE ~Ends(c)
    <3>. DEFINE r == [q EXCEPT !.at = "check", !.todo = Tail(@), !.version = row.version]
    <3>1. call' = [call EXCEPT ![c] = r]
      BY <1>5, <1>8, <2>2
    <3>2. Tail(q.todo) \in Todos /\ Tail(q.todo) \in Seq(ProposalState)
      BY <1>1, <1>5, <2>2, TodoIs
    <3>3. row.version \in 0..4 /\ "check" \in {"create", "check", "write"}
      BY <1>4, <1>6
    <3>4. n = q.p
      BY DEF n
    <3>. HIDE DEF q
    <3>5. /\ r \in ProposalCall /\ r.at = "check" /\ r.p = n /\ r.version = row.version
          /\ r.todo = Tail(q.todo)
      BY <1>1, <3>2, <3>3, <3>4 DEF ProposalCall
    <3>. HIDE DEF r
    <3>6. "op" \in DOMAIN r
      BY <3>5 DEF ProposalCall
    <3>. QED BY <3>1, <3>2, <3>5, <3>6
  <2>. QED BY <2>1, <2>2
<1>11. /\ call'[c] = r /\ \A d \in Callers \ {c} : call'[d] = call[d]
       /\ DOMAIN call' = Callers /\ call' = [d \in Callers |-> call'[d]]
  BY <1>10, CallPut
<1>12. call'[c].op = "proposal" => Named(call[c])'
  <2>1. row.version \in Nat
    BY <1>6 DEF Proposal
  <2>. QED BY <1>1, <1>8, <1>10, <1>11, <2>1 DEF Named
<1>13. ASSUME NEW d \in Callers \ {c}, call[d].op = "proposal" PROVE Named(call[d])'
  <2>. DEFINE s == call[d]
  <2>1. Named(s) /\ s \in ProposalCall /\ s.version \in Nat /\ call'[d] = s
    BY <1>11, <1>13 DEF ProposalInv, Named, ProposalCall
  <2>2. CASE s.p # n
    BY <1>8, <2>1, <2>2 DEF Named
  <2>3. CASE s.p = n
    <3>1. old = proposals[n] /\ old.version \in Nat /\ row.version = old.version + 1
      BY <1>2, <1>6 DEF old, Proposal
    <3>2. s.at \in {"check", "write"} => s.version <= old.version
      BY <2>1, <2>3, <3>1 DEF Named
    <3>3. s.at \in {"check", "write"} => s.version <= row.version /\ s.version # row.version
      BY <2>1, <3>1, <3>2
    <3>. QED BY <1>1, <1>8, <2>1, <2>3, <3>3 DEF Named
  <2>. QED BY <2>2, <2>3
<1>14. \A d \in Callers : call'[d].op = "proposal" => Named(call[d])'
  BY <1>11, <1>12, <1>13
<1>. QED BY <1>8, <1>9, <1>10, <1>11, <1>14 DEF ProposalInv

(* Every step on the proposals keeps their invariant.                      *)
LEMMA ProposalsStep == ProposalInv /\ [ProposalNext]_<<talk, call>> => ProposalInv'
<1>. SUFFICES ASSUME ProposalInv, [ProposalNext]_<<talk, call>> PROVE ProposalInv'
  OBVIOUS
<1>1. CASE UNCHANGED <<talk, call>>
  BY <1>1 DEF talk, ProposalInv, Named, Consistent
<1>2. CASE appendMessage
  <2>1. UNCHANGED <<proposals, intents, call>> /\ said' \in 0..MaxMessages
    BY <1>2, ProposalAssumption DEF appendMessage, ProposalInv
  <2>. QED BY <2>1 DEF ProposalInv, Named, Consistent
<1>3. ASSUME NEW c \in Callers, NEW r, Serve(c, r), UNCHANGED talk,
             "op" \in DOMAIN r, r.op = "proposal" => Named(r)
      PROVE  ProposalInv'
  BY <1>3, CallKeeps DEF Serve
<1>4. ASSUME NEW c \in Callers, createProposal(c) \/ \E k \in Keys : draftProposal(c, k)
      PROVE  ProposalInv'
  <2>1. said \in 0..MaxMessages /\ 0 \in 0..MaxMessages
    BY ProposalAssumption DEF ProposalInv
  <2>. QED BY <1>3, <1>4, <2>1, RequestIs DEF createProposal, draftProposal, talk
<1>5. ASSUME NEW c \in Callers, NEW p \in DOMAIN proposals,
             NEW v \in 1..proposals[p].version,
             approveProposal(c, p, v) \/ rejectProposal(c, p, v)
      PROVE  ProposalInv'
  <2>1. <<"approved", "handed_off">> \in Todos /\ <<"rejected">> \in Todos
    BY DEF Todos
  <2>. QED BY <1>3, <1>5, <2>1, DecisionIs DEF approveProposal, rejectProposal, talk
<1>6. ASSUME NEW c \in Callers, UpdateProposal(c) PROVE ProposalInv'
  <2>1. CASE proposals[call[c].p].version = call[c].version
    BY <1>6, <2>1, MoveKeeps DEF UpdateProposal
  <2>2. CASE proposals[call[c].p].version # call[c].version
    <3>1. Ends(c) /\ UNCHANGED talk
      BY <1>6, <2>2 DEF UpdateProposal, talk
    <3>2. "op" \in DOMAIN Idle /\ Idle.op # "proposal" /\ call' = [call EXCEPT ![c] = Idle]
      BY <3>1 DEF Idle, Ends
    <3>. QED BY <3>1, <3>2, CallKeeps
  <2>. QED BY <2>1, <2>2
<1>. QED
  BY <1>1, <1>2, <1>4, <1>5, <1>6, InsertKeeps, ReplayKeeps, CheckKeeps DEF ProposalNext

(* At the start nobody has said anything.                                  *)
LEMMA InitProposalInv == Init => ProposalInv
  BY ProposalAssumption, EmptySeq DEF Init, ProposalInit, ProposalInv, Idle

(* The invariant of the proposals, in every state the line reaches.        *)
LEMMA ProposalInvariant == Spec => []ProposalInv
<1>1. ProposalInv /\ [Next]_vars => ProposalInv'
  <2>. SUFFICES ASSUME ProposalInv, [Next]_vars PROVE ProposalInv'
    OBVIOUS
  <2>1. CASE ProposalStep \/ UNCHANGED vars
    BY <2>1, ProposalsStep DEF ProposalStep, vars
  <2>2. ASSUME NEW c \in Callers, LineStep(c) PROVE ProposalInv'
    BY <2>2, LineKeepsProposals
  <2>. QED BY <2>1, <2>2 DEF Next, LineStep
<1>. QED BY <1>1, InitProposalInv, PTL DEF Spec

(* Whatever requests, retries and old pages meet on it, a proposal takes   *)
(* one of its two paths: its version tells how far it is, and it bears an  *)
(* approval just while it is approved or handed off.                       *)
THEOREM ProposalsDecidedOnce == Spec => []DecidedOnce
<1>1. ProposalInv => DecidedOnce
  BY DEF ProposalInv, DecidedOnce, ProposalTypeOK, Consistent, Named
<1>. QED BY <1>1, ProposalInvariant, PTL

-----------------------------------------------------------------------------
(* The project, the line of its events, and what a request that is under   *)
(* way found in the state and may rely on.                                 *)

HandedOff(p) == p \in DOMAIN proposals /\ proposals[p].state = "handed_off"
Generable(v) == v \in DOMAIN blueprints /\ blueprints[v].node

EventKey == {"command", "translation", "provisioned", "development", "exported"} \X Nat
Event == [key : EventKey, to : ProjectState, version : Nat]

Derived == Cardinality(DOMAIN blueprints \ {0})

BlueprintsInv ==
    /\ Derived \in Nat /\ DOMAIN blueprints \ {0} = 1..Derived
    /\ \A v \in DOMAIN blueprints :
          /\ blueprints[v] \in Document
          /\ blueprints[v].of # 0 => HandedOff(blueprints[v].of)

(* The line is followed to `development`: no caller can take it further.   *)
EventsInv ==
    /\ events \in Seq(Event) /\ Len(events) <= 3
    /\ \A i \in 1..Len(events) :
          /\ events[i].to = ORDER[i + 1]
          /\ events[i].key = <<"provisioned", 0>> <=> events[i].to = "provisioned"
          /\ i > 1 => events[i - 1].version < events[i].version
          /\ events[i].version <= project.version

ProjectInv ==
    IF project = NoProject
    THEN /\ events = <<>> /\ proposals = <<>> /\ translations = <<>> /\ generations = <<>>
    ELSE /\ project \in Project /\ project.blueprint \in DOMAIN blueprints
         /\ EventsInv
         /\ project.state = ORDER[Len(events) + 1]

TasksInv ==
    /\ translations \in Seq(Translation) /\ generations \in Seq(Generation)
    /\ \A t \in DOMAIN translations :
          /\ HandedOff(translations[t].p)
          /\ translations[t].state = "queued" => translations[t].attempt < MaxAttempts
    /\ \A t \in DOMAIN generations :
          Generable(generations[t].blueprint) /\ Len(events) >= 2

Owner == {"project", "conversation"}
Worker == {"translate", "derive", "generate", "develop", "export"}
Steps == {"publish", "create", "transition", "queue", "specify", "ask", "attach",
          "done", "advance", "files", "install", "task"}
LineCall == [op : Owner \cup Worker, at : Steps, v : Nat, t : Nat, p : Nat,
             version : Nat, document : Document]

Fits(r) ==
    /\ r \in LineCall
    /\ r.op \in Owner => r.document.of = 0 /\ (r.at = "create" => 0 \in DOMAIN blueprints)
    /\ r.op \in Worker \/ r.at = "transition" => project # NoProject
    /\ r.op = "translate" => HandedOff(r.p)
    /\ r.op = "derive" \/ (r.op = "translate" /\ r.at = "specify") => r.t \in DOMAIN translations
    /\ r.op = "generate" =>
          /\ Generable(r.v)
          /\ r.at \in {"task", "specify"} => Len(events) >= 2
          /\ r.at = "specify" => r.t \in DOMAIN generations

CallsInv == \A c \in Callers : call[c].op \notin {"none", "proposal"} => Fits(call[c])

(* A translation has won when it succeeded, or is about to.                *)
Winner(t) ==
    \/ t \in DOMAIN translations /\ translations[t].state = "succeeded"
    \/ \E c \in Callers : At(c, "derive", "done") /\ call[c].t = t

WinInv ==
    \A s, t \in Nat : Winner(s) /\ Winner(t) => s = t /\ Len(events) >= 1

LineInv == CallsInv /\ TasksInv /\ BlueprintsInv /\ ProjectInv /\ WinInv

(* What no step takes back.                                                *)
Grows ==
    /\ project # NoProject => project' # NoProject
    /\ DOMAIN blueprints \subseteq DOMAIN blueprints'
    /\ \A v : Generable(v) => v \in DOMAIN blueprints' /\ blueprints'[v].node
    /\ Len(events) \in Nat /\ Len(events') \in Nat /\ Len(events) <= Len(events')
    /\ \A p : HandedOff(p) => p \in DOMAIN proposals' /\ proposals'[p].state = "handed_off"
    /\ DOMAIN translations \subseteq DOMAIN translations'
    /\ DOMAIN generations \subseteq DOMAIN generations'

(* A request that fits goes on to fit.                                     *)
LEMMA Onward == ASSUME Grows, NEW r, Fits(r) PROVE Fits(r)'
<1>1. Len(events) >= 2 => Len(events)' >= 2
  <2>. PICK m \in Nat, n \in Nat : m = Len(events) /\ n = Len(events')
    BY DEF Grows
  <2>. QED BY DEF Grows
<1>2. HandedOff(r.p) => HandedOff(r.p)'
  BY DEF Grows, HandedOff
<1>3. Generable(r.v) => Generable(r.v)'
  BY DEF Grows, Generable
<1>. QED BY <1>1, <1>2, <1>3 DEF Grows, Fits

(* The requests stay in order, if the one that moves is.                   *)
LEMMA CallsOn ==
    ASSUME ProposalInv, LineInv, Grows, NEW c \in Callers, NEW r,
           call' = [call EXCEPT ![c] = r], r = Idle \/ Fits(r)'
    PROVE  CallsInv'
<1>1. call'[c] = r /\ \A d \in Callers \ {c} : call'[d] = call[d]
  BY CallPut
<1>2. \A d \in Callers \ {c} : call[d].op \notin {"none", "proposal"} => Fits(call[d])'
  <2>. SUFFICES ASSUME NEW d \in Callers \ {c}, call[d].op \notin {"none", "proposal"}
                PROVE  Fits(call[d])'
    OBVIOUS
  <2>1. Fits(call[d])
    BY DEF LineInv, CallsInv
  <2>. DEFINE q == call[d]
  <2>2. q = call'[d] /\ Fits(q)
    BY <1>1, <2>1
  <2>. QED BY <2>2, Onward DEF Fits
<1>3. r = Idle \/ Fits(call[c])'
  BY <1>1 DEF Fits
<1>. QED BY <1>1, <1>2, <1>3 DEF CallsInv, Idle

(* No two states of the order are the same.                                *)
LEMMA Ranks ==
    /\ Len(ORDER) = 11 /\ DOMAIN ORDER = 1..11
    /\ \A i \in 1..11 : ORDER[i] \in ProjectState
    /\ \A i, j \in 1..11 : ORDER[i] = ORDER[j] => i = j
    /\ ORDER[1] = "idea" /\ ORDER[2] = "blueprint" /\ ORDER[3] = "provisioned"
    /\ ORDER[4] = "development"
<1>1. Len(ORDER) = 11 /\ DOMAIN ORDER = 1..11
  BY DEF ORDER
<1>2. \A i \in 1..11 : ORDER[i] \in ProjectState
  BY DEF ORDER, ProjectState
<1>3. \A i, j \in 1..11 : ORDER[i] = ORDER[j] => i = j
  BY DEF ORDER
<1>. QED BY <1>1, <1>2, <1>3 DEF ORDER

(* The rank of a state is its place in the order.                          *)
LEMMA RankIs == ASSUME NEW i \in 1..11 PROVE Rank(ORDER[i]) = i
<1>1. \A j \in DOMAIN ORDER : ORDER[j] = ORDER[i] <=> j = i
  BY Ranks
<1>2. i \in DOMAIN ORDER
  BY Ranks
<1>. QED BY <1>1, <1>2 DEF Rank

(* A project is provisioned when its second event is on record.            *)
LEMMA ProvisionedIs ==
    ASSUME ProjectInv, project # NoProject
    PROVE  /\ Reached("provisioned") <=> Len(events) >= 2
           /\ Recorded(<<"provisioned", 0>>) <=> Len(events) >= 2
           /\ project.state = "idea" <=> events = <<>>
<1>0. /\ EventsInv /\ events \in Seq(Event) /\ Len(events) \in Nat /\ Len(events) <= 3
      /\ DOMAIN events = 1..Len(events) /\ project.state = ORDER[Len(events) + 1]
  <2>1. EventsInv /\ events \in Seq(Event) /\ project.state = ORDER[Len(events) + 1]
    BY DEF ProjectInv, EventsInv
  <2>. QED BY <2>1, LenProperties DEF EventsInv
<1>n. PICK n \in Nat : n = Len(events)
  BY <1>0
<1>o. n <= 3 /\ n + 1 \in 1..11 /\ project.state = ORDER[n + 1]
  BY <1>0, <1>n
<1>1. Rank(project.state) = n + 1 /\ Rank("provisioned") = 3
  <2>2. Rank(ORDER[3]) = 3
    BY RankIs
  <2>. QED BY <1>o, <2>2, RankIs, Ranks
<1>2. Reached("provisioned") <=> Len(events) >= 2
  BY <1>n, <1>o, <1>1 DEF Reached
<1>3. Recorded(<<"provisioned", 0>>) <=> Len(events) >= 2
  <2>1. ASSUME NEW i \in DOMAIN events, events[i].key = <<"provisioned", 0>>
        PROVE  Len(events) >= 2
    <3>1. i \in 1..Len(events) /\ ORDER[i + 1] = ORDER[3] /\ i + 1 \in 1..11
      BY <1>0, <2>1, Ranks DEF EventsInv
    <3>2. i + 1 = 3
      BY <3>1, Ranks
    <3>. QED BY <1>0, <3>1, <3>2
  <2>2. ASSUME Len(events) >= 2 PROVE events[2].key = <<"provisioned", 0>> /\ 2 \in DOMAIN events
    <3>1. 2 \in 1..Len(events)
      BY <1>0, <2>2
    <3>2. events[2].to = ORDER[2 + 1]
      BY <1>0, <3>1 DEF EventsInv
    <3>3. ORDER[2 + 1] = "provisioned"
      BY Ranks
    <3>. QED BY <1>0, <3>1, <3>2, <3>3 DEF EventsInv
  <2>. QED BY <2>1, <2>2 DEF Recorded
<1>4. project.state = "idea" <=> events = <<>>
  <2>1. project.state = "idea" <=> n + 1 = 1
    BY <1>o, Ranks
  <2>. QED BY <1>0, <1>n, <2>1, EmptySeq
<1>. QED BY <1>2, <1>3, <1>4

(* The length of the line.                                                 *)
LEMMA EventsLen ==
    ASSUME LineInv
    PROVE  events \in Seq(Event) /\ Len(events) \in Nat /\ Len(events) <= 3
<1>1. CASE project = NoProject
  BY <1>1, EmptySeq DEF LineInv, ProjectInv
<1>2. CASE project # NoProject
  BY <1>2, LenProperties DEF LineInv, ProjectInv, EventsInv
<1>. QED BY <1>1, <1>2

(* Nobody wins but a translation that takes its project to `blueprint`.    *)
LEMMA WinOn ==
    ASSUME ProposalInv, LineInv, Grows, NEW c \in Callers, NEW r,
           call' = [call EXCEPT ![c] = r], r = Idle \/ r.at # "done",
           \A t \in DOMAIN translations' : translations'[t].state = "succeeded" => Winner(t)
    PROVE  WinInv'
<1>1. call'[c] = r /\ \A d \in Callers \ {c} : call'[d] = call[d]
  BY CallPut
<1>2. \A t \in Nat : Winner(t)' => Winner(t)
  BY <1>1 DEF Winner, At, Idle
<1>3. Len(events) >= 1 => Len(events') >= 1
  <2>. PICK m \in Nat, n \in Nat : m = Len(events) /\ n = Len(events')
    BY DEF Grows
  <2>. QED BY DEF Grows
<1>. QED BY <1>2, <1>3 DEF LineInv, WinInv

(* A step of a request that changes nothing else.                          *)
LEMMA CallStep ==
    ASSUME ProposalInv, LineInv, NEW c \in Callers, NEW r,
           call' = [call EXCEPT ![c] = r], UNCHANGED <<talk, factory, tasks>>,
           r = Idle \/ (Fits(r) /\ r.at # "done")
    PROVE  LineInv'
<1>. USE DEF talk, factory, tasks
<1>1. Grows
  BY EventsLen DEF Grows, Generable, HandedOff
<1>2. CallsInv' /\ WinInv'
  BY <1>1, CallsOn, WinOn, Onward DEF Winner
<1>3. TasksInv' /\ BlueprintsInv' /\ ProjectInv'
  BY DEF LineInv, TasksInv, BlueprintsInv, ProjectInv, EventsInv, HandedOff, Generable, Derived
<1>. QED BY <1>2, <1>3 DEF LineInv

(* One version more, the next one of those that were derived.              *)
LEMMA Publishes ==
    ASSUME ProposalInv, LineInv, NEW c \in Callers, NEW r,
           call' = [call EXCEPT ![c] = r], r = Idle \/ (Fits(r)' /\ r.at # "done"),
           NEW v \in {0, Derived + 1}, NEW document \in Document, Publishable(v, document),
           document.of # 0 => HandedOff(document.of),
           publishBlueprint(v, document), UNCHANGED <<talk, project, events, tasks>>
    PROVE  LineInv'
<1>. USE DEF talk, tasks
<1>1. /\ DOMAIN blueprints' = DOMAIN blueprints \cup {v} /\ blueprints'[v] = document
      /\ \A u \in DOMAIN blueprints : blueprints'[u] = blueprints[u]
  BY DEF publishBlueprint, Publishable
<1>2. Grows
  BY <1>1, EventsLen DEF Grows, Generable, HandedOff
<1>3. CallsInv' /\ WinInv'
  BY <1>2, CallsOn, WinOn DEF Winner
<1>4. TasksInv'
  BY <1>1 DEF LineInv, TasksInv, HandedOff, Generable
<1>5. ProjectInv'
  BY <1>1 DEF LineInv, ProjectInv, EventsInv
<1>6. \A u \in DOMAIN blueprints' :
          blueprints'[u] \in Document
          /\ (blueprints'[u].of # 0 => HandedOff(blueprints'[u].of))
  BY <1>1 DEF LineInv, BlueprintsInv
<1>7. Derived' \in Nat /\ DOMAIN blueprints' \ {0} = 1..Derived'
  <2>1. CASE v = 0
    <3>1. DOMAIN blueprints' \ {0} = DOMAIN blueprints \ {0}
      BY <1>1, <2>1
    <3>. QED BY <3>1 DEF LineInv, BlueprintsInv, Derived
  <2>2. CASE v = Derived + 1
    <3>. PICK n \in Nat : n = Derived
      BY DEF LineInv, BlueprintsInv
    <3>1. DOMAIN blueprints \ {0} = 1..n /\ v = n + 1
      BY <2>2 DEF LineInv, BlueprintsInv
    <3>2. DOMAIN blueprints' \ {0} = 1..(n + 1)
      BY <1>1, <3>1
    <3>3. Cardinality(1..(n + 1)) = n + 1
      BY FS_Interval
    <3>4. Derived' = n + 1
      BY <3>2, <3>3 DEF Derived
    <3>. QED BY <3>2, <3>4
  <2>. QED BY <2>1, <2>2
<1>. QED BY <1>3, <1>4, <1>5, <1>6, <1>7 DEF LineInv, BlueprintsInv, HandedOff

(* The project's row, or the one that is there.                            *)
LEMMA Creates ==
    ASSUME ProposalInv, LineInv, NEW c \in Callers, NEW r,
           call' = [call EXCEPT ![c] = r], r = Idle \/ (Fits(r)' /\ r.at # "done"),
           0 \in DOMAIN blueprints, createProject(0),
           UNCHANGED <<talk, blueprints, events, tasks>>
    PROVE  LineInv'
<1>. USE DEF talk, tasks
<1>1. Grows
  BY EventsLen DEF Grows, Generable, HandedOff, createProject
<1>2. CallsInv' /\ WinInv'
  BY <1>1, CallsOn, WinOn DEF Winner
<1>3. TasksInv' /\ BlueprintsInv'
  BY DEF LineInv, TasksInv, BlueprintsInv, HandedOff, Generable, Derived
<1>4. ProjectInv'
  <2>1. CASE project # NoProject
    BY <2>1 DEF LineInv, ProjectInv, EventsInv, createProject
  <2>2. CASE project = NoProject
    <3>. DEFINE row == [state |-> "idea", version |-> 0, blueprint |-> 0]
    <3>1. project' = row /\ row \in Project /\ row # NoProject
      BY <2>2 DEF createProject, Project, ProjectState, NoProject
    <3>2. events' = <<>> /\ Len(events') = 0 /\ events' \in Seq(Event)
      BY <2>2, EmptySeq DEF LineInv, ProjectInv
    <3>3. EventsInv'
      BY <3>2 DEF EventsInv
    <3>. QED BY <3>1, <3>2, <3>3, Ranks DEF ProjectInv
  <2>. QED BY <2>1, <2>2
<1>. QED BY <1>2, <1>3, <1>4 DEF LineInv

(* The only step the line has on from where it is.                         *)
LEMMA NextOnTheLine ==
    ASSUME NEW n \in 0..3, NEW to \in {"blueprint", "provisioned", "development", "exported"},
           to \in nextStates[ORDER[n + 1]] \ approvalStates
    PROVE  n <= 2 /\ to = ORDER[n + 2]
<1>1. CASE n = 0
  BY <1>1 DEF ORDER, nextStates, approvalStates
<1>2. CASE n = 1
  BY <1>2 DEF ORDER, nextStates, approvalStates
<1>3. CASE n = 2
  BY <1>3 DEF ORDER, nextStates, approvalStates
<1>4. CASE n = 3
  BY <1>4 DEF ORDER, nextStates, approvalStates
<1>. QED BY <1>1, <1>2, <1>3, <1>4

(* An event on record.                                                     *)
LEMMA EventIs ==
    ASSUME LineInv, NEW i \in 1..Len(events)
    PROVE  events[i] \in Event /\ events[i].version \in Nat
<1>1. events[i] \in Event
  BY EventsLen, ElementOfSeq
<1>. QED BY <1>1 DEF Event

(* A transition is the next event of the line.                             *)
LEMMA Transitions ==
    ASSUME ProposalInv, LineInv, project # NoProject, NEW key \in EventKey, NEW expected,
           NEW to \in {"blueprint", "provisioned", "development", "exported"},
           key = <<"provisioned", 0>> <=> to = "provisioned",
           Allowed(expected, to), transition(key, to), UNCHANGED <<talk, blueprints, tasks>>
    PROVE  /\ Grows /\ ProjectInv' /\ TasksInv' /\ BlueprintsInv'
           /\ Len(events') = Len(events) + 1 /\ to = ORDER[Len(events) + 2]
<1>. USE DEF talk, tasks
<1>1. /\ EventsInv /\ project \in Project /\ project.blueprint \in DOMAIN blueprints
      /\ project.state = ORDER[Len(events) + 1]
  BY DEF LineInv, ProjectInv
<1>. PICK n \in Nat : n = Len(events)
  BY EventsLen
<1>. PICK m \in Nat : m = project.version
  BY <1>1 DEF Project
<1>2. n <= 2 /\ to = ORDER[n + 2]
  <2>1. n \in 0..3 /\ to \in nextStates[ORDER[n + 1]] \ approvalStates
    BY <1>1, EventsLen DEF Allowed
  <2>. QED BY <2>1, NextOnTheLine
<1>. DEFINE e == [key |-> key, to |-> to, version |-> m + 1]
<1>3. e \in Event /\ to \in ProjectState
  BY DEF Event, ProjectState
<1>4. /\ events' = Append(events, e)
      /\ project' = [project EXCEPT !.state = to, !.version = m + 1]
  BY DEF transition
<1>5. /\ events' \in Seq(Event) /\ Len(events') = n + 1 /\ events'[n + 1] = e
      /\ \A i \in 1..n : events'[i] = events[i]
  <2>. HIDE DEF e
  <2>. QED BY <1>3, <1>4, EventsLen, AppendProperties
<1>6. /\ project' \in Project /\ project'.state = to /\ project'.version = m + 1
      /\ project'.blueprint = project.blueprint
  <2>1. m + 1 \in Nat
    OBVIOUS
  <2>. PICK k \in Nat : k = m + 1
    BY <2>1
  <2>2. project' = [project EXCEPT !.state = to, !.version = k]
    BY <1>4
  <2>3. project' \in Project /\ project'.state = to /\ project'.version = k
        /\ project'.blueprint = project.blueprint
    BY <1>1, <1>3, <2>2 DEF Project
  <2>. QED BY <2>3
<1>7. project' # NoProject
  BY <1>3, <1>6 DEF NoProject, ProjectState
<1>8. EventsInv'
  <2>1. ASSUME NEW i \in 1..n
        PROVE  /\ events'[i].to = ORDER[i + 1]
               /\ events'[i].key = <<"provisioned", 0>> <=> events'[i].to = "provisioned"
               /\ i > 1 => events'[i - 1].version < events'[i].version
               /\ events'[i].version <= m + 1
    <3>1. /\ events[i].to = ORDER[i + 1]
          /\ events[i].key = <<"provisioned", 0>> <=> events[i].to = "provisioned"
          /\ i > 1 => events[i - 1].version < events[i].version
          /\ events[i].version <= m
      BY <1>1 DEF EventsInv
    <3>2. events[i] \in Event /\ events[i].version \in Nat
      BY EventIs
    <3>3. i > 1 => events'[i - 1] = events[i - 1]
      BY <1>5
    <3>. QED BY <1>5, <3>1, <3>2, <3>3
  <2>2. e.to = ORDER[n + 1 + 1] /\ (e.key = <<"provisioned", 0>> <=> e.to = "provisioned")
    BY <1>2
  <2>3. n + 1 > 1 => events'[n].version < e.version
    <3>. SUFFICES ASSUME n >= 1 PROVE events[n].version < m + 1
      BY <1>5
    <3>1. events[n].version <= m /\ events[n].version \in Nat
      BY <1>1, EventIs DEF EventsInv
    <3>. QED BY <3>1
  <2>4. e.version <= m + 1
    OBVIOUS
  <2>. HIDE DEF e
  <2>. QED BY <1>2, <1>5, <1>6, <2>1, <2>2, <2>3, <2>4 DEF EventsInv
<1>9. Grows
  BY <1>5, <1>7, EventsLen DEF Grows, Generable, HandedOff
<1>10. ProjectInv'
  BY <1>1, <1>2, <1>5, <1>6, <1>7, <1>8 DEF ProjectInv
<1>11. TasksInv' /\ BlueprintsInv'
  <2>1. n >= 2 => n + 1 >= 2
    OBVIOUS
  <2>2. Len(events) >= 2 => Len(events') >= 2
    BY <1>5, <2>1
  <2>3. TasksInv'
    BY <2>2 DEF LineInv, TasksInv, HandedOff, Generable
  <2>. QED BY <2>3 DEF LineInv, BlueprintsInv, HandedOff, Derived
<1>. QED BY <1>2, <1>5, <1>9, <1>10, <1>11

(* Another blueprint for the project.                                      *)
LEMMA Attaches ==
    ASSUME ProposalInv, LineInv, NEW c \in Callers, NEW r,
           call' = [call EXCEPT ![c] = r], r = Idle \/ (Fits(r) /\ r.at # "done"),
           project # NoProject, NEW v \in DOMAIN blueprints, attachBlueprintVersion(v),
           UNCHANGED <<talk, blueprints, events, tasks>>
    PROVE  LineInv'
<1>. USE DEF talk, tasks
<1>1. /\ EventsInv /\ project \in Project /\ project.state = ORDER[Len(events) + 1]
  BY DEF LineInv, ProjectInv
<1>. PICK m \in Nat : m = project.version
  BY <1>1 DEF Project
<1>2. v \in Nat
  <2>. PICK n \in Nat : n = Derived
    BY DEF LineInv, BlueprintsInv
  <2>. QED BY DEF LineInv, BlueprintsInv
<1>3. /\ project' \in Project /\ project'.state = project.state /\ project'.version = m + 1
      /\ project'.blueprint = v
  <2>1. project' = [project EXCEPT !.blueprint = v, !.version = m + 1]
    BY DEF attachBlueprintVersion
  <2>2. m + 1 \in Nat
    OBVIOUS
  <2>. PICK k \in Nat : k = m + 1
    BY <2>2
  <2>3. project' = [project EXCEPT !.blueprint = v, !.version = k]
    BY <2>1
  <2>4. project' \in Project /\ project'.state = project.state /\ project'.version = k
        /\ project'.blueprint = v
    BY <1>1, <1>2, <2>3 DEF Project
  <2>. QED BY <2>4
<1>4. project' # NoProject
  BY <1>3 DEF NoProject, Project, ProjectState
<1>5. Grows
  BY <1>4, EventsLen DEF Grows, Generable, HandedOff
<1>6. EventsInv'
  <2>1. \A i \in 1..Len(events) : events[i].version \in Nat /\ events[i].version <= m
    BY <1>1, EventIs DEF EventsInv
  <2>2. \A i \in 1..Len(events) : events[i].version <= project'.version
    BY <1>3, <2>1
  <2>. QED BY <1>1, <2>2 DEF EventsInv
<1>7. CallsInv' /\ WinInv'
  BY <1>5, CallsOn, WinOn, Onward DEF Winner
<1>8. TasksInv' /\ BlueprintsInv'
  BY DEF LineInv, TasksInv, BlueprintsInv, HandedOff, Generable, Derived
<1>9. ProjectInv'
  BY <1>1, <1>3, <1>4, <1>6 DEF ProjectInv
<1>. QED BY <1>7, <1>8, <1>9 DEF LineInv

(* A translation more.                                                     *)
LEMMA QueuesTranslation ==
    ASSUME ProposalInv, LineInv, NEW c \in Callers, NEW r,
           call' = [call EXCEPT ![c] = r], r = Idle \/ (Fits(r)' /\ r.at # "done"),
           project # NoProject, NEW row \in Translation, HandedOff(row.p),
           row.state = "queued", row.attempt < MaxAttempts,
           translations' = Append(translations, row),
           UNCHANGED <<talk, factory, generations>>
    PROVE  LineInv'
<1>. USE DEF talk, factory
<1>. PICK n \in Nat : n = Len(translations)
  BY LenProperties DEF LineInv, TasksInv
<1>1. /\ translations' \in Seq(Translation) /\ translations'[n + 1] = row
      /\ DOMAIN translations = 1..n /\ DOMAIN translations' = 1..(n + 1)
      /\ \A t \in 1..n : translations'[t] = translations[t]
  <2>1. translations \in Seq(Translation)
    BY DEF LineInv, TasksInv
  <2>. QED BY <2>1, AppendProperties, LenProperties
<1>2. Grows
  BY <1>1, EventsLen DEF Grows, Generable, HandedOff
<1>3. \A t \in DOMAIN translations' : t = n + 1 \/ t \in DOMAIN translations
  BY <1>1
<1>4. CallsInv' /\ WinInv'
  BY <1>1, <1>2, <1>3, CallsOn, WinOn DEF Winner
<1>5. TasksInv'
  BY <1>1, <1>3 DEF LineInv, TasksInv, HandedOff, Generable
<1>6. BlueprintsInv' /\ ProjectInv'
  BY DEF LineInv, BlueprintsInv, ProjectInv, EventsInv, HandedOff, Derived
<1>. QED BY <1>4, <1>5, <1>6 DEF LineInv

(* A translation that goes on, or stops.                                   *)
LEMMA ChangesTranslation ==
    ASSUME ProposalInv, LineInv, NEW c \in Callers, NEW r,
           call' = [call EXCEPT ![c] = r], r = Idle \/ (Fits(r) /\ r.at # "done"),
           NEW t \in DOMAIN translations, NEW row \in Translation,
           row.p = translations[t].p, row.state = "queued" => row.attempt < MaxAttempts,
           row.state = "succeeded" => Winner(t),
           translations' = [translations EXCEPT ![t] = row],
           UNCHANGED <<talk, factory, generations>>
    PROVE  LineInv'
<1>. USE DEF talk, factory
<1>1. /\ translations' \in Seq(Translation) /\ DOMAIN translations' = DOMAIN translations
      /\ translations'[t] = row
      /\ \A u \in DOMAIN translations \ {t} : translations'[u] = translations[u]
  <2>1. translations \in Seq(Translation)
    BY DEF LineInv, TasksInv
  <2>2. t \in 1..Len(translations)
    BY <2>1, LenProperties
  <2>. QED BY <2>1, <2>2, ExceptSeq
<1>2. Grows
  BY <1>1, EventsLen DEF Grows, Generable, HandedOff
<1>3. CallsInv' /\ WinInv'
  <2>1. \A u \in DOMAIN translations' : translations'[u].state = "succeeded" => Winner(u)
    BY <1>1 DEF Winner
  <2>. QED BY <1>2, <2>1, CallsOn, WinOn, Onward
<1>4. TasksInv'
  BY <1>1 DEF LineInv, TasksInv, HandedOff, Generable
<1>5. ProjectInv'
  <2>1. project # NoProject
    <3>1. translations # <<>>
      OBVIOUS
    <3>. QED BY <3>1 DEF LineInv, ProjectInv
  <2>. QED BY <2>1 DEF LineInv, ProjectInv, EventsInv
<1>6. BlueprintsInv'
  BY DEF LineInv, BlueprintsInv, HandedOff, Derived
<1>. QED BY <1>3, <1>4, <1>5, <1>6 DEF LineInv

(* A generation more,                                                      *)
LEMMA QueuesGeneration ==
    ASSUME ProposalInv, LineInv, NEW c \in Callers, NEW r,
           call' = [call EXCEPT ![c] = r], r = Idle \/ (Fits(r)' /\ r.at # "done"),
           project # NoProject, Len(events) >= 2, NEW row \in Generation,
           Generable(row.blueprint), generations' = Append(generations, row),
           UNCHANGED <<talk, factory, translations>>
    PROVE  LineInv'
<1>. USE DEF talk, factory
<1>. PICK n \in Nat : n = Len(generations)
  BY LenProperties DEF LineInv, TasksInv
<1>1. /\ generations' \in Seq(Generation) /\ generations'[n + 1] = row
      /\ DOMAIN generations = 1..n /\ DOMAIN generations' = 1..(n + 1)
      /\ \A t \in 1..n : generations'[t] = generations[t]
  <2>1. generations \in Seq(Generation)
    BY DEF LineInv, TasksInv
  <2>. QED BY <2>1, AppendProperties, LenProperties
<1>2. Grows
  BY <1>1, EventsLen DEF Grows, Generable, HandedOff
<1>3. \A t \in DOMAIN generations' : t = n + 1 \/ t \in DOMAIN generations
  BY <1>1
<1>4. CallsInv' /\ WinInv'
  BY <1>2, CallsOn, WinOn DEF Winner
<1>5. TasksInv'
  BY <1>1, <1>3 DEF LineInv, TasksInv, HandedOff, Generable
<1>6. BlueprintsInv' /\ ProjectInv'
  BY DEF LineInv, BlueprintsInv, ProjectInv, EventsInv, HandedOff, Derived
<1>. QED BY <1>4, <1>5, <1>6 DEF LineInv

(* ... and its specification.                                              *)
LEMMA SpecifiesGeneration ==
    ASSUME ProposalInv, LineInv, NEW c \in Callers, call' = [call EXCEPT ![c] = Idle],
           NEW t \in DOMAIN generations,
           generations' = [generations EXCEPT ![t].specified = TRUE],
           UNCHANGED <<talk, factory, translations>>
    PROVE  LineInv'
<1>. USE DEF talk, factory
<1>. DEFINE old == generations[t]
            row == [old EXCEPT !.specified = TRUE]
<1>1. generations \in Seq(Generation) /\ t \in 1..Len(generations) /\ old \in Generation
  BY LenProperties, ElementOfSeq DEF LineInv, TasksInv
<1>2. generations' = [generations EXCEPT ![t] = row]
  OBVIOUS
<1>3. row \in Generation /\ row.blueprint = old.blueprint
  <2>. HIDE DEF old
  <2>. QED BY <1>1 DEF Generation
<1>. HIDE DEF row
<1>4. /\ generations' \in Seq(Generation) /\ DOMAIN generations' = DOMAIN generations
      /\ generations'[t] = row
      /\ \A u \in DOMAIN generations \ {t} : generations'[u] = generations[u]
  <2>1. generations \in Seq(Generation) /\ t \in 1..Len(generations) /\ row \in Generation
    BY <1>1, <1>3
  <2>2. /\ [generations EXCEPT ![t] = row] \in Seq(Generation)
        /\ [generations EXCEPT ![t] = row][t] = row
        /\ \A u \in (1..Len(generations)) \ {t} :
              [generations EXCEPT ![t] = row][u] = generations[u]
    BY <2>1, ExceptSeq
  <2>3. DOMAIN generations = 1..Len(generations)
    BY <2>1, LenProperties
  <2>. QED BY <1>2, <2>2, <2>3
<1>5. Grows
  BY <1>4, EventsLen DEF Grows, Generable, HandedOff
<1>6. CallsInv' /\ WinInv'
  BY <1>5, CallsOn, WinOn DEF Winner
<1>7. TasksInv'
  BY <1>3, <1>4 DEF LineInv, TasksInv, HandedOff, Generable
<1>8. ProjectInv'
  <2>1. generations # <<>>
    OBVIOUS
  <2>. QED BY <2>1 DEF LineInv, ProjectInv, EventsInv
<1>9. BlueprintsInv'
  BY DEF LineInv, BlueprintsInv, HandedOff, Derived
<1>. QED BY <1>6, <1>7, <1>8, <1>9 DEF LineInv

-----------------------------------------------------------------------------
(* What a request of the line is, and what it is after a step of it.       *)
Stepped(q, step) == [q EXCEPT !.at = step]
Tasked(q, step, t) == [q EXCEPT !.at = step, !.t = t]
Versioned(q, step, version) == [q EXCEPT !.at = step, !.version = version]
Published(q, step, v) == [q EXCEPT !.at = step, !.v = v]

Same(q, r) == r.op = q.op /\ r.p = q.p /\ r.document = q.document

(* A new request of the line.                                              *)
LEMMA LineIn ==
    ASSUME NEW op \in Owner \cup Worker, NEW at \in Steps
    PROVE  /\ Line(op, at) \in LineCall
           /\ Line(op, at).op = op /\ Line(op, at).at = at
           /\ Line(op, at).document = Placeholder
<1>1. Placeholder \in Document
  BY DEF Placeholder, Document
<1>. QED BY <1>1 DEF Line, LineCall

(* One that took a step,                                                   *)
LEMMA SteppedIs ==
    ASSUME NEW q \in LineCall, NEW step \in Steps
    PROVE  /\ Stepped(q, step) \in LineCall /\ Stepped(q, step).at = step
           /\ Same(q, Stepped(q, step))
           /\ Stepped(q, step).t = q.t /\ Stepped(q, step).v = q.v
  BY DEF LineCall, Stepped, Same

(* ... to a task of its own,                                               *)
LEMMA TaskedIs ==
    ASSUME NEW q \in LineCall, NEW step \in Steps, NEW t \in Nat
    PROVE  /\ Tasked(q, step, t) \in LineCall /\ Tasked(q, step, t).at = step
           /\ Same(q, Tasked(q, step, t))
           /\ Tasked(q, step, t).t = t /\ Tasked(q, step, t).v = q.v
  BY DEF LineCall, Tasked, Same

(* ... with the version it read,                                           *)
LEMMA VersionedIs ==
    ASSUME NEW q \in LineCall, NEW step \in Steps, NEW version \in Nat
    PROVE  /\ Versioned(q, step, version) \in LineCall /\ Versioned(q, step, version).at = step
           /\ Same(q, Versioned(q, step, version))
           /\ Versioned(q, step, version).t = q.t /\ Versioned(q, step, version).v = q.v
  BY DEF LineCall, Versioned, Same

(* ... and with a version of the blueprint it published.                   *)
LEMMA PublishedIs ==
    ASSUME NEW q \in LineCall, NEW step \in Steps, NEW v \in Nat
    PROVE  /\ Published(q, step, v) \in LineCall /\ Published(q, step, v).at = step
           /\ Same(q, Published(q, step, v))
           /\ Published(q, step, v).t = q.t /\ Published(q, step, v).v = v
  BY DEF LineCall, Published, Same

(* The request a step is one of.                                           *)
LEMMA CallFits ==
    ASSUME LineInv, NEW c \in Callers, NEW op, NEW step, At(c, op, step),
           op \notin {"none", "proposal"}
    PROVE  Fits(call[c]) /\ call[c] \in LineCall /\ call[c].op = op /\ call[c].at = step
  BY DEF LineInv, CallsInv, At, Fits

(* A request that ends with nothing changed.                               *)
LEMMA EndStep ==
    ASSUME ProposalInv, LineInv, NEW c \in Callers, Ends(c), UNCHANGED <<talk, factory, tasks>>
    PROVE  LineInv'
  BY CallStep DEF Ends

(* A transition, and what its request goes on to.                          *)
LEMMA TransitStep ==
    ASSUME ProposalInv, LineInv, project # NoProject, NEW key \in EventKey, NEW expected,
           NEW to \in {"blueprint", "provisioned", "development", "exported"},
           key = <<"provisioned", 0>> <=> to = "provisioned",
           Allowed(expected, to), transition(key, to), UNCHANGED <<talk, blueprints, tasks>>,
           NEW c \in Callers, NEW r, call' = [call EXCEPT ![c] = r],
           r = Idle \/ (Fits(r)' /\ r.at # "done")
    PROVE  LineInv'
<1>1. Grows /\ ProjectInv' /\ TasksInv' /\ BlueprintsInv'
  BY Transitions
<1>2. CallsInv' /\ WinInv'
  BY <1>1, CallsOn, WinOn DEF Winner, tasks
<1>. QED BY <1>1, <1>2 DEF LineInv

(* The commands that make a project.                                       *)
LEMMA CommandLine ==
    ASSUME ProposalInv, LineInv, NEW c \in Callers, CommandStep(c) PROVE LineInv'
<1>. USE DEF Owner, Worker, Steps
<1>1. ASSUME NEW node \in BOOLEAN, OwnerCreatesProject(c, node) PROVE LineInv'
  <2>. DEFINE q == Line("project", "publish")
              document == [node |-> node, of |-> 0]
              r == [q EXCEPT !.document = document]
  <2>1. q \in LineCall /\ q.op = "project" /\ q.at = "publish"
    BY LineIn
  <2>2. document \in Document /\ document.of = 0
    BY DEF Document
  <2>3. call' = [call EXCEPT ![c] = r] /\ UNCHANGED <<talk, factory, tasks>>
    BY <1>1 DEF OwnerCreatesProject, Serve
  <2>. HIDE DEF q, document
  <2>4. r \in LineCall /\ r.op = "project" /\ r.at = "publish" /\ r.document = document
    BY <2>1, <2>2 DEF LineCall
  <2>. HIDE DEF r
  <2>5. Fits(r)
    BY <2>2, <2>4 DEF Fits
  <2>. QED BY <2>3, <2>4, <2>5, CallStep
<1>2. CASE startConversation(c)
  <2>. DEFINE r == Line("conversation", "publish")
  <2>1. /\ r \in LineCall /\ r.op = "conversation" /\ r.at = "publish"
        /\ r.document = Placeholder
    BY LineIn
  <2>2. call' = [call EXCEPT ![c] = r] /\ UNCHANGED <<talk, factory, tasks>>
    BY <1>2 DEF startConversation, Serve
  <2>. HIDE DEF r
  <2>3. Fits(r)
    BY <2>1 DEF Fits, Placeholder
  <2>. QED BY <2>1, <2>2, <2>3, CallStep
<1>3. CASE PublishCommanded(c)
  <2>. DEFINE q == call[c]
              document == q.document
  <2>1. q \in LineCall /\ q.op \in Owner /\ q.at = "publish" /\ Fits(q)
    BY <1>3, CallFits DEF PublishCommanded
  <2>2. document \in Document /\ document.of = 0
    BY <2>1 DEF LineCall, Fits
  <2>3. CASE Publishable(0, document)
    <3>. PICK r : r = Stepped(q, "create")
      OBVIOUS
    <3>1. /\ publishBlueprint(0, document) /\ call' = [call EXCEPT ![c] = r]
          /\ UNCHANGED <<talk, project, events, tasks>>
      BY <1>3, <2>3 DEF PublishCommanded, Goto, Stepped
    <3>2. r \in LineCall /\ r.at = "create" /\ r.op \in Owner /\ r.document.of = 0
      BY <2>1, <2>2, SteppedIs DEF Same
    <3>3. 0 \in DOMAIN blueprints'
      BY <3>1 DEF publishBlueprint
    <3>4. Fits(r)'
      BY <3>2, <3>3 DEF Fits
    <3>. PICK d : d = document
      OBVIOUS
    <3>5. d \in Document /\ d.of = 0 /\ Publishable(0, d) /\ publishBlueprint(0, d)
      BY <2>2, <2>3, <3>1
    <3>. QED BY <3>1, <3>2, <3>4, <3>5, Publishes
  <2>4. CASE ~Publishable(0, document)
    BY <1>3, <2>4, EndStep DEF PublishCommanded, factory
  <2>. QED BY <2>3, <2>4
<1>4. CASE InsertProject(c)
  <2>1. createProject(0) /\ UNCHANGED <<talk, blueprints, events, tasks>>
    BY <1>4 DEF InsertProject
  <2>2. 0 \in DOMAIN blueprints
    BY <1>4, CallFits DEF InsertProject, Fits
  <2>3. project' # NoProject
    BY <2>1 DEF createProject, NoProject
  <2>4. CASE At(c, "project", "create") /\ Goto(c, "transition")
    <3>. DEFINE q == call[c]
    <3>. PICK r : r = Stepped(q, "transition")
      OBVIOUS
    <3>1. q \in LineCall /\ q.op = "project" /\ Fits(q) /\ call' = [call EXCEPT ![c] = r]
      BY <2>4, CallFits DEF Goto, Stepped
    <3>2. r \in LineCall /\ r.at = "transition" /\ r.op = "project" /\ r.document.of = 0
      BY <3>1, SteppedIs DEF Same, Fits
    <3>3. Fits(r)'
      BY <2>3, <3>2 DEF Fits
    <3>. QED BY <2>1, <2>2, <3>1, <3>2, <3>3, Creates
  <2>5. CASE Ends(c)
    BY <2>1, <2>2, <2>5, Creates DEF Ends
  <2>. QED BY <1>4, <2>4, <2>5 DEF InsertProject
<1>5. CASE TransitionCommanded(c)
  <2>. DEFINE key == <<"command", 0>>
  <2>1. project # NoProject
    BY <1>5, CallFits DEF TransitionCommanded, Fits
  <2>2. /\ key \in EventKey /\ key # <<"provisioned", 0>>
        /\ "blueprint" \in {"blueprint", "provisioned", "development", "exported"}
    BY DEF EventKey
  <2>3. UNCHANGED <<talk, blueprints, tasks>> /\ Ends(c)
    BY <1>5 DEF TransitionCommanded, Transitioned
  <2>4. CASE UNCHANGED <<project, events>>
    BY <2>3, <2>4, EndStep DEF factory
  <2>5. CASE Allowed(0, "blueprint") /\ transition(key, "blueprint")
    BY <2>1, <2>2, <2>3, <2>5, TransitStep DEF Ends
  <2>. QED BY <1>5, <2>4, <2>5 DEF TransitionCommanded, Transitioned
<1>. QED BY <1>1, <1>2, <1>3, <1>4, <1>5 DEF CommandStep

(* The fields of a translation.                                            *)
LEMMA TranslationIs ==
    ASSUME LineInv, NEW t \in DOMAIN translations
    PROVE  /\ translations[t] \in Translation /\ translations[t].p \in Nat
           /\ translations[t].version \in Nat /\ translations[t].specified \in BOOLEAN
           /\ translations[t].state \in TaskState
           /\ translations[t].attempt \in 0..MaxAttempts
           /\ HandedOff(translations[t].p) /\ project # NoProject /\ t \in Nat
<1>1. translations \in Seq(Translation) /\ t \in 1..Len(translations)
  BY LenProperties DEF LineInv, TasksInv
<1>2. translations[t] \in Translation /\ t \in Nat
  BY <1>1, LenProperties, ElementOfSeq
<1>3. translations # <<>>
  OBVIOUS
<1>. QED BY <1>2, <1>3 DEF LineInv, TasksInv, ProjectInv, Translation

(* An attempt that fails leaves its translation for another, or for good.  *)
LEMMA FailStep ==
    ASSUME ProposalInv, LineInv, NEW c \in Callers, call[c].op = "derive", Failed(call[c].t),
           Ends(c), UNCHANGED <<talk, factory, generations>>
    PROVE  LineInv'
<1>. DEFINE t == call[c].t
            old == translations[t]
            state == IF old.attempt < MaxAttempts THEN "queued" ELSE "failed"
            row == [old EXCEPT !.state = state]
<1>1. t \in DOMAIN translations
  BY DEF LineInv, CallsInv, Fits
<1>2. old \in Translation
  BY <1>1, TranslationIs
<1>3. translations' = [translations EXCEPT ![t] = row]
  BY DEF Failed
<1>4. state \in TaskState /\ (state = "queued" => old.attempt < MaxAttempts) /\ state # "succeeded"
  BY DEF TaskState
<1>. HIDE DEF state, old
<1>5. row \in Translation /\ row.state = state /\ row.p = old.p /\ row.attempt = old.attempt
  BY <1>2, <1>4 DEF Translation
<1>. HIDE DEF row
<1>6. row.p = translations[t].p
  BY <1>5 DEF old
<1>. QED BY <1>1, <1>3, <1>4, <1>5, <1>6, ChangesTranslation DEF Ends

(* The owner asks for a translation.                                       *)
LEMMA TranslateLine ==
    ASSUME ProposalInv, LineInv, NEW c \in Callers, NEW p \in DOMAIN proposals, Translate(c, p)
    PROVE  LineInv'
<1>. DEFINE q == Line("translate", "queue")
<1>. PICK version : version = project.version
  OBVIOUS
<1>. DEFINE r == [q EXCEPT !.p = p, !.version = version]
<1>1. q \in LineCall /\ q.op = "translate" /\ q.at = "queue" /\ q.document = Placeholder
  BY LineIn DEF Worker, Steps
<1>2. project # NoProject /\ version \in Nat
  BY DEF LineInv, ProjectInv, Project
<1>3. p \in Nat /\ HandedOff(p)
  BY LenProperties DEF ProposalInv, Translate, HandedOff
<1>4. call' = [call EXCEPT ![c] = r] /\ UNCHANGED <<talk, factory, tasks>>
  BY DEF Translate, Serve
<1>. HIDE DEF q
<1>5. r \in LineCall /\ r.op = "translate" /\ r.at = "queue" /\ r.p = p
  BY <1>1, <1>2, <1>3 DEF LineCall
<1>. HIDE DEF r
<1>6. Fits(r)
  BY <1>2, <1>3, <1>5 DEF Fits, Worker, Owner
<1>. QED BY <1>4, <1>5, <1>6, CallStep

(* ... its task,                                                           *)
LEMMA QueueTranslationLine ==
    ASSUME ProposalInv, LineInv, NEW c \in Callers, QueueTranslation(c) PROVE LineInv'
<1>. PICK q : q = call[c]
  OBVIOUS
<1>1. q \in LineCall /\ q.op = "translate" /\ Fits(q)
  BY CallFits DEF QueueTranslation
<1>. PICK n \in Nat : n = Len(translations)
  BY LenProperties DEF LineInv, TasksInv
<1>. PICK r : r = Tasked(q, "specify", n + 1)
  OBVIOUS
<1>. PICK row : row = [p |-> q.p, version |-> q.version, specified |-> FALSE,
                       state |-> "queued", attempt |-> 0]
  OBVIOUS
<1>2. /\ call' = [call EXCEPT ![c] = r] /\ translations' = Append(translations, row)
      /\ UNCHANGED <<talk, factory, generations>>
  BY DEF QueueTranslation, Tasked
<1>3. n + 1 \in Nat
  OBVIOUS
<1>4. r \in LineCall /\ r.at = "specify" /\ r.t = n + 1 /\ r.op = "translate" /\ r.p = q.p
  <2>1. "specify" \in Steps
    BY DEF Steps
  <2>. DEFINE u == Tasked(q, "specify", n + 1)
  <2>2. u \in LineCall /\ u.at = "specify" /\ Same(q, u) /\ u.t = n + 1
    BY <1>1, <1>3, <2>1, TaskedIs
  <2>. QED BY <1>1, <2>2 DEF Same
<1>5. q.p \in Nat /\ q.version \in Nat /\ HandedOff(q.p) /\ project # NoProject
  BY <1>1 DEF LineCall, Fits, Worker
<1>6. /\ row \in Translation /\ row.p = q.p /\ row.state = "queued"
      /\ row.attempt < MaxAttempts
  BY <1>5, LineAssumption DEF Translation, TaskState
<1>7. n + 1 \in DOMAIN translations'
  <2>1. translations \in Seq(Translation)
    BY DEF LineInv, TasksInv
  <2>. QED BY <1>2, <1>6, <2>1, AppendProperties, LenProperties
<1>8. Fits(r)'
  <2>1. HandedOff(r.p)' /\ (project # NoProject)'
    BY <1>2, <1>4, <1>5 DEF HandedOff, talk, factory
  <2>. QED BY <1>4, <1>7, <2>1 DEF Fits, Worker, Owner
<1>. QED BY <1>2, <1>4, <1>5, <1>6, <1>8, QueuesTranslation

(* ... and the specification that lets it run.                             *)
LEMMA SpecifyTranslationLine ==
    ASSUME ProposalInv, LineInv, NEW c \in Callers, SpecifyTranslation(c) PROVE LineInv'
<1>. DEFINE t == call[c].t
            old == translations[t]
            row == [old EXCEPT !.specified = TRUE]
<1>1. t \in DOMAIN translations
  BY CallFits DEF SpecifyTranslation, Fits
<1>2. old \in Translation /\ (old.state = "queued" => old.attempt < MaxAttempts)
  BY <1>1, TranslationIs DEF LineInv, TasksInv
<1>3. /\ translations' = [translations EXCEPT ![t] = row] /\ Ends(c)
      /\ UNCHANGED <<talk, factory, generations>>
  BY DEF SpecifyTranslation
<1>4. old.state = "succeeded" => Winner(t)
  BY <1>1 DEF Winner
<1>. HIDE DEF old
<1>5. row \in Translation /\ row.state = old.state /\ row.p = old.p /\ row.attempt = old.attempt
  BY <1>2 DEF Translation
<1>. HIDE DEF row
<1>6. row.p = translations[t].p
  BY <1>5 DEF old
<1>. QED BY <1>1, <1>2, <1>3, <1>4, <1>5, <1>6, ChangesTranslation DEF Ends

(* An attempt of it.                                                       *)
LEMMA LeaseLine ==
    ASSUME ProposalInv, LineInv, NEW c \in Callers, NEW t \in DOMAIN translations,
           LeaseTranslation(c, t)
    PROVE  LineInv'
<1>. DEFINE old == translations[t]
<1>. PICK k \in Nat : k = old.attempt
  BY TranslationIs, LineAssumption
<1>. DEFINE row == [old EXCEPT !.state = "running", !.attempt = k + 1]
            q == Line("derive", "ask")
            r == [q EXCEPT !.t = t]
<1>1. old \in Translation /\ k + 1 \in 0..MaxAttempts /\ project # NoProject /\ t \in Nat
  <2>1. MaxAttempts \in Nat /\ k < MaxAttempts
    BY LineAssumption DEF LineInv, TasksInv, LeaseTranslation
  <2>. QED BY <2>1, TranslationIs
<1>2. /\ translations' = [translations EXCEPT ![t] = row] /\ call' = [call EXCEPT ![c] = r]
      /\ UNCHANGED <<talk, factory, generations>>
  BY DEF LeaseTranslation, Serve
<1>3. q \in LineCall /\ q.op = "derive" /\ q.at = "ask"
  BY LineIn DEF Worker, Steps
<1>. HIDE DEF old, q
<1>4. row \in Translation /\ row.state = "running" /\ row.p = old.p
  BY <1>1 DEF Translation, TaskState
<1>5. r \in LineCall /\ r.op = "derive" /\ r.at = "ask" /\ r.t = t
  BY <1>1, <1>3 DEF LineCall
<1>. HIDE DEF row, r
<1>6. Fits(r)
  BY <1>1, <1>5 DEF Fits, Worker, Owner
<1>7. row.p = translations[t].p
  BY <1>4 DEF old
<1>. QED BY <1>2, <1>4, <1>5, <1>6, <1>7, ChangesTranslation

(* The model's answer, published.                                          *)
LEMMA PublishDerivedLine ==
    ASSUME ProposalInv, LineInv, NEW c \in Callers, PublishDerived(c) PROVE LineInv'
<1>. PICK q : q = call[c]
  OBVIOUS
<1>1. q \in LineCall /\ q.op = "derive" /\ Fits(q) /\ q.t \in DOMAIN translations
  BY CallFits DEF PublishDerived, Fits
<1>. PICK v \in Nat : v = 1 + Derived
  BY DEF LineInv, BlueprintsInv
<1>. PICK document : document = [node |-> TRUE, of |-> translations[q.t].p]
  OBVIOUS
<1>. PICK r : r = Published(q, "attach", v)
  OBVIOUS
<1>2. /\ publishBlueprint(v, document) /\ call' = [call EXCEPT ![c] = r]
      /\ UNCHANGED <<talk, project, events, tasks>>
  BY DEF PublishDerived, Published, Derived
<1>3. document \in Document /\ HandedOff(document.of) /\ project # NoProject
  BY <1>1, TranslationIs DEF Document
<1>4. v = Derived + 1 /\ v \notin DOMAIN blueprints
  <2>. PICK n \in Nat : n = Derived
    BY DEF LineInv, BlueprintsInv
  <2>1. DOMAIN blueprints \ {0} = 1..n /\ v = n + 1
    BY DEF LineInv, BlueprintsInv
  <2>. QED BY <2>1
<1>5. Publishable(v, document)
  BY <1>4 DEF Publishable
<1>6. r \in LineCall /\ r.at = "attach" /\ r.op = "derive" /\ r.t = q.t
  <2>1. "attach" \in Steps
    BY DEF Steps
  <2>. DEFINE u == Published(q, "attach", v)
  <2>2. u \in LineCall /\ u.at = "attach" /\ Same(q, u) /\ u.t = q.t
    BY <1>1, <2>1, PublishedIs
  <2>. QED BY <1>1, <2>2 DEF Same
<1>7. Fits(r)'
  BY <1>1, <1>2, <1>3, <1>6 DEF Fits, Worker, Owner, tasks
<1>. QED BY <1>2, <1>3, <1>4, <1>5, <1>6, <1>7, Publishes

(* ... and attached to the project it was asked for.                       *)
LEMMA AttachLine ==
    ASSUME ProposalInv, LineInv, NEW c \in Callers, Attach(c) PROVE LineInv'
<1>. PICK q : q = call[c]
  OBVIOUS
<1>1. /\ q \in LineCall /\ q.op = "derive" /\ Fits(q) /\ q.t \in DOMAIN translations
      /\ project # NoProject
  BY CallFits DEF Attach, Fits, Worker
<1>2. CASE Attachable(q.v, translations[q.t].version)
  <2>. PICK m \in Nat : m = project.version
    BY <1>1 DEF LineInv, ProjectInv, Project
  <2>. PICK r : r = Versioned(q, "transition", m + 1)
    OBVIOUS
  <2>1. /\ attachBlueprintVersion(q.v) /\ call' = [call EXCEPT ![c] = r]
        /\ UNCHANGED <<talk, blueprints, events, tasks>>
    BY <1>2 DEF Attach, Versioned, tasks
  <2>2. m + 1 \in Nat
    OBVIOUS
  <2>3. r \in LineCall /\ r.at = "transition" /\ r.op = "derive" /\ r.t = q.t
    <3>1. "transition" \in Steps
      BY DEF Steps
    <3>. DEFINE u == Versioned(q, "transition", m + 1)
    <3>2. u \in LineCall /\ u.at = "transition" /\ Same(q, u) /\ u.t = q.t
      BY <1>1, <2>2, <3>1, VersionedIs
    <3>. QED BY <1>1, <3>2 DEF Same
  <2>4. Fits(r)
    BY <1>1, <2>3 DEF Fits, Worker, Owner
  <2>5. q.v \in DOMAIN blueprints
    BY <1>2 DEF Attachable
  <2>. QED BY <1>1, <2>1, <2>3, <2>4, <2>5, Attaches
<1>3. CASE ~Attachable(q.v, translations[q.t].version)
  <2>1. Failed(call[c].t) /\ Ends(c) /\ UNCHANGED <<talk, factory, generations>>
    BY <1>3 DEF Attach, factory
  <2>. QED BY <1>1, <2>1, FailStep
<1>. QED BY <1>2, <1>3

(* The step a translation wins with: nobody has won an idea.               *)
LEMMA TakeLine ==
    ASSUME ProposalInv, LineInv, NEW c \in Callers, TakeToBlueprint(c) PROVE LineInv'
<1>. PICK q : q = call[c]
  OBVIOUS
<1>1. /\ q \in LineCall /\ q.op = "derive" /\ Fits(q) /\ q.t \in DOMAIN translations
      /\ project # NoProject
  BY CallFits DEF TakeToBlueprint, Fits, Worker
<1>. DEFINE key == <<"translation", q.t>>
<1>2. CASE ~Recorded(key) /\ Allowed(q.version, "blueprint")
  <2>. PICK r : r = Stepped(q, "done")
    OBVIOUS
  <2>1. /\ transition(key, "blueprint") /\ call' = [call EXCEPT ![c] = r]
        /\ UNCHANGED <<talk, blueprints, tasks>>
    BY <1>2 DEF TakeToBlueprint, Goto, Stepped, tasks
  <2>2. /\ key \in EventKey /\ key # <<"provisioned", 0>>
        /\ "blueprint" \in {"blueprint", "provisioned", "development", "exported"}
    BY <1>1, TranslationIs DEF EventKey
  <2>3. /\ Grows /\ ProjectInv' /\ TasksInv' /\ BlueprintsInv'
        /\ Len(events') = Len(events) + 1 /\ "blueprint" = ORDER[Len(events) + 2]
    <3>. HIDE DEF key
    <3>. QED BY <1>1, <1>2, <2>1, <2>2, Transitions
  <2>. PICK n \in Nat : n = Len(events)
    BY EventsLen
  <2>4. n = 0 /\ Len(events') >= 1
    <3>1. n <= 3 /\ n + 2 \in 1..11 /\ ORDER[n + 2] = ORDER[2]
      BY <2>3, EventsLen, Ranks
    <3>2. n + 2 = 2
      BY <3>1, Ranks
    <3>3. Len(events') = n + 1
      BY <2>3
    <3>. QED BY <3>2, <3>3
  <2>5. \A t \in Nat : ~Winner(t)
    BY <2>4 DEF LineInv, WinInv
  <2>6. r \in LineCall /\ r.at = "done" /\ r.op = "derive" /\ r.t = q.t
    <3>. DEFINE u == Stepped(q, "done")
    <3>1. u \in LineCall /\ u.at = "done" /\ Same(q, u) /\ u.t = q.t
      BY <1>1, SteppedIs DEF Steps
    <3>. QED BY <1>1, <3>1 DEF Same
  <2>7. Fits(r)'
    <3>1. Fits(r)
      BY <1>1, <2>6 DEF Fits, Worker, Owner
    <3>. QED BY <2>3, <3>1, Onward
  <2>8. CallsInv'
    BY <2>1, <2>3, <2>7, CallsOn
  <2>9. WinInv'
    <3>1. call'[c] = r /\ \A d \in Callers \ {c} : call'[d] = call[d]
      BY <2>1, CallPut
    <3>2. \A t \in Nat : Winner(t)' => t = q.t
      BY <2>1, <2>5, <2>6, <3>1 DEF Winner, At, tasks
    <3>. QED BY <2>4, <3>2 DEF WinInv
  <2>. QED BY <2>3, <2>8, <2>9 DEF LineInv
<1>3. CASE ~(~Recorded(key) /\ Allowed(q.version, "blueprint"))
  <2>1. Failed(call[c].t) /\ Ends(c) /\ UNCHANGED <<talk, factory, generations>>
    BY <1>3 DEF TakeToBlueprint, factory
  <2>. QED BY <1>1, <2>1, FailStep
<1>. QED BY <1>2, <1>3

(* The verdict of the one that won.                                        *)
LEMMA SucceedLine ==
    ASSUME ProposalInv, LineInv, NEW c \in Callers, Succeed(c) PROVE LineInv'
<1>. DEFINE t == call[c].t
            old == translations[t]
            row == [old EXCEPT !.state = "succeeded"]
<1>1. t \in DOMAIN translations
  BY CallFits DEF Succeed, Fits
<1>2. old \in Translation
  BY <1>1, TranslationIs
<1>3. /\ translations' = [translations EXCEPT ![t] = row] /\ Ends(c)
      /\ UNCHANGED <<talk, factory, generations>>
  BY DEF Succeed
<1>4. Winner(t)
  BY DEF Winner, Succeed
<1>. HIDE DEF old
<1>5. row \in Translation /\ row.state = "succeeded" /\ row.p = old.p
  BY <1>2 DEF Translation, TaskState
<1>. HIDE DEF row
<1>6. row.p = translations[t].p
  BY <1>5 DEF old
<1>. QED BY <1>1, <1>3, <1>4, <1>5, <1>6, ChangesTranslation DEF Ends

(* The translation of a proposal.                                          *)
LEMMA TranslationLine ==
    ASSUME ProposalInv, LineInv, NEW c \in Callers, TranslationStep(c) PROVE LineInv'
<1>1. CASE ModelIsUnusable(c)
  BY <1>1, FailStep DEF ModelIsUnusable, At
<1>. QED
  BY <1>1, TranslateLine, QueueTranslationLine, SpecifyTranslationLine, LeaseLine,
     PublishDerivedLine, AttachLine, TakeLine, SucceedLine DEF TranslationStep

(* The owner asks for code.                                                *)
LEMMA GenerateLine ==
    ASSUME ProposalInv, LineInv, NEW c \in Callers, project # NoProject, Generate(c)
    PROVE  LineInv'
<1>. PICK at : at = IF workspace = "absent" THEN "files" ELSE "advance"
  OBVIOUS
<1>. PICK v : v = project.blueprint
  OBVIOUS
<1>. DEFINE q == Line("generate", at)
            r == [q EXCEPT !.v = v]
<1>1. at \in {"files", "advance"} /\ at \in Steps
  BY DEF Steps
<1>2. q \in LineCall /\ q.op = "generate" /\ q.at = at
  BY <1>1, LineIn DEF Worker
<1>3. v \in Nat /\ Generable(v)
  BY DEF LineInv, ProjectInv, Project, Generate, Generable
<1>4. call' = [call EXCEPT ![c] = r] /\ UNCHANGED <<talk, factory, tasks>>
  BY DEF Generate, Serve
<1>. HIDE DEF q
<1>5. r \in LineCall /\ r.op = "generate" /\ r.at = at /\ r.v = v
  BY <1>2, <1>3 DEF LineCall
<1>. HIDE DEF r
<1>6. Fits(r)
  BY <1>1, <1>3, <1>5 DEF Fits, Worker, Owner
<1>. QED BY <1>1, <1>4, <1>5, <1>6, CallStep

(* A request that only takes its next step.                                *)
LEMMA GotoStep ==
    ASSUME ProposalInv, LineInv, NEW c \in Callers, NEW step \in Steps \ {"done"},
           Goto(c, step), UNCHANGED <<talk, factory, tasks>>, NEW op \in Worker,
           call[c].op = op, Fits(call[c]), step \notin {"specify", "create"},
           op = "generate" /\ step = "task" => Len(events) >= 2
    PROVE  LineInv'
<1>. PICK q : q = call[c]
  OBVIOUS
<1>. PICK r : r = Stepped(q, step)
  OBVIOUS
<1>1. call' = [call EXCEPT ![c] = r] /\ q \in LineCall /\ q.op = op /\ Fits(q)
  BY DEF Goto, Stepped, Fits
<1>2. r \in LineCall /\ r.at = step /\ Same(q, r) /\ r.t = q.t /\ r.v = q.v
  BY <1>1, SteppedIs
<1>3. Fits(r)
  BY <1>1, <1>2 DEF Fits, Worker, Owner, Same
<1>. QED BY <1>1, <1>2, <1>3, CallStep

(* The task of a generation,                                               *)
LEMMA QueueGenerationLine ==
    ASSUME ProposalInv, LineInv, NEW c \in Callers, QueueGeneration(c) PROVE LineInv'
<1>. PICK q : q = call[c]
  OBVIOUS
<1>1. q \in LineCall /\ q.op = "generate" /\ q.at = "task" /\ Fits(q)
  BY CallFits DEF QueueGeneration
<1>. PICK n \in Nat : n = Len(generations)
  BY LenProperties DEF LineInv, TasksInv
<1>. PICK r : r = Tasked(q, "specify", n + 1)
  OBVIOUS
<1>. PICK row : row = [blueprint |-> q.v, specified |-> FALSE]
  OBVIOUS
<1>2. /\ call' = [call EXCEPT ![c] = r] /\ generations' = Append(generations, row)
      /\ UNCHANGED <<talk, factory, translations>>
  BY DEF QueueGeneration, Tasked
<1>3. r \in LineCall /\ r.at = "specify" /\ r.t = n + 1 /\ Same(q, r) /\ r.v = q.v
  <2>. DEFINE u == Tasked(q, "specify", n + 1)
  <2>1. n + 1 \in Nat /\ "specify" \in Steps
    BY DEF Steps
  <2>2. u \in LineCall /\ u.at = "specify" /\ Same(q, u) /\ u.t = n + 1 /\ u.v = q.v
    BY <1>1, <2>1, TaskedIs
  <2>. QED BY <2>2
<1>4. q.v \in Nat /\ Generable(q.v) /\ project # NoProject /\ Len(events) >= 2
  BY <1>1 DEF LineCall, Fits, Worker
<1>5. row \in Generation /\ row.blueprint = q.v
  BY <1>4 DEF Generation
<1>6. n + 1 \in DOMAIN generations'
  <2>1. generations \in Seq(Generation)
    BY DEF LineInv, TasksInv
  <2>. QED BY <1>2, <1>5, <2>1, AppendProperties, LenProperties
<1>7. Fits(r)'
  <2>1. Generable(r.v)' /\ (project # NoProject)' /\ (Len(events) >= 2)'
    BY <1>2, <1>3, <1>4 DEF Generable, factory
  <2>. QED BY <1>1, <1>3, <1>6, <2>1 DEF Fits, Worker, Owner, Same
<1>. QED BY <1>2, <1>3, <1>4, <1>5, <1>7, QueuesGeneration

(* ... and its specification.                                              *)
LEMMA SpecifyGenerationLine ==
    ASSUME ProposalInv, LineInv, NEW c \in Callers, SpecifyGeneration(c) PROVE LineInv'
<1>1. call[c].t \in DOMAIN generations
  BY CallFits DEF SpecifyGeneration, Fits
<1>. QED BY <1>1, SpecifiesGeneration DEF SpecifyGeneration, Ends

(* Commands that change no row.                                            *)
LEMMA QuietLine ==
    ASSUME ProposalInv, LineInv, NEW c \in Callers,
           \/ project # NoProject /\ Export(c)
           \/ Initialise(c) \/ InstallAndCommit(c)
           \/ \E t \in DOMAIN generations : Develop(c, t)
    PROVE  LineInv'
<1>1. ASSUME project # NoProject, NEW op \in {"export", "develop"},
             Serve(c, Line(op, "advance")), UNCHANGED <<talk, factory, tasks>>
      PROVE  LineInv'
  <2>. DEFINE r == Line(op, "advance")
  <2>1. r \in LineCall /\ r.op = op /\ r.at = "advance"
    BY LineIn DEF Worker, Steps
  <2>2. call' = [call EXCEPT ![c] = r]
    BY <1>1 DEF Serve
  <2>. HIDE DEF r
  <2>3. Fits(r)
    BY <1>1, <2>1 DEF Fits, Worker, Owner
  <2>. QED BY <1>1, <2>1, <2>2, <2>3, CallStep
<1>2. CASE project # NoProject /\ Export(c)
  BY <1>1, <1>2 DEF Export
<1>3. ASSUME NEW t \in DOMAIN generations, Develop(c, t) PROVE LineInv'
  <2>1. generations # <<>>
    OBVIOUS
  <2>2. project # NoProject
    BY <2>1 DEF LineInv, ProjectInv
  <2>. QED BY <1>1, <1>3, <2>2 DEF Develop
<1>4. ASSUME call[c].op = "generate", Fits(call[c]), UNCHANGED <<talk, factory, tasks>>,
             Goto(c, "install") \/ Goto(c, "advance") \/ Ends(c)
      PROVE  LineInv'
  <2>1. "generate" \in Worker /\ {"install", "advance"} \subseteq Steps \ {"done"}
    BY DEF Worker, Steps
  <2>2. CASE Goto(c, "install")
    BY <1>4, <2>1, <2>2, GotoStep
  <2>3. CASE Goto(c, "advance")
    BY <1>4, <2>1, <2>3, GotoStep
  <2>. QED BY <1>4, <2>2, <2>3, EndStep
<1>5. CASE Initialise(c)
  BY <1>4, <1>5, CallFits DEF Initialise
<1>6. CASE InstallAndCommit(c)
  <2>1. call[c].op = "generate" /\ Fits(call[c]) /\ UNCHANGED <<talk, factory, tasks>>
    BY <1>6, CallFits DEF InstallAndCommit
  <2>2. Goto(c, "advance") \/ Ends(c)
    BY <1>6 DEF InstallAndCommit
  <2>. QED BY <1>4, <2>1, <2>2
<1>. QED BY <1>2, <1>3, <1>5, <1>6

(* What a request that advances the project finds of it.                   *)
LEMMA AdvanceLine ==
    ASSUME ProposalInv, LineInv, NEW c \in Callers, Advanced(c),
           UNCHANGED <<talk, factory, tasks>>, Fits(call[c]), NEW op \in DOMAIN Target,
           call[c].op = op, op = "generate" => Len(events) >= 2
    PROVE  LineInv'
<1>1. CASE op = "generate"
  <2>1. Goto(c, "task") /\ "generate" \in Worker /\ "task" \in Steps \ {"done"}
    BY <1>1 DEF Advanced, Worker, Steps
  <2>. QED BY <1>1, <2>1, GotoStep
<1>2. CASE op # "generate"
  BY <1>2, EndStep DEF Advanced
<1>. QED BY <1>1, <1>2

(* advance() reads,                                                        *)
LEMMA ReadLine ==
    ASSUME ProposalInv, LineInv, NEW c \in Callers, ReadState(c) PROVE LineInv'
<1>. PICK q : q = call[c]
  OBVIOUS
<1>. PICK op \in DOMAIN Target : At(c, op, "advance")
  BY DEF ReadState
<1>t. op \in {"generate", "develop", "export"}
  BY DEF Target
<1>1. /\ Fits(q) /\ q \in LineCall /\ q.op = op /\ project # NoProject
      /\ UNCHANGED <<talk, factory, tasks>>
  BY <1>t, CallFits DEF ReadState, Fits, Worker
<1>2. CASE Reached(Target[q.op])
  <2>1. Target["generate"] = "provisioned" /\ ProjectInv
    BY DEF Target, LineInv
  <2>2. op = "generate" => Len(events) >= 2
    BY <1>1, <1>2, <2>1, ProvisionedIs
  <2>. QED BY <1>1, <1>2, <2>2, AdvanceLine DEF ReadState
<1>3. CASE ~Reached(Target[q.op])
  <2>. PICK m \in Nat : m = project.version
    BY <1>1 DEF LineInv, ProjectInv, Project
  <2>. PICK r : r = Versioned(q, "transition", m)
    OBVIOUS
  <2>1. call' = [call EXCEPT ![c] = r]
    BY <1>3 DEF ReadState, Versioned
  <2>2. r \in LineCall /\ r.at = "transition" /\ Same(q, r) /\ r.t = q.t /\ r.v = q.v
    <3>. DEFINE u == Versioned(q, "transition", m)
    <3>1. u \in LineCall /\ u.at = "transition" /\ Same(q, u) /\ u.t = q.t /\ u.v = q.v
      <4>1. "transition" \in Steps
        BY DEF Steps
      <4>. QED BY <1>1, <4>1, VersionedIs
    <3>. QED BY <3>1
  <2>3. Fits(r)
    BY <1>t, <1>1, <2>2 DEF Fits, Worker, Owner, Same
  <2>. QED BY <1>1, <2>1, <2>2, <2>3, CallStep
<1>. QED BY <1>2, <1>3

(* ... and writes.                                                         *)
LEMMA WriteLine ==
    ASSUME ProposalInv, LineInv, NEW c \in Callers, WriteState(c) PROVE LineInv'
<1>. PICK q : q = call[c]
  OBVIOUS
<1>. PICK op \in DOMAIN Target : At(c, op, "transition")
  BY DEF WriteState
<1>t. /\ op \in {"generate", "develop", "export"}
      /\ Target[op] \in {"provisioned", "development", "exported"}
      /\ Target[op] = "provisioned" <=> op = "generate"
  BY DEF Target
<1>. PICK to : to = Target[op]
  OBVIOUS
<1>. DEFINE key == <<to, 0>>
<1>1. /\ Fits(q) /\ q \in LineCall /\ q.op = op /\ project # NoProject
      /\ UNCHANGED <<talk, blueprints, tasks>>
  BY <1>t, CallFits DEF WriteState, Fits, Worker
<1>2. Transitioned(c, key, q.version, to, Advanced)
  BY <1>1 DEF WriteState
<1>3. CASE Ends(c) /\ UNCHANGED <<project, events>>
  BY <1>1, <1>3, EndStep DEF factory
<1>4. CASE Recorded(key) /\ Advanced(c) /\ UNCHANGED <<project, events>>
  <2>1. ProjectInv
    BY DEF LineInv
  <2>2. op = "generate" => Len(events) >= 2
    BY <1>t, <1>1, <1>4, <2>1, ProvisionedIs
  <2>3. UNCHANGED <<talk, factory, tasks>>
    BY <1>1, <1>4 DEF factory
  <2>. QED BY <1>1, <1>4, <2>2, <2>3, AdvanceLine
<1>5. CASE Allowed(q.version, to) /\ transition(key, to) /\ Advanced(c)
  <2>1. /\ key \in EventKey /\ (key = <<"provisioned", 0>> <=> to = "provisioned")
        /\ to \in {"blueprint", "provisioned", "development", "exported"}
    BY <1>t DEF EventKey
  <2>2. /\ Grows /\ ProjectInv' /\ Len(events') = Len(events) + 1
        /\ to = ORDER[Len(events) + 2]
    BY <1>1, <1>5, <2>1, Transitions
  <2>3. CASE op # "generate"
    BY <1>1, <1>5, <2>1, <2>3, TransitStep DEF Advanced, Ends
  <2>4. CASE op = "generate"
    <3>. PICK r : r = Stepped(q, "task")
      OBVIOUS
    <3>1. call' = [call EXCEPT ![c] = r]
      BY <1>1, <1>5, <2>4 DEF Advanced, Goto, Stepped
    <3>2. r \in LineCall /\ r.at = "task" /\ Same(q, r) /\ r.v = q.v
      BY <1>1, SteppedIs DEF Steps
    <3>3. Len(events') >= 2
      <4>. PICK n \in Nat : n = Len(events)
        BY EventsLen
      <4>1. n <= 3 /\ n + 2 \in 1..11 /\ ORDER[n + 2] = ORDER[3]
        BY <1>t, <2>2, <2>4, EventsLen, Ranks
      <4>2. n + 2 = 3
        BY <4>1, Ranks
      <4>3. Len(events') = n + 1
        BY <2>2
      <4>. QED BY <4>2, <4>3
    <3>4. Generable(r.v)' /\ (project # NoProject)'
      BY <1>1, <2>2, <2>4, <3>2 DEF Fits, Grows, Generable
    <3>5. Fits(r)'
      BY <1>1, <2>4, <3>2, <3>3, <3>4 DEF Fits, Worker, Owner, Same
    <3>. QED BY <1>1, <1>5, <2>1, <3>1, <3>2, <3>5, TransitStep
  <2>. QED BY <2>3, <2>4
<1>. QED BY <1>2, <1>3, <1>4, <1>5 DEF Transitioned

(* The generation, and the lifecycle it advances.                          *)
LEMMA GenerationLine ==
    ASSUME ProposalInv, LineInv, NEW c \in Callers, GenerationStep(c) PROVE LineInv'
  BY GenerateLine, QueueGenerationLine, SpecifyGenerationLine, QuietLine, ReadLine, WriteLine
     DEF GenerationStep

(* A death.                                                                *)
LEMMA DieLine ==
    ASSUME ProposalInv, LineInv, NEW c \in Callers, Die(c) PROVE LineInv'
<1>1. CASE call[c].op = "derive"
  BY <1>1, FailStep DEF Die
<1>2. CASE call[c].op # "derive"
  BY <1>2, EndStep DEF Die, tasks
<1>. QED BY <1>1, <1>2

(* On its side a request on proposals is one until it ends, and leaves the *)
(* proposals that were handed off as they are.                             *)
Talked(c) ==
    /\ \E r : call' = [call EXCEPT ![c] = r] /\ r.op \in {"none", "proposal"}
    /\ \A p : HandedOff(p) => p \in DOMAIN proposals' /\ proposals'[p].state = "handed_off"

(* The requests themselves,                                                *)
LEMMA RequestTalked ==
    ASSUME ProposalInv, NEW c \in Callers,
           \/ createProposal(c) \/ \E k \in Keys : draftProposal(c, k)
           \/ \E p \in DOMAIN proposals : \E v \in 1..proposals[p].version :
                 approveProposal(c, p, v) \/ rejectProposal(c, p, v)
    PROVE  Talked(c)
<1>1. UNCHANGED proposals
  BY DEF createProposal, draftProposal, approveProposal, rejectProposal
<1>2. PICK r : call' = [call EXCEPT ![c] = r] /\ r.op \in {"none", "proposal"}
  <2>1. ASSUME NEW r, Serve(c, r), r.op = "proposal"
        PROVE  call' = [call EXCEPT ![c] = r] /\ r.op \in {"none", "proposal"}
    BY <2>1 DEF Serve
  <2>2. CASE createProposal(c) \/ \E k \in Keys : draftProposal(c, k)
    <3>1. said \in 0..MaxMessages /\ 0 \in 0..MaxMessages
      BY ProposalAssumption DEF ProposalInv
    <3>. QED BY <2>1, <2>2, <3>1, RequestIs DEF createProposal, draftProposal
  <2>3. ASSUME NEW p \in DOMAIN proposals, NEW v \in 1..proposals[p].version,
               approveProposal(c, p, v) \/ rejectProposal(c, p, v)
        PROVE  \E r : call' = [call EXCEPT ![c] = r] /\ r.op \in {"none", "proposal"}
    <3>1. <<"approved", "handed_off">> \in Todos /\ <<"rejected">> \in Todos
      BY DEF Todos
    <3>. QED BY <2>1, <2>3, <3>1, DecisionIs DEF approveProposal, rejectProposal
  <2>. QED BY <2>2, <2>3
<1>. QED BY <1>1, <1>2 DEF Talked, HandedOff

(* ... their end,                                                          *)
LEMMA EndTalked ==
    ASSUME NEW c \in Callers, Ends(c), UNCHANGED proposals PROVE Talked(c)
<1>1. Idle.op = "none"
  BY DEF Idle
<1>. QED BY <1>1 DEF Ends, Talked, HandedOff

(* ... the insert of a proposal, or the replay of one,                     *)
LEMMA CreateTalked ==
    ASSUME ProposalInv, NEW c \in Callers, InsertProposal(c) \/ ReplayProposal(c)
    PROVE  Talked(c)
<1>. DEFINE q == call[c]
<1>1. q.op = "proposal" /\ q \in ProposalCall
  BY DEF InsertProposal, ReplayProposal, Pending, ProposalInv, Named
<1>2. \A p \in DOMAIN proposals : p \in DOMAIN proposals' /\ proposals'[p] = proposals[p]
  <2>1. CASE UNCHANGED proposals
    BY <2>1
  <2>2. ASSUME NEW row, proposals' = Append(proposals, row),
               row = [state |-> "draft", version |-> 1, candidate |-> q.candidate,
                      approved |-> FALSE]
        PROVE  \A p \in DOMAIN proposals : p \in DOMAIN proposals' /\ proposals'[p] = proposals[p]
    <3>1. row \in Proposal /\ proposals \in Seq(Proposal)
      BY <1>1, <2>2 DEF Proposal, ProposalState, ProposalCall, ProposalInv
    <3>. QED BY <2>2, <3>1, AppendProperties, LenProperties
  <2>. QED BY <2>1, <2>2 DEF InsertProposal, ReplayProposal
<1>3. PICK r : call' = [call EXCEPT ![c] = r] /\ r.op \in {"none", "proposal"}
  <2>1. CASE Ends(c)
    <3>1. Idle.op = "none"
      BY DEF Idle
    <3>. QED BY <2>1, <3>1 DEF Ends
  <2>2. CASE ~Ends(c)
    <3>. PICK n : call' = [call EXCEPT ![c] = [q EXCEPT !.at = "check", !.p = n, !.version = 1]]
      BY <2>2 DEF InsertProposal, ReplayProposal
    <3>. DEFINE r == [q EXCEPT !.at = "check", !.p = n, !.version = 1]
    <3>. HIDE DEF q
    <3>1. r.op = "proposal"
      BY <1>1 DEF ProposalCall
    <3>. QED BY <3>1
  <2>. QED BY <2>1, <2>2
<1>. QED BY <1>2, <1>3 DEF Talked, HandedOff

(* ... and the two halves of a transition of its state.                    *)
LEMMA TransitionTalked ==
    ASSUME ProposalInv, NEW c \in Callers, CheckTransition(c) \/ UpdateProposal(c)
    PROVE  Talked(c)
<1>. DEFINE q == call[c]
<1>1. q.op = "proposal" /\ q \in ProposalCall /\ Named(q)
  BY DEF CheckTransition, UpdateProposal, Pending, ProposalInv, Named
<1>2. CASE Ends(c) /\ UNCHANGED proposals
  BY <1>2, EndTalked
<1>3. CASE CheckTransition(c) /\ ~Ends(c)
  <2>. DEFINE r == [q EXCEPT !.at = "write"]
  <2>1. call' = [call EXCEPT ![c] = r] /\ UNCHANGED proposals
    BY <1>3 DEF CheckTransition
  <2>. HIDE DEF q
  <2>2. r.op = "proposal"
    BY <1>1 DEF ProposalCall
  <2>. QED BY <2>1, <2>2 DEF Talked, HandedOff
<1>4. CASE UpdateProposal(c) /\ Moved(c) /\ proposals[q.p].version = q.version
  <2>1. proposals[q.p].state # "handed_off"
    BY <1>1, <1>4 DEF Named, UpdateProposal, Pending, allowed
  <2>2. PICK row : proposals' = [proposals EXCEPT ![q.p] = row]
    BY <1>4 DEF Moved
  <2>3. \A p : HandedOff(p) => p \in DOMAIN proposals' /\ proposals'[p].state = "handed_off"
    BY <2>1, <2>2 DEF HandedOff
  <2>4. PICK r : call' = [call EXCEPT ![c] = r] /\ r.op \in {"none", "proposal"}
    <3>1. CASE Len(q.todo) = 1
      <4>1. Idle.op = "none" /\ Ends(c)
        BY <1>4, <3>1 DEF Idle, Moved
      <4>. QED BY <4>1 DEF Ends
    <3>2. CASE Len(q.todo) # 1
      <4>. PICK version : version = proposals'[q.p].version
        OBVIOUS
      <4>. DEFINE r == [q EXCEPT !.at = "check", !.todo = Tail(@), !.version = version]
      <4>1. call' = [call EXCEPT ![c] = r]
        <5>1. call' = [call EXCEPT ![c].at = "check", ![c].todo = Tail(@),
                                   ![c].version = proposals'[call[c].p].version]
          BY <1>4, <3>2, Zenon DEF Moved
        <5>. QED BY <5>1
      <4>. HIDE DEF q
      <4>2. r.op = "proposal"
        BY <1>1 DEF ProposalCall
      <4>. QED BY <4>1, <4>2
    <3>. QED BY <3>1, <3>2
  <2>. QED BY <2>3, <2>4 DEF Talked
<1>. QED BY <1>2, <1>3, <1>4 DEF CheckTransition, UpdateProposal

(* None of it disturbs the line.                                           *)
LEMMA ProposalLine == ASSUME ProposalInv, LineInv, ProposalStep PROVE LineInv'
<1>. USE DEF factory, tasks
<1>1. project # NoProject /\ UNCHANGED <<factory, tasks>>
  BY DEF ProposalStep
<1>2. /\ \A d \in Callers : call'[d] = call[d] \/ call'[d].op \in {"none", "proposal"}
      /\ \A p : HandedOff(p) => p \in DOMAIN proposals' /\ proposals'[p].state = "handed_off"
  <2>1. CASE appendMessage
    BY <2>1 DEF appendMessage, HandedOff
  <2>2. ASSUME NEW c \in Callers, Talked(c)
        PROVE  /\ \A d \in Callers : call'[d] = call[d] \/ call'[d].op \in {"none", "proposal"}
               /\ \A p : HandedOff(p) => p \in DOMAIN proposals' /\ proposals'[p].state = "handed_off"
    BY <2>2, CallPut DEF Talked
  <2>. QED BY <2>1, <2>2, RequestTalked, CreateTalked, TransitionTalked DEF ProposalStep, ProposalNext
<1>3. Grows
  BY <1>1, <1>2, EventsLen DEF Grows, Generable
<1>4. CallsInv'
  <2>1. ASSUME NEW d \in Callers, call'[d].op \notin {"none", "proposal"} PROVE Fits(call[d])'
    <3>. PICK q : q = call[d]
      OBVIOUS
    <3>1. q = call'[d] /\ Fits(q)
      BY <1>2, <2>1 DEF LineInv, CallsInv
    <3>2. Fits(q)'
      BY <1>3, <3>1, Onward
    <3>. QED BY <3>1, <3>2 DEF Fits
  <2>. QED BY <2>1 DEF CallsInv
<1>5. WinInv'
  <2>1. \A t \in Nat : Winner(t)' => Winner(t)
    BY <1>1, <1>2 DEF Winner, At
  <2>. QED BY <1>1, <2>1 DEF LineInv, WinInv
<1>6. TasksInv' /\ BlueprintsInv'
  BY <1>1, <1>2 DEF LineInv, TasksInv, BlueprintsInv, HandedOff, Generable, Derived
<1>7. ProjectInv'
  BY <1>1 DEF LineInv, ProjectInv, EventsInv
<1>. QED BY <1>4, <1>5, <1>6, <1>7 DEF LineInv

(* At the start nothing is there.                                          *)
LEMMA InitLineInv == Init => LineInv
<1>. SUFFICES ASSUME Init PROVE LineInv
  OBVIOUS
<1>. USE DEF Init, ProposalInit, FactoryInit
<1>1. DOMAIN blueprints = {} /\ DOMAIN translations = {} /\ DOMAIN generations = {}
  OBVIOUS
<1>2. BlueprintsInv
  <2>1. DOMAIN blueprints \ {0} = {} /\ Cardinality({}) = 0
    BY <1>1, FS_EmptySet
  <2>. QED BY <1>1, <2>1 DEF BlueprintsInv, Derived
<1>3. CallsInv /\ WinInv
  BY <1>1 DEF CallsInv, WinInv, Winner, At, Idle
<1>4. TasksInv
  BY <1>1, EmptySeq DEF TasksInv
<1>5. ProjectInv
  BY DEF ProjectInv
<1>. QED BY <1>2, <1>3, <1>4, <1>5 DEF LineInv

(* The invariant of the line, in every state it reaches.                   *)
LEMMA LineInvariant == Spec => []LineInv
<1>1. ProposalInv /\ LineInv /\ [Next]_vars => LineInv'
  <2>. SUFFICES ASSUME ProposalInv, LineInv, [Next]_vars PROVE LineInv'
    OBVIOUS
  <2>1. CASE UNCHANGED vars
    <3>. USE <2>1 DEF vars, talk, factory, tasks
    <3>1. CallsInv'
      BY DEF LineInv, CallsInv, Fits, HandedOff, Generable
    <3>2. TasksInv' /\ BlueprintsInv'
      BY DEF LineInv, TasksInv, BlueprintsInv, HandedOff, Generable, Derived
    <3>3. ProjectInv' /\ WinInv'
      BY DEF LineInv, ProjectInv, EventsInv, WinInv, Winner, At
    <3>. QED BY <3>1, <3>2, <3>3 DEF LineInv
  <2>. QED BY <2>1, ProposalLine, CommandLine, TranslationLine, GenerationLine, DieLine DEF Next
<1>. QED BY <1>1, InitLineInv, ProposalInvariant, PTL DEF Spec

(* However many translations meet on a project, one at most succeeds, and  *)
(* the project's lifecycle is one line of events with ascending versions   *)
(* that ends in the state it is in.                                        *)
THEOREM OneTranslationSucceeds == Spec => []OneTranslationWins
<1>1. LineInv => OneTranslationWins
  <2>. SUFFICES ASSUME LineInv PROVE OneTranslationWins
    OBVIOUS
  <2>1. ASSUME NEW s \in DOMAIN translations, NEW t \in DOMAIN translations,
               translations[s].state = "succeeded", translations[t].state = "succeeded"
        PROVE  s = t
    BY <2>1, TranslationIs DEF Winner, LineInv, WinInv
  <2>2. CASE project = NoProject
    BY <2>1, <2>2 DEF OneTranslationWins, LineInv, ProjectInv
  <2>3. CASE project # NoProject
    <3>1. EventsInv /\ DOMAIN events = 1..Len(events)
      BY <2>3, EventsLen, LenProperties DEF LineInv, ProjectInv
    <3>. QED BY <2>1, <2>3, <3>1 DEF OneTranslationWins, LineInv, ProjectInv, EventsInv
  <2>. QED BY <2>2, <2>3
<1>. QED BY <1>1, LineInvariant, PTL

-----------------------------------------------------------------------------
(* The repository on disk, and the faults that were counted.               *)
DiskInv == workspace \in Workspace /\ faults \in 0..MaxFaults

(* The steps that touch either are few.                                    *)
LEMMA DiskStep == DiskInv /\ [Next]_vars => DiskInv'
<1>. SUFFICES ASSUME DiskInv, [Next]_vars PROVE DiskInv'
  OBVIOUS
<1>1. CASE UNCHANGED <<workspace, faults>>
  BY <1>1 DEF DiskInv
<1>2. ASSUME NEW c \in Callers, Initialise(c) \/ InstallAndCommit(c) PROVE DiskInv'
  <2>1. workspace' \in Workspace /\ UNCHANGED faults
    BY <1>2 DEF Initialise, InstallAndCommit, Workspace, DiskInv
  <2>. QED BY <2>1 DEF DiskInv
<1>3. ASSUME NEW c \in Callers, Die(c) PROVE DiskInv'
  <2>1. faults' = faults + 1 /\ faults < MaxFaults /\ UNCHANGED workspace
    BY <1>3 DEF Die, Fault
  <2>2. faults + 1 \in 0..MaxFaults
    BY <2>1, LineAssumption DEF DiskInv
  <2>. QED BY <2>1, <2>2 DEF DiskInv
<1>4. ASSUME NEW c \in Callers, CommandStep(c) PROVE UNCHANGED <<workspace, faults>>
  BY <1>4 DEF CommandStep, OwnerCreatesProject, startConversation, PublishCommanded,
              InsertProject, TransitionCommanded
<1>5. ASSUME NEW c \in Callers, TranslationStep(c) PROVE UNCHANGED <<workspace, faults>>
  BY <1>5 DEF TranslationStep, Translate, QueueTranslation, SpecifyTranslation,
              LeaseTranslation, ModelIsUnusable, PublishDerived, Attach, TakeToBlueprint, Succeed
<1>6. ASSUME NEW c \in Callers, GenerationStep(c), ~Initialise(c), ~InstallAndCommit(c)
      PROVE  UNCHANGED <<workspace, faults>>
  BY <1>6 DEF GenerationStep, Generate, Export, QueueGeneration, SpecifyGeneration, Develop,
              ReadState, WriteState
<1>7. CASE ProposalStep \/ UNCHANGED vars
  BY <1>1, <1>7 DEF ProposalStep, vars
<1>. QED BY <1>1, <1>2, <1>3, <1>4, <1>5, <1>6, <1>7 DEF Next

(* A blueprint's id, a project's row and its events are what they should   *)
(* be.                                                                     *)
LEMMA FactoryTyped == ASSUME LineInv PROVE FactoryTypeOK
<1>1. \A v \in DOMAIN blueprints : v \in Nat /\ blueprints[v] \in Document
  <2>. PICK n \in Nat : n = Derived
    BY DEF LineInv, BlueprintsInv
  <2>1. DOMAIN blueprints \ {0} = 1..n
    BY DEF LineInv, BlueprintsInv
  <2>2. \A v \in DOMAIN blueprints : v = 0 \/ v \in 1..n
    BY <2>1
  <2>. QED BY <2>2 DEF LineInv, BlueprintsInv
<1>2. project # NoProject => project \in Project /\ project.blueprint \in DOMAIN blueprints
  BY DEF LineInv, ProjectInv
<1>3. \A i \in DOMAIN events : events[i].to \in ProjectState /\ events[i].version \in Nat
  <2>1. DOMAIN events = 1..Len(events)
    BY EventsLen, LenProperties
  <2>. QED BY <2>1, EventIs DEF Event
<1>. QED BY <1>1, <1>2, <1>3 DEF FactoryTypeOK

(* Code is generated only for a project whose blueprint the owner wrote or *)
(* that was derived from a proposal the owner approved, and whose          *)
(* lifecycle says that it is provisioned.                                  *)
THEOREM GeneratesAsApproved == Spec => []GeneratedAsApproved
<1>1. ProposalInv /\ LineInv /\ DiskInv => GeneratedAsApproved
  <2>. SUFFICES ASSUME ProposalInv, LineInv, DiskInv PROVE GeneratedAsApproved
    OBVIOUS
  <2>1. TypeOK
    <3>1. ProposalTypeOK
      BY DEF ProposalInv, ProposalTypeOK, Named
    <3>. QED BY <3>1, FactoryTyped DEF TypeOK, LineInv, TasksInv, DiskInv
  <2>2. ASSUME NEW t \in DOMAIN generations
        PROVE  LET document == blueprints[generations[t].blueprint]
               IN /\ document.node
                  /\ document.of # 0 => proposals[document.of].state = "handed_off"
                  /\ Recorded(<<"provisioned", 0>>) /\ Reached("provisioned")
    <3>1. project # NoProject /\ ProjectInv
      <4>1. generations # <<>>
        OBVIOUS
      <4>. QED BY <4>1 DEF LineInv, ProjectInv
    <3>2. Generable(generations[t].blueprint) /\ Len(events) >= 2
      BY DEF LineInv, TasksInv
    <3>. QED BY <3>1, <3>2, ProvisionedIs DEF Generable, LineInv, BlueprintsInv, HandedOff
  <2>. QED BY <2>1, <2>2 DEF GeneratedAsApproved
<1>2. Init => DiskInv
  BY LineAssumption DEF Init, DiskInv, Workspace
<1>. QED BY <1>1, <1>2, DiskStep, ProposalInvariant, LineInvariant, PTL DEF Spec

=============================================================================
