------------------------------ MODULE Proposals ------------------------------
(***************************************************************************)
(* The contract proposals of a conversation                                *)
(* (operations/owner-commands.ts, orchestrator/service.ts,                 *)
(* orchestrator/postgres-store.ts): drafted from its messages, put to the  *)
(* owner, approved and handed off, or rejected.  Every call of the store   *)
(* is an action, and transitionProposal() is two: it reads the state it    *)
(* may leave, and then updates the row under the version the caller names. *)
(* A request that fails, or dies with its process, may be sent again.      *)
(***************************************************************************)
EXTENDS Naturals, Sequences

CONSTANTS
    Callers,        \* requests that are served at once
    Keys,           \* idempotency keys of draftProposal()
    FormKey,        \* ... and of createProposal(), the form's
    MaxMessages     \* bound on the messages of the conversation

ASSUME ProposalAssumption == FormKey \notin Keys /\ MaxMessages \in Nat

VARIABLES
    said,           \* the messages of the conversation, as their number
    proposals,      \* conversation_proposals
    intents,        \* conversation_idempotency: key to proposal
    call            \* what each request has still to do

ProposalState == {"draft", "owner_review", "approved", "rejected", "handed_off"}

Proposal == [state : ProposalState, version : 1..4, candidate : 0..MaxMessages,
             approved : BOOLEAN]

(* `todo` are the states the proposal is still to be taken to.             *)
ProposalCall == [op : {"proposal"}, at : {"create", "check", "write"},
                 key : Keys \cup {FormKey}, candidate : 0..MaxMessages,
                 p : Nat, version : 0..4, todo : Seq(ProposalState)]

Idle == [op |-> "none"]

ProposalTypeOK ==
    /\ said \in 0..MaxMessages
    /\ proposals \in Seq(Proposal)
    /\ DOMAIN intents \subseteq Keys \cup {FormKey}
    /\ \A k \in DOMAIN intents : intents[k] \in DOMAIN proposals
    /\ \A c \in Callers : call[c].op = "proposal" => call[c] \in ProposalCall

ProposalInit ==
    /\ said = 0 /\ proposals = <<>> /\ intents = <<>>
    /\ call = [c \in Callers |-> Idle]

allowed == [draft |-> {"owner_review"}, owner_review |-> {"approved", "rejected"},
            approved |-> {"handed_off"}, rejected |-> {}, handed_off |-> {}]

Serve(c, request) == call[c] = Idle /\ call' = [call EXCEPT ![c] = request]
Ends(c) == call' = [call EXCEPT ![c] = Idle]

Pending(c, step) == call[c].op = "proposal" /\ call[c].at = step

Write(k, candidate) == [op |-> "proposal", at |-> "create", key |-> k,
                        candidate |-> candidate, p |-> 0, version |-> 0,
                        todo |-> <<"owner_review">>]
Decide(p, version, todo) ==
    [Write(FormKey, 0) EXCEPT !.at = "check", !.p = p, !.version = version,
                              !.todo = todo]

-----------------------------------------------------------------------------
appendMessage ==
    /\ said < MaxMessages
    /\ said' = said + 1
    /\ UNCHANGED <<proposals, intents, call>>

(* The transcript is read before anything is written.                      *)
draftProposal(c, k) ==
    /\ said > 0
    /\ Serve(c, Write(k, said))
    /\ UNCHANGED <<said, proposals, intents>>

(* The form's objective is its candidate: the same one on every retry.     *)
createProposal(c) ==
    /\ Serve(c, Write(FormKey, 0))
    /\ UNCHANGED <<said, proposals, intents>>

(* The owner decides on what the page shows, which may be old.             *)
approveProposal(c, p, version) ==
    /\ Serve(c, Decide(p, version, <<"approved", "handed_off">>))
    /\ UNCHANGED <<said, proposals, intents>>

rejectProposal(c, p, version) ==
    /\ Serve(c, Decide(p, version, <<"rejected">>))
    /\ UNCHANGED <<said, proposals, intents>>

(* A new row, under a key that was not used.                               *)
InsertProposal(c) ==
    /\ Pending(c, "create")
    /\ call[c].key \notin DOMAIN intents
    /\ LET p == Len(proposals) + 1
       IN /\ proposals' = Append(proposals,
                [state |-> "draft", version |-> 1, candidate |-> call[c].candidate,
                 approved |-> FALSE])
          /\ intents' = [k \in DOMAIN intents \cup {call[c].key} |->
                            IF k = call[c].key THEN p ELSE intents[k]]
          /\ call' = [call EXCEPT ![c].at = "check", ![c].p = p, ![c].version = 1]
    /\ UNCHANGED said

(* The form's id is derived from its key, so its retry finds the row; a    *)
(* draft's id is random and part of the intent, so its retry never does.   *)
ReplayProposal(c) ==
    /\ Pending(c, "create")
    /\ call[c].key \in DOMAIN intents
    /\ LET p == intents[call[c].key]
       IN IF call[c].key = FormKey /\ proposals[p].state # "owner_review"
          THEN call' = [call EXCEPT ![c].at = "check", ![c].p = p, ![c].version = 1]
          ELSE Ends(c)
    /\ UNCHANGED <<said, proposals, intents>>

-----------------------------------------------------------------------------
(* transitionProposal()                                                    *)

CheckTransition(c) ==
    /\ Pending(c, "check")
    /\ IF Head(call[c].todo) \in allowed[proposals[call[c].p].state]
       THEN call' = [call EXCEPT ![c].at = "write"]
       ELSE Ends(c)
    /\ UNCHANGED <<said, proposals, intents>>

Moved(c) ==
    LET to == Head(call[c].todo)
        row == proposals[call[c].p]
    IN /\ proposals' = [proposals EXCEPT ![call[c].p] =
                           [row EXCEPT !.state = to, !.version = @ + 1,
                                       !.approved = @ \/ to = "approved"]]
       /\ IF Len(call[c].todo) = 1 THEN Ends(c)
          ELSE call' = [call EXCEPT ![c].at = "check", ![c].todo = Tail(@),
                                    ![c].version = proposals'[call[c].p].version]

(* Fault: the update does not ask for the version that was read.           *)
UpdateUnfenced(c) ==
    /\ Pending(c, "write")
    /\ Moved(c)
    /\ UNCHANGED <<said, intents>>

UpdateProposal(c) ==
    /\ Pending(c, "write")
    /\ IF proposals[call[c].p].version = call[c].version THEN Moved(c)
       ELSE Ends(c) /\ UNCHANGED proposals
    /\ UNCHANGED <<said, intents>>

ProposalNext ==
    \/ appendMessage
    \/ \E c \in Callers :
          \/ createProposal(c) \/ \E k \in Keys : draftProposal(c, k)
          \/ \E p \in DOMAIN proposals : \E v \in 1..proposals[p].version :
                approveProposal(c, p, v) \/ rejectProposal(c, p, v)
          \/ InsertProposal(c) \/ ReplayProposal(c)
          \/ CheckTransition(c) \/ UpdateProposal(c)

-----------------------------------------------------------------------------
(* Whatever requests meet on it, a proposal takes one of the two paths: its *)
(* version tells how far it is, it bears an approval just while it is      *)
(* approved or handed off, and a rejected one never goes on.               *)
VersionOf == [draft |-> 1, owner_review |-> 2, approved |-> 3, rejected |-> 3,
              handed_off |-> 4]

DecidedOnce ==
    /\ ProposalTypeOK
    /\ \A p \in DOMAIN proposals :
          /\ proposals[p].version = VersionOf[proposals[p].state]
          /\ proposals[p].approved <=> proposals[p].state \in {"approved", "handed_off"}

=============================================================================
