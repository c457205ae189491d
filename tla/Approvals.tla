------------------------------ MODULE Approvals ------------------------------
(***************************************************************************)
(* The approval repository (approvals/postgres-repository.ts) behind its   *)
(* service (approvals/service.ts): requests that carry a single-use token, *)
(* and the decision that spends it.  A token stands for its request.  The  *)
(* row, the domain event and the audit record of a step are written in one *)
(* transaction, under the row's lock, so each operation is one action.     *)
(***************************************************************************)
EXTENDS Naturals, Sequences

CONSTANTS
    Requests,       \* approval requests, one token each
    Identities,     \* pairs of a chat and a user
    Owner           \* the pair of TELEGRAM_CHAT_ID and TELEGRAM_USER_ID

ASSUME ApprovalAssumption == Owner \in Identities

VARIABLES
    status,         \* approval_requests.status, "none" before the row exists
    overdue,        \* requests whose expires_at has passed
    trail           \* domain_events and audit_records of each request

approvals == <<status, overdue, trail>>

Decisions == {"approved", "denied"}

ApprovalsInit ==
    /\ status = [a \in Requests |-> "none"]
    /\ overdue = {}
    /\ trail = [a \in Requests |-> <<>>]

Trailed(a, entry) == trail' = [trail EXCEPT ![a] = Append(@, entry)]

Create(a) ==
    /\ status[a] = "none"
    /\ status' = [status EXCEPT ![a] = "pending"]
    /\ Trailed(a, [action |-> "requested", actor |-> "system"])
    /\ UNCHANGED overdue

(* The time to live is at least a second: no request is born expired.      *)
Expire(a) ==
    /\ status[a] = "pending"
    /\ overdue' = overdue \cup {a}
    /\ UNCHANGED <<status, trail>>

(* Fault: the row is not asked whether somebody decided it already.        *)
OutcomeAgain(a, who) ==
    IF who # Owner THEN "unauthorized"
    ELSE IF status[a] = "none" THEN "invalid"
    ELSE IF a \in overdue THEN "expired"
    ELSE "decided"

Outcome(a, who) ==
    IF who # Owner THEN "unauthorized"
    ELSE IF status[a] = "none" THEN "invalid"
    ELSE IF status[a] # "pending" THEN "replayed"
    ELSE IF a \in overdue THEN "expired"
    ELSE "decided"

Decide(a, decision, who) ==
    IF Outcome(a, who) = "decided"
    THEN /\ status' = [status EXCEPT ![a] = decision]
         /\ Trailed(a, [action |-> decision, actor |-> who])
         /\ UNCHANGED overdue
    ELSE UNCHANGED approvals

-----------------------------------------------------------------------------
(* Every request was decided at most once, by the owner, and its row says  *)
(* what the immutable trail says: whatever is tapped twice, delivered      *)
(* twice or posted to the webhook beside the poller.                       *)
OneDecision ==
    \A a \in Requests :
        IF status[a] = "none" THEN trail[a] = <<>>
        ELSE /\ Len(trail[a]) = IF status[a] = "pending" THEN 1 ELSE 2
             /\ trail[a][1] = [action |-> "requested", actor |-> "system"]
             /\ status[a] \in Decisions =>
                    trail[a][2] = [action |-> status[a], actor |-> Owner]

=============================================================================
