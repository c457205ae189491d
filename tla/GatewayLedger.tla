--------------------------- MODULE GatewayLedger ---------------------------
(***************************************************************************)
(* The managed AI gateway and its ledger: AiGateway.execute() of           *)
(* gateway/gateway.ts run by several processes over the tables of          *)
(* migrations/0004_ai_gateway.sql, through gateway/postgres-ledger.ts.     *)
(*                                                                         *)
(* A ledger call is one transaction and one action; execute() is the       *)
(* sequence of them, with the provider's answer in between, and a process  *)
(* may die or lose its database at any point of it.  An attempt row is     *)
(* named by its idempotency key, which is unique.                          *)
(***************************************************************************)
EXTENDS Integers, FiniteSets, Sums

CONSTANTS
    Procs,          \* processes that call execute(), one call at a time
    Keys,           \* idempotency keys
    Scopes,         \* ai_budget_accounts rows
    Budget,         \* ai_budget_accounts.max_cost_usd_micros
    Requests,       \* what a caller may ask for
    KeyOf,          \* the idempotency key of a request
    ScopeOf,        \* its attribution.contractId
    MaxCost,        \* its maxCostUsdMicros
    RoutesOf,       \* providers of its task class in model-policy.ts
    Registered,     \* providers this deployment has an adapter for
    Costs           \* what a provider may bill for one call

Provider == {"deepseek", "codex", "claude"}

ASSUME GatewayAssumption ==
    /\ Budget \in [Scopes -> Nat]
    /\ KeyOf \in [Requests -> Keys]
    /\ ScopeOf \in [Requests -> Scopes]
    /\ MaxCost \in [Requests -> Nat]
    /\ RoutesOf \in [Requests -> SUBSET Provider]
    /\ Registered \subseteq Provider
    /\ Costs \subseteq Nat
    /\ 0 \in Costs
    /\ "none" \notin Requests /\ "none" \notin Scopes

VARIABLES
    outcome,        \* ai_gateway_attempts.outcome ("none": no row)
    request,        \* what the row was reserved for
    requestId,      \* is provider_request_id recorded?
    charged,        \* the row's ai_usage_events, summed
    verdict,        \* ai_attempt_verifications.passed
    reconciled,     \* keys with an ai_attempt_reconciliations row
    stranded,       \* dispatched rows older than the stranding horizon
    spent,          \* ai_budget_accounts.spent_usd_micros
    reserved,       \* ai_budget_accounts.reserved_usd_micros
    call,           \* what each process is doing in execute()
    absent,         \* each process's absentProviders
    calls,          \* provider invocations made under each key
    billed,         \* what the provider bills for them
    unmetered       \* keys whose answer came without its usage

rows == <<outcome, request, requestId, charged, verdict, reconciled>>
accounts == <<spent, reserved>>
providers == <<calls, billed, unmetered>>
vars == <<rows, stranded, accounts, call, absent, providers>>

-----------------------------------------------------------------------------
(* execute() in progress.                                                  *)

Idle == [pc |-> "idle", request |-> "none", route |-> "none",
         sound |-> FALSE, cost |-> 0,
         outcomeUnknown |-> FALSE, requestId |-> FALSE, absent |-> FALSE]

(* Row states that hold their reservation, and row states that settle it.  *)
open == {"reserved", "dispatched", "outcome_unknown"}
final == {"succeeded", "failed"}

Key(p) == KeyOf[call[p].request]
At(p, pc) == call[p].pc = pc
GoTo(p, pc) == call' = [call EXCEPT ![p].pc = pc]
Return(p) == call' = [call EXCEPT ![p] = Idle]

(* A subscription provider bills nothing per call, whatever it reports.    *)
withTruthfulCost(route, cost) == IF route = "deepseek" THEN cost ELSE 0

Bills(route) == {withTruthfulCost(route, c) : c \in Costs}

(* How an adapter can fail: a plain error, which says nothing of the       *)
(* outcome, or a ManagedInvocationError.                                   *)
Failed(unknown, id, gone) ==
    [outcomeUnknown |-> unknown, requestId |-> id, absent |-> gone]

Failures(route) ==
    {Failed(TRUE, FALSE, FALSE)} \cup
    CASE route = "deepseek" -> {Failed(TRUE, TRUE, FALSE)}
      [] route = "codex"    -> {Failed(FALSE, FALSE, FALSE)}
      [] route = "claude"   -> {Failed(FALSE, TRUE, FALSE),
                                Failed(FALSE, FALSE, TRUE)}
      [] OTHER              -> {}

-----------------------------------------------------------------------------
Init ==
    /\ outcome = [k \in Keys |-> "none"]
    /\ request = [k \in Keys |-> "none"]
    /\ requestId = [k \in Keys |-> FALSE]
    /\ charged = [k \in Keys |-> 0]
    /\ verdict = [k \in Keys |-> "none"]
    /\ reconciled = {}
    /\ stranded = {}
    /\ spent = [s \in Scopes |-> 0]
    /\ reserved = [s \in Scopes |-> 0]
    /\ call = [p \in Procs |-> Idle]
    /\ absent = [p \in Procs |-> {}]
    /\ calls = [k \in Keys |-> 0]
    /\ billed = [k \in Keys |-> 0]
    /\ unmetered = {}

-----------------------------------------------------------------------------
(* The calls of execute().                                                 *)

(* validate() and the route: the caller's own, which the policy must hold, *)
(* or else the first registered one that lists its model.  A caller may    *)
(* name a provider without an adapter, or one it knows to be absent.       *)
Submit(p, r, route) ==
    /\ At(p, "idle")
    /\ route \in RoutesOf[r]
    /\ call' = [call EXCEPT ![p] = [Idle EXCEPT !.pc = "submitted",
                                    !.request = r, !.route = route]]
    /\ UNCHANGED <<rows, stranded, accounts, absent, providers>>

(* Fault: money that is only reserved is not counted.                      *)
FitsSpent(r) == spent[ScopeOf[r]] + MaxCost[r] <= Budget[ScopeOf[r]]

(* UPDATE ai_budget_accounts ... WHERE: what the account still allows.     *)
Fits(r) == spent[ScopeOf[r]] + reserved[ScopeOf[r]] + MaxCost[r]
               <= Budget[ScopeOf[r]]

(* Fault: an existing row does not stop a second call under its key.       *)
ReserveAgain(p) ==
    LET r == call[p].request
        k == KeyOf[r]
    IN  /\ At(p, "submitted")
        /\ Fits(r)
        /\ reserved' = [reserved EXCEPT ![ScopeOf[r]] = @ + MaxCost[r]]
        /\ outcome' = [outcome EXCEPT ![k] = "reserved"]
        /\ request' = [request EXCEPT ![k] = r]
        /\ GoTo(p, "reserved")
        /\ UNCHANGED <<requestId, charged, verdict, reconciled, stranded,
                       spent, absent, providers>>

(* reserve().  Whether an existing row has the same intent only decides    *)
(* which error the caller sees.                                            *)
Reserve(p) ==
    LET r == call[p].request
        k == KeyOf[r]
    IN  /\ At(p, "submitted")
        /\ outcome[k] = "none"
        /\ Fits(r)
        /\ reserved' = [reserved EXCEPT ![ScopeOf[r]] = @ + MaxCost[r]]
        /\ outcome' = [outcome EXCEPT ![k] = "reserved"]
        /\ request' = [request EXCEPT ![k] = r]
        /\ GoTo(p, "reserved")
        /\ UNCHANGED <<requestId, charged, verdict, reconciled, stranded,
                       spent, absent, providers>>

ReserveThrows(p) ==
    /\ At(p, "submitted")
    /\ outcome[Key(p)] # "none" \/ ~Fits(call[p].request)
    /\ Return(p)
    /\ UNCHANGED <<rows, stranded, accounts, absent, providers>>

(* The outcomes fail() may still replace.                                  *)
unsettled == {"reserved", "dispatched"}

(* Faults: an unknown outcome releases its reservation, or no failure does. *)
ReleasedAlways(k, unknown) ==
    [reserved EXCEPT ![ScopeOf[request[k]]] = @ - MaxCost[request[k]]]

HeldOnFailure(k, unknown) == reserved

(* fail(): a known failure releases the reservation, an unknown one keeps  *)
(* it held.                                                                *)
AfterFailure(k, unknown) ==
    IF unknown THEN reserved
    ELSE [reserved EXCEPT ![ScopeOf[request[k]]] = @ - MaxCost[request[k]]]

LedgerFail(k, unknown, id) ==
    /\ outcome[k] \in unsettled
    /\ outcome' = [outcome EXCEPT ![k] = IF unknown THEN "outcome_unknown"
                                                    ELSE "failed"]
    /\ requestId' = [requestId EXCEPT ![k] = id]
    /\ reserved' = AfterFailure(k, unknown)
    /\ stranded' = stranded \ {k}
    /\ UNCHANGED <<request, charged, verdict, reconciled, spent>>

ProviderUnavailable(p) ==
    /\ At(p, "reserved")
    /\ call[p].route \notin Registered
    /\ LedgerFail(Key(p), FALSE, FALSE)
    /\ Return(p)
    /\ UNCHANGED <<absent, providers>>

Dispatch(p) ==
    /\ At(p, "reserved")
    /\ call[p].route \in Registered
    /\ outcome[Key(p)] = "reserved"
    /\ outcome' = [outcome EXCEPT ![Key(p)] = "dispatched"]
    /\ GoTo(p, "dispatched")
    /\ UNCHANGED <<request, requestId, charged, verdict, reconciled, stranded,
                   accounts, absent, providers>>

Invoke(p) ==
    /\ At(p, "dispatched")
    /\ calls' = [calls EXCEPT ![Key(p)] = @ + 1]
    /\ GoTo(p, "calling")
    /\ UNCHANGED <<rows, stranded, accounts, absent, billed, unmetered>>

(* A completion, sound or one of those execute() rejects.  Its cost is     *)
(* computed from the usage it carries; a stream that ends without its      *)
(* usage chunk is taken for an answer that cost nothing, whatever the      *)
(* provider bills for it.                                                  *)
Answer(p, sound, bill, metered) ==
    /\ At(p, "calling")
    /\ bill \in Bills(call[p].route)
    /\ metered \/ call[p].route = "deepseek"
    /\ billed' = [billed EXCEPT ![Key(p)] = bill]
    /\ unmetered' = IF metered THEN unmetered \ {Key(p)}
                              ELSE unmetered \cup {Key(p)}
    /\ call' = [call EXCEPT ![p].pc = "answered", ![p].sound = sound,
                            ![p].cost = IF metered THEN bill ELSE 0]
    /\ UNCHANGED <<rows, stranded, accounts, absent, calls>>

(* An adapter that claims to know its outcome was billed for nothing.      *)
AdapterFails(p, failure, bill) ==
    /\ At(p, "calling")
    /\ failure \in Failures(call[p].route)
    /\ bill \in Bills(call[p].route)
    /\ bill > 0 => failure.outcomeUnknown
    /\ billed' = [billed EXCEPT ![Key(p)] = bill]
    /\ call' = [call EXCEPT ![p].pc = "failing",
                            ![p].outcomeUnknown = failure.outcomeUnknown,
                            ![p].requestId = failure.requestId,
                            ![p].absent = failure.absent]
    /\ UNCHANGED <<rows, stranded, accounts, absent, calls, unmetered>>

Rejected(p) == ~call[p].sound \/ call[p].cost > MaxCost[call[p].request]

Chargeable(p) ==
    /\ call[p].cost <= MaxCost[call[p].request]
    /\ reserved[ScopeOf[call[p].request]] >= MaxCost[call[p].request]

(* Fault: an unexpected error counts as a known outcome.                   *)
ThrowKnown(p) ==
    call' = [call EXCEPT ![p].pc = "failing", ![p].outcomeUnknown = FALSE,
                         ![p].requestId = FALSE]

(* An error inside the try that is no ManagedInvocationError.              *)
Throw(p) ==
    call' = [call EXCEPT ![p].pc = "failing", ![p].outcomeUnknown = TRUE,
                         ![p].requestId = FALSE]

(* succeed(), or reject() for a rejected completion; both charge it.  The  *)
(* reply may be lost after the commit, and then execute() sees an error.   *)
Settle(p) ==
    LET r == call[p].request
        k == KeyOf[r]
    IN  /\ At(p, "answered")
        /\ outcome[k] = "dispatched"
        /\ Chargeable(p)
        /\ outcome' = [outcome EXCEPT ![k] = IF Rejected(p) THEN "failed"
                                                            ELSE "succeeded"]
        /\ requestId' = [requestId EXCEPT ![k] = TRUE]
        /\ charged' = [charged EXCEPT ![k] = call[p].cost]
        /\ spent' = [spent EXCEPT ![ScopeOf[r]] = @ + call[p].cost]
        /\ reserved' = [reserved EXCEPT ![ScopeOf[r]] = @ - MaxCost[r]]
        /\ stranded' = stranded \ {k}
        /\ Return(p) \/ Throw(p)
        /\ UNCHANGED <<request, verdict, reconciled, absent, providers>>

(* The row is no longer dispatched, the charge is refused, or the database *)
(* fails: the transaction rolls back.                                      *)
SettleThrows(p) ==
    /\ At(p, "answered")
    /\ Throw(p)
    /\ UNCHANGED <<rows, stranded, accounts, absent, providers>>

(* The catch clause.  When the reply is lost after the commit, the absent  *)
(* provider is not remembered.                                             *)
Fail(p) ==
    /\ At(p, "failing")
    /\ LedgerFail(Key(p), call[p].outcomeUnknown \/ call[p].requestId,
                  call[p].requestId)
    /\ \/ call[p].absent /\ absent' = [absent EXCEPT ![p] = @ \cup {call[p].route}]
       \/ absent' = absent
    /\ Return(p)
    /\ UNCHANGED providers

FailThrows(p) ==
    /\ At(p, "failing")
    /\ outcome[Key(p)] \notin unsettled
    /\ Return(p)
    /\ UNCHANGED <<rows, stranded, accounts, absent, providers>>

-----------------------------------------------------------------------------
(* Faults.                                                                 *)

(* A ledger call outside the try, or in the catch clause, loses the        *)
(* database, before its transaction or after the commit.                   *)
DatabaseFails(p) ==
    /\ call[p].pc \in {"submitted", "reserved", "dispatched", "failing"}
    /\ Return(p)
    /\ UNCHANGED <<rows, stranded, accounts, absent, providers>>

(* The process dies; a call it was making is billed all the same.          *)
Crash(p, bill) ==
    /\ At(p, "calling") => bill \in Bills(call[p].route)
    /\ ~At(p, "calling") => bill = 0
    /\ billed' = IF At(p, "calling")
                 THEN [billed EXCEPT ![Key(p)] = bill] ELSE billed
    /\ Return(p)
    /\ absent' = [absent EXCEPT ![p] = {}]
    /\ UNCHANGED <<rows, stranded, accounts, calls, unmetered>>

(* The horizon is several times the longest an adapter may take, so no     *)
(* call is still in flight when it passes; its settlement may be.          *)
Age(k) ==
    /\ outcome[k] = "dispatched"
    /\ k \notin stranded
    /\ \A p \in Procs : call[p].pc \in {"dispatched", "calling"} => Key(p) # k
    /\ stranded' = stranded \cup {k}
    /\ UNCHANGED <<rows, accounts, call, absent, providers>>

-----------------------------------------------------------------------------
(* The rest of the ledger.                                                 *)

(* Fault: the wrong rows are updated.                                      *)
ReclaimedReserved == [k \in Keys |-> IF k \in stranded
                                        /\ outcome[k] = "reserved"
                                     THEN "outcome_unknown"
                                     ELSE outcome[k]]

(* Only the outcome: the reservation stays held.                           *)
Reclaimed == [k \in Keys |-> IF k \in stranded THEN "outcome_unknown"
                                               ELSE outcome[k]]

reclaimStranded ==
    /\ stranded # {}
    /\ outcome' = Reclaimed
    /\ stranded' = {}
    /\ UNCHANGED <<request, requestId, charged, verdict, reconciled, accounts,
                   call, absent, providers>>

(* The operator's script, scripts/reconcile-provider-attempt.ts.           *)
reconcileUnknownAsFailed(k) ==
    LET s == ScopeOf[request[k]]
    IN  /\ outcome[k] = "outcome_unknown"
        /\ ~requestId[k]
        /\ outcome' = [outcome EXCEPT ![k] = "failed"]
        /\ reserved' = IF reserved[s] >= MaxCost[request[k]]
                       THEN [reserved EXCEPT ![s] = @ - MaxCost[request[k]]]
                       ELSE reserved
        /\ reconciled' = reconciled \cup {k}
        /\ UNCHANGED <<request, requestId, charged, verdict, stranded, spent,
                       call, absent, providers>>

recordVerification(k, passed) ==
    /\ outcome[k] = "succeeded"
    /\ verdict[k] = "none"
    /\ verdict' = [verdict EXCEPT ![k] = passed]
    /\ UNCHANGED <<outcome, request, requestId, charged, reconciled, stranded,
                   accounts, call, absent, providers>>

-----------------------------------------------------------------------------
Working(p) ==
    \/ Reserve(p) \/ ReserveThrows(p)
    \/ ProviderUnavailable(p) \/ Dispatch(p) \/ Invoke(p)
    \/ \E sound, metered \in BOOLEAN, c \in Costs : Answer(p, sound, c, metered)
    \/ \E f \in Failures(call[p].route), c \in Costs : AdapterFails(p, f, c)
    \/ Settle(p) \/ SettleThrows(p)
    \/ Fail(p) \/ FailThrows(p)

Next ==
    \/ \E p \in Procs :
        \/ \E r \in Requests, q \in Provider : Submit(p, r, q)
        \/ Working(p)
        \/ DatabaseFails(p)
        \/ \E c \in Costs : Crash(p, c)
    \/ \E k \in Keys :
        \/ Age(k)
        \/ reconcileUnknownAsFailed(k)
        \/ \E passed \in {"passed", "failed"} : recordVerification(k, passed)
    \/ reclaimStranded

Spec == Init /\ [][Next]_vars

(* A call that was started goes on, since every adapter has a time limit;  *)
(* time passes; and the supervisor's loop reclaims.                        *)
FairSpec ==
    /\ Spec
    /\ \A p \in Procs : WF_vars(Working(p))
    /\ \A k \in Keys : WF_vars(Age(k))
    /\ WF_vars(reclaimStranded)

-----------------------------------------------------------------------------
(* Properties.                                                             *)

Outcome == {"none", "reserved", "dispatched", "succeeded", "failed",
            "outcome_unknown"}

Call == [pc : {"idle", "submitted", "reserved", "dispatched", "calling",
               "answered", "failing"},
         request : Requests \cup {"none"}, route : Provider \cup {"none"},
         sound : BOOLEAN, cost : Nat,
         outcomeUnknown : BOOLEAN, requestId : BOOLEAN, absent : BOOLEAN]

Rows ==
    /\ outcome \in [Keys -> Outcome]
    /\ request \in [Keys -> Requests \cup {"none"}]
    /\ requestId \in [Keys -> BOOLEAN]
    /\ charged \in [Keys -> Nat]
    /\ verdict \in [Keys -> {"none", "passed", "failed"}]
    /\ reconciled \subseteq Keys
    /\ stranded \subseteq Keys

(* The values of the tables, of execute()'s locals and of the bills.       *)
TypeOK ==
    /\ Rows
    /\ spent \in [Scopes -> Nat]
    /\ reserved \in [Scopes -> Int]
    /\ call \in [Procs -> Call]
    /\ absent \in [Procs -> SUBSET Provider]
    /\ calls \in [Keys -> Nat]
    /\ billed \in [Keys -> Nat]
    /\ unmetered \subseteq Keys

(* No interleaving of reservations, charges and releases takes an account  *)
(* past what its owner allows: CHECK(spent+reserved<=max) never has to     *)
(* abort a transaction.                                                    *)
WithinBudget ==
    \A s \in Scopes : spent[s] + reserved[s] <= Budget[s]

HeldFor(s) == {k \in Keys : outcome[k] \in open /\ ScopeOf[request[k]] = s}
ChargedTo(s) == {k \in Keys : outcome[k] \in final
                                 /\ ScopeOf[request[k]] = s}

(* The two running counters of an account are what its rows add up to: no  *)
(* reservation is lost, released twice, or kept by a row that is settled.  *)
AccountsMatchRows ==
    \A s \in Scopes :
        /\ reserved[s] = SumOver([k \in HeldFor(s) |-> MaxCost[request[k]]],
                                 HeldFor(s))
        /\ spent[s] = SumOver(charged, ChargedTo(s))

(* One idempotency key reaches a provider at most once, whoever presents   *)
(* it, however often, after whatever crash; and never before its           *)
(* reservation is committed and marked dispatched.                         *)
OneCallPerKey ==
    \A k \in Keys :
        /\ calls[k] <= 1
        /\ outcome[k] \in {"none", "reserved"} =>
               calls[k] = 0 /\ billed[k] = 0

(* What the provider bills for a key, as far as its answers say.           *)
Metered(k) == IF k \in unmetered THEN 0 ELSE billed[k]

(* A row that is settled, and not by an operator's reconciliation, was     *)
(* charged exactly what the provider billed.  Crashes, refused charges,    *)
(* lost replies and errors of any kind never make the ledger close a call  *)
(* as free that was not; only an answer without its usage does.            *)
SettledAsMetered ==
    \A k \in Keys \ reconciled :
        outcome[k] \in final => charged[k] = Metered(k)

(* Where each call of execute() is agrees with the row it works on, and no *)
(* two calls, of however many processes, ever work on the same row.        *)
working == {"reserved", "dispatched", "calling", "answered", "failing"}

CallOfRow(p) ==
    LET k == Key(p)
    IN  /\ request[k] = call[p].request
        /\ At(p, "reserved") => outcome[k] = "reserved"
        /\ call[p].pc \in {"dispatched", "calling"} =>
               outcome[k] = "dispatched" /\ k \notin stranded
        /\ At(p, "dispatched") => calls[k] = 0
        /\ call[p].pc \in {"answered", "failing"} =>
               outcome[k] \notin {"none", "reserved"}
        /\ At(p, "answered") => Metered(k) = call[p].cost
        /\ At(p, "failing") /\ ~call[p].outcomeUnknown => billed[k] = 0

CallsOwnTheirRows ==
    /\ \A p \in Procs : call[p].pc \in working => CallOfRow(p)
    /\ \A p, q \in Procs :
           call[p].pc \in working /\ call[q].pc \in working /\ p # q
               => Key(p) # Key(q)

(* A settled attempt stays as it was settled, with its charge, its request *)
(* id and its verdict; an unknown one can only be failed, by an operator,  *)
(* and not if the provider named the request.                              *)
SettledIsFinal ==
    [][\A k \in Keys :
        /\ outcome[k] \in final =>
               /\ outcome'[k] = outcome[k]
               /\ charged'[k] = charged[k]
               /\ requestId'[k] = requestId[k]
        /\ outcome[k] = "outcome_unknown" =>
               \/ outcome'[k] = "outcome_unknown"
               \/ outcome'[k] = "failed" /\ ~requestId[k]
        /\ verdict[k] # "none" => verdict'[k] = verdict[k]]_vars

(* Whatever the process that dispatched it does, a dispatched attempt gets *)
(* a verdict: its own, or reclaimStranded()'s.                             *)
DispatchedIsSettled ==
    \A k \in Keys :
        outcome[k] = "dispatched"
            ~> outcome[k] \in final \cup {"outcome_unknown"}

(* The ledger's counters and rows implement the escrow: an open attempt is *)
(* money set aside, once in the life of its key.                           *)
heldNow == [k \in Keys |->
               IF outcome[k] \in open
               THEN [scope |-> ScopeOf[request[k]],
                     amount |-> MaxCost[request[k]]]
               ELSE [scope |-> "none", amount |-> 0]]

Escrow == INSTANCE BudgetEscrow
              WITH held <- heldNow,
                   used <- {k \in Keys : outcome[k] # "none"}

ImplementsEscrow == Escrow!Spec
=============================================================================
