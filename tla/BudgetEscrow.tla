---------------------------- MODULE BudgetEscrow ----------------------------
(***************************************************************************)
(* What the ledger of managed provider calls promises the owner of a       *)
(* budget, without rows, processes or counters: money is set aside before  *)
(* a call, an identity is set aside for once in its life, and it is then   *)
(* either spent, up to what was set aside, or given back.  The accounts    *)
(* of migrations/0004_ai_gateway.sql keep one running counter instead of   *)
(* the sum taken here.                                                     *)
(***************************************************************************)
EXTENDS Integers, FiniteSets, Sums

CONSTANTS
    Keys,       \* identities money is set aside for
    Scopes,     \* budget scopes
    Budget      \* what the owner allows each scope

VARIABLES
    held,       \* what is set aside for each key, in which scope
    used,       \* keys that money was ever set aside for
    spent       \* what each scope has spent

Nothing == [scope |-> "none", amount |-> 0]

Set(scope) == {k \in Keys : held[k].scope = scope}

HeldIn(scope) == SumOver([k \in Keys |-> held[k].amount], Set(scope))

Init ==
    /\ held = [k \in Keys |-> Nothing]
    /\ used = {}
    /\ spent = [s \in Scopes |-> 0]

(* Money may be set aside only if everything set aside or spent fits.      *)
SetAside(k, scope, amount) ==
    /\ k \notin used
    /\ spent[scope] + HeldIn(scope) + amount <= Budget[scope]
    /\ used' = used \cup {k}
    /\ held' = [held EXCEPT ![k] = [scope |-> scope, amount |-> amount]]
    /\ UNCHANGED spent

(* A settled call costs at most what was set aside for it.                 *)
Spend(k, cost) ==
    /\ held[k] # Nothing
    /\ cost <= held[k].amount
    /\ spent' = [spent EXCEPT ![held[k].scope] = @ + cost]
    /\ held' = [held EXCEPT ![k] = Nothing]
    /\ UNCHANGED used

GiveBack(k) ==
    /\ held[k] # Nothing
    /\ held' = [held EXCEPT ![k] = Nothing]
    /\ UNCHANGED <<used, spent>>

Next ==
    \E k \in Keys :
        \/ \E s \in Scopes : \E a \in 0..Budget[s] : SetAside(k, s, a)
        \/ \E c \in 0..held[k].amount : Spend(k, c)
        \/ GiveBack(k)

Spec == Init /\ [][Next]_<<held, used, spent>>

-----------------------------------------------------------------------------
(* What a scope has spent, and what is set aside in it, stay within what   *)
(* its owner allows; nothing is set aside for an identity that is unknown. *)
EscrowPromise ==
    /\ \A s \in Scopes : spent[s] + HeldIn(s) <= Budget[s]
    /\ \A k \in Keys \ used : held[k] = Nothing

(* Money is set aside for an identity once, and is not changed until it is *)
(* spent or given back; and what was spent is not taken back.              *)
Lasting == /\ \A k \in used : k \in used' /\ held'[k] \in {held[k], Nothing}
           /\ \A s \in Scopes : spent[s] <= spent'[s]

EscrowSteps == [][Lasting]_<<held, used, spent>>
=============================================================================
