------------------------ MODULE GatewayLedger_proofs ------------------------
(***************************************************************************)
(* GatewayInv is an inductive invariant of GatewayLedger, for every choice *)
(* of the constants.  A step of execute() touches one process and the row  *)
(* that process works on; OneStep says once for all such steps that the    *)
(* other calls and the other rows keep their part of the invariant.        *)
(***************************************************************************)
EXTENDS GatewayLedger, Sums_proofs, TLAPS

USE GatewayAssumption DEF GatewayAssumption, Metered

(* What holds of each row by itself.                                       *)
RowSound(k) ==
    /\ outcome[k] # "none" => request[k] \in Requests /\ KeyOf[request[k]] = k
    /\ calls[k] <= 1
    /\ outcome[k] \in {"none", "reserved"} => calls[k] = 0 /\ billed[k] = 0
    /\ outcome[k] \notin final => charged[k] = 0
    /\ outcome[k] \in final /\ k \notin reconciled => charged[k] = Metered(k)
    /\ k \in stranded => outcome[k] = "dispatched"

(* A call in progress is for a request, on a route.                        *)
CallNamed(p) ==
    ~At(p, "idle") => call[p].request \in Requests /\ call[p].route \in Provider

GatewayInv ==
    /\ TypeOK
    /\ WithinBudget
    /\ \A k \in Keys : RowSound(k)
    /\ \A p \in Procs : CallNamed(p)
    /\ CallsOwnTheirRows

SameRow(k) ==
    /\ outcome'[k] = outcome[k]
    /\ request'[k] = request[k]
    /\ charged'[k] = charged[k]
    /\ (k \in reconciled') = (k \in reconciled)
    /\ (k \in stranded') = (k \in stranded)
    /\ calls'[k] = calls[k]
    /\ billed'[k] = billed[k]
    /\ (k \in unmetered') = (k \in unmetered)

Place == {"idle", "submitted", "reserved", "dispatched", "calling",
          "answered", "failing"}

(* The ways execute() changes its own place, all within the type.          *)
LEMMA Moved ==
    ASSUME NEW c \in Call, NEW pc \in Place
    PROVE  [c EXCEPT !.pc = pc] \in Call
  BY DEF Call, Place

(* With a completion,                                                      *)
LEMMA MovedByAnswer ==
    ASSUME NEW c \in Call, NEW sound \in BOOLEAN, NEW cost \in Nat
    PROVE  [c EXCEPT !.pc = "answered", !.sound = sound, !.cost = cost] \in Call
  BY DEF Call

(* with an adapter's failure,                                              *)
LEMMA MovedByFailure ==
    ASSUME NEW c \in Call, NEW unknown \in BOOLEAN, NEW id \in BOOLEAN,
           NEW gone \in BOOLEAN
    PROVE  [c EXCEPT !.pc = "failing", !.outcomeUnknown = unknown,
                     !.requestId = id, !.absent = gone] \in Call
  BY DEF Call

(* and with any other error.                                               *)
LEMMA MovedByThrow ==
    ASSUME NEW c \in Call
    PROVE  [c EXCEPT !.pc = "failing", !.outcomeUnknown = TRUE,
                     !.requestId = FALSE] \in Call
  BY DEF Call

(* GoTo(p, pc) moves that one call and keeps its request and route.        *)
LEMMA GoToStep ==
    ASSUME call \in [Procs -> Call], NEW p \in Procs, NEW pc \in Place,
           GoTo(p, pc)
    PROVE  /\ call' \in [Procs -> Call]
           /\ \A q \in Procs \ {p} : call'[q] = call[q]
           /\ call'[p].pc = pc
           /\ call'[p].request = call[p].request
           /\ call'[p].route = call[p].route
           /\ call'[p].cost = call[p].cost
<1>1. call' = [call EXCEPT ![p].pc = pc]
  BY DEF GoTo
<1>. QED
  BY <1>1, Moved DEF Call

(* A call that works on a row works on one that exists.                    *)
LEMMA WorkingRow ==
    ASSUME GatewayInv, NEW p \in Procs, call[p].pc \in working
    PROVE  /\ call[p].request \in Requests
           /\ call[p].route \in Provider
           /\ Key(p) \in Keys
           /\ outcome[Key(p)] # "none"
           /\ request[Key(p)] = call[p].request
<1>1. CallOfRow(p) /\ CallNamed(p)
  BY DEF GatewayInv, CallsOwnTheirRows
<1>. QED
  BY <1>1 DEF CallOfRow, CallNamed, At, Key, working

(* A step of one process on one row: what it has to establish itself.      *)
LEMMA OneStep ==
    ASSUME GatewayInv, NEW p \in Procs, NEW k \in Keys,
           \A q \in Procs \ {p} : /\ call'[q] = call[q]
                                  /\ call[q].pc \in working => Key(q) # k,
           \A j \in Keys \ {k} : SameRow(j),
           TypeOK', WithinBudget', RowSound(k)', CallNamed(p)',
           call'[p].pc \in working =>
               KeyOf[call'[p].request] = k /\ CallOfRow(p)'
    PROVE  GatewayInv'
<1>1. \A j \in Keys : RowSound(j)'
  <2>1. ASSUME NEW j \in Keys \ {k} PROVE RowSound(j)'
    BY <2>1 DEF GatewayInv, RowSound, SameRow
  <2>. QED
    BY <2>1
<1>2. \A q \in Procs : CallNamed(q)'
  <2>1. ASSUME NEW q \in Procs \ {p} PROVE CallNamed(q)'
    BY <2>1 DEF GatewayInv, CallNamed, At
  <2>. QED
    BY <2>1
<1>3. ASSUME NEW q \in Procs \ {p}, call'[q].pc \in working
      PROVE  Key(q)' = Key(q) /\ Key(q) # k /\ CallOfRow(q)'
  <2>1. call'[q] = call[q] /\ call[q].pc \in working
    BY <1>3
  <2>2. Key(q) \in Keys \ {k}
    BY <2>1, WorkingRow
  <2>3. SameRow(Key(q)) /\ Key(q)' = Key(q)
    BY <2>1, <2>2 DEF Key
  <2>4. CallOfRow(q)
    BY <2>1 DEF GatewayInv, CallsOwnTheirRows
  <2>. QED
    BY <2>1, <2>2, <2>3, <2>4 DEF CallOfRow, SameRow, At
<1>4. CallsOwnTheirRows'
  <2>1. ASSUME NEW q \in Procs, call'[q].pc \in working PROVE CallOfRow(q)'
    BY <1>3, <2>1
  <2>2. ASSUME NEW q \in Procs, NEW r \in Procs, q # r,
               call'[q].pc \in working, call'[r].pc \in working
        PROVE  Key(q)' # Key(r)'
    <3>1. CASE q = p
      BY <1>3, <2>2, <3>1 DEF Key
    <3>2. CASE r = p
      BY <1>3, <2>2, <3>2 DEF Key
    <3>3. CASE q # p /\ r # p
      <4>1. call[q].pc \in working /\ call[r].pc \in working
        BY <2>2, <3>3
      <4>. QED
        BY <1>3, <2>2, <3>3, <4>1 DEF GatewayInv, CallsOwnTheirRows
    <3>. QED
      BY <3>1, <3>2, <3>3
  <2>. QED
    BY <2>1, <2>2 DEF CallsOwnTheirRows
<1>. QED
  BY <1>1, <1>2, <1>4 DEF GatewayInv

(* A step of a call on the row it works on.                                *)
LEMMA OwnStep ==
    ASSUME GatewayInv, NEW p \in Procs, call[p].pc \in working,
           NEW k, k = Key(p),
           \A q \in Procs \ {p} : call'[q] = call[q],
           \A j \in Keys \ {k} : SameRow(j),
           TypeOK', WithinBudget', RowSound(k)',
           \/ call'[p] = Idle
           \/ /\ call'[p].request = call[p].request
              /\ call'[p].route = call[p].route
              /\ CallOfRow(p)'
    PROVE  GatewayInv'
<1>1. /\ k \in Keys
      /\ call[p].request \in Requests /\ call[p].route \in Provider
  BY WorkingRow
<1>2. \A q \in Procs \ {p} : call[q].pc \in working => Key(q) # k
  BY DEF GatewayInv, CallsOwnTheirRows
<1>3. CallNamed(p)'
  BY <1>1 DEF CallNamed, At, Idle
<1>4. call'[p].pc \in working => KeyOf[call'[p].request] = k /\ CallOfRow(p)'
  BY DEF Idle, working, Key
<1>. QED
  BY <1>1, <1>2, <1>3, <1>4, OneStep

(* A step that moves a call, and no row, to where it works on none.        *)
LEMMA QuietStep ==
    ASSUME GatewayInv, NEW p \in Procs,
           \A q \in Procs \ {p} : call'[q] = call[q],
           call'[p].pc \notin working, call' \in [Procs -> Call],
           absent' \in [Procs -> SUBSET Provider], CallNamed(p)',
           UNCHANGED <<rows, stranded, accounts, providers>>
    PROVE  GatewayInv'
<1>1. TypeOK' /\ WithinBudget'
  BY DEF GatewayInv, TypeOK, Rows, WithinBudget, rows, accounts, providers
<1>2. \A k \in Keys : RowSound(k)'
  BY DEF GatewayInv, RowSound, rows, providers
<1>3. \A q \in Procs : CallNamed(q)'
  <2>1. ASSUME NEW q \in Procs \ {p} PROVE CallNamed(q)'
    BY <2>1 DEF GatewayInv, CallNamed, At
  <2>. QED
    BY <2>1
<1>4. \A q \in Procs : call'[q].pc \in working =>
          q # p /\ call'[q] = call[q] /\ call[q].pc \in working
                /\ Key(q)' = Key(q)
  BY DEF Key
<1>5. ASSUME NEW q \in Procs, call'[q].pc \in working PROVE CallOfRow(q)'
  <2>1. CallOfRow(q)
    BY <1>4, <1>5 DEF GatewayInv, CallsOwnTheirRows
  <2>. QED
    BY <1>4, <1>5, <2>1 DEF CallOfRow, At, rows, providers
<1>6. CallsOwnTheirRows'
  BY <1>4, <1>5 DEF GatewayInv, CallsOwnTheirRows
<1>. QED
  BY <1>1, <1>2, <1>3, <1>6 DEF GatewayInv

(* A step of the ledger by itself, which moves no call.                    *)
LEMMA LedgerStep ==
    ASSUME GatewayInv, TypeOK', WithinBudget', \A k \in Keys : RowSound(k)',
           UNCHANGED <<call, request, providers>>,
           \A p \in Procs : call[p].pc \in working =>
               /\ At(p, "reserved") => outcome'[Key(p)] = "reserved"
               /\ call[p].pc \in {"dispatched", "calling"} =>
                      outcome'[Key(p)] = "dispatched" /\ Key(p) \notin stranded'
               /\ call[p].pc \in {"answered", "failing"} =>
                      outcome'[Key(p)] \notin {"none", "reserved"}
    PROVE  GatewayInv'
<1>1. \A p \in Procs : CallNamed(p)'
  BY DEF GatewayInv, CallNamed, At
<1>2. \A p \in Procs : Key(p)' = Key(p)
  BY DEF Key
<1>3. ASSUME NEW p \in Procs, call[p].pc \in working PROVE CallOfRow(p)'
  <2>1. CallOfRow(p)
    BY <1>3 DEF GatewayInv, CallsOwnTheirRows
  <2>. QED
    BY <1>2, <1>3, <2>1 DEF CallOfRow, At, providers
<1>4. CallsOwnTheirRows'
  BY <1>2, <1>3 DEF GatewayInv, CallsOwnTheirRows
<1>. QED
  BY <1>1, <1>4 DEF GatewayInv

-----------------------------------------------------------------------------
(* Submitting a request reserves nothing yet.                              *)
LEMMA SubmitInv ==
    ASSUME GatewayInv, NEW p \in Procs, NEW r \in Requests,
           NEW route \in Provider, Submit(p, r, route)
    PROVE  GatewayInv'
<1>1. /\ call' = [call EXCEPT ![p] = [Idle EXCEPT !.pc = "submitted",
                                    !.request = r, !.route = route]]
      /\ call \in [Procs -> Call] /\ absent \in [Procs -> SUBSET Provider]
      /\ UNCHANGED <<rows, stranded, accounts, absent, providers>>
  BY DEF Submit, GatewayInv, TypeOK
<1>2. call' \in [Procs -> Call]
  BY <1>1 DEF Call, Idle
<1>3. /\ call'[p].pc = "submitted"
      /\ call'[p].request = r /\ call'[p].route = route
  BY <1>1 DEF Idle
<1>. QED
  BY <1>1, <1>2, <1>3, QuietStep DEF working, CallNamed

(* A call that returns without touching its row leaves the row as it is.   *)
LEMMA ReturnInv ==
    ASSUME GatewayInv, NEW p \in Procs, Return(p),
           UNCHANGED <<rows, stranded, accounts, providers>>,
           absent' \in [Procs -> SUBSET Provider]
    PROVE  GatewayInv'
<1>1. call' = [call EXCEPT ![p] = Idle] /\ call \in [Procs -> Call]
  BY DEF Return, GatewayInv, TypeOK
<1>2. call' \in [Procs -> Call]
  BY <1>1 DEF Call, Idle
<1>. QED
  BY <1>1, <1>2, QuietStep DEF working, CallNamed, At, Idle

(* reserve() preserves it: a fresh row, on which no call works yet, and    *)
(* the account's own guard.                                                *)
LEMMA ReserveInv ==
    ASSUME GatewayInv, NEW p \in Procs, Reserve(p) PROVE GatewayInv'
<1>. SUFFICES ASSUME NEW r, r = call[p].request,
                     NEW k, k = KeyOf[r], NEW s, s = ScopeOf[r]
              PROVE  GatewayInv'
  OBVIOUS
<1>1. /\ call[p].pc = "submitted"
      /\ outcome[k] = "none"
      /\ spent[s] + reserved[s] + MaxCost[r] <= Budget[s]
      /\ reserved' = [reserved EXCEPT ![s] = @ + MaxCost[r]]
      /\ outcome' = [outcome EXCEPT ![k] = "reserved"]
      /\ request' = [request EXCEPT ![k] = r]
      /\ GoTo(p, "reserved")
      /\ UNCHANGED <<requestId, charged, verdict, reconciled, stranded,
                     spent, absent, calls, billed, unmetered>>
  BY DEF Reserve, At, Fits, providers
<1>2. r \in Requests /\ call[p].route \in Provider /\ k \in Keys
  BY <1>1 DEF GatewayInv, CallNamed, At
<1>3. TypeOK
  BY DEF GatewayInv
<1>4. /\ call'[p].pc = "reserved" /\ call'[p].request = r
      /\ call'[p].route = call[p].route
      /\ \A q \in Procs \ {p} : call'[q] = call[q]
      /\ call' \in [Procs -> Call]
  BY <1>1, <1>3, GoToStep DEF TypeOK, Place
<1>5. TypeOK'
  <2>1. Rows'
    BY <1>1, <1>2, <1>3 DEF TypeOK, Rows, Outcome
  <2>. QED
    BY <1>1, <1>2, <1>3, <1>4, <2>1 DEF TypeOK
<1>6. WithinBudget'
  BY <1>1, <1>2, <1>3 DEF GatewayInv, WithinBudget, TypeOK
<1>7. RowSound(k)'
  BY <1>1, <1>2, <1>3 DEF GatewayInv, RowSound, TypeOK, Rows, final
<1>8. CallOfRow(p)'
  BY <1>1, <1>2, <1>3, <1>4 DEF CallOfRow, Key, At, TypeOK, Rows
<1>9. \A q \in Procs \ {p} : call[q].pc \in working => Key(q) # k
  BY <1>1, WorkingRow
<1>10. \A j \in Keys \ {k} : SameRow(j)
  BY <1>1, <1>3 DEF SameRow, TypeOK, Rows
<1>. QED
  BY <1>2, <1>4, <1>5, <1>6, <1>7, <1>8, <1>9, <1>10, OneStep
     DEF CallNamed

(* dispatched(), and the call of the provider that follows it.             *)
LEMMA DispatchInv ==
    ASSUME GatewayInv, NEW p \in Procs, Dispatch(p) PROVE GatewayInv'
<1>. SUFFICES ASSUME NEW k, k = Key(p) PROVE GatewayInv'
  OBVIOUS
<1>1. /\ call[p].pc = "reserved"
      /\ outcome[k] = "reserved"
      /\ outcome' = [outcome EXCEPT ![k] = "dispatched"]
      /\ GoTo(p, "dispatched")
      /\ UNCHANGED <<request, requestId, charged, verdict, reconciled,
                     stranded, spent, reserved, absent, calls, billed, unmetered>>
  BY DEF Dispatch, At, accounts, providers
<1>2. /\ TypeOK /\ k \in Keys /\ request[k] = call[p].request /\ RowSound(k)
      /\ call[p].pc \in working
  BY <1>1, WorkingRow DEF GatewayInv, working
<1>3. /\ call' \in [Procs -> Call]
      /\ call'[p].pc = "dispatched"
      /\ call'[p].request = call[p].request /\ call'[p].route = call[p].route
      /\ \A q \in Procs \ {p} : call'[q] = call[q]
  BY <1>1, <1>2, GoToStep DEF TypeOK, Place
<1>4. TypeOK'
  BY <1>1, <1>2, <1>3 DEF TypeOK, Rows, Outcome
<1>5. WithinBudget'
  BY <1>1 DEF GatewayInv, WithinBudget
<1>6. RowSound(k)'
  BY <1>1, <1>2 DEF RowSound, TypeOK, Rows, final
<1>7. CallOfRow(p)'
  BY <1>1, <1>2, <1>3 DEF CallOfRow, Key, At, RowSound, TypeOK, Rows
<1>8. \A j \in Keys \ {k} : SameRow(j)
  BY <1>1, <1>2 DEF SameRow, TypeOK, Rows
<1>. QED
  BY <1>2, <1>3, <1>4, <1>5, <1>6, <1>7, <1>8, OwnStep

(* The first call under its key: a call that was just dispatched.          *)
LEMMA InvokeInv ==
    ASSUME GatewayInv, NEW p \in Procs, Invoke(p) PROVE GatewayInv'
<1>. SUFFICES ASSUME NEW k, k = Key(p) PROVE GatewayInv'
  OBVIOUS
<1>1. /\ call[p].pc = "dispatched"
      /\ calls' = [calls EXCEPT ![k] = @ + 1]
      /\ GoTo(p, "calling")
      /\ UNCHANGED <<outcome, request, requestId, charged, verdict,
                     reconciled, stranded, spent, reserved, absent, billed,
                     unmetered>>
  BY DEF Invoke, At, rows, accounts
<1>2. /\ TypeOK /\ k \in Keys /\ request[k] = call[p].request /\ RowSound(k)
      /\ call[p].pc \in working /\ CallOfRow(p)
  BY <1>1, WorkingRow DEF GatewayInv, working, CallsOwnTheirRows
<1>3. /\ call' \in [Procs -> Call]
      /\ call'[p].pc = "calling"
      /\ call'[p].request = call[p].request /\ call'[p].route = call[p].route
      /\ \A q \in Procs \ {p} : call'[q] = call[q]
  BY <1>1, <1>2, GoToStep DEF TypeOK, Place
<1>4. TypeOK'
  BY <1>1, <1>2, <1>3 DEF TypeOK, Rows
<1>5. WithinBudget'
  BY <1>1 DEF GatewayInv, WithinBudget
<1>6. calls[k] = 0 /\ outcome[k] = "dispatched"
  BY <1>1, <1>2 DEF CallOfRow, At
<1>7. RowSound(k)'
  BY <1>1, <1>2, <1>6 DEF RowSound, TypeOK, final
<1>8. CallOfRow(p)'
  BY <1>1, <1>2, <1>3, <1>6 DEF CallOfRow, Key, At
<1>9. \A j \in Keys \ {k} : SameRow(j)
  BY <1>1, <1>2 DEF SameRow, TypeOK
<1>. QED
  BY <1>2, <1>3, <1>4, <1>5, <1>7, <1>8, <1>9, OwnStep

(* What the provider bills is written while the row is still dispatched.   *)
LEMMA BilledInv ==
    ASSUME GatewayInv, NEW p \in Procs, call[p].pc = "calling",
           NEW k, k = Key(p), NEW bill \in Nat,
           billed' = [billed EXCEPT ![k] = bill],
           unmetered' \subseteq Keys,
           \A j \in Keys \ {k} : (j \in unmetered') = (j \in unmetered),
           call' \in [Procs -> Call], absent' \in [Procs -> SUBSET Provider],
           \A q \in Procs \ {p} : call'[q] = call[q],
           UNCHANGED <<rows, stranded, accounts, calls>>,
           \/ call'[p] = Idle
           \/ /\ call'[p].request = call[p].request
              /\ call'[p].route = call[p].route
              /\ \/ /\ call'[p].pc = "answered"
                    /\ call'[p].cost = IF k \in unmetered' THEN 0 ELSE bill
                 \/ /\ call'[p].pc = "failing"
                    /\ ~call'[p].outcomeUnknown => bill = 0
    PROVE  GatewayInv'
<1>1. UNCHANGED <<outcome, request, requestId, charged, verdict, reconciled,
                  stranded, spent, reserved, calls>>
  BY DEF rows, accounts
<1>2. /\ TypeOK /\ k \in Keys /\ request[k] = call[p].request /\ RowSound(k)
      /\ call[p].pc \in working /\ CallOfRow(p)
  BY WorkingRow DEF GatewayInv, working, CallsOwnTheirRows
<1>3. outcome[k] = "dispatched"
  BY <1>2 DEF CallOfRow, At
<1>4. TypeOK'
  BY <1>1, <1>2 DEF TypeOK, Rows
<1>5. WithinBudget'
  BY <1>1 DEF GatewayInv, WithinBudget
<1>6. RowSound(k)'
  BY <1>1, <1>2, <1>3 DEF RowSound, TypeOK, final
<1>7. call'[p] # Idle => CallOfRow(p)'
  <2>1. billed'[k] = bill
    BY <1>2 DEF TypeOK
  <2>. QED
    BY <1>1, <1>2, <1>3, <2>1 DEF CallOfRow, Key, At
<1>8. \A j \in Keys \ {k} : SameRow(j)
  BY <1>1, <1>2 DEF SameRow, TypeOK
<1>. QED
  BY <1>2, <1>4, <1>5, <1>6, <1>7, <1>8, OwnStep

LEMMA AnswerInv ==
    ASSUME GatewayInv, NEW p \in Procs, NEW sound \in BOOLEAN,
           NEW metered \in BOOLEAN, NEW bill \in Costs,
           Answer(p, sound, bill, metered)
    PROVE  GatewayInv'
<1>. SUFFICES ASSUME NEW k, k = Key(p), NEW cost,
                     cost = IF metered THEN bill ELSE 0
              PROVE  GatewayInv'
  OBVIOUS
<1>1. /\ call[p].pc = "calling" /\ bill \in Nat /\ cost \in Nat
      /\ billed' = [billed EXCEPT ![k] = bill]
      /\ unmetered' = IF metered THEN unmetered \ {k} ELSE unmetered \cup {k}
      /\ call' = [call EXCEPT ![p] = [call[p] EXCEPT !.pc = "answered",
                                          !.sound = sound, !.cost = cost]]
      /\ UNCHANGED <<rows, stranded, accounts, absent, calls>>
  BY DEF Answer, At
<1>2. /\ call \in [Procs -> Call] /\ absent \in [Procs -> SUBSET Provider]
      /\ unmetered \subseteq Keys
  BY DEF GatewayInv, TypeOK
<1>3. call' \in [Procs -> Call]
  BY <1>1, <1>2, MovedByAnswer
<1>4. /\ \A q \in Procs \ {p} : call'[q] = call[q]
      /\ call'[p] = [call[p] EXCEPT !.pc = "answered", !.sound = sound,
                                    !.cost = cost]
      /\ call[p] \in Call
  BY <1>1, <1>2
<1>5. /\ call'[p].request = call[p].request /\ call'[p].route = call[p].route
      /\ call'[p].pc = "answered" /\ call'[p].cost = cost
  BY <1>4 DEF Call
<1>6. k \in Keys
  BY <1>1, WorkingRow DEF working
<1>7. /\ unmetered' \subseteq Keys
      /\ \A j \in Keys \ {k} : (j \in unmetered') = (j \in unmetered)
      /\ cost = IF k \in unmetered' THEN 0 ELSE bill
  BY <1>1, <1>2, <1>6
<1>. QED
  BY <1>1, <1>2, <1>3, <1>4, <1>5, <1>7, BilledInv

(* An adapter that says it knows its outcome was billed for nothing, which *)
(* is what lets the row be closed as free.                                 *)
LEMMA AdapterFailsInv ==
    ASSUME GatewayInv, NEW p \in Procs, NEW f \in Failures(call[p].route),
           NEW bill \in Costs, AdapterFails(p, f, bill)
    PROVE  GatewayInv'
<1>. SUFFICES ASSUME NEW k, k = Key(p) PROVE GatewayInv'
  OBVIOUS
<1>. DEFINE moved == [call[p] EXCEPT !.pc = "failing",
                             !.outcomeUnknown = f.outcomeUnknown,
                             !.requestId = f.requestId, !.absent = f.absent]
<1>1. /\ call[p].pc = "calling" /\ bill \in Nat
      /\ bill > 0 => f.outcomeUnknown
      /\ billed' = [billed EXCEPT ![k] = bill]
      /\ call' = [call EXCEPT ![p] = moved]
      /\ UNCHANGED <<rows, stranded, accounts, absent, calls, unmetered>>
  BY DEF AdapterFails, At
<1>2. /\ f.outcomeUnknown \in BOOLEAN /\ f.requestId \in BOOLEAN
      /\ f.absent \in BOOLEAN
  <2>1. call[p].route \in Provider
    BY <1>1, WorkingRow DEF working
  <2>2. \E unknown, id, gone \in BOOLEAN : f = Failed(unknown, id, gone)
    BY <2>1 DEF Failures, Provider
  <2>. QED
    BY <2>2 DEF Failed
<1>3. /\ call \in [Procs -> Call] /\ absent \in [Procs -> SUBSET Provider]
      /\ unmetered \subseteq Keys
  BY DEF GatewayInv, TypeOK
<1>4. call' \in [Procs -> Call]
  BY <1>1, <1>2, <1>3, MovedByFailure
<1>5. /\ \A q \in Procs \ {p} : call'[q] = call[q]
      /\ call'[p] = moved
      /\ call[p] \in Call
  BY <1>1, <1>3
<1>6. /\ call'[p].request = call[p].request /\ call'[p].route = call[p].route
      /\ call'[p].pc = "failing" /\ call'[p].outcomeUnknown = f.outcomeUnknown
  BY <1>5 DEF Call
<1>7. ~call'[p].outcomeUnknown => bill = 0
  BY <1>1, <1>6
<1>. HIDE DEF moved
<1>. QED
  BY <1>1, <1>3, <1>4, <1>5, <1>6, <1>7, BilledInv

(* A process may die anywhere; its row stays as it was, billed or not.     *)
LEMMA CrashInv ==
    ASSUME GatewayInv, NEW p \in Procs, NEW bill \in Costs, Crash(p, bill)
    PROVE  GatewayInv'
<1>. SUFFICES ASSUME NEW k, k = Key(p) PROVE GatewayInv'
  OBVIOUS
<1>1. /\ billed' = IF call[p].pc = "calling"
                   THEN [billed EXCEPT ![k] = bill] ELSE billed
      /\ Return(p) /\ call' = [call EXCEPT ![p] = Idle] /\ bill \in Nat
      /\ absent' = [absent EXCEPT ![p] = {}]
      /\ UNCHANGED <<rows, stranded, accounts, calls, unmetered>>
  BY DEF Crash, Return, At
<1>2. /\ call \in [Procs -> Call] /\ absent \in [Procs -> SUBSET Provider]
      /\ unmetered \subseteq Keys
  BY DEF GatewayInv, TypeOK
<1>3. /\ call' \in [Procs -> Call] /\ absent' \in [Procs -> SUBSET Provider]
      /\ \A q \in Procs \ {p} : call'[q] = call[q]
      /\ call'[p] = Idle
  BY <1>1, <1>2 DEF Call, Idle
<1>4. CASE call[p].pc = "calling"
  BY <1>1, <1>2, <1>3, <1>4, BilledInv
<1>5. CASE call[p].pc # "calling"
  BY <1>1, <1>3, <1>5, ReturnInv DEF providers
<1>. QED
  BY <1>4, <1>5

(* Settling charges what was metered, which the reservation covers.        *)
LEMMA SettleInv ==
    ASSUME GatewayInv, NEW p \in Procs, Settle(p) PROVE GatewayInv'
<1>. SUFFICES ASSUME NEW r, r = call[p].request, NEW k, k = Key(p),
                     NEW s, s = ScopeOf[r], NEW cost, cost = call[p].cost
              PROVE  GatewayInv'
  OBVIOUS
<1>1. /\ call[p].pc = "answered"
      /\ outcome[k] = "dispatched"
      /\ cost <= MaxCost[r]
      /\ \E o \in final : outcome' = [outcome EXCEPT ![k] = o]
      /\ requestId' = [requestId EXCEPT ![k] = TRUE]
      /\ charged' = [charged EXCEPT ![k] = cost]
      /\ spent' = [spent EXCEPT ![s] = @ + cost]
      /\ reserved' = [reserved EXCEPT ![s] = @ - MaxCost[r]]
      /\ stranded' = stranded \ {k}
      /\ Return(p) \/ Throw(p)
      /\ UNCHANGED <<request, verdict, reconciled, absent, calls, billed, unmetered>>
  BY DEF Settle, At, Key, Chargeable, final, providers
<1>2. /\ TypeOK /\ k \in Keys /\ r \in Requests /\ request[k] = r
      /\ RowSound(k) /\ call[p].pc \in working /\ CallOfRow(p)
      /\ call[p] \in Call /\ cost \in Nat
  BY <1>1, WorkingRow
     DEF GatewayInv, working, CallsOwnTheirRows, TypeOK, Call
<1>3. cost = Metered(k)
  BY <1>1, <1>2 DEF CallOfRow, At
<1>4. PICK o \in final : outcome' = [outcome EXCEPT ![k] = o]
  BY <1>1
<1>5. /\ call' \in [Procs -> Call]
      /\ \A q \in Procs \ {p} : call'[q] = call[q]
      /\ \/ call'[p] = Idle
         \/ /\ call'[p].pc = "failing" /\ call'[p].outcomeUnknown
            /\ call'[p].request = r /\ call'[p].route = call[p].route
  <2>1. CASE Return(p)
    BY <1>2, <2>1 DEF Return, TypeOK, Call, Idle
  <2>2. CASE Throw(p)
    <3>1. call' = [call EXCEPT ![p] = [call[p] EXCEPT !.pc = "failing",
                               !.outcomeUnknown = TRUE, !.requestId = FALSE]]
      BY <2>2 DEF Throw
    <3>2. call' \in [Procs -> Call]
      BY <1>2, <3>1, MovedByThrow DEF TypeOK
    <3>. QED
      BY <1>2, <3>1, <3>2 DEF TypeOK, Call
  <2>. QED
    BY <1>1, <2>1, <2>2
<1>6. spent' \in [Scopes -> Nat] /\ reserved' \in [Scopes -> Int]
  BY <1>1, <1>2 DEF TypeOK
<1>7. TypeOK'
  <2>1. Rows'
    BY <1>1, <1>2, <1>4 DEF TypeOK, Rows, Outcome, final
  <2>. QED
    BY <1>1, <1>2, <1>5, <1>6, <2>1 DEF TypeOK
<1>8. WithinBudget'
  BY <1>1, <1>2 DEF GatewayInv, WithinBudget, TypeOK
<1>9. RowSound(k)'
  BY <1>1, <1>2, <1>3, <1>4 DEF RowSound, TypeOK, Rows, final
<1>10. call'[p] # Idle => CallOfRow(p)'
  BY <1>1, <1>2, <1>4, <1>5 DEF CallOfRow, Key, At, TypeOK, Rows, final
<1>11. \A j \in Keys \ {k} : SameRow(j)
  BY <1>1, <1>2 DEF SameRow, TypeOK, Rows
<1>. QED
  BY <1>2, <1>5, <1>7, <1>8, <1>9, <1>10, <1>11, OwnStep

(* A settlement that fails leaves the row, and an unknown outcome behind.  *)
LEMMA SettleThrowsInv ==
    ASSUME GatewayInv, NEW p \in Procs, SettleThrows(p) PROVE GatewayInv'
<1>. SUFFICES ASSUME NEW k, k = Key(p) PROVE GatewayInv'
  OBVIOUS
<1>1. /\ call[p].pc = "answered"
      /\ call' = [call EXCEPT ![p] = [call[p] EXCEPT !.pc = "failing",
                               !.outcomeUnknown = TRUE, !.requestId = FALSE]]
      /\ UNCHANGED <<outcome, request, requestId, charged, verdict,
                     reconciled, stranded, spent, reserved, absent, calls,
                     billed, unmetered>>
  BY DEF SettleThrows, Throw, At, rows, accounts, providers
<1>2. /\ TypeOK /\ k \in Keys /\ request[k] = call[p].request /\ RowSound(k)
      /\ call[p].pc \in working /\ CallOfRow(p) /\ call[p] \in Call
  BY <1>1, WorkingRow DEF GatewayInv, working, CallsOwnTheirRows, TypeOK
<1>3. call' \in [Procs -> Call]
  BY <1>1, <1>2, MovedByThrow DEF TypeOK
<1>4. /\ call'[p].pc = "failing" /\ call'[p].outcomeUnknown
      /\ call'[p].request = call[p].request /\ call'[p].route = call[p].route
      /\ \A q \in Procs \ {p} : call'[q] = call[q]
  BY <1>1, <1>2 DEF TypeOK, Call
<1>5. TypeOK'
  BY <1>1, <1>2, <1>3 DEF TypeOK, Rows
<1>6. WithinBudget'
  BY <1>1 DEF GatewayInv, WithinBudget
<1>7. RowSound(k)' /\ \A j \in Keys : SameRow(j)
  BY <1>1, <1>2 DEF RowSound, SameRow
<1>8. CallOfRow(p)'
  BY <1>1, <1>2, <1>4 DEF CallOfRow, Key, At
<1>. QED
  BY <1>2, <1>3, <1>4, <1>5, <1>6, <1>7, <1>8, OwnStep

(* fail() closes a row as free only when nothing was billed for it.        *)
LEMMA LedgerFailInv ==
    ASSUME GatewayInv, NEW p \in Procs, call[p].pc \in working, Return(p),
           NEW unknown \in BOOLEAN, NEW id \in BOOLEAN,
           LedgerFail(Key(p), unknown, id), ~unknown => billed[Key(p)] = 0,
           absent' \in [Procs -> SUBSET Provider],
           UNCHANGED <<calls, billed, unmetered>>
    PROVE  GatewayInv'
<1>. SUFFICES ASSUME NEW k, k = Key(p),
                     NEW r, r = request[k], NEW s, s = ScopeOf[r]
              PROVE  GatewayInv'
  OBVIOUS
<1>1. /\ outcome[k] \in unsettled
      /\ outcome' = [outcome EXCEPT ![k] = IF unknown THEN "outcome_unknown"
                                                      ELSE "failed"]
      /\ requestId' = [requestId EXCEPT ![k] = id]
      /\ reserved' = IF unknown THEN reserved
                     ELSE [reserved EXCEPT ![s] = @ - MaxCost[r]]
      /\ stranded' = stranded \ {k}
      /\ UNCHANGED <<request, charged, verdict, reconciled, spent>>
  BY DEF LedgerFail, AfterFailure
<1>2. /\ TypeOK /\ k \in Keys /\ r \in Requests /\ RowSound(k)
  BY WorkingRow DEF GatewayInv
<1>3. /\ call' \in [Procs -> Call] /\ call'[p] = Idle
      /\ \A q \in Procs \ {p} : call'[q] = call[q]
  BY <1>2 DEF Return, TypeOK, Call, Idle
<1>4. reserved' \in [Scopes -> Int]
  BY <1>1, <1>2 DEF TypeOK
<1>5. TypeOK'
  <2>1. Rows'
    BY <1>1, <1>2 DEF TypeOK, Rows, Outcome
  <2>. QED
    BY <1>1, <1>2, <1>3, <1>4, <2>1 DEF TypeOK
<1>6. WithinBudget'
  BY <1>1, <1>2 DEF GatewayInv, WithinBudget, TypeOK
<1>7. RowSound(k)'
  <2>1. charged[k] = 0 /\ KeyOf[r] = k /\ calls[k] <= 1
    BY <1>1, <1>2 DEF RowSound, unsettled, final
  <2>2. ~unknown => billed[k] = 0
    OBVIOUS
  <2>3. outcome'[k] = IF unknown THEN "outcome_unknown" ELSE "failed"
    BY <1>1, <1>2 DEF TypeOK, Rows
  <2>. QED
    BY <1>1, <1>2, <2>1, <2>2, <2>3 DEF RowSound, final
<1>8. \A j \in Keys \ {k} : SameRow(j)
  BY <1>1, <1>2 DEF SameRow, TypeOK, Rows
<1>. QED
  BY <1>3, <1>5, <1>6, <1>7, <1>8, OwnStep

LEMMA ProviderUnavailableInv ==
    ASSUME GatewayInv, NEW p \in Procs, ProviderUnavailable(p)
    PROVE  GatewayInv'
<1>1. /\ call[p].pc = "reserved" /\ call[p].pc \in working /\ Return(p)
      /\ LedgerFail(Key(p), FALSE, FALSE)
      /\ UNCHANGED <<absent, calls, billed, unmetered>>
  BY DEF ProviderUnavailable, At, working, providers
<1>2. outcome[Key(p)] = "reserved" /\ Key(p) \in Keys
  BY <1>1, WorkingRow DEF GatewayInv, CallsOwnTheirRows, CallOfRow, At
<1>3. billed[Key(p)] = 0 /\ absent \in [Procs -> SUBSET Provider]
  BY <1>2 DEF GatewayInv, RowSound, TypeOK
<1>. QED
  BY <1>1, <1>3, LedgerFailInv

LEMMA FailInv ==
    ASSUME GatewayInv, NEW p \in Procs, Fail(p) PROVE GatewayInv'
<1>1. /\ call[p].pc = "failing" /\ call[p].pc \in working /\ Return(p)
      /\ LedgerFail(Key(p), call[p].outcomeUnknown \/ call[p].requestId,
                    call[p].requestId)
      /\ \/ absent' = [absent EXCEPT ![p] = @ \cup {call[p].route}]
         \/ absent' = absent
      /\ UNCHANGED <<calls, billed, unmetered>>
  BY DEF Fail, At, working, providers
<1>2. /\ call[p].route \in Provider
      /\ absent \in [Procs -> SUBSET Provider]
      /\ call[p].outcomeUnknown \in BOOLEAN /\ call[p].requestId \in BOOLEAN
  BY <1>1, WorkingRow DEF GatewayInv, TypeOK, Call
<1>3. ~call[p].outcomeUnknown => billed[Key(p)] = 0
  BY <1>1 DEF GatewayInv, CallsOwnTheirRows, CallOfRow, At
<1>4. absent' \in [Procs -> SUBSET Provider]
  BY <1>1, <1>2
<1>. QED
  BY <1>1, <1>2, <1>3, <1>4, LedgerFailInv

-----------------------------------------------------------------------------
(* Age(k) waits for the calls on the row, so none of them loses its row.   *)
LEMMA AgeInv ==
    ASSUME GatewayInv, NEW k \in Keys, Age(k) PROVE GatewayInv'
<1>1. /\ outcome[k] = "dispatched"
      /\ \A p \in Procs : call[p].pc \in {"dispatched", "calling"}
                              => Key(p) # k
      /\ stranded' = stranded \cup {k}
      /\ UNCHANGED <<outcome, request, requestId, charged, verdict,
                     reconciled, spent, reserved, call, absent, calls, billed, unmetered>>
  BY DEF Age, rows, accounts, providers
<1>2. TypeOK' /\ WithinBudget'
  BY <1>1 DEF GatewayInv, TypeOK, Rows, WithinBudget
<1>3. \A j \in Keys : RowSound(j)'
  BY <1>1 DEF GatewayInv, RowSound
<1>4. ASSUME NEW p \in Procs, call[p].pc \in working
      PROVE  /\ At(p, "reserved") => outcome'[Key(p)] = "reserved"
             /\ call[p].pc \in {"dispatched", "calling"} =>
                    outcome'[Key(p)] = "dispatched" /\ Key(p) \notin stranded'
             /\ call[p].pc \in {"answered", "failing"} =>
                    outcome'[Key(p)] \notin {"none", "reserved"}
  BY <1>1, <1>4 DEF GatewayInv, CallsOwnTheirRows, CallOfRow
<1>. QED
  BY <1>1, <1>2, <1>3, <1>4, LedgerStep DEF providers

(* Only rows whose call is over are reclaimed, and none becomes settled.   *)
LEMMA ReclaimInv ==
    ASSUME GatewayInv, reclaimStranded PROVE GatewayInv'
<1>1. /\ outcome' = [k \in Keys |-> IF k \in stranded THEN "outcome_unknown"
                                                       ELSE outcome[k]]
      /\ stranded' = {}
      /\ UNCHANGED <<request, requestId, charged, verdict, reconciled, spent,
                     reserved, call, absent, calls, billed, unmetered>>
  BY DEF reclaimStranded, Reclaimed, accounts, providers
<1>2. TypeOK /\ \A k \in Keys : RowSound(k)
  BY DEF GatewayInv
<1>3. TypeOK'
  BY <1>1, <1>2 DEF TypeOK, Rows, Outcome
<1>4. WithinBudget'
  BY <1>1 DEF GatewayInv, WithinBudget
<1>5. \A k \in Keys : RowSound(k)'
  BY <1>1, <1>2 DEF RowSound, final
<1>6. ASSUME NEW p \in Procs, call[p].pc \in working
      PROVE  /\ At(p, "reserved") => outcome'[Key(p)] = "reserved"
             /\ call[p].pc \in {"dispatched", "calling"} =>
                    outcome'[Key(p)] = "dispatched" /\ Key(p) \notin stranded'
             /\ call[p].pc \in {"answered", "failing"} =>
                    outcome'[Key(p)] \notin {"none", "reserved"}
  <2>1. CallOfRow(p) /\ Key(p) \in Keys /\ RowSound(Key(p))
    BY <1>2, <1>6, WorkingRow DEF GatewayInv, CallsOwnTheirRows
  <2>2. Key(p) \in stranded => outcome[Key(p)] = "dispatched"
    BY <2>1 DEF RowSound
  <2>. QED
    BY <1>1, <2>1, <2>2 DEF CallOfRow, At
<1>. QED
  BY <1>1, <1>3, <1>4, <1>5, <1>6, LedgerStep DEF providers

(* A reconciled row is settled by an operator's word, not by its bill.     *)
LEMMA ReconcileInv ==
    ASSUME GatewayInv, NEW k \in Keys, reconcileUnknownAsFailed(k)
    PROVE  GatewayInv'
<1>. SUFFICES ASSUME NEW r, r = request[k], NEW s, s = ScopeOf[r]
              PROVE  GatewayInv'
  OBVIOUS
<1>1. /\ outcome[k] = "outcome_unknown"
      /\ outcome' = [outcome EXCEPT ![k] = "failed"]
      /\ reserved' = IF reserved[s] >= MaxCost[r]
                     THEN [reserved EXCEPT ![s] = @ - MaxCost[r]]
                     ELSE reserved
      /\ reconciled' = reconciled \cup {k}
      /\ UNCHANGED <<request, requestId, charged, verdict, stranded, spent,
                     call, absent, calls, billed, unmetered>>
  BY DEF reconcileUnknownAsFailed, providers
<1>2. TypeOK /\ (\A j \in Keys : RowSound(j)) /\ r \in Requests
  BY <1>1 DEF GatewayInv, RowSound
<1>3. reserved' \in [Scopes -> Int]
  BY <1>1, <1>2 DEF TypeOK
<1>4. TypeOK'
  <2>1. Rows'
    BY <1>1, <1>2 DEF TypeOK, Rows, Outcome
  <2>. QED
    BY <1>1, <1>2, <1>3, <2>1 DEF TypeOK
<1>5. WithinBudget'
  BY <1>1, <1>2 DEF GatewayInv, WithinBudget, TypeOK
<1>6. \A j \in Keys : RowSound(j)'
  <2>1. \A j \in Keys : outcome'[j] = IF j = k THEN "failed" ELSE outcome[j]
    BY <1>1, <1>2 DEF TypeOK, Rows
  <2>. QED
    BY <1>1, <1>2, <2>1 DEF RowSound, final
<1>7. ASSUME NEW p \in Procs, call[p].pc \in working
      PROVE  /\ At(p, "reserved") => outcome'[Key(p)] = "reserved"
             /\ call[p].pc \in {"dispatched", "calling"} =>
                    outcome'[Key(p)] = "dispatched" /\ Key(p) \notin stranded'
             /\ call[p].pc \in {"answered", "failing"} =>
                    outcome'[Key(p)] \notin {"none", "reserved"}
  <2>1. CallOfRow(p) /\ Key(p) \in Keys
    BY <1>7, WorkingRow DEF GatewayInv, CallsOwnTheirRows
  <2>2. outcome'[Key(p)] = IF Key(p) = k THEN "failed" ELSE outcome[Key(p)]
    BY <1>1, <1>2, <2>1 DEF TypeOK, Rows
  <2>. QED
    BY <1>1, <2>1, <2>2 DEF CallOfRow, At
<1>. QED
  BY <1>1, <1>4, <1>5, <1>6, <1>7, LedgerStep DEF providers

LEMMA VerifyInv ==
    ASSUME GatewayInv, NEW k \in Keys, NEW passed \in {"passed", "failed"},
           recordVerification(k, passed)
    PROVE  GatewayInv'
<1>1. /\ verdict' = [verdict EXCEPT ![k] = passed]
      /\ UNCHANGED <<outcome, request, requestId, charged, reconciled,
                     stranded, spent, reserved, call, absent, calls, billed, unmetered>>
  BY DEF recordVerification, accounts, providers
<1>2. TypeOK' /\ WithinBudget'
  BY <1>1 DEF GatewayInv, TypeOK, Rows, WithinBudget
<1>3. \A j \in Keys : RowSound(j)'
  BY <1>1 DEF GatewayInv, RowSound
<1>4. ASSUME NEW p \in Procs, call[p].pc \in working
      PROVE  /\ At(p, "reserved") => outcome'[Key(p)] = "reserved"
             /\ call[p].pc \in {"dispatched", "calling"} =>
                    outcome'[Key(p)] = "dispatched" /\ Key(p) \notin stranded'
             /\ call[p].pc \in {"answered", "failing"} =>
                    outcome'[Key(p)] \notin {"none", "reserved"}
  BY <1>1, <1>4 DEF GatewayInv, CallsOwnTheirRows, CallOfRow
<1>. QED
  BY <1>1, <1>2, <1>3, <1>4, LedgerStep DEF providers

-----------------------------------------------------------------------------
LEMMA InitInv == Init => GatewayInv
<1>. SUFFICES ASSUME Init PROVE GatewayInv
  OBVIOUS
<1>1. TypeOK
  BY DEF Init, TypeOK, Rows, Outcome, Call, Idle
<1>2. WithinBudget
  BY DEF Init, WithinBudget
<1>3. \A k \in Keys : RowSound(k)
  BY DEF Init, RowSound, final
<1>4. \A p \in Procs : CallNamed(p) /\ call[p].pc \notin working
  BY DEF Init, CallNamed, At, Idle, working
<1>. QED
  BY <1>1, <1>2, <1>3, <1>4 DEF GatewayInv, CallsOwnTheirRows

(* Every step of execute() keeps it,                                       *)
LEMMA WorkingInv ==
    ASSUME GatewayInv, NEW p \in Procs, Working(p) PROVE GatewayInv'
<1>0. absent \in [Procs -> SUBSET Provider]
  BY DEF GatewayInv, TypeOK
<1>1. CASE Reserve(p)
  BY <1>1, ReserveInv
<1>2. CASE ReserveThrows(p)
  BY <1>0, <1>2, ReturnInv DEF ReserveThrows
<1>3. CASE ProviderUnavailable(p)
  BY <1>3, ProviderUnavailableInv
<1>4. CASE Dispatch(p)
  BY <1>4, DispatchInv
<1>5. CASE Invoke(p)
  BY <1>5, InvokeInv
<1>6. CASE \E sound, metered \in BOOLEAN, c \in Costs :
               Answer(p, sound, c, metered)
  BY <1>6, AnswerInv
<1>7. CASE \E f \in Failures(call[p].route), c \in Costs :
               AdapterFails(p, f, c)
  BY <1>7, AdapterFailsInv
<1>8. CASE Settle(p)
  BY <1>8, SettleInv
<1>9. CASE SettleThrows(p)
  BY <1>9, SettleThrowsInv
<1>10. CASE Fail(p)
  BY <1>10, FailInv
<1>11. CASE FailThrows(p)
  BY <1>0, <1>11, ReturnInv DEF FailThrows
<1>. QED
  BY <1>1, <1>2, <1>3, <1>4, <1>5, <1>6, <1>7, <1>8, <1>9, <1>10, <1>11
     DEF Working

(* and so does every step.                                                 *)
LEMMA NextInv == GatewayInv /\ [Next]_vars => GatewayInv'
<1>. SUFFICES ASSUME GatewayInv, [Next]_vars PROVE GatewayInv'
  OBVIOUS
<1>0. absent \in [Procs -> SUBSET Provider]
  BY DEF GatewayInv, TypeOK
<1>1. ASSUME NEW p \in Procs, NEW r \in Requests, NEW q \in Provider,
             Submit(p, r, q)
      PROVE  GatewayInv'
  BY <1>1, SubmitInv
<1>2. ASSUME NEW p \in Procs, Working(p) PROVE GatewayInv'
  BY <1>2, WorkingInv
<1>3. ASSUME NEW p \in Procs, DatabaseFails(p) PROVE GatewayInv'
  BY <1>0, <1>3, ReturnInv DEF DatabaseFails
<1>4. ASSUME NEW p \in Procs, NEW c \in Costs, Crash(p, c) PROVE GatewayInv'
  BY <1>4, CrashInv
<1>5. ASSUME NEW k \in Keys, Age(k) PROVE GatewayInv'
  BY <1>5, AgeInv
<1>6. ASSUME NEW k \in Keys, reconcileUnknownAsFailed(k) PROVE GatewayInv'
  BY <1>6, ReconcileInv
<1>7. ASSUME NEW k \in Keys, NEW passed \in {"passed", "failed"},
             recordVerification(k, passed)
      PROVE  GatewayInv'
  BY <1>7, VerifyInv
<1>8. CASE reclaimStranded
  BY <1>8, ReclaimInv
<1>9. CASE UNCHANGED vars
  BY <1>9 DEF vars, rows, accounts, providers, GatewayInv, TypeOK, Rows,
              WithinBudget, RowSound, CallNamed, CallsOwnTheirRows, CallOfRow,
              Key, At
<1>. QED
  BY <1>1, <1>2, <1>3, <1>4, <1>5, <1>6, <1>7, <1>8, <1>9 DEF Next

-----------------------------------------------------------------------------
(* GatewayInv holds in every reachable state.                              *)
THEOREM GatewayInvariant == Spec => []GatewayInv
  BY InitInv, NextInv, PTL DEF Spec

(* The tables, execute()'s locals and the bills keep their types.          *)
THEOREM TypeCorrect == Spec => []TypeOK
<1>1. GatewayInv => TypeOK
  BY DEF GatewayInv
<1>. QED
  BY <1>1, GatewayInvariant, PTL

(* No account ever holds and spends more than its owner allows.            *)
THEOREM BudgetKept == Spec => []WithinBudget
<1>1. GatewayInv => WithinBudget
  BY DEF GatewayInv
<1>. QED
  BY <1>1, GatewayInvariant, PTL

(* An idempotency key reaches a provider at most once, in any number of    *)
(* processes, presentations, crashes and lost replies, and not before its  *)
(* reservation is committed and dispatched.                                *)
THEOREM AtMostOneCall == Spec => []OneCallPerKey
<1>1. GatewayInv => OneCallPerKey
  BY DEF GatewayInv, RowSound, OneCallPerKey
<1>. QED
  BY <1>1, GatewayInvariant, PTL

(* A row closed by the program was charged what the provider billed for    *)
(* it, unless its answer came without its usage.                           *)
THEOREM ChargedAsMetered == Spec => []SettledAsMetered
<1>1. GatewayInv => SettledAsMetered
  BY DEF GatewayInv, RowSound, SettledAsMetered
<1>. QED
  BY <1>1, GatewayInvariant, PTL

(* Each call agrees with its row, and no two calls share one.              *)
THEOREM OneCallPerRow == Spec => []CallsOwnTheirRows
<1>1. GatewayInv => CallsOwnTheirRows
  BY DEF GatewayInv
<1>. QED
  BY <1>1, GatewayInvariant, PTL

(* What one step may do to one row.                                        *)
RowKept(k) ==
    /\ outcome[k] \in final =>
           /\ outcome'[k] = outcome[k]
           /\ charged'[k] = charged[k]
           /\ requestId'[k] = requestId[k]
    /\ outcome[k] = "outcome_unknown" =>
           \/ outcome'[k] = "outcome_unknown"
           \/ outcome'[k] = "failed" /\ ~requestId[k]
    /\ verdict[k] # "none" => verdict'[k] = verdict[k]

(* Every transaction of execute() writes the one row it has checked to be  *)
(* absent or unsettled.                                                    *)
LEMMA WorkingKeepsRows ==
    ASSUME GatewayInv, NEW p \in Procs, NEW k \in Keys, Working(p)
    PROVE  RowKept(k)
<1>1. Rows
  BY DEF GatewayInv, TypeOK
<1>2. CASE UNCHANGED rows
  BY <1>2 DEF RowKept, rows
<1>3. CASE Reserve(p)
  BY <1>1, <1>3 DEF Reserve, RowKept, Rows, final
<1>4. CASE Dispatch(p)
  BY <1>1, <1>4 DEF Dispatch, RowKept, Rows, final
<1>5. CASE Settle(p)
  BY <1>1, <1>5 DEF Settle, RowKept, Rows, final
<1>6. ASSUME NEW unknown \in BOOLEAN, NEW id \in BOOLEAN,
             LedgerFail(Key(p), unknown, id)
      PROVE  RowKept(k)
  BY <1>1, <1>6 DEF LedgerFail, RowKept, Rows, final, unsettled
<1>7. CASE ProviderUnavailable(p)
  BY <1>6, <1>7 DEF ProviderUnavailable
<1>8. CASE Fail(p)
  <2>1. call[p].outcomeUnknown \in BOOLEAN /\ call[p].requestId \in BOOLEAN
    BY DEF GatewayInv, TypeOK, Call
  <2>. QED
    BY <1>6, <1>8, <2>1 DEF Fail
<1>. QED
  BY <1>2, <1>3, <1>4, <1>5, <1>7, <1>8
     DEF Working, ReserveThrows, Invoke, Answer, AdapterFails, SettleThrows,
         FailThrows

LEMMA RowsKept ==
    ASSUME GatewayInv, [Next]_vars, NEW k \in Keys PROVE RowKept(k)
<1>1. Rows /\ RowSound(k)
  BY DEF GatewayInv, TypeOK
<1>2. CASE UNCHANGED rows
  BY <1>2 DEF RowKept, rows
<1>3. CASE reclaimStranded
  BY <1>1, <1>3 DEF reclaimStranded, Reclaimed, RowKept, RowSound, final
<1>4. ASSUME NEW j \in Keys, reconcileUnknownAsFailed(j) PROVE RowKept(k)
  BY <1>1, <1>4 DEF reconcileUnknownAsFailed, RowKept, Rows, final
<1>5. ASSUME NEW j \in Keys, NEW passed \in {"passed", "failed"},
             recordVerification(j, passed)
      PROVE  RowKept(k)
  BY <1>1, <1>5 DEF recordVerification, RowKept, Rows
<1>. QED
  BY <1>2, <1>3, <1>4, <1>5, WorkingKeepsRows
     DEF Next, Submit, DatabaseFails, Crash, Age, vars

(* What is settled stays settled, unknown outcomes leave their state only  *)
(* by reconciliation, and a verdict is given once.                         *)
THEOREM SettlementsLast == Spec => SettledIsFinal
<1>1. GatewayInv /\ [Next]_vars => [\A k \in Keys : RowKept(k)]_vars
  BY RowsKept
<1>2. Spec => [][\A k \in Keys : RowKept(k)]_vars
  BY <1>1, GatewayInvariant, PTL DEF Spec
<1>. QED
  BY <1>2 DEF RowKept, SettledIsFinal

-----------------------------------------------------------------------------
(* The accounts.  Whatever happens to the money is one of three: nothing,  *)
(* a row of a new key opens and its reservation is set aside, or an open   *)
(* row closes, is charged, and its reservation is released.                *)
SameMoney(j) ==
    /\ outcome'[j] = "none" <=> outcome[j] = "none"
    /\ outcome'[j] \in open <=> outcome[j] \in open
    /\ outcome'[j] \in final <=> outcome[j] \in final
    /\ outcome[j] # "none" => request'[j] = request[j] /\ charged'[j] = charged[j]

NothingMoves == UNCHANGED accounts /\ \A j \in Keys : SameMoney(j)

Opens(k, r) ==
    /\ outcome[k] = "none" /\ outcome'[k] \in open
    /\ request'[k] = r
    /\ \A j \in Keys \ {k} : SameMoney(j)
    /\ Fits(r)
    /\ reserved' = [reserved EXCEPT ![ScopeOf[r]] = @ + MaxCost[r]]
    /\ spent' = spent

Closes(k, cost) ==
    /\ outcome[k] \in open /\ outcome'[k] \in final
    /\ request'[k] = request[k] /\ charged'[k] = cost
    /\ \A j \in Keys \ {k} : SameMoney(j)
    /\ cost <= MaxCost[request[k]]
    /\ reserved' = [reserved EXCEPT ![ScopeOf[request[k]]] = @ - MaxCost[request[k]]]
    /\ spent' = [spent EXCEPT ![ScopeOf[request[k]]] = @ + cost]

(* The rows there are; however many keys there may be, they are finitely   *)
(* many, so that they have a sum.                                          *)
Present == {k \in Keys : outcome[k] # "none"}

Matched == IsFiniteSet(Present) /\ AccountsMatchRows

(* What the sums are taken over.                                           *)
LEMMA SumsDefined ==
    ASSUME GatewayInv, IsFiniteSet(Present), NEW s
    PROVE  /\ IsFiniteSet(HeldFor(s)) /\ IsFiniteSet(ChargedTo(s))
           /\ \A k \in HeldFor(s) : MaxCost[request[k]] \in Nat
           /\ \A k \in ChargedTo(s) : charged[k] \in Nat
<1>1. HeldFor(s) \subseteq Present /\ ChargedTo(s) \subseteq Present
  BY DEF HeldFor, ChargedTo, Present, open, final
<1>2. \A k \in Present : request[k] \in Requests
  BY DEF Present, GatewayInv, RowSound
<1>3. \A k \in Keys : charged[k] \in Nat
  BY DEF GatewayInv, TypeOK, Rows
<1>. QED BY <1>1, <1>2, <1>3, FS_Subset DEF ChargedTo

(* An open row's reservation is in its account.                            *)
LEMMA HeldIsCovered ==
    ASSUME GatewayInv, Matched, NEW k \in Keys, outcome[k] \in open
    PROVE  reserved[ScopeOf[request[k]]] >= MaxCost[request[k]]
<1>. DEFINE s == ScopeOf[request[k]]
            S == HeldFor(s)
            f == [j \in S |-> MaxCost[request[j]]]
<1>1. request[k] \in Requests /\ s \in Scopes
  BY DEF GatewayInv, RowSound, open
<1>2. k \in S
  BY DEF HeldFor
<1>3. IsFiniteSet(S) /\ \A j \in S : f[j] \in Nat
  BY SumsDefined DEF Matched
<1>4. reserved[s] = SumOver(f, S)
  BY <1>1 DEF Matched, AccountsMatchRows
<1>5. f[k] = MaxCost[request[k]] /\ f[k] \in Nat
  BY <1>2, <1>3
<1>. HIDE DEF S, f
<1>6. f[k] <= SumOver(f, S) /\ SumOver(f, S) \in Nat
  BY <1>2, <1>3, SumWithout, SumIsNatural
<1>. QED BY <1>4, <1>5, <1>6

(* No other step does anything to the money.                               *)
LEMMA MoneyStep ==
    ASSUME GatewayInv, Matched, [Next]_vars
    PROVE  \/ NothingMoves
           \/ \E k \in Keys : \E r \in Requests : Opens(k, r)
           \/ \E k \in Keys : \E cost \in Nat : Closes(k, cost)
<1>1. TypeOK /\ Rows /\ \A k \in Keys : RowSound(k)
  BY DEF GatewayInv, TypeOK
<1>2. ASSUME UNCHANGED <<rows, accounts>>
      PROVE  NothingMoves
  BY <1>2 DEF NothingMoves, SameMoney, rows
<1>3. ASSUME NEW p \in Procs, Reserve(p)
      PROVE  \E k \in Keys : \E r \in Requests : Opens(k, r)
  <2>. DEFINE r == call[p].request
              k == KeyOf[r]
  <2>1. r \in Requests /\ k \in Keys
    BY <1>3 DEF Reserve, GatewayInv, CallNamed, At
  <2>2. /\ outcome[k] = "none" /\ Fits(r)
        /\ reserved' = [reserved EXCEPT ![ScopeOf[r]] = @ + MaxCost[r]]
        /\ outcome' = [outcome EXCEPT ![k] = "reserved"]
        /\ request' = [request EXCEPT ![k] = r]
        /\ spent' = spent /\ charged' = charged
    BY <1>3 DEF Reserve
  <2>. HIDE DEF r, k
  <2>3. Opens(k, r)
    BY <1>1, <2>1, <2>2 DEF Opens, SameMoney, open, Rows
  <2>. QED BY <2>1, <2>3
<1>4. ASSUME NEW p \in Procs, Dispatch(p)
      PROVE  NothingMoves
  <2>1. Key(p) \in Keys
    BY <1>4, WorkingRow DEF Dispatch, At, working
  <2>2. /\ outcome[Key(p)] = "reserved"
        /\ outcome' = [outcome EXCEPT ![Key(p)] = "dispatched"]
        /\ UNCHANGED <<request, charged, accounts>>
    BY <1>4 DEF Dispatch
  <2>. QED BY <1>1, <2>1, <2>2 DEF NothingMoves, SameMoney, open, final, Rows
<1>5. ASSUME NEW p \in Procs, Settle(p)
      PROVE  \E k \in Keys : \E cost \in Nat : Closes(k, cost)
  <2>. DEFINE r == call[p].request
              k == Key(p)
              cost == call[p].cost
  <2>1. /\ r \in Requests /\ k \in Keys /\ request[k] = r
        /\ cost \in Nat
    BY <1>1, <1>5, WorkingRow DEF Settle, At, working, TypeOK, Call
  <2>2. /\ outcome[k] = "dispatched" /\ cost <= MaxCost[r]
        /\ \E o \in final : outcome' = [outcome EXCEPT ![k] = o]
        /\ charged' = [charged EXCEPT ![k] = cost]
        /\ spent' = [spent EXCEPT ![ScopeOf[r]] = @ + cost]
        /\ reserved' = [reserved EXCEPT ![ScopeOf[r]] = @ - MaxCost[r]]
        /\ request' = request
    BY <1>5 DEF Settle, Key, Chargeable, final
  <2>. HIDE DEF r, k, cost
  <2>3. PICK o \in final : outcome' = [outcome EXCEPT ![k] = o]
    BY <2>2
  <2>4. Closes(k, cost)
    BY <1>1, <2>1, <2>2, <2>3 DEF Closes, SameMoney, open, final, Rows
  <2>. QED BY <2>1, <2>4
<1>6. ASSUME NEW k \in Keys, outcome[k] \in open, UNCHANGED <<request, charged, spent>>,
             outcome' = [outcome EXCEPT ![k] = "failed"],
             reserved' = [reserved EXCEPT ![ScopeOf[request[k]]] = @ - MaxCost[request[k]]]
      PROVE  \E j \in Keys : \E cost \in Nat : Closes(j, cost)
  <2>1. request[k] \in Requests /\ charged[k] = 0
    BY <1>1, <1>6 DEF RowSound, open, final
  <2>2. MaxCost[request[k]] \in Nat /\ ScopeOf[request[k]] \in Scopes
    BY <2>1
  <2>3. spent' = [spent EXCEPT ![ScopeOf[request[k]]] = @ + 0]
    BY <1>1, <1>6, <2>2 DEF TypeOK
  <2>4. /\ outcome'[k] \in final
        /\ \A j \in Keys \ {k} : SameMoney(j)
    BY <1>1, <1>6 DEF SameMoney, final, Rows
  <2>5. charged'[k] = 0 /\ request'[k] = request[k] /\ 0 <= MaxCost[request[k]]
    BY <1>6, <2>1, <2>2
  <2>6. Closes(k, 0)
    BY <1>6, <2>3, <2>4, <2>5 DEF Closes
  <2>. QED BY <2>6
<1>7. ASSUME NEW p \in Procs, call[p].pc \in working, NEW unknown \in BOOLEAN, NEW id,
             LedgerFail(Key(p), unknown, id)
      PROVE  \/ NothingMoves
             \/ \E k \in Keys : \E cost \in Nat : Closes(k, cost)
  <2>1. Key(p) \in Keys
    BY <1>7, WorkingRow
  <2>2. /\ outcome[Key(p)] \in unsettled
        /\ outcome' = [outcome EXCEPT ![Key(p)] = IF unknown THEN "outcome_unknown"
                                                  ELSE "failed"]
        /\ reserved' = AfterFailure(Key(p), unknown)
        /\ UNCHANGED <<request, charged, spent>>
    BY <1>7 DEF LedgerFail
  <2>3. CASE unknown
    BY <1>1, <2>1, <2>2, <2>3
       DEF NothingMoves, SameMoney, open, final, unsettled, AfterFailure, accounts, Rows
  <2>4. CASE ~unknown
    BY <1>6, <2>1, <2>2, <2>4 DEF unsettled, open, AfterFailure
  <2>. QED BY <2>3, <2>4
<1>8. ASSUME NEW p \in Procs, ProviderUnavailable(p) \/ Fail(p)
      PROVE  \/ NothingMoves
             \/ \E k \in Keys : \E cost \in Nat : Closes(k, cost)
  <2>1. call[p].pc \in working
    BY <1>8 DEF ProviderUnavailable, Fail, At, working
  <2>2. \E unknown \in BOOLEAN : \E id : LedgerFail(Key(p), unknown, id)
    <3>1. call[p].outcomeUnknown \in BOOLEAN /\ call[p].requestId \in BOOLEAN
      BY <1>1 DEF TypeOK, Call
    <3>2. (call[p].outcomeUnknown \/ call[p].requestId) \in BOOLEAN
      BY <3>1
    <3>. QED BY <1>8, <3>2 DEF ProviderUnavailable, Fail
  <2>. QED BY <1>7, <2>1, <2>2
<1>9. ASSUME NEW k \in Keys, reconcileUnknownAsFailed(k)
      PROVE  \E j \in Keys : \E cost \in Nat : Closes(j, cost)
  <2>1. outcome[k] \in open
    BY <1>9 DEF reconcileUnknownAsFailed, open
  <2>2. reserved[ScopeOf[request[k]]] >= MaxCost[request[k]]
    BY <2>1, HeldIsCovered
  <2>. QED BY <1>6, <1>9, <2>1, <2>2 DEF reconcileUnknownAsFailed
<1>10. CASE reclaimStranded
  <2>1. /\ outcome' = Reclaimed
        /\ UNCHANGED <<request, charged, accounts>>
    BY <1>10 DEF reclaimStranded
  <2>2. \A k \in stranded : outcome[k] = "dispatched" /\ k \in Keys
    BY <1>1 DEF RowSound, Rows
  <2>. QED BY <2>1, <2>2 DEF NothingMoves, SameMoney, open, final, Reclaimed
<1>11. ASSUME NEW k \in Keys, NEW passed, recordVerification(k, passed)
       PROVE  NothingMoves
  BY <1>11 DEF recordVerification, NothingMoves, SameMoney
<1>12. CASE UNCHANGED vars
  BY <1>2, <1>12 DEF vars
<1>13. ASSUME NEW p \in Procs, Working(p)
       PROVE  \/ UNCHANGED <<rows, accounts>>
              \/ Reserve(p) \/ Dispatch(p) \/ Settle(p)
              \/ ProviderUnavailable(p) \/ Fail(p)
  BY <1>13 DEF Working, ReserveThrows, Invoke, Answer, AdapterFails, SettleThrows, FailThrows
<1>. QED
  BY <1>2, <1>3, <1>4, <1>5, <1>8, <1>9, <1>10, <1>11, <1>12, <1>13
     DEF Next, Submit, DatabaseFails, Crash, Age

(* The two sums of an account, and what each kind of step does to them.    *)
Prices(S) == [k \in S |-> MaxCost[request[k]]]

AccountMatches(s) ==
    /\ reserved[s] = SumOver(Prices(HeldFor(s)), HeldFor(s))
    /\ spent[s] = SumOver(charged, ChargedTo(s))

LEMMA MatchedByAccount ==
    AccountsMatchRows <=> \A s \in Scopes : AccountMatches(s)
  BY Zenon DEF AccountsMatchRows, AccountMatches, Prices

(* A row whose money stays is counted where it was.                        *)
LEMMA StaysCounted ==
    ASSUME NEW j \in Keys, SameMoney(j), NEW s
    PROVE  /\ j \in HeldFor(s)' <=> j \in HeldFor(s)
           /\ j \in ChargedTo(s)' <=> j \in ChargedTo(s)
           /\ j \in Present' <=> j \in Present
           /\ j \in HeldFor(s) => request'[j] = request[j]
           /\ j \in ChargedTo(s) => charged'[j] = charged[j]
  BY DEF SameMoney, HeldFor, ChargedTo, Present, open, final

LEMMA NothingMovesMatched ==
    ASSUME GatewayInv, Matched, NothingMoves
    PROVE  Matched'
<1>1. Present' = Present
  BY StaysCounted DEF NothingMoves, Present
<1>2. ASSUME NEW s \in Scopes PROVE AccountMatches(s)'
  <2>1. HeldFor(s)' = HeldFor(s) /\ ChargedTo(s)' = ChargedTo(s)
    BY StaysCounted DEF NothingMoves, HeldFor, ChargedTo
  <2>2. /\ \A j \in HeldFor(s) : Prices(HeldFor(s))'[j] = Prices(HeldFor(s))[j]
        /\ \A j \in ChargedTo(s) : charged'[j] = charged[j]
    BY <2>1, StaysCounted DEF NothingMoves, Prices, HeldFor, ChargedTo
  <2>3. IsFiniteSet(HeldFor(s)) /\ IsFiniteSet(ChargedTo(s))
    BY SumsDefined DEF Matched
  <2>4. /\ SumOver(Prices(HeldFor(s))', HeldFor(s)) = SumOver(Prices(HeldFor(s)), HeldFor(s))
        /\ SumOver(charged', ChargedTo(s)) = SumOver(charged, ChargedTo(s))
    BY <2>2, <2>3, SumsAgree
  <2>5. AccountMatches(s)
    BY MatchedByAccount DEF Matched
  <2>. QED BY <2>1, <2>4, <2>5 DEF AccountMatches, NothingMoves, accounts
<1>. QED BY <1>1, <1>2 DEF Matched, AccountsMatchRows, AccountMatches, Prices

LEMMA OpensMatched ==
    ASSUME GatewayInv, Matched, NEW k \in Keys, NEW r \in Requests, Opens(k, r)
    PROVE  Matched'
<1>1. Present' = Present \cup {k}
  BY StaysCounted DEF Opens, Present, open
<1>2. IsFiniteSet(Present')
  BY <1>1, FS_AddElement DEF Matched
<1>3. ASSUME NEW s \in Scopes PROVE AccountMatches(s)'
  <2>. DEFINE H == HeldFor(s)
              C == ChargedTo(s)
  <2>1. AccountMatches(s)
    BY MatchedByAccount DEF Matched
  <2>2. /\ IsFiniteSet(H) /\ IsFiniteSet(C)
        /\ \A j \in H : MaxCost[request[j]] \in Nat
    BY SumsDefined DEF Matched
  <2>3. k \notin H /\ k \notin C
    BY DEF Opens, HeldFor, ChargedTo, open, final
  <2>4. C' = C /\ \A j \in C : charged'[j] = charged[j]
    BY StaysCounted, <2>3 DEF Opens, ChargedTo, open, final
  <2>5. SumOver(charged', C) = SumOver(charged, C)
    BY <2>2, <2>4, SumsAgree
  <2>6. spent'[s] = SumOver(charged', ChargedTo(s)')
    BY <2>1, <2>4, <2>5 DEF AccountMatches, Opens
  <2>7. reserved'[s] = SumOver(Prices(HeldFor(s))', HeldFor(s)')
    <3>1. CASE ScopeOf[r] = s
      <4>1. H' = H \cup {k}
        BY <3>1, StaysCounted DEF Opens, HeldFor
      <4>2. /\ \A j \in H : Prices(H)[j] \in Nat /\ Prices(H)'[j] = Prices(H)[j]
            /\ Prices(H)'[k] = MaxCost[r] /\ MaxCost[r] \in Nat
        BY <2>2, <2>3, <4>1, StaysCounted DEF Opens, Prices, HeldFor
      <4>3. SumOver(Prices(H)', H \cup {k}) = SumOver(Prices(H), H) + Prices(H)'[k]
        <5>. DEFINE f == Prices(H)
                    g == Prices(H)'
                    G == H \cup {k}
        <5>1. /\ IsFiniteSet(G) /\ k \in G
              /\ \A j \in G : g[j] \in Nat
              /\ \A j \in G \ {k} : f[j] = g[j]
          BY <2>2, <2>3, <4>2, FS_AddElement
        <5>3. G \ {k} = H
          BY <2>3
        <5>. HIDE DEF H, G, f, g
        <5>2. SumOver(g, G) = SumOver(f, G \ {k}) + g[k]
          BY ONLY <5>1, SumWith
        <5>. QED BY <5>2, <5>3 DEF f, g, G
      <4>4. reserved'[s] = reserved[s] + MaxCost[r]
        BY <3>1 DEF Opens, GatewayInv, TypeOK
      <4>. QED BY <2>1, <4>1, <4>2, <4>3, <4>4 DEF AccountMatches, H
    <3>2. CASE ScopeOf[r] # s
      <4>1. H' = H
        BY <3>2, <2>3, StaysCounted DEF Opens, HeldFor
      <4>2. \A j \in H : Prices(H)'[j] = Prices(H)[j]
        BY <2>3, <4>1, StaysCounted DEF Opens, Prices, HeldFor
      <4>3. SumOver(Prices(H)', H) = SumOver(Prices(H), H)
        BY <2>2, <4>2, SumsAgree
      <4>4. reserved'[s] = reserved[s]
        BY <3>2 DEF Opens, GatewayInv, TypeOK
      <4>. QED BY <2>1, <4>1, <4>3, <4>4 DEF AccountMatches
    <3>. QED BY <3>1, <3>2
  <2>. QED BY <2>6, <2>7 DEF AccountMatches
<1>. QED BY <1>2, <1>3 DEF Matched, AccountsMatchRows, AccountMatches, Prices

LEMMA ClosesMatched ==
    ASSUME GatewayInv, Matched, NEW k \in Keys, NEW cost \in Nat, Closes(k, cost)
    PROVE  Matched'
<1>1. Present' = Present
  BY StaysCounted DEF Closes, Present, open, final
<1>2. request[k] \in Requests
  BY DEF Closes, GatewayInv, RowSound, open
<1>3. ASSUME NEW s \in Scopes PROVE AccountMatches(s)'
  <2>. DEFINE H == HeldFor(s)
              C == ChargedTo(s)
  <2>1. AccountMatches(s)
    BY MatchedByAccount DEF Matched
  <2>2. /\ IsFiniteSet(H) /\ IsFiniteSet(C)
        /\ \A j \in H : MaxCost[request[j]] \in Nat
        /\ \A j \in C : charged[j] \in Nat
    BY SumsDefined DEF Matched
  <2>3. k \notin C
    BY DEF Closes, ChargedTo, open, final
  <2>4. \A j \in C : charged'[j] = charged[j]
    BY <2>3, StaysCounted DEF Closes, ChargedTo
  <2>5. CASE ScopeOf[request[k]] = s
    <3>1. k \in H /\ H' = H \ {k} /\ C' = C \cup {k}
      BY <2>5, StaysCounted DEF Closes, HeldFor, ChargedTo, open, final
    <3>2. /\ \A j \in H : Prices(H)[j] \in Nat
          /\ \A j \in H \ {k} : Prices(H)'[j] = Prices(H)[j]
          /\ Prices(H)[k] = MaxCost[request[k]]
      BY <2>2, <3>1, StaysCounted DEF Closes, Prices, HeldFor
    <3>3. charged'[k] = cost
      BY DEF Closes
    <3>4. /\ reserved'[s] = reserved[s] - MaxCost[request[k]]
          /\ spent'[s] = spent[s] + cost
      BY <2>5 DEF Closes, GatewayInv, TypeOK
    <3>5. SumOver(Prices(H)', H \ {k}) = SumOver(Prices(H), H) - Prices(H)[k]
      <4>. DEFINE f == Prices(H)
                  g == Prices(H)'
      <4>1. /\ IsFiniteSet(H) /\ k \in H
            /\ \A j \in H : f[j] \in Nat
            /\ \A j \in H \ {k} : g[j] = f[j]
        BY <2>2, <3>1, <3>2
      <4>. HIDE DEF H, f, g
      <4>2. SumOver(g, H \ {k}) = SumOver(f, H) - f[k]
        BY <4>1, SumWithout
      <4>. QED BY <4>2 DEF f, g
    <3>6. SumOver(charged', C \cup {k}) = SumOver(charged, C) + charged'[k]
      <4>. DEFINE f == charged
                  g == charged'
                  G == C \cup {k}
      <4>1. /\ IsFiniteSet(G) /\ k \in G /\ G \ {k} = C
            /\ \A j \in G : g[j] \in Nat
            /\ \A j \in G \ {k} : f[j] = g[j]
        BY <2>2, <2>3, <2>4, <3>3, FS_AddElement
      <4>. HIDE DEF C, G, f, g
      <4>2. SumOver(g, G) = SumOver(f, C) + g[k]
        BY <4>1, SumWith
      <4>. QED BY <4>2 DEF f, g, G
    <3>. QED BY <2>1, <3>1, <3>2, <3>3, <3>4, <3>5, <3>6 DEF AccountMatches, H, C
  <2>6. CASE ScopeOf[request[k]] # s
    <3>1. k \notin H /\ H' = H /\ C' = C
      <4>1. k \notin H /\ k \notin H' /\ k \notin C'
        BY <2>6 DEF Closes, HeldFor, ChargedTo
      <4>2. \A j \in Keys \ {k} : (j \in H' <=> j \in H) /\ (j \in C' <=> j \in C)
        BY StaysCounted DEF Closes
      <4>3. H \subseteq Keys /\ H' \subseteq Keys /\ C \subseteq Keys /\ C' \subseteq Keys
        BY DEF HeldFor, ChargedTo
      <4>4. H' = H
        BY <4>1, <4>2, <4>3
      <4>5. C' = C
        BY <2>3, <4>1, <4>2, <4>3
      <4>. QED BY <4>1, <4>4, <4>5
    <3>2. \A j \in H : Prices(H)'[j] = Prices(H)[j]
      BY <3>1, StaysCounted DEF Closes, Prices, HeldFor
    <3>3. /\ SumOver(Prices(H)', H) = SumOver(Prices(H), H)
          /\ SumOver(charged', C) = SumOver(charged, C)
      BY <2>2, <2>4, <3>2, SumsAgree
    <3>4. reserved'[s] = reserved[s] /\ spent'[s] = spent[s]
      BY <2>6 DEF Closes, GatewayInv, TypeOK
    <3>. QED BY <2>1, <3>1, <3>3, <3>4 DEF AccountMatches
  <2>. QED BY <2>5, <2>6
<1>. QED BY <1>1, <1>3 DEF Matched, AccountsMatchRows, AccountMatches, Prices

LEMMA InitMatched == Init => Matched
<1>. SUFFICES ASSUME Init PROVE Matched
  OBVIOUS
<1>1. Present = {} /\ \A s : HeldFor(s) = {} /\ ChargedTo(s) = {}
  BY DEF Init, Present, HeldFor, ChargedTo, open, final
<1>2. \A s \in Scopes : reserved[s] = 0 /\ spent[s] = 0
  BY DEF Init
<1>3. \A s \in Scopes : AccountMatches(s)
  BY <1>1, <1>2, SumOfNone DEF AccountMatches
<1>. QED BY <1>1, <1>3, MatchedByAccount, FS_EmptySet DEF Matched

LEMMA MatchedInvariant == Spec => []Matched
<1>1. GatewayInv /\ Matched /\ [Next]_vars => Matched'
  BY MoneyStep, NothingMovesMatched, OpensMatched, ClosesMatched
<1>. QED BY <1>1, InitMatched, GatewayInvariant, PTL DEF Spec

(* Every account's counters are at all times the sums of its rows.         *)
THEOREM AccountsAreSums == Spec => []AccountsMatchRows
  BY MatchedInvariant, PTL DEF Matched

-----------------------------------------------------------------------------
(* The escrow.  What is set aside for a key is its open row's reservation, *)
(* and what is set aside in a scope is its account's counter.              *)
LEMMA SameSums == \A f, S : Escrow!SumOver(f, S) = SumOver(f, S)
  BY DEF Escrow!SumOver, SumOver, Escrow!MapThenFoldSet, MapThenFoldSet,
         Escrow!AnyOf, AnyOf

LEMMA SetAsideIsReserved ==
    ASSUME GatewayInv, Matched, NEW s \in Scopes
    PROVE  Escrow!HeldIn(s) = reserved[s]
<1>. DEFINE f == [k \in Keys |-> heldNow[k].amount]
            g == Prices(HeldFor(s))
<1>1. Escrow!Set(s) = HeldFor(s)
  BY DEF Escrow!Set, HeldFor, heldNow
<1>2. Escrow!HeldIn(s) = SumOver(f, HeldFor(s))
  BY <1>1, SameSums DEF Escrow!HeldIn
<1>3. \A k \in HeldFor(s) : f[k] = g[k]
  BY DEF HeldFor, heldNow, Prices
<1>4. IsFiniteSet(HeldFor(s))
  BY SumsDefined DEF Matched
<1>5. reserved[s] = SumOver(g, HeldFor(s))
  BY MatchedByAccount DEF Matched, AccountMatches
<1>. HIDE DEF f, g
<1>6. SumOver(f, HeldFor(s)) = SumOver(g, HeldFor(s))
  BY <1>3, <1>4, SumsAgree
<1>. QED BY <1>2, <1>5, <1>6

EscrowVars == <<heldNow, Present, spent>>

LEMMA NothingMovesEscrow ==
    ASSUME GatewayInv, NothingMoves
    PROVE  UNCHANGED EscrowVars
<1>1. \A j \in Keys : heldNow'[j] = heldNow[j]
  BY DEF NothingMoves, SameMoney, heldNow, open
<1>2. heldNow' = heldNow
  BY <1>1 DEF heldNow
<1>3. Present' = Present
  BY StaysCounted DEF NothingMoves, Present
<1>. QED BY <1>2, <1>3 DEF EscrowVars, NothingMoves, accounts

LEMMA OpensEscrow ==
    ASSUME GatewayInv, Matched, NEW k \in Keys, NEW r \in Requests, Opens(k, r)
    PROVE  Escrow!Next
<1>. DEFINE s == ScopeOf[r]
            a == MaxCost[r]
<1>1. s \in Scopes /\ a \in Nat /\ spent[s] \in Nat /\ Budget[s] \in Nat
  BY DEF GatewayInv, TypeOK
<1>2. Escrow!HeldIn(s) = reserved[s]
  BY <1>1, SetAsideIsReserved
<1>3. reserved[s] \in Nat
  <2>1. IsFiniteSet(HeldFor(s)) /\ \A j \in HeldFor(s) : Prices(HeldFor(s))[j] \in Nat
    BY SumsDefined DEF Matched, Prices
  <2>2. reserved[s] = SumOver(Prices(HeldFor(s)), HeldFor(s))
    BY <1>1, MatchedByAccount DEF Matched, AccountMatches
  <2>. QED BY <2>1, <2>2, SumIsNatural
<1>4. spent[s] + Escrow!HeldIn(s) + a <= Budget[s] /\ a \in 0..Budget[s]
  BY <1>1, <1>2, <1>3 DEF Opens, Fits
<1>5. Present' = Present \cup {k} /\ k \notin Present
  BY StaysCounted DEF Opens, Present, open
<1>6. heldNow' = [heldNow EXCEPT ![k] = [scope |-> s, amount |-> a]]
  BY DEF Opens, SameMoney, heldNow, open
<1>7. Escrow!SetAside(k, s, a)
  BY <1>4, <1>5, <1>6 DEF Escrow!SetAside, Present, Opens
<1>. QED BY <1>1, <1>4, <1>7 DEF Escrow!Next

LEMMA ClosesEscrow ==
    ASSUME GatewayInv, NEW k \in Keys, NEW cost \in Nat, Closes(k, cost)
    PROVE  Escrow!Next
<1>1. request[k] \in Requests
  BY DEF Closes, GatewayInv, RowSound, open
<1>2. heldNow[k] = [scope |-> ScopeOf[request[k]], amount |-> MaxCost[request[k]]]
  BY DEF Closes, heldNow
<1>3. heldNow[k] # Escrow!Nothing
  BY <1>1, <1>2 DEF Escrow!Nothing
<1>4. cost \in 0..heldNow[k].amount
  BY <1>1, <1>2 DEF Closes
<1>5. heldNow' = [heldNow EXCEPT ![k] = Escrow!Nothing]
  BY DEF Closes, SameMoney, heldNow, open, final, Escrow!Nothing
<1>6. Present' = Present
  BY StaysCounted DEF Closes, Present, open, final
<1>7. spent' = [spent EXCEPT ![heldNow[k].scope] = @ + cost]
  BY <1>2 DEF Closes
<1>8. Escrow!Spend(k, cost)
  BY <1>3, <1>4, <1>5, <1>6, <1>7 DEF Escrow!Spend, Present
<1>. QED BY <1>4, <1>8 DEF Escrow!Next

(* The ledger implements the escrow: however its calls interleave and      *)
(* whatever dies, money is set aside once for a key, within the budget,    *)
(* and then spent up to what was set aside.                                *)
THEOREM LedgerIsEscrow == Spec => ImplementsEscrow
<1>1. Init => Escrow!Init
  <2>. SUFFICES ASSUME Init PROVE Escrow!Init
    OBVIOUS
  <2>1. heldNow = [k \in Keys |-> Escrow!Nothing]
    BY DEF Init, heldNow, open, Escrow!Nothing
  <2>2. {k \in Keys : outcome[k] # "none"} = {}
    BY DEF Init
  <2>. QED BY <2>1, <2>2 DEF Init, Escrow!Init
<1>2. GatewayInv /\ Matched /\ [Next]_vars => Escrow!Next \/ UNCHANGED EscrowVars
  BY MoneyStep, NothingMovesEscrow, OpensEscrow, ClosesEscrow
<1>3. GatewayInv /\ Matched /\ [Next]_vars
          => [Escrow!Next]_<<heldNow, {k \in Keys : outcome[k] # "none"}, spent>>
  BY <1>2 DEF EscrowVars, Present
<1>. QED
  BY <1>1, <1>3, MatchedInvariant, GatewayInvariant, PTL DEF Spec, ImplementsEscrow, Escrow!Spec

-----------------------------------------------------------------------------
(* What BudgetEscrow promises, which the ledger keeps because its counters *)
(* are the sums the escrow speaks of.                                      *)

(* Spent and set aside together, over any number of calls that are under   *)
(* way, stay within what the owner allows a scope.                         *)
THEOREM EscrowPromised == Spec => []Escrow!EscrowPromise
<1>1. GatewayInv /\ Matched /\ WithinBudget => Escrow!EscrowPromise
  <2>. SUFFICES ASSUME GatewayInv, Matched, WithinBudget PROVE Escrow!EscrowPromise
    OBVIOUS
  <2>1. \A s \in Scopes : spent[s] + Escrow!HeldIn(s) <= Budget[s]
    <3>1. \A s \in Scopes : spent[s] + reserved[s] <= Budget[s]
      BY DEF WithinBudget
    <3>. QED BY <3>1, SetAsideIsReserved
  <2>2. \A k \in Keys : outcome[k] = "none" => heldNow[k] = Escrow!Nothing
    BY DEF heldNow, open, Escrow!Nothing
  <2>. QED BY <2>1, <2>2 DEF Escrow!EscrowPromise
<1>. QED BY <1>1, MatchedInvariant, GatewayInvariant, BudgetKept, PTL

(* Money is set aside for a key once, and stays as it is until it is spent *)
(* or given back; nothing that was spent is taken back.                    *)
THEOREM EscrowLasts == Spec => Escrow!EscrowSteps
<1>1. ASSUME GatewayInv, Escrow!Next PROVE Escrow!Lasting
  <2>1. /\ heldNow = [k \in Keys |-> heldNow[k]]
        /\ heldNow' = [k \in Keys |-> heldNow'[k]]
    BY DEF heldNow
  <2>2. spent \in [Scopes -> Nat]
    BY <1>1 DEF GatewayInv, TypeOK
  <2>3. ASSUME NEW k \in Keys, NEW s \in Scopes, NEW a \in 0..Budget[s],
               Escrow!SetAside(k, s, a)
        PROVE  Escrow!Lasting
    BY <2>1, <2>2, <2>3 DEF Escrow!SetAside, Escrow!Lasting
  <2>4. ASSUME NEW k \in Keys, NEW c \in 0..heldNow[k].amount, Escrow!Spend(k, c)
        PROVE  Escrow!Lasting
    <3>1. \A j \in Keys : heldNow'[j] = IF j = k THEN Escrow!Nothing ELSE heldNow[j]
      BY <2>1, <2>4 DEF Escrow!Spend
    <3>2. \A s \in Scopes : spent[s] <= spent'[s]
      BY <2>2, <2>4 DEF Escrow!Spend
    <3>. QED BY <2>4, <3>1, <3>2 DEF Escrow!Spend, Escrow!Lasting
  <2>5. ASSUME NEW k \in Keys, Escrow!GiveBack(k)
        PROVE  Escrow!Lasting
    <3>1. \A j \in Keys : heldNow'[j] = IF j = k THEN Escrow!Nothing ELSE heldNow[j]
      BY <2>1, <2>5 DEF Escrow!GiveBack
    <3>. QED BY <2>2, <2>5, <3>1 DEF Escrow!GiveBack, Escrow!Lasting
  <2>. QED BY <1>1, <2>3, <2>4, <2>5 DEF Escrow!Next
<1>2. GatewayInv /\ [Escrow!Next]_<<heldNow, {k \in Keys : outcome[k] # "none"}, spent>>
        => [Escrow!Lasting]_<<heldNow, {k \in Keys : outcome[k] # "none"}, spent>>
  BY <1>1
<1>. QED
  BY <1>2, GatewayInvariant, LedgerIsEscrow, PTL
     DEF ImplementsEscrow, Escrow!Spec, Escrow!EscrowSteps

=============================================================================
